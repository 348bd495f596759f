---------------------------- MODULE StartupProofs ----------------------------
(* Theorems about Statistics and Startup.                                    *)
(*                                                                           *)
(* Of a worker with any number of threads, any size of the ring and any cut  *)
(* of the counts: the variables keep their types, the umask is put back      *)
(* while no two threads are in write_result at once, the message counter is  *)
(* never ahead of the jobs, and a whole round of punctual ticks leaves the   *)
(* connections of just these seconds in the ring.                            *)
(*                                                                           *)
(* Of a start with a file of any length: settings within the limits, the     *)
(* types, and the above for the worker of the start.                         *)
EXTENDS Startup, FiniteSetTheorems, WellFoundedInduction, TLAPS

-----------------------------------------------------------------------------
(* The inductive invariant of a worker *)

\* As long as no two threads were in write_result at once: at most one is, each
\* thread's saved umask is the public one, and the umask tells whether one is
\* inside. A single thread cannot overlap with itself.
UmaskTold ==
  /\ threads = 0 => ~overlapped
  /\ ~overlapped =>
       /\ ~exposed
       /\ \A t \in Ids: old_umask[t] = "public"
       /\ \A t, u \in Actors: Inside(t) /\ Inside(u) => t = u
       /\ (\E t \in Actors: Inside(t)) => umask = "private"
       /\ (\A t \in Actors: ~Inside(t)) => umask = "public"
  /\ threads = 0 => statfile # "private"

\* What a thread is about to write is not ahead of the jobs; with nothing lost
\* so far one thread at most is about to write, and just what is missing.
SumsBounded ==
  /\ message_success <= reported
  /\ \A t \in Ids: tpc[t] = "add" => register[t] + adding[t] <= reported
SumsExact ==
  ~lossy =>
    /\ \A t, u \in Actors: tpc[t] = "add" /\ tpc[u] = "add" => t = u
    /\ \A t \in Actors: tpc[t] = "add" =>
         register[t] = message_success /\ message_success + adding[t] = reported
    /\ (\A t \in Actors: tpc[t] # "add") => message_success = reported

IInv == TypeOK /\ UmaskTold /\ SumsBounded /\ SumsExact

-----------------------------------------------------------------------------
(* Facts about the data *)

\* The rest of a division lies in the range of the divisor.
LEMMA RestInRange ==
  ASSUME NEW n \in Nat, NEW m \in Nat \ {0}
  PROVE  n % m \in 0..(m - 1)
OBVIOUS

\* The rest is no more than the number, and is the number below the divisor.
LEMMA RestBounded ==
  ASSUME NEW n \in Nat, NEW m \in Nat \ {0}
  PROVE  /\ n % m \in Nat /\ n % m <= n
         /\ n < m => n % m = n
OBVIOUS

\* Nothing is left of the divisor itself.
LEMMA RestOfItself ==
  ASSUME NEW m \in Nat \ {0}
  PROVE  m % m = 0
OBVIOUS

\* Every thread that runs is one of those there may be.
LEMMA ActorsAreIds ==
  ASSUME TypeOK
  PROVE  Actors \subseteq Ids
BY SizeAssumption DEF TypeOK, Actors, Ids

-----------------------------------------------------------------------------
(* The first state *)

\* A new worker satisfies it, with any number of threads it may have.
LEMMA NewWorker ==
  ASSUME NEW n \in 0..MaxThreads, InitWith(n)
  PROVE  IInv
<1>1. TypeOK
  <2>1. 0 \in Buckets /\ 0 \in 0..MaxReported /\ 0 \in 0..MaxCounter
        /\ 0 \in 0..counter /\ 0 \in 0..RPS_RESOLUTION
    BY SizeAssumption DEF Buckets, InitWith
  <2>2. \A t \in Ids: tpc[t] = "queue"
    BY DEF InitWith
  <2>3. threads \in 0..MaxThreads /\ counter = 0
    BY DEF InitWith
  <2> QED
    BY <2>1, <2>2, <2>3 DEF InitWith, TypeOK
<1>2. UmaskTold
  BY <1>1, ActorsAreIds DEF InitWith, UmaskTold, Inside, Ids
<1>3. SumsBounded
  BY DEF InitWith, SumsBounded, Ids
<1>4. SumsExact
  BY <1>1, ActorsAreIds DEF InitWith, SumsExact, Ids
<1> QED
  BY <1>1, <1>2, <1>3, <1>4 DEF IInv

LEMMA Initial == Init => IInv
BY NewWorker DEF Init

-----------------------------------------------------------------------------
(* Each step keeps the invariant *)

\* What a step that leaves the counts alone does to the sums: nothing, when it
\* moves no thread into or out of the addition.
LEMMA SumsUndisturbed ==
  ASSUME IInv, UNCHANGED countVars, UNCHANGED threads,
         \A t \in Ids: (tpc'[t] = "add") = (tpc[t] = "add")
  PROVE  SumsBounded' /\ SumsExact'
<1> USE DEF IInv, countVars
<1>1. SumsBounded'
  BY DEF SumsBounded
<1>2. SumsExact'
  <2>1. Actors' = Actors /\ Actors \subseteq Ids
    BY ActorsAreIds DEF Actors
  <2> QED
    BY <2>1 DEF SumsExact
<1> QED
  BY <1>1, <1>2

LEMMA MaskKeeps ==
  ASSUME IInv, NEW t \in Ids, Mask(t)
  PROVE  IInv'
<1> USE DEF IInv, umaskVars, countVars, rateVars
<1>1. TypeOK'
  BY DEF Mask, TypeOK, Actors
<1>2. UmaskTold'
  <2>1. Actors' = Actors /\ t \in Actors /\ Actors \subseteq Ids
    BY ActorsAreIds DEF Mask, Actors
  <2>2. ~Inside(t) /\ Inside(t)' /\ \A u \in Ids \ {t}: Inside(u)' = Inside(u)
    BY DEF Mask, Inside, TypeOK
  <2>3. CASE overlapped'
    BY <2>1, <2>2, <2>3 DEF Mask, UmaskTold, Actors, TypeOK
  <2>4. CASE ~overlapped'
    <3>1. ~overlapped /\ \A u \in Actors: ~Inside(u)
      BY <2>4 DEF Mask, TypeOK
    <3>2. old_umask'[t] = "public"
      BY <3>1 DEF Mask, UmaskTold, TypeOK
    <3> QED
      BY <2>1, <2>2, <2>4, <3>1, <3>2 DEF Mask, UmaskTold, TypeOK
  <2> QED
    BY <2>3, <2>4
<1>3. SumsBounded' /\ SumsExact'
  <2>1. \A u \in Ids: (tpc'[u] = "add") = (tpc[u] = "add")
    BY DEF Mask, TypeOK
  <2> QED
    BY <2>1, SumsUndisturbed DEF Mask
<1> QED
  BY <1>1, <1>2, <1>3

LEMMA MakeOkKeeps ==
  ASSUME IInv, NEW t \in Ids, MakeOk(t)
  PROVE  IInv'
<1> USE DEF IInv, umaskVars, countVars, rateVars
<1>1. TypeOK'
  BY DEF MakeOk, TypeOK, Actors
<1>2. UmaskTold'
  <2>1. Actors' = Actors /\ t \in Actors /\ Actors \subseteq Ids
    BY ActorsAreIds DEF MakeOk, Actors
  <2>2. Inside(t) /\ \A u \in Ids: Inside(u)' = Inside(u)
    BY DEF MakeOk, Inside, TypeOK
  <2>3. ~overlapped => umask = "private" /\ ~exposed'
    BY <2>1, <2>2 DEF MakeOk, UmaskTold
  <2> QED
    BY <2>1, <2>2, <2>3 DEF MakeOk, UmaskTold
<1>3. SumsBounded' /\ SumsExact'
  <2>1. \A u \in Ids: (tpc'[u] = "add") = (tpc[u] = "add")
    BY DEF MakeOk, TypeOK
  <2> QED
    BY <2>1, SumsUndisturbed DEF MakeOk
<1> QED
  BY <1>1, <1>2, <1>3

LEMMA RestoreKeeps ==
  ASSUME IInv, NEW t \in Ids, Restore(t)
  PROVE  IInv'
<1> USE DEF IInv, umaskVars, countVars, rateVars
<1>1. TypeOK'
  BY DEF Restore, PutBack, TypeOK, Actors
<1>2. UmaskTold'
  <2>1. Actors' = Actors /\ t \in Actors /\ Actors \subseteq Ids
    BY ActorsAreIds DEF Restore, Actors
  <2>2. Inside(t) /\ ~Inside(t)' /\ \A u \in Ids \ {t}: Inside(u)' = Inside(u)
    BY DEF Restore, Inside, TypeOK
  <2>3. ~overlapped => umask' = "public" /\ \A u \in Actors: ~Inside(u)'
    BY <2>1, <2>2 DEF Restore, PutBack, UmaskTold
  <2>4. ~overlapped => \A u \in Ids: old_umask'[u] = "public"
    BY DEF Restore, UmaskTold, TypeOK
  <2> QED
    BY <2>1, <2>3, <2>4 DEF Restore, UmaskTold
<1>3. SumsBounded' /\ SumsExact'
  <2>1. \A u \in Ids: (tpc'[u] = "add") = (tpc[u] = "add")
    BY DEF Restore, Inside, TypeOK
  <2> QED
    BY <2>1, SumsUndisturbed DEF Restore
<1> QED
  BY <1>1, <1>2, <1>3

\* What a step that leaves the umask alone, and everyone inside or outside
\* write_result, does to its part: nothing.
LEMMA UmaskUndisturbed ==
  ASSUME IInv, UNCHANGED umaskVars, UNCHANGED threads, UNCHANGED statfile,
         \A t \in Ids: Inside(t)' = Inside(t)
  PROVE  UmaskTold'
<1>1. Actors' = Actors /\ Actors \subseteq Ids
  BY ActorsAreIds DEF Actors, IInv
<1> QED
  BY <1>1 DEF IInv, UmaskTold, umaskVars

LEMMA ReadCountKeeps ==
  ASSUME IInv, NEW t \in Ids, ReadCount(t)
  PROVE  IInv'
<1> USE DEF IInv, umaskVars, countVars, rateVars
<1> PICK n \in 1..(MaxReported - reported):
      /\ reported' = reported + n
      /\ adding' = [adding EXCEPT ![t] = n % Wrap]
      /\ IF n % Wrap = 0
           THEN lossy' = TRUE /\ UNCHANGED <<tpc, register>>
           ELSE /\ lossy' = (lossy \/ n > Wrap \/ \E u \in Actors: tpc[u] = "add")
                /\ tpc' = [tpc EXCEPT ![t] = "add"]
                /\ register' = [register EXCEPT ![t] = message_success]
  BY DEF ReadCount
<1>1. /\ t \in Actors /\ tpc[t] = "queue" /\ Actors' = Actors
      /\ UNCHANGED <<threads, umaskVars, statfile, message_success, rateVars>>
      /\ Actors \subseteq Ids
  BY ActorsAreIds DEF ReadCount, Actors
<1>2. /\ n \in Nat /\ n > 0 /\ reported \in Nat /\ message_success \in Nat
      /\ n % Wrap \in Nat /\ n % Wrap <= n /\ (n < Wrap => n % Wrap = n)
      /\ (n = Wrap => n % Wrap = 0)
      /\ reported + n <= MaxReported
  <2>1. n \in Nat /\ n > 0 /\ reported \in Nat /\ message_success \in Nat
        /\ reported + n <= MaxReported
    BY SizeAssumption DEF TypeOK
  <2> QED
    BY <2>1, RestBounded, RestOfItself, SizeAssumption
<1>3. TypeOK'
  <2>1. /\ adding' \in [Ids -> 0..MaxReported] /\ reported' \in 0..MaxReported
        /\ register' \in [Ids -> 0..MaxReported]
    BY <1>2, SizeAssumption DEF TypeOK
  <2>2. /\ tpc' \in [Ids -> {"queue", "masked", "made", "add"}]
        /\ \A u \in Ids \ Actors: tpc'[u] = "queue"
    BY <1>1 DEF TypeOK
  <2>3. lossy' \in BOOLEAN
    BY DEF TypeOK
  <2> QED
    BY <1>1, <2>1, <2>2, <2>3 DEF TypeOK
<1>4. UmaskTold'
  <2>1. \A u \in Ids: Inside(u)' = Inside(u)
    BY <1>1 DEF Inside, TypeOK
  <2> QED
    BY <1>1, <2>1, UmaskUndisturbed
<1>5. SumsBounded'
  BY <1>1, <1>2 DEF SumsBounded, TypeOK
<1>6. SumsExact'
  <2> SUFFICES ASSUME ~lossy'
               PROVE  SumsExact'
    BY DEF SumsExact
  <2>1. n % Wrap # 0 /\ ~lossy /\ ~(n > Wrap) /\ \A u \in Actors: tpc[u] # "add"
    BY DEF TypeOK
  <2>2. n % Wrap = n /\ message_success = reported
    BY <1>2, <2>1, SizeAssumption DEF SumsExact
  <2>3. /\ tpc'[t] = "add" /\ \A u \in Actors \ {t}: tpc'[u] # "add"
        /\ register'[t] = message_success /\ adding'[t] = n
    BY <1>1, <2>1, <2>2 DEF TypeOK
  <2> QED
    BY <1>1, <1>2, <2>2, <2>3 DEF SumsExact
<1> QED
  BY <1>3, <1>4, <1>5, <1>6

LEMMA WriteCountKeeps ==
  ASSUME IInv, NEW t \in Ids, WriteCount(t)
  PROVE  IInv'
<1> USE DEF IInv, umaskVars, countVars, rateVars
<1>1. /\ t \in Actors /\ tpc[t] = "add" /\ Actors' = Actors
      /\ UNCHANGED <<threads, umaskVars, statfile, reported, lossy, rateVars>>
      /\ Actors \subseteq Ids
  BY ActorsAreIds DEF WriteCount, Actors
<1>2. /\ message_success' = register[t] + adding[t]
      /\ register[t] \in Nat /\ adding[t] \in Nat /\ reported \in Nat
      /\ message_success' <= reported
  BY <1>1, SizeAssumption DEF WriteCount, Total, SumsBounded, TypeOK
<1>3. TypeOK'
  <2>1. message_success' \in 0..MaxReported
    BY <1>2, SizeAssumption DEF TypeOK
  <2>2. /\ tpc' \in [Ids -> {"queue", "masked", "made", "add"}]
        /\ register' \in [Ids -> 0..MaxReported]
        /\ adding' \in [Ids -> 0..MaxReported]
        /\ \A u \in Ids \ Actors: tpc'[u] = "queue"
    BY <1>1, SizeAssumption DEF WriteCount, TypeOK
  <2> QED
    BY <1>1, <2>1, <2>2 DEF TypeOK
<1>4. UmaskTold'
  <2>1. \A u \in Ids: Inside(u)' = Inside(u)
    BY <1>1 DEF WriteCount, Inside, TypeOK
  <2> QED
    BY <1>1, <2>1, UmaskUndisturbed
<1>5. SumsBounded'
  BY <1>1, <1>2 DEF WriteCount, SumsBounded, TypeOK
<1>6. SumsExact'
  <2> SUFFICES ASSUME ~lossy
               PROVE  SumsExact'
    BY <1>1 DEF SumsExact
  <2>1. \A u \in Actors: tpc'[u] # "add"
    BY <1>1 DEF WriteCount, SumsExact, TypeOK
  <2>2. message_success' = reported
    BY <1>1, <1>2 DEF SumsExact
  <2> QED
    BY <1>1, <2>1, <2>2 DEF SumsExact
<1> QED
  BY <1>3, <1>4, <1>5, <1>6

LEMMA TakeConnectionKeeps ==
  ASSUME IInv, TakeConnection
  PROVE  IInv'
<1> USE DEF IInv, umaskVars, countVars
<1>1. TypeOK'
  BY SizeAssumption DEF TakeConnection, TypeOK, Actors
<1>2. UmaskTold'
  BY UmaskUndisturbed DEF TakeConnection, Inside
<1>3. SumsBounded' /\ SumsExact'
  BY SumsUndisturbed DEF TakeConnection
<1> QED
  BY <1>1, <1>2, <1>3

LEMMA TickKeeps ==
  ASSUME IInv, Tick
  PROVE  IInv'
<1> USE DEF IInv, umaskVars, countVars
<1>1. /\ UNCHANGED <<threads, tpc, umaskVars, countVars, counter>>
      /\ Actors' = Actors /\ Actors \subseteq Ids
      /\ \A u \in Ids: Inside(u)' = Inside(u)
  BY ActorsAreIds DEF Tick, Actors, Inside
<1>2. statfile' \in {statfile, "none", umask}
  <2>1. SaveStats \/ statfile' = statfile
    BY DEF Tick
  <2> QED
    BY <2>1 DEF SaveStats
<1>3. TypeOK'
  <2> PICK late \in {0, 1}:
        /\ now' = BucketOf(late)
        /\ punctual' = IF late > 0 THEN 0
                       ELSE IF punctual < RPS_RESOLUTION THEN punctual + 1
                       ELSE punctual
    BY DEF Tick
  <2>1. now' \in Buckets
    <3>1. now + 1 + late \in Nat
      BY SizeAssumption DEF TypeOK, Buckets
    <3> QED
      BY <3>1, RestInRange, SizeAssumption DEF BucketOf, Buckets
  <2>2. punctual' \in 0..RPS_RESOLUTION
    BY SizeAssumption DEF TypeOK
  <2>3. counter_prev' = counter /\ counter - counter_prev \in 0..MaxCounter
        /\ counter_prev \in 0..MaxCounter /\ counter \in 0..counter
    BY SizeAssumption DEF Tick, PrevAfter, TypeOK
  <2>4. /\ counter_rps' \in [Buckets -> 0..MaxCounter]
        /\ base' \in [Buckets -> 0..MaxCounter]
    BY <2>3 DEF Tick, TypeOK
  <2>5. statfile' \in {"none", "public", "private"}
    BY <1>2 DEF TypeOK
  <2> QED
    BY <1>1, <2>1, <2>2, <2>3, <2>4, <2>5 DEF TypeOK
<1>4. UmaskTold'
  <2>1. threads = 0 => statfile' # "private"
    <3> SUFFICES ASSUME threads = 0
                 PROVE  umask = "public"
      BY <1>2 DEF UmaskTold
    <3>1. ~overlapped /\ Actors = {0} /\ tpc[0] = "queue"
      BY DEF Tick, AtLiberty, UmaskTold, Actors
    <3> QED
      BY <3>1 DEF UmaskTold, Inside
  <2> QED
    BY <1>1, <2>1 DEF UmaskTold
<1>5. SumsBounded' /\ SumsExact'
  BY <1>1, SumsUndisturbed
<1> QED
  BY <1>3, <1>4, <1>5

\* The invariant is inductive.
LEMMA NextKeeps == IInv /\ [Next]_vars => IInv'
<1> SUFFICES ASSUME IInv, [Next]_vars
             PROVE  IInv'
  OBVIOUS
<1>1. ASSUME NEW t \in Ids, Mask(t)       PROVE IInv'
  BY <1>1, MaskKeeps
<1>2. ASSUME NEW t \in Ids, MakeOk(t)     PROVE IInv'
  BY <1>2, MakeOkKeeps
<1>3. ASSUME NEW t \in Ids, Restore(t)    PROVE IInv'
  BY <1>3, RestoreKeeps
<1>4. ASSUME NEW t \in Ids, ReadCount(t)  PROVE IInv'
  BY <1>4, ReadCountKeeps
<1>5. ASSUME NEW t \in Ids, WriteCount(t) PROVE IInv'
  BY <1>5, WriteCountKeeps
<1>6. CASE TakeConnection
  BY <1>6, TakeConnectionKeeps
<1>7. CASE Tick
  BY <1>7, TickKeeps
<1>8. CASE UNCHANGED vars
  BY <1>8 DEF vars, umaskVars, countVars, rateVars, IInv, TypeOK, Buckets,
              UmaskTold, SumsBounded, SumsExact, Actors, Inside
<1> QED
  BY <1>1, <1>2, <1>3, <1>4, <1>5, <1>6, <1>7, <1>8 DEF Next

-----------------------------------------------------------------------------
(* The sum of a function *)

\* The order in which a fold takes the elements of a set.
Pick(s) == CHOOSE x \in s: TRUE

\* it gives every set of s the sum of f over it.
SumsOn(it, f, s) ==
  \A u \in s: it[u] = IF u = {} THEN 0 ELSE f[Pick(u)] + it[u \ {Pick(u)}]

\* A set of numbers has a least one, and so has one of sets their sizes.
LEMMA LeastNumber ==
  ASSUME NEW T, T \subseteq Nat, T # {}
  PROVE  \E n \in T: \A m \in T: n <= m
<1> DEFINE R == {ss \in Nat \X Nat: ss[1] < ss[2]}
<1>1. IsWellFoundedOn(R, Nat)
  BY NatLessThanWellFounded DEF OpToRel
<1>2. PICK n \in T: \A m \in T: <<m, n>> \notin R
  BY <1>1, WFMin
<1>3. ASSUME NEW m \in T PROVE n <= m
  <2>1. <<m, n>> \in Nat \X Nat /\ ~(m < n)
    BY <1>2
  <2> QED
    BY <2>1
<1> QED
  BY <1>3

LEMMA SmallestSet ==
  ASSUME NEW D, IsFiniteSet(D), NEW T, T \subseteq SUBSET D, T # {}
  PROVE  \E s \in T: \A u \in T: Cardinality(s) <= Cardinality(u)
<1> DEFINE sizes == {Cardinality(u): u \in T}
<1>1. sizes \subseteq Nat /\ sizes # {}
  <2>1. \A u \in T: IsFiniteSet(u)
    BY FS_Subset
  <2> QED
    BY <2>1, FS_CardinalityType
<1>2. PICK n \in sizes: \A m \in sizes: n <= m
  <2> HIDE DEF sizes
  <2> QED
    BY <1>1, LeastNumber
<1> QED
  BY <1>2

\* A set without its picked element is smaller by one.
LEMMA PickedOff ==
  ASSUME NEW D, IsFiniteSet(D), NEW u \in SUBSET D, u # {}
  PROVE  /\ Pick(u) \in u /\ u \ {Pick(u)} \in SUBSET D
         /\ Cardinality(u) \in Nat /\ Cardinality(u) > 0
         /\ Cardinality(u \ {Pick(u)}) = Cardinality(u) - 1
<1>1. Pick(u) \in u
  BY DEF Pick
<1>2. IsFiniteSet(u)
  BY FS_Subset
<1>3. Cardinality(u \ {Pick(u)}) = Cardinality(u) - 1
  BY <1>1, <1>2, FS_RemoveElement
<1>4. Cardinality(u) \in Nat /\ Cardinality(u) # 0
  BY <1>2, FS_CardinalityType, FS_EmptySet
<1> QED
  BY <1>1, <1>3, <1>4

\* There is such a function, for the sets of any size.
LEMMA SumsOfSize ==
  ASSUME NEW D, IsFiniteSet(D), NEW f, NEW n \in Nat
  PROVE  \E it: SumsOn(it, f, {u \in SUBSET D: Cardinality(u) <= n})
<1> DEFINE P(k) == {u \in SUBSET D: Cardinality(u) <= k}
           Good(k) == \E it: SumsOn(it, f, P(k))
           T == {k \in Nat: ~Good(k)}
<1>1. ASSUME T # {} PROVE FALSE
  <2>1. PICK k \in T: \A m \in T: k <= m
    <3> HIDE DEF T
    <3>1. T \subseteq Nat
      BY DEF T
    <3> QED
      BY <1>1, <3>1, LeastNumber
  <2>2. CASE k = 0
    <3> DEFINE it == [u \in P(0) |-> 0]
    <3>1. ASSUME NEW u \in P(0) PROVE u = {}
      <4>1. u \in SUBSET D /\ Cardinality(u) <= 0
        OBVIOUS
      <4>2. u # {} => Cardinality(u) \in Nat /\ Cardinality(u) > 0
        BY <4>1, PickedOff
      <4> QED
        BY <4>1, <4>2
    <3>2. SumsOn(it, f, P(0))
      BY <3>1 DEF SumsOn
    <3> QED
      BY <2>1, <2>2, <3>2
  <2>3. CASE k # 0
    <3>1. k - 1 \in Nat /\ k \in Nat /\ k - 1 \notin T
      BY <2>1, <2>3
    <3>2. PICK g: SumsOn(g, f, P(k - 1))
      BY <3>1
    <3> DEFINE h == [u \in P(k) |-> IF u = {} THEN 0 ELSE f[Pick(u)] + g[u \ {Pick(u)}]]
    <3>3. ASSUME NEW u \in P(k), u # {}
          PROVE  u \ {Pick(u)} \in P(k - 1)
      BY <3>1, <3>3, PickedOff
    <3>4. ASSUME NEW u \in P(k - 1) PROVE u \in P(k) /\ h[u] = g[u]
      <4>1. Cardinality(u) \in Nat /\ u \in SUBSET D
        BY FS_Subset, FS_CardinalityType
      <4>2. u \in P(k)
        BY <3>1, <4>1
      <4> HIDE DEF P
      <4>3. g[u] = IF u = {} THEN 0 ELSE f[Pick(u)] + g[u \ {Pick(u)}]
        BY <3>2 DEF SumsOn
      <4> QED
        BY <4>2, <4>3
    <3>5. SumsOn(h, f, P(k))
      <4> SUFFICES ASSUME NEW u \in P(k)
                   PROVE  h[u] = IF u = {} THEN 0 ELSE f[Pick(u)] + h[u \ {Pick(u)}]
        BY DEF SumsOn
      <4>1. h[u] = IF u = {} THEN 0 ELSE f[Pick(u)] + g[u \ {Pick(u)}]
        OBVIOUS
      <4> HIDE DEF h, P
      <4> QED
        BY <3>3, <3>4, <4>1
    <3> HIDE DEF h
    <3> QED
      BY <2>1, <3>5
  <2> QED
    BY <2>2, <2>3
<1> QED
  BY <1>1

\* The fold of the community modules sums so.
LEMMA FoldSums ==
  ASSUME NEW D, IsFiniteSet(D), NEW f, DOMAIN f = D
  PROVE  \E it: SumsOn(it, f, SUBSET D) /\ SumFunction(f) = it[D]
<1> DEFINE Body(it) ==
      [s \in SUBSET D |-> IF s = {} THEN 0 ELSE f[Pick(s)] + it[s \ {Pick(s)}]]
<1>1. SumFunction(f) = (CHOOSE it: it = Body(it))[D]
  BY DEF SumFunction, SumFunctionOnSet, FoldFunctionOnSet, MapThenFoldSet, Pick
<1>2. \E it: it = Body(it)
  <2> DEFINE small == {u \in SUBSET D: Cardinality(u) <= Cardinality(D)}
  <2>1. SUBSET D = small
    <3>1. ASSUME NEW u \in SUBSET D PROVE Cardinality(u) <= Cardinality(D)
      BY FS_Subset
    <3> QED
      BY <3>1
  <2>2. PICK g: SumsOn(g, f, SUBSET D)
    <3>1. Cardinality(D) \in Nat
      BY FS_CardinalityType
    <3>2. \E g: SumsOn(g, f, small)
      BY <3>1, SumsOfSize
    <3> HIDE DEF small
    <3> QED
      BY <2>1, <3>2
  <2> DEFINE h == [s \in SUBSET D |-> g[s]]
  <2>3. h = Body(h)
    <3>1. ASSUME NEW s \in SUBSET D PROVE h[s] = Body(h)[s]
      <4>1. s \ {Pick(s)} \in SUBSET D
        OBVIOUS
      <4>2. g[s] = IF s = {} THEN 0 ELSE f[Pick(s)] + g[s \ {Pick(s)}]
        BY <2>2 DEF SumsOn
      <4> QED
        BY <4>1, <4>2
    <3> QED
      BY <3>1
  <2> HIDE DEF h, Body
  <2> QED
    BY <2>3
<1>3. PICK it: it = Body(it) /\ SumFunction(f) = it[D]
  <2> HIDE DEF Body
  <2> QED
    BY <1>1, <1>2
<1>4. SumsOn(it, f, SUBSET D)
  BY <1>3 DEF SumsOn
<1> QED
  BY <1>3, <1>4

\* A sum of integers is one, and follows a change of one of them.
LEMMA SumFollows ==
  ASSUME NEW D, IsFiniteSet(D), NEW f \in [D -> Int], NEW k \in D, NEW v \in Int
  PROVE  /\ SumFunction(f) \in Int
         /\ SumFunction([f EXCEPT ![k] = v]) = SumFunction(f) + (v - f[k])
<1> DEFINE g == [f EXCEPT ![k] = v]
<1>1. g \in [D -> Int] /\ g[k] = v /\ \A x \in D: x # k => g[x] = f[x]
  OBVIOUS
<1> HIDE DEF g
<1>2. PICK F: SumsOn(F, f, SUBSET D) /\ SumFunction(f) = F[D]
  BY FoldSums
<1>3. PICK G: SumsOn(G, g, SUBSET D) /\ SumFunction(g) = G[D]
  BY <1>1, FoldSums
<1> DEFINE Good(u) == F[u] \in Int /\ G[u] = F[u] + (IF k \in u THEN v - f[k] ELSE 0)
           T == {u \in SUBSET D: ~Good(u)}
<1>4. ASSUME T # {} PROVE FALSE
  <2>1. PICK u \in T: \A w \in T: Cardinality(u) <= Cardinality(w)
    <3>1. T \subseteq SUBSET D
      OBVIOUS
    <3> HIDE DEF T
    <3> QED
      BY <1>4, <3>1, SmallestSet
  <2>2. u \in SUBSET D /\ ~Good(u)
    BY <2>1
  <2>3. u # {}
    <3>1. u = {} => F[u] = 0 /\ G[u] = 0
      BY <1>2, <1>3, <2>2 DEF SumsOn
    <3> QED
      BY <2>2, <3>1
  <2> DEFINE x == Pick(u)
             w == u \ {x}
  <2>4. /\ x \in u /\ x \in D /\ w \in SUBSET D
        /\ Cardinality(w) < Cardinality(u) /\ Cardinality(w) \in Int
        /\ Cardinality(u) \in Int
    BY <2>2, <2>3, PickedOff
  <2>5. Good(w)
    <3>1. w \notin T
      <4> HIDE DEF T, w
      <4> QED
        BY <2>1, <2>4
    <3> QED
      BY <2>4, <3>1
  <2>6. F[u] = f[x] + F[w] /\ G[u] = g[x] + G[w]
    BY <1>2, <1>3, <2>2, <2>3 DEF SumsOn
  <2>7. f[x] \in Int /\ g[x] \in Int /\ f[k] \in Int
    BY <1>1, <2>4
  <2>8. Good(u)
    <3>1. CASE x = k
      <4>1. k \in u /\ k \notin w /\ g[x] = v
        BY <1>1, <2>4, <3>1
      <4> HIDE DEF w, x
      <4> QED
        BY <2>5, <2>6, <2>7, <3>1, <4>1
    <3>2. CASE x # k
      <4>1. (k \in u <=> k \in w) /\ g[x] = f[x]
        BY <1>1, <2>4, <3>2
      <4> HIDE DEF w, x
      <4> QED
        BY <2>5, <2>6, <2>7, <4>1
    <3> QED
      BY <3>1, <3>2
  <2> QED
    BY <2>2, <2>8
<1>5. Good(D)
  BY <1>4
<1> QED
  BY <1>2, <1>3, <1>5 DEF g

\* Nothing added up is nothing.
LEMMA SumOfNothing ==
  ASSUME NEW D, IsFiniteSet(D)
  PROVE  SumFunction([x \in D |-> 0]) = 0
<1> DEFINE f == [x \in D |-> 0]
<1>1. PICK F: SumsOn(F, f, SUBSET D) /\ SumFunction(f) = F[D]
  BY FoldSums
<1> DEFINE T == {u \in SUBSET D: F[u] # 0}
<1>2. ASSUME T # {} PROVE FALSE
  <2>1. PICK u \in T: \A w \in T: Cardinality(u) <= Cardinality(w)
    <3>1. T \subseteq SUBSET D
      OBVIOUS
    <3> HIDE DEF T
    <3> QED
      BY <1>2, <3>1, SmallestSet
  <2>2. u \in SUBSET D /\ F[u] # 0
    BY <2>1
  <2>3. F[u] = IF u = {} THEN 0 ELSE f[Pick(u)] + F[u \ {Pick(u)}]
    BY <1>1, <2>2 DEF SumsOn
  <2>4. u # {}
    BY <2>2, <2>3
  <2>5. /\ Pick(u) \in D /\ u \ {Pick(u)} \in SUBSET D
        /\ Cardinality(u \ {Pick(u)}) < Cardinality(u)
        /\ Cardinality(u \ {Pick(u)}) \in Int /\ Cardinality(u) \in Int
    BY <2>2, <2>4, PickedOff
  <2>6. F[u \ {Pick(u)}] = 0
    BY <2>1, <2>5
  <2> QED
    BY <2>2, <2>3, <2>4, <2>5, <2>6
<1> QED
  BY <1>1, <1>2

-----------------------------------------------------------------------------
(* The ring of buckets *)

\* The bucket of the next second, and for how many seconds bucket b was not
\* written when n was written last, if no second was skipped.
NextOf(b) == IF b = RPS_RESOLUTION - 1 THEN 0 ELSE b + 1
Age(b, n) == IF b <= n THEN n - b ELSE n - b + RPS_RESOLUTION

\* What the last p ticks wrote, and nothing in the place of the older buckets.
Recent(n, p, rps) == [b \in Buckets |-> IF Age(b, n) < p THEN rps[b] ELSE 0]

\* n was written last, with the counter at c, and the p ticks up to that one
\* were punctual: each of their buckets holds the connections from its base to
\* the next bucket's, and all of them those since the base of the oldest.
Round(n, p, c, rps, bs) ==
  /\ \A b \in Buckets: Age(b, n) < p =>
       rps[b] = (IF b = n THEN c ELSE bs[NextOf(b)]) - bs[b]
  /\ \A o \in Buckets: p > 0 /\ Age(o, n) = p - 1 =>
       SumFunction(Recent(n, p, rps)) = c - bs[o]

RingTold == Round(now, punctual, counter_prev, counter_rps, base)

LEMMA BucketsFinite == IsFiniteSet(Buckets)
<1>1. 0 \in Int /\ RPS_RESOLUTION - 1 \in Int
  BY SizeAssumption
<1> QED
  BY <1>1, FS_Interval DEF Buckets

\* The next bucket is the rest of the division, and the one not written for
\* longest; one tick later every other one is older by one.
LEMMA NextIsRest ==
  ASSUME NEW n \in Buckets
  PROVE  (n + 1) % RPS_RESOLUTION = NextOf(n)
<1>1. n \in Nat /\ n + 1 \in Nat /\ RPS_RESOLUTION \in Nat \ {0} /\ n <= RPS_RESOLUTION - 1
  BY SizeAssumption DEF Buckets
<1>2. CASE n = RPS_RESOLUTION - 1
  <2>1. n + 1 = RPS_RESOLUTION
    BY <1>1, <1>2
  <2> QED
    BY <1>1, <1>2, <2>1, RestOfItself DEF NextOf
<1>3. CASE n # RPS_RESOLUTION - 1
  <2>1. n + 1 < RPS_RESOLUTION
    BY <1>1, <1>3
  <2> QED
    BY <1>1, <1>3, <2>1, RestBounded DEF NextOf
<1> QED
  BY <1>2, <1>3

LEMMA Ages ==
  ASSUME NEW n \in Buckets, NEW b \in Buckets
  PROVE  /\ NextOf(n) \in Buckets
         /\ Age(b, n) \in 0..(RPS_RESOLUTION - 1)
         /\ Age(b, n) = 0 <=> b = n
         /\ Age(b, n) = RPS_RESOLUTION - 1 <=> b = NextOf(n)
         /\ b # NextOf(n) => Age(b, NextOf(n)) = Age(b, n) + 1
         /\ NextOf(b) = NextOf(n) => b = n
BY SizeAssumption DEF Buckets, NextOf, Age

\* One more punctual tick, with the counter at d.
LEMMA RoundGoesOn ==
  ASSUME NEW n \in Buckets, NEW p \in 0..RPS_RESOLUTION,
         NEW c \in Int, NEW d \in Int,
         NEW rps \in [Buckets -> Int], NEW bs \in [Buckets -> Int],
         Round(n, p, c, rps, bs)
  PROVE  Round(NextOf(n), IF p < RPS_RESOLUTION THEN p + 1 ELSE p, d,
               [rps EXCEPT ![NextOf(n)] = d - c], [bs EXCEPT ![NextOf(n)] = c])
<1> DEFINE m == NextOf(n)
           q == IF p < RPS_RESOLUTION THEN p + 1 ELSE p
           written == [rps EXCEPT ![m] = d - c]
           from == [bs EXCEPT ![m] = c]
           before == Recent(n, p, rps)
<1>1. /\ m \in Buckets /\ p \in Nat /\ p <= RPS_RESOLUTION /\ RPS_RESOLUTION \in Nat \ {0}
      /\ q \in Nat /\ q > 0 /\ q - 1 <= p /\ d - c \in Int
  BY Ages, SizeAssumption
<1>2. /\ written \in [Buckets -> Int] /\ from \in [Buckets -> Int]
      /\ written[m] = d - c /\ from[m] = c
      /\ \A b \in Buckets: b # m => written[b] = rps[b] /\ from[b] = bs[b]
  BY <1>1
<1>3. \A b \in Buckets: /\ Age(b, n) \in Int /\ 0 <= Age(b, n) /\ Age(b, n) <= RPS_RESOLUTION - 1
                        /\ Age(b, m) \in Int /\ 0 <= Age(b, m)
                        /\ b # m => Age(b, m) = Age(b, n) + 1
  BY <1>1, Ages
<1>4. Age(m, m) = 0 /\ Age(m, n) = RPS_RESOLUTION - 1
  BY <1>1, Ages
<1>5. before \in [Buckets -> Int]
  BY DEF Recent
<1>6. Recent(m, q, written) = [before EXCEPT ![m] = d - c]
  <2> SUFFICES ASSUME NEW b \in Buckets
               PROVE  (IF Age(b, m) < q THEN written[b] ELSE 0)
                        = [before EXCEPT ![m] = d - c][b]
    BY <1>5 DEF Recent
  <2>1. CASE b = m
    BY <1>1, <1>2, <1>4, <1>5, <2>1
  <2>2. CASE b # m
    <3>1. [before EXCEPT ![m] = d - c][b] = IF Age(b, n) < p THEN rps[b] ELSE 0
      BY <1>5, <2>2 DEF Recent
    <3>2. Age(b, n) # RPS_RESOLUTION - 1
      BY <2>2, Ages
    <3>3. Age(b, m) < q <=> Age(b, n) < p
      BY <1>1, <1>3, <2>2, <3>2
    <3> QED
      BY <1>2, <2>2, <3>1, <3>3
  <2> QED
    BY <2>1, <2>2
<1>7. /\ SumFunction(before) \in Int
      /\ SumFunction(Recent(m, q, written)) = SumFunction(before) + ((d - c) - before[m])
  <2> HIDE DEF m, q, written, before
  <2>1. PICK v \in Int: v = d - c
    BY <1>1
  <2>2. /\ SumFunction(before) \in Int
        /\ SumFunction([before EXCEPT ![m] = v]) = SumFunction(before) + (v - before[m])
    BY <1>1, <1>5, BucketsFinite, SumFollows
  <2> QED
    BY <1>6, <2>1, <2>2
<1>8. ASSUME NEW b \in Buckets, Age(b, m) < q
      PROVE  written[b] = (IF b = m THEN d ELSE from[NextOf(b)]) - from[b]
  <2>1. CASE b = m
    BY <1>2, <2>1
  <2>2. CASE b # m
    <3>1. Age(b, n) < p
      BY <1>1, <1>3, <1>8, <2>2
    <3>2. rps[b] = (IF b = n THEN c ELSE bs[NextOf(b)]) - bs[b]
      BY <3>1 DEF Round
    <3>3. NextOf(b) \in Buckets /\ (NextOf(b) = m <=> b = n)
      BY Ages
    <3> QED
      BY <1>2, <2>2, <3>2, <3>3
  <2> QED
    BY <2>1, <2>2
<1>9. ASSUME NEW o \in Buckets, Age(o, m) = q - 1
      PROVE  SumFunction(Recent(m, q, written)) = d - from[o]
  <2>1. CASE p = 0
    <3>1. o = m
      <4>1. q = 1
        BY <1>1, <2>1
      <4> QED
        BY <1>1, <1>9, <4>1, Ages
    <3>2. before = [b \in Buckets |-> 0]
      BY <1>3, <2>1 DEF Recent
    <3>3. SumFunction(before) = 0 /\ before[m] = 0
      BY <1>1, <3>2, BucketsFinite, SumOfNothing
    <3> QED
      BY <1>2, <1>7, <3>1, <3>3
  <2>2. CASE p > 0 /\ p < RPS_RESOLUTION
    <3>1. o # m /\ Age(o, n) = p - 1
      BY <1>1, <1>3, <1>4, <1>9, <2>2
    <3>2. before[m] = 0
      BY <1>1, <1>4, <2>2 DEF Recent
    <3>3. SumFunction(before) = c - bs[o]
      BY <2>2, <3>1 DEF Round
    <3> QED
      BY <1>2, <1>7, <3>1, <3>2, <3>3
  <2>3. CASE p = RPS_RESOLUTION
    <3>1. o = NextOf(m) /\ q = p
      BY <1>1, <1>9, <2>3, Ages
    <3>2. SumFunction(before) = c - bs[m]
      BY <1>1, <1>4, <2>3 DEF Round
    <3>3. before[m] = (IF m = n THEN c ELSE bs[o]) - bs[m]
      <4>1. Age(m, n) < p
        BY <1>1, <1>4, <2>3
      <4>2. before[m] = rps[m]
        BY <1>1, <4>1 DEF Recent
      <4> QED
        BY <1>1, <3>1, <4>1, <4>2 DEF Round
    <3>4. bs[m] \in Int /\ bs[o] \in Int
      BY <1>1
    <3>5. CASE m = n
      <4>1. o = m
        BY <3>1, <3>5
      <4> QED
        BY <1>2, <1>7, <3>2, <3>3, <3>4, <3>5, <4>1
    <3>6. CASE m # n
      <4>1. o # m
        BY <1>1, <3>1, <3>6, Ages
      <4> QED
        BY <1>2, <1>7, <3>2, <3>3, <3>4, <3>6, <4>1
    <3> QED
      BY <3>5, <3>6
  <2> QED
    BY <1>1, <2>1, <2>2, <2>3
<1> HIDE DEF m, q, written, from
<1>10. Round(m, q, d, written, from)
  BY <1>8, <1>9 DEF Round
<1> QED
  BY <1>10 DEF m, q, written, from

\* With no punctual tick behind there is nothing to be told.
LEMMA RoundBegins ==
  ASSUME NEW n \in Buckets, NEW c, NEW rps, NEW bs
  PROVE  Round(n, 0, c, rps, bs)
<1>1. \A b \in Buckets: ~(Age(b, n) < 0)
  BY Ages, SizeAssumption
<1> QED
  BY <1>1 DEF Round

LEMMA RingInitial == Init => RingTold
<1> SUFFICES ASSUME Init
             PROVE  RingTold
  OBVIOUS
<1>1. now \in Buckets /\ punctual = 0
  BY SizeAssumption DEF Init, InitWith, Buckets
<1> QED
  BY <1>1, RoundBegins DEF RingTold

LEMMA RingKept == IInv /\ RingTold /\ [Next]_vars => RingTold'
<1> SUFFICES ASSUME IInv, RingTold, [Next]_vars
             PROVE  RingTold'
  OBVIOUS
<1>1. CASE UNCHANGED rateVars
  BY <1>1 DEF RingTold, rateVars
<1>2. CASE TakeConnection
  BY <1>2 DEF TakeConnection, RingTold
<1>3. CASE Tick
  <2>1. /\ counter_rps' = [counter_rps EXCEPT ![now'] = counter - counter_prev]
        /\ base' = [base EXCEPT ![now'] = counter_prev]
        /\ counter_prev' = counter
    BY <1>3 DEF Tick, PrevAfter
  <2>2. /\ now \in Buckets /\ punctual \in 0..RPS_RESOLUTION
        /\ counter \in Int /\ counter_prev \in Int
        /\ counter_rps \in [Buckets -> Int] /\ base \in [Buckets -> Int]
    BY SizeAssumption DEF IInv, TypeOK
  <2>3. CASE punctual' = 0
    <3>1. now' \in Buckets
      BY <1>3, TickKeeps DEF IInv, TypeOK, Buckets
    <3> QED
      BY <2>3, <3>1, RoundBegins DEF RingTold
  <2>4. CASE punctual' # 0
    <3>1. /\ now' = BucketOf(0)
          /\ punctual' = IF punctual < RPS_RESOLUTION THEN punctual + 1 ELSE punctual
      BY <1>3, <2>4 DEF Tick
    <3>2. now' = NextOf(now)
      BY <2>2, <3>1, NextIsRest, SizeAssumption DEF BucketOf, Buckets
    <3>3. Round(NextOf(now), IF punctual < RPS_RESOLUTION THEN punctual + 1 ELSE punctual,
                counter, [counter_rps EXCEPT ![NextOf(now)] = counter - counter_prev],
                [base EXCEPT ![NextOf(now)] = counter_prev])
      BY <2>2, RoundGoesOn DEF RingTold
    <3> QED
      BY <2>1, <3>1, <3>2, <3>3 DEF RingTold
  <2> QED
    BY <2>3, <2>4
<1>4. CASE \E t \in Ids: Mask(t) \/ MakeOk(t) \/ Restore(t) \/ ReadCount(t) \/ WriteCount(t)
  BY <1>1, <1>4 DEF Mask, MakeOk, Restore, ReadCount, WriteCount
<1>5. CASE UNCHANGED vars
  BY <1>1, <1>5 DEF vars
<1> QED
  BY <1>2, <1>3, <1>4, <1>5 DEF Next

\* After a whole round of them the ring has nothing else.
LEMMA WholeRound ==
  ASSUME IInv, RingTold
  PROVE  RingIsLastRound
<1> SUFFICES ASSUME punctual = RPS_RESOLUTION
             PROVE  SumFunction(counter_rps) = counter_prev - base[NextOf(now)]
  BY NextIsRest DEF RingIsLastRound, IInv, TypeOK
<1>1. now \in Buckets /\ counter_rps \in [Buckets -> Int]
  BY SizeAssumption DEF IInv, TypeOK
<1>2. Recent(now, punctual, counter_rps) = counter_rps
  <2>1. \A b \in Buckets: Age(b, now) < RPS_RESOLUTION
    BY <1>1, Ages, SizeAssumption
  <2> QED
    BY <1>1, <2>1 DEF Recent
<1>3. NextOf(now) \in Buckets /\ Age(NextOf(now), now) = punctual - 1
  BY <1>1, Ages
<1> QED
  BY <1>2, <1>3, SizeAssumption DEF RingTold, Round

-----------------------------------------------------------------------------
(* The theorems about a worker *)

\* In every behaviour the inductive invariant holds.
THEOREM AlwaysIInv == Spec => []IInv
<1> QED
  BY Initial, NextKeeps, PTL DEF Spec

\* The variables keep their types, for any number of threads and any sizes.
THEOREM TypeCorrect == Spec => []TypeOK
<1>1. IInv => TypeOK
  BY DEF IInv
<1> QED
  BY <1>1, AlwaysIInv, PTL

\* write_result puts the umask back and opens no file of the spool to others,
\* however it ends, as long as no two threads were in it at once; so a worker
\* without crypt threads never saves its statistics unreadable.
THEOREM UmaskAlwaysPutBack == Spec => []UmaskPutBack
<1>1. IInv => UmaskPutBack
  BY DEF IInv, UmaskTold, UmaskPutBack
<1> QED
  BY <1>1, AlwaysIInv, PTL

\* Whatever the threads' additions to the message counter do to each other, it
\* is never ahead of the jobs, and exact between additions when nothing was
\* lost.
THEOREM CountsHonest == Spec => []CountNeverAhead
<1>1. IInv => CountNeverAhead
  BY DEF IInv, SumsBounded, SumsExact, CountNeverAhead
<1> QED
  BY <1>1, AlwaysIInv, PTL

\* After a whole round of punctual ticks the ring holds the connections of just
\* these seconds, for any size of the ring and however many connections come
\* in between.
THEOREM RingRight == Spec => []RingIsLastRound
BY RingInitial, RingKept, WholeRound, AlwaysIInv, PTL DEF Spec
-----------------------------------------------------------------------------
(* The settings *)

Option(k) == IF k = "nsca_workers" THEN optn ELSE optt

\* The settings stay in the map from check_config to the network that reads
\* them, and the options that were given are the last that were set.
Settled ==
  /\ optn \in 0..100 /\ optt \in -1..1000
  /\ main \in {"options", "read", "check", "lock", "start"} => worker = "none"
  /\ worker = "work" \/ (worker = "none" /\ main \in {"check", "lock", "start", "pid", "loop"}) =>
       \A k \in Given: k \in DOMAIN data /\ data[k] = Option(k)
  /\ worker = "work" \/ (worker = "none" /\ main \in {"lock", "start", "pid", "loop"}) =>
       /\ \A k \in Corrected: Used(k) \in Valid(k)
       /\ Used("decryption_method") \in Methods

\* What is set in place of a bad value is good, and so is what is used in place
\* of none, though it is not what check_config assumes there.
LEMMA DefaultsValid ==
  ASSUME NEW k \in Corrected
  PROVE  Settings[k].fallback \in Valid(k) /\ Settings[k].used \in Valid(k)
BY DEF Corrected, Settings, Valid, IntMax

LEMMA SettledKept == Settled /\ [StartupNext]_<<vars, startVars>> => Settled'
<1> SUFFICES ASSUME Settled, [StartupNext]_<<vars, startVars>>
             PROVE  Settled'
  OBVIOUS
<1> USE DEF Settled
<1>1. CASE Options
  <2>1. optn' \in 0..100 /\ optt' \in -1..1000
    BY <1>1 DEF Options
  <2> QED
    BY <1>1, <2>1 DEF Options
<1>2. CASE ReadLine
  BY <1>2 DEF ReadLine
<1>3. CASE ReadEnds
  <2>1. CASE main' = "exited"
    BY <1>3, <2>1 DEF ReadEnds
  <2>2. CASE main' # "exited"
    <3>1. main' = "check" /\ UNCHANGED <<worker, optn, optt>> /\ data' = OptionsAbove
          /\ main = "read"
      BY <1>3, <2>2 DEF ReadEnds
    <3>2. \A k \in Given: k \in DOMAIN data' /\ data'[k] = Option(k)
      BY <3>1 DEF OptionsAbove, Set, Option
    <3> QED
      BY <3>1, <3>2 DEF Given, Option
  <2> QED
    BY <2>1, <2>2
<1>4. CASE CheckConfig
  <2>1. CASE main' = "exited"
    BY <1>4, <2>1 DEF CheckConfig
  <2>2. CASE main' # "exited"
    <3>1. /\ main' = "lock" /\ GetInt(data, "decryption_method", 0) \in Methods
          /\ data' = Set([k \in OutOfRange |-> Settings[k].fallback], data)
          /\ UNCHANGED <<worker, optn, optt>> /\ main = "check" /\ worker = "none"
      BY <1>4, <2>2 DEF CheckConfig
    <3>2. /\ \A k \in OutOfRange: k \in DOMAIN data' /\ data'[k] = Settings[k].fallback
          /\ \A k: k \notin OutOfRange => (k \in DOMAIN data' <=> k \in DOMAIN data)
          /\ \A k \in DOMAIN data: k \notin OutOfRange => data'[k] = data[k]
      BY <3>1 DEF Set
    <3>3. \A k \in Corrected: Used(k)' \in Valid(k)
      <4> SUFFICES ASSUME NEW k \in Corrected
                   PROVE  Used(k)' \in Valid(k)
        OBVIOUS
      <4>1. Used(k)' = IF k \in DOMAIN data' THEN data'[k] ELSE Settings[k].used
        BY DEF Used, GetInt
      <4>2. CASE k \in OutOfRange
        BY <3>2, <4>1, <4>2, DefaultsValid
      <4>3. CASE k \notin OutOfRange /\ k \in DOMAIN data
        BY <3>2, <4>1, <4>3 DEF OutOfRange, GetInt
      <4>4. CASE k \notin OutOfRange /\ k \notin DOMAIN data
        BY <3>2, <4>1, <4>4, DefaultsValid
      <4> QED
        BY <4>2, <4>3, <4>4
    <3>4. Used("decryption_method")' \in Methods
      <4>1. "decryption_method" \notin Corrected /\ OutOfRange \subseteq Corrected
        BY DEF Corrected, Settings, OutOfRange
      <4> QED
        BY <3>1, <3>2, <4>1 DEF Used, GetInt
    <3>5. \A k \in Given: k \in DOMAIN data' /\ data'[k] = Option(k)
      <4> SUFFICES ASSUME NEW k \in Given
                   PROVE  k \in DOMAIN data' /\ data'[k] = Option(k)
        OBVIOUS
      <4>1. k \in DOMAIN data /\ data[k] = Option(k)
        BY <3>1
      <4>2. Option(k) \in Valid(k)
        BY DEF Given, Option, Valid, Settings
      <4>3. k \notin OutOfRange
        BY <4>1, <4>2 DEF OutOfRange, GetInt
      <4> QED
        BY <3>2, <4>1, <4>3
    <3> QED
      BY <3>1, <3>3, <3>4, <3>5 DEF Valid, Given, Option
  <2> QED
    BY <2>1, <2>2
<1>5. CASE Lock
  BY <1>5 DEF Lock, Used, Given, Option
<1>6. CASE RunWorkers
  BY <1>6 DEF RunWorkers, Used, Given, Option
<1>7. CASE WritePid
  BY <1>7 DEF WritePid, Used, Given, Option
<1>8. CASE Loop
  BY <1>8 DEF Loop, Used, Given, Option
<1>9. CASE NewNetwork
  BY <1>9 DEF NewNetwork, Given
<1>10. CASE Serve \/ UNCHANGED <<vars, startVars>>
  BY <1>10 DEF Serve, startVars, Used, Given, Option
<1> QED
  BY <1>1, <1>2, <1>3, <1>4, <1>5, <1>6, <1>7, <1>8, <1>9, <1>10
     DEF StartupNext

\* Whatever the file and the options say and leave out, what is used lies within
\* the limits of check_config, and an option that was given beats the file.
THEOREM SettingsInRange == StartupSpec => []UsedInRange
<1>1. StartupInit => Settled
  BY DEF StartupInit, Settled
<1>2. Settled => UsedInRange
  BY DEF Settled, UsedInRange, Given, Option, Used, GetInt
<1> QED
  BY <1>1, <1>2, SettledKept, PTL DEF StartupSpec

-----------------------------------------------------------------------------
(* The worker of a start *)

\* Until the network is made, nothing of a worker has moved.
Fresh == worker # "serving" => InitWith(0)

Inv == Settled /\ Fresh /\ IInv

\* What a new worker satisfies it satisfies whenever it comes to be.
LEMMA NewLater == Init' => IInv'
BY Initial, PTL

LEMMA NewNetworkMakesWorker ==
  ASSUME Inv, NewNetwork
  PROVE  Fresh' /\ IInv'
<1> DEFINE n == Used("nsca_threads_per_worker")
<1>1. worker = "work" /\ InitWith(0) /\ n \in 0..1000
  <2>1. worker = "work"
    BY DEF NewNetwork
  <2>2. \A k \in Corrected: Used(k) \in Valid(k)
    BY <2>1 DEF Inv, Settled
  <2>3. "nsca_threads_per_worker" \in Corrected
        /\ Valid("nsca_threads_per_worker") = 0..1000
    BY DEF Corrected, Valid, Settings
  <2> QED
    BY <2>1, <2>2, <2>3 DEF Inv, Fresh
<1> HIDE DEF n
<1>2. UNCHANGED <<tpc, umaskVars, statfile, countVars, rateVars>>
  BY DEF NewNetwork
<1>3. CASE worker' = "died"
  <2>1. UNCHANGED vars
    BY <1>2, <1>3 DEF NewNetwork, vars
  <2> QED
    BY <1>1, <1>3, <2>1, NextKeeps
       DEF Inv, Fresh, InitWith, vars, umaskVars, countVars, rateVars
<1>4. CASE worker' = "serving"
  <2>1. threads' \in 0..MaxThreads
    <3>1. threads' = IF n < MaxThreads THEN n ELSE MaxThreads
      BY <1>4, SMT DEF NewNetwork, n
    <3> QED
      BY <1>1, <3>1, SizeAssumption
  <2>2. InitWith(threads)'
    BY <1>1, <1>2 DEF InitWith, umaskVars, countVars, rateVars
  <2>3. Init'
    BY <2>1, <2>2 DEF Init
  <2> QED
    BY <1>4, <2>3, NewLater DEF Fresh
<1> QED
  BY <1>3, <1>4 DEF NewNetwork

LEMMA InvKept == Inv /\ [StartupNext]_<<vars, startVars>> => Inv'
<1> SUFFICES ASSUME Inv, [StartupNext]_<<vars, startVars>>
             PROVE  Inv'
  OBVIOUS
<1>1. Settled'
  BY SettledKept DEF Inv
<1>2. CASE NewNetwork
  BY <1>1, <1>2, NewNetworkMakesWorker DEF Inv
<1>3. CASE Serve
  BY <1>1, <1>3, NextKeeps DEF Inv, Serve, Fresh, startVars
<1>4. CASE ~NewNetwork /\ ~Serve
  <2>1. UNCHANGED vars /\ (UNCHANGED worker \/ worker = "none")
    <3>1. CASE Options \/ ReadLine \/ ReadEnds \/ CheckConfig
      BY <3>1 DEF Options, ReadLine, ReadEnds, CheckConfig
    <3>2. CASE Lock \/ WritePid
      BY <3>2 DEF Lock, WritePid
    <3>3. CASE RunWorkers \/ Loop
      BY <3>3 DEF RunWorkers, Loop, Inv, Settled
    <3>4. CASE UNCHANGED <<vars, startVars>>
      BY <3>4 DEF startVars
    <3> QED
      BY <1>4, <3>1, <3>2, <3>3, <3>4 DEF StartupNext
  <2>2. Fresh'
    BY <2>1 DEF Inv, Fresh, InitWith, vars, umaskVars, countVars, rateVars
  <2> QED
    BY <1>1, <2>1, <2>2, NextKeeps DEF Inv
<1> QED
  BY <1>2, <1>3, <1>4

\* The ring belongs to the worker, and no step of the start touches it.
LEMMA StartRingKept == Inv /\ RingTold /\ [StartupNext]_<<vars, startVars>> => RingTold'
<1> SUFFICES ASSUME Inv, RingTold, [StartupNext]_<<vars, startVars>>
             PROVE  RingTold'
  OBVIOUS
<1>1. CASE Serve
  BY <1>1, RingKept DEF Inv, Serve
<1>2. CASE ~Serve
  <2>1. UNCHANGED rateVars
    <3>1. CASE NewNetwork
      BY <3>1 DEF NewNetwork
    <3>2. CASE ~NewNetwork
      BY <1>2, <3>2 DEF StartupNext, Options, ReadLine, ReadEnds, CheckConfig, Lock,
                        RunWorkers, WritePid, Loop, vars
    <3> QED
      BY <3>1, <3>2
  <2> QED
    BY <2>1 DEF RingTold, rateVars
<1> QED
  BY <1>1, <1>2

\* The worker of every start, with the number of threads it read from the map,
\* puts the umask back, counts what it handled and keeps the ring of its last
\* seconds as shown above.
THEOREM StartedWorker == StartupSpec => [](UmaskPutBack /\ CountNeverAhead /\ RingIsLastRound)
<1>1. StartupInit => Inv /\ RingTold
  <2>1. StartupInit => Init
    BY SizeAssumption DEF StartupInit, Init
  <2> QED
    BY <2>1, Initial, RingInitial DEF StartupInit, Inv, Settled, Fresh
<1>2. Inv => UmaskPutBack /\ CountNeverAhead
  BY DEF Inv, IInv, UmaskTold, SumsBounded, SumsExact, UmaskPutBack, CountNeverAhead
<1>3. Inv /\ RingTold => RingIsLastRound
  BY WholeRound DEF Inv
<1> QED
  BY <1>1, <1>2, <1>3, InvKept, StartRingKept, PTL DEF StartupSpec

-----------------------------------------------------------------------------
(* The types *)

\* What a start adds to the variables of its worker.
StartTypes ==
  /\ main \in {"options", "read", "check", "lock", "start", "pid", "loop", "exited"}
  /\ worker \in {"none", "work", "serving", "died"}
  /\ DOMAIN data \subseteq Keys /\ \A k \in DOMAIN data: data[k] \in Int
  /\ lines \in 0..MaxLines

\* A map of integers stays one when integers are set in it.
LEMMA SetOfIntegers ==
  ASSUME NEW d, DOMAIN d \subseteq Keys, \A k \in DOMAIN d: d[k] \in Int,
         NEW new, DOMAIN new \subseteq Keys, \A k \in DOMAIN new: new[k] \in Int
  PROVE  /\ DOMAIN Set(new, d) \subseteq Keys
         /\ \A k \in DOMAIN Set(new, d): Set(new, d)[k] \in Int
BY DEF Set

\* The values a file is given are integers.
LEMMA ValuesAreIntegers ==
  ASSUME NEW k \in Keys
  PROVE  Values(k) \subseteq Int
<1>1. CASE k \in Corrected
  <2>1. Settings[k].low \in Int /\ Settings[k].high \in Int
    BY <1>1 DEF Corrected, Settings, IntMax
  <2> QED
    BY <1>1, <2>1 DEF Values, Edges
<1>2. CASE k \notin Corrected
  BY <1>2 DEF Keys, Values, Edges, Corrected, Settings
<1> QED
  BY <1>1, <1>2

LEMMA StartTypesKept ==
  StartTypes /\ Settled /\ [StartupNext]_<<vars, startVars>> => StartTypes'
<1> SUFFICES ASSUME StartTypes, Settled, [StartupNext]_<<vars, startVars>>
             PROVE  StartTypes'
  OBVIOUS
<1> USE DEF StartTypes
<1>1. CASE Options
  BY <1>1 DEF Options
<1>2. CASE ReadLine
  <2>1. PICK k \in Keys: \E v \in Values(k): data' = Set([x \in {k} |-> v], data)
    BY <1>2 DEF ReadLine
  <2>2. PICK v \in Values(k): data' = Set([x \in {k} |-> v], data)
    BY <2>1
  <2>3. DOMAIN data' \subseteq Keys /\ \A x \in DOMAIN data': data'[x] \in Int
    BY <2>2, ValuesAreIntegers, SetOfIntegers
  <2>4. lines' \in 0..MaxLines
    BY <1>2, LinesAssumption DEF ReadLine
  <2> QED
    BY <1>2, <2>3, <2>4 DEF ReadLine
<1>3. CASE ReadEnds
  <2>1. DOMAIN OptionsAbove \subseteq Keys
        /\ \A k \in DOMAIN OptionsAbove: OptionsAbove[k] \in Int
    <3>1. Given \subseteq Keys /\ optn \in Int /\ optt \in Int
      BY DEF Given, Keys, Corrected, Settings, Settled
    <3> QED
      BY <3>1, SetOfIntegers DEF OptionsAbove
  <2> QED
    BY <1>3, <2>1 DEF ReadEnds
<1>4. CASE CheckConfig
  <2> DEFINE corrected == Set([k \in OutOfRange |-> Settings[k].fallback], data)
  <2>1. DOMAIN corrected \subseteq Keys /\ \A k \in DOMAIN corrected: corrected[k] \in Int
    <3>1. OutOfRange \subseteq Keys
          /\ \A k \in OutOfRange: Settings[k].fallback \in Int
      BY DEF OutOfRange, Keys, Corrected, Settings
    <3> QED
      BY <3>1, SetOfIntegers
  <2> QED
    BY <1>4, <2>1 DEF CheckConfig
<1>5. CASE Lock \/ RunWorkers \/ Loop
  BY <1>5 DEF Lock, RunWorkers, Loop
<1>6. CASE WritePid
  BY <1>6 DEF WritePid
<1>7. CASE NewNetwork
  BY <1>7, LinesAssumption DEF NewNetwork
<1>8. CASE Serve \/ UNCHANGED <<vars, startVars>>
  BY <1>8 DEF Serve, startVars
<1> QED
  BY <1>1, <1>2, <1>3, <1>4, <1>5, <1>6, <1>7, <1>8 DEF StartupNext

\* Type correctness of a start and of its worker, for a file of any length: the
\* map holds integers, the worker is made with a number of threads there may be.
THEOREM StartTypeCorrect == StartupSpec => []StartupTypeOK
<1>1. StartupInit => Inv /\ StartTypes
  <2>1. StartupInit => Init
    BY SizeAssumption DEF StartupInit, Init
  <2>2. StartupInit => StartTypes
    BY LinesAssumption DEF StartupInit, StartTypes
  <2> QED
    BY <2>1, <2>2, Initial DEF StartupInit, Inv, Settled, Fresh
<1>2. (Inv /\ StartTypes) /\ [StartupNext]_<<vars, startVars>> => (Inv /\ StartTypes)'
  BY InvKept, StartTypesKept DEF Inv
<1>3. Inv /\ StartTypes => StartupTypeOK
  BY DEF Inv, IInv, Settled, StartTypes, StartupTypeOK
<1> QED
  BY <1>1, <1>2, <1>3, PTL DEF StartupSpec
==============================================================================
