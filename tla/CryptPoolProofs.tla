--------------------------- MODULE CryptPoolProofs ---------------------------
(* Proofs about CryptPool for any number of threads and any set of clients:  *)
(* its types, that no wakeup of a thread with a job is lost, that the round  *)
(* robin is balanced, and that a client has one owner.                       *)
EXTENDS CryptPool, TLAPS

-----------------------------------------------------------------------------
(* Types *)

USE ThreadsAssumption

\* Every step keeps the types of the pool's variables.
LEMMA TypeStep == TypeOK /\ [Next]_vars => TypeOK'
<1> SUFFICES ASSUME TypeOK, [Next]_vars PROVE TypeOK'
  OBVIOUS
<1> USE DEF TypeOK, Threads
<1>1. CASE StartThread
  BY <1>1 DEF StartThread, IsLast
<1>2. ASSUME NEW c \in Clients, AddJob(c) PROVE TypeOK'
  <2>1. NextThread \in Threads
    BY DEF NextThread
  <2>2. TurnAfter(NextThread) \in 0 .. MaxCryptThreads
    BY <2>1 DEF TurnAfter
  <2>3. queue_items' \in [Threads -> Seq(Clients)]
    BY <1>2, <2>1 DEF AddJob
  <2> QED
    BY <1>2, <2>1, <2>2, <2>3 DEF AddJob
<1>3. CASE AddNotify
  BY <1>3 DEF AddNotify, NotifyOne
<1>4. CASE BeginJoin
  BY <1>4 DEF BeginJoin, threadVars
<1>5. CASE JoinRequest
  BY <1>5 DEF JoinRequest
<1>6. CASE JoinNotify
  BY <1>6 DEF JoinNotify, NotifyOne
<1>7. CASE JoinThread
  BY <1>7 DEF JoinThread, IsLast
<1>8. ASSUME NEW t \in Threads, Thread(t) \/ SpuriousWakeup(t) PROVE TypeOK'
  <2>1. CASE Take(t)
    BY <2>1, <1>8 DEF Take, mainVars
  <2>2. CASE Leave(t) \/ Doze(t) \/ Block(t) \/ SpuriousWakeup(t)
    BY <2>2 DEF Leave, Doze, Block, SpuriousWakeup, mainVars
  <2>3. CASE Work(t)
    BY <2>3 DEF Work, mainVars
  <2>4. CASE LoopTest(t)
    BY <2>4 DEF LoopTest, mainVars
  <2> QED
    BY <1>8, <2>1, <2>2, <2>3, <2>4 DEF Thread
<1>9. CASE UNCHANGED vars
  BY <1>9 DEF vars, threadVars, mainVars
<1> QED
  BY <1>1, <1>2, <1>3, <1>4, <1>5, <1>6, <1>7, <1>8, <1>9 DEF Next, Main

\* Before start() every variable has its type.
LEMMA TypeInit == Init => TypeOK
  BY DEF Init, TypeOK, Threads

\* The variables of threadManager and of the crypt threads keep their types;
\* the index of a thread is one of the array at every access.
THEOREM TypeCorrect == Spec => []TypeOK
  BY TypeInit, TypeStep, PTL DEF Spec

-----------------------------------------------------------------------------
(* Wakeups *)

\* A thread that holds the mutex before its block has seen an empty queue, and
\* nothing is pushed until the block releases the mutex.
DozesOnEmpty == \A t \in Threads: tpc[t] = "doze" => queue_items[t] = <<>>

WakeInv == NoLostJobWakeup /\ DozesOnEmpty

\* Every step keeps the strengthened wakeup invariant.
LEMMA WakeStep == TypeOK /\ WakeInv /\ [Next]_vars => WakeInv'
<1> SUFFICES ASSUME TypeOK, WakeInv, [Next]_vars PROVE WakeInv'
  OBVIOUS
<1> USE DEF TypeOK, WakeInv, NoLostJobWakeup, DozesOnEmpty
<1>1. CASE StartThread
  BY <1>1 DEF StartThread, IsLast
<1>2. ASSUME NEW c \in Clients, AddJob(c) PROVE WakeInv'
  <2>1. NextThread \in Threads
    BY DEF NextThread, Threads
  <2>2. \A t \in Threads: t # NextThread => queue_items'[t] = queue_items[t]
    BY <1>2, <2>1 DEF AddJob
  <2>3. tpc' = tpc /\ tpc[NextThread] # "doze" /\ mpc = "idle"
        /\ mpc' = "notify" /\ mi' = NextThread
    BY <1>2 DEF AddJob, MutexFree
  <2> QED
    BY <2>1, <2>2, <2>3
<1>3. CASE AddNotify
  BY <1>3 DEF AddNotify, NotifyOne
<1>4. CASE BeginJoin
  BY <1>4 DEF BeginJoin, threadVars
<1>5. CASE JoinRequest
  BY <1>5 DEF JoinRequest
<1>6. CASE JoinNotify
  BY <1>6 DEF JoinNotify, NotifyOne
<1>7. CASE JoinThread
  BY <1>7 DEF JoinThread, IsLast
<1>8. ASSUME NEW t \in Threads, Thread(t) \/ SpuriousWakeup(t) PROVE WakeInv'
  <2>1. CASE Take(t)
    BY <2>1 DEF Take, mainVars
  <2>2. CASE Leave(t) \/ Doze(t) \/ Block(t) \/ SpuriousWakeup(t)
    BY <2>2 DEF Leave, Doze, Block, SpuriousWakeup, mainVars
  <2>3. CASE Work(t) \/ LoopTest(t)
    BY <2>3 DEF Work, LoopTest, mainVars
  <2> QED
    BY <1>8, <2>1, <2>2, <2>3 DEF Thread
<1>9. CASE UNCHANGED vars
  BY <1>9 DEF vars, threadVars, mainVars
<1> QED
  BY <1>1, <1>2, <1>3, <1>4, <1>5, <1>6, <1>7, <1>8, <1>9 DEF Next, Main

\* add() unlocks before it notifies, and still no thread sleeps on a job: one
\* that is blocked with a job in its queue is about to be notified.
THEOREM NoJobSleepsUnnoticed == Spec => []NoLostJobWakeup
<1>1. Init => WakeInv
  BY DEF Init, WakeInv, NoLostJobWakeup, DozesOnEmpty
<1>2. WakeInv => NoLostJobWakeup
  BY DEF WakeInv
<1> QED
  BY <1>1, <1>2, WakeStep, TypeCorrect, PTL DEF Spec

-----------------------------------------------------------------------------
(* Round robin *)

\* Between the wraps of the counter, the threads below it are one job ahead.
RoundInv ==
  \E k \in Nat: \A t \in Threads:
    handed[t] = IF t < lazy_job_counter THEN k + 1 ELSE k

\* Every step keeps the exact counts of the round robin.
LEMMA RoundStep == TypeOK /\ RoundInv /\ [Next]_vars => RoundInv'
<1> SUFFICES ASSUME TypeOK, RoundInv, [Next]_vars PROVE RoundInv'
  OBVIOUS
<1>1. ASSUME NEW c \in Clients, AddJob(c) PROVE RoundInv'
  <2>1. PICK k \in Nat: \A t \in Threads:
          handed[t] = IF t < lazy_job_counter THEN k + 1 ELSE k
    BY DEF RoundInv
  <2>2. NextThread \in Threads
    BY DEF NextThread, Threads, TypeOK
  <2>3. \A t \in Threads:
          handed'[t] = IF t = NextThread THEN handed[t] + 1 ELSE handed[t]
    BY <1>1, <2>2 DEF AddJob, TypeOK
  <2>4. lazy_job_counter' = NextThread + 1
    BY <1>1 DEF AddJob, TurnAfter
  <2>5. CASE lazy_job_counter = MaxCryptThreads
    <3>1. \A t \in Threads: handed[t] = k + 1
      BY <2>1, <2>5 DEF Threads
    <3>2. NextThread = 0
      BY <2>5 DEF NextThread
    <3>3. \A t \in Threads:
            handed'[t] = IF t < lazy_job_counter' THEN (k + 1) + 1 ELSE k + 1
      BY <2>3, <2>4, <3>1, <3>2 DEF Threads
    <3> QED
      BY <3>3 DEF RoundInv
  <2>6. CASE lazy_job_counter < MaxCryptThreads
    <3>1. NextThread = lazy_job_counter
      BY <2>6 DEF NextThread, TypeOK
    <3>2. \A t \in Threads:
            handed'[t] = IF t < lazy_job_counter' THEN k + 1 ELSE k
      BY <2>1, <2>2, <2>3, <2>4, <3>1 DEF Threads, TypeOK
    <3> QED
      BY <3>2 DEF RoundInv
  <2> QED
    BY <2>5, <2>6 DEF TypeOK
<1>2. CASE UNCHANGED <<handed, lazy_job_counter>>
  BY <1>2 DEF RoundInv
<1>3. (\E c \in Clients: AddJob(c)) \/ UNCHANGED <<handed, lazy_job_counter>>
  BY DEF Next, Main, Thread, StartThread, AddNotify, BeginJoin, JoinRequest,
         JoinNotify, JoinThread, Take, Leave, Doze, Block, SpuriousWakeup, Work,
         LoopTest, vars, threadVars, mainVars
<1> QED
  BY <1>1, <1>2, <1>3

\* The lazy wrap of the counter gives no thread two jobs more than another.
THEOREM RoundRobinBalanced == Spec => []Balanced
<1>1. Init => RoundInv
  <2> SUFFICES ASSUME Init PROVE RoundInv
    OBVIOUS
  <2>1. \A t \in Threads: handed[t] = IF t < lazy_job_counter THEN 0 + 1 ELSE 0
    BY DEF Init, Threads
  <2> QED
    BY <2>1 DEF RoundInv
<1>2. TypeOK /\ RoundInv => Balanced
  <2> SUFFICES ASSUME TypeOK, RoundInv, NEW t \in Threads, NEW u \in Threads
               PROVE handed[t] <= handed[u] + 1
    BY DEF Balanced
  <2>1. PICK k \in Nat: \A w \in Threads:
          handed[w] = IF w < lazy_job_counter THEN k + 1 ELSE k
    BY DEF RoundInv
  <2>2. handed[t] \in {k, k + 1} /\ handed[u] \in {k, k + 1}
    BY <2>1
  <2> QED
    BY <2>2
<1> QED
  BY <1>1, <1>2, RoundStep, TypeCorrect, PTL DEF Spec

-----------------------------------------------------------------------------
(* Ownership *)

\* The elements of a sequence after a push at its end.
LEMMA RangeAppend ==
  ASSUME NEW S, NEW q \in Seq(S), NEW x \in S
  PROVE  /\ Range(Append(q, x)) = Range(q) \union {x}
         /\ IsInjective(q) /\ x \notin Range(q) => IsInjective(Append(q, x))
<1>1. /\ Append(q, x) \in Seq(S)
      /\ Len(Append(q, x)) = Len(q) + 1
      /\ \A i \in 1 .. Len(q): Append(q, x)[i] = q[i]
      /\ Append(q, x)[Len(q) + 1] = x
      /\ Len(q) \in Nat
  OBVIOUS
<1>2. DOMAIN q = 1 .. Len(q) /\ DOMAIN Append(q, x) = 1 .. Len(q) + 1
  BY <1>1
<1>3. Range(Append(q, x)) = Range(q) \union {x}
  <2>1. ASSUME NEW i \in DOMAIN Append(q, x)
        PROVE  Append(q, x)[i] \in Range(q) \union {x}
    <3>1. CASE i \in 1 .. Len(q)
      BY <3>1, <1>1, <1>2 DEF Range
    <3>2. CASE i = Len(q) + 1
      BY <3>2, <1>1
    <3> QED
      BY <3>1, <3>2, <1>1, <1>2
  <2>2. ASSUME NEW i \in DOMAIN q PROVE q[i] \in Range(Append(q, x))
    BY <1>1, <1>2 DEF Range
  <2>3. x \in Range(Append(q, x))
    BY <1>1, <1>2 DEF Range
  <2> QED
    BY <2>1, <2>2, <2>3 DEF Range
<1>4. ASSUME IsInjective(q), x \notin Range(q) PROVE IsInjective(Append(q, x))
  <2>1. \A i \in 1 .. Len(q): q[i] # x
    BY <1>2, <1>4 DEF Range
  <2> QED
    BY <2>1, <1>1, <1>2, <1>4 DEF IsInjective
<1> QED
  BY <1>3, <1>4

\* The elements of a sequence after a pop of its first.
LEMMA RangeTail ==
  ASSUME NEW S, NEW q \in Seq(S), q # <<>>
  PROVE  /\ Range(Tail(q)) \subseteq Range(q)
         /\ Head(q) \in Range(q)
         /\ IsInjective(q) => IsInjective(Tail(q)) /\ Head(q) \notin Range(Tail(q))
<1>1. /\ Tail(q) \in Seq(S)
      /\ Len(Tail(q)) = Len(q) - 1
      /\ \A i \in 1 .. Len(q) - 1: Tail(q)[i] = q[i + 1]
      /\ Head(q) = q[1]
      /\ Len(q) \in Nat /\ Len(q) > 0
  OBVIOUS
<1>2. DOMAIN q = 1 .. Len(q) /\ DOMAIN Tail(q) = 1 .. Len(q) - 1
  BY <1>1
<1>3. Range(Tail(q)) \subseteq Range(q)
  BY <1>1, <1>2 DEF Range
<1>4. Head(q) \in Range(q)
  BY <1>1, <1>2 DEF Range
<1>5. ASSUME IsInjective(q)
      PROVE  IsInjective(Tail(q)) /\ Head(q) \notin Range(Tail(q))
  BY <1>1, <1>2, <1>5 DEF IsInjective, Range
<1> QED
  BY <1>3, <1>4, <1>5

\* A thread at work has a client.
WorksOnClient == \A t \in Threads: tpc[t] = "work" => cur[t] \in Clients

OwnerInv == ExclusiveOwner /\ WorksOnClient

\* Every step keeps one owner per client.
LEMMA OwnerStep == TypeOK /\ OwnerInv /\ [Next]_vars => OwnerInv'
<1> SUFFICES ASSUME TypeOK, OwnerInv, [Next]_vars PROVE OwnerInv'
  OBVIOUS
<1> USE DEF OwnerInv
<1>1. ASSUME NEW c \in Clients, AddJob(c) PROVE OwnerInv'
  <2>1. PICK t \in Threads: t = NextThread
    BY ThreadsAssumption DEF NextThread, Threads, TypeOK
  <2>2. /\ client[c] = "open"
        /\ client' = [client EXCEPT ![c] = "pool"]
        /\ queue_items' = [queue_items EXCEPT ![t] = Append(@, c)]
        /\ cur' = cur /\ tpc' = tpc
    BY <1>1, <2>1 DEF AddJob
  <2>3. \A u \in Threads: c \notin Owned(u)
    BY <2>2 DEF ExclusiveOwner
  <2>4. /\ Range(queue_items'[t]) = Range(queue_items[t]) \union {c}
        /\ IsInjective(queue_items'[t])
    <3>1. queue_items[t] \in Seq(Clients) /\ queue_items'[t] = Append(queue_items[t], c)
      BY <2>1, <2>2 DEF TypeOK
    <3>2. c \notin Range(queue_items[t]) /\ IsInjective(queue_items[t])
      BY <2>1, <2>3 DEF Owned, Queued, ExclusiveOwner
    <3> QED
      BY <3>1, <3>2, RangeAppend
  <2>5. \A u \in Threads: u # t => queue_items'[u] = queue_items[u]
    BY <2>1, <2>2 DEF TypeOK
  <2>6. /\ Queued(t)' = Queued(t) \union {c}
        /\ \A u \in Threads: u # t => Queued(u)' = Queued(u)
    BY <2>4, <2>5 DEF Queued
  <2>7. \A u \in Threads: Owned(u)' = IF u = t THEN Owned(u) \union {c} ELSE Owned(u)
    BY <2>2, <2>6 DEF Owned
  <2>8. \A u \in Threads: cur[u] # c
    BY <2>3, NoClientAssumption DEF Owned
  <2>9. \A d \in Clients: client'[d] = IF d = c THEN "pool" ELSE client[d]
    BY <2>2 DEF TypeOK
  <2>10. \A u \in Threads: Owned(u) \subseteq Clients
    BY DEF TypeOK, Owned, Queued, Range
  <2>11. ExclusiveOwner'
    <3> SUFFICES ASSUME NEW u \in Threads
                 PROVE  /\ \A d \in Owned(u)': client'[d] = "pool"
                        /\ \A w \in Threads \ {u}: Owned(u)' \intersect Owned(w)' = {}
                        /\ cur'[u] \notin Queued(u)'
                        /\ IsInjective(queue_items'[u])
      BY DEF ExclusiveOwner
    <3>1. \A d \in Owned(u)': client'[d] = "pool"
      BY <2>7, <2>9, <2>10 DEF ExclusiveOwner
    <3>2. \A w \in Threads \ {u}: Owned(u)' \intersect Owned(w)' = {}
      BY <2>3, <2>7 DEF ExclusiveOwner
    <3>3. cur'[u] \notin Queued(u)'
      BY <2>2, <2>6, <2>8 DEF ExclusiveOwner
    <3>4. IsInjective(queue_items'[u])
      BY <2>4, <2>5 DEF ExclusiveOwner
    <3> QED
      BY <3>1, <3>2, <3>3, <3>4
  <2>12. WorksOnClient'
    BY <2>2 DEF WorksOnClient
  <2> QED
    BY <2>11, <2>12
<1>2. ASSUME NEW t \in Threads, Take(t) PROVE OwnerInv'
  <2> DEFINE c == Head(queue_items[t])
  <2>1. /\ queue_items[t] # <<>>
        /\ cur' = [cur EXCEPT ![t] = c]
        /\ queue_items' = [queue_items EXCEPT ![t] = Tail(@)]
        /\ tpc' = [tpc EXCEPT ![t] = "work"]
        /\ client' = client
    BY <1>2 DEF Take
  <2>2. /\ Range(Tail(queue_items[t])) \subseteq Range(queue_items[t])
        /\ c \in Range(queue_items[t])
        /\ IsInjective(Tail(queue_items[t]))
        /\ c \notin Range(Tail(queue_items[t]))
    <3>1. queue_items[t] \in Seq(Clients) /\ IsInjective(queue_items[t])
      BY DEF TypeOK, ExclusiveOwner
    <3> QED
      BY <2>1, <3>1, RangeTail
  <2>3. \A u \in Threads:
          /\ queue_items'[u] = IF u = t THEN Tail(queue_items[t]) ELSE queue_items[u]
          /\ cur'[u] = IF u = t THEN c ELSE cur[u]
    BY <2>1 DEF TypeOK
  <2>4. c \in Clients
    BY <2>2 DEF TypeOK, Range
  <2>5. \A u \in Threads: Owned(u)' \subseteq Owned(u)
    BY <2>2, <2>3 DEF Owned, Queued
  <2>6. ExclusiveOwner'
    <3> SUFFICES ASSUME NEW u \in Threads
                 PROVE  /\ \A d \in Owned(u)': client'[d] = "pool"
                        /\ \A w \in Threads \ {u}: Owned(u)' \intersect Owned(w)' = {}
                        /\ cur'[u] \notin Queued(u)'
                        /\ IsInjective(queue_items'[u])
      BY DEF ExclusiveOwner
    <3>1. \A d \in Owned(u)': client'[d] = "pool"
      BY <2>1, <2>5 DEF ExclusiveOwner
    <3>2. \A w \in Threads \ {u}: Owned(u)' \intersect Owned(w)' = {}
      BY <2>5 DEF ExclusiveOwner
    <3>3. cur'[u] \notin Queued(u)'
      BY <2>2, <2>3 DEF ExclusiveOwner, Queued
    <3>4. IsInjective(queue_items'[u])
      BY <2>2, <2>3 DEF ExclusiveOwner
    <3> QED
      BY <3>1, <3>2, <3>3, <3>4
  <2>7. WorksOnClient'
    BY <2>1, <2>3, <2>4 DEF WorksOnClient, TypeOK
  <2> QED
    BY <2>6, <2>7
<1>3. ASSUME NEW t \in Threads, Work(t) PROVE OwnerInv'
  <2>1. /\ cur[t] \in Clients
        /\ cur' = [cur EXCEPT ![t] = NoClient]
        /\ tpc' = [tpc EXCEPT ![t] = "tail"]
        /\ queue_items' = queue_items
        /\ \A d \in Clients: d # cur[t] => client'[d] = client[d]
    BY <1>3 DEF Work, WorksOnClient, TypeOK
  <2>2. \A u \in Threads: cur'[u] = IF u = t THEN NoClient ELSE cur[u]
    BY <2>1 DEF TypeOK
  <2>3. \A u \in Threads: Queued(u)' = Queued(u) /\ Queued(u) \subseteq Clients
    BY <2>1 DEF Queued, Range, TypeOK
  <2>4. \A u \in Threads: Owned(u)' \subseteq Owned(u) \ {cur[t]}
    <3> SUFFICES ASSUME NEW u \in Threads PROVE Owned(u)' \subseteq Owned(u) \ {cur[t]}
      OBVIOUS
    <3>1. CASE u = t
      BY <3>1, <2>2, <2>3 DEF Owned, ExclusiveOwner
    <3>2. CASE u # t
      <4>1. cur[t] \in Owned(t)
        BY <2>1, NoClientAssumption DEF Owned
      <4>2. cur[t] \notin Owned(u)
        BY <4>1, <3>2 DEF ExclusiveOwner
      <4> QED
        BY <4>2, <3>2, <2>2, <2>3 DEF Owned
    <3> QED
      BY <3>1, <3>2
  <2>5. \A u \in Threads: Owned(u) \subseteq Clients
    BY DEF TypeOK, Owned, Queued, Range
  <2>6. ExclusiveOwner'
    <3> SUFFICES ASSUME NEW u \in Threads
                 PROVE  /\ \A d \in Owned(u)': client'[d] = "pool"
                        /\ \A w \in Threads \ {u}: Owned(u)' \intersect Owned(w)' = {}
                        /\ cur'[u] \notin Queued(u)'
                        /\ IsInjective(queue_items'[u])
      BY DEF ExclusiveOwner
    <3>1. \A d \in Owned(u)': client'[d] = "pool"
      BY <2>1, <2>4, <2>5 DEF ExclusiveOwner
    <3>2. \A w \in Threads \ {u}: Owned(u)' \intersect Owned(w)' = {}
      BY <2>4 DEF ExclusiveOwner
    <3>3. cur'[u] \notin Queued(u)'
      BY <2>2, <2>3, NoClientAssumption DEF ExclusiveOwner
    <3>4. IsInjective(queue_items'[u])
      BY <2>1 DEF ExclusiveOwner
    <3> QED
      BY <3>1, <3>2, <3>3, <3>4
  <2>7. WorksOnClient'
    BY <2>1, <2>2 DEF WorksOnClient, TypeOK
  <2> QED
    BY <2>6, <2>7
<1>4. CASE /\ UNCHANGED <<queue_items, cur, client>>
           /\ \A t \in Threads: tpc'[t] = "work" => tpc[t] = "work"
  BY <1>4 DEF ExclusiveOwner, WorksOnClient, Owned, Queued
<1>5. \/ \E c \in Clients: AddJob(c)
      \/ \E t \in Threads: Take(t) \/ Work(t)
      \/ /\ UNCHANGED <<queue_items, cur, client>>
         /\ \A t \in Threads: tpc'[t] = "work" => tpc[t] = "work"
  BY DEF Next, Main, Thread, StartThread, AddNotify, NotifyOne, BeginJoin,
         JoinRequest, JoinNotify, JoinThread, Leave, Doze, Block, SpuriousWakeup,
         LoopTest, vars, threadVars, mainVars, TypeOK
<1> QED
  BY <1>1, <1>2, <1>3, <1>4, <1>5

\* A client has one owner, a queue or a thread, until it is deleted: it is never
\* processed twice, nor deleted twice.
THEOREM OneOwner == Spec => []ExclusiveOwner
<1>1. Init => OwnerInv
  BY DEF Init, OwnerInv, ExclusiveOwner, WorksOnClient, Owned, Queued, Range,
         IsInjective
<1>2. OwnerInv => ExclusiveOwner
  BY DEF OwnerInv
<1> QED
  BY <1>1, <1>2, OwnerStep, TypeCorrect, PTL DEF Spec

-----------------------------------------------------------------------------
(* The pool keeps what module JobPool promises, step by step *)

\* A thread has a client in its hands exactly while it works.
HandsFollowWork == \A t \in Threads: tpc[t] = "work" <=> cur[t] # NoClient

\* join() tells the threads to stop one after the other, and nobody else does.
StopsInOrder ==
  \A t \in Threads:
    shutdown_requested[t] =>
      \/ mpc = "joined"
      \/ mpc \in {"join", "joinNotify", "joinWait"} /\ t < mi
      \/ mpc \in {"joinNotify", "joinWait"} /\ t = mi

\* start() creates the threads one after the other.
StartsInOrder ==
  mpc = "start" => \A t \in Threads: t >= mi => tpc[t] = "unborn"

PromiseInv == HandsFollowWork /\ StopsInOrder /\ StartsInOrder

\* Every step keeps the threads' hands and the order of the stops.
LEMMA PromiseInvStep == TypeOK /\ PromiseInv /\ [Next]_vars => PromiseInv'
<1> SUFFICES ASSUME TypeOK, PromiseInv, [Next]_vars PROVE PromiseInv'
  OBVIOUS
<1> USE NoClientAssumption
    DEF TypeOK, PromiseInv, HandsFollowWork, StopsInOrder, StartsInOrder
<1>1. CASE StartThread
  BY <1>1 DEF StartThread, IsLast, Threads
<1>2. ASSUME NEW c \in Clients, AddJob(c) PROVE PromiseInv'
  BY <1>2 DEF AddJob
<1>3. CASE AddNotify
  BY <1>3 DEF AddNotify, NotifyOne
<1>4. CASE BeginJoin
  BY <1>4 DEF BeginJoin, threadVars
<1>5. CASE JoinRequest
  BY <1>5 DEF JoinRequest
<1>6. CASE JoinNotify
  BY <1>6 DEF JoinNotify, NotifyOne
<1>7. CASE JoinThread
  BY <1>7 DEF JoinThread, IsLast, Threads
<1>8. ASSUME NEW t \in Threads, Thread(t) \/ SpuriousWakeup(t) PROVE PromiseInv'
  <2>1. CASE Take(t)
    <3>1. Head(queue_items[t]) \in Clients
      BY <2>1 DEF Take
    <3>2. /\ \A u \in Threads: cur'[u] = IF u = t THEN Head(queue_items[t]) ELSE cur[u]
          /\ \A u \in Threads: tpc'[u] = IF u = t THEN "work" ELSE tpc[u]
          /\ UNCHANGED <<mpc, mi, shutdown_requested>> /\ tpc[t] = "loop"
      BY <2>1 DEF Take, mainVars
    <3>3. HandsFollowWork'
      BY <3>1, <3>2
    <3>4. StopsInOrder' /\ StartsInOrder'
      BY <3>2
    <3> QED
      BY <3>3, <3>4
  <2>2. CASE Leave(t) \/ Doze(t) \/ Block(t) \/ SpuriousWakeup(t)
    BY <2>2 DEF Leave, Doze, Block, SpuriousWakeup, mainVars
  <2>3. CASE Work(t) \/ LoopTest(t)
    <3>1. /\ \A u \in Threads: u # t => cur'[u] = cur[u] /\ tpc'[u] = tpc[u]
          /\ cur'[t] = NoClient /\ tpc[t] \in {"work", "tail"}
          /\ tpc'[t] \in {"tail", "finished", "loop"}
          /\ UNCHANGED <<mpc, mi, shutdown_requested>>
      BY <2>3 DEF Work, LoopTest, mainVars
    <3>2. HandsFollowWork'
      BY <3>1
    <3>3. StopsInOrder' /\ StartsInOrder'
      BY <3>1
    <3> QED
      BY <3>2, <3>3
  <2> QED
    BY <1>8, <2>1, <2>2, <2>3 DEF Thread
<1>9. CASE UNCHANGED vars
  BY <1>9 DEF vars, threadVars, mainVars
<1> QED
  BY <1>1, <1>2, <1>3, <1>4, <1>5, <1>6, <1>7, <1>8, <1>9 DEF Next, Main

\* What JobPool sees of a thread and of a client.
Willing == [t \in Threads |->
              tpc[t] \in {"unborn", "loop", "doze", "wait"} \/ ~shutdown_requested[t]]
Fate == [c \in Clients |->
           CASE client[c] = "open" -> "new"
             [] client[c] = "pool" -> "pool"
             [] client[c] = "deleted" -> "handled"
             [] client[c] = "leaked" -> "dropped"]

\* JobPool does not see a step that leaves queues, hands, flags and clients alone,
\* and no thread's will to start a job.
LEMMA Hidden ==
  ASSUME UNCHANGED <<queue_items, cur, shutdown_requested, client>>,
         \A t \in Threads:
           (tpc'[t] \in {"unborn", "loop", "doze", "wait"} \/ ~shutdown_requested[t])
             <=> (tpc[t] \in {"unborn", "loop", "doze", "wait"} \/ ~shutdown_requested[t])
  PROVE  UNCHANGED Promise!vars
<1>1. Willing' = Willing
  BY DEF Willing
<1>2. Fate' = Fate
  BY DEF Fate
<1> QED
  BY <1>1, <1>2 DEF Promise!vars, Willing, Fate

\* A job that is added is submitted, and no lane is told to stop by then.
LEMMA AddIsSubmit ==
  ASSUME TypeOK, PromiseInv, NEW c \in Clients, AddJob(c)
  PROVE  Promise!Next
<1>1. PICK t \in Threads: t = NextThread
  BY DEF NextThread, Threads, TypeOK
<1>2. \A u \in Threads: ~shutdown_requested[u]
  BY DEF AddJob, PromiseInv, StopsInOrder
<1>3. Willing' = Willing
  BY DEF AddJob, Willing
<1>4. Fate[c] = "new" /\ Fate' = [Fate EXCEPT ![c] = "pool"]
  BY DEF AddJob, Fate, TypeOK
<1>5. Promise!Submit(t, c)
  BY <1>1, <1>2, <1>3, <1>4 DEF Promise!Submit, AddJob, Willing, Fate
<1> QED
  BY <1>1, <1>5 DEF Promise!Next

\* A flag that is set closes the lane, which may be past its last look.
LEMMA RequestIsClose ==
  ASSUME TypeOK, PromiseInv, JoinRequest
  PROVE  Promise!Next
<1>1. PICK t \in Threads: t = mi /\ ~shutdown_requested[t]
  BY DEF JoinRequest, PromiseInv, StopsInOrder, TypeOK, Threads
<1>2. PICK w \in BOOLEAN: w <=> tpc[t] \in {"unborn", "loop", "doze", "wait"}
  OBVIOUS
<1>3. Willing' = [Willing EXCEPT ![t] = w]
  BY <1>1, <1>2 DEF JoinRequest, Willing, TypeOK
<1>4. Fate' = Fate
  BY DEF JoinRequest, Fate
<1>5. Promise!Close(t)
  BY <1>1, <1>3, <1>4 DEF Promise!Close, JoinRequest, Willing, Fate
<1> QED
  BY <1>1, <1>5 DEF Promise!Next

\* A job that is taken is started, by a lane that is willing and works on nothing.
LEMMA TakeIsStart ==
  ASSUME TypeOK, PromiseInv, NEW t \in Threads, Take(t)
  PROVE  Promise!Next
<1>1. cur[t] = NoClient /\ Willing[t]
  BY DEF Take, PromiseInv, HandsFollowWork, Willing
<1>2. Willing' = [Willing EXCEPT ![t] = ~shutdown_requested[t]]
  BY DEF Take, Willing, TypeOK
<1>3. Fate' = Fate
  BY DEF Take, Fate
<1>4. Promise!Start(t)
  BY <1>1, <1>2, <1>3 DEF Promise!Start, Take, Willing, Fate
<1> QED
  BY <1>4 DEF Promise!Next

\* process_queue ends the job, with or without a crypt instance.
LEMMA WorkIsFinish ==
  ASSUME TypeOK, PromiseInv, NEW t \in Threads, Work(t)
  PROVE  Promise!Next
<1>1. cur[t] # NoClient /\ cur[t] \in Clients
  BY DEF Work, PromiseInv, HandsFollowWork, TypeOK
<1>2. Willing' = Willing
  BY DEF Work, Willing, TypeOK
<1>3. PICK f \in {"handled", "dropped"}: Fate' = [Fate EXCEPT ![cur[t]] = f]
  <2>1. CASE CI[t]
    <3>1. Fate' = [Fate EXCEPT ![cur[t]] = "handled"]
      BY <1>1, <2>1 DEF Work, Fate, TypeOK
    <3> QED
      BY <3>1
  <2>2. CASE ~CI[t]
    <3>1. Fate' = [Fate EXCEPT ![cur[t]] = "dropped"]
      BY <1>1, <2>2 DEF Work, Fate, TypeOK
    <3> QED
      BY <3>1
  <2> QED
    BY <2>1, <2>2
<1>4. Promise!Finish(t)
  BY <1>1, <1>2, <1>3 DEF Promise!Finish, Work, Willing, Fate
<1> QED
  BY <1>4 DEF Promise!Next

\* A thread that ends on an empty queue is a closed lane that ends.
LEMMA LeaveIsLeave ==
  ASSUME TypeOK, PromiseInv, NEW t \in Threads, Leave(t)
  PROVE  Promise!Next
<1>1. cur[t] = NoClient
  BY DEF Leave, PromiseInv, HandsFollowWork
<1>2. Willing' = [Willing EXCEPT ![t] = FALSE]
  BY DEF Leave, Willing, TypeOK
<1>3. Fate' = Fate
  BY DEF Leave, Fate
<1>4. Promise!Leave(t)
  BY <1>1, <1>2, <1>3 DEF Promise!Leave, Leave, Willing, Fate
<1> QED
  BY <1>4 DEF Promise!Next

\* Every step of the pool is one of JobPool or changes nothing that it sees.
LEMMA PromiseStep ==
  TypeOK /\ PromiseInv /\ [Next]_vars => [Promise!Next]_(Promise!vars)
<1> SUFFICES ASSUME TypeOK, PromiseInv, [Next]_vars
             PROVE  Promise!Next \/ UNCHANGED Promise!vars
  OBVIOUS
<1>1. CASE StartThread
  <2>1. \A t \in Threads: ~shutdown_requested[t]
    BY <1>1 DEF StartThread, PromiseInv, StopsInOrder
  <2> QED
    BY <1>1, <2>1, Hidden DEF StartThread
<1>2. CASE AddNotify \/ JoinNotify
  BY <1>2, Hidden DEF AddNotify, JoinNotify, NotifyOne, TypeOK
<1>3. CASE BeginJoin \/ JoinThread
  BY <1>3, Hidden DEF BeginJoin, JoinThread, threadVars
<1>4. ASSUME NEW t \in Threads, Doze(t) \/ Block(t) \/ SpuriousWakeup(t) \/ LoopTest(t)
      PROVE  UNCHANGED Promise!vars
  BY <1>4, Hidden DEF Doze, Block, SpuriousWakeup, LoopTest, TypeOK
<1>5. CASE UNCHANGED vars
  BY <1>5, Hidden DEF vars, threadVars
<1> QED
  BY <1>1, <1>2, <1>3, <1>4, <1>5, AddIsSubmit, RequestIsClose, TakeIsStart,
     WorkIsFinish, LeaveIsLeave DEF Next, Main, Thread

\* The pool, with its mutexes, condition variables and program counters hidden,
\* hands over, starts and ends jobs as JobPool says, for any number of threads:
\* in order of arrival, one at a time, and at most one after the stop.
THEOREM KeepsPromise == Spec => Promise!Init /\ [][Promise!Next]_(Promise!vars)
<1>1. Init => PromiseInv
  BY DEF Init, PromiseInv, HandsFollowWork, StopsInOrder, StartsInOrder
<1>2. Init => Promise!Init
  BY DEF Init, Promise!Init
<1> QED
  BY <1>1, <1>2, PromiseInvStep, PromiseStep, TypeCorrect, PTL DEF Spec
==============================================================================
