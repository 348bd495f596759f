-------------------------- MODULE ResultPathProofs ---------------------------
(* Theorems about ResultPath for any cap, any directories and any length of  *)
(* the kernel's queue: while a directory is watched the count of its files   *)
(* is the real one, up to the events that wait and what no event tells of;   *)
(* and the count, which may fall below zero, is bounded.                     *)
EXTENDS ResultPath, FiniteSetTheorems, TLAPS

-----------------------------------------------------------------------------
(* The inductive invariant *)

Events == {"create", "delete", "ignored"}

\* The part of TypeOK the argument needs. (That the count is bounded is another
\* argument, below.)
Types ==
  /\ here \in BOOLEAN /\ dir_watched \in BOOLEAN
  /\ entries \in [Directories -> 0..MaxEntries]
  /\ watched \in Directories \union {"none"}
  /\ queue \in Seq(Events)
  /\ unseen \in Int /\ files_in_directory \in Int
  /\ npc \in {"start", "list", "add", "stat", "idle", "stopping", "off", "down"}

\* A worker that holds itself without a watch has none, and no event of an
\* earlier one waits: so no directory is listed, and none watched anew, while
\* the events of another can still change the count.
WatchPlaced ==
  /\ watched = "here" => here
  /\ npc \in {"start", "off", "list", "add", "stat"} => ~dir_watched
  /\ npc = "down" \/ (npc # "stat" /\ ~dir_watched) => watched = "none" /\ queue = <<>>

\* The end of a watch is its last event.
EndsLast ==
  \A i \in DOMAIN queue: queue[i] = "ignored" => i = Len(queue) /\ watched = "none"

IInv == Types /\ WatchPlaced /\ EndsLast /\ CountTracks

-----------------------------------------------------------------------------
(* How many events of a kind are in a queue *)

Count(q, e) == Cardinality({i \in DOMAIN q: q[i] = e})

LEMMA CountIsFinite ==
  ASSUME NEW q \in Seq(Events), NEW e
  PROVE  /\ IsFiniteSet({i \in DOMAIN q: q[i] = e})
         /\ Count(q, e) \in Nat
<1>1. IsFiniteSet(1..Len(q))
  BY FS_Interval
<1>2. {i \in DOMAIN q: q[i] = e} \in SUBSET (1..Len(q))
  OBVIOUS
<1>3. IsFiniteSet({i \in DOMAIN q: q[i] = e})
  BY <1>1, <1>2, FS_Subset
<1> QED
  BY <1>3, FS_CardinalityType DEF Count

LEMMA CountOfNone ==
  ASSUME NEW e
  PROVE  Count(<<>>, e) = 0
<1>1. {i \in DOMAIN <<>>: <<>>[i] = e} = {}
  OBVIOUS
<1> QED
  BY <1>1, FS_EmptySet DEF Count

\* An event that joins counts once, for its kind.
LEMMA CountAppended ==
  ASSUME NEW q \in Seq(Events), NEW x \in Events, NEW e
  PROVE  Count(Append(q, x), e) = Count(q, e) + (IF x = e THEN 1 ELSE 0)
<1> DEFINE old == {i \in DOMAIN q: q[i] = e}
           new == {i \in DOMAIN Append(q, x): Append(q, x)[i] = e}
<1>0. Count(q, e) = Cardinality(old) /\ Count(Append(q, x), e) = Cardinality(new)
  BY DEF Count
<1>1. IsFiniteSet(old) /\ Cardinality(old) \in Nat
  BY CountIsFinite DEF Count
<1>2. CASE x = e
  <2>1. new = old \union {Len(q) + 1} /\ Len(q) + 1 \notin old
    BY <1>2
  <2> HIDE DEF old, new
  <2>2. Cardinality(new) = Cardinality(old) + 1
    BY <1>1, <2>1, FS_AddElement
  <2> QED
    BY <1>0, <1>2, <2>2
<1>3. CASE x # e
  <2>1. new = old
    BY <1>3
  <2> HIDE DEF old, new
  <2> QED
    BY <1>0, <1>1, <1>3, <2>1
<1> QED
  BY <1>2, <1>3

\* The places of a kind in the rest of a queue are those of the queue past the
\* first, shifted by one.
LEMMA CountInTail ==
  ASSUME NEW q \in Seq(Events), q # <<>>, NEW e
  PROVE  Count(q, e) = Count(Tail(q), e) + (IF Head(q) = e THEN 1 ELSE 0)
<1> DEFINE rest == {i \in DOMAIN Tail(q): Tail(q)[i] = e}
           past == {i \in DOMAIN q: q[i] = e /\ i # 1}
           all  == {i \in DOMAIN q: q[i] = e}
           f    == [i \in rest |-> i + 1]
<1>0. Count(q, e) = Cardinality(all) /\ Count(Tail(q), e) = Cardinality(rest)
  BY DEF Count
<1>1. Tail(q) \in Seq(Events) /\ IsFiniteSet(rest) /\ Cardinality(rest) \in Nat
  <2>1. Tail(q) \in Seq(Events)
    OBVIOUS
  <2> QED
    BY <2>1, CountIsFinite DEF Count
<1>2. f \in Bijection(rest, past)
  <2>1. f \in [rest -> past]
    OBVIOUS
  <2>2. \A a, b \in rest: f[a] = f[b] => a = b
    OBVIOUS
  <2>3. \A t \in past: \E s \in rest: f[s] = t
    <3> TAKE t \in past
    <3>1. t - 1 \in rest /\ f[t - 1] = t
      OBVIOUS
    <3> QED
      BY <3>1
  <2> QED
    BY <2>1, <2>2, <2>3 DEF Bijection, Injection, Surjection, IsInjective
<1>3. IsFiniteSet(past) /\ Cardinality(past) = Cardinality(rest)
  BY <1>1, <1>2, FS_Bijection DEF ExistsBijection
<1>4. CASE Head(q) = e
  <2>1. all = past \union {1} /\ 1 \notin past
    BY <1>4
  <2> HIDE DEF rest, past, all
  <2>2. Cardinality(all) = Cardinality(past) + 1
    BY <1>3, <2>1, FS_AddElement
  <2> QED
    BY <1>0, <1>3, <1>4, <2>2
<1>5. CASE Head(q) # e
  <2>1. all = past
    BY <1>5
  <2> HIDE DEF rest, past, all
  <2> QED
    BY <1>0, <1>1, <1>3, <1>5, <2>1
<1> QED
  BY <1>4, <1>5

-----------------------------------------------------------------------------
(* What the kinds of steps have in common *)

\* A step that touches neither the watch and its queue nor the files.
LEMMA Undisturbed ==
  ASSUME IInv, UNCHANGED kernelVars, UNCHANGED <<entries, files_in_directory>>
  PROVE  EndsLast' /\ CountTracks'
BY DEF IInv, EndsLast, CountTracks, Waiting, kernelVars

\* With no watch there is nothing to track.
LEMMA Unwatching ==
  ASSUME watched' = "none"
  PROVE  CountTracks'
BY DEF CountTracks

\* An event that joins the queue of a watch that goes on.
LEMMA QueuedTells ==
  ASSUME Types, EndsLast, watched # "none", Len(queue) < MaxQueue,
         NEW e \in {"create", "delete"},
         queue' = Queued(e), UNCHANGED <<watched, files_in_directory>>
  PROVE  /\ queue' \in Seq(Events) /\ EndsLast'
         /\ Waiting("create")' - Waiting("delete")' =
              Waiting("create") - Waiting("delete") + (IF e = "create" THEN 1 ELSE -1)
<1>1. queue' = Append(queue, e) /\ queue \in Seq(Events) /\ e \in Events
  BY DEF Queued, Types, Events
<1>2. queue' \in Seq(Events)
  BY <1>1
<1>3. EndsLast'
  <2> SUFFICES ASSUME NEW i \in DOMAIN queue', queue'[i] = "ignored"
               PROVE  FALSE
    BY DEF EndsLast
  <2>1. CASE i = Len(queue) + 1
    BY <1>1, <2>1
  <2>2. CASE i \in DOMAIN queue
    BY <1>1, <2>2 DEF EndsLast
  <2> QED
    BY <1>1, <2>1, <2>2
<1>4. /\ Waiting("create") = Count(queue, "create")
      /\ Waiting("delete") = Count(queue, "delete")
      /\ Waiting("create")' = Count(queue', "create")
      /\ Waiting("delete")' = Count(queue', "delete")
  BY DEF Waiting, Count
<1>5. Count(queue, "create") \in Nat /\ Count(queue, "delete") \in Nat
  BY <1>1, CountIsFinite
<1>6. Count(queue', "create") = Count(queue, "create") + (IF e = "create" THEN 1 ELSE 0)
  BY <1>1, CountAppended
<1>7. Count(queue', "delete") = Count(queue, "delete") + (IF e = "delete" THEN 1 ELSE 0)
  BY <1>1, CountAppended
<1> QED
  BY <1>2, <1>3, <1>4, <1>5, <1>6, <1>7

\* The end of a watch.
LEMMA WatchEndsLast ==
  ASSUME Types, EndsLast, watched # "none", WatchEnds
  PROVE  /\ queue' \in Seq(Events) /\ unseen' \in Int /\ watched' = "none"
         /\ EndsLast'
<1>1. queue' \in {queue, Append(queue, "ignored")} /\ queue \in Seq(Events)
  BY DEF WatchEnds, Queued, Types
<1>2. queue' \in Seq(Events)
  BY <1>1 DEF Events
<1>3. \A i \in DOMAIN queue: queue[i] # "ignored"
  BY DEF EndsLast
<1>4. EndsLast'
  <2>1. CASE queue' = queue
    BY <1>3, <2>1 DEF EndsLast
  <2>2. CASE queue' = Append(queue, "ignored")
    BY <1>1, <1>3, <2>2 DEF EndsLast, WatchEnds
  <2> QED
    BY <1>1, <2>1, <2>2
<1> QED
  BY <1>2, <1>4 DEF WatchEnds

-----------------------------------------------------------------------------
(* Each step keeps the invariant *)

LEMMA Initial == Init => IInv
<1> SUFFICES ASSUME Init
             PROVE  IInv
  OBVIOUS
<1>1. queue = <<>> /\ watched = "none" /\ ~dir_watched /\ npc = "start"
  BY DEF Init
<1>2. Types
  <2>1. queue \in Seq(Events)
    BY <1>1
  <2>2. /\ here \in BOOLEAN /\ dir_watched \in BOOLEAN
        /\ entries \in [Directories -> 0..MaxEntries]
    BY Zenon DEF Init
  <2>3. unseen = 0 /\ files_in_directory = 0
    BY DEF Init
  <2> QED
    BY <1>1, <2>1, <2>2, <2>3 DEF Types
<1>3. WatchPlaced
  BY <1>1 DEF WatchPlaced
<1> QED
  BY <1>1, <1>2, <1>3 DEF Init, IInv, EndsLast, CountTracks

\* The steps of the worker that change nothing but where it is.
LEMMA QuietSteps ==
  ASSUME IInv, InitOff \/ InitWatch \/ InitUnread \/ AddWatchFails \/ StatInode \/ Shutdown
  PROVE  IInv'
<1>1. UNCHANGED kernelVars /\ UNCHANGED <<here, entries, files_in_directory>>
  BY DEF InitOff, InitWatch, InitUnread, AddWatchFails, StatInode, Shutdown, fsVars
<1>2. Types'
  <2>1. dir_watched' \in BOOLEAN
    BY DEF InitOff, InitWatch, InitUnread, AddWatchFails, StatInode, Shutdown, IInv, Types
  <2>2. npc' \in {"list", "idle", "stopping", "off"}
    BY DEF InitOff, InitWatch, InitUnread, AddWatchFails, StatInode, Shutdown
  <2> QED
    BY <1>1, <2>1, <2>2 DEF IInv, Types, kernelVars
<1>3. WatchPlaced'
  <2>1. CASE StatInode
    BY <1>1, <2>1 DEF StatInode, IInv, WatchPlaced, kernelVars
  <2>2. CASE ~StatInode
    <3>1. npc \in {"start", "add", "idle"} /\ dir_watched' = dir_watched
      BY <2>2 DEF InitOff, InitWatch, InitUnread, AddWatchFails, Shutdown
    <3>2. /\ npc' \in {"list", "idle", "stopping", "off"}
          /\ npc = "idle" => npc' = "stopping"
      BY <2>2 DEF InitOff, InitWatch, InitUnread, AddWatchFails, Shutdown
    <3> QED
      BY <1>1, <3>1, <3>2 DEF IInv, WatchPlaced, kernelVars
  <2> QED
    BY <2>1, <2>2
<1> QED
  BY <1>1, <1>2, <1>3, Undisturbed DEF IInv

LEMMA CheckKeeps ==
  ASSUME IInv, Check
  PROVE  IInv'
<1> USE DEF IInv
<1>1. CASE ~(here /\ Replaced) \/ watched = "none"
  <2>1. UNCHANGED kernelVars
        /\ UNCHANGED <<here, entries, dir_watched, files_in_directory>>
    BY <1>1 DEF Check, UnwatchDirectory, KeepUntilIgnored, kernelVars
  <2>2. Types' /\ WatchPlaced'
    BY <2>1 DEF Check, Types, WatchPlaced, kernelVars
  <2> QED
    BY <2>1, <2>2, Undisturbed
<1>2. CASE here /\ Replaced /\ watched # "none"
  <2>1. /\ WatchEnds /\ UNCHANGED <<here, dir_watched, files_in_directory>>
        /\ entries' = [entries EXCEPT !["old"] = 0]
        /\ dir_watched /\ npc' = "idle"
    BY <1>2 DEF Check, UnwatchDirectory, KeepUntilIgnored, Replaced
  <2>2. queue' \in Seq(Events) /\ unseen' \in Int /\ watched' = "none" /\ EndsLast'
    BY <1>2, <2>1, WatchEndsLast
  <2>3. entries' \in [Directories -> 0..MaxEntries]
    <3>1. entries \in [Directories -> 0..MaxEntries] /\ 0 \in 0..MaxEntries
      BY BoundsAssumption DEF Types
    <3> QED
      BY <2>1, <3>1
  <2>4. Types'
    BY <2>1, <2>2, <2>3 DEF Types
  <2>5. WatchPlaced'
    BY <2>1, <2>2 DEF WatchPlaced
  <2> QED
    BY <2>2, <2>4, <2>5, Unwatching
<1> QED
  BY <1>1, <1>2

LEMMA CountFilesKeeps ==
  ASSUME IInv, CountFiles
  PROVE  IInv'
<1> USE DEF IInv
<1>1. watched = "none" /\ UNCHANGED kernelVars /\ UNCHANGED <<fsVars, dir_watched>>
  BY DEF CountFiles, WatchPlaced
<1>2. files_in_directory' \in Int
  BY DEF CountFiles, Listed, Types, Directories
<1>3. Types' /\ WatchPlaced' /\ EndsLast'
  BY <1>1, <1>2 DEF CountFiles, Types, WatchPlaced, EndsLast, kernelVars, fsVars
<1> QED
  BY <1>1, <1>3, Unwatching DEF kernelVars

\* The directory is listed while no event can come, so what was not listed is
\* just what is not seen.
LEMMA AddWatchKeeps ==
  ASSUME IInv, AddWatch
  PROVE  IInv'
<1> USE DEF IInv
<1>1. queue = <<>> /\ queue' = <<>> /\ UNCHANGED <<fsVars, dir_watched>>
  BY DEF AddWatch, WatchPlaced
<1>2. entries["here"] \in Int /\ files_in_directory \in Int
  BY DEF Types, Directories
<1>3. Types' /\ WatchPlaced' /\ EndsLast'
  BY <1>1, <1>2 DEF AddWatch, Types, WatchPlaced, EndsLast, fsVars, Directories
<1>4. CountTracks'
  <2>1. Waiting("create")' = 0 /\ Waiting("delete")' = 0
    BY <1>1, CountOfNone DEF Waiting, Count
  <2> QED
    BY <1>1, <1>2, <2>1 DEF AddWatch, CountTracks, fsVars
<1> QED
  BY <1>3, <1>4

LEMMA ReadcbKeeps ==
  ASSUME IInv, Readcb
  PROVE  IInv'
<1> USE DEF IInv
<1> DEFINE e == Head(queue)
<1>1. /\ queue \in Seq(Events) /\ queue # <<>> /\ e \in Events
      /\ queue' = Tail(queue) /\ queue' \in Seq(Events)
      /\ UNCHANGED <<fsVars, watched, unseen, npc>> /\ npc \in {"idle", "stopping"}
  BY DEF Readcb, Types
<1>2. files_in_directory' =
        files_in_directory + (IF e = "create" THEN 1 ELSE IF e = "delete" THEN -1 ELSE 0)
  BY <1>1 DEF Readcb, CountAfter, Events
<1>3. EndsLast'
  <2> SUFFICES ASSUME NEW i \in DOMAIN queue', queue'[i] = "ignored"
               PROVE  i = Len(queue') /\ watched' = "none"
    BY DEF EndsLast
  <2>1. i + 1 \in DOMAIN queue /\ queue[i + 1] = "ignored" /\ Len(queue') = Len(queue) - 1
    BY <1>1
  <2> QED
    BY <1>1, <2>1 DEF EndsLast
<1>4. CASE e = "ignored"
  <2>1. 1 \in DOMAIN queue /\ queue[1] = "ignored"
    BY <1>1, <1>4
  <2>2. Len(queue) = 1 /\ watched = "none"
    BY <2>1 DEF EndsLast
  <2>3. queue' = <<>>
    BY <1>1, <2>2
  <2>4. dir_watched' = FALSE
    BY <1>4 DEF Readcb
  <2>5. files_in_directory' \in Int
    BY <1>2 DEF Types
  <2>6. Types'
    BY <1>1, <2>4, <2>5 DEF Types, fsVars
  <2>7. WatchPlaced'
    BY <1>1, <2>2, <2>3, <2>4 DEF WatchPlaced
  <2> QED
    BY <1>1, <1>3, <2>2, <2>6, <2>7, Unwatching
<1>5. CASE e # "ignored"
  <2>1. UNCHANGED dir_watched
    BY <1>5 DEF Readcb
  <2>2. dir_watched
    BY <1>1 DEF WatchPlaced, Types
  <2>3. Types' /\ WatchPlaced'
    BY <1>1, <1>2, <2>1, <2>2 DEF Types, WatchPlaced, fsVars
  <2>4. CountTracks'
    <3>1. /\ Waiting("create") = Count(queue, "create")
          /\ Waiting("delete") = Count(queue, "delete")
          /\ Waiting("create")' = Count(queue', "create")
          /\ Waiting("delete")' = Count(queue', "delete")
      BY DEF Waiting, Count
    <3>2. /\ Count(queue', "create") \in Nat /\ Count(queue', "delete") \in Nat
      BY <1>1, CountIsFinite
    <3>3. Count(queue, "create") = Count(queue', "create") + (IF e = "create" THEN 1 ELSE 0)
      BY <1>1, CountInTail
    <3>4. Count(queue, "delete") = Count(queue', "delete") + (IF e = "delete" THEN 1 ELSE 0)
      BY <1>1, CountInTail
    <3>5. files_in_directory \in Int /\ unseen \in Int
      BY DEF Types
    <3>6. files_in_directory' + Waiting("create")' - Waiting("delete")' + unseen
            = files_in_directory + Waiting("create") - Waiting("delete") + unseen
      <4> HIDE DEF e
      <4>1. CASE e = "create"
        BY <1>2, <3>1, <3>2, <3>3, <3>4, <3>5, <4>1
      <4>2. CASE e = "delete"
        BY <1>2, <3>1, <3>2, <3>3, <3>4, <3>5, <4>2
      <4> QED
        BY <1>1, <1>5, <4>1, <4>2 DEF Events
    <3>7. UNCHANGED <<watched, unseen, entries>>
      BY <1>1 DEF fsVars
    <3> QED
      BY <3>6, <3>7 DEF CountTracks
  <2> QED
    BY <1>3, <2>3, <2>4
<1> QED
  BY <1>4, <1>5

LEMMA UninitKeeps ==
  ASSUME IInv, Uninit
  PROVE  IInv'
<1>1. watched' = "none" /\ queue' = <<>>
  BY DEF Uninit
<1>2. Types' /\ WatchPlaced' /\ EndsLast'
  BY <1>1, BoundsAssumption DEF Uninit, IInv, Types, WatchPlaced, EndsLast, Directories
<1> QED
  BY <1>1, <1>2, Unwatching DEF IInv

-----------------------------------------------------------------------------
(* So does what others do to the spool *)

\* n files more in a directory, of whom the events told or of whom none will.
LEMMA OpenlyKeeps ==
  ASSUME IInv, NEW d \in Directories, NEW n \in {1, -1},
         Openly(d, n, IF n = 1 THEN "create" ELSE "delete")
  PROVE  IInv'
<1> USE DEF IInv
<1>1. /\ watched = d /\ d # "none" /\ entries[d] + n \in 0..MaxEntries
      /\ entries' = [entries EXCEPT ![d] = @ + n]
      /\ UNCHANGED <<here, watched, unseen, npc, dir_watched, files_in_directory>>
  BY DEF Openly, Directories
<1>2. /\ queue' \in Seq(Events) /\ EndsLast'
      /\ Waiting("create")' - Waiting("delete")' =
           Waiting("create") - Waiting("delete") + n
  BY <1>1, QueuedTells DEF Openly
<1>3. Types' /\ WatchPlaced'
  BY <1>1, <1>2 DEF Types, WatchPlaced, Directories
<1>4. Waiting("create") \in Nat /\ Waiting("delete") \in Nat
      /\ Waiting("create")' \in Nat /\ Waiting("delete")' \in Nat
  BY <1>2, CountIsFinite DEF Waiting, Count, Types
<1>5. CountTracks'
  BY <1>1, <1>2, <1>4 DEF CountTracks, Types
<1> QED
  BY <1>2, <1>3, <1>5

LEMMA UnwatchedKeeps ==
  ASSUME IInv, NEW d \in Directories, NEW n \in {1, -1}, Silently(d, n)
  PROVE  IInv'
<1> USE DEF IInv
<1>1. /\ entries[d] + n \in 0..MaxEntries
      /\ entries' = [entries EXCEPT ![d] = @ + n]
      /\ unseen' = IF watched = d THEN unseen + n ELSE unseen
      /\ UNCHANGED <<here, watched, queue, npc, dir_watched, files_in_directory>>
  BY DEF Silently
<1>2. Types' /\ WatchPlaced' /\ EndsLast'
  BY <1>1 DEF Types, WatchPlaced, EndsLast
<1>3. Waiting("create") \in Nat /\ Waiting("delete") \in Nat
      /\ Waiting("create")' = Waiting("create") /\ Waiting("delete")' = Waiting("delete")
  BY <1>1, CountIsFinite DEF Waiting, Count, Types
<1>4. CountTracks'
  BY <1>1, <1>3 DEF CountTracks, Types
<1> QED
  BY <1>2, <1>4

\* Events and count stay those of the directory when it is renamed.
LEMMA MoveAwayKeeps ==
  ASSUME IInv, MoveAway
  PROVE  IInv'
<1> USE DEF IInv
<1>1. UNCHANGED <<queue, unseen, npc, dir_watched, files_in_directory>>
      /\ watched' = Elsewhere(watched) /\ here' = FALSE
  BY DEF MoveAway
<1>2. Types' /\ WatchPlaced' /\ EndsLast'
  <2>1. watched' \in {"old", "none"} /\ (watched' = "none" <=> watched = "none")
    BY <1>1 DEF Elsewhere, Types, Directories
  <2>2. entries' \in [Directories -> 0..MaxEntries]
    BY BoundsAssumption DEF MoveAway, Types, Directories
  <2>3. Types'
    BY <1>1, <2>1, <2>2 DEF Types, Directories
  <2>4. WatchPlaced' /\ EndsLast'
    BY <1>1, <2>1 DEF WatchPlaced, EndsLast
  <2> QED
    BY <2>3, <2>4
<1>3. watched # "none" => watched' = "old" /\ entries'["old"] = entries[watched]
  BY DEF MoveAway, Elsewhere, Types, Directories
<1>4. watched' # "none" => watched # "none"
  BY <1>1 DEF Elsewhere
<1>5. CountTracks'
  BY <1>1, <1>3, <1>4 DEF CountTracks, Waiting
<1> QED
  BY <1>2, <1>5

LEMMA WatchedGoneKeeps ==
  ASSUME IInv, WatchedGone
  PROVE  IInv'
<1> USE DEF IInv
<1>1. queue' \in Seq(Events) /\ unseen' \in Int /\ watched' = "none" /\ EndsLast'
  BY WatchEndsLast DEF WatchedGone
<1>2. npc = "stat" \/ (dir_watched /\ npc # "down")
  BY DEF WatchedGone, WatchPlaced
<1>3. Types' /\ WatchPlaced'
  BY <1>1, <1>2, BoundsAssumption DEF WatchedGone, Types, WatchPlaced, Directories
<1> QED
  BY <1>1, <1>3, Unwatching

LEMMA MakeDirectoryKeeps ==
  ASSUME IInv, MakeDirectory
  PROVE  IInv'
<1> USE DEF IInv
<1>1. /\ UNCHANGED kernelVars /\ UNCHANGED <<npc, dir_watched, files_in_directory>>
      /\ watched # "here" /\ entries'["old"] = entries["old"]
  BY DEF MakeDirectory, WatchPlaced, Types, Directories
<1>2. Types' /\ WatchPlaced' /\ EndsLast'
  BY <1>1 DEF MakeDirectory, Types, WatchPlaced, EndsLast, kernelVars, Directories
<1>3. CountTracks'
  BY <1>1 DEF CountTracks, Waiting, Types, kernelVars, Directories
<1> QED
  BY <1>2, <1>3

\* The invariant is inductive.
LEMMA NextKeeps == IInv /\ [Next]_vars => IInv'
<1> SUFFICES ASSUME IInv, [Next]_vars
             PROVE  IInv'
  OBVIOUS
<1>1. CASE InitOff \/ InitWatch \/ InitUnread \/ AddWatchFails \/ StatInode \/ Shutdown
  BY <1>1, QuietSteps
<1>2. CASE Check
  BY <1>2, CheckKeeps
<1>3. CASE CountFiles
  BY <1>3, CountFilesKeeps
<1>4. CASE AddWatch
  BY <1>4, AddWatchKeeps
<1>5. CASE Readcb
  BY <1>5, ReadcbKeeps
<1>6. CASE Uninit
  BY <1>6, UninitKeeps
<1>7. ASSUME NEW d \in Directories, FileMade(d)
      PROVE  IInv'
  BY <1>7, OpenlyKeeps DEF FileMade
<1>8. ASSUME NEW d \in Directories, FileDeleted(d)
      PROVE  IInv'
  BY <1>8, OpenlyKeeps DEF FileDeleted
<1>9. ASSUME NEW d \in Directories, Unwatched(d)
      PROVE  IInv'
  BY <1>9, UnwatchedKeeps DEF Unwatched
<1>10. CASE MoveAway
  BY <1>10, MoveAwayKeeps
<1>11. CASE WatchedGone
  BY <1>11, WatchedGoneKeeps
<1>12. CASE MakeDirectory
  BY <1>12, MakeDirectoryKeeps
<1>13. CASE UNCHANGED vars
  <2>1. UNCHANGED kernelVars /\ UNCHANGED <<entries, files_in_directory>>
    BY <1>13 DEF vars, fsVars
  <2>2. Types' /\ WatchPlaced'
    BY <1>13 DEF vars, fsVars, kernelVars, IInv, Types, WatchPlaced
  <2> QED
    BY <2>1, <2>2, Undisturbed DEF IInv
<1> QED
  BY <1>1, <1>2, <1>3, <1>4, <1>5, <1>6, <1>7, <1>8, <1>9, <1>10, <1>11, <1>12, <1>13
     DEF Next

-----------------------------------------------------------------------------
(* The theorem *)

\* In every behaviour, whatever happens to the path and however the kernel's
\* queue overflows at the end of a watch, the count of a worker with the events
\* that wait for it is the number of files in the directory it watches, but for
\* the changes of which no event tells.
THEOREM CountAlwaysTracks == Spec => []CountTracks
<1>1. IInv => CountTracks
  BY DEF IInv
<1> QED
  BY <1>1, Initial, NextKeeps, PTL DEF Spec

-----------------------------------------------------------------------------
(* The types *)

Bounded == -Most..(MaxEntries + Most)

\* What TypeOK says beside Types, but for the bound of the count.
MoreTypes ==
  /\ Len(queue) <= MaxQueue
  /\ unseen \in -Most..Most
  /\ reading \in BOOLEAN /\ write_enabled \in BOOLEAN
  /\ dir_inode \in Directories \union {"none"}
  /\ npc = "add" => files_in_directory \in 0..MaxEntries

\* What an event does to the count.
Effect(e) == IF e = "create" THEN 1 ELSE IF e = "delete" THEN -1 ELSE 0

\* c is the count as it is and as each waiting event will leave it; all of them
\* are bounded, and the last is that of the watched directory as it is now.
ForeseenBy(c) ==
  /\ c[0] = files_in_directory
  /\ \A i \in 1..Len(queue): c[i] = c[i - 1] + Effect(queue[i])
  /\ watched # "none" => c[Len(queue)] + unseen = entries[watched]

Foreseen == \E c \in [0..Len(queue) -> Bounded]: ForeseenBy(c)

TypeInv == IInv /\ MoreTypes /\ Foreseen

\* The limits of the count, as numbers.
LEMMA BoundsOrdered ==
  /\ MaxEntries \in Nat /\ Most \in Nat /\ MaxEntries <= Most /\ MaxUnseen <= Most
  /\ MaxUnseen \in Nat /\ MaxFiles \in Nat /\ MaxQueue \in Nat
BY BoundsAssumption DEF Most

LEMMA TypesFollow == TypeInv => TypeOK
<1> SUFFICES ASSUME TypeInv
             PROVE  TypeOK
  OBVIOUS
<1>1. files_in_directory \in Bounded
  <2>1. PICK c \in [0..Len(queue) -> Bounded]: ForeseenBy(c)
    BY DEF TypeInv, Foreseen
  <2>2. 0 \in 0..Len(queue)
    BY DEF TypeInv, IInv, Types
  <2> QED
    BY <2>1, <2>2 DEF ForeseenBy
<1> QED
  BY <1>1 DEF TypeInv, IInv, Types, MoreTypes, TypeOK, Bounded, Events

\* With no event waiting the count itself is all that is foreseen.
LEMMA NothingWaits ==
  ASSUME queue' = <<>>, files_in_directory' \in Bounded,
         watched' # "none" => files_in_directory' + unseen' = entries'[watched']
  PROVE  Foreseen'
<1>1. Len(queue') = 0
  OBVIOUS
<1>2. PICK c \in [0..0 -> Bounded]: c[0] = files_in_directory'
  <2> DEFINE f == [i \in 0..0 |-> files_in_directory']
  <2>1. f \in [0..0 -> Bounded] /\ f[0] = files_in_directory'
    OBVIOUS
  <2> QED
    BY <2>1
<1>3. ForeseenBy(c)'
  BY <1>1, <1>2 DEF ForeseenBy
<1> QED
  BY <1>1, <1>2, <1>3 DEF Foreseen

\* An event that joins the queue is foreseen to leave the count that is then due.
LEMMA OneMoreForeseen ==
  ASSUME TypeInv, NEW e \in Events,
         queue' = Append(queue, e), UNCHANGED files_in_directory,
         watched # "none",
         entries[watched] - unseen + Effect(e) \in Bounded,
         watched' # "none" =>
           entries'[watched'] - unseen' = entries[watched] - unseen + Effect(e),
         watched' # "none" => entries'[watched'] \in Int /\ unseen' \in Int
  PROVE  Foreseen'
<1> DEFINE n == Len(queue)
<1>1. PICK c \in [0..n -> Bounded]: ForeseenBy(c)
  BY DEF TypeInv, Foreseen
<1>2. /\ queue \in Seq(Events) /\ n \in Nat
      /\ Len(queue') = n + 1 /\ queue'[n + 1] = e
      /\ \A i \in 1..n: queue'[i] = queue[i]
      /\ unseen \in Int /\ entries[watched] \in Int
  BY DEF TypeInv, IInv, Types
<1>3. PICK d \in [0..(n + 1) -> Bounded]:
        (\A i \in 0..n: d[i] = c[i]) /\ d[n + 1] = c[n] + Effect(e)
  <2> DEFINE d == [i \in 0..(n + 1) |-> IF i <= n THEN c[i] ELSE c[n] + Effect(e)]
  <2>1. n \in 0..n /\ c[n] \in Int
    BY <1>1, <1>2, BoundsOrdered DEF Bounded
  <2>2. c[n] + Effect(e) \in Bounded
    <3>1. c[n] + unseen = entries[watched]
      BY <1>1 DEF ForeseenBy
    <3>2. c[n] = entries[watched] - unseen
      BY <1>2, <2>1, <3>1
    <3> QED
      BY <3>2
  <2>3. \A i \in 0..n: c[i] \in Bounded
    BY <1>1
  <2>4. d \in [0..(n + 1) -> Bounded]
    BY <1>2, <2>2, <2>3
  <2>5. (\A i \in 0..n: d[i] = c[i]) /\ d[n + 1] = c[n] + Effect(e)
    BY <1>2
  <2> QED
    BY <2>4, <2>5
<1>4. /\ c[0] = files_in_directory /\ c[n] + unseen = entries[watched]
      /\ \A i \in 1..n: c[i] = c[i - 1] + Effect(queue[i])
  BY <1>1 DEF ForeseenBy
<1>5. d[0] = files_in_directory'
  <2>1. 0 \in 0..n
    BY <1>2
  <2> QED
    BY <1>3, <1>4, <2>1
<1>6. ASSUME NEW i \in 1..Len(queue')
      PROVE  d[i] = d[i - 1] + Effect(queue'[i])
  <2>1. CASE i = n + 1
    <3>1. n \in 0..n /\ i - 1 = n
      BY <1>2, <2>1
    <3> QED
      BY <1>2, <1>3, <2>1, <3>1
  <2>2. CASE i # n + 1
    <3>1. i \in 1..n /\ i \in 0..n /\ i - 1 \in 0..n
      BY <1>2, <2>2
    <3> QED
      BY <1>2, <1>3, <1>4, <3>1
  <2> QED
    BY <2>1, <2>2
<1>7. watched' # "none" => d[n + 1] + unseen' = entries'[watched']
  <2>1. c[n] \in Int
    <3>1. c[n] \in Bounded
      BY <1>2
    <3> QED
      BY <3>1, BoundsOrdered DEF Bounded
  <2>2. Effect(e) \in Int
    BY DEF Effect
  <2> QED
    BY <1>2, <1>3, <1>4, <2>1, <2>2
<1>8. ForeseenBy(d)'
  BY <1>2, <1>5, <1>6, <1>7 DEF ForeseenBy
<1> QED
  BY <1>2, <1>3, <1>8 DEF Foreseen

\* The event that is read does what was foreseen of it.
LEMMA OneLessForeseen ==
  ASSUME TypeInv, Readcb
  PROVE  Foreseen'
<1> DEFINE n == Len(queue)
<1>1. PICK c \in [0..n -> Bounded]: ForeseenBy(c)
  BY DEF TypeInv, Foreseen
<1>2. /\ queue \in Seq(Events) /\ n \in Nat \ {0}
      /\ queue' = Tail(queue) /\ Len(queue') = n - 1
      /\ \A i \in 1..(n - 1): queue'[i] = queue[i + 1]
      /\ Head(queue) = queue[1] /\ queue[1] \in Events
      /\ UNCHANGED <<watched, unseen, entries>>
  BY DEF TypeInv, IInv, Types, Readcb, fsVars
<1>3. files_in_directory' = files_in_directory + Effect(queue[1])
  BY <1>2 DEF Readcb, CountAfter, Effect, Events
<1>4. PICK d \in [0..(n - 1) -> Bounded]: \A i \in 0..(n - 1): d[i] = c[i + 1]
  <2> DEFINE d == [i \in 0..(n - 1) |-> c[i + 1]]
  <2>1. d \in [0..(n - 1) -> Bounded]
    BY <1>2
  <2> QED
    BY <2>1
<1>5. /\ c[0] = files_in_directory
      /\ watched # "none" => c[n] + unseen = entries[watched]
      /\ \A i \in 1..n: c[i] = c[i - 1] + Effect(queue[i])
  BY <1>1 DEF ForeseenBy
<1>6. d[0] = files_in_directory'
  <2>1. 0 \in 0..(n - 1) /\ 1 \in 1..n
    BY <1>2
  <2>2. d[0] = c[1]
    BY <1>4, <2>1
  <2>3. c[1] = c[0] + Effect(queue[1])
    BY <1>5, <2>1
  <2> QED
    BY <1>3, <1>5, <2>2, <2>3
<1>7. ASSUME NEW i \in 1..(n - 1)
      PROVE  d[i] = d[i - 1] + Effect(queue'[i])
  <2>1. i \in 0..(n - 1) /\ i - 1 \in 0..(n - 1) /\ i + 1 \in 1..n /\ (i - 1) + 1 = i
        /\ (i + 1) - 1 = i
    BY <1>2
  <2>2. c[i + 1] = c[i] + Effect(queue[i + 1])
    BY <1>5, <2>1
  <2> QED
    BY <1>2, <1>4, <2>1, <2>2
<1>8. watched' # "none" => d[n - 1] + unseen' = entries'[watched']
  <2>1. n - 1 \in 0..(n - 1) /\ (n - 1) + 1 = n
    BY <1>2
  <2>2. d[n - 1] = c[n]
    BY <1>4, <2>1
  <2>3. UNCHANGED <<watched, unseen, entries>>
    BY <1>2
  <2> QED
    BY <1>5, <2>2, <2>3
<1>9. ForeseenBy(d)'
  BY <1>2, <1>6, <1>7, <1>8 DEF ForeseenBy
<1> QED
  BY <1>2, <1>4, <1>9 DEF Foreseen

\* A step that leaves queue and count alone, and what is due of a directory.
LEMMA SameForeseen ==
  ASSUME TypeInv, UNCHANGED <<queue, files_in_directory>>,
         watched' # "none" =>
           /\ watched # "none"
           /\ entries'[watched'] - unseen' = entries[watched] - unseen
           /\ entries'[watched'] \in Int /\ unseen' \in Int
           /\ entries[watched] \in Int /\ unseen \in Int
  PROVE  Foreseen'
<1>1. PICK c \in [0..Len(queue) -> Bounded]: ForeseenBy(c)
  BY DEF TypeInv, Foreseen
<1>2. c[Len(queue)] \in Int
  BY <1>1, BoundsOrdered DEF Bounded, TypeInv, IInv, Types
<1>3. watched' # "none" => c[Len(queue)] + unseen' = entries'[watched']
  BY <1>1, <1>2 DEF ForeseenBy
<1>4. ForeseenBy(c)'
  BY <1>1, <1>3 DEF ForeseenBy
<1> QED
  BY <1>1, <1>4 DEF Foreseen

\* The other types, step by step: only Silently and AddWatch make files unseen,
\* and no event is read between the listing and the watch.
LEMMA MoreTypesKept ==
  ASSUME IInv, MoreTypes, [Next]_vars
  PROVE  MoreTypes'
<1> USE DEF MoreTypes
<1>0. /\ queue \in Seq(Events) /\ entries \in [Directories -> 0..MaxEntries]
      /\ 0 \in -Most..Most
  BY BoundsOrdered DEF IInv, Types
<1>1. CASE InitOff \/ InitWatch \/ InitUnread \/ AddWatchFails \/ Shutdown
  BY <1>1 DEF InitOff, InitWatch, InitUnread, AddWatchFails, Shutdown, kernelVars
<1>2. CASE StatInode
  BY <1>2 DEF StatInode, kernelVars, Directories
<1>3. ASSUME WatchEnds
      PROVE  Len(queue') <= MaxQueue /\ unseen' \in -Most..Most
  BY <1>0, <1>3, BoundsOrdered DEF WatchEnds, Queued
<1>4. CASE Check
  <2>1. Len(queue') <= MaxQueue /\ unseen' \in -Most..Most
    BY <1>3, <1>4 DEF Check, UnwatchDirectory
  <2>2. write_enabled' \in BOOLEAN
    <3>1. RoomLeft \in BOOLEAN
      BY DEF RoomLeft
    <3> QED
      BY <1>4, <3>1, Zenon DEF Check
  <2> QED
    BY <1>4, <2>1, <2>2 DEF Check
<1>5. CASE CountFiles
  <2>1. files_in_directory' \in 0..MaxEntries
    BY <1>0, <1>5, BoundsOrdered DEF CountFiles, Listed, Directories
  <2> QED
    BY <1>5, <2>1 DEF CountFiles, kernelVars
<1>6. CASE AddWatch
  <2>1. files_in_directory \in 0..MaxEntries /\ entries["here"] \in 0..MaxEntries
    BY <1>0, <1>6 DEF AddWatch, Directories
  <2>2. unseen' \in -Most..Most
    BY <1>6, <2>1, BoundsOrdered DEF AddWatch
  <2> QED
    BY <1>6, <2>2 DEF AddWatch
<1>7. CASE Readcb
  <2>1. Len(queue') <= MaxQueue
    BY <1>0, <1>7, BoundsOrdered DEF Readcb
  <2> QED
    BY <1>7, <2>1 DEF Readcb
<1>8. CASE Uninit
  <2>1. Len(queue') = 0
    BY <1>8 DEF Uninit
  <2>2. Len(queue') <= MaxQueue /\ unseen' \in -Most..Most
    BY <1>0, <1>8, <2>1, BoundsOrdered DEF Uninit
  <2> QED
    BY <1>8, <2>2 DEF Uninit
<1>9. ASSUME NEW d \in Directories, NEW n \in {1, -1}, NEW e, Openly(d, n, e)
      PROVE  MoreTypes'
  <2>1. Len(queue') <= MaxQueue
    BY <1>0, <1>9, BoundsOrdered DEF Openly, Queued
  <2> QED
    BY <1>9, <2>1 DEF Openly
<1>10. ASSUME NEW d \in Directories, NEW n \in {1, -1}, Silently(d, n)
       PROVE  MoreTypes'
  <2>1. unseen' \in -Most..Most
    BY <1>10, BoundsOrdered DEF Silently
  <2> QED
    BY <1>10, <2>1 DEF Silently
<1>11. CASE MoveAway
  BY <1>11 DEF MoveAway, Elsewhere, Directories
<1>12. CASE WatchedGone
  <2>1. Len(queue') <= MaxQueue /\ unseen' \in -Most..Most
    BY <1>3, <1>12 DEF WatchedGone
  <2> QED
    BY <1>12, <2>1 DEF WatchedGone, Elsewhere, Directories
<1>13. CASE MakeDirectory \/ UNCHANGED vars
  BY <1>13 DEF MakeDirectory, vars, kernelVars
<1> QED
  BY <1>1, <1>2, <1>4, <1>5, <1>6, <1>7, <1>8, <1>9, <1>10, <1>11, <1>12, <1>13
     DEF Next, FileMade, FileDeleted, Unwatched

\* What is foreseen of the count, step by step.
LEMMA ForeseenKept ==
  ASSUME TypeInv, IInv', MoreTypes', [Next]_vars
  PROVE  Foreseen'
<1>0. /\ queue \in Seq(Events) /\ unseen \in -Most..Most
      /\ entries \in [Directories -> 0..MaxEntries]
      /\ watched \in Directories \union {"none"}
      /\ unseen' \in Int /\ entries' \in [Directories -> 0..MaxEntries]
      /\ watched' \in Directories \union {"none"}
      /\ files_in_directory \in Bounded
  BY TypesFollow DEF TypeInv, IInv, Types, MoreTypes, TypeOK, Bounded
<1>1. /\ watched # "none" => entries[watched] \in Int
      /\ watched' # "none" => entries'[watched'] \in Int
      /\ unseen \in Int
  BY <1>0, BoundsOrdered
<1>2. CASE /\ UNCHANGED <<queue, files_in_directory, watched, unseen>>
           /\ watched # "none" => entries'[watched] = entries[watched]
  BY <1>1, <1>2, SameForeseen
<1>3. CASE CountFiles
  <2>1. queue' = <<>> /\ watched' = "none"
    BY <1>3 DEF CountFiles, TypeInv, IInv, WatchPlaced, kernelVars
  <2>2. files_in_directory' \in Bounded
    <3>1. files_in_directory' \in 0..MaxEntries
      BY <1>3 DEF CountFiles, MoreTypes
    <3> QED
      BY <3>1, BoundsOrdered DEF Bounded
  <2> QED
    BY <2>1, <2>2, NothingWaits
<1>4. CASE AddWatch
  <2>1. queue' = <<>>
    BY <1>4 DEF AddWatch, TypeInv, IInv, WatchPlaced
  <2>2. files_in_directory' + unseen' = entries'["here"] /\ watched' = "here"
    <3>1. files_in_directory \in Int /\ entries["here"] \in Int
      BY <1>0, BoundsOrdered DEF Bounded, Directories
    <3> QED
      BY <1>4, <3>1 DEF AddWatch, fsVars
  <2>3. files_in_directory' \in Bounded
    BY <1>0, <1>4 DEF AddWatch
  <2> QED
    BY <2>1, <2>2, <2>3, NothingWaits
<1>5. CASE Readcb
  BY <1>5, OneLessForeseen
<1>6. CASE Uninit
  BY <1>0, <1>6, NothingWaits DEF Uninit
<1>7. ASSUME WatchEnds, watched # "none", UNCHANGED files_in_directory
      PROVE  Foreseen'
  <2>1. watched' = "none" /\ queue' \in {queue, Append(queue, "ignored")}
    BY <1>7 DEF WatchEnds, Queued
  <2>2. CASE queue' = queue
    BY <1>7, <2>1, <2>2, SameForeseen
  <2>3. CASE queue' = Append(queue, "ignored")
    <3>1. "ignored" \in Events /\ Effect("ignored") = 0
      BY DEF Events, Effect
    <3>2. entries[watched] - unseen + 0 \in Bounded
      BY <1>0, <1>7, BoundsOrdered DEF Bounded
    <3> QED
      BY <1>7, <2>1, <2>3, <3>1, <3>2, OneMoreForeseen
  <2> QED
    BY <2>1, <2>2, <2>3
<1>8. CASE Check
  <2>1. CASE here /\ Replaced /\ watched # "none"
    BY <1>7, <1>8, <2>1 DEF Check, UnwatchDirectory
  <2>2. CASE ~(here /\ Replaced /\ watched # "none")
    BY <1>2, <1>8, <2>2 DEF Check, UnwatchDirectory
  <2> QED
    BY <2>1, <2>2
<1>9. CASE WatchedGone
  BY <1>7, <1>9 DEF WatchedGone
<1>10. ASSUME NEW d \in Directories, NEW n \in {1, -1},
              Openly(d, n, IF n = 1 THEN "create" ELSE "delete")
       PROVE  Foreseen'
  <2> DEFINE e == IF n = 1 THEN "create" ELSE "delete"
  <2>1. /\ queue' = Append(queue, e) /\ e \in Events /\ Effect(e) = n
        /\ watched = d /\ d # "none"
        /\ UNCHANGED <<files_in_directory, watched, unseen>>
        /\ entries[d] + n \in 0..MaxEntries
        /\ entries' = [entries EXCEPT ![d] = @ + n]
    BY <1>10 DEF Openly, Queued, Events, Effect, Directories
  <2> HIDE DEF e
  <2>2. entries'[watched'] = entries[watched] + n
    BY <1>0, <2>1
  <2>3. entries[watched] - unseen + Effect(e) \in Bounded
    BY <1>0, <2>1, BoundsOrdered DEF Bounded
  <2>4. entries'[watched'] - unseen' = entries[watched] - unseen + Effect(e)
    BY <1>1, <2>1, <2>2
  <2> QED
    BY <1>1, <2>1, <2>3, <2>4, OneMoreForeseen
<1>11. ASSUME NEW d \in Directories, NEW n \in {1, -1}, Silently(d, n)
       PROVE  Foreseen'
  <2>1. /\ UNCHANGED <<queue, files_in_directory, watched>>
        /\ entries' = [entries EXCEPT ![d] = @ + n]
        /\ unseen' = IF watched = d THEN unseen + n ELSE unseen
    BY <1>11 DEF Silently
  <2>2. watched # "none" => entries'[watched] - unseen' = entries[watched] - unseen
    BY <1>0, <1>1, <2>1
  <2> QED
    BY <1>1, <2>1, <2>2, SameForeseen
<1>12. CASE MoveAway
  <2>1. /\ UNCHANGED <<queue, files_in_directory, unseen>>
        /\ watched' # "none" => watched # "none" /\ entries'[watched'] = entries[watched]
    BY <1>0, <1>12 DEF MoveAway, Elsewhere, Directories
  <2> QED
    BY <1>1, <2>1, SameForeseen
<1>13. CASE MakeDirectory
  <2>1. watched # "none" => entries'[watched] = entries[watched]
    BY <1>0, <1>13 DEF MakeDirectory, TypeInv, IInv, WatchPlaced, Directories
  <2> QED
    BY <1>2, <1>13, <2>1 DEF MakeDirectory, kernelVars
<1>14. CASE \/ InitOff \/ InitWatch \/ InitUnread \/ AddWatchFails \/ StatInode
            \/ Shutdown \/ UNCHANGED vars
  BY <1>2, <1>14 DEF InitOff, InitWatch, InitUnread, AddWatchFails, StatInode, Shutdown,
                     vars, kernelVars, fsVars
<1> QED
  BY <1>3, <1>4, <1>5, <1>6, <1>8, <1>9, <1>10, <1>11, <1>12, <1>13, <1>14
     DEF Next, FileMade, FileDeleted, Unwatched

\* Type correctness of the spool watch. The count never runs away: what the
\* events that wait will make of it are all numbers it may be, however the
\* directory is replaced meanwhile.
THEOREM TypeCorrect == Spec => []TypeOK
<1>1. Init => TypeInv
  <2> SUFFICES ASSUME Init
               PROVE  TypeInv
    OBVIOUS
  <2>1. MoreTypes
    <3>1. Len(queue) = 0 /\ npc # "add"
      BY DEF Init
    <3>2. Len(queue) <= MaxQueue /\ unseen \in -Most..Most
      BY <3>1, BoundsOrdered DEF Init
    <3> QED
      BY <3>1, <3>2 DEF Init, MoreTypes
  <2>2. Foreseen
    <3> DEFINE c == [i \in 0..0 |-> 0]
    <3>1. c \in [0..0 -> Bounded] /\ c[0] = 0
      BY BoundsOrdered DEF Bounded
    <3> HIDE DEF c
    <3>2. Len(queue) = 0 /\ ForeseenBy(c)
      BY <3>1 DEF Init, ForeseenBy
    <3> QED
      BY <3>1, <3>2 DEF Foreseen
  <2> QED
    BY <2>1, <2>2, Initial DEF TypeInv
<1>2. TypeInv /\ [Next]_vars => TypeInv'
  BY NextKeeps, MoreTypesKept, ForeseenKept DEF TypeInv
<1> QED
  BY <1>1, <1>2, TypesFollow, PTL DEF Spec
=============================================================================
