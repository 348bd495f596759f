------------------------- MODULE ProcessManagerProofs -------------------------
(* Theorems about the main process and its workers, for any number of them,  *)
(* any process ids and any patience: the types, the bookkeeping of the slots *)
(* against SIGCHLD handlers at any point, that no child is unknown, that     *)
(* there are never too many, and that loop() is left by a process alone.     *)
EXTENDS ProcessManager, FiniteSetTheorems, TLAPS

USE WorkersAssumption, PidsAssumption, BoundsAssumption, CredentialsAssumption

-----------------------------------------------------------------------------
(* The inductive invariant *)

\* The slots that are marked as running.
RunningSlots == {i \in Slots: running[i]}

\* fork() has returned and the pid is not stored yet.
Recording == mpc \in {"forked", "marked"}

\* There is patience left in every round that begins.
PatienceLeft == MainAlive => wait_for_shutdown < MaxWait

\* From fork() to the store of its pid a child is known by `forked` alone.
ForkInHand ==
  MainAlive =>
    /\ mpc \in {"forked", "marked", "stored"} <=> forked # 0
    /\ Recording =>
         pid[wi] = 0 /\ proc[forked] # "unborn" /\ \A i \in Slots: pid[i] # forked

\* A slot runs exactly while it has a pid, or is about to get one.
RunningHasPid ==
  MainAlive =>
    \A i \in Slots: running[i] <=> (pid[i] # 0 \/ (mpc = "marked" /\ i = wi))

\* Two slots have two pids, each of a process that was forked.
PidsDiffer ==
  MainAlive =>
    /\ \A i, j \in Slots: pid[i] = pid[j] /\ pid[i] # 0 => i = j
    /\ \A i \in Slots: pid[i] # 0 => proc[pid[i]] # "unborn"

\* A live child has a slot, or is the one in hand.
ChildHasSlot ==
  MainAlive =>
    \A p \in LiveWorkers: (Recording /\ p = forked) \/ \E i \in Slots: pid[i] = p

\* The count is that of the slots, less the one whose turn it is to be counted.
CountFollows ==
  MainAlive =>
    workers_running =
      Cardinality(RunningSlots) - (IF mpc \in {"marked", "stored"} THEN 1 ELSE 0)

Bookkeeping ==
  /\ PatienceLeft /\ ForkInHand /\ RunningHasPid /\ PidsDiffer
  /\ ChildHasSlot /\ CountFollows

IInv == TypeOK /\ Bookkeeping /\ WorkersBounded /\ FinishesAlone

LEMMA Initial == Init => IInv
<1> SUFFICES ASSUME Init PROVE IInv
  OBVIOUS
<1>1. TypeOK
  <2>1. wi \in Slots /\ workers_running \in -1 .. MaxWorker
    BY DEF Init, Slots
  <2>2. wait_for_shutdown \in 0 .. MaxWait /\ terms \in 0 .. MaxTerms
    BY DEF Init
  <2> QED
    BY <2>1, <2>2 DEF Init, TypeOK
<1>2. LiveWorkers = {} /\ RunningSlots = {}
  BY DEF Init, LiveWorkers, Live, RunningSlots
<1>3. PatienceLeft /\ ForkInHand /\ RunningHasPid /\ PidsDiffer
  BY DEF Init, PatienceLeft, ForkInHand, RunningHasPid, PidsDiffer, Recording
<1>4. ChildHasSlot /\ CountFollows
  BY <1>2, FS_EmptySet DEF Init, ChildHasSlot, CountFollows
<1>5. WorkersBounded /\ FinishesAlone
  BY <1>2, FS_EmptySet DEF WorkersBounded, FinishesAlone
<1> QED
  BY <1>1, <1>3, <1>4, <1>5 DEF IInv, Bookkeeping

-----------------------------------------------------------------------------
(* Sets of slots and of processes *)

\* There are finitely many slots, and no set of them has more than MaxWorker.
LEMMA SlotSets ==
  /\ IsFiniteSet(Slots) /\ Cardinality(Slots) = MaxWorker
  /\ \A S \in SUBSET Slots: IsFiniteSet(S) /\ Cardinality(S) \in 0 .. MaxWorker
<1>1. IsFiniteSet(Slots) /\ Cardinality(Slots) = MaxWorker
  BY FS_Interval DEF Slots
<1>2. ASSUME NEW S \in SUBSET Slots
      PROVE  IsFiniteSet(S) /\ Cardinality(S) \in 0 .. MaxWorker
  BY <1>1, FS_Subset, FS_CardinalityType
<1> QED
  BY <1>1, <1>2

\* While the main process lives its books say how many children can live: each
\* has a slot of its own, the one in hand the slot that waits for its pid.
LEMMA OneSlotEach ==
  TypeOK /\ Bookkeeping /\ MainAlive => WorkersBounded
<1> SUFFICES ASSUME TypeOK, Bookkeeping, MainAlive, ~WorkersBounded PROVE FALSE
  OBVIOUS
<1> DEFINE SlotsOf(p) == IF Recording /\ p = forked THEN {wi} ELSE {i \in Slots: pid[i] = p}
           slot == [p \in LiveWorkers |-> CHOOSE i \in Slots: i \in SlotsOf(p)]
<1>1. ASSUME NEW p \in LiveWorkers PROVE \E i \in Slots: i \in SlotsOf(p)
  BY DEF Bookkeeping, ChildHasSlot, TypeOK
<1>2. ASSUME NEW p \in LiveWorkers PROVE slot[p] \in Slots /\ slot[p] \in SlotsOf(p)
  BY <1>1
<1>3. IsFiniteSet(LiveWorkers)
  BY FS_Subset DEF LiveWorkers
<1>4. IsFiniteSet(Slots) /\ Cardinality(Slots) < Cardinality(LiveWorkers)
  BY <1>3, SlotSets, FS_CardinalityType DEF WorkersBounded
<1>5. slot \in [LiveWorkers -> Slots]
  BY <1>2
<1>6. PICK p \in LiveWorkers, q \in LiveWorkers: p # q /\ slot[p] = slot[q]
  <2> HIDE DEF slot
  <2> QED
    BY <1>3, <1>4, <1>5, FS_PigeonHole
<1>7. slot[p] \in SlotsOf(p) /\ slot[p] \in SlotsOf(q)
  BY <1>2, <1>6
<1>8. p # 0 /\ q # 0
  BY DEF LiveWorkers
<1> HIDE DEF slot
<1> QED
  BY <1>6, <1>7, <1>8 DEF Bookkeeping, ForkInHand

-----------------------------------------------------------------------------
(* No step but fork() makes a live child *)

\* What is known of the processes after a step without a fork: no other process
\* lives than before, and no process is unborn that was not.
NoBirth == LiveWorkers' \subseteq LiveWorkers
        /\ \A p \in Pids: proc[p] # "unborn" => proc'[p] # "unborn"

LEMMA KernelNoBirth ==
  ASSUME TypeOK, NEW ps \in SUBSET Pids,
         \/ proc' = proc
         \/ proc' = Orphaned(proc)
         \/ proc' = Orphaned(Killed(ps))
         \/ proc' = Signalled(ps)
         \/ proc' = Orphaned(Signalled(ps))
  PROVE  NoBirth /\ proc' \in [Pids -> {"unborn", "boot", "armed", "guarded", "ready",
                                        "up", "stopping", "idle", "zombie", "reaped"}]
<1> USE DEF NoBirth, LiveWorkers, Live, Dead
<1>1. CASE proc' = proc
  BY <1>1 DEF TypeOK
<1>2. CASE proc' = Orphaned(proc)
  BY <1>2 DEF Orphaned, TypeOK
<1>3. CASE proc' = Orphaned(Killed(ps))
  <2>1. /\ Killed(ps) \in [Pids -> {"unborn", "boot", "armed", "guarded", "ready",
                                    "up", "stopping", "idle", "zombie", "reaped"}]
        /\ \A p \in Pids: Killed(ps)[p] \in {proc[p], "zombie"}
        /\ \A p \in Pids: proc[p] \in {"unborn", "zombie", "reaped"}
                             => Killed(ps)[p] = proc[p]
    BY DEF Killed, TypeOK
  <2> QED
    BY <1>3, <2>1 DEF Orphaned, TypeOK
<1>4. /\ Signalled(ps) \in [Pids -> {"unborn", "boot", "armed", "guarded", "ready",
                                     "up", "stopping", "idle", "zombie", "reaped"}]
      /\ \A p \in Pids: Signalled(ps)[p] \in {proc[p], "zombie", "stopping"}
      /\ \A p \in Pids: proc[p] \in {"unborn", "zombie", "reaped"}
                           => Signalled(ps)[p] = proc[p]
  BY DEF Signalled, TypeOK
<1>5. CASE proc' = Signalled(ps)
  BY <1>4, <1>5 DEF TypeOK
<1>6. CASE proc' = Orphaned(Signalled(ps))
  BY <1>4, <1>6 DEF Orphaned, TypeOK
<1> QED
  BY <1>1, <1>2, <1>3, <1>5, <1>6

\* A worker is forked by the main process alone.
LEMMA WorkerNoBirth ==
  ASSUME TypeOK, NEW p \in Pids, WorkerStep(p) \/ TermWorker(p) \/ WorkerDies(p)
  PROVE  /\ NoBirth
         /\ UNCHANGED <<mainVars, slotVars, stopVars>>
         /\ TypeOK'
<1> DEFINE States == {"boot", "armed", "guarded", "ready", "up", "stopping", "idle",
                      "zombie", "reaped"}
<1>1. DeathOf(p) \in {"zombie", "reaped"}
  BY DEF DeathOf
<1>2. PICK to \in States: /\ proc' = [proc EXCEPT ![p] = to]
                          /\ proc[p] \notin {"unborn", "zombie", "reaped"}
  <2>1. CASE WorkerDies(p)
    BY <1>1, <2>1 DEF WorkerDies, Live, Dead
  <2>2. CASE Arm(p) \/ SetDeathsig(p) \/ Downgrade(p) \/ Serve(p) \/ TermWorker(p)
    BY <2>2 DEF Arm, SetDeathsig, Downgrade, Serve, TermWorker, Moves
  <2>3. CASE DowngradeFails(p) \/ WorkReturns(p) \/ IdleEnds(p)
    BY <1>1, <2>3 DEF DowngradeFails, WorkReturns, IdleEnds, Moves
  <2> QED
    BY <2>1, <2>2, <2>3 DEF WorkerStep
<1>3. UNCHANGED <<mainVars, slotVars, stopVars, from_loop, told>>
  BY DEF WorkerStep, Arm, SetDeathsig, Downgrade, DowngradeFails, Serve, TermWorker,
         WorkReturns, IdleEnds, WorkerDies, Moves
<1>4. deathsig' \in [Pids -> BOOLEAN]
  <2>1. CASE SetDeathsig(p)
    <3>1. MainAlive \in BOOLEAN
      BY DEF MainAlive
    <3> QED
      BY <2>1, <3>1 DEF SetDeathsig, TypeOK
  <2>2. CASE Downgrade(p)
    <3>1. (deathsig[p] /\ ~ChangesCredentials) \in BOOLEAN
      OBVIOUS
    <3> QED
      BY <2>2, <3>1 DEF Downgrade, TypeOK
  <2>3. CASE ~SetDeathsig(p) /\ ~Downgrade(p)
    <3>1. deathsig' = deathsig
      BY <2>3 DEF WorkerStep, Arm, DowngradeFails, Serve, TermWorker, WorkReturns,
                  IdleEnds, WorkerDies
    <3> QED
      BY <3>1 DEF TypeOK
  <2> QED
    BY <2>1, <2>2, <2>3
<1>5. proc' \in [Pids -> {"unborn", "boot", "armed", "guarded", "ready", "up",
                          "stopping", "idle", "zombie", "reaped"}]
  BY <1>2 DEF TypeOK
<1>6. NoBirth
  BY <1>2 DEF NoBirth, LiveWorkers, Live, Dead, TypeOK
<1>7. TypeOK'
  BY <1>3, <1>4, <1>5 DEF TypeOK, mainVars, slotVars, stopVars
<1> QED
  BY <1>3, <1>6, <1>7
-----------------------------------------------------------------------------
(* The books of the main process, one lemma per kind of step *)

\* Processes that move or die change nothing in them.
LEMMA QuietStep ==
  ASSUME TypeOK, Bookkeeping, NoBirth, UNCHANGED <<mainVars, slotVars>>,
         wait_for_shutdown' = wait_for_shutdown
  PROVE  Bookkeeping'
<1> USE DEF Bookkeeping, MainAlive, mainVars, slotVars
<1>1. PatienceLeft' /\ RunningHasPid'
  BY DEF PatienceLeft, RunningHasPid
<1>2. CountFollows'
  BY DEF CountFollows, RunningSlots
<1>3. ForkInHand' /\ PidsDiffer'
  BY DEF ForkInHand, PidsDiffer, Recording, NoBirth, TypeOK
<1>4. ChildHasSlot'
  BY DEF ChildHasSlot, Recording, NoBirth
<1> QED
  BY <1>1, <1>2, <1>3, <1>4

\* The main process walks on between two children.
LEMMA WalkStep ==
  ASSUME TypeOK, Bookkeeping,
         mpc \in {"run", "top", "sleep"}, mpc' \in {"run", "top", "sleep"},
         UNCHANGED <<forked, slotVars, procVars>>, MainAlive' => wait_for_shutdown' < MaxWait
  PROVE  Bookkeeping'
<1> USE DEF Bookkeeping, MainAlive, slotVars, procVars
<1>1. PatienceLeft' /\ RunningHasPid'
  BY DEF PatienceLeft, RunningHasPid
<1>2. CountFollows'
  BY DEF CountFollows, RunningSlots
<1>3. ForkInHand' /\ PidsDiffer'
  BY DEF ForkInHand, PidsDiffer, Recording
<1>4. ChildHasSlot'
  BY DEF ChildHasSlot, Recording, LiveWorkers, Live, Dead
<1> QED
  BY <1>1, <1>2, <1>3, <1>4

\* Once the main process is gone nobody looks into its books.
LEMMA GoneStep ==
  ASSUME ~MainAlive'
  PROVE  Bookkeeping'
  BY DEF Bookkeeping, PatienceLeft, ForkInHand, RunningHasPid, PidsDiffer,
         ChildHasSlot, CountFollows

\* Where the for loop goes on to.
LEMMA NextSlotStep ==
  ASSUME TypeOK, NextSlot
  PROVE  /\ mpc' \in {"run", "top", "sleep"}
         /\ in_loop' \in BOOLEAN
         /\ wi' \in Slots
<1>1. CASE wi + 1 = MaxWorker
  BY <1>1 DEF NextSlot, TypeOK, Slots
<1>2. CASE wi + 1 # MaxWorker
  BY <1>2 DEF NextSlot, TypeOK, Slots
<1> QED
  BY <1>1, <1>2

\* A child that was just forked has a pid that no slot has.
LEMMA ForkStep ==
  ASSUME TypeOK, Bookkeeping, NEW p \in Pids, Fork(p)
  PROVE  TypeOK' /\ Bookkeeping'
<1> USE DEF Bookkeeping, MainAlive
<1>1. /\ mpc = "run" /\ mpc' = "forked" /\ forked' = p /\ ~running[wi]
      /\ UNCHANGED <<wi, pid, running, workers_running, wait_for_shutdown>>
      /\ proc[p] = "unborn" /\ proc' = [proc EXCEPT ![p] = "boot"]
  BY DEF Fork, AlreadyStarted, slotVars, stopVars
<1>2. TypeOK'
  <2>1. from_loop' \in [Pids -> BOOLEAN]
    BY DEF Fork, TypeOK
  <2> QED
    BY <1>1, <2>1 DEF Fork, TypeOK, slotVars, stopVars
<1>3. PatienceLeft' /\ RunningHasPid' /\ CountFollows'
  BY <1>1 DEF PatienceLeft, RunningHasPid, CountFollows, RunningSlots
<1>4. p # 0 /\ wi \in Slots /\ \A i \in Slots: pid[i] # p
  BY <1>1 DEF PidsDiffer, TypeOK
<1>5. ForkInHand'
  BY <1>1, <1>4 DEF ForkInHand, RunningHasPid, Recording, TypeOK
<1>6. PidsDiffer'
  BY <1>1, <1>4 DEF PidsDiffer, TypeOK
<1>7. ChildHasSlot'
  <2>1. ASSUME NEW q \in LiveWorkers' PROVE q = p \/ q \in LiveWorkers
    BY <1>1, <2>1 DEF LiveWorkers, Live, Dead, TypeOK
  <2> QED
    BY <1>1, <2>1 DEF ChildHasSlot, Recording
<1> QED
  BY <1>2, <1>3, <1>5, <1>6, <1>7

\* process_state = RUNNING before the pid: one slot more runs than is counted.
LEMMA MarkStep ==
  ASSUME TypeOK, Bookkeeping, MarkRunning
  PROVE  TypeOK' /\ Bookkeeping'
<1> USE DEF Bookkeeping, MainAlive
<1>1. /\ mpc = "forked" /\ mpc' = "marked" /\ wi \in Slots
      /\ running' = [running EXCEPT ![wi] = TRUE]
      /\ UNCHANGED <<wi, forked, pid, workers_running, wait_for_shutdown, proc>>
  BY DEF MarkRunning, stopVars, procVars, TypeOK
<1>2. TypeOK'
  BY DEF MarkRunning, TypeOK, stopVars, procVars
<1>3. pid[wi] = 0 /\ ~running[wi]
  BY <1>1 DEF ForkInHand, RunningHasPid, Recording
<1>4. PatienceLeft' /\ ForkInHand' /\ PidsDiffer'
  BY <1>1 DEF PatienceLeft, ForkInHand, PidsDiffer, Recording
<1>5. RunningHasPid'
  BY <1>1, <1>3 DEF RunningHasPid, TypeOK
<1>6. ChildHasSlot'
  BY <1>1 DEF ChildHasSlot, Recording, LiveWorkers, Live, Dead
<1>7. CountFollows'
  <2>1. RunningSlots' = RunningSlots \union {wi} /\ wi \notin RunningSlots
    BY <1>1, <1>3 DEF RunningSlots, TypeOK
  <2>2. IsFiniteSet(RunningSlots) /\ Cardinality(RunningSlots) \in Nat
    BY SlotSets DEF RunningSlots
  <2>3. Cardinality(RunningSlots') = Cardinality(RunningSlots) + 1
    BY <2>1, <2>2, FS_AddElement
  <2> QED
    BY <1>1, <2>2, <2>3 DEF CountFollows
<1> QED
  BY <1>2, <1>4, <1>5, <1>6, <1>7

\* The pid is stored, be the child dead or even waited for by then.
LEMMA StoreStep ==
  ASSUME TypeOK, Bookkeeping, StorePid
  PROVE  TypeOK' /\ Bookkeeping'
<1> USE DEF Bookkeeping, MainAlive
<1>1. /\ mpc = "marked" /\ mpc' = "stored" /\ wi \in Slots
      /\ pid' = [pid EXCEPT ![wi] = forked]
      /\ UNCHANGED <<wi, forked, running, workers_running, wait_for_shutdown, proc>>
  BY DEF StorePid, stopVars, procVars, TypeOK
<1>2. TypeOK'
  BY DEF StorePid, TypeOK, stopVars, procVars
<1>3. /\ forked # 0 /\ pid[wi] = 0 /\ running[wi] /\ proc[forked] # "unborn"
      /\ \A i \in Slots: pid[i] # forked
  BY <1>1 DEF ForkInHand, RunningHasPid, Recording
<1>4. PatienceLeft' /\ ForkInHand' /\ CountFollows'
  BY <1>1, <1>3 DEF PatienceLeft, ForkInHand, CountFollows, RunningSlots, Recording
<1>5. RunningHasPid'
  BY <1>1, <1>3 DEF RunningHasPid, TypeOK
<1>6. PidsDiffer'
  BY <1>1, <1>3 DEF PidsDiffer, TypeOK
<1>7. ChildHasSlot'
  <2>1. ASSUME NEW q \in LiveWorkers PROVE \E i \in Slots: pid'[i] = q
    <3>1. CASE q = forked
      BY <1>1, <3>1 DEF TypeOK
    <3>2. CASE q # forked
      <4>1. PICK i \in Slots: pid[i] = q
        BY <1>1, <3>2 DEF ChildHasSlot
      <4>2. i # wi
        BY <1>3, <4>1 DEF LiveWorkers
      <4> QED
        BY <1>1, <4>1, <4>2 DEF TypeOK
    <3> QED
      BY <3>1, <3>2
  <2>2. LiveWorkers' = LiveWorkers
    BY <1>1 DEF LiveWorkers, Live, Dead
  <2> QED
    BY <2>1, <2>2 DEF ChildHasSlot
<1> QED
  BY <1>2, <1>4, <1>5, <1>6, <1>7

\* The count catches up.
LEMMA CountStep ==
  ASSUME TypeOK, Bookkeeping, CountWorker
  PROVE  TypeOK' /\ Bookkeeping'
<1> USE DEF Bookkeeping, MainAlive
<1>1. /\ mpc = "stored" /\ forked' = 0 /\ workers_running' = workers_running + 1
      /\ UNCHANGED <<pid, running, wait_for_shutdown, proc>>
  BY DEF CountWorker, stopVars, procVars
<1>2. mpc' \in {"run", "top", "sleep"} /\ in_loop' \in BOOLEAN /\ wi' \in Slots
  BY NextSlotStep DEF CountWorker
<1>3. RunningSlots' = RunningSlots /\ Cardinality(RunningSlots) \in 0 .. MaxWorker
  BY <1>1, SlotSets DEF RunningSlots
<1>4. workers_running' = Cardinality(RunningSlots)
  BY <1>1, <1>3 DEF CountFollows, TypeOK
<1>5. TypeOK'
  <2>1. workers_running' \in -1 .. MaxWorker
    BY <1>3, <1>4
  <2> QED
    BY <1>1, <1>2, <2>1 DEF CountWorker, TypeOK, stopVars, procVars
<1>6. PatienceLeft' /\ ForkInHand' /\ CountFollows'
  BY <1>1, <1>2, <1>3, <1>4
     DEF PatienceLeft, ForkInHand, CountFollows, Recording
<1>7. RunningHasPid' /\ PidsDiffer'
  BY <1>1, <1>2 DEF RunningHasPid, PidsDiffer
<1>8. ChildHasSlot'
  BY <1>1, <1>2 DEF ChildHasSlot, Recording, LiveWorkers, Live, Dead
<1> QED
  BY <1>5, <1>6, <1>7, <1>8

\* The SIGCHLD handler, between any two steps: it frees running slots only, and
\* takes as many children off the count.
LEMMA SigchldStep ==
  ASSUME TypeOK, Bookkeeping, Sigchld
  PROVE  TypeOK' /\ Bookkeeping' /\ NoBirth
<1> USE DEF Bookkeeping, MainAlive
<1> DEFINE zombies == {p \in Pids: proc[p] = "zombie"}
<1>1. /\ mpc \notin {"finished", "exit2", "killed"}
      /\ proc' = [p \in Pids |-> IF p \in zombies THEN "reaped" ELSE proc[p]]
      /\ pid' = [i \in Slots |-> IF i \in SlotOf(zombies) THEN 0 ELSE pid[i]]
      /\ running' = RunningAfter(zombies)
      /\ workers_running' = workers_running - CountOf(zombies)
      /\ UNCHANGED <<mpc, in_loop, wi, forked, wait_for_shutdown>>
  BY DEF Sigchld, mainVars, stopVars
<1>2. SlotOf(zombies) \subseteq RunningSlots
  BY <1>1 DEF SlotOf, RunningSlots, RunningHasPid
<1> HIDE DEF zombies
<1>3. \A i \in Slots: running'[i] <=> running[i] /\ i \notin SlotOf(zombies)
  BY <1>1 DEF RunningAfter
<1>4. RunningSlots' = RunningSlots \ SlotOf(zombies)
  BY <1>3 DEF RunningSlots
<1>5. /\ IsFiniteSet(RunningSlots) /\ Cardinality(RunningSlots) \in Nat
      /\ IsFiniteSet(RunningSlots') /\ Cardinality(RunningSlots') \in 0 .. MaxWorker
      /\ Cardinality(SlotOf(zombies)) \in Nat
  BY <1>4, SlotSets DEF RunningSlots, SlotOf
<1>6. Cardinality(RunningSlots') = Cardinality(RunningSlots) - Cardinality(SlotOf(zombies))
  <2>1. RunningSlots \intersect SlotOf(zombies) = SlotOf(zombies)
    BY <1>2
  <2> QED
    BY <1>4, <1>5, <2>1, FS_Difference
<1>7. CountFollows'
  BY <1>1, <1>5, <1>6 DEF CountFollows, CountOf, TypeOK
<1>8. TypeOK'
  <2>1. workers_running' \in -1 .. MaxWorker
    BY <1>1, <1>5, <1>7 DEF CountFollows
  <2>2. running' \in [Slots -> BOOLEAN]
    BY <1>1 DEF RunningAfter, TypeOK
  <2>3. pid' \in [Slots -> Pids \union {0}]
    BY <1>1 DEF TypeOK
  <2>4. proc' \in [Pids -> {"unborn", "boot", "armed", "guarded", "ready", "up",
                            "stopping", "idle", "zombie", "reaped"}]
    BY <1>1 DEF TypeOK
  <2> QED
    BY <1>1, <2>1, <2>2, <2>3, <2>4 DEF Sigchld, TypeOK, stopVars
<1>9. NoBirth
  BY <1>1 DEF NoBirth, LiveWorkers, Live, Dead, TypeOK, zombies
<1>10. PatienceLeft' /\ ForkInHand'
  BY <1>1, <1>9 DEF PatienceLeft, ForkInHand, Recording, NoBirth, TypeOK
<1>11. RunningHasPid'
  <2> SUFFICES ASSUME NEW i \in Slots
               PROVE  running'[i] <=> (pid'[i] # 0 \/ (mpc' = "marked" /\ i = wi'))
    BY DEF RunningHasPid
  <2>1. CASE i \in SlotOf(zombies)
    <3>1. pid'[i] = 0 /\ ~running'[i] /\ pid[i] # 0
      BY <1>1, <1>3, <2>1 DEF SlotOf, zombies
    <3>2. ~(mpc = "marked" /\ i = wi)
      BY <1>1, <3>1 DEF ForkInHand, Recording
    <3> QED
      BY <1>1, <3>1, <3>2
  <2>2. CASE i \notin SlotOf(zombies)
    <3>1. pid'[i] = pid[i]
      BY <1>1, <2>2
    <3>2. running'[i] <=> running[i]
      BY <1>3, <2>2
    <3> QED
      BY <1>1, <3>1, <3>2 DEF RunningHasPid
  <2> QED
    BY <2>1, <2>2
<1>12. PidsDiffer'
  BY <1>1, <1>9 DEF PidsDiffer, NoBirth, TypeOK
<1>13. ChildHasSlot'
  <2>1. ASSUME NEW p \in LiveWorkers', NEW i \in Slots, pid[i] = p
        PROVE  pid'[i] = p
    BY <1>1, <2>1 DEF SlotOf, zombies, LiveWorkers, Live, Dead
  <2> QED
    BY <1>1, <1>9, <2>1 DEF ChildHasSlot, Recording, NoBirth
<1> QED
  BY <1>7, <1>8, <1>9, <1>10, <1>11, <1>12, <1>13
\* The steps of the main process between two children.
LEMMA LoopStep ==
  ASSUME TypeOK, Bookkeeping, Skip \/ ForkFails \/ LoopRun \/ LoopWaits \/ Awake
  PROVE  TypeOK' /\ Bookkeeping' /\ NoBirth /\ mpc' # "finished"
<1>1. /\ mpc \in {"run", "top", "sleep"} /\ mpc' \in {"run", "top", "sleep"}
      /\ in_loop' \in BOOLEAN /\ wi' \in Slots
      /\ UNCHANGED <<forked, slotVars, procVars, terms, shutdown_requested>>
  <2>1. CASE Skip
    BY <2>1, NextSlotStep DEF Skip, stopVars
  <2>2. CASE ForkFails
    BY <2>2, NextSlotStep DEF ForkFails, stopVars
  <2>3. CASE LoopRun \/ LoopWaits \/ Awake
    BY <2>3 DEF LoopRun, LoopWaits, Awake, stopVars, TypeOK, Slots
  <2> QED
    BY <2>1, <2>2, <2>3
<1>2. wait_for_shutdown' < MaxWait /\ wait_for_shutdown' \in 0 .. MaxWait
  <2>1. wait_for_shutdown < MaxWait /\ wait_for_shutdown \in 0 .. MaxWait
    BY <1>1 DEF Bookkeeping, PatienceLeft, MainAlive, TypeOK
  <2>2. CASE LoopWaits
    BY <2>1, <2>2 DEF LoopWaits, OutOfPatience
  <2>3. CASE ~LoopWaits
    BY <2>1, <2>3 DEF Skip, ForkFails, LoopRun, Awake, stopVars
  <2> QED
    BY <2>2, <2>3
<1>3. TypeOK'
  BY <1>1, <1>2 DEF TypeOK, slotVars, procVars
<1>4. NoBirth
  BY <1>1 DEF NoBirth, LiveWorkers, Live, Dead, procVars
<1> QED
  BY <1>1, <1>2, <1>3, <1>4, WalkStep

\* The ends of the main process: its children may live on, none is new.
LEMMA EndStep ==
  ASSUME TypeOK, Bookkeeping,
         LoopFinished \/ LoopKills \/ SigtermExits \/ MainDies \/ (SigtermStops /\ HitsGroup)
  PROVE  TypeOK' /\ Bookkeeping' /\ NoBirth
<1>1. /\ MainAlive /\ ~MainAlive' /\ mpc' \in {"finished", "exit2", "killed"}
      /\ UNCHANGED <<in_loop, wi, forked, slotVars, from_loop, deathsig>>
  BY DEF LoopFinished, LoopKills, SigtermExits, MainDies, SigtermStops, MainAlive, slotVars
<1>3. Targets \in SUBSET Pids
  BY DEF Targets, HitsGroup, TypeOK
<1>4. \/ proc' = Orphaned(proc)
      \/ proc' = Orphaned(Killed(Targets))
      \/ proc' = Orphaned(Signalled(Targets))
  BY DEF LoopFinished, LoopKills, SigtermExits, MainDies, SigtermStops
<1>5. /\ NoBirth
      /\ proc' \in [Pids -> {"unborn", "boot", "armed", "guarded", "ready",
                             "up", "stopping", "idle", "zombie", "reaped"}]
  BY <1>3, <1>4, KernelNoBirth
<1>6. wait_for_shutdown < MaxWait
  BY <1>1 DEF Bookkeeping, PatienceLeft
<1>7. /\ wait_for_shutdown' \in 0 .. MaxWait /\ terms' \in 0 .. MaxTerms
      /\ shutdown_requested' \in BOOLEAN /\ told' \in [Pids -> BOOLEAN]
  <2>1. CASE LoopFinished \/ LoopKills
    BY <1>6, <2>1 DEF LoopFinished, LoopKills, TypeOK
  <2>2. CASE SigtermExits
    BY <2>2 DEF SigtermExits, TypeOK
  <2>3. CASE MainDies
    BY <2>3 DEF MainDies, TypeOK, stopVars
  <2>4. CASE SigtermStops /\ HitsGroup
    <3>1. told' \in [Pids -> BOOLEAN]
      BY <2>4 DEF SigtermStops, TypeOK
    <3>2. shutdown_requested' \in BOOLEAN
      BY <2>4 DEF SigtermStops
    <3> QED
      BY <2>4, <3>1, <3>2 DEF SigtermStops, TypeOK
  <2> QED
    BY <2>1, <2>2, <2>3, <2>4
<1>8. TypeOK'
  BY <1>1, <1>5, <1>7 DEF TypeOK, slotVars
<1> QED
  BY <1>1, <1>5, <1>8, GoneStep

\* SIGTERM with every slot taken: the children are told, the books stay.
LEMMA TermStep ==
  ASSUME TypeOK, Bookkeeping, SigtermStops, ~HitsGroup
  PROVE  TypeOK' /\ Bookkeeping' /\ NoBirth /\ mpc' # "finished"
<1>1. /\ UNCHANGED <<mainVars, slotVars, wait_for_shutdown, from_loop, deathsig>>
      /\ mpc' # "finished" /\ proc' = Signalled(Targets)
  BY DEF SigtermStops, mainVars, slotVars, MainAlive
<1>2. Targets \in SUBSET Pids
  BY DEF Targets, HitsGroup, TypeOK
<1>3. /\ NoBirth
      /\ proc' \in [Pids -> {"unborn", "boot", "armed", "guarded", "ready",
                             "up", "stopping", "idle", "zombie", "reaped"}]
  BY <1>1, <1>2, KernelNoBirth
<1>4. told' \in [Pids -> BOOLEAN] /\ shutdown_requested' \in BOOLEAN
  <2>1. told' \in [Pids -> BOOLEAN]
    BY DEF SigtermStops, TypeOK
  <2>2. shutdown_requested' \in BOOLEAN
    BY DEF SigtermStops
  <2> QED
    BY <2>1, <2>2
<1>5. TypeOK'
  <2>1. terms' \in 0 .. MaxTerms
    BY DEF SigtermStops, TypeOK
  <2> QED
    BY <1>1, <1>3, <1>4, <2>1 DEF TypeOK, mainVars, slotVars
<1> QED
  BY <1>1, <1>3, <1>5, QuietStep

-----------------------------------------------------------------------------
(* Alone at the end *)

\* With nobody running there is no child to leave behind.
LEMMA NobodyLives ==
  ASSUME TypeOK, Bookkeeping, mpc = "top", NobodyRunning
  PROVE  LiveWorkers = {}
<1> USE DEF Bookkeeping, MainAlive
<1>1. Cardinality(RunningSlots) = 0
  <2>1. Cardinality(RunningSlots) \in Nat
    BY SlotSets DEF RunningSlots
  <2> QED
    BY <2>1 DEF CountFollows, NobodyRunning
<1>2. RunningSlots = {}
  BY <1>1, SlotSets, FS_EmptySet DEF RunningSlots
<1>3. \A i \in Slots: pid[i] = 0
  BY <1>2 DEF RunningHasPid, RunningSlots
<1>4. 0 \notin LiveWorkers
  BY DEF LiveWorkers
<1> QED
  BY <1>3, <1>4 DEF ChildHasSlot, Recording

\* killChilds(SIGKILL) reaches every child.
LEMMA AllKilled ==
  ASSUME TypeOK, Bookkeeping, mpc = "top", ~HitsGroup,
         proc' = Orphaned(Killed(Targets))
  PROVE  LiveWorkers' = {}
<1> USE DEF Bookkeeping, MainAlive
<1>1. \A p \in LiveWorkers: p \in Targets
  BY DEF ChildHasSlot, Recording, Targets
<1>2. \A p \in Pids: Killed(Targets)[p] \in {"unborn", "zombie", "reaped"}
  BY <1>1 DEF Killed, LiveWorkers, Live, Dead, TypeOK
<1>3. \A p \in Pids: proc'[p] \in {"unborn", "reaped"}
  BY <1>2 DEF Orphaned
<1> QED
  BY <1>3 DEF LiveWorkers, Live, Dead

LEMMA FinishedStep ==
  ASSUME TypeOK, Bookkeeping, LoopFinished \/ LoopKills
  PROVE  FinishesAlone'
<1>1. CASE LoopFinished
  <2>1. LiveWorkers = {} /\ proc' = Orphaned(proc)
    BY <1>1, NobodyLives DEF LoopFinished
  <2>2. NoBirth
    BY <1>1, EndStep
  <2> QED
    BY <2>1, <2>2 DEF NoBirth, FinishesAlone
<1>2. CASE LoopKills
  <2>1. CASE HitsGroup
    BY <1>2, <2>1 DEF LoopKills, FinishesAlone
  <2>2. CASE ~HitsGroup
    BY <1>2, <2>2, AllKilled DEF LoopKills, FinishesAlone
  <2> QED
    BY <2>1, <2>2
<1> QED
  BY <1>1, <1>2

\* Where nobody is born and loop() is not left, who was alone stays alone.
LEMMA StillAlone ==
  ASSUME FinishesAlone, NoBirth, mpc' = "finished" => mpc = "finished"
  PROVE  FinishesAlone'
  BY DEF FinishesAlone, NoBirth

-----------------------------------------------------------------------------
(* The theorems *)

\* Every step keeps the types and the books; every step but fork() makes no
\* child; loop() is left by a process alone.
LEMMA StepParts ==
  ASSUME IInv, [Next]_vars
  PROVE  /\ TypeOK' /\ Bookkeeping' /\ FinishesAlone'
         /\ MainAlive' \/ NoBirth
<1> USE DEF IInv
<1>1. ASSUME NEW p \in Pids, Fork(p)
      PROVE  TypeOK' /\ Bookkeeping' /\ FinishesAlone' /\ MainAlive'
  <2>1. mpc' = "forked"
    BY <1>1 DEF Fork
  <2> QED
    BY <1>1, <2>1, ForkStep DEF FinishesAlone, MainAlive
<1>2. CASE MarkRunning \/ StorePid \/ CountWorker
  <2>1. TypeOK' /\ Bookkeeping'
    BY <1>2, MarkStep, StoreStep, CountStep
  <2>2. mpc' \in {"marked", "stored", "run", "top", "sleep"}
    BY <1>2, NextSlotStep DEF MarkRunning, StorePid, CountWorker
  <2> QED
    BY <2>1, <2>2 DEF FinishesAlone, MainAlive
<1>3. CASE Skip \/ ForkFails \/ LoopRun \/ LoopWaits \/ Awake
  <2>1. TypeOK' /\ Bookkeeping' /\ NoBirth /\ mpc' # "finished"
    BY <1>3, LoopStep
  <2> QED
    BY <2>1 DEF FinishesAlone
<1>4. CASE LoopFinished \/ LoopKills
  BY <1>4, EndStep, FinishedStep
<1>5. CASE SigtermExits \/ MainDies \/ (SigtermStops /\ HitsGroup)
  <2>1. TypeOK' /\ Bookkeeping' /\ NoBirth
    BY <1>5, EndStep
  <2>2. mpc' # "finished"
    BY <1>5 DEF SigtermExits, MainDies, SigtermStops
  <2> QED
    BY <2>1, <2>2 DEF FinishesAlone
<1>6. CASE SigtermStops /\ ~HitsGroup
  <2>1. TypeOK' /\ Bookkeeping' /\ NoBirth /\ mpc' # "finished"
    BY <1>6, TermStep
  <2> QED
    BY <2>1 DEF FinishesAlone
<1>7. CASE Sigchld
  <2>1. TypeOK' /\ Bookkeeping' /\ NoBirth
    BY <1>7, SigchldStep
  <2>2. mpc' # "finished"
    BY <1>7 DEF Sigchld, mainVars, MainAlive
  <2> QED
    BY <2>1, <2>2 DEF FinishesAlone
<1>8. ASSUME NEW p \in Pids, WorkerStep(p) \/ TermWorker(p) \/ WorkerDies(p)
      PROVE  TypeOK' /\ Bookkeeping' /\ FinishesAlone' /\ NoBirth
  <2>1. TypeOK' /\ NoBirth /\ UNCHANGED <<mainVars, slotVars, stopVars>>
    BY <1>8, WorkerNoBirth
  <2> QED
    BY <2>1, QuietStep, StillAlone DEF mainVars, stopVars
<1>9. CASE UNCHANGED vars
  <2>1. TypeOK' /\ UNCHANGED <<mainVars, slotVars, stopVars>>
    BY <1>9 DEF vars, mainVars, slotVars, stopVars, procVars, TypeOK
  <2>2. NoBirth
    BY <1>9 DEF vars, procVars, NoBirth, LiveWorkers, Live
  <2> QED
    BY <2>1, <2>2, QuietStep, StillAlone DEF mainVars, stopVars
<1> QED
  BY <1>1, <1>2, <1>3, <1>4, <1>5, <1>6, <1>7, <1>8, <1>9 DEF Next, Main

LEMMA Step == IInv /\ [Next]_vars => IInv'
<1> SUFFICES ASSUME IInv, [Next]_vars PROVE IInv'
  OBVIOUS
<1>1. /\ TypeOK' /\ Bookkeeping' /\ FinishesAlone'
      /\ MainAlive' \/ NoBirth
  BY StepParts
<1>2. (TypeOK /\ Bookkeeping /\ MainAlive => WorkersBounded)'
  BY OneSlotEach, PTL
<1>3. WorkersBounded'
  <2>1. CASE MainAlive'
    BY <1>1, <1>2, <2>1
  <2>2. CASE NoBirth
    <3>1. IsFiniteSet(LiveWorkers) /\ LiveWorkers' \in SUBSET LiveWorkers
      BY <2>2, FS_Subset DEF LiveWorkers, NoBirth
    <3>2. Cardinality(LiveWorkers') <= Cardinality(LiveWorkers)
      BY <3>1, FS_Subset
    <3>3. Cardinality(LiveWorkers) \in Nat /\ Cardinality(LiveWorkers') \in Nat
      BY <3>1, FS_Subset, FS_CardinalityType
    <3> QED
      BY <3>2, <3>3 DEF IInv, WorkersBounded
  <2> QED
    BY <1>1, <2>1, <2>2
<1> QED
  BY <1>1, <1>3 DEF IInv

LEMMA Invariance == Spec => []IInv
  BY Initial, Step, PTL DEF Spec

\* The variables of the main process and of its children keep their types; the
\* count of running workers is never below -1 nor above the number of slots,
\* and the rounds of waiting never exceed the patience.
THEOREM TypeCorrect == Spec => []TypeOK
<1>1. IInv => TypeOK
  BY DEF IInv
<1> QED
  BY <1>1, Invariance, PTL

\* Crashes, SIGCHLDs between any two steps of startChild and restarts never make
\* more live workers than there are slots, not after the end either.
THEOREM NeverTooMany == Spec => []WorkersBounded
<1>1. IInv => WorkersBounded
  BY DEF IInv
<1> QED
  BY <1>1, Invariance, PTL

\* Outside startChild workers_running is the number of slots that run.
THEOREM CountsRight == Spec => []CountAgrees
<1>1. IInv => CountAgrees
  <2>1. Cardinality(RunningSlots) \in Nat
    BY SlotSets DEF RunningSlots
  <2>2. CountAgrees <=> (MainAlive /\ mpc \notin {"forked", "marked", "stored"} =>
                           workers_running = Cardinality(RunningSlots))
    BY DEF CountAgrees, RunningSlots
  <2> QED
    BY <2>1, <2>2 DEF IInv, Bookkeeping, CountFollows
<1> QED
  BY <1>1, Invariance, PTL

\* Every live child is in one running slot, or is the one that startChild is about
\* to record: killChilds reaches all of them.
THEOREM ChildrenKnown == Spec => []EveryChildKnown
<1>1. IInv => EveryChildKnown
  <2> SUFFICES ASSUME IInv, MainAlive, NEW p \in LiveWorkers,
                      ~(mpc \in {"forked", "marked"} /\ p = forked)
               PROVE  Cardinality({i \in Slots: pid[i] = p /\ running[i]}) = 1
    BY DEF EveryChildKnown
  <2> USE DEF IInv, Bookkeeping
  <2>1. PICK i \in Slots: pid[i] = p
    BY DEF ChildHasSlot, Recording
  <2>2. {j \in Slots: pid[j] = p /\ running[j]} = {i}
    <3>1. p # 0
      BY DEF LiveWorkers
    <3> QED
      BY <2>1, <3>1 DEF RunningHasPid, PidsDiffer
  <2> QED
    BY <2>2, FS_Singleton
<1> QED
  BY <1>1, Invariance, PTL

\* A main process that leaves loop() leaves no live child behind.
THEOREM LeavesNobody == Spec => []FinishesAlone
<1>1. IInv => FinishesAlone
  BY DEF IInv
<1> QED
  BY <1>1, Invariance, PTL
===============================================================================
