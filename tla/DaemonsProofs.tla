---------------------------- MODULE DaemonsProofs -----------------------------
(* Theorems about a daemon and the starts after it, for any number of        *)
(* workers and process ids: that the daemon is one of ProcessManager at      *)
(* every step, the types, and that no later start of its file gets past      *)
(* lock() while one of its processes lives.                                  *)
EXTENDS Daemons, ProcessManagerProofs

-----------------------------------------------------------------------------
(* The daemon within *)

\* What the lock adds to a step is about the lock alone.
LEMMA DaemonWithin == [DaemonNext]_daemonVars => [Next]_vars
BY DEF DaemonNext, DaemonStep, LaterStart, daemonVars

\* The daemon that the lock is added to is one of ProcessManager, and all that
\* is proved of those is true of it.
THEOREM RunsTheDaemon == DaemonSpec => Spec
<1>1. DaemonInit => Init
  BY DEF DaemonInit
<1> QED
  BY <1>1, DaemonWithin, PTL DEF DaemonSpec, Spec

-----------------------------------------------------------------------------
(* The inductive invariant *)

\* Every process of the daemon has its descriptor.
LiveHold ==
  /\ MainAlive => MainProcess \in holders
  /\ LiveWorkers \subseteq holders

\* As long as one of them has, the daemon has the lock.
LockKept == holders # {} => lock = "daemon"

LockInv == DaemonTypeOK /\ LiveHold /\ LockKept

\* What LockInv is for.
LEMMA KeptApart == LiveHold /\ LockKept => OneDaemonPerFile
BY DEF LiveHold, LockKept, OneDaemonPerFile

LEMMA LockInitial == DaemonInit => LockInv
<1> SUFFICES ASSUME DaemonInit PROVE LockInv
  OBVIOUS
<1>1. TypeOK
  BY Initial DEF DaemonInit, IInv
<1>2. LiveWorkers = {} /\ MainAlive
  BY DEF DaemonInit, Init, LiveWorkers, Live, MainAlive
<1> QED
  BY <1>1, <1>2 DEF DaemonInit, LockInv, DaemonTypeOK, LiveHold, LockKept

-----------------------------------------------------------------------------
(* The steps *)

\* The dead do not rise, and who is born has a living parent.
LEMMA NoRevival ==
  ASSUME IInv, [Next]_vars
  PROVE  /\ MainAlive' => MainAlive
         /\ \A p \in LiveWorkers': p \in LiveWorkers \/ (proc[p] = "unborn" /\ MainAlive)
<1> USE DEF IInv
<1>1. ASSUME NEW p \in Pids, Fork(p)
      PROVE  MainAlive /\ \A q \in LiveWorkers': q \in LiveWorkers \/ proc[q] = "unborn"
  <2>1. mpc = "run" /\ proc[p] = "unborn" /\ proc' = [proc EXCEPT ![p] = "boot"]
    BY <1>1 DEF Fork
  <2> QED
    BY <2>1 DEF MainAlive, LiveWorkers, Live, Dead, TypeOK
<1>2. CASE MarkRunning \/ StorePid \/ CountWorker
  BY <1>2 DEF MarkRunning, StorePid, CountWorker, procVars, MainAlive, LiveWorkers,
              Live
<1>3. CASE Skip \/ ForkFails \/ LoopRun \/ LoopWaits \/ Awake
  <2>1. NoBirth
    BY <1>3, LoopStep
  <2>2. MainAlive
    BY <1>3 DEF Skip, ForkFails, LoopRun, LoopWaits, Awake, MainAlive
  <2> QED
    BY <2>1, <2>2 DEF NoBirth
<1>4. CASE LoopFinished \/ LoopKills \/ SigtermExits \/ MainDies
             \/ (SigtermStops /\ HitsGroup)
  <2>1. NoBirth
    BY <1>4, EndStep
  <2>2. ~MainAlive'
    BY <1>4 DEF LoopFinished, LoopKills, SigtermExits, MainDies, SigtermStops, MainAlive
  <2> QED
    BY <2>1, <2>2 DEF NoBirth
<1>5. CASE SigtermStops /\ ~HitsGroup
  <2>1. NoBirth
    BY <1>5, TermStep
  <2>2. MainAlive
    BY <1>5 DEF SigtermStops
  <2> QED
    BY <2>1, <2>2 DEF NoBirth
<1>6. CASE Sigchld
  <2>1. NoBirth
    BY <1>6, SigchldStep
  <2>2. MainAlive
    BY <1>6 DEF Sigchld
  <2> QED
    BY <2>1, <2>2 DEF NoBirth
<1>7. ASSUME NEW p \in Pids, WorkerStep(p) \/ TermWorker(p) \/ WorkerDies(p)
      PROVE  NoBirth /\ (MainAlive' <=> MainAlive)
  BY <1>7, WorkerNoBirth DEF mainVars, MainAlive
<1>8. CASE UNCHANGED vars
  BY <1>8 DEF vars, mainVars, procVars, MainAlive, LiveWorkers, Live
<1> QED
  BY <1>1, <1>2, <1>3, <1>4, <1>5, <1>6, <1>7, <1>8 DEF Next, Main, NoBirth

\* A step of the daemon: a child is born with the descriptor its parent has, and
\* the lock stays as long as anybody has one.
LEMMA DaemonKeeps ==
  ASSUME IInv, LockInv, DaemonStep
  PROVE  LockInv'
<1> USE DEF MainProcess
<1>1. /\ MainAlive' => MainAlive
      /\ \A p \in LiveWorkers': p \in LiveWorkers \/ (proc[p] = "unborn" /\ MainAlive)
  BY NoRevival DEF DaemonStep
<1>2. holders' =
        {p \in LiveWorkers': p \in holders \/ (Born(p) /\ Inherited(p))}
          \union (IF MainAlive' THEN holders \intersect {MainProcess} ELSE {})
  BY DEF DaemonStep, HoldersFollow, LiveWorkers
<1>3. LiveHold'
  <2>1. MainAlive' => MainProcess \in holders'
    BY <1>1, <1>2 DEF LockInv, LiveHold
  <2>2. ASSUME NEW p \in LiveWorkers' PROVE p \in holders'
    <3>1. CASE p \in LiveWorkers
      BY <1>2, <2>2, <3>1 DEF LockInv, LiveHold
    <3>2. CASE proc[p] = "unborn" /\ MainAlive
      <4>1. Born(p)
        BY <2>2, <3>2 DEF Born, LiveWorkers, Live
      <4>2. Inherited(p)
        BY <3>2 DEF Inherited, LockInv, LiveHold
      <4> QED
        BY <1>2, <2>2, <4>1, <4>2
    <3> QED
      BY <1>1, <2>2, <3>1, <3>2
  <2> QED
    BY <2>1, <2>2 DEF LiveHold
<1>4. LockKept'
  <2>1. holders' # {} => holders # {}
    BY <1>2 DEF Inherited
  <2> QED
    BY <2>1 DEF DaemonStep, LockFollows, LockInv, LockKept
<1>5. DaemonTypeOK'
  <2>1. TypeOK'
    BY StepParts DEF DaemonStep
  <2>2. holders' \subseteq LiveWorkers' \union (IF MainAlive' THEN {MainProcess} ELSE {})
    BY <1>2
  <2>3. lock' \in {"daemon", "nobody", "later"}
    BY DEF DaemonStep, LockFollows, LockInv, DaemonTypeOK
  <2> QED
    BY <2>1, <2>2, <2>3 DEF DaemonTypeOK
<1> QED
  BY <1>3, <1>4, <1>5 DEF LockInv

\* A later start that finds the lock free finds nobody.
LEMMA LaterKeeps ==
  ASSUME LockInv, LaterStart \/ UNCHANGED daemonVars
  PROVE  LockInv'
<1>1. /\ UNCHANGED <<vars, holders>>
      /\ lock' \in {"daemon", "nobody", "later"}
      /\ holders # {} => lock' = "daemon"
  BY DEF LaterStart, Refused, LockInv, LockKept, DaemonTypeOK, daemonVars, lockVars
<1>2. TypeOK' /\ LiveWorkers' = LiveWorkers /\ MainAlive' = MainAlive
  BY <1>1 DEF LockInv, DaemonTypeOK, TypeOK, vars, mainVars, slotVars, stopVars,
              procVars, LiveWorkers, Live, MainAlive
<1> QED
  BY <1>1, <1>2 DEF LockInv, DaemonTypeOK, LiveHold, LockKept

-----------------------------------------------------------------------------
(* The theorems *)

LEMMA LockInvariance == DaemonSpec => []LockInv
<1>1. DaemonSpec => []IInv
  BY RunsTheDaemon, Invariance, PTL
<1>2. IInv /\ LockInv /\ [DaemonNext]_daemonVars => LockInv'
  BY DaemonKeeps, LaterKeeps DEF DaemonNext
<1> QED
  BY <1>1, <1>2, LockInitial, PTL DEF DaemonSpec

\* The variables keep their types, and no process that is gone, or never was, has
\* a descriptor of the locked file.
THEOREM DaemonTypeCorrect == DaemonSpec => []DaemonTypeOK
<1>1. LockInv => DaemonTypeOK
  BY DEF LockInv
<1> QED
  BY <1>1, LockInvariance, PTL

\* Whichever processes of the daemon die, in whatever order, and whatever it
\* forks until then: a later start of its file is refused as long as one lives.
THEOREM OneAtWork == DaemonSpec => []OneDaemonPerFile
<1>1. LockInv => OneDaemonPerFile
  BY KeptApart DEF LockInv
<1> QED
  BY <1>1, LockInvariance, PTL
===============================================================================
