--------------------------- MODULE ProcessManager ----------------------------
(* The main process and its worker processes: processManager.cpp and the     *)
(* mainloop of main.cpp with more than one worker. A worker is what module   *)
(* Worker details; here it is a process that starts up, serves, stops and    *)
(* dies. A step of the main process is what it does between two points at    *)
(* which a signal handler may run; a handler is one step.                    *)
(*                                                                           *)
(* Signals are steps of the sender that act on the receiver at once, except  *)
(* SIGCHLD, which is pending as long as there is a child to wait for.        *)
EXTENDS Integers, FiniteSets

CONSTANTS
  MaxWorker,          \* processManager::maxWorker
  Pids,               \* the process ids fork may return
  MaxWait,            \* max_wait_for_shutdown, 15 in the code, at least 1
  MaxTerms,           \* bound: how many SIGTERMs the main process is sent
  ChangesCredentials  \* nsca_user or nsca_group is not what the daemon runs as

\* One worker is another program: loop() then calls work() itself.
ASSUME WorkersAssumption == MaxWorker \in Nat /\ MaxWorker > 1
ASSUME PidsAssumption == Pids \subseteq Nat \ {0} /\ IsFiniteSet(Pids)
ASSUME BoundsAssumption == MaxWait \in Nat \ {0} /\ MaxTerms \in Nat
ASSUME CredentialsAssumption == ChangesCredentials \in BOOLEAN

Slots == 0 .. MaxWorker - 1

VARIABLES
  mpc,                \* the main process: "run", "forked", "marked", "stored",
                      \* "top", "sleep", or how it ended: "finished", "exit2",
                      \* "killed"
  in_loop,            \* it has left mainloop's own runWorkers() for loop()
  wi,                 \* the slot runWorkers() is at
  forked,             \* what fork() returned in the parent, 0 if nothing
  pid,                \* per slot, child_t::pid
  running,            \* per slot, child_t::process_state = RUNNING
  workers_running,
  shutdown_requested,
  wait_for_shutdown,
  terms,              \* SIGTERMs received
  proc,               \* per pid, the state of the process
  from_loop,          \* per pid, it was forked from within loop()
  told,               \* per pid, its own shutdown_requested
  deathsig            \* per pid, it is killed when the main process dies

mainVars == <<mpc, in_loop, wi, forked>>
slotVars == <<pid, running, workers_running>>
stopVars == <<shutdown_requested, wait_for_shutdown, terms>>
procVars == <<proc, from_loop, told, deathsig>>
vars == <<mainVars, slotVars, stopVars, procVars>>

Init ==
  /\ mpc = "run" /\ in_loop = FALSE /\ wi = 0 /\ forked = 0
  /\ pid = [i \in Slots |-> 0] /\ running = [i \in Slots |-> FALSE]
  /\ workers_running = 0
  /\ shutdown_requested = FALSE /\ wait_for_shutdown = 0 /\ terms = 0
  /\ proc = [p \in Pids |-> "unborn"]
  /\ from_loop = [p \in Pids |-> FALSE]
  /\ told = [p \in Pids |-> FALSE]
  /\ deathsig = [p \in Pids |-> FALSE]

Dead == {"zombie", "reaped"}
Live(p) == proc[p] \notin Dead \union {"unborn"}
MainAlive == mpc \notin {"finished", "exit2", "killed"}

-----------------------------------------------------------------------------
(* Processes as the kernel keeps them (external) *)

\* What becomes of process p when it dies: the main process has to wait for
\* it, or nobody is left who must.
DeathOf(p) == IF MainAlive THEN "zombie" ELSE "reaped"

\* The states after these processes were killed, the main process living on.
Killed(ps) == [p \in Pids |-> IF p \in ps /\ Live(p) THEN "zombie" ELSE proc[p]]

\* The same when the main process ends: who has the death signal goes too, and
\* init waits for the dead.
Orphaned(states) ==
  [p \in Pids |->
     IF states[p] = "zombie" \/ (states[p] \notin Dead \union {"unborn"} /\ deathsig[p])
       THEN "reaped" ELSE states[p]]

\* SIGUSR1 before the handler is installed kills. Afterwards it sets the flag,
\* and stops a network that is up; one that is not up yet never hears of it.
Signalled(ps) ==
  [p \in Pids |->
     CASE p \in ps /\ proc[p] = "boot" -> "zombie"
       [] p \in ps /\ proc[p] = "up" -> "stopping"
       [] OTHER -> proc[p]]

Hears(p) == proc[p] \in {"armed", "guarded", "ready", "up", "stopping", "idle"}

-----------------------------------------------------------------------------
(* runWorkers and startChild in the main process *)

\* Fault: the loop runs one slot too far.
NextSlotLate ==
  IF wi = MaxWorker
    THEN mpc' = (IF in_loop THEN "sleep" ELSE "top") /\ in_loop' = TRUE /\ wi' = 0
    ELSE mpc' = "run" /\ wi' = wi + 1 /\ UNCHANGED in_loop

\* The for loop goes on, or it ends: into loop() at first, then to sleep(1).
NextSlot ==
  IF wi + 1 = MaxWorker
    THEN mpc' = (IF in_loop THEN "sleep" ELSE "top") /\ in_loop' = TRUE /\ wi' = 0
    ELSE mpc' = "run" /\ wi' = wi + 1 /\ UNCHANGED in_loop

\* Fault: a running child is started again.
NeverStarted(i) == FALSE

\* startChild leaves a running child alone.
AlreadyStarted(i) == running[i]

Skip ==
  /\ mpc = "run"
  /\ AlreadyStarted(wi)
  /\ NextSlot
  /\ UNCHANGED <<forked, slotVars, stopVars, procVars>>

\* fork() fails: the slot stays as it is until the next round.
ForkFails ==
  /\ mpc = "run"
  /\ ~AlreadyStarted(wi)
  /\ NextSlot
  /\ UNCHANGED <<forked, slotVars, stopVars, procVars>>

\* fork() returns in the parent. The child inherits no death signal. (Pids are
\* given out in order and not again: which one it is makes no difference.)
Fork(p) ==
  /\ mpc = "run"
  /\ ~AlreadyStarted(wi)
  /\ proc[p] = "unborn" /\ \A q \in Pids: q < p => proc[q] # "unborn"
  /\ proc' = [proc EXCEPT ![p] = "boot"]
  /\ from_loop' = [from_loop EXCEPT ![p] = in_loop]
  /\ forked' = p
  /\ mpc' = "forked"
  /\ UNCHANGED <<in_loop, wi, slotVars, stopVars, told, deathsig>>

\* process_state = RUNNING ...
MarkRunning ==
  /\ mpc = "forked"
  /\ running' = [running EXCEPT ![wi] = TRUE]
  /\ mpc' = "marked"
  /\ UNCHANGED <<in_loop, wi, forked, pid, workers_running, stopVars, procVars>>

\* ... then the pid ...
StorePid ==
  /\ mpc = "marked"
  /\ pid' = [pid EXCEPT ![wi] = forked]
  /\ mpc' = "stored"
  /\ UNCHANGED <<in_loop, wi, forked, running, workers_running, stopVars, procVars>>

\* ... then the count.
CountWorker ==
  /\ mpc = "stored"
  /\ workers_running' = workers_running + 1
  /\ forked' = 0
  /\ NextSlot
  /\ UNCHANGED <<pid, running, stopVars, procVars>>

-----------------------------------------------------------------------------
(* loop in the main process *)

\* killChilds(SIGUSR1). A slot without a pid makes it kill(0, SIGUSR1): the
\* whole process group is signalled, the main process dies of it.
HitsGroup == \E i \in Slots: pid[i] = 0
Targets == IF HitsGroup THEN Pids ELSE {pid[i]: i \in Slots}

\* No shutdown: runWorkers() starts what is not running.
LoopRun ==
  /\ mpc = "top" /\ ~shutdown_requested
  /\ mpc' = "run" /\ wi' = 0
  /\ UNCHANGED <<in_loop, forked, slotVars, stopVars, procVars>>

\* The children had their time.
OutOfPatience == wait_for_shutdown + 1 >= MaxWait

\* Fault: the count of running children is not waited for.
NobodyWaitedFor == TRUE

\* Nobody is left to wait for.
NobodyRunning == workers_running = 0

\* All children have ended: so does the main process.
LoopFinished ==
  /\ mpc = "top" /\ shutdown_requested
  /\ wait_for_shutdown' = wait_for_shutdown + 1
  /\ NobodyRunning
  /\ mpc' = "finished"
  /\ proc' = Orphaned(proc)
  /\ UNCHANGED <<in_loop, wi, forked, slotVars, shutdown_requested, terms,
                 from_loop, told, deathsig>>

\* Time is up: killChilds(SIGKILL) and out, or dead of it.
LoopKills ==
  /\ mpc = "top" /\ shutdown_requested
  /\ wait_for_shutdown' = wait_for_shutdown + 1
  /\ ~NobodyRunning /\ OutOfPatience
  /\ mpc' = IF HitsGroup THEN "killed" ELSE "finished"
  /\ proc' = Orphaned(Killed(Targets))
  /\ UNCHANGED <<in_loop, wi, forked, slotVars, shutdown_requested, terms,
                 from_loop, told, deathsig>>

\* Fault: the rounds of waiting are not counted.
LoopWaitsUncounted ==
  /\ mpc = "top" /\ shutdown_requested
  /\ ~NobodyRunning /\ ~OutOfPatience
  /\ mpc' = "sleep"
  /\ UNCHANGED <<in_loop, wi, forked, slotVars, stopVars, procVars>>

\* Not yet: the main process sleeps and looks again.
LoopWaits ==
  /\ mpc = "top" /\ shutdown_requested
  /\ wait_for_shutdown' = wait_for_shutdown + 1
  /\ ~NobodyRunning /\ ~OutOfPatience
  /\ mpc' = "sleep"
  /\ UNCHANGED <<in_loop, wi, forked, slotVars, shutdown_requested, terms, procVars>>

Awake ==
  /\ mpc = "sleep"
  /\ mpc' = "top"
  /\ UNCHANGED <<in_loop, wi, forked, slotVars, stopVars, procVars>>

-----------------------------------------------------------------------------
(* The signal handlers of the main process *)

\* Fault: the slot is freed for any child that is waited for.
SlotOfAny(z) == {i \in Slots: running[i]}

\* The slots of the children that are waited for.
SlotOf(z) == {i \in Slots: pid[i] \in z}

\* Fault: the count goes down for a child that no slot has.
CountOfAll(zombies) == Cardinality(zombies)

\* How many children the handler takes off the count.
CountOf(zombies) == Cardinality(SlotOf(zombies))

\* Fault: reset() forgets the state of the slot.
RunningStill(zombies) == running

\* The states of the slots after reset().
RunningAfter(zombies) == [i \in Slots |-> running[i] /\ i \notin SlotOf(zombies)]

\* sigchld_handler: all zombies are waited for, and the slots that hold their
\* pids are reset. A zombie whose pid is not stored yet leaves no trace.
Sigchld ==
  LET zombies == {p \in Pids: proc[p] = "zombie"} IN
  /\ MainAlive /\ zombies # {}
  /\ proc' = [p \in Pids |-> IF p \in zombies THEN "reaped" ELSE proc[p]]
  /\ pid' = [i \in Slots |-> IF i \in SlotOf(zombies) THEN 0 ELSE pid[i]]
  /\ running' = RunningAfter(zombies)
  /\ workers_running' = workers_running - CountOf(zombies)
  /\ UNCHANGED <<mainVars, stopVars, from_loop, told, deathsig>>

\* sigint_handler, the first time: killChilds(SIGUSR1), then shutdown().
SigtermStops ==
  /\ MainAlive /\ terms < MaxTerms
  /\ ~shutdown_requested
  /\ terms' = terms + 1
  /\ shutdown_requested' = ~HitsGroup
  /\ told' = [p \in Pids |-> told[p] \/ (p \in Targets /\ Hears(p))]
  /\ IF HitsGroup
       THEN mpc' = "killed" /\ proc' = Orphaned(Signalled(Targets))
       ELSE UNCHANGED mpc /\ proc' = Signalled(Targets)
  /\ UNCHANGED <<in_loop, wi, forked, slotVars, wait_for_shutdown, from_loop, deathsig>>

\* The second time: exit(2), at once.
SigtermExits ==
  /\ MainAlive /\ terms < MaxTerms
  /\ shutdown_requested
  /\ terms' = terms + 1
  /\ mpc' = "exit2"
  /\ proc' = Orphaned(proc)
  /\ UNCHANGED <<in_loop, wi, forked, slotVars, shutdown_requested,
                 wait_for_shutdown, from_loop, told, deathsig>>

\* Something kills the main process.
MainDies ==
  /\ MainAlive
  /\ mpc' = "killed"
  /\ proc' = Orphaned(proc)
  /\ UNCHANGED <<in_loop, wi, forked, slotVars, stopVars, from_loop, told, deathsig>>

-----------------------------------------------------------------------------
(* A worker process *)

Moves(p, from, to) ==
  /\ proc[p] = from
  /\ proc' = [proc EXCEPT ![p] = to]
  /\ UNCHANGED <<mainVars, slotVars, stopVars, from_loop>>

\* reset(), the child's mode, and the handler of SIGUSR1.
Arm(p) == Moves(p, "boot", "armed") /\ UNCHANGED <<told, deathsig>>

\* prctl(PR_SET_PDEATHSIG). It is no help when the main process is dead by now.
SetDeathsig(p) ==
  /\ Moves(p, "armed", "guarded")
  /\ deathsig' = [deathsig EXCEPT ![p] = MainAlive]
  /\ UNCHANGED told

\* super_downgrade: the kernel takes the death signal back when the user or
\* group ids of the process change.
Downgrade(p) ==
  /\ Moves(p, "guarded", "ready")
  /\ deathsig' = [deathsig EXCEPT ![p] = @ /\ ~ChangesCredentials]
  /\ UNCHANGED told

\* No such user or group: exit(1).
DowngradeFails(p) == Moves(p, "guarded", DeathOf(p)) /\ UNCHANGED <<told, deathsig>>

\* work() is in the event loop.
Serve(p) == Moves(p, "ready", "up") /\ UNCHANGED <<told, deathsig>>

\* SIGTERM or SIGINT to the worker itself, which is ignored until it serves, or
\* its event loop breaks for want of memory.
TermWorker(p) == Moves(p, "up", "stopping") /\ UNCHANGED <<told, deathsig>>

\* work() returns. A worker of mainloop's runWorkers() ends. One that was forked
\* within loop() is back in loop(), as a child: it ends if it was told to.
WorkReturns(p) ==
  /\ Moves(p, "stopping", IF from_loop[p] /\ ~told[p] THEN "idle" ELSE DeathOf(p))
  /\ UNCHANGED <<told, deathsig>>

\* In loop(), told to stop, with no children of its own.
IdleEnds(p) == told[p] /\ Moves(p, "idle", DeathOf(p)) /\ UNCHANGED <<told, deathsig>>

\* It crashes, or something kills it.
WorkerDies(p) ==
  /\ Live(p)
  /\ proc' = [proc EXCEPT ![p] = DeathOf(p)]
  /\ UNCHANGED <<mainVars, slotVars, stopVars, from_loop, told, deathsig>>

-----------------------------------------------------------------------------
Main ==
  \/ Skip \/ ForkFails \/ \E p \in Pids: Fork(p)
  \/ MarkRunning \/ StorePid \/ CountWorker
  \/ LoopRun \/ LoopFinished \/ LoopKills \/ LoopWaits \/ Awake

WorkerStep(p) ==
  \/ Arm(p) \/ SetDeathsig(p) \/ Downgrade(p) \/ DowngradeFails(p)
  \/ Serve(p) \/ WorkReturns(p) \/ IdleEnds(p)

Next ==
  \/ Main
  \/ Sigchld \/ SigtermStops \/ SigtermExits \/ MainDies
  \/ \E p \in Pids: WorkerStep(p) \/ TermWorker(p) \/ WorkerDies(p)

\* Every process runs, a pending SIGCHLD is delivered, and fork does not fail
\* for ever. Nothing need crash and no SIGTERM need come.
Fairness ==
  /\ WF_vars(Main)
  /\ SF_vars(\E p \in Pids: Fork(p))
  /\ WF_vars(Sigchld)
  /\ \A p \in Pids: WF_vars(WorkerStep(p))

Spec == Init /\ [][Next]_vars /\ Fairness

-----------------------------------------------------------------------------
(* Properties *)

\* Every variable keeps its type. (workers_running is a signed int, and is -1
\* when a child is waited for between the store of its pid and its count.)
TypeOK ==
  /\ mpc \in {"run", "forked", "marked", "stored", "top", "sleep",
              "finished", "exit2", "killed"}
  /\ in_loop \in BOOLEAN
  /\ wi \in Slots
  /\ forked \in Pids \union {0}
  /\ pid \in [Slots -> Pids \union {0}]
  /\ running \in [Slots -> BOOLEAN]
  /\ workers_running \in -1 .. MaxWorker
  /\ shutdown_requested \in BOOLEAN
  /\ wait_for_shutdown \in 0 .. MaxWait
  /\ terms \in 0 .. MaxTerms
  /\ proc \in [Pids -> {"unborn", "boot", "armed", "guarded", "ready", "up",
                        "stopping", "idle", "zombie", "reaped"}]
  /\ from_loop \in [Pids -> BOOLEAN]
  /\ told \in [Pids -> BOOLEAN]
  /\ deathsig \in [Pids -> BOOLEAN]

LiveWorkers == {p \in Pids: Live(p)}

\* Restarting crashed workers never makes more of them than were asked for,
\* whatever SIGCHLD handlers and forks come between.
WorkersBounded == Cardinality(LiveWorkers) <= MaxWorker

\* Outside startChild the count agrees with the slots, although the SIGCHLD
\* handler changes it between any two steps.
CountAgrees ==
  MainAlive /\ mpc \notin {"forked", "marked", "stored"} =>
    workers_running = Cardinality({i \in Slots: running[i]})

\* Once the main process has recorded a child, no two slots have its pid and no
\* live child is without a slot: all of them can be signalled.
EveryChildKnown ==
  MainAlive =>
    \A p \in LiveWorkers:
      \/ mpc \in {"forked", "marked"} /\ p = forked
      \/ Cardinality({i \in Slots: pid[i] = p /\ running[i]}) = 1

\* A main process that leaves loop() leaves no live child behind, even if a
\* SIGTERM came while it forked or SIGUSR1 came too early for a child.
FinishesAlone == mpc = "finished" => LiveWorkers = {}

\* A shutdown ends the main process, with the SIGKILL if it must be.
ShutdownEnds == shutdown_requested ~> ~MainAlive

\* A recorded worker that dies is replaced, as long as there is no shutdown (and
\* the model has process ids).
DeadWorkerReplaced ==
  \A i \in Slots: \A p \in Pids:
    (running[i] /\ pid[i] = p /\ proc[p] = "zombie")
      ~> \/ (running[i] /\ pid[i] \notin {p, 0})
         \/ shutdown_requested \/ ~MainAlive
         \/ \A q \in Pids: proc[q] # "unborn"

\* "no runaway child processes": when the main process is gone, so are its
\* workers in the end.
NoRunaways == ~MainAlive ~> LiveWorkers = {}
==============================================================================
