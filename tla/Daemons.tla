------------------------------- MODULE Daemons --------------------------------
(* A daemon of module ProcessManager and the starts of the program after it: *)
(* processManager::lock, which is to keep them apart, and the destructor     *)
(* that closes its descriptor. The daemon has got past lock() itself.        *)
(*                                                                           *)
(* The lock is flock's: it is on the file that argv[0] names at that moment, *)
(* belongs to the open file description, which forked processes share, and   *)
(* goes with its last descriptor. The later starts are those that open the   *)
(* file the daemon opened. One by another path, or after the binary was      *)
(* replaced, has another file and another lock, and nothing keeps it apart.  *)
EXTENDS ProcessManager

\* The main process among the holders; fork() returns no such pid.
MainProcess == 0

VARIABLES
  holders,  \* the processes with a descriptor of what the daemon opened
  lock      \* who has the lock: the "daemon", "nobody", a "later" start

lockVars == <<holders, lock>>
daemonVars == <<vars, lockVars>>

DaemonInit == Init /\ holders = {MainProcess} /\ lock = "daemon"

-----------------------------------------------------------------------------
(* The descriptor in the processes of the daemon *)

\* Fault: reset() of the child closes the descriptor.
NotInherited(p) == FALSE

\* A forked child has the descriptors of its parent; reset() of a child only
\* forgets the number.
Inherited(p) == MainProcess \in holders

Born(p) == proc[p] = "unborn" /\ proc'[p] # "unborn"

\* A process keeps its descriptor until it ends: a worker however it ends, the
\* main process by ~processManager or because something kills it.
HoldersFollow ==
  holders' =
    {p \in Pids: Live(p)' /\ (p \in holders \/ (Born(p) /\ Inherited(p)))}
      \union (IF MainAlive' THEN holders \intersect {MainProcess} ELSE {})

\* The last descriptor takes the lock along.
LockFollows == lock' = IF lock = "daemon" /\ holders' = {} THEN "nobody" ELSE lock

\* Whatever the processes of the daemon do, the kernel keeps track of.
DaemonStep == Next /\ HoldersFollow /\ LockFollows

-----------------------------------------------------------------------------
(* lock() of a later start *)

\* LOCK_EX|LOCK_NB: who would have to wait is refused, and its main process ends.
Refused == lock # "nobody"

LaterStart ==
  /\ ~Refused
  /\ lock' = "later"
  /\ UNCHANGED <<vars, holders>>

DaemonNext == DaemonStep \/ LaterStart

DaemonSpec == DaemonInit /\ [][DaemonNext]_daemonVars /\ Fairness

-----------------------------------------------------------------------------
(* Properties *)

\* TypeOK of ProcessManager; only living processes have descriptors.
DaemonTypeOK ==
  /\ TypeOK
  /\ holders \subseteq LiveWorkers \union (IF MainAlive THEN {MainProcess} ELSE {})
  /\ lock \in {"daemon", "nobody", "later"}

\* A later start of the same file gets past lock() only when no process of the
\* daemon is left, its orphaned workers included: whoever dies, in whatever
\* order, and however late a worker was forked, the lock is not free before.
OneDaemonPerFile == lock = "later" => ~MainAlive /\ LiveWorkers = {}
==============================================================================
