------------------------------ MODULE CryptPool ------------------------------
(* The crypt threads of one worker process: threadManager.cpp, which creates *)
(* them, hands them jobs round robin and joins them, and crypt_thread_t.cpp, *)
(* the loop of one thread around a mutex, a condition variable and the flag  *)
(* shutdown_requested. A job is a network_client whose connection is closed; *)
(* the thread that takes it runs process_queue, which deletes it.            *)
(*                                                                           *)
(* The mutex is held across steps in one place only: between the test of the *)
(* wait predicate and the block inside cv.wait (tpc = "doze"). Every other   *)
(* critical section is one step.                                             *)
EXTENDS Naturals, Sequences, Functions

CONSTANTS
  MaxCryptThreads,  \* threadManager::max_crypt_threads
  Clients,          \* the network_client objects that may be handed over
  NoClient          \* "this thread works on nothing"

ASSUME ThreadsAssumption == MaxCryptThreads \in Nat \ {0}
ASSUME NoClientAssumption == NoClient \notin Clients

Threads == 0 .. MaxCryptThreads - 1

VARIABLES
  queue_items,        \* per thread, crypt_thread_t::queue_items
  shutdown_requested, \* per thread, crypt_thread_t::shutdown_requested
  CI,                 \* per thread, whether its crypt instance exists
  tpc,                \* per thread, where it is in crypt_thread_t::loop
  cur,                \* per thread, the queueItem it has moved out of the queue
  lazy_job_counter,   \* threadManager::lazy_job_counter
  mpc,                \* where the network thread is with the pool
  mi,                 \* the thread the network thread's current operation is at
  handed,             \* per thread, how many jobs it was handed (history)
  client              \* per client: "open", "pool", "deleted" or "leaked"

threadVars == <<queue_items, shutdown_requested, CI, tpc, cur>>
mainVars == <<lazy_job_counter, mpc, mi>>
vars == <<threadVars, mainVars, handed, client>>

Init ==
  /\ queue_items = [t \in Threads |-> <<>>]
  /\ shutdown_requested = [t \in Threads |-> FALSE]
  /\ CI = [t \in Threads |-> FALSE]
  /\ tpc = [t \in Threads |-> "unborn"]
  /\ cur = [t \in Threads |-> NoClient]
  /\ lazy_job_counter = 0
  /\ mpc = "start"
  /\ mi = 0
  /\ handed = [t \in Threads |-> 0]
  /\ client = [c \in Clients |-> "open"]

-----------------------------------------------------------------------------
(* The network thread *)

\* Fault: add() pushes without taking the mutex.
MutexNotTaken(t) == TRUE

\* The mutex of t is free: no one sits between its predicate and its block.
MutexFree(t) == tpc[t] # "doze"

\* Fault: the loops over the threads run one thread too far.
IsLastLate == mi = MaxCryptThreads

\* The loop of start() or join() is at the last thread.
IsLast == mi + 1 = MaxCryptThreads

\* One round of the loop in start(). The result of encrypt_init is not looked
\* at: a thread runs with or without a crypt instance. (It has none when malloc
\* failed; an instance that is only half initialised counts as one here.)
StartThread ==
  /\ mpc = "start"
  /\ \E ok \in BOOLEAN: CI' = [CI EXCEPT ![mi] = ok]
  /\ tpc' = [tpc EXCEPT ![mi] = "loop"]
  /\ IF IsLast
       THEN mpc' = "idle" /\ mi' = 0
       ELSE mpc' = "start" /\ mi' = mi + 1
  /\ UNCHANGED <<queue_items, shutdown_requested, cur, lazy_job_counter,
                 handed, client>>

\* The thread whose turn it is, after the lazy wrap of the counter.
NextThread ==
  IF lazy_job_counter >= MaxCryptThreads THEN 0 ELSE lazy_job_counter

\* Fault: the counter stays where it is.
SameTurn(t) == t

\* The counter after a job for thread t.
TurnAfter(t) == t + 1

\* Fault: the notification is left out.
NotifyNobody(t) == UNCHANGED tpc

\* cv.notify_one(): the one thread that can wait on t's condition is t.
NotifyOne(t) ==
  tpc' = IF tpc[t] = "wait" THEN [tpc EXCEPT ![t] = "loop"] ELSE tpc

\* add_job and add, up to the unlock: the push under the mutex.
AddJob(c) ==
  LET t == NextThread IN
  /\ mpc = "idle"
  /\ client[c] = "open"
  /\ MutexFree(t)
  /\ queue_items' = [queue_items EXCEPT ![t] = Append(@, c)]
  /\ client' = [client EXCEPT ![c] = "pool"]
  /\ handed' = [handed EXCEPT ![t] = @ + 1]
  /\ lazy_job_counter' = TurnAfter(t)
  /\ mpc' = "notify"
  /\ mi' = t
  /\ UNCHANGED <<shutdown_requested, CI, tpc, cur>>

\* add after the unlock.
AddNotify ==
  /\ mpc = "notify"
  /\ NotifyOne(mi)
  /\ mpc' = "idle"
  /\ mi' = 0
  /\ UNCHANGED <<queue_items, shutdown_requested, CI, cur, lazy_job_counter,
                 handed, client>>

\* The network thread is done with its event loop and calls join().
BeginJoin ==
  /\ mpc = "idle"
  /\ mpc' = "join"
  /\ UNCHANGED <<threadVars, lazy_job_counter, mi, handed, client>>

\* crypt_thread_t::join sets the flag without taking the mutex ...
JoinRequest ==
  /\ mpc = "join"
  /\ shutdown_requested' = [shutdown_requested EXCEPT ![mi] = TRUE]
  /\ mpc' = "joinNotify"
  /\ UNCHANGED <<queue_items, CI, tpc, cur, lazy_job_counter, mi, handed, client>>

\* ... then notifies ...
JoinNotify ==
  /\ mpc = "joinNotify"
  /\ NotifyOne(mi)
  /\ mpc' = "joinWait"
  /\ UNCHANGED <<queue_items, shutdown_requested, CI, cur, lazy_job_counter, mi,
                 handed, client>>

\* ... and waits for the thread to end; then the crypt instance is cleaned up.
JoinThread ==
  /\ mpc = "joinWait"
  /\ tpc[mi] = "finished"
  /\ CI' = [CI EXCEPT ![mi] = FALSE]
  /\ IF IsLast
       THEN mpc' = "joined" /\ mi' = 0
       ELSE mpc' = "join" /\ mi' = mi + 1
  /\ UNCHANGED <<queue_items, shutdown_requested, tpc, cur, lazy_job_counter,
                 handed, client>>

Main ==
  \/ StartThread
  \/ \E c \in Clients: AddJob(c)
  \/ AddNotify
  \/ BeginJoin
  \/ JoinRequest
  \/ JoinNotify
  \/ JoinThread

-----------------------------------------------------------------------------
(* crypt_thread_t::loop of thread t *)

\* Fault: the front item is copied and never popped.
TakeWithoutPop(t) ==
  /\ tpc[t] = "loop"
  /\ queue_items[t] # <<>>
  /\ cur' = [cur EXCEPT ![t] = Head(queue_items[t])]
  /\ tpc' = [tpc EXCEPT ![t] = "work"]
  /\ UNCHANGED <<queue_items, shutdown_requested, CI, mainVars, handed, client>>

\* The predicate holds because of a job: move the front item out and unlock.
Take(t) ==
  /\ tpc[t] = "loop"
  /\ queue_items[t] # <<>>
  /\ cur' = [cur EXCEPT ![t] = Head(queue_items[t])]
  /\ queue_items' = [queue_items EXCEPT ![t] = Tail(@)]
  /\ tpc' = [tpc EXCEPT ![t] = "work"]
  /\ UNCHANGED <<shutdown_requested, CI, mainVars, handed, client>>

\* Fault: continue goes back to the wait, as it would in a while (true).
LeaveNever(t) ==
  /\ tpc[t] = "loop"
  /\ queue_items[t] = <<>>
  /\ shutdown_requested[t]
  /\ UNCHANGED vars

\* The predicate holds because of the flag alone: continue, which evaluates
\* the condition of the do-while and leaves the loop.
Leave(t) ==
  /\ tpc[t] = "loop"
  /\ queue_items[t] = <<>>
  /\ shutdown_requested[t]
  /\ tpc' = [tpc EXCEPT ![t] = "finished"]
  /\ UNCHANGED <<queue_items, shutdown_requested, CI, cur, mainVars, handed, client>>

\* The predicate is false. The mutex stays locked until the thread blocks.
Doze(t) ==
  /\ tpc[t] = "loop"
  /\ queue_items[t] = <<>>
  /\ ~shutdown_requested[t]
  /\ tpc' = [tpc EXCEPT ![t] = "doze"]
  /\ UNCHANGED <<queue_items, shutdown_requested, CI, cur, mainVars, handed, client>>

\* cv.wait releases the mutex and blocks, in one step as seen by notifiers.
Block(t) ==
  /\ tpc[t] = "doze"
  /\ tpc' = [tpc EXCEPT ![t] = "wait"]
  /\ UNCHANGED <<queue_items, shutdown_requested, CI, cur, mainVars, handed, client>>

\* A wait may end with no notification; nothing says that it ever does.
SpuriousWakeup(t) ==
  /\ tpc[t] = "wait"
  /\ tpc' = [tpc EXCEPT ![t] = "loop"]
  /\ UNCHANGED <<queue_items, shutdown_requested, CI, cur, mainVars, handed, client>>

\* process_queue, which ends with delete this; without a crypt instance the
\* client is passed over and nobody deletes it.
Work(t) ==
  /\ tpc[t] = "work"
  /\ client' = [client EXCEPT ![cur[t]] = IF CI[t] THEN "deleted" ELSE "leaked"]
  /\ cur' = [cur EXCEPT ![t] = NoClient]
  /\ tpc' = [tpc EXCEPT ![t] = "tail"]
  /\ UNCHANGED <<queue_items, shutdown_requested, CI, mainVars, handed>>

\* Fault: the condition of the do-while is not the flag but TRUE.
LoopAlways(t) ==
  /\ tpc[t] = "tail"
  /\ tpc' = [tpc EXCEPT ![t] = "loop"]
  /\ UNCHANGED <<queue_items, shutdown_requested, CI, cur, mainVars, handed, client>>

\* The end of the body: lock, unlock, and the condition of the do-while, which
\* does not look at the queue.
LoopTest(t) ==
  /\ tpc[t] = "tail"
  /\ tpc' = [tpc EXCEPT ![t] = IF shutdown_requested[t] THEN "finished" ELSE "loop"]
  /\ UNCHANGED <<queue_items, shutdown_requested, CI, cur, mainVars, handed, client>>

\* Everything thread t does of its own accord.
Thread(t) ==
  \/ Take(t)
  \/ Leave(t)
  \/ Doze(t)
  \/ Block(t)
  \/ Work(t)
  \/ LoopTest(t)

-----------------------------------------------------------------------------
Next ==
  \/ Main
  \/ \E t \in Threads: Thread(t) \/ SpuriousWakeup(t)

\* The scheduler runs every thread, and the network thread finishes what it
\* started; it need not ever hand over a job or begin to join.
Fairness ==
  /\ \A t \in Threads: WF_vars(Thread(t))
  /\ WF_vars(StartThread \/ AddNotify \/ JoinRequest \/ JoinNotify \/ JoinThread)

Spec == Init /\ [][Next]_vars /\ Fairness

-----------------------------------------------------------------------------
(* Properties *)

\* Every variable keeps its type: the members of threadManager and of the
\* crypt_thread_t objects as the code declares them.
TypeOK ==
  /\ queue_items \in [Threads -> Seq(Clients)]
  /\ shutdown_requested \in [Threads -> BOOLEAN]
  /\ CI \in [Threads -> BOOLEAN]
  /\ tpc \in [Threads -> {"unborn", "loop", "doze", "wait", "work", "tail", "finished"}]
  /\ cur \in [Threads -> Clients \union {NoClient}]
  /\ lazy_job_counter \in 0 .. MaxCryptThreads
  /\ mpc \in {"start", "idle", "notify", "join", "joinNotify", "joinWait", "joined"}
  /\ mi \in Threads
  /\ handed \in [Threads -> Nat]
  /\ client \in [Clients -> {"open", "pool", "deleted", "leaked"}]

\* add() pushes under the mutex and notifies after the unlock. No job wakeup is
\* lost that way: a thread that is blocked while a job waits for it is about to
\* be notified.
NoLostJobWakeup ==
  \A t \in Threads:
    tpc[t] = "wait" /\ queue_items[t] # <<>> => mpc = "notify" /\ mi = t

\* The clients in the queue of thread t, and those with the one in its hands.
Queued(t) == Range(queue_items[t])
Owned(t) == Queued(t) \union ({cur[t]} \ {NoClient})

\* A client is deleted by the thread that processes it, so no two queues, no
\* two places of one queue, and no queue beside a working thread may hold it,
\* and none may hold a client that is deleted or not handed over.
ExclusiveOwner ==
  \A t \in Threads:
    /\ \A c \in Owned(t): client[c] = "pool"
    /\ \A u \in Threads \ {t}: Owned(t) \intersect Owned(u) = {}
    /\ cur[t] \notin Queued(t)
    /\ IsInjective(queue_items[t])

\* The lazy wrap of lazy_job_counter shares the jobs out evenly: no thread is
\* ever handed two jobs more than another.
Balanced == \A t, u \in Threads: handed[t] <= handed[u] + 1

\* A job handed over is processed, or passed over for want of a crypt instance,
\* unless the thread was told to stop.
JobsAreHandled ==
  \A c \in Clients: \A t \in Threads:
    (c \in Queued(t)) ~> (client[c] \in {"deleted", "leaked"} \/ shutdown_requested[t])

\* join() comes back. (It need not: the flag is set without the mutex, so both
\* the flag and the notification may fall between the predicate and the block.)
JoinReturns == (mpc = "join") ~> (mpc = "joined")

\* The one way for join() to hang is the thread it waits for being blocked.
JoinReturnsOrSleeps ==
  (mpc = "join") ~> (mpc = "joined" \/ (mpc = "joinWait" /\ tpc[mi] = "wait"))

\* What the pool promises, with its mutexes and program counters hidden.
Promise == INSTANCE JobPool WITH
  Lanes <- Threads,
  Jobs <- Clients,
  NoJob <- NoClient,
  waiting <- queue_items,
  active <- cur,
  closed <- shutdown_requested,
  willing <- [t \in Threads |->
                tpc[t] \in {"unborn", "loop", "doze", "wait"} \/ ~shutdown_requested[t]],
  fate <- [c \in Clients |->
             CASE client[c] = "open" -> "new"
               [] client[c] = "pool" -> "pool"
               [] client[c] = "deleted" -> "handled"
               [] client[c] = "leaked" -> "dropped"]

ImplementsJobPool == Promise!Spec
==============================================================================
