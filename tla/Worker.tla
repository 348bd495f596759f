------------------------------- MODULE Worker --------------------------------
(* One worker process: processManager::work, the event loop of network.cpp   *)
(* with its listener, timer and signal events, the connections it counts,    *)
(* the SIGUSR1 handler, which runs between any two steps of the network      *)
(* thread (or beside it, on a crypt thread), and the pool of crypt threads.  *)
(*                                                                           *)
(* Connections are the lives of module Connection; the pool is CryptPool,    *)
(* whose "idle" is the network thread outside add_job and join. The network  *)
(* thread is single: it handles one event at a time.                         *)
EXTENDS Integers, Sequences, FiniteSets

CONSTANTS MaxCryptThreads, Clients, NoClient

ASSUME ThreadsAssumption == MaxCryptThreads \in Nat \ {0}
ASSUME NoClientAssumption == NoClient \notin Clients

VARIABLES
  queue_items, shutdown_requested, CI, tpc, cur, lazy_job_counter, mpc, mi,
  handed, client

poolVars == <<queue_items, shutdown_requested, CI, tpc, cur, lazy_job_counter,
              mpc, mi, handed, client>>

Pool == INSTANCE CryptPool

VARIABLES
  wpc,             \* where the network thread is in work() and run()
  nw,              \* processManager::nw: "null", "object", or "freed" (dangling)
  ev_base,         \* network::ev_base is not null
  listening,       \* the listener exists and is enabled
  timer,           \* network::timerevent is pending
  nw_shutdown,     \* network::shutdown_requested
  loopexit,        \* event_base_loopexit is scheduled
  broken,          \* event_base_loopbreak was called
  dispatched,      \* libevent is in the callback of the listener
  accepting,       \* the client in listener_proxy, accepted and not counted
  life,            \* per client: "new", "accepting", "open", "job" or "gone"
  connections,     \* network::connections
  hpc,             \* where the SIGUSR1 handler is in stop(): "idle" outside
  usr1,            \* "none", "pending" or "taken"
  pm_shutdown,     \* processManager::shutdown_requested of this process
  blind,           \* a stop() scheduled the exit while it could not see the
                   \* listener to come or an accept under way (history)
  unseen           \* clients counted after the exit was scheduled (history)

netVars == <<ev_base, listening, timer, nw_shutdown, loopexit, broken, dispatched,
             accepting, life, connections>>
signalVars == <<hpc, usr1, pm_shutdown>>
histVars == <<blind, unseen>>
vars == <<poolVars, wpc, nw, netVars, signalVars, histVars>>

Init ==
  /\ Pool!Init
  /\ wpc = "threads" /\ nw = "null"
  /\ ev_base = FALSE /\ listening = FALSE /\ timer = FALSE
  /\ nw_shutdown = FALSE /\ loopexit = FALSE /\ broken = FALSE
  /\ dispatched = FALSE /\ accepting = NoClient
  /\ life = [c \in Clients |-> "new"]
  /\ connections = 0
  /\ hpc = "idle" /\ usr1 = "none" /\ pm_shutdown = FALSE
  /\ blind = FALSE /\ unseen = {}

-----------------------------------------------------------------------------
(* work() and run() up to the event loop *)

\* tm->start()
StartThreads ==
  /\ wpc = "threads"
  /\ Pool!StartThread
  /\ wpc' = IF mpc' = "idle" THEN "construct" ELSE wpc
  /\ UNCHANGED <<nw, netVars, signalVars, histVars>>

\* this->nw = new network()
NewNetwork ==
  /\ wpc = "construct"
  /\ wpc' = "base"
  /\ nw' = "object"
  /\ UNCHANGED <<poolVars, netVars, signalVars, histVars>>

\* The beginning of run(): from here on stop() does more than return 1.
NewEventBase ==
  /\ wpc = "base"
  /\ wpc' = "listen"
  /\ ev_base' = TRUE
  /\ UNCHANGED <<poolVars, nw, broken, listening, timer, nw_shutdown, loopexit,
                 dispatched, accepting, life, connections, signalVars,
                 histVars>>

\* The rest of it: the listener, the timer, the signal events, the spool watch.
Listen ==
  /\ wpc = "listen"
  /\ wpc' = "loop"
  /\ listening' = TRUE
  /\ timer' = TRUE
  /\ UNCHANGED <<poolVars, nw, broken, ev_base, nw_shutdown, loopexit,
                 dispatched, accepting, life, connections, signalVars,
                 histVars>>

-----------------------------------------------------------------------------
(* The event loop *)

\* The network thread is between two events.
InLibevent == wpc = "loop" /\ mpc = "idle" /\ ~dispatched

\* It may begin with another event: the loop is not told to break.
AtRest == InLibevent /\ ~broken

\* libevent begins with the event of the listener: from here on it accepts
\* without another look at whether the listener is enabled. (If the client is
\* gone by then, accept fails and nothing has happened.)
Dispatch ==
  /\ AtRest /\ listening
  /\ \E c \in Clients: life[c] = "new"
  /\ dispatched' = TRUE
  /\ UNCHANGED <<poolVars, wpc, nw, broken, ev_base, listening, timer,
                 nw_shutdown, loopexit, accepting, life, connections,
                 signalVars, histVars>>

\* The kernel's accept returned and listener_proxy is entered, be the listener
\* disabled by a handler meanwhile or not.
Accept(c) ==
  /\ wpc = "loop" /\ dispatched /\ accepting = NoClient
  /\ life[c] = "new"
  /\ life' = [life EXCEPT ![c] = "accepting"]
  /\ accepting' = c
  /\ UNCHANGED <<poolVars, wpc, nw, broken, ev_base, listening, timer,
                 nw_shutdown, loopexit, dispatched, connections, signalVars,
                 histVars>>

\* listener_proxy returned. The listener looks whether it is still enabled, not
\* whether the loop is to break, and accepts again until nobody waits.
AcceptsAgain ==
  dispatched' \in IF listening /\ \E c \in Clients \ {accepting}: life[c] = "new"
                   THEN BOOLEAN ELSE {FALSE}

\* Fault: a connection is not counted.
UncountedAccept == connections

\* The count with one more client.
AcceptedCount == connections + 1

\* take_variables counts the client.
CountConnection ==
  /\ wpc = "loop" /\ accepting # NoClient
  /\ connections' = AcceptedCount
  /\ life' = [life EXCEPT ![accepting] = "open"]
  /\ accepting' = NoClient
  /\ AcceptsAgain
  /\ unseen' = IF loopexit THEN unseen \union {accepting} ELSE unseen
  /\ UNCHANGED <<poolVars, wpc, nw, broken, ev_base, listening, timer,
                 nw_shutdown, loopexit, signalVars, blind>>

\* No memory for the bufferevent: counted, discounted and deleted in one call,
\* and the loop breaks after this event: the worker serves no more.
RefuseConnection ==
  /\ wpc = "loop" /\ accepting # NoClient
  /\ life' = [life EXCEPT ![accepting] = "gone"]
  /\ accepting' = NoClient
  /\ AcceptsAgain
  /\ broken' = TRUE
  /\ UNCHANGED <<poolVars, wpc, nw, ev_base, listening, timer, nw_shutdown,
                 loopexit, connections, signalVars, histVars>>

\* Fault: the pool is given the client and the count is forgotten.
HandedOverCount == connections

\* connection_closed discounts the client first of all.
ClosedCount == connections - 1

\* The connection closed and there are packets: discounted, then a job.
HandOver(c) ==
  /\ AtRest
  /\ life[c] = "open"
  /\ connections' = ClosedCount
  /\ life' = [life EXCEPT ![c] = "job"]
  /\ Pool!AddJob(c)
  /\ UNCHANGED <<wpc, nw, broken, ev_base, listening, timer, nw_shutdown,
                 loopexit, dispatched, accepting, signalVars, histVars>>

AddNotify ==
  /\ wpc = "loop"
  /\ Pool!AddNotify
  /\ UNCHANGED <<wpc, nw, netVars, signalVars, histVars>>

\* It closed with no packet, or it was thrown out.
Vanish(c) ==
  /\ AtRest
  /\ life[c] = "open"
  /\ connections' = ClosedCount
  /\ life' = [life EXCEPT ![c] = "gone"]
  /\ UNCHANGED <<poolVars, wpc, nw, broken, ev_base, listening, timer,
                 nw_shutdown, loopexit, dispatched, accepting, signalVars,
                 histVars>>

\* Fault: a stop() that waits for connections does not leave a trace.
ForgetShutdown == UNCHANGED nw_shutdown

\* What stop() does when there are connections: leave it to the timer.
PostponeStop == nw_shutdown' = TRUE

\* Fault: the timer stops the loop without a look at the connections.
NoConnections == TRUE

\* stop() lets the loop end only when no connection is counted.
Deserted == connections = 0

\* Fault: the timer is never added again once there is a shutdown.
TimerNotAgain == FALSE

\* After a stop() that could not stop, the timer is added again.
TimerAgain == ~Deserted

\* One tick of timer_proxy. It polls the shutdown flag, and is not added again
\* when stop() has scheduled the exit.
Tick ==
  /\ AtRest /\ timer
  /\ IF ~nw_shutdown
       THEN UNCHANGED <<listening, timer, loopexit>>
       ELSE /\ listening' = FALSE
            /\ timer' = TimerAgain
            /\ loopexit' = (loopexit \/ Deserted)
  /\ UNCHANGED <<poolVars, wpc, nw, broken, ev_base, nw_shutdown, dispatched,
                 accepting, life, connections, signalVars, histVars>>

\* SIGTERM or SIGINT, which are libevent events once run() has set them up.
Sigint ==
  /\ AtRest
  /\ ~nw_shutdown
  /\ nw_shutdown' = TRUE
  /\ UNCHANGED <<poolVars, wpc, nw, broken, ev_base, listening, timer, loopexit,
                 dispatched, accepting, life, connections, signalVars,
                 histVars>>

\* The scheduled exit is due, or the loop breaks.
LeaveLoop ==
  /\ InLibevent
  /\ loopexit \/ broken
  /\ wpc' = "uninit"
  /\ listening' = FALSE
  /\ UNCHANGED <<poolVars, nw, broken, ev_base, timer, nw_shutdown, loopexit,
                 dispatched, accepting, life, connections, signalVars,
                 histVars>>

-----------------------------------------------------------------------------
(* The rest of run() and of work() *)

\* resultPathClient->uninit() and event_base_free.
Uninit ==
  /\ wpc = "uninit"
  /\ wpc' = "delete"
  /\ ev_base' = FALSE
  /\ UNCHANGED <<poolVars, nw, broken, listening, timer, nw_shutdown, loopexit,
                 dispatched, accepting, life, connections, signalVars,
                 histVars>>

\* delete this->nw: the pointer keeps its value ...
DeleteNetwork ==
  /\ wpc = "delete"
  /\ wpc' = "clear"
  /\ nw' = "freed"
  /\ UNCHANGED <<poolVars, netVars, signalVars, histVars>>

\* ... until the next statement; then tm->join().
ClearNetwork ==
  /\ wpc = "clear"
  /\ Pool!BeginJoin
  /\ wpc' = "join"
  /\ nw' = "null"
  /\ UNCHANGED <<netVars, signalVars, histVars>>

Join ==
  /\ wpc = "join"
  /\ Pool!JoinRequest \/ Pool!JoinNotify \/ Pool!JoinThread
  /\ wpc' = IF mpc' = "joined" THEN "done" ELSE wpc
  /\ UNCHANGED <<nw, netVars, signalVars, histVars>>

-----------------------------------------------------------------------------
(* SIGUSR1 from the main process *)

\* The main process sends it once, at any time.
SendUsr1 ==
  /\ usr1 = "none"
  /\ usr1' = "pending"
  /\ UNCHANGED <<poolVars, wpc, nw, netVars, hpc, pm_shutdown, histVars>>

\* sigusr1_handler, shutdown() and the start of stop(): with no network or no
\* event base nothing but the flag of the process manager is set. A freed
\* network had its event base cleared; what is read of it may still be null.
TakeUsr1 ==
  /\ usr1 = "pending" /\ wpc # "crashed"
  /\ usr1' = "taken"
  /\ pm_shutdown' = TRUE
  /\ IF nw = "object" /\ ev_base
       THEN hpc' = "stop" /\ listening' = FALSE
       ELSE UNCHANGED <<hpc, listening>>
  /\ UNCHANGED <<poolVars, wpc, nw, broken, ev_base, timer, nw_shutdown,
                 loopexit, dispatched, accepting, life, connections, histVars>>

\* The rest of stop(): wait for the connections, or schedule the exit. The step
\* is the look at the count; a listener that is set up or in its callback just
\* then brings connections that nobody looks for. If the network thread ran
\* ahead meanwhile, there is no loop left to stop.
StopFromHandler ==
  /\ hpc = "stop" /\ wpc # "crashed"
  /\ hpc' = "idle"
  /\ \/ ev_base /\ ~Deserted
        /\ PostponeStop /\ UNCHANGED <<loopexit, blind>>
     \/ ev_base /\ Deserted
        /\ loopexit' = TRUE
        /\ blind' = (blind \/ wpc = "listen" \/ listening \/ dispatched)
        /\ UNCHANGED nw_shutdown
     \/ ~ev_base /\ UNCHANGED <<nw_shutdown, loopexit, blind>>
  /\ UNCHANGED <<poolVars, wpc, nw, broken, ev_base, listening, timer,
                 dispatched, accepting, life, connections, usr1, pm_shutdown,
                 unseen>>

\* The worker dies of the use of a network that is freed: the handler reads it
\* through the dangling pointer, or goes on in it, or a job does.
UseAfterFree ==
  /\ wpc # "crashed"
  /\ \/ usr1 = "pending" /\ nw = "freed"
     \/ hpc = "stop" /\ wpc \in {"clear", "join"}
     \/ wpc \in {"clear", "join"} /\ \E t \in Pool!Threads: tpc[t] = "work"
  /\ wpc' = "crashed"
  /\ UNCHANGED <<poolVars, nw, netVars, signalVars, histVars>>

-----------------------------------------------------------------------------
\* The crypt threads run beside all this.
Threads(t) ==
  /\ wpc # "crashed"
  /\ Pool!Thread(t)
  /\ UNCHANGED <<wpc, nw, netVars, signalVars, histVars>>

SpuriousWakeup(t) ==
  /\ wpc # "crashed"
  /\ Pool!SpuriousWakeup(t)
  /\ UNCHANGED <<wpc, nw, netVars, signalVars, histVars>>

Straight ==
  \/ StartThreads \/ NewNetwork \/ NewEventBase \/ Listen
  \/ (\E c \in Clients: Accept(c)) \/ CountConnection \/ AddNotify \/ LeaveLoop
  \/ Uninit \/ DeleteNetwork \/ ClearNetwork \/ Join

Next ==
  \/ Straight
  \/ Dispatch \/ RefuseConnection
  \/ Tick
  \/ Sigint
  \/ \E c \in Clients: HandOver(c) \/ Vanish(c)
  \/ SendUsr1 \/ TakeUsr1 \/ StopFromHandler \/ UseAfterFree
  \/ \E t \in Pool!Threads: Threads(t) \/ SpuriousWakeup(t)

\* The network thread goes on, the timer ticks, the handler returns, the crypt
\* threads run; and a connection ends, because its peer closes it or because
\* the read timeout of 8 s ends it once the peer falls silent. Nobody need
\* connect, and no signal need come; nor does a wait end of itself.
Fairness ==
  /\ WF_vars(Straight)
  /\ WF_vars(Tick /\ nw_shutdown)
  /\ WF_vars(StopFromHandler)
  /\ WF_vars(TakeUsr1)
  /\ \A t \in Pool!Threads: WF_vars(Threads(t))
  /\ \A c \in Clients: WF_vars(HandOver(c) \/ Vanish(c))

Spec == Init /\ [][Next]_vars /\ Fairness

-----------------------------------------------------------------------------
(* Properties *)

\* Every variable of the worker keeps its type; the pool's are typed there.
TypeOK ==
  /\ wpc \in {"threads", "construct", "base", "listen", "loop", "uninit", "delete",
              "clear", "join", "done", "crashed"}
  /\ nw \in {"null", "object", "freed"}
  /\ ev_base \in BOOLEAN /\ listening \in BOOLEAN /\ timer \in BOOLEAN
  /\ nw_shutdown \in BOOLEAN /\ loopexit \in BOOLEAN /\ blind \in BOOLEAN
  /\ broken \in BOOLEAN /\ dispatched \in BOOLEAN
  /\ unseen \subseteq Clients
  /\ accepting \in Clients \union {NoClient}
  /\ life \in [Clients -> {"new", "accepting", "open", "job", "gone"}]
  /\ connections \in Nat
  /\ hpc \in {"idle", "stop"}
  /\ usr1 \in {"none", "pending", "taken"} /\ pm_shutdown \in BOOLEAN

Open == {c \in Clients: life[c] = "open"}

\* network::connections is the number of open connections at every moment, so
\* that stop() may go by it; and a client is a job in the pool exactly when the
\* worker has handed it over.
CountExact ==
  /\ connections = Cardinality(Open)
  /\ \A c \in Clients: client[c] # "open" <=> life[c] = "job"

LoopLeft == wpc \in {"uninit", "delete", "clear", "join", "done"}

\* stop() looks at the connections and schedules the exit a second later. Who is
\* cut off by it was counted only after that look, and then the look came before
\* the listener was there or while it was in its callback: SIGUSR1 between
\* libevent's look at the listener and the count of the connection. All the
\* others are waited for, unless memory ran out for a connection.
NoneCutOff ==
  LoopLeft /\ ~broken => Open \subseteq unseen /\ (unseen # {} => blind)

\* A stop that reaches the event loop ends it, whatever connections are open
\* and whichever of the signals asked for it.
StopEndsLoop ==
  (wpc = "loop" /\ (nw_shutdown \/ loopexit \/ hpc = "stop"))
    ~> (LoopLeft \/ wpc = "crashed")

\* While the loop runs something is pending that ends it: a stop that waits for
\* connections never finds the timer gone.
StopIsPolled == wpc = "loop" => timer \/ loopexit

\* "uninit() when its not needed": once the spool client is shut down, no crypt
\* thread processes a job that would use it.
NotNeededAfterUninit ==
  wpc \in {"delete", "clear", "join", "done"} =>
    \A t \in Pool!Threads: tpc[t] # "work"
==============================================================================
