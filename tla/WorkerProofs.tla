----------------------------- MODULE WorkerProofs -----------------------------
(* Theorems about a worker process with any number of clients and of crypt   *)
(* threads: that its pool is one of module CryptPool at every step, that it  *)
(* counts its connections exactly, that a stop is always polled, and that a  *)
(* stop cuts off no connection but one that it could not see coming.         *)
EXTENDS Worker, FiniteSetTheorems, TLAPS

\* What is proved of the pool.
Facts == INSTANCE CryptPoolProofs

-----------------------------------------------------------------------------
(* The inductive invariant *)

\* Before the event base there is nothing that could end the loop to come.
NothingToStop ==
  wpc \in {"threads", "construct", "base"} => ~ev_base /\ ~loopexit

\* The client in listener_proxy is accepted and not counted, and libevent is in
\* the callback of the listener.
AcceptingUncounted ==
  accepting # NoClient => dispatched /\ life[accepting] = "accepting"

\* A client is a job of the pool exactly when the worker has handed it over.
JobsHandedOver == \A c \in Clients: client[c] # "open" <=> life[c] = "job"

\* However many clients there are, finitely many are open, and they are counted.
OpenCounted == IsFiniteSet(Open) /\ connections = Cardinality(Open)

\* An exit that was scheduled with a look at everything to come finds the worker
\* deserted: no connection, no listener and none that is being accepted on.
ExitDeserted ==
  loopexit /\ ~blind =>
    /\ ~listening /\ ~dispatched /\ Open = {}
    /\ wpc \notin {"threads", "construct", "base", "listen"}

\* Who is open once the exit is scheduled was counted after that, and then a stop
\* did not see the connection coming.
OpenUnseen ==
  /\ loopexit => Open \subseteq unseen
  /\ unseen # {} => blind

PoolInv == Facts!TypeOK /\ Facts!OwnerInv

IInv ==
  /\ TypeOK /\ PoolInv
  /\ NothingToStop /\ AcceptingUncounted /\ JobsHandedOver /\ OpenCounted
  /\ ExitDeserted /\ OpenUnseen /\ NoneCutOff /\ StopIsPolled

-----------------------------------------------------------------------------
(* The pool within the worker *)

\* The pool that the worker's steps speak of is the one of the facts.
LEMMA SamePool ==
  /\ Pool!Init <=> Facts!Init
  /\ [Pool!Next]_(Pool!vars) <=> [Facts!Next]_(Facts!vars)
  /\ Pool!Threads = Facts!Threads
<1>1. Pool!Threads = Facts!Threads
  BY DEF Pool!Threads, Facts!Threads
<1>2. Pool!Init <=> Facts!Init
  BY <1>1 DEF Pool!Init, Facts!Init
<1>3. Pool!vars = Facts!vars
  BY DEF Pool!vars, Facts!vars, Pool!threadVars, Facts!threadVars, Pool!mainVars,
         Facts!mainVars
<1>4. UNCHANGED Pool!vars <=> UNCHANGED Facts!vars
  BY DEF Pool!vars, Facts!vars, Pool!threadVars, Facts!threadVars, Pool!mainVars,
         Facts!mainVars
<1>5. /\ Pool!StartThread <=> Facts!StartThread
      /\ \A c \in Clients: Pool!AddJob(c) <=> Facts!AddJob(c)
      /\ Pool!AddNotify <=> Facts!AddNotify
  BY DEF Pool!StartThread, Facts!StartThread, Pool!AddJob, Facts!AddJob,
         Pool!AddNotify, Facts!AddNotify, Pool!IsLast, Facts!IsLast,
         Pool!NextThread, Facts!NextThread, Pool!TurnAfter, Facts!TurnAfter,
         Pool!MutexFree, Facts!MutexFree, Pool!NotifyOne, Facts!NotifyOne
<1>6. /\ Pool!BeginJoin <=> Facts!BeginJoin
      /\ Pool!JoinRequest <=> Facts!JoinRequest
      /\ Pool!JoinNotify <=> Facts!JoinNotify
      /\ Pool!JoinThread <=> Facts!JoinThread
  BY DEF Pool!BeginJoin, Facts!BeginJoin, Pool!JoinRequest, Facts!JoinRequest,
         Pool!JoinNotify, Facts!JoinNotify, Pool!JoinThread, Facts!JoinThread,
         Pool!NotifyOne, Facts!NotifyOne, Pool!IsLast, Facts!IsLast,
         Pool!threadVars, Facts!threadVars
<1>7. ASSUME NEW t \in Pool!Threads
      PROVE  (Pool!Thread(t) \/ Pool!SpuriousWakeup(t))
               <=> (Facts!Thread(t) \/ Facts!SpuriousWakeup(t))
  BY DEF Pool!Thread, Facts!Thread, Pool!Take, Facts!Take, Pool!Leave, Facts!Leave,
         Pool!Doze, Facts!Doze, Pool!Block, Facts!Block, Pool!Work, Facts!Work,
         Pool!LoopTest, Facts!LoopTest, Pool!SpuriousWakeup, Facts!SpuriousWakeup,
         Pool!mainVars, Facts!mainVars
<1>8. Pool!Next <=> Facts!Next
  BY <1>1, <1>5, <1>6, <1>7 DEF Pool!Next, Facts!Next, Pool!Main, Facts!Main
<1> QED
  BY <1>1, <1>2, <1>4, <1>8

\* Whatever the worker does is a step of its pool, or the pool does not see it.
LEMMA PoolStep == [Next]_vars => [Pool!Next]_(Pool!vars)
<1> SUFFICES ASSUME [Next]_vars PROVE Pool!Next \/ UNCHANGED Pool!vars
  OBVIOUS
<1>1. UNCHANGED poolVars => UNCHANGED Pool!vars
  BY DEF poolVars, Pool!vars, Pool!threadVars, Pool!mainVars
<1>2. CASE UNCHANGED poolVars
  BY <1>1, <1>2
<1>3. CASE StartThreads \/ AddNotify \/ ClearNetwork \/ Join
  BY <1>3 DEF StartThreads, AddNotify, ClearNetwork, Join, Pool!Next, Pool!Main
<1>4. ASSUME NEW c \in Clients, HandOver(c) PROVE Pool!Next
  BY <1>4 DEF HandOver, Pool!Next, Pool!Main
<1>5. ASSUME NEW t \in Pool!Threads, Threads(t) \/ SpuriousWakeup(t) PROVE Pool!Next
  BY <1>5 DEF Threads, SpuriousWakeup, Pool!Next
<1>6. \/ UNCHANGED poolVars
      \/ StartThreads \/ AddNotify \/ ClearNetwork \/ Join
      \/ \E c \in Clients: HandOver(c)
      \/ \E t \in Pool!Threads: Threads(t) \/ SpuriousWakeup(t)
  BY DEF Next, Straight, NewNetwork, NewEventBase, Listen, CountConnection, LeaveLoop,
         Uninit, DeleteNetwork, RefuseConnection, Tick, Sigint, Dispatch, Accept, Vanish,
         SendUsr1, TakeUsr1, StopFromHandler, UseAfterFree, vars
<1> QED
  BY <1>2, <1>3, <1>4, <1>5, <1>6

LEMMA PoolInvStep == PoolInv /\ [Next]_vars => PoolInv'
<1>1. PoolInv /\ [Facts!Next]_(Facts!vars) => PoolInv'
  BY Facts!TypeStep, Facts!OwnerStep, ThreadsAssumption, NoClientAssumption DEF PoolInv
<1> QED
  BY <1>1, PoolStep, SamePool

LEMMA PoolInvInit == Init => PoolInv
<1>1. Init => Facts!Init
  BY SamePool DEF Init
<1>2. Facts!Init => Facts!TypeOK
  BY Facts!TypeInit, ThreadsAssumption, NoClientAssumption
<1>3. Facts!Init => Facts!OwnerInv
  BY DEF Facts!Init, Facts!OwnerInv, Facts!ExclusiveOwner, Facts!WorksOnClient,
         Facts!Owned, Facts!Queued, Facts!Range, Facts!IsInjective
<1> QED
  BY <1>1, <1>2, <1>3 DEF PoolInv

-----------------------------------------------------------------------------
(* The worker's own invariant *)

LEMMA Initial == Init => IInv
<1> SUFFICES ASSUME Init PROVE IInv
  OBVIOUS
<1>1. TypeOK /\ NothingToStop /\ AcceptingUncounted
  BY DEF Init, TypeOK, NothingToStop, AcceptingUncounted
<1>2. ExitDeserted /\ OpenUnseen /\ NoneCutOff /\ StopIsPolled
  BY DEF Init, ExitDeserted, OpenUnseen, NoneCutOff, StopIsPolled, LoopLeft
<1>3. JobsHandedOver
  BY DEF Init, JobsHandedOver, Pool!Init
<1>4. Open = {}
  BY DEF Init, Open
<1>5. OpenCounted
  BY <1>4, FS_EmptySet DEF Init, OpenCounted
<1> QED
  BY <1>1, <1>2, <1>3, <1>5, PoolInvInit DEF IInv

\* The ways in which the worker's clients change: accepted, counted, refused,
\* handed over, gone; or not at all.
LEMMA ClientSteps ==
  ASSUME [Next]_vars
  PROVE  \/ \E c \in Clients: Accept(c) \/ HandOver(c) \/ Vanish(c)
         \/ CountConnection
         \/ RefuseConnection
         \/ UNCHANGED <<life, connections, accepting>>
  BY DEF Next, Straight, StartThreads, NewNetwork, NewEventBase, Listen, AddNotify,
         LeaveLoop, Uninit, DeleteNetwork, ClearNetwork, Join, Tick, Sigint, Dispatch, SendUsr1,
         TakeUsr1, StopFromHandler, UseAfterFree, Threads, SpuriousWakeup, vars, netVars

\* The set of open connections after each of them.
LEMMA OpenAfter ==
  ASSUME TypeOK, AcceptingUncounted
  PROVE  /\ \A c \in Clients: Accept(c) => Open' = Open
         /\ CountConnection =>
              accepting \in Clients \ Open /\ Open' = Open \union {accepting}
         /\ RefuseConnection => Open' = Open
         /\ \A c \in Clients:
              HandOver(c) \/ Vanish(c) => c \in Open /\ Open' = Open \ {c}
         /\ life' = life => Open' = Open
<1> USE DEF TypeOK, Open
<1>1. ASSUME NEW c \in Clients, Accept(c) PROVE Open' = Open
  BY <1>1 DEF Accept
<1>2. ASSUME CountConnection
      PROVE  accepting \in Clients \ Open /\ Open' = Open \union {accepting}
  BY <1>2 DEF CountConnection, AcceptingUncounted
<1>3. ASSUME RefuseConnection PROVE Open' = Open
  BY <1>3 DEF RefuseConnection, AcceptingUncounted
<1>4. ASSUME NEW c \in Clients, HandOver(c) \/ Vanish(c)
      PROVE  c \in Open /\ Open' = Open \ {c}
  <2>1. life[c] = "open" /\ life' \in {[life EXCEPT ![c] = "job"], [life EXCEPT ![c] = "gone"]}
    BY <1>4 DEF HandOver, Vanish
  <2> QED
    BY <2>1
<1>5. life' = life => Open' = Open
  OBVIOUS
<1> QED
  BY <1>1, <1>2, <1>3, <1>4, <1>5

\* The count goes with the set.
LEMMA OpenCountedStep ==
  ASSUME TypeOK, AcceptingUncounted, OpenCounted, [Next]_vars
  PROVE  OpenCounted' /\ connections' \in Nat
<1>1. IsFiniteSet(Open) /\ connections = Cardinality(Open) /\ Cardinality(Open) \in Nat
  BY FS_CardinalityType DEF OpenCounted
<1>2. CASE CountConnection
  <2>1. IsFiniteSet(Open') /\ Cardinality(Open') = Cardinality(Open) + 1
    BY <1>1, <1>2, OpenAfter, FS_AddElement
  <2> QED
    BY <1>1, <1>2, <2>1 DEF CountConnection, AcceptedCount, OpenCounted
<1>3. ASSUME NEW c \in Clients, HandOver(c) \/ Vanish(c)
      PROVE  OpenCounted' /\ connections' \in Nat
  <2>1. c \in Open /\ Open' = Open \ {c}
    BY <1>3, OpenAfter
  <2>2. IsFiniteSet(Open') /\ Cardinality(Open') = Cardinality(Open) - 1
    BY <1>1, <2>1, FS_RemoveElement
  <2>3. Cardinality(Open') \in Nat
    BY <2>2, FS_CardinalityType
  <2> QED
    BY <1>1, <1>3, <2>2, <2>3 DEF HandOver, Vanish, ClosedCount, OpenCounted
<1>4. ASSUME Open' = Open, connections' = connections
      PROVE  OpenCounted' /\ connections' \in Nat
  BY <1>1, <1>4 DEF OpenCounted
<1>5. ASSUME NEW c \in Clients, Accept(c) PROVE OpenCounted' /\ connections' \in Nat
  <2>1. connections' = connections
    BY <1>5 DEF Accept
  <2> QED
    BY <1>4, <1>5, <2>1, OpenAfter
<1>6. CASE RefuseConnection
  <2>1. connections' = connections
    BY <1>6 DEF RefuseConnection
  <2> QED
    BY <1>4, <1>6, <2>1, OpenAfter
<1>7. CASE UNCHANGED <<life, connections, accepting>>
  BY <1>4, <1>7, OpenAfter
<1> QED
  BY <1>2, <1>3, <1>5, <1>6, <1>7, ClientSteps

LEMMA TypeStep ==
  ASSUME TypeOK, AcceptingUncounted, OpenCounted, [Next]_vars
  PROVE  TypeOK' /\ AcceptingUncounted'
<1> USE DEF TypeOK
<1>1. connections' \in Nat
  BY OpenCountedStep
<1>2. /\ accepting' \in Clients \union {NoClient}
      /\ life' \in [Clients -> {"new", "accepting", "open", "job", "gone"}]
      /\ AcceptingUncounted'
  <2> USE DEF AcceptingUncounted
  <2>1. ASSUME NEW c \in Clients, Accept(c)
        PROVE  /\ accepting' = c /\ dispatched'
               /\ life' = [life EXCEPT ![c] = "accepting"]
    BY <2>1 DEF Accept
  <2>2. ASSUME NEW c \in Clients, HandOver(c) \/ Vanish(c)
        PROVE  /\ accepting' = NoClient /\ accepting = NoClient
               /\ life' \in {[life EXCEPT ![c] = "job"], [life EXCEPT ![c] = "gone"]}
    BY <2>2 DEF HandOver, Vanish, AtRest, InLibevent
  <2>3. CASE CountConnection \/ RefuseConnection
    BY <2>3 DEF CountConnection, RefuseConnection
  <2>4. CASE UNCHANGED <<life, connections, accepting>>
    <3>1. accepting # NoClient => dispatched'
      BY <2>4 DEF Next, Straight, StartThreads, NewNetwork, NewEventBase, Listen,
              AddNotify, LeaveLoop, Uninit, DeleteNetwork, ClearNetwork, Join, Tick,
              Sigint, Dispatch, SendUsr1, TakeUsr1, StopFromHandler, UseAfterFree,
              Threads, SpuriousWakeup, vars, netVars, Accept, HandOver, Vanish,
              CountConnection, RefuseConnection
    <3> QED
      BY <2>4, <3>1
  <2> QED
    BY <2>1, <2>2, <2>3, <2>4, ClientSteps
<1> USE DEF Next, Straight, StartThreads, NewNetwork, NewEventBase, Listen, AddNotify,
            LeaveLoop, Uninit, DeleteNetwork, ClearNetwork, Join, Tick, Sigint, Dispatch, SendUsr1,
            TakeUsr1, StopFromHandler, UseAfterFree, Threads, SpuriousWakeup, vars, netVars,
            Accept, HandOver, Vanish, CountConnection, RefuseConnection, histVars
<1>3. /\ wpc' \in {"threads", "construct", "base", "listen", "loop", "uninit", "delete",
                   "clear", "join", "done", "crashed"}
      /\ nw' \in {"null", "object", "freed"}
      /\ hpc' \in {"idle", "stop"} /\ usr1' \in {"none", "pending", "taken"}
  BY DEF signalVars
<1>4. ev_base' \in BOOLEAN /\ listening' \in BOOLEAN /\ timer' \in BOOLEAN
  BY DEF TimerAgain, Deserted
<1>5. nw_shutdown' \in BOOLEAN /\ broken' \in BOOLEAN /\ pm_shutdown' \in BOOLEAN
  BY DEF PostponeStop, signalVars
<1>6. loopexit' \in BOOLEAN /\ blind' \in BOOLEAN
  BY DEF Deserted
<1>7. dispatched' \in BOOLEAN
  BY DEF AcceptsAgain
<1>8. unseen' \subseteq Clients
  OBVIOUS
<1> QED
  BY <1>1, <1>2, <1>3, <1>4, <1>5, <1>6, <1>7, <1>8

\* A client becomes a job of the pool, and is done with, as one.
LEMMA JobsStep ==
  ASSUME TypeOK, PoolInv, AcceptingUncounted, JobsHandedOver, [Next]_vars
  PROVE  JobsHandedOver'
<1> USE DEF TypeOK, PoolInv, Facts!TypeOK, JobsHandedOver
<1>1. ASSUME NEW c \in Clients, HandOver(c) PROVE JobsHandedOver'
  <2>1. client' = [client EXCEPT ![c] = "pool"] /\ life' = [life EXCEPT ![c] = "job"]
    BY <1>1 DEF HandOver, Pool!AddJob
  <2> QED
    BY <2>1
<1>2. ASSUME NEW c \in Clients, Accept(c) \/ Vanish(c) PROVE JobsHandedOver'
  <2>1. /\ client' = client /\ life[c] \in {"new", "open"}
        /\ life' \in {[life EXCEPT ![c] = "accepting"], [life EXCEPT ![c] = "gone"]}
    BY <1>2 DEF Accept, Vanish, poolVars
  <2> QED
    BY <2>1
<1>3. CASE CountConnection \/ RefuseConnection
  <2>1. /\ client' = client /\ accepting \in Clients /\ life[accepting] = "accepting"
        /\ life' \in {[life EXCEPT ![accepting] = "open"],
                      [life EXCEPT ![accepting] = "gone"]}
    BY <1>3 DEF CountConnection, RefuseConnection, AcceptingUncounted, poolVars
  <2> QED
    BY <2>1
<1>4. ASSUME NEW t \in Pool!Threads, Pool!Work(t), life' = life
      PROVE  JobsHandedOver'
  <2>1. cur[t] \in Clients /\ client[cur[t]] = "pool"
    <3>1. t \in Facts!Threads /\ tpc[t] = "work"
      BY <1>4, SamePool DEF Pool!Work
    <3>2. cur[t] \in Clients
      BY <3>1 DEF Facts!OwnerInv, Facts!WorksOnClient
    <3>3. cur[t] \in Facts!Owned(t)
      BY <3>2, NoClientAssumption DEF Facts!Owned
    <3> QED
      BY <3>1, <3>2, <3>3 DEF Facts!OwnerInv, Facts!ExclusiveOwner
  <2>2. \/ client' = [client EXCEPT ![cur[t]] = "deleted"]
        \/ client' = [client EXCEPT ![cur[t]] = "leaked"]
    BY <1>4 DEF Pool!Work
  <2> QED
    BY <1>4, <2>1, <2>2
<1>5. CASE UNCHANGED <<client, life>>
  BY <1>5
<1>6. \/ \E c \in Clients: Accept(c) \/ HandOver(c) \/ Vanish(c)
      \/ CountConnection \/ RefuseConnection
      \/ life' = life /\ \E t \in Pool!Threads: Pool!Work(t)
      \/ UNCHANGED <<client, life>>
  <2>1. CASE UNCHANGED poolVars
    BY <2>1, ClientSteps DEF poolVars
  <2>2. CASE StartThreads \/ AddNotify \/ ClearNetwork \/ Join
    BY <2>2 DEF StartThreads, AddNotify, ClearNetwork, Join, netVars, Pool!StartThread,
                Pool!AddNotify, Pool!BeginJoin, Pool!JoinRequest, Pool!JoinNotify,
                Pool!JoinThread
  <2>3. ASSUME NEW t \in Pool!Threads, Threads(t) \/ SpuriousWakeup(t)
        PROVE  life' = life /\ (Pool!Work(t) \/ client' = client)
    BY <2>3 DEF Threads, SpuriousWakeup, netVars, Pool!Thread, Pool!Take, Pool!Leave,
                Pool!Doze, Pool!Block, Pool!LoopTest, Pool!SpuriousWakeup
  <2>4. \/ UNCHANGED poolVars
        \/ StartThreads \/ AddNotify \/ ClearNetwork \/ Join
        \/ \E c \in Clients: HandOver(c)
        \/ \E t \in Pool!Threads: Threads(t) \/ SpuriousWakeup(t)
    BY DEF Next, Straight, NewNetwork, NewEventBase, Listen, CountConnection, LeaveLoop,
           Uninit, DeleteNetwork, RefuseConnection, Tick, Sigint, Dispatch, Accept, Vanish,
           SendUsr1, TakeUsr1, StopFromHandler, UseAfterFree, vars
  <2> QED
    BY <2>1, <2>2, <2>3, <2>4
<1> QED
  BY <1>1, <1>2, <1>3, <1>4, <1>5, <1>6

\* A worker without connections is one without open clients.
LEMMA DesertedIsEmpty ==
  ASSUME OpenCounted, Deserted
  PROVE  Open = {}
  BY FS_EmptySet DEF OpenCounted, Deserted

\* What is known of the ways in which the exit is scheduled, the listener set up and
\* the loop left: who schedules the exit has seen no connection, and says so where
\* it could not see one to come.
LEMMA ExitSteps ==
  ASSUME TypeOK, NothingToStop, AcceptingUncounted, OpenCounted, [Next]_vars
  PROVE  /\ loopexit' => \/ loopexit
                         \/ /\ wpc = "loop" /\ Open = {}
                            /\ ~listening' /\ ~dispatched /\ ~dispatched'
                         \/ /\ Open = {} /\ wpc \notin {"threads", "construct", "base"}
                            /\ blind' \/ (wpc # "listen" /\ ~listening /\ ~dispatched)
         /\ blind => blind'
         /\ listening' => listening \/ wpc = "listen"
         /\ dispatched' => dispatched \/ (listening /\ wpc = "loop")
         /\ ev_base' => ev_base \/ wpc = "base"
<1> USE DEF TypeOK, Next, Straight, StartThreads, NewNetwork, NewEventBase, Listen, AddNotify,
            LeaveLoop, Uninit, DeleteNetwork, ClearNetwork, Join, Tick, Sigint, Dispatch, SendUsr1,
            TakeUsr1, StopFromHandler, UseAfterFree, Threads, SpuriousWakeup, vars, netVars,
            Accept, HandOver, Vanish, CountConnection, RefuseConnection, InLibevent, AtRest,
            histVars
<1>1. loopexit' = loopexit \/ Tick \/ StopFromHandler
  OBVIOUS
<1>2. ASSUME Tick, loopexit', ~loopexit
      PROVE  /\ wpc = "loop" /\ Open = {}
             /\ ~listening' /\ ~dispatched /\ ~dispatched'
  <2>1. Deserted
    BY <1>2
  <2> QED
    BY <1>2, <2>1, DesertedIsEmpty
<1>3. ASSUME StopFromHandler, loopexit', ~loopexit
      PROVE  /\ Open = {} /\ wpc \notin {"threads", "construct", "base"}
             /\ blind' \/ (wpc # "listen" /\ ~listening /\ ~dispatched)
  <2>1. Deserted /\ ev_base
    BY <1>3
  <2>2. blind' \/ (wpc # "listen" /\ ~listening /\ ~dispatched)
    BY <1>3
  <2> QED
    BY <2>1, <2>2, DesertedIsEmpty DEF NothingToStop
<1>4. /\ blind => blind'
      /\ listening' => listening \/ wpc = "listen"
      /\ ev_base' => ev_base \/ wpc = "base"
  OBVIOUS
<1>5. dispatched' => dispatched \/ (listening /\ wpc = "loop")
  <2>1. accepting # NoClient => dispatched
    BY DEF AcceptingUncounted
  <2> QED
    BY <2>1
<1> HIDE DEF Tick, StopFromHandler, Next
<1> QED
  BY <1>1, <1>2, <1>3, <1>4, <1>5

LEMMA ExitStep ==
  ASSUME TypeOK, NothingToStop, AcceptingUncounted, OpenCounted, ExitDeserted, [Next]_vars
  PROVE  NothingToStop' /\ ExitDeserted'
<1>1. /\ wpc' \in {"threads", "construct", "base"} => wpc \in {"threads", "construct", "base"}
      /\ wpc' \in {"threads", "construct", "base", "listen"} =>
           wpc \in {"threads", "construct", "base", "listen"}
      /\ wpc = "base" /\ wpc' \in {"threads", "construct", "base"} => ev_base' = ev_base
  BY DEF Next, Straight, StartThreads, NewNetwork, NewEventBase, Listen, AddNotify,
         LeaveLoop, Uninit, DeleteNetwork, ClearNetwork, Join, Tick, Sigint, Dispatch, SendUsr1,
         TakeUsr1, StopFromHandler, UseAfterFree, Threads, SpuriousWakeup, vars, netVars,
         Accept, HandOver, Vanish, CountConnection, RefuseConnection
<1>2. NothingToStop'
  BY <1>1, ExitSteps DEF NothingToStop
<1>3. ASSUME loopexit', ~blind' PROVE ~blind /\ Open' = {}
  <2>1. ~blind /\ Open = {} /\ accepting = NoClient
    BY <1>3, ExitSteps DEF ExitDeserted, AcceptingUncounted, TypeOK
  <2> QED
    BY <2>1, OpenAfter, ClientSteps DEF CountConnection
<1>4. ASSUME loopexit', ~blind' PROVE ~listening' /\ ~dispatched'
  BY <1>3, <1>4, ExitSteps DEF ExitDeserted, TypeOK
<1>5. ASSUME loopexit', ~blind' PROVE wpc' \notin {"threads", "construct", "base", "listen"}
  BY <1>1, <1>3, <1>5, ExitSteps DEF ExitDeserted, TypeOK
<1> QED
  BY <1>2, <1>3, <1>4, <1>5 DEF ExitDeserted

\* Who joins the open connections once the exit is scheduled is noted, and the
\* listener was in its callback when it was scheduled.
LEMMA UnseenStep ==
  ASSUME TypeOK, NothingToStop, AcceptingUncounted, OpenCounted, ExitDeserted,
         OpenUnseen, [Next]_vars
  PROVE  OpenUnseen'
<1>1. CASE CountConnection
  <2>1. /\ loopexit' = loopexit /\ blind' = blind
        /\ unseen' = IF loopexit THEN unseen \union {accepting} ELSE unseen
        /\ Open' = Open \union {accepting}
    BY <1>1, OpenAfter DEF CountConnection
  <2>2. loopexit => blind
    BY <1>1 DEF CountConnection, AcceptingUncounted, ExitDeserted, TypeOK
  <2> QED
    BY <2>1, <2>2 DEF OpenUnseen
<1>2. ASSUME ~CountConnection PROVE unseen' = unseen
  BY <1>2 DEF Next, Straight, StartThreads, NewNetwork, NewEventBase, Listen, AddNotify,
         LeaveLoop, Uninit, DeleteNetwork, ClearNetwork, Join, Tick, Sigint, Dispatch,
         SendUsr1, TakeUsr1, StopFromHandler, UseAfterFree, Threads, SpuriousWakeup, vars,
         netVars, histVars, Accept, HandOver, Vanish, RefuseConnection
<1>3. ASSUME ~CountConnection PROVE Open' \subseteq Open
  BY <1>3, OpenAfter, ClientSteps
<1>4. /\ blind => blind'
      /\ loopexit' => loopexit \/ Open = {}
  BY ExitSteps
<1> QED
  BY <1>1, <1>2, <1>3, <1>4 DEF OpenUnseen

\* Once the loop is left, no connection changes.
LEMMA NoneCutOffStep ==
  ASSUME TypeOK, AcceptingUncounted, OpenUnseen, NoneCutOff, [Next]_vars
  PROVE  NoneCutOff'
<1> SUFFICES ASSUME LoopLeft', ~broken'
             PROVE  Open' \subseteq unseen' /\ (unseen' # {} => blind')
  BY DEF NoneCutOff
<1>1. /\ LeaveLoop \/ LoopLeft
      /\ life' = life /\ unseen' = unseen /\ (broken => broken')
      /\ blind => blind'
  <2> USE DEF LoopLeft, TypeOK, AtRest, InLibevent, Next, Straight, StartThreads,
          NewNetwork, NewEventBase, Listen, AddNotify, LeaveLoop, Uninit, DeleteNetwork,
          ClearNetwork, Join, Tick, Sigint, Dispatch, SendUsr1, TakeUsr1, StopFromHandler,
          UseAfterFree, Threads, SpuriousWakeup, vars, netVars, histVars, Accept, HandOver,
          Vanish, CountConnection, RefuseConnection
  <2>1. LeaveLoop \/ LoopLeft
    OBVIOUS
  <2>2. life' = life /\ unseen' = unseen
    OBVIOUS
  <2>3. (broken => broken') /\ (blind => blind')
    OBVIOUS
  <2> QED
    BY <2>1, <2>2, <2>3
<1>2. Open' = Open
  BY <1>1, OpenAfter
<1>3. CASE LeaveLoop
  <2>1. loopexit
    BY <1>3 DEF LeaveLoop
  <2> QED
    BY <1>1, <1>2, <2>1 DEF OpenUnseen
<1>4. CASE LoopLeft
  BY <1>1, <1>2, <1>4 DEF NoneCutOff
<1> QED
  BY <1>1, <1>3, <1>4

\* The timer goes away only where the exit is scheduled.
LEMMA PolledStep ==
  ASSUME StopIsPolled, [Next]_vars
  PROVE  StopIsPolled'
<1> USE DEF StopIsPolled
<1>1. CASE Tick
  BY <1>1 DEF Tick, TimerAgain
<1>2. CASE Listen
  BY <1>2 DEF Listen
<1>3. CASE ~Tick /\ ~Listen
  <2>1. /\ wpc' = "loop" => wpc = "loop"
        /\ timer' = timer
        /\ loopexit => loopexit'
    BY <1>3
       DEF Next, Straight, StartThreads, NewNetwork, NewEventBase, AddNotify, LeaveLoop,
           Uninit, DeleteNetwork, ClearNetwork, Join, Sigint, Dispatch, SendUsr1, TakeUsr1,
           StopFromHandler, UseAfterFree, Threads, SpuriousWakeup, vars, netVars, Accept,
           HandOver, Vanish, CountConnection, RefuseConnection
  <2> QED
    BY <2>1
<1> QED
  BY <1>1, <1>2, <1>3

-----------------------------------------------------------------------------
(* The theorems *)

LEMMA Step == IInv /\ [Next]_vars => IInv'
<1> SUFFICES ASSUME IInv, [Next]_vars PROVE IInv'
  OBVIOUS
<1> USE DEF IInv
<1>1. TypeOK' /\ AcceptingUncounted'
  BY TypeStep
<1>2. PoolInv'
  BY PoolInvStep
<1>3. JobsHandedOver'
  BY JobsStep
<1>4. OpenCounted'
  BY OpenCountedStep
<1>5. NothingToStop' /\ ExitDeserted'
  BY ExitStep
<1>6. OpenUnseen'
  BY UnseenStep
<1>7. NoneCutOff'
  BY NoneCutOffStep
<1>8. StopIsPolled'
  BY PolledStep
<1> QED
  BY <1>1, <1>2, <1>3, <1>4, <1>5, <1>6, <1>7, <1>8

LEMMA Invariance == Spec => []IInv
  BY Initial, Step, PTL DEF Spec

\* In all that the worker does, from start() to join(), its crypt threads and their
\* queues are a pool of module CryptPool: whatever is proved of every step of that
\* module holds within the worker.
THEOREM RunsThePool == Spec => Pool!Init /\ [][Pool!Next]_(Pool!vars)
<1>1. Init => Pool!Init
  BY DEF Init
<1> QED
  BY <1>1, PoolStep, PTL DEF Spec

\* The variables of the worker keep their types, for any number of clients and
\* crypt threads; the count of connections is never negative.
THEOREM TypeCorrect == Spec => []TypeOK
<1>1. IInv => TypeOK
  BY DEF IInv
<1> QED
  BY <1>1, Invariance, PTL

\* network::connections is the number of open connections, whatever is accepted,
\* refused, handed over or closed; and the pool has the clients that the worker
\* has handed to it, no other.
THEOREM CountsConnections == Spec => []CountExact
<1>1. IInv => CountExact
  BY DEF IInv, OpenCounted, JobsHandedOver, CountExact
<1> QED
  BY <1>1, Invariance, PTL

\* Who is cut off by the end of the loop was counted after a stop had scheduled it,
\* and that stop came before the listener was set up or while libevent was in its
\* callback, be it at any instruction; or memory had run out.
THEOREM CutsOffNobody == Spec => []NoneCutOff
<1>1. IInv => NoneCutOff
  BY DEF IInv
<1> QED
  BY <1>1, Invariance, PTL

\* While the loop runs the timer that polls the flag is pending, or the exit is.
THEOREM PollsTheStop == Spec => []StopIsPolled
<1>1. IInv => StopIsPolled
  BY DEF IInv
<1> QED
  BY <1>1, Invariance, PTL

\* Within the worker too a client has one owner.
THEOREM OneOwner == Spec => []Pool!ExclusiveOwner
<1>1. Facts!ExclusiveOwner => Pool!ExclusiveOwner
  BY SamePool DEF Facts!ExclusiveOwner, Pool!ExclusiveOwner, Facts!Owned, Pool!Owned,
                  Facts!Queued, Pool!Queued, Facts!Range, Pool!Range,
                  Facts!IsInjective, Pool!IsInjective
<1>2. IInv => Pool!ExclusiveOwner
  BY <1>1 DEF IInv, PoolInv, Facts!OwnerInv
<1> QED
  BY <1>2, Invariance, PTL
===============================================================================
