# A verification of nsca_fast in TLA+

nsca_fast receives passive check results from `send_nsca` clients, decrypts
them on a pool of threads, and passes them to a monitoring core through its
command FIFO or its spool directory. This directory models the parts of it
where order, concurrency and failure matter, checks the models with TLC on
small instances, and proves the most important results with TLAPS for
instances of every size.

Paths below are relative to `src/`.

## The system

A main process (`main.cpp`, `processManager.cpp`) forks `nsca_workers` worker
processes and restarts those that die. Each worker (`network.cpp`) runs one
libevent loop on its network thread, which accepts connections
(`network_client.cpp`), and `nsca_threads_per_worker` crypt threads
(`threadManager.cpp`, `crypt_thread_t.cpp`). When a connection closes, its
packets become one job of one crypt thread, which decrypts and checks them and
writes the messages to the thread's FIFO client (`fifo_client.cpp`) or, when
that fails, to the spool (`result_path_client.cpp`).

| component | state | operations | interacts by | what is hard | what makes it correct |
|---|---|---|---|---|---|
| process manager | slots with pid and state, `workers_running`, `shutdown_requested`, the wait counter | `runWorkers`, `startChild`, `loop`, handlers of SIGCHLD, SIGTERM/SIGINT, SIGUSR1, `killChilds` | fork, signals, wait | handlers between any two statements, crashes while forking, `kill(0, ..)` | never too many workers, every live child has a slot, a shutdown ends and leaves nobody behind |
| event loop of a worker | `ev_base`, listener, timer, `shutdown_requested`, `connections` | `run`, `listener_proxy`, `timer_proxy`, `stop`, `sigint` | callbacks, `add_job`, signal handler | `stop()` in a handler, teardown before join | the count of connections is exact, a stop ends the loop, nobody is cut off |
| connection | input buffer, `bytes_received`, `bytes_drained`, packets, IV and crypt instance | `take_variables`, `readcb`, `writecb`, `eventcb`, `connection_closed`, `proper_destroy` | libevent, peer, `network::connections`, the pool | bytes cut anywhere, timeouts, failed allocations | every whole packet is handed over, one end, one discount |
| crypt threads | per thread a queue, a mutex, a condition variable, a flag; the round robin counter | `start`, `add_job`, `add`, `join`, `loop` | queue, condition variable | lost wakeups, shutdown with jobs queued | no job sleeps unnoticed, one owner per client |
| message delivery | cipher stream state, success and failure counts | `process_queue_*`, `send_receive_message`, `report_success_failed` | FIFO client, spool | shared crypt instances, a bad packet in the middle | the good prefix of each connection is delivered once |
| command FIFO | `fd`, `fp`, `block_fifo_until` | `init_events`, `command` | the core's FIFO | the FIFO comes and goes, partial writes | it is used again when it is back |
| spool writer | the process umask, `write_enabled` | `write_result` | the file system | each system call may fail | what is reported as saved is saved |
| spool watch | the file count, the watch, the inode, `write_enabled` | `check`, `watch_directory`, `unwatch_directory`, `count_files`, `event_received` | inotify, timer | the count drifts, the directory is replaced, events of an old watch | the count is that of the watch there is, the watch follows the path, the cap holds |
| statistics | message counter, connection counter, ring of rates, the file | `report_success_failed`, `timer_proxy`, `save_statistics`, `save_stats` | timer, crypt threads, the umask | lost updates, late ticks | counts are never ahead of what was handled, the ring is that of the last seconds |
| configuration | key and value map | `read_config`, `Set`, `check_config` | read at start only | two sets of defaults, limits | what is used lies within the limits |
| program start | the lock, the pid file | `main`, `mainloop`, `writepid`, `lock` | files, the daemons started before and after | workers hold the lock too, in whatever order processes end | one daemon per file that `argv[0]` names |
| cryptography, CRC, logging, packaging | none that is shared | | | | |

## The modules

| module | models | state and actions |
|---|---|---|
| `JobPool` | abstract: what the pool promises | lanes, jobs, `Submit`, `Start`, `Finish`, `Close`, `Leave` |
| `CryptPool` | `threadManager.cpp`, `crypt_thread_t.cpp` | one action per critical section; `tpc[t]` is where thread `t` is in `loop`, `mpc` and `mi` where the network thread is in `start`, `add` and `join` |
| `CryptPoolProofs` | theorems about `CryptPool` | |
| `Connection` | abstract: the life of a client as the worker sees it | `Accept`, `HandOver`, `Vanish`, `Refuse` |
| `NetworkClient` | `network_client.cpp` up to the hand-over | each libevent callback is one action per way through it; the crypt instance (`CI`, `network_CI`, `thread_CI`, `has_own_CI`) and the pointer to the IV move as in the code, in all modes |
| `NetworkClientProofs` | theorems about `NetworkClient` | |
| `Worker` | `network.cpp`, `processManager::work` | composes the connections' lives with an instance of `CryptPool`; the SIGUSR1 handler interleaves with every step of the network thread; `dispatched` is libevent between its look at the listener and the end of its callback |
| `ProcessManager` | `processManager.cpp`, `mainloop` | the main process between any two points where a handler may run; a worker as a process with a state |
| `Delivery` | `process_queue*`, `send_receive_message`, `fifo_client.cpp`, `write_result`, for one thread | `pc` is where the thread is with the message at hand |
| `ResultPath` | the rest of `result_path_client.cpp` | `npc` is where the network thread is in `check` and `watch_directory`; `watched` and `queue` are the kernel's watch and its events; the directory at the path is `"here"`, one that is still watched after it left the path `"old"` |
| `Statistics` | `report_success_failed`, the umask of `write_result`, the counters of `timer_proxy`, `save_stats` | `tpc[t]` is where thread `t` is in `process_queue`; the addition to the counter is a read and a write |
| `Startup` | `main.cpp`, `config.cpp`, the reads of the settings | `main` is where the main process is, `worker` one of its workers; `data` is the map |
| `Daemons` | `lock`, the descriptor that processes inherit and close, the starts after a daemon | extends `ProcessManager`, each step of which moves the descriptors (`holders`) along; `LaterStart` gets past `lock()` when the lock is free |
| `ResultPathProofs`, `StartupProofs`, `DaemonsProofs` | theorems about the modules above; `StartupProofs` is about `Statistics` too | |
| `WorkerProofs`, `ProcessManagerProofs`, `DeliveryProofs` | theorems about `Worker`, `ProcessManager` and `Delivery` | |

`Worker` is built from `CryptPool` itself (`Pool == INSTANCE CryptPool`):
handing over a connection is `Pool!AddJob`, the end of `work()` is
`Pool!BeginJoin` and the steps of the join. `NetworkClient` implements
`Connection`, whose four steps are what `Worker` does to a client, and
`CryptPool` implements `JobPool`. `Delivery` is what `CryptPool!Work` stands
for. `Startup` extends `Statistics`: a start ends in a worker that read its
number of threads from the map, and from there on the steps are those of
`Statistics` (`Serve`); the map is dropped then, since nobody reads it again.
`ResultPath` is what sets the switch that `Delivery` lets change at any tick.
`Daemons` extends `ProcessManager`: a step of the daemon is one of
`ProcessManager` (`DaemonStep`), and the kernel notes who is born with the descriptor
of the lock and who dies with it. `ProcessManager` sees a worker as boot, armed, guarded, ready, up,
stopping; `Worker` is the inside of ready, up and stopping.

### Points of granularity

* A mutex is held across steps only between the predicate of `cv.wait` and the
  block; that is the step `Doze`. `add()` is two steps, because it notifies
  after the unlock. `join()` is three: flag, notification, `std::thread::join`.
* libevent calls one callback at a time on the network thread, so a callback is
  one step unless a signal handler can see its middle. A new connection is three
  steps for that reason: libevent begins with the event of the listener
  (`Dispatch`), the kernel's `accept` returns (`Accept`), the connection is counted
  (`CountConnection`, or
  `RefuseConnection` after a failed allocation). A stop may come before each; libevent looks
  at the listener only before the first, and again before the next `accept` of
  the same event (`AcceptsAgain`).
* `startChild` is four steps after the fork, because SIGCHLD and SIGTERM may
  come between the assignments.
* `watch_directory` is three steps (listing, `inotify_add_watch`, `stat`),
  because others change the directory in between; the network thread does
  nothing else meanwhile. Events are read one at a time: a batch is several
  such steps in a row. The buffer of `readcb` (4224 bytes) holds all that
  libevent reads at once.
* `write_result` is three steps in `Statistics` (umask set, `.ok` file made, umask
  put back) and any of its failures is a way from the first to the last.
* A step of `Delivery` is one call (the checks, `command`, `write_result`); the
  timer and the core move between the calls.

### What is external

libevent, the kernel (processes, signals, the death signal, inotify and the file
system of the spool), condition variables, the `send_nsca` client, and the monitoring core with its FIFO. They
are modelled from how the code uses them; `PROJECT.json` marks them external.
Five facts about them matter: libevent reads at most 4096 bytes per callback,
which is less than the 4304 of a packet (`SizesAssumption`). It tests a listener
before its event, not between its own `accept` and the callback. The kernel
clears `PR_SET_PDEATHSIG` when the credentials of a process change. inotify
puts `IN_IGNORED` last when a watch ends, and drops any event, this one too, that
finds the queue full. A `flock` belongs to the open file description and is on the file that was opened:
it lasts until every process that inherited the descriptor has closed it, and says
nothing about another file.

## The runs

| run | question | bounds | result |
|---|---|---|---|
| `crypt_pool` | is every job handled by one thread, is no wakeup lost, does the pool keep its promise | 2 threads, 3 clients | holds |
| `crypt_pool_join` | does `join()` come back | 1 thread, 1 client | **violated** |
| `network_client` | is every whole packet handed over with the right IV, whatever the cuts | packets of 4 bytes, old ones of 2, reads of up to 3, at most 13 bytes, limit 1 | holds |
| `network_client_old` | are old clients served | as above, one packet | **violated** |
| `worker` | is the count exact, does a stop end the loop, is nobody cut off | 1 thread, 2 clients | holds |
| `worker_uninit` | is the network idle when it is torn down | 1 thread, 1 client | **violated** |
| `process_manager` | restarts and shutdown, and is a later start refused while any process is left | 2 workers, 3 pids, 2 rounds of waiting, 2 SIGTERMs | holds |
| `runaways` | do workers go when the main process does | 2 workers, 2 pids | **violated** |
| `delivery` | is the good prefix delivered once, is the FIFO used again | connections of up to 2 packets, blocks of 3, 2, 1 ticks | holds |
| `result_path` | is the count that of the watch, does the watch follow the path, does the cap hold | cap 2, up to 3 files, a queue of 3 events, 1 file that no event tells of | holds |
| `startup` | are the settings used within their limits, what do threads without a lock do to umask, counter and ring | 2 lines of the file, every value next to a limit, 2 threads, 2 messages with counts cut at 2, 2 connections, a ring of 3 | holds |
| `delivery_lost` | is what counts as success saved | 1 packet | **violated** |

Why the bounds are enough: two crypt threads show every relation between
threads, three clients put two jobs into one queue; 13 bytes are three packets and a
rest, so that the limit of one packet is exceeded and a rest is left in every
position; three pids give two workers and one restart, which may die too; two
packets show the state that the first leaves for the second, and since jobs
repeat without bound, the state one connection leaves for the next. Blocks
count down in ticks, so that no bound on time is needed. With three files and a
cap of two the spool is below, at and above the cap; a queue of three holds the
last event of a watch behind two that are stale, and is full often; the
directory may be replaced without bound. Two lines are a setting and the one it
conflicts with, or two values of one setting; `Edges` puts a value on both sides
of each limit. A cut at 2 stands for the cut at 2^16, a ring of 3 for the ring of
5: with it a late tick may skip any bucket.

### What the violated runs show

* `JoinReturns`: the flag is set and the condition notified without the mutex
  (`crypt_thread_t.cpp:24-25`). `JoinReturnsOrSleeps` holds: this is the only way to
  hang.
* `OldClientsServed`: `bytes_received` counts bytes again that stay in the
  buffer (`network_client.cpp:251`), so an old packet in two segments is not
  recognised.
* `NotNeededAfterUninit`: the connection is discounted before it becomes a
  job, `stop()` does not wait for jobs, and the network is deleted before the
  pool is joined (`processManager.cpp:146-149`).
* `NoRunaways`: the death signal is set before the credentials change
  (`processManager.cpp:116-118`).
* `SuccessMeansSaved`: failures of `write_result` after the file was made do
  not reach its return code.

### Corners the properties leave out on purpose

Each is a disjunct in the property that names it, and a behaviour of the code:

* `NoneCutOff` excepts a SIGUSR1 that is handled before the listener exists, or
  between libevent's look at the listener and the count of the connection: the
  handler finds no connection, schedules the exit, and the connection that comes
  after it (`unseen`) is cut off a second later. It also excepts a loop that was
  broken off because no bufferevent could be allocated (`network_client.cpp:105`).
* `GoodPrefixProcessed` says of each packet before the first bad one that it is
  `Acceptable`, which is what the checks should accept, or `AgeOverflows`: with the age
  check enabled, a timestamp 2^31 s or more ahead of now is passed on, because the age
  is cut to an `int` (`network_client.cpp:347`) and comes out negative, where the log
  says that such packets are dropped (353).
* `DeadWorkerReplaced` is about recorded workers: one that dies before its pid
  is stored is never replaced.
* `EveryPacketHandedOver` and `NoPacketLeftBehind` except a failed `calloc` in
  `readcb`, after which a packet may stay in the buffer.
* `FifoIsUsedAgain` excepts a failed `fdopen`, after which the FIFO is never
  opened again.
* `WatchFollowsPath` excepts `WrongInode` (the directory was replaced between
  `inotify_add_watch` and `stat`, `result_path_client.cpp:136`) and `LastEventLost`
  (the queue was full when the watch ended); in both the worker stays deaf while
  the path is what it is. It is about workers that read events (`Serving`): without
  a bufferevent (`result_path_client.cpp:180`) the count stands still.
* `SwitchFollowsFiles` is about a worker that knows of all files. Files that are
  renamed into or out of the spool, or come between the listing and the watch, are
  missed until the next listing; `unseen` counts them, and nothing bounds it.
  Inode numbers are taken to differ; the code compares no device.
* `UmaskPutBack` excepts two threads in `write_result` at once. Then a `.ok` file
  may be open to others, and the process may keep 077 for good, which the
  statistics file shows when it is made.
* `CountNeverAhead` excepts counts that were cut and threads that added at once;
  the counter may even go back.
* `RingIsLastRound` is about ticks in time. After a late one an old bucket stays in
  the sum, and if bucket 0 is skipped nothing is saved in that round.
* `UsedInRange` says nothing about which default is used, because the code has
  two: unset, `nsca_threads_per_worker` is logged as 4 and used as 0,
  `max_checks_per_connection` logged as 500 and used as 1 (`config.cpp:183-184`,
  `network.cpp:52-53`), and `decryption_mode`, "default is 1" (`README.md:72`), is
  used as 0 (`network.cpp:54`).
* `OneDaemonPerFile` is about later starts of the same file. The lock is on what
  `argv[0]` names (`processManager.cpp:371`): a copy of the binary, or the one that
  replaced it, is another file, both daemons get their locks and the later one takes
  the pid file. No document promises more. With one file it holds because
  workers hold the lock too; by the same token a daemon cannot be started while
  runaway workers of the one before are alive.
* `JobsAreHandled` excepts a thread that was told to stop: the jobs that wait in
  its queue then are dropped, all or all but one.

## Fairness

* `CryptPool`, `Worker`: each crypt thread and the network thread run (weak
  fairness of their own steps); a spurious wakeup need never come, nobody need
  connect. A connection ends in the end, by its peer or by the read timeout of
  8 s; a peer that sends a byte every few seconds for ever is thereby left out.
* `ProcessManager`: the processes run, a pending SIGCHLD is delivered, and
  `fork` does not fail for ever (strong fairness, since a failing fork is tried
  again each second).
* `Delivery`: the thread runs and the timer ticks; connections need not come.
* `ResultPath`: the timer ticks, the loop reads events, the calls of
  `watch_directory` return, and `inotify_add_watch` does not fail for ever (strong
  fairness, since a failing one is tried again each second). Nobody need touch the
  spool.
* `Daemons`: that of `ProcessManager`; nobody need start the program again.
* `Statistics`, `Startup`: none; their properties are invariants.

Deadlock is not checked in any run, because each of these systems may stop: the
pool is joined, a connection ends, the processes are gone; and a hang that the
code does not rule out (`join`) is a property of its own.

## The proofs

Assumptions are the named ASSUMEs of the modules, which the runs evaluate. Every
invariant that a passing run checks is also the consequent of a theorem. Each proof module states its inductive invariant (`IInv`), a
lemma per action or kind of action, and the theorems.

### The crypt threads and the worker

`CryptPoolProofs`, for any number of threads and clients:

* `TypeCorrect` - `TypeOK` is inductive.
* `NoJobSleepsUnnoticed` - `NoLostJobWakeup`, strengthened by: nobody sits
  between predicate and block with a job in the queue. That is what the mutex
  is for, and `MutexFree` in `AddJob` is the fact that carries the proof.
* `RoundRobinBalanced` - `Balanced`, strengthened by the exact counts: the
  threads before the counter have one job more than those from it on.
* `OneOwner` - `ExclusiveOwner`, strengthened by: a thread at work has a client.
  It rests on two lemmas about the range of a queue after a push and a pop.
* `KeepsPromise` - the safety part of `ImplementsJobPool`: the initial states of
  `CryptPool` are initial states of `JobPool`, and each step is a step of `JobPool`
  or hidden from it. `AddIsSubmit`, `RequestIsClose`, `TakeIsStart`, `WorkIsFinish`
  and `LeaveIsLeave` name the step each action stands for, `Hidden` is for the
  rest. It needs `PromiseInv`: a thread has a client in its hands exactly
  while it works, `join` tells the threads to stop in order, `start` creates them in
  order; without the second no lane is known to be open when a job is submitted.

`WorkerProofs`, for any number of crypt threads and clients. The pool of a worker is
an instance of `CryptPool`, so its facts are not proved again: `PoolStep` shows that
each step of the worker is a step of its pool or leaves the pool alone, and the
lemmas of `CryptPoolProofs` apply to it (`Facts`, which needs the assumptions
`Worker` repeats from `CryptPool`).

* `RunsThePool` - that, as a theorem about behaviours, and `OneOwner` for the pool in
  the worker, whatever signals and teardown come between.
* `TypeCorrect`, `CountsConnections`, `CutsOffNobody`, `PollsTheStop` - `TypeOK`,
  `CountExact`, `NoneCutOff`, `StopIsPolled`. `IInv` joins them with: the client
  in `listener_proxy` is not counted yet and the listener's event is being handled
  (`AcceptingUncounted`); a client is a job of the pool exactly
  when the worker handed it over; the open connections are finitely many (an
  invariant, so there may be infinitely many clients); `ExitDeserted`: an exit
  that was scheduled by somebody who could see everything finds no connection, no
  event of the listener being handled, and no listener that could bring one; and
  `OpenUnseen`: once the exit is scheduled all that are open were counted later, which
  happens only to a stop that was blind. From these `NoneCutOff` follows when the
  loop is left. The `dispatched` of `ExitDeserted` is essential: a
  disabled listener alone does not keep the next connection out.

### Connections and messages

`NetworkClientProofs`, for packets, reads and limits of any size, from
`SizesAssumption` and `BoundsAssumption`. Its `IInv` is `TypeOK`,
`NoPacketLeftBehind` and `HoldsAtMost` with four facts they need:
`CountedWhileOpen` (the count is 1 exactly while the client is open: without it
no discount is known to stay at zero or above), `UnreadWhileNew` (nothing is
read before the client is accepted), `DrainedInPackets` (with nothing drained there is no
packet yet, so that the old packet `eventcb` appends is the first) and
`IvFollowsMode` (until it is closed a client has the instance of the network or
none, a job of the mode with own instances has one of its own, and what a thread
processes has the instance of the mode, whichever way it came by).

* `TypeCorrect` - `TypeOK`.
* `NothingLeftBehind` - `NoPacketLeftBehind`; the fact that carries it is
  `MaxRead <= PacketLength`.
* `BoundedHold` - `HoldsAtMost`.
* `RightIv` - `DecryptsWithTheIvSent`: the instance is set by `take_variables`, by
  `connection_closed` or by the thread (`TakeStep`), and none undoes another, which
  rests on the `has_own_CI` that `set_CI` looks at.
* `Implements` - every behaviour of `NetworkClient` is one of `Connection`
  (`ImplementsConnection`): the initial states map, and `LifeStep` shows that
  each action is a step of the abstract life or leaves it alone.
* `NoPacketLost` - `EveryPacketHandedOver`, strengthened by `BytesAccounted`: until the
  end, what was sent is in the socket, in the buffer or in packets, and the packets are
  whole. At EOF the socket is empty and less than a packet is in the buffer
  (`NoPacketLeftBehind`), so the number of packets is the quotient (`WholePackets`).

`DeliveryProofs`, for connections of any length and any blocking times, from
`PacketsAssumption` and `BlockAssumption`. `IInv` says where a thread stands in its
job: what is left is the end of the job (`RestOfJob`), the saved stream state is
that of the next packet (`StateInStep`, which is what makes a shared crypt instance
safe), what was passed is acceptable or the one packet whose age overflows (`PassedAreGood`), each packet done with is
counted once (`EachCounted`), and no message is anywhere before its first outlet is
tried (`NoCopyYet`).

* `TypeCorrect`, `OneOutlet`, `SavedIsSuccess`, `GoodPrefix` - `TypeOK`, `DeliveredOnce`,
  `FailedMeansUndelivered`, `GoodPrefixProcessed`.

### The process manager

`ProcessManagerProofs`, for any number of workers and process ids, and any patience
of at least one round (`BoundsAssumption`; the code's is 15, and with 0 `loop()` would
count past it before it looks). `IInv` is the bookkeeping: from `fork()` to the
store of its pid a child is known by `forked` alone (`ForkInHand`), a slot runs exactly
while it has a pid or is about to get one (`RunningHasPid`), no two slots have one
pid (`PidsDiffer`), each live child has a slot or is the one in hand (`ChildHasSlot`),
and the count is that of the slots, less the one whose turn it is (`CountFollows`).

* `TypeCorrect` - `TypeOK`.
* `NeverTooMany` - `WorkersBounded`, by counting: `OneSlotEach` maps each live worker to
  a slot of its own, the one in hand to the slot that waits for its pid, and there are
  `MaxWorker` slots. When the main process is gone nobody forks.
* `CountsRight`, `ChildrenKnown`, `LeavesNobody` - `CountAgrees`, `EveryChildKnown`,
  `FinishesAlone`. The last is not a consequence of the books: it is in `IInv` itself,
  and its step is the look at `workers_running` before `loop()` returns.

### Start, settings and statistics

`StartupProofs` is first about `Statistics` alone, for any number of threads, any size
of the ring and any width of the counts, from `SizeAssumption`. Its `IInv` is `TypeOK` with `UmaskTold` (as long as no two threads
overlapped at most one is inside `write_result`, every saved umask is the public
one, and the umask tells whether somebody is inside: without the second fact
`PutBack` is not known to restore it), `SumsBounded` and `SumsExact` (a thread
about to write the counter writes no more than the jobs handled, and just that
while nothing was lost).

* `TypeCorrect` - `TypeOK`.
* `UmaskAlwaysPutBack` - `UmaskPutBack`; that a worker without crypt threads
  never saves a private file rests on `AtLiberty`, since its timer is its writer.
* `CountsHonest` - `CountNeverAhead`. It needs that the rest of a division is not
  above the number (`RestBounded`), which is why a cut can lose a count and never add.
* `RingRight` - `RingIsLastRound`, strengthened by `RingTold`: whatever the number of
  punctual ticks so far, each bucket they wrote holds the connections from its base
  to that of the next one, and together they hold those since the oldest base. The
  first half is what tells, at the tick that overwrites the oldest bucket, how
  much leaves the sum (`RoundGoesOn`). `SumFollows` says how a sum changes with one
  of its numbers. It is about a fold, and the induction it needs is made without
  the library's induction rules: if it were false of some set it would be of a
  smallest one (`SmallestSet`, from `WFMin`), and of that it is true.

Then it is about `Startup`, for a file of any length and the same parameters:

* `SettingsInRange` - `UsedInRange`, strengthened by `Settled`: the settings stay good
  until the network has read them, and the options that were given are in the map.
  `DefaultsValid` is the fact about the two sets of defaults.
* `StartedWorker` - `UmaskPutBack`, `CountNeverAhead` and `RingIsLastRound` for the worker of a start:
  until it serves nothing of it has moved (`Fresh`), the number of threads it
  reads is one it may have (`Settled`), and from there on `NextKeeps` and `RingKept`
  of the first part apply.
* `StartTypeCorrect` - `StartupTypeOK`, from both invariants: the map stays one of
  integers (`SetOfIntegers`), and a worker is made with threads it may have.

### The lock

`DaemonsProofs`, for any number of workers and process ids. `DaemonWithin` shows that a
step with the lock is a step of `ProcessManager` or leaves it alone, so that the
invariant and the lemmas of `ProcessManagerProofs` apply. `LockInv` joins
`DaemonTypeOK` with `LiveHold` (the main process and every live worker have the
descriptor) and `LockKept` (while anybody has it the daemon has the lock). They are
needed together: `OneDaemonPerFile` alone says nothing of a child that is yet to be
forked. `NoRevival` is the fact about the processes: who is alive was alive, or was
born of a living main process, and that one has the descriptor to pass on.

* `RunsTheDaemon` - every behaviour of `Daemons` is one of `ProcessManager`, so that the
  theorems about it hold here, where the run checks their properties.
* `DaemonTypeCorrect` - `DaemonTypeOK`.
* `OneAtWork` - `OneDaemonPerFile` (`KeptApart`).

### The spool watch

`ResultPathProofs`, for any cap, directories and length of the kernel's queue,
from `BoundsAssumption`:

* `CountAlwaysTracks` - `CountTracks`, strengthened by `WatchPlaced` (a worker that
  holds itself without a watch has none and no event of one waits, so a listing
  is never met by events of the watch before) and `EndsLast` (the end of a watch
  is its last event). `CountAppended` and `CountInTail` say how the number of
  events of a kind changes when one joins and when one is read.
* `TypeCorrect` - `TypeOK`. That the count is bounded does not follow from `CountTracks`,
  which is about the count after all events and only while there is a watch.
  `Foreseen` is the invariant: there is a sequence of bounded counts, the first the
  count as it is, each next one what a waiting event makes of it, the last that of
  the watched directory. An event that joins extends it (`OneMoreForeseen`), one that
  is read shortens it (`OneLessForeseen`).

### What is only model-checked

Liveness, ENABLED and what depends on fairness: `JobsAreHandled`,
`JoinReturnsOrSleeps`, `StopEndsLoop`, `ShutdownEnds`, `DeadWorkerReplaced`,
`FifoIsUsedAgain`, `WatchFollowsPath`, `SwitchFollowsFiles`, and the fairness in
`ImplementsJobPool`.

## What is not modelled

* The arithmetic of the CRC and the ciphers, and logging: they are sequential, and
  what the rest depends on of them (good packets are told from bad ones, which IV
  is used) is in the models.
* How `read_config` cuts a line. Three corners of it: only the last `#` of a line
  begins a comment, blanks around `=` become part of the key and of the value, so
  that `key = v` is an unknown key, and `key=` is ignored without a word.
* `devnull_output`, and the signals of a daemon whose only worker is the main
  process between the handlers of `mainloop` and those of libevent.
* The build without `WORKERS_ENABLED` (no `SO_REUSEPORT`), where `check_config` sets
  one worker.
* `stat_writer::cleanup`, which removes the statistics file when a worker ends.
* `result_path_writer.cpp` is not built.
* Data races on `cnow` are undefined behaviour that no property here is about.

## The plan

No safety property that a passing run checks is left without a theorem. What is left
is in the models: the removal of the statistics file when a worker ends, against the
`save_stats` of the worker that replaces it.
