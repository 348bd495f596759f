----------------------------- MODULE Statistics ------------------------------
(* What the crypt threads of one worker and its network thread share with no *)
(* lock: the umask of the process, which write_result sets and puts back;    *)
(* the message counter, which process_queue adds to; and the statistics file *)
(* the timer writes from them, with the rate of connections it keeps in a    *)
(* ring of one bucket per second.                                            *)
(*                                                                           *)
(* With no crypt threads the network thread does their work, as thread 0,    *)
(* and its timer waits meanwhile.                                            *)
EXTENDS Integers, Functions

CONSTANTS
  MaxThreads,        \* bound: nsca_threads_per_worker
  RPS_RESOLUTION,    \* buckets of the ring
  Wrap,              \* 2^16: the counts of a job are passed as uint16_t
  MaxReported,       \* bound: messages handled
  MaxCounter         \* bound: connections accepted

ASSUME SizeAssumption ==
  /\ MaxThreads \in Nat /\ MaxReported \in Nat /\ MaxCounter \in Nat
  /\ RPS_RESOLUTION \in Nat \ {0} /\ Wrap \in Nat \ {0}

VARIABLES
  threads,           \* nsca_threads_per_worker as the network read it
  tpc,               \* where each thread is in process_queue
  umask,             \* of the process: "public", as it began, or "private"
  old_umask,         \* write_result's, of each thread
  overlapped,        \* two threads were in write_result at once (history)
  exposed,           \* a .ok file was made with the public umask (history)
  statfile,          \* the mode of the statistics file, or "none"
  message_success,
  register,          \* what each thread read of message_success
  adding,            \* what it will add
  reported,          \* messages that the jobs counted (history)
  lossy,             \* a count was cut, or two threads added at once (history)
  now,               \* the second of the last tick, modulo RPS_RESOLUTION
  counter, counter_prev, counter_rps,
  base,              \* per bucket, the counter one tick before it was written
                     \* (history)
  punctual           \* ticks in a row that came in the next second (history)

umaskVars == <<umask, old_umask, overlapped, exposed>>
countVars == <<message_success, register, adding, reported, lossy>>
rateVars == <<counter, counter_prev, counter_rps, base, punctual, now>>
vars == <<threads, tpc, umaskVars, statfile, countVars, rateVars>>

Ids == 0..MaxThreads
Actors == IF threads = 0 THEN {0} ELSE 1..threads
Buckets == 0..(RPS_RESOLUTION - 1)

\* A new worker, with n crypt threads.
InitWith(n) ==
  /\ threads = n
  /\ tpc = [t \in Ids |-> "queue"]
  /\ umask = "public" /\ old_umask = [t \in Ids |-> "public"]
  /\ overlapped = FALSE /\ exposed = FALSE
  /\ statfile = "none"
  /\ message_success = 0 /\ reported = 0 /\ lossy = FALSE
  /\ register = [t \in Ids |-> 0] /\ adding = [t \in Ids |-> 0]
  /\ now = 0
  /\ counter = 0 /\ counter_prev = 0
  /\ counter_rps = [b \in Buckets |-> 0] /\ base = [b \in Buckets |-> 0]
  /\ punctual = 0

Init == \E n \in 0..MaxThreads: InitWith(n)

-----------------------------------------------------------------------------
(* process_queue, in thread t *)

Inside(t) == tpc[t] \in {"masked", "made"}

\* write_result: old_umask = umask(077).
Mask(t) ==
  /\ t \in Actors /\ tpc[t] = "queue"
  /\ tpc' = [tpc EXCEPT ![t] = "masked"]
  /\ old_umask' = [old_umask EXCEPT ![t] = umask]
  /\ umask' = "private"
  /\ overlapped' = (overlapped \/ \E u \in Actors: Inside(u))
  /\ UNCHANGED <<threads, exposed, statfile, countVars, rateVars>>

\* The result is written, and its .ok file is made, with what the umask is by
\* now. (The mode of mkstemp does not depend on it.)
MakeOk(t) ==
  /\ t \in Actors /\ tpc[t] = "masked"
  /\ tpc' = [tpc EXCEPT ![t] = "made"]
  /\ exposed' = (exposed \/ umask = "public")
  /\ UNCHANGED <<threads, umask, old_umask, overlapped, statfile, countVars, rateVars>>

\* Fault: write_result returns where it fails, and not by writer_cleanup.
ReturnAtOnce(t) == umask' = IF tpc[t] = "masked" THEN umask ELSE old_umask[t]

\* writer_cleanup, which every way out of write_result passes.
PutBack(t) == umask' = old_umask[t]

Restore(t) ==
  /\ t \in Actors /\ Inside(t)
  /\ tpc' = [tpc EXCEPT ![t] = "queue"]
  /\ old_umask' = [old_umask EXCEPT ![t] = "public"]
  /\ PutBack(t)
  /\ UNCHANGED <<threads, overlapped, exposed, statfile, countVars, rateVars>>

\* The end of process_queue, with n successful messages: the argument is cut,
\* nothing is added of zero, and the counter is read ...
ReadCount(t) ==
  /\ t \in Actors /\ tpc[t] = "queue"
  /\ \E n \in 1..(MaxReported - reported):
       /\ reported' = reported + n
       /\ adding' = [adding EXCEPT ![t] = n % Wrap]
       /\ IF n % Wrap = 0
            THEN lossy' = TRUE /\ UNCHANGED <<tpc, register>>
            ELSE /\ lossy' = (lossy \/ n > Wrap \/ \E u \in Actors: tpc[u] = "add")
                 /\ tpc' = [tpc EXCEPT ![t] = "add"]
                 /\ register' = [register EXCEPT ![t] = message_success]
  /\ UNCHANGED <<threads, umaskVars, statfile, message_success, rateVars>>

\* Fault: the counter is set to the count of the last job.
LastJobOnly(t) == adding[t]

Total(t) == register[t] + adding[t]

\* ... and written.
WriteCount(t) ==
  /\ t \in Actors /\ tpc[t] = "add"
  /\ tpc' = [tpc EXCEPT ![t] = "queue"]
  /\ message_success' = Total(t)
  /\ register' = [register EXCEPT ![t] = 0]
  /\ adding' = [adding EXCEPT ![t] = 0]
  /\ UNCHANGED <<threads, umaskVars, statfile, reported, lossy, rateVars>>

-----------------------------------------------------------------------------
(* The network thread *)

AtLiberty == threads = 0 => tpc[0] = "queue"

\* take_variables.
TakeConnection ==
  /\ AtLiberty
  /\ counter < MaxCounter
  /\ counter' = counter + 1
  /\ UNCHANGED <<threads, tpc, umaskVars, statfile, countVars, counter_prev,
                 counter_rps, base, punctual, now>>

\* Fault: the counter of the tick before is not replaced.
PrevKept == counter_prev

PrevAfter == counter

\* Fault: the seconds are not taken modulo the size of the ring.
SecondOf(late) == now + 1 + late

BucketOf(late) == (now + 1 + late) % RPS_RESOLUTION

\* save_stats: the file is made with the umask there is, or was made before, or
\* cannot be opened.
SaveStats == statfile' \in IF statfile = "none" THEN {"none", umask} ELSE {statfile}

\* timer_proxy, in the next second or one too late: the bucket of that second
\* is written, and in the first second of each round the statistics are saved.
Tick ==
  /\ AtLiberty
  /\ \E late \in {0, 1}:
       /\ now' = BucketOf(late)
       /\ punctual' = IF late > 0 THEN 0
                      ELSE IF punctual < RPS_RESOLUTION THEN punctual + 1
                      ELSE punctual
  /\ counter_rps' = [counter_rps EXCEPT ![now'] = counter - counter_prev]
  /\ base' = [base EXCEPT ![now'] = counter_prev]
  /\ counter_prev' = PrevAfter
  /\ IF now' = 0 THEN SaveStats ELSE UNCHANGED statfile
  /\ UNCHANGED <<threads, tpc, umaskVars, countVars, counter>>

-----------------------------------------------------------------------------
Next ==
  \/ \E t \in Ids: Mask(t) \/ MakeOk(t) \/ Restore(t) \/ ReadCount(t) \/ WriteCount(t)
  \/ TakeConnection
  \/ Tick

Spec == Init /\ [][Next]_vars

-----------------------------------------------------------------------------
(* Properties *)

\* The variables keep their types, and no thread that does not exist moves.
TypeOK ==
  /\ threads \in 0..MaxThreads
  /\ tpc \in [Ids -> {"queue", "masked", "made", "add"}]
  /\ \A t \in Ids \ Actors: tpc[t] = "queue"
  /\ umask \in {"public", "private"} /\ old_umask \in [Ids -> {"public", "private"}]
  /\ overlapped \in BOOLEAN /\ exposed \in BOOLEAN /\ lossy \in BOOLEAN
  /\ statfile \in {"none", "public", "private"}
  /\ message_success \in 0..MaxReported /\ reported \in 0..MaxReported
  /\ register \in [Ids -> 0..MaxReported] /\ adding \in [Ids -> 0..MaxReported]
  /\ now \in Buckets /\ punctual \in 0..RPS_RESOLUTION
  /\ counter \in 0..MaxCounter /\ counter_prev \in 0..counter
  /\ counter_rps \in [Buckets -> 0..MaxCounter] /\ base \in [Buckets -> 0..MaxCounter]

\* The umask is put back on every way out of write_result, and no file of the
\* spool is open to others, as long as no two threads were in it at once; and
\* a worker without crypt threads saves readable statistics. (Two threads do
\* break it: the second keeps 077 as the umask to put back, for good.)
UmaskPutBack ==
  /\ ~overlapped => /\ ~exposed
                    /\ (\A t \in Actors: ~Inside(t)) => umask = "public"
  /\ threads = 0 => statfile # "private"

\* The message counter is never ahead of the jobs, and agrees with them when no
\* thread is adding, unless a count was cut or two threads added at once.
CountNeverAhead ==
  /\ message_success <= reported
  /\ ~lossy /\ (\A t \in Actors: tpc[t] # "add") => message_success = reported

\* After a whole round of ticks in time the ring holds the connections of just
\* these seconds; a tick that skips a second leaves an old bucket in the sum.
RingIsLastRound ==
  punctual = RPS_RESOLUTION =>
    SumFunction(counter_rps) = counter_prev - base[(now + 1) % RPS_RESOLUTION]
==============================================================================
