---------------------------- MODULE DeliveryProofs ----------------------------
(* Theorems about the way of a message, for connections of any length and    *)
(* any blocking times: the types, that a message goes to one outlet only,    *)
(* that no message which reached the core counts as failed, and that of each *)
(* connection exactly the good prefix is passed on, but for an age that      *)
(* overflows.                                                                *)
EXTENDS Delivery, TLAPS

USE PacketsAssumption, BlockAssumption

-----------------------------------------------------------------------------
(* The inductive invariant *)

\* The packets of the job that the thread is done with.
Passed == Len(job) - Len(data_packets)

\* No packet belongs to an idle thread; a job that starved is only reported.
NoJobWhileIdle ==
  /\ pc = "idle" => job = <<>> /\ data_packets = <<>>
  /\ starved => pc = "report"

\* What is left is the end of the job.
RestOfJob ==
  /\ Len(data_packets) <= Len(job)
  /\ \A k \in 1 .. Len(data_packets): data_packets[k] = job[Passed + k]

\* The saved stream state is the one of the next packet.
StateInStep ==
  mcrypt =>
    /\ pc = "check" /\ Passed > 0 => mcrypt_state = number
    /\ pc \in {"fifo", "spool"} => mcrypt_state = number + 1

\* What the checks let pass: nothing bad but an age that overflows.
LetPass(packet) == Acceptable(packet) \/ AgeOverflows(packet)

\* What was passed on, and what is being passed on, may pass; a connection that
\* ends early ends at a packet that is bad.
PassedAreGood ==
  /\ \A k \in 1 .. Passed: LetPass(job[k])
  /\ pc \in {"fifo", "spool"} =>
       data_packets # <<>> /\ LetPass(Head(data_packets))
  /\ pc = "report" /\ ~starved /\ data_packets # <<>> =>
       ~Acceptable(Head(data_packets))

\* Every packet the thread is done with is counted once.
EachCounted ==
  /\ pc \in {"check", "fifo", "spool"} => d_success + d_failed = Passed
  /\ pc = "report" /\ ~starved =>
       d_success + d_failed = Passed + (IF data_packets = <<>> THEN 0 ELSE 1)

\* A message is written nowhere before its outlet is tried.
NoCopyYet == pc \in {"fifo", "spool"} => copies = 0

\* What holds of the job at hand and its messages, besides their types.
JobInv ==
  /\ NoJobWhileIdle /\ RestOfJob /\ StateInStep
  /\ PassedAreGood /\ EachCounted /\ NoCopyYet
  /\ DeliveredOnce /\ FailedMeansUndelivered

IInv == TypeOK /\ JobInv

\* An idle thread satisfies the invariant.
LEMMA Initial == Init => IInv
<1> SUFFICES ASSUME Init PROVE IInv
  OBVIOUS
<1>1. TypeOK
  <2>1. job \in Seq(Packet) /\ data_packets \in Seq(Packet)
    BY DEF Init
  <2>2. outlets \subseteq {"fifo", "spool"} /\ block \in 0 .. StatBlock
    BY DEF Init
  <2> QED
    BY <2>1, <2>2 DEF Init, TypeOK
<1>2. Len(job) = 0 /\ Len(data_packets) = 0
  BY DEF Init
<1>3. NoJobWhileIdle /\ RestOfJob /\ StateInStep
  BY <1>2 DEF Init, NoJobWhileIdle, RestOfJob, StateInStep
<1>4. PassedAreGood /\ EachCounted /\ NoCopyYet
  BY <1>2 DEF Init, PassedAreGood, EachCounted, NoCopyYet, Passed
<1>5. DeliveredOnce /\ FailedMeansUndelivered
  BY DEF Init, DeliveredOnce, FailedMeansUndelivered
<1> QED
  BY <1>1, <1>3, <1>4, <1>5 DEF IInv, JobInv

-----------------------------------------------------------------------------
(* What the steps have in common *)

\* The head and the tail of what is left of a job.
LEMMA HeadAndTail ==
  ASSUME NEW s \in Seq(Packet), s # <<>>
  PROVE  /\ Head(s) = s[1] /\ Head(s) \in Packet
         /\ Len(s) \in Nat /\ Len(s) > 0
         /\ Tail(s) \in Seq(Packet)
         /\ Len(Tail(s)) = Len(s) - 1
         /\ \A k \in 1 .. Len(Tail(s)): Tail(s)[k] = s[k + 1]
  OBVIOUS

\* Where nothing of the job changes, nothing that is said of it does.
LEMMA JobUntouched ==
  ASSUME JobInv, UNCHANGED <<config, pc, jobVars, cryptVars, copies>>
  PROVE  JobInv'
<1> USE DEF JobInv, config, jobVars, cryptVars
<1>1. NoJobWhileIdle' /\ RestOfJob' /\ StateInStep'
  BY DEF NoJobWhileIdle, RestOfJob, StateInStep, Passed, number
<1>2. PassedAreGood' /\ EachCounted' /\ NoCopyYet'
  BY DEF PassedAreGood, EachCounted, NoCopyYet, Passed, LetPass, Acceptable, AgeOverflows
<1>3. DeliveredOnce' /\ FailedMeansUndelivered'
  BY DEF DeliveredOnce, FailedMeansUndelivered
<1> QED
  BY <1>1, <1>2, <1>3

\* The message at hand is done with. It could pass, and it is counted as a
\* success where it reached the core.
LEMMA DoneStep ==
  ASSUME IInv, pc \in {"fifo", "spool"},
         NEW rc \in BOOLEAN, NEW whole \in BOOLEAN, whole => rc,
         Done(rc, whole),
         UNCHANGED <<config, job, starved, cryptVars>>,
         copies' \in {0, 1}
  PROVE  /\ JobInv'
         /\ pc' = "check"
         /\ data_packets' \in Seq(Packet)
         /\ d_success' \in Nat /\ d_failed' \in Nat /\ saved' \in Nat
<1> USE DEF IInv, JobInv
<1>1. job \in Seq(Packet) /\ data_packets \in Seq(Packet) /\ data_packets # <<>>
  BY DEF TypeOK, PassedAreGood
<1>2. /\ data_packets' \in Seq(Packet)
      /\ Len(data_packets') = Len(data_packets) - 1
      /\ Len(data_packets) \in Nat /\ Len(data_packets) > 0
      /\ \A k \in 1 .. Len(data_packets'): data_packets'[k] = data_packets[k + 1]
      /\ Head(data_packets) = data_packets[1]
  BY <1>1, HeadAndTail DEF Done
<1>3. pc' = "check" /\ job' = job /\ mcrypt' = mcrypt /\ age_enabled' = age_enabled
      /\ mcrypt_state' = mcrypt_state /\ starved' = starved
  BY DEF Done, config, cryptVars
<1>4. Len(job) \in Nat /\ Passed \in Nat /\ Passed' = Passed + 1 /\ number = Passed + 1
  BY <1>1, <1>2, <1>3 DEF Passed, number, RestOfJob
<1>5. d_success' \in Nat /\ d_failed' \in Nat /\ saved' \in Nat
      /\ d_success' + d_failed' = d_success + d_failed + 1
      /\ saved' <= d_success'
  BY DEF Done, TypeOK, FailedMeansUndelivered
<1>6. NoJobWhileIdle'
  BY <1>3 DEF NoJobWhileIdle
<1>7. RestOfJob'
  <2>1. ASSUME NEW k \in 1 .. Len(data_packets')
        PROVE  data_packets'[k] = job'[Passed' + k]
    <3>1. data_packets'[k] = data_packets[k + 1] /\ k + 1 \in 1 .. Len(data_packets)
      BY <1>2
    <3>2. data_packets[k + 1] = job[Passed + (k + 1)]
      BY <3>1 DEF RestOfJob
    <3> QED
      BY <1>3, <1>4, <3>1, <3>2
  <2>2. Len(data_packets') <= Len(job')
    BY <1>2, <1>3, <1>4 DEF RestOfJob
  <2> QED
    BY <2>1, <2>2 DEF RestOfJob
<1>8. StateInStep'
  <2>1. number' = Passed' + 1
    BY <1>1, <1>2, <1>3, <1>4 DEF number, Passed
  <2> QED
    BY <1>3, <1>4, <2>1 DEF StateInStep
<1>9. PassedAreGood'
  <2>1. job[Passed + 1] = Head(data_packets)
    BY <1>2 DEF RestOfJob
  <2>2. LetPass(job[Passed + 1])
    BY <2>1 DEF PassedAreGood
  <2>3. ASSUME NEW k \in 1 .. Passed' PROVE LetPass(job[k])'
    <3>1. k \in 1 .. Passed \/ k = Passed + 1
      BY <1>4
    <3>2. LetPass(job[k])
      BY <2>2, <3>1 DEF PassedAreGood
    <3> QED
      BY <1>3, <3>2 DEF LetPass, Acceptable, AgeOverflows
  <2> QED
    BY <1>3, <2>3 DEF PassedAreGood, LetPass, Acceptable, AgeOverflows
<1>10. EachCounted' /\ NoCopyYet'
  BY <1>3, <1>4, <1>5 DEF EachCounted, NoCopyYet
<1>11. DeliveredOnce' /\ FailedMeansUndelivered'
  BY <1>5 DEF DeliveredOnce, FailedMeansUndelivered
<1> QED
  BY <1>2, <1>3, <1>5, <1>6, <1>7, <1>8, <1>9, <1>10, <1>11
-----------------------------------------------------------------------------
(* process_queue, one lemma per step *)

\* A client is taken out of the queue: nothing of it is passed on yet.
LEMMA StartStep ==
  ASSUME IInv, NEW packets \in Jobs, StartJob(packets)
  PROVE  IInv'
<1> USE DEF IInv, JobInv
<1>1. packets \in Seq(Packet) /\ packets # <<>> /\ Len(packets) \in Nat
  BY DEF Jobs
<1>2. TypeOK'
  BY <1>1 DEF StartJob, TypeOK, config, fifoVars, world
<1>3. job' = packets /\ data_packets' = packets /\ Passed' = 0
  BY <1>1 DEF StartJob, Passed
<1>4. NoJobWhileIdle' /\ RestOfJob'
  BY <1>1, <1>3 DEF StartJob, NoJobWhileIdle, RestOfJob
<1>5. StateInStep' /\ PassedAreGood'
  BY <1>3 DEF StartJob, StateInStep, PassedAreGood
<1>6. EachCounted' /\ NoCopyYet' /\ DeliveredOnce' /\ FailedMeansUndelivered'
  BY <1>3 DEF StartJob, EachCounted, NoCopyYet, DeliveredOnce, FailedMeansUndelivered
<1> QED
  BY <1>2, <1>4, <1>5, <1>6

\* The packet at hand is decrypted with the state of its place in the stream,
\* so that its checks are those of the packet itself.
LEMMA RightState ==
  ASSUME IInv, pc = "check", data_packets # <<>>
  PROVE  /\ Passed \in Nat /\ number = Passed + 1
         /\ mcrypt => StateFor = number
         /\ Passes(Head(data_packets), StateFor) <=> LetPass(Head(data_packets))
<1> USE DEF IInv, JobInv
<1>1. Passed \in Nat /\ number = Passed + 1
  BY DEF TypeOK, RestOfJob, Passed, number
<1>2. mcrypt => StateFor = number
  <2> SUFFICES ASSUME mcrypt PROVE StateFor = number
    OBVIOUS
  <2>1. Passed > 0 => mcrypt_state = number
    BY DEF StateInStep
  <2>2. CASE Passed = 0
    BY <1>1, <2>2 DEF StateFor
  <2>3. CASE Passed > 0
    BY <1>1, <2>1, <2>3 DEF StateFor
  <2> QED
    BY <1>1, <2>2, <2>3
<1> QED
  <2>1. Head(data_packets) \in Packet
    BY HeadAndTail DEF TypeOK
  <2> QED
    BY <1>1, <1>2, <2>1 DEF Passes, LetPass, Acceptable, AgeOverflows, Packet

LEMMA CheckStep ==
  ASSUME IInv, CheckPacket
  PROVE  IInv'
<1> USE DEF IInv, JobInv
<1>1. /\ job' = job /\ data_packets' = data_packets /\ starved' = starved
      /\ mcrypt' = mcrypt /\ age_enabled' = age_enabled /\ outlets' = outlets
      /\ d_success' = d_success /\ saved' = saved /\ copies' = 0
      /\ pc = "check" /\ data_packets # <<>>
  BY DEF CheckPacket, config
<1>2. Passed' = Passed /\ number' = number
  BY <1>1 DEF Passed, number
<1>3. /\ Passed \in Nat /\ number = Passed + 1
      /\ mcrypt => StateFor = number
      /\ Passes(Head(data_packets), StateFor) <=> LetPass(Head(data_packets))
  BY <1>1, RightState
<1>4. /\ mcrypt => td' = number + 1 /\ mcrypt_state' = number + 1
      /\ ~mcrypt => td' = td /\ mcrypt_state' = mcrypt_state
  BY <1>3 DEF CheckPacket, cryptVars
<1>5. \/ /\ LetPass(Head(data_packets))
         /\ pc' \in {"fifo", "spool"} /\ d_failed' = d_failed
      \/ /\ ~Acceptable(Head(data_packets))
         /\ pc' = "report" /\ d_failed' = d_failed + 1
  BY <1>3 DEF CheckPacket, LetPass
<1>6. TypeOK'
  <2>1. td' \in Nat /\ mcrypt_state' \in Nat
    BY <1>3, <1>4 DEF TypeOK
  <2>2. d_failed' \in Nat /\ pc' \in {"fifo", "spool", "report"}
    BY <1>5 DEF TypeOK
  <2> QED
    BY <1>1, <2>1, <2>2 DEF TypeOK, CheckPacket, fifoVars, world
<1>7. NoJobWhileIdle' /\ RestOfJob'
  BY <1>1, <1>2, <1>5 DEF NoJobWhileIdle, RestOfJob
<1>8. StateInStep'
  BY <1>1, <1>2, <1>4, <1>5 DEF StateInStep
<1>9. PassedAreGood'
  BY <1>1, <1>2, <1>5 DEF PassedAreGood, LetPass, Acceptable, AgeOverflows
<1>10. EachCounted'
  BY <1>1, <1>2, <1>3, <1>5 DEF EachCounted, TypeOK
<1>11. NoCopyYet' /\ DeliveredOnce' /\ FailedMeansUndelivered'
  BY <1>1 DEF NoCopyYet, DeliveredOnce, FailedMeansUndelivered
<1> QED
  BY <1>6, <1>7, <1>8, <1>9, <1>10, <1>11

\* The end of a connection, and the report that forgets it.
LEMMA EndStep ==
  ASSUME IInv, LastPacket \/ Report
  PROVE  IInv'
<1> USE DEF IInv, JobInv
<1>1. CASE LastPacket
  <2>1. TypeOK'
    BY <1>1 DEF LastPacket, TypeOK, config, jobVars, cryptVars, fifoVars, world
  <2>2. UNCHANGED <<config, jobVars, cryptVars, copies, Passed, number>>
    BY <1>1 DEF LastPacket, Passed, number, jobVars
  <2>3. NoJobWhileIdle' /\ RestOfJob' /\ StateInStep'
    BY <1>1, <2>2 DEF LastPacket, NoJobWhileIdle, RestOfJob, StateInStep, config,
                      jobVars, cryptVars
  <2>4. PassedAreGood' /\ EachCounted'
    BY <1>1, <2>2 DEF LastPacket, PassedAreGood, EachCounted, LetPass, Acceptable,
                      AgeOverflows, TypeOK, config, jobVars
  <2>5. NoCopyYet' /\ DeliveredOnce' /\ FailedMeansUndelivered'
    BY <1>1, <2>2 DEF LastPacket, NoCopyYet, DeliveredOnce, FailedMeansUndelivered,
                      jobVars
  <2> QED
    BY <2>1, <2>3, <2>4, <2>5
<1>2. CASE Report
  <2>1. TypeOK'
    <3>1. job' \in Seq(Packet) /\ data_packets' \in Seq(Packet)
      BY <1>2 DEF Report
    <3> QED
      BY <1>2, <3>1 DEF Report, TypeOK, config, cryptVars, fifoVars, world
  <2>2. Passed' = 0 /\ Len(job') = 0 /\ Len(data_packets') = 0 /\ pc' = "idle"
    BY <1>2 DEF Report, Passed
  <2>3. NoJobWhileIdle' /\ RestOfJob' /\ StateInStep'
    BY <1>2, <2>2 DEF Report, NoJobWhileIdle, RestOfJob, StateInStep
  <2>4. PassedAreGood' /\ EachCounted'
    BY <1>2, <2>2 DEF Report, PassedAreGood, EachCounted
  <2>5. NoCopyYet' /\ DeliveredOnce' /\ FailedMeansUndelivered'
    BY <1>2, <2>2 DEF Report, NoCopyYet, DeliveredOnce, FailedMeansUndelivered
  <2> QED
    BY <2>1, <2>3, <2>4, <2>5
<1> QED
  BY <1>1, <1>2

-----------------------------------------------------------------------------
(* The outlets *)

\* After the FIFO the message is done, or it goes to the spool; it does so only
\* where the FIFO took nothing of it.
LEMMA AfterFifoStep ==
  ASSUME IInv, pc = "fifo",
         NEW rc \in BOOLEAN, NEW whole \in BOOLEAN, NEW made \in {0, 1},
         whole => rc, made = 1 => rc,
         AfterFifo(rc, whole, made),
         UNCHANGED <<config, job, starved, cryptVars>>
  PROVE  /\ JobInv'
         /\ pc' \in {"check", "spool"}
         /\ data_packets' \in Seq(Packet) /\ copies' \in Nat
         /\ d_success' \in Nat /\ d_failed' \in Nat /\ saved' \in Nat
<1> USE DEF IInv, JobInv
<1>1. copies' \in {0, 1} /\ copies' = made
  BY DEF AfterFifo, NoCopyYet, TypeOK
<1>2. CASE SpoolWanted(rc)
  <2>1. ~rc /\ ~whole /\ copies' = 0
    BY <1>1, <1>2 DEF SpoolWanted
  <2>2. /\ pc' = "spool" /\ saved' = saved
        /\ UNCHANGED <<config, job, starved, cryptVars, data_packets, d_success, d_failed>>
    BY <1>2, <2>1 DEF AfterFifo
  <2>3. Passed' = Passed /\ number' = number
    BY <2>2 DEF Passed, number
  <2>4. NoJobWhileIdle' /\ RestOfJob' /\ StateInStep'
    BY <2>2, <2>3 DEF NoJobWhileIdle, RestOfJob, StateInStep, config, cryptVars
  <2>5. PassedAreGood' /\ EachCounted'
    BY <2>2, <2>3 DEF PassedAreGood, EachCounted, LetPass, Acceptable, AgeOverflows, config
  <2>6. NoCopyYet' /\ DeliveredOnce' /\ FailedMeansUndelivered'
    BY <2>1, <2>2 DEF NoCopyYet, DeliveredOnce, FailedMeansUndelivered
  <2> QED
    BY <1>1, <2>2, <2>4, <2>5, <2>6 DEF TypeOK
<1>3. CASE ~SpoolWanted(rc)
  <2>1. Done(rc, whole)
    BY <1>3 DEF AfterFifo
  <2> QED
    BY <1>1, <2>1, DoneStep
<1> QED
  BY <1>2, <1>3

\* Opening the FIFO blocks it for no longer than the longest block.
LEMMA InitEventsTypes ==
  ASSUME TypeOK, InitEvents
  PROVE  fd' \in {"none", "open", "stale"} /\ block' \in 0 .. StatBlock
<1>1. CASE fd # "none"
  BY <1>1 DEF InitEvents, TypeOK
<1>2. CASE fd = "none"
  <2>1. CASE fifo \in {"missing", "other"}
    <3>1. Blocked(StatBlock)
      BY <1>2, <2>1 DEF InitEvents
    <3> QED
      BY <1>2, <3>1 DEF Blocked
  <2>2. CASE fifo = "denied"
    BY <1>2, <2>2 DEF InitEvents, Blocked, TypeOK
  <2>3. CASE fifo = "idle"
    BY <1>2, <2>3 DEF InitEvents, Blocked, TypeOK
  <2>4. CASE fifo \in {"served", "full"}
    <3>1. fd' \in {"open", "stale"} /\ block' = 0
      BY <1>2, <2>4 DEF InitEvents
    <3> QED
      BY <3>1
  <2> QED
    BY <2>1, <2>2, <2>3, <2>4 DEF TypeOK
<1> QED
  BY <1>1, <1>2

LEMMA FifoStep ==
  ASSUME IInv, CommandBlocked \/ CommandClosed \/ CommandWrite
  PROVE  IInv'
<1> USE DEF IInv
<1>1. UNCHANGED <<config, job, starved, cryptVars>> /\ pc = "fifo"
  BY DEF CommandBlocked, CommandClosed, CommandWrite
<1>2. PICK rc \in BOOLEAN, whole \in BOOLEAN, made \in {0, 1}:
        /\ whole => rc
        /\ made = 1 => rc
        /\ AfterFifo(rc, whole, made)
  <2>1. CASE CommandBlocked \/ CommandClosed
    <3>1. AfterFifo(FALSE, FALSE, 0)
      BY <2>1 DEF CommandBlocked, CommandClosed
    <3>2. 0 \in {0, 1} /\ 0 # 1
      OBVIOUS
    <3> WITNESS FALSE \in BOOLEAN, FALSE \in BOOLEAN, 0 \in {0, 1}
    <3> QED
      BY <3>1, <3>2, Zenon
  <2>2. CASE CommandWrite
    <3>1. PICK w: AfterFifo(Written(w), w = "whole",
                            IF w \in {"whole", "part"} THEN 1 ELSE 0)
      BY <2>2 DEF CommandWrite
    <3>2. /\ Written(w) \in BOOLEAN /\ (w = "whole") \in BOOLEAN
          /\ (IF w \in {"whole", "part"} THEN 1 ELSE 0) \in {0, 1}
          /\ w = "whole" => Written(w)
          /\ (IF w \in {"whole", "part"} THEN 1 ELSE 0) = 1 => Written(w)
      BY DEF Written
    <3> QED
      BY <3>1, <3>2
  <2> QED
    BY <2>1, <2>2
<1>3. /\ JobInv'
      /\ pc' \in {"check", "spool"}
      /\ data_packets' \in Seq(Packet) /\ copies' \in Nat
      /\ d_success' \in Nat /\ d_failed' \in Nat /\ saved' \in Nat
  BY <1>1, <1>2, AfterFifoStep
<1>4. /\ fifo' = fifo /\ write_enabled' = write_enabled
      /\ fd' \in {"none", "open", "stale"} /\ attached' \in BOOLEAN
      /\ block' \in 0 .. StatBlock
  <2>1. CASE CommandBlocked
    BY <2>1 DEF CommandBlocked, TypeOK, fifoVars, world
  <2>2. CASE CommandClosed
    BY <2>2, InitEventsTypes DEF CommandClosed, TypeOK, world
  <2>3. CASE CommandWrite
    BY <2>3 DEF CommandWrite, Hangup, TypeOK
  <2> QED
    BY <2>1, <2>2, <2>3
<1>5. TypeOK'
  BY <1>1, <1>3, <1>4 DEF TypeOK, config, cryptVars
<1> QED
  BY <1>3, <1>5

\* The spool: a file is left behind only where write_result says so.
LEMMA SpoolStep ==
  ASSUME IInv, SpoolWrite
  PROVE  IInv'
<1> USE DEF IInv
<1>1. UNCHANGED <<config, job, starved, cryptVars, fifoVars, world>> /\ pc = "spool"
  BY DEF SpoolWrite
<1>2. copies = 0
  BY <1>1 DEF JobInv, NoCopyYet
<1>3. PICK rc \in BOOLEAN, whole \in BOOLEAN:
        /\ whole => rc
        /\ Done(rc, whole)
        /\ copies' \in {0, 1}
  <2>1. CASE "spool" \in outlets
    <3>1. PICK end: /\ Done(WriteResult(end), end = "saved")
                    /\ copies' = copies + (IF end \in {"cut", "saved"} THEN 1 ELSE 0)
      BY <2>1 DEF SpoolWrite
    <3>2. /\ WriteResult(end) \in BOOLEAN /\ (end = "saved") \in BOOLEAN
          /\ end = "saved" => WriteResult(end)
      BY DEF WriteResult
    <3>3. copies' \in {0, 1}
      BY <1>2, <3>1
    <3> QED
      BY <3>1, <3>2, <3>3
  <2>2. CASE "spool" \notin outlets
    BY <1>2, <2>2 DEF SpoolWrite
  <2> QED
    BY <2>1, <2>2
<1>4. /\ JobInv'
      /\ pc' = "check"
      /\ data_packets' \in Seq(Packet)
      /\ d_success' \in Nat /\ d_failed' \in Nat /\ saved' \in Nat
  BY <1>1, <1>3, DoneStep
<1>5. TypeOK'
  BY <1>1, <1>3, <1>4 DEF TypeOK, config, cryptVars, fifoVars, world
<1> QED
  BY <1>4, <1>5

-----------------------------------------------------------------------------
(* The world: the core and the timer touch no job *)

LEMMA WorldStep ==
  ASSUME IInv,
         \/ \E f \in {"served", "full", "idle", "missing", "other", "denied"}:
              FifoBecomes(f)
         \/ Tick
  PROVE  IInv'
<1> USE DEF IInv
<1>1. UNCHANGED <<config, pc, jobVars, cryptVars, copies>>
  BY DEF FifoBecomes, Tick
<1>2. TypeOK'
  <2>1. CASE Tick
    <3>1. block' \in 0 .. StatBlock
      BY <2>1 DEF Tick, Elapsed, TypeOK
    <3> QED
      BY <2>1, <3>1 DEF Tick, TypeOK, config, jobVars, cryptVars
  <2>2. ASSUME NEW f \in {"served", "full", "idle", "missing", "other", "denied"},
               FifoBecomes(f)
        PROVE  TypeOK'
    <3>1. fifo' = f /\ attached' \in BOOLEAN
      BY <2>2 DEF FifoBecomes, TypeOK
    <3> QED
      BY <2>2, <3>1 DEF FifoBecomes, TypeOK, config, jobVars, cryptVars, fifoVars
  <2> QED
    BY <2>1, <2>2
<1> QED
  BY <1>1, <1>2, JobUntouched

-----------------------------------------------------------------------------
(* The theorems *)

LEMMA Step == IInv /\ [Next]_vars => IInv'
<1> SUFFICES ASSUME IInv, [Next]_vars PROVE IInv'
  OBVIOUS
<1>1. CASE Walk
  BY <1>1, CheckStep, EndStep, FifoStep, SpoolStep DEF Walk
<1>2. CASE UNCHANGED vars
  <2>1. TypeOK'
    BY <1>2 DEF IInv, TypeOK, vars, config, jobVars, cryptVars, fifoVars, world
  <2> QED
    BY <1>2, <2>1, JobUntouched DEF IInv, vars
<1> QED
  BY <1>1, <1>2, StartStep, WorldStep DEF Next

LEMMA Invariance == Spec => []IInv
  BY Initial, Step, PTL DEF Spec

\* The variables of the thread, of its fifo_client and of the spool's switch keep
\* their types, and no block outlives the longest one, for connections and
\* blocks of any length.
THEOREM TypeCorrect == Spec => []TypeOK
<1>1. IInv => TypeOK
  BY DEF IInv
<1> QED
  BY <1>1, Invariance, PTL

\* A message that the FIFO took, in part or whole, is not spooled: the core gets
\* a check once, whatever the system calls return and the core does meanwhile.
THEOREM OneOutlet == Spec => []DeliveredOnce
<1>1. IInv => DeliveredOnce
  BY DEF IInv, JobInv
<1> QED
  BY <1>1, Invariance, PTL

\* A message that reached the core is among the successes that are reported.
THEOREM SavedIsSuccess == Spec => []FailedMeansUndelivered
<1>1. IInv => FailedMeansUndelivered
  BY DEF IInv, JobInv
<1> QED
  BY <1>1, Invariance, PTL

\* Of a connection of any length exactly the messages before the first bad packet
\* are passed on, and each is counted, whatever state the crypt instance, which
\* connections share, was left in. What the checks take for good though it is not
\* is a packet whose age overflows, and nothing else.
THEOREM GoodPrefix == Spec => []GoodPrefixProcessed
<1>1. IInv => GoodPrefixProcessed
  <2> SUFFICES ASSUME IInv, pc = "report", ~starved
               PROVE  /\ \A k \in 1 .. Passed: LetPass(job[k])
                      /\ data_packets # <<>> => ~Acceptable(job[Passed + 1])
                      /\ d_success + d_failed =
                           Passed + (IF data_packets = <<>> THEN 0 ELSE 1)
    BY DEF GoodPrefixProcessed, Passed, LetPass
  <2> USE DEF IInv, JobInv
  <2>1. data_packets # <<>> => Head(data_packets) = job[Passed + 1]
    BY HeadAndTail DEF TypeOK, RestOfJob
  <2> QED
    BY <2>1 DEF PassedAreGood, EachCounted
<1> QED
  BY <1>1, Invariance, PTL
===============================================================================
