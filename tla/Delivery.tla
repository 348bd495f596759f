------------------------------ MODULE Delivery -------------------------------
(* The way of a message from its packet to the monitoring core, as one       *)
(* thread walks it for one connection after another: process_queue of        *)
(* network_client.cpp, the thread's fifo_client, and write_result of         *)
(* result_path_client.cpp. Packets are known by what the checks make of      *)
(* them, durations by how many ticks of the timer they last.                 *)
(*                                                                           *)
(* The command file and the spool directory are external: the core makes,    *)
(* serves, leaves and removes its FIFO when it likes, and any system call    *)
(* may fail. The worker's timer ticks between any two steps.                 *)
EXTENDS Integers, Sequences

CONSTANTS
  MaxPackets,     \* bound: the packets of one connection
  StatBlock,      \* how long a missing FIFO is left alone, 60 s
  OpenBlock,      \* ... one that may not be opened, 10 s
  ReaderBlock     \* ... one that nobody reads, 3 s

ASSUME PacketsAssumption == MaxPackets \in Nat \ {0}
ASSUME BlockAssumption ==
  /\ StatBlock \in Nat /\ OpenBlock \in Nat /\ ReaderBlock \in Nat
  /\ ReaderBlock <= OpenBlock /\ OpenBlock <= StatBlock

\* A packet that decrypts with the right state is "fresh", "stale" (older or
\* newer than max_packet_age), "future" (2^31 s or more ahead of now) or
\* "garbled" (wrong version or wrong CRC).
Packet == {"fresh", "stale", "future", "garbled"}
Jobs == UNION {[1 .. n -> Packet]: n \in 1 .. MaxPackets}

VARIABLES
  mcrypt,         \* decryption_method > 1
  age_enabled,    \* max_packet_age_enabled and max_packet_age > 0
  outlets,        \* which of command_file and check_result_path are set
  pc,             \* where the thread is
  job,            \* the packets of the connection (history)
  data_packets,   \* those not yet processed
  starved,        \* calloc of mcrypt_state failed
  td,             \* the packet the crypt instance is in a state to decrypt
  mcrypt_state,   \* ... and the one that the saved state is for
  d_success, d_failed,
  fifo,           \* what the core has at command_file
  fd,             \* fifo_client: "none", "open", or "stale" (closed, not reset)
  attached,       \* fd is of the FIFO that is there now
  block,          \* block_fifo_until - now, while positive
  write_enabled,  \* result_path_client::write_enabled
  copies,         \* the copies made of the message at hand (history)
  saved           \* the messages of this job that reached the core (history)

config == <<mcrypt, age_enabled, outlets>>
cryptVars == <<td, mcrypt_state>>
jobVars == <<job, data_packets, starved, d_success, d_failed, saved>>
fifoVars == <<fd, block>>
world == <<fifo, attached, write_enabled>>
vars == <<config, pc, jobVars, cryptVars, fifoVars, world, copies>>

Init ==
  /\ mcrypt \in BOOLEAN /\ age_enabled \in BOOLEAN
  /\ outlets \in SUBSET {"fifo", "spool"}
  /\ pc = "idle"
  /\ job = <<>> /\ data_packets = <<>> /\ starved = FALSE
  /\ td = 1 /\ mcrypt_state = 0
  /\ d_success = 0 /\ d_failed = 0
  /\ fifo = "missing" /\ fd = "none" /\ attached = FALSE /\ block = 0
  /\ write_enabled = TRUE
  /\ copies = 0 /\ saved = 0

-----------------------------------------------------------------------------
(* process_queue *)

\* The thread takes a client out of its queue. Without memory for the stream
\* state its packets are not looked at.
StartJob(packets) ==
  /\ pc = "idle"
  /\ job' = packets /\ data_packets' = packets
  /\ d_success' = 0 /\ d_failed' = 0 /\ saved' = 0
  /\ mcrypt_state' = 0
  /\ \/ pc' = "check" /\ starved' = FALSE
     \/ mcrypt /\ pc' = "report" /\ starved' = TRUE
  /\ UNCHANGED <<config, td, fifoVars, world, copies>>

\* i, the number of the packet at hand.
number == Len(job) - Len(data_packets) + 1

\* Fault: the crypt instance is left as the last connection used it.
StateCarriedOver == IF number = 1 THEN td ELSE mcrypt_state

\* The state the packet is decrypted with: the IV for the first one, then the
\* state that the packet before it left behind.
StateFor == IF number = 1 THEN 1 ELSE mcrypt_state

\* The checks of a packet decrypted with the state s. With the wrong state it
\* is noise. The age is computed in an int: 2^31 s and more come out negative.
Passes(packet, s) ==
  /\ mcrypt => s = number
  /\ packet # "garbled"
  /\ age_enabled => packet # "stale"

\* Decrypt and check the next packet. One that fails ends the connection.
CheckPacket ==
  /\ pc = "check"
  /\ data_packets # <<>>
  /\ IF mcrypt
       THEN td' = StateFor + 1 /\ mcrypt_state' = StateFor + 1
       ELSE UNCHANGED cryptVars
  /\ copies' = 0
  /\ IF Passes(Head(data_packets), StateFor)
       THEN /\ pc' = IF "fifo" \in outlets THEN "fifo" ELSE "spool"
            /\ UNCHANGED d_failed
       ELSE /\ pc' = "report"
            /\ d_failed' = d_failed + 1
  /\ UNCHANGED <<config, job, data_packets, starved, d_success, saved, fifoVars, world>>

\* No packet is left.
LastPacket ==
  /\ pc = "check"
  /\ data_packets = <<>>
  /\ pc' = "report"
  /\ UNCHANGED <<config, jobVars, cryptVars, fifoVars, world, copies>>

\* report_success_failed, then delete this with the packets that are left.
Report ==
  /\ pc = "report"
  /\ pc' = "idle"
  /\ data_packets' = <<>> /\ job' = <<>> /\ starved' = FALSE
  /\ d_success' = 0 /\ d_failed' = 0 /\ saved' = 0
  /\ UNCHANGED <<config, cryptVars, fifoVars, world, copies>>

\* The message at hand is done with, rc or no rc; the next packet.
Done(rc, whole) ==
  /\ pc' = "check"
  /\ data_packets' = Tail(data_packets)
  /\ d_success' = IF rc THEN d_success + 1 ELSE d_success
  /\ d_failed' = IF rc THEN d_failed ELSE d_failed + 1
  /\ saved' = IF whole THEN saved + 1 ELSE saved

-----------------------------------------------------------------------------
(* fifo_client::command *)

\* The FIFO is left alone for d ticks.
Blocked(d) == block' = d /\ UNCHANGED fd

\* init_events: open the FIFO unless it is open, or seems to be. A stream that
\* cannot be made of the descriptor leaves its number behind; and errors of
\* open other than the usual ones block nothing.
InitEvents ==
  IF fd # "none" THEN UNCHANGED <<fd, block>>
  ELSE CASE fifo \in {"missing", "other"} -> Blocked(StatBlock)
         [] fifo = "denied" -> Blocked(OpenBlock) \/ Blocked(block)
         [] fifo = "idle" -> Blocked(ReaderBlock)
         [] fifo \in {"served", "full"} -> fd' \in {"open", "stale"} /\ block' = 0

\* What write() may return for a descriptor that is open: part of the message
\* where it is longer than PIPE_BUF.
WriteReturns(there) ==
  CASE ~there \/ fifo = "idle" -> {"EPIPE"}
    [] fifo = "full" -> {"EAGAIN", "part"}
    [] OTHER -> {"whole", "part"}

\* Fault: EPIPE does not close the FIFO.
StaysOpen == "open"

\* What EPIPE leaves of the descriptor: it is closed and forgotten.
Hangup == "none"

\* Fault: the test has the wrong sign.
NotWritten(w) == w = "EAGAIN"

\* The test wsize > 0.
Written(w) == w \in {"whole", "part"}

\* Fault: the spool is written whatever the FIFO did.
SpoolAnyway(rc) == "spool" \in outlets

\* if (!rc && resultPathClient)
SpoolWanted(rc) == ~rc /\ "spool" \in outlets

\* The FIFO is done with and says rc; the spool is next, or the message is done.
AfterFifo(rc, whole, made) ==
  /\ copies' = copies + made
  /\ IF SpoolWanted(rc)
       THEN /\ pc' = "spool"
            /\ saved' = IF whole THEN saved + 1 ELSE saved
            /\ UNCHANGED <<data_packets, d_success, d_failed>>
       ELSE Done(rc, whole)

\* The FIFO is left alone for now.
CommandBlocked ==
  /\ pc = "fifo"
  /\ block > 0
  /\ AfterFifo(FALSE, FALSE, 0)
  /\ UNCHANGED <<config, job, starved, cryptVars, fifoVars, world>>

\* It cannot be opened, or its stream could not be made, now or before.
CommandClosed ==
  /\ pc = "fifo"
  /\ block = 0
  /\ InitEvents
  /\ fd' # "open"
  /\ AfterFifo(FALSE, FALSE, 0)
  /\ UNCHANGED <<config, job, starved, cryptVars, world>>

\* Write the command. EPIPE closes the FIFO, to be opened for the next message.
CommandWrite ==
  LET there == IF fd = "none" THEN TRUE ELSE attached IN
  /\ pc = "fifo"
  /\ block = 0
  /\ \/ fd = "none" /\ fifo \in {"served", "full"}
     \/ fd = "open"
  /\ block' = IF fd = "none" THEN 0 ELSE block
  /\ \E w \in WriteReturns(there):
       /\ fd' = IF w = "EPIPE" THEN Hangup ELSE "open"
       /\ attached' = (there /\ w # "EPIPE")
       /\ AfterFifo(Written(w), w = "whole", IF w \in {"whole", "part"} THEN 1 ELSE 0)
  /\ UNCHANGED <<config, job, starved, cryptVars, fifo, write_enabled>>

-----------------------------------------------------------------------------
(* result_path_client::write_result *)

\* Where write_result ends: the switch is off, no memory for its buffers, no
\* file, no stream, a short fwrite (the file is removed), a file cut short by
\* the flush in fclose, which is not looked at, no .ok file (the file is
\* removed), or all is well.
SpoolEnds ==
  IF write_enabled
    THEN {"memory", "file", "stream", "short", "cut", "ok", "saved"}
    ELSE {"disabled"}

\* Only the first of these failures reach the return code.
WriteResult(end) == end \notin {"disabled", "file", "stream"}

SpoolWrite ==
  /\ pc = "spool"
  /\ IF "spool" \in outlets
       THEN \E end \in SpoolEnds:
              /\ Done(WriteResult(end), end = "saved")
              /\ copies' = copies + (IF end \in {"cut", "saved"} THEN 1 ELSE 0)
       ELSE Done(FALSE, FALSE) /\ UNCHANGED copies
  /\ UNCHANGED <<config, job, starved, cryptVars, fifoVars, world>>

-----------------------------------------------------------------------------
(* The world *)

\* The core makes, serves, fills, leaves, protects or removes its FIFO; what
\* was open may be of another file from then on.
FifoBecomes(f) ==
  /\ f # fifo
  /\ fifo' = f
  /\ attached' \in IF f \in {"missing", "other"} THEN {FALSE} ELSE {FALSE, attached}
  /\ UNCHANGED <<config, pc, jobVars, cryptVars, fifoVars, write_enabled, copies>>

\* Fault: what is left of a block goes on to fall when it is over.
RunsOn == block - 1

\* What is left of a block one second later.
Elapsed == IF block = 0 THEN 0 ELSE block - 1

\* One tick of the timer: now advances. check() may switch the spool.
Tick ==
  /\ block' = Elapsed
  /\ IF "spool" \in outlets THEN write_enabled' \in BOOLEAN ELSE UNCHANGED write_enabled
  /\ UNCHANGED <<config, pc, jobVars, cryptVars, fd, fifo, attached, copies>>

-----------------------------------------------------------------------------
Walk ==
  \/ CheckPacket \/ LastPacket \/ Report
  \/ CommandBlocked \/ CommandClosed \/ CommandWrite
  \/ SpoolWrite

Next ==
  \/ \E packets \in Jobs: StartJob(packets)
  \/ Walk
  \/ \E f \in {"served", "full", "idle", "missing", "other", "denied"}: FifoBecomes(f)
  \/ Tick

\* The thread runs and the timer ticks; no connection need come.
Fairness == WF_vars(Walk) /\ WF_vars(Tick)

Spec == Init /\ [][Next]_vars /\ Fairness

-----------------------------------------------------------------------------
(* Properties *)

\* Every variable keeps its type; no block outlives the longest one.
TypeOK ==
  /\ mcrypt \in BOOLEAN /\ age_enabled \in BOOLEAN
  /\ outlets \subseteq {"fifo", "spool"}
  /\ pc \in {"idle", "check", "fifo", "spool", "report"}
  /\ job \in Seq(Packet) /\ data_packets \in Seq(Packet) /\ starved \in BOOLEAN
  /\ td \in Nat /\ mcrypt_state \in Nat
  /\ d_success \in Nat /\ d_failed \in Nat /\ saved \in Nat /\ copies \in Nat
  /\ fifo \in {"served", "full", "idle", "missing", "other", "denied"}
  /\ fd \in {"none", "open", "stale"} /\ attached \in BOOLEAN
  /\ block \in 0 .. StatBlock
  /\ write_enabled \in BOOLEAN

\* What the checks should accept of a packet that was encrypted where it stands
\* in the stream of its connection.
Acceptable(packet) == packet # "garbled" /\ (age_enabled => packet = "fresh")

\* The one bad packet that the checks take for a good one: too far ahead for the
\* int of its age.
AgeOverflows(packet) == age_enabled /\ packet = "future"

\* Of each connection the messages before the first bad packet are passed on,
\* all of them and no other, whatever the crypt instance, which connections
\* share, was last used for; and each is counted, the bad packet too. (Only a
\* packet whose age overflows is passed on as well, and its connection goes on.)
GoodPrefixProcessed ==
  pc = "report" /\ ~starved =>
    LET passed == Len(job) - Len(data_packets) IN
    /\ \A k \in 1 .. passed: Acceptable(job[k]) \/ AgeOverflows(job[k])
    /\ data_packets # <<>> => ~Acceptable(job[passed + 1])
    /\ d_success + d_failed = passed + (IF data_packets = <<>> THEN 0 ELSE 1)

\* With both outlets set a message goes to one of them, not to both: the core
\* never gets a check twice.
DeliveredOnce == copies <= 1

\* A message that reached the core is never counted as failed.
FailedMeansUndelivered == saved <= d_success

\* When the core serves its FIFO for good, and messages keep coming, they keep
\* being written to it, unless fdopen failed once: then it is never used again.
\* "served" includes that open succeeds.
FifoIsUsedAgain ==
  <>[](fifo = "served" /\ "fifo" \in outlets) /\ []<>(pc = "fifo")
    => []<>(fd = "open" /\ attached) \/ <>[](fd = "stale")

\* "Save results if write is not disabled": where there is only the spool, a
\* message counted as a success has its file in it, whole and with its .ok.
SuccessMeansSaved == outlets = {"spool"} => d_success <= saved
==============================================================================
