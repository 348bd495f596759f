---------------------------- MODULE NetworkClient ----------------------------
(* One connection, from take_variables to the hand-over of its packets:      *)
(* network_client.cpp up to process_queue. Bytes are counted, not spelt out. *)
(* The peer and libevent are external: the peer sends bytes in pieces of any *)
(* size and closes when it likes; libevent moves at most MaxRead bytes from  *)
(* the socket to the input buffer and calls readcb once for each such read,  *)
(* calls writecb when the output is empty, and calls eventcb once, for EOF   *)
(* when the socket is drained or for a timeout or an error at any time.      *)
EXTENDS Integers, Sequences

CONSTANTS
  PacketLength,     \* sizeof(data_packet), 4304 with the paddings
  OldPacketLength,  \* OLD_PACKET_LENGTH, 720
  MaxRead,          \* what libevent reads at once (EVBUFFER_MAX_READ, 4096)
  MaxChecks,        \* max_checks_per_connection
  MaxBytes          \* bound: what the peer sends in all

\* MaxRead < PacketLength is a fact about two programs: no packet is left
\* behind by a callback that takes one packet only because of it.
ASSUME SizesAssumption ==
  /\ PacketLength \in Nat /\ OldPacketLength \in Nat /\ MaxRead \in Nat
  /\ 0 < OldPacketLength /\ OldPacketLength < PacketLength
  /\ 0 < MaxRead /\ MaxRead <= PacketLength
ASSUME BoundsAssumption == MaxChecks \in Nat /\ MaxBytes \in Nat

VARIABLES
  shared,         \* decryption_mode & DECRYPTION_MODE_SHARED_CRYPT_INSTANCE
  threaded,       \* nsca_threads_per_worker > 0
  thread_CI,      \* crypt_thread_t::CI of the thread the client would go to
  life,           \* "new", "open", "job" (handed over) or "gone" (deleted)
  ending,         \* why it ended (history): "none" until then
  connections,    \* what this client contributes to network::connections
  sent,           \* the bytes the peer has sent (history)
  socket,         \* the bytes sent and not read
  peer_closed,    \* the peer has closed its side
  input,          \* the length of the bufferevent's input buffer
  bytes_received,
  bytes_drained,
  data_packets,   \* the packet_length of each data_packet_pair
  starved,        \* a calloc in readcb failed (history)
  init_sent,      \* connection_state & CONNECTION_STATE_INIT_SENT
  writing,        \* EV_WRITE is enabled
  iv,             \* whose IV the peer was sent: "none", "own", "shared"
  transmission_iv,  \* the pointer to the client's own IV: "null" or "own"
  CI,             \* the pointer to a crypt instance: "null", or the IV that
                  \* the instance behind it was set up with
  has_own_CI,
  processing      \* process_queue was called

config == <<shared, threaded, thread_CI>>
peerVars == <<sent, peer_closed>>
readVars == <<input, bytes_received, bytes_drained, data_packets, starved>>
writeVars == <<init_sent, writing, iv>>
lifeVars == <<life, ending, connections>>
cryptVars == <<transmission_iv, CI, has_own_CI, processing>>
vars == <<config, peerVars, socket, readVars, writeVars, lifeVars, cryptVars>>

-----------------------------------------------------------------------------
(* IVs and crypt instances *)

\* What an instance is set up with: the IV it is given, or one it makes itself.
\* (When libmcrypt fails half way the instance is there all the same, and cannot
\* decrypt; that is not modelled.)
encrypt_init(received_iv) == IF received_iv = "null" THEN "fresh" ELSE received_iv

\* The network sets up an instance for all its clients in shared mode without
\* threads, from the IV of the worker; a thread sets up one in every mode.
network_CI == IF shared /\ ~threaded THEN encrypt_init("shared") ELSE "null"

\* Fault: the instance of a thread replaces the client's own.
SetAlways(myCI) == CI' = myCI

\* A client that has an instance of its own keeps it.
set_CI(myCI) == CI' = IF has_own_CI THEN CI ELSE myCI

\* Without shared instances the client generates its own IV when it is accepted.
TakeCrypt ==
  /\ IF network_CI # "null" THEN set_CI(network_CI) ELSE UNCHANGED CI
  /\ transmission_iv' = IF shared THEN transmission_iv ELSE "own"
  /\ UNCHANGED <<has_own_CI, processing>>

\* ... and its own instance when the connection is closed.
OwnInstance ==
  /\ IF shared
       THEN UNCHANGED <<CI, has_own_CI>>
       ELSE CI' = encrypt_init(transmission_iv) /\ has_own_CI' = TRUE
  /\ UNCHANGED transmission_iv

Init ==
  /\ shared \in BOOLEAN /\ threaded \in BOOLEAN
  /\ thread_CI \in {"null"} \union IF threaded THEN {encrypt_init("shared")} ELSE {}
  /\ life = "new" /\ ending = "none" /\ connections = 0
  /\ transmission_iv = "null" /\ CI = "null"
  /\ has_own_CI = FALSE /\ processing = FALSE
  /\ sent = 0 /\ peer_closed = FALSE /\ socket = 0
  /\ input = 0 /\ bytes_received = 0 /\ bytes_drained = 0
  /\ data_packets = <<>> /\ starved = FALSE
  /\ init_sent = FALSE /\ writing = FALSE /\ iv = "none"

-----------------------------------------------------------------------------
(* The end of a connection *)

\* Fault: the count is left to the code that runs when the job is done.
DestroyUncounted(why) ==
  /\ life' = "gone"
  /\ ending' = why
  /\ data_packets' = <<>>
  /\ UNCHANGED <<connections, cryptVars>>

\* proper_destroy: discount and delete this, with every packet it holds.
ProperDestroy(why) ==
  /\ connections' = connections - 1
  /\ life' = "gone"
  /\ ending' = why
  /\ data_packets' = <<>>
  /\ UNCHANGED cryptVars

\* connection_closed with these packets: discount; in the mode without shared
\* instances set up an own one, which may fail and costs the packets; then
\* add_job or process_queue, or delete this when there is nothing to process.
ConnectionClosed(why, packets) ==
  /\ connections' = connections - 1
  /\ \/ /\ ~shared
        /\ life' = "gone" /\ ending' = "noCI"
        /\ data_packets' = <<>>
        /\ UNCHANGED cryptVars
     \/ /\ packets # <<>> /\ OwnInstance
        /\ life' = "job" /\ ending' = why
        /\ data_packets' = packets
        /\ processing' = ~threaded
     \/ /\ packets = <<>> /\ OwnInstance
        /\ life' = "gone" /\ ending' = why
        /\ UNCHANGED <<data_packets, processing>>

\* The thread the job went to takes it up. A thread without an instance forgets
\* the job.
ThreadTakes ==
  /\ life = "job" /\ ~processing
  /\ thread_CI # "null"
  /\ set_CI(thread_CI)
  /\ processing' = TRUE
  /\ UNCHANGED <<config, peerVars, socket, readVars, writeVars, lifeVars,
                 transmission_iv, has_own_CI>>

-----------------------------------------------------------------------------
(* take_variables *)

\* The listener accepted the connection.
TakeVariables ==
  /\ life = "new"
  /\ life' = "open"
  /\ connections' = connections + 1
  /\ TakeCrypt
  /\ writing' = TRUE
  /\ UNCHANGED <<config, peerVars, socket, readVars, init_sent, iv, ending>>

\* Fault: the client is discounted before it was counted.
RefuseUncounted ==
  /\ life = "new"
  /\ life' = "gone"
  /\ ending' = "noEvents"
  /\ connections' = connections - 1
  /\ UNCHANGED <<config, peerVars, socket, readVars, writeVars, cryptVars>>

\* bufferevent_socket_new failed: counted, discounted and deleted at once. (It
\* also breaks the event loop, which is module Worker's.)
TakeVariablesFails ==
  /\ life = "new"
  /\ life' = "gone"
  /\ ending' = "noEvents"
  /\ UNCHANGED <<config, peerVars, socket, readVars, writeVars, connections,
                 cryptVars>>

-----------------------------------------------------------------------------
(* The peer (external) *)

PeerSends(n) ==
  /\ life \in {"new", "open"} /\ ~peer_closed
  /\ sent + n <= MaxBytes
  /\ sent' = sent + n
  /\ socket' = socket + n
  /\ UNCHANGED <<config, peer_closed, readVars, writeVars, lifeVars, cryptVars>>

PeerCloses ==
  /\ life \in {"new", "open"} /\ ~peer_closed
  /\ peer_closed' = TRUE
  /\ UNCHANGED <<config, sent, socket, readVars, writeVars, lifeVars, cryptVars>>

-----------------------------------------------------------------------------
(* readcb *)

\* libevent has read n more bytes; rsize is what readcb finds in the buffer.
Arrives(n) ==
  /\ life = "open"
  /\ n \in 1 .. MaxRead /\ n <= socket
  /\ socket' = socket - n
  /\ UNCHANGED <<config, peerVars, writeVars>>

rsize(n) == input + n

\* The whole buffer is added each time, what was there before included.
Count(n) == bytes_received' = bytes_received + rsize(n)

\* Fault: one byte more than a packet is asked for.
EnoughLate(n) == rsize(n) > PacketLength

\* There is a packet in the buffer.
Enough(n) == rsize(n) >= PacketLength

\* Less than a packet: wait for more.
ReadShort(n) ==
  /\ Arrives(n) /\ Count(n)
  /\ ~Enough(n)
  /\ input' = rsize(n)
  /\ UNCHANGED <<bytes_drained, data_packets, starved, lifeVars, cryptVars>>

\* Fault: the limit is never looked at.
NeverOverLimit == FALSE

\* The client holds more packets than it may: one more than the limit is kept.
OverLimit == Len(data_packets) > MaxChecks

\* Too many: the connection and all its packets go.
ReadTooMany(n) ==
  /\ Arrives(n) /\ Count(n)
  /\ Enough(n)
  /\ OverLimit
  /\ input' = 0
  /\ ProperDestroy("tooMany")
  /\ UNCHANGED <<bytes_drained, starved>>

\* calloc failed: the packet stays in the buffer and the callback returns.
ReadNoMemory(n) ==
  /\ Arrives(n) /\ Count(n)
  /\ Enough(n)
  /\ ~OverLimit
  /\ input' = rsize(n)
  /\ starved' = TRUE
  /\ UNCHANGED <<bytes_drained, data_packets, lifeVars, cryptVars>>

\* Fault: the buffer is emptied, what follows the packet included.
RestDrained(n) == 0

\* What evbuffer_remove leaves of the buffer.
Rest(n) == rsize(n) - PacketLength

\* One packet is taken, however many there are.
ReadPacket(n) ==
  /\ Arrives(n) /\ Count(n)
  /\ Enough(n)
  /\ ~OverLimit
  /\ input' = Rest(n)
  /\ bytes_drained' = bytes_drained + PacketLength
  /\ data_packets' = Append(data_packets, PacketLength)
  /\ UNCHANGED <<starved, lifeVars, cryptVars>>

Readcb == \E n \in 1 .. MaxRead:
  ReadShort(n) \/ ReadTooMany(n) \/ ReadNoMemory(n) \/ ReadPacket(n)

-----------------------------------------------------------------------------
(* writecb *)

\* Whose IV the init packet carries: the client's own, or the worker's.
IvOf == IF transmission_iv # "null" THEN transmission_iv ELSE "shared"

\* The first time: send the init packet.
WriteInit ==
  /\ life = "open" /\ writing /\ ~init_sent
  /\ init_sent' = TRUE
  /\ iv' = IvOf
  /\ UNCHANGED <<config, peerVars, socket, readVars, writing, lifeVars,
                 cryptVars>>

\* When the init packet is out: nothing more to write.
WriteDone ==
  /\ life = "open" /\ writing /\ init_sent
  /\ writing' = FALSE
  /\ UNCHANGED <<config, peerVars, socket, readVars, init_sent, iv, lifeVars,
                 cryptVars>>

-----------------------------------------------------------------------------
(* eventcb *)

\* What has arrived is taken for a packet of an old client.
OldPacket == bytes_received = OldPacketLength /\ bytes_drained = 0

\* EOF once the socket is drained; a timeout or an error at any time. calloc
\* may fail where the old packet is stored, and then connection_closed runs
\* without it.
Eventcb(why) ==
  /\ life = "open"
  /\ why = "eof" => peer_closed /\ socket = 0
  /\ \/ ~OldPacket /\ ConnectionClosed(why, data_packets) /\ UNCHANGED <<input, starved>>
     \/ OldPacket /\ ConnectionClosed(why, Append(data_packets, input))
          /\ input' = 0 /\ UNCHANGED starved
     \/ OldPacket /\ ConnectionClosed(why, data_packets)
          /\ starved' = TRUE /\ UNCHANGED input
  /\ UNCHANGED <<config, peerVars, socket, bytes_received, bytes_drained, writeVars>>

-----------------------------------------------------------------------------
Next ==
  \/ TakeVariables
  \/ TakeVariablesFails
  \/ \E n \in 1 .. MaxBytes: PeerSends(n)
  \/ PeerCloses
  \/ Readcb
  \/ WriteInit
  \/ WriteDone
  \/ \E why \in {"eof", "timeout", "error"}: Eventcb(why)
  \/ ThreadTakes

Spec == Init /\ [][Next]_vars

-----------------------------------------------------------------------------
(* Properties *)

\* Every variable keeps its type, in particular the counters of network_client
\* never go below zero.
TypeOK ==
  /\ shared \in BOOLEAN /\ threaded \in BOOLEAN
  /\ thread_CI \in {"null", "shared"}
  /\ life \in {"new", "open", "job", "gone"}
  /\ ending \in {"none", "eof", "timeout", "error", "tooMany", "noCI", "noEvents"}
  /\ connections \in {0, 1}
  /\ sent \in Nat /\ socket \in Nat /\ peer_closed \in BOOLEAN
  /\ input \in Nat /\ bytes_received \in Nat /\ bytes_drained \in Nat
  /\ data_packets \in Seq(Nat)
  /\ starved \in BOOLEAN /\ init_sent \in BOOLEAN /\ writing \in BOOLEAN
  /\ iv \in {"none", "own", "shared"}
  /\ transmission_iv \in {"null", "own"} /\ CI \in {"null", "own", "shared"}
  /\ has_own_CI \in BOOLEAN /\ processing \in BOOLEAN

\* readcb takes one packet per call and is not called again for what it leaves:
\* unless an allocation failed, it leaves less than a packet.
NoPacketLeftBehind == life = "open" /\ ~starved => input < PacketLength

\* A peer that closes has every whole packet it sent handed over, in one job,
\* however its bytes were cut up on the way. What is less than one packet is
\* handed over as an old packet or forgotten.
EveryPacketHandedOver ==
  ending = "eof" /\ ~starved =>
    IF sent < PacketLength
      THEN data_packets \in {<<>>, <<sent>>}
      ELSE /\ life = "job"
           /\ data_packets = [i \in 1 .. sent \div PacketLength |-> PacketLength]

\* A connection never holds more than one packet above the limit, and keeps
\* none of them once it is found out.
HoldsAtMost == Len(data_packets) <= MaxChecks + 1

\* process_queue never runs without a crypt instance, and the one it decrypts
\* with was set up with the IV the peer was sent when the connection began: the
\* network's given at accept, the client's own made at the close, or the thread's
\* given when the job is taken, which must not replace the client's own.
DecryptsWithTheIvSent ==
  processing => CI # "null" /\ (iv # "none" => CI = iv)

\* The rest of the worker sees the life of a connection, and every way to end
\* it takes it out of network::connections exactly once.
Life == INSTANCE Connection WITH counted <- connections

ImplementsConnection == Life!Spec

\* send_nsca of the 2.x series sends a packet of OLD_PACKET_LENGTH bytes; the
\* server tells it from the length received. It is handed over.
OldClientsServed ==
  ending = "eof" /\ sent = OldPacketLength /\ ~starved =>
    data_packets = <<OldPacketLength>>
==============================================================================
