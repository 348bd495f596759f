------------------------- MODULE NetworkClientProofs -------------------------
(* Theorems about one connection, for packets, reads and limits of any size: *)
(* its types, the packets it holds and leaves behind, the IV its packets are *)
(* decrypted with, that it lives one life of module Connection, and that it  *)
(* hands over just the packets that were sent.                               *)
EXTENDS NetworkClient, TLAPS

-----------------------------------------------------------------------------
(* The inductive invariant *)

\* The client counts in network::connections exactly while it is open.
CountedWhileOpen == connections = IF life = "open" THEN 1 ELSE 0

\* Nothing is read before the client is accepted.
UnreadWhileNew ==
  life = "new" => input = 0 /\ bytes_drained = 0 /\ data_packets = <<>>

\* What readcb has drained is in the packets.
DrainedInPackets == life = "open" /\ bytes_drained = 0 => data_packets = <<>>

\* The IV of the mode.
ModeIv == IF shared THEN "shared" ELSE "own"

\* What is known of the pointers to IV and crypt instance: until it is closed a
\* client has the instance of the network or none; one that is handed over has an
\* own one in the mode without shared instances, and one that is processed has
\* the instance of its mode by whichever way.
IvFollowsMode ==
  /\ iv # "none" => iv = ModeIv
  /\ life = "new" => transmission_iv = "null" /\ CI = "null" /\ iv = "none"
  /\ life \in {"open", "job"} => transmission_iv = IF shared THEN "null" ELSE "own"
  /\ life = "new" \/ life = "open" => ~has_own_CI
  /\ life = "open" => CI = network_CI
  /\ life = "job" => has_own_CI = ~shared /\ (~shared => CI = "own")
  /\ processing => life = "job" /\ CI = ModeIv

IInv ==
  /\ TypeOK
  /\ CountedWhileOpen
  /\ UnreadWhileNew
  /\ DrainedInPackets
  /\ IvFollowsMode
  /\ NoPacketLeftBehind
  /\ HoldsAtMost

\* A client that is not accepted yet satisfies the invariant.
LEMMA Initial == Init => IInv
<1> SUFFICES ASSUME Init PROVE IInv
  OBVIOUS
<1>1. TypeOK
  <2>1. data_packets \in Seq(Nat)
    BY DEF Init
  <2> QED
    BY <2>1 DEF Init, TypeOK, encrypt_init
<1>3. NoPacketLeftBehind
  BY DEF Init, NoPacketLeftBehind
<1>4. HoldsAtMost
  <2>1. Len(data_packets) = 0
    BY DEF Init
  <2> QED
    BY <2>1, BoundsAssumption DEF HoldsAtMost
<1>2. CountedWhileOpen /\ UnreadWhileNew /\ DrainedInPackets /\ IvFollowsMode
  BY DEF Init, CountedWhileOpen, UnreadWhileNew, DrainedInPackets, IvFollowsMode
<1> QED
  BY <1>1, <1>2, <1>3, <1>4 DEF IInv

-----------------------------------------------------------------------------
(* One lemma per callback *)

LEMMA AcceptStep ==
  ASSUME IInv, TakeVariables \/ TakeVariablesFails
  PROVE  IInv'
<1> USE DEF IInv
<1>1. CASE TakeVariables
  <2> USE DEF TakeVariables
  <2>4. /\ CI' = network_CI /\ UNCHANGED <<has_own_CI, processing>>
        /\ transmission_iv' = IF shared THEN "null" ELSE "own"
    BY <1>1 DEF TakeCrypt, set_CI, IvFollowsMode
  <2>1. TypeOK' /\ CountedWhileOpen' /\ UnreadWhileNew'
    BY <1>1, <2>4 DEF TypeOK, CountedWhileOpen, UnreadWhileNew, network_CI, encrypt_init,
                config, peerVars, readVars
  <2>2. DrainedInPackets' /\ HoldsAtMost' /\ IvFollowsMode'
    BY <1>1, <2>4 DEF UnreadWhileNew, DrainedInPackets, HoldsAtMost,
                IvFollowsMode, ModeIv, network_CI, config, readVars
  <2>3. NoPacketLeftBehind'
    BY <1>1, SizesAssumption
       DEF TakeVariables, UnreadWhileNew, NoPacketLeftBehind, readVars
  <2> QED
    BY <2>1, <2>2, <2>3
<1>2. CASE TakeVariablesFails
  <2>1. TypeOK' /\ CountedWhileOpen' /\ UnreadWhileNew'
    BY <1>2 DEF TakeVariablesFails, TypeOK, CountedWhileOpen, UnreadWhileNew,
                config, peerVars, readVars, writeVars, cryptVars
  <2>2. DrainedInPackets' /\ HoldsAtMost' /\ IvFollowsMode' /\ NoPacketLeftBehind'
    BY <1>2 DEF TakeVariablesFails, DrainedInPackets, HoldsAtMost, IvFollowsMode,
                NoPacketLeftBehind, ModeIv, network_CI, encrypt_init, config, readVars, writeVars,
                cryptVars
  <2> QED
    BY <2>1, <2>2
<1> QED
  BY <1>1, <1>2

\* What the peer does is not seen before libevent reads it.
LEMMA PeerStep ==
  ASSUME IInv, NEW n \in 1 .. MaxBytes, PeerSends(n) \/ PeerCloses
  PROVE  IInv'
<1> USE DEF IInv
<1>1. UNCHANGED <<config, readVars, writeVars, lifeVars, cryptVars>>
  BY DEF PeerSends, PeerCloses
<1>2. TypeOK'
  <2>1. sent' \in Nat /\ socket' \in Nat /\ peer_closed' \in BOOLEAN
    <3>1. CASE PeerSends(n)
      BY <3>1, BoundsAssumption DEF PeerSends, TypeOK
    <3>2. CASE PeerCloses
      BY <3>2 DEF PeerCloses, TypeOK
    <3> QED
      BY <3>1, <3>2
  <2> QED
    BY <2>1, <1>1 DEF TypeOK, config, readVars, writeVars, lifeVars, cryptVars
<1>3. /\ CountedWhileOpen' /\ UnreadWhileNew' /\ DrainedInPackets'
      /\ IvFollowsMode' /\ NoPacketLeftBehind' /\ HoldsAtMost'
  BY <1>1 DEF CountedWhileOpen, UnreadWhileNew, DrainedInPackets, IvFollowsMode,
              NoPacketLeftBehind, HoldsAtMost, ModeIv, network_CI, encrypt_init, config, readVars,
              writeVars, lifeVars, cryptVars
<1> QED
  BY <1>2, <1>3

\* writecb: the IV that is sent is the one of the mode.
LEMMA WriteStep ==
  ASSUME IInv, WriteInit \/ WriteDone
  PROVE  IInv'
<1> USE DEF IInv
<1>1. UNCHANGED <<config, peerVars, socket, readVars, lifeVars, cryptVars>>
  BY DEF WriteInit, WriteDone
<1>2. TypeOK'
  BY DEF WriteInit, WriteDone, IvOf, TypeOK, config, peerVars, readVars, lifeVars,
         cryptVars
<1>3. IvFollowsMode'
  BY DEF WriteInit, WriteDone, IvOf, IvFollowsMode, ModeIv, network_CI, encrypt_init,
         config, lifeVars, cryptVars
<1>4. /\ CountedWhileOpen' /\ UnreadWhileNew' /\ DrainedInPackets'
      /\ NoPacketLeftBehind' /\ HoldsAtMost'
  BY <1>1 DEF CountedWhileOpen, UnreadWhileNew, DrainedInPackets, NoPacketLeftBehind,
              HoldsAtMost, readVars, lifeVars
<1> QED
  BY <1>2, <1>3, <1>4

\* readcb, whichever way it goes.
LEMMA ReadStep ==
  ASSUME IInv, Readcb
  PROVE  IInv'
<1> USE DEF IInv
<1>1. PICK n \in 1 .. MaxRead:
        ReadShort(n) \/ ReadTooMany(n) \/ ReadNoMemory(n) \/ ReadPacket(n)
  BY DEF Readcb
<1>2. /\ life = "open" /\ connections = 1
      /\ n \in Nat /\ n <= MaxRead /\ n <= socket
      /\ socket' = socket - n
      /\ UNCHANGED <<shared, threaded, thread_CI, sent, peer_closed, init_sent, writing, iv>>
      /\ bytes_received' = bytes_received + rsize(n)
      /\ rsize(n) \in Nat /\ rsize(n) = input + n
  BY <1>1, SizesAssumption
     DEF ReadShort, ReadTooMany, ReadNoMemory, ReadPacket, Arrives, Count, rsize,
         CountedWhileOpen, TypeOK, config, peerVars, writeVars
<1>3. CASE ReadShort(n)
  <2>1. /\ input' = rsize(n) /\ rsize(n) < PacketLength
        /\ UNCHANGED <<bytes_drained, data_packets, starved, life, ending, connections, cryptVars>>
    BY <1>2, <1>3, SizesAssumption DEF ReadShort, Enough, lifeVars
  <2> QED
    BY <1>2, <2>1
       DEF TypeOK, CountedWhileOpen, UnreadWhileNew, DrainedInPackets, IvFollowsMode,
           NoPacketLeftBehind, HoldsAtMost, ModeIv, network_CI, encrypt_init, cryptVars
<1>4. CASE ReadTooMany(n)
  <2>1. /\ input' = 0 /\ life' = "gone" /\ ending' = "tooMany" /\ connections' = 0
        /\ data_packets' = <<>>
        /\ UNCHANGED <<bytes_drained, starved, cryptVars>>
    BY <1>2, <1>4 DEF ReadTooMany, ProperDestroy
  <2>2. HoldsAtMost'
    BY <2>1, BoundsAssumption DEF HoldsAtMost
  <2> QED
    BY <1>2, <2>1, <2>2
       DEF TypeOK, CountedWhileOpen, UnreadWhileNew, DrainedInPackets, IvFollowsMode,
           NoPacketLeftBehind, ModeIv, network_CI, encrypt_init, cryptVars
<1>5. CASE ReadNoMemory(n)
  <2>1. /\ input' = rsize(n) /\ starved' = TRUE
        /\ UNCHANGED <<bytes_drained, data_packets, life, ending, connections, cryptVars>>
    BY <1>5 DEF ReadNoMemory, lifeVars
  <2> QED
    BY <1>2, <2>1
       DEF TypeOK, CountedWhileOpen, UnreadWhileNew, DrainedInPackets, IvFollowsMode,
           NoPacketLeftBehind, HoldsAtMost, ModeIv, network_CI, encrypt_init, cryptVars
<1>6. CASE ReadPacket(n)
  <2>1. /\ rsize(n) >= PacketLength
        /\ Len(data_packets) <= MaxChecks
        /\ input' = rsize(n) - PacketLength
        /\ bytes_drained' = bytes_drained + PacketLength
        /\ data_packets' = Append(data_packets, PacketLength)
        /\ UNCHANGED <<starved, life, ending, connections, cryptVars>>
    BY <1>6, BoundsAssumption DEF ReadPacket, Enough, OverLimit, Rest, lifeVars, TypeOK
  <2>2. TypeOK'
    BY <1>2, <2>1, SizesAssumption DEF TypeOK, cryptVars
  <2>3. NoPacketLeftBehind'
    BY <1>2, <2>1, SizesAssumption DEF NoPacketLeftBehind, TypeOK
  <2>4. HoldsAtMost'
    BY <2>1, SizesAssumption, BoundsAssumption DEF HoldsAtMost, TypeOK
  <2>5. DrainedInPackets'
    BY <2>1, SizesAssumption DEF DrainedInPackets, TypeOK
  <2> QED
    BY <1>2, <2>1, <2>2, <2>3, <2>4, <2>5
       DEF CountedWhileOpen, UnreadWhileNew, IvFollowsMode, ModeIv, network_CI,
           encrypt_init, cryptVars
<1> QED
  BY <1>1, <1>3, <1>4, <1>5, <1>6

\* What connection_closed does, for the packets eventcb may call it with.
LEMMA ClosedStep ==
  ASSUME IInv, life = "open",
         NEW why \in {"eof", "timeout", "error"},
         NEW packets \in Seq(Nat), Len(packets) <= MaxChecks + 1,
         ConnectionClosed(why, packets),
         UNCHANGED <<config, iv>>
  PROVE  /\ connections' = 0 /\ life' \in {"job", "gone"}
         /\ ending' \in {why, "noCI"}
         /\ CI' \in {"null", "own", "shared"} /\ transmission_iv' \in {"null", "own"}
         /\ has_own_CI' \in BOOLEAN /\ processing' \in BOOLEAN
         /\ data_packets' \in Seq(Nat)
         /\ IvFollowsMode'
         /\ HoldsAtMost'
<1> USE DEF IInv
<1>1. connections' = 0
  BY DEF ConnectionClosed, CountedWhileOpen
<1>2. /\ CI \in {"null", "own", "shared"} /\ data_packets \in Seq(Nat)
      /\ transmission_iv \in {"null", "own"}
      /\ has_own_CI \in BOOLEAN /\ processing \in BOOLEAN /\ threaded \in BOOLEAN
  BY DEF TypeOK
<1>3. ASSUME OwnInstance
      PROVE  /\ transmission_iv' = transmission_iv
             /\ CI' \in {"null", "own", "shared"}
             /\ has_own_CI' \in BOOLEAN /\ has_own_CI' = ~shared
             /\ ~shared => CI' = "own"
             /\ shared /\ ~threaded => CI' = "shared"
  BY <1>2, <1>3 DEF OwnInstance, IvFollowsMode, network_CI, encrypt_init, TypeOK
<1>4. CASE /\ life' = "gone" /\ ending' = "noCI"
           /\ data_packets' = <<>>
           /\ UNCHANGED cryptVars
  <2>1. HoldsAtMost'
    BY <1>4, BoundsAssumption DEF HoldsAtMost
  <2> QED
    BY <1>1, <1>2, <1>4, <2>1 DEF IvFollowsMode, ModeIv, config, cryptVars
<1>5. CASE /\ OwnInstance
           /\ life' = "job" /\ ending' = why
           /\ data_packets' = packets
           /\ processing' = ~threaded
  BY <1>1, <1>2, <1>3, <1>5 DEF IvFollowsMode, ModeIv, HoldsAtMost, config
<1>6. CASE /\ OwnInstance
           /\ life' = "gone" /\ ending' = why
           /\ UNCHANGED <<data_packets, processing>>
  BY <1>1, <1>2, <1>3, <1>6 DEF IvFollowsMode, ModeIv, HoldsAtMost, config
<1> QED
  BY <1>4, <1>5, <1>6 DEF ConnectionClosed

\* eventcb: the packets it hands to connection_closed are few enough.
LEMMA EventStep ==
  ASSUME IInv, NEW why \in {"eof", "timeout", "error"}, Eventcb(why)
  PROVE  IInv'
<1> USE DEF IInv
<1>1. /\ life = "open"
      /\ UNCHANGED <<config, peerVars, socket, bytes_received, bytes_drained, writeVars>>
      /\ input' \in {0, input} /\ starved' \in {starved, TRUE}
  BY DEF Eventcb
<1>2. PICK packets \in {data_packets, Append(data_packets, input)}:
        /\ ConnectionClosed(why, packets)
        /\ packets # data_packets => OldPacket
  BY DEF Eventcb
<1>3. packets \in Seq(Nat) /\ Len(packets) <= MaxChecks + 1
  <2>1. CASE packets = data_packets
    BY <2>1 DEF TypeOK, HoldsAtMost
  <2>2. CASE packets # data_packets
    <3>1. data_packets = <<>> /\ packets = Append(<<>>, input)
      BY <1>1, <1>2, <2>2 DEF OldPacket, DrainedInPackets
    <3> QED
      BY <3>1, BoundsAssumption DEF TypeOK
  <2> QED
    BY <2>1, <2>2
<1>4. /\ connections' = 0 /\ life' \in {"job", "gone"}
      /\ ending' \in {why, "noCI"}
      /\ CI' \in {"null", "own", "shared"} /\ transmission_iv' \in {"null", "own"}
      /\ has_own_CI' \in BOOLEAN /\ processing' \in BOOLEAN
      /\ data_packets' \in Seq(Nat)
      /\ IvFollowsMode' /\ HoldsAtMost'
  BY <1>1, <1>2, <1>3, ClosedStep DEF writeVars
<1>5. TypeOK'
  <2>1. input' \in Nat
    BY <1>1 DEF TypeOK
  <2>3. starved' \in BOOLEAN
    BY <1>1, Zenon DEF TypeOK
  <2>2. /\ life' \in {"new", "open", "job", "gone"} /\ connections' \in {0, 1}
        /\ ending' \in {"none", "eof", "timeout", "error", "tooMany", "noCI", "noEvents"}
    BY <1>4
  <2> QED
    BY <1>1, <1>4, <2>1, <2>2, <2>3 DEF TypeOK, config, peerVars, writeVars
<1>6. CountedWhileOpen' /\ UnreadWhileNew' /\ DrainedInPackets' /\ NoPacketLeftBehind'
  BY <1>4 DEF CountedWhileOpen, UnreadWhileNew, DrainedInPackets, NoPacketLeftBehind
<1> QED
  BY <1>4, <1>5, <1>6

\* A thread takes the job: its instance is that of the shared mode, and in the
\* other mode the client has its own.
LEMMA TakeStep ==
  ASSUME IInv, ThreadTakes
  PROVE  IInv'
<1> USE DEF IInv
<1>1. /\ life = "job" /\ CI' = (IF has_own_CI THEN CI ELSE thread_CI)
      /\ processing' = TRUE /\ thread_CI = "shared"
      /\ UNCHANGED <<config, peerVars, socket, readVars, writeVars, lifeVars,
                     transmission_iv, has_own_CI>>
  BY DEF ThreadTakes, set_CI, TypeOK
<1>2. TypeOK'
  BY <1>1 DEF TypeOK, config, peerVars, readVars, writeVars, lifeVars
<1>3. IvFollowsMode'
  BY <1>1 DEF IvFollowsMode, ModeIv, config, writeVars, lifeVars
<1>4. /\ CountedWhileOpen' /\ UnreadWhileNew' /\ DrainedInPackets'
      /\ NoPacketLeftBehind' /\ HoldsAtMost'
  BY <1>1 DEF CountedWhileOpen, UnreadWhileNew, DrainedInPackets, NoPacketLeftBehind,
              HoldsAtMost, readVars, lifeVars
<1> QED
  BY <1>2, <1>3, <1>4

\* Every step of a connection, its peer and libevent keeps the invariant.
LEMMA Inductive == IInv /\ [Next]_vars => IInv'
<1> SUFFICES ASSUME IInv, [Next]_vars PROVE IInv'
  OBVIOUS
<1>1. CASE TakeVariables \/ TakeVariablesFails
  BY <1>1, AcceptStep
<1>2. ASSUME NEW n \in 1 .. MaxBytes, PeerSends(n) PROVE IInv'
  BY <1>2, PeerStep
<1>3. CASE PeerCloses
  <2>1. /\ UNCHANGED <<config, sent, socket, readVars, writeVars, lifeVars, cryptVars>>
        /\ peer_closed'
    BY <1>3 DEF PeerCloses
  <2> QED
    BY <2>1 DEF IInv, TypeOK, CountedWhileOpen, UnreadWhileNew, DrainedInPackets,
                IvFollowsMode, NoPacketLeftBehind, HoldsAtMost, ModeIv, network_CI, encrypt_init,
                config, readVars, writeVars, lifeVars, cryptVars
<1>4. CASE Readcb
  BY <1>4, ReadStep
<1>5. CASE WriteInit \/ WriteDone
  BY <1>5, WriteStep
<1>6. ASSUME NEW why \in {"eof", "timeout", "error"}, Eventcb(why) PROVE IInv'
  BY <1>6, EventStep
<1>7. CASE UNCHANGED vars
  BY <1>7 DEF vars, IInv, TypeOK, CountedWhileOpen, UnreadWhileNew, DrainedInPackets,
              IvFollowsMode, NoPacketLeftBehind, HoldsAtMost, ModeIv, network_CI, encrypt_init,
              config, peerVars, readVars, writeVars, lifeVars, cryptVars
<1>8. CASE ThreadTakes
  BY <1>8, TakeStep
<1> QED
  BY <1>1, <1>2, <1>3, <1>4, <1>5, <1>6, <1>7, <1>8 DEF Next

\* The invariant holds in every state of every behaviour.
LEMMA Invariance == Spec => []IInv
<1> QED
  BY Initial, Inductive, PTL DEF Spec

-----------------------------------------------------------------------------
(* The theorems *)

\* Type correctness of network_client: in particular a connection never takes
\* more than one off network::connections, and the buffer never underflows.
THEOREM TypeCorrect == Spec => []TypeOK
<1>1. IInv => TypeOK
  BY DEF IInv
<1> QED
  BY <1>1, Invariance, PTL

\* readcb, which takes one packet per call, leaves none in the buffer.
THEOREM NothingLeftBehind == Spec => []NoPacketLeftBehind
<1>1. IInv => NoPacketLeftBehind
  BY DEF IInv
<1> QED
  BY <1>1, Invariance, PTL

\* A connection holds at most one packet above max_checks_per_connection.
THEOREM BoundedHold == Spec => []HoldsAtMost
<1>1. IInv => HoldsAtMost
  BY DEF IInv
<1> QED
  BY <1>1, Invariance, PTL

\* In every mode, with and without threads, process_queue has an instance, and
\* it is one that was set up with the IV the peer was sent.
THEOREM RightIv == Spec => []DecryptsWithTheIvSent
<1>1. IInv => DecryptsWithTheIvSent
  BY DEF IInv, IvFollowsMode, ModeIv, DecryptsWithTheIvSent
<1> QED
  BY <1>1, Invariance, PTL

\* Every step of a connection is a step of the abstract life or leaves it alone:
\* it is counted once, discounted once, and a job only with packets in it.
LEMMA LifeStep == IInv /\ [Next]_vars => [Life!Next]_(Life!vars)
<1> SUFFICES ASSUME IInv, [Next]_vars PROVE [Life!Next]_(Life!vars)
  OBVIOUS
<1> USE DEF Life!Next, Life!vars
<1>1. CASE TakeVariables
  BY <1>1 DEF TakeVariables, IInv, CountedWhileOpen, Life!Accept
<1>2. CASE TakeVariablesFails
  BY <1>2 DEF TakeVariablesFails, Life!Refuse
<1>3. ASSUME NEW n \in 1 .. MaxBytes, PeerSends(n) PROVE [Life!Next]_(Life!vars)
  BY <1>3 DEF PeerSends, lifeVars
<1>4. CASE PeerCloses \/ WriteInit \/ WriteDone \/ ThreadTakes
  BY <1>4 DEF PeerCloses, WriteInit, WriteDone, ThreadTakes, lifeVars
<1>5. ASSUME NEW n \in 1 .. MaxRead,
             ReadShort(n) \/ ReadNoMemory(n) \/ ReadPacket(n)
      PROVE  [Life!Next]_(Life!vars)
  BY <1>5 DEF ReadShort, ReadNoMemory, ReadPacket, lifeVars
<1>6. ASSUME NEW n \in 1 .. MaxRead, ReadTooMany(n) PROVE [Life!Next]_(Life!vars)
  BY <1>6 DEF ReadTooMany, Arrives, ProperDestroy, IInv, CountedWhileOpen, Life!Vanish
<1>7. ASSUME NEW why \in {"eof", "timeout", "error"}, Eventcb(why)
      PROVE  [Life!Next]_(Life!vars)
  <2>1. life = "open" /\ connections' = 0 /\ life' \in {"job", "gone"}
    BY <1>7 DEF Eventcb, ConnectionClosed, IInv, CountedWhileOpen
  <2> QED
    BY <2>1 DEF Life!HandOver, Life!Vanish
<1>8. CASE UNCHANGED vars
  BY <1>8 DEF vars, lifeVars
<1> QED
  BY <1>1, <1>2, <1>3, <1>4, <1>5, <1>6, <1>7, <1>8 DEF Next, Readcb

\* The life of a network_client is one of module Connection.
THEOREM Implements == Spec => ImplementsConnection
<1>1. Init => Life!Init
  BY DEF Init, Life!Init
<1> QED
  BY <1>1, Invariance, LifeStep, PTL DEF Spec, ImplementsConnection, Life!Spec

-----------------------------------------------------------------------------
(* Every packet is handed over *)

\* The connection is over, and nothing of it moves.
Ended == life \in {"job", "gone"}

\* Until then each byte it was sent is in the socket, in the buffer or in one of
\* its packets, and the packets are whole.
BytesAccounted ==
  /\ (ending = "none") = ~Ended
  /\ ~Ended =>
       /\ sent = socket + input + bytes_drained
       /\ bytes_drained = Len(data_packets) * PacketLength
       /\ \A i \in 1 .. Len(data_packets): data_packets[i] = PacketLength

HandedInv == IInv /\ BytesAccounted /\ EveryPacketHandedOver

\* How many whole packets there are in q packets and a bit.
LEMMA WholePackets ==
  ASSUME NEW q \in Nat, NEW r \in Nat, NEW m \in Nat \ {0}, r < m
  PROVE  /\ (q * m + r) \div m = q
         /\ (q = 0) = (q * m + r < m)
<1>1. q * m \in Nat /\ q * m + r \in Nat
  OBVIOUS
<1>2. (q * m + r) \div m = q
  OBVIOUS
<1>3. q > 0 => q * m >= m
  OBVIOUS
<1> QED
  BY <1>1, <1>2, <1>3

\* One packet more is one length more.
LEMMA OneMore ==
  ASSUME NEW q \in Nat, NEW m \in Nat
  PROVE  (q + 1) * m = q * m + m
OBVIOUS

\* readcb moves bytes from the socket to the buffer, and whole packets on.
LEMMA ReadKeepsBytes ==
  ASSUME HandedInv, IInv', Readcb
  PROVE  BytesAccounted' /\ EveryPacketHandedOver'
<1> USE DEF HandedInv, IInv
<1>1. PICK n \in 1 .. MaxRead:
        ReadShort(n) \/ ReadTooMany(n) \/ ReadNoMemory(n) \/ ReadPacket(n)
  BY DEF Readcb
<1>2. /\ life = "open" /\ ending = "none"
      /\ n \in Nat /\ socket' = socket - n /\ sent' = sent
      /\ socket \in Nat /\ input \in Nat /\ bytes_drained \in Nat
      /\ sent = socket + input + bytes_drained
      /\ bytes_drained = Len(data_packets) * PacketLength
      /\ \A i \in 1 .. Len(data_packets): data_packets[i] = PacketLength
  BY <1>1, SizesAssumption
     DEF ReadShort, ReadTooMany, ReadNoMemory, ReadPacket, Arrives, BytesAccounted,
         Ended, TypeOK, peerVars
<1>3. CASE ReadShort(n) \/ ReadNoMemory(n)
  <2>1. /\ input' = input + n
        /\ UNCHANGED <<bytes_drained, data_packets, life, ending>>
    BY <1>3 DEF ReadShort, ReadNoMemory, rsize, lifeVars
  <2>2. sent' = socket' + input' + bytes_drained'
    BY <1>2, <2>1
  <2>3. /\ bytes_drained' = Len(data_packets') * PacketLength
        /\ \A i \in 1 .. Len(data_packets'): data_packets'[i] = PacketLength
    BY <1>2, <2>1
  <2> QED
    BY <1>2, <2>1, <2>2, <2>3 DEF BytesAccounted, Ended, EveryPacketHandedOver
<1>4. CASE ReadTooMany(n)
  BY <1>4 DEF ReadTooMany, ProperDestroy, BytesAccounted, Ended, EveryPacketHandedOver
<1>5. CASE ReadPacket(n)
  <2>1. /\ input' = (input + n) - PacketLength
        /\ bytes_drained' = bytes_drained + PacketLength
        /\ data_packets' = Append(data_packets, PacketLength)
        /\ UNCHANGED <<life, ending>>
    BY <1>5 DEF ReadPacket, Rest, rsize, lifeVars
  <2>2. /\ data_packets \in Seq(Nat)
        /\ Len(data_packets') = Len(data_packets) + 1
        /\ \A i \in 1 .. Len(data_packets'): data_packets'[i] = PacketLength
    BY <1>2, <2>1, SizesAssumption DEF TypeOK
  <2>3. bytes_drained' = Len(data_packets') * PacketLength
    <3>1. Len(data_packets) \in Nat /\ PacketLength \in Nat
      BY <2>2, SizesAssumption
    <3> QED
      BY <1>2, <2>1, <2>2, <3>1, OneMore
  <2>4. sent' = socket' + input' + bytes_drained'
    BY <1>2, <2>1, SizesAssumption
  <2> QED
    BY <1>2, <2>1, <2>2, <2>3, <2>4 DEF BytesAccounted, Ended, EveryPacketHandedOver
<1> QED
  BY <1>1, <1>3, <1>4, <1>5

\* eventcb, for the end of the peer's bytes: the socket is empty, so that all
\* there is are the packets and less than one packet in the buffer.
LEMMA EventHandsOver ==
  ASSUME HandedInv, IInv', NEW why \in {"eof", "timeout", "error"}, Eventcb(why)
  PROVE  BytesAccounted' /\ EveryPacketHandedOver'
<1> USE DEF HandedInv, IInv
<1> DEFINE q == Len(data_packets)
<1>1. /\ life = "open" /\ ending = "none" /\ sent' = sent
      /\ why = "eof" => socket = 0
      /\ q \in Nat /\ data_packets \in Seq(Nat)
      /\ socket \in Nat /\ input \in Nat /\ sent \in Nat
      /\ sent = socket + input + q * PacketLength
      /\ bytes_drained = q * PacketLength
      /\ \A i \in 1 .. q: data_packets[i] = PacketLength
  BY DEF Eventcb, BytesAccounted, Ended, TypeOK, peerVars
<1>2. PICK packets \in {data_packets, Append(data_packets, input)}:
        /\ ConnectionClosed(why, packets)
        /\ packets # data_packets => OldPacket
        /\ OldPacket /\ ~starved' => packets = Append(data_packets, input)
        /\ ~starved' => ~starved
  BY DEF Eventcb
<1>3. /\ ending' \in {why, "noCI"} /\ life' \in {"job", "gone"}
      /\ ending' = why =>
           /\ data_packets' = packets
           /\ packets # <<>> => life' = "job"
  BY <1>2 DEF ConnectionClosed
<1>4. BytesAccounted'
  BY <1>3 DEF BytesAccounted, Ended
<1>5. ASSUME ending' = "eof", ~starved'
      PROVE  IF sent < PacketLength
               THEN data_packets' \in {<<>>, <<sent>>}
               ELSE /\ life' = "job"
                    /\ data_packets' = [i \in 1 .. sent \div PacketLength |-> PacketLength]
  <2>1. /\ why = "eof" /\ data_packets' = packets
        /\ packets # <<>> => life' = "job"
    BY <1>3, <1>5
  <2>2. sent = q * PacketLength + input /\ input < PacketLength
    <3>1. input < PacketLength
      BY <1>1, <1>2, <1>5 DEF NoPacketLeftBehind
    <3>2. q * PacketLength \in Nat
      BY <1>1, SizesAssumption
    <3> QED
      BY <1>1, <2>1, <3>1, <3>2
  <2>3. sent \div PacketLength = q /\ ((q = 0) = (sent < PacketLength))
    <3>1. PacketLength \in Nat \ {0}
      BY SizesAssumption
    <3> HIDE DEF q
    <3>2. /\ (q * PacketLength + input) \div PacketLength = q
          /\ (q = 0) = (q * PacketLength + input < PacketLength)
      BY <1>1, <2>2, <3>1, WholePackets
    <3> QED
      BY <2>2, <3>2
  <2>4. CASE q = 0
    <3>1. data_packets = <<>> /\ sent = input /\ sent < PacketLength
      BY <1>1, <2>2, <2>3, <2>4, SizesAssumption
    <3>2. packets \in {<<>>, <<sent>>}
      BY <1>2, <3>1
    <3> QED
      BY <2>1, <3>1, <3>2
  <2>5. CASE q # 0
    <3>1. ~(sent < PacketLength)
      BY <2>3, <2>5
    <3>2. packets = data_packets
      <4>1. bytes_drained # 0
        <5>1. bytes_drained = 0 => data_packets = <<>>
          BY <1>1 DEF DrainedInPackets
        <5> QED
          BY <2>5, <5>1
      <4> QED
        BY <1>2, <4>1 DEF OldPacket
    <3>3. packets # <<>>
      BY <2>5, <3>2
    <3>4. packets = [i \in 1 .. q |-> PacketLength]
      BY <1>1, <3>2
    <3> QED
      BY <2>1, <2>3, <3>1, <3>3, <3>4
  <2> QED
    BY <2>4, <2>5
<1>6. EveryPacketHandedOver'
  BY <1>1, <1>5 DEF EveryPacketHandedOver
<1> QED
  BY <1>4, <1>6

\* Every step keeps the account of the bytes.
LEMMA HandedKept == HandedInv /\ [Next]_vars => HandedInv'
<1> SUFFICES ASSUME HandedInv, [Next]_vars PROVE HandedInv'
  OBVIOUS
<1>1. IInv'
  BY Inductive DEF HandedInv
<1> SUFFICES BytesAccounted' /\ EveryPacketHandedOver'
  BY <1>1 DEF HandedInv
<1>2. CASE Readcb
  BY <1>1, <1>2, ReadKeepsBytes
<1>3. ASSUME NEW why \in {"eof", "timeout", "error"}, Eventcb(why)
      PROVE  BytesAccounted' /\ EveryPacketHandedOver'
  BY <1>1, <1>3, EventHandsOver
<1>4. CASE TakeVariables \/ TakeVariablesFails
  BY <1>4 DEF TakeVariables, TakeVariablesFails, HandedInv, BytesAccounted, Ended,
              EveryPacketHandedOver, peerVars, readVars
<1>5. ASSUME NEW n \in 1 .. MaxBytes, PeerSends(n)
      PROVE  BytesAccounted' /\ EveryPacketHandedOver'
  <2>1. /\ life \in {"new", "open"} /\ n \in Nat
        /\ sent' = sent + n /\ socket' = socket + n
        /\ UNCHANGED <<readVars, lifeVars>>
    BY <1>5, BoundsAssumption DEF PeerSends
  <2>2. sent \in Nat /\ socket \in Nat /\ input \in Nat /\ bytes_drained \in Nat
    BY DEF HandedInv, IInv, TypeOK
  <2>3. EveryPacketHandedOver'
    BY <2>1 DEF HandedInv, BytesAccounted, Ended, EveryPacketHandedOver, lifeVars
  <2>4. BytesAccounted'
    BY <2>1, <2>2 DEF HandedInv, BytesAccounted, Ended, readVars, lifeVars
  <2> QED
    BY <2>3, <2>4
<1>6. CASE PeerCloses \/ WriteInit \/ WriteDone \/ ThreadTakes \/ UNCHANGED vars
  <2>1. UNCHANGED <<sent, socket, readVars, lifeVars>>
    BY <1>6 DEF PeerCloses, WriteInit, WriteDone, ThreadTakes, vars, peerVars
  <2> QED
    BY <2>1 DEF HandedInv, BytesAccounted, Ended, EveryPacketHandedOver,
                readVars, lifeVars
<1> QED
  BY <1>2, <1>3, <1>4, <1>5, <1>6 DEF Next

\* A peer that closes has every whole packet it sent handed over, in one job,
\* however network_client's reads cut its bytes up: unless an allocation
\* failed, none is lost, repeated or cut, and less than a packet is what is
\* taken for an old client's packet or forgotten.
THEOREM NoPacketLost == Spec => []EveryPacketHandedOver
<1>1. Init => HandedInv
  <2>1. Init => BytesAccounted /\ EveryPacketHandedOver
    <3>1. Init => Len(data_packets) = 0
      BY DEF Init
    <3> QED
      BY <3>1, SizesAssumption DEF Init, BytesAccounted, Ended, EveryPacketHandedOver
  <2> QED
    BY <2>1, Initial DEF HandedInv
<1>2. HandedInv => EveryPacketHandedOver
  BY DEF HandedInv
<1> QED
  BY <1>1, <1>2, HandedKept, PTL DEF Spec
==============================================================================
