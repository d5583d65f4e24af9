---------------------------- MODULE NattyFrames ----------------------------
(***************************************************************************)
(* The bytes of the watch's datagrams: the offsets of NattyProtocol.h, the  *)
(* senders of NattyClientDev.c, what ntyNetworkSendFrame adds, and the      *)
(* checksum.  A frame maps the offsets written to bytes, and a byte is      *)
(* known by the field it belongs to and its place there; what was never     *)
(* written is Blank, one of the zeros the buffers are filled with.          *)
(***************************************************************************)
EXTENDS Integers, Sequences, SequencesExt

-----------------------------------------------------------------------------
(* Offsets and sizes. *)

NEY_PROTO_VERSION_IDX == 0
NTY_PROTO_MESSAGE_TYPE == NEY_PROTO_VERSION_IDX + 1
NTY_PROTO_TYPE_IDX == NTY_PROTO_MESSAGE_TYPE + 1
NTY_PROTO_DEVID_IDX == NTY_PROTO_TYPE_IDX + 1
NTY_PROTO_ACKNUM_IDX == NTY_PROTO_DEVID_IDX + 8
NTY_PROTO_DEST_DEVID_IDX == NTY_PROTO_ACKNUM_IDX + 4
NTY_PROTO_CRC_IDX == NTY_PROTO_DEST_DEVID_IDX + 8
NTY_PROTO_LOGIN_REQ_CRC_IDX == NTY_PROTO_ACKNUM_IDX + 4
NTY_PROTO_DATAPACKET_CONTENT_COUNT_IDX == NTY_PROTO_DEST_DEVID_IDX + 8
NTY_PROTO_DATAPACKET_CONTENT_IDX == NTY_PROTO_DATAPACKET_CONTENT_COUNT_IDX + 2
NTY_PROTO_P2P_NOTIFY_CRC_IDX == NTY_PROTO_DEST_DEVID_IDX + 8 + 4 + 2

CACHE_BUFFER_SIZE == 1048

-----------------------------------------------------------------------------
(* Reading and writing. *)

Blank == <<"zero", 0>>

\* The bytes of f, and those of g where f has none.
Over(f, g) == [k \in DOMAIN f \cup DOMAIN g |-> IF k \in DOMAIN f THEN f[k] ELSE g[k]]

\* ntyU16Datacpy, ntyU32Datacpy, ntyU64Datacpy, memcpy: size bytes from offset at.
Put(buf, at, field, size) == Over([k \in at..(at + size - 1) |-> <<field, k - at>>], buf)

\* ntyU8ArrayToU16, ntyU8ArrayToU32, ntyU8ArrayToU64, memcpy.
Get(buf, at, size) ==
  [i \in 0..(size - 1) |-> IF at + i \in DOMAIN buf THEN buf[at + i] ELSE Blank]

Whole(field, size) == [i \in 0..(size - 1) |-> <<field, i>>]

Header(msg, type) ==
  Put(Put(Put(Put(<<>>, NEY_PROTO_VERSION_IDX, "A", 1), NTY_PROTO_MESSAGE_TYPE, msg, 1),
          NTY_PROTO_TYPE_IDX, type, 1),
      NTY_PROTO_DEVID_IDX, "devid", 8)

ToFriend(msg, type) == Put(Header(msg, type), NTY_PROTO_DEST_DEVID_IDX, "dest", 8)

\* Mistake: the number is written whatever the frame is.
BugSent(buf, len) ==
  LET copy == [k \in DOMAIN buf \cap (0..(len - 1)) |-> buf[k]]
      numbered == Put(copy, NTY_PROTO_ACKNUM_IDX, "ackNum", 4)
  IN  [length |-> len, bytes |-> Put(numbered, len - 4, "crc", 4)]

\* ntyNetworkSendFrame: copy len bytes, put the network's number into a
\* request, close with the checksum.
Sent(buf, len) ==
  LET copy == [k \in DOMAIN buf \cap (0..(len - 1)) |-> buf[k]]
      numbered == IF buf[NTY_PROTO_MESSAGE_TYPE] = <<"MSG_REQ", 0>>
                  THEN Put(copy, NTY_PROTO_ACKNUM_IDX, "ackNum", 4) ELSE copy
  IN  [length |-> len, bytes |-> Put(numbered, len - 4, "crc", 4)]

-----------------------------------------------------------------------------
(* To the server. *)

\* sendLoginPacket, sendTimeCheckPacket, heartbeat.
SimpleFrame(type) == Sent(Header("MSG_REQ", type), NTY_PROTO_LOGIN_REQ_CRC_IDX + 4)

\* sendProxyDataPacketReq and sendP2PDataPacketReq, from the count on: buf holds
\* length bytes of content.
DataFrame(buf, length) ==
  Sent(Put(buf, NTY_PROTO_DATAPACKET_CONTENT_COUNT_IDX, "count", 2),
       NTY_PROTO_DATAPACKET_CONTENT_IDX + length + 4)

\* What a caller of the two leaves in buf: sendProxyUserDataPacket's data.
Content(length) == Put(<<>>, NTY_PROTO_DATAPACKET_CONTENT_IDX, "content", length)

sendProxyUserDataPacket(length) ==
  DataFrame(Over(ToFriend("MSG_REQ", "DATAPACKET_REQ"), Content(length)), length)

sendProxyDataPacketAck ==
  Sent(Put(ToFriend("MSG_ACK", "DATAPACKET_ACK"), NTY_PROTO_ACKNUM_IDX, "ack", 4),
       NTY_PROTO_CRC_IDX + 4)

sendP2PConnectNotify ==
  Sent(ToFriend("MSG_REQ", "P2P_NOTIFY_REQ"), NTY_PROTO_P2P_NOTIFY_CRC_IDX + 4)

sendP2PConnectNotifyAck ==
  Sent(Put(ToFriend("MSG_ACK", "P2P_NOTIFY_ACK"), NTY_PROTO_ACKNUM_IDX, "ack + 1", 4),
       NTY_PROTO_CRC_IDX + 4)

-----------------------------------------------------------------------------
(* To a friend's own address.  A friend is what the tree holds of an id,     *)
(* [isP2P, addr, port, counter]; a sender's result is the frame and the      *)
(* friend after it, the frame Refused where nothing is sent.  (An id that is *)
(* not in the tree is a null pointer, which all of them read.)               *)

Refused == [length |-> 0, bytes |-> <<>>]

NoAddress == {"zero", "ones"}

sendP2PHeartbeat(friend) ==
  IF friend.isP2P = 0 THEN [frame |-> Refused, friend |-> friend]
  ELSE [frame |-> Sent(ToFriend("MSG_REQ", "P2P_HEARTBEAT_REQ"), NTY_PROTO_CRC_IDX + 4),
        friend |-> [friend EXCEPT !.counter = @ + 1]]

sendP2PHeartbeatAck(friend) ==
  [frame |-> IF friend.isP2P = 0 THEN Refused
             ELSE Sent(ToFriend("MSG_ACK", "P2P_HEARTBEAT_ACK"), NTY_PROTO_CRC_IDX + 4),
   friend |-> friend]

sendP2PConnectReq(friend) ==
  IF friend.isP2P = 1 THEN [frame |-> Refused, friend |-> friend]
  ELSE IF friend.addr \in NoAddress \/ friend.port \in NoAddress
  THEN [frame |-> Refused, friend |-> [friend EXCEPT !.isP2P = 0]]
  ELSE [frame |-> Sent(ToFriend("MSG_REQ", "P2P_CONNECT_REQ"), NTY_PROTO_CRC_IDX + 4),
        friend |-> friend]

\* The answer goes out as a request, and so the network's number replaces the
\* number of what it answers.
sendP2PConnectAck(friend) ==
  [frame |-> Sent(Put(ToFriend("MSG_REQ", "P2P_CONNECT_ACK"), NTY_PROTO_ACKNUM_IDX,
                      "ack + 1", 4), NTY_PROTO_CRC_IDX + 4),
   friend |-> friend]

sendP2PDataPacketReq(friend, length) ==
  [frame |-> DataFrame(Over(ToFriend("MSG_REQ", "P2PDATAPACKET_REQ"), Content(length)), length),
   friend |-> friend]

sendP2PDataPacketAck(friend) ==
  [frame |-> Sent(Put(ToFriend("MSG_ACK", "P2PDATAPACKET_ACK"), NTY_PROTO_ACKNUM_IDX,
                      "ack + 1", 4), NTY_PROTO_CRC_IDX + 4),
   friend |-> friend]

-----------------------------------------------------------------------------
(* The checksum.  A word and a byte are the sets of their bits that are 1.   *)

WordBits == 0..31

NTY_CRC_KEY == {26, 23, 22, 16, 12, 11, 10, 8, 7, 5, 4, 2, 1, 0}

XorBits(a, b) == (a \ b) \cup (b \ a)

Shl(w, n) == {b + n : b \in w} \cap WordBits

Shr(w, n) == {b - n : b \in w} \cap WordBits

\* One of the eight rounds of ntyGenCrcTable.
Round(w) == IF 31 \in w THEN XorBits(Shl(w, 1), NTY_CRC_KEY) ELSE Shl(w, 1)

\* Mistake: seven rounds.
BugCrcTable ==
  [byte \in SUBSET (0..7) |->
     LET word[j \in 0..7] == IF j = 0 THEN Shl(byte, 24) ELSE Round(word[j - 1])
     IN  word[7]]

ntyGenCrcTable ==
  [byte \in SUBSET (0..7) |->
     LET word[j \in 0..8] == IF j = 0 THEN Shl(byte, 24) ELSE Round(word[j - 1])
     IN  word[8]]

\* One byte of ntyGenCrcValue's loop.
Feed(crc, byte) == XorBits(Shl(crc, 8), ntyGenCrcTable[XorBits(Shr(crc, 24), byte)])

ntyGenCrcValue(bytes) ==
  LET crc[i \in 0..Len(bytes)] == IF i = 0 THEN WordBits ELSE Feed(crc[i - 1], bytes[i])
  IN  crc[Len(bytes)]
=============================================================================
