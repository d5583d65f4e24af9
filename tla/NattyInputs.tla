---------------------------- MODULE NattyInputs ----------------------------
(***************************************************************************)
(* The clock, the text search, the frames and the checksum of the watch,    *)
(* each on inputs of its own that grow one piece at a time: the date of     *)
(* each day, a text that is searched, a frame of each kind and length, the  *)
(* bytes of a message.                                                      *)
(***************************************************************************)
EXTENDS NattyText, NattyFrames

CONSTANTS
  Clocks,    \* a second of the first day, and how far east of Greenwich, in seconds
  LastDay,
  Patterns,  \* the texts that are searched for
  Letters, LongestText,  \* the letters of the text they are searched in
  Lengths,   \* the lengths of the frames' contents
  SomeBytes, LongestMessage  \* the bytes of checksummed messages

\* An offset is a day at most; a pattern is not empty and next has room for it; a
\* text has no zero but the one that closes it; a frame fits into the network's
\* buffer; a byte has eight bits.
ASSUME InputsAssumption ==
  /\ \A c \in Clocks : c[1] \in 0..(SECS_PER_DAY - 1) /\ c[2] \in (-SECS_PER_DAY)..SECS_PER_DAY
  /\ LastDay \in Nat
  /\ \A p \in Patterns : p \in Seq(Nat \ {0}) /\ Len(p) \in 1..(PATTERN_LENGTH_COUNT - 3)
  /\ Letters \subseteq Nat \ {0}
  /\ Lengths \subseteq 0..(CACHE_BUFFER_SIZE - NTY_PROTO_DATAPACKET_CONTENT_IDX - 4 - 1)
  /\ SomeBytes \subseteq SUBSET (0..7)

Kinds == {"LOGIN_REQ", "DATAPACKET_REQ", "DATAPACKET_ACK", "P2P_NOTIFY_REQ",
          "P2P_NOTIFY_ACK", "P2P_HEARTBEAT_REQ", "P2P_HEARTBEAT_ACK", "P2P_CONNECT_REQ",
          "P2P_CONNECT_ACK", "P2PDATAPACKET_REQ", "P2PDATAPACKET_ACK"}

FriendStates == [isP2P : {0, 1}, addr : {"some", "zero", "ones"},
                 port : {"some", "zero", "ones"}, counter : {0}]

VARIABLE input  \* of which of them, and what it is given

\* The local date at the instant the clock counts its days from.
FirstDate(local) ==
  CASE local = -1 -> [year |-> 1969, mon |-> 12, mday |-> 31, wday |-> 3]
    [] local = 0 -> [year |-> 1970, mon |-> 1, mday |-> 1, wday |-> 4]
    [] local = 1 -> [year |-> 1970, mon |-> 1, mday |-> 2, wday |-> 5]

ClockInit ==
  \E c \in Clocks :
    input = [of |-> "clock", day |-> 0, second |-> c[1], offset |-> c[2],
             date |-> FirstDate((c[1] + c[2]) \div SECS_PER_DAY)]

SearchInit == \E p \in Patterns : input = [of |-> "search", pattern |-> p, text |-> <<>>]

FrameInit ==
  \E k \in Kinds, n \in Lengths, f \in FriendStates :
    input = [of |-> "frame", kind |-> k, length |-> n, friend |-> f]

ChecksumInit == input = [of |-> "checksum", bytes |-> <<>>]

\* The Gregorian calendar, one day at a time.
Leap(y) == (y % 4 = 0 /\ y % 100 # 0) \/ y % 400 = 0

MonthLength(d) ==
  CASE d.mon = 2 -> IF Leap(d.year) THEN 29 ELSE 28
    [] d.mon \in {4, 6, 9, 11} -> 30
    [] OTHER -> 31

Tomorrow(d) ==
  LET wday == (d.wday + 1) % 7
  IN  IF d.mday < MonthLength(d) THEN [d EXCEPT !.mday = @ + 1, !.wday = wday]
      ELSE IF d.mon < 12 THEN [d EXCEPT !.mday = 1, !.mon = @ + 1, !.wday = wday]
      ELSE [year |-> d.year + 1, mon |-> 1, mday |-> 1, wday |-> wday]

NextDay ==
  /\ input.of = "clock" /\ input.day < LastDay
  /\ input' = [input EXCEPT !.day = @ + 1, !.date = Tomorrow(@)]

TypeOn ==
  /\ input.of = "search" /\ Len(input.text) < LongestText
  /\ \E c \in Letters : input' = [input EXCEPT !.text = Append(@, c)]

AddByte ==
  /\ input.of = "checksum" /\ Len(input.bytes) < LongestMessage
  /\ \E b \in SomeBytes : input' = [input EXCEPT !.bytes = Append(@, b)]

InputsInit == ClockInit \/ SearchInit \/ FrameInit \/ ChecksumInit

InputsSpec == InputsInit /\ [][NextDay \/ TypeOn \/ AddByte]_input

-----------------------------------------------------------------------------
\* ntyLocalTime and the calendar agree on every day a 32-bit clock can show,
\* east and west of Greenwich, 2100, which is no leap year, among them.
LocalTimeRight ==
  input.of = "clock" =>
    LET t == ntyLocalTime(input.day, input.second, input.offset)
    IN  /\ [year |-> t.year, mon |-> t.mon, mday |-> t.mday, wday |-> t.wday] = input.date
        /\ (t.second - input.second - input.offset) % SECS_PER_DAY = 0

\* ntyKMP finds every occurrence, those that overlap among them, and in order.
KmpFindsAll ==
  input.of = "search" =>
    LET found == ntyKMP(input.text, input.pattern)
        m == Len(input.pattern)
    IN  /\ ToSet(found) =
             {k \in 0..(Len(input.text) - m) : SubSeq(input.text, k + 1, k + m) = input.pattern}
        /\ \A i \in 2..Len(found) : found[i - 1] < found[i]

-----------------------------------------------------------------------------
\* The frame an input stands for.
TheFrame ==
  CASE input.kind = "LOGIN_REQ" -> SimpleFrame("LOGIN_REQ")
    [] input.kind = "DATAPACKET_REQ" -> sendProxyUserDataPacket(input.length)
    [] input.kind = "DATAPACKET_ACK" -> sendProxyDataPacketAck
    [] input.kind = "P2P_NOTIFY_REQ" -> sendP2PConnectNotify
    [] input.kind = "P2P_NOTIFY_ACK" -> sendP2PConnectNotifyAck
    [] input.kind = "P2P_HEARTBEAT_REQ" -> sendP2PHeartbeat(input.friend).frame
    [] input.kind = "P2P_HEARTBEAT_ACK" -> sendP2PHeartbeatAck(input.friend).frame
    [] input.kind = "P2P_CONNECT_REQ" -> sendP2PConnectReq(input.friend).frame
    [] input.kind = "P2P_CONNECT_ACK" -> sendP2PConnectAck(input.friend).frame
    [] input.kind = "P2PDATAPACKET_REQ" -> sendP2PDataPacketReq(input.friend, input.length).frame
    [] input.kind = "P2PDATAPACKET_ACK" -> sendP2PDataPacketAck(input.friend).frame

Number ==
  CASE input.kind \in {"LOGIN_REQ", "DATAPACKET_REQ", "P2P_NOTIFY_REQ", "P2P_HEARTBEAT_REQ",
                       "P2P_CONNECT_REQ", "P2P_CONNECT_ACK", "P2PDATAPACKET_REQ"} -> "ackNum"
    [] input.kind = "DATAPACKET_ACK" -> "ack"
    [] input.kind \in {"P2P_NOTIFY_ACK", "P2PDATAPACKET_ACK"} -> "ack + 1"
    [] OTHER -> "zero"

\* Whoever reads a frame at the offsets of its type finds each field whole: the
\* number the network module writes and the checksum, which it puts over the
\* last bytes, meet no other field, nothing is cut off, and the network's buffer
\* holds the frame and one more zero.
FramesReadBack ==
  (input.of = "frame" /\ TheFrame # Refused) =>
    LET frame == TheFrame
        bytes == frame.bytes
        Holds(at, field, size) == Get(bytes, at, size) = Whole(field, size)
    IN  /\ frame.length < CACHE_BUFFER_SIZE
        /\ DOMAIN bytes \subseteq 0..(frame.length - 1)
        /\ Holds(NTY_PROTO_TYPE_IDX, input.kind, 1)
        /\ Holds(NTY_PROTO_DEVID_IDX, "devid", 8)
        /\ \/ Holds(NTY_PROTO_ACKNUM_IDX, Number, 4)
           \/ Number = "zero" /\ Get(bytes, NTY_PROTO_ACKNUM_IDX, 4) = [i \in 0..3 |-> Blank]
        /\ Holds(frame.length - 4, "crc", 4)
        /\ input.kind # "LOGIN_REQ" => Holds(NTY_PROTO_DEST_DEVID_IDX, "dest", 8)
        /\ input.kind \in {"DATAPACKET_REQ", "P2PDATAPACKET_REQ"} =>
             /\ Holds(NTY_PROTO_DATAPACKET_CONTENT_COUNT_IDX, "count", 2)
             /\ Holds(NTY_PROTO_DATAPACKET_CONTENT_IDX, "content", input.length)

-----------------------------------------------------------------------------
\* What the generator, of degree 32, leaves of the exponent e of the polynomial p.
Reduced(p, e) ==
  IF e \in p THEN XorBits(p, {k + (e - 32) : k \in NTY_CRC_KEY \cup {32}}) ELSE p

\* The remainder of a polynomial with exponents below n + 32: those from 32 on are
\* taken away one by one, from the greatest down.
Remainder(p, n) ==
  LET left[i \in 0..n] == IF i = 0 THEN p ELSE Reduced(left[i - 1], n + 32 - i)
  IN  left[n]

\* The table's checksum is the remainder of the message, its first 32 bits
\* inverted, by the generator, so that it tells apart messages that differ in
\* up to 32 bits in a row.
CrcIsRemainder ==
  input.of = "checksum" =>
    LET n == Len(input.bytes)
        message == UNION {{8 * (n - i) + 32 + b : b \in input.bytes[i]} : i \in 1..n}
    IN  ntyGenCrcValue(input.bytes) =
          Remainder(XorBits(message, {8 * n + b : b \in WordBits}), 8 * n)
=============================================================================
