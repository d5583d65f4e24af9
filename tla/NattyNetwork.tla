---------------------------- MODULE NattyNetwork ----------------------------
(***************************************************************************)
(* The UDP side of the watch: the Network object of NattyNetwork.c, the     *)
(* confirmation timer of NattyTimer.c, the two directions of the datagram   *)
(* service between the watch and the Natty server, and that server, which   *)
(* is not part of the repository and answers requests only.                 *)
(*                                                                         *)
(* Datagrams live in a set per direction.  Receiving one does not remove    *)
(* it, so it may be received again, late and in any order; Lose removes     *)
(* one at any time, before it was received (loss) or after (the ordinary    *)
(* end of its life).                                                        *)
(***************************************************************************)
EXTENDS Integers, Sequences, FiniteSets

CONSTANTS
  Friends,      \* the 64-bit ids of the devices that may talk to this watch
  Addrs,        \* their transport addresses
  Rosters,      \* the friend lists the server may send: sequences of entries
  AckNums,      \* acknowledgement numbers friends put in their packets
  Contents,     \* the texts friends send: [verb, node, idx, number]
  WordSize,     \* 2^32, the width of the C int the id bytes are shifted in
  LongSize,     \* 2^64, the width of C_DEVID
  AckSize,      \* 2^32, the width of the acknowledgement number
  MaxSockets,   \* sockets the platform gives this client
  MaxFlight,    \* bound on the datagrams in flight in one direction
  Faults        \* ways in which opening the socket may fail

Entry == [id : Nat, addr : Addrs]  \* of a friend list

AllFaults == {"operator", "account", "create", "async", "nbio"}

ASSUME NetworkAssumption ==
  /\ Friends \subseteq Nat
  /\ AckNums \subseteq Nat
  /\ Rosters \subseteq Seq(Entry)
  /\ WordSize \in Nat \ {0} /\ LongSize = WordSize * WordSize
  /\ AckSize \in Nat \ {0}
  /\ MaxSockets \in Nat \ {0}
  /\ MaxFlight \in Nat
  /\ Faults \subseteq AllFaults

VARIABLES
  sockfd,        \* network->sockfd: "zero" (0), "open" (a live socket), "error" (< 0)
  sockets,       \* datagram sockets this client holds at the platform
  confirmTimer,  \* NATTY_NETWORK_COMFIRMED_TIMER is running
  up,            \* datagrams on their way to the server
  down           \* datagrams on their way to the watch

netVars == <<sockfd, sockets, confirmTimer, up, down>>

\* ntyNetworkCtor, on the zeroed object.
NetworkInit ==
  /\ sockfd = "zero" /\ sockets = 0 /\ confirmTimer = FALSE
  /\ up = {} /\ down = {}

-----------------------------------------------------------------------------
(* Frames: the type byte and the fields the handlers read. *)

SimpleReq(type) == [type |-> type]

Requests == {"LOGIN_REQ", "TIME_CHECK_REQ", "HEARTBEAT_REQ"}

UpMsg ==
  [type : Requests]
    \cup [type : {"DATAPACKET_REQ"}, dest : Nat, node : {"Power", "Signal"}]
    \cup [type : {"DATAPACKET_ACK"}, dest : Nat, ack : Nat]

DownMsg ==
  [type : {"LOGIN_ACK"}, list : Rosters]
    \cup [type : {"TIME_CHECK_ACK"}]
    \cup [type : {"HEARTBEAT_ACK"}, msg : {"MSG_ACK", "MSG_UPDATE"}, list : Rosters]
    \cup [type : {"DATAPACKET_REQ"}, from : Friends, ack : AckNums, content : Contents]
    \cup [type : {"DATAPACKET_ACK"}]

\* Eight little-endian bytes put together with `buf[i] << 8*i`: every byte is
\* promoted to a 32-bit int, so bytes 4 to 7 contribute nothing and bit 31 is
\* sign-extended into the upper half.
ntyU8ArrayToU64(id) ==
  LET low == id % WordSize
  IN  IF 2 * low < WordSize THEN low ELSE low + (LongSize - WordSize)

-----------------------------------------------------------------------------
(* Sending and receiving. *)

ntyStartTimer == confirmTimer' = TRUE

ntyStopTimer == confirmTimer' = FALSE

\* ntyNetworkSendFrame: every frame but an acknowledgement starts the
\* confirmation timer first; a frame leaves only through a live socket, and is
\* lost when the bound on datagrams in flight is reached.
SendFrame(fd, m) ==
  /\ IF m.type # "DATAPACKET_ACK" THEN ntyStartTimer ELSE UNCHANGED confirmTimer
  /\ up' = IF fd = "open" /\ Cardinality(up) < MaxFlight THEN up \cup {m} ELSE up

sendLoginPacket(fd) == SendFrame(fd, SimpleReq("LOGIN_REQ"))

sendTimeCheckPacket(fd) == SendFrame(fd, SimpleReq("TIME_CHECK_REQ"))

heartbeat(fd) == SendFrame(fd, SimpleReq("HEARTBEAT_REQ"))

sendProxyDataPacketAck(fd, friId, ack) ==
  SendFrame(fd, [type |-> "DATAPACKET_ACK", dest |-> friId, ack |-> ack])

sendProxyUserDataPacket(fd, friId, node) ==
  SendFrame(fd, [type |-> "DATAPACKET_REQ", dest |-> friId, node |-> node])

\* ntyNetworkRecvFrame stops the confirmation timer whatever it has read.
RecvFrame(m) ==
  /\ sockfd = "open"
  /\ m \in down
  /\ ntyStopTimer
  /\ UNCHANGED <<sockfd, sockets, down>>

\* soc_recvfrom returns nothing: ntyUdpCallback leaves the event alone.
RecvNothing ==
  /\ sockfd = "open"
  /\ ntyStopTimer
  /\ UNCHANGED <<sockfd, sockets, up, down>>

-----------------------------------------------------------------------------
(* Opening the socket. *)

\* ntyAppGetSimOperator: the network is none of the known operators' networks.
UnknownOperator == "operator" \in Faults

\* ntyAppDtcntMakeDataAcctId finds or adds no profile for the operator's access
\* point, and the account it returns, never assigned then, is 0.
NoDataAccount == "account" \in Faults

\* Mistake: the socket stays open where soc_setsockopt(SOC_ASYNC) fails.
BugKeepsSocket(fd, n) ==
  /\ sockets < MaxSockets
  /\ \/ fd = "error" /\ "async" \in Faults
     \/ fd = "open"
  /\ n = sockets + 1

\* ntyUdpCreate: fd is what network->sockfd becomes, n the sockets held then.
\* Without a data account the result is 0 before any socket exists.  A failed
\* soc_create (the platform has none left, or refuses) goes unnoticed, the code
\* tests another variable, until the first soc_setsockopt on the bad handle
\* fails.  The last failure closes an uninitialised handle, so that the new
\* socket stays open unless that handle happens to name it.
ntyUdpCreate(fd, n) ==
  \/ /\ UnknownOperator \/ Faults \cap {"create", "async"} # {} \/ sockets = MaxSockets
     /\ fd = "error" /\ n = sockets
  \/ /\ NoDataAccount
     /\ fd = "zero" /\ n = sockets
  \/ /\ "nbio" \in Faults /\ sockets < MaxSockets
     /\ fd = "error" /\ n \in {sockets, sockets + 1}
  \/ /\ sockets < MaxSockets
     /\ fd = "open" /\ n = sockets + 1

ntyNetworkConnect(fd) ==
  /\ \E n \in {sockets, sockets + 1} : ntyUdpCreate(fd, n) /\ sockets' = n
  /\ sockfd' = fd

-----------------------------------------------------------------------------
(* The server and the datagram service. *)

ServerAnswer(req, answers) ==
  /\ SimpleReq(req) \in up
  /\ Cardinality(down) < MaxFlight
  /\ \E m \in answers : down' = down \cup {m}
  /\ UNCHANGED <<sockfd, sockets, confirmTimer, up>>

ServerLogin ==
  ServerAnswer("LOGIN_REQ", [type : {"LOGIN_ACK"}, list : Rosters])

ServerTimeCheck ==
  ServerAnswer("TIME_CHECK_REQ", [type : {"TIME_CHECK_ACK"}])

ServerHeartbeat ==
  ServerAnswer("HEARTBEAT_REQ",
               [type : {"HEARTBEAT_ACK"}, msg : {"MSG_ACK", "MSG_UPDATE"}, list : Rosters])

\* The server relays a friend's packet, or confirms one of the watch's own.
ServerRelay ==
  /\ sockfd = "open"
  /\ Cardinality(down) < MaxFlight
  /\ \/ \E m \in [type : {"DATAPACKET_REQ"}, from : Friends, ack : AckNums,
                  content : Contents] : down' = down \cup {m}
     \/ /\ \E m \in up : m.type = "DATAPACKET_REQ"
        /\ down' = down \cup {[type |-> "DATAPACKET_ACK"]}
  /\ UNCHANGED <<sockfd, sockets, confirmTimer, up>>

Lose ==
  /\ \/ \E m \in up : up' = up \ {m} /\ UNCHANGED down
     \/ \E m \in down : down' = down \ {m} /\ UNCHANGED up
  /\ UNCHANGED <<sockfd, sockets, confirmTimer>>
=============================================================================
