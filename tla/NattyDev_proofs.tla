--------------------------- MODULE NattyDev_proofs ---------------------------
(***************************************************************************)
(* Proofs about the client core for every value of the constants: the type  *)
(* invariant, the safety invariants of the session, that the core           *)
(* implements WatchSession, and what the core does with friends' packets.   *)
(*                                                                         *)
(* The session invariants are not inductive one by one.  CoreInv joins them *)
(* with what they lean on: which timers run at which level, and that a      *)
(* watch that is off has nothing.                                           *)
(*                                                                         *)
(* Of packets: acknowledgements go first, what is sent answers a packet     *)
(* that was accepted, and what is stored came with one.  The packet of a    *)
(* reply is gone when the reply is made; what is left of it is the message  *)
(* in the task's queue.  PacketInv therefore says of every queued message   *)
(* which packet it stands for.                                              *)
(***************************************************************************)
EXTENDS NattyDev, SequenceTheorems, TLAPS

\* A watch that is off holds no timer, no socket and no datagram.
OffIsEmpty ==
  power = "off" =>
    /\ initTimer = "off" /\ ~simTimer /\ ~hbTimer
    /\ level = "LOGIN"
    /\ sockfd = "zero" /\ sockets = 0
    /\ up = {} /\ down = {}

\* The timers each level relies on.  Before the login answer the heartbeat does
\* not run; the answer to a time check needs sendProc to ask again, unless a
\* heartbeat already runs; online, the heartbeat runs.
TimersOfLevel ==
  /\ level = "LOGIN" => ~hbTimer /\ (running => simTimer \/ initTimer # "off")
  /\ level = "TIMECHECK" => hbTimer \/ initTimer = "sendProc"
  /\ level = "DATAPACKET" => hbTimer

CoreInv ==
  /\ OffIsEmpty
  /\ TimersOfLevel
  /\ OneRetryChain
  /\ OneSocket
  /\ SessionOrder

-----------------------------------------------------------------------------
(* Types. *)

LEMMA ModRange ==
  ASSUME NEW a \in Nat, NEW b \in Nat \ {0}
  PROVE  a % b \in 0..(b - 1)
  OBVIOUS

\* Whatever is put together from eight bytes is an id.
LEMMA IdType ==
  ASSUME NEW id \in Nat
  PROVE  ntyU8ArrayToU64(id) \in Nat
  <1>1. WordSize \in Nat \ {0} /\ LongSize \in Nat /\ WordSize <= LongSize
    <2>1. WordSize \in Nat \ {0} /\ LongSize = WordSize * WordSize
      BY NetworkAssumption DEF NetworkAssumption
    <2>2. QED
      BY <2>1
  <1>2. id % WordSize \in Nat
    BY <1>1, ModRange
  <1>3. QED
    BY <1>1, <1>2 DEF ntyU8ArrayToU64

\* A frame of one of the five senders is one the network can carry.
LEMMA SendType ==
  ASSUME NetworkTypeOK, NEW fd, NEW m \in UpMsg, SendFrame(fd, m)
  PROVE  confirmTimer' \in BOOLEAN /\ up' \subseteq UpMsg
  BY DEF NetworkTypeOK, SendFrame, ntyStartTimer

LEMMA RequestType ==
  ASSUME NEW type \in Requests
  PROVE  SimpleReq(type) \in UpMsg
  BY DEF SimpleReq, UpMsg

LEMMA SeqElement ==
  ASSUME NEW S, NEW s \in Seq(S), NEW i \in 1..Len(s)
  PROVE  s[i] \in S
  OBVIOUS

\* The friends stored from a list are still a map from ids to addresses.
LEMMA StoreType ==
  ASSUME DataTypeOK, NEW list \in Seq(Entry), NEW k \in 0..Len(list),
         StoreFriends(list, k)
  PROVE  DOMAIN friends' \subseteq Nat /\ friends' \in [DOMAIN friends' -> Addrs]
  <1>1. \A i \in 1..k : list[i] \in Entry
    BY SeqElement
  <1>2. {list[i].id : i \in 1..k} \subseteq Nat
    BY <1>1 DEF Entry
  <1>3. QED
    BY <1>2 DEF StoreFriends, DataTypeOK

LEMMA RosterType ==
  ASSUME NEW list \in Rosters
  PROVE  list \in Seq(Entry) /\ Converted(list) \in Seq(Entry)
  <1>1. list \in Seq(Entry)
    BY NetworkAssumption DEF NetworkAssumption
  <1>2. \A i \in 1..Len(list) : list[i] \in Entry
    BY <1>1, SeqElement
  <1>3. \A i \in 1..Len(list) :
          [id |-> ntyU8ArrayToU64(list[i].id), addr |-> list[i].addr] \in Entry
    <2>1. SUFFICES ASSUME NEW i \in 1..Len(list)
                   PROVE  [id |-> ntyU8ArrayToU64(list[i].id), addr |-> list[i].addr] \in Entry
      OBVIOUS
    <2>2. list[i].id \in Nat /\ list[i].addr \in Addrs
      BY <1>2 DEF Entry
    <2>3. QED
      BY <2>2, IdType DEF Entry
  <1>4. Converted(list) \in Seq(Entry)
    BY <1>1, <1>3 DEF Converted
  <1>5. QED
    BY <1>1, <1>4

\* sendProc, entered from the session's types, keeps them.
LEMMA SendProcType ==
  ASSUME TypeOK, NEW fd, NEW now \in {"on", "restarting"}, sendProc(fd, now)
  PROVE  /\ power' \in {"on", "restarting"}
         /\ level' = level /\ hbTimer' = hbTimer
         /\ initTimer' \in {"off", "sendProc"}
         /\ u8TimeCheck' \in 0..(CharSize - 1)
         /\ confirmTimer' \in BOOLEAN /\ up' \subseteq UpMsg
  <1>1. CASE level = "DATAPACKET"
    BY <1>1 DEF sendProc, TypeOK, SessionTypeOK, NetworkTypeOK
  <1>2. CASE level = "LOGIN"
    BY <1>2, SendType, RequestType
       DEF sendProc, sendLoginPacket, Requests, TypeOK, SessionTypeOK, NetworkTypeOK
  <1>3. CASE level = "TIMECHECK"
    <2>1. u8TimeCheck' \in 0..(CharSize - 1)
      <3>1. CharSize \in Nat \ {0} /\ u8TimeCheck + 1 \in Nat
        BY DevAssumption DEF TypeOK, SessionTypeOK
      <3>2. u8TimeCheck' = (u8TimeCheck + 1) % CharSize
        BY <1>3 DEF sendProc
      <3>3. QED
        BY <3>1, <3>2, ModRange
    <2>2. confirmTimer' \in BOOLEAN /\ up' \subseteq UpMsg
      BY <1>3, SendType, RequestType
         DEF sendProc, sendTimeCheckPacket, Requests, TypeOK, SessionTypeOK
    <2>3. QED
      BY <1>3, <2>1, <2>2 DEF sendProc, ntyColdRestart
  <1>4. QED
    BY <1>1, <1>2, <1>3 DEF TypeOK, SessionTypeOK, Levels

LEMMA ConnectProcType ==
  ASSUME TypeOK, NEW init \in {"off", "sendProc", "ConnectProc"}, NEW sim \in BOOLEAN,
         NEW now \in {"on", "restarting"}, ConnectProc(init, sim, now)
  PROVE  SessionTypeOK' /\ NetworkTypeOK' /\ power' # "off"
  <1>1. CASE ConnectNoService(init, now)
    <2>1. card_disapp_times' \in 0..(CharSize - 1)
      BY <1>1, ModRange, DevAssumption
         DEF ConnectNoService, TypeOK, SessionTypeOK, DevAssumption
    <2>2. QED
      BY <1>1, <2>1
         DEF ConnectProc, ConnectNoService, ntyColdRestart, netVars,
             TypeOK, SessionTypeOK, NetworkTypeOK
  <1>2. ASSUME NEW fd \in {"zero", "open", "error"}, ConnectOpen(sim, now, fd)
        PROVE  SessionTypeOK' /\ NetworkTypeOK' /\ power' # "off"
    <2>1. sockets' \in 0..MaxSockets
      BY <1>2, NetworkAssumption
         DEF ConnectOpen, ntyNetworkConnect, ntyUdpCreate, TypeOK, NetworkTypeOK, NetworkAssumption
    <2>2. sockfd' = fd /\ simTimer' = sim /\ down' = down
          /\ card_disapp_times' = card_disapp_times
      BY <1>2 DEF ConnectOpen, ntyNetworkConnect
    <2>3. service' = service /\ u8LedDisplayMode' = u8LedDisplayMode
      BY DEF ConnectProc
    <2>4. CASE fd = "error"
      BY <1>2, <2>1, <2>2, <2>3, <2>4
         DEF ConnectOpen, TypeOK, SessionTypeOK, NetworkTypeOK
    <2>5. CASE fd # "error"
      <3>1. sendProc(fd, now)
        BY <1>2, <2>5 DEF ConnectOpen
      <3>2. QED
        BY <2>1, <2>2, <2>3, <3>1, SendProcType DEF TypeOK, SessionTypeOK, NetworkTypeOK
    <2>6. QED
      BY <2>4, <2>5
  <1>3. QED
    BY <1>1, <1>2 DEF ConnectProc

LEMMA TypeInit == Init => TypeOK
  <1> SUFFICES ASSUME Init PROVE TypeOK
    OBVIOUS
  <1>1. SessionTypeOK
    <2>1. 0 \in 0..(CharSize - 1) /\ 0 \in 0..2
      BY DevAssumption DEF DevAssumption
    <2>2. QED
      BY <2>1 DEF Init, SessionTypeOK, Levels
  <1>2. NetworkTypeOK
    <2>1. 0 \in 0..MaxSockets
      BY NetworkAssumption DEF NetworkAssumption
    <2>2. QED
      BY <2>1 DEF Init, NetworkInit, NetworkTypeOK
  <1>3. DataTypeOK
    <2>1. friends = <<>> /\ DOMAIN friends = {}
      BY DEF Init
    <2>2. friends \in [DOMAIN friends -> Addrs]
      BY <2>1
    <2>3. QED
      BY <2>1, <2>2 DEF Init, DataTypeOK
  <1>4. ConfigTypeOK
    BY ConfigAssumption DEF Init, ConfigTypeOK, EmptyRecord, Record
  <1>5. QED
    BY <1>1, <1>2, <1>3, <1>4 DEF TypeOK

\* The message at the head of the queue, by its command.
LEMMA HeadType ==
  ASSUME TypeOK, NEW cmd, MMIProcMsg(cmd)
  PROVE  /\ Head(queue) \in Item /\ Tail(queue) \in Seq(Item)
         /\ cmd # "CALL_CTRL" => Head(queue).from \in Nat
         /\ cmd = "PROXY_ACK" => Head(queue).ack \in Nat
         /\ cmd = "DATA_SENDFRAME" => Head(queue).content \in Text
  <1>1. Head(queue) \in Item /\ Tail(queue) \in Seq(Item)
    BY DEF MMIProcMsg, TypeOK, DataTypeOK
  <1>2. QED
    BY <1>1 DEF MMIProcMsg, Item

LEMMA ConfigInitType ==
  ASSUME ConfigTypeOK, ntyWatchConfigInit
  PROVE  ConfigTypeOK'
  BY ConfigAssumption
     DEF ConfigTypeOK, ntyWatchConfigInit, EmptyRecord, Record

\* A number copied to a slot leaves a piece in every place.
LEMMA SetFamilyType ==
  ASSUME ConfigTypeOK, NEW i \in Slots, NEW number \in Numbers, SetFamilyNumber(i, number)
  PROVE  ConfigTypeOK'
  <1>1. number \in Seq(Pieces)
    BY ConfigAssumption
  <1>2. ASSUME NEW k \in Places, k - i \in 0..(Len(number) - 1)
        PROVE  number[k - i + 1] \in Pieces
    <2>1. k - i + 1 \in 1..Len(number)
      BY <1>1, <1>2 DEF Places, MaxPieces, Slots
    <2>2. QED
      BY <1>1, <2>1, SeqElement
  <1>3. family' \in Record
    BY <1>2 DEF ConfigTypeOK, SetFamilyNumber, Copied, Record
  <1>4. QED
    BY <1>3 DEF ConfigTypeOK, SetFamilyNumber

\* What the handler finds of a packet's text is a text, and the id an id.
LEMMA MessagesType ==
  ASSUME NEW id \in Nat, NEW ack \in Nat, NEW c \in Contents,
         NEW two \in PacketMessages(id, ack, c)
  PROVE  two \in Seq(Item)
  <1>1. PICK d \in DataMessages(id, c) :
          two = <<[cmd |-> "PROXY_ACK", from |-> id, ack |-> (ack + 1) % AckSize], d>>
    BY DEF PacketMessages
  <1>2. d \in Item
    <2>1. c \in Text /\ c.bytes \in Nat /\ LengthSize \in Nat \ {0}
      BY DevAssumption DEF Text
    <2>2. Length(c) \in 0..(LengthSize - 1)
      <3>1. DevIdBytes + c.bytes + 1 \in Nat
        BY <2>1 DEF DevIdBytes
      <3>2. QED
        BY <2>1, <3>1, ModRange DEF Length
    <2>3. Length(c) >= DevIdBytes => First(c, Length(c) - DevIdBytes) \in Text
      <3>1. Length(c) >= DevIdBytes => Length(c) - DevIdBytes \in 0..LengthSize
        BY <2>1, <2>2 DEF DevIdBytes
      <3>2. QED
        BY <3>1, DevAssumption
    <2>4. d.cmd = "DATA_SENDFRAME" /\ d.from \in Nat /\ d.content \in Text
          /\ d = [cmd |-> d.cmd, from |-> d.from, content |-> d.content]
      BY <2>3, DevAssumption DEF DataMessages
    <2>5. QED
      BY <2>4 DEF Item
  <1>3. [cmd |-> "PROXY_ACK", from |-> id, ack |-> (ack + 1) % AckSize] \in Item
    <2>1. ack + 1 \in Nat /\ AckSize \in Nat \ {0}
      BY NetworkAssumption
    <2>2. (ack + 1) % AckSize \in Nat
      BY <2>1, ModRange
    <2>3. QED
      BY <2>2 DEF Item
  <1>4. QED
    BY <1>1, <1>2, <1>3

-----------------------------------------------------------------------------
LEMMA TypeStep == TypeOK /\ [Next]_vars => TypeOK'
  <1> SUFFICES ASSUME TypeOK, [Next]_vars
               PROVE  TypeOK'
    OBVIOUS
  <1> USE DEF netVars, sessVars, timerVars, dataVars, confVars
  <1>1. CASE NattyEntry
    <2>1. SessionTypeOK' /\ NetworkTypeOK'
      BY <1>1, ConnectProcType DEF NattyEntry, ntyProtocolInit, ntyClientDevInit
    <2>2. DataTypeOK'
      BY <1>1 DEF NattyEntry, ntyProtocolInit, ntyClientDevInit, TypeOK, DataTypeOK
    <2>3. ConfigTypeOK'
      BY <1>1, ConfigInitType DEF NattyEntry, ntyProtocolInit, ntyClientDevInit, TypeOK
    <2>4. QED
      BY <2>1, <2>2, <2>3 DEF TypeOK
  <1>2. CASE ConnectTimeout \/ DetectSimTimeout
    <2>1. SessionTypeOK' /\ NetworkTypeOK'
      BY <1>2, ConnectProcType
         DEF ConnectTimeout, DetectSimTimeout, running, TypeOK, SessionTypeOK
    <2>2. DataTypeOK' /\ ConfigTypeOK'
      BY <1>2 DEF ConnectTimeout, DetectSimTimeout, TypeOK, DataTypeOK, ConfigTypeOK
    <2>3. QED
      BY <2>1, <2>2 DEF TypeOK
  <1>3. CASE SendTimeout
    <2>1. power \in {"on", "restarting"}
      BY <1>3 DEF SendTimeout, running, TypeOK, SessionTypeOK
    <2>2. sendProc(sockfd, power)
      BY <1>3 DEF SendTimeout
    <2>3. SessionTypeOK' /\ NetworkTypeOK'
      BY <1>3, <2>1, <2>2, SendProcType DEF SendTimeout, TypeOK, SessionTypeOK, NetworkTypeOK
    <2>4. DataTypeOK' /\ ConfigTypeOK'
      BY <1>3 DEF SendTimeout, TypeOK, DataTypeOK, ConfigTypeOK
    <2>5. QED
      BY <2>3, <2>4 DEF TypeOK
  <1>4. CASE heartbeatProc
    <2>1. confirmTimer' \in BOOLEAN /\ up' \subseteq UpMsg
      BY <1>4, SendType, RequestType DEF heartbeatProc, heartbeat, Requests, TypeOK
    <2>2. QED
      BY <1>4, <2>1
         DEF heartbeatProc, TypeOK, SessionTypeOK, NetworkTypeOK, DataTypeOK, ConfigTypeOK
  <1>5. CASE ConfirmTimeout
    BY <1>5 DEF ConfirmTimeout, ntyStopTimer,
                TypeOK, SessionTypeOK, NetworkTypeOK, DataTypeOK, ConfigTypeOK
  <1>6. CASE RecvLoginAck
    <2>1. PICK m \in down : /\ m.type = "LOGIN_ACK" /\ RecvFrame(m)
                            /\ \E k \in 0..Len(m.list) : StoreFriends(m.list, k)
      BY <1>6 DEF RecvLoginAck
    <2>2. m.list \in Rosters
      BY <2>1 DEF TypeOK, NetworkTypeOK, DownMsg
    <2>3. DataTypeOK'
      BY <1>6, <2>1, <2>2, RosterType, StoreType DEF RecvLoginAck, TypeOK, DataTypeOK
    <2>4. NetworkTypeOK'
      BY <1>6, <2>1 DEF RecvLoginAck, RecvFrame, ntyStopTimer, TypeOK, NetworkTypeOK
    <2>5. SessionTypeOK' /\ ConfigTypeOK'
      BY <1>6 DEF RecvLoginAck, TypeOK, SessionTypeOK, ConfigTypeOK, Levels
    <2>6. QED
      BY <2>3, <2>4, <2>5 DEF TypeOK
  <1>7. CASE RecvTimeCheckAck
    <2>1. u8LedDisplayMode' \in 0..2
      BY <1>7 DEF RecvTimeCheckAck, TypeOK, SessionTypeOK
    <2>2. SessionTypeOK'
      BY <1>7, <2>1 DEF RecvTimeCheckAck, TypeOK, SessionTypeOK, Levels
    <2>3. NetworkTypeOK' /\ DataTypeOK' /\ ConfigTypeOK'
      BY <1>7 DEF RecvTimeCheckAck, RecvFrame, ntyStopTimer,
                  TypeOK, NetworkTypeOK, DataTypeOK, ConfigTypeOK
    <2>4. QED
      BY <2>2, <2>3 DEF TypeOK
  <1>8. CASE RecvHeartbeatAck
    <2>1. PICK m \in down :
            /\ m.type = "HEARTBEAT_ACK" /\ RecvFrame(m)
            /\ \/ \E k \in 0..Len(m.list) : StoreFriends(Converted(m.list), k)
               \/ UNCHANGED friends
      BY <1>8 DEF RecvHeartbeatAck
    <2>2. m.list \in Rosters
      BY <2>1 DEF TypeOK, NetworkTypeOK, DownMsg
    <2>3. Converted(m.list) \in Seq(Entry) /\ Len(Converted(m.list)) = Len(m.list)
      BY <2>2, RosterType DEF Converted
    <2>4. DOMAIN friends' \subseteq Nat /\ friends' \in [DOMAIN friends' -> Addrs]
      BY <2>1, <2>3, StoreType DEF TypeOK, DataTypeOK
    <2>5. NetworkTypeOK'
      BY <1>8, <2>1 DEF RecvHeartbeatAck, RecvFrame, ntyStopTimer, TypeOK, NetworkTypeOK
    <2>6. SessionTypeOK' /\ ConfigTypeOK' /\ DataTypeOK'
      BY <1>8, <2>4 DEF RecvHeartbeatAck, TypeOK, SessionTypeOK, ConfigTypeOK, DataTypeOK
    <2>7. QED
      BY <2>5, <2>6 DEF TypeOK
  <1>9. CASE RecvDataPacketReq
    <2>1. PICK m \in down :
            /\ m.type = "DATAPACKET_REQ" /\ RecvFrame(m)
            /\ \E two \in PacketMessages(ntyU8ArrayToU64(m.from), m.ack, m.content) :
                 queue' = queue \o two
            /\ received' = received \cup {m}
      BY <1>9 DEF RecvDataPacketReq
    <2>2. m \in DownMsg /\ m.from \in Nat /\ m.ack \in Nat /\ m.content \in Contents
      BY <2>1, NetworkAssumption DEF TypeOK, NetworkTypeOK, DownMsg, NetworkAssumption
    <2>3. ntyU8ArrayToU64(m.from) \in Nat
      BY <2>2, IdType
    <2>4. \A two \in PacketMessages(ntyU8ArrayToU64(m.from), m.ack, m.content) : two \in Seq(Item)
      BY <2>2, <2>3, MessagesType
    <2>5. DataTypeOK'
      BY <1>9, <2>1, <2>2, <2>4 DEF RecvDataPacketReq, TypeOK, DataTypeOK
    <2>6. SessionTypeOK' /\ NetworkTypeOK' /\ ConfigTypeOK'
      BY <1>9, <2>1 DEF RecvDataPacketReq, RecvFrame, ntyStopTimer,
                        TypeOK, SessionTypeOK, NetworkTypeOK, ConfigTypeOK
    <2>7. QED
      BY <2>5, <2>6 DEF TypeOK
  <1>10. CASE RecvIgnored
    BY <1>10 DEF RecvIgnored, RecvFrame, RecvNothing, ntyStopTimer,
                 TypeOK, SessionTypeOK, NetworkTypeOK, DataTypeOK, ConfigTypeOK
  <1>11. CASE ProcProxyAck
    <2>1. MMIProcMsg("PROXY_ACK")
      BY <1>11 DEF ProcProxyAck
    <2>2. /\ Tail(queue) \in Seq(Item)
          /\ ntyU8ArrayToU64(Head(queue).from) \in Nat /\ Head(queue).ack \in Nat
      <3>1. Tail(queue) \in Seq(Item) /\ Head(queue).from \in Nat /\ Head(queue).ack \in Nat
        BY <2>1, HeadType
      <3>2. QED
        BY <3>1, IdType
    <2>3. [type |-> "DATAPACKET_ACK", dest |-> ntyU8ArrayToU64(Head(queue).from),
           ack |-> Head(queue).ack] \in UpMsg
      BY <2>2 DEF UpMsg
    <2>4. confirmTimer' \in BOOLEAN /\ up' \subseteq UpMsg
      BY <1>11, <2>3, SendType DEF ProcProxyAck, sendProxyDataPacketAck, TypeOK
    <2>5. QED
      BY <1>11, <2>1, <2>2, <2>4
         DEF ProcProxyAck, MMIProcMsg, TypeOK, SessionTypeOK, NetworkTypeOK, DataTypeOK, ConfigTypeOK
  <1>12. CASE ProcUserData
    <2>1. MMIProcMsg("DATA_SENDFRAME")
      BY <1>12 DEF ProcUserData
    <2>2. /\ Tail(queue) \in Seq(Item)
          /\ ntyU8ArrayToU64(Head(queue).from) \in Nat
          /\ Head(queue).content \in Text
      BY <2>1, HeadType, IdType
    <2>3. queue' \in Seq(Item)
      <3>1. \A cmd \in {"GET_POWER", "GET_SIGNAL"} :
              [cmd |-> cmd, from |-> ntyU8ArrayToU64(Head(queue).from)] \in Item
        BY <2>2 DEF Item
      <3>2. \/ queue' = Tail(queue)
            \/ \E item \in Item : queue' = Append(Tail(queue), item)
        BY <1>12, <3>1
           DEF ProcUserData, ntyGetOperaHandleRequest, ntySetOperaHandleRequest
      <3>3. QED
        BY <2>2, <3>2
    <2>4. ConfigTypeOK'
      <3>1. Head(queue).content.idx \in Slots /\ Head(queue).content.number \in Numbers
        BY <2>2 DEF Text
      <3>2. QED
        BY <1>12, <3>1, SetFamilyType
           DEF ProcUserData, ntyGetOperaHandleRequest, ntySetOperaHandleRequest,
               TypeOK, ConfigTypeOK
    <2>5. QED
      BY <1>12, <2>1, <2>3, <2>4
         DEF ProcUserData, MMIProcMsg, TypeOK, SessionTypeOK, NetworkTypeOK, DataTypeOK
  <1>13. CASE ProcGetValue
    <2>1. PICK cmd \in {"GET_POWER", "GET_SIGNAL"} :
            /\ MMIProcMsg(cmd) /\ queue' = Tail(queue) /\ UNCHANGED confVars
            /\ sendProxyUserDataPacket(sockfd, ntyU8ArrayToU64(Head(queue).from), ValueOf(cmd))
      BY <1>13 DEF ProcGetValue
    <2>2. Tail(queue) \in Seq(Item) /\ ntyU8ArrayToU64(Head(queue).from) \in Nat
      BY <2>1, HeadType, IdType
    <2>3. [type |-> "DATAPACKET_REQ", dest |-> ntyU8ArrayToU64(Head(queue).from),
           node |-> ValueOf(cmd)] \in UpMsg
      BY <2>2 DEF UpMsg, ValueOf
    <2>4. confirmTimer' \in BOOLEAN /\ up' \subseteq UpMsg
      BY <2>1, <2>3, SendType DEF sendProxyUserDataPacket, TypeOK
    <2>5. QED
      BY <2>1, <2>2, <2>4
         DEF MMIProcMsg, TypeOK, SessionTypeOK, NetworkTypeOK, DataTypeOK, ConfigTypeOK
  <1>14. CASE ProcCallCtrl \/ ntyMakeCall
    <2>1. queue' \in Seq(Item)
      <3>1. CASE ProcCallCtrl
        BY <3>1, HeadType DEF ProcCallCtrl
      <3>2. CASE ntyMakeCall
        <4>1. [cmd |-> "CALL_CTRL"] \in Item
          BY DEF Item
        <4>2. QED
          BY <3>2, <4>1 DEF ntyMakeCall, TypeOK, DataTypeOK
      <3>3. QED
        BY <1>14, <3>1, <3>2
    <2>2. QED
      BY <1>14, <2>1 DEF ProcCallCtrl, ntyMakeCall, MMIProcMsg,
                         TypeOK, SessionTypeOK, NetworkTypeOK, DataTypeOK, ConfigTypeOK
  <1>15. CASE ServiceChange \/ CallStep
    <2>1. CASE ServiceChange
      BY <2>1 DEF ServiceChange, TypeOK, SessionTypeOK, NetworkTypeOK, DataTypeOK, ConfigTypeOK
    <2>2. CASE CallStep
      <3>1. /\ u8LedDisplayMode' \in 0..2
            /\ UNCHANGED <<netVars, power, service, level, u8TimeCheck, card_disapp_times,
                           timerVars, dataVars, confVars>>
        BY <2>2 DEF CallStep, ntyCallNumberIsAllowed, ntyEndCallCb, ShowCall
      <3>2. QED
        BY <3>1 DEF TypeOK, SessionTypeOK, NetworkTypeOK, DataTypeOK, ConfigTypeOK
    <2>3. QED
      BY <1>15, <2>1, <2>2
  <1>16. CASE ShutdownDone
    <2>1. 0 \in 0..(CharSize - 1) /\ 0 \in 0..2 /\ 0 \in 0..MaxSockets
      BY DevAssumption, NetworkAssumption DEF DevAssumption, NetworkAssumption
    <2>2. SessionTypeOK' /\ NetworkTypeOK'
      BY <1>16, <2>1 DEF ShutdownDone, TypeOK, SessionTypeOK, NetworkTypeOK, Levels
    <2>3. DataTypeOK'
      <3>1. friends' = <<>> /\ DOMAIN friends' = {}
        BY <1>16 DEF ShutdownDone
      <3>2. friends' \in [DOMAIN friends' -> Addrs]
        BY <3>1
      <3>3. QED
        BY <1>16, <3>1, <3>2 DEF ShutdownDone, DataTypeOK
    <2>4. ConfigTypeOK'
      BY <1>16, ConfigAssumption DEF ShutdownDone, TypeOK, ConfigTypeOK, EmptyRecord, Record
    <2>5. QED
      BY <2>2, <2>3, <2>4 DEF TypeOK
  <1>17. CASE NetworkStep
    <2>1. down' \subseteq DownMsg
      BY <1>17 DEF NetworkStep, ServerLogin, ServerTimeCheck, ServerHeartbeat, ServerRelay,
                   ServerAnswer, Lose, DownMsg, TypeOK, NetworkTypeOK
    <2>2. QED
      BY <1>17, <2>1
         DEF NetworkStep, ServerLogin, ServerTimeCheck, ServerHeartbeat, ServerRelay,
             ServerAnswer, Lose, TypeOK, SessionTypeOK, NetworkTypeOK, DataTypeOK, ConfigTypeOK
  <1>18. CASE UNCHANGED vars
    BY <1>18 DEF vars, TypeOK, SessionTypeOK, NetworkTypeOK, DataTypeOK, ConfigTypeOK
  <1>19. QED
    BY <1>1, <1>2, <1>3, <1>4, <1>5, <1>6, <1>7, <1>8, <1>9, <1>10, <1>11, <1>12, <1>13,
       <1>14, <1>15, <1>16, <1>17, <1>18
       DEF Next, TimerStep, UdpCallback, MMIStep

\* Every reachable state of the client core is well typed, whatever the friends,
\* the bounds and the failures.
THEOREM TypeCorrect == Spec => []TypeOK
  <1>1. Init => TypeOK
    BY TypeInit
  <1>2. TypeOK /\ [Next]_vars => TypeOK'
    BY TypeStep
  <1>3. QED
    BY <1>1, <1>2, PTL DEF Spec

-----------------------------------------------------------------------------
(* The session. *)

LEMMA SendUp ==
  ASSUME NEW fd, NEW m, SendFrame(fd, m)
  PROVE  up' = up \/ (fd = "open" /\ up' = up \cup {m})
  BY DEF SendFrame

LEMMA CoreInit == Init => CoreInv
  BY DEF Init, NetworkInit, CoreInv, OffIsEmpty, TimersOfLevel, OneRetryChain, OneSocket, SessionOrder, running

\* Whichever handler runs ConnectProc, nothing else is pending and no socket is
\* in use; so it leaves either one retry or a socket on which it registers.
LEMMA ConnectProcCore ==
  ASSUME CoreInv, level = "LOGIN", sockfd # "open",
         NEW now \in {"on", "restarting"}, ConnectProc("off", FALSE, now)
  PROVE  CoreInv' /\ level' = "LOGIN" /\ hbTimer' = hbTimer /\ power' # "off"
  <1>1. ~hbTimer /\ up = {} /\ down = {} /\ ("nbio" \notin Faults => sockets = 0)
    BY DEF CoreInv, TimersOfLevel, SessionOrder, OneSocket
  <1>2. CASE ConnectNoService("off", now)
    BY <1>1, <1>2
       DEF ConnectNoService, ntyColdRestart, netVars, CoreInv, OffIsEmpty, TimersOfLevel,
           OneRetryChain, OneSocket, SessionOrder, running
  <1>3. ASSUME NEW fd \in {"zero", "open", "error"}, ConnectOpen(FALSE, now, fd)
        PROVE  CoreInv' /\ level' = "LOGIN" /\ hbTimer' = hbTimer /\ power' # "off"
    <2>1. sockfd' = fd /\ simTimer' = FALSE /\ down' = {}
      BY <1>1, <1>3 DEF ConnectOpen, ntyNetworkConnect
    <2>2. "nbio" \notin Faults => sockets' = IF fd = "open" THEN 1 ELSE 0
      BY <1>1, <1>3 DEF ConnectOpen, ntyNetworkConnect, ntyUdpCreate
    <2>3. CASE fd = "error"
      BY <1>1, <1>3, <2>1, <2>2, <2>3
         DEF ConnectOpen, CoreInv, OffIsEmpty, TimersOfLevel, OneRetryChain, OneSocket,
             SessionOrder, running
    <2>4. CASE fd # "error"
      <3>1. /\ initTimer' = "sendProc" /\ level' = "LOGIN" /\ hbTimer' = hbTimer
            /\ power' = now /\ sendLoginPacket(fd)
        BY <1>3, <2>4 DEF ConnectOpen, sendProc
      <3>2. up' = {} \/ (fd = "open" /\ up' = {SimpleReq("LOGIN_REQ")})
        BY <1>1, <3>1, SendUp DEF sendLoginPacket
      <3>3. \A m \in up' : m.type = "LOGIN_REQ"
        BY <3>2 DEF SimpleReq
      <3>4. QED
        BY <1>1, <2>1, <2>2, <3>1, <3>2, <3>3
           DEF CoreInv, OffIsEmpty, TimersOfLevel, OneRetryChain, OneSocket, SessionOrder, running
    <2>5. QED
      BY <2>3, <2>4
  <1>4. QED
    BY <1>2, <1>3 DEF ConnectProc

LEMMA CoreStep == SessionTypeOK /\ CoreInv /\ [Next]_vars => CoreInv'
  <1> SUFFICES ASSUME SessionTypeOK, CoreInv, [Next]_vars
               PROVE  CoreInv'
    OBVIOUS
  <1> USE DEF netVars, sessVars, timerVars, dataVars, confVars
  <1>1. CASE NattyEntry
    BY <1>1, ConnectProcCore DEF NattyEntry, ntyProtocolInit, ntyClientDevInit, CoreInv, OffIsEmpty
  <1>2. CASE ConnectTimeout \/ DetectSimTimeout
    <2>1. /\ power \in {"on", "restarting"} /\ level = "LOGIN" /\ sockfd # "open"
          /\ ConnectProc("off", FALSE, power)
      BY <1>2 DEF ConnectTimeout, DetectSimTimeout, CoreInv, OneRetryChain, running, SessionTypeOK
    <2>2. QED
      BY <2>1, ConnectProcCore
  <1>3. CASE SendTimeout
    <2>1. /\ sendProc(sockfd, power) /\ initTimer = "sendProc" /\ power # "off"
          /\ UNCHANGED <<sockfd, sockets, down, simTimer>>
      BY <1>3 DEF SendTimeout, running
    <2>2. UNCHANGED <<level, hbTimer>> /\ power' # "off"
      BY <2>1 DEF sendProc, ntyColdRestart
    <2>3. initTimer' = IF level = "DATAPACKET" THEN "off" ELSE "sendProc"
      BY <2>1 DEF sendProc
    <2>4. sockfd # "open" => up' = up
      BY <2>1, SendUp DEF sendProc, sendLoginPacket, sendTimeCheckPacket
    <2>5. level = "LOGIN" => up' \subseteq up \cup {SimpleReq("LOGIN_REQ")}
      BY <2>1, SendUp DEF sendProc, sendLoginPacket
    <2>6. OffIsEmpty' /\ TimersOfLevel' /\ OneRetryChain' /\ OneSocket'
      BY <2>1, <2>2, <2>3
         DEF CoreInv, OffIsEmpty, TimersOfLevel, OneRetryChain, OneSocket, running
    <2>7. SessionOrder'
      BY <2>1, <2>2, <2>4, <2>5 DEF CoreInv, SessionOrder, SimpleReq
    <2>8. QED
      BY <2>6, <2>7 DEF CoreInv
  <1>4. CASE heartbeatProc
    <2>1. level # "LOGIN" /\ sockfd = "open"
      BY <1>4 DEF heartbeatProc, CoreInv, TimersOfLevel, SessionOrder
    <2>2. QED
      BY <1>4, <2>1
         DEF heartbeatProc, CoreInv, OffIsEmpty, TimersOfLevel, OneRetryChain, OneSocket,
             SessionOrder, running
  <1>5. CASE ConfirmTimeout
    BY <1>5 DEF ConfirmTimeout, CoreInv, OffIsEmpty, TimersOfLevel, OneRetryChain, OneSocket,
                SessionOrder, running
  <1>6. CASE RecvLoginAck
    <2>1. /\ sockfd = "open" /\ level' = "TIMECHECK" /\ power # "off"
          /\ UNCHANGED <<sockfd, sockets, up, down, power, timerVars>>
      BY <1>6 DEF RecvLoginAck, RecvFrame, running
    <2>2. hbTimer \/ initTimer = "sendProc"
      BY <2>1 DEF CoreInv, TimersOfLevel, OneRetryChain, SessionTypeOK, Levels, running
    <2>3. QED
      BY <2>1, <2>2 DEF CoreInv, OffIsEmpty, TimersOfLevel, OneRetryChain, OneSocket,
                        SessionOrder, running
  <1>7. CASE RecvTimeCheckAck
    BY <1>7 DEF RecvTimeCheckAck, RecvFrame, CoreInv, OffIsEmpty, TimersOfLevel,
                OneRetryChain, OneSocket, SessionOrder, running
  <1>8. CASE RecvHeartbeatAck \/ RecvDataPacketReq \/ RecvIgnored
    <2>1. UNCHANGED <<sockfd, sockets, up, down, sessVars, timerVars>>
      BY <1>8 DEF RecvHeartbeatAck, RecvDataPacketReq, RecvIgnored, RecvFrame, RecvNothing
    <2>2. QED
      BY <2>1 DEF CoreInv, OffIsEmpty, TimersOfLevel, OneRetryChain, OneSocket,
                  SessionOrder, running
  <1>9. CASE MMIStep
    <2>1. UNCHANGED <<sockfd, sockets, down, sessVars, timerVars>> /\ power # "off"
      BY <1>9 DEF MMIStep, ProcProxyAck, ProcUserData, ProcGetValue, ProcCallCtrl,
                  MMIProcMsg, running
    <2>2. \/ up' = up
          \/ /\ sockfd = "open"
             /\ \E m : /\ up' = up \cup {m}
                      /\ m.type \in {"DATAPACKET_ACK", "DATAPACKET_REQ"}
      <3>1. CASE ProcProxyAck
        BY <3>1, SendUp DEF ProcProxyAck, sendProxyDataPacketAck
      <3>2. CASE ProcGetValue
        BY <3>2, SendUp DEF ProcGetValue, sendProxyUserDataPacket
      <3>3. CASE ProcUserData \/ ProcCallCtrl
        BY <3>3 DEF ProcUserData, ProcCallCtrl
      <3>4. QED
        BY <1>9, <3>1, <3>2, <3>3 DEF MMIStep
    <2>3. QED
      BY <2>1, <2>2 DEF CoreInv, OffIsEmpty, TimersOfLevel, OneRetryChain, OneSocket,
                        SessionOrder, running
  <1>10. CASE ntyMakeCall \/ CallStep \/ ServiceChange
    BY <1>10 DEF ntyMakeCall, CallStep, ntyCallNumberIsAllowed, ntyEndCallCb, ShowCall,
                 ServiceChange, CoreInv, OffIsEmpty, TimersOfLevel,
                 OneRetryChain, OneSocket, SessionOrder, running
  <1>11. CASE ShutdownDone
    BY <1>11 DEF ShutdownDone, CoreInv, OffIsEmpty, TimersOfLevel,
                 OneRetryChain, OneSocket, SessionOrder, running
  <1>12. CASE NetworkStep
    <2>1. UNCHANGED <<sockfd, sockets, power, level, timerVars>>
      BY <1>12 DEF NetworkStep, ServerLogin, ServerTimeCheck, ServerHeartbeat, ServerRelay,
                   ServerAnswer, Lose
    <2>2. up' \subseteq up
      BY <1>12 DEF NetworkStep, ServerLogin, ServerTimeCheck, ServerHeartbeat, ServerRelay,
                   ServerAnswer, Lose
    <2>3. sockfd # "open" => down' = {}
      BY <1>12 DEF NetworkStep, ServerLogin, ServerTimeCheck, ServerHeartbeat, ServerRelay,
                   ServerAnswer, Lose, CoreInv, SessionOrder
    <2>4. level = "LOGIN" => \A m \in down' : m.type \notin {"TIME_CHECK_ACK", "HEARTBEAT_ACK"}
      BY <1>12 DEF NetworkStep, ServerLogin, ServerTimeCheck, ServerHeartbeat, ServerRelay,
                   ServerAnswer, Lose, SimpleReq, CoreInv, SessionOrder
    <2>5. power = "off" => sockfd # "open"
      BY DEF CoreInv, OffIsEmpty
    <2>6. QED
      BY <2>1, <2>2, <2>3, <2>4, <2>5 DEF CoreInv, OffIsEmpty, TimersOfLevel,
                 OneRetryChain, OneSocket, SessionOrder, running
  <1>13. CASE UNCHANGED vars
    BY <1>13 DEF vars, CoreInv, OffIsEmpty, TimersOfLevel, OneRetryChain, OneSocket,
                 SessionOrder, running
  <1>14. QED
    BY <1>1, <1>2, <1>3, <1>4, <1>5, <1>6, <1>7, <1>8, <1>9, <1>10, <1>11, <1>12, <1>13
       DEF Next, TimerStep, UdpCallback

LEMMA CoreCorrect == Spec => [](TypeOK /\ CoreInv)
  <1>1. Init => TypeOK /\ CoreInv
    BY TypeInit, CoreInit
  <1>2. TypeOK /\ CoreInv /\ [Next]_vars => (TypeOK /\ CoreInv)'
    BY TypeStep, CoreStep DEF TypeOK
  <1>3. QED
    BY <1>1, <1>2, PTL DEF Spec

\* A watch that is on always has a timer running that will make it send or
\* connect: the heartbeat's, or the one its level calls for (TimersOfLevel).
THEOREM NeverSilentAlways == Spec => []NeverSilent
  <1>1. TypeOK /\ CoreInv => NeverSilent
    BY DEF TypeOK, SessionTypeOK, Levels, CoreInv, TimersOfLevel, OneRetryChain, NeverSilent,
           running
  <1>2. QED
    BY <1>1, CoreCorrect, PTL

\* The two timers that lead to ConnectProc never run together, and neither runs
\* once a socket is open.
THEOREM OneRetryChainAlways == Spec => []OneRetryChain
  <1>1. CoreInv => OneRetryChain
    BY DEF CoreInv
  <1>2. QED
    BY <1>1, CoreCorrect, PTL

\* Retrying never opens a second socket behind the first, whatever else fails,
\* as long as SOC_NBIO can be set.
THEOREM OneSocketAlways == Spec => []OneSocket
  <1>1. CoreInv => OneSocket
    BY DEF CoreInv
  <1>2. QED
    BY <1>1, CoreCorrect, PTL

\* Nothing that belongs to a later stage of the session is in the network
\* before the login answer is taken.
THEOREM SessionOrderAlways == Spec => []SessionOrder
  <1>1. CoreInv => SessionOrder
    BY DEF CoreInv
  <1>2. QED
    BY <1>1, CoreCorrect, PTL

-----------------------------------------------------------------------------
(* The client core implements the abstract session. *)

LEMMA SessionInit == Init => Session!Init
  BY DEF Init, NetworkInit, Session!Init

\* A step that leaves level, socket, heartbeat and the power alone changes
\* nothing of the session.
LEMMA SessionStutter ==
  ASSUME UNCHANGED <<level, sockfd, hbTimer>>, power = "off" <=> power' = "off"
  PROVE  UNCHANGED Session!sessionVars
  BY DEF Session!sessionVars

LEMMA SessionStep ==
  SessionTypeOK /\ CoreInv /\ [Next]_vars => [Session!Next]_(Session!sessionVars)
  <1> SUFFICES ASSUME SessionTypeOK, CoreInv, [Next]_vars
               PROVE  Session!Next \/ UNCHANGED Session!sessionVars
    OBVIOUS
  <1> USE DEF netVars, sessVars, timerVars
  <1>1. CASE NattyEntry
    <2>1. power = "off" /\ power' # "off" /\ level' = "LOGIN" /\ hbTimer' = hbTimer
      BY <1>1, ConnectProcCore DEF NattyEntry, ntyProtocolInit, ntyClientDevInit, CoreInv, OffIsEmpty
    <2>2. Session!SwitchOn
      BY <2>1 DEF Session!SwitchOn
    <2>3. QED
      BY <2>2 DEF Session!Next
  <1>2. CASE ConnectTimeout \/ DetectSimTimeout
    <2>1. /\ power \in {"on", "restarting"} /\ level = "LOGIN" /\ sockfd # "open"
          /\ ConnectProc("off", FALSE, power)
      BY <1>2 DEF ConnectTimeout, DetectSimTimeout, CoreInv, OneRetryChain, running, SessionTypeOK
    <2>2. level' = "LOGIN" /\ hbTimer' = hbTimer /\ power' # "off"
      BY <2>1, ConnectProcCore
    <2>3. CASE sockfd' = "open"
      <3>1. Session!Connect
        BY <2>1, <2>2, <2>3 DEF Session!Connect
      <3>2. QED
        BY <3>1 DEF Session!Next
    <2>4. CASE sockfd' # "open"
      BY <2>1, <2>2, <2>4 DEF Session!sessionVars
    <2>5. QED
      BY <2>3, <2>4
  <1>3. CASE SendTimeout
    BY <1>3, SessionStutter DEF SendTimeout, sendProc, ntyColdRestart, running
  <1>4. CASE RecvLoginAck
    <2>1. /\ sockfd = "open" /\ power # "off" /\ level' = "TIMECHECK"
          /\ UNCHANGED <<sockfd, power, hbTimer>>
      BY <1>4 DEF RecvLoginAck, RecvFrame, running
    <2>2. CASE level = "TIMECHECK"
      BY <2>1, <2>2, SessionStutter
    <2>3. CASE level \in {"LOGIN", "DATAPACKET"}
      <3>1. Session!Registered
        BY <2>1, <2>3 DEF Session!Registered
      <3>2. QED
        BY <3>1 DEF Session!Next
    <2>4. QED
      BY <2>2, <2>3 DEF SessionTypeOK, Levels
  <1>5. CASE RecvTimeCheckAck
    <2>1. /\ power # "off" /\ level' = "DATAPACKET" /\ hbTimer' = TRUE
          /\ UNCHANGED <<sockfd, power>>
          /\ \E m \in down : m.type = "TIME_CHECK_ACK"
      BY <1>5 DEF RecvTimeCheckAck, RecvFrame, running
    <2>2. level \in {"TIMECHECK", "DATAPACKET"}
      BY <2>1 DEF CoreInv, SessionOrder, SessionTypeOK, Levels
    <2>3. Session!Synchronised
      BY <2>1, <2>2 DEF Session!Synchronised
    <2>4. QED
      BY <2>3 DEF Session!Next
  <1>6. CASE ShutdownDone
    <2>1. Session!SwitchOff
      BY <1>6 DEF ShutdownDone, Session!SwitchOff
    <2>2. QED
      BY <2>1 DEF Session!Next
  <1>7. CASE \/ heartbeatProc \/ ConfirmTimeout \/ RecvHeartbeatAck \/ RecvDataPacketReq
             \/ RecvIgnored \/ MMIStep \/ ntyMakeCall \/ CallStep \/ ServiceChange \/ NetworkStep
    <2>1. UNCHANGED <<level, sockfd, hbTimer, power>>
      BY <1>7
         DEF heartbeatProc, ConfirmTimeout, RecvHeartbeatAck, RecvDataPacketReq, RecvIgnored,
             RecvFrame, RecvNothing, MMIStep, ProcProxyAck, ProcUserData, ProcGetValue,
             ProcCallCtrl, MMIProcMsg, ntyMakeCall, CallStep, ntyCallNumberIsAllowed, ntyEndCallCb, ShowCall,
             ServiceChange, NetworkStep, ServerLogin,
             ServerTimeCheck, ServerHeartbeat, ServerRelay, ServerAnswer, Lose
    <2>2. QED
      BY <2>1, SessionStutter
  <1>8. CASE UNCHANGED vars
    BY <1>8, SessionStutter DEF vars
  <1>9. QED
    BY <1>1, <1>2, <1>3, <1>4, <1>5, <1>6, <1>7, <1>8 DEF Next, TimerStep, UdpCallback

\* Every behaviour of the client core is a behaviour of the abstract session of
\* WatchSession: it never goes back further than to taking the time, never is
\* online without having registered since it was switched on, and keeps beating
\* until it is switched off.
THEOREM Implementation == Spec => ImplementsSession
  <1>1. Init => Session!Init
    BY SessionInit
  <1>2. TypeOK /\ CoreInv /\ [Next]_vars => [Session!Next]_(Session!sessionVars)
    BY SessionStep DEF TypeOK
  <1>3. QED
    BY <1>1, <1>2, CoreCorrect, PTL DEF Spec, ImplementsSession, Session!Spec

\* No step of the client core but the end of a restart stops the heartbeat.
THEOREM HeartbeatKeptAlways == Spec => HeartbeatKept
  <1>1. TypeOK /\ CoreInv /\ [Next]_vars =>
          [hbTimer => hbTimer' \/ power' = "off"]_vars
    <2> SUFFICES ASSUME TypeOK, CoreInv, [Next]_vars, hbTimer
                 PROVE  hbTimer' \/ power' = "off"
      OBVIOUS
    <2>1. [Session!Next]_(Session!sessionVars)
      BY SessionStep DEF TypeOK
    <2>2. QED
      BY <2>1 DEF Session!Next, Session!SwitchOn, Session!Connect, Session!Registered,
                  Session!Synchronised, Session!SwitchOff, Session!sessionVars
  <1>2. QED
    BY <1>1, CoreCorrect, PTL DEF Spec, HeartbeatKept

-----------------------------------------------------------------------------
(* Ids. *)

\* Division leaves one remainder only.
LEMMA Remainder ==
  ASSUME NEW w \in Nat \ {0}, NEW q \in Nat, NEW x \in 0..(w - 1)
  PROVE  (q * w + x) % w = x
  OBVIOUS

\* Converting an id a second time changes nothing: the upper half that the sign
\* puts in does not come back into the lower one.
LEMMA ConvertTwice ==
  ASSUME NEW id \in Nat
  PROVE  ntyU8ArrayToU64(ntyU8ArrayToU64(id)) = ntyU8ArrayToU64(id)
  <1> DEFINE low == id % WordSize
  <1>1. WordSize \in Nat \ {0} /\ LongSize = WordSize * WordSize
    BY NetworkAssumption
  <1>2. low \in 0..(WordSize - 1)
    BY <1>1, ModRange
  <1>3. (0 * WordSize + low) % WordSize = low
    BY <1>1, <1>2, Remainder
  <1>4. ((WordSize - 1) * WordSize + low) % WordSize = low
    <2>1. WordSize - 1 \in Nat
      BY <1>1
    <2>2. QED
      BY <1>1, <1>2, <2>1, Remainder
  <1>5. low + (LongSize - WordSize) = (WordSize - 1) * WordSize + low
    BY <1>1, <1>2
  <1>6. 0 * WordSize + low = low
    BY <1>1, <1>2
  <1>7. ntyU8ArrayToU64(id) % WordSize = low
    <2>1. ntyU8ArrayToU64(id) \in {low, low + (LongSize - WordSize)}
      BY DEF ntyU8ArrayToU64
    <2>2. low % WordSize = low /\ (low + (LongSize - WordSize)) % WordSize = low
      BY <1>3, <1>4, <1>5, <1>6
    <2> HIDE DEF low
    <2>3. QED
      BY <2>1, <2>2
  <1>8. QED
    BY <1>7 DEF ntyU8ArrayToU64

-----------------------------------------------------------------------------
(* The queue. *)

\* The packet p asks for, sets or is acknowledged by what the message q says.
StandsFor(q, p) ==
  /\ q.from = ntyU8ArrayToU64(p.from)
  /\ q.cmd = "PROXY_ACK" => q.ack = (p.ack + 1) % AckSize
  /\ q.cmd = "DATA_SENDFRAME" => q.content = Kept(p)
  /\ q.cmd = "GET_POWER" => Kept(p).verb = "GET" /\ Kept(p).node = "Power"
  /\ q.cmd = "GET_SIGNAL" => Kept(p).verb = "GET" /\ Kept(p).node = "Signal"

\* IdsWhole, of any set of packets.
Whole(packets) == \A p \in packets : Length(p.content) >= DevIdBytes

\* An acknowledgement always stands for a packet, the others do so as long as
\* no message was cut inside its id.
HasSource(q, packets) ==
  q.cmd # "CALL_CTRL" /\ (q.cmd = "PROXY_ACK" \/ Whole(packets)) =>
    \E p \in packets : StandsFor(q, p)

\* AckFirst, of any sequence of messages.
Acked(msgs, packets) ==
  \A i \in 1..Len(msgs) :
    msgs[i].cmd = "DATA_SENDFRAME" /\ i > 1 =>
      /\ msgs[i - 1].cmd = "PROXY_ACK"
      /\ Whole(packets) => msgs[i - 1].from = msgs[i].from

Sound(msgs, packets) ==
  /\ Acked(msgs, packets)
  /\ \A i \in 1..Len(msgs) : HasSource(msgs[i], packets)

\* A message that is taken leaves a sound queue.
LEMMA TailSound ==
  ASSUME NEW msgs \in Seq(Item), msgs # <<>>, NEW packets, Sound(msgs, packets)
  PROVE  Tail(msgs) \in Seq(Item) /\ Sound(Tail(msgs), packets)
  <1> DEFINE rest == Tail(msgs)
  <1>1. /\ rest \in Seq(Item) /\ Len(rest) = Len(msgs) - 1
        /\ \A i \in 1..Len(rest) : rest[i] = msgs[i + 1]
    OBVIOUS
  <1> HIDE DEF rest
  <1>2. Acked(rest, packets)
    <2>1. SUFFICES ASSUME NEW i \in 1..Len(rest), rest[i].cmd = "DATA_SENDFRAME", i > 1
                   PROVE  /\ rest[i - 1].cmd = "PROXY_ACK"
                          /\ Whole(packets) => rest[i - 1].from = rest[i].from
      BY DEF Acked
    <2>2. i - 1 \in 1..Len(rest) /\ i + 1 \in 1..Len(msgs)
      BY <1>1, <2>1
    <2>3. rest[i - 1] = msgs[i] /\ rest[i] = msgs[i + 1]
      BY <1>1, <2>2
    <2>4. QED
      BY <2>1, <2>2, <2>3 DEF Sound, Acked
  <1>3. \A i \in 1..Len(rest) : HasSource(rest[i], packets)
    BY <1>1 DEF Sound
  <1>4. QED
    BY <1>1, <1>2, <1>3 DEF Sound, rest

\* The task's messages to itself go to the end.
LEMMA AppendSound ==
  ASSUME NEW msgs \in Seq(Item), NEW packets, Sound(msgs, packets),
         NEW item \in Item, item.cmd # "DATA_SENDFRAME", HasSource(item, packets)
  PROVE  Sound(Append(msgs, item), packets)
  <1> DEFINE more == Append(msgs, item)
  <1>1. /\ Len(more) = Len(msgs) + 1 /\ more[Len(msgs) + 1] = item
        /\ \A i \in 1..Len(msgs) : more[i] = msgs[i]
    OBVIOUS
  <1> HIDE DEF more
  <1>2. \A i \in 1..Len(more) : i = Len(msgs) + 1 \/ i \in 1..Len(msgs)
    BY <1>1
  <1>3. Acked(more, packets)
    BY <1>1, <1>2 DEF Sound, Acked
  <1>4. \A i \in 1..Len(more) : HasSource(more[i], packets)
    BY <1>1, <1>2 DEF Sound
  <1>5. QED
    BY <1>3, <1>4 DEF Sound, more

\* Two sequences in one, the places of the second one after another.
LEMMA TwoMore ==
  ASSUME NEW S, NEW s \in Seq(S), NEW t \in Seq(S), Len(t) = 2
  PROVE  /\ Len(s \o t) = Len(s) + 2
         /\ \A i \in 1..Len(s) : (s \o t)[i] = s[i]
         /\ (s \o t)[Len(s) + 1] = t[1] /\ (s \o t)[Len(s) + 2] = t[2]
  <1>1. /\ Len(s \o t) = Len(s) + Len(t)
        /\ \A i \in 1..(Len(s) + Len(t)) :
             (s \o t)[i] = IF i <= Len(s) THEN s[i] ELSE t[i - Len(s)]
    BY ConcatProperties
  <1>2. QED
    BY <1>1

\* A packet's two messages go to the end, and stand for it.
LEMMA PacketSound ==
  ASSUME NEW msgs \in Seq(Item), NEW packets, Sound(msgs, packets), NEW p,
         NEW two \in Seq(Item), two \in PacketMessages(ntyU8ArrayToU64(p.from), p.ack, p.content),
         Length(p.content) \in Nat
  PROVE  Sound(msgs \o two, packets \cup {p})
  <1> DEFINE more == msgs \o two
             n == Len(msgs)
             all == packets \cup {p}
  <1>0. /\ Len(two) = 2 /\ two[1].cmd = "PROXY_ACK" /\ two[2].cmd = "DATA_SENDFRAME"
        /\ StandsFor(two[1], p)
        /\ Whole(all) => two[1].from = two[2].from /\ StandsFor(two[2], p)
    <2>1. PICK d \in DataMessages(ntyU8ArrayToU64(p.from), p.content) :
            two = <<[cmd |-> "PROXY_ACK", from |-> ntyU8ArrayToU64(p.from),
                     ack |-> (p.ack + 1) % AckSize], d>>
      BY DEF PacketMessages
    <2>2. StandsFor(two[1], p) /\ two[1].from = ntyU8ArrayToU64(p.from) /\ two[2] = d
      BY <2>1 DEF StandsFor
    <2>3. d.cmd = "DATA_SENDFRAME"
      BY DEF DataMessages
    <2>4. ASSUME Whole(all)
          PROVE  d.from = ntyU8ArrayToU64(p.from) /\ d.content = Kept(p)
      <3>1. Length(p.content) >= DevIdBytes /\ 2 * Length(p.content) >= DevIdBytes
        BY <2>4 DEF Whole, DevIdBytes
      <3>2. QED
        BY <3>1 DEF DataMessages, Kept
    <2>5. QED
      BY <2>1, <2>2, <2>3, <2>4 DEF StandsFor
  <1>1. /\ n \in Nat /\ Len(more) = n + 2
        /\ \A i \in 1..n : more[i] = msgs[i]
        /\ more[n + 1] = two[1] /\ more[n + 2] = two[2]
    BY <1>0, TwoMore
  <1>w. Whole(all) => Whole(packets)
    BY DEF Whole
  <1> HIDE DEF more, n
  <1>2. \A i \in 1..Len(more) : i \in 1..n \/ i = n + 1 \/ i = n + 2
    BY <1>1
  <1>3. Acked(more, all)
    <2>1. SUFFICES ASSUME NEW i \in 1..Len(more), more[i].cmd = "DATA_SENDFRAME", i > 1
                   PROVE  /\ more[i - 1].cmd = "PROXY_ACK"
                          /\ Whole(all) => more[i - 1].from = more[i].from
      BY DEF Acked
    <2>2. CASE i \in 1..n
      <3>1. i - 1 \in 1..n
        BY <2>1, <2>2, <1>1
      <3>2. more[i - 1] = msgs[i - 1] /\ more[i] = msgs[i]
        BY <2>2, <3>1, <1>1
      <3>3. QED
        BY <2>1, <2>2, <3>2, <1>w DEF Sound, Acked, n
    <2>3. CASE i = n + 1
      BY <2>1, <2>3, <1>0, <1>1
    <2>4. CASE i = n + 2
      <3>1. i - 1 = n + 1
        BY <2>4, <1>1
      <3>2. more[i - 1] = two[1] /\ more[i] = two[2]
        BY <2>4, <3>1, <1>1
      <3>3. QED
        BY <3>2, <1>0
    <2>5. QED
      BY <2>2, <2>3, <2>4, <1>2
  <1>4. \A i \in 1..Len(more) : HasSource(more[i], all)
    <2>1. SUFFICES ASSUME NEW i \in 1..Len(more) PROVE HasSource(more[i], all)
      OBVIOUS
    <2>2. CASE i \in 1..n
      <3>1. HasSource(msgs[i], packets) /\ more[i] = msgs[i]
        BY <2>2, <1>1 DEF Sound, n
      <3>2. QED
        BY <3>1, <1>w DEF HasSource
    <2>3. CASE i = n + 1
      BY <2>3, <1>0, <1>1 DEF HasSource
    <2>4. CASE i = n + 2
      BY <2>4, <1>0, <1>1 DEF HasSource
    <2>5. QED
      BY <2>2, <2>3, <2>4, <1>2
  <1>5. QED
    BY <1>3, <1>4 DEF Sound, more

-----------------------------------------------------------------------------
(* The invariant. *)

\* History holds the packets of friends only.
Friendly == \A p \in received : p.type = "DATAPACKET_REQ"

PacketInv ==
  /\ Friendly
  /\ Sound(queue, received)
  /\ RepliesAnswerPackets
  /\ NumbersHaveASource

\* AckFirst is part of it.
LEMMA SoundAcked == PacketInv => AckFirst
  BY DEF PacketInv, Sound, Acked, AckFirst, Whole, IdsWhole

LEMMA PacketInit == Init => PacketInv
  BY DEF Init, NetworkInit, PacketInv, Friendly, Sound, Acked, RepliesAnswerPackets, NumbersHaveASource, EmptyRecord

\* A frame that answers an accepted packet, or is none of these, may be sent.
Answers(m) ==
  /\ m.type = "DATAPACKET_ACK" =>
       \E p \in received : m.ack = (p.ack + 1) % AckSize /\ m.dest = ntyU8ArrayToU64(p.from)
  /\ m.type = "DATAPACKET_REQ" /\ IdsWhole =>
       \E p \in received : /\ Kept(p).verb = "GET" /\ Kept(p).node = m.node
                           /\ m.dest = ntyU8ArrayToU64(p.from)

LEMMA SendAnswers ==
  ASSUME RepliesAnswerPackets, UNCHANGED received, NEW m, Answers(m), up' \subseteq up \cup {m}
  PROVE  RepliesAnswerPackets'
  BY DEF RepliesAnswerPackets, Answers, IdsWhole

\* The requests of the session ask nothing of a packet.
LEMMA SessionSends ==
  ASSUME RepliesAnswerPackets, UNCHANGED received, NEW fd,
         \/ sendLoginPacket(fd) \/ sendTimeCheckPacket(fd) \/ heartbeat(fd) \/ up' \subseteq up
  PROVE  RepliesAnswerPackets'
  <1>1. \E type \in Requests : up' \subseteq up \cup {SimpleReq(type)}
    BY SendUp DEF sendLoginPacket, sendTimeCheckPacket, heartbeat, Requests
  <1>2. \A type \in Requests : Answers(SimpleReq(type))
    BY DEF Answers, SimpleReq, Requests
  <1>3. QED
    BY <1>1, <1>2, SendAnswers

LEMMA PacketStep == TypeOK /\ PacketInv /\ [Next]_vars => PacketInv'
  <1> SUFFICES ASSUME TypeOK, PacketInv, [Next]_vars
               PROVE  PacketInv'
    OBVIOUS
  <1> USE DEF netVars, sessVars, timerVars, dataVars, confVars
  <1>t. queue \in Seq(Item) /\ received \subseteq DownMsg /\ family \in Record
    BY DEF TypeOK, DataTypeOK, ConfigTypeOK
  <1>f. UNCHANGED received => Friendly'
    BY DEF PacketInv, Friendly
  <1>q. UNCHANGED <<queue, received>> => Sound(queue, received)'
    BY DEF PacketInv
  <1>n. UNCHANGED <<family, received>> => NumbersHaveASource'
    BY DEF PacketInv, NumbersHaveASource, IdsWhole
  <1>u. UNCHANGED received /\ up' \subseteq up => RepliesAnswerPackets'
    BY DEF PacketInv, RepliesAnswerPackets, IdsWhole
  <1>1. CASE NattyEntry \/ ConnectTimeout \/ DetectSimTimeout
    <2>1. UNCHANGED <<queue, received>>
      BY <1>1 DEF NattyEntry, ntyProtocolInit, ntyClientDevInit, ConnectTimeout, DetectSimTimeout
    <2>2. \E fd : sendLoginPacket(fd) \/ sendTimeCheckPacket(fd) \/ up' = up
      BY <1>1 DEF NattyEntry, ntyProtocolInit, ntyClientDevInit, ConnectTimeout, DetectSimTimeout, ConnectProc,
                  ConnectNoService, ConnectOpen, sendProc
    <2>3. RepliesAnswerPackets'
      BY <2>1, <2>2, SessionSends DEF PacketInv
    <2>4. NumbersHaveASource'
      BY <1>1, <1>n, <2>1 DEF NattyEntry, ntyProtocolInit, ntyClientDevInit, ConnectTimeout, DetectSimTimeout,
                              ntyWatchConfigInit, EmptyRecord, NumbersHaveASource, IdsWhole
    <2>5. QED
      BY <1>f, <1>q, <2>1, <2>3, <2>4 DEF PacketInv
  <1>2. CASE SendTimeout \/ heartbeatProc
    <2>1. UNCHANGED <<queue, received, family>>
      BY <1>2 DEF SendTimeout, heartbeatProc
    <2>2. sendLoginPacket(sockfd) \/ sendTimeCheckPacket(sockfd) \/ heartbeat(sockfd) \/ up' = up
      BY <1>2 DEF SendTimeout, heartbeatProc, sendProc
    <2>3. QED
      BY <1>f, <1>q, <1>n, <2>1, <2>2, SessionSends DEF PacketInv
  <1>3. CASE \/ ConfirmTimeout \/ RecvLoginAck \/ RecvTimeCheckAck \/ RecvHeartbeatAck
             \/ RecvIgnored \/ CallStep \/ ServiceChange \/ NetworkStep
    <2>1. UNCHANGED <<queue, received, family>> /\ up' \subseteq up
      BY <1>3 DEF ConfirmTimeout, RecvLoginAck, RecvTimeCheckAck, RecvHeartbeatAck, RecvIgnored,
                  RecvFrame, RecvNothing, CallStep, ntyCallNumberIsAllowed, ntyEndCallCb, ShowCall,
                  ServiceChange, NetworkStep, ServerLogin,
                  ServerTimeCheck, ServerHeartbeat, ServerRelay, ServerAnswer, Lose
    <2>2. QED
      BY <1>f, <1>q, <1>n, <1>u, <2>1 DEF PacketInv
  <1>4. CASE RecvDataPacketReq
    <2>1. PICK p \in down :
            /\ p.type = "DATAPACKET_REQ"
            /\ \E two \in PacketMessages(ntyU8ArrayToU64(p.from), p.ack, p.content) :
                 queue' = queue \o two
            /\ received' = received \cup {p}
            /\ UNCHANGED <<up, family>>
      BY <1>4 DEF RecvDataPacketReq
    <2>2. PICK two \in PacketMessages(ntyU8ArrayToU64(p.from), p.ack, p.content) :
            queue' = queue \o two
      BY <2>1
    <2>3. Sound(queue, received)'
      <3>1. p.from \in Nat /\ p.ack \in Nat /\ p.content \in Contents
        BY <2>1, NetworkAssumption DEF TypeOK, NetworkTypeOK, DownMsg
      <3>2. two \in Seq(Item)
        BY <3>1, <2>2, IdType, MessagesType
      <3>3. Length(p.content) \in Nat
        <4>1. DevIdBytes + p.content.bytes + 1 \in Nat /\ LengthSize \in Nat \ {0}
          BY <3>1, DevAssumption DEF Text, DevIdBytes
        <4>2. QED
          BY <4>1, ModRange DEF Length
      <3>4. Sound(queue \o two, received \cup {p})
        BY <1>t, <2>2, <3>2, <3>3, PacketSound DEF PacketInv
      <3>5. QED
        BY <2>1, <2>2, <3>4
    <2>4. IdsWhole' => IdsWhole
      BY <2>1 DEF IdsWhole
    <2>5. Friendly' /\ RepliesAnswerPackets'
      BY <2>1, <2>4 DEF PacketInv, Friendly, RepliesAnswerPackets
    <2>6. NumbersHaveASource'
      BY <2>1, <2>4 DEF PacketInv, NumbersHaveASource
    <2>7. QED
      BY <2>3, <2>5, <2>6 DEF PacketInv
  <1>5. CASE MMIStep
    <2> DEFINE q == Head(queue)
    <2>1. queue # <<>> /\ UNCHANGED received /\ q \in Item /\ q = queue[1] /\ 1 \in 1..Len(queue)
      BY <1>5, <1>t DEF MMIStep, ProcProxyAck, ProcUserData, ProcGetValue, ProcCallCtrl,
                        MMIProcMsg
    <2>2. Tail(queue) \in Seq(Item) /\ Sound(Tail(queue), received)
      BY <1>t, <2>1, TailSound DEF PacketInv
    <2>3. HasSource(q, received)
      BY <2>1 DEF PacketInv, Sound
    <2>4. ASSUME q.cmd # "CALL_CTRL", q.cmd = "PROXY_ACK" \/ IdsWhole
          PROVE  \E p \in received : StandsFor(q, p) /\ ntyU8ArrayToU64(q.from) = q.from
      <3>1. PICK p \in received : StandsFor(q, p)
        BY <2>3, <2>4 DEF HasSource, Whole, IdsWhole
      <3>2. p.from \in Nat
        BY <1>t, NetworkAssumption DEF PacketInv, Friendly, DownMsg
      <3>3. QED
        BY <3>1, <3>2, ConvertTwice DEF StandsFor
    <2>5. CASE ProcProxyAck
      <3>1. q.cmd = "PROXY_ACK" /\ queue' = Tail(queue) /\ UNCHANGED family
            /\ sendProxyDataPacketAck(sockfd, ntyU8ArrayToU64(q.from), q.ack)
        BY <2>5 DEF ProcProxyAck, MMIProcMsg
      <3>2. PICK p \in received : StandsFor(q, p) /\ ntyU8ArrayToU64(q.from) = q.from
        BY <2>4, <3>1
      <3> DEFINE m == [type |-> "DATAPACKET_ACK", dest |-> q.from, ack |-> q.ack]
      <3>3. Answers(m)
        BY <3>1, <3>2 DEF Answers, StandsFor
      <3>4. up' \subseteq up \cup {m}
        BY <3>1, <3>2, SendUp DEF sendProxyDataPacketAck
      <3>5. RepliesAnswerPackets'
        BY <2>1, <3>3, <3>4, SendAnswers DEF PacketInv
      <3>6. QED
        BY <1>f, <1>n, <2>1, <2>2, <3>1, <3>5 DEF PacketInv
    <2>6. CASE ProcGetValue
      <3>1. /\ q.cmd \in {"GET_POWER", "GET_SIGNAL"} /\ queue' = Tail(queue) /\ UNCHANGED family
            /\ sendProxyUserDataPacket(sockfd, ntyU8ArrayToU64(q.from), ValueOf(q.cmd))
        BY <2>6 DEF ProcGetValue, MMIProcMsg
      <3> DEFINE m == [type |-> "DATAPACKET_REQ", dest |-> ntyU8ArrayToU64(q.from),
                       node |-> ValueOf(q.cmd)]
      <3>2. ASSUME IdsWhole
            PROVE  \E p \in received : /\ Kept(p).verb = "GET" /\ Kept(p).node = m.node
                                       /\ m.dest = ntyU8ArrayToU64(p.from)
        <4>1. PICK p \in received : StandsFor(q, p) /\ ntyU8ArrayToU64(q.from) = q.from
          BY <2>4, <3>1, <3>2
        <4>2. QED
          BY <3>1, <4>1 DEF StandsFor, ValueOf
      <3>3. Answers(m)
        BY <3>2 DEF Answers
      <3>4. up' \subseteq up \cup {m}
        BY <3>1, SendUp DEF sendProxyUserDataPacket
      <3>5. RepliesAnswerPackets'
        BY <2>1, <3>3, <3>4, SendAnswers DEF PacketInv
      <3>6. QED
        BY <1>f, <1>n, <2>1, <2>2, <3>1, <3>5 DEF PacketInv
    <2>7. CASE ProcUserData
      <3>1. q.cmd = "DATA_SENDFRAME" /\ UNCHANGED up
        BY <2>7 DEF ProcUserData, MMIProcMsg
      <3> DEFINE id == ntyU8ArrayToU64(q.from)
      <3>2. id \in Nat /\ q.content \in Text
        BY <2>1, <3>1, IdType DEF Item
      <3>3. ASSUME IdsWhole
            PROVE  \E p \in received : id = ntyU8ArrayToU64(p.from) /\ q.content = Kept(p)
        BY <2>4, <3>1, <3>3 DEF StandsFor
      <3> HIDE DEF id
      <3>4. CASE ntyGetOperaHandleRequest(q.content, id)
        <4>1. PICK item \in {[cmd |-> "GET_POWER", from |-> id], [cmd |-> "GET_SIGNAL", from |-> id]} :
                /\ HasSource(item, received)
                /\ queue' = Append(Tail(queue), item)
          BY <3>3, <3>4 DEF ntyGetOperaHandleRequest, HasSource, StandsFor, Whole, IdsWhole
        <4>2. item \in Item /\ item.cmd # "DATA_SENDFRAME"
          BY <3>2 DEF Item
        <4>3. Sound(queue', received)
          BY <2>2, <4>1, <4>2, AppendSound
        <4>4. UNCHANGED family
          BY <3>4 DEF ntyGetOperaHandleRequest
        <4>5. QED
          BY <1>f, <1>n, <1>u, <2>1, <3>1, <4>3, <4>4 DEF PacketInv
      <3>5. CASE ntySetOperaHandleRequest(q.content)
        <4> DEFINE c == q.content
        <4>1. /\ queue' = Tail(queue) /\ c.verb = "SET" /\ c.node = "FamilyNumber"
              /\ family' = Copied(c.idx, c.number)
          BY <3>5 DEF ntySetOperaHandleRequest, SetFamilyNumber
        <4>2. c.idx \in 0..1 /\ c.number \in Seq(Pieces)
          BY <3>2, ConfigAssumption DEF Text, Slots
        <4>3. ASSUME NEW k \in Places, family'[k] # family[k]
              PROVE  \E i \in 1..Len(c.number) : k = c.idx + i - 1 /\ family'[k] = c.number[i]
          <5>1. k - c.idx \in 0..(Len(c.number) - 1) /\ family'[k] = c.number[k - c.idx + 1]
            BY <4>1, <4>3 DEF Copied
          <5>2. /\ k - c.idx + 1 \in 1..Len(c.number)
                /\ k = c.idx + (k - c.idx + 1) - 1
            <6>1. k \in Int /\ c.idx \in Int /\ Len(c.number) \in Nat
              BY <4>2 DEF Places, MaxPieces
            <6> HIDE DEF c
            <6>2. QED
              BY <5>1, <6>1
          <5>3. QED
            BY <5>1, <5>2
        <4>4. NumbersHaveASource'
          <5>1. SUFFICES ASSUME IdsWhole, NEW k \in Places,
                                family'[k] # NoNumber,
                                ~ (k \in Slots /\ family'[k] = DefaultNumbers[k])
                         PROVE  \E p \in received :
                                  /\ Kept(p).verb = "SET" /\ Kept(p).node = "FamilyNumber"
                                  /\ \E i \in 1..Len(Kept(p).number) :
                                       k = Kept(p).idx + i - 1 /\ family'[k] = Kept(p).number[i]
            BY <2>1 DEF NumbersHaveASource, IdsWhole
          <5>2. CASE family'[k] = family[k]
            BY <5>1, <5>2 DEF PacketInv, NumbersHaveASource
          <5>3. CASE family'[k] # family[k]
            <6>1. PICK p \in received : c = Kept(p)
              BY <3>3, <5>1
            <6>2. QED
              BY <4>1, <4>3, <5>3, <6>1
          <5>4. QED
            BY <5>2, <5>3
        <4>5. QED
          BY <1>f, <1>u, <2>1, <2>2, <3>1, <4>1, <4>4 DEF PacketInv
      <3>6. CASE queue' = Tail(queue) /\ UNCHANGED family
        BY <1>f, <1>n, <1>u, <2>1, <2>2, <3>1, <3>6 DEF PacketInv
      <3>7. QED
        BY <2>7, <3>4, <3>5, <3>6 DEF ProcUserData, id
    <2>8. CASE ProcCallCtrl
      <3>1. queue' = Tail(queue) /\ UNCHANGED <<up, family>>
        BY <2>8 DEF ProcCallCtrl
      <3>2. QED
        BY <1>f, <1>n, <1>u, <2>1, <2>2, <3>1 DEF PacketInv
    <2>9. QED
      BY <1>5, <2>5, <2>6, <2>7, <2>8 DEF MMIStep
  <1>6. CASE ntyMakeCall
    <2>1. UNCHANGED <<up, received, family>> /\ queue' = Append(queue, [cmd |-> "CALL_CTRL"])
      BY <1>6 DEF ntyMakeCall
    <2> DEFINE item == [cmd |-> "CALL_CTRL"]
    <2>2. Sound(queue, received)'
      <3>1. item \in Item /\ item.cmd # "DATA_SENDFRAME" /\ HasSource(item, received)
        BY DEF Item, HasSource
      <3>2. Sound(Append(queue, item), received)
        BY <1>t, <3>1, AppendSound DEF PacketInv
      <3>3. QED
        BY <2>1, <3>2
    <2>3. QED
      BY <1>f, <1>n, <1>u, <2>1, <2>2 DEF PacketInv
  <1>7. CASE ShutdownDone
    BY <1>7 DEF ShutdownDone, PacketInv, Friendly, Sound, Acked, RepliesAnswerPackets,
                NumbersHaveASource, EmptyRecord
  <1>8. CASE UNCHANGED vars
    BY <1>8, <1>f, <1>q, <1>n, <1>u DEF vars, PacketInv
  <1>9. QED
    BY <1>1, <1>2, <1>3, <1>4, <1>5, <1>6, <1>7, <1>8
       DEF Next, TimerStep, UdpCallback

LEMMA PacketCorrect == Spec => []PacketInv
  <1>1. TypeOK /\ PacketInv /\ [Next]_vars => PacketInv'
    BY PacketStep
  <1>2. QED
    BY <1>1, PacketInit, TypeCorrect, PTL DEF Spec

\* The data of a packet is never ahead of its acknowledgement.
THEOREM AckFirstAlways == Spec => []AckFirst
  <1>1. PacketInv => AckFirst
    BY SoundAcked
  <1>2. QED
    BY <1>1, PacketCorrect, PTL

\* An acknowledgement answers a packet that was accepted from its addressee,
\* and a value one that asked for it, as long as no packet's length was cut to
\* less than an id.
THEOREM RepliesAnswerPacketsAlways == Spec => []RepliesAnswerPackets
  <1>1. PacketInv => RepliesAnswerPackets
    BY DEF PacketInv
  <1>2. QED
    BY <1>1, PacketCorrect, PTL

\* Whatever stands in the place of a number comes from the program or is the
\* piece of a packet's number that strcpy puts there, on the same condition.
THEOREM NumbersHaveASourceAlways == Spec => []NumbersHaveASource
  <1>1. PacketInv => NumbersHaveASource
    BY DEF PacketInv
  <1>2. QED
    BY <1>1, PacketCorrect, PTL
=============================================================================
