------------------------------ MODULE NattyDev ------------------------------
(***************************************************************************)
(* The client core: NattyClientDev.c driven by NattyMain.c.  Everything     *)
(* runs to completion on the MMI task: a timer that expires, a socket       *)
(* notification or a message of the task's own queue starts one handler,    *)
(* and one action below is one such handler with every call it makes.       *)
(* The operators named Bug... are plausible mistakes in the definition that  *)
(* follows them; nothing uses them but the check that a property notices.   *)
(***************************************************************************)
EXTENDS NattyNetwork, WatchConfig

CONSTANTS
  TimeCheckMax,  \* 5:  unanswered time checks before a cold restart
  CardMax,       \* 30: polls without service before a cold restart
  CharSize,      \* 256: the width of both counters
  LengthSize,    \* 256: the width of the length of a message to the task itself
  First(_, _),   \* what the first k bytes of a text mean as a command
  StrayIds,      \* ids that may be read where a message has been cut inside its id,
  StrayTexts,    \* and texts read behind one that has none
  MaxQueue,      \* bound on the task's message queue
  PhoneCalls     \* whether there are telephone calls; they touch the display only

\* A friend's text: what it means as a command, and its length.
Text == [verb : STRING, node : STRING, idx : Slots, number : Numbers, bytes : Nat]

ASSUME DevAssumption ==
  /\ TimeCheckMax \in Nat \ {0} /\ CardMax \in Nat \ {0}
  /\ CharSize \in Nat \ {0}
  /\ MaxQueue \in Nat /\ PhoneCalls \in BOOLEAN
  /\ LengthSize \in Nat \ {0}
  /\ Contents \subseteq Text /\ StrayTexts \subseteq Text /\ StrayIds \subseteq Nat
  /\ \A c \in Contents, k \in 0..LengthSize :
       First(c, k) \in Text /\ (k >= c.bytes => First(c, k) = c)

VARIABLES
  power,      \* "off", "on", or "restarting": a cold restart was requested
  service,    \* the SIM has full service
  level,      \* LEVEL_COMMUNICATION, the levels that are ever assigned
  initTimer,  \* NATTY_NETWORK_INIT_TIMER: its callback, or "off"
  simTimer,   \* NATTY_DETECT_SIM_STATUE_TIMER, whose callback is ConnectProc
  hbTimer,    \* NATTY_HEARTBEAT_TIMER
  u8TimeCheck,
  card_disapp_times,
  u8LedDisplayMode,
  friends,    \* the friends tree: id -> address
  queue,      \* the MMI task's messages to itself
  received    \* history: the data packets accepted since the watch booted

sessVars == <<power, service, level, u8TimeCheck, card_disapp_times, u8LedDisplayMode>>
timerVars == <<initTimer, simTimer, hbTimer>>
dataVars == <<friends, queue, received>>
confVars == <<family, conf>>
vars == <<netVars, sessVars, timerVars, dataVars, confVars>>

Levels == {"LOGIN", "TIMECHECK", "DATAPACKET"}

\* A command of NattyMain.h with its parameters.
Item ==
  [cmd : {"PROXY_ACK"}, from : Nat, ack : Nat]
    \cup [cmd : {"DATA_SENDFRAME"}, from : Nat, content : Text]
    \cup [cmd : {"GET_POWER", "GET_SIGNAL"}, from : Nat]
    \cup [cmd : {"CALL_CTRL"}]

running == power # "off"

-----------------------------------------------------------------------------
(* Connecting and registering. *)

\* srv_shutdown_normal_start returns at once: the task keeps running until
\* the platform takes the power away (ShutdownDone).
ntyColdRestart(when, now) == power' = IF when THEN "restarting" ELSE now

\* Mistake: the time check is what is sent before the login is answered.
BugTimeCheckFirst(fd, now) ==
  /\ level # "DATAPACKET"
  /\ initTimer' = "sendProc"
  /\ power' = now
  /\ IF level = "LOGIN" THEN sendTimeCheckPacket(fd) ELSE sendLoginPacket(fd)
  /\ UNCHANGED <<u8TimeCheck, level, hbTimer>>

\* sendProc, entered with the socket handle fd.
sendProc(fd, now) ==
  /\ IF level = "DATAPACKET"
     THEN /\ initTimer' = "off"
          /\ power' = now
          /\ UNCHANGED <<u8TimeCheck, confirmTimer, up>>
     ELSE /\ initTimer' = "sendProc"
          /\ \/ /\ level = "LOGIN"
                /\ power' = now
                /\ sendLoginPacket(fd)
                /\ UNCHANGED u8TimeCheck
             \/ /\ level = "TIMECHECK"
                /\ u8TimeCheck' = (u8TimeCheck + 1) % CharSize
                /\ ntyColdRestart(u8TimeCheck' >= TimeCheckMax, now)
                /\ sendTimeCheckPacket(fd)
  /\ UNCHANGED <<level, hbTimer>>

\* Mistake: both timers that lead back to ConnectProc are started.
BugTwoPolls(init, now) ==
  /\ ~service
  /\ card_disapp_times' = (card_disapp_times + 1) % CharSize
  /\ ntyColdRestart(card_disapp_times' >= CardMax, now)
  /\ simTimer' = TRUE
  /\ initTimer' = "ConnectProc"
  /\ UNCHANGED <<netVars, level, u8TimeCheck, hbTimer>>

\* ConnectProc without full service: poll again in three seconds.  A call in
\* progress proves that there is a card and clears the count.
ConnectNoService(init, now) ==
  /\ ~service
  /\ \E inCall \in BOOLEAN :
       card_disapp_times' = IF inCall THEN 0 ELSE (card_disapp_times + 1) % CharSize
  /\ ntyColdRestart(card_disapp_times' >= CardMax, now)
  /\ simTimer' = TRUE
  /\ initTimer' = init
  /\ UNCHANGED <<netVars, level, u8TimeCheck, hbTimer>>

\* Mistake: a failed attempt is not repeated.
BugNoRetry(sim, now, fd) ==
  /\ service
  /\ ntyNetworkConnect(fd)
  /\ simTimer' = sim
  /\ IF fd = "error"
     THEN /\ initTimer' = "off"
          /\ power' = now
          /\ UNCHANGED <<level, u8TimeCheck, hbTimer, confirmTimer, up>>
     ELSE sendProc(fd, now)
  /\ UNCHANGED <<card_disapp_times, down>>

\* ConnectProc with service: open the socket, then register at once; on a
\* negative result try again in five seconds.
ConnectOpen(sim, now, fd) ==
  /\ service
  /\ ntyNetworkConnect(fd)
  /\ simTimer' = sim
  /\ IF fd = "error"
     THEN /\ initTimer' = "ConnectProc"
          /\ power' = now
          /\ UNCHANGED <<level, u8TimeCheck, hbTimer, confirmTimer, up>>
     ELSE sendProc(fd, now)
  /\ UNCHANGED <<card_disapp_times, down>>

ConnectProc(init, sim, now) ==
  /\ \/ ConnectNoService(init, now)
     \/ \E fd \in {"zero", "open", "error"} : ConnectOpen(sim, now, fd)
  /\ UNCHANGED <<service, u8LedDisplayMode>>

ntyClientDevInit == ConnectProc("off", FALSE, "on")

\* The settings, then the client.
ntyProtocolInit == ntyWatchConfigInit /\ ntyClientDevInit

\* The watch boots; the scan timer that is started here belongs to NattyLocation.
NattyEntry ==
  /\ power = "off"
  /\ ntyProtocolInit
  /\ UNCHANGED dataVars

ConnectTimeout ==
  /\ running /\ initTimer = "ConnectProc"
  /\ ConnectProc("off", simTimer, power)
  /\ UNCHANGED <<dataVars, confVars>>

DetectSimTimeout ==
  /\ running /\ simTimer
  /\ ConnectProc(initTimer, FALSE, power)
  /\ UNCHANGED <<dataVars, confVars>>

SendTimeout ==
  /\ running /\ initTimer = "sendProc"
  /\ sendProc(sockfd, power)
  /\ UNCHANGED <<sockfd, sockets, down, service, card_disapp_times, u8LedDisplayMode,
                 simTimer, dataVars, confVars>>

\* Mistake: the heartbeat does not start its timer again.
BugOneBeat ==
  /\ running /\ hbTimer
  /\ hbTimer' = FALSE
  /\ heartbeat(sockfd)
  /\ UNCHANGED <<sockfd, sockets, down, sessVars, initTimer, simTimer, dataVars, confVars>>

heartbeatProc ==
  /\ running /\ hbTimer
  /\ heartbeat(sockfd)
  /\ UNCHANGED <<sockfd, sockets, down, sessVars, timerVars, dataVars, confVars>>

\* ntyMessageOnAck: the resend is compiled out, the expiry only leaves a trace.
ConfirmTimeout ==
  /\ running /\ confirmTimer
  /\ ntyStopTimer
  /\ UNCHANGED <<sockfd, sockets, up, down, sessVars, timerVars, dataVars, confVars>>

-----------------------------------------------------------------------------
(* ntyUdpCallback, one action per type byte. *)

\* The loop over a friend list stores its first k entries, a later one over an
\* earlier one with the same id; it stops early only where a new friend cannot
\* be allocated.
StoreFriends(list, k) ==
  LET ids == {list[i].id : i \in 1..k}
      Stored(id, addr) == \E i \in 1..k : /\ list[i].id = id /\ list[i].addr = addr
                                         /\ \A j \in (i + 1)..k : list[j].id # id
  IN  /\ k < Len(list) => list[k + 1].id \notin DOMAIN friends \cup ids
      /\ friends' \in [DOMAIN friends \cup ids -> Addrs]
      /\ \A id \in DOMAIN friends' :
           IF id \in ids THEN Stored(id, friends'[id]) ELSE friends'[id] = friends[id]

\* The heartbeat answer's ids are converted byte by byte; those of the login
\* answer are read with a 64-bit load and keep their width.
Converted(list) ==
  [i \in 1..Len(list) |-> [id |-> ntyU8ArrayToU64(list[i].id), addr |-> list[i].addr]]

\* Mistake: a login answer stops the heartbeat until the next time check.
BugLoginStopsBeat ==
  /\ running
  /\ \E m \in down :
       /\ m.type = "LOGIN_ACK"
       /\ RecvFrame(m)
       /\ StoreFriends(m.list, Len(m.list))
  /\ level' = "TIMECHECK" /\ hbTimer' = FALSE
  /\ UNCHANGED <<up, power, service, u8TimeCheck, card_disapp_times, u8LedDisplayMode,
                 initTimer, simTimer, queue, received, confVars>>

RecvLoginAck ==
  /\ running
  /\ \E m \in down :
       /\ m.type = "LOGIN_ACK"
       /\ RecvFrame(m)
       /\ \E k \in 0..Len(m.list) : StoreFriends(m.list, k)
  /\ level' = "TIMECHECK"
  /\ UNCHANGED <<up, power, service, u8TimeCheck, card_disapp_times, u8LedDisplayMode,
                 timerVars, queue, received, confVars>>

\* Mistake: the time check's answer does not start the heartbeat.
BugNoBeat ==
  /\ running
  /\ \E m \in down : m.type = "TIME_CHECK_ACK" /\ RecvFrame(m)
  /\ level' = "DATAPACKET"
  /\ UNCHANGED <<up, power, service, u8TimeCheck, card_disapp_times, u8LedDisplayMode,
                 timerVars, dataVars, confVars>>

RecvTimeCheckAck ==
  /\ running
  /\ \E m \in down : m.type = "TIME_CHECK_ACK" /\ RecvFrame(m)
  /\ u8LedDisplayMode' = IF u8LedDisplayMode = 0 THEN 1 ELSE u8LedDisplayMode
  /\ hbTimer' = TRUE
  /\ level' = "DATAPACKET"
  /\ UNCHANGED <<up, power, service, u8TimeCheck, card_disapp_times, initTimer, simTimer,
                 dataVars, confVars>>

RecvHeartbeatAck ==
  /\ running
  /\ \E m \in down :
       /\ m.type = "HEARTBEAT_ACK"
       /\ RecvFrame(m)
       /\ \/ /\ m.msg = "MSG_UPDATE"
             /\ \E k \in 0..Len(m.list) : StoreFriends(Converted(m.list), k)
          \/ m.msg # "MSG_UPDATE" /\ UNCHANGED friends
  /\ UNCHANGED <<up, sessVars, timerVars, queue, received, confVars>>

DevIdBytes == 8  \* sizeof(C_DEVID)

\* ntySendMsgToMMIMod takes the length of a message as a byte: that of the id,
\* the text and a closing zero.
Length(c) == (DevIdBytes + c.bytes + 1) % LengthSize

\* The message the handler finds.  The text is cut to the length; with less
\* than the id's eight bytes there is no text in the message and the handler
\* reads on behind it, with less than four (only these four make the id, see
\* ntyU8ArrayToU64) a part of the id is read there too.
DataMessages(friId, c) ==
  [cmd : {"DATA_SENDFRAME"},
   from : IF 2 * Length(c) >= DevIdBytes THEN {friId} ELSE StrayIds,
   content : IF Length(c) >= DevIdBytes THEN {First(c, Length(c) - DevIdBytes)}
             ELSE StrayTexts]

\* Mistakes: the data overtakes its acknowledgement; the number is not advanced.
BugDataFirst(friId, ack, content) ==
  {<<data, [cmd |-> "PROXY_ACK", from |-> friId, ack |-> (ack + 1) % AckSize]>> :
     data \in DataMessages(friId, content)}

BugSameNumber(friId, ack, content) ==
  {<<[cmd |-> "PROXY_ACK", from |-> friId, ack |-> ack], data>> :
     data \in DataMessages(friId, content)}

\* The acknowledgement, which is short, is queued before the data, both for
\* later handlers.
PacketMessages(friId, ack, content) ==
  {<<[cmd |-> "PROXY_ACK", from |-> friId, ack |-> (ack + 1) % AckSize], data>> :
     data \in DataMessages(friId, content)}

RecvDataPacketReq ==
  /\ running
  /\ Len(queue) + 2 <= MaxQueue
  /\ \E m \in down :
       /\ m.type = "DATAPACKET_REQ"
       /\ RecvFrame(m)
       /\ \E messages \in PacketMessages(ntyU8ArrayToU64(m.from), m.ack, m.content) :
            queue' = queue \o messages
       /\ received' = received \cup {m}
  /\ UNCHANGED <<up, sessVars, timerVars, friends, confVars>>

\* DATAPACKET_ACK, an unknown type, or a read that returned nothing.
RecvIgnored ==
  /\ running
  /\ \/ \E m \in down : m.type = "DATAPACKET_ACK" /\ RecvFrame(m) /\ UNCHANGED up
     \/ RecvNothing
  /\ UNCHANGED <<sessVars, timerVars, dataVars, confVars>>

-----------------------------------------------------------------------------
(* ntyMMIProcMsgHdler, one action per command at the head of the queue. *)

MMIProcMsg(cmd) ==
  /\ running
  /\ queue # <<>>
  /\ Head(queue).cmd = cmd
  /\ UNCHANGED <<sockfd, sockets, down, sessVars, timerVars, friends, received>>

ProcProxyAck ==
  /\ MMIProcMsg("PROXY_ACK")
  /\ queue' = Tail(queue)
  /\ sendProxyDataPacketAck(sockfd, ntyU8ArrayToU64(Head(queue).from), Head(queue).ack)
  /\ UNCHANGED confVars

\* ntyProcessUserDataPacket and its two filters: GET asks the task itself for a
\* value, SET changes the settings; a text that is cut short, or that names no
\* node a filter acts on, does nothing.
ntyGetOperaHandleRequest(c, id) ==
  /\ c.verb = "GET"
  /\ \/ c.node = "Power" /\ queue' = Append(Tail(queue), [cmd |-> "GET_POWER", from |-> id])
     \/ c.node = "Signal" /\ queue' = Append(Tail(queue), [cmd |-> "GET_SIGNAL", from |-> id])
  /\ UNCHANGED confVars

ntySetOperaHandleRequest(c) ==
  /\ c.verb = "SET" /\ c.node = "FamilyNumber"
  /\ SetFamilyNumber(c.idx, c.number)
  /\ queue' = Tail(queue)

NoFilter(c) ==
  /\ c.verb = "GET" => c.node \notin {"Power", "Signal"}
  /\ c.verb = "SET" => c.node # "FamilyNumber"

ProcUserData ==
  /\ MMIProcMsg("DATA_SENDFRAME")
  /\ UNCHANGED <<confirmTimer, up>>
  /\ LET c == Head(queue).content
     IN  \/ ntyGetOperaHandleRequest(c, ntyU8ArrayToU64(Head(queue).from))
         \/ ntySetOperaHandleRequest(c)
         \/ NoFilter(c) /\ queue' = Tail(queue) /\ UNCHANGED confVars

\* The value a GET command asks for.
ValueOf(cmd) == IF cmd = "GET_POWER" THEN "Power" ELSE "Signal"

ProcGetValue ==
  \E cmd \in {"GET_POWER", "GET_SIGNAL"} :
    /\ MMIProcMsg(cmd)
    /\ queue' = Tail(queue)
    /\ sendProxyUserDataPacket(sockfd, ntyU8ArrayToU64(Head(queue).from), ValueOf(cmd))
    /\ UNCHANGED confVars

\* ntyLaunchCall hands the number to the platform's call service.
ProcCallCtrl ==
  /\ MMIProcMsg("CALL_CTRL")
  /\ queue' = Tail(queue)
  /\ UNCHANGED <<confirmTimer, up, confVars>>

\* ntyMakeCall, from the keypad: refused during a call or for a bad number,
\* otherwise the call is queued.
ntyMakeCall ==
  /\ running
  /\ Len(queue) < MaxQueue
  /\ queue' = Append(queue, [cmd |-> "CALL_CTRL"])
  /\ UNCHANGED <<netVars, sessVars, timerVars, friends, received, confVars>>

\* The call service's hooks: an incoming call is shown until it is released.
ShowCall(mode) ==
  /\ running /\ PhoneCalls
  /\ u8LedDisplayMode' = mode
  /\ UNCHANGED <<netVars, power, service, level, u8TimeCheck, card_disapp_times,
                 timerVars, dataVars, confVars>>

\* Mistake: the mode is counted on from the one that is shown.
BugCallNumberIsAllowed == ShowCall(u8LedDisplayMode + 2)

ntyCallNumberIsAllowed == ShowCall(2)

ntyEndCallCb == ShowCall(1)

CallStep == ntyCallNumberIsAllowed \/ ntyEndCallCb

-----------------------------------------------------------------------------
(* The world around the watch. *)

ServiceChange ==
  /\ service' = ~service
  /\ UNCHANGED <<netVars, power, level, u8TimeCheck, card_disapp_times,
                 u8LedDisplayMode, timerVars, dataVars, confVars>>

\* The platform finishes the restart: memory, timers and sockets are gone, the
\* file stays, and datagrams for the old socket reach nobody.
ShutdownDone ==
  /\ power = "restarting"
  /\ power' = "off" /\ level' = "LOGIN"
  /\ initTimer' = "off" /\ simTimer' = FALSE /\ hbTimer' = FALSE
  /\ u8TimeCheck' = 0 /\ card_disapp_times' = 0 /\ u8LedDisplayMode' = 0
  /\ sockfd' = "zero" /\ sockets' = 0 /\ confirmTimer' = FALSE
  /\ up' = {} /\ down' = {}
  /\ friends' = <<>> /\ queue' = <<>> /\ received' = {}
  /\ family' = EmptyRecord
  /\ UNCHANGED <<service, conf>>

NetworkStep ==
  /\ ServerLogin \/ ServerTimeCheck \/ ServerHeartbeat \/ ServerRelay \/ Lose
  /\ UNCHANGED <<sessVars, timerVars, dataVars, confVars>>

-----------------------------------------------------------------------------
Init ==
  /\ power = "off" /\ service \in BOOLEAN /\ level = "LOGIN"
  /\ initTimer = "off" /\ simTimer = FALSE /\ hbTimer = FALSE
  /\ u8TimeCheck = 0 /\ card_disapp_times = 0 /\ u8LedDisplayMode = 0
  /\ NetworkInit
  /\ friends = <<>> /\ queue = <<>> /\ received = {}
  /\ family = EmptyRecord /\ conf = FALSE

TimerStep ==
  ConnectTimeout \/ DetectSimTimeout \/ SendTimeout \/ heartbeatProc \/ ConfirmTimeout

UdpCallback ==
  RecvLoginAck \/ RecvTimeCheckAck \/ RecvHeartbeatAck \/ RecvDataPacketReq \/ RecvIgnored

MMIStep == ProcProxyAck \/ ProcUserData \/ ProcGetValue \/ ProcCallCtrl

Next ==
  \/ NattyEntry \/ TimerStep \/ UdpCallback \/ MMIStep \/ ntyMakeCall
  \/ CallStep \/ ServiceChange \/ ShutdownDone \/ NetworkStep

Spec == Init /\ [][Next]_vars

\* A pending timer expires, a queued message is dispatched and the platform
\* completes boot and shutdown.  An attempt to open the socket that is repeated
\* for ever succeeds at some time, and a datagram sent again and again gets
\* through.  Nothing is assumed of service, calls or friends.
ConnectSucceeds == (ConnectTimeout \/ DetectSimTimeout) /\ sockfd' = "open"

Fairness ==
  /\ WF_vars(NattyEntry) /\ WF_vars(ShutdownDone)
  /\ WF_vars(ConnectTimeout) /\ WF_vars(DetectSimTimeout)
  /\ WF_vars(SendTimeout) /\ WF_vars(heartbeatProc) /\ WF_vars(MMIStep)
  /\ SF_vars(ConnectSucceeds)
  /\ SF_vars(ServerLogin /\ NetworkStep) /\ SF_vars(ServerTimeCheck /\ NetworkStep)
  /\ SF_vars(RecvLoginAck) /\ SF_vars(RecvTimeCheckAck)

FairSpec == Spec /\ Fairness

-----------------------------------------------------------------------------
(* Correctness. *)

SessionTypeOK ==
  /\ power \in {"off", "on", "restarting"} /\ service \in BOOLEAN
  /\ level \in Levels
  /\ initTimer \in {"off", "sendProc", "ConnectProc"}
  /\ simTimer \in BOOLEAN /\ hbTimer \in BOOLEAN
  /\ u8TimeCheck \in 0..(CharSize - 1) /\ card_disapp_times \in 0..(CharSize - 1)
  /\ u8LedDisplayMode \in 0..2

NetworkTypeOK ==
  /\ sockfd \in {"zero", "open", "error"} /\ sockets \in 0..MaxSockets
  /\ confirmTimer \in BOOLEAN
  /\ up \subseteq UpMsg /\ down \subseteq DownMsg

DataTypeOK ==
  /\ DOMAIN friends \subseteq Nat /\ friends \in [DOMAIN friends -> Addrs]
  /\ queue \in Seq(Item)
  /\ received \subseteq DownMsg

TypeOK == SessionTypeOK /\ NetworkTypeOK /\ DataTypeOK /\ ConfigTypeOK

\* A watch that is switched on always has a timer running whose handler will
\* send to the server or try to connect, however answers are lost, repeated or
\* reordered: it never falls silent for good (ConnectProc, sendProc,
\* heartbeatProc and the answers that change level between them).
NeverSilent ==
  running => simTimer \/ initTimer # "off" \/ hbTimer

\* There is one chain of retries.  The two timers that lead to ConnectProc are
\* never pending together, nor once a socket is in use, so no handler opens a
\* second socket behind the first.
OneRetryChain ==
  /\ ~ (simTimer /\ initTimer # "off")
  /\ simTimer \/ initTimer = "ConnectProc" => sockfd # "open" /\ level = "LOGIN"

\* However often connecting is retried, the client holds one socket at most,
\* as long as soc_setsockopt(SOC_NBIO) does not fail (ntyUdpCreate closes the
\* wrong handle then).
OneSocket ==
  "nbio" \notin Faults => sockets = IF sockfd = "open" THEN 1 ELSE 0

\* Until the login answer is taken, no time check, no heartbeat and no answer
\* to one is anywhere in the network; until a socket is open, nothing is.
SessionOrder ==
  /\ level = "LOGIN" =>
       /\ \A m \in up : m.type \notin {"TIME_CHECK_REQ", "HEARTBEAT_REQ"}
       /\ \A m \in down : m.type \notin {"TIME_CHECK_ACK", "HEARTBEAT_ACK"}
  /\ sockfd # "open" => level = "LOGIN" /\ up = {} /\ down = {}

\* Once the time check is answered the heartbeat keeps running until the watch
\* restarts: a late login answer may take the level back, not the heartbeat.
HeartbeatKept ==
  [][hbTimer => hbTimer' \/ power' = "off"]_vars

\* The session the client core promises: phase and beating as functions of
\* its level, its socket and its heartbeat timer.
Session == INSTANCE WatchSession WITH
  phase <- IF power = "off" THEN "off"
           ELSE IF level = "DATAPACKET" THEN "online"
           ELSE IF level = "TIMECHECK" THEN "syncing"
           ELSE IF sockfd = "open" THEN "registering" ELSE "searching",
  beating <- hbTimer

\* Every step of the core is a step of the abstract session or leaves it alone.
ImplementsSession == Session!Spec

\* Where service stays, the watch is online again and again: it never remains
\* registering for ever, whatever is lost and however often it restarts.  (A
\* data account that cannot be found is excluded: ntyUdpCreate returns 0 then
\* and ConnectProc takes that for a socket.)
ComesOnline ==
  <>[]service => []<>hbTimer

\* The messages of the packets accepted since the boot are long enough for an
\* id.  A packet of 247 to 254 bytes is not (nor of 256 more, and so on): what
\* the handler makes of it comes from memory that is not the message's.
IdsWhole == \A p \in received : Length(p.content) >= DevIdBytes

\* The command that is left of a packet's text.
Kept(p) == First(p.content, Length(p.content) - DevIdBytes)

\* The data of a packet is queued right behind its own acknowledgement.
AckFirst ==
  \A i \in 1..Len(queue) :
    queue[i].cmd = "DATA_SENDFRAME" /\ i > 1 =>
      /\ queue[i - 1].cmd = "PROXY_ACK"
      /\ IdsWhole => queue[i - 1].from = queue[i].from

\* What the network holds for a friend goes back to a packet accepted since the
\* boot.  An acknowledgement carries the packet's number plus one, however long
\* the packet was.  A value is sent only to an id that asked for this value in
\* what was left of its text, as long as each packet's message could hold its id.
RepliesAnswerPackets ==
  \A m \in up :
    /\ m.type = "DATAPACKET_ACK" =>
         \E p \in received : /\ m.ack = (p.ack + 1) % AckSize
                             /\ m.dest = ntyU8ArrayToU64(p.from)
    /\ m.type = "DATAPACKET_REQ" /\ IdsWhole =>
         \E p \in received : /\ Kept(p).verb = "GET" /\ Kept(p).node = m.node
                             /\ m.dest = ntyU8ArrayToU64(p.from)

\* Whatever stands in a place of a family number, or of a contact behind it, is
\* the number compiled in for this place or that piece of a number, accepted
\* since the boot, which falls on this place when it is copied to its slot.  So
\* where numbers have less than 20 characters each slot holds a whole number
\* that was set for this very slot, and the contacts stay empty.
NumbersHaveASource ==
  IdsWhole =>
    \A k \in Places :
      \/ family[k] = NoNumber
      \/ k \in Slots /\ family[k] = DefaultNumbers[k]
      \/ \E p \in received :
           /\ Kept(p).verb = "SET" /\ Kept(p).node = "FamilyNumber"
           /\ \E i \in 1..Len(Kept(p).number) :
                k = Kept(p).idx + i - 1 /\ family[k] = Kept(p).number[i]

\* NattyClientDev.c:1163 calls a result that is not negative "Connect Success":
\* sendProc then runs, and keeps running, on a socket.
SendsOnSocket ==
  initTimer = "sendProc" => sockfd = "open"

\* NattyClientDev.c:522 gives the acknowledgement's DEST DEVID as the 8-byte
\* devid of the friend whose packet is acknowledged.
AckReachesFriend ==
  \A m \in up : m.type = "DATAPACKET_ACK" => \E p \in received : m.dest = p.from
=============================================================================
