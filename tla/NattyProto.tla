----------------------------- MODULE NattyProto -----------------------------
(***************************************************************************)
(* NattyProtoClient.c: the client of the same protocol as a program of      *)
(* threads.  The application calls ntySetDevId and ntySendDataPacket on its *)
(* own thread; each ntySetDevId starts one heartbeat thread and one         *)
(* receiving thread.  They share the protocol object with its one receive   *)
(* buffer, and the Network object with its one send buffer, whose flag busy *)
(* is tested outside the mutex that guards its assignments.  A thread takes *)
(* one step per access to shared state: clearing the send buffer, copying   *)
(* into it, writing the number, the length, reading what the CRC is of,     *)
(* writing the CRC, testing and setting busy, sending what is there by then. *)
(***************************************************************************)
EXTENDS Integers, FiniteSets, Sequences

CONSTANTS
  Friends,   \* ids
  Contents,  \* what a data packet carries
  AckNums,   \* numbers of the packets that arrive
  AckSize,   \* 2^32
  Calls,     \* bound: how often the application calls ntySetDevId
  Sends,     \* bound: how many packets it sends
  Arrivals   \* bound: how many datagrams wait in the socket

ASSUME ProtoAssumption ==
  /\ AckNums \subseteq 0..(AckSize - 1)
  /\ Calls \in Nat /\ Sends \in Nat /\ Arrivals \in Nat /\ AckSize \in Nat \ {0}

App == <<"app", 1>>
Beats == {"beat"} \X (1..Calls)
Receivers == {"recv"} \X (1..Calls)
Threads == {App} \cup Beats \cup Receivers

VARIABLES
  devid,          \* an id was given
  level,
  friends,        \* the ids in the friends tree
  heartbeartRun,
  recvBuffer,     \* NattyProto.recvBuffer
  busy, buffer, length, ackNum, \* of the Network object
  timer,          \* its confirmation timer runs
  pc,             \* where each thread is
  local,          \* the frame each thread has built in a buffer of its own
  sum,            \* the CRC each thread has computed
  inbox,          \* datagrams that wait in the socket
  calls, sends,   \* calls the application has made
  hasty,          \* history: a heartbeat thread was started before the last one ran
  arrived,        \* history: datagrams read from the socket
  out,            \* history: what left in each thread's last call of ntySendFrame
  overlapped      \* history: the threads whose call another thread's overlapped

protoVars == <<devid, level, friends, heartbeartRun, recvBuffer>>
networkVars == <<busy, buffer, length, ackNum, timer>>
sendVars == <<sum, out, overlapped>>
appVars == <<inbox, calls, sends, hasty, arrived>>
vars == <<protoVars, networkVars, pc, local, sendVars, appVars>>

-----------------------------------------------------------------------------
(* Frames and datagrams.  The send buffer has five words: the head with the    *)
(* type, the number, the other end's id, which is where a login's or a          *)
(* heartbeat's CRC stands, the content, which is where an acknowledgement's CRC *)
(* stands, and a data packet's CRC.  A frame of a sender is its words before    *)
(* the CRC.                                                                    *)

Words == 1..5
Zero == [zero |-> 0]
Num(n) == [num |-> n]
Crc(words) == [crc |-> words]
Cleared == [i \in Words |-> IF i = 2 THEN Num(0) ELSE Zero]

NoFrame == << >>
LoginReq == <<[type |-> "LOGIN_REQ"], Num(0)>>
HeartbeatReq == <<[type |-> "HEARTBEAT_REQ"], Num(0)>>
DataReq(to, content) ==
  <<[type |-> "DATAPACKET_REQ"], Num(0), [to |-> to], [content |-> content]>>
AckFrame(to, ack) == <<[type |-> "DATAPACKET_ACK"], Num(ack), [to |-> to]>>

\* ntyProtoClientProxyAck.
ProxyAck(m) == AckFrame(m.from, (m.ack + 1) % AckSize)

IsAck(words) == words[1] = [type |-> "DATAPACKET_ACK"]

Frame ==
  {LoginReq, HeartbeatReq}
    \cup {DataReq(to, c) : to \in Friends, c \in Contents}
    \cup {AckFrame(to, n) : to \in Friends, n \in 0..(AckSize - 1)}

Packet ==
  [type : {"DATAPACKET_REQ"}, msg : {"MSG_REQ", "MSG_RET"}, from : Friends,
   ack : AckNums, content : Contents]

Datagram == {[type |-> "LOGIN_ACK"], [type |-> "DATAPACKET_ACK"]} \cup Packet

\* The receive buffer after bzero.
Nothing == [type |-> "none"]

-----------------------------------------------------------------------------
(* ntySendFrame of the shared Network object, step by step. *)

At(t, from, to) == pc[t] = from /\ pc' = [pc EXCEPT ![t] = to]

Inside(t) == pc[t] \in {"copy", "number", "length", "sum", "put", "test", "take", "sendto", "give"}

\* A thread's own buffer is gone, and its call forgotten.
Forget(t) ==
  /\ local' = [local EXCEPT ![t] = NoFrame]
  /\ out' = [out EXCEPT ![t] = << >>]
  /\ overlapped' = overlapped \ {t}

\* Where a thread goes on when its frame is sent, or could not be.  A receiver's
\* call is forgotten after the callback that follows it.
Return(t, from) ==
  /\ At(t, from, CASE t = App -> IF local[t] = LoginReq THEN "spawn" ELSE "idle"
                   [] t \in Beats -> "sleep"
                   [] t \in Receivers -> "callback")
  /\ IF t \in Receivers THEN UNCHANGED <<local, out, overlapped>> ELSE Forget(t)

\* The timer is started and the number counted for all but an acknowledgement;
\* of two threads that count at once, one may be lost.  The buffer is cleared.
EnterSend(t) ==
  LET others == {u \in Threads : u # t /\ Inside(u)}
      next == (ackNum + 1) % AckSize
  IN /\ At(t, "send", "copy")
     /\ \/ IsAck(local[t]) /\ UNCHANGED <<timer, ackNum>>
        \/ ~IsAck(local[t]) /\ timer' = TRUE
             /\ ackNum' \in IF others = {} THEN {next} ELSE {next, ackNum}
     /\ buffer' = Cleared
     /\ overlapped' = IF others = {} THEN overlapped \ {t} ELSE overlapped \cup others \cup {t}
     /\ UNCHANGED <<protoVars, busy, length, local, sum, out, appVars>>

\* memcpy of the frame, whose last word is yet to become the CRC.
CopyFrame(t) ==
  LET n == Len(local[t])
  IN /\ At(t, "copy", IF IsAck(local[t]) THEN "length" ELSE "number")
     /\ buffer' = [i \in Words |-> IF i <= n THEN local[t][i]
                                   ELSE IF i = n + 1 THEN Zero ELSE buffer[i]]
     /\ UNCHANGED <<protoVars, busy, length, ackNum, timer, local, sendVars, appVars>>

SetNumber(t) ==
  /\ At(t, "number", "length")
  /\ buffer' = [buffer EXCEPT ![2] = Num(ackNum)]
  /\ UNCHANGED <<protoVars, busy, length, ackNum, timer, local, sendVars, appVars>>

\* Mistake: the length of the frame before stays when it was longer.
BugSetLength(t) ==
  /\ At(t, "length", "sum")
  /\ length' = IF length > Len(local[t]) THEN length ELSE Len(local[t]) + 1
  /\ UNCHANGED <<protoVars, busy, buffer, ackNum, timer, local, sendVars, appVars>>

SetLength(t) ==
  /\ At(t, "length", "sum")
  /\ length' = Len(local[t]) + 1
  /\ UNCHANGED <<protoVars, busy, buffer, ackNum, timer, local, sendVars, appVars>>

\* ntyGenCrcValue reads the shared buffer.
ReadCrc(t) ==
  /\ At(t, "sum", "put")
  /\ sum' = [sum EXCEPT ![t] = Crc([i \in 1..Len(local[t]) |-> buffer[i]])]
  /\ UNCHANGED <<protoVars, networkVars, local, out, overlapped, appVars>>

\* The CRC goes where this frame ends, a zero behind the length of the network.
PutCrc(t) ==
  /\ At(t, "put", "test")
  /\ buffer' = [i \in Words |-> IF i = length + 1 THEN Zero
                                ELSE IF i = Len(local[t]) + 1 THEN sum[t] ELSE buffer[i]]
  /\ sum' = [sum EXCEPT ![t] = Zero]
  /\ UNCHANGED <<protoVars, busy, length, ackNum, timer, local, out, overlapped, appVars>>

\* A busy network returns -15, which no caller looks at.
TestBusy(t) ==
  /\ \/ busy /\ Return(t, "test")
     \/ ~busy /\ At(t, "test", "take") /\ UNCHANGED <<local, out, overlapped>>
  /\ UNCHANGED <<protoVars, networkVars, sum, appVars>>

TakeBusy(t) ==
  /\ At(t, "take", "sendto")
  /\ busy' = TRUE
  /\ UNCHANGED <<protoVars, buffer, length, ackNum, timer, local, sendVars, appVars>>

\* What is sent is what the shared buffer holds by now, in the length of now.
SendTo(t) ==
  /\ At(t, "sendto", "give")
  /\ out' = [out EXCEPT ![t] = [i \in 1..length |-> buffer[i]]]
  /\ UNCHANGED <<protoVars, networkVars, local, sum, overlapped, appVars>>

\* Mistake: the flag stays set.
BugGiveBusy(t) ==
  /\ Return(t, "give")
  /\ UNCHANGED <<protoVars, networkVars, sum, appVars>>

GiveBusy(t) ==
  /\ Return(t, "give")
  /\ busy' = FALSE
  /\ UNCHANGED <<protoVars, buffer, length, ackNum, timer, sum, appVars>>

SendStep(t) ==
  \/ EnterSend(t) \/ CopyFrame(t) \/ SetNumber(t) \/ SetLength(t) \/ ReadCrc(t) \/ PutCrc(t)
  \/ TestBusy(t) \/ TakeBusy(t) \/ SendTo(t) \/ GiveBusy(t)

-----------------------------------------------------------------------------
(* The application's thread. *)

\* ntySetDevId up to its login, ntySendDataPacket and, for one friend after the
\* other, ntySendMassDataPacket.
ntySetDevId ==
  /\ calls < Calls
  /\ At(App, "idle", "send")
  /\ devid' = TRUE
  /\ local' = [local EXCEPT ![App] = LoginReq]
  /\ calls' = calls + 1
  /\ UNCHANGED <<level, friends, heartbeartRun, recvBuffer, networkVars, sendVars, inbox, sends,
                 hasty, arrived>>

ntySendDataPacket ==
  /\ sends < Sends
  /\ At(App, "idle", "send")
  /\ \E to \in Friends, c \in Contents : local' = [local EXCEPT ![App] = DataReq(to, c)]
  /\ sends' = sends + 1
  /\ UNCHANGED <<protoVars, networkVars, sendVars, inbox, calls, hasty, arrived>>

\* ntySetupHeartBeatThread and ntySetupRecvProcThread.
SetupThreads ==
  /\ pc[App] = "spawn"
  /\ pc' = [pc EXCEPT ![App] = "idle", ![<<"beat", calls>>] = "check",
                      ![<<"recv", calls>>] = "poll"]
  /\ hasty' = (hasty \/ \E t \in Beats : pc[t] \in {"check", "set"})
  /\ UNCHANGED <<protoVars, networkVars, local, sendVars, inbox, calls, sends, arrived>>

-----------------------------------------------------------------------------
(* ntyProtoClientHeartBeat. *)

CheckRun(t) ==
  /\ At(t, "check", IF heartbeartRun = 1 THEN "done" ELSE "set")
  /\ UNCHANGED <<protoVars, networkVars, local, sendVars, appVars>>

\* Mistake: the flag is forgotten.
BugSetRun(t) ==
  /\ At(t, "set", "sleep")
  /\ UNCHANGED <<protoVars, networkVars, local, sendVars, appVars>>

SetRun(t) ==
  /\ At(t, "set", "sleep")
  /\ heartbeartRun' = 1
  /\ UNCHANGED <<devid, level, friends, recvBuffer, networkVars, local, sendVars, appVars>>

\* After HEARTBEAT_TIMEOUT seconds, and only with an id.
Beat(t) ==
  /\ devid
  /\ At(t, "sleep", "send")
  /\ local' = [local EXCEPT ![t] = HeartbeatReq]
  /\ UNCHANGED <<protoVars, networkVars, sendVars, appVars>>

HeartBeat(t) == CheckRun(t) \/ SetRun(t) \/ Beat(t)

-----------------------------------------------------------------------------
(* ntyRecvProc, with ntyRecvFrame of the Network object. *)

Poll(t) ==
  /\ inbox # {}
  /\ At(t, "poll", "recvtest")
  /\ recvBuffer' = Nothing
  /\ UNCHANGED <<devid, level, friends, heartbeartRun, networkVars, local, sendVars, appVars>>

\* A busy network returns -15; the cleared buffer has no known type.
RecvTest(t) ==
  /\ At(t, "recvtest", IF busy THEN "poll" ELSE "recvtake")
  /\ UNCHANGED <<protoVars, networkVars, local, sendVars, appVars>>

RecvTake(t) ==
  /\ At(t, "recvtake", "recvfrom")
  /\ busy' = TRUE
  /\ UNCHANGED <<protoVars, buffer, length, ackNum, timer, local, sendVars, appVars>>

\* Nothing is there when another receiving thread was faster.
RecvFrom(t) ==
  /\ At(t, "recvfrom", "recvgive")
  /\ \/ inbox = {} /\ UNCHANGED <<recvBuffer, inbox, arrived>>
     \/ \E m \in inbox :
          /\ recvBuffer' = m
          /\ inbox' = inbox \ {m}
          /\ arrived' = arrived \cup {m}
  /\ UNCHANGED <<devid, level, friends, heartbeartRun, networkVars, local, sendVars, calls, sends,
                 hasty>>

\* Mistake: the flag is given back only when the datagram is dealt with.
BugRecvGive(t) ==
  /\ At(t, "recvgive", "dispatch")
  /\ timer' = FALSE
  /\ UNCHANGED <<protoVars, busy, buffer, length, ackNum, local, sendVars, appVars>>

\* Whatever came, the confirmation timer is stopped.
RecvGive(t) ==
  /\ At(t, "recvgive", "dispatch")
  /\ busy' = FALSE /\ timer' = FALSE
  /\ UNCHANGED <<protoVars, buffer, length, ackNum, local, sendVars, appVars>>

DispatchLogin(t) ==
  /\ recvBuffer.type = "LOGIN_ACK"
  /\ At(t, "dispatch", "poll")
  /\ \E ids \in SUBSET Friends : friends' = friends \cup ids
  /\ level' = "DATAPACKET"
  /\ UNCHANGED <<devid, heartbeartRun, recvBuffer, networkVars, local, sendVars, appVars>>

\* A packet that was returned, a confirmation, or nothing: one of the callbacks
\* may be told, nothing is kept.
DispatchResult(t) ==
  /\ \/ recvBuffer.type = "DATAPACKET_REQ" /\ recvBuffer.msg = "MSG_RET"
     \/ recvBuffer.type \in {"DATAPACKET_ACK", "none"}
  /\ At(t, "dispatch", "poll")
  /\ UNCHANGED <<protoVars, networkVars, local, sendVars, appVars>>

DispatchPacket(t) ==
  /\ recvBuffer.type = "DATAPACKET_REQ" /\ recvBuffer.msg = "MSG_REQ"
  /\ At(t, "dispatch", "send")
  /\ local' = [local EXCEPT ![t] = ProxyAck(recvBuffer)]
  /\ UNCHANGED <<protoVars, networkVars, sendVars, appVars>>

\* onProxyCallback; the application reads the packet with ntyGetRecvBuffer.
Callback(t) ==
  /\ At(t, "callback", "poll")
  /\ Forget(t)
  /\ UNCHANGED <<protoVars, networkVars, sum, appVars>>

RecvProc(t) ==
  \/ Poll(t) \/ RecvTest(t) \/ RecvTake(t) \/ RecvFrom(t) \/ RecvGive(t)
  \/ DispatchLogin(t) \/ DispatchResult(t) \/ DispatchPacket(t) \/ Callback(t)

-----------------------------------------------------------------------------
\* The server and friends: anything may arrive.
Arrive ==
  /\ Cardinality(inbox) < Arrivals
  /\ \E m \in Datagram : inbox' = inbox \cup {m}
  /\ UNCHANGED <<protoVars, networkVars, pc, local, sendVars, calls, sends, hasty, arrived>>

\* ntySendTimeout, which the Network object is given to call when nothing has
\* confirmed what was sent.
ntySendTimeout ==
  /\ timer
  /\ timer' = FALSE
  /\ UNCHANGED <<protoVars, busy, buffer, length, ackNum, pc, local, sendVars, appVars>>

Init ==
  /\ devid = FALSE /\ level = "LOGIN" /\ friends = {} /\ heartbeartRun = 0
  /\ recvBuffer = Nothing
  /\ busy = FALSE /\ buffer = [i \in Words |-> Zero] /\ length = 0 /\ timer = FALSE
  /\ ackNum = 1 % AckSize
  /\ pc = [t \in Threads |-> IF t = App THEN "idle" ELSE "none"]
  /\ local = [t \in Threads |-> NoFrame]
  /\ inbox = {} /\ calls = 0 /\ sends = 0
  /\ sum = [t \in Threads |-> Zero] /\ out = [t \in Threads |-> << >>] /\ overlapped = {}
  /\ hasty = FALSE /\ arrived = {}

AppStep == ntySetDevId \/ ntySendDataPacket \/ SetupThreads

Next ==
  \/ AppStep
  \/ \E t \in Threads : SendStep(t)
  \/ \E t \in Beats : HeartBeat(t)
  \/ \E t \in Receivers : RecvProc(t)
  \/ Arrive \/ ntySendTimeout

Spec == Init /\ [][Next]_vars

\* The scheduler runs every thread that can go on.
Fairness == \A t \in Threads : WF_vars(SendStep(t)) /\ WF_vars(t \in Receivers /\ RecvProc(t))

FairSpec == Spec /\ Fairness

-----------------------------------------------------------------------------
(* Correctness. *)

\* The words a thread's frame has when it leaves, with the number the network
\* gives a request and the CRC.
Own(t) ==
  [i \in 1..Len(local[t]) |-> IF i = 2 /\ ~IsAck(local[t]) THEN Num(ackNum) ELSE local[t][i]]
Whole(words) == [i \in 1..(Len(words) + 1) |-> IF i <= Len(words) THEN words[i] ELSE Crc(words)]

\* A call of ntySendFrame sends its own frame whole, number, length and CRC, when
\* no other thread's call overlapped with it: what other threads left behind in
\* the shared buffer, length and flag, however their own calls overlapped before,
\* does not get into it.
AloneSendsItsOwn ==
  \A t \in Threads \ overlapped : pc[t] = "give" => out[t] = Whole(Own(t))

\* The packet the application is shown in its callback is one that arrived, and its
\* acknowledgement has left, unless another thread sent while the receiving thread
\* did: no flag of an earlier call, of the sender's or its own, keeps it back.
\* (A second ntySetDevId starts a second receiving thread, which shares the receive
\* buffer and takes the flag.)
ShownIsAcknowledged ==
  \A t \in Receivers \ overlapped :
    calls <= 1 /\ pc[t] = "callback" =>
      /\ recvBuffer \in arrived \cap Packet
      /\ recvBuffer.msg = "MSG_REQ"
      /\ out[t] = Whole(AckFrame(recvBuffer.from, (recvBuffer.ack + 1) % AckSize))

\* However often ntySetDevId is called, one heartbeat loop runs, as long as a
\* call's thread is not started before that of the last one is in its loop.
OneHeartbeat ==
  ~hasty => Cardinality({t \in Beats : pc[t] \notin {"none", "check", "done"}}) <= 1

\* The network never stays busy: the flag that makes every other call fail is
\* given back after each one.
BusyReleased == busy ~> ~busy
=============================================================================
