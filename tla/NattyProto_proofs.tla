-------------------------- MODULE NattyProto_proofs --------------------------
(***************************************************************************)
(* Theorems about the client of threads, for every number of calls, packets *)
(* and datagrams: one heartbeat loop runs; a call of ntySendFrame that no    *)
(* other thread's overlaps sends its own frame whole; and, with one          *)
(* receiving thread, the packet the application is shown has been            *)
(* acknowledged unless another thread sent meanwhile.                        *)
(***************************************************************************)
EXTENDS NattyProto, FiniteSetTheorems, TLAPS

Labels ==
  {"none", "idle", "spawn", "send", "copy", "number", "length", "sum", "put", "test", "take",
   "sendto", "give",
   "check", "set", "sleep", "done",
   "poll", "recvtest", "recvtake", "recvfrom", "recvgive", "dispatch", "callback"}

SendLabels ==
  {"send", "copy", "number", "length", "sum", "put", "test", "take", "sendto", "give"}

\* Only a receiving thread gets to where it receives.
ReceiversReceive == \A t \in Threads \ Receivers : pc[t] \notin {"recvfrom", "recvgive"}

Typed ==
  /\ pc \in [Threads -> Labels]
  /\ local \in [Threads -> Frame \cup {NoFrame}]
  /\ inbox \subseteq Datagram /\ arrived \subseteq Datagram
  /\ recvBuffer \in arrived \cup {Nothing}
  /\ calls \in Nat
  /\ ReceiversReceive

\* The three kinds of threads are different threads.
LEMMA Kinds ==
  /\ App \in Threads /\ Beats \subseteq Threads /\ Receivers \subseteq Threads
  /\ App \notin Beats /\ App \notin Receivers
  /\ \A t \in Receivers : t \notin Beats
  /\ \A t \in Threads : t = App \/ t \in Beats \/ t \in Receivers
BY DEF Threads, App, Beats, Receivers

LEMMA AckNumsNatural == AckNums \subseteq Nat
<1>1. AckSize - 1 \in Int
  BY ProtoAssumption
<1>2. 0..(AckSize - 1) \subseteq Nat
  BY <1>1
<1> QED
  BY <1>2, ProtoAssumption

\* The answer to a packet is a frame of its own.
LEMMA ProxyAckFrame ==
  ASSUME NEW p \in Packet
  PROVE  ProxyAck(p) \in Frame
<1>1. p.from \in Friends /\ p.ack \in Nat
  <2>1. p.from \in Friends /\ p.ack \in AckNums
    BY DEF Packet
  <2> QED
    BY <2>1, AckNumsNatural
<1>2. (p.ack + 1) % AckSize \in 0..(AckSize - 1)
  <2>1. p.ack + 1 \in Nat /\ AckSize \in Nat \ {0}
    BY <1>1, ProtoAssumption
  <2> QED
    BY <2>1
<1> QED
  BY <1>1, <1>2 DEF ProxyAck, Frame

\* A datagram with a sender is a packet.
LEMMA IsPacket ==
  ASSUME Typed, recvBuffer.type = "DATAPACKET_REQ"
  PROVE  recvBuffer \in arrived \cap Packet
BY DEF Typed, Datagram, Nothing

LEMMA TypedInit == Init => Typed
BY Kinds DEF Init, Typed, ReceiversReceive, NoFrame, Labels

\* Sending moves one thread and, at most, drops its frame.
LEMMA SendStepTyped ==
  ASSUME Typed, NEW t \in Threads, SendStep(t)
  PROVE  Typed'
<1>1. UNCHANGED <<inbox, arrived, recvBuffer, calls>>
  BY DEF SendStep, EnterSend, CopyFrame, SetNumber, SetLength, ReadCrc, PutCrc, TestBusy, TakeBusy, SendTo, GiveBusy, Forget, protoVars, appVars
<1>2. pc' \in [Threads -> Labels]
  BY Kinds DEF Typed, SendStep, EnterSend, CopyFrame, SetNumber, SetLength, ReadCrc, PutCrc, TestBusy, TakeBusy, SendTo, GiveBusy,
               Return, Forget, At, Labels
<1>3. local' \in [Threads -> Frame \cup {NoFrame}]
  BY DEF Typed, SendStep, EnterSend, CopyFrame, SetNumber, SetLength, ReadCrc, PutCrc, TestBusy, TakeBusy, SendTo, GiveBusy, Return, Forget
<1>4. ReceiversReceive'
  BY Kinds DEF Typed, ReceiversReceive, SendStep, EnterSend, CopyFrame, SetNumber, SetLength,
               ReadCrc, PutCrc, TestBusy, TakeBusy, SendTo, GiveBusy, Return, At
<1> QED
  BY <1>1, <1>2, <1>3, <1>4 DEF Typed

LEMMA AppStepTyped ==
  ASSUME Typed, AppStep
  PROVE  Typed'
<1>1. UNCHANGED <<inbox, arrived, recvBuffer>>
  BY DEF AppStep, ntySetDevId, ntySendDataPacket, SetupThreads, protoVars, appVars, sendVars
<1>2. pc' \in [Threads -> Labels] /\ calls' \in Nat
  BY DEF Typed, AppStep, ntySetDevId, ntySendDataPacket, SetupThreads, At, Labels
<1>3. local' \in [Threads -> Frame \cup {NoFrame}]
  BY DEF Typed, AppStep, ntySetDevId, ntySendDataPacket, SetupThreads, Frame
<1>4. ReceiversReceive'
  BY DEF Typed, ReceiversReceive, AppStep, ntySetDevId, ntySendDataPacket, SetupThreads, At
<1> QED
  BY <1>1, <1>2, <1>3, <1>4 DEF Typed

LEMMA HeartBeatTyped ==
  ASSUME Typed, NEW t \in Beats, HeartBeat(t)
  PROVE  Typed'
BY Kinds DEF Typed, ReceiversReceive, HeartBeat, CheckRun, SetRun, Beat, At, Labels, protoVars, appVars, sendVars, Frame

LEMMA RecvProcTyped ==
  ASSUME Typed, NEW t \in Receivers, RecvProc(t)
  PROVE  Typed'
<1>1. calls' \in Nat /\ inbox' \subseteq Datagram /\ arrived' \subseteq Datagram
  BY DEF Typed, RecvProc, Poll, RecvTest, RecvTake, RecvFrom, RecvGive, DispatchLogin,
         DispatchResult, DispatchPacket, Callback, appVars, sendVars
<1>2. recvBuffer' \in arrived' \cup {Nothing}
  BY DEF Typed, RecvProc, Poll, RecvTest, RecvTake, RecvFrom, RecvGive, DispatchLogin,
         DispatchResult, DispatchPacket, Callback, appVars, sendVars, protoVars
<1>3. pc' \in [Threads -> Labels]
  BY DEF Typed, RecvProc, Poll, RecvTest, RecvTake, RecvFrom, RecvGive, DispatchLogin,
         DispatchResult, DispatchPacket, Callback, At, Labels
<1>4. local' \in [Threads -> Frame \cup {NoFrame}]
  <2>1. CASE DispatchPacket(t)
    BY <2>1, IsPacket, ProxyAckFrame DEF Typed, DispatchPacket
  <2>2. CASE Callback(t)
    BY <2>2 DEF Typed, Callback, Forget
  <2>3. CASE UNCHANGED local
    BY <2>3 DEF Typed
  <2> QED
    BY <2>1, <2>2, <2>3
    DEF RecvProc, Poll, RecvTest, RecvTake, RecvFrom, RecvGive, DispatchLogin, DispatchResult
<1>5. ReceiversReceive'
  BY DEF Typed, ReceiversReceive, RecvProc, Poll, RecvTest, RecvTake, RecvFrom, RecvGive,
         DispatchLogin, DispatchResult, DispatchPacket, Callback, At
<1> QED
  BY <1>1, <1>2, <1>3, <1>4, <1>5 DEF Typed

LEMMA TypedStep == Typed /\ [Next]_vars => Typed'
<1> SUFFICES ASSUME Typed, [Next]_vars PROVE Typed'
  OBVIOUS
<1>1. CASE Arrive
  BY <1>1 DEF Arrive, Typed, ReceiversReceive, protoVars, appVars, sendVars
<1>2. CASE ntySendTimeout
  BY <1>2 DEF ntySendTimeout, Typed, ReceiversReceive, protoVars, appVars, sendVars
<1>3. CASE UNCHANGED vars
  BY <1>3 DEF vars, Typed, ReceiversReceive, protoVars, appVars, sendVars
<1> QED
  BY <1>1, <1>2, <1>3, AppStepTyped, SendStepTyped, HeartBeatTyped, RecvProcTyped DEF Next

-----------------------------------------------------------------------------
(* One heartbeat. *)

Starting(t) == pc[t] \in {"check", "set"}
Loops(t) == pc[t] \notin {"none", "check", "set", "done"}

\* While no thread was started in haste one at most is on its way to the loop,
\* and it finds the flag set, or finds nobody in the loop.
OneLoop ==
  ~hasty =>
    /\ \A t, u \in Beats : Starting(t) /\ Starting(u) => t = u
    /\ \A t, u \in Beats : Loops(t) /\ Loops(u) => t = u
    /\ \A t \in Beats : Loops(t) => heartbeartRun = 1
    /\ \A t, u \in Beats : pc[t] = "set" => ~Loops(u)

LEMMA OneLoopInit == Init => OneLoop
BY Kinds DEF Init, OneLoop, Starting, Loops

\* A step that leaves every beat where it was, or in the loop, keeps it.
LEMMA LoopsOn ==
  ASSUME OneLoop, UNCHANGED <<hasty, heartbeartRun>>,
         \A t \in Beats : pc'[t] = pc[t] \/ (Loops(t) /\ Loops(t)')
  PROVE  OneLoop'
BY DEF OneLoop, Starting, Loops

LEMMA OneLoopStep == Typed /\ OneLoop /\ [Next]_vars => OneLoop'
<1> SUFFICES ASSUME Typed, OneLoop, [Next]_vars PROVE OneLoop'
  OBVIOUS
<1>1. CASE ntySetDevId \/ ntySendDataPacket
  BY <1>1, LoopsOn, Kinds DEF ntySetDevId, ntySendDataPacket, At, Typed, protoVars, appVars, sendVars
<1>2. CASE SetupThreads
  <2>1. \A t \in Beats : pc'[t] = IF t = <<"beat", calls>> THEN "check" ELSE pc[t]
    BY <1>2, Kinds DEF SetupThreads, Typed, Beats, App
  <2>2. hasty' = (hasty \/ \E t \in Beats : Starting(t)) /\ UNCHANGED heartbeartRun
    BY <1>2 DEF SetupThreads, Starting, protoVars
  <2> QED
    BY <2>1, <2>2 DEF OneLoop, Starting, Loops
<1>3. ASSUME NEW t \in Threads, SendStep(t)
      PROVE  OneLoop'
  <2>1. UNCHANGED <<hasty, heartbeartRun>>
    BY <1>3 DEF SendStep, EnterSend, CopyFrame, SetNumber, SetLength, ReadCrc, PutCrc, TestBusy, TakeBusy, SendTo, GiveBusy,
                protoVars, appVars, sendVars
  <2>2. /\ pc[t] \in SendLabels
        /\ \E to : pc' = [pc EXCEPT ![t] = to]
                   /\ (t \in Beats => to \in SendLabels \cup {"sleep"})
    BY <1>3, Kinds DEF SendStep, EnterSend, CopyFrame, SetNumber, SetLength, ReadCrc, PutCrc, TestBusy, TakeBusy, SendTo, GiveBusy,
                       Return, At, SendLabels
  <2>3. \A u \in Beats : pc'[u] = pc[u] \/ (Loops(u) /\ Loops(u)')
    BY <2>2, Kinds DEF Typed, Loops, SendLabels
  <2> QED
    BY <2>1, <2>3, LoopsOn
<1>4. ASSUME NEW t \in Beats, CheckRun(t)
      PROVE  OneLoop'
  <2>1. /\ pc[t] = "check" /\ UNCHANGED <<hasty, heartbeartRun>>
        /\ \A u \in Beats : pc'[u] = IF u # t THEN pc[u]
                                     ELSE IF heartbeartRun = 1 THEN "done" ELSE "set"
    BY <1>4, Kinds DEF CheckRun, At, Typed, protoVars, appVars, sendVars
  <2> QED
    BY <2>1 DEF OneLoop, Starting, Loops
<1>5. ASSUME NEW t \in Beats, SetRun(t)
      PROVE  OneLoop'
  <2>1. /\ pc[t] = "set" /\ UNCHANGED hasty /\ heartbeartRun' = 1
        /\ \A u \in Beats : pc'[u] = IF u # t THEN pc[u] ELSE "sleep"
    BY <1>5, Kinds DEF SetRun, At, Typed, appVars, sendVars
  <2> QED
    BY <2>1 DEF OneLoop, Starting, Loops
<1>6. ASSUME NEW t \in Beats, Beat(t)
      PROVE  OneLoop'
  <2>1. /\ pc[t] = "sleep" /\ UNCHANGED <<hasty, heartbeartRun>>
        /\ \A u \in Beats : pc'[u] = IF u # t THEN pc[u] ELSE "send"
    BY <1>6, Kinds DEF Beat, At, Typed, protoVars, appVars, sendVars
  <2> QED
    BY <2>1, LoopsOn DEF Loops
<1>7. ASSUME NEW t \in Receivers, RecvProc(t)
      PROVE  OneLoop'
  <2>1. UNCHANGED <<hasty, heartbeartRun>> /\ \E to : pc' = [pc EXCEPT ![t] = to]
    BY <1>7 DEF RecvProc, Poll, RecvTest, RecvTake, RecvFrom, RecvGive, DispatchLogin,
                DispatchResult, DispatchPacket, Callback, At, protoVars, appVars, sendVars
  <2>2. \A u \in Beats : pc'[u] = pc[u]
    BY <2>1, Kinds DEF Typed
  <2> QED
    BY <2>1, <2>2, LoopsOn
<1>8. CASE Arrive \/ ntySendTimeout \/ UNCHANGED vars
  BY <1>8, LoopsOn DEF Arrive, ntySendTimeout, vars, protoVars, appVars, sendVars
<1> QED
  BY <1>1, <1>2, <1>3, <1>4, <1>5, <1>6, <1>7, <1>8 DEF Next, AppStep, HeartBeat

LEMMA ProtoTyped == Spec => []Typed
<1> QED
  BY TypedInit, TypedStep, PTL DEF Spec

\* However often and whenever ntySetDevId is called, but for calls in haste, one
\* thread at most sends heartbeats.
THEOREM OneHeartbeatAlways == Spec => []OneHeartbeat
<1>1. OneLoop => OneHeartbeat
  <2> SUFFICES ASSUME OneLoop, ~hasty
               PROVE  Cardinality({t \in Beats : pc[t] \notin {"none", "check", "done"}}) <= 1
    BY DEF OneHeartbeat
  <2> DEFINE active == {t \in Beats : pc[t] \notin {"none", "check", "done"}}
  <2>1. \A t, u \in active : t = u
    BY DEF OneLoop, Starting, Loops
  <2>2. CASE active = {}
    BY <2>2, FS_EmptySet
  <2>3. ASSUME NEW t \in active PROVE Cardinality(active) <= 1
    <3>1. active = {t}
      BY <2>1, <2>3
    <3> QED
      BY <3>1, FS_Singleton
  <2> QED
    BY <2>2, <2>3
<1> QED
  BY <1>1, OneLoopInit, OneLoopStep, ProtoTyped, PTL DEF Spec

-----------------------------------------------------------------------------
(* What a call sends that no other thread's call overlaps. *)

\* What a thread in ntySendFrame has put into the network object so far, when it
\* has been there alone.
Sent(t) ==
  LET n == Len(local[t])
  IN /\ pc[t] = "number" => ~IsAck(local[t]) /\ \A i \in 1..n : buffer[i] = local[t][i]
     /\ pc[t] \in {"length", "sum", "put", "test", "take", "sendto"} =>
          \A i \in 1..n : buffer[i] = Own(t)[i]
     /\ pc[t] \in {"sum", "put", "test", "take", "sendto"} => length = n + 1
     /\ pc[t] = "put" => sum[t] = Crc(Own(t))
     /\ pc[t] \in {"test", "take", "sendto"} => buffer[n + 1] = Crc(Own(t))
     /\ pc[t] = "give" => out[t] = Whole(Own(t))

\* Two threads in ntySendFrame overlap.
TwoOverlap ==
  \A t, u \in Threads : t # u /\ Inside(t) /\ Inside(u) => t \in overlapped

HasFrame == \A t \in Threads : pc[t] \in SendLabels => local[t] \in Frame

Shaped ==
  /\ DOMAIN buffer = Words /\ DOMAIN sum = Threads /\ DOMAIN out = Threads
  /\ overlapped \subseteq Threads

SendInv == Shaped /\ HasFrame /\ TwoOverlap /\ \A t \in Threads \ overlapped : Sent(t)

LEMMA FrameLength ==
  ASSUME NEW f \in Frame
  PROVE  Len(f) \in 2..4 /\ DOMAIN f = 1..Len(f)
BY DEF Frame, LoginReq, HeartbeatReq, DataReq, AckFrame

\* A frame with its number has its own length, and the CRC as one more word.
LEMMA OwnWords ==
  ASSUME NEW t \in Threads, local[t] \in Frame
  PROVE  /\ Len(Own(t)) = Len(local[t]) /\ DOMAIN Own(t) = 1..Len(local[t])
         /\ Whole(Own(t)) = [i \in 1..(Len(local[t]) + 1) |->
                              IF i <= Len(local[t]) THEN Own(t)[i] ELSE Crc(Own(t))]
         /\ IsAck(local[t]) => Own(t) = local[t]
<1> DEFINE n == Len(local[t])
<1>1. n \in 2..4 /\ DOMAIN local[t] = 1..n
  BY FrameLength
<1>2. DOMAIN Own(t) = 1..n
  BY DEF Own
<1>3. Len(Own(t)) = n
  BY <1>1 DEF Own
<1>4. IsAck(local[t]) => Own(t) = local[t]
  <2> SUFFICES ASSUME IsAck(local[t]) PROVE Own(t) = local[t]
    OBVIOUS
  <2>1. local[t] = [i \in 1..n |-> local[t][i]]
    BY <1>1 DEF Frame, LoginReq, HeartbeatReq, DataReq, AckFrame
  <2> QED
    BY <2>1 DEF Own
<1> QED
  BY <1>2, <1>3, <1>4 DEF Whole

LEMMA SendInit == Init => SendInv
BY Kinds DEF Init, SendInv, Shaped, HasFrame, TwoOverlap, Sent, Inside, SendLabels

\* A step in ntySendFrame leaves every thread that is not overlapped outside.
LEMMA Bystanders ==
  ASSUME Typed, SendInv, NEW u \in Threads, SendStep(u)
  PROVE  /\ Shaped' /\ HasFrame' /\ TwoOverlap'
         /\ \A t \in Threads \ overlapped' : t # u => ~Inside(t)' /\ UNCHANGED <<pc[t], out[t]>>
<1>1. /\ pc[u] \in SendLabels
      /\ \E to \in Labels : pc' = [pc EXCEPT ![u] = to]
                            /\ (to \in SendLabels => UNCHANGED local)
                            /\ (to = "send" => FALSE)
  BY Kinds DEF SendStep, EnterSend, CopyFrame, SetNumber, SetLength, ReadCrc, PutCrc, TestBusy,
               TakeBusy, SendTo, GiveBusy, Return, At, SendLabels, Labels
<1>2. /\ \A t \in Threads : t # u => local'[t] = local[t] /\ out'[t] = out[t]
      /\ \A t \in Threads : local'[t] \in {local[t], NoFrame}
  BY DEF SendStep, EnterSend, CopyFrame, SetNumber, SetLength, ReadCrc, PutCrc, TestBusy, TakeBusy,
         SendTo, GiveBusy, Return, Forget, Typed, SendInv, Shaped, sendVars
<1>3. Shaped'
  <2>1. DOMAIN buffer' = Words
    BY DEF SendStep, EnterSend, CopyFrame, SetNumber, SetLength, ReadCrc, PutCrc, TestBusy, TakeBusy,
           SendTo, GiveBusy, SendInv, Shaped, networkVars, Cleared
  <2>2. DOMAIN sum' = Threads /\ DOMAIN out' = Threads
    BY DEF SendStep, EnterSend, CopyFrame, SetNumber, SetLength, ReadCrc, PutCrc, TestBusy, TakeBusy,
           SendTo, GiveBusy, Return, Forget, SendInv, Shaped, sendVars
  <2>3. overlapped' \subseteq Threads
    BY DEF SendStep, EnterSend, CopyFrame, SetNumber, SetLength, ReadCrc, PutCrc, TestBusy, TakeBusy,
           SendTo, GiveBusy, Return, Forget, SendInv, Shaped, sendVars
  <2> QED
    BY <2>1, <2>2, <2>3 DEF Shaped
<1>4. HasFrame'
  BY <1>1, <1>2 DEF SendInv, HasFrame, Typed
<1>5. \A t \in Threads : t # u => pc'[t] = pc[t]
  BY <1>1 DEF Typed
<1>6. CASE EnterSend(u)
  <2> DEFINE others == {t \in Threads : t # u /\ Inside(t)}
  <2>1. overlapped' = IF others = {} THEN overlapped \ {u} ELSE overlapped \cup others \cup {u}
    BY <1>6 DEF EnterSend
  <2>2. \A t \in Threads : t # u => (Inside(t)' <=> Inside(t))
    BY <1>5 DEF Inside
  <2>3. TwoOverlap'
    BY <2>1, <2>2 DEF SendInv, TwoOverlap
  <2>4. \A t \in Threads \ overlapped' : t # u => ~Inside(t)'
    BY <2>1, <2>2
  <2> QED
    BY <1>2, <1>3, <1>4, <1>5, <2>3, <2>4
<1>7. CASE ~EnterSend(u)
  <2>1. Inside(u) /\ (overlapped' = overlapped \/ (overlapped' = overlapped \ {u} /\ ~Inside(u)'))
    BY <1>7, Kinds DEF SendStep, CopyFrame, SetNumber, SetLength, ReadCrc, PutCrc, TestBusy,
                       TakeBusy, SendTo, GiveBusy, Return, Forget, At, Inside, Typed, sendVars
  <2>2. \A t \in Threads : t # u => (Inside(t)' <=> Inside(t))
    BY <1>5 DEF Inside
  <2>3. TwoOverlap'
    BY <2>1, <2>2 DEF SendInv, TwoOverlap
  <2>4. \A t \in Threads \ overlapped' : t # u => ~Inside(t)'
    BY <2>1, <2>2 DEF SendInv, TwoOverlap
  <2> QED
    BY <1>2, <1>3, <1>4, <1>5, <2>3, <2>4
<1> QED
  BY <1>6, <1>7

\* The steps of one call, one after the other.
LEMMA CallSends ==
  ASSUME Typed, SendInv, NEW t \in Threads, t \notin overlapped', SendStep(t)
  PROVE  Sent(t)'
<1> DEFINE n == Len(local[t])
<1>1. pc[t] \in SendLabels /\ local[t] \in Frame
  BY DEF SendStep, EnterSend, CopyFrame, SetNumber, SetLength, ReadCrc, PutCrc, TestBusy, TakeBusy,
         SendTo, GiveBusy, Return, At, SendInv, HasFrame, SendLabels
<1>2. n \in 2..4
  BY <1>1, FrameLength
<1>3. CASE EnterSend(t)
  BY <1>3 DEF EnterSend, At, Typed, Sent
<1>4. CASE Return(t, "test") \/ Return(t, "give")
  <2>1. pc'[t] \in {"spawn", "idle", "sleep", "callback"}
    BY <1>4, Kinds DEF Return, At, Typed
  <2> QED
    BY <2>1 DEF Sent
<1>5. ASSUME UNCHANGED <<local, overlapped>>
      PROVE  Sent(t) /\ local'[t] = local[t]
  BY <1>5 DEF SendInv
<1>6. ASSUME UNCHANGED <<local, ackNum>>
      PROVE  Own(t)' = Own(t)
  BY <1>6 DEF Own
<1>7. CASE CopyFrame(t)
  <2>1. /\ \A i \in 1..n : buffer'[i] = local[t][i]
        /\ pc'[t] = IF IsAck(local[t]) THEN "length" ELSE "number"
        /\ UNCHANGED <<local, ackNum>>
    BY <1>2, <1>7 DEF CopyFrame, At, Typed, Words
  <2>2. IsAck(local[t]) => Own(t)' = local[t]
    BY <1>1, <1>6, <2>1, OwnWords
  <2> QED
    BY <2>1, <2>2 DEF Sent
<1>8. CASE SetNumber(t)
  <2>1. /\ buffer' = [buffer EXCEPT ![2] = Num(ackNum)]
        /\ pc[t] = "number" /\ pc'[t] = "length" /\ UNCHANGED <<local, ackNum, overlapped>>
    BY <1>8 DEF SetNumber, At, Typed, sendVars
  <2>2. ~IsAck(local[t]) /\ \A i \in 1..n : buffer[i] = local[t][i]
    BY <1>5, <2>1 DEF Sent
  <2>3. \A i \in 1..n : i \in Words /\ buffer'[i] = IF i = 2 THEN Num(ackNum) ELSE local[t][i]
    BY <1>2, <2>1, <2>2 DEF Words, SendInv, Shaped
  <2>4. \A i \in 1..n : buffer'[i] = Own(t)[i]
    BY <2>2, <2>3 DEF Own
  <2> QED
    BY <1>6, <2>1, <2>4 DEF Sent
<1>9. CASE SetLength(t)
  <2>1. /\ length' = n + 1 /\ pc[t] = "length" /\ pc'[t] = "sum"
        /\ UNCHANGED <<buffer, local, ackNum, overlapped>>
    BY <1>9 DEF SetLength, At, Typed, sendVars
  <2> QED
    BY <1>5, <1>6, <2>1 DEF Sent
<1>10. CASE ReadCrc(t)
  <2>1. /\ sum'[t] = Crc([i \in 1..n |-> buffer[i]]) /\ pc[t] = "sum" /\ pc'[t] = "put"
        /\ UNCHANGED <<buffer, length, local, ackNum, overlapped>>
    BY <1>10 DEF ReadCrc, At, Typed, SendInv, Shaped, networkVars
  <2>2. [i \in 1..n |-> buffer[i]] = Own(t)
    BY <1>5, <2>1 DEF Sent, Own
  <2> QED
    BY <1>5, <1>6, <2>1, <2>2 DEF Sent
<1>11. CASE PutCrc(t)
  <2>1. /\ buffer' = [i \in Words |-> IF i = length + 1 THEN Zero
                                     ELSE IF i = n + 1 THEN sum[t] ELSE buffer[i]]
        /\ pc[t] = "put" /\ pc'[t] = "test"
        /\ UNCHANGED <<length, local, ackNum, overlapped>>
    BY <1>11 DEF PutCrc, At, Typed
  <2>2. sum[t] = Crc(Own(t)) /\ \A i \in 1..n : buffer[i] = Own(t)[i]
    BY <1>5, <2>1 DEF Sent
  <2> length = n + 1
    BY <1>5, <2>1 DEF Sent
  <2> HIDE DEF n
  <2>3. n + 1 \in Words /\ n + 1 # length + 1
    BY <1>2 DEF Words
  <2>4. buffer'[n + 1] = Crc(Own(t))
    BY <2>1, <2>2, <2>3
  <2>5. \A i \in 1..n : i \in Words /\ i # length + 1 /\ i # n + 1
    BY <1>2 DEF Words
  <2>6. \A i \in 1..n : buffer'[i] = Own(t)[i]
    BY <2>1, <2>2, <2>5
  <2> QED
    BY <1>6, <2>1, <2>2, <2>4, <2>6 DEF Sent, n
<1>12. CASE (TestBusy(t) /\ ~Return(t, "test")) \/ TakeBusy(t)
  <2>1. /\ pc[t] \in {"test", "take"} /\ pc'[t] \in {"take", "sendto"}
        /\ UNCHANGED <<buffer, length, local, ackNum, overlapped>>
    BY <1>12 DEF TestBusy, TakeBusy, At, Typed, networkVars, sendVars
  <2> QED
    BY <1>5, <1>6, <2>1 DEF Sent
<1>13. CASE SendTo(t)
  <2>1. /\ out'[t] = [i \in 1..length |-> buffer[i]] /\ pc[t] = "sendto" /\ pc'[t] = "give"
        /\ UNCHANGED <<buffer, length, local, ackNum, overlapped>>
    BY <1>13 DEF SendTo, At, Typed, SendInv, Shaped, networkVars
  <2>2. /\ length = n + 1 /\ buffer[n + 1] = Crc(Own(t)) /\ \A i \in 1..n : buffer[i] = Own(t)[i]
    BY <1>5, <2>1 DEF Sent
  <2>3. Whole(Own(t)) = [i \in 1..(n + 1) |-> IF i <= n THEN Own(t)[i] ELSE Crc(Own(t))]
    BY <1>1, OwnWords
  <2>4. out'[t] = Whole(Own(t))
    BY <1>2, <2>1, <2>2, <2>3
  <2> QED
    BY <1>6, <2>1, <2>4 DEF Sent, Whole
<1> QED
  BY <1>3, <1>4, <1>7, <1>8, <1>9, <1>10, <1>11, <1>12, <1>13
  DEF SendStep, TestBusy, GiveBusy

\* Other steps touch neither the network's buffer nor a thread that is in a call.
LEMMA ElsewhereSends ==
  ASSUME Typed, SendInv, UNCHANGED <<buffer, length, ackNum, sum>>,
         Shaped', overlapped \subseteq overlapped' \cup {t \in Threads : ~Inside(t)'},
         \A t \in Threads :
           \/ UNCHANGED <<pc[t], local[t], out[t]>>
           \/ ~Inside(t)' /\ (pc'[t] = "send" => local'[t] \in Frame)
  PROVE  SendInv'
<1>1. HasFrame'
  BY DEF SendInv, HasFrame, SendLabels, Inside
<1>2. \A t \in Threads : Inside(t)' => UNCHANGED <<pc[t], local[t], out[t]>> /\ Inside(t)
  BY DEF Inside
<1>3. TwoOverlap'
  BY <1>2 DEF SendInv, TwoOverlap
<1>4. ASSUME NEW t \in Threads, t \notin overlapped' PROVE Sent(t)'
  <2>1. CASE ~Inside(t)'
    BY <2>1 DEF Inside, Sent
  <2>2. CASE Inside(t)'
    <3>1. t \notin overlapped /\ Sent(t)
      BY <1>4, <2>2 DEF SendInv
    <3>2. Own(t)' = Own(t)
      BY <1>2, <2>2 DEF Own
    <3>3. UNCHANGED <<pc[t], local[t], out[t], sum[t]>>
      BY <1>2, <2>2
    <3> QED
      BY <3>1, <3>2, <3>3 DEF Sent, Whole
  <2> QED
    BY <2>1, <2>2
<1> QED
  BY <1>1, <1>3, <1>4 DEF SendInv

LEMMA SendInvStep == Typed /\ SendInv /\ [Next]_vars => SendInv'
<1> SUFFICES ASSUME Typed, SendInv, [Next]_vars PROVE SendInv'
  OBVIOUS
<1>1. ASSUME NEW t \in Threads, SendStep(t) PROVE SendInv'
  <2>1. \A u \in Threads \ overlapped' : u # t => Sent(u)'
    BY <1>1, Bystanders DEF Sent, Inside
  <2>2. t \notin overlapped' => Sent(t)'
    BY <1>1, CallSends
  <2> QED
    BY <1>1, <2>1, <2>2, Bystanders DEF SendInv
<1>2. CASE AppStep
  <2>1. UNCHANGED <<buffer, length, ackNum, sum, out, overlapped>>
    BY <1>2 DEF AppStep, ntySetDevId, ntySendDataPacket, SetupThreads, networkVars, sendVars
  <2>2. \A t \in Threads :
          \/ UNCHANGED <<pc[t], local[t]>>
          \/ ~Inside(t)' /\ (pc'[t] = "send" => local'[t] \in Frame)
    BY <1>2 DEF AppStep, ntySetDevId, ntySendDataPacket, SetupThreads, At, Inside, Typed, Frame
  <2> QED
    BY <2>1, <2>2, ElsewhereSends DEF SendInv, Shaped
<1>3. ASSUME NEW t \in Beats, HeartBeat(t) PROVE SendInv'
  <2>1. UNCHANGED <<buffer, length, ackNum, sum, out, overlapped>>
    BY <1>3 DEF HeartBeat, CheckRun, SetRun, Beat, networkVars, sendVars
  <2>2. \A u \in Threads :
          \/ UNCHANGED <<pc[u], local[u]>>
          \/ ~Inside(u)' /\ (pc'[u] = "send" => local'[u] \in Frame)
    BY <1>3, Kinds DEF HeartBeat, CheckRun, SetRun, Beat, At, Inside, Typed, Frame
  <2> QED
    BY <2>1, <2>2, ElsewhereSends DEF SendInv, Shaped
<1>4. ASSUME NEW t \in Receivers, RecvProc(t) PROVE SendInv'
  <2>1. UNCHANGED <<buffer, length, ackNum, sum>>
    BY <1>4 DEF RecvProc, Poll, RecvTest, RecvTake, RecvFrom, RecvGive, DispatchLogin,
                DispatchResult, DispatchPacket, Callback, networkVars, sendVars
  <2>2. t \in Threads /\ ~Inside(t)'
    BY <1>4, Kinds DEF RecvProc, Poll, RecvTest, RecvTake, RecvFrom, RecvGive, DispatchLogin,
                       DispatchResult, DispatchPacket, Callback, At, Typed, Inside
  <2>3. Shaped' /\ overlapped \subseteq overlapped' \cup {t}
    BY <1>4 DEF RecvProc, Poll, RecvTest, RecvTake, RecvFrom, RecvGive, DispatchLogin,
                DispatchResult, DispatchPacket, Callback, Forget, networkVars, sendVars, SendInv,
                Shaped
  <2>4. \A u \in Threads : u # t => UNCHANGED <<pc[u], local[u], out[u]>>
    BY <1>4 DEF RecvProc, Poll, RecvTest, RecvTake, RecvFrom, RecvGive, DispatchLogin,
                DispatchResult, DispatchPacket, Callback, Forget, At, sendVars, Typed, SendInv,
                Shaped
  <2>5. pc'[t] = "send" => local'[t] \in Frame
    <3>1. CASE DispatchPacket(t)
      BY <2>2, <3>1, IsPacket, ProxyAckFrame DEF DispatchPacket, Typed
    <3>2. CASE ~DispatchPacket(t)
      BY <1>4, <2>2, <3>2 DEF RecvProc, Poll, RecvTest, RecvTake, RecvFrom, RecvGive,
                              DispatchLogin, DispatchResult, Callback, At, Typed
    <3> QED
      BY <3>1, <3>2
  <2> QED
    BY <2>1, <2>2, <2>3, <2>4, <2>5, ElsewhereSends
<1>5. CASE Arrive \/ ntySendTimeout \/ UNCHANGED vars
  <2>1. UNCHANGED <<buffer, length, ackNum, sum, out, overlapped, pc, local>>
    BY <1>5 DEF Arrive, ntySendTimeout, vars, networkVars, sendVars
  <2> QED
    BY <2>1, ElsewhereSends DEF SendInv, Shaped
<1> QED
  BY <1>1, <1>2, <1>3, <1>4, <1>5 DEF Next

LEMMA SendInvAlways == Spec => []SendInv
BY SendInit, SendInvStep, ProtoTyped, PTL DEF Spec

\* For every number of threads: a call of ntySendFrame that no other thread's call
\* overlaps sends its own frame, with its own number, length and CRC, whatever
\* calls that did overlap have left in the network object before.
THEOREM AloneSendsItsOwnAlways == Spec => []AloneSendsItsOwn
<1>1. SendInv => AloneSendsItsOwn
  BY DEF SendInv, Sent, AloneSendsItsOwn
<1> QED
  BY <1>1, SendInvAlways, PTL

-----------------------------------------------------------------------------
(* The threads a call starts do not run yet. *)

LogsIn == pc[App] = "spawn" \/ (pc[App] \in SendLabels /\ local[App] = LoginReq)

Fresh ==
  /\ \A t \in Beats \cup Receivers : t[2] > calls => pc[t] = "none"
  /\ LogsIn => pc[<<"beat", calls>>] = "none" /\ pc[<<"recv", calls>>] = "none"
               /\ calls \in 1..Calls

LEMMA FreshInit == Init => Fresh
BY Kinds DEF Init, Fresh, LogsIn, SendLabels, App, Beats, Receivers

LEMMA FreshStep == Typed /\ Fresh /\ [Next]_vars => Fresh'
<1> SUFFICES ASSUME Typed, Fresh, [Next]_vars PROVE Fresh'
  OBVIOUS
<1>1. ASSUME UNCHANGED calls, LogsIn' => LogsIn,
             \A t \in Beats \cup Receivers : pc[t] = "none" => pc'[t] = "none"
      PROVE  Fresh'
  BY <1>1 DEF Fresh, Beats, Receivers
<1>2. CASE ntySetDevId
  <2>1. /\ calls' = calls + 1 /\ calls' \in 1..Calls
        /\ \A t \in Beats \cup Receivers : pc'[t] = pc[t]
    BY <1>2, Kinds, ProtoAssumption DEF ntySetDevId, At, Typed
  <2>2. \A t \in Beats \cup Receivers : t[2] > calls => pc'[t] = "none"
    BY <2>1 DEF Fresh
  <2>3. <<"beat", calls'>> \in Beats /\ <<"recv", calls'>> \in Receivers
    BY <2>1 DEF Beats, Receivers
  <2> QED
    BY <2>1, <2>2, <2>3 DEF Fresh, Beats, Receivers, Typed
<1>3. CASE ntySendDataPacket
  <2>1. UNCHANGED calls /\ ~LogsIn' /\ \A t \in Beats \cup Receivers : pc'[t] = pc[t]
    BY <1>3, Kinds DEF ntySendDataPacket, At, Typed, LogsIn, DataReq, LoginReq
  <2> QED
    BY <1>1, <2>1
<1>4. CASE SetupThreads
  <2>1. UNCHANGED calls /\ pc'[App] = "idle"
    BY <1>4, Kinds DEF SetupThreads, Typed, App, Beats, Receivers
  <2>2. \A t \in Beats \cup Receivers :
          t # <<"beat", calls>> /\ t # <<"recv", calls>> => pc'[t] = pc[t]
    BY <1>4, Kinds DEF SetupThreads, Typed
  <2> QED
    BY <2>1, <2>2 DEF Fresh, LogsIn, SendLabels, Typed, Beats, Receivers
<1>5. ASSUME NEW t \in Threads, SendStep(t) PROVE Fresh'
  <2>1. UNCHANGED calls /\ pc[t] \in SendLabels
    BY <1>5 DEF SendStep, EnterSend, CopyFrame, SetNumber, SetLength, ReadCrc, PutCrc, TestBusy,
                TakeBusy, SendTo, GiveBusy, Return, At, SendLabels, appVars
  <2>2. \A u \in Threads : u # t => pc'[u] = pc[u] /\ local'[u] = local[u]
    BY <1>5 DEF SendStep, EnterSend, CopyFrame, SetNumber, SetLength, ReadCrc, PutCrc, TestBusy,
                TakeBusy, SendTo, GiveBusy, Return, Forget, At, Typed
  <2>3. t = App => (LogsIn' => LogsIn)
    BY <1>5, Kinds DEF SendStep, EnterSend, CopyFrame, SetNumber, SetLength, ReadCrc, PutCrc,
                       TestBusy, TakeBusy, SendTo, GiveBusy, Return, Forget, At, Typed, LogsIn,
                       SendLabels, NoFrame, LoginReq
  <2>4. t # App => (LogsIn' => LogsIn)
    BY <2>2, Kinds DEF LogsIn
  <2> QED
    BY <1>1, <2>1, <2>2, <2>3, <2>4, Kinds DEF SendLabels
<1>6. ASSUME NEW t \in Beats, HeartBeat(t) PROVE Fresh'
  <2>1. /\ UNCHANGED calls /\ pc[t] # "none" /\ t # App
        /\ \A u \in Threads : u # t => pc'[u] = pc[u] /\ local'[u] = local[u]
    BY <1>6, Kinds DEF HeartBeat, CheckRun, SetRun, Beat, At, Typed, appVars
  <2> QED
    BY <1>1, <2>1, Kinds DEF LogsIn
<1>7. ASSUME NEW t \in Receivers, RecvProc(t) PROVE Fresh'
  <2>1. /\ UNCHANGED calls /\ pc[t] # "none" /\ t # App
        /\ \A u \in Threads : u # t => pc'[u] = pc[u] /\ local'[u] = local[u]
    BY <1>7, Kinds DEF RecvProc, Poll, RecvTest, RecvTake, RecvFrom, RecvGive, DispatchLogin,
                       DispatchResult, DispatchPacket, Callback, Forget, At, Typed, appVars
  <2> QED
    BY <1>1, <2>1, Kinds DEF LogsIn
<1>8. CASE Arrive \/ ntySendTimeout \/ UNCHANGED vars
  <2>1. UNCHANGED <<calls, pc, local>>
    BY <1>8 DEF Arrive, ntySendTimeout, vars, appVars
  <2> QED
    BY <2>1 DEF Fresh, LogsIn
<1> QED
  BY <1>2, <1>3, <1>4, <1>5, <1>6, <1>7, <1>8 DEF Next, AppStep

LEMMA FreshAlways == Spec => []Fresh
BY FreshInit, FreshStep, ProtoTyped, PTL DEF Spec

-----------------------------------------------------------------------------
(* What one receiving thread does with a packet. *)

First == <<"recv", 1>>
Answering == SendLabels \cup {"callback"}

\* With one call one receiving thread runs.
FirstOnly == calls <= 1 => \A t \in Receivers : pc[t] = "none" \/ t = First

\* From its dispatch to its callback the packet stays in the shared receive
\* buffer, and the thread's frame is its acknowledgement.
AnswersPacket ==
  calls <= 1 =>
    \A t \in Receivers :
      pc[t] \in Answering =>
        /\ recvBuffer \in arrived \cap Packet
        /\ recvBuffer.msg = "MSG_REQ"
        /\ local[t] = ProxyAck(recvBuffer)

\* The flag is set only while a thread is between setting it and giving it back.
BusyInside ==
  busy => \E t \in Threads : pc[t] \in {"sendto", "give", "recvfrom", "recvgive"}

\* A receiving thread that was alone in ntySendFrame was not refused.
HasLeft ==
  calls <= 1 =>
    \A t \in Receivers \ overlapped : pc[t] = "callback" => out[t] = Whole(local[t])

AnswerInv == FirstOnly /\ AnswersPacket /\ BusyInside /\ HasLeft

LEMMA AnswerInit == Init => AnswerInv
BY Kinds DEF Init, AnswerInv, FirstOnly, AnswersPacket, BusyInside, HasLeft, Answering, SendLabels

LEMMA SendStepAnswers ==
  ASSUME Typed, SendInv, AnswerInv, NEW t \in Threads, SendStep(t)
  PROVE  AnswerInv'
<1>1. UNCHANGED <<recvBuffer, arrived, calls>>
  BY DEF SendStep, EnterSend, CopyFrame, SetNumber, SetLength, ReadCrc, PutCrc, TestBusy, TakeBusy,
         SendTo, GiveBusy, protoVars, appVars
<1>2. /\ pc[t] \in SendLabels
      /\ \E to : /\ pc' = [pc EXCEPT ![t] = to]
                 /\ t \in Receivers => to \in Answering
  BY Kinds DEF SendStep, EnterSend, CopyFrame, SetNumber, SetLength, ReadCrc, PutCrc, TestBusy,
               TakeBusy, SendTo, GiveBusy, Return, At, Answering, SendLabels
<1>3. \A u \in Receivers : local'[u] = local[u]
  BY Kinds DEF SendStep, EnterSend, CopyFrame, SetNumber, SetLength, ReadCrc, PutCrc, TestBusy,
               TakeBusy, SendTo, GiveBusy, Return, Forget, Typed
<1>4. FirstOnly'
  BY <1>1, <1>2, Kinds DEF Typed, AnswerInv, FirstOnly, SendLabels
<1>5. AnswersPacket'
  <2>1. \A u \in Receivers : pc'[u] \in Answering => pc[u] \in Answering
    BY <1>2, Kinds DEF Typed, Answering
  <2> QED
    BY <1>1, <1>3, <2>1 DEF AnswerInv, AnswersPacket
<1>6. BusyInside'
  <2>1. CASE TakeBusy(t)
    BY <2>1 DEF TakeBusy, At, Typed, BusyInside
  <2>2. CASE GiveBusy(t)
    BY <2>2 DEF GiveBusy, BusyInside
  <2>3. CASE SendTo(t)
    BY <2>3 DEF SendTo, At, Typed, BusyInside
  <2>4. CASE UNCHANGED busy /\ pc[t] \notin {"sendto", "give"}
    BY <1>2, <2>4 DEF AnswerInv, BusyInside, Typed, SendLabels
  <2> QED
    BY <2>1, <2>2, <2>3, <2>4
    DEF SendStep, EnterSend, CopyFrame, SetNumber, SetLength, ReadCrc, PutCrc, TestBusy, Return,
        At, networkVars
<1>7. HasLeft'
  <2> SUFFICES ASSUME calls' <= 1, NEW u \in Receivers, u \notin overlapped', pc'[u] = "callback"
               PROVE  out'[u] = Whole(local[u])
    BY <1>3 DEF HasLeft, Whole
  <2>1. CASE u # t
    <3>1. UNCHANGED <<pc[u], out[u]>>
      BY <2>1, Kinds, Bystanders
    <3>2. pc[u] = "callback" /\ u = First /\ t \notin Receivers
      BY <1>1, <1>2, <2>1, <3>1, Kinds DEF AnswerInv, FirstOnly, SendLabels
    <3>3. u \notin overlapped
      BY <3>2, Kinds DEF SendStep, EnterSend, CopyFrame, SetNumber, SetLength, ReadCrc, PutCrc,
                         TestBusy, TakeBusy, SendTo, GiveBusy, Return, Forget, sendVars
    <3> QED
      BY <1>1, <3>1, <3>2, <3>3 DEF AnswerInv, HasLeft
  <2>2. CASE u = t /\ GiveBusy(t)
    <3>1. pc[t] = "give" /\ UNCHANGED <<out, overlapped>>
      BY <2>2, Kinds DEF GiveBusy, Return, At
    <3>2. out[t] = Whole(Own(t)) /\ local[t] \in Frame
      BY <2>2, <3>1 DEF SendInv, Sent, HasFrame, SendLabels
    <3>3. IsAck(local[t])
      BY <1>1, <2>2, <3>1 DEF AnswerInv, AnswersPacket, Answering, SendLabels, ProxyAck, AckFrame,
                              IsAck
    <3> QED
      BY <2>2, <3>1, <3>2, <3>3, OwnWords
  <2>3. CASE u = t /\ ~GiveBusy(t)
    <3>1. busy /\ pc[t] = "test" /\ UNCHANGED overlapped
      BY <2>3, Kinds DEF SendStep, EnterSend, CopyFrame, SetNumber, SetLength, ReadCrc, PutCrc,
                         TestBusy, TakeBusy, SendTo, Return, At, Typed
    <3>2. PICK w \in Threads : pc[w] \in {"sendto", "give", "recvfrom", "recvgive"}
      BY <3>1 DEF AnswerInv, BusyInside
    <3>3. w # t /\ w \notin Receivers
      BY <1>1, <2>3, <3>1, <3>2 DEF AnswerInv, FirstOnly
    <3>4. Inside(w) /\ Inside(t)
      BY <3>1, <3>2, <3>3 DEF Inside, Typed, ReceiversReceive
    <3>5. t \in overlapped
      BY <3>3, <3>4 DEF SendInv, TwoOverlap
    <3> QED
      BY <2>3, <3>1, <3>5
  <2> QED
    BY <2>1, <2>2, <2>3
<1> QED
  BY <1>4, <1>5, <1>6, <1>7 DEF AnswerInv

LEMMA AppStepAnswers ==
  ASSUME Typed, Fresh, AnswerInv, AppStep
  PROVE  AnswerInv'
<1>1. /\ UNCHANGED <<recvBuffer, arrived, busy, out, overlapped>>
      /\ calls' \in Nat /\ (calls' = calls \/ calls' = calls + 1)
  BY DEF AppStep, ntySetDevId, ntySendDataPacket, SetupThreads, protoVars, networkVars, sendVars,
         Typed
<1>2. \A t \in Receivers : pc'[t] = pc[t] \/ (pc'[t] = "poll" /\ t = <<"recv", calls>>)
  BY Kinds DEF AppStep, ntySetDevId, ntySendDataPacket, SetupThreads, At, Typed, App, Beats,
               Receivers
<1>3. \A t \in Receivers : local'[t] = local[t]
  BY Kinds DEF AppStep, ntySetDevId, ntySendDataPacket, SetupThreads, Typed
<1>4. FirstOnly'
  BY <1>1, <1>2 DEF AnswerInv, FirstOnly, First, Typed, Receivers
<1>5. AnswersPacket'
  BY <1>1, <1>2, <1>3 DEF AnswerInv, AnswersPacket, Answering, SendLabels, Typed
<1>6. \A t \in Threads : pc[t] \in {"none", "idle", "spawn"} \/ pc'[t] = pc[t]
  <2>1. CASE ntySetDevId \/ ntySendDataPacket
    BY <2>1 DEF ntySetDevId, ntySendDataPacket, At, Typed
  <2>2. CASE SetupThreads
    BY <2>2 DEF SetupThreads, Typed, Fresh, LogsIn
  <2> QED
    BY <2>1, <2>2 DEF AppStep
<1>7. BusyInside'
  BY <1>1, <1>6 DEF AnswerInv, BusyInside
<1>8. HasLeft'
  BY <1>1, <1>2, <1>3 DEF AnswerInv, HasLeft, Typed, Whole
<1> QED
  BY <1>4, <1>5, <1>7, <1>8 DEF AnswerInv

LEMMA HeartBeatAnswers ==
  ASSUME Typed, AnswerInv, NEW t \in Beats, HeartBeat(t)
  PROVE  AnswerInv'
<1>1. UNCHANGED <<recvBuffer, arrived, calls, busy, out, overlapped>>
  BY DEF HeartBeat, CheckRun, SetRun, Beat, protoVars, networkVars, sendVars, appVars
<1>2. \A u \in Receivers : pc'[u] = pc[u] /\ local'[u] = local[u]
  BY Kinds DEF HeartBeat, CheckRun, SetRun, Beat, At, Typed
<1>3. \A u \in Threads : pc'[u] = pc[u] \/ pc[u] \in {"check", "set", "sleep"}
  BY DEF HeartBeat, CheckRun, SetRun, Beat, At, Typed
<1>4. BusyInside'
  BY <1>1, <1>3 DEF AnswerInv, BusyInside
<1> QED
  BY <1>1, <1>2, <1>4 DEF AnswerInv, FirstOnly, AnswersPacket, HasLeft, Whole

LEMMA RecvProcAnswers ==
  ASSUME Typed, AnswerInv, NEW t \in Receivers, RecvProc(t)
  PROVE  AnswerInv'
<1>1. UNCHANGED calls /\ arrived \subseteq arrived'
  BY DEF RecvProc, Poll, RecvTest, RecvTake, RecvFrom, RecvGive, DispatchLogin, DispatchResult,
         DispatchPacket, Callback, appVars
<1>2. pc[t] # "none" /\ \A u \in Threads : u # t => pc'[u] = pc[u] /\ local'[u] = local[u]
  BY DEF RecvProc, Poll, RecvTest, RecvTake, RecvFrom, RecvGive, DispatchLogin, DispatchResult,
         DispatchPacket, Callback, Forget, At, Typed
<1>3. FirstOnly'
  BY <1>1, <1>2, Kinds DEF AnswerInv, FirstOnly
<1>4. calls <= 1 => \A u \in Receivers : u # t => pc'[u] = "none"
  BY <1>2, Kinds DEF AnswerInv, FirstOnly
<1>5. BusyInside'
  <2>1. CASE RecvTake(t)
    BY <2>1, Kinds DEF RecvTake, At, Typed, BusyInside
  <2>2. CASE RecvFrom(t)
    BY <2>2, Kinds DEF RecvFrom, At, Typed, BusyInside
  <2>3. CASE RecvGive(t)
    BY <2>3 DEF RecvGive, BusyInside
  <2>4. CASE UNCHANGED busy /\ pc[t] \notin {"recvfrom", "recvgive", "sendto", "give"}
    BY <1>2, <2>4 DEF AnswerInv, BusyInside
  <2> QED
    BY <2>1, <2>2, <2>3, <2>4, Kinds
    DEF RecvProc, Poll, RecvTest, DispatchLogin, DispatchResult, DispatchPacket, Callback, At,
        networkVars
<1>6. HasLeft'
  <2>1. pc'[t] # "callback"
    BY Kinds DEF RecvProc, Poll, RecvTest, RecvTake, RecvFrom, RecvGive, DispatchLogin,
                 DispatchResult, DispatchPacket, Callback, At, Typed
  <2> QED
    BY <1>1, <1>4, <2>1 DEF HasLeft
<1>7. CASE DispatchPacket(t)
  <2>1. /\ recvBuffer \in arrived \cap Packet /\ recvBuffer.msg = "MSG_REQ"
        /\ local'[t] = ProxyAck(recvBuffer) /\ UNCHANGED <<recvBuffer, arrived>>
    BY <1>7, IsPacket, Kinds DEF DispatchPacket, Typed, protoVars, appVars
  <2>2. AnswersPacket'
    BY <1>1, <1>4, <2>1 DEF AnswersPacket, Answering, SendLabels
  <2> QED
    BY <1>3, <1>5, <1>6, <2>2 DEF AnswerInv
<1>8. CASE ~DispatchPacket(t)
  <2>1. pc'[t] \notin Answering
    BY <1>8, Kinds DEF RecvProc, Poll, RecvTest, RecvTake, RecvFrom, RecvGive, DispatchLogin,
                   DispatchResult, Callback, At, Typed, Answering, SendLabels
  <2>2. AnswersPacket'
    BY <1>1, <1>4, <2>1 DEF AnswersPacket, Answering, SendLabels
  <2> QED
    BY <1>3, <1>5, <1>6, <2>2 DEF AnswerInv
<1> QED
  BY <1>7, <1>8

LEMMA AnswerStep == Typed /\ Fresh /\ SendInv /\ AnswerInv /\ [Next]_vars => AnswerInv'
<1> SUFFICES ASSUME Typed, Fresh, SendInv, AnswerInv, [Next]_vars PROVE AnswerInv'
  OBVIOUS
<1>1. CASE Arrive \/ ntySendTimeout \/ UNCHANGED vars
  <2>1. UNCHANGED <<recvBuffer, arrived, calls, busy, pc, local, out, overlapped>>
    BY <1>1 DEF Arrive, ntySendTimeout, vars, protoVars, networkVars, sendVars, appVars
  <2> QED
    BY <2>1 DEF AnswerInv, FirstOnly, AnswersPacket, BusyInside, HasLeft, Whole
<1> QED
  BY <1>1, AppStepAnswers, SendStepAnswers, HeartBeatAnswers, RecvProcAnswers DEF Next

LEMMA AnswerAlways == Spec => []AnswerInv
BY AnswerInit, AnswerStep, SendInvAlways, FreshAlways, ProtoTyped, PTL DEF Spec

\* For any number of packets and datagrams, with one receiving thread: the packet
\* the application is shown came, and its acknowledgement has left whole, unless
\* another thread was in ntySendFrame while the receiving thread was.
THEOREM ShownIsAcknowledgedAlways == Spec => []ShownIsAcknowledged
<1>1. AnswerInv => ShownIsAcknowledged
  BY DEF AnswerInv, AnswersPacket, HasLeft, ShownIsAcknowledged, Answering, ProxyAck
<1> QED
  BY <1>1, AnswerAlways, PTL
=============================================================================
