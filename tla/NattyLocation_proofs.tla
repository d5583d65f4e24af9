------------------------ MODULE NattyLocation_proofs ------------------------
(* Theorems about NattyLocation, for every set of scans and sockets. *)
EXTENDS NattyLocation, WlanScan_lemmas

-----------------------------------------------------------------------------
(* The GPS schedule. *)

Scheduled(g) ==
  /\ g.open => g.timeout
  /\ g.enabled => g.syncTimer /\ (g.status = "IDLE" \/ g.open)

\* GPS that is off is scheduled well.
LEMMA GpsOffScheduled == GpsOff \in Gps /\ Scheduled(GpsOff)
BY GpsAssumption DEF GpsOff, Gps, SyncStatus, Scheduled

\* A request for GPS keeps the schedule.
LEMMA EnableScheduled ==
  ASSUME NEW g \in Gps, Scheduled(g)
  PROVE  ntyGpsSyncEnable(g) \in Gps /\ Scheduled(ntyGpsSyncEnable(g))
BY DEF Gps, SyncStatus, Scheduled, ntyGpsSyncEnable

\* The timeout, or a fix, keeps it.
LEMMA TimeoutScheduled ==
  ASSUME NEW g \in Gps, Scheduled(g)
  PROVE  ntyGpsScanTimeout(g) \in Gps /\ Scheduled(ntyGpsScanTimeout(g))
BY DEF Gps, SyncStatus, Scheduled, ntyGpsScanTimeout, ntyGPSClose

\* What a tick has to leave behind, as it starts the timer again.
Resumable(g) ==
  /\ g \in Gps
  /\ g.open => g.timeout
  /\ g.enabled => g.status = "IDLE" \/ g.open

\* With its timer started again the schedule is sound.
LEMMA ResumeScheduled ==
  ASSUME NEW g, Resumable(g)
  PROVE  [g EXCEPT !.syncTimer = TRUE] \in Gps /\ Scheduled([g EXCEPT !.syncTimer = TRUE])
BY DEF Resumable, Gps, Scheduled

\* A second of listening, and its end.
LEMMA LocationingResumable ==
  ASSUME NEW g \in Gps, Resumable(g), g.open
  PROVE  Resumable(Locationing(g))
<1>1. CASE g.syncCount = SyncMax
  <2>1. Locationing(g) = [g EXCEPT !.open = FALSE, !.enabled = FALSE, !.syncCount = 0,
                                   !.suspendCount = 0, !.status = "SUSPEND"]
    BY <1>1 DEF Locationing, ntyGPSClose, Gps
  <2>2. 0 \in 0..SyncMax /\ 0 \in 0..SuspendMax
    BY GpsAssumption
  <2>3. Locationing(g) \in Gps
    BY <2>1, <2>2 DEF Gps, SyncStatus
  <2> QED
    BY <2>1, <2>3 DEF Resumable, Gps
<1>2. CASE g.syncCount # SyncMax
  <2>1. g.syncCount + 1 \in 0..SyncMax
    BY <1>2, GpsAssumption DEF Gps
  <2> QED
    BY <1>2, <2>1 DEF Locationing, Resumable, Gps
<1> QED
  BY <1>1, <1>2

\* A second of the pause, and its end.
LEMMA SuspendedResumable ==
  ASSUME NEW g \in Gps, Resumable(g), g.open
  PROVE  Resumable(Suspended(g))
<1>1. CASE g.suspendCount = SuspendMax
  <2>1. Suspended(g) = [g EXCEPT !.status = "LOCATIONING", !.suspendCount = 0]
    BY <1>1 DEF Suspended, ntyGPSOpen, Gps
  <2>2. 0 \in 0..SuspendMax
    BY GpsAssumption
  <2>3. Suspended(g) \in Gps
    BY <2>1, <2>2 DEF Gps, SyncStatus
  <2> QED
    BY <2>1, <2>3 DEF Resumable, Gps
<1>2. CASE g.suspendCount # SuspendMax
  <2>1. g.suspendCount + 1 \in 0..SuspendMax
    BY <1>2, GpsAssumption DEF Gps
  <2> QED
    BY <1>2, <2>1 DEF Suspended, Resumable, Gps
<1> QED
  BY <1>1, <1>2

\* Each tick of the schedule keeps it.
LEMMA SyncScheduled ==
  ASSUME NEW g \in Gps, Scheduled(g)
  PROVE  ntyGpsSyncProc(g) \in Gps /\ Scheduled(ntyGpsSyncProc(g))
<1> DEFINE idle == [g EXCEPT !.syncTimer = FALSE]
<1>1. /\ idle \in Gps
      /\ idle.open = g.open /\ idle.timeout = g.timeout
      /\ idle.enabled = g.enabled /\ idle.status = g.status
  BY DEF Gps
<1>2. CASE ~g.enabled
  BY <1>1, <1>2 DEF ntyGpsSyncProc, Scheduled
<1>3. CASE g.enabled /\ g.status = "IDLE"
  <2> DEFINE next == [ntyGPSOpen(idle) EXCEPT !.status = "LOCATIONING"]
  <2>1. Resumable(next)
    BY <1>1, <1>3 DEF ntyGPSOpen, Scheduled, Resumable, Gps, SyncStatus
  <2>2. ntyGpsSyncProc(g) = [next EXCEPT !.syncTimer = TRUE]
    BY <1>3 DEF ntyGpsSyncProc
  <2> HIDE DEF next
  <2> QED
    BY <2>1, <2>2, ResumeScheduled
<1>4. Resumable(idle) /\ (g.enabled /\ g.status # "IDLE" => idle.open)
  BY <1>1 DEF Resumable, Scheduled
<1>5. CASE g.enabled /\ g.status = "LOCATIONING"
  <2>1. Resumable(Locationing(idle))
    BY <1>1, <1>4, <1>5, LocationingResumable
  <2>2. ntyGpsSyncProc(g) = [Locationing(idle) EXCEPT !.syncTimer = TRUE]
    BY <1>5 DEF ntyGpsSyncProc
  <2> QED
    BY <2>1, <2>2, ResumeScheduled
<1>6. CASE g.enabled /\ g.status = "SUSPEND"
  <2>1. Resumable(Suspended(idle))
    BY <1>1, <1>4, <1>6, SuspendedResumable
  <2>2. ntyGpsSyncProc(g) = [Suspended(idle) EXCEPT !.syncTimer = TRUE]
    BY <1>6 DEF ntyGpsSyncProc
  <2> QED
    BY <2>1, <2>2, ResumeScheduled
<1> QED
  BY <1>2, <1>3, <1>5, <1>6 DEF Gps, SyncStatus

-----------------------------------------------------------------------------
(* The HTTP client: its types, RequestIntact, and what makes AnswersLast so. *)

\* What was asked on the socket in use and is not answered was asked last.
OwnAnswer == socketid \in Sockets => socket[socketid].asked \in {None, lastAsked}

HttpTyped ==
  /\ account \in BOOLEAN /\ addr \in BOOLEAN /\ dns \in BOOLEAN
  /\ socketid \in Sockets \cup {-1}
  /\ buffer \in Lists \cup {None} /\ lastAsked \in Lists \cup {None}
  /\ socket \in [Sockets -> [state : SocketStates, asked : Lists \cup {None}]]

HttpInv == HttpTyped /\ RequestIntact /\ OwnAnswer

\* No list of access points stands for an empty buffer.
LEMMA NoneIsNoList == None \notin Lists
BY LocationAssumption DEF Lists

\* The number of a failed soc_create is no socket's.
LEMMA NoSuchSocket == -1 \notin Sockets
BY HttpAssumption

\* soc_connect leaves a state, and none that waits unless the socket waited.
LEMMA ConnectedStates ==
  ASSUME NEW state \in SocketStates, NEW known \in BOOLEAN, NEW next \in Connected(state, known)
  PROVE  /\ next \in SocketStates
         /\ next \in {"open", "connecting", "hopeless"} =>
              state \in {"open", "connecting", "hopeless"}
BY DEF SocketStates, Connected

\* A lookup starts on a fresh socket or on none, with its request in the buffer.
LEMMA ConnectServerInv ==
  ASSUME HttpInv, NEW list \in Lists, ntyConnectServer(list)
  PROVE  HttpInv'
<1>1. CASE ~account
  BY <1>1, NoneIsNoList
  DEF HttpInv, HttpTyped, RequestIntact, OwnAnswer, State, ntyConnectServer, ntyGetHostByName
<1>2. CASE socketid' = -1 /\ UNCHANGED socket /\ account
  BY <1>2, NoneIsNoList, NoSuchSocket
  DEF HttpInv, HttpTyped, RequestIntact, OwnAnswer, State, ntyConnectServer, ntyGetHostByName
<1>3. ASSUME NEW s \in Sockets, NEW state \in Connected("open", addr), account,
             socketid' = s, socket' = [socket EXCEPT ![s] = [state |-> state, asked |-> None]]
      PROVE  HttpInv'
  <2>1. state \in SocketStates
    BY ConnectedStates DEF SocketStates, HttpInv, HttpTyped
  <2> QED
    BY <1>3, <2>1, NoneIsNoList
    DEF HttpInv, HttpTyped, RequestIntact, OwnAnswer, State, ntyConnectServer, ntyGetHostByName
<1> QED
  BY <1>1, <1>2, <1>3 DEF ntyConnectServer

\* A name query's answer may connect the socket in use.
LEMMA HostByNameInv ==
  ASSUME HttpInv, ntyGetHostByNameIndCallback
  PROVE  HttpInv'
<1>1. CASE UNCHANGED socket
  BY <1>1 DEF HttpInv, HttpTyped, RequestIntact, OwnAnswer, State, ntyGetHostByNameIndCallback
<1>2. ASSUME NEW state \in Connected(State(socketid), TRUE), socketid \in Sockets, addr' = TRUE,
             socket' = [socket EXCEPT ![socketid].state = state]
      PROVE  HttpInv'
  <2>1. State(socketid) \in SocketStates
    BY <1>2 DEF HttpInv, HttpTyped, State
  <2>2. /\ state \in SocketStates
        /\ state \in {"open", "connecting", "hopeless"} =>
             State(socketid) \in {"open", "connecting", "hopeless"}
    BY <2>1, ConnectedStates
  <2> QED
    BY <1>2, <2>2
    DEF HttpInv, HttpTyped, RequestIntact, OwnAnswer, State, ntyGetHostByNameIndCallback
<1> QED
  BY <1>1, <1>2 DEF ntyGetHostByNameIndCallback, Connect

\* A finished connection sends the request in the buffer, or leaves it there.
LEMMA NotifyConnectInv ==
  ASSUME HttpInv, NotifyConnect
  PROVE  HttpInv'
<1>1. PICK s \in Sockets :
        /\ s = socketid /\ State(s) \in {"connecting", "hopeless"}
        /\ \/ /\ \E sent \in {buffer, None} :
                   socket' = [socket EXCEPT ![s] = [state |-> "connected", asked |-> sent]]
              /\ lastAsked' = buffer
           \/ socket' = [socket EXCEPT ![s].state = "open"] /\ UNCHANGED lastAsked
        /\ UNCHANGED <<account, socketid, addr, dns, buffer>>
  BY DEF NotifyConnect, Routed, ntyHttpRequest
<1> QED
  BY <1>1 DEF HttpInv, HttpTyped, RequestIntact, OwnAnswer, State, SocketStates

\* A closed socket holds no answer, and nothing waits on it.
LEMMA NotifyCloseInv ==
  ASSUME HttpInv, NotifyClose
  PROVE  HttpInv'
<1>1. PICK s \in Sockets :
        /\ s = socketid
        /\ socket' = [socket EXCEPT ![s] = [state |-> "free", asked |-> None]]
        /\ dns' = FALSE /\ UNCHANGED <<account, socketid, addr, buffer, lastAsked>>
  BY DEF NotifyClose, Routed, Free, ntyHttpClose
<1> QED
  BY <1>1 DEF HttpInv, HttpTyped, RequestIntact, OwnAnswer, State, SocketStates

\* A data account that is found changes nothing of a lookup.
LEMMA AccountKnownInv ==
  ASSUME HttpInv, AccountKnown
  PROVE  HttpInv'
BY DEF HttpInv, HttpTyped, RequestIntact, OwnAnswer, State, AccountKnown

\* An answer is read on a connected socket only.
LEMMA NotifyReadInv ==
  ASSUME HttpInv, NotifyRead
  PROVE  HttpInv'
<1>1. PICK s \in Sockets :
        /\ s = socketid /\ State(s) = "connected" /\ buffer' = None
        /\ socket' = [socket EXCEPT ![s].asked = None] \/ UNCHANGED socket
        /\ UNCHANGED <<account, socketid, addr, dns, lastAsked>>
  BY DEF NotifyRead, Routed, ntyHttpRecv
<1> QED
  BY <1>1 DEF HttpInv, HttpTyped, RequestIntact, OwnAnswer, State, SocketStates

-----------------------------------------------------------------------------
(* The whole. *)

LocTyped ==
  /\ u8CurLocLevel \in {"FREE", "GPS", "CELL", "EPO"}
  /\ u8LocType \in {"NULL", "GPS", "CELL"}
  /\ position \in Lists \cup {None, Fix} /\ u8Altitude \in BOOLEAN
  /\ flg_wifi_init \in BOOLEAN /\ chip \in BOOLEAN /\ scanning \in BOOLEAN
  /\ wifi_list \in Lists /\ wifi_snd_list \in Lists

GpsInv == gps \in Gps /\ Scheduled(gps)

LocInv == LocTyped /\ GpsInv /\ HttpInv

\* The invariant holds in the beginning.
LEMMA LocInit == Init => LocInv
<1> SUFFICES ASSUME Init PROVE LocInv
  OBVIOUS
<1>1. LocTyped
  BY DEF Init, LocTyped, Lists
<1>2. GpsInv
  BY GpsOffScheduled DEF Init, GpsInv
<1>3. HttpInv
  BY NoSuchSocket
  DEF Init, HttpInit, HttpInv, HttpTyped, RequestIntact, OwnAnswer, Free, SocketStates
<1> QED
  BY <1>1, <1>2, <1>3 DEF LocInv

\* A request for GPS, from whichever handler, keeps its part.
LEMMA StartGPSInv ==
  ASSUME GpsInv, NEW type, NEW level, ntyStartGPS(type, level)
  PROVE  GpsInv' /\ u8CurLocLevel' \in {"GPS", "EPO"}
BY EnableScheduled DEF GpsInv, ntyStartGPS

\* What a scan leads to, for the list it left.
LEMMA WlanEndInv ==
  ASSUME LocInv, NEW list \in Lists, WlanEnd(list), ScanEnds, wifi_list' \in Lists
  PROVE  LocInv'
<1> DEFINE status == Status(list, wifi_snd_list)
<1>1. CASE ntyStartGPS(u8LocType, u8CurLocLevel) /\ UNCHANGED <<httpVars, wifi_snd_list>>
  <2>1. GpsInv' /\ u8CurLocLevel' \in {"GPS", "EPO"}
    BY <1>1, StartGPSInv DEF LocInv
  <2>2. HttpInv'
    BY <1>1 DEF LocInv, HttpInv, HttpTyped, RequestIntact, OwnAnswer, State, httpVars
  <2> QED
    BY <1>1, <2>1, <2>2 DEF LocInv, LocTyped, WlanEnd, ScanEnds
<1>2. CASE UNCHANGED <<u8CurLocLevel, gps, httpVars, wifi_snd_list>>
  <2>1. HttpInv'
    BY <1>2 DEF LocInv, HttpInv, HttpTyped, RequestIntact, OwnAnswer, State, httpVars
  <2> QED
    BY <1>2, <2>1 DEF LocInv, LocTyped, GpsInv, WlanEnd, ScanEnds
<1>3. CASE wifi_snd_list' = list /\ ntyConnectServer(list) /\ UNCHANGED <<u8CurLocLevel, gps>>
  <2>1. HttpInv'
    BY <1>3, ConnectServerInv DEF LocInv
  <2> QED
    BY <1>3, <2>1 DEF LocInv, LocTyped, GpsInv, WlanEnd, ScanEnds
<1> QED
  BY <1>1, <1>2, <1>3 DEF WlanEnd

\* Every step keeps it.
LEMMA LocStep == LocInv /\ [Next]_vars => LocInv'
<1> SUFFICES ASSUME LocInv, [Next]_vars PROVE LocInv'
  OBVIOUS
<1> USE DEF LocInv
<1>h. UNCHANGED httpVars => HttpInv'
  BY DEF HttpInv, HttpTyped, RequestIntact, OwnAnswer, State, httpVars
<1>1. CASE ScanTimeout
  BY <1>1, <1>h
  DEF ScanTimeout, ntyLocationWlanStart, ntyTimerScanWifi, ntyWlanOpen, ntyWlanScan,
      LocTyped, GpsInv
<1>2. CASE ScanSucceeds
  BY <1>2, WlanEndInv DEF ScanSucceeds, Lists
<1>3. CASE ScanFails
  BY <1>3, WlanEndInv DEF ScanFails, LocTyped
<1>4. CASE SyncTimeout
  BY <1>4, <1>h, SyncScheduled DEF SyncTimeout, LocTyped, GpsInv, locVars, wlanVars
<1>5. CASE GpsTimeout
  BY <1>5, <1>h, TimeoutScheduled DEF GpsTimeout, LocTyped, GpsInv, locVars, wlanVars
<1>6. CASE NMEACallback
  BY <1>6, <1>h, TimeoutScheduled
  DEF NMEACallback, ntyGPSParseGPGGA, ntyGPSParseGPRMC, ntyParseNMEARMC, ntyParseNMEAGGA,
      LocTyped, GpsInv, wlanVars
<1>7. CASE NotifyRead
  <2>1. HttpInv'
    BY <1>7, NotifyReadInv
  <2>2. PICK s \in Sockets : position' = socket[s].asked \/ UNCHANGED position
    BY <1>7 DEF NotifyRead, ntyHttpRecv
  <2>3. position' \in Lists \cup {None, Fix}
    BY <2>2 DEF LocTyped, HttpInv, HttpTyped
  <2>4. GpsInv' /\ u8CurLocLevel' \in {"FREE", "GPS", "CELL", "EPO"}
    BY <1>7, StartGPSInv DEF NotifyRead, ntyHttpResponse, GpsInv, LocTyped
  <2>5. u8LocType' \in {"NULL", "GPS", "CELL"} /\ UNCHANGED <<wlanVars, u8Altitude>>
    BY <1>7 DEF NotifyRead, ntyHttpResponse, LocTyped
  <2> QED
    BY <2>1, <2>3, <2>4, <2>5 DEF LocTyped, wlanVars
<1>8. CASE HttpStep
  <2>1. HttpInv'
    BY <1>8, HostByNameInv, NotifyConnectInv, NotifyCloseInv, AccountKnownInv DEF HttpStep
  <2> QED
    BY <1>8, <2>1 DEF HttpStep, LocTyped, GpsInv, locVars, wlanVars
<1>9. CASE UNCHANGED vars
  BY <1>9, <1>h DEF vars, LocTyped, GpsInv, locVars, wlanVars
<1> QED
  BY <1>1, <1>2, <1>3, <1>4, <1>5, <1>6, <1>7, <1>8, <1>9 DEF Next

\* Every reachable state satisfies the invariant.
THEOREM LocAlways == Spec => []LocInv
<1>1. Init => LocInv
  BY LocInit
<1>2. LocInv /\ [Next]_vars => LocInv'
  BY LocStep
<1> QED
  BY <1>1, <1>2, PTL DEF Spec

\* Levels, lists, sockets and the schedule are well typed.
THEOREM LocationTyped == Spec => []TypeOK
<1>1. LocInv => TypeOK
  BY DEF LocInv, LocTyped, GpsInv, HttpInv, HttpTyped, TypeOK
<1> QED
  BY <1>1, LocAlways, PTL

\* GPS never listens without its timeout, and its schedule is never enabled
\* with nothing going on.
THEOREM GpsScheduledAlways == Spec => []GpsScheduled
<1>1. LocInv => GpsScheduled
  BY DEF LocInv, GpsInv, Scheduled, GpsScheduled
<1> QED
  BY <1>1, LocAlways, PTL

\* A request that waits for its connection is still in the buffer.
THEOREM RequestIntactAlways == Spec => []RequestIntact
<1>1. LocInv => RequestIntact
  BY DEF LocInv, HttpInv
<1> QED
  BY <1>1, LocAlways, PTL

\* A looked-up position answers the request that was sent last.
THEOREM AnswersLastAlways == Spec => AnswersLast
<1> DEFINE Answer == position' # position /\ position' # Fix => position' = lastAsked
<1>1. LocInv /\ [Next]_vars => [Answer]_vars
  <2> SUFFICES ASSUME LocInv, Next PROVE Answer
    BY DEF vars
  <2>1. CASE NotifyRead
    BY <2>1 DEF NotifyRead, ntyHttpRecv, Routed, LocInv, HttpInv, OwnAnswer
  <2>2. CASE ScanTimeout \/ SyncTimeout \/ GpsTimeout \/ NMEACallback \/ HttpStep
    BY <2>2
    DEF ScanTimeout, SyncTimeout, GpsTimeout, NMEACallback, ntyGPSParseGPGGA,
        ntyGPSParseGPRMC, ntyParseNMEARMC, ntyParseNMEAGGA,
        HttpStep, locVars
  <2>3. CASE ScanSucceeds \/ ScanFails
    BY <2>3 DEF ScanSucceeds, ScanFails, WlanEnd
  <2> QED
    BY <2>1, <2>2, <2>3 DEF Next
<1> QED
  BY <1>1, LocAlways, PTL DEF Spec, AnswersLast

-----------------------------------------------------------------------------
(* Why a failed scan asks for no lookup: the list it is judged by has been      *)
(* looked up, or was not worth it.                                              *)

LooksUp(list, sent) == Status(list, sent) = 5

Known == ~LooksUp(wifi_list, wifi_snd_list)

\* The lists of scans, and the one there was before the first, have lengths.
LEMMA ListLengths == \A list \in Lists : Len(list) \in Nat
<1>1. \A aps \in Scans : Len(WifiList(aps)) \in Nat
  BY LocationAssumption, ListLength
<1>2. Len(<<>>) \in Nat
  OBVIOUS
<1> QED  BY <1>1, <1>2 DEF Lists

\* What a scan leads to leaves its list known.
LEMMA WlanEndKnown ==
  ASSUME NEW list \in Lists, WlanEnd(list), wifi_list' = list
  PROVE  Known'
<1>1. CASE LooksUp(list, wifi_snd_list)
  <2>1. wifi_snd_list' = list
    BY <1>1 DEF WlanEnd, LooksUp
  <2> QED
    BY <2>1, SameWithItself, ListLengths DEF Known, LooksUp
<1>2. CASE ~LooksUp(list, wifi_snd_list)
  <2>1. UNCHANGED wifi_snd_list
    BY <1>2 DEF WlanEnd, LooksUp
  <2> QED
    BY <1>2, <2>1 DEF Known
<1> QED
  BY <1>1, <1>2

\* A failed scan starts no lookup.
THEOREM NoStaleLookupAlways == Spec => NoStaleLookup
<1>1. Init => Known
  BY DEF Init, Known, LooksUp, Status
<1>2. LocInv /\ Known /\ [Next]_vars => Known'
  <2> SUFFICES ASSUME LocInv, Known, [Next]_vars PROVE Known'
    OBVIOUS
  <2>1. CASE ScanSucceeds
    BY <2>1, WlanEndKnown DEF ScanSucceeds, Lists
  <2>2. CASE ScanFails
    BY <2>2, WlanEndKnown DEF ScanFails, LocInv, LocTyped
  <2>3. CASE UNCHANGED <<wifi_list, wifi_snd_list>>
    BY <2>3 DEF Known
  <2>4. ASSUME ScanTimeout \/ SyncTimeout \/ GpsTimeout \/ NMEACallback \/ NotifyRead \/ HttpStep
               \/ UNCHANGED vars
        PROVE  UNCHANGED <<wifi_list, wifi_snd_list>>
    BY <2>4
    DEF ScanTimeout, SyncTimeout, GpsTimeout, NMEACallback, NotifyRead, HttpStep, wlanVars, vars
  <2> QED
    BY <2>1, <2>2, <2>3, <2>4 DEF Next
<1>3. Known /\ [Next]_vars => [ScanFails => UNCHANGED httpVars]_vars
  BY DEF Known, LooksUp, ScanFails, WlanEnd
<1> QED
  BY <1>1, <1>2, <1>3, LocAlways, PTL DEF Spec, NoStaleLookup
=============================================================================
