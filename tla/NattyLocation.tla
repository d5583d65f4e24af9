--------------------------- MODULE NattyLocation ---------------------------
(***************************************************************************)
(* Locating the watch: every five minutes a Wi-Fi scan, whose outcome asks  *)
(* the HTTP service, starts GPS or says that the watch has not moved        *)
(* (NattyLocation.c, NattyWlan.c, gps_timer_task_scan).  Composes WlanScan, *)
(* NattyGPS and NattyHttp.                                                  *)
(***************************************************************************)
EXTENDS WlanScan, NattyGPS, NattyHttp

CONSTANTS
  Scans,  \* what a scan may report
  Fix     \* the position of a GPS fix; a looked-up one is the list it stands for

ASSUME LocationAssumption ==
  /\ Fix # None /\ None # <<>>
  /\ \A aps \in Scans :
       /\ aps \in Seq(AccessPoint({aps[i].mac : i \in DOMAIN aps}, Int))
       /\ WifiList(aps) # None

VARIABLES
  u8CurLocLevel,  \* the source that is being asked
  u8LocType,      \* the source of the position
  position,       \* u8Lat and u8Lon, None when empty
  u8Altitude,     \* the altitude of a fix is known
  flg_wifi_init,  \* the Wi-Fi chip counts as on
  chip,           \* it is on: the platform has started it
  scanning,       \* the platform owes a scan's answer
  wifi_list,      \* its first wifi_ctr entries
  wifi_snd_list,  \* the list that was looked up last
  gps

locVars == <<u8CurLocLevel, u8LocType, position, u8Altitude>>
wlanVars == <<flg_wifi_init, chip, scanning, wifi_list, wifi_snd_list>>
vars == <<locVars, wlanVars, httpVars, gps>>

-----------------------------------------------------------------------------
\* With no position and no source asked yet the cells are asked first, to give
\* GPS a position to start from (LOCATION_EPO).
ntyStartGPS(type, level) ==
  IF type = "NULL" /\ level = "FREE" /\ position = None
  THEN u8CurLocLevel' = "EPO" /\ UNCHANGED gps
  ELSE u8CurLocLevel' = "GPS" /\ gps' = ntyGpsSyncEnable(gps)

\* The chip counts as on whatever wlan_init returns and whatever its callback is
\* told later, and as long as it counts as on its start is not repeated.
ntyWlanOpen ==
  IF flg_wifi_init THEN UNCHANGED <<flg_wifi_init, chip>>
  ELSE flg_wifi_init' = TRUE /\ chip' \in BOOLEAN

\* wlan_scan may be refused, for one because the chip was not started.
ntyWlanScan == scanning' \in {scanning, TRUE}

ntyTimerScanWifi == ntyWlanOpen /\ ntyWlanScan

ntyLocationWlanStart == u8CurLocLevel' = "CELL" /\ ntyTimerScanWifi

\* gps_timer_task_scan: NATTY_GPSSCAN_TIMER, which NattyEntry starts and which is
\* started again here.
ScanTimeout ==
  /\ ntyLocationWlanStart
  /\ UNCHANGED <<u8LocType, position, u8Altitude, wifi_list, wifi_snd_list, httpVars, gps>>

\* Mistake: the list that is looked up is not kept.
BugWlanEnd(list) ==
  LET status == Status(list, wifi_snd_list)
  IN  /\ UNCHANGED <<u8LocType, position, u8Altitude, wifi_snd_list>>
      /\ \/ status \in {0, 1} /\ ntyStartGPS(u8LocType, u8CurLocLevel) /\ UNCHANGED httpVars
         \/ status \in {2, 3, 4} /\ UNCHANGED <<u8CurLocLevel, gps, httpVars>>
         \/ status = 5 /\ ntyConnectServer(list) /\ UNCHANGED <<u8CurLocLevel, gps>>

\* ntyLocationWlanEnd.
WlanEnd(list) ==
  LET status == Status(list, wifi_snd_list)
  IN  /\ UNCHANGED <<u8LocType, position, u8Altitude>>
      /\ \/ /\ status \in {0, 1}
            /\ ntyStartGPS(u8LocType, u8CurLocLevel)
            /\ UNCHANGED <<httpVars, wifi_snd_list>>
         \/ /\ status \in {2, 3, 4}
            /\ UNCHANGED <<u8CurLocLevel, gps, httpVars, wifi_snd_list>>
         \/ /\ status = 5
            /\ wifi_snd_list' = list
            /\ ntyConnectServer(list)
            /\ UNCHANGED <<u8CurLocLevel, gps>>

\* Mistake: the chip stays on.
BugScanEnds == scanning /\ scanning' = FALSE /\ UNCHANGED <<flg_wifi_init, chip>>

\* Every scan callback ends with ntyWlanClose.
ScanEnds == scanning /\ scanning' = FALSE /\ flg_wifi_init' = FALSE /\ chip' = FALSE

\* ntyWifiScanCallback.
ScanSucceeds ==
  /\ ScanEnds
  /\ \E aps \in Scans : wifi_list' = WifiList(aps) /\ WlanEnd(WifiList(aps))

\* A failed scan is judged by the list of the one before.
ScanFails == ScanEnds /\ UNCHANGED wifi_list /\ WlanEnd(wifi_list)

-----------------------------------------------------------------------------
SyncTimeout ==
  /\ gps.syncTimer
  /\ gps' = ntyGpsSyncProc(gps)
  /\ UNCHANGED <<locVars, wlanVars, httpVars>>

GpsTimeout ==
  /\ gps.timeout
  /\ gps' = ntyGpsScanTimeout(gps)
  /\ UNCHANGED <<locVars, wlanVars, httpVars>>

\* A valid RMC sentence; one that is not valid changes nothing.
ntyParseNMEARMC ==
  /\ position' = Fix /\ u8LocType' = "GPS"
  /\ gps' = ntyGpsScanTimeout(gps)
  /\ UNCHANGED u8Altitude

\* A GGA sentence of a fix.
ntyParseNMEAGGA ==
  /\ u8Altitude' = TRUE
  /\ UNCHANGED <<position, u8LocType, gps>>

\* Both parsers hand on to the handlers that the request for GPS registered.
ntyGPSParseGPGGA == ntyParseNMEAGGA

ntyGPSParseGPRMC == ntyParseNMEARMC

\* ntyMMIFmGPSNMEACallback, which hears the receiver while it is open.
NMEACallback ==
  /\ gps.open
  /\ ntyGPSParseGPRMC \/ ntyGPSParseGPGGA
  /\ UNCHANGED <<u8CurLocLevel, wlanVars, httpVars>>

-----------------------------------------------------------------------------
\* ntyHttpResponse, also when nothing was read or no location is in it.
ntyHttpResponse ==
  /\ u8LocType' = IF u8CurLocLevel \in {"EPO", "CELL"} THEN "CELL" ELSE u8LocType
  /\ IF u8CurLocLevel = "EPO" THEN ntyStartGPS("CELL", "EPO")
     ELSE UNCHANGED <<u8CurLocLevel, gps>>

\* SOC_READ: the answer, read once, or a part of it in which nothing is found.
NotifyRead ==
  \E s \in Sockets :
    /\ Routed(s)
    /\ State(s) = "connected"
    /\ \/ ntyHttpRecv(s, TRUE) /\ position' = socket[s].asked
       \/ ntyHttpRecv(s, FALSE) /\ UNCHANGED position
    /\ ntyHttpResponse
    /\ UNCHANGED <<account, socketid, addr, dns, lastAsked, wlanVars, u8Altitude>>

HttpStep ==
  /\ \/ ntyGetHostByNameIndCallback
     \/ NotifyConnect
     \/ NotifyClose
     \/ AccountKnown
  /\ UNCHANGED <<locVars, wlanVars, gps>>

-----------------------------------------------------------------------------
Init ==
  /\ u8CurLocLevel = "FREE" /\ u8LocType = "NULL" /\ position = None /\ u8Altitude = FALSE
  /\ flg_wifi_init = FALSE /\ chip = FALSE /\ scanning = FALSE
  /\ wifi_list = <<>> /\ wifi_snd_list = <<>>
  /\ gps = GpsOff
  /\ HttpInit

Next ==
  \/ ScanTimeout \/ ScanSucceeds \/ ScanFails
  \/ SyncTimeout \/ GpsTimeout \/ NMEACallback
  \/ NotifyRead \/ HttpStep

Spec == Init /\ [][Next]_vars

\* Timers expire and an accepted scan is answered.  While the chip is on, of the
\* scans that are asked for every five minutes one is accepted; nothing is
\* assumed of a chip whose start has failed, nor that a start succeeds.
Fairness ==
  /\ WF_vars(SyncTimeout) /\ WF_vars(GpsTimeout)
  /\ WF_vars(ScanTimeout /\ chip /\ scanning')
  /\ WF_vars(ScanSucceeds \/ ScanFails)

FairSpec == Spec /\ Fairness

-----------------------------------------------------------------------------
Lists == {WifiList(aps) : aps \in Scans} \cup {<<>>}

TypeOK ==
  /\ u8CurLocLevel \in {"FREE", "GPS", "CELL", "EPO"}
  /\ u8LocType \in {"NULL", "GPS", "CELL"}
  /\ position \in Lists \cup {None, Fix} /\ u8Altitude \in BOOLEAN
  /\ flg_wifi_init \in BOOLEAN /\ chip \in BOOLEAN /\ scanning \in BOOLEAN
  /\ wifi_list \in Lists /\ wifi_snd_list \in Lists
  /\ gps \in Gps
  /\ account \in BOOLEAN /\ addr \in BOOLEAN /\ dns \in BOOLEAN
  /\ socketid \in Sockets \cup {-1}
  /\ buffer \in Lists \cup {None} /\ lastAsked \in Lists \cup {None}
  /\ socket \in [Sockets -> [state : SocketStates, asked : Lists \cup {None}]]

\* While GPS listens its timeout runs, and while the schedule is enabled its
\* second timer runs and GPS either listens or is about to: a request for GPS is
\* never ignored (ntyGpsSyncEnable) while nothing is going on.
GpsScheduled ==
  /\ gps.open => gps.timeout
  /\ gps.enabled => gps.syncTimer /\ (gps.status = "IDLE" \/ gps.open)

\* GPS, the largest consumer, is always switched off again.
GpsStops == gps.enabled ~> ~gps.enabled

\* The Wi-Fi chip, once it is really on, is switched off again: the scan whose
\* callback does that is asked for until it is accepted.  (A chip whose start has
\* failed counts as on for ever if every scan is refused then.)
WifiStops == chip ~> ~chip

\* A failed scan, which is judged by an old list, asks for no lookup: a list is
\* looked up once, when it is new.
NoStaleLookup == [][ScanFails => UNCHANGED httpVars]_vars

\* The one buffer serves requests and answers.  A request that still waits for
\* its connection is not overwritten by an answer to an earlier one.
RequestIntact ==
  socketid \in Sockets /\ State(socketid) \in {"open", "connecting", "hopeless"} =>
    buffer # None

\* What is taken from an answer is the answer to the last request that was sent,
\* never to an earlier one whose socket is still there.
AnswersLast ==
  [][position' # position /\ position' # Fix => position' = lastAsked]_vars

\* The comment of the branch that asks the cells (NattyLocation.c 159) says it
\* is taken for the first GPS request.
FirstGpsAssisted ==
  [][~gps.enabled /\ gps'.enabled => position # None \/ u8LocType # "NULL"]_vars
=============================================================================
