------------------------------ MODULE NattyGPS ------------------------------
(***************************************************************************)
(* The GPS schedule of NattyGPS.c: one record of its static variables and   *)
(* its two timers, and the functions that change it.                        *)
(***************************************************************************)
EXTENDS Integers

CONSTANTS
  SyncMax,     \* seconds of listening before a pause, 6 * 60
  SuspendMax   \* seconds of the pause, 60 * 60

ASSUME GpsAssumption == SyncMax \in Nat /\ SuspendMax \in Nat

SyncStatus == {"IDLE", "LOCATIONING", "SUSPEND"}

Gps == [enabled : BOOLEAN,             \* g_gpsSyncEnableFlag
        status : SyncStatus,           \* g_gpsSyncStatus
        syncCount : 0..SyncMax,        \* g_gpsSyncCount
        suspendCount : 0..SuspendMax,  \* g_gpsSuspendCount
        open : BOOLEAN,                \* mmi_fm_gps_open_flag
        syncTimer : BOOLEAN,           \* NATTY_GPSSYNC_TIMER
        timeout : BOOLEAN]             \* NATTY_GPSTIMEOUT_TIMER

GpsOff == [enabled |-> FALSE, status |-> "IDLE", syncCount |-> 0, suspendCount |-> 0,
           open |-> FALSE, syncTimer |-> FALSE, timeout |-> FALSE]

\* Mistake: the timeout is not started.
BugGPSOpen(g) == [g EXCEPT !.open = TRUE]

ntyGPSOpen(g) == IF g.open THEN g ELSE [g EXCEPT !.open = TRUE, !.timeout = TRUE]

\* Mistake: the schedule stays enabled.
BugGPSClose(g) == [g EXCEPT !.open = FALSE]

ntyGPSClose(g) == IF g.open THEN [g EXCEPT !.open = FALSE, !.enabled = FALSE] ELSE g

ntyGpsScanTimeout(g) == [ntyGPSClose(g) EXCEPT !.timeout = FALSE]

ntyGpsSyncEnable(g) ==
  IF g.enabled THEN g
  ELSE [g EXCEPT !.enabled = TRUE, !.status = "IDLE", !.syncTimer = TRUE]

\* Mistake: one second more.
BugLocationing(g) ==
  IF g.syncCount > SyncMax
  THEN [ntyGPSClose(g) EXCEPT !.syncCount = 0, !.suspendCount = 0, !.status = "SUSPEND"]
  ELSE [g EXCEPT !.syncCount = @ + 1]

Locationing(g) ==
  IF g.syncCount = SyncMax
  THEN [ntyGPSClose(g) EXCEPT !.syncCount = 0, !.suspendCount = 0, !.status = "SUSPEND"]
  ELSE [g EXCEPT !.syncCount = @ + 1]

Suspended(g) ==
  IF g.suspendCount = SuspendMax
  THEN [ntyGPSOpen(g) EXCEPT !.status = "LOCATIONING", !.suspendCount = 0]
  ELSE [g EXCEPT !.suspendCount = @ + 1]

\* The timer is started again whenever the schedule was enabled on entry.
ntyGpsSyncProc(g) ==
  LET idle == [g EXCEPT !.syncTimer = FALSE]
      next == CASE g.status = "IDLE" -> [ntyGPSOpen(idle) EXCEPT !.status = "LOCATIONING"]
                [] g.status = "LOCATIONING" -> Locationing(idle)
                [] g.status = "SUSPEND" -> Suspended(idle)
  IN  IF g.enabled THEN [next EXCEPT !.syncTimer = TRUE] ELSE idle
=============================================================================
