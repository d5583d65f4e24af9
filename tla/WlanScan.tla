----------------------------- MODULE WlanScan -----------------------------
(***************************************************************************)
(* What ntyWifiScanCallback (NattyWlan.c) makes of a scan: it orders the    *)
(* access points, keeps the usable ones, and compares them with the list of *)
(* the last lookup.  Signals are in dBm.                                    *)
(***************************************************************************)
EXTENDS Integers, Sequences, SequencesExt

CONSTANT WIFI_SCAN_NUMBER  \* the list's length, 7

ASSUME ScanAssumption == WIFI_SCAN_NUMBER \in Nat \ {0}

\* An access point as the platform reports it; named when its ssid is not empty.
AccessPoint(Macs, Signals) == [mac : Macs, named : BOOLEAN, rssi : Signals]

Marked == -120  \* the signal of an access point that is not to be used

\* Mistake: the weaker one goes first.
BugVisit(aps, i, j) ==
  IF aps[i].mac = aps[j].mac \/ ~aps[j].named THEN [aps EXCEPT ![j].rssi = Marked]
  ELSE IF aps[i].rssi > aps[j].rssi THEN [aps EXCEPT ![i] = aps[j], ![j] = aps[i]]
  ELSE aps

\* The body of the sorting loops.
Visit(aps, i, j) ==
  IF aps[i].mac = aps[j].mac \/ ~aps[j].named THEN [aps EXCEPT ![j].rssi = Marked]
  ELSE IF aps[i].rssi < aps[j].rssi THEN [aps EXCEPT ![i] = aps[j], ![j] = aps[i]]
  ELSE aps

\* The inner loop: what is left when place i was compared with every later one.
Pass(aps, i) ==
  LET after[j \in 0..Len(aps)] ==
        IF j <= i THEN aps ELSE Visit(after[j - 1], i, j)
  IN  after[Len(aps)]

\* The outer loop.
Order(aps) ==
  LET after[i \in 0..Len(aps)] ==
        IF i = 0 THEN aps ELSE Pass(after[i - 1], i)
  IN  after[Len(aps)]

Usable(ap) == ap.rssi > -90 /\ ap.rssi < -10

\* Mistake: the last usable one is not reached.
BugTaken(ordered) ==
  LET from(i) == {j \in i..(Len(ordered) - 1) : Usable(ordered[j])}
      filled == {i \in 1..Len(ordered) : i <= WIFI_SCAN_NUMBER /\ from(i) # {}}
      first(i) == CHOOSE j \in from(i) : \A k \in from(i) : j <= k
  IN  [i \in filled |-> ordered[first(i)]]

\* The i-th entry is the first usable access point from place i on; where there
\* is none the list ends.
Taken(ordered) ==
  LET from(i) == {j \in i..Len(ordered) : Usable(ordered[j])}
      filled == {i \in 1..Len(ordered) : i <= WIFI_SCAN_NUMBER /\ from(i) # {}}
      first(i) == CHOOSE j \in from(i) : \A k \in from(i) : j <= k
  IN  [i \in filled |-> ordered[first(i)]]

WifiList(aps) == Taken(Order(aps))

-----------------------------------------------------------------------------
(* The status: 0 and 1 ask for GPS, 2 to 4 mean the watch has not moved, 5    *)
(* asks for a lookup.                                                        *)

Heard(ap) == ap.rssi >= -110 /\ ap.rssi < -10

\* The pairs of entries of one access point in both lists.
Same(list, sent) ==
  {p \in (1..Len(list)) \X (1..Len(sent)) :
     list[p[1]].mac = sent[p[2]].mac /\ Heard(list[p[1]])}

Abs(d) == IF d < 0 THEN -d ELSE d

Drift(list, sent) ==
  LET differ(p, sum) == sum + Abs(list[p[1]].rssi - sent[p[2]].rssi)
  IN  FoldRight(differ, SetToSeq(Same(list, sent)), 0)

\* Mistake: of the same place it is asked whether enough is heard.
BugStatus(list, sent) ==
  LET same == Cardinality(Same(list, sent))
      valid == Cardinality({i \in 1..Len(list) : Heard(list[i])})
  IN  CASE Len(list) < 2 -> 0
        [] Len(list) >= 2 /\ valid >= 3 -> 5
        [] Len(list) >= 2 /\ valid < 3 -> IF same > 1 THEN 1 ELSE 0

Status(list, sent) ==
  LET same == Cardinality(Same(list, sent))
      valid == Cardinality({i \in 1..Len(list) : Heard(list[i])})
  IN  IF Len(list) < 2 THEN 0
      ELSE IF same > 4 THEN 4
      ELSE IF same >= 3 THEN IF Drift(list, sent) < 6 * same THEN 3 ELSE 2
      ELSE IF valid >= 3 THEN 5
      ELSE IF same > 1 THEN 1 ELSE 0
=============================================================================
