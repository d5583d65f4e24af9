----------------------------- MODULE MCWlanScan -----------------------------
(***************************************************************************)
(* WlanScan on every scan of a bounded length, each grown by one access     *)
(* point at a time.                                                         *)
(***************************************************************************)
EXTENDS WlanScan

CONSTANTS Macs, Signals, Longest  \* the access points heard, and how many

\* None is weaker than the value that stands for "not to be used".
ASSUME HeardAssumption == Signals \subseteq Int /\ \A s \in Signals : s >= Marked

\* One too strong, two usable, one too weak.
SomeSignals == {-5, -50, -60, -95}

VARIABLE scan

Init == scan = <<>>

Hear ==
  /\ Len(scan) < Longest
  /\ \E ap \in AccessPoint(Macs, Signals) : scan' = Append(scan, ap)

\* Every scan is a case of its own: none leads to a deadlock.
Again == UNCHANGED scan

Next == Hear \/ Again

Spec == Init /\ [][Next]_scan

-----------------------------------------------------------------------------
Strongest(aps) == \A i \in 2..Len(aps) : aps[i - 1].rssi >= aps[i].rssi

\* The loops sort although they change signals on the way: the list the watch
\* looks up starts with the strongest access point.
StrongestFirst == Strongest(Order(scan)) /\ Strongest(WifiList(scan))

\* No usable access point is missed and nothing else is kept, where each is
\* heard once and has a name.
UsableKept ==
  (/\ Len(scan) <= WIFI_SCAN_NUMBER
   /\ \A i, j \in 1..Len(scan) : scan[i].named /\ (i # j => scan[i].mac # scan[j].mac))
  => ToSet(WifiList(scan)) = {ap \in ToSet(scan) : Usable(ap)}

\* A list that was looked up is not looked up again where nothing has changed.
SameNotSent == LET list == WifiList(scan) IN Status(list, list) # 5

\* The comment of the loops (NattyWlan.c 144): of the access points with one MAC all
\* but one have the signal -120.
SameMacMarked ==
  LET aps == Order(scan)
  IN  \A i, j \in 1..Len(aps) :
        i # j /\ aps[i].mac = aps[j].mac => Marked \in {aps[i].rssi, aps[j].rssi}
=============================================================================
