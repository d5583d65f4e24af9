-------------------------- MODULE MCNattyLocation --------------------------
(* Small instances of NattyLocation for TLC. *)
EXTENDS NattyLocation

Ap(mac, rssi) == [mac |-> mac, named |-> TRUE, rssi |-> rssi]

\* Two places three of whose access points are new, and one without any.
Home == <<Ap(1, -50), Ap(2, -55), Ap(3, -60)>>
Away == <<Ap(3, -50), Ap(4, -50), Ap(5, -50)>>

Places == {Home, Away, <<>>}

\* A chip that did not start is followed only where Wi-Fi is the question; no other
\* action reads it.
ChipStarts == chip = flg_wifi_init
=============================================================================
