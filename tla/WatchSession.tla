---------------------------- MODULE WatchSession ----------------------------
(***************************************************************************)
(* What the client core promises about its session with the server, with no *)
(* timers, counters or datagrams: a watch that is on first finds a socket,  *)
(* then registers, then takes the time from the server, and from that       *)
(* moment beats until it is switched off.  It may be sent back to taking    *)
(* the time (a login answer that comes twice), never further back, and it   *)
(* is never online without having registered since it was switched on.      *)
(***************************************************************************)
VARIABLES phase, beating

sessionVars == <<phase, beating>>

Phases == {"off", "searching", "registering", "syncing", "online"}

Init == phase = "off" /\ beating = FALSE

SwitchOn ==
  /\ phase = "off"
  /\ phase' \in {"searching", "registering"}
  /\ UNCHANGED beating

Connect ==
  /\ phase = "searching"
  /\ phase' = "registering"
  /\ UNCHANGED beating

Registered ==
  /\ phase \in {"registering", "online"}
  /\ phase' = "syncing"
  /\ UNCHANGED beating

Synchronised ==
  /\ phase \in {"syncing", "online"}
  /\ phase' = "online"
  /\ beating' = TRUE

SwitchOff ==
  /\ phase # "off"
  /\ phase' = "off"
  /\ beating' = FALSE

Next == SwitchOn \/ Connect \/ Registered \/ Synchronised \/ SwitchOff

Spec == Init /\ [][Next]_sessionVars
=============================================================================
