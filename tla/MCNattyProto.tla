---------------------------- MODULE MCNattyProto ----------------------------
(* A small instance of NattyProto for TLC. *)
EXTENDS NattyProto

CONSTANT MaxArrived

\* With one call of ntySetDevId two of the three threads send what overlaps: up to
\* MaxArrived packets either way while heartbeats are sent, or two packets while
\* the heartbeat thread sleeps.  With two calls, the first pass of each thread up
\* to its loop, while the application sends its logins.
Bounds ==
  LET packets == Cardinality(arrived \cup inbox) + sends
      asleep == \A t \in Beats : pc[t] \in {"none", "check", "set", "sleep"}
  IN IF calls <= 1 THEN packets <= MaxArrived \/ (packets <= 2 /\ asleep)
     ELSE packets = 0 /\ \A t \in Beats : pc[t] \in {"none", "check", "set", "sleep", "send", "done"}
=============================================================================
