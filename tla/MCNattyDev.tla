----------------------------- MODULE MCNattyDev -----------------------------
(* Small instances of NattyDev for TLC. *)
EXTENDS NattyDev

CONSTANTS a1, none, d0, full, rest

\* A 64-bit word is scaled down to 16 values and a C int to 4: ids 1 and 5
\* differ in their upper half only, and 6 has the sign bit of the int set.
Narrow == {1}
Wide == {1, 5}
High == {6}

Both == {1, 6}

\* At most two packets are taken between two boots, and a restart is followed
\* only where at most one message is still queued.
TwoPackets ==
  /\ Cardinality(received) <= 2
  /\ power = "restarting" => Len(queue) <= 1
  /\ u8LedDisplayMode = 1 /\ ~hbTimer => received = {}
  /\ u8LedDisplayMode < 2

OneRoster == {<<[id |-> 1, addr |-> a1]>>}

NoRoster == {<<>>}

\* A number that fits its place and one of more than 20 characters.
Short == <<d0>>
Long == <<full, rest>>

Get(what, n) == [verb |-> "GET", node |-> what, idx |-> 0, number |-> Short, bytes |-> n]

Set(what, i, number, n) ==
  [verb |-> "SET", node |-> what, idx |-> i, number |-> number, bytes |-> n]

PowerQuery == {Get("Power", 9)}

\* The second question has spaces behind it and is cut in them (45 of its 300
\* bytes are left), of the last one the id is cut.
Commands ==
  {Get("Power", 9), Get("Signal", 300), Set("FamilyNumber", 0, Long, 43),
   Get("Power", 249)}

\* What is left of a question is still one when its ten letters are there.
FirstOf(c, k) ==
  IF k >= c.bytes THEN c
  ELSE IF c.verb = "GET" /\ k >= 10 THEN [c EXCEPT !.bytes = k]
  ELSE [c EXCEPT !.verb = "cut", !.bytes = k]

Strays == {Set("Fallen", 0, Short, 12)}

TheNumbers == {Short, Long}

Defaults == [i \in 0..1 |-> d0]
=============================================================================
