----------------------------- MODULE FriendsMap -----------------------------
(***************************************************************************)
(* What the friends tree promises its users: a map from ids to values, in   *)
(* which an id stands once and which one operation at a time changes at one *)
(* id.  The operations are relations between the map before and after.      *)
(***************************************************************************)
CONSTANT Pairs  \* the ids and the values its users enter

VARIABLE map

Insert(old, new) ==
  \E p \in Pairs :
    /\ p[1] \notin DOMAIN old
    /\ new = [k \in DOMAIN old \cup {p[1]} |-> IF k = p[1] THEN p[2] ELSE old[k]]

Update(old, new) ==
  \E p \in Pairs : p[1] \in DOMAIN old /\ new = [old EXCEPT ![p[1]] = p[2]]

Remove(old, new) ==
  \E id \in DOMAIN old : new = [k \in DOMAIN old \ {id} |-> old[k]]

Operation(old, new) == Insert(old, new) \/ Update(old, new) \/ Remove(old, new)

Init == map = [id \in {} |-> id]

Next == Operation(map, map')

Spec == Init /\ [][Next]_map
=============================================================================
