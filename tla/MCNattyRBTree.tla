--------------------------- MODULE MCNattyRBTree ---------------------------
(* Small instances of NattyRBTree for TLC. *)
EXTENDS NattyRBTree

CONSTANTS Size, Gaps

\* Every id has a value of its own, the first one two.
Entries == {<<k, k>> : k \in 1..Size} \cup {<<1, 0>>}

Heap == 101..(100 + Size)

\* Which block holds which key makes no difference to any operation, so states
\* that differ in this only are one: every pointer is shown as the key it leads
\* to, that of the node to be released as 0.  The sentinel's parent counts only
\* while a deletion works on the sentinel.
KeyAt(x) == IF x \in Live THEN T.key[x] ELSE IF x = nil THEN -1 ELSE 0

ByKey ==
  <<KeyAt(T.root), T.color[nil],
    IF pc = "deleteFixup" /\ cur = nil THEN KeyAt(Parent(T, nil)) ELSE 0,
    {<<KeyAt(x), T.value[x], T.color[x], KeyAt(Child(T, x, "left")),
       KeyAt(Child(T, x, "right")), KeyAt(Parent(T, x))>> : x \in Live},
    Cardinality(alive), count, pc, KeyAt(cur), doomed = nil>>

\* Only the order of the keys matters, so few trees are lost where at most Gaps
\* keys below the greatest one are missing from the tree.
FewGaps ==
  LET live == {T.key[x] : x \in Live}
  IN  Cardinality({k \in 1..Size : k \notin live /\ \E j \in live : k < j}) <= Gaps
=============================================================================
