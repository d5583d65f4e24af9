------------------------- MODULE NattyRBTree_proofs -------------------------
(***************************************************************************)
(* Proofs about the friends tree for every set of blocks, ids and values.   *)
(* WellLinked, SearchOrder and RedBlack are not inductive: they read the    *)
(* tree from its root down.  IInv says the same with two witnesses, d for   *)
(* what hangs below each node and h for the black nodes below it, and says  *)
(* for each fixup loop which node or link is still to be put right.  Each   *)
(* action keeps it by the lemmas of NattyRBTree_lemmas; then the properties *)
(* follow from it, and so do that the tree implements a map and that each   *)
(* reading of the whole tree is complete.                                   *)
(***************************************************************************)
EXTENDS NattyRBTree_lemmas, SequenceTheorems

\* What the steps rely on besides the tree itself.
Kept ==
  /\ alive \subseteq Nodes /\ IsFiniteSet(alive)
  /\ pc \in {"idle", "insertFixup", "release", "deleteFixup"}
  /\ IF pc \in {"release", "deleteFixup"}
     THEN doomed \in alive /\ \A s \in Sides : Child(T, doomed, s) \in Live \cup {nil}
     ELSE doomed = nil
  /\ \A x \in Live : \E p \in Pairs : T.key[x] = p[1]
  /\ \A x \in Live : \E p \in Pairs : T.value[x] = p[2]

\* Which node or link a fixup still has to put right.
Work(d, h) ==
  /\ pc \in {"idle", "release"} => Good(T, Live, d, h, {})
  /\ pc = "insertFixup" => cur \in Live /\ Red(T, cur) /\ Good(T, Live, d, h, {cur})
  /\ pc = "deleteFixup" =>
       /\ Sound(T, Live, d, h, Father, SideOf(T, cur),
                {cur} \cup {x \in Live : x # T.root /\ Parent(T, x) = cur})
       /\ cur \in Live \cup {nil}
       /\ cur = T.root => Father = nil
       /\ cur # T.root => Father \in Live /\ Child(T, Father, SideOf(T, cur)) = cur

IInv == Kept /\ \E d, h : Work(d, h)

-----------------------------------------------------------------------------

\* A tree in which some nodes may break the rule for red nodes is one in which more
\* of them may.
LEMMA SoundForMore ==
  ASSUME NEW t, NEW S, NEW d, NEW h, NEW q, NEW qs, NEW E, NEW F, E \subseteq F,
         Sound(t, S, d, h, q, qs, E)
  PROVE  Sound(t, S, d, h, q, qs, F)
BY DEF Sound, NoRedPair

\* Which side the link of no node is on makes no difference.
LEMMA NoLinkDoubled ==
  ASSUME NEW t, NEW S, NEW d, NEW h, NEW qs, NEW rs, NEW E, Sound(t, S, d, h, nil, qs, E)
  PROVE  Sound(t, S, d, h, nil, rs, E)
<1>1. nil \notin S /\ Balanced(t, S, h, nil, qs)
  BY NodesAreBlocks DEF Sound
<1>2. \A x \in S, s \in Sides : Twice(nil, qs, x, s) = 0 /\ Twice(nil, rs, x, s) = 0
  BY <1>1 DEF Twice
<1>3. Balanced(t, S, h, nil, rs)
  BY <1>1, <1>2 DEF Balanced, Even
<1> QED  BY <1>3 DEF Sound

\* The empty tree of ntyRBTreeOperaCtor satisfies the invariant.
LEMMA InitKeeps == Init => IInv
<1> SUFFICES ASSUME Init PROVE IInv
  OBVIOUS
<1> DEFINE d == [x \in {nil} |-> {}]
           h == [x \in {nil} |-> 0]
<1>1. Live = {} /\ nil \in Blocks
  BY DEF Init, Live, Blocks
<1>2. IsTree(T) /\ T.root = nil /\ ~Red(T, nil)
  <2>1. /\ T.root = nil /\ T.key \in [Blocks -> Nat] /\ T.value \in [Blocks -> Values]
        /\ T.child \in [Blocks \X Sides -> Pointers] /\ T.parent \in [Blocks -> Pointers]
        /\ T.color = [x \in Blocks |-> BLACK]
        /\ T = [root |-> T.root, key |-> T.key, value |-> T.value, child |-> T.child,
                parent |-> T.parent, color |-> T.color]
    BY DEF Init, Values, Pointers
  <2>2. RED # BLACK
    BY DEF RED, BLACK
  <2> QED  BY <1>1, <2>1, <2>2 DEF IsTree, Red
<1>3. Shape(T, {}, d)
  BY <1>2 DEF Shape, Linked, Spans, Ordered
<1>4. Good(T, {}, d, h, {})
  BY <1>2, <1>3, FS_EmptySet DEF Good, Sound, Balanced, NoRedPair
<1>5. Kept
  BY <1>1, FS_EmptySet DEF Init, Kept
<1>6. Work(d, h)
  <2>1. pc = "idle"
    BY DEF Init
  <2> QED  BY <1>1, <1>4, <2>1 DEF Work
<1> HIDE DEF d, h
<1> QED  BY <1>5, <1>6 DEF IInv

\* The blocks outside a fixup are those that hang in the tree.
LEMMA LiveFacts ==
  ASSUME Kept
  PROVE  /\ nil \notin alive /\ Live \subseteq alive /\ IsFiniteSet(Live) /\ Hanging(T, Live)
         /\ pc \in {"idle", "insertFixup"} => Live = alive /\ doomed = nil
<1>1. nil \notin alive
  BY TreeAssumption DEF Kept
<1>2. pc \in {"idle", "insertFixup"} => Live = alive /\ doomed = nil
  BY <1>1 DEF Kept, Live
<1>3. IsFiniteSet(Live)
  BY FS_RemoveElement DEF Kept, Live
<1>4. \A x \in alive \ Live, s \in Sides : Child(T, x, s) \in Live \cup {nil}
  BY <1>2 DEF Kept, Live
<1> QED  BY <1>1, <1>2, <1>3, <1>4 DEF Hanging, Live

\* A step of a fixup that touches nothing else keeps what it relies on.
LEMMA KeptSame ==
  ASSUME Kept, Untouched(T', T, Live), UNCHANGED <<alive, doomed, pc>>
  PROVE  Kept' /\ Live' = Live
<1>1. Live' = Live
  BY DEF Live
<1>2. T'.key = T.key /\ T'.value = T.value
  BY DEF Untouched, SameEntries
<1>3. doomed \in alive => \A s \in Sides : Child(T', doomed, s) = Child(T, doomed, s)
  BY DEF Untouched, Live, Kept, Blocks
<1> QED  BY <1>1, <1>2, <1>3 DEF Kept
\* The same for an insertion, which leaves no block outside the tree.
LEMMA KeptInserting ==
  ASSUME Kept, SameEntries(T', T), UNCHANGED <<alive, doomed>>,
         pc = "insertFixup", pc' \in {"insertFixup", "idle"}
  PROVE  Kept' /\ Live' = Live
<1>1. Live' = Live
  BY DEF Live
<1>2. T'.key = T.key /\ T'.value = T.value
  BY DEF SameEntries
<1> QED  BY <1>1, <1>2 DEF Kept

-----------------------------------------------------------------------------
(* The steps of an insertion. *)

\* The last rotation of an insertion: the father f comes up and g is no longer
\* above it.
LEMMA OuterLifts ==
  ASSUME NEW t, NEW S, NEW d, Shape(t, S, d), IsFiniteSet(S), NEW g \in S, NEW side \in Sides,
         NEW f \in S, f = Child(t, g, side)
  PROVE  /\ Above(S, RotatedBelow(t, d, g, Other(side)), f) = Above(S, d, f) \ {g}
         /\ g \in Above(S, d, f) /\ g # f
<1>1. Other(side) \in Sides /\ Other(Other(side)) = side
  BY OtherSide
<1>2. Above(S, RotatedBelow(t, d, g, Other(side)), f) = Above(S, d, f) \ {g}
  BY <1>1, AboveRotated
<1>3. g # f
  BY SidesDiffer
<1>4. f \in d[g]
  BY BelowFacts
<1> QED  BY <1>2, <1>3, <1>4 DEF Above

\* A node with fewer nodes above its parent stands on a lower level.
LEMMA LevelFalls ==
  ASSUME NEW t, NEW S, NEW e, NEW z, NEW A, IsFiniteSet(A), NEW f \in A,
         Cardinality(Above(S, e, Parent(t, z))) < Cardinality(A)
  PROVE  LevelOf(t, S, e, z) < Cardinality(A)
<1>1. Cardinality({}) = 0 /\ Cardinality({}) < Cardinality(A)
  BY FewerMembers, FS_EmptySet
<1> QED  BY <1>1 DEF LevelOf

\* Both rotations: the node z comes up above its father and its grandfather.
LEMMA BothLift ==
  ASSUME NEW A, IsFiniteSet(A), NEW f \in A, NEW g \in A, f # g, NEW z,
         NEW B, B = (({z} \cup A) \ {f}) \ {g}
  PROVE  Cardinality(B) < Cardinality(A)
<1> DEFINE C == (A \ {f}) \ {g}
<1>1. IsFiniteSet(A \ {f}) /\ IsFiniteSet(C) /\ g \in A \ {f}
  BY FS_Subset
<1>2. /\ Cardinality(C) < Cardinality(A \ {f}) /\ Cardinality(A \ {f}) < Cardinality(A)
      /\ Cardinality(C) \in Nat /\ Cardinality(A \ {f}) \in Nat /\ Cardinality(A) \in Nat
  BY <1>1, FewerMembers
<1>3. B \subseteq C \cup {z}
  OBVIOUS
<1>4. IsFiniteSet(C \cup {z}) /\ Cardinality(C \cup {z}) \in {Cardinality(C), Cardinality(C) + 1}
  BY <1>1, FS_AddElement
<1> HIDE DEF C
<1>5. Cardinality(B) <= Cardinality(C \cup {z}) /\ Cardinality(B) \in Nat
  BY <1>3, <1>4, FS_Subset, FS_CardinalityType
<1> QED  BY <1>2, <1>4, <1>5

\* A recolouring of ntyRBTreeInsertFixup keeps the invariant, the entries and what
\* hangs below each node.
LEMMA InsertRecolourKeeps ==
  ASSUME IInv, InsertRecolour
  PROVE  /\ IInv' /\ SameEntries(T', T) /\ Live' = Live
         /\ cur' = Grandfather /\ cur' \in Live /\ \E d : Shape(T, Live, d) /\ Shape(T', Live, d)
<1>1. PICK d, h : Work(d, h)
  BY DEF IInv
<1>2. Kept /\ cur \in Live /\ Red(T, cur) /\ Good(T, Live, d, h, {cur}) /\ pc = "insertFixup"
      /\ Red(T, Father) /\ Red(T, Uncle)
  BY <1>1 DEF IInv, InsertRecolour, ParentRed, Work, Father
<1> DEFINE f == Father
           g == Grandfather
           w == Uncle
<1>3. f = Parent(T, cur) /\ g = Parent(T, f) /\ w = Child(T, g, Other(SideOf(T, f)))
      /\ T' = Paint(Paint(Paint(T, f, BLACK), w, BLACK), g, RED)
      /\ cur' = g /\ UNCHANGED <<alive, doomed, pc>>
  BY DEF InsertRecolour, Father, Grandfather, Uncle
<1> HIDE DEF f, g, w
<1>4. Red(T, f) /\ Red(T, w)
  BY <1>2 DEF f, w
<1>5. g \in Live /\ Red(T', g) /\ SameEntries(T', T) /\ \E h2 : Good(T', Live, d, h2, {g})
  <2>1. Climbed(T', T, Live, d, g)
    BY <1>2, <1>3, <1>4, RecolourKeeps
  <2> QED  BY <2>1 DEF Climbed
<1>6. PICK h2 : Good(T', Live, d, h2, {g})
  BY <1>5
<1>7. Kept' /\ Live' = Live
  BY <1>2, <1>3, <1>5, KeptInserting
<1>8. Work(d, h2)'
  BY <1>2, <1>3, <1>5, <1>6, <1>7 DEF Work
<1>9. Shape(T, Live, d) /\ Shape(T', Live, d)
  BY <1>2, <1>6 DEF Good, Sound
<1> QED  BY <1>3, <1>5, <1>7, <1>8, <1>9 DEF IInv, g

\* The end of ntyRBTreeInsertFixup keeps the invariant and the entries.
LEMMA InsertDoneKeeps ==
  ASSUME IInv, InsertDone
  PROVE  IInv' /\ SameEntries(T', T) /\ Live' = Live
<1>1. PICK d, h : Work(d, h)
  BY DEF IInv
<1>2. /\ Kept /\ cur \in Live /\ Red(T, cur) /\ Good(T, Live, d, h, {cur}) /\ pc = "insertFixup"
      /\ ~Red(T, Parent(T, cur)) /\ T' = Paint(T, T.root, BLACK) /\ pc' = "idle"
      /\ UNCHANGED <<alive, doomed>>
  BY <1>1 DEF IInv, InsertDone, Work
<1>3. Shape(T, Live, d) /\ T.root \in Live \cup {nil} /\ nil \notin Live /\ NoRedPair(T, Live, {cur})
  BY <1>2, NodesAreBlocks DEF Good, Sound, Shape, Linked
<1> DEFINE E == {T.root} \cup {y \in Live : y # T.root /\ Parent(T, y) = T.root}
<1>4. NoRedPair(T, Live, E)
  BY <1>2, <1>3 DEF NoRedPair
<1>5. Sound(T, Live, d, h, nil, "left", E)
  BY <1>2, <1>4 DEF Good, Sound
<1>6. SameEntries(T', T) /\ \E h2 : Good(T', Live, d, h2, {})
  BY <1>2, <1>3, <1>5, BlackenKeeps
<1>7. PICK h2 : Good(T', Live, d, h2, {})
  BY <1>6
<1>8. Kept' /\ Live' = Live
  BY <1>2, <1>6, KeptInserting
<1>9. Work(d, h2)'
  BY <1>2, <1>7, <1>8 DEF Work
<1> QED  BY <1>6, <1>8, <1>9 DEF IInv

\* The node comes up, or its father does, and the grandfather goes down.
LEMMA InsertRotateKeeps ==
  ASSUME IInv, InsertRotate
  PROVE  /\ IInv' /\ SameEntries(T', T) /\ Live' = Live
         /\ \E d, e : /\ Shape(T, Live, d) /\ Shape(T', Live, e)
                      /\ LevelOf(T', Live, e, cur') < Cardinality(Above(Live, d, Father))
<1>1. PICK d, h : Work(d, h)
  BY DEF IInv
<1> DEFINE f == Father
           g == Grandfather
           side == SideOf(T, f)
           w == Uncle
<1>2. Kept /\ cur \in Live /\ Red(T, cur) /\ Good(T, Live, d, h, {cur}) /\ pc = "insertFixup"
      /\ Red(T, f) /\ ~Red(T, w) /\ UNCHANGED <<alive, doomed, pc>>
  BY <1>1 DEF IInv, InsertRotate, ParentRed, Work, Father
<1>3. f = Parent(T, cur) /\ g = Parent(T, f) /\ w = Child(T, g, Other(side))
  BY DEF Father, Grandfather, Uncle
<1>4. /\ cur = Child(T, f, Other(side)) =>
           /\ T' = Rotate(Paint(Paint(Rotate(T, f, side), Parent(Rotate(T, f, side), f), BLACK), g, RED),
                          g, Other(side))
           /\ cur' = f
      /\ cur # Child(T, f, Other(side)) =>
           /\ T' = Rotate(Paint(Paint(T, Parent(T, cur), BLACK), g, RED), g, Other(side))
           /\ cur' = cur
  BY DEF InsertRotate
<1> HIDE DEF f, g, w, side
<1>5. side = SideOf(T, f)
  BY DEF side
<1>6. /\ f \in Live /\ g \in Live /\ side \in Sides /\ Other(side) \in Sides
      /\ Child(T, g, side) = f /\ \E s \in Sides : Child(T, f, s) = cur
      /\ \A s \in Sides : s = side \/ s = Other(side)
  <2>1. /\ f \in Live /\ g \in Live /\ side \in Sides /\ Other(side) \in Sides
        /\ Child(T, g, side) = f /\ \E s \in Sides : Child(T, f, s) = cur
    BY <1>2, <1>3, <1>5, RedFather
  <2> QED  BY <2>1, OtherSide
<1> DEFINE A == Above(Live, d, f)
<1>7. Shape(T, Live, d) /\ IsFiniteSet(Live) /\ IsFiniteSet(A) /\ f \in A
  <2>1. Shape(T, Live, d) /\ IsFiniteSet(Live)
    BY <1>2 DEF Good, Sound
  <2>2. f \in d[f]
    BY <1>6, <2>1, BelowFacts
  <2> QED  BY <1>6, <2>1, <2>2, FS_Subset DEF Above
<1>8. Above(Live, RotatedBelow(T, d, g, Other(side)), f) = A \ {g} /\ g \in A /\ g # f
  BY <1>6, <1>7, OuterLifts
<1> HIDE DEF A
<1>9. \E d2, h2 : /\ Good(T', Live, d2, h2, {}) /\ Red(T', cur') /\ cur' \in Live
                  /\ SameEntries(T', T) /\ LevelOf(T', Live, d2, cur') < Cardinality(A)
  <2>1. CASE cur = Child(T, f, Other(side))
    <3> DEFINE u == Rotate(T, f, side)
               e == RotatedBelow(T, d, f, side)
    <3> HIDE DEF u, e
    <3>1. /\ Good(u, Live, e, h, {f})
          /\ Red(u, f) /\ Red(u, cur) /\ Parent(u, f) = cur /\ Parent(u, cur) = g
          /\ SideOf(u, cur) = side /\ Child(u, cur, side) = f
          /\ Child(u, g, Other(side)) = Child(T, g, Other(side))
          /\ SameEntries(u, T) /\ \A x : Red(u, x) <=> Red(T, x)
      <4>1. u = Rotate(T, f, side)
        BY DEF u
      <4>2. InnerTurned(u, T, Live, d, h, cur, f, g, side)
        BY <1>2, <1>3, <1>5, <2>1, <4>1, InnerKeeps
      <4> QED  BY <4>2 DEF InnerTurned, e
    <3>2. T' = Rotate(Paint(Paint(u, cur, BLACK), g, RED), g, Other(side)) /\ cur' = f
      BY <1>4, <2>1, <3>1 DEF u
    <3>3. ~Red(u, Child(u, g, Other(side)))
      BY <1>2, <1>3, <3>1
    <3> DEFINE e2 == RotatedBelow(u, e, g, Other(side))
    <3>4. /\ \E h2 : Good(T', Live, e2, h2, {})
          /\ Red(T', f) /\ SameEntries(T', u) /\ Parent(T', f) = cur
      <4>1. OuterTurned(T', u, Live, e, f, cur, g, side)
        BY <1>6, <3>1, <3>2, <3>3, OuterKeeps
      <4> QED  BY <4>1 DEF OuterTurned
    <3>5. Above(Live, e, cur) = ({cur} \cup A) \ {f}
      <4>1. Above(Live, d, cur) = {cur} \cup A
        BY <1>2, <1>6, <1>7, <2>1, AboveChild DEF A
      <4>2. Above(Live, e, cur) = Above(Live, d, cur) \ {f}
        BY <1>2, <1>6, <1>7, <2>1, AboveRotated DEF e
      <4> QED  BY <4>1, <4>2
    <3>6. Above(Live, e2, cur) = (({cur} \cup A) \ {f}) \ {g}
      <4>1. Shape(u, Live, e) /\ nil \notin Live
        BY <3>1, NodesAreBlocks DEF Good, Sound
      <4>2. cur # u.root
        BY <1>2, <1>6, <3>1, <4>1 DEF Shape, Linked
      <4>3. Child(u, g, side) = cur
        BY <1>2, <3>1, <4>1, <4>2, SideOfFacts
      <4>4. Above(Live, e2, cur) = Above(Live, e, cur) \ {g}
        BY <1>2, <1>6, <1>7, <4>1, <4>3, OuterLifts
      <4> QED  BY <3>5, <4>4
    <3>7. LevelOf(T', Live, e2, cur') < Cardinality(A)
      <4>1. Cardinality(Above(Live, e2, cur)) < Cardinality(A)
        BY <1>7, <1>8, <3>6, BothLift
      <4> QED  BY <1>7, <3>2, <3>4, <4>1, LevelFalls
    <3> QED  BY <1>6, <3>1, <3>2, <3>4, <3>7 DEF SameEntries
  <2>2. CASE cur # Child(T, f, Other(side))
    <3>1. cur = Child(T, f, side)
      BY <1>6, <2>2
    <3>2. T' = Rotate(Paint(Paint(T, f, BLACK), g, RED), g, Other(side)) /\ cur' = cur
      BY <1>3, <1>4, <2>2
    <3> DEFINE e2 == RotatedBelow(T, d, g, Other(side))
    <3>3. /\ \E h2 : Good(T', Live, e2, h2, {})
          /\ Red(T', cur) /\ SameEntries(T', T) /\ Parent(T', cur) = f
      <4>1. OuterTurned(T', T, Live, d, cur, f, g, side)
        BY <1>2, <1>3, <1>5, <3>1, <3>2, OuterKeeps
      <4> QED  BY <4>1 DEF OuterTurned
    <3>4. LevelOf(T', Live, e2, cur') < Cardinality(A)
      <4>1. Cardinality(Above(Live, e2, f)) < Cardinality(A)
        BY <1>7, <1>8, FewerMembers
      <4> QED  BY <1>7, <3>2, <3>3, <4>1, LevelFalls
    <3> QED  BY <1>2, <3>2, <3>3, <3>4
  <2> QED  BY <2>1, <2>2
<1>10. PICK d2, h2 : /\ Good(T', Live, d2, h2, {}) /\ Red(T', cur') /\ cur' \in Live
                    /\ SameEntries(T', T) /\ LevelOf(T', Live, d2, cur') < Cardinality(A)
  BY <1>9
<1>11. Kept' /\ Live' = Live
  BY <1>2, <1>10, KeptInserting
<1>12. Good(T', Live, d2, h2, {cur'}) /\ Shape(T', Live, d2)
  BY <1>10, SoundForMore DEF Good, Sound
<1>13. Work(d2, h2)'
  BY <1>2, <1>10, <1>11, <1>12 DEF Work
<1>14. Shape(T, Live, d) /\ Shape(T', Live, d2)
       /\ LevelOf(T', Live, d2, cur') < Cardinality(Above(Live, d, Father))
  BY <1>10, <1>12, <1>7 DEF A, f
<1> QED  BY <1>10, <1>11, <1>13, <1>14 DEF IInv
-----------------------------------------------------------------------------
(* The operations of the interface. *)

\* What ntyRBTreeSearch finds between two steps of any operation.
LEMMA SearchReads ==
  ASSUME IInv, NEW k
  PROVE  \/ Search(T, k) = nil /\ \A x \in Live : T.key[x] # k
         \/ Search(T, k) \in Live /\ T.key[Search(T, k)] = k
<1>1. PICK d, h : Work(d, h)
  BY DEF IInv
<1>2. Shape(T, Live, d)
  BY <1>1 DEF IInv, Kept, Work, Good, Sound
<1>3. /\ nil \notin alive /\ IsFiniteSet(Live) /\ Hanging(T, Live)
  BY LiveFacts DEF IInv
<1> QED  BY <1>2, <1>3, SearchFinds

\* ntyRBTreeOperaInsert keeps the invariant and adds one entry under a new key.
LEMMA OperaInsertKeeps ==
  ASSUME IInv, OperaInsert
  PROVE  /\ IInv'
         /\ \E p \in Pairs : \E n, y, s :
              /\ n \notin Live /\ n \in Blocks /\ Live' = Live \cup {n}
              /\ \A x \in Live : T.key[x] # p[1]
              /\ Added(T', T, n, p[1], p[2], y, s)
<1>1. PICK d, h : Work(d, h)
  BY DEF IInv
<1>2. PICK p \in Pairs, n \in Nodes \ alive :
        /\ pc = "idle" /\ Search(T, p[1]) = nil
        /\ T' = Link(T, n, p[1], p[2])
        /\ alive' = alive \cup {n}
        /\ pc' = "insertFixup" /\ cur' = n
        /\ UNCHANGED <<count, doomed>>
  BY DEF OperaInsert
<1>3. Kept /\ Live = alive /\ doomed = nil /\ nil \notin alive
  BY <1>2, LiveFacts DEF IInv
<1>4. Good(T, alive, d, h, {})
  BY <1>1, <1>2, <1>3 DEF Work
<1>5. \A x \in alive : T.key[x] # p[1]
  BY <1>2, <1>3, SearchReads
<1>6. p[1] \in Nat /\ p[2] \in Values
  BY TreeAssumption DEF Values
<1>7. /\ \E d2, h2 : Good(T', alive \cup {n}, d2, h2, {n})
      /\ \E y, s : Added(T', T, n, p[1], p[2], y, s)
  BY <1>2, <1>4, <1>5, <1>6, LinkKeeps
<1>8. PICK d2, h2 : Good(T', alive \cup {n}, d2, h2, {n})
  BY <1>7
<1>9. PICK y, s : Added(T', T, n, p[1], p[2], y, s)
  BY <1>7
<1>10. Live' = alive \cup {n} /\ nil # n
  BY <1>2, <1>3, TreeAssumption DEF Live
<1>11. Kept'
  <2>1. alive' \subseteq Nodes /\ IsFiniteSet(alive')
    BY <1>2, <1>3, FS_AddElement DEF Kept
  <2>2. ASSUME NEW x \in alive \cup {n}
        PROVE  (\E r \in Pairs : T'.key[x] = r[1]) /\ (\E r \in Pairs : T'.value[x] = r[2])
    <3>1. x \in Blocks
      BY <1>2, <1>3 DEF Kept, Blocks
    <3>2. CASE x = n
      BY <1>9, <3>1, <3>2 DEF Added
    <3>3. CASE x # n
      BY <1>3, <1>9, <3>1, <3>3 DEF Added, Kept
    <3> QED  BY <3>2, <3>3
  <2> QED  BY <1>2, <1>3, <1>10, <2>1, <2>2 DEF Kept
<1>12. Red(T', n)
  BY <1>2, <1>9 DEF Added, Blocks
<1>13. Work(d2, h2)'
  BY <1>2, <1>8, <1>10, <1>12 DEF Work
<1>14. n \notin Live /\ n \in Blocks
  BY <1>2, <1>3 DEF Blocks
<1> QED  BY <1>3, <1>5, <1>9, <1>10, <1>11, <1>13, <1>14 DEF IInv

\* ntyRBTreeDelete takes out a node that has at most one child.
LEMMA DeleteLeaves ==
  ASSUME NEW t, NEW d, Shape(t, alive, d), IsFiniteSet(alive), NEW z \in alive,
         NEW y, y = IF nil \in {Child(t, z, "left"), Child(t, z, "right")} THEN z ELSE Successor(t, z),
         NEW x, x = Child(t, y, IF Child(t, y, "left") # nil THEN "left" ELSE "right")
  PROVE  \E c : Leaves(t, alive, d, z, y, x, c)
<1>1. "left" \in Sides /\ "right" \in Sides /\ Other("left") = "right" /\ Other("right") = "left"
  BY DEF Sides, Other
<1>2. CASE nil \in {Child(t, z, "left"), Child(t, z, "right")}
  <2>1. y = z
    BY <1>2
  <2>2. CASE Child(t, z, "left") # nil
    BY <1>1, <1>2, <2>1, <2>2 DEF Leaves
  <2>3. CASE Child(t, z, "left") = nil
    BY <1>1, <2>1, <2>3 DEF Leaves
  <2> QED  BY <2>2, <2>3
<1>3. CASE nil \notin {Child(t, z, "left"), Child(t, z, "right")}
  <2> DEFINE r == Child(t, z, "right")
  <2>1. y = Minimum(t)[r] /\ r \in alive
    BY <1>1, <1>3 DEF Successor, Shape, Linked
  <2> HIDE DEF r
  <2>2. /\ y \in d[r] /\ Child(t, y, "left") = nil
        /\ \A w \in d[r] : w # y => t.key[y] < t.key[w]
    BY <2>1, MinimumIsLeast
  <2>3. y \in alive /\ x = Child(t, y, "right")
    BY <2>1, <2>2, BelowFacts
  <2> QED  BY <1>1, <2>2, <2>3 DEF Leaves, r
<1> QED  BY <1>2, <1>3

\* ntyRBTreeOperaDelete keeps the invariant and takes out one entry.
LEMMA OperaDeleteKeeps ==
  ASSUME IInv, OperaDelete
  PROVE  /\ IInv'
         /\ \E z, y, x, p, s :
              /\ z \in Live /\ y \in Live /\ Live' = Live \ {y}
              /\ Removed(T', T, z, y, x, p, s)
<1>1. PICK d, h : Work(d, h)
  BY DEF IInv
<1>2. PICK k \in Keys :
    /\ pc = "idle"
    /\ LET z == Search(T, k)
           y == IF nil \in {Child(T, z, "left"), Child(T, z, "right")} THEN z ELSE Successor(T, z)
           x == Child(T, y, IF Child(T, y, "left") # nil THEN "left" ELSE "right")
       IN  /\ z # nil
           /\ T' = Unlink(T, z, y, x)
           /\ doomed' = y /\ cur' = x
           /\ pc' = IF Red(T, y) THEN "release" ELSE "deleteFixup"
    /\ UNCHANGED <<alive, count>>
  BY DEF OperaDelete
<1> DEFINE z == Search(T, k)
           y == IF nil \in {Child(T, z, "left"), Child(T, z, "right")} THEN z ELSE Successor(T, z)
           x == Child(T, y, IF Child(T, y, "left") # nil THEN "left" ELSE "right")
           p == Parent(T, y)
           s == SideOf(T, y)
           R == alive \ {y}
<1>3. /\ z # nil /\ T' = Unlink(T, z, y, x) /\ doomed' = y /\ cur' = x
      /\ pc' = IF Red(T, y) THEN "release" ELSE "deleteFixup"
      /\ pc = "idle" /\ UNCHANGED alive
  BY <1>2
<1> HIDE DEF z
<1>4. Kept /\ Live = alive /\ nil \notin alive /\ IsFiniteSet(alive)
  BY <1>3, LiveFacts DEF IInv
<1>5. Good(T, alive, d, h, {}) /\ Shape(T, alive, d)
  BY <1>1, <1>3, <1>4 DEF Work, Good, Sound
<1>6. z \in alive
  BY <1>3, <1>4, SearchReads DEF z
<1>7. \E c : Leaves(T, alive, d, z, y, x, c)
  BY <1>4, <1>5, <1>6, DeleteLeaves
<1> HIDE DEF y, x, p, s, R
<1>8. PICK c : Leaves(T, alive, d, z, y, x, c)
  BY <1>7
<1>9. /\ p \in R \cup {nil} /\ x \in R \cup {nil} /\ p # y
      /\ \A r \in Sides : Child(T, y, r) \in R \cup {nil}
  <2>1. /\ p \in R \cup {nil} /\ x \in R \cup {nil} /\ p # y
    <3>1. CutNodes(T, alive, d, y, x, p, s, R)
      BY <1>4, <1>5, <1>8, LeavesNodes DEF p, s, R
    <3> QED  BY <3>1 DEF CutNodes
  <2>2. y \in alive
    BY <1>8 DEF Leaves
  <2>3. \A r \in Sides : Child(T, y, r) \in alive \cup {nil} /\ Child(T, y, r) # y
    BY <1>5, <2>2, SidesDiffer DEF Shape, Linked
  <2> QED  BY <2>1, <2>3 DEF R
<1>10. y \in alive /\ alive \subseteq Blocks /\ nil \in Blocks /\ IsTree(T)
  BY <1>5, <1>8, NodesAreBlocks DEF Leaves
<1>11. Removed(T', T, z, y, x, p, s)
  <2>1. x \in Blocks /\ p \in Blocks /\ z \in Blocks /\ y \in Blocks
    BY <1>6, <1>9, <1>10 DEF R
  <2> QED  BY <1>3, <1>10, <2>1, UnlinkFields DEF p, s
<1> DEFINE q == IF Red(T, y) THEN nil ELSE p
           E == IF Red(T, y) THEN {} ELSE {x}
<1>12. /\ p = nil <=> x = T'.root
       /\ Parent(T', x) = p
       /\ p # nil => Child(T', p, s) = x /\ (Red(T, y) \/ SideOf(T', x) = s)
       /\ \E d2, h2 : Sound(T', R, d2, h2, q, s, E)
  <2>1. Cut(T', T, y, x, p, s, R)
    BY <1>5, <1>8, <1>11, UnlinkKeeps DEF p, s, R
  <2> QED  BY <2>1 DEF Cut
<1>13. PICK d2, h2 : Sound(T', R, d2, h2, q, s, E)
  BY <1>12
<1>14. Live' = R
  BY <1>3 DEF Live, R
<1>15. Kept'
  <2>1. ASSUME NEW w \in R
        PROVE  (\E r \in Pairs : T'.key[w] = r[1]) /\ (\E r \in Pairs : T'.value[w] = r[2])
    <3>1. w \in Blocks /\ w \in alive /\ y \in Live /\ w \in Live
      BY <1>4, <1>10 DEF R
    <3>2. CASE w = z
      BY <1>4, <1>11, <3>1, <3>2 DEF Removed, Kept
    <3>3. CASE w # z
      BY <1>4, <1>11, <3>1, <3>3 DEF Removed, Kept
    <3> QED  BY <3>2, <3>3
  <2>2. \A r \in Sides : Child(T', y, r) \in R \cup {nil}
    BY <1>9, <1>10, <1>11 DEF Removed
  <2>3. pc' \in {"release", "deleteFixup"}
    BY <1>3
  <2> QED  BY <1>3, <1>4, <1>10, <1>14, <2>1, <2>2, <2>3 DEF Kept
<1>16. Work(d2, h2)'
  <2>1. CASE Red(T, y)
    <3>1. Good(T', R, d2, h2, {})
      BY <1>13, <2>1, NoLinkDoubled DEF Good
    <3> QED  BY <1>3, <1>14, <2>1, <3>1 DEF Work
  <2>2. CASE ~Red(T, y)
    <3>1. Father' = p /\ cur' = x /\ pc' = "deleteFixup"
      BY <1>3, <1>12, <2>2 DEF Father
    <3>2. Sound(T', R, d2, h2, p, s, {x})
      BY <1>13, <2>2
    <3>3. Sound(T', R, d2, h2, p, SideOf(T', x), {x})
      <4>1. CASE p = nil
        BY <3>2, <4>1, NoLinkDoubled
      <4>2. CASE p # nil
        BY <1>12, <2>2, <3>2, <4>2
      <4> QED  BY <4>1, <4>2
    <3>4. Sound(T', R, d2, h2, p, SideOf(T', x), {x} \cup {w \in R : w # T'.root /\ Parent(T', w) = x})
      BY <3>3, SoundForMore
    <3> QED  BY <1>9, <1>12, <1>14, <2>2, <3>1, <3>4 DEF Work
  <2> QED  BY <2>1, <2>2
<1>17. y \in Live /\ z \in Live /\ R = Live \ {y}
  BY <1>4, <1>6, <1>10 DEF R
<1>18. IInv'
  BY <1>15, <1>16 DEF IInv
<1> QED  BY <1>11, <1>14, <1>17, <1>18

\* ntyRBTreeOperaUpdate keeps the invariant and changes one value.
LEMMA OperaUpdateKeeps ==
  ASSUME IInv, OperaUpdate
  PROVE  /\ IInv' /\ Live' = Live
         /\ \E p \in Pairs, y \in Live :
              /\ T.key[y] = p[1] /\ T'.key = T.key
              /\ \A x \in Live : T'.value[x] = IF x = y THEN p[2] ELSE T.value[x]
<1>1. PICK d, h : Work(d, h)
  BY DEF IInv
<1>2. PICK p \in Pairs :
        /\ pc = "idle" /\ Search(T, p[1]) # nil
        /\ T' = [T EXCEPT !.value[Search(T, p[1])] = p[2]]
        /\ UNCHANGED <<alive, count, pc, cur, doomed>>
  BY DEF OperaUpdate
<1> DEFINE y == Search(T, p[1])
<1>3. y \in Live /\ T.key[y] = p[1]
  BY <1>2, SearchReads
<1> HIDE DEF y
<1>4. Kept /\ Good(T, Live, d, h, {}) /\ Live' = Live
  BY <1>1, <1>2 DEF IInv, Work, Live
<1>5. IsTree(T) /\ Live \subseteq Blocks
  BY <1>4, NodesAreBlocks DEF Good, Sound
<1>6. T' = [T EXCEPT !.value = [T.value EXCEPT ![y] = p[2]]] /\ p[2] \in Values
  BY <1>2 DEF y, Values
<1>7. /\ IsTree(T') /\ T'.root = T.root /\ T'.key = T.key /\ T'.child = T.child
      /\ T'.parent = T.parent /\ T'.color = T.color
      /\ T'.value = [T.value EXCEPT ![y] = p[2]]
  BY <1>3, <1>5, <1>6 DEF IsTree
<1>8. \A x \in Live : T'.value[x] = IF x = y THEN p[2] ELSE T.value[x]
  BY <1>5, <1>7 DEF IsTree
<1>9. Good(T', Live, d, h, {})
  <2>1. \A x, s : Child(T', x, s) = Child(T, x, s) /\ Parent(T', x) = Parent(T, x)
    BY <1>7 DEF Child, Parent
  <2>2. \A x : (Red(T', x) <=> Red(T, x)) /\ Black(T', x) = Black(T, x)
    BY <1>7 DEF Red, Black
  <2>3. Shape(T', Live, d)
    BY <1>4, <1>7, <2>1 DEF Good, Sound, Shape, Linked, Spans, Ordered
  <2>4. Balanced(T', Live, h, nil, "left")
    BY <1>4, <2>1, <2>2 DEF Good, Sound, Balanced, Even
  <2>5. NoRedPair(T', Live, {})
    BY <1>4, <1>7, <2>1, <2>2 DEF Good, Sound, NoRedPair
  <2> QED  BY <1>4, <2>2, <2>3, <2>4, <2>5 DEF Good, Sound
<1>10. Kept'
  BY <1>2, <1>4, <1>7, <1>8 DEF Kept
<1>11. Work(d, h)'
  BY <1>2, <1>4, <1>9 DEF Work
<1> QED  BY <1>3, <1>4, <1>7, <1>8, <1>10, <1>11 DEF IInv
-----------------------------------------------------------------------------
(* The steps of a deletion. *)

\* t is T with a black sibling above which x hangs; if the sibling had to come up
\* first, the father is red.
Ready(t, S, x, f, side) ==
  /\ \E e, g : DeletePoint(t, S, e, g, x, f, side)
  /\ ~Red(t, Child(t, f, Other(side))) /\ Untouched(t, T, S)
  /\ t = T \/ Red(t, f)

\* While ntyRBTreeDeleteFixup goes on, the node it works on hangs on the doubled link.
LEMMA LoopRuns ==
  ASSUME IInv, Doubled, NEW d, NEW h, Work(d, h)
  PROVE  DeletePoint(T, Live, d, h, cur, Father, SideOf(T, cur))
<1> DEFINE side == SideOf(T, cur)
           E == {cur} \cup {x \in Live : x # T.root /\ Parent(T, x) = cur}
<1>1. /\ pc = "deleteFixup" /\ cur # T.root /\ ~Red(T, cur)
      /\ Sound(T, Live, d, h, Father, side, E)
      /\ Father \in Live /\ Child(T, Father, side) = cur
  BY DEF Doubled, Work
<1>2. NoRedPair(T, Live, {})
  BY <1>1 DEF Sound, NoRedPair
<1>3. side \in Sides /\ Parent(T, cur) = Father
  BY DEF SideOf, Sides, Father
<1> HIDE DEF E
<1> QED  BY <1>1, <1>2, <1>3 DEF DeletePoint, Sound

\* The first half of an iteration of ntyRBTreeDeleteFixup leaves a black sibling.
LEMMA SiblingGetsBlack ==
  ASSUME NEW d, NEW h, NEW f, f = Father, NEW side, side = SideOf(T, cur),
         DeletePoint(T, Live, d, h, cur, f, side)
  PROVE  Ready(BlackSibling, Live, cur, f, side)
<1> DEFINE w == Child(T, f, Other(side))
<1>1. BlackSibling = IF Red(T, w) THEN Rotate(Paint(Paint(T, w, BLACK), f, RED), f, side) ELSE T
  BY DEF BlackSibling
<1>2. CASE Red(T, w)
  <2>1. BlackSibling = Rotate(Paint(Paint(T, w, BLACK), f, RED), f, side)
    BY <1>1, <1>2
  <2> DEFINE t == BlackSibling
  <2> HIDE DEF t, w
  <2>2. w = Child(T, f, Other(side)) /\ t = Rotate(Paint(Paint(T, w, BLACK), f, RED), f, side)
    BY <2>1 DEF w, t
  <2>3. /\ \E e, g : DeletePoint(t, Live, e, g, cur, f, side)
        /\ Red(t, f) /\ ~Red(t, Child(t, f, Other(side))) /\ Untouched(t, T, Live)
    BY <1>2, <2>2, RedSibling
  <2> QED  BY <2>3 DEF Ready, t
<1>3. CASE ~Red(T, w)
  <2>1. BlackSibling = T /\ Untouched(T, T, Live)
    BY <1>1, <1>3 DEF Untouched, SameEntries
  <2> QED  BY <1>3, <2>1 DEF Ready
<1> QED  BY <1>2, <1>3

\* An iteration of ntyRBTreeDeleteFixup keeps the invariant and the entries, and goes
\* on at the root, at a red father, or at the father in a tree of the same shape.
LEMMA DeleteFixupKeeps ==
  ASSUME IInv, DeleteFixup
  PROVE  /\ IInv' /\ SameEntries(T', T) /\ Live' = Live
         /\ Father \in Live
         /\ \/ cur' = T'.root
            \/ cur' = Father /\ Red(T', cur')
            \/ cur' = Father /\ \E d : Shape(T, Live, d) /\ Shape(T', Live, d)
<1>1. PICK d, h : Work(d, h)
  BY DEF IInv
<1> DEFINE f == Father
           side == SideOf(T, cur)
           t == BlackSibling
           w == Child(t, f, Other(side))
           near == Child(t, w, side)
           far == Child(t, w, Other(side))
           t1 == IF Red(t, far) THEN t
                 ELSE Rotate(Paint(Paint(t, near, BLACK), w, RED), w, Other(side))
           w1 == Child(t1, f, Other(side))
           t2 == Paint(Paint(Paint(t1, w1, t1.color[f]), f, BLACK), Child(t1, w1, Other(side)), BLACK)
<1>2. /\ \/ ~Red(t, near) /\ ~Red(t, far) /\ T' = Paint(t, w, RED) /\ cur' = f
         \/ /\ Red(t, near) \/ Red(t, far)
            /\ T' = Rotate(t2, f, side) /\ cur' = T'.root
      /\ UNCHANGED <<alive, count, pc, doomed>> /\ Doubled
  BY DEF DeleteFixup
<1>3. DeletePoint(T, Live, d, h, cur, f, side)
  BY <1>1, <1>2, LoopRuns
<1>4. Ready(t, Live, cur, f, side)
  BY <1>3, SiblingGetsBlack
<1>5. pc = "deleteFixup" /\ Kept /\ f \in Live /\ side \in Sides /\ Shape(T, Live, d)
  BY <1>2, <1>3 DEF Doubled, IInv, DeletePoint, Sound
<1> HIDE DEF f, side, t
<1>6. PICK e, g : DeletePoint(t, Live, e, g, cur, f, side)
  BY <1>4 DEF Ready
<1>7. ~Red(t, w) /\ Untouched(t, T, Live) /\ (t = T \/ Red(t, f))
  BY <1>4 DEF Ready
<1>8. Around(t, Live, g, cur, f, side, w)
  BY <1>6, DeleteNodes
<1>9. ASSUME Untouched(T', t, Live)
      PROVE  Kept' /\ Live' = Live /\ SameEntries(T', T)
  <2>1. Untouched(T', T, Live)
    BY <1>7, <1>9 DEF Untouched, SameEntries
  <2>2. Kept' /\ Live' = Live
    BY <1>2, <1>5, <2>1, KeptSame
  <2> QED  BY <2>1, <2>2 DEF Untouched
<1>10. CASE ~Red(t, near) /\ ~Red(t, far)
  <2>1. T' = Paint(t, w, RED) /\ cur' = f
    BY <1>2, <1>10
  <2> HIDE DEF w
  <2>2. w = Child(t, f, Other(side)) /\ \A r \in Sides : ~Red(t, Child(t, w, r))
    BY <1>5, <1>10, OtherSide DEF w
  <2> DEFINE E == {f} \cup {x \in Live : x # T'.root /\ Parent(T', x) = f}
  <2>3. /\ \E h2 : Sound(T', Live, e, h2, Parent(T', f), SideOf(T', f), E)
        /\ SameButColour(T', t) /\ Untouched(T', t, Live) /\ Red(T', w)
        /\ \A z \in Blocks : Red(t, z) => Red(T', z)
    BY <1>6, <1>7, <2>1, <2>2, BlackNephews
  <2>4. PICK h2 : Sound(T', Live, e, h2, Parent(T', f), SideOf(T', f), E)
    BY <2>3
  <2>5. Kept' /\ Live' = Live /\ SameEntries(T', T)
    BY <1>9, <2>3
  <2>6. Shape(T', Live, e)
    BY <2>4 DEF Sound
  <2>7. /\ f = T'.root => Parent(T', f) = nil
        /\ f # T'.root => Parent(T', f) \in Live /\ Child(T', Parent(T', f), SideOf(T', f)) = f
    <3>1. CASE f = T'.root
      <4>1. f # nil
        BY <1>5, <2>6, NodesAreBlocks
      <4> QED  BY <2>6, <3>1, <4>1 DEF Shape, Linked
    <3>2. CASE f # T'.root
      BY <1>5, <2>6, <3>2, SideOfFacts
    <3> QED  BY <3>1, <3>2
  <2>8. Work(e, h2)'
    <3>1. pc' = "deleteFixup" /\ Father' = Parent(T', f)
      BY <1>2, <1>5, <2>1 DEF Father
    <3> QED  BY <1>5, <2>1, <2>4, <2>5, <2>7, <3>1 DEF Work
  <2>9. Red(T', f) \/ \E dd : Shape(T, Live, dd) /\ Shape(T', Live, dd)
    <3>1. CASE t = T
      BY <2>6, <3>1, <1>6 DEF DeletePoint, Sound
    <3>2. CASE Red(t, f)
      <4>1. f \in Blocks
        BY <1>5, NodesAreBlocks
      <4> QED  BY <2>3, <3>2, <4>1
    <3> QED  BY <1>7, <3>1, <3>2
  <2> QED  BY <1>5, <2>1, <2>5, <2>8, <2>9 DEF IInv, f
<1>11. CASE Red(t, near) \/ Red(t, far)
  <2>1. T' = Rotate(t2, f, side) /\ cur' = T'.root
    BY <1>2, <1>11
  <2>2. /\ \E e1, g1 : DeletePoint(t1, Live, e1, g1, cur, f, side)
        /\ Red(t1, Child(t1, w1, Other(side))) /\ Untouched(t1, t, Live)
    <3>1. CASE Red(t, far)
      BY <1>6, <3>1 DEF Untouched, SameEntries
    <3>2. CASE ~Red(t, far)
      <4>1. t1 = Rotate(Paint(Paint(t, near, BLACK), w, RED), w, Other(side))
        BY <3>2
      <4>2. w = Child(t, f, Other(side)) /\ near = Child(t, w, side) /\ Red(t, near)
            /\ ~Red(t, Child(t, w, Other(side)))
        BY <1>11, <3>2
      <4>3. w1 = Child(t1, f, Other(side))
        OBVIOUS
      <4> HIDE DEF t1, w, near, w1
      <4>4. /\ \E e1, g1 : DeletePoint(t1, Live, e1, g1, cur, f, side)
            /\ Child(t1, f, Other(side)) = near /\ Child(t1, near, Other(side)) = w /\ Red(t1, w)
            /\ Untouched(t1, t, Live)
        BY <1>6, <4>1, <4>2, RedNear
      <4> QED  BY <4>3, <4>4
    <3> QED  BY <3>1, <3>2
  <2> DEFINE v == t2
             far1 == Child(t1, w1, Other(side))
  <2>3. v = Paint(Paint(Paint(t1, w1, t1.color[f]), f, BLACK), far1, BLACK)
        /\ w1 = Child(t1, f, Other(side)) /\ far1 = Child(t1, w1, Other(side)) /\ T' = Rotate(v, f, side)
        /\ Red(t1, far1)
    BY <2>1, <2>2
  <2> HIDE DEF t1, w1, t2, far1, v
  <2>4. PICK e1, g1 : DeletePoint(t1, Live, e1, g1, cur, f, side)
    BY <2>2
  <2>5. T'.root \in Live /\ Untouched(T', t1, Live) /\ \E e2, g2 : Good(T', Live, e2, g2, {})
    BY <2>3, <2>4, RedFar
  <2>6. PICK e2, g2 : Good(T', Live, e2, g2, {})
    BY <2>5
  <2>7. Untouched(T', t, Live)
    BY <2>2, <2>5 DEF Untouched, SameEntries
  <2>8. Kept' /\ Live' = Live /\ SameEntries(T', T)
    BY <1>9, <2>7
  <2>9. Parent(T', T'.root) = nil
    <3>1. Shape(T', Live, e2)
      BY <2>6 DEF Good, Sound
    <3>2. T'.root # nil
      BY <2>5, <3>1, NodesAreBlocks
    <3> QED  BY <3>1, <3>2 DEF Shape, Linked
  <2> DEFINE E == {T'.root} \cup {x \in Live : x # T'.root /\ Parent(T', x) = T'.root}
  <2>10. Sound(T', Live, e2, g2, nil, SideOf(T', T'.root), E)
    <3>1. Sound(T', Live, e2, g2, nil, SideOf(T', T'.root), {})
      BY <2>6, NoLinkDoubled DEF Good
    <3> HIDE DEF E
    <3> QED  BY <3>1, SoundForMore
  <2>11. Work(e2, g2)'
    <3>1. pc' = "deleteFixup" /\ Father' = nil /\ cur' = T'.root
      BY <1>2, <1>5, <2>1, <2>9 DEF Father
    <3> QED  BY <2>5, <2>8, <2>10, <3>1 DEF Work
  <2> QED  BY <1>5, <2>1, <2>8, <2>11 DEF IInv, f
<1> QED  BY <1>10, <1>11

-----------------------------------------------------------------------------
(* The end of a deletion, and the invariant. *)

\* The loop of ntyRBTreeDeleteFixup ends at the root or at a red node, which
\* turns black; then the block is freed.
LEMMA ReleaseKeeps ==
  ASSUME IInv, Release
  PROVE  IInv' /\ SameEntries(T', T) /\ Live' = Live
<1>1. PICK d, h : Work(d, h)
  BY DEF IInv
<1>2. /\ pc = "release" \/ (pc = "deleteFixup" /\ ~Doubled)
      /\ T' = IF pc = "deleteFixup" THEN Paint(T, cur, BLACK) ELSE T
      /\ alive' = alive \ {doomed} /\ pc' = "idle" /\ doomed' = nil
  BY DEF Release
<1>3. Kept /\ nil \notin alive /\ IsFiniteSet(Live) /\ Live \subseteq alive
  BY LiveFacts DEF IInv
<1>4. Live' = Live /\ alive' = Live
  BY <1>2, <1>3 DEF Live
<1>5. SameEntries(T', T) /\ \E h2 : Good(T', Live, d, h2, {})
  <2>1. CASE pc = "release"
    BY <1>1, <1>2, <2>1 DEF Work, SameEntries
  <2>2. CASE pc = "deleteFixup" /\ ~Doubled
    <3> DEFINE q == Father
               qs == SideOf(T, cur)
               E == {cur} \cup {x \in Live : x # T.root /\ Parent(T, x) = cur}
    <3>1. /\ Sound(T, Live, d, h, q, qs, E) /\ cur \in Live \cup {nil}
          /\ cur = T.root => q = nil
          /\ T' = Paint(T, cur, BLACK)
      BY <1>1, <1>2, <2>2 DEF Work
    <3>2. cur = T.root \/ Red(T, cur)
      BY <2>2 DEF Doubled
    <3>3. nil \notin Live
      BY <1>3
    <3>4. cur # T.root => q = Parent(T, cur) /\ qs = SideOf(T, cur)
      BY DEF Father
    <3>5. cur = T.root => q \notin Live
      BY <3>1, <3>3
    <3> HIDE DEF q, qs
    <3> QED  BY <3>1, <3>2, <3>4, <3>5, BlackenKeeps
  <2> QED  BY <1>2, <2>1, <2>2
<1>6. PICK h2 : Good(T', Live, d, h2, {})
  BY <1>5
<1>7. T'.key = T.key /\ T'.value = T.value
  BY <1>5 DEF SameEntries
<1>8. Kept'
  BY <1>2, <1>3, <1>4, <1>7 DEF Kept
<1>9. Work(d, h2)'
  BY <1>2, <1>4, <1>6 DEF Work
<1> QED  BY <1>4, <1>5, <1>8, <1>9 DEF IInv

\* A step that changes nothing keeps the invariant.
LEMMA StutterKeeps ==
  ASSUME IInv, UNCHANGED vars
  PROVE  IInv' /\ UNCHANGED <<T, Live, Father>>
<1>1. PICK d, h : Work(d, h)
  BY DEF IInv
<1>2. T' = T /\ Live' = Live /\ Father' = Father
  BY DEF vars, Live, Father
<1>3. Kept'
  BY <1>2 DEF IInv, Kept, vars
<1>4. Work(d, h)'
  BY <1>1, <1>2 DEF Work, vars
<1> QED  BY <1>2, <1>3, <1>4 DEF IInv

\* Between any two steps of any operation the pointers are those of one ordered tree,
\* and its colours are right but for what the running fixup still has to do.
THEOREM InductiveInvariant == Spec => []IInv
<1>1. IInv /\ [Next]_vars => IInv'
  <2> SUFFICES ASSUME IInv, [Next]_vars PROVE IInv'
    OBVIOUS
  <2>1. CASE OperaInsert  BY <2>1, OperaInsertKeeps
  <2>2. CASE InsertRecolour  BY <2>2, InsertRecolourKeeps
  <2>3. CASE InsertRotate  BY <2>3, InsertRotateKeeps
  <2>4. CASE InsertDone  BY <2>4, InsertDoneKeeps
  <2>5. CASE OperaDelete  BY <2>5, OperaDeleteKeeps
  <2>6. CASE DeleteFixup  BY <2>6, DeleteFixupKeeps
  <2>7. CASE Release  BY <2>7, ReleaseKeeps
  <2>8. CASE OperaUpdate  BY <2>8, OperaUpdateKeeps
  <2>9. CASE UNCHANGED vars  BY <2>9, StutterKeeps
  <2> QED  BY <2>1, <2>2, <2>3, <2>4, <2>5, <2>6, <2>7, <2>8, <2>9 DEF Next
<1> QED  BY <1>1, InitKeeps, PTL DEF Spec

-----------------------------------------------------------------------------
(* What the invariant means. *)

\* Below, Height and their parts read the tree as the invariant describes it.
Reads ==
  \A d : Shape(T, Live, d) => \A x \in Live \cup {nil} : Below[x] = d[x]

\* The invariant describes what Below reads.
LEMMA InvariantReads == IInv => Reads
<1> SUFFICES ASSUME Kept, NEW d, Shape(T, Live, d)
             PROVE  \A x \in Live \cup {nil} : Below[x] = d[x]
  BY DEF IInv, Reads
<1>1. nil \notin alive /\ IsFiniteSet(Live) /\ Hanging(T, Live)
  BY LiveFacts
<1> QED  BY <1>1, BelowReads

\* At every step the nodes form a tree.
LEMMA InvariantShape ==
  ASSUME IInv
  PROVE  \E d : Shape(T, Live, d)
<1>1. PICK d, h : Work(d, h)
  BY DEF IInv
<1> QED  BY <1>1 DEF IInv, Kept, Work, Good, Sound

\* The invariant makes the tree well linked ...
LEMMA InvariantLinks == IInv => WellLinked
<1> SUFFICES ASSUME IInv PROVE WellLinked
  OBVIOUS
<1>1. PICK d : Shape(T, Live, d)
  BY InvariantShape
<1>2. PICK e, h : Work(e, h)
  BY DEF IInv
<1>3. ~Red(T, nil)
  BY <1>2 DEF IInv, Kept, Work, Good, Sound
<1>4. Below[T.root] = d[T.root]
  BY <1>1, InvariantReads DEF Reads, Shape, Linked
<1> QED  BY <1>1, <1>3, <1>4 DEF WellLinked, Shape, Linked, Spans

\* ... its keys ordered ...
LEMMA InvariantOrders == IInv => SearchOrder
<1> SUFFICES ASSUME IInv, NEW x \in Live
             PROVE  /\ \A y \in Below[Child(T, x, "left")] : T.key[y] < T.key[x]
                    /\ \A y \in Below[Child(T, x, "right")] : T.key[x] < T.key[y]
  BY DEF SearchOrder
<1>1. PICK d : Shape(T, Live, d)
  BY InvariantShape
<1>2. "left" \in Sides /\ "right" \in Sides
  BY DEF Sides
<1>3. \A s \in Sides : Below[Child(T, x, s)] = d[Child(T, x, s)]
  BY <1>1, InvariantReads DEF Reads, Shape, Linked
<1> QED  BY <1>1, <1>2, <1>3 DEF Shape, Ordered, Before

\* ... and its paths balanced.
LEMMA InvariantBalances == IInv => RedBlack
<1> SUFFICES ASSUME IInv PROVE RedBlack
  OBVIOUS
<1>1. PICK d, h : Work(d, h)
  BY DEF IInv
<1>2. nil \notin alive /\ IsFiniteSet(Live) /\ Hanging(T, Live)
      /\ pc \in {"idle", "insertFixup", "release", "deleteFixup"}
  BY LiveFacts DEF IInv, Kept
<1>3. CASE pc # "deleteFixup"
  <2>1. PICK E : Good(T, Live, d, h, E) /\ E \subseteq {cur} /\ (E # {} => pc = "insertFixup")
    BY <1>1, <1>2, <1>3 DEF Work
  <2>2. Shape(T, Live, d) /\ Balanced(T, Live, h, nil, "left") /\ NoRedPair(T, Live, E) /\ nil \notin Live
    BY <2>1, NodesAreBlocks DEF Good, Sound
  <2>3. \A x \in Live, s \in Sides : Extra(x, s) = Twice(nil, "left", x, s)
    BY <1>3, <2>2 DEF Extra, Twice
  <2>4. \A x \in Live \cup {nil} : Height[x] = h[x]
    BY <1>2, <2>2, <2>3, HeightReads
  <2>5. BlackHeight \in Nat
    BY <2>2, <2>4 DEF BlackHeight, Shape, Linked, Balanced
  <2> QED  BY <2>1, <2>2, <2>5 DEF RedBlack, NoRedPair
<1>4. CASE pc = "deleteFixup"
  <2> DEFINE E == {cur} \cup {x \in Live : x # T.root /\ Parent(T, x) = cur}
             q == Father
             qs == SideOf(T, cur)
  <2>1. Shape(T, Live, d) /\ Balanced(T, Live, h, q, qs) /\ NoRedPair(T, Live, E)
    BY <1>1, <1>4 DEF Work, Sound
  <2>2. \A x \in Live, s \in Sides : Extra(x, s) = Twice(q, qs, x, s)
    BY <1>4 DEF Extra, Twice, Father
  <2>3. \A x \in Live \cup {nil} : Height[x] = h[x]
    <3> HIDE DEF q, qs
    <3> QED  BY <1>2, <2>1, <2>2, HeightReads
  <2>4. BlackHeight \in Nat
    BY <2>1, <2>3 DEF BlackHeight, Shape, Linked, Balanced
  <2> QED  BY <1>4, <2>1, <2>4 DEF RedBlack, NoRedPair
<1> QED  BY <1>3, <1>4

\* Whatever is inserted, deleted and updated, in the middle of every fixup as after it,
\* all nodes hang in one tree whose parent pointers agree with its child pointers.
THEOREM TreeIsLinked == Spec => []WellLinked
BY InductiveInvariant, InvariantLinks, PTL

\* Every search, insertion and deletion can rely on the order of the keys.
THEOREM KeysAreOrdered == Spec => []SearchOrder
BY InductiveInvariant, InvariantOrders, PTL

\* The colours keep every path at the same number of black nodes, the link a deletion
\* works on counting for one, and no red node has a red parent but where a fixup works.
THEOREM TreeIsBalanced == Spec => []RedBlack
BY InductiveInvariant, InvariantBalances, PTL

-----------------------------------------------------------------------------
(* The loops end. *)

\* Depth, as the model reads it.
LEMMA DepthReads ==
  ASSUME Reads, NEW d, Shape(T, Live, d)
  PROVE  Depth = LevelOf(T, Live, d, cur)
<1>1. \A x \in Live : Below[x] = d[x]
  BY DEF Reads
<1>2. {x \in Live : Parent(T, cur) \in Below[x]} = Above(Live, d, Parent(T, cur))
  BY <1>1 DEF Above
<1> QED  BY <1>2 DEF Depth, LevelOf

\* The node the loop goes on with hangs higher than the father of the one before.
Climbs ==
  \E d, e : /\ Shape(T, Live, d) /\ Shape(T', Live, e)
            /\ LevelOf(T', Live, e, cur') < Cardinality(Above(Live, d, Father))

\* An iteration that climbs lowers the depth, which therefore bounds the loop.
LEMMA ClimbsIsHigher ==
  ASSUME Climbs, Reads, Reads', Live' = Live, cur # T.root
  PROVE  Depth' < Depth
<1>1. PICK d, e : /\ Shape(T, Live, d) /\ Shape(T', Live, e)
                  /\ LevelOf(T', Live, e, cur') < Cardinality(Above(Live, d, Father))
  BY DEF Climbs
<1>2. Depth = LevelOf(T, Live, d, cur)
  BY <1>1, DepthReads
<1>3. Depth = Cardinality(Above(Live, d, Father))
  BY <1>2 DEF LevelOf, Father
<1>4. \A x \in Live : Below'[x] = e[x]
  BY <1>1 DEF Reads
<1>5. {x \in Live : Parent(T', cur') \in Below'[x]} = Above(Live, e, Parent(T', cur'))
  BY <1>4 DEF Above
<1>6. Depth' = LevelOf(T', Live, e, cur')
  BY <1>5 DEF Depth, LevelOf
<1> QED  BY <1>1, <1>3, <1>6

\* A recolouring goes on with the grandfather.
LEMMA RecolourClimbs ==
  ASSUME IInv, InsertRecolour
  PROVE  Climbs /\ Live' = Live /\ cur # T.root
<1>1. PICK d, h : Work(d, h)
  BY DEF IInv
<1>2. cur \in Live /\ Good(T, Live, d, h, {cur}) /\ Red(T, Father)
  BY <1>1 DEF InsertRecolour, ParentRed, Work, Father
<1>3. PICK e : Shape(T, Live, e) /\ Shape(T', Live, e)
  BY InsertRecolourKeeps
<1>4. cur' = Grandfather /\ Live' = Live /\ IsFiniteSet(Live)
  BY <1>2, InsertRecolourKeeps DEF Good, Sound
<1> DEFINE f == Father
           g == Grandfather
           side == SideOf(T, f)
<1>5. f = Parent(T, cur) /\ g = Parent(T, f) /\ side = SideOf(T, f)
  BY DEF Father, Grandfather
<1> HIDE DEF f, g, side
<1>6. g \in Live /\ f \in Live /\ side \in Sides /\ Child(T, g, side) = f /\ cur # T.root
  BY <1>2, <1>5, RedFather DEF f
<1>7. f \in e[g]
  <2>1. f \in e[f]
    BY <1>3, <1>6, BelowFacts
  <2> QED  BY <1>3, <1>6, <2>1, BelowFacts
<1>8. LevelOf(T', Live, e, g) < Cardinality(Above(Live, e, f))
  BY <1>3, <1>4, <1>6, <1>7, HigherUp
<1> QED  BY <1>3, <1>4, <1>6, <1>8 DEF Climbs, f, g

\* The rotations of an insertion end with the node on a lower level.
LEMMA RotateClimbs ==
  ASSUME IInv, InsertRotate
  PROVE  Climbs /\ Live' = Live /\ cur # T.root
<1>1. PICK d, h : Work(d, h)
  BY DEF IInv
<1>2. cur \in Live /\ Good(T, Live, d, h, {cur}) /\ Red(T, Father)
  BY <1>1 DEF InsertRotate, ParentRed, Work, Father
<1> DEFINE f == Father
           g == Parent(T, f)
           side == SideOf(T, f)
<1>3. cur # T.root
  <2>1. f = Parent(T, cur) /\ g = Parent(T, f) /\ side = SideOf(T, f) /\ Red(T, f)
    BY <1>2 DEF Father
  <2> HIDE DEF f, g, side
  <2>2. f \in Live /\ side \in Sides /\ Child(T, g, side) = f /\ cur # T.root
    BY <1>2, <2>1, RedFather
  <2> QED  BY <2>2
<1> QED  BY <1>3, InsertRotateKeeps DEF Climbs

\* An iteration of ntyRBTreeDeleteFixup goes up, or to a red node, where it ends.
LEMMA DeleteClimbs ==
  ASSUME IInv, DeleteFixup
  PROVE  /\ Climbs \/ Red(T', cur')
         /\ Live' = Live /\ cur # T.root
<1>1. cur # T.root
  BY DEF DeleteFixup, Doubled
<1>2. Live' = Live /\ Father \in Live /\ IInv' /\ IsFiniteSet(Live)
  BY DeleteFixupKeeps, LiveFacts DEF IInv
<1>3. CASE cur' = T'.root
  <2>1. PICK d : Shape(T, Live, d)
    BY InvariantShape
  <2>2. PICK e : Shape(T', Live, e)
    <3>1. \E e, h : Work(e, h)'
      BY <1>2 DEF IInv
    <3>2. Kept'
      BY <1>2 DEF IInv
    <3> QED  BY <1>2, <3>1, <3>2 DEF Kept, Work, Good, Sound
  <2>3. Father \in Above(Live, d, Father) /\ IsFiniteSet(Above(Live, d, Father))
    <3>1. Father \in d[Father]
      BY <1>2, <2>1, BelowFacts
    <3> QED  BY <1>2, <3>1, FS_Subset DEF Above
  <2>4. Cardinality({}) = 0 /\ Cardinality({}) < Cardinality(Above(Live, d, Father))
    BY <2>3, FewerMembers, FS_EmptySet
  <2>5. LevelOf(T', Live, e, cur') < Cardinality(Above(Live, d, Father))
    BY <1>3, <2>4 DEF LevelOf
  <2> QED  BY <1>1, <1>2, <2>1, <2>2, <2>5 DEF Climbs
<1>4. CASE cur' = Father /\ \E d : Shape(T, Live, d) /\ Shape(T', Live, d)
  <2>1. PICK d : Shape(T, Live, d) /\ Shape(T', Live, d)
    BY <1>4
  <2>2. Father \in d[Father]
    BY <1>2, <2>1, BelowFacts
  <2>3. LevelOf(T', Live, d, Father) < Cardinality(Above(Live, d, Father))
    BY <1>2, <2>1, <2>2, HigherUp
  <2> QED  BY <1>1, <1>2, <1>4, <2>1, <2>3 DEF Climbs
<1> QED  BY <1>1, <1>2, <1>3, <1>4, DeleteFixupKeeps

\* While a fixup runs, each of its iterations goes up or ends the loop.
LEMMA StepClimbs ==
  ASSUME IInv, Next, Reads, Reads', pc # "idle", pc' = pc
  PROVE  Depth' < Depth \/ (pc = "deleteFixup" /\ Red(T', cur'))
<1>1. CASE OperaInsert  BY <1>1 DEF OperaInsert
<1>2. CASE InsertRecolour  BY <1>2, RecolourClimbs, ClimbsIsHigher
<1>3. CASE InsertRotate  BY <1>3, RotateClimbs, ClimbsIsHigher
<1>4. CASE InsertDone  BY <1>4 DEF InsertDone
<1>5. CASE OperaDelete  BY <1>5 DEF OperaDelete
<1>6. CASE DeleteFixup
  <2>1. pc = "deleteFixup"
    BY <1>6 DEF DeleteFixup, Doubled
  <2> QED  BY <1>6, <2>1, DeleteClimbs, ClimbsIsHigher
<1>7. CASE Release  BY <1>7 DEF Release
<1>8. CASE OperaUpdate  BY <1>8 DEF OperaUpdate
<1> QED  BY <1>1, <1>2, <1>3, <1>4, <1>5, <1>6, <1>7, <1>8 DEF Next

\* Neither fixup can go on for ever, in a tree of any size.
THEOREM LoopsClimb == Spec => FixupClimbs
<1>1. IInv /\ Reads /\ Reads' /\ [Next]_vars =>
        [pc # "idle" /\ pc' = pc =>
           \/ Depth' < Depth
           \/ pc = "deleteFixup" /\ Red(T', cur')]_vars
  BY StepClimbs
<1> QED  BY <1>1, InductiveInvariant, InvariantReads, PTL DEF Spec, FixupClimbs

-----------------------------------------------------------------------------
(* The tree is a map. *)

\* f is the map whose entries the nodes S of tree t hold.
Maps(f, t, S) ==
  /\ f = [k \in DOMAIN f |-> f[k]]
  /\ DOMAIN f = {t.key[x] : x \in S}
  /\ \A x \in S : f[t.key[x]] = t.value[x]

Unique(t, S) == \A x, y \in S : t.key[x] = t.key[y] => x = y

\* No two nodes of the tree have the same key.
LEMMA KeysUnique == IInv => Unique(T, Live)
<1> SUFFICES ASSUME IInv PROVE Unique(T, Live)
  OBVIOUS
<1>1. PICK d : Shape(T, Live, d)
  BY InvariantShape
<1>2. IsFiniteSet(Live)
  BY LiveFacts DEF IInv
<1> QED  BY <1>1, <1>2, KeysDiffer DEF Unique

\* What ntyRBTreeInterfaceSearch finds is what the nodes hold.
LEMMA FoundMaps == IInv => Maps(Found, T, Live)
<1> SUFFICES ASSUME IInv PROVE Maps(Found, T, Live)
  OBVIOUS
<1>1. nil \notin Live /\ Unique(T, Live) /\ \A x \in Live : T.key[x] \in Keys
  BY LiveFacts, KeysUnique DEF IInv, Kept, Keys
<1>2. ASSUME NEW x \in Live  PROVE InterfaceSearch(T, T.key[x]) = {T.value[x]}
  <2>1. Search(T, T.key[x]) = x
    BY <1>1, SearchReads DEF Unique
  <2> QED  BY <1>1, <2>1 DEF InterfaceSearch, OperaSearch
<1>3. ASSUME NEW k, \A x \in Live : T.key[x] # k  PROVE InterfaceSearch(T, k) = {}
  BY <1>3, SearchReads DEF InterfaceSearch, OperaSearch
<1>4. {k \in Keys : InterfaceSearch(T, k) # {}} = {T.key[x] : x \in Live}
  BY <1>1, <1>2, <1>3
<1>5. DOMAIN Found = {T.key[x] : x \in Live} /\ Found = [k \in DOMAIN Found |-> Found[k]]
  BY <1>4 DEF Found
<1>6. ASSUME NEW x \in Live  PROVE Found[T.key[x]] = T.value[x]
  <2>1. Found[T.key[x]] = CHOOSE value \in InterfaceSearch(T, T.key[x]) : TRUE
    BY <1>4 DEF Found
  <2> QED  BY <1>2, <2>1
<1> QED  BY <1>5, <1>6 DEF Maps

\* Nodes that hold what they held hold the same map.
LEMMA MapsSame ==
  ASSUME NEW t, NEW u, NEW S, NEW f, NEW g, Maps(f, t, S), Maps(g, u, S), SameEntries(u, t)
  PROVE  g = f
<1>1. DOMAIN g = DOMAIN f
  BY DEF Maps, SameEntries
<1>2. \A k \in DOMAIN f : g[k] = f[k]
  BY DEF Maps, SameEntries
<1> QED  BY <1>1, <1>2 DEF Maps

\* One node more is one entry more.
LEMMA MapsAdded ==
  ASSUME NEW t, NEW u, NEW S, NEW f, NEW g, NEW n, n \notin S, S \subseteq Blocks, n \in Blocks,
         Maps(f, t, S), Maps(g, u, S \cup {n}),
         NEW p \in Pairs, \A x \in S : t.key[x] # p[1], NEW y, NEW s, Added(u, t, n, p[1], p[2], y, s)
  PROVE  Map!Insert(f, g)
<1>1. /\ \A x \in S : u.key[x] = t.key[x] /\ u.value[x] = t.value[x]
      /\ u.key[n] = p[1] /\ u.value[n] = p[2]
  BY DEF Added
<1>2. p[1] \notin DOMAIN f /\ DOMAIN g = DOMAIN f \cup {p[1]}
  BY <1>1 DEF Maps
<1>3. \A k \in DOMAIN g : g[k] = IF k = p[1] THEN p[2] ELSE f[k]
  BY <1>1, <1>2 DEF Maps
<1>4. g = [k \in DOMAIN f \cup {p[1]} |-> IF k = p[1] THEN p[2] ELSE f[k]]
  BY <1>2, <1>3 DEF Maps
<1> QED  BY <1>2, <1>4 DEF Map!Insert

\* Taking out a node, after the entry of the one that is deleted has been replaced by
\* its own, removes the entry of the deleted key.
LEMMA MapsRemoved ==
  ASSUME NEW t, NEW u, NEW S, NEW f, NEW g, NEW z \in S, NEW y \in S, S \subseteq Blocks,
         Unique(t, S), Maps(f, t, S), Maps(g, u, S \ {y}),
         NEW x, NEW p, NEW s, Removed(u, t, z, y, x, p, s)
  PROVE  Map!Remove(f, g)
<1> DEFINE id == t.key[z]
<1>1. /\ \A w \in S : w # z => u.key[w] = t.key[w] /\ u.value[w] = t.value[w]
      /\ u.key[z] = t.key[y] /\ u.value[z] = t.value[y]
  BY DEF Removed
<1>2. id \in DOMAIN f
  BY DEF Maps
<1>3. DOMAIN g = DOMAIN f \ {id}
  <2>1. ASSUME NEW w \in S \ {y}  PROVE u.key[w] \in DOMAIN f \ {id}
    BY <1>1 DEF Maps, Unique
  <2>2. ASSUME NEW w \in S, w # z  PROVE \E v \in S \ {y} : u.key[v] = t.key[w]
    BY <1>1, <2>2
  <2> QED  BY <2>1, <2>2 DEF Maps
<1>4. \A k \in DOMAIN g : g[k] = f[k]
  BY <1>1 DEF Maps
<1> HIDE DEF id
<1>5. g = [k \in DOMAIN f \ {id} |-> f[k]]
  BY <1>3, <1>4 DEF Maps
<1> QED  BY <1>2, <1>5 DEF Map!Remove

\* Another value in a node is another value under its key.
LEMMA MapsUpdated ==
  ASSUME NEW t, NEW u, NEW S, NEW f, NEW g, NEW y \in S,
         Unique(t, S), Maps(f, t, S), Maps(g, u, S),
         NEW p \in Pairs, t.key[y] = p[1], u.key = t.key,
         \A x \in S : u.value[x] = IF x = y THEN p[2] ELSE t.value[x]
  PROVE  Map!Update(f, g)
<1>1. p[1] \in DOMAIN f /\ DOMAIN g = DOMAIN f
  BY DEF Maps
<1>2. \A k \in DOMAIN f : g[k] = IF k = p[1] THEN p[2] ELSE f[k]
  BY DEF Maps, Unique
<1>3. g = [f EXCEPT ![p[1]] = p[2]]
  BY <1>1, <1>2 DEF Maps
<1> QED  BY <1>1, <1>3 DEF Map!Update

-----------------------------------------------------------------------------

\* The empty tree finds nothing.
LEMMA InitIsEmpty == Init => Map!Init
<1> SUFFICES ASSUME Init PROVE Map!Init
  OBVIOUS
<1>1. Maps(Found, T, Live) /\ Live = {}
  BY InitKeeps, FoundMaps DEF Init, Live
<1>2. DOMAIN Found = {} /\ Found = [k \in DOMAIN Found |-> Found[k]]
  BY <1>1 DEF Maps
<1>3. Found = [id \in {} |-> id]
  BY <1>2
<1> QED  BY <1>3 DEF Map!Init

\* The nodes of the tree are blocks.
LEMMA LiveBlocks == IInv => Live \subseteq Blocks
BY LiveFacts DEF IInv, Kept, Blocks

\* Every step is one operation on the map or leaves it as it is.
LEMMA StepIsOperation ==
  ASSUME IInv, IInv', [Next]_vars, Maps(Found, T, Live), Maps(Found, T, Live)',
         Unique(T, Live), Live \subseteq Blocks
  PROVE  [Map!Next]_Found
<1>1. ASSUME SameEntries(T', T), Live' = Live  PROVE Found' = Found
  BY <1>1, MapsSame
<1>2. CASE OperaInsert
  <2>1. PICK p \in Pairs : \E n, y, s :
          /\ n \notin Live /\ n \in Blocks /\ Live' = Live \cup {n}
          /\ \A x \in Live : T.key[x] # p[1]
          /\ Added(T', T, n, p[1], p[2], y, s)
    BY <1>2, OperaInsertKeeps
  <2>2. PICK n, y, s :
          /\ n \notin Live /\ n \in Blocks /\ Live' = Live \cup {n}
          /\ \A x \in Live : T.key[x] # p[1]
          /\ Added(T', T, n, p[1], p[2], y, s)
    BY <2>1
  <2>3. Maps(Found', T', Live \cup {n})
    BY <2>2
  <2>4. Map!Insert(Found, Found')
    BY <2>2, <2>3, MapsAdded
  <2> QED  BY <2>4 DEF Map!Next, Map!Operation
<1>3. CASE OperaDelete
  <2>1. PICK z, y, x, p, s :
          /\ z \in Live /\ y \in Live /\ Live' = Live \ {y}
          /\ Removed(T', T, z, y, x, p, s)
    BY <1>3, OperaDeleteKeeps
  <2>2. Maps(Found', T', Live \ {y})
    BY <2>1
  <2>3. Map!Remove(Found, Found')
    BY <2>1, <2>2, MapsRemoved
  <2> QED  BY <2>3 DEF Map!Next, Map!Operation
<1>4. CASE OperaUpdate
  <2>1. PICK p \in Pairs, y \in Live :
          /\ T.key[y] = p[1] /\ T'.key = T.key
          /\ \A x \in Live : T'.value[x] = IF x = y THEN p[2] ELSE T.value[x]
    BY <1>4, OperaUpdateKeeps
  <2>2. Maps(Found', T', Live)
    BY <1>4, OperaUpdateKeeps
  <2>3. Map!Update(Found, Found')
    BY <2>1, <2>2, MapsUpdated
  <2> QED  BY <2>3 DEF Map!Next, Map!Operation
<1>5. CASE InsertRecolour \/ InsertRotate \/ InsertDone
  BY <1>1, <1>5, InsertRecolourKeeps, InsertRotateKeeps, InsertDoneKeeps
<1>6. CASE DeleteFixup \/ Release
  BY <1>1, <1>6, DeleteFixupKeeps, ReleaseKeeps
<1>7. CASE UNCHANGED vars
  BY <1>1, <1>7, StutterKeeps DEF SameEntries
<1> QED  BY <1>2, <1>3, <1>4, <1>5, <1>6, <1>7 DEF Next

\* The tree implements the map its interface promises.
THEOREM TreeIsMap == Spec => ImplementsMap
<1> DEFINE Holds == Maps(Found, T, Live)
           Apart == Unique(T, Live)
           Inside == Live \subseteq Blocks
<1>1. Init => Map!Init
  BY InitIsEmpty
<1>2. IInv => Holds /\ Apart /\ Inside
  BY FoundMaps, KeysUnique, LiveBlocks
<1>3. IInv /\ IInv' /\ Holds /\ Holds' /\ Apart /\ Inside /\ [Next]_vars => [Map!Next]_Found
  BY StepIsOperation
<1> HIDE DEF Holds, Apart, Inside
<1> QED  BY <1>1, <1>2, <1>3, InductiveInvariant, PTL DEF Spec, ImplementsMap, Map!Spec

-----------------------------------------------------------------------------
(* Lists of nodes. *)

\* A set of natural numbers has a least one.
LEMMA LeastNatural ==
  ASSUME NEW S \in SUBSET Nat, S # {}
  PROVE  \E j \in S : \A k \in S : j <= k
<1> DEFINE Smaller == OpToRel(<, Nat)
<1>1. \A x, y \in Nat : x < y => <<x, y>> \in Smaller
  BY DEF OpToRel
<1>2. IsWellFoundedOn(Smaller, Nat)
  BY NatLessThanWellFounded
<1> HIDE DEF Smaller
<1>3. PICK j \in S : \A k \in S : ~(<<k, j>> \in Smaller)
  BY <1>2, WFMin
<1>4. ASSUME NEW k \in S, ~(j <= k)  PROVE FALSE
  <2>1. j \in Nat /\ k \in Nat
    OBVIOUS
  <2>2. k < j
    BY <1>4, <2>1
  <2>3. <<k, j>> \in Smaller
    BY <1>1, <2>1, <2>2
  <2> QED  BY <1>3, <2>3
<1> QED  BY <1>4

\* s has each member of A once and nothing else.
Lists(s, A) ==
  /\ s \in Seq(A)
  /\ \A a \in A : \E i \in 1..Len(s) : s[i] = a
  /\ \A i, j \in 1..Len(s) : s[i] = s[j] => i = j

\* u is s, of members of A, with t, of members of B, behind it.
Behind(u, s, A, t, B) ==
  /\ Len(s) \in Nat /\ Len(t) \in Nat
  /\ u \in Seq(A \cup B) /\ Len(u) = Len(s) + Len(t)
  /\ \A i \in 1..Len(s) : u[i] = s[i] /\ s[i] \in A
  /\ \A i \in 1..Len(t) : u[Len(s) + i] = t[i] /\ t[i] \in B
  /\ \A i \in 1..Len(u) : i \in 1..Len(s) \/ \E k \in 1..Len(t) : i = Len(s) + k

\* Where the members of two sequences, one behind the other, come from.
LEMMA Joined ==
  ASSUME NEW A, NEW s \in Seq(A), NEW B, NEW t \in Seq(B)
  PROVE  Behind(s \o t, s, A, t, B)
<1>1. s \in Seq(A \cup B) /\ t \in Seq(A \cup B) /\ Len(s) \in Nat /\ Len(t) \in Nat
  BY SeqMonotonic, LenProperties
<1>2. /\ s \o t \in Seq(A \cup B) /\ Len(s \o t) = Len(s) + Len(t)
      /\ \A i \in 1..(Len(s) + Len(t)) :
           (s \o t)[i] = IF i <= Len(s) THEN s[i] ELSE t[i - Len(s)]
  BY <1>1, ConcatProperties
<1>3. (\A i \in 1..Len(s) : s[i] \in A) /\ (\A i \in 1..Len(t) : t[i] \in B)
  BY ElementOfSeq
<1>4. ASSUME NEW i \in 1..(Len(s) + Len(t)), i \notin 1..Len(s)
      PROVE  \E k \in 1..Len(t) : i = Len(s) + k
  <2>1. i - Len(s) \in 1..Len(t) /\ i = Len(s) + (i - Len(s))
    BY <1>1, <1>4
  <2> QED  BY <2>1
<1>5. ASSUME NEW i \in 1..Len(t)  PROVE (s \o t)[Len(s) + i] = t[i]
  <2>1. Len(s) + i \in 1..(Len(s) + Len(t)) /\ ~(Len(s) + i <= Len(s)) /\ Len(s) + i - Len(s) = i
    BY <1>1
  <2> QED  BY <1>2, <2>1
<1>6. \A i \in 1..Len(s) : (s \o t)[i] = s[i]
  BY <1>1, <1>2
<1> QED  BY <1>1, <1>2, <1>3, <1>4, <1>5, <1>6 DEF Behind

\* Two lists of sets with nothing in common are a list of both.
LEMMA ListsJoined ==
  ASSUME NEW A, NEW B, A \cap B = {}, NEW s, NEW t, Lists(s, A), Lists(t, B)
  PROVE  Lists(s \o t, A \cup B)
<1> DEFINE u == s \o t
<1>1. s \in Seq(A) /\ t \in Seq(B)
  BY DEF Lists
<1>2. Behind(u, s, A, t, B)
  BY <1>1, Joined
<1> USE DEF Behind
<1> HIDE DEF u
<1>3. ASSUME NEW a \in A \cup B  PROVE \E i \in 1..Len(u) : u[i] = a
  <2>1. CASE a \in A
    <3>1. PICK i \in 1..Len(s) : s[i] = a
      BY <2>1 DEF Lists
    <3> QED  BY <1>2, <3>1
  <2>2. CASE a \in B
    <3>1. PICK i \in 1..Len(t) : t[i] = a
      BY <2>2 DEF Lists
    <3>2. Len(s) + i \in 1..Len(u)
      BY <1>2
    <3> QED  BY <1>2, <3>1, <3>2
  <2> QED  BY <2>1, <2>2
<1>4. ASSUME NEW i \in 1..Len(u), NEW j \in 1..Len(u), u[i] = u[j]  PROVE i = j
  <2>1. CASE i \in 1..Len(s) /\ j \in 1..Len(s)
    BY <1>2, <1>4, <2>1 DEF Lists
  <2>2. CASE i \in 1..Len(s) /\ j \notin 1..Len(s)
    BY <1>2, <1>4, <2>2
  <2>3. CASE i \notin 1..Len(s) /\ j \in 1..Len(s)
    BY <1>2, <1>4, <2>3
  <2>4. CASE i \notin 1..Len(s) /\ j \notin 1..Len(s)
    <3>1. PICK k \in 1..Len(t) : i = Len(s) + k
      BY <1>2, <2>4
    <3>2. PICK l \in 1..Len(t) : j = Len(s) + l
      BY <1>2, <2>4
    <3> QED  BY <1>2, <1>4, <3>1, <3>2 DEF Lists
  <2> QED  BY <2>1, <2>2, <2>3, <2>4
<1> QED  BY <1>2, <1>3, <1>4 DEF Lists, u

\* A list has as many entries as its set has members.
LEMMA ListsLength ==
  ASSUME NEW A, NEW s, Lists(s, A)
  PROVE  /\ IsFiniteSet(A) /\ Len(s) \in Nat /\ Len(s) = Cardinality(A)
         /\ {s[i] : i \in 1..Len(s)} = A
<1>1. /\ s \in Seq(A) /\ Len(s) \in Nat /\ DOMAIN s = 1..Len(s)
      /\ s \in [1..Len(s) -> A]
  BY LenProperties DEF Lists
<1>2. s \in Bijection(1..Len(s), A)
  BY <1>1 DEF Lists, Bijection, Injection, Surjection, IsInjective
<1>3. IsFiniteSet(1..Len(s)) /\ Cardinality(1..Len(s)) = Len(s)
  BY <1>1, FS_Interval
<1>4. ExistsBijection(1..Len(s), A)
  BY <1>2 DEF ExistsBijection
<1>5. IsFiniteSet(A) /\ Cardinality(A) = Cardinality(1..Len(s))
  BY <1>3, <1>4, FS_Bijection
<1> QED  BY <1>1, <1>3, <1>5 DEF Lists

Orders == {"pre", "in", "post"}

\* A node with two lists is a list of the node and what is in them.
LEMMA PlacedLists ==
  ASSUME NEW order \in Orders, NEW A, NEW B, A \cap B = {}, NEW x, x \notin A \cup B,
         NEW l, NEW r, Lists(l, A), Lists(r, B)
  PROVE  Lists(Placed(order, x, l, r), {x} \cup A \cup B)
<1>1. Lists(<<x>>, {x})
  BY DEF Lists
<1>2. CASE order = "pre"
  <2>1. Lists(<<x>> \o l, {x} \cup A)
    BY <1>1, ListsJoined
  <2>2. Lists((<<x>> \o l) \o r, ({x} \cup A) \cup B)
    BY <2>1, ListsJoined
  <2> QED  BY <1>2, <2>2 DEF Placed
<1>3. CASE order = "in"
  <2>1. Lists(l \o <<x>>, A \cup {x})
    BY <1>1, ListsJoined
  <2>2. Lists((l \o <<x>>) \o r, (A \cup {x}) \cup B)
    BY <2>1, ListsJoined
  <2>3. (A \cup {x}) \cup B = {x} \cup A \cup B
    OBVIOUS
  <2> QED  BY <1>3, <2>2, <2>3 DEF Placed
<1>4. CASE order = "post"
  <2>1. Lists(l \o r, A \cup B)
    BY ListsJoined
  <2>2. Lists((l \o r) \o <<x>>, (A \cup B) \cup {x})
    BY <1>1, <2>1, ListsJoined
  <2>3. (A \cup B) \cup {x} = {x} \cup A \cup B
    OBVIOUS
  <2> QED  BY <1>4, <2>2, <2>3 DEF Placed
<1> QED  BY <1>2, <1>3, <1>4 DEF Orders

-----------------------------------------------------------------------------
(* The three traversals. *)

\* w is the list of each of the nodes D and what hangs below it.
Walks(order, w, D) ==
  w = [x \in D \cup {nil} |->
         IF x = nil THEN <<>>
         ELSE Placed(order, x, w[Child(T, x, "left")], w[Child(T, x, "right")])]

\* A traversal ends.
LEMMA TraversalExists ==
  ASSUME NEW order, NEW S, NEW d, Shape(T, S, d), IsFiniteSet(S)
  PROVE  \E w : Walks(order, w, S)
<1> DEFINE V == {x \in S : ~ \E w : Walks(order, w, d[x])}
<1>1. ASSUME NEW x \in S, \A s \in Sides : Child(T, x, s) \notin V
      PROVE  x \notin V
  <2> DEFINE a == Child(T, x, "left")
             b == Child(T, x, "right")
  <2>1. /\ "left" \in Sides /\ "right" \in Sides /\ Other("left") = "right"
        /\ nil \notin S /\ d[nil] = {} /\ a \in S \cup {nil} /\ b \in S \cup {nil}
        /\ d[x] = {x} \cup d[a] \cup d[b] /\ d[x] \subseteq S
    <3>1. "left" \in Sides /\ "right" \in Sides /\ Other("left") = "right"
      BY DEF Sides, Other
    <3> QED  BY <3>1, BelowFacts DEF Shape, Linked, Spans
  <2>2. x \notin d[a] /\ x \notin d[b] /\ d[a] \cap d[b] = {}
    BY <2>1, SidesDiffer
  <2>3. ASSUME NEW c \in {a, b}
        PROVE  /\ \E w : Walks(order, w, d[c])
               /\ \A y \in d[c], s \in Sides : Child(T, y, s) \in d[c] \cup {nil}
               /\ c \in d[c] \cup {nil}
    <3>1. CASE c = nil
      <4>1. Walks(order, [y \in {nil} |-> <<>>], {})
        BY DEF Walks
      <4> QED  BY <2>1, <3>1, <4>1
    <3>2. CASE c \in S
      <4>1. c \notin V
        BY <1>1, <2>1
      <4>2. ASSUME NEW y \in d[c], NEW s \in Sides, Child(T, y, s) # nil
            PROVE  Child(T, y, s) \in d[c]
        <5>1. y \in S /\ Child(T, y, s) \in S
          BY <3>2, <4>2, BelowFacts DEF Shape, Linked
        <5>2. Child(T, y, s) \in d[y] /\ d[y] \subseteq d[c]
          BY <3>2, <5>1, BelowFacts, BelowTransitive
        <5> QED  BY <5>2
      <4>3. c \in d[c]
        BY <3>2, BelowFacts
      <4> QED  BY <3>2, <4>1, <4>2, <4>3
    <3> QED  BY <2>1, <3>1, <3>2
  <2> HIDE DEF a, b, V
  <2>4. PICK v : Walks(order, v, d[a])
    BY <2>3
  <2>5. PICK w : Walks(order, w, d[b])
    BY <2>3
  <2> DEFINE list(y) == IF y \in d[a] THEN v[y] ELSE IF y \in d[b] THEN w[y] ELSE <<>>
             top == Placed(order, x, list(a), list(b))
             g == [y \in d[x] \cup {nil} |-> IF y = x THEN top ELSE list(y)]
  <2>6. v[nil] = <<>> /\ w[nil] = <<>>
    BY <2>4, <2>5 DEF Walks
  <2>7. nil \notin d[a] /\ nil \notin d[b] /\ x # nil /\ nil \notin d[x]
    BY <2>1
  <2>8. ASSUME NEW y \in d[a]
        PROVE  list(y) = Placed(order, y, list(Child(T, y, "left")), list(Child(T, y, "right")))
    <3>1. v[y] = Placed(order, y, v[Child(T, y, "left")], v[Child(T, y, "right")])
      BY <2>4, <2>7 DEF Walks
    <3>2. ASSUME NEW s \in Sides  PROVE list(Child(T, y, s)) = v[Child(T, y, s)]
      BY <2>3, <2>6, <2>7
    <3> QED  BY <2>1, <3>1, <3>2
  <2>9. ASSUME NEW y \in d[b]
        PROVE  list(y) = Placed(order, y, list(Child(T, y, "left")), list(Child(T, y, "right")))
    <3>1. w[y] = Placed(order, y, w[Child(T, y, "left")], w[Child(T, y, "right")])
      BY <2>5, <2>7 DEF Walks
    <3>2. ASSUME NEW s \in Sides  PROVE list(Child(T, y, s)) = w[Child(T, y, s)]
      BY <2>2, <2>3, <2>6, <2>7
    <3>3. list(y) = w[y]
      BY <2>2
    <3> HIDE DEF list
    <3> QED  BY <2>1, <3>1, <3>2, <3>3
  <2>10. list(nil) = <<>>
    BY <2>7
  <2>11. ASSUME NEW y \in d[x] \cup {nil}, NEW s \in Sides, y # nil
         PROVE  g[Child(T, y, s)] = list(Child(T, y, s))
    <3> HIDE DEF list, top
    <3>1. Child(T, y, s) \in d[a] \cup d[b] \cup {nil}
      <4>1. CASE y = x
        <5>1. s \in {"left", "right"}
          BY DEF Sides
        <5> QED  BY <2>3, <4>1, <5>1 DEF a, b
      <4>2. CASE y # x
        BY <2>1, <2>3, <2>11, <4>2
      <4> QED  BY <4>1, <4>2
    <3>2. Child(T, y, s) # x /\ Child(T, y, s) \in d[x] \cup {nil}
      BY <2>1, <2>2, <2>7, <3>1
    <3> QED  BY <3>2
  <2>12. ASSUME NEW y \in d[x] \cup {nil}
         PROVE  g[y] = IF y = nil THEN <<>>
                       ELSE Placed(order, y, g[Child(T, y, "left")], g[Child(T, y, "right")])
    <3> HIDE DEF list
    <3>1. g[y] = IF y = x THEN top ELSE list(y)
      OBVIOUS
    <3> HIDE DEF g
    <3>2. CASE y = nil
      BY <2>7, <2>10, <3>1, <3>2
    <3>3. CASE y # nil
      <4>1. /\ g[Child(T, y, "left")] = list(Child(T, y, "left"))
            /\ g[Child(T, y, "right")] = list(Child(T, y, "right"))
        BY <2>1, <2>11, <3>3
      <4>2. CASE y = x
        BY <3>1, <3>3, <4>1, <4>2 DEF a, b
      <4>3. CASE y # x
        BY <2>1, <2>8, <2>9, <3>1, <3>3, <4>1, <4>3
      <4> QED  BY <4>2, <4>3
    <3> QED  BY <3>2, <3>3
  <2>13. Walks(order, g, d[x])
    <3>1. g = [y \in d[x] \cup {nil} |-> g[y]]
      OBVIOUS
    <3> HIDE DEF g
    <3> QED  BY <2>12, <3>1 DEF Walks
  <2> HIDE DEF g
  <2> QED  BY <2>13 DEF V
<1>2. V = {}
  <2> HIDE DEF V
  <2>1. V \in SUBSET S  BY DEF V
  <2> QED  BY <1>1, <2>1, TreeInduction
<1>3. CASE T.root = nil
  <2>1. S = {}
    BY <1>3 DEF Shape, Spans
  <2>2. Walks(order, [y \in {nil} |-> <<>>], {})
    BY DEF Walks
  <2> QED  BY <2>1, <2>2
<1>4. CASE T.root # nil
  <2>1. T.root \in S /\ d[T.root] = S
    BY <1>4 DEF Shape, Linked, Spans
  <2> QED  BY <1>2, <2>1
<1> QED  BY <1>3, <1>4

Rising(s) == \A i, j \in 1..Len(s) : i < j => T.key[s[i]] < T.key[s[j]]

\* Nothing in s stands behind a node it hangs below.
ChildrenFirst(d, s) == \A i, j \in 1..Len(s) : i # j /\ s[i] \in d[s[j]] => i < j

\* Of two sequences one behind the other ...
LEMMA RisingJoined ==
  ASSUME NEW A, NEW B, NEW s \in Seq(A), NEW t \in Seq(B), Rising(s), Rising(t),
         \A a \in A, b \in B : T.key[a] < T.key[b]
  PROVE  Rising(s \o t)
<1> DEFINE u == s \o t
<1>1. Behind(u, s, A, t, B)
  BY Joined
<1> HIDE DEF u
<1>2. ASSUME NEW i \in 1..Len(u), NEW j \in 1..Len(u), i < j
      PROVE  T.key[u[i]] < T.key[u[j]]
  <2>1. CASE j \in 1..Len(s)
    <3>1. i \in 1..Len(s)
      BY <1>1, <1>2, <2>1 DEF Behind
    <3> QED  BY <1>1, <1>2, <2>1, <3>1 DEF Behind, Rising
  <2>2. CASE j \notin 1..Len(s)
    <3>1. PICK l \in 1..Len(t) : j = Len(s) + l
      BY <1>1, <2>2 DEF Behind
    <3>2. CASE i \in 1..Len(s)
      BY <1>1, <3>1, <3>2 DEF Behind
    <3>3. CASE i \notin 1..Len(s)
      <4>1. PICK k \in 1..Len(t) : i = Len(s) + k
        BY <1>1, <3>3 DEF Behind
      <4>2. k < l
        BY <1>1, <1>2, <3>1, <4>1 DEF Behind
      <4> QED  BY <1>1, <3>1, <4>1, <4>2 DEF Behind, Rising
    <3> QED  BY <3>2, <3>3
  <2> QED  BY <2>1, <2>2
<1> QED  BY <1>2 DEF Rising, u

\* ... and nothing in the second hanging below a node of the first.
LEMMA ChildrenFirstJoined ==
  ASSUME NEW d, NEW A, NEW B, NEW s \in Seq(A), NEW t \in Seq(B),
         ChildrenFirst(d, s), ChildrenFirst(d, t), \A a \in A, b \in B : b \notin d[a]
  PROVE  ChildrenFirst(d, s \o t)
<1> DEFINE u == s \o t
<1>1. Behind(u, s, A, t, B)
  BY Joined
<1> HIDE DEF u
<1>2. ASSUME NEW i \in 1..Len(u), NEW j \in 1..Len(u), i # j, u[i] \in d[u[j]]
      PROVE  i < j
  <2>1. CASE i \in 1..Len(s) /\ j \in 1..Len(s)
    BY <1>1, <1>2, <2>1 DEF Behind, ChildrenFirst
  <2>2. CASE i \in 1..Len(s) /\ j \notin 1..Len(s)
    BY <1>1, <2>2 DEF Behind
  <2>3. CASE i \notin 1..Len(s) /\ j \in 1..Len(s)
    <3>1. PICK k \in 1..Len(t) : i = Len(s) + k
      BY <1>1, <2>3 DEF Behind
    <3> QED  BY <1>1, <1>2, <2>3, <3>1 DEF Behind
  <2>4. CASE i \notin 1..Len(s) /\ j \notin 1..Len(s)
    <3>1. PICK k \in 1..Len(t) : i = Len(s) + k
      BY <1>1, <2>4 DEF Behind
    <3>2. PICK l \in 1..Len(t) : j = Len(s) + l
      BY <1>1, <2>4 DEF Behind
    <3>3. k # l /\ t[k] \in d[t[l]]
      BY <1>1, <1>2, <3>1, <3>2 DEF Behind
    <3>4. k < l
      BY <3>3 DEF ChildrenFirst
    <3> QED  BY <1>1, <3>1, <3>2, <3>4 DEF Behind
  <2> QED  BY <2>1, <2>2, <2>3, <2>4
<1> QED  BY <1>2 DEF ChildrenFirst, u

\* Each traversal lists every node once, the one in order by rising keys, the one
\* after its children so that no node stands behind one above it.
LEMMA TraversalReads ==
  ASSUME NEW order \in Orders, NEW S, NEW d, Shape(T, S, d), IsFiniteSet(S),
         NEW w, Walks(order, w, S)
  PROVE  \A x \in S \cup {nil} :
           /\ Lists(w[x], d[x])
           /\ order = "in" => Rising(w[x])
           /\ order = "post" => ChildrenFirst(d, w[x])
<1> DEFINE Good1(x) == /\ Lists(w[x], d[x])
                       /\ order = "in" => Rising(w[x])
                       /\ order = "post" => ChildrenFirst(d, w[x])
           V == {x \in S : ~Good1(x)}
<1>1. Good1(nil)
  <2>1. w[nil] = <<>> /\ d[nil] = {}
    BY DEF Walks, Shape, Spans
  <2> QED  BY <2>1 DEF Lists, Rising, ChildrenFirst
<1>2. ASSUME NEW x \in S, \A s \in Sides : Child(T, x, s) \notin V
      PROVE  x \notin V
  <2> DEFINE a == Child(T, x, "left")
             b == Child(T, x, "right")
  <2>1. /\ "left" \in Sides /\ "right" \in Sides /\ Other("left") = "right"
        /\ nil \notin S /\ a \in S \cup {nil} /\ b \in S \cup {nil}
        /\ d[x] = {x} \cup d[a] \cup d[b]
    <3>1. "left" \in Sides /\ "right" \in Sides /\ Other("left") = "right"
      BY DEF Sides, Other
    <3> QED  BY <3>1, BelowFacts DEF Shape, Linked, Spans
  <2>2. x \notin d[a] /\ x \notin d[b] /\ d[a] \cap d[b] = {}
    BY <2>1, SidesDiffer
  <2>3. w[x] = Placed(order, x, w[a], w[b])
    BY <2>1 DEF Walks
  <2>4. Good1(a) /\ Good1(b)
    BY <1>1, <1>2, <2>1
  <2> HIDE DEF a, b
  <2>5. w[a] \in Seq(d[a]) /\ w[b] \in Seq(d[b]) /\ <<x>> \in Seq({x})
    BY <2>4 DEF Lists
  <2>6. Lists(w[x], d[x])
    BY <2>1, <2>2, <2>3, <2>4, PlacedLists
  <2>7. ASSUME order = "in"  PROVE Rising(w[x])
    <3>1. Rising(<<x>>)
      BY DEF Rising
    <3>2. (\A y \in d[a] : T.key[y] < T.key[x]) /\ (\A y \in d[b] : T.key[x] < T.key[y])
      BY <2>1 DEF Shape, Ordered, Before, a, b
    <3>3. \A y \in d[a] \cup {x} \cup d[b] : T.key[y] \in Nat
      BY <2>1, BelowFacts, KeysAreNumbers
    <3>4. Rising(w[a] \o <<x>>) /\ w[a] \o <<x>> \in Seq(d[a] \cup {x})
      <4> DEFINE X == {x}
      <4>1. <<x>> \in Seq(X) /\ \A y \in d[a], z \in X : T.key[y] < T.key[z]
        BY <2>5, <3>2
      <4> HIDE DEF X
      <4>2. Rising(w[a] \o <<x>>)
        BY <2>4, <2>5, <2>7, <3>1, <4>1, RisingJoined
      <4>3. Behind(w[a] \o <<x>>, w[a], d[a], <<x>>, {x})
        BY <2>5, Joined
      <4> QED  BY <4>2, <4>3 DEF Behind
    <3>5. \A y \in d[a] \cup {x}, z \in d[b] : T.key[y] < T.key[z]
      BY <3>2, <3>3
    <3>6. Rising((w[a] \o <<x>>) \o w[b])
      BY <2>4, <2>5, <2>7, <3>4, <3>5, RisingJoined
    <3> QED  BY <2>3, <2>7, <3>6 DEF Placed
  <2>8. ASSUME order = "post"  PROVE ChildrenFirst(d, w[x])
    <3>1. ChildrenFirst(d, <<x>>)
      BY DEF ChildrenFirst
    <3>2. \A y \in d[a] : d[y] \subseteq d[a]
      BY <2>1, BelowFacts, BelowTransitive
    <3>3. \A y \in d[b] : d[y] \subseteq d[b]
      BY <2>1, BelowFacts, BelowTransitive
    <3>4. ChildrenFirst(d, w[a] \o w[b]) /\ w[a] \o w[b] \in Seq(d[a] \cup d[b])
      <4>1. \A y \in d[a], z \in d[b] : z \notin d[y]
        BY <2>2, <3>2
      <4>2. ChildrenFirst(d, w[a] \o w[b])
        BY <2>4, <2>5, <2>8, <4>1, ChildrenFirstJoined
      <4>3. Behind(w[a] \o w[b], w[a], d[a], w[b], d[b])
        BY <2>5, Joined
      <4> QED  BY <4>2, <4>3 DEF Behind
    <3> DEFINE X == {x}
               Y == d[a] \cup d[b]
               s == w[a] \o w[b]
    <3>5. <<x>> \in Seq(X) /\ s \in Seq(Y) /\ ChildrenFirst(d, s) /\ \A y \in Y, z \in X : z \notin d[y]
      BY <2>2, <2>5, <3>2, <3>3, <3>4
    <3> HIDE DEF X, Y, s
    <3>6. ChildrenFirst(d, s \o <<x>>)
      BY <3>1, <3>5, ChildrenFirstJoined
    <3> QED  BY <2>3, <2>8, <3>6 DEF Placed, s
  <2> QED  BY <2>6, <2>7, <2>8
<1>3. V = {}
  <2> HIDE DEF V
  <2>1. V \in SUBSET S  BY DEF V
  <2> QED  BY <1>2, <2>1, TreeInduction
<1> QED  BY <1>1, <1>3

-----------------------------------------------------------------------------
(* The levels. *)

\* The root stands below nothing but itself, and a child one level below its parent.
LEMMA LevelFacts ==
  ASSUME NEW S, NEW d, Shape(T, S, d), IsFiniteSet(S)
  PROVE  /\ \A x \in S : /\ IsFiniteSet(Above(S, d, x)) /\ Cardinality(Above(S, d, x)) \in Nat
                         /\ 1 <= Cardinality(Above(S, d, x))
                         /\ Cardinality(Above(S, d, x)) <= Cardinality(S)
         /\ \A x \in S : x = T.root <=> Cardinality(Above(S, d, x)) = 1
         /\ \A x, z \in S, s \in Sides :
              z = Child(T, x, s) => Cardinality(Above(S, d, z)) = Cardinality(Above(S, d, x)) + 1
<1>1. ASSUME NEW x \in S
      PROVE  /\ IsFiniteSet(Above(S, d, x)) /\ Cardinality(Above(S, d, x)) \in Nat
             /\ x \in Above(S, d, x) /\ Cardinality(Above(S, d, x)) <= Cardinality(S)
             /\ 1 <= Cardinality(Above(S, d, x))
  <2>1. Above(S, d, x) \subseteq S /\ x \in Above(S, d, x)
    BY BelowFacts DEF Above
  <2>2. IsFiniteSet(Above(S, d, x)) /\ Cardinality(Above(S, d, x)) <= Cardinality(S)
    BY <2>1, FS_Subset
  <2>3. Cardinality(Above(S, d, x)) \in Nat
    BY <2>2, FS_CardinalityType
  <2>4. Cardinality(Above(S, d, x)) # 0
    BY <2>1, <2>2, FS_EmptySet
  <2> QED  BY <2>1, <2>2, <2>3, <2>4
<1>2. ASSUME NEW x \in S, NEW z \in S, NEW s \in Sides, z = Child(T, x, s)
      PROVE  Cardinality(Above(S, d, z)) = Cardinality(Above(S, d, x)) + 1
  <2>1. Above(S, d, z) = {z} \cup Above(S, d, x)
    BY <1>2, AboveChild
  <2>2. z \notin Above(S, d, x)
    BY <1>2, SidesDiffer DEF Above
  <2>3. Above(S, d, z) = Above(S, d, x) \cup {z}
    BY <2>1
  <2> QED  BY <1>1, <2>2, <2>3, FS_AddElement
<1>3. ASSUME NEW x \in S, x = T.root  PROVE Cardinality(Above(S, d, x)) = 1
  <2>1. d[x] = S
    BY <1>3 DEF Shape, Spans
  <2>2. ASSUME NEW y \in S, x \in d[y]  PROVE y = x
    BY <2>1, <2>2, BelowTransitive
  <2>3. Above(S, d, x) = {x}
    BY <1>1, <2>2 DEF Above
  <2> QED  BY <2>3, FS_Singleton
<1>4. ASSUME NEW x \in S, x # T.root  PROVE Cardinality(Above(S, d, x)) # 1
  <2>1. PICK p \in S, s \in Sides : x = Child(T, p, s)
    BY <1>4 DEF Shape, Linked
  <2> QED  BY <1>1, <1>2, <2>1
<1> QED  BY <1>1, <1>2, <1>3, <1>4

\* The nodes that stand below i others.
OnLevel(S, d, i) == {x \in S : Cardinality(Above(S, d, x)) = i + 1}

\* What level holds, as the model reads it.
LEMMA LevelReads ==
  ASSUME NEW S, NEW d, Shape(T, S, d), IsFiniteSet(S)
  PROVE  \A i \in Nat : Level[i] = OnLevel(S, d, i)
<1> DEFINE body(g) == [i \in Nat |-> IF i = 0 THEN {T.root} \ {nil} ELSE Beneath(g[i - 1])]
           g0 == [i \in Nat |-> OnLevel(S, d, i)]
<1>1. OnLevel(S, d, 0) = {T.root} \ {nil}
  <2>1. nil \notin S /\ T.root \in S \cup {nil}
    BY NodesAreBlocks DEF Shape, Linked
  <2>2. \A x \in S : x = T.root <=> Cardinality(Above(S, d, x)) = 1
    BY LevelFacts
  <2> QED  BY <2>1, <2>2 DEF OnLevel
<1>2. ASSUME NEW i \in Nat, i # 0  PROVE OnLevel(S, d, i) = Beneath(OnLevel(S, d, i - 1))
  <2>1. ASSUME NEW z \in OnLevel(S, d, i)  PROVE z \in Beneath(OnLevel(S, d, i - 1))
    <3>1. z \in S /\ Cardinality(Above(S, d, z)) = i + 1 /\ z # nil
      BY NodesAreBlocks DEF OnLevel
    <3>2. z # T.root
      BY <1>2, <3>1, LevelFacts
    <3>3. PICK p \in S, s \in Sides : z = Child(T, p, s)
      BY <3>1, <3>2 DEF Shape, Linked
    <3>4. /\ Cardinality(Above(S, d, z)) = Cardinality(Above(S, d, p)) + 1
          /\ Cardinality(Above(S, d, p)) \in Nat
      BY <3>1, <3>3, LevelFacts
    <3>5. Cardinality(Above(S, d, p)) = (i - 1) + 1
      BY <3>1, <3>4
    <3>6. p \in OnLevel(S, d, i - 1)
      BY <3>5 DEF OnLevel
    <3> QED  BY <3>1, <3>3, <3>6 DEF Beneath
  <2>2. ASSUME NEW z \in Beneath(OnLevel(S, d, i - 1))  PROVE z \in OnLevel(S, d, i)
    <3>1. PICK p \in OnLevel(S, d, i - 1), s \in Sides : z = Child(T, p, s) /\ z # nil
      BY DEF Beneath
    <3>2. p \in S /\ Cardinality(Above(S, d, p)) = (i - 1) + 1
      BY DEF OnLevel
    <3>3. z \in S
      BY <3>1, <3>2 DEF Shape, Linked
    <3>4. Cardinality(Above(S, d, z)) = i + 1
      BY <3>1, <3>2, <3>3, LevelFacts
    <3> QED  BY <3>3, <3>4 DEF OnLevel
  <2> QED  BY <2>1, <2>2
<1>3. g0 = body(g0)
  <2>1. ASSUME NEW i \in Nat  PROVE g0[i] = IF i = 0 THEN {T.root} \ {nil} ELSE Beneath(g0[i - 1])
    <3>1. i # 0 => i - 1 \in Nat
      OBVIOUS
    <3> QED  BY <1>1, <1>2, <3>1
  <2> QED  BY <2>1
<1>4. Level = body(Level)
  <2>1. \E g : g = body(g)
    <3> HIDE DEF g0, body
    <3> QED  BY <1>3
  <2> QED  BY <2>1 DEF Level
<1> DEFINE bad == {i \in Nat : Level[i] # OnLevel(S, d, i)}
<1>5. ASSUME bad # {}  PROVE FALSE
  <2>1. bad \in SUBSET Nat
    OBVIOUS
  <2>2. PICK m \in bad : \A i \in bad : m <= i
    <3> HIDE DEF bad
    <3> QED  BY <1>5, <2>1, LeastNatural
  <2>3. m \in Nat /\ Level[m] = IF m = 0 THEN {T.root} \ {nil} ELSE Beneath(Level[m - 1])
    BY <1>4
  <2>4. CASE m = 0
    BY <1>1, <2>3, <2>4
  <2>5. CASE m # 0
    <3>1. m - 1 \in Nat /\ ~(m <= m - 1)
      BY <2>3, <2>5
    <3>2. Level[m - 1] = OnLevel(S, d, m - 1)
      BY <2>2, <3>1
    <3> QED  BY <1>2, <2>3, <2>5, <3>2
  <2> QED  BY <2>4, <2>5
<1> QED  BY <1>5

\* The traversal by levels ends with the last level that is not empty.
LEMMA LevelOrderReads ==
  ASSUME NEW n \in Nat, \A i \in Nat : Level[i] = {} <=> i >= n
  PROVE  /\ Len(LevelOrder) = n
         /\ \A k \in 1..n : LevelOrder[k] = Level[k - 1]
<1> DEFINE AllLevels == {Level[i] : i \in Nat}
           rest(i) == [k \in 1..(n - i) |-> Level[i + k - 1]]
           body(g) == [i \in Nat |-> IF Level[i] = {} THEN <<>> ELSE <<Level[i]>> \o g[i + 1]]
           g0 == [i \in Nat |-> rest(i)]
<1>1. ASSUME NEW i \in Nat, i >= n  PROVE rest(i) = <<>>
  <2>1. 1..(n - i) = {}
    BY <1>1
  <2>2. rest(i) = [k \in {} |-> Level[i + k - 1]]
    BY <2>1
  <2> QED  BY <2>2
<1>2. ASSUME NEW i \in Nat, i < n
      PROVE  rest(i) \in Seq(AllLevels) /\ Len(rest(i)) = n - i /\ \A k \in 1..(n - i) : rest(i)[k] = Level[i + k - 1]
  <2>1. n - i \in Nat
    BY <1>2
  <2>2. \A k \in 1..(n - i) : Level[i + k - 1] \in AllLevels
    <3>1. \A k \in 1..(n - i) : i + k - 1 \in Nat
      OBVIOUS
    <3> QED  BY <3>1
  <2> HIDE DEF AllLevels
  <2> QED  BY <2>1, <2>2, IsASeq
<1>3. ASSUME NEW i \in Nat, i < n  PROVE rest(i) = <<Level[i]>> \o rest(i + 1)
  <2> DEFINE s == <<Level[i]>>
             r == rest(i + 1)
             u == s \o r
  <2>1. s \in Seq(AllLevels) /\ Len(s) = 1 /\ s[1] = Level[i]
    OBVIOUS
  <2>2. r \in Seq(AllLevels) /\ Len(r) = n - i - 1 /\ \A k \in 1..(n - i - 1) : r[k] = Level[i + k]
    <3>1. CASE i + 1 < n
      <4>1. i + 1 \in Nat /\ n - (i + 1) = n - i - 1
            /\ \A k \in 1..(n - i - 1) : (i + 1) + k - 1 = i + k
        OBVIOUS
      <4>2. /\ r \in Seq(AllLevels) /\ Len(r) = n - (i + 1)
            /\ \A k \in 1..(n - (i + 1)) : r[k] = Level[(i + 1) + k - 1]
        <5> HIDE DEF rest, AllLevels
        <5> QED  BY <1>2, <3>1, <4>1
      <4> HIDE DEF r, AllLevels
      <4> QED  BY <4>1, <4>2
    <3>2. CASE i + 1 >= n
      <4>1. r = <<>> /\ n - i - 1 = 0
        BY <1>1, <1>3, <3>2
      <4> HIDE DEF r, AllLevels
      <4> QED  BY <4>1
    <3> QED  BY <1>3, <3>1, <3>2
  <2> HIDE DEF s, r, AllLevels, rest
  <2>3. u \in Seq(AllLevels) /\ Len(u) = n - i
        /\ \A k \in 1..(n - i) : u[k] = IF k <= 1 THEN s[k] ELSE r[k - 1]
    <3>1. Behind(u, s, AllLevels, r, AllLevels)
      BY <2>1, <2>2, Joined
    <3>2. Len(s) + Len(r) = n - i /\ Len(s) = 1
      BY <1>3, <2>1, <2>2
    <3> HIDE DEF u
    <3>3. u \in Seq(AllLevels) /\ Len(u) = n - i /\ u[1] = s[1]
      BY <3>1, <3>2 DEF Behind
    <3>4. ASSUME NEW k \in 1..(n - i), ~(k <= 1)  PROVE u[k] = r[k - 1]
      <4>1. k - 1 \in 1..Len(r) /\ 1 + (k - 1) = k
        BY <1>3, <2>2, <3>4
      <4> QED  BY <3>1, <3>2, <4>1 DEF Behind
    <3>5. \A k \in 1..(n - i) : k <= 1 => k = 1
      OBVIOUS
    <3> QED  BY <3>3, <3>4, <3>5
  <2>4. rest(i) \in Seq(AllLevels) /\ Len(rest(i)) = n - i
        /\ \A k \in 1..(n - i) : rest(i)[k] = Level[i + k - 1]
    BY <1>2, <1>3
  <2> HIDE DEF u
  <2>5. ASSUME NEW k \in 1..(n - i)  PROVE u[k] = rest(i)[k]
    <3>1. CASE k = 1
      BY <2>1, <2>3, <2>4, <3>1
    <3>2. CASE k # 1
      <4>1. k - 1 \in 1..(n - i - 1) /\ i + (k - 1) = i + k - 1 /\ ~(k <= 1)
        BY <3>2
      <4> QED  BY <2>2, <2>3, <2>4, <4>1
    <3> QED  BY <3>1, <3>2
  <2>6. u = rest(i)
    BY <2>3, <2>4, <2>5, SeqEqual
  <2> QED  BY <2>6 DEF u, s, r
<1> HIDE DEF rest, AllLevels
<1>4. g0 = body(g0)
  <2>1. ASSUME NEW i \in Nat
        PROVE  g0[i] = IF Level[i] = {} THEN <<>> ELSE <<Level[i]>> \o g0[i + 1]
    <3>1. g0[i] = rest(i) /\ g0[i + 1] = rest(i + 1)
      OBVIOUS
    <3> HIDE DEF g0
    <3> QED  BY <1>1, <1>3, <3>1
  <2>2. g0 = [i \in Nat |-> g0[i]]
    OBVIOUS
  <2> HIDE DEF g0
  <2> QED  BY <2>1, <2>2
<1>5. PICK f : f = body(f) /\ LevelOrder = f[0]
  <2> DEFINE f == CHOOSE g : g = body(g)
  <2>1. LevelOrder = f[0]
    BY DEF LevelOrder
  <2>2. f = body(f)
    <3>1. \E g : g = body(g)
      <4> HIDE DEF g0, body
      <4> QED  BY <1>4
    <3> HIDE DEF body
    <3> QED  BY <3>1
  <2> HIDE DEF f
  <2> QED  BY <2>1, <2>2
<1>6. \A i \in Nat : f[i] = IF Level[i] = {} THEN <<>> ELSE <<Level[i]>> \o f[i + 1]
  BY <1>5
<1> DEFINE bad == {k \in Nat : k <= n /\ f[n - k] # rest(n - k)}
<1>7. ASSUME bad # {}  PROVE FALSE
  <2>1. bad \in SUBSET Nat
    OBVIOUS
  <2>2. PICK m \in bad : \A i \in bad : m <= i
    <3> HIDE DEF bad
    <3> QED  BY <1>7, <2>1, LeastNatural
  <2>3. m \in Nat /\ m <= n /\ n - m \in Nat
    OBVIOUS
  <2>4. CASE m = 0
    <3>1. n - m = n /\ n >= n /\ Level[n] = {}
      BY <2>4
    <3>2. f[n] = <<>>
      BY <1>6, <3>1
    <3>3. rest(n) = <<>>
      BY <1>1, <3>1
    <3> QED  BY <3>1, <3>2, <3>3
  <2>5. CASE m # 0
    <3>1. m - 1 \in Nat /\ m - 1 <= n /\ ~(m <= m - 1) /\ n - (m - 1) = (n - m) + 1 /\ n - m < n
      BY <2>3, <2>5
    <3>2. f[(n - m) + 1] = rest((n - m) + 1)
      BY <2>2, <3>1
    <3>3. Level[n - m] # {}
      BY <2>3, <3>1
    <3>4. f[n - m] = <<Level[n - m]>> \o f[(n - m) + 1]
      BY <1>6, <2>3, <3>3
    <3>5. rest(n - m) = <<Level[n - m]>> \o rest((n - m) + 1)
      BY <1>3, <2>3, <3>1
    <3> QED  BY <3>2, <3>4, <3>5
  <2> QED  BY <2>4, <2>5
<1>8. LevelOrder = rest(0)
  <2>1. n \in Nat /\ n <= n /\ n - n = 0
    OBVIOUS
  <2> QED  BY <1>5, <1>7, <2>1
<1>9. CASE n = 0
  <2>1. LevelOrder = <<>>
    BY <1>1, <1>8, <1>9
  <2> QED  BY <1>9, <2>1
<1>10. CASE n # 0
  <2>1. Len(rest(0)) = n - 0 /\ \A k \in 1..(n - 0) : rest(0)[k] = Level[0 + k - 1]
    BY <1>2, <1>10
  <2>2. \A k \in 1..n : k \in 1..(n - 0) /\ 0 + k - 1 = k - 1
    OBVIOUS
  <2> QED  BY <1>8, <2>1, <2>2
<1> QED  BY <1>9, <1>10

\* No node of a balanced tree stands lower than twice the black nodes on its path.
LEMMA LevelsFew ==
  ASSUME NEW S, NEW d, NEW h, Good(T, S, d, h, {})
  PROVE  \A x \in S : Cardinality(Above(S, d, x)) <= 2 * h[T.root]
<1>1. /\ Shape(T, S, d) /\ IsFiniteSet(S) /\ Balanced(T, S, h, nil, "left") /\ NoRedPair(T, S, {})
      /\ nil \notin S
  BY NodesAreBlocks DEF Good, Sound
<1> DEFINE A(x) == Cardinality(Above(S, d, x))
           Fits(x) == A(x) + 2 * h[x] <= 2 * h[T.root] + Black(T, x)
           bad == {i \in Nat : \E x \in S : A(x) = i /\ ~Fits(x)}
<1>2. \A x \in S \cup {nil} : h[x] \in Nat /\ Black(T, x) \in {0, 1}
  BY <1>1 DEF Balanced, Black
<1>3. \A x \in S, s \in Sides :
        h[x] = h[Child(T, x, s)] + Black(T, x) /\ Child(T, x, s) \in S \cup {nil}
  <2>1. \A x \in S, s \in Sides : Twice(nil, "left", x, s) = 0 /\ Child(T, x, s) \in S \cup {nil}
    BY <1>1 DEF Twice, Shape, Linked
  <2> QED  BY <1>1, <1>2, <2>1 DEF Balanced, Even
<1>4. ASSUME bad # {}  PROVE FALSE
  <2>1. bad \in SUBSET Nat
    OBVIOUS
  <2>2. PICK m \in bad : \A i \in bad : m <= i
    <3> HIDE DEF bad
    <3> QED  BY <1>4, <2>1, LeastNatural
  <2>3. PICK x \in S : A(x) = m /\ ~Fits(x) /\ m \in Nat
    BY <2>2
  <2>4. CASE x = T.root
    <3>1. A(x) = 1 /\ ~Red(T, x)
      BY <1>1, <2>4, LevelFacts DEF NoRedPair
    <3>2. Black(T, x) = 1 /\ h[x] \in Nat
      BY <1>2, <3>1 DEF Black
    <3> HIDE DEF A
    <3> QED  BY <2>3, <2>4, <3>1, <3>2
  <2>5. CASE x # T.root
    <3>1. PICK p \in S, s \in Sides : x = Child(T, p, s) /\ p = Parent(T, x)
      BY <1>1, <2>5, SideOfFacts
    <3>2. A(x) = A(p) + 1 /\ A(p) \in Nat
      BY <1>1, <3>1, LevelFacts
    <3>3. Fits(p)
      <4>1. A(p) \notin bad
        BY <2>2, <2>3, <3>2
      <4> QED  BY <3>2, <4>1
    <3>4. h[p] = h[x] + Black(T, p)
      BY <1>3, <3>1
    <3>5. Red(T, x) => ~Red(T, p)
      BY <1>1, <3>1 DEF NoRedPair
    <3>6. Black(T, x) + Black(T, p) >= 1
      BY <1>2, <3>5 DEF Black
    <3>7. h[x] \in Nat /\ h[p] \in Nat /\ h[T.root] \in Nat /\ Black(T, x) \in {0, 1} /\ Black(T, p) \in {0, 1}
      BY <1>1, <1>2 DEF Shape, Linked
    <3> HIDE DEF A
    <3> QED  BY <2>3, <3>2, <3>3, <3>4, <3>6, <3>7
  <2> QED  BY <2>4, <2>5
<1>5. ASSUME NEW x \in S  PROVE A(x) <= 2 * h[T.root]
  <2>1. A(x) \in Nat
    BY <1>1, LevelFacts
  <2>2. Fits(x)
    BY <1>4, <2>1
  <2>3. h[x] \in Nat /\ h[T.root] \in Nat
    BY <1>1, <1>2 DEF Shape, Linked
  <2>4. Black(T, x) <= h[x] /\ Black(T, x) \in {0, 1}
    <3>1. "left" \in Sides
      BY DEF Sides
    <3>2. h[Child(T, x, "left")] \in Nat /\ h[x] = h[Child(T, x, "left")] + Black(T, x)
      BY <1>2, <1>3, <3>1
    <3> QED  BY <1>2, <3>2
  <2> HIDE DEF A
  <2> QED  BY <2>1, <2>2, <2>3, <2>4
<1> QED  BY <1>5
\* Some levels have nodes, and below them none.
LEMMA LevelsEnd ==
  ASSUME NEW S, NEW d, Shape(T, S, d), IsFiniteSet(S)
  PROVE  \E n \in Nat : \A i \in Nat : Level[i] = {} <=> i >= n
<1> DEFINE A(x) == Cardinality(Above(S, d, x))
           empty == {i \in Nat : Level[i] = {}}
<1>1. \A i \in Nat : Level[i] = OnLevel(S, d, i)
  BY LevelReads
<1>2. Cardinality(S) \in empty
  <2>1. Cardinality(S) \in Nat
    BY FS_CardinalityType
  <2>2. \A x \in S : A(x) \in Nat /\ A(x) <= Cardinality(S)
    BY LevelFacts
  <2> HIDE DEF A
  <2>3. \A x \in S : A(x) # Cardinality(S) + 1
    BY <2>1, <2>2
  <2> QED  BY <1>1, <2>1, <2>3 DEF OnLevel, A
<1>3. PICK n \in empty : \A i \in empty : n <= i
  <2>1. empty \in SUBSET Nat
    OBVIOUS
  <2> HIDE DEF empty
  <2> QED  BY <1>2, <2>1, LeastNatural
<1> DEFINE bad == {i \in Nat : i >= n /\ Level[i] # {}}
<1>4. ASSUME bad # {}  PROVE FALSE
  <2>1. bad \in SUBSET Nat
    OBVIOUS
  <2>2. PICK m \in bad : \A i \in bad : m <= i
    <3> HIDE DEF bad
    <3> QED  BY <1>4, <2>1, LeastNatural
  <2>3. m \in Nat /\ n \in Nat /\ n <= m /\ n # m /\ Level[m] # {}
    BY <1>3
  <2>4. m - 1 \in Nat /\ m - 1 >= n /\ ~(m <= m - 1) /\ m # 0
    BY <2>3
  <2>5. Level[m - 1] = {}
    BY <2>2, <2>4
  <2>6. PICK x \in S : A(x) = m + 1
    BY <1>1, <2>3 DEF OnLevel
  <2>7. x # T.root
    BY <2>3, <2>4, <2>6, LevelFacts
  <2>8. PICK p \in S, s \in Sides : x = Child(T, p, s)
    BY <2>7 DEF Shape, Linked
  <2>9. A(x) = A(p) + 1 /\ A(p) \in Nat
    BY <2>8, LevelFacts
  <2> HIDE DEF A
  <2>10. A(p) = (m - 1) + 1
    BY <2>3, <2>6, <2>9
  <2> QED  BY <1>1, <2>4, <2>5, <2>10 DEF OnLevel, A
<1>5. ASSUME NEW i \in Nat  PROVE Level[i] = {} <=> i >= n
  <2>1. CASE i >= n
    BY <1>4, <2>1
  <2>2. CASE ~(i >= n)
    <3>1. ~(n <= i)
      BY <1>3, <2>2
    <3> QED  BY <1>3, <2>2, <3>1
  <2> QED  BY <2>1, <2>2
<1> QED  BY <1>3, <1>5

-----------------------------------------------------------------------------
(* Reading the whole tree between two operations. *)

\* What the model's traversals return.
LEMMA WalkReads ==
  ASSUME NEW order \in Orders, NEW d, Shape(T, alive, d), IsFiniteSet(alive)
  PROVE  /\ Lists(Walk(order), alive)
         /\ order = "in" => Rising(Walk(order))
         /\ order = "post" => ChildrenFirst(d, Walk(order))
<1> DEFINE w == CHOOSE v : Walks(order, v, alive)
<1>1. Walks(order, w, alive)
  <2>1. \E v : Walks(order, v, alive)
    BY TraversalExists
  <2> QED  BY <2>1
<1>2. Walk(order) = w[T.root]
  BY DEF Walk, Walks
<1>3. T.root \in alive \cup {nil} /\ d[T.root] = alive
  BY DEF Shape, Linked, Spans
<1> HIDE DEF w
<1> QED  BY <1>1, <1>2, <1>3, TraversalReads

KeysOf(s) == [i \in 1..Len(s) |-> T.key[s[i]]]

\* The keys of a list of nodes are a list as long.
LEMMA KeysListed ==
  ASSUME NEW A, NEW s, Lists(s, A), Unique(T, A)
  PROVE  /\ Len(KeysOf(s)) = Cardinality(A)
         /\ Cardinality({KeysOf(s)[i] : i \in 1..Len(KeysOf(s))}) = Cardinality(A)
<1> DEFINE K == {T.key[x] : x \in A}
           r == KeysOf(s)
<1>1. Len(s) \in Nat /\ Len(s) = Cardinality(A) /\ \A i \in 1..Len(s) : s[i] \in A
  BY ListsLength, ElementOfSeq DEF Lists
<1>2. r \in Seq(K) /\ Len(r) = Len(s) /\ \A i \in 1..Len(s) : r[i] = T.key[s[i]]
  <2>1. \A i \in 1..Len(s) : T.key[s[i]] \in K
    BY <1>1
  <2> HIDE DEF K
  <2> QED  BY <1>1, <2>1, IsASeq DEF KeysOf
<1>3. Lists(r, K)
  <2> HIDE DEF r
  <2>1. ASSUME NEW k \in K  PROVE \E i \in 1..Len(r) : r[i] = k
    <3>1. PICK x \in A : k = T.key[x]
      OBVIOUS
    <3>2. PICK i \in 1..Len(s) : s[i] = x
      BY DEF Lists
    <3> QED  BY <1>2, <3>1, <3>2
  <2>2. ASSUME NEW i \in 1..Len(r), NEW j \in 1..Len(r), r[i] = r[j]  PROVE i = j
    BY <1>1, <1>2, <2>2 DEF Lists, Unique
  <2> HIDE DEF K
  <2> QED  BY <1>2, <2>1, <2>2 DEF Lists
<1> HIDE DEF K
<1>4. Len(r) = Cardinality(K) /\ {r[i] : i \in 1..Len(r)} = K
  <2> HIDE DEF r
  <2> QED  BY <1>3, ListsLength
<1> QED  BY <1>1, <1>2, <1>4

\* The levels hold all nodes, and are few.
LEMMA LevelOrderFits ==
  ASSUME NEW d, NEW h, Good(T, alive, d, h, {}), IsFiniteSet(alive)
  PROVE  /\ UNION {LevelOrder[i] : i \in 1..Len(LevelOrder)} = alive
         /\ Len(LevelOrder) <= 2 * h[T.root]
<1> DEFINE A(x) == Cardinality(Above(alive, d, x))
<1>1. Shape(T, alive, d) /\ Balanced(T, alive, h, nil, "left")
  BY DEF Good, Sound
<1>2. PICK n \in Nat : \A i \in Nat : Level[i] = {} <=> i >= n
  BY <1>1, LevelsEnd
<1>3. Len(LevelOrder) = n /\ \A k \in 1..n : LevelOrder[k] = Level[k - 1]
  BY <1>2, LevelOrderReads
<1>4. \A i \in Nat : Level[i] = OnLevel(alive, d, i)
  BY <1>1, LevelReads
<1>5. ASSUME NEW x \in alive  PROVE \E k \in 1..n : x \in LevelOrder[k]
  <2>1. A(x) \in Nat /\ 1 <= A(x)
    BY <1>1, LevelFacts
  <2> DEFINE i == A(x) - 1
  <2>2. i \in Nat /\ i + 1 = A(x)
    <3> HIDE DEF A
    <3> QED  BY <2>1
  <2>3. x \in Level[i]
    BY <1>4, <2>2 DEF OnLevel
  <2> HIDE DEF i
  <2>4. ~(i >= n)
    BY <1>2, <2>2, <2>3
  <2>5. i + 1 \in 1..n /\ (i + 1) - 1 = i
    BY <2>2, <2>4
  <2> QED  BY <1>3, <2>3, <2>5
<1>6. ASSUME NEW k \in 1..n  PROVE LevelOrder[k] \subseteq alive
  <2>1. k - 1 \in Nat
    OBVIOUS
  <2> QED  BY <1>3, <1>4, <2>1 DEF OnLevel
<1>7. n <= 2 * h[T.root]
  <2>1. h[T.root] \in Nat
    BY <1>1 DEF Balanced, Shape, Linked
  <2>2. CASE n = 0
    BY <2>1, <2>2
  <2>3. CASE n # 0
    <3>1. n - 1 \in Nat /\ ~(n - 1 >= n) /\ (n - 1) + 1 = n
      BY <2>3
    <3>2. PICK x : x \in OnLevel(alive, d, n - 1)
      BY <1>2, <1>4, <3>1
    <3>3. x \in alive /\ Cardinality(Above(alive, d, x)) = n
      BY <3>1, <3>2 DEF OnLevel
    <3> QED  BY <3>3, LevelsFew
  <2> QED  BY <2>2, <2>3
<1> QED  BY <1>3, <1>5, <1>6, <1>7

\* count is the number of nodes, but for the one an insertion has hung into the tree
\* and will count when its fixup is done.
CountInv ==
  count = IF pc = "insertFixup" THEN Cardinality(alive) - 1 ELSE Cardinality(alive)

\* count can hold the number of nodes.
CountFits == Cardinality(alive) < CountSize

\* Each step keeps it.
LEMMA CountKept ==
  ASSUME IInv, CountInv, CountFits, CountFits', [Next]_vars
  PROVE  CountInv'
<1> DEFINE n == Cardinality(alive)
<1>1. /\ IsFiniteSet(alive) /\ n \in Nat /\ CountSize \in Nat /\ n < CountSize
      /\ pc \in {"release", "deleteFixup"} => doomed \in alive
  BY FS_CardinalityType, TreeAssumption DEF IInv, Kept, CountFits
<1>2. ASSUME NEW k \in Nat, k < CountSize  PROVE k % CountSize = k
  BY <1>1, <1>2
<1>3. CASE OperaInsert
  <2>1. PICK x \in Nodes \ alive : alive' = alive \cup {x} /\ pc = "idle" /\ pc' = "insertFixup" /\ count' = count
    BY <1>3 DEF OperaInsert
  <2>2. Cardinality(alive') = n + 1
    BY <1>1, <2>1, FS_AddElement
  <2> HIDE DEF n
  <2>3. count = n
    BY <2>1 DEF CountInv, n
  <2> QED  BY <1>1, <2>1, <2>2, <2>3 DEF CountInv
<1>4. CASE InsertDone
  <2>1. alive' = alive /\ count' = (count + 1) % CountSize /\ pc = "insertFixup" /\ pc' = "idle"
    BY <1>4 DEF InsertDone
  <2>2. count + 1 = n
    BY <1>1, <2>1 DEF CountInv
  <2>3. count' = n
    BY <1>1, <1>2, <2>1, <2>2
  <2> QED  BY <2>1, <2>3 DEF CountInv
<1>5. CASE Release
  <2>1. /\ alive' = alive \ {doomed} /\ count' = (count - 1) % CountSize /\ pc' = "idle"
        /\ pc \in {"release", "deleteFixup"}
    BY <1>5 DEF Release
  <2>2. Cardinality(alive') = n - 1
    BY <1>1, <2>1, FS_RemoveElement
  <2>3. n # 0
    BY <1>1, <2>1, FS_EmptySet
  <2>4. count = n
    BY <2>1 DEF CountInv
  <2> HIDE DEF n
  <2>5. n - 1 \in Nat /\ n - 1 < CountSize
    BY <1>1, <2>3
  <2>6. count' = n - 1
    BY <1>2, <2>1, <2>4, <2>5
  <2> QED  BY <2>1, <2>2, <2>6 DEF CountInv
<1>6. CASE InsertRecolour \/ InsertRotate \/ DeleteFixup \/ OperaUpdate \/ UNCHANGED vars
  BY <1>6 DEF InsertRecolour, InsertRotate, DeleteFixup, OperaUpdate, vars, CountInv
<1>7. CASE OperaDelete
  <2>1. /\ UNCHANGED <<alive, count>> /\ pc = "idle" /\ pc' \in {"release", "deleteFixup"}
    BY <1>7 DEF OperaDelete
  <2> QED  BY <2>1 DEF CountInv
<1> QED  BY <1>3, <1>4, <1>5, <1>6, <1>7 DEF Next

\* Between two operations the readings of the whole tree are complete and in order.
LEMMA InvariantFits ==
  ASSUME IInv, CountInv
  PROVE  ListFits
<1> SUFFICES ASSUME pc = "idle"
             PROVE  /\ IsEmpty <=> count = 0
                    /\ \A list \in {PreOrderList, Mass, PosOrderRelease} :
                         Len(list) = count /\ Cardinality({list[i] : i \in 1..Len(list)}) = count
                    /\ \A i \in 2..count : Mass[i - 1] < Mass[i]
                    /\ {PosOrderRelease[i] : i \in 1..count} = alive
                    /\ UNION {LevelOrder[i] : i \in 1..Len(LevelOrder)} = alive
                    /\ \A i, j \in 1..count :
                         PosOrderRelease[j] = Parent(T, PosOrderRelease[i]) => i < j
                    /\ Len(LevelOrder) <= 2 * BlackHeight
  BY DEF ListFits
<1>1. PICK d, h : Work(d, h)
  BY DEF IInv
<1>2. IsFiniteSet(alive) /\ Live = alive /\ nil \notin alive /\ Hanging(T, alive)
  BY LiveFacts DEF IInv, Kept
<1>3. Good(T, alive, d, h, {}) /\ Shape(T, alive, d) /\ Balanced(T, alive, h, nil, "left")
  BY <1>1, <1>2 DEF Work, Good, Sound
<1>4. count = Cardinality(alive) /\ count \in Nat
  BY <1>2, FS_CardinalityType DEF CountInv
<1>5. Unique(T, alive)
  BY <1>2, KeysUnique
<1>6. /\ Lists(Walk("pre"), alive)
      /\ Lists(Walk("in"), alive) /\ Rising(Walk("in"))
      /\ Lists(Walk("post"), alive) /\ ChildrenFirst(d, Walk("post"))
  BY <1>2, <1>3, WalkReads DEF Orders
<1>7. IsEmpty <=> count = 0
  <2>1. T.root = nil <=> alive = {}
    BY <1>2, <1>3 DEF Shape, Linked, Spans
  <2> QED  BY <1>2, <1>4, <2>1, FS_EmptySet DEF IsEmpty
<1>8. PreOrderList = KeysOf(Walk("pre")) /\ Mass = KeysOf(Walk("in"))
  BY DEF PreOrderList, Mass, InOrder, KeysOf
<1>9. /\ Len(PosOrderRelease) = count /\ {PosOrderRelease[i] : i \in 1..count} = alive
      /\ \A i \in 1..count : PosOrderRelease[i] \in alive
  BY <1>4, <1>6, ListsLength DEF PosOrderRelease
<1>10. ASSUME NEW list \in {PreOrderList, Mass, PosOrderRelease}
       PROVE  Len(list) = count /\ Cardinality({list[i] : i \in 1..Len(list)}) = count
  <2>1. CASE list = PosOrderRelease
    BY <1>4, <1>9, <2>1
  <2>2. CASE list \in {PreOrderList, Mass}
    <3>1. PICK s : Lists(s, alive) /\ list = KeysOf(s)
      BY <1>6, <1>8, <2>2
    <3> QED  BY <1>4, <1>5, <3>1, KeysListed
  <2> QED  BY <2>1, <2>2
<1>11. ASSUME NEW i \in 2..count  PROVE Mass[i - 1] < Mass[i]
  <2>1. Len(Walk("in")) = count
    BY <1>4, <1>6, ListsLength
  <2>2. i \in 1..count /\ i - 1 \in 1..count /\ i - 1 < i
    BY <1>4
  <2> QED  BY <1>6, <1>8, <2>1, <2>2 DEF Rising, KeysOf
<1>12. ASSUME NEW i \in 1..count, NEW j \in 1..count, PosOrderRelease[j] = Parent(T, PosOrderRelease[i])
       PROVE  i < j
  <2> DEFINE x == PosOrderRelease[i]
             p == PosOrderRelease[j]
  <2>1. x \in alive /\ p \in alive /\ p = Parent(T, x)
    BY <1>9, <1>12
  <2>2. x # T.root
    BY <1>2, <1>3, <2>1 DEF Shape, Linked
  <2>3. PICK s \in Sides : x = Child(T, p, s)
    BY <1>3, <2>1, <2>2, SideOfFacts
  <2>4. x \in d[p] /\ x # p
    <3>1. x \in d[p]
      BY <1>3, <2>1, <2>3, BelowFacts
    <3>2. p \notin d[x]
      BY <1>2, <1>3, <2>1, <2>3, SidesDiffer
    <3> QED  BY <3>1, <3>2
  <2>5. i # j
    BY <2>4
  <2> QED  BY <1>6, <1>9, <2>4, <2>5 DEF ChildrenFirst, PosOrderRelease
<1>13. BlackHeight = h[T.root]
  <2>1. \A x \in alive, s \in Sides : Extra(x, s) = Twice(nil, "left", x, s)
    BY <1>2 DEF Extra, Twice
  <2>2. \A x \in alive \cup {nil} : Height[x] = h[x]
    BY <1>2, <1>3, <2>1, HeightReads
  <2> QED  BY <1>3, <2>2 DEF BlackHeight, Shape, Linked
<1>14. /\ UNION {LevelOrder[i] : i \in 1..Len(LevelOrder)} = alive
       /\ Len(LevelOrder) <= 2 * BlackHeight
  BY <1>2, <1>3, <1>13, LevelOrderFits
<1> QED  BY <1>7, <1>9, <1>10, <1>11, <1>12, <1>14

\* As long as there are fewer friends than count can hold, each reading of the whole
\* tree meets each of them once: the list of ids fills the array allocated for count
\* ids, the destructor frees every block once and after its children, and the levels
\* are few.
THEOREM ReadingsAreComplete == Spec /\ []CountFits => []ListFits
<1>1. Init => CountInv
  BY FS_EmptySet DEF Init, CountInv
<1>2. IInv /\ CountInv /\ CountFits /\ CountFits' /\ [Next]_vars => CountInv'
  BY CountKept
<1>3. IInv /\ CountInv => ListFits
  BY InvariantFits
<1> QED  BY InductiveInvariant, <1>1, <1>2, <1>3, PTL DEF Spec
=============================================================================
