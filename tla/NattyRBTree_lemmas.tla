------------------------- MODULE NattyRBTree_lemmas -------------------------
(***************************************************************************)
(* Lemmas about the tree of NattyRBTree, for every set of blocks.           *)
(*                                                                         *)
(* Pointers: what each operator that changes the tree does to each field,   *)
(* induction over the nodes, what a rotation keeps, where the walks down    *)
(* the tree end, and that Below and Search read what is there.  What hangs  *)
(* below each node is a function d from the nodes to sets of nodes; with    *)
(* it, "a tree" is a property of the pointers that one can compute with.    *)
(*                                                                         *)
(* Colours: each piece of an insertion, of a deletion and of an iteration   *)
(* of the two fixup loops, as a change from a tree t to a tree u, keeps the *)
(* tree a search tree whose paths have the same number of black nodes, but  *)
(* for what is left to do.  The number h of black nodes below each node is  *)
(* a witness like d.                                                        *)
(***************************************************************************)
EXTENDS NattyRBTree, FiniteSetTheorems, WellFoundedInduction, TLAPS

Values == {p[2] : p \in Pairs} \cup {0}

Pointers == Blocks \cup {unset}

\* A tree with all its fields.
IsTree(t) ==
  /\ t = [root |-> t.root, key |-> t.key, value |-> t.value, child |-> t.child,
          parent |-> t.parent, color |-> t.color]
  /\ t.root \in Blocks
  /\ t.key \in [Blocks -> Nat]
  /\ t.value \in [Blocks -> Values]
  /\ t.child \in [Blocks \X Sides -> Pointers]
  /\ t.parent \in [Blocks -> Pointers]
  /\ t.color \in [Blocks -> {RED, BLACK}]

-----------------------------------------------------------------------------
(* One assignment to one field. *)

\* No operation but the three of the interface changes an entry.
SameEntries(u, t) == u.key = t.key /\ u.value = t.value

SameData(u, t) == u.key = t.key /\ u.value = t.value /\ u.color = t.color

\* u is t in other colours.
SameButColour(u, t) ==
  /\ IsTree(u) /\ u.root = t.root /\ u.key = t.key /\ u.value = t.value
  /\ \A z, s : Child(u, z, s) = Child(t, z, s)
  /\ \A z : Parent(u, z) = Parent(t, z) /\ SideOf(u, z) = SideOf(t, z)

\* An assignment to a color changes the colour of one node.
LEMMA PaintFacts ==
  ASSUME NEW t, IsTree(t), NEW x \in Blocks, NEW c \in {RED, BLACK},
         NEW u, u = Paint(t, x, c)
  PROVE  /\ SameButColour(u, t)
         /\ \A z \in Blocks : Red(u, z) <=> IF z = x THEN c = RED ELSE Red(t, z)
<1>1. /\ IsTree(u) /\ u.root = t.root /\ u.child = t.child /\ u.parent = t.parent
      /\ u.key = t.key /\ u.value = t.value
  BY DEF Paint, IsTree
<1>2. SameButColour(u, t)
  BY <1>1 DEF SameButColour, Child, Parent, SideOf
<1>3. u.color = [t.color EXCEPT ![x] = c] /\ t.color \in [Blocks -> {RED, BLACK}]
  BY DEF Paint, IsTree
<1>4. \A z \in Blocks : Red(u, z) <=> IF z = x THEN c = RED ELSE Red(t, z)
  BY <1>3 DEF Red
<1> QED  BY <1>2, <1>4

\* An assignment to the root changes no field of a block.
LEMMA RootFields ==
  ASSUME NEW t, IsTree(t), NEW y \in Blocks
  PROVE  LET u == [t EXCEPT !.root = y]
         IN  /\ IsTree(u) /\ SameData(u, t)
             /\ u.root = y /\ u.child = t.child /\ u.parent = t.parent
BY DEF IsTree, SameData

\* u is t with another parent p of y.
ParentSet(u, t, y, p) ==
  /\ IsTree(u) /\ SameData(u, t) /\ u.root = t.root
  /\ \A z \in Blocks : Parent(u, z) = IF z = y THEN p ELSE Parent(t, z)
  /\ \A z \in Blocks, r \in Sides : Child(u, z, r) = Child(t, z, r)

\* An assignment to a parent pointer changes that pointer only.
LEMMA ParentFields ==
  ASSUME NEW t, IsTree(t), NEW y \in Blocks, NEW p \in Pointers
  PROVE  ParentSet(SetParent(t, y, p), t, y, p)
<1> DEFINE u == SetParent(t, y, p)
<1>1. /\ IsTree(u) /\ SameData(u, t) /\ u.root = t.root /\ u.child = t.child
      /\ \A z \in Blocks : Parent(u, z) = IF z = y THEN p ELSE Parent(t, z)
  BY DEF IsTree, SameData, SetParent, Parent
<1> QED  BY <1>1 DEF ParentSet, Child

\* u is t with another child y of x on side s.
ChildSet(u, t, x, s, y) ==
  /\ IsTree(u) /\ SameData(u, t) /\ u.root = t.root
  /\ \A z \in Blocks : Parent(u, z) = Parent(t, z)
  /\ \A z \in Blocks, r \in Sides :
       Child(u, z, r) = IF z = x /\ r = s THEN y ELSE Child(t, z, r)

\* An assignment to a left or right pointer changes that pointer only.
LEMMA ChildFields ==
  ASSUME NEW t, IsTree(t), NEW x \in Blocks, NEW s \in Sides, NEW y \in Pointers
  PROVE  ChildSet(SetChild(t, x, s, y), t, x, s, y)
<1> DEFINE c == [t.child EXCEPT ![<<x, s>>] = y]
           u == [t EXCEPT !.child = c]
<1>1. c \in [Blocks \X Sides -> Pointers]
  BY DEF IsTree
<1>2. u = [root |-> t.root, key |-> t.key, value |-> t.value, child |-> c,
           parent |-> t.parent, color |-> t.color]
  <2> HIDE DEF c
  <2> QED  BY DEF IsTree
<1>3. \A z \in Blocks, r \in Sides :
        c[<<z, r>>] = IF z = x /\ r = s THEN y ELSE t.child[<<z, r>>]
  BY DEF IsTree
<1>4. SetChild(t, x, s, y) = u
  BY DEF SetChild
<1> HIDE DEF c
<1> QED  BY <1>1, <1>2, <1>3, <1>4 DEF ChildSet, IsTree, SameData, Child, Parent, c

\* u is t with key k and value v in x.
Held(u, t, x, k, v) ==
  /\ IsTree(u) /\ u.root = t.root
  /\ \A z \in Blocks : u.key[z] = IF z = x THEN k ELSE t.key[z]
  /\ \A z \in Blocks : u.value[z] = IF z = x THEN v ELSE t.value[z]
  /\ \A z \in Blocks : Red(u, z) <=> Red(t, z)
  /\ \A z \in Blocks : Parent(u, z) = Parent(t, z)
  /\ \A z \in Blocks, s \in Sides : Child(u, z, s) = Child(t, z, s)

\* Entering a key and a value in a block changes that block's entry only.
LEMMA HoldFields ==
  ASSUME NEW t, IsTree(t), NEW x \in Blocks, NEW k \in Nat, NEW v \in Values
  PROVE  Held(Hold(t, x, k, v), t, x, k, v)
<1> DEFINE u == Hold(t, x, k, v)
           key == [t.key EXCEPT ![x] = k]
           value == [t.value EXCEPT ![x] = v]
<1>1. /\ key \in [Blocks -> Nat] /\ value \in [Blocks -> Values]
      /\ \A z \in Blocks : key[z] = IF z = x THEN k ELSE t.key[z]
      /\ \A z \in Blocks : value[z] = IF z = x THEN v ELSE t.value[z]
  BY DEF IsTree
<1>2. u = [root |-> t.root, key |-> key, value |-> value, child |-> t.child,
           parent |-> t.parent, color |-> t.color]
  <2> DEFINE t1 == [t EXCEPT !.key = key]
  <2>1. u = [t1 EXCEPT !.value = [t1.value EXCEPT ![x] = v]]
    BY DEF Hold
  <2> HIDE DEF key, u
  <2>2. t1 = [root |-> t.root, key |-> key, value |-> t.value, child |-> t.child,
              parent |-> t.parent, color |-> t.color]
    BY DEF IsTree
  <2> HIDE DEF t1
  <2> QED  BY <2>1, <2>2
<1> HIDE DEF key, value, u
<1>3. /\ u.root = t.root /\ u.key = key /\ u.value = value /\ u.child = t.child
      /\ u.parent = t.parent /\ u.color = t.color
  BY <1>2
<1>4. IsTree(u)
  BY <1>1, <1>2, <1>3 DEF IsTree
<1>5. Held(u, t, x, k, v)
  BY <1>1, <1>3, <1>4 DEF Held, Red, Parent, Child
<1> QED  BY <1>5 DEF u

\* u is t with y where x hung below p, on side s.
Hung(u, t, p, s, y) ==
  /\ IsTree(u) /\ SameData(u, t) /\ u.root = IF p = nil THEN y ELSE t.root
  /\ \A z \in Blocks : Parent(u, z) = Parent(t, z)
  /\ \A z \in Blocks, r \in Sides :
       Child(u, z, r) = IF p # nil /\ z = p /\ r = s THEN y ELSE Child(t, z, r)

\* The parent's pointer (or the root) that led to x leads to y, and nothing else
\* changes: the test of ntyRBTreeLeftRotate and of ntyRBTreeDelete.
LEMMA HangFields ==
  ASSUME NEW t, IsTree(t), NEW p \in Blocks, NEW x, NEW y \in Blocks
  PROVE  Hung(Hang(t, p, x, y), t, p, IF x = Child(t, p, "left") THEN "left" ELSE "right", y)
<1> DEFINE s == IF x = Child(t, p, "left") THEN "left" ELSE "right"
<1>1. s \in Sides /\ y \in Pointers
  BY DEF Sides, Pointers
<1>2. CASE p = nil
  BY <1>2, RootFields DEF Hang, Child, Parent, Hung
<1>3. CASE p # nil
  <2>1. Hang(t, p, x, y) = SetChild(t, p, s, y)
    BY <1>3 DEF Hang
  <2> HIDE DEF s
  <2>2. ChildSet(SetChild(t, p, s, y), t, p, s, y)
    BY <1>1, ChildFields
  <2> QED  BY <1>3, <2>1, <2>2 DEF ChildSet, Hung, s
<1> QED  BY <1>2, <1>3

\* There are two sides, and each is the other's other one.
LEMMA OtherSide ==
  ASSUME NEW side \in Sides
  PROVE  /\ Other(side) \in Sides /\ Other(side) # side /\ Other(Other(side)) = side
         /\ \A s \in Sides : s = side \/ s = Other(side)
BY DEF Other, Sides

\* u is t after a rotation in which y comes up above x, which hung on side s of
\* p, and b changes sides: six pointers change at most.
Turned(u, t, x, side, y, b, p, s) ==
  /\ IsTree(u) /\ SameData(u, t)
  /\ u.root = IF p = nil THEN y ELSE t.root
  /\ \A z \in Blocks :
       Parent(u, z) = IF b # nil /\ z = b THEN x
                      ELSE IF z = x THEN y
                      ELSE IF z = y THEN p ELSE Parent(t, z)
  /\ \A z \in Blocks, r \in Sides :
       Child(u, z, r) = IF z = y /\ r = side THEN x
                        ELSE IF z = x /\ r = Other(side) THEN b
                        ELSE IF p # nil /\ z = p /\ r = s THEN y
                        ELSE Child(t, z, r)

\* The assignments of ntyRBTreeLeftRotate and ntyRBTreeRightRotate, taken together.
LEMMA RotateFields ==
  ASSUME NEW t, IsTree(t), NEW x \in Blocks, NEW side \in Sides,
         NEW y \in Blocks, y = Child(t, x, Other(side)),
         NEW b \in Blocks, b = Child(t, y, side),
         NEW p \in Blocks, p = Parent(t, x),
         x # y, p # x
  PROVE  Turned(Rotate(t, x, side), t, x, side, y, b, p, SideOf(t, x))
<1> DEFINE s == SideOf(t, x)
           t1 == SetChild(t, x, Other(side), b)
           t2 == SetParent(t1, y, p)
           t3 == Hang(t2, p, x, y)
           t4 == SetChild(t3, y, side, x)
           t5 == SetParent(t4, x, y)
           t6 == SetParent(t5, b, x)
<1>1. Rotate(t, x, side) = IF b # nil THEN t6 ELSE t5
  BY DEF Rotate, Turn
<1>2. Other(side) \in Sides /\ "left" \in Sides /\ Blocks \subseteq Pointers
  BY OtherSide DEF Sides, Pointers
<1> HIDE DEF t1, t2, t3, t4, t5, t6, s
<1>4. ChildSet(t1, t, x, Other(side), b)
  BY <1>2, ChildFields DEF t1
<1>5. ParentSet(t2, t1, y, p)
  <2>1. IsTree(t1)  BY <1>4 DEF ChildSet
  <2> QED  BY <1>2, <2>1, ParentFields DEF t2
<1>6. Child(t2, p, "left") = Child(t, p, "left")
  BY <1>2, <1>4, <1>5 DEF ChildSet, ParentSet
<1>7. Hung(t3, t2, p, s, y)
  <2>1. IsTree(t2)  BY <1>5 DEF ParentSet
  <2> QED  BY <1>6, <2>1, HangFields DEF t3, s, SideOf
<1>8. ChildSet(t4, t3, y, side, x)
  <2>1. IsTree(t3)  BY <1>7 DEF Hung
  <2> QED  BY <1>2, <2>1, ChildFields DEF t4
<1>9. ParentSet(t5, t4, x, y)
  <2>1. IsTree(t4)  BY <1>8 DEF ChildSet
  <2> QED  BY <1>2, <2>1, ParentFields DEF t5
<1>10. ParentSet(t6, t5, b, x)
  <2>1. IsTree(t5)  BY <1>9 DEF ParentSet
  <2> QED  BY <1>2, <2>1, ParentFields DEF t6
<1> USE DEF ChildSet, ParentSet, Hung
<1>11. SameData(t5, t) /\ SameData(t6, t) /\ t5.root = t6.root
       /\ t5.root = IF p = nil THEN y ELSE t.root
  BY <1>4, <1>5, <1>7, <1>8, <1>9, <1>10 DEF SameData
<1>12. \A z \in Blocks, r \in Sides :
         Child(t5, z, r) = IF z = y /\ r = side THEN x
                           ELSE IF z = x /\ r = Other(side) THEN b
                           ELSE IF p # nil /\ z = p /\ r = s THEN y
                           ELSE Child(t, z, r)
  BY <1>2, <1>4, <1>5, <1>7, <1>8, <1>9
<1>13. \A z \in Blocks :
         /\ Parent(t5, z) = IF z = x THEN y ELSE IF z = y THEN p ELSE Parent(t, z)
         /\ Parent(t6, z) = IF z = b THEN x ELSE Parent(t5, z)
  BY <1>4, <1>5, <1>7, <1>8, <1>9, <1>10
<1> QED  BY <1>1, <1>9, <1>10, <1>11, <1>12, <1>13 DEF Turned, s

-----------------------------------------------------------------------------
(* The nodes S of tree t, and what hangs below each of them. *)

Before(side, j, k) == IF side = "left" THEN j < k ELSE k < j

\* The pointers of the nodes agree with each other.
Linked(t, S) ==
  /\ S \subseteq Nodes
  /\ t.root \in S \cup {nil}
  /\ t.root # nil => Parent(t, t.root) = nil
  /\ \A x \in S, s \in Sides :
       /\ Child(t, x, s) \in S \cup {nil}
       /\ Child(t, x, s) # nil => Parent(t, Child(t, x, s)) = x
  /\ \A x \in S : x # t.root =>
       Parent(t, x) \in S /\ \E s \in Sides : Child(t, Parent(t, x), s) = x

\* d is what hangs below each node, the node included; all nodes hang below the
\* root.
Spans(t, S, d) ==
  /\ d \in [S \cup {nil} -> SUBSET S]
  /\ d[nil] = {}
  /\ \A x \in S, s \in Sides :
       d[x] = {x} \cup d[Child(t, x, s)] \cup d[Child(t, x, Other(s))]
  /\ d[t.root] = S

Ordered(t, S, d) ==
  \A x \in S, s \in Sides : \A y \in d[Child(t, x, s)] : Before(s, t.key[y], t.key[x])

Shape(t, S, d) == IsTree(t) /\ Linked(t, S) /\ Spans(t, S, d) /\ Ordered(t, S, d)

\* Standing before a key, on either side, is a strict order of the ids.
LEMMA BeforeFacts ==
  /\ \A s \in Sides, i, j \in Nat : Before(Other(s), i, j) <=> Before(s, j, i)
  /\ \A s \in Sides, i, j, k \in Nat : Before(s, i, j) /\ Before(s, j, k) => Before(s, i, k)
  /\ \A s \in Sides, i \in Nat : ~Before(s, i, i)
  /\ \A s \in Sides, i, j \in Nat : Before(s, i, j) => ~Before(s, j, i)
BY DEF Before, Other, Sides

\* The keys of the nodes are numbers.
LEMMA KeysAreNumbers ==
  ASSUME NEW t, NEW S, NEW d, Shape(t, S, d)
  PROVE  \A x \in S : t.key[x] \in Nat
BY DEF Shape, IsTree, Linked, Blocks

\* No child pointer leads to the root.
LEMMA RootIsNoChild ==
  ASSUME NEW t, NEW S, NEW d, Shape(t, S, d), NEW x \in S, NEW s \in Sides, t.root # nil
  PROVE  Child(t, x, s) # t.root
BY TreeAssumption DEF Shape, Linked

\* No node hangs below its own child, and the two sides of a node have nothing
\* in common.
LEMMA SidesDiffer ==
  ASSUME NEW t, NEW S, NEW d, Shape(t, S, d), NEW x \in S, NEW s \in Sides
  PROVE  /\ x \notin d[Child(t, x, s)]
         /\ d[Child(t, x, s)] \cap d[Child(t, x, Other(s))] = {}
         /\ Child(t, x, s) # x
         /\ Child(t, x, s) # nil => Child(t, x, Other(s)) # Child(t, x, s)
<1>1. Other(s) \in Sides /\ nil \notin S
  BY OtherSide, TreeAssumption DEF Shape, Linked
<1>2. \A r \in Sides : d[Child(t, x, r)] \subseteq S
  BY DEF Shape, Linked, Spans
<1>3. x \notin d[Child(t, x, s)]
  BY KeysAreNumbers, BeforeFacts DEF Shape, Ordered
<1>4. d[Child(t, x, s)] \cap d[Child(t, x, Other(s))] = {}
  <2>1. ASSUME NEW y \in d[Child(t, x, s)], y \in d[Child(t, x, Other(s))]  PROVE FALSE
    <3>1. Before(s, t.key[y], t.key[x]) /\ Before(Other(s), t.key[y], t.key[x])
      BY <1>1, <2>1 DEF Shape, Ordered
    <3>2. t.key[y] \in Nat /\ t.key[x] \in Nat
      BY <1>2, <2>1, KeysAreNumbers
    <3> QED  BY <3>1, <3>2, BeforeFacts
  <2> QED  BY <2>1
<1>5. \A z \in S : z \in d[z]
  BY <1>1 DEF Shape, Spans
<1>6. Child(t, x, s) \in S \cup {nil}
  BY DEF Shape, Linked
<1> QED  BY <1>1, <1>3, <1>4, <1>5, <1>6

\* Induction over the nodes, from the leaves up.
LEMMA TreeInduction ==
  ASSUME NEW t, NEW S, NEW d, Shape(t, S, d), IsFiniteSet(S), NEW V \in SUBSET S,
         \A x \in S : (\A s \in Sides : Child(t, x, s) \notin V) => x \notin V
  PROVE  V = {}
<1>1. IsWellFoundedOn(StrictSubsetOrdering(S), SUBSET S)
  BY FS_StrictSubsetOrderingWellFounded, FS_FiniteSubsetsOfFinite
<1>2. SUFFICES ASSUME V # {} PROVE FALSE
  OBVIOUS
<1> DEFINE D == {d[x] : x \in V}
<1>3. D \subseteq SUBSET S /\ D # {}
  BY <1>2 DEF Shape, Spans
<1>4. PICK e \in D : \A f \in D : ~(<<f, e>> \in StrictSubsetOrdering(S))
  <2> HIDE DEF D
  <2> QED  BY <1>1, <1>3, WFMin
<1>5. PICK x \in V : e = d[x]
  BY <1>4
<1>6. PICK s \in Sides : Child(t, x, s) \in V
  BY <1>5
<1>7. d[Child(t, x, s)] \subseteq d[x] /\ d[Child(t, x, s)] # d[x]
  <2>1. x \in d[x] /\ d[Child(t, x, s)] \subseteq d[x]
    BY DEF Shape, Spans
  <2> QED  BY <2>1, SidesDiffer
<1>8. <<d[Child(t, x, s)], d[x]>> \in StrictSubsetOrdering(S)
  BY <1>7, <1>6, <1>5, <1>3 DEF StrictSubsetOrdering
<1> QED  BY <1>4, <1>5, <1>6, <1>8

-----------------------------------------------------------------------------
(* Rotations. *)

\* A rotation in which y comes up above x.
Rotated(u, t, x, side) ==
  LET y == Child(t, x, Other(side))
  IN  Turned(u, t, x, side, y, Child(t, y, side), Parent(t, x), SideOf(t, x))

\* What hangs below each node after it.
RotatedBelow(t, d, x, side) ==
  LET y == Child(t, x, Other(side))
  IN  [d EXCEPT ![x] = {x} \cup d[Child(t, x, side)] \cup d[Child(t, y, side)], ![y] = d[x]]

\* Where a node hangs.
LEMMA SideOfFacts ==
  ASSUME NEW t, NEW S, NEW d, Shape(t, S, d), NEW x \in S, x # t.root
  PROVE  /\ SideOf(t, x) \in Sides /\ Parent(t, x) \in S
         /\ \A z \in S, s \in Sides : Child(t, z, s) = x <=> z = Parent(t, x) /\ s = SideOf(t, x)
<1> DEFINE p == Parent(t, x)
<1>1. p \in S /\ \E s \in Sides : Child(t, p, s) = x
  BY DEF Shape, Linked
<1>2. SideOf(t, x) \in Sides /\ Child(t, p, SideOf(t, x)) = x
  BY <1>1 DEF SideOf, Sides
<1>3. x # nil
  BY TreeAssumption DEF Shape, Linked
<1>4. \A z \in S, s \in Sides : Child(t, z, s) = x => z = p
  BY <1>3 DEF Shape, Linked
<1>5. \A s \in Sides : Child(t, p, s) = x => s = SideOf(t, x)
  BY <1>1, <1>2, <1>3, SidesDiffer, OtherSide
<1> QED  BY <1>1, <1>2, <1>4, <1>5

\* The nodes a rotation moves are different ones.
LEMMA RotateNodes ==
  ASSUME NEW t, NEW S, NEW d, Shape(t, S, d), NEW x \in S, NEW side \in Sides,
         NEW y \in S, y = Child(t, x, Other(side)),
         NEW a, a = Child(t, x, side),
         NEW b, b = Child(t, y, side),
         NEW c, c = Child(t, y, Other(side)),
         NEW p, p = Parent(t, x)
  PROVE  /\ p \in S \cup {nil} /\ a \in S \cup {nil} /\ b \in S \cup {nil} /\ c \in S \cup {nil}
         /\ p = nil <=> x = t.root
         /\ nil \notin S /\ y # t.root
         /\ x # y /\ p # x /\ p # y
         /\ a \notin {x, y} /\ b \notin {x, y} /\ c \notin {x, y}
         /\ b # nil => a # b /\ b # c
<1>1. nil \notin S /\ Other(side) \in Sides /\ Other(Other(side)) = side
  BY OtherSide, TreeAssumption DEF Shape, Linked
<1>2. p \in S \cup {nil} /\ (p = nil <=> x = t.root) /\ a \in S \cup {nil}
      /\ b \in S \cup {nil} /\ c \in S \cup {nil}
  BY <1>1 DEF Shape, Linked
<1>3. x # y /\ b # y /\ c # y /\ a # x
  BY <1>1, SidesDiffer
<1>4. y # t.root
  BY <1>1, RootIsNoChild
<1>5. x \notin d[y] /\ y \in d[y] /\ d[a] \cap d[y] = {} /\ d[b] \subseteq d[y] /\ d[c] \subseteq d[y]
  BY <1>1, SidesDiffer DEF Shape, Spans
<1>6. a # y /\ b # x /\ c # x
  BY <1>1, <1>2, <1>5 DEF Shape, Spans
<1>7. p # x /\ p # y
  <2>1. CASE p = nil  BY <1>1, <2>1
  <2>2. CASE p # nil
    <3>1. p \in S /\ \E s \in Sides : Child(t, p, s) = x
      BY <1>2, <2>2 DEF Shape, Linked
    <3> QED  BY <1>1, <1>6, <3>1, SidesDiffer, OtherSide
  <2> QED  BY <2>1, <2>2
<1>8. b # nil => a # b /\ b # c
  BY <1>1, <1>2, <1>5, SidesDiffer DEF Shape, Spans
<1> QED  BY <1>1, <1>2, <1>3, <1>4, <1>6, <1>7, <1>8

\* ntyRBTreeLeftRotate and ntyRBTreeRightRotate are rotations of the tree when the
\* child that comes up is a node.
LEMMA RotateRotates ==
  ASSUME NEW t, NEW S, NEW d, Shape(t, S, d), NEW x \in S, NEW side \in Sides,
         Child(t, x, Other(side)) # nil
  PROVE  Rotated(Rotate(t, x, side), t, x, side)
<1> DEFINE y == Child(t, x, Other(side))
           b == Child(t, y, side)
           p == Parent(t, x)
<1>1. y \in S
  BY OtherSide DEF Shape, Linked
<1>2. p \in S \cup {nil} /\ b \in S \cup {nil} /\ x # y /\ p # x
  BY <1>1, RotateNodes
<1>3. S \cup {nil} \subseteq Blocks /\ IsTree(t)
  BY DEF Shape, Linked, Blocks
<1> HIDE DEF y, b, p
<1>4. Turned(Rotate(t, x, side), t, x, side, y, b, p, SideOf(t, x))
  BY <1>1, <1>2, <1>3, RotateFields DEF y, b, p
<1> QED  BY <1>4 DEF Rotated, y, b, p

\* A rotation keeps the shape and the order of the tree.
LEMMA RotateShape ==
  ASSUME NEW t, NEW S, NEW d, Shape(t, S, d), NEW x \in S, NEW side \in Sides,
         Child(t, x, Other(side)) # nil, NEW u, Rotated(u, t, x, side)
  PROVE  Shape(u, S, RotatedBelow(t, d, x, side))
<1> DEFINE y == Child(t, x, Other(side))
           a == Child(t, x, side)
           b == Child(t, y, side)
           c == Child(t, y, Other(side))
           p == Parent(t, x)
           sx == SideOf(t, x)
           e == RotatedBelow(t, d, x, side)
<1>1. /\ Other(side) \in Sides /\ Other(side) # side /\ Other(Other(side)) = side
      /\ \A s \in Sides : s = side \/ s = Other(side)
  BY OtherSide
<1>2. y \in S
  BY <1>1 DEF Shape, Linked
<1> HIDE DEF y
<1>3. /\ p \in S \cup {nil} /\ a \in S \cup {nil} /\ b \in S \cup {nil} /\ c \in S \cup {nil}
      /\ p = nil <=> x = t.root
      /\ nil \notin S /\ y # t.root
      /\ x # y /\ p # x /\ p # y
      /\ a \notin {x, y} /\ b \notin {x, y} /\ c \notin {x, y}
      /\ b # nil => a # b /\ b # c
  BY <1>2, RotateNodes DEF y
<1>4. Turned(u, t, x, side, y, b, p, sx)
  BY DEF Rotated, y
<1>5. /\ p # nil => sx \in Sides
      /\ \A z \in S, s \in Sides : Child(t, z, s) = x <=> p # nil /\ z = p /\ s = sx
      /\ \A z \in S, s \in Sides : Child(t, z, s) = y <=> z = x /\ s = Other(side)
      /\ \A z \in S, s \in Sides : b # nil => (Child(t, z, s) = b <=> z = y /\ s = side)
  <2>1. ASSUME NEW z \in S, NEW s \in Sides
        PROVE  Child(t, z, s) = x <=> p # nil /\ z = p /\ s = sx
    BY <1>3, SideOfFacts, RootIsNoChild
  <2>2. ASSUME NEW z \in S, NEW s \in Sides
        PROVE  Child(t, z, s) = y <=> z = x /\ s = Other(side)
    BY <1>1, <1>2, <1>3, SideOfFacts DEF y
  <2>3. ASSUME NEW z \in S, NEW s \in Sides, b # nil
        PROVE  Child(t, z, s) = b <=> z = y /\ s = side
    BY <1>1, <1>2, <1>3, <2>3, SideOfFacts, RootIsNoChild
  <2> QED  BY <1>3, <2>1, <2>2, <2>3, SideOfFacts
<1> HIDE DEF a, b, c, p, sx, e
<1>6. IsTree(u) /\ u.key = t.key
  BY <1>4 DEF Turned, SameData
<1>7. Linked(u, S)
  <2>1. S \subseteq Nodes /\ S \subseteq Blocks /\ nil \in Blocks
    BY DEF Shape, Linked, Blocks
  <2>2. u.root \in S \cup {nil} /\ (u.root # nil => Parent(u, u.root) = nil)
    BY <1>2, <1>3, <1>4, <1>5, <2>1 DEF Turned, Shape, Linked, b, y
  <2>3. \A z \in S, s \in Sides :
          /\ Child(u, z, s) \in S \cup {nil}
          /\ Child(u, z, s) # nil => Parent(u, Child(u, z, s)) = z
    BY <1>1, <1>2, <1>3, <1>4, <1>5, <2>1 DEF Turned, Shape, Linked
  <2>4. \A z \in S : z # u.root =>
          Parent(u, z) \in S /\ \E s \in Sides : Child(u, Parent(u, z), s) = z
    <3> SUFFICES ASSUME NEW z \in S, z # u.root
                 PROVE  Parent(u, z) \in S /\ \E s \in Sides : Child(u, Parent(u, z), s) = z
      OBVIOUS
    <3>1. CASE z = x
      BY <1>1, <1>2, <1>3, <1>4, <2>1, <3>1 DEF Turned
    <3>2. CASE z = y
      <4>1. p # nil  BY <1>4, <3>2 DEF Turned
      <4> QED  BY <1>1, <1>2, <1>3, <1>4, <1>5, <2>1, <3>2, <4>1 DEF Turned
    <3>3. CASE z = b
      <4>1. b # nil  BY <1>3, <3>3
      <4> QED  BY <1>1, <1>2, <1>3, <1>4, <2>1, <3>3, <4>1 DEF Turned
    <3>4. CASE z \notin {x, y, b}
      <4>1. z # t.root
        BY <1>3, <1>4, <3>4 DEF Turned
      <4>2. PICK s \in Sides : Child(t, Parent(t, z), s) = z
        BY <4>1 DEF Shape, Linked
      <4>3. Parent(t, z) \in S /\ Parent(u, z) = Parent(t, z)
        BY <1>4, <2>1, <3>4, <4>1 DEF Turned, Shape, Linked
      <4>4. Child(u, Parent(t, z), s) = z
        <5>1. ~(Parent(t, z) = y /\ s = side) /\ ~(Parent(t, z) = x /\ s = Other(side))
              /\ ~(p # nil /\ Parent(t, z) = p /\ s = sx)
          BY <1>2, <1>3, <1>5, <3>4, <4>2, <4>3 DEF b
        <5> QED  BY <1>4, <2>1, <4>2, <4>3, <5>1 DEF Turned
      <4> QED  BY <4>3, <4>4
    <3> QED  BY <3>1, <3>2, <3>3, <3>4
  <2> QED  BY <2>1, <2>2, <2>3, <2>4 DEF Linked
<1>8. /\ e \in [S \cup {nil} -> SUBSET S]
      /\ e[x] = {x} \cup d[a] \cup d[b] /\ e[y] = d[x]
      /\ \A z \in S \cup {nil} : z \notin {x, y} => e[z] = d[z]
  BY <1>1, <1>2, <1>3 DEF e, RotatedBelow, Shape, Spans, y, a, b
<1>9. /\ d[x] = {x} \cup d[a] \cup d[y] /\ d[y] = {y} \cup d[b] \cup d[c] /\ d[nil] = {}
  BY <1>1, <1>2 DEF Shape, Spans, y, a, b, c
<1>10. \A z \in Blocks : z \in S => z # nil
  BY <1>3
<1>11. S \subseteq Blocks
  BY DEF Shape, Linked, Blocks
<1>12. /\ Child(u, x, side) = a /\ Child(u, x, Other(side)) = b
       /\ Child(u, y, side) = x /\ Child(u, y, Other(side)) = c
       /\ p # nil => Child(u, p, sx) = y /\ Child(u, p, Other(sx)) = Child(t, p, Other(sx))
       /\ \A z \in S, s \in Sides : z \notin {x, y, p} => Child(u, z, s) = Child(t, z, s)
  <2>1. p # nil => Other(sx) \in Sides /\ Other(sx) # sx
    BY <1>5, OtherSide
  <2> QED  BY <1>1, <1>2, <1>3, <1>4, <1>5, <1>11, <2>1 DEF Turned, a, c
<1>13. Spans(u, S, e)
  <2>1. e[u.root] = S
    BY <1>2, <1>3, <1>4, <1>8 DEF Turned, Shape, Linked, Spans
  <2>2. ASSUME NEW z \in S, NEW s \in Sides
        PROVE  e[z] = {z} \cup e[Child(u, z, s)] \cup e[Child(u, z, Other(s))]
    <3>1. s \in {side, Other(side)} /\ Other(s) \in Sides
      BY <1>1, OtherSide
    <3>2. CASE z = x
      BY <1>1, <1>3, <1>8, <1>12, <3>1, <3>2
    <3>3. CASE z = y
      BY <1>1, <1>3, <1>8, <1>9, <1>12, <3>1, <3>3
    <3>4. CASE z = p /\ p # nil
      <4>1. /\ sx \in Sides /\ Other(sx) \in Sides /\ s \in {sx, Other(sx)} /\ Other(sx) # sx
            /\ Other(Other(sx)) = sx
        BY <1>5, <3>4, OtherSide
      <4>2. Child(t, p, sx) = x /\ Child(t, p, Other(sx)) \notin {x, y}
            /\ Child(t, p, Other(sx)) \in S \cup {nil}
        BY <1>3, <1>5, <3>4, <4>1 DEF Shape, Linked
      <4>3. d[p] = {p} \cup d[x] \cup d[Child(t, p, Other(sx))]
        BY <3>4, <4>1, <4>2 DEF Shape, Spans
      <4>4. e[p] = {p} \cup e[Child(u, p, sx)] \cup e[Child(u, p, Other(sx))]
        BY <1>3, <1>8, <1>12, <3>4, <4>2, <4>3
      <4> QED  BY <3>4, <4>1, <4>4
    <3>5. CASE z \notin {x, y, p}
      <4>1. \A r \in Sides : Child(u, z, r) \notin {x, y} /\ Child(u, z, r) \in S \cup {nil}
                              /\ Child(u, z, r) = Child(t, z, r)
        BY <1>5, <1>7, <1>12, <3>5 DEF Linked
      <4>2. d[z] = {z} \cup d[Child(t, z, s)] \cup d[Child(t, z, Other(s))]
        BY DEF Shape, Spans
      <4>3. /\ e[z] = d[z] /\ e[Child(u, z, s)] = d[Child(t, z, s)]
            /\ e[Child(u, z, Other(s))] = d[Child(t, z, Other(s))]
        BY <1>8, <3>1, <3>5, <4>1
      <4> QED  BY <4>2, <4>3
    <3> QED  BY <1>3, <3>2, <3>3, <3>4, <3>5
  <2>3. e[nil] = {}
    BY <1>2, <1>3, <1>8, <1>9
  <2> QED  BY <1>8, <2>1, <2>2, <2>3 DEF Spans
<1>14. Ordered(u, S, e)
  <2>1. ASSUME NEW z \in S, NEW s \in Sides, NEW w \in e[Child(u, z, s)]
        PROVE  Before(s, t.key[w], t.key[z])
    <3>1. s \in {side, Other(side)}
      BY <1>1
    <3>2. CASE z = x /\ s = side
      BY <1>3, <1>8, <1>12, <2>1, <3>2 DEF Shape, Ordered, a
    <3>3. CASE z = x /\ s = Other(side)
      <4>1. w \in d[y]
        BY <1>3, <1>8, <1>9, <1>12, <2>1, <3>3
      <4> QED  BY <1>1, <3>3, <4>1 DEF Shape, Ordered, y
    <3>4. CASE z = y /\ s = Other(side)
      BY <1>1, <1>2, <1>3, <1>8, <1>12, <2>1, <3>4 DEF Shape, Ordered, c
    <3>5. CASE z = y /\ s = side
      <4>1. w \in {x} \cup d[a] \cup d[b]
        BY <1>8, <1>12, <2>1, <3>5
      <4>2. w \in S
        BY <1>3, <4>1 DEF Shape, Spans
      <4>3. t.key[w] \in Nat /\ t.key[x] \in Nat /\ t.key[y] \in Nat
        BY <1>2, <4>2, KeysAreNumbers
      <4>4. Before(side, t.key[x], t.key[y])
        <5>1. y \in d[y]  BY <1>9
        <5>2. Before(Other(side), t.key[y], t.key[x])
          BY <1>1, <5>1 DEF Shape, Ordered, y
        <5> QED  BY <4>3, <5>2, BeforeFacts
      <4>5. CASE w = x  BY <3>5, <4>4, <4>5
      <4>6. CASE w \in d[b]  BY <1>2, <3>5, <4>6 DEF Shape, Ordered, b
      <4>7. CASE w \in d[a]
        <5>1. Before(side, t.key[w], t.key[x])
          BY <4>7 DEF Shape, Ordered, a
        <5> QED  BY <3>5, <4>3, <4>4, <5>1, BeforeFacts
      <4> QED  BY <4>1, <4>5, <4>6, <4>7
    <3>6. CASE z = p /\ p # nil
      <4>1. sx \in Sides /\ Other(sx) \in Sides /\ s \in {sx, Other(sx)}
        BY <1>5, <3>6, OtherSide
      <4>2. Child(t, p, sx) = x /\ Child(t, p, Other(sx)) \notin {x, y}
            /\ Child(t, p, Other(sx)) \in S \cup {nil}
        <5>1. Other(sx) # sx  BY <1>5, <3>6, OtherSide
        <5> QED  BY <1>3, <1>5, <3>6, <4>1, <5>1 DEF Shape, Linked
      <4>3. w \in d[Child(t, p, s)]
        BY <1>3, <1>8, <1>12, <2>1, <3>6, <4>1, <4>2
      <4> QED  BY <3>6, <4>3 DEF Shape, Ordered
    <3>7. CASE z \notin {x, y, p}
      <4>1. Child(u, z, s) \notin {x, y} /\ Child(u, z, s) \in S \cup {nil}
            /\ Child(u, z, s) = Child(t, z, s)
        BY <1>5, <1>7, <1>12, <3>7 DEF Linked
      <4> QED  BY <1>8, <2>1, <4>1 DEF Shape, Ordered
    <3> QED  BY <1>3, <3>1, <3>2, <3>3, <3>4, <3>5, <3>6, <3>7
  <2> QED  BY <1>6, <2>1 DEF Ordered
<1> QED  BY <1>6, <1>7, <1>13, <1>14 DEF Shape, e

-----------------------------------------------------------------------------
(* Below a node. *)

\* A node hangs below itself, and everything else below it hangs below a child.
LEMMA BelowFacts ==
  ASSUME NEW t, NEW S, NEW d, Shape(t, S, d), NEW x \in S
  PROVE  /\ x \in d[x] /\ d[x] \subseteq S /\ nil \notin S /\ d[nil] = {}
         /\ \A s \in Sides : d[Child(t, x, s)] \subseteq d[x]
         /\ \A y \in d[x] : y # x => \E s \in Sides : y \in d[Child(t, x, s)]
<1>1. "left" \in Sides /\ Other("left") \in Sides
  BY OtherSide DEF Sides
<1> QED  BY <1>1, TreeAssumption DEF Shape, Spans, Linked

\* What hangs below a node of a subtree hangs in the subtree, and no two nodes
\* hang below each other.
LEMMA BelowTransitive ==
  ASSUME NEW t, NEW S, NEW d, Shape(t, S, d), IsFiniteSet(S), NEW x \in S, NEW y \in d[x]
  PROVE  d[y] \subseteq d[x] /\ (y # x => x \notin d[y])
<1> DEFINE V == {v \in S : \E w \in d[v] : ~(d[w] \subseteq d[v])}
<1>1. ASSUME NEW v \in S, \A s \in Sides : Child(t, v, s) \notin V
      PROVE  v \notin V
  <2>1. ASSUME NEW w \in d[v]  PROVE  d[w] \subseteq d[v]
    <3>1. CASE w = v  BY <3>1
    <3>2. CASE w # v
      <4>1. PICK s \in Sides : w \in d[Child(t, v, s)]
        BY <3>2, BelowFacts
      <4>2. Child(t, v, s) \in S
        BY <4>1, BelowFacts DEF Shape, Linked
      <4>3. d[w] \subseteq d[Child(t, v, s)]
        BY <1>1, <4>1, <4>2
      <4> QED  BY <4>3, BelowFacts
    <3> QED  BY <3>1, <3>2
  <2> QED  BY <2>1
<1>2. V = {}
  <2> HIDE DEF V
  <2>1. V \in SUBSET S  BY DEF V
  <2> QED  BY <1>1, <2>1, TreeInduction
<1>3. \A v \in S : \A w \in d[v] : d[w] \subseteq d[v]
  BY <1>2
<1>4. ASSUME y # x, x \in d[y]  PROVE FALSE
  <2>1. PICK s \in Sides : y \in d[Child(t, x, s)]
    BY <1>4, BelowFacts
  <2>2. Child(t, x, s) \in S
    BY <2>1, BelowFacts DEF Shape, Linked
  <2>3. x \in d[Child(t, x, s)]
    BY <1>3, <1>4, <2>1, <2>2
  <2> QED  BY <2>3, SidesDiffer
<1> QED  BY <1>3, <1>4

-----------------------------------------------------------------------------
(* Walking down from x, on side dir[v] of each node v, until there is none. *)

\* y is where the walk from x ends.
End(t, d, dir, x, y) ==
  /\ y \in d[x] /\ Child(t, y, dir[y]) = nil
  /\ \A v \in d[x] : y \in d[v] /\ v # y => y \in d[Child(t, v, dir[v])]

\* Where the walk from a node ends is where the walk from its next child ends.
LEMMA EndStep ==
  ASSUME NEW t, NEW S, NEW d, Shape(t, S, d), IsFiniteSet(S), NEW dir \in [S -> Sides],
         NEW x \in S, NEW y
  PROVE  /\ Child(t, x, dir[x]) = nil => (End(t, d, dir, x, y) <=> y = x)
         /\ Child(t, x, dir[x]) # nil =>
              (End(t, d, dir, x, y) <=> End(t, d, dir, Child(t, x, dir[x]), y))
<1> DEFINE c == Child(t, x, dir[x])
<1>1. /\ dir[x] \in Sides /\ c \in S \cup {nil} /\ x \in d[x] /\ d[x] \subseteq S
      /\ d[nil] = {} /\ d[c] \subseteq d[x]
  BY BelowFacts DEF Shape, Linked
<1>2. CASE c = nil
  <2>1. ASSUME End(t, d, dir, x, y)  PROVE y = x
    BY <1>1, <1>2, <2>1 DEF End
  <2>2. End(t, d, dir, x, x)
    BY <1>1, <1>2, BelowTransitive DEF End
  <2> QED  BY <1>2, <2>1, <2>2
<1>3. CASE c # nil
  <2> HIDE DEF c
  <2>1. ASSUME End(t, d, dir, x, y)  PROVE  End(t, d, dir, c, y)
    <3>1. y # x
      BY <1>3, <2>1 DEF End, c
    <3>2. y \in d[c]
      BY <1>1, <2>1, <3>1 DEF End, c
    <3> QED  BY <1>1, <2>1, <3>2 DEF End
  <2>2. ASSUME End(t, d, dir, c, y)  PROVE  End(t, d, dir, x, y)
    <3>1. ASSUME NEW v \in d[x], y \in d[v], v # y  PROVE  y \in d[Child(t, v, dir[v])]
      <4>1. CASE v = x
        BY <2>2, <4>1 DEF End, c
      <4>2. CASE v \in d[c]
        BY <2>2, <3>1, <4>2 DEF End
      <4>3. CASE v # x /\ v \notin d[c]
        <5>1. PICK s \in Sides : v \in d[Child(t, x, s)]
          BY <4>3, BelowFacts
        <5>2. Child(t, x, s) \in S
          BY <5>1, BelowFacts DEF Shape, Linked
        <5>3. y \in d[Child(t, x, s)]
          BY <3>1, <5>1, <5>2, BelowTransitive
        <5>4. s # dir[x]
          BY <4>3, <5>1 DEF c
        <5>5. d[c] \cap d[Child(t, x, s)] = {}
          BY <1>1, <5>4, SidesDiffer, OtherSide DEF c
        <5> QED  BY <2>2, <5>3, <5>5 DEF End
      <4> QED  BY <4>1, <4>2, <4>3
    <3> QED  BY <1>1, <2>2, <3>1 DEF End
  <2> QED  BY <1>3, <2>1, <2>2 DEF c
<1> QED  BY <1>2, <1>3

\* The walk is a function of the node it starts from.
LEMMA WalkExists ==
  ASSUME NEW t, NEW S, NEW d, Shape(t, S, d), IsFiniteSet(S), NEW dir \in [S -> Sides]
  PROVE  \E g : g = [x \in S |-> IF Child(t, x, dir[x]) = nil THEN x ELSE g[Child(t, x, dir[x])]]
<1> DEFINE e(x) == CHOOSE y : End(t, d, dir, x, y)
           g == [x \in S |-> e(x)]
<1>1. ASSUME NEW x \in S, Child(t, x, dir[x]) = nil  PROVE e(x) = x
  BY <1>1, EndStep
<1>2. ASSUME NEW x \in S, Child(t, x, dir[x]) # nil
      PROVE  e(x) = e(Child(t, x, dir[x])) /\ Child(t, x, dir[x]) \in S
  <2>1. Child(t, x, dir[x]) \in S
    BY <1>2 DEF Shape, Linked
  <2>2. \A y : End(t, d, dir, x, y) <=> End(t, d, dir, Child(t, x, dir[x]), y)
    BY <1>2, EndStep
  <2>3. e(x) = e(Child(t, x, dir[x]))
    BY <2>2
  <2> QED  BY <2>1, <2>3
<1> HIDE DEF e
<1>3. g = [x \in S |-> IF Child(t, x, dir[x]) = nil THEN x ELSE g[Child(t, x, dir[x])]]
  BY <1>1, <1>2
<1> QED  BY <1>3

\* It ends where it should.
LEMMA WalkEnds ==
  ASSUME NEW t, NEW S, NEW d, Shape(t, S, d), IsFiniteSet(S), NEW dir \in [S -> Sides],
         NEW g, g = [x \in S |-> IF Child(t, x, dir[x]) = nil THEN x
                                 ELSE g[Child(t, x, dir[x])]]
  PROVE  \A x \in S : End(t, d, dir, x, g[x])
<1> DEFINE V == {x \in S : ~End(t, d, dir, x, g[x])}
<1>1. ASSUME NEW x \in S, \A s \in Sides : Child(t, x, s) \notin V
      PROVE  x \notin V
  <2>1. dir[x] \in Sides /\ Child(t, x, dir[x]) \in S \cup {nil}
    BY DEF Shape, Linked
  <2>2. g[x] = IF Child(t, x, dir[x]) = nil THEN x ELSE g[Child(t, x, dir[x])]
    OBVIOUS
  <2> QED  BY <1>1, <2>1, <2>2, EndStep
<1> HIDE DEF V
<1>2. V \in SUBSET S
  BY DEF V
<1>3. V = {}
  BY <1>1, <1>2, TreeInduction
<1> QED  BY <1>3 DEF V

-----------------------------------------------------------------------------
(* Where keys belong. *)

\* The comparison of keys names a side.
LEMMA TowardFacts ==
  ASSUME NEW t, NEW k
  PROVE  \A x : Toward(t, x, k) \in Sides
BY DEF Toward, Sides

\* NattyRBTreeInsert finds the one place where a new key keeps the order.
LEMMA InsertPointFits ==
  ASSUME NEW t, NEW d, Shape(t, alive, d), IsFiniteSet(alive), t.root # nil, NEW k,
         NEW y, y = InsertPoint(t, k)
  PROVE  /\ y \in alive /\ Child(t, y, Toward(t, y, k)) = nil
         /\ \A v \in alive : y \in d[v] /\ v # y => y \in d[Child(t, v, Toward(t, v, k))]
<1> DEFINE dir == [x \in alive |-> Toward(t, x, k)]
           body(g) == [x \in alive |-> IF Child(t, x, Toward(t, x, k)) = nil THEN x
                                       ELSE g[Child(t, x, Toward(t, x, k))]]
<1>1. dir \in [alive -> Sides]
  BY TowardFacts
<1>2. \A g : (g = [x \in alive |-> IF Child(t, x, dir[x]) = nil THEN x
                                   ELSE g[Child(t, x, dir[x])]]) <=> g = body(g)
  BY Zenon
<1>3. \E g : g = body(g)
  <2>1. \E g : g = [x \in alive |-> IF Child(t, x, dir[x]) = nil THEN x
                                    ELSE g[Child(t, x, dir[x])]]
    <3> HIDE DEF dir
    <3> QED  BY <1>1, WalkExists
  <2> QED  BY <1>2, <2>1
<1>4. Descent(t, k) = body(Descent(t, k))
  BY <1>3 DEF Descent
<1>5. \A x \in alive : End(t, d, dir, x, Descent(t, k)[x])
  <2>1. Descent(t, k) = [x \in alive |-> IF Child(t, x, dir[x]) = nil THEN x
                                         ELSE Descent(t, k)[Child(t, x, dir[x])]]
    BY <1>2, <1>4
  <2> HIDE DEF dir
  <2> QED  BY <1>1, <2>1, WalkEnds
<1>6. t.root \in alive /\ d[t.root] = alive
  BY DEF Shape, Linked, Spans
<1>7. End(t, d, dir, t.root, y)
  BY <1>5, <1>6 DEF InsertPoint
<1> QED  BY <1>6, <1>7 DEF End

\* ntyTreeMiniMum finds the node with the least key.
LEMMA MinimumIsLeast ==
  ASSUME NEW t, NEW d, Shape(t, alive, d), IsFiniteSet(alive), NEW x \in alive,
         NEW y, y = Minimum(t)[x]
  PROVE  /\ y \in d[x] /\ Child(t, y, "left") = nil
         /\ \A w \in d[x] : w # y => t.key[y] < t.key[w]
<1> DEFINE dir == [v \in alive |-> "left"]
           body(g) == [v \in alive |-> IF Child(t, v, "left") = nil THEN v
                                       ELSE g[Child(t, v, "left")]]
<1>1. dir \in [alive -> Sides] /\ "left" \in Sides /\ "right" \in Sides /\ Other("left") = "right"
  BY DEF Sides, Other
<1>2. \A g : (g = [v \in alive |-> IF Child(t, v, dir[v]) = nil THEN v
                                   ELSE g[Child(t, v, dir[v])]]) <=> g = body(g)
  BY Zenon
<1>3. \E g : g = body(g)
  <2>1. \E g : g = [v \in alive |-> IF Child(t, v, dir[v]) = nil THEN v
                                    ELSE g[Child(t, v, dir[v])]]
    <3> HIDE DEF dir
    <3> QED  BY <1>1, WalkExists
  <2> QED  BY <1>2, <2>1
<1>4. Minimum(t) = body(Minimum(t))
  BY <1>3 DEF Minimum
<1>5. \A v \in alive : End(t, d, dir, v, Minimum(t)[v])
  <2>1. Minimum(t) = [v \in alive |-> IF Child(t, v, dir[v]) = nil THEN v
                                      ELSE Minimum(t)[Child(t, v, dir[v])]]
    BY <1>2, <1>4
  <2> HIDE DEF dir
  <2> QED  BY <1>1, <2>1, WalkEnds
<1> DEFINE least(v) == \A w \in d[v] : w # y => t.key[y] < t.key[w]
           V == {v \in alive : End(t, d, dir, v, y) /\ ~least(v)}
<1>6. ASSUME NEW v \in alive, \A s \in Sides : Child(t, v, s) \notin V
      PROVE  v \notin V
  <2> SUFFICES ASSUME End(t, d, dir, v, y), NEW w \in d[v], w # y  PROVE t.key[y] < t.key[w]
    OBVIOUS
  <2>1. /\ Child(t, v, "left") \in alive \cup {nil} /\ d[v] \subseteq alive
        /\ d[v] = {v} \cup d[Child(t, v, "left")] \cup d[Child(t, v, "right")] /\ dir[v] = "left"
    BY <1>1 DEF Shape, Linked, Spans
  <2>2. t.key[v] \in Nat /\ t.key[w] \in Nat /\ t.key[y] \in Nat
    BY <2>1, KeysAreNumbers DEF End
  <2>3. \A u \in d[Child(t, v, "left")] : t.key[u] < t.key[v]
    BY <1>1 DEF Shape, Ordered, Before
  <2>4. \A u \in d[Child(t, v, "right")] : t.key[v] < t.key[u]
    BY <1>1 DEF Shape, Ordered, Before
  <2>5. CASE Child(t, v, "left") = nil
    <3>1. y = v
      BY <1>1, <2>1, <2>5, EndStep
    <3>2. w \in d[Child(t, v, "right")]
      BY <2>1, <2>5, <3>1 DEF Shape, Spans
    <3> QED  BY <2>4, <3>1, <3>2
  <2>6. CASE Child(t, v, "left") # nil
    <3>1. End(t, d, dir, Child(t, v, "left"), y)
      <4> HIDE DEF dir
      <4> QED  BY <1>1, <2>1, <2>6, EndStep
    <3>2. y \in d[Child(t, v, "left")]
      BY <3>1 DEF End
    <3>3. CASE w \in d[Child(t, v, "left")]
      BY <1>1, <1>6, <2>1, <2>6, <3>1, <3>3
    <3>4. CASE w = v
      BY <2>3, <3>2, <3>4
    <3>5. CASE w \in d[Child(t, v, "right")]
      <4>1. t.key[y] < t.key[v] /\ t.key[v] < t.key[w]
        BY <2>3, <2>4, <3>2, <3>5
      <4> QED  BY <2>2, <4>1
    <3> QED  BY <2>1, <3>3, <3>4, <3>5
  <2> QED  BY <2>5, <2>6
<1>7. V = {}
  <2> HIDE DEF V
  <2>1. V \in SUBSET alive  BY DEF V
  <2> QED  BY <1>6, <2>1, TreeInduction
<1>8. End(t, d, dir, x, y)
  BY <1>5
<1>9. y \in d[x] /\ d[x] \subseteq alive
  BY <1>8 DEF End, Shape, Spans
<1>10. Child(t, y, "left") = nil
  BY <1>8, <1>9 DEF End
<1> QED  BY <1>7, <1>8, <1>9, <1>10

\* No two nodes have the same key.
LEMMA KeysDiffer ==
  ASSUME NEW t, NEW S, NEW d, Shape(t, S, d), IsFiniteSet(S), NEW x \in S, NEW y \in S, x # y
  PROVE  t.key[x] # t.key[y]
<1> DEFINE V == {v \in S : \E w, z \in d[v] : w # z /\ t.key[w] = t.key[z]}
<1>1. ASSUME NEW v \in S, \A s \in Sides : Child(t, v, s) \notin V
      PROVE  v \notin V
  <2> SUFFICES ASSUME NEW w \in d[v], NEW z \in d[v], w # z, t.key[w] = t.key[z]  PROVE FALSE
    OBVIOUS
  <2>1. "left" \in Sides /\ "right" \in Sides /\ Other("left") = "right"
    BY DEF Sides, Other
  <2>2. /\ d[v] = {v} \cup d[Child(t, v, "left")] \cup d[Child(t, v, "right")]
        /\ d[v] \subseteq S /\ d[nil] = {}
        /\ Child(t, v, "left") \in S \cup {nil} /\ Child(t, v, "right") \in S \cup {nil}
    BY <2>1 DEF Shape, Linked, Spans
  <2>3. t.key[v] \in Nat /\ t.key[w] \in Nat /\ t.key[z] \in Nat
    BY <2>2, KeysAreNumbers
  <2>4. \A u \in d[Child(t, v, "left")] : t.key[u] < t.key[v]
    BY <2>1 DEF Shape, Ordered, Before
  <2>5. \A u \in d[Child(t, v, "right")] : t.key[v] < t.key[u]
    BY <2>1 DEF Shape, Ordered, Before
  <2>6. ~(w \in d[Child(t, v, "left")] /\ z \in d[Child(t, v, "left")])
    BY <1>1, <2>1, <2>2
  <2>7. ~(w \in d[Child(t, v, "right")] /\ z \in d[Child(t, v, "right")])
    BY <1>1, <2>1, <2>2
  <2>8. ~(t.key[w] < t.key[v] /\ t.key[v] < t.key[z]) /\ ~(t.key[z] < t.key[v] /\ t.key[v] < t.key[w])
        /\ ~(t.key[v] < t.key[v])
    BY <2>3
  <2> QED  BY <2>2, <2>4, <2>5, <2>6, <2>7, <2>8
<1>2. V = {}
  <2> HIDE DEF V
  <2>1. V \in SUBSET S  BY DEF V
  <2> QED  BY <1>1, <2>1, TreeInduction
<1>3. t.root \in S /\ d[t.root] = S
  BY TreeAssumption DEF Shape, Linked, Spans
<1> QED  BY <1>2, <1>3

-----------------------------------------------------------------------------
(* What the model reads. *)

\* S hangs in the tree; the allocated blocks that do not (at most the one about
\* to be released) still point into it.
Hanging(t, S) ==
  /\ S \subseteq alive
  /\ \A x \in alive \ S, s \in Sides : Child(t, x, s) \in S \cup {nil}

\* ntyRBTreeSearch finds the node with the key if there is one.
LEMMA SearchFinds ==
  ASSUME NEW t, NEW S, NEW d, Shape(t, S, d), IsFiniteSet(S), Hanging(t, S), nil \notin alive,
         NEW k, NEW y, y = Search(t, k)
  PROVE  \/ y = nil /\ \A x \in S : t.key[x] # k
         \/ y \in S /\ t.key[y] = k
<1> DEFINE D == alive \cup {nil}
           body(g) == [x \in D |-> IF x = nil \/ k = t.key[x] THEN x
                                   ELSE g[Child(t, x, Toward(t, x, k))]]
           hits(x) == {w \in d[x] : t.key[w] = k}
           e(x) == IF hits(x) = {} THEN nil ELSE CHOOSE w \in hits(x) : TRUE
           g0 == [x \in D |-> IF x \in S \cup {nil} THEN e(x)
                              ELSE IF k = t.key[x] THEN x
                              ELSE e(Child(t, x, Toward(t, x, k)))]
<1>1. d[nil] = {} /\ nil \notin S /\ t.root \in S \cup {nil} /\ d[t.root] = S
  BY TreeAssumption DEF Shape, Linked, Spans
<1>2. ASSUME NEW x \in S, t.key[x] = k  PROVE e(x) = x
  <2>1. hits(x) = {x}
    BY <1>2, BelowFacts, KeysDiffer
  <2> QED  BY <2>1
<1>3. ASSUME NEW x \in S, t.key[x] # k
      PROVE  /\ e(x) = e(Child(t, x, Toward(t, x, k)))
             /\ hits(x) = hits(Child(t, x, Toward(t, x, k)))
             /\ Child(t, x, Toward(t, x, k)) \in S \cup {nil}
  <2> DEFINE s == Toward(t, x, k)
  <2>1. s \in Sides /\ Other(s) \in Sides
    BY TowardFacts, OtherSide
  <2>2. d[x] = {x} \cup d[Child(t, x, s)] \cup d[Child(t, x, Other(s))] /\ d[x] \subseteq S
    BY <2>1 DEF Shape, Spans
  <2>3. ASSUME NEW w \in d[Child(t, x, Other(s))]  PROVE t.key[w] # k
    <3>1. Before(Other(s), t.key[w], t.key[x])
      BY <2>1 DEF Shape, Ordered
    <3>2. t.key[w] \in Nat /\ t.key[x] \in Nat
      BY <2>2, KeysAreNumbers
    <3> QED  BY <3>1, <3>2, <1>3 DEF Before, Other, Toward
  <2>4. hits(x) = hits(Child(t, x, s))
    BY <1>3, <2>2, <2>3
  <2>5. e(x) = e(Child(t, x, s))
    <3> HIDE DEF hits
    <3> QED  BY <2>4
  <2> QED  BY <2>1, <2>4, <2>5 DEF Shape, Linked
<1>4. hits(nil) = {} /\ e(nil) = nil
  BY <1>1
<1>5. g0 = body(g0)
  <2> HIDE DEF e, hits
  <2>1. ASSUME NEW x \in D
        PROVE  g0[x] = IF x = nil \/ k = t.key[x] THEN x ELSE g0[Child(t, x, Toward(t, x, k))]
    <3>1. CASE x \in S \cup {nil}
      BY <1>1, <1>2, <1>3, <1>4, <3>1 DEF Hanging
    <3>2. CASE x \notin S \cup {nil}
      <4>1. Child(t, x, Toward(t, x, k)) \in S \cup {nil}
        BY <3>2, TowardFacts DEF Hanging
      <4> QED  BY <3>2, <4>1 DEF Hanging
    <3> QED  BY <3>1, <3>2
  <2> QED  BY <2>1
<1>6. Find(t, k) = body(Find(t, k))
  <2> HIDE DEF g0
  <2> QED  BY <1>5 DEF Find
<1> DEFINE f == Find(t, k)
           good(x) == IF hits(x) = {} THEN f[x] = nil ELSE f[x] \in hits(x)
           V == {x \in S : ~good(x)}
<1>7. f[nil] = nil
  BY <1>6
<1>8. ASSUME NEW x \in S, \A s \in Sides : Child(t, x, s) \notin V
      PROVE  x \notin V
  <2>1. x \in D /\ x # nil
    BY <1>1 DEF Hanging
  <2>2. f[x] = IF k = t.key[x] THEN x ELSE f[Child(t, x, Toward(t, x, k))]
    BY <1>6, <2>1
  <2>3. CASE t.key[x] = k
    <3>1. x \in hits(x)
      BY <2>3, BelowFacts
    <3> QED  BY <2>2, <2>3, <3>1
  <2>4. CASE t.key[x] # k
    <3>1. good(Child(t, x, Toward(t, x, k)))
      BY <1>3, <1>4, <1>7, <1>8, <2>4, TowardFacts
    <3> HIDE DEF hits
    <3> QED  BY <1>3, <2>2, <2>4, <3>1
  <2> QED  BY <2>3, <2>4
<1>9. V = {}
  <2> HIDE DEF V
  <2>1. V \in SUBSET S  BY DEF V
  <2> QED  BY <1>8, <2>1, TreeInduction
<1>10. good(t.root)
  BY <1>1, <1>4, <1>7, <1>9
<1> QED  BY <1>1, <1>10 DEF Search

\* Below, as the model reads it, is what hangs below each node.
LEMMA BelowReads ==
  ASSUME NEW S, NEW d, Shape(T, S, d), IsFiniteSet(S), Hanging(T, S), nil \notin alive
  PROVE  \A x \in S \cup {nil} : Below[x] = d[x]
<1> DEFINE D == alive \cup {nil}
           body(g) == [x \in D |-> IF x = nil THEN {}
                         ELSE {x} \cup g[Child(T, x, "left")] \cup g[Child(T, x, "right")]]
           g0 == [x \in D |-> IF x \in S \cup {nil} THEN d[x]
                              ELSE {x} \cup d[Child(T, x, "left")] \cup d[Child(T, x, "right")]]
<1>1. d[nil] = {} /\ nil \notin S
  BY TreeAssumption DEF Shape, Linked, Spans
<1>2. "left" \in Sides /\ "right" \in Sides /\ Other("left") = "right"
  BY DEF Sides, Other
<1>3. \A x \in S : d[x] = {x} \cup d[Child(T, x, "left")] \cup d[Child(T, x, "right")]
  BY <1>2 DEF Shape, Spans
<1>4. \A x \in alive, s \in Sides : Child(T, x, s) \in S \cup {nil}
  BY DEF Hanging, Shape, Linked
<1>5. g0 = body(g0)
  BY <1>1, <1>2, <1>3, <1>4 DEF Hanging
<1>6. Below = body(Below)
  <2> HIDE DEF g0
  <2> QED  BY <1>5 DEF Below
<1> DEFINE V == {x \in S : Below[x] # d[x]}
<1>7. Below[nil] = {}
  BY <1>6
<1>8. ASSUME NEW x \in S, \A s \in Sides : Child(T, x, s) \notin V
      PROVE  x \notin V
  <2>1. Below[x] = {x} \cup Below[Child(T, x, "left")] \cup Below[Child(T, x, "right")]
    BY <1>1, <1>6 DEF Hanging
  <2>2. \A s \in Sides : Below[Child(T, x, s)] = d[Child(T, x, s)]
    BY <1>1, <1>4, <1>7, <1>8 DEF Hanging
  <2> QED  BY <1>2, <1>3, <2>1, <2>2
<1>9. V = {}
  <2> HIDE DEF V
  <2>1. V \in SUBSET S  BY DEF V
  <2> QED  BY <1>8, <2>1, TreeInduction
<1> QED  BY <1>1, <1>7, <1>9

-----------------------------------------------------------------------------
(* Colours. *)

Black(t, x) == IF Red(t, x) THEN 0 ELSE 1

\* What the link from x on a side counts: one when it is the doubled link, on
\* side qs of q.
Twice(q, qs, x, s) == IF x = q /\ s = qs THEN 1 ELSE 0

\* The black nodes on the paths down from x are equal in number on both sides.
Even(t, h, q, qs, x) ==
  \A s \in Sides : h[x] = h[Child(t, x, s)] + Twice(q, qs, x, s) + Black(t, x)

\* h is the number of black nodes on every path down from each node.
Balanced(t, S, h, q, qs) ==
  /\ h \in [S \cup {nil} -> Nat]
  /\ h[nil] = 0
  /\ \A x \in S : Even(t, h, q, qs, x)

\* Without a doubled link.
LEMMA PlainBalanced ==
  ASSUME NEW t, NEW S, nil \notin S, NEW h \in [S \cup {nil} -> Nat], h[nil] = 0,
         \A x \in S, s \in Sides :
           /\ Child(t, x, s) \in S \cup {nil}
           /\ h[x] = h[Child(t, x, s)] + (IF Red(t, x) THEN 0 ELSE 1)
  PROVE  Balanced(t, S, h, nil, "left")
<1>1. ASSUME NEW x \in S, NEW s \in Sides
      PROVE  h[x] = h[Child(t, x, s)] + Twice(nil, "left", x, s) + Black(t, x)
  <2>1. Twice(nil, "left", x, s) = 0 /\ h[Child(t, x, s)] \in Nat
    BY DEF Twice
  <2> QED  BY <2>1 DEF Black
<1> QED  BY <1>1 DEF Balanced, Even

\* Height, as the model reads it, is the number of black nodes on every path down.
LEMMA HeightReads ==
  ASSUME NEW S, NEW d, Shape(T, S, d), IsFiniteSet(S), Hanging(T, S), nil \notin alive,
         NEW h, NEW q, NEW qs, Balanced(T, S, h, q, qs),
         \A x \in S, s \in Sides : Extra(x, s) = Twice(q, qs, x, s)
  PROVE  \A x \in S \cup {nil} : Height[x] = h[x]
<1> DEFINE D == alive \cup {nil}
           side(g, x, s) == g[Child(T, x, s)] + Extra(x, s)
           node(g, x) == IF side(g, x, "left") = side(g, x, "right") /\ side(g, x, "left") >= 0
                         THEN side(g, x, "left") + (IF Red(T, x) THEN 0 ELSE 1) ELSE -9
           body(g) == [x \in D |-> IF x = nil THEN 0 ELSE node(g, x)]
           g0 == [x \in D |-> IF x \in S \cup {nil} THEN h[x] ELSE node(h, x)]
<1>1. h[nil] = 0 /\ nil \notin S /\ "left" \in Sides /\ "right" \in Sides
      /\ \A x \in S \cup {nil} : h[x] \in Nat
  BY TreeAssumption DEF Shape, Linked, Balanced, Sides
<1>2. \A x \in alive, s \in Sides : Child(T, x, s) \in S \cup {nil}
  BY DEF Hanging, Shape, Linked
<1>3. ASSUME NEW x \in S  PROVE  h[x] = node(h, x)
  <2>1. \A s \in Sides : h[x] = side(h, x, s) + Black(T, x)
    BY DEF Balanced, Even
  <2>2. \A s \in Sides : side(h, x, s) \in Nat
    BY <1>1, <1>2 DEF Hanging, Twice
  <2>3. Black(T, x) = IF Red(T, x) THEN 0 ELSE 1
    BY DEF Black
  <2> HIDE DEF side
  <2>4. side(h, x, "left") = side(h, x, "right") /\ side(h, x, "left") >= 0
    BY <1>1, <2>1, <2>2, <2>3
  <2> QED  BY <1>1, <2>1, <2>3, <2>4
<1>4. \A x \in alive : \A s \in Sides : g0[Child(T, x, s)] = h[Child(T, x, s)]
  BY <1>2 DEF Hanging
<1>5. g0 = body(g0)
  <2>1. \A x \in alive : node(g0, x) = node(h, x)
    <3> HIDE DEF g0
    <3> QED  BY <1>1, <1>4
  <2> HIDE DEF node
  <2> QED  BY <1>1, <1>3, <2>1 DEF Hanging
<1>6. Height = body(Height)
  <2>1. \E g : g = body(g)
    <3> HIDE DEF g0, body
    <3> QED  BY <1>5
  <2> QED  BY <2>1 DEF Height
<1> DEFINE V == {x \in S : Height[x] # h[x]}
<1>7. Height[nil] = 0
  BY <1>6
<1>8. ASSUME NEW x \in S, \A s \in Sides : Child(T, x, s) \notin V
      PROVE  x \notin V
  <2>1. Height[x] = node(Height, x)
    BY <1>1, <1>6 DEF Hanging
  <2>2. \A s \in Sides : Height[Child(T, x, s)] = h[Child(T, x, s)]
    BY <1>1, <1>2, <1>7, <1>8 DEF Hanging
  <2>3. node(Height, x) = node(h, x)
    BY <1>1, <2>2
  <2> HIDE DEF node
  <2> QED  BY <1>3, <2>1, <2>3
<1>9. V = {}
  <2> HIDE DEF V
  <2>1. V \in SUBSET S  BY DEF V
  <2> QED  BY <1>8, <2>1, TreeInduction
<1> QED  BY <1>1, <1>7, <1>9

-----------------------------------------------------------------------------
(* What a rotation does to the colour rules. *)

\* A red node outside E is not the root and has a black parent.
NoRedPair(t, S, E) ==
  \A x \in S : Red(t, x) /\ x \notin E => x # t.root /\ ~Red(t, Parent(t, x))

\* g is h with the heights x and y have after a rotation in which y comes up.
Levels(v, S, h, g, q, qs, x, y, side) ==
  /\ g \in [S \cup {nil} -> Nat]
  /\ \A z \in (S \cup {nil}) \ {x, y} : g[z] = h[z]
  /\ g[y] = h[x]
  /\ g[x] = h[Child(v, x, side)] + Twice(q, qs, x, side) + Black(v, x)
  /\ g[x] = h[Child(v, y, side)] + Twice(q, qs, x, Other(side)) + Black(v, x)
  /\ g[y] = g[x] + Twice(q, qs, y, side) + Black(v, y)
  /\ g[y] = h[Child(v, y, Other(side))] + Twice(q, qs, y, Other(side)) + Black(v, y)

\* The heights after a rotation are those before but for the two nodes that
\* change places.
LEMMA RotateBalanced ==
  ASSUME NEW v, NEW S, NEW d, Shape(v, S, d), NEW x \in S, NEW side \in Sides,
         NEW y, y = Child(v, x, Other(side)), y # nil,
         NEW u, Rotated(u, v, x, side),
         NEW q, NEW qs, NEW h \in [S \cup {nil} -> Nat], h[nil] = 0,
         \A z \in S \ {x, y} : Even(v, h, q, qs, z),
         NEW g, Levels(v, S, h, g, q, qs, x, y, side)
  PROVE  Balanced(u, S, g, q, qs)
<1> DEFINE a == Child(v, x, side)
           b == Child(v, y, side)
           c == Child(v, y, Other(side))
           p == Parent(v, x)
           sx == SideOf(v, x)
<1>1. /\ Other(side) \in Sides /\ Other(side) # side
      /\ \A s \in Sides : s = side \/ s = Other(side)
  BY OtherSide
<1>2. y \in S
  BY <1>1 DEF Shape, Linked
<1>3. /\ p \in S \cup {nil} /\ a \in S \cup {nil} /\ b \in S \cup {nil} /\ c \in S \cup {nil}
      /\ p = nil <=> x = v.root
      /\ nil \notin S /\ y # v.root
      /\ x # y /\ p # x /\ p # y
      /\ a \notin {x, y} /\ b \notin {x, y} /\ c \notin {x, y}
  BY <1>2, RotateNodes
<1>4. Turned(u, v, x, side, y, b, p, sx)
  BY DEF Rotated
<1> HIDE DEF a, b, c, p, sx
<1>5. S \subseteq Blocks
  BY DEF Shape, Linked, Blocks
<1>6. /\ Child(u, x, side) = a /\ Child(u, x, Other(side)) = b
      /\ Child(u, y, side) = x /\ Child(u, y, Other(side)) = c
      /\ \A z \in S \ {x, y}, s \in Sides :
           Child(u, z, s) = IF z = p /\ s = sx THEN y ELSE Child(v, z, s)
      /\ \A z \in S : Black(u, z) = Black(v, z)
  <2>1. u.color = v.color
    BY <1>4 DEF Turned, SameData
  <2> QED  BY <1>1, <1>2, <1>3, <1>4, <1>5, <2>1 DEF Turned, a, c, Black, Red
<1>7. Even(u, g, q, qs, x) /\ Even(u, g, q, qs, y)
  <2>1. g[a] = h[a] /\ g[b] = h[b] /\ g[c] = h[c]
    BY <1>3 DEF Levels
  <2> QED  BY <1>1, <1>2, <1>6, <2>1 DEF Even, Levels, a, b, c
<1>8. ASSUME NEW z \in S \ {x, y}  PROVE Even(u, g, q, qs, z)
  <2>1. ASSUME NEW s \in Sides
        PROVE  g[Child(u, z, s)] = h[Child(v, z, s)]
    <3>1. CASE z = p /\ s = sx
      <4>1. Child(v, z, s) = x
        BY <1>3, <3>1, SideOfFacts DEF p, sx
      <4> QED  BY <1>6, <3>1, <4>1 DEF Levels
    <3>2. CASE ~(z = p /\ s = sx)
      <4>1. Child(v, z, s) # x
        BY <1>3, <3>2, SideOfFacts, RootIsNoChild DEF p, sx
      <4>2. Child(v, z, s) # y
        <5>1. Parent(v, y) = x
          BY <1>1 DEF Shape, Linked
        <5> QED  BY <5>1 DEF Shape, Linked
      <4>3. Child(v, z, s) \in S \cup {nil}
        BY DEF Shape, Linked
      <4> QED  BY <1>6, <3>2, <4>1, <4>2, <4>3 DEF Levels
    <3> QED  BY <3>1, <3>2
  <2>2. g[z] = h[z]
    BY DEF Levels
  <2> QED  BY <1>6, <2>1, <2>2 DEF Even
<1>9. g[nil] = 0 /\ g \in [S \cup {nil} -> Nat]
  BY <1>2, <1>3 DEF Levels
<1> QED  BY <1>2, <1>3, <1>7, <1>8, <1>9 DEF Balanced

\* A rotation keeps a red node's parent black if it does so for the three nodes whose
\* parent changes.
LEMMA RotateNoRedPair ==
  ASSUME NEW v, NEW S, NEW d, Shape(v, S, d), NEW x \in S, NEW side \in Sides,
         NEW y, y = Child(v, x, Other(side)), y # nil,
         NEW b, b = Child(v, y, side),
         NEW u, Rotated(u, v, x, side),
         NEW E, NoRedPair(v, S \ {x, y, b}, E),
         Red(v, b) /\ b \in S \ E => ~Red(v, x),
         Red(v, x) /\ x \notin E => ~Red(v, y),
         Red(v, y) /\ y \notin E => x # v.root /\ ~Red(v, Parent(v, x))
  PROVE  NoRedPair(u, S, E)
<1> DEFINE p == Parent(v, x)
           sx == SideOf(v, x)
<1>1. y \in S
  BY OtherSide DEF Shape, Linked
<1>2. /\ p \in S \cup {nil} /\ b \in S \cup {nil}
      /\ p = nil <=> x = v.root
      /\ nil \notin S /\ y # v.root
      /\ x # y /\ p # x /\ p # y /\ b \notin {x, y}
  BY <1>1, RotateNodes
<1>3. Turned(u, v, x, side, y, b, p, sx)
  BY DEF Rotated
<1> HIDE DEF p, sx
<1>4. S \subseteq Blocks /\ (b # nil => b # v.root)
  BY <1>1, RootIsNoChild DEF Shape, Linked, Blocks
<1>5. \A z : Red(u, z) <=> Red(v, z)
  BY <1>3 DEF Turned, SameData, Red
<1>6. \A z \in S \ {x, y, b} : Parent(u, z) = Parent(v, z)
  BY <1>3, <1>4 DEF Turned
<1>7. Parent(u, x) = y /\ Parent(u, y) = p /\ (b # nil => Parent(u, b) = x)
      /\ u.root = IF p = nil THEN y ELSE v.root
  BY <1>1, <1>2, <1>3, <1>4 DEF Turned
<1> QED  BY <1>1, <1>2, <1>4, <1>5, <1>6, <1>7 DEF NoRedPair, p

-----------------------------------------------------------------------------
(* An iteration of ntyRBTreeInsertFixup. *)

\* The colours have no part in the shape of the tree.
LEMMA ColourShape ==
  ASSUME NEW t, NEW S, NEW d, Shape(t, S, d), NEW u, SameButColour(u, t)
  PROVE  Shape(u, S, d)
BY DEF Shape, SameButColour, Linked, Spans, Ordered

\* A tree whose fixup, if one runs, has got to the doubled link <<q, qs>> or to
\* the nodes E, which may break the rule for red nodes.
Sound(t, S, d, h, q, qs, E) ==
  /\ IsFiniteSet(S) /\ Shape(t, S, d) /\ Balanced(t, S, h, q, qs) /\ NoRedPair(t, S, E)
  /\ ~Red(t, nil)

Good(t, S, d, h, E) == Sound(t, S, d, h, nil, "left", E)

\* The nodes are blocks, and the sentinel is none of them.
LEMMA NodesAreBlocks ==
  ASSUME NEW t, NEW S, NEW d, Shape(t, S, d)
  PROVE  nil \notin S /\ S \subseteq Blocks /\ nil \in Blocks /\ IsTree(t)
BY TreeAssumption DEF Shape, Linked, Blocks

\* The nodes around a node with a red father.
LEMMA RedFather ==
  ASSUME NEW t, NEW S, NEW d, NEW h, NEW z \in S, Good(t, S, d, h, {z}),
         NEW f, f = Parent(t, z), Red(t, f),
         NEW g, g = Parent(t, f),
         NEW side, side = SideOf(t, f)
  PROVE  /\ f \in S /\ g \in S /\ z # t.root /\ f # t.root /\ ~Red(t, g)
         /\ side \in Sides /\ Other(side) \in Sides /\ Child(t, g, side) = f
         /\ \E s \in Sides : Child(t, f, s) = z
         /\ z # f /\ z # g /\ f # g
         /\ Child(t, g, Other(side)) \notin {f, z, g}
<1>1. Shape(t, S, d) /\ NoRedPair(t, S, {z}) /\ ~Red(t, nil) /\ nil \notin S
  BY NodesAreBlocks DEF Good, Sound
<1>2. z # t.root /\ f \in S /\ \E s \in Sides : Child(t, f, s) = z
  BY <1>1 DEF Shape, Linked
<1>3. z # f
  BY <1>1, <1>2, SidesDiffer
<1>4. f # t.root /\ ~Red(t, g)
  BY <1>1, <1>2, <1>3 DEF NoRedPair
<1>5. g \in S /\ side \in Sides /\ Child(t, g, side) = f
  BY <1>1, <1>2, <1>4, SideOfFacts
<1>6. Other(side) \in Sides /\ Other(side) # side
  BY <1>5, OtherSide
<1>7. f # g /\ Child(t, g, Other(side)) # g /\ Child(t, g, Other(side)) # f
  BY <1>1, <1>2, <1>5, <1>6, SidesDiffer
<1>8. Child(t, g, Other(side)) # z
  BY <1>1, <1>5, <1>6, <1>7 DEF Shape, Linked
<1>9. z # g
  <2>1. f \in d[g] /\ z \in d[f] /\ IsFiniteSet(S)
    BY <1>1, <1>2, <1>5, BelowFacts DEF Good, Sound
  <2> QED  BY <1>1, <1>5, <1>7, <2>1, BelowTransitive
<1> QED  BY <1>2, <1>3, <1>4, <1>5, <1>6, <1>7, <1>8, <1>9

\* u is t after a step that moved the work to node z, in other colours, ...
Climbed(u, t, S, d, z) ==
  z \in S /\ Red(u, z) /\ SameEntries(u, t) /\ \E h2 : Good(u, S, d, h2, {z})

\* ... after the first rotation of f, in which z came up below g, ...
InnerTurned(u, t, S, d, h, z, f, g, side) ==
  /\ Good(u, S, RotatedBelow(t, d, f, side), h, {f})
  /\ Red(u, f) /\ Red(u, z) /\ Parent(u, f) = z /\ Parent(u, z) = g
  /\ SideOf(u, z) = side /\ Child(u, z, side) = f
  /\ Child(u, g, Other(side)) = Child(t, g, Other(side))
  /\ SameEntries(u, t) /\ \A x : Red(u, x) <=> Red(t, x)

\* ... and after the last one, of g, in which the father f of z came up.
OuterTurned(u, t, S, d, z, f, g, side) ==
  /\ \E h2 : Good(u, S, RotatedBelow(t, d, g, Other(side)), h2, {})
  /\ Red(u, z) /\ Parent(u, z) = f /\ SameEntries(u, t)

\* A red uncle: the colours of three nodes change and the grandfather is next.
LEMMA RecolourKeeps ==
  ASSUME NEW t, NEW S, NEW d, NEW h, NEW z \in S, Good(t, S, d, h, {z}),
         NEW f, f = Parent(t, z), Red(t, f),
         NEW g, g = Parent(t, f),
         NEW w, w = Child(t, g, Other(SideOf(t, f))), Red(t, w),
         NEW u, u = Paint(Paint(Paint(t, f, BLACK), w, BLACK), g, RED)
  PROVE  Climbed(u, t, S, d, g)
<1> DEFINE side == SideOf(t, f)
           h2 == [h EXCEPT ![f] = h[f] + 1, ![w] = h[w] + 1]
<1>1. /\ f \in S /\ g \in S /\ z # t.root /\ f # t.root /\ ~Red(t, g)
      /\ side \in Sides /\ Other(side) \in Sides /\ Child(t, g, side) = f
      /\ z # f /\ z # g /\ f # g
      /\ w \notin {f, z, g}
  BY RedFather
<1>2. /\ Shape(t, S, d) /\ NoRedPair(t, S, {z}) /\ ~Red(t, nil) /\ nil \notin S
      /\ S \subseteq Blocks /\ IsFiniteSet(S) /\ IsTree(t) /\ Balanced(t, S, h, nil, "left")
  BY NodesAreBlocks DEF Good, Sound
<1>3. w \in S /\ \A s \in Sides : s = side \/ s = Other(side)
  BY <1>1, <1>2, OtherSide DEF Shape, Linked
<1>4. /\ SameButColour(u, t)
      /\ \A x \in Blocks : Red(u, x) <=> x = g \/ (x \notin {f, w} /\ Red(t, x))
  <2> DEFINE t1 == Paint(t, f, BLACK)
             t2 == Paint(t1, w, BLACK)
  <2> HIDE DEF t1, t2
  <2>1. RED \in {RED, BLACK} /\ BLACK \in {RED, BLACK} /\ RED # BLACK
    BY DEF RED, BLACK
  <2>2. SameButColour(t1, t) /\ \A x \in Blocks : Red(t1, x) <=> x # f /\ Red(t, x)
    BY <1>1, <1>2, <2>1, PaintFacts DEF t1
  <2>3. SameButColour(t2, t1) /\ \A x \in Blocks : Red(t2, x) <=> x # w /\ Red(t1, x)
    <3>1. IsTree(t1)  BY <2>2 DEF SameButColour
    <3> QED  BY <1>2, <1>3, <2>1, <3>1, PaintFacts DEF t2
  <2>4. SameButColour(u, t2) /\ \A x \in Blocks : Red(u, x) <=> x = g \/ Red(t2, x)
    <3>1. IsTree(t2)  BY <2>3 DEF SameButColour
    <3> QED  BY <1>1, <1>2, <2>1, <3>1, PaintFacts DEF t2, t1
  <2>5. SameButColour(u, t)
    BY <2>2, <2>3, <2>4 DEF SameButColour
  <2> QED  BY <1>1, <2>2, <2>3, <2>4, <2>5
<1>5. Shape(u, S, d)
  BY <1>2, <1>4, ColourShape
<1>6. \A x \in S, s \in Sides :
        Child(t, x, s) \in S \cup {nil} /\ (Child(t, x, s) \in {f, w} => x = g)
  BY <1>1, <1>2, <1>3 DEF Shape, Linked
<1>7. Balanced(u, S, h2, nil, "left")
  <2>1. h \in [S \cup {nil} -> Nat] /\ h[nil] = 0
    BY <1>2 DEF Balanced
  <2>2. h2 \in [S \cup {nil} -> Nat] /\ h2[nil] = 0 /\ h2[f] = h[f] + 1 /\ h2[w] = h[w] + 1
        /\ \A x \in S \cup {nil} : x \notin {f, w} => h2[x] = h[x]
    BY <1>1, <1>2, <1>3, <2>1
  <2> HIDE DEF h2
  <2>3. \A x \in S, s \in Sides :
          h[Child(t, x, s)] \in Nat /\ h[x] = h[Child(t, x, s)] + (IF Red(t, x) THEN 0 ELSE 1)
    <3>1. \A x \in S, s \in Sides : Twice(nil, "left", x, s) = 0 /\ Child(t, x, s) \in S \cup {nil}
      BY <1>2 DEF Twice, Shape, Linked
    <3>2. \A x \in S, s \in Sides : h[Child(t, x, s)] \in Nat
      BY <2>1, <3>1
    <3> QED  BY <1>2, <3>1, <3>2 DEF Balanced, Even, Black
  <2>4. ASSUME NEW x \in S, NEW s \in Sides
        PROVE  h2[x] = h2[Child(t, x, s)] + (IF Red(u, x) THEN 0 ELSE 1)
    <3>1. CASE x = g
      <4>1. Child(t, x, s) \in {f, w}
        BY <1>1, <1>3, <3>1
      <4>2. ~Red(t, x) /\ Red(u, x) /\ h2[x] = h[x]
        BY <1>1, <1>2, <1>4, <2>2, <3>1
      <4>3. h2[Child(t, x, s)] = h[Child(t, x, s)] + 1 /\ h[x] = h[Child(t, x, s)] + 1
        BY <2>2, <2>3, <4>1, <4>2
      <4> QED  BY <4>2, <4>3, <2>3
    <3>2. CASE x \in {f, w}
      <4>1. h2[Child(t, x, s)] = h[Child(t, x, s)]
        BY <1>1, <1>6, <2>2, <3>2
      <4>2. Red(t, x) /\ ~Red(u, x) /\ h2[x] = h[x] + 1
        BY <1>1, <1>2, <1>4, <2>2, <3>2
      <4> QED  BY <2>3, <4>1, <4>2
    <3>3. CASE x \notin {f, w, g}
      <4>1. h2[Child(t, x, s)] = h[Child(t, x, s)]
        BY <1>6, <2>2, <3>3
      <4>2. (Red(t, x) <=> Red(u, x)) /\ h2[x] = h[x]
        BY <1>2, <1>4, <2>2, <3>3
      <4> QED  BY <2>3, <4>1, <4>2
    <3> QED  BY <3>1, <3>2, <3>3
  <2>5. \A x \in S, s \in Sides : Twice(nil, "left", x, s) = 0 /\ h2[Child(t, x, s)] \in Nat
    BY <1>2, <1>6, <2>2 DEF Twice
  <2>7. \A x \in S, s \in Sides :
          h2[x] = h2[Child(u, x, s)] + Twice(nil, "left", x, s) + Black(u, x)
    BY <1>4, <2>4, <2>5 DEF SameButColour, Black
  <2> QED  BY <2>2, <2>7 DEF Balanced, Even
<1>8. NoRedPair(u, S, {g})
  <2> SUFFICES ASSUME NEW x \in S, Red(u, x), x # g
               PROVE  x # u.root /\ ~Red(u, Parent(u, x))
    BY DEF NoRedPair
  <2>1. x \notin {f, w} /\ Red(t, x) /\ u.root = t.root /\ Parent(u, x) = Parent(t, x)
    BY <1>2, <1>4 DEF SameButColour
  <2>2. CASE x = z
    BY <1>1, <1>2, <1>4, <2>1, <2>2
  <2>3. CASE x # z
    <3>1. x # t.root /\ ~Red(t, Parent(t, x))
      BY <1>2, <2>1, <2>3 DEF NoRedPair
    <3>2. Parent(t, x) # g /\ Parent(t, x) \in S
      <4>1. Parent(t, x) \in S /\ \E s \in Sides : Child(t, Parent(t, x), s) = x
        BY <1>2, <3>1 DEF Shape, Linked
      <4> QED  BY <1>1, <1>3, <2>1, <4>1
    <3> QED  BY <1>2, <1>4, <2>1, <3>1, <3>2
  <2> QED  BY <2>2, <2>3
<1>9. ~Red(u, nil)
  BY <1>1, <1>2, <1>4 DEF Blocks
<1> HIDE DEF h2
<1>10. SameEntries(u, t)
  BY <1>4 DEF SameButColour, SameEntries
<1> QED  BY <1>1, <1>2, <1>4, <1>5, <1>7, <1>8, <1>9, <1>10 DEF Good, Sound, Climbed

\* An inner node with a red father: after the rotation its father is an outer one.
LEMMA InnerKeeps ==
  ASSUME NEW t, NEW S, NEW d, NEW h, NEW z \in S, Good(t, S, d, h, {z}), Red(t, z),
         NEW f, f = Parent(t, z), Red(t, f),
         NEW g, g = Parent(t, f),
         NEW side, side = SideOf(t, f),
         z = Child(t, f, Other(side)),
         NEW u, u = Rotate(t, f, side)
  PROVE  InnerTurned(u, t, S, d, h, z, f, g, side)
<1> DEFINE b == Child(t, z, side)
           w == Child(t, g, Other(side))
           e == RotatedBelow(t, d, f, side)
<1>1. /\ f \in S /\ g \in S /\ z # t.root /\ f # t.root /\ ~Red(t, g)
      /\ side \in Sides /\ Other(side) \in Sides /\ Child(t, g, side) = f
      /\ z # f /\ z # g /\ f # g
      /\ w \notin {f, z, g}
  BY RedFather
<1>2. /\ Shape(t, S, d) /\ NoRedPair(t, S, {z}) /\ ~Red(t, nil) /\ nil \notin S
      /\ S \subseteq Blocks /\ IsFiniteSet(S) /\ IsTree(t) /\ Balanced(t, S, h, nil, "left")
  BY NodesAreBlocks DEF Good, Sound
<1>3. Other(side) # side /\ \A s \in Sides : s = side \/ s = Other(side)
  BY <1>1, OtherSide
<1>4. Rotated(u, t, f, side)
  BY <1>1, <1>2, RotateRotates
<1>5. Shape(u, S, e)
  BY <1>1, <1>2, <1>4, RotateShape
<1>6. b \in S \cup {nil} /\ (b # nil => Parent(t, b) = z) /\ b \notin {f, z, g}
  <2>1. b \in S \cup {nil} /\ (b # nil => Parent(t, b) = z) /\ b \notin {f, z}
    BY <1>1, <1>2, RotateNodes DEF Shape, Linked
  <2>2. b # g
    BY <1>1, <1>2, <2>1, RedFather, BelowFacts, BelowTransitive DEF Shape, Linked
  <2> QED  BY <2>1, <2>2
<1> HIDE DEF b, w, e
<1>7. Turned(u, t, f, side, z, b, g, side)
  BY <1>4 DEF Rotated, b
<1>8. /\ Parent(u, f) = z /\ Parent(u, z) = g /\ Child(u, z, side) = f
      /\ Child(u, g, side) = z /\ Child(u, g, Other(side)) = w
      /\ \A x : Red(u, x) <=> Red(t, x)
  <2>1. nil \in Blocks /\ f \in Blocks /\ g \in Blocks /\ z \in Blocks /\ g # nil
    BY <1>1, <1>2 DEF Blocks
  <2> QED  BY <1>1, <1>3, <1>6, <1>7, <2>1 DEF Turned, SameData, Red, w
<1>9. SideOf(u, z) = side
  <2>1. z # u.root
    BY <1>1, <1>2, <1>7 DEF Turned
  <2> QED  BY <1>1, <1>5, <1>8, <2>1, SideOfFacts
<1>10. Balanced(u, S, h, nil, "left")
  <2>1. h \in [S \cup {nil} -> Nat] /\ h[nil] = 0 /\ \A x \in S : Even(t, h, nil, "left", x)
    BY <1>2 DEF Balanced
  <2>2. Twice(nil, "left", f, side) = 0 /\ Twice(nil, "left", f, Other(side)) = 0
        /\ Twice(nil, "left", z, side) = 0 /\ Twice(nil, "left", z, Other(side)) = 0
    BY <1>1, <1>2 DEF Twice
  <2>3. Black(t, f) = 0 /\ Black(t, z) = 0
    BY DEF Black
  <2>4. /\ Child(t, f, side) \in S \cup {nil} /\ Child(t, z, Other(side)) \in S \cup {nil}
        /\ Child(t, z, side) \in S \cup {nil}
    BY <1>1, <1>2 DEF Shape, Linked
  <2>5. h[f] = h[Child(t, f, side)] /\ h[f] = h[z] /\ h[z] = h[Child(t, z, side)]
        /\ h[z] = h[Child(t, z, Other(side))]
    BY <1>1, <2>1, <2>2, <2>3, <2>4 DEF Even
  <2>6. /\ h[f] = h[Child(t, f, side)] + Twice(nil, "left", f, side) + Black(t, f)
        /\ h[f] = h[Child(t, z, side)] + Twice(nil, "left", f, Other(side)) + Black(t, f)
        /\ h[z] = h[f] + Twice(nil, "left", z, side) + Black(t, z)
        /\ h[z] = h[Child(t, z, Other(side))] + Twice(nil, "left", z, Other(side)) + Black(t, z)
        /\ h[z] = h[f]
    <3>1. h[f] \in Nat /\ h[f] + 0 + 0 = h[f]
      BY <1>1, <2>1
    <3> QED  BY <2>2, <2>3, <2>5, <3>1
  <2>7. Levels(t, S, h, h, nil, "left", f, z, side)
    BY <2>1, <2>6 DEF Levels
  <2> QED  BY <1>1, <1>2, <1>4, <2>1, <2>7, RotateBalanced
<1>11. NoRedPair(u, S, {f})
  <2>1. NoRedPair(t, S \ {f, z, b}, {f})
    BY <1>2 DEF NoRedPair
  <2>2. ~Red(t, b)
    BY <1>2, <1>6 DEF NoRedPair
  <2>3. ~Red(t, Parent(t, f))
    BY <1>1
  <2> QED  BY <1>1, <1>2, <1>4, <2>1, <2>2, <2>3, RotateNoRedPair DEF b
<1>12. ~Red(u, nil)
  BY <1>2, <1>8
<1>13. SameEntries(u, t)
  BY <1>7 DEF Turned, SameData, SameEntries
<1> QED  BY <1>2, <1>5, <1>8, <1>9, <1>10, <1>11, <1>12, <1>13 DEF Good, Sound, e, w, InnerTurned

\* An outer node with a red father and a black uncle: after two colours and one
\* rotation no red node has a red father.
LEMMA OuterKeeps ==
  ASSUME NEW t, NEW S, NEW d, NEW h, NEW z \in S, Good(t, S, d, h, {z}), Red(t, z),
         NEW f, f = Parent(t, z), Red(t, f),
         NEW g, g = Parent(t, f),
         NEW side, side = SideOf(t, f),
         z = Child(t, f, side), ~Red(t, Child(t, g, Other(side))),
         NEW v, v = Paint(Paint(t, f, BLACK), g, RED),
         NEW u, u = Rotate(v, g, Other(side))
  PROVE  OuterTurned(u, t, S, d, z, f, g, side)
<1> DEFINE b == Child(t, f, Other(side))
           w == Child(t, g, Other(side))
           e == RotatedBelow(t, d, g, Other(side))
           h2 == [h EXCEPT ![f] = h[g], ![g] = h[f]]
<1>1. /\ f \in S /\ g \in S /\ z # t.root /\ f # t.root /\ ~Red(t, g)
      /\ side \in Sides /\ Other(side) \in Sides /\ Child(t, g, side) = f
      /\ z # f /\ z # g /\ f # g
      /\ w \notin {f, z, g}
  BY RedFather
<1>2. /\ Shape(t, S, d) /\ NoRedPair(t, S, {z}) /\ ~Red(t, nil) /\ nil \notin S
      /\ S \subseteq Blocks /\ IsFiniteSet(S) /\ IsTree(t) /\ Balanced(t, S, h, nil, "left")
      /\ nil \in Blocks
  BY NodesAreBlocks DEF Good, Sound
<1>3. /\ Other(side) # side /\ Other(Other(side)) = side
      /\ \A s \in Sides : s = side \/ s = Other(side)
  BY <1>1, OtherSide
<1>4. SameButColour(v, t) /\ \A x \in Blocks : Red(v, x) <=> x = g \/ (x # f /\ Red(t, x))
  <2> DEFINE t1 == Paint(t, f, BLACK)
  <2> HIDE DEF t1
  <2>1. RED \in {RED, BLACK} /\ BLACK \in {RED, BLACK} /\ RED # BLACK
    BY DEF RED, BLACK
  <2>2. SameButColour(t1, t) /\ \A x \in Blocks : Red(t1, x) <=> x # f /\ Red(t, x)
    BY <1>1, <1>2, <2>1, PaintFacts DEF t1
  <2>3. SameButColour(v, t1) /\ \A x \in Blocks : Red(v, x) <=> x = g \/ Red(t1, x)
    <3>1. IsTree(t1) /\ v = Paint(t1, g, RED)
      BY <2>2 DEF SameButColour, t1
    <3>2. g \in Blocks
      BY <1>1, <1>2
    <3>3. SameButColour(v, t1) /\ \A x \in Blocks : Red(v, x) <=> IF x = g THEN RED = RED ELSE Red(t1, x)
      BY <2>1, <3>1, <3>2, PaintFacts
    <3> QED  BY <3>3
  <2>4. SameButColour(v, t)
    BY <2>2, <2>3 DEF SameButColour
  <2> QED  BY <1>1, <2>2, <2>3, <2>4
<1>5. Shape(v, S, d)
  BY <1>2, <1>4, ColourShape
<1>6. Child(v, g, side) = f /\ Child(v, g, Other(side)) = w /\ Child(v, f, Other(side)) = b
      /\ Child(v, f, side) = z /\ Parent(v, g) = Parent(t, g) /\ SideOf(v, g) = SideOf(t, g)
      /\ v.root = t.root
  BY <1>1, <1>4 DEF SameButColour
<1>7. Rotated(u, v, g, Other(side))
  BY <1>1, <1>2, <1>3, <1>5, <1>6, RotateRotates
<1>8. Shape(u, S, RotatedBelow(v, d, g, Other(side)))
  BY <1>1, <1>2, <1>3, <1>5, <1>6, <1>7, RotateShape
<1>9. RotatedBelow(v, d, g, Other(side)) = e
  BY <1>1, <1>3, <1>6 DEF RotatedBelow
<1> HIDE DEF b, w, e
<1>10. /\ b \in S \cup {nil} /\ w \in S \cup {nil} /\ b \notin {f, g, z} /\ (b # nil => b # w)
       /\ (b # nil => Parent(t, b) = f)
  <2>1. /\ b \in S \cup {nil} /\ w \in S \cup {nil} /\ (b # nil => Parent(t, b) = f)
        /\ (w # nil => Parent(t, w) = g)
    BY <1>1, <1>2 DEF Shape, Linked, b, w
  <2>2. b # f /\ b # z
    BY <1>1, <1>2, SidesDiffer DEF b
  <2>3. b # g
    <3>1. f \in d[g] /\ b \in d[f] \cup {nil}
      BY <1>1, <1>2, <2>1, BelowFacts DEF b
    <3>2. g \notin d[f]
      BY <1>1, <1>2, <3>1, BelowTransitive
    <3> QED  BY <1>1, <1>2, <3>1, <3>2
  <2> QED  BY <1>1, <2>1, <2>2, <2>3
<1>11. Turned(u, v, g, Other(side), f, b, Parent(t, g), SideOf(t, g))
  BY <1>3, <1>6, <1>7 DEF Rotated
<1>12. /\ \A x : Red(u, x) <=> Red(v, x)
       /\ Parent(u, z) = f
  <2>1. \A x : Red(u, x) <=> Red(v, x)
    BY <1>11 DEF Turned, SameData, Red
  <2>2. Parent(u, z) = Parent(v, z)
    BY <1>1, <1>2, <1>10, <1>11 DEF Turned
  <2> QED  BY <1>4, <2>1, <2>2 DEF SameButColour
<1>13. Balanced(u, S, h2, nil, "left")
  <2>1. h \in [S \cup {nil} -> Nat] /\ h[nil] = 0 /\ \A x \in S : Even(t, h, nil, "left", x)
    BY <1>2 DEF Balanced
  <2>2. \A x \in S, s \in Sides : Twice(nil, "left", x, s) = 0
    BY <1>2 DEF Twice
  <2>3. Black(t, f) = 0 /\ Black(t, g) = 1 /\ Black(v, f) = 1 /\ Black(v, g) = 0
    BY <1>1, <1>2, <1>4 DEF Black
  <2>4. h[f] \in Nat /\ h[g] \in Nat /\ h[w] \in Nat /\ h[b] \in Nat /\ h[z] \in Nat
    BY <1>1, <1>10, <2>1
  <2>5. h[g] = h[f] + 1 /\ h[g] = h[w] + 1 /\ h[f] = h[b] /\ h[f] = h[z]
    <3>1. h[g] = h[f] + 0 + 1 /\ h[g] = h[w] + 0 + 1 /\ h[f] = h[b] + 0 + 0 /\ h[f] = h[z] + 0 + 0
      BY <1>1, <2>1, <2>2, <2>3 DEF Even, w, b
    <3> QED  BY <2>4, <3>1
  <2>6. h2 \in [S \cup {nil} -> Nat] /\ h2[f] = h[g] /\ h2[g] = h[f]
        /\ \A x \in (S \cup {nil}) \ {g, f} : h2[x] = h[x]
    BY <1>1, <2>1, <2>4
  <2> HIDE DEF h2
  <2>7. Levels(v, S, h, h2, nil, "left", g, f, Other(side))
    <3>1. h[f] = h[f] + 0 + 0 /\ h[g] = h[f] + 0 + 1 /\ h[w] = h[f]
      BY <2>4, <2>5
    <3>2. h2[g] = h[w] + 0 + 0 /\ h2[g] = h[b] + 0 + 0 /\ h2[f] = h2[g] + 0 + 1 /\ h2[f] = h[z] + 0 + 1
      BY <2>4, <2>5, <2>6, <3>1
    <3>3. /\ h2[g] = h[Child(v, g, Other(side))] + Twice(nil, "left", g, Other(side)) + Black(v, g)
          /\ h2[g] = h[Child(v, f, Other(side))] + Twice(nil, "left", g, side) + Black(v, g)
          /\ h2[f] = h2[g] + Twice(nil, "left", f, Other(side)) + Black(v, f)
          /\ h2[f] = h[Child(v, f, side)] + Twice(nil, "left", f, side) + Black(v, f)
      BY <1>1, <1>6, <2>2, <2>3, <3>2
    <3> QED  BY <1>3, <2>6, <3>3 DEF Levels
  <2>8. ASSUME NEW x \in S \ {g, f}  PROVE Even(v, h, nil, "left", x)
    <3>1. Black(v, x) = Black(t, x)
      BY <1>2, <1>4 DEF Black
    <3> QED  BY <1>4, <2>1, <3>1 DEF Even, SameButColour
  <2> QED  BY <1>1, <1>2, <1>3, <1>5, <1>6, <1>7, <2>1, <2>7, <2>8, RotateBalanced
<1>14. NoRedPair(u, S, {})
  <2>1. NoRedPair(v, S \ {g, f, b}, {})
    <3> SUFFICES ASSUME NEW x \in S \ {g, f, b}, Red(v, x)
                 PROVE  x # v.root /\ ~Red(v, Parent(v, x))
      BY DEF NoRedPair
    <3>1. Red(t, x) /\ Parent(v, x) = Parent(t, x)
      BY <1>2, <1>4 DEF SameButColour
    <3>2. CASE x = z
      BY <1>1, <1>2, <1>4, <1>6, <3>1, <3>2
    <3>3. CASE x # z
      <4>1. x # t.root /\ ~Red(t, Parent(t, x))
        BY <1>2, <3>1, <3>3 DEF NoRedPair
      <4>2. Parent(t, x) \in S /\ \E s \in Sides : Child(t, Parent(t, x), s) = x
        BY <1>2, <4>1 DEF Shape, Linked
      <4>3. Parent(t, x) # g
        BY <1>1, <1>3, <3>1, <4>2 DEF w
      <4> QED  BY <1>2, <1>4, <1>6, <3>1, <4>1, <4>2, <4>3
    <3> QED  BY <3>2, <3>3
  <2>2. ~Red(v, b)
    <3>1. ~Red(t, b)
      BY <1>2, <1>10 DEF NoRedPair
    <3> QED  BY <1>2, <1>4, <1>10, <3>1
  <2>3. ~Red(v, f)
    BY <1>1, <1>2, <1>4
  <2> QED  BY <1>1, <1>2, <1>3, <1>5, <1>6, <1>7, <2>1, <2>2, <2>3, RotateNoRedPair
<1>15. ~Red(u, nil) /\ Red(u, z)
  BY <1>1, <1>2, <1>4, <1>12
<1> HIDE DEF h2
<1>16. Good(u, S, e, h2, {})
  BY <1>2, <1>8, <1>9, <1>13, <1>14, <1>15 DEF Good, Sound
<1>17. SameEntries(u, t)
  BY <1>4, <1>11 DEF SameButColour, Turned, SameData, SameEntries
<1> QED  BY <1>12, <1>15, <1>16, <1>17 DEF e, OuterTurned

-----------------------------------------------------------------------------
(* The end of both fixups: a node turns black. *)

\* Painting a node black that is red or the root ends either fixup.
LEMMA BlackenKeeps ==
  ASSUME NEW t, NEW S, NEW d, NEW h, NEW q, NEW qs, NEW x \in S \cup {nil},
         Sound(t, S, d, h, q, qs, {x} \cup {y \in S : y # t.root /\ Parent(t, y) = x}),
         x = t.root \/ Red(t, x),
         x = t.root => q \notin S,
         x # t.root => q = Parent(t, x) /\ qs = SideOf(t, x),
         NEW u, u = Paint(t, x, BLACK)
  PROVE  SameEntries(u, t) /\ \E h2 : Good(u, S, d, h2, {})
<1> DEFINE E == {x} \cup {y \in S : y # t.root /\ Parent(t, y) = x}
           h2 == IF Red(t, x) THEN [h EXCEPT ![x] = h[x] + 1] ELSE h
<1>1. /\ Shape(t, S, d) /\ NoRedPair(t, S, E) /\ ~Red(t, nil) /\ nil \notin S
      /\ S \subseteq Blocks /\ IsFiniteSet(S) /\ IsTree(t) /\ Balanced(t, S, h, q, qs)
      /\ nil \in Blocks
  BY NodesAreBlocks DEF Sound
<1>2. SameButColour(u, t) /\ \A y \in Blocks : Red(u, y) <=> y # x /\ Red(t, y)
  <2>1. BLACK \in {RED, BLACK} /\ RED # BLACK /\ x \in Blocks
    BY <1>1 DEF RED, BLACK
  <2>2. SameButColour(u, t) /\ \A y \in Blocks : Red(u, y) <=> IF y = x THEN BLACK = RED ELSE Red(t, y)
    BY <1>1, <2>1, PaintFacts
  <2> QED  BY <2>1, <2>2
<1>3. Shape(u, S, d)
  BY <1>1, <1>2, ColourShape
<1>4. h \in [S \cup {nil} -> Nat] /\ h[nil] = 0
      /\ \A y \in S, s \in Sides :
           h[y] = h[Child(t, y, s)] + (IF y = q /\ s = qs THEN 1 ELSE 0) + (IF Red(t, y) THEN 0 ELSE 1)
  BY <1>1 DEF Balanced, Even, Twice, Black
<1>5. \A y \in S, s \in Sides :
        Child(t, y, s) \in S \cup {nil} /\ (Red(t, x) => (Child(t, y, s) = x <=> y = q /\ s = qs))
  <2>1. \A y \in S, s \in Sides : Child(t, y, s) \in S \cup {nil}
    BY <1>1 DEF Shape, Linked
  <2>2. ASSUME NEW y \in S, NEW s \in Sides, Red(t, x)  PROVE Child(t, y, s) = x <=> y = q /\ s = qs
    <3>1. x \in S /\ x # nil
      BY <1>1, <2>2
    <3>2. CASE x = t.root
      BY <1>1, <3>1, <3>2, RootIsNoChild
    <3>3. CASE x # t.root
      BY <1>1, <3>1, <3>3, SideOfFacts
    <3> QED  BY <3>2, <3>3
  <2> QED  BY <2>1, <2>2
<1>6. ASSUME Red(t, x)
      PROVE  /\ h2 \in [S \cup {nil} -> Nat] /\ h2[nil] = 0
             /\ \A y \in S, s \in Sides :
                  h2[y] = h2[Child(t, y, s)] + (IF Red(u, y) THEN 0 ELSE 1)
  <2>1. x \in S /\ x # nil
    BY <1>1, <1>6
  <2>2. h2 \in [S \cup {nil} -> Nat] /\ h2[nil] = 0 /\ h2[x] = h[x] + 1
        /\ \A y \in S \cup {nil} : y # x => h2[y] = h[y]
    BY <1>4, <1>6, <2>1
  <2> HIDE DEF h2
  <2>3. ASSUME NEW y \in S, NEW s \in Sides
        PROVE  h2[y] = h2[Child(t, y, s)] + (IF Red(u, y) THEN 0 ELSE 1)
    <3> DEFINE c == Child(t, y, s)
    <3>1. c \in S \cup {nil} /\ (c = x <=> y = q /\ s = qs)
      BY <1>5, <1>6
    <3>2. h[y] = h[c] + (IF y = q /\ s = qs THEN 1 ELSE 0) + (IF Red(t, y) THEN 0 ELSE 1)
      BY <1>4
    <3>3. h[c] \in Nat /\ h[y] \in Nat
      BY <1>4, <3>1
    <3> HIDE DEF c
    <3>4. CASE y = x
      <4>1. c # x
        BY <1>1, <2>1, <3>4, SidesDiffer DEF c
      <4>2. h2[c] = h[c] /\ h2[y] = h[y] + 1 /\ ~Red(u, y) /\ Red(t, y)
        BY <1>1, <1>2, <1>6, <2>1, <2>2, <3>1, <3>4, <4>1
      <4>3. h[y] = h[c]
        BY <3>1, <3>2, <3>3, <4>1, <4>2
      <4> QED  BY <3>3, <4>2, <4>3 DEF c
    <3>5. CASE y # x
      <4>1. h2[y] = h[y] /\ (Red(u, y) <=> Red(t, y))
        BY <1>1, <1>2, <2>2, <3>5
      <4>2. h2[c] = h[c] + (IF y = q /\ s = qs THEN 1 ELSE 0)
        BY <2>2, <3>1, <3>3
      <4> QED  BY <3>2, <3>3, <4>1, <4>2 DEF c
    <3> QED  BY <3>4, <3>5
  <2> QED  BY <2>2, <2>3
<1>7. ASSUME ~Red(t, x)
      PROVE  /\ h2 \in [S \cup {nil} -> Nat] /\ h2[nil] = 0
             /\ \A y \in S, s \in Sides :
                  h2[y] = h2[Child(t, y, s)] + (IF Red(u, y) THEN 0 ELSE 1)
  <2>1. q \notin S /\ \A y \in S : Red(u, y) <=> Red(t, y)
    BY <1>1, <1>2, <1>7
  <2>2. ASSUME NEW y \in S, NEW s \in Sides
        PROVE  h[y] = h[Child(t, y, s)] + (IF Red(u, y) THEN 0 ELSE 1)
    <3>1. h[Child(t, y, s)] \in Nat
      BY <1>4, <1>5
    <3>2. y # q
      BY <2>1
    <3> QED  BY <1>4, <2>1, <3>1, <3>2
  <2> QED  BY <1>4, <1>7, <2>2
<1>8. Balanced(u, S, h2, nil, "left")
  <2>1. \A y \in S, s \in Sides :
          /\ Child(u, y, s) \in S \cup {nil}
          /\ h2[y] = h2[Child(u, y, s)] + (IF Red(u, y) THEN 0 ELSE 1)
    <3> HIDE DEF h2
    <3> QED  BY <1>2, <1>5, <1>6, <1>7 DEF SameButColour
  <2>2. h2 \in [S \cup {nil} -> Nat] /\ h2[nil] = 0
    <3> HIDE DEF h2
    <3> QED  BY <1>6, <1>7
  <2> HIDE DEF h2
  <2> QED  BY <1>1, <2>1, <2>2, PlainBalanced
<1>9. NoRedPair(u, S, {})
  <2> SUFFICES ASSUME NEW y \in S, Red(u, y)
               PROVE  y # u.root /\ ~Red(u, Parent(u, y))
    BY DEF NoRedPair
  <2>1. y # x /\ Red(t, y) /\ u.root = t.root /\ Parent(u, y) = Parent(t, y)
    BY <1>1, <1>2 DEF SameButColour
  <2>2. y # t.root
    BY <1>1, <2>1 DEF NoRedPair
  <2>3. Parent(t, y) \in Blocks
    BY <1>1, <2>2 DEF Shape, Linked
  <2>4. Parent(t, y) = x \/ ~Red(t, Parent(t, y))
    BY <1>1, <2>1, <2>2 DEF NoRedPair
  <2> QED  BY <1>2, <2>1, <2>2, <2>3, <2>4
<1>10. ~Red(u, nil)
  BY <1>1, <1>2
<1> HIDE DEF h2
<1>11. SameEntries(u, t)
  BY <1>2 DEF SameButColour, SameEntries
<1> QED  BY <1>1, <1>3, <1>8, <1>9, <1>10, <1>11 DEF Good, Sound

-----------------------------------------------------------------------------
(* NattyRBTreeInsert up to its fixup. *)

\* u is t with a new red node n, holding k and v, below y on a side.
Added(u, t, n, k, v, y, side) ==
  /\ IsTree(u) /\ u.root = IF y = nil THEN n ELSE t.root
  /\ \A z \in Blocks : u.key[z] = IF z = n THEN k ELSE t.key[z]
  /\ \A z \in Blocks : u.value[z] = IF z = n THEN v ELSE t.value[z]
  /\ \A z \in Blocks : Red(u, z) <=> z = n \/ Red(t, z)
  /\ \A z \in Blocks : Parent(u, z) = IF z = n THEN y ELSE Parent(t, z)
  /\ \A z \in Blocks, s \in Sides :
       Child(u, z, s) = IF z = n THEN nil
                        ELSE IF y # nil /\ z = y /\ s = side THEN n ELSE Child(t, z, s)

\* The assignments of NattyRBTreeInsert, taken together.
LEMMA LinkFields ==
  ASSUME NEW t, IsTree(t), NEW n \in Nodes, NEW k \in Nat, NEW v \in Values,
         NEW y \in Blocks, y = InsertPoint(t, k), y # n
  PROVE  Added(Link(t, n, k, v), t, n, k, v, y, Toward(t, y, k))
<1> DEFINE t1 == Hold(t, n, k, v)
           t2 == SetParent(t1, n, y)
           t3 == SetChild(t2, n, "left", nil)
           t4 == SetChild(t3, n, "right", nil)
           t5 == Paint(t4, n, RED)
           t6 == [t5 EXCEPT !.root = n]
           t7 == SetChild(t5, y, Toward(t, y, k), n)
<1>1. Link(t, n, k, v) = IF y = nil THEN t6 ELSE t7
  BY DEF Link
<1>2. /\ "left" \in Sides /\ "right" \in Sides /\ Blocks \subseteq Pointers /\ nil \in Blocks
      /\ n \in Blocks /\ Toward(t, y, k) \in Sides /\ RED \in {RED, BLACK}
      /\ \A s \in Sides : s = "left" \/ s = "right"
  BY TowardFacts DEF Sides, Pointers, Blocks
<1> HIDE DEF t1, t2, t3, t4, t5, t6, t7
<1>3. Held(t1, t, n, k, v)
  BY <1>2, HoldFields DEF t1
<1>4. ParentSet(t2, t1, n, y)
  <2>1. IsTree(t1)  BY <1>3 DEF Held
  <2> QED  BY <1>2, <2>1, ParentFields DEF t2
<1>5. ChildSet(t3, t2, n, "left", nil)
  <2>1. IsTree(t2)  BY <1>4 DEF ParentSet
  <2> QED  BY <1>2, <2>1, ChildFields DEF t3
<1>6. ChildSet(t4, t3, n, "right", nil)
  <2>1. IsTree(t3)  BY <1>5 DEF ChildSet
  <2> QED  BY <1>2, <2>1, ChildFields DEF t4
<1>7. SameButColour(t5, t4) /\ \A z \in Blocks : Red(t5, z) <=> IF z = n THEN RED = RED ELSE Red(t4, z)
  <2>1. IsTree(t4)  BY <1>6 DEF ChildSet
  <2> QED  BY <1>2, <2>1, PaintFacts DEF t5
<1>8. /\ IsTree(t5) /\ t5.root = t.root
      /\ \A z \in Blocks : t5.key[z] = IF z = n THEN k ELSE t.key[z]
      /\ \A z \in Blocks : t5.value[z] = IF z = n THEN v ELSE t.value[z]
      /\ \A z \in Blocks : Red(t5, z) <=> z = n \/ Red(t, z)
      /\ \A z \in Blocks : Parent(t5, z) = IF z = n THEN y ELSE Parent(t, z)
      /\ \A z \in Blocks, s \in Sides : Child(t5, z, s) = IF z = n THEN nil ELSE Child(t, z, s)
  <2>1. t4.key = t1.key /\ t4.value = t1.value /\ t4.color = t1.color
    BY <1>4, <1>5, <1>6 DEF ParentSet, ChildSet, SameData
  <2>2. IsTree(t5) /\ t5.root = t.root /\ t5.key = t1.key /\ t5.value = t1.value
    BY <1>3, <1>4, <1>5, <1>6, <1>7, <2>1 DEF Held, ParentSet, ChildSet, SameButColour
  <2>3. \A z \in Blocks : Parent(t5, z) = IF z = n THEN y ELSE Parent(t, z)
    BY <1>3, <1>4, <1>5, <1>6, <1>7 DEF Held, ParentSet, ChildSet, SameButColour
  <2>4. \A z \in Blocks, s \in Sides : Child(t5, z, s) = IF z = n THEN nil ELSE Child(t, z, s)
    BY <1>2, <1>3, <1>4, <1>5, <1>6, <1>7 DEF Held, ParentSet, ChildSet, SameButColour
  <2>5. \A z \in Blocks : Red(t5, z) <=> z = n \/ Red(t, z)
    <3>1. \A z : Red(t4, z) <=> Red(t1, z)
      BY <2>1 DEF Red
    <3> QED  BY <1>3, <1>7, <3>1 DEF Held
  <2> QED  BY <1>3, <2>2, <2>3, <2>4, <2>5 DEF Held
<1>9. CASE y = nil
  <2>1. /\ IsTree(t6) /\ SameData(t6, t5)
        /\ t6.root = n /\ t6.child = t5.child /\ t6.parent = t5.parent
    BY <1>2, <1>8, RootFields DEF t6
  <2>2. Added(t6, t, n, k, v, y, Toward(t, y, k))
    BY <1>8, <1>9, <2>1 DEF Added, SameData, Red, Parent, Child
  <2> QED  BY <1>1, <1>9, <2>2
<1>10. CASE y # nil
  <2>1. ChildSet(t7, t5, y, Toward(t, y, k), n)
    BY <1>2, <1>8, ChildFields DEF t7
  <2>2. t7.root = t.root /\ t7.key = t5.key /\ t7.value = t5.value /\ t7.color = t5.color /\ IsTree(t7)
    BY <1>8, <2>1 DEF ChildSet, SameData
  <2>3. \A z \in Blocks : Red(t7, z) <=> z = n \/ Red(t, z)
    BY <1>8, <2>2 DEF Red
  <2>4. \A z \in Blocks : Parent(t7, z) = IF z = n THEN y ELSE Parent(t, z)
    BY <1>8, <2>1 DEF ChildSet
  <2>5. \A z \in Blocks, s \in Sides :
          Child(t7, z, s) = IF z = n THEN nil
                            ELSE IF y # nil /\ z = y /\ s = Toward(t, y, k) THEN n ELSE Child(t, z, s)
    BY <1>8, <1>10, <2>1 DEF ChildSet
  <2>6. Added(t7, t, n, k, v, y, Toward(t, y, k))
    BY <1>8, <1>10, <2>2, <2>3, <2>4, <2>5 DEF Added
  <2> QED  BY <1>1, <1>10, <2>6
<1> QED  BY <1>9, <1>10

\* The new node hangs where its key belongs.
LEMMA LinkKeeps ==
  ASSUME NEW t, NEW d, NEW h, Good(t, alive, d, h, {}),
         NEW n \in Nodes \ alive, NEW k \in Nat, NEW v \in Values,
         \A x \in alive : t.key[x] # k,
         NEW u, u = Link(t, n, k, v)
  PROVE  /\ \E d2, h2 : Good(u, alive \cup {n}, d2, h2, {n})
         /\ \E y, s : Added(u, t, n, k, v, y, s)
<1> DEFINE S == alive
           R == alive \cup {n}
           y == InsertPoint(t, k)
           side == Toward(t, y, k)
           d2 == [x \in R \cup {nil} |-> IF x = n THEN {n}
                                         ELSE IF y \in d[x] THEN d[x] \cup {n} ELSE d[x]]
           h2 == [x \in R \cup {nil} |-> IF x = n THEN 0 ELSE h[x]]
<1>1. /\ Shape(t, S, d) /\ NoRedPair(t, S, {}) /\ ~Red(t, nil) /\ nil \notin S
      /\ S \subseteq Blocks /\ IsFiniteSet(S) /\ IsTree(t) /\ Balanced(t, S, h, nil, "left")
      /\ nil \in Blocks
  BY NodesAreBlocks DEF Good, Sound
<1>2. /\ y \in S \cup {nil} /\ (y = nil <=> t.root = nil) /\ (y # nil => Child(t, y, side) = nil)
      /\ \A z \in S : y # nil /\ y \in d[z] /\ z # y => y \in d[Child(t, z, Toward(t, z, k))]
  <2>1. CASE t.root = nil
    BY <1>1, <2>1 DEF InsertPoint
  <2>2. CASE t.root # nil
    <3> HIDE DEF y
    <3>1. y = InsertPoint(t, k)
      BY DEF y
    <3>2. /\ y \in alive /\ Child(t, y, Toward(t, y, k)) = nil
          /\ \A z \in alive : y \in d[z] /\ z # y => y \in d[Child(t, z, Toward(t, z, k))]
      BY <1>1, <2>2, <3>1, InsertPointFits
    <3> QED  BY <1>1, <2>2, <3>2
  <2> QED  BY <2>1, <2>2
<1>3. n \notin S \cup {nil} /\ n \in Blocks /\ y # n /\ y \in Blocks
  BY <1>1, <1>2, TreeAssumption DEF Blocks
<1>4. side \in Sides /\ Other(side) \in Sides
  BY TowardFacts, OtherSide
<1>5. Added(u, t, n, k, v, y, side)
  BY <1>1, <1>3, LinkFields
<1> HIDE DEF y, side
<1>6. /\ d[nil] = {} /\ d \in [S \cup {nil} -> SUBSET S] /\ d[t.root] = S
      /\ \A x \in S : x \in d[x]
  BY <1>1, BelowFacts DEF Shape, Spans
<1>7. t.root = nil => S = {}
  BY <1>6
<1>8. Linked(u, R)
  <2>1. R \subseteq Nodes /\ u.root \in R \cup {nil} /\ u.root # nil
    <3>1. S \subseteq Nodes /\ t.root \in S \cup {nil}
      BY <1>1 DEF Shape, Linked
    <3>2. u.root = IF y = nil THEN n ELSE t.root
      BY <1>5 DEF Added
    <3>3. R \subseteq Nodes /\ n # nil
      BY <1>3, <3>1
    <3> QED  BY <1>2, <3>1, <3>2, <3>3
  <2>2. Parent(u, u.root) = nil
    <3>1. CASE y = nil
      BY <1>3, <1>5, <3>1 DEF Added
    <3>2. CASE y # nil
      <4>1. t.root \in S /\ t.root # n /\ Parent(t, t.root) = nil
        BY <1>1, <1>2, <1>3, <3>2 DEF Shape, Linked
      <4> QED  BY <1>1, <1>5, <3>2, <4>1 DEF Added
    <3> QED  BY <3>1, <3>2
  <2>3. ASSUME NEW x \in R, NEW s \in Sides
        PROVE  /\ Child(u, x, s) \in R \cup {nil}
               /\ Child(u, x, s) # nil => Parent(u, Child(u, x, s)) = x
    <3>1. CASE x = n
      BY <1>3, <1>5, <3>1 DEF Added
    <3>2. CASE x # n /\ y # nil /\ x = y /\ s = side
      BY <1>3, <1>5, <3>2 DEF Added
    <3>3. CASE x # n /\ ~(y # nil /\ x = y /\ s = side)
      <4>1. x \in S /\ x \in Blocks
        BY <1>1, <3>3
      <4>2. Child(t, x, s) \in S \cup {nil} /\ (Child(t, x, s) # nil => Parent(t, Child(t, x, s)) = x)
        BY <1>1, <4>1 DEF Shape, Linked
      <4>3. Child(u, x, s) = Child(t, x, s)
        BY <1>5, <3>3, <4>1 DEF Added
      <4>4. Child(t, x, s) # nil => Parent(u, Child(t, x, s)) = Parent(t, Child(t, x, s))
        BY <1>1, <1>3, <1>5, <4>2 DEF Added
      <4> QED  BY <4>2, <4>3, <4>4
    <3> QED  BY <3>1, <3>2, <3>3
  <2>4. ASSUME NEW x \in R, x # u.root
        PROVE  Parent(u, x) \in R /\ \E s \in Sides : Child(u, Parent(u, x), s) = x
    <3>1. CASE x = n
      <4>1. y # nil
        BY <1>5, <2>4, <3>1 DEF Added
      <4> QED  BY <1>2, <1>3, <1>4, <1>5, <3>1, <4>1 DEF Added
    <3>2. CASE x # n
      <4>1. x \in S /\ x # t.root
        BY <1>2, <1>5, <1>7, <2>4, <3>2 DEF Added
      <4>2. PICK s \in Sides : Child(t, Parent(t, x), s) = x
        BY <1>1, <4>1 DEF Shape, Linked
      <4>3. Parent(u, x) = Parent(t, x) /\ Parent(t, x) \in S /\ x # nil
        BY <1>1, <1>5, <3>2, <4>1 DEF Added, Shape, Linked
      <4>4. Child(u, Parent(t, x), s) = x
        BY <1>1, <1>2, <1>3, <1>5, <4>2, <4>3 DEF Added
      <4> QED  BY <4>3, <4>4
    <3> QED  BY <3>1, <3>2
  <2> QED  BY <2>1, <2>2, <2>3, <2>4 DEF Linked
<1>9. /\ d2 \in [R \cup {nil} -> SUBSET R] /\ d2[nil] = {} /\ d2[n] = {n}
      /\ \A x \in S \cup {nil} : d2[x] = IF y \in d[x] THEN d[x] \cup {n} ELSE d[x]
  BY <1>3, <1>6
<1> HIDE DEF d2
<1>10. Spans(u, R, d2)
  <2>1. d2[u.root] = R
    <3>1. CASE y = nil
      <4>1. u.root = n /\ R = {n}
        BY <1>2, <1>5, <1>7, <3>1 DEF Added
      <4> QED  BY <1>9, <4>1
    <3>2. CASE y # nil
      <4>1. u.root = t.root /\ t.root \in S \cup {nil} /\ y \in d[t.root]
        BY <1>1, <1>2, <1>5, <1>6, <3>2 DEF Added, Shape, Linked
      <4> QED  BY <1>6, <1>9, <4>1
    <3> QED  BY <3>1, <3>2
  <2>2. ASSUME NEW x \in R, NEW s \in Sides
        PROVE  d2[x] = {x} \cup d2[Child(u, x, s)] \cup d2[Child(u, x, Other(s))]
    <3>1. Other(s) \in Sides /\ Other(s) # s /\ Other(Other(s)) = s
          /\ \A r \in Sides : r = s \/ r = Other(s)
      BY OtherSide
    <3>2. CASE x = n
      <4>1. Child(u, x, s) = nil /\ Child(u, x, Other(s)) = nil
        BY <1>3, <1>5, <3>1, <3>2 DEF Added
      <4> QED  BY <1>9, <3>2, <4>1
    <3>3. CASE x # n
      <4>1. x \in S /\ x \in Blocks
        BY <1>1, <3>3
      <4>2. d[x] = {x} \cup d[Child(t, x, s)] \cup d[Child(t, x, Other(s))]
        BY <1>1, <4>1 DEF Shape, Spans
      <4>3. Child(t, x, s) \in S \cup {nil} /\ Child(t, x, Other(s)) \in S \cup {nil}
        BY <1>1, <3>1, <4>1 DEF Shape, Linked
      <4>4. CASE x = y
        <5>1. y # nil  BY <1>1, <4>1, <4>4
        <5>2. Child(t, x, side) = nil  BY <1>2, <4>4, <5>1
        <5>3. y \notin d[Child(t, x, s)] /\ y \notin d[Child(t, x, Other(s))]
          BY <1>1, <3>1, <4>1, <4>4, SidesDiffer
        <5>4. side = s \/ side = Other(s)
          BY <1>4, <3>1
        <5>5. d2[x] = d[x] \cup {n}
          BY <1>6, <1>9, <4>1, <4>4
        <5>6. /\ d2[Child(t, x, s)] = d[Child(t, x, s)]
              /\ d2[Child(t, x, Other(s))] = d[Child(t, x, Other(s))]
          BY <1>9, <4>3, <5>3
        <5>7. \A r \in Sides : Child(u, x, r) = IF r = side THEN n ELSE Child(t, x, r)
          BY <1>5, <3>3, <4>1, <4>4, <5>1 DEF Added
        <5>8. CASE s = side
          BY <1>6, <1>9, <3>1, <4>2, <5>2, <5>5, <5>6, <5>7, <5>8
        <5>9. CASE Other(s) = side
          BY <1>6, <1>9, <3>1, <4>2, <5>2, <5>5, <5>6, <5>7, <5>9
        <5> QED  BY <5>4, <5>8, <5>9
      <4>5. CASE x # y
        <5>1. Child(u, x, s) = Child(t, x, s) /\ Child(u, x, Other(s)) = Child(t, x, Other(s))
          BY <1>5, <3>1, <3>3, <4>1, <4>5 DEF Added
        <5> QED  BY <1>9, <4>1, <4>2, <4>3, <4>5, <5>1
      <4> QED  BY <4>4, <4>5
    <3> QED  BY <3>2, <3>3
  <2> QED  BY <1>9, <2>1, <2>2 DEF Spans
<1>11. Ordered(u, R, d2)
  <2>1. ASSUME NEW x \in R, NEW s \in Sides, NEW w \in d2[Child(u, x, s)]
        PROVE  Before(s, u.key[w], u.key[x])
    <3>1. x # n
      BY <1>3, <1>5, <1>9, <2>1 DEF Added
    <3>2. x \in S /\ x \in Blocks /\ u.key[x] = t.key[x]
      BY <1>1, <1>5, <3>1 DEF Added
    <3>3. Child(t, x, s) \in S \cup {nil}
      BY <1>1, <3>2 DEF Shape, Linked
    <3>4. CASE w # n
      <4>1. w \in d[Child(t, x, s)]
        <5>1. CASE y # nil /\ x = y /\ s = side
          <6>1. Child(u, x, s) = n
            BY <1>5, <3>1, <3>2, <5>1 DEF Added
          <6> QED  BY <1>9, <2>1, <3>4, <6>1
        <5>2. CASE ~(y # nil /\ x = y /\ s = side)
          <6>1. Child(u, x, s) = Child(t, x, s)
            BY <1>5, <3>1, <3>2, <5>2 DEF Added
          <6> QED  BY <1>9, <2>1, <3>3, <3>4, <6>1
        <5> QED  BY <5>1, <5>2
      <4>2. w \in S /\ w \in Blocks
        BY <1>1, <1>6, <3>3, <4>1
      <4>3. u.key[w] = t.key[w]
        BY <1>5, <3>4, <4>2 DEF Added
      <4> QED  BY <1>1, <3>2, <4>1, <4>3 DEF Shape, Ordered
    <3>5. CASE w = n
      <4>1. s = Toward(t, x, k)
        <5>1. CASE x = y /\ s = side
          BY <5>1 DEF side
        <5>2. CASE ~(x = y /\ s = side)
          <6>1. y \in d[Child(t, x, s)]
            <7>1. Child(u, x, s) = Child(t, x, s)
              BY <1>5, <3>1, <3>2, <5>2 DEF Added
            <7>2. n \notin d[Child(t, x, s)]
              BY <1>3, <1>6, <3>3
            <7> QED  BY <1>9, <2>1, <3>3, <3>5, <7>1, <7>2
          <6>2. y # x /\ y \in S /\ y \in d[x]
            BY <1>1, <1>6, <3>2, <3>3, <6>1, SidesDiffer, BelowFacts
          <6>3. y \in d[Child(t, x, Toward(t, x, k))]
            BY <1>1, <1>2, <3>2, <6>2
          <6>4. Toward(t, x, k) \in Sides /\ Toward(t, x, k) \in {s, Other(s)}
            BY TowardFacts, OtherSide
          <6> QED  BY <1>1, <3>2, <6>1, <6>3, <6>4, SidesDiffer
        <5> QED  BY <5>1, <5>2
      <4>2. u.key[n] = k /\ t.key[x] \in Nat /\ t.key[x] # k
        BY <1>1, <1>3, <1>5, <3>2, KeysAreNumbers DEF Added
      <4> QED  BY <3>2, <3>5, <4>1, <4>2 DEF Before, Toward
    <3> QED  BY <3>4, <3>5
  <2> QED  BY <2>1 DEF Ordered
<1>12. IsTree(u) /\ Shape(u, R, d2)
  BY <1>5, <1>8, <1>10, <1>11 DEF Added, Shape
<1>13. Balanced(u, R, h2, nil, "left")
  <2>1. h \in [S \cup {nil} -> Nat] /\ h[nil] = 0
        /\ \A x \in S, s \in Sides : h[x] = h[Child(t, x, s)] + Twice(nil, "left", x, s) + Black(t, x)
    BY <1>1 DEF Balanced, Even
  <2>2. h2 \in [R \cup {nil} -> Nat] /\ h2[nil] = 0 /\ h2[n] = 0 /\ \A x \in S \cup {nil} : h2[x] = h[x]
    BY <1>3, <2>1
  <2> HIDE DEF h2
  <2>3. ASSUME NEW x \in R, NEW s \in Sides
        PROVE  h2[x] = h2[Child(u, x, s)] + (IF Red(u, x) THEN 0 ELSE 1)
    <3>1. CASE x = n
      <4>1. Child(u, x, s) = nil /\ Red(u, x)
        BY <1>3, <1>5, <3>1 DEF Added
      <4> QED  BY <2>2, <3>1, <4>1
    <3>2. CASE x # n
      <4>1. x \in S /\ x \in Blocks /\ (Red(u, x) <=> Red(t, x))
        BY <1>1, <1>5, <3>2 DEF Added
      <4>2. Child(t, x, s) \in S \cup {nil} /\ h[Child(t, x, s)] \in Nat
        BY <1>1, <2>1, <4>1 DEF Shape, Linked
      <4>3. h2[Child(u, x, s)] = h[Child(t, x, s)]
        <5>1. Child(u, x, s) = Child(t, x, s) \/ (Child(u, x, s) = n /\ Child(t, x, s) = nil)
          BY <1>2, <1>5, <3>2, <4>1 DEF Added
        <5> QED  BY <2>1, <2>2, <4>2, <5>1
      <4>4. Twice(nil, "left", x, s) = 0
        BY <1>1, <4>1 DEF Twice
      <4>5. h[x] = h[Child(t, x, s)] + (IF Red(t, x) THEN 0 ELSE 1)
        BY <2>1, <4>1, <4>2, <4>4 DEF Black
      <4> QED  BY <2>2, <4>1, <4>3, <4>5
    <3> QED  BY <3>1, <3>2
  <2>4. nil \notin R
    BY <1>1, <1>3
  <2>5. \A x \in R, s \in Sides : Child(u, x, s) \in R \cup {nil}
    BY <1>8 DEF Linked
  <2> QED  BY <2>2, <2>3, <2>4, <2>5, PlainBalanced
<1>14. NoRedPair(u, R, {n})
  <2> SUFFICES ASSUME NEW x \in R, Red(u, x), x # n
               PROVE  x # u.root /\ ~Red(u, Parent(u, x))
    BY DEF NoRedPair
  <2>1. x \in S /\ x \in Blocks /\ Red(t, x) /\ Parent(u, x) = Parent(t, x)
    BY <1>1, <1>5 DEF Added
  <2>2. x # t.root /\ ~Red(t, Parent(t, x))
    BY <1>1, <2>1 DEF NoRedPair
  <2>3. Parent(t, x) \in S /\ x # u.root
    BY <1>1, <1>2, <1>5, <1>7, <2>1, <2>2 DEF Added, Shape, Linked
  <2> QED  BY <1>1, <1>3, <1>5, <2>1, <2>2, <2>3 DEF Added
<1>15. ~Red(u, nil)
  BY <1>1, <1>3, <1>5 DEF Added
<1>16. IsFiniteSet(R)
  BY <1>1, FS_AddElement
<1> HIDE DEF h2, R
<1>17. Good(u, R, d2, h2, {n})
  BY <1>12, <1>13, <1>14, <1>15, <1>16 DEF Good, Sound
<1> QED  BY <1>5, <1>17 DEF R

-----------------------------------------------------------------------------
(* ntyRBTreeDelete up to its fixup. *)

\* u is t without y, which hung on side s of p: x took its place, and z what it
\* held.
Removed(u, t, z, y, x, p, s) ==
  /\ IsTree(u) /\ u.root = IF p = nil THEN x ELSE t.root
  /\ \A w \in Blocks : u.key[w] = IF w = z THEN t.key[y] ELSE t.key[w]
  /\ \A w \in Blocks : u.value[w] = IF w = z THEN t.value[y] ELSE t.value[w]
  /\ \A w \in Blocks : Red(u, w) <=> Red(t, w)
  /\ \A w \in Blocks : Parent(u, w) = IF w = x THEN p ELSE Parent(t, w)
  /\ \A w \in Blocks, r \in Sides :
       Child(u, w, r) = IF p # nil /\ w = p /\ r = s THEN x ELSE Child(t, w, r)

\* The assignments of ntyRBTreeDelete before its fixup, taken together.
LEMMA UnlinkFields ==
  ASSUME NEW t, IsTree(t), NEW z \in Blocks, NEW y \in Blocks, NEW x \in Blocks,
         NEW p \in Blocks, p = Parent(t, y)
  PROVE  Removed(Unlink(t, z, y, x), t, z, y, x, p, SideOf(t, y))
<1> DEFINE s == SideOf(t, y)
           t1 == SetParent(t, x, p)
           t2 == Hang(t1, p, y, x)
           t3 == Hold(t2, z, t.key[y], t.value[y])
<1>1. Unlink(t, z, y, x) = t3
  BY DEF Unlink
<1>2. p \in Pointers /\ t.key[y] \in Nat /\ t.value[y] \in Values /\ "left" \in Sides
  BY DEF IsTree, Pointers, Sides
<1> HIDE DEF t1, t2, t3, s
<1>3. ParentSet(t1, t, x, p)
  BY <1>2, ParentFields DEF t1
<1>4. Child(t1, p, "left") = Child(t, p, "left") /\ IsTree(t1)
  BY <1>2, <1>3 DEF ParentSet
<1>5. Hung(t2, t1, p, s, x)
  BY <1>4, HangFields DEF t2, s, SideOf
<1>6. IsTree(t2)
  BY <1>5 DEF Hung
<1>7. Held(t3, t2, z, t.key[y], t.value[y])
  BY <1>2, <1>6, HoldFields DEF t3
<1>8. t2.key = t.key /\ t2.value = t.value /\ \A w \in Blocks : Red(t2, w) <=> Red(t, w)
  BY <1>3, <1>5 DEF ParentSet, Hung, SameData, Red
<1>9. t2.root = IF p = nil THEN x ELSE t.root
  BY <1>3, <1>5 DEF ParentSet, Hung
<1>10. \A w \in Blocks : Parent(t2, w) = IF w = x THEN p ELSE Parent(t, w)
  BY <1>3, <1>5 DEF ParentSet, Hung
<1>11. \A w \in Blocks, r \in Sides :
         Child(t2, w, r) = IF p # nil /\ w = p /\ r = s THEN x ELSE Child(t, w, r)
  BY <1>3, <1>5 DEF ParentSet, Hung
<1> QED  BY <1>1, <1>7, <1>8, <1>9, <1>10, <1>11 DEF Removed, Held, s

\* What leaves the tree: z itself, or the least node on its right; x is what
\* hangs below that node y, on side c nothing does.
Leaves(t, S, d, z, y, x, c) ==
  /\ z \in S /\ y \in S /\ c \in Sides
  /\ Child(t, y, c) = nil /\ x = Child(t, y, Other(c))
  /\ \/ y = z
     \/ /\ y \in d[Child(t, z, "right")]
        /\ \A w \in d[Child(t, z, "right")] : w # y => t.key[y] < t.key[w]

\* The nodes around y, which leaves R behind.
CutNodes(t, S, d, y, x, p, s, R) ==
  /\ p \in R \cup {nil} /\ x \in R \cup {nil} /\ (p = nil <=> y = t.root)
  /\ s \in Sides /\ (x # t.root \/ x = nil)
  /\ nil \notin S /\ t.root \in S
  /\ \A w \in R, r \in Sides :
       /\ Child(t, w, r) \in S \cup {nil}
       /\ Child(t, w, r) = y <=> w = p /\ r = s
  /\ d[y] = {y} \cup d[x] /\ y \notin d[x] /\ x # y /\ p # y

\* What ntyRBTreeDelete takes out has a parent and one subtree that stays.
LEMMA LeavesNodes ==
  ASSUME NEW t, NEW S, NEW d, IsFiniteSet(S), Shape(t, S, d),
         NEW z, NEW y, NEW x, NEW c, Leaves(t, S, d, z, y, x, c),
         NEW p, p = Parent(t, y), NEW s, s = SideOf(t, y),
         NEW R, R = S \ {y}
  PROVE  CutNodes(t, S, d, y, x, p, s, R)
<1>1. nil \notin S /\ y \in S /\ c \in Sides /\ Other(c) \in Sides
  BY NodesAreBlocks, OtherSide DEF Leaves
<1>2. x \in S \cup {nil} /\ x # y /\ y \notin d[x] /\ d[y] = {y} \cup d[x]
  <2>1. x \in S \cup {nil} /\ d[y] = {y} \cup d[nil] \cup d[x] /\ d[nil] = {}
    BY <1>1 DEF Shape, Linked, Spans, Leaves
  <2>2. y \notin d[x] /\ x # y
    BY <1>1, SidesDiffer DEF Leaves
  <2> QED  BY <2>1, <2>2
<1>3. t.root \in S
  BY <1>1 DEF Shape, Linked, Spans
<1>4. x # t.root \/ x = nil
  BY <1>1, <1>2, <1>3, RootIsNoChild DEF Leaves
<1>5. s \in Sides
  BY DEF SideOf, Sides
<1>6. \A w \in R, r \in Sides : Child(t, w, r) \in S \cup {nil}
  BY DEF Shape, Linked
<1>7. CASE y = t.root
  <2>1. p = nil
    BY <1>1, <1>7 DEF Shape, Linked
  <2>2. \A w \in R, r \in Sides : Child(t, w, r) # y
    BY <1>1, <1>7, RootIsNoChild
  <2>3. nil \notin R
    BY <1>1
  <2> QED  BY <1>1, <1>2, <1>3, <1>4, <1>5, <1>6, <1>7, <2>1, <2>2, <2>3 DEF CutNodes
<1>8. CASE y # t.root
  <2>1. p \in S /\ \A w \in S, r \in Sides : Child(t, w, r) = y <=> w = p /\ r = s
    BY <1>1, <1>8, SideOfFacts
  <2>2. p # y
    BY <1>1, <1>5, <2>1, SidesDiffer
  <2>3. p \in R \cup {nil} /\ (p = nil <=> y = t.root)
    BY <1>1, <1>8, <2>1, <2>2
  <2> QED  BY <1>1, <1>2, <1>3, <1>4, <1>5, <1>6, <2>1, <2>2, <2>3 DEF CutNodes
<1> QED  BY <1>7, <1>8

\* The order is kept: what moves up is next to what it replaces.
LEMMA UnlinkShape ==
  ASSUME NEW t, NEW S, NEW d, IsFiniteSet(S), Shape(t, S, d),
         NEW z, NEW y, NEW x, NEW c, Leaves(t, S, d, z, y, x, c),
         NEW p, p = Parent(t, y), NEW s, s = SideOf(t, y),
         NEW R, R = S \ {y},
         NEW u, Removed(u, t, z, y, x, p, s),
         NEW e, e = [w \in R \cup {nil} |-> d[w] \ {y}]
  PROVE  Shape(u, R, e)
<1>1. /\ p \in R \cup {nil} /\ x \in R \cup {nil} /\ (p = nil <=> y = t.root)
      /\ s \in Sides /\ (x # t.root \/ x = nil)
      /\ nil \notin S /\ t.root \in S
      /\ \A w \in R, r \in Sides :
           /\ Child(t, w, r) \in S \cup {nil}
           /\ Child(t, w, r) = y <=> w = p /\ r = s
      /\ d[y] = {y} \cup d[x] /\ y \notin d[x] /\ x # y /\ p # y
  <2>1. CutNodes(t, S, d, y, x, p, s, R)
    BY LeavesNodes
  <2> QED  BY <2>1 DEF CutNodes
<1>2. /\ z \in S /\ y \in S /\ c \in Sides /\ Child(t, y, c) = nil /\ x = Child(t, y, Other(c))
      /\ Other(c) \in Sides /\ \A r \in Sides : r = c \/ r = Other(c)
  BY OtherSide DEF Leaves
<1>3. S \subseteq Blocks /\ nil \in Blocks /\ R \subseteq Blocks /\ R \subseteq S
  BY NodesAreBlocks
<1>4. d \in [S \cup {nil} -> SUBSET S] /\ d[nil] = {} /\ d[t.root] = S
  BY DEF Shape, Spans
<1>5. /\ \A w \in Blocks : Parent(u, w) = IF w = x THEN p ELSE Parent(t, w)
      /\ \A w \in R, r \in Sides : Child(u, w, r) = IF w = p /\ r = s THEN x ELSE Child(t, w, r)
      /\ u.root = IF p = nil THEN x ELSE t.root
      /\ \A w \in Blocks : u.key[w] = IF w = z THEN t.key[y] ELSE t.key[w]
      /\ IsTree(u)
  BY <1>1, <1>3 DEF Removed
<1>6. Linked(u, R)
  <2>1. R \subseteq Nodes /\ u.root \in R \cup {nil}
    <3>1. R \subseteq Nodes
      BY <1>3 DEF Shape, Linked
    <3> QED  BY <1>1, <1>5, <3>1
  <2>2. u.root # nil => Parent(u, u.root) = nil
    <3>1. CASE p = nil
      BY <1>1, <1>3, <1>5, <3>1
    <3>2. CASE p # nil
      <4>1. Parent(t, t.root) = nil
        BY <1>1 DEF Shape, Linked
      <4> QED  BY <1>1, <1>3, <1>5, <3>2, <4>1
    <3> QED  BY <3>1, <3>2
  <2>3. ASSUME NEW w \in R, NEW r \in Sides
        PROVE  /\ Child(u, w, r) \in R \cup {nil}
               /\ Child(u, w, r) # nil => Parent(u, Child(u, w, r)) = w
    <3>1. CASE w = p /\ r = s
      BY <1>1, <1>3, <1>5, <3>1
    <3>2. CASE ~(w = p /\ r = s)
      <4>1. Child(u, w, r) = Child(t, w, r) /\ Child(t, w, r) \in R \cup {nil}
        BY <1>1, <1>5, <3>2
      <4>2. ASSUME Child(t, w, r) # nil
            PROVE  Child(t, w, r) # x /\ Parent(t, Child(t, w, r)) = w
        <5>1. Parent(t, Child(t, w, r)) = w
          BY <1>3, <4>2 DEF Shape, Linked
        <5>2. x # nil => Parent(t, x) = y
          BY <1>2 DEF Shape, Linked
        <5> QED  BY <4>2, <5>1, <5>2
      <4> QED  BY <1>3, <1>5, <4>1, <4>2
    <3> QED  BY <3>1, <3>2
  <2>4. ASSUME NEW w \in R, w # u.root
        PROVE  Parent(u, w) \in R /\ \E r \in Sides : Child(u, Parent(u, w), r) = w
    <3>1. CASE w = x
      <4>1. Parent(u, w) = p /\ p \in R
        BY <1>1, <1>3, <1>5, <2>4, <3>1
      <4> QED  BY <1>1, <1>5, <3>1, <4>1
    <3>2. CASE w # x
      <4>1. w # t.root /\ w \in S /\ w # nil
        BY <1>1, <1>3, <1>5, <2>4, <3>2
      <4>2. PICK r \in Sides : Child(t, Parent(t, w), r) = w
        BY <4>1 DEF Shape, Linked
      <4>3. Parent(u, w) = Parent(t, w) /\ Parent(t, w) \in S
        BY <1>3, <1>5, <3>2, <4>1 DEF Shape, Linked
      <4>4. Parent(t, w) # y
        BY <1>2, <3>2, <4>1, <4>2
      <4>5. Child(u, Parent(t, w), r) = w
        BY <1>1, <1>5, <4>2, <4>3, <4>4
      <4> QED  BY <4>3, <4>4, <4>5
    <3> QED  BY <3>1, <3>2
  <2> QED  BY <2>1, <2>2, <2>3, <2>4 DEF Linked
<1>7. ASSUME NEW w \in R, NEW r \in Sides
      PROVE  e[Child(u, w, r)] = d[Child(t, w, r)] \ {y}
  BY <1>1, <1>3, <1>5
<1>8. Spans(u, R, e)
  <2>1. ASSUME NEW w \in R, NEW r \in Sides
        PROVE  e[w] = {w} \cup e[Child(u, w, r)] \cup e[Child(u, w, Other(r))]
    <3>1. d[w] = {w} \cup d[Child(t, w, r)] \cup d[Child(t, w, Other(r))] /\ Other(r) \in Sides
      BY <1>3, OtherSide DEF Shape, Spans
    <3>2. e[Child(u, w, r)] = d[Child(t, w, r)] \ {y}
          /\ e[Child(u, w, Other(r))] = d[Child(t, w, Other(r))] \ {y}
      BY <1>7, <3>1
    <3>3. e[w] = d[w] \ {y} /\ w # y
      OBVIOUS
    <3> QED  BY <3>1, <3>2, <3>3
  <2>2. e[u.root] = R
    <3>1. CASE p = nil
      BY <1>1, <1>4, <1>5, <3>1
    <3>2. CASE p # nil
      BY <1>1, <1>4, <1>5, <3>2
    <3> QED  BY <3>1, <3>2
  <2>3. e \in [R \cup {nil} -> SUBSET R] /\ e[nil] = {}
    BY <1>3, <1>4
  <2> QED  BY <2>1, <2>2, <2>3 DEF Spans
<1>9. Ordered(u, R, e)
  <2>1. ASSUME NEW w \in R, NEW r \in Sides, NEW v \in d[Child(t, w, r)], v # y
        PROVE  Before(r, u.key[v], u.key[w])
    <3>1. /\ w \in S /\ v \in S /\ v \in Blocks /\ w \in Blocks /\ v # w
          /\ t.key[y] \in Nat /\ t.key[z] \in Nat /\ t.key[v] \in Nat /\ t.key[w] \in Nat
      BY <1>1, <1>2, <1>3, <1>4, KeysAreNumbers, SidesDiffer
    <3>2. Before(r, t.key[v], t.key[w])
      BY <3>1 DEF Shape, Ordered
    <3>3. CASE v # z /\ w # z
      BY <1>5, <3>1, <3>2, <3>3
    <3>4. CASE v = z \/ w = z
      <4>1. z # y
        BY <2>1, <3>4
      <4>2. /\ y \in d[Child(t, z, "right")] /\ "right" \in Sides
            /\ \A i \in d[Child(t, z, "right")] : i # y => t.key[y] < t.key[i]
        BY <4>1 DEF Leaves, Sides
      <4>3. t.key[z] < t.key[y]
        BY <1>2, <4>2 DEF Shape, Ordered, Before
      <4>4. CASE w = z
        <5>1. CASE r = "left"
          BY <1>5, <3>1, <3>2, <4>3, <4>4, <5>1 DEF Before
        <5>2. CASE r = "right"
          BY <1>5, <2>1, <3>1, <4>2, <4>4, <5>2 DEF Before
        <5> QED  BY <5>1, <5>2 DEF Sides
      <4>5. CASE w # z
        <5>1. v = z
          BY <3>4, <4>5
        <5>2. y \in d[z]
          BY <1>2, <4>2, BelowFacts
        <5>3. Child(t, w, r) \in S
          BY <1>1, <1>4, <2>1
        <5>4. y \in d[Child(t, w, r)]
          BY <2>1, <5>1, <5>2, <5>3, BelowTransitive
        <5>5. Before(r, t.key[y], t.key[w])
          BY <3>1, <5>4 DEF Shape, Ordered
        <5> QED  BY <1>5, <3>1, <4>5, <5>1, <5>5
      <4> QED  BY <4>4, <4>5
    <3> QED  BY <3>3, <3>4
  <2>2. ASSUME NEW w \in R, NEW r \in Sides, NEW v \in e[Child(u, w, r)]
        PROVE  Before(r, u.key[v], u.key[w])
    <3>1. e[Child(u, w, r)] = d[Child(t, w, r)] \ {y}
      BY <1>7
    <3>2. v \in d[Child(t, w, r)] /\ v # y
      BY <3>1, <2>2
    <3> QED  BY <2>1, <3>2
  <2> QED  BY <2>2 DEF Ordered
<1> QED  BY <1>5, <1>6, <1>8, <1>9 DEF Shape

\* u is a tree of the nodes R, where x hangs on side s of p and the link counts
\* for the black y that left.
Cut(u, t, y, x, p, s, R) ==
  /\ p \in R \cup {nil} /\ x \in R \cup {nil} /\ (p = nil <=> x = u.root)
  /\ Parent(u, x) = p
  /\ p # nil => Child(u, p, s) = x /\ (Red(t, y) \/ SideOf(u, x) = s)
  /\ \E d2, h2 : Sound(u, R, d2, h2, IF Red(t, y) THEN nil ELSE p, s,
                      IF Red(t, y) THEN {} ELSE {x})

\* The paths through a black node that leaves lose it, and the link it hung on
\* counts for it.
LEMMA UnlinkKeeps ==
  ASSUME NEW t, NEW S, NEW d, NEW h, Good(t, S, d, h, {}),
         NEW z, NEW y, NEW x, NEW c, Leaves(t, S, d, z, y, x, c),
         NEW p, p = Parent(t, y), NEW s, s = SideOf(t, y),
         NEW R, R = S \ {y},
         NEW u, Removed(u, t, z, y, x, p, s)
  PROVE  Cut(u, t, y, x, p, s, R)
<1> DEFINE e == [w \in R \cup {nil} |-> d[w] \ {y}]
           g == [w \in R \cup {nil} |-> h[w]]
           q == IF Red(t, y) THEN nil ELSE p
<1>1. /\ Shape(t, S, d) /\ NoRedPair(t, S, {}) /\ ~Red(t, nil) /\ nil \notin S
      /\ S \subseteq Blocks /\ IsFiniteSet(S) /\ IsTree(t) /\ Balanced(t, S, h, nil, "left")
      /\ nil \in Blocks
  BY NodesAreBlocks DEF Good, Sound
<1>2. /\ p \in R \cup {nil} /\ x \in R \cup {nil} /\ (p = nil <=> y = t.root)
      /\ s \in Sides /\ (x # t.root \/ x = nil)
      /\ t.root \in S
      /\ \A w \in R, r \in Sides :
           /\ Child(t, w, r) \in S \cup {nil}
           /\ Child(t, w, r) = y <=> w = p /\ r = s
      /\ x # y /\ p # y
  <2>1. CutNodes(t, S, d, y, x, p, s, R)
    BY <1>1, LeavesNodes
  <2> QED  BY <2>1 DEF CutNodes
<1>3. /\ y \in S /\ c \in Sides /\ Child(t, y, c) = nil /\ x = Child(t, y, Other(c))
      /\ Other(c) \in Sides /\ \A r \in Sides : r = c \/ r = Other(c)
  BY OtherSide DEF Leaves
<1>4. /\ \A w \in Blocks : Parent(u, w) = IF w = x THEN p ELSE Parent(t, w)
      /\ \A w \in R, r \in Sides : Child(u, w, r) = IF w = p /\ r = s THEN x ELSE Child(t, w, r)
      /\ u.root = IF p = nil THEN x ELSE t.root
      /\ \A w \in Blocks : Red(u, w) <=> Red(t, w)
  BY <1>1, <1>2 DEF Removed
<1> HIDE DEF e, g, q
<1>5. Shape(u, R, e)
  BY <1>1, UnlinkShape DEF e
<1>6. h \in [S \cup {nil} -> Nat] /\ h[nil] = 0
      /\ \A w \in S, r \in Sides : h[w] = h[Child(t, w, r)] + (IF Red(t, w) THEN 0 ELSE 1)
  <2>1. \A w \in S, r \in Sides :
          Twice(nil, "left", w, r) = 0 /\ Child(t, w, r) \in S \cup {nil}
    BY <1>1 DEF Twice, Shape, Linked
  <2>2. h \in [S \cup {nil} -> Nat] /\ h[nil] = 0
    BY <1>1 DEF Balanced
  <2>3. \A w \in S, r \in Sides : h[Child(t, w, r)] \in Nat
    BY <2>1, <2>2
  <2> QED  BY <1>1, <2>1, <2>2, <2>3 DEF Balanced, Even, Black
<1>7. g \in [R \cup {nil} -> Nat] /\ g[nil] = 0 /\ \A w \in R \cup {nil} : g[w] = h[w]
  BY <1>6 DEF g
<1>8. h[y] = (IF Red(t, y) THEN 0 ELSE 1) /\ h[x] = 0
  <2>1. h[y] = 0 + (IF Red(t, y) THEN 0 ELSE 1)
    BY <1>3, <1>6
  <2>2. h[y] = h[x] + (IF Red(t, y) THEN 0 ELSE 1) /\ h[x] \in Nat
    BY <1>2, <1>3, <1>6
  <2> QED  BY <2>1, <2>2
<1>9. Balanced(u, R, g, q, s)
  <2>1. ASSUME NEW w \in R, NEW r \in Sides
        PROVE  g[w] = g[Child(u, w, r)] + Twice(q, s, w, r) + Black(u, w)
    <3>1. w \in S /\ w \in Blocks /\ g[w] = h[w] /\ Black(u, w) = IF Red(t, w) THEN 0 ELSE 1
      BY <1>1, <1>4, <1>7 DEF Black
    <3>2. h[w] = h[Child(t, w, r)] + (IF Red(t, w) THEN 0 ELSE 1)
      BY <1>6, <3>1
    <3>3. CASE w = p /\ r = s
      <4>1. Child(u, w, r) = x /\ Child(t, w, r) = y /\ g[x] = 0
        BY <1>2, <1>4, <1>7, <1>8, <3>3
      <4>2. Twice(q, s, w, r) = h[y]
        BY <1>1, <1>8, <3>1, <3>3 DEF Twice, q
      <4>3. h[y] \in Nat
        BY <1>8
      <4> QED  BY <3>1, <3>2, <4>1, <4>2, <4>3
    <3>4. CASE ~(w = p /\ r = s)
      <4>1. Child(u, w, r) = Child(t, w, r) /\ Child(t, w, r) \in R \cup {nil}
        BY <1>2, <1>4, <3>4
      <4>2. Twice(q, s, w, r) = 0
        BY <1>1, <3>1, <3>4 DEF Twice, q
      <4>3. g[Child(u, w, r)] = h[Child(t, w, r)] /\ h[Child(t, w, r)] \in Nat
        BY <1>6, <1>7, <4>1
      <4> QED  BY <3>1, <3>2, <4>2, <4>3
    <3> QED  BY <3>3, <3>4
  <2> QED  BY <1>7, <2>1 DEF Balanced, Even
<1>10. NoRedPair(u, R, IF Red(t, y) THEN {} ELSE {x})
  <2> SUFFICES ASSUME NEW w \in R, Red(u, w), Red(t, y) \/ w # x
               PROVE  w # u.root /\ ~Red(u, Parent(u, w))
    BY DEF NoRedPair
  <2>1. w \in S /\ w \in Blocks /\ Red(t, w)
    BY <1>1, <1>4
  <2>2. w # t.root /\ ~Red(t, Parent(t, w)) /\ Parent(t, w) \in Blocks
    BY <1>1, <2>1 DEF NoRedPair, Shape, Linked
  <2>3. w # x
    <3>1. CASE Red(t, y)
      <4>1. x # nil => Parent(t, x) = y
        BY <1>1, <1>3 DEF Shape, Linked
      <4> QED  BY <1>1, <2>1, <2>2, <3>1, <4>1
    <3> QED  BY <3>1
  <2> QED  BY <1>4, <2>1, <2>2, <2>3
<1>11. ~Red(u, nil)
  BY <1>1, <1>4
<1>12. IsFiniteSet(R)
  BY <1>1, FS_RemoveElement
<1>13. Parent(u, x) = p /\ (p = nil <=> x = u.root)
  BY <1>1, <1>2, <1>4
<1>14. ASSUME p # nil, ~Red(t, y)  PROVE  SideOf(u, x) = s
  <2>1. p \in R /\ p \in S /\ Child(u, p, s) = x
    BY <1>2, <1>4, <1>14
  <2>2. CASE x # nil
    BY <1>2, <1>5, <1>13, <1>14, <2>1, <2>2, SideOfFacts
  <2>3. CASE x = nil
    <3>1. CASE s = "left"
      BY <1>13, <2>1, <3>1 DEF SideOf
    <3>2. CASE s = "right"
      <4>1. "left" \in Sides /\ "left" # s
        BY <3>2 DEF Sides
      <4>2. Child(u, p, "left") = Child(t, p, "left") /\ Child(t, p, s) = y
            /\ Child(t, p, "left") \in S \cup {nil}
        BY <1>2, <1>4, <2>1, <4>1
      <4>3. h[Child(t, p, "left")] = h[y]
        <5>1. h[Child(t, p, "left")] \in Nat /\ h[y] \in Nat
          BY <1>6, <1>8, <4>2
        <5> QED  BY <1>2, <1>6, <2>1, <4>1, <4>2, <5>1
      <4>4. Child(u, p, "left") # nil
        BY <1>6, <1>8, <1>14, <4>2, <4>3
      <4> QED  BY <1>13, <2>3, <3>2, <4>4 DEF SideOf
    <3> QED  BY <1>2, <3>1, <3>2 DEF Sides
  <2> QED  BY <2>2, <2>3
<1>15. p # nil => Child(u, p, s) = x
  BY <1>2, <1>4
<1>16. Sound(u, R, e, g, q, s, IF Red(t, y) THEN {} ELSE {x})
  BY <1>5, <1>9, <1>10, <1>11, <1>12 DEF Sound
<1>17. \E d2, h2 : Sound(u, R, d2, h2, q, s, IF Red(t, y) THEN {} ELSE {x})
  BY <1>16
<1> QED  BY <1>2, <1>13, <1>14, <1>15, <1>17 DEF q, Cut

-----------------------------------------------------------------------------
(* Two nodes change places and colours. *)

\* Two assignments to colors, one after the other.
LEMMA PaintTwice ==
  ASSUME NEW t, IsTree(t), NEW x \in Blocks, NEW y \in Blocks,
         NEW c \in {RED, BLACK}, NEW e \in {RED, BLACK},
         NEW u, u = Paint(Paint(t, x, c), y, e)
  PROVE  /\ SameButColour(u, t)
         /\ \A z \in Blocks :
              Red(u, z) <=> IF z = y THEN e = RED ELSE IF z = x THEN c = RED ELSE Red(t, z)
<1> DEFINE v == Paint(t, x, c)
<1> HIDE DEF v
<1>1. SameButColour(v, t) /\ \A z \in Blocks : Red(v, z) <=> IF z = x THEN c = RED ELSE Red(t, z)
  BY PaintFacts DEF v
<1>2. SameButColour(u, v) /\ \A z \in Blocks : Red(u, z) <=> IF z = y THEN e = RED ELSE Red(v, z)
  <2>1. IsTree(v) /\ u = Paint(v, y, e)
    BY <1>1 DEF SameButColour, v
  <2> QED  BY <2>1, PaintFacts
<1>3. SameButColour(u, t)
  BY <1>1, <1>2 DEF SameButColour
<1> QED  BY <1>1, <1>2, <1>3

\* u is t after a rotation in which red y comes up above black x and they
\* exchange their colours.
Exchanged(u, t, x, side, y, b, p, s) ==
  /\ \A z \in Blocks :
       Parent(u, z) = IF b # nil /\ z = b THEN x
                      ELSE IF z = x THEN y
                      ELSE IF z = y THEN p ELSE Parent(t, z)
  /\ \A z \in Blocks, r \in Sides :
       Child(u, z, r) = IF z = y /\ r = side THEN x
                        ELSE IF z = x /\ r = Other(side) THEN b
                        ELSE IF p # nil /\ z = p /\ r = s THEN y
                        ELSE Child(t, z, r)
  /\ \A z \in Blocks : Red(u, z) <=> z = x \/ (z # y /\ Red(t, z))

\* Such a rotation keeps the colour rules and the heights, unless the doubled
\* link is one that it moves.
LEMMA ExchangeKeeps ==
  ASSUME NEW t, NEW S, NEW d, NEW h, NEW q, NEW qs, Sound(t, S, d, h, q, qs, {}),
         NEW x \in S, NEW side \in Sides,
         NEW y, y = Child(t, x, Other(side)), Red(t, y),
         ~Red(t, Child(t, x, side)),
         q # y, ~(q = x /\ qs = Other(side)),
         NEW v, v = Paint(Paint(t, y, BLACK), x, RED),
         NEW u, u = Rotate(v, x, side)
  PROVE  /\ \E g : Sound(u, S, RotatedBelow(t, d, x, side), g, q, qs, {})
         /\ Exchanged(u, t, x, side, y, Child(t, y, side), Parent(t, x), SideOf(t, x))
         /\ SameEntries(u, t)
<1> DEFINE a == Child(t, x, side)
           b == Child(t, y, side)
           c == Child(t, y, Other(side))
           p == Parent(t, x)
           s == SideOf(t, x)
           e == RotatedBelow(t, d, x, side)
           g == [h EXCEPT ![x] = h[y], ![y] = h[x]]
<1>1. /\ Shape(t, S, d) /\ NoRedPair(t, S, {}) /\ ~Red(t, nil) /\ nil \notin S
      /\ S \subseteq Blocks /\ IsFiniteSet(S) /\ IsTree(t) /\ Balanced(t, S, h, q, qs)
      /\ nil \in Blocks
  BY NodesAreBlocks DEF Sound
<1>2. /\ Other(side) \in Sides /\ Other(side) # side
      /\ \A r \in Sides : r = side \/ r = Other(side)
  BY OtherSide
<1>3. y \in S /\ y # nil
  BY <1>1, <1>2 DEF Shape, Linked
<1>4. /\ p \in S \cup {nil} /\ a \in S \cup {nil} /\ b \in S \cup {nil} /\ c \in S \cup {nil}
      /\ p = nil <=> x = t.root
      /\ y # t.root
      /\ x # y /\ p # x /\ p # y
      /\ a \notin {x, y} /\ b \notin {x, y} /\ c \notin {x, y}
  BY <1>1, <1>3, RotateNodes
<1>5. Parent(t, y) = x /\ (b # nil => Parent(t, b) = y)
  BY <1>1, <1>2, <1>3 DEF Shape, Linked
<1>6. ~Red(t, x) /\ ~Red(t, b)
  BY <1>1, <1>3, <1>4, <1>5 DEF NoRedPair
<1>7. SameButColour(v, t) /\ \A z \in Blocks : Red(v, z) <=> z = x \/ (z # y /\ Red(t, z))
  <2>1. RED \in {RED, BLACK} /\ BLACK \in {RED, BLACK} /\ RED # BLACK
    BY DEF RED, BLACK
  <2>2. /\ SameButColour(v, t)
        /\ \A z \in Blocks :
             Red(v, z) <=> IF z = x THEN RED = RED ELSE IF z = y THEN BLACK = RED ELSE Red(t, z)
    BY <1>1, <1>3, <2>1, PaintTwice
  <2> QED  BY <2>1, <2>2
<1>8. Shape(v, S, d)
  BY <1>1, <1>7, ColourShape
<1>9. /\ Child(v, x, Other(side)) = y /\ Child(v, x, side) = a /\ Child(v, y, side) = b
      /\ Child(v, y, Other(side)) = c /\ Parent(v, x) = p /\ SideOf(v, x) = s /\ v.root = t.root
  BY <1>2, <1>7 DEF SameButColour
<1>10. Rotated(u, v, x, side)
  BY <1>3, <1>8, <1>9, RotateRotates
<1>11. Shape(u, S, RotatedBelow(v, d, x, side))
  BY <1>3, <1>8, <1>9, <1>10, RotateShape
<1>12. RotatedBelow(v, d, x, side) = e
  BY <1>9 DEF RotatedBelow
<1>13. Turned(u, v, x, side, y, b, p, s)
  BY <1>9, <1>10 DEF Rotated
<1> HIDE DEF a, b, c, p, s, e, g
<1>14. \A z : Red(u, z) <=> Red(v, z)
  BY <1>13 DEF Turned, SameData, Red
<1>15. Exchanged(u, t, x, side, y, b, p, s)
  <2>1. \A z \in Blocks : Red(u, z) <=> z = x \/ (z # y /\ Red(t, z))
    BY <1>7, <1>14
  <2>2. \A z, r : Parent(v, z) = Parent(t, z) /\ Child(v, z, r) = Child(t, z, r)
    BY <1>7 DEF SameButColour
  <2> QED  BY <1>13, <2>1, <2>2 DEF Exchanged, Turned
<1>16. Balanced(u, S, g, q, qs)
  <2>1. h \in [S \cup {nil} -> Nat] /\ h[nil] = 0 /\ \A z \in S : Even(t, h, q, qs, z)
    BY <1>1 DEF Balanced
  <2>2. /\ Black(t, x) = 1 /\ Black(t, y) = 0 /\ Black(v, x) = 0 /\ Black(v, y) = 1
    BY <1>1, <1>3, <1>4, <1>6, <1>7 DEF Black
  <2>3. /\ Twice(q, qs, x, Other(side)) = 0 /\ Twice(q, qs, y, side) = 0
        /\ Twice(q, qs, y, Other(side)) = 0 /\ Twice(q, qs, x, side) \in Nat
    BY DEF Twice
  <2>4. h[x] \in Nat /\ h[y] \in Nat /\ h[a] \in Nat /\ h[b] \in Nat /\ h[c] \in Nat
    BY <1>3, <1>4, <2>1
  <2>5. /\ h[x] = h[a] + Twice(q, qs, x, side) + 1 /\ h[x] = h[y] + 0 + 1
        /\ h[y] = h[b] + 0 + 0 /\ h[y] = h[c] + 0 + 0
    BY <1>2, <1>3, <2>1, <2>2, <2>3 DEF Even, a, b, c
  <2>6. /\ g \in [S \cup {nil} -> Nat] /\ g[x] = h[y] /\ g[y] = h[x]
        /\ \A z \in (S \cup {nil}) \ {x, y} : g[z] = h[z]
    BY <1>3, <1>4, <2>1, <2>4 DEF g
  <2>7. /\ g[x] = h[a] + Twice(q, qs, x, side) + 0
        /\ g[x] = h[b] + 0 + 0 /\ g[y] = g[x] + 0 + 1 /\ g[y] = h[c] + 0 + 1
    BY <2>3, <2>4, <2>5, <2>6
  <2>8. Levels(v, S, h, g, q, qs, x, y, side)
    BY <1>9, <2>2, <2>3, <2>6, <2>7 DEF Levels
  <2>9. ASSUME NEW z \in S \ {x, y}  PROVE Even(v, h, q, qs, z)
    <3>1. Black(v, z) = Black(t, z)
      BY <1>1, <1>7 DEF Black
    <3> QED  BY <1>7, <2>1, <3>1 DEF Even, SameButColour
  <2> QED  BY <1>3, <1>8, <1>9, <1>10, <2>1, <2>8, <2>9, RotateBalanced
<1>17. NoRedPair(u, S, {})
  <2>1. NoRedPair(v, S \ {x, y, b}, {})
    <3> SUFFICES ASSUME NEW z \in S \ {x, y, b}, Red(v, z)
                 PROVE  z # v.root /\ ~Red(v, Parent(v, z))
      BY DEF NoRedPair
    <3>1. Red(t, z) /\ Parent(v, z) = Parent(t, z)
      BY <1>1, <1>7 DEF SameButColour
    <3>2. z # t.root /\ ~Red(t, Parent(t, z))
      BY <1>1, <3>1 DEF NoRedPair
    <3>3. Parent(t, z) \in S /\ \E r \in Sides : Child(t, Parent(t, z), r) = z
      BY <1>1, <3>2 DEF Shape, Linked
    <3>4. Parent(t, z) # x
      BY <1>2, <3>1, <3>3 DEF a
    <3> QED  BY <1>1, <1>7, <1>9, <3>1, <3>2, <3>3, <3>4
  <2>2. ~Red(v, b) /\ ~Red(v, y)
    BY <1>1, <1>3, <1>4, <1>6, <1>7
  <2> QED  BY <1>3, <1>8, <1>9, <1>10, <2>1, <2>2, RotateNoRedPair
<1>18. ~Red(u, nil)
  BY <1>1, <1>7, <1>14
<1>19. Sound(u, S, e, g, q, qs, {})
  BY <1>1, <1>11, <1>12, <1>16, <1>17, <1>18 DEF Sound
<1>20. SameEntries(u, t)
  BY <1>7, <1>13 DEF SameButColour, Turned, SameData, SameEntries
<1> QED  BY <1>15, <1>19, <1>20 DEF b, p, s, e

-----------------------------------------------------------------------------
(* The parts of an iteration of ntyRBTreeDeleteFixup. *)

\* No entry changes, and no child pointer of a block outside S.
Untouched(u, t, S) ==
  SameEntries(u, t) /\ \A z \in Blocks \ S, r \in Sides : Child(u, z, r) = Child(t, z, r)

\* The body of the loop of ntyRBTreeDeleteFixup works on the black x, which hangs
\* on a side of f and is not the root; that link is the doubled one.
DeletePoint(t, S, d, h, x, f, side) ==
  /\ Sound(t, S, d, h, f, side, {})
  /\ f \in S /\ side \in Sides /\ Child(t, f, side) = x
  /\ ~Red(t, x) /\ Parent(t, x) = f /\ SideOf(t, x) = side

\* The nodes around it, the sibling w among them.
Around(t, S, h, x, f, side, w) ==
  /\ Other(side) \in Sides /\ Other(side) # side /\ Other(Other(side)) = side
  /\ \A r \in Sides : r = side \/ r = Other(side)
  /\ x \in S \cup {nil} /\ w \in S /\ nil \notin S /\ S \subseteq Blocks /\ nil \in Blocks
  /\ w # f /\ w # t.root /\ x # f /\ x # w /\ Parent(t, w) = f
  /\ SideOf(t, w) = Other(side)
  /\ h \in [S \cup {nil} -> Nat] /\ h[nil] = 0
  /\ h[f] = h[x] + 1 + (IF Red(t, f) THEN 0 ELSE 1)
  /\ h[f] = h[w] + (IF Red(t, f) THEN 0 ELSE 1)
  /\ h[w] = h[x] + 1

\* The sibling exists.
LEMMA DeleteNodes ==
  ASSUME NEW t, NEW S, NEW d, NEW h, NEW x, NEW f, NEW side,
         DeletePoint(t, S, d, h, x, f, side),
         NEW w, w = Child(t, f, Other(side))
  PROVE  Around(t, S, h, x, f, side, w)
<1>1. /\ Shape(t, S, d) /\ nil \notin S /\ S \subseteq Blocks /\ nil \in Blocks
      /\ Balanced(t, S, h, f, side) /\ f \in S /\ side \in Sides /\ x = Child(t, f, side)
  BY NodesAreBlocks DEF DeletePoint, Sound
<1>2. /\ Other(side) \in Sides /\ Other(side) # side /\ Other(Other(side)) = side
      /\ \A r \in Sides : r = side \/ r = Other(side)
  BY <1>1, OtherSide
<1>3. x \in S \cup {nil} /\ w \in S \cup {nil}
  BY <1>1, <1>2 DEF Shape, Linked
<1>4. h \in [S \cup {nil} -> Nat] /\ h[nil] = 0 /\ Even(t, h, f, side, f)
  BY <1>1 DEF Balanced
<1>5. /\ h[f] = h[x] + 1 + (IF Red(t, f) THEN 0 ELSE 1)
      /\ h[f] = h[w] + 0 + (IF Red(t, f) THEN 0 ELSE 1)
  <2>1. Twice(f, side, f, side) = 1 /\ Twice(f, side, f, Other(side)) = 0
    BY <1>2 DEF Twice
  <2> QED  BY <1>1, <1>2, <1>4, <2>1 DEF Even, Black
<1>6. h[x] \in Nat /\ h[w] \in Nat
  BY <1>3, <1>4
<1>7. h[w] = h[x] + 1 /\ h[f] = h[w] + (IF Red(t, f) THEN 0 ELSE 1)
  BY <1>5, <1>6
<1>8. w \in S /\ x # w
  BY <1>3, <1>4, <1>6, <1>7
<1>9. w # f /\ x # f /\ Parent(t, w) = f /\ w # t.root
  <2>1. w # nil
    BY <1>1, <1>8
  <2>2. w # f /\ x # f
    BY <1>1, <1>2, SidesDiffer
  <2>3. Parent(t, w) = f
    BY <1>1, <1>2, <2>1 DEF Shape, Linked
  <2>4. w # t.root
    BY <1>1, <1>2, <1>8, <2>1, RootIsNoChild
  <2> QED  BY <2>2, <2>3, <2>4
<1>10. SideOf(t, w) = Other(side)
  BY <1>1, <1>2, <1>8, <1>9, SideOfFacts
<1> QED  BY <1>1, <1>2, <1>3, <1>4, <1>5, <1>7, <1>8, <1>9, <1>10 DEF Around

\* A red sibling: after the rotation the father is red and the sibling black.
LEMMA RedSibling ==
  ASSUME NEW t, NEW S, NEW d, NEW h, NEW x, NEW f, NEW side,
         DeletePoint(t, S, d, h, x, f, side),
         NEW w, w = Child(t, f, Other(side)), Red(t, w),
         NEW u, u = Rotate(Paint(Paint(t, w, BLACK), f, RED), f, side)
  PROVE  /\ \E e, g : DeletePoint(u, S, e, g, x, f, side)
         /\ Red(u, f) /\ ~Red(u, Child(u, f, Other(side))) /\ Untouched(u, t, S)
<1> DEFINE b == Child(t, w, side)
           p == Parent(t, f)
           s == SideOf(t, f)
<1>1. /\ Other(side) \in Sides /\ Other(side) # side
      /\ \A r \in Sides : r = side \/ r = Other(side)
      /\ x \in S \cup {nil} /\ w \in S /\ nil \notin S /\ S \subseteq Blocks /\ nil \in Blocks
      /\ w # f /\ x # f /\ x # w /\ Parent(t, w) = f
      /\ h \in [S \cup {nil} -> Nat] /\ h[nil] = 0
      /\ h[w] = h[x] + 1
  <2>1. Around(t, S, h, x, f, side, w)
    BY DeleteNodes
  <2> QED  BY <2>1 DEF Around
<1>2. /\ Sound(t, S, d, h, f, side, {}) /\ Shape(t, S, d)
      /\ f \in S /\ side \in Sides /\ Child(t, f, side) = x
      /\ ~Red(t, x) /\ Parent(t, x) = f /\ SideOf(t, x) = side /\ ~Red(t, nil)
      /\ NoRedPair(t, S, {})
  BY DEF DeletePoint, Sound
<1>3. /\ \E g : Sound(u, S, RotatedBelow(t, d, f, side), g, f, side, {})
      /\ Exchanged(u, t, f, side, w, b, p, s) /\ SameEntries(u, t)
  BY <1>1, <1>2, ExchangeKeeps
<1>4. /\ p \in S \cup {nil} /\ b \in S \cup {nil} /\ p # f /\ p # w /\ b \notin {f, w}
  BY <1>1, <1>2, RotateNodes
<1>5. b # nil => Parent(t, b) = w
  BY <1>1, <1>2 DEF Shape, Linked
<1>6. ~Red(t, b)
  BY <1>1, <1>2, <1>4, <1>5 DEF NoRedPair
<1>7. x # b
  <2>1. Even(t, h, f, side, w)
    BY <1>1, <1>2 DEF Sound, Balanced
  <2>2. h[w] = h[b] + 0 + 0
    BY <1>1, <1>2, <2>1 DEF Even, Twice, Black
  <2>3. h[b] \in Nat /\ h[x] \in Nat
    BY <1>1, <1>4
  <2>4. h[b] = h[x] + 1
    BY <1>1, <2>2, <2>3
  <2> QED  BY <2>3, <2>4
<1> HIDE DEF b, p, s
<1>8. /\ Child(u, f, side) = x /\ Child(u, f, Other(side)) = b
      /\ Parent(u, x) = f /\ Red(u, f) /\ ~Red(u, x) /\ ~Red(u, b)
  <2>1. f \in Blocks /\ w \in Blocks /\ x \in Blocks /\ b \in Blocks
    BY <1>1, <1>2, <1>4
  <2>2. Red(u, f) /\ ~Red(u, x) /\ ~Red(u, b)
    BY <1>1, <1>2, <1>3, <1>4, <1>6, <2>1 DEF Exchanged
  <2>3. Parent(u, x) = f
    BY <1>1, <1>2, <1>3, <1>7, <2>1 DEF Exchanged
  <2>4. Child(u, f, side) = x /\ Child(u, f, Other(side)) = b
    BY <1>1, <1>2, <1>3, <1>4, <2>1 DEF Exchanged
  <2> QED  BY <2>2, <2>3, <2>4
<1>9. SideOf(u, x) = side
  BY <1>2, <1>7, <1>8 DEF SideOf, Other, Sides
<1>10. Untouched(u, t, S)
  BY <1>1, <1>2, <1>3, <1>4 DEF Untouched, Exchanged
<1> QED  BY <1>2, <1>3, <1>8, <1>9, <1>10 DEF DeletePoint

\* A black sibling with a red child on the side of x: after the rotation that
\* child is the sibling, and its child on the other side is red.
LEMMA RedNear ==
  ASSUME NEW t, NEW S, NEW d, NEW h, NEW x, NEW f, NEW side,
         DeletePoint(t, S, d, h, x, f, side),
         NEW w, w = Child(t, f, Other(side)),
         NEW near, near = Child(t, w, side), Red(t, near),
         ~Red(t, Child(t, w, Other(side))),
         NEW u, u = Rotate(Paint(Paint(t, near, BLACK), w, RED), w, Other(side))
  PROVE  /\ \E e, g : DeletePoint(u, S, e, g, x, f, side)
         /\ Child(u, f, Other(side)) = near /\ Child(u, near, Other(side)) = w /\ Red(u, w)
         /\ Untouched(u, t, S)
<1> DEFINE b == Child(t, near, Other(side))
<1>1. /\ Other(side) \in Sides /\ Other(side) # side /\ Other(Other(side)) = side
      /\ \A r \in Sides : r = side \/ r = Other(side)
      /\ x \in S \cup {nil} /\ w \in S /\ nil \notin S /\ S \subseteq Blocks /\ nil \in Blocks
      /\ w # f /\ x # f /\ x # w /\ Parent(t, w) = f /\ SideOf(t, w) = Other(side)
  <2>1. Around(t, S, h, x, f, side, w)
    BY DeleteNodes
  <2> QED  BY <2>1 DEF Around
<1>2. /\ Sound(t, S, d, h, f, side, {}) /\ Shape(t, S, d)
      /\ f \in S /\ side \in Sides /\ Child(t, f, side) = x
      /\ ~Red(t, x) /\ Parent(t, x) = f /\ SideOf(t, x) = side /\ ~Red(t, nil)
  BY DEF DeletePoint, Sound
<1>3. near \in S /\ near # nil
  BY <1>1, <1>2 DEF Shape, Linked
<1>4. b \in S \cup {nil} /\ f # near /\ b \notin {w, near}
  BY <1>1, <1>2, <1>3, RotateNodes
<1>5. /\ \E g : Sound(u, S, RotatedBelow(t, d, w, Other(side)), g, f, side, {})
      /\ Exchanged(u, t, w, Other(side), near, b, f, Other(side)) /\ SameEntries(u, t)
  BY <1>1, <1>2, <1>3, <1>4, ExchangeKeeps
<1>6. (b # nil => Parent(t, b) = near) /\ Parent(t, near) = w
  BY <1>1, <1>2, <1>3 DEF Shape, Linked
<1> HIDE DEF b
<1>7. /\ Child(u, f, side) = x /\ Child(u, f, Other(side)) = near
      /\ Child(u, near, Other(side)) = w
      /\ Parent(u, x) = f /\ Red(u, w) /\ ~Red(u, x)
  <2>1. f \in Blocks /\ w \in Blocks /\ x \in Blocks /\ b \in Blocks /\ near \in Blocks /\ f # nil
    BY <1>1, <1>2, <1>3, <1>4
  <2>2. x # near
    BY <1>1, <1>2, <1>6
  <2>3. Red(u, w) /\ ~Red(u, x)
    BY <1>1, <1>2, <1>5, <2>1 DEF Exchanged
  <2>4. Parent(u, x) = f
    BY <1>1, <1>2, <1>4, <1>5, <1>6, <2>1, <2>2 DEF Exchanged
  <2>5. /\ Child(u, f, side) = x /\ Child(u, f, Other(side)) = near
        /\ Child(u, near, Other(side)) = w
    BY <1>1, <1>2, <1>4, <1>5, <2>1 DEF Exchanged
  <2> QED  BY <2>3, <2>4, <2>5
<1>8. x # near
  BY <1>1, <1>2, <1>6
<1>9. SideOf(u, x) = side
  BY <1>2, <1>7, <1>8 DEF SideOf, Other, Sides
<1>10. Untouched(u, t, S)
  BY <1>1, <1>2, <1>3, <1>5 DEF Untouched, Exchanged
<1> QED  BY <1>2, <1>5, <1>7, <1>9, <1>10 DEF DeletePoint

\* A black sibling without a red child: it turns red, and the link above the
\* father is the doubled one.
LEMMA BlackNephews ==
  ASSUME NEW t, NEW S, NEW d, NEW h, NEW x, NEW f, NEW side,
         DeletePoint(t, S, d, h, x, f, side),
         NEW w, w = Child(t, f, Other(side)), ~Red(t, w),
         \A r \in Sides : ~Red(t, Child(t, w, r)),
         NEW u, u = Paint(t, w, RED)
  PROVE  /\ \E g : Sound(u, S, d, g, Parent(u, f), SideOf(u, f),
                         {f} \cup {y \in S : y # u.root /\ Parent(u, y) = f})
         /\ SameButColour(u, t) /\ Untouched(u, t, S) /\ Red(u, w)
         /\ \A z \in Blocks : Red(t, z) => Red(u, z)
<1> DEFINE q == Parent(t, f)
           qs == SideOf(t, f)
           g == [h EXCEPT ![f] = h[f] - 1, ![w] = h[w] - 1]
           E == {f} \cup {y \in S : y # u.root /\ Parent(u, y) = f}
<1>1. Around(t, S, h, x, f, side, w)
  BY DeleteNodes
<1>2. /\ Other(side) \in Sides /\ Other(side) # side
      /\ \A r \in Sides : r = side \/ r = Other(side)
      /\ x \in S \cup {nil} /\ w \in S /\ nil \notin S /\ S \subseteq Blocks /\ nil \in Blocks
      /\ w # f /\ x # f /\ x # w /\ Parent(t, w) = f /\ w # t.root
      /\ h \in [S \cup {nil} -> Nat] /\ h[nil] = 0
  BY <1>1 DEF Around
<1>3. /\ Sound(t, S, d, h, f, side, {}) /\ Shape(t, S, d) /\ IsTree(t) /\ IsFiniteSet(S)
      /\ f \in S /\ side \in Sides /\ Child(t, f, side) = x
      /\ ~Red(t, x) /\ ~Red(t, nil) /\ NoRedPair(t, S, {})
      /\ \A z \in S : Even(t, h, f, side, z)
  BY DEF DeletePoint, Sound, Balanced, Shape
<1>4. SameButColour(u, t) /\ \A z \in Blocks : Red(u, z) <=> z = w \/ Red(t, z)
  <2>1. RED \in {RED, BLACK} /\ w \in Blocks
    BY <1>2
  <2>2. SameButColour(u, t) /\ \A z \in Blocks : Red(u, z) <=> IF z = w THEN RED = RED ELSE Red(t, z)
    BY <1>3, <2>1, PaintFacts
  <2> QED  BY <2>2
<1>5. Shape(u, S, d)
  BY <1>3, <1>4, ColourShape
<1>6. \A z \in S, r \in Sides :
        /\ Child(t, z, r) \in S \cup {nil}
        /\ Child(t, z, r) = f <=> z = q /\ r = qs
        /\ Child(t, z, r) = w <=> z = f /\ r = Other(side)
  <2>1. \A z \in S, r \in Sides : Child(t, z, r) \in S \cup {nil}
    BY <1>3 DEF Shape, Linked
  <2>2. ASSUME NEW z \in S, NEW r \in Sides  PROVE Child(t, z, r) = w <=> z = f /\ r = Other(side)
    <3>1. Child(t, z, r) = w => z = f
      BY <1>2, <1>3 DEF Shape, Linked
    <3> QED  BY <1>2, <1>3, <3>1
  <2>3. ASSUME NEW z \in S, NEW r \in Sides  PROVE Child(t, z, r) = f <=> z = q /\ r = qs
    <3>1. CASE f = t.root
      <4>1. q = nil
        BY <1>2, <1>3, <3>1 DEF Shape, Linked
      <4> QED  BY <1>2, <1>3, <3>1, <4>1, RootIsNoChild
    <3>2. CASE f # t.root
      BY <1>3, <3>2, SideOfFacts
    <3> QED  BY <3>1, <3>2
  <2> QED  BY <2>1, <2>2, <2>3
<1>7. \A r \in Sides : Child(t, w, r) \in S \cup {nil} /\ Child(t, w, r) # w /\ Child(t, w, r) # f
  <2>1. \A r \in Sides : Child(t, w, r) \in S \cup {nil} /\ Child(t, w, r) # w
    BY <1>2, <1>3, SidesDiffer DEF Shape, Linked
  <2>2. w \in d[f] /\ w # f
    BY <1>2, <1>3, BelowFacts
  <2>3. f \notin d[w]
    BY <1>3, <2>2, BelowTransitive
  <2>4. \A r \in Sides : Child(t, w, r) # f
    BY <1>2, <1>3, <2>1, <2>3, BelowFacts
  <2> QED  BY <2>1, <2>4
<1> HIDE DEF q, qs, g, E
<1>8. h[f] \in Nat /\ h[w] \in Nat /\ h[x] \in Nat /\ h[w] = h[x] + 1
  <2>1. h[f] \in Nat /\ h[w] \in Nat /\ h[x] \in Nat
    BY <1>2, <1>3
  <2>2. h[w] = h[x] + 1
    BY <1>1 DEF Around
  <2> QED  BY <2>1, <2>2
<1>9. h[f] = h[w] + (IF Red(t, f) THEN 0 ELSE 1)
  BY <1>1 DEF Around
<1>10. /\ g \in [S \cup {nil} -> Nat] /\ g[nil] = 0 /\ g[f] = h[f] - 1 /\ g[w] = h[w] - 1
       /\ \A z \in S \cup {nil} : z \notin {f, w} => g[z] = h[z]
  <2>1. h[f] - 1 \in Nat /\ h[w] - 1 \in Nat
    BY <1>8, <1>9
  <2> QED  BY <1>2, <1>3, <2>1 DEF g
<1>11. ASSUME NEW z \in S, NEW r \in Sides
       PROVE  g[z] = g[Child(t, z, r)] + Twice(q, qs, z, r) + Black(u, z)
  <2> DEFINE v == Child(t, z, r)
  <2>1. v \in S \cup {nil} /\ (v = f <=> z = q /\ r = qs) /\ (v = w <=> z = f /\ r = Other(side))
    BY <1>6
  <2>2. h[z] = h[v] + Twice(f, side, z, r) + Black(t, z) /\ h[v] \in Nat /\ h[z] \in Nat
    BY <1>2, <1>3, <2>1 DEF Even
  <2>3. Red(u, z) <=> z = w \/ Red(t, z)
    BY <1>2, <1>4
  <2> HIDE DEF v
  <2>4. CASE z = w
    <3>1. v # w /\ v # f
      BY <1>7, <2>4 DEF v
    <3>2. Twice(f, side, z, r) = 0 /\ Twice(q, qs, z, r) = 0 /\ Black(t, z) = 1 /\ Black(u, z) = 0
      BY <1>2, <2>1, <2>3, <2>4, <3>1 DEF Twice, Black
    <3>3. g[z] = h[z] - 1 /\ g[v] = h[v]
      BY <1>10, <2>1, <2>4, <3>1
    <3> QED  BY <2>2, <3>2, <3>3 DEF v
  <2>5. CASE z = f
    <3>1. v # f
      BY <1>3, <2>5, SidesDiffer DEF v
    <3>2. Twice(q, qs, z, r) = 0 /\ Black(t, z) = Black(u, z) /\ Black(t, z) \in Nat
      BY <1>2, <2>1, <2>3, <2>5, <3>1 DEF Twice, Black
    <3>3. CASE r = side
      <4>1. v # w /\ Twice(f, side, z, r) = 1
        BY <1>2, <2>1, <2>5, <3>3 DEF Twice
      <4>2. g[z] = h[z] - 1 /\ g[v] = h[v]
        BY <1>10, <2>1, <2>5, <3>1, <4>1
      <4> QED  BY <2>2, <3>2, <4>1, <4>2 DEF v
    <3>4. CASE r = Other(side)
      <4>1. v = w /\ Twice(f, side, z, r) = 0
        BY <1>2, <2>1, <2>5, <3>4 DEF Twice
      <4>2. g[z] = h[z] - 1 /\ g[v] = h[v] - 1
        BY <1>10, <2>5, <4>1
      <4> QED  BY <2>2, <3>2, <4>1, <4>2 DEF v
    <3> QED  BY <1>2, <3>3, <3>4
  <2>6. CASE z \notin {f, w}
    <3>1. v # w /\ Twice(f, side, z, r) = 0 /\ Black(t, z) = Black(u, z) /\ Black(t, z) \in Nat
      BY <2>1, <2>3, <2>6 DEF Twice, Black
    <3>2. g[z] = h[z]
      BY <1>10, <2>6
    <3>3. CASE v = f
      <4>1. Twice(q, qs, z, r) = 1 /\ g[v] = h[v] - 1
        BY <1>10, <2>1, <3>3 DEF Twice
      <4> QED  BY <2>2, <3>1, <3>2, <4>1 DEF v
    <3>4. CASE v # f
      <4>1. Twice(q, qs, z, r) = 0 /\ g[v] = h[v]
        BY <1>10, <2>1, <3>1, <3>4 DEF Twice
      <4> QED  BY <2>2, <3>1, <3>2, <4>1 DEF v
    <3> QED  BY <3>3, <3>4
  <2> QED  BY <2>4, <2>5, <2>6
<1>12. Balanced(u, S, g, q, qs)
  <2>1. \A z, r : Child(u, z, r) = Child(t, z, r)
    BY <1>4 DEF SameButColour
  <2> QED  BY <1>10, <1>11, <2>1 DEF Balanced, Even
<1>13. NoRedPair(u, S, E)
  <2> SUFFICES ASSUME NEW z \in S, Red(u, z), z \notin E
               PROVE  z # u.root /\ ~Red(u, Parent(u, z))
    BY DEF NoRedPair
  <2>1. u.root = t.root /\ Parent(u, z) = Parent(t, z) /\ Parent(u, w) = f
    BY <1>2, <1>4 DEF SameButColour
  <2>2. z # w
    BY <1>2, <2>1 DEF E
  <2>3. Red(t, z)
    BY <1>2, <1>4, <2>2
  <2>4. z # t.root /\ ~Red(t, Parent(t, z))
    BY <1>3, <2>3 DEF NoRedPair
  <2>5. Parent(t, z) \in S /\ \E r \in Sides : Child(t, Parent(t, z), r) = z
    BY <1>3, <2>4 DEF Shape, Linked
  <2>6. Parent(t, z) # w
    BY <2>3, <2>5
  <2> QED  BY <1>2, <1>4, <2>1, <2>4, <2>5, <2>6
<1>14. ~Red(u, nil)
  BY <1>2, <1>3, <1>4
<1>15. q = Parent(u, f) /\ qs = SideOf(u, f)
  BY <1>4 DEF SameButColour, q, qs
<1>16. Sound(u, S, d, g, q, qs, E)
  BY <1>3, <1>5, <1>12, <1>13, <1>14 DEF Sound
<1>17. Untouched(u, t, S) /\ Red(u, w)
  BY <1>2, <1>4 DEF SameButColour, SameEntries, Untouched
<1> QED  BY <1>4, <1>15, <1>16, <1>17 DEF E

\* A black sibling with a red child on the other side: the rotation above x makes
\* up for the missing black node.
LEMMA RedFar ==
  ASSUME NEW t, NEW S, NEW d, NEW h, NEW x, NEW f, NEW side,
         DeletePoint(t, S, d, h, x, f, side),
         NEW w, w = Child(t, f, Other(side)),
         NEW far, far = Child(t, w, Other(side)), Red(t, far),
         NEW v, v = Paint(Paint(Paint(t, w, t.color[f]), f, BLACK), far, BLACK),
         NEW u, u = Rotate(v, f, side)
  PROVE  u.root \in S /\ Untouched(u, t, S) /\ \E e, g : Good(u, S, e, g, {})
<1> DEFINE near == Child(t, w, side)
           h1 == [h EXCEPT ![far] = h[far] + 1]
           g == [h1 EXCEPT ![f] = h[w], ![w] = h[f]]
<1>1. Around(t, S, h, x, f, side, w)
  BY DeleteNodes
<1>2. /\ Other(side) \in Sides /\ Other(side) # side
      /\ \A r \in Sides : r = side \/ r = Other(side)
      /\ x \in S \cup {nil} /\ w \in S /\ nil \notin S /\ S \subseteq Blocks /\ nil \in Blocks
      /\ w # f /\ x # f /\ x # w /\ Parent(t, w) = f /\ w # t.root /\ w # nil
      /\ h \in [S \cup {nil} -> Nat] /\ h[nil] = 0
  BY <1>1 DEF Around
<1>3. /\ Sound(t, S, d, h, f, side, {}) /\ Shape(t, S, d) /\ IsTree(t) /\ IsFiniteSet(S)
      /\ f \in S /\ side \in Sides /\ Child(t, f, side) = x
      /\ ~Red(t, x) /\ ~Red(t, nil) /\ NoRedPair(t, S, {})
      /\ \A z \in S : Even(t, h, f, side, z)
  BY DEF DeletePoint, Sound, Balanced, Shape
<1>4. far \in S /\ far # nil /\ near \in S \cup {nil} /\ far \notin {f, w} /\ near \notin {f, w}
      /\ far # near /\ far # x
  <2>1. far \in S /\ far # nil /\ far # x
    BY <1>2, <1>3 DEF Shape, Linked
  <2>2. far \notin {f, w} /\ near \notin {f, w} /\ near \in S \cup {nil}
    BY <1>2, <1>3, RotateNodes
  <2>3. far # near
    BY <1>2, <1>3, <2>1, SidesDiffer
  <2> QED  BY <2>1, <2>2, <2>3
<1>5. (near # nil => Parent(t, near) = w) /\ Parent(t, far) = w /\ ~Red(t, w)
  <2>1. (near # nil => Parent(t, near) = w) /\ Parent(t, far) = w
    BY <1>2, <1>3, <1>4 DEF Shape, Linked
  <2> QED  BY <1>3, <1>4, <2>1 DEF NoRedPair
<1>6. /\ SameButColour(v, t)
      /\ \A z \in Blocks : Red(v, z) <=> IF z = w THEN Red(t, f) ELSE z \notin {f, far} /\ Red(t, z)
  <2> DEFINE t1 == Paint(t, w, t.color[f])
  <2>1. BLACK \in {RED, BLACK} /\ RED # BLACK /\ f \in Blocks /\ w \in Blocks /\ far \in Blocks
    BY <1>2, <1>3, <1>4 DEF RED, BLACK
  <2>2. t.color[f] \in {RED, BLACK}
    BY <1>3, <2>1 DEF IsTree
  <2>3. v = Paint(Paint(t1, f, BLACK), far, BLACK)
    OBVIOUS
  <2> HIDE DEF t1
  <2>4. SameButColour(t1, t) /\ \A z \in Blocks : Red(t1, z) <=> IF z = w THEN t.color[f] = RED ELSE Red(t, z)
    BY <1>3, <2>1, <2>2, PaintFacts DEF t1
  <2>5. /\ SameButColour(v, t1)
        /\ \A z \in Blocks :
             Red(v, z) <=> IF z = far THEN BLACK = RED ELSE IF z = f THEN BLACK = RED ELSE Red(t1, z)
    <3>1. IsTree(t1)  BY <2>4 DEF SameButColour
    <3> QED  BY <2>1, <2>3, <3>1, PaintTwice
  <2>6. SameButColour(v, t)
    BY <2>4, <2>5 DEF SameButColour
  <2>7. t.color[f] = RED <=> Red(t, f)
    BY DEF Red
  <2> QED  BY <1>2, <1>4, <2>1, <2>4, <2>5, <2>6, <2>7
<1>7. Shape(v, S, d)
  BY <1>3, <1>6, ColourShape
<1>8. /\ Child(v, f, Other(side)) = w /\ Child(v, f, side) = x /\ Child(v, w, side) = near
      /\ Child(v, w, Other(side)) = far /\ Parent(v, f) = Parent(t, f)
      /\ v.root = t.root
  BY <1>3, <1>6 DEF SameButColour
<1>9. Rotated(u, v, f, side)
  BY <1>2, <1>3, <1>7, <1>8, RotateRotates
<1>10. Shape(u, S, RotatedBelow(v, d, f, side))
  BY <1>2, <1>3, <1>7, <1>8, <1>9, RotateShape
<1>11. Turned(u, v, f, side, w, near, Parent(t, f), SideOf(v, f))
  BY <1>8, <1>9 DEF Rotated
<1> HIDE DEF near, h1, g
<1>12. /\ \A z : Red(u, z) <=> Red(v, z)
       /\ u.root \in S
  <2>1. \A z : Red(u, z) <=> Red(v, z)
    BY <1>11 DEF Turned, SameData, Red
  <2>2. u.root \in S \cup {nil} /\ u.root # nil
    <3>1. u.root \in S \cup {nil}
      BY <1>10 DEF Shape, Linked
    <3>2. t.root # nil
      BY <1>2, <1>3 DEF Shape, Spans
    <3> QED  BY <1>2, <1>8, <1>11, <3>1, <3>2 DEF Turned
  <2> QED  BY <2>1, <2>2
<1>13. /\ Black(t, w) = 1 /\ Black(t, far) = 0 /\ Black(v, f) = 1 /\ Black(v, far) = 1
       /\ Black(v, w) = Black(t, f) /\ Black(t, f) \in Nat
       /\ \A z \in S \ {f, w, far} : Black(v, z) = Black(t, z)
  BY <1>2, <1>3, <1>4, <1>5, <1>6 DEF Black
<1>14. /\ h[f] \in Nat /\ h[x] \in Nat /\ h[w] \in Nat /\ h[near] \in Nat /\ h[far] \in Nat
       /\ h[w] = h[x] + 1 /\ h[w] = h[near] + 1 /\ h[w] = h[far] + 1
       /\ h[f] = h[w] + Black(t, f)
  <2>1. h[f] \in Nat /\ h[x] \in Nat /\ h[w] \in Nat /\ h[near] \in Nat /\ h[far] \in Nat
    BY <1>2, <1>3, <1>4
  <2>2. Twice(f, side, w, side) = 0 /\ Twice(f, side, w, Other(side)) = 0
        /\ Twice(f, side, f, side) = 1 /\ Twice(f, side, f, Other(side)) = 0
    BY <1>2 DEF Twice
  <2>3. /\ h[w] = h[near] + 0 + 1 /\ h[w] = h[far] + 0 + 1
        /\ h[f] = h[x] + 1 + Black(t, f) /\ h[f] = h[w] + 0 + Black(t, f)
    BY <1>2, <1>3, <1>13, <2>2 DEF Even, near
  <2> QED  BY <1>13, <2>1, <2>3
<1>15. /\ h1 \in [S \cup {nil} -> Nat] /\ h1[nil] = 0 /\ h1[far] = h[far] + 1
       /\ \A z \in S \cup {nil} : z # far => h1[z] = h[z]
  <2>1. h[far] + 1 \in Nat
    BY <1>14
  <2> QED  BY <1>2, <1>4, <2>1 DEF h1
<1>16. /\ g \in [S \cup {nil} -> Nat] /\ g[f] = h[w] /\ g[w] = h[f]
       /\ \A z \in (S \cup {nil}) \ {f, w} : g[z] = h1[z]
  BY <1>2, <1>3, <1>14, <1>15 DEF g
<1>18. ASSUME NEW z \in S \ {f, w}  PROVE Even(v, h1, nil, "left", z)
  <2>1. ASSUME NEW r \in Sides
        PROVE  h1[z] = h1[Child(v, z, r)] + Twice(nil, "left", z, r) + Black(v, z)
    <3> DEFINE c == Child(t, z, r)
    <3>1. c \in S \cup {nil} /\ c # far /\ Child(v, z, r) = c
      BY <1>3, <1>4, <1>5, <1>6 DEF Shape, Linked, SameButColour
    <3>2. Twice(nil, "left", z, r) = 0 /\ Twice(f, side, z, r) = 0
      BY <1>2 DEF Twice
    <3>3. h[z] = h[c] + 0 + Black(t, z) /\ h[c] \in Nat /\ h[z] \in Nat
      BY <1>2, <1>3, <3>1, <3>2 DEF Even
    <3> HIDE DEF c
    <3>4. h1[c] = h[c]
      BY <1>15, <3>1
    <3>5. CASE z = far
      <4>1. h1[z] = h[z] + 1 /\ Black(v, z) = 1 /\ Black(t, z) = 0
        BY <1>13, <1>15, <3>5
      <4> QED  BY <3>1, <3>2, <3>3, <3>4, <4>1
    <3>6. CASE z # far
      <4>1. h1[z] = h[z] /\ Black(v, z) = Black(t, z)
        BY <1>13, <1>15, <3>6
      <4> QED  BY <3>1, <3>2, <3>3, <3>4, <4>1
    <3> QED  BY <3>5, <3>6
  <2> QED  BY <2>1 DEF Even
<1>19. Levels(v, S, h1, g, nil, "left", f, w, side)
  <2>1. /\ Twice(nil, "left", f, side) = 0 /\ Twice(nil, "left", f, Other(side)) = 0
        /\ Twice(nil, "left", w, side) = 0 /\ Twice(nil, "left", w, Other(side)) = 0
    BY <1>2, <1>3 DEF Twice
  <2>2. h1[x] = h[x] /\ h1[near] = h[near] /\ h1[f] = h[f] /\ h1[far] = h[far] + 1
    BY <1>2, <1>3, <1>4, <1>15
  <2>3. /\ g[w] = h1[f] /\ g[f] = h1[x] + 0 + 1 /\ g[f] = h1[near] + 0 + 1
        /\ g[w] = g[f] + 0 + Black(v, w) /\ g[w] = h1[far] + 0 + Black(v, w)
    BY <1>13, <1>14, <1>16, <2>2
  <2> QED  BY <1>8, <1>13, <1>16, <2>1, <2>3 DEF Levels
<1>20. Balanced(u, S, g, nil, "left")
  BY <1>2, <1>3, <1>7, <1>8, <1>9, <1>15, <1>18, <1>19, RotateBalanced
<1>21. NoRedPair(u, S, {})
  <2>1. NoRedPair(v, S \ {f, w, near}, {})
    <3> SUFFICES ASSUME NEW z \in S \ {f, w, near}, Red(v, z)
                 PROVE  z # v.root /\ ~Red(v, Parent(v, z))
      BY DEF NoRedPair
    <3>1. Red(t, z) /\ z # far /\ Parent(v, z) = Parent(t, z)
      BY <1>2, <1>6 DEF SameButColour
    <3>2. z # t.root /\ ~Red(t, Parent(t, z))
      BY <1>3, <3>1 DEF NoRedPair
    <3>3. Parent(t, z) \in S /\ \E r \in Sides : Child(t, Parent(t, z), r) = z
      BY <1>3, <3>2 DEF Shape, Linked
    <3>4. Parent(t, z) # w
      BY <1>2, <3>1, <3>3 DEF near
    <3> QED  BY <1>2, <1>6, <1>8, <3>1, <3>2, <3>3, <3>4
  <2>2. ~Red(v, f)
    BY <1>2, <1>3, <1>6
  <2>3. Red(v, w) => f # v.root /\ ~Red(v, Parent(v, f))
    <3> SUFFICES ASSUME Red(v, w) PROVE f # v.root /\ ~Red(v, Parent(v, f))
      OBVIOUS
    <3>1. Red(t, f)
      BY <1>2, <1>6
    <3>2. f # t.root /\ ~Red(t, Parent(t, f))
      BY <1>3, <3>1 DEF NoRedPair
    <3>3. Parent(t, f) \in S
      BY <1>3, <3>2 DEF Shape, Linked
    <3>4. Parent(t, f) # w
      BY <1>2, <1>3, RotateNodes
    <3> QED  BY <1>2, <1>6, <1>8, <3>2, <3>3, <3>4
  <2> QED  BY <1>2, <1>3, <1>7, <1>8, <1>9, <2>1, <2>2, <2>3, RotateNoRedPair
<1>22. ~Red(u, nil)
  BY <1>2, <1>3, <1>6, <1>12
<1>23. Good(u, S, RotatedBelow(v, d, f, side), g, {})
  BY <1>3, <1>10, <1>20, <1>21, <1>22 DEF Good, Sound
<1>24. Untouched(u, t, S)
  <2>1. SameEntries(u, t)
    BY <1>6, <1>11 DEF SameButColour, Turned, SameData, SameEntries
  <2>2. Parent(t, f) \in S \cup {nil}
    BY <1>2, <1>3, RotateNodes
  <2>3. \A z \in Blocks \ S, r \in Sides : Child(u, z, r) = Child(v, z, r)
    BY <1>2, <1>3, <1>11, <2>2 DEF Turned
  <2> QED  BY <1>6, <2>1, <2>3 DEF Untouched, SameButColour
<1> QED  BY <1>12, <1>23, <1>24

-----------------------------------------------------------------------------
(* How high a node stands. *)

\* The nodes below which x hangs, x included.
Above(S, d, x) == {y \in S : x \in d[y]}

\* How many nodes stand above x.
LevelOf(t, S, d, x) == IF x = t.root THEN 0 ELSE Cardinality(Above(S, d, Parent(t, x)))

\* A set without one of its members is smaller.
LEMMA FewerMembers ==
  ASSUME NEW A, NEW B, IsFiniteSet(B), A \subseteq B, NEW x \in B, x \notin A
  PROVE  Cardinality(A) < Cardinality(B) /\ Cardinality(A) \in Nat /\ Cardinality(B) \in Nat
<1>1. /\ IsFiniteSet(A) /\ Cardinality(A) <= Cardinality(B)
      /\ Cardinality(A) = Cardinality(B) => A = B
  BY FS_Subset
<1>2. Cardinality(A) \in Nat /\ Cardinality(B) \in Nat
  BY <1>1, FS_CardinalityType
<1> QED  BY <1>1, <1>2

\* A node higher up the path from f stands on a lower level than what hangs on f.
LEMMA HigherUp ==
  ASSUME NEW t, NEW S, NEW d, Shape(t, S, d), IsFiniteSet(S), NEW g \in S, NEW f \in d[g]
  PROVE  LevelOf(t, S, d, g) < Cardinality(Above(S, d, f))
<1>1. f \in S /\ f \in d[f] /\ IsFiniteSet(Above(S, d, f)) /\ f \in Above(S, d, f)
  <2>1. f \in S /\ f \in d[f]
    BY BelowFacts
  <2> QED  BY <2>1, FS_Subset DEF Above
<1>2. CASE g = t.root
  <2>1. Cardinality({}) = 0 /\ Cardinality({}) < Cardinality(Above(S, d, f))
    BY <1>1, FewerMembers, FS_EmptySet
  <2> QED  BY <1>2, <2>1 DEF LevelOf
<1>3. CASE g # t.root
  <2> DEFINE p == Parent(t, g)
  <2>1. p \in S /\ g \in d[p] /\ p # g
    <3>1. p \in S /\ \E s \in Sides : Child(t, p, s) = g
      BY <1>3, SideOfFacts
    <3> QED  BY <3>1, BelowFacts, SidesDiffer
  <2> HIDE DEF p
  <2>2. f \in d[p] /\ f # p
    BY <2>1, BelowTransitive
  <2>3. p \notin d[f]
    BY <2>1, <2>2, BelowTransitive
  <2>4. Above(S, d, p) \subseteq Above(S, d, f)
    <3>1. ASSUME NEW x \in S, p \in d[x]  PROVE f \in d[x]
      BY <2>2, <3>1, BelowTransitive
    <3> QED  BY <3>1 DEF Above
  <2>5. f \notin Above(S, d, p)
    BY <2>3 DEF Above
  <2>6. Cardinality(Above(S, d, p)) < Cardinality(Above(S, d, f))
    BY <1>1, <2>4, <2>5, FewerMembers
  <2> QED  BY <1>3, <2>6 DEF LevelOf, p
<1> QED  BY <1>2, <1>3

\* What stands above a child is the child and what stands above its parent.
LEMMA AboveChild ==
  ASSUME NEW t, NEW S, NEW d, Shape(t, S, d), IsFiniteSet(S), NEW f \in S, NEW s \in Sides,
         NEW z \in S, z = Child(t, f, s)
  PROVE  Above(S, d, z) = {z} \cup Above(S, d, f)
<1>1. z \in d[z] /\ z \in d[f] /\ f \in d[f] /\ nil \notin S
  BY BelowFacts
<1>2. ASSUME NEW x \in S, f \in d[x]  PROVE z \in d[x]
  BY <1>1, <1>2, BelowTransitive
<1> DEFINE V == {x \in S : z \in d[x] /\ x # z /\ f \notin d[x]}
<1>3. ASSUME NEW x \in S, \A r \in Sides : Child(t, x, r) \notin V
      PROVE  x \notin V
  <2> SUFFICES ASSUME z \in d[x], x # z, f \notin d[x]  PROVE FALSE
    OBVIOUS
  <2>1. PICK r \in Sides : z \in d[Child(t, x, r)]
    BY BelowFacts
  <2>2. Child(t, x, r) \in S /\ d[Child(t, x, r)] \subseteq d[x]
    BY <2>1, BelowFacts DEF Shape, Linked
  <2>3. Child(t, x, r) = z
    BY <1>3, <2>1, <2>2
  <2>4. x = f
    BY <1>1, <2>3 DEF Shape, Linked
  <2> QED  BY <1>1, <2>4
<1>4. V = {}
  <2> HIDE DEF V
  <2>1. V \in SUBSET S  BY DEF V
  <2> QED  BY <1>3, <2>1, TreeInduction
<1> QED  BY <1>1, <1>2, <1>4 DEF Above

\* After a rotation the node that came up has the other one no longer above it.
LEMMA AboveRotated ==
  ASSUME NEW t, NEW S, NEW d, Shape(t, S, d), IsFiniteSet(S), NEW x \in S, NEW side \in Sides,
         NEW y \in S, y = Child(t, x, Other(side))
  PROVE  Above(S, RotatedBelow(t, d, x, side), y) = Above(S, d, y) \ {x}
<1> DEFINE a == Child(t, x, side)
           b == Child(t, y, side)
           e == RotatedBelow(t, d, x, side)
<1>1. Other(side) \in Sides /\ x # y /\ d \in [S \cup {nil} -> SUBSET S]
  BY OtherSide, SidesDiffer DEF Shape, Spans
<1>2. e = [d EXCEPT ![x] = {x} \cup d[a] \cup d[b], ![y] = d[x]]
  BY DEF RotatedBelow
<1>3. e[x] = {x} \cup d[a] \cup d[b] /\ e[y] = d[x] /\ \A z \in S \ {x, y} : e[z] = d[z]
  <2> HIDE DEF a, b, e
  <2> QED  BY <1>1, <1>2
<1>4. y \notin d[a] /\ y \notin d[b] /\ y \in d[y] /\ y \in d[x]
  BY <1>1, SidesDiffer, BelowFacts
<1> HIDE DEF a, b, e
<1>5. y \notin e[x] /\ y \in e[y]
  BY <1>1, <1>3, <1>4
<1>6. Above(S, e, y) = Above(S, d, y) \ {x}
  BY <1>3, <1>4, <1>5 DEF Above
<1> QED  BY <1>6 DEF e
=============================================================================
