---------------------------- MODULE NattyRBTree ----------------------------
(***************************************************************************)
(* The red-black tree of NattyRBTree.c, pointer by pointer: each field of   *)
(* RBTreeNode is a function of the block, and one block, nil, is the        *)
(* sentinel, which is every leaf's child and the root's parent and whose    *)
(* parent field the deletion borrows.  The two fixup loops take one step    *)
(* per iteration; while one of them runs no other operation starts.  Left   *)
(* and right are values, so that each pair of mirrored branches and the two *)
(* rotations are one definition.                                            *)
(***************************************************************************)
EXTENDS Integers, Sequences, FiniteSets, TLC

CONSTANTS
  Nodes,      \* the blocks OslMalloc hands out
  nil,        \* the sentinel's block
  unset,      \* a pointer that was never assigned
  Pairs,      \* the ids and the values that are entered
  CountSize   \* 65536, the width of count

ASSUME TreeAssumption ==
  /\ nil \notin Nodes /\ unset \notin Nodes /\ unset # nil
  /\ \A p \in Pairs : p[1] \in Nat
  /\ CountSize \in Nat \ {0}

VARIABLES
  T,       \* the tree: its root and the fields of all blocks
  alive,   \* the blocks that are allocated
  count,
  pc,      \* "idle", or the loop that runs
  cur,     \* z of ntyRBTreeInsertFixup, x of ntyRBTreeDeleteFixup
  doomed   \* the node a deletion will release

vars == <<T, alive, count, pc, cur, doomed>>

RED == 1
BLACK == 2

Sides == {"left", "right"}
Other(side) == IF side = "left" THEN "right" ELSE "left"

Blocks == Nodes \cup {nil}

Keys == {p[1] : p \in Pairs}

-----------------------------------------------------------------------------
(* Reading the tree t. *)

Child(t, x, side) == t.child[<<x, side>>]

Parent(t, x) == t.parent[x]

\* The side of its parent on which x hangs; like the code, the left one first.
SideOf(t, x) == IF x = Child(t, Parent(t, x), "left") THEN "left" ELSE "right"

Red(t, x) == t.color[x] = RED

\* The side of x on which key k is looked for, and entered.
Toward(t, x, k) == IF k < t.key[x] THEN "left" ELSE "right"

\* The loop of ntyRBTreeSearch from each block: where it ends.
Find(t, k) ==
  LET find[x \in alive \cup {nil}] ==
        IF x = nil \/ k = t.key[x] THEN x ELSE find[Child(t, x, Toward(t, x, k))]
  IN  find

Search(t, k) == Find(t, k)[t.root]

\* The loop of NattyRBTreeInsert from each node: the last one before nil.
Descent(t, k) ==
  LET last[x \in alive] ==
        IF Child(t, x, Toward(t, x, k)) = nil THEN x ELSE last[Child(t, x, Toward(t, x, k))]
  IN  last

\* The node under which NattyRBTreeInsert hangs key k, nil in an empty tree.
InsertPoint(t, k) == IF t.root = nil THEN nil ELSE Descent(t, k)[t.root]

\* ntyTreeMiniMum from each node.
Minimum(t) ==
  LET min[x \in alive] == IF Child(t, x, "left") = nil THEN x ELSE min[Child(t, x, "left")]
  IN  min

\* Mistake: the right child itself is taken for the successor.
BugSuccessor(t, x) == Child(t, x, "right")

\* ntyTreeSuccessor of a node with two children.
Successor(t, x) == Minimum(t)[Child(t, x, "right")]

-----------------------------------------------------------------------------
(* Changing it. *)

Paint(t, x, c) == [t EXCEPT !.color[x] = c]

SetChild(t, x, side, y) == [t EXCEPT !.child[<<x, side>>] = y]

SetParent(t, x, p) == [t EXCEPT !.parent[x] = p]

Hold(t, x, k, v) == [t EXCEPT !.key[x] = k, !.value[x] = v]

\* Put y where x hangs below p, which is nil when x is the root.
Hang(t, p, x, y) ==
  IF p = nil THEN [t EXCEPT !.root = y]
  ELSE SetChild(t, p, IF x = Child(t, p, "left") THEN "left" ELSE "right", y)

\* Mistake: the subtree that changes sides keeps its old parent.
BugTurn(t, x, side, y, b) ==
  LET p == Parent(t, x)
      hung == Hang(SetParent(SetChild(t, x, Other(side), b), y, p), p, x, y)
  IN  SetParent(SetChild(hung, y, side, x), x, y)

\* ntyRBTreeLeftRotate (side "left") and ntyRBTreeRightRotate, where y is the
\* child of x that comes up and b the subtree that changes sides.
Turn(t, x, side, y, b) ==
  LET p == Parent(t, x)
      hung == Hang(SetParent(SetChild(t, x, Other(side), b), y, p), p, x, y)
      turned == SetParent(SetChild(hung, y, side, x), x, y)
  IN  IF b # nil THEN SetParent(turned, b, x) ELSE turned

Rotate(t, x, side) ==
  LET y == Child(t, x, Other(side))
  IN  Turn(t, x, side, y, Child(t, y, side))

\* NattyRBTreeInsert up to its fixup.
Link(t, n, k, v) ==
  LET y == InsertPoint(t, k)
      new == SetChild(SetChild(SetParent(Hold(t, n, k, v), n, y), n, "left", nil), n, "right", nil)
      red == Paint(new, n, RED)
  IN  IF y = nil THEN [red EXCEPT !.root = n] ELSE SetChild(red, y, Toward(t, y, k), n)

\* Mistake: the value stays behind when the key moves up.
BugUnlink(t, z, y, x) ==
  Hold(Hang(SetParent(t, x, Parent(t, y)), Parent(t, y), y, x), z, t.key[y], t.value[z])

\* ntyRBTreeDelete up to its fixup: y leaves the tree, x takes its place and z
\* takes what y held.
Unlink(t, z, y, x) ==
  Hold(Hang(SetParent(t, x, Parent(t, y)), Parent(t, y), y, x), z, t.key[y], t.value[y])

-----------------------------------------------------------------------------
(* Inserting. *)

\* A key that is there is not entered again.
OperaInsert ==
  \E p \in Pairs, n \in Nodes \ alive :
    /\ pc = "idle"
    /\ Search(T, p[1]) = nil
    /\ T' = Link(T, n, p[1], p[2])
    /\ alive' = alive \cup {n}
    /\ pc' = "insertFixup" /\ cur' = n
    /\ UNCHANGED <<count, doomed>>

\* The loop's test, and the nodes its body works with.
ParentRed == pc = "insertFixup" /\ Red(T, Parent(T, cur))
Father == Parent(T, cur)
Grandfather == Parent(T, Father)
Uncle == Child(T, Grandfather, Other(SideOf(T, Father)))

\* Mistake: the loop goes on with the same node.
BugInsertRecolour ==
  /\ ParentRed /\ Red(T, Uncle)
  /\ T' = Paint(Paint(Paint(T, Father, BLACK), Uncle, BLACK), Grandfather, RED)
  /\ UNCHANGED <<cur, alive, count, pc, doomed>>

InsertRecolour ==
  /\ ParentRed /\ Red(T, Uncle)
  /\ T' = Paint(Paint(Paint(T, Father, BLACK), Uncle, BLACK), Grandfather, RED)
  /\ cur' = Grandfather
  /\ UNCHANGED <<alive, count, pc, doomed>>

InsertRotate ==
  /\ ParentRed /\ ~Red(T, Uncle)
  /\ LET side == SideOf(T, Father)
         inner == cur = Child(T, Father, Other(side))
         t == IF inner THEN Rotate(T, Father, side) ELSE T
         z == IF inner THEN Father ELSE cur
         painted == Paint(Paint(t, Parent(t, z), BLACK), Grandfather, RED)
     IN  /\ T' = Rotate(painted, Grandfather, Other(side))
         /\ cur' = z
  /\ UNCHANGED <<alive, count, pc, doomed>>

\* Mistake: the root keeps its colour.
BugInsertDone ==
  /\ pc = "insertFixup" /\ ~Red(T, Parent(T, cur))
  /\ count' = (count + 1) % CountSize
  /\ pc' = "idle" /\ cur' = nil
  /\ UNCHANGED <<T, alive, doomed>>

InsertDone ==
  /\ pc = "insertFixup" /\ ~Red(T, Parent(T, cur))
  /\ T' = Paint(T, T.root, BLACK)
  /\ count' = (count + 1) % CountSize
  /\ pc' = "idle" /\ cur' = nil
  /\ UNCHANGED <<alive, doomed>>

-----------------------------------------------------------------------------
(* Deleting. *)

OperaDelete ==
  \E k \in Keys :
    /\ pc = "idle"
    /\ LET z == Search(T, k)
           y == IF nil \in {Child(T, z, "left"), Child(T, z, "right")} THEN z ELSE Successor(T, z)
           x == Child(T, y, IF Child(T, y, "left") # nil THEN "left" ELSE "right")
       IN  /\ z # nil
           /\ T' = Unlink(T, z, y, x)
           /\ doomed' = y /\ cur' = x
           /\ pc' = IF Red(T, y) THEN "release" ELSE "deleteFixup"
    /\ UNCHANGED <<alive, count>>

Doubled == pc = "deleteFixup" /\ cur # T.root /\ ~Red(T, cur)

\* A red sibling w is rotated above x first; then x's sibling is black.
BlackSibling ==
  LET side == SideOf(T, cur)
      w == Child(T, Father, Other(side))
  IN  IF Red(T, w) THEN Rotate(Paint(Paint(T, w, BLACK), Father, RED), Father, side) ELSE T

DeleteFixup ==
  /\ Doubled
  /\ LET side == SideOf(T, cur)
         t == BlackSibling
         w == Child(t, Father, Other(side))
         near == Child(t, w, side)
         far == Child(t, w, Other(side))
         t1 == IF Red(t, far) THEN t
               ELSE Rotate(Paint(Paint(t, near, BLACK), w, RED), w, Other(side))
         w1 == Child(t1, Father, Other(side))
         t2 == Paint(Paint(Paint(t1, w1, t1.color[Father]), Father, BLACK),
                     Child(t1, w1, Other(side)), BLACK)
     IN  \/ /\ ~Red(t, near) /\ ~Red(t, far)
            /\ T' = Paint(t, w, RED)
            /\ cur' = Father
         \/ /\ Red(t, near) \/ Red(t, far)
            /\ T' = Rotate(t2, Father, side)
            /\ cur' = T'.root
  /\ UNCHANGED <<alive, count, pc, doomed>>

\* Mistake: the count stays as it was.
BugRelease ==
  /\ pc = "release" \/ (pc = "deleteFixup" /\ ~Doubled)
  /\ T' = IF pc = "deleteFixup" THEN Paint(T, cur, BLACK) ELSE T
  /\ alive' = alive \ {doomed}
  /\ pc' = "idle" /\ cur' = nil /\ doomed' = nil
  /\ UNCHANGED count

\* The end of the fixup, if there was one, and what ntyRBTreeOperaDelete does
\* after it.
Release ==
  /\ pc = "release" \/ (pc = "deleteFixup" /\ ~Doubled)
  /\ T' = IF pc = "deleteFixup" THEN Paint(T, cur, BLACK) ELSE T
  /\ alive' = alive \ {doomed}
  /\ count' = (count - 1) % CountSize
  /\ pc' = "idle" /\ cur' = nil /\ doomed' = nil

-----------------------------------------------------------------------------
\* The block of key k, or none.
OperaSearch(t, k) == {Search(t, k)} \ {nil}

\* ntyRBTreeInterfaceSearch: the value kept under key k, or none.
InterfaceSearch(t, k) == {t.value[x] : x \in OperaSearch(t, k)}

OperaUpdate ==
  \E p \in Pairs :
    /\ pc = "idle"
    /\ Search(T, p[1]) # nil
    /\ T' = [T EXCEPT !.value[Search(T, p[1])] = p[2]]
    /\ UNCHANGED <<alive, count, pc, cur, doomed>>

Init ==
  /\ T = [root |-> nil, key |-> [x \in Blocks |-> 0], value |-> [x \in Blocks |-> 0],
          child |-> [p \in Blocks \X Sides |-> unset], parent |-> [x \in Blocks |-> unset],
          color |-> [x \in Blocks |-> BLACK]]
  /\ alive = {} /\ count = 0
  /\ pc = "idle" /\ cur = nil /\ doomed = nil

Next ==
  \/ OperaInsert \/ InsertRecolour \/ InsertRotate \/ InsertDone
  \/ OperaDelete \/ DeleteFixup \/ Release
  \/ OperaUpdate

Spec == Init /\ [][Next]_vars

-----------------------------------------------------------------------------
(* Reading the whole tree. *)

\* The node x with the lists of its subtrees, in one of the three orders.
Placed(order, x, l, r) ==
  CASE order = "pre" -> <<x>> \o l \o r
    [] order = "in" -> l \o <<x>> \o r
    [] order = "post" -> l \o r \o <<x>>

Walk(order) ==
  LET walk[x \in alive \cup {nil}] ==
        IF x = nil THEN <<>>
        ELSE Placed(order, x, walk[Child(T, x, "left")], walk[Child(T, x, "right")])
  IN  walk[T.root]

\* ntyInOrderTraversal and ntyInOrderTraversalNotify: from left to right.
InOrder == Walk("in")

\* ntyRBTreeOperaMass hands every id to a handler that sends it the same data.
Mass == [i \in 1..Len(InOrder) |-> T.key[InOrder[i]]]

\* ntyFriendsTreeGetAllNodeList: the ids in the order they are written.
PreOrderList == LET nodes == Walk("pre") IN [i \in 1..Len(nodes) |-> T.key[nodes[i]]]

\* ntyPosOrderRelease, as ntyRBTreeOperaDtor runs it: the blocks in the order
\* they are freed, each after its pointers have been read for the last time.
PosOrderRelease == Walk("post")

\* The nodes below those of a level, and of each level.
Beneath(level) == {Child(T, x, side) : x \in level, side \in Sides} \ {nil}

Level[i \in Nat] == IF i = 0 THEN {T.root} \ {nil} ELSE Beneath(Level[i - 1])

\* ntyLevelOrderTraversal: level after level, until one is empty.
LevelOrder ==
  LET from[i \in Nat] == IF Level[i] = {} THEN <<>> ELSE <<Level[i]>> \o from[i + 1]
  IN  from[0]

IsEmpty == T.root = nil

\* The blocks that hang in the tree.
Live == alive \ {doomed}

\* x and the nodes below it.
Below ==
  LET below[x \in alive \cup {nil}] ==
        IF x = nil THEN {}
        ELSE {x} \cup below[Child(T, x, "left")] \cup below[Child(T, x, "right")]
  IN  below

\* How many nodes stand above cur; those of a sentinel stand above the parent it
\* has borrowed.
Depth == IF cur = T.root THEN 0 ELSE Cardinality({x \in Live : Parent(T, cur) \in Below[x]})

\* The link on which cur hangs while a deletion is put right: it counts for one
\* black node more.
Extra(x, side) ==
  IF pc = "deleteFixup" /\ x = Parent(T, cur) /\ side = SideOf(T, cur) THEN 1 ELSE 0

\* The black nodes on every path down from each node; negative where paths differ.
Height ==
  LET height[x \in alive \cup {nil}] ==
        IF x = nil THEN 0
        ELSE LET l == height[Child(T, x, "left")] + Extra(x, "left")
                 r == height[Child(T, x, "right")] + Extra(x, "right")
             IN  IF l = r /\ l >= 0 THEN l + (IF Red(T, x) THEN 0 ELSE 1) ELSE -9
  IN  height

BlackHeight == Height[T.root]

-----------------------------------------------------------------------------
(* Correctness. *)

\* Between any two steps of any operation the pointers are those of one tree:
\* every child points back to its parent, every allocated node but the one that
\* is about to be released hangs in the tree, and the sentinel is black.
WellLinked ==
  /\ Below[T.root] = Live
  /\ \A x \in Live, side \in Sides :
       Child(T, x, side) # nil => Parent(T, Child(T, x, side)) = x
  /\ T.root # nil => Parent(T, T.root) = nil
  /\ ~Red(T, nil)

\* Every key is greater than those below it on the left and smaller than those on
\* the right, also in the middle of a fixup.
SearchOrder ==
  \A x \in Live :
    /\ \A y \in Below[Child(T, x, "left")] : T.key[y] < T.key[x]
    /\ \A y \in Below[Child(T, x, "right")] : T.key[x] < T.key[y]

\* The tree stays balanced: a red node has a black parent, but for the one the
\* insertion works on, and every path has the same number of black nodes, the
\* node the deletion works on counting for one more.
RedBlack ==
  /\ \A x \in Live :
       Red(T, x) => \/ x = cur /\ pc \in {"insertFixup", "deleteFixup"}
                    \/ /\ x # T.root
                       /\ ~Red(T, Parent(T, x)) \/ (Parent(T, x) = cur /\ pc = "deleteFixup")
  /\ BlackHeight >= 0

\* Both loops climb: each iteration moves the node it works on nearer to the
\* root or ends the loop, so both end.
FixupClimbs ==
  [][pc # "idle" /\ pc' = pc =>
       \/ Depth' < Depth
       \/ pc = "deleteFixup" /\ Red(T', cur')]_vars

\* Every reading of the whole tree meets each node once, in the order of the keys
\* or after its children, and no other block:
\* ntyFriendsTreeGetAllNodeList allocates count ids and lets the traversal fill
\* them, the destructor frees what the traversal meets (no block twice, none
\* forgotten, no child after its parent), and data sent to all friends goes to
\* each of them once.
ListFits ==
  pc = "idle" =>
    /\ IsEmpty <=> count = 0
    /\ \A list \in {PreOrderList, Mass, PosOrderRelease} :
         Len(list) = count /\ Cardinality({list[i] : i \in 1..Len(list)}) = count
    /\ \A i \in 2..count : Mass[i - 1] < Mass[i]
    /\ {PosOrderRelease[i] : i \in 1..count} = alive
    /\ UNION {LevelOrder[i] : i \in 1..Len(LevelOrder)} = alive
    /\ \A i, j \in 1..count :
         PosOrderRelease[j] = Parent(T, PosOrderRelease[i]) => i < j
    /\ Len(LevelOrder) <= 2 * BlackHeight

\* What the interface's search finds, at every step, is a map that only the operations
\* change: a fixup moves nothing out of its reach.
Found ==
  [k \in {k \in Keys : InterfaceSearch(T, k) # {}} |->
     CHOOSE value \in InterfaceSearch(T, k) : TRUE]

Map == INSTANCE FriendsMap WITH map <- Found

ImplementsMap == Map!Spec
=============================================================================
