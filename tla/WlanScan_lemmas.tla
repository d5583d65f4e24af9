-------------------------- MODULE WlanScan_lemmas --------------------------
(***************************************************************************)
(* What ntyWifiScanCallback's loops compute, for scans of every length.     *)
(*                                                                         *)
(* Induction over the places of a scan is by the smallest counterexample;   *)
(* a property that a loop keeps is the set of the scans that have it.       *)
(***************************************************************************)
EXTENDS WlanScan, FiniteSetTheorems, WellFoundedInduction, SequenceTheorems, TLAPS

-----------------------------------------------------------------------------
(* Induction. *)

\* A set of natural numbers has a least one.
LEMMA LeastNatural ==
  ASSUME NEW S \in SUBSET Nat, S # {}
  PROVE  \E j \in S : \A k \in S : j <= k
<1> DEFINE Smaller == OpToRel(<, Nat)
<1>1. \A x, y \in Nat : x < y => <<x, y>> \in Smaller
  BY DEF OpToRel
<1>2. IsWellFoundedOn(Smaller, Nat)
  BY NatLessThanWellFounded
<1> HIDE DEF Smaller
<1>3. PICK j \in S : \A k \in S : ~(<<k, j>> \in Smaller)
  BY <1>2, WFMin
<1>4. ASSUME NEW k \in S, ~(j <= k)  PROVE FALSE
  <2>1. j \in Nat /\ k \in Nat
    OBVIOUS
  <2>2. k < j
    BY <1>4, <2>1
  <2>3. <<k, j>> \in Smaller
    BY <1>1, <2>1, <2>2
  <2> QED  BY <1>3, <2>3
<1> QED  BY <1>4

\* What holds at 0 and carries on to each next number up to n holds up to n.
LEMMA Upwards ==
  ASSUME NEW n \in Nat, NEW V, 0 \in V, \A k \in 1..n : k - 1 \in V => k \in V
  PROVE  0..n \subseteq V
<1> SUFFICES ASSUME NEW k \in 0..n, k \notin V  PROVE FALSE
  OBVIOUS
<1> DEFINE rest == {i \in 0..n : i \notin V}
<1>1. rest \in SUBSET Nat /\ rest # {}
  OBVIOUS
<1>2. PICK m \in rest : \A i \in rest : m <= i
  <2> HIDE DEF rest
  <2> QED  BY <1>1, LeastNatural
<1>3. m # 0 /\ m \in 1..n /\ m - 1 \notin rest
  BY <1>2
<1> QED  BY <1>2, <1>3

\* f is what a loop of n steps F leaves from a on.
Loop(n, Y, a, F, f) ==
  /\ f \in [0..n -> Y]
  /\ f[0] = a /\ \A k \in 1..n : f[k] = F[<<k, f[k - 1]>>]

\* A loop can take all its steps.
LEMMA Repeated ==
  ASSUME NEW n \in Nat, NEW Y, NEW a \in Y, NEW F \in [(1..n) \X Y -> Y]
  PROVE  \E f : Loop(n, Y, a, F, f)
<1> DEFINE Done(m, f) == f[0] = a /\ \A k \in 1..m : f[k] = F[<<k, f[k - 1]>>]
           V == {m \in 0..n : \E f \in [0..n -> Y] : Done(m, f)}
<1>1. 0 \in V
  <2> DEFINE f == [k \in 0..n |-> a]
  <2>1. f \in [0..n -> Y] /\ Done(0, f)
    OBVIOUS
  <2> HIDE DEF f
  <2> QED  BY <2>1
<1>2. ASSUME NEW m \in 1..n, m - 1 \in V  PROVE m \in V
  <2>1. PICK f \in [0..n -> Y] : Done(m - 1, f)
    BY <1>2
  <2> DEFINE y == F[<<m, f[m - 1]>>]
             h == [f EXCEPT ![m] = y]
  <2>2. m - 1 \in 0..n /\ f[m - 1] \in Y
    OBVIOUS
  <2>3. y \in Y
    BY <2>2
  <2> HIDE DEF y
  <2>4. h \in [0..n -> Y] /\ h[m] = y /\ \A k \in 0..n : k # m => h[k] = f[k]
    BY <2>3
  <2> HIDE DEF h
  <2>5. Done(m, h)
    <3>1. h[0] = a
      BY <2>1, <2>4
    <3>2. ASSUME NEW k \in 1..m, k # m  PROVE h[k] = F[<<k, h[k - 1]>>]
      BY <2>1, <2>4, <3>2
    <3>3. h[m] = F[<<m, h[m - 1]>>]
      BY <2>4 DEF y
    <3> QED  BY <3>1, <3>2, <3>3
  <2> QED  BY <2>4, <2>5
<1>3. n \in V
  <2> HIDE DEF V
  <2> QED  BY <1>1, <1>2, Upwards
<1> QED  BY <1>3 DEF Loop

-----------------------------------------------------------------------------
(* Scans. *)

\* The scans of n access points of any signal.
ScansOf(Macs, n) == [1..n -> AccessPoint(Macs, Int)]

LEMMA ScanLength ==
  ASSUME NEW Macs, NEW n \in Nat, NEW aps \in ScansOf(Macs, n)
  PROVE  Len(aps) = n /\ DOMAIN aps = 1..n /\ aps \in Seq(AccessPoint(Macs, Int))
BY DEF ScansOf

\* Comparing two places marks the second, exchanges the two, or does nothing.
LEMMA VisitResult ==
  ASSUME NEW Macs, NEW n \in Nat, NEW aps \in ScansOf(Macs, n),
         NEW i \in 1..n, NEW j \in 1..n, i # j
  PROVE  /\ Visit(aps, i, j) \in ScansOf(Macs, n)
         /\ \A k \in (1..n) \ {i, j} : Visit(aps, i, j)[k] = aps[k]
         /\ \/ /\ aps[i].mac = aps[j].mac \/ ~aps[j].named
               /\ Visit(aps, i, j)[i] = aps[i]
               /\ Visit(aps, i, j)[j].rssi = Marked
            \/ /\ aps[i].mac # aps[j].mac /\ aps[j].named
               /\ aps[i].rssi < aps[j].rssi
               /\ Visit(aps, i, j)[i] = aps[j] /\ Visit(aps, i, j)[j] = aps[i]
            \/ /\ aps[i].mac # aps[j].mac /\ aps[j].named
               /\ aps[i].rssi >= aps[j].rssi
               /\ Visit(aps, i, j) = aps
<1>1. aps[i] \in AccessPoint(Macs, Int) /\ aps[j] \in AccessPoint(Macs, Int)
  BY DEF ScansOf
<1>2. CASE aps[i].mac = aps[j].mac \/ ~aps[j].named
  <2> DEFINE ap == [aps[j] EXCEPT !.rssi = Marked]
  <2>1. Visit(aps, i, j) = [aps EXCEPT ![j] = ap]
    BY <1>2 DEF Visit
  <2>2. ap \in AccessPoint(Macs, Int) /\ ap.rssi = Marked
    BY <1>1 DEF AccessPoint, Marked
  <2> HIDE DEF ap
  <2> QED  BY <1>2, <2>1, <2>2 DEF ScansOf
<1>3. CASE aps[i].mac # aps[j].mac /\ aps[j].named /\ aps[i].rssi < aps[j].rssi
  <2>1. Visit(aps, i, j) = [aps EXCEPT ![i] = aps[j], ![j] = aps[i]]
    BY <1>3 DEF Visit
  <2> QED  BY <1>1, <1>3, <2>1 DEF ScansOf
<1>4. CASE aps[i].mac # aps[j].mac /\ aps[j].named /\ ~(aps[i].rssi < aps[j].rssi)
  <2>1. Visit(aps, i, j) = aps
    BY <1>4 DEF Visit
  <2>2. aps[i].rssi \in Int /\ aps[j].rssi \in Int
    BY <1>1 DEF AccessPoint
  <2> QED  BY <1>4, <2>1, <2>2
<1>5. aps[j].named \in BOOLEAN
  BY <1>1 DEF AccessPoint
<1> QED  BY <1>2, <1>3, <1>4, <1>5

-----------------------------------------------------------------------------
(* The loops, one step after the other. *)

\* g is what the inner loop leaves place after place, scans of Y; the last one is
\* its result.
PassLoop(n, Y, aps, i, g) ==
  /\ g \in [0..n -> Y]
  /\ \A j \in 0..i : g[j] = aps
  /\ \A j \in 1..n : i < j => g[j] = Visit(g[j - 1], i, j)
  /\ Pass(aps, i) = g[n]

\* The inner loop stays in any set Y of scans that a comparison does not leave.
LEMMA PassSteps ==
  ASSUME NEW Macs, NEW n \in Nat, NEW Y \in SUBSET ScansOf(Macs, n), NEW aps \in Y,
         NEW i \in 1..n,
         \A s \in Y : \A j \in 1..n : i < j => Visit(s, i, j) \in Y
  PROVE  \E g : PassLoop(n, Y, aps, i, g)
<1> DEFINE body(f) == [j \in 0..n |-> IF j <= i THEN aps ELSE Visit(f[j - 1], i, j)]
           g == CHOOSE f : f = body(f)
<1>1. Len(aps) = n
  BY ScanLength
<1>2. Pass(aps, i) = g[n]
  BY <1>1 DEF Pass
<1> DEFINE F == [p \in (1..n) \X Y |-> IF p[1] <= i THEN aps ELSE Visit(p[2], i, p[1])]
<1>3. F \in [(1..n) \X Y -> Y]
  OBVIOUS
<1>4. PICK f : Loop(n, Y, aps, F, f)
  <2> HIDE DEF F
  <2> QED  BY <1>3, Repeated
<1>5. f = body(f)
  <2>1. ASSUME NEW j \in 0..n, j # 0
        PROVE  f[j] = IF j <= i THEN aps ELSE Visit(f[j - 1], i, j)
    <3>1. j \in 1..n /\ f[j - 1] \in Y
      BY <1>4, <2>1 DEF Loop
    <3> QED  BY <1>4, <3>1 DEF Loop
  <2>2. f[0] = body(f)[0]
    BY <1>4 DEF Loop
  <2>3. \A j \in 0..n : f[j] = body(f)[j]
    BY <2>1, <2>2
  <2> QED  BY <1>4, <2>3 DEF Loop
<1>6. g = body(g)
  <2> HIDE DEF body
  <2> QED  BY <1>5
<1> HIDE DEF g
<1>7. \A j \in 0..i : g[j] = aps
  BY <1>6
<1>8. \A j \in 1..n : i < j => g[j] = Visit(g[j - 1], i, j)
  BY <1>6
<1> DEFINE V == {j \in 0..n : g[j] \in Y}
<1>9. 0..n \subseteq V
  <2>1. 0 \in V
    BY <1>7
  <2>2. ASSUME NEW j \in 1..n, j - 1 \in V  PROVE j \in V
    BY <1>7, <1>8, <2>2
  <2> HIDE DEF V
  <2> QED  BY <2>1, <2>2, Upwards
<1>10. g \in [0..n -> Y]
  <2>1. DOMAIN g = 0..n /\ g = [j \in 0..n |-> g[j]]
    BY <1>6
  <2> QED  BY <1>9, <2>1
<1> QED  BY <1>2, <1>7, <1>8, <1>10 DEF PassLoop

\* What a comparison keeps the inner loop keeps.
LEMMA PassKeeps ==
  ASSUME NEW Macs, NEW n \in Nat, NEW Y \in SUBSET ScansOf(Macs, n), NEW aps \in Y,
         NEW i \in 1..n,
         \A s \in Y : \A j \in 1..n : i < j => Visit(s, i, j) \in Y
  PROVE  Pass(aps, i) \in Y
<1>1. PICK g : PassLoop(n, Y, aps, i, g)
  BY PassSteps
<1> QED  BY <1>1 DEF PassLoop

\* The outer loop likewise, whose step is the inner loop.
OrderLoop(n, Y, aps, g) ==
  /\ g \in [0..n -> Y]
  /\ g[0] = aps
  /\ \A i \in 1..n : g[i] = Pass(g[i - 1], i)
  /\ Order(aps) = g[n]

LEMMA OrderSteps ==
  ASSUME NEW Macs, NEW n \in Nat, NEW Y \in SUBSET ScansOf(Macs, n), NEW aps \in Y,
         \A s \in Y : \A i, j \in 1..n : i < j => Visit(s, i, j) \in Y
  PROVE  \E g : OrderLoop(n, Y, aps, g)
<1> DEFINE body(f) == [i \in 0..n |-> IF i = 0 THEN aps ELSE Pass(f[i - 1], i)]
           g == CHOOSE f : f = body(f)
<1>1. Len(aps) = n
  BY ScanLength
<1>2. Order(aps) = g[n]
  BY <1>1 DEF Order
<1> DEFINE F == [p \in (1..n) \X Y |-> Pass(p[2], p[1])]
<1>3. F \in [(1..n) \X Y -> Y]
  <2>1. \A i \in 1..n : \A s \in Y : Pass(s, i) \in Y
    BY PassKeeps
  <2> QED  BY <2>1
<1>4. PICK f : Loop(n, Y, aps, F, f)
  <2> HIDE DEF F
  <2> QED  BY <1>3, Repeated
<1>5. f = body(f)
  <2>1. ASSUME NEW i \in 0..n, i # 0  PROVE f[i] = Pass(f[i - 1], i)
    <3>1. i \in 1..n /\ f[i - 1] \in Y
      BY <1>4, <2>1 DEF Loop
    <3> QED  BY <1>4, <3>1 DEF Loop
  <2>2. \A i \in 0..n : f[i] = body(f)[i]
    BY <1>4, <2>1 DEF Loop
  <2> QED  BY <1>4, <2>2 DEF Loop
<1>6. g = body(g)
  <2> HIDE DEF body
  <2> QED  BY <1>5
<1> HIDE DEF g
<1>7. g[0] = aps /\ \A i \in 1..n : g[i] = Pass(g[i - 1], i)
  BY <1>6
<1> DEFINE V == {i \in 0..n : g[i] \in Y}
<1>8. 0..n \subseteq V
  <2>1. 0 \in V
    BY <1>7
  <2>2. ASSUME NEW i \in 1..n, i - 1 \in V  PROVE i \in V
    BY <1>7, <2>2, PassKeeps
  <2> HIDE DEF V
  <2> QED  BY <2>1, <2>2, Upwards
<1>9. g \in [0..n -> Y]
  <2>1. DOMAIN g = 0..n /\ g = [i \in 0..n |-> g[i]]
    BY <1>6
  <2> QED  BY <1>8, <2>1
<1> QED  BY <1>2, <1>7, <1>9 DEF OrderLoop

LEMMA OrderKeeps ==
  ASSUME NEW Macs, NEW n \in Nat, NEW Y \in SUBSET ScansOf(Macs, n), NEW aps \in Y,
         \A s \in Y : \A i, j \in 1..n : i < j => Visit(s, i, j) \in Y
  PROVE  Order(aps) \in Y
<1>1. PICK g : OrderLoop(n, Y, aps, g)
  BY OrderSteps
<1> QED  BY <1>1 DEF OrderLoop

LEMMA OrderIsScan ==
  ASSUME NEW Macs, NEW n \in Nat, NEW aps \in ScansOf(Macs, n)
  PROVE  Order(aps) \in ScansOf(Macs, n)
<1>1. \A s \in ScansOf(Macs, n) : \A i, j \in 1..n :
        i < j => Visit(s, i, j) \in ScansOf(Macs, n)
  BY VisitResult
<1> QED  BY <1>1, OrderKeeps

-----------------------------------------------------------------------------
(* The loops sort. *)

\* The scans without a signal weaker than the mark.
Audible(Macs, n) == {s \in ScansOf(Macs, n) : \A k \in 1..n : s[k].rssi >= Marked}

LEMMA Signal ==
  ASSUME NEW Macs, NEW n, NEW s \in ScansOf(Macs, n), NEW k \in 1..n
  PROVE  s[k].rssi \in Int
BY DEF ScansOf, AccessPoint

LEMMA VisitAudible ==
  ASSUME NEW Macs, NEW n \in Nat, NEW s \in Audible(Macs, n), NEW i \in 1..n, NEW j \in 1..n,
         i < j
  PROVE  Visit(s, i, j) \in Audible(Macs, n)
<1> DEFINE v == Visit(s, i, j)
<1>1. s \in ScansOf(Macs, n) /\ Marked \in Int
  BY DEF Audible, Marked
<1>2. v \in ScansOf(Macs, n)
  BY <1>1, VisitResult
<1>3. \A k \in 1..n : v[k].rssi >= Marked
  <2> TAKE k \in 1..n
  <2>1. CASE k \notin {i, j}
    <3>1. v[k] = s[k]
      BY <1>1, <2>1, VisitResult
    <3> HIDE DEF v
    <3> QED  BY <1>1, <3>1 DEF Audible
  <2>2. CASE k \in {i, j}
    <3>1. v[k] \in {s[i], s[j]} \/ v[k].rssi = Marked
      BY <1>1, <2>2, VisitResult
    <3> HIDE DEF v
    <3> QED  BY <1>1, <3>1 DEF Audible
  <2> QED  BY <2>1, <2>2
<1> QED  BY <1>2, <1>3 DEF Audible

\* The signals from place i on are at most b.
AtMost(s, n, i, b) == \A k \in i..n : s[k].rssi <= b

\* The inner loop leaves the places before i alone, brings the strongest of the
\* others to place i, and makes none of them stronger than they were.
LEMMA PassSorts ==
  ASSUME NEW Macs, NEW n \in Nat, NEW aps \in Audible(Macs, n), NEW i \in 1..n
  PROVE  LET u == Pass(aps, i)
         IN  /\ u \in Audible(Macs, n)
             /\ \A k \in 1..(i - 1) : u[k] = aps[k]
             /\ AtMost(u, n, i, u[i].rssi)
             /\ \A b \in Int : b >= Marked /\ AtMost(aps, n, i, b) => AtMost(u, n, i, b)
<1> DEFINE Y == Audible(Macs, n)
<1>1. /\ Y \in SUBSET ScansOf(Macs, n) /\ aps \in Y
      /\ \A s \in Y : \A j \in 1..n : i < j => Visit(s, i, j) \in Y
  BY VisitAudible DEF Audible
<1>2. PICK g \in [0..n -> Y] :
        /\ \A j \in 0..i : g[j] = aps
        /\ \A j \in 1..n : i < j => g[j] = Visit(g[j - 1], i, j)
        /\ Pass(aps, i) = g[n]
  <2> HIDE DEF Y
  <2>1. PICK g : PassLoop(n, Y, aps, i, g)
    BY <1>1, PassSteps
  <2> QED  BY <2>1 DEF PassLoop
<1> DEFINE Sorts(j) ==
             /\ \A k \in 1..(i - 1) : g[j][k] = aps[k]
             /\ \A k \in i..n : k <= j => g[j][k].rssi <= g[j][i].rssi
             /\ \A b \in Int : b >= Marked /\ AtMost(aps, n, i, b) => AtMost(g[j], n, i, b)
           V == {j \in 0..n : Sorts(j)}
<1>3. \A j \in 0..i : Sorts(j)
  <2> TAKE j \in 0..i
  <2>1. g[j] = aps /\ aps[i].rssi \in Int
    BY <1>1, <1>2, Signal
  <2>2. \A k \in i..n : k <= j => k = i
    OBVIOUS
  <2> QED  BY <2>1, <2>2
<1>4. ASSUME NEW j \in 1..n, j - 1 \in V, i < j  PROVE Sorts(j)
  <2> DEFINE s == g[j - 1]
             v == Visit(s, i, j)
  <2>1. s \in Y /\ g[j] = v
    BY <1>2, <1>4
  <2>2. s \in ScansOf(Macs, n) /\ v \in ScansOf(Macs, n) /\ s \in Audible(Macs, n)
    BY <1>1, <2>1, <1>4
  <2>3. /\ \A k \in (1..n) \ {i, j} : v[k] = s[k]
        /\ \/ v[i] = s[i] /\ v[j].rssi = Marked
           \/ s[i].rssi < s[j].rssi /\ v[i] = s[j] /\ v[j] = s[i]
           \/ s[i].rssi >= s[j].rssi /\ v = s
    BY <1>4, <2>2, VisitResult
  <2>4. \A k \in 1..n : s[k].rssi \in Int /\ s[k].rssi >= Marked /\ v[k].rssi \in Int
    BY <2>2, Signal DEF Audible
  <2>5. Sorts(j - 1)
    BY <1>4
  <2>6. /\ \A k \in 1..(i - 1) : s[k] = aps[k]
        /\ \A k \in i..n : k <= j - 1 => s[k].rssi <= s[i].rssi
        /\ \A b \in Int : b >= Marked /\ AtMost(aps, n, i, b) => AtMost(s, n, i, b)
    BY <2>5
  <2> HIDE DEF s, v, V, Sorts
  <2>7. Marked \in Int
    BY DEF Marked
  <2>8. \A k \in 1..(i - 1) : v[k] = aps[k]
    BY <1>4, <2>3, <2>6
  <2>9. \A k \in i..n : k <= j => v[k].rssi <= v[i].rssi
    <3> TAKE k \in i..n
    <3>1. CASE k = j
      BY <1>4, <2>3, <2>4, <2>7, <3>1
    <3>2. CASE k = i
      BY <2>4, <3>2
    <3>3. CASE k < j /\ k # i
      <4>1. v[k] = s[k] /\ s[k].rssi <= s[i].rssi
        BY <1>4, <2>3, <2>6, <3>3
      <4>2. s[i].rssi <= v[i].rssi
        BY <2>3, <2>4
      <4> QED  BY <2>4, <4>1, <4>2
    <3> QED  BY <3>1, <3>2, <3>3
  <2>10. ASSUME NEW b \in Int, b >= Marked, AtMost(aps, n, i, b)
         PROVE  AtMost(v, n, i, b)
    <3>1. \A k \in i..n : s[k].rssi <= b
      BY <2>6, <2>10 DEF AtMost
    <3>2. ASSUME NEW k \in i..n  PROVE v[k].rssi <= b
      <4>1. i \in i..n /\ j \in i..n /\ k \in 1..n
        BY <1>4
      <4>2. v[k].rssi = Marked \/ v[k].rssi \in {s[k].rssi, s[i].rssi, s[j].rssi}
        BY <2>3, <4>1
      <4> QED  BY <2>10, <3>1, <4>1, <4>2
    <3> QED  BY <3>2 DEF AtMost
  <2> QED  BY <2>1, <2>8, <2>9, <2>10 DEF Sorts
<1>5. 0..n \subseteq V
  <2>1. 0 \in V
    BY <1>3
  <2>2. ASSUME NEW j \in 1..n, j - 1 \in V  PROVE j \in V
    BY <1>3, <1>4, <2>2
  <2> HIDE DEF V
  <2> QED  BY <2>1, <2>2, Upwards
<1>6. Sorts(n) /\ g[n] \in Y
  BY <1>5
<1> QED  BY <1>2, <1>6 DEF AtMost

\* After both loops no place has a weaker signal than a later one.
LEMMA OrderSorts ==
  ASSUME NEW Macs, NEW n \in Nat, NEW aps \in Audible(Macs, n)
  PROVE  \A p \in 1..n : AtMost(Order(aps), n, p, Order(aps)[p].rssi)
<1> DEFINE Y == Audible(Macs, n)
<1>1. /\ Y \in SUBSET ScansOf(Macs, n) /\ aps \in Y
      /\ \A s \in Y : \A i, j \in 1..n : i < j => Visit(s, i, j) \in Y
  BY VisitAudible DEF Audible
<1>2. PICK g \in [0..n -> Y] :
        /\ g[0] = aps
        /\ \A i \in 1..n : g[i] = Pass(g[i - 1], i)
        /\ Order(aps) = g[n]
  <2> HIDE DEF Y
  <2>1. PICK g : OrderLoop(n, Y, aps, g)
    BY <1>1, OrderSteps
  <2> QED  BY <2>1 DEF OrderLoop
<1> DEFINE Sorted(i) == \A p \in 1..i : AtMost(g[i], n, p, g[i][p].rssi)
           V == {i \in 0..n : Sorted(i)}
<1>3. 0 \in V
  OBVIOUS
<1>4. ASSUME NEW i \in 1..n, i - 1 \in V  PROVE i \in V
  <2> DEFINE s == g[i - 1]
             u == g[i]
  <2>1. s \in Audible(Macs, n) /\ u = Pass(s, i)
    BY <1>2
  <2>2. /\ \A k \in 1..(i - 1) : u[k] = s[k]
        /\ AtMost(u, n, i, u[i].rssi)
        /\ \A b \in Int : b >= Marked /\ AtMost(s, n, i, b) => AtMost(u, n, i, b)
    <3> HIDE DEF s, u
    <3> QED  BY <2>1, PassSorts
  <2>3. \A p \in 1..(i - 1) : AtMost(s, n, p, s[p].rssi)
    BY <1>4
  <2>4. \A k \in 1..n : s[k].rssi \in Int /\ s[k].rssi >= Marked
    BY <2>1, Signal DEF Audible
  <2> HIDE DEF s, u
  <2>5. ASSUME NEW p \in 1..i  PROVE AtMost(u, n, p, u[p].rssi)
    <3>1. CASE p = i
      BY <2>2, <3>1
    <3>2. CASE p # i
      <4>1. p \in 1..(i - 1) /\ u[p] = s[p] /\ s[p].rssi \in Int /\ s[p].rssi >= Marked
        BY <2>2, <2>4, <3>2
      <4>2. \A k \in p..n : s[k].rssi <= s[p].rssi
        BY <2>3, <4>1 DEF AtMost
      <4>3. AtMost(s, n, i, s[p].rssi)
        BY <4>1, <4>2 DEF AtMost
      <4>4. AtMost(u, n, i, s[p].rssi)
        BY <2>2, <4>1, <4>3
      <4>5. \A k \in p..n : k \in i..n \/ k \in 1..(i - 1)
        OBVIOUS
      <4> QED  BY <2>2, <4>1, <4>2, <4>4, <4>5 DEF AtMost
    <3> QED  BY <3>1, <3>2
  <2> QED  BY <2>5 DEF u
<1>5. 0..n \subseteq V
  <2> HIDE DEF V
  <2> QED  BY <1>3, <1>4, Upwards
<1> QED  BY <1>2, <1>5

-----------------------------------------------------------------------------
(* The loops lose nobody. *)

\* Each access point was heard once and has a name.
Apart(s, n) == \A i, j \in 1..n : s[i].named /\ (i # j => s[i].mac # s[j].mac)

\* The scans of the access points P that were heard once each.
Arrangements(Macs, n, P) == {s \in ScansOf(Macs, n) : Apart(s, n) /\ {s[k] : k \in 1..n} = P}

LEMMA VisitArranges ==
  ASSUME NEW Macs, NEW n \in Nat, NEW P, NEW s \in Arrangements(Macs, n, P),
         NEW i \in 1..n, NEW j \in 1..n, i < j
  PROVE  Visit(s, i, j) \in Arrangements(Macs, n, P)
<1> DEFINE v == Visit(s, i, j)
<1>1. s \in ScansOf(Macs, n) /\ Apart(s, n) /\ {s[k] : k \in 1..n} = P
  BY DEF Arrangements
<1>2. v \in ScansOf(Macs, n) /\ \A k \in (1..n) \ {i, j} : v[k] = s[k]
  BY <1>1, VisitResult
<1>3. s[i].mac # s[j].mac /\ s[j].named
  BY <1>1 DEF Apart
<1>4. v = s \/ (v[i] = s[j] /\ v[j] = s[i])
  BY <1>1, <1>3, VisitResult
<1> HIDE DEF v
<1>5. CASE v = s
  BY <1>5 DEF v
<1>6. CASE v[i] = s[j] /\ v[j] = s[i]
  <2> DEFINE at == [k \in 1..n |-> IF k = i THEN j ELSE IF k = j THEN i ELSE k]
  <2>1. \A k \in 1..n : at[k] \in 1..n /\ v[k] = s[at[k]] /\ s[k] = v[at[k]]
    BY <1>2, <1>6
  <2>2. \A k, m \in 1..n : k # m => at[k] # at[m]
    OBVIOUS
  <2> HIDE DEF at
  <2>3. Apart(v, n)
    BY <1>1, <2>1, <2>2 DEF Apart
  <2>4. {v[k] : k \in 1..n} = P
    BY <1>1, <2>1
  <2> QED  BY <1>2, <2>3, <2>4 DEF Arrangements, v
<1> QED  BY <1>4, <1>5, <1>6

LEMMA OrderArranges ==
  ASSUME NEW Macs, NEW n \in Nat, NEW P, NEW aps \in Arrangements(Macs, n, P)
  PROVE  Order(aps) \in Arrangements(Macs, n, P)
<1>1. Arrangements(Macs, n, P) \in SUBSET ScansOf(Macs, n)
  BY DEF Arrangements
<1>2. \A s \in Arrangements(Macs, n, P) : \A i, j \in 1..n :
        i < j => Visit(s, i, j) \in Arrangements(Macs, n, P)
  BY VisitArranges
<1> QED  BY <1>1, <1>2, OrderKeeps

-----------------------------------------------------------------------------
(* The list. *)

\* The usable places from i on.
From(s, i) == {j \in i..Len(s) : Usable(s[j])}

\* The list has m entries, one for each place up to the last usable one that the
\* list has room for: the first usable access point from there on.
TakenFrom(s, list, m) ==
  /\ m \in Nat
  /\ \A i \in Nat \ {0} : i <= m <=> i <= WIFI_SCAN_NUMBER /\ i <= Len(s) /\ From(s, i) # {}
  /\ list = [i \in 1..m |-> list[i]]
  /\ \A i \in 1..m : \E j \in From(s, i) : list[i] = s[j] /\ \A k \in From(s, i) : j <= k

LEMMA TakenIsList ==
  ASSUME NEW s, Len(s) \in Nat
  PROVE  \E m : TakenFrom(s, Taken(s), m)
<1> DEFINE filled == {i \in 1..Len(s) : i <= WIFI_SCAN_NUMBER /\ From(s, i) # {}}
           first(i) == CHOOSE j \in From(s, i) : \A k \in From(s, i) : j <= k
           list == [i \in filled |-> s[first(i)]]
<1>1. Taken(s) = list
  BY DEF Taken, From
<1>2. WIFI_SCAN_NUMBER \in Nat
  BY ScanAssumption
<1>3. \A i, j \in Nat \ {0} : i <= j => From(s, j) \subseteq From(s, i)
  BY DEF From
<1> DEFINE out == {k \in Nat : k + 1 \notin filled}
<1>4. PICK m \in out : \A k \in out : m <= k
  <2>1. Len(s) \in out
    OBVIOUS
  <2> HIDE DEF out
  <2>2. out \in SUBSET Nat
    BY DEF out
  <2> QED  BY <2>1, <2>2, LeastNatural
<1>5. filled = 1..m
  <2>1. m \in Nat /\ m + 1 \notin filled
    BY <1>4
  <2>2. ASSUME NEW i \in 1..m  PROVE i \in filled
    <3>1. i - 1 \in Nat /\ ~(m <= i - 1)
      BY <2>1
    <3>2. i - 1 \notin out
      BY <1>4, <3>1
    <3>3. (i - 1) + 1 \in filled
      BY <3>1, <3>2
    <3> QED  BY <3>3
  <2>3. ASSUME NEW i \in filled, i \notin 1..m  PROVE FALSE
    <3>1. i \in Nat \ {0} /\ m + 1 <= i /\ m + 1 \in Nat \ {0}
      BY <2>1, <2>3
    <3>2. From(s, i) \subseteq From(s, m + 1)
      BY <1>3, <3>1
    <3>3. m + 1 \in filled
      BY <1>2, <2>3, <3>1, <3>2
    <3> QED  BY <2>1, <3>3
  <2> QED  BY <2>2, <2>3
<1>6. ASSUME NEW i \in filled
      PROVE  first(i) \in From(s, i) /\ \A k \in From(s, i) : first(i) <= k
  <2>1. From(s, i) \in SUBSET Nat /\ From(s, i) # {}
    BY <1>6 DEF From
  <2>2. \E j \in From(s, i) : \A k \in From(s, i) : j <= k
    BY <2>1, LeastNatural
  <2> QED  BY <2>2
<1>7. \A i \in Nat \ {0} : i \in filled <=> i <= WIFI_SCAN_NUMBER /\ i <= Len(s) /\ From(s, i) # {}
  OBVIOUS
<1>8. m \in Nat
  BY <1>4
<1> HIDE DEF filled, out, first
<1>9. list = [i \in 1..m |-> list[i]]
  BY <1>5
<1>10. \A i \in 1..m : \E j \in From(s, i) : list[i] = s[j] /\ \A k \in From(s, i) : j <= k
  BY <1>5, <1>6
<1>11. \A i \in Nat \ {0} : i <= m <=> i \in filled
  BY <1>5, <1>8
<1> QED  BY <1>1, <1>7, <1>8, <1>9, <1>10, <1>11 DEF TakenFrom

\* A list is a sequence.
LEMMA TakenLength ==
  ASSUME NEW s, NEW list, NEW m, TakenFrom(s, list, m)
  PROVE  Len(list) = m /\ list \in Seq({list[i] : i \in 1..m})
<1>1. m \in Nat /\ list \in [1..m -> {list[i] : i \in 1..m}]
  BY DEF TakenFrom
<1> QED  BY <1>1

\* What the callback makes of a scan has a length.
LEMMA ListLength ==
  ASSUME NEW Macs, NEW aps \in Seq(AccessPoint(Macs, Int))
  PROVE  Len(WifiList(aps)) \in Nat
<1> DEFINE n == Len(aps)
<1>1. n \in Nat /\ aps \in ScansOf(Macs, n)
  BY DEF ScansOf
<1> HIDE DEF n
<1>2. Len(Order(aps)) \in Nat
  BY <1>1, OrderIsScan, ScanLength
<1>3. PICK m : TakenFrom(Order(aps), WifiList(aps), m)
  BY <1>2, TakenIsList DEF WifiList
<1> QED  BY <1>3, TakenLength DEF TakenFrom

-----------------------------------------------------------------------------
(* The status. *)

\* A list with three signals that are heard finds three of its entries in itself.
LEMMA SameWithItself ==
  ASSUME NEW list, Len(list) \in Nat
  PROVE  Status(list, list) # 5
<1> DEFINE same == Same(list, list)
           heard == {i \in 1..Len(list) : Heard(list[i])}
           twin == [i \in heard |-> <<i, i>>]
<1>0. IsFiniteSet(1..Len(list))
  BY FS_Interval
<1>1. IsFiniteSet(heard)
  <2>1. heard \subseteq 1..Len(list)
    OBVIOUS
  <2> QED  BY <1>0, <2>1, FS_Subset
<1>2. IsFiniteSet(same)
  <2>1. IsFiniteSet((1..Len(list)) \X (1..Len(list)))
    BY <1>0, FS_Product
  <2>2. same \subseteq (1..Len(list)) \X (1..Len(list))
    BY DEF Same
  <2> QED  BY <2>1, <2>2, FS_Subset
<1>3. twin \in Injection(heard, same)
  BY DEF Same, Injection, IsInjective
<1>4. Cardinality(heard) <= Cardinality(same)
  BY <1>1, <1>2, <1>3, FS_Injection
<1>5. Cardinality(heard) \in Nat /\ Cardinality(same) \in Nat
  BY <1>1, <1>2, FS_CardinalityType
<1>6. Cardinality(heard) >= 3 => Cardinality(same) >= 3
  BY <1>4, <1>5
<1> HIDE DEF same, heard
<1> QED  BY <1>6, Z3 DEF Status, same, heard
=============================================================================
