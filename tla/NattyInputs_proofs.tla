-------------------------- MODULE NattyInputs_proofs --------------------------
(***************************************************************************)
(* The scan's callback is right for scans of every length, of any access    *)
(* points and of all signals that are not weaker than the mark; the clock   *)
(* agrees with the calendar on every day, the search finds every occurrence *)
(* of every pattern in every text, every frame is read back, and the        *)
(* checksum of every message is the remainder it stands for.                *)
(***************************************************************************)
EXTENDS MCWlanScan, NattyInputs, WlanScan_lemmas

-----------------------------------------------------------------------------
(* The scans. *)

\* The invariant: the scan is one.
ScanInv == scan \in Seq(AccessPoint(Macs, Signals))

LEMMA ScanIsScan == Spec => []ScanInv
<1>1. Init => ScanInv
  BY DEF Init, ScanInv
<1>2. ScanInv /\ [Next]_scan => ScanInv'
  BY DEF ScanInv, Next, Hear, Again
<1> QED  BY <1>1, <1>2, PTL DEF Spec

\* Of its length, of access points with any signal, and none below the mark.
LEMMA ScanFacts ==
  ASSUME ScanInv
  PROVE  /\ Len(scan) \in Nat
         /\ scan \in ScansOf(Macs, Len(scan))
         /\ scan \in Audible(Macs, Len(scan))
         /\ scan \in Seq(AccessPoint(Macs, Int))
<1>1. Len(scan) \in Nat /\ scan \in [1..Len(scan) -> AccessPoint(Macs, Signals)]
  BY DEF ScanInv
<1>2. \A ap \in AccessPoint(Macs, Signals) : ap \in AccessPoint(Macs, Int) /\ ap.rssi >= Marked
  BY HeardAssumption DEF AccessPoint
<1>3. scan \in [1..Len(scan) -> AccessPoint(Macs, Int)]
  BY <1>1, <1>2
<1> QED  BY <1>1, <1>2, <1>3 DEF ScansOf, Audible

\* The loops of ntyWifiScanCallback leave the access points in the order of their
\* signals, although they change signals on the way, and so does the list.
THEOREM StrongestFirstAlways == Spec => []StrongestFirst
<1>1. ScanInv => StrongestFirst
  <2> SUFFICES ASSUME ScanInv  PROVE StrongestFirst
    OBVIOUS
  <2> DEFINE n == Len(scan)
             s == Order(scan)
             list == WifiList(scan)
  <2>1. n \in Nat /\ scan \in ScansOf(Macs, n) /\ scan \in Audible(Macs, n)
    BY ScanFacts
  <2>2. s \in ScansOf(Macs, n) /\ Len(s) = n
    <3> HIDE DEF n
    <3> QED  BY <2>1, OrderIsScan, ScanLength
  <2>3. \A p \in 1..n : \A k \in p..n : s[k].rssi <= s[p].rssi
    <3> HIDE DEF n
    <3> QED  BY <2>1, OrderSorts DEF AtMost
  <2>4. \A k \in 1..n : s[k].rssi \in Int
    <3> HIDE DEF n, s
    <3> QED  BY <2>2, Signal
  <2>5. PICK m : TakenFrom(s, list, m)
    BY <2>1, <2>2, TakenIsList DEF WifiList
  <2>6. m \in Nat /\ Len(list) = m
    BY <2>5, TakenLength DEF TakenFrom
  <2> HIDE DEF n, s, list
  <2>7. Strongest(s)
    <3>1. ASSUME NEW i \in 2..n  PROVE s[i - 1].rssi >= s[i].rssi
      <4>1. i - 1 \in 1..n /\ i \in (i - 1)..n /\ i \in 1..n
        BY <2>1
      <4> QED  BY <2>3, <2>4, <4>1
    <3> QED  BY <2>2, <3>1 DEF Strongest
  <2>8. Strongest(list)
    <3>1. ASSUME NEW i \in 2..m  PROVE list[i - 1].rssi >= list[i].rssi
      <4>1. i - 1 \in 1..m /\ i \in 1..m
        BY <2>6
      <4>2. PICK j \in From(s, i - 1) : list[i - 1] = s[j] /\ \A k \in From(s, i - 1) : j <= k
        BY <2>5, <4>1 DEF TakenFrom
      <4>3. PICK k \in From(s, i) : list[i] = s[k]
        BY <2>5, <4>1 DEF TakenFrom
      <4>4. k \in From(s, i - 1) /\ j \in 1..n /\ k \in 1..n
        BY <2>1, <2>2, <2>6 DEF From
      <4>5. k \in j..n
        BY <2>1, <4>2, <4>4
      <4> QED  BY <2>3, <2>4, <4>2, <4>3, <4>4, <4>5
    <3> QED  BY <2>6, <3>1 DEF Strongest
  <2> QED  BY <2>7, <2>8 DEF StrongestFirst, s, list
<1> QED  BY ScanIsScan, <1>1, PTL

\* Of access points that were heard once and have names, the list has the usable
\* ones and no other.
THEOREM UsableKeptAlways == Spec => []UsableKept
<1>1. ScanInv => UsableKept
  <2> SUFFICES ASSUME ScanInv, Len(scan) <= WIFI_SCAN_NUMBER,
                      \A i, j \in 1..Len(scan) :
                        scan[i].named /\ (i # j => scan[i].mac # scan[j].mac)
               PROVE  ToSet(WifiList(scan)) = {ap \in ToSet(scan) : Usable(ap)}
    BY DEF UsableKept
  <2> DEFINE n == Len(scan)
             s == Order(scan)
             list == WifiList(scan)
  <2>1. n \in Nat /\ scan \in ScansOf(Macs, n) /\ ToSet(scan) = {scan[k] : k \in 1..n}
    BY ScanFacts DEF ToSet, ScansOf
  <2>2. scan \in Arrangements(Macs, n, ToSet(scan))
    BY <2>1 DEF Arrangements, Apart
  <2>3. s \in Arrangements(Macs, n, ToSet(scan))
    <3> HIDE DEF n
    <3> QED  BY <2>1, <2>2, OrderArranges
  <2>4. s \in ScansOf(Macs, n) /\ {s[k] : k \in 1..n} = ToSet(scan)
    BY <2>3 DEF Arrangements
  <2>5. Len(s) = n
    <3> HIDE DEF n, s
    <3> QED  BY <2>1, <2>4, ScanLength
  <2>6. PICK m : TakenFrom(s, list, m)
    BY <2>1, <2>5, TakenIsList DEF WifiList
  <2>7. n <= WIFI_SCAN_NUMBER /\ WIFI_SCAN_NUMBER \in Nat
    BY ScanAssumption
  <2> HIDE DEF n, s, list
  <2>8. ToSet(list) = {list[i] : i \in 1..m}
    <3>1. DOMAIN list = 1..m
      BY <2>6 DEF TakenFrom
    <3> QED  BY <3>1 DEF ToSet
  <2>9. ASSUME NEW i \in 1..m  PROVE list[i] \in ToSet(scan) /\ Usable(list[i])
    <3>1. PICK j \in From(s, i) : list[i] = s[j]
      BY <2>6 DEF TakenFrom
    <3>2. j \in 1..n /\ Usable(s[j])
      BY <2>1, <2>5 DEF From
    <3> QED  BY <2>4, <3>1, <3>2
  <2>10. ASSUME NEW ap \in ToSet(scan), Usable(ap)  PROVE \E i \in 1..m : list[i] = ap
    <3>1. PICK k \in 1..n : s[k] = ap
      BY <2>4
    <3>2. k \in From(s, k) /\ \A j \in From(s, k) : k <= j
      BY <2>1, <2>5, <2>10, <3>1 DEF From
    <3>3. k <= WIFI_SCAN_NUMBER /\ k \in Nat \ {0} /\ k <= Len(s)
      BY <2>1, <2>5, <2>7
    <3>4. m \in Nat /\ k <= m
      BY <2>6, <3>2, <3>3 DEF TakenFrom
    <3>5. k \in 1..m
      BY <3>3, <3>4
    <3>6. PICK j \in From(s, k) : list[k] = s[j] /\ \A i \in From(s, k) : j <= i
      BY <2>6, <3>5 DEF TakenFrom
    <3>7. j = k
      BY <2>1, <3>2, <3>6 DEF From
    <3> QED  BY <3>1, <3>5, <3>6, <3>7
  <2> QED  BY <2>8, <2>9, <2>10 DEF list
<1> QED  BY ScanIsScan, <1>1, PTL

\* A watch that has not moved asks for no lookup.
THEOREM SameNotSentAlways == Spec => []SameNotSent
<1>1. ScanInv => SameNotSent
  BY ScanFacts, ListLength, SameWithItself DEF SameNotSent
<1> QED  BY ScanIsScan, <1>1, PTL

-----------------------------------------------------------------------------
(* The calendar. *)

LEMMA LeapsNumber ==
  ASSUME NEW y \in Int
  PROVE  LEAPS_THRU_END_OF(y) \in Int
BY DEF LEAPS_THRU_END_OF

\* Dividing brings two numbers nearer together.
LEMMA QuotientsNear ==
  ASSUME NEW a \in Int, NEW b \in Int, a <= b, NEW n \in {4, 25}
  PROVE  /\ a \div n \in Int /\ b \div n \in Int
         /\ a \div n <= b \div n /\ b \div n - a \div n <= b - a
         /\ n * (b \div n - a \div n) <= (b - a) + (n - 1)
<1>1. CASE n = 4
  BY <1>1
<1>2. CASE n = 25
  BY <1>2
<1> QED  BY <1>1, <1>2

\* Between two years there are no fewer than no leap years, and at most one in four.
LEMMA LeapsBetween ==
  ASSUME NEW a \in Int, NEW b \in Int, a <= b
  PROVE  /\ LEAPS_THRU_END_OF(a) <= LEAPS_THRU_END_OF(b)
         /\ 4 * (LEAPS_THRU_END_OF(b) - LEAPS_THRU_END_OF(a)) <= (b - a) + 3
<1> DEFINE fours(y) == y \div 4
           hundreds(y) == fours(y) \div 25
           rest(y) == hundreds(y) \div 4
<1>1. ASSUME NEW y \in Int
      PROVE  LEAPS_THRU_END_OF(y) = fours(y) - hundreds(y) + rest(y)
  <2>1. y \div 100 = hundreds(y) /\ y \div 400 = rest(y)
    OBVIOUS
  <2> QED  BY <2>1 DEF LEAPS_THRU_END_OF
<1>2. /\ fours(a) \in Int /\ fours(b) \in Int
      /\ fours(a) <= fours(b) /\ 4 * (fours(b) - fours(a)) <= (b - a) + 3
  BY QuotientsNear
<1> HIDE DEF fours
<1>3. /\ hundreds(a) \in Int /\ hundreds(b) \in Int
      /\ hundreds(a) <= hundreds(b) /\ hundreds(b) - hundreds(a) <= fours(b) - fours(a)
  BY <1>2, QuotientsNear
<1> HIDE DEF hundreds
<1>4. /\ rest(a) \in Int /\ rest(b) \in Int
      /\ rest(a) <= rest(b) /\ rest(b) - rest(a) <= hundreds(b) - hundreds(a)
  BY <1>3, QuotientsNear
<1> HIDE DEF rest
<1>5. /\ LEAPS_THRU_END_OF(a) = fours(a) - hundreds(a) + rest(a)
      /\ LEAPS_THRU_END_OF(b) = fours(b) - hundreds(b) + rest(b)
  BY <1>1
<1> QED  BY <1>2, <1>3, <1>4, <1>5

\* One year more is one leap year more where it is one.
LEMMA LeapsNext ==
  ASSUME NEW y \in Int
  PROVE  LEAPS_THRU_END_OF(y) = LEAPS_THRU_END_OF(y - 1) + (IF isleap(y) THEN 1 ELSE 0)
<1>1. y \div 4 = (y - 1) \div 4 + (IF y % 4 = 0 THEN 1 ELSE 0)
  OBVIOUS
<1>2. y \div 100 = (y - 1) \div 100 + (IF y % 100 = 0 THEN 1 ELSE 0)
  OBVIOUS
<1>3. y \div 400 = (y - 1) \div 400 + (IF y % 400 = 0 THEN 1 ELSE 0)
  OBVIOUS
<1>4. (y % 400 = 0 => y % 100 = 0) /\ (y % 100 = 0 => y % 4 = 0)
  OBVIOUS
<1>5. y \div 4 \in Int /\ y \div 100 \in Int /\ y \div 400 \in Int
      /\ (y - 1) \div 4 \in Int /\ (y - 1) \div 100 \in Int /\ (y - 1) \div 400 \in Int
  OBVIOUS
<1> QED  BY <1>1, <1>2, <1>3, <1>4, <1>5 DEF LEAPS_THRU_END_OF, isleap

YearLength(y) == IF isleap(y) THEN 366 ELSE 365

\* The days from 1 January 1970 to the beginning of year y.
DaysBefore(y) == 365 * (y - 1970) + LEAPS_THRU_END_OF(y - 1) - LEAPS_THRU_END_OF(1969)

LEMMA YearsFollow ==
  ASSUME NEW y \in Int
  PROVE  /\ DaysBefore(y) \in Int /\ YearLength(y) \in {365, 366}
         /\ DaysBefore(y + 1) = DaysBefore(y) + YearLength(y)
<1>1. LEAPS_THRU_END_OF(y) \in Int /\ LEAPS_THRU_END_OF(y - 1) \in Int /\ LEAPS_THRU_END_OF(1969) \in Int
  BY LeapsNumber
<1>2. (y + 1) - 1 = y
  OBVIOUS
<1> QED  BY <1>1, <1>2, LeapsNext DEF DaysBefore, YearLength

\* A day belongs to one year only.
LEMMA YearsApart ==
  ASSUME NEW y \in Int, NEW z \in Int, y < z
  PROVE  DaysBefore(y) + YearLength(y) <= DaysBefore(z)
<1>1. DaysBefore(y + 1) = DaysBefore(y) + YearLength(y)
  BY YearsFollow
<1>2. LEAPS_THRU_END_OF((y + 1) - 1) <= LEAPS_THRU_END_OF(z - 1)
  BY LeapsBetween
<1>3. /\ LEAPS_THRU_END_OF((y + 1) - 1) \in Int /\ LEAPS_THRU_END_OF(z - 1) \in Int
      /\ LEAPS_THRU_END_OF(1969) \in Int
  BY LeapsNumber
<1>4. DaysBefore(y + 1) <= DaysBefore(z)
  BY <1>2, <1>3 DEF DaysBefore
<1> QED  BY <1>1, <1>4

\* d is a day of year y.
DayOf(y, d) == 0 <= d /\ d < YearLength(y)

\* ... so the number of a day says its year and its day of the year.
LEMMA DayIsOne ==
  ASSUME NEW y \in Int, NEW z \in Int, NEW d \in Int, NEW e \in Int, DayOf(y, d), DayOf(z, e),
         DaysBefore(y) + d = DaysBefore(z) + e
  PROVE  y = z /\ d = e
<1>1. DaysBefore(y) \in Int /\ DaysBefore(z) \in Int /\ YearLength(y) \in Int /\ YearLength(z) \in Int
  BY YearsFollow
<1>2. ~(y < z)
  BY <1>1, YearsApart DEF DayOf
<1>3. ~(z < y)
  BY <1>1, YearsApart DEF DayOf
<1>4. y = z
  BY <1>2, <1>3
<1> QED  BY <1>1, <1>4

\* An iteration of ntyLocalTime's loop.
Guess(p) ==
  LET y == p[1]
      d == p[2]
      yg == y + (d \div 365)
  IN  <<yg, d - ((yg - y) * 365 + LEAPS_THRU_END_OF(yg - 1) - LEAPS_THRU_END_OF(y - 1))>>

Settled(p) == DayOf(p[1], p[2])

\* How far the loop still is from its end at most.
Distance(p) == IF Settled(p) THEN 0 ELSE IF p[2] >= 0 THEN p[2] ELSE 400 - p[2]

\* An iteration keeps the day and comes nearer to the end.
LEMMA GuessNears ==
  ASSUME NEW p \in Int \X Int, ~Settled(p)
  PROVE  /\ Guess(p) \in Int \X Int
         /\ DaysBefore(Guess(p)[1]) + Guess(p)[2] = DaysBefore(p[1]) + p[2]
         /\ Distance(p) \in Nat /\ Distance(Guess(p)) \in Nat /\ Distance(Guess(p)) < Distance(p)
<1> DEFINE y == p[1]
           d == p[2]
           k == d \div 365
           r == d % 365
           gain == LEAPS_THRU_END_OF((y + k) - 1) - LEAPS_THRU_END_OF(y - 1)
           e == r - gain
<1>1. y \in Int /\ d \in Int /\ k \in Int /\ r \in 0..364 /\ d = 365 * k + r
  <2>1. y \in Int /\ d \in Int
    OBVIOUS
  <2> HIDE DEF y, d
  <2> QED  BY <2>1
<1> HIDE DEF y, d, k, r
<1>2. /\ LEAPS_THRU_END_OF((y + k) - 1) \in Int /\ LEAPS_THRU_END_OF(y - 1) \in Int
      /\ LEAPS_THRU_END_OF(1969) \in Int
  BY <1>1, LeapsNumber
<1>3. gain \in Int /\ e \in Int
  BY <1>1, <1>2
<1>4. Guess(p) = <<y + k, e>>
  <2>1. Guess(p) = <<y + k, d - (((y + k) - y) * 365 + LEAPS_THRU_END_OF((y + k) - 1) - LEAPS_THRU_END_OF(y - 1))>>
    BY DEF Guess, y, d, k
  <2>2. d - (((y + k) - y) * 365 + LEAPS_THRU_END_OF((y + k) - 1) - LEAPS_THRU_END_OF(y - 1)) = e
    BY <1>1, <1>2
  <2> QED  BY <2>1, <2>2
<1>5. DaysBefore(y + k) + e = DaysBefore(y) + d
  BY <1>1, <1>2 DEF DaysBefore
<1>6. YearLength(y) \in {365, 366} /\ YearLength(y + k) \in {365, 366} /\ ~DayOf(y, d)
  BY <1>1, YearsFollow DEF Settled, y, d
<1>7. k >= 0 => 0 <= gain /\ 4 * gain <= k + 3
  BY <1>1, <1>2, LeapsBetween
<1>8. k < 0 => gain <= 0 /\ 4 * (0 - gain) <= (0 - k) + 3
  <2> SUFFICES ASSUME k < 0  PROVE gain <= 0 /\ 4 * (0 - gain) <= (0 - k) + 3
    OBVIOUS
  <2> DEFINE a == (y + k) - 1
             b == y - 1
  <2>1. a \in Int /\ b \in Int /\ a <= b /\ b - a = 0 - k
    BY <1>1
  <2>2. LEAPS_THRU_END_OF(a) <= LEAPS_THRU_END_OF(b)
        /\ 4 * (LEAPS_THRU_END_OF(b) - LEAPS_THRU_END_OF(a)) <= (b - a) + 3
    <3> HIDE DEF a, b
    <3> QED  BY <2>1, LeapsBetween
  <2> QED  BY <1>1, <1>2, <2>1, <2>2
<1>9. k = 1 => gain = YearLength(y) - 365
  <2>1. (y + 1) - 1 = y
    BY <1>1
  <2> QED  BY <1>1, <1>2, <2>1, LeapsNext DEF YearLength
<1> HIDE DEF gain
<1> DEFINE far(x) == IF x >= 0 THEN x ELSE 400 - x
<1>10. /\ DayOf(y + k, e) \/ far(e) < far(d)
       /\ far(d) > 0
  <2>1. CASE d >= 0
    <3>1. d >= YearLength(y) /\ k >= 1
      BY <1>1, <1>6, <2>1 DEF DayOf
    <3>2. CASE k = 1
      <4>1. e >= 0 /\ e <= 364
        BY <1>1, <1>3, <1>6, <1>9, <3>1, <3>2
      <4> QED  BY <1>1, <1>3, <1>6, <2>1, <3>1, <4>1 DEF DayOf
    <3>3. CASE k > 1
      <4>1. CASE e >= 0
        BY <1>1, <1>3, <1>6, <1>7, <2>1, <3>1, <4>1 DEF DayOf
      <4>2. CASE e < 0
        BY <1>1, <1>3, <1>7, <2>1, <3>3, <4>2
      <4> QED  BY <1>3, <4>1, <4>2
    <3> QED  BY <1>1, <3>1, <3>2, <3>3
  <2>2. CASE d < 0
    BY <1>1, <1>3, <1>8, <2>2
  <2> QED  BY <1>1, <2>1, <2>2
<1>11. Distance(p) = far(d) /\ Distance(Guess(p)) = (IF DayOf(y + k, e) THEN 0 ELSE far(e))
  BY <1>4, <1>6 DEF Distance, Settled, y, d
<1>12. far(d) \in Nat /\ far(e) \in Nat
  BY <1>1, <1>3
<1> HIDE DEF far, e
<1>13. Guess(p)[1] = y + k /\ Guess(p)[2] = e /\ Guess(p) \in Int \X Int
  BY <1>1, <1>3, <1>4
<1> QED  BY <1>5, <1>10, <1>11, <1>12, <1>13 DEF y, d

\* The loop ends with the year of the day and its place there.
LEMMA YearIsFound ==
  ASSUME NEW days \in Int
  PROVE  \E y, d \in Int : YearOf(days) = <<y, d>> /\ DayOf(y, d) /\ DaysBefore(y) + d = days
<1> DEFINE D == Int \X Int
           number(p) == DaysBefore(p[1]) + p[2]
           body(g) == [p \in D |-> IF Settled(p) THEN p ELSE g[Guess(p)]]
           found(p) == CHOOSE q \in D : Settled(q) /\ number(q) = number(p)
           g0 == [p \in D |-> found(p)]
<1>1. g0 = body(g0)
  <2>1. ASSUME NEW p \in D  PROVE g0[p] = IF Settled(p) THEN p ELSE g0[Guess(p)]
    <3>1. CASE Settled(p)
      <4>1. \A q \in D : Settled(q) /\ number(q) = number(p) => q = p
        <5> SUFFICES ASSUME NEW q \in D, Settled(q), number(q) = number(p)  PROVE q = p
          OBVIOUS
        <5>1. /\ p[1] \in Int /\ p[2] \in Int /\ q[1] \in Int /\ q[2] \in Int
              /\ p = <<p[1], p[2]>> /\ q = <<q[1], q[2]>>
          OBVIOUS
        <5>2. q[1] = p[1] /\ q[2] = p[2]
          BY <3>1, <5>1, DayIsOne DEF Settled
        <5> QED  BY <5>1, <5>2
      <4>2. found(p) = p
        <5> HIDE DEF D, number
        <5> QED  BY <3>1, <4>1
      <4> HIDE DEF found, D
      <4> QED  BY <3>1, <4>2
    <3>2. CASE ~Settled(p)
      <4>1. Guess(p) \in D /\ number(Guess(p)) = number(p)
        BY <3>2, GuessNears
      <4>2. found(Guess(p)) = found(p)
        <5> HIDE DEF D, number
        <5> QED  BY <4>1
      <4> HIDE DEF found, D, number
      <4> QED  BY <3>2, <4>1, <4>2
    <3> QED  BY <3>1, <3>2
  <2>2. g0 = [p \in D |-> g0[p]]
    OBVIOUS
  <2> HIDE DEF g0, D
  <2> QED  BY <2>1, <2>2
<1>2. PICK f : f = body(f) /\ YearOf(days) = f[<<1970, days>>]
  <2> DEFINE f == CHOOSE g : g = body(g)
  <2>1. YearOf(days) = f[<<1970, days>>]
    BY DEF YearOf, Settled, DayOf, YearLength, Guess
  <2>2. f = body(f)
    <3>1. \E g : g = body(g)
      <4> HIDE DEF g0, body
      <4> QED  BY <1>1
    <3> HIDE DEF body
    <3> QED  BY <3>1
  <2> HIDE DEF f, body
  <2> QED  BY <2>1, <2>2
<1> HIDE DEF g0
<1>3. \A p \in D : f[p] = IF Settled(p) THEN p ELSE f[Guess(p)]
  BY <1>2
<1> DEFINE Right(p) == f[p] \in D /\ Settled(f[p]) /\ number(f[p]) = number(p)
           bad == {n \in Nat : \E p \in D : Distance(p) = n /\ ~Right(p)}
<1>4. ASSUME bad # {}  PROVE FALSE
  <2>1. bad \in SUBSET Nat
    OBVIOUS
  <2>2. PICK m \in bad : \A n \in bad : m <= n
    <3> HIDE DEF bad
    <3> QED  BY <1>4, <2>1, LeastNatural
  <2>3. PICK p \in D : Distance(p) = m /\ ~Right(p)
    BY <2>2
  <2>4. ~Settled(p)
    BY <1>3, <2>3
  <2>5. /\ Guess(p) \in D /\ number(Guess(p)) = number(p)
        /\ Distance(Guess(p)) \in Nat /\ Distance(Guess(p)) < m
    BY <2>3, <2>4, GuessNears
  <2>6. Right(Guess(p))
    <3>1. Distance(Guess(p)) \notin bad
      BY <2>2, <2>5
    <3> QED  BY <2>5, <3>1
  <2>7. f[p] = f[Guess(p)]
    BY <1>3, <2>4
  <2> QED  BY <2>3, <2>5, <2>6, <2>7
<1>5. <<1970, days>> \in D /\ number(<<1970, days>>) = days
  <2>1. LEAPS_THRU_END_OF(1969) \in Int /\ 1970 - 1 = 1969
    BY LeapsNumber
  <2> QED  BY <2>1 DEF DaysBefore
<1>6. Distance(<<1970, days>>) \in Nat
  BY <1>5, GuessNears DEF Distance
<1>7. Right(<<1970, days>>)
  BY <1>4, <1>5, <1>6
<1> QED  BY <1>2, <1>5, <1>7 DEF Settled

\* The table's months: each as long as the calendar says, and the year as long as its
\* months.
LEMMA MonthsFollow ==
  ASSUME NEW y \in Int
  PROVE  LET ip == mon_yday[isleap(y)]
         IN  /\ \A m \in 1..13 : ip[m] \in Nat
             /\ \A m \in 1..12 : /\ ip[m] < ip[m + 1]
                                 /\ \A n \in 1..12 : m < n => ip[m + 1] <= ip[n]
             /\ ip[1] = 0 /\ ip[13] = YearLength(y)
             /\ \A m \in 1..12 : \A d : d.year = y /\ d.mon = m => MonthLength(d) = ip[m + 1] - ip[m]
<1> DEFINE ip == mon_yday[isleap(y)]
<1>1. isleap(y) \in BOOLEAN /\ (isleap(y) <=> Leap(y))
  BY DEF isleap, Leap
<1>2. ip = IF isleap(y) THEN <<0, 31, 60, 91, 121, 152, 182, 213, 244, 274, 305, 335, 366>>
           ELSE <<0, 31, 59, 90, 120, 151, 181, 212, 243, 273, 304, 334, 365>>
  BY <1>1 DEF mon_yday
<1> HIDE DEF ip
<1>3. /\ ip[1] = 0 /\ ip[2] = 31 /\ ip[3] = (IF isleap(y) THEN 60 ELSE 59)
      /\ ip[4] = ip[3] + 31 /\ ip[5] = ip[3] + 61 /\ ip[6] = ip[3] + 92 /\ ip[7] = ip[3] + 122
      /\ ip[8] = ip[3] + 153 /\ ip[9] = ip[3] + 184 /\ ip[10] = ip[3] + 214
      /\ ip[11] = ip[3] + 245 /\ ip[12] = ip[3] + 275 /\ ip[13] = ip[3] + 306
  BY <1>2
<1>4. ip[3] \in {59, 60}
  BY <1>3
<1>5. \A m \in 1..13 : m = 1 \/ m = 2 \/ m = 3 \/ m = 4 \/ m = 5 \/ m = 6 \/ m = 7 \/ m = 8
                         \/ m = 9 \/ m = 10 \/ m = 11 \/ m = 12 \/ m = 13
  OBVIOUS
<1>6. \A m \in 1..13 : ip[m] \in Nat
  BY <1>3, <1>4, <1>5
<1>7. \A m \in 1..12 : ip[m] < ip[m + 1]
  BY <1>3, <1>4, <1>5
<1>8. ASSUME NEW m \in 1..12, NEW n \in 1..12, m < n
      PROVE  ip[m + 1] <= ip[n]
  BY <1>3, <1>4, <1>5, <1>8
<1>9. ip[13] = YearLength(y)
  BY <1>3 DEF YearLength
<1>10. ASSUME NEW m \in 1..12, NEW d, d.year = y, d.mon = m
       PROVE  MonthLength(d) = ip[m + 1] - ip[m]
  <2>1. MonthLength(d) = IF m = 2 THEN (IF isleap(y) THEN 29 ELSE 28)
                         ELSE IF m \in {4, 6, 9, 11} THEN 30 ELSE 31
    BY <1>1, <1>10 DEF MonthLength
  <2> QED  BY <1>3, <1>4, <1>5, <2>1
<1> QED  BY <1>3, <1>6, <1>7, <1>8, <1>9, <1>10 DEF ip

\* date is that of the day with this number.
IsDate(date, number) ==
  /\ date \in [year : Int, mon : 1..12, mday : Nat \ {0}, wday : 0..6]
  /\ date.mday <= MonthLength(date)
  /\ number \in Int
  /\ number = DaysBefore(date.year) + mon_yday[isleap(date.year)][date.mon] + date.mday - 1
  /\ date.wday = (4 + number) % 7

\* What ntyLocalTime makes of the number of a day is its date.
LEMMA CivilDate ==
  ASSUME NEW date, NEW days, NEW second, IsDate(date, days)
  PROVE  LET t == CivilTime(days, second)
         IN  [year |-> t.year, mon |-> t.mon, mday |-> t.mday, wday |-> t.wday] = date
             /\ t.second = second
<1> DEFINE ip == mon_yday[isleap(date.year)]
           yday == ip[date.mon] + date.mday - 1
           months(e) == {m \in 1..12 : ip[m] <= e /\ e < ip[m + 1]}
           t == CivilTime(days, second)
<1>1. /\ date.year \in Int /\ date.mon \in 1..12 /\ date.mday \in Nat /\ date.mday >= 1
      /\ date.mday <= MonthLength(date) /\ days \in Int
      /\ days = DaysBefore(date.year) + ip[date.mon] + date.mday - 1
      /\ date.wday = (4 + days) % 7
  BY SMTT(30) DEF IsDate
<1>2. /\ \A m \in 1..13 : ip[m] \in Nat
      /\ \A m \in 1..12 : ip[m] < ip[m + 1] /\ \A n \in 1..12 : m < n => ip[m + 1] <= ip[n]
      /\ ip[1] = 0 /\ ip[13] = YearLength(date.year)
      /\ MonthLength(date) = ip[date.mon + 1] - ip[date.mon]
  BY <1>1, MonthsFollow
<1>3. DaysBefore(date.year) \in Int /\ YearLength(date.year) \in Int
  BY <1>1, YearsFollow
<1> HIDE DEF ip
<1>4. ip[date.mon] \in Nat /\ ip[date.mon + 1] \in Nat
  BY <1>1, <1>2
<1>5. /\ yday \in Nat /\ ip[date.mon] <= yday /\ yday < ip[date.mon + 1]
      /\ DaysBefore(date.year) + yday = days
  BY <1>1, <1>2, <1>3, <1>4
<1>6. yday < YearLength(date.year)
  <2>1. CASE date.mon = 12
    BY <1>2, <1>5, <2>1
  <2>2. CASE date.mon # 12
    <3>1. date.mon < 12 /\ ip[date.mon + 1] <= ip[12] /\ ip[12] < ip[12 + 1] /\ ip[12] \in Nat
      BY <1>1, <1>2, <2>2
    <3> QED  BY <1>2, <1>3, <1>4, <1>5, <3>1
  <2> QED  BY <2>1, <2>2
<1>7. YearOf(days) = <<date.year, yday>>
  <2>1. PICK y \in Int, d \in Int : YearOf(days) = <<y, d>> /\ DayOf(y, d) /\ DaysBefore(y) + d = days
    BY <1>1, YearIsFound
  <2>2. DayOf(date.year, yday) /\ yday \in Int
    BY <1>5, <1>6 DEF DayOf
  <2>3. y = date.year /\ d = yday
    <3> HIDE DEF yday
    <3> QED  BY <1>1, <1>5, <2>1, <2>2, DayIsOne
  <2> QED  BY <2>1, <2>3
<1> HIDE DEF yday
<1>8. months(yday) = {date.mon}
  <2>1. date.mon \in months(yday)
    BY <1>1, <1>5
  <2>2. ASSUME NEW m \in months(yday), m # date.mon  PROVE FALSE
    <3>1. ip[m] \in Nat /\ ip[m + 1] \in Nat /\ m \in 1..12 /\ ip[m] <= yday /\ yday < ip[m + 1]
      BY <1>2
    <3>2. CASE m < date.mon
      BY <1>1, <1>2, <1>4, <1>5, <3>1, <3>2
    <3>3. CASE date.mon < m
      BY <1>1, <1>2, <1>4, <1>5, <3>1, <3>3
    <3> QED  BY <1>1, <2>2, <3>1, <3>2, <3>3
  <2> QED  BY <2>1, <2>2
<1>9. (CHOOSE m \in 1..12 : ip[m] <= yday /\ yday < ip[m + 1]) = date.mon
  BY <1>8
<1>10. yday - ip[date.mon] + 1 = date.mday
  BY <1>1, <1>4 DEF yday
<1>11. t = [year |-> date.year, mon |-> date.mon, mday |-> date.mday,
            wday |-> date.wday, second |-> second]
  <2>1. YearOf(days)[1] = date.year /\ YearOf(days)[2] = yday
    BY <1>7
  <2> HIDE DEF months
  <2>2. t = [year |-> date.year, mon |-> CHOOSE m \in 1..12 : ip[m] <= yday /\ yday < ip[m + 1],
             mday |-> yday - ip[CHOOSE m \in 1..12 : ip[m] <= yday /\ yday < ip[m + 1]] + 1,
             wday |-> (4 + days) % 7, second |-> second]
    <3> DEFINE of(year, day) ==
                 LET jp == mon_yday[isleap(year)]
                     mon == CHOOSE m \in 1..12 : jp[m] <= day /\ day < jp[m + 1]
                 IN  [year |-> year, mon |-> mon, mday |-> day - jp[mon] + 1,
                      wday |-> (4 + days) % 7, second |-> second]
    <3>1. t = of(YearOf(days)[1], YearOf(days)[2])
      BY DEF CivilTime
    <3>2. of(YearOf(days)[1], YearOf(days)[2]) = of(date.year, yday)
      <4> HIDE DEF of, yday
      <4> QED  BY <2>1, Zenon
    <3>3. t = of(date.year, yday)
      <4> HIDE DEF t, of, yday
      <4> QED  BY <3>1, <3>2
    <3> HIDE DEF t, yday
    <3> QED  BY <3>3 DEF ip
  <2> HIDE DEF t, yday, ip
  <2> QED  BY <1>1, <1>9, <1>10, <2>2, Zenon
<1> HIDE DEF t
<1>12. date = [year |-> date.year, mon |-> date.mon, mday |-> date.mday, wday |-> date.wday]
  BY DEF IsDate
<1> QED  BY <1>11, <1>12 DEF t

\* The calendar's next date is that of the next day.
LEMMA TomorrowIsDate ==
  ASSUME NEW date, NEW number, IsDate(date, number)
  PROVE  IsDate(Tomorrow(date), number + 1)
<1> DEFINE y == date.year
           m == date.mon
           ip == mon_yday[isleap(y)]
           wday == (date.wday + 1) % 7
<1>1. /\ y \in Int /\ m \in 1..12 /\ date.mday \in Nat /\ date.mday >= 1 /\ date.wday \in 0..6
      /\ date = [year |-> y, mon |-> m, mday |-> date.mday, wday |-> date.wday]
      /\ date.mday <= MonthLength(date) /\ number \in Int
      /\ number = DaysBefore(y) + ip[m] + date.mday - 1
      /\ date.wday = (4 + number) % 7
  BY DEF IsDate
<1>2. wday \in 0..6 /\ wday = (4 + (number + 1)) % 7
  <2>1. \A w \in Int : ((w % 7) + 1) % 7 = (w + 1) % 7
    OBVIOUS
  <2>2. wday = (((4 + number) % 7) + 1) % 7
    BY <1>1
  <2>3. wday = ((4 + number) + 1) % 7 /\ (4 + number) + 1 = 4 + (number + 1) /\ 4 + number \in Int
    BY <1>1, <2>1, <2>2
  <2> HIDE DEF wday
  <2> QED  BY <2>3
<1>3. MonthLength(date) = ip[m + 1] - ip[m] /\ ip[m] \in Nat /\ ip[m + 1] \in Nat
      /\ ip[13] = YearLength(y) /\ ip[m] < ip[m + 1]
  BY <1>1, MonthsFollow
<1>4. DaysBefore(y) \in Int
  BY <1>1, YearsFollow
<1>5. CASE date.mday < MonthLength(date)
  <2> DEFINE e == [year |-> y, mon |-> m, mday |-> date.mday + 1, wday |-> wday]
  <2>1. Tomorrow(date) = e
    BY <1>1, <1>5 DEF Tomorrow
  <2>2. MonthLength(e) = MonthLength(date)
    BY <1>1 DEF MonthLength
  <2>3. e.year = y /\ e.mon = m /\ e.mday = date.mday + 1 /\ e.wday = wday
    OBVIOUS
  <2>4. e \in [year : Int, mon : 1..12, mday : Nat \ {0}, wday : 0..6]
    BY <1>1, <1>2
  <2>5. number + 1 = DaysBefore(y) + ip[m] + (date.mday + 1) - 1 /\ date.mday + 1 <= MonthLength(date)
    BY <1>1, <1>3, <1>4, <1>5
  <2> HIDE DEF e, ip, wday
  <2> QED  BY <1>1, <1>2, <2>1, <2>2, <2>3, <2>4, <2>5 DEF IsDate, ip
<1>6. CASE ~(date.mday < MonthLength(date)) /\ m < 12
  <2> DEFINE e == [year |-> y, mon |-> m + 1, mday |-> 1, wday |-> wday]
  <2>1. Tomorrow(date) = e
    BY <1>1, <1>6 DEF Tomorrow
  <2>2. m + 1 \in 1..12
    BY <1>1, <1>6
  <2>3. e.year = y /\ e.mon = m + 1 /\ e.mday = 1 /\ e.wday = wday
    OBVIOUS
  <2>4. e \in [year : Int, mon : 1..12, mday : Nat \ {0}, wday : 0..6]
    BY <1>1, <1>2, <2>2
  <2>5. 1 <= MonthLength(e)
    <3> HIDE DEF e
    <3>1. MonthLength(e) = ip[(m + 1) + 1] - ip[m + 1] /\ ip[m + 1] < ip[(m + 1) + 1]
          /\ ip[(m + 1) + 1] \in Nat
      BY <1>1, <2>2, <2>3, MonthsFollow
    <3> HIDE DEF ip
    <3> QED  BY <1>3, <3>1, SMTT(30)
  <2>6. number + 1 = DaysBefore(y) + ip[m + 1] + 1 - 1
    <3> HIDE DEF ip
    <3> QED  BY <1>1, <1>3, <1>4, <1>6
  <2> HIDE DEF e, ip, wday
  <2> QED  BY <1>1, <1>2, <2>1, <2>3, <2>4, <2>5, <2>6 DEF IsDate, ip
<1>7. CASE ~(date.mday < MonthLength(date)) /\ ~(m < 12)
  <2> DEFINE e == [year |-> y + 1, mon |-> 1, mday |-> 1, wday |-> wday]
             jp == mon_yday[isleap(y + 1)]
  <2>1. Tomorrow(date) = e
    BY <1>1, <1>7 DEF Tomorrow
  <2>2. m = 12
    BY <1>1, <1>7
  <2>3. e.year = y + 1 /\ e.mon = 1 /\ e.mday = 1 /\ e.wday = wday
    OBVIOUS
  <2>4. e \in [year : Int, mon : 1..12, mday : Nat \ {0}, wday : 0..6]
    BY <1>1, <1>2
  <2>5. 1 <= MonthLength(e) /\ jp[1] = 0
    <3> HIDE DEF e
    <3>1. y + 1 \in Int /\ 1 \in 1..12 /\ 1 \in 1..13 /\ 1 + 1 \in 1..13
      BY <1>1
    <3>2. MonthLength(e) = jp[1 + 1] - jp[1] /\ jp[1] < jp[1 + 1] /\ jp[1] = 0 /\ jp[1 + 1] \in Nat
      BY <2>3, <3>1, MonthsFollow
    <3> HIDE DEF jp
    <3> QED  BY <3>2
  <2>6. DaysBefore(y + 1) = DaysBefore(y) + YearLength(y) /\ YearLength(y) \in Int
    BY <1>1, YearsFollow
  <2>7. number + 1 = DaysBefore(y + 1) + 0 + 1 - 1
    <3>1. ip[m + 1] = YearLength(y)
      BY <1>3, <2>2
    <3> HIDE DEF ip
    <3> QED  BY <1>1, <1>3, <1>4, <1>7, <2>6, <3>1
  <2> HIDE DEF e, jp, wday
  <2> QED  BY <1>1, <1>2, <2>1, <2>3, <2>4, <2>5, <2>7 DEF IsDate, jp
<1> QED  BY <1>5, <1>6, <1>7

\* The day with number 0 is 1 January 1970, a Thursday.
LEMMA FirstIsDate ==
  ASSUME NEW local \in {-1, 0, 1}
  PROVE  IsDate(FirstDate(local), local)
<1>1. isleap(1969) = FALSE /\ isleap(1970) = FALSE
  BY DEF isleap
<1>2. /\ LEAPS_THRU_END_OF(1968) = 477 /\ LEAPS_THRU_END_OF(1969) = 477
  BY DEF LEAPS_THRU_END_OF
<1>3. DaysBefore(1969) = -365 /\ DaysBefore(1970) = 0
  BY <1>2 DEF DaysBefore
<1>4. mon_yday[FALSE][12] = 334 /\ mon_yday[FALSE][1] = 0
  BY DEF mon_yday
<1>5. CASE local = -1
  <2> DEFINE d == [year |-> 1969, mon |-> 12, mday |-> 31, wday |-> 3]
  <2>1. FirstDate(local) = d
    BY <1>5 DEF FirstDate
  <2>2. /\ d.year = 1969 /\ d.mday = 31 /\ d.wday = 3
        /\ d \in [year : Int, mon : 1..12, mday : Nat \ {0}, wday : 0..6]
    OBVIOUS
  <2>3. d.mon = 12
    OBVIOUS
  <2> HIDE DEF d
  <2>4. MonthLength(d) = 31
    BY <2>2, <2>3 DEF MonthLength
  <2>5. mon_yday[isleap(d.year)][d.mon] = 334
    <3>1. isleap(d.year) = FALSE
      BY <2>2 DEF isleap
    <3>2. mon_yday[FALSE][d.mon] = 334
      BY <1>4, <2>3, ZenonT(40)
    <3> QED  BY <3>1, <3>2
  <2>6. DaysBefore(d.year) + 334 + 31 - 1 = local /\ (4 + local) % 7 = 3
    BY <1>3, <1>5, <2>2
  <2> QED  BY <1>5, <2>1, <2>2, <2>3, <2>4, <2>5, <2>6 DEF IsDate
<1>6. CASE local = 0
  <2> DEFINE d == [year |-> 1970, mon |-> 1, mday |-> 1, wday |-> 4]
  <2>1. FirstDate(local) = d
    BY <1>6 DEF FirstDate
  <2>2. /\ d.year = 1970 /\ d.mday = 1 /\ d.wday = 4
        /\ d \in [year : Int, mon : 1..12, mday : Nat \ {0}, wday : 0..6]
    OBVIOUS
  <2>3. d.mon = 1
    OBVIOUS
  <2> HIDE DEF d
  <2>4. MonthLength(d) = 31
    BY <2>2, <2>3 DEF MonthLength
  <2>5. mon_yday[isleap(d.year)][d.mon] = 0
    <3>1. isleap(d.year) = FALSE
      BY <2>2 DEF isleap
    <3>2. mon_yday[FALSE][d.mon] = 0
      BY <1>4, <2>3, ZenonT(40)
    <3> QED  BY <3>1, <3>2
  <2>6. DaysBefore(d.year) + 0 + 1 - 1 = local /\ (4 + local) % 7 = 4
    BY <1>3, <1>6, <2>2
  <2> QED  BY <1>6, <2>1, <2>2, <2>3, <2>4, <2>5, <2>6 DEF IsDate
<1>7. CASE local = 1
  <2> DEFINE d == [year |-> 1970, mon |-> 1, mday |-> 2, wday |-> 5]
  <2>1. FirstDate(local) = d
    BY <1>7 DEF FirstDate
  <2>2. /\ d.year = 1970 /\ d.mday = 2 /\ d.wday = 5
        /\ d \in [year : Int, mon : 1..12, mday : Nat \ {0}, wday : 0..6]
    OBVIOUS
  <2>3. d.mon = 1
    OBVIOUS
  <2> HIDE DEF d
  <2>4. MonthLength(d) = 31
    BY <2>2, <2>3 DEF MonthLength
  <2>5. mon_yday[isleap(d.year)][d.mon] = 0
    <3>1. isleap(d.year) = FALSE
      BY <2>2 DEF isleap
    <3>2. mon_yday[FALSE][d.mon] = 0
      BY <1>4, <2>3, ZenonT(40)
    <3> QED  BY <3>1, <3>2
  <2>6. DaysBefore(d.year) + 0 + 2 - 1 = local /\ (4 + local) % 7 = 5
    BY <1>3, <1>7, <2>2
  <2> QED  BY <1>7, <2>1, <2>2, <2>3, <2>4, <2>5, <2>6 DEF IsDate
<1> QED  BY <1>5, <1>6, <1>7

-----------------------------------------------------------------------------
(* Borders: where a text that ends before a place starts again. *)

\* The greatest number of a set.
Top(S) == CHOOSE v \in S : \A s \in S : s <= v

LEMMA TopIs ==
  ASSUME NEW n \in Nat, NEW S \in SUBSET (0..n), S # {}
  PROVE  Top(S) \in S /\ \A s \in S : s <= Top(S)
<1> DEFINE R == {n - s : s \in S}
<1>1. R \in SUBSET Nat /\ R # {}
  <2>1. \A s \in S : n - s \in Nat
    OBVIOUS
  <2>2. PICK s \in S : TRUE
    OBVIOUS
  <2>3. n - s \in R
    OBVIOUS
  <2> QED  BY <2>1, <2>3
<1>2. PICK r \in R : \A q \in R : r <= q
  <2> HIDE DEF R
  <2> QED  BY <1>1, LeastNatural
<1>3. PICK v \in S : r = n - v
  OBVIOUS
<1>4. \A s \in S : s <= v
  <2> SUFFICES ASSUME NEW s \in S  PROVE s <= v
    OBVIOUS
  <2>1. r <= n - s
    BY <1>2
  <2> QED  BY <1>3, <2>1
<1> QED  BY <1>4 DEF Top

LEMMA TopOne ==
  ASSUME NEW S \in SUBSET Int, NEW v \in S, \A s \in S : s <= v
  PROVE  Top(S) = v
<1>1. \A w \in S : (\A s \in S : s <= w) => w = v
  OBVIOUS
<1> QED  BY <1>1 DEF Top

\* The places before i where one can be as far in the pattern as at i: what lies
\* before them lies before i, too.
Borders(pattern, i) ==
  {t \in 1..(i - 1) : \A k \in 1..(t - 1) : Char(pattern, k) = Char(pattern, i - t + k)}

LEMMA BordersNest ==
  ASSUME NEW pattern, NEW i \in Nat, NEW t \in Borders(pattern, i),
         NEW s \in Borders(pattern, i), s < t
  PROVE  s \in Borders(pattern, t)
<1>1. t \in Int /\ s \in Int /\ 1 <= s /\ s <= t - 1
  BY DEF Borders
<1>2. ASSUME NEW k \in 1..(s - 1)
      PROVE  Char(pattern, k) = Char(pattern, t - s + k)
  <2>1. Char(pattern, k) = Char(pattern, i - s + k)
    BY DEF Borders
  <2>2. (t - s) + k \in 1..(t - 1) /\ i - t + ((t - s) + k) = i - s + k
    BY <1>1
  <2>3. Char(pattern, (t - s) + k) = Char(pattern, i - t + ((t - s) + k))
    BY <2>2 DEF Borders
  <2> QED  BY <2>1, <2>2, <2>3
<1> QED  BY <1>1, <1>2 DEF Borders

LEMMA BordersTransitive ==
  ASSUME NEW pattern, NEW i \in Nat, NEW t \in Borders(pattern, i),
         NEW s \in Borders(pattern, t)
  PROVE  s \in Borders(pattern, i) /\ s < t
<1>1. t \in Int /\ s \in Int /\ 1 <= s /\ s <= t - 1 /\ t <= i - 1
  BY DEF Borders
<1>2. ASSUME NEW k \in 1..(s - 1)
      PROVE  Char(pattern, k) = Char(pattern, i - s + k)
  <2>1. Char(pattern, k) = Char(pattern, t - s + k)
    BY DEF Borders
  <2>2. (t - s) + k \in 1..(t - 1) /\ i - t + ((t - s) + k) = i - s + k
    BY <1>1
  <2>3. Char(pattern, (t - s) + k) = Char(pattern, i - t + ((t - s) + k))
    BY <2>2 DEF Borders
  <2> QED  BY <2>1, <2>2, <2>3
<1> QED  BY <1>1, <1>2 DEF Borders

LEMMA BordersExtend ==
  ASSUME NEW pattern, NEW i \in Nat, i >= 1, NEW u \in Int
  PROVE  u \in Borders(pattern, i + 1) <=>
           \/ u = 1
           \/ u - 1 \in Borders(pattern, i) /\ Char(pattern, u - 1) = Char(pattern, i)
<1>1. ASSUME u \in Borders(pattern, i + 1), u # 1
      PROVE  u - 1 \in Borders(pattern, i) /\ Char(pattern, u - 1) = Char(pattern, i)
  <2>1. u \in 2..i
    BY <1>1 DEF Borders
  <2>2. \A k \in 1..(u - 1) : Char(pattern, k) = Char(pattern, i + 1 - u + k)
    BY <1>1 DEF Borders
  <2>3. \A k \in 1..(u - 1) : i + 1 - u + k = i - (u - 1) + k
    BY <2>1
  <2>4. u - 1 \in 1..(u - 1) /\ i - (u - 1) + (u - 1) = i
    BY <2>1
  <2>5. Char(pattern, u - 1) = Char(pattern, i)
    BY <2>2, <2>3, <2>4
  <2>6. u - 1 # i
    BY <2>1
  <2> QED  BY <2>1, <2>2, <2>3, <2>5, <2>6 DEF Borders
<1>2. ASSUME u - 1 \in Borders(pattern, i), Char(pattern, u - 1) = Char(pattern, i)
      PROVE  u \in Borders(pattern, i + 1)
  <2>1. u \in 2..i
    BY <1>2 DEF Borders
  <2>2. \A k \in 1..((u - 1) - 1) : Char(pattern, k) = Char(pattern, i - (u - 1) + k)
    BY <1>2 DEF Borders
  <2>3. \A k \in 1..(u - 1) : i + 1 - u + k = i - (u - 1) + k
    BY <2>1
  <2>4. i + 1 - u + (u - 1) = i
    BY <2>1
  <2>5. \A k \in 1..(u - 1) : Char(pattern, k) = Char(pattern, i + 1 - u + k)
    <3> SUFFICES ASSUME NEW k \in 1..(u - 1)
                 PROVE  Char(pattern, k) = Char(pattern, i + 1 - u + k)
      OBVIOUS
    <3>1. CASE k = u - 1
      BY <1>2, <2>4, <3>1
    <3>2. CASE k # u - 1
      BY <2>1, <2>2, <2>3, <3>2
    <3> QED  BY <3>1, <3>2
  <2> QED  BY <2>1, <2>5 DEF Borders
<1>3. 1 \in Borders(pattern, i + 1)
  BY DEF Borders
<1> QED  BY <1>1, <1>2, <1>3

-----------------------------------------------------------------------------
(* What ntyBuildNext builds. *)

\* The longest border.
LongestBorder(pattern, i) == Top({0} \cup Borders(pattern, i))

\* The longest one that another character follows.
NextOf(pattern, i) ==
  Top({0} \cup {t \in Borders(pattern, i) : Char(pattern, t) # Char(pattern, i)})

\* Where the inner loop ends that starts at t.
Landing(pattern, i, t) ==
  Top({0} \cup {s \in 1..t : (s = t \/ s \in Borders(pattern, t))
                               /\ Char(pattern, s) = Char(pattern, i)})

LEMMA LongestIs ==
  ASSUME NEW pattern, NEW i \in Nat, i >= 1
  PROVE  /\ LongestBorder(pattern, i) \in 0..(i - 1)
         /\ LongestBorder(pattern, i) = 0 \/ LongestBorder(pattern, i) \in Borders(pattern, i)
         /\ \A s \in Borders(pattern, i) : s <= LongestBorder(pattern, i)
<1> DEFINE S == {0} \cup Borders(pattern, i)
<1>1. S \in SUBSET (0..(i - 1)) /\ S # {} /\ i - 1 \in Nat
  BY DEF Borders
<1>2. Top(S) \in S /\ \A s \in S : s <= Top(S)
  <2> HIDE DEF S
  <2> QED  BY <1>1, TopIs
<1> QED  BY <1>1, <1>2 DEF LongestBorder

LEMMA NextIs ==
  ASSUME NEW pattern, NEW i \in Nat, i >= 1
  PROVE  /\ NextOf(pattern, i) \in 0..(i - 1)
         /\ \/ NextOf(pattern, i) = 0
            \/ /\ NextOf(pattern, i) \in Borders(pattern, i)
               /\ Char(pattern, NextOf(pattern, i)) # Char(pattern, i)
         /\ \A s \in Borders(pattern, i) :
              Char(pattern, s) # Char(pattern, i) => s <= NextOf(pattern, i)
<1> DEFINE S == {0} \cup {t \in Borders(pattern, i) : Char(pattern, t) # Char(pattern, i)}
<1>1. S \in SUBSET (0..(i - 1)) /\ S # {} /\ i - 1 \in Nat
  BY DEF Borders
<1>2. Top(S) \in S /\ \A s \in S : s <= Top(S)
  <2> HIDE DEF S
  <2> QED  BY <1>1, TopIs
<1> QED  BY <1>1, <1>2 DEF NextOf

LEMMA LandingIs ==
  ASSUME NEW pattern, NEW i, NEW t \in Nat
  PROVE  /\ Landing(pattern, i, t) \in 0..t
         /\ \/ Landing(pattern, i, t) = 0
            \/ /\ Landing(pattern, i, t) = t \/ Landing(pattern, i, t) \in Borders(pattern, t)
               /\ Landing(pattern, i, t) # 0
               /\ Char(pattern, Landing(pattern, i, t)) = Char(pattern, i)
         /\ \A s \in 1..t : (s = t \/ s \in Borders(pattern, t)) /\ Char(pattern, s) = Char(pattern, i)
                              => s <= Landing(pattern, i, t)
<1> DEFINE S == {0} \cup {s \in 1..t : (s = t \/ s \in Borders(pattern, t))
                                         /\ Char(pattern, s) = Char(pattern, i)}
<1>1. S \in SUBSET (0..t) /\ S # {}
  OBVIOUS
<1>2. Top(S) \in S /\ \A s \in S : s <= Top(S)
  <2> HIDE DEF S
  <2> QED  BY <1>1, TopIs
<1> QED  BY <1>1, <1>2 DEF Landing

\* Falling back from t finds the longest border of t, t itself among them, that the
\* character at i follows.
LEMMA LandingFalls ==
  ASSUME NEW pattern, NEW i \in Nat, NEW t \in Nat, t >= 1,
         Char(pattern, i) # Char(pattern, t)
  PROVE  Landing(pattern, i, NextOf(pattern, t)) = Landing(pattern, i, t)
<1> DEFINE n == NextOf(pattern, t)
           C(k) == Char(pattern, k)
           S == {0} \cup {s \in 1..t : (s = t \/ s \in Borders(pattern, t)) /\ C(s) = C(i)}
           R == {0} \cup {s \in 1..n : (s = n \/ s \in Borders(pattern, n)) /\ C(s) = C(i)}
<1>1. /\ n \in 0..(t - 1)
      /\ n = 0 \/ n \in Borders(pattern, t)
      /\ \A s \in Borders(pattern, t) : C(s) # C(t) => s <= n
  BY NextIs
<1> HIDE DEF n
<1>2. ASSUME NEW s \in 1..t, s = t \/ s \in Borders(pattern, t), C(s) = C(i)
      PROVE  s \in R
  <2>1. s \in Borders(pattern, t)
    BY <1>2
  <2>2. s <= n
    BY <1>1, <1>2, <2>1
  <2>3. n \in Borders(pattern, t) /\ s \in 1..n
    BY <1>1, <2>2
  <2>4. s = n \/ s \in Borders(pattern, n)
    <3>1. CASE s < n
      BY <2>1, <2>3, <3>1, BordersNest
    <3>2. CASE ~(s < n)
      BY <1>1, <2>3, <3>2
    <3> QED  BY <3>1, <3>2
  <2> QED  BY <1>2, <2>3, <2>4
<1>3. ASSUME NEW s \in 1..n, s = n \/ s \in Borders(pattern, n), C(s) = C(i)
      PROVE  s \in S
  <2>1. n \in Borders(pattern, t)
    BY <1>1
  <2>2. s \in Borders(pattern, t)
    BY <1>3, <2>1, BordersTransitive
  <2>3. s \in 1..t
    BY <1>1
  <2> QED  BY <1>3, <2>2, <2>3
<1>4. R = S
  <2>1. R \subseteq S
    <3> HIDE DEF S
    <3>1. 0 \in S
      BY DEF S
    <3> QED  BY <1>3, <3>1
  <2>2. S \subseteq R
    <3> HIDE DEF R
    <3>1. 0 \in R
      BY DEF R
    <3> QED  BY <1>2, <3>1
  <2> QED  BY <2>1, <2>2
<1>5. Landing(pattern, i, n) = Top(R) /\ Landing(pattern, i, t) = Top(S)
  BY DEF Landing
<1> HIDE DEF R, S
<1> QED  BY <1>4, <1>5 DEF n

\* The inner loop does that, with a table that is right as far as it goes.
LEMMA FallIs ==
  ASSUME NEW pattern, NEW i \in Nat, NEW next \in Seq(Nat),
         \A t \in 1..Len(next) : next[t] = NextOf(pattern, t)
  PROVE  \A t \in 0..Len(next) : Fall(pattern, next, i)[t] = Landing(pattern, i, t)
<1> DEFINE D == 0..Len(next)
           goes(t) == t > 0 /\ Char(pattern, i) # Char(pattern, t)
           body(g) == [t \in D |-> IF goes(t) THEN g[next[t]] ELSE t]
           g0 == [t \in D |-> Landing(pattern, i, t)]
<1>1. ASSUME NEW t \in D
      PROVE  IF goes(t) THEN /\ next[t] \in D /\ next[t] < t
                             /\ Landing(pattern, i, next[t]) = Landing(pattern, i, t)
             ELSE Landing(pattern, i, t) = t
  <2>1. t \in Nat /\ Len(next) \in Nat
    OBVIOUS
  <2>2. CASE goes(t)
    <3>1. t >= 1 /\ t \in 1..Len(next)
      BY <2>1, <2>2
    <3>2. next[t] = NextOf(pattern, t) /\ NextOf(pattern, t) \in 0..(t - 1)
      BY <3>1, NextIs
    <3> QED  BY <2>1, <2>2, <3>1, <3>2, LandingFalls
  <2>3. CASE ~goes(t)
    BY <2>1, <2>3, LandingIs
  <2> QED  BY <2>2, <2>3
<1>2. g0 = body(g0)
  <2>1. ASSUME NEW t \in D  PROVE g0[t] = IF goes(t) THEN g0[next[t]] ELSE t
    <3>1. g0[t] = Landing(pattern, i, t)
      OBVIOUS
    <3>2. goes(t) => g0[next[t]] = Landing(pattern, i, next[t])
      <4> HIDE DEF goes, D
      <4> QED  BY <1>1
    <3> HIDE DEF g0, goes, D
    <3> QED  BY <1>1, <3>1, <3>2
  <2>2. g0 = [t \in D |-> g0[t]]
    OBVIOUS
  <2> HIDE DEF g0, D, goes
  <2> QED  BY <2>1, <2>2
<1>3. PICK f : f = body(f) /\ Fall(pattern, next, i) = f
  <2> DEFINE f == CHOOSE g : g = body(g)
  <2>1. Fall(pattern, next, i) = f
    BY DEF Fall
  <2>2. f = body(f)
    <3>1. \E g : g = body(g)
      <4> HIDE DEF g0, body
      <4> QED  BY <1>2
    <3> HIDE DEF body
    <3> QED  BY <3>1
  <2> HIDE DEF f, body
  <2> QED  BY <2>1, <2>2
<1> HIDE DEF g0
<1>4. \A t \in D : f[t] = IF goes(t) THEN f[next[t]] ELSE t
  <2> HIDE DEF goes, D
  <2> QED  BY <1>3
<1> DEFINE bad == {t \in D : f[t] # Landing(pattern, i, t)}
<1>5. ASSUME bad # {}  PROVE FALSE
  <2>1. bad \in SUBSET Nat
    OBVIOUS
  <2>2. PICK t \in bad : \A s \in bad : t <= s
    <3> HIDE DEF bad
    <3> QED  BY <1>5, <2>1, LeastNatural
  <2>3. t \in D /\ f[t] # Landing(pattern, i, t)
    OBVIOUS
  <2>4. CASE goes(t)
    <3>1. next[t] \in D /\ next[t] < t /\ Landing(pattern, i, next[t]) = Landing(pattern, i, t)
      <4> HIDE DEF goes, D, bad
      <4> QED  BY <1>1, <2>3, <2>4
    <3>2. next[t] \notin bad
      <4>1. t \in Int /\ next[t] \in Int
        BY <2>3, <3>1
      <4> HIDE DEF bad, D
      <4> QED  BY <2>2, <3>1, <4>1
    <3>3. f[next[t]] = Landing(pattern, i, next[t])
      BY <3>1, <3>2
    <3> HIDE DEF bad, D, goes
    <3> QED  BY <1>4, <2>3, <2>4, <3>1, <3>3
  <2>5. CASE ~goes(t)
    <3> HIDE DEF bad, D, goes
    <3> QED  BY <1>1, <1>4, <2>3, <2>5
  <2> QED  BY <2>4, <2>5
<1> HIDE DEF D
<1>6. \A t \in D : f[t] = Landing(pattern, i, t)
  BY <1>5
<1> QED  BY <1>3, <1>6 DEF D

\* From the longest border of a place the inner loop finds that of the next place.
LEMMA LongestFollows ==
  ASSUME NEW pattern, NEW i \in Nat, i >= 1
  PROVE  Landing(pattern, i, LongestBorder(pattern, i)) + 1 = LongestBorder(pattern, i + 1)
<1> DEFINE T == LongestBorder(pattern, i)
           L == Landing(pattern, i, T)
           S == {0} \cup Borders(pattern, i + 1)
<1>1. /\ T \in 0..(i - 1)
      /\ T = 0 \/ T \in Borders(pattern, i)
      /\ \A s \in Borders(pattern, i) : s <= T
  BY LongestIs
<1> HIDE DEF T
<1>2. /\ L \in 0..T
      /\ \/ L = 0
         \/ (L = T \/ L \in Borders(pattern, T)) /\ L # 0 /\ Char(pattern, L) = Char(pattern, i)
      /\ \A s \in 1..T : (s = T \/ s \in Borders(pattern, T)) /\ Char(pattern, s) = Char(pattern, i)
                           => s <= L
  <2>1. T \in Nat
    BY <1>1
  <2> QED  BY <2>1, LandingIs
<1> HIDE DEF L
<1>3. L \in Int /\ T \in Int
  BY <1>1, <1>2
<1>4. L + 1 \in Borders(pattern, i + 1)
  <2>1. CASE L = 0
    BY <2>1, BordersExtend
  <2>2. CASE L # 0
    <3>1. T \in Borders(pattern, i)
      BY <1>1, <1>2, <2>2
    <3>2. L \in Borders(pattern, i)
      BY <1>2, <2>2, <3>1, BordersTransitive
    <3>3. L + 1 \in Int /\ (L + 1) - 1 = L
      BY <1>3
    <3> QED  BY <1>2, <2>2, <3>2, <3>3, BordersExtend
  <2> QED  BY <2>1, <2>2
<1>5. ASSUME NEW u \in Borders(pattern, i + 1)  PROVE u <= L + 1
  <2>1. u \in Int /\ u >= 1
    BY DEF Borders
  <2>2. CASE u = 1
    BY <1>2, <1>3, <2>2
  <2>3. CASE u # 1
    <3> DEFINE s == u - 1
    <3>1. s \in Borders(pattern, i) /\ Char(pattern, s) = Char(pattern, i)
      BY <2>1, <2>3, BordersExtend
    <3>2. s \in Int /\ s >= 1 /\ s <= T
      BY <1>1, <2>1, <2>3, <3>1
    <3>3. T \in Borders(pattern, i)
      BY <1>1, <3>2
    <3> HIDE DEF s
    <3>4. s = T \/ s \in Borders(pattern, T)
      <4>1. CASE s < T
        BY <3>1, <3>3, <4>1, BordersNest
      <4> QED  BY <1>3, <3>2, <4>1
    <3>5. s <= L
      BY <1>2, <1>3, <3>1, <3>2, <3>4
    <3> QED  BY <1>3, <2>1, <3>5 DEF s
  <2> QED  BY <2>2, <2>3
<1>6. S \in SUBSET Int /\ L + 1 \in S /\ \A s \in S : s <= L + 1
  <2>1. Borders(pattern, i + 1) \subseteq Int
    BY DEF Borders
  <2>2. 0 <= L + 1
    BY <1>2, <1>3
  <2> QED  BY <1>4, <1>5, <2>1, <2>2
<1>7. Top(S) = L + 1
  <2> HIDE DEF S
  <2> QED  BY <1>6, TopOne
<1> QED  BY <1>7 DEF LongestBorder, L, T

\* The table's entry for a place, from those before it.
LEMMA NextFollows ==
  ASSUME NEW pattern, NEW i \in Nat, i >= 1
  PROVE  LET u == LongestBorder(pattern, i + 1)
         IN  /\ u \in 1..i
             /\ NextOf(pattern, i + 1) =
                  IF Char(pattern, i + 1) = Char(pattern, u) THEN NextOf(pattern, u) ELSE u
<1> DEFINE u == LongestBorder(pattern, i + 1)
           C(k) == Char(pattern, k)
           S == {0} \cup {t \in Borders(pattern, i + 1) : C(t) # C(i + 1)}
<1>1. /\ u \in 0..i
      /\ u = 0 \/ u \in Borders(pattern, i + 1)
      /\ \A s \in Borders(pattern, i + 1) : s <= u
  <2>1. i + 1 \in Nat /\ i + 1 >= 1 /\ (i + 1) - 1 = i
    OBVIOUS
  <2> QED  BY <2>1, LongestIs
<1>2. 1 \in Borders(pattern, i + 1)
  BY BordersExtend
<1> HIDE DEF u
<1>3. u \in 1..i /\ u \in Borders(pattern, i + 1)
  BY <1>1, <1>2
<1>4. Borders(pattern, i + 1) \subseteq Int
  BY DEF Borders
<1>5. S \in SUBSET Int
  BY <1>4
<1>6. CASE C(i + 1) = C(u)
  <2> DEFINE v == NextOf(pattern, u)
  <2>1. /\ v \in 0..(u - 1)
        /\ v = 0 \/ (v \in Borders(pattern, u) /\ C(v) # C(u))
        /\ \A s \in Borders(pattern, u) : C(s) # C(u) => s <= v
    <3>1. u \in Nat /\ u >= 1
      BY <1>3
    <3> QED  BY <3>1, NextIs
  <2> HIDE DEF v
  <2>2. v \in S
    <3>1. v # 0 => v \in Borders(pattern, i + 1)
      BY <1>3, <2>1, BordersTransitive
    <3> QED  BY <1>6, <2>1, <3>1
  <2>3. ASSUME NEW s \in S  PROVE s <= v
    <3>1. CASE s = 0
      BY <2>1, <3>1
    <3>2. CASE s # 0
      <4>1. s \in Borders(pattern, i + 1) /\ C(s) # C(u)
        BY <1>6, <3>2
      <4>2. s \in Int /\ s < u
        BY <1>1, <1>3, <1>4, <4>1
      <4>3. s \in Borders(pattern, u)
        BY <1>3, <4>1, <4>2, BordersNest
      <4> QED  BY <2>1, <4>1, <4>3
    <3> QED  BY <3>1, <3>2
  <2>4. Top(S) = v
    <3> HIDE DEF S
    <3> QED  BY <1>5, <2>2, <2>3, TopOne
  <2> QED  BY <1>3, <1>6, <2>4 DEF NextOf, u, v
<1>7. CASE C(i + 1) # C(u)
  <2>1. u \in S
    BY <1>3, <1>7
  <2>2. \A s \in S : s <= u
    BY <1>1, <1>3
  <2>3. Top(S) = u
    <3> HIDE DEF S
    <3> QED  BY <1>5, <2>1, <2>2, TopOne
  <2> QED  BY <1>3, <1>7, <2>3 DEF NextOf, u
<1> QED  BY <1>6, <1>7

\* The table up to a place.
Table(pattern, n) == [k \in 1..n |-> NextOf(pattern, k)]

LEMMA TableIs ==
  ASSUME NEW pattern, NEW n \in Nat
  PROVE  /\ Table(pattern, n) \in Seq(Nat) /\ Len(Table(pattern, n)) = n
         /\ \A k \in 1..n : Table(pattern, n)[k] = NextOf(pattern, k)
<1>1. \A k \in 1..n : NextOf(pattern, k) \in Nat
  <2> SUFFICES ASSUME NEW k \in 1..n  PROVE NextOf(pattern, k) \in Nat
    OBVIOUS
  <2>1. k \in Nat /\ k >= 1
    OBVIOUS
  <2>2. NextOf(pattern, k) \in 0..(k - 1)
    BY <2>1, NextIs
  <2> QED  BY <2>2
<1> QED  BY <1>1 DEF Table

LEMMA TableGrows ==
  ASSUME NEW pattern, NEW n \in Nat
  PROVE  Append(Table(pattern, n), NextOf(pattern, n + 1)) = Table(pattern, n + 1)
<1> DEFINE a == Append(Table(pattern, n), NextOf(pattern, n + 1))
           b == Table(pattern, n + 1)
<1>1. /\ Table(pattern, n) \in Seq(Nat) /\ Len(Table(pattern, n)) = n
      /\ \A k \in 1..n : Table(pattern, n)[k] = NextOf(pattern, k)
  BY TableIs
<1>2. /\ b \in Seq(Nat) /\ Len(b) = n + 1
      /\ \A k \in 1..(n + 1) : b[k] = NextOf(pattern, k)
  BY TableIs
<1>3. NextOf(pattern, n + 1) \in Nat
  <2>1. n + 1 \in 1..(n + 1)
    OBVIOUS
  <2> QED  BY <1>2, <2>1, ElementOfSeq
<1>4. a \in Seq(Nat) /\ Len(a) = n + 1 /\ \A k \in 1..(n + 1) : a[k] = NextOf(pattern, k)
  BY <1>1, <1>3
<1>5. \A k \in 1..(n + 1) : a[k] = b[k]
  BY <1>2, <1>4
<1> HIDE DEF a, b
<1> QED  BY <1>2, <1>4, <1>5, SeqEqual DEF a, b

\* next and t after each iteration.
LEMMA BuiltIs ==
  ASSUME NEW pattern, Len(pattern) \in Nat
  PROVE  \A i \in 0..Len(pattern) :
           Built(pattern)[i] = [next |-> Table(pattern, i + 1), t |-> LongestBorder(pattern, i + 1)]
<1> DEFINE D == 0..Len(pattern)
           after(i) == [next |-> Table(pattern, i + 1), t |-> LongestBorder(pattern, i + 1)]
           u(i, b) == Fall(pattern, b.next, i)[b.t] + 1
           step(i, b) ==
             [next |-> Append(b.next, IF Char(pattern, i + 1) = Char(pattern, u(i, b))
                                      THEN b.next[u(i, b)] ELSE u(i, b)),
              t |-> u(i, b)]
           body(g) == [i \in D |-> IF i = 0 THEN [next |-> <<0>>, t |-> 0] ELSE step(i, g[i - 1])]
           g0 == [i \in D |-> after(i)]
<1>1. after(0) = [next |-> <<0>>, t |-> 0]
  <2>1. NextOf(pattern, 1) = 0 /\ LongestBorder(pattern, 1) = 0
    <3>1. NextOf(pattern, 1) \in 0..0 /\ LongestBorder(pattern, 1) \in 0..0
      BY NextIs, LongestIs
    <3> QED  BY <3>1
  <2>2. Table(pattern, 1) \in Seq(Nat) /\ Len(Table(pattern, 1)) = 1 /\ Table(pattern, 1)[1] = 0
    <3>1. 1 \in Nat /\ 1 \in 1..1
      OBVIOUS
    <3>2. /\ Table(pattern, 1) \in Seq(Nat) /\ Len(Table(pattern, 1)) = 1
          /\ \A k \in 1..1 : Table(pattern, 1)[k] = NextOf(pattern, k)
      BY <3>1, TableIs, Zenon
    <3> QED  BY <2>1, <3>1, <3>2, Zenon
  <2>3. Table(pattern, 1) = <<0>>
    BY <2>2, SMTT(40)
  <2> QED  BY <2>1, <2>3
<1>2. ASSUME NEW i \in 1..Len(pattern)  PROVE step(i, after(i - 1)) = after(i)
  <2> DEFINE b == after(i - 1)
             v == LongestBorder(pattern, i + 1)
  <2>1. i \in Nat /\ i >= 1 /\ (i - 1) + 1 = i
    OBVIOUS
  <2>2. b.next = Table(pattern, i) /\ b.t = LongestBorder(pattern, i)
    BY <2>1
  <2> HIDE DEF b
  <2>3. /\ b.next \in Seq(Nat) /\ Len(b.next) = i
        /\ \A k \in 1..i : b.next[k] = NextOf(pattern, k)
    BY <2>1, <2>2, TableIs
  <2>4. b.t \in 0..i
    BY <2>1, <2>2, LongestIs
  <2>5. u(i, b) = v
    <3>1. Fall(pattern, b.next, i)[b.t] = Landing(pattern, i, b.t)
      BY <2>1, <2>3, <2>4, FallIs
    <3> QED  BY <2>1, <2>2, <3>1, LongestFollows
  <2>6. /\ v \in 1..i
        /\ NextOf(pattern, i + 1) =
             IF Char(pattern, i + 1) = Char(pattern, v) THEN NextOf(pattern, v) ELSE v
    BY <2>1, NextFollows
  <2> HIDE DEF u, v
  <2>7. (IF Char(pattern, i + 1) = Char(pattern, u(i, b)) THEN b.next[u(i, b)] ELSE u(i, b))
          = NextOf(pattern, i + 1)
    BY <2>3, <2>5, <2>6
  <2>8. Append(b.next, NextOf(pattern, i + 1)) = Table(pattern, i + 1)
    BY <2>1, <2>2, TableGrows
  <2> QED  BY <2>5, <2>7, <2>8 DEF b, v
<1> HIDE DEF step, after
<1>3. g0 = body(g0)
  <2>1. ASSUME NEW i \in D
        PROVE  g0[i] = IF i = 0 THEN [next |-> <<0>>, t |-> 0] ELSE step(i, g0[i - 1])
    <3>1. g0[i] = after(i)
      OBVIOUS
    <3>2. i # 0 => i \in 1..Len(pattern) /\ g0[i - 1] = after(i - 1)
      OBVIOUS
    <3> HIDE DEF g0
    <3> QED  BY <1>1, <1>2, <3>1, <3>2
  <2>2. g0 = [i \in D |-> g0[i]]
    OBVIOUS
  <2> HIDE DEF g0, D
  <2> QED  BY <2>1, <2>2
<1>4. PICK f : f = body(f) /\ Built(pattern) = f
  <2> DEFINE f == CHOOSE g : g = body(g)
  <2>1. Built(pattern) = f
    BY DEF Built, step
  <2>2. f = body(f)
    <3>1. \E g : g = body(g)
      <4> HIDE DEF g0, body
      <4> QED  BY <1>3
    <3> HIDE DEF body
    <3> QED  BY <3>1
  <2> HIDE DEF f, body
  <2> QED  BY <2>1, <2>2
<1> HIDE DEF g0
<1>5. \A i \in D : f[i] = IF i = 0 THEN [next |-> <<0>>, t |-> 0] ELSE step(i, f[i - 1])
  <2> HIDE DEF D
  <2> QED  BY <1>4
<1> DEFINE bad == {i \in D : f[i] # after(i)}
<1>6. ASSUME bad # {}  PROVE FALSE
  <2>1. bad \in SUBSET Nat
    OBVIOUS
  <2>2. PICK i \in bad : \A k \in bad : i <= k
    <3> HIDE DEF bad
    <3> QED  BY <1>6, <2>1, LeastNatural
  <2>3. i \in D /\ f[i] # after(i)
    OBVIOUS
  <2>4. i # 0
    BY <1>1, <1>5, <2>3
  <2>5. i \in 1..Len(pattern) /\ i - 1 \in D /\ ~(i <= i - 1)
    BY <2>3, <2>4
  <2>6. i - 1 \notin bad
    <3> HIDE DEF bad, D
    <3> QED  BY <2>2, <2>5
  <2>7. f[i - 1] = after(i - 1)
    BY <2>5, <2>6
  <2> HIDE DEF bad, D
  <2> QED  BY <1>2, <1>5, <2>3, <2>4, <2>5, <2>7
<1>7. \A i \in D : f[i] = after(i)
  <2> HIDE DEF D
  <2> QED  BY <1>6
<1> QED  BY <1>4, <1>7 DEF after

\* The entries of the table that ntyKMP looks at.
LEMMA NextIsBuilt ==
  ASSUME NEW pattern, Len(pattern) \in Nat
  PROVE  \A k \in 1..(Len(pattern) + 1) : ntyBuildNext(pattern)[k] = NextOf(pattern, k)
<1> DEFINE m == Len(pattern)
           b == Built(pattern)[m]
<1>1. b = [next |-> Table(pattern, m + 1), t |-> LongestBorder(pattern, m + 1)]
  BY BuiltIs
<1> DEFINE last == Fall(pattern, b.next, m + 1)[b.t] + 1
<1>2. ntyBuildNext(pattern) = Append(b.next, last)
  BY DEF ntyBuildNext
<1>3. b.next = Table(pattern, m + 1) /\ b.t = LongestBorder(pattern, m + 1)
  BY <1>1
<1> HIDE DEF b, last
<1>4. /\ b.next \in Seq(Nat) /\ Len(b.next) = m + 1
      /\ \A k \in 1..(m + 1) : b.next[k] = NextOf(pattern, k)
  BY <1>3, TableIs
<1>5. \A k \in 1..(m + 1) : Append(b.next, last)[k] = b.next[k]
  BY <1>4
<1> QED  BY <1>2, <1>4, <1>5

-----------------------------------------------------------------------------
(* What ntyKMP finds with that table. *)

\* After a match the search goes on in the pattern: its first character is always
\* there to begin with.
LEMMA NextOfEnd ==
  ASSUME NEW pattern \in Seq(Nat \ {0}), Len(pattern) >= 1
  PROVE  /\ NextOf(pattern, Len(pattern) + 1) \in 1..Len(pattern)
         /\ NextOf(pattern, Len(pattern) + 1) \in Borders(pattern, Len(pattern) + 1)
         /\ \A s \in Borders(pattern, Len(pattern) + 1) : s <= NextOf(pattern, Len(pattern) + 1)
<1> DEFINE m == Len(pattern)
           v == NextOf(pattern, m + 1)
<1>1. Char(pattern, m + 1) = 0
  BY DEF Char
<1>2. \A s \in Borders(pattern, m + 1) : s \in 1..m /\ Char(pattern, s) # Char(pattern, m + 1)
  <2> SUFFICES ASSUME NEW s \in Borders(pattern, m + 1)
               PROVE  s \in 1..m /\ Char(pattern, s) # Char(pattern, m + 1)
    OBVIOUS
  <2>1. s \in 1..m
    BY DEF Borders
  <2>2. Char(pattern, s) = pattern[s] /\ pattern[s] \in Nat \ {0}
    BY <2>1 DEF Char
  <2> QED  BY <1>1, <2>1, <2>2
<1>3. 1 \in Borders(pattern, m + 1)
  BY BordersExtend
<1>4. /\ v \in 0..m
      /\ v = 0 \/ v \in Borders(pattern, m + 1)
      /\ \A s \in Borders(pattern, m + 1) : s <= v
  <2>1. m + 1 \in Nat /\ m + 1 >= 1 /\ (m + 1) - 1 = m
    OBVIOUS
  <2> QED  BY <1>2, <2>1, NextIs
<1> HIDE DEF v
<1>5. v >= 1
  BY <1>3, <1>4
<1> QED  BY <1>4, <1>5 DEF v

\* Where the search can be: how far in the text, and the character of the pattern
\* it is about to compare.
Places(text, pattern) == (0..Len(text)) \X (1..Len(pattern))

\* What is left of the text is too short for what is left of the pattern.
Done(text, pattern, p) == Len(pattern) + 1 - p[2] > Len(text) - p[1]

SameLetter(text, pattern, p) == text[p[1] + 1] = pattern[p[2]]

Hit(text, pattern, p) == SameLetter(text, pattern, p) /\ p[2] = Len(pattern)

Move(text, pattern, p) ==
  IF SameLetter(text, pattern, p)
  THEN IF p[2] = Len(pattern) THEN <<p[1] + 1, NextOf(pattern, Len(pattern) + 1)>>
       ELSE <<p[1] + 1, p[2] + 1>>
  ELSE IF NextOf(pattern, p[2]) = 0 THEN <<p[1] + 1, 1>> ELSE <<p[1], NextOf(pattern, p[2])>>

\* A bound of the steps to come.
Left(text, p) == 2 * (Len(text) - p[1]) + p[2]

LEMMA StepsLeft ==
  ASSUME NEW n \in Nat, NEW m \in Nat, NEW a \in 0..n, NEW b \in 1..m
  PROVE  2 * (n - a) + b \in Nat /\ 2 * (n - a) + b < 2 * n + m + 1
OBVIOUS

\* The pattern has a character, and its table is right.
LEMMA MoveNears ==
  ASSUME NEW text, NEW pattern \in Seq(Nat \ {0}), Len(text) \in Nat, Len(pattern) >= 1,
         NEW p \in Places(text, pattern), ~Done(text, pattern, p)
  PROVE  /\ Move(text, pattern, p) \in Places(text, pattern)
         /\ Left(text, p) \in Nat /\ Left(text, Move(text, pattern, p)) \in Nat
         /\ Left(text, Move(text, pattern, p)) < Left(text, p)
<1> DEFINE n == Len(text)
           m == Len(pattern)
           i == p[1]
           j == p[2]
           q == Move(text, pattern, p)
<1>1. p = <<i, j>> /\ i \in 0..n /\ j \in 1..m
  BY DEF Places
<1>2. ~(m + 1 - j > n - i)
  BY DEF Done
<1>3. i + 1 \in 0..n
  BY <1>1, <1>2, SMTT(40)
<1>4. NextOf(pattern, m + 1) \in 1..m
  BY NextOfEnd
<1>5. NextOf(pattern, j) \in 0..(j - 1)
  <2>1. j \in Nat /\ j >= 1
    BY <1>1
  <2> QED  BY <2>1, NextIs
<1> HIDE DEF i, j
<1>6. \/ q = <<i + 1, NextOf(pattern, m + 1)>> /\ j = m
      \/ q = <<i + 1, j + 1>> /\ j # m
      \/ q = <<i + 1, 1>>
      \/ q = <<i, NextOf(pattern, j)>> /\ NextOf(pattern, j) # 0
  BY DEF Move, i, j
<1> HIDE DEF q
<1>7. /\ q[1] \in 0..n /\ q[2] \in 1..m /\ q = <<q[1], q[2]>>
      /\ 2 * (n - q[1]) + q[2] < 2 * (n - i) + j
  <2>1. CASE q = <<i + 1, NextOf(pattern, m + 1)>> /\ j = m
    <3>1. q[1] = i + 1 /\ q[2] = NextOf(pattern, m + 1)
      BY <2>1
    <3> QED  BY <1>1, <1>3, <1>4, <2>1, <3>1, SMTT(40)
  <2>2. CASE q = <<i + 1, j + 1>> /\ j # m
    <3>1. q[1] = i + 1 /\ q[2] = j + 1
      BY <2>2
    <3> QED  BY <1>1, <1>3, <2>2, <3>1, SMTT(40)
  <2>3. CASE q = <<i + 1, 1>>
    <3>1. q[1] = i + 1 /\ q[2] = 1
      BY <2>3
    <3> QED  BY <1>1, <1>3, <2>3, <3>1, SMTT(40)
  <2>4. CASE q = <<i, NextOf(pattern, j)>> /\ NextOf(pattern, j) # 0
    <3>1. q[1] = i /\ q[2] = NextOf(pattern, j)
      BY <2>4
    <3> QED  BY <1>1, <1>5, <2>4, <3>1, SMTT(40)
  <2> QED  BY <1>6, <2>1, <2>2, <2>3, <2>4
<1> QED  BY <1>1, <1>7, SMTT(40) DEF Places, Left, q, i, j

\* The loop ends: what it writes from each place on is one value.
LEMMA MatchesFollow ==
  ASSUME NEW text, NEW pattern \in Seq(Nat \ {0}), Len(text) \in Nat, Len(pattern) >= 1,
         NEW p \in Places(text, pattern)
  PROVE  LET from == Matches(text, pattern, ntyBuildNext(pattern))
         IN  from[p] =
               IF Done(text, pattern, p) THEN <<>>
               ELSE IF Hit(text, pattern, p)
               THEN <<p[1] + 1 - Len(pattern)>> \o from[Move(text, pattern, p)]
               ELSE from[Move(text, pattern, p)]
<1> DEFINE D == Places(text, pattern)
           q(r) == Move(text, pattern, r)
           body(g, r) == IF Done(text, pattern, r) THEN <<>>
                         ELSE IF Hit(text, pattern, r)
                         THEN <<r[1] + 1 - Len(pattern)>> \o g[q(r)]
                         ELSE g[q(r)]
           far(r) == Left(text, r)
           known(k) == \E g : \A r \in D : far(r) < k => g[r] = body(g, r)
           unknown == {k \in Nat : ~known(k)}
           N == 2 * Len(text) + Len(pattern) + 1
<1>1. \A r \in D : far(r) \in Nat /\ far(r) < N
  <2> SUFFICES ASSUME NEW r \in D  PROVE far(r) \in Nat /\ far(r) < N
    OBVIOUS
  <2>1. r[1] \in 0..Len(text) /\ r[2] \in 1..Len(pattern)
    BY DEF Places
  <2>2. Len(pattern) \in Nat
    OBVIOUS
  <2> QED  BY <2>1, <2>2, StepsLeft, Zenon DEF Left
<1>2. \A r \in D : ~Done(text, pattern, r) => q(r) \in D /\ far(q(r)) \in Nat /\ far(q(r)) < far(r)
  BY MoveNears
<1> HIDE DEF D, q, far
<1>3. ASSUME NEW k \in Nat, known(k)  PROVE known(k + 1)
  <2>1. PICK g : \A r \in D : far(r) < k => g[r] = body(g, r)
    BY <1>3
  <2> DEFINE h == [r \in D |-> body(g, r)]
  <2>2. ASSUME NEW r \in D, far(r) < k + 1  PROVE h[r] = body(h, r)
    <3>1. h[r] = body(g, r)
      OBVIOUS
    <3>2. ASSUME ~Done(text, pattern, r)  PROVE h[q(r)] = g[q(r)]
      <4>1. q(r) \in D /\ far(q(r)) < k
        BY <1>1, <1>2, <2>2, <3>2
      <4>2. h[q(r)] = body(g, q(r))
        BY <4>1
      <4>3. g[q(r)] = body(g, q(r))
        <5> HIDE DEF body
        <5> QED  BY <2>1, <4>1
      <4> HIDE DEF body, h
      <4> QED  BY <4>2, <4>3
    <3> HIDE DEF h
    <3> QED  BY <3>1, <3>2
  <2> HIDE DEF h, body
  <2> QED  BY <2>2
<1>4. known(0)
  <2> HIDE DEF body
  <2>1. \A r \in D : ~(far(r) < 0)
    BY <1>1
  <2> QED  BY <2>1
<1> HIDE DEF known
<1>5. unknown = {}
  <2> SUFFICES ASSUME unknown # {}  PROVE FALSE
    OBVIOUS
  <2>1. unknown \in SUBSET Nat
    OBVIOUS
  <2>2. PICK k \in unknown : \A l \in unknown : k <= l
    <3> HIDE DEF unknown
    <3> QED  BY <2>1, LeastNatural
  <2>3. k \in Nat /\ ~known(k)
    OBVIOUS
  <2>4. k # 0
    BY <1>4, <2>3
  <2>5. k - 1 \in Nat /\ ~(k <= k - 1) /\ (k - 1) + 1 = k
    BY <2>3, <2>4
  <2>6. known(k - 1)
    BY <2>2, <2>5
  <2> QED  BY <1>3, <2>3, <2>5, <2>6
<1>6. PICK g : \A r \in D : g[r] = body(g, r)
  <2>1. N \in Nat
    OBVIOUS
  <2>2. known(N)
    BY <1>5, <2>1
  <2> HIDE DEF body, N
  <2> QED  BY <1>1, <2>2 DEF known
<1> DEFINE next == ntyBuildNext(pattern)
           loop(f) == [r \in D |-> body(f, r)]
           f0 == [r \in D |-> g[r]]
<1>7. f0 = loop(f0)
  <2>1. ASSUME NEW r \in D  PROVE f0[r] = body(f0, r)
    <3>1. ~Done(text, pattern, r) => f0[q(r)] = g[q(r)]
      BY <1>2
    <3>2. f0[r] = g[r] /\ g[r] = body(g, r)
      <4> HIDE DEF body
      <4> QED  BY <1>6
    <3> HIDE DEF f0
    <3> QED  BY <3>1, <3>2
  <2>2. f0 = [r \in D |-> f0[r]]
    OBVIOUS
  <2> HIDE DEF f0, body
  <2> QED  BY <2>1, <2>2
<1>8. \A r \in D : /\ r = <<r[1], r[2]>> /\ r[1] \in 0..Len(text) /\ r[2] \in 1..Len(pattern)
                   /\ next[r[2]] = NextOf(pattern, r[2])
  <2> SUFFICES ASSUME NEW r \in D
               PROVE  /\ r = <<r[1], r[2]>> /\ r[1] \in 0..Len(text) /\ r[2] \in 1..Len(pattern)
                      /\ next[r[2]] = NextOf(pattern, r[2])
    OBVIOUS
  <2>1. r = <<r[1], r[2]>> /\ r[1] \in 0..Len(text) /\ r[2] \in 1..Len(pattern)
    BY DEF D, Places
  <2>2. r[2] \in 1..(Len(pattern) + 1)
    BY <2>1
  <2> QED  BY <2>1, <2>2, NextIsBuilt
<1>9. next[Len(pattern) + 1] = NextOf(pattern, Len(pattern) + 1)
  BY NextIsBuilt
<1> HIDE DEF next
<1> DEFINE theirs(f, r) ==
             LET i == r[1]
                 j == r[2]
             IN  IF Len(pattern) + 1 - j > Len(text) - i THEN <<>>
                 ELSE IF text[i + 1] = pattern[j]
                 THEN IF j = Len(pattern)
                      THEN <<i + 1 - Len(pattern)>> \o f[<<i + 1, next[Len(pattern) + 1]>>]
                      ELSE f[<<i + 1, j + 1>>]
                 ELSE f[IF next[j] = 0 THEN <<i + 1, 1>> ELSE <<i, next[j]>>]
           yours(f) == [r \in D |-> theirs(f, r)]
<1>10. ASSUME NEW f, NEW r \in D  PROVE theirs(f, r) = body(f, r)
  BY <1>8, <1>9 DEF Done, Hit, SameLetter, q, Move
<1>11. ASSUME NEW f  PROVE yours(f) = loop(f)
  <2> HIDE DEF theirs, body
  <2> QED  BY <1>10
<1>12. PICK f : f = yours(f) /\ Matches(text, pattern, ntyBuildNext(pattern)) = f
  <2> DEFINE f == CHOOSE h : h = yours(h)
  <2>1. Matches(text, pattern, ntyBuildNext(pattern)) = f
    BY DEF Matches, next, D, Places
  <2>2. f = yours(f)
    <3>1. \E h : h = yours(h)
      <4> HIDE DEF f0, yours, loop
      <4> QED  BY <1>7, <1>11
    <3> HIDE DEF yours
    <3> QED  BY <3>1
  <2> HIDE DEF f, yours
  <2> QED  BY <2>1, <2>2
<1>13. \A r \in D : f[r] = body(f, r)
  <2>1. f = loop(f)
    <3> HIDE DEF yours, loop
    <3> QED  BY <1>11, <1>12
  <2> HIDE DEF body
  <2> QED  BY <2>1
<1>14. f[p] = body(f, p)
  <2> HIDE DEF body
  <2> QED  BY <1>13 DEF D
<1> QED  BY <1>12, <1>14 DEF q

\* The pattern is there in the text after k characters.
Occurs(text, pattern, k) == \A x \in 1..Len(pattern) : text[k + x] = pattern[x]

\* Its first characters are, those before j.
Begins(text, pattern, k, j) == \A x \in 1..(j - 1) : text[k + x] = pattern[x]

\* The characters before the place are those of the pattern.
Aligned(text, pattern, p) ==
  p[2] - 1 <= p[1] /\ Begins(text, pattern, p[1] - p[2] + 1, p[2])

\* The occurrences that are still ahead.
Ahead(text, pattern, p) ==
  {k \in (p[1] - p[2] + 1)..(Len(text) - Len(pattern)) : Occurs(text, pattern, k)}

\* If the first characters of the pattern are there after k, so are those of a border
\* further on; and only borders can begin an occurrence before they end.
LEMMA BordersAlign ==
  ASSUME NEW text, NEW pattern \in Seq(Nat \ {0}), NEW k \in Int,
         NEW j \in 1..(Len(pattern) + 1), Begins(text, pattern, k, j)
  PROVE  /\ \A t \in Borders(pattern, j) : Begins(text, pattern, k + j - t, t)
         /\ \A d \in 1..(j - 1) :
              Occurs(text, pattern, k + d) =>
                /\ j - d \in Borders(pattern, j)
                /\ Char(pattern, j - d) = text[k + j]
<1>1. Len(pattern) \in Nat /\ j \in Int /\ 1 <= j /\ j <= Len(pattern) + 1
  OBVIOUS
<1>2. /\ \A x \in 1..Len(pattern) : Char(pattern, x) = pattern[x]
      /\ \A x \in 1..(j - 1) : text[k + x] = pattern[x]
  BY DEF Char, Begins
<1>3. ASSUME NEW t \in Borders(pattern, j), NEW x \in 1..(t - 1)
      PROVE  text[(k + j - t) + x] = pattern[x]
  <2>1. t \in 1..(j - 1) /\ Char(pattern, x) = Char(pattern, j - t + x)
    BY DEF Borders
  <2>2. x \in 1..Len(pattern) /\ j - t + x \in 1..(j - 1) /\ j - t + x \in 1..Len(pattern)
    BY <1>1, <2>1, SMTT(40)
  <2>3. text[k + (j - t + x)] = pattern[j - t + x]
    BY <1>2, <2>2
  <2>4. k + (j - t + x) = (k + j - t) + x
    BY <1>1, <2>1
  <2>5. pattern[j - t + x] = pattern[x]
    BY <1>2, <2>1, <2>2
  <2> QED  BY <2>3, <2>4, <2>5
<1>4. ASSUME NEW d \in 1..(j - 1), Occurs(text, pattern, k + d)
      PROVE  j - d \in Borders(pattern, j) /\ Char(pattern, j - d) = text[k + j]
  <2>1. j - d \in 1..(j - 1) /\ j - d \in 1..Len(pattern) /\ j - (j - d) = d
    BY <1>1
  <2>2. ASSUME NEW x \in 1..((j - d) - 1)
        PROVE  Char(pattern, x) = Char(pattern, j - (j - d) + x)
    <3>1. x \in 1..Len(pattern) /\ d + x \in 1..(j - 1) /\ d + x \in 1..Len(pattern)
      BY <1>1, <2>1
    <3>2. text[(k + d) + x] = pattern[x]
      BY <1>4, <3>1 DEF Occurs
    <3>3. text[k + (d + x)] = pattern[d + x]
      BY <1>2, <3>1
    <3>5. k + (d + x) = (k + d) + x
      BY <1>1, <3>1
    <3>4. Char(pattern, x) = Char(pattern, d + x)
      BY <1>2, <3>1, <3>2, <3>3, <3>5
    <3> QED  BY <2>1, <3>4
  <2>3. j - d \in Borders(pattern, j)
    BY <2>1, <2>2 DEF Borders
  <2>4. text[(k + d) + (j - d)] = pattern[j - d] /\ (k + d) + (j - d) = k + j
    <3>1. text[(k + d) + (j - d)] = pattern[j - d]
      BY <1>4, <2>1 DEF Occurs
    <3>2. (k + d) + (j - d) = k + j
      BY <1>1
    <3> QED  BY <3>1, <3>2
  <2> QED  BY <1>2, <2>1, <2>3, <2>4
<1> QED  BY <1>3, <1>4 DEF Begins

\* No move passes over an occurrence, and one that was found is the first.
LEMMA MoveRight ==
  ASSUME NEW text, NEW pattern \in Seq(Nat \ {0}), Len(text) \in Nat, Len(pattern) >= 1,
         NEW p \in Places(text, pattern), Aligned(text, pattern, p), ~Done(text, pattern, p)
  PROVE  LET q == Move(text, pattern, p)
             k == p[1] + 1 - Len(pattern)
         IN  /\ Aligned(text, pattern, q)
             /\ IF Hit(text, pattern, p)
                THEN /\ Ahead(text, pattern, p) = {k} \cup Ahead(text, pattern, q)
                     /\ \A x \in Ahead(text, pattern, q) : k < x
                ELSE Ahead(text, pattern, p) = Ahead(text, pattern, q)
<1> DEFINE n == Len(text)
           m == Len(pattern)
           i == p[1]
           j == p[2]
           k == i - j + 1
           q == Move(text, pattern, p)
           v == NextOf(pattern, j)
           w == NextOf(pattern, m + 1)
<1>1. i \in Int /\ 0 <= i /\ i <= n /\ j \in Int /\ 1 <= j /\ j <= m /\ m \in Nat /\ n \in Nat
  BY DEF Places
<1>2. m + 1 - j <= n - i
  BY <1>1, SMTT(40) DEF Done
<1>3. j - 1 <= i /\ Begins(text, pattern, k, j) /\ \A x \in 1..(j - 1) : text[k + x] = pattern[x]
  BY DEF Aligned, Begins
<1>4. /\ w \in 1..m /\ w \in Borders(pattern, m + 1)
      /\ \A s \in Borders(pattern, m + 1) : s <= w
  BY NextOfEnd
<1>5. /\ v \in 0..(j - 1)
      /\ v = 0 \/ v \in Borders(pattern, j)
      /\ \A s \in Borders(pattern, j) : Char(pattern, s) # Char(pattern, j) => s <= v
  <2>1. j \in Nat /\ j >= 1
    BY <1>1
  <2> QED  BY <2>1, NextIs
<1>6. \A x \in 1..m : Char(pattern, x) = pattern[x]
  BY DEF Char
<1>7. /\ Hit(text, pattern, p) => q = <<i + 1, w>>
      /\ SameLetter(text, pattern, p) /\ j # m => q = <<i + 1, j + 1>>
      /\ ~SameLetter(text, pattern, p) /\ v = 0 => q = <<i + 1, 1>>
      /\ ~SameLetter(text, pattern, p) /\ v # 0 => q = <<i, v>>
  BY DEF Move, Hit
<1>8. SameLetter(text, pattern, p) <=> text[i + 1] = pattern[j]
  BY DEF SameLetter
<1>9. k \in Int /\ k + j = i + 1
  BY <1>1, SMTT(40)
<1>10. Hit(text, pattern, p) <=> (SameLetter(text, pattern, p) /\ j = m)
  BY DEF Hit
<1> HIDE DEF i, j, k, q, v, w
<1>11. Ahead(text, pattern, p) = {x \in k..(n - m) : Occurs(text, pattern, x)}
  BY <1>1 DEF Ahead, i, j, k
<1>12. CASE Hit(text, pattern, p)
  <2>1. q[1] = i + 1 /\ q[2] = w /\ j = m /\ text[i + 1] = pattern[j]
    BY <1>7, <1>8, <1>10, <1>12
  <2>2. \A x \in 1..((m + 1) - 1) : text[k + x] = pattern[x]
    <3> SUFFICES ASSUME NEW x \in 1..m  PROVE text[k + x] = pattern[x]
      BY <1>1
    <3>1. CASE x = m
      BY <1>9, <2>1, <3>1
    <3>2. CASE x # m
      <4>1. x \in 1..(j - 1)
        BY <1>1, <2>1, <3>2
      <4> QED  BY <1>3, <4>1
    <3> QED  BY <3>1, <3>2
  <2>3. m + 1 \in 1..(m + 1) /\ Begins(text, pattern, k, m + 1)
    BY <1>1, <2>2 DEF Begins
  <2>4. /\ Begins(text, pattern, k + (m + 1) - w, w)
        /\ \A d \in 1..((m + 1) - 1) :
             Occurs(text, pattern, k + d) => (m + 1) - d \in Borders(pattern, m + 1)
    BY <1>4, <1>9, <2>3, BordersAlign
  <2>5. (i + 1) - w + 1 = k + (m + 1) - w
    BY <1>1, <1>4, <1>9, <2>1
  <2>6. Aligned(text, pattern, q)
    <3>1. w - 1 <= i + 1
      BY <1>1, <1>3, <1>4, <2>1
    <3> QED  BY <2>1, <2>4, <2>5, <3>1 DEF Aligned
  <2>7. Ahead(text, pattern, q) = {x \in (k + (m + 1) - w)..(n - m) : Occurs(text, pattern, x)}
    BY <2>1, <2>5 DEF Ahead
  <2>8. Occurs(text, pattern, k) /\ k <= n - m
    <3>1. Occurs(text, pattern, k)
      BY <1>1, <2>2 DEF Occurs
    <3> QED  BY <1>1, <1>2, <1>9, <2>1, <3>1
  <2>9. ASSUME NEW x \in k..(n - m), Occurs(text, pattern, x), x # k
        PROVE  x >= k + (m + 1) - w
    <3> SUFFICES ASSUME ~(x >= k + (m + 1) - w)  PROVE FALSE
      OBVIOUS
    <3> DEFINE d == x - k
    <3>1. d \in 1..((m + 1) - 1) /\ k + d = x /\ (m + 1) - d > w
      BY <1>1, <1>4, <1>9, <2>9, SMTT(40)
    <3> HIDE DEF d
    <3>2. (m + 1) - d \in Borders(pattern, m + 1)
      BY <2>4, <2>9, <3>1
    <3> QED  BY <1>1, <1>4, <3>1, <3>2
  <2>10. k < k + (m + 1) - w
    BY <1>1, <1>4, <1>9
  <2>11. Ahead(text, pattern, p) = {k} \cup Ahead(text, pattern, q)
    <3>1. \A x \in Ahead(text, pattern, p) : x = k \/ x \in Ahead(text, pattern, q)
      BY <1>1, <1>4, <1>9, <1>11, <2>7, <2>9, SMTT(40)
    <3>2. k \in Ahead(text, pattern, p)
      BY <1>1, <1>9, <1>11, <2>8, SMTT(40)
    <3>3. Ahead(text, pattern, q) \subseteq Ahead(text, pattern, p)
      BY <1>1, <1>4, <1>9, <1>11, <2>7, <2>10
    <3> QED  BY <3>1, <3>2, <3>3
  <2>12. \A x \in Ahead(text, pattern, q) : k < x
    BY <1>1, <1>4, <1>9, <2>7, <2>10, SMTT(40)
  <2>13. p[1] + 1 - Len(pattern) = k
    <3>1. i + 1 - m = k
      BY <1>1, <1>9, <2>1
    <3> QED  BY <3>1 DEF i
  <2> QED  BY <1>12, <2>6, <2>11, <2>12, <2>13 DEF q
<1>13. CASE SameLetter(text, pattern, p) /\ j # m
  <2>1. q[1] = i + 1 /\ q[2] = j + 1 /\ text[i + 1] = pattern[j]
    BY <1>7, <1>8, <1>13
  <2>2. (i + 1) - (j + 1) + 1 = k /\ (j + 1) - 1 = j
    BY <1>1, <1>9
  <2>3. \A x \in 1..j : text[k + x] = pattern[x]
    <3> SUFFICES ASSUME NEW x \in 1..j  PROVE text[k + x] = pattern[x]
      OBVIOUS
    <3>1. CASE x = j
      BY <1>9, <2>1, <3>1
    <3>2. CASE x # j
      <4>1. x \in 1..(j - 1)
        BY <1>1, <3>2
      <4> QED  BY <1>3, <4>1
    <3> QED  BY <3>1, <3>2
  <2>4. Aligned(text, pattern, q)
    <3>1. j <= i + 1
      BY <1>1, <1>3
    <3>2. Begins(text, pattern, k, j + 1)
      BY <2>2, <2>3 DEF Begins
    <3> QED  BY <2>1, <2>2, <3>1, <3>2 DEF Aligned
  <2>5. Ahead(text, pattern, q) = Ahead(text, pattern, p)
    BY <1>11, <2>1, <2>2 DEF Ahead
  <2> QED  BY <1>10, <1>13, <2>4, <2>5 DEF q
<1>14. CASE ~SameLetter(text, pattern, p)
  <2>1. ~Occurs(text, pattern, k) /\ pattern[j] # text[k + j] /\ Char(pattern, j) = pattern[j]
    <3>1. j \in 1..m
      BY <1>1
    <3> QED  BY <1>6, <1>8, <1>9, <1>14, <3>1 DEF Occurs
  <2>2. j \in 1..(m + 1)
    BY <1>1
  <2>3. /\ \A t \in Borders(pattern, j) : Begins(text, pattern, k + j - t, t)
        /\ \A d \in 1..(j - 1) :
             Occurs(text, pattern, k + d) =>
               j - d \in Borders(pattern, j) /\ Char(pattern, j - d) = text[k + j]
    BY <1>3, <1>9, <2>2, BordersAlign
  <2>4. ASSUME NEW x \in k..(n - m), Occurs(text, pattern, x)
        PROVE  x >= k + j - v
    <3> SUFFICES ASSUME ~(x >= k + j - v)  PROVE FALSE
      OBVIOUS
    <3> DEFINE d == x - k
    <3>1. x # k
      BY <2>1, <2>4
    <3>2. d \in 1..(j - 1) /\ k + d = x /\ j - d > v
      BY <1>1, <1>5, <1>9, <3>1
    <3> HIDE DEF d
    <3>3. j - d \in Borders(pattern, j) /\ Char(pattern, j - d) # Char(pattern, j)
      BY <2>1, <2>3, <2>4, <3>2
    <3> QED  BY <1>1, <1>5, <3>2, <3>3
  <2>5. k + j - v >= k
    BY <1>1, <1>5, <1>9
  <2>6. Ahead(text, pattern, p) = {x \in (k + j - v)..(n - m) : Occurs(text, pattern, x)}
    BY <1>1, <1>5, <1>9, <1>11, <2>4, <2>5
  <2>7. CASE v = 0
    <3>1. q[1] = i + 1 /\ q[2] = 1 /\ (i + 1) - 1 + 1 = k + j - v
      BY <1>1, <1>7, <1>9, <1>14, <2>7
    <3>2. Aligned(text, pattern, q)
      BY <1>1, <3>1 DEF Aligned, Begins
    <3>3. Ahead(text, pattern, q) = Ahead(text, pattern, p)
      BY <2>6, <3>1 DEF Ahead
    <3> QED  BY <1>10, <1>14, <3>2, <3>3 DEF q
  <2>8. CASE v # 0
    <3>1. q[1] = i /\ q[2] = v /\ i - v + 1 = k + j - v
      BY <1>1, <1>5, <1>7, <1>9, <1>14, <2>8
    <3>2. v \in Borders(pattern, j) /\ v - 1 <= i
      BY <1>1, <1>3, <1>5, <2>8
    <3>3. Begins(text, pattern, k + j - v, v)
      BY <2>3, <3>2
    <3>4. Aligned(text, pattern, q)
      BY <3>1, <3>2, <3>3 DEF Aligned
    <3>5. Ahead(text, pattern, q) = Ahead(text, pattern, p)
      BY <2>6, <3>1 DEF Ahead
    <3> QED  BY <1>10, <1>14, <3>4, <3>5 DEF q
  <2> QED  BY <2>7, <2>8
<1> QED  BY <1>10, <1>12, <1>13, <1>14

\* s is the numbers of S in their order.
Lists(s, S) ==
  /\ s \in Seq(Int)
  /\ {s[i] : i \in 1..Len(s)} = S
  /\ \A i, j \in 1..Len(s) : i < j => s[i] < s[j]

LEMMA ListsFirst ==
  ASSUME NEW s, NEW S, Lists(s, S), NEW k \in Int, \A x \in S : k < x
  PROVE  Lists(<<k>> \o s, {k} \cup S)
<1> DEFINE r == <<k>> \o s
<1>1. s \in Seq(Int) /\ Len(s) \in Nat /\ \A i \in 1..Len(s) : s[i] \in S
  BY DEF Lists
<1>2. r \in Seq(Int) /\ Len(r) = Len(s) + 1 /\ r[1] = k
      /\ \A i \in 2..(Len(s) + 1) : r[i] = s[i - 1]
  BY <1>1
<1> HIDE DEF r
<1>3. ASSUME NEW i \in 1..Len(r)  PROVE r[i] \in {k} \cup S
  <2>1. CASE i = 1
    BY <1>2, <2>1
  <2>2. CASE i # 1
    <3>1. i - 1 \in 1..Len(s) /\ i \in 2..(Len(s) + 1)
      BY <1>1, <1>2, <2>2
    <3> QED  BY <1>1, <1>2, <3>1
  <2> QED  BY <2>1, <2>2
<1>4. ASSUME NEW x \in {k} \cup S  PROVE \E i \in 1..Len(r) : r[i] = x
  <2>1. CASE x = k
    <3>1. 1 \in 1..Len(r)
      BY <1>1, <1>2
    <3> QED  BY <1>2, <2>1, <3>1
  <2>2. CASE x \in S
    <3>1. PICK i \in 1..Len(s) : s[i] = x
      BY <2>2 DEF Lists
    <3>2. i + 1 \in 1..Len(r) /\ i + 1 \in 2..(Len(s) + 1) /\ (i + 1) - 1 = i
      BY <1>1, <1>2
    <3>3. r[i + 1] = x
      BY <1>2, <3>1, <3>2
    <3> QED  BY <3>2, <3>3
  <2> QED  BY <2>1, <2>2
<1>5. ASSUME NEW i \in 1..Len(r), NEW j \in 1..Len(r), i < j  PROVE r[i] < r[j]
  <2>1. j - 1 \in 1..Len(s) /\ j \in 2..(Len(s) + 1)
    BY <1>1, <1>2, <1>5
  <2>2. r[j] = s[j - 1] /\ s[j - 1] \in S
    BY <1>1, <1>2, <2>1
  <2>3. CASE i = 1
    BY <1>2, <2>2, <2>3
  <2>4. CASE i # 1
    <3>1. i - 1 \in 1..Len(s) /\ i \in 2..(Len(s) + 1) /\ i - 1 < j - 1
      BY <1>1, <1>2, <1>5, <2>4
    <3>2. s[i - 1] < s[j - 1]
      BY <2>1, <3>1 DEF Lists
    <3> QED  BY <1>2, <2>2, <3>1, <3>2
  <2> QED  BY <2>3, <2>4
<1>6. {r[i] : i \in 1..Len(r)} = {k} \cup S
  BY <1>3, <1>4
<1> QED  BY <1>2, <1>5, <1>6 DEF Lists, r

\* From an aligned place on the search writes the occurrences ahead of it.
LEMMA SearchRight ==
  ASSUME NEW text, NEW pattern \in Seq(Nat \ {0}), Len(text) \in Nat, Len(pattern) >= 1
  PROVE  \A p \in Places(text, pattern) :
           Aligned(text, pattern, p) =>
             Lists(Matches(text, pattern, ntyBuildNext(pattern))[p], Ahead(text, pattern, p))
<1> DEFINE D == Places(text, pattern)
           from == Matches(text, pattern, ntyBuildNext(pattern))
           Right(p) == Aligned(text, pattern, p) => Lists(from[p], Ahead(text, pattern, p))
           bad == {k \in Nat : \E p \in D : Left(text, p) = k /\ ~Right(p)}
<1>1. ASSUME NEW p \in D, Done(text, pattern, p)  PROVE Right(p)
  <2>1. from[p] = <<>>
    BY <1>1, MatchesFollow
  <2>2. Ahead(text, pattern, p) = {}
    <3>1. p[1] \in Int /\ p[2] \in Int /\ Len(pattern) \in Nat
      BY DEF Places
    <3>2. p[1] - p[2] + 1 > Len(text) - Len(pattern)
      BY <1>1, <3>1, SMTT(40) DEF Done
    <3>3. (p[1] - p[2] + 1)..(Len(text) - Len(pattern)) = {}
      BY <3>1, <3>2, SMTT(40)
    <3> QED  BY <3>3 DEF Ahead
  <2>3. Lists(<<>>, {})
    BY DEF Lists
  <2> QED  BY <2>1, <2>2, <2>3
<1>2. ASSUME NEW p \in D, ~Done(text, pattern, p), Right(Move(text, pattern, p))
      PROVE  Right(p)
  <2> SUFFICES ASSUME Aligned(text, pattern, p)  PROVE Lists(from[p], Ahead(text, pattern, p))
    OBVIOUS
  <2> DEFINE q == Move(text, pattern, p)
             k == p[1] + 1 - Len(pattern)
  <2>1. /\ Aligned(text, pattern, q)
        /\ IF Hit(text, pattern, p)
           THEN /\ Ahead(text, pattern, p) = {k} \cup Ahead(text, pattern, q)
                /\ \A x \in Ahead(text, pattern, q) : k < x
           ELSE Ahead(text, pattern, p) = Ahead(text, pattern, q)
    BY <1>2, MoveRight
  <2>2. Lists(from[q], Ahead(text, pattern, q))
    <3> HIDE DEF q, from
    <3> QED  BY <1>2, <2>1 DEF q
  <2>3. from[p] = IF Hit(text, pattern, p) THEN <<k>> \o from[q] ELSE from[q]
    BY <1>2, MatchesFollow
  <2>4. k \in Int
    BY DEF Places
  <2> HIDE DEF k, q, from
  <2> QED  BY <2>1, <2>2, <2>3, <2>4, ListsFirst
<1>3. \A p \in D : Left(text, p) \in Nat
  <2> SUFFICES ASSUME NEW p \in D  PROVE Left(text, p) \in Nat
    OBVIOUS
  <2>1. p[1] \in 0..Len(text) /\ p[2] \in 1..Len(pattern)
    BY DEF Places
  <2>2. Len(pattern) \in Nat
    OBVIOUS
  <2> QED  BY <2>1, <2>2, StepsLeft, Zenon DEF Left
<1>4. ASSUME bad # {}  PROVE FALSE
  <2>1. bad \in SUBSET Nat
    OBVIOUS
  <2>2. PICK k \in bad : \A l \in bad : k <= l
    <3> HIDE DEF bad
    <3> QED  BY <1>4, <2>1, LeastNatural
  <2>3. k \in Nat /\ \E p \in D : Left(text, p) = k /\ ~Right(p)
    OBVIOUS
  <2>4. PICK p \in D : Left(text, p) = k /\ ~Right(p)
    BY <2>3
  <2> DEFINE q == Move(text, pattern, p)
             l == Left(text, q)
  <2> HIDE DEF Right
  <2>5. ~Done(text, pattern, p) /\ ~Right(q)
    BY <1>1, <1>2, <2>4
  <2>6. q \in D /\ l \in Nat /\ l < k
    BY <2>4, <2>5, MoveNears
  <2> HIDE DEF q, l, D
  <2>7. l \in bad
    BY <2>5, <2>6 DEF l
  <2>8. k <= l
    BY <2>2, <2>7
  <2> QED  BY <2>3, <2>6, <2>8
<1>5. \A p \in D : Right(p)
  <2> HIDE DEF Right, D
  <2> QED  BY <1>3, <1>4
<1> QED  BY <1>5

\* A part of the text is the pattern where each of its characters is.
LEMMA PartIsPattern ==
  ASSUME NEW S, NEW text \in Seq(S), NEW T, NEW pattern \in Seq(T),
         NEW k \in 0..(Len(text) - Len(pattern))
  PROVE  SubSeq(text, k + 1, k + Len(pattern)) = pattern <=> Occurs(text, pattern, k)
<1> DEFINE m == Len(pattern)
           part == SubSeq(text, k + 1, k + m)
<1>1. /\ Len(text) \in Nat /\ m \in Nat /\ k \in Int /\ k + 1 \in Int /\ k + m \in Int
      /\ \A x \in (k + 1)..(k + m) : text[x] \in S
  <2>1. Len(text) \in Nat /\ m \in Nat /\ \A x \in 1..Len(text) : text[x] \in S
    OBVIOUS
  <2> QED  BY <2>1
<1>2. /\ part \in Seq(S)
      /\ Len(part) = IF k + 1 <= k + m THEN (k + m) - (k + 1) + 1 ELSE 0
      /\ \A x \in 1..((k + m) - (k + 1) + 1) : part[x] = text[(k + 1) + x - 1]
  BY <1>1, SubSeqProperties
<1>3. Len(part) = m /\ \A x \in 1..m : part[x] = text[k + x]
  <2> HIDE DEF part
  <2>1. (k + m) - (k + 1) + 1 = m /\ \A x \in 1..m : (k + 1) + x - 1 = k + x
    BY <1>1
  <2>2. Len(part) = m
    BY <1>1, <1>2
  <2> QED  BY <1>2, <2>1, <2>2
<1> HIDE DEF part
<1>4. part = pattern => Occurs(text, pattern, k)
  BY <1>3 DEF Occurs
<1>5. Occurs(text, pattern, k) => part = pattern
  <2> SUFFICES ASSUME Occurs(text, pattern, k)  PROVE part = pattern
    OBVIOUS
  <2>1. \A x \in 1..m : part[x] = pattern[x]
    BY <1>3 DEF Occurs
  <2>2. part \in Seq(S \cup T) /\ pattern \in Seq(S \cup T)
    BY <1>2
  <2> QED  BY <1>3, <2>1, <2>2, SeqEqual
<1> QED  BY <1>4, <1>5 DEF part

LEMMA SearchFindsAll ==
  ASSUME NEW text \in Seq(Nat \ {0}), NEW pattern \in Seq(Nat \ {0}), Len(pattern) >= 1
  PROVE  Lists(ntyKMP(text, pattern),
               {k \in 0..(Len(text) - Len(pattern)) :
                  SubSeq(text, k + 1, k + Len(pattern)) = pattern})
<1> DEFINE p == <<0, 1>>
           S == {k \in 0..(Len(text) - Len(pattern)) :
                   SubSeq(text, k + 1, k + Len(pattern)) = pattern}
<1>1. p \in Places(text, pattern) /\ p[1] = 0 /\ p[2] = 1
  BY DEF Places
<1> HIDE DEF p
<1>2. Aligned(text, pattern, p)
  BY <1>1 DEF Aligned, Begins
<1>3. Lists(Matches(text, pattern, ntyBuildNext(pattern))[p], Ahead(text, pattern, p))
  BY <1>1, <1>2, SearchRight
<1>4. Ahead(text, pattern, p) = {k \in 0..(Len(text) - Len(pattern)) : Occurs(text, pattern, k)}
  BY <1>1 DEF Ahead
<1>5. Ahead(text, pattern, p) = S
  BY <1>4, PartIsPattern
<1> QED  BY <1>3, <1>5 DEF ntyKMP, p

-----------------------------------------------------------------------------
(* Fields of a frame. *)

\* The whole field is there.
Has(buf, at, field, size) ==
  \A i \in 0..(size - 1) : at + i \in DOMAIN buf /\ buf[at + i] = <<field, i>>

\* Nothing of it was written.
Unwritten(buf, at, size) == \A i \in 0..(size - 1) : at + i \notin DOMAIN buf

LEMMA MergeIs ==
  ASSUME NEW f, NEW g
  PROVE  /\ DOMAIN Over(f, g) = DOMAIN f \cup DOMAIN g
         /\ \A k \in DOMAIN f : Over(f, g)[k] = f[k]
         /\ \A k \in DOMAIN g : k \notin DOMAIN f => Over(f, g)[k] = g[k]
BY DEF Over

\* after is before with one field written.
Written(after, before, at, field, size) ==
  /\ DOMAIN after = (at..(at + size - 1)) \cup DOMAIN before
  /\ Has(after, at, field, size)
  /\ \A k \in DOMAIN before : k \notin at..(at + size - 1) => after[k] = before[k]

LEMMA PutIs ==
  ASSUME NEW buf, NEW at \in Nat, NEW field, NEW size \in Nat
  PROVE  Written(Put(buf, at, field, size), buf, at, field, size)
<1> DEFINE new == [k \in at..(at + size - 1) |-> <<field, k - at>>]
<1>1. Put(buf, at, field, size) = Over(new, buf)
  BY DEF Put
<1>2. /\ DOMAIN new = at..(at + size - 1)
      /\ \A k \in at..(at + size - 1) : new[k] = <<field, k - at>>
  OBVIOUS
<1> HIDE DEF new
<1>3. /\ DOMAIN Over(new, buf) = (at..(at + size - 1)) \cup DOMAIN buf
      /\ \A k \in at..(at + size - 1) : Over(new, buf)[k] = <<field, k - at>>
      /\ \A k \in DOMAIN buf : k \notin at..(at + size - 1) => Over(new, buf)[k] = buf[k]
  <2>1. /\ DOMAIN Over(new, buf) = DOMAIN new \cup DOMAIN buf
        /\ \A k \in DOMAIN new : Over(new, buf)[k] = new[k]
        /\ \A k \in DOMAIN buf : k \notin DOMAIN new => Over(new, buf)[k] = buf[k]
    BY MergeIs
  <2> QED  BY <1>2, <2>1
<1>4. Has(Over(new, buf), at, field, size)
  <2> SUFFICES ASSUME NEW i \in 0..(size - 1)
               PROVE  at + i \in DOMAIN Over(new, buf) /\ Over(new, buf)[at + i] = <<field, i>>
    BY DEF Has
  <2>1. at + i \in at..(at + size - 1) /\ (at + i) - at = i
    OBVIOUS
  <2> QED  BY <1>3, <2>1
<1> QED  BY <1>1, <1>3, <1>4 DEF Written

\* Writing one field leaves the others.
LEMMA PutKeeps ==
  ASSUME NEW buf, NEW at \in Nat, NEW field, NEW size \in Nat,
         NEW a \in Nat, NEW n \in Nat, a + n <= at \/ at + size <= a
  PROVE  /\ \A other : Has(buf, a, other, n) => Has(Put(buf, at, field, size), a, other, n)
         /\ Unwritten(buf, a, n) => Unwritten(Put(buf, at, field, size), a, n)
<1>1. \A i \in 0..(n - 1) : a + i \notin at..(at + size - 1)
  OBVIOUS
<1>2. Written(Put(buf, at, field, size), buf, at, field, size)
  BY PutIs
<1> QED  BY <1>1, <1>2 DEF Written, Has, Unwritten

LEMMA MergeHas ==
  ASSUME NEW f, NEW g, NEW at \in Nat, NEW field, NEW size \in Nat
  PROVE  /\ Has(f, at, field, size) => Has(Over(f, g), at, field, size)
         /\ Has(g, at, field, size) /\ Unwritten(f, at, size) => Has(Over(f, g), at, field, size)
<1>1. /\ DOMAIN Over(f, g) = DOMAIN f \cup DOMAIN g
      /\ \A k \in DOMAIN f : Over(f, g)[k] = f[k]
      /\ \A k \in DOMAIN g : k \notin DOMAIN f => Over(f, g)[k] = g[k]
  BY MergeIs
<1> QED  BY <1>1 DEF Has, Unwritten

\* A field that is there is read back.
LEMMA HasReads ==
  ASSUME NEW buf, NEW at \in Nat, NEW field, NEW size \in Nat, Has(buf, at, field, size)
  PROVE  Get(buf, at, size) = Whole(field, size)
BY DEF Has, Get, Whole

LEMMA UnwrittenReads ==
  ASSUME NEW buf, NEW at \in Nat, NEW size \in Nat, Unwritten(buf, at, size)
  PROVE  Get(buf, at, size) = [i \in 0..(size - 1) |-> Blank]
BY DEF Unwritten, Get

\* What the network module sends of a buffer: what lies before the checksum and not
\* where it puts its number stays.
LEMMA SentIs ==
  ASSUME NEW buf, NEW len \in Nat, len >= 19, Has(buf, 1, "MSG_REQ", 1) \/ Has(buf, 1, "MSG_ACK", 1)
  PROVE  LET frame == Sent(buf, len)
             bytes == frame.bytes
         IN  /\ frame.length = len /\ DOMAIN bytes \subseteq 0..(len - 1)
             /\ Has(bytes, len - 4, "crc", 4)
             /\ Has(buf, 1, "MSG_REQ", 1) => Has(bytes, 11, "ackNum", 4)
             /\ \A a, n \in Nat :
                  /\ a + n <= len - 4
                  /\ a + n <= 11 \/ a >= 15 \/ Has(buf, 1, "MSG_ACK", 1)
                  => /\ \A other : Has(buf, a, other, n) => Has(bytes, a, other, n)
                     /\ Unwritten(buf, a, n) => Unwritten(bytes, a, n)
<1> DEFINE copy == [k \in DOMAIN buf \cap (0..(len - 1)) |-> buf[k]]
           ask == buf[1] = <<"MSG_REQ", 0>>
           numbered == IF ask THEN Put(copy, 11, "ackNum", 4) ELSE copy
           bytes == Put(numbered, len - 4, "crc", 4)
<1>1. NTY_PROTO_MESSAGE_TYPE = 1 /\ NTY_PROTO_ACKNUM_IDX = 11
  BY DEF NTY_PROTO_MESSAGE_TYPE, NTY_PROTO_ACKNUM_IDX, NTY_PROTO_DEVID_IDX, NTY_PROTO_TYPE_IDX,
         NEY_PROTO_VERSION_IDX
<1>2. Sent(buf, len) = [length |-> len, bytes |-> bytes]
  BY <1>1 DEF Sent
<1>3. /\ Has(buf, 1, "MSG_REQ", 1) <=> ask
      /\ Has(buf, 1, "MSG_ACK", 1) <=> ~ask
  <2>1. \A f : Has(buf, 1, f, 1) => buf[1] = <<f, 0>>
    <3> SUFFICES ASSUME NEW f, Has(buf, 1, f, 1)  PROVE buf[1] = <<f, 0>>
      OBVIOUS
    <3>1. 0 \in 0..(1 - 1) /\ 1 + 0 = 1
      OBVIOUS
    <3> QED  BY <3>1 DEF Has
  <2>2. <<"MSG_REQ", 0>> # <<"MSG_ACK", 0>>
    OBVIOUS
  <2> QED  BY <2>1, <2>2
<1>4. DOMAIN copy \subseteq 0..(len - 1) /\ \A k \in DOMAIN copy : copy[k] = buf[k]
  OBVIOUS
<1>5. ASSUME NEW a \in Nat, NEW n \in Nat, a + n <= len - 4
      PROVE  /\ \A other : Has(buf, a, other, n) => Has(copy, a, other, n)
             /\ Unwritten(buf, a, n) => Unwritten(copy, a, n)
  <2>1. \A i \in 0..(n - 1) : a + i \in 0..(len - 1)
    BY <1>5
  <2> QED  BY <2>1 DEF Has, Unwritten
<1> HIDE DEF copy, ask
<1>6. DOMAIN numbered \subseteq 0..(len - 1) /\ (ask => Has(numbered, 11, "ackNum", 4))
  <2>1. Written(Put(copy, 11, "ackNum", 4), copy, 11, "ackNum", 4)
    BY PutIs
  <2>2. 11..(11 + 4 - 1) \subseteq 0..(len - 1)
    OBVIOUS
  <2> QED  BY <1>4, <2>1, <2>2 DEF Written
<1>7. ASSUME NEW a \in Nat, NEW n \in Nat, a + n <= len - 4, a + n <= 11 \/ a >= 15 \/ ~ask
      PROVE  /\ \A other : Has(buf, a, other, n) => Has(numbered, a, other, n)
             /\ Unwritten(buf, a, n) => Unwritten(numbered, a, n)
  <2>1. CASE ask
    <3>1. a + n <= 11 \/ 11 + 4 <= a
      BY <1>7, <2>1
    <3> QED  BY <1>5, <1>7, <2>1, <3>1, PutKeeps
  <2>2. CASE ~ask
    BY <1>5, <1>7, <2>2
  <2> QED  BY <2>1, <2>2
<1> HIDE DEF numbered
<1>9. len - 4 \in Nat /\ 11 + 4 <= len - 4 /\ (len - 4) + 4 - 1 = len - 1
  OBVIOUS
<1>10. DOMAIN bytes \subseteq 0..(len - 1) /\ Has(bytes, len - 4, "crc", 4)
  <2>1. Written(bytes, numbered, len - 4, "crc", 4)
    BY <1>9, PutIs
  <2> QED  BY <1>6, <1>9, <2>1 DEF Written
<1>11. ask => Has(bytes, 11, "ackNum", 4)
  BY <1>6, <1>9, PutKeeps
<1>12. ASSUME NEW a \in Nat, NEW n \in Nat, a + n <= len - 4, a + n <= 11 \/ a >= 15 \/ ~ask
       PROVE  /\ \A other : Has(buf, a, other, n) => Has(bytes, a, other, n)
              /\ Unwritten(buf, a, n) => Unwritten(bytes, a, n)
  BY <1>7, <1>9, <1>12, PutKeeps
<1> HIDE DEF bytes
<1> QED  BY <1>2, <1>3, <1>10, <1>11, <1>12

\* The beginning of a frame.
Headed(buf, msg, type) ==
  Has(buf, 1, msg, 1) /\ Has(buf, 2, type, 1) /\ Has(buf, 3, "devid", 8)

LEMMA Offsets ==
  /\ NEY_PROTO_VERSION_IDX = 0 /\ NTY_PROTO_MESSAGE_TYPE = 1 /\ NTY_PROTO_TYPE_IDX = 2
  /\ NTY_PROTO_DEVID_IDX = 3 /\ NTY_PROTO_ACKNUM_IDX = 11 /\ NTY_PROTO_DEST_DEVID_IDX = 15
  /\ NTY_PROTO_LOGIN_REQ_CRC_IDX = 15 /\ NTY_PROTO_CRC_IDX = 23
  /\ NTY_PROTO_DATAPACKET_CONTENT_COUNT_IDX = 23 /\ NTY_PROTO_DATAPACKET_CONTENT_IDX = 25
  /\ NTY_PROTO_P2P_NOTIFY_CRC_IDX = 29
BY DEF NEY_PROTO_VERSION_IDX, NTY_PROTO_MESSAGE_TYPE, NTY_PROTO_TYPE_IDX, NTY_PROTO_DEVID_IDX,
       NTY_PROTO_ACKNUM_IDX, NTY_PROTO_DEST_DEVID_IDX, NTY_PROTO_LOGIN_REQ_CRC_IDX,
       NTY_PROTO_CRC_IDX, NTY_PROTO_DATAPACKET_CONTENT_COUNT_IDX,
       NTY_PROTO_DATAPACKET_CONTENT_IDX, NTY_PROTO_P2P_NOTIFY_CRC_IDX

LEMMA HeaderIs ==
  ASSUME NEW msg, NEW type
  PROVE  Headed(Header(msg, type), msg, type) /\ DOMAIN Header(msg, type) \subseteq 0..10
<1> DEFINE a == Put(<<>>, 0, "A", 1)
           b == Put(a, 1, msg, 1)
           c == Put(b, 2, type, 1)
           d == Put(c, 3, "devid", 8)
<1>1. Header(msg, type) = d
  BY Offsets DEF Header
<1>2. /\ Written(a, <<>>, 0, "A", 1) /\ Written(b, a, 1, msg, 1)
      /\ Written(c, b, 2, type, 1) /\ Written(d, c, 3, "devid", 8)
  BY PutIs
<1>3. Has(b, 1, msg, 1) /\ Has(c, 2, type, 1) /\ Has(d, 3, "devid", 8)
  BY <1>2 DEF Written
<1>4. Has(c, 1, msg, 1)
  BY <1>3, PutKeeps
<1>5. Has(d, 1, msg, 1) /\ Has(d, 2, type, 1)
  BY <1>3, <1>4, PutKeeps
<1>6. DOMAIN d \subseteq 0..10
  <2> HIDE DEF a, b, c, d
  <2>1. DOMAIN <<>> = {}
    OBVIOUS
  <2>2. DOMAIN a \subseteq 0..10
    BY <1>2, <2>1 DEF Written
  <2>3. DOMAIN b \subseteq 0..10
    BY <1>2, <2>2 DEF Written
  <2>4. DOMAIN c \subseteq 0..10
    BY <1>2, <2>3 DEF Written
  <2> QED  BY <1>2, <2>4 DEF Written
<1> QED  BY <1>1, <1>3, <1>5, <1>6 DEF Headed

LEMMA HeadedKept ==
  ASSUME NEW buf, NEW msg, NEW type, Headed(buf, msg, type),
         NEW at \in Nat, at >= 11, NEW field, NEW size \in Nat
  PROVE  Headed(Put(buf, at, field, size), msg, type)
<1>1. 1 + 1 <= at /\ 2 + 1 <= at /\ 3 + 8 <= at
  OBVIOUS
<1> QED  BY <1>1, PutKeeps DEF Headed

LEMMA ToFriendIs ==
  ASSUME NEW msg, NEW type
  PROVE  LET buf == ToFriend(msg, type)
         IN  /\ Headed(buf, msg, type) /\ Has(buf, 15, "dest", 8)
             /\ Unwritten(buf, 11, 4)
             /\ \A n \in Nat : Unwritten(buf, 25, n)
<1> DEFINE h == Header(msg, type)
           buf == Put(h, 15, "dest", 8)
<1>1. ToFriend(msg, type) = buf
  BY Offsets DEF ToFriend
<1>2. Headed(h, msg, type) /\ DOMAIN h \subseteq 0..10
  BY HeaderIs
<1>3. Written(buf, h, 15, "dest", 8)
  BY PutIs
<1>4. Headed(buf, msg, type)
  BY <1>2, HeadedKept
<1> HIDE DEF buf, h
<1>5. DOMAIN buf \subseteq (0..10) \cup (15..22)
  BY <1>2, <1>3 DEF Written
<1>6. Unwritten(buf, 11, 4) /\ \A n \in Nat : Unwritten(buf, 25, n)
  BY <1>5 DEF Unwritten
<1>7. Has(buf, 15, "dest", 8)
  BY <1>3 DEF Written
<1> QED  BY <1>1, <1>4, <1>6, <1>7

-----------------------------------------------------------------------------
(* Whole frames. *)

\* FramesReadBack of one frame.
ReadsBack(kind, length, number, frame) ==
  LET bytes == frame.bytes
      Holds(at, field, size) == Get(bytes, at, size) = Whole(field, size)
  IN  /\ frame.length < CACHE_BUFFER_SIZE
      /\ DOMAIN bytes \subseteq 0..(frame.length - 1)
      /\ Holds(NTY_PROTO_TYPE_IDX, kind, 1)
      /\ Holds(NTY_PROTO_DEVID_IDX, "devid", 8)
      /\ \/ Holds(NTY_PROTO_ACKNUM_IDX, number, 4)
         \/ number = "zero" /\ Get(bytes, NTY_PROTO_ACKNUM_IDX, 4) = [i \in 0..3 |-> Blank]
      /\ Holds(frame.length - 4, "crc", 4)
      /\ kind # "LOGIN_REQ" => Holds(NTY_PROTO_DEST_DEVID_IDX, "dest", 8)
      /\ kind \in {"DATAPACKET_REQ", "P2PDATAPACKET_REQ"} =>
           /\ Holds(NTY_PROTO_DATAPACKET_CONTENT_COUNT_IDX, "count", 2)
           /\ Holds(NTY_PROTO_DATAPACKET_CONTENT_IDX, "content", length)

LEMMA FrameReads ==
  ASSUME NEW buf, NEW len \in Nat, 19 <= len, len < 1048, NEW length \in Nat,
         NEW msg, NEW kind, NEW number, Headed(buf, msg, kind),
         \/ msg = "MSG_REQ" /\ number = "ackNum"
         \/ msg = "MSG_ACK" /\ Has(buf, 11, number, 4)
         \/ msg = "MSG_ACK" /\ number = "zero" /\ Unwritten(buf, 11, 4),
         kind # "LOGIN_REQ" => 27 <= len /\ Has(buf, 15, "dest", 8),
         kind \in {"DATAPACKET_REQ", "P2PDATAPACKET_REQ"} =>
           29 + length <= len /\ Has(buf, 23, "count", 2) /\ Has(buf, 25, "content", length)
  PROVE  ReadsBack(kind, length, number, Sent(buf, len))
<1> DEFINE frame == Sent(buf, len)
           bytes == frame.bytes
<1>1. Has(buf, 1, msg, 1) /\ Has(buf, 2, kind, 1) /\ Has(buf, 3, "devid", 8)
  BY DEF Headed
<1>2. /\ frame.length = len /\ DOMAIN bytes \subseteq 0..(len - 1)
      /\ Has(bytes, len - 4, "crc", 4)
      /\ Has(buf, 1, "MSG_REQ", 1) => Has(bytes, 11, "ackNum", 4)
      /\ \A a, n \in Nat :
           /\ a + n <= len - 4
           /\ a + n <= 11 \/ a >= 15 \/ Has(buf, 1, "MSG_ACK", 1)
           => /\ \A other : Has(buf, a, other, n) => Has(bytes, a, other, n)
              /\ Unwritten(buf, a, n) => Unwritten(bytes, a, n)
  BY <1>1, SentIs, Zenon
<1> HIDE DEF frame
<1>3. Has(bytes, 2, kind, 1) /\ Has(bytes, 3, "devid", 8)
  <2>1. 2 + 1 <= len - 4 /\ 2 + 1 <= 11 /\ 3 + 8 <= len - 4 /\ 3 + 8 <= 11
    OBVIOUS
  <2> HIDE DEF bytes
  <2> QED  BY <1>1, <1>2, <2>1
<1>4. \/ Has(bytes, 11, number, 4)
      \/ number = "zero" /\ Unwritten(bytes, 11, 4)
  <2>1. 11 + 4 <= len - 4
    OBVIOUS
  <2> HIDE DEF bytes
  <2>2. CASE msg = "MSG_REQ" /\ number = "ackNum"
    BY <1>1, <1>2, <2>2
  <2>3. CASE msg = "MSG_ACK"
    <3>1. Has(buf, 1, "MSG_ACK", 1)
      BY <1>1, <2>3
    <3>2. Has(buf, 11, number, 4) => Has(bytes, 11, number, 4)
      BY <1>2, <2>1, <3>1
    <3>3. Unwritten(buf, 11, 4) => Unwritten(bytes, 11, 4)
      BY <1>2, <2>1, <3>1
    <3>4. "MSG_REQ" # "MSG_ACK"
      OBVIOUS
    <3> QED  BY <2>3, <3>2, <3>3, <3>4
  <2> QED  BY <2>2, <2>3
<1>5. kind # "LOGIN_REQ" => Has(bytes, 15, "dest", 8)
  <2> SUFFICES ASSUME kind # "LOGIN_REQ"  PROVE Has(bytes, 15, "dest", 8)
    OBVIOUS
  <2>1. 15 + 8 <= len - 4
    OBVIOUS
  <2> HIDE DEF bytes
  <2> QED  BY <1>2, <2>1
<1>6. kind \in {"DATAPACKET_REQ", "P2PDATAPACKET_REQ"} =>
        Has(bytes, 23, "count", 2) /\ Has(bytes, 25, "content", length)
  <2> SUFFICES ASSUME kind \in {"DATAPACKET_REQ", "P2PDATAPACKET_REQ"}
               PROVE  Has(bytes, 23, "count", 2) /\ Has(bytes, 25, "content", length)
    OBVIOUS
  <2>1. 23 + 2 <= len - 4 /\ 25 + length <= len - 4
    OBVIOUS
  <2> QED  BY <1>2, <2>1
<1>7. /\ Get(bytes, 2, 1) = Whole(kind, 1) /\ Get(bytes, 3, 8) = Whole("devid", 8)
      /\ \/ Get(bytes, 11, 4) = Whole(number, 4)
         \/ number = "zero" /\ Get(bytes, 11, 4) = [i \in 0..3 |-> Blank]
      /\ Get(bytes, len - 4, 4) = Whole("crc", 4)
  <2>1. len - 4 \in Nat
    OBVIOUS
  <2>2. Get(bytes, len - 4, 4) = Whole("crc", 4)
    BY <1>2, <2>1, HasReads
  <2>3. Unwritten(bytes, 11, 4) => Get(bytes, 11, 4) = [i \in 0..(4 - 1) |-> Blank]
    BY UnwrittenReads
  <2>4. 4 - 1 = 3
    OBVIOUS
  <2>5. Get(bytes, 2, 1) = Whole(kind, 1) /\ Get(bytes, 3, 8) = Whole("devid", 8)
    BY <1>3, HasReads
  <2>6. Has(bytes, 11, number, 4) => Get(bytes, 11, 4) = Whole(number, 4)
    BY HasReads
  <2> QED  BY <1>4, <2>2, <2>3, <2>4, <2>5, <2>6
<1>8. /\ kind # "LOGIN_REQ" => Get(bytes, 15, 8) = Whole("dest", 8)
      /\ kind \in {"DATAPACKET_REQ", "P2PDATAPACKET_REQ"} =>
           Get(bytes, 23, 2) = Whole("count", 2) /\ Get(bytes, 25, length) = Whole("content", length)
  BY <1>5, <1>6, HasReads
<1>9. len < CACHE_BUFFER_SIZE
  BY DEF CACHE_BUFFER_SIZE
<1> HIDE DEF bytes
<1> QED  BY <1>2, <1>7, <1>8, <1>9, Offsets DEF ReadsBack, bytes, frame

\* The two data frames: what the caller left of the content stays behind the header.
LEMMA DataReads ==
  ASSUME NEW kind \in {"DATAPACKET_REQ", "P2PDATAPACKET_REQ"},
         NEW length \in Nat, length < 1048 - 25 - 4
  PROVE  ReadsBack(kind, length, "ackNum",
                   DataFrame(Over(ToFriend("MSG_REQ", kind), Content(length)), length))
<1> DEFINE f == ToFriend("MSG_REQ", kind)
           c == Content(length)
           o == Over(f, c)
           buf == Put(o, 23, "count", 2)
           len == 25 + length + 4
<1>1. /\ Headed(f, "MSG_REQ", kind) /\ Has(f, 15, "dest", 8)
      /\ \A n \in Nat : Unwritten(f, 25, n)
  BY ToFriendIs
<1>2. Has(c, 25, "content", length)
  <2>1. c = Put(<<>>, 25, "content", length)
    BY Offsets DEF Content
  <2>2. Written(Put(<<>>, 25, "content", length), <<>>, 25, "content", length)
    BY PutIs
  <2> QED  BY <2>1, <2>2 DEF Written
<1> HIDE DEF f, c
<1>3. /\ Headed(o, "MSG_REQ", kind) /\ Has(o, 15, "dest", 8)
      /\ Has(o, 25, "content", length)
  BY <1>1, <1>2, MergeHas DEF Headed
<1> HIDE DEF o
<1>4. Headed(buf, "MSG_REQ", kind)
  BY <1>3, HeadedKept
<1>5. Has(buf, 15, "dest", 8) /\ Has(buf, 25, "content", length)
  <2>1. 15 + 8 <= 23 /\ 23 + 2 <= 25
    OBVIOUS
  <2> QED  BY <1>3, <2>1, PutKeeps
<1>6. Has(buf, 23, "count", 2)
  <2>1. Written(buf, o, 23, "count", 2)
    BY PutIs
  <2> QED  BY <2>1 DEF Written
<1>7. len \in Nat /\ 29 + length <= len /\ len < 1048 /\ 27 <= len /\ 19 <= len
  OBVIOUS
<1>8. DataFrame(o, length) = Sent(buf, len)
  BY Offsets DEF DataFrame
<1>9. kind # "LOGIN_REQ"
  OBVIOUS
<1> HIDE DEF buf, len
<1>10. ReadsBack(kind, length, "ackNum", Sent(buf, len))
  BY <1>4, <1>5, <1>6, <1>7, <1>9, FrameReads
<1> QED  BY <1>8, <1>10 DEF o, f, c

\* The frames without content: requests, whose number the network module writes, and
\* answers, which bring theirs.
PlainKinds == Kinds \ {"LOGIN_REQ", "DATAPACKET_REQ", "P2PDATAPACKET_REQ"}

LEMMA RequestReads ==
  ASSUME NEW kind \in PlainKinds, NEW length \in Nat, NEW len \in {27, 33}
  PROVE  ReadsBack(kind, length, "ackNum", Sent(ToFriend("MSG_REQ", kind), len))
<1>1. len \in Nat /\ 19 <= len /\ 27 <= len /\ len < 1048
  OBVIOUS
<1>2. kind # "LOGIN_REQ" /\ kind \notin {"DATAPACKET_REQ", "P2PDATAPACKET_REQ"}
  BY DEF PlainKinds
<1>3. /\ Headed(ToFriend("MSG_REQ", kind), "MSG_REQ", kind)
      /\ Has(ToFriend("MSG_REQ", kind), 15, "dest", 8)
  BY ToFriendIs
<1> QED  BY <1>1, <1>2, <1>3, FrameReads

LEMMA NumberedReads ==
  ASSUME NEW kind \in PlainKinds, NEW length \in Nat, NEW field,
         NEW msg, NEW number,
         (msg = "MSG_ACK" /\ number = field) \/ (msg = "MSG_REQ" /\ number = "ackNum")
  PROVE  ReadsBack(kind, length, number,
                   Sent(Put(ToFriend(msg, kind), NTY_PROTO_ACKNUM_IDX, field, 4),
                        NTY_PROTO_CRC_IDX + 4))
<1> DEFINE f == ToFriend(msg, kind)
           buf == Put(f, 11, field, 4)
<1>1. kind # "LOGIN_REQ" /\ kind \notin {"DATAPACKET_REQ", "P2PDATAPACKET_REQ"}
  BY DEF PlainKinds
<1>2. Headed(f, msg, kind) /\ Has(f, 15, "dest", 8)
  BY ToFriendIs
<1> HIDE DEF f
<1>3. Headed(buf, msg, kind)
  BY <1>2, HeadedKept
<1>4. Has(buf, 15, "dest", 8)
  <2>1. 11 + 4 <= 15
    OBVIOUS
  <2> QED  BY <1>2, <2>1, PutKeeps
<1>5. Has(buf, 11, field, 4)
  <2>1. Written(buf, f, 11, field, 4)
    BY PutIs
  <2> QED  BY <2>1 DEF Written
<1> HIDE DEF buf
<1>6. \/ msg = "MSG_REQ" /\ number = "ackNum"
      \/ msg = "MSG_ACK" /\ Has(buf, 11, number, 4)
  BY <1>5
<1>7. 27 \in Nat /\ 19 <= 27 /\ 27 <= 27 /\ 27 < 1048
  OBVIOUS
<1>8. ReadsBack(kind, length, number, Sent(buf, 27))
  BY <1>1, <1>3, <1>4, <1>6, <1>7, FrameReads
<1>9. NTY_PROTO_ACKNUM_IDX = 11 /\ NTY_PROTO_CRC_IDX + 4 = 27
  BY Offsets
<1> QED  BY <1>8, <1>9 DEF buf, f

LEMMA UnnumberedReads ==
  ASSUME NEW kind \in PlainKinds, NEW length \in Nat
  PROVE  ReadsBack(kind, length, "zero", Sent(ToFriend("MSG_ACK", kind), 27))
<1>1. 27 \in Nat /\ 19 <= 27 /\ 27 <= 27 /\ 27 < 1048
  OBVIOUS
<1>2. kind # "LOGIN_REQ" /\ kind \notin {"DATAPACKET_REQ", "P2PDATAPACKET_REQ"}
  BY DEF PlainKinds
<1>3. /\ Headed(ToFriend("MSG_ACK", kind), "MSG_ACK", kind)
      /\ Has(ToFriend("MSG_ACK", kind), 15, "dest", 8)
      /\ Unwritten(ToFriend("MSG_ACK", kind), 11, 4)
  BY ToFriendIs
<1> QED  BY <1>1, <1>2, <1>3, FrameReads

LEMMA LoginReads ==
  ASSUME NEW length \in Nat
  PROVE  ReadsBack("LOGIN_REQ", length, "ackNum", SimpleFrame("LOGIN_REQ"))
<1>1. 19 \in Nat /\ 19 <= 19 /\ 19 < 1048
  OBVIOUS
<1>2. Headed(Header("MSG_REQ", "LOGIN_REQ"), "MSG_REQ", "LOGIN_REQ")
  BY HeaderIs
<1>3. ReadsBack("LOGIN_REQ", length, "ackNum", Sent(Header("MSG_REQ", "LOGIN_REQ"), 19))
  BY <1>1, <1>2, FrameReads
<1>4. NTY_PROTO_LOGIN_REQ_CRC_IDX + 4 = 19
  BY Offsets
<1> QED  BY <1>3, <1>4 DEF SimpleFrame

\* Every frame the watch sends is read back, whatever it is and however long its
\* content.
LEMMA FrameIsRead ==
  ASSUME input.of = "frame", input.kind \in Kinds, input.length \in Lengths,
         TheFrame # Refused
  PROVE  ReadsBack(input.kind, input.length, Number, TheFrame)
<1> DEFINE kind == input.kind
           n == input.length
           friend == input.friend
<1>1. n \in Nat /\ n < 1048 - 25 - 4
  <2>1. n \in 0..(CACHE_BUFFER_SIZE - NTY_PROTO_DATAPACKET_CONTENT_IDX - 4 - 1)
    BY InputsAssumption, Zenon
  <2>2. ASSUME NEW all \in Int, NEW before \in Int, NEW l \in 0..(all - before - 4 - 1)
        PROVE  l \in Nat /\ l < all - before - 4
    OBVIOUS
  <2>3. CACHE_BUFFER_SIZE = 1048 /\ NTY_PROTO_DATAPACKET_CONTENT_IDX = 25
    BY Offsets DEF CACHE_BUFFER_SIZE
  <2>4. n \in Nat /\ n < CACHE_BUFFER_SIZE - NTY_PROTO_DATAPACKET_CONTENT_IDX - 4
    <3>1. CACHE_BUFFER_SIZE \in Int /\ NTY_PROTO_DATAPACKET_CONTENT_IDX \in Int
      BY <2>3
    <3> QED  BY <2>1, <2>2, <3>1
  <2> QED  BY <2>3, <2>4
<1>2. NTY_PROTO_CRC_IDX + 4 = 27 /\ NTY_PROTO_P2P_NOTIFY_CRC_IDX + 4 = 33
  BY Offsets
<1>3. CASE kind = "LOGIN_REQ"
  <2>1. TheFrame = SimpleFrame("LOGIN_REQ") /\ Number = "ackNum"
    BY <1>3 DEF TheFrame, Number
  <2> QED  BY <1>1, <1>3, <2>1, LoginReads
<1>4. CASE kind = "DATAPACKET_REQ"
  <2>1. TheFrame = DataFrame(Over(ToFriend("MSG_REQ", kind), Content(n)), n) /\ Number = "ackNum"
    BY <1>4 DEF TheFrame, Number, sendProxyUserDataPacket
  <2> QED  BY <1>1, <1>4, <2>1, DataReads
<1>5. CASE kind = "P2PDATAPACKET_REQ"
  <2>1. TheFrame = DataFrame(Over(ToFriend("MSG_REQ", kind), Content(n)), n) /\ Number = "ackNum"
    BY <1>5 DEF TheFrame, Number, sendP2PDataPacketReq
  <2> QED  BY <1>1, <1>5, <2>1, DataReads
<1>6. CASE kind = "DATAPACKET_ACK"
  <2>1. TheFrame = Sent(Put(ToFriend("MSG_ACK", kind), NTY_PROTO_ACKNUM_IDX, "ack", 4),
                        NTY_PROTO_CRC_IDX + 4) /\ Number = "ack" /\ kind \in PlainKinds
    BY <1>6 DEF TheFrame, Number, sendProxyDataPacketAck, PlainKinds, Kinds
  <2> QED  BY <1>1, <2>1, NumberedReads
<1>7. CASE kind \in {"P2P_NOTIFY_ACK", "P2PDATAPACKET_ACK"}
  <2>1. TheFrame = Sent(Put(ToFriend("MSG_ACK", kind), NTY_PROTO_ACKNUM_IDX, "ack + 1", 4),
                        NTY_PROTO_CRC_IDX + 4) /\ Number = "ack + 1" /\ kind \in PlainKinds
    BY <1>7 DEF TheFrame, Number, sendP2PConnectNotifyAck, sendP2PDataPacketAck, PlainKinds, Kinds
  <2> QED  BY <1>1, <2>1, NumberedReads, ZenonT(40)
<1>8. CASE kind = "P2P_CONNECT_ACK"
  <2>1. TheFrame = Sent(Put(ToFriend("MSG_REQ", kind), NTY_PROTO_ACKNUM_IDX, "ack + 1", 4),
                        NTY_PROTO_CRC_IDX + 4) /\ Number = "ackNum" /\ kind \in PlainKinds
    BY <1>8 DEF TheFrame, Number, sendP2PConnectAck, PlainKinds, Kinds
  <2> QED  BY <1>1, <2>1, NumberedReads, ZenonT(40)
<1>9. CASE kind = "P2P_NOTIFY_REQ"
  <2>1. TheFrame = Sent(ToFriend("MSG_REQ", kind), 33) /\ Number = "ackNum" /\ kind \in PlainKinds
    BY <1>2, <1>9 DEF TheFrame, Number, sendP2PConnectNotify, PlainKinds, Kinds
  <2> QED  BY <1>1, <2>1, RequestReads
<1>10. CASE kind = "P2P_HEARTBEAT_REQ"
  <2>1. TheFrame = Sent(ToFriend("MSG_REQ", kind), 27) /\ Number = "ackNum" /\ kind \in PlainKinds
    BY <1>2, <1>10 DEF TheFrame, Number, sendP2PHeartbeat, PlainKinds, Kinds
  <2> QED  BY <1>1, <2>1, RequestReads
<1>11. CASE kind = "P2P_CONNECT_REQ"
  <2>1. TheFrame = Sent(ToFriend("MSG_REQ", kind), 27) /\ Number = "ackNum" /\ kind \in PlainKinds
    BY <1>2, <1>11 DEF TheFrame, Number, sendP2PConnectReq, PlainKinds, Kinds
  <2> QED  BY <1>1, <2>1, RequestReads
<1>12. CASE kind = "P2P_HEARTBEAT_ACK"
  <2>1. TheFrame = Sent(ToFriend("MSG_ACK", kind), 27) /\ Number = "zero" /\ kind \in PlainKinds
    BY <1>2, <1>12 DEF TheFrame, Number, sendP2PHeartbeatAck, PlainKinds, Kinds
  <2> QED  BY <1>1, <2>1, UnnumberedReads
<1> QED  BY <1>3, <1>4, <1>5, <1>6, <1>7, <1>8, <1>9, <1>10, <1>11, <1>12 DEF Kinds

-----------------------------------------------------------------------------
(* The checksum: polynomials as the sets of their exponents. *)

\* A polynomial times a power.
At(p, n) == {b + n : b \in p}

LEMMA AtIs ==
  ASSUME NEW p \in SUBSET Int, NEW n \in Int, NEW x \in Int
  PROVE  x \in At(p, n) <=> x - n \in p
<1>1. x \in At(p, n) => x - n \in p
  BY DEF At
<1>2. x - n \in p => x \in At(p, n)
  <2>1. (x - n) + n = x
    OBVIOUS
  <2> QED  BY <2>1 DEF At
<1> QED  BY <1>1, <1>2

LEMMA AtInt ==
  ASSUME NEW p \in SUBSET Int, NEW n \in Int
  PROVE  At(p, n) \in SUBSET Int
BY DEF At

LEMMA XorIs ==
  ASSUME NEW p, NEW q, NEW x
  PROVE  x \in XorBits(p, q) <=> ((x \in p /\ x \notin q) \/ (x \in q /\ x \notin p))
BY DEF XorBits

LEMMA XorInt ==
  ASSUME NEW p \in SUBSET Int, NEW q \in SUBSET Int
  PROVE  XorBits(p, q) \in SUBSET Int
BY DEF XorBits

LEMMA ShlIs ==
  ASSUME NEW w \in SUBSET WordBits, NEW n \in Nat
  PROVE  /\ Shl(w, n) \in SUBSET WordBits
         /\ \A x \in Int : x \in Shl(w, n) <=> x >= 0 /\ x <= 31 /\ x - n \in w
<1>1. w \in SUBSET Int
  BY DEF WordBits
<1>2. \A x \in Int : x \in At(w, n) <=> x - n \in w
  BY <1>1, AtIs
<1>3. Shl(w, n) = At(w, n) \cap WordBits
  BY DEF Shl, At
<1> QED  BY <1>2, <1>3 DEF WordBits

LEMMA ShrIs ==
  ASSUME NEW w \in SUBSET WordBits, NEW n \in Nat
  PROVE  \A x \in Int : x \in Shr(w, n) <=> x >= 0 /\ x <= 31 /\ x + n \in w
<1> SUFFICES ASSUME NEW x \in Int  PROVE x \in Shr(w, n) <=> x >= 0 /\ x <= 31 /\ x + n \in w
  OBVIOUS
<1>1. x \in Shr(w, n) => x >= 0 /\ x <= 31 /\ x + n \in w
  BY DEF Shr, WordBits
<1>2. x >= 0 /\ x <= 31 /\ x + n \in w => x \in Shr(w, n)
  <2>1. (x + n) - n = x
    OBVIOUS
  <2> QED  BY <2>1 DEF Shr, WordBits
<1> QED  BY <1>1, <1>2

LEMMA KeyIs == NTY_CRC_KEY \in SUBSET WordBits
BY DEF NTY_CRC_KEY, WordBits

LEMMA RoundIn ==
  ASSUME NEW w \in SUBSET WordBits
  PROVE  Round(w) \in SUBSET WordBits
<1>1. Shl(w, 1) \in SUBSET WordBits
  BY ShlIs
<1> QED  BY <1>1, KeyIs DEF Round, XorBits

\* A round of the table is a step of the division.
LEMMA RoundDivides ==
  ASSUME NEW w \in SUBSET WordBits, NEW n \in Int, NEW rest \in SUBSET Int,
         \A x \in rest : x < n + 32
  PROVE  Reduced(XorBits(At(w, n + 1), rest), n + 32) = XorBits(At(Round(w), n), rest)
<1> DEFINE p == XorBits(At(w, n + 1), rest)
           key == {k + ((n + 32) - 32) : k \in NTY_CRC_KEY \cup {32}}
           K == NTY_CRC_KEY
<1>1. w \in SUBSET Int /\ K \in SUBSET Int /\ Round(w) \in SUBSET Int /\ Shl(w, 1) \in SUBSET Int
  BY KeyIs, RoundIn, ShlIs DEF WordBits
<1>2. \A x \in Int : x \in At(w, n + 1) <=> x - (n + 1) \in w
  BY <1>1, AtIs
<1>3. \A x \in Int : x \in At(Round(w), n) <=> x - n \in Round(w)
  BY <1>1, AtIs
<1>4. \A x \in Int : x \in key <=> x - n \in K \/ x - n = 32
  <2>1. (n + 32) - 32 = n /\ K \cup {32} \in SUBSET Int
    BY <1>1
  <2>2. key = At(K \cup {32}, n)
    BY <2>1 DEF At
  <2> HIDE DEF key, K
  <2>3. \A x \in Int : x \in key <=> x - n \in K \cup {32}
    BY <2>1, <2>2, AtIs
  <2> QED  BY <2>3
<1>5. \A x \in Int : x \in Shl(w, 1) <=> x >= 0 /\ x <= 31 /\ x - 1 \in w
  BY ShlIs
<1>6. \A y \in w : y >= 0 /\ y <= 31
  BY DEF WordBits
<1>7. \A y \in K : y >= 0 /\ y <= 31
  BY KeyIs DEF WordBits
<1>8. n + 32 \in p <=> 31 \in w
  <2>1. n + 32 \in Int /\ n + 32 \notin rest /\ (n + 32) - (n + 1) = 31
    OBVIOUS
  <2>2. n + 32 \in At(w, n + 1) <=> 31 \in w
    BY <1>2, <2>1
  <2> QED  BY <2>1, <2>2 DEF XorBits
<1>9. p \in SUBSET Int /\ key \in SUBSET Int
  <2>1. At(w, n + 1) \in SUBSET Int
    BY <1>1, AtInt
  <2> QED  BY <1>1, <2>1, XorInt
<1>10. Reduced(p, n + 32) = IF 31 \in w THEN XorBits(p, key) ELSE p
  BY <1>8 DEF Reduced
<1>11. Reduced(p, n + 32) \in SUBSET Int
  BY <1>9, <1>10, XorInt
<1>12. XorBits(At(Round(w), n), rest) \in SUBSET Int
  BY <1>1, AtInt, XorInt
<1>13. ASSUME NEW x \in Int
       PROVE  x \in Reduced(p, n + 32) <=> x \in XorBits(At(Round(w), n), rest)
  <2> HIDE DEF p, key, K
  <2>1. x \in p <=> ((x - (n + 1) \in w /\ x \notin rest) \/ (x \in rest /\ x - (n + 1) \notin w))
    BY <1>2, XorIs DEF p
  <2>2. x \in XorBits(At(Round(w), n), rest)
          <=> ((x - n \in Round(w) /\ x \notin rest) \/ (x \in rest /\ x - n \notin Round(w)))
    BY <1>3, XorIs
  <2>3. x - n \in Shl(w, 1) <=> x - n >= 0 /\ x - n <= 31 /\ x - (n + 1) \in w
    <3>1. x - n \in Int /\ (x - n) - 1 = x - (n + 1)
      OBVIOUS
    <3> QED  BY <1>5, <3>1
  <2>4. x - (n + 1) \in w => x - n >= 0 /\ (x - n <= 31 \/ x - n = 32)
    <3>1. x - (n + 1) \in w => x - (n + 1) >= 0 /\ x - (n + 1) <= 31
      BY <1>6
    <3> QED  BY <3>1
  <2>5. x - n = 32 => (x - (n + 1) \in w <=> 31 \in w)
    OBVIOUS
  <2>6. CASE 31 \in w
    <3>1. x \in Reduced(p, n + 32) <=> ((x \in p /\ x \notin key) \/ (x \in key /\ x \notin p))
      BY <1>10, <2>6, XorIs
    <3>2. x - n \in Round(w) <=> ((x - n \in Shl(w, 1) /\ x - n \notin K)
                                    \/ (x - n \in K /\ x - n \notin Shl(w, 1)))
      BY <2>6, XorIs DEF Round, K
    <3>3. x \in key <=> x - n \in K \/ x - n = 32
      BY <1>4
    <3>4. x - n \in K => x - n <= 31
      BY <1>7
    <3> QED  BY <2>1, <2>2, <2>3, <2>4, <2>5, <2>6, <3>1, <3>2, <3>3, <3>4
  <2>7. CASE 31 \notin w
    <3>1. x \in Reduced(p, n + 32) <=> x \in p
      BY <1>10, <2>7
    <3>2. x - n \in Round(w) <=> x - n \in Shl(w, 1)
      BY <2>7 DEF Round
    <3> QED  BY <2>1, <2>2, <2>3, <2>4, <2>5, <2>7, <3>1, <3>2
  <2> QED  BY <2>6, <2>7
<1> HIDE DEF p, key, K
<1>14. Reduced(p, n + 32) = XorBits(At(Round(w), n), rest)
  BY <1>11, <1>12, <1>13
<1> QED  BY <1>14 DEF p

\* The rounds of an entry of the table.
Rounds(byte, r) ==
  /\ r \in [0..8 -> SUBSET WordBits]
  /\ r[0] = Shl(byte, 24) /\ \A k \in 1..8 : r[k] = Round(r[k - 1])

LEMMA TableRounds ==
  ASSUME NEW byte \in SUBSET (0..7)
  PROVE  \E r : Rounds(byte, r) /\ ntyGenCrcTable[byte] = r[8]
<1> DEFINE Y == SUBSET WordBits
           F == [q \in (1..8) \X Y |-> Round(q[2])]
           start == Shl(byte, 24)
           body(g) == [j \in 0..8 |-> IF j = 0 THEN start ELSE Round(g[j - 1])]
           c == CHOOSE g : g = body(g)
<1>1. start \in Y
  <2>1. byte \in SUBSET WordBits
    BY DEF WordBits
  <2> QED  BY <2>1, ShlIs
<1>2. F \in [(1..8) \X Y -> Y]
  <2>1. \A q \in (1..8) \X Y : Round(q[2]) \in Y
    BY RoundIn
  <2> QED  BY <2>1
<1>3. \A k \in 1..8 : \A w \in Y : F[<<k, w>>] = Round(w)
  OBVIOUS
<1>4. PICK f : Loop(8, Y, start, F, f)
  <2> HIDE DEF Y, F, start
  <2> QED  BY <1>1, <1>2, Repeated
<1>5. f \in [0..8 -> Y] /\ f[0] = start /\ \A k \in 1..8 : f[k] = Round(f[k - 1])
  <2>1. f \in [0..8 -> Y] /\ f[0] = start /\ \A k \in 1..8 : f[k] = F[<<k, f[k - 1]>>]
    BY <1>4 DEF Loop
  <2>2. \A k \in 1..8 : f[k - 1] \in Y
    <3> HIDE DEF Y
    <3> QED  BY <2>1
  <2> HIDE DEF Y, F, start
  <2> QED  BY <1>3, <2>1, <2>2
<1>6. f = body(f)
  <2> HIDE DEF Y, start
  <2> QED  BY <1>5
<1>7. c = body(c)
  <2> HIDE DEF body
  <2> QED  BY <1>6
<1>8. c[0] = start /\ \A k \in 1..8 : c[k] = Round(c[k - 1])
  <2> HIDE DEF c, start
  <2> QED  BY <1>7
<1>9. DOMAIN c = 0..8 /\ c = [j \in 0..8 |-> c[j]]
  <2> HIDE DEF c, start
  <2> QED  BY <1>7
<1>10. \A k \in 0..8 : c[k] = f[k]
  <2> DEFINE V == {k \in 0..8 : c[k] = f[k]}
  <2> HIDE DEF c
  <2>1. 0 \in V
    BY <1>5, <1>8
  <2>2. ASSUME NEW k \in 1..8, k - 1 \in V  PROVE k \in V
    BY <1>5, <1>8, <2>2
  <2>3. 0..8 \subseteq V
    <3> HIDE DEF V
    <3> QED  BY <2>1, <2>2, Upwards
  <2> QED  BY <2>3
<1>11. ntyGenCrcTable[byte] = c[8]
  BY DEF ntyGenCrcTable
<1>12. Rounds(byte, c)
  <2> HIDE DEF c, Y
  <2>1. c \in [0..8 -> Y]
    BY <1>5, <1>9, <1>10
  <2> QED  BY <1>8, <2>1 DEF Rounds, Y
<1> QED  BY <1>11, <1>12

\* What is left of a word that a byte is fed into: its lower bits move up, and the
\* table replaces the others.
LEMMA FeedIs ==
  ASSUME NEW w \in SUBSET WordBits, NEW byte \in SUBSET (0..7)
  PROVE  LET top == XorBits(Shr(w, 24), byte)
         IN  /\ top \in SUBSET (0..7)
             /\ Feed(w, byte) = XorBits(Shl(w, 8), ntyGenCrcTable[top])
             /\ Feed(w, byte) \in SUBSET WordBits
<1> DEFINE top == XorBits(Shr(w, 24), byte)
<1>1. Shr(w, 24) \in SUBSET (0..7)
  BY DEF Shr, WordBits
<1>2. top \in SUBSET (0..7)
  BY <1>1 DEF XorBits
<1> HIDE DEF top
<1>3. PICK r : Rounds(top, r) /\ ntyGenCrcTable[top] = r[8]
  BY <1>2, TableRounds
<1>4. ntyGenCrcTable[top] \in SUBSET WordBits
  BY <1>3 DEF Rounds
<1>5. Shl(w, 8) \in SUBSET WordBits
  BY ShlIs
<1>6. Feed(w, byte) = XorBits(Shl(w, 8), ntyGenCrcTable[top])
  BY DEF Feed, top
<1>7. Feed(w, byte) \in SUBSET WordBits
  BY <1>4, <1>5, <1>6 DEF XorBits
<1> QED  BY <1>2, <1>6, <1>7 DEF top

\* Eight steps of the division are one byte of the loop.
LEMMA ByteDivides ==
  ASSUME NEW w \in SUBSET WordBits, NEW byte \in SUBSET (0..7), NEW m \in Int,
         NEW low \in SUBSET Int, \A x \in low : x < m + 24,
         NEW P, P[0] = XorBits(At(w, m), XorBits(At(byte, m + 24), low)),
         \A t \in 1..8 : P[t] = Reduced(P[t - 1], m + 32 - t)
  PROVE  P[8] = XorBits(At(Feed(w, byte), m - 8), low)
<1> DEFINE top == XorBits(Shr(w, 24), byte)
           under == {x \in Int : x - m \in w /\ x < m + 24}
           rest == XorBits(under, low)
<1>1. /\ top \in SUBSET (0..7) /\ Feed(w, byte) = XorBits(Shl(w, 8), ntyGenCrcTable[top])
      /\ w \in SUBSET Int /\ byte \in SUBSET Int
  BY FeedIs DEF WordBits
<1>2. PICK r : Rounds(top, r) /\ ntyGenCrcTable[top] = r[8]
  <2> HIDE DEF top
  <2> QED  BY <1>1, TableRounds
<1>3. /\ r \in [0..8 -> SUBSET WordBits]
      /\ r[0] = Shl(top, 24) /\ \A k \in 1..8 : r[k] = Round(r[k - 1])
  <2> HIDE DEF top
  <2> QED  BY <1>2 DEF Rounds
<1>4. rest \in SUBSET Int /\ \A x \in rest : x < m + 24
  <2>1. under \in SUBSET Int /\ \A x \in under : x < m + 24
    OBVIOUS
  <2> HIDE DEF under
  <2> QED  BY <2>1, XorInt, XorIs
<1>5. P[0] = XorBits(At(r[0], m), rest)
  <2>1. r[0] \in SUBSET WordBits /\ r[0] \in SUBSET Int
    BY <1>3 DEF WordBits
  <2>2. P[0] \in SUBSET Int /\ XorBits(At(r[0], m), rest) \in SUBSET Int
    <3>1. At(w, m) \in SUBSET Int /\ At(byte, m + 24) \in SUBSET Int /\ At(r[0], m) \in SUBSET Int
      BY <1>1, <2>1, AtInt
    <3> HIDE DEF rest
    <3> QED  BY <1>4, <3>1, XorInt
  <2>3. ASSUME NEW x \in Int  PROVE x \in P[0] <=> x \in XorBits(At(r[0], m), rest)
    <3>1. x \in At(w, m) <=> x - m \in w
      BY <1>1, AtIs
    <3>2. x \in At(byte, m + 24) <=> x - (m + 24) \in byte
      BY <1>1, AtIs
    <3>3. x \in At(r[0], m) <=> x - m \in r[0]
      BY <2>1, AtIs
    <3>4. x - m \in r[0] <=> x - m >= 0 /\ x - m <= 31 /\ (x - m) - 24 \in top
      <4>1. top \in SUBSET WordBits
        <5> HIDE DEF top
        <5> QED  BY <1>1 DEF WordBits
      <4> HIDE DEF top
      <4> QED  BY <1>3, <4>1, ShlIs
    <3>5. (x - m) - 24 \in top <=> (((x - m) - 24 \in Shr(w, 24) /\ (x - m) - 24 \notin byte)
                                    \/ ((x - m) - 24 \in byte /\ (x - m) - 24 \notin Shr(w, 24)))
      BY XorIs
    <3>6. (x - m) - 24 \in Shr(w, 24)
            <=> (x - m) - 24 >= 0 /\ (x - m) - 24 <= 31 /\ x - m \in w
      <4>1. (x - m) - 24 \in Int /\ ((x - m) - 24) + 24 = x - m
        OBVIOUS
      <4> QED  BY <4>1, ShrIs
    <3>7. x - (m + 24) = (x - m) - 24
      OBVIOUS
    <3>8. \A y \in byte : y >= 0 /\ y <= 7
      OBVIOUS
    <3>9. \A y \in w : y >= 0 /\ y <= 31
      BY DEF WordBits
    <3>10. x \in under <=> x - m \in w /\ x < m + 24
      OBVIOUS
    <3> HIDE DEF top, under
    <3>11. x \in rest <=> ((x \in under /\ x \notin low) \/ (x \in low /\ x \notin under))
      BY XorIs
    <3> HIDE DEF rest
    <3>12. x \in XorBits(At(r[0], m), rest)
             <=> ((x - m \in r[0] /\ x \notin rest) \/ (x \in rest /\ x - m \notin r[0]))
      BY <3>3, XorIs
    <3>13. x \in XorBits(At(byte, m + 24), low)
             <=> (((x - m) - 24 \in byte /\ x \notin low) \/ (x \in low /\ (x - m) - 24 \notin byte))
      BY <3>2, <3>7, XorIs
    <3>14. x \in P[0] <=> ((x - m \in w /\ x \notin XorBits(At(byte, m + 24), low))
                            \/ (x \in XorBits(At(byte, m + 24), low) /\ x - m \notin w))
      BY <3>1, XorIs
    <3>15. CASE x < m + 24
      <4>1. (x - m) - 24 \notin byte /\ (x - m) - 24 \notin Shr(w, 24)
        BY <3>6, <3>8, <3>15
      <4>2. x - m \notin r[0]
        BY <3>4, <3>5, <4>1
      <4> QED  BY <3>10, <3>11, <3>12, <3>13, <3>14, <3>15, <4>1, <4>2
    <3>16. CASE ~(x < m + 24)
      <4>1. x \notin low /\ x \notin under /\ x \notin rest
        BY <3>10, <3>11, <3>16
      <4>2. (x - m) - 24 \in Shr(w, 24) <=> x - m \in w
        BY <3>6, <3>9, <3>16
      <4>3. x - m \in r[0] <=> (x - m) - 24 \in top
        <5>1. (x - m) - 24 \in top => (x - m) - 24 <= 7
          BY <1>1
        <5> QED  BY <3>4, <3>16, <5>1
      <4> QED  BY <3>5, <3>12, <3>13, <3>14, <4>1, <4>2, <4>3
    <3> QED  BY <3>15, <3>16
  <2> HIDE DEF rest
  <2> QED  BY <2>2, <2>3
<1> HIDE DEF rest
<1>6. ASSUME NEW t \in 1..8, P[t - 1] = XorBits(At(r[t - 1], m - (t - 1)), rest)
      PROVE  P[t] = XorBits(At(r[t], m - t), rest)
  <2>1. /\ m - t \in Int /\ (m - t) + 1 = m - (t - 1) /\ (m - t) + 32 = m + 32 - t
        /\ t - 1 \in 0..8
    OBVIOUS
  <2>2. \A x \in rest : x < (m - t) + 32
    BY <1>4
  <2>3. r[t - 1] \in SUBSET WordBits /\ r[t] = Round(r[t - 1])
    BY <1>3, <2>1
  <2>4. Reduced(XorBits(At(r[t - 1], (m - t) + 1), rest), (m - t) + 32)
          = XorBits(At(Round(r[t - 1]), m - t), rest)
    BY <1>4, <2>1, <2>2, <2>3, RoundDivides
  <2> QED  BY <1>6, <2>1, <2>3, <2>4
<1>7. P[8] = XorBits(At(r[8], m - 8), rest)
  <2> DEFINE V == {t \in 0..8 : P[t] = XorBits(At(r[t], m - t), rest)}
  <2>1. 0 \in V
    <3>1. m - 0 = m
      OBVIOUS
    <3> QED  BY <1>5, <3>1
  <2>2. \A t \in 1..8 : t - 1 \in V => t \in V
    BY <1>6
  <2>3. 0..8 \subseteq V
    <3> HIDE DEF V
    <3> QED  BY <2>1, <2>2, Upwards
  <2> QED  BY <2>3
<1>8. XorBits(At(r[8], m - 8), rest) = XorBits(At(Feed(w, byte), m - 8), low)
  <2>1. /\ r[8] \in SUBSET Int /\ Feed(w, byte) = XorBits(Shl(w, 8), r[8])
        /\ Feed(w, byte) \in SUBSET Int
    <3> HIDE DEF top
    <3>1. Feed(w, byte) \in SUBSET WordBits
      BY FeedIs
    <3> QED  BY <1>1, <1>2, <1>3, <3>1 DEF WordBits
  <2>2. /\ XorBits(At(r[8], m - 8), rest) \in SUBSET Int
        /\ XorBits(At(Feed(w, byte), m - 8), low) \in SUBSET Int
    <3>1. m - 8 \in Int
      OBVIOUS
    <3>2. At(r[8], m - 8) \in SUBSET Int /\ At(Feed(w, byte), m - 8) \in SUBSET Int
      BY <2>1, <3>1, AtInt
    <3> QED  BY <1>4, <3>2, XorInt
  <2>3. ASSUME NEW x \in Int
        PROVE  x \in XorBits(At(r[8], m - 8), rest) <=> x \in XorBits(At(Feed(w, byte), m - 8), low)
    <3> DEFINE y == x - (m - 8)
    <3>1. y \in Int /\ y - 8 = x - m /\ m - 8 \in Int
      OBVIOUS
    <3>2. x \in At(r[8], m - 8) <=> y \in r[8]
      BY <2>1, <3>1, AtIs
    <3>3. x \in At(Feed(w, byte), m - 8) <=> y \in Feed(w, byte)
      BY <2>1, <3>1, AtIs
    <3>4. y \in Feed(w, byte) <=> ((y \in Shl(w, 8) /\ y \notin r[8]) \/ (y \in r[8] /\ y \notin Shl(w, 8)))
      BY <2>1, XorIs
    <3>5. y \in Shl(w, 8) <=> y >= 0 /\ y <= 31 /\ x - m \in w
      BY <3>1, ShlIs
    <3>6. x \in under <=> y \in Shl(w, 8)
      <4>1. x - m \in w => x - m >= 0
        BY DEF WordBits
      <4>2. x < m + 24 <=> y <= 31
        OBVIOUS
      <4>3. x - m >= 0 => y >= 0
        OBVIOUS
      <4> HIDE DEF y
      <4> QED  BY <3>5, <4>1, <4>2, <4>3
    <3> HIDE DEF y, under
    <3>7. x \in rest <=> ((x \in under /\ x \notin low) \/ (x \in low /\ x \notin under))
      BY XorIs DEF rest
    <3>8. x \in XorBits(At(r[8], m - 8), rest)
            <=> ((y \in r[8] /\ x \notin rest) \/ (x \in rest /\ y \notin r[8]))
      BY <3>2, XorIs
    <3>9. x \in XorBits(At(Feed(w, byte), m - 8), low)
            <=> ((y \in Feed(w, byte) /\ x \notin low) \/ (x \in low /\ y \notin Feed(w, byte)))
      BY <3>3, XorIs
    <3> QED  BY <3>4, <3>6, <3>7, <3>8, <3>9
  <2> QED  BY <2>2, <2>3
<1> QED  BY <1>7, <1>8

\* The loop of ntyGenCrcValue.
LEMMA CrcLoop ==
  ASSUME NEW bytes \in Seq(SUBSET (0..7))
  PROVE  \E c \in [0..Len(bytes) -> SUBSET WordBits] :
           /\ c[0] = WordBits /\ \A i \in 1..Len(bytes) : c[i] = Feed(c[i - 1], bytes[i])
           /\ ntyGenCrcValue(bytes) = c[Len(bytes)]
<1> DEFINE Y == SUBSET WordBits
           n == Len(bytes)
           F == [q \in (1..n) \X Y |-> Feed(q[2], bytes[q[1]])]
           body(g) == [i \in 0..n |-> IF i = 0 THEN WordBits ELSE Feed(g[i - 1], bytes[i])]
           c == CHOOSE g : g = body(g)
<1>1. n \in Nat /\ WordBits \in Y /\ \A i \in 1..n : bytes[i] \in SUBSET (0..7)
  OBVIOUS
<1>2. F \in [(1..n) \X Y -> Y]
  <2>1. \A q \in (1..n) \X Y : Feed(q[2], bytes[q[1]]) \in Y
    <3> SUFFICES ASSUME NEW q \in (1..n) \X Y  PROVE Feed(q[2], bytes[q[1]]) \in Y
      OBVIOUS
    <3>1. q[2] \in SUBSET WordBits /\ bytes[q[1]] \in SUBSET (0..7)
      BY <1>1
    <3> QED  BY <3>1, FeedIs
  <2> HIDE DEF Y, n
  <2> QED  BY <2>1
<1>3. \A k \in 1..n : \A w \in Y : F[<<k, w>>] = Feed(w, bytes[k])
  <2> HIDE DEF Y, n
  <2> QED  OBVIOUS
<1>4. PICK f : Loop(n, Y, WordBits, F, f)
  <2> HIDE DEF Y, F, n
  <2> QED  BY <1>1, <1>2, Repeated
<1>5. f \in [0..n -> Y] /\ f[0] = WordBits /\ \A k \in 1..n : f[k] = Feed(f[k - 1], bytes[k])
  <2>1. f \in [0..n -> Y] /\ f[0] = WordBits /\ \A k \in 1..n : f[k] = F[<<k, f[k - 1]>>]
    BY <1>4 DEF Loop
  <2> HIDE DEF Y, F, n
  <2>2. \A k \in 1..n : f[k - 1] \in Y
    BY <1>1, <2>1
  <2> QED  BY <1>3, <2>1, <2>2
<1>6. f = body(f)
  <2> HIDE DEF Y, n
  <2> QED  BY <1>1, <1>5
<1>7. c = body(c)
  <2> HIDE DEF body
  <2> QED  BY <1>6
<1>8. /\ c[0] = WordBits /\ \A k \in 1..n : c[k] = Feed(c[k - 1], bytes[k])
      /\ c = [i \in 0..n |-> c[i]]
  <2> HIDE DEF c, n
  <2> QED  BY <1>1, <1>7
<1>9. ntyGenCrcValue(bytes) = c[n]
  BY DEF ntyGenCrcValue
<1> HIDE DEF c, n, Y
<1>10. \A k \in 0..n : c[k] = f[k]
  <2> DEFINE V == {k \in 0..n : c[k] = f[k]}
  <2>1. 0 \in V
    BY <1>1, <1>5, <1>8
  <2>2. ASSUME NEW k \in 1..n, k - 1 \in V  PROVE k \in V
    <3>1. c[k] = Feed(c[k - 1], bytes[k]) /\ f[k] = Feed(f[k - 1], bytes[k])
      BY <1>5, <1>8
    <3>2. c[k - 1] = f[k - 1]
      BY <2>2
    <3>3. k \in 0..n
      BY <1>1
    <3> QED  BY <3>1, <3>2, <3>3, Zenon
  <2>3. 0..n \subseteq V
    <3> HIDE DEF V
    <3> QED  BY <1>1, <2>1, <2>2, Upwards
  <2> QED  BY <2>3
<1>11. c \in [0..n -> Y]
  BY <1>5, <1>8, <1>10
<1> QED  BY <1>8, <1>9, <1>11 DEF n, Y

LEMMA ReducedInt ==
  ASSUME NEW p \in SUBSET Int, NEW e \in Int
  PROVE  Reduced(p, e) \in SUBSET Int
<1>1. {k + (e - 32) : k \in NTY_CRC_KEY \cup {32}} \in SUBSET Int
  BY KeyIs DEF WordBits
<1> QED  BY <1>1, XorInt DEF Reduced

\* The steps of a division.
LEMMA DivisionLoop ==
  ASSUME NEW p \in SUBSET Int, NEW n \in Nat
  PROVE  \E l : /\ l[0] = p /\ \A i \in 1..n : l[i] = Reduced(l[i - 1], n + 32 - i)
                /\ Remainder(p, n) = l[n]
<1> DEFINE Y == SUBSET Int
           F == [q \in (1..n) \X Y |-> Reduced(q[2], n + 32 - q[1])]
           body(g) == [i \in 0..n |-> IF i = 0 THEN p ELSE Reduced(g[i - 1], n + 32 - i)]
           c == CHOOSE g : g = body(g)
<1>1. F \in [(1..n) \X Y -> Y]
  <2>1. \A q \in (1..n) \X Y : Reduced(q[2], n + 32 - q[1]) \in Y
    <3> SUFFICES ASSUME NEW q \in (1..n) \X Y  PROVE Reduced(q[2], n + 32 - q[1]) \in Y
      OBVIOUS
    <3>1. q[2] \in SUBSET Int /\ n + 32 - q[1] \in Int
      OBVIOUS
    <3> QED  BY <3>1, ReducedInt
  <2> HIDE DEF Y
  <2> QED  BY <2>1
<1>2. \A k \in 1..n : \A w \in Y : F[<<k, w>>] = Reduced(w, n + 32 - k)
  <2> HIDE DEF Y
  <2> QED  OBVIOUS
<1>3. PICK f : Loop(n, Y, p, F, f)
  <2> HIDE DEF F
  <2> QED  BY <1>1, Repeated
<1>4. f \in [0..n -> Y] /\ f[0] = p /\ \A k \in 1..n : f[k] = Reduced(f[k - 1], n + 32 - k)
  <2>1. f \in [0..n -> Y] /\ f[0] = p /\ \A k \in 1..n : f[k] = F[<<k, f[k - 1]>>]
    BY <1>3 DEF Loop
  <2> HIDE DEF Y, F
  <2>2. \A k \in 1..n : f[k - 1] \in Y
    BY <2>1
  <2> QED  BY <1>2, <2>1, <2>2
<1>5. f = body(f)
  <2> HIDE DEF Y
  <2> QED  BY <1>4
<1>6. c = body(c)
  <2> HIDE DEF body
  <2> QED  BY <1>5
<1>7. c[0] = p /\ \A k \in 1..n : c[k] = Reduced(c[k - 1], n + 32 - k)
  <2> HIDE DEF c
  <2> QED  BY <1>6
<1>8. Remainder(p, n) = c[n]
  BY DEF Remainder
<1> QED  BY <1>7, <1>8

\* The checksum of a message of any length.
LEMMA ChecksumDivides ==
  ASSUME NEW bytes \in Seq(SUBSET (0..7))
  PROVE  LET n == Len(bytes)
             message == UNION {{8 * (n - i) + 32 + b : b \in bytes[i]} : i \in 1..n}
         IN  ntyGenCrcValue(bytes)
               = Remainder(XorBits(message, {8 * n + b : b \in WordBits}), 8 * n)
<1> DEFINE n == Len(bytes)
           Rest(i) == {x \in Int : \E j \in (i + 1)..n : x - (8 * (n - j) + 32) \in bytes[j]}
           message == UNION {{8 * (n - i) + 32 + b : b \in bytes[i]} : i \in 1..n}
           first == {8 * n + b : b \in WordBits}
           whole == XorBits(message, first)
<1>1. n \in Nat /\ \A i \in 1..n : bytes[i] \in SUBSET (0..7)
  OBVIOUS
<1> HIDE DEF n
<1>2. message = Rest(0)
  <2>1. ASSUME NEW x \in message  PROVE x \in Rest(0)
    <3>1. PICK i \in 1..n : x \in {8 * (n - i) + 32 + b : b \in bytes[i]}
      BY <2>1
    <3>2. PICK b \in bytes[i] : x = 8 * (n - i) + 32 + b
      BY <3>1
    <3>3. b \in Int
      BY <1>1, SMTT(40)
    <3>4. x \in Int /\ x - (8 * (n - i) + 32) = b /\ i \in (0 + 1)..n
      BY <1>1, <3>2, <3>3
    <3> QED  BY <3>4
  <2>2. ASSUME NEW x \in Rest(0)  PROVE x \in message
    <3>1. PICK i \in (0 + 1)..n : x - (8 * (n - i) + 32) \in bytes[i]
      BY <2>2
    <3>2. x \in Int /\ i \in 1..n /\ x = 8 * (n - i) + 32 + (x - (8 * (n - i) + 32))
      BY <1>1, <2>2
    <3> QED  BY <3>1, <3>2
  <2> QED  BY <2>1, <2>2
<1>3. first = At(WordBits, 8 * n)
  <2>1. \A b \in WordBits : 8 * n + b = b + 8 * n
    BY <1>1 DEF WordBits
  <2> QED  BY <2>1 DEF At
<1>4. first \in SUBSET Int /\ Rest(0) \in SUBSET Int /\ whole \in SUBSET Int
  <2>1. first \in SUBSET Int
    <3>1. WordBits \in SUBSET Int /\ 8 * n \in Int
      BY <1>1 DEF WordBits
    <3> HIDE DEF first
    <3> QED  BY <1>3, <3>1, AtInt
  <2>2. Rest(0) \in SUBSET Int
    OBVIOUS
  <2> HIDE DEF Rest, message, first
  <2> QED  BY <1>2, <2>1, <2>2, XorInt
<1>5. whole = XorBits(At(WordBits, 8 * n), Rest(0))
  <2> HIDE DEF Rest, message, first
  <2> QED  BY <1>2, <1>3 DEF XorBits
<1> HIDE DEF whole
<1>6. PICK c \in [0..n -> SUBSET WordBits] :
        /\ c[0] = WordBits /\ \A i \in 1..n : c[i] = Feed(c[i - 1], bytes[i])
        /\ ntyGenCrcValue(bytes) = c[n]
  BY CrcLoop DEF n
<1>7. 8 * n \in Nat
  BY <1>1
<1>8. PICK l : /\ l[0] = whole /\ \A i \in 1..(8 * n) : l[i] = Reduced(l[i - 1], 8 * n + 32 - i)
               /\ Remainder(whole, 8 * n) = l[8 * n]
  <2> DEFINE N == 8 * n
  <2> HIDE DEF N
  <2>1. \E l : /\ l[0] = whole /\ \A i \in 1..N : l[i] = Reduced(l[i - 1], N + 32 - i)
               /\ Remainder(whole, N) = l[N]
    BY <1>4, <1>7, DivisionLoop DEF N
  <2> QED  BY <2>1 DEF N
<1>9. ASSUME NEW i \in 1..n
      PROVE  /\ Rest(i) \in SUBSET Int /\ \A x \in Rest(i) : x < 8 * (n - i) + 32
             /\ Rest(i - 1) = XorBits(At(bytes[i], 8 * (n - i) + 32), Rest(i))
  <2> DEFINE at == 8 * (n - i) + 32
  <2>1. at \in Int /\ bytes[i] \in SUBSET Int /\ \A b \in bytes[i] : b >= 0
    <3>1. at \in Int
      BY <1>1
    <3>2. bytes[i] \in SUBSET (0..7)
      BY <1>1
    <3> HIDE DEF at
    <3> QED  BY <3>1, <3>2, SMTT(40)
  <2>2. Rest(i) \in SUBSET Int /\ Rest(i - 1) \in SUBSET Int
    OBVIOUS
  <2>3. \A x \in Rest(i) : x < at
    <3> SUFFICES ASSUME NEW x \in Rest(i)  PROVE x < at
      OBVIOUS
    <3>1. PICK j \in (i + 1)..n : x - (8 * (n - j) + 32) \in bytes[j]
      OBVIOUS
    <3>2. x - (8 * (n - j) + 32) <= 7
      <4>1. j \in 1..n
        BY <1>1
      <4>2. bytes[j] \in SUBSET (0..7)
        BY <1>1, <4>1
      <4> QED  BY <3>1, <4>2, SMTT(40)
    <3>3. x \in Int /\ j \in Int /\ j >= i + 1
      BY <1>1
    <3>4. 8 * (n - j) + 32 + 7 < at
      BY <1>1, <3>3
    <3> HIDE DEF at
    <3> QED  BY <1>1, <2>1, <3>2, <3>3, <3>4
  <2>4. ASSUME NEW x \in Int
        PROVE  x \in Rest(i - 1) <=> x - at \in bytes[i] \/ x \in Rest(i)
    <3>1. \A j \in Int : j \in ((i - 1) + 1)..n <=> j = i \/ j \in (i + 1)..n
      BY <1>1
    <3> QED  BY <3>1
  <2>5. \A x \in Int : x \in At(bytes[i], at) <=> x - at \in bytes[i]
    <3> HIDE DEF at
    <3> QED  BY <2>1, AtIs
  <2>6. At(bytes[i], at) \in SUBSET Int
    <3> HIDE DEF at
    <3> QED  BY <2>1, AtInt
  <2> HIDE DEF at, Rest
  <2>7. XorBits(At(bytes[i], at), Rest(i)) \in SUBSET Int
    BY <2>2, <2>6, XorInt
  <2>8. ASSUME NEW x \in Int
        PROVE  x \in Rest(i - 1) <=> x \in XorBits(At(bytes[i], at), Rest(i))
    <3>1. x - at \in bytes[i] => x \notin Rest(i)
      BY <2>1, <2>3
    <3>2. x \in XorBits(At(bytes[i], at), Rest(i))
            <=> ((x - at \in bytes[i] /\ x \notin Rest(i)) \/ (x \in Rest(i) /\ x - at \notin bytes[i]))
      BY <2>5, XorIs
    <3> QED  BY <2>4, <3>1, <3>2
  <2>9. Rest(i - 1) = XorBits(At(bytes[i], at), Rest(i))
    BY <2>2, <2>7, <2>8
  <2> QED  BY <2>2, <2>3, <2>9 DEF at
<1>10. Rest(n) = {}
  BY <1>1
<1> HIDE DEF Rest
<1> DEFINE V == {i \in 0..n : l[8 * i] = XorBits(At(c[i], 8 * (n - i)), Rest(i))}
<1>11. 0 \in V
  <2>1. 8 * 0 = 0 /\ 8 * (n - 0) = 8 * n /\ 0 \in 0..n
    BY <1>1
  <2> QED  BY <1>5, <1>6, <1>8, <2>1
<1>12. ASSUME NEW i \in 1..n, i - 1 \in V  PROVE i \in V
  <2> DEFINE m == 8 * (n - (i - 1))
             before == 8 * (i - 1)
             P == [t \in 0..8 |-> l[before + t]]
  <2>1. /\ m \in Int /\ m + 24 = 8 * (n - i) + 32 /\ m - 8 = 8 * (n - i)
        /\ before \in Nat /\ before + 0 = before /\ before + 8 = 8 * i
        /\ \A t \in 1..8 : /\ before + t \in 1..(8 * n) /\ (before + t) - 1 = before + (t - 1)
                           /\ 8 * n + 32 - (before + t) = m + 32 - t
    BY <1>1
  <2>2. l[before] = XorBits(At(c[i - 1], m), Rest(i - 1))
    BY <1>12
  <2> HIDE DEF m, before
  <2>3. P[0] = XorBits(At(c[i - 1], m), XorBits(At(bytes[i], m + 24), Rest(i)))
    BY <1>9, <2>1, <2>2
  <2>4. ASSUME NEW t \in 1..8  PROVE P[t] = Reduced(P[t - 1], m + 32 - t)
    <3>1. l[before + t] = Reduced(l[before + (t - 1)], m + 32 - t)
      BY <1>8, <2>1
    <3>2. t \in 0..8 /\ t - 1 \in 0..8
      OBVIOUS
    <3> QED  BY <3>1, <3>2
  <2>5. P[8] = l[8 * i]
    <3>1. P[8] = l[before + 8]
      OBVIOUS
    <3> QED  BY <2>1, <3>1
  <2> HIDE DEF P
  <2>6. c[i - 1] \in SUBSET WordBits /\ bytes[i] \in SUBSET (0..7) /\ c[i] = Feed(c[i - 1], bytes[i])
    <3>1. i - 1 \in 0..n
      BY <1>1
    <3> QED  BY <1>1, <1>6, <3>1
  <2>7. Rest(i) \in SUBSET Int /\ \A x \in Rest(i) : x < m + 24
    BY <1>9, <2>1
  <2>8. P[8] = XorBits(At(c[i], m - 8), Rest(i))
    <3>1. m \in Int
      BY <2>1
    <3>2. P[8] = XorBits(At(Feed(c[i - 1], bytes[i]), m - 8), Rest(i))
      BY <2>3, <2>4, <2>6, <2>7, <3>1, ByteDivides
    <3> QED  BY <2>6, <3>2
  <2>9. i \in 0..n
    BY <1>1
  <2> QED  BY <2>1, <2>5, <2>8, <2>9
<1>13. n \in V
  <2>1. 0..n \subseteq V
    <3> HIDE DEF V
    <3> QED  BY <1>1, <1>11, <1>12, Upwards
  <2> QED  BY <1>1, <2>1
<1>14. l[8 * n] = c[n]
  <2>1. 8 * (n - n) = 0 /\ n \in 0..n
    BY <1>1
  <2>2. l[8 * n] = XorBits(At(c[n], 0), {})
    <3>1. l[8 * n] = XorBits(At(c[n], 8 * (n - n)), Rest(n))
      BY <1>13
    <3> QED  BY <1>10, <2>1, <3>1
  <2>3. c[n] \in SUBSET Int
    <3>1. c[n] \in SUBSET WordBits
      BY <1>6, <2>1
    <3>2. WordBits \subseteq Int
      BY DEF WordBits
    <3> QED  BY <3>1, <3>2
  <2>4. At(c[n], 0) = c[n]
    <3>1. \A b \in c[n] : b + 0 = b
      BY <2>3
    <3> QED  BY <3>1 DEF At
  <2> QED  BY <2>2, <2>4 DEF XorBits
<1> QED  BY <1>6, <1>8, <1>14 DEF whole, n

-----------------------------------------------------------------------------
(* The inputs. *)

\* A clock's date is that of its local day; a search is for one of the patterns in a
\* text of the letters; a frame is of one of the kinds and lengths; a message is one
\* of bytes.
InputInv ==
  \/ /\ input.of = "clock"
     /\ input = [of |-> "clock", day |-> input.day, second |-> input.second,
                 offset |-> input.offset, date |-> input.date]
     /\ input.day \in Int /\ input.second \in Int /\ input.offset \in Int
     /\ IsDate(input.date, input.day + ((input.second + input.offset) \div SECS_PER_DAY))
  \/ /\ input.of = "search"
     /\ input = [of |-> "search", pattern |-> input.pattern, text |-> input.text]
     /\ input.pattern \in Patterns /\ input.text \in Seq(Letters)
  \/ input.of = "frame" /\ input.kind \in Kinds /\ input.length \in Lengths
  \/ /\ input.of = "checksum"
     /\ input = [of |-> "checksum", bytes |-> input.bytes] /\ input.bytes \in Seq(SUBSET (0..7))

LEMMA ClocksInRange ==
  ASSUME NEW c \in Clocks
  PROVE  /\ c[1] \in Int /\ 0 <= c[1] /\ c[1] <= 86399
         /\ c[2] \in Int /\ -86400 <= c[2] /\ c[2] <= 86400
<1>1. c[1] \in 0..(SECS_PER_DAY - 1) /\ c[2] \in (-SECS_PER_DAY)..SECS_PER_DAY
  BY InputsAssumption, Zenon
<1>2. ASSUME NEW S \in Int, NEW a \in 0..(S - 1), NEW b \in (-S)..S
      PROVE  a \in Int /\ 0 <= a /\ a <= S - 1 /\ b \in Int /\ -S <= b /\ b <= S
  OBVIOUS
<1>3. SECS_PER_DAY \in Int /\ SECS_PER_DAY - 1 = 86399 /\ -SECS_PER_DAY = -86400 /\ SECS_PER_DAY = 86400
  BY DEF SECS_PER_DAY
<1>4. /\ c[1] \in Int /\ 0 <= c[1] /\ c[1] <= SECS_PER_DAY - 1
      /\ c[2] \in Int /\ -SECS_PER_DAY <= c[2] /\ c[2] <= SECS_PER_DAY
  <2>1. SECS_PER_DAY \in Int
    BY <1>3
  <2> QED  BY <1>1, <1>2, <2>1
<1> QED  BY <1>3, <1>4

LEMMA InputsKept == InputsSpec => []InputInv
<1>1. ASSUME SearchInit  PROVE InputInv
  <2>1. PICK p \in Patterns : input = [of |-> "search", pattern |-> p, text |-> <<>>]
    BY <1>1 DEF SearchInit
  <2>2. input.of = "search" /\ input.pattern = p /\ input.text = <<>>
    BY <2>1
  <2>3. <<>> \in Seq(Letters)
    OBVIOUS
  <2> QED  BY <2>1, <2>2, <2>3, Zenon DEF InputInv
<1>2. ASSUME FrameInit  PROVE InputInv
  <2>1. PICK k \in Kinds, n \in Lengths, f \in FriendStates :
          input = [of |-> "frame", kind |-> k, length |-> n, friend |-> f]
    BY <1>2, Zenon DEF FrameInit
  <2>2. input.of = "frame" /\ input.kind = k /\ input.length = n
    BY <2>1
  <2> QED  BY <2>2 DEF InputInv
<1>3. ASSUME ClockInit  PROVE InputInv
  <2>1. ClockInit
    BY <1>3
  <2>2. PICK c \in Clocks :
          input = [of |-> "clock", day |-> 0, second |-> c[1], offset |-> c[2],
                   date |-> FirstDate((c[1] + c[2]) \div SECS_PER_DAY)]
    BY <2>1 DEF ClockInit
  <2> DEFINE second == c[1]
             offset == c[2]
             local == (second + offset) \div SECS_PER_DAY
  <2>3. /\ second \in Int /\ 0 <= second /\ second <= 86399
        /\ offset \in Int /\ -86400 <= offset /\ offset <= 86400
    BY ClocksInRange
  <2>4. input = [of |-> "clock", day |-> 0, second |-> second, offset |-> offset, date |-> FirstDate(local)]
    BY <2>2
  <2> HIDE DEF second, offset
  <2>5. local \in {-1, 0, 1}
    <3>1. ASSUME NEW v \in Int, -86400 <= v, v <= 172799  PROVE v \div 86400 \in {-1, 0, 1}
      BY <3>1
    <3>2. second + offset \in Int /\ -86400 <= second + offset /\ second + offset <= 172799
      BY <2>3
    <3> QED  BY <3>1, <3>2 DEF SECS_PER_DAY
  <2>6. IsDate(FirstDate(local), local) /\ 0 + local = local
    BY <2>5, FirstIsDate
  <2>7. input.day = 0 /\ input.second = second /\ input.offset = offset /\ input.date = FirstDate(local)
    BY <2>4
  <2>8. input.day + ((input.second + input.offset) \div SECS_PER_DAY) = local
    BY <2>6, <2>7
  <2> HIDE DEF local
  <2> QED  BY <2>3, <2>4, <2>6, <2>7, <2>8 DEF InputInv
<1>4. ASSUME InputInv, [NextDay \/ TypeOn \/ AddByte]_input  PROVE InputInv'
  <2>1. CASE UNCHANGED input
    BY <1>4, <2>1 DEF InputInv
  <2>2. CASE TypeOn
    <3>1. PICK c \in Letters : input' = [input EXCEPT !.text = Append(@, c)] /\ input.of = "search"
      BY <2>2 DEF TypeOn
    <3>2. /\ input = [of |-> "search", pattern |-> input.pattern, text |-> input.text]
          /\ input.pattern \in Patterns /\ input.text \in Seq(Letters)
      BY <1>4, <3>1 DEF InputInv
    <3>3. input' = [of |-> "search", pattern |-> input.pattern, text |-> Append(input.text, c)]
      BY <3>1, <3>2
    <3>4. input'.of = "search" /\ input'.pattern = input.pattern /\ input'.text = Append(input.text, c)
      BY <3>3
    <3>5. Append(input.text, c) \in Seq(Letters)
      BY <3>2
    <3>6. input' = [of |-> "search", pattern |-> input'.pattern, text |-> input'.text]
      BY <3>3, <3>4, Zenon
    <3> QED  BY <3>2, <3>4, <3>5, <3>6, Zenon DEF InputInv
  <2>3. CASE NextDay
    <3> DEFINE local == (input.second + input.offset) \div SECS_PER_DAY
    <3>1. /\ input.of = "clock" /\ input.day \in Int /\ input.second \in Int /\ input.offset \in Int
          /\ input = [of |-> "clock", day |-> input.day, second |-> input.second,
                      offset |-> input.offset, date |-> input.date]
          /\ IsDate(input.date, input.day + local)
          /\ input' = [input EXCEPT !.day = @ + 1, !.date = Tomorrow(@)]
      BY <1>4, <2>3 DEF InputInv, NextDay
    <3>2. input' = [of |-> "clock", day |-> input.day + 1, second |-> input.second,
                    offset |-> input.offset, date |-> Tomorrow(input.date)]
      BY <3>1
    <3>3. local \in Int
      BY <3>1 DEF SECS_PER_DAY
    <3>4. IsDate(Tomorrow(input.date), (input.day + local) + 1)
      BY <3>1, TomorrowIsDate
    <3>5. (input.day + local) + 1 = (input.day + 1) + local
      BY <3>1, <3>3
    <3>6. /\ input'.of = "clock" /\ input'.day = input.day + 1 /\ input'.second = input.second
          /\ input'.offset = input.offset /\ input'.date = Tomorrow(input.date)
      BY <3>2
    <3>7. input'.day + ((input'.second + input'.offset) \div SECS_PER_DAY) = (input.day + local) + 1
      BY <3>5, <3>6
    <3>8. /\ input'.of = "clock" /\ input'.day \in Int /\ input'.second \in Int /\ input'.offset \in Int
          /\ input' = [of |-> "clock", day |-> input'.day, second |-> input'.second,
                       offset |-> input'.offset, date |-> input'.date]
      <4>1. input'.day \in Int /\ input'.second \in Int /\ input'.offset \in Int
        <5> HIDE DEF local
        <5> QED  BY <3>1, <3>6
      <4>2. input' = [of |-> "clock", day |-> input'.day, second |-> input'.second,
                      offset |-> input'.offset, date |-> input'.date]
        BY <3>2, <3>6, Zenon
      <4> QED  BY <3>6, <4>1, <4>2
    <3>9. IsDate(input'.date, input'.day + ((input'.second + input'.offset) \div SECS_PER_DAY))
      <4> HIDE DEF local
      <4> QED  BY <3>4, <3>6, <3>7
    <3> QED  BY <3>8, <3>9 DEF InputInv
  <2>4. CASE AddByte
    <3>1. PICK b \in SomeBytes : input' = [input EXCEPT !.bytes = Append(@, b)] /\ input.of = "checksum"
      BY <2>4 DEF AddByte
    <3>2. input = [of |-> "checksum", bytes |-> input.bytes] /\ input.bytes \in Seq(SUBSET (0..7))
      BY <1>4, <3>1 DEF InputInv
    <3>3. input' = [of |-> "checksum", bytes |-> Append(input.bytes, b)]
      BY <3>1, <3>2
    <3>4. input'.of = "checksum" /\ input'.bytes = Append(input.bytes, b)
      BY <3>3
    <3>5. b \in SUBSET (0..7)
      BY InputsAssumption, Zenon
    <3>6. Append(input.bytes, b) \in Seq(SUBSET (0..7))
      BY <3>2, <3>5
    <3>7. input' = [of |-> "checksum", bytes |-> input'.bytes]
      BY <3>3, <3>4, Zenon
    <3> QED  BY <3>4, <3>6, <3>7, Zenon DEF InputInv
  <2> QED  BY <1>4, <2>1, <2>2, <2>3, <2>4
<1>5. ASSUME ChecksumInit  PROVE InputInv
  <2>1. input.of = "checksum" /\ input.bytes = <<>>
    BY <1>5 DEF ChecksumInit
  <2>2. <<>> \in Seq(SUBSET (0..7))
    OBVIOUS
  <2> QED  BY <1>5, <2>1, <2>2, Zenon DEF InputInv, ChecksumInit
<1>6. InputsInit => InputInv
  BY <1>1, <1>2, <1>3, <1>5 DEF InputsInit
<1> QED  BY <1>4, <1>6, PTL DEF InputsSpec

\* On every day, however many, at every second of it and with every offset of at most
\* a day, ntyLocalTime gives the date of the calendar: its loop over the years ends,
\* and with the right one.
THEOREM LocalTimeIsRight == InputsSpec => []LocalTimeRight
<1>1. InputInv => LocalTimeRight
  <2> SUFFICES ASSUME InputInv, input.of = "clock"
               PROVE  LET t == ntyLocalTime(input.day, input.second, input.offset)
                      IN  /\ [year |-> t.year, mon |-> t.mon, mday |-> t.mday, wday |-> t.wday] = input.date
                          /\ (t.second - input.second - input.offset) % SECS_PER_DAY = 0
    BY DEF LocalTimeRight
  <2> DEFINE local == (input.second + input.offset) \div SECS_PER_DAY
             left == (input.second + input.offset) % SECS_PER_DAY
             t == CivilTime(input.day + local, left)
  <2>1. input.second \in Int /\ input.offset \in Int /\ IsDate(input.date, input.day + local)
    BY DEF InputInv
  <2>2. [year |-> t.year, mon |-> t.mon, mday |-> t.mday, wday |-> t.wday] = input.date /\ t.second = left
    <3> HIDE DEF left, local
    <3> QED  BY <2>1, CivilDate
  <2>3. (((input.second + input.offset) % SECS_PER_DAY) - input.second - input.offset) % SECS_PER_DAY = 0
    <3> DEFINE s == input.second + input.offset
               q == s \div 86400
               r == s % 86400
    <3>1. s \in Int /\ q \in Int /\ r \in Int /\ s = 86400 * q + r
      BY <2>1
    <3>2. r - input.second - input.offset = 86400 * (0 - q)
      <4> HIDE DEF q, r
      <4> QED  BY <2>1, <3>1
    <3>3. \A k \in Int : (86400 * k) % 86400 = 0
      OBVIOUS
    <3>4. (r - input.second - input.offset) % 86400 = 0
      <4> HIDE DEF q, r
      <4> QED  BY <3>1, <3>2, <3>3
    <3> QED  BY <3>4 DEF SECS_PER_DAY
  <2>4. ntyLocalTime(input.day, input.second, input.offset) = t
    BY DEF ntyLocalTime
  <2> HIDE DEF t
  <2> QED  BY <2>2, <2>3, <2>4
<1> QED  BY <1>1, InputsKept, PTL

\* Whatever is searched for in whatever text, ntyKMP ends and finds every place where
\* it is, those that overlap among them, and in order, with no entry of next beyond
\* the array.
THEOREM SearchIsComplete == InputsSpec => []KmpFindsAll
<1>1. InputInv => KmpFindsAll
  <2> SUFFICES ASSUME InputInv, input.of = "search"
               PROVE  LET found == ntyKMP(input.text, input.pattern)
                          m == Len(input.pattern)
                      IN  /\ ToSet(found) =
                               {k \in 0..(Len(input.text) - m) :
                                  SubSeq(input.text, k + 1, k + m) = input.pattern}
                          /\ \A i \in 2..Len(found) : found[i - 1] < found[i]
    BY DEF KmpFindsAll
  <2> DEFINE found == ntyKMP(input.text, input.pattern)
             S == {k \in 0..(Len(input.text) - Len(input.pattern)) :
                     SubSeq(input.text, k + 1, k + Len(input.pattern)) = input.pattern}
  <2>1. input.pattern \in Patterns /\ input.text \in Seq(Letters)
    BY DEF InputInv
  <2>2. input.pattern \in Seq(Nat \ {0}) /\ Len(input.pattern) >= 1
    <3>1. /\ input.pattern \in Seq(Nat \ {0})
          /\ Len(input.pattern) \in 1..(PATTERN_LENGTH_COUNT - 3)
      BY <2>1, InputsAssumption, Zenon
    <3>2. PATTERN_LENGTH_COUNT - 3 \in Int
      BY DEF PATTERN_LENGTH_COUNT
    <3> QED  BY <3>1, <3>2
  <2>3. input.text \in Seq(Nat \ {0})
    <3>1. Letters \subseteq Nat \ {0}
      BY InputsAssumption, Zenon
    <3> QED  BY <2>1, <3>1, SeqMonotonic
  <2>4. Lists(found, S)
    BY <2>2, <2>3, SearchFindsAll
  <2> HIDE DEF found, S
  <2>5. found \in Seq(Int) /\ {found[i] : i \in 1..Len(found)} = S
        /\ \A i, j \in 1..Len(found) : i < j => found[i] < found[j]
    BY <2>4 DEF Lists
  <2>6. ToSet(found) = S
    BY <2>5 DEF ToSet
  <2>7. \A i \in 2..Len(found) : found[i - 1] < found[i]
    <3> SUFFICES ASSUME NEW i \in 2..Len(found)  PROVE found[i - 1] < found[i]
      OBVIOUS
    <3>1. i - 1 \in 1..Len(found) /\ i \in 1..Len(found) /\ i - 1 < i
      BY <2>5
    <3> QED  BY <2>5, <3>1
  <2> QED  BY <2>6, <2>7 DEF found, S
<1> QED  BY <1>1, InputsKept, PTL

\* Whatever frame the watch sends, with as much content as the network's buffer
\* holds, is read back whole at the offsets of its type.
THEOREM FramesAreRead == InputsSpec => []FramesReadBack
<1>1. InputInv => FramesReadBack
  <2> SUFFICES ASSUME InputInv, input.of = "frame", TheFrame # Refused  PROVE FramesReadBack
    BY DEF FramesReadBack
  <2>1. input.kind \in Kinds /\ input.length \in Lengths
    BY DEF InputInv
  <2>2. ReadsBack(input.kind, input.length, Number, TheFrame)
    BY <2>1, FrameIsRead
  <2> QED  BY <2>2 DEF ReadsBack, FramesReadBack
<1> QED  BY <1>1, InputsKept, PTL

\* The checksum that ntyGenCrcValue computes byte by byte, with the table of
\* ntyGenCrcTable, is the remainder of the division bit by bit, for messages of every
\* length.
THEOREM ChecksumIsRemainder == InputsSpec => []CrcIsRemainder
<1>1. InputInv => CrcIsRemainder
  <2>1. InputInv /\ input.of = "checksum" => input.bytes \in Seq(SUBSET (0..7))
    BY DEF InputInv
  <2> QED  BY <2>1, ChecksumDivides DEF CrcIsRemainder
<1> QED  BY <1>1, InputsKept, PTL
=============================================================================
