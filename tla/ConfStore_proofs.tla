-------------------------- MODULE ConfStore_proofs --------------------------
(***************************************************************************)
(* What was committed whole is read back, for every set of numbers, every   *)
(* length of the read and every cut of the file.                            *)
(***************************************************************************)
EXTENDS ConfStore, WellFoundedInduction, SequenceTheorems, TLAPS

-----------------------------------------------------------------------------
(* Induction. *)

\* A set of natural numbers has a least one.
LEMMA LeastNatural ==
  ASSUME NEW S \in SUBSET Nat, S # {}
  PROVE  \E j \in S : \A k \in S : j <= k
<1> DEFINE Smaller == OpToRel(<, Nat)
<1>1. \A x, y \in Nat : x < y => <<x, y>> \in Smaller
  BY DEF OpToRel
<1>2. IsWellFoundedOn(Smaller, Nat)
  BY NatLessThanWellFounded
<1> HIDE DEF Smaller
<1>3. PICK j \in S : \A k \in S : ~(<<k, j>> \in Smaller)
  BY <1>2, WFMin
<1>4. ASSUME NEW k \in S, ~(j <= k)  PROVE FALSE
  <2>1. j \in Nat /\ k \in Nat
    OBVIOUS
  <2>2. k < j
    BY <1>4, <2>1
  <2>3. <<k, j>> \in Smaller
    BY <1>1, <2>1, <2>2
  <2> QED  BY <1>3, <2>3
<1> QED  BY <1>4

\* What holds at 0 and carries on to each next number up to n holds up to n.
LEMMA Upwards ==
  ASSUME NEW n \in Nat, NEW V, 0 \in V, \A k \in 1..n : k - 1 \in V => k \in V
  PROVE  0..n \subseteq V
<1> SUFFICES ASSUME NEW k \in 0..n, k \notin V  PROVE FALSE
  OBVIOUS
<1> DEFINE rest == {i \in 0..n : i \notin V}
<1>1. rest \in SUBSET Nat /\ rest # {}
  OBVIOUS
<1>2. PICK m \in rest : \A i \in rest : m <= i
  <2> HIDE DEF rest
  <2> QED  BY <1>1, LeastNatural
<1>3. m # 0 /\ m \in 1..n /\ m - 1 \notin rest
  BY <1>2
<1> QED  BY <1>2, <1>3

-----------------------------------------------------------------------------
(* The pieces of a text. *)

\* A token is a string; the provers are told of those that the code names.
Figures == {"0", "1", "2", "3", "4", "5", "6", "7", "8", "9"}

Token == STRING \cup Names \cup Figures \cup {":", "\n"}

Texts == Seq(Token)

Tables == Seq(Texts)

LEMMA NothingIsText == <<>> \in Texts /\ <<>> \in Tables
BY DEF Texts, Tables

\* A piece more, or one character more in the last piece.
Grown(ch, table, x) ==
  IF x = ch THEN Append(table, <<>>)
  ELSE [table EXCEPT ![Len(table)] = Append(@, x)]

\* What ntySeparation's loop has in its table after each character.
PiecesLoop(ch, seq, p) ==
  /\ p[0] = <<<<>>>>
  /\ \A i \in 1..Len(seq) : p[i] = Grown(ch, p[i - 1], seq[i])

LEMMA LoopSeparates ==
  ASSUME NEW ch, NEW seq, Len(seq) \in Nat
  PROVE  \E p : PiecesLoop(ch, seq, p) /\ Separation(ch, seq) = p[Len(seq)]
<1> DEFINE n == Len(seq)
           body(g) == [i \in 0..n |-> IF i = 0 THEN <<<<>>>> ELSE Grown(ch, g[i - 1], seq[i])]
           c == CHOOSE g : g = body(g)
           Upto(m, f) == /\ f = [i \in 0..n |-> f[i]] /\ f[0] = <<<<>>>>
                         /\ \A i \in 1..m : f[i] = Grown(ch, f[i - 1], seq[i])
           V == {m \in 0..n : \E f : Upto(m, f)}
<1> HIDE DEF n
<1>1. n \in Nat
  BY DEF n
<1>2. 0 \in V
  <2> DEFINE f == [i \in 0..n |-> <<<<>>>>]
  <2>1. Upto(0, f)
    BY <1>1
  <2> HIDE DEF Upto, f
  <2> QED  BY <1>1, <2>1
<1>3. ASSUME NEW m \in 1..n, m - 1 \in V  PROVE m \in V
  <2>1. PICK f : Upto(m - 1, f)
    BY <1>3
  <2> DEFINE y == Grown(ch, f[m - 1], seq[m])
             h == [i \in 0..n |-> IF i = m THEN y ELSE f[i]]
  <2> HIDE DEF y
  <2>2. h[m] = y /\ h = [i \in 0..n |-> h[i]] /\ \A i \in 0..n : i # m => h[i] = f[i]
    BY <1>1
  <2> HIDE DEF h
  <2>3. ASSUME NEW i \in 1..m  PROVE h[i] = Grown(ch, h[i - 1], seq[i])
    <3>1. i - 1 \in 0..n /\ i \in 0..n /\ i - 1 # m
      BY <1>1
    <3>2. h[i - 1] = f[i - 1]
      BY <2>2, <3>1
    <3>3. CASE i = m
      BY <2>2, <3>2, <3>3 DEF y
    <3>4. CASE i # m
      <4>1. i \in 1..(m - 1) /\ h[i] = f[i]
        BY <1>1, <2>2, <3>1, <3>4
      <4> QED  BY <2>1, <3>2, <4>1
    <3> QED  BY <3>3, <3>4
  <2>4. h[0] = <<<<>>>>
    BY <1>1, <2>1, <2>2
  <2>5. Upto(m, h)
    BY <2>2, <2>3, <2>4
  <2> HIDE DEF Upto
  <2> QED  BY <1>1, <2>5
<1>4. n \in V
  <2> HIDE DEF V
  <2>1. 0..n \subseteq V
    BY <1>1, <1>2, <1>3, Upwards
  <2> QED  BY <1>1, <2>1
<1>5. PICK f : Upto(n, f)
  BY <1>4
<1>6. f = body(f)
  <2>1. f = [i \in 0..n |-> f[i]]
    BY <1>5
  <2>2. ASSUME NEW i \in 0..n
        PROVE  f[i] = IF i = 0 THEN <<<<>>>> ELSE Grown(ch, f[i - 1], seq[i])
    <3>1. CASE i = 0
      BY <1>5, <3>1
    <3>2. CASE i # 0
      <4>1. i \in 1..n
        BY <1>1, <3>2
      <4> QED  BY <1>5, <3>2, <4>1
    <3> QED  BY <3>1, <3>2
  <2>3. [i \in 0..n |-> f[i]] = body(f)
    BY <2>2
  <2> QED  BY <2>1, <2>3, Zenon
<1>7. c = body(c)
  <2> HIDE DEF body
  <2> QED  BY <1>6
<1>8. c[0] = <<<<>>>> /\ \A i \in 1..n : c[i] = Grown(ch, c[i - 1], seq[i])
  <2> HIDE DEF c
  <2> QED  BY <1>1, <1>7
<1>9. Separation(ch, seq) = c[n]
  BY DEF Separation, n, Grown
<1> HIDE DEF c
<1> QED  BY <1>8, <1>9 DEF PiecesLoop, n

\* Nothing is one empty piece.
LEMMA NothingIsOnePiece ==
  ASSUME NEW ch
  PROVE  Separation(ch, <<>>) = <<<<>>>>
<1>1. Len(<<>>) = 0 /\ Len(<<>>) \in Nat
  OBVIOUS
<1>2. PICK p : PiecesLoop(ch, <<>>, p) /\ Separation(ch, <<>>) = p[Len(<<>>)]
  BY <1>1, LoopSeparates
<1> QED  BY <1>1, <1>2 DEF PiecesLoop

\* The next character makes the table grow.
LEMMA PiecesGrow ==
  ASSUME NEW ch, NEW seq \in Texts, NEW x \in Token
  PROVE  Separation(ch, Append(seq, x)) = Grown(ch, Separation(ch, seq), x)
<1> DEFINE n == Len(seq)
           longer == Append(seq, x)
<1>1. /\ n \in Nat /\ Len(longer) = n + 1 /\ longer[n + 1] = x
      /\ \A i \in 1..n : longer[i] = seq[i]
  BY DEF Texts
<1>4. PICK p : PiecesLoop(ch, seq, p) /\ Separation(ch, seq) = p[n]
  BY <1>1, LoopSeparates
<1> HIDE DEF longer
<1>5. PICK q : PiecesLoop(ch, longer, q) /\ Separation(ch, longer) = q[n + 1]
  <2>1. Len(longer) \in Nat
    BY <1>1
  <2> QED  BY <1>1, <2>1, LoopSeparates
<1> HIDE DEF n
<1>6. q[n] = p[n]
  <2> DEFINE V == {i \in 0..n : q[i] = p[i]}
  <2>1. 0 \in V
    <3>1. q[0] = p[0] /\ 0 \in 0..n
      BY <1>1, <1>4, <1>5 DEF PiecesLoop
    <3> QED  BY <3>1
  <2>2. ASSUME NEW i \in 1..n, i - 1 \in V  PROVE i \in V
    <3>1. i \in 1..(n + 1) /\ i \in 0..n /\ q[i - 1] = p[i - 1]
      BY <1>1, <2>2
    <3>2. q[i] = Grown(ch, q[i - 1], longer[i])
      BY <1>1, <1>5, <3>1 DEF PiecesLoop
    <3>3. p[i] = Grown(ch, p[i - 1], seq[i])
      BY <1>4 DEF PiecesLoop, n
    <3> QED  BY <1>1, <3>1, <3>2, <3>3
  <2>3. n \in V
    <3> HIDE DEF V
    <3>1. n \in Nat /\ n \in 0..n
      BY <1>1
    <3>2. 0..n \subseteq V
      BY <2>1, <2>2, <3>1, Upwards
    <3> QED  BY <3>1, <3>2
  <2> QED  BY <2>3
<1>7. q[n + 1] = Grown(ch, q[n], x)
  <2>1. n + 1 \in 1..Len(longer) /\ (n + 1) - 1 = n
    BY <1>1
  <2>2. q[n + 1] = Grown(ch, q[(n + 1) - 1], longer[n + 1])
    BY <1>5, <2>1 DEF PiecesLoop
  <2> QED  BY <1>1, <2>1, <2>2
<1> QED  BY <1>4, <1>5, <1>6, <1>7 DEF longer

-----------------------------------------------------------------------------
(* The parser. *)

\* A line of which nothing is left sets nothing.
LEMMA EmptyLineSetsNothing ==
  ASSUME NEW w
  PROVE  ParseLine(w, <<>>) = w
<1> DEFINE item == Separation(":", <<>>)
<1>1. Len(item) # 2 /\ Len(item) # 3
  BY NothingIsOnePiece
<1>2. \A p, q, a, b :
        (CASE Len(item) = 2 /\ p -> a [] Len(item) = 3 /\ q -> b [] OTHER -> w) = w
  <2> HIDE DEF item
  <2> QED  BY <1>1
<1> QED  BY <1>2, Zenon DEF ParseLine

\* What ntyConfigParser's loop has set after each line.
LinesLoop(w, lines, p) ==
  p[0] = w /\ \A i \in 1..Len(lines) : p[i] = ParseLine(p[i - 1], lines[i])

LEMMA LoopParses ==
  ASSUME NEW w, NEW lines, Len(lines) \in Nat
  PROVE  \E p : LinesLoop(w, lines, p) /\ ParseLines(w, lines) = p[Len(lines)]
<1> DEFINE n == Len(lines)
           body(g) == [i \in 0..n |-> IF i = 0 THEN w ELSE ParseLine(g[i - 1], lines[i])]
           c == CHOOSE g : g = body(g)
           Upto(m, f) == /\ f = [i \in 0..n |-> f[i]] /\ f[0] = w
                         /\ \A i \in 1..m : f[i] = ParseLine(f[i - 1], lines[i])
           V == {m \in 0..n : \E f : Upto(m, f)}
<1> HIDE DEF n
<1>1. n \in Nat
  BY DEF n
<1>2. 0 \in V
  <2> DEFINE f == [i \in 0..n |-> w]
  <2>1. Upto(0, f)
    BY <1>1
  <2> HIDE DEF Upto, f
  <2> QED  BY <1>1, <2>1
<1>3. ASSUME NEW m \in 1..n, m - 1 \in V  PROVE m \in V
  <2>1. PICK f : Upto(m - 1, f)
    BY <1>3
  <2> DEFINE y == ParseLine(f[m - 1], lines[m])
             h == [i \in 0..n |-> IF i = m THEN y ELSE f[i]]
  <2> HIDE DEF y
  <2>2. h[m] = y /\ h = [i \in 0..n |-> h[i]] /\ \A i \in 0..n : i # m => h[i] = f[i]
    BY <1>1
  <2> HIDE DEF h
  <2>3. ASSUME NEW i \in 1..m  PROVE h[i] = ParseLine(h[i - 1], lines[i])
    <3>1. i - 1 \in 0..n /\ i \in 0..n /\ i - 1 # m
      BY <1>1
    <3>2. h[i - 1] = f[i - 1]
      BY <2>2, <3>1
    <3>3. CASE i = m
      BY <2>2, <3>2, <3>3 DEF y
    <3>4. CASE i # m
      <4>1. i \in 1..(m - 1) /\ h[i] = f[i]
        BY <1>1, <2>2, <3>1, <3>4
      <4> QED  BY <2>1, <3>2, <4>1
    <3> QED  BY <3>3, <3>4
  <2>4. h[0] = w
    BY <1>1, <2>1, <2>2
  <2>5. Upto(m, h)
    BY <2>2, <2>3, <2>4
  <2> HIDE DEF Upto
  <2> QED  BY <1>1, <2>5
<1>4. n \in V
  <2> HIDE DEF V
  <2>1. 0..n \subseteq V
    BY <1>1, <1>2, <1>3, Upwards
  <2> QED  BY <1>1, <2>1
<1>5. PICK f : Upto(n, f)
  BY <1>4
<1>6. f = body(f)
  <2>1. f = [i \in 0..n |-> f[i]]
    BY <1>5
  <2>2. ASSUME NEW i \in 0..n
        PROVE  f[i] = IF i = 0 THEN w ELSE ParseLine(f[i - 1], lines[i])
    <3>1. CASE i = 0
      BY <1>5, <3>1
    <3>2. CASE i # 0
      <4>1. i \in 1..n
        BY <1>1, <3>2
      <4> QED  BY <1>5, <3>2, <4>1
    <3> QED  BY <3>1, <3>2
  <2>3. [i \in 0..n |-> f[i]] = body(f)
    BY <2>2
  <2> QED  BY <2>1, <2>3, Zenon
<1>7. c = body(c)
  <2> HIDE DEF body
  <2> QED  BY <1>6
<1>8. c[0] = w /\ \A i \in 1..n : c[i] = ParseLine(c[i - 1], lines[i])
  <2> HIDE DEF c
  <2> QED  BY <1>1, <1>7
<1>9. ParseLines(w, lines) = c[n]
  BY DEF ParseLines, n
<1> HIDE DEF c
<1> QED  BY <1>8, <1>9 DEF LinesLoop, n

\* No line sets nothing; one line more is parsed last.
LEMMA LinesGrow ==
  ASSUME NEW w, NEW lines \in Tables, NEW x \in Texts
  PROVE  /\ ParseLines(w, <<>>) = w
         /\ ParseLines(w, Append(lines, x)) = ParseLine(ParseLines(w, lines), x)
<1> DEFINE n == Len(lines)
           longer == Append(lines, x)
<1>1. /\ n \in Nat /\ Len(longer) = n + 1 /\ longer[n + 1] = x
      /\ \A i \in 1..n : longer[i] = lines[i]
  BY DEF Tables
<1>2. Len(<<>>) = 0 /\ Len(<<>>) \in Nat
  OBVIOUS
<1>3. ParseLines(w, <<>>) = w
  <2>1. PICK p : LinesLoop(w, <<>>, p) /\ ParseLines(w, <<>>) = p[Len(<<>>)]
    BY <1>2, LoopParses
  <2> QED  BY <1>2, <2>1 DEF LinesLoop
<1>4. PICK p : LinesLoop(w, lines, p) /\ ParseLines(w, lines) = p[n]
  BY <1>1, LoopParses
<1> HIDE DEF longer
<1>5. PICK q : LinesLoop(w, longer, q) /\ ParseLines(w, longer) = q[n + 1]
  <2>1. Len(longer) \in Nat
    BY <1>1
  <2> QED  BY <1>1, <2>1, LoopParses
<1> HIDE DEF n
<1>6. q[n] = p[n]
  <2> DEFINE V == {i \in 0..n : q[i] = p[i]}
  <2>1. 0 \in V
    <3>1. q[0] = p[0] /\ 0 \in 0..n
      BY <1>1, <1>4, <1>5 DEF LinesLoop
    <3> QED  BY <3>1
  <2>2. ASSUME NEW i \in 1..n, i - 1 \in V  PROVE i \in V
    <3>1. i \in 1..(n + 1) /\ i \in 0..n /\ q[i - 1] = p[i - 1]
      BY <1>1, <2>2
    <3>2. q[i] = ParseLine(q[i - 1], longer[i])
      BY <1>1, <1>5, <3>1 DEF LinesLoop
    <3>3. p[i] = ParseLine(p[i - 1], lines[i])
      BY <1>4 DEF LinesLoop, n
    <3>4. longer[i] = lines[i]
      BY <1>1
    <3>5. q[i] = p[i]
      BY <3>1, <3>2, <3>3, <3>4, Zenon
    <3> QED  BY <3>1, <3>5
  <2>3. n \in V
    <3> HIDE DEF V
    <3>1. n \in Nat /\ n \in 0..n
      BY <1>1
    <3>2. 0..n \subseteq V
      BY <2>1, <2>2, <3>1, Upwards
    <3> QED  BY <3>1, <3>2
  <2> QED  BY <2>3
<1>7. q[n + 1] = ParseLine(q[n], x)
  <2>1. n + 1 \in 1..Len(longer) /\ (n + 1) - 1 = n
    BY <1>1
  <2>2. q[n + 1] = ParseLine(q[(n + 1) - 1], longer[n + 1])
    BY <1>5, <2>1 DEF LinesLoop
  <2> QED  BY <1>1, <2>1, <2>2
<1> QED  BY <1>3, <1>4, <1>5, <1>6, <1>7 DEF longer

\* What ntyWatchConfigInit parses when the file could not be opened changes no
\* setting.
LEMMA EmptyBufferSetsNothing ==
  ASSUME NEW w
  PROVE  ntyConfigParser(w, <<>>) = w
<1>1. ParseLines(w, Append(<<>>, <<>>)) = ParseLine(ParseLines(w, <<>>), <<>>)
  BY NothingIsText, LinesGrow
<1>2. ParseLines(w, <<>>) = w
  BY NothingIsText, LinesGrow
<1>3. Append(<<>>, <<>>) = <<<<>>>>
  OBVIOUS
<1>4. ParseLines(w, <<<<>>>>) = w
  BY <1>1, <1>2, <1>3, EmptyLineSetsNothing, Zenon
<1> QED  BY <1>4, NothingIsOnePiece, Zenon DEF ntyConfigParser

-----------------------------------------------------------------------------
(* The numbers in memory. *)

\* What a slot may hold.
Whole == {<<>>, Defaults[1], Defaults[2]} \cup Given

\* The settings have their lists, each with its slots and nothing else in them.
Settings(w) ==
  /\ w = [flag |-> w.flag, list |-> w.list]
  /\ w.list = [l \in ListNames |-> w.list[l]]
  /\ \A l \in ListNames : w.list[l] \in [1..Size(l) -> Whole]

LEMMA ListFacts ==
  "FamilyNumber" \in ListNames /\ Size("FamilyNumber") = 2
<1>1. Len(Lists) = 3 /\ Lists[1] = "FamilyNumber"
  BY DEF Lists
<1> QED  BY <1>1 DEF ListNames, Size

LEMMA ZeroedIsWhole == Settings(Zeroed)
<1>1. \A l \in ListNames : Zeroed.list[l] = [i \in 1..Size(l) |-> <<>>]
  BY DEF Zeroed
<1>2. Zeroed.list = [l \in ListNames |-> Zeroed.list[l]]
  BY DEF Zeroed
<1>3. Zeroed = [flag |-> Zeroed.flag, list |-> Zeroed.list]
  BY DEF Zeroed
<1>4. <<>> \in Whole
  BY DEF Whole
<1> QED  BY <1>1, <1>2, <1>3, <1>4 DEF Settings

\* A list may be replaced by one that holds whole numbers.
LEMMA ListReplaced ==
  ASSUME NEW w, Settings(w), NEW numbers \in [1..2 -> Whole]
  PROVE  Settings([w EXCEPT !.list["FamilyNumber"] = numbers])
<1> DEFINE u == [w EXCEPT !.list["FamilyNumber"] = numbers]
<1>1. u = [flag |-> w.flag, list |-> [w.list EXCEPT !["FamilyNumber"] = numbers]]
  BY DEF Settings
<1>2. u.list = [l \in ListNames |-> IF l = "FamilyNumber" THEN numbers ELSE w.list[l]]
  BY <1>1, ListFacts DEF Settings
<1>3. u = [flag |-> u.flag, list |-> u.list]
  BY <1>1
<1> HIDE DEF u
<1>4. Settings(u)
  BY <1>2, <1>3, ListFacts DEF Settings
<1> QED  BY <1>4 DEF u

-----------------------------------------------------------------------------
(* What is saved is read back. *)

\* A text with k characters of another behind it.
With(s, t, k) == s \o SubSeq(t, 1, k)

LEMMA TextGrows ==
  ASSUME NEW s \in Texts, NEW t \in Texts
  PROVE  /\ With(s, t, 0) = s /\ With(s, t, Len(t)) = s \o t /\ s \o t \in Texts
         /\ \A k \in 1..Len(t) :
              /\ With(s, t, k) = Append(With(s, t, k - 1), t[k])
              /\ With(s, t, k - 1) \in Texts /\ t[k] \in Token
<1>1. With(s, t, 0) = s
  <2>1. SubSeq(t, 1, 0) = <<>>
    BY DEF Texts
  <2> QED  BY <2>1 DEF With, Texts
<1>2. With(s, t, Len(t)) = s \o t
  <2>1. SubSeq(t, 1, Len(t)) = t
    BY DEF Texts
  <2> QED  BY <2>1 DEF With
<1>3. s \o t \in Texts
  BY DEF Texts
<1>4. ASSUME NEW k \in 1..Len(t)
      PROVE  /\ With(s, t, k) = Append(With(s, t, k - 1), t[k])
             /\ With(s, t, k - 1) \in Texts /\ t[k] \in Token
  <2> DEFINE m == k - 1
             a == SubSeq(t, 1, k)
             b == SubSeq(t, 1, m)
             x == t[k]
             sa == s \o a
             sb == s \o b
             sbx == Append(sb, x)
             n == Len(s)
  <2>1. k \in Nat /\ k = m + 1 /\ m \in Nat /\ n \in Nat /\ s \in Seq(Token)
    BY DEF Texts
  <2>2. a \in Seq(Token) /\ Len(a) = k /\ \A i \in 1..k : a[i] = t[i]
    BY DEF Texts
  <2>3. b \in Seq(Token) /\ Len(b) = m /\ \A i \in 1..m : b[i] = t[i]
    BY DEF Texts
  <2>4. x \in Token
    BY DEF Texts
  <2> HIDE DEF a, b, m
  <2>5. /\ sa \in Seq(Token) /\ Len(sa) = n + k
        /\ \A i \in 1..(n + k) : sa[i] = IF i <= n THEN s[i] ELSE a[i - n]
    BY <2>1, <2>2, ConcatProperties, SMTT(40)
  <2>6. /\ sb \in Seq(Token) /\ Len(sb) = n + m
        /\ \A i \in 1..(n + m) : sb[i] = IF i <= n THEN s[i] ELSE b[i - n]
    BY <2>1, <2>3, ConcatProperties
  <2> HIDE DEF sa, sb
  <2>7. /\ sbx \in Seq(Token) /\ Len(sbx) = (n + m) + 1
        /\ sbx[(n + m) + 1] = x /\ \A i \in 1..(n + m) : sbx[i] = sb[i]
    <3> HIDE DEF x, n
    <3> QED  BY <2>4, <2>6, AppendProperties
  <2> HIDE DEF sbx, n
  <2>8. ASSUME NEW i \in 1..(n + k)  PROVE sa[i] = sbx[i]
    <3>1. CASE i = n + k
      <4>1. sa[i] = a[k]
        BY <2>1, <2>5, <3>1
      <4>2. sbx[i] = x
        BY <2>1, <2>7, <3>1
      <4>3. a[k] = t[k]
        BY <2>1, <2>2
      <4> QED  BY <4>1, <4>2, <4>3
    <3>2. CASE i # n + k
      <4>1. i \in 1..(n + m) /\ (i > n => i - n \in 1..m /\ i - n \in 1..k)
        BY <2>1, <3>2
      <4>2. sbx[i] = IF i <= n THEN s[i] ELSE b[i - n]
        BY <2>6, <2>7, <4>1
      <4>3. i > n => a[i - n] = b[i - n]
        BY <2>2, <2>3, <4>1
      <4>4. i \in Int /\ n \in Int
        BY <2>1
      <4> HIDE DEF x
      <4> QED  BY <2>5, <4>2, <4>3, <4>4
    <3> QED  BY <3>1, <3>2
  <2>9. Len(sa) = Len(sbx)
    BY <2>1, <2>5, <2>7
  <2>10. sa = sbx
    <3>1. \A i \in 1..Len(sa) : sa[i] = sbx[i]
      BY <2>5, <2>8
    <3> QED  BY <2>5, <2>7, <2>9, <3>1, SeqEqual
  <2>11. With(s, t, k) = sa /\ With(s, t, k - 1) = sb
    BY DEF With, sa, sb, a, b, m
  <2> QED  BY <2>4, <2>6, <2>10, <2>11 DEF sbx, x, Texts
<1> QED  BY <1>1, <1>2, <1>3, <1>4

\* The last of the pieces gets one character more.
LEMMA LastGrows ==
  ASSUME NEW ch, NEW ps \in Tables, NEW p \in Texts, NEW x \in Token, x # ch
  PROVE  Grown(ch, Append(ps, p), x) = Append(ps, Append(p, x))
<1> DEFINE n == Len(ps)
           px == Append(p, x)
           before == Append(ps, p)
           after == Append(ps, px)
<1>1. n \in Nat /\ px \in Texts /\ ps \in Seq(Texts)
  BY DEF Tables, Texts
<1> HIDE DEF px
<1>2. /\ before \in Seq(Texts) /\ Len(before) = n + 1 /\ before[n + 1] = p
      /\ \A i \in 1..n : before[i] = ps[i]
  BY <1>1, AppendProperties
<1>3. /\ after \in Seq(Texts) /\ Len(after) = n + 1 /\ after[n + 1] = px
      /\ \A i \in 1..n : after[i] = ps[i]
  BY <1>1, AppendProperties
<1> HIDE DEF before, after, n
<1>4. before \in [1..(n + 1) -> Texts] /\ after \in [1..(n + 1) -> Texts]
  BY <1>2, <1>3
<1>5. [before EXCEPT ![n + 1] = px] = after
  BY <1>1, <1>2, <1>3, <1>4
<1>6. Grown(ch, before, x) = IF x = ch THEN Append(before, <<>>)
                             ELSE [before EXCEPT ![n + 1] = Append(before[n + 1], x)]
  BY <1>2 DEF Grown
<1>7. Grown(ch, before, x) = after
  BY <1>2, <1>5, <1>6 DEF px
<1> QED  BY <1>7 DEF before, after, px

\* The pieces of seq are those of the table ps, and p is the last one.
Pieces(ch, seq, ps, p) == Separation(ch, seq) = Append(ps, p)

LEMMA PieceGrows ==
  ASSUME NEW ch, NEW seq \in Texts, NEW ps \in Tables, NEW p \in Texts,
         Pieces(ch, seq, ps, p), NEW x \in Token, x # ch
  PROVE  Pieces(ch, Append(seq, x), ps, Append(p, x))
<1>1. Separation(ch, Append(seq, x)) = Grown(ch, Append(ps, p), x)
  BY PiecesGrow, Zenon DEF Pieces
<1>2. Grown(ch, Append(ps, p), x) = Append(ps, Append(p, x))
  BY LastGrows
<1> QED  BY <1>1, <1>2, Zenon DEF Pieces

LEMMA PieceCloses ==
  ASSUME NEW ch \in Token, NEW seq \in Texts, NEW ps, NEW p, Pieces(ch, seq, ps, p)
  PROVE  Pieces(ch, Append(seq, ch), Append(ps, p), <<>>)
<1>1. Separation(ch, Append(seq, ch)) = Grown(ch, Append(ps, p), ch)
  BY PiecesGrow, Zenon DEF Pieces
<1>2. Grown(ch, Append(ps, p), ch) = Append(Append(ps, p), <<>>)
  BY Zenon DEF Grown
<1> QED  BY <1>1, <1>2, Zenon DEF Pieces

\* The character is not in the text.
Without(ch, t) == \A i \in 1..Len(t) : t[i] # ch

\* Characters that do not separate are added to the last piece.
LEMMA PieceReads ==
  ASSUME NEW ch, NEW seq \in Texts, NEW t \in Texts, Without(ch, t),
         NEW ps \in Tables, NEW p \in Texts, Pieces(ch, seq, ps, p)
  PROVE  Pieces(ch, seq \o t, ps, p \o t)
<1> DEFINE n == Len(t)
           V == {k \in 0..n : Pieces(ch, With(seq, t, k), ps, With(p, t, k))}
<1>1. n \in Nat
  BY DEF Texts
<1>2. With(seq, t, 0) = seq /\ With(p, t, 0) = p
      /\ With(seq, t, n) = seq \o t /\ With(p, t, n) = p \o t
  BY TextGrows
<1>3. \A k \in 1..n : /\ With(seq, t, k) = Append(With(seq, t, k - 1), t[k])
                      /\ With(seq, t, k - 1) \in Texts /\ t[k] \in Token
  BY TextGrows
<1>4. \A k \in 1..n : /\ With(p, t, k) = Append(With(p, t, k - 1), t[k])
                      /\ With(p, t, k - 1) \in Texts
  BY TextGrows
<1>5. 0 \in V
  BY <1>1, <1>2
<1>6. ASSUME NEW k \in 1..n, k - 1 \in V  PROVE k \in V
  <2> DEFINE s == With(seq, t, k - 1)
             q == With(p, t, k - 1)
             x == t[k]
  <2>1. With(seq, t, k) = Append(s, x) /\ s \in Texts /\ x \in Token
    BY <1>3
  <2>2. With(p, t, k) = Append(q, x) /\ q \in Texts
    BY <1>4
  <2>3. x # ch
    BY DEF Without
  <2>4. Pieces(ch, s, ps, q) /\ k \in 0..n
    BY <1>1, <1>6
  <2> HIDE DEF s, q, n, x
  <2>5. Pieces(ch, Append(s, x), ps, Append(q, x))
    BY <2>1, <2>2, <2>3, <2>4, PieceGrows, Zenon
  <2> QED  BY <2>1, <2>2, <2>4, <2>5
<1>7. 0..n \subseteq V
  <2> HIDE DEF V, n
  <2> QED  BY <1>1, <1>5, <1>6, Upwards
<1>8. n \in V
  BY <1>1, <1>7
<1> HIDE DEF n
<1> QED  BY <1>2, <1>8

\* Behind a separator they are a piece of their own.
LEMMA PieceFollows ==
  ASSUME NEW ch, NEW seq \in Texts, NEW t \in Texts, Without(ch, t),
         NEW ps \in Tables, Pieces(ch, seq, ps, <<>>)
  PROVE  Pieces(ch, seq \o t, ps, t)
<1> DEFINE e == <<>>
<1>1. e \in Texts /\ Pieces(ch, seq, ps, e)
  BY NothingIsText
<1> HIDE DEF e
<1>2. Pieces(ch, seq \o t, ps, e \o t)
  BY <1>1, PieceReads, Zenon
<1>3. e \o t = t
  BY DEF Texts, e
<1> QED  BY <1>2, <1>3

\* All lines of the text are ended.
Ended(text) ==
  /\ text \in Texts
  /\ \E ps \in Tables : Pieces("\n", text, ps, <<>>)

\* A line more is parsed last.
LEMMA LineParsed ==
  ASSUME NEW w, NEW text, Ended(text), NEW line \in Texts, Without("\n", line)
  PROVE  /\ Ended(text \o Append(line, "\n"))
         /\ ntyConfigParser(w, text \o Append(line, "\n"))
              = ParseLine(ntyConfigParser(w, text), line)
<1> DEFINE closed == Append(line, "\n")
           last == Append(text \o line, "\n")
<1>1. PICK ps \in Tables : Pieces("\n", text, ps, <<>>)
  BY DEF Ended
<1>2. text \in Texts /\ "\n" \in Token
  <2>1. text \in Texts
    BY DEF Ended
  <2>2. "\n" \in Token
    BY DEF Token
  <2> QED  BY <2>1, <2>2
<1>3. text \o closed = last
  BY <1>2 DEF Texts
<1>4. text \o line \in Texts /\ last \in Texts /\ <<>> \in Texts
  <2>1. text \o line \in Texts
    BY <1>2, TextGrows
  <2>2. last \in Texts
    BY <1>2, <2>1 DEF Texts
  <2> QED  BY <2>1, <2>2, NothingIsText
<1>5. Pieces("\n", text \o line, ps, line)
  BY <1>1, <1>2, PieceFollows, Zenon
<1> DEFINE more == Append(ps, line)
<1>6. more \in Tables
  BY DEF Tables
<1>7. Pieces("\n", last, more, <<>>)
  BY <1>2, <1>4, <1>5, PieceCloses, Zenon
<1> HIDE DEF last, closed
<1>8. ParseLines(w, more) = ParseLine(ParseLines(w, ps), line)
  BY LinesGrow, Zenon
<1> HIDE DEF more
<1>9. ParseLines(w, Append(more, <<>>)) = ParseLines(w, more)
  <2>1. ParseLines(w, Append(more, <<>>)) = ParseLine(ParseLines(w, more), <<>>)
    BY <1>4, <1>6, LinesGrow, Zenon
  <2> QED  BY <2>1, EmptyLineSetsNothing, Zenon
<1>10. ParseLines(w, Append(ps, <<>>)) = ParseLines(w, ps)
  <2>1. ParseLines(w, Append(ps, <<>>)) = ParseLine(ParseLines(w, ps), <<>>)
    BY <1>4, LinesGrow, Zenon
  <2> QED  BY <2>1, EmptyLineSetsNothing, Zenon
<1>11. ntyConfigParser(w, text) = ParseLines(w, ps)
  BY <1>1, <1>10, Zenon DEF ntyConfigParser, Pieces
<1>12. ntyConfigParser(w, last) = ParseLine(ParseLines(w, ps), line)
  BY <1>7, <1>8, <1>9, Zenon DEF ntyConfigParser, Pieces
<1>13. Ended(last)
  BY <1>4, <1>6, <1>7, Zenon DEF Ended
<1>14. text \o Append(line, "\n") = last
  BY <1>3 DEF closed
<1> QED  BY <1>11, <1>12, <1>13, <1>14, Zenon

-----------------------------------------------------------------------------
(* The lines. *)

LEMMA NamesAre ==
  /\ FlagNames \subseteq Token /\ ListNames \subseteq Token
  /\ ":" \in Token /\ "\n" \in Token /\ "0" \in Token
  /\ \A n \in FlagNames \cup ListNames : n # ":" /\ n # "\n"
<1>1. FlagNames \subseteq {"Step", "Sleep", "SOSMsg", "PowerMsg", "AlarmMusic", "SafeZoneMusic", "Freq"}
  BY DEF FlagNames, Flags
<1>2. ListNames \subseteq {"FamilyNumber", "Contacts", "PhoneBook"}
  BY DEF ListNames, Lists
<1>3. \A n \in FlagNames \cup ListNames : n # ":" /\ n # "\n"
  BY <1>1, <1>2
<1>4. ":" \in Token /\ "\n" \in Token /\ "0" \in Token
  BY DEF Token, Figures
<1>5. FlagNames \subseteq Token /\ ListNames \subseteq Token
  BY DEF Token, Names
<1> QED  BY <1>3, <1>4, <1>5

\* The figures of a slot have no separator, and no other slot has them.
LEMMA DecimalIs ==
  /\ \A i \in 1..10 : /\ Decimal(i) \in Texts
                      /\ Without(":", Decimal(i)) /\ Without("\n", Decimal(i))
  /\ \A i, j \in 1..10 : Decimal(i) = Decimal(j) => i = j
<1>1. ASSUME NEW i \in 1..10
      PROVE  \/ Len(Decimal(i)) = 1 /\ \E x \in Figures : Decimal(i) = <<x>>
             \/ Decimal(i) = <<"1", "0">>
  BY DEF Decimal, Figures
<1>2. ":" \notin Figures /\ "\n" \notin Figures /\ Figures \subseteq Token
  BY DEF Figures, Token
<1>3. ASSUME NEW x \in Figures
      PROVE  <<x>> \in Texts /\ Without(":", <<x>>) /\ Without("\n", <<x>>)
  BY <1>2 DEF Texts, Without
<1>4. /\ <<"1", "0">> \in Texts
      /\ Without(":", <<"1", "0">>) /\ Without("\n", <<"1", "0">>)
  <2>1. "1" \in Token /\ "0" \in Token
    BY DEF Figures, Token
  <2>2. <<"1", "0">> \in Texts
    BY <2>1 DEF Texts
  <2> QED  BY <2>2 DEF Without
<1>5. ASSUME NEW i \in 1..10, NEW j \in 1..10, Decimal(i) = Decimal(j)  PROVE i = j
  BY <1>5 DEF Decimal
<1> QED  BY <1>1, <1>3, <1>4, <1>5

\* The line of a number, but for its end.
NumberLine(l, i, number) == <<l, ":">> \o Decimal(i) \o <<":">> \o number

LEMMA TuplesAppended ==
  /\ \A x, y : Append(<<x>>, y) = <<x, y>>
  /\ \A x, y, z : Append(<<x, y>>, z) = <<x, y, z>>
  /\ \A x, y, z, u : Append(<<x, y, z>>, u) = <<x, y, z, u>>
<1>1. ASSUME NEW x, NEW y  PROVE Append(<<x>>, y) = <<x, y>>
  <2> DEFINE T == {x, y}
             s == <<x>>
             a == Append(s, y)
             b == <<x, y>>
  <2>1. s \in Seq(T) /\ y \in T /\ Len(s) = 1 /\ s[1] = x
    OBVIOUS
  <2>2. b \in Seq(T) /\ Len(b) = 2 /\ b[1] = x /\ b[2] = y
    OBVIOUS
  <2> HIDE DEF s, b, T
  <2>3. a \in Seq(T) /\ Len(a) = 2 /\ a[1] = x /\ a[2] = y
    <3>1. /\ a \in Seq(T) /\ Len(a) = Len(s) + 1 /\ a[Len(s) + 1] = y
          /\ \A i \in 1..Len(s) : a[i] = s[i]
      <4> HIDE DEF a
      <4>1. s \in Seq(T) /\ y \in T
        BY <2>1
      <4> QED  BY <4>1, AppendProperties DEF a
    <3> HIDE DEF a
    <3> QED  BY <2>1, <3>1
  <2> HIDE DEF a
  <2>4. \A i \in 1..Len(a) : a[i] = b[i]
    BY <2>2, <2>3
  <2>5. a = b
    BY <2>2, <2>3, <2>4, SeqEqual
  <2> QED  BY <2>5 DEF a, b, s
<1>2. ASSUME NEW x, NEW y, NEW z  PROVE Append(<<x, y>>, z) = <<x, y, z>>
  <2> DEFINE T == {x, y, z}
             s == <<x, y>>
             a == Append(s, z)
             b == <<x, y, z>>
  <2>1. s \in Seq(T) /\ z \in T /\ Len(s) = 2 /\ s[1] = x /\ s[2] = y
    OBVIOUS
  <2>2. b \in Seq(T) /\ Len(b) = 3 /\ b[1] = x /\ b[2] = y /\ b[3] = z
    OBVIOUS
  <2> HIDE DEF s, b, T
  <2>3. a \in Seq(T) /\ Len(a) = 3 /\ a[1] = x /\ a[2] = y /\ a[3] = z
    <3>1. /\ a \in Seq(T) /\ Len(a) = Len(s) + 1 /\ a[Len(s) + 1] = z
          /\ \A i \in 1..Len(s) : a[i] = s[i]
      <4> HIDE DEF a
      <4>1. s \in Seq(T) /\ z \in T
        BY <2>1
      <4> QED  BY <4>1, AppendProperties DEF a
    <3> HIDE DEF a
    <3> QED  BY <2>1, <3>1
  <2> HIDE DEF a
  <2>4. \A i \in 1..Len(a) : a[i] = b[i]
    BY <2>2, <2>3
  <2>5. a = b
    BY <2>2, <2>3, <2>4, SeqEqual
  <2> QED  BY <2>5 DEF a, b, s
<1>3. ASSUME NEW x, NEW y, NEW z, NEW u  PROVE Append(<<x, y, z>>, u) = <<x, y, z, u>>
  <2> DEFINE T == {x, y, z, u}
             s == <<x, y, z>>
             a == Append(s, u)
             b == <<x, y, z, u>>
  <2>1. s \in Seq(T) /\ u \in T /\ Len(s) = 3 /\ s[1] = x /\ s[2] = y /\ s[3] = z
    OBVIOUS
  <2>2. b \in Seq(T) /\ Len(b) = 4 /\ b[1] = x /\ b[2] = y /\ b[3] = z /\ b[4] = u
    OBVIOUS
  <2> HIDE DEF s, b, T
  <2>3. a \in Seq(T) /\ Len(a) = 4 /\ a[1] = x /\ a[2] = y /\ a[3] = z /\ a[4] = u
    <3>1. /\ a \in Seq(T) /\ Len(a) = Len(s) + 1 /\ a[Len(s) + 1] = u
          /\ \A i \in 1..Len(s) : a[i] = s[i]
      <4> HIDE DEF a
      <4>1. s \in Seq(T) /\ u \in T
        BY <2>1
      <4> QED  BY <4>1, AppendProperties DEF a
    <3> HIDE DEF a
    <3> QED  BY <2>1, <3>1
  <2> HIDE DEF a
  <2>4. \A i \in 1..Len(a) : a[i] = b[i]
    BY <2>2, <2>3
  <2>5. a = b
    BY <2>2, <2>3, <2>4, SeqEqual
  <2> QED  BY <2>5 DEF a, b, s
<1> QED  BY <1>1, <1>2, <1>3

LEMMA FirstPiece ==
  ASSUME NEW name \in Token, name # ":"
  PROVE  /\ Pieces(":", <<name, ":">>, <<<<name>>>>, <<>>)
         /\ <<name, ":">> \in Texts /\ <<<<name>>>> \in Tables
<1> DEFINE e == <<>>
           one == <<name>>
<1>1. e \in Texts /\ e \in Tables /\ one \in Texts /\ one = Append(e, name)
  BY DEF Texts, Tables
<1>2. Append(e, e) = <<<<>>>> /\ Append(e, one) = <<<<name>>>> /\ Append(one, ":") = <<name, ":">>
  <2>1. \A x : Append(<<>>, x) = <<x>>
    OBVIOUS
  <2>2. Append(<<name>>, ":") = <<name, ":">>
    BY TuplesAppended
  <2> QED  BY <2>1, <2>2, Zenon
<1>3. Separation(":", e) = <<<<>>>>
  BY NothingIsOnePiece, Zenon
<1>4. <<name, ":">> \in Texts /\ <<<<name>>>> \in Tables
  BY NamesAre, <1>1 DEF Texts, Tables
<1>5. Pieces(":", e, e, e)
  BY <1>2, <1>3 DEF Pieces
<1> HIDE DEF e, one
<1>6. Pieces(":", one, e, one)
  BY <1>1, <1>5, PieceGrows, Zenon
<1>7. ":" \in Token
  BY NamesAre
<1>8. Pieces(":", Append(one, ":"), Append(e, one), <<>>)
  BY <1>1, <1>6, <1>7, PieceCloses, Zenon
<1> QED  BY <1>2, <1>4, <1>8, Zenon

LEMMA NumberLineIs ==
  ASSUME NEW l \in ListNames, NEW i \in 1..10, NEW number \in Texts,
         Without(":", number), Without("\n", number)
  PROVE  /\ Separation(":", NumberLine(l, i, number)) = <<<<l>>, Decimal(i), number>>
         /\ NumberLine(l, i, number) \in Texts /\ Without("\n", NumberLine(l, i, number))
<1> DEFINE a == <<l, ":">>
           ps == <<<<l>>>>
           d == Decimal(i)
           b == a \o d
           c == Append(b, ":")
<1>1. Pieces(":", a, ps, <<>>) /\ a \in Texts /\ ps \in Tables
  BY NamesAre, FirstPiece
<1>2. d \in Texts /\ Without(":", d) /\ Without("\n", d)
  BY DecimalIs
<1>3. Without("\n", a)
  BY NamesAre DEF Without
<1>4. Append(ps, d) = <<<<l>>, d>> /\ Append(<<<<l>>, d>>, number) = <<<<l>>, d, number>>
  BY TuplesAppended, Zenon
<1> HIDE DEF a, ps, d
<1>5. Pieces(":", b, ps, d)
  BY <1>1, <1>2, PieceFollows, Zenon
<1>6. b \in Texts /\ ":" \in Token /\ c \in Texts /\ Append(ps, d) \in Tables /\ c \o number \in Texts
  BY <1>1, <1>2, NamesAre DEF Texts, Tables
<1>7. NumberLine(l, i, number) = c \o number
  BY <1>1, <1>2 DEF NumberLine, a, d, Texts
<1>8. Without("\n", c \o number)
  BY <1>1, <1>2, <1>3 DEF Without, Texts
<1> HIDE DEF b
<1>9. Pieces(":", c, Append(ps, d), <<>>)
  BY <1>5, <1>6, PieceCloses, Zenon
<1> HIDE DEF c
<1>10. Pieces(":", c \o number, Append(ps, d), number)
  BY <1>6, <1>9, PieceFollows, Zenon
<1> QED  BY <1>4, <1>6, <1>7, <1>8, <1>10, Zenon DEF Pieces, d

\* What a line sets.
LEMMA NumberParsed ==
  ASSUME NEW w, NEW l \in ListNames, NEW i \in 1..Size(l), NEW number \in Texts,
         Without(":", number), Without("\n", number)
  PROVE  ParseLine(w, NumberLine(l, i, number)) = [w EXCEPT !.list[l][i] = number]
<1> DEFINE line == NumberLine(l, i, number)
           item == Separation(":", line)
           slot(n) == CHOOSE j \in 1..Size(n) : Decimal(j) = item[2]
           set == [w EXCEPT !.list[item[1][1]][slot(item[1][1])] = item[3]]
           isFlag == Len(item) = 2 /\ \E f \in FlagNames : item[1] = <<f>>
           isNumber == Len(item) = 3 /\ \E n \in ListNames : item[1] = <<n>>
           flag == [w EXCEPT !.flag[item[1][1]] = IF item[2] = <<>> THEN "" ELSE item[2][1]]
<1>1. i \in 1..10 /\ 1..Size(l) \subseteq 1..10
  BY DEF Size
<1>2. item = <<<<l>>, Decimal(i), number>>
  BY <1>1, NumberLineIs
<1> HIDE DEF item
<1>3. Len(item) = 3 /\ item[1] = <<l>> /\ item[1][1] = l /\ item[2] = Decimal(i) /\ item[3] = number
  BY <1>2
<1>4. slot(l) = i
  <2>1. \E j \in 1..Size(l) : Decimal(j) = item[2]
    BY <1>3
  <2>2. slot(l) \in 1..Size(l) /\ Decimal(slot(l)) = item[2]
    BY <2>1
  <2> HIDE DEF slot
  <2> QED  BY <1>1, <1>3, <2>2, DecimalIs
<1> HIDE DEF slot
<1>5. set = [w EXCEPT !.list[l][i] = number]
  BY <1>3, <1>4
<1>6. isNumber /\ ~isFlag
  BY <1>3
<1>7. ParseLine(w, line) = CASE isFlag -> flag [] isNumber -> set [] OTHER -> w
  BY DEF ParseLine, item, slot
<1> HIDE DEF isFlag, isNumber, flag, set, line
<1>8. (CASE isFlag -> flag [] isNumber -> set [] OTHER -> w) = set
  BY <1>6
<1> QED  BY <1>5, <1>7, <1>8, Zenon DEF line

LEMMA FlagParsed ==
  ASSUME NEW w, NEW f \in FlagNames
  PROVE  /\ ParseLine(w, <<f, ":", "0">>) = [w EXCEPT !.flag[f] = "0"]
         /\ <<f, ":", "0">> \in Texts /\ Without("\n", <<f, ":", "0">>)
<1> DEFINE line == <<f, ":", "0">>
           item == Separation(":", line)
           slot(n) == CHOOSE j \in 1..Size(n) : Decimal(j) = item[2]
           set == [w EXCEPT !.list[item[1][1]][slot(item[1][1])] = item[3]]
           isFlag == Len(item) = 2 /\ \E n \in FlagNames : item[1] = <<n>>
           isNumber == Len(item) = 3 /\ \E n \in ListNames : item[1] = <<n>>
           flag == [w EXCEPT !.flag[item[1][1]] = IF item[2] = <<>> THEN "" ELSE item[2][1]]
<1>1. item = <<<<f>>, <<"0">>>>
  <2> DEFINE a == <<f, ":">>
             ps == <<<<f>>>>
             e == <<>>
  <2>1. Pieces(":", a, ps, e) /\ a \in Texts /\ ps \in Tables
    BY NamesAre, FirstPiece
  <2>2. Append(a, "0") = line /\ Append(ps, <<"0">>) = <<<<f>>, <<"0">>>>
    BY TuplesAppended, Zenon
  <2>3. e \in Texts /\ Append(e, "0") = <<"0">> /\ "0" \in Token /\ "0" # ":"
    BY NothingIsText, NamesAre
  <2> HIDE DEF a, ps, e, line
  <2>4. Pieces(":", Append(a, "0"), ps, Append(e, "0"))
    BY <2>1, <2>3, PieceGrows, Zenon
  <2>5. Pieces(":", line, ps, <<"0">>)
    BY <2>2, <2>3, <2>4, Zenon
  <2> QED  BY <2>2, <2>5, Zenon DEF Pieces
<1>2. line \in Texts /\ Without("\n", line)
  <2>1. line \in Texts
    BY NamesAre DEF Texts
  <2>2. f # "\n"
    BY NamesAre
  <2> QED  BY <2>1, <2>2 DEF Without
<1> HIDE DEF item
<1>3. Len(item) = 2 /\ item[1] = <<f>> /\ item[1][1] = f /\ item[2] = <<"0">> /\ item[2][1] = "0"
  BY <1>1
<1>4. item[2] # <<>>
  BY <1>3
<1>5. flag = [w EXCEPT !.flag[f] = "0"]
  BY <1>3, <1>4
<1>6. isFlag /\ ~isNumber
  BY <1>3
<1>7. ParseLine(w, line) = CASE isFlag -> flag [] isNumber -> set [] OTHER -> w
  BY DEF ParseLine, item, slot
<1> HIDE DEF isFlag, isNumber, flag, set, line
<1>8. (CASE isFlag -> flag [] isNumber -> set [] OTHER -> w) = flag
  BY <1>6
<1> QED  BY <1>2, <1>5, <1>7, <1>8, Zenon DEF line

-----------------------------------------------------------------------------
(* The text that is saved. *)

\* What ntyWatchConfigOrganization has written after each line.
WrittenLoop(text, lines, p) ==
  p[0] = text /\ \A i \in 1..Len(lines) : p[i] = p[i - 1] \o lines[i]

LEMMA LoopWrites ==
  ASSUME NEW text, NEW lines, Len(lines) \in Nat
  PROVE  \E p : WrittenLoop(text, lines, p) /\ Written(text, lines) = p[Len(lines)]
<1> DEFINE n == Len(lines)
           body(g) == [i \in 0..n |-> IF i = 0 THEN text ELSE g[i - 1] \o lines[i]]
           c == CHOOSE g : g = body(g)
           Upto(m, f) == /\ f = [i \in 0..n |-> f[i]] /\ f[0] = text
                         /\ \A i \in 1..m : f[i] = f[i - 1] \o lines[i]
           V == {m \in 0..n : \E f : Upto(m, f)}
<1> HIDE DEF n
<1>1. n \in Nat
  BY DEF n
<1>2. 0 \in V
  <2> DEFINE f == [i \in 0..n |-> text]
  <2>1. Upto(0, f)
    BY <1>1
  <2> HIDE DEF Upto, f
  <2> QED  BY <1>1, <2>1
<1>3. ASSUME NEW m \in 1..n, m - 1 \in V  PROVE m \in V
  <2>1. PICK f : Upto(m - 1, f)
    BY <1>3
  <2> DEFINE y == f[m - 1] \o lines[m]
             h == [i \in 0..n |-> IF i = m THEN y ELSE f[i]]
  <2> HIDE DEF y
  <2>2. h[m] = y /\ h = [i \in 0..n |-> h[i]] /\ \A i \in 0..n : i # m => h[i] = f[i]
    BY <1>1
  <2> HIDE DEF h
  <2>3. ASSUME NEW i \in 1..m  PROVE h[i] = h[i - 1] \o lines[i]
    <3>1. i - 1 \in 0..n /\ i \in 0..n /\ i - 1 # m
      BY <1>1
    <3>2. h[i - 1] = f[i - 1]
      BY <2>2, <3>1
    <3>3. CASE i = m
      BY <2>2, <3>2, <3>3 DEF y
    <3>4. CASE i # m
      <4>1. i \in 1..(m - 1) /\ h[i] = f[i]
        BY <1>1, <2>2, <3>1, <3>4
      <4> QED  BY <2>1, <3>2, <4>1
    <3> QED  BY <3>3, <3>4
  <2>4. h[0] = text
    BY <1>1, <2>1, <2>2
  <2>5. Upto(m, h)
    BY <2>2, <2>3, <2>4
  <2> HIDE DEF Upto
  <2> QED  BY <1>1, <2>5
<1>4. n \in V
  <2> HIDE DEF V
  <2>1. 0..n \subseteq V
    BY <1>1, <1>2, <1>3, Upwards
  <2> QED  BY <1>1, <2>1
<1>5. PICK f : Upto(n, f)
  BY <1>4
<1>6. f = body(f)
  <2>1. f = [i \in 0..n |-> f[i]]
    BY <1>5
  <2>2. ASSUME NEW i \in 0..n
        PROVE  f[i] = IF i = 0 THEN text ELSE f[i - 1] \o lines[i]
    <3>1. CASE i = 0
      BY <1>5, <3>1
    <3>2. CASE i # 0
      <4>1. i \in 1..n
        BY <1>1, <3>2
      <4> QED  BY <1>5, <3>2, <4>1
    <3> QED  BY <3>1, <3>2
  <2>3. [i \in 0..n |-> f[i]] = body(f)
    BY <2>2
  <2> QED  BY <2>1, <2>3, Zenon
<1>7. c = body(c)
  <2> HIDE DEF body
  <2> QED  BY <1>6
<1>8. c[0] = text /\ \A i \in 1..n : c[i] = c[i - 1] \o lines[i]
  <2> HIDE DEF c
  <2> QED  BY <1>1, <1>7
<1>9. Written(text, lines) = c[n]
  BY DEF Written, n
<1> HIDE DEF c
<1> QED  BY <1>8, <1>9 DEF WrittenLoop, n

\* The flags, none of which is ever set, are read as they are.
LEMMA FlagsParsed ==
  ASSUME NEW w, w.flag = Zeroed.flag
  PROVE  Ended(FlagLines(w)) /\ ntyConfigParser(Zeroed, FlagLines(w)) = Zeroed
<1> DEFINE lines == [i \in 1..Len(Flags) |-> <<Flags[i], ":", w.flag[Flags[i]], "\n">>]
<1>1. Len(Flags) = 7 /\ \A i \in 1..7 : Flags[i] \in FlagNames
  <2>1. Len(Flags) = 7
    BY DEF Flags
  <2> QED  BY <2>1 DEF FlagNames
<1>2. \A f \in FlagNames : w.flag[f] = "0" /\ [Zeroed EXCEPT !.flag[f] = "0"] = Zeroed
  BY DEF Zeroed
<1>3. Len(lines) = 7 /\ \A i \in 1..7 : lines[i] = <<Flags[i], ":", "0", "\n">>
  BY <1>1, <1>2
<1> HIDE DEF lines
<1>4. PICK g : WrittenLoop(<<>>, lines, g) /\ Written(<<>>, lines) = g[7]
  <2>1. Len(lines) \in Nat
    BY <1>3
  <2>2. PICK g : WrittenLoop(<<>>, lines, g) /\ Written(<<>>, lines) = g[Len(lines)]
    BY <2>1, LoopWrites, Zenon
  <2> QED  BY <1>3, <2>2
<1>5. g[0] = <<>> /\ \A i \in 1..7 : g[i] = g[i - 1] \o <<Flags[i], ":", "0", "\n">>
  BY <1>3, <1>4 DEF WrittenLoop
<1> DEFINE V == {k \in 0..7 : Ended(g[k]) /\ ntyConfigParser(Zeroed, g[k]) = Zeroed}
<1>6. 0 \in V
  <2>1. Append(<<>>, <<>>) = <<<<>>>>
    OBVIOUS
  <2>2. Pieces("\n", <<>>, <<>>, <<>>)
    BY <2>1, NothingIsOnePiece DEF Pieces
  <2>3. Ended(g[0])
    BY <1>5, <2>2, NothingIsText DEF Ended
  <2>4. ntyConfigParser(Zeroed, g[0]) = Zeroed
    BY <1>5, EmptyBufferSetsNothing
  <2> QED  BY <2>3, <2>4
<1>7. ASSUME NEW k \in 1..7, k - 1 \in V  PROVE k \in V
  <2> DEFINE f == Flags[k]
             line == <<f, ":", "0">>
             text == g[k - 1]
  <2>1. f \in FlagNames /\ k \in 0..7
    BY <1>1
  <2>2. Append(line, "\n") = <<f, ":", "0", "\n">>
    BY TuplesAppended, ZenonT(60)
  <2>3. g[k] = text \o Append(line, "\n")
    BY <1>5, <2>2
  <2>4. Ended(text) /\ ntyConfigParser(Zeroed, text) = Zeroed
    BY <1>7
  <2>5. line \in Texts /\ Without("\n", line) /\ ParseLine(Zeroed, line) = Zeroed
    BY <1>2, <2>1, FlagParsed
  <2> HIDE DEF line, text, f
  <2>6. Ended(g[k])
    BY <2>3, <2>4, <2>5, LineParsed, ZenonT(60)
  <2>7. ntyConfigParser(Zeroed, g[k]) = Zeroed
    <3>1. ntyConfigParser(Zeroed, g[k]) = ParseLine(ntyConfigParser(Zeroed, text), line)
      BY <2>3, <2>4, <2>5, LineParsed, ZenonT(60)
    <3> QED  BY <2>4, <2>5, <3>1, Zenon
  <2> QED  BY <2>1, <2>6, <2>7
<1>8. 0..7 \subseteq V
  <2> HIDE DEF V
  <2> QED  BY <1>6, <1>7, Upwards
<1>9. Ended(g[7]) /\ ntyConfigParser(Zeroed, g[7]) = Zeroed
  BY <1>8
<1>10. FlagLines(w) = g[7]
  BY <1>4 DEF FlagLines, lines
<1> QED  BY <1>9, <1>10

\* The numbers that are long enough to be written.
Long(w) == [l \in ListNames |-> [i \in 1..Size(l) |->
              IF Len(w.list[l][i]) > 6 THEN w.list[l][i] ELSE <<>>]]

\* What has been read of them after the first k places.
ReadSoFar(w, k) ==
  [flag |-> Zeroed.flag,
   list |-> [l \in ListNames |-> [i \in 1..Size(l) |->
               IF \E m \in 1..k : Slots[m] = <<l, i>> THEN Long(w)[l][i] ELSE <<>>]]]

LEMMA SlotsAre ==
  /\ Len(Slots) = 22
  /\ \A k \in 1..22 : /\ Slots[k] = <<Slots[k][1], Slots[k][2]>>
                      /\ Slots[k][1] \in ListNames /\ Slots[k][2] \in 1..Size(Slots[k][1])
  /\ \A l \in ListNames : \A i \in 1..Size(l) : \E k \in 1..22 : Slots[k] = <<l, i>>
<1>1. Len(Slots) = 22
  BY DEF Slots
<1>2. ListNames = {"FamilyNumber", "Contacts", "PhoneBook"}
  BY DEF ListNames, Lists
<1>3. ASSUME NEW k \in 1..22
      PROVE  /\ Slots[k] = <<Slots[k][1], Slots[k][2]>>
             /\ Slots[k][1] \in ListNames /\ Slots[k][2] \in 1..Size(Slots[k][1])
  BY <1>2 DEF Slots, Size
<1>4. ASSUME NEW l \in ListNames, NEW i \in 1..Size(l)
      PROVE  \E k \in 1..22 : Slots[k] = <<l, i>>
  <2>1. CASE l = "FamilyNumber"
    <3>1. i \in 1..22 /\ Slots[i] = <<l, i>>
      BY <2>1 DEF Slots, Size
    <3> QED  BY <3>1
  <2>2. CASE l = "Contacts"
    <3>1. i + 2 \in 1..22 /\ Slots[i + 2] = <<l, i>>
      BY <2>2 DEF Slots, Size
    <3> QED  BY <3>1
  <2>3. CASE l = "PhoneBook"
    <3>1. i + 12 \in 1..22 /\ Slots[i + 12] = <<l, i>>
      BY <2>3 DEF Slots, Size
    <3> QED  BY <3>1
  <2> QED  BY <1>2, <2>1, <2>2, <2>3
<1> QED  BY <1>1, <1>3, <1>4

\* No number of the settings has a separator in it.
Readable(w) ==
  \A l \in ListNames : \A i \in 1..Size(l) :
    /\ w.list[l][i] \in Texts
    /\ Without(":", w.list[l][i]) /\ Without("\n", w.list[l][i])

\* A line more, and its place has been read; where nothing is written there is
\* nothing to be read.
LEMMA PlaceRead ==
  ASSUME NEW w, Readable(w), NEW k \in 1..22,
         NEW text, Ended(text), ntyConfigParser(Zeroed, text) = ReadSoFar(w, k - 1)
  PROVE  LET more == text \o Line(w, Slots[k][1], Slots[k][2])
         IN  Ended(more) /\ ntyConfigParser(Zeroed, more) = ReadSoFar(w, k)
<1> DEFINE l == Slots[k][1]
           i == Slots[k][2]
           number == w.list[l][i]
           more == text \o Line(w, l, i)
           before == ReadSoFar(w, k - 1)
           Done(m, n, j) == \E h \in 1..m : Slots[h] = <<n, j>>
<1>1. l \in ListNames /\ i \in 1..Size(l) /\ Slots[k] = <<l, i>>
  BY SlotsAre
<1>2. number \in Texts /\ Without(":", number) /\ Without("\n", number)
  BY <1>1 DEF Readable
<1>3. i \in 1..10
  BY <1>1 DEF Size
<1> HIDE DEF l, i
<1>4. ASSUME NEW n \in ListNames, NEW j \in 1..Size(n)
      PROVE  Done(k, n, j) <=> (Done(k - 1, n, j) \/ (n = l /\ j = i))
  <2>1. \A h \in 1..k : h \in 1..(k - 1) \/ h = k
    OBVIOUS
  <2>2. k \in 1..k /\ \A h \in 1..(k - 1) : h \in 1..k
    OBVIOUS
  <2>3. <<n, j>> = <<l, i>> <=> (n = l /\ j = i)
    OBVIOUS
  <2> QED  BY <1>1, <2>1, <2>2, <2>3
<1> HIDE DEF Done
<1>5. \A m \in {k - 1, k} : ReadSoFar(w, m) =
        [flag |-> Zeroed.flag,
         list |-> [n \in ListNames |-> [j \in 1..Size(n) |->
                     IF Done(m, n, j) THEN Long(w)[n][j] ELSE <<>>]]]
  BY DEF ReadSoFar, Done
<1>6. Long(w)[l][i] = IF Len(number) > 6 THEN number ELSE <<>>
  BY <1>1 DEF Long
<1>7. CASE Len(number) > 6
  <2> DEFINE line == NumberLine(l, i, number)
  <2>1. line \in Texts /\ Without("\n", line)
    BY <1>1, <1>2, <1>3, NumberLineIs
  <2>2. Line(w, l, i) = Append(line, "\n")
    <3>1. Decimal(i) \in Texts
      BY <1>3, DecimalIs
    <3>2. Line(w, l, i) = <<l, ":">> \o Decimal(i) \o <<":">> \o number \o <<"\n">>
      BY <1>7 DEF Line
    <3>3. Line(w, l, i) = line \o <<"\n">>
      BY <3>2 DEF NumberLine
    <3>4. line \in Seq(Token) /\ "\n" \in Token
      BY <2>1, NamesAre DEF Texts
    <3> HIDE DEF line
    <3> QED  BY <3>3, <3>4
  <2>3. ParseLine(before, line) = [before EXCEPT !.list[l][i] = number]
    <3> HIDE DEF before, number
    <3>1. l \in ListNames /\ i \in 1..Size(l)
      BY <1>1
    <3>2. ParseLine(before, NumberLine(l, i, number)) = [before EXCEPT !.list[l][i] = number]
      BY <1>2, <3>1, NumberParsed, SMTT(40)
    <3> QED  BY <3>2, Zenon
  <2>4. more = text \o Append(line, "\n")
    BY <2>2
  <2> HIDE DEF line, before, number, more
  <2>5. Ended(more)
    BY <2>1, <2>4, LineParsed, ZenonT(60)
  <2>6. ntyConfigParser(Zeroed, more) = ParseLine(before, line)
    <3>1. ntyConfigParser(Zeroed, more) = ParseLine(ntyConfigParser(Zeroed, text), line)
      BY <2>1, <2>4, LineParsed, ZenonT(60)
    <3> QED  BY <3>1, Zenon DEF before
  <2>7. [before EXCEPT !.list[l][i] = number] = ReadSoFar(w, k)
    <3> DEFINE old(n) == [j \in 1..Size(n) |-> IF Done(k - 1, n, j) THEN Long(w)[n][j] ELSE <<>>]
               new(n) == [j \in 1..Size(n) |-> IF Done(k, n, j) THEN Long(w)[n][j] ELSE <<>>]
               lists == [n \in ListNames |-> old(n)]
    <3>1. before = [flag |-> Zeroed.flag, list |-> lists]
      BY <1>5 DEF before
    <3>2. ReadSoFar(w, k) = [flag |-> Zeroed.flag, list |-> [n \in ListNames |-> new(n)]]
      BY <1>5
    <3>3. ASSUME NEW n \in ListNames
          PROVE  new(n) = IF n = l THEN [old(n) EXCEPT ![i] = number] ELSE old(n)
      <4>1. CASE n = l
        <5>1. \A j \in 1..Size(n) : (Done(k, n, j) <=> (Done(k - 1, n, j) \/ j = i))
          BY <1>4, <4>1
        <5>2. Long(w)[n][i] = number
          BY <1>6, <1>7, <4>1
        <5>3. [old(n) EXCEPT ![i] = number] = [j \in 1..Size(n) |->
                 IF j = i THEN number ELSE IF Done(k - 1, n, j) THEN Long(w)[n][j] ELSE <<>>]
          OBVIOUS
        <5>4. \A j \in 1..Size(n) :
                (IF Done(k, n, j) THEN Long(w)[n][j] ELSE <<>>)
                  = (IF j = i THEN number ELSE IF Done(k - 1, n, j) THEN Long(w)[n][j] ELSE <<>>)
          BY <5>1, <5>2
        <5>5. new(n) = [old(n) EXCEPT ![i] = number]
          BY <5>3, <5>4
        <5> QED  BY <4>1, <5>5
      <4>2. CASE n # l
        BY <1>4, <4>2
      <4> QED  BY <4>1, <4>2
    <3> HIDE DEF old, new
    <3>4. [n \in ListNames |-> new(n)] = [lists EXCEPT ![l] = [lists[l] EXCEPT ![i] = number]]
      BY <1>1, <3>3
    <3> HIDE DEF lists
    <3>5. [before EXCEPT !.list[l][i] = number]
            = [flag |-> Zeroed.flag, list |-> [lists EXCEPT ![l] = [lists[l] EXCEPT ![i] = number]]]
      BY <3>1
    <3> QED  BY <3>2, <3>4, <3>5, Zenon
  <2> QED  BY <2>3, <2>5, <2>6, <2>7, Zenon DEF more, l, i
<1>8. CASE ~(Len(number) > 6)
  <2>1. Line(w, l, i) = <<>>
    BY <1>8 DEF Line
  <2>2. more = text
    <3>1. text \in Seq(Token)
      BY DEF Ended, Texts
    <3> QED  BY <2>1, <3>1
  <2>3. ReadSoFar(w, k) = before
    <3>1. \A n \in ListNames : \A j \in 1..Size(n) :
            (IF Done(k, n, j) THEN Long(w)[n][j] ELSE <<>>)
              = (IF Done(k - 1, n, j) THEN Long(w)[n][j] ELSE <<>>)
      <4> HIDE DEF number
      <4> QED  BY <1>4, <1>6, <1>8
    <3> HIDE DEF Done
    <3> QED  BY <1>5, <3>1
  <2> QED  BY <2>2, <2>3 DEF l, i
<1> QED  BY <1>7, <1>8

\* The saved text, parsed into zeroed settings, gives the long numbers back.
LEMMA OrganizationParsed ==
  ASSUME NEW w, w.flag = Zeroed.flag, Readable(w)
  PROVE  ntyConfigParser(Zeroed, Organization(w)) = [flag |-> Zeroed.flag, list |-> Long(w)]
<1> DEFINE lines == [k \in 1..Len(Slots) |-> Line(w, Slots[k][1], Slots[k][2])]
           flags == FlagLines(w)
<1>1. Len(lines) = 22 /\ \A k \in 1..22 : lines[k] = Line(w, Slots[k][1], Slots[k][2])
  BY SlotsAre
<1>2. Organization(w) = Written(flags, lines)
  BY DEF Organization
<1> HIDE DEF lines, flags
<1>3. PICK g : WrittenLoop(flags, lines, g) /\ Written(flags, lines) = g[22]
  <2>1. Len(lines) \in Nat
    BY <1>1
  <2>2. PICK g : WrittenLoop(flags, lines, g) /\ Written(flags, lines) = g[Len(lines)]
    BY <2>1, LoopWrites, ZenonT(60)
  <2> QED  BY <1>1, <2>2
<1>4. g[0] = flags /\ \A k \in 1..22 : g[k] = g[k - 1] \o Line(w, Slots[k][1], Slots[k][2])
  <2>1. g[0] = flags /\ \A k \in 1..Len(lines) : g[k] = g[k - 1] \o lines[k]
    BY <1>3, Zenon DEF WrittenLoop
  <2> QED  BY <1>1, <2>1
<1> DEFINE V == {k \in 0..22 : Ended(g[k]) /\ ntyConfigParser(Zeroed, g[k]) = ReadSoFar(w, k)}
<1>5. 0 \in V
  <2>1. ReadSoFar(w, 0) = Zeroed
    <3>1. Zeroed.flag = [f \in FlagNames |-> "0"]
      BY DEF Zeroed
    <3>2. ~\E m \in 1..0 : TRUE
      OBVIOUS
    <3> QED  BY <3>1, <3>2 DEF ReadSoFar, Zeroed
  <2>2. Ended(flags) /\ ntyConfigParser(Zeroed, flags) = Zeroed
    BY FlagsParsed DEF flags
  <2>3. Ended(g[0]) /\ ntyConfigParser(Zeroed, g[0]) = ReadSoFar(w, 0)
    BY <1>4, <2>1, <2>2, Zenon
  <2>4. 0 \in 0..22
    OBVIOUS
  <2> QED  BY <2>3, <2>4
<1>6. ASSUME NEW k \in 1..22, k - 1 \in V  PROVE k \in V
  <2> DEFINE text == g[k - 1]
  <2>1. Ended(text) /\ ntyConfigParser(Zeroed, text) = ReadSoFar(w, k - 1) /\ k \in 0..22
    BY <1>6
  <2>2. g[k] = text \o Line(w, Slots[k][1], Slots[k][2])
    BY <1>4
  <2> HIDE DEF text
  <2>3. Ended(g[k]) /\ ntyConfigParser(Zeroed, g[k]) = ReadSoFar(w, k)
    BY <2>1, <2>2, PlaceRead, Zenon
  <2> QED  BY <2>1, <2>3
<1>7. 0..22 \subseteq V
  <2> HIDE DEF V
  <2> QED  BY <1>5, <1>6, Upwards
<1>8. ntyConfigParser(Zeroed, g[22]) = ReadSoFar(w, 22)
  BY <1>7
<1>9. ReadSoFar(w, 22) = [flag |-> Zeroed.flag, list |-> Long(w)]
  <2>1. \A l \in ListNames : \A i \in 1..Size(l) : \E m \in 1..22 : Slots[m] = <<l, i>>
    BY SlotsAre
  <2>2. Long(w) = [l \in ListNames |-> [i \in 1..Size(l) |-> Long(w)[l][i]]]
    BY DEF Long
  <2> QED  BY <2>1, <2>2 DEF ReadSoFar
<1> QED  BY <1>2, <1>3, <1>8, <1>9, Zenon

-----------------------------------------------------------------------------
(* The file and the settings it was written from. *)

\* Settings as the program can save them: nothing sets a flag.
Stored(w) == Settings(w) /\ w.flag = Zeroed.flag

\* While a text is being saved it is that of the settings in memory.
DataInv ==
  step \in {"open", "write", "commit"} => data = Organization(watch)

\* When no write is under way the file is what was committed.
FileInv ==
  step \notin {"write", "commit"} => \A s \in kept : Stored(s) /\ file = Organization(s)

KeptInv == Stored(watch) /\ DataInv /\ FileInv

\* Setting numbers leaves the flags.
LEMMA FlagsStay ==
  ASSUME NEW w, Stored(w), NEW numbers \in [1..2 -> Whole]
  PROVE  Stored([w EXCEPT !.list["FamilyNumber"] = numbers])
<1> DEFINE u == [w EXCEPT !.list["FamilyNumber"] = numbers]
<1>1. Settings(u)
  BY ListReplaced DEF Stored
<1>2. u.flag = w.flag
  BY DEF Stored, Settings
<1> HIDE DEF u
<1>3. Stored(u)
  BY <1>1, <1>2 DEF Stored
<1> QED  BY <1>3 DEF u

LEMMA ZeroedIsStored == Stored(Zeroed)
BY ZeroedIsWhole DEF Stored

LEMMA InitKept == Init => KeptInv
BY ZeroedIsStored DEF Init, KeptInv, DataInv, FileInv

LEMMA NextKept == KeptInv /\ [Next]_vars => KeptInv'
<1> SUFFICES ASSUME KeptInv, [Next]_vars  PROVE KeptInv'
  OBVIOUS
<1> USE DEF KeptInv
<1>1. CASE Boot
  <2>1. PICK text \in {file, NoFile} : ntyWatchConfigInit(text)
    BY <1>1 DEF Boot
  <2>2. Stored(watch')
    <3>1. CASE text = NoFile
      BY <2>1, <3>1, EmptyBufferSetsNothing DEF ntyWatchConfigInit
    <3>2. CASE text # NoFile
      <4>1. Defaults \in [1..2 -> Whole]
        BY StoreAssumption DEF Whole
      <4>2. watch' = [Zeroed EXCEPT !.list["FamilyNumber"] = Defaults]
        BY <2>1, <3>2 DEF ntyWatchConfigInit
      <4> QED  BY <4>1, <4>2, ZeroedIsStored, FlagsStay
    <3> QED  BY <3>1, <3>2
  <2>3. DataInv'
    BY <1>1 DEF Boot, DataInv
  <2>4. FileInv'
    BY <1>1 DEF Boot, FileInv
  <2> QED  BY <2>2, <2>3, <2>4
<1>2. CASE SetFamilyNumber
  <2>1. PICK i \in 1..2, n \in Given : watch' = [watch EXCEPT !.list["FamilyNumber"][i] = n]
    BY <1>2 DEF SetFamilyNumber
  <2> DEFINE numbers == [watch.list["FamilyNumber"] EXCEPT ![i] = n]
  <2>2. watch' = [watch EXCEPT !.list["FamilyNumber"] = numbers]
    BY <2>1
  <2>3. numbers \in [1..2 -> Whole]
    BY ListFacts DEF Stored, Settings, Whole
  <2> HIDE DEF numbers
  <2>4. Stored(watch')
    BY <2>2, <2>3, FlagsStay
  <2>5. DataInv' /\ FileInv'
    BY <1>2 DEF SetFamilyNumber, DataInv, FileInv
  <2> QED  BY <2>4, <2>5
<1>3. CASE Open
  <2>1. DataInv' /\ FileInv'
    BY <1>3 DEF Open, DataInv, FileInv
  <2> QED  BY <1>3, <2>1 DEF Open
<1>4. CASE Write
  <2>1. DataInv' /\ FileInv'
    BY <1>4 DEF Write, DataInv, FileInv
  <2> QED  BY <1>4, <2>1 DEF Write
<1>5. CASE Commit
  <2>1. step = "commit" /\ step' = "idle" /\ UNCHANGED <<watch, status, file, data>>
        /\ kept' = IF file = data THEN {watch} ELSE {}
    BY <1>5 DEF Commit
  <2>2. \A s \in kept' : s = watch /\ file = Organization(watch)
    BY <2>1 DEF DataInv
  <2>3. FileInv'
    BY <2>1, <2>2 DEF FileInv
  <2>4. DataInv'
    BY <2>1 DEF DataInv
  <2> QED  BY <2>1, <2>3, <2>4
<1>6. CASE PowerLoss
  <2>1. watch' = Zeroed /\ step' = "off"
    BY <1>6 DEF PowerLoss
  <2>2. DataInv'
    BY <2>1 DEF DataInv
  <2>3. FileInv'
    <3>1. CASE step \in {"write", "commit"}
      BY <1>6, <3>1 DEF PowerLoss, FileInv
    <3>2. CASE step \notin {"write", "commit"}
      BY <1>6, <3>2 DEF PowerLoss, FileInv
    <3> QED  BY <3>1, <3>2
  <2> QED  BY <2>1, <2>2, <2>3, ZeroedIsStored
<1>7. CASE UNCHANGED vars
  BY <1>7 DEF vars, DataInv, FileInv
<1> QED  BY <1>1, <1>2, <1>3, <1>4, <1>5, <1>6, <1>7 DEF Next

\* A number in memory is a text.
LEMMA WholeIsText == Whole \subseteq Texts
<1>1. Seq(STRING) \subseteq Texts
  <2>1. STRING \subseteq Token
    BY DEF Token
  <2> HIDE DEF Token
  <2>2. ASSUME NEW t \in Seq(STRING)  PROVE t \in Seq(Token)
    <3>1. Len(t) \in Nat /\ t = [i \in 1..Len(t) |-> t[i]] /\ \A i \in 1..Len(t) : t[i] \in STRING
      OBVIOUS
    <3>2. t \in [1..Len(t) -> Token]
      BY <2>1, <3>1
    <3> QED  BY <3>1, <3>2, SeqDef
  <2> QED  BY <2>2 DEF Texts
<1>2. Whole \subseteq {<<>>} \cup Seq(STRING)
  BY StoreAssumption DEF Whole
<1> QED  BY <1>1, <1>2, NothingIsText

\* What was committed is read, when it fits.
LEMMA StoredIsReadBack ==
  ASSUME NEW w, Stored(w),
         \A l \in ListNames : \A i \in 1..Size(l) : Plain(w.list[l][i])
  PROVE  ntyConfigParser(Zeroed, Organization(w)) = [w EXCEPT !.list = Long(w)]
<1>1. ASSUME NEW l \in ListNames, NEW i \in 1..Size(l)
      PROVE  /\ w.list[l][i] \in Texts
             /\ Without(":", w.list[l][i]) /\ Without("\n", w.list[l][i])
  <2> DEFINE number == w.list[l][i]
  <2>1. number \in Texts
    BY WholeIsText DEF Stored, Settings
  <2>2. Plain(number)
    OBVIOUS
  <2> HIDE DEF number
  <2>3. Without(":", number) /\ Without("\n", number)
    BY <2>2 DEF Plain, Without
  <2> QED  BY <2>1, <2>3 DEF number
<1>2. Readable(w)
  BY <1>1 DEF Readable
<1>3. ntyConfigParser(Zeroed, Organization(w)) = [flag |-> Zeroed.flag, list |-> Long(w)]
  BY <1>2, OrganizationParsed DEF Stored
<1>4. [w EXCEPT !.list = Long(w)] = [flag |-> Zeroed.flag, list |-> Long(w)]
  BY DEF Stored, Settings
<1> QED  BY <1>3, <1>4, Zenon

\* A text that was committed whole and fits into the bytes that are read gives
\* ntyConfigParser back the settings that ntyWatchConfigOrganization wrote, for
\* every set of numbers, every limit of the read and every way in which power
\* losses and failing writes went before (NattyUtils.c 861-1005).
THEOREM ReadsBackAlways == Spec => []ReadsBack
<1>1. KeptInv => ReadsBack
  <2> SUFFICES ASSUME KeptInv, step \in {"off", "idle"}, Bytes(file) <= ReadMax, NEW w \in kept,
                      \A l \in ListNames : \A i \in 1..Size(l) : Plain(w.list[l][i])
               PROVE  ntyConfigParser(Zeroed, Read(file)) = [w EXCEPT !.list = Long(w)]
    BY DEF ReadsBack, Long
  <2>1. Stored(w) /\ file = Organization(w)
    BY DEF KeptInv, FileInv
  <2>2. Read(file) = file
    BY DEF Read
  <2>3. ntyConfigParser(Zeroed, Organization(w)) = [w EXCEPT !.list = Long(w)]
    BY <2>1, StoredIsReadBack
  <2> QED  BY <2>1, <2>2, <2>3, Zenon
<1> QED  BY InitKept, NextKept, <1>1, PTL DEF Spec
=============================================================================
