----------------------------- MODULE NattyText -----------------------------
(***************************************************************************)
(* The clock and the text search of NattyUtils.c.  A text is a sequence of  *)
(* character codes.                                                         *)
(***************************************************************************)
EXTENDS Integers, Sequences, SequencesExt

-----------------------------------------------------------------------------
(* The calendar.  An instant is a day since 1 January 1970 and a second of   *)
(* it, since 32-bit seconds do not fit into TLC's integers.                  *)

SECS_PER_DAY == 86400

isleap(y) == (y % 4 = 0 /\ y % 100 # 0) \/ y % 400 = 0

\* Days of the year before each month, in common and in leap years.
mon_yday ==
  [leap \in BOOLEAN |->
     IF leap THEN <<0, 31, 60, 91, 121, 152, 182, 213, 244, 274, 305, 335, 366>>
             ELSE <<0, 31, 59, 90, 120, 151, 181, 212, 243, 273, 304, 334, 365>>]

LEAPS_THRU_END_OF(y) == (y \div 4) - (y \div 100) + (y \div 400)

\* The loop that turns days since 1970 into a year and a day of it: guess a
\* year of 365 days each, correct the days by what the guess leaves out.
YearOf(days) ==
  LET settle[p \in Int \X Int] ==
        LET y == p[1]  d == p[2]
            yg == y + (d \div 365)
        IN  IF d >= 0 /\ d < (IF isleap(y) THEN 366 ELSE 365) THEN p
            ELSE settle[<<yg, d - ((yg - y) * 365 + LEAPS_THRU_END_OF(yg - 1)
                                     - LEAPS_THRU_END_OF(y - 1))>>]
  IN  settle[<<1970, days>>]

CivilTime(days, second) ==
  LET y == YearOf(days)[1]
      yday == YearOf(days)[2]
      ip == mon_yday[isleap(y)]
      mon == CHOOSE m \in 1..12 : ip[m] <= yday /\ yday < ip[m + 1]
  IN  [year |-> y, mon |-> mon, mday |-> yday - ip[mon] + 1, wday |-> (4 + days) % 7,
       second |-> second]

\* Mistake: a time before the day's beginning stays in that day.
BugLocalTime(day, second, offset) ==
  CivilTime(IF second + offset >= SECS_PER_DAY THEN day + 1 ELSE day,
            (second + offset) % SECS_PER_DAY)

ntyLocalTime(day, second, offset) ==
  CivilTime(day + ((second + offset) \div SECS_PER_DAY), (second + offset) % SECS_PER_DAY)

-----------------------------------------------------------------------------
(* Searching a text. *)

PATTERN_LENGTH_COUNT == 32  \* the length of next

\* pattern[i - 1] of the code, which also looks at the closing zero.
Char(pattern, i) == IF i <= Len(pattern) THEN pattern[i] ELSE 0

\* The inner loop from each t: fall back while the characters differ.
Fall(pattern, next, i) ==
  LET fall[t \in 0..Len(next)] ==
        IF t > 0 /\ Char(pattern, i) # Char(pattern, t) THEN fall[next[t]] ELSE t
  IN  fall

\* next and t after each number of iterations of the outer loop.
Built(pattern) ==
  LET built[i \in 0..Len(pattern)] ==
        LET b == built[i - 1]
            u == Fall(pattern, b.next, i)[b.t] + 1
            known == Char(pattern, i + 1) = Char(pattern, u)
        IN  IF i = 0 THEN [next |-> <<0>>, t |-> 0]
            ELSE [next |-> Append(b.next, IF known THEN b.next[u] ELSE u), t |-> u]
  IN  built

\* The last entry is never used.
ntyBuildNext(pattern) ==
  LET m == Len(pattern)
      b == Built(pattern)[m]
  IN  Append(b.next, Fall(pattern, b.next, m + 1)[b.t] + 1)

\* What the search writes from each i and j on.
Matches(text, pattern, next) ==
  LET n == Len(text)
      m == Len(pattern)
      from[p \in (0..n) \X (1..m)] ==
        LET i == p[1]
            j == p[2]
        IN  IF m + 1 - j > n - i THEN <<>>
            ELSE IF text[i + 1] = pattern[j]
            THEN IF j = m THEN <<i + 1 - m>> \o from[<<i + 1, next[m + 1]>>]
                 ELSE from[<<i + 1, j + 1>>]
            ELSE from[IF next[j] = 0 THEN <<i + 1, 1>> ELSE <<i, next[j]>>]
  IN  from

\* Mistake: after a match the search starts on a fresh pattern.
BugKMP(text, pattern) ==
  Matches(text, pattern, [ntyBuildNext(pattern) EXCEPT ![Len(pattern) + 1] = 1])[<<0, 1>>]

\* ntyKMP: what it writes to matches, places counted from 0.
ntyKMP(text, pattern) == Matches(text, pattern, ntyBuildNext(pattern))[<<0, 1>>]
=============================================================================
