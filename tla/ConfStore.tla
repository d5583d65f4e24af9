----------------------------- MODULE ConfStore -----------------------------
(***************************************************************************)
(* The settings of NattyUtils.c with their file, down to the text in it:    *)
(* ntyWatchSave opens the file (which empties it), writes and commits; the  *)
(* battery may be taken out between any two of these calls.  At boot the    *)
(* file is read, at most ReadMax bytes of it.  A text is a sequence of      *)
(* tokens, names and single characters, and Bytes is its length in the file.*)
(* WatchConfig is the view of this store that the client core needs.        *)
(***************************************************************************)
EXTENDS Integers, Sequences, SequencesExt

CONSTANTS
  Given,     \* the numbers that friends set, as sequences of digits
  Defaults,  \* the two numbers compiled into the program
  ReadMax    \* 128

\* Both numbers are there, and all of them are texts that fit into their place
\* with the end of the text, PHONE_NUMBER_LENGTH being 20; WatchConfig has what
\* the unchecked strcpy does with a longer one.
ASSUME StoreAssumption ==
  /\ Defaults \in [1..2 -> Seq(STRING)]
  /\ Given \subseteq Seq(STRING)
  /\ \A n \in Given \cup {Defaults[1], Defaults[2]} : Len(n) < 20

VARIABLES
  watch,     \* ntyWatchIntance
  status,    \* u16WatchStatusFlag, the set of its bits
  file,      \* the text on the file system, or NoFile
  data,      \* the text being saved, in ntyWatchSave's buffer
  step,      \* "off", "idle", or how far a save has come
  written,   \* history: the settings whose save opened the file last
  kept       \* history: those settings, when they were committed whole

vars == <<watch, status, file, data, step, written, kept>>

NoFile == <<"no file">>

-----------------------------------------------------------------------------
(* The settings and their text. *)

Flags == <<"Step", "Sleep", "SOSMsg", "PowerMsg", "AlarmMusic", "SafeZoneMusic", "Freq">>

FlagNames == {Flags[i] : i \in 1..Len(Flags)}

Lists == <<"FamilyNumber", "Contacts", "PhoneBook">>

ListNames == {Lists[i] : i \in 1..Len(Lists)}

\* FAMILY_NUMBER_SIZE, CONTACT_NUMBER_SIZE and PHONE_BOOK_SIZE.
Size(list) == IF list = "FamilyNumber" THEN 2 ELSE 10

\* The places of all numbers, in the order in which they are written.
Slots == [k \in 1..22 |-> IF k <= 2 THEN <<"FamilyNumber", k>>
                          ELSE IF k <= 12 THEN <<"Contacts", k - 2>> ELSE <<"PhoneBook", k - 12>>]

Zeroed ==
  [flag |-> [f \in FlagNames |-> "0"], list |-> [l \in ListNames |-> [i \in 1..Size(l) |-> <<>>]]]

Names == FlagNames \cup ListNames

NameBytes == [n \in Names |->
  CASE n = "Step" -> 4 [] n = "Sleep" -> 5 [] n = "SOSMsg" -> 6 [] n = "PowerMsg" -> 8
    [] n = "AlarmMusic" -> 10 [] n = "SafeZoneMusic" -> 13 [] n = "Freq" -> 4
    [] n = "FamilyNumber" -> 12 [] n = "Contacts" -> 8 [] n = "PhoneBook" -> 9]

Bytes(text) ==
  FoldLeft(LAMBDA n, token : n + (IF token \in Names THEN NameBytes[token] ELSE 1),
           0, text)

\* What may be left of a text that is cut; of a name that is cut, nothing the
\* parser knows.
Cuts(text) ==
  LET first(k) == SubSeq(text, 1, k)
  IN  {first(k) : k \in 0..Len(text)}
        \cup {Append(first(k), "part") : k \in {j \in 0..(Len(text) - 1) : text[j + 1] \in Names}}

\* What is read of a text: the longest of these that fits.
Read(text) ==
  IF Bytes(text) <= ReadMax THEN text
  ELSE LET fits == {c \in Cuts(text) : Bytes(c) <= ReadMax}
       IN  CHOOSE c \in fits : \A d \in fits : Len(d) <= Len(c)

Decimal(i) == <<<<"1">>, <<"2">>, <<"3">>, <<"4">>, <<"5">>, <<"6">>, <<"7">>, <<"8">>, <<"9">>,
                <<"1", "0">>>>[i]

\* A number of a list as a line, when it is long enough.
Line(w, l, i) ==
  IF Len(w.list[l][i]) > 6
  THEN <<l, ":">> \o Decimal(i) \o <<":">> \o w.list[l][i] \o <<"\n">>
  ELSE <<>>

\* What is written behind a text, line after line.
Written(text, lines) ==
  LET grown[k \in 0..Len(lines)] == IF k = 0 THEN text ELSE grown[k - 1] \o lines[k]
  IN  grown[Len(lines)]

FlagLines(w) ==
  Written(<<>>, [i \in 1..Len(Flags) |-> <<Flags[i], ":", w.flag[Flags[i]], "\n">>])

\* Mistake: the slots are written as the program counts them.
BugOrganization(w) ==
  FlagLines(w) \o <<"FamilyNumber", ":", "1", ":">> \o w.list["FamilyNumber"][2] \o <<"\n">>

\* ntyWatchConfigOrganization.
Organization(w) ==
  Written(FlagLines(w), [k \in 1..Len(Slots) |-> Line(w, Slots[k][1], Slots[k][2])])

\* ntySeparation: the pieces of seq between the separators.
Separation(ch, seq) ==
  LET pieces[i \in 0..Len(seq)] ==
        LET table == pieces[i - 1]
        IN  IF i = 0 THEN <<<<>>>>
            ELSE IF seq[i] = ch THEN Append(table, <<>>)
            ELSE [table EXCEPT ![Len(table)] = Append(@, seq[i])]
  IN  pieces[Len(seq)]

\* Mistake: a number is copied to [idx] instead of [idx - 1]; the flags are left
\* out here.
BugParseLine(w, line) ==
  LET item == Separation(":", line)
      slot(l) == CHOOSE i \in 1..Size(l) : Decimal(i) = item[2]
  IN  IF Len(item) = 3 /\ \E l \in ListNames : item[1] = <<l>>
      THEN [w EXCEPT !.list[item[1][1]] =
              [i \in DOMAIN @ |-> IF i = slot(item[1][1]) + 1 THEN item[3] ELSE @[i]]]
      ELSE w

\* One line of ntyConfigParser; a line it does not know sets nothing.
ParseLine(w, line) ==
  LET item == Separation(":", line)
      slot(l) == CHOOSE i \in 1..Size(l) : Decimal(i) = item[2]
  IN  CASE Len(item) = 2 /\ \E f \in FlagNames : item[1] = <<f>> ->
             [w EXCEPT !.flag[item[1][1]] = IF item[2] = <<>> THEN "" ELSE item[2][1]]
        [] Len(item) = 3 /\ \E l \in ListNames : item[1] = <<l>> ->
             [w EXCEPT !.list[item[1][1]][slot(item[1][1])] = item[3]]
        [] OTHER -> w

\* Line after line.
ParseLines(w, lines) ==
  LET parsed[k \in 0..Len(lines)] == IF k = 0 THEN w ELSE ParseLine(parsed[k - 1], lines[k])
  IN  parsed[Len(lines)]

ntyConfigParser(w, text) == ParseLines(w, Separation("\n", text))

\* ntyWatchStatusConfig: the bits are set, never cleared; Freq has none.
StatusConfig(bits, w) == bits \cup {f \in FlagNames \ {"Freq"} : w.flag[f] = "1"}

-----------------------------------------------------------------------------
\* ntyWatchConfigInit: when the file could not be opened the empty buffer is
\* parsed; when it was read, whatever is in it, the compiled numbers are taken.
ntyWatchConfigInit(text) ==
  IF text = NoFile
  THEN watch' = ntyConfigParser(watch, <<>>) /\ status' = StatusConfig(status, watch')
  ELSE watch' = [Zeroed EXCEPT !.list["FamilyNumber"] = Defaults] /\ UNCHANGED status

\* A file that is there may still fail to open.
Boot ==
  /\ step = "off"
  /\ \E text \in {file, NoFile} : ntyWatchConfigInit(text)
  /\ step' = "idle"
  /\ UNCHANGED <<file, data, written, kept>>

\* "Set FamilyNumber" and the start of ntyWatchSave.
SetFamilyNumber ==
  /\ step = "idle"
  /\ \E i \in 1..2, n \in Given : watch' = [watch EXCEPT !.list["FamilyNumber"][i] = n]
  /\ data' = Organization(watch')
  /\ step' = "open"
  /\ UNCHANGED <<status, file, written, kept>>

\* ntyWriteFile: FS_Open, which empties the file or fails.
Open ==
  /\ step = "open"
  /\ \/ file' = <<>> /\ step' = "write" /\ written' = {watch}
     \/ UNCHANGED <<file, written>> /\ step' = "idle"
  /\ UNCHANGED <<watch, status, data, kept>>

\* FS_Write, whose result only the caller's caller is told, and ignores; a full
\* file system takes a part.
Write ==
  /\ step = "write"
  /\ file' \in Cuts(data)
  /\ step' = "commit"
  /\ UNCHANGED <<watch, status, data, written, kept>>

Commit ==
  /\ step = "commit"
  /\ step' = "idle"
  /\ kept' = IF file = data THEN {watch} ELSE {}
  /\ UNCHANGED <<watch, status, file, data, written>>

\* The battery is taken out: what was not committed may be there in part.
PowerLoss ==
  /\ step # "off"
  /\ step' = "off"
  /\ watch' = Zeroed /\ status' = {} /\ data' = <<>>
  /\ IF step = "commit" THEN file' \in Cuts(file)
     ELSE UNCHANGED file
  /\ kept' = IF step \in {"write", "commit"} THEN {} ELSE kept
  /\ UNCHANGED written

Init ==
  /\ watch = Zeroed /\ status = {}
  /\ file = NoFile /\ data = <<>> /\ step = "off" /\ written = {} /\ kept = {}

Next == Boot \/ SetFamilyNumber \/ Open \/ Write \/ Commit \/ PowerLoss

Spec == Init /\ [][Next]_vars

-----------------------------------------------------------------------------
(* Correctness. *)

\* Neither of the parser's separators is in it.
Plain(number) == \A i \in 1..Len(number) : number[i] \notin {":", "\n"}

\* What the parser makes, once the power is off, of a text that its loss, a full
\* file system or the limit of the read has cut, anywhere: every place gets the
\* number it was saved with or none, but one, which may get a beginning of its
\* own, as nothing in the text tells a number that is cut; never the number of
\* another place or of an earlier save.
CutReadsBack ==
  \A saved \in written :
    step = "off" /\ (\A l \in ListNames : \A i \in 1..Size(l) : Plain(saved.list[l][i])) =>
      LET got == ntyConfigParser(Zeroed, Read(file))
          differ == {p \in Range(Slots) :
                       got.list[p[1]][p[2]] \notin {<<>>, saved.list[p[1]][p[2]]}}
      IN  /\ \A p, q \in differ : p = q
          /\ \A p \in differ : IsPrefix(got.list[p[1]][p[2]], saved.list[p[1]][p[2]])

\* A text that was committed whole and fits into what is read gives the parser
\* back what was saved, but for numbers of six digits or less; a number with a
\* colon or the end of a line in it, which nothing keeps out, would not be read.
ReadsBack ==
  step \in {"off", "idle"} /\ Bytes(file) <= ReadMax =>
    \A saved \in kept :
      (\A l \in ListNames : \A i \in 1..Size(l) : Plain(saved.list[l][i])) =>
        ntyConfigParser(Zeroed, Read(file)) =
          [saved EXCEPT !.list = [l \in ListNames |-> [i \in 1..Size(l) |->
             IF Len(saved.list[l][i]) > 6 THEN saved.list[l][i] ELSE <<>>]]]
=============================================================================
