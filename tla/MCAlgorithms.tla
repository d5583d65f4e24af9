---------------------------- MODULE MCAlgorithms ----------------------------
(* The pure functions of the watch on all inputs of a bounded size, each input *)
(* grown one piece at a time: the scans of MCWlanScan, those of NattyInputs,   *)
(* the receiver's start command, a lookup's request and its answers.           *)
EXTENDS MCWlanScan, NattyInputs, NattyHttpText

CONSTANT LongestList  \* entries of a request

\* One second before midnight eight hours east, and midnight twelve hours west.
TwoClocks == {<<86399, 28800>>, <<0, -43200>>}

\* The first ends in a prefix of itself, the second overlaps itself.
SomePatterns == {<<1, 2, 1>>, <<1, 1>>, <<1, 1, 2, 1, 1>>, <<2>>}

\* No content, one byte, and as many as fit.
SomeLengths == {0, 1, CACHE_BUFFER_SIZE - NTY_PROTO_DATAPACKET_CONTENT_IDX - 4 - 1}

SomeCodes == {{}, {0}, {7}, 0..7, {1, 4, 6}}

\* The entries of a request, of the greatest length and of the least.
Entries == {[mac |-> <<0, 10, 171, 9, 255, 16>>, rssi |-> -89, ssid |-> [i \in 1..31 |-> 97]],
            [mac |-> <<1, 2, 3, 4, 5, 160>>, rssi |-> -11, ssid |-> <<98>>]}

\* Coordinates, of three lengths.
Coordinates == {<<49, 46>>, <<50, 46, 50>>, <<51, 46, 51, 51>>}

\* What soc_recv may return: an answer in one piece, the start of one that was
\* cut, or one without a position.
Answers ==
  {[text |-> <<72>> \o pattern_start \o lon \o <<Comma>> \o lat \o pattern_end \o <<10>>,
    lon |-> lon, lat |-> lat] : lon \in Coordinates, lat \in Coordinates}
    \cup {[text |-> t, lon |-> <<>>, lat |-> <<>>] :
            t \in {<<>>, <<72, 72>>, <<72>> \o pattern_start \o <<49, Comma>>}}

AlgorithmsInit ==
  /\ Init
  /\ \/ input = [of |-> "scan"]
     \/ InputsInit
     \/ \E y \in {0, 7, 2016}, m \in {1, 12}, s \in {0, 9, 59} :
          input = [of |-> "command", time |-> <<y, m, 31, 0, 23, s>>]
     \/ input = [of |-> "request", list |-> <<>>]
     \/ input = [of |-> "answers", read |-> <<>>]

FindEntry ==
  /\ input.of = "request" /\ Len(input.list) < LongestList
  /\ \E e \in Entries : input' = [input EXCEPT !.list = Append(@, e)]

ReadAnswer ==
  /\ input.of = "answers" /\ Len(input.read) < 3
  /\ \E r \in Answers : input' = [input EXCEPT !.read = Append(@, r)]

\* Every input is a case of its own: none leads to a deadlock.
AlgorithmsSpec ==
  /\ AlgorithmsInit
  /\ [][\/ input.of = "scan" /\ Hear /\ UNCHANGED input
        \/ /\ NextDay \/ TypeOn \/ AddByte \/ FindEntry \/ ReadAnswer
           /\ UNCHANGED scan
        \/ Again /\ UNCHANGED input]_<<input, scan>>

-----------------------------------------------------------------------------
\* The receiver accepts the start command: the two digits after the star are the
\* exclusive or of what stands between the dollar sign and the star, and the
\* time has its six parts.
CommandAccepted ==
  input.of = "command" =>
    LET head == <<Dollar, 80, Comma>>
        sent == ntyLocatSendGPSParam(head, input.time)
        star == CHOOSE i \in 1..Len(sent) : sent[i] = Star
        body == SubSeq(sent, 2, star - 1)
        value(c) == IF c >= UpperA THEN c - UpperA + 10 ELSE c - Zero
    IN  /\ Len(sent) = star + 4
        /\ 16 * value(sent[star + 1]) + value(sent[star + 2]) = FoldSeq(LAMBDA a, b : a ^^ b, 0, body)
        /\ Len(SelectSeq(body, LAMBDA c : c = Comma)) = 6

\* The server reads back from a request the list it was made from, each entry
\* closed by a bar and its MAC, signal and name in their places, and the longest
\* list of the longest names fits into the buffer with its closing zero.
RequestReadsBack ==
  input.of = "request" =>
    LET text == ntyLocationEncodeWifiData(input.list)
        bars == SelectSeq([i \in 1..Len(text) |-> i], LAMBDA i : text[i] = Bar)
        Part(i) == SubSeq(text, IF i = 1 THEN 1 ELSE bars[i - 1] + 1, bars[i] - 1)
        digit(c) == IF c >= UpperA THEN c - UpperA + 10 ELSE c - Zero
        Parsed(part) ==
          [mac |-> [j \in 1..6 |-> 16 * digit(part[3 * j - 2]) + digit(part[3 * j - 1])],
           rssi |-> -(10 * digit(part[20]) + digit(part[21])),
           ssid |-> SubSeq(part, 23, Len(part))]
    IN  /\ Len(bars) = Len(input.list)
        /\ sendLength(input.list) < HTTP_BUFFER_SIZE
        /\ \A i \in 1..Len(bars) :
             Part(i)[19] = Minus /\ Parsed(Part(i)) = input.list[i]

\* After answers that were read in any order, whole, cut or without a position,
\* both coordinates are those of the last whole one, but for a tail of longer
\* ones before it: the fields are not closed (memcpy, NattyHttp.c 160).
AnswerTaken ==
  input.of = "answers" =>
    LET n == Len(input.read)
        After(k) == FoldLeft(LAMBDA loc, r : ntyHttpResponse(loc, r.text),
                             [u8Lon |-> Field, u8Lat |-> Field], SubSeq(input.read, 1, k))
        Replaced(before, after, new) ==
          LET b == AsString(before)  a == AsString(after)
          IN  a = IF Len(b) > Len(new) THEN new \o SubSeq(b, Len(new) + 1, Len(b)) ELSE new
    IN  n > 0 =>
          /\ Replaced(After(n - 1).u8Lon, After(n).u8Lon, input.read[n].lon)
          /\ Replaced(After(n - 1).u8Lat, After(n).u8Lat, input.read[n].lat)
=============================================================================
