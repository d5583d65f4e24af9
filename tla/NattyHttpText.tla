---------------------------- MODULE NattyHttpText ----------------------------
(***************************************************************************)
(* Texts of a lookup: the request ntyLocationEncodeWifiData builds from the *)
(* list of access points, whose fixed parts count only by their length, and *)
(* what ntyHttpResponse takes from an answer.                               *)
(***************************************************************************)
EXTENDS NattyText, NattyGPSText

HTTP_BUFFER_SIZE == 1048

\* "GET ", the address and "&macs="; "&output=xml", the key and the headers.
RequestHead == 78
RequestTail == 130

Bar == 124  Colon == 58  Minus == 45

\* ntyHexToString.
ntyHexToString(hex) == <<HexDigit(hex \div 16), HexDigit(hex % 16)>>

\* %d of a signal.
Signal(rssi) == IF rssi < 0 THEN <<Minus>> \o ntyGPSItoa(-rssi, 0) ELSE ntyGPSItoa(rssi, 0)

MacText(mac) == FlattenSeq([j \in 1..5 |-> Append(ntyHexToString(mac[j]), Colon)])
                  \o ntyHexToString(mac[6])

\* Mistake: the bar stands between entries only.
BugEncodeWifiData(list) ==
  FlattenSeq([i \in 1..Len(list) |->
    MacText(list[i].mac) \o <<Comma>> \o Signal(list[i].rssi)
      \o <<Comma>> \o list[i].ssid \o (IF i = Len(list) THEN <<>> ELSE <<Bar>>)])

\* ntyLocationEncodeWifiData: the part between head and tail.  The condition on
\* the bar always holds, so the last entry has one too.  Names are shorter than
\* the 32 bytes of ssid, whose closing zero strcat needs.
ntyLocationEncodeWifiData(list) ==
  FlattenSeq([i \in 1..Len(list) |->
    MacText(list[i].mac) \o <<Comma>> \o Signal(list[i].rssi)
      \o <<Comma>> \o list[i].ssid \o <<Bar>>])

sendLength(list) == RequestHead + Len(ntyLocationEncodeWifiData(list)) + RequestTail

-----------------------------------------------------------------------------
(* The answer. *)

LON_LAT_LENGTH == 16

PATTERN_COUNT == 16

\* <location> and </location>
pattern_start == <<60, 108, 111, 99, 97, 116, 105, 111, 110, 62>>
pattern_end == <<60, 47, 108, 111, 99, 97, 116, 105, 111, 110, 62>>

\* A field of Location; what a reader of the field sees.
Field == [i \in 1..LON_LAT_LENGTH |-> 0]

AsString(field) == SubSeq(field, 1, SelectInSeq(field, LAMBDA c : c = 0) - 1)

\* memcpy of a text without a closing zero.
Overwrite(field, text) == [i \in DOMAIN field |-> IF i <= Len(text) THEN text[i] ELSE field[i]]

\* Mistake: the first character behind the tag is taken for a part of it.
BugTakeLocation(s, text, start, end) ==
  LET location == SubSeq(text, start + Len(pattern_start) + 2, end)
      comma == SelectInSeq(location, LAMBDA c : c = Comma)
  IN  [location |-> location, k |-> comma,
       u8Lon |-> Overwrite(s.u8Lon, SubSeq(location, 1, comma - 1)),
       u8Lat |-> Overwrite(s.u8Lat, SubSeq(location, comma + 1, Len(location)))]

\* What stands between the tags found at start and end, places counted from 0:
\* two coordinates with a comma, less than 64 characters.  It is copied into
\* location from k on, which a pair of tags leaves behind the comma, and so the
\* text of a second pair is appended to what the first one left there.
TakeLocation(s, text, start, end) ==
  LET copied == SubSeq(text, start + Len(pattern_start) + 1, end)
      location == SubSeq(s.location, 1, s.k) \o copied
                    \o SubSeq(s.location, s.k + Len(copied) + 1, Len(s.location))
      comma == SelectInSeq(location, LAMBDA c : c = Comma)
  IN  [location |-> location, k |-> comma,
       u8Lon |-> Overwrite(s.u8Lon, SubSeq(location, 1, comma - 1)),
       u8Lat |-> Overwrite(s.u8Lat, SubSeq(location, comma + 1, Len(location)))]

\* ntyHttpResponse, its fields u8Lon and u8Lat: the i-th opening tag is paired
\* with the i-th closing one, and one at the very beginning counts as none.
ntyHttpResponse(loc, text) ==
  LET start == ntyKMP(text, pattern_start)
      end == ntyKMP(text, pattern_end)
      pairs == {i \in 1..PATTERN_COUNT : /\ i <= Len(start) /\ i <= Len(end)
                                         /\ start[i] # 0 /\ start[i] < end[i]}
      taken == FoldLeft(LAMBDA s, i : TakeLocation(s, text, start[i], end[i]),
                        [location |-> <<>>, k |-> 0, u8Lon |-> loc.u8Lon, u8Lat |-> loc.u8Lat],
                        SetToSortSeq(pairs, <))
  IN  [u8Lon |-> taken.u8Lon, u8Lat |-> taken.u8Lat]
=============================================================================
