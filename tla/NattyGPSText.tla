---------------------------- MODULE NattyGPSText ----------------------------
(***************************************************************************)
(* The command that starts the satellite receiver warm,                     *)
(* ntyLocatSendGPSParam of NattyGPS.c.  A text is a sequence of character   *)
(* codes.                                                                   *)
(***************************************************************************)
EXTENDS Integers, Sequences, SequencesExt, Bitwise

GPS_LOCATION_CMD_MAX_LEN == 256

Dollar == 36  Star == 42  Comma == 44  Zero == 48  UpperA == 65

Digits[n \in Nat] == IF n = 0 THEN <<>> ELSE Append(Digits[n \div 10], Zero + (n % 10))

\* ntyGPSItoa: at least n digits, and never none.
ntyGPSItoa(val, n) ==
  LET missing == n - Len(Digits[val])
      text == [i \in 1..missing |-> Zero] \o Digits[val]
  IN  IF text = <<>> THEN <<Zero>> ELSE text

HexDigit(n) == IF n > 9 THEN n - 10 + UpperA ELSE n + Zero

CheckSum(codes) == FoldLeft(LAMBDA a, b : a ^^ b, 0, codes)

\* time: year, month, day, hour, minute, second.
TimeName(time) ==
  LET two(i) == ntyGPSItoa(time[i], 2)
  IN  ntyGPSItoa(time[1], 0) \o <<Comma>> \o two(2) \o <<Comma>> \o two(3) \o <<Comma>>
        \o two(4) \o <<Comma>> \o two(5) \o <<Comma>> \o two(6) \o <<Star>>

\* Mistake: the dollar sign is counted in.
BugSendGPSParam(head, time) ==
  LET command == head \o TimeName(time)
      checksum == CheckSum(SubSeq(command, 1, Len(command) - 1))
  IN  IF Len(command) > GPS_LOCATION_CMD_MAX_LEN - 5 THEN <<>>
      ELSE command \o <<HexDigit(checksum \div 16), HexDigit(checksum % 16), 13, 10>>

\* ntyLocatSendGPSParam: head is what ntySetPMTK741CmdCb writes.  What goes to
\* the receiver, nothing where the command is too long.
ntyLocatSendGPSParam(head, time) ==
  LET command == head \o TimeName(time)
      checksum == CheckSum(SubSeq(command, 2, Len(command) - 1))
  IN  IF Len(command) > GPS_LOCATION_CMD_MAX_LEN - 5 THEN <<>>
      ELSE command \o <<HexDigit(checksum \div 16), HexDigit(checksum % 16), 13, 10>>
=============================================================================
