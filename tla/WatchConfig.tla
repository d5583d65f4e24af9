----------------------------- MODULE WatchConfig -----------------------------
(***************************************************************************)
(* The watch's settings, as the client core needs them: what is in memory   *)
(* where ntyWatchIntance (NattyUtils.h) keeps its numbers, and whether the  *)
(* settings file exists.  ConfStore has the file's text.                    *)
(*                                                                         *)
(* A number is copied with strcpy, whatever its length, to a place of 20    *)
(* bytes; a longer one goes on in the next places.  A number is therefore   *)
(* the sequence of its pieces: all but the last fill a place and leave no   *)
(* room for the closing zero, the last one is closed.                       *)
(***************************************************************************)
EXTENDS Integers, Sequences

CONSTANTS
  Pieces,          \* what a place can hold
  FullPieces,      \* those of 20 characters, without a closing zero
  Numbers,         \* telephone numbers, as sequences of pieces
  DefaultNumbers,  \* the two numbers compiled into the program
  NoNumber         \* the empty piece

Slots == 0..1  \* FAMILY_NUMBER_SIZE is 2

\* A word of a command has 63 characters at most (ITEM_SIZE).
MaxPieces == 4

\* The family numbers and the contacts behind them, as far as a number reaches.
Places == 0..MaxPieces

ASSUME ConfigAssumption ==
  /\ FullPieces \subseteq Pieces /\ NoNumber \in Pieces \ FullPieces
  /\ DefaultNumbers \in [Slots -> Pieces \ FullPieces]
  /\ \A n \in Numbers :
       /\ n \in Seq(Pieces) /\ Len(n) \in 1..MaxPieces
       /\ \A i \in 1..Len(n) : n[i] \in FullPieces <=> i < Len(n)

VARIABLES
  family,  \* ntyWatchIntance.u8FamilyNumber, and u8ContactNumber behind it
  conf     \* the settings file exists

Record == [Places -> Pieces]

EmptyRecord == [k \in Places |-> NoNumber]

ConfigTypeOK ==
  /\ family \in Record
  /\ conf \in BOOLEAN

\* ntyWatchConfigInit: a file that cannot be read is "parsed" (an empty buffer
\* sets nothing), a file that was read is dropped for the compiled numbers.
ntyWatchConfigInit ==
  /\ \/ family' = EmptyRecord
     \/ /\ conf
        /\ family' = [k \in Places |-> IF k \in Slots THEN DefaultNumbers[k] ELSE NoNumber]
  /\ UNCHANGED conf

\* strcpy to a place: the pieces of the number from there on.
Copied(i, number) ==
  [k \in Places |-> IF k - i \in 0..(Len(number) - 1) THEN number[k - i + 1] ELSE family[k]]

\* Mistake: slots are counted from the other end.
BugOtherSlot(i, number) ==
  /\ family' = Copied(1 - i, number)
  /\ conf' = TRUE

\* "Set FamilyNumber <i> <number>" and the ntyWatchSave that follows it; a
\* file that cannot be opened is left as it was.
SetFamilyNumber(i, number) ==
  /\ family' = Copied(i, number)
  /\ conf' \in {conf, TRUE}
=============================================================================
