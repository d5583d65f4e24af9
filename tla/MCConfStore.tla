---------------------------- MODULE MCConfStore ----------------------------
(* A small instance of ConfStore for TLC. *)
EXTENDS ConfStore

Digits(d, n) == [i \in 1..n |-> d]

\* Two numbers of eleven digits fit into 128 bytes, two of fifteen do not; the
\* shortest is not written at all.
Numbers == {Digits("3", 6), Digits("4", 7), Digits("5", 11), Digits("6", 15)}

Compiled == <<Digits("7", 11), Digits("8", 11)>>
=============================================================================
