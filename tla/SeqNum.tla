------------------------------- MODULE SeqNum -------------------------------
(***************************************************************************)
(* The arithmetic of sequence numbers and of time stamps                   *)
(* (net/protocol/core/tools.c): there are seq_max_NUM of them, 0 ..        *)
(* seq_max_NUM - 1, and after the last comes 0 again.                      *)
(***************************************************************************)
EXTENDS Integers

CONSTANT seq_max_NUM

\* 65535: an odd number, so that of two numbers only one can be ahead.
ASSUME SeqAssumption == seq_max_NUM \in Nat /\ seq_max_NUM % 2 = 1

SeqNums == 0 .. seq_max_NUM - 1

\* Wrong: the round has one number more.
uint16SubLongRound(newd, oldd) ==
  LET ret == IF newd < oldd THEN newd + seq_max_NUM + 1 - oldd ELSE newd - oldd
  IN  IF ret > seq_max_NUM \div 2 THEN -1 ELSE ret

\* Wrong: a distance of half a round is ahead both ways.
uint16SubLongHalf(newd, oldd) ==
  LET ret == IF newd < oldd THEN newd + seq_max_NUM - oldd ELSE newd - oldd
  IN  IF ret > seq_max_NUM \div 2 + 1 THEN -1 ELSE ret

\* How far newd is ahead of oldd, or -1 if it is behind.
uint16Sub(newd, oldd) ==
  LET ret == IF newd < oldd THEN newd + seq_max_NUM - oldd ELSE newd - oldd
  IN  IF ret > seq_max_NUM \div 2 THEN -1 ELSE ret

uint16Add(add1, add2) == (add1 + add2) % seq_max_NUM
=============================================================================
