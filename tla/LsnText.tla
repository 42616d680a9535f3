------------------------------ MODULE LsnText ------------------------------
(***************************************************************************)
(* LSN texts (src/workload.rs): is_valid_lsn, parse_lsn and format_lsn.  A *)
(* text X/Y is its two numbers and how many digits each is written with.   *)
(***************************************************************************)
EXTENDS WalLayout

CONSTANTS
  HexBase,          \* 16
  HalfDigits        \* 8: digits of each half of a 64-bit LSN

ASSUME TextAssumption ==
  /\ HexBase \in Nat \ {0, 1} /\ HalfDigits \in Nat \ {0}
  /\ HexBase ^ HalfDigits \in Nat \ {0}

HalfWord == HexBase ^ HalfDigits

\* digits of n; a number with more than HalfDigits counts as HalfDigits + 1
Digits(n) ==
  LET Wide == {k \in 1 .. HalfDigits + 1 : k = HalfDigits + 1 \/ n < HexBase ^ k}
  IN  CHOOSE k \in Wide : \A j \in Wide : k <= j

Texts == [hi : Nat, lo : Nat, hiDigits : Nat, loDigits : Nat]
Written(hi, lo) == [hi |-> hi, lo |-> lo, hiDigits |-> Digits(hi), loDigits |-> HalfDigits]

\* how PostgreSQL prints a pg_lsn
PgLsnOut(pos) == Written(pos \div HalfWord, pos % HalfWord)

IsValidLsn(text) ==
  text.hiDigits \in 1 .. HalfDigits /\ text.loDigits \in 1 .. HalfDigits

\* Mutated form of FormatLsn: the halves are split one digit too early.
FormatLsnShifted(pos) ==
  Written(pos \div (HalfWord \div HexBase), pos % (HalfWord \div HexBase))

\* "{:X}/{:08X}"
FormatLsn(pos) == Written(pos \div HalfWord, pos % HalfWord)

\* Some(position); only a valid text has one
ParseLsn(text) == text.hi * HalfWord + text.lo
=============================================================================
