------------------------------ MODULE Numerals ------------------------------
(***************************************************************************)
(* Numbers as text: what the standard library's formatting writes.         *)
(***************************************************************************)
EXTENDS Integers, Sequences

RECURSIVE Decimal(_)
Decimal(n) == (IF n < 10 THEN <<>> ELSE Decimal(n \div 10)) \o <<48 + (n % 10)>>
=============================================================================
