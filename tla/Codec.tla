------------------------------- MODULE Codec -------------------------------
(***************************************************************************)
(* The number codec of ryu.topology.js (lines 29-37).  A dpid arrives as  *)
(* a fixed-width, zero-padded hex string, here a                           *)
(* sequence of digit values 0..15.  The page turns a dpid into a JS number *)
(* (an IEEE double) twice: parseInt("0x" + s) for the node label and       *)
(* Number("0x" + s) for the flow-stats URL; both give the exact value of   *)
(* the digits rounded to the nearest double, ties to even.                 *)
(*                                                                         *)
(* TLC's integers are 32 bits wide, so the 64-bit dpid (16 hex digits) and *)
(* the double's 53-bit significand are scaled: a dpid has Width digits and *)
(* a double Mantissa significand bits.  What matters is whether            *)
(* 4 * Width > Mantissa, as 64 > 53 is for the real types.                 *)
(***************************************************************************)
EXTENDS Naturals, Sequences, SequencesExt

CONSTANTS
  Width,     \* hex digits of a dpid string
  Mantissa   \* significand bits of the number type

ASSUME Width \in Nat \ {0} /\ Mantissa \in Nat \ {0}

Digit == 0..15

(* The reference: the number a hex string denotes.                        *)
RECURSIVE HexRef(_)
HexRef(s) == IF s = <<>> THEN 0 ELSE s[1] * 16^(Len(s) - 1) + HexRef(Tail(s))

(* parseInt's digit loop: each hex digit shifts the value by one place.   *)
ParseHex(s) == FoldLeft(LAMBDA acc, c : acc * 16 + c, 0, s)

RECURSIVE BitLength(_)
BitLength(n) == IF n = 0 THEN 0 ELSE 1 + BitLength(n \div 2)

(* The nearest number with at most Mantissa significant bits, ties to     *)
(* even: the Number value of an integer.                                  *)
ToDouble(n) ==
  IF BitLength(n) <= Mantissa THEN n
  ELSE LET e == BitLength(n) - Mantissa
           q == n \div 2^e
           r == n % 2^e
           roundUp == r > 2^(e - 1) \/ (r = 2^(e - 1) /\ q % 2 = 1)
       IN  (IF roundUp THEN q + 1 ELSE q) * 2^e

(* parseInt('0x' + obj): the node label's number.                        *)
sixteen_to_ten(s) == ToDouble(ParseHex(s))

(* Number("0x" + dpid): the number put in the flow-stats URL.            *)
dpid_to_int(s) == ToDouble(ParseHex(s))

=============================================================================
