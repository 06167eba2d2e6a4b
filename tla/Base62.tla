-------------------------------- MODULE Base62 --------------------------------
(***************************************************************************)
(* The codes of the short-link service: a number in base 62.  A digit is   *)
(* its index in the configured alphabet, whose 62 characters are distinct. *)
(***************************************************************************)
EXTENDS Naturals, Sequences

(* The digits of n, the least significant taken first and then reversed *)
Digits[n \in Nat] == IF n = 0 THEN <<>> ELSE Append(Digits[n \div 62], n % 62)

Int2String(seq) == IF seq = 0 THEN <<0>> ELSE Digits[seq]

(* The sum of the digits' values.  The powers of 62 that a text of 64 bits   *)
(* needs are exact in floating point.                                        *)
String2Int(s) ==
    LET value[i \in 0 .. Len(s)] == IF i = 0 THEN 0 ELSE 62 * value[i - 1] + s[i]
    IN  value[Len(s)]
===============================================================================
