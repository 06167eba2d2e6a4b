---------------------------- MODULE MCShortener ----------------------------
(* Small instances of the short-link service for TLC. *)
EXTENDS ShortenerProperties, TLC

(* A text is read back as its number, over all texts of up to two digits and *)
(* those of three around 62 * 62.                                            *)
ASSUME ReadBack == \A n \in 0 .. 4000 : String2Int(Int2String(n)) = n

CONSTANTS k1, k2, p1, p2, s1, s2, u1, u2, u3

(* One link in the table when the service starts, under code 1 *)
OneLink == [i \in Ids |->
    IF i = 1 THEN [surl |-> 1, lurl |-> u1, md5 |-> u1, expireAt |-> Never] ELSE NoRow]
NoLinks == [i \in Ids |-> NoRow]

(* A filter of four bits: code 3 sets only bits that other codes set *)
FourBits == [c \in Codes |-> CASE c = 3 -> {1, 2} [] c % 2 = 0 -> {0, 1} [] OTHER -> {2, 3}]
(* A filter so full that every code passes *)
Full == [c \in Codes |-> {0}]
(* Every code has a class of its own, or the last two share one *)
CaseSensitive == [c \in Codes |-> c]
LastTwoFold   == [c \in Codes |-> IF c = MaxSeq THEN c - 1 ELSE c]

(* Updates are served alike: which of them is which does not matter *)
UpdatersAlike == Permutations({p1, p2})
=============================================================================
