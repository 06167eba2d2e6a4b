------------------------------ MODULE MCTraffic ------------------------------
(* Small instances of the click consumers for TLC. *)
EXTENDS TrafficProperties

CONSTANTS w1, w2, e1, e2, e3, d1, d2, a1, a2

(* The entries of the last click carry no code; the first has an address of its own *)
OneBlank == [e \in Clicks |-> IF e = e3 THEN NoKey ELSE d1]
FromBoth == [e \in Clicks |-> IF e = e1 THEN a1 ELSE a2]
=============================================================================
