------------------------------ MODULE MCSummary ------------------------------
(* A small instance of the click consumers and the summary query for TLC. *)
EXTENDS SummaryProperties

CONSTANTS w1, e1, e2, e3, d1, d2, a1, a2, f1, f2, q1

(* The last click is of another day, the second of another referer *)
TwoDays  == [e \in Clicks |-> IF e = e3 THEN d2 ELSE d1]
OneAddr  == [e \in Clicks |-> a1]
TwoSites == [e \in Clicks |-> IF e = e2 THEN f2 ELSE f1]
=============================================================================
