----------------------------- MODULE ClickCounter -----------------------------
(***************************************************************************)
(* What the traffic service promises: every click is counted at most once, *)
(* in the page views of its own code and day, and adds at most one to the  *)
(* unique visitors there.  No stream, no retries, no workers.              *)
(***************************************************************************)
EXTENDS Naturals

CONSTANTS
    Clicks, Keys,
    KeyOf       \* the (code, day) a click belongs to, if it names a code

VARIABLES
    sent,       \* the clicks that were reported
    counted,    \* those that have been counted
    pv, uv      \* page views and unique visitors, by (code, day)

vars == <<sent, counted, pv, uv>>

Init == /\ sent = {} /\ counted = {}
        /\ pv = [k \in Keys |-> 0]
        /\ uv = [k \in Keys |-> 0]

Report(e) == sent' = sent \union {e} /\ UNCHANGED <<counted, pv, uv>>

Count(e) ==
    /\ e \in sent \ counted /\ KeyOf[e] \in Keys
    /\ counted' = counted \union {e}
    /\ pv' = [pv EXCEPT ![KeyOf[e]] = @ + 1]
    /\ \E d \in {0, 1} : uv' = [uv EXCEPT ![KeyOf[e]] = @ + d]
    /\ UNCHANGED sent

Next == \E e \in Clicks : Report(e) \/ Count(e)
Spec == Init /\ [][Next]_vars
=============================================================================
