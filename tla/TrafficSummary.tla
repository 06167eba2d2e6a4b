---------------------------- MODULE TrafficSummary ----------------------------
(***************************************************************************)
(* The summary query of the traffic service, over the tables that the      *)
(* click consumers write meanwhile: three statements, no transaction.      *)
(***************************************************************************)
EXTENDS ClickConsumer, Functions

CONSTANTS
    Requests,   \* summary requests, each served once
    Referers,
    RefererOf,  \* the referer of a click
    Top         \* LIMIT of the referrers' query

ASSUME SummaryAssumption ==
    RefererOf \in [Clicks -> Referers] /\ Top \in Nat /\ IsFiniteSet(Keys)

VARIABLES
    asked,      \* the keys of the code and the days a request asks for
    query,      \* the number of the query it is at; 0 before, then Len(Order) + 1
    total,      \* pv and uv of the first query
    trend,      \* the rows of the second, by key
    refs        \* pv by referer, of the third

answers == <<asked, query, total, trend, refs>>
allVars == <<vars, answers>>

SummaryTypeOK ==
    /\ TypeOK
    /\ asked \in [Requests -> SUBSET Keys]
    /\ query \in [Requests -> 0 .. 4]
    /\ total \in [Requests -> [pv : Nat, uv : Nat]]
    /\ DOMAIN trend = Requests /\ DOMAIN refs = Requests
    /\ \A s \in Requests :
           /\ DOMAIN trend[s] \subseteq asked[s] /\ Range(trend[s]) \subseteq [pv : Nat, uv : Nat]
           /\ DOMAIN refs[s] \subseteq Referers /\ Cardinality(DOMAIN refs[s]) <= Top

SummaryInit ==
    /\ Init
    /\ asked = [s \in Requests |-> {}]
    /\ query = [s \in Requests |-> 0]
    /\ total = [s \in Requests |-> [pv |-> 0, uv |-> 0]]
    /\ trend = [s \in Requests |-> <<>>]
    /\ refs = [s \in Requests |-> <<>>]

(* Mutant of Order: the details are read before the statistics *)
OrderReversed == <<"referrers", "trend", "pvuv">>
Order == <<"pvuv", "trend", "referrers">>

Running(s, q) == query[s] \in 1 .. Len(Order) /\ Order[query[s]] = q
Advance(s) == query' = [query EXCEPT ![s] = @ + 1]

GetTrafficSummary(s) ==
    /\ query[s] = 0
    /\ \E K \in SUBSET Keys \ {{}} : asked' = [asked EXCEPT ![s] = K]
    /\ Advance(s)
    /\ UNCHANGED <<total, trend, refs>>

queryPVUV(s) ==
    /\ Running(s, "pvuv")
    /\ total' = [total EXCEPT ![s] = [pv |-> SumFunctionOnSet(pv, asked[s]),
                                      uv |-> SumFunctionOnSet(uv, asked[s])]]
    /\ Advance(s)
    /\ UNCHANGED <<asked, trend, refs>>

(* A key has a row from its first click on *)
queryTrend(s) ==
    /\ Running(s, "trend")
    /\ trend' = [trend EXCEPT ![s] =
           [k \in {j \in asked[s] : pv[j] > 0} |-> [pv |-> pv[k], uv |-> uv[k]]]]
    /\ Advance(s)
    /\ UNCHANGED <<asked, total, refs>>

ClicksOf(s, f) == {e \in details : KeyOf[e] \in asked[s] /\ RefererOf[e] = f}

(* Mutant of TopOf: the LIMIT is left out *)
TopOfAll(s, R) == R = {f \in Referers : ClicksOf(s, f) # {}}
TopOf(s, R) ==
    LET pvOf(f) == Cardinality(ClicksOf(s, f))
        found   == {f \in Referers : pvOf(f) > 0}
    IN  /\ R \subseteq found
        /\ Cardinality(R) = Least(Top, Cardinality(found))
        /\ \A f \in R, g \in found \ R : pvOf(f) >= pvOf(g)
queryTopReferrers(s) ==
    /\ Running(s, "referrers")
    /\ \E R \in SUBSET Referers :
           /\ TopOf(s, R)
           /\ refs' = [refs EXCEPT ![s] = [f \in R |-> Cardinality(ClicksOf(s, f))]]
    /\ Advance(s)
    /\ UNCHANGED <<asked, total, trend>>

Summarise(s) == GetTrafficSummary(s) \/ queryPVUV(s) \/ queryTrend(s) \/ queryTopReferrers(s)

SummaryNext == \/ Next /\ UNCHANGED answers
               \/ \E s \in Requests : Summarise(s) /\ UNCHANGED vars
SummarySpec == SummaryInit /\ [][SummaryNext]_allVars /\ Fairness
=============================================================================
