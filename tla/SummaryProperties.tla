-------------------------- MODULE SummaryProperties --------------------------
(* What a traffic summary promises, read while the workers go on counting. *)
EXTENDS TrafficSummary, TrafficProperties

Answered(s) == query[s] = Len(Order) + 1
TrendPv(rows) == SumFunction([k \in DOMAIN rows |-> rows[k].pv])
TrendUv(rows) == SumFunction([k \in DOMAIN rows |-> rows[k].uv])

(* The answer never shows fewer page views per day, nor per referer unless   *)
(* the LIMIT cut some off, than it shows in total: the three queries are not *)
(* in a transaction, their order and that a click is stored before it is     *)
(* counted are what keeps the parts from falling short of the total.         *)
SummaryAddsUp ==
    \A s \in Requests : Answered(s) =>
        /\ total[s].pv <= TrendPv(trend[s])
        /\ total[s].uv <= TrendUv(trend[s])
        /\ Cardinality(DOMAIN refs[s]) < Top =>
               TrendPv(trend[s]) <= SumFunction(refs[s])

-----------------------------------------------------------------------------
(* The strengthening the proof rests on: at each query, what the next will   *)
(* find already covers what the last has told.  The sums of the statistics   *)
(* never fall below the total ...                                            *)
UvWithinPv == \A k \in Keys : uv[k] <= pv[k]
TotalCovered(s) ==
    /\ total[s].pv <= SumFunctionOnSet(pv, asked[s])
    /\ total[s].uv <= SumFunctionOnSet(uv, asked[s])
(* ... and the stored clicks never fall below the rows of the trend.         *)
Asked(s) == {e \in details : KeyOf[e] \in asked[s]}
TrendCovers(s) == total[s].pv <= TrendPv(trend[s]) /\ total[s].uv <= TrendUv(trend[s])
TrendCovered(s) == TrendPv(trend[s]) <= Cardinality(Asked(s))
RefsCover(s) == Cardinality(DOMAIN refs[s]) < Top => TrendPv(trend[s]) <= SumFunction(refs[s])

RequestOK(s) ==
    /\ query[s] = 0 => DOMAIN trend[s] = {}
    /\ query[s] = 2 => TotalCovered(s)
    /\ query[s] \in {3, 4} => TrendCovers(s)
    /\ query[s] = 3 => TrendCovered(s)
    /\ query[s] = 4 => RefsCover(s)

SummaryIInv == IInv /\ SummaryTypeOK /\ UvWithinPv /\ \A s \in Requests : RequestOK(s)
=============================================================================
