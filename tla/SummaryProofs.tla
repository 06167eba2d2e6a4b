----------------------------- MODULE SummaryProofs -----------------------------
(* Proof that what a summary shows adds up, for any workers, clicks, faults,   *)
(* finitely many keys, requests, referers and any LIMIT.                       *)
EXTENDS SummaryProperties, ClickConsumerProofs, DataLemmas

LEMMA AskedFinite ==
    ASSUME SummaryTypeOK, NEW s \in Requests
    PROVE  /\ asked[s] \in SUBSET Keys /\ IsFiniteSet(asked[s])
           /\ DOMAIN trend[s] \in SUBSET asked[s] /\ IsFiniteSet(DOMAIN trend[s])
<1>1. asked[s] \in SUBSET Keys /\ DOMAIN trend[s] \in SUBSET asked[s]
  BY DEF SummaryTypeOK
<1>2. IsFiniteSet(asked[s])
  BY <1>1, FS_Subset, SummaryAssumption
<1> QED BY <1>1, <1>2, FS_Subset

-----------------------------------------------------------------------------
(* What the workers do to the tables meanwhile: they only add.                 *)
LEMMA TablesGrow ==
    ASSUME IInv, [Next]_vars
    PROVE  /\ details \subseteq details'
           /\ \A k \in Keys : /\ pv[k] <= pv'[k] /\ uv[k] <= uv'[k]
                              /\ uv[k] <= pv[k] => uv'[k] <= pv'[k]
<1>1. details \subseteq details'
  <2>1. CASE \E e \in Clicks : Emit(e)
    BY <2>1 DEF Emit, mysql
  <2>2. CASE \E w \in Workers : Work(w) \/ Crash(w)
    BY <2>2 DEF Work, Handle, EnsureGroup, Read, Insert, Member, Add, Upsert, Ack, Crash, mysql
  <2>3. CASE \E k \in Keys : Forget(k)
    BY <2>3 DEF Forget, mysql
  <2>4. CASE UNCHANGED vars
    BY <2>4 DEF vars, mysql
  <2> QED BY <2>1, <2>2, <2>3, <2>4 DEF Next
<1>2. pv \in [Keys -> Nat] /\ uv \in [Keys -> Nat]
  BY DEF IInv, TypeOK
<1>3. \/ UNCHANGED <<pv, uv>>
      \/ \E j \in Keys, d \in {0, 1} :
             pv' = [pv EXCEPT ![j] = @ + 1] /\ uv' = [uv EXCEPT ![j] = @ + d]
  BY StepCounts DEF Counter!Next, Counter!vars, Counter!Report, Counter!Count
<1>4. CASE UNCHANGED <<pv, uv>>
  BY <1>1, <1>2, <1>4
<1>5. CASE \E j \in Keys, d \in {0, 1} :
               pv' = [pv EXCEPT ![j] = @ + 1] /\ uv' = [uv EXCEPT ![j] = @ + d]
  <2> PICK j \in Keys, d \in {0, 1} :
          pv' = [pv EXCEPT ![j] = @ + 1] /\ uv' = [uv EXCEPT ![j] = @ + d]
    BY <1>5
  <2>1. ASSUME NEW k \in Keys
        PROVE  pv[k] <= pv'[k] /\ uv[k] <= uv'[k] /\ (uv[k] <= pv[k] => uv'[k] <= pv'[k])
    <3>1. pv'[k] = IF k = j THEN pv[k] + 1 ELSE pv[k]
      BY <1>2
    <3>2. uv'[k] = IF k = j THEN uv[k] + d ELSE uv[k]
      BY <1>2
    <3>3. pv[k] \in Nat /\ uv[k] \in Nat
      BY <1>2
    <3> QED BY <3>1, <3>2, <3>3
  <2> QED BY <1>1, <2>1
<1> QED BY <1>3, <1>4, <1>5

(* The page views of the keys asked for are clicks that are stored.            *)
LEMMA PvStored ==
    ASSUME IInv, NEW K \in SUBSET Keys, IsFiniteSet(K)
    PROVE  SumFunctionOnSet(pv, K) <= Cardinality({e \in details : KeyOf[e] \in K})
<1>1. /\ IsFiniteSet(counted) /\ counted \subseteq details /\ IsFiniteSet(details)
  BY FS_Subset, ClicksAssumption DEF IInv, TypeOK, PvIsCounted
<1>2. \A k \in K : pv[k] = Cardinality(Part(counted, KeyOf, k))
  BY DEF IInv, PvIsCounted, Of, Part
<1>3. SumFunctionOnSet(pv, K) = Cardinality(PartsOf(counted, KeyOf, K))
  BY <1>1, <1>2, SumOfParts
<1> DEFINE C == {e \in counted : KeyOf[e] \in K}
           D == {e \in details : KeyOf[e] \in K}
<1>4. C \in SUBSET D /\ IsFiniteSet(D)
  BY <1>1, FS_Subset
<1>5. Cardinality(C) <= Cardinality(D)
  BY <1>4, FS_Subset
<1> QED BY <1>3, <1>5 DEF PartsOf

LEMMA UvPvNat ==
    ASSUME SummaryIInv
    PROVE  \A k \in Keys : pv[k] \in Nat /\ uv[k] \in Nat
BY DEF SummaryIInv, IInv, TypeOK

(* A step of a worker: what a request has been told is still covered.          *)
LEMMA WorkStep ==
    ASSUME SummaryIInv, [Next]_vars, UNCHANGED answers
    PROVE  SummaryIInv'
<1> USE DEF SummaryIInv
<1>1. IInv'
  BY Preserved
<1>2. UNCHANGED <<asked, query, total, trend, refs>>
  BY DEF answers
<1>3. SummaryTypeOK'
  BY <1>1, <1>2 DEF SummaryTypeOK, IInv
<1>4. UvWithinPv'
  BY TablesGrow DEF UvWithinPv
<1>5. ASSUME NEW s \in Requests PROVE RequestOK(s)'
  <2>1. asked[s] \in SUBSET Keys /\ IsFiniteSet(asked[s])
    BY AskedFinite
  <2>2. TotalCovered(s) => TotalCovered(s)'
    <3>1. \A k \in asked[s] : /\ pv[k] \in Nat /\ pv'[k] \in Nat /\ pv[k] <= pv'[k]
                              /\ uv[k] \in Nat /\ uv'[k] \in Nat /\ uv[k] <= uv'[k]
      BY <1>1, <2>1, TablesGrow DEF IInv, TypeOK
    <3>2. asked[s] \in SUBSET asked[s]
      OBVIOUS
    <3>3. /\ SumFunctionOnSet(pv, asked[s]) <= SumFunctionOnSet(pv', asked[s])
          /\ SumFunctionOnSet(uv, asked[s]) <= SumFunctionOnSet(uv', asked[s])
      BY <2>1, <3>1, <3>2, SumMonotone
    <3>4. /\ SumFunctionOnSet(pv, asked[s]) \in Nat /\ SumFunctionOnSet(pv', asked[s]) \in Nat
          /\ SumFunctionOnSet(uv, asked[s]) \in Nat /\ SumFunctionOnSet(uv', asked[s]) \in Nat
      BY <2>1, <3>1, SumType
    <3>5. total[s].pv \in Nat /\ total[s].uv \in Nat
      BY DEF SummaryTypeOK
    <3> QED BY <1>2, <3>3, <3>4, <3>5 DEF TotalCovered
  <2>3. TrendCovered(s) => TrendCovered(s)'
    <3>1. Asked(s) \in SUBSET Asked(s)'
      BY <1>2, TablesGrow DEF Asked
    <3>2. IsFiniteSet(Asked(s)')
      BY <1>1, FS_Subset, ClicksAssumption DEF Asked, IInv, TypeOK
    <3>3. /\ Cardinality(Asked(s)) <= Cardinality(Asked(s)')
          /\ Cardinality(Asked(s)) \in Nat /\ Cardinality(Asked(s)') \in Nat
      BY <3>1, <3>2, FS_Subset, FS_CardinalityType
    <3>4. TrendPv(trend[s]) \in Nat
      BY AskedFinite, SumType DEF TrendPv, SumFunction, SummaryTypeOK, Range
    <3> QED BY <1>2, <3>3, <3>4 DEF TrendCovered
  <2> QED BY <1>2, <2>2, <2>3 DEF RequestOK, TrendCovers, RefsCover
<1> QED BY <1>1, <1>3, <1>4, <1>5

(* A request is served while the tables and the other requests stay put.       *)
LEMMA Others ==
    ASSUME SummaryIInv, UNCHANGED vars, SummaryTypeOK', NEW s \in Requests,
           \A r \in Requests \ {s} :
               /\ asked'[r] = asked[r] /\ query'[r] = query[r]
               /\ total'[r] = total[r] /\ trend'[r] = trend[r] /\ refs'[r] = refs[r],
           RequestOK(s)'
    PROVE  SummaryIInv'
<1>1. IInv' /\ UvWithinPv'
  BY Stutter DEF SummaryIInv, UvWithinPv, vars, mysql
<1>2. ASSUME NEW r \in Requests \ {s} PROVE RequestOK(r)'
  <2>1. RequestOK(r)
    BY DEF SummaryIInv
  <2>2. pv' = pv /\ uv' = uv /\ details' = details
    BY DEF vars, mysql
  <2> QED
    BY <2>1, <2>2 DEF RequestOK, TotalCovered, TrendCovers, TrendCovered, RefsCover, Asked
<1> QED BY <1>1, <1>2 DEF SummaryIInv

LEMMA BeginStep ==
    ASSUME SummaryIInv, UNCHANGED vars, NEW s \in Requests, GetTrafficSummary(s)
    PROVE  SummaryIInv'
<1>1. /\ query[s] = 0 /\ query' = [query EXCEPT ![s] = @ + 1]
      /\ total' = total /\ trend' = trend /\ refs' = refs
  BY DEF GetTrafficSummary, Advance
<1>2. PICK K \in SUBSET Keys : asked' = [asked EXCEPT ![s] = K]
  BY DEF GetTrafficSummary
<1>0. SummaryTypeOK
  BY DEF SummaryIInv
<1>3. query'[s] = 1
  BY <1>0, <1>1 DEF SummaryTypeOK
<1>4. SummaryTypeOK'
  <2>1. query' \in [Requests -> 0 .. 4]
    BY <1>0, <1>1 DEF SummaryTypeOK
  <2>2. asked' \in [Requests -> SUBSET Keys]
    BY <1>0, <1>2 DEF SummaryTypeOK
  <2>3. DOMAIN trend[s] = {}
    BY <1>1 DEF SummaryIInv, RequestOK
  <2>4. \A r \in Requests : DOMAIN trend[r] \subseteq asked'[r]
    BY <1>0, <1>2, <2>3 DEF SummaryTypeOK
  <2>5. TypeOK'
    BY Stutter DEF SummaryIInv, IInv
  <2> QED BY <1>0, <1>1, <2>1, <2>2, <2>4, <2>5 DEF SummaryTypeOK
<1>5. RequestOK(s)'
  BY <1>3 DEF RequestOK
<1>6. \A r \in Requests \ {s} : query'[r] = query[r] /\ asked'[r] = asked[r]
  BY <1>0, <1>1, <1>2 DEF SummaryTypeOK
<1> QED BY <1>1, <1>4, <1>5, <1>6, Others

LEMMA queryPVUVStep ==
    ASSUME SummaryIInv, UNCHANGED vars, NEW s \in Requests, queryPVUV(s)
    PROVE  SummaryIInv'
<1> DEFINE t == [pv |-> SumFunctionOnSet(pv, asked[s]), uv |-> SumFunctionOnSet(uv, asked[s])]
<1>0. SummaryTypeOK
  BY DEF SummaryIInv
<1>1. /\ query[s] = 1 /\ query' = [query EXCEPT ![s] = @ + 1]
      /\ asked' = asked /\ trend' = trend /\ refs' = refs
      /\ total' = [total EXCEPT ![s] = t]
  <2>1. query[s] \in 1 .. 3 /\ Order[query[s]] = "pvuv"
    BY DEF queryPVUV, Running, Order
  <2>2. query[s] = 1
    BY <2>1 DEF Order
  <2> QED BY <2>2 DEF queryPVUV, Advance
<1>2. t \in [pv : Nat, uv : Nat]
  BY <1>0, AskedFinite, UvPvNat, SumType
<1>3. SummaryTypeOK'
  <2>1. query' \in [Requests -> 0 .. 4]
    BY <1>0, <1>1 DEF SummaryTypeOK
  <2>2. total' \in [Requests -> [pv : Nat, uv : Nat]]
    BY <1>0, <1>1, <1>2 DEF SummaryTypeOK
  <2>3. TypeOK'
    BY Stutter DEF SummaryIInv, IInv
  <2> QED BY <1>0, <1>1, <2>1, <2>2, <2>3 DEF SummaryTypeOK
<1>4. query'[s] = 2 /\ total'[s] = t
  BY <1>0, <1>1 DEF SummaryTypeOK
<1>5. RequestOK(s)'
  <2>1. t.pv <= SumFunctionOnSet(pv, asked[s]) /\ t.uv <= SumFunctionOnSet(uv, asked[s])
    BY <1>2
  <2>2. TotalCovered(s)'
    <3> HIDE DEF t
    <3> QED BY <1>1, <1>4, <2>1 DEF TotalCovered, vars, mysql
  <2> QED BY <1>4, <2>2 DEF RequestOK
<1>6. \A r \in Requests \ {s} : query'[r] = query[r] /\ total'[r] = total[r]
  BY <1>0, <1>1 DEF SummaryTypeOK
<1> QED BY <1>1, <1>3, <1>5, <1>6, Others

(* The rows found add up to the sums of the tables, and so cover the total.    *)
LEMMA queryTrendStep ==
    ASSUME SummaryIInv, UNCHANGED vars, NEW s \in Requests, queryTrend(s)
    PROVE  SummaryIInv'
<1> DEFINE found == {j \in asked[s] : pv[j] > 0}
           rows == [k \in found |-> [pv |-> pv[k], uv |-> uv[k]]]
<1>0. SummaryTypeOK /\ IInv
  BY DEF SummaryIInv
<1>1. /\ query[s] = 2 /\ query' = [query EXCEPT ![s] = @ + 1]
      /\ asked' = asked /\ total' = total /\ refs' = refs
      /\ trend' = [trend EXCEPT ![s] = rows]
  <2>1. query[s] \in 1 .. 3 /\ Order[query[s]] = "trend"
    BY DEF queryTrend, Running, Order
  <2>2. query[s] = 2
    BY <2>1 DEF Order
  <2> QED BY <2>2 DEF queryTrend, Advance
<1>2. /\ asked[s] \in SUBSET Keys /\ IsFiniteSet(asked[s])
      /\ found \in SUBSET asked[s] /\ IsFiniteSet(found)
  BY <1>0, AskedFinite, FS_Subset
<1>3. \A k \in asked[s] : pv[k] \in Nat /\ uv[k] \in Nat
  BY <1>2, UvPvNat
<1>4. \A r \in Requests \ {s} : query'[r] = query[r] /\ trend'[r] = trend[r]
  BY <1>0, <1>1 DEF SummaryTypeOK
<1>5. SummaryTypeOK'
  <2>1. query' \in [Requests -> 0 .. 4]
    BY <1>0, <1>1 DEF SummaryTypeOK
  <2>2. DOMAIN rows \subseteq asked[s] /\ Range(rows) \subseteq [pv : Nat, uv : Nat]
    <3>1. \A k \in found : rows[k] \in [pv : Nat, uv : Nat]
      BY <1>3
    <3>2. DOMAIN rows = found
      OBVIOUS
    <3> HIDE DEF rows
    <3> QED BY <3>1, <3>2 DEF Range
  <2>3. TypeOK'
    BY Stutter DEF SummaryIInv, IInv
  <2> HIDE DEF rows
  <2> QED BY <1>0, <1>1, <1>4, <2>1, <2>2, <2>3 DEF SummaryTypeOK
<1>6. query'[s] = 3 /\ trend'[s] = rows
  <2> HIDE DEF rows
  <2> QED BY <1>0, <1>1 DEF SummaryTypeOK
<1> DEFINE Rp == [k \in found |-> pv[k]]
           Ru == [k \in found |-> uv[k]]
<1>7. TrendPv(rows) = SumFunctionOnSet(Rp, found) /\ TrendUv(rows) = SumFunctionOnSet(Ru, found)
  <2>1. /\ [k \in DOMAIN rows |-> rows[k].pv] = Rp
        /\ [k \in DOMAIN rows |-> rows[k].uv] = Ru
    OBVIOUS
  <2>2. DOMAIN Rp = found /\ DOMAIN Ru = found
    OBVIOUS
  <2> HIDE DEF rows, Rp, Ru, found
  <2> QED BY <2>1, <2>2 DEF TrendPv, TrendUv, SumFunction
<1>8. /\ SumFunctionOnSet(pv, asked[s]) = SumFunctionOnSet(Rp, found)
      /\ SumFunctionOnSet(uv, asked[s]) = SumFunctionOnSet(Ru, found)
  <2>1. \A k \in asked[s] \ found : pv[k] = 0 /\ uv[k] = 0
    BY <1>2, <1>3 DEF SummaryIInv, UvWithinPv
  <2>2. \A k \in found : Rp[k] = pv[k] /\ Ru[k] = uv[k]
    OBVIOUS
  <2> HIDE DEF Rp, Ru, found
  <2> QED BY <1>2, <1>3, <2>1, <2>2, SumWithoutZeros
<1>9. RequestOK(s)'
  <2>1. /\ total[s].pv <= SumFunctionOnSet(pv, asked[s])
        /\ total[s].uv <= SumFunctionOnSet(uv, asked[s])
    BY <1>1 DEF SummaryIInv, RequestOK, TotalCovered
  <2>2. TrendCovers(s)'
    <3> HIDE DEF rows, Rp, Ru, found
    <3> QED BY <1>1, <1>6, <1>7, <1>8, <2>1 DEF TrendCovers
  <2>3. TrendCovered(s)'
    <3>1. SumFunctionOnSet(pv, asked[s]) <= Cardinality(Asked(s))
      BY <1>0, <1>2, PvStored DEF Asked
    <3>2. Asked(s)' = Asked(s)
      BY <1>1 DEF Asked, vars, mysql
    <3> HIDE DEF rows, Rp, Ru, found
    <3> QED BY <1>6, <1>7, <1>8, <3>1, <3>2 DEF TrendCovered
  <2> QED BY <1>6, <2>2, <2>3 DEF RequestOK
<1> HIDE DEF rows
<1> QED BY <1>1, <1>4, <1>5, <1>9, Others

(* The stored clicks of the keys asked for, each in the row of its referer.    *)
LEMMA queryTopReferrersStep ==
    ASSUME SummaryIInv, UNCHANGED vars, NEW s \in Requests, queryTopReferrers(s)
    PROVE  SummaryIInv'
<1> DEFINE found == {f \in Referers : Cardinality(ClicksOf(s, f)) > 0}
<1>0. SummaryTypeOK /\ IInv
  BY DEF SummaryIInv
<1>1. /\ query[s] = 3 /\ query' = [query EXCEPT ![s] = @ + 1]
      /\ asked' = asked /\ total' = total /\ trend' = trend
  <2>1. query[s] \in 1 .. 3 /\ Order[query[s]] = "referrers"
    BY DEF queryTopReferrers, Running, Order
  <2>2. query[s] = 3
    BY <2>1 DEF Order
  <2> QED BY <2>2 DEF queryTopReferrers, Advance
<1>2. PICK R \in SUBSET Referers :
          /\ R \subseteq found /\ Cardinality(R) = Least(Top, Cardinality(found))
          /\ refs' = [refs EXCEPT ![s] = [f \in R |-> Cardinality(ClicksOf(s, f))]]
  BY DEF queryTopReferrers, TopOf
<1> DEFINE rows == [f \in R |-> Cardinality(ClicksOf(s, f))]
<1>3. IsFiniteSet(details) /\ details \in SUBSET Clicks
  BY <1>0, FS_Subset, ClicksAssumption DEF IInv, TypeOK
<1>4. IsFiniteSet(found) /\ IsFiniteSet(R)
  <2> DEFINE h == [e \in details |-> RefererOf[e]]
             T == {RefererOf[e] : e \in details}
  <2>1. h \in Surjection(details, T)
    BY DEF Surjection
  <2>2. IsFiniteSet(T)
    BY <1>3, <2>1, FS_Surjection DEF ExistsSurjection
  <2>3. \A f \in found : ClicksOf(s, f) # {}
    BY FS_EmptySet
  <2>4. found \in SUBSET T
    BY <2>3 DEF ClicksOf
  <2> HIDE DEF T, found
  <2> QED BY <1>2, <2>2, <2>4, FS_Subset
<1>5. Cardinality(found) \in Nat /\ Cardinality(R) \in Nat /\ Top \in Nat
  BY <1>4, FS_CardinalityType, SummaryAssumption
<1>6. /\ query'[s] = 4 /\ refs'[s] = rows /\ DOMAIN rows = R
      /\ \A r \in Requests \ {s} : query'[r] = query[r] /\ refs'[r] = refs[r]
  <2>1. DOMAIN rows = R
    OBVIOUS
  <2>2. DOMAIN refs = Requests /\ query \in [Requests -> 0 .. 4]
    BY <1>0 DEF SummaryTypeOK
  <2>3. refs' = [refs EXCEPT ![s] = rows]
    BY <1>2
  <2> HIDE DEF rows
  <2> QED BY <1>1, <2>1, <2>2, <2>3
<1>7. SummaryTypeOK'
  <2>1. query' \in [Requests -> 0 .. 4]
    BY <1>0, <1>1 DEF SummaryTypeOK
  <2>2. Cardinality(R) <= Top
    BY <1>2, <1>5 DEF Least
  <2>3. TypeOK'
    BY Stutter DEF SummaryIInv, IInv
  <2>4. DOMAIN refs' = Requests
    BY <1>0, <1>2 DEF SummaryTypeOK
  <2>5. \A r \in Requests :
            DOMAIN refs'[r] \subseteq Referers /\ Cardinality(DOMAIN refs'[r]) <= Top
    <3> HIDE DEF rows
    <3> QED BY <1>0, <1>6, <2>2 DEF SummaryTypeOK
  <2> HIDE DEF rows
  <2> QED BY <1>0, <1>1, <2>1, <2>3, <2>4, <2>5 DEF SummaryTypeOK
<1>8. ASSUME Cardinality(R) < Top
      PROVE  SumFunction(rows) = Cardinality(Asked(s))
  <2>1. R = found
    <3>1. Cardinality(R) = Cardinality(found)
      BY <1>2, <1>5, <1>8 DEF Least
    <3> HIDE DEF found
    <3> QED BY <1>2, <1>4, <3>1, FS_Subset
  <2>2. IsFiniteSet(Asked(s))
    BY <1>3, FS_Subset DEF Asked
  <2>3. \A f \in R : rows[f] = Cardinality(Part(Asked(s), RefererOf, f))
    BY DEF Part, Asked, ClicksOf
  <2>4. SumFunctionOnSet(rows, R) = Cardinality(PartsOf(Asked(s), RefererOf, R))
    <3> HIDE DEF rows
    <3> QED BY <1>4, <2>2, <2>3, SumOfParts
  <2>5. ASSUME NEW e \in Asked(s) PROVE RefererOf[e] \in R
    <3>1. RefererOf[e] \in Referers /\ e \in ClicksOf(s, RefererOf[e])
      BY <1>3, SummaryAssumption DEF Asked, ClicksOf
    <3>2. IsFiniteSet(ClicksOf(s, RefererOf[e]))
      BY <1>3, FS_Subset DEF ClicksOf
    <3>3. Cardinality(ClicksOf(s, RefererOf[e])) \in Nat \ {0}
      BY <3>1, <3>2, FS_EmptySet, FS_CardinalityType
    <3> QED BY <2>1, <3>1, <3>3
  <2>6. PartsOf(Asked(s), RefererOf, R) = Asked(s)
    BY <2>5 DEF PartsOf
  <2> HIDE DEF rows
  <2> QED BY <1>6, <2>4, <2>6 DEF SumFunction
<1>9. RequestOK(s)'
  <2>1. TrendCovers(s) /\ TrendCovered(s)
    BY <1>1 DEF SummaryIInv, RequestOK
  <2>2. TrendCovers(s)'
    BY <1>1, <2>1 DEF TrendCovers
  <2>3. RefsCover(s)'
    <3> HIDE DEF rows
    <3> QED BY <1>1, <1>6, <1>8, <2>1 DEF RefsCover, TrendCovered
  <2> QED BY <1>6, <2>2, <2>3 DEF RequestOK
<1> HIDE DEF rows
<1> QED BY <1>1, <1>6, <1>7, <1>9, Others

-----------------------------------------------------------------------------
LEMMA SummaryInitially == SummaryInit => SummaryIInv
<1> SUFFICES ASSUME SummaryInit PROVE SummaryIInv
  OBVIOUS
<1>1. IInv
  BY Initially DEF SummaryInit
<1>2. UvWithinPv
  BY DEF SummaryInit, Init, UvWithinPv
<1>3. SummaryTypeOK
  <2>1. DOMAIN <<>> = {} /\ Range(<<>>) = {} /\ Cardinality({}) = 0
    BY FS_EmptySet DEF Range
  <2> QED BY <1>1, <2>1, SummaryAssumption DEF SummaryInit, SummaryTypeOK, IInv
<1>4. \A s \in Requests : RequestOK(s)
  BY DEF SummaryInit, RequestOK
<1> QED BY <1>1, <1>2, <1>3, <1>4 DEF SummaryIInv

LEMMA SummaryPreserved == SummaryIInv /\ [SummaryNext]_allVars => SummaryIInv'
<1> SUFFICES ASSUME SummaryIInv, [SummaryNext]_allVars PROVE SummaryIInv'
  OBVIOUS
<1>1. CASE Next /\ UNCHANGED answers
  BY <1>1, WorkStep
<1>2. CASE \E s \in Requests : Summarise(s) /\ UNCHANGED vars
  BY <1>2, BeginStep, queryPVUVStep, queryTrendStep, queryTopReferrersStep DEF Summarise
<1>3. CASE UNCHANGED allVars
  BY <1>3, WorkStep DEF allVars
<1> QED BY <1>1, <1>2, <1>3 DEF SummaryNext

THEOREM SummaryInvariance == SummarySpec => []SummaryIInv
BY SummaryInitially, SummaryPreserved, PTL DEF SummarySpec

(* The tables and the answers keep their types, and the LIMIT is kept.         *)
THEOREM SummaryTypeCorrect == SummarySpec => []SummaryTypeOK
<1>1. SummaryIInv => SummaryTypeOK
  BY DEF SummaryIInv
<1> QED BY <1>1, SummaryInvariance, PTL

(* No day and no uncut list of referers falls short of the total that is       *)
(* shown with it, although the queries run while clicks are counted.           *)
THEOREM SummaryAdds == SummarySpec => []SummaryAddsUp
<1>1. SummaryIInv => SummaryAddsUp
  BY DEF SummaryIInv, SummaryAddsUp, RequestOK, Answered, Order, TrendCovers, RefsCover
<1> QED BY <1>1, SummaryInvariance, PTL

-----------------------------------------------------------------------------
(* Summaries only read: what the consumers do meanwhile are their own runs.    *)
LEMMA ConsumersRun == SummarySpec => Spec
<1>1. SummaryInit => Init
  BY DEF SummaryInit
<1>2. [SummaryNext]_allVars => [Next]_vars
  BY DEF SummaryNext, allVars
<1> QED BY <1>1, <1>2, PTL DEF SummarySpec, Spec

(* While summaries are read the consumers keep all that they promise.          *)
THEOREM SummariesDisturbNothing ==
    SummarySpec => [](PvCountsStored /\ AckedIsStored) /\ CountsAsPromised
BY ConsumersRun, PvCounts, AckedStored, ImplementsCounter, PTL

(* So do the unique visitors, with one worker and a Redis that keeps what it   *)
(* is told.                                                                    *)
THEOREM SummaryUvBounded ==
    ASSUME OneWorker, RedisKeeps PROVE SummarySpec => []UvAtMostAddresses
BY ConsumersRun, UvBounded, PTL
=============================================================================
