--------------------------- MODULE ShortenerProofs ---------------------------
(***************************************************************************)
(* The short-link service keeps its promises for any number of requests,  *)
(* URLs, codes and rows, any collation and any hash functions.             *)
(*                                                                         *)
(* The invariant IInv has a part about the stores and a part about each    *)
(* request.  What one request does reaches another only through the stores,*)
(* and the stores only grow (Grows): a row keeps its code, a version stays *)
(* a version.  Lemma Others draws the conclusion once for every step.      *)
(***************************************************************************)
EXTENDS ShortenerCoherence, TLAPS

(* What every step leaves true of the table and its history *)
Grows == /\ \A i \in Ids : Stored(i) => table'[i] # NoRow /\ table'[i].surl = table[i].surl
         /\ past \subseteq past'

(* A request that a step does not touch *)
Same(q) == /\ pc'[q] = pc[q] /\ answer'[q] = answer[q] /\ arg'[q] = arg[q] /\ id'[q] = id[q]
           /\ row'[q] = row[q] /\ new'[q] = new[q] /\ num'[q] = num[q]

(* Keys of the cache are only removed, or marked as placeholders *)
Shrinks == /\ \A i \in Ids : cacheId'[i] \in {cacheId[i], NoRow}
           /\ \A c \in Codes : cacheSurl'[c] \in {cacheSurl[c], Miss, Hole}
           /\ \A u \in Urls : cacheMd5'[u] \in {cacheMd5[u], Miss, Hole}

LEMMA Others ==
    ASSUME TypeOK, Grows, NEW q \in Req, RequestOK(q), Same(q) PROVE RequestOK(q)'
<1>1. RoleOf(q)' BY DEF RequestOK, RoleOf, Same
<1>2. LocalsOf(q)' BY DEF RequestOK, LocalsOf, Same
<1>3. AskedBy(q)'
  <2>1. SUFFICES ASSUME id[q] \in Ids PROVE AskedBy(q)'
    BY DEF AskedBy, Same
  <2>2. Stored(id[q]) /\ table'[id[q]] # NoRow /\ table'[id[q]].surl = table[id[q]].surl
    BY <2>1 DEF RequestOK, AskedBy, Grows
  <2>3. QED BY <2>1, <2>2 DEF RequestOK, AskedBy, Same, Stored, Grows
<1>4. ExistingOf(q)' BY DEF RequestOK, ExistingOf, Answered, Same, Grows
<1>5. QED BY <1>1, <1>2, <1>3, <1>4 DEF RequestOK

LEMMA Unchanging == ASSUME UNCHANGED <<table, past>> PROVE Grows
BY DEF Grows, Stored

LEMMA StoresShrink ==
    ASSUME StoresOK, Shrinks, UNCHANGED <<table, past>> PROVE StoresOK'
<1>1. (TableCommitted /\ VersionsOfOneLink /\ UniqueKeys(table))'
  BY DEF StoresOK, TableCommitted, VersionsOfOneLink, UniqueKeys, Stored
<1>2. CacheCommitted' BY DEF StoresOK, CacheCommitted, Shrinks
<1>3. IndexesPointRight' BY MarkersAssumption DEF StoresOK, IndexesPointRight, Shrinks, Stored
<1>4. QED BY <1>1, <1>2, <1>3 DEF StoresOK

(* The two ways a step ends *)
OthersStay(r) == \A q \in Req \ {r} : pc'[q] = pc[q] /\ answer'[q] = answer[q]
Moved(r, s) == /\ pc' \in [Req -> Steps] /\ answer' \in [Req -> Answer]
               /\ pc'[r] = s /\ answer'[r] = answer[r] /\ OthersStay(r)
Ended(r, k, c, u) ==
    /\ pc' \in [Req -> Steps] /\ answer' \in [Req -> Answer]
    /\ pc'[r] = "done" /\ answer'[r] = [kind |-> k, code |-> c, url |-> u] /\ OthersStay(r)

LEMMA GotoEffect ==
    ASSUME TypeOK, NEW r \in Req, NEW s \in Steps, Goto(r, s) PROVE Moved(r, s)
BY DEF TypeOK, Goto, Moved, OthersStay

LEMMA FinishEffect ==
    ASSUME TypeOK, NEW r \in Req, NEW k \in Kinds,
           NEW c \in Codes \union {None}, NEW u \in Urls \union {None}, Finish(r, k, c, u)
    PROVE  Ended(r, k, c, u)
BY DEF TypeOK, Finish, Steps, Answer, Ended, OthersStay

LEMMA NotFoundEffect ==
    ASSUME TypeOK, NEW r \in Req, NotFound(r)
    PROVE  IF r \in Converters THEN Moved(r, "selfCheck") ELSE Ended(r, "error", None, None)
BY GotoEffect, FinishEffect DEF NotFound, Steps, Kinds

(* A step of request r keeps the invariant if it does so for r and the stores *)
LEMMA Combine ==
    ASSUME IInv, NEW r \in Req, TypeOK', Grows, StoresOK', \A q \in Req \ {r} : Same(q), RequestOK(r)'
    PROVE  IInv'
<1>1. ASSUME NEW q \in Req PROVE RequestOK(q)'
  <2>1. CASE q = r BY <2>1
  <2>2. CASE q # r BY <2>2, Others DEF IInv
  <2>3. QED BY <2>1, <2>2
<1>2. QED BY <1>1 DEF IInv

(* A step that writes neither the table nor the caches *)
LEMMA Quiet ==
    ASSUME IInv, NEW r \in Req, UNCHANGED <<table, caches, past>>,
           TypeOK', \A q \in Req \ {r} : Same(q), RequestOK(r)'
    PROVE  IInv'
<1>1. Grows BY Unchanging
<1>2. StoresOK' BY StoresShrink DEF IInv, Shrinks, caches
<1>3. QED BY <1>1, <1>2, Combine

-----------------------------------------------------------------------------
(* The cached model                                                         *)

LEMMA FailStep == ASSUME IInv, NEW r \in Req, Fail(r) PROVE IInv'
<1>1. Ended(r, "error", None, None) BY FinishEffect DEF Fail, Kinds, IInv
<1>2. UNCHANGED <<stores, locals, past>> BY DEF Fail
<1>3. TypeOK' BY <1>1, <1>2 DEF IInv, TypeOK, stores, locals, Ended
<1>4. \A q \in Req \ {r} : Same(q) BY <1>1, <1>2 DEF Same, locals, Ended, OthersStay
<1>5. RequestOK(r)'
  BY <1>1, <1>2 DEF IInv, RequestOK, RoleOf, LocalsOf, AskedBy, ExistingOf, Answered, Stored, Fail,
                    stores, locals, Ended
<1>6. QED BY <1>2, <1>3, <1>4, <1>5, Quiet DEF stores, caches

LEMMA IdxGetStep == ASSUME IInv, NEW r \in Req, IdxGet(r) PROVE IInv'
<1>1. /\ UNCHANGED <<stores, arg, row, new, num, past>>
      /\ pc[r] = "idxGet" /\ RequestOK(r) /\ TypeOK
  BY DEF IdxGet, At, IInv
<1>2. ASSUME TypeOK', \A q \in Req \ {r} : Same(q), RequestOK(r)' PROVE IInv'
  BY <1>1, <1>2, Quiet DEF stores, caches
<1>3. CASE Goto(r, "idxDb") /\ UNCHANGED id
  <2>1. Moved(r, "idxDb") BY <1>1, <1>3, GotoEffect DEF Steps
  <2>2. TypeOK' BY <2>1, <1>1, <1>3 DEF TypeOK, stores, Moved
  <2>3. \A q \in Req \ {r} : Same(q) BY <1>1, <1>3, <2>1 DEF Same, Moved, OthersStay
  <2>4. RequestOK(r)'
    BY <2>1, <1>1, <1>3 DEF RequestOK, RoleOf, LocalsOf, AskedBy, ExistingOf, Answered, Stored, stores, Moved
  <2>5. QED BY <1>2, <2>2, <2>3, <2>4
<1>4. CASE NotFound(r) /\ UNCHANGED id
  <2>1. IF r \in Converters THEN Moved(r, "selfCheck") ELSE Ended(r, "error", None, None)
    BY <1>1, <1>4, NotFoundEffect
  <2>2. TypeOK' BY <2>1, <1>1, <1>4 DEF TypeOK, stores, Moved, Ended
  <2>3. \A q \in Req \ {r} : Same(q) BY <1>1, <1>4, <2>1 DEF Same, Moved, Ended, OthersStay
  <2>4. RequestOK(r)'
    BY <2>1, <1>1, <1>4 DEF RequestOK, RoleOf, LocalsOf, AskedBy, ExistingOf, Answered, Stored, stores, Moved, Ended
  <2>5. QED BY <1>2, <2>2, <2>3, <2>4
<1>5. CASE IndexOf(r) \in Ids /\ Goto(r, "priGet") /\ id' = [id EXCEPT ![r] = IndexOf(r)]
  <2>1. Moved(r, "priGet") BY <1>1, <1>5, GotoEffect DEF Steps
  <2>2. id' \in [Req -> Ids \union {Miss}] /\ id'[r] = IndexOf(r) /\ \A q \in Req \ {r} : id'[q] = id[q]
    BY <1>1, <1>5 DEF TypeOK
  <2>3. TypeOK' BY <2>1, <1>1, <2>2 DEF TypeOK, stores, Moved
  <2>4. \A q \in Req \ {r} : Same(q) BY <1>1, <2>1, <2>2 DEF Same, Moved, OthersStay
  <2>5. /\ Stored(IndexOf(r))
        /\ r \notin Converters => Fold[table[IndexOf(r)].surl] = Fold[arg[r].code]
        /\ r \in Converters => \E v \in past : v.id = IndexOf(r) /\ v.row.md5 = arg[r].url
    BY <1>1, <1>5 DEF IInv, StoresOK, IndexesPointRight, VersionsOfOneLink, IndexOf, RequestOK, RoleOf
  <2>6. RequestOK(r)'
    BY <2>1, <2>2, <2>5, <1>1, <1>5
       DEF RequestOK, RoleOf, LocalsOf, AskedBy, ExistingOf, Answered, Stored, stores, Moved
  <2>7. QED BY <1>2, <2>3, <2>4, <2>6
<1>6. QED BY <1>3, <1>4, <1>5 DEF IdxGet

LEMMA IdxDbStep == ASSUME IInv, NEW r \in Req, IdxDb(r) PROVE IInv'
<1>1. /\ UNCHANGED <<stores, arg, new, num, past>>
      /\ pc[r] = "idxDb" /\ RequestOK(r) /\ TypeOK
  BY DEF IdxDb, At, IInv
<1>2. ASSUME TypeOK', \A q \in Req \ {r} : Same(q), RequestOK(r)' PROVE IInv'
  BY <1>1, <1>2, Quiet DEF stores, caches
<1>3. CASE Goto(r, "idxHole") /\ UNCHANGED <<id, row>>
  <2>1. Moved(r, "idxHole") BY <1>1, <1>3, GotoEffect DEF Steps
  <2>2. TypeOK' BY <2>1, <1>1, <1>3 DEF TypeOK, stores, Moved
  <2>3. \A q \in Req \ {r} : Same(q) BY <1>1, <1>3, <2>1 DEF Same, Moved, OthersStay
  <2>4. RequestOK(r)'
    BY <2>1, <1>1, <1>3 DEF RequestOK, RoleOf, LocalsOf, AskedBy, ExistingOf, Answered, Stored, stores, Moved
  <2>5. QED BY <1>2, <2>2, <2>3, <2>4
<1>4. CASE \E i \in Matches(r) : /\ id' = [id EXCEPT ![r] = i]
                                /\ row' = [row EXCEPT ![r] = table[i]]
                                /\ Goto(r, "idxPri")
  <2>0. PICK i \in Matches(r) : /\ id' = [id EXCEPT ![r] = i]
                                /\ row' = [row EXCEPT ![r] = table[i]]
                                /\ Goto(r, "idxPri")
    BY <1>4
  <2>1. Moved(r, "idxPri") BY <1>1, <2>0, GotoEffect DEF Steps
  <2>2. /\ i \in Ids /\ table[i] \in Row /\ table[i] # NoRow
        /\ r \in Converters => table[i].md5 = arg[r].url
        /\ r \notin Converters => Fold[table[i].surl] = Fold[arg[r].code]
    BY <1>1, <2>0 DEF Matches, TypeOK
  <2>3. /\ id' \in [Req -> Ids \union {Miss}] /\ id'[r] = i
        /\ row' \in [Req -> Row \union {NoRow}] /\ row'[r] = table[i]
        /\ \A q \in Req \ {r} : id'[q] = id[q] /\ row'[q] = row[q]
    BY <1>1, <2>0, <2>2 DEF TypeOK
  <2>4. TypeOK' BY <2>1, <1>1, <2>3 DEF TypeOK, stores, Moved
  <2>5. \A q \in Req \ {r} : Same(q) BY <1>1, <2>1, <2>3 DEF Same, Moved, OthersStay
  <2>6. [id |-> i, row |-> table[i]] \in past
    BY <2>2 DEF IInv, StoresOK, TableCommitted, Stored
  <2>7. RequestOK(r)'
    BY <2>1, <2>2, <2>3, <2>6, <1>1
       DEF RequestOK, RoleOf, LocalsOf, AskedBy, ExistingOf, Answered, Stored, stores, Moved
  <2>8. QED BY <1>2, <2>4, <2>5, <2>7
<1>5. QED BY <1>3, <1>4 DEF IdxDb

(* A copy of a committed version may be cached under its id *)
LEMMA RowCached ==
    ASSUME IInv, NEW i \in Ids, NEW x, [id |-> i, row |-> x] \in past,
           cacheId' = [cacheId EXCEPT ![i] = x] \/ UNCHANGED cacheId,
           UNCHANGED <<table, cacheSurl, cacheMd5, past>>
    PROVE  StoresOK' /\ cacheId' \in [Ids -> Row \union {NoRow}]
<1>1. x \in Row BY DEF IInv, TypeOK, Version
<1>2. cacheId' \in [Ids -> Row \union {NoRow}] BY <1>1 DEF IInv, TypeOK
<1>3. CacheCommitted' BY DEF IInv, TypeOK, StoresOK, CacheCommitted
<1>4. (TableCommitted /\ VersionsOfOneLink /\ IndexesPointRight /\ UniqueKeys(table))'
  BY DEF IInv, StoresOK, TableCommitted, VersionsOfOneLink, IndexesPointRight, UniqueKeys, Stored
<1>5. QED BY <1>2, <1>3, <1>4 DEF StoresOK

LEMMA IdxPriStep == ASSUME IInv, NEW r \in Req, IdxPri(r) PROVE IInv'
<1>1. /\ UNCHANGED <<table, cacheSurl, cacheMd5, delRetry, seq, bits, stream, now, locals, past>>
      /\ pc[r] = "idxPri" /\ RequestOK(r) /\ TypeOK
      /\ cacheId' = [cacheId EXCEPT ![id[r]] = row[r]]
  BY DEF IdxPri, At, IInv
<1>2. Moved(r, "idxSet") BY <1>1, GotoEffect DEF IdxPri, Steps
<1>3. id[r] \in Ids /\ [id |-> id[r], row |-> row[r]] \in past
  BY <1>1 DEF RequestOK, LocalsOf, AskedBy
<1>4. StoresOK' /\ cacheId' \in [Ids -> Row \union {NoRow}]
  BY <1>1, <1>3, RowCached
<1>5. TypeOK' BY <1>1, <1>2, <1>4 DEF TypeOK, locals, Moved
<1>6. \A q \in Req \ {r} : Same(q) BY <1>1, <1>2 DEF Same, Moved, OthersStay, locals
<1>7. RequestOK(r)'
  BY <1>1, <1>2 DEF RequestOK, RoleOf, LocalsOf, AskedBy, ExistingOf, Answered, Stored, locals, Moved
<1>8. QED BY <1>1, <1>4, <1>5, <1>6, <1>7, Combine, Unchanging

(* Where a lookup returns to, and that the handler may be there *)
LEMMA ReturnStep ==
    ASSUME NEW r \in Req
    PROVE  /\ Return(r) \in {"dedupe", "check", "merge", "write"}
           /\ Return(r) = "dedupe" => r \in Converters
           /\ Return(r) = "check" => r \in Showers
           /\ Return(r) \in {"merge", "write"} => r \in Updaters
           /\ Return(r) = "write" => new[r] # NoRow
BY RequestsDisjoint DEF Return, Req

LEMMA IdxSetStep == ASSUME IInv, NEW r \in Req, IdxSet(r) PROVE IInv'
<1>1. /\ UNCHANGED <<table, cacheId, delRetry, seq, bits, stream, now, locals, past>>
      /\ pc[r] = "idxSet" /\ RequestOK(r) /\ TypeOK
  BY DEF IdxSet, At, IInv
<1>2. Moved(r, Return(r)) BY <1>1, GotoEffect, ReturnStep DEF IdxSet, Steps
<1>3. /\ id[r] \in Ids /\ Stored(id[r])
      /\ r \in Converters => arg[r].url \in Urls /\ \E v \in past : v.id = id[r] /\ v.row.md5 = arg[r].url
      /\ r \notin Converters => arg[r].code \in Codes /\ Fold[table[id[r]].surl] = Fold[arg[r].code]
  BY <1>1 DEF RequestOK, LocalsOf, AskedBy, RoleOf
<1>4. /\ cacheSurl' \in [Codes -> Ids \union {Miss, Hole}] /\ cacheMd5' \in [Urls -> Ids \union {Miss, Hole}]
      /\ \A c \in Codes : cacheSurl'[c] = cacheSurl[c] \/ (c = arg[r].code /\ r \notin Converters /\ cacheSurl'[c] = id[r])
      /\ \A u \in Urls : cacheMd5'[u] = cacheMd5[u] \/ (u = arg[r].url /\ r \in Converters /\ cacheMd5'[u] = id[r])
  <2>1. CASE UNCHANGED <<cacheSurl, cacheMd5>> BY <2>1 DEF IInv, TypeOK
  <2>2. CASE SetIndex(r, id[r]) /\ r \in Converters BY <2>2, <1>3 DEF IInv, TypeOK, SetIndex
  <2>3. CASE SetIndex(r, id[r]) /\ r \notin Converters BY <2>3, <1>3 DEF IInv, TypeOK, SetIndex
  <2>4. QED BY <2>1, <2>2, <2>3 DEF IdxSet
<1>5. StoresOK'
  <2>1. (TableCommitted /\ CacheCommitted /\ VersionsOfOneLink /\ UniqueKeys(table))'
    BY <1>1 DEF IInv, StoresOK, TableCommitted, CacheCommitted, VersionsOfOneLink, UniqueKeys, Stored
  <2>2. IndexesPointRight'
    BY <1>1, <1>3, <1>4 DEF IInv, StoresOK, IndexesPointRight, Stored
  <2>3. QED BY <2>1, <2>2 DEF StoresOK
<1>6. TypeOK' BY <1>1, <1>2, <1>4 DEF TypeOK, locals, Moved
<1>7. \A q \in Req \ {r} : Same(q) BY <1>1, <1>2 DEF Same, Moved, OthersStay, locals
<1>8. RequestOK(r)'
  BY <1>1, <1>2, ReturnStep DEF RequestOK, RoleOf, LocalsOf, AskedBy, ExistingOf, Answered, Stored, locals, Moved
<1>9. QED BY <1>1, <1>5, <1>6, <1>7, <1>8, Combine, Unchanging

LEMMA IdxHoleStep == ASSUME IInv, NEW r \in Req, IdxHole(r) PROVE IInv'
<1>1. /\ UNCHANGED <<table, cacheId, delRetry, seq, bits, stream, now, locals, past>>
      /\ pc[r] = "idxHole" /\ RequestOK(r) /\ TypeOK
  BY DEF IdxHole, At, IInv
<1>2. IF r \in Converters THEN Moved(r, "selfCheck") ELSE Ended(r, "error", None, None)
  BY <1>1, NotFoundEffect DEF IdxHole
<1>3. /\ cacheSurl' \in [Codes -> Ids \union {Miss, Hole}] /\ cacheMd5' \in [Urls -> Ids \union {Miss, Hole}]
      /\ \A c \in Codes : cacheSurl'[c] \in {cacheSurl[c], Miss, Hole}
      /\ \A u \in Urls : cacheMd5'[u] \in {cacheMd5[u], Miss, Hole}
  <2>1. CASE UNCHANGED <<cacheSurl, cacheMd5>> BY <2>1 DEF IInv, TypeOK
  <2>2. CASE SetIndex(r, Hole) /\ r \in Converters BY <2>2 DEF IInv, TypeOK, SetIndex
  <2>3. CASE SetIndex(r, Hole) /\ r \notin Converters BY <2>3 DEF IInv, TypeOK, SetIndex
  <2>4. QED BY <2>1, <2>2, <2>3 DEF IdxHole
<1>4. StoresOK' BY <1>1, <1>3, StoresShrink DEF IInv, Shrinks
<1>5. TypeOK' BY <1>1, <1>2, <1>3 DEF TypeOK, locals, Moved, Ended
<1>6. \A q \in Req \ {r} : Same(q) BY <1>1, <1>2 DEF Same, Moved, Ended, OthersStay, locals
<1>7. RequestOK(r)'
  BY <1>1, <1>2 DEF RequestOK, RoleOf, LocalsOf, AskedBy, ExistingOf, Answered, Stored, locals, Moved, Ended
<1>8. QED BY <1>1, <1>4, <1>5, <1>6, <1>7, Combine, Unchanging

LEMMA PriGetStep == ASSUME IInv, NEW r \in Req, PriGet(r) PROVE IInv'
<1>1. /\ UNCHANGED <<stores, arg, id, new, num, past>>
      /\ pc[r] = "priGet" /\ RequestOK(r) /\ TypeOK /\ id[r] \in Ids
  BY DEF PriGet, At, IInv, RequestOK, LocalsOf
<1>2. ASSUME TypeOK', \A q \in Req \ {r} : Same(q), RequestOK(r)' PROVE IInv'
  BY <1>1, <1>2, Quiet DEF stores, caches
<1>3. CASE Goto(r, "priDb") /\ UNCHANGED row
  <2>1. Moved(r, "priDb") BY <1>1, <1>3, GotoEffect DEF Steps
  <2>2. TypeOK' BY <2>1, <1>1, <1>3 DEF TypeOK, stores, Moved
  <2>3. \A q \in Req \ {r} : Same(q) BY <1>1, <1>3, <2>1 DEF Same, Moved, OthersStay
  <2>4. RequestOK(r)'
    BY <2>1, <1>1, <1>3 DEF RequestOK, RoleOf, LocalsOf, AskedBy, ExistingOf, Answered, Stored, stores, Moved
  <2>5. QED BY <1>2, <2>2, <2>3, <2>4
<1>4. CASE /\ cacheId[id[r]] # NoRow
           /\ Goto(r, Return(r))
           /\ row' = [row EXCEPT ![r] = cacheId[id[r]]]
  <2>1. Moved(r, Return(r)) BY <1>1, <1>4, GotoEffect, ReturnStep DEF Steps
  <2>2. /\ row' \in [Req -> Row \union {NoRow}] /\ row'[r] = cacheId[id[r]]
        /\ \A q \in Req \ {r} : row'[q] = row[q]
    BY <1>1, <1>4 DEF TypeOK
  <2>3. [id |-> id[r], row |-> cacheId[id[r]]] \in past
    BY <1>1, <1>4 DEF IInv, StoresOK, CacheCommitted
  <2>4. TypeOK' BY <2>1, <2>2, <1>1 DEF TypeOK, stores, Moved
  <2>5. \A q \in Req \ {r} : Same(q) BY <1>1, <2>1, <2>2 DEF Same, Moved, OthersStay
  <2>6. RequestOK(r)'
    BY <2>1, <2>2, <2>3, <1>1, <1>4, ReturnStep
       DEF RequestOK, RoleOf, LocalsOf, AskedBy, ExistingOf, Answered, Stored, stores, Moved
  <2>7. QED BY <1>2, <2>4, <2>5, <2>6
<1>5. QED BY <1>3, <1>4 DEF PriGet

LEMMA PriDbStep == ASSUME IInv, NEW r \in Req, PriDb(r) PROVE IInv'
<1>1. /\ UNCHANGED <<stores, arg, id, new, num, past>>
      /\ pc[r] = "priDb" /\ RequestOK(r) /\ TypeOK
      /\ row' = [row EXCEPT ![r] = table[id[r]]]
  BY DEF PriDb, At, IInv
<1>2. Moved(r, "priSet") BY <1>1, GotoEffect DEF PriDb, Steps
<1>3. id[r] \in Ids /\ table[id[r]] # NoRow /\ [id |-> id[r], row |-> table[id[r]]] \in past
  BY <1>1 DEF RequestOK, LocalsOf, AskedBy, Stored, IInv, StoresOK, TableCommitted
<1>4. /\ row' \in [Req -> Row \union {NoRow}] /\ row'[r] = table[id[r]]
      /\ \A q \in Req \ {r} : row'[q] = row[q]
  BY <1>1, <1>3 DEF TypeOK
<1>5. TypeOK' BY <1>1, <1>2, <1>4 DEF TypeOK, stores, Moved
<1>6. \A q \in Req \ {r} : Same(q) BY <1>1, <1>2, <1>4 DEF Same, Moved, OthersStay
<1>7. RequestOK(r)'
  BY <1>1, <1>2, <1>3, <1>4
     DEF RequestOK, RoleOf, LocalsOf, AskedBy, ExistingOf, Answered, Stored, stores, Moved
<1>8. QED BY <1>1, <1>5, <1>6, <1>7, Quiet DEF stores, caches

LEMMA PriSetStep == ASSUME IInv, NEW r \in Req, PriSet(r) PROVE IInv'
<1>1. /\ UNCHANGED <<table, cacheSurl, cacheMd5, delRetry, seq, bits, stream, now, locals, past>>
      /\ pc[r] = "priSet" /\ RequestOK(r) /\ TypeOK
  BY DEF PriSet, At, IInv
<1>2. Moved(r, Return(r)) BY <1>1, GotoEffect, ReturnStep DEF PriSet, Steps
<1>3. id[r] \in Ids /\ [id |-> id[r], row |-> row[r]] \in past
  BY <1>1 DEF RequestOK, LocalsOf, AskedBy
<1>4. StoresOK' /\ cacheId' \in [Ids -> Row \union {NoRow}]
  BY <1>1, <1>3, RowCached DEF PriSet
<1>5. TypeOK' BY <1>1, <1>2, <1>4 DEF TypeOK, locals, Moved
<1>6. \A q \in Req \ {r} : Same(q) BY <1>1, <1>2 DEF Same, Moved, OthersStay, locals
<1>7. RequestOK(r)'
  BY <1>1, <1>2, ReturnStep DEF RequestOK, RoleOf, LocalsOf, AskedBy, ExistingOf, Answered, Stored, locals, Moved
<1>8. QED BY <1>1, <1>4, <1>5, <1>6, <1>7, Combine, Unchanging

-----------------------------------------------------------------------------
(* Convert                                                                  *)

LEMMA ConvertBegins == ASSUME IInv, NEW r \in Converters, Convert(r) PROVE IInv'
<1>1. /\ UNCHANGED <<stores, id, row, new, num, past>>
      /\ pc[r] = "idle" /\ r \in Req /\ RequestOK(r) /\ TypeOK
  BY DEF Convert, At, IInv, Req
<1>2. PICK u \in Urls : arg' = [arg EXCEPT ![r] = [code |-> None, url |-> u, expireAt |-> None]]
  BY DEF Convert
<1>3. Moved(r, "idxGet") BY <1>1, GotoEffect DEF Convert, Steps
<1>4. /\ arg' \in [Req -> Arg] /\ arg'[r].url = u
      /\ \A q \in Req \ {r} : arg'[q] = arg[q]
  BY <1>1, <1>2 DEF TypeOK, Arg
<1>5. TypeOK' BY <1>1, <1>3, <1>4 DEF TypeOK, stores, Moved
<1>6. \A q \in Req \ {r} : Same(q) BY <1>1, <1>3, <1>4 DEF Same, Moved, OthersStay
<1>7. RequestOK(r)'
  BY <1>1, <1>3, <1>4, MarkersAssumption
     DEF RequestOK, RoleOf, LocalsOf, AskedBy, ExistingOf, Answered, Stored, stores, Moved
<1>8. QED BY <1>1, <1>5, <1>6, <1>7, Quiet DEF stores, caches

LEMMA DedupeStep == ASSUME IInv, NEW r \in Req, Dedupe(r) PROVE IInv'
<1>1. /\ UNCHANGED <<stores, locals, past>>
      /\ pc[r] = "dedupe" /\ RequestOK(r) /\ TypeOK
  BY DEF Dedupe, At, IInv
<1>2. r \in Converters /\ id[r] \in Ids /\ row[r] \in Row
  BY <1>1 DEF RequestOK, LocalsOf, RoleOf, TypeOK
<1>3. Ended(r, "existing", row[r].surl, None)
  BY <1>1, <1>2, FinishEffect DEF Dedupe, Kinds, Row
<1>4. \E v \in past : v.row.surl = row[r].surl /\ v.row.md5 = arg[r].url
  <2>1. PICK v \in past : v.id = id[r] /\ v.row.md5 = arg[r].url
    BY <1>1, <1>2 DEF RequestOK, AskedBy
  <2>2. [id |-> id[r], row |-> row[r]] \in past
    BY <1>1, <1>2 DEF RequestOK, AskedBy, LocalsOf
  <2>3. v.row.surl = table[v.id].surl BY DEF IInv, StoresOK, VersionsOfOneLink
  <2>4. row[r].surl = table[id[r]].surl
    <3>1. \A w \in past : w.row.surl = table[w.id].surl BY DEF IInv, StoresOK, VersionsOfOneLink
    <3>2. QED BY <2>2, <3>1
  <2>5. QED BY <2>1, <2>3, <2>4
<1>5. TypeOK' BY <1>1, <1>3 DEF TypeOK, stores, locals, Ended
<1>6. \A q \in Req \ {r} : Same(q) BY <1>1, <1>3 DEF Same, locals, Ended, OthersStay
<1>7. RoleOf(r)' /\ LocalsOf(r)' /\ AskedBy(r)'
  BY <1>1, <1>3 DEF RequestOK, RoleOf, LocalsOf, AskedBy, Stored, stores, locals, Ended
<1>8. ExistingOf(r)'
  BY <1>1, <1>3, <1>4 DEF ExistingOf, Ended, locals
<1>9. QED BY <1>1, <1>5, <1>6, <1>7, <1>8, Quiet DEF RequestOK, stores, caches

LEMMA SelfCheckStep == ASSUME IInv, NEW r \in Req, SelfCheck(r) PROVE IInv'
<1>1. /\ UNCHANGED <<stores, locals, past>>
      /\ pc[r] = "selfCheck" /\ RequestOK(r) /\ TypeOK
  BY DEF SelfCheck, At, IInv
<1>2. Moved(r, "next") BY <1>1, GotoEffect DEF SelfCheck, Steps
<1>3. TypeOK' BY <1>1, <1>2 DEF TypeOK, stores, locals, Moved
<1>4. \A q \in Req \ {r} : Same(q) BY <1>1, <1>2 DEF Same, locals, Moved, OthersStay
<1>5. RequestOK(r)'
  BY <1>1, <1>2 DEF RequestOK, RoleOf, LocalsOf, AskedBy, ExistingOf, Answered, Stored, stores, locals, Moved
<1>6. QED BY <1>1, <1>3, <1>4, <1>5, Quiet DEF stores, caches

LEMMA TakeNumberStep == ASSUME IInv, NEW r \in Req, TakeNumber(r) PROVE IInv'
<1>1. /\ UNCHANGED <<table, caches, delRetry, bits, stream, now, arg, id, row, new, past>>
      /\ pc[r] = "next" /\ RequestOK(r) /\ TypeOK
  BY DEF TakeNumber, At, IInv
<1>2. PICK n \in Codes : seq' \in Codes /\ Draw(r, n)
  <2>1. /\ seq \in Codes /\ 0 \in Codes
        /\ seq < MaxSeq => seq + 1 \in Codes
    BY <1>1, DataAssumption DEF TypeOK, Codes
  <2>2. CASE seq < MaxSeq /\ seq' = seq + 1 /\ Draw(r, seq + 1) BY <2>1, <2>2
  <2>3. CASE seq < MaxSeq /\ seq' = seq + 1 /\ Draw(r, 0) BY <2>1, <2>3
  <2>4. CASE UNCHANGED seq /\ Draw(r, 0) BY <2>1, <2>4
  <2>5. QED BY <2>2, <2>3, <2>4 DEF TakeNumber
<1>3. /\ Moved(r, "next") \/ Moved(r, "insert")
      /\ num' \in [Req -> Codes] /\ \A q \in Req \ {r} : num'[q] = num[q]
  BY <1>1, <1>2, GotoEffect DEF Draw, Steps, TypeOK
<1>4. TypeOK' BY <1>1, <1>2, <1>3 DEF TypeOK, caches, Moved
<1>5. \A q \in Req \ {r} : Same(q) BY <1>1, <1>3 DEF Same, Moved, OthersStay
<1>6. RequestOK(r)'
  BY <1>1, <1>3 DEF RequestOK, RoleOf, LocalsOf, AskedBy, ExistingOf, Answered, Stored, Moved
<1>7. QED BY <1>1, <1>4, <1>5, <1>6, Quiet

(* Committing a version that keeps its row's code, and no key of another row *)
LEMMA Committed ==
    ASSUME IInv, NEW i \in Ids, NEW x \in Row, Commit(i, x), ~Clashes(i, x), x.md5 = x.lurl,
           Stored(i) => x.surl = table[i].surl,
           UNCHANGED <<caches, delRetry, seq, bits, stream, now>>
    PROVE  /\ Grows /\ StoresOK'
           /\ table' \in [Ids -> Row \union {NoRow}] /\ table'[i] = x /\ past' \subseteq Version
<1>0. x # NoRow BY MarkersAssumption
<1>1. /\ table' \in [Ids -> Row \union {NoRow}] /\ past' \subseteq Version
      /\ table'[i] = x /\ \A j \in Ids \ {i} : table'[j] = table[j]
      /\ past' = past \union {[id |-> i, row |-> x]}
  BY DEF IInv, TypeOK, Commit, Version
<1>2. Grows BY <1>0, <1>1 DEF Grows, Stored
<1>3. TableCommitted' BY <1>1 DEF IInv, StoresOK, TableCommitted, Stored
<1>4. CacheCommitted' BY <1>1 DEF IInv, StoresOK, CacheCommitted, caches
<1>5. VersionsOfOneLink'
  <2>1. SUFFICES ASSUME NEW v \in past' PROVE /\ table'[v.id] # NoRow
                                              /\ v.row.surl = table'[v.id].surl
                                              /\ v.row.md5 = v.row.lurl
    BY DEF VersionsOfOneLink, Stored
  <2>2. CASE v \in past
    <3>1. /\ v.id \in Ids /\ Stored(v.id) /\ v.row.surl = table[v.id].surl /\ v.row.md5 = v.row.lurl
      BY <2>2 DEF IInv, TypeOK, Version, StoresOK, VersionsOfOneLink
    <3>2. QED BY <3>1, <1>2 DEF Grows
  <2>3. CASE v = [id |-> i, row |-> x] BY <2>3, <1>0, <1>1
  <2>4. QED BY <2>2, <2>3, <1>1
<1>6. IndexesPointRight'
  <2>1. ASSUME NEW c \in Codes, cacheSurl[c] \in Ids
        PROVE  table'[cacheSurl[c]] # NoRow /\ Fold[table'[cacheSurl[c]].surl] = Fold[c]
    BY <2>1, <1>2 DEF IInv, StoresOK, IndexesPointRight, Grows
  <2>2. ASSUME NEW u \in Urls, cacheMd5[u] \in Ids
        PROVE  \E v \in past' : v.id = cacheMd5[u] /\ v.row.md5 = u
    BY <2>2, <1>2 DEF IInv, StoresOK, IndexesPointRight, Grows
  <2>3. QED BY <2>1, <2>2 DEF IndexesPointRight, Stored, caches
<1>7. UniqueKeys(table)'
  <2>1. SUFFICES ASSUME NEW j \in Ids, NEW k \in Ids, j # k, table'[j] # NoRow, table'[k] # NoRow
                 PROVE  Fold[table'[j].surl] # Fold[table'[k].surl] /\ table'[j].md5 # table'[k].md5
    BY DEF UniqueKeys
  <2>2. CASE j # i /\ k # i BY <2>1, <2>2, <1>1 DEF IInv, StoresOK, UniqueKeys
  <2>3. CASE j = i BY <2>1, <2>3, <1>1 DEF Clashes
  <2>4. CASE k = i BY <2>1, <2>4, <1>1 DEF Clashes
  <2>5. QED BY <2>2, <2>3, <2>4
<1>8. QED BY <1>1, <1>2, <1>3, <1>4, <1>5, <1>6, <1>7 DEF StoresOK

LEMMA InsertStep == ASSUME IInv, NEW r \in Req, Insert(r) PROVE IInv'
<1>1. /\ UNCHANGED <<caches, delRetry, seq, bits, stream, now, locals>>
      /\ pc[r] = "insert" /\ RequestOK(r) /\ TypeOK
  BY DEF Insert, At, IInv
<1> DEFINE x == [surl |-> num[r], lurl |-> arg[r].url, md5 |-> arg[r].url, expireAt |-> Never]
<1>2. PICK i \in Ids : /\ NextId(i)
                       /\ IF Clashes(i, x)
                          THEN Finish(r, "error", None, None) /\ UNCHANGED <<table, past>>
                          ELSE Commit(i, x) /\ Goto(r, "insDel")
  BY DEF Insert
<1>3. x \in Row BY <1>1 DEF RequestOK, RoleOf, TypeOK, Row
<1>4. CASE Clashes(i, x)
  <2>1. Ended(r, "error", None, None) BY <1>1, <1>2, <1>4, FinishEffect DEF Kinds
  <2>2. TypeOK' BY <2>1, <1>1, <1>2, <1>4 DEF TypeOK, caches, locals, Ended
  <2>3. \A q \in Req \ {r} : Same(q) BY <1>1, <2>1 DEF Same, locals, Ended, OthersStay
  <2>4. UNCHANGED <<table, past>> BY <1>2, <1>4
  <2>5. RequestOK(r)'
    BY <2>1, <2>4, <1>1 DEF RequestOK, RoleOf, LocalsOf, AskedBy, ExistingOf, Answered, Stored, locals, Ended
  <2>6. QED BY <1>1, <2>2, <2>3, <2>4, <2>5, Quiet
<1>5. CASE ~Clashes(i, x)
  <2>1. Moved(r, "insDel") /\ Commit(i, x) BY <1>1, <1>2, <1>5, GotoEffect DEF Steps
  <2>2. /\ Grows /\ StoresOK'
        /\ table' \in [Ids -> Row \union {NoRow}] /\ past' \subseteq Version
    <3>1. ~Stored(i) BY <1>2 DEF NextId, Stored
    <3>2. x.md5 = x.lurl OBVIOUS
    <3> HIDE DEF x
    <3>3. QED BY <1>1, <1>3, <1>5, <2>1, <3>1, <3>2, Committed
  <2>3. TypeOK' BY <2>1, <2>2, <1>1 DEF TypeOK, caches, locals, Moved
  <2>4. \A q \in Req \ {r} : Same(q) BY <1>1, <2>1 DEF Same, locals, Moved, OthersStay
  <2>5. AskedBy(r)'
    <3>1. CASE id[r] \notin Ids BY <3>1, <1>1 DEF AskedBy, locals
    <3>2. CASE id[r] \in Ids
      BY <3>2, <1>1, <2>2 DEF RequestOK, AskedBy, Stored, Grows, locals
    <3>3. QED BY <3>1, <3>2
  <2>6. (RoleOf(r) /\ LocalsOf(r) /\ ExistingOf(r))'
    BY <2>1, <1>1 DEF RequestOK, RoleOf, LocalsOf, ExistingOf, Answered, locals, Moved
  <2>7. QED BY <2>2, <2>3, <2>4, <2>5, <2>6, Combine DEF RequestOK
<1>6. QED BY <1>4, <1>5

LEMMA DropEffect ==
    ASSUME IInv, NEW k \in Keys, Drop(k)
    PROVE  /\ Shrinks
           /\ cacheId' \in [Ids -> Row \union {NoRow}]
           /\ cacheSurl' \in [Codes -> Ids \union {Miss, Hole}]
           /\ cacheMd5' \in [Urls -> Ids \union {Miss, Hole}]
<1>1. k.id \in Ids \union {Miss} /\ k.surl \in Codes /\ k.md5 \in Urls BY DEF Keys
<1>2. QED BY <1>1 DEF Drop, Shrinks, IInv, TypeOK

(* Deleting keys after a statement, or queueing their deletion *)
LEMMA DelCacheEffect ==
    ASSUME IInv, NEW k \in Keys, DelCache(k), UNCHANGED <<table, past>>
    PROVE  /\ StoresOK' /\ delRetry' \subseteq Keys
           /\ cacheId' \in [Ids -> Row \union {NoRow}]
           /\ cacheSurl' \in [Codes -> Ids \union {Miss, Hole}]
           /\ cacheMd5' \in [Urls -> Ids \union {Miss, Hole}]
<1>1. CASE Drop(k) /\ UNCHANGED delRetry
  BY <1>1, DropEffect, StoresShrink DEF IInv, TypeOK
<1>2. CASE delRetry' = delRetry \union {k} /\ UNCHANGED caches
  BY <1>2, StoresShrink DEF IInv, TypeOK, caches, Shrinks
<1>3. QED BY <1>1, <1>2 DEF DelCache

LEMMA InsDelStep == ASSUME IInv, NEW r \in Req, InsDel(r) PROVE IInv'
<1>1. /\ UNCHANGED <<table, seq, bits, stream, now, locals, past>>
      /\ pc[r] = "insDel" /\ RequestOK(r) /\ TypeOK
  BY DEF InsDel, At, IInv
<1>2. Moved(r, "bloom") BY <1>1, GotoEffect DEF InsDel, Steps
<1>3. [id |-> Miss, surl |-> num[r], md5 |-> arg[r].url] \in Keys
  BY <1>1 DEF RequestOK, RoleOf, TypeOK, Keys
<1>4. /\ StoresOK' /\ delRetry' \subseteq Keys
      /\ cacheId' \in [Ids -> Row \union {NoRow}]
      /\ cacheSurl' \in [Codes -> Ids \union {Miss, Hole}]
      /\ cacheMd5' \in [Urls -> Ids \union {Miss, Hole}]
  BY <1>1, <1>3, DelCacheEffect DEF InsDel
<1>5. TypeOK' BY <1>1, <1>2, <1>4 DEF TypeOK, locals, Moved
<1>6. \A q \in Req \ {r} : Same(q) BY <1>1, <1>2 DEF Same, Moved, OthersStay, locals
<1>7. RequestOK(r)'
  BY <1>1, <1>2 DEF RequestOK, RoleOf, LocalsOf, AskedBy, ExistingOf, Answered, Stored, locals, Moved
<1>8. QED BY <1>1, <1>4, <1>5, <1>6, <1>7, Combine, Unchanging

LEMMA BloomAddStep == ASSUME IInv, NEW r \in Req, BloomAdd(r) PROVE IInv'
<1>1. /\ UNCHANGED <<table, caches, delRetry, seq, stream, now, locals, past>>
      /\ pc[r] = "bloom" /\ RequestOK(r) /\ TypeOK
      /\ bits' = bits \union Hash[num[r]]
  BY DEF BloomAdd, At, IInv
<1>2. num[r] \in Codes BY <1>1 DEF TypeOK
<1>3. Ended(r, "created", num[r], None) BY <1>1, <1>2, FinishEffect DEF BloomAdd, Kinds
<1>4. TypeOK' BY <1>1, <1>2, <1>3 DEF TypeOK, caches, locals, Ended
<1>5. \A q \in Req \ {r} : Same(q) BY <1>1, <1>3 DEF Same, locals, Ended, OthersStay
<1>6. RequestOK(r)'
  BY <1>1, <1>3 DEF RequestOK, RoleOf, LocalsOf, AskedBy, ExistingOf, Answered, Stored, locals, Ended
<1>7. QED BY <1>1, <1>4, <1>5, <1>6, Quiet

-----------------------------------------------------------------------------
(* Update                                                                   *)

LEMMA UpdateBegins == ASSUME IInv, NEW r \in Updaters, Update(r) PROVE IInv'
<1>1. /\ UNCHANGED <<stores, id, row, new, num, past>>
      /\ pc[r] = "idle" /\ r \in Req /\ r \notin Converters /\ RequestOK(r) /\ TypeOK
  BY RequestsDisjoint DEF Update, At, IInv, Req
<1>2. PICK a \in Arg : /\ a.code \in Codes
                       /\ arg' = [arg EXCEPT ![r] = a]
                       /\ Finish(r, "error", None, None) \/ Goto(r, "idxGet")
  <2>1. PICK c \in AskCodes, u \in Urls \union {None}, e \in Times \union {None} :
             /\ arg' = [arg EXCEPT ![r] = [code |-> c, url |-> u, expireAt |-> e]]
             /\ IF u = None /\ e = None THEN Finish(r, "error", None, None) ELSE Goto(r, "idxGet")
    BY DEF Update
  <2>2. [code |-> c, url |-> u, expireAt |-> e] \in Arg /\ c \in Codes BY DataAssumption DEF Arg
  <2>3. QED BY <2>1, <2>2
<1>3. Ended(r, "error", None, None) \/ Moved(r, "idxGet")
  BY <1>1, <1>2, GotoEffect, FinishEffect DEF Steps, Kinds
<1>4. /\ arg' \in [Req -> Arg] /\ arg'[r].code \in Codes
      /\ \A q \in Req \ {r} : arg'[q] = arg[q]
  BY <1>1, <1>2 DEF TypeOK
<1>5. TypeOK' BY <1>1, <1>3, <1>4 DEF TypeOK, stores, Moved, Ended
<1>6. \A q \in Req \ {r} : Same(q) BY <1>1, <1>3, <1>4 DEF Same, Moved, Ended, OthersStay
<1>7. RequestOK(r)'
  BY <1>1, <1>3, <1>4, MarkersAssumption
     DEF RequestOK, RoleOf, LocalsOf, AskedBy, ExistingOf, Answered, Stored, stores, Moved, Ended
<1>8. QED BY <1>1, <1>5, <1>6, <1>7, Quiet DEF stores, caches

LEMMA MergeStep == ASSUME IInv, NEW r \in Req, Merge(r) PROVE IInv'
<1>1. /\ UNCHANGED <<stores, arg, id, row, num, past>>
      /\ pc[r] = "merge" /\ RequestOK(r) /\ TypeOK
      /\ new' = [new EXCEPT ![r] = Merged(r)]
  BY DEF Merge, At, IInv
<1>2. Moved(r, "priGet") BY <1>1, GotoEffect DEF Merge, Steps
<1>3. /\ row[r] \in Row /\ id[r] \in Ids /\ arg[r] \in Arg
      /\ [id |-> id[r], row |-> row[r]] \in past
  BY <1>1 DEF RequestOK, LocalsOf, AskedBy, TypeOK
<1>4. row[r].surl = table[id[r]].surl /\ row[r].md5 = row[r].lurl
  <2>1. \A w \in past : w.row.surl = table[w.id].surl /\ w.row.md5 = w.row.lurl
    BY DEF IInv, StoresOK, VersionsOfOneLink
  <2>2. QED BY <1>3, <2>1
<1>5. Merged(r) \in Row /\ Merged(r).surl = row[r].surl /\ Merged(r).md5 = Merged(r).lurl
  <2>1. /\ arg[r].url \in Urls \union {None} /\ arg[r].expireAt \in Times \union {None}
        /\ row[r].surl \in Codes /\ row[r].lurl \in Urls /\ row[r].md5 \in Urls
        /\ row[r].expireAt \in Times \union {Never}
    BY <1>3 DEF Arg, Row
  <2>2. QED BY <2>1, <1>4 DEF Merged, Row
<1>6. /\ new' \in [Req -> Row \union {NoRow}] /\ new'[r] = Merged(r)
      /\ \A q \in Req \ {r} : new'[q] = new[q]
  BY <1>1, <1>5 DEF TypeOK
<1>7. TypeOK' BY <1>1, <1>2, <1>6 DEF TypeOK, stores, Moved
<1>8. \A q \in Req \ {r} : Same(q) BY <1>1, <1>2, <1>6 DEF Same, Moved, OthersStay
<1>9. RequestOK(r)'
  BY <1>1, <1>2, <1>3, <1>4, <1>5, <1>6
     DEF RequestOK, RoleOf, LocalsOf, AskedBy, ExistingOf, Answered, Stored, stores, Moved
<1>10. QED BY <1>1, <1>7, <1>8, <1>9, Quiet DEF stores, caches

LEMMA WriteStep == ASSUME IInv, NEW r \in Req, Write(r) PROVE IInv'
<1>1. /\ UNCHANGED <<caches, delRetry, seq, bits, stream, now, locals>>
      /\ pc[r] = "write" /\ RequestOK(r) /\ TypeOK
  BY DEF Write, At, IInv
<1>2. /\ id[r] \in Ids /\ Stored(id[r]) /\ new[r] \in Row
      /\ new[r].surl = table[id[r]].surl /\ new[r].md5 = new[r].lurl
  BY <1>1 DEF RequestOK, LocalsOf, AskedBy, TypeOK
<1>3. CASE Clashes(id[r], new[r])
  <2>1. Ended(r, "error", None, None) /\ UNCHANGED <<table, past>>
    BY <1>1, <1>3, FinishEffect DEF Write, Kinds
  <2>2. TypeOK' BY <2>1, <1>1 DEF TypeOK, caches, locals, Ended
  <2>3. \A q \in Req \ {r} : Same(q) BY <1>1, <2>1 DEF Same, locals, Ended, OthersStay
  <2>4. RequestOK(r)'
    BY <2>1, <1>1 DEF RequestOK, RoleOf, LocalsOf, AskedBy, ExistingOf, Answered, Stored, locals, Ended
  <2>5. QED BY <1>1, <2>1, <2>2, <2>3, <2>4, Quiet
<1>4. CASE ~Clashes(id[r], new[r])
  <2>1. Moved(r, "updDel") /\ Commit(id[r], new[r]) BY <1>1, <1>4, GotoEffect DEF Write, Steps
  <2>2. /\ Grows /\ StoresOK' /\ table'[id[r]] = new[r]
        /\ table' \in [Ids -> Row \union {NoRow}] /\ past' \subseteq Version
    BY <1>1, <1>2, <1>4, <2>1, Committed
  <2>3. TypeOK' BY <2>1, <2>2, <1>1 DEF TypeOK, caches, locals, Moved
  <2>4. \A q \in Req \ {r} : Same(q) BY <1>1, <2>1 DEF Same, locals, Moved, OthersStay
  <2>5. AskedBy(r)' BY <1>1, <1>2, <2>2 DEF RequestOK, AskedBy, Stored, Grows, locals
  <2>6. (RoleOf(r) /\ LocalsOf(r) /\ ExistingOf(r))'
    BY <2>1, <1>1 DEF RequestOK, RoleOf, LocalsOf, ExistingOf, Answered, locals, Moved
  <2>7. QED BY <2>2, <2>3, <2>4, <2>5, <2>6, Combine DEF RequestOK
<1>5. QED BY <1>3, <1>4

LEMMA UpdDelStep == ASSUME IInv, NEW r \in Req, UpdDel(r) PROVE IInv'
<1>1. /\ UNCHANGED <<table, seq, bits, stream, now, locals, past>>
      /\ pc[r] = "updDel" /\ RequestOK(r) /\ TypeOK
  BY DEF UpdDel, At, IInv
<1>2. /\ id[r] \in Ids /\ row[r] \in Row /\ new[r] \in Row /\ r \notin Converters /\ arg[r].code \in Codes
  BY <1>1, RequestsDisjoint DEF RequestOK, LocalsOf, RoleOf, TypeOK
<1>3. Ended(r, "updated", arg[r].code, new[r].lurl)
  BY <1>1, <1>2, FinishEffect DEF UpdDel, Kinds, Row
<1>4. /\ StoresOK' /\ delRetry' \subseteq Keys
      /\ cacheId' \in [Ids -> Row \union {NoRow}]
      /\ cacheSurl' \in [Codes -> Ids \union {Miss, Hole}]
      /\ cacheMd5' \in [Urls -> Ids \union {Miss, Hole}]
  <2>1. [id |-> id[r], surl |-> row[r].surl, md5 |-> row[r].md5] \in Keys BY <1>2 DEF Keys, Row
  <2>2. QED BY <1>1, <2>1, DelCacheEffect DEF UpdDel
<1>5. TypeOK' BY <1>1, <1>3, <1>4 DEF TypeOK, locals, Ended
<1>6. \A q \in Req \ {r} : Same(q) BY <1>1, <1>3 DEF Same, Ended, OthersStay, locals
<1>7. RequestOK(r)'
  BY <1>1, <1>2, <1>3 DEF RequestOK, RoleOf, LocalsOf, AskedBy, ExistingOf, Answered, Stored, locals, Ended
<1>8. QED BY <1>1, <1>4, <1>5, <1>6, <1>7, Combine, Unchanging

-----------------------------------------------------------------------------
(* Show                                                                     *)

LEMMA ShowBegins == ASSUME IInv, NEW r \in Showers, Show(r) PROVE IInv'
<1>1. /\ UNCHANGED <<stores, id, row, new, num, past>>
      /\ pc[r] = "idle" /\ r \in Req /\ r \notin Converters /\ RequestOK(r) /\ TypeOK
  BY RequestsDisjoint DEF Show, At, IInv, Req
<1>2. PICK c \in AskCodes : arg' = [arg EXCEPT ![r] = [code |-> c, url |-> None, expireAt |-> None]]
  BY DEF Show
<1>3. Moved(r, "exists") BY <1>1, GotoEffect DEF Show, Steps
<1>4. /\ arg' \in [Req -> Arg] /\ arg'[r].code \in Codes
      /\ \A q \in Req \ {r} : arg'[q] = arg[q]
  BY <1>1, <1>2, DataAssumption DEF TypeOK, Arg
<1>5. TypeOK' BY <1>1, <1>3, <1>4 DEF TypeOK, stores, Moved
<1>6. \A q \in Req \ {r} : Same(q) BY <1>1, <1>3, <1>4 DEF Same, Moved, OthersStay
<1>7. RequestOK(r)'
  BY <1>1, <1>3, <1>4, MarkersAssumption
     DEF RequestOK, RoleOf, LocalsOf, AskedBy, ExistingOf, Answered, Stored, stores, Moved
<1>8. QED BY <1>1, <1>5, <1>6, <1>7, Quiet DEF stores, caches

LEMMA ExistsStep == ASSUME IInv, NEW r \in Req, Exists(r) PROVE IInv'
<1>1. /\ UNCHANGED <<stores, locals, past>>
      /\ pc[r] = "exists" /\ RequestOK(r) /\ TypeOK
  BY DEF Exists, At, IInv
<1>2. Ended(r, "notFound", None, None) \/ Moved(r, "idxGet")
  BY <1>1, GotoEffect, FinishEffect DEF Exists, Steps, Kinds
<1>3. TypeOK' BY <1>1, <1>2 DEF TypeOK, stores, locals, Moved, Ended
<1>4. \A q \in Req \ {r} : Same(q) BY <1>1, <1>2 DEF Same, locals, Moved, Ended, OthersStay
<1>5. RequestOK(r)'
  BY <1>1, <1>2 DEF RequestOK, RoleOf, LocalsOf, AskedBy, ExistingOf, Answered, Stored, stores, locals, Moved, Ended
<1>6. QED BY <1>1, <1>3, <1>4, <1>5, Quiet DEF stores, caches

LEMMA CheckStep == ASSUME IInv, NEW r \in Req, Check(r) PROVE IInv'
<1>1. /\ UNCHANGED <<table, caches, delRetry, seq, bits, now, locals, past>>
      /\ pc[r] = "check" /\ RequestOK(r) /\ TypeOK
  BY DEF Check, At, IInv
<1>2. row[r] \in Row /\ r \in Showers /\ arg[r].code \in Codes
  BY <1>1, RequestsDisjoint DEF RequestOK, LocalsOf, RoleOf, TypeOK
<1>3. Ended(r, "notFound", None, None) \/ Ended(r, "redirect", None, row[r].lurl)
  BY <1>1, <1>2, FinishEffect DEF Check, Kinds, Row
<1>4. stream' \in Seq(Event)
  <2>1. [eventId |-> r, shortCode |-> arg[r].code] \in Event BY <1>2 DEF Event
  <2>2. stream' = stream \/ stream' = Append(stream, [eventId |-> r, shortCode |-> arg[r].code])
    BY DEF Check
  <2>3. stream \in Seq(Event) BY <1>1 DEF TypeOK
  <2>4. QED BY <2>1, <2>2, <2>3
<1>5. TypeOK' BY <1>1, <1>3, <1>4 DEF TypeOK, caches, locals, Ended
<1>6. \A q \in Req \ {r} : Same(q) BY <1>1, <1>3 DEF Same, locals, Ended, OthersStay
<1>7. RequestOK(r)'
  BY <1>1, <1>3 DEF RequestOK, RoleOf, LocalsOf, AskedBy, ExistingOf, Answered, Stored, locals, Ended
<1>8. QED BY <1>1, <1>5, <1>6, <1>7, Quiet

-----------------------------------------------------------------------------
(* The cache's own steps and the clock                                      *)

LEMMA NobodyMoves ==
    ASSUME IInv, TypeOK', StoresOK', UNCHANGED <<table, pc, locals, answer, past>> PROVE IInv'
<1>1. Grows BY Unchanging
<1>2. \A q \in Req : Same(q) BY DEF Same, locals
<1>3. \A q \in Req : RequestOK(q)' BY <1>1, <1>2, Others DEF IInv
<1>4. QED BY <1>3 DEF IInv

LEMMA RetryDelStep == ASSUME IInv, NEW k \in delRetry, RetryDel(k) PROVE IInv'
<1>1. k \in Keys BY DEF IInv, TypeOK
<1>2. TypeOK' BY <1>1, DropEffect DEF RetryDel, IInv, TypeOK, locals
<1>3. StoresOK' BY <1>1, DropEffect, StoresShrink DEF RetryDel, IInv
<1>4. QED BY <1>2, <1>3, NobodyMoves DEF RetryDel

LEMMA ExpiryStep == ASSUME IInv, Expiry PROVE IInv'
<1>1. /\ UNCHANGED <<table, delRetry, seq, bits, stream, now, pc, locals, answer, past>>
      /\ cacheId' \in [Ids -> Row \union {NoRow}]
      /\ cacheSurl' \in [Codes -> Ids \union {Miss, Hole}]
      /\ cacheMd5' \in [Urls -> Ids \union {Miss, Hole}]
      /\ Shrinks
  <2>1. CASE \E i \in Ids : ExpireId(i) BY <2>1 DEF ExpireId, IInv, TypeOK, Shrinks
  <2>2. CASE \E c \in Codes : ExpireSurl(c) BY <2>2 DEF ExpireSurl, IInv, TypeOK, Shrinks
  <2>3. CASE \E u \in Urls : ExpireMd5(u) BY <2>3 DEF ExpireMd5, IInv, TypeOK, Shrinks
  <2>4. QED BY <2>1, <2>2, <2>3 DEF Expiry
<1>2. TypeOK' BY <1>1 DEF IInv, TypeOK, locals
<1>3. StoresOK' BY <1>1, StoresShrink DEF IInv
<1>4. QED BY <1>1, <1>2, <1>3, NobodyMoves

LEMMA TickStep == ASSUME IInv, Tick PROVE IInv'
<1>1. now' \in Times BY DataAssumption DEF Tick, IInv, TypeOK, Times
<1>2. TypeOK' BY <1>1 DEF Tick, IInv, TypeOK, caches, locals
<1>3. StoresOK' BY StoresShrink DEF Tick, IInv, Shrinks, caches
<1>4. QED BY <1>2, <1>3, NobodyMoves DEF Tick

-----------------------------------------------------------------------------
LEMMA Initially == Init => IInv
<1> SUFFICES ASSUME Init PROVE IInv OBVIOUS
<1> USE InitTableAssumption, DataAssumption, MarkersAssumption
<1>1. past \subseteq Version BY DEF Init, Version
<1>2. bits \subseteq UNION {Hash[c] : c \in Codes}
  <2>1. \A i \in Ids : InitTable[i] # NoRow => InitTable[i].surl \in Codes BY DEF Row
  <2>2. QED BY <2>1 DEF Init, InitHashes
<1>3. TypeOK
  <2>1. /\ table \in [Ids -> Row \union {NoRow}] /\ cacheId \in [Ids -> Row \union {NoRow}]
        /\ cacheSurl \in [Codes -> Ids \union {Miss, Hole}]
        /\ cacheMd5 \in [Urls -> Ids \union {Miss, Hole}]
        /\ delRetry \subseteq Keys /\ seq \in Codes /\ stream \in Seq(Event) /\ now \in Times
    BY DEF Init, Times
  <2>2. pc \in [Req -> Steps] /\ arg \in [Req -> Arg] /\ answer \in [Req -> Answer]
    BY DEF Init, Steps, Arg, Answer, Kinds
  <2>3. /\ id \in [Req -> Ids \union {Miss}] /\ num \in [Req -> Codes]
        /\ row \in [Req -> Row \union {NoRow}] /\ new \in [Req -> Row \union {NoRow}]
    BY DEF Init, Codes
  <2>4. QED BY <1>1, <1>2, <2>1, <2>2, <2>3 DEF TypeOK
<1>4. StoresOK
  <2>1. TableCommitted /\ CacheCommitted BY DEF Init, TableCommitted, CacheCommitted, Stored
  <2>2. VersionsOfOneLink BY DEF Init, VersionsOfOneLink, Stored
  <2>3. IndexesPointRight BY DEF Init, IndexesPointRight
  <2>4. UniqueKeys(table) BY DEF Init
  <2>5. QED BY <2>1, <2>2, <2>3, <2>4 DEF StoresOK
<1>5. \A r \in Req : RequestOK(r)
  BY DEF Init, RequestOK, RoleOf, LocalsOf, AskedBy, ExistingOf, Answered
<1>6. QED BY <1>3, <1>4, <1>5 DEF IInv

LEMMA Stutters == ASSUME IInv, UNCHANGED vars PROVE IInv'
<1>1. TypeOK' BY DEF vars, stores, locals, IInv, TypeOK
<1>2. StoresOK' BY StoresShrink DEF vars, stores, locals, IInv, Shrinks
<1>3. QED BY <1>1, <1>2, NobodyMoves DEF vars, stores

LEMMA Preserved == IInv /\ [Next]_vars => IInv'
<1> SUFFICES ASSUME IInv, [Next]_vars PROVE IInv' OBVIOUS
<1>1. CASE Begin BY <1>1, ConvertBegins, UpdateBegins, ShowBegins DEF Begin
<1>2. ASSUME NEW r \in Req, Step(r) PROVE IInv'
  <2>1. CASE Lookup(r)
    BY <2>1, IdxGetStep, IdxDbStep, IdxPriStep, IdxSetStep, IdxHoleStep, PriGetStep, PriDbStep, PriSetStep DEF Lookup
  <2>2. CASE ConvertStep(r)
    BY <2>2, DedupeStep, SelfCheckStep, TakeNumberStep, InsertStep, InsDelStep, BloomAddStep DEF ConvertStep
  <2>3. CASE UpdateStep(r) BY <2>3, MergeStep, WriteStep, UpdDelStep DEF UpdateStep
  <2>4. CASE ShowStep(r) BY <2>4, ExistsStep, CheckStep DEF ShowStep
  <2>5. QED BY <1>2, <2>1, <2>2, <2>3, <2>4 DEF Step
<1>3. ASSUME NEW r \in Req, Fail(r) PROVE IInv' BY <1>3, FailStep
<1>4. CASE \E k \in delRetry : RetryDel(k) BY <1>4, RetryDelStep
<1>5. CASE Expiry BY <1>5, ExpiryStep
<1>6. CASE Tick BY <1>6, TickStep
<1>7. CASE UNCHANGED vars BY <1>7, Stutters
<1>8. QED BY <1>1, <1>2, <1>3, <1>4, <1>5, <1>6, <1>7 DEF Next

(* The invariant, for every value of the constants *)
THEOREM Invariance == Spec => []IInv
BY Initially, Preserved, PTL DEF Spec

(* Theorems: the invariant's consequences, each for the property of the same *)
(* name that TLC checks on small instances.                                  *)

(* Every variable keeps its type. *)
THEOREM TypeCorrect == Spec => []TypeOK
BY Invariance, PTL DEF IInv

(* No cache key and no handler ever holds another link's row. *)
THEOREM CopiesAreCommitted == Spec => []CopiesCommitted
<1>1. IInv => CopiesCommitted
  BY DEF IInv, StoresOK, TableCommitted, CacheCommitted, RequestOK, LocalsOf, AskedBy, CopiesCommitted
<1>2. QED BY <1>1, Invariance, PTL

(* The versions of an id are one link's, each with its own URL's digest. *)
THEOREM VersionsAreOfOneLink == Spec => []VersionsOfOneLink
<1>1. IInv => VersionsOfOneLink BY DEF IInv, StoresOK
<1>2. QED BY <1>1, Invariance, PTL

(* The index caches lead to the row that was asked for. *)
THEOREM IndexesAreRight == Spec => []IndexesPointRight
<1>1. IInv => IndexesPointRight BY DEF IInv, StoresOK
<1>2. QED BY <1>1, Invariance, PTL

(* Convert's answer "already converted" names a code that had that URL. *)
THEOREM ExistingIsTrue == Spec => []ExistingWasTrue
<1>1. IInv => ExistingWasTrue BY DEF IInv, RequestOK, ExistingOf, ExistingWasTrue, Req
<1>2. QED BY <1>1, Invariance, PTL

(* Only an insert and an update write the table: the one takes a free id,    *)
(* the other writes the code its row has.                                    *)
LEMMA StepGrows == IInv /\ [Next]_vars => Grows
<1> SUFFICES ASSUME IInv, [Next]_vars PROVE Grows OBVIOUS
<1>1. CASE UNCHANGED <<table, past>> BY <1>1, Unchanging
<1>2. ASSUME NEW r \in Req, Insert(r) PROVE Grows
  BY <1>2, Unchanging DEF Insert, Commit, NextId, Grows, Stored, IInv, TypeOK
<1>3. ASSUME NEW r \in Req, Write(r) PROVE Grows
  <2>1. /\ id[r] \in Ids /\ Stored(id[r]) /\ new[r].surl = table[id[r]].surl /\ new[r] # NoRow
    BY <1>3 DEF Write, At, IInv, RequestOK, LocalsOf, AskedBy
  <2>2. QED BY <1>3, <2>1, Unchanging DEF Write, Commit, Grows, Stored, IInv, TypeOK
<1>4. CASE Begin
  BY <1>4, <1>1 DEF Begin, Convert, Update, Show, stores
<1>5. ASSUME NEW r \in Req, Lookup(r) PROVE UNCHANGED <<table, past>>
  BY <1>5 DEF Lookup, IdxGet, IdxDb, IdxPri, IdxSet, IdxHole, PriGet, PriDb, PriSet, stores
<1>6. ASSUME NEW r \in Req, Dedupe(r) \/ SelfCheck(r) \/ TakeNumber(r) \/ InsDel(r) \/ BloomAdd(r)
      PROVE  UNCHANGED <<table, past>>
  BY <1>6 DEF Dedupe, SelfCheck, TakeNumber, InsDel, BloomAdd, stores
<1>7. ASSUME NEW r \in Req, Merge(r) \/ UpdDel(r) \/ ShowStep(r) \/ Fail(r)
      PROVE  UNCHANGED <<table, past>>
  BY <1>7 DEF Merge, UpdDel, ShowStep, Exists, Check, Fail, stores
<1>8. ASSUME Expiry \/ Tick \/ \E k \in delRetry : RetryDel(k) PROVE UNCHANGED <<table, past>>
  BY <1>8 DEF Expiry, ExpireId, ExpireSurl, ExpireMd5, Tick, RetryDel
<1>9. CASE UNCHANGED vars BY <1>9, <1>1 DEF vars, stores
<1>10. ASSUME NEW r \in Req, Step(r) PROVE Grows
  BY <1>10, <1>2, <1>3, <1>5, <1>6, <1>7, Unchanging DEF Step, ConvertStep, UpdateStep
<1>11. QED BY <1>4, <1>7, <1>8, <1>9, <1>10, Unchanging DEF Next

(* A row is never removed, and never handed to another code. *)
THEOREM RowsStay == Spec => RowsKeepTheirCode
<1>1. IInv /\ [Next]_vars =>
        [\A i \in Ids : Stored(i) => table'[i] # NoRow /\ table'[i].surl = table[i].surl]_vars
  BY StepGrows DEF Grows
<1>2. QED BY <1>1, Invariance, PTL DEF Spec, RowsKeepTheirCode

(* Only the last step of a show redirects *)
LEMMA OnlyCheckRedirects ==
    ASSUME IInv, [Next]_vars, NEW s \in Showers, ~Answered(s, "redirect"), Answered(s, "redirect")'
    PROVE  Check(s) /\ answer'[s] = [kind |-> "redirect", code |-> None, url |-> row[s].lurl]
<1>1. s \in Req /\ answer[s] \in Answer BY DEF Req, IInv, TypeOK
<1>2. ASSUME answer'[s] = answer[s] PROVE FALSE BY <1>2 DEF Answered
<1>3. ASSUME NEW r \in Req, NEW k, NEW c, NEW u, Finish(r, k, c, u), k # "redirect" PROVE FALSE
  BY <1>1, <1>3 DEF Finish, Answered, IInv, TypeOK
<1>4. ASSUME NEW r \in Req, NEW step, Goto(r, step) PROVE FALSE BY <1>2, <1>4 DEF Goto
<1>5. ASSUME Begin PROVE FALSE
  BY <1>5, <1>3, <1>4 DEF Begin, Convert, Update, Show, Req
<1>6. ASSUME NEW r \in Req, Lookup(r) PROVE FALSE
  BY <1>6, <1>3, <1>4 DEF Lookup, IdxGet, IdxDb, IdxPri, IdxSet, IdxHole, PriGet, PriDb, PriSet, NotFound
<1>7. ASSUME NEW r \in Req, ConvertStep(r) PROVE FALSE
  BY <1>7, <1>3, <1>4 DEF ConvertStep, Dedupe, SelfCheck, TakeNumber, Draw, Insert, InsDel, BloomAdd
<1>8. ASSUME NEW r \in Req, UpdateStep(r) \/ Exists(r) \/ Fail(r) PROVE FALSE
  BY <1>8, <1>3, <1>4 DEF UpdateStep, Merge, Write, UpdDel, Exists, Fail
<1>9. ASSUME Expiry \/ Tick \/ (\E k \in delRetry : RetryDel(k)) \/ UNCHANGED vars PROVE FALSE
  BY <1>9, <1>2 DEF Expiry, ExpireId, ExpireSurl, ExpireMd5, Tick, RetryDel, vars
<1>10. PICK r \in Req : Check(r)
  BY <1>5, <1>6, <1>7, <1>8, <1>9 DEF Next, Step, ShowStep
<1>11. r = s /\ answer'[s] = [kind |-> "redirect", code |-> None, url |-> row[s].lurl]
  BY <1>1, <1>2, <1>3, <1>10 DEF Check, Finish, IInv, TypeOK
<1>12. QED BY <1>10, <1>11

(* A redirect leads where the asked link led in one committed version that   *)
(* had not expired.                                                          *)
THEOREM RedirectsAreServed == Spec => RedirectsServeAVersion
<1>1. ASSUME IInv, [Next]_vars, NEW s \in Showers, ~Answered(s, "redirect"), Answered(s, "redirect")'
      PROVE  \E v \in past : /\ Fold[v.row.surl] = Fold[arg[s].code]
                             /\ v.row.lurl = answer'[s].url
                             /\ ~Expired(v.row)
  <2>1. Check(s) /\ answer'[s] = [kind |-> "redirect", code |-> None, url |-> row[s].lurl]
    BY <1>1, OnlyCheckRedirects
  <2>2. s \in Req /\ s \notin Converters /\ RequestOK(s) /\ pc[s] = "check"
    BY <1>1, <2>1, RequestsDisjoint DEF IInv, Req, Check, At
  <2>3. /\ [id |-> id[s], row |-> row[s]] \in past
        /\ Fold[table[id[s]].surl] = Fold[arg[s].code]
    BY <2>2 DEF RequestOK, LocalsOf, AskedBy
  <2>4. row[s].surl = table[id[s]].surl
    <3>1. \A w \in past : w.row.surl = table[w.id].surl BY <1>1 DEF IInv, StoresOK, VersionsOfOneLink
    <3>2. QED BY <2>3, <3>1
  <2>5. ~Expired(row[s])
    BY <2>1, <2>2, <1>1 DEF Check, Finish, IInv, TypeOK, Answered
  <2> DEFINE w == [id |-> id[s], row |-> row[s]]
  <2>6. w \in past /\ w.row = row[s] BY <2>3
  <2> HIDE DEF w
  <2>7. QED BY <2>1, <2>3, <2>4, <2>5, <2>6
<1>2. IInv /\ [Next]_vars =>
        [\A s \in Showers :
             ~Answered(s, "redirect") /\ Answered(s, "redirect")' =>
                 \E v \in past : /\ Fold[v.row.surl] = Fold[arg[s].code]
                                 /\ v.row.lurl = answer'[s].url
                                 /\ ~Expired(v.row)]_vars
  BY <1>1
<1>3. QED BY <1>2, Invariance, PTL DEF Spec, RedirectsServeAVersion

-----------------------------------------------------------------------------
(* What the row cache holds beside the table has a cause                     *)

(* A step of one request touches no other *)
LEMMA OneMoves ==
    ASSUME IInv, NEW r \in Req, NEW q \in Req \ {r},
           Step(r) \/ Fail(r) \/ Convert(r) \/ Update(r) \/ Show(r)
    PROVE  Same(q)
<1>1. ASSUME NEW s, Goto(r, s) PROVE pc'[q] = pc[q] /\ answer'[q] = answer[q]
  BY <1>1 DEF Goto, IInv, TypeOK
<1>2. ASSUME NEW k, NEW c, NEW u, Finish(r, k, c, u) PROVE pc'[q] = pc[q] /\ answer'[q] = answer[q]
  BY <1>2 DEF Finish, IInv, TypeOK
<1>3. NotFound(r) => pc'[q] = pc[q] /\ answer'[q] = answer[q]
  BY <1>1, <1>2 DEF NotFound
<1>4. CASE Lookup(r)
  BY <1>4, <1>1, <1>2, <1>3
     DEF Lookup, IdxGet, IdxDb, IdxPri, IdxSet, IdxHole, PriGet, PriDb, PriSet, Same, locals, IInv, TypeOK
<1>5. CASE ConvertStep(r)
  BY <1>5, <1>1, <1>2
     DEF ConvertStep, Dedupe, SelfCheck, TakeNumber, Draw, Insert, InsDel, BloomAdd, Same, locals, IInv, TypeOK
<1>6. CASE UpdateStep(r) \/ ShowStep(r) \/ Fail(r)
  BY <1>6, <1>1, <1>2
     DEF UpdateStep, Merge, Write, UpdDel, ShowStep, Exists, Check, Fail, Same, locals, IInv, TypeOK
<1>7. CASE Convert(r) \/ Update(r) \/ Show(r)
  BY <1>7, <1>1, <1>2 DEF Convert, Update, Show, Same, IInv, TypeOK
<1>8. QED BY <1>4, <1>5, <1>6, <1>7 DEF Step

(* A request moves by a step of its own, or stays where it is *)
LEMMA WhoMoves ==
    ASSUME IInv, [Next]_vars, NEW r \in Req
    PROVE  Same(r) \/ Step(r) \/ Fail(r) \/ Convert(r) \/ Update(r) \/ Show(r)
<1>1. CASE \E q \in Req : Step(q) \/ Fail(q) \/ Convert(q) \/ Update(q) \/ Show(q)
  BY <1>1, OneMoves
<1>2. CASE Expiry \/ Tick \/ (\E k \in delRetry : RetryDel(k)) \/ UNCHANGED vars
  BY <1>2 DEF Expiry, ExpireId, ExpireSurl, ExpireMd5, Tick, RetryDel, vars, locals, Same
<1>3. QED BY <1>1, <1>2 DEF Next, Begin, Req

(* The table is changed by an INSERT, of a row that was not there, or by the *)
(* UPDATE of a row that was                                                  *)
Inserts(r, i) == /\ r \in Converters /\ table[i] = NoRow
                 /\ table'[i] # NoRow /\ table'[i].surl = num[r]
                 /\ num'[r] = num[r] /\ pc'[r] = "insDel"
Updates(r, i) == /\ r \in Updaters /\ table[i] # NoRow
                 /\ id[r] = i /\ id'[r] = i /\ pc'[r] = "updDel"

LEMMA WhoWrites ==
    ASSUME IInv, [Next]_vars, NEW i \in Ids, table'[i] # table[i]
    PROVE  \E r \in Req : Inserts(r, i) \/ Updates(r, i)
<1>1. PICK r \in Req : Insert(r) \/ Write(r)
  <2>1. ASSUME NEW r \in Req, Lookup(r) PROVE UNCHANGED table
    BY <2>1 DEF Lookup, IdxGet, IdxDb, IdxPri, IdxSet, IdxHole, PriGet, PriDb, PriSet, stores
  <2>2. ASSUME NEW r \in Req, Dedupe(r) \/ SelfCheck(r) \/ TakeNumber(r) \/ InsDel(r) \/ BloomAdd(r)
        PROVE  UNCHANGED table
    BY <2>2 DEF Dedupe, SelfCheck, TakeNumber, InsDel, BloomAdd, stores
  <2>3. ASSUME NEW r \in Req, Merge(r) \/ UpdDel(r) \/ ShowStep(r) \/ Fail(r) PROVE UNCHANGED table
    BY <2>3 DEF Merge, UpdDel, ShowStep, Exists, Check, Fail, stores
  <2>4. Begin => UNCHANGED table BY DEF Begin, Convert, Update, Show, stores
  <2>5. Expiry \/ Tick \/ (\E k \in delRetry : RetryDel(k)) \/ UNCHANGED vars => UNCHANGED table
    BY DEF Expiry, ExpireId, ExpireSurl, ExpireMd5, Tick, RetryDel, vars, stores
  <2>6. QED BY <2>1, <2>2, <2>3, <2>4, <2>5 DEF Next, Step, ConvertStep, UpdateStep
<1>2. CASE Insert(r)
  <2>1. r \in Converters /\ num[r] \in Codes /\ TypeOK
    BY <1>2 DEF Insert, At, IInv, RequestOK, RoleOf, TypeOK
  <2>2. PICK j \in Ids : /\ NextId(j)
                         /\ Commit(j, [surl |-> num[r], lurl |-> arg[r].url, md5 |-> arg[r].url, expireAt |-> Never])
                         /\ Goto(r, "insDel")
    BY <1>2, <1>1 DEF Insert, Finish
  <2>3. j = i /\ num'[r] = num[r] /\ pc'[r] = "insDel"
    BY <1>2, <2>1, <2>2, <1>1 DEF Insert, Commit, Goto, locals, TypeOK
  <2>4. table'[i] # NoRow /\ table'[i].surl = num[r]
    <3>1. table'[i] = [surl |-> num[r], lurl |-> arg[r].url, md5 |-> arg[r].url, expireAt |-> Never]
      BY <2>1, <2>2, <2>3 DEF Commit, TypeOK
    <3>2. arg[r].url \in Urls BY <1>2, <2>1 DEF Insert, At, IInv, RequestOK, RoleOf
    <3>3. QED BY <3>1, <3>2, <2>1, MarkersAssumption DEF Row
  <2>5. QED BY <1>1, <2>1, <2>2, <2>3, <2>4 DEF NextId, Inserts
<1>3. CASE Write(r)
  <2>1. TypeOK /\ r \in Updaters /\ id[r] \in Ids /\ Stored(id[r])
    BY <1>3 DEF Write, At, IInv, RequestOK, RoleOf, LocalsOf, AskedBy
  <2>2. Commit(id[r], new[r]) /\ Goto(r, "updDel") BY <1>3 DEF Write
  <2>3. id[r] = i /\ id'[r] = i /\ pc'[r] = "updDel"
    BY <1>3, <2>1, <2>2, <1>1 DEF Write, Commit, Goto, locals, TypeOK
  <2>4. QED BY <1>1, <2>1, <2>3 DEF Updates, Stored
<1>4. QED BY <1>1, <1>2, <1>3

(* A row is cached by a lookup that has it in hand *)
LEMMA WhoCaches ==
    ASSUME IInv, [Next]_vars, NEW i \in Ids, cacheId'[i] \notin {NoRow, cacheId[i]}
    PROVE  UNCHANGED table /\ \E r \in Filling : id[r] = i /\ cacheId'[i] = row[r]
<1>1. ASSUME NEW k, Drop(k) PROVE FALSE BY <1>1 DEF Drop, IInv, TypeOK
<1>2. PICK r \in Req : IdxPri(r) \/ PriSet(r)
  <2>1. ASSUME NEW r \in Req, IdxGet(r) \/ IdxDb(r) \/ IdxSet(r) \/ IdxHole(r) \/ PriGet(r) \/ PriDb(r)
        PROVE  FALSE
    BY <2>1 DEF IdxGet, IdxDb, IdxSet, IdxHole, PriGet, PriDb, stores
  <2>2. ASSUME NEW r \in Req, ConvertStep(r) PROVE FALSE
    BY <2>2, <1>1 DEF ConvertStep, Dedupe, SelfCheck, TakeNumber, Insert, InsDel, BloomAdd, DelCache, stores, caches
  <2>3. ASSUME NEW r \in Req, UpdateStep(r) \/ ShowStep(r) \/ Fail(r) PROVE FALSE
    BY <2>3, <1>1 DEF UpdateStep, Merge, Write, UpdDel, ShowStep, Exists, Check, Fail, DelCache, stores, caches
  <2>4. ASSUME Begin PROVE FALSE BY <2>4 DEF Begin, Convert, Update, Show, stores
  <2>5. ASSUME Expiry \/ Tick \/ (\E k \in delRetry : RetryDel(k)) \/ UNCHANGED vars PROVE FALSE
    BY <2>5, <1>1 DEF Expiry, ExpireId, ExpireSurl, ExpireMd5, Tick, RetryDel, vars, stores, caches, IInv, TypeOK
  <2>6. QED BY <2>1, <2>2, <2>3, <2>4, <2>5 DEF Next, Step, Lookup
<1>3. QED BY <1>2 DEF IdxPri, PriSet, At, Filling, IInv, TypeOK

(* A placeholder is cached by a lookup that found no such code *)
LEMMA WhoDenies ==
    ASSUME IInv, [Next]_vars, NEW c \in Codes, cacheSurl'[c] = Hole, cacheSurl[c] # Hole
    PROVE  UNCHANGED table /\ \E r \in Denying : arg[r].code = c
<1>1. ASSUME NEW k, Drop(k) PROVE FALSE BY <1>1, MarkersAssumption DEF Drop, IInv, TypeOK
<1>2. PICK r \in Req : IdxHole(r)
  <2>1. ASSUME NEW r \in Req, IdxGet(r) \/ IdxDb(r) \/ IdxPri(r) \/ PriGet(r) \/ PriDb(r) \/ PriSet(r)
        PROVE  FALSE
    BY <2>1 DEF IdxGet, IdxDb, IdxPri, PriGet, PriDb, PriSet, stores
  <2>2. ASSUME NEW r \in Req, IdxSet(r) PROVE FALSE
    <3>1. id[r] \in Ids BY <2>2 DEF IdxSet, At, IInv, RequestOK, LocalsOf
    <3>2. QED BY <2>2, <3>1, MarkersAssumption DEF IdxSet, SetIndex, IInv, TypeOK
  <2>3. ASSUME NEW r \in Req, ConvertStep(r) PROVE FALSE
    BY <2>3, <1>1 DEF ConvertStep, Dedupe, SelfCheck, TakeNumber, Insert, InsDel, BloomAdd, DelCache, stores, caches
  <2>4. ASSUME NEW r \in Req, UpdateStep(r) \/ ShowStep(r) \/ Fail(r) PROVE FALSE
    BY <2>4, <1>1 DEF UpdateStep, Merge, Write, UpdDel, ShowStep, Exists, Check, Fail, DelCache, stores, caches
  <2>5. ASSUME Begin PROVE FALSE BY <2>5 DEF Begin, Convert, Update, Show, stores
  <2>6. ASSUME Expiry \/ Tick \/ (\E k \in delRetry : RetryDel(k)) \/ UNCHANGED vars PROVE FALSE
    BY <2>6, <1>1, MarkersAssumption
       DEF Expiry, ExpireId, ExpireSurl, ExpireMd5, Tick, RetryDel, vars, stores, caches, IInv, TypeOK
  <2>7. QED BY <2>1, <2>2, <2>3, <2>4, <2>5, <2>6 DEF Next, Step, Lookup
<1>3. QED BY <1>2 DEF IdxHole, SetIndex, At, Denying, IInv, TypeOK

(* A deletion that waits is not forgotten before the key is gone *)
LEMMA RetryKept ==
    ASSUME IInv, [Next]_vars, NEW k \in delRetry
    PROVE  k \in delRetry' \/ Drop(k)
<1>1. ASSUME NEW j, DelCache(j) PROVE k \in delRetry' BY <1>1 DEF DelCache
<1>2. ASSUME NEW r \in Req, Step(r) \/ Fail(r) \/ Convert(r) \/ Update(r) \/ Show(r) PROVE k \in delRetry'
  <2>1. CASE Lookup(r)
    BY <2>1 DEF Lookup, IdxGet, IdxDb, IdxPri, IdxSet, IdxHole, PriGet, PriDb, PriSet, stores
  <2>2. CASE ConvertStep(r)
    BY <2>2, <1>1 DEF ConvertStep, Dedupe, SelfCheck, TakeNumber, Insert, InsDel, BloomAdd, stores
  <2>3. CASE UpdateStep(r) \/ ShowStep(r) \/ Fail(r)
    BY <2>3, <1>1 DEF UpdateStep, Merge, Write, UpdDel, ShowStep, Exists, Check, Fail, stores
  <2>4. CASE Convert(r) \/ Update(r) \/ Show(r) BY <2>4 DEF Convert, Update, Show, stores
  <2>5. QED BY <1>2, <2>1, <2>2, <2>3, <2>4 DEF Step
<1>3. CASE Expiry \/ Tick \/ (\E j \in delRetry : RetryDel(j)) \/ UNCHANGED vars
  BY <1>3 DEF Expiry, ExpireId, ExpireSurl, ExpireMd5, Tick, RetryDel, vars, stores
<1>4. QED BY <1>2, <1>3 DEF Next, Begin, Req

(* A request that has changed the table deletes the keys, or is pending      *)
LEMMA PendingKept ==
    ASSUME IInv, [Next]_vars, HistoryStep, DiedAreDone, NEW r \in Req, Pending(r)
    PROVE  \/ Pending(r)' /\ id'[r] = id[r] /\ num'[r] = num[r]
           \/ r \in Converters /\ DelCache([id |-> Miss, surl |-> num[r], md5 |-> arg[r].url])
           \/ r \in Updaters /\ DelCache([id |-> id[r], surl |-> row[r].surl, md5 |-> row[r].md5])
<1>1. CASE Same(r) BY <1>1 DEF Same, Pending, HistoryStep
<1>2. CASE r \in died
  <2>1. pc[r] = "done" BY <1>2 DEF DiedAreDone
  <2>2. ASSUME Step(r) \/ Fail(r) \/ Convert(r) \/ Update(r) \/ Show(r) PROVE FALSE
    BY <2>1, <2>2 DEF Step, Lookup, IdxGet, IdxDb, IdxPri, IdxSet, IdxHole, PriGet, PriDb, PriSet,
           ConvertStep, Dedupe, SelfCheck, TakeNumber, Insert, InsDel, BloomAdd,
           UpdateStep, Merge, Write, UpdDel, ShowStep, Exists, Check, Fail, Convert, Update, Show, At
  <2>3. QED BY <2>2, <1>1, WhoMoves
<1>3. CASE pc[r] \in {"insDel", "updDel"}
  <2>1. InsDel(r) \/ UpdDel(r) \/ Fail(r) \/ Same(r)
    BY <1>3, WhoMoves DEF Step, Lookup, IdxGet, IdxDb, IdxPri, IdxSet, IdxHole, PriGet, PriDb, PriSet,
           ConvertStep, Dedupe, SelfCheck, TakeNumber, Insert, BloomAdd,
           UpdateStep, Merge, Write, ShowStep, Exists, Check, Convert, Update, Show, At
  <2>2. CASE Fail(r)
    <3>1. Ended(r, "error", None, None) BY <2>2, FinishEffect DEF Fail, Kinds, IInv
    <3>2. r \in died' BY <1>3, <3>1 DEF Ended, HistoryStep
    <3>3. QED BY <2>2, <3>2 DEF Fail, locals, Pending
  <2>3. CASE InsDel(r) BY <2>3 DEF InsDel, At, IInv, RequestOK, RoleOf
  <2>4. CASE UpdDel(r) BY <2>4 DEF UpdDel, At, IInv, RequestOK, RoleOf
  <2>5. QED BY <1>1, <2>1, <2>2, <2>3, <2>4
<1>4. QED BY <1>2, <1>3 DEF Pending

(* A lookup takes a row in hand, or learns that there is none, from the table *)
LEMMA TakesFromTable ==
    ASSUME IInv, [Next]_vars, NEW r \in Req, ~Same(r)
    PROVE  /\ r \in Filling' => UNCHANGED table /\ row'[r] = table[id'[r]]
           /\ r \in Denying' => UNCHANGED table /\ arg'[r] = arg[r] /\ Matches(r) = {}
<1>1. ASSUME NEW s, Goto(r, s) PROVE pc'[r] = s BY <1>1 DEF Goto, IInv, TypeOK
<1>2. ASSUME NEW k, NEW c, NEW u, Finish(r, k, c, u) PROVE pc'[r] = "done"
  BY <1>2 DEF Finish, IInv, TypeOK
<1>3. NotFound(r) => pc'[r] \in {"selfCheck", "done"} BY <1>1, <1>2 DEF NotFound
<1>4. CASE IdxDb(r) \/ PriDb(r)
  BY <1>4, <1>1 DEF IdxDb, PriDb, Filling, Denying, stores, Matches, IInv, TypeOK
<1>5. ASSUME IdxGet(r) \/ IdxPri(r) \/ IdxSet(r) \/ IdxHole(r) \/ PriGet(r) \/ PriSet(r)
      PROVE  pc'[r] \notin {"idxPri", "priSet", "idxHole"}
  BY <1>5, <1>1, <1>3, ReturnStep DEF IdxGet, IdxPri, IdxSet, IdxHole, PriGet, PriSet
<1>6. ASSUME ConvertStep(r) PROVE pc'[r] \notin {"idxPri", "priSet", "idxHole"}
  BY <1>6, <1>1, <1>2 DEF ConvertStep, Dedupe, SelfCheck, TakeNumber, Draw, Insert, InsDel, BloomAdd
<1>7. ASSUME UpdateStep(r) \/ ShowStep(r) \/ Fail(r) PROVE pc'[r] \notin {"idxPri", "priSet", "idxHole"}
  BY <1>7, <1>1, <1>2 DEF UpdateStep, Merge, Write, UpdDel, ShowStep, Exists, Check, Fail
<1>8. ASSUME Convert(r) \/ Update(r) \/ Show(r) PROVE pc'[r] \notin {"idxPri", "priSet", "idxHole"}
  BY <1>8, <1>1, <1>2 DEF Convert, Update, Show
<1>9. QED BY <1>4, <1>5, <1>6, <1>7, <1>8, WhoMoves DEF Step, Lookup, Filling, Denying

LEMMA FillingKept ==
    ASSUME IInv, [Next]_vars, HistoryStep, FillingOK PROVE FillingOK'
<1> SUFFICES ASSUME NEW r \in Req, r \in Filling'
             PROVE  row'[r] = table'[id'[r]] \/ [id |-> id'[r], row |-> row'[r]] \in overtaken'
  BY DEF FillingOK, Filling
<1>1. CASE ~Same(r) BY <1>1, TakesFromTable
<1>2. CASE Same(r)
  <2>1. r \in Filling /\ id'[r] = id[r] /\ row'[r] = row[r] BY <1>2 DEF Same, Filling
  <2>2. CASE table'[id[r]] # table[id[r]] BY <2>1, <2>2 DEF HistoryStep
  <2>3. CASE table'[id[r]] = table[id[r]] BY <2>1, <2>3 DEF HistoryStep, FillingOK
  <2>4. QED BY <2>2, <2>3
<1>3. QED BY <1>1, <1>2

LEMMA DenyingKept ==
    ASSUME IInv, [Next]_vars, HistoryStep, DenyingOK PROVE DenyingOK'
<1> SUFFICES ASSUME NEW r \in Req, r \in Denying', NEW i \in Ids, table'[i] # NoRow,
                    table'[i].surl = arg'[r].code
             PROVE  arg'[r].code \in missed'
  BY DEF DenyingOK, Denying, Stored
<1>1. CASE ~Same(r)
  <2>1. UNCHANGED table /\ arg'[r] = arg[r] /\ Matches(r) = {} BY <1>1, TakesFromTable
  <2>2. r \notin Converters BY DEF Denying
  <2>3. i \in Matches(r) BY <2>1, <2>2 DEF Matches
  <2>4. QED BY <2>1, <2>3
<1>2. CASE Same(r)
  <2>1. r \in Denying /\ arg'[r] = arg[r] BY <1>2 DEF Same, Denying
  <2>2. CASE table[i] = NoRow BY <2>1, <2>2 DEF HistoryStep
  <2>3. CASE table[i] # NoRow
    <3>1. Stored(i) /\ table[i].surl = arg[r].code BY <2>1, <2>3, StepGrows DEF Grows, Stored
    <3>2. QED BY <2>1, <3>1 DEF DenyingOK, HistoryStep
  <2>4. QED BY <2>2, <2>3
<1>3. QED BY <1>1, <1>2

LEMMA StaleKept ==
    ASSUME IInv, [Next]_vars, HistoryStep, CoherenceInv PROVE StaleRowsHaveACause'
<1> SUFFICES ASSUME NEW i \in Ids, cacheId'[i] \notin {NoRow, table'[i]}
             PROVE  \/ \E p \in Updaters : Pending(p)' /\ id'[p] = i
                    \/ \E k \in delRetry' : k.id = i
                    \/ [id |-> i, row |-> cacheId'[i]] \in overtaken'
  BY DEF StaleRowsHaveACause
<1>1. CASE cacheId'[i] # cacheId[i]
  <2>1. PICK r \in Filling : id[r] = i /\ cacheId'[i] = row[r] BY <1>1, WhoCaches
  <2>2. UNCHANGED table BY <1>1, WhoCaches
  <2>3. QED BY <2>1, <2>2 DEF CoherenceInv, FillingOK, HistoryStep
<1>2. CASE cacheId'[i] = cacheId[i] /\ table'[i] # table[i]
  <2>1. PICK r \in Req : Inserts(r, i) \/ Updates(r, i) BY <1>2, WhoWrites
  <2>2. Stored(i) BY <1>2 DEF IInv, StoresOK, CacheCommitted, VersionsOfOneLink
  <2>3. Updates(r, i) BY <2>1, <2>2 DEF Inserts, Stored
  <2>4. QED BY <2>3 DEF Updates, Pending
<1>3. CASE cacheId'[i] = cacheId[i] /\ table'[i] = table[i]
  <2>1. ASSUME NEW k, Drop(k) PROVE k.id # i BY <1>3, <2>1, MarkersAssumption DEF Drop, IInv, TypeOK
  <2>2. CASE [id |-> i, row |-> cacheId[i]] \in overtaken BY <1>3, <2>2 DEF HistoryStep
  <2>3. ASSUME NEW k \in delRetry, k.id = i PROVE k \in delRetry' BY <2>1, <2>3, RetryKept
  <2>4. ASSUME NEW p \in Updaters, Pending(p), id[p] = i
        PROVE  (Pending(p)' /\ id'[p] = i) \/ \E k \in delRetry' : k.id = i
    <3>1. p \in Req /\ p \notin Converters BY RequestsDisjoint DEF Req
    <3>2. CASE Pending(p)' /\ id'[p] = id[p] BY <2>4, <3>2
    <3>3. CASE DelCache([id |-> id[p], surl |-> row[p].surl, md5 |-> row[p].md5])
      BY <2>1, <2>4, <3>3 DEF DelCache
    <3>4. QED BY <2>4, <3>1, <3>2, <3>3, PendingKept DEF CoherenceInv
  <2>5. QED BY <1>3, <2>2, <2>3, <2>4 DEF CoherenceInv, StaleRowsHaveACause
<1>4. QED BY <1>1, <1>2, <1>3

LEMMA HolesKept ==
    ASSUME IInv, [Next]_vars, HistoryStep, CoherenceInv PROVE HolesHaveACause'
<1> SUFFICES ASSUME NEW c \in Codes, cacheSurl'[c] = Hole,
                    NEW i \in Ids, table'[i] # NoRow, table'[i].surl = c
             PROVE  \/ \E r \in Converters : Pending(r)' /\ num'[r] = c
                    \/ \E k \in delRetry' : k.surl = c
                    \/ c \in missed'
  BY DEF HolesHaveACause, Stored
<1>1. CASE cacheSurl[c] # Hole
  <2>1. PICK r \in Denying : arg[r].code = c BY <1>1, WhoDenies
  <2>2. UNCHANGED table BY <1>1, WhoDenies
  <2>3. QED BY <2>1, <2>2 DEF CoherenceInv, DenyingOK, Stored, HistoryStep
<1>2. CASE cacheSurl[c] = Hole /\ table[i] = NoRow
  <2>1. PICK r \in Req : Inserts(r, i) \/ Updates(r, i) BY <1>2, WhoWrites
  <2>2. Inserts(r, i) BY <1>2, <2>1 DEF Updates
  <2>3. QED BY <2>2 DEF Inserts, Pending
<1>3. CASE cacheSurl[c] = Hole /\ table[i] # NoRow
  <2>1. Stored(i) /\ table[i].surl = c BY <1>3, StepGrows DEF Grows, Stored
  <2>2. ASSUME NEW k, Drop(k) PROVE k.surl # c BY <2>2, MarkersAssumption DEF Drop, IInv, TypeOK
  <2>3. CASE c \in missed BY <2>3 DEF HistoryStep
  <2>4. ASSUME NEW k \in delRetry, k.surl = c PROVE k \in delRetry' BY <2>2, <2>4, RetryKept
  <2>5. ASSUME NEW r \in Converters, Pending(r), num[r] = c
        PROVE  (Pending(r)' /\ num'[r] = c) \/ \E k \in delRetry' : k.surl = c
    <3>1. r \in Req /\ r \notin Updaters BY RequestsDisjoint DEF Req
    <3>2. CASE Pending(r)' /\ num'[r] = num[r] BY <2>5, <3>2
    <3>3. CASE DelCache([id |-> Miss, surl |-> num[r], md5 |-> arg[r].url])
      BY <2>2, <2>5, <3>3 DEF DelCache
    <3>4. QED BY <2>5, <3>1, <3>2, <3>3, PendingKept DEF CoherenceInv
  <2>6. QED BY <1>3, <2>1, <2>3, <2>4, <2>5 DEF CoherenceInv, HolesHaveACause
<1>4. QED BY <1>1, <1>2, <1>3

LEMMA DiedKept ==
    ASSUME IInv, [Next]_vars, HistoryStep, DiedAreDone PROVE DiedAreDone'
<1> SUFFICES ASSUME NEW r \in died' PROVE r \in Req /\ pc'[r] = "done" BY DEF DiedAreDone
<1>1. CASE r \notin died BY <1>1 DEF HistoryStep
<1>2. CASE r \in died
  <2>1. r \in Req /\ pc[r] = "done" BY <1>2 DEF DiedAreDone
  <2>2. ASSUME Step(r) \/ Fail(r) \/ Convert(r) \/ Update(r) \/ Show(r) PROVE FALSE
    BY <2>1, <2>2 DEF Step, Lookup, IdxGet, IdxDb, IdxPri, IdxSet, IdxHole, PriGet, PriDb, PriSet,
           ConvertStep, Dedupe, SelfCheck, TakeNumber, Insert, InsDel, BloomAdd,
           UpdateStep, Merge, Write, UpdDel, ShowStep, Exists, Check, Fail, Convert, Update, Show, At
  <2>3. QED BY <2>1, <2>2, WhoMoves DEF Same
<1>3. QED BY <1>1, <1>2

LEMMA CoherenceInvariance == CoherenceSpec => [](IInv /\ CoherenceInv)
<1>1. CoherenceInit => IInv /\ CoherenceInv
  <2> SUFFICES ASSUME Init, HistoryInit PROVE IInv /\ CoherenceInv BY DEF CoherenceInit
  <2>1. IInv BY Initially
  <2>2. FillingOK /\ DenyingOK /\ DiedAreDone
    BY DEF Init, HistoryInit, FillingOK, DenyingOK, Filling, Denying, DiedAreDone
  <2>3. StaleRowsHaveACause /\ HolesHaveACause
    BY MarkersAssumption DEF Init, StaleRowsHaveACause, HolesHaveACause
  <2>4. QED BY <2>1, <2>2, <2>3 DEF CoherenceInv
<1>2. IInv /\ CoherenceInv /\ [CoherenceNext]_coherenceVars => (IInv /\ CoherenceInv)'
  <2> SUFFICES ASSUME IInv, CoherenceInv, [CoherenceNext]_coherenceVars PROVE (IInv /\ CoherenceInv)'
    OBVIOUS
  <2>1. CASE CoherenceNext
    <3>1. [Next]_vars /\ HistoryStep BY <2>1 DEF CoherenceNext
    <3>2. IInv' BY <3>1, Preserved
    <3>3. FillingOK' /\ DenyingOK' BY <3>1, FillingKept, DenyingKept DEF CoherenceInv
    <3>4. StaleRowsHaveACause' /\ HolesHaveACause' BY <3>1, StaleKept, HolesKept
    <3>5. DiedAreDone' BY <3>1, DiedKept DEF CoherenceInv
    <3>6. QED BY <3>2, <3>3, <3>4, <3>5 DEF CoherenceInv
  <2>2. CASE UNCHANGED coherenceVars
    BY <2>2, Stutters DEF coherenceVars, history, vars, stores, locals, CoherenceInv,
       FillingOK, DenyingOK, Filling, Denying, StaleRowsHaveACause, HolesHaveACause, DiedAreDone, Pending, Stored
  <2>3. QED BY <2>1, <2>2
<1>3. QED BY <1>1, <1>2, PTL DEF CoherenceSpec

(* A cached row that is not the table's will be deleted, or a server died    *)
(* before it could, or a lookup had loaded it before the statement.          *)
THEOREM StaleRowsAreCaused == CoherenceSpec => []StaleRowsHaveACause
<1>1. IInv /\ CoherenceInv => StaleRowsHaveACause BY DEF CoherenceInv
<1>2. QED BY <1>1, CoherenceInvariance, PTL

(* A placeholder that hides a stored link will be deleted, or a server died  *)
(* before it could, or a lookup had found nothing before the INSERT.         *)
THEOREM HolesAreCaused == CoherenceSpec => []HolesHaveACause
<1>1. IInv /\ CoherenceInv => HolesHaveACause BY DEF CoherenceInv
<1>2. QED BY <1>1, CoherenceInvariance, PTL
=============================================================================
