--------------------------- MODULE RegistryProofs ---------------------------
(***************************************************************************)
(* The handlers of the short-link service implement the registry of links *)
(* (LinkRegistry), for any number of requests, URLs, codes and rows, and   *)
(* what is stored comes from somewhere: codes from numbers that are not    *)
(* reserved, fields from requests that sent them.                          *)
(*                                                                         *)
(* The invariant Origins says of every version who sent its fields, and of *)
(* every conversion that has inserted its row that the number is its own.  *)
(***************************************************************************)
EXTENDS ShortenerProofs, DataLemmas

(* A conversion that will draw no other number, and one that has inserted   *)
Late(r) == pc[r] \in {"insDel", "bloom", "done"}
Placed(r) == r \in Converters /\ (pc[r] \in {"insDel", "bloom"} \/ Answered(r, "created"))

(* FieldsWereSent, by conversions that are Late                             *)
Converted(x) == \E r \in Converters : Late(r) /\ num[r] = x.surl /\ arg[r].url = x.lurl
Asking(p, x) == p \in Updaters /\ arg[p].code # None /\ Fold[arg[p].code] = Fold[x.surl]
Origin(i, x) ==
    /\ \/ InitTable[i] # NoRow /\ x.lurl = InitTable[i].lurl
       \/ Converted(x)
       \/ \E p \in Updaters : Asking(p, x) /\ arg[p].url = x.lurl
    /\ \/ x.expireAt = IF InitTable[i] # NoRow THEN InitTable[i].expireAt ELSE Never
       \/ \E p \in Updaters : Asking(p, x) /\ arg[p].expireAt = x.expireAt

PlacedOf(r) ==
    /\ Placed(r) => \E i \in Ids : Stored(i) /\ table[i].surl = num[r]
    /\ Answered(r, "created") => answer[r].code = num[r] /\ Hash[num[r]] \subseteq bits
OriginsOf(r) ==
    /\ pc[r] = "idle" => arg[r].code = None
    /\ pc[r] = "insert" => num[r] \notin BlackList
    /\ r \in Converters => PlacedOf(r)
    /\ new[r] # NoRow => Origin(id[r], new[r])
    /\ Answered(r, "none") => answer[r].code = None /\ answer[r].url = None
NumbersApart == \A r, q \in Converters : r # q /\ Placed(r) /\ Placed(q) => num[r] # num[q]
VersionsSent == \A v \in past : Origin(v.id, v.row)
InitStays == \A i \in Ids : InitTable[i] # NoRow => Stored(i)
Origins == /\ ReservedCodesUnused /\ NumbersApart /\ VersionsSent /\ InitStays
           /\ \A r \in Req : OriginsOf(r)

-----------------------------------------------------------------------------
(* What a step leaves alone                                                 *)

(* Who sent a field once has sent it: parameters and numbers stay *)
Keeps == /\ \A q \in Converters : Late(q) => Late(q)' /\ num'[q] = num[q] /\ arg'[q] = arg[q]
         /\ \A p \in Updaters : arg[p].code # None => arg'[p] = arg[p]

LEMMA OriginStays == ASSUME Keeps, NEW i, NEW x, Origin(i, x) PROVE Origin(i, x)'
<1>1. Converted(x) => Converted(x)' BY DEF Keeps, Converted
<1>2. \A p \in Updaters : Asking(p, x) => Asking(p, x)' /\ arg'[p] = arg[p] BY DEF Keeps, Asking
<1>3. QED BY <1>1, <1>2 DEF Origin

LEMMA OthersOrigins ==
    ASSUME Origins, Grows, Keeps, bits \subseteq bits', NEW q \in Req, Same(q)
    PROVE  OriginsOf(q)' /\ (Placed(q)' <=> Placed(q))
<1>1. Placed(q)' <=> Placed(q) BY DEF Placed, Same, Answered
<1>2. q \in Converters => PlacedOf(q)'
  <2>1. SUFFICES ASSUME q \in Converters PROVE PlacedOf(q)' OBVIOUS
  <2>2. PlacedOf(q) BY <2>1 DEF Origins, OriginsOf
  <2>3. QED BY <1>1, <2>2 DEF PlacedOf, Same, Answered, Grows, Stored
<1>3. new'[q] # NoRow => Origin(id[q], new[q])'
  <2>1. new[q] # NoRow => Origin(id[q], new[q]) BY DEF Origins, OriginsOf
  <2>2. new[q] # NoRow => (Origin(id[q], new[q]))'
    <3>1. PICK i : i = id[q] OBVIOUS
    <3>2. PICK x : x = new[q] OBVIOUS
    <3>3. Origin(i, x) => Origin(i, x)' BY OriginStays
    <3>4. id'[q] = i /\ new'[q] = x BY <3>1, <3>2 DEF Same
    <3>5. QED BY <2>1, <3>1, <3>2, <3>3, <3>4
  <2>3. QED BY <2>2 DEF Same
<1>4. QED BY <1>1, <1>2, <1>3 DEF Origins, OriginsOf, Same, Answered

(* A step of r: the others keep their origins, and what r leaves remains *)
LEMMA CombineOrigins ==
    ASSUME IInv, Origins, NEW r \in Req, \A q \in Req \ {r} : Same(q),
           Grows, Keeps, bits \subseteq bits', OriginsOf(r)',
           ReservedCodesUnused', VersionsSent',
           Placed(r)' => (Placed(r) /\ num'[r] = num[r])
               \/ \A q \in Converters \ {r} : Placed(q) => num[q] # num'[r]
    PROVE  Origins'
<1>1. ASSUME NEW q \in Req PROVE OriginsOf(q)'
  <2>1. CASE q # r BY <2>1, OthersOrigins
  <2>2. QED BY <2>1
<1>2. NumbersApart'
  <2>1. \A q \in Converters \ {r} : num'[q] = num[q] /\ (Placed(q)' <=> Placed(q))
    BY OthersOrigins DEF Req, Same
  <2>2. \A q \in Converters \ {r} : Placed(q) /\ Placed(r)' => num[q] # num'[r]
    <3>1. SUFFICES ASSUME NEW q \in Converters \ {r}, Placed(q), Placed(r)' PROVE num[q] # num'[r]
      OBVIOUS
    <3>2. CASE Placed(r) /\ num'[r] = num[r]
      BY <3>1, <3>2 DEF Origins, NumbersApart, Placed
    <3>3. QED BY <3>1, <3>2
  <2>3. QED BY <2>1, <2>2 DEF Origins, NumbersApart
<1>3. InitStays' BY DEF Origins, InitStays, Grows, Stored
<1>4. QED BY <1>1, <1>2, <1>3 DEF Origins

(* Versions and stored codes stay as they were *)
LEMMA UncommittedStays ==
    ASSUME Origins, Keeps, UNCHANGED <<table, past>>
    PROVE  Grows /\ ReservedCodesUnused' /\ VersionsSent'
<1>1. VersionsSent'
  <2>1. SUFFICES ASSUME NEW v \in past PROVE Origin(v.id, v.row)'
    BY DEF VersionsSent
  <2>2. Origin(v.id, v.row) BY DEF Origins, VersionsSent
  <2>3. QED BY <2>2, OriginStays
<1>2. QED BY <1>1, Unchanging DEF Origins, ReservedCodesUnused, Stored

(* Steps at which r learns, sends and answers nothing that origins speak of *)
LEMMA QuietOrigins ==
    ASSUME IInv, Origins, NEW r \in Req, \A q \in Req \ {r} : Same(q),
           UNCHANGED <<table, past, arg, num, new, bits>>,
           pc'[r] \notin {"idle", "insert"}, Late(r) => Late(r)', Placed(r)' => Placed(r),
           ~Answered(r, "created")', new[r] # NoRow => id'[r] = id[r],
           Answered(r, "none")' => answer'[r].code = None /\ answer'[r].url = None
    PROVE  Origins'
<1>1. Keeps BY DEF Keeps, Same, Late, Req
<1>2. new'[r] # NoRow => Origin(id[r], new[r])'
  <2>1. SUFFICES ASSUME new[r] # NoRow PROVE Origin(id[r], new[r])' OBVIOUS
  <2>2. PICK i : i = id[r] OBVIOUS
  <2>3. PICK x : x = new[r] OBVIOUS
  <2>4. Origin(i, x)' BY <2>1, <2>2, <2>3, <1>1, OriginStays DEF Origins, OriginsOf
  <2>5. QED BY <2>1, <2>2, <2>3, <2>4
<1>3. r \in Converters => PlacedOf(r)'
  BY DEF Origins, OriginsOf, PlacedOf, Stored
<1>4. OriginsOf(r)' BY <1>2, <1>3 DEF OriginsOf
<1>5. QED BY <1>1, <1>4, UncommittedStays, CombineOrigins

LEMMA EnvironmentOrigins ==
    ASSUME Origins, UNCHANGED <<table, past, arg, num, new, id, pc, answer, bits>> PROVE Origins'
<1>1. \A i, x : Origin(i, x) => Origin(i, x)' BY OriginStays DEF Keeps, Late
<1>2. Keeps BY DEF Keeps, Late
<1>3. \A q \in Req : Placed(q)' <=> Placed(q) BY DEF Placed, Answered
<1>4. \A q \in Req : OriginsOf(q)'
  BY <1>1, <1>3 DEF Origins, OriginsOf, PlacedOf, Answered, Stored
<1>5. NumbersApart' /\ InitStays' BY <1>3 DEF Origins, NumbersApart, InitStays, Stored, Req
<1>6. QED BY <1>2, <1>4, <1>5, UncommittedStays DEF Origins

(* How a step that is neither a begin nor a commit ends for its request *)
LEMMA QuietStep ==
    ASSUME IInv, Origins, NEW r \in Req,
           \/ Lookup(r) \/ Dedupe(r) \/ SelfCheck(r) \/ InsDel(r) \/ UpdDel(r)
           \/ ShowStep(r) \/ Fail(r)
    PROVE  Origins'
<1>1. \A q \in Req \ {r} : Same(q)
  BY OneMoves DEF Step, ConvertStep, UpdateStep
<1>2. ASSUME NEW s, Goto(r, s), s \in Steps PROVE Moved(r, s) BY <1>2, GotoEffect DEF IInv
<1>3. ASSUME NEW k, NEW c, NEW u, Finish(r, k, c, u)
      PROVE  pc'[r] = "done" /\ answer'[r] = [kind |-> k, code |-> c, url |-> u]
  BY <1>3 DEF Finish, IInv, TypeOK
<1>4. UNCHANGED <<table, past, arg, num, new, bits>>
  BY DEF Lookup, IdxGet, IdxDb, IdxPri, IdxSet, IdxHole, PriGet, PriDb, PriSet,
         Dedupe, SelfCheck, InsDel, UpdDel, ShowStep, Exists, Check, Fail, stores, locals
<1>5. ASSUME pc'[r] \in Steps \ {"idle", "insert"}, answer'[r] = answer[r], pc[r] \notin {"idle", "done"},
             Late(r) => Late(r)', pc'[r] \in {"insDel", "bloom"} => pc[r] \in {"insDel", "bloom"},
             new[r] # NoRow => id'[r] = id[r]
      PROVE  Origins'
  <2>1. ~Answered(r, "created")
    BY <1>5 DEF IInv, RequestOK, LocalsOf, Answered
  <2>2. QED BY <1>1, <1>4, <1>5, <2>1, QuietOrigins DEF Placed, Answered, Origins, OriginsOf
<1>6. ASSUME NEW k, NEW c, NEW u, pc'[r] = "done", answer'[r] = [kind |-> k, code |-> c, url |-> u],
             k \notin {"none", "created"}, new[r] # NoRow => id'[r] = id[r]
      PROVE  Origins'
  BY <1>1, <1>4, <1>6, QuietOrigins DEF Placed, Answered, Late
<1>7. new[r] # NoRow => id'[r] = id[r]
  BY DEF Lookup, IdxGet, IdxDb, IdxPri, IdxSet, IdxHole, PriGet, PriDb, PriSet,
         Dedupe, SelfCheck, InsDel, UpdDel, ShowStep, Exists, Check, Fail, locals,
         At, IInv, RequestOK, LocalsOf
<1>8. ASSUME NEW s \in Steps \ {"idle", "insert", "insDel", "bloom"}, Goto(r, s),
             pc[r] \notin {"idle", "done", "insDel", "bloom"}
      PROVE  Origins'
  BY <1>2, <1>5, <1>7, <1>8 DEF Moved, Late
<1>9. ASSUME NEW k, NEW c, NEW u, Finish(r, k, c, u), k \notin {"none", "created"} PROVE Origins'
  <2>1. pc'[r] = "done" /\ answer'[r] = [kind |-> k, code |-> c, url |-> u] BY <1>3, <1>9
  <2>2. QED BY <1>6, <1>7, <1>9, <2>1
<1>10. NotFound(r) /\ pc[r] \notin {"idle", "done", "insDel", "bloom"} => Origins'
  BY <1>8, <1>9 DEF NotFound, Steps
<1>11. Return(r) \in Steps \ {"idle", "insert", "insDel", "bloom"}
  BY DEF Return, Steps, Req
<1>12. CASE Lookup(r)
  <2>1. \A s \in {"idxDb", "priGet", "idxPri", "idxHole", "idxSet", "priDb", "priSet", Return(r)} :
            Goto(r, s) /\ pc[r] \notin {"idle", "done", "insDel", "bloom"} => Origins'
    BY <1>8, <1>11 DEF Steps
  <2>2. IdxGet(r) \/ IdxDb(r) \/ IdxPri(r) => Origins'
    BY <2>1, <1>10 DEF IdxGet, IdxDb, IdxPri, At
  <2>3. IdxSet(r) \/ IdxHole(r) \/ PriGet(r) => Origins'
    BY <2>1, <1>10 DEF IdxSet, IdxHole, PriGet, At
  <2>4. PriDb(r) \/ PriSet(r) => Origins'
    BY <2>1 DEF PriDb, PriSet, At
  <2>5. QED BY <1>12, <2>2, <2>3, <2>4 DEF Lookup
<1>13. CASE InsDel(r)
  BY <1>13, <1>2, <1>5, <1>7 DEF InsDel, At, Moved, Late, Steps
<1>14. CASE Dedupe(r) \/ SelfCheck(r) \/ UpdDel(r) \/ ShowStep(r) \/ Fail(r)
  BY <1>14, <1>8, <1>9 DEF Dedupe, SelfCheck, UpdDel, ShowStep, Exists, Check, Fail, At, Steps
<1>15. QED BY <1>12, <1>13, <1>14

-----------------------------------------------------------------------------
(* Steps that begin a request, draw a number or commit a version            *)

LEMMA BeginOrigins ==
    ASSUME IInv, Origins, NEW r \in Req,
           \/ r \in Converters /\ Convert(r)
           \/ r \in Updaters /\ Update(r)
           \/ r \in Showers /\ Show(r)
    PROVE  Origins'
<1>1. \A q \in Req \ {r} : Same(q) BY OneMoves
<1>2. /\ UNCHANGED <<stores, id, row, new, num, past>> /\ pc[r] = "idle"
      /\ new[r] = NoRow /\ ~Answered(r, "created")
  BY DEF Convert, Update, Show, At, IInv, RequestOK, LocalsOf, Answered
<1>3. /\ \/ pc'[r] \in {"idxGet", "exists"} /\ answer'[r] = answer[r]
         \/ pc'[r] = "done" /\ answer'[r].kind = "error"
      /\ arg[r].code = None
  BY DEF Convert, Update, Show, Goto, Finish, At, IInv, TypeOK, Origins, OriginsOf
<1>4. Keeps BY <1>1, <1>2, <1>3 DEF Keeps, Same, Late, Req
<1>5. ~Placed(r)' /\ ~Answered(r, "created")' BY <1>2, <1>3 DEF Placed, Answered
<1>6. OriginsOf(r)'
  BY <1>2, <1>3, <1>5 DEF OriginsOf, PlacedOf, Answered, Origins
<1>7. UNCHANGED <<table, past, bits>> BY <1>2 DEF stores
<1>8. QED BY <1>1, <1>4, <1>5, <1>6, <1>7, UncommittedStays, CombineOrigins

LEMMA TakeNumberOrigins ==
    ASSUME IInv, Origins, NEW r \in Req, TakeNumber(r) PROVE Origins'
<1>1. \A q \in Req \ {r} : Same(q) BY OneMoves DEF Step, ConvertStep
<1>2. /\ UNCHANGED <<table, bits, arg, new, id, past>> /\ pc[r] = "next"
      /\ r \in Converters /\ ~Answered(r, "created")
  BY DEF TakeNumber, At, IInv, RequestOK, LocalsOf, RoleOf, Answered, Origins, OriginsOf
<1>3. PICK n : Draw(r, n) BY DEF TakeNumber
<1>4. /\ answer' = answer
      /\ pc'[r] = "next" \/ (pc'[r] = "insert" /\ num'[r] \notin BlackList)
  BY <1>3 DEF Draw, Goto, IInv, TypeOK
<1>5. Keeps BY <1>1, <1>2, <1>4 DEF Keeps, Same, Late, Req
<1>6. ~Placed(r)' BY <1>2, <1>4 DEF Placed, Answered
<1>7. new'[r] # NoRow => Origin(id[r], new[r])'
  <2>1. PICK i : i = id[r] OBVIOUS
  <2>2. PICK x : x = new[r] OBVIOUS
  <2>3. new[r] # NoRow => Origin(i, x)' BY <1>5, <2>1, <2>2, OriginStays DEF Origins, OriginsOf
  <2>4. QED BY <1>2, <2>1, <2>2, <2>3
<1>8. OriginsOf(r)'
  BY <1>2, <1>4, <1>6, <1>7 DEF OriginsOf, PlacedOf, Answered, Origins
<1>9. QED BY <1>1, <1>2, <1>5, <1>6, <1>8, UncommittedStays, CombineOrigins

LEMMA BloomAddOrigins ==
    ASSUME IInv, Origins, NEW r \in Req, BloomAdd(r) PROVE Origins'
<1>1. \A q \in Req \ {r} : Same(q) BY OneMoves DEF Step, ConvertStep
<1>2. /\ UNCHANGED <<table, arg, new, id, num, past>> /\ pc[r] = "bloom" /\ r \in Converters
      /\ bits' = bits \union Hash[num[r]]
  BY DEF BloomAdd, At, IInv, RequestOK, RoleOf, locals
<1>3. pc'[r] = "done" /\ answer'[r] = [kind |-> "created", code |-> num[r], url |-> None]
  BY DEF BloomAdd, Finish, IInv, TypeOK
<1>4. Keeps BY <1>1, <1>2, <1>3 DEF Keeps, Same, Late, Req
<1>5. Placed(r) /\ num'[r] = num[r] BY <1>2 DEF Placed
<1>6. new'[r] # NoRow => Origin(id[r], new[r])'
  <2>1. PICK i : i = id[r] OBVIOUS
  <2>2. PICK x : x = new[r] OBVIOUS
  <2>3. new[r] # NoRow => Origin(i, x)' BY <1>4, <2>1, <2>2, OriginStays DEF Origins, OriginsOf
  <2>4. QED BY <1>2, <2>1, <2>2, <2>3
<1>7. PlacedOf(r)'
  BY <1>2, <1>3, <1>5 DEF Origins, OriginsOf, PlacedOf, Answered, Stored
<1>8. OriginsOf(r)'
  BY <1>2, <1>3, <1>6, <1>7 DEF OriginsOf, Answered
<1>9. QED BY <1>1, <1>2, <1>4, <1>5, <1>8, UncommittedStays, CombineOrigins

LEMMA MergeOrigins ==
    ASSUME IInv, Origins, NEW r \in Req, Merge(r) PROVE Origins'
<1>1. \A q \in Req \ {r} : Same(q) BY OneMoves DEF Step, UpdateStep
<1>2. /\ UNCHANGED <<table, bits, arg, id, num, past, answer>> /\ pc[r] = "merge" /\ pc'[r] = "priGet"
      /\ r \in Updaters /\ r \notin Converters /\ new'[r] = Merged(r) /\ ~Answered(r, "created")
  BY RequestsDisjoint
     DEF Merge, Goto, At, IInv, TypeOK, RequestOK, RoleOf, LocalsOf, stores, Answered
<1>3. Keeps BY <1>1, <1>2 DEF Keeps, Same, Late, Req
<1>4. /\ arg[r].code \in Codes /\ arg[r].code # None /\ row[r] \in Row
      /\ [id |-> id[r], row |-> row[r]] \in past
      /\ Fold[table[id[r]].surl] = Fold[arg[r].code]
  <2>1. r \in Req /\ pc[r] = "merge" /\ r \notin Converters BY <1>2
  <2>2. arg[r].code \in Codes BY <2>1 DEF IInv, RequestOK, RoleOf
  <2>3. id[r] \in Ids /\ row[r] # NoRow BY <2>1 DEF IInv, RequestOK, LocalsOf
  <2>4. row[r] \in Row BY <2>1, <2>3 DEF IInv, TypeOK
  <2>5. AskedBy(r) BY <2>1 DEF IInv, RequestOK
  <2>6. arg[r].code # None BY <2>2, MarkersAssumption
  <2>7. QED BY <2>1, <2>2, <2>3, <2>4, <2>5, <2>6 DEF AskedBy
<1>5. row[r].surl = table[id[r]].surl
  <2>1. \A w \in past : w.row.surl = table[w.id].surl
    BY DEF IInv, StoresOK, VersionsOfOneLink
  <2>2. QED BY <1>4, <2>1
<1>6. Origin(id[r], row[r])
  <2>1. \A v \in past : Origin(v.id, v.row) BY DEF Origins, VersionsSent
  <2>2. QED BY <1>4, <2>1
<1>7. Origin(id[r], Merged(r))
  <2>1. Merged(r).surl = row[r].surl BY DEF Merged
  <2>2. Asking(r, Merged(r)) BY <1>2, <1>4, <1>5, <2>1 DEF Asking
  <2>3. /\ Merged(r).lurl = row[r].lurl \/ Merged(r).lurl = arg[r].url
        /\ Merged(r).expireAt = row[r].expireAt \/ Merged(r).expireAt = arg[r].expireAt
    BY DEF Merged
  <2>4. Converted(row[r]) /\ Merged(r).lurl = row[r].lurl => Converted(Merged(r))
    BY <2>1 DEF Converted
  <2>5. \A p \in Updaters : Asking(p, row[r]) => Asking(p, Merged(r)) BY <2>1 DEF Asking
  <2>6. QED BY <1>2, <1>6, <2>2, <2>3, <2>4, <2>5 DEF Origin
<1>8. Origin(id[r], new[r])'
  <2>1. PICK i : i = id[r] OBVIOUS
  <2>2. PICK x : x = Merged(r) OBVIOUS
  <2>3. Origin(i, x)' BY <1>3, <1>7, <2>1, <2>2, OriginStays
  <2>4. QED BY <1>2, <2>1, <2>2, <2>3
<1>9. OriginsOf(r)' /\ ~Placed(r)'
  BY <1>2, <1>8 DEF OriginsOf, Placed, Answered, Origins
<1>10. QED BY <1>1, <1>2, <1>3, <1>9, UncommittedStays, CombineOrigins

(* A new version, of row i: the table has its code, the history its origin *)
LEMMA CommittedOrigins ==
    ASSUME IInv, Origins, Keeps, NEW i \in Ids, NEW x \in Row, Commit(i, x),
           Origin(i, x), x.surl \notin BlackList
    PROVE  ReservedCodesUnused' /\ VersionsSent' /\ table'[i] = x
<1>1. /\ table'[i] = x /\ \A j \in Ids \ {i} : table'[j] = table[j]
      /\ past' = past \union {[id |-> i, row |-> x]}
  BY DEF IInv, TypeOK, Commit
<1>2. ReservedCodesUnused' BY <1>1 DEF Origins, ReservedCodesUnused, Stored
<1>3. VersionsSent'
  <2>1. SUFFICES ASSUME NEW v \in past' PROVE Origin(v.id, v.row)' BY DEF VersionsSent
  <2>2. CASE v \in past BY <2>2, OriginStays DEF Origins, VersionsSent
  <2>3. CASE v = [id |-> i, row |-> x]
    <3>1. v.id = i /\ v.row = x BY <2>3
    <3>2. Origin(i, x)' BY OriginStays
    <3>3. QED BY <3>1, <3>2
  <2>4. QED BY <1>1, <2>2, <2>3
<1>4. QED BY <1>1, <1>2, <1>3

LEMMA InsertOrigins ==
    ASSUME IInv, Origins, NEW r \in Req, Insert(r) PROVE Origins'
<1> PICK x : x = [surl |-> num[r], lurl |-> arg[r].url, md5 |-> arg[r].url, expireAt |-> Never]
  OBVIOUS
<1>1. \A q \in Req \ {r} : Same(q) BY OneMoves DEF Step, ConvertStep
<1>2. /\ UNCHANGED <<caches, delRetry, seq, bits, stream, now, locals>> /\ pc[r] = "insert"
      /\ r \in Converters /\ answer[r].kind = "none" /\ x \in Row /\ num[r] \notin BlackList
      /\ new[r] # NoRow => Origin(id[r], new[r])
  BY DEF Insert, At, IInv, RequestOK, RoleOf, LocalsOf, TypeOK, Origins, OriginsOf, Row
<1>3. PICK i \in Ids : /\ NextId(i)
                       /\ IF Clashes(i, x)
                          THEN Finish(r, "error", None, None) /\ UNCHANGED <<table, past>>
                          ELSE Commit(i, x) /\ Goto(r, "insDel")
  BY DEF Insert
<1>4. UNCHANGED <<bits, arg, num, new, id>> BY <1>2 DEF locals
<1>5. Keeps
  BY <1>1, <1>2, <1>4 DEF Keeps, Same, Late, Req
<1>6. new'[r] # NoRow => Origin(id[r], new[r])'
  <2>1. PICK j : j = id[r] OBVIOUS
  <2>2. PICK y : y = new[r] OBVIOUS
  <2>3. new[r] # NoRow => Origin(j, y)' BY <1>2, <1>5, <2>1, <2>2, OriginStays
  <2>4. QED BY <1>4, <2>1, <2>2, <2>3
<1>7. CASE Clashes(i, x)
  <2>1. pc'[r] = "done" /\ answer'[r] = [kind |-> "error", code |-> None, url |-> None]
    BY <1>3, <1>7 DEF Finish, IInv, TypeOK
  <2>2. OriginsOf(r)' /\ ~Placed(r)' /\ UNCHANGED <<table, past>>
    BY <1>3, <1>4, <1>6, <1>7, <2>1 DEF OriginsOf, PlacedOf, Placed, Answered
  <2>3. QED BY <1>1, <1>4, <1>5, <2>2, UncommittedStays, CombineOrigins
<1>8. CASE ~Clashes(i, x)
  <2>1. Commit(i, x) /\ pc'[r] = "insDel" /\ answer' = answer
    BY <1>3, <1>8 DEF Goto, IInv, TypeOK
  <2>2. ~Stored(i) BY <1>3 DEF NextId, Stored
  <2>3. /\ x.surl = num[r] /\ x.lurl = arg[r].url /\ x.md5 = x.lurl /\ x.expireAt = Never
    OBVIOUS
  <2>4. Grows BY <1>2, <1>8, <2>1, <2>2, <2>3, Committed
  <2>5. InitTable[i] = NoRow BY <2>2 DEF Origins, InitStays
  <2>6. Converted(x)' BY <1>2, <1>4, <2>1, <2>3 DEF Converted, Late
  <2>7. Origin(i, x)' BY <2>3, <2>5, <2>6 DEF Origin
  <2>8. /\ table'[i] = x /\ \A j \in Ids \ {i} : table'[j] = table[j]
        /\ past' = past \union {[id |-> i, row |-> x]}
    BY <2>1 DEF IInv, TypeOK, Commit
  <2>9. ReservedCodesUnused' BY <1>2, <2>3, <2>8 DEF Origins, ReservedCodesUnused, Stored
  <2>10. VersionsSent'
    <3>1. SUFFICES ASSUME NEW v \in past' PROVE Origin(v.id, v.row)' BY DEF VersionsSent
    <3>2. CASE v \in past BY <1>5, <3>2, OriginStays DEF Origins, VersionsSent
    <3>3. CASE v = [id |-> i, row |-> x]
      <4>1. v.id = i /\ v.row = x BY <3>3
      <4>2. QED BY <2>7, <4>1
    <3>4. QED BY <2>8, <3>2, <3>3
  <2>11. OriginsOf(r)'
    <3>1. \E j \in Ids : Stored(j)' /\ table'[j].surl = num'[r]
      BY <1>2, <1>4, <2>3, <2>8, MarkersAssumption DEF Stored
    <3>2. QED BY <1>2, <1>6, <2>1, <3>1 DEF OriginsOf, PlacedOf, Answered, Origins
  <2>12. \A q \in Converters \ {r} : Placed(q) => num[q] # num'[r]
    <3>1. SUFFICES ASSUME NEW q \in Converters \ {r}, Placed(q) PROVE num[q] # num[r] BY <1>4
    <3>2. PICK j \in Ids : Stored(j) /\ table[j].surl = num[q]
      BY <3>1 DEF Origins, OriginsOf, PlacedOf, Req
    <3>3. j # i BY <2>2, <3>2
    <3>4. QED BY <1>8, <2>3, <3>2, <3>3 DEF Clashes, Stored
  <2>13. QED BY <1>1, <1>4, <1>5, <2>4, <2>9, <2>10, <2>11, <2>12, CombineOrigins
<1>9. QED BY <1>7, <1>8

LEMMA WriteOrigins ==
    ASSUME IInv, Origins, NEW r \in Req, Write(r) PROVE Origins'
<1> PICK x : x = new[r]
  OBVIOUS
<1> PICK i : i = id[r]
  OBVIOUS
<1>1. \A q \in Req \ {r} : Same(q) BY OneMoves DEF Step, UpdateStep
<1>2. /\ UNCHANGED <<caches, delRetry, seq, bits, stream, now, locals>> /\ pc[r] = "write"
      /\ r \notin Converters /\ answer[r].kind = "none" /\ i \in Ids /\ x \in Row
      /\ Stored(i) /\ x.surl = table[i].surl /\ x.md5 = x.lurl
  BY RequestsDisjoint
     DEF Write, At, IInv, RequestOK, RoleOf, LocalsOf, AskedBy, TypeOK
<1>3. Origin(i, x) BY <1>2, MarkersAssumption DEF Origins, OriginsOf
<1>4. UNCHANGED <<bits, arg, num, new, id>> BY <1>2 DEF locals
<1>5. pc'[r] \in {"done", "updDel"} /\ answer'[r].kind \in {"none", "error"}
      /\ (answer'[r].kind = "none" => answer'[r] = answer[r])
  <2>1. Finish(r, "error", None, None) =>
            pc'[r] = "done" /\ answer'[r] = [kind |-> "error", code |-> None, url |-> None]
    BY DEF Finish, IInv, TypeOK
  <2>2. Goto(r, "updDel") => pc'[r] = "updDel" /\ answer' = answer BY DEF Goto, IInv, TypeOK
  <2>3. Finish(r, "error", None, None) \/ Goto(r, "updDel") BY DEF Write
  <2>4. QED BY <1>2, <2>1, <2>2, <2>3
<1>6. Keeps BY <1>1, <1>2, <1>4 DEF Keeps, Same, Late, Req
<1>7. Origin(i, x)' BY <1>3, <1>6, OriginStays
<1>8. OriginsOf(r)' /\ ~Placed(r)'
  <2>1. Origin(id[r], new[r])' BY <1>4, <1>7
  <2>2. QED BY <1>2, <1>5, <2>1 DEF OriginsOf, Placed, Answered, Origins
<1>9. CASE Clashes(i, x)
  <2>1. UNCHANGED <<table, past>> BY <1>9 DEF Write
  <2>2. QED BY <1>1, <1>4, <1>6, <1>8, <2>1, UncommittedStays, CombineOrigins
<1>10. CASE ~Clashes(i, x)
  <2>1. Commit(i, x) BY <1>10 DEF Write
  <2>2. Grows BY <1>2, <1>10, <2>1, Committed
  <2>3. x.surl \notin BlackList BY <1>2 DEF Origins, ReservedCodesUnused
  <2>4. ReservedCodesUnused' /\ VersionsSent'
    BY <1>2, <1>3, <1>6, <2>1, <2>3, CommittedOrigins
  <2>5. QED BY <1>1, <1>4, <1>6, <1>8, <2>2, <2>4, CombineOrigins
<1>11. QED BY <1>9, <1>10

-----------------------------------------------------------------------------
LEMMA InitialOrigins == Init => Origins
<1> SUFFICES ASSUME Init PROVE Origins
  OBVIOUS
<1>1. ReservedCodesUnused BY InitTableAssumption DEF Init, ReservedCodesUnused, Stored
<1>2. \A r \in Req : ~Placed(r) /\ OriginsOf(r)
  BY DEF Init, Placed, OriginsOf, PlacedOf, Answered, Req
<1>3. NumbersApart BY <1>2 DEF NumbersApart, Req
<1>4. InitStays BY DEF Init, InitStays, Stored
<1>5. VersionsSent
  <2>1. \A i \in Ids : InitTable[i] # NoRow => Origin(i, InitTable[i]) BY DEF Origin
  <2>2. QED BY <2>1 DEF Init, VersionsSent
<1>6. QED BY <1>1, <1>2, <1>3, <1>4, <1>5 DEF Origins

LEMMA StepOrigins == IInv /\ Origins /\ [Next]_vars => Origins'
<1> SUFFICES ASSUME IInv, Origins, [Next]_vars PROVE Origins'
  OBVIOUS
<1>1. CASE Begin
  BY <1>1, BeginOrigins DEF Begin, Req
<1>2. ASSUME NEW r \in Req, Step(r) \/ Fail(r) PROVE Origins'
  BY <1>2, QuietStep, TakeNumberOrigins, InsertOrigins, BloomAddOrigins, MergeOrigins, WriteOrigins
     DEF Step, ConvertStep, UpdateStep
<1>3. CASE Expiry \/ Tick \/ (\E k \in delRetry : RetryDel(k)) \/ UNCHANGED vars
  BY <1>3, EnvironmentOrigins
     DEF Expiry, ExpireId, ExpireSurl, ExpireMd5, Tick, RetryDel, locals, vars, stores
<1>4. QED BY <1>1, <1>2, <1>3 DEF Next

LEMMA OriginsHold == Spec => []Origins
<1>1. QED BY InitialOrigins, StepOrigins, Invariance, PTL DEF Spec

(* No code that the routes of the service need is ever stored. *)
THEOREM ReservedStayUnused == Spec => []ReservedCodesUnused
<1>1. Origins => ReservedCodesUnused BY DEF Origins
<1>2. QED BY <1>1, OriginsHold, PTL

(* What is stored was sent: by the data the service started on, by the       *)
(* conversion that made the link, or by updates of that link.                *)
THEOREM FieldsAreSent == Spec => []FieldsWereSent
<1>1. IInv /\ Origins => FieldsWereSent
  <2>1. SUFFICES ASSUME IInv, Origins, NEW v \in past
                 PROVE  /\ \/ InitTable[v.id] # NoRow /\ v.row.lurl = InitTable[v.id].lurl
                           \/ SentBy(v, v.row.lurl)
                        /\ \/ v.row.expireAt = IF InitTable[v.id] # NoRow
                                               THEN InitTable[v.id].expireAt ELSE Never
                           \/ \E p \in UpdatersOf(v) : arg[p].expireAt = v.row.expireAt
    BY DEF FieldsWereSent
  <2>2. Origin(v.id, v.row) BY <2>1 DEF Origins, VersionsSent
  <2>3. \A p \in Updaters : Asking(p, v.row) => p \in UpdatersOf(v) BY DEF Asking, UpdatersOf
  <2>4. Converted(v.row) => SentBy(v, v.row.lurl) BY DEF Converted, SentBy
  <2>5. QED BY <2>2, <2>3, <2>4 DEF Origin, SentBy
<1>2. QED BY <1>1, OriginsHold, Invariance, PTL

(* A code that a conversion returned is stored, passes the filter, and was   *)
(* returned as new to no other.                                              *)
THEOREM CreatedStaysReachable == Spec => []CreatedIsReachable
<1>1. Origins /\ TypeOK => CreatedIsReachable
  <2>1. SUFFICES ASSUME Origins, TypeOK, NEW r \in Converters, Answered(r, "created")
                 PROVE  /\ \E i \in Ids : Stored(i) /\ table[i].surl = answer[r].code
                        /\ Hash[answer[r].code] \subseteq bits
                        /\ \A q \in Converters \ {r} : Answered(q, "created") =>
                               Int2String(answer[q].code) # Int2String(answer[r].code)
    BY DEF CreatedIsReachable
  <2>2. \A q \in Converters : Answered(q, "created") => Placed(q) /\ PlacedOf(q)
    BY <2>1 DEF Placed, Origins, OriginsOf, Req
  <2>3. ASSUME NEW q \in Converters \ {r}, Answered(q, "created")
        PROVE  Int2String(answer[q].code) # Int2String(answer[r].code)
    <3>1. answer[q].code # answer[r].code
      BY <2>1, <2>2, <2>3 DEF PlacedOf, Origins, NumbersApart
    <3>2. answer[q].code \in Nat /\ answer[r].code \in Nat
      <4>1. num[q] \in Nat /\ num[r] \in Nat
        BY <2>1, DataAssumption DEF TypeOK, Req, Codes
      <4>2. answer[q].code = num[q] /\ answer[r].code = num[r]
        BY <2>1, <2>2, <2>3 DEF PlacedOf
      <4> QED BY <4>1, <4>2
    <3> QED BY <3>1, <3>2, CodesTellNumbersApart
  <2>4. QED BY <2>1, <2>2, <2>3 DEF PlacedOf
<1>2. QED BY <1>1, OriginsHold, TypeCorrect, PTL

-----------------------------------------------------------------------------
(* The refinement                                                           *)

(* The registry has one link under each code that a row of the table has ... *)
LEMMA LinkAt ==
    ASSUME NEW t, UniqueKeys(t), NEW i \in Ids, t[i] # NoRow, t[i].surl \in Codes
    PROVE  LinksOf(t)[t[i].surl] = LinkOf(t[i])
<1>1. \A j \in Ids : t[j] # NoRow /\ t[j].surl = t[i].surl => j = i BY DEF UniqueKeys
<1>2. QED BY <1>1 DEF LinksOf
(* ... and none under the others.                                            *)
LEMMA NoLinkAt ==
    ASSUME NEW t, NEW c \in Codes, ~\E i \in Ids : t[i] # NoRow /\ t[i].surl = c
    PROVE  LinksOf(t)[c] = NoRow
BY DEF LinksOf

LEMMA LinkIsUsed == ASSUME NEW x \in Row PROVE LinkOf(x) # NoRow
<1>1. LinkOf(x) \in [url : Urls, expireAt : Times \union {Never}] BY DEF LinkOf, Row
<1>2. QED BY <1>1, MarkersAssumption

LEMMA UsedIsStored ==
    ASSUME IInv, NEW c \in Codes, Registry!Used(c)
    PROVE  \E i \in Ids : Stored(i) /\ table[i].surl = c /\ LinksOf(table)[c] = LinkOf(table[i])
<1>1. PICK i \in Ids : table[i] # NoRow /\ table[i].surl = c
  BY NoLinkAt DEF Registry!Used
<1>2. QED BY <1>1, LinkAt DEF Stored, IInv, StoresOK

LEMMA StoredIsUsed ==
    ASSUME IInv, NEW i \in Ids, Stored(i)
    PROVE  /\ table[i].surl \in Codes /\ Registry!Used(table[i].surl)
           /\ LinksOf(table)[table[i].surl] = LinkOf(table[i])
<1>1. table[i] \in Row BY DEF IInv, TypeOK, Stored
<1>2. table[i].surl \in Codes BY <1>1 DEF Row
<1>3. LinksOf(table)[table[i].surl] = LinkOf(table[i])
  BY <1>2, LinkAt DEF Stored, IInv, StoresOK
<1>4. QED BY <1>1, <1>2, <1>3, LinkIsUsed DEF Registry!Used

(* Committing a version puts its link into the registry *)
LEMMA CommitPuts ==
    ASSUME IInv, IInv', NEW i \in Ids, NEW x \in Row, Commit(i, x), ~Clashes(i, x),
           Stored(i) => x.surl = table[i].surl, UNCHANGED answer
    PROVE  Registry!Put(x.surl, LinkOf(x))
<1> DEFINE L == LinksOf(table)
<1>1. /\ table'[i] = x /\ \A j \in Ids \ {i} : table'[j] = table[j]
      /\ past' = past \union {[id |-> i, row |-> x]} /\ x # NoRow /\ x.surl \in Codes
  BY MarkersAssumption DEF IInv, TypeOK, Commit, Row
<1>2. ASSUME NEW d \in Codes \ {x.surl}, Registry!Used(d) PROVE L[d].url # LinkOf(x).url
  <2>1. PICK j \in Ids : Stored(j) /\ table[j].surl = d /\ L[d] = LinkOf(table[j])
    BY <1>2, UsedIsStored
  <2>2. j # i BY <1>2, <2>1
  <2>3. table[j].md5 # x.md5 /\ table'[j] = table[j] BY <1>1, <2>1, <2>2 DEF Clashes, Stored
  <2>4. table[j].md5 = table[j].lurl /\ x.md5 = x.lurl
    <3>1. [id |-> j, row |-> table[j]] \in past' /\ [id |-> i, row |-> x] \in past'
      BY <1>1, <2>1 DEF IInv, StoresOK, TableCommitted
    <3>2. \A v \in past' : v.row.md5 = v.row.lurl BY DEF IInv, StoresOK, VersionsOfOneLink
    <3>3. QED BY <3>1, <3>2
  <2>5. QED BY <2>1, <2>3, <2>4 DEF LinkOf
<1>3. LinksOf(table') = [L EXCEPT ![x.surl] = LinkOf(x)]
  <2>1. UniqueKeys(table') BY DEF IInv, StoresOK
  <2>2. LinksOf(table')[x.surl] = LinkOf(x) BY <1>1, <2>1, LinkAt
  <2>3. ASSUME NEW d \in Codes \ {x.surl} PROVE LinksOf(table')[d] = L[d]
    <3>1. CASE \E j \in Ids : table[j] # NoRow /\ table[j].surl = d
      <4>1. PICK j \in Ids : table[j] # NoRow /\ table[j].surl = d BY <3>1
      <4>2. j # i BY <2>3, <4>1 DEF Stored
      <4>3. table'[j] = table[j] BY <1>1, <4>2
      <4>4. L[d] = LinkOf(table[j]) BY <4>1, LinkAt DEF IInv, StoresOK
      <4>5. LinksOf(table')[d] = LinkOf(table[j]) BY <2>1, <4>1, <4>3, LinkAt
      <4>6. QED BY <4>4, <4>5
    <3>2. CASE ~\E j \in Ids : table[j] # NoRow /\ table[j].surl = d
      <4>1. ~\E j \in Ids : table'[j] # NoRow /\ table'[j].surl = d BY <1>1, <2>3, <3>2
      <4>2. QED BY <3>2, <4>1, NoLinkAt
    <3>3. QED BY <3>1, <3>2
  <2>4. \A t : LinksOf(t) = [c \in Codes |-> LinksOf(t)[c]] BY DEF LinksOf
  <2>5. QED BY <1>1, <2>2, <2>3, <2>4
<1>4. {[code |-> v.row.surl, link |-> LinkOf(v.row)] : v \in past'}
        = {[code |-> v.row.surl, link |-> LinkOf(v.row)] : v \in past}
              \union {[code |-> x.surl, link |-> LinkOf(x)]}
  <2> DEFINE led(v) == [code |-> v.row.surl, link |-> LinkOf(v.row)]
  <2>1. PICK w : w = [id |-> i, row |-> x] OBVIOUS
  <2>2. led(w) = [code |-> x.surl, link |-> LinkOf(x)] BY <2>1
  <2>3. past' = past \union {w} BY <1>1, <2>1
  <2> HIDE DEF led
  <2>4. {led(v) : v \in past'} = {led(v) : v \in past} \union {led(w)} BY <2>3
  <2>5. QED BY <2>2, <2>4 DEF led
<1>5. QED BY <1>2, <1>3, <1>4 DEF Registry!Put

LEMMA InsertRegisters ==
    ASSUME IInv, IInv', Origins, NEW r \in Req, Insert(r)
    PROVE  \/ \E c \in Codes, l \in Registry!Link : Registry!Register(c, l)
           \/ UNCHANGED <<table, past>> /\ Ended(r, "error", None, None)
<1> PICK x : x = [surl |-> num[r], lurl |-> arg[r].url, md5 |-> arg[r].url, expireAt |-> Never]
  OBVIOUS
<1>1. pc[r] = "insert" /\ num[r] \notin BlackList /\ x \in Row
  BY DEF Insert, At, IInv, RequestOK, RoleOf, TypeOK, Row, Origins, OriginsOf
<1>2. PICK i \in Ids : /\ NextId(i)
                       /\ IF Clashes(i, x)
                          THEN Finish(r, "error", None, None) /\ UNCHANGED <<table, past>>
                          ELSE Commit(i, x) /\ Goto(r, "insDel")
  BY DEF Insert
<1>3. CASE Clashes(i, x)
  BY <1>2, <1>3, FinishEffect DEF IInv, Kinds
<1>4. CASE ~Clashes(i, x)
  <2>1. Commit(i, x) /\ UNCHANGED answer /\ ~Stored(i)
    BY <1>2, <1>4 DEF Goto, NextId, Stored
  <2>2. Registry!Put(x.surl, LinkOf(x)) BY <1>1, <1>4, <2>1, CommitPuts
  <2>3. x.surl \notin BlackList /\ x.surl \in Codes /\ LinkOf(x) \in Registry!Link
    BY <1>1 DEF Row, LinkOf, Registry!Link
  <2>4. \A d \in Codes : Registry!Used(d) => Fold[d] # Fold[x.surl]
    <3>1. SUFFICES ASSUME NEW d \in Codes, Registry!Used(d) PROVE Fold[d] # Fold[x.surl] OBVIOUS
    <3>2. PICK j \in Ids : Stored(j) /\ table[j].surl = d BY <3>1, UsedIsStored
    <3>3. j # i BY <2>1, <3>2
    <3>4. QED BY <1>4, <3>2, <3>3 DEF Clashes, Stored
  <2>5. QED BY <2>2, <2>3, <2>4 DEF Registry!Register
<1>5. QED BY <1>3, <1>4

LEMMA WriteChanges ==
    ASSUME IInv, IInv', NEW r \in Req, Write(r)
    PROVE  \/ \E c \in Codes, l \in Registry!Link : Registry!Change(c, l)
           \/ UNCHANGED <<table, past>> /\ Ended(r, "error", None, None)
<1> PICK x : x = new[r]
  OBVIOUS
<1> PICK i : i = id[r]
  OBVIOUS
<1>1. pc[r] = "write" /\ i \in Ids /\ x \in Row /\ Stored(i) /\ x.surl = table[i].surl
  BY DEF Write, At, IInv, RequestOK, LocalsOf, AskedBy, TypeOK
<1>2. CASE Clashes(i, x)
  BY <1>2, FinishEffect DEF Write, IInv, Kinds
<1>3. CASE ~Clashes(i, x)
  <2>1. Commit(i, x) /\ UNCHANGED answer BY <1>3 DEF Write, Goto
  <2>2. Registry!Put(x.surl, LinkOf(x)) BY <1>1, <1>3, <2>1, CommitPuts
  <2>3. x.surl \in Codes /\ LinkOf(x) \in Registry!Link
    BY <1>1 DEF Row, LinkOf, Registry!Link
  <2>4. Registry!Used(x.surl) BY <1>1, StoredIsUsed
  <2>5. QED BY <2>2, <2>3, <2>4 DEF Registry!Change
<1>4. QED BY <1>2, <1>3

(* An answer of request r that is an error, or no answer, tells nobody *)
LEMMA TellsNobody ==
    ASSUME IInv, Origins, NEW r \in Req, pc[r] # "done", UNCHANGED <<table, past>>,
           OthersStay(r), answer' \in [Req -> Answer],
           r \in Converters => answer'[r].code = None,
           r \in Showers => answer'[r].url = None
    PROVE  UNCHANGED Registry!vars
<1>1. answer[r].code = None /\ answer[r].url = None
  BY DEF IInv, RequestOK, LocalsOf, Origins, OriginsOf, Answered
<1>2. [k \in Converters |-> answer'[k].code] = [k \in Converters |-> answer[k].code]
  BY <1>1 DEF OthersStay, Req
<1>3. [s \in Showers |-> answer'[s].url] = [s \in Showers |-> answer[s].url]
  BY <1>1 DEF OthersStay, Req
<1>4. QED BY <1>2, <1>3 DEF Registry!vars

(* The code of a stored row is told to a conversion that knew none *)
LEMMA TellsStored ==
    ASSUME IInv, Origins, NEW r \in Converters, NEW k, NEW i \in Ids, Stored(i), pc[r] # "done",
           UNCHANGED <<table, past>>, Ended(r, k, table[i].surl, None)
    PROVE  \E c \in Codes : Registry!Tell(r, c)
<1>1. table[i].surl \in Codes /\ Registry!Used(table[i].surl) BY StoredIsUsed
<1>2. r \in Req /\ r \notin Showers /\ answer[r].code = None
  BY RequestsDisjoint DEF Req, IInv, RequestOK, LocalsOf, Origins, OriginsOf, Answered
<1>3. [q \in Converters |-> answer'[q].code]
        = [[q \in Converters |-> answer[q].code] EXCEPT ![r] = table[i].surl]
  <2>1. \A q \in Converters : answer'[q].code = IF q = r THEN table[i].surl ELSE answer[q].code
    BY DEF Ended, OthersStay, Req
  <2>2. QED BY <2>1
<1>4. [s \in Showers |-> answer'[s].url] = [s \in Showers |-> answer[s].url]
  BY <1>2 DEF Ended, OthersStay, Req
<1>5. QED BY <1>1, <1>2, <1>3, <1>4 DEF Registry!Tell

LEMMA DedupeTells ==
    ASSUME IInv, Origins, NEW r \in Req, Dedupe(r) PROVE \E c \in Codes : Registry!Tell(r, c)
<1>1. /\ pc[r] = "dedupe" /\ r \in Converters /\ id[r] \in Ids /\ row[r] \in Row
      /\ UNCHANGED <<table, past>> /\ Stored(id[r]) /\ [id |-> id[r], row |-> row[r]] \in past
  BY DEF Dedupe, At, stores, IInv, RequestOK, RoleOf, LocalsOf, AskedBy, TypeOK
<1>2. row[r].surl = table[id[r]].surl
  <2>1. \A w \in past : w.row.surl = table[w.id].surl BY DEF IInv, StoresOK, VersionsOfOneLink
  <2>2. QED BY <1>1, <2>1
<1>3. Ended(r, "existing", table[id[r]].surl, None)
  BY <1>1, <1>2, FinishEffect DEF Dedupe, Kinds, Row, IInv
<1>4. QED BY <1>1, <1>3, TellsStored

LEMMA BloomAddTells ==
    ASSUME IInv, Origins, NEW r \in Req, BloomAdd(r) PROVE \E c \in Codes : Registry!Tell(r, c)
<1>1. /\ pc[r] = "bloom" /\ r \in Converters /\ num[r] \in Codes /\ UNCHANGED <<table, past>>
  BY DEF BloomAdd, At, IInv, RequestOK, RoleOf, TypeOK
<1>2. PICK i \in Ids : Stored(i) /\ table[i].surl = num[r]
  BY <1>1 DEF Origins, OriginsOf, PlacedOf, Placed
<1>3. Ended(r, "created", table[i].surl, None)
  BY <1>1, <1>2, FinishEffect DEF BloomAdd, Kinds, IInv
<1>4. QED BY <1>1, <1>2, <1>3, TellsStored

LEMMA CheckSends ==
    ASSUME IInv, Origins, NEW r \in Req, Check(r)
    PROVE  UNCHANGED Registry!vars \/ \E c \in Codes : Registry!Send(r, c)
<1>1. /\ pc[r] = "check" /\ r \in Showers /\ r \notin Converters /\ id[r] \in Ids /\ row[r] \in Row
      /\ UNCHANGED <<table, past>> /\ arg[r].code \in Codes
      /\ [id |-> id[r], row |-> row[r]] \in past
      /\ Fold[table[id[r]].surl] = Fold[arg[r].code]
  BY RequestsDisjoint DEF Check, At, stores, IInv, RequestOK, RoleOf, LocalsOf, AskedBy, TypeOK
<1>2. row[r].surl = table[id[r]].surl
  <2>1. \A w \in past : w.row.surl = table[w.id].surl BY DEF IInv, StoresOK, VersionsOfOneLink
  <2>2. QED BY <1>1, <2>1
<1>3. CASE Ended(r, "notFound", None, None)
  BY <1>1, <1>3, TellsNobody DEF Ended
<1>4. CASE Ended(r, "redirect", None, row[r].lurl)
  <2>1. answer[r].url = None
    BY <1>1 DEF IInv, RequestOK, LocalsOf, Origins, OriginsOf, Answered
  <2>2. [q \in Converters |-> answer'[q].code] = [q \in Converters |-> answer[q].code]
    BY <1>1, <1>4 DEF Ended, OthersStay, Req
  <2>3. [s \in Showers |-> answer'[s].url] = [[s \in Showers |-> answer[s].url] EXCEPT ![r] = row[r].lurl]
    <3>1. \A s \in Showers : answer'[s].url = IF s = r THEN row[r].lurl ELSE answer[s].url
      BY <1>1, <1>4 DEF Ended, OthersStay, Req
    <3>2. QED BY <3>1
  <2>4. PICK w \in past : w.row = row[r] BY <1>1
  <2>5. [code |-> w.row.surl, link |-> LinkOf(w.row)]
            \in {[code |-> v.row.surl, link |-> LinkOf(v.row)] : v \in past}
    BY <2>4
  <2>6. LinkOf(w.row).url = row[r].lurl /\ Fold[w.row.surl] = Fold[arg[r].code]
    BY <1>1, <1>2, <2>4 DEF LinkOf
  <2>7. QED BY <1>1, <2>1, <2>2, <2>3, <2>5, <2>6 DEF Registry!Send
<1>5. QED BY <1>1, <1>3, <1>4, FinishEffect DEF Check, Kinds, Row, IInv

(* The steps nobody who calls the service can tell *)
LEMMA OthersTellNobody ==
    ASSUME IInv, Origins, NEW r \in Req,
           \/ Lookup(r) \/ SelfCheck(r) \/ TakeNumber(r) \/ InsDel(r)
           \/ Merge(r) \/ UpdDel(r) \/ Exists(r) \/ Fail(r)
           \/ r \in Converters /\ Convert(r)
           \/ r \in Updaters /\ Update(r)
           \/ r \in Showers /\ Show(r)
    PROVE  UNCHANGED Registry!vars
<1>1. UNCHANGED <<table, past>> /\ pc[r] # "done"
  BY DEF Lookup, IdxGet, IdxDb, IdxPri, IdxSet, IdxHole, PriGet, PriDb, PriSet, SelfCheck,
         TakeNumber, InsDel, Merge, UpdDel, Exists, Fail, Convert, Update, Show, At, stores
<1>2. answer[r].code = None /\ answer[r].url = None
  BY <1>1 DEF IInv, RequestOK, LocalsOf, Origins, OriginsOf, Answered
<1>3. ASSUME NEW s, Goto(r, s) PROVE UNCHANGED Registry!vars
  BY <1>1, <1>2, <1>3, TellsNobody DEF Goto, OthersStay, IInv, TypeOK
<1>4. ASSUME NEW k \in Kinds, Finish(r, k, None, None) PROVE UNCHANGED Registry!vars
  <2>1. Ended(r, k, None, None) BY <1>4, FinishEffect DEF IInv
  <2>2. QED BY <1>1, <2>1, TellsNobody DEF Ended
<1>5. NotFound(r) => UNCHANGED Registry!vars BY <1>3, <1>4 DEF NotFound, Kinds
<1>6. CASE UpdDel(r)
  <2>1. /\ pc[r] = "updDel" /\ r \in Updaters /\ r \notin Converters /\ r \notin Showers
        /\ new[r] \in Row /\ arg[r].code \in Codes
    BY <1>6, RequestsDisjoint DEF UpdDel, At, IInv, RequestOK, RoleOf, LocalsOf, TypeOK
  <2>2. Ended(r, "updated", arg[r].code, new[r].lurl)
    BY <1>6, <2>1, FinishEffect DEF UpdDel, Kinds, IInv, Row
  <2>3. QED BY <1>1, <2>1, <2>2, TellsNobody DEF Ended
<1>7. CASE IdxGet(r) \/ IdxDb(r) \/ IdxPri(r) BY <1>7, <1>3, <1>5 DEF IdxGet, IdxDb, IdxPri
<1>8. CASE IdxSet(r) \/ IdxHole(r) \/ PriGet(r) BY <1>8, <1>3, <1>5 DEF IdxSet, IdxHole, PriGet
<1>9. CASE PriDb(r) \/ PriSet(r) \/ SelfCheck(r) \/ InsDel(r) \/ Merge(r)
  BY <1>9, <1>3 DEF PriDb, PriSet, SelfCheck, InsDel, Merge
<1>10. CASE TakeNumber(r) BY <1>10, <1>3 DEF TakeNumber, Draw
<1>11. CASE Exists(r) \/ Fail(r) \/ Convert(r) \/ Update(r) \/ Show(r)
  BY <1>11, <1>3, <1>4 DEF Exists, Fail, Convert, Update, Show, Kinds
<1>12. QED BY <1>6, <1>7, <1>8, <1>9, <1>10, <1>11 DEF Lookup

LEMMA StepRegisters == IInv /\ IInv' /\ Origins /\ [Next]_vars => [Registry!Next]_(Registry!vars)
<1> SUFFICES ASSUME IInv, IInv', Origins, [Next]_vars PROVE [Registry!Next]_(Registry!vars)
  OBVIOUS
<1>1. CASE Begin
  BY <1>1, OthersTellNobody DEF Begin, Req
<1>2. ASSUME NEW r \in Req, Step(r) \/ Fail(r) PROVE [Registry!Next]_(Registry!vars)
  <2>1. ASSUME UNCHANGED <<table, past>>, Ended(r, "error", None, None), pc[r] # "done"
        PROVE  UNCHANGED Registry!vars
    BY <2>1, TellsNobody DEF Ended
  <2>2. CASE Insert(r)
    BY <2>1, <2>2, InsertRegisters DEF Registry!Next, Insert, At
  <2>3. CASE Write(r)
    BY <2>1, <2>3, WriteChanges DEF Registry!Next, Write, At
  <2>4. CASE Dedupe(r) \/ BloomAdd(r)
    <3>1. r \in Converters
      BY <2>4 DEF Dedupe, BloomAdd, At, IInv, RequestOK, RoleOf
    <3>2. QED BY <2>4, <3>1, DedupeTells, BloomAddTells DEF Registry!Next
  <2>5. CASE Check(r)
    <3>1. r \in Showers
      BY <2>5 DEF Check, At, IInv, RequestOK, RoleOf
    <3>2. QED BY <2>5, <3>1, CheckSends DEF Registry!Next
  <2>6. QED BY <1>2, <2>2, <2>3, <2>4, <2>5, OthersTellNobody
            DEF Step, ConvertStep, UpdateStep, ShowStep
<1>3. CASE Expiry \/ Tick \/ (\E k \in delRetry : RetryDel(k)) \/ UNCHANGED vars
  <2>1. UNCHANGED <<table, past, answer>>
    BY <1>3 DEF Expiry, ExpireId, ExpireSurl, ExpireMd5, Tick, RetryDel, vars, stores
  <2>2. QED BY <2>1 DEF Registry!vars
<1>4. QED BY <1>1, <1>2, <1>3 DEF Next

(* Every step of every handler is a step of the registry of links, or one    *)
(* its callers cannot tell from none.                                        *)
THEOREM ImplementsTheRegistry == Spec => ImplementsRegistry
<1>1. Init => Registry!Init
  <2> SUFFICES ASSUME Init PROVE Registry!Init
    OBVIOUS
  <2>1. {[code |-> v.row.surl, link |-> LinkOf(v.row)] : v \in past}
          = {[code |-> c, link |-> LinksOf(InitTable)[c]] : c \in {d \in Codes : LinksOf(InitTable)[d] # NoRow}}
    <3>1. \A i \in Ids : InitTable[i] # NoRow =>
              /\ InitTable[i] \in Row /\ InitTable[i].surl \in Codes
              /\ LinksOf(InitTable)[InitTable[i].surl] = LinkOf(InitTable[i])
              /\ LinkOf(InitTable[i]) # NoRow
      BY InitTableAssumption, LinkAt, LinkIsUsed DEF Row
    <3>2. \A c \in Codes : LinksOf(InitTable)[c] # NoRow =>
              \E i \in Ids : InitTable[i] # NoRow /\ InitTable[i].surl = c
      BY NoLinkAt
    <3>3. past = {[id |-> i, row |-> InitTable[i]] : i \in {k \in Ids : InitTable[k] # NoRow}}
      BY DEF Init
    <3> DEFINE link(c) == [code |-> c, link |-> LinksOf(InitTable)[c]]
               led(v) == [code |-> v.row.surl, link |-> LinkOf(v.row)]
               Given == {d \in Codes : LinksOf(InitTable)[d] # NoRow}
    <3>4. ASSUME NEW v \in past PROVE \E c \in Given : led(v) = link(c)
      <4>1. PICK i \in Ids : InitTable[i] # NoRow /\ v = [id |-> i, row |-> InitTable[i]] BY <3>3
      <4>2. InitTable[i].surl \in Given /\ led(v) = link(InitTable[i].surl) BY <3>1, <4>1
      <4>3. QED BY <4>2
    <3>5. ASSUME NEW c \in Given PROVE \E v \in past : led(v) = link(c)
      <4>1. PICK i \in Ids : InitTable[i] # NoRow /\ InitTable[i].surl = c BY <3>2
      <4>2. PICK v : v = [id |-> i, row |-> InitTable[i]] OBVIOUS
      <4>3. v \in past /\ led(v) = link(c) BY <3>1, <3>3, <4>1, <4>2
      <4>4. QED BY <4>3
    <3> HIDE DEF Given, led, link
    <3>6. {led(v) : v \in past} = {link(c) : c \in Given} BY <3>4, <3>5
    <3>7. QED BY <3>6 DEF Given, led, link
  <2>2. /\ [k \in Converters |-> answer[k].code] = [k \in Converters |-> None]
        /\ [s \in Showers |-> answer[s].url] = [s \in Showers |-> None]
    BY DEF Init, Req
  <2>3. QED BY <2>1, <2>2 DEF Init, Registry!Init, Registry!Used
<1>2. QED BY <1>1, StepRegisters, OriginsHold, Invariance, PTL DEF Spec, ImplementsRegistry, Registry!Spec
=============================================================================
