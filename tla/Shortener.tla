------------------------------ MODULE Shortener ------------------------------
(***************************************************************************)
(* The short-link service: the handlers convert / internal create,        *)
(* internal update and show, running concurrently over a MySQL table, the *)
(* row cache and its two index caches in Redis, the INCR number sequence, *)
(* the Bloom filter and the click stream.                                  *)
(*                                                                         *)
(* A handler is a process that makes one remote call per step, so that    *)
(* the calls of different handlers interleave as they do in the servers'  *)
(* goroutines.  Any call may fail, and a server may die between any two.  *)
(***************************************************************************)
EXTENDS Naturals, Sequences

CONSTANTS
    Converters, Updaters, Showers,  \* requests, by handler; each is served once
    Urls,           \* long URLs; a URL also stands for its MD5 digest
    AskCodes,       \* the codes that visitors and operators ask for
    MaxSeq,         \* the largest number handed out
    Ids,            \* primary keys 1..n of short_url_map
    MaxTime,        \* the last tick of the clock
    BlackList,      \* codes kept for the service's own routes
    Fold,           \* the table's collation: code -> its case-folded class
    Hash,           \* code -> the filter's bits that the code sets
    InitTable, InitSeq,             \* the data the service starts on
    NoRow, Never, None, Miss, Hole  \* absence, in each of its forms

Req   == Converters \union Updaters \union Showers
Codes == 0 .. MaxSeq    \* a number stands for its code (Base62)
Times == 0 .. MaxTime
Row   == [surl : Codes, lurl : Urls, md5 : Urls, expireAt : Times \union {Never}]

(* No two rows of t share a digest, nor codes that the collation identifies *)
UniqueKeys(t) ==
    \A i, j \in Ids :
        /\ i # j /\ t[i] # NoRow /\ t[j] # NoRow
        => Fold[t[i].surl] # Fold[t[j].surl] /\ t[i].md5 # t[j].md5

InitHashes == UNION {Hash[InitTable[i].surl] : i \in {k \in Ids : InitTable[k] # NoRow}}

ASSUME RequestsDisjoint ==
    /\ Converters \intersect Updaters = {}
    /\ Converters \intersect Showers = {}
    /\ Updaters \intersect Showers = {}
ASSUME DataAssumption ==
    /\ MaxSeq \in Nat /\ MaxTime \in Nat /\ InitSeq \in Codes
    /\ AskCodes \subseteq Codes
    /\ Ids \subseteq Nat \ {0}
    /\ Fold \in [Codes -> Codes]
    /\ DOMAIN Hash = Codes
ASSUME MarkersAssumption ==
    /\ NoRow \notin Row \union [url : Urls, expireAt : Times \union {Never}]
    /\ Never \notin Nat
    /\ None \notin Urls \union Codes \union Times
    /\ {Miss, Hole} \intersect Ids = {} /\ Miss # Hole
ASSUME InitTableAssumption ==
    /\ InitTable \in [Ids -> Row \union {NoRow}]
    /\ UniqueKeys(InitTable)
    /\ \A i \in Ids : InitTable[i] # NoRow =>
           /\ InitTable[i].md5 = InitTable[i].lurl
           /\ InitTable[i].surl <= InitSeq
           /\ InitTable[i].surl \notin BlackList

VARIABLES
    table,      \* short_url_map: id -> row
    cacheId, cacheSurl, cacheMd5,   \* the keys of the row cache, by prefix
    delRetry,   \* deletions of cache keys that failed and are retried later
    seq,        \* the counter under the Redis key "a"
    bits,       \* the bits set under the Redis key "bloom"
    stream,     \* the click stream
    now,        \* the wall clock
    pc, arg,    \* a request's next call, and its parameters
    id, row,    \* the primary key and the copy of the row it has found
    new,        \* the row an update is about to write
    num,        \* the number a conversion has taken
    answer,     \* what the request was answered
    past        \* history: every version of every row that was committed

stores == <<table, cacheId, cacheSurl, cacheMd5, delRetry, seq, bits, stream, now>>
caches == <<cacheId, cacheSurl, cacheMd5>>
locals == <<arg, id, row, new, num>>
vars   == <<stores, pc, locals, answer, past>>

Steps == {"idle", "idxGet", "idxDb", "idxPri", "idxSet", "idxHole",
          "priGet", "priDb", "priSet",
          "dedupe", "selfCheck", "next", "insert", "insDel", "bloom",
          "merge", "write", "updDel", "exists", "check", "done"}
Kinds == {"none", "error", "notFound", "existing", "created", "updated", "redirect"}
Arg    == [code : Codes \union {None}, url : Urls \union {None}, expireAt : Times \union {None}]
Answer == [kind : Kinds, code : Codes \union {None}, url : Urls \union {None}]
Keys   == [id : Ids \union {Miss}, surl : Codes, md5 : Urls]
Version == [id : Ids, row : Row]
Event  == [eventId : Showers, shortCode : Codes]

TypeOK ==
    /\ table \in [Ids -> Row \union {NoRow}]
    /\ cacheId \in [Ids -> Row \union {NoRow}]
    /\ cacheSurl \in [Codes -> Ids \union {Miss, Hole}]
    /\ cacheMd5 \in [Urls -> Ids \union {Miss, Hole}]
    /\ delRetry \subseteq Keys
    /\ seq \in Codes
    /\ bits \subseteq UNION {Hash[c] : c \in Codes}
    /\ stream \in Seq(Event)
    /\ now \in Times
    /\ pc \in [Req -> Steps]
    /\ arg \in [Req -> Arg]
    /\ id \in [Req -> Ids \union {Miss}]
    /\ row \in [Req -> Row \union {NoRow}]
    /\ new \in [Req -> Row \union {NoRow}]
    /\ num \in [Req -> Codes]
    /\ answer \in [Req -> Answer]
    /\ past \subseteq Version

Init ==
    /\ table = InitTable
    /\ cacheId = [i \in Ids |-> NoRow]
    /\ cacheSurl = [c \in Codes |-> Miss]
    /\ cacheMd5 = [u \in Urls |-> Miss]
    /\ delRetry = {}
    /\ seq = InitSeq
    /\ bits = InitHashes
    /\ stream = <<>>
    /\ now = 0
    /\ pc = [r \in Req |-> "idle"]
    /\ arg = [r \in Req |-> [code |-> None, url |-> None, expireAt |-> None]]
    /\ id = [r \in Req |-> Miss]
    /\ row = [r \in Req |-> NoRow]
    /\ new = [r \in Req |-> NoRow]
    /\ num = [r \in Req |-> 0]
    /\ answer = [r \in Req |-> [kind |-> "none", code |-> None, url |-> None]]
    /\ past = {[id |-> i, row |-> InitTable[i]] : i \in {k \in Ids : InitTable[k] # NoRow}}

-----------------------------------------------------------------------------
(* The shape of a step: where the request goes on, and how it ends          *)

At(r, step) == pc[r] = step
Goto(r, step) == pc' = [pc EXCEPT ![r] = step] /\ UNCHANGED answer
Finish(r, k, c, u) ==
    /\ pc' = [pc EXCEPT ![r] = "done"]
    /\ answer' = [answer EXCEPT ![r] = [kind |-> k, code |-> c, url |-> u]]

(* A call of the request fails, its context is cancelled, or its server     *)
(* dies: the client gets an error or nothing, and what was done stays done. *)
Fail(r) ==
    /\ pc[r] \notin {"idle", "done"}
    /\ Finish(r, "error", None, None)
    /\ UNCHANGED <<stores, locals, past>>

-----------------------------------------------------------------------------
(* The cached model: FindOneByMd5, FindOneBySurl and FindOne of go-zero.    *)

(* Mutant of Matches: the digest is left out of the query's condition *)
MatchesNoDigest(r) ==
    {i \in Ids : /\ table[i] # NoRow
                 /\ r \in Converters \/ Fold[table[i].surl] = Fold[arg[r].code]}
(* Mutant of Matches: the query has no condition at all *)
MatchesAll(r) == {i \in Ids : table[i] # NoRow}

(* Rows that the query of the request's index key selects *)
Matches(r) ==
    {i \in Ids : /\ table[i] # NoRow
                 /\ IF r \in Converters THEN table[i].md5 = arg[r].url
                                        ELSE Fold[table[i].surl] = Fold[arg[r].code]}

IndexOf(r) == IF r \in Converters THEN cacheMd5[arg[r].url] ELSE cacheSurl[arg[r].code]
SetIndex(r, v) ==
    IF r \in Converters
    THEN cacheMd5' = [cacheMd5 EXCEPT ![arg[r].url] = v] /\ UNCHANGED cacheSurl
    ELSE cacheSurl' = [cacheSurl EXCEPT ![arg[r].code] = v] /\ UNCHANGED cacheMd5

(* Where the caller goes on with the row it asked for ... *)
Return(r) == CASE r \in Converters -> "dedupe"
               [] r \in Showers    -> "check"
               [] r \in Updaters   -> IF new[r] = NoRow THEN "merge" ELSE "write"
(* ... and with ErrNotFound *)
NotFound(r) == IF r \in Converters THEN Goto(r, "selfCheck")
                                   ELSE Finish(r, "error", None, None)

IdxGet(r) ==
    /\ At(r, "idxGet")
    /\ \/ IndexOf(r) = Miss /\ Goto(r, "idxDb") /\ UNCHANGED id
       \/ IndexOf(r) = Hole /\ NotFound(r) /\ UNCHANGED id
       \/ IndexOf(r) \in Ids /\ Goto(r, "priGet") /\ id' = [id EXCEPT ![r] = IndexOf(r)]
    /\ UNCHANGED <<stores, arg, row, new, num, past>>

IdxDb(r) ==
    /\ At(r, "idxDb")
    /\ \/ \E i \in Matches(r) :
              /\ id' = [id EXCEPT ![r] = i]
              /\ row' = [row EXCEPT ![r] = table[i]]
              /\ Goto(r, "idxPri")
       \/ Matches(r) = {} /\ Goto(r, "idxHole") /\ UNCHANGED <<id, row>>
    /\ UNCHANGED <<stores, arg, new, num, past>>

IdxPri(r) ==
    /\ At(r, "idxPri")
    /\ cacheId' = [cacheId EXCEPT ![id[r]] = row[r]]
    /\ Goto(r, "idxSet")
    /\ UNCHANGED <<table, cacheSurl, cacheMd5, delRetry, seq, bits, stream, now, locals, past>>

(* A failure to write the index key is only logged *)
IdxSet(r) ==
    /\ At(r, "idxSet")
    /\ SetIndex(r, id[r]) \/ UNCHANGED <<cacheSurl, cacheMd5>>
    /\ Goto(r, Return(r))
    /\ UNCHANGED <<table, cacheId, delRetry, seq, bits, stream, now, locals, past>>

(* SETNX of the placeholder: it never replaces what another request cached *)
IdxHole(r) ==
    /\ At(r, "idxHole")
    /\ (IndexOf(r) = Miss /\ SetIndex(r, Hole)) \/ UNCHANGED <<cacheSurl, cacheMd5>>
    /\ NotFound(r)
    /\ UNCHANGED <<table, cacheId, delRetry, seq, bits, stream, now, locals, past>>

PriGet(r) ==
    /\ At(r, "priGet")
    /\ IF cacheId[id[r]] = NoRow
       THEN Goto(r, "priDb") /\ UNCHANGED row
       ELSE Goto(r, Return(r)) /\ row' = [row EXCEPT ![r] = cacheId[id[r]]]
    /\ UNCHANGED <<stores, arg, id, new, num, past>>

PriDb(r) ==
    /\ At(r, "priDb")
    /\ row' = [row EXCEPT ![r] = table[id[r]]]
    /\ Goto(r, "priSet")
    /\ UNCHANGED <<stores, arg, id, new, num, past>>

(* Mutant of PriSet: an update caches the row it is about to write *)
PriSetEarly(r) ==
    /\ At(r, "priSet")
    /\ cacheId' = [cacheId EXCEPT ![id[r]] = IF new[r] = NoRow THEN row[r] ELSE new[r]]
    /\ Goto(r, Return(r))
    /\ UNCHANGED <<table, cacheSurl, cacheMd5, delRetry, seq, bits, stream, now, locals, past>>

PriSet(r) ==
    /\ At(r, "priSet")
    /\ cacheId' = [cacheId EXCEPT ![id[r]] = row[r]] \/ UNCHANGED cacheId
    /\ Goto(r, Return(r))
    /\ UNCHANGED <<table, cacheSurl, cacheMd5, delRetry, seq, bits, stream, now, locals, past>>

(* ExecCtx deletes the keys it is given after the statement; a deletion     *)
(* that fails is queued and retried, and the caller sees no error.          *)
Drop(k) ==
    /\ cacheId' = IF k.id = Miss THEN cacheId ELSE [cacheId EXCEPT ![k.id] = NoRow]
    /\ cacheSurl' = [cacheSurl EXCEPT ![k.surl] = Miss]
    /\ cacheMd5' = [cacheMd5 EXCEPT ![k.md5] = Miss]

DelCache(k) == \/ Drop(k) /\ UNCHANGED delRetry
               \/ delRetry' = delRetry \union {k} /\ UNCHANGED caches

RetryDel(k) ==
    /\ k \in delRetry
    /\ Drop(k)
    /\ delRetry' = delRetry \ {k}
    /\ UNCHANGED <<table, seq, bits, stream, now, pc, locals, answer, past>>

(* Every key of the cache is written with a time to live *)
ExpireId(i) ==
    /\ cacheId[i] # NoRow
    /\ cacheId' = [cacheId EXCEPT ![i] = NoRow]
    /\ UNCHANGED <<table, cacheSurl, cacheMd5, delRetry, seq, bits, stream, now, pc, locals, answer, past>>
ExpireSurl(c) ==
    /\ cacheSurl[c] # Miss
    /\ cacheSurl' = [cacheSurl EXCEPT ![c] = Miss]
    /\ UNCHANGED <<table, cacheId, cacheMd5, delRetry, seq, bits, stream, now, pc, locals, answer, past>>
ExpireMd5(u) ==
    /\ cacheMd5[u] # Miss
    /\ cacheMd5' = [cacheMd5 EXCEPT ![u] = Miss]
    /\ UNCHANGED <<table, cacheId, cacheSurl, delRetry, seq, bits, stream, now, pc, locals, answer, past>>

-----------------------------------------------------------------------------
(* Convert, and the internal Create that wraps it                           *)

(* The URL answered connect.Get; one that does not is Fail(r)'s first case. *)
Convert(r) ==
    /\ At(r, "idle")
    /\ \E u \in Urls : arg' = [arg EXCEPT ![r] = [code |-> None, url |-> u, expireAt |-> None]]
    /\ Goto(r, "idxGet")
    /\ UNCHANGED <<stores, id, row, new, num, past>>

Dedupe(r) ==
    /\ At(r, "dedupe")
    /\ Finish(r, "existing", row[r].surl, None)
    /\ UNCHANGED <<stores, locals, past>>

(* The guard against shortening a short link takes the base path of the     *)
(* digest: 32 hexadecimal digits, which no varchar(11) code equals, so that *)
(* the lookup ends in ErrNotFound; the placeholder it caches says the same. *)
SelfCheck(r) ==
    /\ At(r, "selfCheck")
    /\ Goto(r, "next")
    /\ UNCHANGED <<stores, locals, past>>

(* Mutant of Draw: the black list is not looked up *)
DrawAny(r, n) == Goto(r, "insert") /\ num' = [num EXCEPT ![r] = n]

(* INCR: an error is swallowed and becomes the number 0, whether or not the *)
(* server had incremented the counter.  MaxSeq bounds the counter.          *)
Draw(r, n) == IF n \in BlackList
               THEN Goto(r, "next") /\ UNCHANGED num
               ELSE Goto(r, "insert") /\ num' = [num EXCEPT ![r] = n]
TakeNumber(r) ==
    /\ At(r, "next")
    /\ \/ seq < MaxSeq /\ seq' = seq + 1 /\ Draw(r, seq + 1)
       \/ seq < MaxSeq /\ seq' = seq + 1 /\ Draw(r, 0)
       \/ UNCHANGED seq /\ Draw(r, 0)
    /\ UNCHANGED <<table, caches, delRetry, bits, stream, now, arg, id, row, new, past>>

(* Mutant of Clashes: md5 is not a unique key *)
ClashesSurl(i, x) == \E j \in Ids \ {i} : table[j] # NoRow /\ Fold[table[j].surl] = Fold[x.surl]
Clashes(i, x) == \E j \in Ids \ {i} : /\ table[j] # NoRow
                                      /\ \/ table[j].md5 = x.md5
                                         \/ Fold[table[j].surl] = Fold[x.surl]
NextId(i) == table[i] = NoRow /\ \A j \in Ids : j < i => table[j] # NoRow
Commit(i, x) ==
    /\ table' = [table EXCEPT ![i] = x]
    /\ past' = past \union {[id |-> i, row |-> x]}

(* Mutant of Insert: the digest column is left NULL *)
InsertNoDigest(r) ==
    /\ At(r, "insert")
    /\ \E i \in Ids :
           /\ NextId(i)
           /\ Commit(i, [surl |-> num[r], lurl |-> arg[r].url, md5 |-> None, expireAt |-> Never])
           /\ Goto(r, "insDel")
    /\ UNCHANGED <<caches, delRetry, seq, bits, stream, now, locals>>

(* Mutant of Insert: a duplicate key draws another number *)
InsertRedraws(r) ==
    /\ At(r, "insert")
    /\ \E i \in Ids :
           LET x == [surl |-> num[r], lurl |-> arg[r].url, md5 |-> arg[r].url, expireAt |-> Never]
           IN  /\ NextId(i)
               /\ IF Clashes(i, x)
                  THEN Goto(r, "next") /\ UNCHANGED <<table, past>>
                  ELSE Commit(i, x) /\ Goto(r, "insDel")
    /\ UNCHANGED <<caches, delRetry, seq, bits, stream, now, locals>>

Insert(r) ==
    /\ At(r, "insert")
    /\ \E i \in Ids :
           LET x == [surl |-> num[r], lurl |-> arg[r].url, md5 |-> arg[r].url, expireAt |-> Never]
           IN  /\ NextId(i)
               /\ IF Clashes(i, x)
                  THEN Finish(r, "error", None, None) /\ UNCHANGED <<table, past>>
                  ELSE Commit(i, x) /\ Goto(r, "insDel")
    /\ UNCHANGED <<caches, delRetry, seq, bits, stream, now, locals>>

(* Mutant of InsDel: the key of the code is not deleted *)
InsDelMd5Only(r) ==
    /\ At(r, "insDel")
    /\ cacheMd5' = [cacheMd5 EXCEPT ![arg[r].url] = Miss]
    /\ Goto(r, "bloom")
    /\ UNCHANGED <<table, cacheId, cacheSurl, delRetry, seq, bits, stream, now, locals, past>>

(* Insert deletes the key of id 0, since the new id is not known to it *)
InsDel(r) ==
    /\ At(r, "insDel")
    /\ DelCache([id |-> Miss, surl |-> num[r], md5 |-> arg[r].url])
    /\ Goto(r, "bloom")
    /\ UNCHANGED <<table, seq, bits, stream, now, locals, past>>

(* Mutant of BloomAdd: an error of the filter is only logged *)
BloomAddLogged(r) ==
    /\ At(r, "bloom")
    /\ bits' = bits \union Hash[num[r]] \/ UNCHANGED bits
    /\ Finish(r, "created", num[r], None)
    /\ UNCHANGED <<table, caches, delRetry, seq, stream, now, locals, past>>
BloomAdd(r) ==
    /\ At(r, "bloom")
    /\ bits' = bits \union Hash[num[r]]
    /\ Finish(r, "created", num[r], None)
    /\ UNCHANGED <<table, caches, delRetry, seq, stream, now, locals, past>>

-----------------------------------------------------------------------------
(* Internal update                                                          *)

Update(r) ==
    /\ At(r, "idle")
    /\ \E c \in AskCodes, u \in Urls \union {None}, e \in Times \union {None} :
           /\ arg' = [arg EXCEPT ![r] = [code |-> c, url |-> u, expireAt |-> e]]
           /\ IF u = None /\ e = None THEN Finish(r, "error", None, None)
                                      ELSE Goto(r, "idxGet")
    /\ UNCHANGED <<stores, id, row, new, num, past>>

(* Mutant of Merged: the digest is not computed anew *)
MergedOldDigest(r) ==
    LET a == arg[r]
        o == row[r]
    IN  [o EXCEPT !.lurl     = IF a.url = None THEN @ ELSE a.url,
                  !.expireAt = IF a.expireAt = None THEN @ ELSE a.expireAt]
(* Mutant of Merged: an expiry that was not given is written as zero time *)
MergedZeroTime(r) ==
    LET a == arg[r]
        o == row[r]
    IN  [o EXCEPT !.lurl     = IF a.url = None THEN @ ELSE a.url,
                  !.md5      = IF a.url = None THEN @ ELSE a.url,
                  !.expireAt = IF a.expireAt = None THEN 0 ELSE a.expireAt]
(* Mutant of Merged: the code comes from the request, not from the row *)
MergedAskedCode(r) ==
    LET a == arg[r]
        o == row[r]
    IN  [o EXCEPT !.surl     = a.code,
                  !.lurl     = IF a.url = None THEN @ ELSE a.url,
                  !.md5      = IF a.url = None THEN @ ELSE a.url,
                  !.expireAt = IF a.expireAt = None THEN @ ELSE a.expireAt]
(* Fields that were not given keep the value of the copy that was read *)
Merged(r) ==
    LET a == arg[r]
        o == row[r]
    IN  [surl     |-> o.surl,
         lurl     |-> IF a.url = None THEN o.lurl ELSE a.url,
         md5      |-> IF a.url = None THEN o.md5 ELSE a.url,
         expireAt |-> IF a.expireAt = None THEN o.expireAt ELSE a.expireAt]

Merge(r) ==
    /\ At(r, "merge")
    /\ new' = [new EXCEPT ![r] = Merged(r)]
    /\ Goto(r, "priGet")
    /\ UNCHANGED <<stores, arg, id, row, num, past>>

(* All columns are written, at the id of the copy *)
Write(r) ==
    /\ At(r, "write")
    /\ IF Clashes(id[r], new[r])
       THEN Finish(r, "error", None, None) /\ UNCHANGED <<table, past>>
       ELSE Commit(id[r], new[r]) /\ Goto(r, "updDel")
    /\ UNCHANGED <<caches, delRetry, seq, bits, stream, now, locals>>

(* The keys come from the copy FindOne returned, hence the old digest's *)
UpdDel(r) ==
    /\ At(r, "updDel")
    /\ DelCache([id |-> id[r], surl |-> row[r].surl, md5 |-> row[r].md5])
    /\ Finish(r, "updated", arg[r].code, new[r].lurl)
    /\ UNCHANGED <<table, seq, bits, stream, now, locals, past>>

-----------------------------------------------------------------------------
(* Show                                                                     *)

Show(r) ==
    /\ At(r, "idle")
    /\ \E c \in AskCodes : arg' = [arg EXCEPT ![r] = [code |-> c, url |-> None, expireAt |-> None]]
    /\ Goto(r, "exists")
    /\ UNCHANGED <<stores, id, row, new, num, past>>

Exists(r) ==
    /\ At(r, "exists")
    /\ IF Hash[arg[r].code] \subseteq bits THEN Goto(r, "idxGet")
                                           ELSE Finish(r, "notFound", None, None)
    /\ UNCHANGED <<stores, locals, past>>

Expired(x) == x.expireAt # Never /\ x.expireAt <= now

(* Mutant of Check: the expiry is not looked at *)
CheckNoExpiry(r) ==
    /\ At(r, "check")
    /\ Finish(r, "redirect", None, row[r].lurl)
    /\ stream' = Append(stream, [eventId |-> r, shortCode |-> arg[r].code])
    /\ UNCHANGED <<table, caches, delRetry, seq, bits, now, locals, past>>
(* A click that XADD cannot append is lost; the visitor is redirected *)
Check(r) ==
    /\ At(r, "check")
    /\ IF Expired(row[r])
       THEN Finish(r, "notFound", None, None) /\ UNCHANGED stream
       ELSE /\ Finish(r, "redirect", None, row[r].lurl)
            /\ \/ stream' = Append(stream, [eventId |-> r, shortCode |-> arg[r].code])
               \/ UNCHANGED stream
    /\ UNCHANGED <<table, caches, delRetry, seq, bits, now, locals, past>>

Tick == now < MaxTime /\ now' = now + 1
        /\ UNCHANGED <<table, caches, delRetry, seq, bits, stream, pc, locals, answer, past>>

-----------------------------------------------------------------------------
Lookup(r) == \/ IdxGet(r) \/ IdxDb(r) \/ IdxPri(r) \/ IdxSet(r) \/ IdxHole(r)
             \/ PriGet(r) \/ PriDb(r) \/ PriSet(r)
ConvertStep(r) == \/ Dedupe(r) \/ SelfCheck(r) \/ TakeNumber(r)
                  \/ Insert(r) \/ InsDel(r) \/ BloomAdd(r)
(* Mutant of UpdateStep: the keys are deleted before the statement *)
UpdateStepDeletesFirst(r) ==
    \/ Merge(r)
    \/ /\ At(r, "write")
       /\ DelCache([id |-> id[r], surl |-> row[r].surl, md5 |-> row[r].md5])
       /\ Goto(r, "updDel")
       /\ UNCHANGED <<table, seq, bits, stream, now, locals, past>>
    \/ /\ At(r, "updDel")
       /\ IF Clashes(id[r], new[r])
          THEN Finish(r, "error", None, None) /\ UNCHANGED <<table, past>>
          ELSE Commit(id[r], new[r]) /\ Finish(r, "updated", arg[r].code, new[r].lurl)
       /\ UNCHANGED <<caches, delRetry, seq, bits, stream, now, locals>>
UpdateStep(r) == Merge(r) \/ Write(r) \/ UpdDel(r)
ShowStep(r) == Exists(r) \/ Check(r)
Step(r) == Lookup(r) \/ ConvertStep(r) \/ UpdateStep(r) \/ ShowStep(r)

Begin == \/ \E r \in Converters : Convert(r)
         \/ \E r \in Updaters : Update(r)
         \/ \E r \in Showers : Show(r)
Expiry == \/ \E i \in Ids : ExpireId(i)
          \/ \E c \in Codes : ExpireSurl(c)
          \/ \E u \in Urls : ExpireMd5(u)

Next == \/ Begin
        \/ \E r \in Req : Step(r) \/ Fail(r)
        \/ \E k \in delRetry : RetryDel(k)
        \/ Expiry
        \/ Tick

Spec == Init /\ [][Next]_vars

(* A goroutine that can go on does *)
Fairness == \A r \in Req : WF_vars(Step(r))
LiveSpec == Spec /\ Fairness
=============================================================================
