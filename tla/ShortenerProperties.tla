------------------------- MODULE ShortenerProperties -------------------------
(***************************************************************************)
(* What the short-link service promises, over the specification of its    *)
(* handlers.  The statements under "documented" are made by comments of   *)
(* the source and the runs show executions that break them.               *)
(***************************************************************************)
EXTENDS Shortener, Base62

Stored(i) == table[i] # NoRow
Answered(r, k) == answer[r].kind = k

(* Every copy of a row, in the table, the row cache or a handler's locals, *)
(* is a version that was committed for the id it is kept under: no cache   *)
(* key ever serves another link's row, or one that never was in the table. *)
CopiesCommitted ==
    /\ \A i \in Ids : Stored(i) => [id |-> i, row |-> table[i]] \in past
    /\ \A i \in Ids : cacheId[i] # NoRow => [id |-> i, row |-> cacheId[i]] \in past
    /\ \A r \in Req : row[r] # NoRow => [id |-> id[r], row |-> row[r]] \in past

(* The versions of one id are versions of one link: whatever races wrote    *)
(* them, they carry the code the id was created with and the digest of      *)
(* their own long URL, which dedupe by digest (FindOneByMd5) depends on.    *)
VersionsOfOneLink ==
    \A v \in past : /\ Stored(v.id)
                    /\ v.row.surl = table[v.id].surl
                    /\ v.row.md5 = v.row.lurl

(* The index caches name the right row: a surl key leads to a row whose     *)
(* code the collation identifies with it, a md5 key to a row that has had   *)
(* that digest.                                                             *)
IndexesPointRight ==
    /\ \A c \in Codes : cacheSurl[c] \in Ids =>
           Stored(cacheSurl[c]) /\ Fold[table[cacheSurl[c]].surl] = Fold[c]
    /\ \A u \in Urls : cacheMd5[u] \in Ids =>
           \E v \in past : v.id = cacheMd5[u] /\ v.row.md5 = u

(* A row is never removed, and never handed to another code, although an    *)
(* update writes the surl column from a copy that may be stale.             *)
RowsKeepTheirCode ==
    [][\A i \in Ids : Stored(i) => table'[i] # NoRow /\ table'[i].surl = table[i].surl]_vars

(* A redirect leads where the asked link led in some committed version, one *)
(* that had not expired when the redirect was decided: expiry and target    *)
(* come from a single version, never a mix of two.                          *)
RedirectsServeAVersion ==
    [][\A s \in Showers :
           ~Answered(s, "redirect") /\ Answered(s, "redirect")' =>
               \E v \in past : /\ Fold[v.row.surl] = Fold[arg[s].code]
                               /\ v.row.lurl = answer'[s].url
                               /\ ~Expired(v.row)]_vars

(* "Already converted" names a code that has led to the URL that was sent. *)
ExistingWasTrue ==
    \A r \in Converters : Answered(r, "existing") =>
        \E v \in past : v.row.surl = answer[r].code /\ v.row.md5 = arg[r].url

(* A code that convert returned stays reachable: its row is stored, it lets *)
(* the filter pass, and no other conversion was given the same text.        *)
CreatedIsReachable ==
    \A r \in Converters : Answered(r, "created") =>
        /\ \E i \in Ids : Stored(i) /\ table[i].surl = answer[r].code
        /\ Hash[answer[r].code] \subseteq bits
        /\ \A q \in Converters \ {r} : Answered(q, "created") =>
               Int2String(answer[q].code) # Int2String(answer[r].code)

(* No route of the service is ever shadowed by a stored code. *)
ReservedCodesUnused == \A i \in Ids : Stored(i) => table[i].surl \notin BlackList

(* Who asked for it: the target and the expiry of a version were there from *)
(* the start, or a conversion or an update of that very link sent them.     *)
UpdatersOf(v) == {p \in Updaters : /\ arg[p].code # None
                                   /\ Fold[arg[p].code] = Fold[v.row.surl]}
SentBy(v, u) == \/ \E r \in Converters : num[r] = v.row.surl /\ arg[r].url = u
                \/ \E p \in UpdatersOf(v) : arg[p].url = u
FieldsWereSent ==
    \A v \in past :
        LET o == InitTable[v.id] IN
        /\ (o # NoRow /\ v.row.lurl = o.lurl) \/ SentBy(v, v.row.lurl)
        /\ \/ v.row.expireAt = IF o # NoRow THEN o.expireAt ELSE Never
           \/ \E p \in UpdatersOf(v) : arg[p].expireAt = v.row.expireAt

(* Every request that was accepted is answered, also the conversions that   *)
(* draw numbers in a loop until one is not reserved.                        *)
EveryRequestEnds == \A r \in Req : pc[r] # "idle" ~> pc[r] = "done"

(* The strengthening the proofs rest on.  Which handler may be at which      *)
(* call, and the parameters it then has ...                                  *)
RoleOf(r) ==
    /\ pc[r] \in {"dedupe", "selfCheck", "next", "insert", "insDel", "bloom"} => r \in Converters
    /\ pc[r] \in {"merge", "write", "updDel"} => r \in Updaters
    /\ pc[r] \in {"exists", "check"} => r \in Showers
    /\ pc[r] # "idle" /\ r \in Converters => arg[r].url \in Urls
    /\ pc[r] # "idle" /\ r \notin Converters => arg[r].code \in Codes
(* ... what its locals hold there ...                                        *)
LocalsOf(r) ==
    /\ pc[r] \in {"idle", "exists", "idxGet", "idxDb", "idxHole"} =>
           row[r] = NoRow /\ new[r] = NoRow /\ id[r] = Miss
    /\ pc[r] \in {"idxPri", "idxSet", "priGet", "priDb", "priSet",
                  "dedupe", "check", "merge", "write", "updDel"} => id[r] \in Ids
    /\ pc[r] \in {"idxPri", "idxSet", "priSet",
                  "dedupe", "check", "merge", "write", "updDel"} => row[r] # NoRow
    /\ pc[r] \in {"write", "updDel"} => new[r] # NoRow
    /\ row[r] # NoRow \/ new[r] # NoRow => id[r] \in Ids
    /\ pc[r] # "done" => answer[r].kind = "none"
(* ... that the row it is at is the one it asked for, that its copy and the  *)
(* row it is about to write are versions of that row ...                     *)
AskedBy(r) ==
    id[r] \in Ids =>
        /\ Stored(id[r])
        /\ r \notin Converters => Fold[table[id[r]].surl] = Fold[arg[r].code]
        /\ r \in Converters => \E v \in past : v.id = id[r] /\ v.row.md5 = arg[r].url
        /\ row[r] # NoRow => [id |-> id[r], row |-> row[r]] \in past
        /\ new[r] # NoRow => new[r].surl = table[id[r]].surl /\ new[r].md5 = new[r].lurl
(* ... and that it is answered with what it found.                           *)
ExistingOf(r) ==
    r \in Converters /\ Answered(r, "existing") =>
        \E v \in past : v.row.surl = answer[r].code /\ v.row.md5 = arg[r].url
RequestOK(r) == RoleOf(r) /\ LocalsOf(r) /\ AskedBy(r) /\ ExistingOf(r)

TableCommitted == \A i \in Ids : Stored(i) => [id |-> i, row |-> table[i]] \in past
CacheCommitted == \A i \in Ids : cacheId[i] # NoRow => [id |-> i, row |-> cacheId[i]] \in past
StoresOK == /\ TableCommitted /\ CacheCommitted
            /\ VersionsOfOneLink /\ IndexesPointRight /\ UniqueKeys(table)

IInv == TypeOK /\ StoresOK /\ \A r \in Req : RequestOK(r)

(* The handlers implement the registry of links: a link exists from the     *)
(* INSERT on, a client is told by its answer, a visitor is sent by its      *)
(* redirect, and every other step of a handler changes nothing a caller of  *)
(* the service could tell.                                                  *)
LinkOf(x) == [url |-> x.lurl, expireAt |-> x.expireAt]
LinksOf(t) == [c \in Codes |->
    IF \E i \in Ids : t[i] # NoRow /\ t[i].surl = c
    THEN LinkOf(t[CHOOSE i \in Ids : t[i] # NoRow /\ t[i].surl = c])
    ELSE NoRow]
Registry == INSTANCE LinkRegistry WITH
    Expiries  <- Times \union {Never},
    Clients   <- Converters,
    Visitors  <- Showers,
    Reserved  <- BlackList,
    Unused    <- NoRow,
    InitLinks <- LinksOf(InitTable),
    links <- LinksOf(table),
    led   <- {[code |-> v.row.surl, link |-> LinkOf(v.row)] : v \in past},
    told  <- [k \in Converters |-> answer[k].code],
    sent  <- [s \in Showers |-> answer[s].url]
ImplementsRegistry == Registry!Spec

-----------------------------------------------------------------------------
(* Documented, and not what the code does.                                  *)

(* convertlogic.go:103: a converted link is added to the Bloom filter.  With *)
(* no request running, every stored code passes the filter.                  *)
StoredPassFilter ==
    (\A r \in Req : pc[r] \in {"idle", "done"}) =>
        \A i \in Ids : Stored(i) => Hash[table[i].surl] \subseteq bits

(* base62.go:12-14: lower and upper case are different digits.  A number     *)
(* never used before is not refused to a URL never stored before.            *)
FreshNumbersAccepted ==
    \A r \in Converters : At(r, "insert") =>
        \/ \E i \in Ids : Stored(i) /\ (table[i].surl = num[r] \/ table[i].md5 = arg[r].url)
        \/ ~\E j \in Ids : Stored(j) /\ Fold[table[j].surl] = Fold[num[r]]
=============================================================================
