------------------------- MODULE ShortenerCoherence -------------------------
(***************************************************************************)
(* What the row cache may hold that the table does not, and why: the       *)
(* handlers of Shortener.tla with a history of the races that the order of *)
(* statement and deletion (ExecCtx of go-zero) leaves open.                *)
(***************************************************************************)
EXTENDS ShortenerProperties

VARIABLES
    overtaken,  \* versions in the hand of a lookup, not cached yet, that a statement replaced
    missed,     \* codes placed while a lookup was about to cache that they are not there
    died        \* requests that ended between their statement and the deletion of the keys

history == <<overtaken, missed, died>>
coherenceVars == <<vars, history>>

(* Lookups that hold a row they are about to cache, by their id or index *)
Filling == {r \in Req : pc[r] \in {"idxPri", "priSet"}}
(* Lookups of a code that are about to cache its placeholder *)
Denying == {r \in Req \ Converters : pc[r] = "idxHole"}

HistoryInit == overtaken = {} /\ missed = {} /\ died = {}
HistoryStep ==
    /\ overtaken' = overtaken \union
           {[id |-> id[r], row |-> row[r]] : r \in {q \in Filling : table'[id[q]] # table[id[q]]}}
    /\ missed' = missed \union
           {arg[r].code : r \in {q \in Denying : \E i \in Ids :
                /\ table[i] = NoRow
                /\ table'[i] # NoRow /\ table'[i].surl = arg[q].code}}
    /\ died' = died \union
           {r \in Req : /\ pc[r] \in {"insDel", "updDel"}
                        /\ pc'[r] = "done" /\ answer'[r].kind = "error"}

CoherenceInit == Init /\ HistoryInit
CoherenceNext == Next /\ HistoryStep
CoherenceSpec == CoherenceInit /\ [][CoherenceNext]_coherenceVars

-----------------------------------------------------------------------------
(* A request has changed the table and will not have deleted the keys yet,  *)
(* or never will                                                            *)
Pending(r) == pc[r] \in {"insDel", "updDel"} \/ r \in died

(* ExecCtx: the statement first, the keys after it.  A cached row is the    *)
(* table's, or it will be deleted (by the update that replaced it, or by a  *)
(* retry), or one of two things went wrong: a server died between statement *)
(* and deletion, or a lookup that had loaded the row before the statement   *)
(* cached it after the deletion.                                            *)
StaleRowsHaveACause ==
    \A i \in Ids : cacheId[i] \notin {NoRow, table[i]} =>
        \/ \E p \in Updaters : Pending(p) /\ id[p] = i
        \/ \E k \in delRetry : k.id = i
        \/ [id |-> i, row |-> cacheId[i]] \in overtaken

(* Likewise of the placeholder that says a code is not there: it hides no    *)
(* stored link but while the conversion that placed it is about to delete   *)
(* the key, or will be deleted by a retry, or the server died, or a lookup   *)
(* had found nothing before the INSERT.  The key of a placeholder is the    *)
(* code as it was asked for: under a code that only the collation identifies *)
(* with the link's, no one deletes it, and nothing is said here.             *)
HolesHaveACause ==
    \A c \in Codes : cacheSurl[c] = Hole /\ (\E i \in Ids : Stored(i) /\ table[i].surl = c) =>
        \/ \E r \in Converters : Pending(r) /\ num[r] = c
        \/ \E k \in delRetry : k.surl = c
        \/ c \in missed

(* What the proofs add: a row in the hand of a lookup is the table's or was   *)
(* overtaken, a lookup that found no such code was right or was missed, and  *)
(* who died is done.                                                         *)
FillingOK == \A r \in Filling :
    row[r] = table[id[r]] \/ [id |-> id[r], row |-> row[r]] \in overtaken
DenyingOK == \A r \in Denying :
    (\E i \in Ids : Stored(i) /\ table[i].surl = arg[r].code) => arg[r].code \in missed
DiedAreDone == \A r \in died : r \in Req /\ pc[r] = "done"
CoherenceInv == DiedAreDone /\ FillingOK /\ DenyingOK /\ StaleRowsHaveACause /\ HolesHaveACause
=============================================================================
