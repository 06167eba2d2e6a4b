-------------------------- MODULE TrafficProperties --------------------------
(* What the traffic service promises of the clicks it reads. *)
EXTENDS ClickConsumer

Of(S, k) == {e \in S : KeyOf[e] = k}
AddrsOf(S, k) == {AddrOf[e] : e \in Of(S, k)} \ {NoAddr}
Delivered == origin + 1 .. last

(* However often a click is in the stream, and whichever workers crash at    *)
(* it, the page views are those of stored clicks and count none twice: the   *)
(* unique event_id stands between redelivery and the += 1 of the statistics. *)
PvCountsStored == \A k \in Keys : pv[k] <= Cardinality(Of(details, k))

(* XACK tells Redis to forget an entry: one that carries a code and is       *)
(* acknowledged has its click in the detail table.                           *)
AckedIsStored ==
    \A i \in Delivered \ pel : stream[i] \in details /\ KeyOf[stream[i]] # NoKey

(* With one worker and a Redis that keeps what it is told, unique visitors   *)
(* never exceed the addresses that clicked, although SISMEMBER, SADD and the *)
(* statistics are three steps that a crash may separate.                     *)
UvAtMostAddresses == \A k \in Keys : uv[k] <= Cardinality(AddrsOf(details, k))

(* The workers count clicks as the counter does, whatever fails: storing,    *)
(* looking up visitors and acknowledging are not seen from outside.          *)
Counter == INSTANCE ClickCounter WITH sent <- {stream[i] : i \in Entries}
CountsAsPromised == Counter!Spec

(* When nothing fails, every click reported to the group is counted, each    *)
(* address of a day once, and nothing is left pending.                       *)
Settled ==
    LET S == {stream[i] : i \in origin + 1 .. Len(stream)} IN
    /\ counted = {e \in S : KeyOf[e] # NoKey}
    /\ \A k \in Keys : /\ pv[k] = Cardinality(Of(S, k))
                       /\ uv[k] = Cardinality(AddrsOf(S, k))
    /\ \A i \in pel : KeyOf[stream[i]] = NoKey
CountsSettle == failing = {} => <>[]Settled

-----------------------------------------------------------------------------
(* The strengthening the proofs rest on.  What a worker holds was delivered, *)
(* and from the details on its click is stored ...                           *)
WorkerOK(w) ==
    /\ \A i \in DOMAIN batch[w] : batch[w][i] \in Delivered
    /\ pc[w] \in {"insert", "member", "add", "upsert", "ack"} => batch[w] # <<>>
    /\ pc[w] \in {"member", "add", "upsert", "ack"} => Click(w) \in details /\ Key(w) \in Keys
    /\ pc[w] \in {"member", "add", "upsert"} => Click(w) \notin counted
    /\ pc[w] = "add" => Addr(w) \in Addrs
(* ... no two workers are about to count the same click ...                  *)
Counting(w) == pc[w] \in {"member", "add", "upsert"}
OneCounts ==
    \A v, w \in Workers : v # w /\ Counting(v) /\ Counting(w) => Click(v) # Click(w)
(* ... and the page views are the clicks counted, which are all stored.      *)
PvIsCounted ==
    /\ counted \subseteq details
    /\ details \subseteq {stream[i] : i \in Entries}
    /\ \A e \in details : KeyOf[e] \in Keys
    /\ \A k \in Keys : pv[k] = Cardinality(Of(counted, k))

(* Nothing is delivered before there is a group.                             *)
GroupFirst == ~group => last = 0

IInv == /\ TypeOK /\ GroupFirst /\ PvIsCounted /\ AckedIsStored /\ OneCounts
        /\ \A w \in Workers : WorkerOK(w)

-----------------------------------------------------------------------------
(* Documented, and not what the code does.                                   *)

(* click_consumer.go:37: the workers go on fetching and handling clicks.     *)
(* Every entry delivered is acknowledged at some time.                       *)
EveryEntryHandled == \A i \in 1 .. MaxStream : (i \in pel) ~> (i \notin pel)
=============================================================================
