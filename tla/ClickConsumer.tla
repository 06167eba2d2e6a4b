---------------------------- MODULE ClickConsumer ----------------------------
(***************************************************************************)
(* The click consumers of the traffic service: workers that read the click *)
(* stream through a Redis consumer group, store each click and count it    *)
(* into the page views and unique visitors of its code and day.            *)
(*                                                                         *)
(* A worker makes one call to Redis or MySQL per step.  In an execution     *)
(* nothing fails, or any of Faults does; a failed write may have been       *)
(* applied all the same.                                                    *)
(***************************************************************************)
EXTENDS Integers, Sequences, FiniteSets

CONSTANTS
    Workers,
    Clicks,     \* event ids
    Keys,       \* a short code and a day
    Addrs,      \* remote addresses
    KeyOf,      \* the key of a click, or NoKey if it carries no short code
    AddrOf,     \* the address of a click, or NoAddr
    BatchSize,  \* COUNT of a read
    MaxStream,  \* bound on the length of the stream
    Faults,     \* the calls that may fail, and "crash" and "expire"
    NoKey, NoAddr

ASSUME ClicksAssumption ==
    /\ IsFiniteSet(Clicks) /\ NoKey \notin Keys
    /\ KeyOf \in [Clicks -> Keys \union {NoKey}]
    /\ AddrOf \in [Clicks -> Addrs \union {NoAddr}]
ASSUME BoundsAssumption == BatchSize \in Nat \ {0} /\ MaxStream \in Nat

VARIABLES
    stream,     \* the stream's entries, oldest first: the event id each carries
    group,      \* whether the consumer group exists
    last,       \* the group's last delivered entry
    pel,        \* entries delivered and not acknowledged
    details,    \* short_url_click_event, by its unique event_id
    pv, uv,     \* short_url_daily_stat
    visitors,   \* the sets uv:<code>:<day>
    pc,         \* a worker's next call
    batch,      \* the entries it has read and not yet handled
    delta,      \* uvDelta of the one it is at
    failing,    \* what fails in this execution
    origin,     \* history: where the group started in the stream
    counted     \* history: the clicks that reached short_url_daily_stat

redis == <<stream, group, last, pel, visitors, origin>>
mysql == <<details, pv, uv, counted>>
vars  == <<redis, mysql, pc, batch, delta, failing>>

Calls == {"group", "read", "insert", "member", "add", "upsert", "ack"}
Entries == DOMAIN stream
Visit == [key : Keys, addr : Addrs]

TypeOK ==
    /\ stream \in Seq(Clicks)
    /\ group \in BOOLEAN
    /\ last \in Nat /\ last <= Len(stream)
    /\ origin \in Nat /\ origin <= last
    /\ pel \subseteq origin + 1 .. last
    /\ details \subseteq Clicks
    /\ pv \in [Keys -> Nat] /\ uv \in [Keys -> Nat]
    /\ visitors \subseteq Visit
    /\ pc \in [Workers -> Calls]
    /\ batch \in [Workers -> Seq(Nat)]
    /\ delta \in [Workers -> {0, 1}]
    /\ failing \subseteq Faults
    /\ counted \subseteq Clicks

Init ==
    /\ stream = <<>> /\ group = FALSE /\ last = 0 /\ origin = 0
    /\ pel = {} /\ visitors = {}
    /\ details = {} /\ counted = {}
    /\ pv = [k \in Keys |-> 0]
    /\ uv = [k \in Keys |-> 0]
    /\ pc = [w \in Workers |-> "group"]
    /\ batch = [w \in Workers |-> <<>>]
    /\ delta = [w \in Workers |-> 0]
    /\ failing \in {{}, Faults}

-----------------------------------------------------------------------------
At(w, call) == pc[w] = call
Goto(w, call) == pc' = [pc EXCEPT ![w] = call]
Click(w) == stream[Head(batch[w])]
Key(w)   == KeyOf[Click(w)]
Addr(w)  == AddrOf[Click(w)]

(* On to the batch's next entry, or to the next read *)
NextEntry(w) ==
    /\ batch' = [batch EXCEPT ![w] = Tail(@)]
    /\ Goto(w, IF Len(batch[w]) = 1 THEN "read" ELSE "insert")

(* The short-link service reports a click.  Its client sends XADD again when *)
(* the reply is late, so that one click may become several entries.          *)
Emit(e) ==
    /\ Len(stream) < MaxStream
    /\ stream' = Append(stream, e)
    /\ UNCHANGED <<group, last, pel, visitors, origin, mysql, pc, batch, delta, failing>>

(* Mutant of EnsureGroup: a group that exists is moved to "$" at a restart *)
EnsureGroupAgain(w) ==
    /\ At(w, "group")
    /\ group' = TRUE /\ last' = Len(stream) /\ origin' = Len(stream)
    /\ Goto(w, "read")
    /\ UNCHANGED <<stream, pel, visitors, mysql, batch, delta, failing>>
(* XGROUP CREATE at "$": what is in the stream already is never delivered.   *)
(* BUSYGROUP is no error, and any other error is ignored by Start.           *)
EnsureGroup(w) ==
    /\ At(w, "group")
    /\ \/ group /\ UNCHANGED <<group, last, origin>>
       \/ ~group /\ group' = TRUE /\ last' = Len(stream) /\ origin' = Len(stream)
       \/ "group" \in failing /\ UNCHANGED <<group, last, origin>>
    /\ Goto(w, "read")
    /\ UNCHANGED <<stream, pel, visitors, mysql, batch, delta, failing>>

Deliver(n) == /\ group /\ last < n
              /\ last' = n
              /\ pel' = pel \union (last + 1 .. n)
Least(m, n) == IF m <= n THEN m ELSE n

(* Mutant of Read: the group is moved over the entries beyond COUNT too *)
ReadSkips(w) ==
    /\ At(w, "read")
    /\ Deliver(Len(stream))
    /\ batch' = [batch EXCEPT ![w] = [i \in 1 .. Least(BatchSize, Len(stream) - last) |-> last + i]]
    /\ Goto(w, "insert")
    /\ UNCHANGED <<stream, group, visitors, origin, mysql, delta, failing>>
(* XREADGROUP for ">": entries never delivered before.  If the reply is lost *)
(* the entries are delivered, and the worker reads on.                       *)
Read(w) ==
    /\ At(w, "read")
    /\ LET n == Least(BatchSize, Len(stream) - last) IN
           /\ Deliver(last + n)
           /\ \/ batch' = [batch EXCEPT ![w] = [i \in 1 .. n |-> last + i]] /\ Goto(w, "insert")
              \/ "read" \in failing /\ UNCHANGED <<batch, pc>>
    /\ UNCHANGED <<stream, group, visitors, origin, mysql, delta, failing>>

(* Mutant of Insert: a click that is stored already is counted once more *)
InsertCounts(w) ==
    /\ At(w, "insert")
    /\ \/ Key(w) = NoKey /\ UNCHANGED details /\ NextEntry(w)
       \/ /\ Key(w) # NoKey
          /\ details' = details \union {Click(w)} /\ Goto(w, "member") /\ UNCHANGED batch
    /\ UNCHANGED <<redis, pv, uv, counted, delta, failing>>
(* Mutant of Insert: an entry is acknowledged whether or not it was stored *)
InsertAcks(w) ==
    /\ At(w, "insert")
    /\ \/ /\ Click(w) \notin details
          /\ details' = details \union {Click(w)} /\ Goto(w, "member")
       \/ UNCHANGED details /\ Goto(w, "ack")
    /\ UNCHANGED <<redis, pv, uv, counted, batch, delta, failing>>
Insert(w) ==
    /\ At(w, "insert")
    /\ \/ Key(w) = NoKey /\ UNCHANGED details /\ NextEntry(w)
       \/ /\ Key(w) # NoKey /\ Click(w) \in details
          /\ UNCHANGED <<details, batch>> /\ Goto(w, "ack")
       \/ /\ Key(w) # NoKey /\ Click(w) \notin details
          /\ details' = details \union {Click(w)}
          /\ Goto(w, "member") /\ UNCHANGED batch
       \/ /\ Key(w) # NoKey /\ "insert" \in failing
          /\ details' \in {details, details \union {Click(w)}}
          /\ NextEntry(w)
    /\ UNCHANGED <<redis, pv, uv, counted, delta, failing>>

(* Mutant of Member: the visitors of the day are not looked up *)
MemberAlways(w) ==
    /\ At(w, "member")
    /\ \/ /\ Addr(w) # NoAddr
          /\ delta' = [delta EXCEPT ![w] = 1] /\ Goto(w, "add")
       \/ /\ Addr(w) = NoAddr
          /\ delta' = [delta EXCEPT ![w] = 0] /\ Goto(w, "upsert")
    /\ UNCHANGED <<redis, mysql, batch, failing>>
(* SISMEMBER: an address that is missing, known or cannot be looked up is   *)
(* not a first visit.                                                       *)
Member(w) ==
    /\ At(w, "member")
    /\ LET known == Addr(w) = NoAddr \/ [key |-> Key(w), addr |-> Addr(w)] \in visitors IN
           \/ ~known /\ delta' = [delta EXCEPT ![w] = 1] /\ Goto(w, "add")
           \/ /\ known \/ "member" \in failing
              /\ delta' = [delta EXCEPT ![w] = 0] /\ Goto(w, "upsert")
    /\ UNCHANGED <<redis, mysql, batch, failing>>

(* SADD, whose error is ignored *)
Add(w) ==
    /\ At(w, "add")
    /\ \/ visitors' = visitors \union {[key |-> Key(w), addr |-> Addr(w)]}
       \/ "add" \in failing /\ UNCHANGED visitors
    /\ Goto(w, "upsert")
    /\ UNCHANGED <<stream, group, last, pel, origin, mysql, batch, delta, failing>>

(* The set of a day is kept for three days after its last new address *)
Forget(k) ==
    /\ "expire" \in failing
    /\ visitors' = {x \in visitors : x.key # k}
    /\ visitors' # visitors
    /\ UNCHANGED <<stream, group, last, pel, origin, mysql, pc, batch, delta, failing>>

CountIn(w) ==
    /\ pv' = [pv EXCEPT ![Key(w)] = @ + 1]
    /\ uv' = [uv EXCEPT ![Key(w)] = @ + delta[w]]
    /\ counted' = counted \union {Click(w)}

(* Mutant of Upsert: the statement is tried again when it fails *)
UpsertAgain(w) ==
    /\ At(w, "upsert")
    /\ \/ CountIn(w) /\ Goto(w, "ack")
       \/ "upsert" \in failing /\ CountIn(w) /\ UNCHANGED pc
    /\ UNCHANGED <<redis, details, batch, delta, failing>>
Upsert(w) ==
    /\ At(w, "upsert")
    /\ \/ CountIn(w) /\ Goto(w, "ack") /\ UNCHANGED batch
       \/ /\ "upsert" \in failing
          /\ CountIn(w) \/ UNCHANGED <<pv, uv, counted>>
          /\ NextEntry(w)
    /\ UNCHANGED <<redis, details, delta, failing>>

(* XACK, whose error is ignored *)
Ack(w) ==
    /\ At(w, "ack")
    /\ pel' = pel \ {Head(batch[w])} \/ ("ack" \in failing /\ UNCHANGED pel)
    /\ NextEntry(w)
    /\ UNCHANGED <<stream, group, last, visitors, origin, mysql, delta, failing>>

(* The process dies and is started again *)
Crash(w) ==
    /\ "crash" \in failing
    /\ Goto(w, "group")
    /\ batch' = [batch EXCEPT ![w] = <<>>]
    /\ UNCHANGED <<redis, mysql, delta, failing>>

-----------------------------------------------------------------------------
Handle(w) == Insert(w) \/ Member(w) \/ Add(w) \/ Upsert(w) \/ Ack(w)
Work(w) == EnsureGroup(w) \/ Read(w) \/ Handle(w)

Next == \/ \E e \in Clicks : Emit(e)
        \/ \E w \in Workers : Work(w) \/ Crash(w)
        \/ \E k \in Keys : Forget(k)

Spec == Init /\ [][Next]_vars

(* A worker's loop goes on for as long as there is something to read *)
Fairness == \A w \in Workers : WF_vars(Work(w))
LiveSpec == Spec /\ Fairness
=============================================================================
