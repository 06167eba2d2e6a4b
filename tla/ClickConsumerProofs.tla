-------------------------- MODULE ClickConsumerProofs --------------------------
(***************************************************************************)
(* Proofs about the click consumers: the inductive invariant, that page    *)
(* views count stored clicks once, that what is acknowledged is stored,    *)
(* and that the workers implement the counter.                             *)
(***************************************************************************)
EXTENDS TrafficProperties, FiniteSetTheorems, SequenceTheorems, TLAPS

(* The tail of a sequence that is not empty: its elements are the sequence's *)
(* from the second on (NextEntry moves on to them).                          *)
LEMMA TailFacts ==
    ASSUME NEW s \in Seq(Nat), s # <<>>
    PROVE  /\ Tail(s) \in Seq(Nat)
           /\ \A i \in DOMAIN Tail(s) : i + 1 \in DOMAIN s /\ Tail(s)[i] = s[i + 1]
           /\ Len(s) # 1 => Tail(s) # <<>>
           /\ 1 \in DOMAIN s /\ Head(s) = s[1]
  <1>1. Len(s) \in Nat /\ DOMAIN s = 1 .. Len(s) /\ Len(s) # 0
    OBVIOUS
  <1>2. Len(Tail(s)) = Len(s) - 1 /\ Tail(s) \in Seq(Nat)
    BY <1>1
  <1>3. \A i \in 1 .. Len(s) - 1 : Tail(s)[i] = s[i + 1]
    BY <1>1
  <1>4. DOMAIN Tail(s) = 1 .. Len(s) - 1
    BY <1>1, <1>2
  <1>5. Len(s) # 1 => Tail(s) # <<>>
    <2>1. Len(<<>>) = 0
      BY EmptySeq
    <2>2. Tail(s) = <<>> => Len(Tail(s)) = 0
      BY <2>1, Zenon
    <2> QED
      BY <1>1, <1>2, <2>2
  <1>6. 1 \in DOMAIN s /\ Head(s) = s[1]
    BY <1>1
  <1>7. \A i \in DOMAIN Tail(s) : i + 1 \in DOMAIN s /\ Tail(s)[i] = s[i + 1]
    BY <1>1, <1>3, <1>4
  <1> QED
    BY <1>2, <1>5, <1>6, <1>7

(* What a worker has in its hand was delivered and is in the stream. *)
LEMMA InHand ==
    ASSUME IInv, NEW w \in Workers, batch[w] # <<>>
    PROVE  /\ Head(batch[w]) \in Delivered /\ Head(batch[w]) \in Entries
           /\ Click(w) \in Clicks /\ Key(w) \in Keys \union {NoKey}
           /\ Addr(w) \in Addrs \union {NoAddr}
  <1>1. batch[w] \in Seq(Nat) /\ 1 \in DOMAIN batch[w] /\ Head(batch[w]) = batch[w][1]
    BY TailFacts DEF IInv, TypeOK
  <1>2. Head(batch[w]) \in Delivered
    BY <1>1 DEF IInv, WorkerOK
  <1>3. Entries = 1 .. Len(stream) /\ stream \in Seq(Clicks) /\ Len(stream) \in Nat
    BY DEF IInv, TypeOK, Entries
  <1>4. Head(batch[w]) \in Entries
    BY <1>2, <1>3 DEF IInv, TypeOK, Delivered
  <1> QED
    BY <1>2, <1>3, <1>4, ClicksAssumption DEF Click, Key, Addr

(* Two keys: a click that was not counted before adds one to its key's. *)
LEMMA CountOne ==
    ASSUME NEW S \in SUBSET Clicks, NEW e \in Clicks \ S, NEW k
    PROVE  /\ Cardinality(Of(S, k)) \in Nat
           /\ Cardinality(Of(S \union {e}, k)) =
                  IF KeyOf[e] = k THEN Cardinality(Of(S, k)) + 1 ELSE Cardinality(Of(S, k))
  <1>1. IsFiniteSet(Of(S, k)) /\ e \notin Of(S, k)
    BY FS_Subset, ClicksAssumption DEF Of
  <1>2. CASE KeyOf[e] = k
    <2>1. Of(S \union {e}, k) = Of(S, k) \union {e}
      BY <1>2 DEF Of
    <2> QED
      BY <1>1, <1>2, <2>1, FS_AddElement, FS_CardinalityType
  <1>3. CASE KeyOf[e] # k
    <2>1. Of(S \union {e}, k) = Of(S, k)
      BY <1>3 DEF Of
    <2> QED
      BY <1>1, <1>3, <2>1, FS_CardinalityType
  <1> QED
    BY <1>2, <1>3

(* A worker that a step leaves where it is keeps its part of the invariant,  *)
(* when what was delivered, its click and the details stay.                  *)
LEMMA Bystander ==
    ASSUME NEW v \in Workers, WorkerOK(v),
           pc'[v] = pc[v], batch'[v] = batch[v],
           Delivered \subseteq Delivered', details \subseteq details',
           batch[v] # <<>> => Click(v)' = Click(v),
           Counting(v) => Click(v) \notin counted'
    PROVE  WorkerOK(v)'
  <1>1. \A i \in DOMAIN batch'[v] : batch'[v][i] \in Delivered'
    BY DEF WorkerOK
  <1>2. pc'[v] \in {"insert", "member", "add", "upsert", "ack"} => batch'[v] # <<>>
    BY DEF WorkerOK
  <1>3. pc'[v] \in {"member", "add", "upsert", "ack"} => Click(v)' \in details' /\ Key(v)' \in Keys
    BY DEF WorkerOK, Key
  <1>4. pc'[v] \in {"member", "add", "upsert"} => Click(v)' \notin counted'
    BY DEF WorkerOK, Counting
  <1>5. pc'[v] = "add" => Addr(v)' \in Addrs
    BY DEF WorkerOK, Addr
  <1> QED
    BY <1>1, <1>2, <1>3, <1>4, <1>5 DEF WorkerOK

(* A worker that goes on to its next entry, or reads again *)
LEMMA NextEntryOK ==
    ASSUME IInv, NEW w \in Workers, batch[w] # <<>>, NextEntry(w), Delivered' = Delivered
    PROVE  /\ pc' \in [Workers -> Calls] /\ batch' \in [Workers -> Seq(Nat)]
           /\ WorkerOK(w)' /\ ~Counting(w)'
           /\ \A v \in Workers \ {w} : pc'[v] = pc[v] /\ batch'[v] = batch[v]
  <1>1. pc' \in [Workers -> Calls] /\ pc'[w] = IF Len(batch[w]) = 1 THEN "read" ELSE "insert"
    BY DEF NextEntry, Goto, IInv, TypeOK, Calls
  <1>2. batch' \in [Workers -> Seq(Nat)] /\ batch'[w] = Tail(batch[w])
    BY TailFacts DEF NextEntry, IInv, TypeOK
  <1>3. \A i \in DOMAIN batch'[w] : batch'[w][i] \in Delivered'
    BY <1>2, TailFacts DEF IInv, TypeOK, WorkerOK
  <1>4. pc'[w] = "insert" => batch'[w] # <<>>
    BY <1>1, <1>2, TailFacts DEF IInv, TypeOK
  <1>5. \A v \in Workers \ {w} : pc'[v] = pc[v] /\ batch'[v] = batch[v]
    BY DEF NextEntry, Goto, IInv, TypeOK
  <1> QED
    BY <1>1, <1>2, <1>3, <1>4, <1>5 DEF WorkerOK, Counting

(* Two workers count different clicks when a step starts no counting. *)
LEMMA StillApart ==
    ASSUME IInv, NEW w \in Workers,
           \A v \in Workers \ {w} : Counting(v)' => Counting(v) /\ Click(v)' = Click(v),
           Counting(w)' => Counting(w) /\ Click(w)' = Click(w)
    PROVE  OneCounts'
  <1>1. \A v \in Workers : Counting(v)' => Counting(v) /\ Click(v)' = Click(v)
    OBVIOUS
  <1>2. OneCounts
    BY DEF IInv
  <1> QED
    BY <1>1, <1>2 DEF OneCounts

(* When the Redis and MySQL of a worker stay, so do the clicks in hand. *)
LEMMA SameClick ==
    ASSUME NEW v \in Workers, stream' = stream, batch'[v] = batch[v]
    PROVE  Click(v)' = Click(v) /\ Key(v)' = Key(v)
  BY DEF Click, Key

(* Emit appends: positions that exist keep their click. *)
LEMMA EmitStep ==
    ASSUME IInv, NEW e \in Clicks, Emit(e)
    PROVE  IInv'
  <1> USE DEF IInv
  <1>1. /\ stream \in Seq(Clicks) /\ stream' = Append(stream, e)
        /\ Len(stream) \in Nat /\ Len(stream') = Len(stream) + 1 /\ stream' \in Seq(Clicks)
        /\ \A i \in 1 .. Len(stream) : stream'[i] = stream[i]
        /\ Entries = 1 .. Len(stream) /\ Entries' = 1 .. Len(stream) + 1
    BY AppendProperties DEF Emit, TypeOK, Entries
  <1>2. TypeOK'
    BY <1>1 DEF Emit, TypeOK, mysql
  <1>3. GroupFirst'
    BY DEF GroupFirst, Emit
  <1>4. {stream[i] : i \in Entries} \subseteq {stream'[i] : i \in Entries'}
    BY <1>1
  <1>5. PvIsCounted'
    BY <1>4 DEF PvIsCounted, Emit, mysql, Of
  <1>6. Delivered' = Delivered /\ Delivered \subseteq 1 .. Len(stream)
    BY DEF Emit, Delivered, TypeOK
  <1>7. AckedIsStored'
    BY <1>1, <1>6 DEF AckedIsStored, Emit, mysql
  <1>8. \A v \in Workers : batch[v] # <<>> => Click(v)' = Click(v)
    <2>1. SUFFICES ASSUME NEW v \in Workers, batch[v] # <<>> PROVE Click(v)' = Click(v)
      OBVIOUS
    <2>2. Head(batch[v]) \in 1 .. Len(stream)
      BY <2>1, <1>1, InHand
    <2> QED
      BY <1>1, <2>2 DEF Click, Emit
  <1>9. \A v \in Workers : WorkerOK(v)'
    <2>1. SUFFICES ASSUME NEW v \in Workers PROVE WorkerOK(v)'
      OBVIOUS
    <2>2. WorkerOK(v) /\ (Counting(v) => Click(v) \notin counted')
      BY DEF WorkerOK, Counting, Emit, mysql
    <2> QED
      BY <1>6, <1>8, <2>2, Bystander DEF Emit, mysql
  <1>10. \A v \in Workers : Counting(v)' => Counting(v) /\ Click(v)' = Click(v)
    BY <1>8 DEF Emit, Counting, WorkerOK
  <1>11. OneCounts'
    BY <1>10 DEF OneCounts
  <1> QED
    BY <1>2, <1>3, <1>5, <1>7, <1>9, <1>11

(* EnsureGroup: before there is a group nothing was delivered, and a group   *)
(* that is there stays as it is.                                             *)
LEMMA EnsureGroupStep ==
    ASSUME IInv, NEW w \in Workers, EnsureGroup(w)
    PROVE  IInv'
  <1> USE DEF IInv
  <1>1. /\ stream' = stream /\ pel' = pel /\ visitors' = visitors /\ batch' = batch
        /\ delta' = delta /\ failing' = failing /\ details' = details /\ counted' = counted
        /\ pv' = pv /\ uv' = uv /\ pc' = [pc EXCEPT ![w] = "read"] /\ pc[w] = "group"
    BY DEF EnsureGroup, At, Goto, mysql
  <1>2. \/ group' = group /\ last' = last /\ origin' = origin
        \/ ~group /\ group' = TRUE /\ last' = Len(stream) /\ origin' = Len(stream)
    BY DEF EnsureGroup
  <1>3. Delivered' = Delivered /\ pel \subseteq Delivered'
    <2>1. pel \subseteq Delivered
      BY DEF TypeOK, Delivered
    <2>2. ~group => Delivered = {}
      BY DEF TypeOK, Delivered, GroupFirst
    <2>3. Len(stream) \in Nat /\ Len(stream) + 1 .. Len(stream) = {}
      BY DEF TypeOK
    <2> QED
      BY <1>2, <2>1, <2>2, <2>3 DEF Delivered
  <1>4. TypeOK'
    <2>1. group' \in BOOLEAN /\ last' \in Nat /\ origin' \in Nat
          /\ last' <= Len(stream') /\ origin' <= last'
      <3>1. group \in BOOLEAN /\ Len(stream) \in Nat /\ last \in Nat /\ last <= Len(stream)
            /\ origin \in Nat /\ origin <= last
        BY DEF TypeOK
      <3>2. CASE group' = group /\ last' = last /\ origin' = origin
        BY <1>1, <3>1, <3>2
      <3>3. CASE group' = TRUE /\ last' = Len(stream) /\ origin' = Len(stream)
        BY <1>1, <3>1, <3>3
      <3> QED
        BY <1>2, <3>2, <3>3
    <2>2. pel' \subseteq origin' + 1 .. last'
      BY <1>1, <1>3 DEF Delivered
    <2>3. pc' \in [Workers -> Calls]
      BY <1>1 DEF TypeOK, Calls
    <2> QED
      BY <1>1, <2>1, <2>2, <2>3 DEF TypeOK
  <1>5. GroupFirst'
    BY <1>2 DEF GroupFirst
  <1>6. PvIsCounted' /\ AckedIsStored'
    BY <1>1, <1>3 DEF PvIsCounted, AckedIsStored, Of, Entries
  <1>7. \A v \in Workers : Click(v)' = Click(v) /\ (v # w => pc'[v] = pc[v])
    BY <1>1, SameClick DEF TypeOK
  <1>8. \A v \in Workers : WorkerOK(v)'
    <2>1. SUFFICES ASSUME NEW v \in Workers PROVE WorkerOK(v)'
      OBVIOUS
    <2>2. CASE v = w
      BY <1>1, <1>3, <2>2 DEF WorkerOK, TypeOK
    <2>3. CASE v # w
      <3>1. WorkerOK(v) /\ (Counting(v) => Click(v) \notin counted')
        BY <1>1 DEF WorkerOK, Counting
      <3> QED
        BY <1>1, <1>3, <1>7, <2>3, <3>1, Bystander
    <2> QED
      BY <2>2, <2>3
  <1>9. \A v \in Workers : Counting(v)' => Counting(v)
    BY <1>1 DEF Counting, TypeOK
  <1>10. OneCounts'
    BY <1>7, <1>9 DEF OneCounts
  <1> QED
    BY <1>4, <1>5, <1>6, <1>8, <1>10

(* Read: what it delivers is pending, so that what is acknowledged is as it *)
(* was, and what the worker takes in hand was delivered.                    *)
LEMMA ReadStep ==
    ASSUME IInv, NEW w \in Workers, Read(w)
    PROVE  IInv'
  <1> USE DEF IInv
  <1> DEFINE n == Least(BatchSize, Len(stream) - last)
  <1>1. /\ stream' = stream /\ visitors' = visitors /\ delta' = delta /\ failing' = failing
        /\ details' = details /\ counted' = counted /\ pv' = pv /\ uv' = uv
        /\ group' = group /\ origin' = origin /\ group /\ pc[w] = "read"
        /\ last < last + n /\ last' = last + n /\ pel' = pel \union (last + 1 .. last + n)
    BY DEF Read, Deliver, At, mysql
  <1>2. n \in Nat \ {0} /\ last + n <= Len(stream) /\ last \in Nat /\ Len(stream) \in Nat
    BY <1>1, BoundsAssumption DEF TypeOK, Least
  <1>3. \/ /\ batch' = [batch EXCEPT ![w] = [i \in 1 .. n |-> last + i]]
           /\ pc' = [pc EXCEPT ![w] = "insert"]
        \/ batch' = batch /\ pc' = pc
    BY DEF Read, Goto
  <1> HIDE DEF n
  <1>4. /\ Delivered \subseteq Delivered'
        /\ last + 1 .. last + n \subseteq Delivered'
        /\ Delivered' \subseteq Delivered \union (last + 1 .. last + n)
    BY <1>1, <1>2 DEF Delivered, TypeOK
  <1>5. [i \in 1 .. n |-> last + i] \in Seq(Nat)
    BY <1>2
  <1>6. TypeOK'
    <2>1. pel' \subseteq origin' + 1 .. last'
      BY <1>1, <1>4 DEF Delivered, TypeOK
    <2>2. pc' \in [Workers -> Calls] /\ batch' \in [Workers -> Seq(Nat)]
      BY <1>3, <1>5 DEF TypeOK, Calls
    <2>3. last' \in Nat /\ last' <= Len(stream') /\ origin' <= last'
      BY <1>1, <1>2 DEF TypeOK
    <2> QED
      BY <1>1, <2>1, <2>2, <2>3 DEF TypeOK
  <1>7. GroupFirst' /\ PvIsCounted'
    BY <1>1 DEF GroupFirst, PvIsCounted, Of, Entries
  <1>8. AckedIsStored'
    BY <1>1, <1>4 DEF AckedIsStored
  <1>9. \A v \in Workers \ {w} : pc'[v] = pc[v] /\ batch'[v] = batch[v]
    BY <1>3 DEF TypeOK
  <1>10. ASSUME NEW v \in Workers PROVE WorkerOK(v)'
    <2>1. CASE v = w /\ pc'[w] = "insert"
      <3>1. batch'[w] = [i \in 1 .. n |-> last + i] /\ DOMAIN batch'[w] = 1 .. n
        <4>1. batch \in [Workers -> Seq(Nat)] /\ pc \in [Workers -> Calls]
          BY DEF TypeOK
        <4>2. pc' # pc
          BY <1>1, <2>1
        <4>3. batch' = [batch EXCEPT ![w] = [i \in 1 .. n |-> last + i]]
          BY <1>3, <4>2
        <4> QED
          BY <4>1, <4>3
      <3>2. \A i \in DOMAIN batch'[w] : batch'[w][i] \in last + 1 .. last + n
        BY <1>2, <3>1
      <3>3. batch'[w] # <<>>
        <4>1. Len(batch'[w]) = n
          BY <1>2, <3>1
        <4>2. Len(<<>>) = 0
          BY EmptySeq
        <4>3. batch'[w] = <<>> => Len(batch'[w]) = 0
          BY <4>2, Zenon
        <4> QED
          BY <1>2, <4>1, <4>3
      <3> QED
        BY <1>4, <2>1, <3>2, <3>3 DEF WorkerOK
    <2>2. CASE ~(v = w /\ pc'[w] = "insert")
      <3>1. pc'[v] = pc[v] /\ batch'[v] = batch[v]
        BY <1>3, <1>9, <2>2 DEF TypeOK
      <3>2. WorkerOK(v) /\ (Counting(v) => Click(v) \notin counted')
        BY <1>1 DEF WorkerOK, Counting
      <3> QED
        BY <1>1, <1>4, <3>1, <3>2, SameClick, Bystander
    <2> QED
      BY <2>1, <2>2
  <1>11. OneCounts'
    <2>1. \A v \in Workers \ {w} : Counting(v)' => Counting(v) /\ Click(v)' = Click(v)
      BY <1>1, <1>9, SameClick DEF Counting
    <2>2. ~Counting(w)'
      BY <1>1, <1>3 DEF Counting, TypeOK
    <2> QED
      BY <2>1, <2>2, StillApart
  <1> QED
    BY <1>6, <1>7, <1>8, <1>10, <1>11

(* The steps of a worker at one click that keep the stream, the group and    *)
(* what was delivered: what is left to show of them.                         *)
LEMMA Combine ==
    ASSUME IInv, NEW w \in Workers,
           stream' = stream, group' = group, last' = last, origin' = origin,
           details \subseteq details',
           \A v \in Workers \ {w} : pc'[v] = pc[v] /\ batch'[v] = batch[v],
           \A v \in Workers \ {w} : Counting(v) => Click(v) \notin counted',
           TypeOK', PvIsCounted', AckedIsStored', WorkerOK(w)',
           Counting(w)' => \A v \in Workers \ {w} : Counting(v) => Click(v) # Click(w)'
    PROVE  IInv'
  <1> USE DEF IInv
  <1>1. Delivered' = Delivered
    BY DEF Delivered
  <1>2. \A v \in Workers \ {w} : Click(v)' = Click(v) /\ Counting(v)' = Counting(v)
    BY SameClick DEF Counting
  <1>3. \A v \in Workers \ {w} : WorkerOK(v)'
    BY <1>1, <1>2, Bystander
  <1>4. \A v \in Workers : WorkerOK(v)'
    BY <1>3
  <1>5. OneCounts'
    BY <1>2 DEF OneCounts
  <1>6. GroupFirst'
    BY DEF GroupFirst
  <1> QED
    BY <1>4, <1>5, <1>6

(* Insert: a worker goes on to the visitors only with a click that nobody    *)
(* has stored yet, hence that nobody counts or has counted.                  *)
LEMMA InsertStep ==
    ASSUME IInv, NEW w \in Workers, Insert(w)
    PROVE  IInv'
  <1> USE DEF IInv
  <1>1. /\ stream' = stream /\ group' = group /\ last' = last /\ origin' = origin
        /\ pel' = pel /\ visitors' = visitors /\ pv' = pv /\ uv' = uv
        /\ counted' = counted /\ delta' = delta /\ failing' = failing /\ pc[w] = "insert"
    BY DEF Insert, At, redis
  <1>2. batch[w] # <<>> /\ WorkerOK(w)
    BY <1>1 DEF WorkerOK
  <1>3. Head(batch[w]) \in Entries /\ Click(w) \in Clicks /\ Key(w) \in Keys \union {NoKey}
    BY <1>2, InHand
  <1>4. Delivered' = Delivered /\ Entries' = Entries
    BY <1>1 DEF Delivered, Entries
  <1>5. \/ details' = details
        \/ details' = details \union {Click(w)} /\ Key(w) # NoKey
    BY DEF Insert
  <1>6. \/ NextEntry(w)
        \/ /\ batch' = batch /\ Key(w) # NoKey
           /\ \/ pc' = [pc EXCEPT ![w] = "ack"] /\ Click(w) \in details
              \/ /\ pc' = [pc EXCEPT ![w] = "member"] /\ Click(w) \notin details
                 /\ details' = details \union {Click(w)}
    BY DEF Insert, Goto
  <1>7. PvIsCounted'
    <2>1. Click(w) \in {stream[i] : i \in Entries}
      BY <1>3 DEF Click
    <2>2. Key(w) # NoKey => KeyOf[Click(w)] \in Keys
      BY <1>3 DEF Key
    <2> QED
      BY <1>1, <1>4, <1>5, <2>1, <2>2 DEF PvIsCounted, Of
  <1>8. AckedIsStored'
    BY <1>1, <1>4, <1>5 DEF AckedIsStored
  <1>9. details \subseteq details' /\ details' \subseteq Clicks
    BY <1>3, <1>5 DEF TypeOK
  <1>10. CASE NextEntry(w)
    <2>1. /\ pc' \in [Workers -> Calls] /\ batch' \in [Workers -> Seq(Nat)]
          /\ WorkerOK(w)' /\ ~Counting(w)'
          /\ \A v \in Workers \ {w} : pc'[v] = pc[v] /\ batch'[v] = batch[v]
      BY <1>2, <1>4, <1>10, NextEntryOK
    <2>2. TypeOK'
      BY <1>1, <1>9, <2>1 DEF TypeOK
    <2>3. \A v \in Workers \ {w} : Counting(v) => Click(v) \notin counted'
      BY <1>1 DEF WorkerOK, Counting
    <2> QED
      BY <1>1, <1>7, <1>8, <1>9, <2>1, <2>2, <2>3, Combine
  <1>11. CASE ~NextEntry(w)
    <2>1. /\ batch' = batch /\ Key(w) # NoKey
          /\ \/ pc' = [pc EXCEPT ![w] = "ack"] /\ Click(w) \in details
             \/ /\ pc' = [pc EXCEPT ![w] = "member"] /\ Click(w) \notin details
                /\ details' = details \union {Click(w)}
      BY <1>6, <1>11
    <2>2. pc' \in [Workers -> Calls] /\ \A v \in Workers \ {w} : pc'[v] = pc[v]
      BY <2>1 DEF TypeOK, Calls
    <2>3. TypeOK'
      BY <1>1, <1>9, <2>1, <2>2 DEF TypeOK
    <2>4. \A v \in Workers : Click(v)' = Click(v) /\ Key(v)' = Key(v)
      BY <1>1, <2>1, SameClick
    <2>5. Counting(w)' => Click(w) \notin details
      BY <2>1 DEF Counting, TypeOK
    <2>6. Click(w) \in details' /\ Key(w) \in Keys
      BY <1>3, <1>9, <2>1
    <2>7. WorkerOK(w)'
      <3>1. \A i \in DOMAIN batch'[w] : batch'[w][i] \in Delivered'
        BY <1>2, <1>4, <2>1 DEF WorkerOK
      <3>2. pc'[w] \in {"member", "add", "upsert"} => Click(w)' \notin counted'
        BY <1>1, <2>4, <2>5 DEF Counting, PvIsCounted
      <3>3. pc'[w] # "add"
        BY <2>1 DEF TypeOK
      <3> QED
        BY <1>2, <2>1, <2>4, <2>6, <3>1, <3>2, <3>3 DEF WorkerOK
    <2>8. \A v \in Workers \ {w} : Counting(v) => Click(v) \notin counted' /\ Click(v) \in details
      BY <1>1 DEF WorkerOK, Counting
    <2>9. Counting(w)' => \A v \in Workers \ {w} : Counting(v) => Click(v) # Click(w)'
      BY <2>4, <2>5, <2>8
    <2> QED
      BY <1>1, <1>7, <1>8, <1>9, <2>1, <2>2, <2>3, <2>7, <2>8, <2>9, Combine
  <1> QED
    BY <1>10, <1>11

(* The lookup and the entry of a visitor, and the loss of a day's visitors:  *)
(* a worker that goes on counting the same click, with all else the same.    *)
LEMMA CountingStep ==
    ASSUME IInv, NEW w \in Workers, Counting(w),
           stream' = stream, group' = group, last' = last, origin' = origin, pel' = pel,
           mysql' = mysql, batch' = batch, failing' = failing,
           visitors' \subseteq Visit, delta' \in [Workers -> {0, 1}],
           NEW c \in {"add", "upsert"}, pc' = [pc EXCEPT ![w] = c],
           c = "add" => Addr(w) \in Addrs
    PROVE  IInv'
  <1> USE DEF IInv
  <1>1. details' = details /\ counted' = counted /\ pv' = pv /\ uv' = uv
    BY DEF mysql
  <1>2. pc' \in [Workers -> Calls] /\ \A v \in Workers \ {w} : pc'[v] = pc[v]
    BY DEF TypeOK, Calls
  <1>3. TypeOK'
    BY <1>1, <1>2 DEF TypeOK
  <1>4. Delivered' = Delivered /\ PvIsCounted' /\ AckedIsStored'
    BY <1>1 DEF Delivered, PvIsCounted, AckedIsStored, Of, Entries
  <1>5. \A v \in Workers : Click(v)' = Click(v) /\ Key(v)' = Key(v)
    BY SameClick
  <1>6. WorkerOK(w)'
    <2>1. pc'[w] = "add" => Addr(w)' \in Addrs
      BY <1>5 DEF Addr, TypeOK
    <2>2. \A i \in DOMAIN batch'[w] : batch'[w][i] \in Delivered'
      BY <1>4 DEF WorkerOK
    <2>3. WorkerOK(w) /\ batch[w] # <<>> /\ Click(w) \in details \ counted /\ Key(w) \in Keys
      BY DEF WorkerOK, Counting
    <2>4. batch'[w] # <<>> /\ Click(w)' \in details' \ counted' /\ Key(w)' \in Keys
      BY <1>1, <1>5, <2>3
    <2> QED
      BY <2>1, <2>2, <2>4 DEF WorkerOK
  <1>7. \A v \in Workers \ {w} : Counting(v) => Click(v) \notin counted' /\ Click(v) # Click(w)'
    BY <1>1, <1>5 DEF WorkerOK, Counting, OneCounts
  <1> QED
    BY <1>1, <1>2, <1>3, <1>4, <1>6, <1>7, Combine

(* Member only looks up. *)
LEMMA MemberStep ==
    ASSUME IInv, NEW w \in Workers, Member(w)
    PROVE  IInv'
  <1> USE DEF IInv
  <1>1. redis' = redis /\ mysql' = mysql /\ batch' = batch /\ failing' = failing /\ pc[w] = "member"
    BY DEF Member, At
  <1>2. \E c \in {"add", "upsert"}, d \in {0, 1} :
            /\ pc' = [pc EXCEPT ![w] = c] /\ delta' = [delta EXCEPT ![w] = d]
            /\ c = "add" => Addr(w) \in Addrs
    <2>1. batch[w] # <<>>
      BY <1>1 DEF WorkerOK
    <2>2. Addr(w) \in Addrs \union {NoAddr}
      BY <2>1, InHand
    <2> QED
      BY <2>2 DEF Member, Goto
  <1>3. delta' \in [Workers -> {0, 1}]
    BY <1>2 DEF TypeOK
  <1>4. visitors' \subseteq Visit /\ Counting(w)
    BY <1>1 DEF TypeOK, redis, Counting
  <1>5. /\ stream' = stream /\ group' = group /\ last' = last /\ origin' = origin /\ pel' = pel
    BY <1>1 DEF redis
  <1> QED
    BY <1>1, <1>2, <1>3, <1>4, <1>5, CountingStep

(* Add enters the address under the click's key. *)
LEMMA AddStep ==
    ASSUME IInv, NEW w \in Workers, Add(w)
    PROVE  IInv'
  <1> USE DEF IInv
  <1>1. /\ stream' = stream /\ group' = group /\ last' = last /\ origin' = origin /\ pel' = pel
        /\ mysql' = mysql /\ batch' = batch /\ failing' = failing /\ delta' = delta
        /\ pc[w] = "add" /\ pc' = [pc EXCEPT ![w] = "upsert"]
    BY DEF Add, At, Goto
  <1>2. Counting(w) /\ Key(w) \in Keys /\ Addr(w) \in Addrs
    BY <1>1 DEF Counting, WorkerOK
  <1>3. visitors' \subseteq Visit
    BY <1>2 DEF Add, TypeOK, Visit
  <1> QED
    BY <1>1, <1>2, <1>3, CountingStep DEF TypeOK

(* Forget: the visitors of a day are no part of what is kept. *)
LEMMA ForgetStep ==
    ASSUME IInv, NEW k \in Keys, Forget(k)
    PROVE  IInv'
  <1> USE DEF IInv
  <1>1. /\ stream' = stream /\ group' = group /\ last' = last /\ origin' = origin /\ pel' = pel
        /\ details' = details /\ counted' = counted /\ pv' = pv /\ uv' = uv
        /\ batch' = batch /\ failing' = failing /\ delta' = delta /\ pc' = pc
        /\ visitors' \subseteq visitors
    BY DEF Forget, mysql
  <1>2. TypeOK'
    BY <1>1 DEF TypeOK
  <1>3. Delivered' = Delivered /\ PvIsCounted' /\ AckedIsStored' /\ GroupFirst'
    BY <1>1 DEF Delivered, PvIsCounted, AckedIsStored, GroupFirst, Of, Entries
  <1>4. \A v \in Workers : Click(v)' = Click(v) /\ Counting(v)' = Counting(v)
    BY <1>1, SameClick DEF Counting
  <1>5. ASSUME NEW v \in Workers PROVE WorkerOK(v)'
    <2>1. WorkerOK(v) /\ (Counting(v) => Click(v) \notin counted')
      BY <1>1 DEF WorkerOK, Counting
    <2> QED
      BY <1>1, <1>3, <1>4, <2>1, Bystander
  <1>6. OneCounts'
    BY <1>4 DEF OneCounts
  <1> QED
    BY <1>2, <1>3, <1>5, <1>6

(* Upsert: the click was in nobody else's hand to be counted, so that one    *)
(* page view is added for one more click counted.                            *)
LEMMA UpsertStep ==
    ASSUME IInv, NEW w \in Workers, Upsert(w)
    PROVE  IInv'
  <1> USE DEF IInv
  <1>1. /\ stream' = stream /\ group' = group /\ last' = last /\ origin' = origin /\ pel' = pel
        /\ visitors' = visitors /\ details' = details /\ failing' = failing /\ delta' = delta
        /\ pc[w] = "upsert"
    BY DEF Upsert, At, redis
  <1>2. batch[w] # <<>> /\ Counting(w) /\ WorkerOK(w)
        /\ Click(w) \in details \ counted /\ Key(w) \in Keys
    BY <1>1 DEF WorkerOK, Counting
  <1>3. Click(w) \in Clicks /\ counted \subseteq Clicks
    BY <1>2, InHand DEF TypeOK
  <1>4. Delivered' = Delivered /\ Entries' = Entries
    BY <1>1 DEF Delivered, Entries
  <1>5. CountIn(w) \/ (pv' = pv /\ uv' = uv /\ counted' = counted)
    BY DEF Upsert
  <1>6. pv' \in [Keys -> Nat] /\ uv' \in [Keys -> Nat] /\ counted' \subseteq details
    <2>1. delta[w] \in {0, 1} /\ pv[Key(w)] \in Nat /\ uv[Key(w)] \in Nat
      BY <1>2 DEF TypeOK
    <2>2. pv[Key(w)] + 1 \in Nat /\ uv[Key(w)] + delta[w] \in Nat
      BY <2>1
    <2> QED
      BY <1>2, <1>5, <2>2 DEF CountIn, TypeOK, PvIsCounted
  <1>7. PvIsCounted'
    <2>1. CASE CountIn(w)
      <3>1. counted' = counted \union {Click(w)} /\ pv' = [pv EXCEPT ![Key(w)] = @ + 1]
        BY <2>1 DEF CountIn
      <3>2. \A k \in Keys : pv'[k] = Cardinality(Of(counted', k))
        <4>1. SUFFICES ASSUME NEW k \in Keys PROVE pv'[k] = Cardinality(Of(counted', k))
          OBVIOUS
        <4>2. Cardinality(Of(counted', k)) = IF KeyOf[Click(w)] = k
                  THEN Cardinality(Of(counted, k)) + 1 ELSE Cardinality(Of(counted, k))
          BY <1>2, <1>3, <3>1, CountOne
        <4>3. pv[k] = Cardinality(Of(counted, k)) /\ pv \in [Keys -> Nat]
          BY DEF PvIsCounted, TypeOK
        <4> QED
          BY <1>2, <3>1, <4>2, <4>3 DEF Key
      <3> QED
        BY <1>1, <1>4, <1>6, <3>2 DEF PvIsCounted, Of
    <2>2. CASE pv' = pv /\ uv' = uv /\ counted' = counted
      BY <1>1, <1>4, <2>2 DEF PvIsCounted, Of
    <2> QED
      BY <1>5, <2>1, <2>2
  <1>8. AckedIsStored'
    BY <1>1, <1>4 DEF AckedIsStored
  <1>9. \A v \in Workers \ {w} : Counting(v) => Click(v) \notin counted'
    <2>1. \A v \in Workers \ {w} : Counting(v) => Click(v) \notin counted /\ Click(v) # Click(w)
      BY <1>2 DEF WorkerOK, Counting, OneCounts
    <2> QED
      BY <1>5, <2>1 DEF CountIn
  <1>10. counted' \subseteq Clicks
    BY <1>6 DEF TypeOK
  <1>11. CASE NextEntry(w)
    <2>1. /\ pc' \in [Workers -> Calls] /\ batch' \in [Workers -> Seq(Nat)]
          /\ WorkerOK(w)' /\ ~Counting(w)'
          /\ \A v \in Workers \ {w} : pc'[v] = pc[v] /\ batch'[v] = batch[v]
      BY <1>2, <1>4, <1>11, NextEntryOK
    <2>2. TypeOK'
      BY <1>1, <1>6, <1>10, <2>1 DEF TypeOK
    <2> QED
      BY <1>1, <1>7, <1>8, <1>9, <2>1, <2>2, Combine
  <1>12. CASE ~NextEntry(w)
    <2>1. batch' = batch /\ pc' = [pc EXCEPT ![w] = "ack"]
      BY <1>12 DEF Upsert, Goto
    <2>2. pc' \in [Workers -> Calls] /\ \A v \in Workers \ {w} : pc'[v] = pc[v]
      BY <2>1 DEF TypeOK, Calls
    <2>3. TypeOK'
      BY <1>1, <1>6, <1>10, <2>1, <2>2 DEF TypeOK
    <2>4. WorkerOK(w)' /\ ~Counting(w)'
      <3>1. Click(w)' = Click(w) /\ Key(w)' = Key(w)
        BY <1>1, <2>1, SameClick
      <3>2. pc'[w] = "ack"
        BY <2>1 DEF TypeOK
      <3> QED
        BY <1>1, <1>2, <1>4, <2>1, <3>1, <3>2 DEF WorkerOK, Counting
    <2> QED
      BY <1>1, <1>7, <1>8, <1>9, <2>1, <2>2, <2>3, <2>4, Combine
  <1> QED
    BY <1>11, <1>12

(* Ack: what a worker acknowledges is its click, which is stored. *)
LEMMA AckStep ==
    ASSUME IInv, NEW w \in Workers, Ack(w)
    PROVE  IInv'
  <1> USE DEF IInv
  <1>1. /\ stream' = stream /\ group' = group /\ last' = last /\ origin' = origin
        /\ visitors' = visitors /\ failing' = failing /\ delta' = delta
        /\ details' = details /\ counted' = counted /\ pv' = pv /\ uv' = uv
        /\ pc[w] = "ack" /\ NextEntry(w)
        /\ pel' = pel \ {Head(batch[w])} \/ pel' = pel
    BY DEF Ack, At, mysql
  <1>2. batch[w] # <<>> /\ Click(w) \in details /\ Key(w) \in Keys
    BY <1>1 DEF WorkerOK
  <1>3. Delivered' = Delivered
    BY <1>1 DEF Delivered
  <1>4. /\ pc' \in [Workers -> Calls] /\ batch' \in [Workers -> Seq(Nat)]
        /\ WorkerOK(w)' /\ ~Counting(w)'
        /\ \A v \in Workers \ {w} : pc'[v] = pc[v] /\ batch'[v] = batch[v]
    BY <1>1, <1>2, <1>3, NextEntryOK
  <1>5. TypeOK'
    BY <1>1, <1>4 DEF TypeOK
  <1>6. PvIsCounted'
    BY <1>1 DEF PvIsCounted, Of, Entries
  <1>7. AckedIsStored'
    <2>1. Head(batch[w]) \in Entries => stream[Head(batch[w])] \in details
          /\ KeyOf[stream[Head(batch[w])]] # NoKey
      BY <1>2, ClicksAssumption DEF Click, Key
    <2>2. Head(batch[w]) \in Entries
      BY <1>2, InHand
    <2> QED
      BY <1>1, <1>3, <2>1, <2>2 DEF AckedIsStored
  <1>8. \A v \in Workers \ {w} : Counting(v) => Click(v) \notin counted'
    BY <1>1 DEF WorkerOK, Counting
  <1> QED
    BY <1>1, <1>4, <1>5, <1>6, <1>7, <1>8, Combine

(* Crash: what the worker had in hand stays pending. *)
LEMMA CrashStep ==
    ASSUME IInv, NEW w \in Workers, Crash(w)
    PROVE  IInv'
  <1> USE DEF IInv
  <1>1. /\ stream' = stream /\ group' = group /\ last' = last /\ origin' = origin /\ pel' = pel
        /\ visitors' = visitors /\ failing' = failing /\ delta' = delta
        /\ details' = details /\ counted' = counted /\ pv' = pv /\ uv' = uv
        /\ pc' = [pc EXCEPT ![w] = "group"] /\ batch' = [batch EXCEPT ![w] = <<>>]
    BY DEF Crash, Goto, redis, mysql
  <1>2. /\ pc' \in [Workers -> Calls] /\ batch' \in [Workers -> Seq(Nat)]
        /\ pc'[w] = "group" /\ batch'[w] = <<>>
        /\ \A v \in Workers \ {w} : pc'[v] = pc[v] /\ batch'[v] = batch[v]
    BY <1>1 DEF TypeOK, Calls
  <1>3. TypeOK'
    BY <1>1, <1>2 DEF TypeOK
  <1>4. PvIsCounted' /\ AckedIsStored'
    BY <1>1 DEF PvIsCounted, AckedIsStored, Delivered, Of, Entries
  <1>5. WorkerOK(w)' /\ ~Counting(w)'
    BY <1>2, EmptySeq DEF WorkerOK, Counting
  <1>6. \A v \in Workers \ {w} : Counting(v) => Click(v) \notin counted'
    BY <1>1 DEF WorkerOK, Counting
  <1> QED
    BY <1>1, <1>2, <1>3, <1>4, <1>5, <1>6, Combine

(* The services start with nothing delivered and nothing counted. *)
LEMMA Initially == Init => IInv
  <1> SUFFICES ASSUME Init PROVE IInv
    OBVIOUS
  <1>1. stream = <<>> /\ stream \in Seq(Clicks) /\ Len(stream) = 0
    BY EmptySeq DEF Init
  <1>2. origin = 0 /\ last = 0 /\ pel = {} /\ Delivered = {}
    BY DEF Init, Delivered
  <1>3. TypeOK
    <2>1. batch \in [Workers -> Seq(Nat)]
      BY DEF Init
    <2>2. failing \subseteq Faults
      BY DEF Init
    <2>3. /\ group \in BOOLEAN /\ visitors \subseteq Visit /\ details \subseteq Clicks
          /\ pv \in [Keys -> Nat] /\ uv \in [Keys -> Nat] /\ counted \subseteq Clicks
          /\ pc \in [Workers -> Calls] /\ delta \in [Workers -> {0, 1}]
      BY DEF Init, Calls
    <2>4. /\ last \in Nat /\ last <= Len(stream) /\ origin \in Nat /\ origin <= last
          /\ pel \subseteq origin + 1 .. last
      BY <1>1, <1>2
    <2> QED
      BY <1>1, <2>1, <2>2, <2>3, <2>4 DEF TypeOK
  <1>4. PvIsCounted
    <2>1. \A k \in Keys : Of(counted, k) = {} /\ Cardinality(Of(counted, k)) = 0
      BY FS_EmptySet DEF Init, Of
    <2> QED
      BY <2>1 DEF Init, PvIsCounted
  <1>5. \A w \in Workers : WorkerOK(w)
    BY EmptySeq DEF Init, WorkerOK
  <1>6. OneCounts /\ AckedIsStored /\ GroupFirst
    BY <1>2 DEF Init, OneCounts, Counting, AckedIsStored, GroupFirst
  <1> QED
    BY <1>3, <1>4, <1>5, <1>6 DEF IInv

(* A step that changes nothing keeps the invariant. *)
LEMMA Stutter == IInv /\ UNCHANGED vars => IInv'
  BY DEF vars, redis, mysql, IInv, TypeOK, GroupFirst, PvIsCounted, AckedIsStored, OneCounts,
         WorkerOK, Counting, Click, Key, Addr, Delivered, Entries, Of

(* Every step keeps the invariant. *)
LEMMA Preserved == IInv /\ [Next]_vars => IInv'
  <1> SUFFICES ASSUME IInv, [Next]_vars PROVE IInv'
    OBVIOUS
  <1>1. CASE \E e \in Clicks : Emit(e)
    BY <1>1, EmitStep
  <1>2. CASE \E w \in Workers : Work(w) \/ Crash(w)
    <2> PICK w \in Workers : Work(w) \/ Crash(w)
      BY <1>2
    <2> QED
      BY EnsureGroupStep, ReadStep, InsertStep, MemberStep, AddStep, UpsertStep, AckStep, CrashStep
         DEF Work, Handle
  <1>3. CASE \E k \in Keys : Forget(k)
    BY <1>3, ForgetStep
  <1>4. CASE UNCHANGED vars
    BY <1>4, Stutter
  <1> QED
    BY <1>1, <1>2, <1>3, <1>4 DEF Next

(* The invariant of the click consumers, for any number of workers, clicks   *)
(* and entries: what is in hand was delivered, no two workers count a click, *)
(* and the page views are the clicks counted.                                *)
THEOREM Invariance == Spec => []IInv
  BY Initially, Preserved, PTL DEF Spec

(* Every variable keeps its type; the pending entries were all delivered. *)
THEOREM TypeCorrect == Spec => []TypeOK
  <1>1. IInv => TypeOK
    BY DEF IInv
  <1> QED
    BY <1>1, Invariance, PTL

(* Redelivery, crashes and workers on the same click never count a click     *)
(* twice: the page views of a key are at most its stored clicks.             *)
THEOREM PvCounts == Spec => []PvCountsStored
  <1>1. IInv => PvCountsStored
    <2> SUFFICES ASSUME IInv, NEW k \in Keys PROVE pv[k] <= Cardinality(Of(details, k))
      BY DEF PvCountsStored
    <2>1. Of(counted, k) \subseteq Of(details, k) /\ Of(details, k) \subseteq Clicks
      BY DEF IInv, PvIsCounted, TypeOK, Of
    <2>2. IsFiniteSet(Of(details, k))
      BY <2>1, FS_Subset, ClicksAssumption
    <2>3. Cardinality(Of(counted, k)) <= Cardinality(Of(details, k))
      BY <2>1, <2>2, FS_Subset
    <2> QED
      BY <2>3 DEF IInv, PvIsCounted
  <1> QED
    BY <1>1, Invariance, PTL

(* An entry leaves the pending list only when its click is stored. *)
THEOREM AckedStored == Spec => []AckedIsStored
  <1>1. IInv => AckedIsStored
    BY DEF IInv
  <1> QED
    BY <1>1, Invariance, PTL

-----------------------------------------------------------------------------
(* What the counter sees of a step *)
Sent == {stream[i] : i \in Entries}

(* A step at which nothing is reported or counted is no step of the counter. *)
LEMMA Unseen ==
    ASSUME stream' = stream, UNCHANGED <<counted, pv, uv>>
    PROVE  UNCHANGED Counter!vars
  <1>1. Sent' = Sent
    BY DEF Sent, Entries
  <1> QED
    BY <1>1 DEF Counter!vars, Sent

(* Reporting a click adds an entry to the stream. *)
LEMMA EmitReports ==
    ASSUME IInv, NEW e \in Clicks, Emit(e)
    PROVE  Counter!Report(e)
  <1>1. /\ stream' = Append(stream, e) /\ stream \in Seq(Clicks) /\ Len(stream) \in Nat
        /\ counted' = counted /\ pv' = pv /\ uv' = uv
    BY DEF Emit, mysql, IInv, TypeOK
  <1>2. /\ Entries = 1 .. Len(stream) /\ Entries' = 1 .. Len(stream) + 1
        /\ stream'[Len(stream) + 1] = e
        /\ \A i \in 1 .. Len(stream) : stream'[i] = stream[i]
    BY <1>1, AppendProperties DEF Entries
  <1>3. Sent' = Sent \union {e}
    <2>1. Entries' = Entries \union {Len(stream) + 1}
      BY <1>1, <1>2
    <2>2. Sent' = {stream'[i] : i \in Entries} \union {stream'[Len(stream) + 1]}
      BY <2>1 DEF Sent
    <2> QED
      BY <1>2, <2>2 DEF Sent
  <1> QED
    BY <1>1, <1>3 DEF Counter!Report, Sent

(* The statement of Upsert, when it is applied, counts the worker's click,   *)
(* which was reported and, by the invariant, not counted before.             *)
LEMMA CountInCounts ==
    ASSUME IInv, NEW w \in Workers, At(w, "upsert"), CountIn(w), stream' = stream
    PROVE  \E e \in Clicks : Counter!Count(e)
  <1>1. /\ batch[w] # <<>> /\ Click(w) \notin counted /\ Key(w) \in Keys
    BY DEF IInv, WorkerOK, At
  <1>2. Click(w) \in Clicks /\ Head(batch[w]) \in Entries
    BY <1>1, InHand
  <1>3. Click(w) \in Sent
    BY <1>2 DEF Click, Sent
  <1>4. Sent' = Sent
    BY DEF Sent, Entries
  <1>5. delta[w] \in {0, 1}
    BY DEF IInv, TypeOK
  <1>6. \E d \in {0, 1} : uv' = [uv EXCEPT ![KeyOf[Click(w)]] = @ + d]
    BY <1>5 DEF CountIn, Key
  <1>7. Counter!Count(Click(w))
    BY <1>1, <1>3, <1>4, <1>6 DEF Counter!Count, CountIn, Key, Sent
  <1> QED
    BY <1>2, <1>7

(* Every step of the workers is a step of the counter or none at all. *)
LEMMA StepCounts == IInv /\ [Next]_vars => [Counter!Next]_(Counter!vars)
  <1> SUFFICES ASSUME IInv, [Next]_vars PROVE [Counter!Next]_(Counter!vars)
    OBVIOUS
  <1>1. CASE \E e \in Clicks : Emit(e)
    BY <1>1, EmitReports DEF Counter!Next
  <1>2. CASE \E w \in Workers : Work(w) \/ Crash(w)
    <2> PICK w \in Workers : Work(w) \/ Crash(w)
      BY <1>2
    <2>1. CASE Upsert(w)
      <3>1. At(w, "upsert") /\ stream' = stream
            /\ (CountIn(w) \/ UNCHANGED <<counted, pv, uv>>)
        BY <2>1 DEF Upsert, redis
      <3> QED
        BY <3>1, CountInCounts, Unseen DEF Counter!Next
    <2>2. CASE ~Upsert(w)
      <3>1. stream' = stream /\ UNCHANGED <<counted, pv, uv>>
        BY <2>2 DEF Work, Handle, EnsureGroup, Read, Insert, Member, Add, Ack, Crash, redis, mysql
      <3> QED
        BY <3>1, Unseen
    <2> QED
      BY <2>1, <2>2
  <1>3. CASE \E k \in Keys : Forget(k)
    <2>1. stream' = stream /\ UNCHANGED <<counted, pv, uv>>
      BY <1>3 DEF Forget, mysql
    <2> QED
      BY <2>1, Unseen
  <1>4. CASE UNCHANGED vars
    <2>1. stream' = stream /\ UNCHANGED <<counted, pv, uv>>
      BY <1>4 DEF vars, redis, mysql
    <2> QED
      BY <2>1, Unseen
  <1> QED
    BY <1>1, <1>2, <1>3, <1>4 DEF Next

(* The workers implement the counter: whatever fails, is delivered again or  *)
(* runs at the same time, a click is counted at most once, for its own key.  *)
THEOREM ImplementsCounter == Spec => CountsAsPromised
  <1>1. Init => Counter!Init
    <2> SUFFICES ASSUME Init PROVE Counter!Init
      OBVIOUS
    <2>1. Entries = {}
      BY EmptySeq DEF Init, Entries
    <2> QED
      BY <2>1 DEF Init, Counter!Init
  <1> QED
    BY <1>1, StepCounts, Invariance, PTL DEF Spec, CountsAsPromised, Counter!Spec


-----------------------------------------------------------------------------
(* Proof about the unique visitors of a service with one worker and a Redis    *)
(* that keeps what it is told, for any clicks, keys, addresses and bounds.     *)

OneWorker == \A v, w \in Workers : v = w
RedisKeeps == {"add", "expire"} \intersect Faults = {}

(* The addresses that are visitors of a key; among them the one that is about  *)
(* to be counted, and not yet the one that is about to be added.               *)
Visitor(k, a) == [key |-> k, addr |-> a]
Seen(k) == {a \in Addrs : Visitor(k, a) \in visitors}
ToCount(k) == \E w \in Workers : pc[w] = "upsert" /\ delta[w] = 1 /\ Key(w) = k
UvOf(n, k, pending) == n + (IF pending THEN 1 ELSE 0) <= Cardinality(Seen(k))
SeenOK ==
    /\ \A k \in Keys : Seen(k) \subseteq AddrsOf(details, k) /\ UvOf(uv[k], k, ToCount(k))
    /\ \A w \in Workers : pc[w] = "add" =>
           delta[w] = 1 /\ Addr(w) # NoAddr /\ Visitor(Key(w), Addr(w)) \notin visitors

LEMMA AddrsFinite == ASSUME NEW S \in SUBSET Clicks, NEW k PROVE IsFiniteSet(AddrsOf(S, k))
<1> DEFINE f == [e \in Of(S, k) |-> AddrOf[e]]
           T == {AddrOf[e] : e \in Of(S, k)}
<1>1. IsFiniteSet(Of(S, k))
    BY FS_Subset, ClicksAssumption DEF Of
<1>2. f \in Surjection(Of(S, k), T)
    BY DEF Surjection
<1>3. IsFiniteSet(T)
    BY <1>1, <1>2, FS_Surjection DEF ExistsSurjection
<1> QED
    BY <1>3, FS_Subset DEF AddrsOf

LEMMA SeenFinite ==
    ASSUME IInv, SeenOK, NEW k \in Keys
    PROVE  IsFiniteSet(Seen(k)) /\ Cardinality(Seen(k)) <= Cardinality(AddrsOf(details, k))
<1>1. IsFiniteSet(AddrsOf(details, k)) /\ Seen(k) \in SUBSET AddrsOf(details, k)
    BY AddrsFinite DEF IInv, TypeOK, SeenOK
<1> QED
    BY <1>1, FS_Subset

(* Steps that leave visitors and counts alone, and begin to count nothing.     *)
LEMMA SeenSame ==
    ASSUME IInv, SeenOK, UNCHANGED <<visitors, uv>>, details \subseteq details',
           \A k \in Keys : ToCount(k)' => ToCount(k),
           \A w \in Workers : pc'[w] = "add" =>
               pc[w] = "add" /\ delta'[w] = delta[w] /\ Click(w)' = Click(w)
    PROVE  SeenOK'
<1>1. \A k \in Keys : Seen(k)' = Seen(k) /\ AddrsOf(details, k) \subseteq AddrsOf(details, k)'
    BY DEF Seen, AddrsOf, Of, Visitor
<1>2. ASSUME NEW k \in Keys PROVE UvOf(uv[k], k, ToCount(k))'
    <2>1. UvOf(uv[k], k, ToCount(k)) /\ uv[k] \in Nat /\ Cardinality(Seen(k)) \in Nat
        BY SeenFinite, FS_CardinalityType DEF SeenOK, IInv, TypeOK
    <2> QED
        BY <1>1, <2>1 DEF UvOf
<1>3. \A w \in Workers : pc'[w] = "add" =>
          delta'[w] = 1 /\ Addr(w)' # NoAddr /\ Visitor(Key(w), Addr(w))' \notin visitors'
    BY DEF SeenOK, Addr, Key, Visitor
<1> QED
    BY <1>1, <1>2, <1>3 DEF SeenOK

LEMMA OthersSame ==
    ASSUME IInv, SeenOK, OneWorker, NEW w \in Workers, UNCHANGED <<visitors, uv>>,
           details \subseteq details', pc'[w] \notin {"add", "upsert"}
    PROVE  SeenOK'
<1>1. \A v \in Workers : v = w
    BY DEF OneWorker
<1> QED
    BY <1>1, SeenSame DEF ToCount

(* An address that is looked up and not found is about to be added.            *)
LEMMA MemberSeen ==
    ASSUME IInv, SeenOK, OneWorker, NEW w \in Workers, Member(w) PROVE SeenOK'
<1>1. \A v \in Workers : v = w
    BY DEF OneWorker
<1>2. pc[w] = "member" /\ UNCHANGED <<redis, mysql, batch>>
    BY DEF Member, At
<1>3. UNCHANGED <<visitors, uv, details, stream>> /\ Click(w)' = Click(w)
    BY <1>2 DEF redis, mysql, Click
<1>4. \/ pc'[w] = "upsert" /\ delta'[w] = 0
      \/ pc'[w] = "add" /\ delta'[w] = 1 /\ Addr(w) # NoAddr /\ Visitor(Key(w), Addr(w)) \notin visitors
    BY DEF Member, Goto, Visitor, IInv, TypeOK
<1>5. CASE pc'[w] = "upsert" /\ delta'[w] = 0
    BY <1>1, <1>3, <1>5, SeenSame DEF ToCount
<1>6. CASE pc'[w] = "add" /\ delta'[w] = 1 /\ Addr(w) # NoAddr /\ Visitor(Key(w), Addr(w)) \notin visitors
    <2>1. \A k \in Keys : Seen(k)' = Seen(k) /\ AddrsOf(details, k)' = AddrsOf(details, k)
        BY <1>3 DEF Seen, AddrsOf, Of, Visitor
    <2>2. \A k \in Keys : UvOf(uv[k], k, ToCount(k))'
        BY <1>1, <1>2, <1>3, <1>6, <2>1 DEF UvOf, ToCount, SeenOK
    <2>3. Addr(w)' = Addr(w) /\ Key(w)' = Key(w)
        BY <1>3 DEF Addr, Key
    <2> QED
        BY <1>1, <1>3, <1>6, <2>1, <2>2, <2>3 DEF SeenOK, Visitor
<1> QED
    BY <1>4, <1>5, <1>6

(* It is added, and is the one more visitor that will be counted.              *)
LEMMA AddSeen ==
    ASSUME IInv, SeenOK, OneWorker, RedisKeeps, NEW w \in Workers, Add(w) PROVE SeenOK'
<1> PICK K : K = Key(w)
    OBVIOUS
<1> PICK A : A = Addr(w)
    OBVIOUS
<1>1. \A v \in Workers : v = w
    BY DEF OneWorker
<1>2. /\ pc[w] = "add" /\ pc'[w] = "upsert" /\ UNCHANGED <<stream, mysql, batch, delta>>
      /\ visitors' = visitors \union {Visitor(K, A)}
    BY DEF Add, At, Goto, Visitor, RedisKeeps, IInv, TypeOK
<1>3. UNCHANGED <<uv, details, stream>> /\ Click(w)' = Click(w) /\ Key(w)' = K
    BY <1>2 DEF mysql, Click, Key
<1>4. K \in Keys /\ A \in Addrs /\ Click(w) \in details
    BY <1>2 DEF IInv, WorkerOK
<1>5. delta[w] = 1 /\ A # NoAddr /\ A \notin Seen(K)
    BY <1>2 DEF SeenOK, Seen
<1>6. A \in AddrsOf(details, K)
    BY <1>4, <1>5 DEF AddrsOf, Of, Key, Addr
<1>7. Seen(K)' = Seen(K) \union {A} /\ \A k \in Keys \ {K} : Seen(k)' = Seen(k)
    BY <1>2, <1>4 DEF Seen, Visitor
<1>8. \A k \in Keys : Seen(k)' \subseteq AddrsOf(details, k)'
    BY <1>3, <1>6, <1>7 DEF SeenOK, AddrsOf, Of
<1>9. \A k \in Keys : ToCount(k)' <=> k = K
    BY <1>1, <1>2, <1>3, <1>5 DEF ToCount
<1>10. ASSUME NEW k \in Keys PROVE UvOf(uv[k], k, ToCount(k))'
    <2>1. UvOf(uv[k], k, FALSE) /\ uv[k] \in Nat /\ IsFiniteSet(Seen(k)) /\ Cardinality(Seen(k)) \in Nat
        BY <1>1, <1>2, SeenFinite, FS_CardinalityType DEF SeenOK, UvOf, ToCount, IInv, TypeOK
    <2>2. CASE k = K
        <3>1. Cardinality(Seen(k) \union {A}) = Cardinality(Seen(k)) + 1
            BY <1>5, <2>1, <2>2, FS_AddElement
        <3> QED
            BY <1>3, <1>7, <1>9, <2>1, <2>2, <3>1 DEF UvOf
    <2>3. CASE k # K
        BY <1>3, <1>7, <1>9, <2>1, <2>3 DEF UvOf
    <2> QED
        BY <2>2, <2>3
<1> QED
    BY <1>1, <1>2, <1>8, <1>10 DEF SeenOK

(* It is counted, or lost on its way to the statistics.                        *)
LEMMA UpsertSeen ==
    ASSUME IInv, SeenOK, OneWorker, NEW w \in Workers, Upsert(w) PROVE SeenOK'
<1>1. \A v \in Workers : v = w
    BY DEF OneWorker
<1>2. pc[w] = "upsert" /\ UNCHANGED <<visitors, details, stream>> /\ Key(w) \in Keys /\ delta[w] \in {0, 1}
    BY DEF Upsert, At, redis, IInv, WorkerOK, TypeOK
<1>3. pc'[w] \notin {"add", "upsert"}
    BY DEF Upsert, Goto, NextEntry, IInv, TypeOK
<1>4. CASE UNCHANGED uv
    BY <1>2, <1>3, <1>4, OthersSame
<1>5. CASE uv' = [uv EXCEPT ![Key(w)] = @ + delta[w]]
    <2>1. \A k \in Keys : Seen(k)' = Seen(k) /\ AddrsOf(details, k)' = AddrsOf(details, k)
        BY <1>2 DEF Seen, AddrsOf, Of, Visitor
    <2>2. \A k \in Keys : ~ToCount(k)'
        BY <1>1, <1>3 DEF ToCount
    <2>3. ASSUME NEW k \in Keys PROVE UvOf(uv[k], k, ToCount(k))'
        <3>1. UvOf(uv[k], k, ToCount(k)) /\ uv[k] \in Nat /\ Cardinality(Seen(k)) \in Nat
            BY SeenFinite, FS_CardinalityType DEF SeenOK, IInv, TypeOK
        <3>2. uv'[k] = IF k = Key(w) THEN uv[k] + delta[w] ELSE uv[k]
            BY <1>2, <1>5 DEF IInv, TypeOK
        <3>3. k = Key(w) /\ delta[w] = 1 => ToCount(k)
            BY <1>2 DEF ToCount
        <3> QED
            BY <1>2, <2>1, <2>2, <3>1, <3>2, <3>3 DEF UvOf
    <2> QED
        BY <1>1, <1>3, <2>1, <2>3 DEF SeenOK
<1> QED
    BY <1>4, <1>5 DEF Upsert, CountIn

LEMMA EmitSeen == ASSUME IInv, SeenOK, NEW e \in Clicks, Emit(e) PROVE SeenOK'
<1>1. UNCHANGED <<visitors, uv, details, pc, batch, delta>> /\ stream' = Append(stream, e)
    BY DEF Emit, mysql
<1>2. ASSUME NEW w \in Workers, pc[w] \in {"add", "upsert"} PROVE Click(w)' = Click(w)
    <2>1. Head(batch[w]) \in Entries /\ stream \in Seq(Clicks)
        BY <1>2, InHand DEF IInv, WorkerOK, TypeOK
    <2> QED
        BY <1>1, <2>1 DEF Click, Entries
<1> QED
    BY <1>1, <1>2, SeenSame DEF ToCount, Key

LEMMA StepSeen ==
    OneWorker /\ RedisKeeps /\ IInv /\ SeenOK /\ [Next]_vars => SeenOK'
<1> SUFFICES ASSUME OneWorker, RedisKeeps, IInv, SeenOK, [Next]_vars PROVE SeenOK'
    OBVIOUS
<1>1. CASE UNCHANGED vars
    BY <1>1, SeenSame DEF vars, redis, mysql, ToCount, Key, Click
<1>2. ASSUME NEW w \in Workers,
             EnsureGroup(w) \/ Read(w) \/ Insert(w) \/ Ack(w) \/ Crash(w)
      PROVE  SeenOK'
    <2>1. UNCHANGED <<visitors, uv>> /\ details \subseteq details'
        BY <1>2 DEF EnsureGroup, Read, Insert, Ack, Crash, redis, mysql
    <2>2. pc'[w] \notin {"add", "upsert"}
        BY <1>2 DEF EnsureGroup, Read, Insert, Ack, Crash, At, Goto, NextEntry, IInv, TypeOK
    <2> QED
        BY <2>1, <2>2, OthersSame
<1>3. ASSUME NEW w \in Workers, Member(w) \/ Add(w) \/ Upsert(w) PROVE SeenOK'
    BY <1>3, MemberSeen, AddSeen, UpsertSeen
<1>4. ASSUME NEW k \in Keys, Forget(k) PROVE SeenOK'
    BY <1>4 DEF Forget, RedisKeeps, IInv, TypeOK
<1> QED
    BY <1>1, <1>2, <1>3, <1>4, EmitSeen DEF Next, Work, Handle

(* One worker counts no more unique visitors than there were addresses,        *)
(* wherever it crashes between SISMEMBER, SADD and the statistics.             *)
THEOREM UvBounded == ASSUME OneWorker, RedisKeeps PROVE Spec => []UvAtMostAddresses
<1>1. Init => SeenOK
    <2> SUFFICES ASSUME Init PROVE SeenOK
        OBVIOUS
    <2>1. \A k \in Keys : Seen(k) = {} /\ ~ToCount(k) /\ uv[k] = 0
        BY DEF Init, Seen, ToCount
    <2>2. \A k \in Keys : Cardinality(Seen(k)) = 0
        BY <2>1, FS_EmptySet
    <2>3. \A k \in Keys : UvOf(uv[k], k, ToCount(k))
        BY <2>1, <2>2 DEF UvOf
    <2>4. \A w \in Workers : pc[w] # "add"
        BY DEF Init
    <2> QED
        BY <2>1, <2>3, <2>4 DEF SeenOK
<1>2. IInv /\ SeenOK => UvAtMostAddresses
    <2> SUFFICES ASSUME IInv, SeenOK, NEW k \in Keys PROVE uv[k] <= Cardinality(AddrsOf(details, k))
        BY DEF UvAtMostAddresses
    <2>1. UvOf(uv[k], k, ToCount(k)) /\ uv[k] \in Nat
        BY DEF SeenOK, IInv, TypeOK
    <2>2. Cardinality(Seen(k)) \in Nat /\ Cardinality(Seen(k)) <= Cardinality(AddrsOf(details, k))
        BY SeenFinite, FS_CardinalityType
    <2>3. Cardinality(AddrsOf(details, k)) \in Nat
        BY AddrsFinite, FS_CardinalityType DEF IInv, TypeOK
    <2> QED
        BY <2>1, <2>2, <2>3 DEF UvOf
<1>3. IInv /\ SeenOK /\ [Next]_vars => SeenOK'
    BY StepSeen
<1> QED
    BY <1>1, <1>2, <1>3, Invariance, PTL DEF Spec
=============================================================================
