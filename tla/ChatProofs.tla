------------------------------ MODULE ChatProofs ------------------------------
(* Proofs about the AI agent, for any turns, requests, answers of the model    *)
(* and configurations.                                                         *)
EXTENDS ChatProperties, SequenceTheorems, TLAPS

(* Contexts are closed under what the agent does to them.                      *)
LEMMA NoContextType == NoContext \in Context
BY DEF NoContext, Context

LEMMA FillType ==
    ASSUME NEW a \in Context, NEW b \in Context
    PROVE  Fill(a, b) \in Context
BY DEF Fill, Context

LEMMA SlotTypes ==
    ASSUME NEW c \in Context
    PROVE  /\ c.shortUrl \in Codes \union {Blank}
           /\ c.longUrl \in Urls \union {Blank}
           /\ c.expireAt \in Dates \union {Blank}
BY DEF Context, Slots, Values

LEMMA AnswerTypes ==
    ASSUME NEW k \in Codes, NEW u \in Urls, NEW d \in Dates \union {Blank}
    PROVE  /\ [NoContext EXCEPT !.shortUrl = k] \in Context
           /\ [NoContext EXCEPT !.shortUrl = k, !.longUrl = u, !.expireAt = d] \in Context
BY DEF NoContext, Context, Slots, Values

LEMMA PatchedType ==
    ASSUME NEW l \in Link, NEW c \in Context
    PROVE  Patched(l, c) \in Link
BY SlotTypes DEF Patched, Link

LEMMA FinalStatusType ==
    ASSUME NEW calls PROVE FinalStatus(calls) \in {"no_op", "succeeded", "partial_failed"}
BY DEF FinalStatus

LEMMA CallsType ==
    ASSUME NEW calls \in Seq(Call)
    PROVE  \A i \in DOMAIN calls : calls[i] \in Call /\ calls[i].out \in Context
<1>1. \A i \in DOMAIN calls : calls[i] \in Call
    BY ElementOfSeq, LenProperties
<1>2. \A c \in Call : c.out \in Context
    BY DEF Call
<1> QED
    BY <1>1, <1>2

(* What a session learns is a context.                                         *)
LEMMA LearnedType ==
    ASSUME NEW t \in Turns, run[t] \in Run
    PROVE  Learned(t) \in Context
<1>1. run[t].calls \in Seq(Call) /\ run[t].ctx \in Context /\ run[t].mem \in Context
    BY DEF Run
<1>2. Fill(run[t].ctx, run[t].mem) \in Context
    BY <1>1, FillType
<1>3. \A i \in DOMAIN run[t].calls : run[t].calls[i].out \in Context
    BY <1>1, CallsType
<1>4. ASSUME NEW s \in Slots PROVE Learned(t)[s] \in Values(s) \union {Blank}
    <2> DEFINE calls == run[t].calls
               Latest(i) == /\ calls[i].out[s] # Blank
                            /\ \A j \in DOMAIN calls : j > i => calls[j].out[s] = Blank
               last == CHOOSE i \in DOMAIN calls : Latest(i)
    <2>1. Learned(t)[s] = IF \E i \in DOMAIN calls : Latest(i)
                          THEN calls[last].out[s]
                          ELSE Fill(run[t].ctx, run[t].mem)[s]
        BY DEF Learned
    <2>2. \A c \in Context : c[s] \in Values(s) \union {Blank}
        BY DEF Context
    <2>3. CASE \E i \in DOMAIN calls : Latest(i)
        <3> HIDE DEF Latest
        <3>1. last \in DOMAIN calls
            BY <2>3
        <3> QED
            BY <1>3, <2>1, <2>2, <2>3, <3>1
    <2>4. CASE ~\E i \in DOMAIN calls : Latest(i)
        BY <1>2, <2>1, <2>2, <2>4
    <2> QED
        BY <2>3, <2>4
<1>5. \A s \in Slots : Learned(t)[s] \in Codes \union Urls \union Dates \union {Blank}
    BY <1>4 DEF Values
<1>6. Learned(t) = [s \in Slots |-> Learned(t)[s]]
    BY DEF Learned
<1> QED
    BY <1>4, <1>5, <1>6 DEF Context

-----------------------------------------------------------------------------
(* A step that does no write: what the turn holds next must fit its writes.    *)
LEMMA Quiet ==
    ASSUME IInv, NEW t \in Turns, NEW p \in Steps, NEW b \in BOOLEAN, NEW r \in Run,
           UNCHANGED <<config, tasks, services>>,
           sessions' \in [Sessions -> Context],
           pc' = [pc EXCEPT ![t] = p],
           run' = [run EXCEPT ![t] = r],
           alive' = [alive EXCEPT ![t] = b],
           answer' \in [Turns -> {"none", "error", "chat", "succeeded", "partial_failed", "no_op"}],
           pc[t] \in {"session", "done"} => p \in {"session", "done"},
           p \in {"classify", "intent", "plan", "choose"} => r.calls = <<>>,
           WritesOf(t, p, b),
           p \in {"dag", "rule", "task"} => CallsOf(t, r.calls)
    PROVE  IInv'
<1> USE DEF services
<1>1. AgentTypeOK'
    BY DEF IInv, AgentTypeOK
<1>2. /\ pc'[t] = p /\ run'[t] = r /\ alive'[t] = b
      /\ \A u \in Turns \ {t} : pc'[u] = pc[u] /\ run'[u] = run[u] /\ alive'[u] = alive[u]
    BY DEF IInv, AgentTypeOK
<1>3. WritesOK'
    BY <1>2 DEF IInv, WritesOK, WritesOf
<1>4. CallsOK'
    BY <1>2 DEF IInv, CallsOK, CallsOf
<1>5. Started'
    BY <1>2 DEF IInv, Started
<1>6. FallbackRepeatsNothing' /\ SucceededIsDone'
    BY DEF IInv, FallbackRepeatsNothing, SucceededIsDone
<1> QED
    BY <1>1, <1>3, <1>4, <1>5, <1>6 DEF IInv

(* A turn that has not called a tool has written nothing.                      *)
LEMMA NothingYet ==
    ASSUME IInv, NEW t \in Turns, pc[t] \in {"idle", "direct", "intent", "plan", "choose"}
    PROVE  /\ \A w \in writes : w.turn # t
           /\ \A p, b : WritesOf(t, p, b)
           /\ CallsOf(t, <<>>)
<1>1. \A w \in writes : w.turn # t
    BY DEF IInv, AgentTypeOK, Write, WritesOK, WritesOf
<1> QED
    BY <1>1 DEF WritesOf, CallsOf

(* A step of a running turn that only moves it on, to p with what r holds.     *)
LEMMA Moved ==
    ASSUME IInv, NEW t \in Turns, NEW p \in Steps \ {"idle", "done"}, NEW r \in Run,
           UNCHANGED <<config, stores, services, alive>>, Goto(t, p),
           run' = [run EXCEPT ![t] = r],
           pc[t] \notin {"session", "done"},
           p \in {"classify", "intent", "plan", "choose"} => r.calls = <<>>,
           WritesOf(t, p, alive[t]),
           p \in {"dag", "rule", "task"} => CallsOf(t, r.calls)
    PROVE  IInv'
<1>1. alive[t] \in BOOLEAN /\ alive' = [alive EXCEPT ![t] = alive[t]]
    BY DEF IInv, AgentTypeOK
<1>2. sessions' \in [Sessions -> Context]
    BY DEF IInv, AgentTypeOK, stores
<1>3. answer' \in [Turns -> {"none", "error", "chat", "succeeded", "partial_failed", "no_op"}]
    BY DEF IInv, AgentTypeOK, Goto
<1>4. UNCHANGED <<config, tasks, services>> /\ pc' = [pc EXCEPT ![t] = p]
    BY DEF stores, Goto
<1> QED
    BY <1>1, <1>2, <1>3, <1>4, Quiet

(* A turn that is given up, or answered, keeps what it did.                    *)
LEMMA Ended ==
    ASSUME IInv, NEW t \in Turns, UNCHANGED <<config, tasks, services, alive>>,
           sessions' \in [Sessions -> Context], pc[t] # "idle",
           NEW r \in Run, run' = [run EXCEPT ![t] = r],
           NEW a \in {"error", "chat", "succeeded", "partial_failed", "no_op"}, Finish(t, a)
    PROVE  IInv'
<1> USE DEF services
<1>1. AgentTypeOK'
    BY DEF IInv, AgentTypeOK, Finish, Steps
<1>2. pc'[t] = "done" /\ \A u \in Turns \ {t} : pc'[u] = pc[u] /\ run'[u] = run[u]
    BY DEF IInv, AgentTypeOK, Finish
<1>3. WritesOK'
    BY <1>2 DEF IInv, WritesOK, WritesOf
<1>4. CallsOK'
    BY <1>2 DEF IInv, CallsOK, CallsOf
<1>5. Started'
    BY <1>2 DEF IInv, Started
<1>6. FallbackRepeatsNothing' /\ SucceededIsDone'
    BY DEF IInv, FallbackRepeatsNothing, SucceededIsDone
<1> QED
    BY <1>1, <1>3, <1>4, <1>5, <1>6 DEF IInv

LEMMA StartType ==
    ASSUME NEW t \in Turns, NEW q \in Request, NEW x \in Sessions \union {NoSession},
           NEW m \in Context, NEW c \in Context, Start(t, q, x, m, c), run \in [Turns -> Run \union {<<>>}]
    PROVE  \E r \in Run : run' = [run EXCEPT ![t] = r] /\ r.calls = <<>>
<1> DEFINE r == [session |-> x, req |-> q, mem |-> m, ctx |-> c,
                 todo |-> <<>>, called |-> FALSE, calls |-> <<>>]
<1>1. r \in Run
    BY EmptySeq DEF Run
<1> QED
    BY <1>1 DEF Start

LEMMA RequestTypes ==
    ASSUME NEW q \in Request
    PROVE  q.context \in Context /\ Reads[q.text] \in Context
BY RequestsAssumption DEF Request

LEMMA SessionType == ASSUME NEW q \in Request PROVE SessionId(q) \in Sessions
BY RequestsAssumption DEF SessionId, Request

LEMMA ChatWithStep == ASSUME IInv, NEW t \in Turns, NEW q \in Request, ChatWith(t, q) PROVE IInv'
<1> DEFINE x == SessionId(q)
           c == Merged(q, sessions[x])
           p == IF ShouldUseAgent(q, c) THEN Engine ELSE "direct"
<1>1. Start(t, q, x, sessions[x], c) /\ Goto(t, p)
    BY DEF ChatWith
<1>2. q.context \in Context /\ Reads[q.text] \in Context
    BY RequestTypes
<1>3. x \in Sessions
    BY SessionType
<1>4. sessions[x] \in Context
    BY <1>3 DEF IInv, AgentTypeOK
<1>5. c \in Context
    BY <1>2, <1>4, FillType DEF Merged
<1>6. PICK r \in Run : run' = [run EXCEPT ![t] = r] /\ r.calls = <<>>
    BY <1>1, <1>3, <1>4, <1>5, StartType DEF IInv, AgentTypeOK
<1>7. p \in {"intent", "classify", "direct"} /\ p \in Steps \ {"idle", "done"}
    BY DEF Engine, Steps
<1>8. pc[t] = "idle" /\ UNCHANGED <<config, stores, services, alive>>
    BY DEF ChatWith, At
<1>9. WritesOf(t, p, alive[t])
    BY <1>8, NothingYet
<1> HIDE DEF p, c, x
<1> QED
    BY <1>1, <1>6, <1>7, <1>8, <1>9, Moved DEF p, c, x

LEMMA ChatStep == ASSUME IInv, NEW t \in Turns, Chat(t) PROVE IInv'
<1>1. PICK q \in Requests[t] : ChatWith(t, q)
    BY DEF Chat
<1>2. q \in Request
    BY RequestsAssumption
<1> QED
    BY <1>1, <1>2, ChatWithStep

LEMMA ExecuteStep == ASSUME IInv, NEW t \in Turns, Execute(t) PROVE IInv'
<1>1. PICK q \in Requests[t] : Start(t, q, NoSession, NoContext, q.context)
    BY DEF Execute
<1>2. q \in Request /\ q.context \in Context
    BY RequestTypes, RequestsAssumption
<1>3. PICK r \in Run : run' = [run EXCEPT ![t] = r] /\ r.calls = <<>>
    BY <1>1, <1>2, NoContextType, StartType DEF IInv, AgentTypeOK
<1>4. Engine \in {"intent", "classify"} /\ Engine \in Steps \ {"idle", "done"}
    BY DEF Engine, Steps
<1>5. pc[t] = "idle" /\ Goto(t, Engine) /\ UNCHANGED <<config, stores, services, alive>>
    BY DEF Execute, At
<1>6. WritesOf(t, Engine, alive[t])
    BY <1>5, NothingYet
<1> QED
    BY <1>3, <1>4, <1>5, <1>6, Moved

LEMMA CancelStep == ASSUME IInv, NEW t \in Turns, Cancel(t) PROVE IInv'
<1>1. /\ pc[t] \in Steps \ {"idle", "done"} /\ pc' = [pc EXCEPT ![t] = pc[t]]
      /\ run[t] \in Run /\ run' = [run EXCEPT ![t] = run[t]]
      /\ alive' = [alive EXCEPT ![t] = FALSE]
    BY DEF IInv, AgentTypeOK, Cancel
<1>2. /\ UNCHANGED <<config, tasks, services>>
      /\ sessions' \in [Sessions -> Context]
      /\ answer' \in [Turns -> {"none", "error", "chat", "succeeded", "partial_failed", "no_op"}]
    BY DEF IInv, AgentTypeOK, Cancel, stores
<1>3. pc[t] \in {"classify", "intent", "plan", "choose"} => run[t].calls = <<>>
    BY DEF IInv, Started
<1>4. WritesOf(t, pc[t], FALSE)
    BY DEF IInv, WritesOK, WritesOf
<1>5. pc[t] \in {"dag", "rule", "task"} => CallsOf(t, run[t].calls)
    BY DEF IInv, CallsOK
<1> QED
    BY <1>1, <1>2, <1>3, <1>4, <1>5, Quiet

LEMMA ChatDirectStep == ASSUME IInv, NEW t \in Turns, ChatDirect(t) PROVE IInv'
<1>1. pc[t] = "direct" /\ UNCHANGED <<config, tasks, services, run, alive>>
    BY DEF ChatDirect, At
<1>2. run[t].ctx \in Context /\ run[t].mem \in Context
    BY <1>1 DEF IInv, AgentTypeOK, Run
<1>3. Fill(run[t].ctx, run[t].mem) \in Context
    BY <1>2, FillType
<1>4. sessions' \in [Sessions -> Context]
    BY <1>3 DEF IInv, AgentTypeOK, ChatDirect
<1>5. Finish(t, "chat") \/ Finish(t, "error")
    BY DEF ChatDirect
<1>6. run[t] \in Run /\ run' = [run EXCEPT ![t] = run[t]]
    BY <1>1 DEF IInv, AgentTypeOK
<1>7. UNCHANGED <<config, tasks, services, alive>> /\ pc[t] # "idle"
    BY <1>1
<1> QED
    BY <1>4, <1>5, <1>6, <1>7, Ended

-----------------------------------------------------------------------------
(* The engines.                                                                *)

(* A DAG falls back before it called a tool, or when it is cancelled.          *)
LEMMA FallsBack ==
    ASSUME IInv, NEW t \in Turns, FallbackOrErr(t),
           pc[t] \in {"intent", "plan", "choose"} \/ (pc[t] = "dag" /\ ~alive[t]),
           UNCHANGED <<config, stores, services, alive>>
    PROVE  IInv'
<1> DEFINE r == [run[t] EXCEPT !.todo = <<>>, !.calls = <<>>, !.called = FALSE]
<1>1. run[t] \in Run /\ r \in Run /\ r.calls = <<>>
    BY EmptySeq DEF IInv, AgentTypeOK, Run
<1>2. run' = [run EXCEPT ![t] = r]
    BY DEF FallbackOrErr
<1>3. WritesOf(t, "classify", alive[t])
    BY NothingYet DEF IInv, WritesOK, WritesOf
<1>4. sessions' \in [Sessions -> Context] /\ UNCHANGED <<config, tasks, services, alive>>
    BY DEF IInv, AgentTypeOK, stores
<1>5. "classify" \in Steps \ {"idle", "done"} /\ pc[t] \notin {"idle", "session", "done"}
    BY DEF Steps
<1> HIDE DEF r
<1>6. CASE Goto(t, "classify")
    BY <1>1, <1>2, <1>3, <1>5, <1>6, Moved
<1>7. CASE Finish(t, "error")
    BY <1>1, <1>2, <1>4, <1>5, <1>7, Ended
<1> QED
    BY <1>6, <1>7 DEF FallbackOrErr

LEMMA PlanTypes == Plans \subseteq Seq(Tools)
<1>1. \A a, b \in Tools : <<a>> \in Seq(Tools) /\ <<a, b>> \in Seq(Tools)
    OBVIOUS
<1> QED
    BY <1>1 DEF Plans, ToolsOf, Intents, Tools

LEMMA IntentAgentStep == ASSUME IInv, NEW t \in Turns, IntentAgent(t) PROVE IInv'
<1>1. pc[t] = "intent" /\ UNCHANGED <<config, stores, services, alive>>
    BY DEF IntentAgent, At
<1>2. CASE Goto(t, "plan") /\ UNCHANGED run
    <2>1. run[t] \in Run /\ run' = [run EXCEPT ![t] = run[t]] /\ run[t].calls = <<>>
        BY <1>1, <1>2 DEF IInv, AgentTypeOK, Started
    <2>2. "plan" \in Steps \ {"idle", "done"} /\ WritesOf(t, "plan", alive[t])
        BY <1>1, NothingYet DEF Steps
    <2> QED
        BY <1>1, <1>2, <2>1, <2>2, Moved
<1>3. CASE FallbackOrErr(t)
    BY <1>1, <1>3, FallsBack
<1> QED
    BY <1>2, <1>3 DEF IntentAgent

LEMMA PlannerAgentStep == ASSUME IInv, NEW t \in Turns, PlannerAgent(t) PROVE IInv'
<1>1. pc[t] = "plan" /\ UNCHANGED <<config, stores, services, alive>>
    BY DEF PlannerAgent, At
<1>2. ASSUME Goto(t, "choose"), NEW p \in Plans, run' = [run EXCEPT ![t].todo = p]
      PROVE  IInv'
    <2> DEFINE r == [run[t] EXCEPT !.todo = p]
    <2>1. r \in Run /\ run' = [run EXCEPT ![t] = r] /\ r.calls = <<>>
        BY <1>1, <1>2, PlanTypes DEF IInv, AgentTypeOK, Started, Run
    <2>2. "choose" \in Steps \ {"idle", "done"} /\ WritesOf(t, "choose", alive[t])
        BY <1>1, NothingYet DEF Steps
    <2> HIDE DEF r
    <2> QED
        BY <1>1, <1>2, <2>1, <2>2, Moved
<1>3. CASE FallbackOrErr(t)
    BY <1>1, <1>3, FallsBack
<1> QED
    BY <1>2, <1>3 DEF PlannerAgent

(* Whatever the tool agent is about to call, it has called nothing yet.        *)
LEMMA ToolsChosen ==
    ASSUME IInv, NEW t \in Turns, pc[t] = "choose", Goto(t, "dag"),
           UNCHANGED <<config, stores, services, alive>>,
           NEW r \in Run, run' = [run EXCEPT ![t] = r], r.calls = run[t].calls
    PROVE  IInv'
<1>1. r.calls = <<>>
    BY DEF IInv, Started
<1>2. WritesOf(t, "dag", alive[t]) /\ CallsOf(t, r.calls)
    BY <1>1, NothingYet
<1>3. "dag" \in Steps \ {"idle", "done"}
    BY DEF Steps
<1> QED
    BY <1>1, <1>2, <1>3, Moved

LEMMA ToolAgentStep == ASSUME IInv, NEW t \in Turns, ToolAgent(t) PROVE IInv'
<1>1. pc[t] = "choose" /\ UNCHANGED <<config, stores, services, alive>>
    BY DEF ToolAgent, At
<1>2. run[t] \in Run
    BY <1>1 DEF IInv, AgentTypeOK
<1>3. ASSUME Goto(t, "dag"), NEW n \in 1 .. MaxCalls, NEW ts \in [1 .. n -> Tools],
             run' = [run EXCEPT ![t].todo = ts, ![t].called = TRUE]
      PROVE  IInv'
    <2> DEFINE r == [run[t] EXCEPT !.todo = ts, !.called = TRUE]
    <2>1. ts \in Seq(Tools)
        BY RequestsAssumption
    <2>2. r \in Run /\ run' = [run EXCEPT ![t] = r] /\ r.calls = run[t].calls
        BY <1>2, <1>3, <2>1 DEF IInv, AgentTypeOK, Run
    <2> HIDE DEF r
    <2> QED
        BY <1>1, <1>3, <2>2, ToolsChosen
<1>4. CASE Goto(t, "dag") /\ UNCHANGED run
    <2>1. run' = [run EXCEPT ![t] = run[t]]
        BY <1>4 DEF IInv, AgentTypeOK
    <2> QED
        BY <1>1, <1>2, <1>4, <2>1, ToolsChosen
<1>5. ASSUME Goto(t, "dag"), NEW p \in Plans, run' = [run EXCEPT ![t].todo = p]
      PROVE  IInv'
    <2> DEFINE r == [run[t] EXCEPT !.todo = p]
    <2>1. r \in Run /\ run' = [run EXCEPT ![t] = r] /\ r.calls = run[t].calls
        BY <1>2, <1>5, PlanTypes DEF IInv, AgentTypeOK, Run
    <2> HIDE DEF r
    <2> QED
        BY <1>1, <1>5, <2>1, ToolsChosen
<1>6. CASE FallbackOrErr(t)
    BY <1>1, <1>6, FallsBack
<1> QED
    BY <1>3, <1>4, <1>5, <1>6 DEF ToolAgent

LEMMA VerifierAgentStep == ASSUME IInv, NEW t \in Turns, VerifierAgent(t) PROVE IInv'
<1>1. pc[t] = "dag" /\ UNCHANGED <<config, stores, services, alive>>
    BY DEF VerifierAgent, At
<1>2. CASE Goto(t, "task") /\ UNCHANGED run
    <2>1. run[t] \in Run /\ run' = [run EXCEPT ![t] = run[t]]
        BY <1>1, <1>2 DEF IInv, AgentTypeOK
    <2>2. CallsOf(t, run[t].calls) /\ WritesOf(t, "task", alive[t])
        BY <1>1 DEF IInv, CallsOK, WritesOf
    <2>3. "task" \in Steps \ {"idle", "done"}
        BY DEF Steps
    <2> QED
        BY <1>1, <1>2, <2>1, <2>2, <2>3, Moved
<1>3. CASE ~alive[t] /\ FallbackOrErr(t)
    BY <1>1, <1>3, FallsBack
<1> QED
    BY <1>2, <1>3 DEF VerifierAgent

(* The rule engine goes on only for a turn that is not cancelled, and such a   *)
(* turn has written nothing.                                                   *)
LEMMA ClassifyStep == ASSUME IInv, NEW t \in Turns, Classify(t) PROVE IInv'
<1>1. pc[t] = "classify" /\ UNCHANGED <<config, stores, services, alive>>
    BY DEF Classify, At
<1>2. run[t] \in Run /\ run[t].calls = <<>>
    BY <1>1 DEF IInv, AgentTypeOK, Started
<1>3. ASSUME alive[t], Goto(t, "rule"), NEW p \in Plans, run' = [run EXCEPT ![t].todo = p]
      PROVE  IInv'
    <2> DEFINE r == [run[t] EXCEPT !.todo = p]
    <2>1. r \in Run /\ run' = [run EXCEPT ![t] = r] /\ r.calls = <<>>
        BY <1>2, <1>3, PlanTypes DEF IInv, AgentTypeOK, Run
    <2>2. \A w \in writes : w.turn # t
        BY <1>1, <1>3 DEF IInv, AgentTypeOK, Write, WritesOK, WritesOf
    <2>3. WritesOf(t, "rule", alive[t]) /\ CallsOf(t, r.calls)
        BY <2>1, <2>2 DEF WritesOf, CallsOf
    <2>4. "rule" \in Steps \ {"idle", "done"}
        BY DEF Steps
    <2> HIDE DEF r
    <2> QED
        BY <1>1, <1>3, <2>1, <2>3, <2>4, Moved
<1>4. ASSUME Goto(t, "task"),
             run' = [run EXCEPT ![t].calls =
                        <<[tool |-> "intent.llm", status |-> "error",
                           out |-> NoContext, read |-> FALSE]>>]
      PROVE  IInv'
    <2> DEFINE e == [tool |-> "intent.llm", status |-> "error", out |-> NoContext, read |-> FALSE]
               r == [run[t] EXCEPT !.calls = <<e>>]
    <2>1. e \in Call
        BY NoContextType DEF Call, Statuses
    <2>2. <<e>> \in Seq(Call)
        BY <2>1
    <2>3. r \in Run /\ run' = [run EXCEPT ![t] = r] /\ r.calls = <<e>>
        BY <1>2, <1>4, <2>2 DEF IInv, AgentTypeOK, Run
    <2>4. CallsOf(t, <<e>>)
        BY DEF CallsOf
    <2>5. WritesOf(t, "task", alive[t]) /\ "task" \in Steps \ {"idle", "done"}
        BY DEF WritesOf, Steps
    <2> HIDE DEF r, e
    <2> QED
        BY <1>1, <1>4, <2>3, <2>4, <2>5, Moved
<1> QED
    BY <1>3, <1>4 DEF Classify

LEMMA RuleDoneStep == ASSUME IInv, NEW t \in Turns, RuleDone(t) PROVE IInv'
<1>1. pc[t] = "rule" /\ Goto(t, "task") /\ UNCHANGED <<config, stores, services, run, alive>>
    BY DEF RuleDone, At
<1>2. run[t] \in Run /\ run' = [run EXCEPT ![t] = run[t]]
    BY <1>1 DEF IInv, AgentTypeOK
<1>3. CallsOf(t, run[t].calls) /\ WritesOf(t, "task", alive[t])
    BY <1>1 DEF IInv, CallsOK, WritesOf
<1>4. "task" \in Steps \ {"idle", "done"} /\ UNCHANGED <<config, stores, services, alive>>
    BY <1>1 DEF Steps
<1> QED
    BY <1>1, <1>2, <1>3, <1>4, Moved

-----------------------------------------------------------------------------
(* The calls of the tools.                                                     *)

(* A call is recorded, and only a write that was done may be called ok.        *)
LEMMA Called ==
    ASSUME IInv, NEW t \in Turns, pc[t] \in {"dag", "rule"},
           NEW s \in Statuses, NEW out \in Context, NEW read \in BOOLEAN, Record(t, s, out, read),
           run[t].todo # <<>>, UNCHANGED <<config, stores, pc, alive, answer>>,
           links' \in [Codes -> Link \union {NoLink}],
           \/ UNCHANGED writes /\ (s = "ok" => Head(run[t].todo) \notin {"create", "update"})
           \/ alive[t] /\ \E k \in Codes : links'[k] \in Link /\ Done(t, k)
    PROVE  IInv'
<1> DEFINE tool == Head(run[t].todo)
           call == [tool |-> tool, status |-> s, out |-> out, read |-> read]
           r == [run[t] EXCEPT !.todo = Tail(@), !.calls = Append(@, call)]
<1>1. /\ run[t] \in Run /\ run[t].calls \in Seq(Call)
      /\ run[t].todo \in Seq(Tools) /\ run \in [Turns -> Run \union {<<>>}]
    BY DEF IInv, AgentTypeOK, Run
<1>2. tool \in Tools /\ Tail(run[t].todo) \in Seq(Tools)
    BY <1>1
<1>3. call \in Call
    BY <1>2 DEF Call
<1>4. Append(run[t].calls, call) \in Seq(Call)
    BY <1>1, <1>3
<1>5. r \in Run /\ run' = [run EXCEPT ![t] = r] /\ r.calls = Append(run[t].calls, call)
    BY <1>1, <1>2, <1>4 DEF Record, Run
<1>6. run'[t] = r /\ \A u \in Turns \ {t} : run'[u] = run[u]
    BY <1>1, <1>5
<1>7. \/ writes' = writes /\ (s = "ok" => tool \notin {"create", "update"})
      \/ alive[t] /\ \E w \in Write : /\ w.turn = t /\ w.by = pc[t] /\ w.tool = tool
                                     /\ writes' = writes \union {w}
    <2>1. ASSUME NEW k \in Codes, links'[k] \in Link, Done(t, k)
          PROVE  \E w \in Write : /\ w.turn = t /\ w.by = pc[t] /\ w.tool = tool
                                 /\ writes' = writes \union {w}
        <3> DEFINE w == [turn |-> t, by |-> pc[t], tool |-> tool, code |-> k, link |-> links'[k]]
        <3>1. w \in Write /\ w.turn = t /\ w.by = pc[t] /\ w.tool = tool
            BY <1>2, <2>1 DEF Write
        <3>2. writes' = writes \union {w}
            BY <2>1 DEF Done
        <3> HIDE DEF w, tool
        <3> QED
            BY <3>1, <3>2
    <2> QED
        BY <2>1
<1> HIDE DEF tool, call, r
<1>8. writes \subseteq writes' /\ writes' \subseteq Write
    BY <1>7 DEF IInv, AgentTypeOK
<1>9. \A w \in writes' \ writes : w.turn = t /\ w.by = pc[t] /\ w.tool = tool /\ alive[t]
    BY <1>7
<1>10. s = "ok" /\ tool \in {"create", "update"} =>
           \E w \in writes' : w.turn = t /\ w.tool = tool
    BY <1>7
<1>11. AgentTypeOK'
    BY <1>1, <1>5, <1>6, <1>8 DEF IInv, AgentTypeOK, stores
<1>12. WritesOK'
    BY <1>8, <1>9 DEF IInv, WritesOK, WritesOf
<1>13. ASSUME NEW u \in Turns, pc'[u] \in {"dag", "rule", "task"} PROVE CallsOf(u, run[u].calls)
    BY <1>13 DEF IInv, CallsOK
<1>14. \A u \in Turns \ {t} : pc'[u] \in {"dag", "rule", "task"} => CallsOf(u, run[u].calls)'
    BY <1>6, <1>8, <1>9, <1>13 DEF CallsOf
<1>15. CallsOf(t, run[t].calls)'
    <2> DEFINE old == run[t].calls
               new == Append(old, call)
    <2>1. /\ DOMAIN new = DOMAIN old \union {Len(old) + 1} /\ new[Len(old) + 1] = call
          /\ \A i \in DOMAIN old : new[i] = old[i]
        BY <1>1, <1>3
    <2>2. call.tool = tool /\ call.status = s
        BY DEF call
    <2>3. CallsOf(t, old)
        BY <1>13
    <2>4. run'[t].calls = new
        BY <1>5, <1>6
    <2> HIDE DEF old, new
    <2>5. \A i \in DOMAIN new : new[i].status = "ok" /\ new[i].tool \in {"create", "update"} =>
              \E w \in writes' : w.turn = t /\ w.tool = new[i].tool
        BY <1>8, <1>10, <2>1, <2>2, <2>3 DEF CallsOf
    <2>6. \A w \in writes' : w.turn = t =>
              \E i \in DOMAIN new : new[i].tool = w.tool \/ new[i].status # "ok"
        BY <1>9, <2>1, <2>2, <2>3 DEF CallsOf
    <2> QED
        BY <2>4, <2>5, <2>6 DEF CallsOf
<1>16. CallsOK'
    BY <1>14, <1>15 DEF CallsOK
<1>17. Started'
    BY <1>6 DEF IInv, Started, stores
<1>18. FallbackRepeatsNothing'
    <2>1. \A v \in writes : v.turn = t => v.by = pc[t] \/ ~alive[t]
        BY DEF IInv, AgentTypeOK, Write, WritesOK, WritesOf
    <2> QED
        BY <1>8, <1>9, <2>1 DEF IInv, FallbackRepeatsNothing
<1>19. SucceededIsDone'
    <2>1. tasks[t] = NoTask
        BY DEF IInv, Started
    <2>2. ASSUME NEW u \in Turns, u # t, NEW x
          PROVE  (\E w \in writes' : w.turn = u /\ w.tool = x)
                    <=> (\E w \in writes : w.turn = u /\ w.tool = x)
        BY <1>8, <1>9, <2>2
    <2>3. tasks' = tasks
        BY DEF stores
    <2> QED
        BY <2>1, <2>2, <2>3 DEF IInv, SucceededIsDone
<1> QED
    BY <1>11, <1>12, <1>16, <1>17, <1>18, <1>19 DEF IInv

LEMMA NotDoneStep ==
    ASSUME IInv, NEW t \in Turns, pc[t] \in {"dag", "rule"}, run[t].todo # <<>>,
           UNCHANGED <<config, stores, pc, alive, answer>>,
           NEW s \in Statuses \ {"ok"}, NotDone(t, s)
    PROVE  IInv'
<1>1. Record(t, s, NoContext, FALSE) /\ UNCHANGED writes /\ links' = links
    BY DEF NotDone, services
<1>2. links' \in [Codes -> Link \union {NoLink}]
    BY <1>1 DEF IInv, AgentTypeOK
<1> QED
    BY <1>1, <1>2, NoContextType, Called

(* A write that was done is told, told without what was answered, or not heard *)
(* of.                                                                         *)
LEMMA DoneStep ==
    ASSUME IInv, NEW t \in Turns, pc[t] \in {"dag", "rule"}, run[t].todo # <<>>, alive[t],
           UNCHANGED <<config, stores, pc, alive, answer>>,
           links' \in [Codes -> Link \union {NoLink}],
           NEW k \in Codes, links'[k] \in Link, Done(t, k), NEW out \in Context, Heard(t, out)
    PROVE  IInv'
<1>1. "ok" \in Statuses /\ "error" \in Statuses
    BY DEF Statuses
<1>2. CASE Record(t, "ok", out, TRUE)
    BY <1>1, <1>2, Called
<1>3. CASE Record(t, "ok", NoContext, FALSE)
    BY <1>1, <1>3, NoContextType, Called
<1>4. CASE Record(t, "error", NoContext, FALSE)
    BY <1>1, <1>4, NoContextType, Called
<1> QED
    BY <1>2, <1>3, <1>4 DEF Heard

LEMMA CreateStep ==
    ASSUME IInv, NEW t \in Turns, pc[t] \in {"dag", "rule"}, run[t].todo # <<>>,
           UNCHANGED <<config, stores, pc, alive, answer>>,
           NEW c \in Context, CreateShortLink(t, c)
    PROVE  IInv'
<1>1. CASE NotDone(t, "error")
    BY <1>1, NotDoneStep DEF Statuses
<1>2. ASSUME alive[t], c.longUrl # Blank, NEW k \in Codes,
             \/ HasUrl(k, c.longUrl) /\ UNCHANGED links
             \/ links' = [links EXCEPT ![k] = [url |-> c.longUrl, expireAt |-> Blank]],
             Done(t, k), Heard(t, [NoContext EXCEPT !.shortUrl = k])
      PROVE  IInv'
    <2>1. [url |-> c.longUrl, expireAt |-> Blank] \in Link
        BY <1>2, SlotTypes DEF Link
    <2>2. links' \in [Codes -> Link \union {NoLink}]
        BY <1>2, <2>1 DEF IInv, AgentTypeOK
    <2>3. Urls # {}
        BY <1>2, SlotTypes
    <2>4. [NoContext EXCEPT !.shortUrl = k] \in Context
        BY <2>3, AnswerTypes
    <2>5. links'[k] \in Link
        BY <1>2, <2>1 DEF IInv, AgentTypeOK, HasUrl, Used
    <2> QED
        BY <1>2, <2>2, <2>4, <2>5, DoneStep
<1> QED
    BY <1>1, <1>2 DEF CreateShortLink

LEMMA UpdateStep ==
    ASSUME IInv, NEW t \in Turns, pc[t] \in {"dag", "rule"}, run[t].todo # <<>>,
           UNCHANGED <<config, stores, pc, alive, answer>>,
           NEW c \in Context, UpdateShortLink(t, c)
    PROVE  IInv'
<1>1. CASE NotDone(t, "error")
    BY <1>1, NotDoneStep DEF Statuses
<1> DEFINE l == Patched(links[c.shortUrl], c)
           out == [NoContext EXCEPT !.shortUrl = c.shortUrl, !.longUrl = l.url, !.expireAt = l.expireAt]
<1>2. ASSUME alive[t], Updatable(c), links' = [links EXCEPT ![c.shortUrl] = l],
             Done(t, c.shortUrl), Heard(t, out)
      PROVE  IInv'
    <2>1. c.shortUrl \in Codes /\ links[c.shortUrl] \in Link
        BY <1>2 DEF IInv, AgentTypeOK, Updatable, Used
    <2>2. l \in Link
        BY <2>1, PatchedType
    <2>3. l.url \in Urls /\ l.expireAt \in Dates \union {Blank}
        BY <2>2 DEF Link
    <2> HIDE DEF l
    <2>4. out \in Context
        BY <2>1, <2>3, AnswerTypes
    <2>5. links' \in [Codes -> Link \union {NoLink}]
        BY <1>2, <2>2 DEF IInv, AgentTypeOK
    <2>6. links'[c.shortUrl] \in Link
        BY <1>2, <2>1, <2>2 DEF IInv, AgentTypeOK
    <2> HIDE DEF out
    <2> QED
        BY <1>2, <2>1, <2>4, <2>5, <2>6, DoneStep
<1> QED
    BY <1>1, <1>2 DEF UpdateShortLink

LEMMA QueryStep ==
    ASSUME IInv, NEW t \in Turns, pc[t] \in {"dag", "rule"}, run[t].todo # <<>>,
           UNCHANGED <<config, stores, pc, alive, answer>>, Head(run[t].todo) = "traffic",
           NEW c \in Context, QueryTrafficSummary(t, c)
    PROVE  IInv'
<1>1. CASE NotDone(t, "error")
    BY <1>1, NotDoneStep DEF Statuses
<1>2. CASE Heard(t, NoContext) /\ UNCHANGED services
    <2>1. links' \in [Codes -> Link \union {NoLink}] /\ UNCHANGED writes
        BY <1>2 DEF IInv, AgentTypeOK, services
    <2>2. PICK s \in Statuses, read \in BOOLEAN : Record(t, s, NoContext, read)
        BY <1>2 DEF Heard, Statuses
    <2> QED
        BY <2>1, <2>2, NoContextType, Called
<1> QED
    BY <1>1, <1>2 DEF QueryTrafficSummary

(* What a turn calls, whichever way it came to its tools; each of them asks    *)
(* for itself whether updates are allowed.                                     *)
LEMMA ToolCalls ==
    ASSUME IInv, NEW t \in Turns, Tool(t)
    PROVE  \/ \E s \in {"blocked", "unknown"} : NotDone(t, s)
           \/ \E c \in Context : \/ CreateShortLink(t, c)
                                 \/ config.writes /\ UpdateShortLink(t, c)
                                 \/ Head(run[t].todo) = "traffic" /\ QueryTrafficSummary(t, c)
<1>1. pc[t] # "idle" /\ run[t].ctx \in Context
    BY DEF Tool, IInv, AgentTypeOK, Run
<1>2. CASE dispatchToolCall(t)
    <2>1. PICK a \in Args :
              LET c == Fill(a, run[t].ctx) IN
              CASE Head(run[t].todo) = "create"  -> CreateShortLink(t, c)
                [] Head(run[t].todo) = "update"  -> IF config.writes THEN UpdateShortLink(t, c) ELSE Blocked(t)
                [] Head(run[t].todo) = "traffic" -> QueryTrafficSummary(t, c)
                [] OTHER -> NotDone(t, "unknown")
        BY <1>2 DEF dispatchToolCall
    <2> DEFINE c == Fill(a, run[t].ctx)
    <2>2. c \in Context
        BY <1>1, <2>1, FillType, RequestsAssumption
    <2> HIDE DEF c
    <2>3. CASE Head(run[t].todo) = "create"
        BY <2>1, <2>2, <2>3 DEF c
    <2>4. CASE Head(run[t].todo) = "update"
        BY <2>1, <2>2, <2>4 DEF c, Blocked
    <2>5. CASE Head(run[t].todo) = "traffic"
        BY <2>1, <2>2, <2>5 DEF c
    <2>6. CASE Head(run[t].todo) \notin {"create", "update", "traffic"}
        BY <2>1, <2>6
    <2> QED
        BY <2>3, <2>4, <2>5, <2>6
<1>3. CASE executeToolPlan(t) \/ RuleCall(t)
    <2> DEFINE c == run[t].ctx
    <2>1. CASE run[t].todo = <<"create">>
        BY <1>1, <1>3, <2>1 DEF executeToolPlan, RuleCall
    <2>2. CASE run[t].todo \in {<<"update">>, <<"update", "traffic">>}
        BY <1>1, <1>3, <2>2 DEF executeToolPlan, RuleCall, Blocked
    <2>3. CASE run[t].todo = <<"traffic">>
        BY <1>1, <1>3, <2>3 DEF executeToolPlan, RuleCall
    <2>4. CASE run[t].todo \notin {<<"create">>, <<"update">>, <<"update", "traffic">>, <<"traffic">>}
        BY <1>3, <2>4 DEF executeToolPlan, RuleCall
    <2> QED
        BY <2>1, <2>2, <2>3, <2>4
<1> QED
    BY <1>2, <1>3 DEF Tool

LEMMA ToolStep == ASSUME IInv, NEW t \in Turns, Tool(t) PROVE IInv'
<1>1. /\ pc[t] \in {"dag", "rule"} /\ run[t].todo # <<>>
      /\ UNCHANGED <<config, stores, pc, alive, answer>>
    BY DEF Tool
<1>2. ASSUME NEW s \in {"blocked", "unknown"}, NotDone(t, s) PROVE IInv'
    BY <1>1, <1>2, NotDoneStep DEF Statuses
<1>3. ASSUME NEW c \in Context, CreateShortLink(t, c) PROVE IInv'
    BY <1>1, <1>3, CreateStep
<1>4. ASSUME NEW c \in Context, UpdateShortLink(t, c) PROVE IInv'
    BY <1>1, <1>4, UpdateStep
<1>5. ASSUME NEW c \in Context, Head(run[t].todo) = "traffic", QueryTrafficSummary(t, c) PROVE IInv'
    BY <1>1, <1>5, QueryStep
<1> QED
    BY <1>2, <1>3, <1>4, <1>5, ToolCalls

-----------------------------------------------------------------------------
(* The end of a turn.                                                          *)

(* A turn that saved its task calls nothing any more.                          *)
LEMMA SaveTaskStep == ASSUME IInv, NEW t \in Turns, SaveTask(t) PROVE IInv'
<1> DEFINE calls == run[t].calls
           s == FinalStatus(calls)
           task == [status |-> s, calls |-> calls]
<1>1. /\ pc[t] = "task" /\ UNCHANGED <<config, sessions, services, run, alive>>
      /\ tasks' = [tasks EXCEPT ![t] = task]
      /\ Finish(t, s) \/ Goto(t, "session")
    BY DEF SaveTask, At
<1>2. run[t] \in Run /\ calls \in Seq(Call)
    BY <1>1 DEF IInv, AgentTypeOK, Run
<1>3. s \in {"no_op", "succeeded", "partial_failed"}
    BY FinalStatusType
<1>4. task \in Task
    BY <1>2, <1>3 DEF Task
<1>5. PICK p \in {"session", "done"} : pc' = [pc EXCEPT ![t] = p]
    BY <1>1 DEF Finish, Goto
<1>6. pc'[t] = p /\ \A u \in Turns \ {t} : pc'[u] = pc[u]
    BY <1>5 DEF IInv, AgentTypeOK
<1>7. tasks'[t] = task /\ \A u \in Turns \ {t} : tasks'[u] = tasks[u]
    BY <1>1 DEF IInv, AgentTypeOK
<1>8. answer' \in [Turns -> {"none", "error", "chat", "succeeded", "partial_failed", "no_op"}]
    BY <1>1, <1>3 DEF IInv, AgentTypeOK, Finish, Goto
<1>9. task.status = s /\ task.calls = calls
    OBVIOUS
<1>10. CallsOf(t, calls)
    BY <1>1 DEF IInv, CallsOK
<1>11. s = "succeeded" => \A i \in DOMAIN calls : calls[i].status = "ok"
    BY DEF FinalStatus
<1> HIDE DEF calls, s, task
<1>12. AgentTypeOK'
    <2>1. tasks' \in [Turns -> Task \union {NoTask}]
        BY <1>1, <1>4 DEF IInv, AgentTypeOK
    <2>2. pc' \in [Turns -> Steps]
        BY <1>5 DEF IInv, AgentTypeOK, Steps
    <2>3. \A u \in Turns : pc'[u] # "idle" => run'[u] \in Run
        BY <1>1, <1>2, <1>6 DEF IInv, AgentTypeOK
    <2> QED
        BY <1>1, <1>8, <2>1, <2>2, <2>3 DEF IInv, AgentTypeOK, services
<1>13. WritesOK'
    BY <1>1, <1>5, <1>6 DEF IInv, WritesOK, WritesOf, services
<1>14. CallsOK'
    BY <1>1, <1>5, <1>6 DEF IInv, CallsOK, CallsOf, services
<1>15. Started'
    BY <1>1, <1>5, <1>6, <1>7 DEF IInv, Started
<1>16. FallbackRepeatsNothing'
    BY <1>1 DEF IInv, FallbackRepeatsNothing, services
<1>17. SucceededIsDone'
    <2>1. ASSUME s = "succeeded", NEW tool \in {"create", "update"}
          PROVE  (\E w \in writes : w.turn = t /\ w.tool = tool)
                    <=> \E i \in DOMAIN calls : calls[i].tool = tool
        BY <1>10, <1>11, <2>1 DEF CallsOf
    <2>2. writes' = writes
        BY <1>1 DEF services
    <2> QED
        BY <1>7, <1>9, <2>1, <2>2 DEF IInv, SucceededIsDone
<1> QED
    BY <1>12, <1>13, <1>14, <1>15, <1>16, <1>17 DEF IInv

LEMMA SaveSessionStep == ASSUME IInv, NEW t \in Turns, SaveSession(t) PROVE IInv'
<1>1. /\ pc[t] = "session" /\ UNCHANGED <<config, tasks, services, run, alive>>
      /\ sessions' = [sessions EXCEPT ![run[t].session] = Learned(t)]
      /\ Finish(t, FinalStatus(run[t].calls))
    BY DEF SaveSession, At
<1>2. run[t] \in Run /\ run' = [run EXCEPT ![t] = run[t]]
    BY <1>1 DEF IInv, AgentTypeOK
<1>3. Learned(t) \in Context
    BY <1>2, LearnedType
<1>4. sessions' \in [Sessions -> Context]
    BY <1>1, <1>3 DEF IInv, AgentTypeOK
<1>5. FinalStatus(run[t].calls) \in {"error", "chat", "succeeded", "partial_failed", "no_op"}
    BY FinalStatusType
<1>6. UNCHANGED <<config, tasks, services, alive>> /\ pc[t] # "idle"
    BY <1>1
<1> QED
    BY <1>1, <1>2, <1>4, <1>5, <1>6, Ended

-----------------------------------------------------------------------------
LEMMA WorkStep == ASSUME IInv, NEW t \in Turns, Work(t) PROVE IInv'
<1>1. CASE Dag(t)
    BY <1>1, IntentAgentStep, PlannerAgentStep, ToolAgentStep, VerifierAgentStep DEF Dag
<1>2. CASE Rule(t)
    BY <1>2, ClassifyStep, RuleDoneStep DEF Rule
<1>3. CASE ChatDirect(t) \/ Tool(t) \/ SaveTask(t) \/ SaveSession(t)
    BY <1>3, ChatDirectStep, ToolStep, SaveTaskStep, SaveSessionStep
<1> QED
    BY <1>1, <1>2, <1>3 DEF Work

LEMMA InitOK == Init => IInv
<1> SUFFICES ASSUME Init PROVE IInv
    OBVIOUS
<1>1. AgentTypeOK
    BY NoContextType, RequestsAssumption DEF Init, AgentTypeOK, Steps
<1> QED
    BY <1>1 DEF Init, IInv, WritesOK, WritesOf, CallsOK, Started,
               FallbackRepeatsNothing, SucceededIsDone

LEMMA NextOK == IInv /\ [Next]_vars => IInv'
<1> SUFFICES ASSUME IInv, [Next]_vars PROVE IInv'
    OBVIOUS
<1>1. CASE UNCHANGED vars
    BY <1>1 DEF vars, IInv, AgentTypeOK, WritesOK, WritesOf, CallsOK, CallsOf, Started,
               FallbackRepeatsNothing, SucceededIsDone
<1>2. ASSUME NEW t \in Turns, Chat(t) \/ Execute(t) \/ Cancel(t) \/ Work(t) PROVE IInv'
    BY <1>2, ChatStep, ExecuteStep, CancelStep, WorkStep
<1> QED
    BY <1>1, <1>2 DEF Next

(* The invariant holds in every reachable state (the handlers of AIAgent).     *)
THEOREM Invariance == Spec => []IInv
BY InitOK, NextOK, PTL DEF Spec

(* Every variable has its type, whatever the model answers.                    *)
THEOREM TypeCorrect == Spec => []AgentTypeOK
<1>1. IInv => AgentTypeOK
    BY DEF IInv
<1> QED
    BY Invariance, <1>1, PTL

(* The rule engine that fallbackOrErr starts repeats no write of the DAG.      *)
THEOREM NothingRepeated == Spec => []FallbackRepeatsNothing
<1>1. IInv => FallbackRepeatsNothing
    BY DEF IInv
<1> QED
    BY Invariance, <1>1, PTL

(* The status that finalStatus gives a task is true of the services.           *)
THEOREM SucceededTrue == Spec => []SucceededIsDone
<1>1. IInv => SucceededIsDone
    BY DEF IInv
<1> QED
    BY Invariance, <1>1, PTL

LinksKept == ~config.writes => \A k \in Codes : Used(k) => links'[k] = links[k]
LEMMA NextKeepsLinks == IInv /\ [Next]_vars => [LinksKept]_vars
<1> SUFFICES ASSUME IInv, Next, ~config.writes, NEW k \in Codes, Used(k)
             PROVE  links'[k] = links[k]
    BY DEF vars, LinksKept
<1>1. ASSUME NEW t \in Turns, Tool(t) PROVE links'[k] = links[k]
    <2>1. ASSUME NEW c, CreateShortLink(t, c) PROVE links'[k] = links[k]
        BY <2>1 DEF CreateShortLink, NotDone, services, Used, IInv, AgentTypeOK
    <2>2. ASSUME NEW c, QueryTrafficSummary(t, c) PROVE links'[k] = links[k]
        BY <2>2 DEF QueryTrafficSummary, NotDone, services
    <2>3. ASSUME NEW s, NotDone(t, s) PROVE links'[k] = links[k]
        BY <2>3 DEF NotDone, services
    <2> QED
        BY <1>1, <2>1, <2>2, <2>3, ToolCalls
<1>2. ASSUME NEW t \in Turns,
             \/ Chat(t) \/ Execute(t) \/ Cancel(t) \/ ChatDirect(t)
             \/ Dag(t) \/ Rule(t) \/ SaveTask(t) \/ SaveSession(t)
      PROVE  links' = links
    BY <1>2 DEF Chat, ChatWith, Execute, Cancel, ChatDirect, Dag, IntentAgent, PlannerAgent, ToolAgent,
                VerifierAgent, Rule, Classify, RuleDone, SaveTask, SaveSession, services
<1> QED
    BY <1>1, <1>2 DEF Next, Work

(* AllowWriteActions protects the links there are, whichever engine runs.      *)
THEOREM UpdatesGated == Spec => UpdatesNeedPermission
BY Invariance, NextKeepsLinks, PTL DEF Spec, UpdatesNeedPermission, LinksKept


-----------------------------------------------------------------------------
(* Proof that the sessions of the AI agent stay apart, for any turns, requests *)
(* and ids of sessions and requests, whatever is made of these.                *)

(* What a turn that is over has told its session stays so.                     *)
LEMMA EarlierStays ==
    ASSUME NEW t \in Turns, pc[t] # "done",
           \A u \in Turns \ {t} : pc'[u] = pc[u] /\ run'[u] = run[u],
           NEW x, NEW s, NEW v, Earlier(x, s, v)
    PROVE  Earlier(x, s, v)'
BY DEF Earlier, TurnsOf, FromTurn

(* A turn goes on, in a step that saves no session.                            *)
LEMMA GoesOn ==
    ASSUME IInv, SessionsOK, NEW t \in Turns, pc[t] # "done", pc[t] # "idle", UNCHANGED sessions,
           \A u \in Turns \ {t} : pc'[u] = pc[u] /\ run'[u] = run[u],
           /\ run'[t].session = run[t].session /\ run'[t].req = run[t].req
           /\ run'[t].mem = run[t].mem /\ run'[t].ctx = run[t].ctx
    PROVE  SessionsOK'
<1>1. \A x, s, v : Earlier(x, s, v) => Earlier(x, s, v)'
    BY EarlierStays
<1>2. \A x \in Sessions, s \in Slots : sessions'[x][s] # Blank => Earlier(x, s, sessions[x][s])'
    BY <1>1 DEF SessionsOK
<1>3. ASSUME NEW u \in Turns, pc'[u] # "idle", run'[u].session # NoSession
      PROVE  /\ run'[u].session = SessionId(run'[u].req)
             /\ \A s \in Slots : \A v \in {run'[u].mem[s], run'[u].ctx[s]} \ {Blank} :
                    Asked(u, s, v)' \/ Earlier(run[u].session, s, v)'
    <2>1. /\ pc[u] # "idle" /\ run'[u].session = run[u].session /\ run'[u].req = run[u].req
          /\ run'[u].mem = run[u].mem /\ run'[u].ctx = run[u].ctx
        BY <1>3
    <2>2. \A s, v : Asked(u, s, v)' <=> Asked(u, s, v)
        BY <2>1 DEF Asked
    <2> QED
        BY <1>1, <1>3, <2>1, <2>2 DEF SessionsOK
<1> QED
    BY <1>2, <1>3 DEF SessionsOK

(* A turn begins, with what its session remembers.                             *)
LEMMA ChatBegins ==
    ASSUME IInv, SessionsOK, NEW t \in Turns, NEW q \in Request, ChatWith(t, q)
    PROVE  SessionsOK'
<1> DEFINE x == SessionId(q)
<1>1. /\ pc[t] = "idle" /\ sessions' = sessions
      /\ \A u \in Turns \ {t} : pc'[u] = pc[u] /\ run'[u] = run[u]
      /\ run'[t].session = x /\ run'[t].req = q
      /\ run'[t].mem = sessions[x] /\ run'[t].ctx = Merged(q, sessions[x])
    BY DEF ChatWith, At, Goto, Start, stores, IInv, AgentTypeOK
<1>2. \A y, s, v : Earlier(y, s, v) => Earlier(y, s, v)'
    BY <1>1, EarlierStays
<1>3. \A y \in Sessions, s \in Slots : sessions'[y][s] # Blank => Earlier(y, s, sessions[y][s])'
    BY <1>1, <1>2 DEF SessionsOK
<1>4. ASSUME NEW s \in Slots, sessions[x][s] # Blank PROVE Earlier(x, s, sessions[x][s])'
    BY <1>1, <1>3, <1>4, SessionType
<1>5. ASSUME NEW s \in Slots, NEW v \in {sessions[x][s], Merged(q, sessions[x])[s]} \ {Blank}
      PROVE  Asked(t, s, v)' \/ Earlier(x, s, v)'
    <2>1. v \in {q.context[s], Reads[q.text][s], sessions[x][s]} /\ v # Blank
        BY <1>5 DEF Merged, Fill
    <2>2. CASE v = sessions[x][s]
        BY <1>1, <1>4, <2>1, <2>2
    <2>3. CASE v \in {q.context[s], Reads[q.text][s]}
        BY <1>1, <2>3 DEF Asked
    <2> QED
        BY <2>1, <2>2, <2>3
<1>6. ASSUME NEW u \in Turns, pc'[u] # "idle", run'[u].session # NoSession
      PROVE  /\ run'[u].session = SessionId(run'[u].req)
             /\ \A s \in Slots : \A v \in {run'[u].mem[s], run'[u].ctx[s]} \ {Blank} :
                    Asked(u, s, v)' \/ Earlier(run[u].session, s, v)'
    <2>1. CASE u = t
        BY <1>1, <1>5, <2>1
    <2>2. CASE u # t
        <3>1. \A s, v : Asked(u, s, v)' <=> Asked(u, s, v)
            BY <1>1, <2>2 DEF Asked
        <3> QED
            BY <1>1, <1>2, <1>6, <2>2, <3>1 DEF SessionsOK
    <2> QED
        BY <2>1, <2>2
<1> QED
    BY <1>3, <1>6 DEF SessionsOK

(* An executed instruction has no session.                                     *)
LEMMA ExecuteBegins == ASSUME IInv, SessionsOK, NEW t \in Turns, Execute(t) PROVE SessionsOK'
<1>1. /\ pc[t] = "idle" /\ sessions' = sessions /\ run'[t].session = NoSession
      /\ \A u \in Turns \ {t} : pc'[u] = pc[u] /\ run'[u] = run[u]
    BY DEF Execute, At, Goto, Start, stores, IInv, AgentTypeOK
<1>2. \A y, s, v : Earlier(y, s, v) => Earlier(y, s, v)'
    BY <1>1, EarlierStays
<1>3. \A y \in Sessions, s \in Slots : sessions'[y][s] # Blank => Earlier(y, s, sessions[y][s])'
    BY <1>1, <1>2 DEF SessionsOK
<1>4. \A u \in Turns : \A s, v : u # t => (Asked(u, s, v)' <=> Asked(u, s, v))
    BY <1>1 DEF Asked
<1> QED
    BY <1>1, <1>2, <1>3, <1>4 DEF SessionsOK

(* A turn that ends saves what it was told, or answered.                       *)
LEMMA Saves ==
    ASSUME IInv, SessionsOK, NEW t \in Turns, pc[t] \notin {"idle", "done"}, run[t].session # NoSession,
           NEW m \in Context, sessions' = [sessions EXCEPT ![run[t].session] = m],
           UNCHANGED run, pc' = [pc EXCEPT ![t] = "done"],
           \A s \in Slots : \/ m[s] \in {Blank, run[t].ctx[s], run[t].mem[s]}
                            \/ \E i \in DOMAIN run[t].calls : run[t].calls[i].out[s] = m[s]
    PROVE  SessionsOK'
<1> DEFINE x == run[t].session
<1>1. pc'[t] = "done" /\ \A u \in Turns \ {t} : pc'[u] = pc[u] /\ run'[u] = run[u]
    BY DEF IInv, AgentTypeOK
<1>2. \A y, s, v : Earlier(y, s, v) => Earlier(y, s, v)'
    BY <1>1, EarlierStays
<1>3. x = SessionId(run[t].req) /\ run[t].req \in Request
    BY DEF SessionsOK, IInv, AgentTypeOK, Run
<1>4. /\ x \in Sessions
      /\ run[t].req.session = x \/ (run[t].req.session = Blank /\ OwnSession[run[t].req.id] = x)
    BY <1>3, SessionType DEF SessionId
<1>5. (t \in TurnsOf(x))'
    BY <1>1, <1>4 DEF TurnsOf
<1>6. ASSUME NEW s \in Slots, m[s] # Blank
      PROVE  FromTurn(t, s, m[s])' \/ Earlier(x, s, m[s])'
    <2>1. CASE \E i \in DOMAIN run[t].calls : run[t].calls[i].out[s] = m[s]
        BY <2>1 DEF FromTurn
    <2>2. CASE m[s] \in {run[t].ctx[s], run[t].mem[s]}
        <3>1. Asked(t, s, m[s]) \/ Earlier(x, s, m[s])
            BY <1>6, <2>2 DEF SessionsOK
        <3> QED
            BY <1>2, <3>1 DEF Asked, FromTurn
    <2> QED
        BY <1>6, <2>1, <2>2
<1>7. sessions'[x] = m /\ \A y \in Sessions \ {x} : sessions'[y] = sessions[y]
    BY <1>4 DEF IInv, AgentTypeOK
<1>8. ASSUME NEW y \in Sessions, NEW s \in Slots, sessions'[y][s] # Blank
      PROVE  Earlier(y, s, sessions[y][s])'
    <2>1. CASE y = x
        <3>1. FromTurn(t, s, m[s])' => Earlier(y, s, m[s])'
            BY <1>1, <1>5, <2>1, <1>8 DEF Earlier, TurnsOf
        <3> QED
            BY <1>6, <1>7, <1>8, <2>1, <3>1
    <2>2. CASE y # x
        BY <1>2, <1>7, <1>8, <2>2 DEF SessionsOK
    <2> QED
        BY <2>1, <2>2
<1>9. \A u \in Turns : \A s, v : Asked(u, s, v)' <=> Asked(u, s, v)
    BY DEF Asked
<1>10. \A u \in Turns : pc'[u] # "idle" => pc[u] # "idle"
    BY <1>1
<1> QED
    BY <1>2, <1>8, <1>9, <1>10 DEF SessionsOK
-----------------------------------------------------------------------------
(* What a turn holds of its request does not change while it is served.        *)
LEMMA RunStays ==
    ASSUME IInv, NEW t \in Turns, pc[t] # "idle",
           \/ UNCHANGED run
           \/ \E ts : run' = [run EXCEPT ![t].todo = ts]
           \/ \E ts : run' = [run EXCEPT ![t].todo = ts, ![t].called = TRUE]
           \/ \E cs : run' = [run EXCEPT ![t].calls = cs]
           \/ \E ts, cs : run' = [run EXCEPT ![t].todo = ts, ![t].calls = cs]
           \/ \E ts, cs : run' = [run EXCEPT ![t].todo = ts, ![t].calls = cs, ![t].called = FALSE]
    PROVE  /\ run'[t].session = run[t].session /\ run'[t].req = run[t].req
           /\ run'[t].mem = run[t].mem /\ run'[t].ctx = run[t].ctx
           /\ \A u \in Turns \ {t} : run'[u] = run[u]
<1>1. run[t] \in Run /\ run \in [Turns -> Run \union {<<>>}]
    BY DEF IInv, AgentTypeOK
<1>2. CASE UNCHANGED run
    BY <1>2
<1>3. CASE \E ts : run' = [run EXCEPT ![t].todo = ts]
    BY <1>1, <1>3 DEF Run
<1>4. CASE \E ts : run' = [run EXCEPT ![t].todo = ts, ![t].called = TRUE]
    BY <1>1, <1>4 DEF Run
<1>5. CASE \E cs : run' = [run EXCEPT ![t].calls = cs]
    BY <1>1, <1>5 DEF Run
<1>6. CASE \E ts, cs : run' = [run EXCEPT ![t].todo = ts, ![t].calls = cs]
    BY <1>1, <1>6 DEF Run
<1>7. CASE \E ts, cs : run' = [run EXCEPT ![t].todo = ts, ![t].calls = cs, ![t].called = FALSE]
    <2>1. PICK ts, cs : run' = [run EXCEPT ![t].todo = ts, ![t].calls = cs, ![t].called = FALSE]
        BY <1>7
    <2>2. run'[t] = [run[t] EXCEPT !.todo = ts, !.calls = cs, !.called = FALSE]
        BY <1>1, <2>1
    <2>3. \A u \in Turns \ {t} : run'[u] = run[u]
        BY <1>1, <2>1
    <2> QED
        BY <1>1, <2>2, <2>3 DEF Run
<1> QED
    BY <1>2, <1>3, <1>4, <1>5, <1>6, <1>7, Zenon

LEMMA DagKeeps ==
    ASSUME IInv, NEW t \in Turns, Dag(t) \/ Rule(t)
    PROVE  /\ pc[t] \notin {"idle", "done"} /\ UNCHANGED sessions
           /\ \A u \in Turns \ {t} : pc'[u] = pc[u] /\ run'[u] = run[u]
           /\ run'[t].session = run[t].session /\ run'[t].req = run[t].req
           /\ run'[t].mem = run[t].mem /\ run'[t].ctx = run[t].ctx
<1>1. pc[t] \notin {"idle", "done"} /\ UNCHANGED sessions
    BY DEF Dag, Rule, IntentAgent, PlannerAgent, ToolAgent, VerifierAgent, Classify, RuleDone, At, stores
<1>2. \E p : pc' = [pc EXCEPT ![t] = p]
    BY DEF Dag, Rule, IntentAgent, PlannerAgent, ToolAgent, VerifierAgent, Classify, RuleDone,
           FallbackOrErr, Goto, Finish
<1>3. \A u \in Turns \ {t} : pc'[u] = pc[u]
    BY <1>2 DEF IInv, AgentTypeOK
<1>4. \/ UNCHANGED run
      \/ \E ts : run' = [run EXCEPT ![t].todo = ts]
      \/ \E ts : run' = [run EXCEPT ![t].todo = ts, ![t].called = TRUE]
      \/ \E cs : run' = [run EXCEPT ![t].calls = cs]
      \/ \E ts, cs : run' = [run EXCEPT ![t].todo = ts, ![t].calls = cs, ![t].called = FALSE]
    BY DEF Dag, Rule, IntentAgent, PlannerAgent, ToolAgent, VerifierAgent, Classify, RuleDone, FallbackOrErr
<1> QED
    BY <1>1, <1>3, <1>4, RunStays

LEMMA ToolKeeps ==
    ASSUME IInv, NEW t \in Turns, Tool(t)
    PROVE  /\ pc[t] \notin {"idle", "done"} /\ UNCHANGED <<sessions, pc>>
           /\ \A u \in Turns \ {t} : run'[u] = run[u]
           /\ run'[t].session = run[t].session /\ run'[t].req = run[t].req
           /\ run'[t].mem = run[t].mem /\ run'[t].ctx = run[t].ctx
<1>1. pc[t] \notin {"idle", "done"} /\ UNCHANGED <<sessions, pc>>
    BY DEF Tool, stores
<1>2. \E s, out, read : Record(t, s, out, read)
    BY ToolCalls DEF CreateShortLink, UpdateShortLink, QueryTrafficSummary, NotDone, Heard
<1>3. \E ts, cs : run' = [run EXCEPT ![t].todo = ts, ![t].calls = cs]
    BY <1>2 DEF Record
<1> QED
    BY <1>1, <1>3, RunStays

(* What is learned is an answer, or what the turn was told.                    *)
LEMMA LearnedIsHeard ==
    ASSUME NEW t \in Turns, NEW s \in Slots
    PROVE  \/ Learned(t)[s] \in {Blank, run[t].ctx[s], run[t].mem[s]}
           \/ \E i \in DOMAIN run[t].calls : run[t].calls[i].out[s] = Learned(t)[s]
<1> DEFINE calls == run[t].calls
           Latest(i) == /\ calls[i].out[s] # Blank
                        /\ \A j \in DOMAIN calls : j > i => calls[j].out[s] = Blank
           last == CHOOSE i \in DOMAIN calls : Latest(i)
<1>1. Learned(t)[s] = IF \E i \in DOMAIN calls : Latest(i)
                      THEN calls[last].out[s] ELSE Fill(run[t].ctx, run[t].mem)[s]
    BY DEF Learned
<1>2. CASE \E i \in DOMAIN calls : Latest(i)
    <2> HIDE DEF Latest
    <2>1. last \in DOMAIN calls
        BY <1>2
    <2> QED
        BY <1>1, <1>2, <2>1
<1>3. CASE ~\E i \in DOMAIN calls : Latest(i)
    BY <1>1, <1>3 DEF Fill
<1> QED
    BY <1>2, <1>3

LEMMA WorkApart == ASSUME IInv, SessionsOK, NEW t \in Turns, Work(t) PROVE SessionsOK'
<1>1. CASE Dag(t) \/ Rule(t)
    BY <1>1, DagKeeps, GoesOn
<1>2. CASE Tool(t)
    BY <1>2, ToolKeeps, GoesOn
<1>3. CASE SaveTask(t)
    <2>1. pc[t] = "task" /\ UNCHANGED <<sessions, run>> /\ \E p : pc' = [pc EXCEPT ![t] = p]
        BY <1>3 DEF SaveTask, At, Goto, Finish
    <2>2. \A u \in Turns \ {t} : pc'[u] = pc[u] /\ run'[u] = run[u]
        BY <2>1 DEF IInv, AgentTypeOK
    <2> QED
        BY <2>1, <2>2, GoesOn
<1>4. CASE SaveSession(t)
    <2>1. /\ pc[t] = "session" /\ UNCHANGED run /\ pc' = [pc EXCEPT ![t] = "done"]
          /\ sessions' = [sessions EXCEPT ![run[t].session] = Learned(t)]
        BY <1>4 DEF SaveSession, At, Finish
    <2>2. run[t] \in Run
        BY <2>1 DEF IInv, AgentTypeOK
    <2>3. Learned(t) \in Context
        BY <2>2, LearnedType
    <2>4. CASE run[t].session # NoSession
        BY <2>1, <2>3, <2>4, LearnedIsHeard, Saves
    <2>5. CASE run[t].session = NoSession
        <3>1. sessions' = sessions
            BY <2>1, <2>5, RequestsAssumption DEF IInv, AgentTypeOK
        <3>2. \A u \in Turns \ {t} : pc'[u] = pc[u] /\ run'[u] = run[u]
            BY <2>1 DEF IInv, AgentTypeOK
        <3> QED
            BY <2>1, <3>1, <3>2, GoesOn
    <2> QED
        BY <2>4, <2>5
<1>5. CASE ChatDirect(t)
    <2> DEFINE m == Fill(run[t].ctx, run[t].mem)
    <2>1. /\ pc[t] = "direct" /\ UNCHANGED run /\ pc' = [pc EXCEPT ![t] = "done"]
          /\ sessions' = [sessions EXCEPT ![run[t].session] = m] \/ sessions' = sessions
        BY <1>5 DEF ChatDirect, At, Finish
    <2>2. m \in Context
        BY <2>1, FillType DEF IInv, AgentTypeOK, Run
    <2>3. \A s \in Slots : m[s] \in {Blank, run[t].ctx[s], run[t].mem[s]}
        BY DEF Fill
    <2>4. \A u \in Turns \ {t} : pc'[u] = pc[u] /\ run'[u] = run[u]
        BY <2>1 DEF IInv, AgentTypeOK
    <2> HIDE DEF m
    <2>5. CASE sessions' = sessions
        BY <2>1, <2>4, <2>5, GoesOn
    <2>6. CASE sessions' = [sessions EXCEPT ![run[t].session] = m] /\ run[t].session # NoSession
        BY <2>1, <2>2, <2>3, <2>6, Saves
    <2>7. CASE sessions' = [sessions EXCEPT ![run[t].session] = m] /\ run[t].session = NoSession
        <3>1. sessions' = sessions
            BY <2>7, RequestsAssumption DEF IInv, AgentTypeOK
        <3> QED
            BY <2>5, <3>1
    <2> QED
        BY <2>1, <2>5, <2>6, <2>7
<1> QED
    BY <1>1, <1>2, <1>3, <1>4, <1>5 DEF Work

-----------------------------------------------------------------------------
LEMMA NothingRemembered == Init => SessionsOK
BY DEF Init, SessionsOK, NoContext

LEMMA StaysApart == IInv /\ SessionsOK /\ [Next]_vars => SessionsOK'
<1> SUFFICES ASSUME IInv, SessionsOK, [Next]_vars PROVE SessionsOK'
    OBVIOUS
<1>1. CASE UNCHANGED vars
    BY <1>1 DEF vars, SessionsOK, Earlier, Asked, TurnsOf, FromTurn
<1>2. ASSUME NEW t \in Turns, Chat(t) PROVE SessionsOK'
    BY <1>2, ChatBegins, RequestsAssumption DEF Chat
<1>3. ASSUME NEW t \in Turns, Cancel(t) PROVE SessionsOK'
    BY <1>3 DEF Cancel, stores, SessionsOK, Earlier, Asked, TurnsOf, FromTurn
<1>4. ASSUME NEW t \in Turns, Execute(t) \/ Work(t) PROVE SessionsOK'
    BY <1>4, ExecuteBegins, WorkApart
<1> QED
    BY <1>1, <1>2, <1>3, <1>4 DEF Next

LEMMA ApartOfOK == SessionsOK => SessionsApart
BY DEF SessionsOK, SessionsApart, Earlier

(* What a session remembers was said in it, or answered to one of its turns    *)
(* (normalizeSessionID, updateSessionAfterAgent), however its turns overlap.   *)
THEOREM Apart == Spec => []SessionsApart
<1>1. Init => SessionsOK
    BY NothingRemembered
<1>2. IInv /\ SessionsOK /\ [Next]_vars => SessionsOK'
    BY StaysApart
<1>3. SessionsOK => SessionsApart
    BY ApartOfOK
<1> QED
    BY <1>1, <1>2, <1>3, Invariance, PTL DEF Spec

=============================================================================
