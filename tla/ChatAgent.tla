------------------------------ MODULE ChatAgent ------------------------------
(***************************************************************************)
(* The AI agent: turns of chat sessions and executed instructions, which    *)
(* the rule engine or the eino DAG (intent, planner, tools, verifier) turns *)
(* into calls to the short-link and the traffic service.                    *)
(*                                                                         *)
(* A turn makes one call, to the language model or to a service, per step.  *)
(* What the model says is any of the answers the code can handle; a service *)
(* may have done what the client was not told of.                           *)
(***************************************************************************)
EXTENDS Naturals, Sequences, SequencesExt

CONSTANTS
    Turns,      \* requests to /agent/chat and /agent/execute, served once each
    Sessions,   \* session ids; a client may name any of them
    RequestIds, \* the ids that clients give their requests, the same one more than once
    OwnSession, \* request id -> the session id that the agent makes of it
    Requests,   \* turn -> what it may ask
    Texts,      \* what a user may write,
    Reads,      \* the slots that the code reads in a text,
    Keywords,   \* and the texts in which it finds a word that calls for a tool
    Args,       \* the arguments the language model may give to a tool
    Configs,    \* the configurations the agent may be started with
    Codes, Urls, Dates,
    InitLinks,  \* the links when the agent starts
    MaxCalls,   \* bound on the tool calls of one answer of the model
    Blank, NoLink, NoTask, NoSession

Slots    == {"shortUrl", "longUrl", "expireAt", "from", "to"}
Values(s) == CASE s = "shortUrl" -> Codes [] s = "longUrl" -> Urls [] OTHER -> Dates
Context  == {c \in [Slots -> Codes \union Urls \union Dates \union {Blank}] :
                 \A s \in Slots : c[s] \in Values(s) \union {Blank}}
NoContext == [s \in Slots |-> Blank]
Request  == [id : RequestIds, session : Sessions \union {Blank}, context : Context, text : Texts,
             tools : BOOLEAN, operator : BOOLEAN]
Config   == [engine : {"rule", "eino"}, writes : BOOLEAN, fallback : BOOLEAN]
Link     == [url : Urls, expireAt : Dates \union {Blank}]
Intents  == {"create_shortlink", "update_shortlink", "query_traffic", "update_and_query", "unknown"}
Tools    == {"create", "update", "traffic", "other"}
Steps    == {"idle", "direct", "intent", "plan", "choose", "dag", "classify", "rule",
             "task", "session", "done"}
Statuses == {"ok", "error", "blocked", "unknown"}
Call     == [tool : Tools \union {"intent.llm"}, status : Statuses, out : Context, read : BOOLEAN]
Task     == [status : {"succeeded", "partial_failed", "no_op"}, calls : Seq(Call)]

ASSUME RequestsAssumption ==
    /\ Requests \in [Turns -> SUBSET Request] /\ Args \subseteq Context /\ Configs \subseteq Config
    /\ Reads \in [Texts -> Context] /\ Keywords \subseteq Texts
    /\ InitLinks \in [Codes -> Link \union {NoLink}] /\ NoLink \notin Link /\ NoTask \notin Task
    /\ OwnSession \in [RequestIds -> Sessions] /\ NoSession \notin Sessions
    /\ Blank \notin Codes \union Urls \union Dates /\ MaxCalls \in Nat \ {0}

VARIABLES
    config,
    sessions,   \* the agent's memory of each session, in the map behind a lock
    tasks,      \* turn -> the task it saved
    links,      \* the links of the short-link service
    pc,         \* a turn's next call
    run,        \* what it holds
    alive,      \* whether its context is not cancelled
    answer,
    writes      \* history: the creations and updates the service answered, for which
                \* turn and engine, and the link they left, or found, under a code

vars == <<config, sessions, tasks, links, pc, run, alive, answer, writes>>

Run == [session : Sessions \union {NoSession}, req : Request, mem : Context, ctx : Context,
        todo : Seq(Tools), called : BOOLEAN, calls : Seq(Call)]
Write == [turn : Turns, by : {"dag", "rule"}, tool : Tools, code : Codes, link : Link]

AgentTypeOK ==
    /\ config \in Config
    /\ sessions \in [Sessions -> Context]
    /\ tasks \in [Turns -> Task \union {NoTask}]
    /\ links \in [Codes -> Link \union {NoLink}]
    /\ pc \in [Turns -> Steps]
    /\ run \in [Turns -> Run \union {<<>>}]
    /\ \A t \in Turns : pc[t] # "idle" => run[t] \in Run
    /\ alive \in [Turns -> BOOLEAN]
    /\ answer \in [Turns -> {"none", "error", "chat", "succeeded", "partial_failed", "no_op"}]
    /\ writes \subseteq Write

Init ==
    /\ config \in Configs
    /\ sessions = [x \in Sessions |-> NoContext]
    /\ tasks = [t \in Turns |-> NoTask]
    /\ links = InitLinks
    /\ pc = [t \in Turns |-> "idle"]
    /\ run = [t \in Turns |-> <<>>]
    /\ alive = [t \in Turns |-> TRUE]
    /\ answer = [t \in Turns |-> "none"]
    /\ writes = {}

-----------------------------------------------------------------------------
At(t, call) == pc[t] = call
Goto(t, call) == pc' = [pc EXCEPT ![t] = call] /\ UNCHANGED answer
Finish(t, a) == pc' = [pc EXCEPT ![t] = "done"] /\ answer' = [answer EXCEPT ![t] = a]
services == <<links, writes>>
stores == <<sessions, tasks>>

(* The slots of a, and those of b where a has none *)
Fill(a, b) == [s \in Slots |-> IF a[s] # Blank THEN a[s] ELSE b[s]]

(* Mutant of SessionId: requests without a session id share one *)
SessionIdShared(q) == IF q.session = Blank THEN CHOOSE x \in Sessions : TRUE ELSE q.session
(* Without a session id one is made of the id of the request, which is not   *)
(* looked up: who gives the same id again, or names what was made of it,     *)
(* talks in that session.                                                    *)
SessionId(q) == IF q.session = Blank THEN OwnSession[q.id] ELSE q.session

(* What the request says comes first, then the session, then its text *)
Merged(q, m) == Fill(Fill(q.context, m), Reads[q.text])
(* Tools are asked for, by a flag, by naming an operator, a tenant or an      *)
(* idempotency key, by anything known of a link, or by a word of the text.    *)
ShouldUseAgent(q, c) == q.tools \/ q.operator \/ c # NoContext \/ q.text \in Keywords

Engine == IF config.engine = "eino" THEN "intent" ELSE "classify"
Start(t, q, x, m, c) ==
    run' = [run EXCEPT ![t] = [session |-> x, req |-> q, mem |-> m, ctx |-> c,
                               todo |-> <<>>, called |-> FALSE, calls |-> <<>>]]

ChatWith(t, q) ==
    /\ At(t, "idle")
    /\ LET x == SessionId(q)
           c == Merged(q, sessions[x])
       IN  /\ Start(t, q, x, sessions[x], c)
           /\ Goto(t, IF ShouldUseAgent(q, c) THEN Engine ELSE "direct")
    /\ UNCHANGED <<config, stores, services, alive>>
Chat(t) == \E q \in Requests[t] : ChatWith(t, q)

(* An instruction sent to /agent/execute has no session *)
Execute(t) ==
    /\ At(t, "idle")
    /\ \E q \in Requests[t] : Start(t, q, NoSession, NoContext, q.context)
    /\ Goto(t, Engine)
    /\ UNCHANGED <<config, stores, services, alive>>

(* The client goes away, or the server's time limit for a request is up *)
Cancel(t) ==
    /\ pc[t] \notin {"idle", "done"} /\ alive[t]
    /\ alive' = [alive EXCEPT ![t] = FALSE]
    /\ UNCHANGED <<config, stores, services, pc, run, answer>>

(* A chat without tools: the model's answer, and the session saved as read *)
ChatDirect(t) ==
    /\ At(t, "direct")
    /\ \/ /\ alive[t] /\ Finish(t, "chat")
          /\ sessions' = [sessions EXCEPT ![run[t].session] = Fill(run[t].ctx, run[t].mem)]
       \/ Finish(t, "error") /\ UNCHANGED sessions
    /\ UNCHANGED <<config, tasks, services, run, alive>>

-----------------------------------------------------------------------------
(* The eino engine.                                                          *)

(* Mutant of FallbackOrErr: the DAG is tried again *)
FallbackRetries(t) ==
    /\ IF config.fallback THEN Goto(t, "intent") ELSE Finish(t, "error")
    /\ run' = [run EXCEPT ![t].todo = <<>>, ![t].calls = <<>>, ![t].called = FALSE]
(* The rule engine starts anew: it knows nothing of the DAG's calls *)
FallbackOrErr(t) ==
    /\ IF config.fallback THEN Goto(t, "classify") ELSE Finish(t, "error")
    /\ run' = [run EXCEPT ![t].todo = <<>>, ![t].calls = <<>>, ![t].called = FALSE]

(* Of an intent only the tools it leads to matter *)
ToolsOf(i) == CASE i = "create_shortlink" -> <<"create">>
                [] i = "update_shortlink" -> <<"update">>
                [] i = "query_traffic"    -> <<"traffic">>
                [] i = "update_and_query" -> <<"update", "traffic">>
                [] OTHER                  -> <<"other">>
Plans == {ToolsOf(i) : i \in Intents}

(* What it names the planner takes, or replaces by any other *)
IntentAgent(t) ==
    /\ At(t, "intent")
    /\ \/ alive[t] /\ Goto(t, "plan") /\ UNCHANGED run
       \/ FallbackOrErr(t)
    /\ UNCHANGED <<config, stores, services, alive>>

PlannerAgent(t) ==
    /\ At(t, "plan")
    /\ \/ alive[t] /\ Goto(t, "choose") /\ \E p \in Plans : run' = [run EXCEPT ![t].todo = p]
       \/ FallbackOrErr(t)
    /\ UNCHANGED <<config, stores, services, alive>>

(* The language model names the tools to call, or the plan is carried out;   *)
(* for an unknown intent the model is asked once more.                       *)
ToolAgent(t) ==
    /\ At(t, "choose")
    /\ \/ /\ alive[t] /\ Goto(t, "dag")
          /\ \/ \E n \in 1 .. MaxCalls : \E ts \in [1 .. n -> Tools] :
                    run' = [run EXCEPT ![t].todo = ts, ![t].called = TRUE]
             \/ UNCHANGED run
             \/ /\ run[t].todo = ToolsOf("unknown")
                /\ \E p \in Plans : run' = [run EXCEPT ![t].todo = p]
       \/ FallbackOrErr(t)
    /\ UNCHANGED <<config, stores, services, alive>>

(* Mutant of VerifierAgent: a verifier that fails makes the DAG fail *)
VerifierAgentFails(t) ==
    /\ At(t, "dag") /\ run[t].todo = <<>>
    /\ \/ alive[t] /\ Goto(t, "task") /\ UNCHANGED run
       \/ FallbackOrErr(t)
    /\ UNCHANGED <<config, stores, services, alive>>
(* A verifier that fails is ignored; a DAG whose context is cancelled stops  *)
(* between two of its nodes.                                                 *)
VerifierAgent(t) ==
    /\ At(t, "dag") /\ run[t].todo = <<>>
    /\ \/ alive[t] /\ Goto(t, "task") /\ UNCHANGED run
       \/ ~alive[t] /\ FallbackOrErr(t)
    /\ UNCHANGED <<config, stores, services, alive>>

(* The rule engine: the model names the intent, or the run ends there *)
Classify(t) ==
    /\ At(t, "classify")
    /\ \/ /\ alive[t] /\ Goto(t, "rule")
          /\ \E p \in Plans : run' = [run EXCEPT ![t].todo = p]
       \/ /\ Goto(t, "task")
          /\ run' = [run EXCEPT
                 ![t].calls = <<[tool |-> "intent.llm", status |-> "error",
                                 out |-> NoContext, read |-> FALSE]>>]
    /\ UNCHANGED <<config, stores, services, alive>>

RuleDone(t) ==
    /\ At(t, "rule") /\ run[t].todo = <<>>
    /\ Goto(t, "task")
    /\ UNCHANGED <<config, stores, services, run, alive>>

-----------------------------------------------------------------------------
(* The client of the services.                                               *)

(* A call that is over: what it ended with, what its answer said of a link,  *)
(* and whether there was an answer to read.                                  *)
Record(t, s, out, read) ==
    run' = [run EXCEPT ![t].todo = Tail(@),
                       ![t].calls = Append(@, [tool |-> Head(run[t].todo), status |-> s,
                                               out |-> out, read |-> read])]
(* The answer of a request that was done is read; or only its status is, as  *)
(* the error that cuts its body off is ignored; or it is lost on its way.    *)
Heard(t, out) == \/ Record(t, "ok", out, TRUE)
                 \/ Record(t, "ok", NoContext, FALSE)
                 \/ Record(t, "error", NoContext, FALSE)
NotDone(t, s) == Record(t, s, NoContext, FALSE) /\ UNCHANGED services
Done(t, k) == writes' = writes \union
    {[turn |-> t, by |-> pc[t], tool |-> Head(run[t].todo), code |-> k, link |-> links'[k]]}

Used(k) == links[k] # NoLink
HasUrl(k, u) == Used(k) /\ links[k].url = u

CreateShortLink(t, c) ==
    \/ /\ alive[t] /\ c.longUrl # Blank
       /\ \E k \in Codes :
              /\ \/ HasUrl(k, c.longUrl) /\ UNCHANGED links
                 \/ /\ ~Used(k) /\ \A d \in Codes : ~HasUrl(d, c.longUrl)
                    /\ links' = [links EXCEPT ![k] = [url |-> c.longUrl, expireAt |-> Blank]]
              /\ Done(t, k)
              /\ Heard(t, [NoContext EXCEPT !.shortUrl = k])
    \/ NotDone(t, "error")

Updatable(c) == /\ c.shortUrl \in Codes /\ Used(c.shortUrl)
                /\ c.longUrl # Blank \/ c.expireAt # Blank
                /\ \A d \in Codes \ {c.shortUrl} : ~HasUrl(d, c.longUrl)

(* Mutant of Patched: fields that were not sent are emptied *)
PatchedWhole(l, c) == [url |-> c.longUrl, expireAt |-> c.expireAt]
(* A field that is not sent keeps its value *)
Patched(l, c) == [url      |-> IF c.longUrl = Blank THEN l.url ELSE c.longUrl,
                  expireAt |-> IF c.expireAt = Blank THEN l.expireAt ELSE c.expireAt]

UpdateShortLink(t, c) ==
    \/ /\ alive[t] /\ Updatable(c)
       /\ LET l == Patched(links[c.shortUrl], c) IN
              /\ links' = [links EXCEPT ![c.shortUrl] = l]
              /\ Done(t, c.shortUrl)
              /\ Heard(t, [NoContext EXCEPT !.shortUrl = c.shortUrl,
                                            !.longUrl = l.url, !.expireAt = l.expireAt])
    \/ NotDone(t, "error")

(* A summary asks for a code and both dates *)
QueryTrafficSummary(t, c) ==
    \/ /\ alive[t] /\ c.shortUrl # Blank /\ c.from # Blank /\ c.to # Blank
       /\ Heard(t, NoContext) /\ UNCHANGED services
    \/ NotDone(t, "error")

-----------------------------------------------------------------------------
(* The three ways to a tool, of which each has gates of its own for updates; *)
(* creations are not gated.                                                  *)

Blocked(t) == NotDone(t, "blocked")

(* A tool that the model called, with its arguments over the turn's context *)
dispatchToolCall(t) ==
    /\ At(t, "dag") /\ run[t].called
    /\ \E a \in Args :
           LET c == Fill(a, run[t].ctx) IN
           CASE Head(run[t].todo) = "create"  -> CreateShortLink(t, c)
             [] Head(run[t].todo) = "update"  -> IF config.writes THEN UpdateShortLink(t, c) ELSE Blocked(t)
             [] Head(run[t].todo) = "traffic" -> QueryTrafficSummary(t, c)
             [] OTHER -> NotDone(t, "unknown")

(* What is left of a plan: of "update and query" the query comes last *)
executeToolPlan(t) ==
    /\ At(t, "dag") /\ ~run[t].called
    /\ LET todo == run[t].todo
           c == run[t].ctx
       IN  CASE todo = <<"create">>  -> CreateShortLink(t, c)
             [] todo = <<"update">>  -> IF config.writes THEN UpdateShortLink(t, c) ELSE Blocked(t)
             [] todo = <<"traffic">> -> QueryTrafficSummary(t, c)
             [] todo = <<"update", "traffic">> ->
                    IF config.writes THEN UpdateShortLink(t, c) ELSE Blocked(t)
             [] OTHER -> NotDone(t, "unknown")

(* Mutant of RuleCall: an update that a query follows is not gated *)
RuleCallUngated(t) ==
    /\ At(t, "rule")
    /\ LET todo == run[t].todo
           c == run[t].ctx
       IN  CASE todo = <<"create">>  -> CreateShortLink(t, c)
             [] todo = <<"update">>  -> IF config.writes THEN UpdateShortLink(t, c) ELSE Blocked(t)
             [] todo = <<"traffic">> -> QueryTrafficSummary(t, c)
             [] todo = <<"update", "traffic">> -> UpdateShortLink(t, c)
             [] OTHER -> NotDone(t, "unknown")
RuleCall(t) ==
    /\ At(t, "rule")
    /\ LET todo == run[t].todo
           c == run[t].ctx
       IN  CASE todo = <<"create">>  -> CreateShortLink(t, c)
             [] todo = <<"update">>  -> IF config.writes THEN UpdateShortLink(t, c) ELSE Blocked(t)
             [] todo = <<"traffic">> -> QueryTrafficSummary(t, c)
             [] todo = <<"update", "traffic">> ->
                    IF config.writes THEN UpdateShortLink(t, c) ELSE Blocked(t)
             [] OTHER -> NotDone(t, "unknown")

Tool(t) ==
    /\ pc[t] \in {"dag", "rule"} /\ run[t].todo # <<>>
    /\ dispatchToolCall(t) \/ executeToolPlan(t) \/ RuleCall(t)
    /\ UNCHANGED <<config, stores, pc, alive, answer>>

-----------------------------------------------------------------------------
(* Mutant of FinalStatus: the last call decides *)
FinalStatusLast(calls) == IF calls = <<>> THEN "no_op"
    ELSE IF Last(calls).status = "ok" THEN "succeeded" ELSE "partial_failed"
FinalStatus(calls) == IF calls = <<>> THEN "no_op"
    ELSE IF \A i \in DOMAIN calls : calls[i].status = "ok" THEN "succeeded" ELSE "partial_failed"

(* Mutant of SaveTask: a task that did not succeed is not kept *)
SaveTaskDone(t) ==
    /\ At(t, "task")
    /\ LET s == FinalStatus(run[t].calls) IN
           /\ IF s = "succeeded" THEN tasks' = [tasks EXCEPT ![t] = [status |-> s, calls |-> run[t].calls]]
                                 ELSE UNCHANGED tasks
           /\ IF run[t].session = NoSession THEN Finish(t, s) ELSE Goto(t, "session")
    /\ UNCHANGED <<config, sessions, services, run, alive>>
SaveTask(t) ==
    /\ At(t, "task")
    /\ LET s == FinalStatus(run[t].calls) IN
           /\ tasks' = [tasks EXCEPT ![t] = [status |-> s, calls |-> run[t].calls]]
           /\ IF run[t].session = NoSession THEN Finish(t, s) ELSE Goto(t, "session")
    /\ UNCHANGED <<config, sessions, services, run, alive>>

(* Mutant of Learned: what it was told is kept against what it was answered *)
LearnedToldFirst(t) ==
    LET calls == run[t].calls
        About(s) == {i \in DOMAIN calls : calls[i].out[s] # Blank}
        told == Fill(run[t].ctx, run[t].mem)
    IN  [s \in Slots |-> IF told[s] = Blank /\ About(s) # {}
                         THEN calls[CHOOSE i \in About(s) : TRUE].out[s] ELSE told[s]]
(* What the turn was told, over what it read when it began; over both, what *)
(* the last of its calls that said something of a slot was answered.         *)
Learned(t) ==
    LET calls == run[t].calls
        Latest(i, s) == calls[i].out[s] # Blank
                        /\ \A j \in DOMAIN calls : j > i => calls[j].out[s] = Blank
    IN  [s \in Slots |->
            IF \E i \in DOMAIN calls : Latest(i, s)
            THEN calls[CHOOSE i \in DOMAIN calls : Latest(i, s)].out[s]
            ELSE Fill(run[t].ctx, run[t].mem)[s]]

SaveSession(t) ==
    /\ At(t, "session")
    /\ sessions' = [sessions EXCEPT ![run[t].session] = Learned(t)]
    /\ Finish(t, FinalStatus(run[t].calls))
    /\ UNCHANGED <<config, tasks, services, run, alive>>

Dag(t)  == IntentAgent(t) \/ PlannerAgent(t) \/ ToolAgent(t) \/ VerifierAgent(t)
Rule(t) == Classify(t) \/ RuleDone(t)
(* What a turn does by itself, once it was asked *)
Work(t) == \/ ChatDirect(t) \/ Dag(t) \/ Rule(t) \/ Tool(t) \/ SaveTask(t) \/ SaveSession(t)
Next == \E t \in Turns : Chat(t) \/ Execute(t) \/ Cancel(t) \/ Work(t)

Spec == Init /\ [][Next]_vars
=============================================================================
