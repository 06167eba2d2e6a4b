---------------------------- MODULE ChatProperties ----------------------------
(* What the AI agent promises of the turns it serves. *)
EXTENDS ChatAgent

(* The fallback repeats nothing: no write is done by the DAG and once more   *)
(* by the rule engine that takes over from it, although the rule engine      *)
(* knows nothing of the calls the DAG has made.                              *)
FallbackRepeatsNothing ==
    \A v, w \in writes : v.turn = w.turn => v.by = w.by

(* With write actions disabled no link that exists is changed, whichever     *)
(* engine serves a turn and whichever tools the language model names.        *)
UpdatesNeedPermission ==
    [][~config.writes => \A k \in Codes : Used(k) => links'[k] = links[k]]_vars

(* A task that succeeded did what it reports: every write in it was done by  *)
(* the service, and the turn did no other.                                   *)
SucceededIsDone ==
    \A t \in Turns : tasks[t] # NoTask /\ tasks[t].status = "succeeded" =>
        \A tool \in {"create", "update"} :
            (\E w \in writes : w.turn = t /\ w.tool = tool)
                <=> \E i \in DOMAIN tasks[t].calls : tasks[t].calls[i].tool = tool

(* What a session remembers was said in that session, or answered to a tool  *)
(* call of one of its turns: of those that name it, or that name none and    *)
(* whose request id it is made of.  No other chat's links are learned.       *)
TurnsOf(x) == {t \in Turns : /\ pc[t] # "idle" /\ run[t].session = x
                             /\ \/ run[t].req.session = x
                                \/ run[t].req.session = Blank /\ OwnSession[run[t].req.id] = x}
FromTurn(t, s, v) == \/ v \in {run[t].req.context[s], Reads[run[t].req.text][s]}
                     \/ \E i \in DOMAIN run[t].calls : run[t].calls[i].out[s] = v
SessionsApart ==
    \A x \in Sessions, s \in Slots : sessions[x][s] # Blank =>
        \E t \in TurnsOf(x) : FromTurn(t, s, sessions[x][s])

-----------------------------------------------------------------------------
(* What the first three rest on.                                             *)

(* A write of the DAG stays with a turn that the DAG serves, or that has     *)
(* ended its run; or the turn is cancelled and falls back.                   *)
WritesOf(t, step, running) ==
    \A w \in writes : w.turn = t =>
        /\ w.by = "rule" => step \in {"rule", "task", "session", "done"}
        /\ w.by = "dag" => \/ step \in {"dag", "task", "session", "done"}
                           \/ step = "classify" /\ ~running
WritesOK == \A t \in Turns : WritesOf(t, pc[t], alive[t])

(* A call that was answered was done; and a write of a turn is among its     *)
(* calls, or another call tells that the turn did not succeed.               *)
CallsOf(t, calls) ==
    /\ \A i \in DOMAIN calls :
           calls[i].status = "ok" /\ calls[i].tool \in {"create", "update"} =>
               \E w \in writes : w.turn = t /\ w.tool = calls[i].tool
    /\ \A w \in writes : w.turn = t =>
           \E i \in DOMAIN calls : calls[i].tool = w.tool \/ calls[i].status # "ok"
CallsOK == \A t \in Turns : pc[t] \in {"dag", "rule", "task"} => CallsOf(t, run[t].calls)

(* There are calls and tasks only of the turns that came so far.             *)
Started ==
    \A t \in Turns : /\ pc[t] \in {"classify", "intent", "plan", "choose"} => run[t].calls = <<>>
                     /\ tasks[t] # NoTask => pc[t] \in {"session", "done"}

IInv == /\ AgentTypeOK /\ WritesOK /\ CallsOK /\ Started
        /\ FallbackRepeatsNothing /\ SucceededIsDone

(* What a session remembers comes of turns of that session that are over;    *)
(* what a turn holds comes of its request, or of the session that it read.   *)
Earlier(x, s, v) == \E u \in TurnsOf(x) : pc[u] = "done" /\ FromTurn(u, s, v)
Asked(t, s, v) == v \in {run[t].req.context[s], Reads[run[t].req.text][s]}
SessionsOK ==
    /\ \A x \in Sessions, s \in Slots : sessions[x][s] # Blank => Earlier(x, s, sessions[x][s])
    /\ \A t \in Turns : pc[t] # "idle" /\ run[t].session # NoSession =>
           /\ run[t].session = SessionId(run[t].req)
           /\ \A s \in Slots : \A v \in {run[t].mem[s], run[t].ctx[s]} \ {Blank} :
                  Asked(t, s, v) \/ Earlier(run[t].session, s, v)

-----------------------------------------------------------------------------
(* Documented, and not what the code does.                                   *)

(* AIAgent/README.md:73-86: a link is changed in a session by naming its new *)
(* target in the text.  An update sends the URL that its own turn names, if   *)
(* the turn names one.                                                        *)
NewTargetIsSent ==
    \A w \in writes :
        LET q == run[w.turn].req
            u == Fill(q.context, Reads[q.text]).longUrl
        IN  w.tool = "update" /\ u # Blank => w.link.url = u
=============================================================================
