--------------------------- MODULE AgentProperties ---------------------------
(* What the agent promises to those who talk to it. *)
EXTENDS AgentMain, ChatProperties

CONSTANTS Words,    \* the words and values of a text
          Today,    \* the day the agent runs on
          Numbers   \* the numbers that its users write

Query == INSTANCE QueryText

ASSUME ReadsAssumption ==
    /\ Reads = [x \in Texts |-> Query!Extract(Words[x], Today)]
    /\ Keywords = {x \in Texts : Query!HasKeyword(Words[x])}
ASSUME WordsAssumption ==
    /\ \A x \in Texts : Words[x] \in Seq(Range(Words[x]))
    /\ Today \in Nat /\ Numbers \subseteq 1 .. 99 \union {100 * d : d \in 1 .. 9}

-----------------------------------------------------------------------------
(* The conversation.                                                         *)

(* What is sent along with a line is the conversation since it was last      *)
(* cleared, its last rounds and each of them whole (repl.go, trimHistory).   *)
HistoryIsTheTalk ==
    LET n == IF Len(talk) < Rounds THEN Len(talk) ELSE Rounds
        Turn(i) == talk[Len(talk) - n + (i + 1) \div 2]
    IN  history = [i \in 1 .. 2 * n |->
                      [role |-> IF i % 2 = 1 THEN "user" ELSE "assistant", turn |-> Turn(i)]]

(* A line that names no link is about the link that the line before dealt    *)
(* with: its turn calls the services with the code which that one's last call *)
(* was answered, whatever its own text could be taken for.                   *)
CodeOf(t) ==
    LET told == {i \in DOMAIN run[t].calls : run[t].calls[i].out.shortUrl # Blank}
    IN  IF told = {} THEN Blank
        ELSE run[t].calls[CHOOSE i \in told : \A j \in told : j <= i].out.shortUrl
Follows(u, t) ==
    \/ u = talking /\ talk # <<>> /\ Last(talk) = t
    \/ \E i \in 1 .. Len(talk) - 1 : talk[i] = t /\ talk[i + 1] = u
FollowUpStaysWithLink ==
    \A t \in Turns : \A u \in Turns \ {t} :
        (/\ Follows(u, t) /\ run[u].session = run[t].session /\ CodeOf(t) # Blank
         /\ Reads[run[u].req.text].shortUrl = Blank)
        => run[u].ctx.shortUrl = CodeOf(t)

(* The last n days, and n days later, are the days they mean, in figures or  *)
(* in words, where neither the text, the request nor the session names       *)
(* others; a day later is read in a text that speaks of expiry.              *)
OnlyDays(q, i) == \A j \in DOMAIN q : /\ q[j].is = q[i].is => j = i
                                      /\ q[j].is \notin {"since", "fromWord", "toWord"}
                                      /\ q[j].date = Blank
DaysAsTold ==
    \A t \in Turns : pc[t] # "idle" /\ run[t].session # NoSession =>
        LET q == Words[run[t].req.text]
            given == Fill(run[t].req.context, run[t].mem)
        IN  \A i \in DOMAIN q, n \in Numbers :
                q[i].days \in Query!Written(n) /\ OnlyDays(q, i) =>
                /\ q[i].is = "recent" /\ given.from = Blank /\ given.to = Blank =>
                       run[t].ctx.from = Today - (n - 1) /\ run[t].ctx.to = Today
                /\ (q[i].is = "later" /\ given.expireAt = Blank
                    /\ Query!Mentions(q, {"expiry", "validity"})) =>
                       run[t].ctx.expireAt = Today + n

-----------------------------------------------------------------------------
(* The server.                                                               *)

Wrote(ws, t, tool, k) == \E w \in ws : w.turn = t /\ w.tool = tool /\ k \in {Blank, w.code}

(* A client that was told of a task finds it, as it was told, until the      *)
(* server is restarted (GetTaskDetail).                                      *)
ToldTaskIsFound ==
    \A t \in Turns : stage[t] \in {"open", "done"} /\ answer[t] # "chat" =>
        GetTaskDetail(t) = answer[t]

(* The deltas of a stream make the reply: nothing is lost, repeated or out   *)
(* of order, and a stream that was ended is whole (chatstreamhandler.go).    *)
StreamIsTheReply ==
    \A t \in Turns : how[t] = "stream" =>
        /\ IsPrefix(got[t], reply[t])
        /\ stage[t] = "done" => got[t] = reply[t]

(* A reply which says that a link was created, that it was updated or that   *)
(* an update was executed is about such a write of its turn, and if it names *)
(* a code it is that of the write (rewriteAgentReply).                       *)
ReplyIsTrue ==
    \A t \in Turns :
        (stage[t] \in {"open", "done"} /\ answer[t] # "chat" /\ run[t].session # NoSession) =>
        LET r == rewriteAgentReply(run[t].calls) IN
        r.says \in {"create", "update", "executed"} =>
            Wrote(writes, t, IF r.says = "create" THEN "create" ELSE "update", r.code)

(* A turn that is begun is brought to its end, which is printed or sent,     *)
(* whatever the model and the services answer and whoever leaves; but a turn *)
(* of the command line, or of a stream whose client stays, waits for ever    *)
(* for a model of the DAG that never answers.                                *)
Over(t) == pc[t] = "done" /\ talking # t /\ (mode = "server" => stage[t] \notin {"none", "open"})
EveryTurnEnds ==
    \A t \in Turns : pc[t] # "idle" ~> Over(t) \/ [](AwaitsModel(t) /\ how[t] # "plain")

-----------------------------------------------------------------------------
(* What these rest on.                                                       *)

MainTypeOK == CliTypeOK /\ ServerTypeOK /\ mode \in {"cli", "server"}

(* The task of a turn that ends is kept as it is answered, until the server  *)
(* is restarted; and nothing is sent of a turn before its end.               *)
KeptTask(t) == tasks[t] # NoTask /\ tasks[t].status = answer[t]
TaskKept ==
    \A t \in Turns :
        /\ pc[t] = "session" => tasks[t] # NoTask /\ tasks[t].status = FinalStatus(run[t].calls)
        /\ pc[t] = "done" /\ stage[t] # "past" => answer[t] \in {"error", "chat"} \/ KeptTask(t)
        /\ stage[t] # "none" => pc[t] = "done"
        /\ stage[t] \in {"open", "done"} => answer[t] # "error"

(* A call that was answered was done, under the code of the answer, if one   *)
(* was read.                                                                 *)
DoneCalls(ws, t, calls) ==
    \A i \in DOMAIN calls :
        calls[i].status = "ok" /\ calls[i].tool \in {"create", "update"} =>
            Wrote(ws, t, calls[i].tool, calls[i].out.shortUrl)
CallsAreDone == \A t \in Turns : pc[t] # "idle" => DoneCalls(writes, t, run[t].calls)

(* The command line waits for one turn at a time; one that ends without an   *)
(* error has told its session its code, and the next reads it there before   *)
(* anything else is told to the session.                                     *)
Saved(t) == t # NoTurn /\ pc[t] = "done" /\ answer[t] # "error"
Remembered(t) == CodeOf(t) # Blank => sessions[run[t].session].shortUrl = CodeOf(t)
StaysWith(t, u) ==
    run[u].session = run[t].session /\ CodeOf(t) # Blank => run[u].ctx.shortUrl = CodeOf(t)
OneAtATime ==
    /\ \A t \in Turns : pc[t] \notin {"idle", "done"} => t = talking
    /\ \A t \in Turns : pc[t] # "idle" => run[t].session \in Sessions
    /\ \A t \in Turns : pc[t] = "direct" => run[t].calls = <<>>
    /\ talking # NoTurn => pc[talking] # "idle"
    /\ \A i \in DOMAIN talk : pc[talk[i]] = "done" /\ talk[i] # talking
LinksFollowed ==
    /\ \A i \in 1 .. Len(talk) - 1 : StaysWith(talk[i], talk[i + 1])
    /\ talk # <<>> /\ talking # NoTurn => StaysWith(Last(talk), talking)
    /\ talk # <<>> /\ ~Saved(talking) => Remembered(Last(talk))
    /\ Saved(talking) => Remembered(talking)
TalkOK == /\ mode = "server" => talk = <<>> /\ talking = NoTurn
          /\ mode = "cli" => OneAtATime /\ LinksFollowed

(* A turn goes by what it took when it began for what it is about.           *)
ContextKept ==
    \A t \in Turns : pc[t] # "idle" /\ run[t].session # NoSession =>
        run[t].ctx = Merged(run[t].req, run[t].mem)

(* What was sent of a stream is its first pieces, and what is left of it are  *)
(* the others; nothing is sent before it is opened or left when it is ended. *)
Sent(t, k) ==
    LET pieces == splitByRune(reply[t])
        end == IF k * Size > Len(reply[t]) THEN Len(reply[t]) ELSE k * Size
    IN  /\ left[t] = [i \in 1 .. Len(pieces) - k |-> pieces[k + i]]
        /\ got[t] = SubSeq(reply[t], 1, end)
StreamOK ==
    \A t \in Turns : /\ \E k \in 0 .. Len(splitByRune(reply[t])) : Sent(t, k)
                     /\ stage[t] = "none" => reply[t] = <<>>
                     /\ stage[t] = "done" => left[t] = <<>>

-----------------------------------------------------------------------------
(* Documented, and not what the code does.                                   *)

(* repl.go:159: with /tools off the model is only talked to.                 *)
ToolsOffMeansTalk == \A w \in writes : run[w.turn].req.tools
=============================================================================
