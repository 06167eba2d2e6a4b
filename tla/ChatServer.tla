----------------------------- MODULE ChatServer -----------------------------
(***************************************************************************)
(* The agent's HTTP server: what the handlers send back of the turns they   *)
(* serve, in one reply or as a stream of events, what they later say of a   *)
(* task, and a server that is restarted.  Sessions and tasks are in memory. *)
(***************************************************************************)
EXTENDS ChatAgent

CONSTANTS
    Lengths,        \* the numbers of runes a reply may have
    Size,           \* the runes of a delta
    MaxRestarts     \* bound on restarts

ASSUME ServerAssumption == Lengths \subseteq Nat \ {0} /\ Size \in Nat \ {0} /\ MaxRestarts \in Nat

VARIABLES
    how,        \* how a turn is answered
    stage,      \* how far that is
    reply,      \* the reply, as its runes' positions
    left,       \* the deltas still to be sent
    got,        \* what its client made of them
    restarts

server == <<how, stage, reply, left, got, restarts>>

Stages == {"none", "open", "done", "error", "cut", "past"}
ServerTypeOK ==
    /\ how \in [Turns -> {"none", "plain", "stream"}]
    /\ stage \in [Turns -> Stages]
    /\ reply \in [Turns -> Seq(Nat)] /\ got \in [Turns -> Seq(Nat)]
    /\ left \in [Turns -> Seq(Seq(Nat))]
    /\ restarts \in 0 .. MaxRestarts

ServerInit ==
    /\ how = [t \in Turns |-> "none"] /\ stage = [t \in Turns |-> "none"]
    /\ reply = [t \in Turns |-> <<>>] /\ left = [t \in Turns |-> <<>>]
    /\ got = [t \in Turns |-> <<>>] /\ restarts = 0

(* Mutant of splitByRune: a last piece that is not full is dropped *)
splitByRuneFull(r) == [i \in 1 .. Len(r) \div Size |-> SubSeq(r, (i - 1) * Size + 1, i * Size)]
splitByRune(r) ==
    [i \in 1 .. (Len(r) + Size - 1) \div Size |->
        SubSeq(r, (i - 1) * Size + 1, IF i * Size > Len(r) THEN Len(r) ELSE i * Size)]

(* A creation or an update is told of whatever was answered, a query only if *)
(* there are figures to tell; an update by what its answer says of the link. *)
Tells(c) == c.tool \in {"create", "update"} \/ (c.tool = "traffic" /\ c.read)
Said(c) == IF c.tool # "update" THEN c.tool
           ELSE IF c.out.longUrl # Blank \/ c.out.expireAt # Blank THEN "update"
           ELSE IF c.out.shortUrl # Blank THEN "located"
           ELSE "executed"
FirstTold(calls) == CHOOSE i \in DOMAIN calls :
                        Tells(calls[i]) /\ \A j \in 1 .. i - 1 : ~Tells(calls[j])
ReplyOf(says, code) == [says |-> says, code |-> code]

(* Mutant of rewriteAgentReply: only an error is a failure *)
rewriteAgentReplyErrors(calls) ==
    LET first == calls[FirstTold(calls)] IN
    IF calls = <<>> THEN ReplyOf("nothing", Blank)
    ELSE IF \E i \in DOMAIN calls : calls[i].status = "error" THEN ReplyOf("failed", Blank)
    ELSE IF \A i \in DOMAIN calls : ~Tells(calls[i]) THEN ReplyOf("answer", Blank)
    ELSE ReplyOf(Said(first), first.out.shortUrl)
(* Any call that is not ok makes the reply one of failure; else the first of *)
(* them that there is something to tell of decides what is said, and names   *)
(* the code that it answered, if it was read; or the engine's answer is it.  *)
rewriteAgentReply(calls) ==
    LET first == calls[FirstTold(calls)] IN
    IF calls = <<>> THEN ReplyOf("nothing", Blank)
    ELSE IF \E i \in DOMAIN calls : calls[i].status # "ok" THEN ReplyOf("failed", Blank)
    ELSE IF \A i \in DOMAIN calls : ~Tells(calls[i]) THEN ReplyOf("answer", Blank)
    ELSE ReplyOf(Said(first), first.out.shortUrl)

(* /agent/tasks/:taskId *)
GetTaskDetail(t) == IF tasks[t] = NoTask THEN "task not found" ELSE tasks[t].status

-----------------------------------------------------------------------------
Serve(t) ==
    /\ \/ (Chat(t) \/ Execute(t)) /\ how' = [how EXCEPT ![t] = "plain"]
       \/ Chat(t) /\ how' = [how EXCEPT ![t] = "stream"]
    /\ UNCHANGED <<stage, reply, left, got, restarts>>

Gone(t) == Cancel(t) /\ UNCHANGED server

Send(t, s) == stage' = [stage EXCEPT ![t] = s]
(* The turn is over and nothing of it was sent *)
ToSend(t) == At(t, "done") /\ stage[t] = "none"

SendError(t) ==
    /\ ToSend(t) /\ answer[t] = "error"
    /\ Send(t, "error")
    /\ UNCHANGED <<vars, how, reply, left, got, restarts>>

(* A reply whose client is gone reaches nobody *)
Reply(t) ==
    /\ ToSend(t) /\ answer[t] # "error" /\ how[t] = "plain"
    /\ Send(t, IF alive[t] THEN "done" ELSE "cut")
    /\ UNCHANGED <<vars, how, reply, left, got, restarts>>

(* The first event of a stream, with the id of the task *)
Meta(t) ==
    /\ ToSend(t) /\ answer[t] # "error" /\ how[t] = "stream"
    /\ IF alive[t]
       THEN /\ Send(t, "open")
            /\ \E n \in Lengths :
                   LET r == [i \in 1 .. n |-> i] IN
                   reply' = [reply EXCEPT ![t] = r] /\ left' = [left EXCEPT ![t] = splitByRune(r)]
       ELSE Send(t, "cut") /\ UNCHANGED <<reply, left>>
    /\ UNCHANGED <<vars, how, got, restarts>>

Delta(t) ==
    /\ stage[t] = "open" /\ left[t] # <<>>
    /\ IF alive[t]
       THEN /\ got' = [got EXCEPT ![t] = @ \o Head(left[t])]
            /\ left' = [left EXCEPT ![t] = Tail(@)]
            /\ UNCHANGED stage
       ELSE Send(t, "cut") /\ UNCHANGED <<got, left>>
    /\ UNCHANGED <<vars, how, reply, restarts>>

(* Nothing is made of an error of the last event *)
DoneEvent(t) ==
    /\ stage[t] = "open" /\ left[t] = <<>>
    /\ Send(t, IF alive[t] THEN "done" ELSE "cut")
    /\ UNCHANGED <<vars, how, reply, left, got, restarts>>

(* The client leaves while it is answered *)
HangUp(t) ==
    /\ alive[t] /\ At(t, "done") /\ stage[t] \in {"none", "open"}
    /\ alive' = [alive EXCEPT ![t] = FALSE]
    /\ UNCHANGED <<config, stores, services, pc, run, answer, server>>

(* The server is killed and started again: its memory is lost, and with it   *)
(* the turns it was serving; what came before is past.                       *)
Restart ==
    /\ restarts < MaxRestarts /\ restarts' = restarts + 1
    /\ sessions' = [x \in Sessions |-> NoContext] /\ tasks' = [t \in Turns |-> NoTask]
    /\ pc' = [t \in Turns |-> IF pc[t] = "idle" THEN "idle" ELSE "done"]
    /\ answer' = [t \in Turns |-> IF pc[t] \in {"idle", "done"} THEN answer[t] ELSE "error"]
    /\ stage' = [t \in Turns |-> IF pc[t] = "idle" THEN "none" ELSE "past"]
    /\ UNCHANGED <<config, services, run, alive, how, reply, left, got>>

Respond(t) == SendError(t) \/ Reply(t) \/ Meta(t) \/ Delta(t) \/ DoneEvent(t)
ServerStep == (\E t \in Turns : Serve(t) \/ Gone(t) \/ Respond(t) \/ HangUp(t)) \/ Restart
=============================================================================
