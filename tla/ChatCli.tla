------------------------------- MODULE ChatCli -------------------------------
(***************************************************************************)
(* The agent's command line (repl.go): one conversation, a line at a time,  *)
(* over the chat logic of the server.  Lines that begin with / are commands;*)
(* the others are turns, of which the next is read after the last was       *)
(* answered.  /help, /memory and what is no command change nothing.         *)
(***************************************************************************)
EXTENDS ChatAgent

CONSTANTS
    Options,    \* the flags the agent may be started with
    Lines,      \* turn -> the lines that may be typed for it
    Clock,      \* the session ids that the clock may give, one a second
    NoTurn

Option  == [session : Sessions \union {Blank}, tools : BOOLEAN, rounds : Nat]
Message == [role : {"user", "assistant"}, turn : Turns]

ASSUME CliAssumption ==
    /\ Options \subseteq Option /\ Lines \in [Turns -> SUBSET Texts] /\ NoTurn \notin Turns
    /\ Clock \subseteq Sessions

VARIABLES
    option,
    sid,        \* the session that lines are sent with
    enableTools,
    history,    \* the messages of the conversation that are sent along
    talking,    \* the turn that is waited for
    open,       \* whether lines are read
    talk        \* history: the turns answered since the conversation was last cleared

cli == <<option, sid, enableTools, history, talking, open, talk>>

CliTypeOK ==
    /\ option \in Options /\ sid \in Sessions /\ enableTools \in BOOLEAN /\ open \in BOOLEAN
    /\ history \in Seq(Message) /\ talk \in Seq(Turns)
    /\ talking \in Turns \union {NoTurn}

CliInit ==
    /\ option \in Options /\ enableTools = option.tools
    /\ IF option.session = Blank THEN sid \in Clock ELSE sid = option.session
    /\ history = <<>> /\ talk = <<>> /\ talking = NoTurn

Rounds == IF option.rounds = 0 THEN 12 ELSE option.rounds

(* An operator is always named, "cli-user" if no flag gives another *)
CliRequest(i, x) == [id |-> i, session |-> sid, context |-> NoContext, text |-> x,
                     tools |-> enableTools, operator |-> TRUE]

AtPrompt == open /\ talking = NoTurn

ReadLine(t) ==
    /\ AtPrompt
    /\ \E i \in RequestIds, x \in Lines[t] : ChatWith(t, CliRequest(i, x))
    /\ talking' = t
    /\ UNCHANGED <<option, sid, enableTools, history, open, talk>>

(* Mutant of trimHistory: a round is taken for one message *)
trimHistoryMessages(h) == IF Len(h) <= Rounds THEN h ELSE SubSeq(h, Len(h) - Rounds + 1, Len(h))
(* The last rounds, of two messages each *)
trimHistory(h) == IF Len(h) <= 2 * Rounds THEN h ELSE SubSeq(h, Len(h) - 2 * Rounds + 1, Len(h))

(* A turn that failed is printed and forgotten *)
Answered(t) ==
    /\ talking = t /\ At(t, "done")
    /\ talking' = NoTurn
    /\ IF answer[t] = "error" THEN UNCHANGED <<history, talk>>
       ELSE /\ history' = trimHistory(history \o <<[role |-> "user", turn |-> t],
                                                   [role |-> "assistant", turn |-> t]>>)
            /\ talk' = Append(talk, t)
    /\ UNCHANGED <<vars, option, sid, enableTools, open>>

(* A session of the same second is the same session *)
NewSession ==
    /\ AtPrompt
    /\ sid' \in Clock /\ history' = <<>> /\ talk' = <<>>
    /\ UNCHANGED <<vars, option, enableTools, talking, open>>

Reset ==
    /\ AtPrompt
    /\ history' = <<>> /\ talk' = <<>>
    /\ UNCHANGED <<vars, option, sid, enableTools, talking, open>>

SwitchTools(on) ==
    /\ AtPrompt
    /\ enableTools' = on
    /\ UNCHANGED <<vars, option, sid, history, talking, open, talk>>

(* /quit, /exit or the end of the input *)
Quit ==
    /\ AtPrompt
    /\ open' = FALSE
    /\ UNCHANGED <<vars, option, sid, enableTools, history, talking, talk>>

handleCommand == NewSession \/ Reset \/ (\E on \in BOOLEAN : SwitchTools(on)) \/ Quit
RunChatREPL == (\E t \in Turns : ReadLine(t) \/ Answered(t)) \/ handleCommand
=============================================================================
