----------------------------- MODULE AgentProofs -----------------------------
(* Proofs about the agent as it is started, for any texts, requests, options, *)
(* sizes and restarts: what holds of turns holds of those that a command line *)
(* or a server serves, and what a server says of them is so.                  *)
EXTENDS AgentProperties, ChatProofs, DataLemmas

LEMMA Idle == IInv /\ UNCHANGED vars => IInv'
BY DEF vars, IInv, AgentTypeOK, WritesOK, WritesOf, CallsOK, CallsOf, Started,
       FallbackRepeatsNothing, SucceededIsDone

LEMMA LineType ==
    ASSUME CliTypeOK, NEW t \in Turns, NEW i \in RequestIds, NEW x \in Lines[t]
    PROVE  CliRequest(i, x) \in Request
BY CliAssumption, NoContextType DEF CliTypeOK, CliRequest, Request

LEMMA TrimType == ASSUME CliTypeOK, NEW h \in Seq(Message) PROVE trimHistory(h) \in Seq(Message)
<1>1. Rounds \in Nat \ {0}
    BY CliAssumption DEF CliTypeOK, Option, Rounds
<1>2. CASE Len(h) > 2 * Rounds
    BY <1>1, <1>2, SubSeqProperties, LenProperties DEF trimHistory
<1>3. CASE ~(Len(h) > 2 * Rounds)
    BY <1>1, <1>3, LenProperties DEF trimHistory
<1> QED
    BY <1>2, <1>3

LEMMA CliStays == IInv /\ CliTypeOK /\ CliStep => IInv' /\ CliTypeOK'
<1> SUFFICES ASSUME IInv, CliTypeOK, CliStep PROVE IInv' /\ CliTypeOK'
    OBVIOUS
<1>1. ASSUME NEW t \in Turns, ReadLine(t) PROVE IInv' /\ CliTypeOK'
    <2>1. PICK i \in RequestIds, x \in Lines[t] : ChatWith(t, CliRequest(i, x))
        BY <1>1 DEF ReadLine
    <2>2. IInv'
        BY <2>1, LineType, ChatWithStep
    <2> QED
        BY <1>1, <2>2 DEF ReadLine, CliTypeOK
<1>2. ASSUME NEW t \in Turns, Answered(t) PROVE IInv' /\ CliTypeOK'
    <2> DEFINE two == <<[role |-> "user", turn |-> t], [role |-> "assistant", turn |-> t]>>
    <2>1. two \in Seq(Message)
        BY DEF Message
    <2>2. history \o two \in Seq(Message)
        BY <2>1, ConcatProperties DEF CliTypeOK
    <2>3. trimHistory(history \o two) \in Seq(Message)
        BY <2>2, TrimType
    <2>4. Append(talk, t) \in Seq(Turns)
        BY DEF CliTypeOK
    <2> HIDE DEF two
    <2>5. history' \in Seq(Message) /\ talk' \in Seq(Turns)
        BY <1>2, <2>3, <2>4 DEF Answered, CliTypeOK, two
    <2> QED
        BY <1>2, <2>5, Idle DEF Answered, CliTypeOK
<1>3. CASE handleCommand
    <2>1. UNCHANGED vars
        BY <1>3 DEF handleCommand, NewSession, Reset, SwitchTools, Quit
    <2>2. IInv'
        BY <2>1, Idle
    <2>3. CASE NewSession \/ Reset
        <3>1. sid' \in Sessions /\ history' = <<>> /\ talk' = <<>>
            BY <2>3, CliAssumption DEF NewSession, Reset, CliTypeOK
        <3>2. history' \in Seq(Message) /\ talk' \in Seq(Turns)
            BY <3>1, EmptySeq
        <3> QED
            BY <2>2, <2>3, <3>1, <3>2 DEF NewSession, Reset, CliTypeOK
    <2>4. CASE (\E on \in BOOLEAN : SwitchTools(on)) \/ Quit
        BY <2>2, <2>4 DEF SwitchTools, Quit, CliTypeOK
    <2> QED
        BY <1>3, <2>2, <2>3, <2>4 DEF handleCommand
<1> QED
    BY <1>1, <1>2, <1>3 DEF CliStep, RunChatREPL

-----------------------------------------------------------------------------
(* The server.                                                                 *)
LEMMA FunctionIsSeq == ASSUME NEW S, NEW k \in Nat, NEW f \in [1 .. k -> S] PROVE f \in Seq(S)
BY SeqDef

LEMMA SplitType ==
    ASSUME NEW r \in Seq(Nat)
    PROVE  splitByRune(r) \in Seq(Seq(Nat))
<1>1. Size \in Nat \ {0} /\ Len(r) \in Nat
    BY ServerAssumption
<1>2. (Len(r) + Size - 1) \div Size \in Nat
    BY <1>1
<1>3. ASSUME NEW i \in 1 .. (Len(r) + Size - 1) \div Size
      PROVE  splitByRune(r)[i] \in Seq(Nat)
    <2>1. (i - 1) * Size \in Nat /\ i * Size \in Nat
        BY <1>1, <1>2, <1>3
    <2> DEFINE m == (i - 1) * Size + 1
               n == IF i * Size > Len(r) THEN Len(r) ELSE i * Size
    <2>2. m \in Nat \ {0} /\ n \in 0 .. Len(r)
        BY <1>1, <2>1
    <2>3. splitByRune(r)[i] = SubSeq(r, m, n)
        BY <1>3 DEF splitByRune
    <2> HIDE DEF m, n
    <2>4. \A j \in m .. n : j \in 1 .. Len(r)
        BY <1>1, <2>2
    <2>5. SubSeq(r, m, n) \in Seq(Nat)
        BY <2>2, <2>4, SubSeqProperties, LenProperties, ElementOfSeq
    <2> QED
        BY <2>3, <2>5
<1>4. PICK k \in Nat : k = (Len(r) + Size - 1) \div Size
    BY <1>2
<1>5. splitByRune(r) \in [1 .. k -> Seq(Nat)]
    BY <1>3, <1>4 DEF splitByRune
<1> QED
    BY <1>4, <1>5, FunctionIsSeq

LEMMA HangUpStep == ASSUME IInv, NEW t \in Turns, HangUp(t) PROVE IInv'
BY DEF HangUp, At, stores, services, IInv, AgentTypeOK, WritesOK, WritesOf, CallsOK, CallsOf, Started,
       FallbackRepeatsNothing, SucceededIsDone

LEMMA RestartStep == ASSUME IInv, Restart PROVE IInv'
<1>1. AgentTypeOK'
    BY NoContextType DEF Restart, services, IInv, AgentTypeOK, Steps
<1>2. WritesOK' /\ CallsOK' /\ Started'
    BY DEF Restart, services, IInv, AgentTypeOK, WritesOK, WritesOf, CallsOK, Started
<1>3. FallbackRepeatsNothing' /\ SucceededIsDone'
    BY DEF Restart, services, IInv, FallbackRepeatsNothing, SucceededIsDone
<1> QED
    BY <1>1, <1>2, <1>3 DEF IInv

LEMMA ServeStays == IInv /\ ServerTypeOK /\ ServeStep => IInv' /\ ServerTypeOK'
<1> SUFFICES ASSUME IInv, ServerTypeOK, ServeStep PROVE IInv' /\ ServerTypeOK'
    OBVIOUS
<1>1. ASSUME NEW t \in Turns, Serve(t) PROVE IInv' /\ ServerTypeOK'
    <2>1. IInv'
        BY <1>1, ChatStep, ExecuteStep DEF Serve
    <2> QED
        BY <1>1, <2>1 DEF Serve, ServerTypeOK
<1>2. ASSUME NEW t \in Turns, Gone(t) \/ HangUp(t) PROVE IInv' /\ ServerTypeOK'
    <2>1. IInv'
        BY <1>2, CancelStep, HangUpStep DEF Gone
    <2> QED
        BY <1>2, <2>1 DEF Gone, HangUp, server, ServerTypeOK
<1>3. ASSUME NEW t \in Turns, Respond(t) PROVE IInv' /\ ServerTypeOK'
    <2>1. IInv'
        BY <1>3, Idle DEF Respond, SendError, Reply, Meta, Delta, DoneEvent
    <2>2. CASE SendError(t) \/ Reply(t) \/ DoneEvent(t)
        BY <2>1, <2>2 DEF SendError, Reply, DoneEvent, Send, Stages, ServerTypeOK
    <2>3. CASE Meta(t)
        <3>1. CASE UNCHANGED <<reply, left>>
            BY <2>1, <2>3, <3>1 DEF Meta, Send, Stages, ServerTypeOK
        <3>2. CASE ~UNCHANGED <<reply, left>>
            <4>1. PICK n \in Lengths : /\ reply' = [reply EXCEPT ![t] = [i \in 1 .. n |-> i]]
                                      /\ left' = [left EXCEPT ![t] = splitByRune([i \in 1 .. n |-> i])]
                BY <2>3, <3>2 DEF Meta
            <4>2. [i \in 1 .. n |-> i] \in Seq(Nat)
                BY ServerAssumption
            <4>3. splitByRune([i \in 1 .. n |-> i]) \in Seq(Seq(Nat))
                BY <4>2, SplitType
            <4> QED
                BY <2>1, <2>3, <4>1, <4>2, <4>3 DEF Meta, Send, Stages, ServerTypeOK
        <3> QED
            BY <3>1, <3>2
    <2>4. CASE Delta(t)
        <3>1. left[t] \in Seq(Seq(Nat)) /\ left[t] # <<>> /\ got[t] \in Seq(Nat)
            BY <2>4 DEF Delta, ServerTypeOK
        <3>2. Head(left[t]) \in Seq(Nat) /\ Tail(left[t]) \in Seq(Seq(Nat))
            BY <3>1, HeadTailProperties
        <3>3. got[t] \o Head(left[t]) \in Seq(Nat)
            BY <3>1, <3>2, ConcatProperties
        <3> QED
            BY <2>1, <2>4, <3>2, <3>3 DEF Delta, Send, Stages, ServerTypeOK
    <2> QED
        BY <1>3, <2>1, <2>2, <2>3, <2>4 DEF Respond
<1>4. CASE Restart
    BY <1>4, RestartStep, ServerAssumption DEF Restart, Stages, ServerTypeOK
<1> QED
    BY <1>1, <1>2, <1>3, <1>4 DEF ServeStep, ServerStep

-----------------------------------------------------------------------------
LEMMA TurnStays == ASSUME IInv, MainTypeOK, NEW t \in Turns, TurnStep(t) PROVE IInv' /\ MainTypeOK'
<1>1. IInv'
    BY WorkStep DEF TurnStep
<1> QED
    BY <1>1 DEF TurnStep, cli, server, MainTypeOK, CliTypeOK, ServerTypeOK

LEMMA MainStays == IInv /\ MainTypeOK /\ [MainNext]_main => IInv' /\ MainTypeOK'
<1> SUFFICES ASSUME IInv, MainTypeOK, [MainNext]_main PROVE IInv' /\ MainTypeOK'
    OBVIOUS
<1>1. CASE UNCHANGED main
    BY <1>1, Idle DEF main, cli, server, MainTypeOK, CliTypeOK, ServerTypeOK
<1>2. ASSUME NEW t \in Turns, TurnStep(t) PROVE IInv' /\ MainTypeOK'
    BY <1>2, TurnStays
<1>3. CASE CliStep
    <2>1. IInv' /\ CliTypeOK'
        BY <1>3, CliStays DEF MainTypeOK
    <2> QED
        BY <1>3, <2>1 DEF CliStep, server, MainTypeOK, ServerTypeOK
<1>4. CASE ServeStep
    <2>1. IInv' /\ ServerTypeOK'
        BY <1>4, ServeStays DEF MainTypeOK
    <2> QED
        BY <1>4, <2>1 DEF ServeStep, cli, MainTypeOK, CliTypeOK
<1> QED
    BY <1>1, <1>2, <1>3, <1>4 DEF MainNext

LEMMA MainBegins == MainInit => IInv /\ MainTypeOK
<1> SUFFICES ASSUME MainInit PROVE IInv /\ MainTypeOK
    OBVIOUS
<1>1. IInv
    BY InitOK DEF MainInit
<1>2. sid \in Sessions
    BY CliAssumption DEF MainInit, CliInit, Option
<1>3. option \in Options /\ enableTools \in BOOLEAN
    BY CliAssumption DEF MainInit, CliInit, Option
<1>4. CliTypeOK
    BY <1>2, <1>3, EmptySeq DEF MainInit, CliInit, CliTypeOK
<1>5. ServerTypeOK
    BY EmptySeq, ServerAssumption DEF MainInit, ServerInit, ServerTypeOK, Stages
<1> QED
    BY <1>1, <1>4, <1>5, ModesAssumption DEF MainInit, MainTypeOK

LEMMA MainInvariance == MainSpec => [](IInv /\ MainTypeOK)
BY MainBegins, MainStays, PTL DEF MainSpec

(* The turns that the command line asks for and the server serves, a restart   *)
(* among them, keep what is promised of turns: no write is repeated, and a     *)
(* task that succeeded did what it reports.                                    *)
THEOREM MainTurns == MainSpec => [](FallbackRepeatsNothing /\ SucceededIsDone)
<1>1. IInv => FallbackRepeatsNothing /\ SucceededIsDone
    BY DEF IInv
<1> QED
    BY MainInvariance, <1>1, PTL

(* Every variable of the command line and of the server has its type.          *)
THEOREM MainTypeCorrect == MainSpec => [](AgentTypeOK /\ MainTypeOK)
<1>1. IInv => AgentTypeOK
    BY DEF IInv
<1> QED
    BY MainInvariance, <1>1, PTL

-----------------------------------------------------------------------------
(* What the services are asked for, from the command line and by the server.   *)

(* Links are written by the work of turns, and by nothing else.                *)
LEMMA MainWrites == [MainNext]_main => [Next]_vars \/ UNCHANGED <<config, links, writes>>
<1> SUFFICES ASSUME MainNext PROVE [Next]_vars \/ UNCHANGED <<config, links, writes>>
    BY DEF main
<1>1. ASSUME NEW t \in Turns, TurnStep(t) PROVE Next
    BY <1>1 DEF TurnStep, Next
<1>2. CASE CliStep
    <2>1. ASSUME NEW t \in Turns, ReadLine(t) PROVE UNCHANGED <<config, links, writes>>
        BY <2>1 DEF ReadLine, ChatWith, services
    <2>2. ASSUME NEW t \in Turns, Answered(t) PROVE UNCHANGED vars
        BY <2>2 DEF Answered
    <2>3. handleCommand => UNCHANGED vars
        BY DEF handleCommand, NewSession, Reset, SwitchTools, Quit
    <2> QED
        BY <1>2, <2>1, <2>2, <2>3 DEF CliStep, RunChatREPL
<1>3. CASE ServeStep
    <2>1. ASSUME NEW t \in Turns, Serve(t) \/ Gone(t) PROVE Next
        BY <2>1 DEF Serve, Gone, Next
    <2>2. ASSUME NEW t \in Turns, Respond(t) PROVE UNCHANGED vars
        BY <2>2 DEF Respond, SendError, Reply, Meta, Delta, DoneEvent
    <2>3. ASSUME NEW t \in Turns, HangUp(t) PROVE UNCHANGED <<config, links, writes>>
        BY <2>3 DEF HangUp, services
    <2>4. Restart => UNCHANGED <<config, links, writes>>
        BY DEF Restart, services
    <2> QED
        BY <1>3, <2>1, <2>2, <2>3, <2>4 DEF ServeStep, ServerStep
<1> QED
    BY <1>1, <1>2, <1>3 DEF MainNext

(* Nor does the command line, or a restart, get round AllowWriteActions.       *)
THEOREM MainGated == MainSpec => UpdatesNeedPermission
<1>1. IInv /\ [MainNext]_main => [LinksKept]_vars
    <2>1. UNCHANGED <<config, links, writes>> => LinksKept
        BY DEF LinksKept
    <2> QED
        BY <2>1, MainWrites, NextKeepsLinks
<1> QED
    BY <1>1, MainInvariance, PTL DEF MainSpec, UpdatesNeedPermission, LinksKept

-----------------------------------------------------------------------------
(* What a turn does touches no other turn.                                     *)
LEMMA WorkIsOwn ==
    ASSUME IInv, NEW t \in Turns, Work(t)
    PROVE  /\ pc[t] \notin {"idle", "done"}
           /\ \A u \in Turns \ {t} : /\ pc'[u] = pc[u] /\ run'[u] = run[u]
                                     /\ tasks'[u] = tasks[u] /\ answer'[u] = answer[u]
<1>1. CASE Dag(t) \/ Rule(t)
    <2>1. UNCHANGED tasks /\ \A u \in Turns \ {t} : answer'[u] = answer[u]
        BY <1>1 DEF Dag, Rule, IntentAgent, PlannerAgent, ToolAgent, VerifierAgent, Classify, RuleDone,
                    FallbackOrErr, Goto, Finish, stores, IInv, AgentTypeOK
    <2> QED
        BY <1>1, <2>1, DagKeeps
<1>2. CASE Tool(t)
    BY <1>2, ToolKeeps DEF Tool, stores
<1>3. CASE ChatDirect(t) \/ SaveSession(t)
    BY <1>3 DEF ChatDirect, SaveSession, At, Finish, IInv, AgentTypeOK
<1>4. CASE SaveTask(t)
    BY <1>4 DEF SaveTask, At, Goto, Finish, IInv, AgentTypeOK
<1> QED
    BY <1>1, <1>2, <1>3, <1>4 DEF Work

(* A turn that ends was answered what its task says, if it has one.            *)
LEMMA WorkTellsTask ==
    ASSUME IInv, TaskKept, NEW t \in Turns, Work(t)
    PROVE  /\ pc'[t] = "session" => tasks'[t] # NoTask /\ tasks'[t].status = FinalStatus(run'[t].calls)
           /\ pc'[t] = "done" => answer'[t] \in {"error", "chat"} \/ KeptTask(t)'
<1>1. CASE Dag(t) \/ Rule(t)
    <2>1. \/ pc'[t] \notin {"session", "done"}
          \/ pc'[t] = "done" /\ answer'[t] = "error"
        BY <1>1 DEF Dag, Rule, IntentAgent, PlannerAgent, ToolAgent, VerifierAgent, Classify, RuleDone,
                    FallbackOrErr, Goto, Finish, IInv, AgentTypeOK
    <2> QED
        BY <2>1
<1>2. CASE Tool(t)
    BY <1>2 DEF Tool
<1>3. CASE ChatDirect(t)
    BY <1>3 DEF ChatDirect, At, Finish, IInv, AgentTypeOK
<1>4. CASE SaveTask(t)
    <2> DEFINE s == FinalStatus(run[t].calls)
               k == [status |-> s, calls |-> run[t].calls]
    <2>1. tasks' = [tasks EXCEPT ![t] = k] /\ UNCHANGED run /\ pc[t] = "task"
        BY <1>4 DEF SaveTask, At
    <2>2. Finish(t, s) \/ Goto(t, "session")
        BY <1>4 DEF SaveTask
    <2>3. s \in {"no_op", "succeeded", "partial_failed"} /\ run[t].calls \in Seq(Call)
        BY <2>1, FinalStatusType DEF IInv, AgentTypeOK, Run
    <2>4. k \in Task /\ k.status = s
        BY <2>3 DEF Task
    <2>5. tasks'[t] = k /\ k # NoTask
        BY <2>1, <2>4, RequestsAssumption DEF IInv, AgentTypeOK
    <2> HIDE DEF s, k
    <2>6. /\ pc'[t] = "session" \/ pc'[t] = "done"
          /\ pc'[t] = "done" => answer'[t] = s
        BY <2>2 DEF Finish, Goto, IInv, AgentTypeOK
    <2> QED
        BY <2>1, <2>4, <2>5, <2>6 DEF KeptTask, s
<1>5. CASE SaveSession(t)
    <2>1. /\ pc[t] = "session" /\ UNCHANGED <<tasks, run>>
          /\ Finish(t, FinalStatus(run[t].calls))
        BY <1>5 DEF SaveSession, At
    <2>2. tasks[t] # NoTask /\ tasks[t].status = FinalStatus(run[t].calls)
        BY <2>1 DEF TaskKept
    <2> QED
        BY <2>1, <2>2 DEF Finish, KeptTask, IInv, AgentTypeOK
<1> QED
    BY <1>1, <1>2, <1>3, <1>4, <1>5 DEF Work

LEMMA WorkKeepsTask ==
    ASSUME IInv, TaskKept, NEW t \in Turns, TurnStep(t) PROVE TaskKept'
<1>1. Work(t) /\ UNCHANGED stage
    BY DEF TurnStep, server
<1>2. /\ pc[t] \notin {"idle", "done"}
      /\ \A u \in Turns \ {t} : /\ pc'[u] = pc[u] /\ run'[u] = run[u]
                                /\ tasks'[u] = tasks[u] /\ answer'[u] = answer[u]
    BY <1>1, WorkIsOwn
<1>3. stage[t] = "none"
    BY <1>2 DEF TaskKept
<1>4. /\ pc'[t] = "session" => tasks'[t] # NoTask /\ tasks'[t].status = FinalStatus(run'[t].calls)
      /\ pc'[t] = "done" => answer'[t] \in {"error", "chat"} \/ KeptTask(t)'
    BY <1>1, WorkTellsTask
<1> QED
    BY <1>1, <1>2, <1>3, <1>4 DEF TaskKept, KeptTask

(* A turn that begins has neither a task nor an answer.                        *)
LEMMA BeginsKeepTask ==
    ASSUME IInv, TaskKept, NEW t \in Turns, UNCHANGED <<stage, tasks, answer>>, pc[t] = "idle",
           NEW p \in {"direct", "intent", "classify"}, pc' = [pc EXCEPT ![t] = p],
           \A u \in Turns \ {t} : run'[u] = run[u]
    PROVE  TaskKept'
<1>1. pc'[t] = p /\ \A u \in Turns \ {t} : pc'[u] = pc[u]
    BY DEF IInv, AgentTypeOK
<1>2. stage[t] = "none"
    BY DEF TaskKept
<1> QED
    BY <1>1, <1>2 DEF TaskKept, KeptTask

LEMMA ChatKeepsTask ==
    ASSUME IInv, TaskKept, NEW t \in Turns, NEW q, ChatWith(t, q) \/ Execute(t), UNCHANGED stage
    PROVE  TaskKept'
<1>1. /\ pc[t] = "idle" /\ UNCHANGED <<tasks, answer>>
      /\ \E p \in {"direct", "intent", "classify"} : pc' = [pc EXCEPT ![t] = p]
      /\ \A u \in Turns \ {t} : run'[u] = run[u]
    BY DEF ChatWith, Execute, At, Goto, Engine, Start, stores, IInv, AgentTypeOK
<1> QED
    BY <1>1, BeginsKeepTask

LEMMA ServeKeepsTask ==
    ASSUME IInv, MainTypeOK, TaskKept, ServeStep PROVE TaskKept'
<1>1. ASSUME NEW t \in Turns, Serve(t) PROVE TaskKept'
    BY <1>1, ChatKeepsTask DEF Serve, Chat
<1>2. ASSUME NEW t \in Turns, Gone(t) \/ HangUp(t) PROVE TaskKept'
    BY <1>2 DEF Gone, Cancel, HangUp, server, stores, TaskKept, KeptTask
<1>3. ASSUME NEW t \in Turns, Respond(t) PROVE TaskKept'
    <2>1. UNCHANGED <<pc, tasks, run, answer>> /\ pc[t] = "done" /\ stage[t] # "past"
        BY <1>3 DEF Respond, SendError, Reply, Meta, Delta, DoneEvent, ToSend, At, vars, TaskKept
    <2>2. \A u \in Turns \ {t} : stage'[u] = stage[u]
        BY <1>3 DEF Respond, SendError, Reply, Meta, Delta, DoneEvent, Send, MainTypeOK, ServerTypeOK
    <2>3. stage'[t] \in {"open", "done"} => answer[t] # "error"
        BY <1>3 DEF Respond, SendError, Reply, Meta, Delta, DoneEvent, Send, MainTypeOK, ServerTypeOK, TaskKept
    <2> QED
        BY <2>1, <2>2, <2>3 DEF TaskKept, KeptTask
<1>4. CASE Restart
    BY <1>4 DEF Restart, TaskKept, KeptTask, IInv, AgentTypeOK
<1> QED
    BY <1>1, <1>2, <1>3, <1>4 DEF ServeStep, ServerStep

LEMMA MainKeepsTask == IInv /\ MainTypeOK /\ TaskKept /\ [MainNext]_main => TaskKept'
<1> SUFFICES ASSUME IInv, MainTypeOK, TaskKept, [MainNext]_main PROVE TaskKept'
    OBVIOUS
<1>1. CASE UNCHANGED main
    BY <1>1 DEF main, vars, server, TaskKept, KeptTask
<1>2. CASE CliStep
    <2>1. ASSUME NEW t \in Turns, ReadLine(t) PROVE TaskKept'
        BY <1>2, <2>1, ChatKeepsTask DEF ReadLine, CliStep, server
    <2>2. CASE UNCHANGED vars
        BY <1>2, <2>2 DEF CliStep, vars, server, TaskKept, KeptTask
    <2> QED
        BY <1>2, <2>1, <2>2 DEF CliStep, RunChatREPL, Answered, handleCommand, NewSession, Reset,
                                SwitchTools, Quit
<1> QED
    BY <1>1, <1>2, WorkKeepsTask, ServeKeepsTask DEF MainNext

(* What GetTaskDetail says of a task is what its client was told, as long as   *)
(* the server is not restarted.                                                *)
THEOREM ToldIsFound == MainSpec => []ToldTaskIsFound
<1>1. MainInit => TaskKept
    BY DEF MainInit, Init, ServerInit, TaskKept
<1>2. IInv /\ MainTypeOK /\ TaskKept => ToldTaskIsFound
    BY DEF TaskKept, KeptTask, ToldTaskIsFound, GetTaskDetail
<1> QED
    BY <1>1, <1>2, MainInvariance, MainKeepsTask, PTL DEF MainSpec

-----------------------------------------------------------------------------
(* Calls that were answered.                                                   *)

LEMMA DoneWrites == ASSUME NEW t \in Turns, NEW k, Done(t, k)
                    PROVE  /\ writes \subseteq writes' /\ Wrote(writes', t, Head(run[t].todo), k)
                           /\ Wrote(writes', t, Head(run[t].todo), Blank)
<1> DEFINE w == [turn |-> t, by |-> pc[t], tool |-> Head(run[t].todo), code |-> k, link |-> links'[k]]
<1>1. writes' = writes \union {w}
    BY DEF Done
<1>2. w.turn = t /\ w.tool = Head(run[t].todo) /\ w.code = k
    OBVIOUS
<1> HIDE DEF w
<1>3. w \in writes'
    BY <1>1
<1> QED
    BY <1>1, <1>2, <1>3 DEF Wrote

(* A tool's call is recorded; as done if it was, under the code it was done,   *)
(* or, if its answer was not read, under none.                                 *)
LEMMA ToolRecords ==
    ASSUME IInv, NEW t \in Turns, Tool(t)
    PROVE  /\ writes \subseteq writes'
           /\ \E s, out, read : /\ Record(t, s, out, read)
                                /\ s = "ok" => \/ Head(run[t].todo) = "traffic"
                                               \/ Wrote(writes', t, Head(run[t].todo), out.shortUrl)
<1> DEFINE Recorded == \E s, out, read :
                           /\ Record(t, s, out, read)
                           /\ s = "ok" => \/ Head(run[t].todo) = "traffic"
                                          \/ Wrote(writes', t, Head(run[t].todo), out.shortUrl)
<1>0. NoContext.shortUrl = Blank
    BY DEF NoContext, Slots
<1>1. ASSUME NEW s \in {"error", "blocked", "unknown"}, NotDone(t, s)
      PROVE  writes' = writes /\ Recorded
    BY <1>1 DEF NotDone, services
<1>2. ASSUME NEW k, NEW out, out.shortUrl = k, Done(t, k), Heard(t, out)
      PROVE  writes \subseteq writes' /\ Recorded
    <2>1. /\ writes \subseteq writes' /\ Wrote(writes', t, Head(run[t].todo), out.shortUrl)
          /\ Wrote(writes', t, Head(run[t].todo), NoContext.shortUrl)
        BY <1>0, <1>2, DoneWrites
    <2>2. "error" # "ok"
        OBVIOUS
    <2> QED
        BY <1>2, <2>1, <2>2 DEF Heard
<1>3. \A k : [NoContext EXCEPT !.shortUrl = k].shortUrl = k
    BY DEF NoContext, Slots
<1>4. \A k, u, d : [NoContext EXCEPT !.shortUrl = k, !.longUrl = u, !.expireAt = d].shortUrl = k
    BY DEF NoContext, Slots
<1> HIDE DEF Recorded
<1>5. ASSUME NEW c, CreateShortLink(t, c) PROVE writes \subseteq writes' /\ Recorded
    <2>1. CASE NotDone(t, "error")
        BY <1>1, <2>1
    <2>2. CASE \E k \in Codes : Done(t, k) /\ Heard(t, [NoContext EXCEPT !.shortUrl = k])
        BY <1>2, <1>3, <2>2
    <2> QED
        BY <1>5, <2>1, <2>2 DEF CreateShortLink
<1>6. ASSUME NEW c, UpdateShortLink(t, c) PROVE writes \subseteq writes' /\ Recorded
    <2>1. CASE NotDone(t, "error")
        BY <1>1, <2>1
    <2>2. CASE \E k, u, d : /\ Done(t, k)
                           /\ Heard(t, [NoContext EXCEPT !.shortUrl = k, !.longUrl = u, !.expireAt = d])
        BY <1>2, <1>4, <2>2
    <2> QED
        BY <1>6, <2>1, <2>2 DEF UpdateShortLink
<1>7. ASSUME NEW c, QueryTrafficSummary(t, c), Head(run[t].todo) = "traffic"
      PROVE  writes \subseteq writes' /\ Recorded
    <2>1. CASE NotDone(t, "error")
        BY <1>1, <2>1
    <2>2. CASE Heard(t, NoContext) /\ UNCHANGED services
        BY <1>7, <2>2 DEF Recorded, Heard, services
    <2> QED
        BY <1>7, <2>1, <2>2 DEF QueryTrafficSummary
<1>8. writes \subseteq writes' /\ Recorded
    BY <1>1, <1>5, <1>6, <1>7, ToolCalls
<1> QED
    BY <1>8 DEF Recorded

LEMMA StaysDone ==
    ASSUME NEW ws, NEW vs, ws \subseteq vs, NEW t, NEW calls, DoneCalls(ws, t, calls)
    PROVE  DoneCalls(vs, t, calls)
BY DEF DoneCalls, Wrote

LEMMA CallAdded ==
    ASSUME NEW ws, NEW t, NEW calls \in Seq(Call), DoneCalls(ws, t, calls), NEW c \in Call,
           c.status = "ok" /\ c.tool \in {"create", "update"} => Wrote(ws, t, c.tool, c.out.shortUrl)
    PROVE  DoneCalls(ws, t, Append(calls, c))
<1>1. /\ DOMAIN Append(calls, c) = DOMAIN calls \union {Len(calls) + 1}
      /\ Append(calls, c)[Len(calls) + 1] = c
      /\ \A i \in DOMAIN calls : Append(calls, c)[i] = calls[i]
    OBVIOUS
<1> QED
    BY <1>1 DEF DoneCalls

LEMMA ToolKeepsCalls ==
    ASSUME IInv, NEW t \in Turns, Tool(t), DoneCalls(writes, t, run[t].calls)
    PROVE  writes \subseteq writes' /\ DoneCalls(writes', t, run'[t].calls)
<1>1. PICK s, out, read : /\ Record(t, s, out, read)
                          /\ s = "ok" => \/ Head(run[t].todo) = "traffic"
                                         \/ Wrote(writes', t, Head(run[t].todo), out.shortUrl)
    BY ToolRecords
<1>2. run[t] \in Run /\ run[t].todo # <<>> /\ IInv'
    BY ToolStep DEF Tool, IInv, AgentTypeOK
<1>3. run[t].calls \in Seq(Call) /\ Head(run[t].todo) \in Tools
    BY <1>2 DEF Run
<1> DEFINE c == [tool |-> Head(run[t].todo), status |-> s, out |-> out, read |-> read]
<1>4. run'[t].calls = Append(run[t].calls, c)
    BY <1>1, <1>2 DEF Record, IInv, AgentTypeOK, Run
<1>5. c.tool = Head(run[t].todo) /\ c.status = s /\ c.out = out
    OBVIOUS
<1>6. c \in Call
    <2>1. run'[t] \in Run
        BY <1>2 DEF IInv, AgentTypeOK, Tool
    <2>2. Append(run[t].calls, c) \in Seq(Call)
        BY <1>4, <2>1 DEF Run
    <2> HIDE DEF c
    <2>3. Append(run[t].calls, c)[Len(run[t].calls) + 1] \in Call
        BY <1>3, <2>2, ElementOfSeq, AppendProperties, LenProperties
    <2> QED
        BY <1>3, <2>3, AppendProperties
<1> HIDE DEF c
<1>7. writes \subseteq writes'
    BY ToolRecords
<1>8. DoneCalls(writes', t, run[t].calls)
    BY <1>7, StaysDone
<1>9. c.status = "ok" /\ c.tool \in {"create", "update"} => Wrote(writes', t, c.tool, c.out.shortUrl)
    BY <1>1, <1>5
<1>10. DoneCalls(writes', t, Append(run[t].calls, c))
    BY <1>3, <1>6, <1>8, <1>9, CallAdded
<1> QED
    BY <1>4, <1>7, <1>10

LEMMA WorkKeepsCalls ==
    ASSUME IInv, CallsAreDone, NEW t \in Turns, Work(t)
    PROVE  CallsAreDone'
<1>1. /\ pc[t] \notin {"idle", "done"}
      /\ \A u \in Turns \ {t} : pc'[u] = pc[u] /\ run'[u] = run[u]
    BY WorkIsOwn
<1>2. DoneCalls(writes, t, run[t].calls)
    BY <1>1 DEF CallsAreDone
<1>3. writes \subseteq writes' /\ DoneCalls(writes', t, run'[t].calls)
    <2>1. CASE Tool(t)
        BY <1>2, <2>1, ToolKeepsCalls
    <2>2. CASE ChatDirect(t) \/ SaveTask(t) \/ SaveSession(t)
        BY <1>2, <2>2 DEF ChatDirect, SaveTask, SaveSession, services
    <2>3. CASE Dag(t) \/ Rule(t)
        <3>1. writes' = writes
            BY <2>3 DEF Dag, Rule, IntentAgent, PlannerAgent, ToolAgent, VerifierAgent, Classify, RuleDone,
                        services
        <3>2. \/ run'[t].calls = run[t].calls
              \/ run'[t].calls = <<>>
              \/ run'[t].calls = <<[tool |-> "intent.llm", status |-> "error",
                                          out |-> NoContext, read |-> FALSE]>>
            <4>1. run[t] \in Run /\ run \in [Turns -> Run \union {<<>>}]
                BY <1>1 DEF IInv, AgentTypeOK
            <4>2. CASE FallbackOrErr(t)
                BY <4>1, <4>2 DEF FallbackOrErr, Run
            <4>3. CASE ~FallbackOrErr(t) /\ ~Classify(t)
                BY <2>3, <4>1, <4>3 DEF Dag, Rule, IntentAgent, PlannerAgent, ToolAgent, VerifierAgent,
                                        RuleDone, Run
            <4>4. CASE Classify(t)
                BY <4>1, <4>4 DEF Classify, Run
            <4> QED
                BY <4>2, <4>3, <4>4
        <3> QED
            BY <1>2, <3>1, <3>2 DEF DoneCalls
    <2> QED
        BY <2>1, <2>2, <2>3 DEF Work
<1> QED
    BY <1>1, <1>3, StaysDone DEF CallsAreDone

LEMMA BeginsKeepCalls ==
    ASSUME IInv, CallsAreDone, NEW t \in Turns, NEW q, ChatWith(t, q) \/ Execute(t)
    PROVE  CallsAreDone'
<1>1. writes' = writes /\ run'[t].calls = <<>>
    BY DEF ChatWith, Execute, Start, services, IInv, AgentTypeOK
<1>2. \A u \in Turns \ {t} : pc'[u] = pc[u] /\ run'[u] = run[u]
    BY DEF ChatWith, Execute, Start, Goto, IInv, AgentTypeOK
<1> QED
    BY <1>1, <1>2 DEF CallsAreDone, DoneCalls

LEMMA MainKeepsCalls == IInv /\ CallsAreDone /\ [MainNext]_main => CallsAreDone'
<1> SUFFICES ASSUME IInv, CallsAreDone, [MainNext]_main PROVE CallsAreDone'
    OBVIOUS
<1>1. CASE UNCHANGED main
    BY <1>1 DEF main, vars, CallsAreDone
<1>2. ASSUME NEW t \in Turns, TurnStep(t) PROVE CallsAreDone'
    BY <1>2, WorkKeepsCalls DEF TurnStep
<1>3. CASE CliStep
    <2>1. ASSUME NEW t \in Turns, ReadLine(t) PROVE CallsAreDone'
        BY <2>1, BeginsKeepCalls DEF ReadLine
    <2>2. CASE UNCHANGED vars
        BY <2>2 DEF vars, CallsAreDone
    <2> QED
        BY <1>3, <2>1, <2>2 DEF CliStep, RunChatREPL, Answered, handleCommand, NewSession, Reset,
                                SwitchTools, Quit
<1>4. CASE ServeStep
    <2>1. ASSUME NEW t \in Turns, Serve(t) PROVE CallsAreDone'
        BY <2>1, BeginsKeepCalls DEF Serve, Chat
    <2>2. ASSUME NEW t \in Turns, Gone(t) \/ HangUp(t) \/ Respond(t) PROVE CallsAreDone'
        BY <2>2 DEF Gone, Cancel, HangUp, Respond, SendError, Reply, Meta, Delta, DoneEvent, vars, services,
                    CallsAreDone
    <2>3. CASE Restart
        BY <2>3 DEF Restart, services, CallsAreDone, IInv, AgentTypeOK
    <2> QED
        BY <1>4, <2>1, <2>2, <2>3 DEF ServeStep, ServerStep
<1> QED
    BY <1>1, <1>2, <1>3, <1>4 DEF MainNext

(* The first call of a turn that there is something to tell of is one of them. *)
LEMMA FirstIsTold ==
    ASSUME NEW calls \in Seq(Call), \E i \in DOMAIN calls : Tells(calls[i])
    PROVE  FirstTold(calls) \in DOMAIN calls /\ Tells(calls[FirstTold(calls)])
<1> DEFINE told == {i \in DOMAIN calls : Tells(calls[i])}
<1>1. told \in SUBSET Nat /\ told # {} /\ DOMAIN calls = 1 .. Len(calls) /\ Len(calls) \in Nat
    BY LenProperties
<1>2. PICK i \in told : \A j \in told : i <= j
    BY <1>1, Smallest
<1>3. \A j \in 1 .. i - 1 : j \in DOMAIN calls /\ ~(i <= j)
    BY <1>1, <1>2
<1>4. \A j \in 1 .. i - 1 : ~Tells(calls[j])
    BY <1>2, <1>3
<1>5. \E k \in DOMAIN calls : Tells(calls[k]) /\ \A j \in 1 .. k - 1 : ~Tells(calls[j])
    BY <1>2, <1>4
<1> QED
    BY <1>5 DEF FirstTold

(* What a reply says was created, updated or executed was, and under the code  *)
(* that it names; it names none of an answer whose body was not read.          *)
THEOREM RepliesAreTrue == MainSpec => []ReplyIsTrue
<1>1. MainInit => CallsAreDone
    BY DEF MainInit, Init, CallsAreDone
<1>2. IInv /\ TaskKept /\ CallsAreDone => ReplyIsTrue
    <2> SUFFICES ASSUME IInv, TaskKept, CallsAreDone, NEW t \in Turns, stage[t] \in {"open", "done"},
                        NEW r, r = rewriteAgentReply(run[t].calls),
                        r.says \in {"create", "update", "executed"}
                 PROVE  Wrote(writes, t, IF r.says = "create" THEN "create" ELSE "update", r.code)
        BY DEF ReplyIsTrue
    <2>1. PICK calls \in Seq(Call) : calls = run[t].calls /\ DoneCalls(writes, t, calls)
        BY DEF TaskKept, CallsAreDone, IInv, AgentTypeOK, Run
    <2>2. PICK c : c = calls[FirstTold(calls)]
        OBVIOUS
    <2>3. /\ \A i \in DOMAIN calls : calls[i].status = "ok"
          /\ \E i \in DOMAIN calls : Tells(calls[i])
          /\ r = ReplyOf(Said(c), c.out.shortUrl)
        BY <2>1, <2>2 DEF rewriteAgentReply, ReplyOf
    <2>4. FirstTold(calls) \in DOMAIN calls /\ Tells(c)
        BY <2>2, <2>3, FirstIsTold
    <2>5. r.says = Said(c) /\ r.code = c.out.shortUrl
        BY <2>3 DEF ReplyOf
    <2>6. c.tool = IF r.says = "create" THEN "create" ELSE "update"
        <3>1. c.tool \in {"create", "update", "traffic"}
            BY <2>4 DEF Tells
        <3>2. CASE c.tool = "update"
            BY <2>5, <3>2 DEF Said
        <3>3. CASE c.tool \in {"create", "traffic"}
            BY <2>5, <3>3 DEF Said
        <3> QED
            BY <3>1, <3>2, <3>3
    <2>7. c.status = "ok" /\ c.tool \in {"create", "update"}
        BY <2>2, <2>3, <2>4, <2>6
    <2>8. Wrote(writes, t, c.tool, c.out.shortUrl)
        BY <2>1, <2>2, <2>4, <2>7 DEF DoneCalls
    <2> QED
        BY <2>5, <2>6, <2>8
<1>3. MainInit => TaskKept
    BY DEF MainInit, Init, ServerInit, TaskKept
<1> QED
    BY <1>1, <1>2, <1>3, MainInvariance, MainKeepsTask, MainKeepsCalls, PTL DEF MainSpec

-----------------------------------------------------------------------------
(* Sessions.                                                                   *)
LEMMA RestartApart == ASSUME IInv, SessionsOK, Restart PROVE SessionsOK'
<1>1. /\ \A x \in Sessions, s \in Slots : sessions'[x][s] = Blank
      /\ run' = run /\ \A t \in Turns : pc'[t] = (IF pc[t] = "idle" THEN "idle" ELSE "done")
    BY DEF Restart, NoContext
<1>2. \A x, s, v : Earlier(x, s, v) => Earlier(x, s, v)'
    BY <1>1 DEF Earlier, TurnsOf, FromTurn
<1>3. \A t \in Turns : \A s, v : Asked(t, s, v)' <=> Asked(t, s, v)
    BY <1>1 DEF Asked
<1> QED
    BY <1>1, <1>2, <1>3 DEF SessionsOK

LEMMA SameApart == ASSUME SessionsOK, UNCHANGED <<sessions, pc, run>> PROVE SessionsOK'
BY DEF SessionsOK, Earlier, Asked, TurnsOf, FromTurn

LEMMA MainKeepsApart == IInv /\ MainTypeOK /\ SessionsOK /\ [MainNext]_main => SessionsOK'
<1> SUFFICES ASSUME IInv, MainTypeOK, SessionsOK, [MainNext]_main PROVE SessionsOK'
    OBVIOUS
<1>1. CASE UNCHANGED main
    BY <1>1, SameApart DEF main, vars
<1>2. ASSUME NEW t \in Turns, TurnStep(t) PROVE SessionsOK'
    BY <1>2, WorkApart DEF TurnStep
<1>3. CASE CliStep
    <2>1. ASSUME NEW t \in Turns, ReadLine(t) PROVE SessionsOK'
        BY <2>1, LineType, ChatBegins DEF ReadLine, MainTypeOK
    <2>2. CASE UNCHANGED vars
        BY <2>2, SameApart DEF vars
    <2> QED
        BY <1>3, <2>1, <2>2 DEF CliStep, RunChatREPL, Answered, handleCommand, NewSession, Reset,
                                SwitchTools, Quit
<1>4. CASE ServeStep
    <2>1. ASSUME NEW t \in Turns, Serve(t) PROVE SessionsOK'
        BY <2>1, ChatBegins, ExecuteBegins, RequestsAssumption DEF Serve, Chat
    <2>2. ASSUME NEW t \in Turns, Gone(t) \/ HangUp(t) \/ Respond(t) PROVE SessionsOK'
        BY <2>2, SameApart DEF Gone, Cancel, HangUp, Respond, SendError, Reply, Meta, Delta, DoneEvent, vars,
                    stores
    <2> QED
        BY <1>4, <2>1, <2>2, RestartApart DEF ServeStep, ServerStep
<1> QED
    BY <1>1, <1>2, <1>3, <1>4 DEF MainNext

(* The sessions of the command line and the server stay apart, and a restart   *)
(* mixes none of them.                                                         *)
THEOREM MainApart == MainSpec => []SessionsApart
<1>1. MainInit => SessionsOK
    BY NothingRemembered DEF MainInit
<1> QED
    BY <1>1, MainInvariance, MainKeepsApart, ApartOfOK, PTL DEF MainSpec

-----------------------------------------------------------------------------
(* The conversation that is sent along.                                        *)
Role(i) == IF i % 2 = 1 THEN "user" ELSE "assistant"

LEMMA RoundsType == CliTypeOK => Rounds \in Nat \ {0}
BY CliAssumption DEF CliTypeOK, Option, Rounds

Spoken(talked, k, i) == [role |-> Role(i), turn |-> talked[k + (i + 1) \div 2]]
Two(t) == <<[role |-> "user", turn |-> t], [role |-> "assistant", turn |-> t]>>

LEMMA HalfIn == ASSUME NEW n \in Nat, NEW i \in 1 .. 2 * n PROVE (i + 1) \div 2 \in 1 .. n
OBVIOUS
LEMMA HalfNext ==
    ASSUME NEW i \in Nat PROVE (i + 3) \div 2 = (i + 1) \div 2 + 1 /\ Role(i + 2) = Role(i)
<1>1. (i + 3) \div 2 = (i + 1) \div 2 + 1 /\ (i + 2) % 2 = i % 2
    OBVIOUS
<1> QED
    BY <1>1 DEF Role
LEMMA HalfUser ==
    ASSUME NEW n \in Nat PROVE (2 * n + 1 + 1) \div 2 = n + 1 /\ Role(2 * n + 1) = "user"
<1>1. (2 * n + 1 + 1) \div 2 = n + 1 /\ (2 * n + 1) % 2 = 1
    OBVIOUS
<1> QED
    BY <1>1 DEF Role
LEMMA HalfAssistant ==
    ASSUME NEW n \in Nat PROVE (2 * n + 2 + 1) \div 2 = n + 1 /\ Role(2 * n + 2) = "assistant"
<1>1. (2 * n + 2 + 1) \div 2 = n + 1 /\ (2 * n + 2) % 2 = 0
    OBVIOUS
<1> QED
    BY <1>1 DEF Role

LEMMA TwoMore ==
    ASSUME NEW S, NEW old \in Seq(S), NEW two \in Seq(S), Len(two) = 2
    PROVE  /\ old \o two \in Seq(S) /\ Len(old \o two) = Len(old) + 2
           /\ \A i \in 1 .. Len(old) : (old \o two)[i] = old[i]
           /\ (old \o two)[Len(old) + 1] = two[1] /\ (old \o two)[Len(old) + 2] = two[2]
<1>1. /\ old \o two \in Seq(S) /\ Len(old \o two) = Len(old) + Len(two)
      /\ \A i \in 1 .. Len(old) + Len(two) :
             (old \o two)[i] = IF i <= Len(old) THEN old[i] ELSE two[i - Len(old)]
    BY ConcatProperties, Zenon
<1>2. PICK m \in Nat : m = Len(old)
    BY LenProperties
<1>3. m + 1 \in 1 .. m + 2 /\ m + 2 \in 1 .. m + 2 /\ ~(m + 1 <= m) /\ ~(m + 2 <= m)
      /\ (m + 1) - m = 1 /\ (m + 2) - m = 2
    OBVIOUS
<1>4. \A i \in 1 .. m : i \in 1 .. m + 2 /\ i <= m
    OBVIOUS
<1> QED
    BY <1>1, <1>2, <1>3, <1>4

(* A round is put after the last n rounds of a talk.                           *)
LEMMA RoundAdded ==
    ASSUME NEW talked \in Seq(Turns), NEW t \in Turns, NEW n \in 0 .. Len(talked)
    PROVE  LET N == Len(talked)
               old == [i \in 1 .. 2 * n |-> Spoken(talked, N - n, i)]
           IN
           /\ Len(old \o Two(t)) = 2 * n + 2
           /\ old \o Two(t) \in Seq(Message)
           /\ \A i \in 1 .. 2 * n + 2 : (old \o Two(t))[i] = Spoken(Append(talked, t), N - n, i)
<1> DEFINE N == Len(talked)
           old == [i \in 1 .. 2 * n |-> Spoken(talked, N - n, i)]
<1>0. N \in Nat /\ n \in Nat /\ n <= N
    BY LenProperties
<1>1. PICK longer : longer = Append(talked, t)
    OBVIOUS
<1>2. longer[N + 1] = t /\ \A j \in 1 .. N : longer[j] = talked[j] /\ talked[j] \in Turns
    BY <1>1
<1>3. ASSUME NEW i \in 1 .. 2 * n PROVE N - n + (i + 1) \div 2 \in 1 .. N
    <2>1. (i + 1) \div 2 \in 1 .. n
        BY HalfIn
    <2> QED
        BY <2>1
<1>4. ASSUME NEW i \in 1 .. 2 * n PROVE old[i] = Spoken(talked, N - n, i) /\ old[i] \in Message
    <2>1. old[i] = Spoken(talked, N - n, i)
        OBVIOUS
    <2>2. talked[N - n + (i + 1) \div 2] \in Turns
        BY <1>2, <1>3
    <2> QED
        BY <2>1, <2>2 DEF Spoken, Role, Message
<1>5. PICK m \in Nat : m = 2 * n
    OBVIOUS
<1>6. old \in [1 .. m -> Message]
    BY <1>4, <1>5
<1>7. old \in Seq(Message) /\ Len(old) = m
    BY <1>5, <1>6, FunctionIsSeq, LenProperties
<1>8. /\ Two(t) \in Seq(Message) /\ Len(Two(t)) = 2
      /\ Two(t)[1] = [role |-> "user", turn |-> t] /\ Two(t)[2] = [role |-> "assistant", turn |-> t]
    BY DEF Two, Message
<1>9. /\ old \o Two(t) \in Seq(Message) /\ Len(old \o Two(t)) = m + 2
      /\ \A i \in 1 .. m : (old \o Two(t))[i] = old[i]
      /\ (old \o Two(t))[m + 1] = Two(t)[1] /\ (old \o Two(t))[m + 2] = Two(t)[2]
    <2> HIDE DEF old
    <2>1. PICK two \in Seq(Message) : two = Two(t) /\ Len(two) = 2
        BY <1>8
    <2>2. /\ old \o two \in Seq(Message) /\ Len(old \o two) = Len(old) + 2
          /\ \A i \in 1 .. Len(old) : (old \o two)[i] = old[i]
          /\ (old \o two)[Len(old) + 1] = two[1] /\ (old \o two)[Len(old) + 2] = two[2]
        BY <1>7, <2>1, TwoMore
    <2> QED
        BY <1>7, <2>1, <2>2, Zenon
<1>10. ASSUME NEW i \in 1 .. m PROVE (old \o Two(t))[i] = Spoken(longer, N - n, i)
    <2>1. (old \o Two(t))[i] = old[i]
        BY <1>9
    <2>2. old[i] = Spoken(talked, N - n, i) /\ N - n + (i + 1) \div 2 \in 1 .. N
        BY <1>3, <1>4, <1>5
    <2> QED
        BY <1>2, <2>1, <2>2 DEF Spoken
<1>11. (old \o Two(t))[m + 1] = Spoken(longer, N - n, m + 1)
    <2>1. (old \o Two(t))[m + 1] = Two(t)[1]
        BY <1>9
    <2>2. (m + 1 + 1) \div 2 = n + 1 /\ Role(m + 1) = "user"
        BY <1>5, HalfUser
    <2>3. N - n + (m + 1 + 1) \div 2 = N + 1
        BY <2>2
    <2> QED
        BY <1>2, <1>8, <2>1, <2>2, <2>3 DEF Spoken
<1>12. (old \o Two(t))[m + 2] = Spoken(longer, N - n, m + 2)
    <2>1. (old \o Two(t))[m + 2] = Two(t)[2]
        BY <1>9
    <2>2. (m + 2 + 1) \div 2 = n + 1 /\ Role(m + 2) = "assistant"
        BY <1>5, HalfAssistant
    <2>3. N - n + (m + 2 + 1) \div 2 = N + 1
        BY <2>2
    <2> QED
        BY <1>2, <1>8, <2>1, <2>2, <2>3 DEF Spoken
<1>13. ASSUME NEW i \in 1 .. 2 * n + 2 PROVE (old \o Two(t))[i] = Spoken(longer, N - n, i)
    <2>1. i \in 1 .. m \/ i = m + 1 \/ i = m + 2
        BY <1>5
    <2> QED
        BY <1>10, <1>11, <1>12, <2>1
<1> QED
    BY <1>1, <1>5, <1>9, <1>13

(* The last rounds of a talk, as trimHistory leaves them.                      *)
LastRounds(talked, rounds) ==
    LET n == IF Len(talked) < rounds THEN Len(talked) ELSE rounds
    IN  [i \in 1 .. 2 * n |-> Spoken(talked, Len(talked) - n, i)]

LEMMA RoundTrimmed ==
    ASSUME CliTypeOK, NEW talked \in Seq(Turns), NEW t \in Turns
    PROVE  trimHistory(LastRounds(talked, Rounds) \o Two(t)) = LastRounds(Append(talked, t), Rounds)
<1>1. Rounds \in Nat \ {0}
    BY RoundsType
<1>2. PICK N \in Nat : N = Len(talked)
    BY LenProperties
<1>3. PICK n \in Nat : n <= N /\ n = IF N < Rounds THEN N ELSE Rounds
    BY <1>1, <1>2
<1>4. PICK old : old = LastRounds(talked, Rounds)
    OBVIOUS
<1>5. PICK h : h = old \o Two(t)
    OBVIOUS
<1>6. PICK longer : longer = Append(talked, t)
    OBVIOUS
<1>7. Len(longer) = N + 1
    BY <1>2, <1>6
<1>8. old = [i \in 1 .. 2 * n |-> Spoken(talked, N - n, i)]
    BY <1>2, <1>3, <1>4 DEF LastRounds
<1>9. Len(h) = 2 * n + 2 /\ h \in Seq(Message) /\ \A i \in 1 .. 2 * n + 2 : h[i] = Spoken(longer, N - n, i)
    <2>1. n \in 0 .. Len(talked)
        BY <1>2, <1>3
    <2>2. LET o == [i \in 1 .. 2 * n |-> Spoken(talked, Len(talked) - n, i)] IN
          /\ Len(o \o Two(t)) = 2 * n + 2 /\ o \o Two(t) \in Seq(Message)
          /\ \A i \in 1 .. 2 * n + 2 : (o \o Two(t))[i] = Spoken(Append(talked, t), Len(talked) - n, i)
        BY <2>1, RoundAdded, Zenon
    <2> QED
        BY <1>2, <1>5, <1>6, <1>8, <2>2, Zenon
<1>10. CASE N < Rounds
    <2>1. trimHistory(h) = h /\ n = N
        BY <1>1, <1>3, <1>9, <1>10 DEF trimHistory
    <2>2. h = [i \in 1 .. 2 * (N + 1) |-> Spoken(longer, 0, i)]
        BY <1>9, <2>1
    <2>3. LastRounds(longer, Rounds) = [i \in 1 .. 2 * (N + 1) |-> Spoken(longer, 0, i)]
        BY <1>1, <1>7, <1>10 DEF LastRounds
    <2> QED
        BY <1>4, <1>5, <1>6, <2>1, <2>2, <2>3
<1>11. CASE ~(N < Rounds)
    <2>1. trimHistory(h) = SubSeq(h, 3, 2 * Rounds + 2) /\ n = Rounds
        BY <1>1, <1>3, <1>9, <1>11 DEF trimHistory
    <2>2. SubSeq(h, 3, 2 * Rounds + 2) = [i \in 1 .. 2 * Rounds |-> h[i + 2]]
        BY <1>1, <1>9, <2>1
    <2>3. ASSUME NEW i \in 1 .. 2 * Rounds PROVE h[i + 2] = Spoken(longer, N + 1 - Rounds, i)
        <3>1. h[i + 2] = Spoken(longer, N - Rounds, i + 2)
            BY <1>1, <1>9, <2>1
        <3>2. i \in Nat
            BY <1>1
        <3>3. N - Rounds + (i + 2 + 1) \div 2 = N + 1 - Rounds + (i + 1) \div 2 /\ Role(i + 2) = Role(i)
            BY <1>1, <3>2, HalfNext
        <3> QED
            BY <3>1, <3>3 DEF Spoken
    <2>4. LastRounds(longer, Rounds) = [i \in 1 .. 2 * Rounds |-> Spoken(longer, N + 1 - Rounds, i)]
        BY <1>1, <1>7, <1>11 DEF LastRounds
    <2> QED
        BY <1>4, <1>5, <1>6, <2>1, <2>2, <2>3, <2>4
<1> QED
    BY <1>10, <1>11

LEMMA TalkIsLastRounds == HistoryIsTheTalk <=> history = LastRounds(talk, Rounds)
BY DEF HistoryIsTheTalk, LastRounds, Spoken, Role

LEMMA MainKeepsTalk == IInv /\ MainTypeOK /\ HistoryIsTheTalk /\ [MainNext]_main => HistoryIsTheTalk'
<1> SUFFICES ASSUME IInv, MainTypeOK, HistoryIsTheTalk, [MainNext]_main PROVE HistoryIsTheTalk'
    OBVIOUS
<1>1. CASE UNCHANGED <<history, talk, option>>
    BY <1>1 DEF HistoryIsTheTalk, Rounds
<1>2. ASSUME NEW t \in Turns, Answered(t) PROVE HistoryIsTheTalk'
    <2>1. CASE UNCHANGED <<history, talk>>
        BY <1>2, <1>1, <2>1 DEF Answered
    <2>2. CASE history' = trimHistory(history \o Two(t)) /\ talk' = Append(talk, t)
        <3>1. talk \in Seq(Turns) /\ CliTypeOK /\ Rounds' = Rounds
            BY <1>2 DEF MainTypeOK, CliTypeOK, Answered, Rounds
        <3>2. history' = LastRounds(talk', Rounds)
            BY <2>2, <3>1, TalkIsLastRounds, RoundTrimmed
        <3> QED
            BY <3>1, <3>2 DEF HistoryIsTheTalk, LastRounds, Spoken, Role
    <2> QED
        BY <1>2, <2>1, <2>2 DEF Answered, Two
<1>3. CASE NewSession \/ Reset
    <2>1. history' = <<>> /\ talk' = <<>> /\ Rounds' = Rounds /\ Rounds \in Nat \ {0}
        BY <1>3, RoundsType DEF NewSession, Reset, Rounds, MainTypeOK
    <2>2. Len(talk') = 0
        BY <2>1
    <2> QED
        BY <2>1, <2>2 DEF HistoryIsTheTalk
<1>4. ASSUME NEW t \in Turns, ReadLine(t) PROVE HistoryIsTheTalk'
    BY <1>1, <1>4 DEF ReadLine
<1>5. CASE (\E on \in BOOLEAN : SwitchTools(on)) \/ Quit
    BY <1>1, <1>5 DEF SwitchTools, Quit
<1> QED
    BY <1>1, <1>2, <1>3, <1>4, <1>5 DEF MainNext, main, cli, TurnStep, ServeStep, CliStep, RunChatREPL,
                                        handleCommand

(* What is sent along with a line is the end of the conversation, for any      *)
(* number of rounds that are kept (trimHistory).                               *)
THEOREM HistoryIsTalk == MainSpec => []HistoryIsTheTalk
<1>1. MainInit => HistoryIsTheTalk
    <2> SUFFICES ASSUME MainInit PROVE HistoryIsTheTalk
        OBVIOUS
    <2>1. history = <<>> /\ talk = <<>> /\ Len(talk) = 0
        BY DEF MainInit, CliInit
    <2>2. Rounds \in Nat \ {0}
        BY MainBegins, RoundsType DEF MainTypeOK
    <2> QED
        BY <2>1, <2>2 DEF HistoryIsTheTalk
<1> QED
    BY <1>1, MainInvariance, MainKeepsTalk, PTL DEF MainSpec
=============================================================================
