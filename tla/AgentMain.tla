------------------------------ MODULE AgentMain ------------------------------
(***************************************************************************)
(* The agent as agent.go starts it: a server, or with -cli a conversation.  *)
(***************************************************************************)
EXTENDS ChatCli, ChatServer

CONSTANT Modes   \* how it may be started

ASSUME ModesAssumption == Modes \subseteq {"cli", "server"}

VARIABLE mode

main == <<vars, cli, server, mode>>

MainInit ==
    /\ mode \in Modes
    /\ Init /\ ServerInit
    /\ CliInit /\ open = (mode = "cli")
    /\ mode = "server" => option = CHOOSE o \in Options : TRUE

(* A turn that is being served goes on by itself *)
TurnStep(t) == Work(t) /\ UNCHANGED <<cli, server, mode>>
CliStep == mode = "cli" /\ RunChatREPL /\ UNCHANGED <<server, mode>>
ServeStep == mode = "server" /\ ServerStep /\ UNCHANGED <<cli, mode>>

MainNext == (\E t \in Turns : TurnStep(t)) \/ CliStep \/ ServeStep

MainSpec == MainInit /\ [][MainNext]_main

(* The models of the DAG are called without a time limit: such a call ends    *)
(* with its context, if it is not answered.  Only a request that is answered  *)
(* in one reply has a context with a limit, the server's.                     *)
AwaitsModel(t) ==
    /\ alive[t]
    /\ pc[t] \in {"intent", "plan", "choose"} \/ (pc[t] = "dag" /\ run[t].todo = <<>>)
TimeLimit(t) == mode = "server" /\ how[t] = "plain" /\ Gone(t) /\ UNCHANGED <<cli, mode>>

(* Every other call of a turn has a limit of its own, and no goroutine waits  *)
(* for another; what is done is printed, or sent.                             *)
Prints(t) == mode = "cli" /\ Answered(t) /\ UNCHANGED <<server, mode>>
Sends(t)  == mode = "server" /\ Respond(t) /\ UNCHANGED <<cli, mode>>
LiveSpec == MainSpec /\ \A t \in Turns :
                /\ WF_main(~AwaitsModel(t) /\ TurnStep(t)) /\ WF_main(TimeLimit(t))
                /\ WF_main(Prints(t)) /\ WF_main(Sends(t))
=============================================================================
