------------------------------ MODULE TalkProofs ------------------------------
(* Proofs about a conversation with the agent: what its lines are about, what  *)
(* the texts mean, and what a stream sends of a reply.                         *)
EXTENDS AgentProofs, DataLemmas

-----------------------------------------------------------------------------
(* Follow-ups.                                                                 *)

LEMMA Largest ==
    ASSUME NEW n \in Nat, NEW T \in SUBSET (1 .. n), T # {}
    PROVE  \E i \in T : \A j \in T : j <= i
<1> DEFINE S == {m \in Nat : \E i \in T : m = n - i}
<1>1. S \in SUBSET Nat /\ \A i \in T : n - i \in S
  OBVIOUS
<1>2. PICK m \in S : \A k \in S : m <= k
  BY <1>1, Smallest
<1>3. PICK i \in T : m = n - i
  BY <1>2
<1>4. ASSUME NEW j \in T PROVE j <= i
  <2>1. n - i <= n - j
    BY <1>1, <1>2, <1>3
  <2> QED BY <2>1
<1> QED BY <1>4

(* A turn tells its session the code that its last call was answered.          *)
LEMMA LearnsCode ==
    ASSUME NEW t \in Turns, run[t] \in Run, CodeOf(t) # Blank
    PROVE  Learned(t).shortUrl = CodeOf(t)
<1> DEFINE calls == run[t].calls
           told == {i \in DOMAIN calls : calls[i].out.shortUrl # Blank}
           Latest(i) == calls[i].out.shortUrl # Blank
                        /\ \A j \in DOMAIN calls : j > i => calls[j].out.shortUrl = Blank
           c == CHOOSE i \in told : \A j \in told : j <= i
           d == CHOOSE i \in DOMAIN calls : Latest(i)
<1>1. calls \in Seq(Call) /\ Len(calls) \in Nat /\ DOMAIN calls = 1 .. Len(calls)
  BY LenProperties DEF Run
<1>2. told # {} /\ CodeOf(t) = calls[c].out.shortUrl
  BY DEF CodeOf
<1>3. \E i \in told : \A j \in told : j <= i
  BY <1>1, <1>2, Largest
<1>4. c \in told /\ \A j \in told : j <= c
  BY <1>3
<1>n. \A i \in DOMAIN calls : i \in Int
  BY <1>1
<1>5. Latest(c) /\ c \in DOMAIN calls
  <2> HIDE DEF c, calls
  <2>1. c \in DOMAIN calls /\ calls[c].out.shortUrl # Blank
    BY <1>4
  <2>2. ASSUME NEW j \in DOMAIN calls, j > c PROVE calls[j].out.shortUrl = Blank
    BY <1>4, <1>n, <2>1, <2>2
  <2> QED BY <2>1, <2>2
<1>6. Latest(d) /\ d \in DOMAIN calls
  BY <1>5
<1>7. d = c
  <2>1. d \in told
    BY <1>6
  <2>2. d <= c /\ ~(c > d)
    BY <1>4, <1>5, <1>6, <2>1
  <2>3. c \in Int /\ d \in Int
    <3> HIDE DEF c, d, calls, Latest
    <3> QED BY <1>n, <1>5, <1>6
  <2> HIDE DEF c, d
  <2> QED BY <2>2, <2>3
<1>8. Learned(t).shortUrl = calls[d].out.shortUrl
  <2>1. "shortUrl" \in Slots
    BY DEF Slots
  <2> QED BY <1>5, <2>1 DEF Learned
<1> QED BY <1>2, <1>7, <1>8

(* A turn that goes on or fails leaves the sessions alone; one that ends tells *)
(* its session its code.                                                       *)
LEMMA WorkSaves ==
    ASSUME IInv, NEW t \in Turns, Work(t), run[t].session \in Sessions,
           pc[t] = "direct" => run[t].calls = <<>>
    PROVE  /\ run'[t].session = run[t].session /\ run'[t].ctx = run[t].ctx
           /\ pc'[t] \notin {"idle", "direct"}
           /\ \/ UNCHANGED sessions /\ (pc'[t] = "done" => answer'[t] = "error")
              \/ pc'[t] = "done" /\ answer'[t] # "error" /\ Remembered(t)'
<1>0. /\ pc \in [Turns -> Steps] /\ sessions \in [Sessions -> Context]
      /\ answer \in [Turns -> {"none", "error", "chat", "succeeded", "partial_failed", "no_op"}]
      /\ pc[t] # "idle" => run[t] \in Run
  BY DEF IInv, AgentTypeOK
<1>1. CASE Dag(t) \/ Rule(t)
  <2>1. \/ pc'[t] \notin {"idle", "direct", "done"}
        \/ pc'[t] = "done" /\ answer'[t] = "error"
    BY <1>0, <1>1 DEF Dag, Rule, IntentAgent, PlannerAgent, ToolAgent, VerifierAgent, Classify, RuleDone,
                      FallbackOrErr, Goto, Finish
  <2> QED BY <1>1, <2>1, DagKeeps
<1>2. CASE Tool(t)
  <2>1. pc[t] \in {"dag", "rule"}
    BY <1>2 DEF Tool
  <2> QED BY <1>2, <2>1, ToolKeeps
<1>3. CASE ChatDirect(t)
  <2>1. /\ pc[t] = "direct" /\ UNCHANGED run /\ pc'[t] = "done"
        /\ answer'[t] # "error" \/ UNCHANGED sessions
    BY <1>0, <1>3 DEF ChatDirect, At, Finish
  <2>2. run'[t].calls = <<>> /\ DOMAIN <<>> = {}
    BY <2>1
  <2>3. Remembered(t)'
    BY <2>2 DEF Remembered, CodeOf
  <2> QED BY <2>1, <2>3
<1>4. CASE SaveTask(t)
  <2>1. UNCHANGED <<sessions, run>> /\ pc'[t] = "session"
    BY <1>0, <1>4, RequestsAssumption DEF SaveTask, Goto, At
  <2> QED BY <2>1
<1>5. CASE SaveSession(t)
  <2>1. /\ pc[t] = "session" /\ pc'[t] = "done" /\ UNCHANGED run
        /\ sessions' = [sessions EXCEPT ![run[t].session] = Learned(t)]
        /\ answer'[t] # "error"
    BY <1>0, <1>5, FinalStatusType DEF SaveSession, At, Finish
  <2>2. sessions'[run[t].session] = Learned(t)
    BY <1>0, <2>1
  <2>3. CodeOf(t)' = CodeOf(t)
    BY <2>1 DEF CodeOf
  <2>4. Remembered(t)'
    BY <1>0, <2>1, <2>2, <2>3, LearnsCode DEF Remembered
  <2> QED BY <2>1, <2>4
<1> QED BY <1>1, <1>2, <1>3, <1>4, <1>5 DEF Work

LEMMA LastIn ==
    ASSUME NEW s \in Seq(Turns), s # <<>>
    PROVE  /\ Len(s) \in DOMAIN s /\ DOMAIN s = 1 .. Len(s)
           /\ Last(s) = s[Len(s)] /\ Last(s) \in Turns /\ Len(s) \in Nat
BY LenProperties DEF Last

LEMMA WorkTalks ==
    ASSUME IInv, MainTypeOK, TalkOK, NEW t \in Turns, TurnStep(t)
    PROVE  TalkOK'
<1>1. Work(t) /\ UNCHANGED <<cli, mode>> /\ UNCHANGED <<talk, talking>>
  BY DEF TurnStep, cli
<1>2. CASE mode = "server"
  BY <1>1, <1>2 DEF TalkOK
<1>3. CASE mode = "cli"
  <2>0. OneAtATime /\ LinksFollowed /\ talk \in Seq(Turns)
    BY <1>3 DEF TalkOK, MainTypeOK, CliTypeOK
  <2>1. /\ pc[t] \notin {"idle", "done"}
        /\ \A u \in Turns \ {t} : pc'[u] = pc[u] /\ run'[u] = run[u] /\ answer'[u] = answer[u]
    BY <1>1, WorkIsOwn
  <2>2. talking = t
    BY <2>0, <2>1 DEF OneAtATime
  <2>3. \A i \in DOMAIN talk : talk[i] \in Turns \ {t}
    BY <2>0, <2>2, ElementOfSeq DEF OneAtATime
  <2>4. /\ run'[t].session = run[t].session /\ run'[t].ctx = run[t].ctx
        /\ pc'[t] \notin {"idle", "direct"}
        /\ \/ UNCHANGED sessions /\ (pc'[t] = "done" => answer'[t] = "error")
           \/ pc'[t] = "done" /\ answer'[t] # "error" /\ Remembered(t)'
    BY <1>1, <2>0, <2>1, WorkSaves DEF OneAtATime
  <2>5. OneAtATime'
    BY <1>1, <2>0, <2>1, <2>2, <2>3, <2>4 DEF OneAtATime
  <2>6. \A i \in 1 .. Len(talk) - 1 : StaysWith(talk[i], talk[i + 1])'
    <3> SUFFICES ASSUME NEW i \in 1 .. Len(talk) - 1 PROVE StaysWith(talk[i], talk[i + 1])'
      OBVIOUS
    <3>1. i \in DOMAIN talk /\ i + 1 \in DOMAIN talk
      BY <2>0, LenProperties
    <3>2. run'[talk[i]] = run[talk[i]] /\ run'[talk[i + 1]] = run[talk[i + 1]]
      BY <2>1, <2>3, <3>1
    <3>3. StaysWith(talk[i], talk[i + 1])
      BY <2>0 DEF LinksFollowed
    <3> QED BY <1>1, <3>2, <3>3 DEF StaysWith, CodeOf
  <2>7. ASSUME talk # <<>> PROVE /\ StaysWith(Last(talk), talking)'
                                 /\ ~Saved(talking)' => Remembered(Last(talk))'
    <3>1. Last(talk) \in Turns \ {t}
      BY <2>0, <2>3, <2>7, LastIn
    <3>2. run'[Last(talk)] = run[Last(talk)]
      BY <2>1, <3>1
    <3>3. CodeOf(Last(talk))' = CodeOf(Last(talk))
      BY <1>1, <3>2 DEF CodeOf
    <3>4. StaysWith(Last(talk), t) /\ Remembered(Last(talk)) /\ t # NoTurn
      BY <2>0, <2>1, <2>2, <2>7, CliAssumption DEF LinksFollowed, Saved
    <3>5. ~Saved(t)' => UNCHANGED sessions
      BY <2>4, <3>4 DEF Saved
    <3> QED BY <1>1, <2>2, <2>4, <3>2, <3>3, <3>4, <3>5 DEF StaysWith, Remembered
  <2>8. Saved(talking)' => Remembered(talking)'
    BY <1>1, <2>2, <2>4 DEF Saved
  <2> QED BY <1>1, <1>3, <2>5, <2>6, <2>7, <2>8 DEF TalkOK, LinksFollowed
<1> QED BY <1>2, <1>3 DEF MainTypeOK

(* A line that is read finds the last code in its session, and takes it.       *)
LEMMA ReadTalks ==
    ASSUME IInv, MainTypeOK, TalkOK, mode = "cli", NEW t \in Turns, ReadLine(t), UNCHANGED mode
    PROVE  TalkOK'
<1>0. OneAtATime /\ LinksFollowed /\ talk \in Seq(Turns)
  BY DEF TalkOK, MainTypeOK, CliTypeOK
<1>1. talking = NoTurn /\ talking' = t /\ UNCHANGED talk
  BY DEF ReadLine, AtPrompt
<1>2. PICK r \in RequestIds, x \in Lines[t] : ChatWith(t, CliRequest(r, x))
  BY DEF ReadLine
<1> DEFINE q == CliRequest(r, x)
           y == SessionId(q)
           c == Merged(q, sessions[y])
<1>3. y \in Sessions
  BY LineType, SessionType DEF MainTypeOK
<1>4. /\ pc[t] = "idle" /\ UNCHANGED <<sessions, answer>>
      /\ \E p \in {"direct", "intent", "classify"} : pc' = [pc EXCEPT ![t] = p]
      /\ Start(t, q, y, sessions[y], c)
  BY <1>2 DEF ChatWith, At, Goto, Engine, stores
<1>5. run'[t].session = y /\ run'[t].ctx = c /\ run'[t].calls = <<>>
  <2> HIDE DEF q, y, c
  <2> QED BY <1>4 DEF Start, IInv, AgentTypeOK
<1>6. /\ pc'[t] \in {"direct", "intent", "classify"}
      /\ \A u \in Turns \ {t} : pc'[u] = pc[u] /\ run'[u] = run[u]
  BY <1>4 DEF Start, IInv, AgentTypeOK
<1>7. \A i \in DOMAIN talk : talk[i] \in Turns \ {t} /\ pc[talk[i]] = "done"
  BY <1>0, <1>4, ElementOfSeq DEF OneAtATime
<1> HIDE DEF q, y, c
<1>8. OneAtATime'
  BY <1>0, <1>1, <1>3, <1>4, <1>5, <1>6, <1>7, CliAssumption DEF OneAtATime
<1>9. \A i \in 1 .. Len(talk) - 1 : StaysWith(talk[i], talk[i + 1])'
  <2> SUFFICES ASSUME NEW i \in 1 .. Len(talk) - 1 PROVE StaysWith(talk[i], talk[i + 1])'
    OBVIOUS
  <2>1. i \in DOMAIN talk /\ i + 1 \in DOMAIN talk
    BY <1>0, LenProperties
  <2>2. run'[talk[i]] = run[talk[i]] /\ run'[talk[i + 1]] = run[talk[i + 1]]
    BY <1>6, <1>7, <2>1
  <2>3. StaysWith(talk[i], talk[i + 1])
    BY <1>0 DEF LinksFollowed
  <2> QED BY <1>1, <2>2, <2>3 DEF StaysWith, CodeOf
<1>10. ASSUME talk # <<>> PROVE StaysWith(Last(talk), t)' /\ Remembered(Last(talk))'
  <2>1. run'[Last(talk)] = run[Last(talk)]
    BY <1>0, <1>6, <1>7, <1>10, LastIn
  <2>2. CodeOf(Last(talk))' = CodeOf(Last(talk))
    BY <1>1, <2>1 DEF CodeOf
  <2>3. Remembered(Last(talk))
    BY <1>0, <1>1, <1>10 DEF LinksFollowed, Saved
  <2>4. sessions[y].shortUrl # Blank => c.shortUrl = sessions[y].shortUrl
    <3>1. "shortUrl" \in Slots
      BY DEF Slots
    <3> QED BY <3>1 DEF c, q, Merged, Fill, CliRequest, NoContext
  <2> QED BY <1>1, <1>4, <1>5, <2>1, <2>2, <2>3, <2>4 DEF StaysWith, Remembered
<1>11. ~Saved(t)'
  BY <1>6 DEF Saved
<1> QED BY <1>1, <1>8, <1>9, <1>10, <1>11 DEF TalkOK, LinksFollowed

(* A turn that was answered becomes the last of the conversation.              *)
LEMMA AnsweredTalks ==
    ASSUME MainTypeOK, TalkOK, mode = "cli", NEW t \in Turns, Answered(t), UNCHANGED mode
    PROVE  TalkOK'
<1>0. OneAtATime /\ LinksFollowed /\ talk \in Seq(Turns)
  BY DEF TalkOK, MainTypeOK, CliTypeOK
<1>1. talking = t /\ talking' = NoTurn /\ pc[t] = "done" /\ t # NoTurn /\ NoTurn \notin Turns
  BY CliAssumption DEF Answered, At
<1>2. UNCHANGED <<pc, run, sessions, answer>>
  BY DEF Answered, vars
<1>3. \A i \in DOMAIN talk : talk[i] \in Turns
  BY <1>0, ElementOfSeq
<1>4. \A u, v : StaysWith(u, v) => StaysWith(u, v)'
  BY <1>2 DEF StaysWith, CodeOf
<1>5. \A u : Remembered(u) => Remembered(u)'
  BY <1>2 DEF Remembered, CodeOf
<1>6. ~Saved(NoTurn)'
  BY DEF Saved
<1>7. CASE answer[t] = "error"
  <2>1. UNCHANGED talk
    BY <1>7 DEF Answered
  <2>2. OneAtATime'
    BY <1>0, <1>1, <1>2, <1>3, <2>1 DEF OneAtATime
  <2>3. ~Saved(talking)
    BY <1>1, <1>7 DEF Saved
  <2>4. LinksFollowed'
    BY <1>0, <1>1, <1>4, <1>5, <1>6, <2>1, <2>3 DEF LinksFollowed
  <2> QED BY <2>2, <2>4 DEF TalkOK
<1>8. CASE answer[t] # "error"
  <2>1. PICK said : said = talk' /\ said = Append(talk, t)
    BY <1>8 DEF Answered
  <2>2. PICK n \in Nat : n = Len(talk)
    BY <1>0, LenProperties
  <2>3. /\ said \in Seq(Turns) /\ Len(said) = n + 1 /\ DOMAIN said = 1 .. n + 1
        /\ DOMAIN talk = 1 .. n
        /\ \A i \in 1 .. n : said[i] = talk[i]
        /\ said[n + 1] = t /\ said # <<>>
    BY <1>0, <2>1, <2>2, AppendProperties, LenProperties
  <2>4. Last(said) = t
    BY <2>3, LastIn
  <2>5. OneAtATime'
    <3>1. \A i \in 1 .. n + 1 : pc[said[i]] = "done" /\ said[i] \in Turns
      <4> SUFFICES ASSUME NEW i \in 1 .. n + 1 PROVE pc[said[i]] = "done" /\ said[i] \in Turns
        OBVIOUS
      <4>1. CASE i \in 1 .. n
        BY <1>0, <1>3, <2>3, <4>1 DEF OneAtATime
      <4>2. CASE i = n + 1
        BY <1>1, <2>3, <4>2
      <4> QED BY <4>1, <4>2
    <3> QED BY <1>0, <1>1, <1>2, <2>1, <2>3, <3>1 DEF OneAtATime
  <2>6. \A i \in 1 .. n : StaysWith(said[i], said[i + 1])'
    <3> SUFFICES ASSUME NEW i \in 1 .. n PROVE StaysWith(said[i], said[i + 1])
      BY <1>4
    <3>1. CASE i < n
      <4>1. i \in 1 .. n - 1 /\ i + 1 \in 1 .. n
        BY <3>1
      <4>2. StaysWith(talk[i], talk[i + 1])
        BY <1>0, <2>2, <4>1 DEF LinksFollowed
      <4> QED BY <2>3, <4>1, <4>2
    <3>2. CASE i = n
      <4>1. talk # <<>> /\ Last(talk) = talk[n]
        BY <1>0, <2>2, <2>3, <3>2, LastIn
      <4>2. StaysWith(Last(talk), t)
        BY <1>0, <1>1, <4>1 DEF LinksFollowed
      <4> QED BY <2>3, <3>2, <4>1, <4>2
    <3> QED BY <3>1, <3>2
  <2>7. Remembered(t)'
    BY <1>0, <1>1, <1>5, <1>8 DEF LinksFollowed, Saved
  <2>8. \A i \in 1 .. Len(said) - 1 : StaysWith(said[i], said[i + 1])'
    BY <2>3, <2>6
  <2>9. LinksFollowed'
    BY <1>1, <1>6, <2>1, <2>4, <2>7, <2>8 DEF LinksFollowed
  <2> QED BY <2>5, <2>9 DEF TalkOK
<1> QED BY <1>7, <1>8

LEMMA SameTalk ==
    ASSUME TalkOK, UNCHANGED <<pc, run, sessions, answer, talking, talk, mode>>
    PROVE  TalkOK'
<1>1. \A u, v : StaysWith(u, v) => StaysWith(u, v)'
  BY DEF StaysWith, CodeOf
<1>2. \A u : (Remembered(u) => Remembered(u)') /\ (Saved(u)' <=> Saved(u))
  BY DEF Remembered, CodeOf, Saved
<1>3. OneAtATime => OneAtATime'
  BY DEF OneAtATime
<1>4. LinksFollowed => LinksFollowed'
  BY <1>1, <1>2 DEF LinksFollowed
<1> QED BY <1>3, <1>4 DEF TalkOK

LEMMA CommandTalks ==
    ASSUME MainTypeOK, TalkOK, mode = "cli", handleCommand, UNCHANGED mode
    PROVE  TalkOK'
<1>0. OneAtATime /\ LinksFollowed
  BY DEF TalkOK
<1>1. UNCHANGED <<pc, run, sessions, answer, talking>>
  BY DEF handleCommand, NewSession, Reset, SwitchTools, Quit, vars
<1>2. talk' = talk \/ talk' = <<>>
  BY DEF handleCommand, NewSession, Reset, SwitchTools, Quit
<1>3. CASE talk' = talk
  BY <1>1, <1>3, SameTalk
<1>4. CASE talk' = <<>>
  <2>1. DOMAIN talk' = {} /\ Len(talk') = 0
    BY <1>4
  <2>2. \A u : Remembered(u) => Remembered(u)'
    BY <1>1 DEF Remembered, CodeOf
  <2> QED BY <1>0, <1>1, <1>4, <2>1, <2>2 DEF TalkOK, OneAtATime, LinksFollowed, Saved
<1> QED BY <1>2, <1>3, <1>4

LEMMA MainTalks == IInv /\ MainTypeOK /\ TalkOK /\ [MainNext]_main => TalkOK'
<1> SUFFICES ASSUME IInv, MainTypeOK, TalkOK, [MainNext]_main PROVE TalkOK'
  OBVIOUS
<1>1. CASE UNCHANGED main
  BY <1>1, SameTalk DEF main, vars, cli
<1>2. ASSUME NEW t \in Turns, TurnStep(t) PROVE TalkOK'
  BY <1>2, WorkTalks
<1>3. CASE CliStep
  BY <1>3, ReadTalks, AnsweredTalks, CommandTalks DEF CliStep, RunChatREPL
<1>4. CASE ServeStep
  BY <1>4 DEF ServeStep, cli, TalkOK
<1> QED BY <1>1, <1>2, <1>3, <1>4 DEF MainNext

LEMMA TalkBegins == MainInit => TalkOK
<1> SUFFICES ASSUME MainInit PROVE TalkOK
  OBVIOUS
<1>1. talk = <<>> /\ talking = NoTurn /\ DOMAIN talk = {} /\ Len(talk) = 0
  BY DEF MainInit, CliInit
<1>2. \A t \in Turns : pc[t] = "idle"
  BY DEF MainInit, Init
<1> QED BY <1>1, <1>2 DEF TalkOK, OneAtATime, LinksFollowed, Saved

(* A line is about the link of the line before it, whatever is typed and       *)
(* whatever the model and the services answer, clear or switch in between.     *)
THEOREM FollowUps == MainSpec => []FollowUpStaysWithLink
<1>1. MainTypeOK /\ TalkOK => FollowUpStaysWithLink
  <2> SUFFICES ASSUME MainTypeOK, TalkOK, NEW t \in Turns, NEW u \in Turns, Follows(u, t)
               PROVE  StaysWith(t, u)
    BY DEF FollowUpStaysWithLink, StaysWith
  <2>1. CASE mode = "server"
    <3>1. talk = <<>> /\ Len(talk) = 0
      BY <2>1 DEF TalkOK
    <3> QED BY <3>1 DEF Follows
  <2>2. CASE mode = "cli"
    BY <2>2, CliAssumption DEF TalkOK, LinksFollowed, Follows
  <2> QED BY <2>1, <2>2 DEF MainTypeOK
<1> QED
  BY TalkBegins, MainTalks, MainInvariance, <1>1, PTL DEF MainSpec

-----------------------------------------------------------------------------
(* What a stream sends of a reply.                                             *)

LEMMA Ceiling ==
    ASSUME NEW n \in Nat, NEW S \in Nat \ {0}, NEW m, m = (n + S - 1) \div S
    PROVE  m \in Nat /\ n <= m * S /\ \A k \in Nat : k < m => k * S < n
<1>1. m \in Nat /\ n + S - 1 = S * m + ((n + S - 1) % S) /\ (n + S - 1) % S \in 0 .. S - 1
  OBVIOUS
<1>2. n <= m * S
  BY <1>1
<1>3. ASSUME NEW k \in Nat, k < m PROVE k * S < n
  <2>1. PICK d \in Nat : m = k + 1 + d
    <3>1. m - k - 1 \in Nat /\ m = k + 1 + (m - k - 1)
      BY <1>1, <1>3
    <3> QED BY <3>1
  <2>2. m * S = k * S + S + d * S /\ d * S \in Nat /\ k * S \in Nat /\ m * S \in Nat
    BY <1>1, <2>1
  <2> QED BY <1>1, <2>2
<1> QED BY <1>1, <1>2, <1>3

(* Parts of a sequence that meet make the part from the first to the second.   *)
LEMMA PartsMeet ==
    ASSUME NEW A, NEW s \in Seq(A), NEW a \in 0 .. Len(s), NEW b \in a .. Len(s)
    PROVE  SubSeq(s, 1, a) \o SubSeq(s, a + 1, b) = SubSeq(s, 1, b)
<1>1. PICK n \in Nat : n = Len(s)
  BY LenProperties
<1>2. \A i \in 1 .. n : s[i] \in A
  BY <1>1, ElementOfSeq
<1>3. PICK p : p = SubSeq(s, 1, a)
  OBVIOUS
<1>4. PICK q : q = SubSeq(s, a + 1, b)
  OBVIOUS
<1>5. PICK r : r = SubSeq(s, 1, b)
  OBVIOUS
<1>6. p \in Seq(A) /\ Len(p) = a /\ \A i \in 1 .. a : p[i] = s[i]
  BY <1>1, <1>2, <1>3, SubSeqProperties
<1>7. q \in Seq(A) /\ Len(q) = b - a /\ \A i \in 1 .. b - a : q[i] = s[a + i]
  BY <1>1, <1>2, <1>4, SubSeqProperties
<1>8. r \in Seq(A) /\ Len(r) = b /\ \A i \in 1 .. b : r[i] = s[i]
  BY <1>1, <1>2, <1>5, SubSeqProperties
<1>9. /\ p \o q \in Seq(A) /\ Len(p \o q) = b
      /\ \A i \in 1 .. b : (p \o q)[i] = IF i <= a THEN p[i] ELSE q[i - a]
  <2>1. /\ p \o q \in Seq(A) /\ Len(p \o q) = Len(p) + Len(q)
        /\ \A i \in 1 .. Len(p) + Len(q) : (p \o q)[i] = IF i <= Len(p) THEN p[i] ELSE q[i - Len(p)]
    BY <1>6, <1>7, ConcatProperties
  <2>2. Len(p) + Len(q) = b
    BY <1>1, <1>6, <1>7
  <2> QED BY <1>6, <2>1, <2>2
<1>10. \A i \in 1 .. b : (p \o q)[i] = r[i]
  BY <1>1, <1>6, <1>7, <1>8, <1>9
<1>11. p \o q = r
  BY <1>8, <1>9, <1>10, SeqEqual
<1> QED BY <1>3, <1>4, <1>5, <1>11

LEMMA Pieces ==
    ASSUME NEW r \in Seq(Nat), NEW m, m = (Len(r) + Size - 1) \div Size
    PROVE  /\ splitByRune(r) \in Seq(Seq(Nat)) /\ Len(splitByRune(r)) = m /\ m \in Nat
           /\ \A i \in 1 .. m : splitByRune(r)[i] =
                  SubSeq(r, (i - 1) * Size + 1, IF i * Size > Len(r) THEN Len(r) ELSE i * Size)
           /\ Len(r) <= m * Size /\ \A k \in Nat : k < m => k * Size < Len(r)
<1>1. m \in Nat /\ Len(r) <= m * Size /\ \A k \in Nat : k < m => k * Size < Len(r)
  BY Ceiling, ServerAssumption, LenProperties
<1>2. splitByRune(r) = [i \in 1 .. m |->
          SubSeq(r, (i - 1) * Size + 1, IF i * Size > Len(r) THEN Len(r) ELSE i * Size)]
  BY DEF splitByRune
<1>3. DOMAIN splitByRune(r) = 1 .. m /\ splitByRune(r) \in Seq(Seq(Nat))
  BY <1>2, SplitType
<1>4. Len(splitByRune(r)) = m
  BY <1>1, <1>3, LenProperties
<1> QED BY <1>1, <1>2, <1>3, <1>4

End(r, k) == IF k * Size > Len(r) THEN Len(r) ELSE k * Size

(* With the next piece what was sent reaches to the next multiple of Size.     *)
LEMMA PieceAdded ==
    ASSUME NEW r \in Seq(Nat), NEW k \in Nat, k < Len(splitByRune(r))
    PROVE  SubSeq(r, 1, End(r, k)) \o splitByRune(r)[k + 1] = SubSeq(r, 1, End(r, k + 1))
<1>1. PICK m : m = (Len(r) + Size - 1) \div Size
  OBVIOUS
<1>2. k < m /\ k + 1 \in 1 .. m /\ k * Size < Len(r)
  BY <1>1, Pieces
<1>3. PICK a \in Nat : a = k * Size
  BY ServerAssumption
<1>4. (k + 1) * Size = a + Size /\ Size \in Nat \ {0} /\ Len(r) \in Nat
  BY <1>3, ServerAssumption, LenProperties
<1>5. End(r, k) = a
  BY <1>2, <1>3 DEF End
<1>6. End(r, k + 1) \in a .. Len(r)
  BY <1>2, <1>3, <1>4 DEF End
<1>7. splitByRune(r)[k + 1] = SubSeq(r, a + 1, End(r, k + 1))
  <2>1. PICK i \in 1 .. m : i = k + 1 /\ i - 1 = k
    BY <1>2
  <2>2. splitByRune(r)[i] = SubSeq(r, (i - 1) * Size + 1, End(r, i))
    BY <1>1, Pieces DEF End
  <2> QED BY <1>3, <2>1, <2>2
<1>8. a \in 0 .. Len(r)
  BY <1>2, <1>3, <1>4
<1> QED BY <1>5, <1>6, <1>7, <1>8, PartsMeet

(* The pieces of a sequence after the first k.                                 *)
Rest(parts, k) == [i \in 1 .. Len(parts) - k |-> parts[k + i]]

LEMMA RestOf ==
    ASSUME NEW A, NEW parts \in Seq(A), NEW k \in 0 .. Len(parts)
    PROVE  /\ Rest(parts, k) = <<>> <=> k = Len(parts)
           /\ k < Len(parts) => /\ Head(Rest(parts, k)) = parts[k + 1]
                                /\ Tail(Rest(parts, k)) = Rest(parts, k + 1)
<1>1. PICK n \in Nat : n = Len(parts)
  BY LenProperties
<1>2. \A i \in 1 .. n : parts[i] \in A
  BY <1>1, ElementOfSeq
<1>3. PICK m \in Nat : m = n - k
  <2>1. n - k \in Nat
    BY <1>1
  <2> QED BY <2>1
<1>4. PICK rest : rest = Rest(parts, k)
  OBVIOUS
<1>5. rest \in [1 .. m -> A] /\ \A i \in 1 .. m : rest[i] = parts[k + i]
  BY <1>1, <1>2, <1>3, <1>4 DEF Rest
<1>6. rest \in Seq(A) /\ Len(rest) = m
  BY <1>5, FunctionIsSeq, LenProperties
<1>7. rest = <<>> <=> k = n
  BY <1>1, <1>3, <1>6, EmptySeq
<1>8. ASSUME k < n PROVE Head(rest) = parts[k + 1] /\ Tail(rest) = Rest(parts, k + 1)
  <2>1. rest # <<>> /\ 1 \in 1 .. m
    BY <1>1, <1>3, <1>7, <1>8
  <2>2. Head(rest) = rest[1]
    BY <1>6, <2>1
  <2>3. PICK tail : tail = Tail(rest)
    OBVIOUS
  <2>4. tail \in Seq(A) /\ Len(tail) = m - 1 /\ \A i \in 1 .. m - 1 : tail[i] = rest[i + 1]
    BY <1>6, <2>1, <2>3, HeadTailProperties
  <2>5. PICK more : more = Rest(parts, k + 1)
    OBVIOUS
  <2>6. /\ more \in [1 .. m - 1 -> A]
        /\ \A i \in 1 .. m - 1 : more[i] = parts[k + 1 + i]
    <3>1. Len(parts) - (k + 1) = m - 1 /\ \A i \in 1 .. m - 1 : k + 1 + i \in 1 .. n
      BY <1>1, <1>3
    <3> QED BY <1>2, <2>5, <3>1 DEF Rest
  <2>7. m - 1 \in Nat
    BY <1>1, <1>3, <1>8
  <2>8. more \in Seq(A) /\ Len(more) = m - 1
    BY <2>6, <2>7, FunctionIsSeq, LenProperties
  <2>9. ASSUME NEW i \in 1 .. m - 1 PROVE tail[i] = more[i]
    <3>1. i + 1 \in 1 .. m /\ k + (i + 1) = k + 1 + i
      BY <1>3
    <3>2. rest[i + 1] = parts[k + 1 + i]
      BY <1>5, <3>1
    <3> QED BY <2>4, <2>6, <3>2
  <2>10. tail = more
    BY <2>4, <2>8, <2>9, SeqEqual
  <2> QED BY <1>5, <2>1, <2>2, <2>3, <2>5, <2>10
<1> QED BY <1>1, <1>4, <1>7, <1>8

LEMMA WholeSeq == ASSUME NEW A, NEW s \in Seq(A) PROVE SubSeq(s, 1, Len(s)) = s
<1>1. PICK n \in Nat : n = Len(s)
  BY LenProperties
<1>2. \A i \in 1 .. n : s[i] \in A
  BY <1>1, ElementOfSeq
<1>3. SubSeq(s, 1, n) \in Seq(A) /\ Len(SubSeq(s, 1, n)) = n /\ \A i \in 1 .. n : SubSeq(s, 1, n)[i] = s[i]
  BY <1>1, <1>2, SubSeqProperties
<1> QED BY <1>1, <1>3, SeqEqual

LEMMA SentIs ==
    ASSUME NEW t, NEW k
    PROVE  Sent(t, k) <=> /\ left[t] = Rest(splitByRune(reply[t]), k)
                          /\ got[t] = SubSeq(reply[t], 1, End(reply[t], k))
BY DEF Sent, Rest, End

LEMMA NothingSent ==
    ASSUME NEW r \in Seq(Nat)
    PROVE  SubSeq(r, 1, End(r, 0)) = <<>> /\ Rest(splitByRune(r), 0) = splitByRune(r)
<1>1. End(r, 0) = 0
  BY ServerAssumption, LenProperties DEF End
<1>2. SubSeq(r, 1, 0) = <<>>
  BY SubSeqEmpty
<1>3. PICK parts \in Seq(Seq(Nat)) : parts = splitByRune(r)
  BY SplitType
<1>4. Rest(parts, 0) = parts
  <2>1. PICK n \in Nat : n = Len(parts)
    BY LenProperties
  <2>2. parts \in [1 .. n -> Seq(Nat)] /\ n - 0 = n
    BY <2>1, LenProperties
  <2>3. \A i \in 1 .. n : 0 + i = i
    OBVIOUS
  <2> QED BY <2>1, <2>2, <2>3 DEF Rest
<1> QED BY <1>1, <1>2, <1>3, <1>4

LEMMA EmptyReply ==
    ASSUME NEW r \in Seq(Nat), r = <<>>
    PROVE  splitByRune(r) = <<>> /\ Len(splitByRune(r)) = 0
<1>1. Len(r) = 0
  BY EmptySeq
<1>2. PICK m \in Nat : m = (Len(r) + Size - 1) \div Size
  BY Pieces
<1>3. Len(splitByRune(r)) = m /\ \A k \in Nat : k < m => k * Size < Len(r)
  BY <1>2, Pieces
<1>4. m = 0
  <2>1. 0 * Size = 0
    BY ServerAssumption
  <2> QED BY <1>1, <1>2, <1>3, <2>1
<1> QED BY <1>3, <1>4, SplitType, EmptySeq

LEMMA NotSent ==
    ASSUME ServerTypeOK, StreamOK, NEW t \in Turns, stage[t] = "none"
    PROVE  left[t] = <<>> /\ got[t] = <<>>
<1>1. reply[t] \in Seq(Nat) /\ reply[t] = <<>>
  BY DEF ServerTypeOK, StreamOK
<1>2. PICK k \in 0 .. Len(splitByRune(reply[t])) : Sent(t, k)
  BY DEF StreamOK
<1>3. k = 0
  <2>1. Len(splitByRune(reply[t])) = 0
    BY <1>1, EmptyReply
  <2> QED BY <1>2, <2>1
<1> QED BY <1>1, <1>2, <1>3, SentIs, NothingSent, EmptyReply

(* Most steps send nothing of a stream.                                        *)
LEMMA SameStreams ==
    ASSUME StreamOK, UNCHANGED <<reply, left, got>>,
           \A t \in Turns : /\ stage'[t] = "none" => stage[t] = "none"
                            /\ stage'[t] = "done" => left[t] = <<>>
    PROVE  StreamOK'
BY DEF StreamOK, Sent

LEMMA MetaStreams == ASSUME ServerTypeOK, StreamOK, NEW t \in Turns, Meta(t) PROVE StreamOK'
<1>1. stage[t] = "none" /\ UNCHANGED got
  BY DEF Meta, ToSend
<1>2. \A u \in Turns \ {t} : stage'[u] = stage[u] /\ reply'[u] = reply[u] /\ left'[u] = left[u]
  BY DEF Meta, Send, ServerTypeOK
<1>3. stage'[t] \in {"open", "cut"}
  BY DEF Meta, Send, ServerTypeOK
<1>4. \E k \in 0 .. Len(splitByRune(reply'[t])) : Sent(t, k)'
  <2>1. CASE alive[t]
    <3>1. PICK n \in Lengths :
             LET r == [i \in 1 .. n |-> i] IN
             reply' = [reply EXCEPT ![t] = r] /\ left' = [left EXCEPT ![t] = splitByRune(r)]
      BY <2>1 DEF Meta
    <3>2. PICK r : r = [i \in 1 .. n |-> i]
      OBVIOUS
    <3>3. r \in Seq(Nat)
      <4>1. n \in Nat /\ r \in [1 .. n -> Nat]
        BY <3>2, ServerAssumption
      <4> QED BY <4>1, FunctionIsSeq
    <3>4. reply'[t] = r /\ left'[t] = splitByRune(r)
      BY <3>1, <3>2 DEF ServerTypeOK
    <3>5. left'[t] = Rest(splitByRune(r), 0) /\ got'[t] = SubSeq(r, 1, End(r, 0))
      BY <1>1, <3>3, <3>4, NothingSent, NotSent
    <3>6. 0 \in 0 .. Len(splitByRune(r))
      BY <3>3, Pieces
    <3>7. Sent(t, 0)'
      BY <3>4, <3>5 DEF Sent, Rest, End
    <3> QED BY <3>4, <3>6, <3>7
  <2>2. CASE ~alive[t]
    <3>1. UNCHANGED <<reply, left>>
      BY <2>2 DEF Meta
    <3> QED BY <1>1, <3>1 DEF StreamOK, Sent
  <2> QED BY <2>1, <2>2
<1>5. \A u \in Turns \ {t} : \A k : Sent(u, k)' <=> Sent(u, k)
  BY <1>1, <1>2 DEF Sent
<1> QED BY <1>2, <1>3, <1>4, <1>5 DEF StreamOK

LEMMA DeltaStreams == ASSUME ServerTypeOK, StreamOK, NEW t \in Turns, Delta(t) PROVE StreamOK'
<1>1. stage[t] = "open" /\ UNCHANGED reply /\ left[t] # <<>>
  BY DEF Delta
<1>2. CASE ~alive[t]
  <2>1. UNCHANGED <<reply, left, got>> /\ \A u \in Turns : stage'[u] = stage[u] \/ stage'[u] = "cut"
    BY <1>2 DEF Delta, Send, ServerTypeOK
  <2> QED BY <2>1, SameStreams DEF StreamOK
<1>3. CASE alive[t]
  <2>1. PICK r \in Seq(Nat) : r = reply[t]
    BY DEF ServerTypeOK
  <2>2. PICK parts \in Seq(Seq(Nat)) : parts = splitByRune(r)
    BY SplitType
  <2>3. PICK k \in 0 .. Len(parts) : left[t] = Rest(parts, k) /\ got[t] = SubSeq(r, 1, End(r, k))
    BY <2>1, <2>2, SentIs DEF StreamOK
  <2>4. PICK n \in Nat : n = Len(parts)
    BY LenProperties
  <2>5. k < Len(parts) /\ k + 1 \in 0 .. Len(parts)
    <3>1. k # n
      BY <1>1, <2>3, <2>4, RestOf
    <3> QED BY <2>4, <3>1
  <2>6. left'[t] = Rest(parts, k + 1)
    <3>1. left'[t] = Tail(left[t])
      BY <1>3 DEF Delta, ServerTypeOK
    <3> QED BY <2>3, <2>5, <3>1, RestOf
  <2>7. got'[t] = SubSeq(r, 1, End(r, k + 1))
    <3>1. got'[t] = got[t] \o Head(left[t])
      BY <1>3 DEF Delta, ServerTypeOK
    <3>2. Head(left[t]) = parts[k + 1]
      BY <2>3, <2>5, RestOf
    <3>3. k \in Nat /\ k < Len(splitByRune(r))
      BY <2>2, <2>4, <2>5
    <3> QED BY <2>2, <2>3, <3>1, <3>2, <3>3, PieceAdded
  <2>8. Sent(t, k + 1)'
    BY <1>1, <2>1, <2>2, <2>6, <2>7 DEF Sent, Rest, End
  <2>9. \A u \in Turns \ {t} : \A j : Sent(u, j)' <=> Sent(u, j)
    BY <1>3 DEF Delta, ServerTypeOK, Sent
  <2>10. UNCHANGED stage
    BY <1>3 DEF Delta
  <2>11. \A u \in Turns \ {t} : left'[u] = left[u]
    BY <1>3 DEF Delta, ServerTypeOK
  <2> QED BY <1>1, <2>1, <2>2, <2>5, <2>8, <2>9, <2>10, <2>11 DEF StreamOK
<1> QED BY <1>2, <1>3

LEMMA MainStreams == MainTypeOK /\ TaskKept /\ StreamOK /\ [MainNext]_main => StreamOK'
<1> SUFFICES ASSUME MainTypeOK, TaskKept, StreamOK, [MainNext]_main PROVE StreamOK'
  OBVIOUS
<1>0. ServerTypeOK
  BY DEF MainTypeOK
<1>1. CASE UNCHANGED server
  BY <1>1, SameStreams DEF server, StreamOK
<1>2. ASSUME NEW t \in Turns, Serve(t) \/ Gone(t) \/ HangUp(t) PROVE StreamOK'
  BY <1>2, SameStreams DEF Serve, Gone, HangUp, server, StreamOK
<1>3. ASSUME NEW t \in Turns, SendError(t) \/ Reply(t) PROVE StreamOK'
  <2>1. /\ UNCHANGED <<reply, left, got>> /\ stage[t] = "none"
        /\ stage'[t] \in {"error", "done", "cut"}
        /\ \A u \in Turns \ {t} : stage'[u] = stage[u]
    BY <1>0, <1>3 DEF SendError, Reply, ToSend, Send, ServerTypeOK
  <2>2. left[t] = <<>>
    BY <1>0, <2>1, NotSent
  <2> QED BY <2>1, <2>2, SameStreams DEF StreamOK
<1>4. ASSUME NEW t \in Turns, DoneEvent(t) PROVE StreamOK'
  <2>1. /\ UNCHANGED <<reply, left, got>> /\ left[t] = <<>> /\ stage'[t] \in {"done", "cut"}
        /\ \A u \in Turns \ {t} : stage'[u] = stage[u]
    BY <1>0, <1>4 DEF DoneEvent, Send, ServerTypeOK
  <2> QED BY <2>1, SameStreams DEF StreamOK
<1>5. CASE Restart
  <2>1. /\ UNCHANGED <<reply, left, got>>
        /\ \A t \in Turns : /\ stage'[t] \in {"none", "past"}
                            /\ stage'[t] = "none" => pc[t] = "idle"
    BY <1>5 DEF Restart
  <2>2. \A t \in Turns : pc[t] = "idle" => stage[t] = "none"
    BY DEF TaskKept
  <2> QED BY <2>1, <2>2, SameStreams
<1>6. CASE ServeStep
  BY <1>0, <1>2, <1>3, <1>4, <1>5, <1>6, MetaStreams, DeltaStreams DEF ServeStep, ServerStep, Respond
<1> QED BY <1>1, <1>6 DEF MainNext, TurnStep, CliStep, main

LEMMA StreamBegins == MainInit => StreamOK
<1> SUFFICES ASSUME MainInit, NEW t \in Turns
             PROVE  /\ \E k \in 0 .. Len(splitByRune(reply[t])) : Sent(t, k)
                    /\ stage[t] = "none" => reply[t] = <<>>
                    /\ stage[t] = "done" => left[t] = <<>>
  BY DEF StreamOK
<1>1. stage[t] = "none" /\ reply[t] = <<>> /\ left[t] = <<>> /\ got[t] = <<>>
  BY DEF MainInit, ServerInit
<1>2. PICK r \in Seq(Nat) : r = <<>>
  BY EmptySeq
<1>3. Sent(t, 0)
  BY <1>1, <1>2, SentIs, NothingSent, EmptyReply
<1>4. 0 \in 0 .. Len(splitByRune(reply[t]))
  BY <1>1, <1>2, EmptyReply
<1> QED BY <1>1, <1>3, <1>4

LEMMA TaskBegins == MainInit => TaskKept
BY DEF MainInit, Init, ServerInit, TaskKept

(* Nothing of a reply is lost, repeated or reordered on the stream, and one    *)
(* that was ended is whole: for replies of any length and deltas of any size,  *)
(* and clients that leave and a server that is restarted at any time.          *)
THEOREM Streams == MainSpec => []StreamIsTheReply
<1>1. MainTypeOK /\ StreamOK => StreamIsTheReply
  <2> SUFFICES ASSUME MainTypeOK, StreamOK, NEW t \in Turns
               PROVE  /\ IsPrefix(got[t], reply[t])
                      /\ stage[t] = "done" => got[t] = reply[t]
    BY DEF StreamIsTheReply
  <2>1. PICK r \in Seq(Nat) : r = reply[t]
    BY DEF MainTypeOK, ServerTypeOK
  <2>2. PICK parts \in Seq(Seq(Nat)) : parts = splitByRune(r)
    BY SplitType
  <2>3. PICK k \in 0 .. Len(parts) : left[t] = Rest(parts, k) /\ got[t] = SubSeq(r, 1, End(r, k))
    BY <2>1, <2>2, SentIs DEF StreamOK
  <2>4. PICK n \in Nat : n = Len(r)
    BY LenProperties
  <2>5. PICK e \in 0 .. n : e = End(r, k)
    <3>1. k * Size \in Nat
      BY ServerAssumption
    <3> QED BY <2>4, <3>1 DEF End
  <2>6. \A i \in 1 .. n : r[i] \in Nat
    BY <2>4, ElementOfSeq
  <2>7. Len(got[t]) = e
    BY <2>3, <2>5, <2>6, SubSeqProperties
  <2>8. got[t] \in Seq(Nat) /\ SubSeq(got[t], 1, e) = got[t]
    <3>1. got[t] \in Seq(Nat)
      BY DEF MainTypeOK, ServerTypeOK
    <3> QED BY <2>7, <3>1, WholeSeq
  <2>9. IsPrefix(got[t], reply[t])
    BY <2>1, <2>3, <2>4, <2>5, <2>7, <2>8 DEF IsPrefix
  <2>10. ASSUME stage[t] = "done" PROVE got[t] = reply[t]
    <3>1. k = Len(parts)
      BY <2>2, <2>3, <2>10, RestOf DEF StreamOK
    <3>2. n <= k * Size
      BY <2>2, <2>4, <3>1, Pieces
    <3>3. k * Size \in Nat
      BY ServerAssumption
    <3>4. e = n
      BY <2>4, <2>5, <3>2, <3>3 DEF End
    <3> QED BY <2>1, <2>3, <2>4, <2>5, <3>4, WholeSeq
  <2> QED BY <2>9, <2>10
<1> QED
  BY StreamBegins, MainStreams, MainInvariance, <1>1, TaskBegins, MainKeepsTask, PTL DEF MainSpec

-----------------------------------------------------------------------------
(* What numbers mean.                                                          *)

LEMMA OneRune ==
    ASSUME NEW a, a.sort \in {"arabic", "han"}, a.value \in Nat
    PROVE  Query!parseChineseOrArabicInt(<<a>>) = a.value
<1> DEFINE w == <<a>>
<1>1. Len(w) = 1 /\ DOMAIN w = {1} /\ w[1] = a
  OBVIOUS
<1>2. CASE a.sort = "arabic"
  <2> DEFINE g == [i \in 0 .. 1 |-> IF i = 0 THEN 0 ELSE a.value]
             Upto(f) == f = [i \in 0 .. 1 |-> IF i = 0 THEN 0 ELSE 10 * f[i - 1] + w[i].value]
  <2>1. Upto(g)
    <3>1. \A i \in 0 .. 1 : g[i] = IF i = 0 THEN 0 ELSE 10 * g[i - 1] + w[i].value
      OBVIOUS
    <3> QED BY <3>1
  <2>2. PICK f : f = CHOOSE h : Upto(h)
    OBVIOUS
  <2>3. Upto(f)
    BY <2>1, <2>2
  <2>4. f[0] = 0 /\ f[1] = 10 * f[0] + w[1].value
    BY <2>3
  <2>5. Query!Decimal(w) = f[1]
    BY <1>1, <2>2 DEF Query!Decimal
  <2>6. Query!parseChineseOrArabicInt(w) = Query!Decimal(w)
    BY <1>1, <1>2 DEF Query!parseChineseOrArabicInt
  <2> QED BY <1>1, <2>4, <2>5, <2>6
<1>3. CASE a.sort = "han"
  <2>1. Query!parseChineseOrArabicInt(w) = Query!parseChineseNumber(w)
    BY <1>1, <1>3 DEF Query!parseChineseOrArabicInt
  <2>2. w[1] # Query!Ten
    BY <1>1, <1>3 DEF Query!Ten
  <2> DEFINE I == {i \in 1 .. Len(w) : w[i] = Query!Ten}
  <2>3. I = {}
    BY <1>1, <2>2
  <2>4. Query!parseChineseNumber(w) = a.value
    BY <1>1, <1>3, <2>3 DEF Query!parseChineseNumber, Query!SelectInSeq, Query!IsHan
  <2> QED BY <2>1, <2>4
<1> QED BY <1>2, <1>3

LEMMA Figures ==
    ASSUME NEW m \in {2, 3}, NEW w, Len(w) = m, DOMAIN w = 1 .. m,
           \A i \in 1 .. m : w[i].sort = "arabic" /\ w[i].value \in Nat
    PROVE  Query!parseChineseOrArabicInt(w) =
               IF m = 2 THEN 10 * w[1].value + w[2].value
                        ELSE 100 * w[1].value + 10 * w[2].value + w[3].value
<1> DEFINE g == [i \in 0 .. m |->
                    CASE i = 0 -> 0 [] i = 1 -> w[1].value [] i = 2 -> 10 * w[1].value + w[2].value
                      [] OTHER -> 100 * w[1].value + 10 * w[2].value + w[3].value]
           Upto(f) == f = [i \in 0 .. m |-> IF i = 0 THEN 0 ELSE 10 * f[i - 1] + w[i].value]
<1>1. Upto(g)
  <2>1. \A i \in 0 .. m : g[i] = IF i = 0 THEN 0 ELSE 10 * g[i - 1] + w[i].value
    <3>1. g[0] = 0 /\ g[1] = w[1].value /\ g[2] = 10 * w[1].value + w[2].value
      OBVIOUS
    <3>2. m = 3 => g[3] = 100 * w[1].value + 10 * w[2].value + w[3].value
      OBVIOUS
    <3>3. w[1].value \in Nat /\ w[2].value \in Nat /\ (m = 3 => w[3].value \in Nat)
      OBVIOUS
    <3> HIDE DEF g
    <3>4. SUFFICES ASSUME NEW i \in 0 .. m
                   PROVE  g[i] = IF i = 0 THEN 0 ELSE 10 * g[i - 1] + w[i].value
      OBVIOUS
    <3>5. CASE i = 0
      BY <3>1, <3>5
    <3>6. CASE i = 1
      BY <3>1, <3>3, <3>6
    <3>7. CASE i = 2
      BY <3>1, <3>3, <3>7
    <3>8. CASE m = 3 /\ i = 3
      BY <3>1, <3>2, <3>3, <3>8
    <3> QED BY <3>5, <3>6, <3>7, <3>8
  <2> QED BY <2>1
<1>2. PICK f : f = CHOOSE h : Upto(h)
  OBVIOUS
<1>3. Upto(f)
  BY <1>1, <1>2
<1>4. \A i \in 0 .. m : f[i] = IF i = 0 THEN 0 ELSE 10 * f[i - 1] + w[i].value
  BY <1>3
<1>5. Query!parseChineseOrArabicInt(w) = f[m]
  BY <1>2 DEF Query!parseChineseOrArabicInt, Query!Decimal
<1>6. /\ f[0] = 0 /\ f[1] = 10 * f[0] + w[1].value /\ f[2] = 10 * f[1] + w[2].value
      /\ m = 3 => f[3] = 10 * f[2] + w[3].value
  BY <1>4
<1>7. w[1].value \in Nat /\ w[2].value \in Nat /\ (m = 3 => w[3].value \in Nat)
  OBVIOUS
<1> QED BY <1>5, <1>6, <1>7

(* A number with one ten is read around it.                                    *)
LEMMA AroundTen ==
    ASSUME NEW n \in {1, 2, 3}, NEW w, Len(w) = n, DOMAIN w = 1 .. n,
           NEW k \in 1 .. n, w[k] = Query!Ten, \A i \in 1 .. n : i # k => w[i].sort = "han"
    PROVE  Query!parseChineseOrArabicInt(w) = 10 * Query!Tens(w, k) + Query!Ones(w, k)
<1>1. Query!parseChineseOrArabicInt(w) = Query!parseChineseNumber(w)
  BY DEF Query!parseChineseOrArabicInt, Query!Ten
<1> DEFINE I == {i \in 1 .. Len(w) : w[i] = Query!Ten}
<1>2. I = {k}
  BY DEF Query!Ten
<1>3. Query!Min(I) = k
  BY <1>2 DEF Query!Min
<1>4. (k > 1 => w[k - 1].sort = "han") /\ (k < Len(w) => w[k + 1].sort = "han")
  OBVIOUS
<1>5. Query!parseChineseNumber(w) = 10 * Query!Tens(w, k) + Query!Ones(w, k)
  <2>1. I # {} /\ k > 0
    BY <1>2
  <2> QED BY <1>3, <1>4, <2>1 DEF Query!parseChineseNumber, Query!SelectInSeq, Query!IsHan
<1> QED BY <1>1, <1>5

LEMMA Hundreds ==
    ASSUME NEW d \in Nat
    PROVE  Query!parseChineseOrArabicInt(<<Query!Han(d), Query!Hundred>>) = 100 * d
<1> DEFINE w == <<Query!Han(d), Query!Hundred>>
           I == {i \in 1 .. Len(w) : w[i] = Query!Ten}
<1>1. Len(w) = 2 /\ DOMAIN w = {1, 2} /\ w[1] = Query!Han(d) /\ w[2] = Query!Hundred
  OBVIOUS
<1>2. Query!parseChineseOrArabicInt(w) = Query!parseChineseNumber(w)
  BY <1>1 DEF Query!parseChineseOrArabicInt, Query!Han
<1>3. I = {}
  <2>1. w[1] # Query!Ten /\ w[2] # Query!Ten
    BY <1>1 DEF Query!Ten, Query!Han, Query!Hundred
  <2> QED BY <1>1, <2>1
<1>4. Query!parseChineseNumber(w) = 100 * w[1].value
  <2>1. w[1].sort = "han"
    BY <1>1 DEF Query!Han
  <2> HIDE DEF w
  <2> QED BY <1>1, <1>3, <2>1 DEF Query!parseChineseNumber, Query!SelectInSeq, Query!IsHan
<1> QED BY <1>1, <1>2, <1>4 DEF Query!Han

LEMMA Joined == ASSUME NEW a, NEW b
                PROVE  /\ <<a>> \o <<b>> = <<a, b>>
                       /\ \A c : <<c, a>> \o <<b>> = <<c, a, b>>
<1>1. <<a>> \o <<b>> = <<a, b>>
  <2>1. PICK p, q, r : p = <<a>> /\ q = <<b>> /\ r = <<a, b>>
    OBVIOUS
  <2>2. p \in Seq({a, b}) /\ q \in Seq({a, b}) /\ r \in Seq({a, b})
    BY <2>1
  <2>3. Len(p) = 1 /\ Len(q) = 1 /\ Len(r) = 2 /\ p[1] = a /\ q[1] = b /\ r[1] = a /\ r[2] = b
    BY <2>1
  <2>4. /\ p \o q \in Seq({a, b}) /\ Len(p \o q) = 2
        /\ \A i \in 1 .. 2 : (p \o q)[i] = IF i <= 1 THEN p[i] ELSE q[i - 1]
    BY <2>2, <2>3, ConcatProperties
  <2>5. \A i \in 1 .. 2 : (p \o q)[i] = r[i]
    BY <2>3, <2>4
  <2> QED BY <2>1, <2>2, <2>3, <2>4, <2>5, SeqEqual
<1>2. ASSUME NEW c PROVE <<c, a>> \o <<b>> = <<c, a, b>>
  <2>1. PICK p, q, r : p = <<c, a>> /\ q = <<b>> /\ r = <<c, a, b>>
    OBVIOUS
  <2>2. p \in Seq({a, b, c}) /\ q \in Seq({a, b, c}) /\ r \in Seq({a, b, c})
    BY <2>1
  <2>3. Len(p) = 2 /\ Len(q) = 1 /\ Len(r) = 3
    BY <2>1
  <2>4. p[1] = c /\ p[2] = a /\ q[1] = b /\ r[1] = c /\ r[2] = a /\ r[3] = b
    BY <2>1
  <2>5. /\ p \o q \in Seq({a, b, c}) /\ Len(p \o q) = 3
        /\ \A i \in 1 .. 3 : (p \o q)[i] = IF i <= 2 THEN p[i] ELSE q[i - 2]
    BY <2>2, <2>3, ConcatProperties
  <2>6. \A i \in 1 .. 3 : (p \o q)[i] = r[i]
    BY <2>3, <2>4, <2>5
  <2> QED BY <2>1, <2>2, <2>3, <2>5, <2>6, SeqEqual
<1> QED BY <1>1, <1>2

(* 1 to 99 and the full hundreds are read as what they mean, however written.  *)
LEMMA NumbersRead ==
    ASSUME NEW n \in 1 .. 99 \union {100 * d : d \in 1 .. 9}, NEW w \in Query!Written(n)
    PROVE  Query!parseChineseOrArabicInt(w) = n
<1> USE DEF Query!Arabic, Query!Han
<1> DEFINE tens == n \div 10
           last == n % 10
           ones == IF last = 0 THEN <<>> ELSE <<Query!Han(last)>>
<1>1. n \in Nat /\ n # 0 /\ tens \in Nat /\ last \in 0 .. 9 /\ n = 10 * tens + last
  BY SMT
<1>2. CASE n < 10
  <2>1. last = n /\ ones = <<Query!Han(n)>>
    BY <1>1, <1>2
  <2>2. w = <<Query!Arabic(n)>> \/ w = <<Query!Han(n)>>
    BY <1>2, <2>1 DEF Query!Written
  <2> QED BY <1>1, <2>2, OneRune
<1>3. CASE n \in 10 .. 99
  <2>1. tens \in 1 .. 9
    BY <1>1, <1>3
  <2>2. \/ w = <<Query!Arabic(tens), Query!Arabic(last)>>
        \/ n < 20 /\ w = <<Query!Ten>> \o ones
        \/ n >= 20 /\ w = <<Query!Han(tens), Query!Ten>> \o ones
    BY <1>3 DEF Query!Written
  <2>3. CASE w = <<Query!Arabic(tens), Query!Arabic(last)>>
    <3> HIDE DEF tens, last
    <3>1. /\ Len(w) = 2 /\ DOMAIN w = 1 .. 2 /\ w[1].value = tens /\ w[2].value = last
          /\ \A i \in 1 .. 2 : w[i].sort = "arabic" /\ w[i].value \in Nat
      BY <1>1, <2>3
    <3> QED BY <1>1, <3>1, Figures
  <2>4. CASE n < 20 /\ w = <<Query!Ten>> \o ones
    <3>1. tens = 1
      BY <1>1, <1>3, <2>4
    <3> HIDE DEF tens, last
    <3>2. CASE last = 0
      <4>1. w = <<Query!Ten>>
        BY <2>4, <3>2
      <4>2. Len(w) = 1 /\ DOMAIN w = 1 .. 1 /\ w[1] = Query!Ten
        BY <4>1
      <4> QED BY <1>1, <3>1, <3>2, <4>2, AroundTen DEF Query!Tens, Query!Ones
    <3>3. CASE last # 0
      <4>1. w = <<Query!Ten, Query!Han(last)>>
        BY <2>4, <3>3, Joined
      <4>2. Len(w) = 2 /\ DOMAIN w = 1 .. 2 /\ w[1] = Query!Ten /\ w[2] = Query!Han(last)
        BY <4>1
      <4>3. Query!parseChineseOrArabicInt(w) = 10 * Query!Tens(w, 1) + Query!Ones(w, 1)
        BY <4>2, AroundTen
      <4> QED BY <1>1, <3>1, <4>2, <4>3 DEF Query!Tens, Query!Ones
    <3> QED BY <3>2, <3>3
  <2>5. CASE n >= 20 /\ w = <<Query!Han(tens), Query!Ten>> \o ones
    <3> HIDE DEF tens, last
    <3>1. CASE last = 0
      <4>1. w = <<Query!Han(tens), Query!Ten>>
        BY <2>5, <3>1
      <4>2. Len(w) = 2 /\ DOMAIN w = 1 .. 2 /\ w[2] = Query!Ten /\ w[1] = Query!Han(tens)
        BY <4>1
      <4>3. Query!parseChineseOrArabicInt(w) = 10 * Query!Tens(w, 2) + Query!Ones(w, 2)
        BY <4>2, AroundTen
      <4> QED BY <1>1, <3>1, <4>2, <4>3 DEF Query!Tens, Query!Ones
    <3>2. CASE last # 0
      <4>1. w = <<Query!Han(tens), Query!Ten, Query!Han(last)>>
        BY <2>5, <3>2, Joined
      <4>2. /\ Len(w) = 3 /\ DOMAIN w = 1 .. 3 /\ w[2] = Query!Ten
            /\ w[1] = Query!Han(tens) /\ w[3] = Query!Han(last)
        BY <4>1
      <4>3. Query!parseChineseOrArabicInt(w) = 10 * Query!Tens(w, 2) + Query!Ones(w, 2)
        BY <4>2, AroundTen
      <4> QED BY <1>1, <4>2, <4>3 DEF Query!Tens, Query!Ones
    <3> QED BY <3>1, <3>2
  <2> QED BY <2>2, <2>3, <2>4, <2>5
<1>4. CASE n >= 100
  <2>1. PICK d \in 1 .. 9 : n = 100 * d
    BY <1>4
  <2>2. n \div 100 = d /\ tens = 10 * d /\ tens % 10 = 0 /\ last = 0
    BY <2>1
  <2>3. \/ w = <<Query!Arabic(d), Query!Arabic(0), Query!Arabic(0)>>
        \/ w = <<Query!Han(d), Query!Hundred>>
    <3>1. ~(n < 10) /\ ~(n < 20) /\ ~(n < 100)
      BY <1>1, <1>4
    <3>2. Query!Written(n) = {<<Query!Arabic(n \div 100), Query!Arabic(tens % 10), Query!Arabic(last)>>}
                             \union {<<Query!Han(n \div 100), Query!Hundred>>}
      <4> USE DEF Query!Written
      <4> QED BY <3>1, Zenon
    <3> HIDE DEF tens, last
    <3> QED BY <2>2, <3>2, Zenon
  <2>4. CASE w = <<Query!Arabic(d), Query!Arabic(0), Query!Arabic(0)>>
    <3>1. /\ Len(w) = 3 /\ DOMAIN w = 1 .. 3 /\ w[1].value = d /\ w[2].value = 0 /\ w[3].value = 0
          /\ \A i \in 1 .. 3 : w[i].sort = "arabic" /\ w[i].value \in Nat
      BY <2>4
    <3> QED BY <2>1, <3>1, Figures
  <2>5. CASE w = <<Query!Han(d), Query!Hundred>>
    BY <2>1, <2>5, Hundreds
  <2> QED BY <2>3, <2>4, <2>5
<1> QED BY <1>1, <1>2, <1>3, <1>4

LEMMA NumbersPositive == \A n \in Numbers : n \in Nat /\ n > 0
BY WordsAssumption

LEMMA TextIsSeq ==
    ASSUME NEW x \in Texts PROVE Len(Words[x]) \in Nat /\ DOMAIN Words[x] = 1 .. Len(Words[x])
<1>1. Words[x] \in Seq(Range(Words[x]))
  BY WordsAssumption
<1> QED BY <1>1, LenProperties

LEMMA DaysRead ==
    ASSUME NEW q, Len(q) \in Nat, DOMAIN q = 1 .. Len(q), NEW i \in DOMAIN q,
           NEW n \in Numbers, q[i].days \in Query!Written(n), OnlyDays(q, i)
    PROVE  Query!Days(q, q[i].is) = n
<1> DEFINE I == {j \in 1 .. Len(q) : q[j].is = q[i].is}
<1>1. I = {i} /\ i # 0
  BY DEF OnlyDays
<1>2. Query!Min(I) = i
  BY <1>1 DEF Query!Min
<1>3. Query!parseChineseOrArabicInt(q[i].days) = n
  BY NumbersRead, WordsAssumption
<1> QED BY <1>1, <1>2, <1>3 DEF Query!Days, Query!SelectInSeq

LEMMA RangeRead ==
    ASSUME NEW x \in Texts, NEW i \in DOMAIN Words[x], Words[x][i].is = "recent",
           NEW n \in Numbers, Words[x][i].days \in Query!Written(n), OnlyDays(Words[x], i)
    PROVE  Reads[x].from = Today - (n - 1) /\ Reads[x].to = Today
<1>1. PICK q : q = Words[x]
  OBVIOUS
<1>2. Len(q) \in Nat /\ DOMAIN q = 1 .. Len(q)
  BY <1>1, TextIsSeq
<1>3. Query!Days(q, "recent") = n /\ n > 0
  <2>1. Query!Days(q, q[i].is) = n
    BY <1>1, <1>2, DaysRead
  <2>2. n > 0
    BY NumbersPositive
  <2> QED BY <1>1, <2>1, <2>2
<1>4. \A j \in DOMAIN q : q[j].is \notin {"since", "fromWord", "toWord"}
  BY <1>1 DEF OnlyDays
<1>5. Query!parseRelativeRange(q, Today) = <<Today - (n - 1), Today>>
  BY <1>3 DEF Query!parseRelativeRange
<1>6. {j \in DOMAIN q : Query!RangeAt(q, j) # Blank} = {}
  BY <1>4 DEF Query!RangeAt
<1>7. Query!DateOf(q, "fromWord") = Blank /\ Query!DateOf(q, "toWord") = Blank
  BY <1>4 DEF Query!DateOf, Query!FirstOf
<1>8. /\ Query!Extract(q, Today).from = Query!Or(Blank, Query!parseRelativeRange(q, Today)[1])
      /\ Query!Extract(q, Today).to = Query!Or(Blank, Query!parseRelativeRange(q, Today)[2])
  BY <1>6, <1>7 DEF Query!Extract, Query!FirstOf
<1>9. Reads[x] = Query!Extract(q, Today)
  BY <1>1, ReadsAssumption
<1> QED BY <1>5, <1>8, <1>9 DEF Query!Or

LEMMA ExpiryRead ==
    ASSUME NEW x \in Texts, NEW i \in DOMAIN Words[x], Words[x][i].is = "later",
           NEW n \in Numbers, Words[x][i].days \in Query!Written(n), OnlyDays(Words[x], i),
           Query!Mentions(Words[x], {"expiry", "validity"})
    PROVE  Reads[x].expireAt = Today + n
<1>1. PICK q : q = Words[x]
  OBVIOUS
<1>2. Len(q) \in Nat /\ DOMAIN q = 1 .. Len(q)
  BY <1>1, TextIsSeq
<1>3. Query!Days(q, "later") = n /\ n > 0
  <2>1. Query!Days(q, q[i].is) = n
    BY <1>1, <1>2, DaysRead
  <2>2. n > 0
    BY NumbersPositive
  <2> QED BY <1>1, <2>1, <2>2
<1>4. {j \in DOMAIN q : q[j].date # Blank} = {}
  BY <1>1 DEF OnlyDays
<1>5. Query!parseRelativeExpireAt(q, Today) = Today + n
  BY <1>1, <1>3 DEF Query!parseRelativeExpireAt
<1>6. Query!ExpireAt(q, Today) = Query!Or(Blank, Today + n)
  BY <1>4, <1>5 DEF Query!ExpireAt, Query!FirstOf
<1>7. Reads[x].expireAt = Query!ExpireAt(q, Today)
  BY <1>1, ReadsAssumption DEF Query!Extract
<1> QED BY <1>6, <1>7 DEF Query!Or

LEMMA WorkReadsNothing ==
    ASSUME IInv, NEW t \in Turns, Work(t)
    PROVE  /\ pc[t] # "idle"
           /\ run'[t].session = run[t].session /\ run'[t].req = run[t].req
           /\ run'[t].mem = run[t].mem /\ run'[t].ctx = run[t].ctx
<1>1. CASE Dag(t) \/ Rule(t)
  BY <1>1, DagKeeps
<1>2. CASE Tool(t)
  BY <1>2, ToolKeeps
<1>3. CASE ChatDirect(t) \/ SaveTask(t) \/ SaveSession(t)
  <2>1. UNCHANGED run
    BY <1>3 DEF ChatDirect, SaveTask, SaveSession
  <2> QED BY <2>1, WorkIsOwn
<1> QED BY <1>1, <1>2, <1>3 DEF Work

LEMMA SameContext ==
    ASSUME ContextKept, UNCHANGED run, \A t \in Turns : pc[t] = "idle" => pc'[t] = "idle"
    PROVE  ContextKept'
BY DEF ContextKept, Merged

LEMMA BeginsWithContext ==
    ASSUME IInv, ContextKept, NEW t \in Turns, NEW q, ChatWith(t, q) \/ Execute(t)
    PROVE  ContextKept'
<1>1. \A u \in Turns \ {t} : pc'[u] = pc[u] /\ run'[u] = run[u]
  BY DEF ChatWith, Execute, Start, Goto, IInv, AgentTypeOK
<1>2. run'[t].session # NoSession => run'[t].ctx = Merged(run'[t].req, run'[t].mem)
  <2>1. CASE ChatWith(t, q)
    <3> DEFINE x == SessionId(q)
               c == Merged(q, sessions[x])
    <3>1. Start(t, q, x, sessions[x], c)
      BY <2>1 DEF ChatWith
    <3> HIDE DEF x, c
    <3>2. run'[t].ctx = c /\ run'[t].req = q /\ run'[t].mem = sessions[x]
      BY <3>1 DEF Start, IInv, AgentTypeOK
    <3> QED BY <3>2 DEF c
  <2>2. CASE Execute(t)
    <3>1. run'[t].session = NoSession
      BY <2>2 DEF Execute, Start, IInv, AgentTypeOK
    <3> QED BY <3>1
  <2> QED BY <2>1, <2>2
<1>3. \A u \in Turns \ {t} : pc'[u] # "idle" /\ run'[u].session # NoSession =>
                                run'[u].ctx = Merged(run'[u].req, run'[u].mem)
  BY <1>1 DEF ContextKept
<1> QED BY <1>2, <1>3 DEF ContextKept, Merged

LEMMA MainKeepsContext == IInv /\ ContextKept /\ [MainNext]_main => ContextKept'
<1> SUFFICES ASSUME IInv, ContextKept, [MainNext]_main PROVE ContextKept'
  OBVIOUS
<1>1. CASE UNCHANGED <<pc, run>>
  BY <1>1, SameContext
<1>2. ASSUME NEW t \in Turns, TurnStep(t) PROVE ContextKept'
  <2>1. Work(t)
    BY <1>2 DEF TurnStep
  <2>2. \A u \in Turns \ {t} : pc'[u] = pc[u] /\ run'[u] = run[u]
    BY <2>1, WorkIsOwn
  <2>3. pc[t] # "idle" /\ run'[t].session = run[t].session /\ run'[t].req = run[t].req
        /\ run'[t].mem = run[t].mem /\ run'[t].ctx = run[t].ctx
    BY <2>1, WorkReadsNothing
  <2> QED BY <2>2, <2>3 DEF ContextKept, Merged
<1>3. ASSUME NEW t \in Turns, ReadLine(t) PROVE ContextKept'
  BY <1>3, BeginsWithContext DEF ReadLine
<1>4. ASSUME NEW t \in Turns, Serve(t) PROVE ContextKept'
  BY <1>4, BeginsWithContext DEF Serve, Chat
<1>5. ASSUME NEW t \in Turns, Gone(t) \/ HangUp(t) \/ Respond(t) \/ Answered(t) PROVE UNCHANGED <<pc, run>>
  BY <1>5 DEF Gone, Cancel, HangUp, Respond, SendError, Reply, Meta, Delta, DoneEvent, Answered, vars
<1>6. CASE Restart
  BY <1>6, SameContext DEF Restart
<1>7. CASE handleCommand
  BY <1>1, <1>7 DEF handleCommand, NewSession, Reset, SwitchTools, Quit, vars
<1>8. CASE CliStep
  BY <1>1, <1>3, <1>5, <1>7, <1>8 DEF CliStep, RunChatREPL
<1>9. CASE ServeStep
  BY <1>1, <1>4, <1>5, <1>6, <1>9 DEF ServeStep, ServerStep
<1> QED BY <1>1, <1>2, <1>8, <1>9 DEF MainNext, main, vars

(* Whatever the number of days, from 1 to 99 or the full hundreds, in figures  *)
(* or in words, and whatever else a text says that is not of dates.            *)
THEOREM DaysTold == MainSpec => []DaysAsTold
<1>1. MainInit => ContextKept
  BY DEF MainInit, Init, ContextKept
<1>2. IInv /\ ContextKept => DaysAsTold
  <2> SUFFICES ASSUME IInv, ContextKept, NEW t \in Turns, pc[t] # "idle", run[t].session # NoSession,
                      NEW x, x = run[t].req.text, NEW i \in DOMAIN Words[x], NEW n \in Numbers,
                      Words[x][i].days \in Query!Written(n), OnlyDays(Words[x], i),
                      NEW given, given = Fill(run[t].req.context, run[t].mem)
               PROVE  /\ Words[x][i].is = "recent" /\ given.from = Blank /\ given.to = Blank =>
                             run[t].ctx.from = Today - (n - 1) /\ run[t].ctx.to = Today
                      /\ (Words[x][i].is = "later" /\ given.expireAt = Blank
                          /\ Query!Mentions(Words[x], {"expiry", "validity"})) =>
                             run[t].ctx.expireAt = Today + n
    BY DEF DaysAsTold
  <2>1. x \in Texts
    BY DEF IInv, AgentTypeOK, Run, Request
  <2>2. run[t].ctx = Fill(given, Reads[x])
    BY DEF ContextKept, Merged
  <2>3. /\ given.from = Blank => run[t].ctx.from = Reads[x].from
        /\ given.to = Blank => run[t].ctx.to = Reads[x].to
        /\ given.expireAt = Blank => run[t].ctx.expireAt = Reads[x].expireAt
    BY <2>2 DEF Fill, Slots
  <2> QED BY <2>1, <2>3, RangeRead, ExpiryRead
<1> QED
  BY <1>1, <1>2, MainInvariance, MainKeepsContext, PTL DEF MainSpec
=============================================================================
