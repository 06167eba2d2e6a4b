-------------------------------- MODULE MCChat --------------------------------
(* Small instances of the AI agent for TLC. *)
EXTENDS ChatProperties, TLC

CONSTANTS t1, t2, x1, x2, r1, r2, c1, c2, u1, u2, d1

NoLinks  == [k \in Codes |-> NoLink]
FirstLink == [k \in Codes |-> IF k = c1 THEN [url |-> u1, expireAt |-> Blank] ELSE NoLink]

Says(f) == [s \in Slots |-> IF s \in DOMAIN f THEN f[s] ELSE Blank]
SomeTexts == {"go on", "to u2"}
SomeReads == [x \in SomeTexts |-> IF x = "to u2" THEN Says([longUrl |-> u2]) ELSE NoContext]
Asks(i, session, context, text, tools) ==
    [id |-> i, session |-> session, context |-> context, text |-> text, tools |-> tools, operator |-> FALSE]
(* What the agent makes of the two request ids *)
SomeOwn == [i \in RequestIds |-> IF i = r1 THEN x1 ELSE x2]
(* "Create a link to u1", with the URL in the context of the request *)
AskCreate == Asks(r1, Blank, Says([longUrl |-> u1]), "go on", TRUE)
(* "Make that link lead to u2", with the URL, one without a path, in the text, *)
(* in the session that the agent made of the request id r1                    *)
AskChange == Asks(r2, x1, NoContext, "to u2", TRUE)
(* "Let c1 expire at d1", and a question, with no session; the question has  *)
(* the id of the request to create                                           *)
AskExpire == Asks(r2, Blank, Says([shortUrl |-> c1, expireAt |-> d1, from |-> d1, to |-> d1]), "go on", FALSE)
AskNothing == Asks(r1, Blank, NoContext, "go on", FALSE)

Some   == [t \in Turns |-> IF t = t1 THEN {AskCreate, AskChange} ELSE {AskChange, AskExpire, AskNothing}]
Change == [t \in Turns |-> {AskCreate, AskChange}]
SomeArgs == {NoContext, Says([shortUrl |-> c1, longUrl |-> u2])}
SomeConfigs == {[engine |-> "rule", writes |-> TRUE, fallback |-> FALSE],
                [engine |-> "eino", writes |-> TRUE, fallback |-> TRUE],
                [engine |-> "eino", writes |-> FALSE, fallback |-> TRUE],
                [engine |-> "eino", writes |-> FALSE, fallback |-> FALSE]}
RuleOnly == {[engine |-> "rule", writes |-> TRUE, fallback |-> TRUE]}
=============================================================================
