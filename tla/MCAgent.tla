------------------------------- MODULE MCAgent -------------------------------
(* Small instances of the agent's server and command line for TLC. *)
EXTENDS AgentProperties, TLC

CONSTANTS t1, t2, r1, x0, x1, c1, c2, u1, u2

FirstLink == [k \in Codes |-> IF k = c1 THEN [url |-> u1, expireAt |-> Blank] ELSE NoLink]
FewDays   == Today - 100 .. Today + 100
FewNumbers == {1, 2, 7, 10, 12, 20, 35, 100}

(* "A link to u2", whose path begins with what looks like c1; a greeting; the *)
(* last n days; and an expiry n days later, in figures (1) or in words (2).   *)
AllTexts == {<<"link">>, <<"talk">>}
            \union {<<kind, n, w>> : kind \in {"recent", "later"}, n \in Numbers, w \in {1, 2}}
Numeral(n, w) == CHOOSE r \in Query!Written(n) : (w = 1) = (r[1].sort = "arabic")
Word(kind) == Query!Word(kind)
Spelled == [x \in Texts |->
    CASE x[1] = "link" -> <<Word("verb"), Word("space"), [Word("value") EXCEPT !.path = c1, !.url = u2]>>
      [] x[1] = "talk" -> <<Word("other")>>
      [] x[1] = "recent" -> <<Word("verb"), [Word("recent") EXCEPT !.days = Numeral(x[2], x[3])]>>
      [] OTHER -> <<Word("expiry"), [Word("later") EXCEPT !.days = Numeral(x[2], x[3])]>>]
Extracted == [x \in Texts |-> Query!Extract(Spelled[x], Today)]
ToolTexts == {x \in Texts : Query!HasKeyword(Spelled[x])}

SomeLines == [t \in Turns |-> IF t = t1 THEN {<<"link">>, <<"recent", 7, 2>>} ELSE {<<"later", 7, 2>>}]
(* The server serves one turn, with or without a session and tools; the      *)
(* command line all of them, one after the other.                            *)
Asks(session, text, tools) == [id |-> r1, session |-> session, context |-> NoContext, text |-> text,
                               tools |-> tools, operator |-> FALSE]
SomeAsk == [t \in Turns |-> IF t # t1 THEN {}
                ELSE {Asks(x0, q, FALSE) : q \in Texts} \union {Asks(Blank, <<"talk">>, TRUE)}]
SomeOwn == [i \in RequestIds |-> x1]
SomeOptions == {[session |-> x0, tools |-> FALSE, rounds |-> 1]}
NoArgs == {NoContext}
SomeConfigs == {[engine |-> "rule", writes |-> TRUE, fallback |-> FALSE],
                [engine |-> "eino", writes |-> FALSE, fallback |-> TRUE]}
=============================================================================
