----------------------------- MODULE LinkRegistry -----------------------------
(***************************************************************************)
(* What the short-link service promises its callers, with no caches, no   *)
(* numbers and no request in several steps: a registry of links in which  *)
(* a code is given once and a URL has one code, clients are told of codes *)
(* that exist, and a visitor of a code is sent where that very link leads *)
(* or has led.                                                             *)
(***************************************************************************)
CONSTANTS
    Codes, Urls, Expiries,
    Clients,        \* those who create links
    Visitors,       \* those who follow them, once each
    Reserved,       \* codes that are not given
    Fold,           \* codes of the same class are the same code
    Unused, None,
    InitLinks       \* the registry at the start

Link == [url : Urls, expireAt : Expiries]

VARIABLES
    links,  \* code -> its link
    led,    \* every link a code has had
    told,   \* client -> the code it was told
    sent    \* visitor -> the URL it was sent to

vars == <<links, led, told, sent>>

Used(c) == links[c] # Unused

Init ==
    /\ links = InitLinks
    /\ led = {[code |-> c, link |-> InitLinks[c]] : c \in {d \in Codes : InitLinks[d] # Unused}}
    /\ told = [k \in Clients |-> None]
    /\ sent = [v \in Visitors |-> None]

Put(c, l) ==
    /\ \A d \in Codes \ {c} : Used(d) => links[d].url # l.url
    /\ links' = [links EXCEPT ![c] = l]
    /\ led' = led \union {[code |-> c, link |-> l]}
    /\ UNCHANGED <<told, sent>>

(* A new code, of a class no used code is in *)
Register(c, l) ==
    /\ c \notin Reserved
    /\ \A d \in Codes : Used(d) => Fold[d] # Fold[c]
    /\ Put(c, l)

(* A link is pointed elsewhere, or its expiry is set *)
Change(c, l) == Used(c) /\ Put(c, l)

Tell(k, c) ==
    /\ told[k] = None /\ Used(c)
    /\ told' = [told EXCEPT ![k] = c]
    /\ UNCHANGED <<links, led, sent>>

(* A visitor of code c; the version of the link may be an old one *)
Send(v, c) ==
    /\ sent[v] = None
    /\ \E x \in led : Fold[x.code] = Fold[c] /\ sent' = [sent EXCEPT ![v] = x.link.url]
    /\ UNCHANGED <<links, led, told>>

Next == \E c \in Codes :
            \/ \E l \in Link : Register(c, l) \/ Change(c, l)
            \/ \E k \in Clients : Tell(k, c)
            \/ \E v \in Visitors : Send(v, c)

Spec == Init /\ [][Next]_vars
=============================================================================
