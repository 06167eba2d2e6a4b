------------------------------ MODULE QueryText ------------------------------
(***************************************************************************)
(* What the agent reads in a text: codes, URLs, dates and ranges of days.   *)
(*                                                                         *)
(* A text is a sequence of the words and values that the regular            *)
(* expressions of chat_logic.go tell apart, each with what they take of it: *)
(* a value's run of code characters at its start (a code, but also the      *)
(* scheme of a URL or the host of an address), the first segment of its     *)
(* path, its URL, its date, its number of days.  A day is an integer, and   *)
(* as an expiry its last second; a number is the sequence of its runes.     *)
(***************************************************************************)
EXTENDS Integers, SequencesExt

CONSTANT Blank

(* Labels, keys and words by what they are matched for; "value" for a code,  *)
(* a URL or an address, "recent" and "later" for a number of days.           *)
Word(kind) == [is |-> kind, lead |-> Blank, path |-> Blank, url |-> Blank, date |-> Blank,
               days |-> <<>>]

-----------------------------------------------------------------------------
(* Numbers.                                                                  *)
Arabic(d) == [sort |-> "arabic", value |-> d]
Han(d)    == [sort |-> "han", value |-> d]
Ten       == [sort |-> "ten", value |-> 10]
Hundred   == [sort |-> "hundred", value |-> 100]

IsHan(r) == r.sort = "han"
Decimal(n) ==
    LET upto[i \in 0 .. Len(n)] == IF i = 0 THEN 0 ELSE 10 * upto[i - 1] + n[i].value
    IN  upto[Len(n)]

(* Mutant of Tens: a ten without a digit before it counts nothing *)
TensMustBeGiven(n, i) == IF i > 1 THEN n[i - 1].value ELSE 0
Tens(n, i) == IF i > 1 THEN n[i - 1].value ELSE 1
Ones(n, i) == IF i < Len(n) THEN n[i + 1].value ELSE 0
(* The digits next to the first ten, or the one before a hundred that comes *)
(* second; 0 is a number that is not read, which no caller tells apart.     *)
parseChineseNumber(n) ==
    LET i == SelectInSeq(n, LAMBDA r : r = Ten)
    IN  IF i > 0
        THEN IF (i > 1 => IsHan(n[i - 1])) /\ (i < Len(n) => IsHan(n[i + 1]))
             THEN 10 * Tens(n, i) + Ones(n, i) ELSE 0
        ELSE IF Len(n) >= 2 /\ n[2] = Hundred /\ IsHan(n[1]) THEN 100 * n[1].value
        ELSE IF Len(n) = 1 /\ IsHan(n[1]) THEN n[1].value
        ELSE 0

parseChineseOrArabicInt(n) ==
    IF \A i \in DOMAIN n : n[i].sort = "arabic" THEN Decimal(n) ELSE parseChineseNumber(n)

(* The usual ways to write 1 to 99 and the full hundreds: what the numbers   *)
(* of a text mean, independent of how the code reads them.                   *)
Written(n) ==
    LET tens == n \div 10
        ones == IF n % 10 = 0 THEN <<>> ELSE <<Han(n % 10)>>
    IN  {IF n < 10 THEN <<Arabic(n)>>
         ELSE IF n < 100 THEN <<Arabic(tens), Arabic(n % 10)>>
         ELSE <<Arabic(n \div 100), Arabic(tens % 10), Arabic(n % 10)>>}
        \union {IF n < 10 THEN ones
                ELSE IF n < 20 THEN <<Ten>> \o ones
                ELSE IF n < 100 THEN <<Han(tens), Ten>> \o ones
                ELSE <<Han(n \div 100), Hundred>>}

-----------------------------------------------------------------------------
(* Places in a text.                                                         *)
TokenAt(q, i) == IF i \in DOMAIN q THEN q[i] ELSE Word("end")
Skip(q, i) == IF i > Len(q) THEN i
              ELSE CHOOSE j \in i .. Len(q) + 1 :
                       TokenAt(q, j).is # "space" /\ \A k \in i .. j - 1 : q[k].is = "space"
(* What follows a word, and what does so after a colon or an equals sign *)
After(q, i) == TokenAt(q, Skip(q, i + 1))
ValueOf(q, i) == IF After(q, i).is = "sep" THEN After(q, Skip(q, i + 1)) ELSE After(q, i)

Mentions(q, kinds) == \E i \in DOMAIN q : q[i].is \in kinds
Or(a, b) == IF a # Blank THEN a ELSE b
(* The first value that f finds in a text *)
FirstOf(q, f(_)) ==
    LET found == {i \in DOMAIN q : f(i) # Blank}
    IN  IF found = {} THEN Blank ELSE f(CHOOSE i \in found : \A j \in found : i <= j)
(* The number of the first range of its kind, 0 if there is none *)
Days(q, kind) == LET i == SelectInSeq(q, LAMBDA w : w.is = kind)
                 IN  IF i = 0 THEN 0 ELSE parseChineseOrArabicInt(q[i].days)

(* A code is looked for after a label, then after a key, then in a path *)
ShortUrl(q) ==
    Or(FirstOf(q, LAMBDA i : IF q[i].is \in {"shortLink", "shortCode"} THEN After(q, i).lead ELSE Blank),
    Or(FirstOf(q, LAMBDA i : IF q[i].is = "key" THEN ValueOf(q, i).lead ELSE Blank),
       FirstOf(q, LAMBDA i : q[i].path)))

parseRelativeExpireAt(q, today) ==
    IF ~Mentions(q, {"expiry", "validity"}) THEN Blank
    ELSE IF Days(q, "later") > 0 THEN today + Days(q, "later")
    ELSE IF Mentions(q, {"tomorrow"}) THEN today + 1
    ELSE IF Mentions(q, {"dayAfter"}) THEN today + 2
    ELSE Blank

(* The first date of a text that speaks of expiry, whatever it is said of *)
ExpireAt(q, today) ==
    Or(IF Mentions(q, {"expiry"}) THEN FirstOf(q, LAMBDA i : q[i].date) ELSE Blank,
       parseRelativeExpireAt(q, today))

(* From one date to another, the word, the date, the word and the date *)
RangeAt(q, i) == LET a == Skip(q, i + 1)  b == Skip(q, a + 1)  c == Skip(q, b + 1)
                 IN  IF /\ q[i].is = "since" /\ TokenAt(q, a).is = "date"
                        /\ TokenAt(q, b).is = "until" /\ TokenAt(q, c).is = "date"
                     THEN <<q[a].date, q[c].date>> ELSE Blank
DateOf(q, kind) == FirstOf(q, LAMBDA i : IF q[i].is = kind THEN ValueOf(q, i).date ELSE Blank)
parseRelativeRange(q, today) ==
    IF Days(q, "recent") > 0 THEN <<today - (Days(q, "recent") - 1), today>> ELSE <<Blank, Blank>>

Extract(q, today) ==
    LET range == FirstOf(q, LAMBDA i : RangeAt(q, i))
        given == IF range # Blank THEN range
                 ELSE <<Or(DateOf(q, "fromWord"), parseRelativeRange(q, today)[1]),
                        Or(DateOf(q, "toWord"), parseRelativeRange(q, today)[2])>>
    IN  [shortUrl |-> ShortUrl(q),
         longUrl  |-> FirstOf(q, LAMBDA i : q[i].url),
         expireAt |-> ExpireAt(q, today),
         from |-> given[1], to |-> given[2]]

(* The words that call for a tool: a short link, what is done with one, or expiry *)
HasKeyword(q) == Mentions(q, {"shortLink", "verb", "expiry", "validity"})
=============================================================================
