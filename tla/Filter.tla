------------------------------- MODULE Filter -------------------------------
(***************************************************************************)
(* contains_sensitive_text (filter.rs): the scan that captured text goes   *)
(* through for a long token-like run outside of URLs, one iteration of its *)
(* loops at a time.                                                        *)
(*                                                                         *)
(* The scan looks at a byte for its class only, so a byte is its class:    *)
(* "dot" stands for `.' and `+', "query" for the other bytes of a URL that *)
(* are in no other class, "other" for whatever ends a URL.                 *)
(***************************************************************************)
EXTENDS Naturals, Sequences

CONSTANTS
    Inputs,     \* the texts that may be captured
    Limit       \* the length of a run that makes a text sensitive (30)

Classes == {"letter", "digit", "under", "dash", "dot", "colon", "slash", "query", "other"}

ASSUME InputAssumption == Inputs \subseteq Seq(Classes)
ASSUME LimitAssumption == Limit \in Nat \ {0}

Alnum  == {"letter", "digit"}
Scheme == Alnum \cup {"dash", "dot"}        \* scheme_byte
Url    == Classes \ {"other"}               \* url_byte
Token  == Alnum \cup {"under", "dash"}

VARIABLES
    bytes, textual,     \* the arguments: the bytes, and whether the mime is one for text
    i, run,             \* the byte the outer loop is at, the length of the run before it
    end,                \* the byte the scheme loop is at
    pc, found

vars == <<bytes, textual, i, run, end, pc, found>>

Init ==
    /\ bytes \in Inputs /\ textual \in BOOLEAN
    /\ i = 1 /\ run = 0 /\ end = 0 /\ found = FALSE
    /\ pc = IF textual THEN "loop" ELSE "done"

-----------------------------------------------------------------------------
At(k, S) == k \in DOMAIN bytes /\ bytes[k] \in S

\* A scheme begins with a letter, and not in the middle of a word.
MayStart(k) == At(k, {"letter"}) /\ (k = 1 \/ ~At(k - 1, Scheme \cup {"under"}))

\* "://" and a letter or digit
Authority(k) ==
    At(k, {"colon"}) /\ At(k + 1, {"slash"}) /\ At(k + 2, {"slash"}) /\ At(k + 3, Alnum)

\* Mutant: the run goes on over a byte that ends it.
CountAll ==
    /\ run' = IF At(i, Token) THEN run + 1 ELSE run
    /\ found' = (run' >= Limit)
    /\ pc' = IF found' THEN "done" ELSE "loop"
    /\ i' = IF found' THEN i ELSE i + 1

\* Mutant: a run as long as the limit is let pass.
CountPast ==
    /\ run' = IF At(i, Token) THEN run + 1 ELSE 0
    /\ found' = (run' > Limit)
    /\ pc' = IF found' THEN "done" ELSE "loop"
    /\ i' = IF found' THEN i ELSE i + 1

\* Byte i is not in a URL: count it, or end the run.
Count ==
    /\ run' = IF At(i, Token) THEN run + 1 ELSE 0
    /\ found' = (run' >= Limit)
    /\ pc' = IF found' THEN "done" ELSE "loop"
    /\ i' = IF found' THEN i ELSE i + 1

Step ==
    /\ pc = "loop" /\ i <= Len(bytes)
    /\ IF MayStart(i)
       THEN pc' = "scheme" /\ end' = i + 1 /\ UNCHANGED <<i, run, found>>
       ELSE Count /\ UNCHANGED end
    /\ UNCHANGED <<bytes, textual>>

\* Mutant: the bytes of the scheme are looked at again without moving on.
ReadSchemeStuck ==
    /\ pc = "scheme" /\ At(end, Scheme)
    /\ UNCHANGED vars

ReadScheme ==
    /\ pc = "scheme" /\ At(end, Scheme)
    /\ end' = end + 1
    /\ UNCHANGED <<bytes, textual, i, run, pc, found>>

\* Mutant: the URL is passed over only up to its authority.
SchemeEndShort ==
    /\ pc = "scheme" /\ ~At(end, Scheme)
    /\ IF Authority(end)
       THEN i' = end + 3 /\ run' = 0 /\ pc' = "loop" /\ UNCHANGED found
       ELSE Count
    /\ UNCHANGED <<bytes, textual, end>>

SchemeEnd ==
    /\ pc = "scheme" /\ ~At(end, Scheme)
    /\ IF Authority(end)
       THEN i' = end + 3 /\ pc' = "url" /\ UNCHANGED <<run, found>>
       ELSE Count
    /\ UNCHANGED <<bytes, textual, end>>

SkipUrl ==
    /\ pc = "url" /\ At(i, Url)
    /\ i' = i + 1
    /\ UNCHANGED <<bytes, textual, run, end, pc, found>>

UrlEnd ==
    /\ pc = "url" /\ ~At(i, Url)
    /\ run' = 0 /\ pc' = "loop"
    /\ UNCHANGED <<bytes, textual, i, end, found>>

Finish ==
    /\ pc = "loop" /\ i > Len(bytes)
    /\ pc' = "done"
    /\ UNCHANGED <<bytes, textual, i, run, end, found>>

Next == Step \/ ReadScheme \/ SchemeEnd \/ SkipUrl \/ UrlEnd \/ Finish

Spec == Init /\ [][Next]_vars

\* Nothing suspends the loop.
FairSpec == Spec /\ WF_vars(Next)

-----------------------------------------------------------------------------
(***************************************************************************)
(* What the scan is to find (richclip.md, "Sensitive content"), without    *)
(* any order of scanning.                                                  *)
(***************************************************************************)
\* A URL begins at s: a scheme, "://", a letter or digit.
UrlStart(s) == MayStart(s) /\ \E e \in DOMAIN bytes :
    s < e /\ Authority(e) /\ \A j \in s + 1 .. e - 1 : At(j, Scheme)

\* Byte k is in a URL: one begins at or before k, and nothing between ends it.
InUrl(k) == \E s \in 1 .. k : UrlStart(s) /\ \A j \in s .. k : At(j, Url)

Plain(k) == At(k, Token) /\ ~InUrl(k)

\* `Limit' bytes in a row, all of them of a token and none in a URL, before n.
TokenBefore(n) == \E k \in 1 .. n :
    k + Limit <= n /\ \A j \in k .. k + Limit - 1 : Plain(j)
Sensitive == TokenBefore(Len(bytes) + 1)

TypeOK ==
    /\ bytes \in Seq(Classes) /\ textual \in BOOLEAN /\ found \in BOOLEAN
    /\ i \in 1 .. Len(bytes) + 1
    /\ run \in 0 .. Limit
    /\ end \in 0 .. Len(bytes) + 1
    /\ pc \in {"loop", "scheme", "url", "done"}

\* The scan finds a token if and only if the text has one.
VerdictRight == pc = "done" => found = (textual /\ Sensitive)

\* It reads every text to an end.
ScanEnds == <>(pc = "done")

-----------------------------------------------------------------------------
(***************************************************************************)
(* Why: what holds of the bytes before i, at every step of the scan.       *)
(***************************************************************************)
\* There is no token so far; the run is what of the bytes before i may still
\* become one, and it reaches back to a byte that is not of a token.
RunRight ==
    /\ run < Limit /\ run < i /\ ~TokenBefore(i)
    /\ \A j \in i - run .. i - 1 : Plain(j)
    /\ i - run > 1 => ~Plain(i - run - 1)

\* The outer loop is never inside of a URL that began before i.
Outside == InUrl(i) => UrlStart(i)

InLoop == pc \in {"loop", "scheme"} => textual /\ ~found /\ RunRight /\ Outside
InScheme == pc = "scheme" =>
    MayStart(i) /\ end > i /\ \A j \in i + 1 .. end - 1 : At(j, Scheme)
InBody == pc = "url" => textual /\ ~found /\ i > 1 /\ ~TokenBefore(i) /\ InUrl(i - 1)

IInv == TypeOK /\ InLoop /\ InScheme /\ InBody /\ VerdictRight
=============================================================================
