---------------------------- MODULE FilterProofs ----------------------------
(***************************************************************************)
(* The scan of contains_sensitive_text finds a token exactly if there is   *)
(* one, in a text of any length and for any limit.                         *)
(*                                                                         *)
(* VerdictRight speaks of the end of the scan only.  IInv says what is     *)
(* known of the bytes already passed: RunRight, that they have no token    *)
(* and how much of one they end with, and Outside, that a URL which began  *)
(* among them does not reach the byte the scan is at.                      *)
(***************************************************************************)
EXTENDS Filter, TLAPS

USE DEF At

-----------------------------------------------------------------------------
(***************************************************************************)
(* The text does not change, and so what is said about it does not.        *)
(***************************************************************************)
LEMMA SameText ==
    ASSUME bytes' = bytes
    PROVE  /\ \A k : MayStart(k)' <=> MayStart(k)
           /\ \A k : Authority(k)' <=> Authority(k)
           /\ \A k : UrlStart(k)' <=> UrlStart(k)
           /\ \A k : InUrl(k)' <=> InUrl(k)
           /\ \A k : Plain(k)' <=> Plain(k)
           /\ \A k : TokenBefore(k)' <=> TokenBefore(k)
           /\ Sensitive' <=> Sensitive
<1>1. \A k : MayStart(k)' <=> MayStart(k)
  BY DEF MayStart
<1>2. \A k : Authority(k)' <=> Authority(k)
  BY DEF Authority
<1>3. \A k : UrlStart(k)' <=> UrlStart(k)
  BY <1>1, <1>2 DEF UrlStart
<1>4. \A k : InUrl(k)' <=> InUrl(k)
  BY <1>3 DEF InUrl
<1>5. \A k : Plain(k)' <=> Plain(k)
  BY <1>4 DEF Plain
<1>6. \A k : TokenBefore(k)' <=> TokenBefore(k)
  BY <1>5 DEF TokenBefore
<1>7. Sensitive' <=> Sensitive
  BY <1>5 DEF Sensitive, TokenBefore
<1> QED BY <1>1, <1>2, <1>3, <1>4, <1>5, <1>6, <1>7

-----------------------------------------------------------------------------
(***************************************************************************)
(* URLs and tokens of a text                                               *)
(***************************************************************************)
\* Bytes of which none counts add no token.
LEMMA NoTokenAdded ==
    ASSUME NEW n \in Nat, NEW m \in Nat, n <= m,
           ~TokenBefore(n), \A j \in n .. m - 1 : ~Plain(j)
    PROVE  ~TokenBefore(m)
<1> SUFFICES ASSUME NEW k \in 1 .. m, k + Limit <= m, \A j \in k .. k + Limit - 1 : Plain(j)
             PROVE  FALSE
  BY DEF TokenBefore
<1>1. Plain(k + Limit - 1)
  BY LimitAssumption
<1>2. k + Limit <= n
  BY <1>1, LimitAssumption
<1>3. k \in 1 .. n
  BY <1>2, LimitAssumption
<1> QED BY <1>2, <1>3 DEF TokenBefore

\* A URL goes on with every byte that may be in one.
LEMMA UrlGoesOn ==
    ASSUME NEW k \in Nat, k >= 1, InUrl(k - 1), At(k, Url)
    PROVE  InUrl(k)
BY DEF InUrl

\* A URL that reaches byte k + 1 has begun there or reaches k.
LEMMA UrlComesFrom ==
    ASSUME NEW k \in Nat, k >= 1, InUrl(k + 1)
    PROVE  UrlStart(k + 1) \/ InUrl(k)
<1>1. PICK s \in 1 .. k + 1 : UrlStart(s) /\ \A j \in s .. k + 1 : At(j, Url)
  BY DEF InUrl
<1>2. CASE s = k + 1
  BY <1>1, <1>2
<1>3. CASE s # k + 1
  BY <1>1, <1>3 DEF InUrl
<1> QED BY <1>2, <1>3

\* The scheme loop finds the one place where "://" can follow.
LEMMA SchemeDecides ==
    ASSUME bytes \in Seq(Classes), NEW s \in Nat, NEW e \in Nat, s >= 1, s < e,
           \A j \in s + 1 .. e - 1 : At(j, Scheme), ~At(e, Scheme), ~Authority(e)
    PROVE  ~UrlStart(s)
<1> SUFFICES ASSUME NEW f \in DOMAIN bytes, s < f, Authority(f),
                    \A j \in s + 1 .. f - 1 : At(j, Scheme)
             PROVE  FALSE
  BY DEF UrlStart
<1>1. f \in Nat
  OBVIOUS
<1>2. ~At(f, Scheme)
  BY DEF Authority, Scheme, Alnum
<1>3. f = e
  BY <1>1, <1>2
<1> QED BY <1>3

-----------------------------------------------------------------------------
(***************************************************************************)
(* One byte that is in no URL                                              *)
(***************************************************************************)
LEMMA CountInv ==
    ASSUME TypeOK, bytes' = bytes, textual' = textual, end' \in 0 .. Len(bytes) + 1,
           i <= Len(bytes), textual, RunRight, ~InUrl(i), Count
    PROVE  IInv'
<1> USE SameText
<1>0. i \in Nat /\ i >= 1 /\ run \in Nat /\ Len(bytes) \in Nat /\ Limit \in Nat \ {0}
  BY LimitAssumption DEF TypeOK
<1>1. Outside' \/ pc' = "done"
  <2>1. i' = i + 1 \/ pc' = "done"
    BY DEF Count
  <2>2. InUrl(i + 1) => UrlStart(i + 1)
    BY <1>0, UrlComesFrom
  <2> QED BY <2>1, <2>2 DEF Outside
<1>2. CASE At(i, Token) /\ run + 1 >= Limit
  <2>1. run + 1 = Limit /\ Plain(i)
    BY <1>0, <1>2 DEF RunRight, Plain
  <2>2. \A j \in i - run .. i : Plain(j)
    BY <1>0, <2>1 DEF RunRight
  <2>3. Sensitive
    <3>1. i - run \in 1 .. Len(bytes) + 1 /\ (i - run) + Limit = i + 1
      BY <1>0, <2>1 DEF RunRight
    <3>2. \A j \in i - run .. (i - run) + Limit - 1 : Plain(j)
      BY <1>0, <2>2, <3>1
    <3>3. (i - run) + Limit <= Len(bytes) + 1
      BY <1>0, <3>1
    <3> QED BY <3>1, <3>2, <3>3 DEF Sensitive, TokenBefore
  <2>4. found' /\ pc' = "done" /\ run' = run + 1 /\ i' = i
    BY <1>2 DEF Count
  <2>5. VerdictRight'
    BY <2>3, <2>4 DEF VerdictRight, Sensitive
  <2> QED
    BY <1>0, <2>1, <2>4, <2>5 DEF IInv, TypeOK, InLoop, InScheme, InBody
<1>3. CASE At(i, Token) /\ ~(run + 1 >= Limit)
  <2>1. ~found' /\ found' \in BOOLEAN /\ pc' = "loop" /\ run' = run + 1 /\ i' = i + 1 /\ Plain(i)
    <3>1. run' = run + 1
      BY <1>3 DEF Count
    <3>2. found' = (run' >= Limit)
      BY DEF Count
    <3>3. (run' >= Limit) = FALSE
      BY <1>3, <3>1
    <3>4. found' = FALSE
      BY <3>2, <3>3, Zenon
    <3>5. Plain(i)
      BY <1>3 DEF Plain
    <3> QED BY <3>1, <3>4, <3>5 DEF Count
  <2>2. ~TokenBefore(i + 1)
    <3> SUFFICES ASSUME NEW k \in 1 .. i + 1, k + Limit <= i + 1,
                        \A j \in k .. k + Limit - 1 : Plain(j)
                 PROVE  FALSE
      BY DEF TokenBefore
    <3>1. k + Limit = i + 1
      <4>1. ASSUME k + Limit <= i PROVE FALSE
        <5>1. k \in 1 .. i
          BY <1>0, <4>1
        <5> QED BY <4>1, <5>1 DEF RunRight, TokenBefore
      <4> QED BY <1>0, <4>1
    <3>2. i - run > 1 /\ i - run - 1 \in k .. k + Limit - 1
      BY <1>0, <1>3, <3>1
    <3> QED BY <3>2 DEF RunRight
  <2>3. RunRight'
    <3>1. run + 1 < Limit /\ run + 1 < i + 1 /\ (i + 1) - (run + 1) = i - run
      BY <1>0, <1>3 DEF RunRight
    <3>2. \A j \in i - run .. (i + 1) - 1 : Plain(j)
      BY <1>0, <2>1 DEF RunRight
    <3>3. i - run > 1 => ~Plain(i - run - 1)
      BY DEF RunRight
    <3> QED BY <2>1, <2>2, <3>1, <3>2, <3>3 DEF RunRight
  <2> QED
    BY <1>0, <1>1, <1>3, <2>1, <2>3 DEF IInv, TypeOK, InLoop, InScheme, InBody, VerdictRight
<1>4. CASE ~At(i, Token)
  <2>1. ~found' /\ found' \in BOOLEAN /\ pc' = "loop" /\ run' = 0 /\ i' = i + 1
    <3>1. run' = 0
      BY <1>4 DEF Count
    <3>2. found' = (run' >= Limit)
      BY DEF Count
    <3>3. (run' >= Limit) = FALSE
      BY <1>0, <3>1
    <3>4. found' = FALSE
      BY <3>2, <3>3, Zenon
    <3> QED BY <3>1, <3>4 DEF Count
  <2>2. ~Plain(i)
    BY <1>4 DEF Plain
  <2>3. ~TokenBefore(i + 1)
    BY <1>0, <2>2, NoTokenAdded DEF RunRight
  <2>4. RunRight'
    BY <1>0, <2>1, <2>2, <2>3 DEF RunRight
  <2> QED
    BY <1>0, <1>1, <2>1, <2>4 DEF IInv, TypeOK, InLoop, InScheme, InBody, VerdictRight
<1> QED BY <1>2, <1>3, <1>4

-----------------------------------------------------------------------------
(***************************************************************************)
(* The actions                                                             *)
(***************************************************************************)
LEMMA InitInv == Init => IInv
<1> SUFFICES ASSUME Init PROVE IInv
  OBVIOUS
<1>1. TypeOK
  <2>1. bytes \in Seq(Classes) /\ Len(bytes) \in Nat
    BY InputAssumption DEF Init
  <2>2. pc \in {"loop", "scheme", "url", "done"}
    BY DEF Init
  <2>3. run = 0 /\ i = 1 /\ end = 0 /\ textual \in BOOLEAN /\ found \in BOOLEAN
    BY DEF Init
  <2> QED BY <2>1, <2>2, <2>3, LimitAssumption DEF TypeOK
<1>2. RunRight
  BY LimitAssumption DEF Init, RunRight, TokenBefore
<1>3. Outside
  BY DEF Init, Outside, InUrl
<1> QED
  BY <1>1, <1>2, <1>3 DEF Init, IInv, InLoop, InScheme, InBody, VerdictRight

LEMMA StepInv ==
    ASSUME IInv, Step PROVE IInv'
<1> USE SameText
<1>1. TypeOK /\ textual /\ RunRight /\ Outside /\ i <= Len(bytes) /\ bytes' = bytes
  BY DEF IInv, InLoop, Step
<1>2. CASE MayStart(i)
  <2>1. pc' = "scheme" /\ end' = i + 1 /\ UNCHANGED <<bytes, textual, i, run, found>>
    BY <1>2 DEF Step
  <2>2. TypeOK'
    BY <1>1, <2>1 DEF TypeOK
  <2>3. RunRight' /\ Outside'
    BY <1>1, <2>1 DEF RunRight, Outside
  <2>4. InScheme'
    BY <1>1, <1>2, <2>1 DEF InScheme, TypeOK
  <2> QED
    BY <2>1, <2>2, <2>3, <2>4 DEF IInv, InLoop, InBody, VerdictRight, Step
<1>3. CASE ~MayStart(i)
  <2>1. ~InUrl(i)
    BY <1>1, <1>3 DEF Outside, UrlStart
  <2>2. Count /\ textual' = textual /\ end' = end
    BY <1>3 DEF Step
  <2> QED BY <1>1, <2>1, <2>2, CountInv DEF TypeOK
<1> QED BY <1>2, <1>3

LEMMA ReadSchemeInv ==
    ASSUME IInv, ReadScheme PROVE IInv'
<1> USE SameText
<1>1. end' = end + 1 /\ end \in DOMAIN bytes /\ UNCHANGED <<bytes, textual, i, run, pc, found>>
  BY DEF ReadScheme
<1>2. TypeOK'
  BY <1>1 DEF IInv, TypeOK
<1>3. InLoop'
  BY <1>1 DEF IInv, InLoop, RunRight, Outside
<1>4. InScheme'
  BY <1>1 DEF IInv, InScheme, ReadScheme, TypeOK
<1> QED
  BY <1>1, <1>2, <1>3, <1>4 DEF IInv, InBody, VerdictRight, ReadScheme

LEMMA SchemeEndInv ==
    ASSUME IInv, SchemeEnd PROVE IInv'
<1> USE SameText
<1>1. /\ TypeOK /\ textual /\ ~found /\ RunRight /\ Outside /\ MayStart(i) /\ end > i
      /\ \A j \in i + 1 .. end - 1 : At(j, Scheme)
      /\ bytes' = bytes /\ textual' = textual /\ end' = end
  BY DEF IInv, InLoop, InScheme, SchemeEnd
<1>2. i \in Nat /\ i >= 1 /\ end \in Nat /\ i \in DOMAIN bytes
  BY <1>1 DEF TypeOK, MayStart
<1>3. CASE Authority(end)
  <2>1. i' = end + 3 /\ pc' = "url" /\ UNCHANGED <<run, found>>
    BY <1>3 DEF SchemeEnd
  <2>2. UrlStart(i)
    BY <1>1, <1>3 DEF UrlStart, Authority
  <2>3. \A j \in i .. end + 2 : At(j, Url)
    <3> SUFFICES ASSUME NEW j \in i .. end + 2 PROVE At(j, Url)
      OBVIOUS
    <3>1. CASE j = i
      BY <1>1, <3>1 DEF MayStart, Url, Classes
    <3>2. CASE j \in i + 1 .. end - 1
      BY <1>1, <3>2 DEF Scheme, Alnum, Url, Classes
    <3>3. CASE j = end \/ j = end + 1 \/ j = end + 2
      BY <1>3, <3>3 DEF Authority, Url, Classes
    <3> QED BY <1>2, <3>1, <3>2, <3>3
  <2>4. \A j \in i .. end + 2 : InUrl(j)
    BY <1>2, <2>2, <2>3 DEF InUrl
  <2>5. ~TokenBefore(end + 3)
    <3>1. \A j \in i .. (end + 3) - 1 : ~Plain(j)
      BY <1>2, <2>4 DEF Plain
    <3> QED BY <1>1, <1>2, <3>1, NoTokenAdded DEF RunRight
  <2>6. end + 3 \in DOMAIN bytes
    BY <1>3 DEF Authority
  <2>7. TypeOK'
    BY <1>1, <2>1, <2>6 DEF TypeOK
  <2>8. InBody'
    BY <1>1, <1>2, <2>1, <2>4, <2>5 DEF InBody
  <2> QED
    BY <2>1, <2>7, <2>8 DEF IInv, InLoop, InScheme, VerdictRight
<1>4. CASE ~Authority(end)
  <2>1. ~UrlStart(i)
    BY <1>1, <1>2, <1>4, SchemeDecides DEF SchemeEnd, TypeOK
  <2>2. ~InUrl(i)
    BY <1>1, <2>1 DEF Outside
  <2>3. Count
    BY <1>4 DEF SchemeEnd
  <2> QED BY <1>1, <1>2, <2>2, <2>3, CountInv DEF TypeOK
<1> QED BY <1>3, <1>4

LEMMA SkipUrlInv ==
    ASSUME IInv, SkipUrl PROVE IInv'
<1> USE SameText
<1>1. /\ TypeOK /\ textual /\ ~found /\ i > 1 /\ ~TokenBefore(i) /\ InUrl(i - 1) /\ At(i, Url)
      /\ i' = i + 1 /\ pc' = "url" /\ UNCHANGED <<bytes, textual, run, end, found>>
  BY DEF IInv, InBody, SkipUrl
<1>2. i \in Nat /\ i \in DOMAIN bytes
  BY <1>1 DEF TypeOK
<1>3. InUrl(i)
  BY <1>1, <1>2, UrlGoesOn
<1>4. ~TokenBefore(i + 1)
  <2>1. \A j \in i .. (i + 1) - 1 : ~Plain(j)
    BY <1>2, <1>3 DEF Plain
  <2> QED BY <1>1, <1>2, <2>1, NoTokenAdded
<1>5. TypeOK'
  BY <1>1, <1>2 DEF TypeOK
<1> QED
  BY <1>1, <1>2, <1>3, <1>4, <1>5 DEF IInv, InLoop, InScheme, InBody, VerdictRight

LEMMA UrlEndInv ==
    ASSUME IInv, UrlEnd PROVE IInv'
<1> USE SameText
<1>1. /\ TypeOK /\ textual /\ ~found /\ i > 1 /\ ~TokenBefore(i) /\ InUrl(i - 1) /\ ~At(i, Url)
      /\ run' = 0 /\ pc' = "loop" /\ UNCHANGED <<bytes, textual, i, end, found>>
  BY DEF IInv, InBody, UrlEnd
<1>2. i \in Nat
  BY <1>1 DEF TypeOK
<1>3. ~InUrl(i)
  BY <1>1, <1>2 DEF InUrl
<1>4. ~Plain(i - 1)
  BY <1>1 DEF Plain
<1>5. RunRight'
  BY <1>1, <1>2, <1>4, LimitAssumption DEF RunRight
<1>6. TypeOK'
  BY <1>1, LimitAssumption DEF TypeOK
<1> QED
  BY <1>1, <1>3, <1>5, <1>6 DEF IInv, InLoop, InScheme, InBody, VerdictRight, Outside

LEMMA FinishInv ==
    ASSUME IInv, Finish PROVE IInv'
<1> USE SameText
<1>1. /\ TypeOK /\ textual /\ ~found /\ ~TokenBefore(i) /\ i > Len(bytes)
      /\ pc' = "done" /\ UNCHANGED <<bytes, textual, i, run, end, found>>
  BY DEF IInv, InLoop, RunRight, Finish
<1>2. i = Len(bytes) + 1
  BY <1>1 DEF TypeOK
<1>3. VerdictRight'
  <2>1. ~Sensitive
    BY <1>1, <1>2 DEF Sensitive
  <2>2. found' = FALSE
    BY <1>1 DEF TypeOK
  <2>3. ~Sensitive'
    BY <1>1, <2>1
  <2>4. (textual' /\ Sensitive') = FALSE
    BY <2>3, Zenon
  <2> QED BY <2>2, <2>4, Zenon DEF VerdictRight
<1> QED
  BY <1>1, <1>3 DEF IInv, TypeOK, InLoop, InScheme, InBody

-----------------------------------------------------------------------------
\* The scan keeps its knowledge of the bytes it has passed (contains_sensitive_text,
\* the loops).
THEOREM IInvHolds == Spec => []IInv
<1>1. IInv /\ [Next]_vars => IInv'
  <2> SUFFICES ASSUME IInv, [Next]_vars PROVE IInv'
    OBVIOUS
  <2>1. CASE Step        BY <2>1, StepInv
  <2>2. CASE ReadScheme  BY <2>2, ReadSchemeInv
  <2>3. CASE SchemeEnd   BY <2>3, SchemeEndInv
  <2>4. CASE SkipUrl     BY <2>4, SkipUrlInv
  <2>5. CASE UrlEnd      BY <2>5, UrlEndInv
  <2>6. CASE Finish      BY <2>6, FinishInv
  <2>7. CASE UNCHANGED vars
    BY <2>7, SameText DEF vars, IInv, TypeOK, InLoop, InScheme, InBody, VerdictRight, RunRight,
                          Outside, Sensitive
  <2> QED BY <2>1, <2>2, <2>3, <2>4, <2>5, <2>6, <2>7 DEF Next
<1> QED BY <1>1, InitInv, PTL DEF Spec

\* The scan stays inside of its text and never counts beyond the limit
\* (contains_sensitive_text, the indices of the loops).
THEOREM TypeCorrect == Spec => []TypeOK
<1>1. IInv => TypeOK
  BY DEF IInv
<1> QED BY <1>1, IInvHolds, PTL

\* A text is called sensitive if and only if it has a long enough run outside of
\* its URLs (contains_sensitive_text, its answer).
THEOREM VerdictRightHolds == Spec => []VerdictRight
<1>1. IInv => VerdictRight
  BY DEF IInv
<1> QED BY <1>1, IInvHolds, PTL
=============================================================================
