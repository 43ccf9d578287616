-------------------------- MODULE ClipboardProofs --------------------------
(***************************************************************************)
(* What the history gets, for every choice of the mimes, contents, limits, *)
(* filters, copies and restores, whatever the selection does while it is   *)
(* read and whatever fails.  Each invariant rests on those before it:      *)
(*                                                                         *)
(*   CleanInv    no secret in any place a captured format can be in; needs *)
(*               no types but that the queues are sequences                *)
(*   Typed       the types, and that the current owner is not cancelled    *)
(*   MapInv      what the map of offers holds, from what is on the wire    *)
(*   InOrder     wire, drain, channel and history are stages of one queue  *)
(*   ContentInv  what is read, queued and stored, compared with Outcome    *)
(*   EchoInv     who has marked, and what the last mark says of the marker *)
(***************************************************************************)
EXTENDS Clipboard, OrderedProofs, TLAPS

IsSeq(s) == \E S : s \in Seq(S)
IsDrain(d) == \E A, B, C, D : d \in [offer : A, todo : B, got : C, total : D]

\* Formats F that come from offer n hold nothing secret.
Clean(n, F) ==
    /\ n \in DOMAIN offered /\ ~Sensitive(offered[n].formats)
    /\ \A f \in F : ~Secret(f[1], f[2])

Shape ==
    /\ IsSeq(offered) /\ IsSeq(wire) /\ IsSeq(channel) /\ IsSeq(captured)
    /\ drain # None => IsDrain(drain) /\ IsSeq(drain.got)
    /\ \A k \in DOMAIN wire : wire[k].offer \in DOMAIN offered
ReadClean == drain # None => Clean(drain.offer, FormatsOf(drain.got))
ChannelClean == \A k \in DOMAIN channel : Clean(channel[k].offer, FormatsOf(channel[k].formats))
CapturedClean == \A k \in DOMAIN captured : Clean(captured[k].offer, captured[k].formats)
CleanInv == Shape /\ ReadClean /\ ChannelClean /\ CapturedClean

-----------------------------------------------------------------------------
LEMMA AppendSeq ==
  ASSUME NEW s, IsSeq(s), NEW x
  PROVE  /\ IsSeq(Append(s, x)) /\ DOMAIN s \subseteq DOMAIN Append(s, x)
         /\ Len(s) + 1 \in DOMAIN Append(s, x) /\ Append(s, x)[Len(s) + 1] = x
         /\ \A k \in DOMAIN s : Append(s, x)[k] = s[k]
         /\ \A k \in DOMAIN Append(s, x) : k \in DOMAIN s \/ k = Len(s) + 1
<1>1. PICK S : s \in Seq(S)
  BY DEF IsSeq
<1>2. s \in Seq(S \cup {x})
  BY <1>1
<1>3. Append(s, x) \in Seq(S \cup {x})
  BY <1>2
<1> QED
  BY <1>2, <1>3 DEF IsSeq

LEMMA TailSeq ==
  ASSUME NEW s, IsSeq(s), s # <<>>
  PROVE  /\ IsSeq(Tail(s)) /\ 1 \in DOMAIN s /\ Head(s) = s[1]
         /\ \A k \in DOMAIN Tail(s) : k + 1 \in DOMAIN s /\ Tail(s)[k] = s[k + 1]
<1>1. PICK S : s \in Seq(S)
  BY DEF IsSeq
<1> QED
  BY <1>1 DEF IsSeq

\* An offer that is announced changes nothing about those before it.
LEMMA AnnounceClean ==
  ASSUME CleanInv, NEW owner, NEW l, NEW event, Announce(owner, l, event),
         UNCHANGED <<drain, channel, captured>>
  PROVE  CleanInv'
<1> DEFINE e == [event |-> event, offer |-> Len(offered) + 1]
<1> DEFINE o == [owner |-> owner, formats |-> l]
<1>1. offered' = Append(offered, o) /\ wire' = Append(wire, e)
  BY DEF Announce
<1>2. e.offer = Len(offered) + 1
  OBVIOUS
<1> HIDE DEF e, o
<1>3. /\ IsSeq(offered') /\ DOMAIN offered \subseteq DOMAIN offered'
      /\ Len(offered) + 1 \in DOMAIN offered'
      /\ \A n \in DOMAIN offered : offered'[n] = offered[n]
  BY <1>1, AppendSeq DEF CleanInv, Shape
<1>4. /\ IsSeq(wire')
      /\ \A k \in DOMAIN wire' : (k \in DOMAIN wire /\ wire'[k] = wire[k]) \/ wire'[k] = e
  BY <1>1, AppendSeq DEF CleanInv, Shape
<1>5. Shape'
  BY <1>2, <1>3, <1>4 DEF CleanInv, Shape
<1>6. \A n, F : Clean(n, F) => Clean(n, F)'
  BY <1>3 DEF Clean, Sensitive, Secret
<1>7. ReadClean' /\ ChannelClean' /\ CapturedClean'
  BY <1>6 DEF CleanInv, ReadClean, ChannelClean, CapturedClean
<1> QED
  BY <1>5, <1>7 DEF CleanInv

\* Nor does a step that leaves the queues and what is being read alone.
LEMMA OtherClean ==
  ASSUME CleanInv, UNCHANGED <<offered, wire, drain, channel, captured>>
  PROVE  CleanInv'
BY DEF CleanInv, Shape, ReadClean, ChannelClean, CapturedClean, Clean

LEMMA DispatchClean ==
  ASSUME CleanInv, NEW event, Dispatch(event), UNCHANGED <<offered, channel, captured>>
  PROVE  /\ Head(wire).offer \in DOMAIN offered
         /\ IsSeq(wire') /\ \A k \in DOMAIN wire' : wire'[k].offer \in DOMAIN offered'
         /\ ChannelClean' /\ CapturedClean'
<1>1. /\ Head(wire).offer \in DOMAIN offered
      /\ IsSeq(wire') /\ \A k \in DOMAIN wire' : wire'[k].offer \in DOMAIN offered
  BY TailSeq DEF CleanInv, Shape, Dispatch
<1> QED
  BY <1>1 DEF CleanInv, ChannelClean, CapturedClean, Clean

LEMMA SelectionClean == ASSUME CleanInv, Selection PROVE CleanInv'
<1> PICK n : n = Head(wire).offer
  OBVIOUS
<1> DEFINE d == [offer |-> n, todo |-> Accepted(offered[n].formats), got |-> <<>>, total |-> 0]
<1>1. Dispatch("selection") /\ UNCHANGED <<offered, channel, captured>>
  BY DEF Selection, consumer
<1>2. /\ n \in DOMAIN offered
      /\ IsSeq(wire') /\ \A k \in DOMAIN wire' : wire'[k].offer \in DOMAIN offered'
      /\ ChannelClean' /\ CapturedClean'
  BY <1>1, DispatchClean
<1>3. CASE UNCHANGED drain
  BY <1>1, <1>2, <1>3 DEF CleanInv, Shape, ReadClean, Clean
<1>4. CASE drain' = d /\ ~Skipped(offered[n].formats)
  <2>1. IsDrain(d) /\ d.got = <<>> /\ d.offer = n
    <3>1. d \in [offer : {n}, todo : {d.todo}, got : {<<>>}, total : {0}]
      OBVIOUS
    <3> QED
      BY <3>1, Zenon DEF IsDrain
  <2>2. IsSeq(<<>>)
    <3>1. <<>> \in Seq({})
      OBVIOUS
    <3> QED
      BY <3>1, Zenon DEF IsSeq
  <2>3. ~Sensitive(offered[n].formats)
    BY <1>4 DEF Skipped
  <2> HIDE DEF d
  <2>4. drain'.offer = n /\ drain'.got = <<>>
    BY <1>4, <2>1
  <2>5. Clean(drain.offer, FormatsOf(drain.got))'
    BY <1>1, <1>2, <2>3, <2>4 DEF Clean, FormatsOf
  <2> QED
    BY <1>1, <1>2, <1>4, <2>1, <2>2, <2>5 DEF CleanInv, Shape, ReadClean
<1> QED
  BY <1>3, <1>4 DEF Selection

LEMMA ReadFormatClean == ASSUME CleanInv, ReadFormat PROVE CleanInv'
<1>1. /\ drain # None /\ IsDrain(drain) /\ IsSeq(drain.got)
      /\ UNCHANGED <<offered, wire, channel, captured>>
  BY DEF CleanInv, Shape, ReadFormat, selection, consumer
<1>2. SUFFICES (drain' # None => IsDrain(drain) /\ IsDrain(drain') /\ IsSeq(drain'.got) /\ ReadClean')
  BY <1>1 DEF CleanInv, Shape, ReadClean, ChannelClean, CapturedClean, Clean
<1>3. PICK A, B, C, D : drain \in [offer : A, todo : B, got : C, total : D]
  BY <1>1 DEF IsDrain
<1>4. ASSUME NEW t, drain' = [drain EXCEPT !.todo = t]
      PROVE  IsDrain(drain') /\ IsSeq(drain'.got) /\ ReadClean'
  <2>1. drain' \in [offer : A, todo : {t}, got : C, total : D]
    BY <1>3, <1>4
  <2>2. drain'.got = drain.got /\ drain'.offer = drain.offer
    BY <1>3, <1>4
  <2> QED
    BY <1>1, <2>1, <2>2, Zenon DEF IsDrain, CleanInv, ReadClean, Clean
<1>5. ASSUME NEW m, NEW c, ~Secret(m, c), Retain(m, c)
      PROVE  IsDrain(drain') /\ IsSeq(drain'.got) /\ ReadClean'
  <2> DEFINE f == <<m, c>>
  <2>1. drain' = [drain EXCEPT !.todo = Tail(@), !.got = Append(@, f), !.total = @ + Size[c]]
    BY <1>5 DEF Retain
  <2> HIDE DEF f
  <2>2. drain' \in [offer : A, todo : {drain'.todo}, got : {drain'.got}, total : {drain'.total}]
    BY <1>3, <2>1
  <2>3. drain'.got = Append(drain.got, f) /\ drain'.offer = drain.offer
    BY <1>3, <2>1
  <2>4. IsSeq(drain'.got) /\ FormatsOf(drain'.got) \subseteq FormatsOf(drain.got) \cup {f}
    BY <1>1, <2>3, AppendSeq DEF FormatsOf
  <2>5. ~Secret(f[1], f[2])
    BY <1>5 DEF f
  <2>6. Clean(drain.offer, FormatsOf(drain.got))
    BY <1>1 DEF CleanInv, ReadClean
  <2>7. Clean(drain.offer, FormatsOf(drain.got))'
    BY <1>1, <2>3, <2>4, <2>5, <2>6 DEF Clean
  <2> QED
    BY <2>2, <2>3, <2>4, <2>7, Zenon DEF IsDrain, ReadClean
<1>6. PICK c \in Received(drain.offer, Head(drain.todo)) :
        \/ drain' = [drain EXCEPT !.todo = Tail(drain.todo)]
        \/ drain' = [drain EXCEPT !.todo = <<>>]
        \/ drain' = None
        \/ ~Secret(Base[Head(drain.todo)], c) /\ Retain(Base[Head(drain.todo)], c)
  BY DEF ReadFormat, TooLarge, Discard
<1> QED
  BY <1>1, <1>4, <1>5, <1>6

LEMMA PushClean == ASSUME CleanInv, Push PROVE CleanInv'
<1> DEFINE x == [offer |-> drain.offer, formats |-> drain.got]
<1>1. /\ drain # None /\ drain' = None /\ UNCHANGED <<offered, wire, captured>>
      /\ channel' = channel \/ channel' = Append(channel, x)
  BY DEF Push, Discard, selection, consumer
<1>2. x.offer = drain.offer /\ x.formats = drain.got
  OBVIOUS
<1> HIDE DEF x
<1>3. /\ IsSeq(channel')
      /\ \A k \in DOMAIN channel' : (k \in DOMAIN channel /\ channel'[k] = channel[k]) \/ channel'[k] = x
  <2>1. CASE channel' = channel
    BY <2>1 DEF CleanInv, Shape
  <2>2. CASE channel' = Append(channel, x)
    BY <2>2, AppendSeq DEF CleanInv, Shape
  <2> QED
    BY <1>1, <2>1, <2>2
<1>4. Clean(x.offer, FormatsOf(x.formats))
  BY <1>1, <1>2 DEF CleanInv, ReadClean
<1>5. ChannelClean'
  BY <1>1, <1>3, <1>4 DEF CleanInv, ChannelClean, Clean
<1> QED
  BY <1>1, <1>3, <1>5 DEF CleanInv, Shape, ReadClean, CapturedClean, Clean

LEMMA ConsumeClean == ASSUME CleanInv, Consume PROVE CleanInv'
<1> PICK n, F : n = Head(channel).offer /\ F = FormatsOf(Head(channel).formats)
  OBVIOUS
<1> DEFINE x == [offer |-> n, formats |-> F, marks |-> Len(marks)]
<1>1. /\ channel # <<>> /\ channel' = Tail(channel) /\ UNCHANGED <<offered, wire, drain>>
      /\ captured' = captured \/ captured' = Append(captured, x)
  BY DEF Consume, selection, capture
<1>2. x.offer = n /\ x.formats = F
  OBVIOUS
<1>3. /\ IsSeq(channel') /\ 1 \in DOMAIN channel /\ Head(channel) = channel[1]
      /\ \A k \in DOMAIN channel' : k + 1 \in DOMAIN channel /\ channel'[k] = channel[k + 1]
  BY <1>1, TailSeq DEF CleanInv, Shape
<1>4. Clean(n, F)
  BY <1>3 DEF CleanInv, ChannelClean
<1> HIDE DEF x
<1>5. /\ IsSeq(captured')
      /\ \A k \in DOMAIN captured' :
             (k \in DOMAIN captured /\ captured'[k] = captured[k]) \/ captured'[k] = x
  <2>1. CASE captured' = captured
    BY <2>1 DEF CleanInv, Shape
  <2>2. CASE captured' = Append(captured, x)
    BY <2>2, AppendSeq DEF CleanInv, Shape
  <2> QED
    BY <1>1, <2>1, <2>2
<1>6. ChannelClean' /\ CapturedClean'
  BY <1>1, <1>2, <1>3, <1>4, <1>5 DEF CleanInv, ChannelClean, CapturedClean, Clean
<1> QED
  BY <1>1, <1>3, <1>5, <1>6 DEF CleanInv, Shape, ReadClean, Clean

LEMMA InitClean == Init => CleanInv
<1>1. IsSeq(<<>>)
  <2>1. <<>> \in Seq({})
    OBVIOUS
  <2> QED
    BY <2>1, Zenon DEF IsSeq
<1> QED
  BY <1>1 DEF Init, CleanInv, Shape, ReadClean, ChannelClean, CapturedClean

LEMMA NextClean == CleanInv /\ [Next]_vars => CleanInv'
<1> SUFFICES ASSUME CleanInv, [Next]_vars PROVE CleanInv'
  OBVIOUS
<1> USE DEF capture, consumer
<1>1. CASE Copy
  BY <1>1, AnnounceClean DEF Copy, BecomeSelection
<1>2. CASE SelectPrimary
  BY <1>2, AnnounceClean DEF SelectPrimary
<1>3. CASE Clear
  BY <1>3, AnnounceClean DEF Clear, BecomeSelection
<1>4. CASE PrimarySelection
  BY <1>4, DispatchClean DEF PrimarySelection, CleanInv, Shape, ReadClean, Clean
<1>5. CASE Selection
  BY <1>5, SelectionClean
<1>6. CASE ReadFormat
  BY <1>6, ReadFormatClean
<1>7. CASE Push
  BY <1>7, PushClean
<1>8. CASE Consume
  BY <1>8, ConsumeClean
<1>9. ASSUME NEW r \in Restores, SetSelection(r) PROVE CleanInv'
  BY <1>9, AnnounceClean DEF SetSelection, BecomeSelection
<1>10. ASSUME NEW r \in Restores, Load(r) \/ Mark(r) \/ RestoreFails(r) \/ Cancelled(r)
       PROVE  CleanInv'
  BY <1>10, OtherClean DEF Load, Mark, RestoreFails, Cancelled, selection
<1>11. CASE UNCHANGED vars
  BY <1>11, OtherClean DEF vars, selection
<1> QED
  BY <1>1, <1>2, <1>3, <1>4, <1>5, <1>6, <1>7, <1>8, <1>9, <1>10, <1>11
  DEF Next, CaptureThread, RestoreThread

-----------------------------------------------------------------------------
\* No selection with a hint, and no secret text, is ever stored, for any filter
\* and however the selection changes under the capture thread.
THEOREM NothingSecretHolds == Spec => []NothingSecret
<1>1. CleanInv => NothingSecret
  BY DEF CleanInv, CapturedClean, Clean, NothingSecret
<1> QED
  BY <1>1, InitClean, NextClean, PTL DEF Spec
-----------------------------------------------------------------------------

LEMMA AcceptedType ==
  ASSUME NEW l \in Seq(Format)
  PROVE  /\ Accepted(l) \in Seq(Mimes)
         /\ DOMAIN Accepted(l) = 1 .. Len(Accepted(l)) /\ Len(Accepted(l)) \in Nat
         /\ \A k \in DOMAIN Accepted(l) : Accepted(l)[k] \in MimesOf(l)
<1> DEFINE at == Ascending(Wanted(l))
<1>1. Wanted(l) \in SUBSET (1 .. Len(l)) /\ Len(l) \in Nat
  BY DEF Wanted
<1>2. at \in Seq(Wanted(l))
  BY <1>1, AscendingLists
<1>3. ASSUME NEW n \in DOMAIN at PROVE l[at[n]][1] \in Mimes /\ l[at[n]][1] \in MimesOf(l)
  <2>1. at[n] \in DOMAIN l /\ l[at[n]] \in Format
    BY <1>1, <1>2
  <2> QED
    BY <2>1 DEF Format, MimesOf
<1>4. Accepted(l) = [n \in DOMAIN at |-> l[at[n]][1]]
  BY DEF Accepted
<1> HIDE DEF at
<1> QED
  BY <1>2, <1>3, <1>4

\* What an offer has for a mime is a content, one of its own if it offers that.
LEMMA ContentType ==
  ASSUME NEW l \in Seq(Format), NEW m
  PROVE  Content(l, m) \in Contents
<1>1. CASE m \in MimesOf(l)
  <2>1. PICK k \in DOMAIN l : l[k][1] = m
    BY <1>1 DEF MimesOf
  <2>2. l[k] \in FormatsOf(l) /\ FormatsOf(l) \subseteq Format
    BY DEF FormatsOf
  <2>3. (CHOOSE f \in FormatsOf(l) : f[1] = m) \in Format
    BY <2>1, <2>2
  <2> QED
    BY <1>1, <2>3 DEF Content, Format
<1>2. CASE m \notin MimesOf(l)
  BY <1>2, ContentAssumption DEF Content
<1> QED
  BY <1>1, <1>2

-----------------------------------------------------------------------------
(***************************************************************************)
(* Types.  A restore is only cancelled when it owned the selection.        *)
(***************************************************************************)
CurrentOwner == \A r \in Restores : r \in Owner(current) => pc[r] = "owner" /\ r \notin cancelled
Typed == TypeOK /\ CurrentOwner

\* Formats that are kept in an order are the formats of a set.
LEMMA OrdersType ==
  ASSUME NEW item \in SUBSET Format, NEW S \in SUBSET item
  PROVE  /\ Cardinality(S) \in Nat
         /\ \A l \in Orders(S) : l \in Seq(Format) /\ (l = <<>> => S = {})
<1>1. IsFiniteSet(Format)
  BY FiniteAssumption, FS_Product DEF Format
<1>2. Cardinality(S) \in Nat
  BY <1>1, FS_Subset, FS_CardinalityType
<1>3. ASSUME NEW l \in Orders(S) PROVE l \in Seq(Format) /\ (l = <<>> => S = {})
  <2>1. l \in [1 .. Cardinality(S) -> S] /\ FormatsOf(l) = S
    BY DEF Orders
  <2> QED
    BY <1>2, <2>1 DEF FormatsOf
<1> QED
  BY <1>2, <1>3

LEMMA FormatsOfType ==
  ASSUME NEW l \in Seq(Format)
  PROVE  FormatsOf(l) \subseteq Format /\ (l # <<>> => FormatsOf(l) # {})
<1>1. l # <<>> => 1 \in DOMAIN l
  OBVIOUS
<1>2. \A k \in DOMAIN l : l[k] \in Format
  OBVIOUS
<1> QED
  BY <1>1, <1>2 DEF FormatsOf

LEMMA InitTyped == Init => Typed
BY BoundAssumption DEF Init, Typed, TypeOK, CurrentOwner, Owner

LEMMA SeqWider ==
  ASSUME NEW A, NEW B, A \subseteq B, NEW s \in Seq(A)
  PROVE  s \in Seq(B)
<1>1. \A k \in 1 .. Len(s) : s[k] \in B
  OBVIOUS
<1>2. Len(s) \in Nat /\ s = [k \in 1 .. Len(s) |-> s[k]]
  OBVIOUS
<1> QED
  BY <1>1, <1>2

\* A selection is announced: the offer gets the next number.
LEMMA AnnounceTyped ==
  ASSUME TypeOK, NEW owner \in Owners, NEW l \in Seq(Format), NEW event \in Events,
         Announce(owner, l, event)
  PROVE  /\ offered' \in Seq([owner : Owners, formats : Seq(Format)])
         /\ Len(offered') <= MaxOffers /\ Len(offered') = Len(offered) + 1
         /\ DOMAIN offered \subseteq DOMAIN offered'
         /\ \A n \in DOMAIN offered : offered'[n] = offered[n]
         /\ offered'[Len(offered')].owner = owner
         /\ offered'[Len(offered')].formats = l
         /\ wire' \in Seq([event : Events, offer : DOMAIN offered'])
<1> DEFINE o == [owner |-> owner, formats |-> l]
           e == [event |-> event, offer |-> Len(offered) + 1]
<1>1. offered' = Append(offered, o) /\ wire' = Append(wire, e) /\ Len(offered) < MaxOffers
  BY DEF Announce
<1>2. o \in [owner : Owners, formats : Seq(Format)] /\ o.owner = owner /\ o.formats = l
  OBVIOUS
<1>3. offered \in Seq([owner : Owners, formats : Seq(Format)]) /\ Len(offered) \in Nat
  BY DEF TypeOK
<1> HIDE DEF o
<1>4. /\ offered' \in Seq([owner : Owners, formats : Seq(Format)])
      /\ Len(offered') = Len(offered) + 1 /\ offered'[Len(offered) + 1] = o
      /\ \A n \in DOMAIN offered : offered'[n] = offered[n]
  BY <1>1, <1>2, <1>3
<1>5. /\ DOMAIN offered = 1 .. Len(offered) /\ DOMAIN offered' = 1 .. Len(offered')
      /\ Len(offered) + 1 \in DOMAIN offered' /\ DOMAIN offered \subseteq DOMAIN offered'
  BY <1>3, <1>4
<1>6. e \in [event : Events, offer : DOMAIN offered']
  BY <1>5
<1>7. wire \in Seq([event : Events, offer : DOMAIN offered'])
  <2>1. [event : Events, offer : DOMAIN offered] \subseteq [event : Events, offer : DOMAIN offered']
    BY <1>5
  <2>2. wire \in Seq([event : Events, offer : DOMAIN offered])
    BY DEF TypeOK
  <2> QED
    BY <2>1, <2>2, SeqWider
<1> HIDE DEF e
<1>8. wire' \in Seq([event : Events, offer : DOMAIN offered'])
  BY <1>1, <1>6, <1>7
<1>9. Len(offered') <= MaxOffers
  BY <1>1, <1>3, <1>4, BoundAssumption
<1> QED
  BY <1>2, <1>4, <1>5, <1>8, <1>9

\* What is known of the offers so far stays of its type.
LEMMA AnnounceOthers ==
  ASSUME TypeOK, DOMAIN offered \subseteq DOMAIN offered',
         UNCHANGED <<offers, drain, channel, captured, ignored, broken>>
  PROVE  /\ offers' \subseteq DOMAIN offered'
         /\ drain' \in Drain \cup {None} /\ (drain' # None => drain'.offer \in DOMAIN offered')
         /\ channel' \in Seq([offer : DOMAIN offered', formats : Seq(Format)])
         /\ \A k \in DOMAIN channel' : channel'[k].formats # <<>>
         /\ captured' \in Seq([offer : DOMAIN offered', formats : (SUBSET Format) \ {{}}, marks : Nat])
         /\ ignored' \subseteq DOMAIN offered' /\ broken' \subseteq DOMAIN offered'
<1>1. channel \in Seq([offer : DOMAIN offered', formats : Seq(Format)])
  <2>1. [offer : DOMAIN offered, formats : Seq(Format)]
           \subseteq [offer : DOMAIN offered', formats : Seq(Format)]
    OBVIOUS
  <2>2. channel \in Seq([offer : DOMAIN offered, formats : Seq(Format)])
    BY DEF TypeOK
  <2> QED
    BY <2>1, <2>2, SeqWider
<1>2. captured \in Seq([offer : DOMAIN offered', formats : (SUBSET Format) \ {{}}, marks : Nat])
  <2>1. [offer : DOMAIN offered, formats : (SUBSET Format) \ {{}}, marks : Nat]
           \subseteq [offer : DOMAIN offered', formats : (SUBSET Format) \ {{}}, marks : Nat]
    OBVIOUS
  <2>2. captured \in Seq([offer : DOMAIN offered, formats : (SUBSET Format) \ {{}}, marks : Nat])
    BY DEF TypeOK
  <2> QED
    BY <2>1, <2>2, SeqWider
<1>3. /\ offers' \subseteq DOMAIN offered'
      /\ drain' \in Drain \cup {None} /\ (drain' # None => drain'.offer \in DOMAIN offered')
      /\ \A k \in DOMAIN channel' : channel'[k].formats # <<>>
      /\ ignored' \subseteq DOMAIN offered' /\ broken' \subseteq DOMAIN offered'
  BY DEF TypeOK
<1> QED
  BY <1>1, <1>2, <1>3

\* A new selection: its owner has just set it, and the one before is cancelled.
LEMMA BecomeTyped ==
  ASSUME Typed, NEW owner \in Owners, NEW l \in Seq(Format), BecomeSelection(owner, l),
         UNCHANGED <<offers, drain, channel, captured, ignored, broken>>,
         UNCHANGED <<held, marker, marks, faults>>,
         IF owner \in Restores
         THEN pc[owner] = "spawned" /\ pc' = [pc EXCEPT ![owner] = "owner"]
         ELSE pc' = pc
  PROVE  Typed'
<1>1. /\ offered' \in Seq([owner : Owners, formats : Seq(Format)])
      /\ Len(offered') <= MaxOffers /\ Len(offered') = Len(offered) + 1
      /\ DOMAIN offered \subseteq DOMAIN offered'
      /\ \A n \in DOMAIN offered : offered'[n] = offered[n]
      /\ offered'[Len(offered')].owner = owner
      /\ wire' \in Seq([event : Events, offer : DOMAIN offered'])
  BY AnnounceTyped DEF BecomeSelection, Events, Typed
<1>2. current' = Len(offered') /\ current' \in 0 .. Len(offered')
  BY <1>1 DEF BecomeSelection, Typed, TypeOK
<1>3. Owner(current)' = {owner}
  <2>1. current' \in DOMAIN offered' /\ current' # 0
    BY <1>1, <1>2 DEF Typed, TypeOK
  <2> QED
    BY <1>1, <1>2, <2>1 DEF Owner
<1>4. /\ pc' \in [Restores -> {"idle", "loaded", "spawned", "owner", "done"}]
      /\ \A r \in Restores : pc'[r] \in {"loaded", "spawned"} => held'[r] # <<>>
      /\ \A r \in Restores : pc'[r] = pc[r] \/ (r = owner /\ pc[r] = "spawned" /\ pc'[r] = "owner")
  BY DEF Typed, TypeOK
<1>5. cancelled' \subseteq {r \in Restores : pc'[r] = "owner"}
  <2>1. cancelled' = cancelled \cup (Owner(current) \cap Restores)
    BY DEF BecomeSelection
  <2>2. \A r \in cancelled' : r \in Restores /\ pc[r] = "owner"
    BY <2>1 DEF Typed, TypeOK, CurrentOwner
  <2> QED
    BY <1>4, <2>2
<1>6. CurrentOwner'
  <2> SUFFICES ASSUME NEW r \in Restores, r = owner
               PROVE  pc'[r] = "owner" /\ r \notin cancelled'
    BY <1>3 DEF CurrentOwner
  <2>1. pc[r] = "spawned" /\ pc'[r] = "owner"
    BY DEF Typed, TypeOK
  <2> QED
    BY <2>1 DEF BecomeSelection, Typed, TypeOK, CurrentOwner
<1>7. /\ marker' \in ((SUBSET Format) \ {{}}) \cup {None} /\ marks' \in Seq(Restores)
      /\ held' \in [Restores -> Seq(Format)] /\ faults' \in 0 .. MaxFaults
  BY DEF Typed, TypeOK
<1> QED
  BY <1>1, <1>2, <1>4, <1>5, <1>6, <1>7, AnnounceOthers DEF Typed, TypeOK

\* A step of a restore alone, but not one that sets or loses the selection.
LEMMA RestoreTyped ==
  ASSUME Typed, UNCHANGED <<offered, current, wire>>,
         UNCHANGED <<offers, drain, channel, captured, ignored, broken>>,
         cancelled' \subseteq cancelled, faults' \in 0 .. MaxFaults,
         marker' \in ((SUBSET Format) \ {{}}) \cup {None}, marks' \in Seq(Restores),
         NEW r \in Restores,
         NEW s \in {"idle", "loaded", "spawned", "done"}, pc' = [pc EXCEPT ![r] = s],
         NEW l \in Seq(Format), held' = [held EXCEPT ![r] = l],
         s \in {"loaded", "spawned"} => l # <<>>,
         pc[r] # "owner" \/ (r \in cancelled /\ cancelled' = cancelled \ {r})
  PROVE  Typed'
<1>1. /\ pc' \in [Restores -> {"idle", "loaded", "spawned", "owner", "done"}]
      /\ held' \in [Restores -> Seq(Format)]
  BY DEF Typed, TypeOK
<1>2. \A q \in Restores : pc'[q] \in {"loaded", "spawned"} => held'[q] # <<>>
  BY DEF Typed, TypeOK
<1>3. \A q \in Restores : q # r => pc'[q] = pc[q]
  BY DEF Typed, TypeOK
<1>4. r \notin cancelled'
  BY DEF Typed, TypeOK
<1>5. cancelled' \subseteq {q \in Restores : pc'[q] = "owner"}
  BY <1>3, <1>4 DEF Typed, TypeOK
<1>6. CurrentOwner'
  <2> SUFFICES ASSUME NEW q \in Restores, q \in Owner(current)
               PROVE  pc'[q] = "owner" /\ q \notin cancelled'
    BY DEF CurrentOwner, Owner
  <2>1. pc[q] = "owner" /\ q \notin cancelled
    BY DEF Typed, CurrentOwner
  <2> QED
    BY <1>3, <2>1
<1>7. /\ offered' \in Seq([owner : Owners, formats : Seq(Format)])
      /\ Len(offered') <= MaxOffers /\ current' \in 0 .. Len(offered')
      /\ wire' \in Seq([event : Events, offer : DOMAIN offered'])
  BY DEF Typed, TypeOK
<1> QED
  BY <1>1, <1>2, <1>5, <1>6, <1>7, AnnounceOthers DEF Typed, TypeOK

\* Steps of the capture thread and the consumer leave the restores alone.
LEMMA OthersTyped ==
  ASSUME Typed, UNCHANGED <<offered, current, cancelled, pc, held, marker, marks>>,
         wire' \in Seq([event : Events, offer : DOMAIN offered]),
         offers' \subseteq DOMAIN offered,
         drain' \in Drain \cup {None}, drain' # None => drain'.offer \in DOMAIN offered,
         channel' \in Seq([offer : DOMAIN offered, formats : Seq(Format)]),
         \A k \in DOMAIN channel' : channel'[k].formats # <<>>,
         captured' \in Seq([offer : DOMAIN offered, formats : (SUBSET Format) \ {{}}, marks : Nat]),
         ignored' \subseteq DOMAIN offered, broken' \subseteq DOMAIN offered,
         faults' \in 0 .. MaxFaults
  PROVE  Typed'
<1>1. CurrentOwner'
  BY DEF Typed, CurrentOwner, Owner
<1> QED
  BY <1>1 DEF Typed, TypeOK

LEMMA TailType ==
  ASSUME NEW S, NEW s \in Seq(S), s # <<>>
  PROVE  /\ Head(s) \in S /\ 1 \in DOMAIN s /\ Head(s) = s[1] /\ Tail(s) \in Seq(S)
         /\ \A k \in DOMAIN Tail(s) : k + 1 \in DOMAIN s /\ Tail(s)[k] = s[k + 1]
  OBVIOUS

LEMMA AppendType ==
  ASSUME NEW S, NEW s \in Seq(S), NEW x \in S
  PROVE  /\ Append(s, x) \in Seq(S) /\ Len(Append(s, x)) = Len(s) + 1
         /\ Append(s, x)[Len(s) + 1] = x /\ Len(s) + 1 \in DOMAIN Append(s, x)
         /\ \A k \in DOMAIN s : k \in DOMAIN Append(s, x) /\ Append(s, x)[k] = s[k]
         /\ \A k \in DOMAIN Append(s, x) : k \in DOMAIN s \/ k = Len(s) + 1
  OBVIOUS

LEMMA ElementType ==
  ASSUME NEW S, NEW s \in Seq(S), NEW k \in DOMAIN s
  PROVE  s[k] \in S /\ k \in 1 .. Len(s) /\ k \in Nat
  OBVIOUS

\* What is known of one offer.
LEMMA OfferType ==
  ASSUME TypeOK, NEW n \in DOMAIN offered
  PROVE  /\ offered[n].owner \in Owners /\ offered[n].formats \in Seq(Format)
         /\ n \in 1 .. Len(offered) /\ n \in 1 .. MaxOffers /\ n \in Nat
<1>1. offered[n] \in [owner : Owners, formats : Seq(Format)] /\ n \in 1 .. Len(offered)
  BY ElementType DEF TypeOK
<1>2. n \in 1 .. MaxOffers /\ n \in Nat
  BY <1>1, BoundAssumption DEF TypeOK
<1> QED
  BY <1>1, <1>2

LEMMA SelectionTyped == ASSUME Typed, Selection PROVE Typed'
<1> PICK n : n = Head(wire).offer
  OBVIOUS
<1> DEFINE l == offered[n].formats
           d == [offer |-> n, todo |-> Accepted(l), got |-> <<>>, total |-> 0]
<1>1. /\ wire # <<>> /\ wire' = Tail(wire)
      /\ (UNCHANGED <<offers, drain>> \/ (drain' = d /\ offers' = offers \cup {n}))
      /\ UNCHANGED <<offered, current, cancelled, broken, channel, captured, ignored>>
      /\ UNCHANGED <<pc, held, marker, marks, faults>>
  BY DEF Selection, Dispatch, consumer, restore
<1>2. wire' \in Seq([event : Events, offer : DOMAIN offered]) /\ n \in DOMAIN offered
  <2>1. wire \in Seq([event : Events, offer : DOMAIN offered])
    BY DEF Typed, TypeOK
  <2>2. Head(wire) \in [event : Events, offer : DOMAIN offered]
    BY <1>1, <2>1, TailType
  <2> QED
    BY <1>1, <2>1, <2>2, TailType
<1>3. d \in Drain /\ d.offer = n
  <2>1. l \in Seq(Format) /\ n \in 1 .. MaxOffers
    BY <1>2, OfferType DEF Typed
  <2>2. Accepted(l) \in Seq(Mimes)
    BY <2>1, AcceptedType
  <2> HIDE DEF l
  <2> QED
    BY <2>1, <2>2 DEF Drain
<1> HIDE DEF d
<1> QED
  BY <1>1, <1>2, <1>3, OthersTyped DEF Typed, TypeOK

LEMMA ReceivedType ==
  ASSUME TypeOK, NEW n \in DOMAIN offered, NEW m, NEW c \in Received(n, m)
  PROVE  c = None \/ c \in Contents
<1>1. offered[n].formats \in Seq(Format)
  BY OfferType
<1>2. Content(offered[n].formats, m) \in Contents
  BY <1>1, ContentType
<1> QED
  BY <1>2, ContentAssumption DEF Received

\* The thread is done with a format: it could not be read, it is too large, it
\* is a secret, or it is kept.
LEMMA ReadFormatCases ==
  ASSUME TypeOK, ReadFormat
  PROVE  \E n \in DOMAIN offered, m \in Mimes, c \in Contents \cup {None} :
            /\ drain \in Drain /\ drain # None /\ n = drain.offer
            /\ drain.todo # <<>> /\ m = Head(drain.todo) /\ c \in Received(n, m)
            /\ \/ c = None /\ drain' = [drain EXCEPT !.todo = Tail(@)] /\ UNCHANGED offers
               \/ c # None /\ ~Within(drain.total, c) /\ TooLarge(n)
               \/ c # None /\ Within(drain.total, c) /\ Secret(Base[m], c) /\ Discard(n)
               \/ c # None /\ Within(drain.total, c) /\ ~Secret(Base[m], c) /\ Retain(Base[m], c)
            /\ broken' = IF n = current /\ c # None THEN broken ELSE broken \cup {n}
            /\ faults' = IF c = None /\ n = current THEN faults + 1 ELSE faults
<1> PICK n, m : n = drain.offer /\ m = Head(drain.todo)
  OBVIOUS
<1>1. PICK c \in Received(n, m) :
        /\ \/ c = None /\ drain' = [drain EXCEPT !.todo = Tail(@)] /\ UNCHANGED offers
           \/ c # None /\ ~Within(drain.total, c) /\ TooLarge(n)
           \/ c # None /\ Within(drain.total, c) /\ Secret(Base[m], c) /\ Discard(n)
           \/ c # None /\ Within(drain.total, c) /\ ~Secret(Base[m], c) /\ Retain(Base[m], c)
        /\ broken' = IF n = current /\ c # None THEN broken ELSE broken \cup {n}
        /\ faults' = IF c = None /\ n = current THEN faults + 1 ELSE faults
  BY DEF ReadFormat
<1>2. drain # None /\ drain.todo # <<>> /\ drain \in Drain /\ n \in DOMAIN offered
  BY DEF ReadFormat, TypeOK
<1>3. m \in Mimes
  <2>1. drain.todo \in Seq(Mimes)
    BY <1>2 DEF Drain
  <2> QED
    BY <1>2, <2>1, TailType
<1>4. c \in Contents \cup {None}
  BY <1>2, ReceivedType
<1> QED
  BY <1>1, <1>2, <1>3, <1>4

LEMMA ReadFormatDrain ==
  ASSUME TypeOK, ReadFormat
  PROVE  /\ drain \in Drain /\ drain.offer \in DOMAIN offered
         /\ \/ drain' = None /\ offers' = offers \ {drain.offer}
            \/ drain' \in Drain /\ drain'.offer = drain.offer /\ offers' = offers
         /\ faults' \in 0 .. MaxFaults
         /\ broken' \in {broken, broken \cup {drain.offer}}
<1>1. PICK n \in DOMAIN offered, m \in Mimes, c \in Contents \cup {None} :
            /\ drain \in Drain /\ drain # None /\ n = drain.offer
            /\ drain.todo # <<>> /\ m = Head(drain.todo) /\ c \in Received(n, m)
            /\ \/ c = None /\ drain' = [drain EXCEPT !.todo = Tail(@)] /\ UNCHANGED offers
               \/ c # None /\ TooLarge(n)
               \/ c # None /\ Discard(n)
               \/ c # None /\ Retain(Base[m], c)
            /\ broken' = IF n = current /\ c # None THEN broken ELSE broken \cup {n}
            /\ faults' = IF c = None /\ n = current THEN faults + 1 ELSE faults
  BY ReadFormatCases
<1>2. Tail(drain.todo) \in Seq(Mimes) /\ Base[m] \in Mimes
  <2>1. drain.todo \in Seq(Mimes)
    BY <1>1 DEF Drain
  <2> QED
    BY <1>1, <2>1, TailType, MimeAssumption
<1>3. faults' \in 0 .. MaxFaults
  <2>1. c = None /\ n = current => faults < MaxFaults
    <3>1. Content(offered[n].formats, m) \in Contents
      BY OfferType, ContentType
    <3> QED
      BY <1>1, <3>1, NoneAssumption DEF Received
  <2> QED
    BY <1>1, <2>1, BoundAssumption DEF TypeOK
<1>4. CASE drain' = [drain EXCEPT !.todo = Tail(@)] /\ UNCHANGED offers
  BY <1>1, <1>2, <1>3, <1>4 DEF Drain
<1>5. CASE TooLarge(n)
  <2>1. drain' = [drain EXCEPT !.todo = <<>>] /\ <<>> \in Seq(Mimes) /\ offers' = offers
    BY <1>5 DEF TooLarge
  <2> QED
    BY <1>1, <1>3, <2>1 DEF Drain
<1>6. CASE Discard(n)
  BY <1>1, <1>3, <1>6 DEF Discard
<1>7. CASE Retain(Base[m], c) /\ c # None
  <2> DEFINE f == <<Base[m], c>>
  <2>1. /\ drain' = [drain EXCEPT !.todo = Tail(@), !.got = Append(@, f), !.total = @ + Size[c]]
        /\ offers' = offers
    BY <1>7 DEF Retain
  <2>2. f \in Format /\ Size[c] \in Nat
    BY <1>2, <1>7, ContentAssumption DEF Format
  <2> HIDE DEF f
  <2>3. Append(drain.got, f) \in Seq(Format) /\ drain.total + Size[c] \in Nat
    BY <1>1, <2>2 DEF Drain
  <2>4. drain' \in Drain /\ drain'.offer = drain.offer
    BY <1>1, <1>2, <2>1, <2>3 DEF Drain
  <2> QED
    BY <1>1, <1>3, <2>1, <2>4
<1> QED
  BY <1>1, <1>4, <1>5, <1>6, <1>7

LEMMA ReadFormatTyped == ASSUME Typed, ReadFormat PROVE Typed'
<1>1. UNCHANGED <<offered, current, cancelled, wire, channel, captured, ignored, pc, held,
                  marker, marks>>
  BY DEF ReadFormat, selection, consumer, restore
<1> QED
  BY <1>1, ReadFormatDrain, OthersTyped DEF Typed, TypeOK

LEMMA PushTyped == ASSUME Typed, Push PROVE Typed'
<1> DEFINE x == [offer |-> drain.offer, formats |-> drain.got]
<1>1. /\ drain # None /\ drain' = None /\ offers' \subseteq offers
      /\ channel' = channel \/ (drain.got # <<>> /\ channel' = Append(channel, x))
      /\ UNCHANGED <<offered, current, wire, cancelled, captured, ignored, broken>>
      /\ UNCHANGED <<pc, held, marker, marks, faults>>
  BY DEF Push, Discard, selection, consumer, restore
<1>2. x \in [offer : DOMAIN offered, formats : Seq(Format)] /\ x.formats = drain.got
  BY <1>1 DEF Typed, TypeOK, Drain
<1> HIDE DEF x
<1>3. channel \in Seq([offer : DOMAIN offered, formats : Seq(Format)])
  BY DEF Typed, TypeOK
<1>4. channel' \in Seq([offer : DOMAIN offered, formats : Seq(Format)])
  <2>1. Append(channel, x) \in Seq([offer : DOMAIN offered, formats : Seq(Format)])
    BY <1>2, <1>3, AppendType, Zenon
  <2> QED
    BY <1>1, <1>3, <2>1
<1>5. \A k \in DOMAIN channel' : channel'[k].formats # <<>>
  <2>1. CASE channel' = channel
    BY <2>1 DEF Typed, TypeOK
  <2>2. CASE drain.got # <<>> /\ channel' = Append(channel, x)
    <3>1. \A k \in DOMAIN channel' : (k \in DOMAIN channel /\ channel'[k] = channel[k]) \/ channel'[k] = x
      BY <1>2, <1>3, <2>2, AppendType
    <3> QED
      BY <1>2, <2>2, <3>1 DEF Typed, TypeOK
  <2> QED
    BY <1>1, <2>1, <2>2
<1> QED
  BY <1>1, <1>4, <1>5, OthersTyped DEF Typed, TypeOK

LEMMA ConsumeTyped == ASSUME Typed, Consume PROVE Typed'
<1> PICK n, F : n = Head(channel).offer /\ F = FormatsOf(Head(channel).formats)
  OBVIOUS
<1> DEFINE x == [offer |-> n, formats |-> F, marks |-> Len(marks)]
<1>1. /\ channel # <<>> /\ channel' = Tail(channel)
      /\ \/ ignored' = ignored \cup {n} /\ captured' = captured
         \/ ignored' = ignored /\ captured' = Append(captured, x)
      /\ UNCHANGED <<offered, current, wire, cancelled, offers, drain, broken>>
      /\ UNCHANGED <<pc, held, marker, marks, faults>>
  BY DEF Consume, selection, capture, restore
<1>2. channel \in Seq([offer : DOMAIN offered, formats : Seq(Format)])
  BY DEF Typed, TypeOK
<1>3. /\ Head(channel) \in [offer : DOMAIN offered, formats : Seq(Format)]
      /\ 1 \in DOMAIN channel /\ Head(channel) = channel[1]
      /\ channel' \in Seq([offer : DOMAIN offered, formats : Seq(Format)])
      /\ \A k \in DOMAIN channel' : k + 1 \in DOMAIN channel /\ channel'[k] = channel[k + 1]
  BY <1>1, <1>2, TailType
<1>4. \A k \in DOMAIN channel' : channel'[k].formats # <<>>
  <2>1. \A k \in DOMAIN channel : channel[k].formats # <<>>
    BY DEF Typed, TypeOK
  <2> QED
    BY <1>3, <2>1
<1>5. n \in DOMAIN offered /\ F \in (SUBSET Format) \ {{}}
  <2>1. Head(channel).formats \in Seq(Format) /\ Head(channel).formats # <<>>
    BY <1>3 DEF Typed, TypeOK
  <2> QED
    BY <1>3, <2>1, FormatsOfType
<1>6. x \in [offer : DOMAIN offered, formats : (SUBSET Format) \ {{}}, marks : Nat]
  BY <1>5 DEF Typed, TypeOK
<1> HIDE DEF x
<1>7. captured \in Seq([offer : DOMAIN offered, formats : (SUBSET Format) \ {{}}, marks : Nat])
  BY DEF Typed, TypeOK
<1>8. captured' \in Seq([offer : DOMAIN offered, formats : (SUBSET Format) \ {{}}, marks : Nat])
  <2>1. Append(captured, x)
           \in Seq([offer : DOMAIN offered, formats : (SUBSET Format) \ {{}}, marks : Nat])
    BY <1>6, <1>7, AppendType, Zenon
  <2> QED
    BY <1>1, <1>7, <2>1
<1> QED
  BY <1>1, <1>3, <1>4, <1>5, <1>8, OthersTyped DEF Typed, TypeOK

\* The items that can be restored are sets of formats.
LEMMA ItemsType == ASSUME TypeOK PROVE Items \subseteq SUBSET Format
<1>1. ASSUME NEW k \in DOMAIN captured PROVE captured[k].formats \in SUBSET Format
  <2>1. captured[k] \in [offer : DOMAIN offered, formats : (SUBSET Format) \ {{}}, marks : Nat]
    BY ElementType DEF TypeOK
  <2> QED
    BY <2>1
<1> QED
  BY <1>1, CopyAssumption DEF Items

LEMMA LoadTyped == ASSUME Typed, NEW r \in Restores, Load(r) PROVE Typed'
<1>1. PICK item \in Items :
        \E S \in SUBSET {f \in item : f[1] \notin Internal} :
            /\ Cardinality({f \in item : f[1] \notin Internal} \ S) + faults <= MaxFaults
            /\ faults' = faults + Cardinality({f \in item : f[1] \notin Internal} \ S)
            /\ \E l \in Orders(S) : held' = [held EXCEPT ![r] = l]
            /\ pc' = [pc EXCEPT ![r] = IF S = {} THEN "done" ELSE "loaded"]
  BY DEF Load
<1> DEFINE all == {f \in item : f[1] \notin Internal}
<1>2. item \in SUBSET Format /\ all \subseteq item
  BY ItemsType DEF Typed
<1>3. PICK S \in SUBSET all :
        /\ Cardinality(all \ S) + faults <= MaxFaults
        /\ faults' = faults + Cardinality(all \ S)
        /\ \E l \in Orders(S) : held' = [held EXCEPT ![r] = l]
        /\ pc' = [pc EXCEPT ![r] = IF S = {} THEN "done" ELSE "loaded"]
  BY <1>1
<1> HIDE DEF all
<1>4. PICK l \in Orders(S) : held' = [held EXCEPT ![r] = l]
  BY <1>3
<1>5. S \in SUBSET item /\ all \ S \in SUBSET item
  BY <1>2
<1>6. l \in Seq(Format) /\ (l = <<>> => S = {}) /\ Cardinality(all \ S) \in Nat
  BY <1>2, <1>5, OrdersType
<1>7. faults' \in 0 .. MaxFaults
  BY <1>3, <1>6, BoundAssumption DEF Typed, TypeOK
<1>8. pc[r] # "owner" /\ UNCHANGED <<offered, current, wire, cancelled, offers, drain, broken,
                                     channel, captured, ignored, marker, marks>>
  BY DEF Load, selection, capture, consumer
<1>9. PICK s \in {"done", "loaded"} :
        pc' = [pc EXCEPT ![r] = s] /\ (s = "loaded" => l # <<>>)
  BY <1>3, <1>6
<1> QED
  BY <1>4, <1>6, <1>7, <1>8, <1>9, RestoreTyped DEF Typed, TypeOK

LEMMA NextTyped == Typed /\ [Next]_vars => Typed'
<1> SUFFICES ASSUME Typed, [Next]_vars PROVE Typed'
  OBVIOUS
<1> USE DEF selection, capture, consumer, restore
<1>1. CASE Copy
  <2>1. PICK l \in Copies : BecomeSelection("application", l)
    BY <1>1 DEF Copy
  <2>2. l \in Seq(Format) /\ "application" \in Owners /\ "application" \notin Restores
    BY CopyAssumption, OwnerAssumption DEF Owners
  <2> QED
    BY <1>1, <2>1, <2>2, BecomeTyped DEF Copy
<1>2. CASE SelectPrimary
  <2>1. Announce("primary", <<>>, "primary_selection")
    BY <1>2 DEF SelectPrimary
  <2>2. /\ offered' \in Seq([owner : Owners, formats : Seq(Format)])
        /\ Len(offered') <= MaxOffers /\ Len(offered') = Len(offered) + 1
        /\ DOMAIN offered \subseteq DOMAIN offered'
        /\ \A n \in DOMAIN offered : offered'[n] = offered[n]
        /\ wire' \in Seq([event : Events, offer : DOMAIN offered'])
    <3>1. "primary" \in Owners /\ "primary_selection" \in Events /\ TypeOK
      BY DEF Owners, Events, Typed
    <3>2. <<>> \in Seq(Format)
      OBVIOUS
    <3> QED
      BY <2>1, <3>1, <3>2, AnnounceTyped
  <2>3. /\ UNCHANGED <<current, cancelled, offers, drain, broken, channel, captured, ignored>>
        /\ UNCHANGED <<pc, held, marker, marks, faults>>
    BY <1>2 DEF SelectPrimary
  <2>4. current' \in 0 .. Len(offered') /\ \A k \in {current} \ {0} : k \in DOMAIN offered
    BY <2>2, <2>3 DEF Typed, TypeOK
  <2>5. Owner(current)' = Owner(current)
    BY <2>2, <2>3, <2>4 DEF Owner
  <2>6. CurrentOwner'
    BY <2>3, <2>5 DEF CurrentOwner, Typed
  <2> QED
    BY <2>2, <2>3, <2>4, <2>6, AnnounceOthers DEF Typed, TypeOK
<1>3. CASE Clear
  <2>1. BecomeSelection("nobody", <<>>) /\ <<>> \in Seq(Format)
    BY <1>3 DEF Clear
  <2>2. "nobody" \in Owners /\ "nobody" \notin Restores
    BY OwnerAssumption DEF Owners
  <2> QED
    BY <1>3, <2>1, <2>2, BecomeTyped DEF Clear
<1>4. CASE PrimarySelection
  <2>1. /\ wire # <<>> /\ wire' = Tail(wire) /\ offers' = offers \cup {Head(wire).offer}
        /\ UNCHANGED <<offered, current, cancelled, drain, broken, channel, captured, ignored>>
        /\ UNCHANGED <<pc, held, marker, marks, faults>>
    BY <1>4 DEF PrimarySelection, Dispatch
  <2>2. wire \in Seq([event : Events, offer : DOMAIN offered])
    BY DEF Typed, TypeOK
  <2>3. Head(wire) \in [event : Events, offer : DOMAIN offered]
    BY <2>1, <2>2, TailType
  <2>4. wire' \in Seq([event : Events, offer : DOMAIN offered])
    BY <2>1, <2>2, TailType
  <2> QED
    BY <2>1, <2>3, <2>4, OthersTyped DEF Typed, TypeOK
<1>5. ASSUME NEW r \in Restores, Mark(r) PROVE Typed'
  <2>1. /\ pc[r] = "loaded" /\ held' = held
        /\ marker' = FormatsOf(held[r]) /\ marks' = Append(marks, r)
        /\ pc' = [pc EXCEPT ![r] = "spawned"]
        /\ UNCHANGED <<offered, current, wire, cancelled, offers, drain, broken, channel,
                       captured, ignored, faults>>
    BY <1>5 DEF Mark
  <2>2. held[r] \in Seq(Format) /\ held[r] # <<>> /\ held' = [held EXCEPT ![r] = held[r]]
    BY <2>1 DEF Typed, TypeOK
  <2>3. marker' \in ((SUBSET Format) \ {{}}) \cup {None}
    BY <2>1, <2>2, FormatsOfType
  <2>4. marks' \in Seq(Restores)
    BY <2>1 DEF Typed, TypeOK
  <2> QED
    BY <2>1, <2>2, <2>3, <2>4, RestoreTyped DEF Typed, TypeOK
<1>6. ASSUME NEW r \in Restores, SetSelection(r) PROVE Typed'
  <2>1. held[r] \in Seq(Format) /\ r \in Owners
    BY DEF Typed, TypeOK, Owners
  <2> QED
    BY <1>6, <2>1, BecomeTyped DEF SetSelection
<1>7. ASSUME NEW r \in Restores, RestoreFails(r) \/ Cancelled(r) PROVE Typed'
  <2>1. /\ pc' = [pc EXCEPT ![r] = "done"] /\ held' = [held EXCEPT ![r] = <<>>]
        /\ \/ pc[r] = "spawned" /\ cancelled' = cancelled
           \/ r \in cancelled /\ cancelled' = cancelled \ {r}
        /\ UNCHANGED <<offered, current, wire, offers, drain, broken, channel, captured,
                       ignored, marker, marks>>
    BY <1>7 DEF RestoreFails, Cancelled, End
  <2>2. faults' \in 0 .. MaxFaults
    BY <1>7, BoundAssumption DEF RestoreFails, Cancelled, Typed, TypeOK
  <2>3. <<>> \in Seq(Format)
    OBVIOUS
  <2> QED
    BY <2>1, <2>2, <2>3, RestoreTyped DEF Typed, TypeOK
<1>8. CASE UNCHANGED vars
  BY <1>8 DEF vars, Typed, TypeOK, CurrentOwner, Owner
<1> QED
  BY <1>1, <1>2, <1>3, <1>4, <1>5, <1>6, <1>7, <1>8, SelectionTyped, ReadFormatTyped,
     PushTyped, ConsumeTyped, LoadTyped
  DEF Next, CaptureThread, RestoreThread

\* The variables keep their types: nothing empty is ever captured, marked or
\* restored, and no thread is told that it lost a selection it did not have.
THEOREM TypeCorrect == Spec => []TypeOK
<1>1. Typed => TypeOK
  BY DEF Typed
<1> QED
  BY <1>1, InitTyped, NextTyped, PTL DEF Spec

-----------------------------------------------------------------------------
(***************************************************************************)
(* What is in the map of offers, and who announced what is on the wire.    *)
(***************************************************************************)
Announced == \A k \in DOMAIN wire :
    wire[k].event = "primary_selection" => offered[wire[k].offer].owner = "primary"
MapInv == Announced /\ OffersAccounted

LEMMA AnnounceMap ==
  ASSUME TypeOK, MapInv, NEW owner \in Owners, NEW l \in Seq(Format), NEW event \in Events,
         Announce(owner, l, event), event = "primary_selection" => owner = "primary",
         UNCHANGED <<offers, drain>>
  PROVE  MapInv'
<1> DEFINE e == [event |-> event, offer |-> Len(offered) + 1]
<1>1. /\ \A n \in DOMAIN offered : offered'[n] = offered[n]
      /\ offered'[Len(offered) + 1].owner = owner
  BY AnnounceTyped
<1>2. wire' = Append(wire, e) /\ e.offer = Len(offered) + 1 /\ e.event = event
  BY DEF Announce
<1>3. wire \in Seq([event : Events, offer : DOMAIN offered])
  BY DEF TypeOK
<1> HIDE DEF e
<1>4. \A k \in DOMAIN wire' : (k \in DOMAIN wire /\ wire'[k] = wire[k]) \/ wire'[k] = e
  BY <1>2, <1>3
<1>5. ASSUME NEW k \in DOMAIN wire PROVE wire[k].offer \in DOMAIN offered
  <2>1. wire[k] \in [event : Events, offer : DOMAIN offered]
    BY <1>3, ElementType
  <2> QED
    BY <2>1
<1>6. Announced'
  <2> SUFFICES ASSUME NEW k \in DOMAIN wire', wire'[k].event = "primary_selection"
               PROVE  offered'[wire'[k].offer].owner = "primary"
    BY DEF Announced
  <2>1. CASE k \in DOMAIN wire /\ wire'[k] = wire[k]
    BY <1>1, <1>5, <2>1 DEF MapInv, Announced
  <2>2. CASE wire'[k] = e
    BY <1>1, <1>2, <2>2
  <2> QED
    BY <1>4, <2>1, <2>2
<1>7. OffersAccounted'
  BY <1>1 DEF MapInv, OffersAccounted, TypeOK
<1> QED
  BY <1>6, <1>7 DEF MapInv

\* A step that announces nothing: what it adds to the map is for the primary
\* selection, or is what is read next.
LEMMA OtherMap ==
  ASSUME MapInv, offered' = offered,
         \/ wire' = wire
         \/ /\ wire # <<>> /\ wire' = Tail(wire)
            /\ wire \in Seq([event : Events, offer : DOMAIN offered]),
         \A n \in offers' : (n \in offers /\ UNCHANGED drain)
                            \/ (n \in offers /\ drain # None /\ drain.offer # n)
                            \/ (drain' # None /\ drain'.offer = n)
                            \/ offered[n].owner = "primary"
  PROVE  MapInv'
<1>1. Announced'
  <2>1. CASE wire' = wire
    BY <2>1 DEF MapInv, Announced
  <2>2. CASE /\ wire # <<>> /\ wire' = Tail(wire)
             /\ wire \in Seq([event : Events, offer : DOMAIN offered])
    <3>1. \A k \in DOMAIN wire' : k + 1 \in DOMAIN wire /\ wire'[k] = wire[k + 1]
      BY <2>2, TailType
    <3> QED
      BY <3>1 DEF MapInv, Announced
  <2> QED
    BY <2>1, <2>2
<1>2. OffersAccounted'
  BY DEF MapInv, OffersAccounted
<1> QED
  BY <1>1, <1>2 DEF MapInv

LEMMA NextMap == Typed /\ MapInv /\ [Next]_vars => MapInv'
<1> SUFFICES ASSUME Typed, MapInv, [Next]_vars PROVE MapInv'
  OBVIOUS
<1> USE DEF selection, capture, consumer, restore
<1>0. TypeOK /\ wire \in Seq([event : Events, offer : DOMAIN offered])
  BY DEF Typed, TypeOK
<1>1. ASSUME NEW owner \in Owners, NEW l \in Seq(Format), BecomeSelection(owner, l),
             UNCHANGED <<offers, drain>>
      PROVE  MapInv'
  <2>1. Announce(owner, l, "selection") /\ "selection" \in Events
    BY <1>1 DEF BecomeSelection, Events
  <2> QED
    BY <1>0, <1>1, <2>1, AnnounceMap
<1>2. CASE Copy
  <2>1. PICK l \in Copies : BecomeSelection("application", l)
    BY <1>2 DEF Copy
  <2>2. l \in Seq(Format) /\ "application" \in Owners
    BY CopyAssumption DEF Owners
  <2> QED
    BY <1>1, <1>2, <2>1, <2>2 DEF Copy
<1>3. CASE SelectPrimary
  <2>1. Announce("primary", <<>>, "primary_selection") /\ UNCHANGED <<offers, drain>>
    BY <1>3 DEF SelectPrimary
  <2>2. <<>> \in Seq(Format)
    OBVIOUS
  <2>3. "primary_selection" \in Events /\ "primary" \in Owners
    BY DEF Events, Owners
  <2> QED
    BY <1>0, <2>1, <2>2, <2>3, AnnounceMap
<1>4. CASE Clear
  <2>1. BecomeSelection("nobody", <<>>) /\ "nobody" \in Owners /\ <<>> \in Seq(Format)
    BY <1>4 DEF Clear, Owners
  <2> QED
    BY <1>1, <1>4, <2>1 DEF Clear
<1>5. CASE PrimarySelection
  <2>1. /\ wire # <<>> /\ wire' = Tail(wire) /\ Head(wire).event = "primary_selection"
        /\ offers' = offers \cup {Head(wire).offer} /\ UNCHANGED <<offered, drain>>
    BY <1>5 DEF PrimarySelection, Dispatch
  <2>2. offered[Head(wire).offer].owner = "primary"
    <3>1. 1 \in DOMAIN wire /\ Head(wire) = wire[1]
      BY <1>0, <2>1, TailType
    <3> QED
      BY <2>1, <3>1 DEF MapInv, Announced
  <2> QED
    BY <1>0, <2>1, <2>2, OtherMap
<1>6. CASE Selection
  <2> PICK n : n = Head(wire).offer
    OBVIOUS
  <2>1. /\ wire # <<>> /\ wire' = Tail(wire) /\ drain = None /\ offered' = offered
        /\ \/ UNCHANGED <<offers, drain>>
           \/ /\ drain' = [offer |-> n, todo |-> Accepted(offered[n].formats), got |-> <<>>, total |-> 0]
              /\ offers' = offers \cup {n}
    BY <1>6 DEF Selection, Dispatch
  <2>2. CASE UNCHANGED <<offers, drain>>
    BY <1>0, <2>1, <2>2, OtherMap
  <2>3. CASE /\ drain' = [offer |-> n, todo |-> Accepted(offered[n].formats), got |-> <<>>, total |-> 0]
             /\ offers' = offers \cup {n}
    <3>1. n \in DOMAIN offered
      <4>1. Head(wire) \in [event : Events, offer : DOMAIN offered]
        BY <1>0, <2>1, TailType
      <4> QED
        BY <4>1
    <3>2. drain' \in Drain
      <4>1. offered[n].formats \in Seq(Format) /\ n \in 1 .. MaxOffers
        BY <1>0, <3>1, OfferType
      <4>2. Accepted(offered[n].formats) \in Seq(Mimes)
        BY <4>1, AcceptedType
      <4> QED
        BY <2>3, <4>1, <4>2 DEF Drain
    <3>3. drain'.offer = n /\ drain' # None
      BY <2>3, <3>2, NoneAssumption
    <3> QED
      BY <1>0, <2>1, <2>3, <3>3, OtherMap DEF MapInv, OffersAccounted
  <2> QED
    BY <2>1, <2>2, <2>3
<1>7. CASE ReadFormat
  <2>1. drain # None /\ UNCHANGED <<offered, wire>>
    BY <1>7 DEF ReadFormat
  <2>2. \A n \in offers' : n \in offers
    BY <1>0, <1>7, ReadFormatDrain
  <2>3. \A n \in offers' : n = drain.offer => drain' # None /\ drain'.offer = n
    BY <1>0, <1>7, ReadFormatDrain, NoneAssumption
  <2> QED
    BY <2>1, <2>2, <2>3, OtherMap DEF MapInv, OffersAccounted
<1>8. CASE Push
  <2>1. drain # None /\ offers' = offers \ {drain.offer} /\ UNCHANGED <<offered, wire>>
    BY <1>8 DEF Push, Discard
  <2> QED
    BY <2>1, OtherMap
<1>9. CASE Consume
  BY <1>9, OtherMap DEF Consume
<1>10. ASSUME NEW r \in Restores, Load(r) \/ Mark(r) \/ RestoreFails(r) \/ Cancelled(r)
       PROVE  MapInv'
  BY <1>10, OtherMap DEF Load, Mark, RestoreFails, Cancelled
<1>11. ASSUME NEW r \in Restores, SetSelection(r) PROVE MapInv'
  <2>1. held[r] \in Seq(Format) /\ r \in Owners
    BY <1>0 DEF TypeOK, Owners
  <2> QED
    BY <1>1, <1>11, <2>1 DEF SetSelection
<1>12. CASE UNCHANGED vars
  BY <1>12, OtherMap DEF vars
<1> QED
  BY <1>2, <1>3, <1>4, <1>5, <1>6, <1>7, <1>8, <1>9, <1>10, <1>11, <1>12
  DEF Next, CaptureThread, RestoreThread

\* Nothing but the offer that is being read, and the offers for the primary
\* selection, is ever in the map.
THEOREM OffersAccountedHolds == Spec => []OffersAccounted
<1>1. Init => MapInv
  BY DEF Init, MapInv, Announced, OffersAccounted
<1>2. MapInv => OffersAccounted
  BY DEF MapInv
<1> QED
  BY <1>1, <1>2, InitTyped, NextTyped, NextMap, PTL DEF Spec

-----------------------------------------------------------------------------
(***************************************************************************)
(* The order of the history: what is on the wire, being read, on the       *)
(* channel and in the history are later and later stages of one queue.     *)
(***************************************************************************)
Increasing(s) == \A j, k \in DOMAIN s : j < k => s[j].offer < s[k].offer
OffersOf(s) == {s[k].offer : k \in DOMAIN s}
Drained == IF drain = None THEN {} ELSE {drain.offer}
Before(S, T) == \A n \in S, k \in T : n < k

InOrder ==
    /\ Increasing(wire) /\ Increasing(channel) /\ Increasing(captured)
    /\ Before(Drained, OffersOf(wire))
    /\ Before(OffersOf(channel), OffersOf(wire)) /\ Before(OffersOf(channel), Drained)
    /\ Before(OffersOf(captured), OffersOf(wire)) /\ Before(OffersOf(captured), Drained)
    /\ Before(OffersOf(captured), OffersOf(channel))

LEMMA TailIncreasing ==
  ASSUME NEW S, NEW s \in Seq(S), s # <<>>, Increasing(s)
  PROVE  /\ Increasing(Tail(s)) /\ OffersOf(Tail(s)) \subseteq OffersOf(s)
         /\ Head(s).offer \in OffersOf(s) /\ Before({Head(s).offer}, OffersOf(Tail(s)))
<1>1. /\ 1 \in DOMAIN s /\ Head(s) = s[1]
      /\ \A k \in DOMAIN Tail(s) : k + 1 \in DOMAIN s /\ Tail(s)[k] = s[k + 1]
  BY TailType
<1>2. \A k \in DOMAIN Tail(s) : k \in Nat /\ 1 < k + 1
  OBVIOUS
<1>3. \A j, k \in DOMAIN Tail(s) : j < k => j + 1 < k + 1
  BY <1>2
<1> QED
  BY <1>1, <1>2, <1>3 DEF Increasing, OffersOf, Before

LEMMA AppendIncreasing ==
  ASSUME NEW S, NEW s \in Seq(S), NEW x \in S, Increasing(s), Before(OffersOf(s), {x.offer})
  PROVE  /\ Increasing(Append(s, x))
         /\ OffersOf(Append(s, x)) \subseteq OffersOf(s) \cup {x.offer}
<1>1. /\ \A k \in DOMAIN s : k \in DOMAIN Append(s, x) /\ Append(s, x)[k] = s[k]
      /\ \A k \in DOMAIN Append(s, x) : k \in DOMAIN s \/ k = Len(s) + 1
      /\ Append(s, x)[Len(s) + 1] = x
  BY AppendType
<1>2. Len(s) \in Nat /\ \A k \in DOMAIN s : k \in Nat /\ k < Len(s) + 1
  OBVIOUS
<1>3. OffersOf(Append(s, x)) \subseteq OffersOf(s) \cup {x.offer}
  BY <1>1 DEF OffersOf
<1>4. ASSUME NEW j \in DOMAIN Append(s, x), NEW k \in DOMAIN Append(s, x), j < k
      PROVE  Append(s, x)[j].offer < Append(s, x)[k].offer
  <2>1. j \in DOMAIN s
    BY <1>1, <1>2, <1>4
  <2>2. CASE k \in DOMAIN s
    BY <1>1, <1>4, <2>1, <2>2 DEF Increasing
  <2>3. CASE k = Len(s) + 1
    BY <1>1, <2>1, <2>3 DEF Before, OffersOf
  <2> QED
    BY <1>1, <2>2, <2>3
<1> QED
  BY <1>3, <1>4 DEF Increasing

\* What the queues hold are numbers of announced offers.
LEMMA QueueTypes ==
  ASSUME TypeOK
  PROVE  /\ OffersOf(wire) \subseteq DOMAIN offered /\ OffersOf(channel) \subseteq DOMAIN offered
         /\ OffersOf(captured) \subseteq DOMAIN offered /\ Drained \subseteq DOMAIN offered
         /\ DOMAIN offered = 1 .. Len(offered) /\ Len(offered) \in Nat
<1>1. /\ wire \in Seq([event : Events, offer : DOMAIN offered])
      /\ channel \in Seq([offer : DOMAIN offered, formats : Seq(Format)])
      /\ captured \in Seq([offer : DOMAIN offered, formats : (SUBSET Format) \ {{}}, marks : Nat])
      /\ offered \in Seq([owner : Owners, formats : Seq(Format)])
  BY DEF TypeOK
<1>2. ASSUME NEW k \in DOMAIN wire PROVE wire[k].offer \in DOMAIN offered
  <2>1. wire[k] \in [event : Events, offer : DOMAIN offered]
    BY <1>1, ElementType
  <2> QED
    BY <2>1
<1>3. ASSUME NEW k \in DOMAIN channel PROVE channel[k].offer \in DOMAIN offered
  <2>1. channel[k] \in [offer : DOMAIN offered, formats : Seq(Format)]
    BY <1>1, ElementType
  <2> QED
    BY <2>1
<1>4. ASSUME NEW k \in DOMAIN captured PROVE captured[k].offer \in DOMAIN offered
  <2>1. captured[k] \in [offer : DOMAIN offered, formats : (SUBSET Format) \ {{}}, marks : Nat]
    BY <1>1, ElementType
  <2> QED
    BY <2>1
<1>5. Drained \subseteq DOMAIN offered
  BY DEF TypeOK, Drained
<1> QED
  BY <1>1, <1>2, <1>3, <1>4, <1>5 DEF OffersOf

LEMMA AnnounceInOrder ==
  ASSUME TypeOK, InOrder, NEW owner, NEW l, NEW event \in Events, Announce(owner, l, event),
         UNCHANGED <<drain, channel, captured>>
  PROVE  InOrder'
<1> DEFINE N == DOMAIN offered \cup {Len(offered) + 1}
           e == [event |-> event, offer |-> Len(offered) + 1]
<1>1. wire' = Append(wire, e) /\ e.offer = Len(offered) + 1 /\ e \in [event : Events, offer : N]
  BY DEF Announce
<1>2. wire \in Seq([event : Events, offer : N])
  <2>1. wire \in Seq([event : Events, offer : DOMAIN offered])
    BY DEF TypeOK
  <2>2. [event : Events, offer : DOMAIN offered] \subseteq [event : Events, offer : N]
    OBVIOUS
  <2> QED
    BY <2>1, <2>2, SeqWider
<1>3. Before(DOMAIN offered, {e.offer})
  BY <1>1, QueueTypes DEF Before
<1> HIDE DEF e, N
<1>4. Increasing(wire') /\ OffersOf(wire') \subseteq OffersOf(wire) \cup {e.offer}
  <2>1. Before(OffersOf(wire), {e.offer})
    BY <1>3, QueueTypes DEF Before
  <2> QED
    BY <1>1, <1>2, <2>1, AppendIncreasing DEF InOrder
<1>5. Drained' = Drained
  BY DEF Drained
<1> QED
  BY <1>3, <1>4, <1>5, QueueTypes DEF InOrder, Before

\* Steps that only take from the queues, or pass on what comes next.
LEMMA OtherInOrder ==
  ASSUME InOrder, Increasing(wire'), Increasing(channel'), Increasing(captured'),
         OffersOf(wire') \subseteq OffersOf(wire),
         \A n \in Drained' : n \in Drained \/ (n \in OffersOf(wire) /\ Before({n}, OffersOf(wire'))
                                               /\ Drained = {}),
         \A n \in OffersOf(channel') : n \in OffersOf(channel)
                                       \/ (n \in Drained /\ Drained' = {}),
         \A n \in OffersOf(captured') : n \in OffersOf(captured)
             \/ (n \in OffersOf(channel) /\ Before({n}, OffersOf(channel')))
  PROVE  InOrder'
<1>1. Before(Drained', OffersOf(wire'))
  BY DEF InOrder, Before
<1>2. Before(OffersOf(channel'), OffersOf(wire')) /\ Before(OffersOf(channel'), Drained')
  BY DEF InOrder, Before
<1>3. Before(OffersOf(captured'), OffersOf(wire')) /\ Before(OffersOf(captured'), Drained')
  BY DEF InOrder, Before
<1>4. Before(OffersOf(captured'), OffersOf(channel'))
  BY DEF InOrder, Before
<1> QED
  BY <1>1, <1>2, <1>3, <1>4 DEF InOrder, Before, OffersOf, Increasing

LEMMA NextInOrder == Typed /\ InOrder /\ [Next]_vars => InOrder'
<1> SUFFICES ASSUME TypeOK, InOrder, [Next]_vars PROVE InOrder'
  BY DEF Typed
<1> USE DEF selection, capture, consumer, restore
<1>0. /\ wire \in Seq([event : Events, offer : DOMAIN offered])
      /\ channel \in Seq([offer : DOMAIN offered, formats : Seq(Format)])
      /\ captured \in Seq([offer : DOMAIN offered, formats : (SUBSET Format) \ {{}}, marks : Nat])
      /\ "selection" \in Events /\ "primary_selection" \in Events
      /\ Increasing(wire) /\ Increasing(channel) /\ Increasing(captured)
  BY DEF TypeOK, Events, InOrder
<1>1. CASE Copy \/ SelectPrimary \/ Clear \/ \E r \in Restores : SetSelection(r)
  <2>1. /\ UNCHANGED <<drain, channel, captured>>
        /\ \E owner, l : \E event \in Events : Announce(owner, l, event)
    BY <1>0, <1>1 DEF Copy, SelectPrimary, Clear, SetSelection, BecomeSelection
  <2> QED
    BY <2>1, AnnounceInOrder
<1>2. CASE PrimarySelection \/ Selection
  <2>1. /\ wire # <<>> /\ wire' = Tail(wire) /\ drain = None
        /\ (drain' = None \/ drain'.offer = Head(wire).offer)
        /\ UNCHANGED <<channel, captured>>
    BY <1>2 DEF PrimarySelection, Selection, Dispatch
  <2>2. /\ Increasing(wire') /\ OffersOf(wire') \subseteq OffersOf(wire)
        /\ Head(wire).offer \in OffersOf(wire) /\ Before({Head(wire).offer}, OffersOf(wire'))
    BY <1>0, <2>1, TailIncreasing
  <2>3. Drained = {} /\ Drained' \subseteq {Head(wire).offer}
    BY <2>1 DEF Drained
  <2>4. UNCHANGED <<Increasing(channel), Increasing(captured), OffersOf(channel), OffersOf(captured)>>
    BY <2>1 DEF Increasing, OffersOf
  <2> QED
    BY <1>0, <2>2, <2>3, <2>4, OtherInOrder
<1>3. CASE ReadFormat
  <2>1. Drained' \subseteq Drained
    BY <1>3, ReadFormatDrain DEF Drained, ReadFormat
  <2>2. UNCHANGED <<wire, channel, captured>>
    BY <1>3 DEF ReadFormat
  <2> QED
    BY <1>0, <2>1, <2>2, OtherInOrder DEF Increasing, OffersOf
<1>4. CASE Push
  <2> DEFINE x == [offer |-> drain.offer, formats |-> drain.got]
  <2>1. /\ drain # None /\ drain' = None /\ UNCHANGED <<wire, captured>>
        /\ channel' = channel \/ channel' = Append(channel, x)
    BY <1>4 DEF Push, Discard
  <2>2. Drained = {drain.offer} /\ Drained' = {}
    BY <2>1 DEF Drained
  <2>3. x \in [offer : DOMAIN offered, formats : Seq(Format)] /\ x.offer = drain.offer
    BY <2>1 DEF TypeOK, Drain
  <2> HIDE DEF x
  <2>4. Increasing(channel') /\ OffersOf(channel') \subseteq OffersOf(channel) \cup Drained
    <3>1. CASE channel' = channel
      BY <1>0, <3>1 DEF Increasing, OffersOf
    <3>2. CASE channel' = Append(channel, x)
      <4>1. Before(OffersOf(channel), {x.offer})
        BY <2>2, <2>3 DEF InOrder
      <4>2. /\ Increasing(Append(channel, x))
            /\ OffersOf(Append(channel, x)) \subseteq OffersOf(channel) \cup {x.offer}
        BY <1>0, <2>3, <4>1, AppendIncreasing, Zenon
      <4> QED
        BY <2>2, <2>3, <3>2, <4>2
    <3> QED
      BY <2>1, <3>1, <3>2
  <2> QED
    BY <1>0, <2>1, <2>2, <2>4, OtherInOrder DEF Increasing, OffersOf
<1>5. CASE Consume
  <2> PICK n, F : n = Head(channel).offer /\ F = FormatsOf(Head(channel).formats)
    OBVIOUS
  <2> DEFINE x == [offer |-> n, formats |-> F, marks |-> Len(marks)]
  <2>1. /\ channel # <<>> /\ channel' = Tail(channel) /\ UNCHANGED <<wire, drain>>
        /\ captured' = captured \/ captured' = Append(captured, x)
    BY <1>5 DEF Consume
  <2>2. /\ Increasing(channel') /\ OffersOf(channel') \subseteq OffersOf(channel)
        /\ n \in OffersOf(channel) /\ Before({n}, OffersOf(channel'))
    BY <1>0, <2>1, TailIncreasing
  <2>3. Head(channel) \in [offer : DOMAIN offered, formats : Seq(Format)]
    BY <1>0, <2>1, TailType
  <2>4. ASSUME captured' = Append(captured, x)
        PROVE  Increasing(captured') /\ OffersOf(captured') \subseteq OffersOf(captured) \cup {n}
    <3> DEFINE S == [offer : Nat, formats : SUBSET Format, marks : Nat]
    <3>1. x \in S /\ x.offer = n
      <4>1. n \in Nat
        BY <2>3, OfferType
      <4>2. F \subseteq Format
        BY <2>3, FormatsOfType
      <4> QED
        BY <4>1, <4>2 DEF TypeOK
    <3>2. captured \in Seq(S)
      <4>1. [offer : DOMAIN offered, formats : (SUBSET Format) \ {{}}, marks : Nat] \subseteq S
        BY QueueTypes
      <4> HIDE DEF S
      <4> QED
        BY <1>0, <4>1, SeqWider
    <3>3. Before(OffersOf(captured), {x.offer})
      BY <2>2, <3>1 DEF InOrder, Before
    <3> HIDE DEF S, x
    <3> QED
      BY <1>0, <2>4, <3>1, <3>2, <3>3, AppendIncreasing
  <2>5. CASE captured' = captured
    BY <1>0, <2>1, <2>2, <2>5, OtherInOrder DEF Drained, Increasing, OffersOf
  <2>6. CASE captured' = Append(captured, x)
    <3>1. Drained' = Drained /\ Increasing(wire') /\ OffersOf(wire') = OffersOf(wire)
      BY <1>0, <2>1 DEF Drained, Increasing, OffersOf
    <3> HIDE DEF x
    <3> QED
      BY <2>2, <2>4, <2>6, <3>1, OtherInOrder
  <2> QED
    BY <2>1, <2>5, <2>6
<1>6. CASE UNCHANGED <<wire, drain, channel, captured>>
  BY <1>0, <1>6, OtherInOrder DEF Drained, Increasing, OffersOf
<1>7. ASSUME NEW r \in Restores, Load(r) \/ Mark(r) \/ RestoreFails(r) \/ Cancelled(r)
      PROVE  UNCHANGED <<wire, drain, channel, captured>>
  BY <1>7 DEF Load, Mark, RestoreFails, Cancelled
<1> QED
  BY <1>1, <1>2, <1>3, <1>4, <1>5, <1>6, <1>7 DEF Next, CaptureThread, RestoreThread, vars

-----------------------------------------------------------------------------
(***************************************************************************)
(* What is read, as far as it has got.  The limits make a prefix of the    *)
(* accepted formats, and the running total says where it ends.             *)
(***************************************************************************)
\* The first g of the contents c are within the limits, and have that length.
Sofar(c, g, total) ==
    /\ Fits(c, g)
    /\ \A t \in [0 .. g -> 0 .. MaxItem] : Totals(t, c, g) => t[g] = total

LEMMA TotalsPrefix ==
  ASSUME NEW c, NEW j \in Nat, NEW i \in 0 .. j,
         NEW t \in [0 .. j -> 0 .. MaxItem], Totals(t, c, j)
  PROVE  /\ [k \in 0 .. i |-> t[k]] \in [0 .. i -> 0 .. MaxItem]
         /\ Totals([k \in 0 .. i |-> t[k]], c, i)
<1> DEFINE u == [k \in 0 .. i |-> t[k]]
<1>1. i \in Nat /\ \A k \in 0 .. i : k \in 0 .. j /\ u[k] = t[k]
  OBVIOUS
<1>2. \A k \in 1 .. i : k \in 1 .. j /\ k \in 0 .. i /\ k - 1 \in 0 .. i
  OBVIOUS
<1>3. u \in [0 .. i -> 0 .. MaxItem]
  BY <1>1
<1>4. 0 \in 0 .. i
  OBVIOUS
<1>5. Totals(u, c, i)
  BY <1>1, <1>2, <1>4 DEF Totals
<1> QED
  BY <1>3, <1>5

LEMMA FitsPrefix ==
  ASSUME NEW c, NEW j \in Nat, NEW i \in 0 .. j, Fits(c, j)
  PROVE  Fits(c, i)
<1>1. PICK t \in [0 .. j -> 0 .. MaxItem] :
        Totals(t, c, j) /\ \A k \in 1 .. j : Size[c[k]] <= MaxFormat
  BY DEF Fits
<1>2. \A k \in 1 .. i : k \in 1 .. j
  OBVIOUS
<1> QED
  BY <1>1, <1>2, TotalsPrefix DEF Fits

LEMMA SofarNothing == ASSUME NEW c PROVE Sofar(c, 0, 0)
<1> DEFINE t == [k \in 0 .. 0 |-> 0]
<1>1. t \in [0 .. 0 -> 0 .. MaxItem] /\ t[0] = 0 /\ \A k \in 1 .. 0 : FALSE
  BY ContentAssumption
<1> HIDE DEF t
<1>2. Totals(t, c, 0)
  BY <1>1 DEF Totals
<1> QED
  BY <1>1, <1>2 DEF Sofar, Fits, Totals

\* The next content fits if it is within the limits, given that total.
LEMMA SofarNext ==
  ASSUME NEW c, NEW g \in Nat, NEW total \in Nat, Sofar(c, g, total), c[g + 1] \in Contents
  PROVE  /\ Within(total, c[g + 1]) => Sofar(c, g + 1, total + Size[c[g + 1]])
         /\ ~Within(total, c[g + 1]) => ~Fits(c, g + 1)
<1> PICK s : s = Size[c[g + 1]]
  OBVIOUS
<1>0. s \in Nat /\ MaxItem \in Nat
  BY ContentAssumption
<1>1. ASSUME NEW t \in [0 .. g + 1 -> 0 .. MaxItem], Totals(t, c, g + 1)
      PROVE  t[g + 1] = total + s
  <2> DEFINE u == [k \in 0 .. g |-> t[k]]
  <2>1. u \in [0 .. g -> 0 .. MaxItem] /\ Totals(u, c, g)
    <3>1. g + 1 \in Nat /\ g \in 0 .. g + 1
      OBVIOUS
    <3> QED
      BY <1>1, <3>1, TotalsPrefix, Zenon
  <2>2. g \in 0 .. g /\ u[g] = t[g]
    OBVIOUS
  <2> HIDE DEF u
  <2>3. t[g] = total
    BY <2>1, <2>2 DEF Sofar
  <2>4. g + 1 \in 1 .. g + 1 /\ (g + 1) - 1 = g
    OBVIOUS
  <2> QED
    BY <1>1, <2>3, <2>4 DEF Totals
<1>2. ASSUME Within(total, c[g + 1]) PROVE Fits(c, g + 1)
  <2>1. PICK t \in [0 .. g -> 0 .. MaxItem] :
          Totals(t, c, g) /\ \A k \in 1 .. g : Size[c[k]] <= MaxFormat
    BY DEF Sofar, Fits
  <2> DEFINE u == [k \in 0 .. g + 1 |-> IF k = g + 1 THEN total + s ELSE t[k]]
  <2>2. t[g] = total
    BY <2>1 DEF Sofar
  <2>3. s <= MaxFormat /\ total + s \in 0 .. MaxItem
    BY <1>0, <1>2 DEF Within
  <2>4. \A k \in 0 .. g : k \in 0 .. g + 1 /\ k # g + 1
    OBVIOUS
  <2>5. /\ u \in [0 .. g + 1 -> 0 .. MaxItem] /\ u[g + 1] = total + s
        /\ \A k \in 0 .. g : u[k] = t[k]
    BY <2>3, <2>4
  <2> HIDE DEF u
  <2>6. ASSUME NEW k \in 1 .. g + 1
        PROVE  u[k] = u[k - 1] + Size[c[k]] /\ Size[c[k]] <= MaxFormat
    <3>1. CASE k = g + 1
      <4>1. k - 1 = g /\ g \in 0 .. g
        BY <3>1
      <4> QED
        BY <2>2, <2>3, <2>5, <3>1, <4>1
    <3>2. CASE k # g + 1
      <4>1. k \in 1 .. g /\ k \in 0 .. g /\ k - 1 \in 0 .. g
        BY <3>2
      <4> QED
        BY <2>1, <2>5, <4>1 DEF Totals
    <3> QED
      BY <3>1, <3>2
  <2>7. u[0] = 0
    <3>1. 0 \in 0 .. g
      OBVIOUS
    <3> QED
      BY <2>1, <2>5, <3>1 DEF Totals
  <2> QED
    BY <2>5, <2>6, <2>7 DEF Fits, Totals
<1>3. ASSUME Fits(c, g + 1) PROVE Within(total, c[g + 1])
  <2>1. PICK t \in [0 .. g + 1 -> 0 .. MaxItem] :
          Totals(t, c, g + 1) /\ \A k \in 1 .. g + 1 : Size[c[k]] <= MaxFormat
    BY <1>3 DEF Fits
  <2>2. g + 1 \in 1 .. g + 1 /\ g + 1 \in 0 .. g + 1
    OBVIOUS
  <2>3. t[g + 1] \in 0 .. MaxItem
    BY <2>2
  <2> QED
    BY <1>0, <1>1, <2>1, <2>2, <2>3 DEF Within
<1> QED
  BY <1>1, <1>2, <1>3 DEF Sofar

\* Nothing beyond what fits so far fits, if the next content does not.
LEMMA FitsEnds ==
  ASSUME NEW c, NEW L \in Nat, NEW g \in 0 .. L, Fits(c, g), g = L \/ ~Fits(c, g + 1)
  PROVE  {j \in 1 .. L : Fits(c, j)} = 1 .. g
<1>1. ASSUME NEW j \in 1 .. g PROVE j \in 1 .. L /\ Fits(c, j)
  <2>1. j \in 0 .. g /\ j \in 1 .. L /\ g \in Nat
    OBVIOUS
  <2> QED
    BY <2>1, FitsPrefix
<1>2. ASSUME NEW j \in 1 .. L, Fits(c, j), j \notin 1 .. g PROVE FALSE
  <2>1. j \in Nat /\ g + 1 \in 0 .. j /\ g # L
    BY <1>2
  <2> QED
    BY <1>2, <2>1, FitsPrefix
<1> QED
  BY <1>1, <1>2

-----------------------------------------------------------------------------
(***************************************************************************)
(* Every copy that was read well gets into the history as it should.       *)
(***************************************************************************)
\* The drain d of an offer of l: what it has of the accepted formats, and what
\* is left of them, unless the next one was too large.
AsRead(l, d) ==
    LET acc == Accepted(l)
        c == AcceptedContents(l)
        g == Len(d.got) IN
    /\ g <= Len(acc) /\ \A k \in 1 .. g : d.got[k] = <<Base[acc[k]], c[k]>>
    /\ Sofar(c, g, d.total)
    /\ \/ g + Len(d.todo) = Len(acc) /\ \A k \in 1 .. Len(d.todo) : d.todo[k] = acc[g + k]
       \/ d.todo = <<>> /\ ~Fits(c, g + 1)

ReadRight == drain # None /\ drain.offer \notin broken =>
    AsRead(offered[drain.offer].formats, drain)
ChannelRight == \A k \in DOMAIN channel : channel[k].offer \notin broken =>
    FormatsOf(channel[k].formats) = Outcome(offered[channel[k].offer].formats)
CapturedRight == \A k \in DOMAIN captured : captured[k].offer \notin broken =>
    captured[k].formats = Outcome(offered[captured[k].offer].formats)
ContentInv == ReadRight /\ ChannelRight /\ CapturedRight

\* An announcement, and a step elsewhere, changes nothing about what was read.
LEMMA OtherContent ==
  ASSUME TypeOK, ContentInv, \A n \in DOMAIN offered : offered'[n] = offered[n],
         UNCHANGED <<drain, channel, captured, broken>>
  PROVE  ContentInv'
<1>1. /\ \A k \in DOMAIN channel : channel[k].offer \in DOMAIN offered
      /\ \A k \in DOMAIN captured : captured[k].offer \in DOMAIN offered
      /\ drain # None => drain.offer \in DOMAIN offered
  BY QueueTypes DEF OffersOf, Drained
<1> QED
  BY <1>1 DEF ContentInv, ReadRight, ChannelRight, CapturedRight

LEMMA SelectionContent == ASSUME TypeOK, ContentInv, Selection PROVE ContentInv'
<1> PICK n, l : n = Head(wire).offer /\ l = offered[n].formats
  OBVIOUS
<1> DEFINE d == [offer |-> n, todo |-> Accepted(l), got |-> <<>>, total |-> 0]
<1>1. /\ wire # <<>> /\ drain = None /\ (drain' = None \/ drain' = d)
      /\ UNCHANGED <<offered, broken, channel, captured>>
  BY DEF Selection, Dispatch, consumer
<1>2. AsRead(l, d)
  <2>1. n \in DOMAIN offered
    <3>1. wire \in Seq([event : Events, offer : DOMAIN offered])
      BY DEF TypeOK
    <3>2. Head(wire) \in [event : Events, offer : DOMAIN offered]
      BY <1>1, <3>1, TailType
    <3> QED
      BY <3>2
  <2>2. Accepted(l) \in Seq(Mimes) /\ Len(Accepted(l)) \in Nat
    BY <2>1, OfferType, AcceptedType
  <2>3. /\ d.got = <<>> /\ Len(d.got) = 0 /\ d.todo = Accepted(l) /\ d.total = 0
        /\ \A k \in 1 .. 0 : FALSE
    OBVIOUS
  <2> HIDE DEF d
  <2>4. Sofar(AcceptedContents(l), Len(d.got), d.total)
    BY <2>3, SofarNothing
  <2>5. \A k \in 1 .. Len(d.todo) : 0 + k = k
    BY <2>2
  <2> QED
    BY <2>2, <2>3, <2>4, <2>5 DEF AsRead
<1>3. d.offer = n
  OBVIOUS
<1> HIDE DEF d
<1>4. ReadRight'
  BY <1>1, <1>2, <1>3 DEF ReadRight
<1> QED
  BY <1>1, <1>4 DEF ContentInv, ChannelRight, CapturedRight

LEMMA AcceptedContentsType ==
  ASSUME NEW l \in Seq(Format)
  PROVE  /\ DOMAIN AcceptedContents(l) = 1 .. Len(Accepted(l)) /\ Len(Accepted(l)) \in Nat
         /\ \A k \in 1 .. Len(Accepted(l)) : /\ AcceptedContents(l)[k] = Content(l, Accepted(l)[k])
                                             /\ AcceptedContents(l)[k] \in Contents
BY AcceptedType, ContentType DEF AcceptedContents

\* One more format: it is what the offer has for the next accepted type.
LEMMA RetainAsRead ==
  ASSUME NEW l \in Seq(Format), NEW d \in Drain, AsRead(l, d), d.todo # <<>>,
         NEW m, m = Head(d.todo), NEW c, c = Content(l, m), NEW e
  PROVE  /\ ~Within(d.total, c) /\ e = [d EXCEPT !.todo = <<>>] => AsRead(l, e)
         /\ Within(d.total, c) /\ e = [d EXCEPT !.todo = Tail(@), !.got = Append(@, <<Base[m], c>>),
                                                !.total = @ + Size[c]]
            => AsRead(l, e)
<1> DEFINE acc == Accepted(l)
           cs == AcceptedContents(l)
           g == Len(d.got)
           f == <<Base[m], c>>
<1>1. /\ d.got \in Seq(Format) /\ d.todo \in Seq(Mimes) /\ d.total \in Nat
      /\ g \in Nat /\ Len(d.todo) \in Nat /\ Len(d.todo) # 0
  BY DEF Drain
<1>2. /\ Len(acc) \in Nat
      /\ \A k \in 1 .. Len(acc) : cs[k] = Content(l, acc[k]) /\ cs[k] \in Contents
  BY AcceptedContentsType
<1>3. /\ g <= Len(acc) /\ \A k \in 1 .. g : d.got[k] = <<Base[acc[k]], cs[k]>>
      /\ Sofar(cs, g, d.total)
      /\ g + Len(d.todo) = Len(acc) /\ \A k \in 1 .. Len(d.todo) : d.todo[k] = acc[g + k]
  BY DEF AsRead
<1> HIDE DEF acc, cs, g
<1>4. m = d.todo[1] /\ 1 \in 1 .. Len(d.todo) /\ g + 1 \in 1 .. Len(acc)
  BY <1>1, <1>2, <1>3
<1>5. m = acc[g + 1] /\ c = cs[g + 1] /\ c \in Contents
  BY <1>2, <1>3, <1>4
<1>6. /\ Within(d.total, c) => Sofar(cs, g + 1, d.total + Size[c])
      /\ ~Within(d.total, c) => ~Fits(cs, g + 1)
  BY <1>1, <1>3, <1>5, SofarNext
<1>7. ASSUME ~Within(d.total, c), e = [d EXCEPT !.todo = <<>>] PROVE AsRead(l, e)
  <2>1. e.todo = <<>> /\ e.got = d.got /\ e.total = d.total
    BY <1>7 DEF Drain
  <2> QED
    BY <1>3, <1>6, <1>7, <2>1 DEF AsRead, acc, cs, g
<1> HIDE DEF f
<1>8. ASSUME Within(d.total, c),
             e = [d EXCEPT !.todo = Tail(@), !.got = Append(@, f), !.total = @ + Size[c]]
      PROVE  AsRead(l, e)
  <2>1. e.todo = Tail(d.todo) /\ e.got = Append(d.got, f) /\ e.total = d.total + Size[c]
    BY <1>8 DEF Drain
  <2>2. f \in Format /\ f = <<Base[acc[g + 1]], cs[g + 1]>>
    <3>1. m \in Mimes
      BY <1>1, <1>4, ElementType
    <3> QED
      BY <1>5, <3>1, MimeAssumption DEF f, Format
  <2>3. /\ Len(e.got) = g + 1 /\ e.got[g + 1] = f
        /\ \A k \in 1 .. g : e.got[k] = d.got[k]
    BY <1>1, <2>1, <2>2 DEF g
  <2>4. \A k \in 1 .. g + 1 : e.got[k] = <<Base[acc[k]], cs[k]>>
    <3>1. \A k \in 1 .. g + 1 : k \in 1 .. g \/ k = g + 1
      BY <1>1
    <3> QED
      BY <1>3, <2>2, <2>3, <3>1
  <2>5. /\ (g + 1) + Len(e.todo) = Len(acc) /\ Len(e.todo) \in Nat
        /\ \A k \in 1 .. Len(e.todo) : e.todo[k] = d.todo[k + 1] /\ k + 1 \in 1 .. Len(d.todo)
    BY <1>1, <1>3, <2>1
  <2>6. \A k \in 1 .. Len(e.todo) : e.todo[k] = acc[(g + 1) + k]
    <3>1. \A k \in 1 .. Len(e.todo) : g + (k + 1) = (g + 1) + k
      BY <1>1, <2>5
    <3>2. \A k \in 1 .. Len(e.todo) : e.todo[k] = acc[g + (k + 1)]
      BY <1>3, <2>5
    <3> QED
      BY <3>1, <3>2
  <2>7. g + 1 <= Len(acc) /\ Sofar(cs, g + 1, e.total)
    BY <1>1, <1>4, <1>6, <1>8, <2>1
  <2> QED
    BY <2>3, <2>4, <2>5, <2>6, <2>7 DEF AsRead, acc, cs
<1> QED
  BY <1>7, <1>8 DEF f

LEMMA ReadFormatContent == ASSUME TypeOK, ContentInv, ReadFormat PROVE ContentInv'
<1>1. PICK n \in DOMAIN offered, m \in Mimes, c \in Contents \cup {None} :
            /\ drain \in Drain /\ drain # None /\ n = drain.offer
            /\ drain.todo # <<>> /\ m = Head(drain.todo) /\ c \in Received(n, m)
            /\ \/ c = None
               \/ ~Within(drain.total, c) /\ TooLarge(n)
               \/ Discard(n)
               \/ Within(drain.total, c) /\ Retain(Base[m], c)
            /\ broken' = IF n = current /\ c # None THEN broken ELSE broken \cup {n}
  BY ReadFormatCases
<1>2. UNCHANGED <<offered, channel, captured>> /\ broken \subseteq broken'
  BY <1>1 DEF ReadFormat, selection, consumer
<1>3. drain' = None \/ drain'.offer = n
  BY <1>1, ReadFormatDrain
<1>4. ASSUME drain' # None, n \notin broken' PROVE AsRead(offered[n].formats, drain')
  <2>1. n = current /\ c # None /\ n \notin broken
    BY <1>1, <1>4
  <2> DEFINE l == offered[n].formats
  <2>2. l \in Seq(Format) /\ c = Content(l, m)
    BY <1>1, <2>1, OfferType DEF Received
  <2>3. AsRead(l, drain)
    BY <1>1, <2>1 DEF ContentInv, ReadRight
  <2> HIDE DEF l
  <2>4. CASE ~Within(drain.total, c) /\ TooLarge(n)
    BY <1>1, <2>2, <2>3, <2>4, RetainAsRead DEF TooLarge, l
  <2>5. CASE Within(drain.total, c) /\ Retain(Base[m], c)
    BY <1>1, <2>2, <2>3, <2>5, RetainAsRead DEF Retain, l
  <2> QED
    BY <1>1, <1>4, <2>1, <2>4, <2>5 DEF Discard
<1>5. ReadRight'
  BY <1>2, <1>3, <1>4 DEF ReadRight
<1> QED
  BY <1>2, <1>5 DEF ContentInv, ChannelRight, CapturedRight

\* What was read in full, with nothing sensitive in it, is what it should be.
LEMMA ReadOutcome ==
  ASSUME NEW l \in Seq(Format), NEW d \in Drain, AsRead(l, d), d.todo = <<>>, ~Sensitive(l),
         \A f \in FormatsOf(d.got) : ~Secret(f[1], f[2])
  PROVE  FormatsOf(d.got) = Outcome(l)
<1> DEFINE acc == Accepted(l)
           c == AcceptedContents(l)
           g == Len(d.got)
<1>1. d.got \in Seq(Format) /\ g \in Nat /\ DOMAIN d.got = 1 .. g
  BY DEF Drain
<1>2. Len(acc) \in Nat /\ DOMAIN c = 1 .. Len(acc)
  BY AcceptedContentsType
<1>3. /\ g <= Len(acc) /\ \A k \in 1 .. g : d.got[k] = <<Base[acc[k]], c[k]>>
      /\ Fits(c, g) /\ (g = Len(acc) \/ ~Fits(c, g + 1))
  <2>1. Len(d.todo) = 0 /\ g + 0 = g
    BY <1>1
  <2> QED
    BY <2>1 DEF AsRead, Sofar
<1> HIDE DEF acc, c, g
<1>4. g \in 0 .. Len(acc)
  BY <1>1, <1>2, <1>3
<1>5. {j \in DOMAIN c : Fits(c, j)} = 1 .. g
  BY <1>2, <1>3, <1>4, FitsEnds
<1>6. FormatsOf(d.got) = {<<Base[acc[k]], c[k]>> : k \in {j \in DOMAIN c : Fits(c, j)}}
  BY <1>1, <1>3, <1>5 DEF FormatsOf
<1> QED
  BY <1>6 DEF Outcome, acc, c

LEMMA PushContent == ASSUME TypeOK, CleanInv, ContentInv, Push PROVE ContentInv'
<1> DEFINE x == [offer |-> drain.offer, formats |-> drain.got]
<1>1. /\ drain # None /\ drain.todo = <<>> /\ drain' = None
      /\ UNCHANGED <<offered, broken, captured>>
      /\ channel' = channel \/ channel' = Append(channel, x)
  BY DEF Push, Discard, selection, consumer
<1>2. /\ x.offer = drain.offer /\ x.formats = drain.got
      /\ x \in [offer : DOMAIN offered, formats : Seq(Format)]
      /\ drain \in Drain /\ drain.offer \in DOMAIN offered
  BY <1>1 DEF TypeOK, Drain
<1>3. channel \in Seq([offer : DOMAIN offered, formats : Seq(Format)])
  BY DEF TypeOK
<1>4. drain.offer \notin broken => FormatsOf(drain.got) = Outcome(offered[drain.offer].formats)
  <2>1. /\ ~Sensitive(offered[drain.offer].formats)
        /\ \A f \in FormatsOf(drain.got) : ~Secret(f[1], f[2])
    BY <1>1 DEF CleanInv, ReadClean, Clean
  <2>2. offered[drain.offer].formats \in Seq(Format)
    BY <1>2, OfferType
  <2> QED
    BY <1>1, <1>2, <2>1, <2>2, ReadOutcome DEF ContentInv, ReadRight
<1> HIDE DEF x
<1>5. \A k \in DOMAIN channel' : (k \in DOMAIN channel /\ channel'[k] = channel[k]) \/ channel'[k] = x
  <2>1. CASE channel' = channel
    BY <2>1
  <2>2. CASE channel' = Append(channel, x)
    BY <1>2, <1>3, <2>2, AppendType
  <2> QED
    BY <1>1, <2>1, <2>2
<1>6. ChannelRight'
  BY <1>1, <1>2, <1>4, <1>5 DEF ContentInv, ChannelRight
<1> QED
  BY <1>1, <1>6 DEF ContentInv, ReadRight, CapturedRight

LEMMA ConsumeContent == ASSUME TypeOK, ContentInv, Consume PROVE ContentInv'
<1> PICK n, F : n = Head(channel).offer /\ F = FormatsOf(Head(channel).formats)
  OBVIOUS
<1> DEFINE x == [offer |-> n, formats |-> F, marks |-> Len(marks)]
<1>1. /\ channel # <<>> /\ channel' = Tail(channel) /\ UNCHANGED <<offered, drain, broken>>
      /\ captured' = captured \/ captured' = Append(captured, x)
  BY DEF Consume, selection, capture
<1>2. x.offer = n /\ x.formats = F
  OBVIOUS
<1>3. /\ 1 \in DOMAIN channel /\ Head(channel) = channel[1]
      /\ \A k \in DOMAIN channel' : k + 1 \in DOMAIN channel /\ channel'[k] = channel[k + 1]
  <2>1. channel \in Seq([offer : DOMAIN offered, formats : Seq(Format)])
    BY DEF TypeOK
  <2> QED
    BY <1>1, <2>1, TailType
<1>4. n \notin broken => F = Outcome(offered[n].formats)
  BY <1>3 DEF ContentInv, ChannelRight
<1> HIDE DEF x
<1>5. \A k \in DOMAIN captured' :
        (k \in DOMAIN captured /\ captured'[k] = captured[k]) \/ captured'[k] = x
  <2>1. CASE captured' = captured
    BY <2>1
  <2>2. CASE captured' = Append(captured, x)
    <3>1. IsSeq(captured)
      BY DEF TypeOK, IsSeq
    <3> QED
      BY <2>2, <3>1, AppendSeq
  <2> QED
    BY <1>1, <2>1, <2>2
<1>6. CapturedRight'
  BY <1>1, <1>2, <1>4, <1>5 DEF ContentInv, CapturedRight
<1>7. ReadRight' /\ ChannelRight'
  BY <1>1, <1>3 DEF ContentInv, ReadRight, ChannelRight
<1> QED
  BY <1>6, <1>7 DEF ContentInv

LEMMA NextContent == TypeOK /\ CleanInv /\ ContentInv /\ [Next]_vars => ContentInv'
<1> SUFFICES ASSUME TypeOK, CleanInv, ContentInv, [Next]_vars PROVE ContentInv'
  OBVIOUS
<1> USE DEF selection, capture, consumer
<1>1. CASE Copy \/ SelectPrimary \/ Clear \/ \E r \in Restores : SetSelection(r)
  <2>1. /\ UNCHANGED <<drain, channel, captured, broken>>
        /\ \E o : offered' = Append(offered, o)
    BY <1>1 DEF Copy, SelectPrimary, Clear, SetSelection, BecomeSelection, Announce
  <2>2. \A n \in DOMAIN offered : offered'[n] = offered[n]
    BY <2>1, AppendSeq DEF CleanInv, Shape
  <2> QED
    BY <2>1, <2>2, OtherContent
<1>2. CASE PrimarySelection
  BY <1>2, OtherContent DEF PrimarySelection
<1>3. ASSUME NEW r \in Restores, Load(r) \/ Mark(r) \/ RestoreFails(r) \/ Cancelled(r)
      PROVE  ContentInv'
  BY <1>3, OtherContent DEF Load, Mark, RestoreFails, Cancelled
<1>4. CASE UNCHANGED vars
  BY <1>4, OtherContent DEF vars
<1> QED
  BY <1>1, <1>2, <1>3, <1>4, SelectionContent, ReadFormatContent, PushContent, ConsumeContent
  DEF Next, CaptureThread, RestoreThread

\* The history has the copies in their order, each at most once and each as it
\* should be: the accepted formats within the limits, as they were copied - but
\* for those that changed hands, or of which a read failed, while being read.
THEOREM HistoryIsTheCopiesHolds == Spec => []HistoryIsTheCopies
<1>1. Init => InOrder /\ ContentInv
  BY DEF Init, InOrder, Increasing, OffersOf, Drained, Before,
         ContentInv, ReadRight, ChannelRight, CapturedRight
<1>2. InOrder /\ ContentInv => HistoryIsTheCopies
  BY DEF InOrder, Increasing, ContentInv, CapturedRight, HistoryIsTheCopies
<1>3. Typed => TypeOK
  BY DEF Typed
<1> QED
  BY <1>1, <1>2, <1>3, InitTyped, NextTyped, InitClean, NextClean, NextInOrder, NextContent,
     PTL DEF Spec

-----------------------------------------------------------------------------
(***************************************************************************)
(* Echoes.  A restore marks before it owns, and until another one marks    *)
(* the marker is what it owns.                                             *)
(***************************************************************************)
IsMarked(r) == \E j \in DOMAIN marks : marks[j] = r
Marked ==
    /\ \A r \in Restores : pc[r] = "spawned" => IsMarked(r)
    /\ \A n \in DOMAIN offered : offered[n].owner \in Restores =>
           IsMarked(offered[n].owner) /\ pc[offered[n].owner] \in {"owner", "done"}
LastMark == marks # <<>> =>
    /\ pc[marks[Len(marks)]] = "spawned" => marker = FormatsOf(held[marks[Len(marks)]])
    /\ \A n \in DOMAIN offered : offered[n].owner = marks[Len(marks)] =>
           marker = FormatsOf(offered[n].formats)
Plain(n) == n \notin broken /\ Outcome(offered[n].formats) = FormatsOf(offered[n].formats)
MarkedBefore == \A k \in DOMAIN captured :
    Plain(captured[k].offer) =>
        \A j \in DOMAIN marks : marks[j] = offered[captured[k].offer].owner => j < captured[k].marks
EchoInv == Marked /\ LastMark /\ MarkedBefore

\* What is known of the marks, and of the offers that were captured.
LEMMA MarksType ==
  ASSUME TypeOK
  PROVE  /\ DOMAIN marks = 1 .. Len(marks) /\ Len(marks) \in Nat
         /\ \A j \in DOMAIN marks : marks[j] \in Restores
         /\ marks # <<>> => Len(marks) \in DOMAIN marks
         /\ \A k \in DOMAIN captured : captured[k].offer \in DOMAIN offered
<1>1. marks \in Seq(Restores)
  BY DEF TypeOK
<1> QED
  BY <1>1, QueueTypes DEF OffersOf

\* Somebody else's selection.
LEMMA AnnounceEcho ==
  ASSUME TypeOK, EchoInv, NEW owner \in {"application", "primary", "nobody"}, NEW l \in Seq(Format),
         NEW event \in Events, Announce(owner, l, event),
         UNCHANGED <<captured, broken, pc, held, marker, marks>>
  PROVE  EchoInv'
<1>1. /\ \A n \in DOMAIN offered : offered'[n] = offered[n]
      /\ offered'[Len(offered')].owner = owner
      /\ \A n \in DOMAIN offered' : n \in DOMAIN offered \/ n = Len(offered')
  <2>1. owner \in Owners
    BY DEF Owners
  <2>2. /\ offered' \in Seq([owner : Owners, formats : Seq(Format)])
        /\ Len(offered') = Len(offered) + 1
        /\ \A n \in DOMAIN offered : offered'[n] = offered[n]
        /\ offered'[Len(offered')].owner = owner
    BY <2>1, AnnounceTyped
  <2>3. DOMAIN offered' = 1 .. Len(offered) + 1 /\ DOMAIN offered = 1 .. Len(offered)
        /\ Len(offered) \in Nat
    BY <2>2, QueueTypes
  <2> QED
    BY <2>2, <2>3
<1>2. owner \notin Restores
  BY OwnerAssumption
<1>3. Marked'
  BY <1>1, <1>2 DEF EchoInv, Marked, IsMarked
<1>4. LastMark'
  BY <1>1, <1>2, MarksType DEF EchoInv, LastMark
<1>5. MarkedBefore'
  BY <1>1, MarksType DEF EchoInv, MarkedBefore, Plain
<1> QED
  BY <1>3, <1>4, <1>5 DEF EchoInv

\* The selection of a restore.
LEMMA SetSelectionEcho ==
  ASSUME TypeOK, EchoInv, NEW r \in Restores, SetSelection(r)
  PROVE  EchoInv'
<1>1. /\ pc[r] = "spawned" /\ pc' = [pc EXCEPT ![r] = "owner"]
      /\ UNCHANGED <<captured, broken, held, marker, marks>>
      /\ Announce(r, held[r], "selection")
  BY DEF SetSelection, BecomeSelection, capture, consumer
<1>2. /\ \A n \in DOMAIN offered : offered'[n] = offered[n]
      /\ offered'[Len(offered')].owner = r /\ offered'[Len(offered')].formats = held[r]
      /\ \A n \in DOMAIN offered' : n \in DOMAIN offered \/ n = Len(offered')
  <2>1. r \in Owners /\ held[r] \in Seq(Format) /\ "selection" \in Events
    BY DEF Owners, Events, TypeOK
  <2>2. /\ offered' \in Seq([owner : Owners, formats : Seq(Format)])
        /\ Len(offered') = Len(offered) + 1
        /\ \A n \in DOMAIN offered : offered'[n] = offered[n]
        /\ offered'[Len(offered')].owner = r /\ offered'[Len(offered')].formats = held[r]
    BY <1>1, <2>1, AnnounceTyped
  <2>3. DOMAIN offered' = 1 .. Len(offered) + 1 /\ DOMAIN offered = 1 .. Len(offered)
        /\ Len(offered) \in Nat
    BY <2>2, QueueTypes
  <2> QED
    BY <2>2, <2>3
<1>3. pc'[r] = "owner" /\ \A q \in Restores : q # r => pc'[q] = pc[q]
  BY <1>1 DEF TypeOK
<1>4. IsMarked(r)
  BY <1>1 DEF EchoInv, Marked
<1>5. Marked'
  BY <1>1, <1>2, <1>3, <1>4 DEF EchoInv, Marked, IsMarked
<1>6. LastMark'
  BY <1>1, <1>2, <1>3, MarksType DEF EchoInv, LastMark
<1>7. MarkedBefore'
  BY <1>1, <1>2, MarksType DEF EchoInv, MarkedBefore, Plain
<1> QED
  BY <1>5, <1>6, <1>7 DEF EchoInv

LEMMA MarkEcho ==
  ASSUME TypeOK, EchoInv, NEW r \in Restores, Mark(r)
  PROVE  EchoInv'
<1>1. /\ pc[r] = "loaded" /\ pc' = [pc EXCEPT ![r] = "spawned"] /\ marker' = FormatsOf(held[r])
      /\ marks' = Append(marks, r) /\ UNCHANGED <<offered, captured, broken, held>>
  BY DEF Mark, selection, capture, consumer
<1>2. /\ Len(marks') = Len(marks) + 1 /\ marks'[Len(marks')] = r /\ Len(marks') \in DOMAIN marks'
      /\ \A j \in DOMAIN marks : j \in DOMAIN marks' /\ marks'[j] = marks[j]
      /\ \A j \in DOMAIN marks' : j \in DOMAIN marks \/ j = Len(marks')
  <2>1. marks \in Seq(Restores)
    BY DEF TypeOK
  <2> QED
    BY <1>1, <2>1, AppendType
<1>3. pc'[r] = "spawned" /\ \A q \in Restores : q # r => pc'[q] = pc[q]
  BY <1>1 DEF TypeOK
<1>4. \A n \in DOMAIN offered : offered[n].owner # r
  BY <1>1 DEF EchoInv, Marked
<1>5. IsMarked(r)' /\ \A q : IsMarked(q) => IsMarked(q)'
  BY <1>2 DEF IsMarked
<1>6. Marked'
  BY <1>1, <1>3, <1>4, <1>5 DEF EchoInv, Marked
<1>7. LastMark'
  BY <1>1, <1>2, <1>4 DEF LastMark
<1>8. MarkedBefore'
  BY <1>1, <1>2, <1>4, MarksType DEF EchoInv, MarkedBefore, Plain
<1> QED
  BY <1>6, <1>7, <1>8 DEF EchoInv

\* The end of a restore, or its start.
LEMMA RestoreEcho ==
  ASSUME TypeOK, EchoInv, NEW r \in Restores, Load(r) \/ RestoreFails(r) \/ Cancelled(r)
  PROVE  EchoInv'
<1>1. UNCHANGED <<offered, captured, broken, marker, marks>>
  BY DEF Load, RestoreFails, Cancelled, selection, capture, consumer
<1>2. /\ \A q \in Restores : q # r => pc'[q] = pc[q] /\ held'[q] = held[q]
      /\ pc'[r] # "spawned" /\ (pc'[r] = "done" \/ pc[r] = "idle")
  BY DEF Load, RestoreFails, Cancelled, End, TypeOK
<1>3. Marked'
  BY <1>1, <1>2 DEF EchoInv, Marked, IsMarked
<1>4. LastMark'
  BY <1>1, <1>2, MarksType DEF EchoInv, LastMark
<1> QED
  BY <1>1, <1>3, <1>4 DEF EchoInv, MarkedBefore, Plain

LEMMA OtherEcho ==
  ASSUME EchoInv, UNCHANGED <<offered, captured, marker, marks, pc, held>>, broken \subseteq broken'
  PROVE  EchoInv'
BY DEF EchoInv, Marked, IsMarked, LastMark, MarkedBefore, Plain

\* What the consumer adds differs from the marker, so its owner, if it gives
\* back what was restored, was not the last to mark.
LEMMA ConsumeEcho ==
  ASSUME TypeOK, ContentInv, EchoInv, Consume
  PROVE  EchoInv'
<1> PICK n, F : n = Head(channel).offer /\ F = FormatsOf(Head(channel).formats)
  OBVIOUS
<1> DEFINE x == [offer |-> n, formats |-> F, marks |-> Len(marks)]
<1>1. /\ channel # <<>>
      /\ captured' = captured \/ (marker # F /\ captured' = Append(captured, x))
      /\ UNCHANGED <<offered, broken, marker, marks, pc, held>>
  BY DEF Consume, selection, capture, restore
<1>2. x.offer = n /\ x.marks = Len(marks)
  OBVIOUS
<1> HIDE DEF x
<1>3. n \in DOMAIN offered /\ (n \notin broken => F = Outcome(offered[n].formats))
  <2>1. channel \in Seq([offer : DOMAIN offered, formats : Seq(Format)])
    BY DEF TypeOK
  <2>2. 1 \in DOMAIN channel /\ Head(channel) = channel[1]
    BY <1>1, <2>1, TailType
  <2>3. channel[1] \in [offer : DOMAIN offered, formats : Seq(Format)]
    BY <2>1, <2>2, ElementType
  <2> QED
    BY <2>2, <2>3 DEF ContentInv, ChannelRight
<1>4. ASSUME Plain(n), marker # F, NEW j \in DOMAIN marks, marks[j] = offered[n].owner
      PROVE  j < Len(marks)
  <2>1. marker # FormatsOf(offered[n].formats)
    BY <1>3, <1>4 DEF Plain
  <2>2. marks # <<>> /\ j \in 1 .. Len(marks) /\ Len(marks) \in Nat
    BY MarksType
  <2>3. marks[Len(marks)] # offered[n].owner
    BY <1>3, <2>1, <2>2 DEF EchoInv, LastMark
  <2> QED
    BY <1>4, <2>2, <2>3
<1>5. CASE captured' = captured
  BY <1>1, <1>5, OtherEcho
<1>6. CASE marker # F /\ captured' = Append(captured, x)
  <2>1. \A k \in DOMAIN captured' :
          (k \in DOMAIN captured /\ captured'[k] = captured[k]) \/ captured'[k] = x
    <3>1. IsSeq(captured)
      BY DEF TypeOK, IsSeq
    <3> QED
      BY <1>6, <3>1, AppendSeq
  <2>2. MarkedBefore'
    BY <1>1, <1>2, <1>4, <1>6, <2>1 DEF EchoInv, MarkedBefore, Plain
  <2>3. Marked' /\ LastMark'
    BY <1>1 DEF EchoInv, Marked, IsMarked, LastMark
  <2> QED
    BY <2>2, <2>3 DEF EchoInv
<1> QED
  BY <1>1, <1>5, <1>6

LEMMA NextEcho == TypeOK /\ ContentInv /\ EchoInv /\ [Next]_vars => EchoInv'
<1> SUFFICES ASSUME TypeOK, ContentInv, EchoInv, [Next]_vars PROVE EchoInv'
  OBVIOUS
<1> USE DEF selection, capture, consumer, restore
<1>1. CASE Copy
  <2>1. PICK l \in Copies : Announce("application", l, "selection")
    BY <1>1 DEF Copy, BecomeSelection
  <2>2. l \in Seq(Format) /\ "selection" \in Events
    BY CopyAssumption DEF Events
  <2> QED
    BY <1>1, <2>1, <2>2, AnnounceEcho DEF Copy
<1>2. CASE SelectPrimary \/ Clear
  <2>1. PICK owner \in {"primary", "nobody"}, event \in Events : Announce(owner, <<>>, event)
    BY <1>2 DEF SelectPrimary, Clear, BecomeSelection, Events
  <2>2. <<>> \in Seq(Format)
    OBVIOUS
  <2>3. owner \in {"application", "primary", "nobody"}
    OBVIOUS
  <2>4. UNCHANGED <<captured, broken, pc, held, marker, marks>>
    BY <1>2 DEF SelectPrimary, Clear
  <2> QED
    BY <2>1, <2>2, <2>3, <2>4, AnnounceEcho, Zenon
<1>3. CASE CaptureThread
  <2>1. broken \subseteq broken'
    BY <1>3 DEF CaptureThread, PrimarySelection, Selection, ReadFormat, Push
  <2>2. UNCHANGED <<offered, captured, marker, marks, pc, held>>
    BY <1>3 DEF CaptureThread, PrimarySelection, Selection, ReadFormat, Push
  <2> QED
    BY <2>1, <2>2, OtherEcho
<1>4. CASE UNCHANGED vars
  BY <1>4, OtherEcho DEF vars
<1> QED
  BY <1>1, <1>2, <1>3, <1>4, SetSelectionEcho, MarkEcho, RestoreEcho, ConsumeEcho
  DEF Next, RestoreThread

\* The daemon's own selection is stored only if it is not one that capture
\* gives back as it is, if it was not read well, or if another restore has set
\* the marker since.
THEOREM EchoIgnoredHolds == Spec => []EchoIgnored
<1>1. Init => ContentInv /\ EchoInv
  BY DEF Init, ContentInv, ReadRight, ChannelRight, CapturedRight,
         EchoInv, Marked, LastMark, MarkedBefore
<1>2. TypeOK /\ EchoInv => EchoIgnored
  <2> SUFFICES ASSUME TypeOK, EchoInv, NEW k \in DOMAIN captured,
                      offered[captured[k].offer].owner \in Restores, Plain(captured[k].offer)
               PROVE  MarkedAt(offered[captured[k].offer].owner) < captured[k].marks
    BY DEF EchoIgnored, Plain
  <2> PICK r : r = offered[captured[k].offer].owner
    OBVIOUS
  <2>1. IsMarked(r)
    BY MarksType DEF EchoInv, Marked
  <2>2. MarkedAt(r) \in DOMAIN marks /\ marks[MarkedAt(r)] = r
    BY <2>1 DEF IsMarked, MarkedAt
  <2> QED
    BY <2>2 DEF EchoInv, MarkedBefore
<1>3. Typed => TypeOK
  BY DEF Typed
<1> QED
  BY <1>1, <1>2, <1>3, InitTyped, NextTyped, InitClean, NextClean, NextContent, NextEcho,
     PTL DEF Spec
=============================================================================
