---------------------------- MODULE LabeldProofs ----------------------------
(***************************************************************************)
(* Whatever the clients, items and pictures, and however often the daemon  *)
(* stops: a client reads every event at most once and in order, the model  *)
(* is asked about an item at most once, every label is true, and what the  *)
(* daemon, its handlers and the clients do is what Stream promises.        *)
(*                                                                         *)
(* The promise of the stream is the first half: what a client has read,    *)
(* what is in its socket and what its handler holds are positions in the   *)
(* log that rise (InOrder) and pass its filters (Filtered).  The labeller  *)
(* is one such client, and an item is added once (AddedOnce); so an item   *)
(* that has been in its hands before (Seen) is never read of again.        *)
(* Truthful says what the formats, and the data in hand, are pictures of.  *)
(* For Stream, what is on its way to a client takes its place as a set of  *)
(* positions; that nothing waits for a handler that has yet to subscribe   *)
(* (Fresh) makes a joining client begin with nothing.                      *)
(***************************************************************************)
EXTENDS Labeld, TLAPS, SequenceTheorems

Positions == 1 .. Len(log)

WatchTyped ==
    /\ up \in BOOLEAN /\ log \in Seq(Event)
    /\ side \in [Clients -> {"new", "here", "left"}]
    /\ task \in [Clients -> {"none", "asked", "on"}]
    /\ next \in [Clients -> 1 .. Len(log) + 1]
    /\ hand \in [Clients -> Seq(Positions)]
    /\ pipe \in [Clients -> Seq(Positions)]
    /\ got  \in [Clients -> Seq(Positions)]
    /\ \A c \in Clients : /\ Len(hand[c]) <= 1 /\ Len(pipe[c]) <= Room
                          /\ task[c] # "on" => hand[c] = <<>>
                          /\ side[c] # "here" => pipe[c] = <<>>
    /\ ~up => \A c \in Clients : task[c] = "none"

\* One sequence rises, lies wholly before another, or wholly below a position.
Rises(s) == \A i, j \in 1 .. Len(s) : i < j => s[i] < s[j]
Before(s, t) == \A i \in 1 .. Len(s), j \in 1 .. Len(t) : s[i] < t[j]
Below(s, n) == \A i \in 1 .. Len(s) : s[i] < n

\* Over all its connections, every client is given later and later events.
Successive(g, p, h) ==
    Rises(g) /\ Rises(p) /\ Before(g, p) /\ Before(g, h) /\ Before(p, h)
AllBelow(g, p, h, n) == Below(g, n) /\ Below(p, n) /\ Below(h, n)
InOrder == \A c \in Clients :
    /\ Successive(got[c], pipe[c], hand[c])
    /\ task[c] = "on" => AllBelow(got[c], pipe[c], hand[c], next[c])

\* And only such as it has asked for.
WantedBy(c, s) == \A i \in 1 .. Len(s) : Passed(c, log[s[i]])
Filtered == \A c \in Clients :
    WantedBy(c, got[c]) /\ WantedBy(c, pipe[c]) /\ WantedBy(c, hand[c])

WatchInv == WatchTyped /\ InOrder /\ Filtered

LabelTyped ==
    /\ items \in [Items -> UNION {[formats -> Contents] : formats \in SUBSET Mimes}]
    /\ made \in [Items -> 0 .. Versions]
    /\ fate \in [Items -> Seq({"skipped", "failed", "labelled"})]
    /\ \A k \in Items : made[k] = 0 => items[k] = NoFormats
    /\ phase \in {"idle", "watch", "decode", "ask", "update"}
    /\ work \in [item : Items, mime : Mimes, data : Contents]
    /\ phase \in AtWork => work.mime \in ImageMimes

\* An item is made before there is an event on it, and is added once.
AddedOnce ==
    /\ \A p \in Positions : made[log[p].item] > 0
    /\ \A p, q \in Positions :
        log[p].tag = "item-added" /\ log[q].tag = "item-added" /\ log[p].item = log[q].item
            => p = q

HadInHand(k) == fate[k] # <<>> \/ (phase \in AtWork /\ work.item = k)
ReadOf(k) == \E i \in 1 .. Len(got[Labeller]) : log[got[Labeller][i]].item = k
Seen == \A k \in Items : HadInHand(k) => ReadOf(k)

PictureOf(k, data) == \E v \in 1 .. made[k] : data = <<k, v>>
DescribesOne(k, data) == \E v \in 1 .. made[k] : data = LabelOf(<<k, v>>)
Truthful ==
    /\ \A k \in Items : \A f \in DOMAIN items[k] :
        IF f = Label THEN items[k][f] = ByUser \/ DescribesOne(k, items[k][f])
                     ELSE PictureOf(k, items[k][f])
    /\ phase = "ask" => PictureOf(work.item, work.data)
    /\ phase = "update" => DescribesOne(work.item, work.data)

IInv == WatchInv /\ LabelTyped /\ AddedOnce /\ Seen /\ OneCallPerItem /\ Truthful

-----------------------------------------------------------------------------
(***************************************************************************)
(* Sequences of positions.                                                 *)
(***************************************************************************)
LEMMA EmptyIsOrderly ==
    /\ Rises(<<>>) /\ \A s : Before(s, <<>>) /\ Before(<<>>, s)
    /\ \A n : Below(<<>>, n)
    /\ \A c : WantedBy(c, <<>>)
BY DEF Rises, Before, Below, WantedBy

LEMMA BelowMonotonic ==
    ASSUME NEW s \in Seq(Nat), NEW m \in Nat, NEW n \in Nat, Below(s, m), m <= n
    PROVE  Below(s, n)
<1>1. \A i \in 1 .. Len(s) : s[i] \in Nat
  BY ElementOfSeq
<1> QED
  BY <1>1 DEF Below

LEMMA OneMore ==
    ASSUME NEW S, NEW s \in Seq(S), NEW x \in S, NEW t, t = Append(s, x)
    PROVE  /\ t \in Seq(S) /\ Len(s) \in Nat /\ Len(t) = Len(s) + 1
           /\ \A i \in 1 .. Len(t) : t[i] = IF i <= Len(s) THEN s[i] ELSE x
BY AppendProperties, LenProperties

\* What the handler holds goes to the end of the socket's buffer.
LEMMA HandToPipe ==
    ASSUME NEW S, NEW g \in Seq(S), NEW p \in Seq(S), NEW h \in Seq(S), h # <<>>, Len(h) <= 1
    PROVE  /\ p \o h \in Seq(S) /\ Len(p \o h) = Len(p) + 1
           /\ Successive(g, p, h) => Successive(g, p \o h, <<>>)
           /\ \A n : AllBelow(g, p, h, n) => AllBelow(g, p \o h, <<>>, n)
           /\ \A c : WantedBy(c, p) /\ WantedBy(c, h) => WantedBy(c, p \o h)
<1> DEFINE q == p \o h
<1>1. Len(h) \in Nat /\ Len(p) \in Nat /\ Len(g) \in Nat
  BY LenProperties
<1>2. Len(h) = 1
  <2> DEFINE n == Len(h)
  <2>1. n \in Nat \ {0} /\ n <= 1
    BY EmptySeq, Zenon
  <2> HIDE DEF n
  <2>2. n = 1
    BY <2>1
  <2> QED
    BY <2>2 DEF n
<1>3. /\ q \in Seq(S) /\ Len(q) = Len(p) + Len(h)
      /\ \A i \in 1 .. Len(p) + Len(h) : q[i] = IF i <= Len(p) THEN p[i] ELSE h[i - Len(p)]
  BY ConcatProperties, Zenon
<1>4. /\ Len(q) = Len(p) + 1 /\ q[Len(p) + 1] = h[1]
      /\ \A i \in 1 .. Len(p) : q[i] = p[i]
  <2> HIDE DEF q
  <2> QED
    BY <1>1, <1>2, <1>3
<1> HIDE DEF q
<1>5. Successive(g, p, h) => Successive(g, q, <<>>)
  <2> SUFFICES ASSUME Successive(g, p, h) PROVE Rises(q) /\ Before(g, q)
    BY EmptyIsOrderly DEF Successive
  <2>1. Rises(q)
    BY <1>1, <1>2, <1>4 DEF Successive, Rises, Before
  <2>2. Before(g, q)
    BY <1>1, <1>2, <1>4 DEF Successive, Before
  <2> QED
    BY <2>1, <2>2
<1>6. ASSUME NEW n, AllBelow(g, p, h, n) PROVE AllBelow(g, q, <<>>, n)
  <2>1. Below(q, n)
    BY <1>1, <1>2, <1>4, <1>6 DEF AllBelow, Below
  <2> QED
    BY <1>6, <2>1, EmptyIsOrderly DEF AllBelow
<1>7. ASSUME NEW c, WantedBy(c, p), WantedBy(c, h) PROVE WantedBy(c, q)
  BY <1>1, <1>2, <1>4, <1>7 DEF WantedBy
<1> QED
  BY <1>3, <1>4, <1>5, <1>6, <1>7 DEF q

\* The client takes the first of what is in the socket.
LEMMA PipeToGot ==
    ASSUME NEW S, NEW g \in Seq(S), NEW p \in Seq(S), NEW h \in Seq(S), p # <<>>
    PROVE  /\ Append(g, Head(p)) \in Seq(S) /\ Tail(p) \in Seq(S)
           /\ Len(p) \in Nat /\ Len(Tail(p)) = Len(p) - 1
           /\ Successive(g, p, h) => Successive(Append(g, Head(p)), Tail(p), h)
           /\ \A n : AllBelow(g, p, h, n) => AllBelow(Append(g, Head(p)), Tail(p), h, n)
           /\ \A c : WantedBy(c, g) /\ WantedBy(c, p)
                        => WantedBy(c, Append(g, Head(p))) /\ WantedBy(c, Tail(p))
<1> DEFINE t == Tail(p)
           u == Append(g, Head(p))
<1>1. Len(h) \in Nat /\ Len(p) \in Nat /\ Len(g) \in Nat
  BY LenProperties
<1>2. Len(p) >= 1
  BY <1>1, EmptySeq
<1>3. /\ Head(p) = p[1] /\ p[1] \in S /\ t \in Seq(S) /\ Len(t) = Len(p) - 1
      /\ \A i \in 1 .. Len(t) : t[i] = p[i + 1]
  BY <1>2, HeadTailProperties
<1>4. /\ u \in Seq(S) /\ Len(u) = Len(g) + 1 /\ u[Len(g) + 1] = p[1]
      /\ \A i \in 1 .. Len(g) : u[i] = g[i]
  BY <1>1, <1>3, OneMore
<1>5. \A i \in 1 .. Len(t) : i + 1 \in 1 .. Len(p) /\ 1 \in 1 .. Len(p) /\ 1 < i + 1
  BY <1>1, <1>2, <1>3
<1> HIDE DEF t, u
<1>6. Successive(g, p, h) => Successive(u, t, h)
  <2> SUFFICES ASSUME Successive(g, p, h)
               PROVE  Rises(u) /\ Rises(t) /\ Before(u, t) /\ Before(u, h) /\ Before(t, h)
    BY DEF Successive
  <2>1. Rises(u)
    BY <1>1, <1>2, <1>4 DEF Successive, Rises, Before
  <2>2. Rises(t)
    BY <1>1, <1>3, <1>5 DEF Successive, Rises
  <2>3. Before(u, t)
    <3> SUFFICES ASSUME NEW i \in 1 .. Len(u), NEW j \in 1 .. Len(t) PROVE u[i] < t[j]
      BY DEF Before
    <3>1. CASE i = Len(g) + 1
      BY <1>3, <1>4, <1>5, <3>1 DEF Successive, Rises
    <3>2. CASE i # Len(g) + 1
      <4>1. i \in 1 .. Len(g)
        BY <1>1, <1>4, <3>2
      <4> QED
        BY <1>3, <1>4, <1>5, <4>1 DEF Successive, Before
    <3> QED
      BY <3>1, <3>2
  <2>4. Before(u, h)
    <3> SUFFICES ASSUME NEW i \in 1 .. Len(u), NEW j \in 1 .. Len(h) PROVE u[i] < h[j]
      BY DEF Before
    <3>1. CASE i = Len(g) + 1
      BY <1>1, <1>2, <1>4, <3>1 DEF Successive, Before
    <3>2. CASE i # Len(g) + 1
      <4>1. i \in 1 .. Len(g)
        BY <1>1, <1>4, <3>2
      <4> QED
        BY <1>4, <4>1 DEF Successive, Before
    <3> QED
      BY <3>1, <3>2
  <2>5. Before(t, h)
    BY <1>3, <1>5 DEF Successive, Before
  <2> QED
    BY <2>1, <2>2, <2>3, <2>4, <2>5
<1>7. ASSUME NEW n, AllBelow(g, p, h, n) PROVE AllBelow(u, t, h, n)
  <2>1. Below(u, n)
    BY <1>1, <1>2, <1>4, <1>7 DEF AllBelow, Below
  <2>2. Below(t, n)
    BY <1>3, <1>5, <1>7 DEF AllBelow, Below
  <2> QED
    BY <1>7, <2>1, <2>2 DEF AllBelow
<1>8. ASSUME NEW c, WantedBy(c, g), WantedBy(c, p) PROVE WantedBy(c, u) /\ WantedBy(c, t)
  <2>1. WantedBy(c, u)
    <3> SUFFICES ASSUME NEW i \in 1 .. Len(u) PROVE Passed(c, log[u[i]])
      BY DEF WantedBy
    <3>1. CASE i = Len(g) + 1
      BY <1>1, <1>2, <1>4, <1>8, <3>1 DEF WantedBy
    <3>2. CASE i # Len(g) + 1
      <4>1. i \in 1 .. Len(g)
        BY <1>1, <1>4, <3>2
      <4> QED
        BY <1>4, <1>8, <4>1 DEF WantedBy
    <3> QED
      BY <3>1, <3>2
  <2>2. WantedBy(c, t)
    BY <1>3, <1>5, <1>8 DEF WantedBy
  <2> QED
    BY <2>1, <2>2
<1> QED
  BY <1>1, <1>3, <1>4, <1>6, <1>7, <1>8 DEF t, u

-----------------------------------------------------------------------------
(***************************************************************************)
(* The stream, one lemma per action.                                       *)
(***************************************************************************)
LEMMA WatchInitInv ==
    WatchInit => WatchInv
<1> SUFFICES ASSUME WatchInit PROVE WatchInv
  OBVIOUS
<1>1. <<>> \in Seq(Event) /\ Len(<<>>) = 0 /\ \A S : <<>> \in Seq(S)
  OBVIOUS
<1> QED
  BY <1>1, EmptyIsOrderly, SizeAssumption
  DEF WatchInit, WatchInv, WatchTyped, Positions, InOrder, Filtered, Successive

\* The positions that a client has, or is about to have.
LEMMA Held ==
    ASSUME WatchInv, NEW c \in Clients
    PROVE  /\ Len(log) \in Nat /\ next[c] \in 1 .. Len(log) + 1
           /\ got[c] \in Seq(Positions) /\ pipe[c] \in Seq(Positions) /\ hand[c] \in Seq(Positions)
           /\ AllBelow(got[c], pipe[c], hand[c], Len(log) + 1)
<1>1. /\ Len(log) \in Nat /\ next[c] \in 1 .. Len(log) + 1
      /\ got[c] \in Seq(Positions) /\ pipe[c] \in Seq(Positions) /\ hand[c] \in Seq(Positions)
  BY DEF WatchInv, WatchTyped
<1>2. ASSUME NEW s \in Seq(Positions) PROVE Below(s, Len(log) + 1)
  <2>1. \A i \in 1 .. Len(s) : s[i] \in Positions
    BY ElementOfSeq
  <2> QED
    BY <1>1, <2>1 DEF Below, Positions
<1> QED
  BY <1>1, <1>2 DEF AllBelow

LEMMA PublishInv ==
    ASSUME WatchInv, NEW e \in Event, Publish(e) PROVE WatchInv'
<1>1. log \in Seq(Event) /\ Len(log) \in Nat
  BY DEF WatchInv, WatchTyped
<1>2. /\ log' \in Seq(Event) /\ Len(log') = Len(log) + 1
      /\ \A k \in 1 .. Len(log) : log'[k] = log[k]
  BY <1>1, AppendProperties DEF Publish
<1>3. ASSUME NEW s \in Seq(Positions) PROVE s \in Seq(Positions')
  BY <1>1, <1>2, <1>3, SeqMonotonic DEF Positions
<1>4. ASSUME NEW s \in Seq(Positions), NEW c, WantedBy(c, s)
      PROVE  \A i \in 1 .. Len(s) : Passed(c, log'[s[i]])
  BY <1>1, <1>2, <1>4, ElementOfSeq DEF Positions, WantedBy
<1>5. WatchTyped'
  BY <1>1, <1>2, <1>3 DEF WatchInv, WatchTyped, Publish
<1>6. InOrder'
  BY DEF WatchInv, InOrder, Publish
<1>7. Filtered'
  <2>1. UNCHANGED <<got, pipe, hand>>
    BY DEF Publish
  <2> QED
    BY <1>4, <2>1 DEF WatchInv, WatchTyped, Filtered, WantedBy, Passed
<1> QED
  BY <1>5, <1>6, <1>7 DEF WatchInv

LEMMA SubscribeInv ==
    ASSUME WatchInv, NEW c \in Clients, Subscribe(c) PROVE WatchInv'
<1>1. WatchTyped'
  BY Held DEF WatchInv, WatchTyped, Positions, Subscribe
<1>2. InOrder'
  BY Held DEF WatchInv, WatchTyped, InOrder, Subscribe
<1>3. Filtered'
  BY DEF WatchInv, Filtered, WantedBy, Passed, Subscribe
<1> QED
  BY <1>1, <1>2, <1>3 DEF WatchInv

\* From here on a receiver's position only rises.
LEMMA OnlyRises ==
    ASSUME WatchInv, NEW c \in Clients, task[c] = "on", NEW n \in Nat, next[c] <= n
    PROVE  AllBelow(got[c], pipe[c], hand[c], n)
<1>1. /\ got[c] \in Seq(Nat) /\ pipe[c] \in Seq(Nat) /\ hand[c] \in Seq(Nat) /\ next[c] \in Nat
  BY Held, SeqMonotonic, Positions \subseteq Nat DEF Positions
<1> QED
  BY <1>1, BelowMonotonic DEF WatchInv, InOrder, AllBelow

LEMMA LagInv ==
    ASSUME WatchInv, NEW c \in Clients, Lag(c) PROVE WatchInv'
<1>1. /\ Oldest \in 1 .. Len(log) + 1 /\ next[c] < Oldest /\ task[c] = "on"
  BY Held, SizeAssumption DEF Oldest, Lag
<1>2. AllBelow(got[c], pipe[c], hand[c], Oldest)
  BY <1>1, Held, OnlyRises
<1>3. WatchTyped'
  BY <1>1 DEF WatchInv, WatchTyped, Positions, Lag
<1>4. InOrder'
  BY <1>2 DEF WatchInv, WatchTyped, InOrder, Lag
<1>5. Filtered'
  BY DEF WatchInv, Filtered, WantedBy, Passed, Lag
<1> QED
  BY <1>3, <1>4, <1>5 DEF WatchInv

LEMMA RecvInv ==
    ASSUME WatchInv, NEW c \in Clients, Recv(c) PROVE WatchInv'
<1>1. next[c] \in 1 .. Len(log) /\ Len(log) \in Nat /\ task[c] = "on" /\ hand[c] = <<>>
  BY Held DEF Recv
<1>2. /\ next' = [next EXCEPT ![c] = next[c] + 1]
      /\ \E h \in {<<next[c]>>, <<>>} :
            /\ hand' = [hand EXCEPT ![c] = h]
            /\ h = <<next[c]>> => Passed(c, log[next[c]])
      /\ UNCHANGED <<up, log, side, task, pipe, got>>
  BY DEF Recv, Passed
<1>3. PICK h \in {<<next[c]>>, <<>>} :
            /\ hand' = [hand EXCEPT ![c] = h]
            /\ h = <<next[c]>> => Passed(c, log[next[c]])
  BY <1>2
<1>4. /\ h \in Seq(Positions) /\ Len(h) \in {0, 1}
      /\ \A i \in 1 .. Len(h) : h[i] = next[c] /\ Passed(c, log[next[c]])
  <2>1. CASE h = <<next[c]>>
    BY <1>1, <1>3, <2>1 DEF Positions
  <2>2. CASE h = <<>>
    BY <1>1, <2>2
  <2> QED
    BY <1>3, <2>1, <2>2
<1>5. /\ Below(got[c], next[c]) /\ Below(pipe[c], next[c])
      /\ AllBelow(got[c], pipe[c], hand[c], next[c] + 1)
  BY <1>1, OnlyRises DEF WatchInv, InOrder, AllBelow
<1>6. AllBelow(got[c], pipe[c], h, next[c] + 1) /\ Successive(got[c], pipe[c], h)
  <2>1. Below(h, next[c] + 1)
    BY <1>1, <1>4 DEF Below
  <2>2. Before(got[c], h) /\ Before(pipe[c], h)
    BY <1>4, <1>5 DEF Before, Below
  <2> QED
    BY <1>5, <2>1, <2>2 DEF WatchInv, InOrder, AllBelow, Successive
<1>7. WantedBy(c, h)
  BY <1>4 DEF WantedBy
<1>8. WatchTyped'
  <2>1. next[c] + 1 \in 1 .. Len(log) + 1
    BY <1>1
  <2>2. /\ next' \in [Clients -> 1 .. Len(log) + 1]
        /\ hand' \in [Clients -> Seq(Positions)]
    BY <1>2, <1>3, <1>4, <2>1 DEF WatchInv, WatchTyped
  <2>3. \A d \in Clients : Len(hand'[d]) <= 1 /\ (task[d] # "on" => hand'[d] = <<>>)
    <3> SUFFICES ASSUME NEW d \in Clients
                 PROVE  Len(hand'[d]) <= 1 /\ (task[d] # "on" => hand'[d] = <<>>)
      OBVIOUS
    <3>1. CASE d = c
      <4>1. hand'[c] = h /\ task[c] = "on"
        BY <1>1, <1>3 DEF WatchInv, WatchTyped
      <4> QED
        BY <1>4, <3>1, <4>1
    <3>2. CASE d # c
      BY <1>3, <3>2 DEF WatchInv, WatchTyped
    <3> QED
      BY <3>1, <3>2
  <2> QED
    BY <1>2, <2>2, <2>3 DEF WatchInv, WatchTyped, Positions
<1>9. InOrder'
  BY <1>2, <1>3, <1>6 DEF WatchInv, WatchTyped, InOrder
<1>10. Filtered'
  BY <1>2, <1>3, <1>7 DEF WatchInv, WatchTyped, Filtered, WantedBy, Passed
<1> QED
  BY <1>8, <1>9, <1>10 DEF WatchInv

LEMMA WriteInv ==
    ASSUME WatchInv, NEW c \in Clients, Write(c) PROVE WatchInv'
<1> DEFINE s == pipe[c] \o hand[c]
<1>1. /\ Len(pipe[c]) \in Nat /\ Len(pipe[c]) < Room /\ Room \in Nat
      /\ side[c] = "here" /\ hand[c] # <<>> /\ Len(hand[c]) <= 1
      /\ <<>> \in Seq(Positions) /\ Len(<<>>) = 0
  BY SizeAssumption DEF WatchInv, WatchTyped, Write
<1>2. /\ s \in Seq(Positions) /\ Len(s) <= Room
      /\ Successive(got[c], s, <<>>) /\ WantedBy(c, s)
      /\ task[c] = "on" => AllBelow(got[c], s, <<>>, next[c])
  <2> HIDE DEF s
  <2>1. /\ s \in Seq(Positions) /\ Len(s) = Len(pipe[c]) + 1
        /\ Successive(got[c], pipe[c], hand[c]) => Successive(got[c], s, <<>>)
        /\ \A n : AllBelow(got[c], pipe[c], hand[c], n) => AllBelow(got[c], s, <<>>, n)
        /\ \A d : WantedBy(d, pipe[c]) /\ WantedBy(d, hand[c]) => WantedBy(d, s)
    BY <1>1, Held, HandToPipe, Zenon DEF s
  <2> QED
    BY <1>1, <2>1 DEF WatchInv, InOrder, Filtered
<1>3. /\ pipe' = [pipe EXCEPT ![c] = s] /\ hand' = [hand EXCEPT ![c] = <<>>]
      /\ UNCHANGED <<up, log, side, task, next, got>>
  BY DEF Write
<1> HIDE DEF s
<1>4. WatchTyped'
  BY <1>1, <1>2, <1>3 DEF WatchInv, WatchTyped, Positions
<1>5. InOrder'
  BY <1>2, <1>3 DEF WatchInv, WatchTyped, InOrder
<1>6. Filtered'
  BY <1>2, <1>3, EmptyIsOrderly DEF WatchInv, WatchTyped, Filtered, WantedBy, Passed
<1> QED
  BY <1>4, <1>5, <1>6 DEF WatchInv

LEMMA WriteFailsInv ==
    ASSUME WatchInv, NEW c \in Clients, WriteFails(c) PROVE WatchInv'
<1>1. Len(<<>>) = 0 /\ <<>> \in Seq(Positions) /\ Len(log) \in Nat
  BY Held
<1>2. WatchTyped'
  BY <1>1 DEF WatchInv, WatchTyped, Positions, WriteFails
<1>3. InOrder'
  BY EmptyIsOrderly DEF WatchInv, WatchTyped, InOrder, Successive, WriteFails
<1>4. Filtered'
  BY EmptyIsOrderly DEF WatchInv, WatchTyped, Filtered, WantedBy, Passed, WriteFails
<1> QED
  BY <1>2, <1>3, <1>4 DEF WatchInv

LEMMA StopInv ==
    ASSUME WatchInv, Stop PROVE WatchInv'
<1>1. Len(<<>>) = 0 /\ <<>> \in Seq(Positions) /\ Len(log) \in Nat
  BY DEF WatchInv, WatchTyped
<1>2. /\ up' = FALSE /\ UNCHANGED <<log, side, pipe, got>>
      /\ task' = [c \in Clients |-> "none"] /\ next' = [c \in Clients |-> 1]
      /\ hand' = [c \in Clients |-> <<>>]
  BY DEF Stop
<1>3. WatchTyped'
  <2>1. 1 \in 1 .. Len(log) + 1
    BY <1>1
  <2>2. /\ next' \in [Clients -> 1 .. Len(log) + 1]
        /\ hand' \in [Clients -> Seq(Positions)]
    BY <1>1, <1>2, <2>1
  <2>3. \A c \in Clients : Len(hand'[c]) <= 1 /\ hand'[c] = <<>> /\ task'[c] = "none"
    BY <1>1, <1>2
  <2> QED
    BY <1>2, <2>2, <2>3 DEF WatchInv, WatchTyped, Positions
<1>4. InOrder'
  BY <1>2, EmptyIsOrderly DEF WatchInv, InOrder, Successive
<1>5. Filtered'
  BY <1>2, EmptyIsOrderly DEF WatchInv, Filtered, WantedBy, Passed
<1> QED
  BY <1>3, <1>4, <1>5 DEF WatchInv

LEMMA StartInv ==
    ASSUME WatchInv, Start PROVE WatchInv'
BY DEF WatchInv, WatchTyped, Positions, InOrder, Filtered, WantedBy, Passed, Start

LEMMA ConnectInv ==
    ASSUME WatchInv, NEW c \in Clients, Connect(c) PROVE WatchInv'
<1>1. WatchTyped'
  BY DEF WatchInv, WatchTyped, Positions, Connect
<1>2. InOrder'
  BY DEF WatchInv, WatchTyped, InOrder, Connect
<1>3. Filtered'
  BY DEF WatchInv, Filtered, WantedBy, Passed, Connect
<1> QED
  BY <1>1, <1>2, <1>3 DEF WatchInv

LEMMA EofInv ==
    ASSUME WatchInv, NEW c \in Clients, Eof(c) PROVE WatchInv'
<1>1. WatchTyped'
  BY DEF WatchInv, WatchTyped, Positions, Eof
<1>2. InOrder' /\ Filtered'
  BY DEF WatchInv, InOrder, Filtered, WantedBy, Passed, Eof
<1> QED
  BY <1>1, <1>2 DEF WatchInv

LEMMA LeaveInv ==
    ASSUME WatchInv, NEW c \in Clients, Leave(c) PROVE WatchInv'
<1>1. Len(<<>>) = 0 /\ <<>> \in Seq(Positions) /\ Room \in Nat
  BY SizeAssumption
<1>2. WatchTyped'
  BY <1>1 DEF WatchInv, WatchTyped, Positions, Leave
<1>3. InOrder'
  BY EmptyIsOrderly DEF WatchInv, WatchTyped, InOrder, Successive, AllBelow, Leave
<1>4. Filtered'
  BY EmptyIsOrderly DEF WatchInv, WatchTyped, Filtered, WantedBy, Passed, Leave
<1> QED
  BY <1>2, <1>3, <1>4 DEF WatchInv

LEMMA ReadInv ==
    ASSUME WatchInv, NEW c \in Clients, Read(c) PROVE WatchInv'
<1> DEFINE s == Append(got[c], Head(pipe[c]))
           t == Tail(pipe[c])
<1>1. /\ pipe[c] # <<>> /\ side[c] = "here"
      /\ Len(pipe[c]) <= Room /\ Room \in Nat
  BY SizeAssumption DEF WatchInv, WatchTyped, Read
<1>2. /\ s \in Seq(Positions) /\ t \in Seq(Positions) /\ Len(t) <= Room
      /\ Successive(s, t, hand[c]) /\ WantedBy(c, s) /\ WantedBy(c, t)
      /\ task[c] = "on" => AllBelow(s, t, hand[c], next[c])
  BY <1>1, Held, PipeToGot DEF WatchInv, InOrder, Filtered
<1>3. /\ got' = [got EXCEPT ![c] = s] /\ pipe' = [pipe EXCEPT ![c] = t]
      /\ UNCHANGED <<up, log, side, task, next, hand>>
  BY DEF Read
<1> HIDE DEF s, t
<1>4. WatchTyped'
  BY <1>1, <1>2, <1>3 DEF WatchInv, WatchTyped, Positions
<1>5. InOrder'
  BY <1>2, <1>3 DEF WatchInv, WatchTyped, InOrder
<1>6. Filtered'
  BY <1>2, <1>3 DEF WatchInv, WatchTyped, Filtered, WantedBy, Passed
<1> QED
  BY <1>4, <1>5, <1>6 DEF WatchInv

-----------------------------------------------------------------------------
(***************************************************************************)
(* The formats of an item, and what describes them.                        *)
(***************************************************************************)
LEMMA ImageMimesAre ==
    ImageMimes = {"image/png", "image/webp", "image/jpeg", "image/bmp"} /\ Label \notin ImageMimes
BY DEF ImageMimes, ImageMimePriority, ToSet, Label

\* What is chosen is an image, and the item has it.
LEMMA ChosenMime ==
    ASSUME NEW formats \in SUBSET Mimes, formats \cap ImageMimes # {}
    PROVE  ChooseImageMime(formats) \in formats \cap ImageMimes
<1> DEFINE Fits(p) == /\ p \in DOMAIN ImageMimePriority
                      /\ ImageMimePriority[p] \in formats
                      /\ \A q \in 1 .. p - 1 : ImageMimePriority[q] \notin formats
<1>1. /\ DOMAIN ImageMimePriority = 1 .. 4
      /\ ImageMimePriority[1] = "image/png" /\ ImageMimePriority[2] = "image/webp"
      /\ ImageMimePriority[3] = "image/jpeg" /\ ImageMimePriority[4] = "image/bmp"
  BY DEF ImageMimePriority
<1>2. \E p \in 1 .. 4 : Fits(p)
  <2>1. CASE "image/png" \in formats
    BY <1>1, <2>1
  <2>2. CASE "image/png" \notin formats /\ "image/webp" \in formats
    <3>1. \A q \in 1 .. 2 - 1 : q = 1
      OBVIOUS
    <3> QED
      BY <1>1, <2>2, <3>1
  <2>3. CASE {"image/png", "image/webp"} \cap formats = {} /\ "image/jpeg" \in formats
    <3>1. \A q \in 1 .. 3 - 1 : q \in {1, 2}
      OBVIOUS
    <3> QED
      BY <1>1, <2>3, <3>1
  <2>4. CASE {"image/png", "image/webp", "image/jpeg"} \cap formats = {}
             /\ "image/bmp" \in formats
    <3>1. \A q \in 1 .. 4 - 1 : q \in {1, 2, 3}
      OBVIOUS
    <3> QED
      BY <1>1, <2>4, <3>1
  <2> QED
    BY <2>1, <2>2, <2>3, <2>4, ImageMimesAre
<1>3. PICK p \in DOMAIN ImageMimePriority :
            /\ ImageMimePriority[p] \in formats
            /\ \A q \in 1 .. p - 1 : ImageMimePriority[q] \notin formats
  BY <1>1, <1>2
<1>4. ChooseImageMime(formats) \in formats
      /\ \E q \in DOMAIN ImageMimePriority : ChooseImageMime(formats) = ImageMimePriority[q]
  BY <1>3 DEF ChooseImageMime
<1> QED
  BY <1>4 DEF ImageMimes, ToSet

LEMMA ContentsOf ==
    ASSUME NEW k \in Items, NEW v \in 0 .. Versions
    PROVE  /\ <<k, v>> \in Contents /\ LabelOf(<<k, v>>) \in Contents
           /\ ByUser \in Contents
BY DEF Contents, Pictures

LEMMA EventsAre ==
    ASSUME NEW k \in Items, NEW mimes \in SUBSET Mimes, NEW tag \in Tags
    PROVE  [tag |-> tag, item |-> k, mimes |-> mimes] \in Event
BY DEF Event

\* A format is added or replaced.
LEMMA PutFormat ==
    ASSUME LabelTyped, NEW k \in Items, NEW mime \in Mimes, NEW data \in Contents,
           Put(k, mime, data)
    PROVE  /\ items' \in [Items -> UNION {[formats -> Contents] : formats \in SUBSET Mimes}]
           /\ \A j \in Items : j # k => items'[j] = items[j]
           /\ DOMAIN items'[k] = DOMAIN items[k] \cup {mime}
           /\ \A f \in DOMAIN items'[k] :
                  items'[k][f] = IF f = mime THEN data ELSE items[k][f]
<1> DEFINE new == [f \in DOMAIN items[k] \cup {mime} |-> IF f = mime THEN data ELSE items[k][f]]
<1>1. items \in [Items -> UNION {[formats -> Contents] : formats \in SUBSET Mimes}]
  BY DEF LabelTyped
<1>2. PICK formats \in SUBSET Mimes : items[k] \in [formats -> Contents]
  BY <1>1
<1>3. formats \cup {mime} \in SUBSET Mimes /\ new \in [formats \cup {mime} -> Contents]
  BY <1>2
<1>4. new \in UNION {[F -> Contents] : F \in SUBSET Mimes}
  BY <1>3
<1>5. items' = [items EXCEPT ![k] = new]
  BY DEF Put
<1>6. /\ DOMAIN new = DOMAIN items[k] \cup {mime}
      /\ \A f \in DOMAIN new : new[f] = IF f = mime THEN data ELSE items[k][f]
  OBVIOUS
<1> HIDE DEF new
<1> QED
  BY <1>1, <1>4, <1>5, <1>6

\* What an item has had is told by its number of pictures, which only rises.
LEMMA PictureIsContent ==
    ASSUME LabelTyped, NEW k \in Items, NEW data
    PROVE  /\ PictureOf(k, data) => data \in Contents /\ LabelOf(data) \in Contents
           /\ PictureOf(k, data) => DescribesOne(k, LabelOf(data))
           /\ DescribesOne(k, data) => data \in Contents
           /\ Versions \in Nat /\ made[k] \in 0 .. Versions
<1>1. Versions \in Nat /\ made[k] \in 0 .. Versions
  BY BoundAssumption DEF LabelTyped
<1>2. \A v \in 1 .. made[k] : v \in 0 .. Versions
  BY <1>1
<1> QED
  BY <1>1, <1>2, ContentsOf DEF PictureOf, DescribesOne

-----------------------------------------------------------------------------
(***************************************************************************)
(* What the steps have in common.                                          *)
(***************************************************************************)
\* A new event keeps to AddedOnce: its item has been made, and if it says
\* that the item was added, nothing has been said of the item before.
LEMMA AnnouncedOnce ==
    ASSUME WatchInv, AddedOnce, NEW e \in Event, Announced(e),
           \A k \in Items : made[k] > 0 => made'[k] > 0,
           made'[e.item] > 0,
           e.tag = "item-added" => ~(made[e.item] > 0)
    PROVE  /\ WatchInv' /\ AddedOnce'
           /\ \A k \in Items : ReadOf(k) => ReadOf(k)'
<1>1. /\ log \in Seq(Event) /\ Len(log) \in Nat
      /\ got[Labeller] \in Seq(Positions)
      /\ \A p \in 1 .. Len(log) : log[p] \in Event
  BY LabellerAssumption, ElementOfSeq DEF WatchInv, WatchTyped
<1>2. CASE Publish(e)
  <2>1. /\ Len(log') = Len(log) + 1 /\ log'[Len(log) + 1] = e
        /\ \A p \in 1 .. Len(log) : log'[p] = log[p]
        /\ got' = got
    BY <1>1, <1>2, AppendProperties DEF Publish
  <2>2. WatchInv'
    BY <1>2, PublishInv
  <2>3. ASSUME NEW p \in 1 .. Len(log), NEW q \in 1 .. Len(log)
        PROVE  /\ made'[log'[p].item] > 0
               /\ log'[p].tag = "item-added" /\ log'[q].tag = "item-added"
                    /\ log'[p].item = log'[q].item => p = q
               /\ log'[p].item = e.item => e.tag # "item-added"
    BY <1>1, <2>1, <2>3 DEF AddedOnce, Positions, Event
  <2>4. \A p \in 1 .. Len(log') : p \in 1 .. Len(log) \/ p = Len(log) + 1
    BY <1>1, <2>1
  <2>5. AddedOnce'
    <3>1. \A p \in 1 .. Len(log') : made'[log'[p].item] > 0
      BY <2>1, <2>3, <2>4
    <3>2. ASSUME NEW p \in 1 .. Len(log'), NEW q \in 1 .. Len(log'),
                 log'[p].tag = "item-added", log'[q].tag = "item-added",
                 log'[p].item = log'[q].item
          PROVE  p = q
      <4>1. CASE p \in 1 .. Len(log) /\ q \in 1 .. Len(log)
        BY <2>3, <3>2, <4>1
      <4>2. CASE p = Len(log) + 1 /\ q \in 1 .. Len(log)
        BY <2>1, <2>3, <3>2, <4>2
      <4>3. CASE q = Len(log) + 1 /\ p \in 1 .. Len(log)
        BY <2>1, <2>3, <3>2, <4>3
      <4> QED
        BY <2>4, <4>1, <4>2, <4>3
    <3> QED
      BY <3>1, <3>2 DEF AddedOnce, Positions
  <2>6. ASSUME NEW k \in Items, ReadOf(k) PROVE ReadOf(k)'
    BY <1>1, <2>1, <2>6, ElementOfSeq DEF ReadOf, Positions
  <2> QED
    BY <2>2, <2>5, <2>6
<1>3. CASE UNCHANGED watchVars
  BY <1>1, <1>3
  DEF watchVars, WatchInv, WatchTyped, InOrder, Filtered, WantedBy, Passed, AddedOnce, ReadOf,
      Positions, Event
<1> QED
  BY <1>2, <1>3 DEF Announced

\* A step that is none of the labeller's.
LEMMA LabellerRests ==
    ASSUME Seen, OneCallPerItem, UNCHANGED <<phase, work, fate>>,
           \A k \in Items : ReadOf(k) => ReadOf(k)'
    PROVE  Seen' /\ OneCallPerItem'
BY DEF Seen, HadInHand, OneCallPerItem

\* Pictures are added, none is taken back.
LEMMA StillTrue ==
    ASSUME LabelTyped, made' \in [Items -> 0 .. Versions],
           \A k \in Items : made[k] <= made'[k], NEW k \in Items
    PROVE  \A v \in 1 .. made[k] : v \in 1 .. made'[k]
<1>1. Versions \in Nat /\ made[k] \in 0 .. Versions /\ made'[k] \in 0 .. Versions
  BY BoundAssumption DEF LabelTyped
<1> QED
  BY <1>1

\* One format of one item is written, with something true.
LEMMA TruthfulPut ==
    ASSUME LabelTyped, Truthful,
           NEW k \in Items, NEW mime \in Mimes, NEW data \in Contents, Put(k, mime, data),
           made' \in [Items -> 0 .. Versions], \A j \in Items : made[j] <= made'[j],
           IF mime = Label
           THEN data = ByUser \/ \E v \in 1 .. made'[k] : data = LabelOf(<<k, v>>)
           ELSE \E v \in 1 .. made'[k] : data = <<k, v>>
    PROVE  \A j \in Items : \A f \in DOMAIN items'[j] :
               IF f = Label THEN items'[j][f] = ByUser \/ DescribesOne(j, items[j][f])'
                            ELSE PictureOf(j, items[j][f])'
<1> SUFFICES ASSUME NEW j \in Items, NEW f \in DOMAIN items'[j]
             PROVE  IF f = Label THEN \/ items'[j][f] = ByUser
                                      \/ \E v \in 1 .. made'[j] : items'[j][f] = LabelOf(<<j, v>>)
                                 ELSE \E v \in 1 .. made'[j] : items'[j][f] = <<j, v>>
  BY DEF DescribesOne, PictureOf
<1>1. CASE j = k /\ f = mime
  BY <1>1, PutFormat
<1>2. CASE ~(j = k /\ f = mime)
  <2>1. f \in DOMAIN items[j] /\ items'[j][f] = items[j][f]
    BY <1>2, PutFormat
  <2>2. \A v \in 1 .. made[j] : v \in 1 .. made'[j]
    BY StillTrue
  <2> QED
    BY <2>1, <2>2 DEF Truthful, DescribesOne, PictureOf
<1> QED
  BY <1>1, <1>2

\* What is in hand stays true.
LEMMA TruthfulWork ==
    ASSUME LabelTyped, Truthful, UNCHANGED <<phase, work>>,
           made' \in [Items -> 0 .. Versions], \A j \in Items : made[j] <= made'[j]
    PROVE  /\ phase' = "ask" => PictureOf(work.item, work.data)'
           /\ phase' = "update" => DescribesOne(work.item, work.data)'
<1>1. work.item \in Items
  BY DEF LabelTyped
<1>2. \A v \in 1 .. made[work.item] : v \in 1 .. made'[work.item]
  BY <1>1, StillTrue
<1> QED
  BY <1>2 DEF Truthful, DescribesOne, PictureOf

\* The labeller is through with an item that is in its hands, or that has not
\* been there before.
LEMMA OutcomeOnce ==
    ASSUME LabelTyped, OneCallPerItem, NEW k \in Items,
           NEW what \in {"skipped", "failed", "labelled"}, Outcome(k, what),
           \/ phase \in AtWork /\ work.item = k
           \/ phase \notin AtWork /\ fate[k] = <<>>
    PROVE  /\ fate' \in [Items -> Seq({"skipped", "failed", "labelled"})]
           /\ phase' = "watch" /\ phase' \notin AtWork
           /\ work' \in [item : Items, mime : Mimes, data : Contents]
           /\ OneCallPerItem'
           /\ \A j \in Items : HadInHand(j)' => HadInHand(j) \/ j = k
<1> DEFINE Fates == {"skipped", "failed", "labelled"}
           next_ == Append(fate[k], what)
<1>1. fate \in [Items -> Seq(Fates)] /\ fate[k] \in Seq(Fates) /\ Len(fate[k]) \in Nat
  BY DEF LabelTyped
<1>2. Len(fate[k]) = 0
  BY <1>1 DEF OneCallPerItem
<1>3. next_ \in Seq(Fates) /\ Len(next_) = 1
  BY <1>1, <1>2, AppendProperties
<1>4. fate' = [fate EXCEPT ![k] = next_] /\ phase' = "watch" /\ work' = NoWork
  BY DEF Outcome
<1> HIDE DEF next_
<1>5. fate' \in [Items -> Seq(Fates)]
  BY <1>1, <1>3, <1>4
<1>6. /\ fate'[k] = next_
      /\ \A j \in Items : j # k => fate'[j] = fate[j]
  BY <1>1, <1>4
<1>7. work' \in [item : Items, mime : Mimes, data : Contents]
  <2>1. (CHOOSE j \in Items : TRUE) \in Items
    BY BoundAssumption
  <2> QED
    BY <1>4, <2>1, MimesAssumption DEF NoWork, Contents
<1>8. phase' \notin AtWork
  BY <1>4 DEF AtWork
<1>9. OneCallPerItem'
  <2> SUFFICES ASSUME NEW j \in Items PROVE Len(fate'[j]) + 0 <= 1
    BY <1>8 DEF OneCallPerItem
  <2>1. CASE j = k
    <3>1. Len(fate'[j]) = 1
      BY <1>3, <1>6, <2>1
    <3> QED
      BY <3>1
  <2>2. CASE j # k
    <3>1. Len(fate[j]) \in Nat
      BY <1>1
    <3> QED
      BY <1>6, <2>2, <3>1 DEF OneCallPerItem
  <2> QED
    BY <2>1, <2>2
<1>10. \A j \in Items : HadInHand(j)' => HadInHand(j) \/ j = k
  BY <1>6, <1>8 DEF HadInHand
<1> QED
  BY <1>4, <1>5, <1>7, <1>8, <1>9, <1>10

-----------------------------------------------------------------------------
(***************************************************************************)
(* The users, one lemma per action.                                        *)
(***************************************************************************)
LEMMA UserAddsInv ==
    ASSUME IInv, NEW k \in Items, NEW formats \in SUBSET Mimes, UserAdds(k, formats)
    PROVE  IInv'
<1> DEFINE e == [tag |-> "item-added", item |-> k, mimes |-> formats]
           new == [f \in formats |-> IF f = Label THEN ByUser ELSE <<k, 1>>]
<1>1. /\ made \in [Items -> 0 .. Versions] /\ Versions \in Nat \ {0} /\ made[k] = 0
      /\ items \in [Items -> UNION {[F -> Contents] : F \in SUBSET Mimes}]
  BY BoundAssumption DEF IInv, LabelTyped, UserAdds
<1>2. /\ items' = [items EXCEPT ![k] = new] /\ made' = [made EXCEPT ![k] = 1]
      /\ Announced(e) /\ UNCHANGED <<phase, work, fate>>
  BY DEF UserAdds
<1>3. e \in Event /\ e.item = k /\ new \in [formats -> Contents]
  <2>1. 1 \in 0 .. Versions
    BY <1>1
  <2>2. <<k, 1>> \in Contents /\ ByUser \in Contents
    BY <2>1, ContentsOf
  <2> QED
    BY <2>2, EventsAre DEF Tags
<1> HIDE DEF e, new
<1>4. /\ made' \in [Items -> 0 .. Versions] /\ made'[k] = 1
      /\ \A j \in Items : made[j] <= made'[j] /\ (made[j] > 0 => made'[j] > 0)
  BY <1>1, <1>2
<1>5. WatchInv' /\ AddedOnce' /\ \A j \in Items : ReadOf(j) => ReadOf(j)'
  BY <1>1, <1>2, <1>3, <1>4, AnnouncedOnce DEF IInv
<1>6. Seen' /\ OneCallPerItem'
  BY <1>2, <1>5, LabellerRests DEF IInv
<1>7. LabelTyped'
  <2>1. items' \in [Items -> UNION {[F -> Contents] : F \in SUBSET Mimes}]
    BY <1>1, <1>2, <1>3
  <2> QED
    BY <1>1, <1>2, <1>4, <2>1 DEF IInv, LabelTyped
<1>8. Truthful'
  <2>1. ASSUME NEW j \in Items, NEW f \in DOMAIN items'[j]
        PROVE  IF f = Label THEN \/ items'[j][f] = ByUser
                                 \/ \E v \in 1 .. made'[j] : items'[j][f] = LabelOf(<<j, v>>)
                            ELSE \E v \in 1 .. made'[j] : items'[j][f] = <<j, v>>
    <3>1. CASE j = k
      <4>1. items'[j] = new
        BY <1>1, <1>2, <3>1
      <4>2. f = Label => items'[j][f] = ByUser
        BY <4>1 DEF new
      <4>3. f # Label => items'[j][f] = <<j, 1>> /\ 1 \in 1 .. made'[j]
        BY <1>4, <3>1, <4>1 DEF new
      <4> QED
        BY <4>2, <4>3
    <3>2. CASE j # k
      <4>1. items'[j] = items[j] /\ \A v \in 1 .. made[j] : v \in 1 .. made'[j]
        BY <1>1, <1>2, <1>4, <3>2, StillTrue DEF IInv
      <4> QED
        BY <4>1 DEF IInv, Truthful, DescribesOne, PictureOf
    <3> QED
      BY <3>1, <3>2
  <2>2. /\ phase' = "ask" => PictureOf(work.item, work.data)'
        /\ phase' = "update" => DescribesOne(work.item, work.data)'
    BY <1>2, <1>4, TruthfulWork DEF IInv
  <2> QED
    BY <2>1, <2>2 DEF Truthful, DescribesOne, PictureOf
<1> QED
  BY <1>5, <1>6, <1>7, <1>8 DEF IInv

\* An update by a user.
LEMMA UserPutsInv ==
    ASSUME IInv, NEW k \in Items, k \in Live, NEW mime \in Mimes, NEW data \in Contents,
           Put(k, mime, data),
           Announced([tag |-> "item-updated", item |-> k, mimes |-> {mime}]),
           made' \in [Items -> 0 .. Versions], \A j \in Items : made[j] <= made'[j],
           IF mime = Label
           THEN data = ByUser \/ \E v \in 1 .. made'[k] : data = LabelOf(<<k, v>>)
           ELSE \E v \in 1 .. made'[k] : data = <<k, v>>,
           UNCHANGED <<phase, work, fate>>
    PROVE  IInv'
<1> DEFINE e == [tag |-> "item-updated", item |-> k, mimes |-> {mime}]
<1>1. /\ Versions \in Nat /\ made \in [Items -> 0 .. Versions]
      /\ \A j \in Items : made[j] > 0 => made'[j] > 0
  BY BoundAssumption DEF IInv, LabelTyped
<1>2. made[k] > 0
  BY <1>1 DEF IInv, LabelTyped, Live
<1>3. e \in Event /\ e.item = k /\ e.tag = "item-updated" /\ Announced(e)
  BY EventsAre DEF Tags
<1> HIDE DEF e
<1>4. WatchInv' /\ AddedOnce' /\ \A j \in Items : ReadOf(j) => ReadOf(j)'
  BY <1>1, <1>2, <1>3, AnnouncedOnce DEF IInv
<1>5. Seen' /\ OneCallPerItem'
  BY <1>4, LabellerRests DEF IInv
<1>6. LabelTyped'
  <2>1. \A j \in Items : made'[j] = 0 => items'[j] = NoFormats
    <3> SUFFICES ASSUME NEW j \in Items, made'[j] = 0 PROVE items'[j] = NoFormats
      OBVIOUS
    <3>1. made[j] = 0 /\ j # k
      BY <1>1, <1>2
    <3> QED
      BY <3>1, PutFormat DEF IInv, LabelTyped
  <2> QED
    BY <2>1, PutFormat DEF IInv, LabelTyped
<1>7. Truthful'
  BY TruthfulPut, TruthfulWork DEF IInv, Truthful
<1> QED
  BY <1>4, <1>5, <1>6, <1>7 DEF IInv

LEMMA UserReplacesInv ==
    ASSUME IInv, NEW k \in Items, NEW mime \in Mimes, UserReplaces(k, mime) PROVE IInv'
<1>1. PICK v \in 1 .. Versions : v = made[k] + 1
  BY BoundAssumption DEF IInv, LabelTyped, UserReplaces
<1>2. /\ made \in [Items -> 0 .. Versions] /\ Versions \in Nat
      /\ made' = [made EXCEPT ![k] = v]
  BY <1>1, BoundAssumption DEF IInv, LabelTyped, UserReplaces
<1>3. /\ made' \in [Items -> 0 .. Versions] /\ made'[k] = v /\ v \in 1 .. v /\ v \in 0 .. Versions
      /\ \A j \in Items : made[j] <= made'[j]
  BY <1>1, <1>2
<1>4. /\ Put(k, mime, <<k, v>>) /\ <<k, v>> \in Contents /\ k \in Live /\ mime # Label
      /\ Announced([tag |-> "item-updated", item |-> k, mimes |-> {mime}])
      /\ UNCHANGED <<phase, work, fate>>
  BY <1>1, <1>3, ContentsOf DEF UserReplaces
<1>5. \E w \in 1 .. made'[k] : <<k, v>> = <<k, w>>
  BY <1>3
<1> QED
  BY <1>3, <1>4, <1>5, UserPutsInv

LEMMA UserLabelsInv ==
    ASSUME IInv, NEW k \in Items, UserLabels(k) PROVE IInv'
<1>1. /\ made' \in [Items -> 0 .. Versions] /\ Versions \in Nat
      /\ \A j \in Items : made[j] <= made'[j]
  BY BoundAssumption DEF IInv, LabelTyped, UserLabels
<1>2. /\ Put(k, Label, ByUser) /\ k \in Live /\ ByUser \in Contents /\ Label \in Mimes
      /\ Announced([tag |-> "item-updated", item |-> k, mimes |-> {Label}])
      /\ UNCHANGED <<phase, work, fate>>
  BY MimesAssumption DEF UserLabels, Contents
<1> QED
  BY <1>1, <1>2, UserPutsInv

LEMMA UserDeletesInv ==
    ASSUME IInv, NEW k \in Items, UserDeletes(k) PROVE IInv'
<1> DEFINE e == [tag |-> "item-deleted", item |-> k, mimes |-> {}]
<1>1. /\ made' = made /\ UNCHANGED <<phase, work, fate>>
      /\ items' = [items EXCEPT ![k] = NoFormats]
      /\ Announced(e) \/ UNCHANGED watchVars
  BY DEF UserDeletes
<1>2. e \in Event /\ e.item = k /\ e.tag = "item-deleted"
  BY EventsAre DEF Tags
<1>3. made[k] > 0
  BY BoundAssumption DEF IInv, LabelTyped, Live, UserDeletes
<1> HIDE DEF e
<1>4. WatchInv' /\ AddedOnce' /\ \A j \in Items : ReadOf(j) => ReadOf(j)'
  <2>1. CASE Announced(e)
    BY <1>1, <1>2, <1>3, <2>1, AnnouncedOnce DEF IInv
  <2>2. CASE UNCHANGED watchVars
    BY <1>1, <2>2
    DEF IInv, watchVars, WatchInv, WatchTyped, InOrder, Filtered, WantedBy, Passed, AddedOnce,
        ReadOf, Positions
  <2> QED
    BY <1>1, <2>1, <2>2
<1>5. Seen' /\ OneCallPerItem'
  BY <1>1, <1>4, LabellerRests DEF IInv
<1>6. NoFormats \in UNION {[F -> Contents] : F \in SUBSET Mimes} /\ DOMAIN NoFormats = {}
  <2>1. NoFormats \in [{} -> Contents] /\ {} \in SUBSET Mimes
    BY DEF NoFormats
  <2> QED
    BY <2>1 DEF NoFormats
<1>7. LabelTyped'
  BY <1>1, <1>6 DEF IInv, LabelTyped
<1>8. Truthful'
  <2>1. ASSUME NEW j \in Items, NEW f \in DOMAIN items'[j]
        PROVE  j # k /\ f \in DOMAIN items[j] /\ items'[j] = items[j]
    BY <1>1, <1>6, <2>1 DEF IInv, LabelTyped
  <2> QED
    BY <1>1, <2>1 DEF IInv, Truthful, DescribesOne, PictureOf
<1> QED
  BY <1>4, <1>5, <1>7, <1>8 DEF IInv

-----------------------------------------------------------------------------
(***************************************************************************)
(* The labeller, one lemma per action.                                     *)
(***************************************************************************)
LEMMA LabellerConnectsInv ==
    ASSUME IInv, LabellerConnects PROVE IInv'
<1>1. WatchInv' /\ UNCHANGED <<log, got, items, made, work, fate>>
  BY LabellerAssumption, ConnectInv DEF IInv, LabellerConnects, Connect
<1>2. phase \notin AtWork /\ phase' = "watch" /\ phase' \notin AtWork
  BY DEF LabellerConnects, AtWork
<1>3. Seen' /\ OneCallPerItem'
  BY <1>1, <1>2 DEF IInv, Seen, HadInHand, ReadOf, OneCallPerItem
<1> QED
  BY <1>1, <1>2, <1>3
  DEF IInv, LabelTyped, AddedOnce, Positions, Truthful, DescribesOne, PictureOf

LEMMA LabellerEofInv ==
    ASSUME IInv, LabellerEof PROVE IInv'
<1>1. WatchInv' /\ UNCHANGED <<log, got, items, made, work, fate>>
  BY LabellerAssumption, EofInv DEF IInv, LabellerEof, Eof
<1>2. phase \notin AtWork /\ phase' = "idle" /\ phase' \notin AtWork
  BY DEF LabellerEof, AtWork
<1>3. Seen' /\ OneCallPerItem'
  BY <1>1, <1>2 DEF IInv, Seen, HadInHand, ReadOf, OneCallPerItem
<1> QED
  BY <1>1, <1>2, <1>3
  DEF IInv, LabelTyped, AddedOnce, Positions, Truthful, DescribesOne, PictureOf

\* The event it reads is of an item that it has not had in its hands.
LEMMA ReadIsNew ==
    ASSUME IInv, Read(Labeller), NEW p, p = Head(pipe[Labeller]),
           NEW k, k = log[p].item
    PROVE  /\ p \in Positions /\ log[p] \in Event
           /\ ~ReadOf(k) /\ ReadOf(k)'
           /\ \A j \in Items : ReadOf(j) => ReadOf(j)'
<1>1. /\ log \in Seq(Event) /\ Len(log) \in Nat
      /\ got[Labeller] \in Seq(Positions) /\ pipe[Labeller] \in Seq(Positions)
      /\ pipe[Labeller] # <<>> /\ Len(pipe[Labeller]) \in Nat /\ Len(got[Labeller]) \in Nat
  BY LabellerAssumption DEF IInv, WatchInv, WatchTyped, Read
<1>2. Len(pipe[Labeller]) >= 1
  BY <1>1, EmptySeq
<1>3. p = pipe[Labeller][1] /\ p \in Positions /\ log[p] \in Event
  BY <1>1, <1>2, HeadTailProperties, ElementOfSeq DEF Positions
<1>4. /\ got'[Labeller] = Append(got[Labeller], p)
      /\ log' = log
  BY LabellerAssumption DEF IInv, WatchInv, WatchTyped, Read
<1>5. 1 \in 1 .. Len(pipe[Labeller])
  BY <1>1, <1>2
<1>6. Passed(Labeller, log[p])
  BY <1>3, <1>5, LabellerAssumption DEF IInv, WatchInv, Filtered, WantedBy
<1>7. ASSUME NEW i \in 1 .. Len(got[Labeller])
      PROVE  /\ got[Labeller][i] \in Positions /\ got[Labeller][i] < p
             /\ Passed(Labeller, log[got[Labeller][i]])
  <2>1. got[Labeller][i] \in Positions
    BY <1>1, ElementOfSeq
  <2> QED
    BY <1>3, <1>5, <2>1, LabellerAssumption
    DEF IInv, WatchInv, InOrder, Successive, Before, Filtered, WantedBy
<1>8. ASSUME NEW e \in Event, Passed(Labeller, e) PROVE e.tag = "item-added"
  BY <1>8, WatchRequest DEF Passed, Passes, Event, Tags
<1>9. ~ReadOf(k)
  <2> SUFFICES ASSUME NEW i \in 1 .. Len(got[Labeller]), log[got[Labeller][i]].item = k
               PROVE  FALSE
    BY DEF ReadOf
  <2>1. log[got[Labeller][i]] \in Event
    BY <1>1, <1>7, ElementOfSeq DEF Positions
  <2>2. got[Labeller][i] = p
    BY <1>3, <1>6, <1>7, <1>8, <2>1 DEF IInv, AddedOnce
  <2> QED
    BY <1>1, <1>3, <1>7, <2>2 DEF Positions
<1>10. /\ Len(got'[Labeller]) = Len(got[Labeller]) + 1
       /\ got'[Labeller][Len(got[Labeller]) + 1] = p
       /\ \A i \in 1 .. Len(got[Labeller]) : got'[Labeller][i] = got[Labeller][i]
  BY <1>1, <1>3, <1>4, AppendProperties
<1>11. ReadOf(k)'
  <2>1. Len(got[Labeller]) + 1 \in 1 .. Len(got'[Labeller])
    BY <1>1, <1>10
  <2> QED
    BY <1>4, <1>10, <2>1 DEF ReadOf
<1>12. ASSUME NEW j \in Items, ReadOf(j) PROVE ReadOf(j)'
  <2>1. PICK i \in 1 .. Len(got[Labeller]) : log[got[Labeller][i]].item = j
    BY <1>12 DEF ReadOf
  <2>2. i \in 1 .. Len(got'[Labeller])
    BY <1>1, <1>10
  <2> QED
    BY <1>4, <1>10, <2>1, <2>2 DEF ReadOf
<1> QED
  BY <1>3, <1>9, <1>11, <1>12

LEMMA LabellerReadsInv ==
    ASSUME IInv, LabellerReads PROVE IInv'
<1>1. PICK p : p = Head(pipe[Labeller])
  OBVIOUS
<1>2. PICK e : e = log[p]
  OBVIOUS
<1>3. PICK k : k = log[p].item
  OBVIOUS
<1>4. /\ WatchInv' /\ UNCHANGED <<log, items, made>> /\ phase = "watch"
      /\ Read(Labeller)
  BY LabellerAssumption, ReadInv DEF IInv, LabellerReads, Read
<1>5. /\ e \in Event /\ k = e.item /\ k \in Items /\ ~ReadOf(k) /\ ReadOf(k)'
      /\ \A j \in Items : ReadOf(j) => ReadOf(j)'
  BY <1>1, <1>2, <1>3, <1>4, ReadIsNew DEF Event
<1>6. phase \notin AtWork /\ fate[k] = <<>>
  BY <1>4, <1>5 DEF IInv, Seen, HadInHand, AtWork
<1>7. AddedOnce'
  BY <1>4 DEF IInv, AddedOnce, Positions
<1>8. CASE Outcome(k, "skipped")
  <2>1. /\ fate' \in [Items -> Seq({"skipped", "failed", "labelled"})]
        /\ phase' = "watch" /\ phase' \notin AtWork
        /\ work' \in [item : Items, mime : Mimes, data : Contents]
        /\ OneCallPerItem'
        /\ \A j \in Items : HadInHand(j)' => HadInHand(j) \/ j = k
    BY <1>5, <1>6, <1>8, OutcomeOnce DEF IInv
  <2>2. Seen'
    BY <1>5, <2>1 DEF IInv, Seen
  <2>3. LabelTyped'
    BY <1>4, <2>1 DEF IInv, LabelTyped
  <2>4. Truthful'
    BY <1>4, <2>1 DEF IInv, Truthful, DescribesOne, PictureOf
  <2> QED
    BY <1>4, <1>7, <2>1, <2>2, <2>3, <2>4 DEF IInv
<1>9. CASE /\ e.mimes \cap ImageMimes # {} /\ phase' = "decode"
           /\ work' = [item |-> k, mime |-> ChooseImageMime(e.mimes), data |-> ByUser]
           /\ fate' = fate
  <2>1. ChooseImageMime(e.mimes) \in e.mimes \cap ImageMimes /\ e.mimes \in SUBSET Mimes
    BY <1>5, <1>9, ChosenMime DEF Event
  <2>2. work'.item = k /\ phase' \in AtWork
    BY <1>9 DEF AtWork
  <2>3. Seen'
    BY <1>5, <1>6, <1>9, <2>2 DEF IInv, Seen, HadInHand
  <2>4. LabelTyped'
    BY <1>4, <1>5, <1>9, <2>1 DEF IInv, LabelTyped, Contents
  <2>5. OneCallPerItem'
    <3> SUFFICES ASSUME NEW j \in Items
                 PROVE  Len(fate'[j]) + (IF phase' \in AtWork /\ work'.item = j THEN 1 ELSE 0) <= 1
      BY DEF OneCallPerItem
    <3>1. CASE j = k
      <4>1. Len(fate'[j]) = 0
        BY <1>6, <1>9, <3>1
      <4> QED
        BY <4>1
    <3>2. CASE j # k
      <4>1. fate'[j] = fate[j] /\ work'.item # j
        BY <1>9, <2>2, <3>2
      <4> QED
        BY <1>6, <4>1 DEF IInv, OneCallPerItem
    <3> QED
      BY <3>1, <3>2
  <2>6. Truthful'
    BY <1>4, <1>9 DEF IInv, Truthful, DescribesOne, PictureOf
  <2> QED
    BY <1>4, <1>7, <2>3, <2>4, <2>5, <2>6 DEF IInv
<1> QED
  BY <1>1, <1>2, <1>3, <1>8, <1>9 DEF LabellerReads

LEMMA LabellerDecodesInv ==
    ASSUME IInv, LabellerDecodes PROVE IInv'
<1>1. PICK data : data = items[work.item][work.mime]
  OBVIOUS
<1>2. /\ UNCHANGED <<watchVars, items, made, fate>>
      /\ phase \in AtWork /\ phase' = "ask" /\ phase' \in AtWork
      /\ work.item \in Items /\ work.mime \in Mimes /\ work.mime # Label
      /\ work.mime \in DOMAIN items[work.item]
      /\ work' = [work EXCEPT !.data = data]
  BY <1>1, ImageMimesAre DEF IInv, LabelTyped, LabellerDecodes, AtWork
<1>3. PictureOf(work.item, data) /\ data \in Contents
  BY <1>1, <1>2, PictureIsContent DEF IInv, Truthful
<1>4. WatchInv' /\ AddedOnce' /\ \A j \in Items : ReadOf(j) => ReadOf(j)'
  BY <1>2
  DEF IInv, watchVars, WatchInv, WatchTyped, InOrder, Filtered, WantedBy, Passed, AddedOnce,
      ReadOf, Positions
<1>5. /\ work' \in [item : Items, mime : Mimes, data : Contents]
      /\ work'.item = work.item /\ work'.mime = work.mime /\ work'.data = data
  BY <1>2, <1>3 DEF IInv, LabelTyped
<1>6. Seen' /\ OneCallPerItem'
  BY <1>2, <1>4, <1>5 DEF IInv, Seen, HadInHand, OneCallPerItem
<1>7. LabelTyped'
  BY <1>2, <1>5 DEF IInv, LabelTyped
<1>8. Truthful'
  BY <1>2, <1>3, <1>5 DEF IInv, Truthful, DescribesOne, PictureOf
<1> QED
  BY <1>4, <1>6, <1>7, <1>8 DEF IInv

LEMMA ModelAnswersInv ==
    ASSUME IInv, ModelAnswers PROVE IInv'
<1>1. PICK data : data = work.data
  OBVIOUS
<1>2. /\ UNCHANGED <<watchVars, items, made, fate>>
      /\ phase = "ask" /\ phase \in AtWork /\ phase' = "update" /\ phase' \in AtWork
      /\ work.item \in Items /\ work.mime \in Mimes
      /\ work' = [work EXCEPT !.data = LabelOf(data)]
  BY <1>1 DEF IInv, LabelTyped, ModelAnswers, AtWork
<1>3. DescribesOne(work.item, LabelOf(data)) /\ LabelOf(data) \in Contents
  BY <1>1, <1>2, PictureIsContent DEF IInv, Truthful
<1>4. WatchInv' /\ AddedOnce' /\ \A j \in Items : ReadOf(j) => ReadOf(j)'
  BY <1>2
  DEF IInv, watchVars, WatchInv, WatchTyped, InOrder, Filtered, WantedBy, Passed, AddedOnce,
      ReadOf, Positions
<1>5. /\ work' \in [item : Items, mime : Mimes, data : Contents]
      /\ work'.item = work.item /\ work'.mime = work.mime /\ work'.data = LabelOf(data)
  BY <1>2, <1>3 DEF IInv, LabelTyped
<1>6. Seen' /\ OneCallPerItem'
  BY <1>2, <1>4, <1>5 DEF IInv, Seen, HadInHand, OneCallPerItem
<1>7. LabelTyped'
  BY <1>2, <1>5 DEF IInv, LabelTyped
<1>8. Truthful'
  BY <1>2, <1>3, <1>5 DEF IInv, Truthful, DescribesOne, PictureOf
<1> QED
  BY <1>4, <1>6, <1>7, <1>8 DEF IInv

\* The labeller gives up on the item in its hands.
LEMMA FailsInv ==
    ASSUME IInv, phase \in AtWork, Outcome(work.item, "failed"),
           UNCHANGED <<watchVars, items, made>>
    PROVE  IInv'
<1>1. PICK k \in Items : k = work.item
  BY DEF IInv, LabelTyped
<1>2. /\ fate' \in [Items -> Seq({"skipped", "failed", "labelled"})]
      /\ phase' = "watch" /\ phase' \notin AtWork
      /\ work' \in [item : Items, mime : Mimes, data : Contents]
      /\ OneCallPerItem'
      /\ \A j \in Items : HadInHand(j)' => HadInHand(j) \/ j = k
  BY <1>1, OutcomeOnce DEF IInv
<1>3. WatchInv' /\ AddedOnce' /\ \A j \in Items : ReadOf(j) => ReadOf(j)'
  BY DEF IInv, watchVars, WatchInv, WatchTyped, InOrder, Filtered, WantedBy, Passed, AddedOnce,
         ReadOf, Positions
<1>4. HadInHand(k)
  BY <1>1 DEF HadInHand
<1>5. Seen'
  BY <1>2, <1>3, <1>4 DEF IInv, Seen
<1>6. LabelTyped'
  BY <1>2 DEF IInv, LabelTyped
<1>7. Truthful'
  BY <1>2 DEF IInv, Truthful, DescribesOne, PictureOf
<1> QED
  BY <1>2, <1>3, <1>5, <1>6, <1>7 DEF IInv

LEMMA LabellerUpdatesInv ==
    ASSUME IInv, LabellerUpdates PROVE IInv'
<1>1. CASE work.item \notin Live
  <2>1. /\ phase \in AtWork /\ Outcome(work.item, "failed")
        /\ UNCHANGED <<watchVars, items, made>>
    BY <1>1 DEF LabellerUpdates, AtWork
  <2> QED
    BY <2>1, FailsInv
<1>2. CASE work.item \in Live
  <2>1. PICK k \in Items : k = work.item
    BY DEF IInv, LabelTyped
  <2>2. PICK data : data = work.data
    OBVIOUS
  <2>3. PICK what \in {"labelled", "failed"} : Outcome(k, what)
    BY <1>2, <2>1 DEF LabellerUpdates
  <2>4. PICK e : e = [tag |-> "item-updated", item |-> k, mimes |-> {Label}]
    OBVIOUS
  <2>5. /\ phase = "update" /\ up /\ Put(k, Label, data) /\ made' = made /\ k \in Live
        /\ Announced(e)
    BY <1>2, <2>1, <2>2, <2>4 DEF LabellerUpdates, Announced
  <2>6. e \in Event /\ e.item = k /\ e.tag = "item-updated"
    BY <2>4, EventsAre, MimesAssumption DEF Tags
  <2>7. DescribesOne(k, data) /\ data \in Contents /\ Label \in Mimes
    BY <2>1, <2>2, <2>5, PictureIsContent, MimesAssumption DEF IInv, Truthful
  <2>8. /\ made \in [Items -> 0 .. Versions] /\ made[k] > 0
        /\ \A j \in Items : made[j] <= made'[j]
    BY <2>5, BoundAssumption DEF IInv, LabelTyped, Live
  <2>9. phase \in AtWork /\ HadInHand(k)
    BY <2>1, <2>5 DEF HadInHand, AtWork
  <2>10. /\ fate' \in [Items -> Seq({"skipped", "failed", "labelled"})]
         /\ phase' = "watch" /\ phase' \notin AtWork
         /\ work' \in [item : Items, mime : Mimes, data : Contents]
         /\ OneCallPerItem'
         /\ \A j \in Items : HadInHand(j)' => HadInHand(j) \/ j = k
    BY <2>1, <2>3, <2>9, OutcomeOnce DEF IInv
  <2>11. WatchInv' /\ AddedOnce' /\ \A j \in Items : ReadOf(j) => ReadOf(j)'
    BY <2>5, <2>6, <2>8, AnnouncedOnce DEF IInv
  <2>12. Seen'
    BY <2>9, <2>10, <2>11 DEF IInv, Seen
  <2>13. LabelTyped'
    BY <2>5, <2>7, <2>8, <2>10, PutFormat DEF IInv, LabelTyped
  <2>14. Truthful'
    <3>1. \E v \in 1 .. made'[k] : data = LabelOf(<<k, v>>)
      BY <2>5, <2>7 DEF DescribesOne
    <3> QED
      BY <2>5, <2>7, <2>8, <2>10, <3>1, TruthfulPut DEF IInv, Truthful
  <2> QED
    BY <2>10, <2>11, <2>12, <2>13, <2>14 DEF IInv
<1> QED
  BY <1>1, <1>2

\* What happens between the daemon and its clients.
LEMMA WatchStepInv ==
    ASSUME IInv, WatchStep PROVE IInv'
<1>1. UNCHANGED <<items, made, phase, work, fate>>
  BY DEF WatchStep, labelVars
<1>2. WatchInv' /\ log' = log /\ got'[Labeller] = got[Labeller]
  <2>1. ASSUME NEW c \in Clients, Handle(c)
        PROVE  WatchInv' /\ log' = log /\ got'[Labeller] = got[Labeller]
    BY <2>1, SubscribeInv, LagInv, RecvInv, WriteInv, WriteFailsInv
    DEF IInv, Handle, Subscribe, Lag, Recv, Write, WriteFails
  <2>2. ASSUME NEW c \in Clients, Watcher(c)
        PROVE  WatchInv' /\ log' = log /\ got'[Labeller] = got[Labeller]
    BY <2>2, LabellerAssumption, ConnectInv, ReadInv, EofInv, LeaveInv
    DEF IInv, WatchInv, WatchTyped, Watcher, Connect, Read, Eof, Leave
  <2>3. CASE Stop \/ Start
    BY <2>3, StopInv, StartInv DEF IInv, Stop, Start
  <2> QED
    BY <2>1, <2>2, <2>3 DEF WatchStep
<1>3. \A j \in Items : ReadOf(j) => ReadOf(j)'
  BY <1>2 DEF ReadOf
<1>4. Seen' /\ OneCallPerItem'
  BY <1>1, <1>3, LabellerRests DEF IInv
<1> QED
  BY <1>1, <1>2, <1>4 DEF IInv, LabelTyped, AddedOnce, Positions, Truthful, DescribesOne, PictureOf

-----------------------------------------------------------------------------
(***************************************************************************)
(* The invariant, and what follows from it.                                *)
(***************************************************************************)
LEMMA InitInv ==
    Init => IInv
<1> SUFFICES ASSUME Init PROVE IInv
  OBVIOUS
<1>1. /\ WatchInv /\ log = <<>> /\ Len(log) = 0 /\ Positions = {}
  BY WatchInitInv DEF Init, WatchInit, Positions
<1>2. /\ NoFormats \in UNION {[F -> Contents] : F \in SUBSET Mimes} /\ DOMAIN NoFormats = {}
  <2>1. NoFormats \in [{} -> Contents] /\ {} \in SUBSET Mimes
    BY DEF NoFormats
  <2> QED
    BY <2>1 DEF NoFormats
<1>3. NoWork \in [item : Items, mime : Mimes, data : Contents]
  <2>1. (CHOOSE j \in Items : TRUE) \in Items
    BY BoundAssumption
  <2> QED
    BY <2>1, MimesAssumption DEF NoWork, Contents
<1>4. phase \notin AtWork /\ <<>> \in Seq({"skipped", "failed", "labelled"}) /\ Len(<<>>) = 0
  BY DEF Init, AtWork
<1>5. LabelTyped
  <2>1. items \in [Items -> UNION {[F -> Contents] : F \in SUBSET Mimes}]
    BY <1>2 DEF Init
  <2>2. made \in [Items -> 0 .. Versions]
    BY BoundAssumption DEF Init
  <2>3. fate \in [Items -> Seq({"skipped", "failed", "labelled"})]
    BY <1>4 DEF Init
  <2> QED
    BY <1>3, <1>4, <2>1, <2>2, <2>3 DEF Init, LabelTyped
<1>6. AddedOnce
  BY <1>1 DEF AddedOnce
<1>7. Seen /\ OneCallPerItem
  BY <1>4 DEF Init, Seen, HadInHand, OneCallPerItem
<1>8. Truthful
  BY <1>2 DEF Init, Truthful
<1> QED
  BY <1>1, <1>5, <1>6, <1>7, <1>8 DEF IInv

LEMMA StepInv ==
    IInv /\ [Next]_vars => IInv'
<1> SUFFICES ASSUME IInv, [Next]_vars PROVE IInv'
  OBVIOUS
<1>1. CASE Users
  BY <1>1, UserAddsInv, UserReplacesInv, UserLabelsInv, UserDeletesInv DEF Users
<1>2. CASE LabellerStep
  <2>1. CASE DecodeFails \/ NoAnswer \/ UpdateFails
    <3>1. /\ phase \in AtWork /\ Outcome(work.item, "failed")
          /\ UNCHANGED <<watchVars, items, made>>
      BY <2>1 DEF DecodeFails, NoAnswer, UpdateFails, AtWork
    <3> QED
      BY <3>1, FailsInv
  <2> QED
    BY <1>2, <2>1, LabellerConnectsInv, LabellerEofInv, LabellerReadsInv, LabellerDecodesInv,
       ModelAnswersInv, LabellerUpdatesInv
    DEF LabellerStep
<1>3. CASE WatchStep
  BY <1>3, WatchStepInv
<1>4. CASE UNCHANGED vars
  <2>1. WatchInv'
    BY <1>4
    DEF IInv, vars, watchVars, WatchInv, WatchTyped, InOrder, Filtered, WantedBy, Passed, Positions
  <2>2. UNCHANGED <<log, got, items, made, fate, phase, work>>
    BY <1>4 DEF vars, watchVars, labelVars
  <2>3. LabelTyped'
    BY <2>2 DEF IInv, LabelTyped
  <2>4. AddedOnce'
    BY <2>2 DEF IInv, AddedOnce, Positions
  <2>5. Seen'
    BY <2>2 DEF IInv, Seen, HadInHand, ReadOf
  <2>6. OneCallPerItem'
    BY <2>2 DEF IInv, OneCallPerItem
  <2>7. Truthful'
    BY <2>2 DEF IInv, Truthful, DescribesOne, PictureOf
  <2> QED
    BY <2>1, <2>3, <2>4, <2>5, <2>6, <2>7 DEF IInv
<1> QED
  BY <1>1, <1>2, <1>3, <1>4 DEF Next

LEMMA Invariance ==
    Spec => []IInv
BY InitInv, StepInv, PTL DEF Spec

\* The state of the stream and of the labeller has its types; no socket holds
\* more than it has room for, and what a client that has left had not read is
\* gone with its socket (handle_watch_events, WatchIter, run()).
THEOREM TypeCorrect == Spec => []TypeOK
<1>1. IInv => TypeOK
  <2> SUFFICES ASSUME IInv PROVE TypeOK
    OBVIOUS
  <2>1. DOMAIN log = 1 .. Len(log)
    BY DEF IInv, WatchInv, WatchTyped
  <2>2. WatchTypeOK
    BY <2>1 DEF IInv, WatchInv, WatchTyped, WatchTypeOK, Positions
  <2>3. ASSUME NEW k \in Items
        PROVE  /\ DOMAIN items[k] \subseteq Mimes
               /\ \A f \in DOMAIN items[k] : items[k][f] \in Contents
    BY DEF IInv, LabelTyped
  <2>4. ASSUME NEW k \in Items, made[k] = 0 PROVE items[k] = NoFormats /\ fate[k] = <<>>
    <3>1. ~ReadOf(k)
      <4> SUFFICES ASSUME NEW i \in 1 .. Len(got[Labeller]), log[got[Labeller][i]].item = k
                   PROVE  FALSE
        BY DEF ReadOf
      <4>1. got[Labeller][i] \in Positions
        BY LabellerAssumption, ElementOfSeq DEF IInv, WatchInv, WatchTyped
      <4> QED
        BY <2>4, <4>1 DEF IInv, AddedOnce
    <3> QED
      BY <2>4, <3>1 DEF IInv, LabelTyped, Seen, HadInHand
  <2> QED
    BY <2>2, <2>3, <2>4 DEF IInv, LabelTyped, TypeOK
<1> QED
  BY <1>1, Invariance, PTL

\* Over all its connections, a client is given later and later events and only
\* such as pass its filters: none twice, none out of order (handle_watch_events,
\* WatchIter::next).
THEOREM ReadInOrder == Spec => [](InOrder /\ Filtered)
<1>1. IInv => InOrder /\ Filtered
  BY DEF IInv, WatchInv
<1> QED
  BY <1>1, Invariance, PTL

\* The model is asked about an item at most once, however often the labeller
\* has to connect again (run()).
THEOREM AskedOnce == Spec => []OneCallPerItem
<1>1. IInv => OneCallPerItem
  BY DEF IInv
<1> QED
  BY <1>1, Invariance, PTL

\* A label that no user has written describes a picture the item has had, also
\* if the item changed while the model was at work (run(), the closure).
THEOREM LabelsAreTrue == Spec => []LabelsTrue
<1>1. IInv => LabelsTrue
  BY DEF IInv, Truthful, DescribesOne, LabelsTrue, Live
<1> QED
  BY <1>1, Invariance, PTL
-----------------------------------------------------------------------------
(***************************************************************************)
(* The stream implements Stream, step by step: what is published joins the *)
(* way of those who watch, a handler only moves it along, Lag and the end  *)
(* of a side lose it, and a client reads the earliest of it.               *)
(***************************************************************************)
Joined == {c \in Clients : side[c] = "here" /\ task[c] = "on"}
Pend == [c \in Clients |-> OnItsWay(c)]

\* Nothing is on its way to a client whose handler has yet to subscribe.
Fresh == \A c \in Clients : task[c] = "asked" => pipe[c] = <<>>

\* The operations of Stream, on what these stand for.
LEMMA StreamVars == <<log, Joined, Pend, got>>' = <<log, Joined, Pend, got>> => UNCHANGED Promise!vars
BY DEF Promise!vars, Joined, Pend

LEMMA StreamPublish ==
    ASSUME NEW e, log' = Append(log, e), Joined' = Joined, got' = got,
           Pend' = [c \in Clients |-> IF c \in Joined /\ Passed(c, e)
                                      THEN Pend[c] \cup {Len(log) + 1} ELSE Pend[c]]
    PROVE  Promise!Publish(e)
BY DEF Promise!Publish, Joined, Pend

LEMMA StreamJoin ==
    ASSUME NEW c, c \notin Joined, Pend[c] = {}, Joined' = Joined \cup {c},
           UNCHANGED <<log, Pend, got>>
    PROVE  Promise!Join(c)
BY DEF Promise!Join, Joined, Pend

LEMMA StreamDeliver ==
    ASSUME NEW c, NEW p \in Pend[c], \A q \in Pend[c] : p <= q,
           got' = [got EXCEPT ![c] = Append(got[c], p)], Pend' = [Pend EXCEPT ![c] = Pend[c] \ {p}],
           UNCHANGED <<log, Joined>>
    PROVE  Promise!Deliver(c)
BY DEF Promise!Deliver, Joined, Pend

LEMMA StreamLose ==
    ASSUME NEW c, NEW old \in SUBSET {p \in Pend[c] : p + Ring <= Len(log)},
           Pend' = [Pend EXCEPT ![c] = Pend[c] \ old], UNCHANGED <<log, Joined, got>>
    PROVE  Promise!Lose(c)
BY DEF Promise!Lose, Joined, Pend

LEMMA StreamLeave ==
    ASSUME NEW c, Joined' = Joined \ {c}, Pend' = [Pend EXCEPT ![c] = {}], UNCHANGED <<log, got>>
    PROVE  Promise!Leave(c)
BY DEF Promise!Leave, Joined, Pend

LEMMA StreamCut ==
    ASSUME Joined' = {}, NEW last \in [Clients -> 0 .. Len(log)],
           Pend' = [c \in Clients |-> {p \in Pend[c] : p <= last[c]}], UNCHANGED <<log, got>>
    PROVE  Promise!Cut
BY DEF Promise!Cut, Joined, Pend

-----------------------------------------------------------------------------
\* A step that is one client's changes nothing on the way to another.
LEMMA OneClient ==
    ASSUME NEW c \in Clients, log' = log,
           \A d \in Clients \ {c} : /\ side'[d] = side[d] /\ task'[d] = task[d] /\ next'[d] = next[d]
                                    /\ hand'[d] = hand[d] /\ pipe'[d] = pipe[d]
    PROVE  /\ Pend' = [Pend EXCEPT ![c] = Pend'[c]]
           /\ c \in Joined => Joined' \cup {c} = Joined
           /\ c \notin Joined => Joined' \ {c} = Joined
<1>1. ASSUME NEW d \in Clients \ {c} PROVE OnItsWay(d)' = OnItsWay(d)
  BY <1>1 DEF OnItsWay, Matching
<1> QED
  BY <1>1 DEF Pend, Joined

LEMMA SameWay ==
    ASSUME NEW c \in Clients, log' = log, got' = got,
           \A d \in Clients \ {c} : /\ side'[d] = side[d] /\ task'[d] = task[d] /\ next'[d] = next[d]
                                    /\ hand'[d] = hand[d] /\ pipe'[d] = pipe[d],
           Pend'[c] = Pend[c], c \in Joined' <=> c \in Joined
    PROVE  UNCHANGED Promise!vars
<1>1. Pend' = Pend
  BY OneClient DEF Pend
<1>2. Joined' = Joined
  <2>1. \A d \in Clients \ {c} : d \in Joined' <=> d \in Joined
    BY DEF Joined
  <2>2. Joined \subseteq Clients /\ Joined' \subseteq Clients
    BY DEF Joined
  <2> QED
    BY <2>1, <2>2
<1> QED
  BY <1>1, <1>2, StreamVars

\* What two sequences hold together; what one below a position holds.
LEMMA ToSetOfBoth ==
    ASSUME NEW S, NEW s \in Seq(S), NEW t \in Seq(S)
    PROVE  ToSet(s \o t) = ToSet(s) \cup ToSet(t)
<1> DEFINE q == s \o t
<1>1. q \in Seq(S) /\ Len(q) = Len(s) + Len(t)
  BY ConcatProperties, Zenon
<1>2. \A i \in 1 .. Len(s) + Len(t) : q[i] = IF i <= Len(s) THEN s[i] ELSE t[i - Len(s)]
  BY ConcatProperties, Zenon
<1> HIDE DEF q
<1>3. DOMAIN q = 1 .. Len(q)
  BY <1>1, LenProperties
<1>4. /\ Len(s) \in Nat /\ Len(t) \in Nat
      /\ DOMAIN s = 1 .. Len(s) /\ DOMAIN t = 1 .. Len(t)
  BY LenProperties
<1> DEFINE m == Len(s)
           n == Len(t)
<1>5. /\ m \in Nat /\ n \in Nat /\ DOMAIN s = 1 .. m /\ DOMAIN t = 1 .. n /\ DOMAIN q = 1 .. m + n
      /\ \A i \in 1 .. m + n : q[i] = IF i <= m THEN s[i] ELSE t[i - m]
  BY <1>1, <1>2, <1>3, <1>4, Zenon
<1> HIDE DEF m, n
<1>6. \A i \in DOMAIN t : m + i \in DOMAIN q /\ q[m + i] = t[i]
  BY <1>5
<1>7. \A i \in DOMAIN s : i \in DOMAIN q /\ q[i] = s[i]
  BY <1>5
<1>8. \A i \in DOMAIN q : \/ i \in DOMAIN s /\ q[i] = s[i]
                          \/ i - m \in DOMAIN t /\ q[i] = t[i - m]
  BY <1>5
<1>9. ToSet(q) = ToSet(s) \cup ToSet(t)
  BY <1>6, <1>7, <1>8 DEF ToSet
<1> QED
  BY <1>9 DEF q

LEMMA BelowIsBelow ==
    ASSUME NEW s \in Seq(Positions), NEW n, Below(s, n), NEW k \in ToSet(s)
    PROVE  k < n /\ k \in Nat
<1>1. DOMAIN s = 1 .. Len(s)
  BY LenProperties
<1>2. PICK i \in 1 .. Len(s) : k = s[i]
  BY <1>1 DEF ToSet
<1>3. s[i] \in Positions
  BY ElementOfSeq
<1> QED
  BY <1>2, <1>3 DEF Below, Positions

\* The members of what is on its way.
LEMMA WayType ==
    ASSUME WatchInv, NEW c \in Clients
    PROVE  /\ Pend[c] = OnItsWay(c) /\ Len(log) \in Nat
           /\ ToSet(pipe[c]) \subseteq Positions /\ ToSet(hand[c]) \subseteq Positions
           /\ Matching(c, next[c]) \subseteq Positions
<1>1. \A s \in Seq(Positions) : ToSet(s) \subseteq Positions
  BY ElementOfSeq DEF ToSet
<1> QED
  BY <1>1, Held DEF Pend, Matching, Positions

LEMMA PublishStreams ==
    ASSUME WatchInv, NEW e \in Event, Publish(e) PROVE Promise!Next
<1>1. /\ log' = Append(log, e) /\ UNCHANGED <<side, task, next, hand, pipe, got>>
      /\ log \in Seq(Event) /\ Len(log) \in Nat
  BY DEF Publish, WatchInv, WatchTyped
<1>2. /\ Len(log') = Len(log) + 1 /\ log'[Len(log) + 1] = e
      /\ \A k \in 1 .. Len(log) : log'[k] = log[k]
  BY <1>1, AppendProperties
<1>3. ASSUME NEW c \in Clients
      PROVE  Pend'[c] = IF c \in Joined /\ Passed(c, e) THEN Pend[c] \cup {Len(log) + 1} ELSE Pend[c]
  <2>1. next[c] \in 1 .. Len(log) + 1
    BY Held
  <2>2. {k \in next[c] .. Len(log) + 1 : Passed(c, log'[k])}
          = Matching(c, next[c]) \cup (IF Passed(c, e) THEN {Len(log) + 1} ELSE {})
    <3>1. \A k : k \in next[c] .. Len(log) + 1 <=> k \in next[c] .. Len(log) \/ k = Len(log) + 1
      BY <1>1, <2>1
    <3>2. \A k \in next[c] .. Len(log) : log'[k] = log[k]
      BY <1>1, <1>2, <2>1
    <3> QED
      BY <1>2, <3>1, <3>2 DEF Matching
  <2>3. Matching(c, next[c])' = {k \in next[c] .. Len(log) + 1 : Passed(c, log'[k])}
    BY <1>1, <1>2 DEF Matching, Passed
  <2> QED
    BY <1>1, <2>2, <2>3 DEF Pend, OnItsWay, Joined
<1>4. Pend' = [c \in Clients |-> IF c \in Joined /\ Passed(c, e)
                                 THEN Pend[c] \cup {Len(log) + 1} ELSE Pend[c]]
  BY <1>3 DEF Pend
<1>5. Joined' = Joined
  BY <1>1 DEF Joined
<1>6. Promise!Publish(e)
  BY <1>1, <1>4, <1>5, StreamPublish
<1> QED
  BY <1>6 DEF Promise!Next

LEMMA SubscribeStreams ==
    ASSUME WatchInv, Fresh, NEW c \in Clients, Subscribe(c)
    PROVE  Promise!Next \/ UNCHANGED Promise!vars
<1>1. /\ log' = log /\ got' = got /\ task[c] = "asked" /\ task'[c] = "on" /\ next'[c] = Len(log) + 1
      /\ pipe' = pipe /\ side' = side /\ hand' = hand /\ hand[c] = <<>> /\ pipe[c] = <<>>
      /\ \A d \in Clients \ {c} : task'[d] = task[d] /\ next'[d] = next[d]
  BY DEF Subscribe, WatchInv, WatchTyped, Fresh
<1>2. ToSet(<<>>) = {} /\ Len(log) \in Nat
  BY WayType DEF ToSet
<1>3. Pend[c] = {} /\ c \notin Joined
  BY <1>1, <1>2 DEF Pend, OnItsWay, Joined
<1>4. Pend'[c] = {}
  <2>1. Matching(c, next[c])' = {}
    BY <1>1, <1>2 DEF Matching
  <2> QED
    BY <1>1, <1>2, <2>1 DEF Pend, OnItsWay
<1>5. CASE side[c] = "here"
  <2>1. Joined' = Joined \cup {c}
    BY <1>1, <1>3, <1>5, OneClient DEF Joined
  <2>2. Pend' = Pend
    BY <1>1, <1>3, <1>4, OneClient DEF Pend
  <2>3. Promise!Join(c)
    BY <1>1, <1>3, <2>1, <2>2, StreamJoin
  <2> QED
    BY <2>3 DEF Promise!Next
<1>6. CASE side[c] # "here"
  BY <1>1, <1>3, <1>4, <1>6, SameWay DEF Joined
<1> QED
  BY <1>5, <1>6

LEMMA LagStreams ==
    ASSUME WatchInv, NEW c \in Clients, Lag(c)
    PROVE  Promise!Next \/ UNCHANGED Promise!vars
<1>1. /\ log' = log /\ got' = got /\ task' = task /\ side' = side /\ pipe' = pipe /\ hand' = hand
      /\ task[c] = "on" /\ hand[c] = <<>> /\ next[c] < Oldest /\ next'[c] = Oldest
      /\ \A d \in Clients \ {c} : next'[d] = next[d]
  BY DEF Lag, WatchInv, WatchTyped
<1>2. /\ Len(log) \in Nat /\ next[c] \in 1 .. Len(log) + 1 /\ Ring \in Nat \ {0}
      /\ Oldest = Len(log) - Ring + 1 /\ Len(log) > Ring
  BY <1>1, Held, SizeAssumption DEF Oldest
<1>3. Joined' = Joined
  BY <1>1 DEF Joined
<1>4. CASE side[c] = "here"
  <2> DEFINE old == {k \in Matching(c, next[c]) : k < Oldest} \ ToSet(pipe[c])
  <2>1. /\ Matching(c, next[c])' = {k \in Oldest .. Len(log) : Passed(c, log[k])}
        /\ Matching(c, next[c]) = {k \in next[c] .. Len(log) : Passed(c, log[k])}
    BY <1>1 DEF Matching, Passed
  <2>2. Matching(c, next[c])' = {k \in Matching(c, next[c]) : ~ (k < Oldest)}
    BY <1>1, <1>2, <2>1
  <2>3. Pend[c] = ToSet(pipe[c]) \cup Matching(c, next[c]) /\ ToSet(hand[c]) = {}
    BY <1>1, <1>4 DEF Pend, OnItsWay, ToSet
  <2>4. Pend'[c] = ToSet(pipe[c]) \cup Matching(c, next[c])'
    BY <1>1, <1>4, <2>3 DEF Pend, OnItsWay
  <2>5. \A k \in ToSet(pipe[c]) : k < next[c] /\ k \in Nat
    <3>1. pipe[c] \in Seq(Positions) /\ Below(pipe[c], next[c])
      BY <1>1, Held DEF WatchInv, InOrder, AllBelow
    <3> QED
      BY <3>1, BelowIsBelow
  <2>6. Pend'[c] = Pend[c] \ old
    BY <2>2, <2>3, <2>4
  <2>7. old \in SUBSET {p \in Pend[c] : p + Ring <= Len(log)}
    BY <1>2, <2>1, <2>3
  <2>8. Pend' = [Pend EXCEPT ![c] = Pend[c] \ old]
    <3> HIDE DEF old
    <3> QED
      BY <1>1, <2>6, OneClient
  <2>9. Promise!Lose(c)
    <3> HIDE DEF old
    <3> QED
      BY <1>1, <1>3, <2>7, <2>8, StreamLose
  <2> QED
    BY <2>9 DEF Promise!Next
<1>5. CASE side[c] # "here"
  <2>1. Pend'[c] = Pend[c]
    BY <1>1, <1>5 DEF Pend, OnItsWay
  <2> QED
    BY <1>1, <1>3, <2>1, SameWay
<1> QED
  BY <1>4, <1>5

\* The handler moves on an event, or passes over one that is not for its client.
LEMMA RecvStreams == ASSUME WatchInv, NEW c \in Clients, Recv(c) PROVE UNCHANGED Promise!vars
<1>1. /\ log' = log /\ got' = got /\ task' = task /\ side' = side /\ pipe' = pipe
      /\ hand[c] = <<>> /\ next[c] <= Len(log) /\ next'[c] = next[c] + 1
      /\ hand'[c] = IF Passed(c, log[next[c]]) THEN <<next[c]>> ELSE <<>>
      /\ \A d \in Clients \ {c} : next'[d] = next[d] /\ hand'[d] = hand[d]
  BY DEF Recv, WatchInv, WatchTyped, Passed
<1>2. Len(log) \in Nat /\ next[c] \in 1 .. Len(log) + 1
  BY Held
<1>3. ToSet(<<>>) = {} /\ ToSet(<<next[c]>>) = {next[c]}
  BY DEF ToSet
<1>4. Matching(c, next[c]) = ToSet(hand'[c]) \cup {k \in next[c] + 1 .. Len(log) : Passed(c, log[k])}
  <2>1. \A k : k \in next[c] .. Len(log) <=> k = next[c] \/ k \in next[c] + 1 .. Len(log)
    BY <1>1, <1>2
  <2> QED
    BY <1>1, <1>3, <2>1 DEF Matching
<1>5. Matching(c, next[c])' = {k \in next[c] + 1 .. Len(log) : Passed(c, log[k])}
  BY <1>1 DEF Matching, Passed
<1>6. Pend'[c] = Pend[c]
  BY <1>1, <1>3, <1>4, <1>5 DEF Pend, OnItsWay
<1>7. c \in Joined' <=> c \in Joined
  BY <1>1 DEF Joined
<1> QED
  BY <1>1, <1>6, <1>7, SameWay

LEMMA WriteStreams == ASSUME WatchInv, NEW c \in Clients, Write(c) PROVE UNCHANGED Promise!vars
<1>1. /\ log' = log /\ got' = got /\ task' = task /\ side' = side /\ next' = next
      /\ side[c] = "here" /\ task[c] = "on" /\ hand[c] # <<>>
      /\ pipe'[c] = pipe[c] \o hand[c] /\ hand'[c] = <<>>
      /\ \A d \in Clients \ {c} : pipe'[d] = pipe[d] /\ hand'[d] = hand[d]
  BY DEF Write, WatchInv, WatchTyped
<1>2. ToSet(pipe[c] \o hand[c]) = ToSet(pipe[c]) \cup ToSet(hand[c]) /\ ToSet(<<>>) = {}
  <2>1. pipe[c] \in Seq(Positions) /\ hand[c] \in Seq(Positions)
    BY Held
  <2>2. ToSet(<<>>) = {}
    BY DEF ToSet
  <2> QED
    BY <2>1, <2>2, ToSetOfBoth
<1>3. Matching(c, next[c])' = Matching(c, next[c])
  BY <1>1 DEF Matching, Passed
<1>4. Pend'[c] = Pend[c]
  BY <1>1, <1>2, <1>3 DEF Pend, OnItsWay
<1>5. c \in Joined' <=> c \in Joined
  BY <1>1 DEF Joined
<1> QED
  BY <1>1, <1>4, <1>5, SameWay

\* To a client that is not there, or not yet, nothing is sent by these.
LEMMA IdleStreams ==
    ASSUME WatchInv, NEW c \in Clients, WriteFails(c) \/ Connect(c) \/ Eof(c)
    PROVE  UNCHANGED Promise!vars
<1>1. /\ log' = log /\ got' = got /\ pipe' = pipe
      /\ ~ (side[c] = "here" /\ task[c] = "on") /\ ~ (side'[c] = "here" /\ task'[c] = "on")
      /\ \A d \in Clients \ {c} : /\ side'[d] = side[d] /\ task'[d] = task[d] /\ next'[d] = next[d]
                                  /\ hand'[d] = hand[d]
  BY DEF WriteFails, Connect, Eof, WatchInv, WatchTyped
<1>2. Pend'[c] = Pend[c] /\ c \notin Joined /\ c \notin Joined'
  BY <1>1 DEF Pend, OnItsWay, Joined
<1> QED
  BY <1>1, <1>2, SameWay

LEMMA LeaveStreams == ASSUME WatchInv, NEW c \in Clients, Leave(c) PROVE Promise!Next
<1>1. /\ log' = log /\ got' = got /\ side'[c] = "left" /\ pipe'[c] = <<>>
      /\ \A d \in Clients \ {c} : /\ side'[d] = side[d] /\ task'[d] = task[d] /\ next'[d] = next[d]
                                  /\ hand'[d] = hand[d] /\ pipe'[d] = pipe[d]
  BY DEF Leave, WatchInv, WatchTyped
<1>2. Pend'[c] = {} /\ c \notin Joined'
  BY <1>1 DEF Pend, OnItsWay, Joined, ToSet
<1>3. Joined' = Joined \ {c} /\ Pend' = [Pend EXCEPT ![c] = {}]
  BY <1>1, <1>2, OneClient
<1>4. Promise!Leave(c)
  BY <1>1, <1>3, StreamLeave
<1> QED
  BY <1>4 DEF Promise!Next

\* What a client reads is before all else that is on its way, and leaves it.
LEMMA ReadStreams == ASSUME WatchInv, NEW c \in Clients, Read(c) PROVE Promise!Next
<1> DEFINE s == pipe[c]
           p == Head(s)
           rest == IF side[c] = "here" /\ task[c] = "on" THEN ToSet(hand[c]) \cup Matching(c, next[c]) ELSE {}
<1>1. /\ log' = log /\ side' = side /\ task' = task /\ next' = next /\ hand' = hand
      /\ s # <<>> /\ s \in Seq(Positions) /\ pipe'[c] = Tail(s)
      /\ got' = [got EXCEPT ![c] = Append(got[c], p)]
      /\ \A d \in Clients \ {c} : pipe'[d] = pipe[d]
  BY DEF Read, WatchInv, WatchTyped
<1>2. /\ Len(s) \in Nat \ {0} /\ p = s[1] /\ DOMAIN s = 1 .. Len(s)
      /\ DOMAIN Tail(s) = 1 .. Len(s) - 1 /\ \A i \in 1 .. Len(s) - 1 : Tail(s)[i] = s[i + 1]
  <2>1. Len(s) \in Nat /\ Len(s) # 0
    BY <1>1, EmptySeq, LenProperties
  <2> QED
    BY <1>1, <2>1, HeadTailProperties, LenProperties
<1>3. \A i, j \in 1 .. Len(s) : i < j => s[i] < s[j]
  BY DEF WatchInv, InOrder, Successive, Rises
<1>4. \A i \in 1 .. Len(s) : s[i] \in Positions
  BY <1>1, ElementOfSeq
<1>5. ToSet(s) = {p} \cup ToSet(Tail(s)) /\ \A q \in ToSet(Tail(s)) : p < q /\ q \in Nat
  <2>1. \A i \in 1 .. Len(s) : i = 1 \/ (i - 1 \in 1 .. Len(s) - 1 /\ Tail(s)[i - 1] = s[i])
    BY <1>2
  <2>2. \A i \in 1 .. Len(s) - 1 : i + 1 \in 1 .. Len(s) /\ Tail(s)[i] = s[i + 1] /\ 1 \in 1 .. Len(s) /\ 1 < i + 1
    BY <1>2
  <2>3. \A i \in 1 .. Len(s) - 1 : p < Tail(s)[i] /\ Tail(s)[i] \in Nat
    BY <1>2, <1>3, <1>4, <2>2 DEF Positions
  <2> HIDE DEF s, p
  <2>4. \A i \in 1 .. Len(s) : s[i] \in {p} \cup ToSet(Tail(s))
    BY <1>2, <2>1 DEF ToSet
  <2>5. ToSet(Tail(s)) \subseteq ToSet(s)
    BY <1>2, <2>2 DEF ToSet
  <2>6. p \in ToSet(s)
    BY <1>2 DEF ToSet
  <2>7. ToSet(s) \subseteq {p} \cup ToSet(Tail(s))
    BY <1>2, <2>4 DEF ToSet
  <2>8. \A q \in ToSet(Tail(s)) : p < q /\ q \in Nat
    BY <1>2, <2>3 DEF ToSet
  <2> QED
    BY <2>5, <2>6, <2>7, <2>8
<1>6. p \in Positions /\ p \in Nat
  BY <1>2, <1>4 DEF Positions
<1>7. \A q \in rest : p < q /\ q \in Nat
  <2>1. ASSUME NEW q \in ToSet(hand[c]) PROVE p < q
    <3>1. PICK i \in DOMAIN hand[c] : q = hand[c][i]
      BY DEF ToSet
    <3>2. DOMAIN hand[c] = 1 .. Len(hand[c])
      BY Held, LenProperties
    <3> QED
      BY <1>2, <3>1, <3>2 DEF WatchInv, InOrder, Successive, Before
  <2>2. ASSUME task[c] = "on", NEW q \in Matching(c, next[c]) PROVE p < q
    <3>1. p < next[c] /\ next[c] <= q /\ next[c] \in Nat /\ q \in Nat
      BY <1>2, <2>2, Held, WayType DEF WatchInv, InOrder, AllBelow, Below, Matching, Positions
    <3> QED
      BY <1>6, <3>1
  <2>3. \A q \in rest : q \in Nat
    BY WayType DEF Positions
  <2> QED
    BY <2>1, <2>2, <2>3
<1>8. Pend[c] = {p} \cup ToSet(Tail(s)) \cup rest
  BY <1>5 DEF Pend, OnItsWay
<1>9. Pend'[c] = ToSet(Tail(s)) \cup rest
  BY <1>1 DEF Pend, OnItsWay, Matching, Passed
<1> HIDE DEF p, s, rest
<1>10. Pend'[c] = Pend[c] \ {p} /\ p \in Pend[c] /\ \A q \in Pend[c] : p <= q
  BY <1>5, <1>6, <1>7, <1>8, <1>9
<1>11. Joined' = Joined
  BY <1>1 DEF Joined
<1>12. Pend' = [Pend EXCEPT ![c] = Pend[c] \ {p}]
  BY <1>1, <1>10, OneClient
<1>13. Promise!Deliver(c)
  BY <1>1, <1>10, <1>11, <1>12, StreamDeliver
<1> QED
  BY <1>13 DEF Promise!Next

\* What is in a socket when the daemon stops is a first part of what was on its way.
LEMMA StopStreams == ASSUME WatchInv, Stop PROVE Promise!Next
<1> DEFINE last == [c \in Clients |-> IF pipe[c] = <<>> THEN 0 ELSE pipe[c][Len(pipe[c])]]
<1>1. /\ log' = log /\ got' = got /\ pipe' = pipe /\ \A c \in Clients : task'[c] = "none"
  BY DEF Stop
<1>2. ASSUME NEW c \in Clients
      PROVE  /\ last[c] \in 0 .. Len(log)
             /\ ToSet(pipe[c]) = {p \in OnItsWay(c) : p <= last[c]}
  <2> DEFINE s == pipe[c]
  <2>1. /\ s \in Seq(Positions) /\ Len(s) \in Nat /\ DOMAIN s = 1 .. Len(s) /\ Len(log) \in Nat
        /\ \A i \in 1 .. Len(s) : s[i] \in Positions
    BY Held, ElementOfSeq, LenProperties
  <2>2. CASE s = <<>>
    <3>1. ToSet(s) = {} /\ last[c] = 0
      BY <2>2 DEF ToSet
    <3>2. \A p \in OnItsWay(c) : ~ (p <= 0)
      BY WayType DEF OnItsWay, Positions
    <3> QED
      BY <2>1, <3>1, <3>2
  <2>3. CASE s # <<>>
    <3>1. Len(s) \in 1 .. Len(s) /\ last[c] = s[Len(s)] /\ s[Len(s)] \in Positions
      <4>1. Len(s) # 0
        BY <2>1, <2>3, EmptySeq
      <4>2. Len(s) \in 1 .. Len(s)
        BY <2>1, <4>1
      <4> QED
        BY <2>1, <2>3, <4>2
    <3>2. \A i \in 1 .. Len(s) : s[i] <= s[Len(s)]
      BY <2>1, <3>1 DEF WatchInv, InOrder, Successive, Rises, Positions
    <3>3. ASSUME NEW q \in ToSet(hand[c]) PROVE s[Len(s)] < q
      <4>1. PICK j \in DOMAIN hand[c] : q = hand[c][j]
        BY DEF ToSet
      <4>2. DOMAIN hand[c] = 1 .. Len(hand[c])
        BY Held, LenProperties
      <4> QED
        BY <3>1, <4>1, <4>2 DEF WatchInv, InOrder, Successive, Before
    <3>4. ASSUME task[c] = "on", NEW q \in Matching(c, next[c]) PROVE s[Len(s)] < q
      <4>1. s[Len(s)] < next[c]
        BY <3>1, <3>4 DEF WatchInv, InOrder, AllBelow, Below
      <4>2. next[c] \in 1 .. Len(log) + 1 /\ q \in next[c] .. Len(log)
        BY <3>4, Held DEF Matching
      <4> QED
        BY <2>1, <3>1, <4>1, <4>2 DEF Positions
    <3>5. \A q \in ToSet(s) : q <= s[Len(s)]
      BY <2>1, <3>2 DEF ToSet
    <3>6. \A q \in OnItsWay(c) : q \in Nat /\ (q \in ToSet(s) \/ s[Len(s)] < q)
      BY <3>3, <3>4, WayType DEF OnItsWay, Positions
    <3>7. ToSet(s) \subseteq OnItsWay(c)
      BY DEF OnItsWay
    <3>8. s[Len(s)] \in Nat /\ s[Len(s)] \in 0 .. Len(log)
      BY <2>1, <3>1 DEF Positions
    <3> QED
      BY <3>1, <3>5, <3>6, <3>7, <3>8
  <2> QED
    BY <2>2, <2>3
<1>3. last \in [Clients -> 0 .. Len(log)]
  BY <1>2
<1>4. \A c \in Clients : Pend'[c] = ToSet(pipe[c])
  BY <1>1 DEF Pend, OnItsWay
<1> HIDE DEF last
<1>5. Pend' = [c \in Clients |-> {p \in Pend[c] : p <= last[c]}]
  BY <1>2, <1>4 DEF Pend
<1>6. Joined' = {}
  BY <1>1 DEF Joined
<1>7. Promise!Cut
  BY <1>1, <1>3, <1>5, <1>6, StreamCut
<1> QED
  BY <1>7 DEF Promise!Next

-----------------------------------------------------------------------------
\* What a step does to the stream.
Streams ==
    \/ \E e \in Event : Publish(e)
    \/ \E c \in Clients : Handle(c) \/ Connect(c) \/ Read(c) \/ Eof(c) \/ Leave(c)
    \/ Stop \/ Start
    \/ UNCHANGED watchVars

LEMMA StepStreams == ASSUME IInv, [Next]_vars PROVE Streams
<1>1. ASSUME NEW k \in Items, NEW mimes \in SUBSET Mimes, NEW tag \in Tags,
             Publish([tag |-> tag, item |-> k, mimes |-> mimes])
      PROVE  Streams
  BY <1>1, EventsAre DEF Streams
<1>2. ASSUME NEW k \in Items, NEW mimes \in SUBSET Mimes, NEW tag \in Tags,
             Announced([tag |-> tag, item |-> k, mimes |-> mimes])
      PROVE  Streams
  BY <1>1, <1>2 DEF Announced, Streams
<1>3. {Label} \in SUBSET Mimes /\ {} \in SUBSET Mimes /\ \A mime \in Mimes : {mime} \in SUBSET Mimes
  BY MimesAssumption
<1>4. "item-added" \in Tags /\ "item-updated" \in Tags /\ "item-deleted" \in Tags
  BY DEF Tags
<1>5. CASE Users
  <2>1. PICK k \in Items : \/ \E formats \in SUBSET Mimes : UserAdds(k, formats)
                           \/ \E mime \in Mimes : UserReplaces(k, mime)
                           \/ UserLabels(k) \/ UserDeletes(k)
    BY <1>5 DEF Users
  <2>2. ASSUME NEW formats \in SUBSET Mimes, UserAdds(k, formats) PROVE Streams
    BY <1>2, <1>4, <2>2 DEF UserAdds
  <2>3. ASSUME NEW mime \in Mimes, UserReplaces(k, mime) PROVE Streams
    BY <1>2, <1>3, <1>4, <2>3 DEF UserReplaces
  <2>4. CASE UserLabels(k)
    BY <1>2, <1>3, <1>4, <2>4 DEF UserLabels
  <2>5. CASE UserDeletes(k)
    BY <1>2, <1>3, <1>4, <2>5 DEF UserDeletes, Streams
  <2> QED
    BY <2>1, <2>2, <2>3, <2>4, <2>5
<1>6. CASE LabellerStep
  <2>1. CASE LabellerConnects \/ LabellerEof \/ LabellerReads
    BY <2>1, LabellerAssumption DEF LabellerConnects, LabellerEof, LabellerReads, Streams
  <2>2. CASE LabellerDecodes \/ DecodeFails \/ ModelAnswers \/ NoAnswer \/ UpdateFails
    BY <2>2 DEF LabellerDecodes, DecodeFails, ModelAnswers, NoAnswer, UpdateFails, Streams
  <2>3. CASE LabellerUpdates
    <3>1. work.item \in Items
      BY DEF IInv, LabelTyped
    <3> QED
      BY <1>1, <1>3, <1>4, <2>3, <3>1 DEF LabellerUpdates, Streams
  <2> QED
    BY <1>6, <2>1, <2>2, <2>3 DEF LabellerStep
<1>7. CASE WatchStep
  BY <1>7 DEF WatchStep, Watcher, Streams
<1>8. CASE UNCHANGED vars
  BY <1>8 DEF vars, Streams
<1> QED
  BY <1>5, <1>6, <1>7, <1>8 DEF Next

LEMMA FreshInv == ASSUME WatchInv, Fresh, Streams PROVE Fresh'
BY DEF WatchInv, WatchTyped, Fresh, Streams, Publish, Handle, Subscribe, Lag, Recv, Write, WriteFails,
       Connect, Read, Eof, Leave, Stop, Start, watchVars

LEMMA StreamNext ==
    ASSUME WatchInv, Fresh, Streams PROVE Promise!Next \/ UNCHANGED Promise!vars
<1>1. CASE Start \/ UNCHANGED watchVars
  <2>1. UNCHANGED <<log, side, task, next, hand, pipe, got>>
    BY <1>1 DEF Start, watchVars
  <2>2. Joined' = Joined /\ Pend' = Pend
    BY <2>1 DEF Joined, Pend, OnItsWay, Matching, Passed
  <2> QED
    BY <2>1, <2>2, StreamVars
<1> QED
  BY <1>1, PublishStreams, SubscribeStreams, LagStreams, RecvStreams, WriteStreams, IdleStreams,
     ReadStreams, LeaveStreams, StopStreams DEF Streams, Handle

LEMMA StreamInit == Init => Promise!Init /\ Fresh
<1> SUFFICES ASSUME Init PROVE Promise!Init /\ Fresh
  OBVIOUS
<1>1. log = <<>> /\ Joined = {} /\ got = [c \in Clients |-> <<>>] /\ Fresh
  BY DEF Init, WatchInit, Joined, Fresh
<1>2. Pend = [c \in Clients |-> {}]
  BY DEF Init, WatchInit, Pend, OnItsWay, ToSet
<1> QED
  BY <1>1, <1>2 DEF Promise!Init, Joined, Pend

\* Every step of the daemon, its watchers and the labeller is one of Stream to
\* the watchers, or none: nothing reaches a client twice, out of order or past
\* its filters, and nothing is lost but by lag, a leaving or the daemon's end
\* (the safety part of ImplementsStream; that what is on its way arrives in
\* the end is left to TLC).
THEOREM StreamImplemented == Spec => Promise!Init /\ [][Promise!Next]_(Promise!vars)
<1>1. IInv /\ Fresh /\ [Next]_vars => Fresh' /\ [Promise!Next]_(Promise!vars)
  BY StepStreams, FreshInv, StreamNext DEF IInv
<1> QED
  BY <1>1, StreamInit, Invariance, PTL DEF Spec
=============================================================================
