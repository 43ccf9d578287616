----------------------------- MODULE Clipboard -----------------------------
(***************************************************************************)
(* How what is copied gets into the history, and back: the capture thread  *)
(* (capture.rs), the consumer with its suppression marker (richclipd.rs),  *)
(* RestoreItem (daemon.rs) and the threads that then own the selection     *)
(* (restore.rs), around a compositor modelled as they use it.              *)
(*                                                                         *)
(* A copy is a list of <<mime, content>>; a content stands for its bytes   *)
(* and for their hash.  What the user copies, the daemon restores, and     *)
(* what the compositor then shows to everybody, the daemon included, are   *)
(* all offers, numbered in the order in which they become the selection.   *)
(***************************************************************************)
EXTENDS Naturals, Sequences, FiniteSets, Ordered

CONSTANTS
    Mimes,
    Base,           \* mime_base_type, in lower case
    Allowed,        \* allowed_mimes of CaptureConfig
    Hints,          \* mimes that mark a selection as sensitive (is_sensitive)
    Textual,        \* mimes whose bytes are searched for secrets
    Internal,       \* application/x-richclip-*
    Contents,
    Empty,          \* no bytes at all
    Secrets,        \* bytes with a token-like run (contains_sensitive_text)
    Size,           \* their lengths
    MaxFormat,      \* max_format_bytes
    MaxItem,        \* max_item_bytes
    Copies,         \* what applications copy
    Kept,           \* items of the history from before, each a set of formats
    Restores,       \* the restore requests, each with its thread
    None,
    MaxOffers,      \* bound on the changes of a selection
    MaxFaults       \* bound on what fails

Format == Mimes \X Contents

\* What the capture thread knows while it reads an offer.
Drain == [offer : 1 .. MaxOffers, todo : Seq(Mimes), got : Seq(Format), total : Nat]

ASSUME MimeAssumption ==
    /\ Base \in [Mimes -> Mimes]
    /\ Allowed \subseteq Mimes /\ Hints \subseteq Mimes
    /\ Textual \subseteq Mimes /\ Internal \subseteq Mimes
ASSUME ContentAssumption ==
    /\ Empty \in Contents /\ Secrets \subseteq Contents \ {Empty}
    /\ Size \in [Contents -> Nat] /\ Size[Empty] = 0
    /\ MaxFormat \in Nat /\ MaxItem \in Nat
ASSUME CopyAssumption == Copies \subseteq Seq(Format) /\ Kept \subseteq SUBSET Format
ASSUME FiniteAssumption == IsFiniteSet(Mimes) /\ IsFiniteSet(Contents)
ASSUME OwnerAssumption == Restores \cap {"application", "primary", "nobody"} = {}
ASSUME NoneAssumption == None \notin Contents \cup Drain
ASSUME BoundAssumption == MaxOffers \in Nat /\ MaxFaults \in Nat

VARIABLES
    offered,    \* every offer so far: who made it (nobody: cleared), and what it offers
    current,    \* the one that is the selection, or 0
    wire,       \* the events on their way to the capture thread
    offers,     \* State.offers: announced, and not yet done with
    drain,      \* the Selection event the capture thread is at, or None
    channel,    \* captured items on their way to the consumer
    marker,     \* the suppression marker
    captured,   \* the items added by the consumer, in order
    ignored,    \* history: offers the consumer took for an echo
    pc, held,   \* where each restore is, and the formats it has loaded
    cancelled,  \* restores with a Cancelled event on its way
    marks,      \* history: the restores that have set the marker, in order
    broken,     \* history: offers read when superseded, or of which a read failed
    faults

selection == <<offered, current, wire, cancelled>>
capture   == <<offers, drain, broken>>
consumer  == <<captured, ignored>>
restore   == <<pc, held, marker, marks>>
vars == <<selection, capture, channel, consumer, restore, faults>>

-----------------------------------------------------------------------------
(***************************************************************************)
(* filter.rs, as capture.rs uses it.                                       *)
(***************************************************************************)
MimesOf(l) == {l[k][1] : k \in DOMAIN l}
FormatsOf(l) == {l[k] : k \in DOMAIN l}

Sensitive(l) == MimesOf(l) \cap Hints # {}

\* The positions of the formats with an allowed base type, each type once.
Wanted(l) == {k \in DOMAIN l : /\ Base[l[k][1]] \in Allowed
                               /\ \A j \in 1 .. k - 1 : Base[l[j][1]] # Base[l[k][1]]}
\* Their mimes, in the order in which they are offered.
Accepted(l) ==
    LET at == Ascending(Wanted(l)) IN [n \in DOMAIN at |-> l[at[n]][1]]

Within(total, c) == Size[c] <= MaxFormat /\ total + Size[c] <= MaxItem
Secret(m, c) == m \in Textual /\ c \in Secrets

-----------------------------------------------------------------------------
Owners == {"application", "primary", "nobody"} \cup Restores
Events == {"selection", "primary_selection"}

\* Offers are numbers of announced offers; nothing captured, and no marker, is
\* empty; only an owner is cancelled.
TypeOK ==
    /\ offered \in Seq([owner : Owners, formats : Seq(Format)])
    /\ Len(offered) <= MaxOffers /\ current \in 0 .. Len(offered)
    /\ wire \in Seq([event : Events, offer : DOMAIN offered])
    /\ offers \subseteq DOMAIN offered
    /\ drain \in Drain \cup {None} /\ (drain # None => drain.offer \in DOMAIN offered)
    /\ channel \in Seq([offer : DOMAIN offered, formats : Seq(Format)])
    /\ \A k \in DOMAIN channel : channel[k].formats # <<>>
    /\ marker \in ((SUBSET Format) \ {{}}) \cup {None}
    /\ captured \in Seq([offer : DOMAIN offered, formats : (SUBSET Format) \ {{}}, marks : Nat])
    /\ pc \in [Restores -> {"idle", "loaded", "spawned", "owner", "done"}]
    /\ held \in [Restores -> Seq(Format)]
    /\ \A r \in Restores : pc[r] \in {"loaded", "spawned"} => held[r] # <<>>
    /\ cancelled \subseteq {r \in Restores : pc[r] = "owner"}
    /\ marks \in Seq(Restores)
    /\ ignored \subseteq DOMAIN offered /\ broken \subseteq DOMAIN offered
    /\ faults \in 0 .. MaxFaults

Init ==
    /\ offered = <<>> /\ current = 0 /\ wire = <<>>
    /\ offers = {} /\ drain = None /\ channel = <<>>
    /\ marker = None /\ captured = <<>> /\ ignored = {}
    /\ pc = [r \in Restores |-> "idle"] /\ held = [r \in Restores |-> <<>>]
    /\ cancelled = {} /\ marks = <<>> /\ broken = {} /\ faults = 0

-----------------------------------------------------------------------------
(***************************************************************************)
(* The compositor and the applications.                                    *)
(***************************************************************************)
Owner(n) == {offered[k].owner : k \in {n} \ {0}}

\* A new offer is announced to every data-control device: DataOffer, its Offer
\* events, and what it is for.
Announce(owner, l, event) ==
    /\ Len(offered) < MaxOffers
    /\ offered' = Append(offered, [owner |-> owner, formats |-> l])
    /\ wire' = Append(wire, [event |-> event, offer |-> Len(offered) + 1])

\* `set_selection': the owner so far is cancelled.
BecomeSelection(owner, l) ==
    /\ Announce(owner, l, "selection")
    /\ current' = Len(offered) + 1
    /\ cancelled' = cancelled \cup (Owner(current) \cap Restores)

Copy ==
    /\ \E l \in Copies : BecomeSelection("application", l)
    /\ UNCHANGED <<capture, channel, consumer, restore, faults>>

\* A selection made with the mouse is announced, too; nobody reads it.
SelectPrimary ==
    /\ Announce("primary", <<>>, "primary_selection")
    /\ UNCHANGED <<current, cancelled, capture, channel, consumer, restore, faults>>

\* The application that owns the selection exits, or somebody clears it: a
\* Selection event without an offer.
Clear ==
    /\ current # 0 /\ Owner(current) # {"nobody"}
    /\ BecomeSelection("nobody", <<>>)
    /\ UNCHANGED <<capture, channel, consumer, restore, faults>>

-----------------------------------------------------------------------------
(***************************************************************************)
(* The capture thread: one event after the other.                          *)
(***************************************************************************)
Dispatch(event) ==
    /\ drain = None /\ wire # <<>> /\ Head(wire).event = event
    /\ wire' = Tail(wire)

\* The offer is entered in the map, and the event itself ignored.
PrimarySelection ==
    /\ Dispatch("primary_selection")
    /\ offers' = offers \cup {Head(wire).offer}
    /\ UNCHANGED <<offered, current, cancelled, drain, broken, channel, consumer, restore, faults>>

\* Mutant: only the accepted mimes are looked at for hints.
SkippedFiltered(l) == Accepted(l) = <<>>

\* No offer at all, or a sensitive one, or none that is accepted.
Skipped(l) == l = <<>> \/ Sensitive(l) \/ Accepted(l) = <<>>

\* The offer is entered in the map, and taken out again if it is skipped; the
\* accepted formats of another are read next.
Selection ==
    /\ Dispatch("selection")
    /\ LET n == Head(wire).offer
           l == offered[n].formats IN
        IF Skipped(l)
        THEN UNCHANGED <<offers, drain>>
        ELSE /\ drain' = [offer |-> n, todo |-> Accepted(l), got |-> <<>>, total |-> 0]
             /\ offers' = offers \cup {n}
    /\ UNCHANGED <<offered, current, cancelled, broken, channel, consumer, restore, faults>>

\* What an offer has for m; a source that does not offer m sends nothing.
Content(l, m) == IF m \in MimesOf(l) THEN (CHOOSE f \in FormatsOf(l) : f[1] = m)[2] ELSE Empty

\* Mutant: the normalised type is asked for, not the one that was offered.
ReceivedBase(n, m) ==
    IF n # current THEN {Empty, None}
    ELSE {Content(offered[n].formats, Base[m])}

\* What reading m can give: as long as the offer is the selection, what it has
\* for m; later the compositor closes the descriptor, which reads as no bytes.
\* None is a read that fails.
Received(n, m) ==
    IF n # current THEN {Empty, None}
    ELSE {Content(offered[n].formats, m)} \cup (IF faults < MaxFaults THEN {None} ELSE {})

\* Mutants: a discarded offer stays in the map; a format that is too large ends
\* it all.
DiscardLeaving(n) == drain' = None /\ UNCHANGED offers

\* A secret discards the item, a format that is too large ends the loop.
Discard(n) == drain' = None /\ offers' = offers \ {n}
TooLarge(n) == drain' = [drain EXCEPT !.todo = <<>>] /\ UNCHANGED offers
Retain(m, c) ==
    /\ drain' = [drain EXCEPT !.todo = Tail(@), !.got = Append(@, <<m, c>>), !.total = @ + Size[c]]
    /\ UNCHANGED offers

\* drain_format and retain_format for the next accepted format.
ReadFormat ==
    /\ drain # None /\ drain.todo # <<>>
    /\ LET n == drain.offer
           m == Head(drain.todo) IN
        \E c \in Received(n, m) :
            /\ \/ c = None /\ drain' = [drain EXCEPT !.todo = Tail(@)] /\ UNCHANGED offers
               \/ c # None /\ ~Within(drain.total, c) /\ TooLarge(n)
               \/ c # None /\ Within(drain.total, c) /\ Secret(Base[m], c) /\ Discard(n)
               \/ c # None /\ Within(drain.total, c) /\ ~Secret(Base[m], c) /\ Retain(Base[m], c)
            /\ broken' = IF n = current /\ c # None THEN broken ELSE broken \cup {n}
            /\ faults' = IF c = None /\ n = current THEN faults + 1 ELSE faults
    /\ UNCHANGED <<selection, channel, consumer, restore>>

\* Mutant: also nothing at all is pushed.
PushAny ==
    /\ drain # None /\ drain.todo = <<>>
    /\ Discard(drain.offer)
    /\ channel' = Append(channel, [offer |-> drain.offer, formats |-> drain.got])
    /\ UNCHANGED <<selection, broken, consumer, restore, faults>>

\* The end of the Selection handler: what was read goes to the consumer.
Push ==
    /\ drain # None /\ drain.todo = <<>>
    /\ Discard(drain.offer)
    /\ channel' = IF drain.got = <<>> THEN channel
                  ELSE Append(channel, [offer |-> drain.offer, formats |-> drain.got])
    /\ UNCHANGED <<selection, broken, consumer, restore, faults>>

-----------------------------------------------------------------------------
(***************************************************************************)
(* The consumer: an item that equals the marker is an echo.                *)
(***************************************************************************)
Consume ==
    /\ channel # <<>>
    /\ channel' = Tail(channel)
    /\ LET n == Head(channel).offer
           fp == FormatsOf(Head(channel).formats) IN
        IF marker = fp
        THEN ignored' = ignored \cup {n} /\ UNCHANGED captured
        ELSE /\ captured' = Append(captured, [offer |-> n, formats |-> fp, marks |-> Len(marks)])
             /\ UNCHANGED ignored
    /\ UNCHANGED <<selection, capture, restore, faults>>

-----------------------------------------------------------------------------
(***************************************************************************)
(* RestoreItem, and the thread it starts.                                  *)
(***************************************************************************)
Items == Kept \cup {captured[k].formats : k \in DOMAIN captured}
\* The rows of an item come in some order.
Orders(S) == {l \in [1 .. Cardinality(S) -> S] : FormatsOf(l) = S}

\* Under the mutex: get_item, then decode of every format that is advertised.
\* A format that cannot be decoded is left out.
Load(r) ==
    /\ pc[r] = "idle"
    /\ \E item \in Items :
        LET all == {f \in item : f[1] \notin Internal} IN
        \E S \in SUBSET all :
            /\ Cardinality(all \ S) + faults <= MaxFaults
            /\ faults' = faults + Cardinality(all \ S)
            /\ \E l \in Orders(S) : held' = [held EXCEPT ![r] = l]
            /\ pc' = [pc EXCEPT ![r] = IF S = {} THEN "done" ELSE "loaded"]
    /\ UNCHANGED <<selection, capture, channel, consumer, marker, marks>>

\* Mutant: the marker is set if there is none.
MarkOnce(r) ==
    /\ pc[r] = "loaded"
    /\ marker' = IF marker = None THEN FormatsOf(held[r]) ELSE marker
    /\ marks' = Append(marks, r)
    /\ pc' = [pc EXCEPT ![r] = "spawned"]
    /\ UNCHANGED <<selection, capture, channel, consumer, held, faults>>

\* Without the mutex: the marker is replaced, the thread is started, and the
\* client is answered; no other task depends on the order of the latter two.
Mark(r) ==
    /\ pc[r] = "loaded"
    /\ marker' = FormatsOf(held[r])
    /\ marks' = Append(marks, r)
    /\ pc' = [pc EXCEPT ![r] = "spawned"]
    /\ UNCHANGED <<selection, capture, channel, consumer, held, faults>>

\* run_restore reaches set_selection, or fails before it.
SetSelection(r) ==
    /\ pc[r] = "spawned"
    /\ BecomeSelection(r, held[r])
    /\ pc' = [pc EXCEPT ![r] = "owner"]
    /\ UNCHANGED <<capture, channel, consumer, held, marker, marks, faults>>
End(r) == pc' = [pc EXCEPT ![r] = "done"] /\ held' = [held EXCEPT ![r] = <<>>]
RestoreFails(r) ==
    /\ pc[r] = "spawned" /\ faults < MaxFaults
    /\ faults' = faults + 1
    /\ End(r)
    /\ UNCHANGED <<selection, capture, channel, consumer, marker, marks>>

\* Mutant: the source is destroyed, and the loop goes on.
CancelledOnly(r) ==
    /\ r \in cancelled
    /\ cancelled' = cancelled \ {r}
    /\ UNCHANGED <<offered, current, wire, capture, channel, consumer, restore, faults>>

\* Cancelled: the source is destroyed and the thread ends.
Cancelled(r) ==
    /\ r \in cancelled
    /\ cancelled' = cancelled \ {r}
    /\ End(r)
    /\ UNCHANGED <<offered, current, wire, capture, channel, consumer, marker, marks, faults>>

-----------------------------------------------------------------------------
CaptureThread == PrimarySelection \/ Selection \/ ReadFormat \/ Push
RestoreThread(r) == Mark(r) \/ SetSelection(r) \/ RestoreFails(r) \/ Cancelled(r)

Next ==
    \/ Copy \/ SelectPrimary \/ Clear
    \/ CaptureThread
    \/ Consume
    \/ \E r \in Restores : Load(r) \/ RestoreThread(r)

Spec == Init /\ [][Next]_vars

\* Threads and tasks run when they can, and who owns the selection answers.
\* Nothing makes anybody copy or restore.
Fairness ==
    /\ WF_vars(CaptureThread) /\ WF_vars(Consume)
    /\ \A r \in Restores : WF_vars(RestoreThread(r))
FairSpec == Spec /\ Fairness

-----------------------------------------------------------------------------
\* t has the total length of the first 0, 1, .. j of the contents c.
Totals(t, c, j) == t[0] = 0 /\ \A k \in 1 .. j : t[k] = t[k - 1] + Size[c[k]]

\* The first j of the contents c are within the limits, one after the other.
Fits(c, j) == \E t \in [0 .. j -> 0 .. MaxItem] :
    Totals(t, c, j) /\ \A k \in 1 .. j : Size[c[k]] <= MaxFormat

\* What a copy should leave in the history: the accepted formats up to the first
\* that exceeds a limit, unless there is a hint or one of them holds a secret.
AcceptedContents(l) == [k \in DOMAIN Accepted(l) |-> Content(l, Accepted(l)[k])]
Outcome(l) ==
    LET c == AcceptedContents(l)
        formats == {<<Base[Accepted(l)[k]], c[k]>> : k \in {j \in DOMAIN c : Fits(c, j)}} IN
    IF Sensitive(l) \/ \E f \in formats : Secret(f[1], f[2]) THEN {} ELSE formats

\* The history has the copies in their order, each at most once, and each as it
\* should be but for those that were superseded, or failed, while being read.
HistoryIsTheCopies ==
    /\ \A j, k \in DOMAIN captured : j < k => captured[j].offer < captured[k].offer
    /\ \A k \in DOMAIN captured : captured[k].offer \notin broken =>
           captured[k].formats = Outcome(offered[captured[k].offer].formats)

\* Nothing from a selection with a hint, and no secret text, is ever stored -
\* also if the selection changes while it is read.
NothingSecret == \A k \in DOMAIN captured :
    /\ ~Sensitive(offered[captured[k].offer].formats)
    /\ \A f \in captured[k].formats : ~Secret(f[1], f[2])

\* The daemon's own selection is stored only if the item is not one that capture
\* gives back as it is, if it was not read well, or if another restore has set
\* the marker since.
MarkedAt(r) == CHOOSE j \in DOMAIN marks : marks[j] = r
EchoIgnored == \A k \in DOMAIN captured :
    LET n == captured[k].offer
        r == offered[n].owner IN
    r \in Restores /\ n \notin broken /\ Outcome(offered[n].formats) = FormatsOf(offered[n].formats) =>
        MarkedAt(r) < captured[k].marks

\* The map of offers holds the one being read, and what was announced for the
\* primary selection, which nobody removes.
OffersAccounted == \A n \in offers :
    \/ drain # None /\ drain.offer = n
    \/ offered[n].owner = "primary"

\* What the user copies and leaves in place ends in the history, unless it is
\* not to be stored, could not be read, or is what was restored last.
Stored(n) == \E k \in DOMAIN captured : captured[k].offer = n

\* The thread of a restore ends when its selection has been replaced.
RestoreEnds == \A r \in Restores :
    pc[r] = "owner" /\ r \notin Owner(current) ~> pc[r] = "done"

-----------------------------------------------------------------------------
\* What the design document says beyond that; a run of its own refutes it
\* (README, "Findings").

\* A selection that the daemon owns is never captured (richclip.md:396-398).
NoSelfCapture == \A k \in DOMAIN captured : offered[captured[k].offer].owner \notin Restores
=============================================================================
