------------------------------- MODULE Labeld -------------------------------
(***************************************************************************)
(* richclip-labeld (contrib/richclip-labeld): a client of the watch stream *)
(* that has a model describe the image of every new item and stores the    *)
(* answer as the item's label, among users and a daemon that may stop.     *)
(*                                                                         *)
(* Items are numbers in the order of their creation.  A picture is the     *)
(* item it was put in first and a number: no two are the same.             *)
(*                                                                         *)
(* The store changes in one step per operation, with its event: how the    *)
(* daemon gets there is the subject of Daemon.                             *)
(***************************************************************************)
EXTENDS Watch, FiniteSets

CONSTANTS
    Labeller,       \* the labelling daemon, as a client of the watch stream
    Versions,       \* bound: the pictures an item can have, one after another
    ByUser,         \* a label a user has written
    Overwrite       \* --overwrite

ImageMimePriority == <<"image/png", "image/webp", "image/jpeg", "image/bmp">>
ImageMimes == ToSet(ImageMimePriority)
Label == "application/x-richclip-label"

ASSUME LabellerAssumption == Labeller \in Clients
ASSUME MimesAssumption == Mimes \subseteq ImageMimes \cup {Label} /\ Label \in Mimes
ASSUME OverwriteAssumption == Overwrite \in BOOLEAN
ASSUME BoundAssumption == Items # {} /\ Versions \in Nat \ {0}

\* The watch request of run().
ASSUME WatchRequest ==
    Filter[Labeller] = [tag |-> "item-added", mimes |-> ImageMimes \cap Mimes]

VARIABLES
    items,          \* the formats of every item, a function from its mimes;
                    \* an item that is not there has none
    made,           \* how many pictures each item has had so far; an item
                    \* that has not been added has none
    phase,          \* of the labeller
    work,           \* the item in its hands, the mime it has chosen, and what
                    \* it has of it: the picture, later the label
    fate            \* history: what has become of each item, as often as it came

labelVars == <<items, made, phase, work, fate>>
vars == <<watchVars, labelVars>>

LabelOf(pic) == [label |-> pic]
Pictures == Items \X (0 .. Versions)
Contents == Pictures \cup {ByUser} \cup {LabelOf(pic) : pic \in Pictures}
NoFormats == [f \in {} |-> ByUser]
Live == {k \in Items : items[k] # NoFormats}
NoWork == [item |-> CHOOSE k \in Items : TRUE, mime |-> Label, data |-> ByUser]

Init ==
    /\ WatchInit
    /\ items = [k \in Items |-> NoFormats] /\ made = [k \in Items |-> 0]
    /\ phase = "idle" /\ work = NoWork
    /\ fate = [k \in Items |-> <<>>]

-----------------------------------------------------------------------------
(***************************************************************************)
(* The users                                                               *)
(***************************************************************************)
\* Through the daemon with an event, or beside a daemon that is not running.
Announced(e) == IF up THEN Publish(e) ELSE UNCHANGED watchVars

Put(k, mime, data) ==
    items' = [items EXCEPT ![k] = [f \in DOMAIN items[k] \cup {mime} |->
                                      IF f = mime THEN data ELSE items[k][f]]]

\* A capture or `richclip add'.  All images of an item show the same.
UserAdds(k, formats) ==
    /\ made[k] = 0 /\ \A j \in Items : j < k => made[j] > 0
    /\ formats # {}
    /\ items' = [items EXCEPT ![k] = [f \in formats |-> IF f = Label THEN ByUser ELSE <<k, 1>>]]
    /\ made' = [made EXCEPT ![k] = 1]
    /\ Announced([tag |-> "item-added", item |-> k, mimes |-> formats])
    /\ UNCHANGED <<phase, work, fate>>

\* `richclip update' with another picture.
UserReplaces(k, mime) ==
    /\ k \in Live /\ mime # Label /\ made[k] < Versions
    /\ Put(k, mime, <<k, made[k] + 1>>)
    /\ made' = [made EXCEPT ![k] = @ + 1]
    /\ Announced([tag |-> "item-updated", item |-> k, mimes |-> {mime}])
    /\ UNCHANGED <<phase, work, fate>>

\* `richclip update' with a label.
UserLabels(k) ==
    /\ k \in Live /\ (Label \in DOMAIN items[k] => items[k][Label] # ByUser)
    /\ Put(k, Label, ByUser)
    /\ Announced([tag |-> "item-updated", item |-> k, mimes |-> {Label}])
    /\ UNCHANGED <<made, phase, work, fate>>

\* `richclip delete', or the retention, which announces nothing.
UserDeletes(k) ==
    /\ k \in Live
    /\ items' = [items EXCEPT ![k] = NoFormats]
    /\ \/ Announced([tag |-> "item-deleted", item |-> k, mimes |-> {}])
       \/ UNCHANGED watchVars
    /\ UNCHANGED <<made, phase, work, fate>>

-----------------------------------------------------------------------------
(***************************************************************************)
(* The labeller                                                            *)
(***************************************************************************)
\* What the labeller has done with an item; it is then ready for the next event.
Outcome(k, what) ==
    /\ fate' = [fate EXCEPT ![k] = Append(@, what)]
    /\ phase' = "watch" /\ work' = NoWork

\* The first of the priority list that the item has.
ChooseImageMime(formats) ==
    LET first == CHOOSE p \in DOMAIN ImageMimePriority :
                     /\ ImageMimePriority[p] \in formats
                     /\ \A q \in 1 .. p - 1 : ImageMimePriority[q] \notin formats
    IN  ImageMimePriority[first]

\* The daemon is there: watch.  Otherwise sleep, and try again.
LabellerConnects ==
    /\ phase = "idle"
    /\ Connect(Labeller)
    /\ phase' = "watch"
    /\ UNCHANGED <<items, made, work, fate>>

\* Mutant: the end of the stream does not lead back to connecting.
LabellerEofStays ==
    /\ phase = "watch"
    /\ Eof(Labeller)
    /\ UNCHANGED labelVars

\* The stream has ended: sleep, and connect again.
LabellerEof ==
    /\ phase = "watch"
    /\ Eof(Labeller)
    /\ phase' = "idle"
    /\ UNCHANGED <<items, made, work, fate>>

\* An event: with a label among its formats there is nothing to do.
LabellerReads ==
    /\ phase = "watch"
    /\ Read(Labeller)
    /\ LET e == log[Head(pipe[Labeller])] IN
        IF e.mimes \cap ImageMimes = {} \/ (~Overwrite /\ Label \in e.mimes)
        THEN Outcome(e.item, "skipped")
        ELSE /\ phase' = "decode"
             /\ work' = [item |-> e.item, mime |-> ChooseImageMime(e.mimes), data |-> ByUser]
             /\ UNCHANGED fate
    /\ UNCHANGED <<items, made>>

\* The format, read from the store directly.
LabellerDecodes ==
    /\ phase = "decode"
    /\ work.item \in Live /\ work.mime \in DOMAIN items[work.item]
    /\ phase' = "ask" /\ work' = [work EXCEPT !.data = items[work.item][work.mime]]
    /\ UNCHANGED <<watchVars, items, made, fate>>

\* label_image: the model answers in words.
ModelAnswers ==
    /\ phase = "ask"
    /\ work' = [work EXCEPT !.data = LabelOf(@)]
    /\ phase' = "update"
    /\ UNCHANGED <<watchVars, items, made, fate>>

\* The format is gone, or the store cannot be read.
DecodeFails ==
    /\ phase = "decode"
    /\ Outcome(work.item, "failed")
    /\ UNCHANGED <<watchVars, items, made>>

\* Mutant: without an answer the loop over the events is left, the stream open.
NoAnswerForGood ==
    /\ phase = "ask"
    /\ phase' = "idle"
    /\ UNCHANGED <<watchVars, items, made, work, fate>>

\* send_http_request, extract_text: no answer, none in time, or an empty one.
NoAnswer ==
    /\ phase = "ask"
    /\ Outcome(work.item, "failed")
    /\ UNCHANGED <<watchVars, items, made>>

\* No daemon for the update, or it cannot do it.
UpdateFails ==
    /\ phase = "update"
    /\ Outcome(work.item, "failed")
    /\ UNCHANGED <<watchVars, items, made>>

\* Mutant: the label goes to the item of the newest event.
LabellerUpdatesLast ==
    /\ phase = "update" /\ up
    /\ LET k == log[Len(log)].item IN
        IF k \in Live
        THEN /\ Put(k, Label, work.data)
             /\ Publish([tag |-> "item-updated", item |-> k, mimes |-> {Label}])
             /\ Outcome(k, "labelled")
        ELSE /\ Outcome(k, "failed")
             /\ UNCHANGED <<watchVars, items>>
    /\ UNCHANGED made

\* The update over a connection of its own.  The daemon answers not_found if
\* the item has been deleted; an answer may also be lost.
LabellerUpdates ==
    /\ phase = "update" /\ up
    /\ IF work.item \in Live
       THEN /\ Put(work.item, Label, work.data)
            /\ Publish([tag |-> "item-updated", item |-> work.item, mimes |-> {Label}])
            /\ \E what \in {"labelled", "failed"} : Outcome(work.item, what)
       ELSE /\ Outcome(work.item, "failed")
            /\ UNCHANGED <<watchVars, items>>
    /\ UNCHANGED made

-----------------------------------------------------------------------------
\* Bound: the users leave room for one event of the labeller per item.
Users ==
    /\ Len(log) + Cardinality(Items) < MaxEvents
    /\ \E k \in Items :
        \/ \E formats \in SUBSET Mimes : UserAdds(k, formats)
        \/ \E mime \in Mimes : UserReplaces(k, mime)
        \/ UserLabels(k)
        \/ UserDeletes(k)

LabellerStep ==
    \/ LabellerConnects \/ LabellerEof \/ LabellerReads \/ LabellerDecodes
    \/ DecodeFails \/ ModelAnswers \/ NoAnswer \/ UpdateFails \/ LabellerUpdates

Watcher(c) == c # Labeller /\ ((side[c] = "new" /\ Connect(c)) \/ Read(c) \/ Eof(c) \/ Leave(c))

WatchStep ==
    /\ \/ \E c \in Clients : Handle(c) \/ Watcher(c)
       \/ Stop \/ Start
    /\ UNCHANGED labelVars

Next == Users \/ LabellerStep \/ WatchStep

Spec == Init /\ [][Next]_vars

\* The runtime polls every handler, a watcher prints what it reads, and every
\* wait of the labeller has a timeout.  Nobody has to start the daemon again.
Fairness ==
    /\ \A c \in Clients : WF_vars(Handle(c) /\ UNCHANGED labelVars)
    /\ \A c \in Clients \ {Labeller} : WF_vars((Read(c) \/ Eof(c)) /\ UNCHANGED labelVars)
    /\ WF_vars(LabellerStep)

FairSpec == Spec /\ Fairness

-----------------------------------------------------------------------------
TypeOK ==
    /\ WatchTypeOK
    /\ \A k \in Items : /\ DOMAIN items[k] \subseteq Mimes
                        /\ \A f \in DOMAIN items[k] : items[k][f] \in Contents
                        /\ made[k] \in 0 .. Versions
                        /\ fate[k] \in Seq({"skipped", "failed", "labelled"})
                        /\ made[k] = 0 => items[k] = NoFormats /\ fate[k] = <<>>
    /\ phase \in {"idle", "watch", "decode", "ask", "update"}
    /\ work \in [item : Items, mime : Mimes, data : Contents]

AtWork == {"decode", "ask", "update"}

\* However often the daemon stops and the labeller connects again, the model is
\* asked about an item at most once, and not on account of the labeller's own
\* updates (run(), the subscription without a replay).
OneCallPerItem == \A k \in Items :
    Len(fate[k]) + (IF phase \in AtWork /\ work.item = k THEN 1 ELSE 0) <= 1

\* A label is a user's or describes a picture that this item has had, whatever
\* happens to the item while the model is at work (run(), the closure).
LabelsTrue == \A k \in Live :
    Label \in DOMAIN items[k] =>
        items[k][Label] \in {ByUser} \cup {LabelOf(<<k, v>>) : v \in 1 .. made[k]}

\* The event of a new item on its way to the labeller or with it, if there is one.
NewsOf(k) == {p \in OnItsWay(Labeller) \cup ToSet(got[Labeller]) :
                 log[p].tag = "item-added" /\ log[p].item = k}

\* Every item whose event is on its way to the labeller gets its turn, whatever
\* becomes of the others, unless the stream loses the event (run()).
EveryItemHandled == \A k \in Items :
    NewsOf(k) # {} ~> (fate[k] # <<>> \/ NewsOf(k) = {})

\* When the daemon stays up, the labeller is subscribed from some time on
\* (run(), the outer loop).
Reconnects == <>[]up => <>[](side[Labeller] = "here" /\ task[Labeller] = "on")
=============================================================================
