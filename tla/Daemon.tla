------------------------------- MODULE Daemon -------------------------------
(***************************************************************************)
(* richclipd between its clients and the Store (daemon.rs, the capture     *)
(* consumer and the prune task of richclipd.rs): requests are handled by   *)
(* tasks of their own; the store is behind one mutex, the announcement of  *)
(* a change is sent after the mutex is released, and a deleted item's      *)
(* thumbnail is removed after that.                                        *)
(*                                                                         *)
(* A call of the Store is one step here: that is what module Store refines *)
(* (ImplementsHistory).  Which bytes a format holds makes no difference to *)
(* these tasks, so an item is the set of its mimes.                        *)
(***************************************************************************)
EXTENDS Naturals, Sequences, FiniteSets

CONSTANTS
    Ids, Mimes,
    ImageMimes,     \* IMAGE_MIME_PRIORITY of thumbnail.rs
    Lists,          \* the mimes of an AddItem or a captured item, in order
    Updates,        \* <<remove_mimes, mimes of set_formats>> of an UpdateItem
    Handlers,       \* tasks that serve one connection at a time
    Consumer,       \* the task that stores captured items
    Pruner,         \* the retention task
    Commands,       \* what commands do beside the daemon: "prune", "thumbnail"
    None,
    MaxRequests,    \* bound on requests and captures
    MaxFaults       \* bound on failing store calls

Senders == Handlers \cup {Consumer}
Tasks == Senders \cup {Pruner}

ASSUME BoundAssumption == MaxRequests \in Nat /\ MaxFaults \in Nat
ASSUME MimeAssumption ==
    ImageMimes \subseteq Mimes /\ Lists \subseteq Seq(Mimes)
    /\ Updates \subseteq Seq(Mimes) \X Seq(Mimes)
ASSUME TaskAssumption ==
    Consumer # Pruner /\ {Consumer, Pruner} \cap Handlers = {} /\ None \notin Tasks \cup Ids
ASSUME CommandAssumption == Commands \subseteq {"prune", "thumbnail"}

Requests == [kind : {"add", "capture"}, id : {None}, formats : Lists]
    \cup [kind : {"update"}, id : Ids, update : Updates]
    \cup [kind : {"delete"}, id : Ids]
NoRequest == [kind |-> "none", id |-> None]

VARIABLES
    hist,       \* the stored items: their mimes, and their place in the order of created_at
    used,       \* ids handed out so far
    lock,       \* the task that holds Mutex<Store>, or None
    pc, req,    \* where each task is, and its request
    todo,       \* the store calls an UpdateItem has still to make
    due,        \* the event a task's changes so far call for, or None
    since,      \* history: how many events had been sent when the request arrived
    log,        \* the events sent, each with the `since' of its request
    client,     \* what the client at the other end of the connection knows
    thumbs,     \* ids with a thumbnail file
    viewing,    \* the item whose image a `richclip thumbnail' has decoded, or None
    requests, faults,
    left,       \* history: ids whose thumbnail file, if there is one, nobody will remove
    pruned      \* history: ids that the retention has removed

store == <<hist, used>>
conn  == <<req, client, requests>>
cache == <<thumbs, viewing, left, pruned>>
vars  == <<store, lock, pc, todo, due, since, log, conn, cache, faults>>

-----------------------------------------------------------------------------
Items == DOMAIN hist
InList(l) == {l[k] : k \in DOMAIN l}
HasImage(mimes) == mimes \cap ImageMimes # {}

Added(i, l)   == [event |-> "item-added", id |-> i, formats |-> l]
\* Mutant: one mime where the list belongs.
UpdatedOne(i, l) == [event |-> "item-updated", id |-> i, changed |-> Head(l)]
Updated(i, l) == [event |-> "item-updated", id |-> i, changed |-> l]
Deleted(i)    == [event |-> "item-deleted", id |-> i]
EventsOn(S) == [event : {"item-added"}, id : S, formats : Lists]
    \cup [event : {"item-updated"}, id : S, changed : Seq(Mimes)]
    \cup [event : {"item-deleted"}, id : S]
Events == EventsOn(used)

ASSUME IdAssumption == IsFiniteSet(Ids)
ASSUME EventAssumption == None \notin EventsOn(Ids)

\* The store calls of an UpdateItem, removes first.
CallsOf(u) == [k \in DOMAIN u[1] |-> <<"remove", u[1][k]>>]
               \o [k \in DOMAIN u[2] |-> <<"set", u[2][k]>>]
Changed(p) == IF due[p] = None THEN <<>> ELSE due[p].changed

TypeOK ==
    /\ used \subseteq Ids /\ Items \subseteq used
    /\ \A i \in Items : hist[i] \in [mimes : SUBSET Mimes, born : 1 .. Cardinality(Ids)]
    /\ lock \in Tasks \cup {None}
    /\ pc \in [Tasks -> {"idle", "waiting", "work", "thumb", "send", "cleanup", "ok", "error"}]
    /\ \A p \in Tasks : req[p].id \in Ids \cup {None}
    /\ todo \in [Tasks -> Seq({"set", "remove"} \X Mimes)]
    /\ due \in [Senders -> Events \cup {None}]
    /\ since \in [Tasks -> Nat]
    /\ \A k \in DOMAIN log : log[k].ev \in Events /\ log[k].since < k
    /\ client \in [Handlers -> {"none", "waiting", "ok", "error", "gone"}]
    /\ thumbs \subseteq used /\ {left, pruned} \subseteq SUBSET used /\ viewing \in used \cup {None}
    /\ requests \in 0 .. MaxRequests /\ faults \in 0 .. MaxFaults

Init ==
    /\ hist = <<>> /\ used = {} /\ lock = None
    /\ pc = [p \in Tasks |-> "idle"] /\ req = [p \in Tasks |-> NoRequest]
    /\ todo = [p \in Tasks |-> <<>>] /\ due = [p \in Senders |-> None]
    /\ since = [p \in Tasks |-> 0] /\ log = <<>>
    /\ client = [p \in Handlers |-> "none"]
    /\ thumbs = {} /\ viewing = None /\ left = {} /\ pruned = {}
    /\ requests = 0 /\ faults = 0

-----------------------------------------------------------------------------
(***************************************************************************)
(* Requests.                                                               *)
(***************************************************************************)
\* Not more additions than there are ids (a bound of the model, as MaxRequests).
Adding == {p \in Tasks : pc[p] \in {"waiting", "work"} /\ req[p].kind \in {"add", "capture"}}
Arrive(p, r) ==
    /\ pc[p] = "idle" /\ requests < MaxRequests
    /\ r.kind \in {"add", "capture"} => Cardinality(used) + Cardinality(Adding) < Cardinality(Ids)
    /\ requests' = requests + 1
    /\ req' = [req EXCEPT ![p] = r]
    /\ since' = [since EXCEPT ![p] = Len(log)]
    /\ pc' = [pc EXCEPT ![p] = "waiting"]
    /\ UNCHANGED <<store, lock, todo, due, log, cache, faults>>

\* A client connects and sends one request, on an id it has seen in the store.
Request(p) ==
    /\ client[p] = "none"
    /\ \E r \in Requests : r.kind # "capture" /\ r.id \in used \cup {None} /\ Arrive(p, r)
    /\ client' = [client EXCEPT ![p] = "waiting"]

\* A captured item that is not an echo reaches the consumer.
Capture ==
    /\ \E r \in Requests : r.kind = "capture" /\ Arrive(Consumer, r)
    /\ UNCHANGED client

\* The retention interval has passed.
PruneDue ==
    /\ pc[Pruner] = "idle"
    /\ pc' = [pc EXCEPT ![Pruner] = "waiting"]
    /\ UNCHANGED <<store, lock, todo, due, since, log, conn, cache, faults>>

\* Mutant: the mutex does not exclude anybody.
LockShared(p) ==
    /\ pc[p] = "waiting"
    /\ lock' = p
    /\ todo' = [todo EXCEPT ![p] = IF req[p].kind = "update" THEN CallsOf(req[p].update) ELSE <<>>]
    /\ pc' = [pc EXCEPT ![p] = "work"]
    /\ UNCHANGED <<store, due, since, log, conn, cache, faults>>

\* state.store.lock().await
Lock(p) ==
    /\ pc[p] = "waiting" /\ lock = None
    /\ lock' = p
    /\ todo' = [todo EXCEPT ![p] = IF req[p].kind = "update" THEN CallsOf(req[p].update) ELSE <<>>]
    /\ pc' = [pc EXCEPT ![p] = "work"]
    /\ UNCHANGED <<store, due, since, log, conn, cache, faults>>

\* The guard is dropped and the task goes on to `next'.
Unlock(p, next) ==
    /\ lock' = None
    /\ pc' = [pc EXCEPT ![p] = next]
    /\ todo' = [todo EXCEPT ![p] = <<>>]
    /\ UNCHANGED <<since, log>>

-----------------------------------------------------------------------------
(***************************************************************************)
(* Under the mutex.                                                        *)
(***************************************************************************)
Working(p, kind) == pc[p] = "work" /\ req[p].kind = kind
Owe(p, e) == due' = [due EXCEPT ![p] = e]

\* Store::add_item, with an id that was never handed out before.
Insert(p) ==
    \E i \in Ids \ used :
        /\ used' = used \cup {i}
        /\ hist' = [j \in Items \cup {i} |-> IF j # i THEN hist[j]
                       ELSE [mimes |-> InList(req[p].formats), born |-> Cardinality(used) + 1]]
        /\ req' = [req EXCEPT ![p].id = i]
        /\ Owe(p, Added(i, req[p].formats))
        /\ UNCHANGED <<client, requests, cache, faults>>

AddItem(p) == Working(p, "add") /\ Insert(p) /\ Unlock(p, "send")

\* Mutant: the mutex is released before the thumbnail is made.
StoreCapturedUnlocked ==
    /\ Working(Consumer, "capture") /\ Insert(Consumer) /\ Unlock(Consumer, "thumb")

\* The consumer keeps the mutex while it makes the thumbnail ...
StoreCaptured ==
    /\ Working(Consumer, "capture") /\ Insert(Consumer)
    /\ pc' = [pc EXCEPT ![Consumer] = "thumb"]
    /\ UNCHANGED <<lock, todo, since, log>>

\* ... if there is an image (failing to decode it is only logged).  The item
\* may be gone by now: a command can have pruned it.
MakeThumbnail ==
    /\ pc[Consumer] = "thumb"
    /\ thumbs' \in {thumbs, thumbs \cup {req[Consumer].id}}
    /\ thumbs' # thumbs => HasImage(InList(req[Consumer].formats))
    /\ Unlock(Consumer, "send")
    /\ UNCHANGED <<store, due, conn, viewing, left, pruned, faults>>

\* remove_format or set_format, the next call of an UpdateItem.
InCall(p) == Working(p, "delete") \/ (Working(p, "update") /\ todo[p] # <<>>)
Missing(p) ==
    req[p].id \in Items =>
        /\ req[p].kind = "update" /\ Head(todo[p])[1] = "remove"
        /\ Head(todo[p])[2] \notin hist[req[p].id].mimes
ChangeFormat(p) ==
    /\ Working(p, "update") /\ todo[p] # <<>> /\ ~Missing(p)
    /\ LET i == req[p].id
           m == Head(todo[p])[2] IN
        /\ hist' = [hist EXCEPT ![i].mimes =
                       IF Head(todo[p])[1] = "set" THEN @ \cup {m} ELSE @ \ {m}]
        /\ Owe(p, Updated(i, Append(Changed(p), m)))
    /\ UNCHANGED used

UpdateFormat(p) ==
    /\ ChangeFormat(p)
    /\ todo' = [todo EXCEPT ![p] = Tail(@)]
    /\ UNCHANGED <<lock, pc, since, log, conn, cache, faults>>

\* Mutant: the change is not announced.
UpdateDoneSilent(p) ==
    /\ Working(p, "update") /\ todo[p] = <<>>
    /\ Unlock(p, "ok")
    /\ UNCHANGED <<store, due, conn, cache, faults>>

\* No call is left; without any change there is nothing to announce.
UpdateDone(p) ==
    /\ Working(p, "update") /\ todo[p] = <<>>
    /\ Unlock(p, IF due[p] = None THEN "ok" ELSE "send")
    /\ UNCHANGED <<store, due, conn, cache, faults>>

Keep(S) == hist' = [i \in S |-> hist[i]] /\ UNCHANGED used
RemoveItem(p) ==
    /\ Working(p, "delete") /\ ~Missing(p)
    /\ Keep(Items \ {req[p].id})
    /\ Owe(p, Deleted(req[p].id))

\* Mutant: a deletion is not announced.
DeleteItemSilent(p) == RemoveItem(p) /\ Unlock(p, "cleanup") /\ UNCHANGED <<conn, cache, faults>>

DeleteItem(p) == RemoveItem(p) /\ Unlock(p, "send") /\ UNCHANGED <<conn, cache, faults>>

\* Mutant: deleting what is not there is taken for a success.
DeletedAnyway(p) ==
    /\ InCall(p) /\ Missing(p)
    /\ IF req[p].kind = "delete" THEN Owe(p, Deleted(req[p].id)) /\ Unlock(p, "send")
                                 ELSE UNCHANGED due /\ Unlock(p, "error")
    /\ UNCHANGED <<store, conn, cache, faults>>

\* The early return on an error: what was changed before it stays changed.
NotFound(p) ==
    /\ InCall(p) /\ Missing(p)
    /\ Unlock(p, "error")
    /\ UNCHANGED <<store, due, conn, cache, faults>>

\* delete_older_than: everything created before some time, and no event.
Prune ==
    \E n \in 0 .. Cardinality(Ids) :
        LET old == {i \in Items : hist[i].born <= n} IN
        Keep(Items \ old) /\ left' = left \cup old /\ pruned' = pruned \cup old
RunPrune ==
    /\ pc[Pruner] = "work" /\ Prune
    /\ Unlock(Pruner, "idle")
    /\ UNCHANGED <<due, conn, thumbs, viewing, faults>>

\* A store call fails.  It has changed nothing, or - where it removes blobs
\* after its commit - all it should.  The handler answers with the error.
StoreError(p) ==
    /\ pc[p] = "work" /\ faults < MaxFaults
    /\ req[p].kind = "update" => todo[p] # <<>>
    /\ \/ UNCHANGED <<store, due, left, pruned>>
       \/ (ChangeFormat(p) /\ UNCHANGED <<left, pruned>>)
       \/ (RemoveItem(p) /\ left' = left \cup {req[p].id} /\ UNCHANGED pruned)
       \/ (p = Pruner /\ Prune /\ UNCHANGED due)
    /\ Unlock(p, IF p \in Handlers THEN "error" ELSE "idle")
    /\ faults' = faults + 1
    /\ UNCHANGED <<conn, thumbs, viewing>>

-----------------------------------------------------------------------------
(***************************************************************************)
(* After the mutex.                                                        *)
(***************************************************************************)
\* watch_tx.send, then the thumbnail for a delete, then the answer.
Send(p) ==
    /\ pc[p] = "send"
    /\ log' = Append(log, [ev |-> due[p], since |-> since[p]])
    /\ due' = [due EXCEPT ![p] = None]
    /\ pc' = [pc EXCEPT ![p] = IF p = Consumer THEN "idle"
                               ELSE IF req[p].kind = "delete" THEN "cleanup" ELSE "ok"]
    /\ UNCHANGED <<store, lock, todo, since, conn, cache, faults>>

Cleanup(p) ==
    /\ pc[p] = "cleanup"
    /\ thumbs' = thumbs \ {req[p].id}
    /\ pc' = [pc EXCEPT ![p] = "ok"]
    /\ UNCHANGED <<store, lock, todo, due, since, log, conn, viewing, left, pruned, faults>>

\* write_response; nobody may be there any more to read it.
Respond(p) ==
    /\ pc[p] \in {"ok", "error"}
    /\ client' = [client EXCEPT ![p] = IF @ = "waiting" THEN pc[p] ELSE @]
    /\ due' = [due EXCEPT ![p] = None]
    /\ pc' = [pc EXCEPT ![p] = "idle"]
    /\ UNCHANGED <<store, lock, todo, since, log, req, requests, cache, faults>>

-----------------------------------------------------------------------------
(***************************************************************************)
(* The clients, and commands that work beside the daemon.                  *)
(***************************************************************************)
\* The read timeout of the client (ipc.rs), or somebody killed it.
GiveUp(p) ==
    /\ client[p] = "waiting"
    /\ client' = [client EXCEPT ![p] = "gone"]
    /\ UNCHANGED <<store, lock, pc, todo, due, since, log, req, requests, cache, faults>>

\* The command exits; after a delete it removes the thumbnail as well.
Finish(p) ==
    /\ pc[p] = "idle" /\ client[p] \in {"ok", "error", "gone"}
    /\ client' = [client EXCEPT ![p] = "none"]
    /\ thumbs' = IF client[p] = "ok" /\ req[p].kind = "delete" THEN thumbs \ {req[p].id} ELSE thumbs
    /\ UNCHANGED <<store, lock, pc, todo, due, since, log, req, requests, viewing, left, pruned, faults>>

\* `richclip delete --older-than', on a store of its own.
PruneBeside ==
    /\ "prune" \in Commands /\ Prune
    /\ UNCHANGED <<lock, pc, todo, due, since, log, conn, thumbs, viewing, faults>>

\* `richclip thumbnail': read and decode the image ...
ViewImage ==
    /\ "thumbnail" \in Commands /\ viewing = None
    /\ \E i \in Items : HasImage(hist[i].mimes) /\ viewing' = i
    /\ UNCHANGED <<store, lock, pc, todo, due, since, log, conn, thumbs, left, pruned, faults>>
\* ... and write its thumbnail, whether or not the item is still there.
WriteThumbnail ==
    /\ viewing # None
    /\ thumbs' = thumbs \cup {viewing}
    /\ left' = left \cup ({viewing} \ Items)
    /\ viewing' = None
    /\ UNCHANGED <<store, lock, pc, todo, due, since, log, conn, pruned, faults>>

-----------------------------------------------------------------------------
Handle(p) ==
    \/ AddItem(p) \/ UpdateFormat(p) \/ UpdateDone(p) \/ DeleteItem(p)
    \/ NotFound(p) \/ Cleanup(p) \/ Respond(p)
Work(p) ==
    \/ Lock(p)
    \/ p \in Handlers /\ Handle(p)
    \/ p = Consumer /\ (StoreCaptured \/ MakeThumbnail)
    \/ p = Pruner /\ RunPrune
    \/ p # Pruner /\ Send(p)
    \/ StoreError(p)

Next ==
    \/ \E p \in Tasks : Work(p)
    \/ \E p \in Handlers : Request(p) \/ GiveUp(p) \/ Finish(p)
    \/ Capture \/ PruneDue
    \/ PruneBeside \/ ViewImage \/ WriteThumbnail

Spec == Init /\ [][Next]_vars

\* The runtime runs every task that can run.  Nothing makes a client send, leave
\* or come back, and an event is owed by nobody who waits for the mutex.
Fairness == \A p \in Senders : WF_vars(Work(p))
FairSpec == Spec /\ Fairness

-----------------------------------------------------------------------------
\* The calls of one update are not mixed with another task's: when the last
\* has been made, all it set is there and all it removed is not, unless a
\* command has pruned the item meanwhile.
UpdateWhole == \A p \in Handlers :
    Working(p, "update") /\ todo[p] = <<>> /\ req[p].id \in Items =>
        LET u == req[p].update
            mimes == hist[req[p].id].mimes IN
        InList(u[2]) \subseteq mimes /\ mimes \cap (InList(u[1]) \ InList(u[2])) = {}

\* Once a deletion is announced, the only events that may still come for the
\* item are those of requests that were under way at that time.
DeletionIsFinal == \A j, k \in DOMAIN log :
    j < k /\ log[j].ev = Deleted(log[k].ev.id) => log[k].since < j

\* A client that was answered `ok' has got what it asked for, and the event
\* that says so has been sent.
Announced(p) == \E k \in DOMAIN log : log[k].ev =
    CASE req[p].kind = "add"    -> Added(req[p].id, req[p].formats)
      [] req[p].kind = "update" -> Updated(req[p].id, req[p].update[1] \o req[p].update[2])
      [] req[p].kind = "delete" -> Deleted(req[p].id)
OkMeansDone == \A p \in Handlers : client[p] = "ok" =>
    /\ Announced(p) \/ (req[p].kind = "update" /\ CallsOf(req[p].update) = <<>>)
    /\ req[p].kind = "add" => req[p].id \in used
    /\ req[p].kind = "delete" => req[p].id \notin Items

\* A thumbnail is an item's, or one that a delete is about to remove, or one
\* left behind: by the retention, which does not remove thumbnails, by a delete
\* that failed after its commit, or by a `richclip thumbnail' that was too late.
ThumbnailsAccounted == \A i \in thumbs \ Items :
    \/ i \in left
    \/ \E p \in Handlers : pc[p] \in {"send", "cleanup"} /\ req[p] = [kind |-> "delete", id |-> i]

\* To a watcher, the daemon is a Feed: what is changed is announced, but for what
\* the retention removes and for what an operation had changed before it failed,
\* and then its client is answered with an error.
F == INSTANCE Feed WITH
    hist <- [i \in Items |-> hist[i].mimes],
    log <- [k \in DOMAIN log |-> log[k].ev],
    failed <- {p \in Handlers : pc[p] = "error"}
ImplementsFeed == F!Spec

-----------------------------------------------------------------------------
\* What the design document says beyond that; runs of their own refute it
\* (README, "Findings").

\* Every mutation emits a watch event (richclip.md:474-476): of an item that is
\* gone, watchers have been told, or are about to be.
EveryRemovalAnnounced == \A i \in used \ Items :
    (\E k \in DOMAIN log : log[k].ev = Deleted(i)) \/ \E p \in Handlers : due[p] = Deleted(i)

\* An update that fails has changed nothing (richclip.md:265-267).
UpdateInOneTransaction == \A p \in Handlers :
    pc[p] = "error" /\ req[p].kind = "update" => due[p] = None
=============================================================================
