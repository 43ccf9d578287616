---------------------------- MODULE DaemonProofs ----------------------------
(***************************************************************************)
(* Whatever the handlers, items and mimes, and however many requests: what *)
(* the daemon does under its mutex is whole, what it answers is true, what *)
(* it announces is in an order watchers can rely on, and no thumbnail is   *)
(* forgotten unseen.                                                       *)
(*                                                                         *)
(* None of these is inductive.  They rest on layers, which hold together:  *)
(* the proof that a step preserves one relies on others as well.           *)
(*   Typed     the state has its types, and what it names has been stored; *)
(*   Phased    where a task is decides whether it has the mutex, what it   *)
(*             owes the watchers and whether its client still waits;       *)
(*   Halfway   how far an update is decides what it owes and what the item *)
(*             looks like;                                                 *)
(*   Final     a deleted item does not come back, its deletion is the last *)
(*             of its events but for those of tasks that came before it,   *)
(*             and whoever still owes an event on it did come before it;   *)
(*   Truthful  an answer that is on its way is true already.               *)
(***************************************************************************)
EXTENDS Daemon, TLAPS, SequenceTheorems, FiniteSetTheorems

Locations == {"idle", "waiting", "work", "thumb", "send", "cleanup", "ok", "error"}
Calls == {"set", "remove"} \X Mimes
AllRequests == {NoRequest}
    \cup [kind : {"add", "capture"}, id : Ids \cup {None}, formats : Lists]
    \cup [kind : {"update"}, id : Ids, update : Updates]
    \cup [kind : {"delete"}, id : Ids]

-----------------------------------------------------------------------------
(***************************************************************************)
(* Typed                                                                   *)
(***************************************************************************)
HistType ==
    /\ used \subseteq Ids /\ Items \subseteq used
    /\ \A i \in Items : hist[i] \in [mimes : SUBSET Mimes, born : 1 .. Cardinality(Ids)]
TaskType ==
    /\ lock \in Tasks \cup {None}
    /\ pc \in [Tasks -> Locations]
    /\ todo \in [Tasks -> Seq(Calls)]
    /\ since \in [Tasks -> Nat]
ReqType ==
    /\ req \in [Tasks -> AllRequests]
    /\ \A p \in Tasks : req[p].id \in used \cup {None}
    /\ \A p \in Handlers : req[p].kind \in {"none", "add", "update", "delete"}
    /\ req[Consumer].kind \in {"none", "capture"} /\ req[Pruner].kind = "none"
EventType ==
    /\ due \in [Senders -> EventsOn(Ids) \cup {None}]
    /\ log \in Seq([ev : EventsOn(Ids), since : Nat])
    /\ \A p \in Senders : due[p] # None => due[p].id \in used
    /\ \A k \in 1 .. Len(log) : log[k].ev.id \in used /\ log[k].since < k
    /\ \A p \in Tasks : since[p] <= Len(log)
RestType ==
    /\ client \in [Handlers -> {"none", "waiting", "ok", "error", "gone"}]
    /\ thumbs \subseteq used /\ left \subseteq used /\ pruned \subseteq used
    /\ viewing \in used \cup {None}
    /\ requests \in 0 .. MaxRequests /\ faults \in 0 .. MaxFaults
Typed == HistType /\ TaskType /\ ReqType /\ EventType /\ RestType

(***************************************************************************)
(* Phased                                                                  *)
(***************************************************************************)
LockHeld == \A p \in Tasks :
    /\ pc[p] \in {"work", "thumb"} <=> lock = p
    /\ Working(p, "update") \/ todo[p] = <<>>

\* Where each kind of task can be.
Placed ==
    /\ \A p \in Handlers :
        /\ pc[p] # "thumb"
        /\ pc[p] # "idle" => req[p].kind # "none"
        /\ pc[p] = "cleanup" => req[p].kind = "delete"
    /\ pc[Consumer] \in {"idle", "waiting", "work", "thumb", "send"}
    /\ pc[Consumer] # "idle" => req[Consumer].kind = "capture"
    /\ pc[Pruner] \in {"idle", "waiting", "work"}

\* The event a task owes, if it does.
Owed(p) ==
    CASE req[p].kind \in {"add", "capture"} -> Added(req[p].id, req[p].formats)
      [] req[p].kind = "update" -> Updated(req[p].id, req[p].update[1] \o req[p].update[2])
      [] req[p].kind = "delete" -> Deleted(req[p].id)
      [] OTHER -> None
OwesNothing == \A p \in Senders :
    pc[p] \in {"idle", "waiting", "cleanup", "ok"}
        \/ (pc[p] = "work" /\ req[p].kind # "update") => due[p] = None
OwesAll == \A p \in Senders :
    pc[p] \in {"thumb", "send"} => due[p] = Owed(p) /\ due[p] # None
OwesUpdate == \A p \in Senders : Working(p, "update") /\ due[p] # None =>
    due[p].event = "item-updated" /\ due[p].id = req[p].id
Owing == OwesNothing /\ OwesAll /\ OwesUpdate

\* A client that has its answer leaves before its handler takes the next request.
Attended == \A p \in Handlers : pc[p] # "idle" => client[p] \in {"waiting", "gone"}

Phased == LockHeld /\ Placed /\ Owing /\ Attended

(***************************************************************************)
(* Halfway                                                                 *)
(***************************************************************************)
CallsLeft(p, n) ==
    LET calls == CallsOf(req[p].update) IN
    /\ Len(todo[p]) = Len(calls) - n
    /\ \A k \in 1 .. Len(todo[p]) : todo[p][k] = calls[n + k]
OwedSoFar(p, n) ==
    /\ due[p] = None <=> n = 0
    /\ Len(Changed(p)) = n
    /\ \A k \in 1 .. n : Changed(p)[k] = CallsOf(req[p].update)[k][2]
DoneSoFar(p, n) ==
    LET calls == CallsOf(req[p].update)
        mimes == hist[req[p].id].mimes IN
    req[p].id \in Items => \A k \in 1 .. n :
        /\ calls[k][1] = "set" => calls[k][2] \in mimes
        /\ calls[k][1] = "remove" /\ calls[k][2] \in mimes =>
               \E l \in 1 .. n : calls[l][1] = "set" /\ calls[l][2] = calls[k][2]
HalfwayOf(p) == \E n \in 0 .. Len(CallsOf(req[p].update)) :
    CallsLeft(p, n) /\ OwedSoFar(p, n) /\ DoneSoFar(p, n)
Halfway == \A p \in Handlers : Working(p, "update") => HalfwayOf(p)

(***************************************************************************)
(* Final                                                                   *)
(***************************************************************************)
Gone(i) == i \in used \ Items
Final ==
    /\ \A j \in 1 .. Len(log) : log[j].ev.event = "item-deleted" => Gone(log[j].ev.id)
    /\ \A p \in Senders : due[p] # None /\ due[p].event = "item-deleted" => Gone(due[p].id)
    /\ \A p \in Senders, j \in 1 .. Len(log) :
        due[p] # None /\ log[j].ev = Deleted(due[p].id) => since[p] < j
    /\ DeletionIsFinal

(***************************************************************************)
(* Truthful                                                                *)
(***************************************************************************)
Done(p) ==
    /\ Announced(p) \/ (req[p].kind = "update" /\ CallsOf(req[p].update) = <<>>)
    /\ req[p].kind = "add" => req[p].id \in used
    /\ req[p].kind = "delete" => Gone(req[p].id)
Truthful == \A p \in Handlers :
    /\ pc[p] \in {"cleanup", "ok"} => Done(p)
    /\ client[p] = "ok" => pc[p] = "idle" /\ req[p].kind # "none" /\ Done(p)

\* The thumbnail of an item that is pruned while it is made is left behind.
TooLate ==
    pc[Consumer] = "thumb" /\ req[Consumer].id \notin Items => req[Consumer].id \in left

IInv == Typed /\ Phased /\ Halfway /\ Final /\ Truthful /\ TooLate /\ ThumbnailsAccounted

-----------------------------------------------------------------------------
(***************************************************************************)
(* Facts about sequences, events and requests.                             *)
(***************************************************************************)
\* There is room in `born' for an id that was not handed out before.
LEMMA NextBorn ==
    ASSUME used \subseteq Ids, NEW i \in Ids \ used
    PROVE  Cardinality(used) + 1 \in 1 .. Cardinality(Ids)
<1>1. IsFiniteSet(used)
  BY IdAssumption, FS_Subset
<1>2. Cardinality(used \cup {i}) = Cardinality(used) + 1
  BY <1>1, FS_AddElement
<1>3. Cardinality(used \cup {i}) <= Cardinality(Ids)
  BY IdAssumption, FS_Subset, used \cup {i} \subseteq Ids
<1> QED
  BY <1>1, <1>2, <1>3, IdAssumption, FS_CardinalityType

LEMMA EventKinds ==
    ASSUME NEW e \in EventsOn(Ids)
    PROVE  /\ e # None
           /\ e.id \in Ids
           /\ e.event \in {"item-added", "item-updated", "item-deleted"}
           /\ e.event = "item-updated" => e.changed \in Seq(Mimes)
           /\ e.event = "item-deleted" => e = Deleted(e.id)
           /\ e.event = "item-updated" => e = Updated(e.id, e.changed)
BY EventAssumption DEF EventsOn, Deleted, Updated

LEMMA MakeEvent ==
    ASSUME NEW i \in Ids
    PROVE  /\ \A l \in Lists : Added(i, l) \in EventsOn(Ids)
           /\ \A l \in Seq(Mimes) : Updated(i, l) \in EventsOn(Ids)
           /\ Deleted(i) \in EventsOn(Ids)
BY DEF EventsOn, Added, Updated, Deleted

LEMMA OwedEvent ==
    ASSUME NEW p
    PROVE  /\ req[p].kind \in {"add", "capture"} => Owed(p) = Added(req[p].id, req[p].formats)
           /\ req[p].kind = "update" =>
                  Owed(p) = Updated(req[p].id, req[p].update[1] \o req[p].update[2])
           /\ req[p].kind = "delete" => Owed(p) = Deleted(req[p].id)
BY DEF Owed

LEMMA RequestKinds ==
    ASSUME NEW r \in AllRequests
    PROVE  /\ r.kind \in {"none", "add", "capture", "update", "delete"}
           /\ r.id \in Ids \cup {None}
           /\ r.kind \in {"add", "capture"} =>
                  r.formats \in Lists /\ r = [kind |-> r.kind, id |-> r.id, formats |-> r.formats]
           /\ r.kind = "update" =>
                  /\ r.id \in Ids /\ r.update \in Updates
                  /\ r = [kind |-> "update", id |-> r.id, update |-> r.update]
           /\ r.kind = "delete" => r.id \in Ids /\ r = [kind |-> "delete", id |-> r.id]
BY DEF AllRequests, NoRequest

\* What an update has to do: the mimes to remove, then those to set.
LEMMA CallsOfUpdate ==
    ASSUME NEW u \in Updates
    PROVE  /\ u[1] \in Seq(Mimes) /\ u[2] \in Seq(Mimes)
           /\ u[1] \o u[2] \in Seq(Mimes)
           /\ CallsOf(u) \in Seq(Calls)
           /\ Len(CallsOf(u)) = Len(u[1]) + Len(u[2])
           /\ Len(u[1] \o u[2]) = Len(u[1]) + Len(u[2])
           /\ \A k \in 1 .. Len(u[1]) : CallsOf(u)[k] = <<"remove", u[1][k]>>
           /\ \A k \in 1 .. Len(u[2]) : CallsOf(u)[Len(u[1]) + k] = <<"set", u[2][k]>>
           /\ \A k \in 1 .. Len(CallsOf(u)) : CallsOf(u)[k][2] = (u[1] \o u[2])[k]
<1> DEFINE removes == [k \in DOMAIN u[1] |-> <<"remove", u[1][k]>>]
           sets == [k \in DOMAIN u[2] |-> <<"set", u[2][k]>>]
<1>1. u[1] \in Seq(Mimes) /\ u[2] \in Seq(Mimes)
  BY MimeAssumption
<1>2. /\ DOMAIN u[1] = 1 .. Len(u[1]) /\ Len(u[1]) \in Nat
      /\ DOMAIN u[2] = 1 .. Len(u[2]) /\ Len(u[2]) \in Nat
      /\ \A k \in 1 .. Len(u[1]) : u[1][k] \in Mimes
      /\ \A k \in 1 .. Len(u[2]) : u[2][k] \in Mimes
  BY <1>1
<1>3. removes \in Seq(Calls) /\ Len(removes) = Len(u[1])
  BY <1>2, IsASeq DEF Calls
<1>4. sets \in Seq(Calls) /\ Len(sets) = Len(u[2])
  BY <1>2, IsASeq DEF Calls
<1>5. CallsOf(u) = removes \o sets
  BY DEF CallsOf
<1> HIDE DEF removes, sets
<1>6. /\ removes \o sets \in Seq(Calls)
      /\ Len(removes \o sets) = Len(removes) + Len(sets)
      /\ \A k \in 1 .. Len(removes) + Len(sets) : (removes \o sets)[k] =
             IF k <= Len(removes) THEN removes[k] ELSE sets[k - Len(removes)]
  BY <1>3, <1>4, ConcatProperties
<1>7. /\ u[1] \o u[2] \in Seq(Mimes)
      /\ Len(u[1] \o u[2]) = Len(u[1]) + Len(u[2])
      /\ \A k \in 1 .. Len(u[1]) + Len(u[2]) : (u[1] \o u[2])[k] =
             IF k <= Len(u[1]) THEN u[1][k] ELSE u[2][k - Len(u[1])]
  BY <1>1, ConcatProperties
<1>8. \A k \in 1 .. Len(u[1]) : CallsOf(u)[k] = <<"remove", u[1][k]>>
  <2> TAKE k \in 1 .. Len(u[1])
  <2>1. CallsOf(u)[k] = removes[k]
    BY <1>2, <1>3, <1>4, <1>5, <1>6
  <2> QED
    BY <1>2, <2>1 DEF removes
<1>9. \A k \in 1 .. Len(u[2]) : CallsOf(u)[Len(u[1]) + k] = <<"set", u[2][k]>>
  <2> TAKE k \in 1 .. Len(u[2])
  <2>1. CallsOf(u)[Len(u[1]) + k] = sets[k]
    BY <1>2, <1>3, <1>4, <1>5, <1>6
  <2> QED
    BY <1>2, <2>1 DEF sets
<1>10. \A k \in 1 .. Len(u[1]) + Len(u[2]) : CallsOf(u)[k][2] = (u[1] \o u[2])[k]
  <2> TAKE k \in 1 .. Len(u[1]) + Len(u[2])
  <2>1. CASE k <= Len(u[1])
    BY <1>2, <1>7, <1>8, <2>1
  <2>2. CASE k > Len(u[1])
    <3> DEFINE a == Len(u[1])
               b == Len(u[2])
    <3>1. a \in Nat /\ b \in Nat /\ k \in 1 .. a + b /\ k > a
      BY <1>2, <2>2
    <3> HIDE DEF a, b
    <3>2. PICK j \in 1 .. b : k = a + j
      BY <3>1
    <3>3. CallsOf(u)[a + j][2] = u[2][j]
      <4>1. CallsOf(u)[a + j] = <<"set", u[2][j]>>
        BY <1>9 DEF a, b
      <4> QED
        BY <4>1
    <3>4. (u[1] \o u[2])[a + j] = u[2][j]
      <4>1. (u[1] \o u[2])[a + j] = IF a + j <= a THEN u[1][a + j] ELSE u[2][a + j - a]
        BY <1>7, <3>1, <3>2 DEF a, b
      <4> QED
        BY <4>1, <3>1, <3>2
    <3> QED
      BY <3>2, <3>3, <3>4
  <2> QED
    BY <1>2, <2>1, <2>2
<1> QED
  BY <1>1, <1>2, <1>3, <1>4, <1>5, <1>6, <1>7, <1>8, <1>9, <1>10

LEMMA TypedInsert ==
    ASSUME Typed, NEW p \in Senders, req[p].kind \in {"add", "capture"}, Insert(p),
           UNCHANGED <<log, since>>
    PROVE  HistType' /\ ReqType' /\ EventType'
<1> USE DEF Typed
<1>1. PICK i \in Ids \ used :
        /\ used' = used \cup {i}
        /\ hist' = [j \in Items \cup {i} |-> IF j # i THEN hist[j]
                       ELSE [mimes |-> InList(req[p].formats), born |-> Cardinality(used) + 1]]
        /\ req' = [req EXCEPT ![p].id = i]
        /\ due' = [due EXCEPT ![p] = Added(i, req[p].formats)]
  BY DEF Insert, Owe
<1>2. p \in Tasks /\ req[p] \in AllRequests
  BY DEF Tasks, ReqType
<1>3. req[p].formats \in Lists /\ InList(req[p].formats) \in SUBSET Mimes
  BY <1>2, RequestKinds, MimeAssumption DEF InList
<1>4. HistType'
  <2>1. Cardinality(used) + 1 \in 1 .. Cardinality(Ids)
    BY <1>1, NextBorn DEF HistType
  <2> QED
    BY <1>1, <1>3, <2>1 DEF HistType, Items
<1>5. ReqType'
  <2>1. [req[p] EXCEPT !.id = i]
            \in [kind : {"add", "capture"}, id : Ids \cup {None}, formats : Lists]
    BY <1>2, <1>3, RequestKinds
  <2>2. /\ [req[p] EXCEPT !.id = i].id = i /\ [req[p] EXCEPT !.id = i].kind = req[p].kind
        /\ [req[p] EXCEPT !.id = i] \in AllRequests
    BY <2>1, <1>2, RequestKinds DEF AllRequests
  <2>3. req' = [req EXCEPT ![p] = [req[p] EXCEPT !.id = i]]
    BY <1>1
  <2> HIDE DEF Typed
  <2> DEFINE r == [req[p] EXCEPT !.id = i]
  <2> HIDE DEF r
  <2>4. r \in AllRequests /\ r.id = i /\ r.kind = req[p].kind /\ req' = [req EXCEPT ![p] = r]
    BY <2>2, <2>3 DEF r
  <2> QED
    BY <2>4, <1>1, <1>2 DEF ReqType, Typed
<1>6. EventType'
  <2>1. Added(i, req[p].formats) \in EventsOn(Ids) /\ Added(i, req[p].formats).id = i
    BY <1>1, <1>3, MakeEvent DEF Added
  <2> DEFINE e == Added(i, req[p].formats)
  <2> HIDE DEF e
  <2>2. due' = [due EXCEPT ![p] = e] /\ e \in EventsOn(Ids) /\ e.id \in used'
    BY <1>1, <2>1 DEF e
  <2> QED
    BY <1>1, <2>2 DEF EventType
<1> QED
  BY <1>4, <1>5, <1>6

LEMMA TypedChange ==
    ASSUME Typed, Owing, NEW p \in Handlers, ChangeFormat(p), UNCHANGED <<log, since>>
    PROVE  HistType' /\ EventType'
<1> USE DEF Typed
<1> DEFINE i == req[p].id
           m == Head(todo[p])[2]
<1>1. i \in Items /\ p \in Senders /\ p \in Tasks /\ used' = used
  BY DEF ChangeFormat, Missing, Senders, Tasks
<1>2. todo[p] \in Seq(Calls) /\ todo[p] # <<>>
  BY <1>1 DEF TaskType, ChangeFormat
<1>3. m \in Mimes
  BY <1>2 DEF Calls
<1>4. PICK op \in {"set", "remove"} : hist' = [hist EXCEPT ![i].mimes =
                                                 IF op = "set" THEN @ \cup {m} ELSE @ \ {m}]
  BY DEF ChangeFormat
<1>5. due' = [due EXCEPT ![p] = Updated(i, Append(Changed(p), m))]
  BY DEF ChangeFormat, Owe
<1>6. Changed(p) \in Seq(Mimes)
  <2>1. CASE due[p] = None
    BY <2>1 DEF Changed
  <2>2. CASE due[p] # None
    <3>1. due[p].event = "item-updated" /\ due[p] \in EventsOn(Ids)
      BY <1>1, <2>2 DEF Owing, OwesUpdate, ChangeFormat, EventType
    <3> QED
      BY <2>2, <3>1, EventKinds DEF Changed
  <2> QED
    BY <2>1, <2>2
<1> HIDE DEF m
<1>7. HistType'
  BY <1>1, <1>3, <1>4 DEF HistType, Items
<1>8. EventType'
  <2> DEFINE e == Updated(i, Append(Changed(p), m))
  <2>1. Append(Changed(p), m) \in Seq(Mimes)
    BY <1>3, <1>6
  <2>2. i \in Ids /\ i \in used
    BY <1>1 DEF HistType
  <2>3. e \in EventsOn(Ids) /\ e.id \in used
    BY <2>1, <2>2, MakeEvent DEF Updated
  <2> HIDE DEF e
  <2>4. due' = [due EXCEPT ![p] = e] 
    BY <1>5 DEF e
  <2> QED
    BY <1>1, <2>3, <2>4 DEF EventType
<1> QED
  BY <1>7, <1>8

LEMMA TypedRemove ==
    ASSUME Typed, NEW p \in Handlers, RemoveItem(p), UNCHANGED <<log, since>>
    PROVE  HistType' /\ EventType'
<1> USE DEF Typed
<1>1. /\ p \in Senders /\ p \in Tasks /\ used' = used
      /\ req[p].id \in used /\ req[p].id \in Ids
      /\ due' = [due EXCEPT ![p] = Deleted(req[p].id)]
  BY DEF RemoveItem, Missing, Working, Keep, Owe, Senders, Tasks, HistType
<1>2. HistType'
  BY DEF RemoveItem, Keep, HistType, Items
<1>3. EventType'
  <2> DEFINE e == Deleted(req[p].id)
  <2>1. e \in EventsOn(Ids) /\ e.id \in used
    BY <1>1, MakeEvent DEF Deleted
  <2> HIDE DEF e
  <2>2. due' = [due EXCEPT ![p] = e]
    BY <1>1 DEF e
  <2> QED
    BY <1>1, <2>1, <2>2 DEF EventType
<1> QED
  BY <1>2, <1>3

LEMMA TypedPrune ==
    ASSUME Typed, Prune
    PROVE  HistType' /\ used' = used /\ left' \subseteq used /\ pruned' \subseteq used
<1> USE DEF Typed
<1>1. PICK n \in 0 .. Cardinality(Ids) :
        LET old == {i \in Items : hist[i].born <= n} IN
        Keep(Items \ old) /\ left' = left \cup old /\ pruned' = pruned \cup old
  BY DEF Prune
<1> DEFINE old == {i \in Items : hist[i].born <= n}
<1>2. old \subseteq Items
  OBVIOUS
<1>3. Keep(Items \ old) /\ left' = left \cup old /\ pruned' = pruned \cup old
  BY <1>1
<1> HIDE DEF old
<1> QED
  BY <1>2, <1>3 DEF Keep, HistType, Items, RestType

LEMMA TypedRequest ==
    ASSUME Typed, NEW p \in Handlers, Request(p) PROVE Typed'
BY TaskAssumption, BoundAssumption
DEF Typed, HistType, Items, TaskType, Locations, Tasks, Senders, ReqType, EventType, RestType,
    Request, Arrive, Requests, store, cache, AllRequests

LEMMA TypedCapture ==
    ASSUME Typed, Capture PROVE Typed'
BY TaskAssumption, BoundAssumption
DEF Typed, HistType, Items, TaskType, Locations, Tasks, Senders, ReqType, EventType, RestType,
    Capture, Arrive, Requests, store, cache, AllRequests

LEMMA TypedPruneDue ==
    ASSUME Typed, PruneDue PROVE Typed'
BY TaskAssumption, BoundAssumption
DEF Typed, HistType, Items, TaskType, Locations, ReqType, EventType, RestType, PruneDue, store,
    conn, cache

LEMMA TypedUpdateDone ==
    ASSUME Typed, NEW p \in Handlers, UpdateDone(p) PROVE Typed'
BY TaskAssumption, BoundAssumption
DEF Typed, HistType, Items, TaskType, Locations, ReqType, EventType, RestType, UpdateDone,
    Unlock, store, conn, cache

LEMMA TypedNotFound ==
    ASSUME Typed, NEW p \in Handlers, NotFound(p) PROVE Typed'
BY TaskAssumption, BoundAssumption
DEF Typed, HistType, Items, TaskType, Locations, Tasks, Senders, ReqType, EventType, RestType,
    NotFound, Unlock, store, conn, cache

LEMMA TypedCleanup ==
    ASSUME Typed, NEW p \in Handlers, Cleanup(p) PROVE Typed'
BY TaskAssumption, BoundAssumption
DEF Typed, HistType, Items, TaskType, Locations, ReqType, EventType, RestType, Cleanup, store,
    conn

LEMMA TypedRespond ==
    ASSUME Typed, NEW p \in Handlers, Respond(p) PROVE Typed'
BY TaskAssumption, BoundAssumption
DEF Typed, HistType, Items, TaskType, Locations, ReqType, EventType, RestType, Respond, store,
    cache

LEMMA TypedGiveUp ==
    ASSUME Typed, NEW p \in Handlers, GiveUp(p) PROVE Typed'
BY TaskAssumption, BoundAssumption
DEF Typed, HistType, Items, TaskType, ReqType, EventType, RestType, GiveUp, store, cache

LEMMA TypedFinish ==
    ASSUME Typed, NEW p \in Handlers, Finish(p) PROVE Typed'
BY TaskAssumption, BoundAssumption
DEF Typed, HistType, Items, TaskType, ReqType, EventType, RestType, Finish, store

LEMMA TypedWriteThumbnail ==
    ASSUME Typed, WriteThumbnail PROVE Typed'
BY TaskAssumption, BoundAssumption
DEF Typed, HistType, Items, TaskType, ReqType, EventType, RestType, WriteThumbnail, store, conn


LEMMA TypedLock ==
    ASSUME Typed, NEW p \in Tasks, Lock(p) PROVE Typed'
<1> DEFINE calls == IF req[p].kind = "update" THEN CallsOf(req[p].update) ELSE <<>>
<1>1. req[p] \in AllRequests
  BY DEF Typed, ReqType
<1>2. calls \in Seq(Calls)
  <2>1. CASE req[p].kind = "update"
    BY <1>1, <2>1, RequestKinds, CallsOfUpdate
  <2>2. CASE req[p].kind # "update"
    BY <2>2
  <2> QED
    BY <2>1, <2>2
<1>3. todo' = [todo EXCEPT ![p] = calls]
  BY DEF Lock
<1> HIDE DEF calls
<1> QED
  BY <1>2, <1>3
  DEF Typed, HistType, Items, TaskType, Locations, ReqType, EventType, RestType, Lock, store,
      conn, cache

LEMMA TypedMakeThumbnail ==
    ASSUME Typed, Placed, Owing, MakeThumbnail PROVE Typed'
<1>1. req[Consumer].id \in used
  <2>1. Consumer \in Senders /\ due[Consumer].id \in used
    BY DEF Typed, EventType, Owing, OwesAll, MakeThumbnail, Senders
  <2>2. due[Consumer] = Owed(Consumer) /\ req[Consumer].kind = "capture"
    BY <2>1 DEF Owing, OwesAll, Placed, MakeThumbnail
  <2> QED
    BY <2>1, <2>2, OwedEvent DEF Added
<1> QED
  BY <1>1, TaskAssumption
  DEF Typed, HistType, Items, TaskType, Locations, Tasks, Senders, ReqType, EventType, RestType,
      MakeThumbnail, Unlock, store, conn

LEMMA TypedSend ==
    ASSUME Typed, Owing, NEW p \in Senders, Send(p) PROVE Typed'
<1> DEFINE entry == [ev |-> due[p], since |-> since[p]]
<1>1. /\ log \in Seq([ev : EventsOn(Ids), since : Nat])
      /\ due[p] \in EventsOn(Ids) /\ due[p].id \in used
      /\ p \in Tasks /\ since[p] \in Nat /\ since[p] <= Len(log)
  BY DEF Typed, EventType, TaskType, Owing, OwesAll, Send, Tasks, Senders
<1>2. /\ entry \in [ev : EventsOn(Ids), since : Nat]
      /\ entry.ev.id \in used /\ entry.since < Len(log) + 1
      /\ log' = Append(log, entry)
  BY <1>1 DEF Send
<1> HIDE DEF entry
<1>3. /\ log' \in Seq([ev : EventsOn(Ids), since : Nat])
      /\ Len(log') = Len(log) + 1 /\ Len(log) \in Nat
      /\ \A k \in 1 .. Len(log) : log'[k] = log[k]
      /\ log'[Len(log) + 1] = entry
  BY <1>1, <1>2, AppendProperties, LenProperties
<1>4. HistType' /\ TaskType' /\ ReqType' /\ RestType'
  BY <1>1
  DEF Typed, HistType, Items, TaskType, Locations, ReqType, RestType, Send, store, conn, cache
<1>5. EventType'
  <2>1. \A k \in 1 .. Len(log') : log'[k].ev.id \in used' /\ log'[k].since < k
    BY <1>2, <1>3 DEF Typed, EventType, Send, store
  <2>2. \A q \in Tasks : since'[q] <= Len(log')
    BY <1>3 DEF Typed, EventType, TaskType, Send
  <2> QED
    BY <2>1, <2>2, <1>3 DEF Typed, EventType, Send, store
<1> QED
  BY <1>4, <1>5 DEF Typed

LEMMA TypedViewImage ==
    ASSUME Typed, ViewImage PROVE Typed'
BY DEF Typed, HistType, Items, TaskType, ReqType, EventType, RestType, ViewImage, store, conn

LEMMA TypedRunPrune ==
    ASSUME Typed, RunPrune PROVE Typed'
<1>1. HistType' /\ used' = used /\ left' \subseteq used /\ pruned' \subseteq used
  BY TypedPrune DEF RunPrune
<1>2. TaskType' /\ ReqType' /\ EventType' /\ RestType'
  BY <1>1, TaskAssumption
  DEF Typed, TaskType, Locations, Tasks, ReqType, EventType, RestType, RunPrune, Unlock, conn
<1> QED
  BY <1>1, <1>2 DEF Typed

LEMMA TypedPruneBeside ==
    ASSUME Typed, PruneBeside PROVE Typed'
<1>1. HistType' /\ used' = used /\ left' \subseteq used /\ pruned' \subseteq used
  BY TypedPrune DEF PruneBeside
<1>2. TaskType' /\ ReqType' /\ EventType' /\ RestType'
  BY <1>1
  DEF Typed, TaskType, ReqType, EventType, RestType, PruneBeside, conn
<1> QED
  BY <1>1, <1>2 DEF Typed

LEMMA TypedDeleteItem ==
    ASSUME Typed, NEW p \in Handlers, DeleteItem(p) PROVE Typed'
<1>1. HistType' /\ EventType' /\ used' = used
  BY TypedRemove DEF DeleteItem, Unlock, RemoveItem, Keep
<1>2. TaskType' /\ ReqType' /\ RestType'
  BY <1>1, TaskAssumption
  DEF Typed, TaskType, Locations, Tasks, Senders, ReqType, RestType, DeleteItem, Unlock, conn,
      cache
<1> QED
  BY <1>1, <1>2 DEF Typed

LEMMA TypedAddItem ==
    ASSUME Typed, NEW p \in Handlers, AddItem(p) PROVE Typed'
<1>1. HistType' /\ ReqType' /\ EventType' /\ used \subseteq used'
  BY TypedInsert DEF AddItem, Working, Unlock, Insert, Senders
<1>2. TaskType' /\ RestType'
  BY <1>1, TaskAssumption
  DEF Typed, TaskType, Locations, Tasks, Senders, RestType, AddItem, Insert, Unlock, cache
<1> QED
  BY <1>1, <1>2 DEF Typed

LEMMA TypedStoreCaptured ==
    ASSUME Typed, StoreCaptured PROVE Typed'
<1>1. HistType' /\ ReqType' /\ EventType' /\ used \subseteq used'
  BY TypedInsert DEF StoreCaptured, Working, Insert, Senders
<1>2. TaskType' /\ RestType'
  BY <1>1, TaskAssumption
  DEF Typed, TaskType, Locations, RestType, StoreCaptured, Insert, cache
<1> QED
  BY <1>1, <1>2 DEF Typed

LEMMA TypedUpdateFormat ==
    ASSUME Typed, Owing, NEW p \in Handlers, UpdateFormat(p) PROVE Typed'
<1>1. HistType' /\ EventType' /\ used' = used
  BY TypedChange DEF UpdateFormat, ChangeFormat
<1>2. TaskType'
  BY TaskAssumption
  DEF Typed, TaskType, Locations, Tasks, Senders, UpdateFormat, ChangeFormat
<1>3. ReqType' /\ RestType'
  BY <1>1 DEF Typed, ReqType, RestType, UpdateFormat, conn, cache
<1> QED
  BY <1>1, <1>2, <1>3 DEF Typed

LEMMA TypedStoreError ==
    ASSUME Typed, Owing, NEW p \in Tasks, StoreError(p) PROVE Typed'
<1>1. HistType' /\ EventType' /\ used' = used /\ left' \subseteq used
      /\ pruned' \subseteq used
  <2>1. CASE UNCHANGED <<store, due, left, pruned>>
    BY <2>1 DEF Typed, HistType, Items, EventType, RestType, store, StoreError, Unlock
  <2>2. CASE ChangeFormat(p) /\ UNCHANGED <<left, pruned>>
    <3>1. p \in Handlers
      BY <2>2, TaskAssumption DEF ChangeFormat, Working, Typed, ReqType, Tasks, Senders
    <3> QED
      BY <2>2, <3>1, TypedChange DEF ChangeFormat, Typed, RestType, StoreError, Unlock
  <2>3. CASE RemoveItem(p) /\ left' = left \cup {req[p].id} /\ UNCHANGED pruned
    <3>1. p \in Handlers
      BY <2>3, TaskAssumption DEF RemoveItem, Working, Typed, ReqType, Tasks, Senders
    <3>2. req[p].id \in used /\ used' = used
      BY <2>3 DEF RemoveItem, Missing, Working, Keep, Typed, HistType
    <3> QED
      BY <2>3, <3>1, <3>2, TypedRemove DEF Typed, RestType, StoreError, Unlock
  <2>4. CASE p = Pruner /\ Prune /\ UNCHANGED due
    <3>1. HistType' /\ used' = used /\ left' \subseteq used /\ pruned' \subseteq used
      BY <2>4, TypedPrune
    <3> QED
      BY <2>4, <3>1 DEF Typed, EventType, StoreError, Unlock
  <2> QED
    BY <2>1, <2>2, <2>3, <2>4 DEF StoreError
<1>2. TaskType' /\ ReqType' /\ RestType'
  BY <1>1, TaskAssumption, BoundAssumption
  DEF Typed, TaskType, Locations, ReqType, RestType, StoreError, Unlock, conn
<1> QED
  BY <1>1, <1>2 DEF Typed

LEMMA TypedInit == Init => Typed
BY TaskAssumption, BoundAssumption
DEF Init, NoRequest, AllRequests, Typed, HistType, Items, TaskType, Locations, Tasks, Senders,
    ReqType, EventType, RestType


LEMMA OwedSame ==
    ASSUME NEW p, req'[p] = req[p] PROVE Owed(p)' = Owed(p)
BY DEF Owed

LEMMA PhasedRequest ==
    ASSUME Typed, Phased, NEW p \in Handlers, Request(p) PROVE Phased'
BY OwedSame, TaskAssumption
DEF Typed, ReqType, RestType, Tasks, Senders, Phased, LockHeld, Placed, Attended, Owing,
    OwesNothing, OwesUpdate, OwesAll, Working, Request, Arrive, Requests
LEMMA PhasedCapture ==
    ASSUME Typed, Phased, Capture PROVE Phased'
BY OwedSame, TaskAssumption
DEF Typed, ReqType, Tasks, Senders, Phased, LockHeld, Placed, Attended, Owing, OwesNothing,
    OwesUpdate, OwesAll, Working, Capture, Arrive
LEMMA PhasedPruneDue ==
    ASSUME Typed, Phased, PruneDue PROVE Phased'
BY OwedSame, TaskAssumption
DEF Phased, LockHeld, Placed, Attended, Owing, OwesNothing, OwesUpdate, OwesAll,
    Working, PruneDue, conn
LEMMA PhasedLock ==
    ASSUME Typed, Phased, NEW p \in Tasks, Lock(p) PROVE Phased'
BY OwedSame, TaskAssumption
DEF Typed, TaskType, Phased, LockHeld, Placed, Attended, Owing, OwesNothing, OwesUpdate,
    OwesAll, Working, Lock, conn
LEMMA PhasedNotFound ==
    ASSUME Typed, Phased, NEW p \in Handlers, NotFound(p) PROVE Phased'
BY OwedSame, TaskAssumption
DEF Typed, TaskType, Tasks, Senders, Phased, LockHeld, Placed, Attended, Owing, OwesNothing,
    OwesUpdate, OwesAll, Working, NotFound, InCall, Unlock, conn
LEMMA PhasedMakeThumbnail ==
    ASSUME Typed, Phased, MakeThumbnail PROVE Phased'
BY OwedSame, TaskAssumption
DEF Typed, TaskType, Tasks, Senders, Phased, LockHeld, Placed, Attended, Owing, OwesNothing,
    OwesUpdate, OwesAll, Working, MakeThumbnail, Unlock, conn
LEMMA PhasedSend ==
    ASSUME Typed, Phased, NEW p \in Senders, Send(p) PROVE Phased'
BY OwedSame, TaskAssumption
DEF Typed, TaskType, EventType, Tasks, Phased, LockHeld, Placed, Attended, Owing, OwesNothing,
    OwesUpdate, OwesAll, Working, Send, conn
LEMMA PhasedCleanup ==
    ASSUME Typed, Phased, NEW p \in Handlers, Cleanup(p) PROVE Phased'
BY OwedSame, TaskAssumption
DEF Phased, LockHeld, Placed, Attended, Owing, OwesNothing, OwesUpdate, OwesAll,
    Working, Cleanup, conn
LEMMA PhasedRespond ==
    ASSUME Typed, Phased, NEW p \in Handlers, Respond(p) PROVE Phased'
BY OwedSame, TaskAssumption
DEF Typed, TaskType, EventType, Tasks, Senders, Phased, LockHeld, Placed, Attended, Owing,
    OwesNothing, OwesUpdate, OwesAll, Working, Respond
LEMMA PhasedGiveUp ==
    ASSUME Typed, Phased, NEW p \in Handlers, GiveUp(p) PROVE Phased'
BY OwedSame, TaskAssumption
DEF Phased, LockHeld, Placed, Attended, Owing, OwesNothing, OwesUpdate, OwesAll,
    Working, GiveUp
LEMMA PhasedFinish ==
    ASSUME Typed, Phased, NEW p \in Handlers, Finish(p) PROVE Phased'
BY OwedSame, TaskAssumption
DEF Phased, LockHeld, Placed, Attended, Owing, OwesNothing, OwesUpdate, OwesAll,
    Working, Finish
LEMMA PhasedViewImage ==
    ASSUME Typed, Phased, ViewImage PROVE Phased'
BY OwedSame, TaskAssumption
DEF Phased, LockHeld, Placed, Attended, Owing, OwesNothing, OwesUpdate, OwesAll,
    Working, ViewImage, conn
LEMMA PhasedWriteThumbnail ==
    ASSUME Typed, Phased, WriteThumbnail PROVE Phased'
BY OwedSame, TaskAssumption
DEF Phased, LockHeld, Placed, Attended, Owing, OwesNothing, OwesUpdate, OwesAll,
    Working, WriteThumbnail, conn
LEMMA PhasedRunPrune ==
    ASSUME Typed, Phased, RunPrune PROVE Phased'
BY OwedSame, TaskAssumption
DEF Typed, TaskType, Tasks, Senders, Phased, LockHeld, Placed, Attended, Owing, OwesNothing,
    OwesUpdate, OwesAll, Working, RunPrune, Unlock, conn
LEMMA PhasedPruneBeside ==
    ASSUME Typed, Phased, PruneBeside PROVE Phased'
BY OwedSame, TaskAssumption
DEF Phased, LockHeld, Placed, Attended, Owing, OwesNothing, OwesUpdate, OwesAll,
    Working, PruneBeside, conn

LEMMA UpdateOwed ==
    ASSUME Typed, Halfway, Owing, NEW p \in Handlers, Working(p, "update"), todo[p] = <<>>
    PROVE  /\ due[p] # None => due[p] = Owed(p)
           /\ due[p] = None => CallsOf(req[p].update) = <<>>
<1> DEFINE u == req[p].update
<1>1. PICK n \in 0 .. Len(CallsOf(u)) : CallsLeft(p, n) /\ OwedSoFar(p, n)
  BY DEF Halfway, HalfwayOf
<1>2. req[p].kind = "update" /\ u \in Updates /\ p \in Tasks /\ p \in Senders
  BY RequestKinds DEF Working, Typed, ReqType, Tasks, Senders
<1>3. /\ CallsOf(u) \in Seq(Calls) /\ u[1] \o u[2] \in Seq(Mimes)
      /\ Len(u[1] \o u[2]) = Len(CallsOf(u))
      /\ \A k \in 1 .. Len(CallsOf(u)) : CallsOf(u)[k][2] = (u[1] \o u[2])[k]
  BY <1>2, CallsOfUpdate
<1>4. n = Len(CallsOf(u))
  BY <1>1, <1>3 DEF CallsLeft
<1>5. ASSUME due[p] # None PROVE due[p] = Owed(p)
  <2>1. due[p] \in EventsOn(Ids) /\ due[p].event = "item-updated" /\ due[p].id = req[p].id
    BY <1>2, <1>5 DEF Typed, EventType, Owing, OwesUpdate
  <2>2. Changed(p) = due[p].changed /\ due[p].changed \in Seq(Mimes)
    BY <1>5, <2>1, EventKinds DEF Changed
  <2>3. /\ Len(due[p].changed) = n
        /\ \A k \in 1 .. n : due[p].changed[k] = CallsOf(u)[k][2]
    BY <1>1, <2>2 DEF OwedSoFar
  <2>4. due[p].changed = u[1] \o u[2]
    <3>1. /\ Len(due[p].changed) = Len(u[1] \o u[2])
          /\ \A k \in 1 .. Len(due[p].changed) : due[p].changed[k] = (u[1] \o u[2])[k]
      BY <1>3, <1>4, <2>3
    <3> HIDE DEF u
    <3> QED
      BY <1>3, <2>2, <3>1, SeqEqual
  <2> QED
    BY <1>2, <2>1, <2>4, EventKinds, OwedEvent
<1>6. ASSUME due[p] = None PROVE CallsOf(u) = <<>>
  BY <1>1, <1>3, <1>4, <1>6 DEF OwedSoFar
<1> QED
  BY <1>5, <1>6

LEMMA PhasedUpdateDone ==
    ASSUME Typed, Phased, Halfway, NEW p \in Handlers, UpdateDone(p) PROVE Phased'
<1>1. due[p] # None => due[p] = Owed(p)
  BY UpdateOwed DEF UpdateDone, Phased
<1>2. /\ LockHeld' /\ Placed' /\ Attended' /\ OwesNothing' /\ OwesUpdate'
  BY TaskAssumption
  DEF Typed, TaskType, Tasks, Senders, Phased, LockHeld, Placed, Attended, Working, conn, Owing,
      OwesNothing, OwesUpdate, UpdateDone, Unlock
<1>3. OwesAll'
  BY <1>1, OwedSame
  DEF Phased, conn, Owing, OwesAll, UpdateDone, Unlock
<1> QED
  BY <1>2, <1>3 DEF Phased, Owing

LEMMA PhasedDeleteItem ==
    ASSUME Typed, Phased, NEW p \in Handlers, DeleteItem(p) PROVE Phased'
<1>1. /\ LockHeld' /\ Placed' /\ Attended' /\ OwesNothing' /\ OwesUpdate'
  BY TaskAssumption
  DEF Typed, TaskType, Tasks, Senders, Phased, LockHeld, Placed, Attended, Working, conn, Owing,
      OwesNothing, OwesUpdate, DeleteItem, RemoveItem, Owe, Unlock
<1>2. p \in Tasks /\ p \in Senders /\ req[p].kind = "delete" /\ req' = req
  BY DEF Tasks, Senders, DeleteItem, RemoveItem, Working, conn
<1>3. Deleted(req[p].id) = Owed(p)' /\ Deleted(req[p].id) # None
  <2>1. req[p].id \in Ids
    BY <1>2, RequestKinds DEF Typed, ReqType
  <2> QED
    BY <1>2, <2>1, OwedSame, OwedEvent, MakeEvent, EventKinds
<1>4. OwesAll'
  BY <1>2, <1>3, OwedSame
  DEF Typed, EventType, Phased, Owing, OwesAll, DeleteItem, RemoveItem, Owe, Unlock
<1> QED
  BY <1>1, <1>4 DEF Phased, Owing

LEMMA OwedInserted ==
    ASSUME Typed, NEW p \in Senders, req[p].kind \in {"add", "capture"}, Insert(p)
    PROVE  due' = [due EXCEPT ![p] = Owed(p)'] /\ Owed(p)' # None
<1>1. PICK i \in Ids \ used :
        /\ req' = [req EXCEPT ![p].id = i]
        /\ due' = [due EXCEPT ![p] = Added(i, req[p].formats)]
  BY DEF Insert, Owe
<1>2. req[p] \in AllRequests /\ req \in [Tasks -> AllRequests] /\ p \in Tasks
  BY DEF Typed, ReqType, Tasks
<1>3. req'[p].kind = req[p].kind /\ req'[p].id = i /\ req'[p].formats = req[p].formats
  BY <1>1, <1>2, RequestKinds
<1>4. Owed(p)' = Added(i, req[p].formats)
  BY <1>3 DEF Owed
<1> QED
  BY <1>1, <1>2, <1>4, RequestKinds, MakeEvent, EventKinds

LEMMA PhasedAddItem ==
    ASSUME Typed, Phased, NEW p \in Handlers, AddItem(p) PROVE Phased'
<1>1. /\ LockHeld' /\ Placed' /\ Attended' /\ OwesNothing' /\ OwesUpdate'
  BY TaskAssumption
  DEF Typed, TaskType, Tasks, Senders, Phased, LockHeld, Placed, Attended, Working, Owing,
      OwesNothing, OwesUpdate, AddItem, Insert, Owe, Unlock
<1>2. p \in Senders /\ due' = [due EXCEPT ![p] = Owed(p)'] /\ Owed(p)' # None
  BY OwedInserted DEF AddItem, Working, Senders
<1>3. \A q \in Senders \ {p} : Owed(q)' = Owed(q)
  BY OwedSame DEF AddItem, Insert, Typed, ReqType, Tasks
<1>4. OwesAll'
  BY <1>2, <1>3
  DEF Typed, EventType, Phased, Owing, OwesAll, AddItem, Unlock
<1> QED
  BY <1>1, <1>4 DEF Phased, Owing

LEMMA PhasedStoreCaptured ==
    ASSUME Typed, Phased, StoreCaptured PROVE Phased'
<1>1. /\ LockHeld' /\ Placed' /\ Attended' /\ OwesNothing' /\ OwesUpdate'
  BY TaskAssumption
  DEF Typed, TaskType, Tasks, Phased, LockHeld, Placed, Attended, Working, Owing, OwesNothing,
      OwesUpdate, StoreCaptured, Insert, Owe
<1>2. /\ Consumer \in Senders
      /\ due' = [due EXCEPT ![Consumer] = Owed(Consumer)'] /\ Owed(Consumer)' # None
  BY OwedInserted DEF StoreCaptured, Working, Senders
<1>3. \A q \in Senders \ {Consumer} : Owed(q)' = Owed(q)
  BY OwedSame DEF StoreCaptured, Insert, Typed, ReqType, Tasks
<1>4. OwesAll'
  BY <1>2, <1>3
  DEF Typed, EventType, Phased, Owing, OwesAll, StoreCaptured
<1> QED
  BY <1>1, <1>4 DEF Phased, Owing

LEMMA PhasedUpdateFormat ==
    ASSUME Typed, Phased, NEW p \in Handlers, UpdateFormat(p) PROVE Phased'
<1>1. LockHeld' /\ Placed' /\ Attended'
  BY TaskAssumption
  DEF Phased, LockHeld, Placed, Attended, Working, conn, UpdateFormat
<1>2. OwesNothing' /\ OwesUpdate'
  BY TaskAssumption
  DEF Phased, Working, conn, Owing, OwesNothing, OwesUpdate, UpdateFormat,
      ChangeFormat, Owe, Updated
<1>3. OwesAll'
  BY OwedSame, TaskAssumption
  DEF Phased, Working, conn, Owing, OwesAll, UpdateFormat, ChangeFormat, Owe
<1> QED
  BY <1>1, <1>2, <1>3 DEF Phased, Owing

LEMMA PhasedStoreError ==
    ASSUME Typed, Phased, NEW p \in Tasks, StoreError(p) PROVE Phased'
<1>1. LockHeld' /\ Placed' /\ Attended'
  BY TaskAssumption
  DEF Typed, TaskType, Phased, LockHeld, Placed, Attended, Working, conn, StoreError, Unlock
<1>2. OwesNothing' /\ OwesUpdate'
  BY TaskAssumption
  DEF Typed, TaskType, EventType, Senders, Phased, Placed, Working, conn, Owing, OwesNothing,
      OwesUpdate, StoreError, ChangeFormat, RemoveItem, Owe, Unlock, Updated,
      Deleted
<1>3. OwesAll'
  BY OwedSame, TaskAssumption
  DEF Typed, EventType, Phased, conn, Owing, OwesAll, StoreError, ChangeFormat, RemoveItem, Owe,
      Unlock
<1> QED
  BY <1>1, <1>2, <1>3 DEF Phased, Owing

LEMMA PhasedInit == Init => Phased
BY TaskAssumption
DEF Init, Tasks, Senders, Phased, LockHeld, Placed, Attended, Owing, OwesNothing, OwesUpdate,
    OwesAll

-----------------------------------------------------------------------------
(***************************************************************************)
(* What keeps the other layers, whatever the step.                         *)
(***************************************************************************)
\* Nothing that concerns the update of q has changed, unless its item is gone.
Undisturbed(q) ==
    /\ Working(q, "update")
    /\ req'[q] = req[q] /\ todo'[q] = todo[q] /\ due'[q] = due[q]
    /\ req[q].id \in Items' => req[q].id \in Items /\ hist'[req[q].id] = hist[req[q].id]

LEMMA HalfwayKept ==
    ASSUME Halfway,
           \A q \in Handlers : Working(q, "update")' => Undisturbed(q) \/ HalfwayOf(q)'
    PROVE  Halfway'
<1> SUFFICES ASSUME NEW q \in Handlers, Undisturbed(q)
             PROVE  HalfwayOf(q)'
  BY DEF Halfway
<1>1. PICK n \in 0 .. Len(CallsOf(req[q].update)) :
          CallsLeft(q, n) /\ OwedSoFar(q, n) /\ DoneSoFar(q, n)
  BY DEF Halfway, HalfwayOf, Undisturbed
<1>2. CallsLeft(q, n)'
  BY <1>1 DEF CallsLeft, Undisturbed
<1>3. OwedSoFar(q, n)'
  BY <1>1 DEF OwedSoFar, Changed, Undisturbed
<1>4. DoneSoFar(q, n)'
  BY <1>1 DEF DoneSoFar, Undisturbed
<1> QED
  BY <1>1, <1>2, <1>3, <1>4 DEF HalfwayOf, Undisturbed

\* An item may go and a new id may come, but an id does not come back.
NoReturn == used \subseteq used' /\ Items' \cap used \subseteq Items

LEMMA FinalKept ==
    ASSUME Typed, Final, NoReturn, log' = log,
           \A p \in Senders :
               \/ due'[p] = None
               \/ due'[p] = due[p] /\ since'[p] = since[p]
               \/ /\ due'[p].id \in Items \/ due'[p].id \notin used
                  /\ due'[p].event = "item-deleted" => Gone(due[p].id)'
    PROVE  Final'
<1>2. \A j \in 1 .. Len(log') : log'[j].ev.event = "item-deleted" => Gone(log[j].ev.id)'
  BY DEF Final, Gone, NoReturn
<1>3. ASSUME NEW p \in Senders, due'[p] # None
      PROVE  /\ due'[p].event = "item-deleted" => Gone(due[p].id)'
             /\ \A j \in 1 .. Len(log') : log'[j].ev = Deleted(due'[p].id) => since'[p] < j
  <2>1. CASE due'[p] = due[p] /\ since'[p] = since[p]
    BY <1>3, <2>1 DEF Final, Gone, NoReturn
  <2>2. CASE /\ due'[p].id \in Items \/ due'[p].id \notin used
             /\ due'[p].event = "item-deleted" => Gone(due[p].id)'
    <3>1. \A j \in 1 .. Len(log) : log[j].ev # Deleted(due'[p].id)
      <4> SUFFICES ASSUME NEW j \in 1 .. Len(log), log[j].ev = Deleted(due'[p].id)
                   PROVE  FALSE
        OBVIOUS
      <4>1. Gone(due'[p].id)
        BY DEF Final, Deleted
      <4> QED
        BY <2>2, <4>1 DEF Gone
    <3> QED
      BY <2>2, <3>1
  <2> QED
    BY <1>3, <2>1, <2>2
<1> QED
  BY <1>2, <1>3 DEF Final, DeletionIsFinal

\* What a request has achieved stays so.
LEMMA DoneKept ==
    ASSUME Typed, NoReturn, NEW p \in Handlers, Done(p), req'[p] = req[p],
           log' = log \/ \E e \in [ev : EventsOn(Ids), since : Nat] : log' = Append(log, e)
    PROVE  Done(p)'
<1>1. \A k \in DOMAIN log : k \in DOMAIN log' /\ log'[k] = log[k]
  <2>1. CASE log' = log
    BY <2>1
  <2>2. CASE \E e \in [ev : EventsOn(Ids), since : Nat] : log' = Append(log, e)
    BY <2>2 DEF Typed, EventType
  <2> QED
    BY <2>1, <2>2
<1>2. Announced(p) => Announced(p)'
  BY <1>1 DEF Announced
<1>3. Gone(req[p].id) => Gone(req[p].id)'
  BY DEF Gone, NoReturn
<1> QED
  BY <1>2, <1>3 DEF Done, NoReturn

LEMMA TruthfulKept ==
    ASSUME Typed, Truthful, NoReturn, log' = log,
           \A p \in Handlers :
               /\ pc'[p] \in {"cleanup", "ok"} =>
                      req'[p] = req[p] /\ (pc[p] \in {"cleanup", "ok"} \/ Done(p))
               /\ client'[p] = "ok" =>
                      /\ req'[p] = req[p] /\ pc'[p] = "idle" /\ req[p].kind # "none"
                      /\ client[p] = "ok" \/ pc[p] = "ok"
    PROVE  Truthful'
<1> SUFFICES ASSUME NEW p \in Handlers
             PROVE  /\ pc'[p] \in {"cleanup", "ok"} => Done(p)'
                    /\ client'[p] = "ok" => pc'[p] = "idle" /\ req'[p].kind # "none" /\ Done(p)'
  BY DEF Truthful
<1>1. Done(p) /\ req'[p] = req[p] => Done(p)'
  BY DoneKept
<1> QED
  BY <1>1 DEF Truthful


LEMMA AnnouncedOwed ==
    ASSUME NEW p, req'[p].kind \in {"add", "update", "delete"},
           NEW k \in DOMAIN log', log'[k].ev = Owed(p)'
    PROVE  Announced(p)'
BY DEF Announced, Owed

LEMMA HalfwayLock ==
    ASSUME IInv, NEW p \in Handlers, Lock(p), Working(p, "update")' PROVE HalfwayOf(p)'
<1> DEFINE u == req[p].update
<1>1. /\ p \in Tasks /\ p \in Senders /\ req[p].kind = "update"
      /\ req' = req /\ due' = due /\ hist' = hist
  BY DEF Lock, Working, Tasks, Senders, conn, store
<1>2. u \in Updates /\ CallsOf(u) \in Seq(Calls)
  BY <1>1, RequestKinds, CallsOfUpdate DEF IInv, Typed, ReqType
<1>3. todo'[p] = CallsOf(u) /\ due[p] = None
  BY <1>1 DEF Lock, IInv, Typed, TaskType, Phased, Owing, OwesNothing
<1>4. CallsLeft(p, 0)'
  BY <1>1, <1>2, <1>3 DEF CallsLeft
<1>5. OwedSoFar(p, 0)'
  BY <1>1, <1>3 DEF OwedSoFar, Changed
<1>6. DoneSoFar(p, 0)'
  BY DEF DoneSoFar
<1>7. 0 \in 0 .. Len(CallsOf(req'[p].update))
  BY <1>1, <1>2
<1> QED
  BY <1>4, <1>5, <1>6, <1>7 DEF HalfwayOf

LEMMA HalfwayUpdateFormat ==
    ASSUME IInv, NEW p \in Handlers, UpdateFormat(p) PROVE HalfwayOf(p)'
<1> DEFINE u == req[p].update
           i == req[p].id
           calls == CallsOf(u)
           a == Len(u[1])
<1>1. /\ p \in Tasks /\ p \in Senders /\ req[p].kind = "update" /\ req' = req
      /\ todo[p] # <<>> /\ todo[p] \in Seq(Calls) /\ i \in Items
  BY DEF UpdateFormat, ChangeFormat, Missing, Working, Tasks, Senders, conn, IInv, Typed,
         TaskType
<1>2. PICK n \in 0 .. Len(calls) : CallsLeft(p, n) /\ OwedSoFar(p, n) /\ DoneSoFar(p, n)
  BY DEF IInv, Halfway, HalfwayOf, UpdateFormat, ChangeFormat
<1>3. u \in Updates
  BY <1>1, RequestKinds DEF IInv, Typed, ReqType
<1>4. /\ calls \in Seq(Calls) /\ a \in Nat /\ Len(calls) \in Nat
      /\ \A k \in 1 .. Len(calls) : calls[k][1] = IF k <= a THEN "remove" ELSE "set"
  <2>1. /\ calls \in Seq(Calls) /\ a \in Nat /\ Len(u[2]) \in Nat /\ Len(calls) = a + Len(u[2])
        /\ \A k \in 1 .. a : calls[k] = <<"remove", u[1][k]>>
        /\ \A k \in 1 .. Len(u[2]) : calls[a + k] = <<"set", u[2][k]>>
    <3> HIDE DEF u
    <3>1. u[1] \in Seq(Mimes) /\ u[2] \in Seq(Mimes)
      BY <1>3, CallsOfUpdate
    <3>2. a \in Nat /\ Len(u[2]) \in Nat
      BY <3>1
    <3> QED
      BY <1>3, <3>2, CallsOfUpdate, Zenon
  <2> DEFINE b == Len(u[2])
  <2> HIDE DEF calls, a, b, u
  <2>2. ASSUME NEW k \in 1 .. Len(calls) PROVE calls[k][1] = IF k <= a THEN "remove" ELSE "set"
    <3>1. CASE k <= a
      BY <2>1, <3>1
    <3>2. CASE k > a
      <4>1. PICK j \in 1 .. b : k = a + j
        BY <2>1, <3>2 DEF b
      <4>2. calls[a + j] = <<"set", u[2][j]>>
        BY <2>1 DEF b
      <4> QED
        BY <2>1, <3>2, <4>1, <4>2
    <3> QED
      BY <2>1, <3>1, <3>2
  <2> QED
    BY <2>1, <2>2
<1> HIDE DEF calls, a, u
<1>5. /\ n + 1 \in 1 .. Len(calls) /\ n \in Nat
      /\ Head(todo[p]) = calls[n + 1] /\ calls[n + 1] \in Calls
  BY <1>1, <1>2, <1>4 DEF CallsLeft, calls, u
<1> DEFINE op == calls[n + 1][1]
           m == calls[n + 1][2]
<1>6. CallsLeft(p, n + 1)'
  <2>1. todo'[p] = Tail(todo[p])
    BY <1>1 DEF UpdateFormat, IInv, Typed, TaskType
  <2>2. /\ Len(todo'[p]) = Len(todo[p]) - 1 /\ Len(todo[p]) \in Nat
        /\ \A k \in 1 .. Len(todo'[p]) : todo'[p][k] = todo[p][k + 1]
    BY <1>1, <2>1, HeadTailProperties, LenProperties
  <2>3. /\ Len(todo[p]) = Len(calls) - n
        /\ \A k \in 1 .. Len(todo[p]) : todo[p][k] = calls[n + k]
    BY <1>2 DEF CallsLeft, calls, u
  <2>4. Len(todo'[p]) = Len(calls) - (n + 1)
    BY <1>4, <1>5, <2>2, <2>3
  <2>5. \A k \in 1 .. Len(todo'[p]) : todo'[p][k] = calls[n + 1 + k]
    BY <1>4, <1>5, <2>2, <2>3
  <2> QED
    BY <1>1, <2>4, <2>5 DEF CallsLeft, calls, u
<1>7. OwedSoFar(p, n + 1)'
  <2>1. due'[p] = Updated(i, Append(Changed(p), m)) /\ i \in Ids
    BY <1>1, <1>5 DEF UpdateFormat, ChangeFormat, Owe, IInv, Typed, EventType, HistType
  <2>2. Changed(p) \in Seq(Mimes)
    <3>1. CASE due[p] = None
      BY <3>1 DEF Changed
    <3>2. CASE due[p] # None
      BY <1>1, <3>2, EventKinds
      DEF Changed, IInv, Typed, EventType, Phased, Owing, OwesUpdate, UpdateFormat, ChangeFormat
    <3> QED
      BY <3>1, <3>2
  <2>3. Append(Changed(p), m) \in Seq(Mimes)
    BY <1>5, <2>2 DEF Calls
  <2>4. due'[p] # None /\ Changed(p)' = Append(Changed(p), m)
    <3>1. Updated(i, Append(Changed(p), m)) # None
      BY <2>1, <2>3, MakeEvent, EventKinds
    <3> QED
      BY <2>1, <3>1 DEF Changed, Updated
  <2>5. /\ Len(Changed(p)) = n
        /\ \A k \in 1 .. n : Changed(p)[k] = calls[k][2]
    BY <1>2 DEF OwedSoFar, calls, u
  <2>6. /\ Len(Changed(p)') = n + 1
        /\ \A k \in 1 .. n + 1 : Changed(p)'[k] = calls[k][2]
    <3>1. m \in Mimes
      BY <1>5 DEF Calls
    <3> QED
      BY <1>5, <2>2, <2>4, <2>5, <3>1, AppendProperties
  <2> QED
    BY <1>1, <1>5, <2>4, <2>6 DEF OwedSoFar, calls, u
<1>8. DoneSoFar(p, n + 1)'
  <2> DEFINE old == hist[i].mimes
             new == hist'[i].mimes
  <2>1. new = IF op = "set" THEN old \cup {m} ELSE old \ {m}
    <3>1. hist[i] \in [mimes : SUBSET Mimes, born : 1 .. Cardinality(Ids)]
      BY <1>1 DEF IInv, Typed, HistType
    <3>2. hist' = [hist EXCEPT ![i].mimes = IF op = "set" THEN @ \cup {m} ELSE @ \ {m}]
      BY <1>5 DEF UpdateFormat, ChangeFormat
    <3> HIDE DEF i, op, m
    <3> QED
      BY <1>1, <3>1, <3>2 DEF Items
  <2>2. \A k \in 1 .. n :
          /\ calls[k][1] = "set" => calls[k][2] \in old
          /\ calls[k][1] = "remove" /\ calls[k][2] \in old =>
                 \E l \in 1 .. n : calls[l][1] = "set" /\ calls[l][2] = calls[k][2]
    BY <1>1, <1>2 DEF DoneSoFar, calls, u
  <2> HIDE DEF old, new
  <2>3. ASSUME NEW k \in 1 .. n + 1, calls[k][1] = "set" PROVE calls[k][2] \in new
    BY <1>4, <1>5, <2>1, <2>2, <2>3
  <2>4. ASSUME NEW k \in 1 .. n + 1, calls[k][1] = "remove", calls[k][2] \in new
        PROVE  \E l \in 1 .. n + 1 : calls[l][1] = "set" /\ calls[l][2] = calls[k][2]
    BY <1>4, <1>5, <2>1, <2>2, <2>4
  <2> QED
    BY <1>1, <2>3, <2>4 DEF DoneSoFar, calls, u, new
<1> QED
  BY <1>1, <1>5, <1>6, <1>7, <1>8 DEF HalfwayOf, calls, u


LEMMA PruneKeeps ==
    ASSUME Typed, Prune
    PROVE  /\ used' = used /\ Items' \subseteq Items /\ left \subseteq left'
           /\ \A i \in Items' : hist'[i] = hist[i]
           /\ Items \ Items' \subseteq left'
<1>1. PICK n \in 0 .. Cardinality(Ids) :
        LET old == {i \in Items : hist[i].born <= n} IN
        Keep(Items \ old) /\ left' = left \cup old /\ pruned' = pruned \cup old
  BY DEF Prune
<1> DEFINE old == {i \in Items : hist[i].born <= n}
<1>2. Keep(Items \ old) /\ left' = left \cup old
  BY <1>1
<1> HIDE DEF old
<1> QED
  BY <1>2 DEF Keep, Items

LEMMA StepRequest ==
    ASSUME IInv, NEW p \in Handlers, Request(p) PROVE IInv'
<1> USE TaskAssumption DEF IInv
<1>1. Typed' /\ Phased'
  BY TypedRequest, PhasedRequest DEF Phased
<1>2. NoReturn
  BY <1>1 DEF NoReturn, Items, Request, Arrive, store
<1>3. Halfway'
  BY HalfwayKept
  DEF Undisturbed, Working, Items, Request, Arrive, store
<1>4. Final'
  BY <1>2, FinalKept
  DEF Phased, Owing, OwesNothing, Request, Arrive
<1>5. Truthful'
  BY <1>2, TruthfulKept
  DEF Truthful, Request, Arrive
<1>6. TooLate'
  BY <1>2
  DEF TooLate, Items, Request, Arrive, store, cache
<1>7. ThumbnailsAccounted'
  BY <1>2
  DEF ThumbnailsAccounted, Items, Request, Arrive, store, cache
<1> QED
  BY <1>1, <1>3, <1>4, <1>5, <1>6, <1>7

LEMMA StepCapture ==
    ASSUME IInv, Capture PROVE IInv'
<1> USE TaskAssumption DEF IInv
<1>1. Typed' /\ Phased'
  BY TypedCapture, PhasedCapture DEF Phased
<1>2. NoReturn
  BY <1>1 DEF NoReturn, Items, Capture, Arrive, store
<1>3. Halfway'
  BY HalfwayKept
  DEF Undisturbed, Working, Items, Capture, Arrive, store
<1>4. Final'
  BY <1>2, FinalKept
  DEF Phased, Owing, OwesNothing, Capture, Arrive
<1>5. Truthful'
  BY <1>2, TruthfulKept
  DEF Truthful, Capture, Arrive
<1>6. TooLate'
  BY <1>2
  DEF TooLate, Capture, Arrive
<1>7. ThumbnailsAccounted'
  BY <1>2
  DEF ThumbnailsAccounted, Items, Capture, Arrive, store, cache
<1> QED
  BY <1>1, <1>3, <1>4, <1>5, <1>6, <1>7

LEMMA StepPruneDue ==
    ASSUME IInv, PruneDue PROVE IInv'
<1> USE TaskAssumption DEF IInv
<1>1. Typed' /\ Phased'
  BY TypedPruneDue, PhasedPruneDue DEF Phased
<1>2. NoReturn
  BY <1>1 DEF NoReturn, Typed, HistType, Items, PruneDue, store, conn, cache
<1>3. Halfway'
  BY HalfwayKept
  DEF Undisturbed, Working, Items, PruneDue, store, conn
<1>4. Final'
  BY <1>2, FinalKept
  DEF PruneDue
<1>5. Truthful'
  BY <1>2, TruthfulKept
  DEF Truthful, PruneDue, conn
<1>6. TooLate'
  BY <1>2
  DEF TooLate, Items, PruneDue, store, conn, cache
<1>7. ThumbnailsAccounted'
  BY <1>2
  DEF ThumbnailsAccounted, Items, PruneDue, store, conn, cache
<1> QED
  BY <1>1, <1>3, <1>4, <1>5, <1>6, <1>7

LEMMA StepUpdateDone ==
    ASSUME IInv, NEW p \in Handlers, UpdateDone(p) PROVE IInv'
<1> USE TaskAssumption DEF IInv
<1>1. Typed' /\ Phased'
  BY TypedUpdateDone, PhasedUpdateDone DEF Phased
<1>2. NoReturn
  BY <1>1 DEF NoReturn, Items, UpdateDone, store
<1>3. Halfway'
  BY HalfwayKept
  DEF Typed, TaskType, Phased, LockHeld, Tasks, Senders, Working, UpdateDone, Unlock
<1>4. Final'
  BY <1>2, FinalKept
  DEF UpdateDone, Unlock
<1>5. Truthful'
  <2>1. pc'[p] = "ok" => Done(p)
    BY UpdateOwed DEF UpdateDone, Unlock, Done, Working, Phased
  <2> QED
    BY <1>2, <2>1, TruthfulKept
    DEF Truthful, UpdateDone, Working, Unlock, conn
<1>6. TooLate'
  BY <1>2
  DEF TooLate, Items, UpdateDone, Unlock, store, conn, cache
<1>7. ThumbnailsAccounted'
  BY <1>2
  DEF ThumbnailsAccounted, Working, Items, UpdateDone, Unlock, store, conn, cache
<1> QED
  BY <1>1, <1>3, <1>4, <1>5, <1>6, <1>7

LEMMA StepNotFound ==
    ASSUME IInv, NEW p \in Handlers, NotFound(p) PROVE IInv'
<1> USE TaskAssumption DEF IInv
<1>1. Typed' /\ Phased'
  BY TypedNotFound, PhasedNotFound DEF Phased
<1>2. NoReturn
  BY <1>1 DEF NoReturn, Items, NotFound, store
<1>3. Halfway'
  BY HalfwayKept
  DEF Typed, TaskType, Phased, LockHeld, Tasks, Senders, Working, NotFound, InCall, Unlock
<1>4. Final'
  BY <1>2, FinalKept
  DEF NotFound, Unlock
<1>5. Truthful'
  BY <1>2, TruthfulKept
  DEF Truthful, Working, NotFound, InCall, Unlock, conn
<1>6. TooLate'
  BY <1>2
  DEF TooLate, Items, NotFound, Unlock, store, conn, cache
<1>7. ThumbnailsAccounted'
  BY <1>2
  DEF ThumbnailsAccounted, Working, Items, NotFound, InCall, Unlock, store, conn, cache
<1> QED
  BY <1>1, <1>3, <1>4, <1>5, <1>6, <1>7

LEMMA StepMakeThumbnail ==
    ASSUME IInv, MakeThumbnail PROVE IInv'
<1> USE TaskAssumption DEF IInv
<1>1. Typed' /\ Phased'
  BY TypedMakeThumbnail, PhasedMakeThumbnail DEF Phased
<1>2. NoReturn
  BY <1>1 DEF NoReturn, Typed, HistType, Items, MakeThumbnail, Unlock, store, conn
<1>3. Halfway'
  BY HalfwayKept
  DEF Phased, LockHeld, Tasks, Senders, Working, MakeThumbnail, Unlock
<1>4. Final'
  BY <1>2, FinalKept
  DEF MakeThumbnail, Unlock
<1>5. Truthful'
  BY <1>2, TruthfulKept
  DEF Truthful, MakeThumbnail, Unlock, conn
<1>6. TooLate'
  BY <1>2
  DEF TooLate, Items, MakeThumbnail, store, conn
<1>7. ThumbnailsAccounted'
  BY DEF ThumbnailsAccounted, TooLate, Items, MakeThumbnail, Unlock, store, conn
<1> QED
  BY <1>1, <1>3, <1>4, <1>5, <1>6, <1>7

LEMMA StepCleanup ==
    ASSUME IInv, NEW p \in Handlers, Cleanup(p) PROVE IInv'
<1> USE TaskAssumption DEF IInv
<1>1. Typed' /\ Phased'
  BY TypedCleanup, PhasedCleanup DEF Phased
<1>2. NoReturn
  BY <1>1 DEF NoReturn, Typed, HistType, Items, Cleanup, store, conn
<1>3. Halfway'
  BY HalfwayKept
  DEF Undisturbed, Working, Items, Cleanup, store, conn
<1>4. Final'
  BY <1>2, FinalKept
  DEF Cleanup
<1>5. Truthful'
  BY <1>2, TruthfulKept
  DEF Truthful, Cleanup, conn
<1>6. TooLate'
  BY <1>2
  DEF TooLate, Items, Cleanup, store, conn
<1>7. ThumbnailsAccounted'
  BY <1>2
  DEF ThumbnailsAccounted, Items, Cleanup, store, conn
<1> QED
  BY <1>1, <1>3, <1>4, <1>5, <1>6, <1>7

LEMMA StepRespond ==
    ASSUME IInv, NEW p \in Handlers, Respond(p) PROVE IInv'
<1> USE TaskAssumption DEF IInv
<1>1. Typed' /\ Phased'
  BY TypedRespond, PhasedRespond DEF Phased
<1>2. NoReturn
  BY <1>1 DEF NoReturn, Typed, HistType, Items, Respond, store, cache
<1>3. Halfway'
  BY HalfwayKept
  DEF Undisturbed, Working, Items, Respond, store
<1>4. Final'
  BY <1>2, FinalKept
  DEF Respond
<1>5. Truthful'
  BY <1>2, TruthfulKept
  DEF Truthful, Typed, TaskType, Phased, Placed, Tasks, Senders, Respond
<1>6. TooLate'
  BY <1>2
  DEF TooLate, Items, Respond, store, cache
<1>7. ThumbnailsAccounted'
  BY <1>2
  DEF ThumbnailsAccounted, Items, Respond, store, cache
<1> QED
  BY <1>1, <1>3, <1>4, <1>5, <1>6, <1>7

LEMMA StepGiveUp ==
    ASSUME IInv, NEW p \in Handlers, GiveUp(p) PROVE IInv'
<1> USE TaskAssumption DEF IInv
<1>1. Typed' /\ Phased'
  BY TypedGiveUp, PhasedGiveUp DEF Phased
<1>2. NoReturn
  BY <1>1 DEF NoReturn, Typed, HistType, Items, GiveUp, store, cache
<1>3. Halfway'
  BY HalfwayKept
  DEF Undisturbed, Working, Items, GiveUp, store
<1>4. Final'
  BY <1>2, FinalKept
  DEF GiveUp
<1>5. Truthful'
  BY <1>2, TruthfulKept
  DEF Truthful, GiveUp
<1>6. TooLate'
  BY <1>2
  DEF TooLate, Items, GiveUp, store, cache
<1>7. ThumbnailsAccounted'
  BY <1>2
  DEF ThumbnailsAccounted, Items, GiveUp, store, cache
<1> QED
  BY <1>1, <1>3, <1>4, <1>5, <1>6, <1>7

LEMMA StepFinish ==
    ASSUME IInv, NEW p \in Handlers, Finish(p) PROVE IInv'
<1> USE TaskAssumption DEF IInv
<1>1. Typed' /\ Phased'
  BY TypedFinish, PhasedFinish DEF Phased
<1>2. NoReturn
  BY <1>1 DEF NoReturn, Typed, HistType, Items, Finish, store
<1>3. Halfway'
  BY HalfwayKept
  DEF Undisturbed, Working, Items, Finish, store
<1>4. Final'
  BY <1>2, FinalKept
  DEF Finish
<1>5. Truthful'
  BY <1>2, TruthfulKept
  DEF Truthful, Finish
<1>6. TooLate'
  BY <1>2
  DEF TooLate, Items, Finish, store
<1>7. ThumbnailsAccounted'
  BY <1>2
  DEF ThumbnailsAccounted, Items, Finish, store
<1> QED
  BY <1>1, <1>3, <1>4, <1>5, <1>6, <1>7

LEMMA StepViewImage ==
    ASSUME IInv, ViewImage PROVE IInv'
<1> USE TaskAssumption DEF IInv
<1>1. Typed' /\ Phased'
  BY TypedViewImage, PhasedViewImage DEF Phased
<1>2. NoReturn
  BY <1>1 DEF NoReturn, Typed, HistType, Items, ViewImage, store, conn
<1>3. Halfway'
  BY HalfwayKept
  DEF Undisturbed, Working, Items, ViewImage, store, conn
<1>4. Final'
  BY <1>2, FinalKept
  DEF ViewImage
<1>5. Truthful'
  BY <1>2, TruthfulKept
  DEF Truthful, ViewImage, conn
<1>6. TooLate'
  BY <1>2
  DEF TooLate, Items, ViewImage, store, conn
<1>7. ThumbnailsAccounted'
  BY <1>2
  DEF ThumbnailsAccounted, Items, ViewImage, store, conn
<1> QED
  BY <1>1, <1>3, <1>4, <1>5, <1>6, <1>7

LEMMA StepWriteThumbnail ==
    ASSUME IInv, WriteThumbnail PROVE IInv'
<1> USE TaskAssumption DEF IInv
<1>1. Typed' /\ Phased'
  BY TypedWriteThumbnail, PhasedWriteThumbnail DEF Phased
<1>2. NoReturn
  BY <1>1 DEF NoReturn, Typed, HistType, Items, WriteThumbnail, store, conn
<1>3. Halfway'
  BY HalfwayKept
  DEF Undisturbed, Working, Items, WriteThumbnail, store, conn
<1>4. Final'
  BY <1>2, FinalKept
  DEF WriteThumbnail
<1>5. Truthful'
  BY <1>2, TruthfulKept
  DEF Truthful, WriteThumbnail, conn
<1>6. TooLate'
  BY <1>2
  DEF TooLate, Items, WriteThumbnail, store, conn
<1>7. ThumbnailsAccounted'
  BY <1>2
  DEF ThumbnailsAccounted, Items, WriteThumbnail, store, conn
<1> QED
  BY <1>1, <1>3, <1>4, <1>5, <1>6, <1>7

LEMMA StepRunPrune ==
    ASSUME IInv, RunPrune PROVE IInv'
<1> USE TaskAssumption DEF IInv
<1>1. Typed' /\ Phased'
  BY TypedRunPrune, PhasedRunPrune DEF Phased
<1>2. NoReturn
  BY PruneKeeps, <1>1 DEF NoReturn, Typed, HistType, Items, RunPrune, Unlock, conn
<1>3. Halfway'
  BY PruneKeeps, HalfwayKept
  DEF Phased, LockHeld, Tasks, Senders, Working, RunPrune, Unlock
<1>4. Final'
  BY PruneKeeps, <1>2, FinalKept
  DEF RunPrune, Unlock
<1>5. Truthful'
  BY PruneKeeps, <1>2, TruthfulKept
  DEF Truthful, RunPrune, Unlock, conn
<1>6. TooLate'
  BY PruneKeeps, <1>2
  DEF TooLate, RunPrune, Unlock, conn
<1>7. ThumbnailsAccounted'
  BY PruneKeeps, <1>2
  DEF ThumbnailsAccounted, RunPrune, Unlock, conn
<1> QED
  BY <1>1, <1>3, <1>4, <1>5, <1>6, <1>7

LEMMA StepPruneBeside ==
    ASSUME IInv, PruneBeside PROVE IInv'
<1> USE TaskAssumption DEF IInv
<1>1. Typed' /\ Phased'
  BY TypedPruneBeside, PhasedPruneBeside DEF Phased
<1>2. NoReturn
  BY PruneKeeps, <1>1 DEF NoReturn, Typed, HistType, Items, PruneBeside, conn
<1>3. Halfway'
  BY PruneKeeps, HalfwayKept
  DEF Undisturbed, Working, PruneBeside, conn
<1>4. Final'
  BY PruneKeeps, <1>2, FinalKept
  DEF PruneBeside
<1>5. Truthful'
  BY PruneKeeps, <1>2, TruthfulKept
  DEF Truthful, PruneBeside, conn
<1>6. TooLate'
  BY PruneKeeps, <1>2
  DEF TooLate, PruneBeside, conn
<1>7. ThumbnailsAccounted'
  BY PruneKeeps, <1>2
  DEF ThumbnailsAccounted, PruneBeside, conn
<1> QED
  BY <1>1, <1>3, <1>4, <1>5, <1>6, <1>7

LEMMA StepDeleteItem ==
    ASSUME IInv, NEW p \in Handlers, DeleteItem(p) PROVE IInv'
<1> USE TaskAssumption DEF IInv
<1>1. Typed' /\ Phased'
  BY TypedDeleteItem, PhasedDeleteItem DEF Phased
<1>2. NoReturn
  BY <1>1
  DEF NoReturn, Keep, Items, DeleteItem, RemoveItem
<1>3. Halfway'
  BY HalfwayKept
  DEF Phased, LockHeld, Tasks, Senders, Working, DeleteItem, RemoveItem, Unlock, conn
<1>4. Final'
  <2>1. p \in Senders /\ p \in Tasks /\ due' = [due EXCEPT ![p] = Deleted(req[p].id)]
    BY DEF DeleteItem, RemoveItem, Owe, Senders, Tasks
  <2>2. due'[p] = Deleted(req[p].id) /\ \A q \in Senders \ {p} : due'[q] = due[q]
    BY <2>1 DEF Typed, EventType
  <2>3. req[p].id \in Items /\ (req[p].id \in used /\ req[p].id \notin Items)'
    BY DEF DeleteItem, RemoveItem, Missing, Keep, Items, Typed, HistType, conn
  <2> QED
    BY <1>2, <2>2, <2>3, FinalKept DEF Gone, Deleted, DeleteItem, Unlock, conn
<1>5. Truthful'
  BY <1>2, TruthfulKept
  DEF Truthful, Working, DeleteItem, RemoveItem, Unlock, conn
<1>6. TooLate'
  BY <1>2
  DEF TooLate, Phased, LockHeld, Tasks, Senders, Working, DeleteItem, RemoveItem, Unlock
<1>7. ThumbnailsAccounted'
  <2>1. /\ p \in Tasks /\ pc'[p] = "send" /\ req' = req
        /\ req[p] = [kind |-> "delete", id |-> req[p].id]
    BY RequestKinds
    DEF DeleteItem, RemoveItem, Working, Unlock, Typed, TaskType, ReqType, Tasks, Senders, conn
  <2>2. Items' = Items \ {req[p].id} /\ thumbs' = thumbs /\ left' = left
    BY DEF DeleteItem, RemoveItem, Keep, Items, cache
  <2>3. \A q \in Handlers \ {p} : pc'[q] = pc[q]
    BY DEF DeleteItem, Unlock, Typed, TaskType, Tasks, Senders
  <2>4. ~(pc[p] \in {"send", "cleanup"})
    BY DEF DeleteItem, RemoveItem, Working
  <2> QED
    BY <2>1, <2>2, <2>3, <2>4 DEF ThumbnailsAccounted
<1> QED
  BY <1>1, <1>3, <1>4, <1>5, <1>6, <1>7

LEMMA StepAddItem ==
    ASSUME IInv, NEW p \in Handlers, AddItem(p) PROVE IInv'
<1> USE TaskAssumption DEF IInv
<1>1. Typed' /\ Phased'
  BY TypedAddItem, PhasedAddItem DEF Phased
<1>2. NoReturn
  BY <1>1 DEF NoReturn, Items, AddItem, Insert
<1>3. Halfway'
  BY HalfwayKept
  DEF Phased, LockHeld, Tasks, Senders, Working, AddItem, Insert, Unlock
<1>4. Final'
  BY <1>2, FinalKept
  DEF Added, AddItem, Insert, Owe, Unlock
<1>5. Truthful'
  BY <1>2, TruthfulKept
  DEF Truthful, Working, AddItem, Insert, Unlock
<1>6. TooLate'
  BY <1>2
  DEF TooLate, Items, AddItem, Insert, Unlock, cache
<1>7. ThumbnailsAccounted'
  BY <1>2
  DEF ThumbnailsAccounted, Working, Items, AddItem, Insert, Unlock, cache
<1> QED
  BY <1>1, <1>3, <1>4, <1>5, <1>6, <1>7

LEMMA StepStoreCaptured ==
    ASSUME IInv, StoreCaptured PROVE IInv'
<1> USE TaskAssumption DEF IInv
<1>1. Typed' /\ Phased'
  BY TypedStoreCaptured, PhasedStoreCaptured DEF Phased
<1>2. NoReturn
  BY <1>1 DEF NoReturn, Typed, HistType, Items, StoreCaptured, Insert, Owe, cache
<1>3. Halfway'
  BY HalfwayKept
  DEF Phased, LockHeld, Tasks, Senders, Working, StoreCaptured
<1>4. Final'
  BY <1>2, FinalKept
  DEF Added, StoreCaptured, Insert, Owe
<1>5. Truthful'
  BY <1>2, TruthfulKept
  DEF Truthful, StoreCaptured, Insert
<1>6. TooLate'
  BY <1>2
  DEF TooLate, Typed, ReqType, Tasks, Senders, Items, StoreCaptured, Insert
<1>7. ThumbnailsAccounted'
  BY <1>2
  DEF ThumbnailsAccounted, Items, StoreCaptured, Insert, cache
<1> QED
  BY <1>1, <1>3, <1>4, <1>5, <1>6, <1>7


LEMMA StepLock ==
    ASSUME IInv, NEW p \in Tasks, Lock(p) PROVE IInv'
<1> USE TaskAssumption DEF IInv
<1>1. Typed' /\ Phased'
  BY TypedLock, PhasedLock
<1>2. NoReturn
  BY DEF NoReturn, Items, Lock, store
<1>3. Halfway'
  <2>1. ASSUME NEW q \in Handlers, Working(q, "update")', q # p PROVE Undisturbed(q)
    BY <2>1 DEF Undisturbed, Working, Items, Lock, store, conn
  <2>2. p \in Handlers /\ Working(p, "update")' => HalfwayOf(p)'
    BY HalfwayLock
  <2> QED
    BY <2>1, <2>2, HalfwayKept
<1>4. Final'
  BY <1>2, FinalKept DEF Lock
<1>5. Truthful'
  BY <1>2, TruthfulKept
  DEF Truthful, Lock, conn
<1>6. TooLate' /\ ThumbnailsAccounted'
  BY DEF TooLate, ThumbnailsAccounted, Items, Lock, store, conn, cache
<1> QED
  BY <1>1, <1>3, <1>4, <1>5, <1>6

LEMMA StepUpdateFormat ==
    ASSUME IInv, NEW p \in Handlers, UpdateFormat(p) PROVE IInv'
<1> USE TaskAssumption DEF IInv
<1>1. Typed' /\ Phased'
  BY TypedUpdateFormat, PhasedUpdateFormat DEF Phased
<1>2. /\ NoReturn /\ Items' = Items /\ req[p].id \in Items
      /\ due'[p] = Updated(req[p].id, Append(Changed(p), Head(todo[p])[2]))
      /\ \A q \in Senders \ {p} : due'[q] = due[q]
  BY DEF NoReturn, Items, UpdateFormat, ChangeFormat, Missing, Owe, Typed, EventType, Senders
<1>3. Halfway'
  <2>1. \A q \in Handlers : Working(q, "update")' => q = p
    BY <1>1
    DEF Phased, LockHeld, Tasks, Senders, Working, UpdateFormat, ChangeFormat
  <2> QED
    BY <2>1, HalfwayUpdateFormat, HalfwayKept
<1>4. Final'
  BY <1>2, FinalKept DEF Updated, UpdateFormat
<1>5. Truthful'
  BY <1>2, TruthfulKept
  DEF Truthful, UpdateFormat, conn
<1>6. TooLate' /\ ThumbnailsAccounted'
  BY <1>2 DEF TooLate, ThumbnailsAccounted, UpdateFormat, conn, cache
<1> QED
  BY <1>1, <1>3, <1>4, <1>5, <1>6

LEMMA StepSend ==
    ASSUME IInv, NEW p \in Senders, Send(p) PROVE IInv'
<1> USE TaskAssumption DEF IInv
<1> DEFINE entry == [ev |-> due[p], since |-> since[p]]
<1>1. Typed' /\ Phased'
  BY TypedSend, PhasedSend DEF Phased
<1>2. NoReturn /\ Items' = Items /\ used' = used
  BY DEF NoReturn, Items, Send, store
<1>3. Halfway'
  BY HalfwayKept
  DEF Undisturbed, Working, Items, Send, store, conn
<1>4. /\ p \in Tasks /\ due[p] \in EventsOn(Ids) /\ due[p] = Owed(p) /\ due[p].id \in used
      /\ entry \in [ev : EventsOn(Ids), since : Nat]
      /\ log \in Seq([ev : EventsOn(Ids), since : Nat])
  BY DEF Typed, EventType, TaskType, Phased, Owing, OwesAll, Tasks, Send
<1>5. /\ log' = Append(log, entry) /\ Len(log') = Len(log) + 1 /\ Len(log) \in Nat
      /\ \A k \in 1 .. Len(log) : log'[k] = log[k]
      /\ log'[Len(log) + 1].ev = due[p] /\ log'[Len(log) + 1].since = since[p]
      /\ Len(log) + 1 \in DOMAIN log'
  BY <1>4, AppendProperties, LenProperties DEF Send
<1> HIDE DEF entry
<1>6. Final'
  <2>1. \A j \in 1 .. Len(log') : log'[j].ev.event = "item-deleted" => Gone(log[j].ev.id)'
    <3> SUFFICES ASSUME NEW j \in 1 .. Len(log'), log'[j].ev.event = "item-deleted"
                 PROVE  log'[j].ev.id \in used \ Items
      BY <1>2 DEF Gone
    <3>1. CASE j = Len(log) + 1
      BY <1>4, <1>5, <3>1, EventKinds DEF Final, Gone
    <3>2. CASE j \in 1 .. Len(log)
      BY <1>5, <3>2 DEF Final, Gone
    <3> QED
      BY <1>5, <3>1, <3>2
  <2>2. ASSUME NEW q \in Senders, due'[q] # None
        PROVE  /\ q # p /\ due'[q] = due[q] /\ since'[q] = since[q] /\ since[q] <= Len(log)
               /\ since[q] \in Nat
    BY <2>2 DEF Send, Typed, EventType, TaskType, Tasks, Senders
  <2>3. ASSUME NEW q \in Senders, due'[q] # None, NEW j \in 1 .. Len(log'),
               log'[j].ev = Deleted(due'[q].id)
        PROVE  since'[q] < j
    <3>1. CASE j = Len(log) + 1
      BY <1>5, <2>2, <2>3, <3>1
    <3>2. CASE j \in 1 .. Len(log)
      BY <1>5, <2>2, <2>3, <3>2 DEF Final
    <3> QED
      BY <1>5, <3>1, <3>2
  <2>4. ASSUME NEW j \in DOMAIN log', NEW k \in DOMAIN log', j < k,
               log'[j].ev = Deleted(log'[k].ev.id)
        PROVE  log'[k].since < j
    <3>1. j \in 1 .. Len(log) /\ j \in DOMAIN log
      BY <1>4, <1>5, <2>4
    <3>2. CASE k = Len(log) + 1
      <4>1. log[j].ev = Deleted(due[p].id) /\ log'[k].since = since[p]
        BY <1>5, <2>4, <3>1, <3>2
      <4>2. due[p] # None
        BY <1>4, EventKinds
      <4> QED
        BY <3>1, <4>1, <4>2 DEF Final
    <3>3. CASE k \in 1 .. Len(log)
      BY <1>4, <1>5, <2>4, <3>1, <3>3 DEF Final, DeletionIsFinal
    <3> QED
      BY <1>5, <2>4, <3>2, <3>3
  <2> QED
    BY <1>2, <2>1, <2>2, <2>3, <2>4 DEF Final, Gone, DeletionIsFinal
<1>7. Truthful'
  <2>1. ASSUME NEW q \in Handlers, Done(q) PROVE Done(q)'
    BY <1>2, <1>4, <1>5, <2>1, DoneKept DEF Send, conn
  <2>2. ASSUME p \in Handlers PROVE Done(p)'
    <3>1. /\ req' = req /\ req[p] \in AllRequests
          /\ req[p].kind \in {"add", "update", "delete"}
      BY <2>2, <1>4 DEF Send, conn, Typed, ReqType, Phased, Placed
    <3>2. Announced(p)'
      BY <1>4, <1>5, <3>1, OwedSame, AnnouncedOwed
    <3>3. req[p].kind = "add" => req[p].id \in used
      BY <1>4, OwedEvent DEF Added
    <3>4. req[p].kind = "delete" => Gone(req[p].id)
      BY <1>4, OwedEvent, EventKinds DEF Final, Deleted
    <3> QED
      BY <1>2, <3>1, <3>2, <3>3, <3>4 DEF Done, Gone
  <2> QED
    BY <1>4, <2>1, <2>2
    DEF Truthful, Send, conn
<1>8. TooLate' /\ ThumbnailsAccounted'
  BY <1>2
  DEF TooLate, ThumbnailsAccounted, Send, conn, cache
<1> QED
  BY <1>1, <1>3, <1>6, <1>7, <1>8

LEMMA StepStoreError ==
    ASSUME IInv, NEW p \in Tasks, StoreError(p) PROVE IInv'
<1> USE TaskAssumption DEF IInv
<1>1. Typed' /\ Phased'
  BY TypedStoreError, PhasedStoreError DEF Phased
<1>2. /\ req' = req /\ client' = client /\ log' = log /\ since' = since /\ thumbs' = thumbs
      /\ pc' = [pc EXCEPT ![p] = IF p \in Handlers THEN "error" ELSE "idle"] /\ pc[p] = "work"
      /\ todo' = [todo EXCEPT ![p] = <<>>]
  BY DEF StoreError, Unlock, conn
\* What becomes of the store, and of what p owes.
<1>3. /\ used' = used /\ Items' \subseteq Items /\ left \subseteq left'
      /\ Items \ Items' \subseteq left'
      /\ \A i \in Items' : hist'[i] = hist[i] \/ p \in Handlers
      /\ \A q \in Senders \ {p} : due'[q] = due[q]
      /\ p \in Senders =>
             \/ due'[p] = due[p]
             \/ due'[p].id \in Items /\ (due'[p].event = "item-deleted" => Gone(due[p].id)')
  <2>1. CASE UNCHANGED <<store, due, left, pruned>>
    BY <2>1 DEF store, Items
  <2>2. CASE ChangeFormat(p) /\ UNCHANGED <<left, pruned>>
    <3>1. p \in Handlers /\ req[p].id \in Items /\ Items' = Items /\ used' = used
      BY <2>2 DEF ChangeFormat, Missing, Working, Typed, ReqType, Items, Tasks, Senders
    <3>2. due' = [due EXCEPT ![p] = Updated(req[p].id, Append(Changed(p), Head(todo[p])[2]))]
      BY <2>2 DEF ChangeFormat, Owe
    <3> QED
      BY <2>2, <3>1, <3>2 DEF Updated, Typed, EventType
  <2>3. CASE RemoveItem(p) /\ left' = left \cup {req[p].id} /\ UNCHANGED pruned
    <3>1. /\ p \in Handlers /\ req[p].id \in Items /\ Items' = Items \ {req[p].id} /\ used' = used
          /\ req[p].id \in used
      BY <2>3
      DEF RemoveItem, Missing, Working, Keep, Typed, ReqType, HistType, Items, Tasks, Senders
    <3>2. due' = [due EXCEPT ![p] = Deleted(req[p].id)]
      BY <2>3 DEF RemoveItem, Owe
    <3> QED
      BY <2>3, <3>1, <3>2 DEF Deleted, Gone, Typed, EventType
  <2>4. CASE p = Pruner /\ Prune /\ UNCHANGED due
    BY <2>4, PruneKeeps
  <2> QED
    BY <2>1, <2>2, <2>3, <2>4 DEF StoreError
<1>4. NoReturn
  BY <1>3 DEF NoReturn
<1>5. Halfway'
  <2>1. \A q \in Handlers : Working(q, "update")' => q # p /\ Working(q, "update")
    BY <1>2 DEF Working, Typed, TaskType
  <2>2. \A q \in Handlers : ~Working(q, "update")'
    BY <1>2, <2>1 DEF Working, Phased, LockHeld, Tasks, Senders
  <2> QED
    BY <2>2, HalfwayKept
<1>6. Final'
  BY <1>2, <1>3, <1>4, FinalKept
<1>7. Truthful'
  BY <1>2, <1>4, TruthfulKept
  DEF Truthful
<1>8. TooLate' /\ ThumbnailsAccounted'
  BY <1>2, <1>3
  DEF TooLate, ThumbnailsAccounted
<1> QED
  BY <1>1, <1>5, <1>6, <1>7, <1>8

LEMMA IInvInit == Init => IInv
<1> SUFFICES ASSUME Init PROVE IInv
  OBVIOUS
<1>1. Typed /\ Phased
  BY TypedInit, PhasedInit
<1>2. Halfway /\ Final /\ Truthful /\ TooLate /\ ThumbnailsAccounted
  BY TaskAssumption
  DEF Init, Halfway, Final, Truthful, TooLate, ThumbnailsAccounted, Working, Tasks, Senders,
      DeletionIsFinal
<1> QED
  BY <1>1, <1>2 DEF IInv

LEMMA IInvNext == IInv /\ [Next]_vars => IInv'
<1> SUFFICES ASSUME IInv, [Next]_vars PROVE IInv'
  OBVIOUS
<1>1. ASSUME NEW p \in Tasks, Work(p) PROVE IInv'
  <2>1. p \in Handlers /\ Handle(p) => IInv'
    BY StepAddItem, StepUpdateFormat, StepUpdateDone, StepDeleteItem, StepNotFound, StepCleanup,
       StepRespond DEF Handle
  <2> QED
    BY <1>1, <2>1, StepLock, StepStoreCaptured, StepMakeThumbnail, StepRunPrune, StepSend,
       StepStoreError DEF Work, Tasks
<1>2. ASSUME NEW p \in Handlers, Request(p) \/ GiveUp(p) \/ Finish(p) PROVE IInv'
  BY <1>2, StepRequest, StepGiveUp, StepFinish
<1>3. ASSUME Capture \/ PruneDue \/ PruneBeside \/ ViewImage \/ WriteThumbnail PROVE IInv'
  BY <1>3, StepCapture, StepPruneDue, StepPruneBeside, StepViewImage, StepWriteThumbnail
<1>4. CASE UNCHANGED vars
  <2> USE <1>4 DEF vars, store, conn, cache
  <2>1. Typed'
    BY DEF IInv, Typed, HistType, Items, TaskType, ReqType, EventType, RestType
  <2>2. Phased'
    BY OwedSame
    DEF IInv, Phased, LockHeld, Placed, Owing, OwesNothing, OwesAll, OwesUpdate,
        Attended, Working
  <2>3. Halfway'
    BY HalfwayKept DEF IInv, Undisturbed, Working, Items
  <2>4. NoReturn
    BY DEF NoReturn, Items
  <2>5. Final' /\ Truthful'
    BY <2>4, FinalKept, TruthfulKept DEF IInv, Truthful
  <2>6. TooLate' /\ ThumbnailsAccounted'
    BY DEF IInv, TooLate, ThumbnailsAccounted, Items
  <2> QED
    BY <2>1, <2>2, <2>3, <2>5, <2>6 DEF IInv
<1> QED
  BY <1>1, <1>2, <1>3, <1>4 DEF Next

LEMMA Invariance == Spec => []IInv
BY IInvInit, IInvNext, PTL DEF Spec

-----------------------------------------------------------------------------
(***************************************************************************)
(* What the invariant says about the daemon.                               *)
(***************************************************************************)
\* The state has its types: items, ids and thumbnails belong together, and an
\* event in the log was called for by a request that had come before it.
THEOREM TypeCorrect == Spec => []TypeOK
<1>1. IInv => TypeOK
  <2> SUFFICES ASSUME IInv PROVE TypeOK
    OBVIOUS
  <2> USE DEF IInv, Typed
  <2>1. ASSUME NEW e \in EventsOn(Ids), e.id \in used PROVE e \in Events
    BY <2>1 DEF Events, EventsOn
  <2>2. due \in [Senders -> Events \cup {None}]
    BY <2>1 DEF EventType
  <2>3. \A k \in DOMAIN log : log[k].ev \in Events /\ log[k].since < k
    <3> SUFFICES ASSUME NEW k \in 1 .. Len(log)
                 PROVE  log[k].ev \in Events /\ log[k].since < k
      OBVIOUS
    <3>1. log[k] \in [ev : EventsOn(Ids), since : Nat]
      BY ElementOfSeq DEF EventType
    <3> QED
      BY <2>1, <3>1 DEF EventType
  <2>4. \A p \in Tasks : req[p].id \in Ids \cup {None}
    BY DEF ReqType, HistType
  <2>5. todo \in [Tasks -> Seq({"set", "remove"} \X Mimes)]
    BY DEF TaskType, Calls
  <2> QED
    BY <2>2, <2>3, <2>4, <2>5 DEF TypeOK, HistType, TaskType, RestType, Locations
<1> QED
  BY <1>1, Invariance, PTL

\* The calls of an update are not mixed with another task's, and none of them
\* is forgotten: after the last one the item is what the request asks for
\* (handle_update, which keeps the mutex over all of them).
THEOREM UpdatesAreWhole == Spec => []UpdateWhole
<1>1. IInv => UpdateWhole
  <2> SUFFICES ASSUME IInv, NEW p \in Handlers, Working(p, "update"), todo[p] = <<>>,
                      req[p].id \in Items
               PROVE  LET u == req[p].update
                          mimes == hist[req[p].id].mimes IN
                      InList(u[2]) \subseteq mimes /\ mimes \cap (InList(u[1]) \ InList(u[2])) = {}
    BY DEF UpdateWhole
  <2> DEFINE u == req[p].update
             mimes == hist[req[p].id].mimes
             calls == CallsOf(u)
  <2>1. u \in Updates
    BY RequestKinds DEF Working, IInv, Typed, ReqType, Tasks, Senders
  <2>2. PICK n \in 0 .. Len(calls) : CallsLeft(p, n) /\ DoneSoFar(p, n)
    BY DEF IInv, Halfway, HalfwayOf
  <2> DEFINE a == Len(u[1])
             b == Len(u[2])
  <2>3. /\ u[1] \in Seq(Mimes) /\ u[2] \in Seq(Mimes) /\ calls \in Seq(Calls)
        /\ Len(calls) = a + b
        /\ \A k \in 1 .. a : calls[k] = <<"remove", u[1][k]>>
        /\ \A k \in 1 .. b : calls[a + k] = <<"set", u[2][k]>>
    BY <2>1, CallsOfUpdate, Zenon
  <2>4. a \in Nat /\ b \in Nat
    BY <2>3
  <2>5. n = a + b
    <3>1. Len(todo[p]) = Len(calls) - n
      BY <2>2 DEF CallsLeft
    <3> HIDE DEF calls, a, b
    <3> QED
      BY <2>3, <2>4, <3>1
  <2> HIDE DEF u, mimes, calls, a, b
  <2>6. \A k \in 1 .. a + b :
          /\ calls[k][1] = "set" => calls[k][2] \in mimes
          /\ calls[k][1] = "remove" /\ calls[k][2] \in mimes =>
                 \E l \in 1 .. a + b : calls[l][1] = "set" /\ calls[l][2] = calls[k][2]
    BY <2>2, <2>5 DEF DoneSoFar, calls, u, mimes
  <2>7. ASSUME NEW k \in 1 .. b PROVE u[2][k] \in mimes
    <3>1. a + k \in 1 .. a + b /\ calls[a + k] = <<"set", u[2][k]>>
      BY <2>3, <2>4
    <3> QED
      BY <2>6, <3>1
  <2>8. ASSUME NEW k \in 1 .. a, u[1][k] \in mimes PROVE \E j \in 1 .. b : u[2][j] = u[1][k]
    <3>1. k \in 1 .. a + b /\ calls[k] = <<"remove", u[1][k]>>
      BY <2>3, <2>4
    <3>2. PICK l \in 1 .. a + b : calls[l][1] = "set" /\ calls[l][2] = u[1][k]
      BY <2>6, <2>8, <3>1
    <3>3. l > a
      BY <2>3, <2>4, <3>2
    <3>4. PICK j \in 1 .. b : l = a + j
      BY <2>4, <3>3
    <3>5. calls[l] = <<"set", u[2][j]>>
      BY <2>3, <3>4
    <3> QED
      BY <3>2, <3>5
  <2>9. InList(u[2]) \subseteq mimes
    BY <2>3, <2>7 DEF InList, b
  <2>10. mimes \cap (InList(u[1]) \ InList(u[2])) = {}
    <3> SUFFICES ASSUME NEW m \in mimes, m \in InList(u[1]) PROVE m \in InList(u[2])
      OBVIOUS
    <3>1. PICK k \in 1 .. a : m = u[1][k]
      BY <2>3 DEF InList, a
    <3>2. PICK j \in 1 .. b : u[2][j] = m
      BY <2>8, <3>1
    <3>3. j \in DOMAIN u[2]
      BY <2>3, <3>2 DEF b
    <3> QED
      BY <3>2, <3>3 DEF InList
  <2> QED
    BY <2>9, <2>10 DEF u, mimes
<1> QED
  BY <1>1, Invariance, PTL

\* After the announcement that an item was deleted, watchers hear of it only
\* what was under way at that time: a request that comes later cannot bring
\* the item back or change it (the mutex, and ids that are never reused).
THEOREM DeletionsAreFinal == Spec => []DeletionIsFinal
<1>1. IInv => DeletionIsFinal
  BY DEF IInv, Final
<1> QED
  BY <1>1, Invariance, PTL

\* An `ok' is true: what was asked for has been done and announced, and stays
\* done at least until the client leaves (the handlers, write_response).
THEOREM AnswersAreTrue == Spec => []OkMeansDone
<1>1. IInv => OkMeansDone
  <2> SUFFICES ASSUME IInv, NEW p \in Handlers, client[p] = "ok"
               PROVE  /\ Announced(p) \/ (req[p].kind = "update" /\ CallsOf(req[p].update) = <<>>)
                      /\ req[p].kind = "add" => req[p].id \in used
                      /\ req[p].kind = "delete" => req[p].id \notin Items
    BY DEF OkMeansDone
  <2> QED
    BY DEF IInv, Truthful, Done, Gone
<1> QED
  BY <1>1, Invariance, PTL

\* A thumbnail without an item is one that somebody is about to remove, or one
\* of those that are known to be left behind (handle_delete, the prune task).
THEOREM ThumbnailsAreAccounted == Spec => []ThumbnailsAccounted
<1>1. IInv => ThumbnailsAccounted
  BY DEF IInv
<1> QED
  BY <1>1, Invariance, PTL


-----------------------------------------------------------------------------
(***************************************************************************)
(* The daemon implements Feed, step by step: a call of the store under the *)
(* mutex is a change, Send the announcement, and everything else stutters. *)
(***************************************************************************)
Shown == [i \in Items |-> hist[i].mimes]
Heard == [k \in DOMAIN log |-> log[k].ev]

Failing == {p \in Handlers : pc[p] = "error"}
Counted == UNCHANGED <<faults, pruned>>

LEMMA FeedStutter ==
    ASSUME UNCHANGED <<hist, due, log>>, Counted, Failing' = Failing PROVE UNCHANGED F!vars
BY DEF F!vars, Items, Failing, Counted

\* Only an error, and the answer that says so, changes who is failing.
LEMMA FailingKept ==
    ASSUME Typed, NEW p \in Tasks, NEW l \in Locations, pc' = [pc EXCEPT ![p] = l],
           pc[p] # "error", l # "error"
    PROVE  Failing' = Failing
BY DEF Failing, Typed, TaskType

LEMMA FailingFrom ==
    ASSUME Typed, NEW p \in Handlers, pc[p] = "work", pc' = [pc EXCEPT ![p] = "error"]
    PROVE  p \notin Failing /\ Failing' = Failing \cup {p}
BY DEF Failing, Typed, TaskType, Tasks, Senders

LEMMA FeedAdd ==
    ASSUME IInv, NEW p \in Senders, pc[p] = "work", req[p].kind \in {"add", "capture"}, Insert(p),
           log' = log, Counted, Failing' = Failing
    PROVE  F!Next
<1>1. PICK i \in Ids \ used :
        /\ hist' = [j \in Items \cup {i} |-> IF j # i THEN hist[j]
                       ELSE [mimes |-> InList(req[p].formats), born |-> Cardinality(used) + 1]]
        /\ due' = [due EXCEPT ![p] = Added(i, req[p].formats)]
  BY DEF Insert, Owe
<1>2. i \notin Items /\ due[p] = None
  BY DEF IInv, Typed, HistType, Phased, Owing, OwesNothing
<1>3. PICK l \in Lists : req[p].formats = l
  BY RequestKinds DEF IInv, Typed, ReqType, Tasks, Senders
<1>4. Shown' = [j \in Items \cup {i} |-> IF j = i THEN InList(l) ELSE Shown[j]]
  BY <1>1, <1>2, <1>3 DEF Shown, Items
<1>5. p \notin Failing
  BY DEF Failing
<1>6. F!Add(p, i, l)
  BY <1>1, <1>2, <1>3, <1>4, <1>5
  DEF F!Add, F!Owe, F!Items, F!InList, F!Added, Added, InList, Shown, Failing, Counted
<1> QED
  BY <1>6 DEF F!Next

LEMMA FeedChange ==
    ASSUME IInv, NEW p \in Handlers, ChangeFormat(p) PROVE F!Edit(p)
<1>1. /\ p \in Senders /\ p \in Tasks /\ req[p].id \in Items /\ req[p].id \in Ids
      /\ todo[p] \in Seq(Calls) /\ todo[p] # <<>>
  BY DEF ChangeFormat, Missing, Senders, Tasks, IInv, Typed, HistType, TaskType
<1>2. PICK i \in Ids : i = req[p].id
  BY <1>1
<1>3. PICK m \in Mimes : m = Head(todo[p])[2]
  BY <1>1 DEF Calls
<1>4. PICK op \in {"set", "remove"} : hist' = [hist EXCEPT ![i].mimes =
                                                 IF op = "set" THEN @ \cup {m} ELSE @ \ {m}]
  BY <1>2, <1>3 DEF ChangeFormat
<1>5. /\ due' = [due EXCEPT ![p] = Updated(i, Append(Changed(p), m))]
      /\ due[p] # None => due[p].event = "item-updated" /\ due[p].id = i
  BY <1>1, <1>2, <1>3 DEF ChangeFormat, Owe, IInv, Phased, Owing, OwesUpdate
<1>6. hist[i] \in [mimes : SUBSET Mimes, born : 1 .. Cardinality(Ids)] /\ i \in Items
  BY <1>1, <1>2 DEF IInv, Typed, HistType
<1>7. Shown' \in {[Shown EXCEPT ![i] = @ \cup {m}], [Shown EXCEPT ![i] = @ \ {m}]}
  BY <1>4, <1>6 DEF Shown, Items
<1>8. CASE due[p] = None
  <2>1. Changed(p) = <<>> /\ Append(<<>>, m) = <<m>>
    BY <1>8 DEF Changed
  <2>2. F!Change(p, i, m)
    BY <1>5, <1>6, <1>7, <1>8, <2>1
    DEF F!Change, F!Owe, F!Items, F!Updated, Updated, Shown
  <2> QED
    BY <2>2 DEF F!Edit
<1>9. CASE due[p] # None
  <2>1. Changed(p) = due[p].changed
    BY <1>9 DEF Changed
  <2>2. F!Change(p, i, m)
    BY <1>5, <1>6, <1>7, <1>9, <2>1
    DEF F!Change, F!Owe, F!Items, F!Updated, Updated, Shown
  <2> QED
    BY <2>2 DEF F!Edit
<1> QED
  BY <1>8, <1>9

LEMMA FeedDelete ==
    ASSUME IInv, NEW p \in Handlers, RemoveItem(p) PROVE F!Edit(p)
<1>1. PICK i \in Ids : i = req[p].id
  BY DEF RemoveItem, Missing, Working, IInv, Typed, HistType
<1>2. /\ p \in Senders /\ p \in Tasks /\ i \in Items
      /\ due[p] = None /\ due' = [due EXCEPT ![p] = Deleted(i)]
      /\ hist' = [j \in Items \ {i} |-> hist[j]]
  BY <1>1
  DEF RemoveItem, Missing, Working, Keep, Owe, Senders, Tasks, IInv, Phased, Owing, OwesNothing
<1>3. Shown' = [j \in Items \ {i} |-> Shown[j]]
  BY <1>2 DEF Shown, Items
<1>4. F!Delete(p, i)
  BY <1>2, <1>3 DEF F!Delete, F!Keep, F!Owe, F!Items, F!Deleted, Deleted, Shown
<1> QED
  BY <1>4 DEF F!Edit

\* While it works, an operation owes nothing yet, or has begun an update.
LEMMA FeedUnderway ==
    ASSUME IInv, NEW p \in Handlers, pc[p] = "work" PROVE F!Underway(p)
<1>1. p \notin Failing /\ p \in Senders
  BY DEF Failing, Senders
<1>2. due[p] # None => due[p].event = "item-updated"
  BY <1>1 DEF IInv, Phased, Owing, OwesNothing, OwesUpdate, Working
<1> QED
  BY <1>1, <1>2 DEF F!Underway, Failing

LEMMA FeedSucceed ==
    ASSUME IInv, NEW p \in Handlers, ChangeFormat(p) \/ RemoveItem(p), log' = log, Counted,
           Failing' = Failing
    PROVE  F!Next
<1>1. F!Edit(p) /\ p \in Senders
  BY FeedChange, FeedDelete DEF Senders
<1>2. F!Underway(p)
  BY FeedUnderway DEF ChangeFormat, RemoveItem, Working
<1>3. F!Succeed(p)
  BY <1>1, <1>2 DEF F!Succeed, Failing, Counted
<1> QED
  BY <1>1, <1>3 DEF F!Next

\* An item or a format that a task looks for and does not find.
LEMMA FeedMissing ==
    ASSUME IInv, NEW p \in Handlers, NotFound(p) PROVE F!Next
<1>1. /\ pc[p] = "work" /\ InCall(p) /\ Missing(p) /\ p \in Senders /\ p \in Tasks
      /\ pc' = [pc EXCEPT ![p] = "error"]
      /\ hist' = hist /\ due' = due /\ log' = log /\ Counted
  BY DEF NotFound, InCall, Working, Unlock, store, cache, Counted, Senders, Tasks
<1>2. p \notin Failing /\ Failing' = Failing \cup {p}
  BY <1>1, FailingFrom DEF IInv
<1>3. ASSUME due[p] # None, due[p].id \in Items PROVE hist[due[p].id].mimes # Mimes
  <2>1. Working(p, "update") /\ todo[p] # <<>> /\ due[p].id = req[p].id
    BY <1>1, <1>3 DEF InCall, Working, IInv, Phased, Owing, OwesNothing, OwesUpdate
  <2>2. todo[p] \in Seq(Calls) /\ Head(todo[p])[2] \notin hist[due[p].id].mimes
    BY <1>1, <1>3, <2>1 DEF Missing, IInv, Typed, TaskType
  <2>3. Head(todo[p])[2] \in Mimes
    BY <2>1, <2>2 DEF Calls
  <2> QED
    BY <2>2, <2>3
<1>4. due[p] # None /\ due[p].id \in DOMAIN Shown => Shown[due[p].id] # Mimes
  BY <1>3 DEF Shown
<1>5. Shown' = Shown /\ Heard' = Heard
  BY <1>1 DEF Shown, Heard, Items
<1>6. F!Missing(p)
  BY <1>1, <1>2, <1>4, <1>5, FeedUnderway DEF F!Missing, F!Items, Shown, Heard, Failing, Counted
<1> QED
  BY <1>1, <1>6 DEF F!Next

LEMMA FeedPrune ==
    ASSUME Prune, due' = due, log' = log, faults \in Nat, faults' \in {faults, faults + 1},
           Failing' = Failing
    PROVE  F!Next
<1>1. PICK n \in 0 .. Cardinality(Ids) :
        LET old == {i \in Items : hist[i].born <= n} IN
        Keep(Items \ old) /\ pruned' = pruned \cup old
  BY DEF Prune
<1> DEFINE old == {i \in Items : hist[i].born <= n}
<1>2. hist' = [i \in Items \ old |-> hist[i]] /\ pruned' = pruned \cup old /\ old \subseteq Items
  BY <1>1 DEF Keep
<1> HIDE DEF old
<1>3. Shown' = [j \in Items \ old |-> Shown[j]] /\ old \in SUBSET DOMAIN Shown /\ DOMAIN Shown = Items
  BY <1>2 DEF Shown, Items
<1>4. Heard' = Heard
  BY DEF Heard
<1>5. F!Prune
  BY <1>2, <1>3, <1>4 DEF F!Prune, F!Keep, F!Items, Shown, Heard, Failing
<1> QED
  BY <1>5 DEF F!Next

LEMMA FeedAnnounce ==
    ASSUME IInv, NEW p \in Senders, Send(p) PROVE F!Next
<1>1. /\ due[p] # None /\ due[p] \in EventsOn(Ids) /\ since[p] \in Nat
      /\ log \in Seq([ev : EventsOn(Ids), since : Nat])
      /\ due' = [due EXCEPT ![p] = None] /\ hist' = hist
  BY DEF Send, store, IInv, Typed, EventType, TaskType, Phased, Owing, OwesAll, Tasks
<1> DEFINE entry == [ev |-> due[p], since |-> since[p]]
<1>2. /\ entry \in [ev : EventsOn(Ids), since : Nat] /\ log' = Append(log, entry)
      /\ entry.ev = due[p]
  BY <1>1 DEF Send
<1> HIDE DEF entry
<1>3. /\ log' \in Seq([ev : EventsOn(Ids), since : Nat])
      /\ Len(log') = Len(log) + 1 /\ Len(log) \in Nat /\ DOMAIN log = 1 .. Len(log)
      /\ DOMAIN log' = 1 .. Len(log) + 1
      /\ \A k \in 1 .. Len(log) : log'[k] = log[k]
      /\ log'[Len(log) + 1] = entry
  BY <1>1, <1>2, AppendProperties, LenProperties
<1>4. \A k \in 1 .. Len(log) : log[k].ev \in EventsOn(Ids)
  <2> TAKE k \in 1 .. Len(log)
  <2>1. log[k] \in [ev : EventsOn(Ids), since : Nat]
    BY <1>1, ElementOfSeq
  <2> QED
    BY <2>1
<1>5. Heard \in Seq(EventsOn(Ids)) /\ Len(Heard) = Len(log)
  BY <1>3, <1>4, IsASeq DEF Heard
<1>6. /\ Append(Heard, due[p]) \in Seq(EventsOn(Ids))
      /\ Len(Append(Heard, due[p])) = Len(log) + 1
      /\ \A k \in 1 .. Len(log) : Append(Heard, due[p])[k] = log[k].ev
      /\ Append(Heard, due[p])[Len(log) + 1] = due[p]
  BY <1>1, <1>3, <1>5, AppendProperties DEF Heard
<1>7. \A k \in 1 .. Len(log) + 1 : log'[k].ev = Append(Heard, due[p])[k]
  BY <1>2, <1>3, <1>6
<1>8. Heard' = Append(Heard, due[p])
  <2>1. Heard' = [k \in 1 .. Len(log) + 1 |-> log'[k].ev]
    BY <1>3 DEF Heard
  <2>2. Append(Heard, due[p]) = [k \in 1 .. Len(log) + 1 |-> Append(Heard, due[p])[k]]
    BY <1>3, <1>6
  <2> QED
    BY <1>7, <2>1, <2>2
<1>9. Shown' = Shown
  BY <1>1 DEF Shown, Items
<1>10. p \notin Failing /\ Failing' = Failing /\ Counted
  <2>1. pc[p] = "send" /\ p \in Tasks /\ Typed /\ Counted
    BY DEF Send, Tasks, IInv, cache, Counted
  <2>2. PICK l \in {"idle", "cleanup", "ok"} : pc' = [pc EXCEPT ![p] = l]
    BY DEF Send
  <2>3. l \in Locations /\ l # "error"
    BY DEF Locations
  <2> QED
    BY <2>1, <2>2, <2>3, FailingKept DEF Failing
<1>11. F!Announce(p)
  BY <1>1, <1>8, <1>9, <1>10 DEF F!Announce, Heard, Shown, Failing, Counted
<1> QED
  BY <1>11 DEF F!Next

LEMMA FeedRespond ==
    ASSUME IInv, NEW p \in Handlers, Respond(p) PROVE F!Next \/ UNCHANGED F!vars
<1>1. /\ p \in Senders /\ p \in Tasks /\ due' = [due EXCEPT ![p] = None]
      /\ hist' = hist /\ log' = log /\ Counted /\ pc' = [pc EXCEPT ![p] = "idle"]
  BY DEF Respond, Senders, Tasks, store, cache, Counted
<1>2. CASE pc[p] = "ok"
  <2>1. due[p] = None
    BY <1>1, <1>2 DEF IInv, Phased, Owing, OwesNothing
  <2>2. due' = due
    BY <1>1, <2>1 DEF IInv, Typed, EventType
  <2>3. Failing' = Failing
    BY <1>1, <1>2, FailingKept DEF IInv, Locations
  <2> QED
    BY <1>1, <2>2, <2>3, FeedStutter
<1>3. CASE pc[p] = "error"
  <2>1. p \in Failing /\ Failing' = Failing \ {p}
    BY <1>1, <1>3 DEF Failing, IInv, Typed, TaskType, Tasks, Senders
  <2>2. Shown' = Shown /\ Heard' = Heard
    BY <1>1 DEF Shown, Heard, Items
  <2>3. F!SayFailed(p)
    BY <1>1, <2>1, <2>2 DEF F!SayFailed, Failing, Shown, Heard, Counted
  <2> QED
    BY <1>1, <2>3 DEF F!Next
<1> QED
  BY <1>2, <1>3 DEF Respond

LEMMA FeedStoreError ==
    ASSUME IInv, NEW p \in Tasks, StoreError(p) PROVE F!Next
<1>1. /\ pc[p] = "work" /\ log' = log /\ faults' = faults + 1 /\ faults \in Nat
      /\ pc' = [pc EXCEPT ![p] = IF p \in Handlers THEN "error" ELSE "idle"]
  BY BoundAssumption DEF StoreError, Unlock, IInv, Typed, RestType
<1>2. CASE p \in Handlers
  <2>1. p \in Senders /\ p \notin Failing /\ Failing' = Failing \cup {p}
    BY <1>1, <1>2, FailingFrom DEF IInv, Senders
  <2>2. F!Underway(p)
    BY <1>1, <1>2, FeedUnderway
  <2>3. pruned' = pruned /\ (UNCHANGED <<store, due>> \/ ChangeFormat(p) \/ RemoveItem(p))
    BY <1>2, TaskAssumption DEF StoreError
  <2>4. F!Edit(p) \/ (Shown' = Shown /\ due' = due)
    BY <1>2, <2>3, FeedChange, FeedDelete DEF Shown, Items, store
  <2>5. Heard' = Heard
    BY <1>1 DEF Heard
  <2>6. F!StoreFails(p)
    BY <1>1, <2>1, <2>2, <2>3, <2>4, <2>5 DEF F!StoreFails, Failing, Shown, Heard
  <2> QED
    BY <2>1, <2>6 DEF F!Next
<1>3. CASE p \notin Handlers
  <2>1. Failing' = Failing
    BY <1>1, <1>3, FailingKept DEF IInv, Locations
  <2>2. ~ChangeFormat(p) /\ ~RemoveItem(p)
    BY <1>3, TaskAssumption
    DEF ChangeFormat, RemoveItem, Working, IInv, Typed, ReqType, Tasks, Senders
  <2>3. CASE UNCHANGED <<store, due, left, pruned>>
    <3>1. Shown' = Shown /\ Heard' = Heard
      BY <1>1, <2>3 DEF Shown, Heard, Items, store
    <3>2. F!CaptureFails
      BY <1>1, <2>1, <2>3, <3>1 DEF F!CaptureFails, Failing, Shown, Heard
    <3> QED
      BY <3>2 DEF F!Next
  <2>4. CASE p = Pruner /\ Prune /\ UNCHANGED due
    BY <1>1, <2>1, <2>4, FeedPrune
  <2> QED
    BY <2>2, <2>3, <2>4 DEF StoreError
<1> QED
  BY <1>2, <1>3

LEMMA FeedInit == Init => F!Init
<1> SUFFICES ASSUME Init PROVE F!Init
  OBVIOUS
<1>1. Shown = <<>> /\ Heard = <<>>
  BY DEF Init, Shown, Heard, Items
<1>2. Failing = {}
  BY DEF Init, Failing, Tasks, Senders
<1> QED
  BY <1>1, <1>2 DEF Init, F!Init, Shown, Heard, Failing

LEMMA FeedNext == IInv /\ [Next]_vars => [F!Next]_(F!vars)
<1> SUFFICES ASSUME IInv, [Next]_vars PROVE F!Next \/ UNCHANGED F!vars
  OBVIOUS
<1> USE DEF Locations
<1>1. ASSUME NEW p \in Handlers, Handle(p) PROVE F!Next \/ UNCHANGED F!vars
  <2>1. p \in Senders /\ p \in Tasks /\ Typed
    BY DEF Senders, Tasks, IInv
  <2>2. CASE AddItem(p)
    <3>1. Failing' = Failing
      BY <2>1, <2>2, FailingKept DEF AddItem, Working, Unlock
    <3> QED
      BY <2>1, <2>2, <3>1, FeedAdd DEF AddItem, Insert, Working, Unlock, cache, Counted
  <2>3. CASE UpdateFormat(p)
    BY <2>3, FeedSucceed DEF UpdateFormat, cache, Counted, Failing
  <2>4. CASE DeleteItem(p)
    <3>1. Failing' = Failing
      BY <2>1, <2>4, FailingKept DEF DeleteItem, RemoveItem, Working, Unlock
    <3> QED
      BY <2>4, <3>1, FeedSucceed DEF DeleteItem, Unlock, cache, Counted
  <2>5. CASE Respond(p)
    BY <2>5, FeedRespond
  <2>6. CASE NotFound(p)
    BY <2>6, FeedMissing
  <2>7. CASE UpdateDone(p)
    <3>1. Failing' = Failing
      BY <2>1, <2>7, FailingKept DEF UpdateDone, Working, Unlock
    <3> QED
      BY <2>7, <3>1, FeedStutter DEF UpdateDone, Unlock, store, cache, Counted
  <2>8. CASE Cleanup(p)
    <3>1. Failing' = Failing
      BY <2>1, <2>8, FailingKept DEF Cleanup
    <3> QED
      BY <2>8, <3>1, FeedStutter DEF Cleanup, store, Counted
  <2> QED
    BY <1>1, <2>2, <2>3, <2>4, <2>5, <2>6, <2>7, <2>8 DEF Handle
<1>2. ASSUME NEW p \in Tasks, Work(p) PROVE F!Next \/ UNCHANGED F!vars
  <2>1. CASE Lock(p)
    <3>1. Failing' = Failing
      BY <2>1, FailingKept DEF Lock, IInv
    <3> QED
      BY <2>1, <3>1, FeedStutter DEF Lock, store, cache, Counted
  <2>2. CASE StoreCaptured
    <3>1. Failing' = Failing
      BY <2>2, FailingKept DEF StoreCaptured, Working, Tasks, Senders, IInv
    <3> QED
      BY <2>2, <3>1, FeedAdd DEF StoreCaptured, Insert, Working, Senders, cache, Counted
  <2>3. CASE MakeThumbnail
    <3>1. Failing' = Failing
      BY <2>3, FailingKept DEF MakeThumbnail, Unlock, Tasks, Senders, IInv
    <3> QED
      BY <2>3, <3>1, FeedStutter DEF MakeThumbnail, Unlock, store, Counted
  <2>4. CASE RunPrune
    <3>1. faults \in Nat
      BY BoundAssumption DEF IInv, Typed, RestType
    <3>2. Failing' = Failing
      BY <2>4, FailingKept DEF RunPrune, Unlock, Tasks, IInv
    <3> QED
      BY <2>4, <3>1, <3>2, FeedPrune DEF RunPrune, Unlock
  <2>5. CASE p # Pruner /\ Send(p)
    BY <2>5, FeedAnnounce DEF Tasks
  <2>6. CASE StoreError(p)
    BY <2>6, FeedStoreError
  <2> QED
    BY <1>1, <1>2, <2>1, <2>2, <2>3, <2>4, <2>5, <2>6 DEF Work
<1>3. ASSUME NEW p \in Handlers, Request(p) PROVE UNCHANGED F!vars
  <2>1. Failing' = Failing
    BY <1>3, FailingKept DEF Request, Arrive, Tasks, Senders, IInv
  <2> QED
    BY <1>3, <2>1, FeedStutter DEF Request, Arrive, store, cache, Counted
<1>4. ASSUME NEW p \in Handlers, GiveUp(p) \/ Finish(p) PROVE UNCHANGED F!vars
  BY <1>4, FeedStutter DEF GiveUp, Finish, store, cache, Counted, Failing
<1>5. CASE Capture
  <2>1. Failing' = Failing
    BY <1>5, FailingKept DEF Capture, Arrive, Tasks, Senders, IInv
  <2> QED
    BY <1>5, <2>1, FeedStutter DEF Capture, Arrive, store, cache, Counted
<1>6. CASE PruneDue
  <2>1. Failing' = Failing
    BY <1>6, FailingKept DEF PruneDue, Tasks, IInv
  <2> QED
    BY <1>6, <2>1, FeedStutter DEF PruneDue, store, cache, Counted
<1>7. CASE ViewImage \/ WriteThumbnail
  BY <1>7, FeedStutter DEF ViewImage, WriteThumbnail, store, Counted, Failing
<1>8. CASE PruneBeside
  <2>1. Failing' = Failing /\ faults \in Nat
    BY <1>8, BoundAssumption DEF PruneBeside, Failing, IInv, Typed, RestType
  <2> QED
    BY <1>8, <2>1, FeedPrune DEF PruneBeside
<1>9. CASE UNCHANGED vars
  BY <1>9, FeedStutter DEF vars, store, cache, Counted, Failing
<1> QED
  BY <1>2, <1>3, <1>4, <1>5, <1>6, <1>7, <1>8, <1>9 DEF Next

\* To a watcher the daemon is a Feed: every change is owed to the watchers and
\* announced as what it was.  What stays without its event is what the retention
\* removed, or what an operation did before it failed, which its client is told;
\* an addition always gets its event, and nothing is announced that has not
\* happened (the safety part of ImplementsFeed; that every event owed is sent
\* in the end is left to TLC).
THEOREM FeedImplemented == Spec => F!Init /\ [][F!Next]_(F!vars)
BY FeedInit, FeedNext, Invariance, PTL DEF Spec

=============================================================================
