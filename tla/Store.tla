------------------------------- MODULE Store -------------------------------
(***************************************************************************)
(* The storage layer of richclip (src/src/store): a SQLite index of items  *)
(* and formats, and beside it a directory of content-addressed blob files. *)
(*                                                                         *)
(* One transaction of the index is atomic, but an operation of the Store   *)
(* is not: the blob files are written before the transaction and removed   *)
(* after its commit.  Every one of those steps is an action here.          *)
(*                                                                         *)
(* Processes are of two sorts.  Tasks run inside the daemon and take the   *)
(* Arc<Mutex<Store>> for the whole of an operation; each of the Clis is a  *)
(* `richclip' command with a Store of its own on the same directory, which *)
(* takes no lock (src/src/bin/richclip.rs, open_store).                    *)
(*                                                                         *)
(* blake3 is taken to be collision free, so a content stands for its hash. *)
(***************************************************************************)
EXTENDS Naturals, Sequences

CONSTANTS
    Ids,        \* the UUIDs that may ever be handed out
    Mimes,
    Contents,   \* blob contents, and their hashes
    Lists,      \* the format lists add_item may be called with
    Tasks,      \* daemon tasks that share the mutex
    Clis,       \* processes that open the store directly
    TaskKinds,  \* operations the tasks call
    CliKinds,   \* operations the direct processes call
    None,
    MaxTime,    \* bound on the clock
    MaxFaults   \* bound on I/O errors and crashes

Procs == Tasks \cup Clis
Kinds == {"add", "set", "remove", "delete", "prune"}
Times == 0 .. MaxTime

ASSUME TimeAssumption == MaxTime \in Nat /\ MaxFaults \in Nat
ASSUME ListAssumption == Lists \subseteq Seq(Mimes \X Contents) \ {<<>>}
ASSUME ProcAssumption == Tasks \cap Clis = {}
ASSUME KindAssumption == TaskKinds \subseteq Kinds /\ CliKinds \subseteq Kinds
ASSUME NoneAssumption == None \notin Contents \cup Procs

Calls == [kind : {"add"}, id : Ids, todo : Lists]
    \cup [kind : {"set"}, id : Ids, mime : Mimes, todo : {<<x>> : x \in Mimes \X Contents}]
    \cup [kind : {"remove"}, id : Ids, mime : Mimes]
    \cup [kind : {"delete"}, id : Ids]
    \cup [kind : {"prune"}, cutoff : Times]
NoCall == [kind |-> "none"]

VARIABLES
    items,      \* ids with a row in `items'
    created, updated,  \* the timestamps of those rows
    formats,    \* formats[i][m]: the blob_hash of row (i, m), or None
    used,       \* ids handed out so far: a UUIDv7 is never handed out again
    files,      \* the state of each blob file
    clock,
    lock,       \* the task that holds the mutex, or None
    pc, op,     \* where each process is, and the call it is executing
    pos,        \* the format of op.todo whose blob comes next
    now,        \* the OffsetDateTime::now_utc() the operation took
    orphans,    \* hashes the committed transaction found unreferenced
    linked,     \* whether the descriptor a process writes to still has a name
    faults,     \* history: I/O errors and crashes so far
    leaked      \* history: unreferenced files no operation will remove

db     == <<items, created, updated, formats>>
local  == <<pc, op, pos, now, orphans>>
vars   == <<db, used, files, clock, lock, local, linked, faults, leaked>>

-----------------------------------------------------------------------------
Referenced(h, fm) == \E i \in Ids, m \in Mimes : fm[i][m] = h
Present(h) == files[h] # "absent"

\* Mutant: the earlier of two formats with one mime stays.
FirstPos(todo, m) == CHOOSE j \in DOMAIN todo :
    todo[j][1] = m /\ \A k \in DOMAIN todo : todo[k][1] = m => j <= k

\* The later of two formats with one mime replaces the earlier (ON CONFLICT).
LastPos(todo, m) == CHOOSE j \in DOMAIN todo :
    todo[j][1] = m /\ \A k \in DOMAIN todo : todo[k][1] = m => k <= j
\* Mutant: the mime is written where the hash belongs.
UpsertedMime(row, todo) == [m \in Mimes |->
    IF \E j \in DOMAIN todo : todo[j][1] = m THEN m ELSE row[m]]
Upserted(row, todo) == [m \in Mimes |->
    IF \E j \in DOMAIN todo : todo[j][1] = m THEN todo[LastPos(todo, m)][2] ELSE row[m]]
NoRows == [m \in Mimes |-> None]

\* Mutant: other references to a hash are not looked for.
Replaced(fm) == {h \in Contents : \E i \in Ids, m \in Mimes :
    formats[i][m] = h /\ fm[i][m] # h}

\* What blob_hash_has_references finds gone: the hashes a transaction unreferences.
Freed(fm) == {h \in Contents : Referenced(h, formats) /\ ~Referenced(h, fm)}

Writes(p) == op[p].kind \in {"add", "set"}
Blob(p) == op[p].todo[pos[p]][2]

\* The files a process has made or found, and has still to reference or remove.
Pending(p) == orphans[p] \cup
    (IF Writes(p) /\ pc[p] # "waiting"
     THEN {op[p].todo[j][2] : j \in 1 .. (IF pc[p] = "write" THEN pos[p] ELSE pos[p] - 1)}
     ELSE {})

\* The processes in G stop, whatever they were doing; the mutex guard is dropped.
Stop(G) ==
    /\ pc' = [p \in Procs |-> IF p \in G THEN "idle" ELSE pc[p]]
    /\ op' = [p \in Procs |-> IF p \in G THEN NoCall ELSE op[p]]
    /\ pos' = [p \in Procs |-> IF p \in G THEN 0 ELSE pos[p]]
    /\ now' = [p \in Procs |-> IF p \in G THEN 0 ELSE now[p]]
    /\ orphans' = [p \in Procs |-> IF p \in G THEN {} ELSE orphans[p]]
    /\ lock' = IF lock \in G THEN None ELSE lock
Return(p) == Stop({p})

\* leaked' when what S holds is given up and the rows are fm.
GiveUp(S, fm) ==
    leaked' = {h \in Contents : h \in leaked \cup S /\ Present(h) /\ ~Referenced(h, fm)}

TypeOK ==
    /\ items \subseteq Ids /\ used \subseteq Ids
    /\ created \in [Ids -> Times] /\ updated \in [Ids -> Times]
    /\ formats \in [Ids -> [Mimes -> Contents \cup {None}]]
    /\ files \in [Contents -> {"absent", "partial", "whole"}]
    /\ clock \in Times /\ faults \in 0 .. MaxFaults
    /\ lock \in Tasks \cup {None}
    /\ pc \in [Procs -> {"idle", "waiting", "check", "open", "write", "commit", "unlink"}]
    /\ op \in [Procs -> Calls \cup {NoCall}]
    /\ pos \in [Procs -> Nat] /\ now \in [Procs -> Times]
    /\ orphans \in [Procs -> SUBSET Contents]
    /\ linked \in [Procs -> BOOLEAN]
    /\ leaked \subseteq Contents

Init ==
    /\ items = {} /\ used = {} /\ leaked = {}
    /\ created = [i \in Ids |-> 0] /\ updated = [i \in Ids |-> 0]
    /\ formats = [i \in Ids |-> NoRows]
    /\ files = [h \in Contents |-> "absent"]
    /\ clock = 0 /\ faults = 0 /\ lock = None
    /\ pc = [p \in Procs |-> "idle"] /\ op = [p \in Procs |-> NoCall]
    /\ pos = [p \in Procs |-> 0] /\ now = [p \in Procs |-> 0]
    /\ orphans = [p \in Procs |-> {}] /\ linked = [p \in Procs |-> FALSE]

-----------------------------------------------------------------------------
(***************************************************************************)
(* Calls.  An add brings its own fresh id, and a prune a cutoff that its   *)
(* caller computed before it asked for the mutex (prune_old_items).        *)
(***************************************************************************)
\* An id somebody can name: not one whose add has yet to return it.
Known(i) == i \in used /\ \A q \in Procs : op[q].kind = "add" => op[q].id # i

Call(p) ==
    /\ pc[p] = "idle"
    /\ \E c \in Calls :
        /\ c.kind \in (IF p \in Tasks THEN TaskKinds ELSE CliKinds)
        /\ c.kind = "add" => c.id \notin used
        /\ c.kind \in {"set", "remove", "delete"} => Known(c.id)
        /\ c.kind = "set" => c.todo[1][1] = c.mime
        /\ c.kind = "prune" => c.cutoff <= clock
        /\ op' = [op EXCEPT ![p] = c]
        /\ used' = IF c.kind = "add" THEN used \cup {c.id} ELSE used
    /\ pc' = [pc EXCEPT ![p] = "waiting"]
    /\ UNCHANGED <<db, files, clock, lock, pos, now, orphans, linked, faults, leaked>>

\* Mutants: the mutex is not waited for; `now' was read some time before.
EnterUnlocked(p) ==
    /\ pc[p] = "waiting"
    /\ lock' = IF p \in Tasks THEN p ELSE lock
    /\ now' = [now EXCEPT ![p] = clock]
    /\ pos' = [pos EXCEPT ![p] = 1]
    /\ pc' = [pc EXCEPT ![p] = IF Writes(p) THEN "check" ELSE "commit"]
    /\ UNCHANGED <<db, used, files, clock, op, orphans, linked, faults, leaked>>
EnterEarlier(p) ==
    /\ pc[p] = "waiting"
    /\ p \in Tasks => lock = None
    /\ lock' = IF p \in Tasks THEN p ELSE lock
    /\ \E t \in 0 .. clock : now' = [now EXCEPT ![p] = t]
    /\ pos' = [pos EXCEPT ![p] = 1]
    /\ pc' = [pc EXCEPT ![p] = IF Writes(p) THEN "check" ELSE "commit"]
    /\ UNCHANGED <<db, used, files, clock, op, orphans, linked, faults, leaked>>

\* The Store method starts: the task has the mutex, and `now' is taken.
Enter(p) ==
    /\ pc[p] = "waiting"
    /\ p \in Tasks => lock = None
    /\ lock' = IF p \in Tasks THEN p ELSE lock
    /\ now' = [now EXCEPT ![p] = clock]
    /\ pos' = [pos EXCEPT ![p] = 1]
    /\ pc' = [pc EXCEPT ![p] = IF Writes(p) THEN "check" ELSE "commit"]
    /\ UNCHANGED <<db, used, files, clock, op, orphans, linked, faults, leaked>>

-----------------------------------------------------------------------------
(***************************************************************************)
(* write_blob, once for every format of the call.                          *)
(***************************************************************************)
Advance(p) ==
    /\ pos' = [pos EXCEPT ![p] = @ + 1]
    /\ pc' = [pc EXCEPT ![p] = IF pos[p] = Len(op[p].todo) THEN "commit" ELSE "check"]

\* path.exists(): a file of that name, in whatever state, is taken as stored.
CheckBlob(p) ==
    /\ pc[p] = "check"
    /\ IF Present(Blob(p)) THEN Advance(p)
                           ELSE pc' = [pc EXCEPT ![p] = "open"] /\ UNCHANGED pos
    /\ UNCHANGED <<db, used, files, clock, lock, op, now, orphans, linked, faults, leaked>>

\* Mutant: a blob that cannot be created is passed over.
OpenBlobIgnored(p) ==
    /\ pc[p] = "open"
    /\ Advance(p)
    /\ UNCHANGED <<db, used, files, clock, lock, op, now, orphans, linked, faults, leaked>>

\* fs::write opens with O_CREAT|O_TRUNC ...
OpenBlob(p) ==
    /\ pc[p] = "open"
    /\ files' = [files EXCEPT ![Blob(p)] = "partial"]
    /\ linked' = [linked EXCEPT ![p] = TRUE]
    /\ pc' = [pc EXCEPT ![p] = "write"]
    /\ UNCHANGED <<db, used, clock, lock, op, pos, now, orphans, faults, leaked>>

\* ... and fills the file it opened, which may have lost its name since.
FillBlob(p) ==
    /\ pc[p] = "write"
    /\ files' = IF linked[p] THEN [files EXCEPT ![Blob(p)] = "whole"] ELSE files
    /\ linked' = [linked EXCEPT ![p] = FALSE]
    /\ Advance(p)
    /\ UNCHANGED <<db, used, clock, lock, op, now, orphans, faults, leaked>>

-----------------------------------------------------------------------------
(***************************************************************************)
(* The transactions.  Each is one step: SQLite serialises writers, and a   *)
(* transaction that fails leaves no trace (see IOError).                   *)
(***************************************************************************)
At(p, kind) == pc[p] = "commit" /\ op[p].kind = kind

\* require_item or delete_format_row finds nothing: NotFound, rolled back.
Missing(p) ==
    \/ op[p].kind \in {"set", "remove", "delete"} /\ op[p].id \notin items
    \/ op[p].kind = "remove" /\ formats[op[p].id][op[p].mime] = None

CommitNothing(p) ==
    /\ pc[p] = "commit" /\ Missing(p)
    /\ Return(p)
    /\ GiveUp(Pending(p), formats)
    /\ UNCHANGED <<db, used, files, clock, linked, faults>>

CommitAdd(p) ==
    /\ At(p, "add")
    /\ LET i == op[p].id IN
        /\ items' = items \cup {i}
        /\ created' = [created EXCEPT ![i] = now[p]]
        /\ updated' = [updated EXCEPT ![i] = now[p]]
        /\ formats' = [formats EXCEPT ![i] = Upserted(NoRows, op[p].todo)]
    /\ Return(p)
    /\ GiveUp(Pending(p), formats')
    /\ UNCHANGED <<used, files, clock, linked, faults>>

\* Commit rows fm, then go on to remove the files they no longer reference.
CommitRows(p, fm) ==
    /\ formats' = fm
    /\ IF Freed(fm) = {}
       THEN Return(p)
       ELSE /\ pc' = [pc EXCEPT ![p] = "unlink"]
            /\ orphans' = [orphans EXCEPT ![p] = Freed(fm)]
            /\ UNCHANGED <<op, pos, now, lock>>
    /\ GiveUp({}, fm)

CommitSet(p) ==
    /\ At(p, "set") /\ ~Missing(p)
    /\ LET i == op[p].id IN
        /\ CommitRows(p, [formats EXCEPT ![i] = Upserted(@, op[p].todo)])
        /\ updated' = [updated EXCEPT ![i] = now[p]]
    /\ UNCHANGED <<items, created, used, files, clock, linked, faults>>

CommitRemove(p) ==
    /\ At(p, "remove") /\ ~Missing(p)
    /\ LET i == op[p].id IN
        /\ CommitRows(p, [formats EXCEPT ![i][op[p].mime] = None])
        /\ updated' = [updated EXCEPT ![i] = now[p]]
    /\ UNCHANGED <<items, created, used, files, clock, linked, faults>>

CommitDelete(p) ==
    /\ At(p, "delete") /\ ~Missing(p)
    /\ items' = items \ {op[p].id}
    /\ CommitRows(p, [formats EXCEPT ![op[p].id] = NoRows])
    /\ UNCHANGED <<created, updated, used, files, clock, linked, faults>>

Expired(cutoff) == {i \in items : created[i] < cutoff}
CommitPrune(p) ==
    /\ At(p, "prune")
    /\ LET old == Expired(op[p].cutoff) IN
        /\ items' = items \ old
        /\ CommitRows(p, [i \in Ids |-> IF i \in old THEN NoRows ELSE formats[i]])
    /\ UNCHANGED <<created, updated, used, files, clock, linked, faults>>

\* Mutants: the loop ends after one blob; the same blob is removed over and over.
UnlinkOne(p) ==
    /\ pc[p] = "unlink"
    /\ \E h \in orphans[p] :
        /\ files' = [files EXCEPT ![h] = "absent"]
        /\ leaked' = leaked \ {h}
    /\ Return(p)
    /\ UNCHANGED <<db, used, clock, linked, faults>>
UnlinkAgain(p) ==
    /\ pc[p] = "unlink"
    /\ \E h \in orphans[p] : files' = [files EXCEPT ![h] = "absent"]
    /\ UNCHANGED <<db, used, clock, lock, local, linked, faults, leaked>>

\* delete_blob, one orphan at a time; a file already gone is no error.  A
\* descriptor open on the file stays open, on a file without a name.
UnlinkBlob(p) ==
    /\ pc[p] = "unlink"
    /\ \E h \in orphans[p] :
        /\ files' = [files EXCEPT ![h] = "absent"]
        /\ leaked' = leaked \ {h}
        /\ linked' = [q \in Procs |-> linked[q] /\ Blob(q) # h]
        /\ IF orphans[p] = {h}
           THEN Return(p)
           ELSE /\ orphans' = [orphans EXCEPT ![p] = @ \ {h}]
                /\ UNCHANGED <<pc, op, pos, now, lock>>
    /\ UNCHANGED <<db, used, clock, faults>>

-----------------------------------------------------------------------------
(***************************************************************************)
(* Failures.                                                               *)
(***************************************************************************)
Fail(G) ==
    /\ faults < MaxFaults
    /\ faults' = faults + 1
    /\ Stop(G)
    /\ linked' = [p \in Procs |-> linked[p] /\ p \notin G]
    /\ GiveUp(UNION {Pending(p) : p \in G}, formats)
    /\ UNCHANGED <<db, used, files, clock>>

\* An I/O or database error leaves the operation through `?': creating or
\* writing a blob, beginning or committing the transaction, removing a blob.
IOError(p) ==
    /\ pc[p] \in {"open", "write", "commit", "unlink"}
    /\ Fail({p})

\* The daemon dies with all its tasks, or a command is killed.
Running(G) == {p \in G : pc[p] # "idle"}
Crash ==
    \/ Running(Tasks) # {} /\ Fail(Tasks)
    \/ \E p \in Running(Clis) : Fail({p})

\* Wall-clock time passes (it is taken never to be set back).
Tick ==
    /\ clock < MaxTime
    /\ clock' = clock + 1
    /\ UNCHANGED <<db, used, files, lock, local, linked, faults, leaked>>

-----------------------------------------------------------------------------
Work(p) ==
    \/ Enter(p)
    \/ CheckBlob(p) \/ OpenBlob(p) \/ FillBlob(p)
    \/ CommitNothing(p) \/ CommitAdd(p) \/ CommitSet(p) \/ CommitRemove(p)
    \/ CommitDelete(p) \/ CommitPrune(p)
    \/ UnlinkBlob(p)

Next ==
    \/ \E p \in Procs : Call(p) \/ Work(p) \/ IOError(p)
    \/ Crash
    \/ Tick

Spec == Init /\ [][Next]_vars

\* A process that can step does; tokio's Mutex is first come, first served, so
\* a task that keeps finding the mutex free in the end gets it.
Fairness == \A p \in Procs : SF_vars(Enter(p)) /\ WF_vars(Work(p))
FairSpec == Spec /\ Fairness

-----------------------------------------------------------------------------
(***************************************************************************)
(* What the store is for.                                                  *)
(***************************************************************************)

\* One process at a time works on the store: the daemon's tasks alone, or one
\* command with no daemon running (docs/richclip.md, "Single writer").
SoleWriter ==
    \/ Clis = {}
    \/ Tasks = {} /\ \A p, q \in Clis : p = q

\* A format row's blob file exists: reading it back cannot find it missing,
\* whatever fails between the writing of a blob and the removal of another.
NoDanglingRow == \A h \in Contents : Referenced(h, formats) => Present(h)

\* As long as nothing failed, it also holds the bytes that were stored.
RowsReadBack ==
    faults = 0 => \A h \in Contents : Referenced(h, formats) => files[h] = "whole"

\* A blob file is there for a row, or for an operation that has yet to commit
\* its row or to remove it, or it is one an operation left for good: add_item
\* with a repeated mime, set_format of a missing item, a failure on the way.
OrphansAccounted ==
    \A h \in Contents : Present(h) =>
        Referenced(h, formats) \/ h \in leaked \/ \E p \in Procs : h \in Pending(p)

\* No operation takes the updated_at of an item back in time.
UpdatedAtMonotone ==
    [][\A i \in items \cap items' : updated'[i] >= updated[i]]_vars

\* The file a row references is never removed (delete_blob's contract).
RemovesOnlyUnreferenced ==
    [][\A h \in Contents : Present(h) /\ ~Present(h)' => ~Referenced(h, formats)]_vars

\* Every operation that is called returns, whoever holds the mutex before it.
EveryCallReturns == \A p \in Procs : pc[p] # "idle" ~> pc[p] = "idle"

-----------------------------------------------------------------------------
(***************************************************************************)
(* Why they hold under SoleWriter: the invariant that is inductive.        *)
(***************************************************************************)
Busy(p) == pc[p] \notin {"idle", "waiting"}

\* A task inside a Store method holds the mutex.
LockHeld == \A p \in Tasks : Busy(p) => lock = p

\* A process storing blobs is at a format of its list; at the end it is past it.
PosInList == \A p \in Procs :
    /\ pc[p] \in {"check", "open", "write"} => Writes(p) /\ pos[p] \in DOMAIN op[p].todo
    /\ pc[p] = "commit" /\ Writes(p) => pos[p] = Len(op[p].todo) + 1

\* The blobs a process has passed are there when it commits their rows, and the
\* file it writes to is the one that stays.
BlobsStored == \A p \in Procs :
    /\ pc[p] \in {"check", "open", "write", "commit"} /\ Writes(p) =>
           \A j \in 1 .. (pos[p] - 1) : Present(op[p].todo[j][2])
    /\ pc[p] = "write" => Present(Blob(p))

\* What a process is about to remove has not been referenced again.
OrphansFree == \A p \in Procs :
    /\ orphans[p] # {} => pc[p] = "unlink"
    /\ \A h \in orphans[p] : ~Referenced(h, formats)

IInv == TypeOK /\ LockHeld /\ PosInList /\ BlobsStored /\ OrphansFree /\ NoDanglingRow

\* No row is ahead of the clock, nor of the time a running operation will write.
TimesBehind ==
    /\ \A p \in Procs : Busy(p) => now[p] <= clock
    /\ \A i \in items :
        updated[i] <= clock /\ \A p \in Procs : Busy(p) => updated[i] <= now[p]

-----------------------------------------------------------------------------
\* What a comment of the code says beyond that; a run of its own refutes it
\* (README, "Findings").

\* The worst an interrupted add_item leaves is an orphan (store/mod.rs:79-81):
\* in particular every row still reads back the bytes that were stored.
WorstCaseIsAnOrphan ==
    \A h \in Contents : Referenced(h, formats) /\ Present(h) => files[h] = "whole"

-----------------------------------------------------------------------------
(***************************************************************************)
(* What Store::decode reads for (i, m): the bytes the row's hash stands    *)
(* for, NotFound if the file is missing, other bytes if it is not whole.   *)
(***************************************************************************)
Decode(i, m) ==
    LET h == formats[i][m] IN
    IF h = None THEN None ELSE IF files[h] = "whole" THEN h ELSE "unreadable"

H == INSTANCE History WITH
    hist <- [i \in items |-> [content |-> [m \in Mimes |-> Decode(i, m)],
                              created |-> created[i], updated |-> updated[i]]]

\* While nothing fails, the steps of an operation look like one: each of them
\* is one change of the history, seen through decode, or no change at all.
ImplementsHistory == H!Spec
=============================================================================
