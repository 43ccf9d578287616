------------------------------ MODULE Commands ------------------------------
(***************************************************************************)
(* One richclip command (bin/richclip.rs) from its arguments to its exit   *)
(* code, while daemons start, stop and crash (Instance) and others - users *)
(* of the daemon, captures, further commands - change the store.           *)
(*                                                                         *)
(* Commands that change something go to the daemon if one answers on the   *)
(* socket and otherwise to the store; the others read the store directly,  *)
(* in several statements.  A change of the store is one step here: how it  *)
(* is made is the subject of Store, what the daemon does with it of        *)
(* Daemon.                                                                 *)
(*                                                                         *)
(* Items are numbers in the order of their ids, which is that of their     *)
(* creation; item k is made at time k.                                     *)
(***************************************************************************)
EXTENDS Instance, Integers, Sequences, SequencesExt, FiniteSetsExt, Ordered

CONSTANTS
    Ids, Mimes, Data,
    OthersData,     \* bound: what the others store
    NoData,         \* stands for: there is no such format
    Asked,          \* the commands that may be given
    Stores,         \* what the store may hold as the command begins
    Now,            \* the clock
    Width, MaxDate, \* the bits of a number of seconds, and the last date there is
    MaxChanges      \* bound: the changes of the store by others

Label == "application/x-richclip-label"
Text == "text/plain"
NoMime == ""
NoId == 0
NoAge == -1

Kinds == {"add", "update", "delete", "restore", "list", "formats", "decode", "inspect"}
Sources == {"file", "stdin", "bad"}

\* The arguments; a command leaves those it does not have at No....  The parser
\* of the arguments sees to it that add has something to set, and decode a mime.
Command == {c \in [kind : Kinds, id : Ids \cup {NoId}, mime : Mimes \cup {NoMime},
                   sets : Seq((Mimes \cup {NoMime}) \X Sources), removes : Seq(Mimes),
                   age : Int, limit : Nat] : /\ c.kind = "add" => c.sets # <<>>
                                             /\ c.kind = "decode" => c.mime # NoMime}

\* The items there are, and the content of each format; only an item has rows.
NoRows == [m \in Mimes |-> NoData]
Contents == {s \in [live : SUBSET Ids, rows : [Ids -> [Mimes -> Data \cup {NoData}]]] :
                \A k \in Ids \ s.live : s.rows[k] = NoRows}

ASSUME IdsAssumption == IsFiniteSet(Ids) /\ Ids = 1 .. Cardinality(Ids)
ASSUME MimesAssumption == {Label, Text} \subseteq Mimes /\ NoMime \notin Mimes
ASSUME DataAssumption ==
    NoData \notin Data /\ OthersData \subseteq Data /\ {"file", "stdin"} \subseteq Data
ASSUME CommandAssumption == Asked \subseteq Command
\* Bound: an id is left for the command.
ASSUME StoresAssumption == Stores \subseteq {s \in Contents : \E k \in Ids : \A j \in s.live : j < k}
ASSUME NumberAssumption == {Now, Width, MaxDate, MaxChanges} \subseteq Nat

VARIABLES
    cmd,            \* the command
    step,           \* what it does next
    exit,           \* its exit code, or Running
    conn, req,      \* the daemon it has connected to, and what has become of the
                    \* request: "none", "sent", or "done" with `answer'
    answer,
    store,          \* what the store holds
    todo,           \* the ids or the changes still to be done
    hold,           \* what the last statement has found
    out,            \* what the command prints
    past,           \* history: what the store has held since the command began
    applied, hit,   \* history: the changes made for the command, and to which items
    changes         \* the changes made by others

commandVars == <<cmd, step, exit, conn, req, answer, store, todo, hold, out, past,
                 applied, hit, changes>>
vars == <<daemonVars, commandVars>>

Running == -1
Panic == 101
NotFound == 2
Failure == 1

-----------------------------------------------------------------------------
(***************************************************************************)
(* Arguments                                                               *)
(***************************************************************************)
\* parse_set_mime
Parses(sets) ==
    /\ \A k \in DOMAIN sets : sets[k][1] # NoMime /\ sets[k][2] # "bad"
    /\ \A j, k \in DOMAIN sets : sets[j][2] = "stdin" /\ sets[k][2] = "stdin" => j = k

\* The checks of the cmd_ functions.
ArgumentsOK(c) ==
    CASE c.kind = "add"    -> Parses(c.sets)
      [] c.kind = "update" -> (c.sets # <<>> \/ c.removes # <<>>) /\ c.id # NoId /\ Parses(c.sets)
      [] c.kind = "delete" -> /\ (c.id = NoId) # (c.age = NoAge)
                              /\ c.mime # NoMime => c.id # NoId /\ c.age = NoAge
      [] c.kind = "list"   -> TRUE
      [] OTHER             -> c.id # NoId

\* delete --older-than goes to the store whether there is a daemon or not.
Prunes(c) == c.kind = "delete" /\ c.age # NoAge
Whole(c) == c.kind = "delete" /\ c.mime = NoMime
Routed(c) == c.kind \in {"add", "update", "delete", "restore"} /\ ~Prunes(c)

\* The changes to an item the command stands for: removes first, then sets.
\* The content of a file, or of the standard input, is called by that name.
RemoveOf(mime) == [op |-> "remove", mime |-> mime, data |-> NoData]
SetTo(mime, data) == [op |-> "set", mime |-> mime, data |-> data]
Edits(c) ==
    IF Whole(c) THEN <<>> ELSE IF c.kind = "delete" THEN <<RemoveOf(c.mime)>>
    ELSE [k \in DOMAIN c.removes |-> RemoveOf(c.removes[k])] \o
         [k \in DOMAIN c.sets |-> SetTo(c.sets[k][1], c.sets[k][2])]

(***************************************************************************)
(* A duration in seconds, as an i64, and the date that long ago.           *)
(***************************************************************************)
Signed(n) == IF n < 2 ^ (Width - 1) THEN n ELSE n - 2 ^ Width
Cutoff(c) == Now - Signed(c.age)
InRange(date) == date \in -MaxDate .. MaxDate

-----------------------------------------------------------------------------
(***************************************************************************)
(* The store                                                               *)
(***************************************************************************)
Has(s, k, mime) == s.rows[k][mime] # NoData

\* Some row of some item has this content: its file is there.
Referenced(s, data) == \E k \in s.live, m \in Mimes : s.rows[k][m] = data

With(s, k, rows) == [live |-> s.live \cup {k}, rows |-> [s.rows EXCEPT ![k] = rows]]

\* Mutant: the format rows stay when an item is deleted.
WithoutRowsKept(s, ks) == [s EXCEPT !.live = @ \ ks]

Without(s, ks) == [live |-> s.live \ ks,
                   rows |-> [k \in Ids |-> IF k \in ks THEN NoRows ELSE s.rows[k]]]

\* set_format and remove_format
Edited(s, k, e) == [s EXCEPT !.rows[k][e.mime] = e.data]
Refused(s, k, e) == k \notin s.live \/ (e.op = "remove" /\ ~Has(s, k, e.mime))

\* What an item holds after the first n of a list of edits: of those to one mime
\* the last counts.
After(s, k, edits, n) ==
    LET to(m) == {j \in 1 .. n : edits[j].mime = m}
    IN  [s EXCEPT !.rows[k] = [m \in Mimes |-> IF to(m) = {} THEN s.rows[k][m]
                                               ELSE edits[Max(to(m))].data]]

\* How many of the edits are made before one is refused.
Doable(s, k, edits) ==
    Max({n \in 0 .. Len(edits) :
            \A j \in 1 .. n : ~Refused(After(s, k, edits, j - 1), k, edits[j])})

\* The rows of a new item: of a mime given twice the last one counts.
RowsOf(sets) == [m \in Mimes |->
    LET given == {k \in DOMAIN sets : sets[k][1] = m}
    IN  IF given = {} THEN NoData ELSE sets[Max(given)][2]]

\* The next id is above all there have been.
NextId == 1 + Max({0} \cup UNION {s.live : s \in past \cup {store}})

Becomes(s) ==
    /\ store' = s
    /\ past' = IF exit = Running THEN past \cup {s} ELSE past

Untouched == UNCHANGED <<store, past, applied, hit>>

\* A change made for the command: n changes, to the items ks.
Made(s, n, ks) ==
    /\ Becomes(s)
    /\ applied' = applied + n /\ hit' = hit \cup ks

-----------------------------------------------------------------------------
Init ==
    /\ InstanceInit
    /\ cmd \in Asked /\ store \in Stores
    /\ step = "args" /\ exit = Running
    /\ conn = NoDaemon /\ req = "none" /\ answer = Running
    /\ todo = <<>> /\ hold = NoData /\ out = <<>>
    /\ past = {store} /\ applied = 0 /\ hit = {} /\ changes = 0

Exit(code) == exit' = code /\ step' = "exited"
Continue(next) == step' = next /\ UNCHANGED exit

\* cmd_...: the arguments are checked, and the files read.
ParseArguments ==
    /\ step = "args"
    /\ \/ (~ArgumentsOK(cmd) \/ cmd.sets # <<>>) /\ Exit(Failure)
       \/ /\ ArgumentsOK(cmd)
          /\ Continue(IF Routed(cmd) THEN "route" ELSE IF Prunes(cmd) THEN "age" ELSE "open")
    /\ Untouched
    /\ UNCHANGED <<daemonVars, cmd, conn, req, answer, todo, hold, out, changes>>

\* The date before which items go; the subtraction panics out of range.
Age ==
    /\ step = "age"
    /\ IF InRange(Cutoff(cmd)) THEN Continue("open") ELSE Exit(Panic)
    /\ Untouched
    /\ UNCHANGED <<daemonVars, cmd, conn, req, answer, todo, hold, out, changes>>

\* daemon_socket: the request goes to the daemon if there is one.
Route ==
    /\ step = "route"
    /\ IF Reached # NoDaemon
       THEN conn' = Reached /\ req' = "sent" /\ Continue("wait")
       ELSE /\ UNCHANGED <<conn, req>>
            /\ IF cmd.kind = "restore" THEN Exit(Failure) ELSE Continue("open")
    /\ Untouched
    /\ UNCHANGED <<daemonVars, cmd, answer, todo, hold, out, changes>>

-----------------------------------------------------------------------------
(***************************************************************************)
(* Through the daemon                                                      *)
(***************************************************************************)
Answer(code) == req' = "done" /\ answer' = code

\* The daemon executes the request, whether or not the command still waits.
Execute ==
    /\ req = "sent" /\ Alive(conn)
    /\ \/ /\ cmd.kind = "add"
          /\ Made(With(store, NextId, RowsOf(cmd.sets)), 1, {NextId}) /\ Answer(0)
       \/ /\ cmd.kind # "add" /\ cmd.id \notin store.live
          /\ Untouched /\ Answer(NotFound)
       \/ /\ cmd.kind = "restore" /\ cmd.id \in store.live
          /\ Untouched
          /\ Answer(IF \E m \in Mimes \ {Label} : Has(store, cmd.id, m) THEN 0 ELSE Failure)
       \/ /\ Whole(cmd) /\ cmd.id \in store.live
          /\ Made(Without(store, {cmd.id}), 1, {cmd.id}) /\ Answer(0)
       \/ /\ cmd.kind \in {"update", "delete"} /\ ~Whole(cmd) /\ cmd.id \in store.live
          /\ LET edits == Edits(cmd)
                 n == Doable(store, cmd.id, edits)
             IN  /\ Made(After(store, cmd.id, edits, n), n, {cmd.id})
                 /\ Answer(IF n = Len(edits) THEN 0 ELSE NotFound)
    /\ UNCHANGED <<daemonVars, cmd, step, exit, conn, todo, hold, out, changes>>

\* The store of the daemon fails: before it has changed anything, or with a part
\* of an update committed, or after the commit.
ExecuteFails ==
    /\ req = "sent" /\ Alive(conn)
    /\ Answer(Failure)
    /\ \/ Untouched
       \/ /\ cmd.kind \in {"update", "delete"} /\ cmd.id \in store.live
          /\ IF Whole(cmd) THEN Made(Without(store, {cmd.id}), 1, {cmd.id})
             ELSE LET edits == Edits(cmd) IN \E n \in 1 .. Doable(store, cmd.id, edits) :
                    Made(After(store, cmd.id, edits, n), n, {cmd.id})
    /\ UNCHANGED <<daemonVars, cmd, step, exit, conn, todo, hold, out, changes>>

\* response_to_result
Receive ==
    /\ step = "wait" /\ req = "done"
    /\ Exit(answer)
    /\ Untouched
    /\ UNCHANGED <<daemonVars, cmd, conn, req, answer, todo, hold, out, changes>>

\* Mutant: after an IPC error the command goes to the store itself.
NoAnswerFallsBack ==
    /\ step = "wait" /\ ~Alive(conn)
    /\ IF cmd.kind = "restore" THEN Exit(Failure) ELSE Continue("open")
    /\ Untouched
    /\ UNCHANGED <<daemonVars, cmd, conn, req, answer, todo, hold, out, changes>>

\* The connection closes without an answer: "IPC error".
NoAnswer ==
    /\ step = "wait" /\ ~Alive(conn)
    /\ Exit(Failure)
    /\ Untouched
    /\ UNCHANGED <<daemonVars, cmd, conn, req, answer, todo, hold, out, changes>>

\* Mutant: the socket has no read timeout.
GiveUpNever == step = "wait" /\ ~Alive(conn) /\ Exit(Failure) /\ Untouched
    /\ UNCHANGED <<daemonVars, cmd, conn, req, answer, todo, hold, out, changes>>

\* No answer within 10 s; the daemon may still execute the request.
GiveUp ==
    /\ step = "wait"
    /\ Exit(Failure)
    /\ Untouched
    /\ UNCHANGED <<daemonVars, cmd, conn, req, answer, todo, hold, out, changes>>

-----------------------------------------------------------------------------
(***************************************************************************)
(* Directly                                                                *)
(***************************************************************************)
AtTheStore == {"open", "add", "change", "delete", "prune", "ids", "item", "rows", "require",
               "formats", "row", "file"}

\* open_store, and where the command goes from there.
Open ==
    /\ step = "open"
    /\ Continue(CASE cmd.kind = "add" -> "add"
                  [] Prunes(cmd) -> "prune"
                  [] Whole(cmd) /\ ~Prunes(cmd) -> "delete"
                  [] cmd.kind \in {"update", "delete"} /\ ~Whole(cmd) -> "change"
                  [] cmd.kind = "list" -> "ids"
                  [] cmd.kind = "formats" -> "require"
                  [] cmd.kind = "inspect" -> "item"
                  [] cmd.kind = "decode" -> "row")
    /\ todo' = IF step' = "change" THEN Edits(cmd) ELSE <<>>
    /\ Untouched
    /\ UNCHANGED <<daemonVars, cmd, conn, req, answer, hold, out, changes>>

\* The store cannot be opened, read or written.
StoreFails ==
    /\ step \in AtTheStore
    /\ Exit(Failure)
    /\ Untouched
    /\ UNCHANGED <<daemonVars, cmd, conn, req, answer, todo, hold, out, changes>>

AddDirectly ==
    /\ step = "add"
    /\ Made(With(store, NextId, RowsOf(cmd.sets)), 1, {NextId})
    /\ Exit(0)
    /\ UNCHANGED <<daemonVars, cmd, conn, req, answer, todo, hold, out, changes>>

\* One remove_format or set_format; the first error ends the command, also one
\* that follows the commit.
ChangeDirectly ==
    /\ step = "change"
    /\ IF todo = <<>> THEN Exit(0) /\ Untouched /\ UNCHANGED todo
       ELSE IF Refused(store, cmd.id, Head(todo)) THEN Exit(NotFound) /\ Untouched /\ UNCHANGED todo
       ELSE /\ Made(Edited(store, cmd.id, Head(todo)), 1, {cmd.id})
            /\ todo' = Tail(todo)
            /\ Continue("change") \/ Exit(Failure)
    /\ UNCHANGED <<daemonVars, cmd, conn, req, answer, hold, out, changes>>

DeleteDirectly ==
    /\ step = "delete"
    /\ IF cmd.id \in store.live
       THEN Made(Without(store, {cmd.id}), 1, {cmd.id}) /\ (Exit(0) \/ Exit(Failure))
       ELSE Exit(NotFound) /\ Untouched
    /\ UNCHANGED <<daemonVars, cmd, conn, req, answer, todo, hold, out, changes>>

\* delete_older_than
PruneDirectly ==
    /\ step = "prune"
    /\ LET old == {k \in store.live : k < Cutoff(cmd)}
       IN  Made(Without(store, old), 1, old)
    /\ Exit(0) \/ Exit(Failure)
    /\ UNCHANGED <<daemonVars, cmd, conn, req, answer, todo, hold, out, changes>>

-----------------------------------------------------------------------------
(***************************************************************************)
(* Reading: one statement, or one file, at a time                          *)
(***************************************************************************)
Reads == Untouched /\ UNCHANGED <<daemonVars, cmd, conn, req, answer, changes>>

Prefix(s, n) == SubSeq(s, 1, Min({n, Len(s)}))
NewestFirst(ks) == Reverse(Ascending(ks))
Selected(s) == {k \in s.live : cmd.mime # NoMime => Has(s, k, cmd.mime)}

\* Mutant: the limit is applied before the filter.
ListIdsLimitFirst ==
    /\ step = "ids"
    /\ todo' = SelectSeq(Prefix(NewestFirst(store.live), cmd.limit), LAMBDA k : k \in Selected(store))
    /\ Continue("item")
    /\ Reads /\ UNCHANGED <<hold, out>>

\* list_items: the ids, filtered, newest first, and cut off at the limit.
ListIds ==
    /\ step = "ids"
    /\ todo' = Prefix(NewestFirst(Selected(store)), cmd.limit)
    /\ Continue("item")
    /\ Reads /\ UNCHANGED <<hold, out>>

\* get_item: the row of the item.  One that is gone fails the whole command.
FindItem ==
    /\ step = "item"
    /\ LET k == IF cmd.kind = "list" THEN Head(todo) ELSE cmd.id IN
        /\ cmd.kind = "list" => todo # <<>>
        /\ IF k \in store.live
           THEN Continue(IF cmd.kind = "list" THEN "rows" ELSE "require")
           ELSE Exit(NotFound)
    /\ Reads /\ UNCHANGED <<todo, hold, out>>

\* list_items: the formats of the item.
ListRows ==
    /\ step = "rows"
    /\ out' = Append(out, [id |-> Head(todo), formats |-> store.rows[Head(todo)], label |-> NoData])
    /\ todo' = Tail(todo)
    /\ Continue("item")
    /\ Reads /\ UNCHANGED hold

\* cmd_list: all items are there, and their labels are looked up.
ListItems ==
    /\ step = "item" /\ cmd.kind = "list" /\ todo = <<>>
    /\ todo' = [n \in DOMAIN out |-> n]
    /\ Continue("label row")
    /\ Reads /\ UNCHANGED <<hold, out>>

\* derive_label: decode the label, or else the text; an error counts as none.
\* A label or a text is never blank here.
LabelNone ==
    /\ step = "text row" /\ todo # <<>> /\ ~Has(store, out[Head(todo)].id, Text)
    /\ todo' = Tail(todo) /\ Continue("label row")
    /\ Reads /\ UNCHANGED <<hold, out>>

LabelRow ==
    /\ step \in {"label row", "text row"} /\ todo # <<>>
    /\ LET mime == IF step = "label row" THEN Label ELSE Text
           data == store.rows[out[Head(todo)].id][mime]
       IN  /\ step = "text row" => data # NoData
           /\ hold' = data
           /\ Continue(IF data = NoData THEN "text row"
                       ELSE IF mime = Label THEN "label file" ELSE "text file")
    /\ Reads /\ UNCHANGED <<todo, out>>

LabelFile ==
    /\ step \in {"label file", "text file"}
    /\ out' = [out EXCEPT ![Head(todo)].label = hold]
    /\ todo' = Tail(todo) /\ Continue("label row")
    /\ Reads /\ UNCHANGED hold

\* The file went with the last row that had this content.
LabelFileGone ==
    /\ step \in {"label file", "text file"} /\ ~Referenced(store, hold)
    /\ IF step = "label file" THEN Continue("text row") /\ UNCHANGED todo
                              ELSE Continue("label row") /\ todo' = Tail(todo)
    /\ Reads /\ UNCHANGED <<hold, out>>

PrintList ==
    /\ step = "label row" /\ todo = <<>>
    /\ Exit(0)
    /\ Reads /\ UNCHANGED <<todo, hold, out>>

\* Mutant: formats of an item that is not there are none.
RequireNothing ==
    /\ step = "require"
    /\ Continue("formats")
    /\ Reads /\ UNCHANGED <<todo, hold, out>>

\* get_formats: require_item, and in a statement of its own the formats.
RequireItem ==
    /\ step = "require"
    /\ IF cmd.id \in store.live THEN Continue("formats") ELSE Exit(NotFound)
    /\ Reads /\ UNCHANGED <<todo, hold, out>>

GetFormats ==
    /\ step = "formats"
    /\ out' = <<store.rows[cmd.id]>>
    /\ Exit(0)
    /\ Reads /\ UNCHANGED <<todo, hold>>

\* decode: the row, then the file.
DecodeRow ==
    /\ step = "row"
    /\ hold' = store.rows[cmd.id][cmd.mime]
    /\ IF hold' = NoData THEN Exit(NotFound) ELSE Continue("file")
    /\ Reads /\ UNCHANGED <<todo, out>>

DecodeFile ==
    /\ step = "file"
    /\ out' = <<hold>> /\ Exit(0)
    /\ Reads /\ UNCHANGED <<todo, hold>>

DecodeFileGone ==
    /\ step = "file" /\ ~Referenced(store, hold)
    /\ Exit(NotFound)
    /\ Reads /\ UNCHANGED <<todo, hold, out>>

-----------------------------------------------------------------------------
(***************************************************************************)
(* The others                                                              *)
(***************************************************************************)
OthersStore(s) ==
    /\ Becomes(s) /\ changes' = changes + 1
    /\ UNCHANGED <<daemonVars, cmd, step, exit, conn, req, answer, todo, hold, out, applied, hit>>

\* Bound: one change beside a command for which daemons come and go.
OthersChange ==
    /\ exit = Running /\ changes < MaxChanges /\ (Routed(cmd) => changes = 0)
    /\ \/ /\ NextId + 1 \in Ids        \* bound: ids are left for the command
          /\ \E m \in Mimes, data \in OthersData :
                OthersStore(With(store, NextId, [NoRows EXCEPT ![m] = data]))
       \/ \E k \in store.live : OthersStore(Without(store, {k}))
       \/ \E k \in store.live, m \in Mimes, data \in OthersData \cup {NoData} :
            data # store.rows[k][m] /\ OthersStore(Edited(store, k, [mime |-> m, data |-> data]))

CommandStep ==
    \/ ParseArguments \/ Age \/ Route \/ Receive \/ NoAnswer \/ GiveUp
    \/ Open \/ StoreFails \/ AddDirectly \/ ChangeDirectly \/ DeleteDirectly \/ PruneDirectly
    \/ ListIds \/ FindItem \/ ListRows \/ ListItems \/ LabelRow \/ LabelNone \/ LabelFile
    \/ LabelFileGone \/ PrintList \/ RequireItem \/ GetFormats
    \/ DecodeRow \/ DecodeFile \/ DecodeFileGone

\* Bound: daemons come and go only for commands that look for them.
DaemonsStep ==
    /\ Routed(cmd)
    /\ \E d \in Daemons : DaemonStep(d)
    /\ UNCHANGED commandVars

Next == CommandStep \/ Execute \/ ExecuteFails \/ OthersChange \/ DaemonsStep

Spec == Init /\ [][Next]_vars

\* A command and a starting daemon run on; a daemon may hang on a request.
FairSpec ==
    /\ Spec /\ WF_vars(CommandStep)
    /\ \A d \in Daemons : WF_vars(StartUp(d) /\ UNCHANGED commandVars)

-----------------------------------------------------------------------------
TypeOK ==
    /\ InstanceTypeOK
    /\ cmd \in Asked
    /\ exit \in {Running, 0, Failure, NotFound, Panic}
    /\ (exit = Running) # (step = "exited")
    /\ conn \in Daemons \cup {NoDaemon}
    /\ req \in {"none", "sent", "done"} /\ (req = "none") = (conn = NoDaemon)
    /\ answer \in {Running, 0, Failure, NotFound} /\ (req = "done") = (answer # Running)
    /\ {store} \cup past \subseteq Contents
    /\ exit = Running => store \in past
    /\ hold \in Data \cup {NoData}
    /\ hit \subseteq Ids /\ applied \in Nat /\ changes \in 0 .. MaxChanges

\* A command that reads one item answers with what the item has held while the
\* command ran, and with "not found" only if the item or the format was missing
\* or replaced then (Store::decode, formats, get_item beside a writer).
ReadsTruthful ==
    /\ cmd.kind = "decode" =>
        LET held == {s.rows[cmd.id][cmd.mime] : s \in past} IN
        /\ exit = 0 => out[1] \in held \ {NoData}
        /\ exit = NotFound => NoData \in held \/ \E d, e \in held : d # e
    /\ cmd.kind \in {"formats", "inspect"} =>
        /\ exit = 0 => /\ \E s \in past : cmd.id \in s.live
                       /\ out[1] \in {s.rows[cmd.id] : s \in past}
        /\ exit = NotFound => \E s \in past : cmd.id \notin s.live

\* A list leaves out no item that was there all along and shows none that never
\* was; the label it gives is one that was to be given, and the item's own if it
\* has one that does not change.  It fails as a whole only if an item was deleted
\* while it ran (db::list_items, derive_label).
ListComplete == cmd.kind = "list" =>
    /\ exit = 0 =>
        LET shown == {e.id : e \in ToSet(out)}
            always == {k \in Ids : \A s \in past : k \in Selected(s)}
        IN  /\ \A m, n \in DOMAIN out : m < n => out[m].id > out[n].id
            /\ Len(out) <= cmd.limit
            /\ \A k \in always \ shown : Len(out) = cmd.limit /\ \A j \in shown : j > k
            /\ \A e \in ToSet(out) :
                LET labels == {s.rows[e.id][Label] : s \in past}
                    texts == {s.rows[e.id][Text] : s \in past}
                IN  /\ \E s \in past : e.id \in Selected(s)
                    /\ \E s \in past : e.formats = s.rows[e.id]
                    /\ e.label # NoData => e.label \in labels \cup texts
                    /\ \A d \in Data : labels = {d} => e.label = d
    /\ exit = NotFound => \E k \in Ids, s, t \in past : k \in s.live /\ k \notin t.live

\* The changes a command asks for.
Wanted == IF cmd.kind \in {"add", "restore"} \/ Whole(cmd)
          THEN 1 ELSE Len(Edits(cmd))

\* Whatever becomes of the daemon, what a command asks for is done at most once,
\* also if it exits with an error; exit code 0 says that it is all done, 2 that an
\* item or a format was missing (cmd_add, cmd_update, cmd_delete).  Nothing is done
\* for wrong arguments, and an age that fits an i64 spares what is younger.
ExitCodesRight == cmd.kind \in {"add", "update", "delete"} =>
    /\ applied <= Wanted
    /\ exit = 0 => applied = Wanted
    /\ exit = NotFound => \E s \in past :
        \/ cmd.id \notin s.live
        \/ \E e \in ToSet(Edits(cmd)) : Refused(s, cmd.id, e)
    /\ ~ArgumentsOK(cmd) => applied = 0 /\ exit \in {Running, Failure}
    /\ Prunes(cmd) /\ cmd.age < 2 ^ (Width - 1) => \A k \in hit : Now - k > cmd.age

\* Every command ends, also if the daemon does not answer (try_connect's timeouts).
CommandEnds == <>(exit # Running)
=============================================================================
