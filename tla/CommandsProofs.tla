--------------------------- MODULE CommandsProofs ---------------------------
(***************************************************************************)
(* What the command line promises, for every command, whatever the store   *)
(* holds and however others change it between two of its statements; and   *)
(* for any number of daemons, that one serves.                             *)
(*                                                                         *)
(*   Typed      the types, which commands come to a step, and that nothing *)
(*              has been done before the step that does it                 *)
(*   ReadInv    what decode, formats and inspect have read was stored      *)
(*   ExitInv    what an update, a delete and an add have done so far       *)
(*   ListInv    what the list shows was picked by one statement            *)
(*   DaemonInv  the start of a daemon; needs none of the others            *)
(*                                                                         *)
(* Each of ReadInv, ExitInv and ListInv rests on Typed and says what is    *)
(* known at each step on the way to the exit code or the printed item; the *)
(* property itself only speaks of the end.  All compare with past, the     *)
(* contents the store has had while the command ran, which only grows.     *)
(***************************************************************************)
EXTENDS Commands, OrderedProofs, SequenceTheorems

-----------------------------------------------------------------------------
(***************************************************************************)
(* Types.  TypeOK needs to know which commands come to a step (Path), and  *)
(* of what the lists are that the step takes apart (QueueTyped).           *)
(***************************************************************************)
ListSteps == {"ids", "rows", "label row", "text row", "label file", "text file"}
LabelSteps == {"label row", "text row", "label file", "text file"}
Steps == {"args", "age", "route", "wait", "exited"} \cup AtTheStore \cup LabelSteps

Path ==
    /\ step \in Steps
    /\ step \notin {"args", "exited"} => ArgumentsOK(cmd)
    /\ step \in {"route", "wait"} => Routed(cmd)
    /\ step \in {"age", "prune"} => Prunes(cmd)
    /\ step = "open" => cmd.kind # "restore"
    /\ step = "add" => cmd.kind = "add"
    /\ step = "change" => cmd.kind \in {"update", "delete"} /\ ~Whole(cmd)
    /\ step = "delete" => Whole(cmd) /\ ~Prunes(cmd)
    /\ step \in ListSteps => cmd.kind = "list"
    /\ step = "item" => cmd.kind \in {"list", "inspect"}
    /\ step \in {"require", "formats"} => cmd.kind \in {"formats", "inspect"}
    /\ step \in {"row", "file"} => cmd.kind = "decode"
    /\ req # "none" => Routed(cmd) /\ ArgumentsOK(cmd) /\ step \in {"wait", "exited"}
    /\ step = "wait" => req # "none"

Rows == [Mimes -> Data \cup {NoData}]
Edit == [op : {"set", "remove"}, mime : Mimes, data : Data \cup {NoData}]
Entry == [id : Ids, formats : Rows, label : Data \cup {NoData}]
QueueTyped ==
    /\ cmd.kind = "list" => out \in Seq(Entry)
    /\ step \in {"item", "rows"} /\ cmd.kind = "list" => todo \in Seq(Ids)
    /\ step \in LabelSteps => todo \in Seq(DOMAIN out)
    /\ step \in {"rows", "text row", "label file", "text file"} => todo # <<>>
    /\ step = "change" => todo \in Seq(Edit)
    /\ cmd.kind = "add" /\ applied = 0 => NextId \in Ids

\* Nothing has been done for the command before the step that does it.
Before == {"args", "age", "route", "open", "add", "delete", "prune"}
Undone == req = "sent" \/ step \in Before => applied = 0 /\ hit = {}

Typed == TypeOK /\ Path /\ QueueTyped /\ Undone

L == Cardinality(Ids)
-----------------------------------------------------------------------------
(***************************************************************************)
(* The operators of the store.                                             *)
(***************************************************************************)
LEMMA IdsAreNumbers == L \in Nat /\ Ids = 1 .. L
BY IdsAssumption, FS_CardinalityType DEF L

\* The greatest of some numbers.
LEMMA MaxIn ==
  ASSUME NEW n \in Nat, NEW S \in SUBSET (0 .. n), S # {}
  PROVE  Max(S) \in S /\ \A k \in S : k <= Max(S)
<1>1. \E k \in S : \A i \in S : i <= k
  <2>1. CASE S = {0}
    BY <2>1
  <2>2. CASE S # {0}
    <3> DEFINE P == S \ {0}
    <3>1. P \in SUBSET (1 .. n) /\ P # {}
      BY <2>2
    <3> HIDE DEF P
    <3>2. PICK k \in P : \A i \in P : i <= k
      BY <3>1, GreatestExists
    <3> QED
      BY <3>1, <3>2 DEF P
  <2> QED
    BY <2>1, <2>2
<1>2. \A k \in S : k \in Nat
  OBVIOUS
<1> QED
  BY <1>1, <1>2 DEF Max

\* The id above all that some contents have had; NextId is that.
Above(P) == 1 + Max({0} \cup UNION {s.live : s \in P})

LEMMA AboveAll ==
  ASSUME NEW P \in SUBSET Contents
  PROVE  /\ Above(P) \in 1 .. L + 1
         /\ \A s \in P : \A k \in s.live : k < Above(P)
         /\ \A m \in Nat : (\A s \in P : \A k \in s.live : k < m) /\ m # 0 => Above(P) <= m
<1> DEFINE S == {0} \cup UNION {s.live : s \in P}
<1>1. \A s \in P : s.live \in SUBSET (1 .. L)
  BY IdsAreNumbers DEF Contents
<1>2. S \in SUBSET (0 .. L) /\ S # {}
  BY <1>1, IdsAreNumbers
<1>3. Max(S) \in S /\ (\A k \in S : k <= Max(S)) /\ Above(P) = 1 + Max(S)
  <2> HIDE DEF S
  <2>1. Max(S) \in S /\ (\A k \in S : k <= Max(S))
    BY <1>2, IdsAreNumbers, MaxIn
  <2> QED
    BY <2>1 DEF Above, S
<1>4. \A s \in P : \A k \in s.live : k \in S /\ k \in Nat
  BY <1>1
<1>5. Max(S) \in 0 .. L
  BY <1>2, <1>3
<1>6. ASSUME NEW m \in Nat, \A s \in P : \A k \in s.live : k < m, m # 0
      PROVE  Above(P) <= m
  <2>1. \A k \in S : k < m
    BY <1>6
  <2> HIDE DEF S
  <2> QED
    BY <1>3, <1>5, <2>1, IdsAreNumbers
<1> HIDE DEF S
<1> QED
  BY <1>3, <1>4, <1>5, <1>6, IdsAreNumbers

LEMMA NextIdIsAbove == NextId = Above(past \cup {store})
BY DEF NextId, Above

LEMMA NoRowsType == NoRows \in Rows
BY DEF NoRows, Rows

LEMMA WithType ==
  ASSUME NEW s \in Contents, NEW k \in Ids, NEW rows \in Rows
  PROVE  With(s, k, rows) \in Contents
BY NoRowsType DEF With, Contents, Rows

LEMMA WithoutType ==
  ASSUME NEW s \in Contents, NEW ks PROVE Without(s, ks) \in Contents
<1> DEFINE r == [k \in Ids |-> IF k \in ks THEN NoRows ELSE s.rows[k]]
<1>1. r \in [Ids -> Rows]
  BY NoRowsType DEF Contents, Rows
<1>2. \A k \in Ids \ (s.live \ ks) : r[k] = NoRows
  BY DEF Contents
<1>3. s.live \ ks \in SUBSET Ids
  BY DEF Contents
<1> HIDE DEF r
<1>4. Without(s, ks) = [live |-> s.live \ ks, rows |-> r]
  BY DEF Without, r
<1> QED
  BY <1>1, <1>2, <1>3, <1>4 DEF Contents, Rows

\* A row of rows of an item replaced by others.
LEMMA RowsReplaced ==
  ASSUME NEW s \in Contents, NEW k \in s.live, NEW r \in Rows
  PROVE  [s EXCEPT !.rows[k] = r] \in Contents
BY DEF Contents, Rows

LEMMA EditedType ==
  ASSUME NEW s \in Contents, NEW k \in s.live, NEW m \in Mimes, NEW d \in Data \cup {NoData}, NEW e,
         e.mime = m, e.data = d
  PROVE  Edited(s, k, e) \in Contents
<1> DEFINE r == [s.rows[k] EXCEPT ![m] = d]
<1>1. k \in Ids /\ s.rows[k] \in Rows
  BY DEF Contents, Rows
<1>2. r \in Rows
  BY <1>1 DEF Rows
<1>3. Edited(s, k, e) = [s EXCEPT !.rows[k] = r]
  BY <1>1 DEF Edited, Contents
<1> HIDE DEF r
<1> QED
  BY <1>2, <1>3, RowsReplaced

LEMMA AfterType ==
  ASSUME NEW s \in Contents, NEW k \in s.live, NEW edits \in Seq(Edit), NEW n \in 0 .. Len(edits)
  PROVE  After(s, k, edits, n) \in Contents
<1> DEFINE to(m) == {j \in 1 .. n : edits[j].mime = m}
           r == [m \in Mimes |-> IF to(m) = {} THEN s.rows[k][m] ELSE edits[Max(to(m))].data]
<1>1. ASSUME NEW m \in Mimes, to(m) # {} PROVE edits[Max(to(m))].data \in Data \cup {NoData}
  <2>1. to(m) \in SUBSET (0 .. n) /\ n \in Nat
    OBVIOUS
  <2>2. \A j \in to(m) : edits[j] \in Edit
    BY ElementOfSeq
  <2> HIDE DEF to
  <2>3. Max(to(m)) \in to(m)
    BY <1>1, <2>1, MaxIn
  <2> QED
    BY <2>2, <2>3 DEF Edit
<1>2. s.rows[k] \in Rows
  BY DEF Contents, Rows
<1> HIDE DEF to
<1>3. r \in Rows
  BY <1>1, <1>2 DEF Rows
<1>4. After(s, k, edits, n) = [s EXCEPT !.rows[k] = r]
  BY DEF After, to
<1> HIDE DEF r
<1> QED
  BY <1>3, <1>4, RowsReplaced

\* Doable is the greatest n for which no edit up to the n-th is refused.
LEMMA DoableMost ==
  ASSUME NEW s, NEW k, NEW edits, Len(edits) \in Nat
  PROVE  LET n == Doable(s, k, edits)
         IN  /\ n \in 0 .. Len(edits)
             /\ \A j \in 1 .. n : ~Refused(After(s, k, edits, j - 1), k, edits[j])
             /\ n < Len(edits) => Refused(After(s, k, edits, n), k, edits[n + 1])
<1> DEFINE OK(j) == ~Refused(After(s, k, edits, j - 1), k, edits[j])
           S == {n \in 0 .. Len(edits) : \A j \in 1 .. n : OK(j)}
           N == Len(edits)
           n == Doable(s, k, edits)
<1>1. n = Max(S)
  BY DEF Doable
<1>2. 0 \in S
  OBVIOUS
<1>3. S \in SUBSET (0 .. N)
  OBVIOUS
<1>4. n \in S /\ \A i \in S : i <= n
  <2> HIDE DEF S, n
  <2> QED
    BY <1>1, <1>2, <1>3, MaxIn
<1>5. ASSUME n < N PROVE ~OK(n + 1)
  <2> SUFFICES ASSUME OK(n + 1) PROVE FALSE
    OBVIOUS
  <2>1. n \in 0 .. N /\ \A j \in 1 .. n : OK(j)
    BY <1>4
  <2> HIDE DEF OK, n
  <2>2. n + 1 \in 0 .. N /\ \A j \in 1 .. n + 1 : OK(j)
    <3>1. \A j \in 1 .. n + 1 : j \in 1 .. n \/ j = n + 1
      BY <2>1
    <3> QED
      BY <1>5, <2>1, <3>1
  <2>3. n + 1 <= n
    BY <1>4, <2>2
  <2> QED
    BY <2>1, <2>3
<1>6. n < N => (n + 1) - 1 = n
  BY <1>4
<1> QED
  BY <1>4, <1>5, <1>6

LEMMA FunctionsAreSequences ==
  ASSUME NEW T, NEW n \in Nat, NEW f \in [1 .. n -> T]
  PROVE  f \in Seq(T) /\ Len(f) = n
OBVIOUS

\* An edit of a command that has been parsed, and one for each of its arguments.
LEMMA EditsType ==
  ASSUME NEW c \in Command, c.kind \in {"update", "delete"}
  PROVE  /\ Len(Edits(c)) \in Nat
         /\ ArgumentsOK(c) => Edits(c) \in Seq(Edit)
         /\ c.kind = "delete" /\ ~Whole(c) => Len(Edits(c)) = 1
<1>1. CASE c.kind = "delete"
  <2>1. CASE Whole(c)
    BY <2>1 DEF Edits
  <2>2. CASE ~Whole(c)
    <3>1. Edits(c) = <<RemoveOf(c.mime)>>
      BY <1>1, <2>2 DEF Edits
    <3>2. c.mime \in Mimes
      BY <1>1, <2>2 DEF Command, Whole
    <3>3. RemoveOf(c.mime) \in Edit
      BY <3>2 DEF RemoveOf, Edit
    <3>4. <<RemoveOf(c.mime)>> \in Seq(Edit) /\ Len(<<RemoveOf(c.mime)>>) = 1
      BY <3>3
    <3> QED
      BY <1>1, <2>2, <3>1, <3>4
  <2> QED
    BY <2>1, <2>2, <1>1
<1>2. CASE c.kind = "update"
  <2> DEFINE a == [k \in DOMAIN c.removes |-> RemoveOf(c.removes[k])]
             b == [k \in DOMAIN c.sets |-> SetTo(c.sets[k][1], c.sets[k][2])]
             Raw == [op : {"set", "remove"}, mime : Mimes \cup {NoMime}, data : Data \cup {NoData} \cup Sources]
  <2>1. c.removes \in Seq(Mimes) /\ c.sets \in Seq((Mimes \cup {NoMime}) \X Sources)
    BY DEF Command
  <2>2. Edits(c) = a \o b
    BY <1>2 DEF Edits, Whole
  <2>3. \A k \in DOMAIN c.removes : c.removes[k] \in Mimes
    BY <2>1
  <2>4. \A k \in DOMAIN c.sets : c.sets[k][1] \in Mimes \cup {NoMime} /\ c.sets[k][2] \in Sources
    BY <2>1
  <2>5. a \in Seq(Edit) /\ a \in Seq(Raw)
    <3>1. \A k \in DOMAIN c.removes : a[k] \in Edit /\ a[k] \in Raw
      BY <2>3 DEF Edit, RemoveOf
    <3>2. DOMAIN c.removes = 1 .. Len(c.removes) /\ Len(c.removes) \in Nat
      BY <2>1
    <3>3. a \in [DOMAIN c.removes -> Edit] /\ a \in [DOMAIN c.removes -> Raw]
      BY <3>1
    <3> HIDE DEF Raw, a
    <3> QED
      BY <3>2, <3>3, FunctionsAreSequences
  <2>6. b \in Seq(Raw)
    <3>1. \A k \in DOMAIN c.sets : b[k] \in Raw
      BY <2>4 DEF SetTo
    <3>2. DOMAIN c.sets = 1 .. Len(c.sets) /\ Len(c.sets) \in Nat
      BY <2>1
    <3>3. b \in [DOMAIN c.sets -> Raw]
      BY <3>1
    <3> HIDE DEF Raw, b
    <3> QED
      BY <3>2, <3>3, FunctionsAreSequences
  <2>7. ASSUME ArgumentsOK(c) PROVE b \in Seq(Edit)
    <3>1. Parses(c.sets)
      BY <1>2, <2>7 DEF ArgumentsOK
    <3>2. \A k \in DOMAIN c.sets : c.sets[k][1] \in Mimes /\ c.sets[k][2] \in Data
      BY <2>4, <3>1, DataAssumption DEF Parses, Sources
    <3>3. \A k \in DOMAIN c.sets : b[k] \in Edit
      BY <3>2 DEF SetTo, Edit
    <3>4. DOMAIN c.sets = 1 .. Len(c.sets) /\ Len(c.sets) \in Nat
      BY <2>1
    <3>5. b \in [DOMAIN c.sets -> Edit]
      BY <3>3
    <3> HIDE DEF b
    <3> QED
      BY <3>4, <3>5, FunctionsAreSequences
  <2> HIDE DEF a, b, Raw
  <2>8. Len(a \o b) \in Nat
    BY <2>5, <2>6
  <2>9. ArgumentsOK(c) => a \o b \in Seq(Edit)
    BY <2>5, <2>7
  <2> QED
    BY <1>2, <2>2, <2>8, <2>9
<1> QED
  BY <1>1, <1>2

LEMMA RowsOfType ==
  ASSUME NEW c \in Command, c.kind = "add", ArgumentsOK(c) PROVE RowsOf(c.sets) \in Rows
<1> DEFINE given(m) == {k \in DOMAIN c.sets : c.sets[k][1] = m}
<1>1. c.sets \in Seq((Mimes \cup {NoMime}) \X Sources) /\ Parses(c.sets)
  BY DEF Command, ArgumentsOK
<1>2. \A k \in DOMAIN c.sets : c.sets[k][2] \in Data
  <2>1. \A k \in DOMAIN c.sets : c.sets[k] \in (Mimes \cup {NoMime}) \X Sources
    BY <1>1
  <2> QED
    BY <1>1, <2>1, DataAssumption DEF Parses, Sources
<1>3. ASSUME NEW m \in Mimes, given(m) # {} PROVE c.sets[Max(given(m))][2] \in Data
  <2>1. given(m) \in SUBSET (0 .. Len(c.sets)) /\ Len(c.sets) \in Nat /\ given(m) \in SUBSET DOMAIN c.sets
    BY <1>1
  <2> HIDE DEF given
  <2>2. Max(given(m)) \in given(m)
    BY <1>3, <2>1, MaxIn
  <2> QED
    BY <1>2, <2>1, <2>2
<1> HIDE DEF given
<1>4. [m \in Mimes |-> IF given(m) = {} THEN NoData ELSE c.sets[Max(given(m))][2]] \in Rows
  BY <1>3 DEF Rows
<1> QED
  BY <1>4 DEF RowsOf, given
-----------------------------------------------------------------------------
(***************************************************************************)
(* The actions.                                                            *)
(***************************************************************************)
LEMMA SameNextId == UNCHANGED <<store, past>> => NextId' = NextId
BY DEF NextId

LEMMA CommandKnown ==
  ASSUME Typed PROVE /\ cmd \in Command /\ cmd.kind \in Kinds
                     /\ cmd.id \in Ids \cup {NoId} /\ cmd.mime \in Mimes \cup {NoMime}
BY CommandAssumption DEF Typed, TypeOK, Command

\* What is known of the store, of its history, and of what was done for the command.
Recorded ==
    /\ {store} \cup past \subseteq Contents
    /\ exit = Running => store \in past
    /\ hit \subseteq Ids /\ applied \in Nat

LEMMA MadeRecorded ==
  ASSUME Typed, exit' = Running => exit = Running,
         NEW s \in Contents, NEW n \in Nat, NEW ks \in SUBSET Ids, Made(s, n, ks)
  PROVE  Recorded' /\ applied' = applied + n /\ (n # 0 => applied' # 0)
BY DEF Typed, TypeOK, Recorded, Made, Becomes

\* The command and its place at most: what is left of Typed is on the lists.
LEMMA MovesOn ==
  ASSUME Typed, Untouched \/ Recorded', UNCHANGED <<daemonVars, cmd, changes>>,
         exit' \in {Running, 0, Failure, NotFound, Panic}, (exit' = Running) # (step' = "exited"),
         exit' = Running => exit = Running,
         conn' \in Daemons \cup {NoDaemon}, (req' = "none") = (conn' = NoDaemon),
         req' \in {"none", "sent", "done"}, answer' \in {Running, 0, Failure, NotFound},
         (req' = "done") = (answer' # Running), hold' \in Data \cup {NoData}
  PROVE  TypeOK'
<1>1. InstanceTypeOK'
  BY DEF Typed, TypeOK, InstanceTypeOK, daemonVars
<1> QED
  BY <1>1 DEF Typed, TypeOK, Untouched, Recorded

LEMMA ParseArgumentsTyped == ASSUME Typed, ParseArguments PROVE Typed'
<1>1. TypeOK'
  BY MovesOn DEF ParseArguments, Continue, Exit, Typed, TypeOK, Running, Failure
<1>2. Path'
  BY CommandKnown DEF ParseArguments, Continue, Exit, Typed, TypeOK, Path, Running, Failure, Steps,
     AtTheStore, LabelSteps, ListSteps, Routed, Prunes, Kinds
<1>3. QueueTyped'
  BY SameNextId DEF ParseArguments, Continue, Exit, Typed, QueueTyped, LabelSteps, Untouched
<1>4. Undone'
  BY DEF ParseArguments, Continue, Exit, Typed, Path, Undone, Untouched, Before
<1> QED
  BY <1>1, <1>2, <1>3, <1>4 DEF Typed

LEMMA AgeTyped == ASSUME Typed, Age PROVE Typed'
<1>1. TypeOK'
  BY MovesOn DEF Age, Continue, Exit, Typed, TypeOK, Running, Panic
<1>2. Path'
  BY DEF Age, Continue, Exit, Typed, TypeOK, Path, Steps, AtTheStore, LabelSteps, ListSteps,
     Routed, Prunes
<1>3. QueueTyped'
  BY SameNextId DEF Age, Continue, Exit, Typed, QueueTyped, LabelSteps, Untouched
<1>4. Undone'
  BY DEF Age, Continue, Exit, Typed, Path, Undone, Untouched, Before
<1> QED
  BY <1>1, <1>2, <1>3, <1>4 DEF Typed

LEMMA RouteTyped == ASSUME Typed, Route PROVE Typed'
<1>0. Reached \in Daemons \cup {NoDaemon}
  BY DEF Reached, Listening
<1>1. TypeOK'
  <2>1. req = "none" /\ conn = NoDaemon /\ answer = Running /\ exit = Running
    BY DEF Route, Typed, TypeOK, Path, Running
  <2> QED
    BY <1>0, <2>1, MovesOn DEF Route, Continue, Exit, Typed, TypeOK, Running, Failure
<1>2. Path'
  BY DEF Route, Continue, Exit, Typed, TypeOK, Path, Steps, AtTheStore, LabelSteps, ListSteps
<1>3. QueueTyped'
  BY SameNextId DEF Route, Continue, Exit, Typed, QueueTyped, LabelSteps, Untouched
<1>4. Undone'
  BY DEF Route, Continue, Exit, Typed, Path, Undone, Untouched, Before
<1> QED
  BY <1>1, <1>2, <1>3, <1>4 DEF Typed

LEMMA ReceiveTyped == ASSUME Typed, Receive PROVE Typed'
<1>1. TypeOK'
  BY MovesOn DEF Receive, Exit, Typed, TypeOK
<1>2. Path'
  BY DEF Receive, Exit, Typed, TypeOK, Path, Steps, AtTheStore, LabelSteps, ListSteps
<1>3. QueueTyped'
  BY SameNextId DEF Receive, Exit, Typed, QueueTyped, LabelSteps, Untouched
<1>4. Undone'
  BY DEF Receive, Exit, Typed, Path, Undone, Untouched, Before
<1> QED
  BY <1>1, <1>2, <1>3, <1>4 DEF Typed

LEMMA FailsTyped == ASSUME Typed, NoAnswer \/ GiveUp \/ StoreFails PROVE Typed'
<1>1. TypeOK'
  BY MovesOn DEF NoAnswer, GiveUp, StoreFails, Exit, Typed, TypeOK, Running, Failure
<1>2. Path'
  BY DEF NoAnswer, GiveUp, StoreFails, Exit, Typed, TypeOK, Path, Steps, AtTheStore, LabelSteps, ListSteps
<1>3. QueueTyped'
  BY SameNextId DEF NoAnswer, GiveUp, StoreFails, Exit, Typed, QueueTyped, LabelSteps, Untouched
<1>4. Undone'
  BY DEF NoAnswer, GiveUp, StoreFails, Exit, Typed, Path, Undone, Untouched, Before
<1> QED
  BY <1>1, <1>2, <1>3, <1>4 DEF Typed

LEMMA OpenTyped == ASSUME Typed, Open PROVE Typed'
<1>1. TypeOK'
  <2>1. step' \in AtTheStore
    BY CommandKnown DEF Open, Continue, Typed, Path, AtTheStore, Kinds
  <2> QED
    BY <2>1, MovesOn DEF Open, Continue, Typed, TypeOK, AtTheStore
<1>2. Path'
  BY CommandKnown DEF Open, Continue, Typed, TypeOK, Path, Steps, AtTheStore, LabelSteps, ListSteps, Kinds,
     Prunes, Whole
<1>3. QueueTyped'
  <2>1. step' = "change" => todo' \in Seq(Edit)
    BY <1>2, EditsType, CommandKnown DEF Open, Path, Typed
  <2>2. step' # "change" => todo' = <<>>
    BY DEF Open
  <2>3. step' \notin LabelSteps \cup {"rows"}
    BY CommandKnown DEF Open, Continue, Typed, Path, LabelSteps, Kinds
  <2>4. (cmd.kind = "list" => out \in Seq(Entry)) /\ (cmd.kind = "add" /\ applied = 0 => NextId \in Ids)
    BY DEF Typed, QueueTyped
  <2>5. UNCHANGED <<cmd, out, applied, store, past>>
    BY DEF Open, Untouched
  <2>6. <<>> \in Seq(Ids) /\ NextId' = NextId
    BY <2>5, SameNextId
  <2> QED
    BY <2>1, <2>2, <2>3, <2>4, <2>5, <2>6 DEF QueueTyped, LabelSteps
<1>4. Undone'
  BY DEF Open, Continue, Typed, Path, Undone, Untouched, Before
<1> QED
  BY <1>1, <1>2, <1>3, <1>4 DEF Typed

LEMMA ExecuteTyped == ASSUME Typed, Execute PROVE Typed'
<1> USE DEF Running, Failure, NotFound
<1>1. req = "sent" /\ UNCHANGED <<daemonVars, cmd, step, exit, conn, todo, hold, out, changes>>
  BY DEF Execute
<1>2. /\ Routed(cmd) /\ ArgumentsOK(cmd) /\ step \in {"wait", "exited"}
      /\ store \in Contents /\ conn \in Daemons \cup {NoDaemon} /\ conn # NoDaemon /\ applied = 0
  BY <1>1 DEF Typed, Path, TypeOK, Undone
<1>3. /\ Untouched \/ (Recorded' /\ (cmd.kind = "add" => applied' # 0))
      /\ req' = "done" /\ answer' \in {0, Failure, NotFound}
  <2>1. CASE cmd.kind = "add" /\ Made(With(store, NextId, RowsOf(cmd.sets)), 1, {NextId}) /\ Answer(0)
    <3>1. NextId \in Ids
      BY <1>2, <2>1 DEF Typed, QueueTyped
    <3>2. With(store, NextId, RowsOf(cmd.sets)) \in Contents
      BY <1>2, <2>1, <3>1, CommandKnown, RowsOfType, WithType
    <3> QED
      BY <1>1, <2>1, <3>1, <3>2, MadeRecorded DEF Answer
  <2>2. CASE Untouched /\ \E code \in {0, Failure, NotFound} : Answer(code)
    BY <2>2 DEF Answer
  <2>3. CASE Whole(cmd) /\ Made(Without(store, {cmd.id}), 1, {cmd.id}) /\ Answer(0) /\ cmd.id \in store.live
    <3>1. Without(store, {cmd.id}) \in Contents /\ {cmd.id} \in SUBSET Ids
      BY <1>2, <2>3, WithoutType DEF Contents
    <3> QED
      BY <1>1, <2>3, <3>1, MadeRecorded DEF Answer, Whole
  <2>4. CASE /\ cmd.kind \in {"update", "delete"} /\ ~Whole(cmd) /\ cmd.id \in store.live
             /\ LET edits == Edits(cmd)
                    n == Doable(store, cmd.id, edits)
                IN  /\ Made(After(store, cmd.id, edits, n), n, {cmd.id})
                    /\ Answer(IF n = Len(edits) THEN 0 ELSE NotFound)
    <3> DEFINE n == Doable(store, cmd.id, Edits(cmd))
    <3>1. Edits(cmd) \in Seq(Edit) /\ Len(Edits(cmd)) \in Nat
      BY <1>2, <2>4, CommandKnown, EditsType
    <3>2. n \in 0 .. Len(Edits(cmd))
      BY <3>1, DoableMost
    <3> HIDE DEF n
    <3>3. After(store, cmd.id, Edits(cmd), n) \in Contents /\ {cmd.id} \in SUBSET Ids /\ n \in Nat
      BY <1>2, <2>4, <3>1, <3>2, AfterType DEF Contents
    <3>4. Made(After(store, cmd.id, Edits(cmd), n), n, {cmd.id}) /\ req' = "done" /\ answer' \in {0, NotFound}
      BY <2>4 DEF n, Answer
    <3> QED
      BY <1>1, <2>4, <3>3, <3>4, MadeRecorded
  <2> QED
    BY <2>1, <2>2, <2>3, <2>4 DEF Execute
<1>4. TypeOK'
  BY <1>1, <1>2, <1>3, MovesOn DEF Typed, TypeOK
<1>5. Path'
  BY <1>1, <1>2, <1>3 DEF Typed, Path
<1>6. QueueTyped'
  BY <1>1, <1>3, SameNextId DEF Typed, QueueTyped, LabelSteps, Untouched
<1>7. Undone'
  BY <1>1, <1>2, <1>3 DEF Undone, Before
<1> QED
  BY <1>4, <1>5, <1>6, <1>7 DEF Typed

LEMMA ExecuteFailsTyped == ASSUME Typed, ExecuteFails PROVE Typed'
<1> USE DEF Running, Failure, NotFound
<1>1. /\ req = "sent" /\ req' = "done" /\ answer' = Failure
      /\ UNCHANGED <<daemonVars, cmd, step, exit, conn, todo, hold, out, changes>>
  BY DEF ExecuteFails, Answer
<1>2. /\ Routed(cmd) /\ ArgumentsOK(cmd) /\ step \in {"wait", "exited"}
      /\ store \in Contents /\ conn \in Daemons \cup {NoDaemon} /\ conn # NoDaemon
  BY <1>1 DEF Typed, Path, TypeOK
<1>3. Untouched \/ (Recorded' /\ cmd.kind # "add")
  <2>1. CASE Whole(cmd) /\ Made(Without(store, {cmd.id}), 1, {cmd.id}) /\ cmd.id \in store.live
    <3>1. Without(store, {cmd.id}) \in Contents /\ {cmd.id} \in SUBSET Ids
      BY <1>2, <2>1, WithoutType DEF Contents
    <3> QED
      BY <1>1, <2>1, <3>1, MadeRecorded DEF Whole
  <2>2. ASSUME cmd.kind \in {"update", "delete"}, ~Whole(cmd), cmd.id \in store.live,
               NEW n \in 1 .. Doable(store, cmd.id, Edits(cmd)),
               Made(After(store, cmd.id, Edits(cmd), n), n, {cmd.id})
        PROVE  Recorded'
    <3>1. Edits(cmd) \in Seq(Edit) /\ Len(Edits(cmd)) \in Nat
      BY <1>2, <2>2, CommandKnown, EditsType
    <3>2. Doable(store, cmd.id, Edits(cmd)) \in 0 .. Len(Edits(cmd))
      BY <3>1, DoableMost
    <3>3. n \in 0 .. Len(Edits(cmd))
      BY <3>1, <3>2
    <3>4. After(store, cmd.id, Edits(cmd), n) \in Contents /\ {cmd.id} \in SUBSET Ids /\ n \in Nat
      BY <1>2, <2>2, <3>1, <3>3, AfterType DEF Contents
    <3> QED
      BY <1>1, <2>2, <3>4, MadeRecorded
  <2> QED
    BY <2>1, <2>2 DEF ExecuteFails
<1>4. TypeOK'
  BY <1>1, <1>2, <1>3, MovesOn DEF Typed, TypeOK
<1>5. Path'
  BY <1>1, <1>2, <1>3 DEF Typed, Path
<1>6. QueueTyped'
  BY <1>1, <1>3, SameNextId DEF Typed, QueueTyped, LabelSteps, Untouched
<1>7. Undone'
  BY <1>1, <1>2, <1>3 DEF Undone, Before
<1> QED
  BY <1>4, <1>5, <1>6, <1>7 DEF Typed

\* The changes a command makes itself.
LEMMA AddDirectlyTyped == ASSUME Typed, AddDirectly PROVE Typed'
<1> USE DEF Running
<1>1. /\ step = "add" /\ step' = "exited" /\ exit' = 0
      /\ UNCHANGED <<daemonVars, cmd, conn, req, answer, todo, hold, out, changes>>
  BY DEF AddDirectly, Exit
<1>2. ArgumentsOK(cmd) /\ cmd.kind = "add" /\ store \in Contents /\ applied = 0 /\ req = "none"
  BY <1>1 DEF Typed, Path, TypeOK, Undone, Before
<1>3. Recorded' /\ applied' # 0
  <2>1. NextId \in Ids
    BY <1>2 DEF Typed, QueueTyped
  <2>2. With(store, NextId, RowsOf(cmd.sets)) \in Contents
    BY <1>2, <2>1, CommandKnown, RowsOfType, WithType
  <2> QED
    BY <1>1, <2>1, <2>2, MadeRecorded DEF AddDirectly
<1>4. TypeOK'
  BY <1>1, <1>3, MovesOn DEF Typed, TypeOK
<1>5. Path'
  BY <1>1, <1>2 DEF Typed, Path, Steps, AtTheStore, LabelSteps, ListSteps
<1>6. QueueTyped' /\ Undone'
  BY <1>1, <1>2, <1>3 DEF Typed, QueueTyped, LabelSteps, Undone, Before
<1> QED
  BY <1>4, <1>5, <1>6 DEF Typed

LEMMA ChangeDirectlyTyped == ASSUME Typed, ChangeDirectly PROVE Typed'
<1> USE DEF Running, Failure, NotFound
<1>1. /\ step = "change" /\ UNCHANGED <<daemonVars, cmd, conn, req, answer, hold, out, changes>>
      /\ \/ step' = "exited" /\ exit' \in {0, Failure, NotFound}
         \/ step' = "change" /\ exit' = exit
      /\ todo' = todo \/ (todo # <<>> /\ todo' = Tail(todo))
  BY DEF ChangeDirectly, Exit, Continue
<1>2. /\ ArgumentsOK(cmd) /\ cmd.kind \in {"update", "delete"} /\ ~Whole(cmd) /\ store \in Contents
      /\ todo \in Seq(Edit) /\ req = "none" /\ exit = Running
  BY <1>1 DEF Typed, Path, TypeOK, QueueTyped
<1>3. Untouched \/ Recorded'
  <2>1. ASSUME todo # <<>>, ~Refused(store, cmd.id, Head(todo)),
               Made(Edited(store, cmd.id, Head(todo)), 1, {cmd.id})
        PROVE  Recorded'
    <3>1. Head(todo) \in Edit /\ cmd.id \in store.live
      BY <1>2, <2>1 DEF Refused
    <3>2. Edited(store, cmd.id, Head(todo)) \in Contents /\ {cmd.id} \in SUBSET Ids
      BY <1>2, <3>1, EditedType DEF Edit, Contents
    <3> QED
      BY <1>1, <1>2, <2>1, <3>2, MadeRecorded
  <2> QED
    BY <2>1 DEF ChangeDirectly
<1>4. TypeOK'
  BY <1>1, <1>2, <1>3, MovesOn DEF Typed, TypeOK
<1>5. Path'
  BY <1>1, <1>2 DEF Typed, Path, Steps, AtTheStore, LabelSteps, ListSteps
<1>6. QueueTyped'
  <2>1. todo' \in Seq(Edit)
    BY <1>1, <1>2
  <2> QED
    BY <1>1, <1>2, <2>1 DEF QueueTyped, LabelSteps
<1>7. Undone'
  BY <1>1, <1>2 DEF Undone, Before
<1> QED
  BY <1>4, <1>5, <1>6, <1>7 DEF Typed

LEMMA DeletesTyped == ASSUME Typed, DeleteDirectly \/ PruneDirectly PROVE Typed'
<1> USE DEF Running, Failure, NotFound
<1>1. /\ step \in {"delete", "prune"} /\ step' = "exited" /\ exit' \in {0, Failure, NotFound}
      /\ UNCHANGED <<daemonVars, cmd, conn, req, answer, todo, hold, out, changes>>
  BY DEF DeleteDirectly, PruneDirectly, Exit
<1>2. cmd.kind = "delete" /\ store \in Contents /\ req = "none" /\ exit = Running
  BY <1>1 DEF Typed, Path, TypeOK, Whole, Prunes
<1>3. Untouched \/ Recorded'
  <2>1. ASSUME NEW ks, Made(Without(store, ks), 1, ks), ks \in SUBSET store.live PROVE Recorded'
    <3>1. Without(store, ks) \in Contents /\ ks \in SUBSET Ids
      BY <1>2, <2>1, WithoutType DEF Contents
    <3> QED
      BY <1>1, <1>2, <2>1, <3>1, MadeRecorded
  <2>2. CASE DeleteDirectly
    BY <2>1, <2>2 DEF DeleteDirectly
  <2>3. CASE PruneDirectly
    BY <2>1, <2>3 DEF PruneDirectly
  <2> QED
    BY <2>2, <2>3
<1>4. TypeOK'
  BY <1>1, <1>2, <1>3, MovesOn DEF Typed, TypeOK
<1>5. Path'
  BY <1>1, <1>2 DEF Typed, Path, Steps, AtTheStore, LabelSteps, ListSteps
<1>6. QueueTyped' /\ Undone'
  BY <1>1, <1>2 DEF Typed, QueueTyped, LabelSteps, Undone, Before
<1> QED
  BY <1>4, <1>5, <1>6 DEF Typed

\* Reading.
LEMMA PrefixType ==
  ASSUME NEW T, NEW s \in Seq(T), NEW n \in Nat
  PROVE  /\ Prefix(s, n) \in Seq(T) /\ Len(Prefix(s, n)) \in 0 .. n
         /\ Len(Prefix(s, n)) = n \/ Prefix(s, n) = s
         /\ \A k \in DOMAIN Prefix(s, n) : k \in DOMAIN s /\ Prefix(s, n)[k] = s[k]
<1>1. {n, Len(s)} \in SUBSET (0 .. n + Len(s)) /\ n + Len(s) \in Nat
  OBVIOUS
<1>2. Min({n, Len(s)}) = IF n <= Len(s) THEN n ELSE Len(s)
  BY DEF Min
<1>3. Min({n, Len(s)}) \in 0 .. Len(s)
  BY <1>2
<1>4. Prefix(s, n) = [k \in 1 .. Min({n, Len(s)}) |-> s[k]]
  BY <1>3 DEF Prefix
<1>5. s = [k \in 1 .. Len(s) |-> s[k]] /\ DOMAIN s = 1 .. Len(s) /\ Len(s) \in Nat
  OBVIOUS
<1> DEFINE m == Min({n, Len(s)})
<1>6. m \in Nat /\ m <= n /\ m <= Len(s) /\ (m = n \/ m = Len(s))
  BY <1>2
<1>7. \A k \in 1 .. m : k \in 1 .. Len(s) /\ s[k] \in T
  BY <1>6
<1> HIDE DEF m
<1>8. Prefix(s, n) \in [1 .. m -> T] /\ DOMAIN Prefix(s, n) = 1 .. m
  BY <1>4, <1>7 DEF m
<1>9. Prefix(s, n) \in Seq(T) /\ Len(Prefix(s, n)) = m
  BY <1>6, <1>8, FunctionsAreSequences
<1>10. m = Len(s) => Prefix(s, n) = s
  BY <1>4, <1>5 DEF m
<1>11. Prefix(s, n) = [k \in 1 .. m |-> s[k]]
  BY <1>4 DEF m
<1> QED
  BY <1>5, <1>6, <1>7, <1>8, <1>9, <1>10, <1>11

LEMMA NewestFirstType ==
  ASSUME NEW S \in SUBSET Ids PROVE NewestFirst(S) \in Seq(S)
<1>1. Ascending(S) \in Seq(S)
  BY IdsAreNumbers, AscendingLists
<1> DEFINE a == Ascending(S)
<1> HIDE DEF a
<1>2. a \in Seq(S) => Reverse(a) \in Seq(S)
  BY DEF Reverse
<1> QED
  BY <1>1, <1>2 DEF NewestFirst, a

LEMMA SelectedType == ASSUME NEW s \in Contents PROVE Selected(s) \in SUBSET Ids
BY DEF Selected, Contents

LEMMA ReadsMove ==
  ASSUME Typed, Reads, exit = Running, req = "none",
         \/ exit' \in {0, NotFound} /\ step' = "exited"
         \/ step' # "exited" /\ exit' = exit,
         hold' \in Data \cup {NoData}
  PROVE  TypeOK'
BY MovesOn DEF Reads, Typed, TypeOK, Running, NotFound

LEMMA ListIdsTyped == ASSUME Typed, ListIds PROVE Typed'
<1>1. step = "ids" /\ step' = "item" /\ exit' = exit /\ Reads /\ UNCHANGED <<hold, out>>
  BY DEF ListIds, Continue
<1>2. cmd.kind = "list" /\ ArgumentsOK(cmd) /\ req = "none" /\ exit = Running
  BY <1>1 DEF Typed, Path, TypeOK, ListSteps
<1>3. todo' \in Seq(Ids)
  <2> DEFINE S == Selected(store)
  <2>1. S \in SUBSET Ids /\ cmd.limit \in Nat
    BY SelectedType, CommandAssumption DEF Typed, TypeOK, Command
  <2> HIDE DEF S
  <2>2. Prefix(NewestFirst(S), cmd.limit) \in Seq(S)
    BY <2>1, NewestFirstType, PrefixType
  <2>3. Prefix(NewestFirst(S), cmd.limit) \in Seq(Ids)
    BY <2>1, <2>2
  <2> QED
    BY <2>3 DEF ListIds, S
<1>4. TypeOK'
  BY <1>1, <1>2, ReadsMove DEF Typed, TypeOK
<1>5. Path' /\ QueueTyped' /\ Undone'
  BY <1>1, <1>2, <1>3 DEF Typed, Path, QueueTyped, Undone, Steps, AtTheStore, LabelSteps, ListSteps, Reads, Before
<1> QED
  BY <1>4, <1>5 DEF Typed

LEMMA FindItemTyped == ASSUME Typed, FindItem PROVE Typed'
<1> USE DEF Running, NotFound
<1>1. /\ step = "item" /\ Reads /\ UNCHANGED <<todo, hold, out>>
      /\ cmd.kind = "list" => todo # <<>>
      /\ \/ step' = (IF cmd.kind = "list" THEN "rows" ELSE "require") /\ exit' = exit
         \/ step' = "exited" /\ exit' = NotFound
  BY DEF FindItem, Continue, Exit
<1>2. cmd.kind \in {"list", "inspect"} /\ ArgumentsOK(cmd) /\ req = "none" /\ exit = Running
  BY <1>1 DEF Typed, Path, TypeOK
<1>4. TypeOK'
  BY <1>1, <1>2, ReadsMove DEF Typed, TypeOK
<1>5. Path' /\ QueueTyped' /\ Undone'
  BY <1>1, <1>2 DEF Typed, Path, QueueTyped, Undone, Steps, AtTheStore, LabelSteps, ListSteps, Reads, Before
<1> QED
  BY <1>4, <1>5 DEF Typed

LEMMA ListRowsTyped == ASSUME Typed, ListRows PROVE Typed'
<1>1. step = "rows" /\ Reads /\ step' = "item" /\ exit' = exit /\ UNCHANGED hold
  BY DEF ListRows, Continue
<1>2. cmd.kind = "list" /\ ArgumentsOK(cmd) /\ req = "none" /\ exit = Running
  BY <1>1 DEF Typed, Path, TypeOK, ListSteps
<1>3. todo \in Seq(Ids) /\ todo # <<>> /\ out \in Seq(Entry) /\ store \in Contents
  BY <1>1, <1>2 DEF Typed, QueueTyped, TypeOK
<1>4. Head(todo) \in Ids /\ todo' \in Seq(Ids)
  BY <1>3 DEF ListRows
<1>5. [id |-> Head(todo), formats |-> store.rows[Head(todo)], label |-> NoData] \in Entry
  BY <1>3, <1>4 DEF Entry, Rows, Contents
<1>6. out' \in Seq(Entry)
  <2> DEFINE e == [id |-> Head(todo), formats |-> store.rows[Head(todo)], label |-> NoData]
  <2>1. e \in Entry /\ out' = Append(out, e)
    BY <1>5 DEF ListRows
  <2> HIDE DEF e
  <2> QED
    BY <1>3, <2>1
<1>7. TypeOK'
  BY <1>1, <1>2, ReadsMove DEF Typed, TypeOK
<1>8. Path' /\ QueueTyped' /\ Undone'
  BY <1>1, <1>2, <1>4, <1>6 DEF Typed, Path, QueueTyped, Undone, Steps, AtTheStore, LabelSteps, ListSteps, Reads, Before
<1> QED
  BY <1>7, <1>8 DEF Typed

LEMMA ListItemsTyped == ASSUME Typed, ListItems PROVE Typed'
<1>1. /\ step = "item" /\ cmd.kind = "list" /\ Reads /\ step' = "label row" /\ exit' = exit
      /\ UNCHANGED <<hold, out>>
  BY DEF ListItems, Continue
<1>2. ArgumentsOK(cmd) /\ req = "none" /\ exit = Running
  BY <1>1 DEF Typed, Path, TypeOK
<1>3. todo' \in Seq(DOMAIN out)
  <2>1. DOMAIN out = 1 .. Len(out) /\ Len(out) \in Nat
    <3>1. out \in Seq(Entry)
      BY <1>1 DEF Typed, QueueTyped
    <3> QED
      BY <3>1
  <2>2. todo' \in [1 .. Len(out) -> DOMAIN out]
    BY <2>1 DEF ListItems
  <2> QED
    BY <2>1, <2>2, FunctionsAreSequences
<1>4. TypeOK'
  BY <1>1, <1>2, ReadsMove DEF Typed, TypeOK
<1>5. Path' /\ QueueTyped' /\ Undone'
  BY <1>1, <1>2, <1>3 DEF Typed, Path, QueueTyped, Undone, Steps, AtTheStore, LabelSteps, ListSteps, Reads, Before
<1> QED
  BY <1>4, <1>5 DEF Typed

LEMMA LabelsTyped ==
  ASSUME Typed, LabelRow \/ LabelNone \/ LabelFile \/ LabelFileGone PROVE Typed'
<1>1. /\ step \in LabelSteps /\ step' \in LabelSteps /\ exit' = exit /\ Reads
      /\ \/ todo' = todo /\ todo # <<>>
         \/ todo' = Tail(todo) /\ step' = "label row"
  BY DEF LabelRow, LabelNone, LabelFile, LabelFileGone, Continue, LabelSteps, Typed, QueueTyped
<1>2. cmd.kind = "list" /\ ArgumentsOK(cmd) /\ req = "none" /\ exit = Running
  BY <1>1 DEF Typed, Path, TypeOK, LabelSteps, ListSteps
<1>3. /\ todo \in Seq(DOMAIN out) /\ todo # <<>> /\ out \in Seq(Entry)
      /\ store \in Contents /\ hold \in Data \cup {NoData}
  <2>1. todo # <<>>
    BY DEF LabelRow, LabelNone, LabelFile, LabelFileGone, Typed, QueueTyped
  <2> QED
    BY <1>1, <1>2, <2>1 DEF Typed, QueueTyped, TypeOK
<1>4. Head(todo) \in DOMAIN out /\ todo' \in Seq(DOMAIN out)
  <2> DEFINE D == DOMAIN out
  <2>1. todo \in Seq(D)
    BY <1>3
  <2> HIDE DEF D
  <2>2. Head(todo) \in D /\ Tail(todo) \in Seq(D)
    BY <1>3, <2>1
  <2> QED
    BY <1>1, <2>1, <2>2 DEF D
<1>5. hold' \in Data \cup {NoData}
  <2>1. CASE LabelRow
    <3>1. out[Head(todo)] \in Entry
      BY <1>3, <1>4
    <3>2. store.rows[out[Head(todo)].id] \in Rows
      BY <1>3, <3>1 DEF Entry, Contents, Rows
    <3>3. Label \in Mimes /\ Text \in Mimes
      BY MimesAssumption
    <3> QED
      BY <2>1, <3>2, <3>3 DEF LabelRow, Rows
  <2> QED
    BY <1>3, <2>1 DEF LabelNone, LabelFile, LabelFileGone
<1>6. out' \in Seq(Entry) /\ DOMAIN out' = DOMAIN out
  <2>1. CASE LabelFile
    <3> DEFINE e == [out[Head(todo)] EXCEPT !.label = hold]
    <3>1. out' = [out EXCEPT ![Head(todo)] = e]
      BY <1>3, <1>4, <2>1 DEF LabelFile
    <3>2. e \in Entry
      <4>1. out[Head(todo)] \in Entry
        BY <1>3, <1>4
      <4> QED
        BY <1>3, <4>1 DEF Entry
    <3> HIDE DEF e
    <3> QED
      BY <1>3, <1>4, <3>1, <3>2
  <2> QED
    BY <1>3, <2>1 DEF LabelNone, LabelRow, LabelFileGone
<1>7. TypeOK'
  BY <1>1, <1>2, <1>5, ReadsMove DEF Typed, TypeOK, LabelSteps
<1>8. Path' /\ QueueTyped' /\ Undone'
  BY <1>1, <1>2, <1>3, <1>4, <1>6 DEF Typed, Path, QueueTyped, Undone, Steps, AtTheStore, LabelSteps, ListSteps, Reads, Before
<1> QED
  BY <1>7, <1>8 DEF Typed

LEMMA PrintListTyped == ASSUME Typed, PrintList PROVE Typed'
<1> USE DEF Running, NotFound
<1>1. step = "label row" /\ step' = "exited" /\ exit' = 0 /\ Reads /\ UNCHANGED <<todo, hold, out>>
  BY DEF PrintList, Exit
<1>2. req = "none" /\ exit = Running
  BY <1>1 DEF Typed, Path, TypeOK
<1>4. TypeOK'
  BY <1>1, <1>2, ReadsMove DEF Typed, TypeOK
<1>5. Path' /\ QueueTyped' /\ Undone'
  BY <1>1, <1>2 DEF Typed, Path, QueueTyped, Undone, Steps, AtTheStore, LabelSteps, ListSteps, Reads, Before
<1> QED
  BY <1>4, <1>5 DEF Typed

\* The commands that read one item.
LEMMA ReadOneTyped ==
  ASSUME Typed, RequireItem \/ GetFormats \/ DecodeRow \/ DecodeFile \/ DecodeFileGone
  PROVE  Typed'
<1> USE DEF Running, NotFound
<1>1. /\ step \in {"require", "formats", "row", "file"} /\ Reads
      /\ \/ step' = "exited" /\ exit' \in {0, NotFound}
         \/ step = "require" /\ step' = "formats" /\ exit' = exit
         \/ step = "row" /\ step' = "file" /\ exit' = exit
  BY DEF RequireItem, GetFormats, DecodeRow, DecodeFile, DecodeFileGone, Exit, Continue
<1>2. /\ cmd.kind \in {"formats", "inspect", "decode"} /\ ArgumentsOK(cmd) /\ req = "none" /\ exit = Running
      /\ step = "row" => cmd.kind = "decode"
  BY <1>1 DEF Typed, Path, TypeOK
<1>3. hold' \in Data \cup {NoData}
  <2>1. CASE DecodeRow
    <3>1. cmd.id \in Ids /\ cmd.mime \in Mimes /\ store \in Contents
      BY <1>2, <2>1, CommandAssumption DEF DecodeRow, ArgumentsOK, Typed, TypeOK, Command
    <3> QED
      BY <2>1, <3>1 DEF DecodeRow, Contents
  <2> QED
    BY <2>1 DEF RequireItem, GetFormats, DecodeFile, DecodeFileGone, Typed, TypeOK
<1>4. TypeOK'
  BY <1>1, <1>2, <1>3, ReadsMove
<1>5. Path' /\ QueueTyped' /\ Undone'
  BY <1>1, <1>2 DEF Typed, Path, QueueTyped, Undone, Steps, AtTheStore, LabelSteps, ListSteps, Reads, Before
<1> QED
  BY <1>4, <1>5 DEF Typed

\* The others.
LEMMA OthersChangeTyped == ASSUME Typed, OthersChange PROVE Typed'
<1> USE DEF Running
<1>1. /\ exit = Running /\ changes' = changes + 1
      /\ UNCHANGED <<daemonVars, cmd, step, exit, conn, req, answer, todo, hold, out, applied, hit>>
  BY DEF OthersChange, OthersStore
<1>2. store \in Contents /\ past \in SUBSET Contents /\ store \in past
  BY <1>1 DEF Typed, TypeOK
<1>3. changes' \in 0 .. MaxChanges
  BY <1>1, NumberAssumption DEF OthersChange, Typed, TypeOK
<1> DEFINE P == past \cup {store}
           s == store'
<1>4. /\ s \in Contents /\ past' = past \cup {s}
      /\ NextId \in Ids => \A k \in s.live : k < L
  <2>1. NextId \in 1 .. L + 1 /\ NextId = Above(P) /\ \A k \in store.live : k < NextId
    BY <1>2, AboveAll, NextIdIsAbove
  <2>2. past' = past \cup {s}
    BY <1>1 DEF OthersChange, OthersStore, Becomes
  <2>3. NextId \in Ids => \A k \in store.live : k < L
    <3>1. \A k \in store.live : k \in 1 .. L
      BY <1>2, IdsAreNumbers DEF Contents
    <3>2. NextId \in 1 .. L + 1 /\ \A k \in store.live : k < NextId
      BY <2>1
    <3>3. NextId \in Ids => NextId <= L
      BY IdsAreNumbers
    <3> QED
      BY <3>1, <3>2, <3>3, IdsAreNumbers
  <2>4. ASSUME NEW m \in Mimes, NEW data \in OthersData, NextId + 1 \in Ids,
               OthersStore(With(store, NextId, [NoRows EXCEPT ![m] = data]))
        PROVE  s \in Contents /\ \A k \in s.live : k < L
    <3>1. NextId \in Ids /\ NextId < L
      BY <2>1, <2>4, IdsAreNumbers
    <3>2. [NoRows EXCEPT ![m] = data] \in Rows
      BY NoRowsType, DataAssumption DEF Rows
    <3>3. s = With(store, NextId, [NoRows EXCEPT ![m] = data])
      BY <2>4 DEF OthersStore, Becomes
    <3>4. s \in Contents /\ s.live = store.live \cup {NextId}
      BY <1>2, <3>1, <3>2, <3>3, WithType DEF With
    <3> QED
      BY <2>3, <3>1, <3>4
  <2>5. ASSUME NEW k \in store.live, OthersStore(Without(store, {k}))
        PROVE  s \in Contents /\ s.live \in SUBSET store.live
    <3>1. s = Without(store, {k})
      BY <2>5 DEF OthersStore, Becomes
    <3> QED
      BY <1>2, <3>1, WithoutType DEF Without
  <2>6. ASSUME NEW k \in store.live, NEW m \in Mimes, NEW data \in OthersData \cup {NoData},
               OthersStore(Edited(store, k, [mime |-> m, data |-> data]))
        PROVE  s \in Contents /\ s.live = store.live
    <3>1. s = Edited(store, k, [mime |-> m, data |-> data])
      BY <2>6 DEF OthersStore, Becomes
    <3>2. s \in Contents
      BY <1>2, <3>1, EditedType, DataAssumption
    <3> QED
      BY <1>2, <3>1, <3>2 DEF Edited, Contents
  <2> QED
    BY <2>2, <2>3, <2>4, <2>5, <2>6 DEF OthersChange
<1>5. TypeOK'
  BY <1>1, <1>2, <1>3, <1>4 DEF Typed, TypeOK, InstanceTypeOK, daemonVars
<1>6. Path' /\ Undone'
  BY <1>1 DEF Typed, Path, Undone
<1>7. ASSUME NextId \in Ids PROVE NextId' \in Ids
  <2> DEFINE Q == past' \cup {s}
  <2>1. L \in Nat /\ L # 0 /\ \A t \in P : \A k \in t.live : k < L
    <3>1. \A t \in P : \A k \in t.live : k < NextId /\ k \in Nat
      <4>1. P \in SUBSET Contents /\ \A t \in Contents : \A k \in t.live : k \in Nat
        BY <1>2, IdsAreNumbers DEF Contents
      <4> QED
        BY <4>1, AboveAll, NextIdIsAbove
    <3> HIDE DEF P
    <3> QED
      BY <1>7, <3>1, IdsAreNumbers
  <2>2. \A t \in Q : \A k \in t.live : k < L
    BY <1>2, <1>4, <1>7, <2>1
  <2>3. Q \in SUBSET Contents
    BY <1>2, <1>4
  <2> HIDE DEF Q
  <2>4. Above(Q) \in 1 .. L + 1 /\ Above(Q) <= L
    BY <2>1, <2>2, <2>3, AboveAll
  <2>5. NextId' = Above(Q)
    BY DEF NextId, Above, Q
  <2> QED
    BY <2>1, <2>4, <2>5, IdsAreNumbers
<1>8. QueueTyped'
  BY <1>1, <1>7 DEF Typed, QueueTyped, LabelSteps
<1> QED
  BY <1>5, <1>6, <1>8 DEF Typed

LEMMA DaemonsTyped == ASSUME Typed, DaemonsStep PROVE Typed'
<1>1. UNCHANGED commandVars
  BY DEF DaemonsStep
<1>2. InstanceTypeOK'
  <2> PICK d \in Daemons : DaemonStep(d)
    BY DEF DaemonsStep
  <2>1. InstanceTypeOK /\ Reached \in Daemons \cup {NoDaemon}
    BY DEF Typed, TypeOK, Reached, Listening
  <2>2. CASE Launch(d) \/ Check(d) \/ ConnectProbe(d) \/ Probe(d)
    BY <2>1, <2>2 DEF Launch, Check, ConnectProbe, Probe, Go, NoteOverlap, InstanceTypeOK, Stages, Starting, Ended
  <2>3. CASE RemoveStale(d) \/ OpenStore(d) \/ Bind(d) \/ Quit(d) \/ CleanUp(d) \/ CrashDaemon(d)
    BY <2>1, <2>3 DEF RemoveStale, OpenStore, Bind, Quit, CleanUp, CrashDaemon, Go, NoteOverlap,
       InstanceTypeOK, Stages, Starting, Ended
  <2> QED
    BY <2>2, <2>3 DEF DaemonStep, StartUp
<1>3. TypeOK' /\ Path' /\ Undone'
  BY <1>1, <1>2 DEF Typed, TypeOK, Path, Undone, commandVars
<1>4. QueueTyped'
  BY <1>1, SameNextId DEF Typed, QueueTyped, commandVars
<1> QED
  BY <1>3, <1>4 DEF Typed

LEMMA InitTyped == Init => Typed
<1> SUFFICES ASSUME Init PROVE Typed
  OBVIOUS
<1> USE DEF Init
<1>1. store \in Contents /\ \E k \in Ids : \A j \in store.live : j < k
  BY StoresAssumption
<1>2. TypeOK
  <2>1. InstanceTypeOK
    BY DEF InstanceInit, InstanceTypeOK, Stages
  <2>2. 0 \in 0 .. MaxChanges
    BY NumberAssumption
  <2> QED
    BY <1>1, <2>1, <2>2 DEF TypeOK, Running
<1>3. Path /\ Undone
  BY DEF Path, Undone, Steps, ListSteps
<1>4. NextId \in Ids
  <2> PICK k \in Ids : \A j \in store.live : j < k
    BY <1>1
  <2>1. k \in Nat /\ k # 0 /\ k <= L /\ NextId = Above({store})
    <3>1. past \cup {store} = {store}
      OBVIOUS
    <3>2. NextId = Above({store})
      BY <3>1, NextIdIsAbove
    <3>3. k \in 1 .. L
      BY IdsAreNumbers
    <3> QED
      BY <3>2, <3>3, IdsAreNumbers
  <2>2. Above({store}) \in 1 .. L + 1 /\ Above({store}) <= k
    BY <1>1, <2>1, AboveAll
  <2> QED
    BY <2>1, <2>2, IdsAreNumbers
<1>5. QueueTyped
  BY <1>4 DEF QueueTyped, LabelSteps
<1> QED
  BY <1>2, <1>3, <1>5 DEF Typed

LEMMA StutterTyped == ASSUME Typed, UNCHANGED vars PROVE Typed'
<1>1. UNCHANGED commandVars /\ UNCHANGED daemonVars
  BY DEF vars
<1>2. TypeOK' /\ Path' /\ Undone'
  BY <1>1 DEF Typed, TypeOK, Path, Undone, commandVars, daemonVars, InstanceTypeOK
<1>3. QueueTyped'
  BY <1>1, SameNextId DEF Typed, QueueTyped, commandVars
<1> QED
  BY <1>2, <1>3 DEF Typed

LEMMA TypedStep == ASSUME Typed, Next PROVE Typed'
<1>1. CASE ParseArguments \/ Age \/ Route \/ Receive \/ NoAnswer \/ GiveUp \/ Open \/ StoreFails
  BY <1>1, ParseArgumentsTyped, AgeTyped, RouteTyped, ReceiveTyped, FailsTyped, OpenTyped
<1>2. CASE Execute \/ ExecuteFails \/ AddDirectly \/ ChangeDirectly \/ DeleteDirectly \/ PruneDirectly
  BY <1>2, ExecuteTyped, ExecuteFailsTyped, AddDirectlyTyped, ChangeDirectlyTyped, DeletesTyped
<1>3. CASE \/ ListIds \/ FindItem \/ ListRows \/ ListItems \/ PrintList
           \/ LabelRow \/ LabelNone \/ LabelFile \/ LabelFileGone
  BY <1>3, ListIdsTyped, FindItemTyped, ListRowsTyped, ListItemsTyped, PrintListTyped, LabelsTyped
<1>4. CASE RequireItem \/ GetFormats \/ DecodeRow \/ DecodeFile \/ DecodeFileGone
  BY <1>4, ReadOneTyped
<1>5. CASE OthersChange \/ DaemonsStep
  BY <1>5, OthersChangeTyped, DaemonsTyped
<1> QED
  BY <1>1, <1>2, <1>3, <1>4, <1>5 DEF Next, CommandStep

\* The inductive invariant, whatever the command (bin/richclip.rs).
THEOREM TypedHolds == Spec => []Typed
<1>1. Typed /\ [Next]_vars => Typed'
  BY TypedStep, StutterTyped
<1> QED
  BY <1>1, InitTyped, PTL DEF Spec

\* Every command keeps to its types, at each of its steps (bin/richclip.rs).
THEOREM TypeCorrect == Spec => []TypeOK
<1>1. Typed => TypeOK
  BY DEF Typed
<1> QED
  BY <1>1, TypedHolds, PTL
-----------------------------------------------------------------------------
(***************************************************************************)
(* Reading one item.  What a statement finds is the store of that moment,  *)
(* which is in past; what it leaves for the next one is remembered.        *)
(***************************************************************************)
Held(k, mime) == {s.rows[k][mime] : s \in past}

ReadInv ==
    /\ ReadsTruthful
    /\ step = "file" => hold \in Held(cmd.id, cmd.mime) \ {NoData}
    /\ step = "formats" => \E s \in past : cmd.id \in s.live

ReadsOne == cmd.kind \in {"decode", "formats", "inspect"}

LEMMA PastGrows == ASSUME Next PROVE past \subseteq past' /\ cmd' = cmd
<1>1. CASE Execute \/ ExecuteFails
  BY <1>1 DEF Execute, ExecuteFails, Untouched, Made, Becomes
<1>2. CASE OthersChange
  BY <1>2 DEF OthersChange, OthersStore, Becomes
<1>3. CASE DaemonsStep
  BY <1>3 DEF DaemonsStep, commandVars
<1>4. CASE AddDirectly \/ ChangeDirectly \/ DeleteDirectly \/ PruneDirectly
  BY <1>4 DEF AddDirectly, ChangeDirectly, DeleteDirectly, PruneDirectly, Untouched, Made, Becomes
<1>5. CASE ParseArguments \/ Age \/ Route \/ Receive \/ NoAnswer \/ GiveUp \/ Open \/ StoreFails
  BY <1>5 DEF ParseArguments, Age, Route, Receive, NoAnswer, GiveUp, Open, StoreFails, Untouched
<1>6. CASE \/ ListIds \/ FindItem \/ ListRows \/ ListItems \/ PrintList
           \/ LabelRow \/ LabelNone \/ LabelFile \/ LabelFileGone
           \/ RequireItem \/ GetFormats \/ DecodeRow \/ DecodeFile \/ DecodeFileGone
  BY <1>6 DEF ListIds, FindItem, ListRows, ListItems, PrintList, LabelRow, LabelNone, LabelFile,
     LabelFileGone, RequireItem, GetFormats, DecodeRow, DecodeFile, DecodeFileGone, Reads, Untouched
<1> QED
  BY <1>1, <1>2, <1>3, <1>4, <1>5, <1>6 DEF Next, CommandStep

\* What a command that reads one item can do.
LEMMA ReadingSteps ==
  ASSUME Typed, Next, ReadsOne
  PROVE  \/ step' \notin {"file", "formats"} /\ exit' \in {Running, Failure}
         \/ UNCHANGED <<step, exit, hold, out>>
         \/ FindItem \/ RequireItem \/ GetFormats \/ DecodeRow \/ DecodeFile \/ DecodeFileGone
<1> USE DEF Running, Failure
<1>1. step \in {"args", "open", "exited", "item", "require", "formats", "row", "file"} /\ req = "none"
      /\ (step = "item" => cmd.kind = "inspect") /\ exit \in {Running, 0, Failure, NotFound, Panic}
  BY DEF Typed, TypeOK, Path, Steps, AtTheStore, LabelSteps, ListSteps, Routed, Prunes, Whole, ReadsOne
<1>2. CASE Execute \/ ExecuteFails
  BY <1>1, <1>2 DEF Execute, ExecuteFails
<1>3. CASE OthersChange \/ DaemonsStep
  BY <1>3 DEF OthersChange, OthersStore, DaemonsStep, commandVars
<1>4. CASE AddDirectly \/ ChangeDirectly \/ DeleteDirectly \/ PruneDirectly
  BY <1>1, <1>4 DEF AddDirectly, ChangeDirectly, DeleteDirectly, PruneDirectly
<1>5. CASE ParseArguments \/ Age \/ Route \/ Receive \/ NoAnswer \/ GiveUp \/ StoreFails
  BY <1>1, <1>5 DEF ParseArguments, Age, Route, Receive, NoAnswer, GiveUp, StoreFails, Exit, Continue,
     Typed, TypeOK
<1>6. CASE Open
  <2>1. exit' = exit /\ exit = Running
    BY <1>6 DEF Open, Continue, Typed, TypeOK
  <2>2. step' \notin {"file", "formats"}
    BY <1>6 DEF Open, Continue, ReadsOne, Prunes, Whole
  <2> QED
    BY <2>1, <2>2
<1>7. CASE ListIds \/ ListRows \/ ListItems \/ PrintList \/ LabelRow \/ LabelNone \/ LabelFile \/ LabelFileGone
  BY <1>1, <1>7 DEF ListIds, ListRows, ListItems, PrintList, LabelRow, LabelNone, LabelFile, LabelFileGone, ReadsOne
<1> QED
  BY <1>2, <1>3, <1>4, <1>5, <1>6, <1>7 DEF Next, CommandStep

LEMMA ReadInvInit == Init => ReadInv
BY DEF Init, ReadInv, ReadsTruthful, Running, NotFound

LEMMA ReadInvStep ==
  ASSUME Typed, ReadInv, Next PROVE ReadInv'
<1> USE DEF Running, NotFound, Failure
<1>1. past \subseteq past' /\ cmd' = cmd
  BY PastGrows
<1>2. CASE ~ReadsOne
  <2>1. cmd.kind \notin {"decode", "formats", "inspect"} /\ Path'
    <3>1. Typed'
      BY TypedStep
    <3> QED
      BY <1>2, <3>1 DEF ReadsOne, Typed
  <2> QED
    BY <1>1, <2>1 DEF ReadInv, ReadsTruthful, Path
<1>3. ASSUME ReadsOne, step' \notin {"file", "formats"}, exit' \in {Running, Failure} PROVE ReadInv'
  BY <1>3 DEF ReadInv, ReadsTruthful
<1>4. ASSUME ReadsOne, UNCHANGED <<step, exit, hold, out>> PROVE ReadInv'
  BY <1>1, <1>4 DEF ReadInv, ReadsTruthful, Held
<1>5. ASSUME ReadsOne, FindItem \/ RequireItem \/ GetFormats PROVE ReadInv'
  <2>1. store \in past /\ past' = past /\ exit = Running /\ cmd.kind \in {"formats", "inspect"}
    BY <1>5 DEF FindItem, RequireItem, GetFormats, Reads, Untouched, Typed, TypeOK, Path, ReadsOne
  <2>2. CASE FindItem \/ RequireItem
    BY <1>1, <2>1, <2>2 DEF FindItem, RequireItem, Exit, Continue, ReadInv, ReadsTruthful
  <2>3. CASE GetFormats
    BY <1>1, <2>1, <2>3 DEF GetFormats, Exit, Continue, ReadInv, ReadsTruthful
  <2> QED
    BY <1>5, <2>2, <2>3
<1>6. ASSUME ReadsOne, DecodeRow \/ DecodeFile \/ DecodeFileGone PROVE ReadInv'
  <2>1. /\ store \in past /\ past' = past /\ exit = Running /\ cmd.kind = "decode" /\ store \in Contents
        /\ cmd.id \in Ids /\ cmd.mime \in Mimes
    <3>1. ArgumentsOK(cmd) /\ cmd.kind = "decode"
      BY <1>6 DEF DecodeRow, DecodeFile, DecodeFileGone, Typed, Path
    <3>2. cmd.id \in Ids /\ cmd.mime \in Mimes
      BY <3>1, CommandAssumption DEF ArgumentsOK, Typed, TypeOK, Command
    <3> QED
      BY <1>6, <3>1, <3>2 DEF DecodeRow, DecodeFile, DecodeFileGone, Reads, Untouched, Typed, TypeOK, Path
  <2>2. store.rows[cmd.id][cmd.mime] \in Held(cmd.id, cmd.mime)
    BY <2>1 DEF Held
  <2>3. CASE DecodeRow
    BY <1>1, <2>1, <2>2, <2>3 DEF DecodeRow, Exit, Continue, ReadInv, ReadsTruthful, Held
  <2>4. CASE DecodeFile
    BY <1>1, <2>1, <2>4 DEF DecodeFile, Exit, ReadInv, ReadsTruthful, Held
  <2>5. CASE DecodeFileGone
    <3>1. store.rows[cmd.id][cmd.mime] # hold
      BY <2>1, <2>5 DEF DecodeFileGone, Referenced, Contents, NoRows, ReadInv
    <3>2. hold \in Held(cmd.id, cmd.mime) /\ step' = "exited" /\ exit' = NotFound
      BY <2>5 DEF DecodeFileGone, Exit, ReadInv
    <3>3. \E d, e \in {s.rows[cmd.id][cmd.mime] : s \in past} : d # e
      BY <2>2, <3>1, <3>2 DEF Held
    <3>4. \E d, e \in {s.rows[cmd'.id][cmd'.mime] : s \in past'} : d # e
      BY <1>1, <2>1, <3>3
    <3>5. cmd'.kind = "decode"
      BY <1>1, <2>1
    <3>6. exit' # 0 /\ step' # "file" /\ step' # "formats" /\ cmd'.kind \notin {"formats", "inspect"}
      BY <3>2, <3>5
    <3>7. ReadsTruthful'
      BY <3>4, <3>6, Zenon DEF ReadsTruthful
    <3> QED
      BY <3>6, <3>7 DEF ReadInv
  <2> QED
    BY <1>6, <2>3, <2>4, <2>5
<1> QED
  BY <1>2, <1>3, <1>4, <1>5, <1>6, ReadingSteps

\* A command that reads one item tells what the item has held while the command
\* ran, or that it was missing when it was (Store::decode, formats, get_item).
THEOREM ReadsTruthfulHolds == Spec => []ReadsTruthful
<1>1. Typed /\ ReadInv /\ [Next]_vars => ReadInv'
  <2> SUFFICES ASSUME Typed, ReadInv, [Next]_vars PROVE ReadInv'
    OBVIOUS
  <2>1. CASE UNCHANGED vars
    <3>1. UNCHANGED <<cmd, step, exit, past, hold, out>>
      BY <2>1 DEF vars, commandVars
    <3> QED
      BY <3>1 DEF ReadInv, ReadsTruthful, Held
  <2> QED
    BY <2>1, ReadInvStep
<1>2. ReadInv => ReadsTruthful
  BY DEF ReadInv
<1> QED
  BY <1>1, <1>2, TypedHolds, ReadInvInit, PTL DEF Spec
-----------------------------------------------------------------------------
(***************************************************************************)
(* Exit codes.  What has been done for a command is known where its        *)
(* outcome is settled: in the answer, or in what is still to be done.      *)
(***************************************************************************)
Missing == \E s \in past :
    cmd.id \notin s.live \/ \E e \in ToSet(Edits(cmd)) : Refused(s, cmd.id, e)

Changing == cmd.kind \in {"add", "update", "delete"}

ExitInv == Changing =>
    /\ step = "change" => applied + Len(todo) = Wanted /\ ToSet(todo) \subseteq ToSet(Edits(cmd))
    /\ req = "done" /\ exit = Running => /\ answer = 0 => applied = Wanted
                                         /\ answer = NotFound => Missing
    /\ exit = 0 => applied = Wanted
    /\ exit = NotFound => Missing
    /\ req = "sent" => exit \in {Running, Failure}
    /\ applied <= Wanted
    /\ ~ArgumentsOK(cmd) => applied = 0 /\ exit \in {Running, Failure}
    /\ Prunes(cmd) => \A k \in hit : k < Cutoff(cmd)

\* Wanted and Missing are about a command that stays and a past that grows.
LEMMA WantedStays == cmd' = cmd => Wanted' = Wanted
BY DEF Wanted

LEMMA MissingStays == cmd' = cmd /\ past \subseteq past' /\ Missing => Missing'
BY DEF Missing

LEMMA WantedType ==
  ASSUME Typed, Changing
  PROVE  /\ Wanted \in Nat /\ (cmd.kind = "add" \/ Whole(cmd) => Wanted = 1)
         /\ cmd.kind \in {"update", "delete"} /\ ~Whole(cmd) => Wanted = Len(Edits(cmd))
         /\ Prunes(cmd) /\ ArgumentsOK(cmd) => Whole(cmd)
BY CommandKnown, EditsType DEF Wanted, Changing, Prunes, Whole, ArgumentsOK

LEMMA ExitInvInit == Init => ExitInv
<1> SUFFICES ASSUME Init, Changing PROVE ExitInv
  BY DEF ExitInv
<1>1. Wanted \in Nat
  BY InitTyped, WantedType
<1> QED
  BY <1>1 DEF Init, ExitInv, Running, NotFound

\* Steps that do nothing for the command.
LEMMA ExitInvIdle ==
  ASSUME Typed, ExitInv, Changing, cmd' = cmd, past \subseteq past',
         UNCHANGED <<step, exit, req, answer, todo, applied, hit>>
  PROVE  ExitInv'
BY WantedStays, MissingStays DEF ExitInv, Changing

LEMMA ExitInvMoves ==
  ASSUME Typed, ExitInv, Changing,
         ParseArguments \/ Age \/ Route \/ NoAnswer \/ GiveUp \/ StoreFails
  PROVE  ExitInv'
<1> USE DEF Running, Failure, NotFound, Panic
<1>1. /\ exit = Running /\ UNCHANGED <<cmd, answer, applied, hit>> /\ past' = past
      /\ step' # "change" /\ exit' \in {Running, Failure, Panic}
      /\ req' = req \/ req' = "sent"
      /\ req' = "done" => exit' = Failure
      /\ exit' = Panic => ArgumentsOK(cmd) /\ req' = "none"
  <2>1. CASE ParseArguments \/ Age \/ StoreFails
    <3>1. req = "none" /\ exit = Running /\ (step # "args" => ArgumentsOK(cmd))
      BY <2>1 DEF ParseArguments, Age, StoreFails, Typed, TypeOK, Path, AtTheStore
    <3> QED
      BY <2>1, <3>1 DEF ParseArguments, Age, StoreFails, Exit, Continue, Untouched
  <2>2. CASE Route
    BY <2>2 DEF Route, Exit, Continue, Untouched, Typed, TypeOK, Path
  <2>3. CASE NoAnswer \/ GiveUp
    BY <2>3 DEF NoAnswer, GiveUp, Exit, Untouched, Typed, TypeOK, Path
  <2> QED
    BY <2>1, <2>2, <2>3
<1> QED
  BY <1>1, WantedStays DEF ExitInv, Changing

LEMMA ExitInvReceive ==
  ASSUME Typed, ExitInv, Changing, Receive PROVE ExitInv'
<1>1. /\ req = "done" /\ exit = Running /\ exit' = answer /\ step' = "exited" /\ past' = past
      /\ UNCHANGED <<cmd, req, answer, applied, hit>> /\ answer \in {0, Failure, NotFound}
      /\ ArgumentsOK(cmd)
  BY DEF Receive, Exit, Untouched, Typed, TypeOK, Path, Running
<1> QED
  BY <1>1, WantedStays, MissingStays DEF ExitInv, Changing, Running, Failure, NotFound

LEMMA ExitInvOpen ==
  ASSUME Typed, ExitInv, Changing, Open PROVE ExitInv'
<1>1. /\ exit = Running /\ applied = 0 /\ req = "none" /\ past' = past
      /\ UNCHANGED <<cmd, exit, req, answer, applied, hit>>
      /\ step' = "change" => todo' = Edits(cmd)
  BY DEF Open, Continue, Untouched, Typed, TypeOK, Path, Undone, Before
<1>2. step' = "change" => cmd.kind \in {"update", "delete"} /\ ~Whole(cmd)
  BY DEF Open, Continue, Changing
<1>3. step' = "change" => applied' + Len(todo') = Wanted
  BY <1>1, <1>2, WantedType
<1> QED
  BY <1>1, <1>3, WantedStays DEF ExitInv, Changing, Running, NotFound

\* What a command does itself.
LEMMA ExitInvDirect ==
  ASSUME Typed, ExitInv, Changing, AddDirectly \/ DeleteDirectly \/ PruneDirectly PROVE ExitInv'
<1> USE DEF Running, Failure, NotFound
<1>1. /\ step \in {"add", "delete", "prune"} /\ applied = 0 /\ hit = {} /\ req = "none" /\ exit = Running
      /\ step' = "exited" /\ UNCHANGED <<cmd, req, answer>> /\ ArgumentsOK(cmd) /\ past \subseteq past'
      /\ store \in past
  BY DEF AddDirectly, DeleteDirectly, PruneDirectly, Exit, Untouched, Made, Becomes, Typed, TypeOK, Path,
     Undone, Before
<1>2. Wanted = 1
  BY <1>1, WantedType DEF Typed, Path, AddDirectly, DeleteDirectly, PruneDirectly
<1>3. Prunes(cmd) => step = "prune"
  BY <1>1 DEF Typed, Path, Prunes
<1>4. \/ applied' = 1 /\ exit' \in {0, Failure}
      \/ applied' = 0 /\ exit' = NotFound /\ cmd.id \notin store.live /\ hit' = hit
  BY <1>1 DEF AddDirectly, DeleteDirectly, PruneDirectly, Exit, Made, Untouched
<1>5. exit' = NotFound => Missing'
  BY <1>1, <1>4 DEF Missing
<1>6. Prunes(cmd) => \A k \in hit' : k < Cutoff(cmd)
  BY <1>1, <1>3 DEF AddDirectly, DeleteDirectly, PruneDirectly, Made
<1> QED
  BY <1>1, <1>2, <1>4, <1>5, <1>6, WantedStays DEF ExitInv, Changing

LEMMA ExitInvChange ==
  ASSUME Typed, ExitInv, Changing, ChangeDirectly PROVE ExitInv'
<1> USE DEF Running, Failure, NotFound
<1>1. /\ step = "change" /\ UNCHANGED <<cmd, req, answer>> /\ req = "none" /\ exit = Running
      /\ ArgumentsOK(cmd) /\ ~Prunes(cmd) /\ past \subseteq past' /\ store \in past
      /\ todo \in Seq(Edit) /\ applied \in Nat
  <2>1. step = "change" /\ UNCHANGED <<cmd, req, answer>> /\ past \subseteq past'
    BY DEF ChangeDirectly, Untouched, Made, Becomes
  <2>2. cmd.kind \in {"update", "delete"} /\ ~Whole(cmd) /\ ArgumentsOK(cmd)
    BY <2>1 DEF Typed, Path
  <2>3. ~Prunes(cmd)
    BY <2>2, WantedType
  <2> QED
    BY <2>1, <2>2, <2>3 DEF Typed, TypeOK, Path, QueueTyped
<1>2. applied + Len(todo) = Wanted /\ ToSet(todo) \subseteq ToSet(Edits(cmd)) /\ Wanted \in Nat
  BY <1>1, WantedType DEF ExitInv
<1>3. CASE todo = <<>>
  <2>1. exit' = 0 /\ step' = "exited" /\ applied' = applied /\ Len(todo) = 0
    BY <1>3 DEF ChangeDirectly, Exit, Untouched
  <2> QED
    BY <1>1, <1>2, <2>1, WantedStays DEF ExitInv, Changing
<1>4. CASE todo # <<>> /\ Refused(store, cmd.id, Head(todo))
  <2>1. exit' = NotFound /\ step' = "exited" /\ applied' = applied
    BY <1>4 DEF ChangeDirectly, Exit, Untouched
  <2>2. Head(todo) \in ToSet(todo)
    BY <1>1, <1>4 DEF ToSet
  <2>3. Missing'
    BY <1>1, <1>2, <1>4, <2>2 DEF Missing
  <2>4. applied <= Wanted
    BY <1>1 DEF ExitInv
  <2> QED
    BY <1>1, <1>2, <2>1, <2>3, <2>4, WantedStays DEF ExitInv, Changing
<1>5. CASE todo # <<>> /\ ~Refused(store, cmd.id, Head(todo))
  <2>1. applied' = applied + 1 /\ todo' = Tail(todo) /\ exit' \in {Running, Failure}
    BY <1>1, <1>5 DEF ChangeDirectly, Exit, Continue, Made
  <2>2. Len(todo') = Len(todo) - 1 /\ Len(todo) \in Nat /\ Len(todo) # 0 /\ ToSet(todo') \subseteq ToSet(todo)
    <3>1. /\ Len(Tail(todo)) = Len(todo) - 1 /\ Len(todo) \in Nat /\ Len(todo) # 0
          /\ \A k \in DOMAIN Tail(todo) : k + 1 \in DOMAIN todo /\ Tail(todo)[k] = todo[k + 1]
      BY <1>1, <1>5
    <3> QED
      BY <2>1, <3>1 DEF ToSet
  <2>3. applied' + Len(todo') = Wanted /\ applied' <= Wanted
    BY <1>1, <1>2, <2>1, <2>2
  <2> QED
    BY <1>1, <1>2, <2>1, <2>2, <2>3, WantedStays DEF ExitInv, Changing
<1> QED
  BY <1>3, <1>4, <1>5

\* What the daemon does for it, and what it answers.
LEMMA ExitInvExecute ==
  ASSUME Typed, ExitInv, Changing, Execute \/ ExecuteFails PROVE ExitInv'
<1> USE DEF Running, Failure, NotFound
<1>1. /\ req = "sent" /\ req' = "done" /\ UNCHANGED <<cmd, step, exit, todo>>
      /\ applied = 0 /\ hit = {} /\ exit \in {Running, Failure} /\ ArgumentsOK(cmd) /\ ~Prunes(cmd)
      /\ step # "change" /\ past \subseteq past' /\ (exit = Running => store \in past)
  <2>1. /\ req = "sent" /\ req' = "done" /\ UNCHANGED <<cmd, step, exit, todo>> /\ past \subseteq past'
    BY DEF Execute, ExecuteFails, Answer, Untouched, Made, Becomes
  <2> QED
    BY <2>1 DEF Typed, TypeOK, Path, Undone, ExitInv, Routed
<1>2. Wanted \in Nat /\ Wanted' = Wanted
  BY <1>1, WantedType, WantedStays
<1>3. SUFFICES /\ applied' <= Wanted
               /\ answer' = 0 => applied' = Wanted
               /\ exit = Running /\ answer' = NotFound => Missing'
  BY <1>1, <1>2 DEF ExitInv, Changing
<1>4. CASE ExecuteFails
  <2>1. answer' = Failure
    BY <1>4 DEF ExecuteFails, Answer
  <2>2. CASE Untouched
    BY <1>1, <1>2, <2>1, <2>2 DEF Untouched
  <2>3. CASE Whole(cmd) /\ Made(Without(store, {cmd.id}), 1, {cmd.id})
    BY <1>1, <2>1, <2>3, WantedType DEF Made
  <2>4. ASSUME ~Whole(cmd), cmd.kind \in {"update", "delete"},
               NEW n \in 1 .. Doable(store, cmd.id, Edits(cmd)),
               Made(After(store, cmd.id, Edits(cmd), n), n, {cmd.id})
        PROVE  applied' <= Wanted
    <3>1. Len(Edits(cmd)) \in Nat /\ Wanted = Len(Edits(cmd))
      BY <2>4, WantedType
    <3>2. Doable(store, cmd.id, Edits(cmd)) \in 0 .. Len(Edits(cmd))
      BY <1>2, <3>1, DoableMost
    <3>3. applied' = n
      BY <1>1, <2>4 DEF Made
    <3> QED
      BY <1>2, <3>1, <3>2, <3>3
  <2> QED
    BY <1>4, <2>1, <2>2, <2>3, <2>4 DEF ExecuteFails
<1>5. CASE cmd.kind = "add" /\ Made(With(store, NextId, RowsOf(cmd.sets)), 1, {NextId}) /\ Answer(0)
  BY <1>1, <1>5, WantedType DEF Made, Answer
<1>6. CASE cmd.kind # "add" /\ cmd.id \notin store.live /\ Untouched /\ Answer(NotFound)
  BY <1>1, <1>2, <1>6 DEF Untouched, Answer, Missing
<1>7. CASE Whole(cmd) /\ Made(Without(store, {cmd.id}), 1, {cmd.id}) /\ Answer(0)
  BY <1>1, <1>7, WantedType DEF Made, Answer
<1>8. CASE /\ cmd.kind \in {"update", "delete"} /\ ~Whole(cmd)
           /\ LET edits == Edits(cmd)
                  n == Doable(store, cmd.id, edits)
              IN  /\ Made(After(store, cmd.id, edits, n), n, {cmd.id})
                  /\ Answer(IF n = Len(edits) THEN 0 ELSE NotFound)
  <2> DEFINE edits == Edits(cmd)
             n == Doable(store, cmd.id, edits)
             s == After(store, cmd.id, edits, n)
  <2>1. Len(edits) \in Nat /\ Wanted = Len(edits) /\ edits \in Seq(Edit)
    BY <1>1, <1>2, <1>8, WantedType, EditsType, CommandKnown
  <2>2. n \in 0 .. Len(edits) /\ (n < Len(edits) => Refused(s, cmd.id, edits[n + 1]))
    BY <2>1, DoableMost
  <2>3. /\ applied' = applied + n /\ answer' = (IF n = Len(edits) THEN 0 ELSE NotFound)
        /\ exit = Running => s \in past'
    BY <1>1, <1>8 DEF Made, Becomes, Answer
  <2> HIDE DEF n, s
  <2>4. n < Len(edits) => edits[n + 1] \in ToSet(edits)
    BY <2>1, <2>2 DEF ToSet
  <2>5. n < Len(edits) /\ exit = Running => Missing'
    BY <1>1, <2>2, <2>3, <2>4 DEF Missing
  <2> QED
    BY <1>1, <2>1, <2>2, <2>3, <2>5
<1>9. cmd.kind # "restore"
  BY DEF Changing
<1> QED
  BY <1>4, <1>5, <1>6, <1>7, <1>8, <1>9 DEF Execute

LEMMA ExitInvStep == ASSUME Typed, ExitInv, Next PROVE ExitInv'
<1>1. CASE ~Changing
  BY <1>1, PastGrows DEF ExitInv, Changing
<1>2. ASSUME Changing, OthersChange \/ DaemonsStep PROVE ExitInv'
  BY <1>2, PastGrows, ExitInvIdle DEF OthersChange, OthersStore, DaemonsStep, commandVars
<1>3. ASSUME Changing, \/ ListIds \/ FindItem \/ ListRows \/ ListItems \/ PrintList
                       \/ LabelRow \/ LabelNone \/ LabelFile \/ LabelFileGone
                       \/ RequireItem \/ GetFormats \/ DecodeRow \/ DecodeFile \/ DecodeFileGone
      PROVE  FALSE
  <2>1. step \in LabelSteps \cup {"ids", "item", "rows", "require", "formats", "row", "file"}
    BY <1>3 DEF ListIds, FindItem, ListRows, ListItems, PrintList, LabelRow, LabelNone, LabelFile,
       LabelFileGone, RequireItem, GetFormats, DecodeRow, DecodeFile, DecodeFileGone, LabelSteps
  <2> QED
    BY <1>3, <2>1 DEF Typed, Path, ListSteps, LabelSteps, Changing
<1> QED
  BY <1>1, <1>2, <1>3, ExitInvMoves, ExitInvReceive, ExitInvOpen, ExitInvDirect, ExitInvChange,
     ExitInvExecute DEF Next, CommandStep

\* An age that fits is subtracted as it is.
LEMMA CutoffRight ==
  ASSUME Typed, ExitInv, Changing, Prunes(cmd), cmd.age < 2 ^ (Width - 1)
  PROVE  \A k \in hit : Now - k > cmd.age
<1>1. cmd.age \in Int /\ Now \in Nat /\ \A k \in hit : k \in Nat
  BY CommandAssumption, NumberAssumption, IdsAreNumbers DEF Typed, TypeOK, Command
<1>2. Cutoff(cmd) = Now - cmd.age
  BY DEF Cutoff, Signed
<1>3. \A k \in hit : k < Cutoff(cmd)
  BY DEF ExitInv
<1> HIDE DEF Cutoff
<1> QED
  BY <1>1, <1>2, <1>3

\* What a command asks for is done at most once; exit code 0 says that it is all
\* done, 2 that something was missing (cmd_add, cmd_update, cmd_delete).
THEOREM ExitCodesRightHolds == Spec => []ExitCodesRight
<1>1. Typed /\ ExitInv /\ [Next]_vars => ExitInv'
  <2> SUFFICES ASSUME Typed, ExitInv, [Next]_vars PROVE ExitInv'
    OBVIOUS
  <2>1. CASE UNCHANGED vars
    <3>1. UNCHANGED <<cmd, step, exit, req, answer, todo, applied, hit, past>>
      BY <2>1 DEF vars, commandVars
    <3> QED
      BY <3>1, WantedStays, MissingStays DEF ExitInv, Changing
  <2> QED
    BY <2>1, ExitInvStep
<1>2. Typed /\ ExitInv => ExitCodesRight
  <2> SUFFICES ASSUME Typed, ExitInv, Changing PROVE ExitCodesRight
    BY DEF ExitCodesRight, Changing
  <2> QED
    BY CutoffRight DEF ExitCodesRight, ExitInv, Missing
<1> QED
  BY <1>1, <1>2, TypedHolds, ExitInvInit, PTL DEF Spec
-----------------------------------------------------------------------------
(***************************************************************************)
(* Listing.  The items shown and the ids still to be read are what one     *)
(* statement has picked.  A label is looked up in up to four statements;   *)
(* that the item's own label was missing or replaced meanwhile is known    *)
(* from the moment it was not found.                                       *)
(*                                                                         *)
(* P is what the store has held, c a command, e an entry of its output.    *)
(***************************************************************************)
HeldIn(P, k, mime) == {s.rows[k][mime] : s \in P}
Varies(P, k) == NoData \in HeldIn(P, k, Label) \/ \E d, e \in HeldIn(P, k, Label) : d # e

SelectedBy(c, s) == {k \in s.live : c.mime # NoMime => Has(s, k, c.mime)}
Picked(c, s) == Prefix(NewestFirst(SelectedBy(c, s)), c.limit)
IdsOf(o) == [n \in DOMAIN o |-> o[n].id]
Picks(P, c, o, rest) == \E s \in P : IdsOf(o) \o rest = Picked(c, s)

Shown(P, e) ==
    /\ \E s \in P : e.formats = s.rows[e.id]
    /\ e.label # NoData => e.label \in HeldIn(P, e.id, Label) \cup HeldIn(P, e.id, Text)
Own(P, e) == \A d \in Data : HeldIn(P, e.id, Label) = {d} => e.label = d

Deleted(P) == \E k \in Ids, s, t \in P : k \in s.live /\ k \notin t.live

ListInv == cmd.kind = "list" =>
    /\ step \in {"args", "open", "ids"} => out = <<>>
    /\ step \in {"item", "rows"} => Picks(past, cmd, out, todo)
    /\ step \in LabelSteps \/ exit = 0 => Picks(past, cmd, out, <<>>)
    /\ \A n \in DOMAIN out : Shown(past, out[n])
    /\ step \in LabelSteps => \A n \in DOMAIN out : Own(past, out[n]) \/ n \in ToSet(todo)
    /\ exit = 0 => \A n \in DOMAIN out : Own(past, out[n])
    /\ step \in {"text row", "text file"} => Varies(past, out[Head(todo)].id)
    /\ step = "label file" => hold \in HeldIn(past, out[Head(todo)].id, Label) \ {NoData}
    /\ step = "text file" => hold \in HeldIn(past, out[Head(todo)].id, Text) \ {NoData}
    /\ exit = NotFound => Deleted(past)

\* What is newest comes first, and nothing is left out.
LEMMA NewestFirstLists ==
  ASSUME NEW S \in SUBSET Ids
  PROVE  LET a == NewestFirst(S)
         IN  /\ \A m, n \in DOMAIN a : m < n => a[m] > a[n]
             /\ \A k \in S : \E n \in DOMAIN a : a[n] = k
<1> DEFINE a == Ascending(S)
           r == NewestFirst(S)
           N == Len(a)
<1>1. a \in Seq(S) /\ N \in Nat /\ N = Cardinality(S)
  <2>1. a \in Seq(S) /\ Len(a) = Cardinality(S)
    BY IdsAreNumbers, AscendingLists
  <2> HIDE DEF a
  <2> QED
    BY <2>1
<1>2. \A m, n \in 1 .. N : m < n => a[m] < a[n]
  BY <1>1, IdsAreNumbers, AscendingLists
<1>3. \A k \in S : \E n \in 1 .. N : a[n] = k
  BY <1>1, IdsAreNumbers, AscendingLists
<1>4. r = [i \in 1 .. N |-> a[(N - i) + 1]]
  BY DEF NewestFirst, Reverse
<1>5. \A n \in 1 .. N : a[n] \in Nat
  <2>1. \A n \in 1 .. N : a[n] \in S
    <3> HIDE DEF a
    <3> QED
      BY <1>1
  <2>2. \A k \in S : k \in Nat
    BY IdsAreNumbers
  <2> QED
    BY <2>1, <2>2
<1> HIDE DEF a, r, N
<1>6. \A m \in 1 .. N : (N - m) + 1 \in 1 .. N /\ (N - ((N - m) + 1)) + 1 = m
  BY <1>1
<1>7. ASSUME NEW m \in 1 .. N, NEW n \in 1 .. N, m < n PROVE r[m] > r[n]
  <2>1. (N - n) + 1 < (N - m) + 1
    BY <1>1, <1>7
  <2>2. a[(N - n) + 1] < a[(N - m) + 1]
    BY <1>2, <1>6, <2>1
  <2> QED
    BY <1>4, <1>5, <1>6, <2>2
<1>8. ASSUME NEW k \in S PROVE \E n \in 1 .. N : r[n] = k
  <2> PICK n \in 1 .. N : a[n] = k
    BY <1>3
  <2> QED
    BY <1>4, <1>6
<1> QED
  BY <1>4, <1>7, <1>8 DEF r

\* The first l of them leave out older ones only.
LEMMA PickedRight ==
  ASSUME NEW c \in Command, NEW s \in Contents
  PROVE  LET p == Picked(c, s)
         IN  /\ p \in Seq(Ids) /\ Len(p) <= c.limit
             /\ \A n \in DOMAIN p : p[n] \in SelectedBy(c, s)
             /\ \A m, n \in DOMAIN p : m < n => p[m] > p[n]
             /\ \A k \in SelectedBy(c, s) : \/ \E n \in DOMAIN p : p[n] = k
                                            \/ Len(p) = c.limit /\ \A n \in DOMAIN p : p[n] > k
<1> DEFINE S == SelectedBy(c, s)
           a == NewestFirst(S)
           p == Picked(c, s)
<1>1. S \in SUBSET Ids /\ c.limit \in Nat
  BY DEF SelectedBy, Contents, Command
<1> HIDE DEF S
<1>2. a \in Seq(S) /\ (\A m, n \in DOMAIN a : m < n => a[m] > a[n]) /\ \A k \in S : \E n \in DOMAIN a : a[n] = k
  BY <1>1, NewestFirstType, NewestFirstLists
<1> HIDE DEF a
<1>3. /\ p \in Seq(S) /\ Len(p) \in 0 .. c.limit /\ (Len(p) = c.limit \/ p = a)
      /\ \A k \in DOMAIN p : k \in DOMAIN a /\ p[k] = a[k]
  <2>1. p = Prefix(a, c.limit)
    BY DEF Picked, a, S
  <2> HIDE DEF p
  <2> QED
    BY <1>1, <1>2, <2>1, PrefixType
<1> HIDE DEF p
<1>4. p \in Seq(Ids) /\ (\A n \in DOMAIN p : p[n] \in S) /\ DOMAIN p = 1 .. Len(p) /\ DOMAIN a = 1 .. Len(a)
  BY <1>1, <1>2, <1>3
<1>5. ASSUME NEW k \in S, \A n \in DOMAIN p : p[n] # k
      PROVE  Len(p) = c.limit /\ \A n \in DOMAIN p : p[n] > k
  <2> PICK i \in DOMAIN a : a[i] = k
    BY <1>2
  <2>1. i \notin DOMAIN p
    BY <1>3, <1>5
  <2>2. \A n \in DOMAIN p : n < i
    BY <1>1, <1>3, <1>4, <2>1
  <2> QED
    BY <1>2, <1>3, <2>1, <2>2
<1>6. \A m, n \in DOMAIN p : m < n => p[m] > p[n]
  BY <1>2, <1>3
<1>7. \A k \in S : \/ \E n \in DOMAIN p : p[n] = k
                   \/ Len(p) = c.limit /\ \A n \in DOMAIN p : p[n] > k
  BY <1>5
<1>8. Len(p) <= c.limit
  BY <1>1, <1>3
<1> QED
  BY <1>4, <1>6, <1>7, <1>8 DEF p, S

\* All of it stays true as the store changes: what varies has varied.
LEMMA InvariantsStay ==
  ASSUME NEW P, NEW Q, P \subseteq Q, P # {}, NEW e
  PROVE  /\ Own(P, e) => Own(Q, e)
         /\ Shown(P, e) => Shown(Q, e)
         /\ \A k : Varies(P, k) => Varies(Q, k)
         /\ \A k, m : HeldIn(P, k, m) \subseteq HeldIn(Q, k, m)
         /\ \A c, o, rest : Picks(P, c, o, rest) => Picks(Q, c, o, rest)
         /\ Deleted(P) => Deleted(Q)
<1>1. \A k, m : HeldIn(P, k, m) \subseteq HeldIn(Q, k, m) /\ HeldIn(P, k, m) # {}
  BY DEF HeldIn
<1>2. Own(P, e) => Own(Q, e)
  BY <1>1 DEF Own
<1>3. Shown(P, e) => Shown(Q, e)
  BY <1>1 DEF Shown
<1>4. \A k : Varies(P, k) => Varies(Q, k)
  BY <1>1 DEF Varies
<1> QED
  BY <1>1, <1>2, <1>3, <1>4 DEF Picks, Deleted

\* A label that varies need not be shown.
LEMMA VariesFrees == ASSUME NEW P, NEW e, Varies(P, e.id) PROVE Own(P, e)
BY DataAssumption DEF Varies, Own

\* A label that is the item's in what the store has held.
LEMMA HeldIsOwn ==
  ASSUME NEW P, NEW e, e.label \in HeldIn(P, e.id, Label) PROVE Own(P, e)
BY DEF Own

\* A file that is gone was that of a label that is gone.
LEMMA GoneVaries ==
  ASSUME NEW P, NEW s \in Contents, s \in P, NEW k \in Ids, NEW data \in HeldIn(P, k, Label) \ {NoData},
         ~Referenced(s, data)
  PROVE  Varies(P, k)
<1>1. s.rows[k][Label] # data
  BY MimesAssumption DEF Referenced, Contents, NoRows
<1> QED
  BY <1>1 DEF Varies, HeldIn

\* An id moves from those to be read to those that are shown.
LEMMA IdsOfType == ASSUME NEW o \in Seq(Entry) PROVE IdsOf(o) \in Seq(Ids) /\ Len(IdsOf(o)) = Len(o)
<1>1. \A n \in DOMAIN o : o[n] \in Entry
  OBVIOUS
<1>2. IdsOf(o) \in [1 .. Len(o) -> Ids] /\ Len(o) \in Nat
  BY <1>1 DEF IdsOf, Entry
<1> QED
  BY <1>2, FunctionsAreSequences

LEMMA IdMoves ==
  ASSUME NEW o \in Seq(Entry), NEW rest \in Seq(Ids), rest # <<>>, NEW e, e.id = Head(rest)
  PROVE  IdsOf(Append(o, e)) \o Tail(rest) = IdsOf(o) \o rest
<1> DEFINE i == IdsOf(o)
<1>1. i \in Seq(Ids) /\ Head(rest) \in Ids
  BY IdsOfType
<1>2. IdsOf(Append(o, e)) = Append(i, Head(rest))
  BY DEF IdsOf
<1> HIDE DEF i
<1>3. Append(i, Head(rest)) \o Tail(rest) = i \o rest
  BY <1>1
<1> QED
  BY <1>2, <1>3 DEF i

LEMMA ListIdsInv == ASSUME Typed, ListInv, ListIds, cmd.kind = "list" PROVE ListInv'
<1>1. /\ step = "ids" /\ step' = "item" /\ exit' = exit /\ exit = Running /\ past' = past /\ cmd' = cmd
      /\ out' = out /\ store \in past
  BY DEF ListIds, Continue, Reads, Untouched, Typed, TypeOK
<1>2. out = <<>>
  BY <1>1 DEF ListInv
<1>3. todo' = Picked(cmd, store) /\ Picked(cmd, store) \in Seq(Ids)
  <2>1. Picked(cmd, store) \in Seq(Ids)
    BY <1>1, CommandKnown, PickedRight DEF Typed, TypeOK
  <2> QED
    BY <2>1 DEF ListIds, Picked, Selected, SelectedBy
<1>4. Picks(past, cmd, out, todo')
  <2>1. IdsOf(<<>>) = <<>>
    BY DEF IdsOf
  <2>2. <<>> \o Picked(cmd, store) = Picked(cmd, store)
    BY <1>3
  <2> QED
    BY <1>1, <1>2, <1>3, <2>1, <2>2 DEF Picks
<1> QED
  BY <1>1, <1>2, <1>4 DEF ListInv, Running, NotFound, LabelSteps

LEMMA FindItemInv == ASSUME Typed, ListInv, FindItem, cmd.kind = "list" PROVE ListInv'
<1> USE DEF Running, NotFound
<1>1. /\ step = "item" /\ exit = Running /\ past' = past /\ cmd' = cmd /\ UNCHANGED <<todo, hold, out>>
      /\ store \in past /\ past \subseteq Contents /\ todo # <<>> /\ cmd \in Command
      /\ todo \in Seq(Ids) /\ out \in Seq(Entry)
      /\ \/ step' = "rows" /\ exit' = exit
         \/ Head(todo) \notin store.live /\ step' = "exited" /\ exit' = NotFound
  BY CommandKnown DEF FindItem, Continue, Exit, Reads, Untouched, Typed, TypeOK, QueueTyped
<1>2. Picks(past, cmd, out, todo)
  BY <1>1 DEF ListInv
<1>3. PICK s \in past : IdsOf(out) \o todo = Picked(cmd, s)
  BY <1>2 DEF Picks
<1>4. Head(todo) \in s.live /\ Head(todo) \in Ids
  <2> DEFINE p == Picked(cmd, s)
             o == IdsOf(out)
  <2>1. p \in Seq(Ids) /\ \A n \in DOMAIN p : p[n] \in SelectedBy(cmd, s)
    BY <1>1, PickedRight
  <2>2. o \in Seq(Ids)
    BY <1>1, IdsOfType
  <2> HIDE DEF o
  <2>3. Len(o) + 1 \in DOMAIN (o \o todo) /\ (o \o todo)[Len(o) + 1] = Head(todo)
    BY <1>1, <2>2
  <2>4. Head(todo) \in SelectedBy(cmd, s)
    BY <1>3, <2>1, <2>3 DEF o
  <2> QED
    BY <1>1, <2>4 DEF SelectedBy
<1>5. Head(todo) \notin store.live => Deleted(past)
  BY <1>1, <1>4 DEF Deleted
<1>6. \A n \in DOMAIN out : Shown(past, out[n])
  BY <1>1 DEF ListInv
<1>7. CASE step' = "rows"
  BY <1>1, <1>2, <1>6, <1>7 DEF ListInv, LabelSteps
<1>8. CASE step' = "exited"
  BY <1>1, <1>5, <1>6, <1>8 DEF ListInv, LabelSteps
<1> QED
  BY <1>1, <1>7, <1>8

LEMMA ListRowsInv == ASSUME Typed, ListInv, ListRows, cmd.kind = "list" PROVE ListInv'
<1> DEFINE e == [id |-> Head(todo), formats |-> store.rows[Head(todo)], label |-> NoData]
<1>1. /\ step = "rows" /\ step' = "item" /\ exit' = exit /\ exit = Running /\ past' = past /\ cmd' = cmd
      /\ store \in past /\ out' = Append(out, e) /\ todo' = Tail(todo)
      /\ todo \in Seq(Ids) /\ out \in Seq(Entry) /\ todo # <<>>
  BY DEF ListRows, Continue, Reads, Untouched, Typed, TypeOK, QueueTyped
<1>2. Picks(past, cmd, out, todo) /\ \A n \in DOMAIN out : Shown(past, out[n])
  BY <1>1 DEF ListInv
<1>3. e.id = Head(todo) /\ Shown(past, e)
  BY <1>1 DEF Shown
<1> HIDE DEF e
<1>4. Picks(past, cmd, Append(out, e), Tail(todo))
  BY <1>1, <1>2, <1>3, IdMoves DEF Picks
<1>5. \A n \in DOMAIN Append(out, e) : Shown(past, Append(out, e)[n])
  <2>1. \A n \in DOMAIN Append(out, e) : Append(out, e)[n] = e \/ (n \in DOMAIN out /\ Append(out, e)[n] = out[n])
    BY <1>1
  <2> QED
    BY <1>2, <1>3, <2>1
<1> QED
  BY <1>1, <1>4, <1>5 DEF ListInv, Running, NotFound, LabelSteps

LEMMA ListItemsInv == ASSUME Typed, ListInv, ListItems PROVE ListInv'
<1>1. /\ step = "item" /\ step' = "label row" /\ exit' = exit /\ exit = Running /\ past' = past /\ cmd' = cmd
      /\ todo = <<>> /\ UNCHANGED <<hold, out>> /\ todo' = [n \in DOMAIN out |-> n] /\ cmd.kind = "list"
  BY DEF ListItems, Continue, Reads, Untouched, Typed, TypeOK
<1>2. Picks(past, cmd, out, <<>>)
  BY <1>1 DEF ListInv
<1>3. \A n \in DOMAIN out : n \in ToSet(todo')
  BY <1>1 DEF ToSet
<1> QED
  BY <1>1, <1>2, <1>3 DEF ListInv, Running, NotFound, LabelSteps

LEMMA PrintListInv == ASSUME Typed, ListInv, PrintList, cmd.kind = "list" PROVE ListInv'
<1>1. /\ step = "label row" /\ step' = "exited" /\ exit' = 0 /\ past' = past /\ cmd' = cmd
      /\ todo = <<>> /\ out' = out
  BY DEF PrintList, Exit, Reads, Untouched
<1>2. \A n \in DOMAIN out : Own(past, out[n])
  <2>1. ToSet(todo) = {}
    <3>1. \A n : n \notin DOMAIN todo
      <4>1. todo \in Seq(DOMAIN out) /\ Len(todo) = 0
        BY <1>1 DEF Typed, QueueTyped, LabelSteps
      <4> QED
        BY <4>1
    <3> QED
      BY <3>1 DEF ToSet
  <2> QED
    BY <1>1, <2>1 DEF ListInv, LabelSteps
<1>3. Picks(past, cmd, out, <<>>) /\ \A n \in DOMAIN out : Shown(past, out[n])
  BY <1>1 DEF ListInv, LabelSteps
<1>4. step' \notin {"args", "open", "ids", "item", "rows"} /\ step' \notin LabelSteps /\ exit' # NotFound
  <2>1. step' = "exited" /\ exit' = 0
    BY <1>1
  <2> QED
    BY <2>1 DEF LabelSteps, NotFound
<1> QED
  BY <1>1, <1>2, <1>3, <1>4 DEF ListInv, LabelSteps

\* Looking up a label: the entry at the head of todo keeps its turn, or leaves
\* the list as it should be.
LEMMA LabelsInv ==
  ASSUME Typed, ListInv, LabelRow \/ LabelNone \/ LabelFile \/ LabelFileGone PROVE ListInv'
<1> USE DEF Running, NotFound
<1> DEFINE h == Head(todo)
           k == out[h].id
<1>1. /\ step \in LabelSteps /\ step' \in LabelSteps /\ exit' = exit /\ past' = past /\ cmd' = cmd /\ Reads
      /\ todo # <<>>
  BY DEF LabelRow, LabelNone, LabelFile, LabelFileGone, Continue, LabelSteps, Typed, QueueTyped, Reads, Untouched
<1>2. /\ cmd.kind = "list" /\ exit = Running /\ out \in Seq(Entry) /\ todo \in Seq(DOMAIN out)
      /\ store \in past /\ store \in Contents
  BY <1>1 DEF Typed, TypeOK, Path, QueueTyped, LabelSteps, ListSteps
<1>3. h \in DOMAIN out /\ out[h] \in Entry /\ k \in Ids
  <2>1. h \in DOMAIN out
    <3> DEFINE D == DOMAIN out
    <3>1. todo \in Seq(D)
      BY <1>2
    <3> HIDE DEF D
    <3>2. h \in D
      BY <1>1, <3>1
    <3> QED
      BY <3>2 DEF D
  <2> HIDE DEF h
  <2>2. out[h] \in Entry
    BY <1>2, <2>1
  <2> QED
    BY <2>1, <2>2 DEF Entry
<1>4. \A n \in ToSet(todo) : n = h \/ n \in ToSet(Tail(todo))
  <2> DEFINE D == DOMAIN out
  <2>1. todo \in Seq(D)
    BY <1>2
  <2> HIDE DEF D
  <2>2. ASSUME NEW i \in DOMAIN todo PROVE i = 1 \/ (i - 1 \in DOMAIN Tail(todo) /\ Tail(todo)[i - 1] = todo[i])
    BY <1>1, <2>1
  <2> QED
    BY <1>1, <2>1, <2>2 DEF ToSet
<1>5. /\ Picks(past, cmd, out, <<>>)
      /\ \A n \in DOMAIN out : Shown(past, out[n]) /\ (Own(past, out[n]) \/ n \in ToSet(todo))
      /\ step \in {"text row", "text file"} => Varies(past, k)
      /\ step = "label file" => hold \in HeldIn(past, k, Label) \ {NoData}
      /\ step = "text file" => hold \in HeldIn(past, k, Text) \ {NoData}
  BY <1>1, <1>2 DEF ListInv
<1> HIDE DEF h, k
\* The entry keeps its turn.
<1>6. ASSUME out' = out, todo' = todo,
             step' = "text row" \/ step' = "text file" => Varies(past, k),
             step' = "label file" => hold' \in HeldIn(past, k, Label) \ {NoData},
             step' = "text file" => hold' \in HeldIn(past, k, Text) \ {NoData}
      PROVE  ListInv'
  BY <1>1, <1>2, <1>5, <1>6 DEF ListInv, LabelSteps, h, k
\* The entry is done.
<1>7. ASSUME step' = "label row", todo' = Tail(todo), NEW e, e.id = k, Own(past, e), Shown(past, e),
             out' = [out EXCEPT ![h] = e]
      PROVE  ListInv'
  <2>1. DOMAIN out' = DOMAIN out /\ out'[h] = e /\ \A n \in DOMAIN out : n # h => out'[n] = out[n]
    BY <1>2, <1>3, <1>7
  <2>2. IdsOf(out') = IdsOf(out)
    BY <1>7, <2>1 DEF IdsOf, k
  <2>3. Picks(past, cmd, out', <<>>)
    BY <1>5, <2>2 DEF Picks
  <2>4. \A n \in DOMAIN out' : Shown(past, out'[n]) /\ (Own(past, out'[n]) \/ n \in ToSet(todo'))
    BY <1>4, <1>5, <1>7, <2>1
  <2> QED
    BY <1>1, <1>2, <1>7, <2>3, <2>4 DEF ListInv, LabelSteps
<1>8. out = [out EXCEPT ![h] = out[h]] /\ out[h].id = k /\ Shown(past, out[h])
  <2>1. out = [n \in DOMAIN out |-> out[n]]
    BY <1>2
  <2> QED
    BY <1>3, <1>5, <2>1 DEF k
<1>9. CASE LabelRow
  <2>1. /\ out' = out /\ todo' = todo
        /\ \/ /\ step = "label row" /\ hold' = store.rows[k][Label]
              /\ step' = IF hold' = NoData THEN "text row" ELSE "label file"
           \/ step = "text row" /\ hold' = store.rows[k][Text] /\ hold' # NoData /\ step' = "text file"
    BY <1>9 DEF LabelRow, Continue, Label, Text, h, k
  <2>2. store.rows[k][Label] \in HeldIn(past, k, Label) /\ store.rows[k][Text] \in HeldIn(past, k, Text)
    BY <1>2 DEF HeldIn
  <2> QED
    BY <1>5, <1>6, <2>1, <2>2 DEF Varies
<1>10. CASE LabelNone
  <2>1. Own(past, out[h])
    BY <1>5, <1>8, <1>10, VariesFrees DEF LabelNone
  <2> QED
    BY <1>7, <1>8, <1>10, <2>1 DEF LabelNone, Continue
<1>11. CASE LabelFile
  <2> DEFINE e == [out[h] EXCEPT !.label = hold]
  <2>1. step' = "label row" /\ todo' = Tail(todo) /\ out' = [out EXCEPT ![h] = e]
    BY <1>3, <1>11 DEF LabelFile, Continue, h
  <2>2. e.id = k /\ e.label = hold /\ e.formats = out[h].formats
    BY <1>3 DEF Entry, k
  <2> HIDE DEF e
  <2>3. Shown(past, e)
    BY <1>5, <1>8, <1>11, <2>2 DEF Shown, LabelFile
  <2>4. Own(past, e)
    BY <1>5, <1>11, <2>2, VariesFrees, HeldIsOwn DEF LabelFile
  <2> QED
    BY <1>7, <2>1, <2>2, <2>3, <2>4
<1>12. CASE LabelFileGone
  <2>1. step = "label file" => Varies(past, k)
    BY <1>2, <1>3, <1>5, <1>12, GoneVaries DEF LabelFileGone
  <2>2. step = "text file" => Own(past, out[h])
    BY <1>5, <1>8, VariesFrees
  <2> QED
    BY <1>6, <1>7, <1>8, <1>12, <2>1, <2>2 DEF LabelFileGone, Continue
<1> QED
  BY <1>9, <1>10, <1>11, <1>12

LEMMA ListInvInit == Init => ListInv
BY DEF Init, ListInv, Running, NotFound, LabelSteps

\* What others do in the meantime.
LEMMA ListInvBeside ==
  ASSUME Typed, ListInv, OthersChange, cmd.kind = "list" PROVE ListInv'
<1>1. /\ UNCHANGED <<cmd, step, exit, todo, hold, out>> /\ past \subseteq past' /\ past # {}
  BY DEF OthersChange, OthersStore, Becomes, Typed, TypeOK
<1>2. (step \in {"item", "rows"} => Picks(past', cmd, out, todo))
      /\ (step \in LabelSteps \/ exit = 0 => Picks(past', cmd, out, <<>>))
  BY <1>1, InvariantsStay DEF ListInv
<1>3. \A n \in DOMAIN out :
        /\ Shown(past', out[n])
        /\ Own(past, out[n]) => Own(past', out[n])
  BY <1>1, InvariantsStay DEF ListInv
<1>4. /\ step \in {"text row", "text file"} => Varies(past', out[Head(todo)].id)
      /\ step = "label file" => hold \in HeldIn(past', out[Head(todo)].id, Label) \ {NoData}
      /\ step = "text file" => hold \in HeldIn(past', out[Head(todo)].id, Text) \ {NoData}
      /\ exit = NotFound => Deleted(past')
  <2>1. /\ \A k : Varies(past, k) => Varies(past', k)
        /\ \A k, m : HeldIn(past, k, m) \subseteq HeldIn(past', k, m)
        /\ Deleted(past) => Deleted(past')
    BY <1>1, InvariantsStay
  <2> QED
    BY <2>1 DEF ListInv
<1> QED
  BY <1>1, <1>2, <1>3, <1>4 DEF ListInv

\* All that a list command can do.
LEMMA ListInvStep == ASSUME Typed, ListInv, Next PROVE ListInv'
<1> USE DEF Running, Failure, NotFound
<1>1. CASE cmd.kind # "list"
  BY <1>1, PastGrows DEF ListInv
<1>2. ASSUME cmd.kind = "list", ParseArguments \/ Open \/ StoreFails PROVE ListInv'
  <2>1. /\ cmd' = cmd /\ out' = out /\ past' = past /\ exit = Running
        /\ \/ step' = "exited" /\ exit' = Failure
           \/ step \in {"args", "open"} /\ step' \in {"open", "ids"} /\ exit' = exit
    BY <1>2 DEF ParseArguments, Open, StoreFails, Exit, Continue, Untouched, Routed, Prunes, Whole,
       Typed, TypeOK, AtTheStore
  <2>2. \A n \in DOMAIN out : Shown(past, out[n])
    BY <1>2 DEF ListInv
  <2>3. step \in {"args", "open"} => out = <<>>
    BY <1>2 DEF ListInv
  <2>4. step' \notin {"item", "rows"} /\ step' \notin LabelSteps /\ exit' # 0 /\ exit' # NotFound
    <3>1. step' \in {"open", "ids", "exited"} /\ exit' \in {Running, Failure}
      BY <2>1
    <3>2. step' \notin {"item", "rows"} /\ step' \notin LabelSteps
      BY <3>1 DEF LabelSteps
    <3>3. exit' # 0 /\ exit' # NotFound
      BY <3>1
    <3> QED
      BY <3>2, <3>3
  <2>5. step' \in {"args", "open", "ids"} => out' = <<>>
    BY <2>1, <2>3
  <2> QED
    BY <2>1, <2>2, <2>4, <2>5 DEF ListInv, LabelSteps
<1>3. ASSUME cmd.kind = "list",
             \/ Age \/ Route \/ Receive \/ NoAnswer \/ GiveUp \/ Execute \/ ExecuteFails \/ DaemonsStep
             \/ AddDirectly \/ ChangeDirectly \/ DeleteDirectly \/ PruneDirectly
             \/ RequireItem \/ GetFormats \/ DecodeRow \/ DecodeFile \/ DecodeFileGone
      PROVE  FALSE
  <2>1. ~Routed(cmd) /\ ~Prunes(cmd) /\ ~Whole(cmd) /\ req = "none"
    BY <1>3 DEF Routed, Prunes, Whole, Typed, Path
  <2>2. step \notin {"age", "route", "wait", "add", "change", "delete", "prune", "require", "formats", "row", "file"}
    BY <1>3, <2>1 DEF Typed, Path
  <2> QED
    BY <1>3, <2>1, <2>2 DEF Age, Route, Receive, NoAnswer, GiveUp, Execute, ExecuteFails, DaemonsStep,
       AddDirectly, ChangeDirectly, DeleteDirectly, PruneDirectly, RequireItem, GetFormats, DecodeRow,
       DecodeFile, DecodeFileGone
<1> QED
  BY <1>1, <1>2, <1>3, ListIdsInv, FindItemInv, ListRowsInv, ListItemsInv, PrintListInv, LabelsInv,
     ListInvBeside DEF Next, CommandStep

\* What has been picked, shown and labelled is a list as promised.
LEMMA ListIsComplete ==
  ASSUME Typed, ListInv, cmd.kind = "list", exit = 0
  PROVE  LET shown == {e.id : e \in ToSet(out)}
             always == {k \in Ids : \A s \in past : k \in Selected(s)}
         IN  /\ \A m, n \in DOMAIN out : m < n => out[m].id > out[n].id
             /\ Len(out) <= cmd.limit
             /\ \A k \in always \ shown : Len(out) = cmd.limit /\ \A j \in shown : j > k
             /\ \A n \in DOMAIN out : \E s \in past : out[n].id \in Selected(s)
<1>1. cmd \in Command /\ past \subseteq Contents /\ out \in Seq(Entry)
  BY CommandKnown DEF Typed, TypeOK, QueueTyped
<1>2. PICK s \in past : IdsOf(out) \o <<>> = Picked(cmd, s)
  BY DEF ListInv, Picks
<1> DEFINE p == Picked(cmd, s)
<1>3. IdsOf(out) = p /\ Len(out) = Len(p) /\ DOMAIN out = DOMAIN p /\ \A n \in DOMAIN out : out[n].id = p[n]
  <2> DEFINE i == IdsOf(out)
  <2>1. i \in Seq(Ids) /\ Len(i) = Len(out)
    BY <1>1, IdsOfType
  <2>2. DOMAIN i = DOMAIN out /\ \A n \in DOMAIN out : out[n].id = i[n]
    BY DEF IdsOf
  <2> HIDE DEF i
  <2>3. i \o <<>> = i
    BY <2>1
  <2> QED
    BY <1>2, <2>1, <2>2, <2>3 DEF i
<1>4. \A t : Selected(t) = SelectedBy(cmd, t)
  BY DEF Selected, SelectedBy
<1>5. s \in Contents
  BY <1>1
<1>6. /\ Len(p) <= cmd.limit
      /\ \A n \in DOMAIN p : p[n] \in SelectedBy(cmd, s)
      /\ \A m, n \in DOMAIN p : m < n => p[m] > p[n]
      /\ \A k \in SelectedBy(cmd, s) : \/ \E n \in DOMAIN p : p[n] = k
                                       \/ Len(p) = cmd.limit /\ \A n \in DOMAIN p : p[n] > k
  BY <1>1, <1>5, PickedRight
<1> HIDE DEF p
<1>7. \A m, n \in DOMAIN out : m < n => out[m].id > out[n].id
  BY <1>3, <1>6
<1>8. \A n \in DOMAIN out : \E t \in past : out[n].id \in Selected(t)
  BY <1>3, <1>4, <1>6
<1>9. ASSUME NEW k \in Ids, \A t \in past : k \in Selected(t), k \notin {e.id : e \in ToSet(out)}
      PROVE  Len(out) = cmd.limit /\ \A j \in {e.id : e \in ToSet(out)} : j > k
  <2>1. k \in SelectedBy(cmd, s)
    BY <1>4, <1>9
  <2>2. ~ \E n \in DOMAIN p : p[n] = k
    BY <1>3, <1>9 DEF ToSet
  <2> QED
    BY <1>3, <1>6, <2>1, <2>2 DEF ToSet
<1> QED
  BY <1>3, <1>6, <1>7, <1>8, <1>9

\* A list leaves out nothing that was there all along, shows nothing that never
\* was, and labels items with what was theirs (db::list_items, derive_label).
THEOREM ListCompleteHolds == Spec => []ListComplete
<1>1. Typed /\ ListInv /\ [Next]_vars => ListInv'
  <2> SUFFICES ASSUME Typed, ListInv, [Next]_vars PROVE ListInv'
    OBVIOUS
  <2>1. CASE UNCHANGED vars
    <3>1. UNCHANGED <<cmd, step, exit, past, todo, hold, out>>
      BY <2>1 DEF vars, commandVars
    <3> QED
      BY <3>1 DEF ListInv
  <2> QED
    BY <2>1, ListInvStep
<1>2. Typed /\ ListInv => ListComplete
  <2> SUFFICES ASSUME Typed, ListInv, cmd.kind = "list" PROVE ListComplete
    BY DEF ListComplete
  <2>1. exit = NotFound => \E k \in Ids, s, t \in past : k \in s.live /\ k \notin t.live
    BY DEF ListInv, Deleted
  <2>2. ASSUME exit = 0, NEW e \in ToSet(out)
        PROVE  LET labels == {s.rows[e.id][Label] : s \in past}
                   texts == {s.rows[e.id][Text] : s \in past}
               IN  /\ \E s \in past : e.id \in Selected(s)
                   /\ \E s \in past : e.formats = s.rows[e.id]
                   /\ e.label # NoData => e.label \in labels \cup texts
                   /\ \A d \in Data : labels = {d} => e.label = d
    <3>1. PICK n \in DOMAIN out : e = out[n]
      BY <2>2 DEF ToSet
    <3>2. Shown(past, e) /\ Own(past, e)
      BY <2>2, <3>1 DEF ListInv
    <3>3. \E s \in past : e.id \in Selected(s)
      BY <2>2, <3>1, ListIsComplete
    <3> QED
      BY <3>2, <3>3 DEF Shown, Own, HeldIn
  <2> QED
    BY <2>1, <2>2, ListIsComplete DEF ListComplete
<1> QED
  BY <1>1, <1>2, TypedHolds, ListInvInit, PTL DEF Spec

-----------------------------------------------------------------------------
(***************************************************************************)
(* Daemons.  OneServes is not inductive: a daemon that removes the socket  *)
(* file or binds it relies on there being nobody who serves.  Alone adds   *)
(* what a daemon knows at each point of its start, and MoversAlone, that   *)
(* nobody else is on the move to make it wrong.                            *)
(***************************************************************************)
NobodyServes == \A o \in Daemons : stage[o] # "serving"

MoversAlone == \A d, o \in Daemons : OnTheMove(d) /\ OnTheMove(o) => d = o

SocketLeads == \A o \in Daemons : stage[o] = "serving" => sock = o

Alone == \A d \in Daemons :
    /\ stage[d] \in {"remove", "open", "bind", "stopping"} => NobodyServes
    /\ stage[d] = "probe" => peer[d] \in Daemons /\ sock = peer[d]

SockType == sock \in Daemons \cup {NoDaemon}
StageType == stage \in [Daemons -> Stages]
PeerType == peer \in [Daemons -> Daemons \cup {NoDaemon}]

DaemonInv ==
    /\ SockType /\ StageType /\ PeerType
    /\ overlapped \in BOOLEAN
    /\ ~overlapped => MoversAlone /\ SocketLeads /\ Alone

USE NoDaemonAssumption

-----------------------------------------------------------------------------
(***************************************************************************)
(* One lemma per action of a daemon: what it relies on has been recorded   *)
(* in Alone since the step that found it out.                              *)
(***************************************************************************)
LEMMA InstanceInitInv == InstanceInit => DaemonInv
BY DEF InstanceInit, DaemonInv, SockType, StageType, PeerType, Stages, Starting, Ended,
       MoversAlone, OnTheMove, SocketLeads, Alone

LEMMA LaunchInv ==
    ASSUME DaemonInv, NEW d \in Daemons, Launch(d) PROVE DaemonInv'
<1>1. /\ stage' = [stage EXCEPT ![d] = "check"] /\ stage[d] = "new" /\ UNCHANGED <<sock, peer>>
      /\ overlapped' = (overlapped \/ \E o \in Daemons \ {d} : OnTheMove(o))
  BY DEF Launch, Go, NoteOverlap
<1>2. SockType' /\ StageType' /\ PeerType' /\ overlapped' \in BOOLEAN
  BY <1>1 DEF DaemonInv, SockType, StageType, PeerType, Stages, Starting
<1>3. \A o \in Daemons : o # d => stage'[o] = stage[o]
  BY <1>1 DEF DaemonInv, StageType
<1>4. ASSUME ~overlapped' PROVE MoversAlone' /\ SocketLeads' /\ Alone'
  <2>1. ~overlapped /\ stage'[d] = "check" /\ \A o \in Daemons : o # d => ~OnTheMove(o)
    BY <1>1, <1>4 DEF DaemonInv, StageType
  <2>2. MoversAlone'
    BY <1>3, <2>1 DEF MoversAlone, OnTheMove
  <2>3. SocketLeads'
    BY <1>1, <1>3, <2>1 DEF DaemonInv, SocketLeads
  <2>4. Alone'
    BY <1>1, <1>3, <2>1 DEF Alone, OnTheMove, Starting
  <2> QED
    BY <2>2, <2>3, <2>4
<1> QED
  BY <1>2, <1>4 DEF DaemonInv

LEMMA CheckInv ==
    ASSUME DaemonInv, NEW d \in Daemons, Check(d) PROVE DaemonInv'
BY DEF DaemonInv, SockType, StageType, PeerType, Stages, Starting, Ended, MoversAlone, OnTheMove,
       SocketLeads, Alone, NobodyServes, Check, Go

LEMMA ConnectProbeInv ==
    ASSUME DaemonInv, NEW d \in Daemons, ConnectProbe(d) PROVE DaemonInv'
BY DEF DaemonInv, SockType, StageType, PeerType, Stages, Starting, Ended, MoversAlone, OnTheMove,
       SocketLeads, Alone, NobodyServes, ConnectProbe, Go, Reached, Listening

LEMMA ProbeInv ==
    ASSUME DaemonInv, NEW d \in Daemons, Probe(d) PROVE DaemonInv'
BY DEF DaemonInv, SockType, StageType, PeerType, Stages, Starting, Ended, MoversAlone, OnTheMove,
       SocketLeads, Alone, NobodyServes, Probe, Go, Alive, Listening

LEMMA RemoveStaleInv ==
    ASSUME DaemonInv, NEW d \in Daemons, RemoveStale(d) PROVE DaemonInv'
BY DEF DaemonInv, SockType, StageType, PeerType, Stages, Starting, Ended, MoversAlone, OnTheMove,
       SocketLeads, Alone, NobodyServes, RemoveStale, Go

LEMMA OpenStoreInv ==
    ASSUME DaemonInv, NEW d \in Daemons, OpenStore(d) PROVE DaemonInv'
BY DEF DaemonInv, SockType, StageType, PeerType, Stages, Starting, Ended, MoversAlone, OnTheMove,
       SocketLeads, Alone, NobodyServes, OpenStore, Go

LEMMA BindInv ==
    ASSUME DaemonInv, NEW d \in Daemons, Bind(d) PROVE DaemonInv'
BY DEF DaemonInv, SockType, StageType, PeerType, Stages, Starting, Ended, MoversAlone, OnTheMove,
       SocketLeads, Alone, NobodyServes, Bind, Go

LEMMA QuitInv ==
    ASSUME DaemonInv, NEW d \in Daemons, Quit(d) PROVE DaemonInv'
<1>1. /\ stage' = [stage EXCEPT ![d] = "stopping"] /\ stage[d] = "serving" /\ UNCHANGED <<sock, peer>>
      /\ overlapped' = (overlapped \/ \E o \in Daemons \ {d} : OnTheMove(o))
  BY DEF Quit, Go, NoteOverlap
<1>2. SockType' /\ StageType' /\ PeerType' /\ overlapped' \in BOOLEAN
  BY <1>1 DEF DaemonInv, SockType, StageType, PeerType, Stages
<1>3. \A o \in Daemons : o # d => stage'[o] = stage[o]
  BY <1>1 DEF DaemonInv, StageType
<1>4. ASSUME ~overlapped' PROVE MoversAlone' /\ SocketLeads' /\ Alone'
  <2>1. /\ ~overlapped /\ stage'[d] = "stopping" /\ \A o \in Daemons : o # d => ~OnTheMove(o)
        /\ SocketLeads
    BY <1>1, <1>4 DEF DaemonInv, StageType
  <2>2. MoversAlone'
    BY <1>3, <2>1 DEF MoversAlone, OnTheMove
  <2>3. SocketLeads' /\ NobodyServes'
    BY <1>1, <1>3, <2>1 DEF SocketLeads, NobodyServes
  <2>4. Alone'
    BY <1>1, <1>3, <2>1, <2>3 DEF Alone, OnTheMove, Starting
  <2> QED
    BY <2>2, <2>3, <2>4
<1> QED
  BY <1>2, <1>4 DEF DaemonInv

LEMMA CleanUpInv ==
    ASSUME DaemonInv, NEW d \in Daemons, CleanUp(d) PROVE DaemonInv'
BY DEF DaemonInv, SockType, StageType, PeerType, Stages, Starting, Ended, MoversAlone, OnTheMove,
       SocketLeads, Alone, NobodyServes, CleanUp, Go

LEMMA CrashDaemonInv ==
    ASSUME DaemonInv, NEW d \in Daemons, CrashDaemon(d) PROVE DaemonInv'
BY DEF DaemonInv, SockType, StageType, PeerType, Stages, Starting, Ended, MoversAlone, OnTheMove,
       SocketLeads, Alone, NobodyServes, CrashDaemon, Go, Listening

LEMMA DaemonStepInv ==
    ASSUME DaemonInv, NEW d \in Daemons, DaemonStep(d) PROVE DaemonInv'
BY LaunchInv, CheckInv, ConnectProbeInv, ProbeInv, RemoveStaleInv, OpenStoreInv, BindInv,
   QuitInv, CleanUpInv, CrashDaemonInv DEF DaemonStep, StartUp

LEMMA DaemonsUnchangedInv ==
    ASSUME DaemonInv, UNCHANGED daemonVars PROVE DaemonInv'
BY DEF DaemonInv, SockType, StageType, PeerType, MoversAlone, OnTheMove, SocketLeads, Alone,
       NobodyServes, daemonVars

-----------------------------------------------------------------------------
\* No command moves a daemon.
LEMMA CommandsLeaveDaemons ==
    ASSUME CommandStep \/ Execute \/ ExecuteFails \/ OthersChange
    PROVE  UNCHANGED daemonVars
<1>1. CASE ParseArguments BY <1>1 DEF ParseArguments
<1>2. CASE Age            BY <1>2 DEF Age
<1>3. CASE Route          BY <1>3 DEF Route
<1>4. CASE Receive        BY <1>4 DEF Receive
<1>5. CASE NoAnswer \/ GiveUp BY <1>5 DEF NoAnswer, GiveUp
<1>6. CASE Open           BY <1>6 DEF Open
<1>7. CASE StoreFails     BY <1>7 DEF StoreFails
<1>8. CASE AddDirectly \/ DeleteDirectly \/ PruneDirectly
  BY <1>8 DEF AddDirectly, DeleteDirectly, PruneDirectly
<1>9. CASE ChangeDirectly BY <1>9 DEF ChangeDirectly
<1>10. CASE ListIds \/ FindItem \/ ListRows \/ ListItems
  BY <1>10 DEF ListIds, FindItem, ListRows, ListItems, Reads
<1>11. CASE LabelRow \/ LabelNone \/ LabelFile \/ LabelFileGone \/ PrintList
  BY <1>11 DEF LabelRow, LabelNone, LabelFile, LabelFileGone, PrintList, Reads
<1>12. CASE RequireItem \/ GetFormats
  BY <1>12 DEF RequireItem, GetFormats, Reads
<1>13. CASE DecodeRow \/ DecodeFile \/ DecodeFileGone
  BY <1>13 DEF DecodeRow, DecodeFile, DecodeFileGone, Reads
<1>14. CASE Execute       BY <1>14 DEF Execute
<1>15. CASE ExecuteFails  BY <1>15 DEF ExecuteFails
<1>16. CASE OthersChange  BY <1>16 DEF OthersChange, OthersStore
<1> QED
  BY <1>1, <1>2, <1>3, <1>4, <1>5, <1>6, <1>7, <1>8, <1>9, <1>10, <1>11, <1>12, <1>13,
     <1>14, <1>15, <1>16 DEF CommandStep

\* The inductive invariant, of the specification as it stands: any number of
\* daemons, starts, stops and crashes (main of richclipd.rs).
THEOREM DaemonInvHolds == Spec => []DaemonInv
<1>1. Init => DaemonInv
  BY InstanceInitInv DEF Init
<1>2. DaemonInv /\ [Next]_vars => DaemonInv'
  <2> SUFFICES ASSUME DaemonInv, [Next]_vars PROVE DaemonInv'
    OBVIOUS
  <2>1. CASE CommandStep \/ Execute \/ ExecuteFails \/ OthersChange
    BY <2>1, CommandsLeaveDaemons, DaemonsUnchangedInv
  <2>2. CASE DaemonsStep
    BY <2>2, DaemonStepInv DEF DaemonsStep
  <2>3. CASE UNCHANGED vars
    BY <2>3, DaemonsUnchangedInv DEF vars
  <2> QED
    BY <2>1, <2>2, <2>3 DEF Next
<1> QED
  BY <1>1, <1>2, PTL DEF Spec

\* One daemon serves at a time, the one the socket leads to, as long as none
\* starts or ends while another is at it (main of richclipd.rs, 3, 5 and 8).
THEOREM OneServesHolds == Spec => []OneServes
<1>1. DaemonInv => OneServes
  BY DEF DaemonInv, SocketLeads, OneServes, Serving, Listening
<1> QED
  BY <1>1, DaemonInvHolds, PTL
=============================================================================
