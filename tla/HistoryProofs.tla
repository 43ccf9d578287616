---------------------------- MODULE HistoryProofs ----------------------------
(***************************************************************************)
(* With one writer, and as long as nothing fails, the Store implements     *)
(* History: every transaction is one change of what can be read, and the   *)
(* writing and removing of files around it is none.                        *)
(*                                                                         *)
(* The refinement reads an item through its rows and its files.  As every  *)
(* row reads back (RowsReadBack), before a step and after it, what is read *)
(* is what the rows say (Plain), and only a transaction changes those.     *)
(***************************************************************************)
EXTENDS StoreProofs

\* The value of History's variable, and the same without the files.
Decoded == [i \in items |-> [content |-> [m \in Mimes |-> Decode(i, m)],
                             created |-> created[i], updated |-> updated[i]]]
Plain == [i \in items |-> [content |-> formats[i],
                           created |-> created[i], updated |-> updated[i]]]

\* An id that an add has yet to store, or has yet to be handed out, has no item.
Adds(p, i) == op[p].kind = "add" /\ op[p].id = i
NotYet == \A i \in Ids : i \notin used \/ (\E p \in Procs : Adds(p, i)) => i \notin items

LEMMA DecodedIsPlain == ASSUME TypeOK, RowsReadBack, faults = 0 PROVE Decoded = Plain
<1>1. ASSUME NEW i \in items, NEW m \in Mimes PROVE Decode(i, m) = formats[i][m]
  <2>1. formats[i][m] \in Contents \cup {None} /\ i \in Ids
    BY DEF TypeOK
  <2>2. CASE formats[i][m] = None
    BY <2>2 DEF Decode
  <2>3. CASE formats[i][m] \in Contents
    <3>1. files[formats[i][m]] = "whole"
      BY <2>1, <2>3 DEF RowsReadBack, Referenced
    <3> QED
      BY <2>3, <3>1, NoneAssumption DEF Decode
  <2> QED
    BY <2>1, <2>2, <2>3
<1>2. ASSUME NEW i \in items PROVE [m \in Mimes |-> Decode(i, m)] = formats[i]
  <2>1. formats[i] = [m \in Mimes |-> formats[i][m]]
    BY DEF TypeOK
  <2> QED
    BY <1>1, <2>1
<1> QED
  BY <1>2 DEF Decoded, Plain

-----------------------------------------------------------------------------
(***************************************************************************)
(* Items appear under ids that nobody else has.                            *)
(***************************************************************************)
LEMMA NotYetStays ==
  ASSUME NotYet, items' \subseteq items, used' = used, \A p \in Procs : op'[p] \in {op[p], NoCall}
  PROVE  NotYet'
BY DEF NotYet, Adds, NoCall

LEMMA NextNotYet == ASSUME TypeOK, FreshIds, NotYet, [Next]_vars PROVE NotYet'
<1> USE DEF db, local
<1>1. ASSUME NEW p \in Procs, Call(p) PROVE NotYet'
  <2>1. PICK c \in Calls : /\ op' = [op EXCEPT ![p] = c] /\ items' = items
                           /\ c.kind = "add" => c.id \notin used
                           /\ used' = IF c.kind = "add" THEN used \cup {c.id} ELSE used
    BY <1>1 DEF Call
  <2>2. ASSUME NEW i \in Ids, i \notin used' \/ \E q \in Procs : Adds(q, i)' PROVE i \notin items'
    <3>1. i \notin used \/ \E q \in Procs : Adds(q, i)
      BY <2>1, <2>2 DEF Adds, TypeOK
    <3> QED
      BY <2>1, <3>1 DEF NotYet
  <2> QED
    BY <2>2 DEF NotYet
<1>2. ASSUME NEW p \in Procs, CommitAdd(p) PROVE NotYet'
  <2>1. /\ op[p].kind = "add" /\ op[p].id \in Ids /\ items' = items \cup {op[p].id} /\ used' = used
        /\ op'[p] = NoCall /\ \A q \in Procs : q # p => op'[q] = op[q]
    BY <1>2, CallFields DEF CommitAdd, At, Return, Stop, TypeOK
  <2>2. Names(p, op[p].id) /\ op[p].id \in used /\ \A q \in Procs : Names(q, op[p].id) => q = p
    BY <2>1 DEF FreshIds, Names
  <2>3. \A q \in Procs : q # p => ~Adds(q, op[p].id)
    BY <2>2 DEF Names, Adds
  <2>4. \A q \in Procs, i \in Ids : Adds(q, i)' => q # p /\ Adds(q, i)
    BY <2>1 DEF Adds, NoCall
  <2> QED
    BY <2>1, <2>2, <2>3, <2>4 DEF NotYet
<1>3. ASSUME NEW p \in Procs, CommitSet(p) \/ CommitRemove(p) \/ CommitDelete(p) \/ CommitPrune(p)
      PROVE  NotYet'
  <2>1. items' \subseteq items /\ used' = used /\ \E fm : CommitRows(p, fm)
    BY <1>3 DEF CommitSet, CommitRemove, CommitDelete, CommitPrune
  <2>2. \A q \in Procs : op'[q] \in {op[q], NoCall}
    BY <2>1 DEF CommitRows, Return, Stop
  <2> QED
    BY <2>1, <2>2, NotYetStays
<1>4. ASSUME NEW G, Stop(G), items' = items, used' = used PROVE NotYet'
  BY <1>4, NotYetStays DEF Stop
<1>5. ASSUME NEW p \in Procs, CommitNothing(p) \/ UnlinkBlob(p) PROVE NotYet'
  <2>1. items' = items /\ used' = used /\ (Return(p) \/ op' = op)
    BY <1>5 DEF CommitNothing, UnlinkBlob
  <2> QED
    BY <1>4, <2>1, NotYetStays DEF Return
<1>6. ASSUME NEW G, Fail(G) PROVE NotYet'
  BY <1>4, <1>6 DEF Fail
<1>7. ASSUME NEW p \in Procs, Enter(p) \/ CheckBlob(p) \/ OpenBlob(p) \/ FillBlob(p) PROVE NotYet'
  BY <1>7, NotYetStays DEF Enter, CheckBlob, OpenBlob, FillBlob
<1>8. CASE Tick \/ UNCHANGED vars
  BY <1>8, NotYetStays DEF Tick, vars
<1> QED
  BY <1>1, <1>2, <1>3, <1>5, <1>6, <1>7, <1>8 DEF Next, Work, IOError, Crash

LEMMA NotYetHolds == Spec => []NotYet
<1>1. Init => NotYet
  BY DEF Init, NotYet
<1>2. AInv /\ NotYet /\ [Next]_vars => NotYet'
  BY NextNotYet DEF AInv
<1> QED
  BY <1>1, <1>2, AInvHolds, PTL DEF Spec

-----------------------------------------------------------------------------
(***************************************************************************)
(* What the rows of a list of formats are.                                 *)
(***************************************************************************)
\* The rows that an add stores are those the list gives.
LEMMA UpsertedGiven == ASSUME NEW todo \in Todos PROVE Upserted(NoRows, todo) \in H!Given(todo)
<1> DEFINE row == Upserted(NoRows, todo)
<1>1. NoRows \in [Mimes -> Contents \cup {None}]
  BY DEF NoRows
<1>2. row \in [Mimes -> Contents \cup {None}]
  BY <1>1, UpsertedType
<1>3. ASSUME NEW m \in Mimes, \E j \in DOMAIN todo : todo[j][1] = m
      PROVE  H!Gives(todo, m, row[m])
  <2> DEFINE l == LastPos(todo, m)
  <2>1. l \in DOMAIN todo /\ todo[l][1] = m /\ \A k \in DOMAIN todo : todo[k][1] = m => k <= l
    BY <1>3, LastPosInList
  <2>2. row[m] = todo[l][2]
    BY <1>3 DEF Upserted
  <2> HIDE DEF l, row
  <2>3. todo[l] \in Mimes \X Contents /\ DOMAIN todo = 1 .. Len(todo)
    BY <2>1 DEF Todos
  <2>4. todo[l] = <<m, row[m]>>
    BY <2>1, <2>2, <2>3
  <2>5. \A k \in DOMAIN todo : k > l => todo[k][1] # m
    BY <2>1, <2>3
  <2> QED
    BY <2>1, <2>4, <2>5 DEF H!Gives
<1>4. ASSUME NEW m \in Mimes, ~ \E j \in DOMAIN todo : todo[j][1] = m
      PROVE  row[m] = None /\ \A c \in Contents : ~H!Gives(todo, m, c)
  BY <1>4 DEF Upserted, NoRows, H!Gives
<1> HIDE DEF row
<1>5. row \in H!Given(todo)
  BY <1>2, <1>3, <1>4 DEF H!Given
<1> QED
  BY <1>5 DEF row

\* A list of one format changes one row.
LEMMA UpsertedOne ==
  ASSUME NEW row \in [Mimes -> Contents \cup {None}], NEW m \in Mimes, NEW c \in Contents
  PROVE  Upserted(row, <<<<m, c>>>>) = [row EXCEPT ![m] = c]
<1> DEFINE todo == <<<<m, c>>>>
<1>1. todo \in Todos /\ DOMAIN todo = {1} /\ todo[1][1] = m /\ todo[1][2] = c
  BY DEF Todos
<1> HIDE DEF todo
<1>2. LastPos(todo, m) = 1
  BY <1>1, LastPosInList
<1>3. Upserted(row, todo) = [n \in Mimes |-> IF n = m THEN c ELSE row[n]]
  BY <1>1, <1>2 DEF Upserted
<1> QED
  BY <1>3 DEF todo

-----------------------------------------------------------------------------
(***************************************************************************)
(* The transactions.  ReadsPlainly is what RowsReadBack gives.             *)
(***************************************************************************)
ReadsPlainly == Decoded = Plain

LEMMA PlainType ==
  ASSUME TypeOK, NEW i \in items
  PROVE  /\ DOMAIN Plain = items /\ i \in Ids
         /\ Plain[i] = [content |-> formats[i], created |-> created[i], updated |-> updated[i]]
         /\ Plain[i].content = formats[i] /\ Plain[i].updated = updated[i]
         /\ formats[i] \in [Mimes -> Contents \cup {None}]
BY DEF TypeOK, Plain

\* The operations of History, on what is read.
LEMMA ReadItems == H!Items = DOMAIN Decoded /\ DOMAIN Decoded = items
BY DEF H!Items, Decoded

LEMMA ReadAdd ==
  ASSUME NEW i, NEW todo, NEW t, i \notin DOMAIN Decoded, NEW row \in H!Given(todo),
         Decoded' = [j \in DOMAIN Decoded \cup {i} |->
                       IF j = i THEN [content |-> row, created |-> t, updated |-> t] ELSE Decoded[j]]
  PROVE  H!Add(i, todo, t)
BY DEF H!Add, H!With, H!Items, Decoded

LEMMA ReadChange ==
  ASSUME NEW i \in DOMAIN Decoded, NEW m, NEW c, NEW t, t >= Decoded[i].updated,
         Decoded' = [j \in DOMAIN Decoded \cup {i} |->
                       IF j = i THEN [Decoded[i] EXCEPT !.content[m] = c, !.updated = t] ELSE Decoded[j]]
  PROVE  H!Change(i, m, c, t)
BY DEF H!Change, H!With, H!Items, Decoded

LEMMA ReadDelete ==
  ASSUME NEW i \in DOMAIN Decoded, Decoded' = [j \in DOMAIN Decoded \ {i} |-> Decoded[j]]
  PROVE  H!Delete(i)
BY DEF H!Delete, H!Without, H!Items, Decoded

LEMMA ReadPrune ==
  ASSUME NEW t, Decoded' = [j \in DOMAIN Decoded \ {i \in DOMAIN Decoded : Decoded[i].created < t} |-> Decoded[j]]
  PROVE  H!Prune(t)
BY DEF H!Prune, H!Without, H!Items, Decoded

LEMMA AddIsAdd ==
  ASSUME IInv, NotYet, ReadsPlainly, ReadsPlainly', NEW p \in Procs, CommitAdd(p) PROVE H!Next
<1>1. PICK i \in Ids : i = op[p].id
  BY CallFields DEF CommitAdd, At, IInv, TypeOK
<1>2. PICK todo \in Lists : todo = op[p].todo
  BY DEF CommitAdd, At, IInv, TypeOK, Calls, NoCall
<1>3. PICK t \in Times : t = now[p]
  BY DEF IInv, TypeOK
<1> DEFINE row == Upserted(NoRows, todo)
<1>4. /\ items' = items \cup {i} /\ i \notin items
      /\ created' = [created EXCEPT ![i] = t] /\ updated' = [updated EXCEPT ![i] = t]
      /\ formats' = [formats EXCEPT ![i] = row]
  BY <1>1, <1>2, <1>3 DEF CommitAdd, At, NotYet, Adds
<1>5. row \in H!Given(todo)
  BY ListAssumption, UpsertedGiven DEF Todos
<1> HIDE DEF row
<1>6. Plain' = [j \in items \cup {i} |-> IF j = i THEN [content |-> row, created |-> t, updated |-> t]
                                                  ELSE Plain[j]]
  BY <1>4 DEF Plain, IInv, TypeOK
<1>7. H!Add(i, todo, t)
  BY <1>4, <1>5, <1>6, ReadItems, ReadAdd DEF ReadsPlainly
<1> QED
  BY <1>7 DEF H!Next

\* A change of one format of one item.
LEMMA OneChange ==
  ASSUME IInv, ReadsPlainly, ReadsPlainly', NEW i \in items, NEW m \in Mimes, NEW t \in Times,
         NEW c \in Contents \cup {None},
         UNCHANGED <<items, created>>, updated' = [updated EXCEPT ![i] = t],
         formats' = [formats EXCEPT ![i] = [formats[i] EXCEPT ![m] = c]],
         \A k \in items \cap items' : updated'[k] >= updated[k]
  PROVE  H!Change(i, m, c, t)
<1>1. /\ i \in Ids /\ Plain[i].updated = updated[i] /\ DOMAIN Plain = items
      /\ Plain[i] = [content |-> formats[i], created |-> created[i], updated |-> updated[i]]
  BY PlainType DEF IInv
<1> DEFINE e == [Plain[i] EXCEPT !.content[m] = c, !.updated = t]
<1>2. e = [content |-> [formats[i] EXCEPT ![m] = c], created |-> created[i], updated |-> t]
  <2> DEFINE changed == [Plain[i] EXCEPT !.content[m] = c]
  <2>1. e = [changed EXCEPT !.updated = t]
    BY <1>1
  <2>2. changed = [content |-> [formats[i] EXCEPT ![m] = c], created |-> created[i], updated |-> updated[i]]
    BY <1>1
  <2> HIDE DEF changed, e
  <2> QED
    BY <2>1, <2>2
<1>3. \A j \in items : /\ formats'[j] = IF j = i THEN [formats[i] EXCEPT ![m] = c] ELSE formats[j]
                       /\ updated'[j] = IF j = i THEN t ELSE updated[j]
                       /\ created'[j] = created[j]
  BY DEF IInv, TypeOK
<1>4. Plain' = [j \in items \cup {i} |-> IF j = i THEN e ELSE Plain[j]]
  <2> HIDE DEF e
  <2>1. items \cup {i} = items
    OBVIOUS
  <2> QED
    BY <1>2, <1>3, <2>1 DEF Plain
<1>5. t >= updated[i]
  BY <1>3
<1> QED
  BY <1>1, <1>4, <1>5, ReadItems, ReadChange DEF ReadsPlainly

LEMMA SetIsChange ==
  ASSUME IInv, ReadsPlainly, ReadsPlainly', NEW p \in Procs, CommitSet(p),
         \A i \in items \cap items' : updated'[i] >= updated[i]
  PROVE  H!Next
<1>1. PICK i \in items : i = op[p].id
  BY DEF CommitSet, At, Missing
<1>2. PICK m \in Mimes, c \in Contents : op[p].todo = <<<<m, c>>>>
  BY DEF CommitSet, At, IInv, TypeOK, Calls, NoCall
<1>3. PICK t \in Times : t = now[p]
  BY DEF IInv, TypeOK
<1>4. i \in Ids /\ formats[i] \in [Mimes -> Contents \cup {None}]
  BY PlainType DEF IInv
<1>5. /\ UNCHANGED <<items, created>> /\ updated' = [updated EXCEPT ![i] = t]
      /\ formats' = [formats EXCEPT ![i] = Upserted(formats[i], <<<<m, c>>>>)]
  BY <1>1, <1>2, <1>3 DEF CommitSet, CommitRows
<1>6. formats' = [formats EXCEPT ![i] = [formats[i] EXCEPT ![m] = c]]
  BY <1>4, <1>5, UpsertedOne
<1>7. H!Change(i, m, c, t)
  BY <1>5, <1>6, OneChange
<1> QED
  BY <1>7, ReadItems DEF H!Next

LEMMA RemoveIsRemove ==
  ASSUME IInv, ReadsPlainly, ReadsPlainly', NEW p \in Procs, CommitRemove(p),
         \A i \in items \cap items' : updated'[i] >= updated[i]
  PROVE  H!Next
<1>1. PICK i \in items : i = op[p].id
  BY DEF CommitRemove, At, Missing
<1>2. PICK m \in Mimes : m = op[p].mime
  BY CallFields DEF CommitRemove, At, IInv, TypeOK
<1>3. PICK t \in Times : t = now[p]
  BY DEF IInv, TypeOK
<1>4. /\ UNCHANGED <<items, created>> /\ updated' = [updated EXCEPT ![i] = t]
      /\ formats' = [formats EXCEPT ![i] = [formats[i] EXCEPT ![m] = None]]
      /\ formats[i][m] # None
  BY <1>1, <1>2, <1>3 DEF CommitRemove, CommitRows, At, Missing
<1>5. H!Change(i, m, None, t)
  BY <1>4, OneChange
<1>6. Decoded[i].content[m] # None
  <2>1. Plain[i].content = formats[i]
    BY PlainType DEF IInv
  <2> QED
    BY <1>4, <2>1 DEF ReadsPlainly
<1>7. H!Remove(i, m, t)
  BY <1>5, <1>6 DEF H!Remove, Decoded
<1> QED
  BY <1>7, ReadItems DEF H!Next

\* Items that go take their rows with them.
LEMMA PlainWithout ==
  ASSUME TypeOK, NEW S \in SUBSET items, items' = items \ S, UNCHANGED <<created, updated>>,
         \A i \in items \ S : formats'[i] = formats[i]
  PROVE  Plain' = [i \in items \ S |-> Plain[i]]
BY DEF Plain, TypeOK

LEMMA DeleteIsDelete ==
  ASSUME IInv, ReadsPlainly, ReadsPlainly', NEW p \in Procs, CommitDelete(p) PROVE H!Next
<1>1. PICK i \in items : i = op[p].id
  BY DEF CommitDelete, At, Missing
<1>2. /\ items' = items \ {i} /\ UNCHANGED <<created, updated>>
      /\ formats' = [formats EXCEPT ![i] = NoRows]
  BY <1>1 DEF CommitDelete, CommitRows
<1>3. \A j \in items \ {i} : formats'[j] = formats[j]
  BY <1>2 DEF IInv, TypeOK
<1>4. Plain' = [j \in items \ {i} |-> Plain[j]]
  BY <1>2, <1>3, PlainWithout DEF IInv
<1>5. H!Delete(i)
  BY <1>4, ReadItems, ReadDelete DEF ReadsPlainly
<1> QED
  BY <1>5, ReadItems DEF H!Next

LEMMA PruneIsPrune ==
  ASSUME IInv, ReadsPlainly, ReadsPlainly', NEW p \in Procs, CommitPrune(p) PROVE H!Next
<1>1. PICK t \in Times : t = op[p].cutoff
  BY CallFields DEF CommitPrune, At, IInv, TypeOK
<1> DEFINE old == Expired(t)
<1>2. /\ items' = items \ old /\ UNCHANGED <<created, updated>>
      /\ formats' = [i \in Ids |-> IF i \in old THEN NoRows ELSE formats[i]]
  BY <1>1 DEF CommitPrune, CommitRows
<1>3. old \in SUBSET items
  BY DEF Expired
<1>4. \A j \in items \ old : formats'[j] = formats[j]
  BY <1>2 DEF IInv, TypeOK
<1>5. Plain' = [j \in items \ old |-> Plain[j]]
  BY <1>2, <1>3, <1>4, PlainWithout DEF IInv
<1>6. old = {i \in items : Plain[i].created < t}
  BY DEF Expired, Plain
<1> HIDE DEF old
<1>7. H!Prune(t)
  <2>1. DOMAIN Plain = items
    BY DEF Plain
  <2> QED
    BY <1>5, <1>6, <2>1, ReadPrune DEF ReadsPlainly
<1> QED
  BY <1>7 DEF H!Next

-----------------------------------------------------------------------------
LEMMA HistoryNext ==
  ASSUME IInv, NotYet, ReadsPlainly, ReadsPlainly', [Next]_vars,
         \A i \in items \cap items' : updated'[i] >= updated[i]
  PROVE  H!Next \/ Decoded' = Decoded
<1> USE DEF db, local
<1>1. CASE UNCHANGED db
  <2>1. Plain' = Plain
    BY <1>1 DEF Plain
  <2> QED
    BY <2>1 DEF ReadsPlainly
<1>2. ASSUME NEW p \in Procs,
             \/ CommitAdd(p) \/ CommitSet(p) \/ CommitRemove(p) \/ CommitDelete(p) \/ CommitPrune(p)
      PROVE  H!Next
  BY <1>2, AddIsAdd, SetIsChange, RemoveIsRemove, DeleteIsDelete, PruneIsPrune
<1> QED
  BY <1>1, <1>2
  DEF Next, Work, Call, Enter, CheckBlob, OpenBlob, FillBlob, CommitNothing, UnlinkBlob,
      IOError, Crash, Fail, Tick, vars

\* While nothing fails, and with one writer, each transaction is one change of
\* the history, seen through the rows and the files, and no other step is one
\* (store/mod.rs: the order of write_blob, the transaction and delete_blob).
THEOREM HistoryImplemented ==
  ASSUME SoleWriter PROVE Spec /\ [](faults = 0) => ImplementsHistory
<1>1. Init => H!Init
  BY DEF Init, H!Init
<1>2. IInv /\ RowsReadBack /\ faults = 0 => ReadsPlainly
  BY DecodedIsPlain DEF IInv, ReadsPlainly
<1>3. /\ IInv /\ NotYet /\ ReadsPlainly /\ ReadsPlainly' /\ [Next]_vars
      /\ [\A i \in items \cap items' : updated'[i] >= updated[i]]_vars
      => [H!Next]_Decoded
  <2> SUFFICES ASSUME IInv, NotYet, ReadsPlainly, ReadsPlainly', [Next]_vars,
                      [\A i \in items \cap items' : updated'[i] >= updated[i]]_vars
               PROVE  H!Next \/ Decoded' = Decoded
    OBVIOUS
  <2>1. CASE UNCHANGED vars
    BY <2>1 DEF vars, db, ReadsPlainly, Plain
  <2>2. CASE ~UNCHANGED vars
    BY <2>2, HistoryNext
  <2> QED
    BY <2>1, <2>2
<1>4. QED
  BY <1>1, <1>2, <1>3, IInvHolds, RowsReadBackHolds, NotYetHolds, UpdatedAtMonotoneHolds, PTL
  DEF Spec, ImplementsHistory, H!Spec, UpdatedAtMonotone, Decoded
=============================================================================
