---------------------------- MODULE StoreProofs ----------------------------
(***************************************************************************)
(* Proofs about Store, for every value of its constants.  The type         *)
(* invariant holds of Spec as it stands; the others assume SoleWriter.     *)
(***************************************************************************)
EXTENDS Store, Integers, WellFoundedInduction, TLAPS

Todos == Seq(Mimes \X Contents)

-----------------------------------------------------------------------------
(***************************************************************************)
(* The last format of a list, and what an upsert of a list gives.          *)
(***************************************************************************)

\* A set of positions that is not empty has a last one.
LEMMA LastExists ==
  ASSUME NEW n \in Nat, NEW S \in SUBSET (1 .. n), S # {}
  PROVE  \E j \in S : \A k \in S : k <= j
<1> DEFINE T == {x \in Nat : n - x \in S}
<1>1. \A k \in S : k \in Nat /\ k <= n
  OBVIOUS
<1>2. \A k \in S : n - k \in Nat /\ n - (n - k) = k
  BY <1>1
<1>3. T \subseteq Nat /\ \A k \in S : n - k \in T
  BY <1>2
<1> HIDE DEF T
<1>4. T # {}
  BY <1>3
<1>5. PICK x \in T : \A y \in T : ~ (<<y, x>> \in OpToRel(<, Nat))
  BY <1>3, <1>4, NatLessThanWellFounded, WFMin
<1>6. \A y \in T : ~ (y < x)
  BY <1>3, <1>5 DEF OpToRel
<1>7. n - x \in S /\ x \in Nat
  BY DEF T
<1>8. ASSUME NEW k \in S PROVE k <= n - x
  <2>1. ~ (n - k < x)
    BY <1>3, <1>6
  <2> QED
    BY <2>1, <1>1, <1>7
<1> QED
  BY <1>7, <1>8

\* A mime that occurs in a list has a last position in it.
LEMMA LastPosInList ==
  ASSUME NEW todo \in Todos, NEW m, NEW j \in DOMAIN todo, todo[j][1] = m
  PROVE  /\ LastPos(todo, m) \in DOMAIN todo /\ todo[LastPos(todo, m)][1] = m
         /\ \A k \in DOMAIN todo : todo[k][1] = m => k <= LastPos(todo, m)
<1> DEFINE S == {k \in DOMAIN todo : todo[k][1] = m}
<1>1. Len(todo) \in Nat /\ DOMAIN todo = 1 .. Len(todo)
  BY DEF Todos
<1>2. S \in SUBSET (1 .. Len(todo)) /\ S # {}
  BY <1>1
<1>3. PICK l \in S : \A k \in S : k <= l
  BY <1>1, <1>2, LastExists
<1> QED
  BY <1>3 DEF LastPos

\* Every row after an upsert is the row before, or one the list gives.
LEMMA UpsertedFrom ==
  ASSUME NEW todo \in Todos, NEW row \in [Mimes -> Contents \cup {None}], NEW m \in Mimes
  PROVE  \/ Upserted(row, todo)[m] = row[m]
         \/ \E j \in DOMAIN todo : Upserted(row, todo)[m] = todo[j][2]
<1>1. CASE \E j \in DOMAIN todo : todo[j][1] = m
  <2>1. LastPos(todo, m) \in DOMAIN todo
    BY <1>1, LastPosInList
  <2> QED
    BY <1>1, <2>1 DEF Upserted
<1>2. CASE ~ \E j \in DOMAIN todo : todo[j][1] = m
  BY <1>2 DEF Upserted
<1> QED
  BY <1>1, <1>2

LEMMA UpsertedType ==
  ASSUME NEW todo \in Todos, NEW row \in [Mimes -> Contents \cup {None}]
  PROVE  Upserted(row, todo) \in [Mimes -> Contents \cup {None}]
<1>1. ASSUME NEW m \in Mimes PROVE Upserted(row, todo)[m] \in Contents \cup {None}
  <2>1. \A j \in DOMAIN todo : todo[j][2] \in Contents
    BY DEF Todos
  <2> QED
    BY <2>1, UpsertedFrom
<1>2. Upserted(row, todo) = [m \in Mimes |-> Upserted(row, todo)[m]]
  BY DEF Upserted
<1> QED
  BY <1>1, <1>2

\* What the fields of a call are.
LEMMA CallFields ==
  ASSUME NEW c \in Calls \cup {NoCall}
  PROVE  /\ c.kind \in {"add", "set"} => c.todo \in Todos /\ c.todo # <<>> /\ c.id \in Ids
         /\ c.kind \in {"remove", "delete"} => c.id \in Ids
         /\ c.kind \in {"set", "remove"} => c.mime \in Mimes
         /\ c.kind = "prune" => c.cutoff \in Times
         /\ c.kind \in Kinds \cup {"none"}
<1>1. \A x \in Mimes \X Contents : <<x>> \in Todos /\ <<x>> # <<>>
  BY DEF Todos
<1>2. \A todo \in Lists : todo \in Todos /\ todo # <<>>
  BY ListAssumption DEF Todos
<1> QED
  BY <1>1, <1>2 DEF Calls, NoCall, Kinds

-----------------------------------------------------------------------------
(***************************************************************************)
(* Type correctness.                                                       *)
(***************************************************************************)
LEMMA InitType == Init => TypeOK
  BY TimeAssumption DEF Init, TypeOK, Times, NoRows, NoCall, Procs

\* What a stop does to the processes keeps their types.
LEMMA StopType ==
  ASSUME NEW G, TypeOK, Stop(G)
  PROVE  /\ lock' \in Tasks \cup {None}
         /\ pc' \in [Procs -> {"idle", "waiting", "check", "open", "write", "commit", "unlink"}]
         /\ op' \in [Procs -> Calls \cup {NoCall}]
         /\ pos' \in [Procs -> Nat] /\ now' \in [Procs -> Times]
         /\ orphans' \in [Procs -> SUBSET Contents]
  BY TimeAssumption DEF TypeOK, Stop, Times

\* So does going on to the next blob.
LEMMA AdvanceType ==
  ASSUME NEW p \in Procs, TypeOK, Advance(p)
  PROVE  /\ pc' \in [Procs -> {"idle", "waiting", "check", "open", "write", "commit", "unlink"}]
         /\ pos' \in [Procs -> Nat]
<1>1. pos' = [pos EXCEPT ![p] = pos[p] + 1] /\ pos \in [Procs -> Nat]
  BY DEF Advance, TypeOK
<1>2. pos[p] + 1 \in Nat
  BY <1>1
<1> QED
  BY <1>1, <1>2 DEF Advance, TypeOK

\* Committing well-typed rows, with or without orphans to remove.
LEMMA CommitRowsType ==
  ASSUME NEW p \in Procs, NEW fm \in [Ids -> [Mimes -> Contents \cup {None}]],
         TypeOK, CommitRows(p, fm)
  PROVE  /\ lock' \in Tasks \cup {None}
         /\ pc' \in [Procs -> {"idle", "waiting", "check", "open", "write", "commit", "unlink"}]
         /\ op' \in [Procs -> Calls \cup {NoCall}]
         /\ pos' \in [Procs -> Nat] /\ now' \in [Procs -> Times]
         /\ orphans' \in [Procs -> SUBSET Contents]
         /\ formats' \in [Ids -> [Mimes -> Contents \cup {None}]]
         /\ leaked' \subseteq Contents
<1>1. formats' = fm /\ leaked' \subseteq Contents
  BY DEF CommitRows, GiveUp
<1>2. CASE Return(p)
  BY <1>1, <1>2, StopType DEF Return
<1>3. CASE /\ pc' = [pc EXCEPT ![p] = "unlink"]
           /\ orphans' = [orphans EXCEPT ![p] = Freed(fm)]
           /\ UNCHANGED <<op, pos, now, lock>>
  <2>1. Freed(fm) \in SUBSET Contents
    BY DEF Freed
  <2> QED
    BY <1>1, <1>3, <2>1 DEF TypeOK
<1> QED
  BY <1>2, <1>3 DEF CommitRows

LEMMA NextType == TypeOK /\ [Next]_vars => TypeOK'
<1> SUFFICES ASSUME TypeOK, [Next]_vars PROVE TypeOK'
  OBVIOUS
<1> USE DEF db, local
<1>1. ASSUME NEW p \in Procs, Call(p) PROVE TypeOK'
  <2>1. PICK c \in Calls :
          /\ op' = [op EXCEPT ![p] = c]
          /\ used' = IF c.kind = "add" THEN used \cup {c.id} ELSE used
    BY <1>1 DEF Call
  <2>2. used' \subseteq Ids /\ used \subseteq used'
    BY <2>1, CallFields DEF TypeOK
  <2> QED
    BY <1>1, <2>1, <2>2 DEF TypeOK, Call
<1>2. ASSUME NEW p \in Procs, Enter(p) PROVE TypeOK'
  BY <1>2 DEF TypeOK, Enter, Times
<1>3. ASSUME NEW p \in Procs, CheckBlob(p) PROVE TypeOK'
  <2>1. CASE Advance(p)
    BY <1>3, <2>1, AdvanceType DEF TypeOK, CheckBlob
  <2>2. CASE pc' = [pc EXCEPT ![p] = "open"] /\ UNCHANGED pos
    BY <1>3, <2>2 DEF TypeOK, CheckBlob
  <2> QED
    BY <1>3, <2>1, <2>2 DEF CheckBlob
<1>4. ASSUME NEW p \in Procs, OpenBlob(p) PROVE TypeOK'
  BY <1>4 DEF TypeOK, OpenBlob
<1>5. ASSUME NEW p \in Procs, FillBlob(p) PROVE TypeOK'
  <2>1. Advance(p)
    BY <1>5 DEF FillBlob
  <2>2. files' \in [Contents -> {"absent", "partial", "whole"}] /\ linked' \in [Procs -> BOOLEAN]
    BY <1>5 DEF FillBlob, TypeOK
  <2> QED
    BY <1>5, <2>1, <2>2, AdvanceType DEF TypeOK, FillBlob
<1>6. ASSUME NEW p \in Procs, CommitNothing(p) PROVE TypeOK'
  <2>1. leaked' \subseteq Contents
    BY <1>6 DEF CommitNothing, GiveUp
  <2> QED
    BY <1>6, <2>1, StopType DEF TypeOK, CommitNothing, Return
<1>7. ASSUME NEW p \in Procs, CommitAdd(p) PROVE TypeOK'
  <2>1. leaked' \subseteq Contents
    BY <1>7 DEF CommitAdd, GiveUp
  <2>2. op[p].id \in Ids /\ Upserted(NoRows, op[p].todo) \in [Mimes -> Contents \cup {None}]
    BY <1>7, CallFields, UpsertedType DEF CommitAdd, At, TypeOK, NoRows
  <2> QED
    BY <1>7, <2>1, <2>2, StopType DEF TypeOK, CommitAdd, Return
<1>8. ASSUME NEW p \in Procs, CommitSet(p) PROVE TypeOK'
  <2> DEFINE i == op[p].id
             fm == [formats EXCEPT ![i] = Upserted(@, op[p].todo)]
  <2>1. i \in Ids /\ op[p].todo \in Todos
    BY <1>8, CallFields DEF CommitSet, At, TypeOK
  <2>2. fm \in [Ids -> [Mimes -> Contents \cup {None}]]
    BY <2>1, UpsertedType DEF TypeOK
  <2>3. CommitRows(p, fm) /\ updated' = [updated EXCEPT ![i] = now[p]]
    BY <1>8 DEF CommitSet
  <2>4. updated' \in [Ids -> Times]
    BY <2>3 DEF TypeOK
  <2>5. UNCHANGED <<items, created, used, files, clock, linked, faults>>
    BY <1>8 DEF CommitSet
  <2> HIDE DEF fm, i
  <2> QED
    BY <2>2, <2>3, <2>4, <2>5, CommitRowsType DEF TypeOK
<1>9. ASSUME NEW p \in Procs, CommitRemove(p) PROVE TypeOK'
  <2> DEFINE i == op[p].id
             fm == [formats EXCEPT ![i][op[p].mime] = None]
  <2>1. fm \in [Ids -> [Mimes -> Contents \cup {None}]]
    BY DEF TypeOK
  <2>2. CommitRows(p, fm) /\ updated' = [updated EXCEPT ![i] = now[p]]
    BY <1>9 DEF CommitRemove
  <2>3. updated' \in [Ids -> Times]
    BY <2>2 DEF TypeOK
  <2>4. UNCHANGED <<items, created, used, files, clock, linked, faults>>
    BY <1>9 DEF CommitRemove
  <2> HIDE DEF fm, i
  <2> QED
    BY <2>1, <2>2, <2>3, <2>4, CommitRowsType DEF TypeOK
<1>10. ASSUME NEW p \in Procs, CommitDelete(p) PROVE TypeOK'
  <2> DEFINE fm == [formats EXCEPT ![op[p].id] = NoRows]
  <2>1. fm \in [Ids -> [Mimes -> Contents \cup {None}]]
    BY DEF TypeOK, NoRows
  <2>2. CommitRows(p, fm)
    BY <1>10 DEF CommitDelete
  <2> HIDE DEF fm
  <2> QED
    BY <1>10, <2>1, <2>2, CommitRowsType DEF TypeOK, CommitDelete
<1>11. ASSUME NEW p \in Procs, CommitPrune(p) PROVE TypeOK'
  <2> DEFINE old == Expired(op[p].cutoff)
             fm == [i \in Ids |-> IF i \in old THEN NoRows ELSE formats[i]]
  <2>1. fm \in [Ids -> [Mimes -> Contents \cup {None}]]
    BY DEF TypeOK, NoRows
  <2>2. CommitRows(p, fm) /\ items' = items \ old
    BY <1>11 DEF CommitPrune
  <2> HIDE DEF fm, old
  <2> QED
    BY <1>11, <2>1, <2>2, CommitRowsType DEF TypeOK, CommitPrune
<1>12. ASSUME NEW p \in Procs, UnlinkBlob(p) PROVE TypeOK'
  <2>1. PICK h \in orphans[p] :
          /\ files' = [files EXCEPT ![h] = "absent"]
          /\ leaked' = leaked \ {h}
          /\ linked' = [q \in Procs |-> linked[q] /\ Blob(q) # h]
          /\ \/ Return(p)
             \/ /\ orphans' = [orphans EXCEPT ![p] = @ \ {h}]
                /\ UNCHANGED <<pc, op, pos, now, lock>>
    BY <1>12 DEF UnlinkBlob
  <2>2. /\ files' \in [Contents -> {"absent", "partial", "whole"}]
        /\ leaked' \subseteq Contents
        /\ linked' \in [Procs -> BOOLEAN]
    BY <2>1 DEF TypeOK
  <2>3. CASE Return(p)
    BY <1>12, <2>2, <2>3, StopType DEF TypeOK, UnlinkBlob, Return
  <2>4. CASE orphans' = [orphans EXCEPT ![p] = @ \ {h}] /\ UNCHANGED <<pc, op, pos, now, lock>>
    BY <1>12, <2>2, <2>4 DEF TypeOK, UnlinkBlob
  <2> QED
    BY <2>1, <2>3, <2>4
<1>13. ASSUME NEW G, Fail(G) PROVE TypeOK'
  <2>1. leaked' \subseteq Contents /\ linked' \in [Procs -> BOOLEAN]
    BY <1>13 DEF Fail, GiveUp, TypeOK
  <2>2. faults' \in 0 .. MaxFaults
    BY <1>13, TimeAssumption DEF Fail, TypeOK
  <2> QED
    BY <1>13, <2>1, <2>2, StopType DEF TypeOK, Fail
<1>14. ASSUME Tick PROVE TypeOK'
  BY <1>14, TimeAssumption DEF TypeOK, Tick, Times
<1>15. CASE UNCHANGED vars
  BY <1>15 DEF TypeOK, vars
<1> QED
  BY <1>1, <1>2, <1>3, <1>4, <1>5, <1>6, <1>7, <1>8, <1>9, <1>10, <1>11, <1>12, <1>13,
     <1>14, <1>15 DEF Next, Work, IOError, Crash

\* The variables keep their types, with any processes and whatever fails.
THEOREM TypeCorrect == Spec => []TypeOK
<1> QED
  BY InitType, NextType, PTL DEF Spec

-----------------------------------------------------------------------------
(***************************************************************************)
(* No row dangles, with one writer at a time.  The inductive invariant is  *)
(* IInv; Local gathers its conjuncts besides the type invariant.           *)
(***************************************************************************)
Local == LockHeld /\ PosInList /\ BlobsStored /\ OrphansFree /\ NoDanglingRow

\* The mutex, or there being one process only, leaves one process working.
LEMMA OneBusy ==
  ASSUME SoleWriter, LockHeld, NEW p \in Procs, NEW q \in Procs, Busy(p), Busy(q)
  PROVE  p = q
BY DEF SoleWriter, LockHeld, Procs

\* A list is not empty and its positions are 1 .. Len.
LEMMA TodoDomain ==
  ASSUME TypeOK, NEW p \in Procs, Writes(p)
  PROVE  /\ op[p].todo \in Todos
         /\ Len(op[p].todo) \in Nat \ {0}
         /\ DOMAIN op[p].todo = 1 .. Len(op[p].todo)
         /\ \A j \in DOMAIN op[p].todo : op[p].todo[j][2] \in Contents
<1>1. op[p].todo \in Todos /\ op[p].todo # <<>>
  BY CallFields DEF TypeOK, Writes
<1> QED
  BY <1>1 DEF Todos

\* What is left of Local when the processes in G stop.
LEMMA StopLocal ==
  ASSUME TypeOK, LockHeld, PosInList, OrphansFree, NEW G, Stop(G)
  PROVE  /\ LockHeld' /\ PosInList'
         /\ \A q \in Procs : pc'[q] # "idle" =>
               /\ q \notin G
               /\ pc'[q] = pc[q] /\ op'[q] = op[q] /\ pos'[q] = pos[q]
         /\ \A q \in Procs : orphans'[q] # {} =>
               q \notin G /\ pc'[q] = "unlink" /\ pc[q] = "unlink" /\ orphans'[q] = orphans[q]
<1>1. \A q \in Procs : pc'[q] # "idle" =>
         q \notin G /\ pc'[q] = pc[q] /\ op'[q] = op[q] /\ pos'[q] = pos[q]
  BY DEF Stop, TypeOK
<1>2. LockHeld'
  <2> SUFFICES ASSUME NEW q \in Tasks, Busy(q)' PROVE lock' = q
    BY DEF LockHeld
  <2>1. q \notin G /\ Busy(q)
    BY <1>1 DEF Busy, Procs
  <2> QED
    BY <2>1 DEF LockHeld, Stop
<1>3. PosInList'
  BY <1>1 DEF PosInList, Writes
<1>4. \A q \in Procs : orphans'[q] # {} => q \notin G /\ orphans'[q] = orphans[q]
  BY DEF Stop
<1> QED
  BY <1>1, <1>2, <1>3, <1>4 DEF OrphansFree, Stop

\* Committing rows whose files are all there keeps Local.
LEMMA CommitRowsLocal ==
  ASSUME SoleWriter, TypeOK, Local, NEW p \in Procs, pc[p] = "commit",
         NEW fm, CommitRows(p, fm), files' = files,
         \A h \in Contents : Referenced(h, fm) => Present(h)
  PROVE  Local'
<1>1. formats' = fm /\ NoDanglingRow'
  BY DEF CommitRows, NoDanglingRow, Present, Referenced
<1>2. \A q \in Procs : q # p => orphans[q] = {}
  BY OneBusy DEF Local, OrphansFree, Busy
<1>3. CASE Return(p)
  <2>1. /\ LockHeld' /\ PosInList'
        /\ \A q \in Procs : pc'[q] # "idle" =>
              q # p /\ pc'[q] = pc[q] /\ op'[q] = op[q] /\ pos'[q] = pos[q]
        /\ \A q \in Procs : orphans'[q] = {}
    BY <1>2, <1>3, StopLocal DEF Return, Local
  <2>2. BlobsStored'
    BY <2>1 DEF Local, BlobsStored, Writes, Blob, Present
  <2> QED
    BY <1>1, <2>1, <2>2 DEF Local, OrphansFree
<1>4. CASE /\ pc' = [pc EXCEPT ![p] = "unlink"]
           /\ orphans' = [orphans EXCEPT ![p] = Freed(fm)]
           /\ UNCHANGED <<op, pos, now, lock>>
  <2>1. LockHeld'
    BY <1>4 DEF Local, LockHeld, Busy, TypeOK, Procs
  <2>2. PosInList'
    BY <1>4 DEF Local, PosInList, Writes, TypeOK
  <2>3. BlobsStored'
    BY <1>4 DEF Local, BlobsStored, Writes, Blob, Present, TypeOK
  <2>4. OrphansFree'
    BY <1>1, <1>2, <1>4 DEF OrphansFree, Freed, Referenced, TypeOK
  <2> QED
    BY <1>1, <2>1, <2>2, <2>3, <2>4 DEF Local
<1> QED
  BY <1>3, <1>4 DEF CommitRows

\* Going on after a blob that is there keeps what is stored.
LEMMA AdvanceLocal ==
  ASSUME TypeOK, Local, NEW p \in Procs, pc[p] \in {"check", "write"}, Advance(p),
         UNCHANGED <<op, orphans, formats, lock>>,
         \A h \in Contents : Present(h) => Present(h)',
         files'[Blob(p)] # "absent"
  PROVE  Local'
<1>1. Writes(p) /\ pos[p] \in 1 .. Len(op[p].todo) /\ Len(op[p].todo) \in Nat
  BY TodoDomain DEF Local, PosInList
<1>2. /\ pos' = [pos EXCEPT ![p] = pos[p] + 1]
      /\ pc' = [pc EXCEPT ![p] = IF pos[p] = Len(op[p].todo) THEN "commit" ELSE "check"]
  BY DEF Advance
<1>3. LockHeld'
  BY <1>2 DEF Local, LockHeld, Busy, TypeOK, Procs
<1>4. PosInList'
  <2> SUFFICES ASSUME NEW q \in Procs
               PROVE  /\ pc'[q] \in {"check", "open", "write"} =>
                            Writes(q) /\ pos'[q] \in DOMAIN op[q].todo
                      /\ pc'[q] = "commit" /\ Writes(q) => pos'[q] = Len(op[q].todo) + 1
    BY DEF PosInList, Writes
  <2>1. CASE q = p
    <3>1. DOMAIN op[p].todo = 1 .. Len(op[p].todo)
      BY <1>1, TodoDomain
    <3>2. pos'[p] = pos[p] + 1
      BY <1>2 DEF TypeOK
    <3>3. pc'[p] = IF pos[p] = Len(op[p].todo) THEN "commit" ELSE "check"
      BY <1>2 DEF TypeOK
    <3> QED
      BY <1>1, <2>1, <3>1, <3>2, <3>3
  <2>2. CASE q # p
    BY <1>2, <2>2 DEF Local, PosInList, TypeOK
  <2> QED
    BY <2>1, <2>2
<1>5. BlobsStored'
  <2> SUFFICES ASSUME NEW q \in Procs
               PROVE  /\ pc'[q] \in {"check", "open", "write", "commit"} /\ Writes(q) =>
                            \A j \in 1 .. (pos'[q] - 1) : Present(op[q].todo[j][2])'
                      /\ pc'[q] = "write" => Present(Blob(q))'
    BY DEF BlobsStored, Writes, Present
  <2>1. CASE q = p
    <3>1. pos'[p] = pos[p] + 1 /\ pc'[p] # "write"
      BY <1>2 DEF TypeOK
    <3>2. \A j \in 1 .. (pos[p] - 1) : Present(op[p].todo[j][2])
      BY <1>1 DEF Local, BlobsStored
    <3>3. \A j \in 1 .. (pos[p] - 1) : op[p].todo[j][2] \in Contents
      BY <1>1, TodoDomain
    <3>4. files'[op[p].todo[pos[p]][2]] # "absent"
      BY DEF Blob
    <3> QED
      BY <1>1, <2>1, <3>1, <3>2, <3>3, <3>4 DEF Present
  <2>2. CASE q # p
    <3>1. pc'[q] = pc[q] /\ pos'[q] = pos[q]
      BY <1>2, <2>2 DEF TypeOK
    <3>2. pc[q] \in {"check", "open", "write", "commit"} /\ Writes(q) =>
             \A j \in 1 .. (pos[q] - 1) : op[q].todo[j][2] \in Contents
      BY TodoDomain DEF Local, PosInList
    <3>3. pc[q] = "write" => Blob(q) \in Contents /\ Blob(q)' = Blob(q)
      BY <3>1, TodoDomain DEF Local, PosInList, Blob
    <3> QED
      BY <3>1, <3>2, <3>3 DEF Local, BlobsStored, Present
  <2> QED
    BY <2>1, <2>2
<1>6. OrphansFree' /\ NoDanglingRow'
  BY <1>2 DEF Local, OrphansFree, NoDanglingRow, Referenced, TypeOK
<1> QED
  BY <1>3, <1>4, <1>5, <1>6 DEF Local

\* Steps that touch neither rows, files nor the lock: starting, stopping.
LEMMA CallLocal ==
  ASSUME TypeOK, Local, NEW p \in Procs, Call(p)
  PROVE  Local'
<1>1. PICK c \in Calls : op' = [op EXCEPT ![p] = c]
  BY DEF Call
<1>2. /\ pc[p] = "idle" /\ pc' = [pc EXCEPT ![p] = "waiting"]
      /\ UNCHANGED <<formats, files, lock, pos, orphans>>
  BY DEF Call, db
<1>3. \A q \in Procs : q # p => pc'[q] = pc[q] /\ op'[q] = op[q]
  BY <1>1, <1>2 DEF TypeOK
<1>4. pc'[p] = "waiting" /\ orphans'[p] = {}
  BY <1>2 DEF TypeOK, Local, OrphansFree
<1>5. LockHeld'
  BY <1>2, <1>3, <1>4 DEF Local, LockHeld, Busy, Procs
<1>6. PosInList'
  BY <1>2, <1>3, <1>4 DEF Local, PosInList, Writes
<1>7. BlobsStored'
  BY <1>2, <1>3, <1>4 DEF Local, BlobsStored, Writes, Blob, Present
<1>8. OrphansFree'
  BY <1>2, <1>3, <1>4 DEF Local, OrphansFree, Referenced
<1>9. NoDanglingRow'
  BY <1>2 DEF Local, NoDanglingRow, Referenced, Present
<1> QED
  BY <1>5, <1>6, <1>7, <1>8, <1>9 DEF Local

LEMMA EnterLocal ==
  ASSUME SoleWriter, TypeOK, Local, NEW p \in Procs, Enter(p)
  PROVE  Local'
<1>1. /\ pc[p] = "waiting"
      /\ p \in Tasks => lock = None /\ lock' = p
      /\ p \notin Tasks => lock' = lock
      /\ UNCHANGED <<formats, files, op, orphans>>
  BY DEF Enter, db
<1>2. \A q \in Procs : q # p => pc'[q] = pc[q] /\ pos'[q] = pos[q]
  BY DEF Enter, TypeOK
<1>3. pos'[p] = 1 /\ pc'[p] = IF Writes(p) THEN "check" ELSE "commit"
  BY DEF Enter, TypeOK
<1>4. LockHeld'
  BY <1>1, <1>2, NoneAssumption DEF Local, LockHeld, Busy, Procs
<1>5. PosInList'
  <2> SUFFICES ASSUME NEW q \in Procs
               PROVE  /\ pc'[q] \in {"check", "open", "write"} =>
                            Writes(q) /\ pos'[q] \in DOMAIN op[q].todo
                      /\ pc'[q] = "commit" /\ Writes(q) => pos'[q] = Len(op[q].todo) + 1
    BY <1>1 DEF PosInList, Writes
  <2>1. CASE q = p
    BY <1>3, <2>1, TodoDomain
  <2>2. CASE q # p
    BY <1>2, <2>2 DEF Local, PosInList
  <2> QED
    BY <2>1, <2>2
<1>6. BlobsStored'
  <2> SUFFICES ASSUME NEW q \in Procs
               PROVE  /\ pc'[q] \in {"check", "open", "write", "commit"} /\ Writes(q) =>
                            \A j \in 1 .. (pos'[q] - 1) : Present(op[q].todo[j][2])
                      /\ pc'[q] = "write" => Present(Blob(q))'
    BY <1>1 DEF BlobsStored, Writes, Present
  <2>1. CASE q = p
    BY <1>3, <2>1
  <2>2. CASE q # p
    BY <1>1, <1>2, <2>2 DEF Local, BlobsStored, Present, Blob
  <2> QED
    BY <2>1, <2>2
<1>7. OrphansFree'
  BY <1>1, <1>2 DEF Local, OrphansFree, Referenced
<1>8. NoDanglingRow'
  BY <1>1 DEF Local, NoDanglingRow, Referenced, Present
<1> QED
  BY <1>4, <1>5, <1>6, <1>7, <1>8 DEF Local

\* Stopping with rows and files as they are: an error, a crash, a NotFound.
LEMMA StopKeepsLocal ==
  ASSUME TypeOK, Local, NEW G, Stop(G), UNCHANGED <<formats, files>>
  PROVE  Local'
<1>1. /\ LockHeld' /\ PosInList'
      /\ \A q \in Procs : pc'[q] # "idle" =>
            pc'[q] = pc[q] /\ op'[q] = op[q] /\ pos'[q] = pos[q]
      /\ \A q \in Procs : orphans'[q] # {} => pc'[q] = "unlink" /\ orphans'[q] = orphans[q]
  BY StopLocal DEF Local
<1>2. BlobsStored'
  BY <1>1 DEF Local, BlobsStored, Writes, Blob, Present
<1>3. OrphansFree'
  <2> SUFFICES ASSUME NEW q \in Procs, orphans'[q] # {}
               PROVE  pc'[q] = "unlink" /\ \A h \in orphans'[q] : ~Referenced(h, formats)'
    BY DEF OrphansFree
  <2> QED
    BY <1>1 DEF Local, OrphansFree, Referenced
<1>4. NoDanglingRow'
  BY DEF Local, NoDanglingRow, Referenced, Present
<1> QED
  BY <1>1, <1>2, <1>3, <1>4 DEF Local

\* Creating a file takes none away.
LEMMA OpenLocal ==
  ASSUME TypeOK, Local, NEW p \in Procs, OpenBlob(p)
  PROVE  Local'
<1>1. /\ pc[p] = "open" /\ files' = [files EXCEPT ![Blob(p)] = "partial"]
      /\ pc' = [pc EXCEPT ![p] = "write"]
      /\ UNCHANGED <<formats, lock, op, pos, orphans>>
  BY DEF OpenBlob, db
<1>2. Writes(p) /\ Blob(p) \in Contents
  BY <1>1, TodoDomain DEF Local, PosInList, Blob
<1>3. Present(Blob(p))' /\ \A h \in Contents : Present(h) => Present(h)'
  BY <1>1, <1>2 DEF Present, TypeOK, Blob
<1>4. \A q \in Procs : q # p => pc'[q] = pc[q]
  BY <1>1 DEF TypeOK
<1>5. pc'[p] = "write"
  BY <1>1 DEF TypeOK
<1>6. LockHeld'
  BY <1>1, <1>4, <1>5 DEF Local, LockHeld, Busy, Procs
<1>7. PosInList'
  BY <1>1, <1>4, <1>5 DEF Local, PosInList, Writes
<1>8. BlobsStored'
  <2> SUFFICES ASSUME NEW q \in Procs
               PROVE  /\ pc'[q] \in {"check", "open", "write", "commit"} /\ Writes(q) =>
                            \A j \in 1 .. (pos[q] - 1) : Present(op[q].todo[j][2])'
                      /\ pc'[q] = "write" => Present(Blob(q))'
    BY <1>1 DEF BlobsStored, Writes, Present
  <2>1. pc[q] \in {"check", "open", "write", "commit"} /\ Writes(q) =>
           \A j \in 1 .. (pos[q] - 1) : op[q].todo[j][2] \in Contents
    BY TodoDomain DEF Local, PosInList
  <2>2. pc[q] = "write" => Blob(q) \in Contents
    BY TodoDomain DEF Local, PosInList, Blob
  <2> QED
    BY <1>1, <1>3, <1>4, <1>5, <2>1, <2>2 DEF Local, BlobsStored, Present, Blob
<1>9. OrphansFree' /\ NoDanglingRow'
  BY <1>1, <1>3, <1>4, <1>5 DEF Local, OrphansFree, NoDanglingRow, Referenced
<1> QED
  BY <1>6, <1>7, <1>8, <1>9 DEF Local

\* A file that is removed is one nobody works with and no row references.
LEMMA UnlinkLocal ==
  ASSUME SoleWriter, TypeOK, Local, NEW p \in Procs, UnlinkBlob(p)
  PROVE  Local'
<1>1. PICK h \in orphans[p] :
        /\ files' = [files EXCEPT ![h] = "absent"]
        /\ \/ Return(p)
           \/ /\ orphans' = [orphans EXCEPT ![p] = @ \ {h}]
              /\ UNCHANGED <<pc, op, pos, now, lock>>
  BY DEF UnlinkBlob
<1>2. pc[p] = "unlink" /\ formats' = formats
  BY DEF UnlinkBlob, db
<1>3. NoDanglingRow'
  BY <1>1, <1>2 DEF Local, OrphansFree, NoDanglingRow, Referenced, Present, TypeOK
<1>4. \A q \in Procs : q # p => pc[q] \in {"idle", "waiting"} /\ orphans[q] = {}
  BY <1>2, OneBusy DEF Local, OrphansFree, Busy
<1>5. CASE Return(p)
  <2>1. /\ LockHeld' /\ PosInList'
        /\ \A q \in Procs : pc'[q] # "idle" => q # p /\ pc'[q] = pc[q]
        /\ \A q \in Procs : orphans'[q] = {}
    BY <1>4, <1>5, StopLocal DEF Return, Local
  <2>2. \A q \in Procs : pc'[q] \in {"idle", "waiting"}
    BY <1>4, <2>1
  <2>3. BlobsStored' /\ OrphansFree'
    BY <2>1, <2>2 DEF BlobsStored, OrphansFree
  <2> QED
    BY <1>3, <2>1, <2>3 DEF Local
<1>6. CASE orphans' = [orphans EXCEPT ![p] = @ \ {h}] /\ UNCHANGED <<pc, op, pos, now, lock>>
  <2>1. LockHeld' /\ PosInList'
    BY <1>6 DEF Local, LockHeld, PosInList, Busy, Writes
  <2>2. BlobsStored'
    BY <1>2, <1>4, <1>6 DEF BlobsStored
  <2>3. OrphansFree'
    BY <1>2, <1>4, <1>6 DEF Local, OrphansFree, Referenced, TypeOK
  <2> QED
    BY <1>3, <2>1, <2>2, <2>3 DEF Local
<1> QED
  BY <1>1, <1>5, <1>6

\* The row contents of a commit are blobs its process has stored.
LEMMA UpsertedPresent ==
  ASSUME TypeOK, Local, NEW p \in Procs, pc[p] = "commit", Writes(p),
         NEW row \in [Mimes -> Contents \cup {None}],
         \A m \in Mimes : row[m] \in Contents => Present(row[m]),
         NEW m \in Mimes, Upserted(row, op[p].todo)[m] \in Contents
  PROVE  Present(Upserted(row, op[p].todo)[m])
<1>1. /\ op[p].todo \in Todos
      /\ Len(op[p].todo) \in Nat /\ DOMAIN op[p].todo = 1 .. Len(op[p].todo)
      /\ pos[p] = Len(op[p].todo) + 1
  BY TodoDomain DEF Local, PosInList
<1>2. \A j \in DOMAIN op[p].todo : Present(op[p].todo[j][2])
  BY <1>1 DEF Local, BlobsStored
<1> QED
  BY <1>1, <1>2, UpsertedFrom

\* So the files of all rows are there after add_item's transaction ...
LEMMA AddLocal ==
  ASSUME SoleWriter, TypeOK, Local, NEW p \in Procs, CommitAdd(p)
  PROVE  Local'
<1> DEFINE i == op[p].id
           row == Upserted(NoRows, op[p].todo)
<1>1. /\ pc[p] = "commit" /\ Writes(p) /\ i \in Ids /\ files' = files
      /\ formats' = [formats EXCEPT ![i] = row] /\ Return(p)
  BY CallFields DEF CommitAdd, At, Writes, TypeOK
<1>2. \A m \in Mimes : row[m] \in Contents => Present(row[m])
  <2>1. /\ NoRows \in [Mimes -> Contents \cup {None}]
        /\ \A m \in Mimes : NoRows[m] \notin Contents
    BY NoneAssumption DEF NoRows
  <2> QED
    BY <1>1, <2>1, UpsertedPresent
<1>3. NoDanglingRow'
  <2> SUFFICES ASSUME NEW h \in Contents, NEW j \in Ids, NEW m \in Mimes, formats'[j][m] = h
               PROVE  Present(h)
    BY <1>1 DEF NoDanglingRow, Referenced, Present
  <2>1. CASE j = i
    BY <1>1, <1>2, <2>1 DEF TypeOK
  <2>2. CASE j # i
    BY <1>1, <2>2 DEF Local, NoDanglingRow, Referenced, TypeOK
  <2> QED
    BY <2>1, <2>2
<1>4. \A q \in Procs : q # p => orphans[q] = {}
  BY <1>1, OneBusy DEF Local, OrphansFree, Busy
<1>5. /\ LockHeld' /\ PosInList'
      /\ \A q \in Procs : pc'[q] # "idle" =>
            pc'[q] = pc[q] /\ op'[q] = op[q] /\ pos'[q] = pos[q]
      /\ \A q \in Procs : orphans'[q] = {}
  BY <1>1, <1>4, StopLocal DEF Return, Local
<1>6. BlobsStored'
  BY <1>1, <1>5 DEF Local, BlobsStored, Writes, Blob, Present
<1>7. OrphansFree'
  BY <1>5 DEF OrphansFree
<1> QED
  BY <1>3, <1>5, <1>6, <1>7 DEF Local

\* ... and after set_format's.
LEMMA SetLocal ==
  ASSUME SoleWriter, TypeOK, Local, NEW p \in Procs, CommitSet(p)
  PROVE  Local'
<1> DEFINE i == op[p].id
           row == Upserted(formats[i], op[p].todo)
           fm == [formats EXCEPT ![i] = row]
<1>1. /\ pc[p] = "commit" /\ Writes(p) /\ i \in Ids /\ files' = files
      /\ CommitRows(p, fm)
  BY CallFields DEF CommitSet, At, Writes, TypeOK
<1>2. \A m \in Mimes : row[m] \in Contents => Present(row[m])
  <2>1. /\ formats[i] \in [Mimes -> Contents \cup {None}]
        /\ \A m \in Mimes : formats[i][m] \in Contents => Present(formats[i][m])
    BY <1>1 DEF TypeOK, Local, NoDanglingRow, Referenced
  <2> QED
    BY <1>1, <2>1, UpsertedPresent
<1>3. ASSUME NEW h \in Contents, NEW j \in Ids, NEW m \in Mimes, fm[j][m] = h
      PROVE  Present(h)
  <2>1. CASE j = i
    BY <1>1, <1>2, <1>3, <2>1 DEF TypeOK
  <2>2. CASE j # i
    BY <1>1, <1>3, <2>2 DEF Local, NoDanglingRow, Referenced, TypeOK
  <2> QED
    BY <2>1, <2>2
<1> HIDE DEF fm
<1> QED
  BY <1>1, <1>3, CommitRowsLocal DEF Referenced

\* A transaction that only takes rows away leaves rows whose files are there.
LEMMA FewerRowsLocal ==
  ASSUME SoleWriter, TypeOK, Local, NEW p \in Procs, pc[p] = "commit",
         NEW fm, CommitRows(p, fm), files' = files,
         \A i \in Ids, m \in Mimes : fm[i][m] \in {formats[i][m], None}
  PROVE  Local'
<1>1. \A h \in Contents : Referenced(h, fm) => Present(h)
  BY NoneAssumption DEF Referenced, Local, NoDanglingRow
<1> QED
  BY <1>1, CommitRowsLocal

LEMMA NextLocal ==
  ASSUME SoleWriter, TypeOK, Local, [Next]_vars
  PROVE  Local'
<1>1. ASSUME NEW p \in Procs, Call(p) PROVE Local'
  BY <1>1, CallLocal
<1>2. ASSUME NEW p \in Procs, Enter(p) PROVE Local'
  BY <1>2, EnterLocal
<1>3. ASSUME NEW p \in Procs, CheckBlob(p) PROVE Local'
  <2>1. pc[p] = "check" /\ UNCHANGED <<op, orphans, formats, files, lock>>
    BY <1>3 DEF CheckBlob, db
  <2>2. CASE Present(Blob(p)) /\ Advance(p)
    BY <2>1, <2>2, AdvanceLocal DEF Present
  <2>3. CASE pc' = [pc EXCEPT ![p] = "open"] /\ UNCHANGED pos
    <3>1. \A q \in Procs : q # p => pc'[q] = pc[q]
      BY <2>3 DEF TypeOK
    <3>2. pc'[p] = "open"
      BY <2>3 DEF TypeOK
    <3>3. LockHeld'
      BY <2>1, <3>1, <3>2 DEF Local, LockHeld, Busy, Procs
    <3>4. PosInList' /\ BlobsStored'
      BY <2>1, <2>3, <3>1, <3>2 DEF Local, PosInList, BlobsStored, Writes, Blob, Present
    <3>5. OrphansFree' /\ NoDanglingRow'
      BY <2>1, <3>1 DEF Local, OrphansFree, NoDanglingRow, Referenced, Present
    <3> QED
      BY <3>3, <3>4, <3>5 DEF Local
  <2> QED
    BY <1>3, <2>2, <2>3 DEF CheckBlob
<1>4. ASSUME NEW p \in Procs, OpenBlob(p) PROVE Local'
  BY <1>4, OpenLocal
<1>5. ASSUME NEW p \in Procs, FillBlob(p) PROVE Local'
  <2>1. /\ pc[p] = "write" /\ Advance(p) /\ UNCHANGED <<op, orphans, formats, lock>>
        /\ files' = files \/ files' = [files EXCEPT ![Blob(p)] = "whole"]
    BY <1>5 DEF FillBlob, db
  <2>2. Present(Blob(p))
    BY <2>1 DEF Local, BlobsStored
  <2>3. /\ files'[Blob(p)] # "absent"
        /\ \A h \in Contents : Present(h) => Present(h)'
    BY <2>1, <2>2 DEF Present, TypeOK
  <2> QED
    BY <2>1, <2>3, AdvanceLocal
<1>6. ASSUME NEW p \in Procs, CommitNothing(p) PROVE Local'
  BY <1>6, StopKeepsLocal DEF CommitNothing, Return, db
<1>7. ASSUME NEW p \in Procs, CommitAdd(p) PROVE Local'
  BY <1>7, AddLocal
<1>8. ASSUME NEW p \in Procs, CommitSet(p) PROVE Local'
  BY <1>8, SetLocal
<1>9. ASSUME NEW p \in Procs, CommitRemove(p) PROVE Local'
  <2> DEFINE fm == [formats EXCEPT ![op[p].id][op[p].mime] = None]
  <2>1. pc[p] = "commit" /\ CommitRows(p, fm) /\ files' = files
    BY <1>9 DEF CommitRemove, At
  <2>2. \A i \in Ids, m \in Mimes : fm[i][m] \in {formats[i][m], None}
    BY DEF TypeOK
  <2> HIDE DEF fm
  <2> QED
    BY <2>1, <2>2, FewerRowsLocal
<1>10. ASSUME NEW p \in Procs, CommitDelete(p) PROVE Local'
  <2> DEFINE fm == [formats EXCEPT ![op[p].id] = NoRows]
  <2>1. pc[p] = "commit" /\ CommitRows(p, fm) /\ files' = files
    BY <1>10 DEF CommitDelete, At
  <2>2. \A i \in Ids, m \in Mimes : fm[i][m] \in {formats[i][m], None}
    BY DEF TypeOK, NoRows
  <2> HIDE DEF fm
  <2> QED
    BY <2>1, <2>2, FewerRowsLocal
<1>11. ASSUME NEW p \in Procs, CommitPrune(p) PROVE Local'
  <2> DEFINE old == Expired(op[p].cutoff)
             fm == [i \in Ids |-> IF i \in old THEN NoRows ELSE formats[i]]
  <2>1. pc[p] = "commit" /\ CommitRows(p, fm) /\ files' = files
    BY <1>11 DEF CommitPrune, At
  <2>2. \A i \in Ids, m \in Mimes : fm[i][m] \in {formats[i][m], None}
    BY DEF TypeOK, NoRows
  <2> HIDE DEF fm
  <2> QED
    BY <2>1, <2>2, FewerRowsLocal
<1>12. ASSUME NEW p \in Procs, UnlinkBlob(p) PROVE Local'
  BY <1>12, UnlinkLocal
<1>13. ASSUME NEW G, Fail(G) PROVE Local'
  BY <1>13, StopKeepsLocal DEF Fail, db
<1>14. CASE Tick \/ UNCHANGED vars
  <2>1. UNCHANGED <<formats, files, lock, pc, op, pos, orphans>>
    BY <1>14 DEF Tick, vars, db, local
  <2> QED
    BY <2>1 DEF Local, LockHeld, PosInList, BlobsStored, OrphansFree, NoDanglingRow,
                Busy, Writes, Blob, Referenced, Present
<1> QED
  BY <1>1, <1>2, <1>3, <1>4, <1>5, <1>6, <1>7, <1>8, <1>9, <1>10, <1>11, <1>12, <1>13,
     <1>14 DEF Next, Work, IOError, Crash

LEMMA InitLocal == Init => Local
  BY NoneAssumption
  DEF Init, Local, LockHeld, PosInList, BlobsStored, OrphansFree, NoDanglingRow, Busy,
      Referenced, NoRows, Procs

\* IInv is an invariant when one process at a time writes to the store.
THEOREM IInvHolds == ASSUME SoleWriter PROVE Spec => []IInv
<1>1. Init => IInv
  BY InitType, InitLocal DEF IInv, Local
<1>2. IInv /\ [Next]_vars => IInv'
  BY NextType, NextLocal DEF IInv, Local
<1> QED
  BY <1>1, <1>2, PTL DEF Spec

\* The file of a format row is never missing, whatever operation fails or dies.
THEOREM NoDanglingRowHolds == ASSUME SoleWriter PROVE Spec => []NoDanglingRow
<1>1. IInv => NoDanglingRow
  BY DEF IInv
<1> QED
  BY <1>1, IInvHolds, PTL

\* delete_blob never removes the file of a format row.
THEOREM RemovesOnlyUnreferencedHolds == ASSUME SoleWriter PROVE Spec => RemovesOnlyUnreferenced
<1>1. IInv /\ [Next]_vars =>
        [\A h \in Contents : Present(h) /\ ~Present(h)' => ~Referenced(h, formats)]_vars
  <2> SUFFICES ASSUME IInv, Next, NEW h \in Contents, Present(h), ~Present(h)'
               PROVE  ~Referenced(h, formats)
    OBVIOUS
  <2>1. files' # files
    BY DEF Present
  <2>2. CASE \E p \in Procs : OpenBlob(p) \/ FillBlob(p)
    BY <2>2 DEF OpenBlob, FillBlob, Present, IInv, TypeOK
  <2>3. CASE \E p \in Procs : UnlinkBlob(p)
    BY <2>3 DEF UnlinkBlob, Present, IInv, TypeOK, OrphansFree
  <2> QED
    BY <2>1, <2>2, <2>3
    DEF Next, Work, Call, Enter, CheckBlob, CommitNothing, CommitAdd, CommitSet,
        CommitRemove, CommitDelete, CommitPrune, IOError, Crash, Fail, Tick
<1> QED
  BY <1>1, IInvHolds, PTL DEF Spec, RemovesOnlyUnreferenced

-----------------------------------------------------------------------------
(***************************************************************************)
(* Times.  `now' is taken with the mutex held, so it is not before the     *)
(* time any earlier operation wrote; this is what two commands without a   *)
(* daemon lack.                                                            *)
(***************************************************************************)

\* A process that commits alone, at its own `now', leaves no row ahead.
LEMMA CommitTimes ==
  ASSUME SoleWriter, TypeOK, LockHeld, TimesBehind, NEW p \in Procs, pc[p] = "commit",
         UNCHANGED clock, now'[p] \in {now[p], 0}, pc'[p] \in {"idle", "unlink"},
         pc'[p] = "unlink" => now'[p] = now[p],
         \A q \in Procs : q # p => pc'[q] = pc[q],
         NEW S \in SUBSET Ids, items' \in SUBSET (items \cup S),
         updated' \in [Ids -> Times],
         \A i \in Ids : updated'[i] = (IF i \in S THEN now[p] ELSE updated[i])
  PROVE  TimesBehind' /\ \A i \in items \cap items' : updated'[i] >= updated[i]
<1>1. Busy(p) /\ \A q \in Procs : q # p => ~Busy(q)
  BY OneBusy DEF Busy
<1>2. \A q \in Procs : Busy(q)' => q = p /\ now'[q] = now[p]
  BY <1>1 DEF Busy
<1>3. now[p] \in Nat /\ clock \in Nat /\ now[p] <= clock
  BY <1>1, TimeAssumption DEF TypeOK, Times, TimesBehind
<1>4. \A i \in items' : updated'[i] <= now[p] /\ updated'[i] \in Nat
  BY <1>1, <1>3, TimeAssumption DEF TimesBehind, TypeOK, Times
<1>5. TimesBehind'
  BY <1>2, <1>3, <1>4 DEF TimesBehind
<1>6. \A i \in items \cap items' : updated'[i] >= updated[i]
  BY <1>1, <1>3, TimeAssumption DEF TimesBehind, TypeOK, Times
<1> QED
  BY <1>5, <1>6

\* Any other step writes no time.
LEMMA OtherTimes ==
  ASSUME TypeOK, TypeOK', TimesBehind, UNCHANGED <<items, updated>>, clock' >= clock,
         \A p \in Procs : Busy(p)' =>
             (Busy(p) /\ now'[p] = now[p]) \/ now'[p] = clock
  PROVE  TimesBehind' /\ \A i \in items \cap items' : updated'[i] >= updated[i]
<1>1. clock \in Nat /\ clock' \in Nat /\ \A i \in items : updated[i] \in Nat
  BY TimeAssumption DEF TypeOK, Times
<1>2. \A p \in Procs : now[p] \in Nat
  BY TimeAssumption DEF TypeOK, Times
<1> QED
  BY <1>1, <1>2 DEF TimesBehind

\* What committing rows does to the process that commits them.
LEMMA CommitRowsProcs ==
  ASSUME TypeOK, NEW p \in Procs, pc[p] = "commit", NEW fm, CommitRows(p, fm)
  PROVE  /\ now'[p] \in {now[p], 0} /\ pc'[p] \in {"idle", "unlink"}
         /\ pc'[p] = "unlink" => now'[p] = now[p]
         /\ \A q \in Procs : q # p => pc'[q] = pc[q]
  BY DEF CommitRows, Return, Stop, TypeOK

LEMMA NextTimes ==
  ASSUME SoleWriter, TypeOK, TypeOK', LockHeld, TimesBehind, [Next]_vars
  PROVE  TimesBehind' /\ \A i \in items \cap items' : updated'[i] >= updated[i]
<1> DEFINE Goal == TimesBehind' /\ \A i \in items \cap items' : updated'[i] >= updated[i]
<1> USE DEF db, local
<1>0. clock \in Nat
  BY TimeAssumption DEF TypeOK, Times
<1>1. ASSUME NEW p \in Procs, Call(p) PROVE Goal
  <2>1. UNCHANGED <<items, updated, clock, now>> /\ \A q \in Procs : Busy(q)' => Busy(q)
    BY <1>1 DEF Call, Busy, TypeOK
  <2> QED
    BY <1>0, <2>1, OtherTimes
<1>2. ASSUME NEW p \in Procs, Enter(p) PROVE Goal
  <2>1. /\ UNCHANGED <<items, updated, clock>> /\ now'[p] = clock
        /\ \A q \in Procs : q # p => now'[q] = now[q] /\ pc'[q] = pc[q]
    BY <1>2 DEF Enter, TypeOK
  <2>2. \A q \in Procs : Busy(q)' => (Busy(q) /\ now'[q] = now[q]) \/ now'[q] = clock
    BY <2>1 DEF Busy
  <2> QED
    BY <1>0, <2>1, <2>2, OtherTimes
<1>3. ASSUME NEW p \in Procs, CheckBlob(p) \/ OpenBlob(p) \/ FillBlob(p) PROVE Goal
  <2>1. UNCHANGED <<items, updated, clock, now>> /\ Busy(p)
    BY <1>3 DEF CheckBlob, OpenBlob, FillBlob, Busy
  <2>2. \A q \in Procs : q # p => pc'[q] = pc[q]
    BY <1>3 DEF CheckBlob, OpenBlob, FillBlob, Advance, TypeOK
  <2>3. \A q \in Procs : Busy(q)' => Busy(q)
    BY <2>1, <2>2 DEF Busy
  <2> QED
    BY <1>0, <2>1, <2>3, OtherTimes
<1>4. ASSUME NEW G, Stop(G), UNCHANGED <<items, updated, clock>> PROVE Goal
  <2>1. \A q \in Procs : Busy(q)' => Busy(q) /\ now'[q] = now[q]
    BY <1>4 DEF Stop, Busy
  <2> QED
    BY <1>0, <1>4, <2>1, OtherTimes
<1>5. ASSUME NEW p \in Procs, CommitNothing(p) PROVE Goal
  BY <1>4, <1>5 DEF CommitNothing, Return
<1>6. ASSUME NEW p \in Procs, CommitAdd(p) PROVE Goal
  <2>1. /\ pc[p] = "commit" /\ op[p].id \in Ids /\ UNCHANGED clock
        /\ items' = items \cup {op[p].id} /\ updated' = [updated EXCEPT ![op[p].id] = now[p]]
    BY <1>6, CallFields DEF CommitAdd, At, TypeOK
  <2>2. /\ now'[p] = 0 /\ pc'[p] = "idle"
        /\ \A q \in Procs : q # p => pc'[q] = pc[q]
    BY <1>6 DEF CommitAdd, Return, Stop
  <2> DEFINE S == {op[p].id}
  <2>3. /\ S \in SUBSET Ids /\ items' \in SUBSET (items \cup S)
        /\ updated' \in [Ids -> Times]
        /\ \A i \in Ids : updated'[i] = (IF i \in S THEN now[p] ELSE updated[i])
    BY <2>1 DEF TypeOK
  <2> HIDE DEF S
  <2> QED
    BY <2>1, <2>2, <2>3, CommitTimes
<1>7. ASSUME NEW p \in Procs, CommitSet(p) \/ CommitRemove(p) PROVE Goal
  <2>1. /\ pc[p] = "commit" /\ op[p].id \in Ids /\ UNCHANGED <<clock, items>>
        /\ updated' = [updated EXCEPT ![op[p].id] = now[p]]
    BY <1>7, CallFields DEF CommitSet, CommitRemove, At, TypeOK
  <2>2. PICK fm : CommitRows(p, fm)
    BY <1>7 DEF CommitSet, CommitRemove
  <2> DEFINE S == {op[p].id}
  <2>3. /\ S \in SUBSET Ids /\ items' \in SUBSET (items \cup S)
        /\ updated' \in [Ids -> Times]
        /\ \A i \in Ids : updated'[i] = (IF i \in S THEN now[p] ELSE updated[i])
    BY <2>1 DEF TypeOK
  <2> HIDE DEF S
  <2> QED
    BY <2>1, <2>2, <2>3, CommitRowsProcs, CommitTimes
<1>8. ASSUME NEW p \in Procs, CommitDelete(p) \/ CommitPrune(p) PROVE Goal
  <2>1. /\ pc[p] = "commit" /\ UNCHANGED <<clock, updated>>
        /\ items' \in SUBSET items
    BY <1>8 DEF CommitDelete, CommitPrune, At
  <2>2. PICK fm : CommitRows(p, fm)
    BY <1>8 DEF CommitDelete, CommitPrune
  <2> DEFINE S == {}
  <2>3. /\ S \in SUBSET Ids /\ items' \in SUBSET (items \cup S)
        /\ updated' \in [Ids -> Times]
        /\ \A i \in Ids : updated'[i] = (IF i \in S THEN now[p] ELSE updated[i])
    BY <2>1 DEF TypeOK
  <2> HIDE DEF S
  <2> QED
    BY <2>1, <2>2, <2>3, CommitRowsProcs, CommitTimes
<1>9. ASSUME NEW p \in Procs, UnlinkBlob(p) PROVE Goal
  <2>1. UNCHANGED <<items, updated, clock>> /\ (Return(p) \/ UNCHANGED <<pc, now>>)
    BY <1>9 DEF UnlinkBlob
  <2>2. CASE UNCHANGED <<pc, now>>
    BY <1>0, <2>1, <2>2, OtherTimes DEF Busy
  <2> QED
    BY <1>4, <2>1, <2>2 DEF Return
<1>10. ASSUME NEW G, Fail(G) PROVE Goal
  BY <1>4, <1>10 DEF Fail
<1>11. CASE Tick \/ UNCHANGED vars
  <2>1. UNCHANGED <<items, updated, pc, now>> /\ clock' >= clock
    BY <1>0, <1>11 DEF Tick, vars
  <2> QED
    BY <2>1, OtherTimes DEF Busy
<1> QED
  BY <1>1, <1>2, <1>3, <1>5, <1>6, <1>7, <1>8, <1>9, <1>10, <1>11
  DEF Next, Work, IOError, Crash

\* updated_at never goes back, under one writer and a clock that is never set back.
THEOREM UpdatedAtMonotoneHolds == ASSUME SoleWriter PROVE Spec => UpdatedAtMonotone
<1>1. Init => TimesBehind
  BY DEF Init, TimesBehind, Busy
<1>2. IInv /\ IInv' /\ TimesBehind /\ [Next]_vars => TimesBehind'
  BY NextTimes DEF IInv
<1>3. IInv /\ IInv' /\ TimesBehind /\ [Next]_vars =>
        [\A i \in items \cap items' : updated'[i] >= updated[i]]_vars
  BY NextTimes DEF IInv
<1> QED
  BY <1>1, <1>2, <1>3, IInvHolds, PTL DEF Spec, UpdatedAtMonotone
-----------------------------------------------------------------------------
(***************************************************************************)
(* No blob file is lost sight of, with any processes, holding a mutex or   *)
(* not, and whatever fails.  What a process has in hand is less than       *)
(* Pending: once it has committed it answers for its orphans alone.        *)
(***************************************************************************)
Storing == {"check", "open", "write", "commit"}
Stored(p) ==
    IF pc[p] \in Storing /\ Writes(p)
    THEN 1 .. (IF pc[p] = "write" THEN pos[p] ELSE pos[p] - 1)
    ELSE {}
Owned(p) == orphans[p] \cup {op[p].todo[j][2] : j \in Stored(p)}

Accounted == \A h \in Contents : Present(h) =>
    Referenced(h, formats) \/ h \in leaked \/ \E p \in Procs : h \in Owned(p)

\* Only a process that is removing files has orphans.
OrphansUnlinked == \A p \in Procs : orphans[p] # {} => pc[p] = "unlink"

\* The id of an item that is being added is nobody else's, and has no rows.
Names(p, i) == op[p].kind \in {"add", "set", "remove", "delete"} /\ op[p].id = i
FreshIds == \A i \in Ids :
    /\ i \notin used => formats[i] = NoRows /\ \A p \in Procs : ~Names(p, i)
    /\ \A p \in Procs : op[p].kind = "add" /\ Names(p, i) =>
           formats[i] = NoRows /\ \A q \in Procs : Names(q, i) => q = p

AInv == TypeOK /\ PosInList /\ OrphansUnlinked /\ FreshIds /\ Accounted

\* A process stays within its list when the others stay where they are.
LEMMA OneInList ==
  ASSUME PosInList, OrphansUnlinked, NEW p \in Procs,
         \A q \in Procs : q # p => /\ pc'[q] = pc[q] /\ op'[q] = op[q]
                                   /\ pos'[q] = pos[q] /\ orphans'[q] = orphans[q],
         pc'[p] \in {"check", "open", "write"} => Writes(p)' /\ pos'[p] \in DOMAIN op'[p].todo,
         pc'[p] = "commit" /\ Writes(p)' => pos'[p] = Len(op'[p].todo) + 1,
         orphans'[p] # {} => pc'[p] = "unlink"
  PROVE  PosInList' /\ OrphansUnlinked'
<1>1. OrphansUnlinked'
  BY DEF OrphansUnlinked
<1>2. PosInList'
  <2> SUFFICES ASSUME NEW q \in Procs
               PROVE  /\ pc'[q] \in {"check", "open", "write"} =>
                            Writes(q)' /\ pos'[q] \in DOMAIN op'[q].todo
                      /\ pc'[q] = "commit" /\ Writes(q)' => pos'[q] = Len(op'[q].todo) + 1
    BY DEF PosInList
  <2>1. CASE q = p
    BY <2>1
  <2>2. CASE q # p
    BY <2>2 DEF PosInList, Writes
  <2> QED
    BY <2>1, <2>2
<1> QED
  BY <1>1, <1>2

\* Those that stop are at no list at all.
LEMMA StopInList ==
  ASSUME PosInList, OrphansUnlinked, NEW G, Stop(G)
  PROVE  /\ PosInList' /\ OrphansUnlinked'
         /\ \A q \in Procs : q \notin G =>
               /\ pc'[q] = pc[q] /\ op'[q] = op[q] /\ pos'[q] = pos[q]
               /\ orphans'[q] = orphans[q]
         /\ \A q \in Procs : op'[q] \in {op[q], NoCall}
<1>1. \A q \in Procs : q \notin G =>
         pc'[q] = pc[q] /\ op'[q] = op[q] /\ pos'[q] = pos[q] /\ orphans'[q] = orphans[q]
  BY DEF Stop
<1>2. \A q \in Procs : q \in G => pc'[q] = "idle" /\ op'[q] = NoCall /\ orphans'[q] = {}
  BY DEF Stop
<1>3. PosInList'
  BY <1>1, <1>2 DEF PosInList, Writes
<1>4. OrphansUnlinked'
  BY <1>1, <1>2 DEF OrphansUnlinked
<1> QED
  BY <1>1, <1>2, <1>3, <1>4

LEMMA CommitRowsInList ==
  ASSUME TypeOK, PosInList, OrphansUnlinked, NEW p \in Procs, NEW fm, CommitRows(p, fm)
  PROVE  /\ PosInList' /\ OrphansUnlinked'
         /\ \A q \in Procs : q # p =>
               /\ pc'[q] = pc[q] /\ op'[q] = op[q] /\ pos'[q] = pos[q]
               /\ orphans'[q] = orphans[q]
         /\ \A q \in Procs : op'[q] \in {op[q], NoCall}
<1>1. CASE Return(p)
  BY <1>1, StopInList DEF Return
<1>2. CASE /\ pc' = [pc EXCEPT ![p] = "unlink"]
           /\ orphans' = [orphans EXCEPT ![p] = Freed(fm)]
           /\ UNCHANGED <<op, pos, now, lock>>
  <2>1. \A q \in Procs : q # p =>
           pc'[q] = pc[q] /\ op'[q] = op[q] /\ pos'[q] = pos[q] /\ orphans'[q] = orphans[q]
    BY <1>2 DEF TypeOK
  <2>2. pc'[p] = "unlink"
    BY <1>2 DEF TypeOK
  <2> QED
    BY <1>2, <2>1, <2>2, OneInList
<1> QED
  BY <1>1, <1>2 DEF CommitRows

LEMMA NextInList ==
  ASSUME TypeOK, PosInList, OrphansUnlinked, [Next]_vars
  PROVE  PosInList' /\ OrphansUnlinked'
<1> DEFINE Goal == PosInList' /\ OrphansUnlinked'
<1> USE DEF db, local
<1>1. ASSUME NEW p \in Procs, Call(p) PROVE Goal
  <2>1. PICK c \in Calls : op' = [op EXCEPT ![p] = c]
    BY <1>1 DEF Call
  <2>2. /\ pc'[p] = "waiting" /\ orphans'[p] = {}
        /\ \A q \in Procs : q # p => pc'[q] = pc[q] /\ op'[q] = op[q]
        /\ UNCHANGED <<pos, orphans>>
    BY <1>1, <2>1 DEF Call, TypeOK, OrphansUnlinked
  <2> QED
    BY <2>2, OneInList
<1>2. ASSUME NEW p \in Procs, Enter(p) PROVE Goal
  <2>1. /\ orphans'[p] = {} /\ UNCHANGED <<op, orphans>>
        /\ pc'[p] = (IF Writes(p) THEN "check" ELSE "commit") /\ pos'[p] = 1
        /\ \A q \in Procs : q # p => pc'[q] = pc[q] /\ pos'[q] = pos[q]
    BY <1>2 DEF Enter, TypeOK, OrphansUnlinked
  <2>2. Writes(p)' = Writes(p) /\ (Writes(p) => 1 \in DOMAIN op[p].todo)
    BY <2>1, TodoDomain DEF Writes
  <2> QED
    BY <2>1, <2>2, OneInList
<1>3. ASSUME NEW p \in Procs, Advance(p), pc[p] \in {"check", "write"},
             UNCHANGED <<op, orphans>>
      PROVE  Goal
  <2>1. Writes(p) /\ pos[p] \in 1 .. Len(op[p].todo) /\ Len(op[p].todo) \in Nat
    BY <1>3, TodoDomain DEF PosInList
  <2>2. /\ pos'[p] = pos[p] + 1
        /\ pc'[p] = IF pos[p] = Len(op[p].todo) THEN "commit" ELSE "check"
        /\ \A q \in Procs : q # p => pc'[q] = pc[q] /\ pos'[q] = pos[q]
    BY <1>3 DEF Advance, TypeOK
  <2>3. DOMAIN op[p].todo = 1 .. Len(op[p].todo) /\ Writes(p)' /\ orphans'[p] = {}
    BY <1>3, <2>1, TodoDomain DEF OrphansUnlinked, Writes
  <2>4. pc'[p] = "check" => pos'[p] \in 1 .. Len(op[p].todo)
    BY <2>1, <2>2
  <2>5. pc'[p] = "commit" => pos'[p] = Len(op[p].todo) + 1
    BY <2>1, <2>2
  <2>6. pc'[p] \in {"check", "commit"}
    BY <2>2
  <2> QED
    BY <1>3, <2>2, <2>3, <2>4, <2>5, <2>6, OneInList
<1>4. ASSUME NEW p \in Procs, CheckBlob(p) \/ OpenBlob(p) \/ FillBlob(p) PROVE Goal
  <2>1. CASE Advance(p)
    BY <1>3, <1>4, <2>1 DEF CheckBlob, OpenBlob, FillBlob, Advance, TypeOK
  <2>2. CASE ~Advance(p)
    <3>1. /\ pc'[p] \in {"open", "write"} /\ pc[p] \in {"check", "open"}
          /\ UNCHANGED <<op, pos, orphans>>
          /\ \A q \in Procs : q # p => pc'[q] = pc[q]
      BY <1>4, <2>2 DEF CheckBlob, OpenBlob, FillBlob, TypeOK
    <3>2. Writes(p)' /\ pos'[p] \in DOMAIN op'[p].todo /\ orphans'[p] = {}
      BY <3>1 DEF PosInList, OrphansUnlinked, Writes
    <3> QED
      BY <3>1, <3>2, OneInList
  <2> QED
    BY <2>1, <2>2
<1>5. ASSUME NEW G, Stop(G) PROVE Goal
  BY <1>5, StopInList
<1>6. ASSUME NEW p \in Procs, NEW fm, CommitRows(p, fm) PROVE Goal
  BY <1>6, CommitRowsInList
<1>7. ASSUME NEW p \in Procs,
             CommitSet(p) \/ CommitRemove(p) \/ CommitDelete(p) \/ CommitPrune(p)
      PROVE  Goal
  BY <1>6, <1>7 DEF CommitSet, CommitRemove, CommitDelete, CommitPrune
<1>8. ASSUME NEW p \in Procs, UnlinkBlob(p) PROVE Goal
  <2>1. CASE Return(p)
    BY <1>5, <2>1 DEF Return
  <2>2. CASE ~Return(p)
    <3>1. /\ UNCHANGED <<pc, op, pos>> /\ pc[p] = "unlink"
          /\ \A q \in Procs : q # p => orphans'[q] = orphans[q]
      BY <1>8, <2>2 DEF UnlinkBlob, TypeOK
    <3> QED
      BY <3>1, OneInList
  <2> QED
    BY <2>1, <2>2
<1>9. CASE Tick \/ UNCHANGED vars
  BY <1>9 DEF Tick, vars, PosInList, OrphansUnlinked, Writes
<1> QED
  BY <1>1, <1>2, <1>4, <1>5, <1>7, <1>8, <1>9
  DEF Next, Work, CommitNothing, CommitAdd, Return, IOError, Crash, Fail

\* Steps that hand out no id: only a process that has an id changes its rows.
LEMMA SameNamesFresh ==
  ASSUME TypeOK, FreshIds, used' = used,
         \A q \in Procs : op'[q] \in {op[q], NoCall},
         \A i \in Ids : formats'[i] \in {formats[i], NoRows} \/ \E p \in Procs :
             Names(p, i) /\ (op[p].kind = "add" => op'[p] = NoCall)
  PROVE  FreshIds'
<1>1. \A q \in Procs : \A i : Names(q, i)' => Names(q, i) /\ op'[q] = op[q]
  BY DEF Names, NoCall
<1>2. ASSUME NEW i \in Ids, i \notin used'
      PROVE  formats'[i] = NoRows /\ \A p \in Procs : ~Names(p, i)'
  BY <1>1, <1>2 DEF FreshIds
<1>3. ASSUME NEW i \in Ids, NEW p \in Procs, op'[p].kind = "add", Names(p, i)'
      PROVE  formats'[i] = NoRows /\ \A q \in Procs : Names(q, i)' => q = p
  <2>1. op[p].kind = "add" /\ Names(p, i) /\ op'[p] # NoCall
    BY <1>1, <1>3 DEF NoCall
  <2>2. formats[i] = NoRows /\ \A q \in Procs : Names(q, i) => q = p
    BY <2>1 DEF FreshIds
  <2> QED
    BY <1>1, <2>1, <2>2
<1> QED
  BY <1>2, <1>3 DEF FreshIds

LEMMA NextFresh ==
  ASSUME TypeOK, PosInList, OrphansUnlinked, FreshIds, [Next]_vars
  PROVE  FreshIds'
<1> USE DEF db, local
<1>1. ASSUME NEW p \in Procs, Call(p) PROVE FreshIds'
  <2>1. PICK c \in Calls :
          /\ c.kind = "add" => c.id \notin used
          /\ c.kind \in {"set", "remove", "delete"} => Known(c.id)
          /\ op' = [op EXCEPT ![p] = c]
          /\ used' = IF c.kind = "add" THEN used \cup {c.id} ELSE used
    BY <1>1 DEF Call
  <2>2. op'[p] = c /\ formats' = formats /\ \A q \in Procs : q # p => op'[q] = op[q]
    BY <1>1, <2>1 DEF Call, TypeOK
  <2>3. /\ c.kind = "add" => c.id \in Ids /\ used' = used \cup {c.id}
        /\ c.kind # "add" => used' = used
    BY <2>1, CallFields
  <2>4. \A i : \A q \in Procs : q # p => (Names(q, i)' <=> Names(q, i))
    BY <2>2 DEF Names
  <2>5. \A i : Names(p, i)' => i = c.id /\ c.kind \in {"add", "set", "remove", "delete"}
    BY <2>2 DEF Names
  <2>6. c.kind \in {"set", "remove", "delete"} =>
           c.id \in used /\ \A q \in Procs : op[q].kind = "add" => ~Names(q, c.id)
    BY <2>1 DEF Known, Names
  <2>7. ASSUME NEW i \in Ids, i \notin used'
        PROVE  formats'[i] = NoRows /\ \A q \in Procs : ~Names(q, i)'
    BY <2>2, <2>3, <2>4, <2>5, <2>6, <2>7 DEF FreshIds
  <2>8. ASSUME NEW i \in Ids, NEW q \in Procs, op'[q].kind = "add", Names(q, i)'
        PROVE  formats'[i] = NoRows /\ \A r \in Procs : Names(r, i)' => r = q
    <3>1. CASE q = p
      <4>1. i \notin used
        BY <2>1, <2>2, <2>5, <2>8, <3>1
      <4> QED
        BY <2>2, <2>4, <3>1, <4>1 DEF FreshIds
    <3>2. CASE q # p
      <4>1. op[q].kind = "add" /\ Names(q, i)
        BY <2>2, <2>4, <2>8, <3>2
      <4>2. i \in used /\ formats[i] = NoRows /\ \A r \in Procs : Names(r, i) => r = q
        BY <4>1 DEF FreshIds
      <4>3. ~Names(p, i)'
        BY <2>1, <2>5, <2>6, <4>1, <4>2
      <4> QED
        BY <2>2, <2>4, <4>2, <4>3
    <3> QED
      BY <3>1, <3>2
  <2> QED
    BY <2>7, <2>8 DEF FreshIds
<1>2. ASSUME UNCHANGED <<used, op, formats>> PROVE FreshIds'
  BY <1>2, SameNamesFresh
<1>3. ASSUME NEW p \in Procs, Enter(p) \/ CheckBlob(p) \/ OpenBlob(p) \/ FillBlob(p)
      PROVE  FreshIds'
  BY <1>2, <1>3 DEF Enter, CheckBlob, OpenBlob, FillBlob
<1>4. ASSUME NEW G, Stop(G), UNCHANGED <<used, formats>> PROVE FreshIds'
  BY <1>4, StopInList, SameNamesFresh
<1>5. ASSUME NEW p \in Procs, CommitAdd(p) PROVE FreshIds'
  <2>1. /\ op[p].kind = "add" /\ Stop({p}) /\ used' = used
        /\ formats' = [formats EXCEPT ![op[p].id] = Upserted(NoRows, op[p].todo)]
    BY <1>5 DEF CommitAdd, At, Return
  <2>2. /\ Names(p, op[p].id) /\ op'[p] = NoCall
        /\ \A q \in Procs : op'[q] \in {op[q], NoCall}
    BY <2>1 DEF Names, Stop
  <2>3. \A i \in Ids : i # op[p].id => formats'[i] = formats[i]
    BY <2>1 DEF TypeOK
  <2> QED
    BY <2>1, <2>2, <2>3, SameNamesFresh
<1>6. ASSUME NEW p \in Procs, CommitSet(p) \/ CommitRemove(p) PROVE FreshIds'
  <2>1. /\ used' = used /\ Names(p, op[p].id) /\ op[p].kind # "add"
        /\ \A i \in Ids : i # op[p].id => formats'[i] = formats[i]
    BY <1>6 DEF CommitSet, CommitRemove, CommitRows, At, Names, TypeOK
  <2>2. \A q \in Procs : op'[q] \in {op[q], NoCall}
    BY <1>6, CommitRowsInList DEF CommitSet, CommitRemove
  <2> QED
    BY <2>1, <2>2, SameNamesFresh
<1>7. ASSUME NEW p \in Procs, CommitDelete(p) \/ CommitPrune(p) PROVE FreshIds'
  <2>1. used' = used /\ \A i \in Ids : formats'[i] \in {formats[i], NoRows}
    BY <1>7 DEF CommitDelete, CommitPrune, CommitRows, TypeOK
  <2>2. \A q \in Procs : op'[q] \in {op[q], NoCall}
    BY <1>7, CommitRowsInList DEF CommitDelete, CommitPrune
  <2> QED
    BY <2>1, <2>2, SameNamesFresh
<1>8. ASSUME NEW p \in Procs, UnlinkBlob(p) PROVE FreshIds'
  BY <1>2, <1>4, <1>8 DEF UnlinkBlob, Return
<1>9. CASE Tick \/ UNCHANGED vars
  BY <1>2, <1>9 DEF Tick, vars
<1> QED
  BY <1>1, <1>3, <1>4, <1>5, <1>6, <1>7, <1>8, <1>9
  DEF Next, Work, CommitNothing, Return, IOError, Crash, Fail

\* What a process has in hand is part of what it gives up when it stops.
LEMMA OwnedPending == \A p \in Procs : Owned(p) \subseteq Pending(p)
  BY DEF Owned, Pending, Stored, Storing

\* A process that nothing happens to keeps what it has in hand.
LEMMA OwnedKept ==
  ASSUME NEW q, pc'[q] = pc[q], op'[q] = op[q], pos'[q] = pos[q], orphans'[q] = orphans[q]
  PROVE  Owned(q)' = Owned(q)
BY DEF Owned, Stored, Writes

\* Steps outside the transactions only add to what is in hand.
LEMMA MoreOwned ==
  ASSUME Accounted, UNCHANGED <<formats, leaked>>,
         \A q \in Procs : Owned(q) \subseteq Owned(q)',
         \A h \in Contents : Present(h)' => Present(h) \/ \E q \in Procs : h \in Owned(q)'
  PROVE  Accounted'
BY DEF Accounted, Referenced

\* A process that stops leaks what it had in hand.
LEMMA StopAccounted ==
  ASSUME PosInList, OrphansUnlinked, Accounted, NEW G \in SUBSET Procs, Stop(G),
         files' = files, \A h \in Contents : Referenced(h, formats) => Referenced(h, formats)',
         GiveUp(UNION {Pending(q) : q \in G}, formats')
  PROVE  Accounted'
<1> SUFFICES ASSUME NEW h \in Contents, Present(h)', ~Referenced(h, formats)', h \notin leaked'
             PROVE  \E q \in Procs : h \in Owned(q)'
  BY DEF Accounted
<1>1. Present(h) /\ ~Referenced(h, formats) /\ ~Referenced(h, formats')
  BY DEF Present, Referenced
<1>2. h \notin leaked /\ h \notin UNION {Pending(q) : q \in G}
  BY <1>1 DEF GiveUp
<1>3. PICK q \in Procs : h \in Owned(q)
  BY <1>1, <1>2 DEF Accounted
<1>4. q \notin G
  BY <1>2, <1>3, OwnedPending
<1> QED
  BY <1>3, <1>4, StopInList, OwnedKept

\* The one format of a set is referenced once its row is committed.
LEMMA SetReferences ==
  ASSUME TypeOK, NEW p \in Procs, op[p].kind = "set", NEW j \in DOMAIN op[p].todo
  PROVE  Referenced(op[p].todo[j][2],
             [formats EXCEPT ![op[p].id] = Upserted(@, op[p].todo)])
<1> DEFINE i == op[p].id
           todo == op[p].todo
           row == Upserted(formats[i], todo)
<1>1. PICK x \in Mimes \X Contents : todo = <<x>>
  BY DEF TypeOK, Calls, NoCall
<1>2. DOMAIN todo = {1} /\ todo[1] = x /\ x[1] \in Mimes
  BY <1>1
<1>3. todo \in Todos /\ i \in Ids
  BY CallFields DEF TypeOK
<1> HIDE DEF todo
<1>4. LastPos(todo, x[1]) = 1
  BY <1>2, <1>3, LastPosInList
<1>5. row[x[1]] = x[2] /\ todo[j][2] = x[2]
  BY <1>2, <1>4 DEF Upserted, todo
<1> HIDE DEF row, i
<1>6. [formats EXCEPT ![i] = row][i][x[1]] = x[2]
  BY <1>3, <1>5 DEF TypeOK
<1> QED
  BY <1>2, <1>3, <1>5, <1>6 DEF Referenced, row, i, todo

\* What a transaction unreferences is in the hands of its process.
LEMMA CommitRowsAccounted ==
  ASSUME TypeOK, PosInList, OrphansUnlinked, Accounted, NEW p \in Procs, pc[p] = "commit",
         NEW fm, CommitRows(p, fm), files' = files,
         Writes(p) => \A j \in DOMAIN op[p].todo : Referenced(op[p].todo[j][2], fm)
  PROVE  Accounted'
<1> SUFFICES ASSUME NEW h \in Contents, Present(h)', ~Referenced(h, formats)', h \notin leaked'
             PROVE  \E q \in Procs : h \in Owned(q)'
  BY DEF Accounted
<1>1. Present(h) /\ formats' = fm /\ ~Referenced(h, fm)
  BY DEF Present, Referenced, CommitRows
<1>2. CASE Referenced(h, formats)
  <2>1. h \in Freed(fm)
    BY <1>1, <1>2 DEF Freed
  <2>2. orphans'[p] = Freed(fm)
    BY <2>1 DEF CommitRows, TypeOK
  <2> QED
    BY <2>1, <2>2 DEF Owned
<1>3. CASE ~Referenced(h, formats)
  <2>1. h \notin leaked
    BY <1>1 DEF CommitRows, GiveUp
  <2>2. PICK q \in Procs : h \in Owned(q)
    BY <1>1, <1>3, <2>1 DEF Accounted
  <2>3. q # p
    <3>1. orphans[p] = {}
      BY DEF OrphansUnlinked
    <3>2. Writes(p) => Stored(p) \subseteq DOMAIN op[p].todo
      BY TodoDomain DEF Stored, PosInList
    <3>3. ~Writes(p) => Stored(p) = {}
      BY DEF Stored
    <3>4. \A g \in Owned(p) : Referenced(g, fm)
      BY <3>1, <3>2, <3>3 DEF Owned
    <3> QED
      BY <1>1, <2>2, <3>4
  <2> QED
    BY <2>2, <2>3, CommitRowsInList, OwnedKept
<1> QED
  BY <1>2, <1>3

\* Going on to the next blob, a process keeps the one it stored or found.
LEMMA AdvanceOwned ==
  ASSUME TypeOK, PosInList, NEW p \in Procs, pc[p] \in {"check", "write"}, Advance(p),
         UNCHANGED <<op, orphans>>
  PROVE  /\ \A q \in Procs : Owned(q) \subseteq Owned(q)'
         /\ Blob(p) \in Owned(p)'
<1>1. Writes(p) /\ pos[p] \in 1 .. Len(op[p].todo) /\ Len(op[p].todo) \in Nat
  BY TodoDomain DEF PosInList
<1>2. /\ pos'[p] = pos[p] + 1 /\ pc'[p] \in {"check", "commit"}
      /\ \A q \in Procs : q # p => pc'[q] = pc[q] /\ pos'[q] = pos[q]
  BY DEF Advance, TypeOK
<1>3. Stored(p)' = 1 .. pos[p] /\ Stored(p) \subseteq 1 .. pos[p]
  BY <1>1, <1>2 DEF Stored, Storing, Writes
<1>4. Owned(p) \subseteq Owned(p)' /\ Blob(p) \in Owned(p)'
  BY <1>1, <1>3 DEF Owned, Blob
<1>5. \A q \in Procs : q # p => Owned(q)' = Owned(q)
  BY <1>2, OwnedKept
<1> QED
  BY <1>4, <1>5

LEMMA NextAccounted ==
  ASSUME AInv, [Next]_vars
  PROVE  Accounted'
<1> USE DEF db, local
<1>1. ASSUME NEW p \in Procs, Call(p) PROVE Accounted'
  <2>1. /\ pc[p] = "idle" /\ pc'[p] = "waiting" /\ UNCHANGED <<formats, leaked, files, pos, orphans>>
        /\ \A q \in Procs : q # p => pc'[q] = pc[q] /\ op'[q] = op[q]
    BY <1>1 DEF Call, AInv, TypeOK
  <2>2. Owned(p) \subseteq Owned(p)'
    BY <2>1 DEF Owned, Stored, Storing
  <2>3. \A q \in Procs : Owned(q) \subseteq Owned(q)'
    BY <2>1, <2>2, OwnedKept
  <2> QED
    BY <2>1, <2>3, MoreOwned DEF AInv, Present
<1>2. ASSUME NEW p \in Procs, Enter(p) PROVE Accounted'
  <2>1. /\ pc[p] = "waiting" /\ UNCHANGED <<formats, leaked, files, op, orphans>>
        /\ \A q \in Procs : q # p => pc'[q] = pc[q] /\ pos'[q] = pos[q]
    BY <1>2 DEF Enter, AInv, TypeOK
  <2>2. Owned(p) \subseteq Owned(p)'
    BY <2>1 DEF Owned, Stored, Storing
  <2>3. \A q \in Procs : Owned(q) \subseteq Owned(q)'
    BY <2>1, <2>2, OwnedKept
  <2> QED
    BY <2>1, <2>3, MoreOwned DEF AInv, Present
<1>3. ASSUME NEW p \in Procs, CheckBlob(p) PROVE Accounted'
  <2>1. pc[p] = "check" /\ UNCHANGED <<formats, leaked, files, op, orphans>>
    BY <1>3 DEF CheckBlob
  <2>2. CASE Advance(p)
    BY <2>1, <2>2, AdvanceOwned, MoreOwned DEF AInv, Present
  <2>3. CASE pc' = [pc EXCEPT ![p] = "open"] /\ UNCHANGED pos
    <3>1. pc'[p] = "open" /\ \A q \in Procs : q # p => pc'[q] = pc[q]
      BY <2>3 DEF AInv, TypeOK
    <3>2. Owned(p)' = Owned(p)
      BY <2>1, <2>3, <3>1 DEF Owned, Stored, Storing, Writes
    <3>3. \A q \in Procs : Owned(q) \subseteq Owned(q)'
      BY <2>1, <2>3, <3>1, <3>2, OwnedKept
    <3> QED
      BY <2>1, <3>3, MoreOwned DEF AInv, Present
  <2> QED
    BY <1>3, <2>2, <2>3 DEF CheckBlob
<1>4. ASSUME NEW p \in Procs, OpenBlob(p) PROVE Accounted'
  <2>1. /\ pc[p] = "open" /\ pc' = [pc EXCEPT ![p] = "write"]
        /\ files' = [files EXCEPT ![Blob(p)] = "partial"]
        /\ UNCHANGED <<formats, leaked, op, pos, orphans>>
    BY <1>4 DEF OpenBlob
  <2>2. Writes(p) /\ pos[p] \in Nat \ {0}
    BY <2>1, TodoDomain DEF AInv, PosInList
  <2>3. pc'[p] = "write" /\ \A q \in Procs : q # p => pc'[q] = pc[q]
    BY <2>1 DEF AInv, TypeOK
  <2>4. Stored(p)' = 1 .. pos[p] /\ Stored(p) = 1 .. (pos[p] - 1)
    BY <2>1, <2>2, <2>3 DEF Stored, Storing, Writes
  <2>5. Owned(p) \subseteq Owned(p)' /\ Blob(p) \in Owned(p)'
    BY <2>1, <2>2, <2>4 DEF Owned, Blob
  <2>6. \A q \in Procs : Owned(q) \subseteq Owned(q)'
    BY <2>1, <2>3, <2>5, OwnedKept
  <2>7. \A h \in Contents : Present(h)' => Present(h) \/ h = Blob(p)
    BY <2>1 DEF Present, AInv, TypeOK
  <2> QED
    BY <2>1, <2>5, <2>6, <2>7, MoreOwned DEF AInv
<1>5. ASSUME NEW p \in Procs, FillBlob(p) PROVE Accounted'
  <2>1. /\ pc[p] = "write" /\ Advance(p) /\ UNCHANGED <<formats, leaked, op, orphans>>
        /\ files' = files \/ files' = [files EXCEPT ![Blob(p)] = "whole"]
    BY <1>5 DEF FillBlob
  <2>2. \A h \in Contents : Present(h)' => Present(h) \/ h = Blob(p)
    BY <2>1 DEF Present, AInv, TypeOK
  <2> QED
    BY <2>1, <2>2, AdvanceOwned, MoreOwned DEF AInv
<1>6. ASSUME NEW p \in Procs, CommitNothing(p) PROVE Accounted'
  <2>1. /\ Stop({p}) /\ UNCHANGED <<files, formats>>
        /\ GiveUp(UNION {Pending(q) : q \in {p}}, formats')
    BY <1>6 DEF CommitNothing, Return, GiveUp, Referenced
  <2> QED
    BY <2>1, StopAccounted DEF AInv, Referenced
<1>7. ASSUME NEW p \in Procs, CommitAdd(p) PROVE Accounted'
  <2>1. /\ op[p].kind = "add" /\ Stop({p}) /\ files' = files
        /\ formats' = [formats EXCEPT ![op[p].id] = Upserted(NoRows, op[p].todo)]
        /\ GiveUp(UNION {Pending(q) : q \in {p}}, formats')
    BY <1>7 DEF CommitAdd, At, Return, GiveUp, Referenced
  <2>2. op[p].id \in Ids /\ formats[op[p].id] = NoRows
    BY <2>1, CallFields DEF AInv, TypeOK, FreshIds, Names
  <2>3. ASSUME NEW h \in Contents, Referenced(h, formats) PROVE Referenced(h, formats)'
    <3>1. PICK i \in Ids, m \in Mimes : formats[i][m] = h
      BY <2>3 DEF Referenced
    <3>2. i # op[p].id
      BY <2>2, <3>1, NoneAssumption DEF NoRows
    <3>3. formats'[i][m] = h
      BY <2>1, <3>1, <3>2 DEF AInv, TypeOK
    <3> QED
      BY <3>3 DEF Referenced
  <2> QED
    BY <2>1, <2>3, StopAccounted DEF AInv
<1>8. ASSUME NEW p \in Procs, CommitSet(p) PROVE Accounted'
  <2> DEFINE fm == [formats EXCEPT ![op[p].id] = Upserted(@, op[p].todo)]
  <2>1. pc[p] = "commit" /\ op[p].kind = "set" /\ CommitRows(p, fm) /\ files' = files
    BY <1>8 DEF CommitSet, At
  <2>2. \A j \in DOMAIN op[p].todo : Referenced(op[p].todo[j][2], fm)
    BY <2>1, SetReferences DEF AInv
  <2> HIDE DEF fm
  <2> QED
    BY <2>1, <2>2, CommitRowsAccounted DEF AInv
<1>9. ASSUME NEW p \in Procs, CommitRemove(p) \/ CommitDelete(p) \/ CommitPrune(p)
      PROVE  Accounted'
  <2>1. /\ pc[p] = "commit" /\ ~Writes(p) /\ files' = files
        /\ \E fm : CommitRows(p, fm)
    BY <1>9 DEF CommitRemove, CommitDelete, CommitPrune, At, Writes
  <2> QED
    BY <2>1, CommitRowsAccounted DEF AInv
<1>10. ASSUME NEW p \in Procs, UnlinkBlob(p) PROVE Accounted'
  <2>1. PICK g \in orphans[p] :
          /\ files' = [files EXCEPT ![g] = "absent"]
          /\ leaked' = leaked \ {g}
          /\ \/ orphans[p] = {g} /\ Return(p)
             \/ /\ orphans' = [orphans EXCEPT ![p] = @ \ {g}]
                /\ UNCHANGED <<pc, op, pos>>
    BY <1>10 DEF UnlinkBlob
  <2>2. pc[p] = "unlink" /\ formats' = formats
    BY <1>10 DEF UnlinkBlob
  <2>3. Owned(p) = orphans[p]
    BY <2>2 DEF Owned, Stored, Storing
  <2>4. orphans[p] \ {g} \subseteq Owned(p)'
    BY <2>1 DEF Owned, AInv, TypeOK
  <2>5. \A q \in Procs : q # p => Owned(q)' = Owned(q)
    <3>1. \A q \in Procs : q # p =>
             pc'[q] = pc[q] /\ op'[q] = op[q] /\ pos'[q] = pos[q] /\ orphans'[q] = orphans[q]
      BY <2>1, StopInList DEF AInv, Return, TypeOK
    <3> QED
      BY <3>1, OwnedKept
  <2>6. ASSUME NEW h \in Contents, Present(h)', ~Referenced(h, formats)', h \notin leaked'
        PROVE  \E q \in Procs : h \in Owned(q)'
    <3>1. h # g /\ Present(h) /\ ~Referenced(h, formats) /\ h \notin leaked
      BY <2>1, <2>2, <2>6 DEF Present, Referenced, AInv, TypeOK
    <3>2. PICK q \in Procs : h \in Owned(q)
      BY <3>1 DEF AInv, Accounted
    <3> QED
      BY <2>3, <2>4, <2>5, <3>1, <3>2
  <2> QED
    BY <2>6 DEF Accounted
<1>11. ASSUME NEW G \in SUBSET Procs, Fail(G) PROVE Accounted'
  <2>1. /\ Stop(G) /\ UNCHANGED <<files, formats>>
        /\ GiveUp(UNION {Pending(q) : q \in G}, formats')
    BY <1>11 DEF Fail, GiveUp, Referenced
  <2> QED
    BY <2>1, StopAccounted DEF AInv, Referenced
<1>12. CASE Tick \/ UNCHANGED vars
  <2>1. UNCHANGED <<formats, leaked, files, pc, op, pos, orphans>>
    BY <1>12 DEF Tick, vars
  <2>2. \A q \in Procs : Owned(q)' = Owned(q)
    BY <2>1, OwnedKept
  <2> QED
    BY <2>1, <2>2, MoreOwned DEF AInv, Present
<1>13. Tasks \in SUBSET Procs /\ \A p \in Procs : {p} \in SUBSET Procs
  BY DEF Procs
<1>14. Crash => \E G \in SUBSET Procs : Fail(G)
  BY <1>13 DEF Crash, Running, Procs
<1> QED
  BY <1>1, <1>2, <1>3, <1>4, <1>5, <1>6, <1>7, <1>8, <1>9, <1>10, <1>11, <1>12, <1>13, <1>14
  DEF Next, Work, IOError

LEMMA AInvHolds == Spec => []AInv
<1>1. Init => AInv
  BY InitType, NoneAssumption
  DEF Init, AInv, PosInList, OrphansUnlinked, FreshIds, Names, Accounted, Present, NoCall
<1>2. AInv /\ [Next]_vars => AInv'
  BY NextType, NextInList, NextFresh, NextAccounted DEF AInv
<1> QED
  BY <1>1, <1>2, PTL DEF Spec

\* Every blob file is a row's, in the hands of a running operation, or leaked,
\* with any processes on the store and whatever fails.
THEOREM OrphansAccountedHolds == Spec => []OrphansAccounted
<1>1. AInv => OrphansAccounted
  BY OwnedPending DEF AInv, Accounted, OrphansAccounted
<1> QED
  BY <1>1, AInvHolds, PTL

-----------------------------------------------------------------------------
(***************************************************************************)
(* Reading back what was stored, as long as nothing has failed.  The one   *)
(* file that is not whole is the one being written, and no row has its     *)
(* hash: the writer found no such file, and a row's file is never missing. *)
(***************************************************************************)
Written ==
    /\ \A h \in Contents : files[h] = "partial" =>
           \E p \in Procs : pc[p] = "write" /\ Blob(p) = h
    /\ \A p \in Procs : pc[p] = "open" => ~Present(Blob(p))
    /\ \A p \in Procs : pc[p] = "write" => linked[p] /\ ~Referenced(Blob(p), formats)

\* Steps that leave rows, files and the writer alone.
LEMMA SameWritten ==
  ASSUME Written, UNCHANGED <<formats, files, linked>>,
         \A p \in Procs : (pc[p] = "write" \/ pc'[p] \in {"open", "write"}) =>
             pc'[p] = pc[p] /\ op'[p] = op[p] /\ pos'[p] = pos[p]
  PROVE  Written'
<1>1. \A p \in Procs : (pc[p] = "write" \/ pc'[p] \in {"open", "write"}) => Blob(p)' = Blob(p)
  BY DEF Blob
<1>2. \A h \in Contents : files'[h] = "partial" =>
         \E p \in Procs : pc'[p] = "write" /\ Blob(p)' = h
  BY <1>1 DEF Written
<1>3. \A p \in Procs : pc'[p] = "open" => ~Present(Blob(p))'
  <2> SUFFICES ASSUME NEW p \in Procs, pc'[p] = "open" PROVE files'[Blob(p)'] = "absent"
    BY DEF Present
  <2> QED
    BY <1>1 DEF Written, Present
<1>4. \A p \in Procs : pc'[p] = "write" => linked'[p] /\ ~Referenced(Blob(p)', formats')
  BY <1>1 DEF Written
<1> QED
  BY <1>2, <1>3, <1>4 DEF Written, Present, Referenced, Blob

\* Nobody is writing: then every file is whole.
LEMMA NobodyWritten ==
  ASSUME \A p \in Procs : pc'[p] \notin {"open", "write"},
         \A h \in Contents : files'[h] # "partial"
  PROVE  Written'
BY DEF Written

LEMMA NextWritten ==
  ASSUME SoleWriter, IInv, Written, [Next]_vars, faults = 0, faults' = 0
  PROVE  Written'
<1> USE DEF db, local
<1>1. \A p, q \in Procs : Busy(p) /\ Busy(q) => p = q
  BY OneBusy DEF IInv
<1>2. ASSUME NEW p \in Procs, Call(p) PROVE Written'
  <2>1. /\ pc[p] = "idle" /\ pc'[p] = "waiting" /\ UNCHANGED <<formats, files, linked, pos>>
        /\ \A q \in Procs : q # p => pc'[q] = pc[q] /\ op'[q] = op[q]
    BY <1>2 DEF Call, IInv, TypeOK
  <2> QED
    BY <2>1, SameWritten
<1>3. ASSUME NEW p \in Procs, Enter(p) PROVE Written'
  <2>1. /\ pc[p] = "waiting" /\ pc'[p] \in {"check", "commit"}
        /\ UNCHANGED <<formats, files, linked, op>>
        /\ \A q \in Procs : q # p => pc'[q] = pc[q] /\ pos'[q] = pos[q]
    BY <1>3 DEF Enter, IInv, TypeOK
  <2> QED
    BY <2>1, SameWritten
<1>4. ASSUME NEW p \in Procs, CheckBlob(p) PROVE Written'
  <2>1. /\ pc[p] = "check" /\ UNCHANGED <<formats, files, linked, op>>
        /\ \A q \in Procs : q # p => pc[q] \notin {"open", "write"}
    BY <1>1, <1>4 DEF CheckBlob, Busy
  <2>2. CASE Advance(p)
    <3>1. /\ pc'[p] \in {"check", "commit"}
          /\ \A q \in Procs : q # p => pc'[q] = pc[q] /\ pos'[q] = pos[q]
      BY <2>2 DEF Advance, IInv, TypeOK
    <3> QED
      BY <2>1, <3>1, SameWritten
  <2>3. CASE ~Advance(p)
    <3>1. /\ pc'[p] = "open" /\ pos' = pos /\ ~Present(Blob(p))
          /\ \A q \in Procs : q # p => pc'[q] = pc[q]
      BY <1>4, <2>3 DEF CheckBlob, IInv, TypeOK
    <3>2. Blob(p)' = Blob(p)
      BY <2>1, <3>1 DEF Blob
    <3>3. files[Blob(p)'] = "absent"
      BY <3>1, <3>2 DEF Present
    <3>4. ~Present(Blob(p))'
      BY <2>1, <3>3 DEF Present
    <3>5. \A h \in Contents : files[h] # "partial"
      BY <2>1 DEF Written
    <3>6. \A q \in Procs : q # p => pc'[q] \notin {"open", "write"}
      BY <2>1, <3>1
    <3> QED
      BY <2>1, <3>1, <3>4, <3>5, <3>6 DEF Written
  <2> QED
    BY <2>2, <2>3
<1>5. ASSUME NEW p \in Procs, OpenBlob(p) PROVE Written'
  <2>1. /\ pc[p] = "open" /\ pc' = [pc EXCEPT ![p] = "write"]
        /\ files' = [files EXCEPT ![Blob(p)] = "partial"]
        /\ linked' = [linked EXCEPT ![p] = TRUE]
        /\ UNCHANGED <<formats, op, pos>>
    BY <1>5 DEF OpenBlob
  <2>2. Blob(p) \in Contents /\ Blob(p)' = Blob(p)
    BY <2>1, TodoDomain DEF IInv, PosInList, Blob
  <2>3. ~Referenced(Blob(p), formats)
    BY <2>1, <2>2 DEF Written, IInv, NoDanglingRow
  <2>4. pc'[p] = "write" /\ linked'[p] /\ \A q \in Procs : q # p => pc'[q] = pc[q]
    BY <2>1 DEF IInv, TypeOK
  <2>5. \A q \in Procs : q # p => pc'[q] \notin {"open", "write"} /\ pc[q] # "write"
    BY <1>1, <2>1, <2>4 DEF Busy
  <2>6. \A h \in Contents : files'[h] = "partial" => h = Blob(p)
    BY <2>1, <2>5 DEF Written, IInv, TypeOK
  <2>7. ~Referenced(Blob(p), formats)'
    BY <2>1, <2>2, <2>3 DEF Referenced
  <2> QED
    BY <2>2, <2>4, <2>5, <2>6, <2>7 DEF Written
<1>6. ASSUME NEW p \in Procs, FillBlob(p) PROVE Written'
  <2>1. pc[p] = "write" /\ linked[p] /\ files' = [files EXCEPT ![Blob(p)] = "whole"] /\ Advance(p)
    BY <1>6 DEF FillBlob, Written
  <2>2. /\ pc'[p] \in {"check", "commit"}
        /\ \A q \in Procs : q # p => pc'[q] = pc[q]
    BY <2>1 DEF Advance, IInv, TypeOK
  <2>3. \A q \in Procs : q # p => pc[q] \notin {"open", "write"}
    BY <1>1, <2>1 DEF Busy
  <2>4. \A h \in Contents : files'[h] # "partial"
    BY <2>1, <2>3 DEF Written, IInv, TypeOK
  <2>5. \A q \in Procs : pc'[q] \notin {"open", "write"}
    BY <2>2, <2>3
  <2> QED
    BY <2>4, <2>5, NobodyWritten
<1>7. ASSUME NEW p \in Procs, pc[p] \in {"commit", "unlink"},
             \A h \in Contents : files'[h] \in {files[h], "absent"},
             pc'[p] \in {"idle", "unlink"}, \A q \in Procs : q # p => pc'[q] = pc[q]
      PROVE  Written'
  <2>1. \A q \in Procs : pc[q] \notin {"open", "write"}
    BY <1>1, <1>7 DEF Busy
  <2>2. \A q \in Procs : pc'[q] \notin {"open", "write"}
    BY <1>7, <2>1
  <2>3. \A h \in Contents : files'[h] # "partial"
    BY <1>7, <2>1 DEF Written
  <2> QED
    BY <2>2, <2>3, NobodyWritten
<1>8. ASSUME NEW p \in Procs, CommitNothing(p) \/ CommitAdd(p) PROVE Written'
  BY <1>7, <1>8 DEF CommitNothing, CommitAdd, At, Return, Stop
<1>9. ASSUME NEW p \in Procs,
             CommitSet(p) \/ CommitRemove(p) \/ CommitDelete(p) \/ CommitPrune(p)
      PROVE  Written'
  <2>1. pc[p] = "commit" /\ files' = files /\ \E fm : CommitRows(p, fm)
    BY <1>9 DEF CommitSet, CommitRemove, CommitDelete, CommitPrune, At
  <2> QED
    BY <1>7, <2>1, CommitRowsProcs DEF IInv
<1>10. ASSUME NEW p \in Procs, UnlinkBlob(p) PROVE Written'
  <2>1. /\ (pc[p] = "unlink" /\ Return(p)) \/ UNCHANGED pc
        /\ \A h \in Contents : files'[h] \in {files[h], "absent"}
    BY <1>10 DEF UnlinkBlob, IInv, TypeOK
  <2>2. pc[p] = "unlink"
    BY <1>10 DEF UnlinkBlob
  <2>3. pc'[p] \in {"idle", "unlink"} /\ \A q \in Procs : q # p => pc'[q] = pc[q]
    BY <2>1, <2>2 DEF Return, Stop
  <2> QED
    BY <1>7, <2>1, <2>2, <2>3
<1>11. ASSUME NEW G, Fail(G) PROVE FALSE
  BY <1>11 DEF Fail
<1>12. CASE Tick \/ UNCHANGED vars
  BY <1>12, SameWritten DEF Tick, vars
<1> QED
  BY <1>2, <1>3, <1>4, <1>5, <1>6, <1>8, <1>9, <1>10, <1>11, <1>12
  DEF Next, Work, IOError, Crash

\* Faults are only ever added to.
LEMMA FaultsGrow == ASSUME TypeOK, [Next]_vars, faults' = 0 PROVE faults = 0
<1> USE DEF db, local
<1>1. faults' = faults \/ faults' = faults + 1
  BY DEF Next, Work, Call, Enter, CheckBlob, OpenBlob, FillBlob, CommitNothing, CommitAdd,
         CommitSet, CommitRemove, CommitDelete, CommitPrune, UnlinkBlob, IOError, Crash,
         Fail, Tick, vars
<1> QED
  BY <1>1, TimeAssumption DEF TypeOK

\* With one writer and as long as nothing failed, what a row's hash names can
\* be read back: its file is there and holds all its bytes.
THEOREM RowsReadBackHolds == ASSUME SoleWriter PROVE Spec => []RowsReadBack
<1> DEFINE WInv == faults = 0 => Written
<1>1. Init => WInv
  BY DEF Init, Written
<1>2. IInv /\ WInv /\ [Next]_vars => WInv'
  BY NextWritten, FaultsGrow DEF IInv
<1>3. IInv /\ WInv => RowsReadBack
  <2> SUFFICES ASSUME IInv, WInv, faults = 0, NEW h \in Contents, Referenced(h, formats)
               PROVE  files[h] = "whole"
    BY DEF RowsReadBack
  <2>1. files[h] # "absent" /\ files[h] # "partial"
    BY DEF Written, IInv, NoDanglingRow, Present
  <2> QED
    BY <2>1 DEF IInv, TypeOK
<1> HIDE DEF WInv
<1> QED
  BY <1>1, <1>2, <1>3, IInvHolds, PTL DEF Spec
=============================================================================
