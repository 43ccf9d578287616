-------------------------------- MODULE Feed --------------------------------
(***************************************************************************)
(* What the daemon promises to whoever watches it: a history that changes  *)
(* and an announcement for every change.  A sender changes the history     *)
(* and owes an event from then on, until it announces it.  Announcements   *)
(* of different senders may overtake each other.  A change stays without   *)
(* an announcement only in two cases: the retention removed an item, or    *)
(* the sender's operation has failed, because the store did or because     *)
(* what it names is missing, and the sender says so instead.  An operation *)
(* fails before its last change or with it, so an addition, once made, is  *)
(* always announced.                                                       *)
(***************************************************************************)
EXTENDS Naturals, Sequences

CONSTANTS Ids, Mimes, Lists, Senders, None

VARIABLES
    hist,   \* the mimes of every item of the history
    due,    \* the event each sender has still to announce, or None
    log,    \* the events announced
    failed, \* the senders whose operation has failed
    faults, \* how often the store has failed
    pruned  \* what the retention has removed

vars == <<hist, due, log, failed, faults, pruned>>

Items == DOMAIN hist
InList(l) == {l[k] : k \in DOMAIN l}

Added(i, l)   == [event |-> "item-added", id |-> i, formats |-> l]
Updated(i, l) == [event |-> "item-updated", id |-> i, changed |-> l]
Deleted(i)    == [event |-> "item-deleted", id |-> i]

Init ==
    /\ hist = <<>> /\ due = [s \in Senders |-> None] /\ log = <<>>
    /\ failed = {} /\ faults = 0 /\ pruned = {}

-----------------------------------------------------------------------------
Owe(s, e) == due' = [due EXCEPT ![s] = e]
Keep(S) == hist' = [j \in S |-> hist[j]]

\* One more format of an item changes, and the event lists it.
Change(s, i, m) ==
    /\ i \in Items
    /\ hist' \in {[hist EXCEPT ![i] = @ \cup {m}], [hist EXCEPT ![i] = @ \ {m}]}
    /\ \/ due[s] = None /\ Owe(s, Updated(i, <<m>>))
       \/ /\ due[s] # None /\ due[s].event = "item-updated" /\ due[s].id = i
          /\ Owe(s, Updated(i, Append(due[s].changed, m)))

Delete(s, i) == due[s] = None /\ i \in Items /\ Keep(Items \ {i}) /\ Owe(s, Deleted(i))

Edit(s) == \E i \in Ids : Delete(s, i) \/ \E m \in Mimes : Change(s, i, m)

\* The operation of s is not over: nothing is owed, or an update has begun.
Underway(s) == s \notin failed /\ (due[s] # None => due[s].event = "item-updated")

-----------------------------------------------------------------------------
Add(s, i, l) ==
    /\ s \notin failed /\ due[s] = None /\ i \notin Items
    /\ hist' = [j \in Items \cup {i} |-> IF j = i THEN InList(l) ELSE hist[j]]
    /\ Owe(s, Added(i, l))
    /\ UNCHANGED <<log, failed, faults, pruned>>

Succeed(s) == Underway(s) /\ Edit(s) /\ UNCHANGED <<log, failed, faults, pruned>>

\* The store fails, before a change or after it.
StoreFails(s) ==
    /\ Underway(s) /\ (Edit(s) \/ UNCHANGED <<hist, due>>)
    /\ failed' = failed \cup {s} /\ faults' = faults + 1
    /\ UNCHANGED <<log, pruned>>

\* The item is missing, or a format of it.
Missing(s) ==
    /\ Underway(s)
    /\ due[s] # None /\ due[s].id \in Items => hist[due[s].id] # Mimes
    /\ failed' = failed \cup {s}
    /\ UNCHANGED <<hist, due, log, faults, pruned>>

\* What was changed before the failure stays without an event.
SayFailed(s) ==
    /\ s \in failed /\ failed' = failed \ {s}
    /\ due' = [due EXCEPT ![s] = None]
    /\ UNCHANGED <<hist, log, faults, pruned>>

Announce(s) ==
    /\ s \notin failed /\ due[s] # None
    /\ log' = Append(log, due[s])
    /\ due' = [due EXCEPT ![s] = None]
    /\ UNCHANGED <<hist, failed, faults, pruned>>

\* The retention tells nobody, nor of a failure of its own.
Prune ==
    /\ \E S \in SUBSET Items : Keep(Items \ S) /\ pruned' = pruned \cup S
    /\ faults' \in {faults, faults + 1}
    /\ UNCHANGED <<due, log, failed>>

\* A captured item could not be stored: there is nobody to tell.
CaptureFails == faults' = faults + 1 /\ UNCHANGED <<hist, due, log, failed, pruned>>

Next ==
    \/ Prune \/ CaptureFails
    \/ \E s \in Senders :
        \/ Succeed(s) \/ StoreFails(s) \/ Missing(s) \/ SayFailed(s) \/ Announce(s)
        \/ \E i \in Ids, l \in Lists : Add(s, i, l)

\* What is owed is announced in the end, or said to have failed.
Settles == \A s \in Senders : []<>(due[s] = None)
Spec == Init /\ [][Next]_vars /\ Settles
=============================================================================
