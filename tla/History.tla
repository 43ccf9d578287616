------------------------------ MODULE History ------------------------------
(***************************************************************************)
(* What the store promises to its callers (docs/richclip.md, "Storage" and *)
(* "Lifecycle"): a clipboard history in which every mutation happens at    *)
(* once, and in which reading a format gives the bytes last stored for it. *)
(* There are no blobs, hashes, locks or transactions here.                 *)
(***************************************************************************)
EXTENDS Naturals, Sequences

CONSTANTS Ids, Mimes, Contents, Lists, Times, None

VARIABLE hist   \* the items of the history, a function on the ids it holds

Items == DOMAIN hist
Entry == [content : [Mimes -> Contents \cup {None}], created : Times, updated : Times]

With(i, e) == [j \in Items \cup {i} |-> IF j = i THEN e ELSE hist[j]]
Without(S) == [j \in Items \ S |-> hist[j]]

\* c is the last content a list of formats gives for mime m.
Gives(todo, m, c) == \E j \in DOMAIN todo :
    todo[j] = <<m, c>> /\ \A k \in DOMAIN todo : k > j => todo[k][1] # m
Given(todo) == {row \in [Mimes -> Contents \cup {None}] : \A m \in Mimes :
    \/ Gives(todo, m, row[m])
    \/ row[m] = None /\ \A c \in Contents : ~Gives(todo, m, c)}

Init == hist = <<>>

Add(i, todo, t) ==
    /\ i \notin Items
    /\ \E row \in Given(todo) :
        hist' = With(i, [content |-> row, created |-> t, updated |-> t])

\* A change of one format, at a time not before the item's last change.
Change(i, m, c, t) ==
    /\ i \in Items /\ t >= hist[i].updated
    /\ hist' = With(i, [hist[i] EXCEPT !.content[m] = c, !.updated = t])

Remove(i, m, t) == hist[i].content[m] # None /\ Change(i, m, None, t)

Delete(i) == i \in Items /\ hist' = Without({i})

\* Everything created before the cutoff goes, and nothing else.
Prune(cutoff) == hist' = Without({i \in Items : hist[i].created < cutoff})

Next ==
    \/ \E i \in Ids, todo \in Lists, t \in Times : Add(i, todo, t)
    \/ \E i \in Items, m \in Mimes, t \in Times :
        Remove(i, m, t) \/ \E c \in Contents : Change(i, m, c, t)
    \/ \E i \in Items : Delete(i)
    \/ \E t \in Times : Prune(t)

Spec == Init /\ [][Next]_hist
=============================================================================
