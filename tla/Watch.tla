------------------------------- MODULE Watch --------------------------------
(***************************************************************************)
(* The watch stream: handle_watch_events (daemon.rs) for every connection, *)
(* the client's iterator (ipc.rs), and between them the broadcast ring of  *)
(* the daemon and the buffer of the socket.                                *)
(*                                                                         *)
(* Positions in `log', everything published since the first start, stand   *)
(* for the events.  The ring holds the last Ring of them.                  *)
(***************************************************************************)
EXTENDS Naturals, Sequences, SequencesExt

CONSTANTS
    Clients,        \* the processes that watch
    Items, Mimes,
    Filter,         \* the WatchEventsParams of every client
    Ring,           \* the capacity of the broadcast channel (256)
    Room,           \* how many lines the socket's buffer takes
    MaxEvents       \* bound: the events published

Tags == {"item-added", "item-updated", "item-deleted"}
Event == [tag : Tags, item : Items, mimes : SUBSET Mimes]

ASSUME FilterAssumption ==
    Filter \in [Clients -> [tag : Tags \cup {"any"}, mimes : SUBSET Mimes]]
ASSUME SizeAssumption == {Ring, Room} \subseteq Nat \ {0} /\ MaxEvents \in Nat

VARIABLES
    up,             \* the daemon is running
    log,            \* the events published
    side,           \* the client's end: "new", "here" with a connection for
                    \* watching, or "left"
    task,           \* the daemon's handler of a client's connection: "none",
                    \* "asked" before it subscribes, "on" afterwards
    next,           \* the receiver's position: the next event it takes (1: no receiver)
    hand,           \* the event the handler writes, if any (at most one)
    pipe,           \* written by the handler and not yet read
    got             \* read by the client, over all of its connections

watchVars == <<up, log, side, task, next, hand, pipe, got>>

WatchInit ==
    /\ up = TRUE /\ log = <<>> /\ side = [c \in Clients |-> "new"]
    /\ task = [c \in Clients |-> "none"]
    /\ next = [c \in Clients |-> 1]
    /\ hand = [c \in Clients |-> <<>>]
    /\ pipe = [c \in Clients |-> <<>>]
    /\ got  = [c \in Clients |-> <<>>]

-----------------------------------------------------------------------------
(***************************************************************************)
(* Filters                                                                 *)
(***************************************************************************)
\* There is no telling what formats a deleted item had.
EventMatchesMime(e, mime) == e.tag = "item-deleted" \/ mime \in e.mimes

Passes(f, e) ==
    /\ f.tag \in {"any", e.tag}
    /\ f.mimes # {} => \E mime \in f.mimes : EventMatchesMime(e, mime)

Passed(c, e) == Passes(Filter[c], e)

\* The positions from p on that pass the filters of c.
Matching(c, p) == {k \in p .. Len(log) : Passed(c, log[k])}

Oldest == IF Len(log) > Ring THEN Len(log) - Ring + 1 ELSE 1

-----------------------------------------------------------------------------
(***************************************************************************)
(* The daemon                                                              *)
(***************************************************************************)
\* watch_tx.send, by whichever task: nothing but the ring changes.
Publish(e) ==
    /\ up /\ Len(log) < MaxEvents
    /\ log' = Append(log, e)
    /\ UNCHANGED <<up, side, task, next, hand, pipe, got>>

\* Mutant: the subscription begins with an event that was published before.
SubscribeBefore(c) ==
    /\ task[c] = "asked"
    /\ task' = [task EXCEPT ![c] = "on"]
    /\ next' = [next EXCEPT ![c] = IF Len(log) > 0 THEN Len(log) ELSE 1]
    /\ UNCHANGED <<up, log, side, hand, pipe, got>>

\* The handler has read the request and subscribes.
Subscribe(c) ==
    /\ task[c] = "asked"
    /\ task' = [task EXCEPT ![c] = "on"]
    /\ next' = [next EXCEPT ![c] = Len(log) + 1]
    /\ UNCHANGED <<up, log, side, hand, pipe, got>>

\* Mutant: a receiver that has fallen behind subscribes again.
LagToEnd(c) ==
    /\ task[c] = "on" /\ hand[c] = <<>> /\ next[c] < Oldest
    /\ next' = [next EXCEPT ![c] = Len(log) + 1]
    /\ UNCHANGED <<up, log, side, task, hand, pipe, got>>

\* recv: Lagged.  The receiver goes on with the oldest event there is.
Lag(c) ==
    /\ task[c] = "on" /\ hand[c] = <<>> /\ next[c] < Oldest
    /\ next' = [next EXCEPT ![c] = Oldest]
    /\ UNCHANGED <<up, log, side, task, hand, pipe, got>>

\* recv: an event, which is passed over or taken for writing.
Recv(c) ==
    /\ task[c] = "on" /\ hand[c] = <<>> /\ next[c] >= Oldest /\ next[c] <= Len(log)
    /\ next' = [next EXCEPT ![c] = @ + 1]
    /\ hand' = [hand EXCEPT ![c] = IF Passes(Filter[c], log[next[c]]) THEN <<next[c]>> ELSE <<>>]
    /\ UNCHANGED <<up, log, side, task, pipe, got>>

\* Mutant: the line is written whether there is room for it or not.
WriteOverfull(c) ==
    /\ hand[c] # <<>> /\ side[c] = "here"
    /\ pipe' = [pipe EXCEPT ![c] = @ \o hand[c]]
    /\ hand' = [hand EXCEPT ![c] = <<>>]
    /\ UNCHANGED <<up, log, side, task, next, got>>

\* write_all, once there is room for the line.
Write(c) ==
    /\ hand[c] # <<>> /\ side[c] = "here" /\ Len(pipe[c]) < Room
    /\ pipe' = [pipe EXCEPT ![c] = @ \o hand[c]]
    /\ hand' = [hand EXCEPT ![c] = <<>>]
    /\ UNCHANGED <<up, log, side, task, next, got>>

\* Mutant: a failed write is passed over.
WriteFailsIgnored(c) ==
    /\ hand[c] # <<>> /\ side[c] # "here"
    /\ hand' = [hand EXCEPT ![c] = <<>>]
    /\ UNCHANGED <<up, log, side, task, next, pipe, got>>

\* Only a write shows the handler that the client has gone.
WriteFails(c) ==
    /\ hand[c] # <<>> /\ side[c] # "here"
    /\ hand' = [hand EXCEPT ![c] = <<>>]
    /\ task' = [task EXCEPT ![c] = "none"]
    /\ next' = [next EXCEPT ![c] = 1]
    /\ UNCHANGED <<up, log, side, pipe, got>>

\* The daemon exits, and its tasks and connections with it.
Stop ==
    /\ up /\ up' = FALSE
    /\ task' = [c \in Clients |-> "none"]
    /\ hand' = [c \in Clients |-> <<>>]
    /\ next' = [c \in Clients |-> 1]
    /\ UNCHANGED <<log, side, pipe, got>>

Start ==
    /\ ~up /\ up' = TRUE
    /\ UNCHANGED <<log, side, task, next, hand, pipe, got>>

-----------------------------------------------------------------------------
(***************************************************************************)
(* The clients                                                             *)
(***************************************************************************)
\* try_connect, and watch_events sends the request.
Connect(c) ==
    /\ up /\ side[c] # "here" /\ task[c] = "none"
    /\ side' = [side EXCEPT ![c] = "here"]
    /\ task' = [task EXCEPT ![c] = "asked"]
    /\ UNCHANGED <<up, log, next, hand, pipe, got>>

\* WatchIter::next: a line.
Read(c) ==
    /\ side[c] = "here" /\ pipe[c] # <<>>
    /\ got' = [got EXCEPT ![c] = Append(@, Head(pipe[c]))]
    /\ pipe' = [pipe EXCEPT ![c] = Tail(@)]
    /\ UNCHANGED <<up, log, side, task, next, hand>>

\* WatchIter::next: the end of the stream, once everything has been read.
Eof(c) ==
    /\ side[c] = "here" /\ pipe[c] = <<>> /\ task[c] = "none"
    /\ side' = [side EXCEPT ![c] = "left"]
    /\ UNCHANGED <<up, log, task, next, hand, pipe, got>>

\* The client is killed; what it had not read is gone with its socket.
Leave(c) ==
    /\ side[c] = "here"
    /\ side' = [side EXCEPT ![c] = "left"]
    /\ pipe' = [pipe EXCEPT ![c] = <<>>]
    /\ UNCHANGED <<up, log, task, next, hand, got>>

Handle(c) == Subscribe(c) \/ Lag(c) \/ Recv(c) \/ Write(c) \/ WriteFails(c)

-----------------------------------------------------------------------------
WatchTypeOK ==
    /\ up \in BOOLEAN /\ log \in Seq(Event) /\ side \in [Clients -> {"new", "here", "left"}]
    /\ task \in [Clients -> {"none", "asked", "on"}]
    /\ next \in [Clients -> 1 .. Len(log) + 1]
    /\ \A c \in Clients : /\ {hand[c], pipe[c], got[c]} \subseteq Seq(DOMAIN log)
                          /\ Len(hand[c]) <= 1 /\ Len(pipe[c]) <= Room
                          /\ task[c] # "on" => hand[c] = <<>>
                          /\ side[c] # "here" => pipe[c] = <<>>
    /\ ~up => \A c \in Clients : task[c] = "none"

(***************************************************************************)
(* The abstract stream: what is on its way to a client is in the socket,   *)
(* in the hands of the handler, or in the ring and still ahead of it.      *)
(***************************************************************************)
OnItsWay(c) == ToSet(pipe[c]) \cup
    IF side[c] = "here" /\ task[c] = "on" THEN ToSet(hand[c]) \cup Matching(c, next[c]) ELSE {}

Promise == INSTANCE Stream WITH
    Events <- Event,
    joined <- {c \in Clients : side[c] = "here" /\ task[c] = "on"},
    pend   <- [c \in Clients |-> OnItsWay(c)]

\* What every client is sent is what Stream promises (handle_watch_events and
\* WatchIter): in order, nothing twice, and nothing lost but by lag, by the end
\* of the daemon or by its own leaving.
ImplementsStream == Promise!Spec

\* A handler whose client has left does not stay for good: the first event it
\* takes after that is its last (handle_watch_events, "client disconnected").
DepartedDropped == \A c \in Clients :
    (side[c] # "here" /\ hand[c] # <<>>) ~> task[c] = "none"
=============================================================================
