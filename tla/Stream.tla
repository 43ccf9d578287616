------------------------------- MODULE Stream -------------------------------
(***************************************************************************)
(* What `richclip watch' promises its clients (richclip.md, "watch"): from *)
(* the moment a client has joined it is sent every later event that passes *)
(* its filters, once and in the order of publication.  A client that is    *)
(* slow loses events, but only such as Ring later ones have followed; and  *)
(* when the daemon stops, the client still reads a first part of what was  *)
(* on its way.                                                             *)
(***************************************************************************)
EXTENDS Naturals, Sequences

CONSTANTS
    Clients,            \* the processes that watch
    Events,             \* what can be published
    Passed(_, _),       \* whether an event passes the filters of a client
    Ring                \* how many events the daemon keeps

VARIABLES
    log,        \* everything published so far
    joined,     \* the clients that new events are for
    pend,       \* the positions in the log of what is on its way to a client
    got         \* and of what the client has read, one after another

vars == <<log, joined, pend, got>>

Init ==
    /\ log = <<>> /\ joined = {}
    /\ pend = [c \in Clients |-> {}]
    /\ got = [c \in Clients |-> <<>>]

Publish(e) ==
    /\ log' = Append(log, e)
    /\ pend' = [c \in Clients |-> IF c \in joined /\ Passed(c, e)
                                  THEN pend[c] \cup {Len(log) + 1}
                                  ELSE pend[c]]
    /\ UNCHANGED <<joined, got>>

Join(c) ==
    /\ c \notin joined /\ pend[c] = {}
    /\ joined' = joined \cup {c}
    /\ UNCHANGED <<log, pend, got>>

\* The client reads the earliest event that is on its way.
Deliver(c) ==
    /\ \E p \in pend[c] :
        /\ \A q \in pend[c] : p <= q
        /\ got' = [got EXCEPT ![c] = Append(@, p)]
        /\ pend' = [pend EXCEPT ![c] = @ \ {p}]
    /\ UNCHANGED <<log, joined>>

\* Some of what is Ring events old does not reach c.
Lose(c) ==
    /\ \E old \in SUBSET {p \in pend[c] : p + Ring <= Len(log)} :
        pend' = [pend EXCEPT ![c] = @ \ old]
    /\ UNCHANGED <<log, joined, got>>

\* The client goes away; the daemon may notice it later.
Leave(c) ==
    /\ joined' = joined \ {c}
    /\ pend' = [pend EXCEPT ![c] = {}]
    /\ UNCHANGED <<log, got>>

\* The daemon stops: each client gets a first part of what was on its way.
Cut ==
    /\ joined' = {}
    /\ \E last \in [Clients -> 0 .. Len(log)] :
        pend' = [c \in Clients |-> {p \in pend[c] : p <= last[c]}]
    /\ UNCHANGED <<log, got>>

Next ==
    \/ \E e \in Events : Publish(e)
    \/ \E c \in Clients : Join(c) \/ Deliver(c) \/ Lose(c) \/ Leave(c)
    \/ Cut

\* What is on its way arrives, unless it is lost in one of these ways.
Arrives(c) == pend[c] # {} /\ (Deliver(c) \/ Lose(c) \/ Leave(c) \/ Cut)

Spec == Init /\ [][Next]_vars /\ \A c \in Clients : WF_vars(Arrives(c))
=============================================================================
