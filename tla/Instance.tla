------------------------------ MODULE Instance ------------------------------
(***************************************************************************)
(* The life of richclipd (bin/richclipd.rs): the search for another        *)
(* instance over the socket file, the start, the end and a crash.  A       *)
(* member of Daemons is one process, which is started once.                *)
(*                                                                         *)
(* A socket file outlives the process that has bound it: it answers        *)
(* connections only as long as that process listens.                       *)
(***************************************************************************)

CONSTANTS
    Daemons,
    NoDaemon

ASSUME NoDaemonAssumption == NoDaemon \notin Daemons

VARIABLES
    sock,           \* the process that has bound the socket file, or NoDaemon
    stage,          \* how far each process has got
    peer,           \* the process that has taken up the connection for the probe
    overlapped      \* history: a process has started or gone while another was
                    \* starting or going

daemonVars == <<sock, stage, peer, overlapped>>

Starting == {"check", "connect", "probe", "remove", "open", "bind"}
Ended == {"refused", "failed", "unbound", "stopped", "crashed"}
Stages == {"new", "serving", "stopping"} \cup Starting \cup Ended

InstanceInit ==
    /\ sock = NoDaemon
    /\ stage = [d \in Daemons |-> "new"]
    /\ peer = [d \in Daemons |-> NoDaemon]
    /\ overlapped = FALSE

-----------------------------------------------------------------------------
Listening(d) == d \in Daemons /\ stage[d] = "serving"

\* The runtime goes on until process::exit.
Alive(d) == d \in Daemons /\ stage[d] \in {"serving", "stopping"}

\* What connect() on the socket path leads to.
Reached == IF Listening(sock) THEN sock ELSE NoDaemon

Serving == {d \in Daemons : Listening(d)}
OnTheMove(d) == stage[d] \in Starting \cup {"stopping"}

Go(d, s) == stage' = [stage EXCEPT ![d] = s]

\* d starts or begins to end: is another on the move?
NoteOverlap(d) == overlapped' = (overlapped \/ \E o \in Daemons \ {d} : OnTheMove(o))

Launch(d) ==
    /\ stage[d] = "new" /\ Go(d, "check")
    /\ NoteOverlap(d)
    /\ UNCHANGED <<sock, peer>>

\* Mutant: whoever finds a socket file takes it for a stale one.
CheckNoProbe(d) ==
    /\ stage[d] = "check"
    /\ Go(d, IF sock = NoDaemon THEN "open" ELSE "remove")
    /\ UNCHANGED <<sock, peer, overlapped>>

\* socket_path.exists()
Check(d) ==
    /\ stage[d] = "check"
    /\ Go(d, IF sock = NoDaemon THEN "open" ELSE "connect")
    /\ UNCHANGED <<sock, peer, overlapped>>

\* UnixStream::connect
ConnectProbe(d) ==
    /\ stage[d] = "connect"
    /\ peer' = [peer EXCEPT ![d] = Reached]
    /\ Go(d, IF Reached = NoDaemon THEN "remove" ELSE "probe")
    /\ UNCHANGED <<sock, overlapped>>

\* write_all: if it succeeds there is a daemon.  The write can fail once the
\* other side no longer holds the listener.
Probe(d) ==
    /\ stage[d] = "probe"
    /\ \/ Alive(peer[d]) /\ Go(d, "refused")
       \/ ~Listening(peer[d]) /\ Go(d, "remove")
    /\ peer' = [peer EXCEPT ![d] = NoDaemon]
    /\ UNCHANGED <<sock, overlapped>>

\* Mutant: the stale socket file is left where it is.
RemoveNothing(d) ==
    /\ stage[d] = "remove" /\ Go(d, "open")
    /\ UNCHANGED <<sock, peer, overlapped>>

\* remove_file, whichever file is there by now; its error is ignored.
RemoveStale(d) ==
    /\ stage[d] = "remove" /\ Go(d, "open")
    /\ sock' = NoDaemon
    /\ UNCHANGED <<peer, overlapped>>

\* Store::open, and the directory of the socket.
OpenStore(d) ==
    /\ stage[d] = "open"
    /\ Go(d, "bind") \/ Go(d, "failed")
    /\ UNCHANGED <<sock, peer, overlapped>>

\* bind fails if the file exists.
Bind(d) ==
    /\ stage[d] = "bind"
    /\ IF sock = NoDaemon THEN sock' = d /\ Go(d, "serving")
                          ELSE Go(d, "unbound") /\ UNCHANGED sock
    /\ UNCHANGED <<peer, overlapped>>

\* Ctrl-C, or an error of accept: the listener is dropped.
Quit(d) ==
    /\ stage[d] = "serving" /\ Go(d, "stopping")
    /\ NoteOverlap(d)
    /\ UNCHANGED <<sock, peer>>

\* remove_file, whichever file is there by now, and process::exit.
CleanUp(d) ==
    /\ stage[d] = "stopping" /\ Go(d, "stopped")
    /\ sock' = NoDaemon
    /\ UNCHANGED <<peer, overlapped>>

\* The process is killed; its socket file stays.
CrashDaemon(d) ==
    /\ OnTheMove(d) \/ Listening(d)
    /\ Go(d, "crashed")
    /\ peer' = [peer EXCEPT ![d] = NoDaemon]
    /\ UNCHANGED <<sock, overlapped>>

StartUp(d) ==
    \/ Check(d) \/ ConnectProbe(d) \/ Probe(d) \/ RemoveStale(d) \/ OpenStore(d) \/ Bind(d)

DaemonStep(d) == Launch(d) \/ StartUp(d) \/ Quit(d) \/ CleanUp(d) \/ CrashDaemon(d)

-----------------------------------------------------------------------------
InstanceTypeOK ==
    /\ sock \in Daemons \cup {NoDaemon}
    /\ stage \in [Daemons -> Stages]
    /\ peer \in [Daemons -> Daemons \cup {NoDaemon}]
    /\ overlapped \in BOOLEAN
    /\ \A d \in Daemons : peer[d] # NoDaemon => stage[d] = "probe"

\* The socket leads to every daemon that serves, so one serves at a time, however
\* often one has crashed or been stopped before - as long as no daemon starts or
\* ends while another is starting or ending (main, 3, 5 and the clean-up).
OneServes == ~overlapped => \A d \in Serving : sock = d

\* A daemon that is started when none is running comes to serve, past the socket
\* file a crash has left, unless it is killed or has no store (main, 3 to 5).
StartServes == \A d \in Daemons :
    (stage[d] = "check" /\ Serving = {} /\ ~overlapped) ~>
        (stage[d] \in {"serving", "crashed", "failed"} \/ overlapped)
=============================================================================
