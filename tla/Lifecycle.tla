------------------------------ MODULE Lifecycle ------------------------------
(***************************************************************************)
(* Daemons and what keeps them running: how a daemon takes the socket's    *)
(* path and leaves it (waytify-daemon/src/lib.rs: run, bind), the bar that *)
(* starts one when nothing listens and comes back when it goes away, and   *)
(* the one-shot commands that start one too (waytify-bar/src/lib.rs).      *)
(*                                                                         *)
(* The path leads to the socket of the daemon that bound it last, until    *)
(* somebody removes the file: a daemon without the file still serves the   *)
(* clients it has.  Processes are numbered and used again once they ended  *)
(* and every client has noticed.                                           *)
(***************************************************************************)
EXTENDS Naturals, FiniteSets

CONSTANTS
    None,
    Daemons,
    Outdated,       \* those of another version, whose protocol is another
    Clients,        \* one-shot commands
    Does,           \* what each does: "play", "stop" or "status"
    Tries,          \* bound: how often a command looks for what it started, 6
    MaxFaults       \* bound: crashes, failures to start, signals, starts by hand

ASSUME LifecycleAssumption ==
    /\ IsFiniteSet(Daemons) /\ Outdated \subseteq Daemons /\ None \notin Daemons
    /\ Does \in [Clients -> {"play", "stop", "status"}]
    /\ Tries \in Nat /\ MaxFaults \in Nat

VARIABLES
    file,           \* whose socket the path leads to
    daemon,         \* of each process, where it is
    bar,            \* [at, to]: where the bar is, and its connection
    shown,          \* the daemon whose frame the module shows, None if blank
    pipe,           \* Waybar still reads the module's output
    client,         \* of each command, [at, to, tries]
    overlapped,     \* history: two daemons were starting or stopping at once
    faults

vars == <<file, daemon, bar, shown, pipe, client, overlapped, faults>>

\* "off" is also what has ended; the others follow bind and run.
Starting == {"looking", "probing", "replacing", "binding"}
Places == {"off", "starting", "serving", "closing"} \cup Starting

Listens(d) == daemon[d] \in {"starting", "serving", "closing"}
Reachable == file # None /\ Listens(file)

\* Somebody still holds a connection to it.
Held(d) == bar.to = d \/ \E c \in Clients : client[c].to = d

Init ==
    /\ file = None /\ daemon = [d \in Daemons |-> "off"]
    /\ bar = [at |-> "connecting", to |-> None] /\ shown = None /\ pipe = TRUE
    /\ client = [c \in Clients |-> [at |-> "idle", to |-> None, tries |-> 0]]
    /\ overlapped = FALSE /\ faults = 0

Faults == faults < MaxFaults /\ faults' = faults + 1

Moves(d, place) ==
    /\ daemon' = [daemon EXCEPT ![d] = place]
    /\ overlapped' =
          \/ overlapped
          \/ Cardinality({e \in Daemons : daemon'[e] \in Starting \cup {"closing"}}) > 1

-----------------------------------------------------------------------------
(* A daemon: bind, then run. *)

Clientele == <<bar, shown, pipe, client>>

\* A mistake: a file is stale.
LookPast(d) ==
    /\ daemon[d] = "looking"
    /\ Moves(d, IF file = None THEN "binding" ELSE "replacing")
    /\ UNCHANGED <<file, Clientele, faults>>

\* socket.exists()
Look(d) ==
    /\ daemon[d] = "looking"
    /\ Moves(d, IF file = None THEN "binding" ELSE "probing")
    /\ UNCHANGED <<file, Clientele, faults>>

\* A mistake: a file is a daemon.
ProbeTheFile(d) ==
    /\ daemon[d] = "probing"
    /\ Moves(d, "off")
    /\ UNCHANGED <<file, Clientele, faults>>

\* Connecting tells a live socket from one a crash left.
Probe(d) ==
    /\ daemon[d] = "probing"
    /\ Moves(d, IF Reachable THEN "off" ELSE "replacing")
    /\ UNCHANGED <<file, Clientele, faults>>

\* Whatever is there by now is removed.
Replace(d) ==
    /\ daemon[d] = "replacing" /\ file' = None /\ Moves(d, "binding")
    /\ UNCHANGED <<Clientele, faults>>

\* Binding fails where a file is; otherwise the socket listens at once.
Bind(d) ==
    /\ daemon[d] = "binding"
    /\ \/ file = None /\ file' = d /\ Moves(d, "starting")
       \/ file # None /\ file' = file /\ Moves(d, "off")
    /\ UNCHANGED <<Clientele, faults>>

\* The engine starts, or fails to and the file stays.
StartEngine(d) ==
    /\ daemon[d] = "starting"
    /\ \/ Moves(d, "serving") /\ UNCHANGED faults
       \/ Moves(d, "off") /\ Faults
    /\ UNCHANGED <<file, Clientele>>

\* A signal, or an accept that fails.
Interrupt(d) ==
    /\ daemon[d] = "serving" /\ Moves(d, "closing") /\ Faults
    /\ UNCHANGED <<file, Clientele>>

\* The file is removed, whoever's it is.
Exit(d) ==
    /\ daemon[d] = "closing" /\ file' = None /\ Moves(d, "off")
    /\ UNCHANGED <<Clientele, faults>>

Crash(d) ==
    /\ daemon[d] # "off" /\ Moves(d, "off") /\ Faults
    /\ UNCHANGED <<file, Clientele>>

-----------------------------------------------------------------------------
(* spawn_daemon, which fails when no process is to be had. *)

Spawn ==
    \/ \E d \in Daemons : daemon[d] = "off" /\ ~Held(d) /\ Moves(d, "looking")
    \/ /\ \A d \in Daemons : daemon[d] # "off" \/ Held(d)
       /\ UNCHANGED <<daemon, overlapped>>

\* Role::Daemon: somebody runs one, whether or not one is running.
StartByHand(d) ==
    /\ daemon[d] = "off" /\ ~Held(d) /\ Moves(d, "looking") /\ Faults
    /\ UNCHANGED <<file, Clientele>>

-----------------------------------------------------------------------------
(* The bar: run_bar. *)

\* The module goes blank between daemons, unless its pipe is closed.
BarGoesTo(place) ==
    /\ bar' = [at |-> IF pipe THEN place ELSE "ended", to |-> None]
    /\ shown' = None

BarConnect ==
    /\ bar.at = "connecting"
    /\ \/ /\ Reachable /\ bar' = [at |-> "reading", to |-> file]
          /\ UNCHANGED <<shown, daemon, overlapped>>
       \/ ~Reachable /\ Spawn /\ BarGoesTo("waiting")
    /\ UNCHANGED <<file, pipe, client, faults>>

\* Its subscription is answered, if the daemon speaks the same protocol.
BarReads ==
    /\ bar.at = "reading" /\ daemon[bar.to] = "serving" /\ shown # bar.to
    /\ IF bar.to \in Outdated \/ ~pipe THEN BarGoesTo("resting")
       ELSE bar' = bar /\ shown' = bar.to
    /\ UNCHANGED <<file, daemon, pipe, client, overlapped, faults>>

\* The connection ends with the daemon.
BarHangsUp ==
    /\ bar.at = "reading" /\ daemon[bar.to] = "off"
    /\ BarGoesTo("resting")
    /\ UNCHANGED <<file, daemon, pipe, client, overlapped, faults>>

\* A quarter of a second after a connection, a second and more after a failure.
BarComesBack ==
    /\ bar.at \in {"resting", "waiting"}
    /\ bar' = [bar EXCEPT !.at = "connecting"]
    /\ UNCHANGED <<file, daemon, shown, pipe, client, overlapped, faults>>

\* Waybar reloads: the next write ends this bar.
Reload ==
    /\ pipe /\ pipe' = FALSE
    /\ UNCHANGED <<file, daemon, bar, shown, client, overlapped, faults>>

-----------------------------------------------------------------------------
(* One-shot commands: connect, then send or snapshot. *)

TheBar == <<bar, shown, pipe>>
Goes(c, place) == client' = [client EXCEPT ![c] = [@ EXCEPT !.at = place, !.to = None]]
Waits(c) == client' = [client EXCEPT ![c] = [@ EXCEPT !.at = "waiting", !.to = file]]

ClientConnects(c) ==
    /\ client[c].at = "idle"
    /\ \/ Reachable /\ Waits(c) /\ UNCHANGED <<daemon, overlapped>>
       \/ ~Reachable /\ Spawn /\ Goes(c, "trying")
    /\ UNCHANGED <<file, TheBar, faults>>

\* A little later, each time twice as long.
ClientTries(c) ==
    /\ client[c].at = "trying"
    /\ IF client[c].tries = Tries THEN Goes(c, "failed")
       ELSE IF Reachable THEN Waits(c)
       ELSE client' = [client EXCEPT ![c].tries = @ + 1]
    /\ UNCHANGED <<file, daemon, TheBar, overlapped, faults>>

\* The daemon carries it out, and says so: Ack for a command, a state for status.
\* The answer to `stop` is sent before the daemon stops.
Answer(c) ==
    /\ client[c].at = "waiting" /\ daemon[client[c].to] = "serving"
    /\ IF Does[c] = "stop" THEN Moves(client[c].to, "closing")
       ELSE UNCHANGED <<daemon, overlapped>>
    /\ Goes(c, "ok")
    /\ UNCHANGED <<file, TheBar, faults>>

\* The engine refuses or is too slow: the daemon says that instead.
Refuse(c) ==
    /\ client[c].at = "waiting" /\ daemon[client[c].to] = "serving"
    /\ Does[c] = "play" /\ Goes(c, "failed")
    /\ UNCHANGED <<file, daemon, TheBar, overlapped, faults>>

\* `send` gives up after COMMAND_DEADLINE, `status` never.
Deadline(c) ==
    /\ client[c].at = "waiting" /\ Does[c] # "status" /\ Goes(c, "failed")
    /\ UNCHANGED <<file, daemon, TheBar, overlapped, faults>>

\* The connection ends without an answer.
EndOfStream(c) ==
    /\ client[c].at = "waiting" /\ daemon[client[c].to] = "off"
    /\ Goes(c, "failed")
    /\ UNCHANGED <<file, daemon, TheBar, overlapped, faults>>

DaemonNext ==
    \E d \in Daemons :
        Look(d) \/ Probe(d) \/ Replace(d) \/ Bind(d) \/ StartEngine(d) \/ Exit(d)
BarNext == BarConnect \/ BarReads \/ BarHangsUp \/ BarComesBack
ClientNext ==
    \E c \in Clients :
        ClientConnects(c) \/ ClientTries(c) \/ Answer(c) \/ Refuse(c) \/ EndOfStream(c)
            \/ Deadline(c)
World == Reload \/ \E d \in Daemons : Interrupt(d) \/ Crash(d) \/ StartByHand(d)

Next == DaemonNext \/ BarNext \/ ClientNext \/ World

\* Processes run and sleeps end.  Nobody need ever type a command, so that the
\* clients have no fairness before they connect.
Fairness ==
    /\ \A d \in Daemons :
          WF_vars(Look(d) \/ Probe(d) \/ Replace(d) \/ Bind(d) \/ StartEngine(d) \/ Exit(d))
    /\ WF_vars(BarNext)
    /\ \A c \in Clients :
          WF_vars(ClientTries(c) \/ Answer(c) \/ Refuse(c) \/ EndOfStream(c))

Spec == Init /\ [][Next]_vars /\ Fairness

-----------------------------------------------------------------------------
(* Properties. *)

TypeOK ==
    /\ file \in Daemons \cup {None} /\ daemon \in [Daemons -> Places]
    /\ bar \in [at : {"connecting", "reading", "resting", "waiting", "ended"},
                to : Daemons \cup {None}]
    /\ bar.at = "reading" <=> bar.to # None
    /\ shown \in Daemons \cup {None} /\ pipe \in BOOLEAN
    /\ client \in [Clients -> [at : {"idle", "trying", "waiting", "ok", "failed"},
                               to : Daemons \cup {None}, tries : 0..Tries]]
    /\ \A c \in Clients : client[c].at = "waiting" <=> client[c].to # None
    /\ overlapped \in BOOLEAN /\ faults \in 0..MaxFaults

Serving == {d \in Daemons : Listens(d)}

\* As long as no two daemons start or stop at the same time, at most one
\* listens, and it is the one the path leads to: a second that is started
\* meanwhile finds it, and a stale file is recognised.
OneAtATime ==
    ~overlapped =>
        /\ Cardinality(Serving) <= 1
        /\ \A d \in Serving : file = d

\* bind's "refusing to start if another daemon already owns it", whenever they
\* are started.
OneDaemon == Cardinality(Serving) <= 1

\* Whatever crashes, stops or fails to start, the bar ends up with a daemon that
\* serves it, and shows its frames; unless Waybar closed its pipe.
BarRecovers ==
    \/ <>[](bar.at = "reading" /\ daemon[bar.to] = "serving" /\ shown = bar.to)
    \/ <>(~pipe)

=============================================================================
