------------------------------ MODULE MCDaemon ------------------------------
(* Instances of Daemon small enough for TLC. *)
EXTENDS Daemon, TLC

SubscribeBar == [op |-> "subscribe", scope |-> "bar"]
SubscribeFull == [op |-> "subscribe", scope |-> "full"]
WatchingOn == [op |-> "watching", active |-> TRUE]
WatchingOff == [op |-> "watching", active |-> FALSE]
PlayerCommand == [op |-> "player"]
ShutdownCommand == [op |-> "shutdown"]
Popup(action) == [op |-> "popup", action |-> action]

\* What changes who is watching.
Registrations == {SubscribeBar, SubscribeFull, WatchingOn, WatchingOff}
\* The same, and what depends on it or waits for an answer.
Contended == Registrations \cup {Popup("Toggle"), PlayerCommand}
\* One of everything a client is answered differently for.
Everything == Registrations \cup {Popup("Hide"), PlayerCommand, ShutdownCommand}
OnlyPlayer == {PlayerCommand}
OnlyShutdown == {ShutdownCommand}

Interchangeable == Permutations(Clients)
=============================================================================
