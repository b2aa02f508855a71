---------------------------- MODULE PopupWindow ----------------------------
(***************************************************************************)
(* The popup process (waytify-popup): the window on the GTK thread         *)
(* (window.rs, and drive in ui.rs), the socket thread that connects,       *)
(* reconnects and pumps (client.rs), and what the daemon at the other end  *)
(* remembers of the connection.  The question is whether the daemon knows  *)
(* that the window is on screen, which is what it polls for.               *)
(*                                                                         *)
(* Of the commands the window sends only Watching matters here, and of a   *)
(* state only that it arrived.                                             *)
(***************************************************************************)
EXTENDS Integers, Sequences

CONSTANTS
    MaxDrops,      \* bound: connections lost
    MaxActions,    \* bound: window actions the daemon broadcasts
    MaxQueued      \* bound: frames on the wire, and updates not yet handled

Actions == {"show", "hide", "toggle"}
Pushed == Actions \cup {"state"}
Updates == Pushed \cup {"disconnected"}
Sent == {"subscribe", "watching", "notWatching"}

ASSUME PopupAssumption == {MaxDrops, MaxActions, MaxQueued} \subseteq Nat

VARIABLES
    onScreen,    \* the window is on screen
    announced,   \* Popup.announced
    offline,     \* the window is marked as showing something stale
    updates,     \* what the socket thread has told the GTK thread
    commands,    \* what the GTK thread has asked the socket thread to send
    session,     \* the socket thread: in session, or between two
    link,        \* the connection: "none", "up" or "broken" by the daemon
    toDaemon,    \* lines on the wire
    toWindow,    \* frames on the wire
    subscribed,  \* the daemon's `scope` for the connection
    watching,    \* the daemon's `watching` for the connection
    drops, acted

window == <<onScreen, announced, offline>>
wire == <<link, toDaemon, toWindow>>
registered == <<subscribed, watching>>
vars == <<window, updates, commands, session, wire, registered, drops, acted>>

Watching(active) == IF active THEN "watching" ELSE "notWatching"

\* announce: the daemon is told only what it was not told before.
Announce(active) ==
    /\ announced' = active
    /\ commands' = IF announced = active THEN commands
                   ELSE Append(commands, Watching(active))

Show == Announce(TRUE) /\ onScreen' = TRUE
Hide == Announce(FALSE) /\ onScreen' = FALSE

Apply(action) ==
    IF action = "show" \/ (action = "toggle" /\ ~onScreen) THEN Show ELSE Hide

\* The process starts hidden, or showing when the daemon has spawned it for a
\* toggle.
Init ==
    /\ onScreen \in BOOLEAN
    /\ announced = onScreen
    /\ commands = IF onScreen THEN <<Watching(TRUE)>> ELSE <<>>
    /\ offline = FALSE /\ updates = <<>>
    /\ session = "down" /\ link = "none" /\ toDaemon = <<>> /\ toWindow = <<>>
    /\ subscribed = FALSE /\ watching = FALSE
    /\ drops = 0 /\ acted = 0

-----------------------------------------------------------------------------
(* The GTK thread. *)

\* A mistake: the window is hidden without a word.
DismissQuietly ==
    /\ onScreen /\ onScreen' = FALSE
    /\ UNCHANGED <<announced, commands, offline, updates, session, wire,
                   registered, drops, acted>>

\* Escape, or a click outside the window.
Dismiss ==
    /\ onScreen /\ Hide
    /\ UNCHANGED <<offline, updates, session, wire, registered, drops, acted>>

\* Mistakes: nothing is said again, and the window stays marked as stale.
RenderStateAlone ==
    /\ updates # <<>> /\ Head(updates) = "state"
    /\ updates' = Tail(updates)
    /\ offline' = FALSE
    /\ UNCHANGED <<onScreen, announced, commands, session, wire, registered, drops, acted>>

RenderStateStale ==
    /\ updates # <<>> /\ Head(updates) = "state"
    /\ updates' = Tail(updates)
    /\ Announce(onScreen)
    /\ UNCHANGED <<onScreen, offline, session, wire, registered, drops, acted>>

\* A state: resync says again what the daemon has forgotten.
RenderState ==
    /\ updates # <<>> /\ Head(updates) = "state"
    /\ updates' = Tail(updates)
    /\ offline' = FALSE
    /\ Announce(onScreen)
    /\ UNCHANGED <<onScreen, session, wire, registered, drops, acted>>

ApplyAction ==
    /\ updates # <<>> /\ Head(updates) \in Actions
    /\ updates' = Tail(updates)
    /\ Apply(Head(updates))
    /\ UNCHANGED <<offline, session, wire, registered, drops, acted>>

\* A mistake: the window believes the next daemon knows what this one did.
GoOfflineRemembering ==
    /\ updates # <<>> /\ Head(updates) = "disconnected"
    /\ updates' = Tail(updates)
    /\ offline' = TRUE
    /\ UNCHANGED <<onScreen, announced, commands, session, wire, registered, drops, acted>>

\* forget: everything the daemon knew about the window is gone.
GoOffline ==
    /\ updates # <<>> /\ Head(updates) = "disconnected"
    /\ updates' = Tail(updates)
    /\ offline' = TRUE
    /\ announced' = FALSE
    /\ UNCHANGED <<onScreen, commands, session, wire, registered, drops, acted>>

-----------------------------------------------------------------------------
(* The socket thread. *)

Connect ==
    /\ session = "down" /\ link = "none"
    /\ session' = "up" /\ link' = "up"
    /\ toDaemon' = <<"subscribe">> /\ toWindow' = <<>>
    /\ UNCHANGED <<window, updates, commands, registered, drops, acted>>

ReceiveFrame ==
    /\ session = "up" /\ toWindow # <<>> /\ Len(updates) < MaxQueued
    /\ updates' = Append(updates, Head(toWindow))
    /\ toWindow' = Tail(toWindow)
    /\ UNCHANGED <<window, commands, session, link, toDaemon, registered, drops, acted>>

EndSession ==
    /\ session' = "down" /\ link' = "none" /\ toDaemon' = <<>> /\ toWindow' = <<>>
    /\ updates' = Append(updates, "disconnected")

\* The end of the stream, after the frames that were still on the wire.
ReadsTheEnd ==
    /\ session = "up" /\ link = "broken" /\ toWindow = <<>>
    /\ EndSession
    /\ UNCHANGED <<window, commands, registered, drops, acted>>

\* A command is taken from the queue before it is written, so that one whose
\* write fails is lost with the session.
SendCommand ==
    /\ session = "up" /\ commands # <<>>
    /\ commands' = Tail(commands)
    /\ IF link = "up"
       THEN /\ toDaemon' = Append(toDaemon, Head(commands))
            /\ UNCHANGED <<updates, session, link, toWindow>>
       ELSE EndSession
    /\ UNCHANGED <<window, registered, drops, acted>>

-----------------------------------------------------------------------------
(* The daemon's end of the connection, as serve_client keeps it. *)

DaemonReads ==
    /\ link = "up" /\ toDaemon # <<>> /\ Len(toWindow) < MaxQueued
    /\ toDaemon' = Tail(toDaemon)
    /\ IF Head(toDaemon) = "subscribe"
       THEN /\ subscribed' = TRUE /\ toWindow' = Append(toWindow, "state")
            /\ UNCHANGED watching
       ELSE /\ watching' = (Head(toDaemon) = "watching")
            /\ UNCHANGED <<subscribed, toWindow>>
    /\ UNCHANGED <<window, updates, commands, session, link, drops, acted>>

DaemonPushes ==
    /\ link = "up" /\ subscribed /\ Len(toWindow) < MaxQueued
    /\ \/ toWindow' = Append(toWindow, "state") /\ UNCHANGED acted
       \/ /\ acted < MaxActions /\ acted' = acted + 1
          /\ \E action \in Actions : toWindow' = Append(toWindow, action)
    /\ UNCHANGED <<window, updates, commands, session, link, toDaemon, registered, drops>>

\* The daemon exits, or gives up on this connection.
DaemonDrops ==
    /\ link = "up" /\ drops < MaxDrops
    /\ drops' = drops + 1
    /\ link' = "broken" /\ toDaemon' = <<>>
    /\ subscribed' = FALSE /\ watching' = FALSE
    /\ UNCHANGED <<window, updates, commands, session, toWindow, acted>>

Window == Dismiss \/ RenderState \/ ApplyAction \/ GoOffline
SocketThread == Connect \/ ReceiveFrame \/ ReadsTheEnd \/ SendCommand
DaemonEnd == DaemonReads \/ DaemonPushes \/ DaemonDrops

Next == Window \/ SocketThread \/ DaemonEnd

Spec == Init /\ [][Next]_vars

\* Both threads and the daemon keep going, and select! passes over neither the
\* socket nor the command queue for ever.
FairSpec ==
    /\ Spec
    /\ WF_vars(RenderState \/ ApplyAction \/ GoOffline)
    /\ WF_vars(Connect) /\ WF_vars(ReadsTheEnd)
    /\ SF_vars(ReceiveFrame) /\ SF_vars(SendCommand) /\ SF_vars(DaemonReads)

-----------------------------------------------------------------------------
(* Properties. *)

\* Every variable has its type.
TypeOK ==
    /\ {onScreen, announced, offline, subscribed, watching} \subseteq BOOLEAN
    /\ updates \in Seq(Updates) /\ toWindow \in Seq(Pushed)
    /\ commands \in Seq({"watching", "notWatching"}) /\ toDaemon \in Seq(Sent)
    /\ session \in {"up", "down"} /\ link \in {"none", "up", "broken"}
    /\ drops \in 0..MaxDrops /\ acted \in 0..MaxActions

\* Connected, with nothing on its way in either direction.
Settled ==
    /\ link = "up"
    /\ toDaemon = <<>> /\ toWindow = <<>> /\ commands = <<>> /\ updates = <<>>

\* Across any loss of the connection and any restart of the daemon, a window
\* that is on screen is known to be.
VisibleIsWatched == Settled /\ onScreen => watching

\* And one that is not on screen is known not to be, so that nothing is polled
\* for it: what the daemon was told is what is the case.
HiddenIsNotWatched == Settled /\ ~onScreen => ~watching

\* The same as long as the connection has not been lost.
HiddenInOneSession == drops = 0 => HiddenIsNotWatched

\* The window says that what it shows is stale exactly when it has lost the
\* daemon and nothing has come from the next one.
OfflineIsMarked ==
    /\ Settled => ~offline
    /\ session = "down" /\ drops > 0 /\ updates = <<>> => offline

\* A window left on screen is polled for in the end, however the daemon was
\* lost in between.
LeftOpenIsWatched == <>[]onScreen => <>[]watching
=============================================================================
