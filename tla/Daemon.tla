------------------------------- MODULE Daemon -------------------------------
(***************************************************************************)
(* The socket side of the waytify daemon (waytify-daemon/src/lib.rs): the  *)
(* accept loop, one serve_client task per connection, the shared Watchers  *)
(* counters, the bounded channel to the engine, the watch channel of       *)
(* states and the broadcast channel of window actions.                     *)
(*                                                                         *)
(* The daemon runs on tokio's multi-threaded runtime, so a task can be     *)
(* preempted between any two accesses to something shared.  Each step      *)
(* below makes at most one access to a shared counter or channel.          *)
(***************************************************************************)
EXTENDS Integers, Sequences, FiniteSets

CONSTANTS
    Clients,          \* connection slots; a slot is reused by a later client
    Requests,         \* the requests clients send in this instance
    EngineCapacity,   \* room in the channel to the engine (64 in run)
    PopupCapacity,    \* room in the broadcast channel (8 in run)
    MaxSent,          \* bound: requests sent over a behaviour
    MaxVersion,       \* bound: states published over a behaviour
    MaxSpawned        \* bound: window processes started over a behaviour

Counters == {"bar", "full", "watching"}
Scopes == {"bar", "full"}
Attentions == {"Idle", "Bar", "Popup"}
PopupActions == {"Show", "Hide", "Toggle"}

\* What a client may put on a line: an unreadable line, a Subscribe, a
\* Watching, Shutdown, one of the window commands, or anything else, which is
\* for the player.
AllRequests ==
    [op : {"malformed", "player", "shutdown"}]
        \cup [op : {"subscribe"}, scope : Scopes]
        \cup [op : {"watching"}, active : BOOLEAN]
        \cup [op : {"popup"}, action : PopupActions]

\* What the task is busy with when it is not a client's request.
Idling == [op |-> "none"]
Greeting == [op |-> "hello"]
Pushing == [op |-> "push"]
Leaving == [op |-> "leave"]
Forwarding(action) == [op |-> "popupFrame", action |-> action]

Activities ==
    Requests \cup {Idling, Greeting, Pushing, Leaving}
        \cup {Forwarding(action) : action \in PopupActions}

ASSUME DaemonAssumption ==
    /\ Requests \subseteq AllRequests
    /\ IsFiniteSet(Clients)
    /\ EngineCapacity \in Nat \ {0}
    /\ PopupCapacity \in Nat \ {0}
    /\ MaxSent \in Nat /\ MaxVersion \in Nat /\ MaxSpawned \in Nat

VARIABLES
    acceptor,     \* accept_loop: in select!, in the accept branch, or done
    notified,     \* the Notified it waits on has been woken
    peer,         \* the other end of each connection
    inbox,        \* per connection, the lines the task has not read
    sent,         \* requests sent so far, which numbers them
    task,         \* per connection, where serve_client is
    request,      \* per connection, what it is busy with
    ticket,       \* per connection, the number of the request it is busy with
    scope,        \* per connection, its local `scope`
    watching,     \* per connection, its local `watching`
    sight,        \* per connection, the Attention it has computed to send
    verdict,      \* per connection, what its oneshot holds: a ticket or 0
    popups,       \* per connection, its receiver of the broadcast channel
    watchers,     \* ctx.watchers
    lost,         \* history: registrations dropped without being undone
    channel,      \* the channel to the engine
    busy,         \* the command the engine is executing, if any
    attention,    \* the engine's own copy of the attention
    version,      \* how many states the engine has published
    seen,         \* per connection, the version its receiver has marked seen
    shown,        \* per connection, the version last written to the client
    answered,     \* per connection, the ticket last answered
    spawned       \* window processes the daemon has started

accepting == <<acceptor, notified>>
wire == <<peer, inbox, sent>>
local == <<scope, watching>>
states == <<version, seen, shown>>
engine == <<channel, busy, attention>>
window == <<popups, spawned>>

vars == <<accepting, wire, task, request, ticket, local, sight, verdict,
          window, watchers, lost, engine, states, answered>>

NoCommand == [msg |-> "none"]
Messages ==
    [msg : {"attention"}, attention : Attentions]
        \cup [msg : {"command"}, client : Clients, ticket : 1..MaxSent]

Lines == [ticket : 1..MaxSent, request : Requests]

TaskStates ==
    {"none", "loop", "add", "seeWatching", "seeBar", "seeFull", "post",
     "snapshot", "submit", "await", "route", "broadcast", "spawn", "write",
     "notify", "unwatch", "unscope"}

Init ==
    /\ acceptor = "select" /\ notified = FALSE
    /\ peer = [c \in Clients |-> "absent"]
    /\ inbox = [c \in Clients |-> <<>>]
    /\ sent = 0
    /\ task = [c \in Clients |-> "none"]
    /\ request = [c \in Clients |-> Idling]
    /\ ticket = [c \in Clients |-> 0]
    /\ scope = [c \in Clients |-> "none"]
    /\ watching = [c \in Clients |-> FALSE]
    /\ sight = [c \in Clients |-> "Idle"]
    /\ verdict = [c \in Clients |-> 0]
    /\ popups = [c \in Clients |-> <<>>]
    /\ watchers = [k \in Counters |-> 0]
    /\ lost = [k \in Counters |-> 0]
    /\ channel = <<>> /\ busy = NoCommand /\ attention = "Idle"
    /\ version = 0
    /\ seen = [c \in Clients |-> 0]
    /\ shown = [c \in Clients |-> 0]
    /\ answered = [c \in Clients |-> 0]
    /\ spawned = 0

Goto(c, s) == task' = [task EXCEPT ![c] = s]

-----------------------------------------------------------------------------
(* The clients.  They are not part of the daemon: they connect, send       *)
(* requests without waiting for the answers, and go away at any moment,    *)
(* with or without unread frames in their buffer.                          *)

Connect(c) ==
    /\ acceptor # "exited"
    /\ peer[c] = "absent"
    /\ peer' = [peer EXCEPT ![c] = "open"]
    /\ UNCHANGED <<accepting, inbox, sent, task, request, ticket, local, sight,
                   verdict, window, watchers, lost, engine, states, answered>>

Send(c, r) ==
    /\ peer[c] = "open" /\ sent < MaxSent
    /\ sent' = sent + 1
    /\ inbox' = [inbox EXCEPT ![c] = Append(@, [ticket |-> sent', request |-> r])]
    /\ UNCHANGED <<accepting, peer, task, request, ticket, local, sight,
                   verdict, window, watchers, lost, engine, states, answered>>

\* A peer that closes with unread frames resets the connection: once its own
\* lines are read, the next read fails instead of returning the end.
HangUp(c) ==
    /\ peer[c] = "open"
    /\ \E how \in {"closed", "reset"} : peer' = [peer EXCEPT ![c] = how]
    /\ UNCHANGED <<accepting, inbox, sent, task, request, ticket, local, sight,
                   verdict, window, watchers, lost, engine, states, answered>>

-----------------------------------------------------------------------------
(* The accept loop. *)

\* Whichever branch of the select! completes, the Notified of this iteration
\* is dropped with whatever it had been told.
Accept(c) ==
    /\ acceptor = "select"
    /\ peer[c] # "absent" /\ task[c] = "none"
    /\ acceptor' = "accepted" /\ notified' = FALSE
    /\ request' = [request EXCEPT ![c] = Greeting]
    /\ Goto(c, "write")
    /\ popups' = [popups EXCEPT ![c] = <<>>]
    /\ UNCHANGED <<wire, ticket, local, sight, verdict, spawned, watchers, lost,
                   engine, states, answered>>

\* The next iteration creates the next Notified.
AcceptAgain ==
    /\ acceptor = "accepted"
    /\ acceptor' = "select"
    /\ UNCHANGED <<notified, wire, task, request, ticket, local, sight, verdict,
                   window, watchers, lost, engine, states, answered>>

StopAccepting ==
    /\ acceptor = "select" /\ notified
    /\ acceptor' = "stopped"
    /\ UNCHANGED <<notified, wire, task, request, ticket, local, sight, verdict,
                   window, watchers, lost, engine, states, answered>>

\* run returns and the runtime is dropped, with every task and connection.
Exit ==
    /\ acceptor = "stopped"
    /\ acceptor' = "exited"
    /\ task' = [c \in Clients |-> "none"]
    /\ channel' = <<>> /\ busy' = NoCommand
    /\ UNCHANGED <<notified, wire, request, ticket, local, sight, verdict, window,
                   watchers, lost, attention, states, answered>>

-----------------------------------------------------------------------------
(* serve_client: the three branches of its select!. *)

\* The task is over; the slot may be used by another client.
Forget(c) ==
    /\ Goto(c, "none")
    /\ peer' = [peer EXCEPT ![c] = "absent"]
    /\ inbox' = [inbox EXCEPT ![c] = <<>>]
    /\ request' = [request EXCEPT ![c] = Idling]
    /\ ticket' = [ticket EXCEPT ![c] = 0]
    /\ answered' = [answered EXCEPT ![c] = 0]
    /\ seen' = [seen EXCEPT ![c] = 0]
    /\ shown' = [shown EXCEPT ![c] = 0]

\* A `?` inside the loop returns from serve_client at once: neither counter
\* is decremented and nobody is told.
ReturnEarly(c) ==
    /\ Forget(c)
    /\ lost' = [k \in Counters |->
                   IF k = scope[c] \/ (k = "watching" /\ watching[c])
                   THEN lost[k] + 1 ELSE lost[k]]
    /\ scope' = [scope EXCEPT ![c] = "none"]
    /\ watching' = [watching EXCEPT ![c] = FALSE]
    /\ popups' = [popups EXCEPT ![c] = <<>>]
    /\ verdict' = [verdict EXCEPT ![c] = 0]
    /\ UNCHANGED <<accepting, sent, sight, spawned, watchers, engine, version>>

\* After the loop: the watching flag first, then the scope, then the news.
Leave(c) ==
    IF watching[c] \/ scope[c] # "none"
    THEN /\ Goto(c, "unwatch")
         /\ request' = [request EXCEPT ![c] = Leaving]
         /\ ticket' = [ticket EXCEPT ![c] = 0]
         /\ UNCHANGED <<peer, inbox, answered, seen, shown>>
    ELSE Forget(c)

EndOfStream(c) ==
    /\ task[c] = "loop" /\ inbox[c] = <<>> /\ peer[c] = "closed"
    /\ Leave(c)
    /\ UNCHANGED <<accepting, sent, local, sight, verdict, window, watchers,
                   lost, engine, version>>

ReadFails(c) ==
    /\ task[c] = "loop" /\ inbox[c] = <<>> /\ peer[c] = "reset"
    /\ ReturnEarly(c)

\* A mistake: a show or a hide of the window that is not reported.
FirstStepUnreported(c, r) ==
    CASE r.op = "subscribe" -> IF scope[c] = r.scope THEN "snapshot" ELSE "add"
      [] r.op = "player" -> "submit"
      [] r.op = "popup" -> "route"
      [] OTHER -> "write"

\* What handling request r starts with, after its line has been parsed.
FirstStep(c, r) ==
    CASE r.op = "subscribe" -> IF scope[c] = r.scope THEN "snapshot" ELSE "add"
      [] r.op = "watching" -> IF watching[c] = r.active THEN "write" ELSE "seeWatching"
      [] r.op = "player" -> "submit"
      [] r.op = "popup" -> "route"
      [] OTHER -> "write"

\* Mistakes in the counters: set_watching without its early return, and
\* set_scope without giving up the previous scope.
CountersWithoutReturn(c, r) ==
    [watchers EXCEPT
        !["bar"] = IF r.op = "subscribe" /\ scope[c] = "bar" /\ r.scope # "bar"
                   THEN @ - 1 ELSE @,
        !["full"] = IF r.op = "subscribe" /\ scope[c] = "full" /\ r.scope # "full"
                    THEN @ - 1 ELSE @,
        !["watching"] = IF r.op = "watching"
                        THEN IF r.active THEN @ + 1 ELSE @ - 1
                        ELSE @]

CountersKeepScope(c, r) ==
    [watchers EXCEPT
        !["watching"] = IF r.op = "watching" /\ watching[c] # r.active
                        THEN IF r.active THEN @ + 1 ELSE @ - 1
                        ELSE @]

\* set_scope decrements the previous scope's counter before anything else;
\* set_watching flips the flag and moves its counter.
CountersOnRead(c, r) ==
    [watchers EXCEPT
        !["bar"] = IF r.op = "subscribe" /\ scope[c] = "bar" /\ r.scope # "bar"
                   THEN @ - 1 ELSE @,
        !["full"] = IF r.op = "subscribe" /\ scope[c] = "full" /\ r.scope # "full"
                    THEN @ - 1 ELSE @,
        !["watching"] = IF r.op = "watching" /\ watching[c] # r.active
                        THEN IF r.active THEN @ + 1 ELSE @ - 1
                        ELSE @]

ReadLine(c) ==
    /\ task[c] = "loop" /\ inbox[c] # <<>>
    /\ LET line == Head(inbox[c])
           r == line.request
       IN  /\ inbox' = [inbox EXCEPT ![c] = Tail(@)]
           /\ request' = [request EXCEPT ![c] = r]
           /\ ticket' = [ticket EXCEPT ![c] = line.ticket]
           /\ Goto(c, FirstStep(c, r))
           /\ watchers' = CountersOnRead(c, r)
           /\ scope' = [scope EXCEPT ![c] =
                           IF r.op = "subscribe" /\ @ # r.scope THEN "none" ELSE @]
           /\ watching' = [watching EXCEPT ![c] =
                              IF r.op = "watching" THEN r.active ELSE @]
    /\ UNCHANGED <<accepting, peer, sent, sight, verdict, window, lost, engine,
                   states, answered>>

\* A mistake: only windows are sent what has changed.
StateChangedForWindows(c) ==
    /\ task[c] = "loop" /\ seen[c] < version
    /\ seen' = [seen EXCEPT ![c] = version]
    /\ IF scope[c] # "full"
       THEN UNCHANGED <<task, request>>
       ELSE Goto(c, "write") /\ request' = [request EXCEPT ![c] = Pushing]
    /\ UNCHANGED <<accepting, wire, ticket, local, sight, verdict, window,
                   watchers, lost, engine, version, shown, answered>>

\* changed() marks the state seen even when the client has not subscribed.
StateChanged(c) ==
    /\ task[c] = "loop" /\ seen[c] < version
    /\ seen' = [seen EXCEPT ![c] = version]
    /\ IF scope[c] = "none"
       THEN UNCHANGED <<task, request>>
       ELSE Goto(c, "write") /\ request' = [request EXCEPT ![c] = Pushing]
    /\ UNCHANGED <<accepting, wire, ticket, local, sight, verdict, window,
                   watchers, lost, engine, version, shown, answered>>

PopupAction(c) ==
    /\ task[c] = "loop" /\ popups[c] # <<>>
    /\ popups' = [popups EXCEPT ![c] = Tail(@)]
    /\ IF scope[c] = "full"
       THEN /\ Goto(c, "write")
            /\ request' = [request EXCEPT ![c] = Forwarding(Head(popups[c]))]
       ELSE UNCHANGED <<task, request>>
    /\ UNCHANGED <<accepting, wire, ticket, local, sight, verdict, spawned,
                   watchers, lost, engine, states, answered>>

-----------------------------------------------------------------------------
(* set_scope, set_watching and notify_attention. *)

AddScope(c) ==
    /\ task[c] = "add"
    /\ watchers' = [watchers EXCEPT ![request[c].scope] = @ + 1]
    /\ scope' = [scope EXCEPT ![c] = request[c].scope]
    /\ Goto(c, "seeWatching")
    /\ UNCHANGED <<accepting, wire, request, ticket, watching, sight, verdict,
                   window, lost, engine, states, answered>>

\* Watchers::attention loads one counter at a time, stopping at the first
\* that is not zero.
See(c, counter, found, otherwise) ==
    /\ IF watchers[counter] > 0
       THEN Goto(c, "post") /\ sight' = [sight EXCEPT ![c] = found]
       ELSE Goto(c, otherwise) /\ sight' = [sight EXCEPT ![c] = "Idle"]
    /\ UNCHANGED <<accepting, wire, request, ticket, local, verdict, window,
                   watchers, lost, engine, states, answered>>

SeeWatching(c) ==
    /\ task[c] = "seeWatching"
    /\ See(c, "watching", "Popup", "seeBar")

SeeBar(c) ==
    /\ task[c] = "seeBar"
    /\ See(c, "bar", "Bar", "seeFull")

SeeFull(c) ==
    /\ task[c] = "seeFull"
    /\ See(c, "full", "Bar", "post")

\* The send waits for room.
PostAttention(c) ==
    /\ task[c] = "post"
    /\ Len(channel) < EngineCapacity
    /\ channel' = Append(channel, [msg |-> "attention", attention |-> sight[c]])
    /\ sight' = [sight EXCEPT ![c] = "Idle"]
    /\ IF request[c] = Leaving
       THEN Forget(c)
       ELSE /\ Goto(c, IF request[c].op = "subscribe" THEN "snapshot" ELSE "write")
            /\ UNCHANGED <<peer, inbox, request, ticket, answered, seen, shown>>
    /\ UNCHANGED <<accepting, sent, local, verdict, window, watchers, lost, busy,
                   attention, version>>

\* borrow_and_update: the state a Subscribe is answered with.
TakeSnapshot(c) ==
    /\ task[c] = "snapshot"
    /\ seen' = [seen EXCEPT ![c] = version]
    /\ Goto(c, "write")
    /\ UNCHANGED <<accepting, wire, request, ticket, local, sight, verdict,
                   window, watchers, lost, engine, version, shown, answered>>

Unwatch(c) ==
    /\ task[c] = "unwatch"
    /\ watchers' = [watchers EXCEPT !["watching"] = IF watching[c] THEN @ - 1 ELSE @]
    /\ watching' = [watching EXCEPT ![c] = FALSE]
    /\ Goto(c, "unscope")
    /\ UNCHANGED <<accepting, wire, request, ticket, scope, sight, verdict,
                   window, lost, engine, states, answered>>

Unscope(c) ==
    /\ task[c] = "unscope"
    /\ watchers' = [k \in Counters |->
                       IF k = scope[c] THEN watchers[k] - 1 ELSE watchers[k]]
    /\ scope' = [scope EXCEPT ![c] = "none"]
    /\ popups' = [popups EXCEPT ![c] = <<>>]
    /\ Goto(c, "seeWatching")
    /\ UNCHANGED <<accepting, wire, request, ticket, watching, sight, verdict,
                   spawned, lost, engine, states, answered>>

-----------------------------------------------------------------------------
(* run_command: a command for the player, and route_popup. *)

Submit(c) ==
    /\ task[c] = "submit"
    /\ Len(channel) < EngineCapacity
    /\ channel' = Append(channel, [msg |-> "command", client |-> c, ticket |-> ticket[c]])
    /\ verdict' = [verdict EXCEPT ![c] = 0]
    /\ Goto(c, "await")
    /\ UNCHANGED <<accepting, wire, request, ticket, local, sight, window,
                   watchers, lost, busy, attention, states, answered>>

Answered(c) ==
    /\ task[c] = "await" /\ verdict[c] # 0
    /\ Goto(c, "write")
    /\ UNCHANGED <<accepting, wire, request, ticket, local, sight, verdict,
                   window, watchers, lost, engine, states, answered>>

\* COMMAND_TIMEOUT has passed; the receiver of the answer is dropped.
TimeOut(c) ==
    /\ task[c] = "await" /\ verdict[c] = 0
    /\ verdict' = [verdict EXCEPT ![c] = ticket[c]]
    /\ Goto(c, "write")
    /\ UNCHANGED <<accepting, wire, request, ticket, local, sight, window,
                   watchers, lost, engine, states, answered>>

\* What a broadcast does to a receiver: the oldest action is lost when the
\* channel is full.
Broadcast(q, action) ==
    Append(IF Len(q) = PopupCapacity THEN Tail(q) ELSE q, action)

\* Mistakes: asking whether a window is on screen, not whether there is one, and
\* hiding a window that does not exist without an answer.
RoutePopupByWatching(c) ==
    /\ task[c] = "route"
    /\ \/ watchers["watching"] > 0 /\ Goto(c, "broadcast")
       \/ watchers["watching"] = 0 /\ request[c].action = "Hide" /\ Goto(c, "write")
       \/ watchers["watching"] = 0 /\ request[c].action # "Hide" /\ Goto(c, "spawn")
    /\ UNCHANGED <<accepting, wire, request, ticket, local, sight, verdict, window,
                   watchers, lost, engine, states, answered>>

RoutePopupUnanswered(c) ==
    /\ task[c] = "route"
    /\ \/ watchers["full"] > 0 /\ Goto(c, "broadcast")
       \/ watchers["full"] = 0 /\ request[c].action = "Hide" /\ Goto(c, "loop")
       \/ watchers["full"] = 0 /\ request[c].action # "Hide" /\ Goto(c, "spawn")
    /\ UNCHANGED <<accepting, wire, request, ticket, local, sight, verdict, window,
                   watchers, lost, engine, states, answered>>

\* route_popup loads the Full counter once, and what it then does is a step
\* of its own.  Hiding a window that does not exist is already done.
RoutePopup(c) ==
    /\ task[c] = "route"
    /\ \/ watchers["full"] > 0 /\ Goto(c, "broadcast")
       \/ watchers["full"] = 0 /\ request[c].action = "Hide" /\ Goto(c, "write")
       \/ watchers["full"] = 0 /\ request[c].action # "Hide" /\ Goto(c, "spawn")
    /\ UNCHANGED <<accepting, wire, request, ticket, local, sight, verdict, window,
                   watchers, lost, engine, states, answered>>

BroadcastPopup(c) ==
    /\ task[c] = "broadcast"
    /\ popups' = [d \in Clients |->
                     IF task[d] = "none" \/ request[d] = Leaving
                     THEN popups[d] ELSE Broadcast(popups[d], request[c].action)]
    /\ Goto(c, "write")
    /\ UNCHANGED <<accepting, wire, request, ticket, local, sight, verdict, spawned,
                   watchers, lost, engine, states, answered>>

\* Starting the process may fail, which the client is told.
SpawnPopup(c) ==
    /\ task[c] = "spawn"
    /\ \/ UNCHANGED spawned
       \/ spawned < MaxSpawned /\ spawned' = spawned + 1
    /\ Goto(c, "write")
    /\ UNCHANGED <<accepting, wire, request, ticket, local, sight, verdict, popups,
                   watchers, lost, engine, states, answered>>

-----------------------------------------------------------------------------
(* Writing a frame, and what follows it. *)

\* The ticket a frame answers: the verdict for a player command, the request
\* itself otherwise.
AnswerTicket(c) == IF request[c].op = "player" THEN verdict[c] ELSE ticket[c]

\* A mistake: a Subscribe is acknowledged and not answered with a state.
CarriesStateOnChange(c) == request[c].op = "push"

\* The frames that carry a state.
CarriesState(c) == request[c].op \in {"subscribe", "push"}

WriteFrame(c) ==
    /\ task[c] = "write" /\ peer[c] = "open"
    /\ shown' = [shown EXCEPT ![c] = IF CarriesState(c) THEN seen[c] ELSE @]
    /\ answered' = [answered EXCEPT ![c] = IF ticket[c] = 0 THEN @ ELSE AnswerTicket(c)]
    /\ verdict' = [verdict EXCEPT ![c] = 0]
    /\ ticket' = [ticket EXCEPT ![c] = 0]
    /\ request' = [request EXCEPT ![c] = Idling]
    /\ Goto(c, IF request[c].op = "shutdown" THEN "notify" ELSE "loop")
    /\ UNCHANGED <<accepting, wire, local, sight, window, watchers, lost, engine,
                   version, seen>>

WriteFails(c) ==
    /\ task[c] = "write" /\ peer[c] # "open"
    /\ ReturnEarly(c)

\* notify_waiters wakes whoever is waiting now, and stores nothing.
NotifyShutdown(c) ==
    /\ task[c] = "notify"
    /\ notified' = (notified \/ acceptor = "select")
    /\ Leave(c)
    /\ UNCHANGED <<acceptor, sent, local, sight, verdict, window, watchers, lost,
                   engine, version>>

-----------------------------------------------------------------------------
(* The engine, as far as the daemon can tell: it drains its channel one     *)
(* message at a time, and publishes.                                        *)

TakeAttention ==
    /\ busy = NoCommand /\ channel # <<>> /\ Head(channel).msg = "attention"
    /\ attention' = Head(channel).attention
    /\ channel' = Tail(channel)
    /\ UNCHANGED <<accepting, wire, task, request, ticket, local, sight, verdict,
                   window, watchers, lost, busy, states, answered>>

TakeCommand ==
    /\ busy = NoCommand /\ channel # <<>> /\ Head(channel).msg = "command"
    /\ busy' = Head(channel)
    /\ channel' = Tail(channel)
    /\ UNCHANGED <<accepting, wire, task, request, ticket, local, sight, verdict,
                   window, watchers, lost, attention, states, answered>>

\* A mistake: an answer goes to whatever its client is waiting for.
AnswerWhoeverWaits ==
    /\ busy # NoCommand
    /\ busy' = NoCommand
    /\ verdict' = [c \in Clients |->
                      IF c = busy.client /\ task[c] = "await"
                      THEN busy.ticket ELSE verdict[c]]
    /\ UNCHANGED <<accepting, wire, task, request, ticket, local, sight, window,
                   watchers, lost, channel, attention, states, answered>>

\* The oneshot delivers only to the task that is still waiting for this answer.
AnswerCommand ==
    /\ busy # NoCommand
    /\ busy' = NoCommand
    /\ verdict' = [c \in Clients |->
                      IF c = busy.client /\ task[c] = "await" /\ ticket[c] = busy.ticket
                      THEN busy.ticket ELSE verdict[c]]
    /\ UNCHANGED <<accepting, wire, task, request, ticket, local, sight, window,
                   watchers, lost, channel, attention, states, answered>>

Publish ==
    /\ acceptor # "exited" /\ version < MaxVersion
    /\ version' = version + 1
    /\ UNCHANGED <<accepting, wire, task, request, ticket, local, sight, verdict,
                   window, watchers, lost, engine, seen, shown, answered>>

-----------------------------------------------------------------------------

Serve(c) ==
    \/ EndOfStream(c) \/ ReadFails(c) \/ ReadLine(c)
    \/ StateChanged(c) \/ PopupAction(c)
    \/ AddScope(c) \/ SeeWatching(c) \/ SeeBar(c) \/ SeeFull(c)
    \/ PostAttention(c) \/ TakeSnapshot(c) \/ Unwatch(c) \/ Unscope(c)
    \/ Submit(c) \/ Answered(c) \/ TimeOut(c)
    \/ RoutePopup(c) \/ BroadcastPopup(c) \/ SpawnPopup(c)
    \/ WriteFrame(c) \/ WriteFails(c) \/ NotifyShutdown(c)

Client(c) ==
    \/ Connect(c) \/ HangUp(c)
    \/ \E r \in Requests : Send(c, r)

AcceptLoop ==
    \/ \E c \in Clients : Accept(c)
    \/ AcceptAgain \/ StopAccepting \/ Exit

Engine == TakeAttention \/ TakeCommand \/ AnswerCommand \/ Publish

Next ==
    \/ AcceptLoop \/ Engine
    \/ \E c \in Clients : Serve(c) \/ Client(c)

Spec == Init /\ [][Next]_vars

\* select! polls its branches in a random order, and the channel to the
\* engine serves its waiting senders in order, so none of these is passed over
\* for ever.  The rest of a task runs whenever it can.  A client that stays
\* connected reads its frames.
ReadBranch(c) == ReadLine(c) \/ EndOfStream(c) \/ ReadFails(c)
EngineSend(c) == PostAttention(c) \/ Submit(c)

FairServe(c) ==
    /\ WF_vars(Serve(c))
    /\ SF_vars(ReadBranch(c)) /\ SF_vars(StateChanged(c)) /\ SF_vars(PopupAction(c))
    /\ SF_vars(EngineSend(c))

FairDaemon ==
    /\ \A c \in Clients : FairServe(c) /\ SF_vars(Accept(c))
    /\ WF_vars(AcceptAgain) /\ WF_vars(StopAccepting) /\ WF_vars(Exit)
    /\ WF_vars(TakeAttention) /\ WF_vars(TakeCommand)

\* Every player answers the calls the engine makes to it.
FairSpec == Spec /\ FairDaemon /\ WF_vars(AnswerCommand)

\* A call to a wedged player may stay outstanding for ever.
HungPlayerSpec == Spec /\ FairDaemon

-----------------------------------------------------------------------------
(* Properties. *)

WireTypeOK ==
    /\ acceptor \in {"select", "accepted", "stopped", "exited"}
    /\ notified \in BOOLEAN
    /\ peer \in [Clients -> {"absent", "open", "closed", "reset"}]
    /\ inbox \in [Clients -> Seq(Lines)]
    /\ sent \in 0..MaxSent

TaskTypeOK ==
    /\ task \in [Clients -> TaskStates]
    /\ request \in [Clients -> Activities]
    /\ ticket \in [Clients -> 0..MaxSent]
    /\ sight \in [Clients -> Attentions]
    /\ verdict \in [Clients -> 0..MaxSent]
    /\ answered \in [Clients -> 0..MaxSent]

RegistrationTypeOK ==
    /\ scope \in [Clients -> Scopes \cup {"none"}]
    /\ watching \in [Clients -> BOOLEAN]
    /\ watchers \in [Counters -> Int]
    /\ lost \in [Counters -> Nat]

EngineTypeOK ==
    /\ channel \in Seq(Messages) /\ Len(channel) <= EngineCapacity
    /\ busy \in Messages \cup {NoCommand}
    /\ attention \in Attentions

StatesTypeOK ==
    /\ version \in 0..MaxVersion
    /\ seen \in [Clients -> 0..MaxVersion]
    /\ shown \in [Clients -> 0..MaxVersion]

WindowTypeOK ==
    /\ popups \in [Clients -> Seq(PopupActions)]
    /\ spawned \in 0..MaxSpawned

\* Every variable has its type, and no counter is ever negative: in the code
\* they are unsigned, and fetch_sub below zero would wrap to a huge count.
TypeOK ==
    /\ WireTypeOK /\ TaskTypeOK /\ RegistrationTypeOK
    /\ EngineTypeOK /\ StatesTypeOK /\ WindowTypeOK
    /\ \A k \in Counters : watchers[k] >= 0

\* The connections registered under a counter.
Holders(k) ==
    {c \in Clients : IF k = "watching" THEN watching[c] ELSE scope[c] = k}

\* Every counter is the number of connections registered under it plus the
\* registrations early returns dropped: no subscription, scope change, show,
\* hide or departure counts twice or not at all, so fetch_sub never wraps.
CounterLedger ==
    \A k \in Counters : watchers[k] = Cardinality(Holders(k)) + lost[k]

\* The daemon runs, and no task is between changing a counter and telling the
\* engine.
Settled ==
    /\ acceptor # "exited"
    /\ \A c \in Clients : task[c] \in {"none", "loop"}
    /\ channel = <<>> /\ busy = NoCommand

AttentionOf(w) ==
    CASE w["watching"] > 0 -> "Popup"
      [] w["watching"] = 0 /\ (w["bar"] > 0 \/ w["full"] > 0) -> "Bar"
      [] OTHER -> "Idle"

\* Once every registration has been reported, the engine polls as hard as the
\* counters say (Watchers decides how hard the engine works).
AttentionSettles == Settled => attention = AttentionOf(watchers)

\* With nobody connected the engine polls nothing.
IdleWhenNobodyIsConnected ==
    Settled /\ (\A c \in Clients : peer[c] = "absent") => attention = "Idle"

\* The requests a connection has received and not answered.
Outstanding(c) ==
    ({ticket[c]} \ {0}) \cup {inbox[c][i].ticket : i \in DOMAIN inbox[c]}

\* Replies keep the order the requests arrived in, whatever the engine and the
\* timeout do: a frame that answers a request answers the oldest one that has
\* no answer yet, never one whose wait was abandoned.
AnswersInOrder ==
    [][\A c \in Clients :
          answered'[c] # answered[c] /\ answered'[c] # 0
              => /\ answered'[c] \in Outstanding(c)
                 /\ \A t \in Outstanding(c) : answered'[c] <= t]_vars

\* A subscribed client that is waiting for something to happen has been sent
\* the last state its receiver has marked seen: no change is swallowed.
NoStateSwallowed ==
    \A c \in Clients :
        task[c] = "loop" /\ scope[c] # "none" => shown[c] = seen[c]

\* A window is started only on finding that no connection is a window: the
\* counter route_popup reads in place of the connections is never too low.
NoSecondWindow ==
    [][\A c \in Clients :
          task[c] = "route" /\ task'[c] = "spawn"
              => \A d \in Clients : scope[d] # "full"]_vars

\* Every request of a client that stays is answered in the end.
EveryRequestAnswered ==
    \A c \in Clients :
        Outstanding(c) # {}
            ~> (Outstanding(c) = {} \/ peer[c] # "open" \/ acceptor = "exited")

\* A subscribed client is shown the newest state in the end.
NewestStateShown ==
    \A c \in Clients :
        scope[c] # "none" /\ shown[c] # version
            ~> (scope[c] = "none" \/ shown[c] = version \/ acceptor = "exited")

\* A daemon that acknowledged Shutdown exits.
ShutdownHeeded ==
    \A c \in Clients : task[c] = "notify" ~> acceptor = "exited"
=============================================================================
