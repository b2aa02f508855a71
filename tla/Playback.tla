------------------------------ MODULE Playback ------------------------------
(***************************************************************************)
(* The engine's picture of one attached player (waytify-core/src/engine.rs *)
(* run, apply_properties, refresh_status, refresh_position, seek_absolute  *)
(* and publish, over the PositionClock): the select! loop with its two     *)
(* timers, the signals it is told, and the reads it makes of the player,   *)
(* during which time passes and the player goes on.                        *)
(*                                                                         *)
(* Time is discrete.  A timer or a signal that is due is served before     *)
(* time goes on, signals and handlers taking at most MaxLatency.           *)
(***************************************************************************)
EXTENDS PositionClock, Sequences, SequencesExt

CONSTANTS
    Heartbeat,        \* the republish timer (1 s)
    PopupInterval,    \* poll_interval: playing, popup on screen (5 s)
    BarInterval,      \* poll_interval: playing, bar only (30 s)
    PausedInterval,   \* poll_interval: paused (30 s)
    Tolerance,        \* DRIFT_TOLERANCE_MS
    Lengths,          \* lengths a track may have, NoLength for a stream
    MaxLatency,       \* bound: how long a signal or a handler may take
    MaxFaults,        \* bound: signals missed and reads failed
    MaxOvertakes,     \* bound: signals of one stream served before the other's
    MaxEvents,        \* bound: changes of the player and messages
    MaxTime           \* bound: how long a behaviour is

Attentions == {"Idle", "Bar", "Popup"}
Never == -1

ASSUME PlaybackAssumption ==
    /\ {Heartbeat, PopupInterval, BarInterval, PausedInterval} \subseteq Nat \ {0}
    /\ {Tolerance, MaxLatency, MaxFaults, MaxOvertakes, MaxEvents, MaxTime} \subseteq Nat
    /\ Lengths \subseteq Nat \cup {NoLength} /\ Lengths # {}

VARIABLES
    time,
    player,       \* the player itself: playing, pos, length, track
    signals,      \* what it has announced and the engine has not handled
    mode,         \* the engine: in select!, or in a handler awaiting the player
    cause,        \* what started the handler: "signal" or "tick"
    now,          \* the Instant the handler took when it started
    moved,        \* whether a read has corrected something
    target,       \* where a Seek command is going
    attention,
    status,       \* state.player.status, as far as it is playing
    track,        \* state.player.track
    clock,
    heartbeatAt,  \* when this iteration's republish completes, or Never
    tickAt,       \* when this iteration's tick completes, or Never
    shown,        \* the published player: playing, pos, and when
    heardAt,      \* history: when a handler other than the heartbeat last ended
    faults, overtakes, events

handler == <<mode, cause, now, moved, target>>
picture == <<status, track, clock>>
timers == <<heartbeatAt, tickAt>>
vars == <<time, player, signals, handler, attention, picture, timers, shown,
          heardAt, faults, overtakes, events>>

\* A mistake: a paused player is never polled.
PollIntervalPlaying(a, playing) ==
    CASE a = "Popup" /\ playing -> PopupInterval
      [] a = "Bar" /\ playing -> BarInterval
      [] OTHER -> Never

PollInterval(a, playing) ==
    CASE a = "Idle" -> Never
      [] a = "Popup" /\ playing -> PopupInterval
      [] a = "Bar" /\ playing -> BarInterval
      [] OTHER -> PausedInterval

\* A mistake: only the window is sent the position as it advances.
RearmForPopup ==
    /\ heartbeatAt' = IF attention' = "Popup" /\ clock'.playing
                      THEN time + Heartbeat ELSE Never
    /\ tickAt' = LET interval == PollInterval(attention', clock'.playing)
                 IN  IF interval = Never THEN Never ELSE time + interval

\* Both timers start over at every iteration of the loop.
Rearm ==
    /\ heartbeatAt' = IF attention' # "Idle" /\ clock'.playing
                      THEN time + Heartbeat ELSE Never
    /\ tickAt' = LET interval == PollInterval(attention', clock'.playing)
                 IN  IF interval = Never THEN Never ELSE time + interval

Publish ==
    shown' = [playing |-> status', pos |-> PositionAt(clock', time), at |-> time]

\* A handler returns to select!.
Finish ==
    /\ mode' = "select" /\ cause' = "none" /\ moved' = FALSE
    /\ now' = 0 /\ target' = 0
    /\ Rearm

Begin(next, why) ==
    /\ mode' = next /\ cause' = why /\ now' = time /\ moved' = FALSE
    /\ UNCHANGED <<target, timers>>

\* The engine has attached and its refresh has read everything.
Init ==
    /\ time = 0
    /\ \E playing \in BOOLEAN, length \in Lengths :
          /\ player = [playing |-> playing, pos |-> 0, length |-> length, track |-> 1]
          /\ status = playing
          /\ clock = Anchor(SetLength(NewClock(0), length), 0, playing, 0)
          /\ shown = [playing |-> playing, pos |-> 0, at |-> 0]
    /\ track = 1
    /\ signals = <<>>
    /\ mode = "select" /\ cause = "none" /\ now = 0 /\ moved = FALSE /\ target = 0
    /\ attention = "Idle" /\ heartbeatAt = Never /\ tickAt = Never
    /\ heardAt = 0 /\ faults = 0 /\ overtakes = 0 /\ events = 0

-----------------------------------------------------------------------------
(* The player, which is not part of the program. *)

PlayerAt(pos) ==
    IF player.length # NoLength /\ pos > player.length THEN player.length ELSE pos

\* It announces each change, and the announcement may be missed.
Announce(signal) ==
    \/ signals' = Append(signals, signal) /\ UNCHANGED faults
    \/ faults < MaxFaults /\ faults' = faults + 1 /\ UNCHANGED signals

PlayerActs ==
    /\ events < MaxEvents /\ events' = events + 1
    /\ UNCHANGED <<time, handler, attention, picture, timers, shown, heardAt,
                   overtakes>>

PlayPause ==
    /\ PlayerActs
    /\ player' = [player EXCEPT !.playing = ~@]
    /\ Announce([kind |-> "status", playing |-> player'.playing, at |-> time])

PlayerSeeks ==
    /\ PlayerActs
    /\ \E pos \in 0..MaxTime :
          /\ pos = PlayerAt(pos) /\ pos # player.pos
          /\ player' = [player EXCEPT !.pos = pos]
    /\ Announce([kind |-> "seeked", pos |-> player'.pos, at |-> time])

ChangeTrack ==
    /\ PlayerActs
    /\ \E length \in Lengths :
          player' = [player EXCEPT !.pos = 0, !.length = length, !.track = @ + 1]
    /\ Announce([kind |-> "metadata", track |-> player'.track,
                 length |-> player'.length, at |-> time])

\* Time passes when nothing is due.
InTime(since) == time - since < MaxLatency
Tick ==
    /\ time < MaxTime
    /\ mode = "select" => (heartbeatAt = Never \/ time < heartbeatAt)
                          /\ (tickAt = Never \/ time < tickAt)
    /\ mode # "select" => InTime(now)
    /\ \A i \in DOMAIN signals : InTime(signals[i].at)
    /\ time' = time + 1
    /\ player' = [player EXCEPT !.pos = IF player.playing THEN PlayerAt(@ + 1) ELSE @]
    /\ UNCHANGED <<signals, handler, attention, picture, timers, shown, heardAt,
                   faults, overtakes, events>>

-----------------------------------------------------------------------------
(* The loop. *)

\* watch_player listens to two streams, property changes and seeks, and serves
\* whichever is ready: each keeps its order, and neither waits for the other.
Stream(signal) == IF signal.kind = "seeked" THEN "seeks" ELSE "properties"

Deliver(i) ==
    /\ \A j \in 1..i - 1 : Stream(signals[j]) # Stream(signals[i])
    /\ IF i = 1 THEN UNCHANGED overtakes
                ELSE overtakes < MaxOvertakes /\ overtakes' = overtakes + 1
    /\ signals' = RemoveAt(signals, i)

HandleSeeked ==
    /\ mode = "select"
    /\ \E i \in DOMAIN signals :
          /\ signals[i].kind = "seeked" /\ Deliver(i)
          /\ clock' = Anchor(clock, signals[i].pos, clock.playing, time)
    /\ UNCHANGED <<status, track, attention>>
    /\ Publish
    /\ Finish /\ heardAt' = time
    /\ UNCHANGED <<time, player, faults, events>>

\* A mistake: the clock is not told.
HandleStatusAlone ==
    /\ mode = "select"
    /\ \E i \in DOMAIN signals :
          /\ signals[i].kind = "status" /\ Deliver(i)
          /\ status' = signals[i].playing
    /\ clock' = clock
    /\ Begin("position", "signal")
    /\ UNCHANGED <<time, player, attention, track, shown, heardAt, faults, events>>

\* apply_properties: the state was announced, so only the position is read.
HandleStatus ==
    /\ mode = "select"
    /\ \E i \in DOMAIN signals :
          /\ signals[i].kind = "status" /\ Deliver(i)
          /\ status' = signals[i].playing
          /\ clock' = SetPlaying(clock, signals[i].playing, time)
    /\ Begin("position", "signal")
    /\ UNCHANGED <<time, player, attention, track, shown, heardAt, faults, events>>

\* apply_properties: a new track starts at zero, and both are read.
HandleMetadata ==
    /\ mode = "select"
    /\ \E i \in DOMAIN signals :
          /\ signals[i].kind = "metadata" /\ Deliver(i)
          /\ track' = signals[i].track
          /\ LET resized == SetLength(clock, signals[i].length)
             IN  clock' = IF track' = track THEN resized
                          ELSE Anchor(resized, 0, clock.playing, time)
    /\ Begin("status", "signal")
    /\ UNCHANGED <<time, player, attention, status, shown, heardAt, faults, events>>

Reconcile ==
    /\ mode = "select" /\ tickAt # Never /\ time >= tickAt
    /\ Begin("status", "tick")
    /\ UNCHANGED <<time, player, signals, attention, picture, shown, heardAt,
                   faults, overtakes, events>>

ReadFails == faults < MaxFaults /\ faults' = faults + 1

\* A mistake: the clock is not told.
RefreshStatusAlone ==
    /\ mode = "status" /\ mode' = "position"
    /\ \/ /\ status' = player.playing
          /\ moved' = (moved \/ status # player.playing)
          /\ UNCHANGED <<clock, faults>>
       \/ ReadFails /\ UNCHANGED <<status, clock, moved>>
    /\ UNCHANGED <<time, player, signals, cause, now, target, attention, track,
                   timers, shown, heardAt, overtakes, events>>

\* refresh_status applies what it reads at the instant the handler started.
RefreshStatus ==
    /\ mode = "status" /\ mode' = "position"
    /\ \/ /\ status' = player.playing
          /\ clock' = SetPlaying(clock, player.playing, now)
          /\ moved' = (moved \/ status # player.playing)
          /\ UNCHANGED faults
       \/ ReadFails /\ UNCHANGED <<status, clock, moved>>
    /\ UNCHANGED <<time, player, signals, cause, now, target, attention, track,
                   timers, shown, heardAt, overtakes, events>>

\* refresh_position does the same, and the handler ends: a signal is published
\* whatever the reads said, a tick only if they corrected something.
RefreshPosition ==
    /\ mode = "position"
    /\ UNCHANGED <<status, track, attention>>
    /\ LET drifted == Drifted(clock, player.pos, now, Tolerance)
           publishes == moved \/ cause = "signal"
       IN  \/ /\ drifted
              /\ clock' = Anchor(clock, player.pos, clock.playing, now)
              /\ Publish /\ UNCHANGED faults
           \/ /\ ~drifted
              /\ clock' = clock /\ UNCHANGED faults
              /\ IF publishes THEN Publish ELSE UNCHANGED shown
           \/ /\ ReadFails
              /\ clock' = clock
              /\ IF publishes THEN Publish ELSE UNCHANGED shown
    /\ Finish /\ heardAt' = time
    /\ UNCHANGED <<time, player, signals, overtakes, events>>

Republish ==
    /\ mode = "select" /\ heartbeatAt # Never /\ time >= heartbeatAt
    /\ UNCHANGED <<picture, attention>>
    /\ Publish
    /\ Finish
    /\ UNCHANGED <<time, player, signals, heardAt, faults, overtakes, events>>

\* EngineMsg::Attention.
ChangeAttention ==
    /\ mode = "select" /\ events < MaxEvents /\ events' = events + 1
    /\ attention' \in Attentions \ {attention}
    /\ UNCHANGED <<picture, shown>>
    /\ Finish /\ heardAt' = time
    /\ UNCHANGED <<time, player, signals, faults, overtakes>>

\* Command::Seek: the player takes an absolute position, or a seek relative to
\* where the clock believes it is, and may announce it.
Seek ==
    /\ mode = "select" /\ events < MaxEvents /\ events' = events + 1
    /\ \E to \in 0..MaxTime :
          /\ target' = to
          /\ \E pos \in {to, player.pos + to - PositionAt(clock, time)} :
                player' = [player EXCEPT !.pos = PlayerAt(IF pos < 0 THEN 0 ELSE pos)]
    /\ Announce([kind |-> "seeked", pos |-> player'.pos, at |-> time])
    /\ mode' = "seek" /\ now' = time /\ UNCHANGED <<cause, moved, timers>>
    /\ UNCHANGED <<time, attention, picture, shown, heardAt, overtakes>>

SeekReturns ==
    /\ mode = "seek"
    /\ clock' = Release(clock, target, time)
    /\ UNCHANGED <<status, track, attention>>
    /\ Publish
    /\ Finish /\ heardAt' = time
    /\ UNCHANGED <<time, player, signals, faults, overtakes, events>>

Player == PlayPause \/ PlayerSeeks \/ ChangeTrack

Loop ==
    \/ HandleSeeked \/ HandleStatus \/ HandleMetadata
    \/ RefreshStatus \/ RefreshPosition
    \/ Reconcile \/ Republish
    \/ ChangeAttention \/ Seek \/ SeekReturns

Next == Tick \/ Player \/ Loop

Spec == Init /\ [][Next]_vars

-----------------------------------------------------------------------------
(* Properties. *)

Signals ==
    [kind : {"status"}, playing : BOOLEAN, at : Nat]
        \cup [kind : {"seeked"}, pos : Nat, at : Nat]
        \cup [kind : {"metadata"}, track : Nat, length : Lengths, at : Nat]

\* Every variable has its type.
TypeOK ==
    /\ time \in 0..MaxTime
    /\ player \in [playing : BOOLEAN, pos : Nat, length : Lengths, track : Nat]
    /\ signals \in Seq(Signals)
    /\ mode \in {"select", "status", "position", "seek"}
    /\ cause \in {"none", "signal", "tick"}
    /\ now \in 0..MaxTime /\ moved \in BOOLEAN /\ target \in Nat
    /\ attention \in Attentions
    /\ status \in BOOLEAN /\ track \in Nat
    /\ clock \in PositionClocks
    /\ {heartbeatAt, tickAt} \subseteq Nat \cup {Never}
    /\ shown \in [playing : BOOLEAN, pos : Nat, at : 0..MaxTime]
    /\ {heardAt} \subseteq 0..MaxTime
    /\ faults \in 0..MaxFaults /\ overtakes \in 0..MaxOvertakes
    /\ events \in 0..MaxEvents

\* Everything the player has announced has been handled.
CaughtUp == mode = "select" /\ signals = <<>>

\* When no signal was missed and no read failed, an engine that has caught up
\* believes what the player does, whatever it read while the player changed.
StatusSettles ==
    CaughtUp /\ faults = 0
        => status = player.playing /\ clock.playing = status /\ track = player.track

Distance(a, b) == IF a > b THEN a - b ELSE b - a

\* The same for the position, as long as no signal overtook another: once caught
\* up, the interpolated position is off by no more than the tolerance and the
\* time one handler may take.
ClockTracksPlayer ==
    CaughtUp /\ faults = 0 /\ overtakes = 0
        => Distance(PositionAt(clock, time), player.pos) <= Tolerance + MaxLatency

\* While something is played and somebody is connected, what clients were last
\* shown is never older than a heartbeat, counted from the last event: an event
\* starts the heartbeat over as well.
NeverFrozen ==
    mode = "select" /\ clock.playing /\ attention # "Idle"
        => \E since \in {shown.at, heardAt} : time - since <= Heartbeat

\* Clients are always shown a status the clock agrees with.
ShownIsConsistent ==
    [][shown' # shown => shown'.playing = clock'.playing]_vars

\* A start of playback that was never announced is noticed within the paused
\* interval of the last thing heard.
MissedStartIsNoticed ==
    CaughtUp /\ attention # "Idle" /\ ~status /\ player.playing
        => time - heardAt <= PausedInterval + MaxLatency

\* And while playing, within the interval for who is watching.
MissedStopIsNoticed ==
    CaughtUp /\ attention # "Idle" /\ status /\ ~player.playing
        => time - heardAt <= PollInterval(attention, TRUE) + MaxLatency
=============================================================================
