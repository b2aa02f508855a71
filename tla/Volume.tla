-------------------------------- MODULE Volume --------------------------------
(***************************************************************************)
(* The volume: the window's slider (waytify-popup/src/ui.rs: wire,         *)
(* render_audio), the engine's commands and its choice of a target         *)
(* (waytify-core/src/engine.rs: apply, apply_audio, request_devices), and  *)
(* the thread that talks to the sound server (waytify-core/src/audio.rs).  *)
(*                                                                         *)
(* A drag is sent once the slider rests.  The engine passes it on to the   *)
(* audio thread or, when the music comes out of a Connect device, to       *)
(* Spotify.  The audio thread reads the player's stream when a request or  *)
(* the server's callback has marked it dirty, and reports what differs     *)
(* from its last report.  Other programs change streams meanwhile, players *)
(* come and go, and a read of the server may take too long.                *)
(*                                                                         *)
(* An account is connected.  Volumes are steps on a scale of Full.         *)
(***************************************************************************)
EXTENDS Integers, Sequences, FiniteSets

CONSTANTS
    Nothing,
    Players,
    Owner,          \* of a player: binary, identity, pid
    Streams,        \* the streams of the server, by index
    Says,           \* what each says of itself: binary, name, pid
    Belongs,        \* the player each really is of
    Lower,          \* of a name, its lower case
    Parent,         \* of a process, its parent
    Full,           \* 100 percent: streams can be louder
    MaxActs,        \* bound: what the user, the players and Spotify do
    MaxTimeouts     \* bound: reads of the server that take too long

Depth == 16
Levels == 0..Full

ASSUME VolumeAssumption ==
    /\ Streams \subseteq Nat /\ IsFiniteSet(Streams)
    /\ Belongs \in [Streams -> Players] /\ DOMAIN Says = Streams /\ DOMAIN Owner = Players
    /\ Nothing \notin Players \cup Nat
    /\ Full \in Nat \ {0} /\ {MaxActs, MaxTimeouts} \subseteq Nat

VARIABLES
    present,        \* the streams there are
    loudness,       \* of each
    mute,
    \* The window.
    slider,
    resting,        \* the value to send once the slider rests, Nothing if none
    unseen,         \* a frame has yet to be rendered
    \* The engine.
    commands,
    attached,
    audio,          \* state.audio: volume, muted, route
    device,         \* state.spotify.active_device, as far as there is one
    allowed,        \* can_control_remote: the account is not known to be free
    tasks,          \* requests to Spotify, which take the client in turn
    answers,        \* events about devices on their way
    \* The audio thread.
    requests, owner, last, dirty,
    reading,        \* it has taken the mark and is about to read
    callback,       \* the server has yet to tell it of a change
    \* Spotify.
    playsOn,        \* a Connect device is active
    free,           \* the account is
    refusal,        \* the client was refused a write
    remote,         \* the volume last set there
    \* History.
    wanted,         \* the last drag, unless something else happened to the stream
    late,           \* the last read timed out
    acts, timeouts

server == <<present, loudness, mute>>
window == <<slider, resting>>
knowledge == <<device, allowed, tasks, answers>>
thread == <<requests, owner, last, dirty, reading>>
spotify == <<playsOn, free, refusal, remote>>
history == <<wanted, late>>
bounds == <<acts, timeouts>>
vars == <<server, window, unseen, commands, attached, audio, knowledge, thread, callback,
          spotify, history, bounds>>

-----------------------------------------------------------------------------
(* Whose stream it is. *)

\* The parent of a process, its parent, and so on while there is one above init.
Forebears(pid) ==
    LET up[n \in 0..Depth] ==
            IF n = 0 THEN pid
            ELSE LET below == up[n - 1] IN
                 IF below \notin DOMAIN Parent \/ (n > 1 /\ below <= 1) THEN Nothing
                 ELSE Parent[below]
    IN  {up[n] : n \in 1..Depth} \ {Nothing}

IsDescendant(pid, ancestor) == ancestor \in Forebears(pid)

SameName(a, b) == Lower[a] = Lower[b]

Owns(who, stream) ==
    \/ stream.binary # Nothing /\ SameName(stream.binary, who.binary)
    \/ /\ stream.name # Nothing
       /\ SameName(stream.name, who.binary) \/ SameName(stream.name, who.identity)
    \/ /\ stream.pid # Nothing /\ who.pid # Nothing
       /\ stream.pid = who.pid \/ IsDescendant(stream.pid, who.pid)

\* find_input: the first of the streams that are the player's.
Matches == [p \in Players |-> {s \in Streams : Owns(Owner[p], Says[s])}]
Owned(p) == Matches[p] \cap present
FindInput(p) ==
    IF p = Nothing \/ Owned(p) = {} THEN Nothing
    ELSE CHOOSE s \in Owned(p) : \A t \in Owned(p) : s <= t

\* volume_to_percent: louder than full is full.
Percent(level) == IF level > Full THEN Full ELSE level
Clamp(level) == IF level < 0 THEN 0 ELSE Percent(level)

Silence == [volume |-> Nothing, muted |-> Nothing]
Snapshot(s) ==
    IF s = Nothing THEN Silence ELSE [volume |-> Percent(loudness[s]), muted |-> mute[s]]

-----------------------------------------------------------------------------

Init ==
    /\ present \in SUBSET Streams /\ loudness = [s \in Streams |-> Full]
    /\ mute = [s \in Streams |-> FALSE]
    /\ slider = 0 /\ resting = Nothing /\ unseen = FALSE
    /\ commands = <<>> /\ attached = Nothing
    /\ audio = [volume |-> Nothing, muted |-> Nothing, route |-> "unavailable"]
    /\ device = FALSE /\ allowed = TRUE /\ tasks = <<>> /\ answers = <<>>
    /\ requests = <<>> /\ owner = Nothing /\ last = Silence /\ dirty = FALSE
    /\ reading = FALSE /\ callback = FALSE
    /\ playsOn \in BOOLEAN /\ free \in BOOLEAN
    /\ refusal = FALSE /\ remote = Nothing
    /\ wanted = Nothing /\ late = FALSE
    /\ acts = 0 /\ timeouts = 0

Acts == acts < MaxActs /\ acts' = acts + 1 /\ timeouts' = timeouts

-----------------------------------------------------------------------------
(* The window. *)

\* The slider is dragged, which puts off the sending of where it was.
Drag ==
    /\ Acts
    /\ audio.route # "unavailable"
    /\ \E v \in Levels \ {slider} :
          /\ slider' = v /\ resting' = v
          /\ wanted' = IF attached # Nothing /\ FindInput(attached) # Nothing
                       THEN v ELSE Nothing
    /\ UNCHANGED <<server, unseen, commands, attached, audio, knowledge, thread, callback,
                   spotify, late>>

\* A mistake: where the slider was when the drag began is what is sent.
RestAsShown ==
    /\ resting # Nothing /\ resting' = Nothing
    /\ commands' = Append(commands, [kind |-> "set", to |-> slider])
    /\ UNCHANGED <<server, slider, unseen, attached, audio, knowledge, thread, callback,
                   spotify, history, bounds>>

\* It has rested for VOLUME_SETTLE.
Rest ==
    /\ resting # Nothing /\ resting' = Nothing
    /\ commands' = Append(commands, [kind |-> "set", to |-> resting])
    /\ UNCHANGED <<server, slider, unseen, attached, audio, knowledge, thread, callback,
                   spotify, history, bounds>>

Commands ==
    {[kind |-> "by", to |-> d] : d \in {-1, 1}}
        \cup {[kind |-> k, to |-> 0] : k \in {"mute", "transfer", "devices"}}

\* The window's other controls, and the command line.
Click ==
    /\ Acts
    /\ \E c \in Commands :
          /\ commands' = Append(commands, c)
          /\ wanted' = IF c.kind = "by" THEN Nothing ELSE wanted
    /\ UNCHANGED <<server, window, unseen, attached, audio, knowledge, thread, callback,
                   spotify, late>>

RenderAudio ==
    /\ unseen /\ unseen' = FALSE
    /\ slider' = IF audio.volume # Nothing THEN audio.volume ELSE slider
    /\ UNCHANGED <<server, resting, commands, attached, audio, knowledge, thread, callback,
                   spotify, wanted, late, bounds>>

-----------------------------------------------------------------------------
(* The engine. *)

\* audio_request: nothing is done without a player.
AudioRequest(c) ==
    requests' = IF attached = Nothing THEN requests
                ELSE Append(requests, [kind |-> c.kind, to |-> c.to, owner |-> attached])

\* SetVolume goes to whichever is live; VolumeBy and ToggleMute know only the
\* local stream.
TakeCommand ==
    /\ commands # <<>> /\ commands' = Tail(commands)
    /\ LET c == Head(commands) IN
       /\ IF c.kind \in {"by", "mute"} \/ (c.kind = "set" /\ audio.route # "remote")
          THEN AudioRequest(c) /\ UNCHANGED tasks
          ELSE tasks' = Append(tasks, c) /\ UNCHANGED requests
    /\ UNCHANGED <<server, window, unseen, attached, audio, device, allowed, answers,
                   owner, last, dirty, reading, callback, spotify, history, bounds>>

\* The choice apply_audio makes: a local stream wins.
Route(snapshot, active, may) ==
    IF snapshot.volume # Nothing THEN "local"
    ELSE IF active /\ may THEN "remote" ELSE "unavailable"

\* handle_player_event for Devices.  The route is not chosen again.
HandleDevices ==
    /\ answers # <<>> /\ answers' = Tail(answers)
    /\ device' = Head(answers).active
    /\ allowed' = (allowed /\ ~Head(answers).refused)
    /\ unseen' = TRUE
    /\ UNCHANGED <<server, window, commands, attached, audio, tasks, thread, callback,
                   spotify, history, bounds>>

Refreshes(p) == Append(requests, [kind |-> "refresh", to |-> 0, owner |-> p])

\* A mistake: the audio thread is left watching for the last player.
AttachUnheard ==
    /\ Acts
    /\ \E p \in Players \ {attached} : attached' = p
    /\ unseen' = TRUE /\ wanted' = Nothing
    /\ UNCHANGED <<server, window, commands, audio, knowledge, thread, callback, spotify, late>>

\* attach, which ends with a frame.
Attach ==
    /\ Acts
    /\ \E p \in Players \ {attached} : attached' = p /\ requests' = Refreshes(p)
    /\ unseen' = TRUE /\ wanted' = Nothing
    /\ UNCHANGED <<server, window, commands, audio, knowledge, owner, last, dirty, reading,
                   callback, spotify, late>>

\* detach leaves the volume as it was.
Detach ==
    /\ attached # Nothing /\ attached' = Nothing /\ unseen' = TRUE /\ wanted' = Nothing
    /\ UNCHANGED <<server, window, commands, audio, knowledge, thread, callback, spotify,
                   late, bounds>>

-----------------------------------------------------------------------------
(* The audio thread: Worker::run. *)

Sets(s, level) == loudness' = [loudness EXCEPT ![s] = level] /\ mute' = mute

\* Worker::apply, on the stream as it is then.
Apply(r, s) ==
    IF s = Nothing \/ r.kind = "refresh" THEN UNCHANGED <<loudness, mute>>
    ELSE CASE r.kind = "set" -> Sets(s, Clamp(r.to))
           [] r.kind = "by" -> Sets(s, Clamp(Percent(loudness[s]) + r.to))
           [] r.kind = "mute" -> mute' = [mute EXCEPT ![s] = ~@] /\ loudness' = loudness

\* find_input gives up on a server that takes too long: no stream is found.
Finds(p, found) ==
    \/ found = FindInput(p) /\ UNCHANGED timeouts
    \/ found = Nothing /\ timeouts < MaxTimeouts /\ timeouts' = timeouts + 1

TakeRequest ==
    /\ ~reading /\ requests # <<>>
    /\ LET r == Head(requests) IN
       /\ owner' = r.owner
       /\ \E s \in Streams \cup {Nothing} : Finds(r.owner, s) /\ Apply(r, s)
    /\ requests' = Tail(requests) /\ reading' = TRUE /\ dirty' = FALSE
    /\ callback' = TRUE
    /\ UNCHANGED <<present, window, unseen, commands, attached, audio, knowledge, last,
                   spotify, history, acts>>

\* It wakes ten times a second, and takes the mark before it reads.
Wake ==
    /\ ~reading /\ requests = <<>> /\ dirty /\ owner # Nothing
    /\ dirty' = FALSE /\ reading' = TRUE
    /\ UNCHANGED <<server, window, unseen, commands, attached, audio, knowledge, requests,
                   owner, last, callback, spotify, history, bounds>>

\* apply_audio, at once: snapshots are handled in the order they are sent.
Reports(snapshot) ==
    /\ last' = snapshot
    /\ audio' = [volume |-> snapshot.volume, muted |-> snapshot.muted,
                 route |-> Route(snapshot, device, allowed)]
    /\ unseen' = TRUE

\* The read, of which only news is reported.
Read ==
    /\ reading /\ reading' = FALSE
    /\ \E s \in Streams \cup {Nothing} :
          /\ Finds(owner, s)
          /\ late' = (s # FindInput(owner))
          /\ IF Snapshot(s) # last THEN Reports(Snapshot(s)) ELSE UNCHANGED <<last, audio, unseen>>
    /\ UNCHANGED <<server, window, commands, attached, knowledge, requests, owner, dirty,
                   callback, spotify, wanted, acts>>

-----------------------------------------------------------------------------
(* The sound server, the players and Spotify. *)

\* The subscription's callback, some time after the change.
Callback ==
    /\ callback /\ callback' = FALSE /\ dirty' = TRUE
    /\ UNCHANGED <<server, window, unseen, commands, attached, audio, knowledge, requests,
                   owner, last, reading, spotify, history, bounds>>

\* A stream comes or goes, or another program sets it, louder than full perhaps.
Elsewhere ==
    /\ Acts
    /\ \E s \in Streams :
          \/ /\ present' = IF s \in present THEN present \ {s} ELSE present \cup {s}
             /\ UNCHANGED <<loudness, mute>>
          \/ /\ s \in present /\ UNCHANGED <<present, mute>>
             /\ \E v \in 0..(Full + 1) : loudness' = [loudness EXCEPT ![s] = v]
    /\ callback' = TRUE /\ wanted' = Nothing
    /\ UNCHANGED <<window, unseen, commands, attached, audio, knowledge, thread, spotify, late>>

\* A task reaches Spotify: a free account is refused, and the client remembers.
Remotely ==
    /\ tasks # <<>> /\ tasks' = Tail(tasks)
    /\ LET c == Head(tasks)
           write == c.kind \in {"set", "transfer"}
       IN  /\ refusal' = (refusal \/ (write /\ free))
           /\ remote' = IF c.kind = "set" /\ ~free THEN c.to ELSE remote
           /\ IF c.kind = "transfer" /\ ~free THEN playsOn' \in BOOLEAN ELSE playsOn' = playsOn
           \* request_devices sends the list, TransferTo an empty one.
           /\ answers' = IF c.kind = "set" THEN answers
                         ELSE Append(answers, [active |-> c.kind = "devices" /\ playsOn,
                                               refused |-> refusal'])
    /\ UNCHANGED <<server, window, unseen, commands, attached, audio, device, allowed,
                   thread, callback, free, history, bounds>>

Window == Drag \/ Rest \/ Click \/ RenderAudio
Engine == TakeCommand \/ HandleDevices \/ Attach \/ Detach
Worker == TakeRequest \/ Wake \/ Read
World == Callback \/ Elsewhere \/ Remotely

Next == Window \/ Engine \/ Worker \/ World

Spec == Init /\ [][Next]_vars

-----------------------------------------------------------------------------
(* Properties. *)

\* Nothing is on its way anywhere.
Quiet ==
    /\ commands = <<>> /\ requests = <<>> /\ tasks = <<>> /\ answers = <<>>
    /\ ~dirty /\ ~reading /\ ~callback /\ ~unseen /\ resting = Nothing

\* The stream the attached player really has, its first.
Theirs == {s \in present : Belongs[s] = attached}
TheirFirst == IF Theirs = {} THEN Nothing ELSE CHOOSE s \in Theirs : \A t \in Theirs : s <= t

\* What a stream says of itself tells whose it is.
LabelsAreTrue ==
    \A p \in Players, s \in Streams : Owns(Owner[p], Says[s]) <=> Belongs[s] = p

\* In the end the state carries the volume of the attached player's own stream,
\* whatever set it and whoever played before, unless the last read timed out.
VolumeSettles ==
    Quiet /\ attached # Nothing /\ ~late =>
        [volume |-> audio.volume, muted |-> audio.muted] = Snapshot(TheirFirst)

\* The last drag is what the stream, or the Connect device, is set to.
LastDragWins ==
    Quiet /\ timeouts = 0 /\ wanted # Nothing /\ TheirFirst # Nothing =>
        loudness[TheirFirst] = wanted \/ remote = wanted \/ free

\* Without a local stream a Connect device is what the slider controls, as long
\* as the account may.
RouteSettles ==
    Quiet /\ timeouts = 0 =>
        audio.route = Route(Snapshot(TheirFirst), device, allowed)
=============================================================================
