# A formal model of waytify

waytify shows and controls what a desktop's media players are playing. This
directory models the parts of it whose correctness depends on the order things
happen in: what its daemon, its engine and its window believe of one another
while clients come and go, players change, answers arrive late and connections
are lost. The modules are TLA+; TLC checks them on small instances, and TLAPS
proves the most important statements for every instance.

Paths below are relative to the repository. `DL` is
`crates/waytify-daemon/src/lib.rs` and `EN` is
`crates/waytify-core/src/engine.rs`.

## The system and its parts

| Part | State it keeps | What it does | How it meets the others | Module |
|---|---|---|---|---|
| Socket server (`DL`) | the `Watchers` counters, shared by every connection; per connection a scope, a watching flag, its receiver of states | accepts clients, answers their requests, pushes states and window actions | a bounded channel of messages to the engine, a watch channel of states from it, a broadcast channel of window actions | `Daemon`; taking the socket: `Lifecycle` |
| Engine loop and playback (`EN`) | attention, status, track, the position clock, two timers | follows one player's signals, fills gaps by reading it, publishes | D-Bus signals and reads, `EngineMsg`, the watch channel | `Playback` |
| Position clock (`waytify-core/src/clock.rs`) | anchor, playing, length | interpolates a position between observations | called by the engine | `PositionClock` |
| Engine state and requests (`EN`) | what is known of the track: liked, artwork, lyrics, queue, context and its contents; what can be done | spawns requests, applies their answers | spawned tasks, one Spotify client behind a lock, one channel of events | `Requests`, `AnswerShown` |
| Player choice (`EN`, `waytify-core/src/mpris.rs`) | the attached player and its watcher task | scans the bus when names change, chooses, attaches, detaches | the session bus; the channel of events | `Players` |
| Popup window and its socket client (`waytify-popup/src/window.rs`, `client.rs`, `drive` in `ui.rs`) | visible, announced, offline, two queues between its threads | shows and hides, reconnects, says again what a new daemon does not know | the socket; two unbounded queues | `PopupWindow` |
| Popup interface (`ui.rs`) | the scrubber, the strip of lyrics, what each list was last built from, two debounce timers | draws frames, runs a clock of its own, turns gestures into commands | frames and commands through the window | `LyricStrip`, `Panels`; the slider: `Volume` |
| Spotify client (`waytify-core/src/spotify/api.rs`) and authorization (`spotify/auth.rs`) | tokens, backoff, premium, missing scopes; the keyring | the Web API, renewing tokens; logging in and out from another process | the engine's tasks share it behind a lock; the keyring | `SpotifyClient` |
| Audio worker (`audio.rs`) | whose stream is followed, a dirty mark, the last report | volume and mute of the player's stream | a thread, two channels, the sound server's callback | `Volume` |
| Lyrics (`lyrics.rs`), artwork cache (`art.rs`) | files | look up, parse, extract colours | tasks spawned by the engine | `LyricsCache`, `ArtCache` |
| Bar client (`waytify-bar`), command line (`waytify`) | a backoff | starts the daemon, prints lines, sends one command | the socket, its path | `Lifecycle` |
| Protocol and state types (`waytify-ipc`) | none | the commands and frames | shared | in the others |
| Metadata, formatting, configuration, compositor query, mock player | - | parsing, text, a file, one external query, a test double | - | not modelled |

### What is hard in it

- **Interleaving.** Every connection is a task on a multi-threaded runtime; all
  of them change the same counters and send to the same channel. The engine is
  one task, but what it asks for is answered by others.
- **Ordering.** Two streams of a player's signals are merged by `select!`;
  requests race for one lock; a signal and an answer share one channel.
- **Stale state.** A value is read before an `await` or carried by a request,
  and used when the player, the window or the daemon is no longer the same.
- **Failure.** Any read or write of a socket may fail, the daemon may restart
  under a window or a bar, a signal may never come, a player may never answer,
  Spotify may refuse for four reasons, a file may be left half written.
- **Waiting on each other.** The engine waits for the client's lock; who has the
  lock may wait for the engine.
- **Timers.** The heartbeat and the reconciliation are branches of one
  `select!`, recreated each time round.

`PROJECT.json` lists each hazard at the line where it bites, with the properties
that would catch it, or why none does.

### What makes each part correct

- *Socket server*: the counters are what the connections registered, and never
  wrap; the engine's attention settles on what they say; each reply answers the
  oldest unanswered request; every request is answered; no state is swallowed;
  no second window; an acknowledged shutdown happens.
- *Playback*: what the engine believes settles on what the player does; the
  position stays within a tolerance; clients are not left with a frozen bar;
  what signals miss, reading finds.
- *Requests*: nothing is shown under a track it does not belong to, and once
  everything is answered what is shown is what the services say.
- *Popup window*: the daemon knows whether the window is on screen, across
  restarts, and the window says when what it shows is stale.
- *Player choice*: the engine follows a player that is there and allowed
  whenever there is one, and what it shows of it comes to be true.
- *Spotify client*: nobody calls before Spotify wants to be called, no call
  outlives its token, no refresh token is lost as long as its answer arrives and
  is stored, a login takes effect, nobody waits for ever.
- *Volume*: what is shown and what is set is the stream of the player attached.
- *Bar and start of the daemon*: one daemon at a time; the bar always comes back.
- *Popup interface*: rows, rights and notes are those of the last frame although
  as little as possible is rebuilt, and nothing moves under the user's hand.
- *Caches*: what is trusted on disk is whole, and a miss is not for ever.

## The modules

### Daemon (with MCDaemon, DaemonProofs)

The accept loop, `serve_client` on every path, the counters, window actions, the
timeout of a command, shutdown. One action makes at most one access to something
shared: `set_scope` is an increment, then a decrement, then three loads, then a
send, each a step of its own (`ReadLine`, `AddScope`, `SeeWatching`, `SeeBar`,
`SeeFull`, `PostAttention`), since the tasks can be preempted between them.
`task[c]` is the program point of a connection; `scope`, `watching`, `sight` and
`verdict` are its locals; `watchers` is the shared counters; `channel`, `busy`
and `attention` are the engine's side. Every `?` in the loop is `ReturnEarly`,
which forgets the connection without undoing its registration; the history
variable `lost` counts those. Clients connect, send, close and reset at will;
they do not wait for answers.

A player's command is just the fact that the engine is busy with it
(`TakeCommand`, `AnswerCommand`); its wait can time out at any moment, and its
answer may come after that. Taking the socket (`bind`) is in `Lifecycle`. Not
modelled: the pointer position window actions carry.

### PositionClock, Playback (with MCPlayback, PlaybackProofs)

`PositionClock` is the clock as pure operators on records, all of `clock.rs`.
`Playback` is the engine's loop around it: the two timers, the signals of one
attached player, the reads that a handler makes (two steps, during which time
passes and the player goes on), seeking, the changes of attention, publishing.
Time is discrete. `Deliver` is the merge of a player's two streams, properties
and seeks: each keeps its order, and either may overtake the other at most
`MaxOvertakes` times. `faults` counts missed signals and failed reads.

### Requests (with MCRequests, RequestsProofs), AnswerShown

The other half of the engine: which track is current, what is asked about it,
and what is done with the answers. A request goes through three steps: `Answer`
(a service replies; a request to Spotify needs the client), `Report` (the task
puts it in the channel of events, and most only then let go of the client), and
the handler. The player's own announcements go through the same channel. What is
shown is modelled by what it is *of*: `art` is the track of the picture,
`lyrics` the song, `queue` the track it follows, `contents` the context it
lists. `followed` restricts a behaviour to one group of requests: no handler
reads what another group's handlers write, so a behaviour with all of them is
one of these for each group. Assumed of the outside: the account has changed by
the time its player announces a change, and a player announces what it starts.

`AnswerShown` is what the window is promised of anything fetched for what plays:
there is a subject, it changes as it likes, and the answer that is shown is only
ever the answer to that subject. `Requests` implements it twice, with the song
and its lyrics (`LyricsAreAnswered`) and with the track and its picture
(`PictureIsAnswered`): the refinement mappings take `subject` and `answer` to
what the engine's variables say they are of.

### SpotifyClient (with MCSpotifyClient, SpotifyClientProofs)

The account. Tasks of six kinds (`Kinds`) ask for the one client (`waiting`),
and who has it (`caller`) checks the rate limit, renews the access token if it
is not fresh, calls, and sends what came back; two kinds keep the client until
their message is in the bounded channel `events`, as their guards live that long
in the code, and the others let go first (`telling`). A transfer tells of the
devices whatever became of it. The engine takes the lock itself, inside its loop,
when it adopts a stored token (`engine`, `loaded`). The user logs in and out in a
process of its own (`cli`, `keyring`), and the daemon may restart.

A refresh token is the n-th one issued for a login; issuing the next revokes it.
An exchange takes two steps: Spotify answers it (`Renew`), which is when the old
token is revoked and the access token's life begins, and the answer arrives
(`Refresh`, `Restore`) or is lost (`ExchangeFails`, `Restart`); in between it is
on its way (`granted`). Storing it (`SaveRenewed`) can fail, and nobody looks.
`missed` says who, of the keyring and the client, did not get the last token that
was issued. Refusals are for rate, for premium, for a scope, for a revoked token,
or no answer at all; the keyring may be unreadable. A behaviour follows one of
the `Slices`, a group of kinds of request, and `MCSpotifyClient` chooses groups
that together hold every kind: kinds of different groups meet only in the lock,
the limit and the tokens, which any one of them can hold, extend or renew.

### Players (with MCPlayers, PlayersProofs)

Players come, go, play and change tracks between any two round trips of a scan.
`Rescan`, `Look`, `Choose`, `Attach`, `ReadStatus` and `Refresh` are the steps
of `rescan`; `Apply` is `apply_properties`, which no longer knows whose the event
is; `Listen` is the moment a watcher's proxies are built, before which nothing
is heard; `Abort` loses what a dropped watcher has not sent. `Select` is
`select_player`, with its order of preferences.

### Volume (with MCVolume, WorkersProofs)

The slider of the window and its debounce, the engine's commands and its choice
of what the slider controls, the audio thread's loop, and the requests to
Spotify that go to a Connect device. `FindInput` is `find_input`: which stream
is the player's, by what it says of itself or by the ancestors of its process,
as deep as the code looks. The callback of the sound server comes some time
after the change and only marks `dirty`; the thread clears the mark before it
reads, and reports what differs from its last report.

### Lifecycle (with MCLifecycle, LifecycleProofs)

Who the socket's path leads to. `Look`, `Probe`, `Replace` and `Bind` are the
steps of `bind`, and `Exit` the end of `run`, which removes the file whoever's it
is by then. The bar (`run_bar`) and one-shot commands (`send`, `snapshot`) start
a daemon when nothing listens; daemons crash, fail to start after they bound, are
interrupted and told to stop. A connection lasts as long as its daemon. That a
stop is carried out is taken for granted here; `daemon_shutdown.cfg` shows when
it is not.

### LyricStrip, Panels (with MCUi, UiProofs)

`LyricStrip` is the window's own clock, the scrubber with its debounce, and the
strip of four rows with the slide: a step of one line slides the strip, anything
else rewrites it, and a slide runs only while the window is on screen. `LineAt`
is `line_at`. `Panels` is the lists: what each was last built from and what it
draws, which is more; and the search box with its tasks. `MCUi` runs the two
side by side, one per behaviour, since they share nothing but the frames.

### ArtCache, LyricsCache (with MCCaches, WorkersProofs)

`ArtCache` has files as inodes under names: opening a name for writing empties
the file it leads to, whoever else has it open, and a rename moves the name.
`LyricsCache` has the three requests in their order, and one file written in
place, by opening it, which empties it (`OpenEntry`), and writing (`WriteEntry`),
either of which may fail and is told as found all the same. Its content
(`ReadCache`) and its age (`CheckAge`) are read one after the other, as in
`read_cache`, and other lookups come in between. Either cache is followed on its
own; each lets any number of tasks be at the same file, as the engine does.

### PopupWindow (with UiProofs)

The window's thread, the socket thread and the daemon's end of the connection.
`updates` and `commands` are the queues between the threads; `toDaemon` and
`toWindow` are the wire. Losing the daemon (`DaemonDrops`) forgets what it knew;
the window hears of it only after the frames that were on the wire.

## What is checked

All runs say `CHECK_DEADLOCK FALSE`: the bounds on what clients, players, users
and faults do make every model stop, and the daemon itself may exit.

| Run | Shows | Instance |
|---|---|---|
| `daemon_counters` | `TypeOK`, `CounterLedger`, `NoSecondWindow`, `AnswersInOrder` | two clients, room for one message, three requests of every kind that registers, opens a window or waits |
| `daemon_serves` | `AttentionSettles`, `NoStateSwallowed`, `NewestStateShown`, `EveryRequestAnswered` with players that answer | one client at a time (its slot can be taken again), three requests, one new state, one started window, shutdown |
| `playback_tracks` | `StatusSettles`, `ClockTracksPlayer`, `NeverFrozen`, `MissedStartIsNoticed`, `ShownIsConsistent` | three events, one fault, one overtaking, a short track and a stream, five ticks |
| `requests_settle` | `TypeOK`, `QueueIsSpotifys`, `CanLikeIsTrue`, `AnswersSettle`, `LikedSettles`, and the refinements `LyricsAreAnswered`, `PictureIsAnswered` | two Spotify tracks and one of another player's with the same recording, two contexts, three changes, two actions of the window, one failure |
| `players_follow` | `FollowsOneThatIsThere`, `StatusComesRight` | Firefox, mpv, Spotify and the proxy playerctld; Spotify preferred, then mpv, and only these allowed; four acts of players |
| `spotify_account` | `TypeOK`, `WaitsAsTold`, `TokensOutliveCalls`, `RotationsAreKept`, `LoginTakesEffect` | two requests of a slice, one new login, one rotation of each login's token, one fault (a failed request, exchange, store or read of the keyring, a logout or a restart), three units of time, a channel for two |
| `volume_settles` | `VolumeSettles`, `LastDragWins` | a native player and a browser whose stream comes from a grandchild process, two streams, four acts, one read that times out |
| `lifecycle_recovers` | `OneAtATime`, `BarRecovers` | three processes, a bar, a `stop` and a `play`, two faults, a command that looks once more for what it started |
| `popup_reconnects` | `VisibleIsWatched`, `HiddenInOneSession`, `OfflineIsMarked`, `LeftOpenIsWatched` | two losses of the daemon, two window actions, any number of dismissals and states |
| `ui_current` | `StripIsRight`, `ThumbIsTheUsers`, `PanelIsCurrent` | two songs of three and two lines, five acts; every list, six frames |
| `caches_hold` | `ImageIsWhole`, `MissesExpire` | three fetches, two ends of the daemon, one failure; two lookups, a lifetime of two in five units of time, two ends or failures (of a request or a write) |
| `spotify_embrace` | a violation of `NeverEmbraced` | tasks that save a track, three requests, a login, a channel for two |

### Where the code does otherwise

The run `spotify_embrace` is listed among the runs; the configurations below are
run by hand in the same way. Each checks one property that a comment or a
document of the repository states and ends in a counterexample.
`PROJECT.json` quotes the statement under "findings".

| Configuration | Property | What happens |
|---|---|---|
| `spotify_embrace` | `NeverEmbraced` | A task keeps the client locked while it waits for room in the channel of events (`EN:595`); the engine, which alone makes room, waits for the client in its loop. Both wait for ever. |
| `daemon_leak` | `IdleWhenNobodyIsConnected` | A `?` in `serve_client` (`DL:234`) returns past the decrements. The engine keeps polling for a client that is gone. |
| `daemon_reordered` | `AttentionSettles` | Two clients read the counters and send what they read (`DL:407`); the older reading can be queued last, and stays. It needs two clients: with one, `daemon_serves` shows that attention settles. |
| `daemon_shutdown` | `ShutdownHeeded` | `notify_waiters` (`DL:214`) wakes nobody while `accept_loop` is between two waits; the acknowledged shutdown is lost. |
| `daemon_hung_player` | `EveryRequestAnswered` | With a player that never answers, only the wait for a verdict is bounded: once the channel is full the send into it (`DL:278`) waits for ever. |
| `playback_missed_stop` | `MissedStopIsNoticed` | While the engine believes something plays, the one-second heartbeat always completes before the 5 s or 30 s tick and starts it over (`EN:215`): nothing is ever reconciled, and a missed stop is never noticed. |
| `popup_left_watching` | `HiddenIsNotWatched` | `forget` (`window.rs:93`) leaves a queued `Watching` behind; the next daemon is told that a window is on screen which was hidden meanwhile. |
| `requests_contents` | `ContentsOfTheContext` | `ContextTracks` (`EN:490`) is the one answer applied without asking what it is an answer to: the contents of the last playlist are listed under the next. |
| `spotify_strikes` | `RefusalsDouble` | Serving out a limit clears it, and the next request takes the cleared limit for calm and resets the count (`api.rs:301`): every refusal is the first. |
| `volume_route` | `RouteSettles` | A list of devices changes the active one and not the route (`EN:550`), which only the next report of the audio thread computes; without a stream there may be none. |
| `lifecycle_race` | `OneDaemon` | Two daemons that start together both find the file stale, and the slower removes the fresh socket of the other (`DL:145`). |
| `lifecycle_upgrade` | `BarRecovers` | With a daemon of another version the bar connects, is refused, and connects again four times a second for as long as that daemon runs (`waytify-bar/src/lib.rs:156`). |
| `players_audible` | `AudibleIsFollowed` | A player is chosen when names change, not when one starts to play (`EN:224`): the paused one stays followed while another is heard. |
| `players_stale` | `TrackComesRight` | An event of the former player in the channel is applied to the new one, and a change before the new watcher listens is not heard (`EN:1376`); the tick reads the status again, not the track. |
| `ui_blank` | `PublishedIsDrawn` | A list that becomes empty and then what it was is not drawn again (`ui.rs:218`). |
| `caches_torn` | `InterruptedLeavesNoImage` | Two fetches write the same `.part` file (`art.rs:99`); one renames it while the other has it emptied, and the end of the daemon leaves that under the trusted name. |

With the instance of `ui_current` in place of its invariants, these fail too:
`PopoversAreCurrent` (popovers are rebuilt when their list changes, not when
what else they draw does, `ui.rs:1434`), `EmptyBoxSaysNothing` (`ui.rs:1074`),
`NoLateResults` (`EN:740`), `OpenHasAsked` (`ui.rs:618`), `StripFollows` (a step
in the middle of a slide leaves the rows a line behind, `ui.rs:1251`) and
`SeeksTheSongDragged` (`ui.rs:814`). With the instance of `caches_hold`,
`MissesAreAnswers` fails: a search that lrclib answers with an error is cached as
a miss (`lyrics.rs:209`); and so does `MissesExpireAnyway`, which is
`MissesExpire` without its exclusion: a lookup that has read an expired miss looks
at the age of the file (`lyrics.rs:131`) after another one has emptied or written
it, and tells the miss as fresh. With the instance of `spotify_account`,
`StoredTokenWorks` fails: the result of storing a rotated token is dropped
(`api.rs:278`), `restore` does not store the one it gets (`api.rs:260`), and the
daemon can end between Spotify's answer and the keyring; each leaves a token in
the keyring that Spotify has revoked.

Things met while modelling that follow from the above or have no property of
their own:

- after a leaked `Full` registration window actions are broadcast to nobody
  (`DL:329`); the device list is not polled while something plays, for the reason
  `playback_missed_stop` shows (`EN:246`); `README.md:438` says that a paused
  player is never polled, `clock.rs:53` polls it every 30 s, as
  `docs/ARCHITECTURE.md:112` says; the first frame after nobody was connected
  carries the position of the last publication (`EN:264`);
- a `Seeked` of the last track that is overtaken by the change of track leaves
  the new track at the old position until the next read (`EN:1395`), which is why
  `ClockTracksPlayer` is stated for behaviours without overtaking; `SeekBy` has
  no bound at the end of the track (`EN:1149`);
- a saved track that is looked up while it is being saved can be shown as not
  saved (`EN:620`), which is what `crossed` in `LikedSettles` excludes; detaching
  does not recompute what can be done (`EN:378`), so `CanLikeIsTrue` is stated
  while a player is attached; attaching to a player that names no track keeps the
  lyrics of the last one (`EN:409`);
- a player that has gone before a scan asks it is not skipped, as the comment
  says, but counts as a stopped one (`EN:302`); `FollowsOneThatIsThere` holds in
  spite of it, because its leaving makes for another scan;
- the wait is capped at 300 s even if Spotify asks for more, so `told` is what it
  said as far as the cap allows; adopting a stored token renews it, and a
  rotation at that moment is not stored, nor is one whose answer is lost, whose
  write fails or before which the daemon ends. `missed` says so, and
  `RotationsAreKept` leaves out what has missed a token until it gets one: the
  keyring in all four cases, the client where the answer is lost. A rotation can
  be stored over the token of a login that was just made, or after a logout, a
  refusal of the old token that was on its way can be taken for one of the new,
  and a token the restore got is not stored; `LoginTakesEffect` excludes the three
  (`crossed`), and the failures (`faults`). A 403 for want of premium
  reaches the engine with the next list of devices only, one for want of a scope
  on a save not at all;
- a read of the sound server that times out counts as no stream until the next
  event (`audio.rs:381`), which `late` in `VolumeSettles` excludes; a drag that is
  undone before it was sent is not reported;
- colours are missing for a fetch that reads an image while it is torn; an older
  miss can be written over a newer hit, which `MissesExpire` allows for its
  lifetime, and a miss can be judged by the age of what was written over it, which
  `overtaken` excludes.

### Bounds, and why they are enough

Every bound is a CONSTANT named `Max...` (and `Tries`) and is mentioned only in
guards. In `Daemon` the hazards are races of two connections over one counter,
and each takes one or two requests of each; capacities of one make "full" a
common state. In `Playback` a fault, an overtaking and a handler in progress can
all coincide with a third event; the timers are scaled (1, 2 and 2 ticks for 1 s,
5 s and 30 s), keeping their order, which is all the guards look at. In
`Requests` three changes let a player leave a track and come back to it with the
requests of both visits in flight. In `PopupWindow` two losses let what was left
of one session meet the next but one. In `Players` four acts let two players
arrive and one of them leave and come back during a scan. In `SpotifyClient` two
requests are one that is refused and one behind it in the lock; three units of
time pass the lifetime of a token, the longest wait and the time an exchange and
a call take, which together are the margin. In `Volume` four acts are two drags
with a change of the stream and of the player between. In `Lifecycle` three
processes let one leave, one take its place and one start meanwhile. In the
interface five acts cross a slide with a change of song, a hide and a seek. In
the caches three fetches let one rename while one writes and one reads. The
theorems say the same of every value of these bounds where they are proved. The
violations need fewer.

### Fairness

- `Daemon`: a task that can run does (`WF` on `Serve`). `select!` polls its
  branches in random order and the engine's channel serves waiting senders in
  order, so a branch or a send that is enabled again and again is taken (`SF` on
  the read branch, the state branch, the action branch and the engine sends).
  The engine takes messages as long as it is not stuck in a call. That a player
  answers is a separate assumption (`FairSpec` against `HungPlayerSpec`).
  Nothing is assumed of clients: they may stop at any point.
- `PopupWindow`: both threads go on, and `select!` in the socket thread passes
  over neither side (`SF`). The daemon may be lost at most `MaxDrops` times;
  nothing forces it to be, or the user to act.
- `Players`: the engine's loop goes on and its timers run out (`WF` on `Engine`
  and `Tick`); `select!` passes over neither a change of names nor an event for
  ever (`SF` on `Rescan` and `Apply`); a watcher's task gets to run. The tick is
  enabled only while nothing is thought to play, because of what
  `playback_missed_stop` shows. Nothing is assumed of players.
- `Lifecycle`: each daemon, the bar and each command that has connected or is
  trying go on (`WF`): they are processes whose sleeps end. Nobody need type a
  command, and no daemon need fail.
- `Playback` has no liveness under fairness: its time-bounded statements are
  invariants over discrete time, because time does not pass while something is
  due (`Tick`).
- `Requests`, `SpotifyClient` and `Volume` state what holds when everything has
  been handled, not that it will be: whether a service answers is not up to the
  program. The interface and the caches state safety only.

## What is proved

`DaemonProofs` proves for any number of clients, any requests and any capacity:

- `TypeAlways`: every variable keeps its type, and no counter is negative, so
  that `fetch_sub` never wraps;
- `LedgerAlways`: every counter is the number of connections registered under it
  plus the registrations early returns dropped;
- `NoSecondWindowAlways`: a window is started only on finding none connected.

From `DaemonAssumption`: the clients are a finite set, capacities are positive.
The inductive invariant is `Typed /\ Phases /\ CounterLedger`. `CounterLedger`
alone is not inductive: a decrement is right only because of where the task is.
`Phases` says what each program point implies about the locals, such as that a
task about to decrement has a registration to give back. The proof has one step
per action; the counting is in `CountChange`, which says how one connection's
coming or going changes the cardinality of the holders. On top of it:

- `NoStateSwallowedAlways`: whatever a receiver has marked seen has been written
  to the client, or is what its task is on the way to write (`StatesCaught`);
- `AnswersInOrderAlways`, for every step: the requests of a connection wait in the
  order they were sent behind the one its task is busy with (`TicketsQueued`), and
  a verdict its task has or waits for is the one on that request and not on one
  given up earlier (`VerdictIsOnThis`);
- `OneConnectionSettles`: with one connection at a time, `AttentionSettles`. The
  last attention in the channel is what the counters say, or the task is between
  changing a counter and telling the engine, and what it has looked at on the way
  is still so (`Reported`). With two, somebody else changes the counters in
  between, and `daemon_reordered` shows the statement fail.

`PlaybackProofs` proves for every clock and instant: operations yield clocks
(`ClocksStayClocks`); positions are never negative nor past the end
(`PositionWithinTrack`); between observations the position neither goes back nor
runs faster than time (`PositionFollowsTime`); starting, stopping or holding does
not move it (`NoJumpWithoutObservation`). Then, for any intervals, lengths, delays
and numbers of faults and overtakings, all that `playback_tracks` checks, from
`PlaybackAssumption`: the intervals are positive. The first invariant is `Timely`:
the clock is in time and agrees with the status, no signal and no handler is older
than it may be, and while somebody is connected the timer that ends the wait runs
from the last frame or the last thing heard (`Deadlines`). `NeverFrozenAlways`,
`MissedStartIsNoticedAlways` and `ShownIsConsistentAlways` follow from it. For
`StatusSettlesAlways` the last announcement of each kind that is under way is how
the player is, and the engine knows when there is none (`LastWordIsTrue`).
`ClockTracksPlayerAlways` needs `Near` besides: the clock is near the player, or a
signal is under way, and one that says where the player was is not off by more
than the time since. That a clock and a player that run side by side stay as near
as they were, although each stops at the end of the track, is `RunsAlong`.

`RequestsProofs` proves, for any tracks, recordings, contexts and bounds, that
every variable keeps its type (`TypeAlways`), that a queue, a picture, lyrics
and the offer of liking always belong to the track they are shown under
(`QueueIsSpotifysAlways`, `ArtIsOfTheTrackAlways`, `LyricsAreOfTheSongAlways`,
`CanLikeIsTrueAlways`), and that the engine implements `AnswerShown` with its
lyrics and with its picture (`LyricsImplement`, `PictureImplements`), from
`RequestsAssumption`: Spotify's tracks are tracks, every track names a recording,
and `None` is none of them. The inductive invariant is
`TypeOK /\ Carried /\ Fits`. The handlers keep `Fits` only because an event is
about what it says it is about, which is `Carried`: every request in flight and
every event in the channel carries what it was asked for, and its answer answers
that. The lemma `RefreshedIInv` is shared by the three ways a track is replaced
(attaching, a rescan, an announcement). The refinements map every step to a turn
of the subject, to an answer, or to a stutter.

`AnswersSettleAlways` and `LikedSettlesAlways` say that what is shown is also
complete. Their invariant `NothingForgotten` has one part for each thing that is
asked for: it is shown, or somebody is being asked, or the answer is in the
channel. For what can be asked for again while an answer is under way (the queue,
the context, whether the track is saved) it says that the last answer is the true
one, which holds because the client is kept until the answer is in the channel. A
read of whether a track is saved does not keep it, so it has to be apart from
every save (`LikesApart`); where it is not, `crossed` says so.

`SpotifyClientProofs` proves, for any waits, floors, lifetimes, margins, slices,
capacity and bounds, all the invariants `spotify_account` checks. It rests on
`ClientAssumption`, of which the last is what the constants in the code are for:
an exchange and a call take no longer than the margin before the end of a token
(20 s and 15 s of 60 s), and a token lives longer than the margin. The first
part's invariant is
`TypeOK /\ CallFits /\ LimitKept /\ GrantFits /\ CallTimed /\ RotationsAreKept`:
whoever passed the check of the limit still has the client, so that nobody can be
told of another wait until the request is out (`LimitKept`); the token a call was
found fresh for outlives it, though the client takes a token to live longer than
Spotify by the time its answer took (`CallTimed`); and what is on its way from
Spotify follows the token that was exchanged and is the one accepted, as long as
whoever exchanged it has the client (`GrantFits`). `RotationsAreKeptAlways` rests
on the last: when the answer arrives it takes the place of what it revoked, and
where it is lost or not stored, `missed` says who still has that.
`LoginTakesEffectAlways` needs where a login is at any time, between the keyring
and the client (`LoginFollowed`), what the offers say meanwhile (`OffersFollow`),
that the engine calls for what it loaded (`AdoptFits`), and that nobody misses a
token without a fault or a renewal by the restore (`MissedFits`).

`LifecycleProofs` proves for any processes, commands and faults that variables
keep their types, and `OneAtATimeAlways`. `OneAtATime` is not inductive: its
strengthening `PathKept` says that nothing listens while a daemon is about to
remove the file or to bind, which is what looking and connecting established and
what only another daemon that starts or stops at the time could undo.

`UiProofs` proves for any songs, lyrics and bounds `StripIsRightAlways` and
`ThumbIsTheUsersAlways` of `StripSpec`, and `PanelIsCurrentAlways` of
`PanelsSpec`. The rows are right after a slide because the lower three of one
line are the upper three of the next (`RowsComeRound`), and a list that was not
rebuilt is right because of what it remembers (`Remembered`).

Of `PopupWindow` it proves, for any number of losses of the daemon and of actions,
`VisibleIsWatchedAlways`, `HiddenInOneSessionAlways` and `OfflineIsMarkedAlways`.
The invariant says of each queue what will be so when it has been handled to its
end (`Ends`): what the window believes it has announced is what the daemon will
have read last, unless the news of a loss is still to come (`AnnouncedIsTold`);
and a window that is connected has announced what is the case and is not marked
as stale, or a state is on the wire or asked for that makes it so
(`ShownIsAnnounced`, `StateClearsMark`).

`PlayersProofs` proves for any names, preferences and restriction that the choice
is the best there is (`SelectIsBest`: allowed, better than every other candidate,
and playing if one of them plays), that variables keep their types, and
`FollowsOneThatIsThereAlways` and `OneWatcherAlways`. That a best candidate exists
follows from the least number principle, applied first to the rank of a name and
then to its place in the order of names, from `PlayersAssumption`: that order is
injective. `NothingMissed` is what makes a scan right although players come
and go during it: with no change of a name to be heard, the names still to be
asked and those that have answered are those on the bus, and the one chosen is
eligible. A change of anything else leaves that as it is (`ComingsAreHeard`).

`WorkersProofs` proves for any lookups, fetches and bounds `MissesExpireAlways`
of `LyricsSpec` and `ImageIsWholeAlways` of `ArtSpec`. A miss that is written was
asked for before the lyrics were there (`AskedAfter`), since a task that asks
later comes to the request that finds them; and a lookup that is about to look at
the age of a miss finds the file it read, or is known to have been overtaken
(`ReadUnchanged`). An image that is not whole is still being written, if nothing
interrupted it (`BeingWritten`); and while no two fetches met, the one that
writes has the file the `.part` name leads to, and no file has both names
(`Alone`, `Apart`). That there is always a new file to open is the pigeonhole
principle (`OpenedDoes`).

Of `Volume` it proves, for any players, streams and bounds, `FoundIsShown`: when
all is quiet, and the last read did not time out, the volume shown is that of the
stream `find_input` finds for the player attached. The state shows the last report
(`ReportShown`); the audio thread watches for the attached player or a request
that makes it do so is the last of its queue (`WatchesForTheirs`); and the last
report is how the stream is, unless the thread is told or about to read it
(`ReportIsTrue`). That the stream found is the player's own is not up to the code
alone: `VolumeSettlesAlways` and `LastDragWinsAlways` suppose `LabelsAreTrue`, that
what a stream says of itself, or its process, tells whose it is. TLC evaluates it
on the streams of `MCVolume`, of which one is recognised by what it says and one by
its ancestors. For the drag, the value that was last dragged to is still to
be sent, or the last word of the queue it has reached, or done (`OnItsWay`).

Only model-checked: what is temporal, which is out of the prover's reach, as are
fairness and ENABLED (`NewestStateShown`, `EveryRequestAnswered`,
`StatusComesRight`, `LeftOpenIsWatched`, `BarRecovers`). Every invariant and every
property of steps that a passing run checks is proved, `AttentionSettles` for one
connection, as it is not true of more. What a recursive definition computes is
only checked where a run meets it: of the walk of `find_input` up a process's
ancestors the proofs use only that it decides whose a stream is.

## What is not modelled, and why

- Metadata, text templates, configuration and arguments are parsing and wording,
  without state of their own; so is the parsing of lyrics and of Spotify's
  answers, and the extraction of colours.
- The layout and styling of the window, and the compositor query, are input and
  output.
- The exchange of codes with the browser in a login happens once, in a process of
  its own; only its result matters. The protocol of the sound server is external.
- The cache of the names of contexts (`api.rs:715`) only saves requests.
- Commands that only forward a call to the player (next, previous, shuffle, loop)
  are the fact that the engine is busy, in `Daemon`.
- The start of the window's process is not composed with `Daemon`: a second
  toggle before the first window has subscribed starts another (`DL:344`).
- The mock player is a test double.

## What could be added

1. `Daemon` and `PopupWindow` composed, with the start of the window's process,
   and one value shared by engine and window as their abstract specification.
2. An abstract specification of the volume and of the position, as one value that
   two sides write and both come to agree on, implemented by `Volume` and
   `Playback`.
3. `Playback` under the choice of players in `Players`, so that positions are
   followed across a change of player.

## Running it

In this directory, `tlc -config <run>.cfg <module>` for a run of `PROJECT.json`
or for a configuration of the table above (`daemon_*` with `MCDaemon`,
`playback_*` with `MCPlayback`, `requests_*` with `MCRequests`, `players_*` with
`MCPlayers`, `spotify_*` with `MCSpotifyClient`, `volume_*` with `MCVolume`,
`lifecycle_*` with `MCLifecycle`, `popup_*` with `PopupWindow`, `ui_*` with
`MCUi`, `caches_*` with `MCCaches`), and `tlapm <module>.tla` for each module
whose name ends in `Proofs`. `PROJECT.json` also maps every definition to the
lines it models, and names for each property a mistake in the code (the operators
preceded by "A mistake") under which that property fails.
