------------------------------- MODULE Players -------------------------------
(***************************************************************************)
(* Which player the engine follows.  MPRIS players come and go on the      *)
(* session bus; each change of a player's name makes the engine scan the   *)
(* bus again (rescan), ask every player what it is doing, and attach to    *)
(* the best one.  A watcher task per attached player forwards its          *)
(* announcements into the engine's events channel, where an event no       *)
(* longer says whose it is.                                                *)
(*                                                                         *)
(* A scan is many round trips, so players act between any two of its       *)
(* steps.  Positions are the subject of Playback, which starts where this  *)
(* module's Refresh ends.                                                  *)
(***************************************************************************)
EXTENDS Naturals, Sequences, FiniteSets, SequencesExt

CONSTANTS
    NameOrder,  \* the bus names of the MPRIS prefix, in the order they compare
    ShortOf,    \* their short names: org.mpris.MediaPlayer2.<short>.<instance>
    Ignored,    \* the short names that are not players: playerctld
    Preferred,  \* the configured preference, best first: names or short names
    Only,       \* the configured restriction, empty for none
    MaxActs     \* how much the players do

Names == {NameOrder[i] : i \in DOMAIN NameOrder}
Statuses == {"Playing", "Paused", "Stopped"}
Tracks == {"t1", "t2"}
NoName == "none"
NoTrack == "no track"
Unsaid == "unsaid"

ASSUME PlayersAssumption ==
    /\ NameOrder \in Seq(STRING) /\ IsInjective(NameOrder) /\ NoName \notin Names
    /\ Preferred \in Seq(STRING)
    /\ Names \subseteq DOMAIN ShortOf
    /\ MaxActs \in Nat

VARIABLES
    bus,       \* each name: whether it has an owner, and that player's state
    renamed,   \* the name changes the engine has not taken from its stream
    watchers,  \* each name: "none", "starting", or "listening"
    events,    \* the engine's events channel
    mode,      \* where the loop is: in select!, or between two round trips
    unlooked,  \* the names a scan has listed and not asked
    looked,    \* the statuses it has been told
    picked,    \* the name it is about to follow
    read,      \* the status a refresh has read
    attached,  \* the name the engine follows
    shown,     \* state.player, as published
    acts

scan == <<unlooked, looked, picked, read>>
vars == <<bus, renamed, watchers, events, mode, scan, attached, shown, acts>>

NoPlayer == [of |-> NoName, status |-> "Stopped", track |-> NoTrack]
NoRead == "not read"

Init ==
    /\ bus = [n \in Names |-> [there |-> FALSE, status |-> "Stopped", track |-> NoTrack]]
    /\ renamed = 0 /\ events = <<>>
    /\ watchers = [n \in Names |-> "none"]
    /\ mode = "select"
    /\ unlooked = {} /\ looked = <<>> /\ picked = NoName /\ read = NoRead
    /\ attached = NoName /\ shown = NoPlayer
    /\ acts = 0

-----------------------------------------------------------------------------
(* The choice. *)

IsPlayerName(n) == ShortOf[n] \notin Ignored
Matches(n, entry) == entry \in {n, ShortOf[n]}
NamesMatch(n, list) == \E entry \in list : Matches(n, entry)

Allowed(n) == Only = {} \/ NamesMatch(n, Only)

\* Playing outweighs any preference; an earlier entry outweighs a later one,
\* and any entry outweighs none.
Rank(n, status) ==
    LET entries == {i \in DOMAIN Preferred : Matches(n, Preferred[i])}
        first == CHOOSE i \in entries : \A j \in entries : i <= j
        preference == IF entries = {} THEN 0 ELSE Len(Preferred) + 1 - first
    IN  preference + IF status = "Playing" THEN Len(Preferred) + 1 ELSE 0

Place(n) == CHOOSE i \in DOMAIN NameOrder : NameOrder[i] = n

\* The best of the candidates, the first name among equals.
Select(candidates) ==
    LET allowed == {n \in DOMAIN candidates : Allowed(n)}
        Beats(a, b) == LET ra == Rank(a, candidates[a])
                           rb == Rank(b, candidates[b])
                       IN  ra > rb \/ (ra = rb /\ Place(a) < Place(b))
    IN  IF allowed = {} THEN NoName
        ELSE CHOOSE a \in allowed : \A b \in allowed \ {a} : Beats(a, b)

-----------------------------------------------------------------------------
(* The players and the bus, which are not part of the program. *)

Act == acts < MaxActs /\ acts' = acts + 1

\* The bus tells the engine, which heeds only the names of players.
Tell(n) == renamed' = IF IsPlayerName(n) THEN renamed + 1 ELSE renamed

\* A watcher that is listening forwards what its player announces.
Announce(n, event) ==
    events' = IF watchers[n] = "listening" THEN Append(events, event) ELSE events

Arrive(n) ==
    /\ ~bus[n].there /\ Act /\ Tell(n)
    /\ \E status \in Statuses, track \in Tracks :
          bus' = [bus EXCEPT ![n] = [there |-> TRUE, status |-> status, track |-> track]]
    /\ UNCHANGED <<watchers, events, mode, scan, attached, shown>>

Leave(n) ==
    /\ bus[n].there /\ Act /\ Tell(n)
    /\ bus' = [bus EXCEPT ![n] = [there |-> FALSE, status |-> "Stopped", track |-> NoTrack]]
    /\ UNCHANGED <<watchers, events, mode, scan, attached, shown>>

PlayPause(n) ==
    /\ bus[n].there /\ Act
    /\ \E status \in Statuses \ {bus[n].status} :
          /\ bus' = [bus EXCEPT ![n].status = status]
          /\ Announce(n, [status |-> status, track |-> Unsaid])
    /\ UNCHANGED <<renamed, watchers, mode, scan, attached, shown>>

ChangeTrack(n) ==
    /\ bus[n].there /\ Act
    /\ \E track \in Tracks \ {bus[n].track} :
          /\ bus' = [bus EXCEPT ![n].track = track]
          /\ Announce(n, [status |-> Unsaid, track |-> track])
    /\ UNCHANGED <<renamed, watchers, mode, scan, attached, shown>>

\* watch_player has built its proxies: what was announced before is not heard.
Listen(n) ==
    /\ watchers[n] = "starting"
    /\ watchers' = [watchers EXCEPT ![n] = "listening"]
    /\ UNCHANGED <<bus, renamed, events, mode, scan, attached, shown, acts>>

-----------------------------------------------------------------------------
(* The engine's loop. *)

\* A mistake: the changes of names heard during a scan count as seen by it.
RescannedAll ==
    /\ mode' = "select" /\ renamed' = 0
    /\ unlooked' = {} /\ looked' = <<>> /\ picked' = NoName /\ read' = NoRead

Rescanned ==
    /\ mode' = "select" /\ UNCHANGED renamed
    /\ unlooked' = {} /\ looked' = <<>> /\ picked' = NoName /\ read' = NoRead

\* A name changed: list the players.
Rescan ==
    /\ mode = "select" /\ renamed > 0
    /\ renamed' = renamed - 1
    /\ mode' = "look"
    /\ unlooked' = {n \in Names : bus[n].there /\ IsPlayerName(n)}
    /\ UNCHANGED <<bus, watchers, events, looked, picked, read, attached, shown, acts>>

\* Ask one what it is doing.  A player that has gone since cannot answer, and
\* unwrap_or_default makes it a stopped candidate, not a skipped one.
Look ==
    /\ mode = "look"
    /\ \E n \in unlooked :
          /\ unlooked' = unlooked \ {n}
          /\ looked' = [m \in DOMAIN looked \cup {n} |->
                           IF m = n THEN bus[n].status ELSE looked[m]]
    /\ UNCHANGED <<bus, renamed, watchers, events, mode, picked, read, attached, shown, acts>>

\* Dropping an Attached aborts its watcher: what the task has not yet put into
\* the channel is lost, and what it has stays.
Abort(n) ==
    \E kept \in 0..Len(events) :
       /\ kept < Len(events) => watchers[n] = "listening"
       /\ events' = SubSeq(events, 1, kept)

Detach ==
    /\ IF attached = NoName
       THEN UNCHANGED <<watchers, events>>
       ELSE watchers' = [watchers EXCEPT ![attached] = "none"] /\ Abort(attached)
    /\ attached' = NoName /\ shown' = NoPlayer

\* Everyone has answered: nobody to follow, the same player, or another one,
\* whose watcher is spawned while the former player's still runs.
Choose ==
    /\ mode = "look" /\ unlooked = {}
    /\ LET chosen == Select(looked)
       IN  \/ /\ chosen = NoName
              /\ Detach /\ Rescanned
           \/ /\ chosen # NoName /\ chosen = attached
              /\ mode' = "refresh"
              /\ UNCHANGED <<renamed, watchers, events, scan, attached, shown>>
           \/ /\ chosen \notin {NoName, attached}
              /\ mode' = "attach" /\ picked' = chosen
              /\ watchers' = [watchers EXCEPT ![chosen] = "starting"]
              /\ UNCHANGED <<renamed, events, unlooked, looked, read, attached, shown>>
    /\ UNCHANGED <<bus, acts>>

\* The process id has been asked for: the new player takes the former one's
\* place, stopped and without a track until it has been read.
Attach ==
    /\ mode = "attach" /\ mode' = "refresh"
    /\ attached' = picked
    /\ shown' = [NoPlayer EXCEPT !.of = picked]
    /\ IF attached = NoName
       THEN UNCHANGED <<watchers, events>>
       ELSE watchers' = [watchers EXCEPT ![attached] = "none"] /\ Abort(attached)
    /\ UNCHANGED <<bus, renamed, scan, acts>>

\* refresh asks for the status, then for the metadata; both fail on a player
\* that has gone.
ReadStatus ==
    /\ mode = "refresh" /\ mode' = "metadata"
    /\ read' = bus[attached].status
    /\ UNCHANGED <<bus, renamed, watchers, events, unlooked, looked, picked,
                   attached, shown, acts>>

Refresh ==
    /\ mode = "metadata"
    /\ shown' = [of |-> attached, status |-> read, track |-> bus[attached].track]
    /\ Rescanned
    /\ UNCHANGED <<bus, watchers, events, attached, acts>>

\* apply_properties: what the event says is the attached player's.  When it
\* does not give the status, the player is asked.
Apply ==
    /\ mode = "select" /\ events # <<>>
    /\ events' = Tail(events)
    /\ LET e == Head(events)
       IN  /\ shown' = IF shown.of = NoName THEN shown
                       ELSE [shown EXCEPT !.status = IF e.status = Unsaid THEN @ ELSE e.status,
                                          !.track = IF e.track = Unsaid THEN @ ELSE e.track]
           /\ mode' = IF e.status = Unsaid /\ attached # NoName THEN "correct" ELSE mode
    /\ UNCHANGED <<bus, renamed, watchers, scan, attached, acts>>

\* A mistake: a stopped player is left alone.
TickWhilePaused ==
    /\ mode = "select" /\ attached # NoName /\ shown.status = "Paused"
    /\ mode' = "correct"
    /\ UNCHANGED <<bus, renamed, watchers, events, scan, attached, shown, acts>>

\* Nothing has been heard for the poll interval, and somebody is connected.  While
\* something is thought to play the republishing, once a second, is faster each
\* time round, and starts this timer over.
Tick ==
    /\ mode = "select" /\ attached # NoName /\ shown.status # "Playing"
    /\ mode' = "correct"
    /\ UNCHANGED <<bus, renamed, watchers, events, scan, attached, shown, acts>>

\* refresh_status: an answer replaces what is shown, no answer leaves it.
RefreshStatus ==
    /\ mode = "correct" /\ mode' = "select"
    /\ shown' = IF bus[attached].there
                THEN [shown EXCEPT !.status = bus[attached].status] ELSE shown
    /\ UNCHANGED <<bus, renamed, watchers, events, scan, attached, acts>>

Engine == Rescan \/ Look \/ Choose \/ Attach \/ ReadStatus \/ Refresh
              \/ Apply \/ RefreshStatus

Next ==
    \/ \E n \in Names : Arrive(n) \/ Leave(n) \/ PlayPause(n) \/ ChangeTrack(n) \/ Listen(n)
    \/ Engine \/ Tick

\* The loop goes on; select! picks at random among the branches that are ready,
\* so none is passed over for ever; and the timers of the tick run out.
Fairness ==
    /\ WF_vars(Engine) /\ WF_vars(Tick)
    /\ SF_vars(Rescan) /\ SF_vars(Apply)
    /\ \A n \in Names : WF_vars(Listen(n))

Spec == Init /\ [][Next]_vars /\ Fairness

-----------------------------------------------------------------------------
(* Properties. *)

\* Every variable has its type.
TypeOK ==
    /\ bus \in [Names -> [there : BOOLEAN, status : Statuses, track : Tracks \cup {NoTrack}]]
    /\ renamed \in Nat /\ acts \in 0..MaxActs
    /\ watchers \in [Names -> {"none", "starting", "listening"}]
    /\ events \in Seq([status : Statuses \cup {Unsaid}, track : Tracks \cup {Unsaid}])
    /\ mode \in {"select", "look", "attach", "refresh", "metadata", "correct"}
    /\ unlooked \subseteq Names
    /\ DOMAIN looked \subseteq Names
    /\ picked \in Names \cup {NoName} /\ attached \in Names \cup {NoName}
    /\ read \in Statuses \cup {NoRead}
    /\ shown \in [of : Names \cup {NoName}, status : Statuses,
                  track : Tracks \cup {NoTrack}]

Eligible == {n \in Names : bus[n].there /\ IsPlayerName(n) /\ Allowed(n)}

\* Once the loop has served every change of a name, it follows a player that is
\* on the bus and that the configuration allows, and follows none only when there
\* is none: whatever came and went between the round trips of a scan.
FollowsOneThatIsThere ==
    mode = "select" /\ renamed = 0 =>
        IF Eligible = {} THEN attached = NoName ELSE attached \in Eligible

\* Exactly the followed player, and one about to be, has a watcher: none is left
\* running behind, and the followed one is never left without.
OneWatcher ==
    \A n \in Names : watchers[n] # "none" <=> n = attached \/ (mode = "attach" /\ n = picked)

\* What is shown as the playback state ends up the followed player's own, though
\* the watcher starts late and the former player's events arrive after it; but for
\* a player that is wrongly thought to play, which nothing reads again.
StatusComesRight ==
    <>[](attached # NoName /\ bus[attached].there =>
            shown.status \in {bus[attached].status, "Playing"})

\* watch_player "Lives for exactly as long as that player is the attached one":
\* so the track shown ends up the followed player's own.  It does not.
TrackComesRight ==
    <>[](attached # NoName /\ bus[attached].there => shown.track = bus[attached].track)

\* "something actually playing always wins, so the bar never disagrees with the
\* speakers": when one allowed player goes on playing alone, it is followed.
\* It is not: a player is chosen when names change, not when statuses do.
AudibleIsFollowed ==
    \A n \in Names :
       (/\ renamed = 0 /\ mode = "select" /\ events = <<>> /\ acts = MaxActs
        /\ n \in Eligible
        /\ \A m \in Eligible : (bus[m].status = "Playing") <=> (m = n))
       ~> (attached = n)

=============================================================================
