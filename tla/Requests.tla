------------------------------ MODULE Requests ------------------------------
(***************************************************************************)
(* What the engine says about the current track, and the requests it makes *)
(* to find it out (waytify-core/src/engine.rs: attach, detach, refresh,    *)
(* apply_properties, the request_* methods and handle_player_event).       *)
(*                                                                         *)
(* A request is a spawned task.  Those to Spotify share one client behind  *)
(* a lock, and all but the read of whether a track is saved keep it until  *)
(* their answer is in the engine's channel of events, which is also where  *)
(* the attached player's signals arrive.  Between the asking, the answer   *)
(* and the handling of it the player goes on, the engine may attach to     *)
(* another player, and the window may close.                               *)
(*                                                                         *)
(* A handler is one step: while it awaits the player nothing else writes   *)
(* the engine's state.  An account is connected, it plays what the Spotify *)
(* player last started, and what a player starts it announces.  The room   *)
(* in the channel of events is not bounded here.                           *)
(***************************************************************************)
EXTENDS Naturals, Sequences, Bags

CONSTANTS
    Tracks,          \* what players play
    SpotifyTracks,   \* the ones with a Spotify catalogue id
    Song,            \* lyrics::key_for: tracks of one recording share it
    Contexts,        \* playlists and albums
    None,            \* no track, no context, no answer
    Slices,          \* the kinds of request a behaviour follows
    MaxPlayed,       \* bound: what players start, and players attached
    MaxAsked,        \* bound: what the window does
    MaxFailures      \* bound: requests that fail

Kinds == {"artwork", "lyrics", "liked", "save", "unsave", "queue", "context", "contents"}
UsesClient == Kinds \ {"artwork", "lyrics"}

\* A mistake: every request lets go of the client before it sends its answer.
HoldsClientNever == {}

HoldsClient == UsesClient \ {"liked"}

ASSUME RequestsAssumption ==
    /\ SpotifyTracks \subseteq Tracks
    /\ None \notin Tracks \cup Contexts
    /\ DOMAIN Song = Tracks /\ \A t \in Tracks : Song[t] # None
    /\ Slices \subseteq SUBSET Kinds /\ Slices # {}
    /\ {MaxPlayed, MaxAsked, MaxFailures} \subseteq Nat

VARIABLES
    followed,     \* the kinds of request this behaviour follows
    playing,      \* what the attached player plays
    account,      \* what Spotify plays: track and context
    saved,        \* the tracks in the account's library
    attached,     \* a player is attached
    track,        \* state.player.track
    liked,        \* its `liked`
    art,          \* its `art_path`: the track the picture is of
    lyrics,       \* state.lyrics: the song they are of
    queue,        \* state.spotify.queue: the track it follows
    context,      \* state.spotify.context
    contents,     \* state.spotify.context_tracks and context_closed
    library,      \* state.spotify.library_available
    canLike,      \* state.caps.can_like
    open,         \* the attention is Popup
    tasks,        \* the requests in flight
    events,       \* the channel of events
    crossed,      \* history: a track was saved while it was being looked up
    played, asked, failures

services == <<playing, account, saved>>
player == <<attached, track, liked, art>>
spotify == <<lyrics, queue, context, contents>>
caps == <<library, canLike>>
flight == <<tasks, events, crossed>>
bounds == <<played, asked, failures>>
vars == <<followed, services, player, spotify, caps, open, flight, bounds>>

IsSpotify(t) == t \in SpotifyTracks
SongOf(t) == IF t \in Tracks THEN Song[t] ELSE None

-----------------------------------------------------------------------------
(* Asking. *)

InFlight == BagToSet(tasks)
Asking(kind, key) == [kind |-> kind, key |-> key, answer |-> None]

\* A track is being saved or removed while something else about its being
\* saved is in flight.
Crossing(bag) ==
    \E t \in BagToSet(bag) :
        /\ t.kind \in {"save", "unsave"}
        /\ \/ bag[t] > 1
           \/ \E u \in BagToSet(bag) \ {t} :
                 u.kind \in {"liked", "save", "unsave"} /\ u.key = t.key

Request(wanted) ==
    /\ tasks' = tasks (+) SetToBag({t \in wanted : t.kind \in followed})
    /\ crossed' = (crossed \/ Crossing(tasks'))

RequestArtwork(t) == IF t = None \/ art' # None THEN {} ELSE {Asking("artwork", t)}

RequestLiked(t) == IF library /\ IsSpotify(t) THEN {Asking("liked", t)} ELSE {}

RequestPlayback(t) ==
    IF open' /\ IsSpotify(t) THEN {Asking("queue", None), Asking("context", None)} ELSE {}

RequestLyrics(t) == IF open' /\ t # None THEN {Asking("lyrics", Song[t])} ELSE {}

\* request_queue and request_context: nothing but a Spotify track has either.
ForgetPlayback(t) ==
    /\ queue' = IF IsSpotify(t) THEN queue ELSE None
    /\ context' = IF IsSpotify(t) THEN context ELSE None

\* A mistake: lyrics are kept for a track that has none yet.
ForgetStaleLyricsLate(was, t) == lyrics' = IF t = None THEN None ELSE lyrics

ForgetStaleLyrics(was, t) == lyrics' = IF SongOf(t) = was THEN lyrics ELSE None

\* How refresh and apply_properties end, whatever the player said.
AskAbout(t) ==
    /\ ForgetPlayback(t)
    /\ canLike' = (library /\ IsSpotify(t))
    /\ Request(RequestArtwork(t) \cup RequestLiked(t)
                   \cup RequestPlayback(t) \cup RequestLyrics(t))
    /\ UNCHANGED <<contents, library>>

\* refresh, and apply_properties for a track: what was known about the track is
\* replaced by what the player says.
Refresh(t, was) ==
    /\ track' = t /\ liked' = "unknown" /\ art' = None
    /\ ForgetStaleLyrics(was, t)
    /\ AskAbout(t)

Init ==
    /\ followed \in Slices
    /\ playing = None /\ account = [track |-> None, context |-> None]
    /\ saved \in SUBSET SpotifyTracks
    /\ attached = FALSE /\ track = None /\ liked = "unknown" /\ art = None
    /\ lyrics = None /\ queue = None /\ context = None /\ contents = None
    /\ library = TRUE /\ canLike = FALSE /\ open = FALSE
    /\ tasks = EmptyBag /\ events = <<>> /\ crossed = FALSE
    /\ played = 0 /\ asked = 0 /\ failures = 0

-----------------------------------------------------------------------------
(* The players. *)

Sends(kind, key, answer) ==
    events' = Append(events, [kind |-> kind, key |-> key, answer |-> answer])

Starts(t) ==
    /\ played < MaxPlayed /\ played' = played + 1
    /\ playing' = t
    /\ IF IsSpotify(t)
       THEN \E c \in Contexts \cup {None} : account' = [track |-> t, context |-> c]
       ELSE account' = account
    /\ UNCHANGED <<followed, saved, open, asked, failures>>

\* The attached player starts something, and announces it.
Play ==
    /\ attached
    /\ \E t \in Tracks : Starts(t)
    /\ Sends("track", playing', None)
    /\ UNCHANGED <<player, spotify, caps, tasks, crossed>>

\* Or it announces something else, such as a pause.
Pause ==
    /\ attached
    /\ played < MaxPlayed /\ played' = played + 1
    /\ Sends("status", None, None)
    /\ UNCHANGED <<followed, services, player, spotify, caps, open, tasks, crossed,
                   asked, failures>>

\* rescan finds another player, or the first one.  What the last one announced
\* is still in the channel.
Attach ==
    /\ \E t \in Tracks \cup {None} : Starts(t)
    /\ attached' = TRUE
    /\ UNCHANGED <<open, events>>
    /\ Refresh(playing', None)

\* rescan finds the player it is attached to.
Rescan ==
    /\ attached
    /\ played < MaxPlayed /\ played' = played + 1
    /\ UNCHANGED <<followed, services, attached, open, events, asked, failures>>
    /\ Refresh(playing, SongOf(track))

\* rescan finds none.
Detach ==
    /\ attached /\ attached' = FALSE
    /\ playing' = None /\ track' = None /\ liked' = "unknown" /\ art' = None
    /\ lyrics' = None /\ queue' = None /\ context' = None /\ contents' = None
    /\ UNCHANGED <<followed, account, saved, caps, open, flight, bounds>>

-----------------------------------------------------------------------------
(* The window. *)

Asks ==
    /\ asked < MaxAsked /\ asked' = asked + 1
    /\ UNCHANGED <<followed, services, player, events, played, failures>>

\* EngineMsg::Attention.
OpenWindow ==
    /\ Asks
    /\ ~open /\ open' = TRUE
    /\ ForgetPlayback(track)
    /\ Request(RequestPlayback(track) \cup RequestLyrics(track))
    /\ UNCHANGED <<lyrics, contents, caps>>

CloseWindow ==
    /\ Asks
    /\ open /\ open' = FALSE
    /\ UNCHANGED <<spotify, caps, tasks, crossed>>

\* Command::RefreshContextTracks.
AskContents ==
    /\ Asks
    /\ context # None
    /\ Request({Asking("contents", context)})
    /\ UNCHANGED <<spotify, caps, open>>

\* A mistake: the track need not be one Spotify knows.
ToggleLikeAnyway ==
    /\ Asks
    /\ track # None
    /\ Request({Asking(IF liked = "saved" THEN "unsave" ELSE "save", track)})
    /\ UNCHANGED <<spotify, caps, open>>

\* Command::ToggleLike.
ToggleLike ==
    /\ Asks
    /\ IsSpotify(track)
    /\ Request({Asking(IF liked = "saved" THEN "unsave" ELSE "save", track)})
    /\ UNCHANGED <<spotify, caps, open>>

-----------------------------------------------------------------------------
(* The requests. *)

Without(t) == tasks (-) SetToBag({t})

\* The client is free: nobody holds it until an answer has been sent.
ClientFree == \A t \in InFlight : t.kind \in HoldsClient => t.answer = None

Library(t) == IF t \in saved THEN "saved" ELSE "notSaved"

\* What may be answered: of a context either what is in it, or that Spotify
\* does not say.
Answers(t) ==
    CASE t.kind = "save" -> {[of |-> "saved"]}
      [] t.kind = "unsave" -> {[of |-> "notSaved"]}
      [] t.kind = "liked" -> {[of |-> Library(t.key)]}
      [] t.kind = "queue" -> {[of |-> account.track]}
      [] t.kind = "context" -> {[of |-> account.context]}
      [] t.kind = "contents" -> {[of |-> t.key, closed |-> closed] : closed \in BOOLEAN}
      [] OTHER -> {[of |-> t.key]}

\* A service answers a request.
Answer ==
    \E t \in InFlight :
        /\ t.answer = None
        /\ t.kind \in UsesClient => ClientFree
        /\ \E a \in Answers(t) :
              tasks' = Without(t) (+) SetToBag({[t EXCEPT !.answer = a]})
        /\ saved' = CASE t.kind = "save" -> saved \cup {t.key}
                      [] t.kind = "unsave" -> saved \ {t.key}
                      [] OTHER -> saved
        /\ UNCHANGED <<followed, playing, account, player, spotify, caps, open, events,
                       crossed, bounds>>

\* The task sends it to the engine.
Report ==
    \E t \in InFlight :
        /\ t.answer # None
        /\ tasks' = Without(t)
        /\ Sends(t.kind, t.key, t.answer)
        /\ UNCHANGED <<followed, services, player, spotify, caps, open, crossed, bounds>>

\* A request fails, which only a refused library is told the engine.
Fail ==
    /\ failures < MaxFailures /\ failures' = failures + 1
    /\ \E t \in InFlight :
          /\ t.answer = None /\ t.kind # "contents"
          /\ t.kind \in UsesClient => ClientFree
          /\ tasks' = Without(t)
          /\ \/ UNCHANGED events
             \/ t.kind = "liked" /\ Sends("unavailable", None, None)
    /\ UNCHANGED <<followed, services, player, spotify, caps, open, crossed, played, asked>>

-----------------------------------------------------------------------------
(* handle_player_event. *)

Handle(kinds) ==
    /\ events # <<>> /\ Head(events).kind \in kinds
    /\ events' = Tail(events)
    /\ UNCHANGED <<followed, services, attached, open, bounds>>

Handled == Head(events)

\* apply_properties, for a change of track.
HandleTrack ==
    /\ Handle({"track"})
    /\ Refresh(IF attached THEN Handled.key ELSE None, SongOf(track))

\* apply_properties, for anything else.
HandleStatus ==
    /\ Handle({"status"})
    /\ UNCHANGED <<track, liked, art, lyrics>>
    /\ AskAbout(track)

\* A mistake: the song may have changed while the answer was in flight.
HandleLikedAnyway ==
    /\ Handle({"liked", "save", "unsave"})
    /\ liked' = IF IsSpotify(track) THEN Handled.answer.of ELSE liked
    /\ canLike' = (library /\ IsSpotify(track))
    /\ UNCHANGED <<track, art, spotify, library, tasks, crossed>>

HandleLiked ==
    /\ Handle({"liked", "save", "unsave"})
    /\ IF track = Handled.key
       THEN /\ liked' = Handled.answer.of
            /\ canLike' = (library /\ IsSpotify(track))
       ELSE UNCHANGED <<liked, canLike>>
    /\ UNCHANGED <<track, art, spotify, library, tasks, crossed>>

\* A mistake: the picture goes to whatever is playing.
HandleArtworkAnyway ==
    /\ Handle({"artwork"})
    /\ art' = IF track # None THEN Handled.answer.of ELSE art
    /\ UNCHANGED <<track, liked, spotify, caps, tasks, crossed>>

HandleArtwork ==
    /\ Handle({"artwork"})
    /\ art' = IF track = Handled.key THEN Handled.answer.of ELSE art
    /\ UNCHANGED <<track, liked, spotify, caps, tasks, crossed>>

HandleLyrics ==
    /\ Handle({"lyrics"})
    /\ lyrics' = IF SongOf(track) = Handled.key THEN Handled.answer.of ELSE lyrics
    /\ UNCHANGED <<player, queue, context, contents, caps, tasks, crossed>>

\* A mistake: the player may have moved on to something that is not Spotify's.
HandleQueueAnyway ==
    /\ Handle({"queue"})
    /\ queue' = Handled.answer.of
    /\ UNCHANGED <<player, lyrics, context, contents, caps, tasks, crossed>>

HandleQueue ==
    /\ Handle({"queue"})
    /\ queue' = IF IsSpotify(track) THEN Handled.answer.of ELSE queue
    /\ UNCHANGED <<player, lyrics, context, contents, caps, tasks, crossed>>

\* What was in the last context does not belong to this one.
HandleContext ==
    /\ Handle({"context"})
    /\ IF IsSpotify(track) /\ context # Handled.answer.of
       THEN context' = Handled.answer.of /\ contents' = None
       ELSE UNCHANGED <<context, contents>>
    /\ UNCHANGED <<player, lyrics, queue, caps, tasks, crossed>>

HandleContents ==
    /\ Handle({"contents"})
    /\ contents' = Handled.answer
    /\ UNCHANGED <<player, lyrics, queue, context, caps, tasks, crossed>>

\* A mistake: what can be done is not looked at again.
HandleUnavailableAlone ==
    /\ Handle({"unavailable"})
    /\ library' = FALSE
    /\ UNCHANGED <<canLike, track, liked, art, spotify, tasks, crossed>>

HandleUnavailable ==
    /\ Handle({"unavailable"})
    /\ library' = FALSE /\ canLike' = FALSE
    /\ UNCHANGED <<track, liked, art, spotify, tasks, crossed>>

Players == Play \/ Pause \/ Attach \/ Rescan \/ Detach
Window == OpenWindow \/ CloseWindow \/ AskContents \/ ToggleLike
Services == Answer \/ Report \/ Fail
Handlers ==
    \/ HandleTrack \/ HandleStatus
    \/ HandleLiked \/ HandleArtwork \/ HandleLyrics
    \/ HandleQueue \/ HandleContext \/ HandleContents \/ HandleUnavailable

Next == Players \/ Window \/ Services \/ Handlers

Spec == Init /\ [][Next]_vars

-----------------------------------------------------------------------------
(* Properties. *)

ContentsOf == [of : Contexts, closed : BOOLEAN]

\* Every variable has its type.
TypeOK ==
    /\ followed \in Slices
    /\ playing \in Tracks \cup {None}
    /\ account \in [track : SpotifyTracks \cup {None}, context : Contexts \cup {None}]
    /\ saved \in SUBSET SpotifyTracks
    /\ {attached, library, canLike, open, crossed} \subseteq BOOLEAN
    /\ track \in Tracks \cup {None} /\ art \in Tracks \cup {None}
    /\ liked \in {"unknown", "saved", "notSaved"}
    /\ lyrics \in {Song[t] : t \in Tracks} \cup {None}
    /\ queue \in SpotifyTracks \cup {None} /\ context \in Contexts \cup {None}
    /\ contents \in ContentsOf \cup {None}
    /\ IsABag(tasks) /\ \A t \in InFlight : t.kind \in Kinds
    /\ \A i \in DOMAIN events : events[i].kind \in Kinds \cup {"track", "status", "unavailable"}
    /\ played \in 0..MaxPlayed /\ asked \in 0..MaxAsked /\ failures \in 0..MaxFailures

\* Whatever arrives after the player has moved on, a queue and a context are
\* only ever listed under a track of Spotify's.
QueueIsSpotifys == queue # None \/ context # None => IsSpotify(track)

\* The picture is the current track's, however often the track changed while
\* pictures were fetched.
ArtIsOfTheTrack == art # None => art = track

\* Lyrics are those of the current song, as long as the player names one.
LyricsAreOfTheSong == lyrics # None /\ track # None => lyrics = Song[track]

\* While a player is attached, liking is offered exactly for what can be liked.
CanLikeIsTrue == attached => canLike = (library /\ IsSpotify(track))

\* The lyrics are an answer to the song of the track, and the picture one to the
\* track: both implement AnswerShown.  Every step turns to another subject, tells
\* its answer, or leaves both alone, whatever is in flight from earlier.
Lyrics == INSTANCE AnswerShown WITH
              Subjects <- {Song[t] : t \in Tracks}, subject <- SongOf(track), answer <- lyrics
Picture == INSTANCE AnswerShown WITH Subjects <- Tracks, subject <- track, answer <- art

\* No lyrics fetched for one song are ever shown for another.
LyricsAreAnswered == Lyrics!Spec

\* No picture fetched for one track is ever shown for another.
PictureIsAnswered == Picture!Spec

\* Nothing is in flight, and nothing has failed.
Settled == InFlight = {} /\ events = <<>> /\ failures = 0

\* When every answer has been handled, the window shows what the services say
\* of the current track, though answers overtake signals and one another.
AnswersSettle ==
    Settled =>
        /\ "artwork" \in followed => art = track
        /\ "lyrics" \in followed /\ open /\ track # None => lyrics = Song[track]
        /\ "queue" \in followed /\ open /\ IsSpotify(track) => queue = account.track
        /\ "context" \in followed /\ open /\ IsSpotify(track) => context = account.context

\* The same for whether the track is saved, unless it was looked up while it
\* was being saved or removed.
LikedSettles ==
    Settled /\ ~crossed /\ "liked" \in followed /\ IsSpotify(track)
        => liked = Library(track)

\* What is listed as the contents of a playlist is what is in that playlist.
ContentsOfTheContext == context # None /\ contents # None => contents.of = context
=============================================================================
