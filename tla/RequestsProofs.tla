--------------------------- MODULE RequestsProofs ---------------------------
(***************************************************************************)
(* For any tracks, songs, contexts and bounds: whatever order answers and  *)
(* signals arrive in, what is shown under a track belongs to that track,   *)
(* and once all has arrived it is what the services say of it.             *)
(***************************************************************************)
EXTENDS Requests, SequenceTheorems, TLAPS

Songs == {Song[t] : t \in Tracks}

Keys == Tracks \cup Songs \cup Contexts \cup {None}
Answerable ==
    [of : Keys \cup {"saved", "notSaved"}] \cup ContentsOf \cup {None}

Messages ==
    [kind : Kinds \cup {"track", "status", "unavailable"}, key : Keys, answer : Answerable]

\* What a request is about.
Keyed(m) ==
    /\ m.kind \in {"liked", "save", "unsave"} => m.key \in SpotifyTracks
    /\ m.kind = "artwork" => m.key \in Tracks
    /\ m.kind = "lyrics" => m.key \in Songs
    /\ m.kind = "contents" => m.key \in Contexts

\* An answer is about what was asked.
Answering(m) ==
    /\ m.kind \in {"liked", "save", "unsave"} => m.answer \in [of : {"saved", "notSaved"}]
    /\ m.kind \in {"artwork", "lyrics"} => m.answer = [of |-> m.key]
    /\ m.kind = "queue" => m.answer \in [of : SpotifyTracks \cup {None}]
    /\ m.kind = "context" => m.answer \in [of : Contexts \cup {None}]
    /\ m.kind = "contents" => m.answer \in ContentsOf

Asked ==
    {m \in Messages : m.kind \in Kinds /\ Keyed(m) /\ (m.answer = None \/ Answering(m))}

Sent ==
    {m \in Messages : Keyed(m) /\ Answering(m) /\ (m.kind = "track" => m.key \in Tracks \cup {None})}

\* Everything in flight is what somebody asked for, or answers it.
Carried == InFlight \subseteq Asked /\ events \in Seq(Sent)

\* What is shown belongs to the track it is shown under.
Fits ==
    /\ QueueIsSpotifys /\ ArtIsOfTheTrack /\ LyricsAreOfTheSong /\ CanLikeIsTrue
    /\ ~attached => track = None

IInv == TypeOK /\ Carried /\ Fits

-----------------------------------------------------------------------------

\* Adding to a bag and taking from it.
LEMMA Bagged ==
  ASSUME NEW B, IsABag(B), NEW S
  PROVE  IsABag(B (+) SetToBag(S)) /\ BagToSet(B (+) SetToBag(S)) = BagToSet(B) \cup S
BY DEF IsABag, SetToBag, BagToSet, (+)

LEMMA Unbagged ==
  ASSUME NEW B, IsABag(B), NEW x
  PROVE  IsABag(B (-) SetToBag({x})) /\ BagToSet(B (-) SetToBag({x})) \subseteq BagToSet(B)
BY DEF IsABag, SetToBag, BagToSet, (-)

\* The invariant holds at first: nothing is known and nothing is in flight.
LEMMA InitIInv == Init => IInv
<1> SUFFICES ASSUME Init PROVE IInv OBVIOUS
<1> USE RequestsAssumption DEF Init
<1>1. IsABag(tasks) /\ InFlight = {} BY DEF EmptyBag, SetToBag, IsABag, BagToSet, InFlight
<1>2. TypeOK
  <2>1. account \in [track : SpotifyTracks \cup {None}, context : Contexts \cup {None}] OBVIOUS
  <2>2. {attached, library, canLike, open, crossed} \subseteq BOOLEAN OBVIOUS
  <2> QED BY <1>1, <2>1, <2>2 DEF TypeOK
<1>3. Carried BY <1>1 DEF Carried
<1>4. Fits
  BY DEF Fits, QueueIsSpotifys, ArtIsOfTheTrack, LyricsAreOfTheSong, CanLikeIsTrue
<1> QED BY <1>2, <1>3, <1>4 DEF IInv

\* Asking for more leaves everything in flight somebody's request.
LEMMA Requested ==
  ASSUME TypeOK, Carried, NEW wanted, wanted \subseteq Asked, Request(wanted)
  PROVE  IsABag(tasks') /\ InFlight' \subseteq Asked /\ crossed' \in BOOLEAN
<1>1. IsABag(tasks) BY DEF TypeOK
<1> DEFINE S == {t \in wanted : t.kind \in followed}
<1>2. tasks' = tasks (+) SetToBag(S) BY DEF Request
<1>3. IsABag(tasks') /\ BagToSet(tasks') = BagToSet(tasks) \cup S
  <2> HIDE DEF S
  <2> QED BY <1>1, <1>2, Bagged
<1>4. crossed' \in BOOLEAN BY DEF Request, TypeOK
<1> QED BY <1>3, <1>4 DEF InFlight, Carried

\* What the engine asks for is about what it is about.
LEMMA Wanted ==
  ASSUME NEW t \in Tracks \cup {None}
  PROVE  RequestArtwork(t) \cup RequestLiked(t) \cup RequestPlayback(t)
             \cup RequestLyrics(t) \subseteq Asked
<1> USE RequestsAssumption
<1>1. \A kind \in Kinds, key \in Keys :
          Keyed(Asking(kind, key)) => Asking(kind, key) \in Asked
  BY DEF Asked, Asking, Messages, Answerable
<1>2. RequestArtwork(t) \subseteq Asked
  BY <1>1 DEF RequestArtwork, Asking, Keyed, Kinds, Keys
<1>3. RequestLiked(t) \subseteq Asked
  BY <1>1 DEF RequestLiked, Asking, Keyed, Kinds, Keys, IsSpotify
<1>4. RequestPlayback(t) \subseteq Asked
  BY <1>1 DEF RequestPlayback, Asking, Keyed, Kinds, Keys
<1>5. RequestLyrics(t) \subseteq Asked
  BY <1>1 DEF RequestLyrics, Asking, Keyed, Kinds, Keys, Songs
<1> QED BY <1>2, <1>3, <1>4, <1>5

\* What refresh and apply_properties leave of the current track.
LEMMA AskedAbout ==
  ASSUME TypeOK, Carried, NEW t \in Tracks \cup {None}, AskAbout(t)
  PROVE  /\ IsABag(tasks') /\ InFlight' \subseteq Asked /\ crossed' \in BOOLEAN
         /\ queue' \in SpotifyTracks \cup {None} /\ context' \in Contexts \cup {None}
         /\ canLike' \in BOOLEAN /\ UNCHANGED <<contents, library>>
         /\ queue' # None \/ context' # None => IsSpotify(t)
         /\ canLike' = (library' /\ IsSpotify(t))
<1>1. IsABag(tasks') /\ InFlight' \subseteq Asked /\ crossed' \in BOOLEAN
  BY Wanted, Requested DEF AskAbout
<1> QED BY <1>1 DEF AskAbout, ForgetPlayback, TypeOK, IsSpotify

\* What a refresh leaves of the current track.
LEMMA Refreshed ==
  ASSUME IInv, NEW t \in Tracks \cup {None}, NEW was, was \in {None, SongOf(track)},
         Refresh(t, was)
  PROVE  /\ IsABag(tasks') /\ InFlight' \subseteq Asked /\ crossed' \in BOOLEAN
         /\ track' = t /\ liked' = "unknown" /\ art' = None
         /\ lyrics' \in Songs \cup {None}
         /\ queue' \in SpotifyTracks \cup {None} /\ context' \in Contexts \cup {None}
         /\ canLike' \in BOOLEAN /\ UNCHANGED <<contents, library>>
         /\ (attached' => canLike' = (library' /\ IsSpotify(t)))
         /\ QueueIsSpotifys' /\ LyricsAreOfTheSong'
<1>1. AskAbout(t) /\ track' = t /\ liked' = "unknown" /\ art' = None
  BY DEF Refresh
<1>2. lyrics' = IF SongOf(t) = was THEN lyrics ELSE None
  BY DEF Refresh, ForgetStaleLyrics
<1>3. LyricsAreOfTheSong'
  BY <1>1, <1>2, RequestsAssumption
  DEF IInv, Fits, TypeOK, LyricsAreOfTheSong, SongOf
<1>4. lyrics' \in Songs \cup {None} BY <1>2 DEF IInv, TypeOK, Songs
<1>5. QueueIsSpotifys' BY <1>1, AskedAbout DEF IInv, QueueIsSpotifys, IsSpotify
<1> QED BY <1>1, <1>3, <1>4, <1>5, AskedAbout DEF IInv

\* An event that is sent, and one that is handled.
LEMMA SentOne ==
  ASSUME Carried, NEW kind, NEW key, NEW answer,
         [kind |-> kind, key |-> key, answer |-> answer] \in Sent, Sends(kind, key, answer)
  PROVE  events' \in Seq(Sent)
BY DEF Carried, Sends

LEMMA HandledOne ==
  ASSUME Carried, NEW kinds, Handle(kinds)
  PROVE  Handled \in Sent /\ Handled.kind \in kinds /\ events' \in Seq(Sent)
BY DEF Carried, Handle, Handled

\* What players announce may be sent.
LEMMA Announcements ==
  \A kind \in {"track", "status", "unavailable"}, key \in Tracks \cup {None} :
      (kind = "track" \/ key = None)
          => [kind |-> kind, key |-> key, answer |-> None] \in Sent
BY DEF Sent, Messages, Keys, Answerable, Keyed, Answering

\* A refresh keeps the invariant, whichever track it finds.
LEMMA RefreshedIInv ==
  ASSUME IInv, NEW t \in Tracks \cup {None}, NEW was, was \in {None, SongOf(track)},
         Refresh(t, was), events' \in Seq(Sent),
         UNCHANGED <<followed, saved, open, asked, failures>>,
         playing' \in Tracks \cup {None}, played' \in 0..MaxPlayed,
         account' \in [track : SpotifyTracks \cup {None}, context : Contexts \cup {None}],
         attached' \in BOOLEAN, ~attached' => t = None
  PROVE  IInv'
<1>1. {attached, library, canLike, open, crossed}' \subseteq BOOLEAN
  BY Refreshed DEF IInv, TypeOK
<1>2. \A m \in InFlight' : m.kind \in Kinds BY Refreshed DEF Asked
<1>3. \A i \in DOMAIN events' :
          events'[i].kind \in Kinds \cup {"track", "status", "unavailable"}
  BY DEF Sent, Messages
<1>4. /\ track' \in Tracks \cup {None} /\ art' \in Tracks \cup {None}
      /\ liked' \in {"unknown", "saved", "notSaved"} /\ lyrics' \in Songs \cup {None}
      /\ queue' \in SpotifyTracks \cup {None} /\ context' \in Contexts \cup {None}
      /\ contents' = contents /\ IsABag(tasks')
  BY Refreshed
<1>5. TypeOK' BY <1>1, <1>2, <1>3, <1>4 DEF IInv, TypeOK, Songs
<1>6. Carried' BY Refreshed DEF Carried
<1>7. Fits' BY Refreshed DEF Fits, ArtIsOfTheTrack, CanLikeIsTrue, IsSpotify
<1> QED BY <1>5, <1>6, <1>7 DEF IInv

\* What players do keeps the invariant.
LEMMA PlayersStep ==
  ASSUME IInv, Players
  PROVE  IInv'
<1> USE RequestsAssumption
<1>1. CASE Play
  <2>1. events' \in Seq(Sent)
    BY <1>1, SentOne, Announcements DEF Play, Starts, IInv
  <2>2. TypeOK' /\ InFlight' = InFlight
    <3>1. account' \in [track : SpotifyTracks \cup {None}, context : Contexts \cup {None}]
      BY <1>1 DEF Play, Starts, IInv, TypeOK, IsSpotify
    <3>2. \A i \in DOMAIN events' :
              events'[i].kind \in Kinds \cup {"track", "status", "unavailable"}
      BY <2>1 DEF Sent, Messages
    <3> QED BY <1>1, <3>1, <3>2
            DEF Play, Starts, IInv, TypeOK, player, spotify, caps, InFlight
  <2>3. Fits'
    BY <1>1 DEF Play, Starts, IInv, Fits, QueueIsSpotifys, ArtIsOfTheTrack,
                LyricsAreOfTheSong, CanLikeIsTrue, player, spotify, caps
  <2> QED BY <2>1, <2>2, <2>3 DEF IInv, Carried
<1>2. CASE Pause
  <2>1. events' \in Seq(Sent)
    BY <1>2, SentOne, Announcements DEF Pause, IInv
  <2>2. TypeOK' /\ InFlight' = InFlight
    <3>2. \A i \in DOMAIN events' :
              events'[i].kind \in Kinds \cup {"track", "status", "unavailable"}
      BY <2>1 DEF Sent, Messages
    <3> QED BY <1>2, <3>2
            DEF Pause, IInv, TypeOK, services, player, spotify, caps, InFlight
  <2>3. Fits'
    BY <1>2 DEF Pause, IInv, Fits, QueueIsSpotifys, ArtIsOfTheTrack,
                LyricsAreOfTheSong, CanLikeIsTrue, player, spotify, caps
  <2> QED BY <2>1, <2>2, <2>3 DEF IInv, Carried
<1>3. CASE Attach
  <2>1. playing' \in Tracks \cup {None} /\ attached' = TRUE /\ UNCHANGED <<open, events>>
        /\ UNCHANGED <<followed, saved, asked, failures>> /\ played' \in 0..MaxPlayed
    BY <1>3 DEF Attach, Starts, IInv, TypeOK
  <2>2. account' \in [track : SpotifyTracks \cup {None}, context : Contexts \cup {None}]
    BY <1>3 DEF Attach, Starts, IInv, TypeOK, IsSpotify
  <2>3. Refresh(playing', None) BY <1>3 DEF Attach
  <2> QED BY <2>1, <2>2, <2>3, RefreshedIInv DEF IInv, TypeOK, Carried
<1>4. CASE Rescan
  <2>1. playing \in Tracks \cup {None} /\ attached /\ UNCHANGED <<open, events, attached>>
        /\ UNCHANGED <<followed, services, asked, failures>> /\ played' \in 0..MaxPlayed
    BY <1>4 DEF Rescan, IInv, TypeOK
  <2>2. Refresh(playing, SongOf(track)) BY <1>4 DEF Rescan
  <2> QED BY <2>1, <2>2, RefreshedIInv DEF IInv, TypeOK, Carried, services
<1>5. CASE Detach
  <2>1. TypeOK' /\ Carried'
    BY <1>5 DEF Detach, IInv, TypeOK, Carried, InFlight, caps, flight, bounds
  <2>2. Fits'
    BY <1>5 DEF Detach, Fits, QueueIsSpotifys, ArtIsOfTheTrack, LyricsAreOfTheSong,
                CanLikeIsTrue
  <2> QED BY <2>1, <2>2 DEF IInv
<1> QED BY <1>1, <1>2, <1>3, <1>4, <1>5 DEF Players

\* What the window asks for keeps the invariant.
LEMMA WindowStep ==
  ASSUME IInv, Window
  PROVE  IInv'
<1> USE RequestsAssumption
\* What the window does goes through a request, and touches no track.
<1>1. ASSUME Asks, open' \in BOOLEAN, UNCHANGED <<lyrics, contents, caps>>,
             queue' \in {queue, None}, context' \in {context, None},
             IsABag(tasks'), InFlight' \subseteq Asked, crossed' \in BOOLEAN
      PROVE  IInv'
  <2>1. \A m \in InFlight' : m.kind \in Kinds BY <1>1 DEF Asked
  <2>2. asked' \in 0..MaxAsked /\ UNCHANGED <<followed, services, player, events, played, failures>>
    BY <1>1 DEF Asks, IInv, TypeOK
  <2>3. {attached, library, canLike, open, crossed}' \subseteq BOOLEAN
    BY <1>1, <2>2 DEF IInv, TypeOK, player, caps
  <2>4. TypeOK'
    BY <1>1, <2>1, <2>2, <2>3 DEF IInv, TypeOK, services, player, caps
  <2>5. Carried' BY <1>1, <2>2 DEF IInv, Carried
  <2>6. Fits'
    BY <1>1, <2>2 DEF IInv, Fits, QueueIsSpotifys, ArtIsOfTheTrack, LyricsAreOfTheSong,
                      CanLikeIsTrue, player, caps
  <2> QED BY <2>4, <2>5, <2>6 DEF IInv
<1>2. CASE OpenWindow
  <2>1. RequestPlayback(track) \cup RequestLyrics(track) \subseteq Asked
    BY Wanted DEF IInv, TypeOK
  <2>2. IsABag(tasks') /\ InFlight' \subseteq Asked /\ crossed' \in BOOLEAN
    BY <1>2, <2>1, Requested DEF OpenWindow, IInv
  <2> QED BY <1>1, <1>2, <2>2 DEF OpenWindow, ForgetPlayback
<1>3. CASE CloseWindow
  BY <1>1, <1>3 DEF CloseWindow, IInv, TypeOK, Carried, InFlight, spotify
<1>4. CASE AskContents
  <2>1. Asking("contents", context) \in Asked
    BY <1>4 DEF AskContents, IInv, TypeOK, Asking, Asked, Messages, Keys, Kinds,
       Keyed, Answerable
  <2>2. IsABag(tasks') /\ InFlight' \subseteq Asked /\ crossed' \in BOOLEAN
    BY <1>4, <2>1, Requested DEF AskContents, IInv
  <2> QED BY <1>1, <1>4, <2>2 DEF AskContents, spotify, IInv, TypeOK
<1>5. CASE ToggleLike
  <2>1. \A kind \in {"save", "unsave"} : Asking(kind, track) \in Asked
    BY <1>5 DEF ToggleLike, IsSpotify, Asking, Asked, Messages, Keys, Kinds, Keyed,
       Answerable
  <2>2. IsABag(tasks') /\ InFlight' \subseteq Asked /\ crossed' \in BOOLEAN
    BY <1>5, <2>1, Requested DEF ToggleLike, IInv
  <2> QED BY <1>1, <1>5, <2>2 DEF ToggleLike, spotify, IInv, TypeOK
<1> QED BY <1>2, <1>3, <1>4, <1>5 DEF Window

\* A service answers what it was asked.
LEMMA Answered ==
  ASSUME NEW t \in Asked, NEW a \in Answers(t), account \in [track : SpotifyTracks \cup {None}, context : Contexts \cup {None}]
  PROVE  [t EXCEPT !.answer = a] \in Asked
<1> DEFINE m == [t EXCEPT !.answer = a]
<1>1. m.kind = t.kind /\ m.key = t.key /\ m.answer = a BY DEF Asked, Messages
<1>2. Keyed(m) BY <1>1 DEF Asked, Keyed
<1>3. Answering(m) BY <1>1 DEF Asked, Answers, Answering, Kinds, Library, Keyed, ContentsOf
<1>4. a \in Answerable
  <2>1. CASE t.kind \in {"save", "unsave", "liked"}
    BY <1>3, <1>1, <2>1 DEF Answering, Answerable
  <2>2. CASE t.kind = "queue"
    BY <2>2, RequestsAssumption DEF Answers, Answerable, Keys
  <2>3. CASE t.kind = "context"
    BY <2>3 DEF Answers, Answerable, Keys
  <2>4. CASE t.kind = "contents"
    BY <1>3, <1>1, <2>4 DEF Answering, Answerable
  <2>5. CASE t.kind \in {"artwork", "lyrics"}
    BY <1>3, <1>1, <2>5 DEF Answering, Answerable, Asked, Messages
  <2> QED BY <2>1, <2>2, <2>3, <2>4, <2>5 DEF Asked, Kinds
<1>5. m \in Messages BY <1>1, <1>4 DEF Asked, Messages
<1> QED BY <1>1, <1>2, <1>3, <1>5 DEF Asked

\* What services answer keeps the invariant.
LEMMA ServicesStep ==
  ASSUME IInv, Services
  PROVE  IInv'
<1> USE RequestsAssumption
\* What services do touches nothing the engine shows.
<1>1. ASSUME UNCHANGED <<followed, playing, account, player, spotify, caps, open, crossed,
                         played, asked>>,
             saved' \in SUBSET SpotifyTracks, failures' \in 0..MaxFailures,
             IsABag(tasks'), InFlight' \subseteq Asked, events' \in Seq(Sent)
      PROVE  IInv'
  <2>1. \A m \in InFlight' : m.kind \in Kinds BY <1>1 DEF Asked
  <2>2. \A i \in DOMAIN events' :
            events'[i].kind \in Kinds \cup {"track", "status", "unavailable"}
    BY <1>1 DEF Sent, Messages
  <2>3. TypeOK' BY <1>1, <2>1, <2>2 DEF IInv, TypeOK, player, spotify, caps
  <2>4. Carried' BY <1>1 DEF Carried
  <2>5. Fits'
    BY <1>1 DEF IInv, Fits, QueueIsSpotifys, ArtIsOfTheTrack, LyricsAreOfTheSong,
                CanLikeIsTrue, player, spotify, caps
  <2> QED BY <2>3, <2>4, <2>5 DEF IInv
<1>2. \A t : IsABag(Without(t)) /\ BagToSet(Without(t)) \subseteq Asked
  BY Unbagged DEF Without, IInv, TypeOK, Carried, InFlight
<1>3. CASE Answer
  <2>1. PICK t \in InFlight :
            /\ \E a \in Answers(t) :
                  tasks' = Without(t) (+) SetToBag({[t EXCEPT !.answer = a]})
            /\ saved' = CASE t.kind = "save" -> saved \cup {t.key}
                          [] t.kind = "unsave" -> saved \ {t.key}
                          [] OTHER -> saved
            /\ UNCHANGED <<followed, playing, account, player, spotify, caps, open, events,
                           crossed, bounds>>
    BY <1>3 DEF Answer
  <2>2. PICK a \in Answers(t) : tasks' = Without(t) (+) SetToBag({[t EXCEPT !.answer = a]})
    BY <2>1
  <2>3. t \in Asked BY DEF IInv, Carried
  <2>4. [t EXCEPT !.answer = a] \in Asked BY <2>3, Answered DEF IInv, TypeOK
  <2>5. IsABag(tasks') /\ InFlight' \subseteq Asked
    BY <1>2, <2>2, <2>4, Bagged DEF InFlight
  <2>6. saved' \in SUBSET SpotifyTracks
    BY <2>1, <2>3 DEF IInv, TypeOK, Asked, Keyed
  <2> QED BY <1>1, <2>1, <2>5, <2>6 DEF bounds, IInv, TypeOK, Carried
<1>4. CASE Report
  <2>1. PICK t \in InFlight :
            /\ t.answer # None /\ tasks' = Without(t) /\ Sends(t.kind, t.key, t.answer)
            /\ UNCHANGED <<followed, services, player, spotify, caps, open, crossed, bounds>>
    BY <1>4 DEF Report
  <2>2. t \in Asked BY DEF IInv, Carried
  <2>3. [kind |-> t.kind, key |-> t.key, answer |-> t.answer] \in Sent
    BY <2>1, <2>2 DEF Asked, Sent, Messages, Kinds
  <2>4. events' \in Seq(Sent) BY <2>1, <2>3, SentOne DEF IInv
  <2>5. IsABag(tasks') /\ InFlight' \subseteq Asked BY <1>2, <2>1 DEF InFlight
  <2> QED BY <1>1, <2>1, <2>4, <2>5 DEF bounds, services, IInv, TypeOK
<1>5. CASE Fail
  <2>1. PICK t \in InFlight :
            /\ tasks' = Without(t)
            /\ UNCHANGED events \/ Sends("unavailable", None, None)
            /\ failures' \in 0..MaxFailures
            /\ UNCHANGED <<followed, services, player, spotify, caps, open, crossed, played, asked>>
    BY <1>5 DEF Fail, IInv, TypeOK
  <2>2. events' \in Seq(Sent)
    BY <2>1, SentOne, Announcements DEF IInv, Carried
  <2>3. IsABag(tasks') /\ InFlight' \subseteq Asked BY <1>2, <2>1 DEF InFlight
  <2> QED BY <1>1, <2>1, <2>2, <2>3 DEF services, IInv, TypeOK
<1> QED BY <1>3, <1>4, <1>5 DEF Services

\* Handling an event keeps the invariant: it checks what the event is about.
LEMMA HandlersStep ==
  ASSUME IInv, Handlers
  PROVE  IInv'
<1> USE RequestsAssumption
\* What a handler of an answer does goes to one field.
<1>1. ASSUME NEW kinds, Handle(kinds), UNCHANGED <<track, tasks, crossed>>,
             {canLike, library}' \subseteq BOOLEAN,
             liked' \in {"unknown", "saved", "notSaved"}, art' \in {art, track},
             lyrics' \in {lyrics, SongOf(track)}, queue' \in SpotifyTracks \cup {None},
             context' \in Contexts \cup {None}, contents' \in ContentsOf \cup {None},
             QueueIsSpotifys', CanLikeIsTrue'
      PROVE  IInv'
  <2>1. events' \in Seq(Sent) BY <1>1, HandledOne DEF IInv
  <2>2. UNCHANGED <<followed, services, attached, open, bounds>> BY <1>1 DEF Handle
  <2>3. \A i \in DOMAIN events' :
            events'[i].kind \in Kinds \cup {"track", "status", "unavailable"}
    BY <2>1 DEF Sent, Messages
  <2>4. lyrics' \in Songs \cup {None} BY <1>1 DEF IInv, TypeOK, SongOf, Songs
  <2>5. TypeOK'
    BY <1>1, <2>2, <2>3, <2>4 DEF IInv, TypeOK, Songs, services, bounds, InFlight
  <2>6. Carried' BY <1>1, <2>1 DEF IInv, Carried, InFlight
  <2>7. Fits'
    BY <1>1, <2>2 DEF IInv, TypeOK, Fits, ArtIsOfTheTrack, LyricsAreOfTheSong, SongOf
  <2> QED BY <2>5, <2>6, <2>7 DEF IInv
\* What stays as it is keeps its type.
<1>2. /\ {canLike, library} \subseteq BOOLEAN /\ liked \in {"unknown", "saved", "notSaved"}
      /\ queue \in SpotifyTracks \cup {None} /\ context \in Contexts \cup {None}
      /\ contents \in ContentsOf \cup {None}
  BY DEF IInv, TypeOK
<1>3. CASE HandleTrack
  <2>1. Handled \in Sent /\ Handled.kind = "track" /\ events' \in Seq(Sent)
    BY <1>3, HandledOne DEF HandleTrack, IInv
  <2>2. UNCHANGED <<followed, services, attached, open, bounds>> BY <1>3 DEF HandleTrack, Handle
  <2> DEFINE t == IF attached THEN Handled.key ELSE None
  <2>3. t \in Tracks \cup {None} BY <2>1 DEF Sent
  <2>4. Refresh(t, SongOf(track)) BY <1>3 DEF HandleTrack
  <2>5. ~attached' => t = None BY <2>2
  <2> HIDE DEF t
  <2> QED BY <2>1, <2>2, <2>3, <2>4, <2>5, RefreshedIInv
          DEF IInv, TypeOK, services, bounds
<1>4. CASE HandleStatus
  <2>1. events' \in Seq(Sent) BY <1>4, HandledOne DEF HandleStatus, IInv
  <2>2. UNCHANGED <<followed, services, attached, open, bounds>> BY <1>4 DEF HandleStatus, Handle
  <2>3. AskAbout(track) /\ UNCHANGED <<track, liked, art, lyrics>> BY <1>4 DEF HandleStatus
  <2>4. track \in Tracks \cup {None} BY DEF IInv, TypeOK
  <2>5. /\ IsABag(tasks') /\ InFlight' \subseteq Asked /\ crossed' \in BOOLEAN
        /\ queue' \in SpotifyTracks \cup {None} /\ context' \in Contexts \cup {None}
        /\ canLike' \in BOOLEAN /\ UNCHANGED <<contents, library>>
        /\ queue' # None \/ context' # None => IsSpotify(track)
        /\ canLike' = (library' /\ IsSpotify(track))
    BY <2>3, <2>4, AskedAbout DEF IInv
  <2>6. \A i \in DOMAIN events' :
            events'[i].kind \in Kinds \cup {"track", "status", "unavailable"}
    BY <2>1 DEF Sent, Messages
  <2>7. \A m \in InFlight' : m.kind \in Kinds BY <2>5 DEF Asked
  <2>8. {attached, library, canLike, open, crossed}' \subseteq BOOLEAN
    BY <2>2, <2>5 DEF IInv, TypeOK
  <2>9. TypeOK' BY <2>2, <2>3, <2>5, <2>6, <2>7, <2>8 DEF IInv, TypeOK, services, bounds
  <2>10. Carried' BY <2>1, <2>5 DEF Carried
  <2>11. Fits'
    BY <2>2, <2>3, <2>5 DEF IInv, Fits, QueueIsSpotifys, ArtIsOfTheTrack,
                            LyricsAreOfTheSong, CanLikeIsTrue, IsSpotify
  <2> QED BY <2>9, <2>10, <2>11 DEF IInv
<1>5. CASE HandleLiked
  <2>1. Handled.answer \in [of : {"saved", "notSaved"}]
    BY <1>5, HandledOne DEF HandleLiked, IInv, Sent, Answering
  <2>2. canLike' \in BOOLEAN /\ liked' \in {"unknown", "saved", "notSaved"}
    BY <1>2, <1>5, <2>1 DEF HandleLiked
  <2>3. UNCHANGED <<attached, track, library, queue, context>>
    BY <1>5 DEF HandleLiked, Handle, spotify
  <2>4. QueueIsSpotifys' /\ CanLikeIsTrue'
    BY <1>5, <2>3 DEF HandleLiked, IInv, Fits, QueueIsSpotifys, CanLikeIsTrue, IsSpotify
  <2> QED BY <1>1, <1>2, <1>5, <2>2, <2>4 DEF HandleLiked, spotify
<1>6. CASE HandleArtwork
  <2>1. Handled.answer.of = Handled.key
    <3>1. Handled \in Sent /\ Handled.kind = "artwork" BY <1>6, HandledOne DEF HandleArtwork, IInv
    <3> QED BY <3>1 DEF Sent, Answering
  <2>2. QueueIsSpotifys' /\ CanLikeIsTrue'
    BY <1>6 DEF HandleArtwork, Handle, IInv, Fits, QueueIsSpotifys, CanLikeIsTrue,
       IsSpotify,
                spotify, caps
  <2> QED BY <1>1, <1>2, <1>6, <2>1, <2>2 DEF HandleArtwork, spotify, caps
<1>7. CASE HandleLyrics
  <2>1. Handled.answer.of = Handled.key
    <3>1. Handled \in Sent /\ Handled.kind = "lyrics" BY <1>7, HandledOne DEF HandleLyrics, IInv
    <3> QED BY <3>1 DEF Sent, Answering
  <2>2. QueueIsSpotifys' /\ CanLikeIsTrue'
    BY <1>7 DEF HandleLyrics, Handle, IInv, Fits, QueueIsSpotifys, CanLikeIsTrue,
       IsSpotify,
                player, caps
  <2> QED BY <1>1, <1>2, <1>7, <2>1, <2>2 DEF HandleLyrics, player, caps
<1>8. CASE HandleQueue
  <2>1. Handled.answer \in [of : SpotifyTracks \cup {None}]
    <3>1. Handled \in Sent /\ Handled.kind = "queue" BY <1>8, HandledOne DEF HandleQueue, IInv
    <3> QED BY <3>1 DEF Sent, Answering
  <2>2. queue' \in SpotifyTracks \cup {None} BY <1>2, <1>8, <2>1 DEF HandleQueue
  <2>3. QueueIsSpotifys' /\ CanLikeIsTrue'
    BY <1>8 DEF HandleQueue, Handle, IInv, Fits, QueueIsSpotifys, CanLikeIsTrue,
       IsSpotify,
                player, caps
  <2> QED BY <1>1, <1>2, <1>8, <2>2, <2>3 DEF HandleQueue, player, caps
<1>9. CASE HandleContext
  <2>1. Handled.answer \in [of : Contexts \cup {None}]
    <3>1. Handled \in Sent /\ Handled.kind = "context" BY <1>9, HandledOne DEF HandleContext, IInv
    <3> QED BY <3>1 DEF Sent, Answering
  <2>2. context' \in Contexts \cup {None} /\ contents' \in ContentsOf \cup {None}
    BY <1>2, <1>9, <2>1 DEF HandleContext
  <2>3. QueueIsSpotifys' /\ CanLikeIsTrue'
    BY <1>9 DEF HandleContext, Handle, IInv, Fits, QueueIsSpotifys, CanLikeIsTrue,
       IsSpotify,
                player, caps
  <2> QED BY <1>1, <1>2, <1>9, <2>2, <2>3 DEF HandleContext, player, caps
<1>10. CASE HandleContents
  <2>1. Handled.answer \in ContentsOf
    <3>1. Handled \in Sent /\ Handled.kind = "contents" BY <1>10, HandledOne DEF HandleContents, IInv
    <3> QED BY <3>1 DEF Sent, Answering
  <2>2. QueueIsSpotifys' /\ CanLikeIsTrue'
    BY <1>10 DEF HandleContents, Handle, IInv, Fits, QueueIsSpotifys, CanLikeIsTrue,
       IsSpotify,
                 player, caps
  <2> QED BY <1>1, <1>2, <1>10, <2>1, <2>2 DEF HandleContents, player, caps
<1>11. CASE HandleUnavailable
  <2>1. QueueIsSpotifys' /\ CanLikeIsTrue'
    BY <1>11 DEF HandleUnavailable, Handle, IInv, Fits, QueueIsSpotifys, CanLikeIsTrue,
                 IsSpotify, spotify
  <2> QED BY <1>1, <1>2, <1>11, <2>1 DEF HandleUnavailable, spotify
<1> QED BY <1>3, <1>4, <1>5, <1>6, <1>7, <1>8, <1>9, <1>10, <1>11 DEF Handlers

\* The invariant is inductive.
LEMMA IInvAlways == Spec => []IInv
<1>1. IInv /\ [Next]_vars => IInv'
  <2> SUFFICES ASSUME IInv, [Next]_vars PROVE IInv' OBVIOUS
  <2>1. CASE UNCHANGED vars
    <3>1. TypeOK' /\ Carried'
      BY <2>1 DEF IInv, TypeOK, Carried, InFlight, vars, services, player, spotify,
         caps,
                  flight, bounds
    <3>2. Fits'
      BY <2>1 DEF IInv, Fits, QueueIsSpotifys, ArtIsOfTheTrack, LyricsAreOfTheSong,
                  CanLikeIsTrue, vars, player, spotify, caps
    <3> QED BY <3>1, <3>2 DEF IInv
  <2> QED BY <2>1, PlayersStep, WindowStep, ServicesStep, HandlersStep DEF Next
<1> QED BY <1>1, InitIInv, PTL DEF Spec

\* Every variable has its type.
THEOREM TypeAlways == Spec => []TypeOK
<1>1. IInv => TypeOK BY DEF IInv
<1> QED BY <1>1, IInvAlways, PTL

\* A queue or a context is only ever listed under a track of Spotify's, whatever
\* arrives after the player has moved on.
THEOREM QueueIsSpotifysAlways == Spec => []QueueIsSpotifys
<1>1. IInv => QueueIsSpotifys BY DEF IInv, Fits
<1> QED BY <1>1, IInvAlways, PTL

\* The picture shown is the current track's.
THEOREM ArtIsOfTheTrackAlways == Spec => []ArtIsOfTheTrack
<1>1. IInv => ArtIsOfTheTrack BY DEF IInv, Fits
<1> QED BY <1>1, IInvAlways, PTL

\* The lyrics shown under a track are its song's.
THEOREM LyricsAreOfTheSongAlways == Spec => []LyricsAreOfTheSong
<1>1. IInv => LyricsAreOfTheSong BY DEF IInv, Fits
<1> QED BY <1>1, IInvAlways, PTL

\* Liking is offered exactly for what can be liked, while a player is attached.
THEOREM CanLikeIsTrueAlways == Spec => []CanLikeIsTrue
<1>1. IInv => CanLikeIsTrue BY DEF IInv, Fits
<1> QED BY <1>1, IInvAlways, PTL

-----------------------------------------------------------------------------
(* The lyrics and the picture implement AnswerShown. *)

\* A refresh turns to the track it finds.
LEMMA RefreshTurns ==
  ASSUME IInv, NEW t \in Tracks \cup {None}, NEW was, was \in {None, SongOf(track)},
         Refresh(t, was)
  PROVE  Lyrics!Turn /\ Picture!Turn
<1>1. track' = t /\ art' = None /\ lyrics' = IF SongOf(t) = was THEN lyrics ELSE None
  BY DEF Refresh, ForgetStaleLyrics
<1>2. SongOf(track)' = SongOf(t) BY <1>1 DEF SongOf
<1>3. SongOf(t) \in {Song[u] : u \in Tracks} \cup {None} BY DEF SongOf
<1>4. Lyrics!Turn BY <1>1, <1>2, <1>3 DEF Lyrics!Turn
<1>5. Picture!Turn BY <1>1 DEF Picture!Turn
<1> QED BY <1>4, <1>5

\* Every step of the engine is one of AnswerShown's, or leaves both alone.
LEMMA AnswersStep ==
  ASSUME IInv, [Next]_vars
  PROVE  /\ Lyrics!Next \/ UNCHANGED <<SongOf(track), lyrics>>
         /\ Picture!Next \/ UNCHANGED <<track, art>>
<1> USE RequestsAssumption
<1> DEFINE Holds == /\ Lyrics!Next \/ UNCHANGED <<SongOf(track), lyrics>>
                    /\ Picture!Next \/ UNCHANGED <<track, art>>
<1>1. ASSUME UNCHANGED <<track, lyrics, art>> PROVE Holds
  BY <1>1 DEF SongOf
<1>2. ASSUME Lyrics!Turn, Picture!Turn PROVE Holds
  BY <1>2 DEF Lyrics!Next, Picture!Next
<1>3. CASE Attach
  <2>1. playing' \in Tracks \cup {None} /\ Refresh(playing', None)
    BY <1>3 DEF Attach, Starts
  <2> QED BY <1>2, <2>1, RefreshTurns
<1>4. CASE Rescan
  <2>1. playing \in Tracks \cup {None} /\ Refresh(playing, SongOf(track))
    BY <1>4 DEF Rescan, IInv, TypeOK
  <2> QED BY <1>2, <2>1, RefreshTurns
<1>5. CASE HandleTrack
  <2>1. Handled \in Sent /\ Handled.kind = "track"
    BY <1>5, HandledOne DEF HandleTrack, IInv
  <2> DEFINE t == IF attached THEN Handled.key ELSE None
  <2>2. t \in Tracks \cup {None} BY <2>1 DEF Sent
  <2>3. Refresh(t, SongOf(track)) BY <1>5 DEF HandleTrack
  <2> HIDE DEF t
  <2> QED BY <1>2, <2>2, <2>3, RefreshTurns
<1>6. CASE Detach
  <2>1. track' = None /\ lyrics' = None /\ art' = None BY <1>6 DEF Detach
  <2>2. SongOf(track)' = None BY <2>1 DEF SongOf
  <2> QED BY <1>2, <2>1, <2>2 DEF Lyrics!Turn, Picture!Turn
<1>7. CASE HandleLyrics
  <2>1. Handled \in Sent /\ Handled.kind = "lyrics" BY <1>7, HandledOne DEF HandleLyrics, IInv
  <2>2. Handled.answer.of = Handled.key /\ Handled.key \in Songs
    BY <2>1 DEF Sent, Answering, Keyed
  <2>3. Handled.key # None BY <2>2 DEF Songs
  <2>4. UNCHANGED <<track, art>> BY <1>7 DEF HandleLyrics, player
  <2>5. lyrics' = IF SongOf(track) = Handled.key THEN Handled.answer.of ELSE lyrics
    BY <1>7 DEF HandleLyrics
  <2>6. SongOf(track)' = SongOf(track) BY <2>4 DEF SongOf
  <2> QED BY <2>2, <2>3, <2>4, <2>5, <2>6 DEF Lyrics!Next, Lyrics!Tell
<1>8. CASE HandleArtwork
  <2>1. Handled \in Sent /\ Handled.kind = "artwork" BY <1>8, HandledOne DEF HandleArtwork, IInv
  <2>2. Handled.answer.of = Handled.key /\ Handled.key \in Tracks
    BY <2>1 DEF Sent, Answering, Keyed
  <2>3. UNCHANGED <<track, lyrics>> BY <1>8 DEF HandleArtwork, spotify
  <2>4. art' = IF track = Handled.key THEN Handled.answer.of ELSE art
    BY <1>8 DEF HandleArtwork
  <2>5. SongOf(track)' = SongOf(track) BY <2>3 DEF SongOf
  <2> QED BY <2>2, <2>3, <2>4, <2>5 DEF Picture!Next, Picture!Tell
<1>9. CASE Play \/ Pause \/ Window
  <2>1. UNCHANGED <<track, lyrics, art>>
    BY <1>9 DEF Play, Pause, Window, Asks, OpenWindow, CloseWindow, AskContents,
       ToggleLike,
                player, spotify
  <2> QED BY <1>1, <2>1
<1>10. CASE Services \/ UNCHANGED vars
  <2>1. UNCHANGED <<track, lyrics, art>>
    BY <1>10 DEF Services, Answer, Report, Fail, vars, player, spotify
  <2> QED BY <1>1, <2>1
<1>11. CASE HandleStatus \/ HandleLiked \/ HandleQueue \/ HandleContext \/ HandleContents
            \/ HandleUnavailable
  <2>1. UNCHANGED <<track, lyrics, art>>
    BY <1>11 DEF HandleStatus, HandleLiked, HandleQueue, HandleContext, HandleContents,
                 HandleUnavailable, player, spotify
  <2> QED BY <1>1, <2>1
<1> QED BY <1>3, <1>4, <1>5, <1>6, <1>7, <1>8, <1>9, <1>10, <1>11 DEF Next, Players, Handlers

\* The lyrics implement AnswerShown: they are of the song there is, or were before
\* the player stopped naming one.
THEOREM LyricsImplement == Spec => LyricsAreAnswered
<1>1. Init => Lyrics!Init BY RequestsAssumption DEF Init, Lyrics!Init, SongOf
<1>2. IInv /\ [Next]_vars => [Lyrics!Next]_<<SongOf(track), lyrics>> BY AnswersStep
<1> QED BY <1>1, <1>2, IInvAlways, PTL DEF Spec, LyricsAreAnswered, Lyrics!Spec

\* The picture implements AnswerShown.
THEOREM PictureImplements == Spec => PictureIsAnswered
<1>1. Init => Picture!Init BY DEF Init, Picture!Init
<1>2. IInv /\ [Next]_vars => [Picture!Next]_<<track, art>> BY AnswersStep
<1> QED BY <1>1, <1>2, IInvAlways, PTL DEF Spec, PictureIsAnswered, Picture!Spec
-----------------------------------------------------------------------------
(* Nothing that was asked for is forgotten, and the last word is the truth. *)

LikedKinds == {"liked", "save", "unsave"}

\* Some member of seq is in `about`, and the last that is one is `right`.
SomeOf(seq, about) == \E i \in 1..Len(seq) : seq[i] \in about

LastOf(seq, about, right) ==
    \E i \in 1..Len(seq) :
       seq[i] \in right /\ \A j \in 1..Len(seq) : j > i => seq[j] \notin about

Of(kinds) == {m \in Sent : m.kind \in kinds}
About(kinds, key) == {m \in Of(kinds) : m.key = key}

Flying(kinds, key) == \E m \in InFlight : m.kind \in kinds /\ m.key = key
Awaited(kind, key) == Flying({kind}, key) \/ SomeOf(events, About({kind}, key))

\* As long as nothing fails, the library is there.
LibraryStays == library /\ ~SomeOf(events, Of({"unavailable"}))

ArtComes ==
    "artwork" \in followed /\ track # None /\ art = None => Awaited("artwork", track)

LyricsCome ==
    "lyrics" \in followed /\ open /\ track # None /\ lyrics = None
        => Awaited("lyrics", Song[track])

\* A queue or a context is asked for once what plays is known, or the last answer
\* is what Spotify plays.  The client is held until an answer has been sent, so
\* that an answer still held is the last one.
StillAsking(kind) ==
    \/ SomeOf(events, Of({"track"}))
    \/ \E m \in InFlight : m.kind = kind /\ m.answer = None

Shown(kind) == IF kind = "queue" THEN queue ELSE context
Value(kind) == IF kind = "queue" THEN account.track ELSE account.context

Saying(kind, value) == {m \in Of({kind}) : m.answer.of = value}

PlaybackComes(kind) ==
    kind \in followed /\ open /\ IsSpotify(track) /\ ~StillAsking(kind) =>
        /\ \A m \in InFlight : m.kind = kind => m.answer.of = Value(kind)
        /\ \/ \E m \in InFlight : m.kind = kind
           \/ LastOf(events, Of({kind}), Saying(kind, Value(kind)))
           \/ Shown(kind) = Value(kind) /\ ~SomeOf(events, Of({kind}))

\* Answers about one track that wait to be sent agree with the library, and
\* somebody is still asked about it, or the last answer agrees, or it is
\* what is shown.
LikedIsCurrent ==
    \A m \in InFlight : m.kind \in LikedKinds /\ m.answer # None => m.answer.of = Library(m.key)

Telling(t, whether) == {m \in About(LikedKinds, t) : m.answer.of = whether}

LikedComes(t) ==
    \/ Flying(LikedKinds, t)
    \/ LastOf(events, About(LikedKinds, t), Telling(t, Library(t)))
    \/ ~SomeOf(events, About(LikedKinds, t)) /\ (track = t => liked = Library(t))

LikesApart == ~crossed => ~Crossing(tasks) /\ LikedIsCurrent

NothingForgotten ==
    failures = 0 =>
        /\ LibraryStays
        /\ ArtComes /\ LyricsCome
        /\ PlaybackComes("queue") /\ PlaybackComes("context")
        /\ ~crossed /\ "liked" \in followed => \A t \in SpotifyTracks : LikedComes(t)

SInv == LikesApart /\ NothingForgotten

LEMMA SentSays ==
  ASSUME Carried, NEW e \in Sent, events' = Append(events, e), NEW about, NEW right
  PROVE  /\ SomeOf(events', about) <=> SomeOf(events, about) \/ e \in about
         /\ e \in right => LastOf(events', about, right)
         /\ e \notin about /\ LastOf(events, about, right) => LastOf(events', about, right)
<1> DEFINE longer == Append(events, e)
<1>1. /\ Len(events) \in Nat /\ Len(longer) = Len(events) + 1
      /\ \A i \in 1..Len(events) : longer[i] = events[i]
      /\ longer[Len(events) + 1] = e
  BY AppendProperties, LenProperties DEF Carried
<1> HIDE DEF longer
<1>2. SomeOf(longer, about) <=> SomeOf(events, about) \/ e \in about
  BY <1>1 DEF SomeOf
<1>3. e \in right => LastOf(longer, about, right)
  BY <1>1 DEF LastOf
<1>4. e \notin about /\ LastOf(events, about, right) => LastOf(longer, about, right)
  BY <1>1 DEF LastOf
<1> QED BY <1>2, <1>3, <1>4 DEF longer

LEMMA TakenSays ==
  ASSUME Carried, events # <<>>, events' = Tail(events), NEW about, NEW right
  PROVE  /\ SomeOf(events, about) <=> Head(events) \in about \/ SomeOf(events', about)
         /\ LastOf(events, about, right) <=>
              \/ LastOf(events', about, right)
              \/ Head(events) \in right /\ ~SomeOf(events', about)
<1> DEFINE rest == Tail(events)
<1>1. /\ Len(events) \in Nat /\ Len(events) > 0 /\ Len(rest) = Len(events) - 1
      /\ \A i \in 1..Len(rest) : rest[i] = events[i + 1]
      /\ Head(events) = events[1]
  BY HeadTailProperties, LenProperties, EmptySeq DEF Carried
<1> HIDE DEF rest
<1>2. \A i \in 2..Len(events) : i - 1 \in 1..Len(rest) /\ rest[i - 1] = events[i]
  BY <1>1
<1>3. \A i \in 1..Len(rest) : i + 1 \in 2..Len(events)
  BY <1>1
<1>4. SomeOf(events, about) <=> Head(events) \in about \/ SomeOf(rest, about)
  <2>1. ASSUME SomeOf(events, about), events[1] \notin about PROVE SomeOf(rest, about)
    <3>1. PICK i \in 1..Len(events) : events[i] \in about BY <2>1 DEF SomeOf
    <3>2. i \in 2..Len(events) BY <1>1, <2>1, <3>1
    <3> QED BY <1>2, <3>1, <3>2 DEF SomeOf
  <2>2. ASSUME SomeOf(rest, about) PROVE SomeOf(events, about)
    <3>1. PICK i \in 1..Len(rest) : rest[i] \in about BY <2>2 DEF SomeOf
    <3>2. i + 1 \in 1..Len(events) /\ events[i + 1] \in about BY <1>1, <3>1
    <3> QED BY <3>2 DEF SomeOf
  <2>3. events[1] \in about => SomeOf(events, about) BY <1>1 DEF SomeOf
  <2> QED BY <1>1, <2>1, <2>2, <2>3
<1>5. ASSUME LastOf(events, about, right), ~LastOf(rest, about, right)
      PROVE  events[1] \in right /\ ~SomeOf(rest, about)
  <2>1. PICK i \in 1..Len(events) :
            events[i] \in right /\ \A j \in 1..Len(events) : j > i => events[j] \notin about
    BY <1>5 DEF LastOf
  <2>2. CASE i = 1
    <3>1. \A k \in 1..Len(rest) : rest[k] \notin about BY <1>1, <1>3, <2>1, <2>2
    <3> QED BY <2>1, <2>2, <3>1 DEF SomeOf
  <2>3. CASE i # 1
    <3>1. i - 1 \in 1..Len(rest) /\ rest[i - 1] \in right BY <1>2, <2>1, <2>3
    <3>2. \A k \in 1..Len(rest) : k > i - 1 => rest[k] \notin about BY <1>1, <1>3, <2>1
    <3> QED BY <1>5, <3>1, <3>2 DEF LastOf
  <2> QED BY <2>2, <2>3
<1>6. ASSUME LastOf(rest, about, right) PROVE LastOf(events, about, right)
  <2>1. PICK i \in 1..Len(rest) :
            rest[i] \in right /\ \A j \in 1..Len(rest) : j > i => rest[j] \notin about
    BY <1>6 DEF LastOf
  <2>2. i + 1 \in 1..Len(events) /\ events[i + 1] \in right BY <1>1, <2>1
  <2>3. ASSUME NEW k \in 1..Len(events), k > i + 1 PROVE events[k] \notin about
    <3>1. k \in 2..Len(events) /\ k - 1 > i BY <2>3
    <3>2. k - 1 \in 1..Len(rest) /\ rest[k - 1] = events[k] BY <1>2, <3>1
    <3> QED BY <2>1, <3>1, <3>2
  <2> QED BY <2>2, <2>3 DEF LastOf
<1>7. ASSUME events[1] \in right, ~SomeOf(rest, about) PROVE LastOf(events, about, right)
  <2>1. \A k \in 1..Len(events) : k > 1 => events[k] \notin about BY <1>1, <1>2, <1>7 DEF SomeOf
  <2> QED BY <1>1, <1>7, <2>1 DEF LastOf
<1> QED BY <1>1, <1>4, <1>5, <1>6, <1>7 DEF rest

\* What is left of a bag without one copy, and what is in it with one more.
LEMMA TakenFromBag ==
  ASSUME NEW B, IsABag(B), NEW x, x \in BagToSet(B), NEW D, D = B (-) SetToBag({x})
  PROVE  /\ IsABag(D) /\ BagToSet(D) \subseteq BagToSet(B)
         /\ BagToSet(B) \ {x} \subseteq BagToSet(D)
         /\ \A y \in BagToSet(D) : D[y] > 1 => B[y] > 1
         /\ x \in BagToSet(D) => B[x] > 1
<1>1. \A y \in DOMAIN B : B[y] \in Nat /\ B[y] > 0 BY DEF IsABag
<1> DEFINE E == [e \in DOMAIN B |-> IF e \in {x} THEN B[e] - 1 ELSE B[e]]
<1>2. D = [d \in {d \in DOMAIN E : E[d] > 0} |-> E[d]]
  BY DEF (-), SetToBag, BagToSet
<1>3. DOMAIN E = DOMAIN B /\ \A y \in DOMAIN B : E[y] = IF y = x THEN B[y] - 1 ELSE B[y]
  OBVIOUS
<1> HIDE DEF E
<1>4. /\ DOMAIN D = {d \in DOMAIN B : E[d] > 0}
      /\ \A y \in DOMAIN D : D[y] = E[y]
  BY <1>2, <1>3
<1>5. IsABag(D) BY Unbagged
<1> QED BY <1>1, <1>3, <1>4, <1>5 DEF BagToSet

LEMMA PutInBag ==
  ASSUME NEW B, IsABag(B), NEW x, NEW C, C = B (+) SetToBag({x})
  PROVE  /\ IsABag(C) /\ BagToSet(C) = BagToSet(B) \cup {x}
         /\ \A y \in BagToSet(C) : C[y] > 1 => y \in BagToSet(B) /\ (y = x \/ B[y] > 1)
<1>1. \A y \in DOMAIN B : B[y] \in Nat /\ B[y] > 0 BY DEF IsABag
<1>2. IsABag(C) /\ BagToSet(C) = BagToSet(B) \cup {x} BY Bagged
<1>3. \A y \in DOMAIN C : C[y] = (IF y \in DOMAIN B THEN B[y] ELSE 0) + (IF y = x THEN 1 ELSE 0)
  BY <1>2 DEF (+), SetToBag, BagToSet
<1> QED BY <1>1, <1>2, <1>3 DEF BagToSet

\* Fewer requests cross less.
LEMMA FewerCross ==
  ASSUME IsABag(tasks), NEW t \in InFlight, NEW D, D = tasks (-) SetToBag({t}), Crossing(D)
  PROVE  Crossing(tasks)
BY TakenFromBag DEF Crossing, InFlight

\* An answer crosses what its request crossed.
LEMMA AnswerCrosses ==
  ASSUME TypeOK, Carried, NEW t \in InFlight, t.answer = None, NEW a,
         NEW C, C = Without(t) (+) SetToBag({[t EXCEPT !.answer = a]}), Crossing(C)
  PROVE  Crossing(tasks)
<1> DEFINE u == [t EXCEPT !.answer = a]
           D == tasks (-) SetToBag({t})
<1>1. t \in Messages BY DEF Carried, Asked
<1>2. u.kind = t.kind /\ u.key = t.key BY <1>1 DEF Messages
<1>3. IsABag(tasks) /\ t \in BagToSet(tasks) BY DEF TypeOK, InFlight
<1>4. C = D (+) SetToBag({u}) BY DEF Without
<1> HIDE DEF u
<1>5. /\ IsABag(D) /\ BagToSet(D) \subseteq BagToSet(tasks)
      /\ \A y \in BagToSet(D) : D[y] > 1 => tasks[y] > 1
      /\ t \in BagToSet(D) => tasks[t] > 1
  BY <1>3, TakenFromBag
<1> HIDE DEF D
<1>6. /\ BagToSet(C) = BagToSet(D) \cup {u}
      /\ \A y \in BagToSet(C) : C[y] > 1 => y \in BagToSet(D) /\ (y = u \/ D[y] > 1)
  BY <1>4, <1>5, PutInBag
<1>7. CASE u = t
  <2>1. BagToSet(C) \subseteq BagToSet(tasks) /\ \A y \in BagToSet(C) : C[y] > 1 => tasks[y] > 1
    BY <1>3, <1>5, <1>6, <1>7
  <2> QED BY <2>1 DEF Crossing
<1>8. PICK x \in BagToSet(C) :
          /\ x.kind \in {"save", "unsave"}
          /\ \/ C[x] > 1
             \/ \E y \in BagToSet(C) \ {x} : y.kind \in LikedKinds /\ y.key = x.key
  BY DEF Crossing, LikedKinds
<1>9. CASE u # t /\ C[x] > 1
  <2>1. x \in BagToSet(D) /\ (x = u \/ D[x] > 1) BY <1>6, <1>9
  <2>2. CASE D[x] > 1
    BY <1>5, <1>8, <2>1, <2>2 DEF Crossing
  <2>3. CASE x = u
    <3>1. x \in BagToSet(tasks) \ {t} BY <1>2, <1>5, <1>9, <2>1, <2>3
    <3>2. x.key = t.key /\ t.kind = x.kind BY <1>2, <2>3
    <3> QED BY <1>3, <1>8, <3>1, <3>2 DEF Crossing
  <2> QED BY <2>1, <2>2, <2>3
<1>10. ASSUME u # t, NEW y \in BagToSet(C) \ {x}, y.kind \in LikedKinds, y.key = x.key
      PROVE  Crossing(tasks)
  <2>1. CASE x = u
    <3>1. y \in BagToSet(D) BY <1>6, <1>10, <2>1
    <3>2. CASE y = t
      BY <1>2, <1>3, <1>5, <1>8, <2>1, <3>1, <3>2 DEF Crossing
    <3>3. CASE y # t
      BY <1>2, <1>3, <1>5, <1>8, <1>10, <2>1, <3>1, <3>3 DEF Crossing, LikedKinds
    <3> QED BY <3>2, <3>3
  <2>2. CASE x # u
    <3>1. x \in BagToSet(D) BY <1>6, <2>2
    <3>2. CASE y = u /\ x = t
      BY <1>3, <1>5, <1>8, <3>1, <3>2 DEF Crossing
    <3>3. CASE y = u /\ x # t
      BY <1>2, <1>3, <1>5, <1>8, <1>10, <3>1, <3>3 DEF Crossing, LikedKinds
    <3>4. CASE y # u
      BY <1>5, <1>6, <1>8, <1>10, <3>1, <3>4 DEF Crossing, LikedKinds
    <3> QED BY <3>2, <3>3, <3>4
  <2> QED BY <2>1, <2>2
<1> QED BY <1>8, <1>9, <1>10, <1>7

\* What is asked for is in flight, with what was.
LEMMA RequestFlies ==
  ASSUME TypeOK, NEW wanted, Request(wanted)
  PROVE  /\ InFlight' = InFlight \cup {t \in wanted : t.kind \in followed}
         /\ crossed' = (crossed \/ Crossing(tasks'))
<1> DEFINE S == {t \in wanted : t.kind \in followed}
<1>1. tasks' = tasks (+) SetToBag(S) /\ crossed' = (crossed \/ Crossing(tasks')) BY DEF Request
<1> HIDE DEF S
<1>2. BagToSet(tasks') = BagToSet(tasks) \cup S BY <1>1, Bagged DEF TypeOK
<1> QED BY <1>1, <1>2 DEF InFlight, S

\* What a refresh, a sign from the player or a new window asks for.
LEMMA AskingFlies ==
  ASSUME IInv, NEW t \in Tracks \cup {None}, followed' = followed, AskAbout(t)
  PROVE  /\ InFlight \subseteq InFlight'
         /\ "artwork" \in followed /\ t # None /\ art' = None => Asking("artwork", t) \in InFlight'
         /\ "liked" \in followed /\ library /\ IsSpotify(t) => Asking("liked", t) \in InFlight'
         /\ "lyrics" \in followed /\ open' /\ t # None => Asking("lyrics", Song[t]) \in InFlight'
         /\ \A kind \in {"queue", "context"} :
               kind \in followed /\ open' /\ IsSpotify(t) => Asking(kind, None) \in InFlight'
         /\ \A m \in InFlight' \ InFlight : m.answer = None
         /\ crossed' = (crossed \/ Crossing(tasks'))
<1> DEFINE W == RequestArtwork(t) \cup RequestLiked(t) \cup RequestPlayback(t) \cup RequestLyrics(t)
<1>1. Request(W) BY DEF AskAbout
<1>2. /\ t # None /\ art' = None => Asking("artwork", t) \in W
      /\ library /\ IsSpotify(t) => Asking("liked", t) \in W
      /\ open' /\ t # None => Asking("lyrics", Song[t]) \in W
      /\ open' /\ IsSpotify(t) => Asking("queue", None) \in W /\ Asking("context", None) \in W
  BY DEF RequestArtwork, RequestLiked, RequestPlayback, RequestLyrics
<1> HIDE DEF W
<1>3. InFlight' = InFlight \cup {m \in W : m.kind \in followed}
      /\ crossed' = (crossed \/ Crossing(tasks'))
  BY <1>1, RequestFlies DEF IInv
<1>4. \A kind, key : Asking(kind, key).kind = kind BY DEF Asking
<1>5. \A m \in W : m.answer = None
  BY DEF W, RequestArtwork, RequestLiked, RequestPlayback, RequestLyrics, Asking
<1> QED BY <1>2, <1>3, <1>4, <1>5

\* A service answers one request, for which another takes its place.
LEMMA AnswerReplaces ==
  ASSUME IInv, Answer
  PROVE  \E t \in InFlight : \E a \in Answers(t) :
            /\ t.answer = None /\ (t.kind \in UsesClient => ClientFree)
            /\ LET u == [t EXCEPT !.answer = a]
               IN  /\ u.kind = t.kind /\ u.key = t.key /\ u.answer = a
                   /\ InFlight \ {t} \subseteq InFlight' /\ u \in InFlight'
                   /\ InFlight' \subseteq InFlight \cup {u}
                   /\ tasks' = Without(t) (+) SetToBag({u})
            /\ saved' = CASE t.kind = "save" -> saved \cup {t.key}
                          [] t.kind = "unsave" -> saved \ {t.key}
                          [] OTHER -> saved
<1>1. \E t \in InFlight : \E a \in Answers(t) :
          /\ t.answer = None /\ (t.kind \in UsesClient => ClientFree)
          /\ tasks' = Without(t) (+) SetToBag({[t EXCEPT !.answer = a]})
          /\ saved' = CASE t.kind = "save" -> saved \cup {t.key}
                        [] t.kind = "unsave" -> saved \ {t.key}
                        [] OTHER -> saved
  BY DEF Answer
<1>2. ASSUME NEW t \in InFlight, NEW a \in Answers(t),
             tasks' = Without(t) (+) SetToBag({[t EXCEPT !.answer = a]})
      PROVE  LET u == [t EXCEPT !.answer = a]
             IN  /\ u.kind = t.kind /\ u.key = t.key /\ u.answer = a
                 /\ InFlight \ {t} \subseteq InFlight' /\ u \in InFlight'
                 /\ InFlight' \subseteq InFlight \cup {u}
                 /\ tasks' = Without(t) (+) SetToBag({u})
  <2> DEFINE u == [t EXCEPT !.answer = a]
             D == Without(t)
  <2>1. u.kind = t.kind /\ u.key = t.key /\ u.answer = a
    BY DEF IInv, Carried, Asked, Messages
  <2>2. /\ IsABag(D) /\ BagToSet(D) \subseteq BagToSet(tasks)
        /\ BagToSet(tasks) \ {t} \subseteq BagToSet(D)
    <3>1. IsABag(tasks) /\ t \in BagToSet(tasks) BY DEF IInv, TypeOK, InFlight
    <3> QED BY <3>1, TakenFromBag DEF Without
  <2>3. tasks' = D (+) SetToBag({u}) BY <1>2
  <2> HIDE DEF u, D
  <2>4. BagToSet(tasks') = BagToSet(D) \cup {u} BY <2>2, <2>3, PutInBag
  <2> QED BY <2>1, <2>2, <2>3, <2>4 DEF InFlight, u, D
<1> QED BY <1>1, <1>2

\* The task that reports is gone, unless another asks the same, and the rest stay.
LEMMA ReportTells ==
  ASSUME IInv, Report
  PROVE  \E t \in InFlight :
            /\ t.answer # None /\ tasks' = Without(t)
            /\ InFlight \ {t} \subseteq InFlight' /\ InFlight' \subseteq InFlight
            /\ LET e == [kind |-> t.kind, key |-> t.key, answer |-> t.answer]
               IN  e \in Sent /\ events' = Append(events, e)
                   /\ e.kind = t.kind /\ e.key = t.key /\ e.answer = t.answer
<1>1. PICK t \in InFlight :
          t.answer # None /\ tasks' = Without(t) /\ Sends(t.kind, t.key, t.answer)
  BY DEF Report
<1>2. [kind |-> t.kind, key |-> t.key, answer |-> t.answer] \in Sent
  BY <1>1 DEF IInv, Carried, Asked, Sent, Messages, Kinds
<1>3. InFlight \ {t} \subseteq InFlight' /\ InFlight' \subseteq InFlight
  BY <1>1, TakenFromBag DEF Without, IInv, TypeOK, InFlight
<1> QED BY <1>1, <1>2, <1>3 DEF Sends

\* What is awaited stays awaited until it has been handled.
LEMMA AwaitedStays ==
  ASSUME IInv, IInv', [Next]_vars, failures' = 0, NEW kind \in Kinds, NEW key, Awaited(kind, key)
  PROVE  \/ Awaited(kind, key)'
         \/ Handle({kind}) /\ Handled.key = key
<1> DEFINE A == About({kind}, key)
<1>1. A = {m \in Sent : m.kind = kind /\ m.key = key} BY DEF About, Of
<1>2. Awaited(kind, key) <=> Flying({kind}, key) \/ SomeOf(events, A)
  BY DEF Awaited
<1>3. Awaited(kind, key)' <=> Flying({kind}, key)' \/ SomeOf(events', A)
  BY DEF Awaited, About, Of, Sent
<1> HIDE DEF A
<1>4. ASSUME InFlight \subseteq InFlight', events' = events PROVE Awaited(kind, key)'
  BY <1>2, <1>3, <1>4 DEF Flying
<1>5. ASSUME NEW e \in Sent, InFlight \subseteq InFlight', events' = Append(events, e)
      PROVE Awaited(kind, key)'
  <2>1. SomeOf(events, A) => SomeOf(events', A) BY <1>5, SentSays DEF IInv
  <2> QED BY <1>2, <1>3, <1>5, <2>1 DEF Flying
<1>6. ASSUME NEW kinds, Handle(kinds), InFlight \subseteq InFlight', ~Awaited(kind, key)'
      PROVE  Handle({kind}) /\ Handled.key = key
  <2>1. events # <<>> /\ events' = Tail(events) BY <1>6 DEF Handle
  <2>2. SomeOf(events, A) <=> Head(events) \in A \/ SomeOf(events', A)
    BY <2>1, TakenSays DEF IInv
  <2>3. Head(events) \in A BY <1>2, <1>3, <1>6, <2>2 DEF Flying
  <2> QED BY <1>1, <1>6, <2>3 DEF Handle, Handled
<1>7. \A wanted : Request(wanted) => InFlight \subseteq InFlight' BY RequestFlies DEF IInv
<1>8. \A t \in Tracks \cup {None} : AskAbout(t) => InFlight \subseteq InFlight'
  BY <1>7 DEF AskAbout
<1>9. CASE Play \/ Pause
  <2>1. PICK e \in Sent : events' = Append(events, e)
    <3>1. CASE Play
      <4>1. playing' \in Tracks /\ Sends("track", playing', None) BY <3>1 DEF Play, Starts
      <4> QED BY <4>1, Announcements DEF Sends
    <3>2. CASE Pause
      BY <3>2, Announcements DEF Pause, Sends
    <3> QED BY <1>9, <3>1, <3>2
  <2>2. InFlight' = InFlight BY <1>9 DEF Play, Pause, InFlight
  <2> QED BY <1>5, <2>1, <2>2
<1>10. CASE Attach \/ Rescan \/ Detach \/ Window \/ UNCHANGED vars
  <2>1. events' = events
    BY <1>10 DEF Attach, Rescan, Detach, flight, vars, Window, Asks, OpenWindow,
       CloseWindow,
                 AskContents, ToggleLike
  <2>2. (\E wanted : Request(wanted)) \/ tasks' = tasks
    BY <1>10 DEF Attach, Rescan, Refresh, AskAbout, Detach, flight, vars, Window,
       OpenWindow,
                 CloseWindow, AskContents, ToggleLike
  <2>3. InFlight \subseteq InFlight' BY <1>7, <2>2 DEF InFlight
  <2> QED BY <1>4, <2>1, <2>3
<1>11. CASE Answer
  <2>1. PICK t \in InFlight : \E a \in Answers(t) :
            LET u == [t EXCEPT !.answer = a]
            IN  u.kind = t.kind /\ u.key = t.key /\ InFlight \ {t} \subseteq InFlight' /\ u \in InFlight'
    BY <1>11, AnswerReplaces
  <2>2. PICK u \in InFlight' : u.kind = t.kind /\ u.key = t.key /\ InFlight \ {t} \subseteq InFlight'
    BY <2>1
  <2>3. Flying({kind}, key) => Flying({kind}, key)' BY <2>2 DEF Flying
  <2>4. events' = events BY <1>11 DEF Answer
  <2> QED BY <1>2, <1>3, <2>3, <2>4
<1>12. CASE Report
  <2>1. PICK t \in InFlight :
            /\ InFlight \ {t} \subseteq InFlight'
            /\ LET e == [kind |-> t.kind, key |-> t.key, answer |-> t.answer]
               IN  e \in Sent /\ events' = Append(events, e) /\ e.kind = t.kind /\ e.key = t.key
    BY <1>12, ReportTells
  <2>2. PICK e \in Sent : events' = Append(events, e) /\ e.kind = t.kind /\ e.key = t.key
    BY <2>1
  <2>3. SomeOf(events', A) <=> SomeOf(events, A) \/ e \in A BY <2>2, SentSays DEF IInv
  <2> QED BY <1>1, <1>2, <1>3, <2>1, <2>2, <2>3 DEF Flying
<1>13. CASE Fail
  BY <1>13 DEF Fail, IInv, TypeOK
<1>14. CASE HandleTrack \/ HandleStatus
  <2>1. (\E kinds : Handle(kinds)) /\ \E wanted : Request(wanted)
    BY <1>14 DEF HandleTrack, HandleStatus, Refresh, AskAbout
  <2> QED BY <1>6, <1>7, <2>1
<1>15. CASE \/ HandleLiked \/ HandleArtwork \/ HandleLyrics \/ HandleQueue \/ HandleContext
            \/ HandleContents \/ HandleUnavailable
  <2>1. (\E kinds : Handle(kinds)) /\ InFlight' = InFlight
    BY <1>15 DEF HandleLiked, HandleArtwork, HandleLyrics, HandleQueue, HandleContext,
                 HandleContents, HandleUnavailable, InFlight
  <2> QED BY <1>6, <2>1
<1> QED BY <1>9, <1>10, <1>11, <1>12, <1>13, <1>14, <1>15 DEF Next, Players, Services, Handlers

\* What is not handled stays, and at most one event more is sent.
LEMMA StepSends ==
  ASSUME IInv, Play \/ Pause \/ Window \/ Services \/ UNCHANGED vars
  PROVE  events' = events \/ \E e \in Sent : events' = Append(events, e)
<1>1. CASE Play
  <2>1. playing' \in Tracks /\ Sends("track", playing', None) BY <1>1 DEF Play, Starts
  <2> QED BY <2>1, Announcements DEF Sends
<1>2. CASE Pause
  BY <1>2, Announcements DEF Pause, Sends
<1>3. CASE Report
  <2>1. PICK t \in InFlight : Sends(t.kind, t.key, t.answer) /\ t.answer # None
    BY <1>3 DEF Report
  <2>2. [kind |-> t.kind, key |-> t.key, answer |-> t.answer] \in Sent
    BY <2>1 DEF IInv, Carried, Asked, Sent, Messages, Kinds
  <2> QED BY <2>1, <2>2 DEF Sends
<1>4. CASE Answer
  BY <1>4 DEF Answer
<1>5. CASE Fail
  BY <1>5, Announcements DEF Fail, Sends
<1>6. CASE Window \/ UNCHANGED vars
  BY <1>6 DEF Window, Asks, OpenWindow, CloseWindow, AskContents, ToggleLike, vars,
     flight
<1> QED BY <1>1, <1>2, <1>3, <1>4, <1>5, <1>6 DEF Services

LEMMA NotHandled ==
  ASSUME Carried, events' = events \/ \E e \in Sent : events' = Append(events, e), NEW kinds
  PROVE  ~Handle(kinds)
<1> SUFFICES ASSUME Handle(kinds) PROVE FALSE OBVIOUS
<1>1. Len(events') = Len(events) - 1
  BY HeadTailProperties DEF Handle, Carried
<1>2. Len(events) \in Nat BY LenProperties DEF Carried
<1>3. Len(events') = Len(events) \/ Len(events') = Len(events) + 1
  BY AppendProperties DEF Carried
<1> QED BY <1>1, <1>2, <1>3

\* The steps that turn to a track, and what they ask about it.
LEMMA RefreshAsks ==
  ASSUME IInv, Attach \/ Rescan \/ HandleTrack
  PROVE  \E t \in Tracks \cup {None}, was \in {None, SongOf(track)} :
             Refresh(t, was) /\ followed' = followed
<1>1. CASE Attach
  <2>1. playing' \in Tracks \cup {None} /\ Refresh(playing', None) /\ followed' = followed
    BY <1>1 DEF Attach, Starts
  <2> QED BY <2>1
<1>2. CASE Rescan
  <2>1. playing \in Tracks \cup {None} /\ Refresh(playing, SongOf(track)) /\ followed' = followed
    BY <1>2 DEF Rescan, IInv, TypeOK
  <2> QED BY <2>1
<1>3. CASE HandleTrack
  <2>1. Handled \in Sent /\ Handled.kind = "track" BY <1>3, HandledOne DEF HandleTrack, IInv
  <2> DEFINE t == IF attached THEN Handled.key ELSE None
  <2>2. t \in Tracks \cup {None} BY <2>1 DEF Sent
  <2>3. Refresh(t, SongOf(track)) /\ followed' = followed BY <1>3 DEF HandleTrack, Handle
  <2> HIDE DEF t
  <2> QED BY <2>2, <2>3
<1> QED BY <1>1, <1>2, <1>3

\* A picture that is not there is being fetched.
LEMMA ArtStep ==
  ASSUME IInv, IInv', [Next]_vars, failures' = 0, ArtComes
  PROVE  ArtComes'
<1> SUFFICES ASSUME "artwork" \in followed', track' # None, art' = None, NEW key,
   key = track'
             PROVE  Awaited("artwork", key)'
  BY DEF ArtComes, Awaited, Flying, About, Of, Sent
<1>1. ASSUME NEW t, Asking("artwork", t) \in InFlight', t = track'
      PROVE  Awaited("artwork", key)'
  BY <1>1 DEF Awaited, Flying, Asking
<1>2. CASE Attach \/ Rescan \/ HandleTrack
  <2>1. PICK t \in Tracks \cup {None}, was \in {None, SongOf(track)} :
            Refresh(t, was) /\ followed' = followed
    BY <1>2, RefreshAsks
  <2>2. AskAbout(t) /\ track' = t BY <2>1 DEF Refresh
  <2> QED BY <1>1, <2>1, <2>2, AskingFlies
<1>3. CASE Detach
  BY <1>3 DEF Detach
<1>4. CASE HandleArtwork
  <2>1. Handled \in Sent /\ Handled.kind = "artwork" BY <1>4, HandledOne DEF HandleArtwork, IInv
  <2>2. Handled.answer.of = Handled.key /\ Handled.key \in Tracks
    BY <2>1 DEF Sent, Answering, Keyed
  <2>3. followed' = followed /\ track' = track BY <1>4 DEF HandleArtwork, Handle
  <2>4. art' = (IF track = Handled.key THEN Handled.key ELSE art) BY <1>4, <2>2 DEF HandleArtwork
  <2>5. Handled.key # track /\ art = None BY <2>2, <2>3, <2>4, RequestsAssumption
  <2>6. Awaited("artwork", key) BY <2>3, <2>5 DEF ArtComes
  <2> QED BY <2>3, <2>5, <2>6, AwaitedStays DEF Kinds
<1>5. ASSUME UNCHANGED <<followed, track, art>>, ~Handle({"artwork"})
      PROVE  Awaited("artwork", key)'
  <2>1. Awaited("artwork", key) BY <1>5 DEF ArtComes
  <2> QED BY <1>5, <2>1, AwaitedStays DEF Kinds
<1>6. CASE Play \/ Pause \/ Window \/ Services \/ UNCHANGED vars
  <2>1. UNCHANGED <<followed, track, art>>
    BY <1>6 DEF Play, Pause, Starts, Window, Asks, OpenWindow, CloseWindow, AskContents,
                ToggleLike, Services, Answer, Report, Fail, vars, player, bounds, services
  <2>2. events' = events \/ \E e \in Sent : events' = Append(events, e)
    BY <1>6, StepSends DEF Players
  <2>3. ~Handle({"artwork"}) BY <2>2, NotHandled DEF IInv
  <2> QED BY <1>5, <2>1, <2>3
<1>7. CASE \/ HandleStatus \/ HandleLiked \/ HandleLyrics \/ HandleQueue \/ HandleContext
           \/ HandleContents \/ HandleUnavailable
  <2>1. UNCHANGED <<followed, track, art>>
    BY <1>7 DEF HandleStatus, HandleLiked, HandleLyrics, HandleQueue, HandleContext,
                HandleContents, HandleUnavailable, Handle, player
  <2>2. ~Handle({"artwork"})
    BY <1>7 DEF HandleStatus, HandleLiked, HandleLyrics, HandleQueue, HandleContext,
                HandleContents, HandleUnavailable, Handle
  <2> QED BY <1>5, <2>1, <2>2
<1> QED BY <1>2, <1>3, <1>4, <1>6, <1>7 DEF Next, Players, Handlers

\* Lyrics that are not there are being fetched, while the window is open.
LEMMA LyricsStep ==
  ASSUME IInv, IInv', [Next]_vars, failures' = 0, LyricsCome
  PROVE  LyricsCome'
<1> SUFFICES ASSUME "lyrics" \in followed', open', track' # None, lyrics' = None,
                    NEW key, key = Song[track']
             PROVE  Awaited("lyrics", key)'
  BY DEF LyricsCome, Awaited, Flying, About, Of, Sent
<1>1. ASSUME NEW t, Asking("lyrics", Song[t]) \in InFlight', t = track'
      PROVE  Awaited("lyrics", key)'
  BY <1>1 DEF Awaited, Flying, Asking
<1>2. CASE Attach \/ Rescan \/ HandleTrack
  <2>1. PICK t \in Tracks \cup {None}, was \in {None, SongOf(track)} :
            Refresh(t, was) /\ followed' = followed
    BY <1>2, RefreshAsks
  <2>2. AskAbout(t) /\ track' = t BY <2>1 DEF Refresh
  <2> QED BY <1>1, <2>1, <2>2, AskingFlies
<1>3. CASE Detach
  BY <1>3 DEF Detach
<1>4. CASE OpenWindow
  <2>1. Request(RequestPlayback(track) \cup RequestLyrics(track)) /\ open' = TRUE
        /\ UNCHANGED <<followed, track>>
    BY <1>4 DEF OpenWindow, Asks, player
  <2>2. Asking("lyrics", Song[track]) \in RequestPlayback(track) \cup RequestLyrics(track)
    BY <2>1 DEF RequestLyrics
  <2>3. Asking("lyrics", Song[track]).kind \in followed BY <2>1 DEF Asking
  <2>4. Asking("lyrics", Song[track]) \in InFlight' BY <2>1, <2>2, <2>3, RequestFlies DEF IInv
  <2> QED BY <1>1, <2>1, <2>4
<1>5. CASE CloseWindow
  BY <1>5 DEF CloseWindow
<1>6. CASE HandleLyrics
  <2>1. Handled \in Sent /\ Handled.kind = "lyrics" BY <1>6, HandledOne DEF HandleLyrics, IInv
  <2>2. Handled.answer.of = Handled.key /\ Handled.key \in Songs
    BY <2>1 DEF Sent, Answering, Keyed
  <2>3. UNCHANGED <<followed, track, open>> BY <1>6 DEF HandleLyrics, Handle, player
  <2>4. lyrics' = (IF SongOf(track) = Handled.key THEN Handled.key ELSE lyrics)
    BY <1>6, <2>2 DEF HandleLyrics
  <2>5. track \in Tracks /\ SongOf(track) = Song[track]
    BY <2>3 DEF IInv, TypeOK, SongOf
  <2>6. Handled.key # None BY <2>2, RequestsAssumption DEF Songs
  <2>7. Handled.key # Song[track] /\ lyrics = None BY <2>4, <2>5, <2>6
  <2>8. Awaited("lyrics", key) BY <2>3, <2>7 DEF LyricsCome
  <2> QED BY <2>3, <2>7, <2>8, AwaitedStays DEF Kinds
<1>7. ASSUME UNCHANGED <<followed, track, lyrics, open>>, ~Handle({"lyrics"})
      PROVE  Awaited("lyrics", key)'
  <2>1. Awaited("lyrics", key) BY <1>7 DEF LyricsCome
  <2> QED BY <1>7, <2>1, AwaitedStays DEF Kinds
<1>8. CASE Play \/ Pause \/ AskContents \/ ToggleLike \/ Services \/ UNCHANGED vars
  <2>1. UNCHANGED <<followed, track, lyrics, open>>
    BY <1>8 DEF Play, Pause, Starts, Asks, AskContents, ToggleLike, Services, Answer,
       Report,
                Fail, vars, player, spotify, bounds, services
  <2>2. events' = events \/ \E e \in Sent : events' = Append(events, e)
    BY <1>8, StepSends DEF Players, Window
  <2>3. ~Handle({"lyrics"}) BY <2>2, NotHandled DEF IInv
  <2> QED BY <1>7, <2>1, <2>3
<1>9. CASE \/ HandleStatus \/ HandleLiked \/ HandleArtwork \/ HandleQueue \/ HandleContext
           \/ HandleContents \/ HandleUnavailable
  <2>1. UNCHANGED <<followed, track, lyrics, open>>
    BY <1>9 DEF HandleStatus, HandleLiked, HandleArtwork, HandleQueue, HandleContext,
                HandleContents, HandleUnavailable, Handle, player, spotify
  <2>2. ~Handle({"lyrics"})
    BY <1>9 DEF HandleStatus, HandleLiked, HandleArtwork, HandleQueue, HandleContext,
                HandleContents, HandleUnavailable, Handle
  <2> QED BY <1>7, <2>1, <2>2
<1> QED BY <1>2, <1>3, <1>4, <1>5, <1>6, <1>8, <1>9 DEF Next, Players, Window, Handlers

\* As long as nothing fails the library is not refused.
LEMMA LibraryStep ==
  ASSUME IInv, [Next]_vars, failures' = 0, LibraryStays
  PROVE  LibraryStays'
<1> DEFINE A == Of({"unavailable"})
<1>1. A = {m \in Sent : m.kind = "unavailable"} BY DEF Of
<1>2. library /\ ~SomeOf(events, A) BY DEF LibraryStays
<1>3. SUFFICES library' /\ ~SomeOf(events', A) BY DEF LibraryStays, Of, Sent
<1> HIDE DEF A
<1>4. ASSUME library' = library, events' = events \/ \E e \in Sent \ A : events' = Append(events, e)
      PROVE  library' /\ ~SomeOf(events', A)
  BY <1>2, <1>4, SentSays DEF IInv
<1>5. ASSUME NEW kinds, Handle(kinds)
      PROVE  ~SomeOf(events', A) /\ Handled \notin A
  BY <1>2, <1>5, TakenSays DEF IInv, Handle, Handled
<1>6. CASE Play \/ Pause
  <2>1. PICK e \in Sent : events' = Append(events, e) /\ e.kind \in {"track", "status"}
    <3>1. CASE Play
      <4>1. playing' \in Tracks /\ Sends("track", playing', None) BY <3>1 DEF Play, Starts
      <4> QED BY <4>1, Announcements DEF Sends
    <3>2. CASE Pause
      BY <3>2, Announcements DEF Pause, Sends
    <3> QED BY <1>6, <3>1, <3>2
  <2>2. library' = library BY <1>6 DEF Play, Pause, caps
  <2> QED BY <1>1, <1>4, <2>1, <2>2
<1>7. CASE Attach \/ Rescan \/ Detach \/ Window \/ Answer \/ UNCHANGED vars
  <2>1. library' = library /\ events' = events
    BY <1>7 DEF Attach, Rescan, Refresh, AskAbout, Detach, flight, vars, Window, Asks,
       OpenWindow,
                CloseWindow, AskContents, ToggleLike, Answer, caps
  <2> QED BY <1>4, <2>1
<1>8. CASE Report
  <2>1. library' = library BY <1>8 DEF Report, caps
  <2>2. PICK t \in InFlight :
            LET e == [kind |-> t.kind, key |-> t.key, answer |-> t.answer]
            IN  e \in Sent /\ events' = Append(events, e) /\ e.kind = t.kind
    BY <1>8, ReportTells
  <2>3. t.kind # "unavailable" BY DEF IInv, TypeOK, Kinds
  <2> QED BY <1>1, <1>4, <2>1, <2>2, <2>3
<1>9. CASE Fail
  BY <1>9 DEF Fail, IInv, TypeOK
<1>10. CASE HandleUnavailable
  <2>1. Handle({"unavailable"}) BY <1>10 DEF HandleUnavailable
  <2>2. Handled \in Sent /\ Handled.kind = "unavailable" BY <2>1, HandledOne DEF IInv
  <2>3. Handled \notin A BY <1>5, <2>1
  <2> QED BY <1>1, <2>2, <2>3
<1>11. CASE \/ HandleTrack \/ HandleStatus \/ HandleLiked \/ HandleArtwork \/ HandleLyrics
            \/ HandleQueue \/ HandleContext \/ HandleContents
  <2>1. library' = library /\ \E kinds : Handle(kinds)
    BY <1>11 DEF HandleTrack, HandleStatus, HandleLiked, HandleArtwork, HandleLyrics,
       HandleQueue,
                 HandleContext, HandleContents, Refresh, AskAbout, caps
  <2> QED BY <1>2, <1>5, <2>1
<1> QED BY <1>6, <1>7, <1>8, <1>9, <1>10, <1>11 DEF Next, Players, Services, Handlers

\* However answers and tracks overtake one another, the last answer about what
\* plays is what Spotify plays.
LEMMA PlaybackStep ==
  ASSUME IInv, IInv', [Next]_vars, failures' = 0, NEW kind \in {"queue", "context"},
         PlaybackComes(kind)
  PROVE  PlaybackComes(kind)'
<1> DEFINE A == Of({kind})
           T == Of({"track"})
           R(v) == Saying(kind, v)
           W == Value(kind)
           Good == /\ \A m \in InFlight' : m.kind = kind => m.answer.of = W'
                   /\ \/ \E m \in InFlight' : m.kind = kind
                      \/ LastOf(events', A, R(W'))
                      \/ Shown(kind)' = W' /\ ~SomeOf(events', A)
<1>1. SUFFICES ASSUME kind \in followed', open', IsSpotify(track'), ~SomeOf(events', T),
                      \A m \in InFlight' : m.kind = kind => m.answer # None
               PROVE  Good
  BY DEF PlaybackComes, StillAsking, Of, Sent, IsSpotify, Saying
<1>2. A = {m \in Sent : m.kind = kind} /\ T = {m \in Sent : m.kind = "track"}
      /\ \A v : R(v) = {m \in A : m.answer.of = v}
  BY DEF Of, Saying
<1>3. kind \in followed /\ open /\ IsSpotify(track) /\ ~SomeOf(events, T)
      /\ (\A m \in InFlight : m.kind = kind => m.answer # None) =>
        /\ \A m \in InFlight : m.kind = kind => m.answer.of = W
        /\ \/ \E m \in InFlight : m.kind = kind
           \/ LastOf(events, A, R(W))
           \/ Shown(kind) = W /\ ~SomeOf(events, A)
  BY DEF PlaybackComes, StillAsking
<1> DEFINE Same == UNCHANGED <<followed, open, track, account>>
<1>4. Same => W' = W BY DEF Value
<1>5. UNCHANGED <<queue, context>> => Shown(kind)' = Shown(kind) BY DEF Shown
<1> HIDE DEF A, T, R, W
\* Whoever asks again has not been answered.
<1>6. Asking(kind, None) \in InFlight' => FALSE BY <1>1 DEF Asking
<1>7. CASE Attach \/ Rescan \/ HandleTrack
  <2>1. PICK t \in Tracks \cup {None}, was \in {None, SongOf(track)} :
            Refresh(t, was) /\ followed' = followed
    BY <1>7, RefreshAsks
  <2>2. AskAbout(t) /\ track' = t BY <2>1 DEF Refresh
  <2> QED BY <1>1, <1>6, <2>1, <2>2, AskingFlies
<1>8. CASE HandleStatus
  <2>1. AskAbout(track) /\ track' = track /\ followed' = followed BY <1>8 DEF HandleStatus, Handle
  <2>2. track \in Tracks \cup {None} BY DEF IInv, TypeOK
  <2> QED BY <1>1, <1>6, <2>1, <2>2, AskingFlies
<1>9. CASE OpenWindow
  <2>1. Request(RequestPlayback(track) \cup RequestLyrics(track)) /\ open' = TRUE
        /\ UNCHANGED <<followed, track>>
    BY <1>9 DEF OpenWindow, Asks, player
  <2>2. Asking(kind, None) \in RequestPlayback(track) \cup RequestLyrics(track)
    BY <1>1, <2>1 DEF RequestPlayback
  <2>3. Asking(kind, None).kind = kind BY DEF Asking
  <2> QED BY <1>1, <1>6, <2>1, <2>2, <2>3, RequestFlies DEF IInv
<1>10. CASE Detach \/ CloseWindow
  BY <1>1, <1>10, RequestsAssumption DEF Detach, CloseWindow, IsSpotify
<1>11. CASE Play
  <2>1. playing' \in Tracks /\ Sends("track", playing', None) BY <1>11 DEF Play, Starts
  <2> DEFINE e == [kind |-> "track", key |-> playing', answer |-> None]
  <2>2. e \in Sent /\ e.kind = "track" /\ events' = Append(events, e)
    BY <2>1, Announcements DEF Sends
  <2> HIDE DEF e
  <2>3. e \in T BY <1>2, <2>2
  <2> QED BY <1>1, <2>2, <2>3, SentSays DEF IInv
\* What is in flight and was sent about it stays, but for what another step adds.
<1>12. ASSUME Same, UNCHANGED <<queue, context>>,
              \A m : m.kind = kind => (m \in InFlight' <=> m \in InFlight),
              events' = events \/ \E e \in Sent : e.kind # kind /\ events' = Append(events, e)
       PROVE  Good
  <2>1. ~SomeOf(events, T) /\ (SomeOf(events', A) <=> SomeOf(events, A))
        /\ (LastOf(events, A, R(W)) => LastOf(events', A, R(W)))
    <3>1. CASE events' = events BY <1>1, <3>1
    <3>2. ASSUME NEW e \in Sent, e.kind # kind, events' = Append(events, e)
          PROVE  ~SomeOf(events, T) /\ (SomeOf(events', A) <=> SomeOf(events, A))
                 /\ (LastOf(events, A, R(W)) => LastOf(events', A, R(W)))
      <4>1. e \notin A BY <1>2, <3>2
      <4> QED BY <1>1, <3>2, <4>1, SentSays DEF IInv
    <3> QED BY <1>12, <3>1, <3>2
  <2>2. kind \in followed /\ open /\ IsSpotify(track) BY <1>1, <1>12
  <2>3. \A m \in InFlight : m.kind = kind => m.answer # None BY <1>1, <1>12
  <2> QED BY <1>3, <1>4, <1>5, <1>12, <2>1, <2>2, <2>3
<1>13. CASE Pause
  <2>1. PICK e \in Sent : events' = Append(events, e) /\ e.kind = "status"
    BY <1>13, Announcements DEF Pause, Sends
  <2>2. Same /\ UNCHANGED <<queue, context>> /\ InFlight' = InFlight
    BY <1>13 DEF Pause, player, services, spotify, InFlight
  <2> QED BY <1>12, <2>1, <2>2
<1>14. CASE AskContents \/ ToggleLike \/ UNCHANGED vars
  <2>1. Same /\ UNCHANGED <<queue, context, events>>
    BY <1>14 DEF AskContents, ToggleLike, Asks, services, player, spotify, vars, flight
  <2>2. tasks' = tasks \/ \E asking : asking.kind # kind /\ Request({asking})
    BY <1>14 DEF AskContents, ToggleLike, Asking, vars, flight
  <2>3. InFlight' = InFlight \/ \E asking : asking.kind # kind /\ InFlight' \subseteq InFlight \cup {asking}
                                            /\ InFlight \subseteq InFlight'
    BY <2>2, RequestFlies DEF IInv, InFlight
  <2> QED BY <1>12, <2>1, <2>3
<1>15. CASE Answer
  <2>1. PICK t \in InFlight : \E a \in Answers(t) :
            /\ t.answer = None /\ (t.kind \in UsesClient => ClientFree)
            /\ LET u == [t EXCEPT !.answer = a]
               IN  /\ u.kind = t.kind /\ u.key = t.key /\ u.answer = a
                   /\ InFlight \ {t} \subseteq InFlight' /\ u \in InFlight'
                   /\ InFlight' \subseteq InFlight \cup {u}
    BY <1>15, AnswerReplaces
  <2>2. PICK a \in Answers(t) :
            LET u == [t EXCEPT !.answer = a]
            IN  /\ u.kind = t.kind /\ u.key = t.key /\ u.answer = a
                /\ InFlight \ {t} \subseteq InFlight' /\ u \in InFlight'
                /\ InFlight' \subseteq InFlight \cup {u}
    BY <2>1
  <2> DEFINE u == [t EXCEPT !.answer = a]
  <2>3. /\ u.kind = t.kind /\ u.answer = a
        /\ InFlight \ {t} \subseteq InFlight' /\ u \in InFlight' /\ InFlight' \subseteq InFlight \cup {u}
    BY <2>2
  <2> HIDE DEF u
  <2>4. Same /\ UNCHANGED <<queue, context, events>> BY <1>15 DEF Answer, player, spotify
  <2>5. CASE t.kind # kind
    BY <1>12, <2>3, <2>4, <2>5
  <2>6. CASE t.kind = kind
    <3>1. a.of = W BY <2>6 DEF Answers, W, Value
    <3>2. \A m \in InFlight : m.kind = kind => m.answer = None
      BY <2>1, <2>6 DEF ClientFree, HoldsClient, UsesClient, Kinds
    <3>3. \A m \in InFlight' : m.kind = kind => m = u BY <1>1, <2>3, <3>2
    <3> QED BY <1>4, <2>3, <2>4, <2>6, <3>1, <3>3
  <2> QED BY <2>5, <2>6
<1>16. CASE Report
  <2>1. PICK t \in InFlight :
            /\ t.answer # None
            /\ InFlight \ {t} \subseteq InFlight' /\ InFlight' \subseteq InFlight
            /\ LET e == [kind |-> t.kind, key |-> t.key, answer |-> t.answer]
               IN  e \in Sent /\ events' = Append(events, e) /\ e.kind = t.kind /\ e.answer = t.answer
    BY <1>16, ReportTells
  <2> DEFINE e == [kind |-> t.kind, key |-> t.key, answer |-> t.answer]
  <2>2. e \in Sent /\ events' = Append(events, e) /\ e.kind = t.kind /\ e.answer = t.answer
    BY <2>1
  <2> HIDE DEF e
  <2>3. Same /\ UNCHANGED <<queue, context>> BY <1>16 DEF Report, services, player, spotify
  <2>4. CASE t.kind # kind
    <3>1. \A m : m.kind = kind => (m \in InFlight' <=> m \in InFlight) BY <2>1, <2>4
    <3> QED BY <1>12, <2>2, <2>3, <2>4, <3>1
  <2>5. CASE t.kind = kind
    <3>1. ~SomeOf(events, T) BY <1>1, <2>2, SentSays DEF IInv
    <3>2. \A m \in InFlight : m.kind = kind => m.answer # None BY <1>1, <2>1
    <3>3. \A m \in InFlight : m.kind = kind => m.answer.of = W
      BY <1>1, <1>3, <2>3, <3>1, <3>2
    <3>4. e \in R(W) BY <1>2, <2>2, <2>5, <3>3
    <3>5. LastOf(events', A, R(W)) BY <2>2, <3>4, SentSays DEF IInv
    <3> QED BY <1>4, <2>1, <2>3, <3>3, <3>5
  <2> QED BY <2>4, <2>5
<1>17. CASE Fail
  BY <1>17 DEF Fail, IInv, TypeOK
\* An answer that is handled is shown, and everything else is let pass.
<1>18. ASSUME NEW kinds, Handle(kinds), "track" \notin kinds, Same, tasks' = tasks,
              \/ kinds = {kind} /\ Shown(kind)' = Handled.answer.of
              \/ kind \notin kinds /\ Shown(kind)' = Shown(kind)
       PROVE  Good
  <2>1. events # <<>> /\ events' = Tail(events) /\ Handled = Head(events)
    BY <1>18 DEF Handle, Handled
  <2>2. Handled \in Sent /\ Handled.kind \in kinds BY <1>18, HandledOne DEF IInv
  <2>3. ~SomeOf(events, T)
    <3>1. Head(events) \notin T BY <1>2, <1>18, <2>1, <2>2
    <3> QED BY <1>1, <2>1, <3>1, TakenSays DEF IInv
  <2>4. InFlight' = InFlight BY <1>18 DEF InFlight
  <2>5. /\ \A m \in InFlight : m.kind = kind => m.answer.of = W
        /\ \/ \E m \in InFlight : m.kind = kind
           \/ LastOf(events, A, R(W))
           \/ Shown(kind) = W /\ ~SomeOf(events, A)
    BY <1>1, <1>3, <1>18, <2>3, <2>4
  <2>6. /\ SomeOf(events, A) <=> Handled \in A \/ SomeOf(events', A)
        /\ LastOf(events, A, R(W)) <=>
             LastOf(events', A, R(W)) \/ (Handled \in R(W) /\ ~SomeOf(events', A))
    BY <2>1, TakenSays DEF IInv
  <2>7. CASE Handled.kind = kind
    <3>1. Handled \in A /\ Shown(kind)' = Handled.answer.of BY <1>2, <1>18, <2>2, <2>7
    <3>2. Handled \in R(W) => Handled.answer.of = W BY <1>2
    <3> QED BY <1>4, <1>18, <2>4, <2>5, <2>6, <3>1, <3>2
  <2>8. CASE Handled.kind # kind
    <3>1. Handled \notin A /\ Handled \notin R(W) BY <1>2, <2>8
    <3>2. Shown(kind)' = Shown(kind) BY <1>18, <2>2, <2>8
    <3> QED BY <1>4, <1>18, <2>4, <2>5, <2>6, <3>1, <3>2
  <2> QED BY <2>7, <2>8
<1>19. CASE HandleLiked \/ HandleArtwork \/ HandleLyrics \/ HandleContents \/ HandleUnavailable
  <2>1. PICK kinds \in {{"liked", "save", "unsave"}, {"artwork"}, {"lyrics"}, {"contents"},
                        {"unavailable"}} : Handle(kinds)
    BY <1>19 DEF HandleLiked, HandleArtwork, HandleLyrics, HandleContents,
       HandleUnavailable
  <2>2. Same /\ UNCHANGED <<queue, context, tasks>>
    BY <1>19 DEF HandleLiked, HandleArtwork, HandleLyrics, HandleContents,
       HandleUnavailable,
                 Handle, services, player, spotify
  <2>3. kind \notin kinds /\ "track" \notin kinds BY <2>1
  <2> QED BY <1>5, <1>18, <2>1, <2>2, <2>3
<1>20. CASE HandleQueue
  <2>1. Handle({"queue"}) /\ Same /\ UNCHANGED <<context, tasks>>
    BY <1>20 DEF HandleQueue, Handle, services, player
  <2>2. queue' = Handled.answer.of BY <1>1, <1>20, <2>1 DEF HandleQueue
  <2> QED BY <1>18, <2>1, <2>2 DEF Shown
<1>21. CASE HandleContext
  <2>1. Handle({"context"}) /\ Same /\ UNCHANGED <<queue, tasks>>
    BY <1>21 DEF HandleContext, Handle, services, player
  <2>2. context' = Handled.answer.of BY <1>1, <1>21, <2>1 DEF HandleContext
  <2> QED BY <1>18, <2>1, <2>2 DEF Shown
<1> QED BY <1>7, <1>8, <1>9, <1>10, <1>11, <1>13, <1>14, <1>15, <1>16, <1>17, <1>19, <1>20, <1>21
        DEF Next, Players, Window, Services, Handlers

\* Answers about different tracks do not meet, and until requests about one track
\* cross, what is answered of it is still true.
LEMMA LikesApartStep ==
  ASSUME IInv, [Next]_vars, LikesApart
  PROVE  LikesApart'
<1> SUFFICES ASSUME ~crossed' PROVE ~Crossing(tasks') /\ LikedIsCurrent'
  BY DEF LikesApart
\* Asking for more.
<1>1. ASSUME saved' = saved, InFlight \subseteq InFlight',
             \A m \in InFlight' \ InFlight : m.answer = None,
             crossed' = (crossed \/ Crossing(tasks'))
      PROVE  ~Crossing(tasks') /\ LikedIsCurrent'
  BY <1>1 DEF LikesApart, LikedIsCurrent, Library
\* Nothing new is asked, and nothing is saved.
<1>2. ASSUME saved' = saved, crossed' = crossed, InFlight' \subseteq InFlight,
             tasks' = tasks \/ \E t \in InFlight : tasks' = Without(t)
      PROVE  ~Crossing(tasks') /\ LikedIsCurrent'
  <2>1. ~Crossing(tasks) /\ LikedIsCurrent BY <1>2 DEF LikesApart
  <2>2. ~Crossing(tasks')
    <3>1. CASE tasks' = tasks BY <2>1, <3>1
    <3>2. ASSUME NEW t \in InFlight, tasks' = Without(t) PROVE ~Crossing(tasks')
      BY <2>1, <3>2, FewerCross DEF Without, IInv, TypeOK
    <3> QED BY <1>2, <3>1, <3>2
  <2> QED BY <1>2, <2>1, <2>2 DEF LikedIsCurrent, Library
<1>3. CASE Attach \/ Rescan \/ HandleTrack
  <2>1. PICK t \in Tracks \cup {None}, was \in {None, SongOf(track)} :
            Refresh(t, was) /\ followed' = followed
    BY <1>3, RefreshAsks
  <2>2. AskAbout(t) BY <2>1 DEF Refresh
  <2>3. saved' = saved BY <1>3 DEF Attach, Starts, Rescan, HandleTrack, Handle, services
  <2> QED BY <1>1, <2>1, <2>2, <2>3, AskingFlies
<1>4. CASE HandleStatus
  <2>1. AskAbout(track) /\ followed' = followed /\ saved' = saved
    BY <1>4 DEF HandleStatus, Handle, services
  <2>2. track \in Tracks \cup {None} BY DEF IInv, TypeOK
  <2> QED BY <1>1, <2>1, <2>2, AskingFlies
<1>5. CASE OpenWindow \/ AskContents \/ ToggleLike
  <2>1. PICK wanted : Request(wanted) /\ \A m \in wanted : m.answer = None
    <3>1. CASE OpenWindow
      BY <3>1 DEF OpenWindow, RequestPlayback, RequestLyrics, Asking
    <3>2. CASE AskContents \/ ToggleLike
      BY <3>2 DEF AskContents, ToggleLike, Asking
    <3> QED BY <1>5, <3>1, <3>2
  <2>2. saved' = saved BY <1>5 DEF OpenWindow, AskContents, ToggleLike, Asks, services
  <2> QED BY <1>1, <2>1, <2>2, RequestFlies DEF IInv
<1>6. CASE Play \/ Pause \/ Detach \/ CloseWindow \/ UNCHANGED vars
  <2>1. saved' = saved /\ crossed' = crossed /\ tasks' = tasks
    BY <1>6 DEF Play, Starts, Pause, Detach, CloseWindow, Asks, vars, services, flight
  <2> QED BY <1>2, <2>1 DEF InFlight
<1>7. CASE \/ HandleLiked \/ HandleArtwork \/ HandleLyrics \/ HandleQueue \/ HandleContext
           \/ HandleContents \/ HandleUnavailable
  <2>1. saved' = saved /\ crossed' = crossed /\ tasks' = tasks
    BY <1>7 DEF HandleLiked, HandleArtwork, HandleLyrics, HandleQueue, HandleContext,
                HandleContents, HandleUnavailable, Handle, services
  <2> QED BY <1>2, <2>1 DEF InFlight
<1>8. CASE Report \/ Fail
  <2>1. saved' = saved /\ crossed' = crossed /\ \E t \in InFlight : tasks' = Without(t)
    BY <1>8 DEF Report, Fail, services
  <2>2. InFlight' \subseteq InFlight
    BY <2>1, TakenFromBag DEF Without, IInv, TypeOK, InFlight
  <2> QED BY <1>2, <2>1, <2>2
<1>9. CASE Answer
  <2>1. PICK t \in InFlight : \E a \in Answers(t) :
            /\ t.answer = None
            /\ LET u == [t EXCEPT !.answer = a]
               IN  /\ u.kind = t.kind /\ u.key = t.key /\ u.answer = a
                   /\ InFlight' \subseteq InFlight \cup {u}
                   /\ tasks' = Without(t) (+) SetToBag({u})
            /\ saved' = CASE t.kind = "save" -> saved \cup {t.key}
                          [] t.kind = "unsave" -> saved \ {t.key}
                          [] OTHER -> saved
    BY <1>9, AnswerReplaces
  <2>2. PICK a \in Answers(t) :
            LET u == [t EXCEPT !.answer = a]
            IN  /\ u.kind = t.kind /\ u.key = t.key /\ u.answer = a
                /\ InFlight' \subseteq InFlight \cup {u}
                /\ tasks' = Without(t) (+) SetToBag({u})
    BY <2>1
  <2> DEFINE u == [t EXCEPT !.answer = a]
  <2>3. u.kind = t.kind /\ u.key = t.key /\ u.answer = a /\ InFlight' \subseteq InFlight \cup {u}
    BY <2>2
  <2>4. tasks' = Without(t) (+) SetToBag({[t EXCEPT !.answer = a]}) /\ t.answer = None
    BY <2>1, <2>2
  <2> HIDE DEF u
  <2>5. crossed' = crossed BY <1>9 DEF Answer
  <2>6. ~Crossing(tasks) /\ LikedIsCurrent BY <2>5 DEF LikesApart
  <2>7. ~Crossing(tasks')
    <3>1. TypeOK /\ Carried BY DEF IInv
    <3> QED BY <2>4, <2>6, <3>1, AnswerCrosses
  <2>8. t.kind \in LikedKinds => a.of = Library(t.key)'
    BY <2>1 DEF Answers, Library, LikedKinds
  <2>9. ASSUME NEW m \in InFlight, m.kind \in LikedKinds, m.answer # None
        PROVE  m.answer.of = Library(m.key)'
    <3>1. m.answer.of = Library(m.key) BY <2>6, <2>9 DEF LikedIsCurrent
    <3>2. m # t BY <2>4, <2>9
    <3>3. t.kind \in {"save", "unsave"} => m.key # t.key
      BY <2>6, <2>9, <3>2 DEF Crossing, InFlight, LikedKinds
    <3>4. m.key \in saved' <=> m.key \in saved
      BY <2>1, <3>3
    <3> QED BY <3>1, <3>4 DEF Library
  <2> QED BY <2>3, <2>7, <2>8, <2>9 DEF LikedIsCurrent
<1> QED BY <1>3, <1>4, <1>5, <1>6, <1>7, <1>8, <1>9 DEF Next, Players, Window, Services, Handlers

\* What is shown of whether a track is saved is what the last answer about it
\* said, or another is to come.
LEMMA LikedStep ==
  ASSUME IInv, IInv', [Next]_vars, failures' = 0, LibraryStays, LikesApart, ~crossed',
         "liked" \in followed', NEW k \in SpotifyTracks, LikedComes(k)
  PROVE  LikedComes(k)'
<1> DEFINE A == About(LikedKinds, k)
           R(v) == Telling(k, v)
           Good == \/ Flying(LikedKinds, k)'
                   \/ LastOf(events', A, R(Library(k)'))
                   \/ ~SomeOf(events', A) /\ (track' = k => liked' = Library(k)')
<1>1. SUFFICES Good
  BY DEF LikedComes, About, Of, Sent, Telling, Library, Flying
<1>2. A = {m \in Sent : m.kind \in LikedKinds /\ m.key = k}
      /\ \A v : R(v) = {m \in A : m.answer.of = v}
  BY DEF About, Of, Telling
<1>3. \/ Flying(LikedKinds, k)
      \/ LastOf(events, A, R(Library(k)))
      \/ ~SomeOf(events, A) /\ (track = k => liked = Library(k))
  BY DEF LikedComes
<1>4. saved' = saved => Library(k)' = Library(k) BY DEF Library
<1>5. k # None /\ IsSpotify(k) BY RequestsAssumption DEF IsSpotify
<1>6. ASSUME NEW m \in InFlight', m.kind \in LikedKinds, m.key = k PROVE Good
  BY <1>6 DEF Flying
<1>7. InFlight \subseteq InFlight' => (Flying(LikedKinds, k) => Flying(LikedKinds, k)')
  BY DEF Flying
<1> HIDE DEF A, R
\* What about k was in flight or sent stays, and what is shown does not change.
<1>8. ASSUME Library(k)' = Library(k),
             ~Flying(LikedKinds, k) \/ Flying(LikedKinds, k)',
             \/ track' # k
             \/ track' = track /\ liked' = liked,
             \/ events' = events
             \/ \E e \in Sent : e \notin A /\ events' = Append(events, e)
             \/ events # <<>> /\ events' = Tail(events) /\ Head(events) \notin A
      PROVE  Good
  <2>1. (SomeOf(events', A) <=> SomeOf(events, A))
        /\ (LastOf(events, A, R(Library(k))) => LastOf(events', A, R(Library(k))))
    <3>1. CASE events' = events BY <3>1
    <3>2. CASE \E e \in Sent : e \notin A /\ events' = Append(events, e)
      BY <3>2, SentSays DEF IInv
    <3>3. CASE events # <<>> /\ events' = Tail(events) /\ Head(events) \notin A
      <4>1. Head(events) \notin R(Library(k)) BY <1>2, <3>3
      <4> QED BY <3>3, <4>1, TakenSays DEF IInv
    <3> QED BY <1>8, <3>1, <3>2, <3>3
  <2> QED BY <1>3, <1>8, <2>1
<1>9. ASSUME NEW kinds, Handle(kinds), kinds \cap LikedKinds = {}
      PROVE  events # <<>> /\ events' = Tail(events) /\ Head(events) \notin A /\ saved' = saved
  <2>1. Handled \in Sent /\ Handled.kind \in kinds BY <1>9, HandledOne DEF IInv
  <2> QED BY <1>2, <1>9, <2>1 DEF Handle, Handled, services
<1>10. CASE Attach \/ Rescan \/ HandleTrack
  <2>1. PICK t \in Tracks \cup {None}, was \in {None, SongOf(track)} :
            Refresh(t, was) /\ followed' = followed
    BY <1>10, RefreshAsks
  <2>2. AskAbout(t) /\ track' = t BY <2>1 DEF Refresh
  <2>3. InFlight \subseteq InFlight'
        /\ (library /\ IsSpotify(t) => Asking("liked", t) \in InFlight')
    BY <2>1, <2>2, AskingFlies
  <2>4. CASE t = k
    <3>1. Asking("liked", k) \in InFlight' BY <1>5, <2>3, <2>4 DEF LibraryStays
    <3> QED BY <1>6, <3>1 DEF Asking, LikedKinds
  <2>5. CASE t # k
    <3>1. CASE Attach \/ Rescan
      <4>1. events' = events /\ saved' = saved BY <3>1 DEF Attach, Starts, Rescan, services
      <4> QED BY <1>4, <1>7, <1>8, <2>2, <2>3, <2>5, <4>1
    <3>2. CASE HandleTrack
      <4>1. Handle({"track"}) BY <3>2 DEF HandleTrack
      <4>2. {"track"} \cap LikedKinds = {} BY DEF LikedKinds
      <4> QED BY <1>4, <1>7, <1>8, <1>9, <2>2, <2>3, <2>5, <4>1, <4>2
    <3> QED BY <1>10, <3>1, <3>2
  <2> QED BY <2>4, <2>5
<1>11. CASE HandleStatus
  <2>1. AskAbout(track) /\ followed' = followed /\ UNCHANGED <<track, liked>> /\ Handle({"status"})
    BY <1>11 DEF HandleStatus, Handle
  <2>2. track \in Tracks \cup {None} BY DEF IInv, TypeOK
  <2>3. {"status"} \cap LikedKinds = {} BY DEF LikedKinds
  <2>4. InFlight \subseteq InFlight' BY <2>1, <2>2, AskingFlies
  <2> QED BY <1>4, <1>7, <1>8, <1>9, <2>1, <2>3, <2>4
<1>12. CASE Detach
  <2>1. track' = None /\ events' = events /\ saved' = saved /\ InFlight' = InFlight
    BY <1>12 DEF Detach, flight, InFlight
  <2> QED BY <1>4, <1>5, <1>7, <1>8, <2>1
<1>13. CASE Window \/ UNCHANGED vars
  <2>1. UNCHANGED <<track, liked, events, saved>>
    BY <1>13 DEF Window, Asks, OpenWindow, CloseWindow, AskContents, ToggleLike, vars,
       player,
                 services, flight
  <2>2. tasks' = tasks \/ \E wanted : Request(wanted)
    BY <1>13 DEF Window, OpenWindow, CloseWindow, AskContents, ToggleLike, vars, flight
  <2>3. InFlight \subseteq InFlight' BY <2>2, RequestFlies DEF IInv, InFlight
  <2> QED BY <1>4, <1>7, <1>8, <2>1, <2>3
<1>14. CASE Play \/ Pause
  <2>1. PICK e \in Sent : events' = Append(events, e) /\ e.kind \in {"track", "status"}
    <3>1. CASE Play
      <4>1. playing' \in Tracks /\ Sends("track", playing', None) BY <3>1 DEF Play, Starts
      <4> QED BY <4>1, Announcements DEF Sends
    <3>2. CASE Pause
      BY <3>2, Announcements DEF Pause, Sends
    <3> QED BY <1>14, <3>1, <3>2
  <2>2. UNCHANGED <<track, liked, saved>> /\ InFlight' = InFlight
    BY <1>14 DEF Play, Starts, Pause, player, services, InFlight
  <2>3. e \notin A BY <1>2, <2>1 DEF LikedKinds
  <2> QED BY <1>4, <1>7, <1>8, <2>1, <2>2, <2>3
<1>15. CASE Answer
  <2>1. PICK t \in InFlight : \E a \in Answers(t) :
            /\ LET u == [t EXCEPT !.answer = a]
               IN  /\ u.kind = t.kind /\ u.key = t.key
                   /\ InFlight \ {t} \subseteq InFlight' /\ u \in InFlight'
            /\ saved' = CASE t.kind = "save" -> saved \cup {t.key}
                          [] t.kind = "unsave" -> saved \ {t.key}
                          [] OTHER -> saved
    BY <1>15, AnswerReplaces
  <2>2. PICK u \in InFlight' : u.kind = t.kind /\ u.key = t.key /\ InFlight \ {t} \subseteq InFlight'
    BY <2>1
  <2>3. CASE t.kind \in LikedKinds /\ t.key = k
    BY <1>6, <2>2, <2>3
  <2>4. CASE ~(t.kind \in LikedKinds /\ t.key = k)
    <3>1. k \in saved' <=> k \in saved BY <2>1, <2>4 DEF LikedKinds
    <3>2. Library(k)' = Library(k) BY <3>1 DEF Library
    <3>3. Flying(LikedKinds, k) => Flying(LikedKinds, k)' BY <2>2, <2>4 DEF Flying
    <3>4. UNCHANGED <<track, liked, events>> BY <1>15 DEF Answer, player
    <3> QED BY <1>8, <3>2, <3>3, <3>4
  <2> QED BY <2>3, <2>4
<1>16. CASE Report
  <2>1. PICK t \in InFlight :
            /\ t.answer # None
            /\ InFlight \ {t} \subseteq InFlight'
            /\ LET e == [kind |-> t.kind, key |-> t.key, answer |-> t.answer]
               IN  e \in Sent /\ events' = Append(events, e)
                   /\ e.kind = t.kind /\ e.key = t.key /\ e.answer = t.answer
    BY <1>16, ReportTells
  <2>2. PICK e \in Sent : events' = Append(events, e)
            /\ e.kind = t.kind /\ e.key = t.key /\ e.answer = t.answer
    BY <2>1
  <2>3. UNCHANGED <<track, liked, saved, crossed>> BY <1>16 DEF Report, player, services
  <2>4. CASE t.kind \in LikedKinds /\ t.key = k
    <3>1. t.answer.of = Library(k) BY <2>1, <2>3, <2>4 DEF LikesApart, LikedIsCurrent
    <3>2. e \in R(Library(k)) BY <1>2, <2>2, <2>4, <3>1
    <3>3. LastOf(events', A, R(Library(k))) BY <2>2, <3>2, SentSays DEF IInv
    <3> QED BY <1>4, <2>3, <3>3
  <2>5. CASE ~(t.kind \in LikedKinds /\ t.key = k)
    <3>1. Flying(LikedKinds, k) => Flying(LikedKinds, k)' BY <2>1, <2>5 DEF Flying
    <3>2. e \notin A BY <1>2, <2>2, <2>5
    <3> QED BY <1>4, <1>8, <2>2, <2>3, <3>1, <3>2
  <2> QED BY <2>4, <2>5
<1>17. CASE Fail
  BY <1>17 DEF Fail, IInv, TypeOK
<1>18. CASE HandleLiked
  <2>1. Handle(LikedKinds) /\ InFlight' = InFlight /\ track' = track
        /\ liked' = (IF track = Handled.key THEN Handled.answer.of ELSE liked)
    BY <1>18 DEF HandleLiked, InFlight, LikedKinds
  <2>2. events # <<>> /\ events' = Tail(events) /\ Handled = Head(events) /\ saved' = saved
    BY <2>1 DEF Handle, Handled, services
  <2>3. Handled \in Sent /\ Handled.kind \in LikedKinds BY <2>1, HandledOne DEF IInv
  <2>4. CASE Handled.key # k
    <3>1. Handled \notin A BY <1>2, <2>4
    <3>2. track' # k \/ liked' = liked BY <2>1, <2>4
    <3> QED BY <1>4, <1>7, <1>8, <2>1, <2>2, <3>1, <3>2
  <2>5. CASE Handled.key = k
    <3>1. Handled \in A BY <1>2, <2>3, <2>5
    <3>2. /\ SomeOf(events, A) <=> Handled \in A \/ SomeOf(events', A)
          /\ LastOf(events, A, R(Library(k))) <=>
               \/ LastOf(events', A, R(Library(k)))
               \/ Handled \in R(Library(k)) /\ ~SomeOf(events', A)
      BY <2>2, TakenSays DEF IInv
    <3>3. Handled \in R(Library(k)) => Handled.answer.of = Library(k) BY <1>2
    <3> QED BY <1>3, <1>4, <1>7, <2>1, <2>2, <2>5, <3>1, <3>2, <3>3
  <2> QED BY <2>4, <2>5
<1>19. CASE \/ HandleArtwork \/ HandleLyrics \/ HandleQueue \/ HandleContext \/ HandleContents
            \/ HandleUnavailable
  <2>1. UNCHANGED <<track, liked>> /\ InFlight' = InFlight
    BY <1>19 DEF HandleArtwork, HandleLyrics, HandleQueue, HandleContext,
       HandleContents,
                 HandleUnavailable, InFlight, player
  <2>2. PICK kinds \in {{"artwork"}, {"lyrics"}, {"queue"}, {"context"}, {"contents"},
                        {"unavailable"}} : Handle(kinds)
    BY <1>19 DEF HandleArtwork, HandleLyrics, HandleQueue, HandleContext,
       HandleContents,
                 HandleUnavailable
  <2>3. kinds \cap LikedKinds = {} BY <2>2 DEF LikedKinds
  <2> QED BY <1>4, <1>7, <1>8, <1>9, <2>1, <2>2, <2>3
<1> QED BY <1>10, <1>11, <1>12, <1>13, <1>14, <1>15, <1>16, <1>17, <1>18, <1>19
        DEF Next, Players, Services, Handlers

\* Failures, crossings and what a behaviour follows are never taken back.
LEMMA Onward ==
  ASSUME IInv, IInv', [Next]_vars
  PROVE  (failures' = 0 => failures = 0) /\ (~crossed' => ~crossed) /\ followed' = followed
<1> USE DEF IInv, TypeOK
<1>1. CASE Players
  BY <1>1 DEF Players, Play, Pause, Attach, Rescan, Detach, Starts, Refresh, AskAbout,
     Request,
              flight, bounds
<1>2. CASE Window
  BY <1>2 DEF Window, Asks, OpenWindow, CloseWindow, AskContents, ToggleLike, Request
<1>3. CASE Services
  BY <1>3 DEF Services, Answer, Report, Fail, bounds
<1>4. CASE Handlers
  BY <1>4 DEF Handlers, HandleTrack, HandleStatus, HandleLiked, HandleArtwork,
     HandleLyrics,
              HandleQueue, HandleContext, HandleContents, HandleUnavailable, Handle, Refresh,
              AskAbout, Request, bounds
<1>5. CASE UNCHANGED vars
  BY <1>5 DEF vars, flight, bounds
<1> QED BY <1>1, <1>2, <1>3, <1>4, <1>5 DEF Next

\* Whatever has not failed is still to come or has been shown.
LEMMA SInvAlways == Spec => [](IInv /\ SInv)
<1>1. Init => SInv
  <2> SUFFICES ASSUME Init PROVE SInv OBVIOUS
  <2>1. IInv /\ InFlight = {} /\ events = <<>> /\ tasks = EmptyBag
    <3>1. InFlight = {} BY DEF Init, InFlight, EmptyBag, SetToBag, BagToSet
    <3> QED BY <3>1, InitIInv DEF Init
  <2>2. ~Crossing(tasks) BY <2>1 DEF Crossing, InFlight
  <2>3. \A about : ~SomeOf(events, about) BY <2>1 DEF SomeOf
  <2>4. track = None /\ library /\ ~open BY DEF Init
  <2>5. \A t \in SpotifyTracks : LikedComes(t)
    BY <2>3, <2>4, RequestsAssumption DEF LikedComes
  <2> QED BY <2>1, <2>2, <2>3, <2>4, <2>5
          DEF SInv, LikesApart, LikedIsCurrent, NothingForgotten, LibraryStays, ArtComes,
              LyricsCome, PlaybackComes
<1>2. ASSUME IInv, SInv, IInv', [Next]_vars PROVE SInv'
  <2>1. LikesApart' BY <1>2, LikesApartStep DEF SInv
  <2>2. ASSUME failures' = 0
        PROVE  /\ LibraryStays' /\ ArtComes' /\ LyricsCome'
               /\ PlaybackComes("queue")' /\ PlaybackComes("context")'
               /\ ~crossed' /\ "liked" \in followed' => \A t \in SpotifyTracks : LikedComes(t)'
    <3>1. failures = 0 /\ (~crossed' => ~crossed) /\ followed' = followed BY <1>2, <2>2, Onward
    <3>2. /\ LibraryStays /\ ArtComes /\ LyricsCome
          /\ PlaybackComes("queue") /\ PlaybackComes("context")
          /\ ~crossed /\ "liked" \in followed => \A t \in SpotifyTracks : LikedComes(t)
      BY <1>2, <3>1 DEF SInv, NothingForgotten
    <3>3. LibraryStays' /\ ArtComes' /\ LyricsCome'
      BY <1>2, <2>2, <3>2, LibraryStep, ArtStep, LyricsStep
    <3>4. PlaybackComes("queue")' /\ PlaybackComes("context")'
      BY <1>2, <2>2, <3>2, PlaybackStep
    <3>5. ~crossed' /\ "liked" \in followed' => \A t \in SpotifyTracks : LikedComes(t)'
      <4> SUFFICES ASSUME ~crossed', "liked" \in followed', NEW t \in SpotifyTracks
                   PROVE  LikedComes(t)'
        OBVIOUS
      <4>1. LikesApart /\ LikedComes(t) /\ LibraryStays BY <1>2, <3>1, <3>2 DEF SInv
      <4> QED BY <1>2, <2>2, <4>1, LikedStep
    <3> QED BY <3>3, <3>4, <3>5
  <2> QED BY <2>1, <2>2 DEF SInv, NothingForgotten
<1> QED BY <1>1, <1>2, IInvAlways, PTL DEF Spec

\* When every answer has been handled and nothing failed, the window shows what
\* the services say of the current track: what was asked for was answered, and
\* the last answer to be handled was the last to be given, though answers overtake
\* the player's signals and one another.
THEOREM AnswersSettleAlways == Spec => []AnswersSettle
<1>1. ASSUME IInv, SInv, Settled
      PROVE  /\ "artwork" \in followed => art = track
             /\ "lyrics" \in followed /\ open /\ track # None => lyrics = Song[track]
             /\ "queue" \in followed /\ open /\ IsSpotify(track) => queue = account.track
             /\ "context" \in followed /\ open /\ IsSpotify(track) => context = account.context
  <2>1. InFlight = {} /\ events = <<>> /\ failures = 0 BY <1>1 DEF Settled
  <2>2. \A about, right : ~SomeOf(events, about) /\ ~LastOf(events, about, right)
    BY <2>1 DEF SomeOf, LastOf
  <2>3. \A kind, key : ~Awaited(kind, key) BY <2>1, <2>2 DEF Awaited, Flying
  <2>4. ArtComes /\ LyricsCome /\ PlaybackComes("queue") /\ PlaybackComes("context")
    BY <1>1, <2>1 DEF SInv, NothingForgotten
  <2>5. "artwork" \in followed => art = track
    BY <1>1, <2>3, <2>4 DEF ArtComes, IInv, Fits, ArtIsOfTheTrack
  <2>6. "lyrics" \in followed /\ open /\ track # None => lyrics = Song[track]
    BY <1>1, <2>3, <2>4 DEF LyricsCome, IInv, Fits, LyricsAreOfTheSong
  <2>7. "queue" \in followed /\ open /\ IsSpotify(track) => queue = account.track
    BY <2>1, <2>2, <2>4 DEF PlaybackComes, StillAsking, Shown, Value
  <2>8. "context" \in followed /\ open /\ IsSpotify(track) => context = account.context
    BY <2>1, <2>2, <2>4 DEF PlaybackComes, StillAsking, Shown, Value
  <2> QED BY <2>5, <2>6, <2>7, <2>8
<1>2. IInv /\ SInv => AnswersSettle BY <1>1 DEF AnswersSettle
<1> QED BY <1>2, SInvAlways, PTL

\* The same for whether the track is saved, unless a request to save or remove it
\* and another about it were in flight together.
THEOREM LikedSettlesAlways == Spec => []LikedSettles
<1>1. ASSUME IInv, SInv, Settled, ~crossed, "liked" \in followed, IsSpotify(track)
      PROVE  liked = Library(track)
  <2>1. InFlight = {} /\ events = <<>> /\ failures = 0 BY <1>1 DEF Settled
  <2>2. \A about, right : ~SomeOf(events, about) /\ ~LastOf(events, about, right)
    BY <2>1 DEF SomeOf, LastOf
  <2>3. LikedComes(track) BY <1>1, <2>1 DEF SInv, NothingForgotten, IsSpotify
  <2> QED BY <2>1, <2>2, <2>3 DEF LikedComes, Flying
<1>2. IInv /\ SInv => LikedSettles BY <1>1 DEF LikedSettles
<1> QED BY <1>2, SInvAlways, PTL
=============================================================================
