---------------------------- MODULE SpotifyClient ----------------------------
(***************************************************************************)
(* The account: the Spotify client with its rate limit and its tokens      *)
(* (waytify-core/src/spotify/api.rs), the keyring (spotify/auth.rs), what  *)
(* the engine remembers about the account (engine.rs: restore_spotify, the *)
(* request_* tasks and the handlers of what they send) and the logging in  *)
(* and out that a process of its own does (waytify/src/main.rs).           *)
(*                                                                         *)
(* One client serves every request behind a lock.  The one that has it     *)
(* waits out the rate limit or gives up, renews the access token, calls,   *)
(* and sends what came back into the engine's bounded channel of events,   *)
(* some before letting go of the client and some after.  The engine takes  *)
(* the lock itself when it adopts a stored token, and handles nothing      *)
(* while it waits.                                                         *)
(*                                                                         *)
(* A refresh token is the n-th one Spotify issued for a login; issuing the *)
(* next revokes it, whether or not the answer that carries it arrives and  *)
(* is stored.  The login numbered 0 is older than some of the scopes.      *)
(* Time is coarse: the 120 ms between two calls are not seen.              *)
(***************************************************************************)
EXTENDS Integers, Sequences

CONSTANTS
    None,
    FloorAt,        \* the floor of the wait after the n-th refusal in a row
    Cap,            \* the longest wait
    RetryAfters,    \* what Spotify may say of the wait, None if nothing
    Margin,         \* REFRESH_MARGIN
    Timeout,        \* TIMEOUT
    Exchange,       \* the timeout of post_form, which exchanges a token
    Lifetime,       \* of an access token
    Capacity,       \* of the channel of events
    Slices,         \* the kinds of request a behaviour follows
    MaxTime, MaxAsked, MaxLogins, MaxTurns, MaxFaults   \* bounds

Kinds == {"liked", "save", "playlists", "devices", "play", "transfer"}

\* The requests that only Premium may make.
Writes == {"play", "transfer"}

\* The tasks whose guard lives until they have sent.
TellHolding == {"save", "devices"}

Plans == {"premium", "free"}
Refusals == {"unavailable", "needsLogin"}
Unsaid == {"unknown"}

\* What is sent to the engine.
EventOf(kind) == [kind |-> kind, premium |-> "unknown"]
DevicesEvent(said) == [kind |-> "devices", premium |-> said]

\* What a task that let go of the client may have to send.
Messages ==
    {EventOf(k) : k \in {"liked", "playlists"} \cup Refusals}
        \cup {DevicesEvent(said) : said \in Plans \cup Unsaid}
Doublings == Len(FloorAt)

ASSUME ClientAssumption ==
    /\ {Cap, Margin, Timeout, Exchange, Lifetime, Capacity} \subseteq Nat \ {0}
    /\ {MaxTime, MaxAsked, MaxLogins, MaxTurns, MaxFaults} \subseteq Nat
    /\ FloorAt \in Seq(Nat \ {0}) /\ FloorAt # <<>>
    /\ \A n \in 1..(Len(FloorAt) - 1) : FloorAt[n + 1] = 2 * FloorAt[n]
    /\ RetryAfters \subseteq Nat \cup {None} /\ None \notin Nat
    /\ Exchange + Timeout <= Margin /\ Margin < Lifetime
    /\ Slices \subseteq SUBSET Kinds

VARIABLES
    followed,
    now,
    \* Spotify and the user.
    plan,           \* what the account pays for
    lacking,        \* what the oldest login cannot do
    turn,           \* the refresh token it accepts for each login
    granted,        \* what it answered an exchange with, on its way
    keyring,        \* the stored refresh token
    cli,            \* `waytify login`: idle, or saved its token and must say so
    \* The client.
    tokens,         \* refresh token, until when its access token is taken to work,
                    \* and when Spotify lets it expire
    throttledUntil, strikes,
    premium, scopeMissing, libraryForbidden,
    caller,         \* who holds it, and how far the request is
    sentAt,         \* when the exchange or the call in the air was sent
    waiting,        \* tasks waiting for it, by kind
    telling,        \* tasks that let go of it and have yet to send
    \* The engine.
    engine,         \* free, loading the keyring, waiting for the client, calling
    loaded,         \* the token it read
    reload,         \* a ReloadSpotify is what it handles
    events,
    authorized, shownPremium, needsLogin, libraryAvailable,
    \* History.
    told,           \* the earliest time Spotify wants to be called at
    refused,        \* refusals for rate in a row, and the wait after the last
    missed,         \* who did not get the last refresh token that was issued
    crossed,        \* a refusal of the old token was on its way as it was replaced,
                    \* a renewed token was stored over another than it replaced, or
                    \* the restore renewed one, which nobody stores
    asked, faults

service == <<plan, lacking, turn, granted>>
client == <<tokens, throttledUntil, strikes, premium, scopeMissing, libraryForbidden>>
call == <<caller, sentAt>>
tasks == <<waiting, telling>>
shown == <<authorized, shownPremium, needsLogin, libraryAvailable>>
loop == <<engine, loaded, reload>>
history == <<told, refused, missed, crossed>>
vars == <<followed, now, service, keyring, cli, client, call, tasks, loop, events,
          shown, history, asked, faults>>

Logins == 0..MaxLogins
Tokens == [login : Logins, turn : 0..MaxTurns]

Callers == [kind : Kinds \cup {"engine"}, phase : {"refreshing", "calling", "telling"}]

Grants == [refresh : Tokens, expires : Nat]
Adoptions == [refresh : Tokens, until : Nat, expires : Nat]

ASSUME NoneAssumption == None \notin Tokens \cup Grants \cup Adoptions \cup Callers

\* The bound is what Spotify does not do any more.
Accepted(token) == turn[token.login] = token.turn

-----------------------------------------------------------------------------
(* Pure parts. *)

Smaller(a, b) == IF a <= b THEN a ELSE b
Larger(a, b) == IF a >= b THEN a ELSE b

Backoff(retry, n) ==
    LET asTold == IF retry = None THEN FloorAt[1] ELSE retry
        floor == FloorAt[Smaller(n, Doublings)]
    IN  Smaller(Larger(asTold, floor), Cap)

\* What a login may not do.
Refused(kind) ==
    \/ kind \in Writes /\ plan = "free"
    \/ /\ tokens # None /\ tokens.refresh.login = 0
       /\ \/ kind \in {"liked", "save"} /\ "library" \in lacking
          \/ kind = "playlists" /\ "scope" \in lacking

-----------------------------------------------------------------------------

Init ==
    /\ followed \in Slices
    /\ now = 0
    /\ plan \in Plans /\ (plan = "free" => Writes \cap followed # {})
    /\ lacking \in SUBSET {"library", "scope"}
    /\ "library" \in lacking => "liked" \in followed
    /\ "scope" \in lacking => "playlists" \in followed
    /\ turn = [l \in Logins |-> IF l = 0 THEN 0 ELSE -1]
    /\ keyring \in {None, [login |-> 0, turn |-> 0]}
    /\ granted = None /\ cli = "idle"
    /\ tokens = None /\ throttledUntil = 0 /\ strikes = 0
    /\ premium = "unknown" /\ scopeMissing = FALSE /\ libraryForbidden = FALSE
    /\ caller = None /\ sentAt = 0
    /\ waiting = [k \in Kinds |-> 0] /\ telling = [m \in Messages |-> 0]
    /\ engine = "loading" /\ loaded = None /\ reload = FALSE /\ events = <<>>
    /\ authorized = FALSE /\ shownPremium = "unknown"
    /\ needsLogin = FALSE /\ libraryAvailable = TRUE
    /\ told = 0 /\ refused = [times |-> 0, wait |-> 0]
    /\ missed = {} /\ crossed = FALSE
    /\ asked = 0 /\ faults = 0

-----------------------------------------------------------------------------
(* The request: access_token, request and the answer. *)

Holding(kind, phase) == caller' = [kind |-> kind, phase |-> phase]

\* A request, or the exchange before it, is sent.
Sends(kind, phase) == Holding(kind, phase) /\ sentAt' = now
Calls(kind) == Sends(kind, "calling")

\* A failure is told the engine if the client knows what it lacks; a transfer tells
\* of the devices whatever became of it.
Tells(kind) ==
    CASE kind = "liked" /\ libraryForbidden' -> {EventOf("unavailable")}
      [] kind = "playlists" /\ scopeMissing' -> {EventOf("needsLogin")}
      [] kind = "transfer" -> {DevicesEvent(premium')}
      [] OTHER -> {}

LetsGo(messages) ==
    /\ caller' = None
    /\ telling' = [m \in Messages |-> telling[m] + (IF m \in messages THEN 1 ELSE 0)]

Fails(kind) == LetsGo(Tells(kind))

\* A mistake: every request goes out at once.
ThrottledNever == FALSE

Throttled == now < throttledUntil

\* A mistake: tokens are renewed when they have run out.
FreshUntilExpiry(t) == now < t.until

IsFresh(t) == now + Margin < t.until

\* A task gets the client.
Acquire ==
    /\ caller = None
    /\ \E k \in Kinds :
          /\ waiting[k] > 0
          /\ waiting' = [waiting EXCEPT ![k] = @ - 1]
          /\ IF Throttled
             THEN UNCHANGED <<throttledUntil, strikes>>
             ELSE throttledUntil' = 0 /\ strikes' = 0
          /\ UNCHANGED <<tokens, premium, scopeMissing, libraryForbidden>>
          /\ IF Throttled \/ tokens = None
             THEN Fails(k) /\ UNCHANGED sentAt
             ELSE /\ UNCHANGED telling
                  /\ Sends(k, IF IsFresh(tokens) THEN "calling" ELSE "refreshing")
    /\ UNCHANGED <<followed, now, service, keyring, cli, loop, events, shown, history,
                   asked, faults>>

Exchanging == caller # None /\ caller.phase = "refreshing"

\* The refresh token that is exchanged.
Traded == IF caller.kind = "engine" THEN loaded ELSE tokens.refresh

\* auth::refresh, at Spotify: it keeps the refresh token or issues the next one.
Renewals(token) ==
    {token} \cup (IF token.turn < MaxTurns THEN {[token EXCEPT !.turn = @ + 1]} ELSE {})

Renew ==
    /\ Exchanging /\ granted = None /\ Accepted(Traded)
    /\ \E token \in Renewals(Traded) :
          /\ turn' = [turn EXCEPT ![token.login] = token.turn]
          /\ granted' = [refresh |-> token, expires |-> now + Lifetime]
          /\ crossed' = (crossed \/ (caller.kind = "engine" /\ token # loaded))
    /\ UNCHANGED <<followed, now, plan, lacking, keyring, cli, client, call, tasks, loop,
                   events, shown, told, refused, missed, asked, faults>>

\* auth::refresh, as its answer arrives: the life of the access token counts from now.
Adopts ==
    /\ tokens' = [refresh |-> granted.refresh, until |-> now + Lifetime,
                  expires |-> granted.expires]
    /\ granted' = None

\* Spotify refuses the token, or the exchange fails, perhaps on the way back.
ExchangeFails ==
    /\ \/ granted = None /\ ~Accepted(Traded) /\ UNCHANGED <<missed, faults>>
       \/ /\ faults < MaxFaults /\ faults' = faults + 1
          /\ missed' = IF granted # None /\ granted.refresh # Traded
                       THEN {"keyring", "client"} ELSE missed
    /\ granted' = None

\* A mistake: the token that was issued is forgotten on exit.
SaveRenewedNot(token) == UNCHANGED <<keyring, missed, crossed, faults>>

\* A renewed token is stored if it is a new one.  Nobody looks whether that worked.
SaveRenewed(token) ==
    \/ /\ token = tokens.refresh /\ missed' = missed \ {"client"}
       /\ UNCHANGED <<keyring, crossed, faults>>
    \/ /\ token # tokens.refresh
       /\ keyring' = token /\ missed' = {}
       /\ crossed' = (crossed \/ keyring # tokens.refresh)
       /\ UNCHANGED faults
    \/ /\ token # tokens.refresh
       /\ faults < MaxFaults /\ faults' = faults + 1
       /\ missed' = {"keyring"}
       /\ UNCHANGED <<keyring, crossed>>

\* access_token, the answer in hand: stored, then adopted, and the call goes out.  It
\* waits for nothing in between, and a daemon that ends there is one that ends after.
Refresh ==
    /\ Exchanging /\ caller.kind \in Kinds /\ granted # None
    /\ SaveRenewed(granted.refresh) /\ Adopts
    /\ Calls(caller.kind)
    /\ UNCHANGED <<followed, now, plan, lacking, turn, cli, throttledUntil, strikes,
                   premium, scopeMissing, libraryForbidden, tasks, loop, events, shown,
                   told, refused, asked>>

RefreshFails ==
    /\ Exchanging /\ caller.kind \in Kinds /\ ExchangeFails
    /\ UNCHANGED client
    /\ Fails(caller.kind)
    /\ UNCHANGED <<followed, now, plan, lacking, turn, keyring, cli, sentAt, waiting,
                   loop, events, shown, told, refused, crossed, asked>>

Calling == caller # None /\ caller.phase = "calling"

\* What every answer but a 429 leaves alone.
AnswerFrame ==
    UNCHANGED <<followed, now, service, keyring, cli, tokens, throttledUntil, strikes,
                sentAt, waiting, events, told, missed, asked>>

\* What a task does with a success.
Done(kind) ==
    CASE kind \in {"liked", "playlists"} -> LetsGo({EventOf(kind)})
      [] kind = "play" -> LetsGo({})
      [] kind = "transfer" -> LetsGo({DevicesEvent(premium)})
      [] OTHER -> Holding(kind, "telling") /\ UNCHANGED telling

Succeed ==
    /\ Calling /\ caller.kind \in Kinds /\ ~Refused(caller.kind)
    /\ Done(caller.kind)
    /\ refused' = [times |-> 0, wait |-> 0]
    /\ AnswerFrame
    /\ UNCHANGED <<premium, scopeMissing, libraryForbidden, loop, shown, crossed, faults>>

\* A 403: is_saved, set_saved, playlists and player_write each remember it.
Refuse ==
    /\ Calling /\ caller.kind \in Kinds /\ Refused(caller.kind)
    /\ libraryForbidden' = (libraryForbidden \/ caller.kind \in {"liked", "save"})
    /\ scopeMissing' = (scopeMissing \/ caller.kind = "playlists")
    /\ premium' = IF caller.kind \in Writes THEN "free" ELSE premium
    /\ Fails(caller.kind)
    /\ refused' = [times |-> 0, wait |-> 0]
    /\ AnswerFrame
    /\ UNCHANGED <<loop, shown, crossed, faults>>

\* No answer, or one that means nothing.
CallFails ==
    /\ Calling /\ caller.kind \in Kinds
    /\ faults < MaxFaults /\ faults' = faults + 1
    /\ UNCHANGED <<premium, scopeMissing, libraryForbidden>>
    /\ Fails(caller.kind)
    /\ AnswerFrame
    /\ UNCHANGED <<loop, shown, refused, crossed>>

\* A 429, whoever asked.
Limit(retry) ==
    LET wait == Backoff(retry, strikes + 1) IN
    /\ strikes' = strikes + 1
    /\ throttledUntil' = now + wait
    /\ refused' = [times |-> refused.times + 1, wait |-> wait]
    /\ told' = now + (IF retry = None THEN 0 ELSE Smaller(retry, Cap))

TooMany ==
    /\ Calling /\ caller.kind \in Kinds
    /\ \E retry \in RetryAfters : Limit(retry)
    /\ UNCHANGED <<tokens, premium, scopeMissing, libraryForbidden>>
    /\ Fails(caller.kind)
    /\ UNCHANGED <<followed, now, service, keyring, cli, sentAt, waiting, loop, events,
                   shown, missed, crossed, asked, faults>>

\* A mistake: nobody waits for room.
HasRoomAlways == TRUE

HasRoom == Len(events) < Capacity

\* A task sends while it has the client.
TellAndLetGo ==
    /\ caller # None /\ caller.phase = "telling" /\ HasRoom
    /\ events' = Append(events, IF caller.kind = "save" THEN EventOf("liked")
                                ELSE DevicesEvent(premium))
    /\ LetsGo({})
    /\ UNCHANGED <<followed, now, service, keyring, cli, client, sentAt, waiting, loop,
                   shown, history, asked, faults>>

\* A task that let go of it sends.
Tell ==
    /\ HasRoom
    /\ \E m \in Messages :
          /\ telling[m] > 0
          /\ telling' = [telling EXCEPT ![m] = @ - 1]
          /\ events' = Append(events, m)
    /\ UNCHANGED <<followed, now, service, keyring, cli, client, call, waiting, loop,
                   shown, history, asked, faults>>

-----------------------------------------------------------------------------
(* The engine: restore_spotify, at the start and for a ReloadSpotify. *)

Ask(kinds) ==
    waiting' = [k \in Kinds |-> waiting[k] + (IF k \in kinds \cap followed THEN 1 ELSE 0)]

OnItsWay(kind) ==
    telling[EventOf(kind)] > 0 \/ \E i \in DOMAIN events : events[i].kind = kind

\* A mistake: what the old token could not do still hides its controls.
RestoredKeeping ==
    /\ engine' = "free" /\ reload' = FALSE /\ loaded' = None
    /\ needsLogin' = FALSE
    /\ IF reload THEN Ask({"playlists", "devices"}) ELSE UNCHANGED waiting
    /\ crossed' = (crossed \/ \E m \in Refusals : OnItsWay(m))
    /\ UNCHANGED libraryAvailable

\* How apply goes on, whether or not a token was adopted.
Restored ==
    /\ engine' = "free" /\ reload' = FALSE /\ loaded' = None
    /\ IF reload
       THEN needsLogin' = FALSE /\ libraryAvailable' = TRUE /\ Ask({"playlists", "devices"})
       ELSE UNCHANGED <<needsLogin, libraryAvailable, waiting>>
    /\ crossed' = (crossed \/ \E m \in Refusals : OnItsWay(m))

\* The stored token; none to adopt, or a keyring that cannot be read.
LoadKeyring ==
    /\ engine = "loading"
    /\ \/ keyring = None /\ Restored /\ UNCHANGED faults
       \/ /\ keyring # None /\ engine' = "waiting" /\ loaded' = keyring
          /\ UNCHANGED <<reload, needsLogin, libraryAvailable, waiting, crossed, faults>>
       \/ /\ faults < MaxFaults /\ faults' = faults + 1 /\ Restored
    /\ UNCHANGED <<followed, now, service, keyring, cli, client, call, telling, events,
                   authorized, shownPremium, told, refused, missed, asked>>

TakeClient ==
    /\ engine = "waiting" /\ caller = None
    /\ engine' = "calling" /\ Sends("engine", "refreshing")
    /\ UNCHANGED <<followed, now, service, keyring, cli, client, tasks, loaded, reload,
                   events, shown, history, asked, faults>>

\* Client::restore forgets what the last token could not do.
Forget ==
    /\ scopeMissing' = FALSE /\ libraryForbidden' = FALSE /\ premium' = "unknown"
    /\ authorized' = TRUE

EngineRefreshing == Exchanging /\ caller.kind = "engine"

\* The token works, and is not stored again should it have been renewed.  The
\* subscription is asked for unless the rate limit is on.
Restore ==
    /\ EngineRefreshing /\ granted # None
    /\ Adopts /\ Forget
    /\ missed' = IF granted.refresh = loaded THEN missed \ {"client"} ELSE {"keyring"}
    /\ IF Throttled
       THEN /\ caller' = None /\ Restored /\ shownPremium' = "unknown"
            /\ UNCHANGED <<throttledUntil, strikes, sentAt>>
       ELSE /\ Calls("engine") /\ throttledUntil' = 0 /\ strikes' = 0
            /\ UNCHANGED <<loop, needsLogin, libraryAvailable, waiting, crossed, shownPremium>>
    /\ UNCHANGED <<followed, now, plan, lacking, turn, keyring, cli, telling, events,
                   told, refused, asked, faults>>

RestoreFails ==
    /\ EngineRefreshing /\ ExchangeFails
    /\ caller' = None /\ Restored
    /\ UNCHANGED <<followed, now, plan, lacking, turn, keyring, cli, client, sentAt,
                   telling, events, authorized, shownPremium, told, refused, asked>>

\* check_premium: Spotify may not say, and a failure says nothing either.
CheckPremium ==
    /\ Calling /\ caller.kind = "engine"
    /\ \E said \in {plan, "unknown"} : premium' = said /\ shownPremium' = said
    /\ caller' = None /\ Restored
    /\ refused' = [times |-> 0, wait |-> 0]
    /\ UNCHANGED <<followed, now, service, keyring, cli, tokens, throttledUntil, strikes,
                   scopeMissing, libraryForbidden, sentAt, telling, events, authorized,
                   told, missed, asked, faults>>

CheckLimited ==
    /\ Calling /\ caller.kind = "engine"
    /\ \E retry \in RetryAfters : Limit(retry)
    /\ shownPremium' = "unknown"
    /\ caller' = None /\ Restored
    /\ UNCHANGED <<followed, now, service, keyring, cli, tokens, premium, scopeMissing,
                   libraryForbidden, sentAt, telling, events, authorized, missed, asked,
                   faults>>

\* ReloadSpotify arrives from `waytify login`, which has stored its token.
Reload ==
    /\ engine = "free" /\ cli = "saved"
    /\ engine' = "loading" /\ reload' = TRUE /\ cli' = "idle"
    /\ UNCHANGED <<followed, now, service, keyring, client, call, tasks, loaded, events,
                   shown, history, asked, faults>>

\* A track changes, a window opens, somebody clicks.  The player's signals,
\* which take room in the channel as well, are left out.
Start ==
    /\ engine = "free" /\ asked < MaxAsked /\ asked' = asked + 1
    /\ \E k \in followed :
          /\ k = "liked" => libraryAvailable
          /\ Ask({k})
    /\ UNCHANGED <<followed, now, service, keyring, cli, client, call, telling, loop,
                   events, shown, history, faults>>

\* handle_player_event, for what concerns the account.
Handle ==
    /\ engine = "free" /\ events # <<>>
    /\ LET event == Head(events) IN
       /\ needsLogin' = (needsLogin \/ event.kind = "needsLogin")
       /\ libraryAvailable' = (libraryAvailable /\ event.kind # "unavailable")
       /\ shownPremium' = IF event.kind = "devices" /\ event.premium # "unknown"
                          THEN event.premium ELSE shownPremium
    /\ events' = Tail(events)
    /\ UNCHANGED <<followed, now, service, keyring, cli, client, call, tasks, loop,
                   authorized, history, asked, faults>>

-----------------------------------------------------------------------------
(* The user, time, and the daemon's end. *)

\* `waytify login`: a login that can do everything is stored.
Login ==
    /\ cli = "idle"
    /\ \E l \in Logins :
          /\ turn[l] = -1 /\ \A k \in Logins : k < l => turn[k] >= 0
          /\ turn' = [turn EXCEPT ![l] = 0]
          /\ keyring' = [login |-> l, turn |-> 0]
    /\ missed' = missed \ {"keyring"} /\ cli' = "saved"
    /\ UNCHANGED <<followed, now, plan, lacking, granted, client, call, tasks, loop,
                   events, shown, told, refused, crossed, asked, faults>>

\* `waytify logout`: the daemon is not told.
Logout ==
    /\ keyring # None /\ cli = "idle" /\ keyring' = None
    /\ faults < MaxFaults /\ faults' = faults + 1
    /\ UNCHANGED <<followed, now, service, cli, client, call, tasks, loop, events, shown,
                   history, asked>>

\* A call and an exchange are answered within their timeouts.
Tick ==
    /\ now < MaxTime /\ now' = now + 1
    /\ Calling => now < sentAt + Timeout
    /\ Exchanging => now < sentAt + Exchange
    /\ UNCHANGED <<followed, service, keyring, cli, client, call, tasks, loop, events,
                   shown, history, asked, faults>>

\* The daemon ends, whatever it was doing, and another one starts.  What was on its
\* way from Spotify is lost.
Restart ==
    /\ faults < MaxFaults /\ faults' = faults + 1
    /\ missed' = (missed \ {"client"})
                    \cup (IF granted # None /\ granted.refresh # Traded
                          THEN {"keyring"} ELSE {})
    /\ granted' = None
    /\ tokens' = None /\ throttledUntil' = 0 /\ strikes' = 0
    /\ premium' = "unknown" /\ scopeMissing' = FALSE /\ libraryForbidden' = FALSE
    /\ caller' = None /\ sentAt' = 0
    /\ waiting' = [k \in Kinds |-> 0] /\ telling' = [m \in Messages |-> 0]
    /\ engine' = "loading" /\ loaded' = None /\ reload' = FALSE /\ events' = <<>>
    /\ authorized' = FALSE /\ shownPremium' = "unknown"
    /\ needsLogin' = FALSE /\ libraryAvailable' = TRUE
    /\ told' = 0 /\ refused' = [times |-> 0, wait |-> 0]
    /\ cli' \in {cli, "idle"}
    /\ UNCHANGED <<followed, now, plan, lacking, turn, keyring, crossed, asked>>

Requests == Acquire \/ Renew \/ Refresh \/ RefreshFails \/ TellAndLetGo \/ Tell
Spotify == Succeed \/ Refuse \/ CallFails \/ TooMany
Restoring == LoadKeyring \/ TakeClient \/ Restore \/ RestoreFails \/ CheckPremium \/ CheckLimited
Engine == Reload \/ Start \/ Handle
User == Login \/ Logout \/ Tick \/ Restart

Next == Requests \/ Spotify \/ Restoring \/ Engine \/ User

Spec == Init /\ [][Next]_vars

-----------------------------------------------------------------------------
(* Properties. *)

AccountTyped ==
    /\ plan \in Plans /\ lacking \subseteq {"library", "scope"}
    /\ turn \in [Logins -> -1..MaxTurns]
    /\ keyring \in Tokens \cup {None} /\ loaded \in Tokens \cup {None}
    /\ granted \in Grants \cup {None}
    /\ cli \in {"idle", "saved"}

ClientTyped ==
    /\ now \in 0..MaxTime /\ sentAt \in 0..MaxTime
    /\ tokens \in Adoptions \cup {None}
    /\ throttledUntil \in Nat /\ strikes \in Nat
    /\ caller \in Callers \cup {None}
    /\ told \in Nat /\ refused \in [times : Nat, wait : Nat]

QueuesTyped ==
    /\ waiting \in [Kinds -> Nat] /\ telling \in [Messages -> Nat]
    /\ Len(events) <= Capacity

FlagsTyped ==
    /\ scopeMissing \in BOOLEAN /\ libraryForbidden \in BOOLEAN
    /\ authorized \in BOOLEAN /\ needsLogin \in BOOLEAN /\ libraryAvailable \in BOOLEAN
    /\ reload \in BOOLEAN /\ crossed \in BOOLEAN /\ missed \subseteq {"keyring", "client"}
    /\ premium \in Plans \cup {"unknown"} /\ shownPremium \in Plans \cup {"unknown"}
    /\ engine \in {"free", "loading", "waiting", "calling"}
    /\ followed \in Slices /\ asked \in 0..MaxAsked /\ faults \in 0..MaxFaults

\* Every variable has its type.
TypeOK == AccountTyped /\ ClientTyped /\ QueuesTyped /\ FlagsTyped

\* No request is sent before the time Spotify asked to be left alone until, no
\* matter who was refused and how many were waiting behind it.
WaitsAsTold == Calling => sentAt >= told

\* A request that is in the air is answered before Spotify lets its access token
\* expire, though the token was last looked at before the request waited its turn,
\* and its life was counted from when the answer arrived that granted it.
TokensOutliveCalls == Calling => now < tokens.expires

\* The token that is exchanged: its successor is on its way.
Replacing(token) == granted # None /\ token = Traded

\* A refresh token that Spotify issues in place of another reaches both the keyring,
\* so that the next daemon can adopt it, and the client, so that this one goes on:
\* what each of them has is accepted, or its successor is on its way.  Left out are
\* the keyring until something is stored there again, after a successor that the
\* restore got, a write that failed, or an end of the daemon before the answer came;
\* and both, after an answer that was lost.
RotationsAreKept ==
    /\ keyring # None /\ "keyring" \notin missed => Accepted(keyring) \/ Replacing(keyring)
    /\ tokens # None /\ "client" \notin missed =>
          Accepted(tokens.refresh) \/ Replacing(tokens.refresh)

\* "losing the new one means the next start has to log in again": what is stored
\* works, once no answer is on its way.  The result of storing it is dropped, the
\* restore does not store it at all, and the daemon can end between Spotify's answer
\* and the keyring.
StoredTokenWorks == keyring # None /\ granted = None => Accepted(keyring)

NothingPending ==
    /\ engine = "free" /\ cli = "idle" /\ caller = None /\ events = <<>>
    /\ \A k \in Kinds : waiting[k] = 0
    /\ \A m \in Messages : telling[m] = 0

\* A login takes effect in a daemon that is running: it goes on with the stored
\* token, and what only the old one could not do is offered again.
LoginTakesEffect ==
    NothingPending /\ keyring # None /\ ~crossed /\ faults = 0 =>
        /\ tokens # None /\ tokens.refresh = keyring /\ authorized
        /\ keyring.login > 0 => libraryAvailable /\ ~needsLogin

\* Each refusal in a row doubles the least time the client stays away.
RefusalsDouble ==
    refused.times > 0 => refused.wait >= Smaller(FloorAt[Smaller(refused.times, Doublings)], Cap)

\* The engine never waits for a client whose holder waits for the engine.
NeverEmbraced ==
    ~ /\ engine = "waiting" /\ Len(events) = Capacity
      /\ caller # None /\ caller.phase = "telling"
=============================================================================
