-------------------------- MODULE SpotifyClientProofs --------------------------
(***************************************************************************)
(* For any waits, lifetimes, margins, kinds of request and bounds: the     *)
(* client keeps the wait it was told, no call outlives its access token,   *)
(* a refresh token that is issued reaches the keyring and the client, as   *)
(* far as they keep it, and a login takes effect.                          *)
(***************************************************************************)
EXTENDS SpotifyClient, TLAPS

Events ==
    [kind : {"liked", "playlists", "devices"} \cup Refusals, premium : Plans \cup Unsaid]

\* Who has the client has what the phase of its request needs.
CallFits ==
    /\ events \in Seq(Events)
    /\ engine \in {"waiting", "calling"} => loaded # None
    /\ caller # None /\ caller.kind = "engine" =>
          engine = "calling" /\ caller.phase # "telling"
    /\ caller # None /\ caller.phase # "telling"
          /\ (caller.kind # "engine" \/ caller.phase = "calling") => tokens # None

\* What Spotify said of the wait stands until it has passed, and whoever passed
\* the check of the limit still has the client.
LimitKept ==
    /\ told <= now \/ told <= throttledUntil
    /\ caller # None /\ caller.phase = "refreshing" /\ caller.kind # "engine" => told <= now
    /\ Calling => told <= sentAt

\* What Spotify answered an exchange with follows the token that was exchanged, and
\* is the one it accepts.
GrantFits ==
    granted # None =>
        /\ Exchanging
        /\ granted.refresh.login = Traded.login /\ Accepted(granted.refresh)
        /\ granted.refresh = Traded \/ granted.refresh.turn = Traded.turn + 1
        /\ caller.kind = "engine" /\ granted.refresh # loaded => crossed

\* The access token outlives the call it was found fresh for, and is taken to live no
\* longer than an exchange may take after Spotify lets it expire.
CallTimed ==
    /\ Exchanging => sentAt <= now /\ now <= sentAt + Exchange
    /\ granted # None => sentAt + Lifetime <= granted.expires
    /\ tokens # None => tokens.until <= tokens.expires + Exchange
    /\ Calling => sentAt <= now /\ now <= sentAt + Timeout /\ sentAt + Timeout < tokens.expires

\* All of the client that bears on its waits and its tokens.
IInv == TypeOK /\ CallFits /\ LimitKept /\ GrantFits /\ CallTimed /\ RotationsAreKept

-----------------------------------------------------------------------------

LEMMA Numbers ==
  /\ Margin \in Nat /\ Timeout \in Nat /\ Lifetime \in Nat /\ Capacity \in Nat /\ Cap \in Nat
  /\ MaxTime \in Nat /\ MaxAsked \in Nat /\ MaxLogins \in Nat /\ MaxTurns \in Nat
  /\ MaxFaults \in Nat
  /\ Exchange \in Nat /\ Exchange + Timeout <= Margin /\ Margin < Lifetime
BY ClientAssumption

\* None is nothing that is stored, sent or held.
LEMMA NoneIsNothing ==
  /\ \A token \in Tokens, expires \in Nat : None # [refresh |-> token, expires |-> expires]
  /\ \A token \in Tokens, until, expires \in Nat :
        None # [refresh |-> token, until |-> until, expires |-> expires]
  /\ None \notin Tokens /\ None \notin Callers
  /\ \A kind \in Kinds \cup {"engine"}, phase \in {"refreshing", "calling", "telling"} :
        None # [kind |-> kind, phase |-> phase]
BY NoneAssumption DEF Callers, Grants, Adoptions

\* The wait is at least what Spotify said, as far as the cap allows.
LEMMA BackoffIsEnough ==
  ASSUME NEW n \in Nat \ {0}, NEW retry \in RetryAfters
  PROVE  /\ Backoff(retry, n) \in Nat
         /\ (IF retry = None THEN 0 ELSE Smaller(retry, Cap)) \in Nat
         /\ (IF retry = None THEN 0 ELSE Smaller(retry, Cap)) <= Backoff(retry, n)
<1>1. Smaller(n, Doublings) \in 1..Len(FloorAt)
  BY ClientAssumption DEF Smaller, Doublings
<1>2. FloorAt[Smaller(n, Doublings)] \in Nat /\ FloorAt[1] \in Nat
  BY <1>1, ClientAssumption
<1>3. retry # None => retry \in Nat
  BY ClientAssumption
<1>4. Cap \in Nat
  BY ClientAssumption
<1> DEFINE floor == FloorAt[Smaller(n, Doublings)]
           asTold == IF retry = None THEN FloorAt[1] ELSE retry
<1>5. Backoff(retry, n) = Smaller(Larger(asTold, floor), Cap)
  BY DEF Backoff
<1>6. floor \in Nat /\ asTold \in Nat
  BY <1>2, <1>3
<1> HIDE DEF floor
<1>7. QED
  BY <1>3, <1>4, <1>5, <1>6 DEF Smaller, Larger

\* Renewing keeps the login, and never issues a token out of turn.
LEMMA Renewed ==
  ASSUME NEW old \in Tokens, NEW token \in Renewals(old)
  PROVE  /\ token \in Tokens /\ token.login = old.login
         /\ token = old \/ token.turn = old.turn + 1
BY Numbers DEF Renewals, Tokens, Logins

\* A task that gets the client lets go of it, calls or renews the access token.
LEMMA AcquireDoes ==
  ASSUME Acquire
  PROVE  /\ caller = None
         /\ UNCHANGED <<now, tokens, told, refused, missed, crossed, events, loop, plan, turn,
                        granted, keyring, cli>>
         /\ IF Throttled THEN UNCHANGED <<throttledUntil, strikes>>
                         ELSE throttledUntil' = 0 /\ strikes' = 0
         /\ \/ caller' = None /\ sentAt' = sentAt
            \/ /\ ~Throttled /\ tokens # None /\ IsFresh(tokens) /\ sentAt' = now
               /\ \E k \in Kinds : caller' = [kind |-> k, phase |-> "calling"]
            \/ /\ ~Throttled /\ tokens # None /\ sentAt' = now
               /\ \E k \in Kinds : caller' = [kind |-> k, phase |-> "refreshing"]
<1>1. PICK k \in Kinds :
         IF Throttled \/ tokens = None
         THEN Fails(k) /\ UNCHANGED sentAt
         ELSE Sends(k, IF IsFresh(tokens) THEN "calling" ELSE "refreshing")
  BY DEF Acquire
<1>2. /\ caller = None
      /\ UNCHANGED <<now, tokens, told, refused, missed, crossed, events, loop, plan, turn,
                     granted, keyring, cli>>
      /\ IF Throttled THEN UNCHANGED <<throttledUntil, strikes>>
                      ELSE throttledUntil' = 0 /\ strikes' = 0
  BY DEF Acquire, service, history
<1>3. CASE Throttled \/ tokens = None
  BY <1>1, <1>2, <1>3 DEF Fails, LetsGo
<1>4. CASE ~(Throttled \/ tokens = None) /\ IsFresh(tokens)
  BY <1>1, <1>2, <1>4 DEF Sends, Holding
<1>5. CASE ~(Throttled \/ tokens = None) /\ ~IsFresh(tokens)
  BY <1>1, <1>2, <1>5 DEF Sends, Holding
<1>6. QED
  BY <1>3, <1>4, <1>5

\* Who exchanges a token has one.
LEMMA TradedIs ==
  ASSUME AccountTyped, ClientTyped, CallFits, Exchanging
  PROVE  /\ Traded \in Tokens
         /\ caller.kind # "engine" =>
               tokens # None /\ Traded = tokens.refresh /\ caller.kind \in Kinds
         /\ caller.kind = "engine" =>
               engine = "calling" /\ Traded = loaded /\ caller.kind \notin Kinds
<1>1. caller \in Callers /\ caller # None /\ caller.phase = "refreshing"
  BY DEF Exchanging, ClientTyped
<1>2. CASE caller.kind = "engine"
  BY <1>1, <1>2 DEF Traded, CallFits, AccountTyped, Kinds
<1>3. CASE caller.kind # "engine"
  BY <1>1, <1>3 DEF Traded, CallFits, ClientTyped, Callers, Adoptions
<1>4. QED
  BY <1>2, <1>3

\* Spotify takes one token for the same, or for the next.
LEMMA RenewDoes ==
  ASSUME AccountTyped, ClientTyped, CallFits, Renew
  PROVE  /\ Exchanging /\ granted = None /\ Accepted(Traded)
         /\ \E token \in Tokens :
               /\ token.login = Traded.login
               /\ token = Traded \/ token.turn = Traded.turn + 1
               /\ turn' = [turn EXCEPT ![token.login] = token.turn]
               /\ granted' = [refresh |-> token, expires |-> now + Lifetime]
               /\ crossed' = (crossed \/ (caller.kind = "engine" /\ token # loaded))
<1>1. Exchanging /\ granted = None /\ Accepted(Traded)
  BY DEF Renew
<1>2. PICK token \in Renewals(Traded) :
         /\ turn' = [turn EXCEPT ![token.login] = token.turn]
         /\ granted' = [refresh |-> token, expires |-> now + Lifetime]
         /\ crossed' = (crossed \/ (caller.kind = "engine" /\ token # loaded))
  BY DEF Renew
<1>3. /\ token \in Tokens /\ token.login = Traded.login
      /\ token = Traded \/ token.turn = Traded.turn + 1
  BY <1>1, <1>2, TradedIs, Renewed
<1>4. QED
  BY <1>1, <1>2, <1>3

\* The answer is adopted, and its refresh token stored if it is a new one.
LEMMA RefreshDoes ==
  ASSUME AccountTyped, ClientTyped, CallFits, Refresh
  PROVE  /\ Exchanging /\ caller.kind \in Kinds /\ caller.kind # "engine"
         /\ tokens # None /\ tokens.refresh \in Tokens /\ Traded = tokens.refresh
         /\ granted # None /\ granted \in Grants /\ granted' = None
         /\ tokens' = [refresh |-> granted.refresh, until |-> now + Lifetime,
                       expires |-> granted.expires]
         /\ tokens' # None /\ tokens' \in Adoptions
         /\ SaveRenewed(granted.refresh)
         /\ caller' = [kind |-> caller.kind, phase |-> "calling"] /\ caller' # None
         /\ caller' \in Callers
         /\ sentAt' = now /\ UNCHANGED <<now, turn, plan, lacking, cli, loop, events, told>>
<1>1. /\ Exchanging /\ caller.kind \in Kinds /\ granted # None /\ SaveRenewed(granted.refresh)
      /\ Adopts /\ Calls(caller.kind)
      /\ UNCHANGED <<now, turn, plan, lacking, cli, loop, events, told>>
  BY DEF Refresh
<1>2. caller.kind # "engine"
  BY <1>1 DEF Kinds
<1>3. tokens # None /\ Traded = tokens.refresh /\ tokens.refresh \in Tokens
  BY <1>1, <1>2, TradedIs
<1>4. granted \in Grants /\ granted' = None
      /\ tokens' = [refresh |-> granted.refresh, until |-> now + Lifetime,
                    expires |-> granted.expires]
  BY <1>1 DEF Adopts, AccountTyped
<1>5. tokens' \in Adoptions /\ tokens' # None
  BY <1>4, Numbers, NoneAssumption DEF ClientTyped, Grants, Adoptions
<1>6. caller' = [kind |-> caller.kind, phase |-> "calling"] /\ sentAt' = now
  BY <1>1 DEF Calls, Sends, Holding
<1>7. caller' # None /\ caller' \in Callers
  BY <1>1, <1>6, NoneIsNothing DEF Callers
<1>8. QED
  BY <1>1, <1>2, <1>3, <1>4, <1>5, <1>6, <1>7

\* What storing a renewed token comes to.
LEMMA SaveDoes ==
  ASSUME FlagsTyped, NEW token \in Tokens, SaveRenewed(token)
  PROVE  /\ missed' \subseteq {"keyring", "client"} /\ faults' \in 0..MaxFaults
         /\ crossed' \in BOOLEAN /\ (crossed => crossed')
         /\ keyring' \in {keyring, token}
<1>1. missed' \subseteq {"keyring", "client"} /\ keyring' \in {keyring, token}
  BY DEF SaveRenewed, FlagsTyped
<1>2. faults' \in 0..MaxFaults
  BY Numbers DEF SaveRenewed, FlagsTyped
<1>3. crossed => crossed'
  BY DEF SaveRenewed
<1>4. crossed' \in BOOLEAN
  BY DEF SaveRenewed, FlagsTyped
<1>5. QED
  BY <1>1, <1>2, <1>3, <1>4

\* An exchange that fails leaves the tokens as they are.
LEMMA ExchangeFailsDoes ==
  ASSUME FlagsTyped, ExchangeFails
  PROVE  /\ granted' = None /\ missed' \subseteq {"keyring", "client"}
         /\ faults' \in 0..MaxFaults
         /\ \/ granted = None /\ ~Accepted(Traded) /\ UNCHANGED <<missed, faults>>
            \/ faults' # 0
<1>1. CASE granted = None /\ ~Accepted(Traded) /\ UNCHANGED <<missed, faults>>
  BY <1>1 DEF ExchangeFails, FlagsTyped
<1>2. CASE /\ faults < MaxFaults /\ faults' = faults + 1
           /\ missed' \in {{"keyring", "client"}, missed}
  <2>1. faults' \in 0..MaxFaults /\ faults' # 0
    BY <1>2, Numbers DEF FlagsTyped
  <2>2. QED
    BY <1>2, <2>1 DEF ExchangeFails, FlagsTyped
<1>3. QED
  BY <1>1, <1>2 DEF ExchangeFails

\* The engine has the client, and an answer to adopt.
LEMMA RestoreDoes ==
  ASSUME AccountTyped, ClientTyped, CallFits, Restore
  PROVE  /\ Exchanging /\ caller.kind = "engine" /\ engine = "calling"
         /\ loaded \in Tokens /\ Traded = loaded
         /\ granted # None /\ granted \in Grants /\ granted' = None
         /\ UNCHANGED <<now, told, refused, turn, keyring, plan, lacking, cli, faults>>
         /\ tokens' = [refresh |-> granted.refresh, until |-> now + Lifetime,
                       expires |-> granted.expires]
         /\ tokens' # None /\ tokens' \in Adoptions /\ authorized'
         /\ missed' = IF granted.refresh = loaded THEN missed \ {"client"} ELSE {"keyring"}
         /\ crossed => crossed'
         /\ \/ /\ Throttled /\ caller' = None /\ engine' = "free" /\ loaded' = None
               /\ UNCHANGED <<throttledUntil, strikes, sentAt>>
            \/ /\ ~Throttled /\ caller' = [kind |-> "engine", phase |-> "calling"]
               /\ caller' # None
               /\ sentAt' = now /\ throttledUntil' = 0 /\ strikes' = 0
               /\ UNCHANGED <<engine, loaded, crossed>>
<1>1. /\ Exchanging /\ caller.kind = "engine" /\ granted # None /\ Adopts
      /\ missed' = IF granted.refresh = loaded THEN missed \ {"client"} ELSE {"keyring"}
      /\ UNCHANGED <<now, told, refused, turn, keyring, plan, lacking, cli, faults>>
  BY DEF Restore, EngineRefreshing
<1>2. loaded \in Tokens /\ Traded = loaded /\ engine = "calling"
  BY <1>1, TradedIs
<1>3. granted \in Grants /\ granted' = None
      /\ tokens' = [refresh |-> granted.refresh, until |-> now + Lifetime,
                    expires |-> granted.expires]
  BY <1>1 DEF Adopts, AccountTyped
<1>4. tokens' \in Adoptions /\ tokens' # None
  BY <1>3, Numbers, NoneAssumption DEF ClientTyped, Grants, Adoptions
<1>5. authorized'
  BY DEF Restore, Forget
<1>6. ASSUME Throttled
      PROVE  /\ caller' = None /\ engine' = "free" /\ loaded' = None /\ (crossed => crossed')
             /\ UNCHANGED <<throttledUntil, strikes, sentAt>>
  BY <1>6 DEF Restore, Restored
<1>7. ASSUME ~Throttled
      PROVE  /\ caller' = [kind |-> "engine", phase |-> "calling"] /\ caller' # None
             /\ sentAt' = now /\ throttledUntil' = 0 /\ strikes' = 0
             /\ UNCHANGED <<engine, loaded, crossed>>
  BY <1>7, NoneIsNothing DEF Restore, Calls, Sends, Holding, loop
<1>8. QED
  BY <1>1, <1>2, <1>3, <1>4, <1>5, <1>6, <1>7

\* A refusal for rate records what Spotify said, and waits at least as long.
LEMMA LimitDoes ==
  ASSUME ClientTyped, NEW retry \in RetryAfters, Limit(retry)
  PROVE  /\ strikes' \in Nat /\ throttledUntil' \in Nat /\ told' \in Nat
         /\ refused' \in [times : Nat, wait : Nat]
         /\ told' <= throttledUntil'
<1>1. strikes + 1 \in Nat \ {0} /\ now \in Nat /\ refused.times \in Nat
  BY DEF ClientTyped
<1>2. /\ Backoff(retry, strikes + 1) \in Nat
      /\ (IF retry = None THEN 0 ELSE Smaller(retry, Cap)) \in Nat
      /\ (IF retry = None THEN 0 ELSE Smaller(retry, Cap)) <= Backoff(retry, strikes + 1)
  BY <1>1, BackoffIsEnough
<1>3. /\ strikes' = strikes + 1
      /\ throttledUntil' = now + Backoff(retry, strikes + 1)
      /\ refused' = [times |-> refused.times + 1, wait |-> Backoff(retry, strikes + 1)]
      /\ told' = now + (IF retry = None THEN 0 ELSE Smaller(retry, Cap))
  BY DEF Limit
<1>4. QED
  BY <1>1, <1>2, <1>3, SMTT(30)

\* Letting go of the client leaves tasks that are to tell.
LEMMA LetsGoCounts ==
  ASSUME telling \in [Messages -> Nat], NEW messages, LetsGo(messages)
  PROVE  telling' \in [Messages -> Nat] /\ caller' = None
BY DEF LetsGo

\* Asking adds tasks that wait for the client.
LEMMA AskCounts ==
  ASSUME waiting \in [Kinds -> Nat], NEW kinds, Ask(kinds)
  PROVE  waiting' \in [Kinds -> Nat]
BY DEF Ask

LEMMA RestoredCounts ==
  ASSUME waiting \in [Kinds -> Nat], Restored
  PROVE  waiting' \in [Kinds -> Nat]
BY AskCounts DEF Restored

\* A task that succeeds lets go of the client, or still has to tell.
LEMMA SucceedDoes ==
  ASSUME Succeed
  PROVE  /\ caller # None /\ caller.kind \in Kinds /\ UNCHANGED <<waiting, events>>
         /\ \/ caller' = None
            \/ caller' = [kind |-> caller.kind, phase |-> "telling"] /\ telling' = telling
         /\ (\E messages : LetsGo(messages)) \/ telling' = telling
<1>1. Done(caller.kind) /\ caller # None /\ caller.kind \in Kinds /\ UNCHANGED <<waiting, events>>
  BY DEF Succeed, Calling, AnswerFrame
<1>2. \/ \E messages : LetsGo(messages)
      \/ Holding(caller.kind, "telling") /\ telling' = telling
  BY <1>1 DEF Done, Kinds
<1>3. (\E messages : LetsGo(messages)) => caller' = None
  BY DEF LetsGo
<1>4. QED
  BY <1>1, <1>2, <1>3 DEF Holding

LEMMA HeadIsOne == ASSUME NEW S, NEW q \in Seq(S), q # <<>> PROVE Head(q) \in S
OBVIOUS

LEMMA InitIInv == Init => IInv
<1> SUFFICES ASSUME Init PROVE IInv
  OBVIOUS
<1> USE DEF Init
<1>1. AccountTyped
  <2>1. keyring \in Tokens \cup {None} /\ turn \in [Logins -> -1..MaxTurns]
    BY Numbers DEF Tokens, Logins
  <2>2. QED
    BY <2>1 DEF AccountTyped
<1>2. ClientTyped
  BY Numbers DEF ClientTyped
<1>3. QueuesTyped
  BY Numbers DEF QueuesTyped
<1>4. FlagsTyped
  <2>1. followed \in Slices /\ asked \in 0..MaxAsked /\ faults \in 0..MaxFaults
    BY Numbers
  <2>2. QED
    BY <2>1 DEF FlagsTyped
<1>5. CallFits /\ LimitKept /\ GrantFits /\ CallTimed
  BY DEF CallFits, LimitKept, GrantFits, CallTimed, Calling, Exchanging
<1>6. RotationsAreKept
  BY Numbers DEF RotationsAreKept, Accepted, Logins
<1>7. QED
  BY <1>1, <1>2, <1>3, <1>4, <1>5, <1>6 DEF IInv, TypeOK

LEMMA AccountStep == AccountTyped /\ ClientTyped /\ CallFits /\ [Next]_vars => AccountTyped'
<1> SUFFICES ASSUME AccountTyped, ClientTyped, CallFits, [Next]_vars PROVE AccountTyped'
  OBVIOUS
<1> USE DEF AccountTyped, ClientTyped, CallFits, Callers, Plans, client, service,
   call, tasks, shown, loop, history
<1>1. CASE Acquire
  BY <1>1 DEF Acquire, Throttled, IsFresh, Holding, Calls, LetsGo, Fails, Tells
<1>2. CASE Renew
  <2>1. PICK token \in Tokens :
           /\ turn' = [turn EXCEPT ![token.login] = token.turn]
           /\ granted' = [refresh |-> token, expires |-> now + Lifetime]
    BY <1>2, RenewDoes
  <2>2. token.turn \in -1..MaxTurns
    BY DEF Tokens
  <2>3. granted' \in Grants
    BY <2>1, Numbers DEF Grants
  <2>4. QED
    BY <1>2, <2>1, <2>2, <2>3 DEF Renew
<1>3. CASE Refresh
  <2>1. /\ granted' = None /\ granted.refresh \in Tokens /\ SaveRenewed(granted.refresh)
        /\ UNCHANGED <<turn, plan, lacking, cli, loop>>
    BY <1>3, RefreshDoes DEF Grants
  <2>2. keyring' \in {keyring, granted.refresh}
    BY <2>1 DEF SaveRenewed
  <2>3. QED
    BY <2>1, <2>2
<1>4. CASE RefreshFails
  BY <1>4 DEF RefreshFails, ExchangeFails
<1>5. CASE TellAndLetGo
  BY <1>5 DEF TellAndLetGo, HasRoom, EventOf, LetsGo
<1>6. CASE Tell
  BY <1>6 DEF Tell, HasRoom, EventOf
<1>7. CASE Succeed
  BY <1>7 DEF Succeed, Done, AnswerFrame, LetsGo, Holding
<1>8. CASE Refuse
  BY <1>8 DEF Refuse, AnswerFrame, Fails, LetsGo, Tells
<1>9. CASE CallFails
  BY <1>9 DEF CallFails, AnswerFrame, Fails, LetsGo, Tells
<1>10. CASE TooMany
  BY <1>10, BackoffIsEnough DEF TooMany, Limit, Fails, LetsGo, Tells
<1>11. CASE LoadKeyring
  BY <1>11 DEF LoadKeyring, Restored, Ask
<1>12. CASE TakeClient
  BY <1>12 DEF TakeClient, Holding
<1>13. CASE Restore
  <2>1. loaded' \in {loaded, None}
    BY <1>13, RestoreDoes
  <2>2. QED
    BY <1>13, <2>1, RestoreDoes
<1>14. CASE RestoreFails
  BY <1>14 DEF RestoreFails, ExchangeFails, Restored
<1>15. CASE CheckPremium
  BY <1>15 DEF CheckPremium, Restored, Ask
<1>16. CASE CheckLimited
  BY <1>16, BackoffIsEnough DEF CheckLimited, Limit, Restored, Ask
<1>17. CASE Reload
  BY <1>17 DEF Reload
<1>18. CASE Start
  BY <1>18 DEF Start, Ask
<1>19. CASE Handle
  BY <1>19 DEF Handle
<1>20. CASE Login
  <2>1. PICK l \in Logins :
           turn' = [turn EXCEPT ![l] = 0] /\ keyring' = [login |-> l, turn |-> 0]
    BY <1>20 DEF Login
  <2>2. keyring' \in Tokens /\ 0 \in -1..MaxTurns
    BY <2>1, Numbers DEF Tokens
  <2>3. QED
    BY <1>20, <2>1, <2>2 DEF Login
<1>21. CASE Logout
  BY <1>21 DEF Logout
<1>22. CASE Tick
  BY <1>22 DEF Tick
<1>23. CASE Restart
  BY <1>23 DEF Restart
<1>24. CASE UNCHANGED vars
  BY <1>24 DEF vars
<1>25. QED
  BY <1>1, <1>2, <1>3, <1>4, <1>5, <1>6, <1>7, <1>8, <1>9, <1>10, <1>11, <1>12, <1>13, <1>14,
     <1>15, <1>16, <1>17, <1>18, <1>19, <1>20, <1>21, <1>22, <1>23, <1>24 DEF Next,
     Requests, Spotify, Restoring, Engine, User

LEMMA ClientStep == AccountTyped /\ ClientTyped /\ CallFits /\ [Next]_vars => ClientTyped'
<1> SUFFICES ASSUME AccountTyped, ClientTyped, CallFits, [Next]_vars PROVE ClientTyped'
  OBVIOUS
<1> USE Numbers DEF AccountTyped, ClientTyped, CallFits, Calling, Callers, client,
   service, call, tasks, shown, loop, history
<1>1. CASE Acquire
  BY <1>1, AcquireDoes
<1>2. CASE Renew
  BY <1>2 DEF Renew
<1>3. CASE Refresh
  BY <1>3, RefreshDoes DEF Refresh
<1>4. CASE RefreshFails
  BY <1>4 DEF RefreshFails, LetsGo, Fails
<1>5. CASE TellAndLetGo
  BY <1>5 DEF TellAndLetGo, HasRoom, EventOf, LetsGo
<1>6. CASE Tell
  BY <1>6 DEF Tell, HasRoom, EventOf
<1>7. CASE Succeed
  BY <1>7 DEF Succeed, Done, AnswerFrame, LetsGo, Holding
<1>8. CASE Refuse
  BY <1>8 DEF Refuse, AnswerFrame, Fails, LetsGo, Tells
<1>9. CASE CallFails
  BY <1>9 DEF CallFails, AnswerFrame, Fails, LetsGo, Tells
<1>10. CASE TooMany
  <2>1. PICK retry \in RetryAfters : Limit(retry)
    BY <1>10 DEF TooMany
  <2>2. QED
    BY <1>10, <2>1, LimitDoes DEF TooMany, Fails, LetsGo
<1>11. CASE LoadKeyring
  BY <1>11 DEF LoadKeyring, Restored, Ask
<1>12. CASE TakeClient
  BY <1>12 DEF TakeClient, Sends, Holding
<1>13. CASE Restore
  BY <1>13, RestoreDoes
<1>14. CASE RestoreFails
  BY <1>14 DEF RestoreFails
<1>15. CASE CheckPremium
  BY <1>15 DEF CheckPremium, Restored, Ask
<1>16. CASE CheckLimited
  <2>1. PICK retry \in RetryAfters : Limit(retry)
    BY <1>16 DEF CheckLimited
  <2>2. QED
    BY <1>16, <2>1, LimitDoes DEF CheckLimited, Restored
<1>17. CASE Reload
  BY <1>17 DEF Reload
<1>18. CASE Start
  BY <1>18 DEF Start, Ask
<1>19. CASE Handle
  BY <1>19 DEF Handle
<1>20. CASE Login
  BY <1>20 DEF Login
<1>21. CASE Logout
  BY <1>21 DEF Logout
<1>22. CASE Tick
  BY <1>22 DEF Tick
<1>23. CASE Restart
  BY <1>23 DEF Restart
<1>24. CASE UNCHANGED vars
  BY <1>24 DEF vars
<1>25. QED
  BY <1>1, <1>2, <1>3, <1>4, <1>5, <1>6, <1>7, <1>8, <1>9, <1>10, <1>11, <1>12, <1>13, <1>14,
     <1>15, <1>16, <1>17, <1>18, <1>19, <1>20, <1>21, <1>22, <1>23, <1>24 DEF Next,
     Requests, Spotify, Restoring, Engine, User

LEMMA QueuesStep == QueuesTyped /\ CallFits /\ [Next]_vars => QueuesTyped'
<1> SUFFICES ASSUME QueuesTyped, CallFits, [Next]_vars PROVE QueuesTyped'
  OBVIOUS
<1> USE Numbers DEF QueuesTyped, CallFits, Events, client, service, call, tasks,
   shown, loop, history
<1>1. CASE Acquire
  <2>1. PICK k \in Kinds : /\ waiting[k] > 0 /\ waiting' = [waiting EXCEPT ![k] = @ - 1]
                           /\ Fails(k) \/ telling' = telling
    BY <1>1 DEF Acquire
  <2>2. telling' \in [Messages -> Nat]
    BY <2>1, LetsGoCounts DEF Fails
  <2>3. QED
    BY <1>1, <2>1, <2>2 DEF Acquire
<1>2. CASE Renew
  BY <1>2 DEF Renew
<1>3. CASE Refresh
  BY <1>3 DEF Refresh
<1>4. CASE RefreshFails
  BY <1>4, LetsGoCounts DEF RefreshFails, Fails
<1>5. CASE TellAndLetGo
  BY <1>5 DEF TellAndLetGo, HasRoom, LetsGo
<1>6. CASE Tell
  BY <1>6 DEF Tell, HasRoom
<1>7. CASE Succeed
  BY <1>7, SucceedDoes, LetsGoCounts
<1>8. CASE Refuse
  BY <1>8, LetsGoCounts DEF Refuse, AnswerFrame, Fails
<1>9. CASE CallFails
  BY <1>9, LetsGoCounts DEF CallFails, AnswerFrame, Fails
<1>10. CASE TooMany
  BY <1>10, LetsGoCounts DEF TooMany, Fails
<1>11. CASE LoadKeyring
  BY <1>11, RestoredCounts DEF LoadKeyring
<1>12. CASE TakeClient
  BY <1>12 DEF TakeClient
<1>13. CASE Restore
  BY <1>13, RestoredCounts DEF Restore
<1>14. CASE RestoreFails
  BY <1>14, RestoredCounts DEF RestoreFails
<1>15. CASE CheckPremium
  BY <1>15, RestoredCounts DEF CheckPremium
<1>16. CASE CheckLimited
  BY <1>16, RestoredCounts DEF CheckLimited
<1>17. CASE Reload
  BY <1>17 DEF Reload
<1>18. CASE Start
  BY <1>18 DEF Start, Ask
<1>19. CASE Handle
  BY <1>19 DEF Handle
<1>20. CASE Login
  BY <1>20 DEF Login
<1>21. CASE Logout
  BY <1>21 DEF Logout
<1>22. CASE Tick
  BY <1>22 DEF Tick
<1>23. CASE Restart
  BY <1>23 DEF Restart
<1>24. CASE UNCHANGED vars
  BY <1>24 DEF vars
<1>25. QED
  BY <1>1, <1>2, <1>3, <1>4, <1>5, <1>6, <1>7, <1>8, <1>9, <1>10, <1>11, <1>12, <1>13, <1>14,
     <1>15, <1>16, <1>17, <1>18, <1>19, <1>20, <1>21, <1>22, <1>23, <1>24 DEF Next,
     Requests, Spotify, Restoring, Engine, User

LEMMA FlagsStep == AccountTyped /\ ClientTyped /\ FlagsTyped /\ CallFits /\ [Next]_vars => FlagsTyped'
<1> SUFFICES ASSUME AccountTyped, ClientTyped, FlagsTyped, CallFits, [Next]_vars PROVE FlagsTyped'
  OBVIOUS
<1> USE Numbers DEF AccountTyped, FlagsTyped, CallFits, Events, Plans, client,
   service, call, tasks, shown, loop, history
<1>1. CASE Acquire
  BY <1>1 DEF Acquire, Throttled, IsFresh, Holding, Calls, LetsGo, Fails, Tells
<1>2. CASE Renew
  <2>1. crossed' \in BOOLEAN
    BY <1>2 DEF Renew
  <2>2. QED
    BY <1>2, <2>1 DEF Renew
<1>3. CASE Refresh
  <2>1. granted.refresh \in Tokens /\ SaveRenewed(granted.refresh)
    BY <1>3, RefreshDoes DEF Grants
  <2>2. /\ missed' \subseteq {"keyring", "client"} /\ faults' \in 0..MaxFaults
        /\ crossed' \in BOOLEAN
    BY <2>1, SaveDoes
  <2>3. QED
    BY <1>3, <2>2 DEF Refresh
<1>4. CASE RefreshFails
  <2>1. missed' \subseteq {"keyring", "client"} /\ faults' \in 0..MaxFaults
    BY <1>4, ExchangeFailsDoes DEF RefreshFails
  <2>2. QED
    BY <1>4, <2>1 DEF RefreshFails
<1>5. CASE TellAndLetGo
  BY <1>5 DEF TellAndLetGo
<1>6. CASE Tell
  BY <1>6 DEF Tell
<1>7. CASE Succeed
  BY <1>7 DEF Succeed, Done, AnswerFrame, LetsGo, Holding
<1>8. CASE Refuse
  BY <1>8 DEF Refuse, AnswerFrame, Fails, LetsGo, Tells
<1>9. CASE CallFails
  BY <1>9 DEF CallFails, AnswerFrame, Fails, LetsGo, Tells
<1>10. CASE TooMany
  BY <1>10, BackoffIsEnough DEF TooMany, Limit, Fails, LetsGo, Tells
<1>11. CASE LoadKeyring
  <2>1. /\ engine' \in {"free", "waiting"} /\ reload' \in BOOLEAN
        /\ needsLogin' \in BOOLEAN /\ libraryAvailable' \in BOOLEAN
        /\ UNCHANGED <<followed, scopeMissing, libraryForbidden, authorized, missed,
                        premium, shownPremium, asked>>
    BY <1>11 DEF LoadKeyring, Restored
  <2>2. crossed' \in BOOLEAN
    BY <1>11 DEF LoadKeyring, Restored
  <2>3. faults' \in 0..MaxFaults
    BY <1>11, Numbers DEF LoadKeyring
  <2>4. QED
    BY <2>1, <2>2, <2>3
<1>12. CASE TakeClient
  BY <1>12 DEF TakeClient
<1>13. CASE Restore
  <2>1. missed' \subseteq {"keyring", "client"} /\ UNCHANGED <<followed, asked, faults>>
    BY <1>13 DEF Restore
  <2>2. /\ ~scopeMissing' /\ ~libraryForbidden' /\ premium' = "unknown" /\ authorized'
        /\ shownPremium' \in {shownPremium, "unknown"}
    BY <1>13 DEF Restore, Forget
  <2>3. scopeMissing' = FALSE /\ libraryForbidden' = FALSE /\ authorized' = TRUE
    BY <1>13 DEF Restore, Forget
  <2>4. CASE Restored
    <3>1. crossed' \in BOOLEAN
      BY <2>4 DEF Restored
    <3>2. /\ engine' = "free" /\ reload' = FALSE
          /\ needsLogin' \in {needsLogin, FALSE} /\ libraryAvailable' \in {libraryAvailable, TRUE}
      BY <2>4 DEF Restored
    <3>3. QED
      BY <2>1, <2>2, <2>3, <3>1, <3>2
  <2>5. CASE UNCHANGED <<loop, needsLogin, libraryAvailable, crossed>>
    BY <2>1, <2>2, <2>3, <2>5
  <2>6. QED
    BY <1>13, <2>4, <2>5 DEF Restore
<1>14. CASE RestoreFails
  <2>1. crossed' \in BOOLEAN
    BY <1>14 DEF RestoreFails, Restored
  <2>2. /\ engine' = "free" /\ reload' = FALSE
        /\ needsLogin' \in {needsLogin, FALSE} /\ libraryAvailable' \in {libraryAvailable, TRUE}
    BY <1>14 DEF RestoreFails, Restored
  <2>3. faults' \in 0..MaxFaults /\ missed' \subseteq {"keyring", "client"}
    BY <1>14, ExchangeFailsDoes DEF RestoreFails
  <2>4. QED
    BY <1>14, <2>1, <2>2, <2>3 DEF RestoreFails
<1>15. CASE CheckPremium
  BY <1>15 DEF CheckPremium, Restored, Ask
<1>16. CASE CheckLimited
  BY <1>16, BackoffIsEnough DEF CheckLimited, Limit, Restored, Ask
<1>17. CASE Reload
  BY <1>17 DEF Reload
<1>18. CASE Start
  BY <1>18 DEF Start, Ask
<1>19. CASE Handle
  <2>1. Head(events) \in Events
    BY <1>19, HeadIsOne DEF Handle
  <2>2. /\ needsLogin' = (needsLogin \/ Head(events).kind = "needsLogin")
        /\ libraryAvailable' = (libraryAvailable /\ Head(events).kind # "unavailable")
    BY <1>19 DEF Handle
  <2>3. needsLogin' \in BOOLEAN /\ libraryAvailable' \in BOOLEAN
    BY <2>2
  <2>4. shownPremium' \in Plans \cup {"unknown"}
    BY <1>19, <2>1 DEF Handle, Unsaid
  <2>5. QED
    BY <1>19, <2>3, <2>4 DEF Handle
<1>20. CASE Login
  BY <1>20 DEF Login
<1>21. CASE Logout
  BY <1>21 DEF Logout
<1>22. CASE Tick
  BY <1>22 DEF Tick
<1>23. CASE Restart
  <2>1. faults' \in 0..MaxFaults /\ missed' \subseteq {"keyring", "client"}
    BY <1>23 DEF Restart
  <2>2. QED
    BY <1>23, <2>1 DEF Restart
<1>24. CASE UNCHANGED vars
  BY <1>24 DEF vars
<1>25. QED
  BY <1>1, <1>2, <1>3, <1>4, <1>5, <1>6, <1>7, <1>8, <1>9, <1>10, <1>11, <1>12, <1>13, <1>14,
     <1>15, <1>16, <1>17, <1>18, <1>19, <1>20, <1>21, <1>22, <1>23, <1>24 DEF Next,
     Requests, Spotify, Restoring, Engine, User

LEMMA CallStep == AccountTyped /\ ClientTyped /\ FlagsTyped /\ CallFits /\ [Next]_vars => CallFits'
<1> SUFFICES ASSUME AccountTyped, ClientTyped, FlagsTyped, CallFits,
   [Next]_vars PROVE CallFits'
  OBVIOUS
<1> USE DEF AccountTyped, ClientTyped, FlagsTyped, CallFits, Calling, Callers, Events,
   Plans, client, service, call, tasks, shown, loop, history
<1>1. CASE Acquire
  BY <1>1, AcquireDoes, NoneIsNothing DEF Kinds
<1>2. CASE Renew
  BY <1>2 DEF Renew
<1>3. CASE Refresh
  BY <1>3, RefreshDoes DEF Kinds
<1>4. CASE RefreshFails
  BY <1>4 DEF RefreshFails, LetsGo, Fails
<1>5. CASE TellAndLetGo
  <2>1. events' \in Seq(Events)
    BY <1>5 DEF TellAndLetGo, EventOf, DevicesEvent, Unsaid
  <2>2. QED
    BY <1>5, <2>1 DEF TellAndLetGo, LetsGo
<1>6. CASE Tell
  <2>1. PICK m \in Messages : events' = Append(events, m)
    BY <1>6 DEF Tell
  <2>2. m \in Events
    BY DEF Messages, EventOf, DevicesEvent, Unsaid, Refusals
  <2>3. QED
    BY <1>6, <2>1, <2>2 DEF Tell
<1>7. CASE Succeed
  <2>1. UNCHANGED <<events, engine, loaded, tokens>>
    BY <1>7 DEF Succeed, AnswerFrame
  <2>2. QED
    BY <1>7, <2>1, SucceedDoes DEF Kinds
<1>8. CASE Refuse
  BY <1>8 DEF Refuse, AnswerFrame, Fails, LetsGo, Tells
<1>9. CASE CallFails
  BY <1>9 DEF CallFails, AnswerFrame, Fails, LetsGo, Tells
<1>10. CASE TooMany
  BY <1>10, BackoffIsEnough DEF TooMany, Limit, Fails, LetsGo, Tells
<1>11. CASE LoadKeyring
  BY <1>11 DEF LoadKeyring, Restored, Ask
<1>12. CASE TakeClient
  BY <1>12 DEF TakeClient, Sends, Holding
<1>13. CASE Restore
  <2>1. events' = events /\ loaded # None
    BY <1>13, RestoreDoes, NoneIsNothing DEF Restore
  <2>2. QED
    BY <1>13, <2>1, RestoreDoes
<1>14. CASE RestoreFails
  BY <1>14 DEF RestoreFails, Restored
<1>15. CASE CheckPremium
  BY <1>15 DEF CheckPremium, Restored, Ask
<1>16. CASE CheckLimited
  BY <1>16, BackoffIsEnough DEF CheckLimited, Limit, Restored, Ask
<1>17. CASE Reload
  BY <1>17 DEF Reload
<1>18. CASE Start
  BY <1>18 DEF Start, Ask
<1>19. CASE Handle
  BY <1>19 DEF Handle
<1>20. CASE Login
  BY <1>20 DEF Login
<1>21. CASE Logout
  BY <1>21 DEF Logout
<1>22. CASE Tick
  BY <1>22 DEF Tick
<1>23. CASE Restart
  BY <1>23 DEF Restart
<1>24. CASE UNCHANGED vars
  BY <1>24 DEF vars
<1>25. QED
  BY <1>1, <1>2, <1>3, <1>4, <1>5, <1>6, <1>7, <1>8, <1>9, <1>10, <1>11, <1>12, <1>13, <1>14,
     <1>15, <1>16, <1>17, <1>18, <1>19, <1>20, <1>21, <1>22, <1>23, <1>24 DEF Next,
     Requests, Spotify, Restoring, Engine, User

LEMMA LimitStep == AccountTyped /\ ClientTyped /\ CallFits /\ LimitKept /\ [Next]_vars => LimitKept'
<1> SUFFICES ASSUME AccountTyped, ClientTyped, CallFits, LimitKept,
   [Next]_vars PROVE LimitKept'
  OBVIOUS
<1> USE DEF ClientTyped, CallFits, LimitKept, Calling, Callers, client, service, call,
   tasks, shown, loop, history
<1>1. CASE Acquire
  BY <1>1, AcquireDoes, NoneIsNothing DEF Throttled, Kinds
<1>2. CASE Renew
  BY <1>2 DEF Renew
<1>3. CASE Refresh
  <2>1. told <= now /\ UNCHANGED <<now, told, throttledUntil>>
    BY <1>3, RefreshDoes DEF Refresh, Exchanging
  <2>2. sentAt' = now /\ caller'.phase = "calling"
    BY <1>3, RefreshDoes
  <2>3. QED
    BY <2>1, <2>2
<1>4. CASE RefreshFails
  BY <1>4 DEF RefreshFails, LetsGo, Fails
<1>5. CASE TellAndLetGo
  BY <1>5 DEF TellAndLetGo, HasRoom, EventOf, LetsGo
<1>6. CASE Tell
  BY <1>6 DEF Tell, HasRoom, EventOf
<1>7. CASE Succeed
  BY <1>7 DEF Succeed, Done, AnswerFrame, LetsGo, Holding
<1>8. CASE Refuse
  BY <1>8 DEF Refuse, AnswerFrame, Fails, LetsGo, Tells
<1>9. CASE CallFails
  BY <1>9 DEF CallFails, AnswerFrame, Fails, LetsGo, Tells
<1>10. CASE TooMany
  <2>1. PICK retry \in RetryAfters : Limit(retry)
    BY <1>10 DEF TooMany
  <2>2. QED
    BY <1>10, <2>1, LimitDoes DEF TooMany, Fails, LetsGo
<1>11. CASE LoadKeyring
  BY <1>11 DEF LoadKeyring, Restored, Ask
<1>12. CASE TakeClient
  BY <1>12 DEF TakeClient, Sends, Holding
<1>13. CASE Restore
  BY <1>13, RestoreDoes DEF Throttled
<1>14. CASE RestoreFails
  BY <1>14 DEF RestoreFails
<1>15. CASE CheckPremium
  BY <1>15 DEF CheckPremium, Restored, Ask
<1>16. CASE CheckLimited
  <2>1. PICK retry \in RetryAfters : Limit(retry)
    BY <1>16 DEF CheckLimited
  <2>2. QED
    BY <1>16, <2>1, LimitDoes DEF CheckLimited, Restored
<1>17. CASE Reload
  BY <1>17 DEF Reload
<1>18. CASE Start
  BY <1>18 DEF Start, Ask
<1>19. CASE Handle
  BY <1>19 DEF Handle
<1>20. CASE Login
  BY <1>20 DEF Login
<1>21. CASE Logout
  BY <1>21 DEF Logout
<1>22. CASE Tick
  BY <1>22 DEF Tick
<1>23. CASE Restart
  BY <1>23 DEF Restart
<1>24. CASE UNCHANGED vars
  BY <1>24 DEF vars
<1>25. QED
  BY <1>1, <1>2, <1>3, <1>4, <1>5, <1>6, <1>7, <1>8, <1>9, <1>10, <1>11, <1>12, <1>13, <1>14,
     <1>15, <1>16, <1>17, <1>18, <1>19, <1>20, <1>21, <1>22, <1>23, <1>24 DEF Next,
     Requests, Spotify, Restoring, Engine, User

\* An answer that is adopted is recent enough for the call that follows.
LEMMA AdoptedInTime ==
  ASSUME ClientTyped, CallTimed, Exchanging, granted # None, granted \in Grants,
         tokens' = [refresh |-> granted.refresh, until |-> now + Lifetime,
                    expires |-> granted.expires],
         now' = now
  PROVE  tokens'.until <= tokens'.expires + Exchange /\ now' + Timeout < tokens'.expires
<1>1. sentAt <= now /\ now <= sentAt + Exchange /\ sentAt + Lifetime <= granted.expires
  BY DEF CallTimed
<1>2. sentAt \in Nat /\ now \in Nat /\ granted.expires \in Nat
  BY Numbers DEF ClientTyped, Grants
<1>3. now + Lifetime <= granted.expires + Exchange /\ now + Timeout < granted.expires
  BY <1>1, <1>2, Numbers
<1>4. QED
  BY <1>3

LEMMA TimeStep ==
  AccountTyped /\ ClientTyped /\ CallFits /\ GrantFits /\ CallTimed /\ [Next]_vars => CallTimed'
<1> SUFFICES ASSUME AccountTyped, ClientTyped, CallFits, GrantFits, CallTimed,
   [Next]_vars PROVE CallTimed'
  OBVIOUS
<1>0. ASSUME UNCHANGED <<now, tokens, granted, sentAt>>, Exchanging' => Exchanging,
             Calling' => Calling
      PROVE  CallTimed'
  BY <1>0 DEF CallTimed
<1>1. CASE Acquire
  <2>1. UNCHANGED <<now, tokens>> /\ granted' = None /\ now \in Nat
    BY <1>1, AcquireDoes, Numbers DEF GrantFits, Exchanging, ClientTyped
  <2>2. CASE caller' = None
    BY <2>1, <2>2 DEF CallTimed, Exchanging, Calling
  <2>3. ASSUME NEW k \in Kinds, caller' = [kind |-> k, phase |-> "calling"],
               sentAt' = now, tokens # None, IsFresh(tokens)
        PROVE  CallTimed'
    <3>1. tokens.until \in Nat /\ tokens.expires \in Nat
          /\ tokens.until <= tokens.expires + Exchange /\ now + Margin < tokens.until
      BY <2>3 DEF ClientTyped, Adoptions, CallTimed, IsFresh
    <3>2. now <= now + Timeout /\ now + Timeout < tokens.expires
      BY <2>1, <3>1, Numbers
    <3>3. QED
      BY <2>1, <2>3, <3>1, <3>2 DEF CallTimed, Exchanging, Calling
  <2>4. ASSUME NEW k \in Kinds, caller' = [kind |-> k, phase |-> "refreshing"],
               sentAt' = now
        PROVE  CallTimed'
    <3>1. now <= now + Exchange
      BY <2>1, Numbers
    <3>2. QED
      BY <2>1, <2>4, <3>1 DEF CallTimed, Exchanging, Calling
  <2>5. QED
    BY <1>1, <2>2, <2>3, <2>4, AcquireDoes
<1>2. CASE Renew
  <2>1. /\ Exchanging /\ granted'.expires = now + Lifetime
        /\ UNCHANGED <<now, tokens, caller, sentAt>>
    BY <1>2 DEF Renew, client, call
  <2>2. sentAt <= now /\ now \in Nat /\ sentAt \in Nat
    BY <2>1, Numbers DEF CallTimed, ClientTyped
  <2>3. sentAt + Lifetime <= now + Lifetime
    BY <2>2, Numbers
  <2>4. QED
    BY <2>1, <2>3 DEF CallTimed, Exchanging, Calling
<1>3. CASE Refresh
  <2>1. /\ Exchanging /\ granted # None /\ granted \in Grants /\ granted' = None
        /\ tokens' = [refresh |-> granted.refresh, until |-> now + Lifetime,
                      expires |-> granted.expires]
        /\ caller' = [kind |-> caller.kind, phase |-> "calling"]
        /\ sentAt' = now /\ now' = now
    BY <1>3, RefreshDoes
  <2>2. tokens'.until <= tokens'.expires + Exchange /\ now' + Timeout < tokens'.expires
    BY <2>1, AdoptedInTime
  <2>3. now \in Nat /\ now <= now + Timeout
    BY Numbers DEF ClientTyped
  <2>4. QED
    BY <2>1, <2>2, <2>3 DEF CallTimed, Exchanging, Calling
<1>4. CASE RefreshFails
  <2>1. granted' = None /\ UNCHANGED <<now, tokens>> /\ caller' = None
    BY <1>4 DEF RefreshFails, ExchangeFails, Fails, LetsGo, client
  <2>2. QED
    BY <2>1 DEF CallTimed, Exchanging, Calling
<1>5. CASE TellAndLetGo
  BY <1>0, <1>5 DEF TellAndLetGo, LetsGo, Exchanging, Calling, client, service
<1>6. CASE Tell
  BY <1>0, <1>6 DEF Tell, Exchanging, Calling, client, service, call
<1>7. CASE Succeed
  <2>1. UNCHANGED <<now, tokens, granted, sentAt>> /\ ~Exchanging' /\ ~Calling'
    BY <1>7, SucceedDoes, NoneIsNothing DEF Succeed, AnswerFrame, service, Exchanging,
       Calling
  <2>2. QED
    BY <1>0, <2>1
<1>8. CASE Refuse
  BY <1>0, <1>8 DEF Refuse, AnswerFrame, Fails, LetsGo, Exchanging, Calling, service
<1>9. CASE CallFails
  BY <1>0, <1>9 DEF CallFails, AnswerFrame, Fails, LetsGo, Exchanging, Calling, service
<1>10. CASE TooMany
  BY <1>0, <1>10 DEF TooMany, Fails, LetsGo, Exchanging, Calling, service
<1>11. CASE LoadKeyring
  BY <1>0, <1>11 DEF LoadKeyring, Exchanging, Calling, client, service, call
<1>12. CASE TakeClient
  <2>1. /\ granted' = None /\ UNCHANGED <<now, tokens>> /\ sentAt' = now
        /\ caller' = [kind |-> "engine", phase |-> "refreshing"]
    BY <1>12 DEF TakeClient, Sends, Holding, GrantFits, Exchanging, client, service
  <2>2. now \in Nat /\ now <= now + Exchange
    BY Numbers DEF ClientTyped
  <2>3. QED
    BY <2>1, <2>2 DEF CallTimed, Exchanging, Calling
<1>13. CASE Restore
  <2>1. /\ Exchanging /\ granted # None /\ granted \in Grants /\ granted' = None
        /\ tokens' = [refresh |-> granted.refresh, until |-> now + Lifetime,
                      expires |-> granted.expires]
        /\ now' = now
    BY <1>13, RestoreDoes
  <2>2. tokens'.until <= tokens'.expires + Exchange /\ now' + Timeout < tokens'.expires
    BY <2>1, AdoptedInTime
  <2>3. now \in Nat /\ now <= now + Timeout
    BY Numbers DEF ClientTyped
  <2>4. CASE caller' = None
    BY <2>1, <2>2, <2>4 DEF CallTimed, Exchanging, Calling
  <2>5. CASE caller' = [kind |-> "engine", phase |-> "calling"] /\ sentAt' = now
    BY <2>1, <2>2, <2>3, <2>5 DEF CallTimed, Exchanging, Calling
  <2>6. QED
    BY <1>13, <2>4, <2>5, RestoreDoes
<1>14. CASE RestoreFails
  <2>1. granted' = None /\ UNCHANGED <<now, tokens>> /\ caller' = None
    BY <1>14 DEF RestoreFails, ExchangeFails, client
  <2>2. QED
    BY <2>1 DEF CallTimed, Exchanging, Calling
<1>15. CASE CheckPremium
  BY <1>0, <1>15 DEF CheckPremium, Exchanging, Calling, service
<1>16. CASE CheckLimited
  BY <1>0, <1>16 DEF CheckLimited, Exchanging, Calling, service
<1>17. CASE Reload
  BY <1>0, <1>17 DEF Reload, Exchanging, Calling, client, service, call
<1>18. CASE Start
  BY <1>0, <1>18 DEF Start, Exchanging, Calling, client, service, call
<1>19. CASE Handle
  BY <1>0, <1>19 DEF Handle, Exchanging, Calling, client, service, call
<1>20. CASE Login
  BY <1>0, <1>20 DEF Login, Exchanging, Calling, client, call
<1>21. CASE Logout
  BY <1>0, <1>21 DEF Logout, Exchanging, Calling, client, service, call
<1>22. CASE Tick
  BY <1>22, Numbers DEF Tick, CallTimed, ClientTyped, Exchanging, Calling, client, service,
     call
<1>23. CASE Restart
  BY <1>23 DEF Restart, CallTimed, Exchanging, Calling
<1>24. CASE UNCHANGED vars
  BY <1>0, <1>24 DEF vars, Exchanging, Calling, client, service, call
<1>25. QED
  BY <1>1, <1>2, <1>3, <1>4, <1>5, <1>6, <1>7, <1>8, <1>9, <1>10, <1>11, <1>12, <1>13, <1>14, <1>15, <1>16, <1>17, <1>18, <1>19, <1>20, <1>21, <1>22, <1>23, <1>24 DEF Next,
     Requests, Spotify, Restoring, Engine, User

\* What is granted stays so while whoever exchanged the token has the client.
LEMMA GrantStep ==
  AccountTyped /\ ClientTyped /\ FlagsTyped /\ CallFits /\ GrantFits /\ [Next]_vars
    => GrantFits'
<1> SUFFICES ASSUME AccountTyped, ClientTyped, FlagsTyped, CallFits, GrantFits,
   [Next]_vars PROVE GrantFits'
  OBVIOUS
<1>0. ASSUME UNCHANGED <<granted, caller, turn, tokens, loaded>>, crossed => crossed'
      PROVE  GrantFits'
  BY <1>0 DEF GrantFits, Exchanging, Traded, Accepted
<1>a. ~Exchanging => granted = None
  BY DEF GrantFits
<1>b. granted' = None => GrantFits'
  BY DEF GrantFits
<1>1. CASE Acquire
  BY <1>1, <1>a, <1>b, AcquireDoes DEF Exchanging
<1>2. CASE Renew
  <2>1. PICK token \in Tokens :
           /\ token.login = Traded.login
           /\ token = Traded \/ token.turn = Traded.turn + 1
           /\ turn' = [turn EXCEPT ![token.login] = token.turn]
           /\ granted' = [refresh |-> token, expires |-> now + Lifetime]
           /\ crossed' = (crossed \/ (caller.kind = "engine" /\ token # loaded))
    BY <1>2, RenewDoes
  <2>2. UNCHANGED <<caller, tokens, loaded>> /\ Exchanging
    BY <1>2 DEF Renew, client, call, loop
  <2>3. Traded' = Traded /\ Exchanging'
    BY <2>2 DEF Traded, Exchanging
  <2>4. turn'[token.login] = token.turn
    BY <2>1 DEF AccountTyped, Tokens
  <2>5. QED
    BY <2>1, <2>2, <2>3, <2>4 DEF GrantFits, Accepted
<1>3. CASE Refresh
  BY <1>3, <1>b, RefreshDoes
<1>4. CASE RefreshFails
  BY <1>4, <1>b DEF RefreshFails, ExchangeFails
<1>5. CASE TellAndLetGo
  BY <1>5, <1>a, <1>b DEF TellAndLetGo, Exchanging, service
<1>6. CASE Tell
  BY <1>0, <1>6 DEF Tell, client, service, call, loop, history
<1>7. CASE Succeed
  BY <1>7, <1>a, <1>b DEF Succeed, AnswerFrame, Exchanging, Calling, service
<1>8. CASE Refuse
  BY <1>8, <1>a, <1>b DEF Refuse, AnswerFrame, Exchanging, Calling, service
<1>9. CASE CallFails
  BY <1>9, <1>a, <1>b DEF CallFails, AnswerFrame, Exchanging, Calling, service
<1>10. CASE TooMany
  BY <1>10, <1>a, <1>b DEF TooMany, Exchanging, Calling, service
<1>11. CASE LoadKeyring
  <2>1. UNCHANGED <<granted, caller, turn, tokens>>
    BY <1>11 DEF LoadKeyring, client, service, call
  <2>2. crossed => crossed'
    BY <1>11 DEF LoadKeyring, Restored
  <2>3. caller # None => caller.kind # "engine"
    BY <1>11 DEF LoadKeyring, CallFits
  <2>4. QED
    BY <2>1, <2>2, <2>3 DEF GrantFits, Exchanging, Traded, Accepted
<1>12. CASE TakeClient
  BY <1>12, <1>a, <1>b DEF TakeClient, Exchanging, service
<1>13. CASE Restore
  BY <1>13, <1>b, RestoreDoes
<1>14. CASE RestoreFails
  BY <1>14, <1>b DEF RestoreFails, ExchangeFails
<1>15. CASE CheckPremium
  BY <1>15, <1>a, <1>b DEF CheckPremium, Exchanging, Calling, service
<1>16. CASE CheckLimited
  BY <1>16, <1>a, <1>b DEF CheckLimited, Exchanging, Calling, service
<1>17. CASE Reload
  BY <1>0, <1>17 DEF Reload, client, service, call, history
<1>18. CASE Start
  BY <1>0, <1>18 DEF Start, client, service, call, loop, history
<1>19. CASE Handle
  BY <1>0, <1>19 DEF Handle, client, service, call, loop, history
<1>20. CASE Login
  <2>1. PICK l \in Logins : turn[l] = -1 /\ turn' = [turn EXCEPT ![l] = 0]
    BY <1>20 DEF Login
  <2>2. UNCHANGED <<granted, caller, tokens, loaded, crossed>>
    BY <1>20 DEF Login, client, call, loop
  <2>3. ASSUME granted # None PROVE Accepted(granted.refresh)'
    <3>1. granted.refresh \in Tokens /\ turn[granted.refresh.login] = granted.refresh.turn
      BY <2>3 DEF GrantFits, Accepted, AccountTyped, Grants
    <3>2. granted.refresh.login # l
      BY <2>1, <3>1, Numbers DEF Tokens
    <3>3. QED
      BY <2>1, <2>2, <3>1, <3>2 DEF Accepted, AccountTyped, Tokens
  <2>4. QED
    BY <2>2, <2>3 DEF GrantFits, Exchanging, Traded
<1>21. CASE Logout
  BY <1>0, <1>21 DEF Logout, client, service, call, loop, history
<1>22. CASE Tick
  BY <1>0, <1>22 DEF Tick, client, service, call, loop, history
<1>23. CASE Restart
  BY <1>23, <1>b DEF Restart
<1>24. CASE UNCHANGED vars
  BY <1>0, <1>24 DEF vars, client, service, call, loop, history
<1>25. QED
  BY <1>1, <1>2, <1>3, <1>4, <1>5, <1>6, <1>7, <1>8, <1>9, <1>10, <1>11, <1>12, <1>13, <1>14, <1>15, <1>16, <1>17, <1>18, <1>19, <1>20, <1>21, <1>22, <1>23, <1>24 DEF Next,
     Requests, Spotify, Restoring, Engine, User

\* An exchange that fails leaves what is stored and held accepted, or says who missed
\* the successor.
LEMMA ExchangeKeeps ==
  ASSUME GrantFits, RotationsAreKept, ExchangeFails, UNCHANGED <<keyring, tokens, turn>>
  PROVE  RotationsAreKept'
<1>1. CASE granted = None /\ missed' = missed
  BY <1>1 DEF RotationsAreKept, Replacing, Accepted
<1>2. CASE missed' = IF granted # None /\ granted.refresh # Traded
                     THEN {"keyring", "client"} ELSE missed
  BY <1>2 DEF RotationsAreKept, Replacing, Accepted, GrantFits
<1>3. QED
  BY <1>1, <1>2 DEF ExchangeFails

LEMMA RotationStep ==
  AccountTyped /\ ClientTyped /\ FlagsTyped /\ CallFits /\ GrantFits /\ RotationsAreKept
    /\ [Next]_vars => RotationsAreKept'
<1> SUFFICES ASSUME AccountTyped, ClientTyped, FlagsTyped, CallFits, GrantFits,
   RotationsAreKept, [Next]_vars PROVE RotationsAreKept'
  OBVIOUS
<1>0. ASSUME UNCHANGED <<turn, keyring, tokens, missed, granted>>,
             granted # None => UNCHANGED <<caller, loaded>>
      PROVE  RotationsAreKept'
  BY <1>0 DEF RotationsAreKept, Replacing, Accepted, Traded
<1>a. ~Exchanging => granted = None
  BY DEF GrantFits
<1>1. CASE Acquire
  BY <1>0, <1>1, <1>a, AcquireDoes DEF Exchanging
<1>2. CASE Renew
  <2>1. PICK token \in Tokens :
           /\ token.login = Traded.login
           /\ turn' = [turn EXCEPT ![token.login] = token.turn]
           /\ granted' = [refresh |-> token, expires |-> now + Lifetime]
           /\ Exchanging /\ granted = None /\ Accepted(Traded)
    BY <1>2, RenewDoes
  <2>2. UNCHANGED <<caller, loaded, tokens, keyring, missed>> /\ granted' # None
    BY <1>2, <2>1, NoneIsNothing, Numbers DEF Renew, client, call, loop, ClientTyped
  <2>3. ASSUME NEW t \in Tokens, Accepted(t) PROVE Accepted(t)' \/ Replacing(t)'
    <3>1. CASE t.login = Traded.login
      <4>1. t = Traded
        BY <2>1, <2>3, <3>1, TradedIs DEF Accepted, Tokens
      <4>2. QED
        BY <2>2, <4>1 DEF Replacing, Traded
    <3>2. CASE t.login # Traded.login
      BY <2>1, <2>3, <3>2 DEF Accepted, AccountTyped, Tokens
    <3>3. QED
      BY <3>1, <3>2
  <2>4. /\ keyring # None => keyring \in Tokens
        /\ tokens # None => tokens.refresh \in Tokens
    BY DEF AccountTyped, ClientTyped, Adoptions
  <2>5. ~Replacing(keyring) /\ ~Replacing(tokens.refresh)
    BY <2>1 DEF Replacing
  <2>6. QED
    BY <2>2, <2>3, <2>4, <2>5 DEF RotationsAreKept
<1>3. CASE Refresh
  <2>1. /\ granted # None /\ granted' = None /\ turn' = turn /\ Traded = tokens.refresh
        /\ tokens # None /\ tokens'.refresh = granted.refresh
        /\ SaveRenewed(granted.refresh)
    BY <1>3, RefreshDoes
  <2>2. turn'[granted.refresh.login] = granted.refresh.turn
    BY <2>1 DEF GrantFits, Accepted
  <2>3. CASE granted.refresh = tokens.refresh /\ keyring' = keyring
             /\ missed' = missed \ {"client"}
    BY <2>1, <2>2, <2>3 DEF RotationsAreKept, Replacing, Accepted
  <2>4. CASE keyring' = granted.refresh
    BY <2>1, <2>2, <2>4 DEF RotationsAreKept, Accepted
  <2>5. CASE missed' = {"keyring"}
    BY <2>1, <2>2, <2>5 DEF RotationsAreKept, Accepted
  <2>6. QED
    BY <2>1, <2>3, <2>4, <2>5 DEF SaveRenewed
<1>4. CASE RefreshFails
  <2>1. UNCHANGED <<keyring, tokens, turn>> /\ ExchangeFails
    BY <1>4 DEF RefreshFails, client
  <2>2. QED
    BY <2>1, ExchangeKeeps
<1>5. CASE TellAndLetGo
  BY <1>0, <1>5, <1>a DEF TellAndLetGo, Exchanging, client, service, history
<1>6. CASE Tell
  BY <1>0, <1>6 DEF Tell, client, service, call, loop, history
<1>7. CASE Succeed
  BY <1>0, <1>7, <1>a DEF Succeed, AnswerFrame, Exchanging, Calling, service
<1>8. CASE Refuse
  BY <1>0, <1>8, <1>a DEF Refuse, AnswerFrame, Exchanging, Calling, service
<1>9. CASE CallFails
  BY <1>0, <1>9, <1>a DEF CallFails, AnswerFrame, Exchanging, Calling, service
<1>10. CASE TooMany
  BY <1>0, <1>10, <1>a DEF TooMany, Exchanging, Calling, service
<1>11. CASE LoadKeyring
  <2>1. UNCHANGED <<granted, caller, turn, tokens, keyring, missed>>
    BY <1>11 DEF LoadKeyring, client, service, call
  <2>2. caller # None => caller.kind # "engine"
    BY <1>11 DEF LoadKeyring, CallFits
  <2>3. granted # None => Traded' = Traded
    BY <2>1, <2>2, <1>a DEF Exchanging, Traded
  <2>4. QED
    BY <2>1, <2>3 DEF RotationsAreKept, Replacing, Accepted
<1>12. CASE TakeClient
  BY <1>0, <1>12, <1>a DEF TakeClient, Exchanging, client, service, history
<1>13. CASE Restore
  <2>1. /\ granted # None /\ granted' = None /\ turn' = turn /\ keyring' = keyring
        /\ Traded = loaded /\ tokens' # None /\ tokens'.refresh = granted.refresh
        /\ missed' = IF granted.refresh = loaded THEN missed \ {"client"} ELSE {"keyring"}
    BY <1>13, RestoreDoes
  <2>2. turn'[granted.refresh.login] = granted.refresh.turn
    BY <2>1 DEF GrantFits, Accepted
  <2>3. CASE granted.refresh = loaded
    BY <2>1, <2>2, <2>3 DEF RotationsAreKept, Replacing, Accepted
  <2>4. CASE granted.refresh # loaded
    BY <2>1, <2>2, <2>4 DEF RotationsAreKept, Accepted
  <2>5. QED
    BY <2>3, <2>4
<1>14. CASE RestoreFails
  <2>1. UNCHANGED <<keyring, tokens, turn>> /\ ExchangeFails
    BY <1>14 DEF RestoreFails, client
  <2>2. QED
    BY <2>1, ExchangeKeeps
<1>15. CASE CheckPremium
  BY <1>0, <1>15, <1>a DEF CheckPremium, Exchanging, Calling, service
<1>16. CASE CheckLimited
  BY <1>0, <1>16, <1>a DEF CheckLimited, Exchanging, Calling, service
<1>17. CASE Reload
  BY <1>0, <1>17 DEF Reload, client, service, call, history
<1>18. CASE Start
  BY <1>0, <1>18 DEF Start, client, service, call, loop, history
<1>19. CASE Handle
  BY <1>0, <1>19 DEF Handle, client, service, call, loop, history
<1>20. CASE Login
  <2>1. PICK l \in Logins :
           /\ turn[l] = -1 /\ turn' = [turn EXCEPT ![l] = 0]
           /\ keyring' = [login |-> l, turn |-> 0]
    BY <1>20 DEF Login
  <2>2. UNCHANGED <<granted, caller, tokens, loaded>> /\ missed' = missed \ {"keyring"}
    BY <1>20 DEF Login, client, call, loop
  <2>3. Accepted(keyring)'
    BY <2>1 DEF Accepted, AccountTyped
  <2>4. ASSUME tokens # None, Accepted(tokens.refresh) PROVE Accepted(tokens.refresh)'
    <3>1. tokens.refresh \in Tokens
      BY <2>4 DEF ClientTyped, Adoptions
    <3>2. tokens.refresh.login # l
      BY <2>1, <2>4, <3>1, Numbers DEF Accepted, Tokens
    <3>3. QED
      BY <2>1, <2>2, <2>4, <3>1, <3>2 DEF Accepted, AccountTyped, Tokens
  <2>5. tokens # None => Replacing(tokens.refresh)' = Replacing(tokens.refresh)
    BY <2>2 DEF Replacing, Traded
  <2>6. QED
    BY <2>2, <2>3, <2>4, <2>5 DEF RotationsAreKept
<1>21. CASE Logout
  BY <1>21 DEF Logout, RotationsAreKept, Replacing, Accepted, Traded, client, service,
     call, loop, history
<1>22. CASE Tick
  BY <1>0, <1>22 DEF Tick, client, service, call, loop, history
<1>23. CASE Restart
  <2>1. /\ tokens' = None /\ UNCHANGED <<keyring, turn>>
        /\ "keyring" \in missed => "keyring" \in missed'
        /\ granted # None /\ granted.refresh # Traded => "keyring" \in missed'
    BY <1>23 DEF Restart
  <2>2. ASSUME keyring # None, "keyring" \notin missed' PROVE Accepted(keyring)'
    BY <2>1, <2>2 DEF RotationsAreKept, Replacing, Accepted, GrantFits
  <2>3. QED
    BY <2>1, <2>2 DEF RotationsAreKept
<1>24. CASE UNCHANGED vars
  BY <1>0, <1>24 DEF vars, client, service, call, loop, history
<1>25. QED
  BY <1>1, <1>2, <1>3, <1>4, <1>5, <1>6, <1>7, <1>8, <1>9, <1>10, <1>11, <1>12, <1>13, <1>14, <1>15, <1>16, <1>17, <1>18, <1>19, <1>20, <1>21, <1>22, <1>23, <1>24 DEF Next,
     Requests, Spotify, Restoring, Engine, User

LEMMA IInvNext == IInv /\ [Next]_vars => IInv'
BY AccountStep, ClientStep, QueuesStep, FlagsStep, CallStep, LimitStep, GrantStep,
   TimeStep, RotationStep DEF IInv, TypeOK

LEMMA IInvAlways == Spec => []IInv
BY InitIInv, IInvNext, PTL DEF Spec

\* Whatever the waits and bounds, every variable of the account keeps its type,
\* and the channel of events never holds more than its capacity.
THEOREM TypeAlways == Spec => []TypeOK
BY IInvAlways, PTL DEF IInv

\* Whatever Spotify asks for and whoever was refused, no request goes out before
\* the time Spotify asked to be left alone until: `wait_out_rate_limit` is what
\* every call passes after it has got the client.
THEOREM WaitsAsToldAlways == Spec => []WaitsAsTold
<1>1. IInv => WaitsAsTold
  BY DEF IInv, LimitKept, WaitsAsTold
<1>2. QED
  BY IInvAlways, <1>1, PTL

\* For every refresh margin that is no shorter than an exchange and a call may take
\* together, Spotify lets no access token expire while a call that carries it is in
\* the air, though the client counts its life from when the answer arrived.
THEOREM TokensOutliveCallsAlways == Spec => []TokensOutliveCalls
<1>1. IInv => TokensOutliveCalls
  <2> SUFFICES ASSUME IInv, Calling PROVE now < tokens.expires
    BY DEF TokensOutliveCalls
  <2>1. tokens # None
    BY DEF IInv, CallFits, Calling
  <2>2. tokens.expires \in Nat /\ now \in Nat /\ sentAt \in Nat
    BY <2>1, Numbers DEF IInv, TypeOK, ClientTyped, Adoptions
  <2>3. now <= sentAt + Timeout /\ sentAt + Timeout < tokens.expires
    BY DEF IInv, CallTimed
  <2>4. QED
    BY <2>2, <2>3, Numbers
<1>2. QED
  BY IInvAlways, <1>1, PTL

\* However often Spotify renews a refresh token, whoever exchanged it and wherever an
\* answer is lost, a write fails or the daemon ends: the token in the keyring is one it
\* accepts, and so is the one the client has, or the successor is on its way; unless
\* the keyring or the client is one that did not get the last successor.
THEOREM RotationsAreKeptAlways == Spec => []RotationsAreKept
<1>1. IInv => RotationsAreKept
  BY DEF IInv
<1>2. QED
  BY IInvAlways, <1>1, PTL

-----------------------------------------------------------------------------
(* A login takes effect. *)

\* Nothing was lost on the way and nothing crossed.
Clean == faults = 0 /\ ~crossed

Outdone(token) == token.turn < turn[token.login]

Adopted == tokens # None /\ tokens.refresh = keyring /\ authorized

\* The login that is stored is the one the client goes on with, or the engine is
\* about to adopt it; unless what it is about to adopt was replaced meanwhile by
\* the client itself, and will be refused.
LoginFollowed ==
    Clean /\ cli = "idle" /\ keyring # None =>
        /\ engine = "free" => Adopted
        /\ engine \in {"waiting", "calling"} =>
              loaded = keyring \/ (Adopted /\ Outdone(loaded))
        /\ engine = "calling" /\ Calling => Adopted

\* What a login can do is offered, and nothing that says otherwise is on its way.
OffersFollow ==
    /\ ~reload /\ engine # "free" => libraryAvailable /\ ~needsLogin
    /\ Clean /\ tokens # None /\ tokens.refresh.login > 0 =>
          /\ ~libraryForbidden /\ ~scopeMissing
          /\ engine = "free" =>
                libraryAvailable /\ ~needsLogin /\ \A m \in Refusals : ~OnItsWay(m)

\* The engine that calls has the client, and one that has a token says so.
AdoptFits ==
    /\ engine = "calling" => caller # None /\ caller.kind = "engine"
    /\ tokens # None => authorized

\* Without a fault only the restore fails to store what it got.
MissedFits == Clean => missed = {}

LInv == LoginFollowed /\ OffersFollow /\ AdoptFits /\ MissedFits

\* What is sent is what is on its way, and what is handled no longer is.
LEMMA SentIsOnItsWay ==
  ASSUME events \in Seq(Events), NEW e \in Events, events' = Append(events, e),
         NEW m \in Refusals, telling \in [Messages -> Nat], telling' \in [Messages -> Nat],
         telling'[EventOf(m)] <= telling[EventOf(m)], ~OnItsWay(m), e.kind # m
  PROVE  ~OnItsWay(m)'
<1>1. telling[EventOf(m)] \in Nat /\ telling'[EventOf(m)] \in Nat
  BY DEF Messages
<1>2. \A i \in DOMAIN events' : events'[i].kind # m
  BY DEF OnItsWay
<1>3. QED
  BY <1>1, <1>2 DEF OnItsWay

LEMMA HandledLeavesTheRest ==
  ASSUME events \in Seq(Events), events # <<>>, events' = Tail(events), telling' = telling,
         NEW m \in Refusals, ~OnItsWay(m)
  PROVE  ~OnItsWay(m)' /\ Head(events).kind # m
BY DEF OnItsWay

LEMMA NothingSent ==
  ASSUME events' = events, NEW m, telling'[EventOf(m)] = telling[EventOf(m)]
  PROVE  OnItsWay(m)' = OnItsWay(m)
BY DEF OnItsWay

\* A client that lacks nothing has no refusal to tell.
LEMMA FailsSilently ==
  ASSUME QueuesTyped, NEW kind, Fails(kind), ~libraryForbidden', ~scopeMissing'
  PROVE  \A m \in Refusals : telling'[EventOf(m)] = telling[EventOf(m)]
<1> TAKE m \in Refusals
<1>1. EventOf(m) \in Messages
  BY DEF Messages
<1>2. EventOf(m) \notin Tells(kind)
  BY DEF Tells, EventOf, DevicesEvent, Refusals
<1>3. telling'[EventOf(m)] = telling[EventOf(m)] + 0
  BY <1>1, <1>2 DEF Fails, LetsGo
<1>4. QED
  BY <1>1, <1>3 DEF QueuesTyped

\* A step that does not touch the exchange leaves the login followed.
LEMMA FollowStays ==
  ASSUME LoginFollowed,
         UNCHANGED <<turn, keyring, cli, tokens, authorized, engine, loaded, faults,
                     crossed>>,
         engine = "calling" /\ Calling' => Calling
  PROVE  LoginFollowed'
BY DEF LoginFollowed, Clean, Adopted, Outdone

\* A step of anyone but the restore leaves the offers, if it sends no refusal.
LEMMA OffersStay ==
  ASSUME OffersFollow,
         UNCHANGED <<reload, engine, libraryAvailable, needsLogin>>,
         Clean' => Clean,
         Clean' /\ tokens' # None /\ tokens'.refresh.login > 0 =>
            /\ tokens # None /\ tokens.refresh.login > 0
            /\ ~libraryForbidden /\ ~scopeMissing =>
                  /\ ~libraryForbidden' /\ ~scopeMissing'
                  /\ \A m \in Refusals : OnItsWay(m)' => OnItsWay(m)
  PROVE  OffersFollow'
BY DEF OffersFollow

\* The end of a restore offers everything again.
LEMMA RestoredOffers ==
  ASSUME OffersFollow, engine # "free", Restored, UNCHANGED <<telling, events>>,
         Clean' /\ tokens' # None /\ tokens'.refresh.login > 0 =>
            ~libraryForbidden' /\ ~scopeMissing'
  PROVE  OffersFollow'
<1>1. engine' = "free" /\ libraryAvailable' /\ ~needsLogin'
  BY DEF Restored, OffersFollow
<1>2. ~crossed' => \A m \in Refusals : ~OnItsWay(m)'
  BY NothingSent DEF Restored
<1>3. QED
  BY <1>1, <1>2 DEF OffersFollow, Clean

LEMMA AdoptStep ==
  AccountTyped /\ ClientTyped /\ CallFits /\ AdoptFits /\ [Next]_vars => AdoptFits'
<1> SUFFICES ASSUME AccountTyped, ClientTyped, CallFits, AdoptFits,
   [Next]_vars PROVE AdoptFits'
  OBVIOUS
<1>0. ASSUME UNCHANGED <<tokens, authorized>>,
             engine' # "calling" \/ UNCHANGED <<engine, caller>>
      PROVE  AdoptFits'
  BY <1>0 DEF AdoptFits
<1>a. caller = None \/ caller.kind # "engine" => engine # "calling"
  BY DEF AdoptFits
<1>b. caller # None /\ caller.kind \in Kinds => caller.kind # "engine"
  BY DEF Kinds
<1>1. CASE Acquire
  BY <1>0, <1>1, <1>a, AcquireDoes DEF Acquire, shown, loop
<1>2. CASE Renew
  BY <1>0, <1>2 DEF Renew, client, shown, loop, call
<1>3. CASE Refresh
  <2>1. /\ caller # None /\ caller.kind # "engine" /\ tokens # None
        /\ UNCHANGED <<engine, authorized>>
    BY <1>3, RefreshDoes DEF Refresh, Exchanging, shown, loop
  <2>2. QED
    BY <2>1, <1>a DEF AdoptFits
<1>4. CASE RefreshFails
  BY <1>0, <1>4, <1>a, <1>b DEF RefreshFails, Exchanging, client, shown, loop
<1>5. CASE TellAndLetGo
  BY <1>0, <1>5, <1>a, <1>b DEF TellAndLetGo, CallFits, client, shown, loop
<1>6. CASE Tell
  BY <1>0, <1>6 DEF Tell, client, shown, loop, call
<1>7. CASE Succeed
  BY <1>0, <1>7, <1>a, <1>b DEF Succeed, Calling, AnswerFrame, shown, loop
<1>8. CASE Refuse
  BY <1>0, <1>8, <1>a, <1>b DEF Refuse, Calling, AnswerFrame, shown, loop
<1>9. CASE CallFails
  BY <1>0, <1>9, <1>a, <1>b DEF CallFails, Calling, AnswerFrame, shown, loop
<1>10. CASE TooMany
  BY <1>0, <1>10, <1>a, <1>b DEF TooMany, Calling, shown, loop
<1>11. CASE LoadKeyring
  BY <1>0, <1>11 DEF LoadKeyring, Restored, client
<1>12. CASE TakeClient
  BY <1>12, NoneIsNothing DEF TakeClient, Sends, Holding, AdoptFits, client, shown
<1>13. CASE Restore
  <2>1. authorized' /\ engine = "calling"
    BY <1>13, RestoreDoes
  <2>2. CASE engine' = "free"
    BY <2>1, <2>2 DEF AdoptFits
  <2>3. CASE caller' = [kind |-> "engine", phase |-> "calling"]
    BY <2>1, <2>3, NoneIsNothing DEF AdoptFits
  <2>4. QED
    BY <1>13, <2>2, <2>3, RestoreDoes
<1>14. CASE RestoreFails
  BY <1>0, <1>14 DEF RestoreFails, Restored, client
<1>15. CASE CheckPremium
  BY <1>0, <1>15 DEF CheckPremium, Restored
<1>16. CASE CheckLimited
  BY <1>0, <1>16 DEF CheckLimited, Restored
<1>17. CASE Reload
  BY <1>0, <1>17 DEF Reload, client, shown
<1>18. CASE Start
  BY <1>0, <1>18 DEF Start, client, shown, loop, call
<1>19. CASE Handle
  BY <1>0, <1>19 DEF Handle, client, loop, call
<1>20. CASE Login
  BY <1>0, <1>20 DEF Login, client, shown, loop, call
<1>21. CASE Logout
  BY <1>0, <1>21 DEF Logout, client, shown, loop, call
<1>22. CASE Tick
  BY <1>0, <1>22 DEF Tick, client, shown, loop, call
<1>23. CASE Restart
  BY <1>23 DEF Restart, AdoptFits
<1>24. CASE UNCHANGED vars
  BY <1>0, <1>24 DEF vars, client, shown, loop, call
<1>25. QED
  BY <1>1, <1>2, <1>3, <1>4, <1>5, <1>6, <1>7, <1>8, <1>9, <1>10, <1>11, <1>12, <1>13, <1>14, <1>15, <1>16, <1>17, <1>18, <1>19, <1>20, <1>21, <1>22, <1>23, <1>24 DEF Next,
     Requests, Spotify, Restoring, Engine, User

\* Without a fault and a renewal by the restore, nobody misses a successor.
LEMMA MissedStep ==
  AccountTyped /\ ClientTyped /\ FlagsTyped /\ CallFits /\ GrantFits /\ MissedFits
    /\ [Next]_vars => MissedFits'
<1> SUFFICES ASSUME AccountTyped, ClientTyped, FlagsTyped, CallFits, GrantFits, MissedFits,
   [Next]_vars PROVE MissedFits'
  OBVIOUS
<1>0. ASSUME missed' = missed, faults' = 0 => faults = 0, crossed => crossed'
      PROVE  MissedFits'
  BY <1>0 DEF MissedFits, Clean
<1>a. ASSUME faults' = faults + 1 PROVE MissedFits'
  BY <1>a DEF MissedFits, Clean, FlagsTyped
<1>1. CASE Acquire
  BY <1>0, <1>1 DEF Acquire, history
<1>2. CASE Renew
  BY <1>0, <1>2 DEF Renew
<1>3. CASE Refresh
  BY <1>3, <1>a, RefreshDoes DEF SaveRenewed, MissedFits, Clean
<1>4. CASE RefreshFails
  BY <1>0, <1>4, <1>a DEF RefreshFails, ExchangeFails
<1>5. CASE TellAndLetGo
  BY <1>0, <1>5 DEF TellAndLetGo, history
<1>6. CASE Tell
  BY <1>0, <1>6 DEF Tell, history
<1>7. CASE Succeed
  BY <1>0, <1>7 DEF Succeed, AnswerFrame
<1>8. CASE Refuse
  BY <1>0, <1>8 DEF Refuse, AnswerFrame
<1>9. CASE CallFails
  BY <1>9, <1>a DEF CallFails
<1>10. CASE TooMany
  BY <1>0, <1>10 DEF TooMany
<1>11. CASE LoadKeyring
  BY <1>0, <1>11, <1>a DEF LoadKeyring, Restored
<1>12. CASE TakeClient
  BY <1>0, <1>12 DEF TakeClient, history
<1>13. CASE Restore
  BY <1>13, RestoreDoes DEF MissedFits, Clean, GrantFits
<1>14. CASE RestoreFails
  BY <1>0, <1>14, <1>a DEF RestoreFails, ExchangeFails, Restored
<1>15. CASE CheckPremium
  BY <1>0, <1>15 DEF CheckPremium, Restored
<1>16. CASE CheckLimited
  BY <1>0, <1>16 DEF CheckLimited, Restored
<1>17. CASE Reload
  BY <1>0, <1>17 DEF Reload, history
<1>18. CASE Start
  BY <1>0, <1>18 DEF Start, history
<1>19. CASE Handle
  BY <1>0, <1>19 DEF Handle, history
<1>20. CASE Login
  BY <1>20 DEF Login, MissedFits, Clean
<1>21. CASE Logout
  BY <1>21, <1>a DEF Logout
<1>22. CASE Tick
  BY <1>0, <1>22 DEF Tick, history
<1>23. CASE Restart
  BY <1>23, <1>a DEF Restart
<1>24. CASE UNCHANGED vars
  BY <1>0, <1>24 DEF vars, history
<1>25. QED
  BY <1>1, <1>2, <1>3, <1>4, <1>5, <1>6, <1>7, <1>8, <1>9, <1>10, <1>11, <1>12, <1>13, <1>14, <1>15, <1>16, <1>17, <1>18, <1>19, <1>20, <1>21, <1>22, <1>23, <1>24 DEF Next,
     Requests, Spotify, Restoring, Engine, User

LEMMA FollowStep ==
  IInv /\ AdoptFits /\ MissedFits /\ LoginFollowed /\ [Next]_vars => LoginFollowed'
<1> SUFFICES ASSUME AccountTyped, ClientTyped, QueuesTyped, FlagsTyped, CallFits,
                    GrantFits, RotationsAreKept, AdoptFits, MissedFits, LoginFollowed,
                    [Next]_vars
             PROVE  LoginFollowed'
  BY DEF IInv, TypeOK
<1>1. CASE Acquire
  <2>1. engine # "calling"
    BY <1>1 DEF Acquire, AdoptFits
  <2>2. QED
    BY <1>1, <2>1, FollowStays DEF Acquire, loop, service, shown, history
<1>2. CASE Renew
  <2>1. PICK token \in Tokens :
           /\ token.login = Traded.login
           /\ token = Traded \/ token.turn = Traded.turn + 1
           /\ turn' = [turn EXCEPT ![token.login] = token.turn]
           /\ crossed' = (crossed \/ (caller.kind = "engine" /\ token # loaded))
           /\ Exchanging /\ Accepted(Traded)
    BY <1>2, RenewDoes
  <2>2. UNCHANGED <<keyring, cli, tokens, authorized, engine, loaded, faults, caller>>
    BY <1>2 DEF Renew, client, call, loop, shown
  <2>3. ASSUME NEW t \in Tokens, Outdone(t) PROVE Outdone(t)'
    <3>1. turn[t.login] \in Int /\ t.turn \in Int /\ t.login \in Logins
      BY DEF AccountTyped, Tokens
    <3>2. CASE t.login # token.login
      BY <2>1, <2>3, <3>1, <3>2 DEF Outdone, AccountTyped
    <3>3. CASE t.login = token.login
      <4>1. token.turn >= turn[t.login] /\ token.turn \in Int
        BY <2>1, <3>3, TradedIs DEF Accepted, Tokens
      <4>2. turn'[t.login] = token.turn
        BY <2>1, <3>1, <3>3 DEF AccountTyped
      <4>3. QED
        BY <2>3, <3>1, <4>1, <4>2 DEF Outdone
    <3>4. QED
      BY <3>2, <3>3
  <2>4. engine \in {"waiting", "calling"} => loaded \in Tokens
    BY DEF CallFits, AccountTyped
  <2>5. Clean' => Clean
    BY <2>1, <2>2 DEF Clean
  <2>6. QED
    BY <2>2, <2>3, <2>4, <2>5 DEF LoginFollowed, Adopted, Calling
<1>3. CASE Refresh
  <2>1. /\ tokens # None /\ tokens.refresh \in Tokens /\ Traded = tokens.refresh
        /\ granted # None /\ SaveRenewed(granted.refresh)
        /\ tokens' # None /\ tokens'.refresh = granted.refresh
        /\ caller # None /\ caller.kind # "engine"
        /\ UNCHANGED <<turn, engine, loaded, cli>>
    BY <1>3, RefreshDoes DEF Exchanging, loop
  <2>2. authorized' /\ authorized /\ engine # "calling"
    BY <1>3, <2>1 DEF Refresh, AdoptFits, shown
  <2>3. /\ granted.refresh = tokens.refresh \/ granted.refresh.turn = tokens.refresh.turn + 1
        /\ granted.refresh.login = tokens.refresh.login /\ Accepted(granted.refresh)
    BY <2>1 DEF GrantFits
  <2>4. CASE granted.refresh = tokens.refresh /\ UNCHANGED <<keyring, crossed, faults>>
    BY <2>1, <2>2, <2>4 DEF LoginFollowed, Clean, Adopted, Outdone
  <2>5. CASE /\ granted.refresh # tokens.refresh /\ keyring' = granted.refresh
             /\ crossed' = (crossed \/ keyring # tokens.refresh) /\ faults' = faults
    <3>1. ASSUME Clean', cli' = "idle"
          PROVE  Clean /\ cli = "idle" /\ keyring = tokens.refresh /\ keyring # None /\ Adopted'
      BY <2>1, <2>2, <2>5, <3>1, NoneIsNothing DEF Clean, Adopted
    <3>2. tokens.refresh.turn < turn[tokens.refresh.login]
      BY <2>1, <2>3, <2>5 DEF Accepted, Tokens
    <3>3. ASSUME Clean', cli' = "idle", engine' = "waiting" PROVE Outdone(loaded)'
      <4>1. loaded = tokens.refresh \/ Outdone(loaded)
        BY <2>1, <3>1, <3>3 DEF LoginFollowed
      <4>2. QED
        BY <2>1, <3>2, <4>1 DEF Outdone
    <3>4. QED
      BY <2>1, <2>2, <3>1, <3>3 DEF LoginFollowed
  <2>6. CASE faults' = faults + 1
    BY <2>6 DEF LoginFollowed, Clean, FlagsTyped
  <2>7. QED
    BY <2>1, <2>4, <2>5, <2>6 DEF SaveRenewed
<1>4. CASE RefreshFails
  <2>1. /\ UNCHANGED <<keyring, cli, tokens, authorized, engine, loaded, turn, crossed>>
        /\ ExchangeFails /\ caller' = None
    BY <1>4 DEF RefreshFails, Fails, LetsGo, client, loop, shown
  <2>2. CASE faults' = faults + 1
    BY <2>2 DEF LoginFollowed, Clean, FlagsTyped
  <2>3. CASE faults' = faults
    BY <2>1, <2>3, FollowStays DEF Calling
  <2>4. QED
    BY <2>1, <2>2, <2>3 DEF ExchangeFails
<1>5. CASE TellAndLetGo
  BY <1>5 DEF TellAndLetGo, HasRoom, EventOf, LetsGo, LoginFollowed, Clean, Adopted,
     Outdone, Calling, client, service, call, tasks, shown, loop, history
<1>6. CASE Tell
  BY <1>6 DEF Tell, HasRoom, EventOf, LoginFollowed, Clean, Adopted, Outdone, Calling,
     client, service, call, tasks, shown, loop, history
<1>7. CASE Succeed
  BY <1>7 DEF Succeed, Done, AnswerFrame, LetsGo, Holding, LoginFollowed, Clean,
     Adopted, Outdone, Calling, client, service, call, tasks, shown, loop, history
<1>8. CASE Refuse
  BY <1>8 DEF Refuse, AnswerFrame, Fails, LetsGo, Tells, LoginFollowed, Clean,
     Adopted, Outdone, Calling, client, service, call, tasks, shown, loop, history
<1>9. CASE CallFails
  <2>1. ~Clean'
    BY <1>9 DEF CallFails, Clean, FlagsTyped
  <2>2. QED
    BY <2>1 DEF LoginFollowed
<1>10. CASE TooMany
  BY <1>10, BackoffIsEnough DEF TooMany, Limit, Fails, LetsGo, Tells, LoginFollowed,
     Clean, Adopted, Outdone, Calling, client, service, call, tasks, shown, loop,
     history
<1>11. CASE LoadKeyring
  <2>1. /\ UNCHANGED <<keyring, cli, tokens, authorized>> /\ engine = "loading"
    BY <1>11 DEF LoadKeyring, client
  <2>2. CASE keyring = None
    BY <2>1, <2>2 DEF LoginFollowed
  <2>3. CASE engine' = "waiting" /\ loaded' = keyring
    BY <2>1, <2>3 DEF LoginFollowed
  <2>4. CASE faults' = faults + 1
    BY <2>4 DEF LoginFollowed, Clean, FlagsTyped
  <2>5. QED
    BY <1>11, <2>2, <2>3, <2>4 DEF LoadKeyring
<1>12. CASE TakeClient
  BY <1>12 DEF TakeClient, Sends, Holding, LoginFollowed, Clean, Adopted, Outdone, Calling,
     client, service, call, tasks, shown, loop, history
<1>13. CASE Restore
  <2>1. /\ granted # None /\ Traded = loaded /\ loaded \in Tokens
        /\ tokens' # None /\ tokens'.refresh = granted.refresh /\ authorized'
        /\ UNCHANGED <<keyring, cli, faults, turn>> /\ (crossed => crossed')
        /\ engine = "calling" /\ caller.kind = "engine"
    BY <1>13, RestoreDoes
  <2>2. ASSUME Clean', cli' = "idle", keyring' # None PROVE Adopted'
    <3>1. Clean /\ granted.refresh = loaded
      BY <2>1, <2>2 DEF Clean, GrantFits
    <3>2. Accepted(loaded)
      BY <2>1, <3>1 DEF GrantFits
    <3>3. ~Outdone(loaded)
      BY <2>1, <3>2 DEF Outdone, Accepted, AccountTyped, Tokens
    <3>4. loaded = keyring
      BY <2>1, <2>2, <3>1, <3>3 DEF LoginFollowed
    <3>5. QED
      BY <2>1, <3>1, <3>4 DEF Adopted
  <2>3. CASE engine' = "free"
    BY <2>2, <2>3 DEF LoginFollowed
  <2>4. CASE UNCHANGED <<engine, loaded>>
    <3>1. ASSUME Clean', cli' = "idle", keyring' # None
          PROVE  loaded' = keyring' \/ (Adopted' /\ Outdone(loaded)')
      BY <2>1, <2>2, <2>4, <3>1 DEF LoginFollowed, Clean, Outdone
    <3>2. QED
      BY <2>1, <2>2, <2>4, <3>1 DEF LoginFollowed
  <2>5. QED
    BY <1>13, <2>3, <2>4, RestoreDoes
<1>14. CASE RestoreFails
  <2>1. /\ UNCHANGED <<tokens, keyring, authorized, cli, turn>> /\ engine' = "free"
        /\ (crossed => crossed') /\ ExchangeFails /\ EngineRefreshing
    BY <1>14 DEF RestoreFails, Restored, client
  <2>2. CASE faults' = faults + 1
    BY <2>2 DEF LoginFollowed, Clean, FlagsTyped
  <2>3. CASE granted = None /\ ~Accepted(loaded) /\ faults' = faults
    <3>1. engine = "calling"
      BY <2>1 DEF EngineRefreshing, Exchanging, CallFits
    <3>2. Clean /\ keyring # None => keyring # loaded
      BY <2>3 DEF RotationsAreKept, Replacing, MissedFits
    <3>3. Clean /\ cli = "idle" /\ keyring # None => Adopted
      BY <3>1, <3>2 DEF LoginFollowed
    <3>4. QED
      BY <2>1, <2>3, <3>3 DEF LoginFollowed, Clean, Adopted
  <2>4. Traded = loaded
    BY <2>1 DEF EngineRefreshing, Traded
  <2>5. QED
    BY <2>1, <2>2, <2>3, <2>4 DEF ExchangeFails
<1>15. CASE CheckPremium
  <2>1. /\ UNCHANGED <<tokens, keyring, authorized, cli, turn, faults>>
        /\ engine' = "free" /\ (crossed => crossed')
    BY <1>15 DEF CheckPremium, Restored, service
  <2>2. engine = "calling" /\ Calling
    BY <1>15 DEF CheckPremium, CallFits, Calling
  <2>3. QED
    BY <2>1, <2>2 DEF LoginFollowed, Clean, Adopted
<1>16. CASE CheckLimited
  <2>1. /\ UNCHANGED <<tokens, keyring, authorized, cli, turn, faults>>
        /\ engine' = "free" /\ (crossed => crossed')
    BY <1>16 DEF CheckLimited, Restored, service
  <2>2. engine = "calling" /\ Calling
    BY <1>16 DEF CheckLimited, CallFits, Calling
  <2>3. QED
    BY <2>1, <2>2 DEF LoginFollowed, Clean, Adopted
<1>17. CASE Reload
  BY <1>17 DEF Reload, LoginFollowed, Clean, Adopted, Outdone, Calling, client,
     service, call, tasks, shown, loop, history
<1>18. CASE Start
  BY <1>18 DEF Start, Ask, LoginFollowed, Clean, Adopted, Outdone, Calling, client,
     service, call, tasks, shown, loop, history
<1>19. CASE Handle
  BY <1>19 DEF Handle, LoginFollowed, Clean, Adopted, Outdone, Calling, client,
     service, call, tasks, shown, loop, history
<1>20. CASE Login
  BY <1>20 DEF Login, LoginFollowed, Clean, Adopted, Outdone, Calling, client,
     service, call, tasks, shown, loop, history
<1>21. CASE Logout
  BY <1>21 DEF Logout, LoginFollowed, Clean, Adopted, Outdone, Calling, client,
     service, call, tasks, shown, loop, history
<1>22. CASE Tick
  BY <1>22 DEF Tick, LoginFollowed, Clean, Adopted, Outdone, Calling, client, service,
     call, tasks, shown, loop, history
<1>23. CASE Restart
  BY <1>23 DEF Restart, LoginFollowed, Clean, Adopted, Outdone, Calling, client,
     service, call, tasks, shown, loop, history
<1>24. CASE UNCHANGED vars
  BY <1>24 DEF vars, LoginFollowed, Clean, Adopted, Outdone, Calling, client, service,
     call, tasks, shown, loop, history
<1>25. QED
  BY <1>1, <1>2, <1>3, <1>4, <1>5, <1>6, <1>7, <1>8, <1>9, <1>10, <1>11, <1>12, <1>13, <1>14, <1>15, <1>16, <1>17, <1>18, <1>19, <1>20, <1>21, <1>22, <1>23, <1>24 DEF Next,
     Requests, Spotify, Restoring, Engine, User

LEMMA OffersStep ==
  IInv /\ AdoptFits /\ LoginFollowed /\ OffersFollow /\ [Next]_vars => OffersFollow'
<1> SUFFICES ASSUME AccountTyped, ClientTyped, QueuesTyped, FlagsTyped, CallFits,
                    GrantFits, AdoptFits, LoginFollowed, OffersFollow, [Next]_vars
             PROVE  OffersFollow'
  BY DEF IInv, TypeOK
<1>a. ASSUME faults' = 0 => faults = 0, crossed => crossed' PROVE Clean' => Clean
  BY <1>a DEF Clean
<1>1. CASE Acquire
  <2>1. PICK k \in Kinds : Fails(k) \/ telling' = telling
    BY <1>1 DEF Acquire
  <2>2. UNCHANGED <<tokens, libraryForbidden, scopeMissing, events>> /\ (Clean' => Clean)
    BY <1>1 DEF Acquire, Clean, history
  <2>3. ~libraryForbidden /\ ~scopeMissing => \A m \in Refusals : telling'[EventOf(m)] = telling[EventOf(m)]
    BY <2>1, <2>2, FailsSilently
  <2>4. UNCHANGED <<reload, engine, libraryAvailable, needsLogin>>
    BY <1>1 DEF Acquire, loop, shown
  <2>5. QED
    BY <2>2, <2>3, <2>4, NothingSent, OffersStay
<1>2. CASE Renew
  <2>1. /\ UNCHANGED <<tokens, libraryForbidden, scopeMissing, telling, events>>
        /\ UNCHANGED <<reload, engine, libraryAvailable, needsLogin>>
    BY <1>2 DEF Renew, client, tasks, loop, shown
  <2>2. Clean' => Clean
    BY <1>2, <1>a DEF Renew
  <2>3. QED
    BY <2>1, <2>2, NothingSent, OffersStay
<1>3. CASE Refresh
  <2>1. /\ tokens # None /\ tokens'.refresh.login = tokens.refresh.login
        /\ UNCHANGED <<libraryForbidden, scopeMissing, telling, events>>
        /\ UNCHANGED <<reload, engine, libraryAvailable, needsLogin>>
    BY <1>3, RefreshDoes DEF Refresh, GrantFits, tasks, loop, shown
  <2>2. Clean' => Clean
    BY <1>3, <1>a, RefreshDoes DEF SaveRenewed, FlagsTyped
  <2>3. QED
    BY <2>1, <2>2, NothingSent, OffersStay
<1>4. CASE RefreshFails
  <2>1. /\ UNCHANGED <<tokens, libraryForbidden, scopeMissing, events>>
        /\ UNCHANGED <<reload, engine, libraryAvailable, needsLogin>>
        /\ caller.kind \in Kinds /\ Fails(caller.kind)
    BY <1>4 DEF RefreshFails, client, loop, shown
  <2>2. Clean' => Clean
    BY <1>4, <1>a DEF RefreshFails, ExchangeFails, FlagsTyped
  <2>3. ~libraryForbidden /\ ~scopeMissing => \A m \in Refusals : telling'[EventOf(m)] = telling[EventOf(m)]
    BY <2>1, FailsSilently
  <2>4. QED
    BY <2>1, <2>2, <2>3, NothingSent, OffersStay
<1>5. CASE TellAndLetGo
  <2>1. PICK e \in Events : events' = Append(events, e) /\ e.kind \in {"liked", "devices"}
    BY <1>5 DEF TellAndLetGo, EventOf, DevicesEvent, Events, FlagsTyped, Unsaid
  <2>2. telling' = [m \in Messages |-> telling[m] + 0]
    BY <1>5 DEF TellAndLetGo, LetsGo
  <2>3. telling' \in [Messages -> Nat]
        /\ \A m \in Refusals : telling'[EventOf(m)] <= telling[EventOf(m)]
    BY <2>2 DEF QueuesTyped, Messages
  <2>4. \A m \in Refusals : OnItsWay(m)' => OnItsWay(m)
    BY <2>1, <2>3, SentIsOnItsWay DEF QueuesTyped, CallFits, Refusals
  <2>5. /\ UNCHANGED <<tokens, libraryForbidden, scopeMissing, faults, crossed>>
        /\ UNCHANGED <<reload, engine, libraryAvailable, needsLogin>>
    BY <1>5 DEF TellAndLetGo, client, loop, shown, history
  <2>6. QED
    BY <2>4, <2>5, OffersStay DEF Clean
<1>6. CASE Tell
  <2>1. PICK said \in Messages :
           /\ telling[said] > 0 /\ telling' = [telling EXCEPT ![said] = @ - 1]
           /\ events' = Append(events, said)
    BY <1>6 DEF Tell
  <2>2. said \in Events
    BY DEF Messages, EventOf, DevicesEvent, Events, Unsaid
  <2>3. ASSUME NEW m \in Refusals, OnItsWay(m)' PROVE OnItsWay(m)
    <3>1. CASE said = EventOf(m)
      BY <2>1, <3>1 DEF OnItsWay
    <3>2. CASE said # EventOf(m)
      <4>1. said.kind # m
        BY <3>2 DEF Messages, EventOf, DevicesEvent, Refusals
      <4>2. /\ telling' \in [Messages -> Nat]
            /\ telling'[EventOf(m)] <= telling[EventOf(m)]
        BY <2>1, <3>2 DEF Messages, QueuesTyped
      <4>3. QED
        BY <2>1, <2>2, <2>3, <4>1, <4>2, SentIsOnItsWay DEF QueuesTyped, CallFits
    <3>3. QED
      BY <3>1, <3>2
  <2>4. /\ UNCHANGED <<tokens, libraryForbidden, scopeMissing, faults, crossed>>
        /\ UNCHANGED <<reload, engine, libraryAvailable, needsLogin>>
    BY <1>6 DEF Tell, client, loop, shown, history
  <2>5. QED
    BY <2>3, <2>4, OffersStay DEF Clean
<1>7. CASE Succeed
  <2>1. events' = events /\ Done(caller.kind)
    BY <1>7 DEF Succeed, AnswerFrame
  <2>2. \A m \in Refusals : telling'[EventOf(m)] = telling[EventOf(m)]
    <3> TAKE m \in Refusals
    <3>1. EventOf(m) \in Messages /\ telling[EventOf(m)] \in Nat
      BY DEF Messages, QueuesTyped
    <3>2. ASSUME NEW sent, LetsGo(sent), EventOf(m) \notin sent
          PROVE  telling'[EventOf(m)] = telling[EventOf(m)]
      BY <3>1, <3>2 DEF LetsGo
    <3>3. /\ \A k \in {"liked", "playlists"} : EventOf(m) \notin {EventOf(k)}
          /\ EventOf(m) \notin {DevicesEvent(premium)} /\ EventOf(m) \notin {}
      BY DEF EventOf, DevicesEvent, Refusals
    <3>4. QED
      BY <2>1, <3>2, <3>3 DEF Done
  <2>3. \A m \in Refusals : OnItsWay(m)' => OnItsWay(m)
    BY <2>1, <2>2, NothingSent
  <2>4. /\ UNCHANGED <<tokens, libraryForbidden, scopeMissing, faults, crossed>>
        /\ UNCHANGED <<reload, engine, libraryAvailable, needsLogin>>
    BY <1>7 DEF Succeed, AnswerFrame, loop, shown
  <2>5. QED
    BY <2>3, <2>4, OffersStay DEF Clean
<1>8. CASE Refuse
  <2>1. /\ UNCHANGED <<tokens, events, faults, crossed>>
        /\ UNCHANGED <<reload, engine, libraryAvailable, needsLogin>>
        /\ caller.kind \in Kinds /\ Fails(caller.kind)
    BY <1>8 DEF Refuse, AnswerFrame, loop, shown
  <2>2. ASSUME tokens # None, tokens.refresh.login > 0, ~libraryForbidden, ~scopeMissing
        PROVE  ~libraryForbidden' /\ ~scopeMissing'
    <3>1. caller.kind \in Writes
      BY <1>8, <2>2 DEF Refuse, Refused, ClientTyped, Adoptions, Tokens, Logins
    <3>2. QED
      BY <1>8, <2>2, <3>1 DEF Refuse, Writes
  <2>3. ASSUME ~libraryForbidden', ~scopeMissing' PROVE \A m \in Refusals : telling'[EventOf(m)] = telling[EventOf(m)]
    BY <2>1, <2>3, FailsSilently
  <2>4. QED
    BY <2>1, <2>2, <2>3, NothingSent, OffersStay DEF Clean
<1>9. CASE CallFails
  <2>1. ~Clean' /\ UNCHANGED <<reload, engine, libraryAvailable, needsLogin>>
    BY <1>9 DEF CallFails, Clean, FlagsTyped, loop, shown
  <2>2. QED
    BY <2>1 DEF OffersFollow
<1>10. CASE TooMany
  <2>1. /\ UNCHANGED <<tokens, libraryForbidden, scopeMissing, events>>
        /\ UNCHANGED <<reload, engine, libraryAvailable, needsLogin>>
        /\ caller.kind \in Kinds /\ Fails(caller.kind)
    BY <1>10 DEF TooMany, loop, shown
  <2>2. Clean' => Clean
    BY <1>10, <1>a DEF TooMany
  <2>3. ~libraryForbidden /\ ~scopeMissing => \A m \in Refusals : telling'[EventOf(m)] = telling[EventOf(m)]
    BY <2>1, FailsSilently
  <2>4. QED
    BY <2>1, <2>2, <2>3, NothingSent, OffersStay
<1>11. CASE LoadKeyring
  <2>1. /\ engine = "loading" /\ UNCHANGED <<telling, events>>
        /\ UNCHANGED <<tokens, libraryForbidden, scopeMissing>>
    BY <1>11 DEF LoadKeyring, client
  <2>2. Clean' => Clean
    BY <1>11, <1>a DEF LoadKeyring, Restored, FlagsTyped
  <2>3. CASE Restored
    BY <2>1, <2>2, <2>3, RestoredOffers DEF OffersFollow
  <2>4. CASE engine' = "waiting" /\ UNCHANGED <<reload, needsLogin, libraryAvailable>>
    BY <2>1, <2>2, <2>4 DEF OffersFollow
  <2>5. QED
    BY <1>11, <2>3, <2>4 DEF LoadKeyring
<1>12. CASE TakeClient
  BY <1>12 DEF TakeClient, Sends, Holding, OffersFollow, Clean, Calling, client, service,
     call, tasks, shown, loop, history
<1>13. CASE Restore
  <2>1. /\ engine = "calling" /\ (crossed => crossed') /\ faults' = faults
    BY <1>13, RestoreDoes
  <2>2. UNCHANGED <<telling, events>> /\ ~libraryForbidden' /\ ~scopeMissing'
    BY <1>13 DEF Restore, Forget
  <2>3. CASE Restored
    BY <2>1, <2>2, <2>3, RestoredOffers
  <2>4. CASE UNCHANGED <<loop, needsLogin, libraryAvailable>>
    BY <2>1, <2>2, <2>4 DEF OffersFollow, loop
  <2>5. QED
    BY <1>13, <2>3, <2>4 DEF Restore
<1>14. CASE RestoreFails
  <2>1. /\ engine = "calling" /\ Restored /\ UNCHANGED <<telling, events>>
        /\ UNCHANGED <<tokens, libraryForbidden, scopeMissing>>
    BY <1>14 DEF RestoreFails, EngineRefreshing, Exchanging, CallFits, client
  <2>2. Clean' => Clean
    BY <1>14, <1>a DEF RestoreFails, ExchangeFails, Restored, FlagsTyped
  <2>3. QED
    BY <2>1, <2>2, RestoredOffers DEF OffersFollow
<1>15. CASE CheckPremium
  <2>1. /\ engine = "calling" /\ Restored /\ UNCHANGED <<telling, events>>
        /\ UNCHANGED <<tokens, libraryForbidden, scopeMissing>>
    BY <1>15 DEF CheckPremium, Calling, CallFits
  <2>2. Clean' => Clean
    BY <1>15, <1>a DEF CheckPremium, Restored
  <2>3. QED
    BY <2>1, <2>2, RestoredOffers DEF OffersFollow
<1>16. CASE CheckLimited
  <2>1. /\ engine = "calling" /\ Restored /\ UNCHANGED <<telling, events>>
        /\ UNCHANGED <<tokens, libraryForbidden, scopeMissing>>
    BY <1>16 DEF CheckLimited, Calling, CallFits
  <2>2. Clean' => Clean
    BY <1>16, <1>a DEF CheckLimited, Restored
  <2>3. QED
    BY <2>1, <2>2, RestoredOffers DEF OffersFollow
<1>17. CASE Reload
  BY <1>17 DEF Reload, OffersFollow, Clean, Calling, client, service, call, tasks,
     shown, loop, history
<1>18. CASE Start
  <2>1. /\ UNCHANGED <<tokens, libraryForbidden, scopeMissing, telling, events>>
        /\ UNCHANGED <<reload, engine, libraryAvailable, needsLogin>>
        /\ crossed' = crossed /\ faults' \in {faults, faults + 1}
    BY <1>18 DEF Start, client, tasks, loop, shown, history
  <2>2. QED
    BY <2>1, NothingSent, OffersStay DEF Clean, FlagsTyped
<1>19. CASE Handle
  <2>1. /\ engine = "free" /\ events # <<>> /\ events' = Tail(events)
        /\ needsLogin' = (needsLogin \/ Head(events).kind = "needsLogin")
        /\ libraryAvailable' = (libraryAvailable /\ Head(events).kind # "unavailable")
    BY <1>19 DEF Handle
  <2>2. /\ UNCHANGED <<tokens, libraryForbidden, scopeMissing, crossed, faults>>
        /\ UNCHANGED <<reload, engine, telling>>
    BY <1>19 DEF Handle, client, tasks, loop, history
  <2>3. \A m \in Refusals : ~OnItsWay(m) => ~OnItsWay(m)' /\ Head(events).kind # m
    BY <2>1, <2>2, HandledLeavesTheRest DEF CallFits
  <2>4. QED
    BY <2>1, <2>2, <2>3 DEF OffersFollow, Clean, Refusals
<1>20. CASE Login
  <2>1. /\ UNCHANGED <<tokens, libraryForbidden, scopeMissing, telling, events>>
        /\ UNCHANGED <<reload, engine, libraryAvailable, needsLogin>>
        /\ crossed' = crossed /\ faults' \in {faults, faults + 1}
    BY <1>20 DEF Login, client, tasks, loop, shown, history
  <2>2. QED
    BY <2>1, NothingSent, OffersStay DEF Clean, FlagsTyped
<1>21. CASE Logout
  <2>1. /\ UNCHANGED <<tokens, libraryForbidden, scopeMissing, telling, events>>
        /\ UNCHANGED <<reload, engine, libraryAvailable, needsLogin>>
        /\ crossed' = crossed /\ faults' \in {faults, faults + 1}
    BY <1>21 DEF Logout, client, tasks, loop, shown, history
  <2>2. QED
    BY <2>1, NothingSent, OffersStay DEF Clean, FlagsTyped
<1>22. CASE Tick
  <2>1. /\ UNCHANGED <<tokens, libraryForbidden, scopeMissing, telling, events>>
        /\ UNCHANGED <<reload, engine, libraryAvailable, needsLogin>>
        /\ crossed' = crossed /\ faults' \in {faults, faults + 1}
    BY <1>22 DEF Tick, client, tasks, loop, shown, history
  <2>2. QED
    BY <2>1, NothingSent, OffersStay DEF Clean, FlagsTyped
<1>23. CASE Restart
  BY <1>23 DEF Restart, OffersFollow, Clean, Calling, client, service, call, tasks,
     shown, loop, history
<1>24. CASE UNCHANGED vars
  BY <1>24 DEF vars, OffersFollow, Clean, Calling, client, service, call, tasks,
     shown, loop, history, OnItsWay
<1>25. QED
  BY <1>1, <1>2, <1>3, <1>4, <1>5, <1>6, <1>7, <1>8, <1>9, <1>10, <1>11, <1>12, <1>13, <1>14, <1>15, <1>16, <1>17, <1>18, <1>19, <1>20, <1>21, <1>22, <1>23, <1>24 DEF Next,
     Requests, Spotify, Restoring, Engine, User

LEMMA LInvAlways == Spec => [](IInv /\ LInv)
<1>1. Init => IInv /\ LInv
  <2>1. Init => LoginFollowed /\ AdoptFits /\ MissedFits
    BY DEF Init, LoginFollowed, AdoptFits, MissedFits
  <2>2. Init => OffersFollow
    BY DEF Init, OffersFollow
  <2>3. QED
    BY <2>1, <2>2, InitIInv DEF LInv
<1>2. IInv /\ LInv /\ [Next]_vars => (IInv /\ LInv)'
  BY IInvNext, AdoptStep, MissedStep, FollowStep, OffersStep DEF IInv, TypeOK, LInv
<1>3. QED
  BY <1>1, <1>2, PTL DEF Spec

\* Whatever was asked, refused and renewed meanwhile, a login that was stored is
\* the one the daemon goes on with once `ReloadSpotify` was handled and nothing
\* is under way, and nothing that only the old login lacked is still hidden.
THEOREM LoginTakesEffectAlways == Spec => []LoginTakesEffect
<1>1. IInv /\ LInv => LoginTakesEffect
  <2> SUFFICES ASSUME IInv, LInv, NothingPending, keyring # None,
                      ~crossed, faults = 0
               PROVE  /\ tokens # None /\ tokens.refresh = keyring /\ authorized
                      /\ keyring.login > 0 => libraryAvailable /\ ~needsLogin
    BY DEF LoginTakesEffect
  <2>1. engine = "free" /\ cli = "idle"
    BY DEF NothingPending
  <2>2. tokens # None /\ tokens.refresh = keyring /\ authorized
    BY <2>1 DEF LInv, LoginFollowed, Clean, Adopted
  <2>3. QED
    BY <2>1, <2>2 DEF LInv, OffersFollow, Clean
<1>2. QED
  BY LInvAlways, <1>1, PTL

=============================================================================
