--------------------------- MODULE PlayersProofs ---------------------------
(***************************************************************************)
(* For any players, names, preferences and restriction: the choice among   *)
(* candidates, and that the engine follows a player that is on the bus     *)
(* whenever the configuration allows one that is.                          *)
(***************************************************************************)
EXTENDS Players, FiniteSetTheorems, SequenceTheorems, WellFoundedInduction, TLAPS

LEMMA Least ==
  ASSUME NEW T \in SUBSET Nat, T # {}
  PROVE  \E x \in T : \A y \in T : x <= y
<1> DEFINE Below == {ss \in Nat \X Nat : ss[1] < ss[2]}
<1>1. IsWellFoundedOn(Below, Nat) BY NatLessThanWellFounded DEF OpToRel
<1> HIDE DEF Below
<1>2. PICK x \in T : \A y \in T : ~ (<<y, x>> \in Below) BY <1>1, WFMin
<1>3. \A y \in T : <<y, x>> \in Below <=> y < x BY DEF Below
<1>4. \A y \in T : ~ (y < x) BY <1>2, <1>3
<1>5. x \in T /\ \A y \in T : y \in Nat BY <1>2
<1>6. \A y \in T : x <= y BY <1>4, <1>5
<1> QED BY <1>5, <1>6

-----------------------------------------------------------------------------
(* The choice. *)

\* A name's preference is less than what playing adds.
LEMMA RankBounds ==
  ASSUME NEW n, NEW status
  PROVE  /\ Rank(n, status) \in Nat
         /\ status = "Playing" => Rank(n, status) > Len(Preferred)
         /\ status # "Playing" => Rank(n, status) <= Len(Preferred)
         /\ Rank(n, status) <= 2 * Len(Preferred) + 1
<1> DEFINE entries == {i \in DOMAIN Preferred : Matches(n, Preferred[i])}
           first == CHOOSE i \in entries : \A j \in entries : i <= j
           preference == IF entries = {} THEN 0 ELSE Len(Preferred) + 1 - first
<1>1. Len(Preferred) \in Nat /\ DOMAIN Preferred = 1..Len(Preferred)
  BY PlayersAssumption
<1>2. preference \in 0..Len(Preferred)
  <2>1. CASE entries = {} BY <1>1, <2>1
  <2>2. CASE entries # {}
    <3>1. entries \in SUBSET Nat BY <1>1
    <3>2. \E i \in entries : \A j \in entries : i <= j
      <4> HIDE DEF entries
      <4> QED BY <2>2, <3>1, Least
    <3>3. first \in entries BY <3>2
    <3>4. first \in 1..Len(Preferred) BY <1>1, <3>3
    <3> HIDE DEF first
    <3> QED BY <1>1, <2>2, <3>4
  <2> QED BY <2>1, <2>2
<1>3. Rank(n, status) = preference + IF status = "Playing" THEN Len(Preferred) + 1 ELSE 0
  BY DEF Rank
<1> HIDE DEF preference
<1> QED BY <1>1, <1>2, <1>3

LEMMA Places ==
  ASSUME NEW n \in Names
  PROVE  Place(n) \in Nat /\ NameOrder[Place(n)] = n
<1>1. DOMAIN NameOrder \subseteq Nat BY PlayersAssumption
<1>2. \E i \in DOMAIN NameOrder : NameOrder[i] = n BY DEF Names
<1> QED BY <1>1, <1>2 DEF Place

\* The order of two candidates.
Better(candidates, a, b) ==
    LET ra == Rank(a, candidates[a])
        rb == Rank(b, candidates[b])
    IN  ra > rb \/ (ra = rb /\ Place(a) < Place(b))

LEMMA BestExists ==
  ASSUME NEW candidates, NEW allowed \in SUBSET Names, allowed # {}
  PROVE  \E a \in allowed : \A b \in allowed \ {a} : Better(candidates, a, b)
<1> DEFINE rank(a) == Rank(a, candidates[a])
           most == 2 * Len(Preferred) + 1
<1>1. most \in Nat BY PlayersAssumption
<1>2. \A a \in allowed : rank(a) \in 0..most BY <1>1, RankBounds
<1> HIDE DEF most, rank
<1>3. PICK top \in allowed : \A b \in allowed : rank(b) <= rank(top)
  <2> DEFINE short == {most - rank(a) : a \in allowed}
  <2>1. short \in SUBSET Nat /\ short # {} BY <1>1, <1>2
  <2>2. PICK x \in short : \A y \in short : x <= y
    <3> HIDE DEF short
    <3> QED BY <2>1, Least
  <2>3. PICK a \in allowed : x = most - rank(a) BY <2>2
  <2>4. \A b \in allowed : most - rank(a) <= most - rank(b) BY <2>2, <2>3
  <2> QED BY <1>1, <1>2, <2>3, <2>4
<1> DEFINE equals == {a \in allowed : rank(a) = rank(top)}
<1>4. PICK a \in equals : \A b \in equals : Place(a) <= Place(b)
  <2> DEFINE places == {Place(a) : a \in equals}
  <2>1. \A a \in equals : Place(a) \in Nat BY Places
  <2>2. top \in equals OBVIOUS
  <2>3. places \in SUBSET Nat /\ places # {} BY <2>1, <2>2
  <2>4. PICK x \in places : \A y \in places : x <= y
    <3> HIDE DEF places
    <3> QED BY <2>3, Least
  <2> QED BY <2>4
<1>5. ASSUME NEW b \in allowed \ {a} PROVE Better(candidates, a, b)
  <2>1. rank(b) <= rank(a) BY <1>3, <1>4
  <2>2. rank(a) \in Nat /\ rank(b) \in Nat BY <1>1, <1>2
  <2>3. CASE rank(b) # rank(a)
    <3>1. rank(a) > rank(b) BY <2>1, <2>2, <2>3
    <3> QED BY <3>1 DEF Better, rank
  <2>4. CASE rank(b) = rank(a)
    <3>1. b \in equals BY <1>4, <2>4
    <3>2. Place(a) <= Place(b) BY <1>4, <3>1
    <3>3. Place(a) # Place(b) /\ Place(a) \in Nat /\ Place(b) \in Nat BY Places
    <3>4. Place(a) < Place(b) BY <3>2, <3>3
    <3> QED BY <2>4, <3>4 DEF Better, rank
  <2> QED BY <2>3, <2>4
<1> QED BY <1>4, <1>5

\* Among the candidates the configuration allows, the one chosen is better
\* than every other, and one is chosen whenever there is one; if any of them
\* plays, the chosen one plays.
THEOREM SelectIsBest ==
  ASSUME NEW candidates, DOMAIN candidates \subseteq Names
  PROVE  LET allowed == {n \in DOMAIN candidates : Allowed(n)}
             chosen == Select(candidates)
         IN  IF allowed = {} THEN chosen = NoName
             ELSE /\ chosen \in allowed
                  /\ \A b \in allowed \ {chosen} : Better(candidates, chosen, b)
                  /\ (\E b \in allowed : candidates[b] = "Playing")
                        => candidates[chosen] = "Playing"
<1> DEFINE allowed == {n \in DOMAIN candidates : Allowed(n)}
           chosen == Select(candidates)
<1>1. chosen = IF allowed = {} THEN NoName
               ELSE CHOOSE a \in allowed : \A b \in allowed \ {a} : Better(candidates, a, b)
  BY DEF Select, Better
<1> HIDE DEF chosen
<1>2. CASE allowed = {} BY <1>1, <1>2 DEF chosen
<1>3. CASE allowed # {}
  <2>1. allowed \in SUBSET Names OBVIOUS
  <2>2. \E a \in allowed : \A b \in allowed \ {a} : Better(candidates, a, b)
    <3> HIDE DEF allowed
    <3> QED BY <1>3, <2>1, BestExists
  <2>3. chosen \in allowed /\ \A b \in allowed \ {chosen} : Better(candidates, chosen, b)
    <3> HIDE DEF allowed
    <3> QED BY <1>1, <1>3, <2>2
  <2>4. ASSUME NEW b \in allowed, candidates[b] = "Playing", candidates[chosen] # "Playing"
        PROVE  FALSE
    <3>1. Better(candidates, chosen, b) BY <2>3, <2>4
    <3>2. Rank(chosen, candidates[chosen]) >= Rank(b, candidates[b])
      BY <3>1, RankBounds DEF Better
    <3> QED BY <2>4, <3>2, RankBounds, PlayersAssumption
  <2> QED BY <1>3, <2>3, <2>4 DEF chosen
<1> QED BY <1>2, <1>3
-----------------------------------------------------------------------------
(* Following a player that is there. *)

\* What the loop is in the middle of says what it knows already.
Steps ==
    /\ mode \in {"select", "look", "correct"} => picked = NoName
    /\ mode \in {"select", "correct"} => looked = <<>>
    /\ mode = "attach" => picked \in Names \ {attached}
    /\ mode \in {"refresh", "metadata", "correct"} => attached \in Names
    /\ mode = "metadata" => read \in Statuses

Present == {n \in Names : bus[n].there /\ IsPlayerName(n)}

\* While no change of a name waits to be heard, what the scan has listed is
\* still there, and so is what was chosen of it.
NothingMissed ==
    renamed = 0 =>
        /\ mode \in {"select", "correct"} =>
              IF Eligible = {} THEN attached = NoName ELSE attached \in Eligible
        /\ mode = "look" => unlooked \cup DOMAIN looked = Present
        /\ mode = "attach" => picked \in Eligible
        /\ mode \in {"refresh", "metadata"} => attached \in Eligible

IInv == TypeOK /\ Steps /\ NothingMissed /\ OneWatcher

\* What the actions of the players have in common.
LEMMA WorldKeeps ==
  ASSUME IInv, UNCHANGED <<mode, scan, attached>>
  PROVE  Steps'
BY DEF IInv, Steps, scan

\* A change of a player-name's owner waits to be heard; any other leaves the
\* eligible players as they are.
LEMMA ComingsAreHeard ==
  ASSUME IInv, NEW n \in Names, Tell(n), UNCHANGED <<mode, scan, attached>>,
         \A m \in Names \ {n} : bus'[m].there = bus[m].there
  PROVE  NothingMissed'
<1>1. renamed \in Nat BY DEF IInv, TypeOK
<1>2. CASE IsPlayerName(n)
  <2>1. renamed' # 0 BY <1>1, <1>2 DEF Tell
  <2> QED BY <2>1 DEF NothingMissed
<1>3. CASE ~IsPlayerName(n)
  <2>1. Eligible' = Eligible /\ Present' = Present BY <1>3 DEF Eligible, Present
  <2>2. renamed' = renamed BY <1>3 DEF Tell
  <2> QED BY <2>1, <2>2 DEF IInv, NothingMissed, scan
<1> QED BY <1>2, <1>3

\* The events of the channel.
Events == [status : Statuses \cup {Unsaid}, track : Tracks \cup {Unsaid}]

LEMMA AnnounceTyped ==
  ASSUME events \in Seq(Events), NEW n, NEW e \in Events, Announce(n, e)
  PROVE  events' \in Seq(Events)
BY DEF Announce

LEMMA AbortTyped ==
  ASSUME events \in Seq(Events), NEW n, Abort(n)
  PROVE  events' \in Seq(Events)
<1>1. PICK kept \in 0..Len(events) : events' = SubSeq(events, 1, kept) BY DEF Abort
<1>2. \A i \in 1..kept : events[i] \in Events BY <1>1
<1> QED BY <1>1, <1>2, SubSeqProperties

LEMMA InitIInv == Init => IInv
<1> SUFFICES ASSUME Init PROVE IInv OBVIOUS
<1> USE DEF Init
<1>1. NoPlayer \in [of : Names \cup {NoName}, status : Statuses, track : Tracks \cup {NoTrack}]
  BY DEF NoPlayer, Statuses
<1>2. TypeOK
  <2>1. bus \in [Names -> [there : BOOLEAN, status : Statuses, track : Tracks \cup {NoTrack}]]
    BY DEF Statuses
  <2>2. acts \in 0..MaxActs BY PlayersAssumption
  <2>3. DOMAIN looked = {} OBVIOUS
  <2>4. events \in Seq(Events) OBVIOUS
  <2> QED BY <1>1, <2>1, <2>2, <2>3, <2>4 DEF TypeOK, Events
<1>3. Steps BY DEF Steps
<1>4. Eligible = {} BY DEF Eligible
<1>5. NothingMissed BY <1>4 DEF NothingMissed
<1>6. OneWatcher BY PlayersAssumption DEF OneWatcher
<1> QED BY <1>2, <1>3, <1>5, <1>6 DEF IInv

LEMMA PlayerSteps ==
  ASSUME IInv, NEW n \in Names,
         Arrive(n) \/ Leave(n) \/ PlayPause(n) \/ ChangeTrack(n) \/ Listen(n)
  PROVE  IInv'
<1> USE DEF IInv
<1>1. events \in Seq(Events) BY DEF TypeOK, Events
<1>2. acts \in Nat /\ MaxActs \in Nat BY PlayersAssumption DEF TypeOK
<1>3. (bus' = bus \/ Act) /\ UNCHANGED <<mode, scan, attached, shown>>
  BY DEF Arrive, Leave, PlayPause, ChangeTrack, Listen
<1>4. Steps' BY <1>3, WorldKeeps
<1>5. CASE Arrive(n) \/ Leave(n)
  <2>1. Tell(n) /\ UNCHANGED <<watchers, events>> /\ acts' = acts + 1 /\ acts < MaxActs
    BY <1>5 DEF Arrive, Leave, Act
  <2>2. bus' \in [Names -> [there : BOOLEAN, status : Statuses, track : Tracks \cup {NoTrack}]]
    <3>1. CASE Arrive(n) BY <3>1 DEF Arrive, TypeOK
    <3>2. CASE Leave(n) BY <3>2 DEF Leave, TypeOK, Statuses
    <3> QED BY <1>5, <3>1, <3>2
  <2>3. renamed' \in Nat BY <2>1 DEF Tell, TypeOK
  <2>4. TypeOK' BY <1>2, <1>3, <2>1, <2>2, <2>3 DEF TypeOK, scan
  <2>5. \A m \in Names \ {n} : bus'[m].there = bus[m].there
    BY <1>5 DEF Arrive, Leave, TypeOK
  <2>6. NothingMissed' BY <1>3, <2>1, <2>5, ComingsAreHeard
  <2>7. OneWatcher' BY <1>3, <2>1 DEF OneWatcher, scan
  <2> QED BY <1>4, <2>4, <2>6, <2>7
<1>6. CASE PlayPause(n) \/ ChangeTrack(n)
  <2>1. UNCHANGED <<watchers, renamed>> /\ acts' = acts + 1 /\ acts < MaxActs
    BY <1>6 DEF PlayPause, ChangeTrack, Act
  <2>2. bus' \in [Names -> [there : BOOLEAN, status : Statuses, track : Tracks \cup {NoTrack}]]
        /\ \A m \in Names : bus'[m].there = bus[m].there
    <3>1. CASE PlayPause(n) BY <3>1 DEF PlayPause, TypeOK
    <3>2. CASE ChangeTrack(n) BY <3>2 DEF ChangeTrack, TypeOK
    <3> QED BY <1>6, <3>1, <3>2
  <2>3. events' \in Seq(Events)
    <3>1. CASE PlayPause(n)
      <4>1. PICK status \in Statuses : Announce(n, [status |-> status, track |-> Unsaid])
        BY <3>1 DEF PlayPause
      <4>2. [status |-> status, track |-> Unsaid] \in Events BY DEF Events
      <4> QED BY <1>1, <4>1, <4>2, AnnounceTyped
    <3>2. CASE ChangeTrack(n)
      <4>1. PICK track \in Tracks : Announce(n, [status |-> Unsaid, track |-> track])
        BY <3>2 DEF ChangeTrack
      <4>2. [status |-> Unsaid, track |-> track] \in Events BY DEF Events
      <4> QED BY <1>1, <4>1, <4>2, AnnounceTyped
    <3> QED BY <1>6, <3>1, <3>2
  <2>4. TypeOK' BY <1>2, <1>3, <2>1, <2>2, <2>3 DEF TypeOK, scan, Events
  <2>5. Eligible' = Eligible /\ Present' = Present BY <2>2 DEF Eligible, Present
  <2>6. NothingMissed' BY <1>3, <2>1, <2>5 DEF NothingMissed, scan
  <2>7. OneWatcher' BY <1>3, <2>1 DEF OneWatcher, scan
  <2> QED BY <1>4, <2>4, <2>6, <2>7
<1>7. CASE Listen(n)
  <2>1. UNCHANGED <<bus, renamed, events, acts>>
        /\ watchers' = [watchers EXCEPT ![n] = "listening"] /\ watchers[n] = "starting"
    BY <1>7 DEF Listen
  <2>2. TypeOK' BY <1>3, <2>1 DEF TypeOK, scan
  <2>3. Eligible' = Eligible /\ Present' = Present BY <2>1 DEF Eligible, Present
  <2>4. NothingMissed' BY <1>3, <2>1, <2>3 DEF NothingMissed, scan
  <2>5. OneWatcher' BY <1>3, <2>1 DEF OneWatcher, TypeOK, scan
  <2> QED BY <1>4, <2>2, <2>4, <2>5
<1> QED BY <1>5, <1>6, <1>7

\* A step that neither the players nor the bus take part in.
LEMMA SameBus ==
  ASSUME UNCHANGED bus
  PROVE  Eligible' = Eligible /\ Present' = Present
BY DEF Eligible, Present

LEMMA ScanSteps ==
  ASSUME IInv, Rescan \/ Look
  PROVE  IInv'
<1> USE DEF IInv
<1>1. Eligible' = Eligible /\ Present' = Present BY SameBus DEF Rescan, Look
<1>2. CASE Rescan
  <2>1. TypeOK' BY <1>2 DEF Rescan, TypeOK
  <2>2. Steps' BY <1>2 DEF Rescan, Steps
  <2>3. unlooked' = Present /\ DOMAIN looked' = {} BY <1>2 DEF Rescan, Steps, Present
  <2>4. NothingMissed' BY <1>1, <1>2, <2>3 DEF Rescan, NothingMissed
  <2>5. OneWatcher' BY <1>2 DEF Rescan, OneWatcher
  <2> QED BY <2>1, <2>2, <2>4, <2>5
<1>3. CASE Look
  <2>1. PICK n \in unlooked :
            unlooked' = unlooked \ {n} /\ DOMAIN looked' = DOMAIN looked \cup {n}
    BY <1>3 DEF Look
  <2>2. n \in Names BY <2>1 DEF TypeOK
  <2>3. TypeOK' BY <1>3, <2>1, <2>2 DEF Look, TypeOK
  <2>4. Steps' BY <1>3 DEF Look, Steps
  <2>5. unlooked' \cup DOMAIN looked' = unlooked \cup DOMAIN looked BY <2>1
  <2>6. NothingMissed' BY <1>1, <1>3, <2>5 DEF Look, NothingMissed
  <2>7. OneWatcher' BY <1>3 DEF Look, OneWatcher
  <2> QED BY <2>3, <2>4, <2>6, <2>7
<1> QED BY <1>2, <1>3

LEMMA ChooseStep ==
  ASSUME IInv, Choose
  PROVE  IInv'
<1> USE DEF IInv
<1> DEFINE allowed == {n \in DOMAIN looked : Allowed(n)}
<1>1. Eligible' = Eligible /\ Present' = Present BY SameBus DEF Choose
<1>2. events \in Seq(Events) BY DEF TypeOK, Events
<1>3. mode = "look" /\ unlooked = {} /\ DOMAIN looked \subseteq Names /\ picked = NoName
  BY DEF Choose, TypeOK, Steps
<1>4. IF allowed = {} THEN Select(looked) = NoName ELSE Select(looked) \in allowed
  BY <1>3, SelectIsBest
<1>5. renamed = 0 => allowed = Eligible
  <2>1. SUFFICES ASSUME renamed = 0 PROVE allowed = Eligible OBVIOUS
  <2>2. DOMAIN looked = Present BY <1>3, <2>1 DEF NothingMissed
  <2> QED BY <2>2 DEF Present, Eligible
<1>6. allowed \subseteq Names BY <1>3
<1>7. NoName \notin Names BY PlayersAssumption
<1> HIDE DEF allowed
<1>8. CASE Select(looked) = NoName /\ Detach /\ Rescanned
  <2>1. allowed = {} BY <1>4, <1>6, <1>7, <1>8
  <2>2. mode' = "select" /\ attached' = NoName /\ picked' = NoName /\ looked' = <<>>
        /\ unlooked' = {} /\ read' = NoRead /\ UNCHANGED <<renamed, bus, acts>>
        /\ shown' = NoPlayer
    BY <1>8 DEF Rescanned, Detach, Choose
  <2>3. events' \in Seq(Events)
    BY <1>2, <1>8, AbortTyped DEF Detach
  <2>4. watchers' = IF attached = NoName THEN watchers ELSE [watchers EXCEPT ![attached] = "none"]
    BY <1>8 DEF Detach
  <2>5. NoPlayer \in [of : Names \cup {NoName}, status : Statuses, track : Tracks \cup {NoTrack}]
    BY DEF NoPlayer, Statuses
  <2>6. TypeOK'
    <3>1. watchers' \in [Names -> {"none", "starting", "listening"}] BY <2>4 DEF TypeOK
    <3>2. DOMAIN looked' = {} BY <2>2
    <3> QED BY <2>2, <2>3, <2>5, <3>1, <3>2 DEF TypeOK, Events
  <2>7. Steps' BY <2>2 DEF Steps
  <2>8. NothingMissed' BY <1>1, <1>5, <2>1, <2>2 DEF NothingMissed
  <2>9. OneWatcher' BY <1>3, <1>7, <2>2, <2>4 DEF OneWatcher, TypeOK
  <2> QED BY <2>6, <2>7, <2>8, <2>9
<1>9. CASE /\ Select(looked) # NoName /\ Select(looked) = attached
           /\ mode' = "refresh"
           /\ UNCHANGED <<renamed, watchers, events, scan, attached, shown>>
  <2>1. attached \in allowed BY <1>4, <1>9
  <2>2. UNCHANGED <<bus, acts>> BY DEF Choose
  <2>3. TypeOK' BY <1>9, <2>2 DEF TypeOK, scan
  <2>4. Steps' BY <1>6, <1>9, <2>1 DEF Steps, scan
  <2>5. NothingMissed' BY <1>1, <1>5, <1>9, <2>1 DEF NothingMissed
  <2>6. OneWatcher' BY <1>3, <1>9 DEF OneWatcher
  <2> QED BY <2>3, <2>4, <2>5, <2>6
<1>10. CASE /\ Select(looked) \notin {NoName, attached}
            /\ mode' = "attach" /\ picked' = Select(looked)
            /\ watchers' = [watchers EXCEPT ![Select(looked)] = "starting"]
            /\ UNCHANGED <<renamed, events, unlooked, looked, read, attached, shown>>
  <2>1. picked' \in allowed /\ picked' \in Names BY <1>4, <1>6, <1>10
  <2>2. UNCHANGED <<bus, acts>> BY DEF Choose
  <2>3. TypeOK' BY <1>10, <2>1, <2>2 DEF TypeOK
  <2>4. Steps' BY <1>10, <2>1 DEF Steps
  <2>5. NothingMissed' BY <1>1, <1>5, <1>10, <2>1 DEF NothingMissed
  <2>6. OneWatcher' BY <1>3, <1>10, <2>1 DEF OneWatcher, TypeOK
  <2> QED BY <2>3, <2>4, <2>5, <2>6
<1> QED BY <1>8, <1>9, <1>10 DEF Choose

LEMMA AttachStep ==
  ASSUME IInv, Attach
  PROVE  IInv'
<1> USE DEF IInv
<1>1. Eligible' = Eligible /\ Present' = Present BY SameBus DEF Attach
<1>2. picked \in Names \ {attached} BY DEF Attach, Steps
<1>3. events' \in Seq(Events)
  <2>1. events \in Seq(Events) BY DEF TypeOK, Events
  <2> QED BY <2>1, AbortTyped DEF Attach
<1>4. watchers' = IF attached = NoName THEN watchers ELSE [watchers EXCEPT ![attached] = "none"]
  BY DEF Attach
<1>5. shown' \in [of : Names \cup {NoName}, status : Statuses, track : Tracks \cup {NoTrack}]
  BY <1>2 DEF Attach, NoPlayer, Statuses
<1>6. TypeOK'
  <2>1. watchers' \in [Names -> {"none", "starting", "listening"}] BY <1>4 DEF TypeOK
  <2> QED BY <1>2, <1>3, <1>5, <2>1 DEF Attach, TypeOK, Events, scan
<1>7. Steps' BY <1>2 DEF Attach, Steps, scan
<1>8. NothingMissed' BY <1>1 DEF Attach, NothingMissed, scan
<1>9. OneWatcher'
  <2>1. NoName \notin Names BY PlayersAssumption
  <2> QED BY <1>2, <1>4, <2>1 DEF Attach, OneWatcher, TypeOK
<1> QED BY <1>6, <1>7, <1>8, <1>9

LEMMA ReadingSteps ==
  ASSUME IInv, ReadStatus \/ Refresh
  PROVE  IInv'
<1> USE DEF IInv
<1>1. Eligible' = Eligible /\ Present' = Present BY SameBus DEF ReadStatus, Refresh
<1>2. attached \in Names BY DEF ReadStatus, Refresh, Steps
<1>3. CASE ReadStatus
  <2>1. read' \in Statuses BY <1>2, <1>3 DEF ReadStatus, TypeOK
  <2>2. TypeOK' BY <1>3, <2>1 DEF ReadStatus, TypeOK
  <2>3. Steps' BY <1>2, <1>3, <2>1 DEF ReadStatus, Steps
  <2>4. NothingMissed' BY <1>1, <1>3 DEF ReadStatus, NothingMissed
  <2>5. OneWatcher' BY <1>3 DEF ReadStatus, OneWatcher
  <2> QED BY <2>2, <2>3, <2>4, <2>5
<1>4. CASE Refresh
  <2>1. shown' \in [of : Names \cup {NoName}, status : Statuses, track : Tracks \cup {NoTrack}]
    BY <1>2, <1>4 DEF Refresh, TypeOK, Steps
  <2>2. TypeOK'
    <3>1. DOMAIN looked' = {} BY <1>4 DEF Refresh, Rescanned
    <3> QED BY <1>4, <2>1, <3>1 DEF Refresh, Rescanned, TypeOK
  <2>3. Steps' BY <1>4 DEF Refresh, Rescanned, Steps
  <2>4. NothingMissed' BY <1>1, <1>4 DEF Refresh, Rescanned, NothingMissed
  <2>5. OneWatcher' BY <1>4 DEF Refresh, Rescanned, OneWatcher
  <2> QED BY <2>2, <2>3, <2>4, <2>5
<1> QED BY <1>3, <1>4

LEMMA SelectSteps ==
  ASSUME IInv, Apply \/ Tick \/ RefreshStatus
  PROVE  IInv'
<1> USE DEF IInv
<1>1. Eligible' = Eligible /\ Present' = Present BY SameBus DEF Apply, Tick, RefreshStatus
<1>2. NoName \notin Names BY PlayersAssumption
<1>3. CASE Apply
  <2> DEFINE e == Head(events)
  <2>1. e \in Events /\ events' \in Seq(Events)
    BY <1>3, HeadTailProperties DEF Apply, TypeOK, Events
  <2>2. mode = "select" /\ mode' \in {"select", "correct"}
        /\ (mode' = "correct" => attached # NoName)
        /\ UNCHANGED <<bus, renamed, watchers, scan, attached, acts>>
    BY <1>3 DEF Apply
  <2>3. shown' \in [of : Names \cup {NoName}, status : Statuses, track : Tracks \cup {NoTrack}]
    <3>1. e.status \in Statuses \cup {Unsaid} /\ e.track \in Tracks \cup {Unsaid}
      BY <2>1 DEF Events
    <3>2. shown' = IF shown.of = NoName THEN shown
                   ELSE [shown EXCEPT !.status = IF e.status = Unsaid THEN @ ELSE e.status,
                                      !.track = IF e.track = Unsaid THEN @ ELSE e.track]
      BY <1>3 DEF Apply
    <3> HIDE DEF e
    <3> QED BY <3>1, <3>2 DEF TypeOK
  <2>4. TypeOK' BY <2>1, <2>2, <2>3 DEF TypeOK, Events, scan
  <2>5. Steps' BY <2>2 DEF Steps, TypeOK, scan
  <2>6. NothingMissed' BY <1>1, <2>2 DEF NothingMissed
  <2>7. OneWatcher' BY <2>2 DEF OneWatcher
  <2> QED BY <2>4, <2>5, <2>6, <2>7
<1>4. CASE Tick
  <2>1. TypeOK' BY <1>4 DEF Tick, TypeOK, scan
  <2>2. Steps' BY <1>4 DEF Tick, Steps, TypeOK, scan
  <2>3. NothingMissed' BY <1>1, <1>4 DEF Tick, NothingMissed
  <2>4. OneWatcher' BY <1>4 DEF Tick, OneWatcher
  <2> QED BY <2>1, <2>2, <2>3, <2>4
<1>5. CASE RefreshStatus
  <2>1. attached \in Names BY <1>5 DEF RefreshStatus, Steps
  <2>2. TypeOK' BY <1>5, <2>1 DEF RefreshStatus, TypeOK, scan
  <2>3. Steps' BY <1>5 DEF RefreshStatus, Steps, scan
  <2>4. NothingMissed' BY <1>1, <1>5 DEF RefreshStatus, NothingMissed
  <2>5. OneWatcher' BY <1>5 DEF RefreshStatus, OneWatcher
  <2> QED BY <2>2, <2>3, <2>4, <2>5
<1> QED BY <1>3, <1>4, <1>5

LEMMA NextIInv == IInv /\ [Next]_vars => IInv'
<1> SUFFICES ASSUME IInv, [Next]_vars PROVE IInv' OBVIOUS
<1>1. ASSUME NEW n \in Names,
             Arrive(n) \/ Leave(n) \/ PlayPause(n) \/ ChangeTrack(n) \/ Listen(n)
      PROVE  IInv'
  BY <1>1, PlayerSteps
<1>2. CASE Engine
  BY <1>2, ScanSteps, ChooseStep, AttachStep, ReadingSteps, SelectSteps DEF Engine
<1>3. CASE Tick BY <1>3, SelectSteps
<1>4. CASE UNCHANGED vars
  <2>1. Eligible' = Eligible /\ Present' = Present BY <1>4, SameBus DEF vars
  <2> QED BY <1>4, <2>1 DEF vars, scan, IInv, TypeOK, Steps, NothingMissed, OneWatcher
<1> QED BY <1>1, <1>2, <1>3, <1>4 DEF Next

-----------------------------------------------------------------------------
(* The theorems. *)

LEMMA IInvAlways == Spec => []IInv
BY InitIInv, NextIInv, PTL DEF Spec

\* Every variable has its type.
THEOREM TypeAlways == Spec => []TypeOK
<1>1. IInv => TypeOK BY DEF IInv
<1> QED BY <1>1, IInvAlways, PTL

\* When the loop has served every change of a name it has been told of, the
\* engine follows an allowed player that is on the bus, or none when there is
\* none, whatever came and went while it asked them one after the other.
THEOREM FollowsOneThatIsThereAlways == Spec => []FollowsOneThatIsThere
<1>1. IInv => FollowsOneThatIsThere
  BY DEF IInv, NothingMissed, FollowsOneThatIsThere
<1> QED BY <1>1, IInvAlways, PTL

\* The followed player has a watcher, as has one about to be followed, and no
\* other player has: every Attached that is dropped aborts its task.
THEOREM OneWatcherAlways == Spec => []OneWatcher
<1>1. IInv => OneWatcher BY DEF IInv
<1> QED BY <1>1, IInvAlways, PTL
=============================================================================
