---------------------------- MODULE WorkersProofs ----------------------------
(***************************************************************************)
(* The work beside the loop.  For any lookups, fetches, lifetimes and      *)
(* bounds: no lookup is told of a miss that has expired, and no fetch      *)
(* finds an image that is not whole, as far as the caches keep that.  For  *)
(* any players, streams and bounds: the volume the audio thread reports is *)
(* the attached player's, and the last drag of the slider is what counts.  *)
(***************************************************************************)
EXTENDS ArtCache, LyricsCache, Volume, FiniteSetTheorems, SequenceTheorems, TLAPS

(* The lyrics. *)

Steps == {"exact", "search", "plain"}
AtPlaces == Steps \cup {"idle", "reading", "checking", "saving", "writing"}
Lookup == [at : AtPlaces, found : Answers, overtaken : BOOLEAN]

LyricsTyped ==
    /\ now \in 0..MaxTime /\ uploaded \in 0..Never
    /\ asks \in {<<"search">>, <<"exact", "search">>, <<"search", "plain">>,
                 <<"exact", "search", "plain">>}
    /\ filed \subseteq ToSet(asks) /\ filed # {}
    /\ entry \in [is : {"none", "torn", "hit", "miss"}, since : 0..MaxTime]
    /\ lookup \in [Lookups -> Lookup]
    /\ told \in [is : Answers, at : 0..MaxTime, overtaken : BOOLEAN]
    /\ refused \in BOOLEAN

\* Nothing was told, cached or uploaded in the future.
Past ==
    /\ told.at <= now /\ entry.since <= now
    /\ uploaded # Never => uploaded <= now

\* A miss in the cache is older than the lyrics.
CachedBefore ==
    uploaded # Never /\ ~refused /\ entry.is = "miss" => entry.since <= uploaded

\* A task that asks when the lyrics are there comes to the request that finds them.
AskedAfter ==
    uploaded < now /\ ~refused =>
        \A t \in Lookups :
           /\ \A i \in DOMAIN asks : lookup[t].at = asks[i] =>
                 \A j \in DOMAIN asks : j < i => asks[j] \notin filed
           /\ lookup[t].at \in {"saving", "writing"} => lookup[t].found = "hit"

\* What a task is about to judge the age of is the miss it read, unless it was
\* overtaken.
ReadUnchanged ==
    \A t \in Lookups :
       lookup[t].at = "checking" /\ ~lookup[t].overtaken => entry.is = "miss"

MissInv ==
    LyricsTyped /\ Past /\ CachedBefore /\ AskedAfter /\ ReadUnchanged /\ MissesExpire

LEMMA Times == MissLifetime \in Nat /\ MaxTime \in Nat /\ Never \in Nat /\ MaxTime < Never
BY LyricsCacheAssumption DEF Never

\* No request is made twice.
LEMMA AsksDiffer ==
  ASSUME LyricsTyped
  PROVE  /\ Len(asks) \in 1..3 /\ DOMAIN asks = 1..Len(asks) /\ Head(asks) = asks[1]
         /\ ToSet(asks) = {asks[i] : i \in DOMAIN asks} /\ ToSet(asks) \subseteq Steps
         /\ \A i, j \in DOMAIN asks : asks[i] = asks[j] => i = j
<1>1. CASE asks = <<"search">>
  BY <1>1 DEF ToSet, Steps
<1>2. CASE asks = <<"exact", "search">>
  BY <1>2 DEF ToSet, Steps
<1>3. CASE asks = <<"search", "plain">>
  BY <1>3 DEF ToSet, Steps
<1>4. CASE asks = <<"exact", "search", "plain">>
  BY <1>4 DEF ToSet, Steps
<1>5. QED
  BY <1>1, <1>2, <1>3, <1>4 DEF LyricsTyped

\* A request that finds nothing leads to the next, or to a miss after the last.
LEMMA ContinuesDoes ==
  ASSUME LyricsTyped, NEW t \in Lookups, lookup[t].at \in ToSet(asks), Continues(t)
  PROVE  \E i \in DOMAIN asks :
            /\ lookup[t].at = asks[i]
            /\ \/ i + 1 \in DOMAIN asks /\ Moves(t, asks[i + 1])
               \/ /\ i = Len(asks)
                  /\ lookup' = [lookup EXCEPT ![t] = Being("saving", "miss")]
<1> DEFINE step == CHOOSE i \in DOMAIN asks : asks[i] = lookup[t].at
<1>1. step \in DOMAIN asks /\ asks[step] = lookup[t].at
  BY AsksDiffer
<1>2. \/ step < Len(asks) /\ Moves(t, asks[step + 1])
      \/ ~(step < Len(asks)) /\ lookup' = [lookup EXCEPT ![t] = Being("saving", "miss")]
  BY DEF Continues
<1> HIDE DEF step
<1>3. QED
  BY <1>1, <1>2, AsksDiffer

\* A task that goes on goes there, and what the others know is what they knew, or
\* that they were overtaken.
LEMMA MovesDoes ==
  ASSUME LyricsTyped, NEW t \in Lookups, NEW place \in AtPlaces,
         Moves(t, place) \/ MovesOver(t, place)
  PROVE  /\ lookup' \in [Lookups -> Lookup]
         /\ lookup'[t].at = place /\ lookup'[t].found = lookup[t].found
         /\ \A u \in Lookups \ {t} :
               /\ lookup'[u].at = lookup[u].at /\ lookup'[u].found = lookup[u].found
               /\ lookup[u].overtaken => lookup'[u].overtaken
<1>1. lookup[t] \in Lookup /\ \A u \in Lookups : lookup[u] \in Lookup
  BY DEF LyricsTyped
<1>2. CASE Moves(t, place)
  <2>1. Being(place, lookup[t].found) \in Lookup
    BY <1>1 DEF Being, Lookup
  <2>2. QED
    BY <1>2, <2>1 DEF Moves, Being, LyricsTyped
<1>3. CASE MovesOver(t, place)
  <2>1. lookup'[t] = Being(place, lookup[t].found)
    BY <1>3 DEF MovesOver
  <2>2. \A u \in Lookups \ {t} :
           \/ lookup'[u] = lookup[u]
           \/ lookup'[u] = [lookup[u] EXCEPT !.overtaken = TRUE]
    BY <1>3 DEF MovesOver
  <2>3. \A u \in Lookups : lookup'[u] \in Lookup
    <3>1. \A r \in Lookup : [r EXCEPT !.overtaken = TRUE] \in Lookup
      BY DEF Lookup
    <3>2. Being(place, lookup[t].found) \in Lookup
      BY <1>1 DEF Being, Lookup
    <3>3. QED
      BY <1>1, <2>1, <2>2, <3>1, <3>2
  <2>4. lookup' \in [Lookups -> Lookup]
    BY <1>3, <2>3 DEF MovesOver
  <2>5. \A u \in Lookups \ {t} :
           /\ lookup'[u].at = lookup[u].at /\ lookup'[u].found = lookup[u].found
           /\ lookup[u].overtaken => lookup'[u].overtaken
    BY <1>1, <2>2 DEF Lookup
  <2>6. QED
    BY <2>1, <2>4, <2>5 DEF Being
<1>4. QED
  BY <1>2, <1>3

\* A task that is to write what it found.
LEMMA SavesDoes ==
  ASSUME LyricsTyped, NEW t \in Lookups, NEW found \in Answers,
         lookup' = [lookup EXCEPT ![t] = Being("saving", found)]
  PROVE  /\ lookup' \in [Lookups -> Lookup]
         /\ lookup'[t].at = "saving" /\ lookup'[t].found = found
         /\ \A u \in Lookups \ {t} : lookup'[u] = lookup[u]
BY DEF LyricsTyped, Being, Lookup, AtPlaces

\* What a request of lrclib leads to.
LEMMA RespondDoes ==
  ASSUME LyricsTyped, NEW t \in Lookups, Respond(t)
  PROVE  /\ UNCHANGED <<now, asks, filed, uploaded, entry, told>>
         /\ refused' \in BOOLEAN /\ (refused => refused')
         /\ lookup[t].at \in ToSet(asks)
         /\ \/ lookup' = [lookup EXCEPT ![t] = Being("saving", "hit")]
            \/ /\ uploaded = Never \/ lookup[t].at \notin filed \/ refused'
               /\ Continues(t)
            \/ Moves(t, "idle")
<1>1. UNCHANGED <<now, asks, filed, uploaded, entry, told>> /\ lookup[t].at \in ToSet(asks)
  BY DEF Respond
<1>2. refused' = refused \/ refused' = TRUE
  BY DEF Respond
<1>3. \/ lookup' = [lookup EXCEPT ![t] = Being("saving", "hit")]
      \/ /\ uploaded = Never \/ lookup[t].at \notin filed \/ refused'
         /\ Continues(t)
      \/ Moves(t, "idle")
  BY DEF Respond
<1>4. QED
  BY <1>1, <1>2, <1>3 DEF LyricsTyped

LEMMA LyricsTypeStep == LyricsTyped /\ Past /\ [LyricsNext]_lyricsVars => LyricsTyped'
<1> SUFFICES ASSUME LyricsTyped, Past, [LyricsNext]_lyricsVars PROVE LyricsTyped'
  OBVIOUS
<1>1. ASSUME UNCHANGED <<asks, filed>>, lookup' \in [Lookups -> Lookup],
             now' \in 0..MaxTime, uploaded' \in 0..Never, refused' \in BOOLEAN,
             entry' \in [is : {"none", "torn", "hit", "miss"}, since : 0..MaxTime],
             told' \in [is : Answers, at : 0..MaxTime, overtaken : BOOLEAN]
      PROVE  LyricsTyped'
  BY <1>1 DEF LyricsTyped
<1>2. Head(asks) \in Steps /\ Steps \subseteq AtPlaces
      /\ {"idle", "reading", "checking", "saving", "writing"} \subseteq AtPlaces
  BY DEF LyricsTyped, Steps, AtPlaces
<1>3. \A t \in Lookups : lookup[t].found \in Answers /\ lookup[t].overtaken \in BOOLEAN
  BY DEF LyricsTyped, Lookup
<1>4. ASSUME NEW t \in Lookups, NEW answer \in Answers, Tells(t, answer)
      PROVE  told' \in [is : Answers, at : 0..MaxTime, overtaken : BOOLEAN]
  BY <1>3, <1>4 DEF Tells, LyricsTyped
<1>5. ASSUME NEW t \in Lookups, StartLookup(t) PROVE LyricsTyped'
  BY <1>1, <1>2, <1>5, MovesDoes DEF StartLookup, LyricsTyped
<1>6. ASSUME NEW t \in Lookups, ReadCache(t) PROVE LyricsTyped'
  <2>1. UNCHANGED <<now, asks, filed, uploaded, entry, refused>>
    BY <1>6 DEF ReadCache
  <2>2. lookup' \in [Lookups -> Lookup]
    BY <1>2, <1>6, MovesDoes DEF ReadCache
  <2>3. told' \in [is : Answers, at : 0..MaxTime, overtaken : BOOLEAN]
    BY <1>4, <1>6 DEF ReadCache, Answers, LyricsTyped
  <2>4. QED
    BY <1>1, <2>1, <2>2, <2>3 DEF LyricsTyped
<1>7. ASSUME NEW t \in Lookups, CheckAge(t) PROVE LyricsTyped'
  <2>1. UNCHANGED <<now, asks, filed, uploaded, entry, refused>>
    BY <1>7 DEF CheckAge
  <2>2. lookup' \in [Lookups -> Lookup]
    BY <1>2, <1>7, MovesDoes DEF CheckAge
  <2>3. told' \in [is : Answers, at : 0..MaxTime, overtaken : BOOLEAN]
    BY <1>4, <1>7 DEF CheckAge, Answers, LyricsTyped
  <2>4. QED
    BY <1>1, <2>1, <2>2, <2>3 DEF LyricsTyped
<1>8. ASSUME NEW t \in Lookups, Respond(t) PROVE LyricsTyped'
  <2>1. UNCHANGED <<now, asks, filed, uploaded, entry, told>> /\ refused' \in BOOLEAN
    BY <1>8, RespondDoes
  <2>2. lookup' \in [Lookups -> Lookup]
    <3>1. CASE Continues(t)
      <4>1. PICK i \in DOMAIN asks :
               \/ i + 1 \in DOMAIN asks /\ Moves(t, asks[i + 1])
               \/ lookup' = [lookup EXCEPT ![t] = Being("saving", "miss")]
        BY <1>8, <3>1, ContinuesDoes, RespondDoes
      <4>2. i + 1 \in DOMAIN asks => asks[i + 1] \in AtPlaces
        BY <1>2, AsksDiffer
      <4>3. QED
        BY <4>1, <4>2, MovesDoes, SavesDoes DEF Answers
    <3>2. QED
      BY <1>2, <1>8, <3>1, RespondDoes, MovesDoes, SavesDoes DEF Answers
  <2>3. QED
    BY <1>1, <2>1, <2>2 DEF LyricsTyped
<1>9. ASSUME NEW t \in Lookups, OpenEntry(t) \/ WriteEntry(t) PROVE LyricsTyped'
  <2>1. UNCHANGED <<now, asks, filed, uploaded, refused>>
    BY <1>9 DEF OpenEntry, WriteEntry
  <2>2. lookup' \in [Lookups -> Lookup]
    BY <1>2, <1>9, MovesDoes DEF OpenEntry, WriteEntry
  <2>3. told' \in [is : Answers, at : 0..MaxTime, overtaken : BOOLEAN]
    BY <1>3, <1>4, <1>9 DEF OpenEntry, WriteEntry, LyricsTyped
  <2>4. entry' \in [is : {"none", "torn", "hit", "miss"}, since : 0..MaxTime]
    BY <1>3, <1>9 DEF OpenEntry, WriteEntry, LyricsTyped, Answers
  <2>5. QED
    BY <1>1, <2>1, <2>2, <2>3, <2>4 DEF LyricsTyped
<1>10. CASE Upload
  BY <1>10, Times DEF Upload, LyricsTyped
<1>11. CASE Pass
  BY <1>11, Times DEF Pass, LyricsTyped
<1>12. CASE DaemonEnds
  BY <1>12 DEF DaemonEnds, LyricsTyped, Idle, Being, Lookup, AtPlaces, Answers
<1>13. CASE UNCHANGED lyricsVars
  BY <1>13 DEF lyricsVars, LyricsTyped
<1>14. QED
  BY <1>5, <1>6, <1>7, <1>8, <1>9, <1>10, <1>11, <1>12, <1>13 DEF LyricsNext

\* Whoever changes the file overtakes those about to look at its age.
LEMMA UnchangedStep == MissInv /\ [LyricsNext]_lyricsVars => ReadUnchanged'
<1> SUFFICES ASSUME LyricsTyped, ReadUnchanged, [LyricsNext]_lyricsVars, NEW u \in Lookups,
                    lookup'[u].at = "checking", ~lookup'[u].overtaken
             PROVE  entry'.is = "miss"
  BY DEF MissInv, ReadUnchanged
<1>1. ASSUME entry' = entry, lookup'[u].at = lookup[u].at,
             lookup[u].overtaken => lookup'[u].overtaken
      PROVE  entry'.is = "miss"
  BY <1>1 DEF ReadUnchanged
<1>2. {"idle", "reading", "checking", "saving", "writing"} \subseteq AtPlaces
      /\ Steps \subseteq AtPlaces /\ "checking" \notin Steps /\ Head(asks) \in Steps
  BY DEF LyricsTyped, Steps, AtPlaces
<1>3. ASSUME NEW t \in Lookups, NEW place \in AtPlaces \ {"checking"}, Moves(t, place),
             entry' = entry
      PROVE  entry'.is = "miss"
  BY <1>1, <1>3, MovesDoes
<1>4. ASSUME NEW t \in Lookups, StartLookup(t) PROVE entry'.is = "miss"
  BY <1>2, <1>3, <1>4 DEF StartLookup
<1>5. ASSUME NEW t \in Lookups, ReadCache(t) PROVE entry'.is = "miss"
  <2>1. CASE entry.is = "miss"
    BY <1>5, <2>1 DEF ReadCache
  <2>2. CASE entry.is # "miss"
    BY <1>2, <1>3, <1>5, <2>2 DEF ReadCache
  <2>3. QED
    BY <2>1, <2>2
<1>6. ASSUME NEW t \in Lookups, CheckAge(t) PROVE entry'.is = "miss"
  BY <1>2, <1>3, <1>6 DEF CheckAge
<1>7. ASSUME NEW t \in Lookups, Respond(t) PROVE entry'.is = "miss"
  <2>1. entry' = entry
    BY <1>7, RespondDoes
  <2>2. CASE Continues(t)
    <3>1. PICK i \in DOMAIN asks :
             \/ i + 1 \in DOMAIN asks /\ Moves(t, asks[i + 1])
             \/ lookup' = [lookup EXCEPT ![t] = Being("saving", "miss")]
      BY <1>7, <2>2, ContinuesDoes, RespondDoes
    <3>2. i + 1 \in DOMAIN asks => asks[i + 1] \in Steps
      BY AsksDiffer
    <3>3. QED
      BY <1>1, <1>2, <1>3, <2>1, <3>1, <3>2, SavesDoes DEF Answers
  <2>3. QED
    BY <1>1, <1>2, <1>3, <1>7, <2>1, <2>2, RespondDoes, SavesDoes DEF Answers
<1>8. ASSUME NEW t \in Lookups, OpenEntry(t) \/ WriteEntry(t) PROVE entry'.is = "miss"
  <2>1. PICK place \in {"idle", "writing"} :
           (Moves(t, place) /\ entry' = entry) \/ MovesOver(t, place)
    BY <1>8 DEF OpenEntry, WriteEntry
  <2>2. CASE Moves(t, place) /\ entry' = entry
    BY <1>2, <1>3, <2>2
  <2>3. CASE MovesOver(t, place)
    <3>1. u # t /\ lookup[u].at = "checking"
      BY <1>2, <2>3, MovesDoes
    <3>2. lookup'[u] = [lookup[u] EXCEPT !.overtaken = TRUE]
      BY <2>3, <3>1 DEF MovesOver
    <3>3. lookup[u] \in Lookup
      BY DEF LyricsTyped
    <3>4. QED
      BY <3>2, <3>3 DEF Lookup
  <2>4. QED
    BY <2>1, <2>2, <2>3
<1>9. CASE Upload \/ Pass
  BY <1>1, <1>9 DEF Upload, Pass
<1>10. CASE DaemonEnds
  BY <1>10 DEF DaemonEnds, Idle, Being
<1>11. CASE UNCHANGED lyricsVars
  BY <1>1, <1>11 DEF lyricsVars
<1>12. QED
  BY <1>4, <1>5, <1>6, <1>7, <1>8, <1>9, <1>10, <1>11 DEF LyricsNext

\* The part of the invariant that tells when things were told and cached.
LEMMA MissStep == MissInv /\ [LyricsNext]_lyricsVars => (Past /\ CachedBefore /\ MissesExpire)'
<1> SUFFICES ASSUME LyricsTyped, Past, CachedBefore, AskedAfter, ReadUnchanged, MissesExpire,
                    [LyricsNext]_lyricsVars
             PROVE  (Past /\ CachedBefore /\ MissesExpire)'
  BY DEF MissInv
<1> USE Times DEF LyricsTyped, Past, CachedBefore, MissesExpire
<1>1. ASSUME NEW t \in Lookups, StartLookup(t) PROVE (Past /\ CachedBefore /\ MissesExpire)'
  BY <1>1 DEF StartLookup
<1>2. ASSUME NEW t \in Lookups, ReadCache(t) PROVE (Past /\ CachedBefore /\ MissesExpire)'
  <2>1. UNCHANGED <<now, uploaded, entry, refused>> /\ (told' = told \/ Tells(t, "hit"))
    BY <1>2 DEF ReadCache
  <2>2. QED
    BY <2>1 DEF Tells
<1>3. ASSUME NEW t \in Lookups, CheckAge(t) PROVE (Past /\ CachedBefore /\ MissesExpire)'
  <2>1. UNCHANGED <<now, uploaded, entry, refused>>
    BY <1>3 DEF CheckAge
  <2>2. CASE told' = told
    BY <2>1, <2>2
  <2>3. CASE ~Stale /\ Tells(t, "miss")
    <3>1. told' = [is |-> "miss", at |-> now, overtaken |-> lookup[t].overtaken]
      BY <2>3 DEF Tells
    <3>2. ~lookup[t].overtaken => entry.is = "miss"
      BY <1>3 DEF CheckAge, ReadUnchanged
    <3>3. now - entry.since <= MissLifetime
      BY <2>3 DEF Stale
    <3>4. QED
      BY <2>1, <3>1, <3>2, <3>3
  <2>4. QED
    BY <1>3, <2>2, <2>3 DEF CheckAge
<1>4. ASSUME NEW t \in Lookups, Respond(t) PROVE (Past /\ CachedBefore /\ MissesExpire)'
  <2>1. UNCHANGED <<now, uploaded, entry, told>> /\ (refused => refused')
    BY <1>4, RespondDoes
  <2>2. QED
    BY <2>1
<1>5. ASSUME NEW t \in Lookups, OpenEntry(t) \/ WriteEntry(t)
      PROVE  (Past /\ CachedBefore /\ MissesExpire)'
  <2>1. UNCHANGED <<now, uploaded, refused>> /\ lookup[t].at \in {"saving", "writing"}
    BY <1>5 DEF OpenEntry, WriteEntry
  <2>2. uploaded # Never /\ ~refused /\ lookup[t].found = "miss" => now <= uploaded
    BY <2>1 DEF AskedAfter
  <2>3. told' = told \/ told' = [is |-> lookup[t].found, at |-> now,
                                 overtaken |-> lookup[t].overtaken]
    BY <1>5 DEF OpenEntry, WriteEntry, Tells
  <2>4. \/ entry' = entry
        \/ entry' = [is |-> "torn", since |-> now]
        \/ entry' = [is |-> lookup[t].found, since |-> now]
    BY <1>5 DEF OpenEntry, WriteEntry
  <2>5. (Past /\ CachedBefore)'
    BY <2>1, <2>2, <2>3, <2>4
  <2>6. MissesExpire'
    BY <2>1, <2>2, <2>3
  <2>7. QED
    BY <2>5, <2>6
<1>6. CASE Upload
  BY <1>6 DEF Upload
<1>7. CASE Pass
  BY <1>7 DEF Pass
<1>8. CASE DaemonEnds
  BY <1>8 DEF DaemonEnds
<1>9. CASE UNCHANGED lyricsVars
  BY <1>9 DEF lyricsVars
<1>10. QED
  BY <1>1, <1>2, <1>3, <1>4, <1>5, <1>6, <1>7, <1>8, <1>9 DEF LyricsNext

LEMMA AskedStep == MissInv /\ [LyricsNext]_lyricsVars => AskedAfter'
<1> SUFFICES ASSUME LyricsTyped, Past, AskedAfter, [LyricsNext]_lyricsVars,
                    uploaded' < now', ~refused', NEW u \in Lookups
             PROVE  /\ \A i \in DOMAIN asks' : lookup'[u].at = asks'[i] =>
                          \A j \in DOMAIN asks' : j < i => asks'[j] \notin filed'
                    /\ lookup'[u].at \in {"saving", "writing"} => lookup'[u].found = "hit"
  BY DEF MissInv, AskedAfter
<1> DEFINE Found == /\ \A i \in DOMAIN asks' : lookup'[u].at = asks'[i] =>
                          \A j \in DOMAIN asks' : j < i => asks'[j] \notin filed'
                    /\ lookup'[u].at \in {"saving", "writing"} => lookup'[u].found = "hit"
<1> USE Times, AsksDiffer
<1>1. \A i \in DOMAIN asks : asks[i] \notin {"idle", "reading", "checking", "saving", "writing"}
  BY DEF Steps
<1>2. ASSUME UNCHANGED <<now, asks, filed, uploaded, refused>>,
             lookup'[u].at = lookup[u].at, lookup'[u].found = lookup[u].found
      PROVE  Found
  BY <1>2 DEF AskedAfter
<1>3. ASSUME UNCHANGED <<asks>>, lookup'[u].at \in {"idle", "reading", "checking"} PROVE Found
  BY <1>1, <1>3
<1>4. /\ {"idle", "reading", "checking", "saving", "writing"} \subseteq AtPlaces
      /\ \A i \in DOMAIN asks : asks[i] \in AtPlaces
  BY DEF AtPlaces
<1>5. ASSUME UNCHANGED <<now, asks, filed, uploaded, refused>>, NEW t \in Lookups,
             Moves(t, asks[1]) \/ \E place \in {"idle", "reading", "checking"} :
                                     Moves(t, place) \/ MovesOver(t, place)
      PROVE  Found
  <2>1. CASE u # t
    BY <1>2, <1>4, <1>5, <2>1, MovesDoes
  <2>2. CASE u = t /\ lookup'[u].at \in {"idle", "reading", "checking"}
    BY <1>3, <1>5, <2>2
  <2>3. CASE u = t /\ lookup'[u].at = asks[1]
    <3>1. \A i \in DOMAIN asks : lookup'[u].at = asks[i] => i = 1
      BY <2>3
    <3>2. QED
      BY <1>1, <1>5, <2>3, <3>1
  <2>4. QED
    BY <1>4, <1>5, <2>1, <2>2, <2>3, MovesDoes
<1>6. ASSUME NEW t \in Lookups, StartLookup(t) \/ ReadCache(t) \/ CheckAge(t) PROVE Found
  BY <1>5, <1>6 DEF StartLookup, ReadCache, CheckAge
<1>7. ASSUME NEW t \in Lookups, Respond(t) PROVE Found
  <2>1. UNCHANGED <<now, asks, filed, uploaded>> /\ lookup[t].at \in ToSet(asks)
    BY <1>7, RespondDoes
  <2>2. uploaded < now /\ ~refused /\ uploaded # Never
    BY <1>7, <2>1, RespondDoes DEF LyricsTyped
  <2>3. UNCHANGED refused
    BY <1>7, <2>2, RespondDoes DEF LyricsTyped
  <2>4. CASE lookup' = [lookup EXCEPT ![t] = Being("saving", "hit")]
    <3>1. CASE u = t
      <4>1. lookup'[u].at = "saving" /\ lookup'[u].found = "hit"
        BY <2>4, <3>1, SavesDoes DEF Answers
      <4>2. QED
        BY <1>1, <2>1, <4>1
    <3>2. CASE u # t
      BY <1>2, <2>1, <2>3, <2>4, <3>2, SavesDoes DEF Answers
    <3>3. QED
      BY <3>1, <3>2
  <2>5. CASE lookup[t].at \notin filed /\ Continues(t)
    <3>1. PICK i \in DOMAIN asks :
             /\ lookup[t].at = asks[i]
             /\ \/ i + 1 \in DOMAIN asks /\ Moves(t, asks[i + 1])
                \/ /\ i = Len(asks)
                   /\ lookup' = [lookup EXCEPT ![t] = Being("saving", "miss")]
      BY <2>1, <2>5, ContinuesDoes
    <3>2. \A j \in DOMAIN asks : j <= i => asks[j] \notin filed
      BY <2>2, <2>5, <3>1 DEF AskedAfter
    <3>3. i # Len(asks)
      BY <3>2 DEF LyricsTyped
    <3>4. i + 1 \in DOMAIN asks /\ Moves(t, asks[i + 1])
      BY <3>1, <3>3
    <3>5. CASE u # t
      BY <1>2, <1>4, <2>1, <2>3, <3>4, <3>5, MovesDoes
    <3>6. CASE u = t
      <4>1. lookup'[u].at = asks[i + 1]
        BY <1>4, <3>4, <3>6, MovesDoes
      <4>2. \A k \in DOMAIN asks : lookup'[u].at = asks[k] => k = i + 1
        BY <3>4, <4>1
      <4>3. QED
        BY <1>1, <2>1, <3>2, <3>4, <4>1, <4>2
    <3>7. QED
      BY <3>5, <3>6
  <2>6. CASE Moves(t, "idle")
    BY <1>5, <2>1, <2>3, <2>6
  <2>7. QED
    BY <1>7, <2>2, <2>4, <2>5, <2>6, RespondDoes
<1>8. ASSUME NEW t \in Lookups, OpenEntry(t) \/ WriteEntry(t) PROVE Found
  <2>1. UNCHANGED <<now, asks, filed, uploaded, refused>>
        /\ lookup[t].at \in {"saving", "writing"}
    BY <1>8 DEF OpenEntry, WriteEntry
  <2>2. CASE \E place \in {"idle"} : Moves(t, place) \/ MovesOver(t, place)
    BY <1>5, <2>1, <2>2
  <2>3. CASE MovesOver(t, "writing")
    <3>1. CASE u = t
      <4>1. lookup'[u].at = "writing" /\ lookup'[u].found = lookup[u].found
        BY <1>4, <2>3, <3>1, MovesDoes
      <4>2. lookup[u].found = "hit"
        BY <2>1, <3>1 DEF AskedAfter
      <4>3. QED
        BY <1>1, <2>1, <4>1, <4>2
    <3>2. QED
      BY <1>2, <1>4, <2>1, <2>3, <3>1, MovesDoes
  <2>4. QED
    BY <1>8, <2>2, <2>3 DEF OpenEntry, WriteEntry
<1>9. CASE Upload
  BY <1>9 DEF Upload, LyricsTyped
<1>10. CASE Pass
  BY <1>3, <1>10 DEF Pass
<1>11. CASE DaemonEnds
  BY <1>3, <1>11 DEF DaemonEnds, Idle, Being
<1>12. CASE UNCHANGED lyricsVars
  BY <1>2, <1>12 DEF lyricsVars
<1>13. QED
  BY <1>6, <1>7, <1>8, <1>9, <1>10, <1>11, <1>12 DEF LyricsNext

\* However many tasks look the song up and whenever the daemon ends: once the
\* lyrics are there, nobody is told there are none for longer than the lifetime
\* that `is_stale` gives a miss, unless lrclib answered with an error or the file
\* was written between its reading and its age.
THEOREM MissesExpireAlways == LyricsSpec => []MissesExpire
<1>1. LyricsInit => MissInv
  <2> SUFFICES ASSUME LyricsInit PROVE MissInv
    OBVIOUS
  <2>1. LyricsTyped
    <3>1. filed \subseteq ToSet(asks) /\ filed # {}
      BY DEF LyricsInit
    <3>2. now \in 0..MaxTime /\ uploaded \in 0..Never
      BY Times DEF LyricsInit
    <3>3. asks \in {<<"search">>, <<"exact", "search">>, <<"search", "plain">>,
                   <<"exact", "search", "plain">>}
      BY DEF LyricsInit
    <3>4. entry \in [is : {"none", "torn", "hit", "miss"}, since : 0..MaxTime]
      BY Times DEF LyricsInit
    <3>5. lookup \in [Lookups -> Lookup]
      BY DEF LyricsInit, Idle, Being, Answers, Lookup, AtPlaces
    <3>6. told \in [is : Answers, at : 0..MaxTime, overtaken : BOOLEAN]
      BY Times DEF LyricsInit, Answers
    <3>7. refused \in BOOLEAN
      BY DEF LyricsInit
    <3>8. QED
      BY <3>1, <3>2, <3>3, <3>4, <3>5, <3>6, <3>7 DEF LyricsTyped
  <2>2. Past /\ CachedBefore /\ AskedAfter /\ ReadUnchanged /\ MissesExpire
    BY Times DEF LyricsInit, Idle, Being, Past, CachedBefore, AskedAfter, ReadUnchanged, MissesExpire
  <2>3. QED
    BY <2>1, <2>2 DEF MissInv
<1>2. MissInv /\ [LyricsNext]_lyricsVars => MissInv'
  BY LyricsTypeStep, MissStep, AskedStep, UnchangedStep DEF MissInv
<1>3. MissInv => MissesExpire
  BY DEF MissInv
<1>4. QED
  BY <1>1, <1>2, <1>3, PTL DEF LyricsSpec

-----------------------------------------------------------------------------
(* The artwork. *)

Places == {"idle", "looking", "reading", "downloading", "opening", "writing", "renaming",
           "coloring", "telling"}

ArtTyped ==
    /\ content \in [Inodes -> {"torn", "whole"}]
    /\ {part, image} \subseteq Inodes \cup {None}
    /\ fetch \in [Fetches -> [at : Places, file : Inodes \cup {None}]]
    /\ \A f \in Fetches : fetch[f].file # None <=> fetch[f].at = "writing"
    /\ shared \in BOOLEAN /\ crashes \in Nat /\ failures \in Nat

\* No file has both names.
Apart == part # None => part # image

\* While no two fetches met, the one that writes writes the .part file, and what it
\* is about to rename is whole, like what was renamed.
Alone ==
    ~shared =>
        /\ \A f, g \in Fetches :
              {fetch[f].at, fetch[g].at} \subseteq {"writing", "renaming"} => f = g
        /\ \A f \in Fetches :
              /\ fetch[f].at = "writing" => fetch[f].file = part
              /\ fetch[f].at = "renaming" => part # None /\ content[part] = "whole"
        /\ image # None => content[image] = "whole"

\* A file with a name that is not whole is still being written, if nothing failed.
BeingWritten ==
    crashes = 0 /\ failures = 0 =>
        \A i \in {part, image} \ {None} :
            content[i] = "torn" => \E f \in Fetches : fetch[f].at = "writing" /\ fetch[f].file = i

ArtInv == ArtTyped /\ Apart /\ Alone /\ BeingWritten

LEMMA InodesAreNumbers == Inodes \subseteq Nat /\ None \notin Inodes
BY ArtCacheAssumption, FS_CardinalityType DEF Inodes

\* There is always a file to be had: there are more than fetches.
LEMMA OpenedDoes ==
  ASSUME ArtTyped, Apart, NEW f \in Fetches, At(f, "opening")
  PROVE  /\ Opened(part) \in Inodes /\ Opened(part) # image
         /\ part # None => Opened(part) = part
<1> USE DEF ArtTyped, Apart
<1>1. CASE part # None
  BY <1>1 DEF Opened
<1>2. CASE part = None
  <2>1. Free # {}
    <3> SUFFICES ASSUME Free = {} PROVE FALSE
      OBVIOUS
    <3> DEFINE Has(i) == IF i = image THEN f ELSE CHOOSE g \in Fetches : fetch[g].file = i
               holder == [i \in Inodes |-> Has(i)]
    <3>1. ASSUME NEW i \in Inodes, i # image
          PROVE  holder[i] \in Fetches /\ fetch[holder[i]].file = i /\ holder[i] # f
      <4>1. \E g \in Fetches : fetch[g].file = i
        BY <1>2, <3>1, InodesAreNumbers DEF Free
      <4>2. holder[i] \in Fetches /\ fetch[holder[i]].file = i
        BY <3>1, <4>1
      <4>3. fetch[f].file = None
        BY DEF At
      <4>4. QED
        BY <3>1, <4>2, <4>3, InodesAreNumbers
    <3>2. \A i \in Inodes : i = image => holder[i] = f
      OBVIOUS
    <3>3. holder \in [Inodes -> Fetches]
      <4>1. \A i \in Inodes : holder[i] \in Fetches
        BY <3>1, <3>2
      <4>2. QED
        BY <4>1
    <3> HIDE DEF Has, holder
    <3>4. \A i, j \in Inodes : holder[i] = holder[j] => i = j
      <4> SUFFICES ASSUME NEW i \in Inodes, NEW j \in Inodes, holder[i] = holder[j] PROVE i = j
        OBVIOUS
      <4>1. CASE i = image \/ j = image
        BY <3>1, <3>2, <4>1
      <4>2. CASE i # image /\ j # image
        BY <3>1, <4>2
      <4>3. QED
        BY <4>1, <4>2
    <3>5. IsFiniteSet(Inodes) /\ Cardinality(Fetches) < Cardinality(Inodes)
      BY ArtCacheAssumption, FS_CardinalityType, FS_Interval DEF Inodes
    <3>6. QED
      BY <3>3, <3>4, <3>5, ArtCacheAssumption, FS_PigeonHole
  <2>2. Opened(part) \in Free
    BY <1>2, <2>1 DEF Opened
  <2>3. QED
    BY <1>2, <2>2 DEF Free
<1>3. QED
  BY <1>1, <1>2

\* What a step that only moves a fetch that has no file open leaves as it is.
LEMMA MovesAlong ==
  ASSUME ArtInv, NEW f \in Fetches, NEW place \in Places \ {"writing", "renaming"},
         fetch[f].at # "writing" \/ failures' # 0, Goes(f, place), failures' \in Nat,
         failures' >= failures, UNCHANGED <<content, part, image, shared, crashes>>
  PROVE  ArtInv'
<1> USE DEF ArtInv, Goes
<1>1. \A g \in Fetches : g # f => fetch'[g] = fetch[g]
  BY DEF ArtTyped
<1>2. fetch'[f] = [at |-> place, file |-> None]
  BY DEF ArtTyped
<1>3. ArtTyped'
  <2>1. fetch' \in [Fetches -> [at : Places, file : Inodes \cup {None}]]
    BY DEF ArtTyped
  <2>2. QED
    BY <1>1, <1>2, <2>1 DEF ArtTyped
<1>4. Apart'
  BY DEF Apart
<1>5. Alone'
  BY <1>1, <1>2 DEF Alone
<1>6. BeingWritten'
  BY <1>1, <1>2 DEF BeingWritten, ArtTyped
<1>7. QED
  BY <1>3, <1>4, <1>5, <1>6

LEMMA OpenKeeps == ASSUME ArtInv, NEW f \in Fetches, Open(f) PROVE ArtInv'
<1> USE DEF ArtInv
<1> DEFINE i == Opened(part)
<1>1. i \in Inodes /\ i # image /\ (part # None => i = part) /\ i # None
  BY OpenedDoes, InodesAreNumbers DEF Open
<1>2. /\ part' = i /\ content' = [content EXCEPT ![i] = "torn"]
      /\ fetch' = [fetch EXCEPT ![f] = [at |-> "writing", file |-> i]]
      /\ shared' = (shared \/ FetchesWrite) /\ UNCHANGED <<image, crashes, failures>>
  BY DEF Open
<1> HIDE DEF i
<1>3. fetch'[f] = [at |-> "writing", file |-> i] /\ \A g \in Fetches : g # f => fetch'[g] = fetch[g]
  BY <1>2 DEF ArtTyped
<1>4. content'[i] = "torn" /\ \A j \in Inodes : j # i => content'[j] = content[j]
  BY <1>1, <1>2 DEF ArtTyped
<1>5. ArtTyped'
  <2>1. fetch' \in [Fetches -> [at : Places, file : Inodes \cup {None}]]
    BY <1>1, <1>2 DEF ArtTyped, Places
  <2>2. \A g \in Fetches : fetch'[g].file # None <=> fetch'[g].at = "writing"
    BY <1>1, <1>3 DEF ArtTyped
  <2>3. content' \in [Inodes -> {"torn", "whole"}]
    BY <1>1, <1>2 DEF ArtTyped
  <2>4. shared' \in BOOLEAN
    BY <1>2 DEF ArtTyped, FetchesWrite
  <2>5. QED
    BY <1>1, <1>2, <2>1, <2>2, <2>3, <2>4 DEF ArtTyped
<1>6. Apart'
  BY <1>1, <1>2 DEF Apart
<1>7. Alone'
  <2> SUFFICES ASSUME ~shared' PROVE Alone'
    BY DEF Alone
  <2>1. ~shared /\ \A g \in Fetches : fetch[g].at \notin {"writing", "renaming"}
    BY <1>2 DEF FetchesWrite
  <2>2. \A g \in Fetches : fetch'[g].at \in {"writing", "renaming"} => g = f
    BY <1>3, <2>1
  <2>3. image' # None => content'[image'] = "whole"
    BY <1>1, <1>2, <1>4, <2>1 DEF Alone, ArtTyped
  <2>4. QED
    BY <1>2, <1>3, <2>2, <2>3 DEF Alone
<1>8. BeingWritten'
  <2> SUFFICES ASSUME crashes = 0, failures = 0, NEW j \in {i, image} \ {None},
                      content'[j] = "torn"
               PROVE  \E g \in Fetches : fetch'[g].at = "writing" /\ fetch'[g].file = j
    BY <1>2 DEF BeingWritten
  <2>1. CASE j = i
    BY <1>3, <2>1
  <2>2. CASE j # i
    <3>1. content[j] = "torn" /\ j = image
      BY <1>4, <2>2 DEF ArtTyped
    <3>2. PICK g \in Fetches : fetch[g].at = "writing" /\ fetch[g].file = j
      BY <3>1 DEF BeingWritten
    <3>3. g # f
      BY <3>2 DEF Open, At
    <3>4. QED
      BY <1>3, <3>2, <3>3
  <2>3. QED
    BY <2>1, <2>2
<1>9. QED
  BY <1>5, <1>6, <1>7, <1>8

\* Writing what the fetch has open.
LEMMA WriteKeeps ==
  ASSUME ArtInv, NEW f \in Fetches, At(f, "writing"),
         content' = [content EXCEPT ![fetch[f].file] = "whole"], Goes(f, "renaming"),
         UNCHANGED <<part, image, shared, crashes, failures>>
  PROVE  ArtInv'
<1> USE DEF ArtInv
<1> DEFINE i == fetch[f].file
<1>1. i \in Inodes /\ fetch[f].at = "writing"
  BY DEF ArtTyped, At
<1>2. content'[i] = "whole" /\ \A j \in Inodes : j # i => content'[j] = content[j]
  BY <1>1 DEF ArtTyped
<1>3. /\ fetch'[f] = [at |-> "renaming", file |-> None]
      /\ \A g \in Fetches : g # f => fetch'[g] = fetch[g]
  BY DEF ArtTyped, Goes
<1>4. ArtTyped'
  <2>1. fetch' \in [Fetches -> [at : Places, file : Inodes \cup {None}]]
    BY DEF ArtTyped, Places, Goes
  <2>2. content' \in [Inodes -> {"torn", "whole"}]
    BY <1>1 DEF ArtTyped
  <2>3. QED
    BY <1>3, <2>1, <2>2 DEF ArtTyped
<1>5. Apart'
  BY DEF Apart
<1>6. Alone'
  <2> SUFFICES ASSUME ~shared PROVE Alone'
    BY DEF Alone
  <2>1. i = part /\ part # None
    BY <1>1, InodesAreNumbers DEF Alone
  <2>2. \A g \in Fetches : fetch'[g].at \in {"writing", "renaming"} => g = f
    <3> SUFFICES ASSUME NEW g \in Fetches, g # f, fetch[g].at \in {"writing", "renaming"}
                 PROVE  FALSE
      BY <1>3
    <3>1. QED
      BY <1>1 DEF Alone
  <2>3. image # None => content'[image] = "whole"
    BY <1>2 DEF Alone, ArtTyped
  <2>4. QED
    BY <1>2, <1>3, <2>1, <2>2, <2>3 DEF Alone
<1>7. BeingWritten'
  <2> SUFFICES ASSUME crashes = 0, failures = 0, NEW j \in {part, image} \ {None},
                      content'[j] = "torn"
               PROVE  \E g \in Fetches : fetch'[g].at = "writing" /\ fetch'[g].file = j
    BY DEF BeingWritten
  <2>1. j # i /\ content[j] = "torn"
    BY <1>2 DEF ArtTyped
  <2>2. PICK g \in Fetches : fetch[g].at = "writing" /\ fetch[g].file = j
    BY <2>1 DEF BeingWritten
  <2>3. QED
    BY <1>3, <2>1, <2>2
<1>8. QED
  BY <1>4, <1>5, <1>6, <1>7

LEMMA RenameKeeps ==
  ASSUME ArtInv, NEW f \in Fetches, At(f, "renaming"), part # None, image' = part,
         part' = None, Goes(f, "coloring"), UNCHANGED <<content, shared, crashes, failures>>
  PROVE  ArtInv'
<1> USE DEF ArtInv
<1>1. /\ fetch'[f] = [at |-> "coloring", file |-> None] /\ fetch[f].at = "renaming"
      /\ \A g \in Fetches : g # f => fetch'[g] = fetch[g]
  BY DEF ArtTyped, Goes, At
<1>2. ArtTyped'
  <2>1. fetch' \in [Fetches -> [at : Places, file : Inodes \cup {None}]]
    BY DEF ArtTyped, Places, Goes
  <2>2. QED
    BY <1>1, <2>1 DEF ArtTyped
<1>3. Apart'
  BY DEF Apart
<1>4. Alone'
  <2> SUFFICES ASSUME ~shared PROVE Alone'
    BY DEF Alone
  <2>1. \A g \in Fetches : fetch'[g].at \notin {"writing", "renaming"}
    BY <1>1 DEF Alone
  <2>2. content[part] = "whole"
    BY <1>1 DEF Alone
  <2>3. QED
    BY <2>1, <2>2 DEF Alone
<1>5. BeingWritten'
  <2> SUFFICES ASSUME crashes = 0, failures = 0, content[part] = "torn"
               PROVE  \E g \in Fetches : fetch'[g].at = "writing" /\ fetch'[g].file = part
    BY DEF BeingWritten
  <2>1. PICK g \in Fetches : fetch[g].at = "writing" /\ fetch[g].file = part
    BY DEF BeingWritten
  <2>2. QED
    BY <1>1, <2>1
<1>6. QED
  BY <1>2, <1>3, <1>4, <1>5

LEMMA ArtStep == ArtInv /\ [ArtNext]_artVars => ArtInv'
<1> SUFFICES ASSUME ArtInv, [ArtNext]_artVars PROVE ArtInv'
  OBVIOUS
<1> USE DEF disk
<1>1. failures \in Nat /\ crashes \in Nat /\ MaxFailures \in Nat
  BY ArtCacheAssumption DEF ArtInv, ArtTyped
<1>2. Places \ {"writing", "renaming"} = {"idle", "looking", "reading", "downloading",
                                          "opening", "coloring", "telling"}
  BY DEF Places
<1>3. ASSUME NEW f \in Fetches, Start(f) PROVE ArtInv'
  BY <1>1, <1>2, <1>3, MovesAlong DEF Start, At
<1>4. ASSUME NEW f \in Fetches, Look(f) PROVE ArtInv'
  BY <1>1, <1>2, <1>4, MovesAlong DEF Look, At
<1>5. ASSUME NEW f \in Fetches, ReadColors(f) PROVE ArtInv'
  BY <1>1, <1>2, <1>5, MovesAlong DEF ReadColors, At
<1>6. ASSUME NEW f \in Fetches, Download(f) PROVE ArtInv'
  BY <1>1, <1>2, <1>6, MovesAlong DEF Download, Fails, At
<1>7. ASSUME NEW f \in Fetches, Open(f) PROVE ArtInv'
  BY <1>7, OpenKeeps
<1>8. ASSUME NEW f \in Fetches, Write(f) PROVE ArtInv'
  <2>1. CASE Fails(f) /\ UNCHANGED content
    BY <1>1, <1>2, <1>8, <2>1, MovesAlong DEF Write, Fails
  <2>2. CASE content' = [content EXCEPT ![fetch[f].file] = "whole"] /\ Goes(f, "renaming")
             /\ UNCHANGED failures
    BY <1>8, <2>2, WriteKeeps DEF Write
  <2>3. QED
    BY <1>8, <2>1, <2>2 DEF Write
<1>9. ASSUME NEW f \in Fetches, Rename(f) PROVE ArtInv'
  <2>1. CASE part # None /\ image' = part /\ part' = None /\ Goes(f, "coloring")
    BY <1>9, <2>1, RenameKeeps DEF Rename
  <2>2. CASE UNCHANGED <<part, image>> /\ Goes(f, "idle")
    BY <1>1, <1>2, <1>9, <2>2, MovesAlong DEF Rename, At
  <2>3. QED
    BY <1>9, <2>1, <2>2 DEF Rename
<1>10. ASSUME NEW f \in Fetches, OpenColors(f) PROVE ArtInv'
  BY <1>1, <1>2, <1>10, MovesAlong DEF OpenColors, At
<1>11. ASSUME NEW f \in Fetches, WriteColors(f) PROVE ArtInv'
  BY <1>1, <1>2, <1>11, MovesAlong DEF WriteColors, At
<1>12. CASE Crash
  <2>1. /\ fetch' = [f \in Fetches |-> [at |-> "idle", file |-> None]]
        /\ UNCHANGED <<content, part, image, shared, failures>> /\ crashes' = crashes + 1
    BY <1>12 DEF Crash
  <2>2. \A f \in Fetches : fetch'[f] = [at |-> "idle", file |-> None]
    BY <2>1
  <2>3. ArtTyped'
    <3>1. fetch' \in [Fetches -> [at : Places, file : Inodes \cup {None}]]
      BY <2>1 DEF Places
    <3>2. QED
      BY <1>1, <2>1, <2>2, <3>1 DEF ArtInv, ArtTyped
  <2>4. Apart' /\ Alone'
    BY <2>1, <2>2 DEF ArtInv, Apart, Alone
  <2>5. BeingWritten'
    BY <1>1, <2>1 DEF BeingWritten
  <2>6. QED
    BY <2>3, <2>4, <2>5 DEF ArtInv
<1>13. CASE UNCHANGED artVars
  BY <1>13 DEF artVars, ArtInv, ArtTyped, Apart, Alone, BeingWritten
<1>14. QED
  BY <1>3, <1>4, <1>5, <1>6, <1>7, <1>8, <1>9, <1>10, <1>11, <1>12, <1>13 DEF ArtNext

\* However many fetches of a cover there are and whenever the daemon ends: the image
\* that `recompute` leaves under its name is whole if no two fetches had the .part file
\* at a time, and if they did it is again when they have written, unless one failed.
THEOREM ImageIsWholeAlways == ArtSpec => []ImageIsWhole
<1>1. ArtInit => ArtInv
  <2> SUFFICES ASSUME ArtInit PROVE ArtInv
    OBVIOUS
  <2>1. \A f \in Fetches : fetch[f] = [at |-> "idle", file |-> None]
    BY DEF ArtInit
  <2>2. fetch \in [Fetches -> [at : Places, file : Inodes \cup {None}]]
    BY DEF ArtInit, Places
  <2>3. ArtTyped
    BY <2>1, <2>2 DEF ArtInit, ArtTyped
  <2>4. Apart /\ Alone /\ BeingWritten
    BY <2>1 DEF ArtInit, Apart, Alone, BeingWritten
  <2>5. QED
    BY <2>3, <2>4 DEF ArtInv
<1>2. ArtInv /\ [ArtNext]_artVars => ArtInv'
  BY ArtStep
<1>3. ArtInv => ImageIsWhole
  <2> SUFFICES ASSUME ArtInv, image # None, content[image] # "whole",
                      ~shared \/ (crashes = 0 /\ failures = 0 /\ ~FetchesWrite)
               PROVE  FALSE
    BY DEF ImageIsWhole
  <2>1. CASE ~shared
    BY <2>1 DEF ArtInv, Alone
  <2>2. CASE crashes = 0 /\ failures = 0 /\ ~FetchesWrite
    <3>1. content[image] = "torn"
      BY DEF ArtInv, ArtTyped
    <3>2. QED
      BY <2>2, <3>1 DEF ArtInv, BeingWritten, FetchesWrite
  <2>3. QED
    BY <2>1, <2>2
<1>4. QED
  BY <1>1, <1>2, <1>3, PTL DEF ArtSpec
-----------------------------------------------------------------------------
(* The volume: the slider, the engine and the audio thread. *)

Requests ==
    [kind : {"set", "by", "mute", "refresh"}, to : Int, owner : Players]
Asked == [kind : {"set", "by", "mute", "transfer", "devices"}, to : Int]
Values == {"set", "by"}

VolumeTyped ==
    /\ attached \in Players \cup {Nothing} /\ owner \in Players \cup {Nothing}
    /\ requests \in Seq(Requests) /\ commands \in Seq(Asked) /\ tasks \in Seq(Asked)
    /\ loudness \in [Streams -> Int]
    /\ resting \in Levels \cup {Nothing} /\ wanted \in Levels \cup {Nothing}
    /\ timeouts \in Nat

StreamsAre == present \subseteq Streams

\* The state shows what the audio thread last reported.
ReportShown == [volume |-> audio.volume, muted |-> audio.muted] = last

\* The thread watches for the attached player, or is about to.
WatchesForTheirs ==
    attached # Nothing =>
        IF requests = <<>> THEN owner = attached
        ELSE requests[Len(requests)].owner = attached

\* The last report is how the stream is, unless the thread is about to read it.
ReportIsTrue ==
    requests = <<>> /\ ~dirty /\ ~reading /\ ~callback /\ ~late
        => last = Snapshot(FindInput(owner))

\* The last of a queue's commands that say how loud it should be.
LastValue(queue, i) ==
    /\ i \in DOMAIN queue /\ queue[i].kind \in Values
    /\ \A j \in DOMAIN queue : i < j => queue[j].kind \notin Values
NoValue(queue) == \A i \in DOMAIN queue : queue[i].kind \notin Values
LastSays(queue, i) == LastValue(queue, i) /\ queue[i].kind = "set" /\ queue[i].to = wanted

\* A drag that counts is of a stream the thread can find.
DragFinds == wanted # Nothing => attached # Nothing /\ FindInput(attached) # Nothing

\* It has yet to be sent, or it is the last word of a queue it has reached, or
\* it has been done.
AtTheEnd ==
    \/ \E i \in DOMAIN requests : LastSays(requests, i) /\ requests[i].owner = attached
    \/ NoValue(requests) /\ loudness[FindInput(attached)] = wanted
    \/ \E i \in DOMAIN tasks : LastSays(tasks, i)
    \/ NoValue(tasks) /\ remote = wanted
OnItsWay ==
    /\ wanted # Nothing /\ resting # Nothing => resting = wanted
    /\ wanted # Nothing /\ timeouts = 0 /\ ~free /\ resting = Nothing =>
          \/ \E i \in DOMAIN commands : LastSays(commands, i)
          \/ NoValue(commands) /\ AtTheEnd

-----------------------------------------------------------------------------
(* Queues. *)

LEMMA SequenceEnds ==
  ASSUME NEW S, NEW queue \in Seq(S)
  PROVE  /\ Len(queue) \in Nat /\ DOMAIN queue = 1..Len(queue)
         /\ queue # <<>> => /\ Len(queue) \in 1..Len(queue)
                            /\ 1 \in 1..Len(queue) /\ Head(queue) = queue[1]
         /\ \A i \in DOMAIN queue : queue[i] \in S
<1>1. Len(queue) \in Nat /\ DOMAIN queue = 1..Len(queue) BY LenProperties
<1>2. \A i \in DOMAIN queue : queue[i] \in S BY <1>1, ElementOfSeq
<1>3. queue # <<>> => Len(queue) # 0 BY EmptySeq
<1>4. queue # <<>> => Head(queue) = queue[1] BY HeadTailProperties
<1> QED BY <1>1, <1>2, <1>3, <1>4

\* A command at the end of a queue that says nothing of the volume, or does.
LEMMA ValueAppended ==
  ASSUME NEW S, NEW queue \in Seq(S), NEW c \in S
  PROVE  /\ Append(queue, c) \in Seq(S) /\ Len(Append(queue, c)) = Len(queue) + 1
         /\ DOMAIN Append(queue, c) = 1..(Len(queue) + 1)
         /\ Append(queue, c)[Len(Append(queue, c))] = c
         /\ c.kind \in Values => LastValue(Append(queue, c), Len(Append(queue, c)))
         /\ c.kind \notin Values /\ NoValue(queue) => NoValue(Append(queue, c))
<1> DEFINE longer == Append(queue, c)
           n == Len(queue)
<1>1. n \in Nat /\ DOMAIN queue = 1..n BY LenProperties
<1>2. /\ longer \in Seq(S) /\ Len(longer) = n + 1 /\ longer[n + 1] = c
      /\ \A i \in 1..n : longer[i] = queue[i]
  BY <1>1, AppendProperties
<1>3. DOMAIN longer = 1..(n + 1) BY <1>2, LenProperties
<1> HIDE DEF longer, n
<1>4. \A i \in 1..(n + 1) : i = n + 1 \/ (i \in 1..n /\ i < n + 1) BY <1>1
<1>5. n + 1 \in 1..(n + 1) /\ (\A i \in 1..n : i \in 1..(n + 1)) BY <1>1
<1>6. ASSUME c.kind \in Values PROVE LastValue(longer, n + 1)
  <2>1. \A j \in 1..(n + 1) : ~(n + 1 < j) BY <1>1
  <2> QED BY <1>2, <1>3, <1>5, <1>6, <2>1 DEF LastValue
<1>7. ASSUME c.kind \notin Values, NoValue(queue) PROVE NoValue(longer)
  BY <1>1, <1>2, <1>3, <1>4, <1>7 DEF NoValue
<1> QED BY <1>1, <1>2, <1>3, <1>6, <1>7 DEF longer, n

LEMMA ValueKept ==
  ASSUME NEW S, NEW queue \in Seq(S), NEW c \in S, c.kind \notin Values,
         NEW i, LastValue(queue, i)
  PROVE  LastValue(Append(queue, c), i) /\ Append(queue, c)[i] = queue[i]
<1> DEFINE longer == Append(queue, c)
           n == Len(queue)
<1>1. n \in Nat /\ DOMAIN queue = 1..n BY LenProperties
<1>2. /\ longer \in Seq(S) /\ Len(longer) = n + 1 /\ longer[n + 1] = c
      /\ \A j \in 1..n : longer[j] = queue[j]
  BY <1>1, AppendProperties
<1>3. DOMAIN longer = 1..(n + 1) BY <1>2, LenProperties
<1> HIDE DEF longer, n
<1>4. \A j \in 1..(n + 1) : j = n + 1 \/ (j \in 1..n /\ j < n + 1) BY <1>1
<1>5. \A j \in 1..n : j \in 1..(n + 1) BY <1>1
<1>6. /\ i \in 1..n /\ queue[i].kind \in Values
      /\ \A j \in 1..n : i < j => queue[j].kind \notin Values
  BY <1>1 DEF LastValue
<1>7. longer[i] = queue[i] /\ i \in DOMAIN longer BY <1>2, <1>3, <1>5, <1>6
<1>8. \A j \in 1..(n + 1) : i < j => longer[j].kind \notin Values
  BY <1>2, <1>4, <1>6
<1> QED BY <1>3, <1>6, <1>7, <1>8 DEF LastValue, longer

\* The head of a queue is taken.
LEMMA ValueTaken ==
  ASSUME NEW S, NEW queue \in Seq(S), queue # <<>>
  PROVE  /\ Tail(queue) \in Seq(S)
         /\ Tail(queue) # <<>> => Tail(queue)[Len(Tail(queue))] = queue[Len(queue)]
         /\ Tail(queue) = <<>> => Len(queue) = 1
         /\ NoValue(queue) => NoValue(Tail(queue)) /\ Head(queue).kind \notin Values
         /\ \A i : LastValue(queue, i) =>
               IF i = 1 THEN NoValue(Tail(queue)) /\ queue[i] = Head(queue)
               ELSE LastValue(Tail(queue), i - 1) /\ Tail(queue)[i - 1] = queue[i]
<1> DEFINE rest == Tail(queue)
           n == Len(queue)
<1>1. n \in Nat /\ DOMAIN queue = 1..n /\ n \in 1..n /\ 1 \in 1..n /\ Head(queue) = queue[1]
  BY SequenceEnds
<1>2. /\ rest \in Seq(S) /\ Len(rest) = n - 1
      /\ \A i \in 1..(n - 1) : rest[i] = queue[i + 1]
  BY <1>1, HeadTailProperties
<1>3. DOMAIN rest = 1..(n - 1) BY <1>2, LenProperties
<1> HIDE DEF rest, n
<1>4. rest = <<>> => n = 1
  <2>1. rest = <<>> => Len(rest) = 0 OBVIOUS
  <2> QED BY <1>1, <1>2, <2>1
<1>5. rest # <<>> => rest[n - 1] = queue[n]
  <2> SUFFICES ASSUME rest # <<>> PROVE rest[n - 1] = queue[n] OBVIOUS
  <2>1. Len(rest) # 0 BY <1>2, EmptySeq
  <2>2. n - 1 \in 1..(n - 1) /\ (n - 1) + 1 = n BY <1>1, <1>2, <2>1
  <2>3. rest[n - 1] = queue[(n - 1) + 1] BY <1>2, <2>2
  <2> QED BY <2>2, <2>3
<1>6. \A i \in 1..(n - 1) : i + 1 \in 1..n BY <1>1
<1>7. ASSUME NoValue(queue) PROVE NoValue(rest) /\ Head(queue).kind \notin Values
  BY <1>1, <1>2, <1>3, <1>6, <1>7 DEF NoValue
<1>8. ASSUME NEW i, LastValue(queue, i)
      PROVE  IF i = 1 THEN NoValue(rest) /\ queue[i] = Head(queue)
             ELSE LastValue(rest, i - 1) /\ rest[i - 1] = queue[i]
  <2>1. /\ i \in 1..n /\ queue[i].kind \in Values
        /\ \A j \in 1..n : i < j => queue[j].kind \notin Values
    BY <1>1, <1>8 DEF LastValue
  <2>2. ASSUME i = 1 PROVE NoValue(rest)
    <3>1. \A j \in 1..(n - 1) : i < j + 1 BY <1>1, <2>2
    <3>2. \A j \in 1..(n - 1) : rest[j].kind \notin Values BY <1>2, <1>6, <2>1, <3>1
    <3> QED BY <1>3, <3>2 DEF NoValue
  <2>3. ASSUME i # 1 PROVE LastValue(rest, i - 1) /\ rest[i - 1] = queue[i]
    <3>1. i - 1 \in 1..(n - 1) /\ (i - 1) + 1 = i BY <1>1, <2>1, <2>3
    <3>2. rest[i - 1] = queue[i]
      <4>1. rest[i - 1] = queue[(i - 1) + 1] BY <1>2, <3>1
      <4> QED BY <3>1, <4>1
    <3>3. \A j \in 1..(n - 1) : i - 1 < j => i < j + 1 BY <1>1, <2>1
    <3>4. \A j \in 1..(n - 1) : i - 1 < j => rest[j].kind \notin Values
      BY <1>2, <1>6, <2>1, <3>3
    <3> QED BY <1>3, <2>1, <3>1, <3>2, <3>4 DEF LastValue
  <2> QED BY <1>1, <2>2, <2>3
<1>9. rest # <<>> => rest[Len(rest)] = queue[n] BY <1>2, <1>5
<1> QED BY <1>2, <1>4, <1>7, <1>8, <1>9 DEF rest, n

-----------------------------------------------------------------------------
(* Types. *)

LEMMA VolumeBounds ==
  /\ Full \in Nat /\ Full # 0 /\ MaxActs \in Nat /\ MaxTimeouts \in Nat
  /\ Nothing \notin Players /\ Nothing \notin Nat /\ Streams \subseteq Nat
  /\ Nothing \notin Streams /\ Nothing \notin Levels /\ Levels \subseteq Nat
<1>1. /\ Full \in Nat /\ Full # 0 /\ MaxActs \in Nat /\ MaxTimeouts \in Nat
      /\ Streams \subseteq Nat
  BY VolumeAssumption
<1>2. Nothing \notin Players /\ Nothing \notin Nat BY VolumeAssumption
<1>3. Levels \subseteq Nat BY <1>1 DEF Levels
<1> QED BY <1>1, <1>2, <1>3

\* A request of the engine is for the attached player, and none is made without.
LEMMA RequestMade ==
  ASSUME VolumeTyped, NEW c \in Asked, c.kind \in {"set", "by", "mute"}, AudioRequest(c)
  PROVE  /\ requests' \in Seq(Requests)
         /\ attached = Nothing => requests' = requests
         /\ attached # Nothing =>
               LET r == [kind |-> c.kind, to |-> c.to, owner |-> attached]
               IN  r \in Requests /\ requests' = Append(requests, r)
<1>1. requests \in Seq(Requests) /\ attached \in Players \cup {Nothing}
  BY DEF VolumeTyped
<1>2. CASE attached = Nothing BY <1>1, <1>2 DEF AudioRequest
<1>3. CASE attached # Nothing
  <2> DEFINE r == [kind |-> c.kind, to |-> c.to, owner |-> attached]
  <2>1. r \in Requests BY <1>1, <1>3 DEF Requests, Asked
  <2>2. requests' = Append(requests, r) BY <1>3 DEF AudioRequest
  <2> HIDE DEF r
  <2>3. requests' \in Seq(Requests) BY <1>1, <2>1, <2>2, AppendProperties
  <2> QED BY <1>3, <2>1, <2>2, <2>3 DEF r
<1> QED BY <1>2, <1>3

\* What the engine does of a command at the head of its queue.
LEMMA CommandTaken ==
  ASSUME VolumeTyped, TakeCommand
  PROVE  /\ commands # <<>> /\ commands' = Tail(commands) /\ Head(commands) \in Asked
         /\ commands' \in Seq(Asked)
         /\ \/ /\ Head(commands).kind \in {"set", "by", "mute"}
               /\ AudioRequest(Head(commands)) /\ UNCHANGED tasks
            \/ /\ Head(commands).kind \in {"set", "transfer", "devices"}
               /\ tasks' = Append(tasks, Head(commands)) /\ UNCHANGED requests
         /\ UNCHANGED <<attached, owner, loudness, mute, resting, wanted, timeouts, last,
                        audio, dirty, reading, callback, late, present, free, remote>>
<1>1. commands \in Seq(Asked) BY DEF VolumeTyped
<1>2. commands # <<>> /\ commands' = Tail(commands) BY DEF TakeCommand
<1>3. Head(commands) \in Asked /\ commands' \in Seq(Asked)
  BY <1>1, <1>2, HeadTailProperties
<1>4. Head(commands).kind \in {"set", "by", "mute", "transfer", "devices"} BY <1>3 DEF Asked
<1>5. UNCHANGED <<attached, owner, loudness, mute, resting, wanted, timeouts, last, audio,
                  dirty, reading, callback, late, present, free, remote>>
  BY DEF TakeCommand, server, window, history, bounds, spotify
<1>6. \/ /\ Head(commands).kind \in {"by", "mute"}
            \/ (Head(commands).kind = "set" /\ audio.route # "remote")
         /\ AudioRequest(Head(commands)) /\ UNCHANGED tasks
      \/ /\ ~(Head(commands).kind \in {"by", "mute"}
              \/ (Head(commands).kind = "set" /\ audio.route # "remote"))
         /\ tasks' = Append(tasks, Head(commands)) /\ UNCHANGED requests
  BY DEF TakeCommand
<1> QED BY <1>2, <1>3, <1>4, <1>5, <1>6

\* What the thread does of a request at the head of its queue.
LEMMA RequestTaken ==
  ASSUME VolumeTyped, TakeRequest
  PROVE  /\ requests # <<>> /\ requests' = Tail(requests) /\ Head(requests) \in Requests
         /\ requests' \in Seq(Requests) /\ owner' = Head(requests).owner /\ owner' \in Players
         /\ reading'
         /\ \E s \in Streams \cup {Nothing} :
               Finds(owner', s) /\ Apply(Head(requests), s)
         /\ UNCHANGED <<attached, commands, tasks, resting, wanted, last, audio, late, present,
                        free, remote>>
<1>1. requests \in Seq(Requests) BY DEF VolumeTyped
<1>2. requests # <<>> /\ requests' = Tail(requests) /\ owner' = Head(requests).owner /\ reading'
  BY DEF TakeRequest
<1>3. Head(requests) \in Requests /\ requests' \in Seq(Requests)
  BY <1>1, <1>2, HeadTailProperties
<1>4. owner' \in Players BY <1>2, <1>3 DEF Requests
<1>5. \E s \in Streams \cup {Nothing} : Finds(owner', s) /\ Apply(Head(requests), s)
  <2>1. PICK s \in Streams \cup {Nothing} :
            Finds(Head(requests).owner, s) /\ Apply(Head(requests), s)
    BY DEF TakeRequest
  <2>2. Finds(owner', s) BY <1>2, <2>1 DEF Finds
  <2> QED BY <2>1, <2>2
<1>6. UNCHANGED <<attached, commands, tasks, resting, wanted, last, audio, late, present, free,
                  remote>>
  BY DEF TakeRequest, window, history, spotify, knowledge
<1> QED BY <1>2, <1>3, <1>4, <1>5, <1>6

LEMMA LevelsClamp ==
  /\ \A v \in Levels : Clamp(v) = v
  /\ \A v \in Int : Clamp(v) \in Int /\ Percent(v) \in Int
<1>1. Full \in Nat BY VolumeBounds
<1> QED BY <1>1 DEF Clamp, Percent, Levels

LEMMA Applied ==
  ASSUME VolumeTyped, NEW r \in Requests, NEW s \in Streams \cup {Nothing}, Apply(r, s)
  PROVE  /\ loudness' \in [Streams -> Int]
         /\ r.kind \in {"mute", "refresh"} => loudness' = loudness
         /\ r.kind = "set" /\ s # Nothing => loudness'[s] = Clamp(r.to)
<1>1. /\ loudness \in [Streams -> Int] /\ r.to \in Int
      /\ r.kind \in {"set", "by", "mute", "refresh"}
  BY DEF VolumeTyped, Requests
<1>2. CASE s = Nothing \/ r.kind = "refresh" BY <1>1, <1>2 DEF Apply
<1>3. CASE s # Nothing /\ r.kind = "mute" BY <1>1, <1>3 DEF Apply
<1>4. CASE s # Nothing /\ r.kind = "set"
  <2>1. loudness' = [loudness EXCEPT ![s] = Clamp(r.to)] /\ s \in Streams
    BY <1>4 DEF Apply, Sets
  <2>2. Clamp(r.to) \in Int BY <1>1, LevelsClamp
  <2> QED BY <1>1, <1>4, <2>1, <2>2
<1>5. CASE s # Nothing /\ r.kind = "by"
  <2>1. loudness' = [loudness EXCEPT ![s] = Clamp(Percent(loudness[s]) + r.to)] /\ s \in Streams
    BY <1>5 DEF Apply, Sets
  <2>2. loudness[s] \in Int BY <1>1, <2>1
  <2>3. Percent(loudness[s]) + r.to \in Int BY <1>1, <2>2, LevelsClamp
  <2>4. Clamp(Percent(loudness[s]) + r.to) \in Int BY <2>3, LevelsClamp
  <2> QED BY <1>1, <1>5, <2>1, <2>4
<1> QED BY <1>1, <1>2, <1>3, <1>4, <1>5

LEMMA TypesStay == VolumeTyped /\ [Next]_vars => VolumeTyped'
<1> SUFFICES ASSUME VolumeTyped, [Next]_vars PROVE VolumeTyped' OBVIOUS
<1>1. /\ attached \in Players \cup {Nothing} /\ owner \in Players \cup {Nothing}
      /\ requests \in Seq(Requests) /\ commands \in Seq(Asked) /\ tasks \in Seq(Asked)
      /\ loudness \in [Streams -> Int]
      /\ resting \in Levels \cup {Nothing} /\ wanted \in Levels \cup {Nothing}
      /\ timeouts \in Nat
  BY DEF VolumeTyped
<1>2. CASE Drag
  <2>1. /\ resting' \in Levels /\ wanted' \in Levels \cup {Nothing}
        /\ UNCHANGED <<attached, owner, requests, commands, tasks, loudness, timeouts>>
    BY <1>2 DEF Drag, Acts, server, knowledge, thread
  <2> QED BY <1>1, <2>1 DEF VolumeTyped
<1>3. CASE Rest
  <2> DEFINE c == [kind |-> "set", to |-> resting]
  <2>1. /\ resting # Nothing /\ resting' = Nothing /\ commands' = Append(commands, c)
        /\ UNCHANGED <<attached, owner, requests, tasks, loudness, wanted, timeouts>>
    BY <1>3 DEF Rest, server, knowledge, thread, history, bounds
  <2>2. c \in Asked BY <1>1, <2>1, VolumeBounds DEF Asked
  <2> HIDE DEF c
  <2>3. commands' \in Seq(Asked) BY <1>1, <2>1, <2>2, AppendProperties
  <2> QED BY <1>1, <2>1, <2>3 DEF VolumeTyped
<1>4. CASE Click
  <2>1. PICK c \in Commands : commands' = Append(commands, c)
                              /\ wanted' = IF c.kind = "by" THEN Nothing ELSE wanted
    BY <1>4 DEF Click
  <2>2. c \in Asked BY DEF Commands, Asked
  <2>3. commands' \in Seq(Asked) BY <1>1, <2>1, <2>2, AppendProperties
  <2>4. UNCHANGED <<attached, owner, requests, tasks, loudness, resting, timeouts>>
    BY <1>4 DEF Click, Acts, server, window, knowledge, thread
  <2> QED BY <1>1, <2>1, <2>3, <2>4 DEF VolumeTyped
<1>5. CASE TakeCommand
  <2>1. commands' \in Seq(Asked) /\ requests' \in Seq(Requests)
    <3>1. Head(commands) \in Asked /\ commands' \in Seq(Asked)
      BY <1>5, CommandTaken
    <3>2. CASE Head(commands).kind \in {"set", "by", "mute"} /\ AudioRequest(Head(commands))
      BY <3>1, <3>2, RequestMade
    <3>3. CASE UNCHANGED requests BY <1>1, <3>1, <3>3
    <3> QED BY <1>5, <3>1, <3>2, <3>3, CommandTaken
  <2>2. tasks' \in Seq(Asked)
    <3>1. Head(commands) \in Asked /\ tasks' \in {tasks, Append(tasks, Head(commands))}
      BY <1>5, CommandTaken
    <3>2. Append(tasks, Head(commands)) \in Seq(Asked) BY <1>1, <3>1, AppendProperties
    <3> QED BY <1>1, <3>1, <3>2
  <2>3. UNCHANGED <<attached, owner, loudness, resting, wanted, timeouts>>
    BY <1>5, CommandTaken
  <2> QED BY <1>1, <2>1, <2>2, <2>3 DEF VolumeTyped
<1>6. CASE Attach
  <2>1. PICK p \in Players : attached' = p /\ requests' = Refreshes(p) BY <1>6 DEF Attach
  <2>2. [kind |-> "refresh", to |-> 0, owner |-> p] \in Requests BY DEF Requests
  <2>3. requests' \in Seq(Requests) BY <1>1, <2>1, <2>2, AppendProperties DEF Refreshes
  <2>4. wanted' = Nothing /\ UNCHANGED <<owner, commands, tasks, loudness, resting, timeouts>>
    BY <1>6 DEF Attach, Acts, server, window, knowledge
  <2> QED BY <1>1, <2>1, <2>3, <2>4 DEF VolumeTyped
<1>7. CASE Detach
  <2>1. attached' = Nothing /\ wanted' = Nothing
        /\ UNCHANGED <<owner, requests, commands, tasks, loudness, resting, timeouts>>
    BY <1>7 DEF Detach, server, window, knowledge, thread, bounds
  <2> QED BY <1>1, <2>1 DEF VolumeTyped
<1>8. CASE TakeRequest
  <2>1. /\ requests' \in Seq(Requests) /\ owner' \in Players /\ Head(requests) \in Requests
        /\ UNCHANGED <<attached, commands, tasks, resting, wanted>>
    BY <1>8, RequestTaken
  <2>2. PICK s \in Streams \cup {Nothing} : Finds(owner', s) /\ Apply(Head(requests), s)
    BY <1>8, RequestTaken
  <2>3. loudness' \in [Streams -> Int] BY <2>1, <2>2, Applied
  <2>4. timeouts' \in Nat BY <1>1, <2>2 DEF Finds
  <2> QED BY <1>1, <2>1, <2>3, <2>4 DEF VolumeTyped
<1>9. CASE Read
  <2>1. timeouts' \in Nat BY <1>1, <1>9 DEF Read, Finds
  <2>2. UNCHANGED <<attached, owner, requests, commands, tasks, loudness, resting, wanted>>
    BY <1>9 DEF Read, server, window, knowledge
  <2> QED BY <1>1, <2>1, <2>2 DEF VolumeTyped
<1>10. CASE Elsewhere
  <2>1. loudness' \in [Streams -> Int]
    <3>1. Full + 1 \in Nat BY VolumeBounds
    <3>2. \A v \in 0..(Full + 1) : v \in Int BY <3>1
    <3> QED BY <1>1, <1>10, <3>2 DEF Elsewhere
  <2>2. wanted' = Nothing
        /\ UNCHANGED <<attached, owner, requests, commands, tasks, resting, timeouts>>
    BY <1>10 DEF Elsewhere, Acts, window, knowledge, thread
  <2> QED BY <1>1, <2>1, <2>2 DEF VolumeTyped
<1>11. CASE Remotely
  <2>1. tasks # <<>> /\ tasks' = Tail(tasks)
        /\ UNCHANGED <<attached, owner, requests, commands, loudness, resting, wanted, timeouts>>
    BY <1>11 DEF Remotely, server, window, thread, history, bounds
  <2>2. tasks' \in Seq(Asked) BY <1>1, <2>1, HeadTailProperties
  <2> QED BY <1>1, <2>1, <2>2 DEF VolumeTyped
<1>12. CASE RenderAudio \/ HandleDevices \/ Wake \/ Callback
  <2>1. UNCHANGED <<attached, owner, requests, commands, tasks, loudness, resting, wanted,
                    timeouts>>
    BY <1>12 DEF RenderAudio, HandleDevices, Wake, Callback, server, window,
       knowledge, thread,
       history, bounds
  <2> QED BY <1>1, <2>1 DEF VolumeTyped
<1>13. CASE UNCHANGED vars
  <2>1. UNCHANGED <<attached, owner, requests, commands, tasks, loudness, resting, wanted,
                    timeouts>>
    BY <1>13 DEF vars, server, window, knowledge, thread, history, bounds
  <2> QED BY <1>1, <2>1 DEF VolumeTyped
<1> QED BY <1>2, <1>3, <1>4, <1>5, <1>6, <1>7, <1>8, <1>9, <1>10, <1>11, <1>12, <1>13
        DEF Next, Window, Engine, Worker, World

-----------------------------------------------------------------------------
(* What is reported. *)

LEMMA ReportStays ==
  ASSUME VolumeTyped, ReportShown, [Next]_vars
  PROVE  ReportShown'
<1>1. CASE Read
  <2>1. PICK s \in Streams \cup {Nothing} :
            IF Snapshot(s) # last THEN Reports(Snapshot(s)) ELSE UNCHANGED <<last, audio, unseen>>
    BY <1>1 DEF Read
  <2>2. CASE UNCHANGED <<last, audio>> BY <2>2 DEF ReportShown
  <2>3. CASE Reports(Snapshot(s))
    <3>1. Snapshot(s) = [volume |-> Snapshot(s).volume, muted |-> Snapshot(s).muted]
      BY DEF Snapshot, Silence
    <3>2. last' = Snapshot(s) /\ audio'.volume = Snapshot(s).volume
          /\ audio'.muted = Snapshot(s).muted
      BY <2>3 DEF Reports
    <3> QED BY <3>1, <3>2 DEF ReportShown
  <2> QED BY <2>1, <2>2, <2>3
<1>2. CASE Next /\ ~Read
  <2>1. UNCHANGED <<last, audio>>
    BY <1>2, CommandTaken, RequestTaken DEF Next, Window, Engine, Worker, World, Drag,
       Rest,
       Click, RenderAudio, HandleDevices, Attach, Detach, Wake, Callback, Elsewhere, Remotely,
       thread
  <2> QED BY <2>1 DEF ReportShown
<1>3. CASE UNCHANGED vars BY <1>3 DEF ReportShown, vars, thread
<1> QED BY <1>1, <1>2, <1>3

LEMMA WatchStays ==
  ASSUME VolumeTyped, WatchesForTheirs, [Next]_vars
  PROVE  WatchesForTheirs'
<1>1. requests \in Seq(Requests) BY DEF VolumeTyped
<1>2. CASE TakeCommand
  <2>1. UNCHANGED <<attached, owner>> /\ Head(commands) \in Asked BY <1>2, CommandTaken
  <2>2. CASE UNCHANGED requests BY <2>1, <2>2 DEF WatchesForTheirs
  <2>3. CASE Head(commands).kind \in {"set", "by", "mute"} /\ AudioRequest(Head(commands))
    <3> DEFINE r == [kind |-> Head(commands).kind, to |-> Head(commands).to, owner |-> attached]
    <3>1. CASE attached = Nothing BY <2>1, <3>1 DEF WatchesForTheirs
    <3>2. CASE attached # Nothing
      <4>1. r \in Requests /\ requests' = Append(requests, r)
        BY <2>1, <2>3, <3>2, RequestMade
      <4>2. r.owner = attached OBVIOUS
      <4> HIDE DEF r
      <4>3. requests' # <<>> /\ requests'[Len(requests')] = r
        <5>1. Len(requests') = Len(requests) + 1 /\ requests'[Len(requests')] = r
          BY <1>1, <4>1, ValueAppended
        <5>2. Len(requests) \in Nat BY <1>1, SequenceEnds
        <5>3. Len(requests') # 0 BY <5>1, <5>2
        <5> QED BY <5>1, <5>3
      <4> QED BY <2>1, <4>2, <4>3 DEF WatchesForTheirs
    <3> QED BY <3>1, <3>2
  <2> QED BY <1>2, <2>2, <2>3, CommandTaken
<1>3. CASE Attach
  <2>1. PICK p \in Players : attached' = p /\ requests' = Refreshes(p) BY <1>3 DEF Attach
  <2> DEFINE r == [kind |-> "refresh", to |-> 0, owner |-> p]
  <2>2. r \in Requests /\ r.owner = p /\ requests' = Append(requests, r)
    BY <2>1 DEF Requests, Refreshes
  <2> HIDE DEF r
  <2>3. Len(requests') = Len(requests) + 1 /\ requests'[Len(requests')] = r
    BY <1>1, <2>2, ValueAppended
  <2>4. Len(requests) \in Nat BY <1>1, SequenceEnds
  <2>5. requests' # <<>>
    <3>1. Len(requests') # 0 BY <2>3, <2>4
    <3> QED BY <3>1
  <2> QED BY <2>1, <2>2, <2>3, <2>5 DEF WatchesForTheirs
<1>4. CASE Detach BY <1>4 DEF Detach, WatchesForTheirs
<1>5. CASE TakeRequest
  <2>1. /\ requests # <<>> /\ requests' = Tail(requests) /\ owner' = Head(requests).owner
        /\ attached' = attached
    BY <1>5, RequestTaken
  <2>2. attached # Nothing => requests[Len(requests)].owner = attached
    BY <2>1 DEF WatchesForTheirs
  <2>3. CASE requests' = <<>>
    <3>1. Len(requests) = 1 /\ Head(requests) = requests[1]
      BY <1>1, <2>1, <2>3, ValueTaken, SequenceEnds
    <3> QED BY <2>1, <2>2, <2>3, <3>1 DEF WatchesForTheirs
  <2>4. CASE requests' # <<>>
    <3>1. requests'[Len(requests')] = requests[Len(requests)]
      BY <1>1, <2>1, <2>4, ValueTaken
    <3> QED BY <2>1, <2>2, <2>4, <3>1 DEF WatchesForTheirs
  <2> QED BY <2>3, <2>4
<1>6. CASE \/ Drag \/ Rest \/ Click \/ RenderAudio \/ HandleDevices \/ Wake \/ Read
           \/ Callback \/ Elsewhere \/ Remotely
  <2>1. UNCHANGED <<attached, requests, owner>>
    BY <1>6 DEF Drag, Rest, Click, RenderAudio, HandleDevices, Wake, Read, Callback,
       Elsewhere,
       Remotely, thread
  <2> QED BY <2>1 DEF WatchesForTheirs
<1>7. CASE UNCHANGED vars BY <1>7 DEF vars, thread, WatchesForTheirs
<1> QED BY <1>2, <1>3, <1>4, <1>5, <1>6, <1>7 DEF Next, Window, Engine, Worker, World

\* What a stream is like, and whose it is, is left alone by everybody else.
LEMMA SnapshotSame ==
  ASSUME UNCHANGED <<present, loudness, mute, owner>>
  PROVE  Snapshot(FindInput(owner))' = Snapshot(FindInput(owner))
BY DEF Snapshot, FindInput, Owned

LEMMA TruthStays ==
  ASSUME VolumeTyped, ReportIsTrue, [Next]_vars
  PROVE  ReportIsTrue'
<1>1. CASE Read
  <2>1. PICK s \in Streams \cup {Nothing} :
            /\ late' = (s # FindInput(owner))
            /\ IF Snapshot(s) # last THEN Reports(Snapshot(s)) ELSE UNCHANGED <<last, audio, unseen>>
    BY <1>1 DEF Read
  <2>2. last' = Snapshot(s) BY <2>1 DEF Reports
  <2>3. UNCHANGED <<present, loudness, mute, owner>> BY <1>1 DEF Read, server
  <2>4. Snapshot(FindInput(owner))' = Snapshot(FindInput(owner)) BY <2>3, SnapshotSame
  <2>5. ~late' => Snapshot(s) = Snapshot(FindInput(owner)) BY <2>1
  <2> QED BY <2>2, <2>4, <2>5 DEF ReportIsTrue
<1>2. CASE TakeRequest \/ Wake
  <2>1. reading' BY <1>2 DEF TakeRequest, Wake
  <2> QED BY <2>1 DEF ReportIsTrue
<1>3. CASE Elsewhere BY <1>3 DEF Elsewhere, ReportIsTrue
<1>4. CASE Callback BY <1>4 DEF Callback, ReportIsTrue
<1>5. CASE TakeCommand
  <2>1. UNCHANGED <<present, loudness, mute, owner, last, dirty, reading, callback, late>>
    BY <1>5, CommandTaken
  <2>2. Snapshot(FindInput(owner))' = Snapshot(FindInput(owner)) BY <2>1, SnapshotSame
  <2>3. requests' = <<>> => requests = <<>>
    <3>1. CASE UNCHANGED requests BY <3>1
    <3>2. CASE Head(commands).kind \in {"set", "by", "mute"} /\ AudioRequest(Head(commands))
      <4>1. requests \in Seq(Requests) /\ Head(commands) \in Asked
        BY <1>5, CommandTaken DEF VolumeTyped
      <4> DEFINE r == [kind |-> Head(commands).kind, to |-> Head(commands).to, owner |-> attached]
      <4>2. attached # Nothing => r \in Requests /\ requests' = Append(requests, r)
        BY <3>2, <4>1, RequestMade
      <4>3. attached = Nothing => requests' = requests BY <3>2, <4>1, RequestMade
      <4> HIDE DEF r
      <4>4. attached # Nothing => Len(requests') = Len(requests) + 1 /\ Len(requests) \in Nat
        BY <4>1, <4>2, ValueAppended, SequenceEnds
      <4>5. attached # Nothing => Len(requests') # 0 BY <4>4
      <4> QED BY <4>3, <4>5
    <3> QED BY <1>5, <3>1, <3>2, CommandTaken
  <2> QED BY <2>1, <2>2, <2>3 DEF ReportIsTrue
<1>6. CASE Attach
  <2>1. PICK p \in Players : requests' = Refreshes(p) BY <1>6 DEF Attach
  <2>2. requests' # <<>>
    <3> DEFINE r == [kind |-> "refresh", to |-> 0, owner |-> p]
    <3>1. requests \in Seq(Requests) /\ r \in Requests /\ requests' = Append(requests, r)
      BY <2>1 DEF VolumeTyped, Requests, Refreshes
    <3> HIDE DEF r
    <3>2. Len(requests') = Len(requests) + 1 /\ Len(requests) \in Nat
      BY <3>1, ValueAppended, SequenceEnds
    <3>3. Len(requests') # 0 BY <3>2
    <3> QED BY <3>3
  <2> QED BY <2>2 DEF ReportIsTrue
<1>7. CASE \/ Drag \/ Rest \/ Click \/ RenderAudio \/ HandleDevices \/ Detach \/ Remotely
           \/ UNCHANGED vars
  <2>1. UNCHANGED <<present, loudness, mute, owner, last, dirty, reading, callback, late,
                    requests>>
    BY <1>7 DEF Drag, Rest, Click, RenderAudio, HandleDevices, Detach, Remotely, vars,
       server,
       thread, history
  <2>2. Snapshot(FindInput(owner))' = Snapshot(FindInput(owner)) BY <2>1, SnapshotSame
  <2> QED BY <2>1, <2>2 DEF ReportIsTrue
<1> QED BY <1>1, <1>2, <1>3, <1>4, <1>5, <1>6, <1>7 DEF Next, Window, Engine, Worker, World

-----------------------------------------------------------------------------
(* The last drag. *)

LEMMA FindSame ==
  ASSUME UNCHANGED <<present, attached>>
  PROVE  FindInput(attached)' = FindInput(attached)
BY DEF FindInput, Owned

\* Only these steps leave a drag that counts.
LEMMA StillWanted ==
  ASSUME VolumeTyped, [Next]_vars, wanted' # Nothing
  PROVE  /\ UNCHANGED <<present, attached>> /\ free' = free
         /\ timeouts' = 0 => timeouts = 0
         /\ ~Drag => wanted' = wanted
         /\ ~Attach /\ ~Detach /\ ~Elsewhere
<1>1. timeouts \in Nat BY DEF VolumeTyped
<1>2. ~Attach /\ ~Detach /\ ~Elsewhere BY DEF Attach, Detach, Elsewhere
<1>3. UNCHANGED <<present, attached, free>>
  BY <1>2, CommandTaken, RequestTaken DEF Next, Window, Engine, Worker, World, Drag,
     Rest,
     Click, RenderAudio, HandleDevices, Wake, Read, Callback, Remotely, server, spotify, vars
<1>4. ~Drag => wanted' = wanted
  BY <1>2, CommandTaken, RequestTaken DEF Next, Window, Engine, Worker, World, Rest,
     Click,
     RenderAudio, HandleDevices, Wake, Read, Callback, Remotely, history, vars
<1>5. timeouts' = timeouts \/ timeouts' = timeouts + 1
  <2>1. CASE Read \/ TakeRequest BY <2>1, RequestTaken DEF Read, Finds
  <2>2. CASE ~Read /\ ~TakeRequest
    BY <1>2, <2>2, CommandTaken DEF Next, Window, Engine, Worker, World, Drag, Rest,
       Click,
       RenderAudio, HandleDevices, Wake, Callback, Remotely, Acts, bounds, vars
  <2> QED BY <2>1, <2>2
<1> QED BY <1>1, <1>2, <1>3, <1>4, <1>5

LEMMA DragFindsStays ==
  ASSUME VolumeTyped, DragFinds, [Next]_vars
  PROVE  DragFinds'
<1> SUFFICES ASSUME wanted' # Nothing
             PROVE  attached' # Nothing /\ FindInput(attached)' # Nothing
  BY DEF DragFinds
<1>1. attached' = attached /\ FindInput(attached)' = FindInput(attached)
  BY StillWanted, FindSame
<1>2. CASE Drag
  <2>1. attached # Nothing /\ FindInput(attached) # Nothing BY <1>2 DEF Drag
  <2> QED BY <1>1, <2>1
<1>3. CASE ~Drag
  <2>1. wanted # Nothing BY <1>3, StillWanted
  <2> QED BY <1>1, <2>1 DEF DragFinds
<1> QED BY <1>2, <1>3

LEMMA EndStays ==
  ASSUME AtTheEnd, UNCHANGED <<requests, tasks, loudness, remote, attached, present, wanted>>
  PROVE  AtTheEnd'
<1>1. FindInput(attached)' = FindInput(attached) BY FindSame
<1> QED BY <1>1 DEF AtTheEnd, LastSays

LEMMA WayOfCommand ==
  ASSUME VolumeTyped, DragFinds, TakeCommand, wanted # Nothing,
         (\E i \in DOMAIN commands : LastSays(commands, i)) \/ (NoValue(commands) /\ AtTheEnd)
  PROVE  (\E i \in DOMAIN commands : LastSays(commands, i))' \/ (NoValue(commands) /\ AtTheEnd)'
<1> DEFINE c == Head(commands)
           r == [kind |-> c.kind, to |-> c.to, owner |-> attached]
<1>1. /\ commands \in Seq(Asked) /\ requests \in Seq(Requests) /\ tasks \in Seq(Asked)
      /\ commands # <<>> /\ commands' = Tail(commands) /\ c \in Asked
      /\ UNCHANGED <<wanted, attached, present, loudness, remote>>
  BY CommandTaken DEF VolumeTyped
<1>2. attached # Nothing BY DEF DragFinds
<1>3. FindInput(attached)' = FindInput(attached) BY <1>1, FindSame
<1>4. \/ /\ r \in Requests /\ requests' = Append(requests, r) /\ tasks' = tasks
         /\ c.kind \in {"set", "by", "mute"}
      \/ /\ tasks' = Append(tasks, c) /\ requests' = requests
         /\ c.kind \in {"set", "transfer", "devices"}
  BY <1>1, <1>2, CommandTaken, RequestMade
<1>5. r.kind = c.kind /\ r.to = c.to /\ r.owner = attached OBVIOUS
<1> HIDE DEF c, r
\* The drag's own command comes to the end of the other queue.
<1>6. CASE LastSays(commands, 1)
  <2>1. NoValue(commands') /\ c.kind = "set" /\ c.to = wanted
    BY <1>1, <1>6, ValueTaken DEF LastSays, c
  <2>2. CASE r \in Requests /\ requests' = Append(requests, r)
    <3>0. r.kind \in Values BY <1>5, <2>1 DEF Values
    <3>1. /\ LastValue(requests', Len(requests')) /\ requests'[Len(requests')] = r
      <4>1. LET longer == Append(requests, r)
            IN  LastValue(longer, Len(longer)) /\ longer[Len(longer)] = r
        BY <1>1, <2>2, <3>0, ValueAppended
      <4> QED BY <2>2, <4>1
    <3>2. Len(requests') \in DOMAIN requests' BY <3>1 DEF LastValue
    <3>3. AtTheEnd' BY <1>1, <1>5, <2>1, <3>1, <3>2 DEF AtTheEnd, LastSays
    <3> QED BY <2>1, <3>3
  <2>3. CASE tasks' = Append(tasks, c)
    <3>0. c.kind \in Values BY <2>1 DEF Values
    <3>1. LastValue(tasks', Len(tasks')) /\ tasks'[Len(tasks')] = c
      <4>1. LET longer == Append(tasks, c)
            IN  LastValue(longer, Len(longer)) /\ longer[Len(longer)] = c
        BY <1>1, <3>0, ValueAppended
      <4> QED BY <2>3, <4>1
    <3>2. Len(tasks') \in DOMAIN tasks' BY <3>1 DEF LastValue
    <3>3. AtTheEnd' BY <1>1, <2>1, <3>1, <3>2 DEF AtTheEnd, LastSays
    <3> QED BY <2>1, <3>3
  <2> QED BY <1>4, <2>2, <2>3
<1>7. CASE \E i \in DOMAIN commands : LastSays(commands, i) /\ i # 1
  <2>1. PICK i \in DOMAIN commands : LastSays(commands, i) /\ i # 1 BY <1>7
  <2>2. LastValue(commands', i - 1) /\ commands'[i - 1] = commands[i]
    BY <1>1, <2>1, ValueTaken DEF LastSays
  <2>3. i - 1 \in DOMAIN commands' BY <2>2 DEF LastValue
  <2> QED BY <1>1, <2>1, <2>2, <2>3 DEF LastSays
<1>8. CASE NoValue(commands) /\ AtTheEnd
  <2>1. NoValue(commands') /\ c.kind \notin Values BY <1>1, <1>8, ValueTaken DEF c
  <2>2. CASE r \in Requests /\ requests' = Append(requests, r) /\ tasks' = tasks
    <3>1. /\ NoValue(requests) => NoValue(requests')
          /\ \A i : LastValue(requests, i) => LastValue(requests', i)
                                              /\ requests'[i] = requests[i]
      <4>1. r.kind \notin Values BY <1>5, <2>1
      <4>2. NoValue(requests) => NoValue(Append(requests, r))
        BY <1>1, <2>2, <4>1, ValueAppended
      <4>3. ASSUME NEW i, LastValue(requests, i)
            PROVE  /\ LastValue(Append(requests, r), i)
                   /\ Append(requests, r)[i] = requests[i]
        BY <1>1, <2>2, <4>1, <4>3, ValueKept
      <4> QED BY <2>2, <4>2, <4>3
    <3>2. \A i : LastValue(requests', i) => i \in DOMAIN requests' BY DEF LastValue
    <3>3. AtTheEnd' BY <1>1, <1>3, <1>8, <2>2, <3>1, <3>2 DEF AtTheEnd, LastSays
    <3> QED BY <2>1, <3>3
  <2>3. CASE tasks' = Append(tasks, c) /\ requests' = requests
    <3>1. /\ NoValue(tasks) => NoValue(tasks')
          /\ \A i : LastValue(tasks, i) => LastValue(tasks', i) /\ tasks'[i] = tasks[i]
      <4>1. NoValue(tasks) => NoValue(Append(tasks, c))
        BY <1>1, <2>1, ValueAppended
      <4>2. ASSUME NEW i, LastValue(tasks, i)
            PROVE  /\ LastValue(Append(tasks, c), i)
                   /\ Append(tasks, c)[i] = tasks[i]
        BY <1>1, <2>1, <4>2, ValueKept
      <4> QED BY <2>3, <4>1, <4>2
    <3>2. \A i : LastValue(tasks', i) => i \in DOMAIN tasks' BY DEF LastValue
    <3>3. AtTheEnd' BY <1>1, <1>3, <1>8, <2>3, <3>1, <3>2 DEF AtTheEnd, LastSays
    <3> QED BY <2>1, <3>3
  <2> QED BY <1>4, <2>2, <2>3
<1> QED BY <1>6, <1>7, <1>8

LEMMA WayOfRequest ==
  ASSUME VolumeTyped, DragFinds, TakeRequest, wanted # Nothing, timeouts = 0, timeouts' = 0,
         AtTheEnd
  PROVE  AtTheEnd'
<1> DEFINE r == Head(requests)
<1>1. /\ requests \in Seq(Requests) /\ requests # <<>> /\ requests' = Tail(requests)
      /\ r \in Requests /\ owner' = r.owner /\ wanted \in Levels
      /\ UNCHANGED <<wanted, attached, present, tasks, remote>>
  BY RequestTaken DEF VolumeTyped
<1>2. FindInput(attached)' = FindInput(attached) BY <1>1, FindSame
<1>3. PICK s \in Streams \cup {Nothing} : Finds(owner', s) /\ Apply(r, s)
  BY RequestTaken
<1>4. s = FindInput(owner') BY <1>3 DEF Finds
<1>5. r.kind \in {"set", "by", "mute", "refresh"} BY <1>1 DEF Requests
<1> HIDE DEF r
<1>6. CASE \E i \in DOMAIN requests : LastSays(requests, i) /\ requests[i].owner = attached
  <2>1. PICK i \in DOMAIN requests : LastSays(requests, i) /\ requests[i].owner = attached
    BY <1>6
  <2>2. CASE i = 1
    <3>1. NoValue(requests') /\ r = requests[i]
      BY <1>1, <2>1, <2>2, ValueTaken DEF LastSays, r
    <3>2. r.kind = "set" /\ r.to = wanted /\ r.owner = attached
      BY <2>1, <3>1 DEF LastSays
    <3>3. s = FindInput(attached) /\ s # Nothing BY <1>1, <1>4, <3>2 DEF DragFinds
    <3>4. loudness'[s] = Clamp(wanted) BY <1>1, <1>3, <3>2, <3>3, Applied
    <3>5. loudness'[s] = wanted BY <1>1, <3>4, LevelsClamp
    <3> QED BY <1>1, <1>2, <3>1, <3>3, <3>5 DEF AtTheEnd
  <2>3. CASE i # 1
    <3>1. LastValue(requests', i - 1) /\ requests'[i - 1] = requests[i]
      BY <1>1, <2>1, <2>3, ValueTaken DEF LastSays
    <3>2. i - 1 \in DOMAIN requests' BY <3>1 DEF LastValue
    <3> QED BY <1>1, <2>1, <3>1, <3>2 DEF AtTheEnd, LastSays
  <2> QED BY <2>2, <2>3
<1>7. CASE NoValue(requests) /\ loudness[FindInput(attached)] = wanted
  <2>1. NoValue(requests') /\ r.kind \notin Values BY <1>1, <1>7, ValueTaken DEF r
  <2>2. loudness' = loudness BY <1>1, <1>3, <1>5, <2>1, Applied DEF Values
  <2> QED BY <1>1, <1>2, <1>7, <2>1, <2>2 DEF AtTheEnd
<1>8. CASE (\E i \in DOMAIN tasks : LastSays(tasks, i)) \/ (NoValue(tasks) /\ remote = wanted)
  BY <1>1, <1>8 DEF AtTheEnd, LastSays
<1> QED BY <1>6, <1>7, <1>8 DEF AtTheEnd

LEMMA WayOfTask ==
  ASSUME VolumeTyped, Remotely, ~free, AtTheEnd
  PROVE  AtTheEnd'
<1>1. /\ tasks \in Seq(Asked) /\ tasks # <<>> /\ tasks' = Tail(tasks)
      /\ remote' = IF Head(tasks).kind = "set" /\ ~free THEN Head(tasks).to ELSE remote
      /\ UNCHANGED <<wanted, attached, present, requests, loudness>>
  BY DEF Remotely, VolumeTyped, server, thread, history
<1>2. FindInput(attached)' = FindInput(attached) BY <1>1, FindSame
<1>3. CASE \/ \E i \in DOMAIN requests : LastSays(requests, i) /\ requests[i].owner = attached
           \/ NoValue(requests) /\ loudness[FindInput(attached)] = wanted
  BY <1>1, <1>2, <1>3 DEF AtTheEnd, LastSays
<1>4. CASE \E i \in DOMAIN tasks : LastSays(tasks, i)
  <2>1. PICK i \in DOMAIN tasks : LastSays(tasks, i) BY <1>4
  <2>2. CASE i = 1
    <3>1. NoValue(tasks') /\ Head(tasks) = tasks[i] BY <1>1, <2>1, <2>2, ValueTaken DEF LastSays
    <3>2. remote' = wanted BY <1>1, <2>1, <3>1 DEF LastSays
    <3> QED BY <1>1, <3>1, <3>2 DEF AtTheEnd
  <2>3. CASE i # 1
    <3>1. LastValue(tasks', i - 1) /\ tasks'[i - 1] = tasks[i]
      BY <1>1, <2>1, <2>3, ValueTaken DEF LastSays
    <3>2. i - 1 \in DOMAIN tasks' BY <3>1 DEF LastValue
    <3> QED BY <1>1, <2>1, <3>1, <3>2 DEF AtTheEnd, LastSays
  <2> QED BY <2>2, <2>3
<1>5. CASE NoValue(tasks) /\ remote = wanted
  <2>1. NoValue(tasks') /\ Head(tasks).kind \notin Values BY <1>1, <1>5, ValueTaken
  <2>2. remote' = wanted BY <1>1, <1>5, <2>1 DEF Values
  <2> QED BY <1>1, <2>1, <2>2 DEF AtTheEnd
<1> QED BY <1>3, <1>4, <1>5 DEF AtTheEnd

LEMMA WayStays ==
  ASSUME VolumeTyped, DragFinds, OnItsWay, [Next]_vars
  PROVE  OnItsWay'
<1>1. commands \in Seq(Asked) /\ resting \in Levels \cup {Nothing} BY DEF VolumeTyped
<1>2. SUFFICES ASSUME wanted' # Nothing
               PROVE  /\ resting' # Nothing => resting' = wanted'
                      /\ timeouts' = 0 /\ ~free' /\ resting' = Nothing =>
                            \/ (\E i \in DOMAIN commands : LastSays(commands, i))'
                            \/ (NoValue(commands) /\ AtTheEnd)'
  BY DEF OnItsWay
<1>3. UNCHANGED <<present, attached>> /\ free' = free /\ (timeouts' = 0 => timeouts = 0)
  BY <1>2, StillWanted
<1>4. CASE Drag
  <2>1. PICK v \in Levels : resting' = v /\ wanted' \in {v, Nothing} BY <1>4 DEF Drag
  <2>2. v # Nothing BY VolumeBounds
  <2> QED BY <1>2, <2>1, <2>2
<1>5. CASE Rest
  <2> DEFINE c == [kind |-> "set", to |-> resting]
  <2>1. resting # Nothing /\ resting' = Nothing /\ commands' = Append(commands, c)
        /\ wanted' = wanted
    BY <1>5 DEF Rest, history
  <2>2. resting = wanted BY <1>2, <2>1 DEF OnItsWay
  <2>3. c \in Asked BY <1>1, <2>1, VolumeBounds DEF Asked
  <2>4. c.kind = "set" /\ c.to = wanted BY <2>2
  <2> HIDE DEF c
  <2>7. c.kind \in Values BY <2>4 DEF Values
  <2>5. LastValue(commands', Len(commands')) /\ commands'[Len(commands')] = c
    <3>1. LET longer == Append(commands, c)
          IN  LastValue(longer, Len(longer)) /\ longer[Len(longer)] = c
      BY <1>1, <2>3, <2>7, ValueAppended
    <3> QED BY <2>1, <3>1
  <2>6. Len(commands') \in DOMAIN commands' BY <2>5 DEF LastValue
  <2> QED BY <2>1, <2>4, <2>5, <2>6 DEF LastSays
<1>6. CASE Click
  <2>1. PICK c \in Commands : commands' = Append(commands, c)
                              /\ wanted' = IF c.kind = "by" THEN Nothing ELSE wanted
    BY <1>6 DEF Click
  <2>2. c \in Asked BY DEF Commands, Asked
  <2>3. c.kind \notin Values /\ wanted' = wanted BY <1>2, <2>1 DEF Commands, Values
  <2>4. UNCHANGED <<requests, tasks, loudness, remote, resting>>
    BY <1>6 DEF Click, server, window, knowledge, thread, spotify
  <2>5. /\ NoValue(commands) => NoValue(commands')
        /\ \A i : LastValue(commands, i) => LastValue(commands', i)
                                            /\ commands'[i] = commands[i]
    <3>1. NoValue(commands) => NoValue(Append(commands, c))
      BY <1>1, <2>2, <2>3, ValueAppended
    <3>2. ASSUME NEW i, LastValue(commands, i)
          PROVE  /\ LastValue(Append(commands, c), i)
                 /\ Append(commands, c)[i] = commands[i]
      BY <1>1, <2>2, <2>3, <3>2, ValueKept
    <3> QED BY <2>1, <3>1, <3>2
  <2>6. \A i : LastValue(commands', i) => i \in DOMAIN commands' BY DEF LastValue
  <2>7. resting' # Nothing => resting' = wanted' BY <1>2, <2>3, <2>4 DEF OnItsWay
  <2>8. ASSUME timeouts' = 0, ~free', resting' = Nothing
        PROVE  \/ (\E i \in DOMAIN commands : LastSays(commands, i))'
               \/ (NoValue(commands) /\ AtTheEnd)'
    <3>1. CASE \E i \in DOMAIN commands : LastSays(commands, i)
      BY <2>3, <2>5, <2>6, <3>1 DEF LastSays
    <3>2. CASE NoValue(commands) /\ AtTheEnd
      BY <1>3, <2>3, <2>4, <2>5, <3>2, EndStays
    <3> QED BY <1>2, <1>3, <2>3, <2>4, <2>8, <3>1, <3>2 DEF OnItsWay
  <2> QED BY <2>7, <2>8
<1>7. CASE TakeCommand
  <2>1. UNCHANGED <<resting, wanted, timeouts, free>> BY <1>7, CommandTaken
  <2>2. resting' # Nothing => resting' = wanted' BY <1>2, <2>1 DEF OnItsWay
  <2>3. timeouts' = 0 /\ ~free' /\ resting' = Nothing =>
            \/ (\E i \in DOMAIN commands : LastSays(commands, i))
            \/ (NoValue(commands) /\ AtTheEnd)
    BY <1>2, <2>1 DEF OnItsWay
  <2> QED BY <1>2, <1>7, <2>1, <2>2, <2>3, WayOfCommand
<1>8. CASE TakeRequest
  <2>1. UNCHANGED <<resting, wanted, commands, free>> BY <1>8, RequestTaken
  <2>2. resting' # Nothing => resting' = wanted' BY <1>2, <2>1 DEF OnItsWay
  <2>3. ASSUME timeouts' = 0, ~free', resting' = Nothing
        PROVE  \/ (\E i \in DOMAIN commands : LastSays(commands, i))'
               \/ (NoValue(commands) /\ AtTheEnd)'
    <3>1. \/ \E i \in DOMAIN commands : LastSays(commands, i)
          \/ NoValue(commands) /\ AtTheEnd
      BY <1>2, <1>3, <2>1, <2>3 DEF OnItsWay
    <3>2. CASE \E i \in DOMAIN commands : LastSays(commands, i)
      BY <2>1, <3>2 DEF LastSays
    <3>3. CASE NoValue(commands) /\ AtTheEnd
      BY <1>2, <1>3, <1>8, <2>1, <2>3, <3>3, WayOfRequest
    <3> QED BY <3>1, <3>2, <3>3
  <2> QED BY <2>2, <2>3
<1>9. CASE Remotely
  <2>1. UNCHANGED <<resting, wanted, commands, timeouts>>
    BY <1>9 DEF Remotely, window, history, bounds
  <2>2. resting' # Nothing => resting' = wanted' BY <1>2, <2>1 DEF OnItsWay
  <2>3. ASSUME timeouts' = 0, ~free', resting' = Nothing
        PROVE  \/ (\E i \in DOMAIN commands : LastSays(commands, i))'
               \/ (NoValue(commands) /\ AtTheEnd)'
    <3>1. \/ \E i \in DOMAIN commands : LastSays(commands, i)
          \/ NoValue(commands) /\ AtTheEnd
      BY <1>2, <1>3, <2>1, <2>3 DEF OnItsWay
    <3>2. CASE \E i \in DOMAIN commands : LastSays(commands, i)
      BY <2>1, <3>2 DEF LastSays
    <3>3. CASE NoValue(commands) /\ AtTheEnd
      BY <1>3, <1>9, <2>1, <2>3, <3>3, WayOfTask
    <3> QED BY <3>1, <3>2, <3>3
  <2> QED BY <2>2, <2>3
<1>10. CASE RenderAudio \/ HandleDevices \/ Wake \/ Read \/ Callback \/ UNCHANGED vars
  <2>1. UNCHANGED <<resting, commands, requests, tasks, loudness, remote, wanted>>
    BY <1>10 DEF RenderAudio, HandleDevices, Wake, Read, Callback, server, window,
       knowledge,
       thread, spotify, history, vars
  <2>2. resting' # Nothing => resting' = wanted' BY <1>2, <2>1 DEF OnItsWay
  <2>3. ASSUME timeouts' = 0, ~free', resting' = Nothing
        PROVE  \/ (\E i \in DOMAIN commands : LastSays(commands, i))'
               \/ (NoValue(commands) /\ AtTheEnd)'
    <3>1. \/ \E i \in DOMAIN commands : LastSays(commands, i)
          \/ NoValue(commands) /\ AtTheEnd
      BY <1>2, <1>3, <2>1, <2>3 DEF OnItsWay
    <3>2. CASE \E i \in DOMAIN commands : LastSays(commands, i)
      BY <2>1, <3>2 DEF LastSays
    <3>3. CASE NoValue(commands) /\ AtTheEnd
      BY <1>3, <2>1, <3>3, EndStays
    <3> QED BY <3>1, <3>2, <3>3
  <2> QED BY <2>2, <2>3
<1>11. ~Attach /\ ~Detach /\ ~Elsewhere BY <1>2, StillWanted
<1> QED BY <1>4, <1>5, <1>6, <1>7, <1>8, <1>9, <1>10, <1>11
        DEF Next, Window, Engine, Worker, World

LEMMA StreamsStay ==
  ASSUME VolumeTyped, StreamsAre, [Next]_vars
  PROVE  StreamsAre'
<1>1. CASE Elsewhere BY <1>1 DEF Elsewhere, StreamsAre
<1>2. CASE ~Elsewhere
  <2>1. present' = present
    BY <1>2, CommandTaken, RequestTaken DEF Next, Window, Engine, Worker, World, Drag,
       Rest,
       Click, RenderAudio, HandleDevices, Attach, Detach, Wake, Read, Callback, Remotely,
       server, vars
  <2> QED BY <2>1 DEF StreamsAre
<1> QED BY <1>1, <1>2

-----------------------------------------------------------------------------
(* Together. *)

VolumeInv ==
    /\ VolumeTyped /\ StreamsAre /\ ReportShown /\ WatchesForTheirs /\ ReportIsTrue
    /\ DragFinds /\ OnItsWay

LEMMA VolumeInitially == Init => VolumeInv
<1> SUFFICES ASSUME Init PROVE VolumeInv OBVIOUS
<1>1. VolumeTyped
  <2>1. Full \in Int BY VolumeBounds
  <2> QED BY <2>1 DEF Init, VolumeTyped
<1>2. ReportShown BY DEF Init, ReportShown, Silence
<1>3. WatchesForTheirs BY DEF Init, WatchesForTheirs
<1>4. ReportIsTrue BY DEF Init, ReportIsTrue, FindInput, Snapshot
<1>5. DragFinds BY DEF Init, DragFinds
<1>6. OnItsWay BY DEF Init, OnItsWay
<1>7. StreamsAre BY DEF Init, StreamsAre
<1> QED BY <1>1, <1>2, <1>3, <1>4, <1>5, <1>6, <1>7 DEF VolumeInv

LEMMA VolumeGoesOn == VolumeInv /\ [Next]_vars => VolumeInv'
<1> SUFFICES ASSUME VolumeInv, [Next]_vars PROVE VolumeInv' OBVIOUS
<1> USE DEF VolumeInv
<1>1. VolumeTyped' BY TypesStay
<1>2. ReportShown' BY ReportStays
<1>3. WatchesForTheirs' BY WatchStays
<1>4. ReportIsTrue' BY TruthStays
<1>5. DragFinds' BY DragFindsStays
<1>6. OnItsWay' BY WayStays
<1>7. StreamsAre' BY StreamsStay
<1> QED BY <1>1, <1>2, <1>3, <1>4, <1>5, <1>6, <1>7

LEMMA FindsTheirs ==
  ASSUME LabelsAreTrue, VolumeTyped, StreamsAre, attached # Nothing
  PROVE  FindInput(attached) = TheirFirst
<1>1. attached \in Players BY DEF VolumeTyped
<1>2. Owned(attached) = Theirs
  BY <1>1 DEF LabelsAreTrue, StreamsAre, Owned, Matches, Theirs
<1> QED BY <1>2 DEF FindInput, TheirFirst

\* When all is quiet the state carries the volume of the stream that is found
\* for the attached player, whatever set it and whoever played before, unless
\* the last read timed out (audio.rs Worker::run, engine.rs apply_audio).
THEOREM FoundIsShown ==
  Spec => [](Quiet /\ attached # Nothing /\ ~late =>
                 [volume |-> audio.volume, muted |-> audio.muted]
                     = Snapshot(FindInput(attached)))
<1> DEFINE Shown == Quiet /\ attached # Nothing /\ ~late =>
                        [volume |-> audio.volume, muted |-> audio.muted]
                            = Snapshot(FindInput(attached))
<1>1. VolumeInv => Shown
  BY DEF VolumeInv, Quiet, ReportShown, WatchesForTheirs, ReportIsTrue
<1>2. VolumeInv /\ [Next]_vars => VolumeInv' BY VolumeGoesOn
<1> HIDE DEF Shown
<1>3. Spec => []Shown BY <1>1, <1>2, VolumeInitially, PTL DEF Spec
<1> QED BY <1>3 DEF Shown

\* And that is the volume of the player's own stream when what the streams say
\* of themselves tells whose they are.
THEOREM VolumeSettlesAlways == LabelsAreTrue => (Spec => []VolumeSettles)
<1> SUFFICES ASSUME LabelsAreTrue PROVE Spec => []VolumeSettles OBVIOUS
<1>1. VolumeInv => VolumeSettles
  <2> SUFFICES ASSUME VolumeInv, Quiet, attached # Nothing, ~late
               PROVE  [volume |-> audio.volume, muted |-> audio.muted] = Snapshot(TheirFirst)
    BY DEF VolumeSettles
  <2>1. FindInput(attached) = TheirFirst BY FindsTheirs DEF VolumeInv
  <2>2. [volume |-> audio.volume, muted |-> audio.muted] = Snapshot(FindInput(attached))
    BY DEF VolumeInv, Quiet, ReportShown, WatchesForTheirs, ReportIsTrue
  <2> QED BY <2>1, <2>2
<1>2. VolumeInv /\ [Next]_vars => VolumeInv' BY VolumeGoesOn
<1> QED BY <1>1, <1>2, VolumeInitially, PTL DEF Spec

\* The last drag of the slider is what the player's stream is set to, or the
\* Connect device the music comes out of (ui.rs wire, engine.rs apply).
THEOREM LastDragWinsAlways == LabelsAreTrue => (Spec => []LastDragWins)
<1> SUFFICES ASSUME LabelsAreTrue PROVE Spec => []LastDragWins OBVIOUS
<1>1. VolumeInv => LastDragWins
  <2> SUFFICES ASSUME VolumeInv, Quiet, timeouts = 0, wanted # Nothing, ~free
               PROVE  loudness[TheirFirst] = wanted \/ remote = wanted
    BY DEF LastDragWins
  <2>1. FindInput(attached) = TheirFirst BY FindsTheirs DEF VolumeInv, DragFinds
  <2>2. /\ ~\E i \in DOMAIN commands : LastSays(commands, i)
        /\ ~\E i \in DOMAIN requests : LastSays(requests, i)
        /\ ~\E i \in DOMAIN tasks : LastSays(tasks, i)
    BY DEF Quiet
  <2>3. AtTheEnd BY <2>2 DEF VolumeInv, OnItsWay, Quiet
  <2> QED BY <2>1, <2>2, <2>3 DEF AtTheEnd
<1>2. VolumeInv /\ [Next]_vars => VolumeInv' BY VolumeGoesOn
<1> QED BY <1>1, <1>2, VolumeInitially, PTL DEF Spec
=============================================================================
