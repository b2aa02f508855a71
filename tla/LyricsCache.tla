------------------------------ MODULE LyricsCache ------------------------------
(***************************************************************************)
(* Lyrics, looked up at lrclib and cached on disk (waytify-core/src/       *)
(* lyrics.rs: fetch, read_cache, write_cache, lookup, search).             *)
(*                                                                         *)
(* One recording is followed.  lrclib is asked up to three times, in turn: *)
(* for the exact record if the player says how long the track is, then by  *)
(* its title, then by its title without the edition if it names one.  That *)
(* there are no lyrics is an answer, and is cached as one for a while.     *)
(*                                                                         *)
(* A unit of time is long against a lookup, each request of which is       *)
(* answered within TIMEOUT.                                                *)
(***************************************************************************)
EXTENDS Naturals, Sequences, SequencesExt

CONSTANTS
    Lookups,        \* tasks: nothing keeps two for one recording apart
    MissLifetime,   \* MISS_LIFETIME
    MaxTime, MaxEnds    \* bounds: of time; of the daemon's ends and failures

ASSUME LyricsCacheAssumption == {MissLifetime, MaxTime, MaxEnds} \subseteq Nat

VARIABLES
    now,
    asks,           \* what lrclib is asked for this recording, in turn
    filed,          \* which of these finds its timed lyrics
    uploaded,       \* since when lrclib has them, Never if not yet
    entry,          \* the file
    lookup,         \* of each task: where it is, what it found, and whether the file
                    \* was written between its reading and its age
    told,           \* history: the last answer, when it was given, and the like of it
    refused,        \* history: lrclib answered with an error
    ends

lyricsVars == <<now, asks, filed, uploaded, entry, lookup, told, refused, ends>>

Never == MaxTime + 1
Answers == {"hit", "miss"}
Being(place, found) == [at |-> place, found |-> found, overtaken |-> FALSE]
Idle == Being("idle", "miss")

LyricsInit ==
    /\ now = 0 /\ uploaded = Never
    /\ asks \in {<<"search">>, <<"exact", "search">>, <<"search", "plain">>,
                 <<"exact", "search", "plain">>}
    /\ filed \in (SUBSET ToSet(asks)) \ {{}}
    /\ entry = [is |-> "none", since |-> 0]
    /\ lookup = [t \in Lookups |-> Idle]
    /\ told = [is |-> "hit", at |-> 0, overtaken |-> FALSE]
    /\ refused = FALSE /\ ends = 0

Tells(t, answer) ==
    told' = [is |-> answer, at |-> now, overtaken |-> lookup[t].overtaken]

\* Where a task goes, and what it knows on its way.
Moves(t, place) == lookup' = [lookup EXCEPT ![t] = Being(place, @.found)]

\* The same, for one that has changed the file under those about to look at its age.
MovesOver(t, place) ==
    lookup' = [u \in Lookups |->
        CASE u = t -> Being(place, lookup[u].found)
          [] u # t /\ lookup[u].at = "checking" -> [lookup[u] EXCEPT !.overtaken = TRUE]
          [] OTHER -> lookup[u]]

-----------------------------------------------------------------------------

StartLookup(t) ==
    /\ lookup[t].at = "idle" /\ Moves(t, "reading")
    /\ UNCHANGED <<now, asks, filed, uploaded, entry, told, refused, ends>>

\* read_cache: what the file holds.  A hit is trusted for ever, and what cannot be
\* parsed not at all.
ReadCache(t) ==
    /\ lookup[t].at = "reading"
    /\ CASE entry.is = "hit" -> Tells(t, "hit") /\ Moves(t, "idle")
         [] entry.is = "miss" -> Moves(t, "checking") /\ UNCHANGED told
         [] OTHER -> Moves(t, Head(asks)) /\ UNCHANGED told
    /\ UNCHANGED <<now, asks, filed, uploaded, entry, refused, ends>>

\* A mistake: there are none for ever.
StaleNever == FALSE

\* is_stale: the age of the file as it is by now, which another lookup may have
\* emptied or written since.
Stale == now - entry.since > MissLifetime

\* A miss is trusted for its lifetime.
CheckAge(t) ==
    /\ lookup[t].at = "checking"
    /\ IF Stale
       THEN Moves(t, Head(asks)) /\ UNCHANGED told
       ELSE Tells(t, "miss") /\ Moves(t, "idle")
    /\ UNCHANGED <<now, asks, filed, uploaded, entry, refused, ends>>

\* Nothing there: the next request, or it is a miss.
Continues(t) ==
    LET step == CHOOSE i \in DOMAIN asks : asks[i] = lookup[t].at IN
    IF step < Len(asks) THEN Moves(t, asks[step + 1])
    ELSE lookup' = [lookup EXCEPT ![t] = Being("saving", "miss")]

\* lookup and search: what has no success is taken for nothing there.
Respond(t) ==
    /\ lookup[t].at \in ToSet(asks)
    /\ \/ /\ uploaded # Never /\ lookup[t].at \in filed
          /\ lookup' = [lookup EXCEPT ![t] = Being("saving", "hit")]
          /\ UNCHANGED <<refused, ends>>
       \/ /\ uploaded = Never \/ lookup[t].at \notin filed
          /\ Continues(t) /\ UNCHANGED <<refused, ends>>
       \/ /\ ends < MaxEnds /\ ends' = ends + 1
          /\ Continues(t) /\ refused' = TRUE
       \* No answer, or one that cannot be read: nothing is written.
       \/ /\ ends < MaxEnds /\ ends' = ends + 1
          /\ Moves(t, "idle") /\ UNCHANGED refused
    /\ UNCHANGED <<now, asks, filed, uploaded, entry, told>>

\* write_cache, in place: the file is emptied, then written.  Either may fail, and
\* the answer is told all the same.
OpenEntry(t) ==
    /\ lookup[t].at = "saving"
    /\ \/ /\ MovesOver(t, "writing") /\ entry' = [is |-> "torn", since |-> now]
          /\ UNCHANGED <<told, ends>>
       \/ /\ ends < MaxEnds /\ ends' = ends + 1
          /\ Tells(t, lookup[t].found) /\ Moves(t, "idle") /\ UNCHANGED entry
    /\ UNCHANGED <<now, asks, filed, uploaded, refused>>

WriteEntry(t) ==
    /\ lookup[t].at = "writing" /\ Tells(t, lookup[t].found)
    /\ \/ /\ MovesOver(t, "idle") /\ entry' = [is |-> lookup[t].found, since |-> now]
          /\ UNCHANGED ends
       \/ /\ ends < MaxEnds /\ ends' = ends + 1
          /\ Moves(t, "idle") /\ UNCHANGED entry
    /\ UNCHANGED <<now, asks, filed, uploaded, refused>>

Upload ==
    /\ uploaded = Never /\ uploaded' = now
    /\ UNCHANGED <<now, asks, filed, entry, lookup, told, refused, ends>>

Pass ==
    /\ now < MaxTime /\ now' = now + 1
    /\ \A t \in Lookups : lookup[t].at = "idle"
    /\ UNCHANGED <<asks, filed, uploaded, entry, lookup, told, refused, ends>>

DaemonEnds ==
    /\ ends < MaxEnds /\ ends' = ends + 1
    /\ lookup' = [t \in Lookups |-> Idle]
    /\ UNCHANGED <<now, asks, filed, uploaded, entry, told, refused>>

LyricsNext ==
    \/ \E t \in Lookups :
          \/ StartLookup(t) \/ ReadCache(t) \/ CheckAge(t) \/ Respond(t)
          \/ OpenEntry(t) \/ WriteEntry(t)
    \/ Upload \/ Pass \/ DaemonEnds

LyricsSpec == LyricsInit /\ [][LyricsNext]_lyricsVars

-----------------------------------------------------------------------------

\* "a newly added transcription turns up without clearing the cache by hand": no
\* lookup is told there are no lyrics longer than MISS_LIFETIME after they were
\* added, though a task that asked before can overwrite what one that asked after
\* has cached, and though a write may fail or the daemon end halfway through it.
\* Left out is the one that read an old miss and looked at its age only when another
\* had written the file.
MissesExpire ==
    told.is = "miss" /\ uploaded # Never /\ ~refused /\ ~told.overtaken =>
        told.at <= uploaded + MissLifetime

\* The sentence as it stands.  What the file says and how old it is are read one
\* after the other, and a second lookup of the recording writes in between: an old
\* miss is then as young as what was written over it.
MissesExpireAnyway ==
    told.is = "miss" /\ uploaded # Never /\ ~refused => told.at <= uploaded + MissLifetime

\* "`Err` is reserved for not having got an answer at all": a miss is cached only
\* when lrclib said so.  An error of the search is cached as a miss too.
MissesAreAnswers == entry.is = "miss" => ~refused
=============================================================================
