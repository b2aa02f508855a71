-------------------------------- MODULE Panels --------------------------------
(***************************************************************************)
(* The lists of the window (waytify-popup/src/ui.rs): the three collapsible *)
(* sections of tracks, the popovers of playlists, of search results and of  *)
(* devices, and the search box.                                             *)
(*                                                                          *)
(* A frame arrives at least once a second, and rebuilding a list would      *)
(* close it under the pointer: each remembers what it was last built from   *)
(* and is rebuilt only when that has changed.  What it remembers is not all *)
(* that it draws.                                                           *)
(*                                                                          *)
(* One list is followed, chosen at the start: nothing passes between them.  *)
(* A list of tracks is a name for its content.                              *)
(***************************************************************************)
EXTENDS Naturals, FiniteSets

CONSTANT MaxFrames   \* bound: how many frames arrive, and texts are typed

ASSUME PanelsAssumption == MaxFrames \in Nat

VARIABLES
    kind,       \* which list is followed
    frame,      \* the last frame
    panel,      \* the widgets and what they were built from
    text,       \* in the search box
    settling,   \* the search that goes out once typing has paused
    searches,   \* the tasks of the daemon that are asking Spotify
    asked,      \* the daemon was asked for what the open section is about
    frames

panelVars == <<kind, frame, panel, text, settling, searches, asked, frames>>

Sections == {"queue", "context", "recent"}
Popovers == {"playlists", "search", "devices"}
Lists == {"no rows", "list 1", "list 2"}
NoRows == "no rows"
NoNote == ""
Texts == {"", "one", "two", "nothing"}
NoSearch == "no search"

\* list: what is published.  playable: this account and this context can start
\* one of them.  offered: the context can be addressed, the account is logged
\* in.  flagged: the login is too old, or the context was refused.  active: the
\* one of the rows that is playing, a playlist.
Frames == [list : Lists, playable : BOOLEAN, offered : BOOLEAN, flagged : BOOLEAN,
           active : BOOLEAN]

FirstFrame == [list |-> NoRows, playable |-> FALSE, offered |-> FALSE, flagged |-> FALSE,
               active |-> FALSE]
NewPanel == [rows |-> NoRows, clickable |-> FALSE, note |-> NoNote, mark |-> FALSE,
             listed |-> NoRows, playable |-> FALSE, empty |-> NoNote,
             built |-> FALSE, visible |-> FALSE, open |-> FALSE]

PanelsInit ==
    /\ kind \in Sections \cup Popovers
    /\ frame = FirstFrame /\ panel = NewPanel
    /\ text = "" /\ settling = NoSearch /\ searches = {}
    /\ asked = FALSE /\ frames = 0

-----------------------------------------------------------------------------
(* A section of tracks: TrackSection. *)

\* A mistake: why an empty list is empty does not count as drawn.
SameAsDrawnButForTheNote(p, tracks, playable, empty) ==
    p.listed = tracks /\ p.playable = playable

SameAsDrawn(p, tracks, playable, empty) ==
    p.listed = tracks /\ p.playable = playable /\ p.empty = empty

\* TrackSection::render.  One that has gone away is closed.  An empty list draws
\* its note and is not remembered: listed stays what it was.
Section(p, tracks, offered, playable, empty) ==
    LET there == [p EXCEPT !.visible = offered, !.open = @ /\ offered]
        cleared == [there EXCEPT !.playable = playable, !.empty = empty, !.rows = NoRows]
    IN  IF SameAsDrawn(p, tracks, playable, empty) THEN there
        ELSE IF tracks = NoRows THEN [cleared EXCEPT !.note = empty]
        ELSE [cleared EXCEPT !.rows = tracks, !.clickable = playable, !.note = NoNote,
                             !.listed = tracks]

\* TrackSection::explain
Explain(p, message) ==
    [p EXCEPT !.rows = NoRows, !.note = message, !.listed = NoRows, !.empty = NoNote]

\* render_queue draws all three.  The queue comes unasked, so an empty one has no
\* section; the others have to be there to be opened.
Reason(f) == IF f.flagged THEN "login is too old" ELSE "nothing played"

RenderQueue(p, f) ==
    CASE kind = "queue" -> Section(p, f.list, f.list # NoRows, f.playable, NoNote)
      [] kind = "context" ->
             LET rendered == Section(p, f.list, f.offered, f.playable, NoNote)
             IN  IF f.flagged THEN Explain(rendered, "not shared") ELSE rendered
      [] kind = "recent" -> Section(p, f.list, f.offered, f.playable, Reason(f))

-----------------------------------------------------------------------------
(* The popovers: render_context and render_audio. *)

\* rebuild_search: an empty list says so, unless nothing is in the box.
RebuildSearch(p, f) ==
    [p EXCEPT !.rows = f.list,
              !.note = IF f.list = NoRows /\ text # "" THEN "nothing found" ELSE NoNote]

RebuildPlaylists(p, f) ==
    [p EXCEPT !.rows = f.list, !.mark = f.active,
              !.note = IF f.list # NoRows THEN NoNote
                       ELSE IF f.flagged THEN "login is too old" ELSE "no playlists"]

RebuildOutputs(p, f) == [p EXCEPT !.rows = f.list, !.clickable = f.playable]

RenderPopover(p, f) ==
    LET there == [p EXCEPT !.visible = f.offered]
        stale == f.list # p.listed \/ (kind = "playlists" /\ ~p.built)
        rebuilt == CASE kind = "search" -> RebuildSearch(there, f)
                     [] kind = "playlists" -> RebuildPlaylists(there, f)
                     [] kind = "devices" -> RebuildOutputs(there, f)
    IN  IF stale /\ (kind = "devices" => f.offered)
        THEN [rebuilt EXCEPT !.listed = f.list, !.built = TRUE] ELSE there

Draw(f) ==
    /\ frame' = f
    /\ panel' = IF kind \in Sections THEN RenderQueue(panel, f) ELSE RenderPopover(panel, f)

-----------------------------------------------------------------------------
(* The daemon and the user. *)

InBounds == frames < MaxFrames /\ frames' = frames + 1

\* What the daemon publishes of the followed list: a context that was refused or
\* that is no longer addressed has no tracks; another context starts with none.
Publishes(f) ==
    /\ kind = "context" => (f.flagged => f.list = NoRows) /\ (~f.offered => f.list = NoRows)
    /\ f.active => kind = "playlists" /\ f.list # NoRows
    /\ kind # "playlists" /\ kind # "recent" /\ kind # "context" => ~f.flagged

\* Ui::render
FrameArrives ==
    /\ kind # "search" /\ InBounds
    /\ \E f \in Frames :
          /\ Publishes(f) /\ Draw(f)
          /\ asked' \in IF kind = "context" /\ f.list = NoRows THEN {asked, FALSE} ELSE {asked}
    /\ UNCHANGED <<kind, text, settling, searches>>

\* A section is opened or closed by its heading; opening it asks for its rows,
\* but for the queue, which comes by itself.  A popover asks when it is shown.
Toggle ==
    /\ panel.visible
    /\ panel' = [panel EXCEPT !.open = ~@]
    /\ asked' = (asked \/ panel'.open)
    /\ UNCHANGED <<kind, frame, text, settling, searches, frames>>

\* search-changed: the search that was waiting is dropped for this one.
Type ==
    /\ kind = "search" /\ InBounds
    /\ \E typed \in Texts \ {text} : text' = typed /\ settling' = typed
    /\ UNCHANGED <<kind, frame, panel, searches, asked>>

\* SEARCH_SETTLE has passed.
Settle ==
    /\ settling # NoSearch
    /\ searches' = searches \cup {settling} /\ settling' = NoSearch
    /\ UNCHANGED <<kind, frame, panel, text, asked, frames>>

Results(query) ==
    CASE query = "one" -> "list 1" [] query = "two" -> "list 2" [] OTHER -> NoRows

\* The tasks race for the client: any of them is answered next, or fails.
Answer ==
    \E query \in searches :
       /\ searches' = searches \ {query}
       /\ \/ Draw([FirstFrame EXCEPT !.list = Results(query), !.offered = TRUE])
          \/ query # "" /\ UNCHANGED <<frame, panel>>
       /\ UNCHANGED <<kind, text, settling, asked, frames>>

PanelsNext == FrameArrives \/ Toggle \/ Type \/ Settle \/ Answer

PanelsSpec == PanelsInit /\ [][PanelsNext]_panelVars

-----------------------------------------------------------------------------
(* Properties. *)

\* Whatever lists, reasons and rights follow each other: the rows drawn are those
\* of the last frame, or none; a track can be clicked exactly when the last frame
\* says it can be played; and an empty list of what was played says why, for the
\* reason of the last frame.
PanelIsCurrent ==
    /\ panel.rows \in {frame.list, NoRows}
       \/ (kind = "devices" /\ ~frame.offered)
    /\ kind \in Sections /\ panel.rows # NoRows => panel.clickable = frame.playable
    /\ kind = "recent" /\ frame.list = NoRows /\ panel.visible => panel.note = Reason(frame)

\* "the next real list has to rebuild rather than deciding nothing has changed":
\* a list that is published is drawn.  The one that was drawn before an empty one
\* is not.
PublishedIsDrawn == panel.visible => panel.rows = frame.list

\* "A row that cannot work is shown disabled", the playlist that plays is marked,
\* and an empty popover says why: as of the last frame, though the popovers are
\* rebuilt only when their list changes.
PopoversAreCurrent ==
    /\ kind = "devices" /\ frame.offered /\ panel.rows # NoRows => panel.clickable = frame.playable
    /\ kind = "playlists" /\ panel.rows # NoRows => panel.mark = frame.active
    /\ kind = "playlists" /\ panel.note = "no playlists" => ~frame.flagged

\* "saying ""no results"" over an empty box would be wrong"; once every search is
\* answered nothing is said over an empty box.
EmptyBoxSaysNothing ==
    text = "" /\ settling = NoSearch /\ searches = {} => panel.note # "nothing found"

\* Typing asks for the latest text last, so once it has been answered no answer
\* to an earlier text replaces what is shown.
NoLateResults ==
    [][kind = "search" /\ settling = NoSearch /\ text \notin searches
         => frame'.list \in {frame.list, Results(text)}]_panelVars

\* "A panel that opens onto nothing reads as broken": an open section has asked
\* for what it is about.
OpenHasAsked == kind = "context" /\ panel.open => asked
=============================================================================
