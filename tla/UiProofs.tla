------------------------------- MODULE UiProofs -------------------------------
(***************************************************************************)
(* For any songs, lyrics, lengths and bounds: the strip of lyrics shows    *)
(* the lines around the one sung unless something crossed a slide, the     *)
(* thumb is the user's while it is dragged, and a list that is drawn is    *)
(* the last frame's.  For any losses of the daemon: it comes to know       *)
(* whether the window is on screen, and the window that it has lost it.    *)
(***************************************************************************)
EXTENDS LyricStrip, Panels, PopupWindow, FiniteSetTheorems, SequenceTheorems, TLAPS

(* The strip. *)

LEMMA LineIsANumber ==
  ASSUME NEW s \in Songs, NEW p
  PROVE  LineAt(s, p) \in Nat
<1>1. Len(Starts[s]) \in Nat
  BY LyricStripAssumption
<1>2. IsFiniteSet(Lines(s)) /\ Lines(s) \subseteq Nat
  BY <1>1, FS_Interval DEF Lines
<1>3. IsFiniteSet({i \in Lines(s) : Starts[s][i] < p})
  BY <1>2, FS_Subset
<1>4. Cardinality({i \in Lines(s) : Starts[s][i] < p}) \in Nat
  BY <1>3, FS_CardinalityType
<1>5. ASSUME {i \in Lines(s) : Starts[s][i] = p} # {}
      PROVE  (CHOOSE i \in {i \in Lines(s) : Starts[s][i] = p} : TRUE) \in Nat
  BY <1>2, <1>5
<1>6. QED
  BY <1>4, <1>5 DEF LineAt

\* The four rows a line later are the lower three and one more.
LEMMA RowsComeRound ==
  ASSUME NEW s, NEW l \in Nat
  PROVE  Append(Tail(Around(s, l - 1)), Around(s, l)[4]) = Around(s, l)
<1> DEFINE cell(n) == IF n \in {i + 2 : i \in Lines(s)} THEN <<s, n - 2>> ELSE Blank
<1>1. /\ Around(s, l) = [k \in 1..4 |-> cell(l + k)]
      /\ Around(s, l - 1) = [k \in 1..4 |-> cell(l - 1 + k)]
  BY DEF Around
<1> HIDE DEF cell
<1>2. Around(s, l) = <<cell(l + 1), cell(l + 2), cell(l + 3), cell(l + 4)>>
  BY <1>1
<1>3. Around(s, l - 1) = <<cell(l - 1 + 1), cell(l - 1 + 2), cell(l - 1 + 3), cell(l - 1 + 4)>>
  BY <1>1
<1>4. l - 1 + 1 = l /\ l - 1 + 2 = l + 1 /\ l - 1 + 3 = l + 2 /\ l - 1 + 4 = l + 3
  OBVIOUS
<1>5. Around(s, l - 1) = <<cell(l), cell(l + 1), cell(l + 2), cell(l + 3)>>
  BY <1>3, <1>4
<1> DEFINE Cells == {cell(l), cell(l + 1), cell(l + 2), cell(l + 3), cell(l + 4)}
           before == <<cell(l), cell(l + 1), cell(l + 2), cell(l + 3)>>
           after == Append(Tail(before), cell(l + 4))
<1>6. before \in Seq(Cells) /\ before # <<>> /\ Len(before) = 4
  OBVIOUS
<1>7. /\ Tail(before) \in Seq(Cells) /\ Len(Tail(before)) = 3
      /\ \A i \in 1..3 : Tail(before)[i] = before[i + 1]
  BY <1>6, HeadTailProperties
<1>8. /\ after \in Seq(Cells) /\ Len(after) = 4
      /\ \A i \in 1..3 : after[i] = Tail(before)[i]
      /\ after[4] = cell(l + 4)
  BY <1>7, AppendProperties
<1>9. after[1] = cell(l + 1) /\ after[2] = cell(l + 2) /\ after[3] = cell(l + 3)
  BY <1>7, <1>8
<1> HIDE DEF after
<1>10. after = Around(s, l)
  <2>1. Around(s, l) \in Seq(Cells) /\ Len(Around(s, l)) = 4
    BY <1>2
  <2>2. \A i \in 1..4 : after[i] = Around(s, l)[i]
    BY <1>2, <1>8, <1>9
  <2>3. QED
    BY <1>8, <2>1, <2>2, SeqEqual
<1>11. Around(s, l)[4] = cell(l + 4)
  BY <1>2
<1>12. QED
  BY <1>5, <1>10, <1>11 DEF after

\* A slide that nothing crossed brings the line that is sung.
SlideFits ==
    /\ song \in Songs \cup {None} /\ listed \in Songs \cup {None} /\ line \in Nat
    /\ listed = None => slide = None
    /\ slide # None /\ ~crossed => slide = <<listed, line>>

StripInv == SlideFits /\ StripIsRight

\* What show_lines leaves, for a song that is listed.
LEMMA ShownLines ==
  ASSUME StripInv, NEW s \in Songs, listed = s, listed' = s, NEW new \in Nat, line' = new,
         NEW shows, ShowLines(s, new, shows)
  PROVE  /\ slide' # None /\ ~crossed' => slide' = <<listed', line'>>
         /\ StripIsRight'
<1>1. CASE new = line + 1 /\ shows
  <2>1. /\ rows' = rows /\ weight' = (weight \ {2}) \cup {3} /\ slide' = <<s, new>>
        /\ ~crossed' => ~crossed /\ slide = None
    BY <1>1 DEF ShowLines
  <2>2. ~crossed' => rows = Around(s, line) /\ weight = {2}
    BY <2>1, LyricStripAssumption DEF StripInv, StripIsRight
  <2>3. line' - 1 = line
    BY <1>1 DEF StripInv, SlideFits
  <2>4. ~crossed' => rows' = Around(s, line' - 1) /\ weight' = {3}
    BY <2>1, <2>2, <2>3
  <2>5. ~crossed' /\ slide' = None => rows' = Around(s, line') /\ weight' = {2}
    BY <2>1, LyricStripAssumption
  <2>6. QED
    BY <2>1, <2>4, <2>5 DEF StripIsRight
<1>2. CASE ~(new = line + 1 /\ shows)
  BY <1>2 DEF ShowLines, WriteLines, StripIsRight
<1>3. QED
  BY <1>1, <1>2

LEMMA Highlighted ==
  ASSUME StripInv, NEW p, NEW shows, listed' = listed,
         HighlightLine(p, shows)
  PROVE  /\ line' \in Nat /\ (listed' = None => slide' = None)
         /\ slide' # None /\ ~crossed' => slide' = <<listed', line'>>
         /\ StripIsRight'
<1>1. CASE UNCHANGED <<line, rows, weight, slide, crossed>>
  BY <1>1 DEF StripInv, SlideFits, StripIsRight
<1>2. CASE listed # None /\ line' = LineAt(listed, p) /\ ShowLines(listed, line', shows)
  <2>1. listed \in Songs
    BY <1>2 DEF StripInv, SlideFits
  <2>2. line' \in Nat
    BY <1>2, <2>1, LineIsANumber
  <2>3. QED
    BY <1>2, <2>1, <2>2, ShownLines
<1>3. QED
  BY <1>1, <1>2 DEF HighlightLine

\* A step that leaves the strip as it is.
LEMMA StripStays ==
  ASSUME StripInv, UNCHANGED strip, song' \in Songs \cup {None}
  PROVE  StripInv'
BY DEF StripInv, SlideFits, StripIsRight, strip

LEMMA StripStep == StripInv /\ [StripNext]_stripVars => StripInv'
<1> SUFFICES ASSUME StripInv, [StripNext]_stripVars PROVE StripInv'
  OBVIOUS
<1> USE DEF clock, scrubber, published
<1>1. CASE Finish
  <2>1. /\ slide # None /\ slide' = None /\ UNCHANGED <<song, listed, line, crossed>>
        /\ rows' = Append(Tail(rows), Around(slide[1], slide[2])[4])
        /\ weight' = Rotated(weight)
    BY <1>1 DEF Finish
  <2>2. ASSUME ~crossed PROVE rows' = Around(listed, line) /\ weight' = {2}
    <3>1. /\ slide = <<listed, line>> /\ listed # None /\ line \in Nat
          /\ rows = Around(listed, line - 1) /\ weight = {3}
      BY <2>1, <2>2 DEF StripInv, SlideFits, StripIsRight
    <3>2. rows' = Append(Tail(Around(listed, line - 1)), Around(listed, line)[4])
      BY <2>1, <3>1
    <3>3. rows' = Around(listed, line)
      BY <3>1, <3>2, RowsComeRound
    <3>4. weight' = {2}
      BY <2>1, <3>1 DEF Rotated
    <3>5. QED
      BY <3>3, <3>4
  <2>3. QED
    BY <2>1, <2>2 DEF StripInv, SlideFits, StripIsRight
<1>2. CASE Render
  <2>1. song' = song /\ RenderLyrics(position')
    BY <1>2 DEF Render
  <2>2. CASE song = None \/ ~known
    BY <2>1, <2>2, StripStays DEF RenderLyrics, strip, StripInv, SlideFits, StripIsRight
  <2>3. CASE song # None /\ known /\ listed = song
    <3>1. listed' = listed /\ HighlightLine(position', mapped)
      BY <2>1, <2>3 DEF RenderLyrics
    <3>2. QED
      BY <2>1, <3>1, Highlighted DEF StripInv, SlideFits
  <2>4. CASE song # None /\ known /\ listed # song
    <3>1. /\ listed' = song /\ line' = LineAt(song, position') /\ WriteLines(song, line')
          /\ slide' = slide /\ crossed' = (slide # None)
      BY <2>1, <2>4 DEF RenderLyrics
    <3>2. song \in Songs /\ line' \in Nat
      BY <2>4, <3>1, LineIsANumber DEF StripInv, SlideFits
    <3>3. QED
      BY <2>1, <2>4, <3>1, <3>2 DEF StripInv, SlideFits, StripIsRight, WriteLines
  <2>5. QED
    BY <2>2, <2>3, <2>4
<1>3. CASE Tick
  <2>1. song' = song /\ listed' = listed
    BY <1>3 DEF Tick
  <2>2. CASE HighlightLine(position', visible)
    BY <2>1, <2>2, Highlighted DEF StripInv, SlideFits
  <2>3. CASE UNCHANGED <<line, rows, weight, slide, crossed>>
    BY <2>1, <2>3 DEF StripInv, SlideFits, StripIsRight
  <2>4. QED
    BY <1>3, <2>2, <2>3 DEF Tick
<1>4. CASE Drag
  BY <1>4, StripStays DEF Drag, StripInv, SlideFits
<1>5. CASE Rest
  BY <1>5, StripStays DEF Rest, StripInv, SlideFits
<1>6. CASE OtherSong
  BY <1>6, StripStays DEF OtherSong
<1>7. CASE PlayPause
  BY <1>7, StripStays DEF PlayPause, StripInv, SlideFits
<1>8. CASE LyricsFound
  BY <1>8, StripStays DEF LyricsFound, StripInv, SlideFits
<1>9. CASE ShowHide
  BY <1>9, StripStays DEF ShowHide, StripInv, SlideFits
<1>10. CASE UNCHANGED stripVars
  BY <1>10, StripStays DEF stripVars, StripInv, SlideFits
<1>11. QED
  BY <1>1, <1>2, <1>3, <1>4, <1>5, <1>6, <1>7, <1>8, <1>9, <1>10 DEF StripNext

\* For any songs and lyrics, and frames, ticks, slides, hides and shows in any
\* order: the rows are those around the line that is sung, until something comes
\* in the middle of a slide; `finisher` brings the one line that is new.
THEOREM StripIsRightAlways == StripSpec => []StripIsRight
<1>1. StripInit => StripInv
  BY DEF StripInit, StripInv, SlideFits, StripIsRight
<1>2. StripInv => StripIsRight
  BY DEF StripInv
<1>3. QED
  BY <1>1, <1>2, StripStep, PTL DEF StripSpec

\* While the thumb is dragged it is where the user put it, whatever frames and
\* ticks come: `render` and `tick` leave it alone.
THEOREM ThumbIsTheUsersAlways == StripSpec => []ThumbIsTheUsers
<1>1. StripInit => ThumbIsTheUsers
  BY DEF StripInit, ThumbIsTheUsers
<1>2. ThumbIsTheUsers /\ [StripNext]_stripVars => ThumbIsTheUsers'
  <2> SUFFICES ASSUME ThumbIsTheUsers, [StripNext]_stripVars, drag' # None
               PROVE  thumb' = drag'
    BY DEF ThumbIsTheUsers
  <2> USE DEF ThumbIsTheUsers, scrubber
  <2>1. CASE Render
    BY <2>1 DEF Render
  <2>2. CASE Tick
    BY <2>2 DEF Tick
  <2>3. CASE Drag
    BY <2>3 DEF Drag
  <2>4. CASE Finish \/ OtherSong \/ PlayPause \/ LyricsFound \/ ShowHide \/ UNCHANGED stripVars
    BY <2>4 DEF Finish, OtherSong, PlayPause, LyricsFound, ShowHide, stripVars
  <2>5. CASE Rest
    BY <2>5 DEF Rest
  <2>6. QED
    BY <2>1, <2>2, <2>3, <2>4, <2>5 DEF StripNext
<1>3. QED
  BY <1>1, <1>2, PTL DEF StripSpec
-----------------------------------------------------------------------------
(* The lists. *)

\* What a list remembers that it was built from is what it shows, or it is empty.
Remembered ==
    /\ panel.rows \in {panel.listed, NoRows}
    /\ kind \in Popovers => panel.rows = panel.listed
    /\ kind \in Sections /\ panel.rows # NoRows => panel.clickable = panel.playable
    /\ kind = "recent" /\ panel.listed = NoRows /\ panel.empty # NoNote =>
          panel.note = panel.empty

Notes == {NoNote, "not shared", "nothing found", "no playlists", "login is too old",
          "nothing played"}

PanelStates == [rows : Lists, clickable : BOOLEAN, note : Notes, mark : BOOLEAN,
                listed : Lists, playable : BOOLEAN, empty : Notes,
                built : BOOLEAN, visible : BOOLEAN, open : BOOLEAN]

PanelTyped ==
    /\ kind \in Sections \cup Popovers
    /\ frame \in Frames
    /\ panel \in PanelStates

PanelInv == PanelTyped /\ Remembered /\ PanelIsCurrent

\* A section that draws a frame shows it, and remembers it.
LEMMA SectionDraws ==
  ASSUME PanelTyped, Remembered, NEW tracks \in Lists, NEW offered \in BOOLEAN,
         NEW playable \in BOOLEAN, NEW empty \in Notes, kind \in Sections
  PROVE  LET p == Section(panel, tracks, offered, playable, empty)
         IN  /\ p \in PanelStates
             /\ p.rows \in {p.listed, NoRows} /\ p.rows \in {tracks, NoRows}
             /\ p.rows # NoRows => p.clickable = p.playable /\ p.clickable = playable
             /\ kind = "recent" /\ p.listed = NoRows /\ p.empty # NoNote => p.note = p.empty
             /\ kind = "recent" /\ tracks = NoRows /\ empty # NoNote => p.note = empty
<1> DEFINE p == Section(panel, tracks, offered, playable, empty)
<1> USE DEF PanelTyped, Remembered, Sections, Popovers
<1>1. CASE SameAsDrawn(panel, tracks, playable, empty)
  <2>1. p = [panel EXCEPT !.visible = offered, !.open = @ /\ offered]
    BY <1>1 DEF Section
  <2>2. panel.listed = tracks /\ panel.playable = playable /\ panel.empty = empty
    BY <1>1 DEF SameAsDrawn
  <2>3. QED
    BY <2>1, <2>2 DEF PanelStates
<1>2. CASE ~SameAsDrawn(panel, tracks, playable, empty) /\ tracks = NoRows
  <2>1. p = [panel EXCEPT !.visible = offered, !.open = @ /\ offered, !.playable = playable,
                          !.empty = empty, !.rows = NoRows, !.note = empty]
    BY <1>2 DEF Section
  <2>2. /\ p.rows = NoRows /\ p.note = empty /\ p.playable = playable /\ p.empty = empty
        /\ p.listed = panel.listed /\ p.clickable = panel.clickable
    BY <2>1 DEF PanelStates
  <2>3. p \in PanelStates
    BY <1>2, <2>1 DEF PanelStates
  <2>4. QED
    BY <1>2, <2>2, <2>3
<1>3. CASE ~SameAsDrawn(panel, tracks, playable, empty) /\ tracks # NoRows
  <2>1. p = [panel EXCEPT !.visible = offered, !.open = @ /\ offered, !.playable = playable,
                          !.empty = empty, !.rows = tracks, !.clickable = playable,
                          !.note = NoNote, !.listed = tracks]
    BY <1>3 DEF Section
  <2>2. /\ p.rows = tracks /\ p.note = NoNote /\ p.playable = playable /\ p.empty = empty
        /\ p.listed = tracks /\ p.clickable = playable
    BY <2>1 DEF PanelStates
  <2>3. p \in PanelStates
    BY <2>1, NoNote \in Notes DEF PanelStates, Notes
  <2>4. QED
    BY <1>3, <2>2, <2>3
<1>4. QED
  BY <1>1, <1>2, <1>3

LEMMA PopoverDraws ==
  ASSUME PanelTyped, Remembered, NEW f \in Frames, kind \in Popovers
  PROVE  LET p == RenderPopover(panel, f)
         IN  /\ p \in PanelStates
             /\ p.rows = p.listed
             /\ p.rows = f.list \/ (kind = "devices" /\ ~f.offered)
<1> DEFINE p == RenderPopover(panel, f)
           there == [panel EXCEPT !.visible = f.offered]
           rebuilt == CASE kind = "search" -> RebuildSearch(there, f)
                        [] kind = "playlists" -> RebuildPlaylists(there, f)
                        [] kind = "devices" -> RebuildOutputs(there, f)
           stale == f.list # panel.listed \/ (kind = "playlists" /\ ~panel.built)
<1>1. there.listed = panel.listed /\ there.built = panel.built
  BY DEF PanelTyped, PanelStates
<1>2. p = IF stale /\ (kind = "devices" => f.offered)
          THEN [rebuilt EXCEPT !.listed = f.list, !.built = TRUE] ELSE there
  BY <1>1 DEF RenderPopover
<1>3. there \in PanelStates /\ there.rows = panel.rows /\ there.listed = panel.listed
  BY DEF PanelTyped, PanelStates, Frames
<1>4. rebuilt \in PanelStates /\ rebuilt.rows = f.list
  <2> HIDE DEF there
  <2>1. f.list \in Lists /\ f.playable \in BOOLEAN /\ f.active \in BOOLEAN
    BY DEF Frames
  <2>2. CASE kind = "search"
    <3> DEFINE note == IF f.list = NoRows /\ text # "" THEN "nothing found" ELSE NoNote
    <3>1. rebuilt = [there EXCEPT !.rows = f.list, !.note = note]
      BY <2>2 DEF RebuildSearch
    <3>2. note \in Notes
      BY DEF Notes
    <3> HIDE DEF note, rebuilt
    <3>3. QED
      BY <1>3, <2>1, <3>1, <3>2 DEF PanelStates
  <2>3. CASE kind = "playlists"
    <3> DEFINE note == IF f.list # NoRows THEN NoNote
                       ELSE IF f.flagged THEN "login is too old" ELSE "no playlists"
    <3>1. rebuilt = [there EXCEPT !.rows = f.list, !.mark = f.active, !.note = note]
      BY <2>3 DEF RebuildPlaylists
    <3>2. note \in Notes
      BY DEF Notes
    <3> HIDE DEF note, rebuilt
    <3>3. QED
      BY <1>3, <2>1, <3>1, <3>2 DEF PanelStates
  <2>4. CASE kind = "devices"
    <3>1. rebuilt = [there EXCEPT !.rows = f.list, !.clickable = f.playable]
      BY <2>4 DEF RebuildOutputs
    <3> HIDE DEF rebuilt
    <3>2. QED
      BY <1>3, <2>1, <3>1 DEF PanelStates
  <2>5. QED
    BY <2>2, <2>3, <2>4 DEF Popovers
<1> HIDE DEF rebuilt, there
<1>5. [rebuilt EXCEPT !.listed = f.list, !.built = TRUE] \in PanelStates
  BY <1>4 DEF PanelStates, Frames
<1>6. CASE stale /\ (kind = "devices" => f.offered)
  BY <1>2, <1>4, <1>5, <1>6 DEF PanelStates
<1>7. CASE ~(stale /\ (kind = "devices" => f.offered))
  BY <1>2, <1>3, <1>7 DEF Remembered, PanelStates
<1>8. QED
  BY <1>6, <1>7

LEMMA DrawStep ==
  ASSUME PanelInv, NEW f \in Frames, Draw(f), kind' = kind
  PROVE  PanelInv'
<1> USE DEF PanelInv
<1>1. CASE kind \in Popovers
  <2>1. panel' = RenderPopover(panel, f) /\ frame' = f
    BY <1>1 DEF Draw, Sections, Popovers
  <2>2. QED
    BY <1>1, <2>1, PopoverDraws DEF PanelTyped, Remembered, PanelIsCurrent, Sections, Popovers
<1>2. ASSUME NEW tracks \in Lists, NEW offered \in BOOLEAN, NEW empty \in Notes,
             kind \in Sections, tracks = f.list,
             kind = "recent" => empty = Reason(f) /\ empty # NoNote,
             panel' = Section(panel, tracks, offered, f.playable, empty), frame' = f
      PROVE  PanelInv'
  <2> DEFINE drawn == Section(panel, tracks, offered, f.playable, empty)
  <2>1. f.playable \in BOOLEAN
    BY DEF Frames
  <2>2. /\ drawn \in PanelStates
        /\ drawn.rows \in {drawn.listed, NoRows} /\ drawn.rows \in {tracks, NoRows}
        /\ drawn.rows # NoRows => drawn.clickable = drawn.playable /\ drawn.clickable = f.playable
        /\ kind = "recent" /\ drawn.listed = NoRows /\ drawn.empty # NoNote =>
              drawn.note = drawn.empty
        /\ kind = "recent" /\ tracks = NoRows /\ empty # NoNote => drawn.note = empty
    BY <1>2, <2>1, SectionDraws
  <2>3. panel' = drawn /\ kind \notin Popovers
    BY <1>2 DEF Sections, Popovers
  <2> HIDE DEF drawn
  <2>4. QED
    BY <1>2, <2>2, <2>3 DEF PanelTyped, Remembered, PanelIsCurrent, Reason
<1>3. CASE kind = "queue"
  <2>1. panel' = Section(panel, f.list, f.list # NoRows, f.playable, NoNote) /\ frame' = f
    BY <1>3 DEF Draw, Sections, RenderQueue
  <2>2. f.list \in Lists /\ (f.list # NoRows) \in BOOLEAN /\ NoNote \in Notes /\ kind \in Sections
    BY <1>3 DEF Frames, Notes, Sections
  <2>3. QED
    BY <1>2, <1>3, <2>1, <2>2
<1>4. CASE kind = "recent"
  <2>1. panel' = Section(panel, f.list, f.offered, f.playable, Reason(f)) /\ frame' = f
    BY <1>4 DEF Draw, Sections, RenderQueue
  <2>2. Reason(f) \in Notes /\ Reason(f) # NoNote
    BY DEF Reason, NoNote, Notes
  <2>3. f.list \in Lists /\ f.offered \in BOOLEAN /\ kind \in Sections
    BY <1>4 DEF Frames, Sections
  <2>4. QED
    BY <1>2, <2>1, <2>2, <2>3
<1>5. CASE kind = "context" /\ ~f.flagged
  <2>1. panel' = Section(panel, f.list, f.offered, f.playable, NoNote) /\ frame' = f
    BY <1>5 DEF Draw, Sections, RenderQueue
  <2>2. f.list \in Lists /\ f.offered \in BOOLEAN /\ NoNote \in Notes /\ kind \in Sections
    BY <1>5 DEF Frames, Notes, Sections
  <2>3. QED
    BY <1>2, <1>5, <2>1, <2>2
<1>6. CASE kind = "context" /\ f.flagged
  <2> DEFINE drawn == Section(panel, f.list, f.offered, f.playable, NoNote)
  <2>1. f.list \in Lists /\ f.offered \in BOOLEAN /\ f.playable \in BOOLEAN
        /\ NoNote \in Notes /\ kind \in Sections
    BY <1>6 DEF Frames, Notes, Sections
  <2>2. drawn \in PanelStates
    BY <2>1, SectionDraws
  <2>3. panel' = Explain(drawn, "not shared") /\ frame' = f
    BY <1>6 DEF Draw, Sections, RenderQueue
  <2> HIDE DEF drawn
  <2>4. panel' \in PanelStates /\ panel'.rows = NoRows /\ panel'.listed = NoRows
    BY <2>2, <2>3 DEF Explain, PanelStates, Notes, Lists, NoRows
  <2>5. QED
    BY <1>6, <2>3, <2>4 DEF PanelTyped, Remembered, PanelIsCurrent, Popovers
<1>7. QED
  BY <1>1, <1>3, <1>4, <1>5, <1>6 DEF PanelTyped, Sections

LEMMA PanelStep == PanelInv /\ [PanelsNext]_panelVars => PanelInv'
<1> SUFFICES ASSUME PanelInv, [PanelsNext]_panelVars PROVE PanelInv'
  OBVIOUS
<1>1. CASE FrameArrives
  BY <1>1, DrawStep DEF FrameArrives
<1>2. CASE Toggle
  <2>1. panel' = [panel EXCEPT !.open = ~panel.open] /\ UNCHANGED <<kind, frame>>
        /\ panel.visible
    BY <1>2 DEF Toggle
  <2>2. panel' \in PanelStates
    BY <2>1 DEF PanelInv, PanelTyped, PanelStates
  <2>3. UNCHANGED <<panel.rows, panel.listed, panel.clickable, panel.playable, panel.note,
                    panel.empty, panel.visible>>
    BY <2>1 DEF PanelInv, PanelTyped, PanelStates
  <2>4. QED
    BY <2>1, <2>2, <2>3 DEF PanelInv, PanelTyped, Remembered, PanelIsCurrent, Reason
<1>3. CASE Type
  BY <1>3 DEF Type, PanelInv, PanelTyped, Remembered, PanelIsCurrent
<1>4. CASE Settle
  BY <1>4 DEF Settle, PanelInv, PanelTyped, Remembered, PanelIsCurrent
<1>5. CASE Answer
  <2>1. kind' = kind /\ ((\E f \in Frames : Draw(f)) \/ UNCHANGED <<frame, panel>>)
    <3>1. \A query : [FirstFrame EXCEPT !.list = Results(query), !.offered = TRUE] \in Frames
      BY DEF FirstFrame, Frames, Results, Lists, NoRows
    <3>2. QED
      BY <1>5, <3>1 DEF Answer
  <2>2. QED
    BY <2>1, DrawStep DEF PanelInv, PanelTyped, Remembered, PanelIsCurrent
<1>6. CASE UNCHANGED panelVars
  BY <1>6 DEF panelVars, PanelInv, PanelTyped, Remembered, PanelIsCurrent
<1>7. QED
  BY <1>1, <1>2, <1>3, <1>4, <1>5, <1>6 DEF PanelsNext

\* However frames follow each other, the rows of a list are the last frame's or
\* none, can be clicked as the last frame says, and what is said of an empty list
\* of what was played is the last frame's reason: the conditions under which
\* `render` leaves a list as it is are enough.
THEOREM PanelIsCurrentAlways == PanelsSpec => []PanelIsCurrent
<1>1. PanelsInit => PanelInv
  <2> SUFFICES ASSUME PanelsInit PROVE PanelInv
    OBVIOUS
  <2>1. frame \in Frames /\ panel \in PanelStates
    BY DEF PanelsInit, FirstFrame, NewPanel, Frames, PanelStates, Lists, NoRows, Notes
  <2>2. panel.rows = NoRows /\ panel.listed = NoRows /\ panel.empty = NoNote /\ ~panel.visible
    BY DEF PanelsInit, NewPanel
  <2>3. QED
    BY <2>1, <2>2 DEF PanelsInit, PanelInv, PanelTyped, Remembered, PanelIsCurrent
<1>2. PanelInv => PanelIsCurrent
  BY DEF PanelInv
<1>3. QED
  BY <1>1, <1>2, PanelStep, PTL DEF PanelsSpec

(* The window and the daemon. *)

Has(seq, x) == \E i \in 1..Len(seq) : seq[i] = x

\* The last member of seq that sets or clears something sets it.
EndsSet(seq, sets, clears) ==
    \E i \in 1..Len(seq) :
       seq[i] = sets /\ \A j \in 1..Len(seq) : j > i => seq[j] # clears

\* What holds once everything in seq has been handled, when it holds now iff
\* `before`: one member makes it true and another makes it false.
Ends(seq, sets, clears, before) ==
    EndsSet(seq, sets, clears) \/ (before /\ ~Has(seq, clears))

\* The daemon will have read last that the window is on screen.
Told == Ends(commands, "watching", "notWatching",
             Ends(toDaemon, "watching", "notWatching", watching))

\* A state is still to come: the answer to a subscription on the wire.
StateToCome == Has(toDaemon, "subscribe") \/ Has(toWindow, "state")

WindowTyped ==
    /\ onScreen \in BOOLEAN /\ announced \in BOOLEAN /\ offline \in BOOLEAN
    /\ subscribed \in BOOLEAN /\ watching \in BOOLEAN
    /\ updates \in Seq(Updates) /\ toWindow \in Seq(Pushed)
    /\ commands \in Seq({"watching", "notWatching"}) /\ toDaemon \in Seq(Sent)
    /\ session \in {"up", "down"} /\ link \in {"none", "up", "broken"}
    /\ drops \in Nat

\* The daemon's end of a connection goes with the connection.
LinkTyped ==
    /\ session = "down" <=> link = "none"
    /\ link # "up" => toDaemon = <<>> /\ ~watching /\ ~subscribed
    /\ link = "none" => toWindow = <<>>

\* What the window believes it has said is what the daemon hears last, unless
\* the window has yet to hear of a loss.
AnnouncedIsTold ==
    announced /\ ~Has(updates, "disconnected") /\ link # "broken" => Told

\* A window that is connected has said what is the case, or a state is on its
\* way that makes it say so.
ShownIsAnnounced ==
    link = "up" => StateToCome \/ Ends(updates, "state", "disconnected", onScreen => announced)

\* The same for the mark of a stale window.
StateClearsMark ==
    link = "up" => StateToCome \/ Ends(updates, "state", "disconnected", ~offline)

LossSetsMark ==
    session = "down" /\ drops > 0 => Ends(updates, "disconnected", "state", offline)

\* Until the first loss nothing was ever forgotten.
FirstSession ==
    drops = 0 =>
      /\ link # "broken" /\ ~Has(updates, "disconnected")
      /\ announced = onScreen /\ (Told <=> announced)

WindowInv ==
    /\ WindowTyped /\ LinkTyped
    /\ AnnouncedIsTold /\ ShownIsAnnounced
    /\ StateClearsMark /\ LossSetsMark /\ FirstSession

LEMMA NothingInEmpty ==
  ASSUME NEW x, NEW y
  PROVE  ~Has(<<>>, x) /\ ~EndsSet(<<>>, x, y)
BY DEF Has, EndsSet

LEMMA HasAppended ==
  ASSUME NEW S, NEW seq \in Seq(S), NEW e \in S, NEW x
  PROVE  Has(Append(seq, e), x) <=> Has(seq, x) \/ e = x
<1> DEFINE longer == Append(seq, e)
<1>1. /\ Len(seq) \in Nat /\ Len(longer) = Len(seq) + 1
      /\ \A i \in 1..Len(seq) : longer[i] = seq[i]
      /\ longer[Len(seq) + 1] = e
  BY AppendProperties, LenProperties
<1> HIDE DEF longer
<1>2. Has(longer, x) <=> Has(seq, x) \/ e = x
  BY <1>1 DEF Has
<1>3. QED
  BY <1>2 DEF longer

LEMMA EndsAppended ==
  ASSUME NEW S, NEW seq \in Seq(S), NEW e \in S, NEW x, NEW y, x # y
  PROVE  EndsSet(Append(seq, e), x, y) <=> e = x \/ (e # y /\ EndsSet(seq, x, y))
<1> DEFINE longer == Append(seq, e)
<1>1. /\ Len(seq) \in Nat /\ Len(longer) = Len(seq) + 1
      /\ \A i \in 1..Len(seq) : longer[i] = seq[i]
      /\ longer[Len(seq) + 1] = e
  BY AppendProperties, LenProperties
<1> HIDE DEF longer
<1>2. EndsSet(longer, x, y) => e = x \/ (e # y /\ EndsSet(seq, x, y))
  BY <1>1 DEF EndsSet
<1>3. e = x => EndsSet(longer, x, y)
  BY <1>1 DEF EndsSet
<1>4. e # y /\ EndsSet(seq, x, y) => EndsSet(longer, x, y)
  BY <1>1 DEF EndsSet
<1>5. QED
  BY <1>2, <1>3, <1>4 DEF longer

LEMMA HasTaken ==
  ASSUME NEW S, NEW seq \in Seq(S), seq # <<>>, NEW x
  PROVE  Has(seq, x) <=> Head(seq) = x \/ Has(Tail(seq), x)
<1> DEFINE rest == Tail(seq)
<1>1. /\ Len(seq) \in Nat /\ Len(seq) > 0 /\ Len(rest) = Len(seq) - 1
      /\ \A i \in 1..Len(rest) : rest[i] = seq[i + 1]
      /\ Head(seq) = seq[1]
  BY HeadTailProperties, LenProperties, EmptySeq
<1> HIDE DEF rest
<1>2. ASSUME Has(seq, x), seq[1] # x PROVE Has(rest, x)
  <2>1. PICK i \in 1..Len(seq) : seq[i] = x
    BY <1>2 DEF Has
  <2>2. i - 1 \in 1..Len(rest) /\ rest[i - 1] = x
    BY <1>1, <1>2, <2>1
  <2>3. QED
    BY <2>2 DEF Has
<1>3. ASSUME Has(rest, x) PROVE Has(seq, x)
  <2>1. PICK i \in 1..Len(rest) : rest[i] = x
    BY <1>3 DEF Has
  <2>2. i + 1 \in 1..Len(seq) /\ seq[i + 1] = x
    BY <1>1, <2>1
  <2>3. QED
    BY <2>2 DEF Has
<1>4. seq[1] = x => Has(seq, x)
  BY <1>1 DEF Has
<1>5. QED
  BY <1>1, <1>2, <1>3, <1>4 DEF rest

LEMMA EndsTaken ==
  ASSUME NEW S, NEW seq \in Seq(S), seq # <<>>, NEW x, NEW y
  PROVE  EndsSet(seq, x, y) <=>
           EndsSet(Tail(seq), x, y) \/ (Head(seq) = x /\ ~Has(Tail(seq), y))
<1> DEFINE rest == Tail(seq)
<1>1. /\ Len(seq) \in Nat /\ Len(seq) > 0 /\ Len(rest) = Len(seq) - 1
      /\ \A i \in 1..Len(rest) : rest[i] = seq[i + 1]
      /\ Head(seq) = seq[1]
  BY HeadTailProperties, LenProperties, EmptySeq
<1> HIDE DEF rest
<1>2. \A i \in 2..Len(seq) : i - 1 \in 1..Len(rest) /\ rest[i - 1] = seq[i]
  BY <1>1
<1>3. \A i \in 1..Len(rest) : i + 1 \in 2..Len(seq)
  BY <1>1
<1>4. ASSUME EndsSet(seq, x, y), ~EndsSet(rest, x, y)
      PROVE  seq[1] = x /\ ~Has(rest, y)
  <2>1. PICK i \in 1..Len(seq) : seq[i] = x /\ \A j \in 1..Len(seq) : j > i => seq[j] # y
    BY <1>4 DEF EndsSet
  <2>2. CASE i = 1
    <3>1. \A k \in 1..Len(rest) : rest[k] # y
      BY <1>1, <1>3, <2>1, <2>2
    <3>2. QED
      BY <2>1, <2>2, <3>1 DEF Has
  <2>3. CASE i # 1
    <3>1. i - 1 \in 1..Len(rest) /\ rest[i - 1] = x
      BY <1>2, <2>1, <2>3
    <3>2. \A k \in 1..Len(rest) : k > i - 1 => rest[k] # y
      BY <1>1, <1>3, <2>1
    <3>3. QED
      BY <1>4, <3>1, <3>2 DEF EndsSet
  <2>4. QED
    BY <2>2, <2>3
<1>5. ASSUME EndsSet(rest, x, y) PROVE EndsSet(seq, x, y)
  <2>1. PICK i \in 1..Len(rest) : rest[i] = x /\ \A j \in 1..Len(rest) : j > i => rest[j] # y
    BY <1>5 DEF EndsSet
  <2>2. i + 1 \in 1..Len(seq) /\ seq[i + 1] = x
    BY <1>1, <2>1
  <2>3. \A k \in 1..Len(seq) : k > i + 1 => seq[k] # y
    BY <1>1, <1>2, <2>1
  <2>4. QED
    BY <2>2, <2>3 DEF EndsSet
<1>6. ASSUME seq[1] = x, ~Has(rest, y) PROVE EndsSet(seq, x, y)
  <2>1. \A k \in 1..Len(seq) : k > 1 => seq[k] # y
    BY <1>1, <1>2, <1>6 DEF Has
  <2>2. QED
    BY <1>1, <1>6, <2>1 DEF EndsSet
<1>7. QED
  BY <1>1, <1>4, <1>5, <1>6 DEF rest

LEMMA AnnounceTells ==
  ASSUME WindowTyped, NEW active \in BOOLEAN, Announce(active), UNCHANGED <<toDaemon, watching>>
  PROVE  /\ commands' \in Seq({"watching", "notWatching"}) /\ announced' = active
         /\ announced = active => (Told' <=> Told)
         /\ announced # active => (Told' <=> active)
<1> DEFINE word == Watching(active)
<1>1. commands \in Seq({"watching", "notWatching"}) /\ word \in {"watching", "notWatching"}
      /\ (word = "watching" <=> active) /\ (word = "notWatching" <=> ~active)
  BY DEF WindowTyped, Watching
<1>2. announced' = active /\ commands' = IF announced = active THEN commands
                                          ELSE Append(commands, word)
  BY DEF Announce
<1> HIDE DEF word
<1>3. CASE announced = active
  BY <1>1, <1>2, <1>3 DEF Told, Ends
<1>4. CASE announced # active
  <2>1. commands' \in Seq({"watching", "notWatching"})
    BY <1>1, <1>2, <1>4, AppendProperties
  <2>2. Has(commands', "notWatching") <=> Has(commands, "notWatching") \/ word = "notWatching"
    BY <1>1, <1>2, <1>4, HasAppended
  <2>3. EndsSet(commands', "watching", "notWatching") <=>
          word = "watching" \/ (word # "notWatching" /\ EndsSet(commands, "watching", "notWatching"))
    BY <1>1, <1>2, <1>4, EndsAppended
  <2>4. Told' <=> active
    BY <1>1, <2>2, <2>3 DEF Told, Ends
  <2>5. QED
    BY <1>2, <1>4, <2>1, <2>4
<1>5. QED
  BY <1>3, <1>4

\* Of the queue of updates the invariant is only about these.
LEMMA UpdateTaken ==
  ASSUME WindowTyped, updates # <<>>, updates' = Tail(updates)
  PROVE  /\ updates' \in Seq(Updates) /\ Head(updates) \in Updates
         /\ Has(updates, "disconnected") <=>
              Head(updates) = "disconnected" \/ Has(updates', "disconnected")
         /\ Has(updates, "state") <=> Head(updates) = "state" \/ Has(updates', "state")
         /\ EndsSet(updates, "state", "disconnected") <=>
              \/ EndsSet(updates', "state", "disconnected")
              \/ Head(updates) = "state" /\ ~Has(updates', "disconnected")
         /\ EndsSet(updates, "disconnected", "state") <=>
              \/ EndsSet(updates', "disconnected", "state")
              \/ Head(updates) = "disconnected" /\ ~Has(updates', "state")
<1>1. updates \in Seq(Updates)
  BY DEF WindowTyped
<1>2. updates' \in Seq(Updates) /\ Head(updates) \in Updates
  BY <1>1, HeadTailProperties
<1>3. /\ Has(updates, "disconnected") <=>
           Head(updates) = "disconnected" \/ Has(updates', "disconnected")
      /\ Has(updates, "state") <=> Head(updates) = "state" \/ Has(updates', "state")
  BY <1>1, HasTaken
<1>4. EndsSet(updates, "state", "disconnected") <=>
        \/ EndsSet(updates', "state", "disconnected")
        \/ Head(updates) = "state" /\ ~Has(updates', "disconnected")
  BY <1>1, EndsTaken
<1>5. EndsSet(updates, "disconnected", "state") <=>
        \/ EndsSet(updates', "disconnected", "state")
        \/ Head(updates) = "disconnected" /\ ~Has(updates', "state")
  BY <1>1, EndsTaken
<1>6. QED
  BY <1>2, <1>3, <1>4, <1>5

LEMMA UpdateArrives ==
  ASSUME WindowTyped, NEW update \in Updates, updates' = Append(updates, update)
  PROVE  /\ updates' \in Seq(Updates)
         /\ Has(updates', "disconnected") <=>
              Has(updates, "disconnected") \/ update = "disconnected"
         /\ Has(updates', "state") <=> Has(updates, "state") \/ update = "state"
         /\ EndsSet(updates', "state", "disconnected") <=>
              \/ update = "state"
              \/ update # "disconnected" /\ EndsSet(updates, "state", "disconnected")
         /\ EndsSet(updates', "disconnected", "state") <=>
              \/ update = "disconnected"
              \/ update # "state" /\ EndsSet(updates, "disconnected", "state")
<1>1. updates \in Seq(Updates)
  BY DEF WindowTyped
<1>2. updates' \in Seq(Updates)
  BY <1>1, AppendProperties
<1>3. /\ Has(updates', "disconnected") <=>
           Has(updates, "disconnected") \/ update = "disconnected"
      /\ Has(updates', "state") <=> Has(updates, "state") \/ update = "state"
  BY <1>1, HasAppended
<1>4. EndsSet(updates', "state", "disconnected") <=>
        \/ update = "state"
        \/ update # "disconnected" /\ EndsSet(updates, "state", "disconnected")
  BY <1>1, EndsAppended
<1>5. EndsSet(updates', "disconnected", "state") <=>
        \/ update = "disconnected"
        \/ update # "state" /\ EndsSet(updates, "disconnected", "state")
  BY <1>1, EndsAppended
<1>6. QED
  BY <1>2, <1>3, <1>4, <1>5

\* The window's own steps: what it takes from its queue, and what it says.
LEMMA WindowActs == WindowInv /\ Window => WindowInv'
<1> SUFFICES ASSUME WindowInv, Window PROVE WindowInv'
  OBVIOUS
<1> USE DEF WindowInv, WindowTyped, LinkTyped, AnnouncedIsTold, ShownIsAnnounced,
            StateClearsMark, LossSetsMark, FirstSession, wire, registered
<1>1. CASE Dismiss
  <2>1. Announce(FALSE) /\ onScreen' = FALSE /\ onScreen
        /\ UNCHANGED <<offline, updates, session, wire, registered, drops, acted>>
    BY <1>1 DEF Dismiss, Hide
  <2>2. /\ commands' \in Seq({"watching", "notWatching"}) /\ announced' = FALSE
        /\ announced = FALSE => (Told' <=> Told)
        /\ announced # FALSE => (Told' <=> FALSE)
    BY <2>1, AnnounceTells
  <2> HIDE DEF Updates
  <2>3. WindowTyped' /\ LinkTyped' /\ AnnouncedIsTold' /\ FirstSession'
    BY <2>1, <2>2
  <2>4. ShownIsAnnounced' /\ StateClearsMark' /\ LossSetsMark'
    BY <2>1, <2>2 DEF StateToCome, Ends
  <2>5. QED
    BY <2>3, <2>4
<1>2. CASE RenderState
  <2>1. /\ updates # <<>> /\ Head(updates) = "state" /\ updates' = Tail(updates)
        /\ offline' = FALSE /\ Announce(onScreen)
        /\ UNCHANGED <<onScreen, session, wire, registered, drops, acted>>
    BY <1>2 DEF RenderState
  <2>2. /\ commands' \in Seq({"watching", "notWatching"}) /\ announced' = onScreen
        /\ announced = onScreen => (Told' <=> Told)
        /\ announced # onScreen => (Told' <=> onScreen)
    BY <2>1, AnnounceTells
  <2>3. /\ updates' \in Seq(Updates)
        /\ Has(updates, "disconnected") <=> Has(updates', "disconnected")
        /\ EndsSet(updates, "disconnected", "state") <=> EndsSet(updates', "disconnected", "state")
        /\ Has(updates, "state")
    BY <2>1, UpdateTaken
  <2>4. WindowTyped' /\ LinkTyped'
    BY <2>1, <2>2, <2>3
  <2>5. AnnouncedIsTold'
    BY <2>1, <2>2, <2>3
  <2>6. FirstSession'
    BY <2>1, <2>2, <2>3
  <2>7. ShownIsAnnounced' /\ StateClearsMark' /\ LossSetsMark'
    BY <2>1, <2>2, <2>3, UpdateTaken DEF StateToCome, Ends
  <2>8. QED
    BY <2>4, <2>5, <2>6, <2>7
<1>3. CASE ApplyAction
  <2>1. /\ updates # <<>> /\ Head(updates) \in Actions /\ updates' = Tail(updates)
        /\ UNCHANGED <<offline, session, wire, registered, drops, acted>>
    BY <1>3 DEF ApplyAction
  <2>2. PICK active \in BOOLEAN : Announce(active) /\ onScreen' = active
    BY <1>3 DEF ApplyAction, Apply, Show, Hide
  <2>3. /\ commands' \in Seq({"watching", "notWatching"}) /\ announced' = active
        /\ announced = active => (Told' <=> Told)
        /\ announced # active => (Told' <=> active)
    BY <2>1, <2>2, AnnounceTells
  <2>4. /\ updates' \in Seq(Updates)
        /\ Has(updates, "disconnected") <=> Has(updates', "disconnected")
        /\ Has(updates, "state") <=> Has(updates', "state")
        /\ EndsSet(updates, "disconnected", "state") <=> EndsSet(updates', "disconnected", "state")
        /\ EndsSet(updates, "state", "disconnected") <=> EndsSet(updates', "state", "disconnected")
    BY <2>1, UpdateTaken DEF Actions
  <2>5. WindowTyped' /\ LinkTyped' /\ AnnouncedIsTold' /\ FirstSession'
    BY <2>1, <2>2, <2>3, <2>4
  <2>6. ShownIsAnnounced' /\ StateClearsMark' /\ LossSetsMark'
    BY <2>1, <2>2, <2>3, <2>4 DEF StateToCome, Ends
  <2>7. QED
    BY <2>5, <2>6
<1>4. CASE GoOffline
  <2>1. /\ updates # <<>> /\ Head(updates) = "disconnected" /\ updates' = Tail(updates)
        /\ offline' = TRUE /\ announced' = FALSE
        /\ UNCHANGED <<onScreen, commands, session, wire, registered, drops, acted>>
    BY <1>4 DEF GoOffline
  <2>2. /\ updates' \in Seq(Updates)
        /\ Has(updates, "disconnected")
        /\ EndsSet(updates, "state", "disconnected") <=> EndsSet(updates', "state", "disconnected")
        /\ EndsSet(updates, "disconnected", "state") <=>
             EndsSet(updates', "disconnected", "state") \/ ~Has(updates', "state")
    BY <2>1, UpdateTaken
  <2>3. WindowTyped' /\ LinkTyped' /\ AnnouncedIsTold' /\ FirstSession'
    BY <2>1, <2>2
  <2>4. ShownIsAnnounced' /\ StateClearsMark'
    BY <2>1, <2>2 DEF StateToCome, Ends
  <2>5. LossSetsMark'
    BY <2>1, <2>2, UpdateTaken DEF Ends
  <2>6. QED
    BY <2>3, <2>4, <2>5
<1>5. QED
  BY <1>1, <1>2, <1>3, <1>4 DEF Window

LEMMA SocketActs == WindowInv /\ SocketThread => WindowInv'
<1> SUFFICES ASSUME WindowInv, SocketThread PROVE WindowInv'
  OBVIOUS
<1> USE DEF WindowInv, WindowTyped, LinkTyped, AnnouncedIsTold, ShownIsAnnounced,
            StateClearsMark, LossSetsMark, FirstSession, window, registered
<1>1. CASE Connect
  <2>1. /\ session = "down" /\ link = "none" /\ session' = "up" /\ link' = "up"
        /\ toDaemon' = <<"subscribe">> /\ toWindow' = <<>>
        /\ UNCHANGED <<window, updates, commands, registered, drops, acted>>
    BY <1>1 DEF Connect
  <2>2. Len(toDaemon') = 1 /\ toDaemon'[1] = "subscribe"
    BY <2>1
  <2>3. /\ Has(toDaemon', "subscribe") /\ ~Has(toDaemon', "notWatching")
        /\ ~EndsSet(toDaemon', "watching", "notWatching")
    BY <2>2 DEF Has, EndsSet
  <2>4. toDaemon = <<>> /\ ~watching
    BY <2>1
  <2>5. ~Has(toDaemon, "notWatching") /\ ~EndsSet(toDaemon, "watching", "notWatching")
    BY <2>4, NothingInEmpty
  <2>6. Told' <=> Told
    BY <2>1, <2>3, <2>5 DEF Told, Ends
  <2>7. WindowTyped' /\ LinkTyped'
    BY <2>1, <2>4 DEF Sent
  <2>8. AnnouncedIsTold' /\ FirstSession' /\ ShownIsAnnounced' /\ StateClearsMark' /\ LossSetsMark'
    BY <2>1, <2>3, <2>6 DEF StateToCome
  <2>9. QED
    BY <2>7, <2>8
<1>2. CASE ReceiveFrame
  <2> DEFINE update == Head(toWindow)
  <2>1. /\ session = "up" /\ toWindow # <<>>
        /\ updates' = Append(updates, update) /\ toWindow' = Tail(toWindow)
        /\ UNCHANGED <<window, commands, session, link, toDaemon, registered, drops, acted>>
    BY <1>2 DEF ReceiveFrame
  <2>2. update \in Pushed /\ toWindow' \in Seq(Pushed)
    BY <2>1, HeadTailProperties
  <2>3. Has(toWindow, "state") <=> update = "state" \/ Has(toWindow', "state")
    BY <2>1, HasTaken
  <2> HIDE DEF update
  <2>4. update \in Updates /\ update # "disconnected"
    BY <2>2 DEF Updates, Pushed, Actions
  <2>5. /\ updates' \in Seq(Updates)
        /\ Has(updates', "disconnected") <=> Has(updates, "disconnected")
        /\ EndsSet(updates', "state", "disconnected") <=>
             update = "state" \/ EndsSet(updates, "state", "disconnected")
    BY <2>1, <2>4, UpdateArrives
  <2>6. Told' <=> Told
    BY <2>1 DEF Told, Ends
  <2>7. WindowTyped' /\ LinkTyped' /\ AnnouncedIsTold' /\ FirstSession' /\ LossSetsMark'
    BY <2>1, <2>2, <2>5, <2>6
  <2>8. ShownIsAnnounced' /\ StateClearsMark'
    BY <2>1, <2>3, <2>5 DEF StateToCome, Ends
  <2>9. QED
    BY <2>7, <2>8
<1>3. ASSUME EndSession, link = "broken", commands' \in Seq({"watching", "notWatching"}),
             UNCHANGED <<window, registered, drops, acted>>
      PROVE  WindowInv'
  <2>1. /\ updates' \in Seq(Updates) /\ Has(updates', "disconnected")
        /\ EndsSet(updates', "disconnected", "state")
    BY <1>3, UpdateArrives DEF EndSession, Updates
  <2>2. /\ session' = "down" /\ link' = "none" /\ toDaemon' = <<>> /\ toWindow' = <<>>
        /\ drops # 0
    BY <1>3 DEF EndSession
  <2>3. ~watching /\ ~subscribed
    BY <1>3
  <2>4. toDaemon' \in Seq(Sent) /\ toWindow' \in Seq(Pushed)
    BY <2>2, EmptySeq
  <2>5. WindowTyped' /\ LinkTyped'
    BY <1>3, <2>1, <2>2, <2>3, <2>4
  <2>6. AnnouncedIsTold' /\ FirstSession' /\ ShownIsAnnounced' /\ StateClearsMark' /\ LossSetsMark'
    BY <1>3, <2>1, <2>2 DEF Ends
  <2>7. QED
    BY <2>5, <2>6
<1>4. CASE ReadsTheEnd
  <2>1. EndSession /\ link = "broken" /\ UNCHANGED <<window, commands, registered, drops, acted>>
    BY <1>4 DEF ReadsTheEnd
  <2>2. QED
    BY <2>1, <1>3
<1>5. CASE SendCommand
  <2> DEFINE word == Head(commands)
  <2>1. /\ session = "up" /\ commands # <<>> /\ commands' = Tail(commands)
        /\ UNCHANGED <<window, registered, drops, acted>>
    BY <1>5 DEF SendCommand
  <2>2. word \in {"watching", "notWatching"} /\ commands' \in Seq({"watching", "notWatching"})
    BY <2>1, HeadTailProperties
  <2>3. CASE link = "up"
    <3>1. toDaemon' = Append(toDaemon, word) /\ UNCHANGED <<updates, session, link, toWindow>>
      BY <1>5, <2>3 DEF SendCommand
    <3>2. Has(commands, "notWatching") <=> word = "notWatching" \/ Has(commands', "notWatching")
      BY <2>1, HasTaken
    <3>3. EndsSet(commands, "watching", "notWatching") <=>
            \/ EndsSet(commands', "watching", "notWatching")
            \/ word = "watching" /\ ~Has(commands', "notWatching")
      BY <2>1, EndsTaken
    <3> HIDE DEF word
    <3>4. word \in Sent
      BY <2>2 DEF Sent
    <3>5. toDaemon' \in Seq(Sent)
      BY <3>1, <3>4, AppendProperties
    <3>6. Has(toDaemon', "notWatching") <=> Has(toDaemon, "notWatching") \/ word = "notWatching"
      BY <3>1, <3>4, HasAppended
    <3>7. Has(toDaemon', "subscribe") <=> Has(toDaemon, "subscribe")
      BY <2>2, <3>1, <3>4, HasAppended
    <3>8. EndsSet(toDaemon', "watching", "notWatching") <=>
            word = "watching" \/ (word # "notWatching" /\ EndsSet(toDaemon, "watching", "notWatching"))
      BY <3>1, <3>4, EndsAppended
    <3>9. Told' <=> Told
      BY <2>1, <2>2, <3>2, <3>3, <3>6, <3>8 DEF Told, Ends
    <3>10. WindowTyped' /\ LinkTyped'
      BY <2>1, <2>2, <2>3, <3>1, <3>5
    <3>11. AnnouncedIsTold' /\ FirstSession' /\ LossSetsMark'
      BY <2>1, <3>1, <3>9
    <3>12. ShownIsAnnounced' /\ StateClearsMark'
      BY <2>1, <3>1, <3>7 DEF StateToCome, Ends
    <3>13. QED
      BY <3>10, <3>11, <3>12
  <2>4. CASE link # "up"
    <3>1. EndSession
      BY <1>5, <2>4 DEF SendCommand
    <3>2. link = "broken"
      BY <2>1, <2>4
    <3>3. QED
      BY <1>3, <2>1, <2>2, <3>1, <3>2
  <2>5. QED
    BY <2>3, <2>4
<1>6. QED
  BY <1>1, <1>2, <1>4, <1>5 DEF SocketThread

LEMMA DaemonActs == WindowInv /\ DaemonEnd => WindowInv'
<1> SUFFICES ASSUME WindowInv, DaemonEnd PROVE WindowInv'
  OBVIOUS
<1> USE DEF WindowInv, WindowTyped, LinkTyped, AnnouncedIsTold, ShownIsAnnounced,
            StateClearsMark, LossSetsMark, FirstSession, window, registered
<1>1. CASE DaemonReads
  <2> DEFINE word == Head(toDaemon)
  <2>1. /\ link = "up" /\ toDaemon # <<>> /\ toDaemon' = Tail(toDaemon)
        /\ UNCHANGED <<window, updates, commands, session, link, drops, acted>>
        /\ IF word = "subscribe"
           THEN subscribed' = TRUE /\ toWindow' = Append(toWindow, "state") /\ UNCHANGED watching
           ELSE watching' = (word = "watching") /\ UNCHANGED <<subscribed, toWindow>>
    BY <1>1 DEF DaemonReads
  <2>2. word \in Sent /\ toDaemon' \in Seq(Sent)
    BY <2>1, HeadTailProperties
  <2>3. Has(toDaemon, "notWatching") <=> word = "notWatching" \/ Has(toDaemon', "notWatching")
    BY <2>1, HasTaken
  <2>4. Has(toDaemon, "subscribe") <=> word = "subscribe" \/ Has(toDaemon', "subscribe")
    BY <2>1, HasTaken
  <2>5. EndsSet(toDaemon, "watching", "notWatching") <=>
          \/ EndsSet(toDaemon', "watching", "notWatching")
          \/ word = "watching" /\ ~Has(toDaemon', "notWatching")
    BY <2>1, EndsTaken
  <2> HIDE DEF word
  <2>6. Told' <=> Told
    BY <2>1, <2>2, <2>3, <2>5 DEF Told, Ends, Sent
  <2>7. toWindow' \in Seq(Pushed) /\ (word = "subscribe" => Has(toWindow', "state"))
    <3>1. "state" \in Pushed /\ toWindow \in Seq(Pushed)
      BY DEF Pushed
    <3>2. CASE word = "subscribe"
      <4>1. toWindow' = Append(toWindow, "state")
        BY <2>1, <3>2
      <4>2. toWindow' \in Seq(Pushed)
        BY <3>1, <4>1, AppendProperties
      <4>3. Has(toWindow', "state")
        BY <3>1, <4>1, HasAppended
      <4>4. QED
        BY <4>2, <4>3
    <3>3. CASE word # "subscribe"
      BY <2>1, <3>1, <3>3
    <3>4. QED
      BY <3>2, <3>3
  <2>8. WindowTyped' /\ LinkTyped'
    BY <2>1, <2>2, <2>7
  <2>9. AnnouncedIsTold' /\ FirstSession' /\ LossSetsMark'
    BY <2>1, <2>6
  <2>10. ShownIsAnnounced' /\ StateClearsMark'
    BY <2>1, <2>4, <2>7 DEF StateToCome, Ends
  <2>11. QED
    BY <2>8, <2>9, <2>10
<1>2. CASE DaemonPushes
  <2>1. PICK push \in Pushed : toWindow' = Append(toWindow, push)
    BY <1>2 DEF DaemonPushes, Pushed
  <2>2. UNCHANGED <<window, updates, commands, session, link, toDaemon, registered, drops>>
        /\ link = "up"
    BY <1>2 DEF DaemonPushes
  <2>3. toWindow' \in Seq(Pushed) /\ (Has(toWindow, "state") => Has(toWindow', "state"))
    BY <2>1, AppendProperties, HasAppended
  <2>4. Told' <=> Told
    BY <2>2 DEF Told, Ends
  <2>5. WindowTyped' /\ LinkTyped'
    BY <2>2, <2>3
  <2>6. AnnouncedIsTold' /\ FirstSession' /\ LossSetsMark'
    BY <2>2, <2>4
  <2>7. ShownIsAnnounced' /\ StateClearsMark'
    BY <2>2, <2>3 DEF StateToCome, Ends
  <2>8. QED
    BY <2>5, <2>6, <2>7
<1>3. CASE DaemonDrops
  <2>1. /\ link = "up" /\ drops' = drops + 1 /\ link' = "broken" /\ toDaemon' = <<>>
        /\ subscribed' = FALSE /\ watching' = FALSE
        /\ UNCHANGED <<window, updates, commands, session, toWindow, acted>>
    BY <1>3 DEF DaemonDrops
  <2>2. toDaemon' \in Seq(Sent)
    BY <2>1, EmptySeq
  <2>3. drops' # 0 /\ session # "down"
    BY <2>1
  <2>4. WindowTyped' /\ LinkTyped'
    <3>1. subscribed' \in BOOLEAN /\ watching' \in BOOLEAN /\ link' \in {"none", "up", "broken"}
      BY <2>1
    <3>2. /\ onScreen' \in BOOLEAN /\ announced' \in BOOLEAN /\ offline' \in BOOLEAN
          /\ updates' \in Seq(Updates) /\ toWindow' \in Seq(Pushed)
          /\ commands' \in Seq({"watching", "notWatching"}) /\ session' \in {"up", "down"}
      BY <2>1
    <3>3. drops' \in Nat
      BY <2>1
    <3>4. LinkTyped'
      BY <2>1, <2>3
    <3>5. QED
      BY <2>2, <3>1, <3>2, <3>3, <3>4
  <2>5. AnnouncedIsTold' /\ FirstSession' /\ ShownIsAnnounced' /\ StateClearsMark'
    BY <2>1, <2>3
  <2>6. LossSetsMark'
    BY <2>1, <2>3
  <2>7. QED
    BY <2>4, <2>5, <2>6
<1>4. QED
  BY <1>1, <1>2, <1>3 DEF DaemonEnd

LEMMA WindowInvAlways == Spec => []WindowInv
<1>1. Init => WindowInv
  <2> SUFFICES ASSUME Init PROVE WindowInv
    OBVIOUS
  <2>1. /\ onScreen \in BOOLEAN /\ announced = onScreen /\ offline = FALSE
        /\ commands = IF onScreen THEN <<"watching">> ELSE <<>>
        /\ updates = <<>> /\ session = "down" /\ link = "none"
        /\ toDaemon = <<>> /\ toWindow = <<>> /\ subscribed = FALSE /\ watching = FALSE
        /\ drops = 0
    BY DEF Init, Watching
  <2>2. WindowTyped
    <3>1. commands \in Seq({"watching", "notWatching"})
      <4>1. CASE onScreen
        BY <2>1, <4>1
      <4>2. CASE ~onScreen
        BY <2>1, <4>2, EmptySeq
      <4>3. QED
        BY <2>1, <4>1, <4>2
    <3>2. updates \in Seq(Updates) /\ toDaemon \in Seq(Sent) /\ toWindow \in Seq(Pushed)
      BY <2>1, EmptySeq
    <3>3. QED
      BY <2>1, <3>1, <3>2 DEF WindowTyped
  <2>3. ~Has(updates, "disconnected") /\ ~Has(toDaemon, "notWatching")
        /\ ~EndsSet(toDaemon, "watching", "notWatching")
    BY <2>1, NothingInEmpty
  <2>4. CASE onScreen
    <3>1. Len(commands) = 1 /\ commands[1] = "watching"
      BY <2>1, <2>4
    <3>2. EndsSet(commands, "watching", "notWatching")
      BY <3>1 DEF EndsSet
    <3>3. QED
      BY <2>1, <2>2, <2>3, <2>4, <3>2 DEF WindowInv, LinkTyped, AnnouncedIsTold, ShownIsAnnounced,
         StateClearsMark, LossSetsMark, FirstSession, Told, Ends
  <2>5. CASE ~onScreen
    <3>1. ~EndsSet(commands, "watching", "notWatching") /\ ~Has(commands, "notWatching")
      BY <2>1, <2>5, NothingInEmpty
    <3>2. QED
      BY <2>1, <2>2, <2>3, <2>5, <3>1 DEF WindowInv, LinkTyped, AnnouncedIsTold, ShownIsAnnounced,
         StateClearsMark, LossSetsMark, FirstSession, Told, Ends
  <2>6. QED
    BY <2>4, <2>5
<1>2. WindowInv /\ [Next]_vars => WindowInv'
  <2> SUFFICES ASSUME WindowInv, [Next]_vars PROVE WindowInv'
    OBVIOUS
  <2>1. CASE Next
    BY <2>1, WindowActs, SocketActs, DaemonActs DEF Next
  <2>2. CASE UNCHANGED vars
    BY <2>2 DEF vars, window, wire, registered, WindowInv, WindowTyped, LinkTyped, AnnouncedIsTold,
       ShownIsAnnounced, StateClearsMark, LossSetsMark, FirstSession, Told, StateToCome, Ends
  <2>3. QED
    BY <2>1, <2>2
<1>3. QED
  BY <1>1, <1>2, PTL DEF Spec

\* Nothing on its way and no update still to handle: the queues say nothing any
\* more, and what holds is what they would have left.
LEMMA SettledSaysAll ==
  ASSUME WindowInv, Settled
  PROVE  /\ onScreen => watching
         /\ drops = 0 /\ watching => onScreen
         /\ ~offline
<1>1. /\ link = "up"
      /\ toDaemon = <<>> /\ toWindow = <<>> /\ commands = <<>> /\ updates = <<>>
  BY DEF Settled
<1>2. /\ ~Has(updates, "disconnected") /\ ~Has(toDaemon, "subscribe") /\ ~Has(toWindow, "state")
      /\ ~EndsSet(updates, "state", "disconnected")
      /\ ~Has(commands, "notWatching") /\ ~EndsSet(commands, "watching", "notWatching")
      /\ ~Has(toDaemon, "notWatching") /\ ~EndsSet(toDaemon, "watching", "notWatching")
  BY <1>1, NothingInEmpty
<1>3. Told <=> watching
  BY <1>2 DEF Told, Ends
<1>4. QED
  BY <1>1, <1>2, <1>3 DEF WindowInv, WindowTyped, AnnouncedIsTold, ShownIsAnnounced,
     StateClearsMark, FirstSession, StateToCome, Ends

\* Once everything said has been heard, the daemon watches for a window that is
\* on screen, however often the daemon was lost or restarted in between: what
\* `announce` skips because it was said before is what the daemon still knows,
\* and `forget` and the `resync` of the next state make up for what it lost.
THEOREM VisibleIsWatchedAlways == Spec => []VisibleIsWatched
<1>1. WindowInv => VisibleIsWatched
  BY SettledSaysAll DEF VisibleIsWatched
<1>2. QED
  BY <1>1, WindowInvAlways, PTL

\* As long as no connection has been lost, a window that is hidden is known to
\* be: every `hide` is announced, and in the order of the commands.
THEOREM HiddenInOneSessionAlways == Spec => []HiddenInOneSession
<1>1. WindowInv => HiddenInOneSession
  BY SettledSaysAll DEF HiddenInOneSession, HiddenIsNotWatched
<1>2. QED
  BY <1>1, WindowInvAlways, PTL

\* The window is marked as stale while it has lost the daemon and has been told
\* of it, and is no longer once it has handled everything a new daemon sent it.
THEOREM OfflineIsMarkedAlways == Spec => []OfflineIsMarked
<1>1. WindowInv => (Settled => ~offline)
  BY SettledSaysAll
<1>2. ASSUME WindowInv, session = "down", drops > 0, updates = <<>> PROVE offline
  <2>1. ~EndsSet(updates, "disconnected", "state")
    BY <1>2, NothingInEmpty
  <2>2. QED
    BY <1>2, <2>1 DEF WindowInv, LossSetsMark, Ends
<1>3. WindowInv => OfflineIsMarked
  BY <1>1, <1>2 DEF OfflineIsMarked
<1>4. QED
  BY <1>3, WindowInvAlways, PTL
=============================================================================
