------------------------------ MODULE LyricStrip ------------------------------
(***************************************************************************)
(* The window's clock, its scrubber and its lyrics (waytify-popup/src/     *)
(* ui.rs: render, tick, the scrubber of wire, render_lyrics and what it    *)
(* calls; waytify-ipc/src/state.rs: Lyrics::line_at).                      *)
(*                                                                         *)
(* Four rows hold the line before the one sung, that line and the next     *)
(* two; three are in view.  A step of one line slides the strip by a row,  *)
(* and when it has, the row that left at the top comes round to the        *)
(* bottom.  Slides run while the window is on screen.                      *)
(*                                                                         *)
(* Time advances by TICK, a tenth of a second.  A slide takes three to     *)
(* four: when it ends is left open.                                        *)
(***************************************************************************)
EXTENDS Naturals, Sequences, FiniteSets

CONSTANTS
    None,
    Songs,
    Starts,         \* of each song, when each line of its lyrics starts
    Length,         \* of each song, 0 if its player does not say
    MaxAt,          \* bound: how far a song plays
    MaxActs         \* bound: what the user and the player do

ASSUME LyricStripAssumption ==
    /\ None \notin Songs \cup (Songs \X Nat)
    /\ Starts \in [Songs -> Seq(Nat)] /\ Length \in [Songs -> Nat]
    /\ MaxAt \in Nat /\ MaxActs \in Nat

VARIABLES
    \* What the daemon publishes.
    song,           \* None without a player
    at, playing,
    known,          \* the lyrics have been found
    \* The window.
    mapped,         \* it is on screen
    sees,           \* the song of the last frame, whose length scales the scrubber
    moves,          \* playing, as far as the window knows
    position,       \* the last frame's position, and the time since if it moves
    thumb,          \* of the scrubber, as a position
    drag,           \* where the user dragged it to, None when it is at rest
    dragged,        \* history: the song it was dragged on
    misled,         \* history: a seek went to another song
    listed,         \* the song whose lyrics are listed
    visible,        \* the strip is, for there are lyrics
    line,           \* the line sung, 0 before the first
    rows,           \* the four rows, from the top
    weight,         \* the rows with the weight of the line that is sung
    slide,          \* the slide under way: the song and the line it will bring
    crossed,        \* history: a step or a new song came in the middle of a slide
    acts

published == <<song, at, playing, known>>
clock == <<sees, moves, position>>
scrubber == <<thumb, drag, dragged, misled>>
strip == <<listed, visible, line, rows, weight, slide, crossed>>
stripVars == <<published, mapped, clock, scrubber, strip, acts>>

-----------------------------------------------------------------------------

Blank == <<>>
Lines(s) == 1..Len(Starts[s])

\* line_at: a binary search, which finds some one of the lines that start then.
LineAt(s, p) ==
    LET now == {i \in Lines(s) : Starts[s][i] = p} IN
    IF now # {} THEN CHOOSE i \in now : TRUE
    ELSE Cardinality({i \in Lines(s) : Starts[s][i] < p})

\* lines_around
Around(s, l) ==
    [k \in 1..4 |-> IF l + k \in {i + 2 : i \in Lines(s)} THEN <<s, l + k - 2>> ELSE Blank]

LengthOf(s) == IF s = None THEN 0 ELSE Length[s]
AtMost(p, q) == IF p > q THEN q ELSE p

StripInit ==
    /\ song = None /\ at = 0 /\ playing = FALSE /\ known = FALSE
    /\ mapped = FALSE /\ sees = None /\ moves = FALSE /\ position = 0
    /\ thumb = 0 /\ drag = None /\ dragged = None /\ misled = FALSE
    /\ listed = None /\ visible = FALSE /\ line = 0
    /\ rows = [k \in 1..4 |-> Blank] /\ weight = {2} /\ slide = None
    /\ crossed = FALSE /\ acts = 0

Acts == acts < MaxActs /\ acts' = acts + 1

-----------------------------------------------------------------------------
(* The strip. *)

WriteLines(s, l) == rows' = Around(s, l) /\ weight' = {2}

\* show_lines: a step of one row slides, if the strip is on screen; anything
\* else is written in.  Either way the slide under way is dropped.
ShowLines(s, new, onScreen) ==
    IF new = line + 1 /\ onScreen
    THEN /\ rows' = rows /\ weight' = (weight \ {2}) \cup {3}
         /\ slide' = <<s, new>>
         /\ crossed' = (crossed \/ slide # None)
    ELSE WriteLines(s, new) /\ slide' = None /\ crossed' = FALSE

\* highlight_line
HighlightLine(p, onScreen) ==
    IF listed = None \/ LineAt(listed, p) = line
    THEN UNCHANGED <<line, rows, weight, slide, crossed>>
    ELSE /\ line' = LineAt(listed, p)
         /\ ShowLines(listed, line', onScreen)

\* render_lyrics: another song's lines are written in, whatever slides.
RenderLyrics(p) ==
    IF song = None \/ ~known
    THEN visible' = FALSE /\ UNCHANGED <<listed, line, rows, weight, slide, crossed>>
    ELSE /\ visible' = TRUE /\ listed' = song
         /\ IF listed = song THEN HighlightLine(p, mapped)
            ELSE /\ line' = LineAt(song, p) /\ WriteLines(song, line')
                 /\ slide' = slide /\ crossed' = (slide # None)

Rotated(positions) == {IF k = 1 THEN 4 ELSE k - 1 : k \in positions}

\* A mistake: the bottom row is the one that was there already.
FinishShort ==
    /\ slide # None /\ mapped /\ visible /\ slide' = None
    /\ rows' = Append(Tail(rows), Around(slide[1], slide[2])[3])
    /\ weight' = Rotated(weight)
    /\ UNCHANGED <<published, mapped, clock, scrubber, listed, visible, line, crossed, acts>>

\* finisher: the top row becomes the bottom one, with the one new line.
Finish ==
    /\ slide # None /\ mapped /\ visible /\ slide' = None
    /\ rows' = Append(Tail(rows), Around(slide[1], slide[2])[4])
    /\ weight' = Rotated(weight)
    /\ UNCHANGED <<published, mapped, clock, scrubber, listed, visible, line, crossed, acts>>

-----------------------------------------------------------------------------
(* The clock and the scrubber. *)

\* show_position
ShowPosition(p, s) == thumb' = IF LengthOf(s) = 0 THEN 0 ELSE AtMost(p, LengthOf(s))

\* render: what the frame says of the position stands, but for a drag.
Render ==
    /\ sees' = song
    /\ IF song = None THEN UNCHANGED <<moves, position, thumb>>
       ELSE /\ moves' = playing /\ position' = at
            /\ IF drag = None THEN ShowPosition(at, song) ELSE thumb' = thumb
    /\ RenderLyrics(position')
    /\ UNCHANGED <<published, mapped, drag, dragged, misled, acts>>

\* The player plays on, and so does the window by its own clock.
Passes ==
    /\ playing \/ moves
    /\ at' = IF playing THEN AtMost(at + 1, MaxAt) ELSE at
    /\ position' = IF moves THEN AtMost(position + 1, MaxAt) ELSE position

\* A mistake: the clock moves the thumb, whoever holds it.
TickAnyway ==
    /\ Passes
    /\ IF moves /\ mapped
       THEN ShowPosition(position', sees) /\ HighlightLine(position', visible)
       ELSE UNCHANGED <<thumb, line, rows, weight, slide, crossed>>
    /\ UNCHANGED <<song, playing, known, mapped, sees, moves, drag, dragged, misled, listed,
                   visible, acts>>

\* tick
Tick ==
    /\ Passes
    /\ IF moves /\ mapped /\ drag = None
       THEN ShowPosition(position', sees) /\ HighlightLine(position', visible)
       ELSE UNCHANGED <<thumb, line, rows, weight, slide, crossed>>
    /\ UNCHANGED <<song, playing, known, mapped, sees, moves, drag, dragged, misled, listed,
                   visible, acts>>

\* The thumb is dragged over a song that has a length.
Drag ==
    /\ Acts /\ mapped /\ LengthOf(sees) > 0
    /\ \E p \in 0..LengthOf(sees) : drag' = p /\ thumb' = p
    /\ dragged' = sees
    /\ UNCHANGED <<published, mapped, clock, misled, strip>>

\* It has rested for SEEK_SETTLE, and the player is sent there.
Rest ==
    /\ drag # None /\ drag' = None
    /\ at' = IF song = None THEN at ELSE AtMost(drag, MaxAt)
    /\ misled' = (misled \/ song \notin {None, dragged})
    /\ UNCHANGED <<song, playing, known, mapped, clock, thumb, dragged, strip, acts>>

-----------------------------------------------------------------------------
(* The player, the daemon and the user. *)

OtherSong ==
    /\ Acts
    /\ \E s \in (Songs \cup {None}) \ {song} : song' = s /\ playing' = (s # None)
    /\ at' = 0 /\ known' = FALSE
    /\ UNCHANGED <<mapped, clock, scrubber, strip>>

PlayPause ==
    /\ Acts /\ song # None /\ playing' = ~playing
    /\ UNCHANGED <<song, at, known, mapped, clock, scrubber, strip>>

LyricsFound ==
    /\ song # None /\ ~known /\ known' = TRUE
    /\ UNCHANGED <<song, at, playing, mapped, clock, scrubber, strip, acts>>

ShowHide ==
    /\ Acts /\ mapped' = ~mapped
    /\ UNCHANGED <<published, clock, scrubber, strip>>

StripNext ==
    Finish \/ Render \/ Tick \/ Drag \/ Rest \/ OtherSong \/ PlayPause \/ LyricsFound \/ ShowHide

StripSpec == StripInit /\ [][StripNext]_stripVars

-----------------------------------------------------------------------------
(* Properties. *)

\* At rest the rows are the lines around the one that is sung, with the weight
\* on the second; during a slide they are those of the line before, and the
\* weight is on the row that rises.  After frames, ticks, hides and shows in any
\* order, as long as nothing crossed a slide.
StripIsRight ==
    listed # None /\ ~crossed =>
        IF slide = None THEN rows = Around(listed, line) /\ weight = {2}
        ELSE rows = Around(listed, line - 1) /\ weight = {3}

\* The same, whatever crosses a slide: "Everything lands exactly where it
\* already appears to be".
StripFollows ==
    listed # None /\ slide = None => rows = Around(listed, line) /\ weight = {2}

\* While it is dragged the thumb stays where the user put it: neither frames nor
\* the window's clock move it.
ThumbIsTheUsers == drag # None => thumb = drag

\* A seek goes to the song the thumb was dragged on.
SeeksTheSongDragged == ~misled
=============================================================================
