--------------------------- MODULE PositionClock ---------------------------
(***************************************************************************)
(* PositionClock (waytify-core/src/clock.rs): the playback position,       *)
(* advanced against the local clock from the last point it was observed.   *)
(* A clock is a value and each method of the code is an operator that      *)
(* returns the clock the method leaves behind.  Time and positions are in  *)
(* the same unit.                                                          *)
(***************************************************************************)
EXTENDS Integers

NoLength == -1    \* a live stream, which has no end

PositionClocks ==
    [anchor : Nat, anchorAt : Nat, playing : BOOLEAN,
     length : Nat \cup {NoLength}, held : BOOLEAN]

NewClock(now) ==
    [anchor |-> 0, anchorAt |-> now, playing |-> FALSE, length |-> NoLength,
     held |-> FALSE]

Clamped(k, position) ==
    IF k.length # NoLength /\ position > k.length THEN k.length ELSE position

\* saturating_duration_since: an instant before the anchor counts as no time.
Elapsed(k, now) == IF now > k.anchorAt THEN now - k.anchorAt ELSE 0

PositionAt(k, now) ==
    Clamped(k, k.anchor + (IF k.playing /\ ~k.held THEN Elapsed(k, now) ELSE 0))

Anchor(k, position, playing, now) ==
    [k EXCEPT !.anchor = position, !.anchorAt = now, !.playing = playing]

SetPlaying(k, playing, now) ==
    IF k.playing = playing THEN k ELSE Anchor(k, PositionAt(k, now), playing, now)

SetLength(k, length) == [k EXCEPT !.length = length]

Hold(k, now) ==
    IF k.held THEN k
    ELSE [k EXCEPT !.anchor = PositionAt(k, now), !.anchorAt = now, !.held = TRUE]

Release(k, position, now) ==
    Anchor([k EXCEPT !.held = FALSE], position, k.playing, now)

\* A mistake: only a clock that is ahead of the player is corrected.
DriftedAhead(k, observed, now, tolerance) ==
    PositionAt(k, now) - observed > tolerance

Drifted(k, observed, now, tolerance) ==
    LET position == PositionAt(k, now)
    IN  position - observed > tolerance \/ observed - position > tolerance
=============================================================================
