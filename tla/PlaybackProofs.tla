--------------------------- MODULE PlaybackProofs ---------------------------
(***************************************************************************)
(* What the position clock promises, for every clock, position and         *)
(* instant; and what the engine knows of the player it follows, for any    *)
(* intervals, lengths of tracks, latency and bounds: its status, its       *)
(* position, that a missed start of playback is noticed, and that what     *)
(* clients are shown is never old.                                         *)
(***************************************************************************)
EXTENDS Playback, SequenceTheorems, TLAPS

-----------------------------------------------------------------------------
(* The clock. *)

\* Every method leaves a clock behind, and reads a position that is one.
THEOREM ClocksStayClocks ==
  ASSUME NEW k \in PositionClocks, NEW at \in Nat, NEW position \in Nat,
         NEW playing \in BOOLEAN, NEW length \in Nat \cup {NoLength}
  PROVE  /\ PositionAt(k, at) \in Nat
         /\ {NewClock(at), Anchor(k, position, playing, at), SetPlaying(k, playing, at),
             SetLength(k, length), Hold(k, at), Release(k, position, at)}
                \subseteq PositionClocks
<1>1. PositionAt(k, at) \in Nat
  BY DEF PositionAt, Clamped, Elapsed, PositionClocks, NoLength
<1>2. \A p \in Nat : Anchor(k, p, playing, at) \in PositionClocks
  BY DEF Anchor, PositionClocks
<1>3. NewClock(at) \in PositionClocks BY DEF NewClock, PositionClocks
<1>4. SetPlaying(k, playing, at) \in PositionClocks BY <1>1, <1>2 DEF SetPlaying
<1>5. SetLength(k, length) \in PositionClocks BY DEF SetLength, PositionClocks
<1>6. Hold(k, at) \in PositionClocks BY <1>1 DEF Hold, PositionClocks
<1>7. Release(k, position, at) \in PositionClocks
  BY DEF Release, Anchor, PositionClocks
<1> QED BY <1>1, <1>2, <1>3, <1>4, <1>5, <1>6, <1>7

\* The position never leaves the track when its length is known.
THEOREM PositionWithinTrack ==
  ASSUME NEW k \in PositionClocks, NEW at \in Nat, k.length # NoLength
  PROVE  PositionAt(k, at) <= k.length
BY DEF PositionAt, Clamped, Elapsed, PositionClocks, NoLength

\* Between two observations the position never goes back and never runs faster
\* than time, playing, paused or held, and even for an instant before the anchor.
THEOREM PositionFollowsTime ==
  ASSUME NEW k \in PositionClocks, NEW at \in Nat, NEW later \in Nat, at <= later
  PROVE  /\ PositionAt(k, at) <= PositionAt(k, later)
         /\ PositionAt(k, later) <= PositionAt(k, at) + (later - at)
<1> DEFINE run(t) == k.anchor + (IF k.playing /\ ~k.held THEN Elapsed(k, t) ELSE 0)
<1>1. /\ run(at) \in Nat /\ run(later) \in Nat
      /\ run(at) <= run(later) /\ run(later) <= run(at) + (later - at)
  BY DEF Elapsed, PositionClocks
<1>2. /\ PositionAt(k, at) = Clamped(k, run(at))
      /\ PositionAt(k, later) = Clamped(k, run(later))
  BY DEF PositionAt
<1>3. k.length \in Nat \cup {NoLength} BY DEF PositionClocks
<1> HIDE DEF run
<1> QED BY <1>1, <1>2, <1>3 DEF Clamped, NoLength

\* Pausing, resuming and taking hold of the scrubber do not move the position,
\* and do not lose or invent the time that was played until then.
THEOREM NoJumpWithoutObservation ==
  ASSUME NEW k \in PositionClocks, NEW at \in Nat, NEW playing \in BOOLEAN
  PROVE  /\ PositionAt(SetPlaying(k, playing, at), at) = PositionAt(k, at)
         /\ PositionAt(Hold(k, at), at) = PositionAt(k, at)
<1>1. PositionAt(k, at) \in Nat BY ClocksStayClocks
<1>2. Clamped(k, PositionAt(k, at)) = PositionAt(k, at)
  BY DEF PositionAt, Clamped, Elapsed, PositionClocks, NoLength
<1>3. PositionAt(SetPlaying(k, playing, at), at) = PositionAt(k, at)
  <2>1. CASE k.playing = playing BY <2>1 DEF SetPlaying
  <2>2. CASE k.playing # playing
    <3> DEFINE set == SetPlaying(k, playing, at)
    <3>1. set = [k EXCEPT !.anchor = PositionAt(k, at), !.anchorAt = at,
                          !.playing = playing]
      BY <2>2 DEF SetPlaying, Anchor
    <3>2. set.anchor = PositionAt(k, at) /\ set.anchorAt = at /\ set.length = k.length
      BY <3>1 DEF PositionClocks
    <3>3. Elapsed(set, at) = 0 BY <3>2 DEF Elapsed
    <3>4. PositionAt(set, at) = Clamped(set, PositionAt(k, at))
      BY <1>1, <3>2, <3>3 DEF PositionAt
    <3> QED BY <1>2, <3>2, <3>4 DEF Clamped
  <2> QED BY <2>1, <2>2
<1>4. PositionAt(Hold(k, at), at) = PositionAt(k, at)
  <2>1. CASE k.held BY <2>1 DEF Hold
  <2>2. CASE ~k.held
    <3> DEFINE held == Hold(k, at)
    <3>1. held.anchor = PositionAt(k, at) /\ held.held = TRUE /\ held.length = k.length
      BY <2>2 DEF Hold, PositionClocks
    <3>2. PositionAt(held, at) = Clamped(held, PositionAt(k, at))
      BY <1>1, <3>1 DEF PositionAt
    <3> QED BY <1>2, <3>1, <3>2 DEF Clamped
  <2> QED BY <2>1, <2>2
<1> QED BY <1>3, <1>4
-----------------------------------------------------------------------------
(* The invariant of the engine and the player it follows. *)

PositionError(a, b) == Distance(a, b) <= Tolerance + MaxLatency

\* What the player announces, and where it is: within its track.
PlayerOK == player.length # NoLength => player.pos <= player.length

\* The clock runs exactly while the engine believes the player plays, nobody
\* holds it, and it was not anchored in the future.
ClockInTime == clock.anchorAt <= time /\ ~clock.held /\ clock.playing = status

\* Nothing is older than a signal, or a handler, may be.
SignalsInTime ==
    \A i \in DOMAIN signals :
        signals[i].at <= time /\ time - signals[i].at <= MaxLatency

HandlerInTime == mode # "select" => now <= time /\ time - now <= MaxLatency

\* While the loop waits with somebody connected, the timer that ends the wait
\* runs from the last frame or the last thing heard.
Deadlines ==
    mode = "select" /\ attention # "Idle" =>
        IF clock.playing
        THEN /\ heartbeatAt \in {shown.at + Heartbeat, heardAt + Heartbeat}
             /\ time <= heartbeatAt
        ELSE /\ heartbeatAt = Never
             /\ tickAt = heardAt + PausedInterval /\ time <= tickAt

LastOf(kind, i) ==
    /\ i \in DOMAIN signals /\ signals[i].kind = kind
    /\ \A j \in DOMAIN signals : i < j => signals[j].kind # kind

NoneOf(kind) == \A i \in DOMAIN signals : signals[i].kind # kind

\* The last announcement of a kind says how the player is, and when there is
\* none on its way the engine knows.
LastWordIsTrue ==
    faults = 0 =>
        /\ \A i \in DOMAIN signals :
              /\ LastOf("status", i) => signals[i].playing = player.playing
              /\ LastOf("metadata", i) => signals[i].track = player.track
                                          /\ signals[i].length = player.length
        /\ NoneOf("status") => status = player.playing
        /\ NoneOf("metadata") => track = player.track /\ clock.length = player.length

\* The clock is near the player, or something is on its way that makes the
\* engine read the position or that says where the player was.
Near ==
    faults = 0 /\ overtakes = 0 =>
        /\ mode = "seek" => signals # <<>>
        /\ mode = "select" /\ signals = <<>>
              => PositionError(PositionAt(clock, time), player.pos)
        /\ \A i \in DOMAIN signals :
              i = Len(signals) /\ signals[i].kind = "seeked"
                  => /\ signals[i].pos <= player.pos
                     /\ player.pos <= signals[i].pos + (time - signals[i].at)

\* What the methods leave of a clock.
LEMMA ClockFields ==
  ASSUME NEW k \in PositionClocks, NEW at \in Nat, NEW position \in Nat,
         NEW playing \in BOOLEAN, NEW length \in Nat \cup {NoLength}
  PROVE  /\ LET a == Anchor(k, position, playing, at)
            IN  /\ a.anchor = position /\ a.anchorAt = at /\ a.playing = playing
                /\ a.length = k.length /\ a.held = k.held
         /\ LET p == SetPlaying(k, playing, at)
            IN  /\ p.playing = playing /\ p.length = k.length /\ p.held = k.held
                /\ p.anchorAt \in {k.anchorAt, at}
         /\ LET l == SetLength(k, length)
            IN  /\ l.length = length /\ l.anchor = k.anchor /\ l.anchorAt = k.anchorAt
                /\ l.playing = k.playing /\ l.held = k.held
         /\ LET r == Release(k, position, at)
            IN  /\ r.anchor = position /\ r.anchorAt = at /\ r.playing = k.playing
                /\ r.length = k.length /\ ~r.held
<1>1. \A p \in Nat : LET a == Anchor(k, p, playing, at)
                     IN  /\ a.anchor = p /\ a.anchorAt = at /\ a.playing = playing
                         /\ a.length = k.length /\ a.held = k.held
  BY DEF Anchor, PositionClocks
<1>2. PositionAt(k, at) \in Nat BY ClocksStayClocks
<1>3. LET p == SetPlaying(k, playing, at)
      IN  /\ p.playing = playing /\ p.length = k.length /\ p.held = k.held
          /\ p.anchorAt \in {k.anchorAt, at}
  BY <1>1, <1>2 DEF SetPlaying
<1>4. LET l == SetLength(k, length)
      IN  /\ l.length = length /\ l.anchor = k.anchor /\ l.anchorAt = k.anchorAt
          /\ l.playing = k.playing /\ l.held = k.held
  BY DEF SetLength, PositionClocks
<1>5. LET r == Release(k, position, at)
      IN  /\ r.anchor = position /\ r.anchorAt = at /\ r.playing = k.playing
          /\ r.length = k.length /\ ~r.held
  BY DEF Release, Anchor, PositionClocks
<1> QED BY <1>1, <1>3, <1>4, <1>5

-----------------------------------------------------------------------------
(* The signals. *)

LEMMA SignalTypes ==
  ASSUME NEW s \in Signals
  PROVE  /\ s.kind \in {"status", "seeked", "metadata"} /\ s.at \in Nat
         /\ s.kind = "status" => s.playing \in BOOLEAN
         /\ s.kind = "seeked" => s.pos \in Nat
         /\ s.kind = "metadata" => s.track \in Nat /\ s.length \in Lengths
BY DEF Signals

LEMMA SignalAt ==
  ASSUME signals \in Seq(Signals), NEW i \in DOMAIN signals
  PROVE  /\ i \in 1..Len(signals) /\ Len(signals) \in Nat /\ signals[i] \in Signals
         /\ DOMAIN signals = 1..Len(signals)
BY ElementOfSeq, LenProperties

\* Taking one of the signals leaves the others in their order.
LEMMA Delivered ==
  ASSUME signals \in Seq(Signals), NEW i \in DOMAIN signals, Deliver(i)
  PROVE  /\ signals' \in Seq(Signals) /\ Len(signals') = Len(signals) - 1
         /\ DOMAIN signals' = 1..(Len(signals) - 1)
         /\ \A j \in 1..(Len(signals) - 1) :
                signals'[j] = IF j < i THEN signals[j] ELSE signals[j + 1]
<1> DEFINE n == Len(signals)
           before == SubSeq(signals, 1, i - 1)
           after == SubSeq(signals, i + 1, n)
<1>1. n \in Nat /\ i \in 1..n /\ \A j \in 1..n : signals[j] \in Signals
  BY SignalAt
<1>2. /\ before \in Seq(Signals) /\ Len(before) = i - 1
      /\ \A j \in 1..(i - 1) : before[j] = signals[j]
  <2>1. \A j \in 1..(i - 1) : signals[j] \in Signals BY <1>1
  <2>2. 1 \in Int /\ i - 1 \in Int BY <1>1
  <2>3. /\ before \in Seq(Signals)
        /\ Len(before) = IF 1 <= i - 1 THEN (i - 1) - 1 + 1 ELSE 0
        /\ \A j \in 1..((i - 1) - 1 + 1) : before[j] = signals[1 + j - 1]
    BY <2>1, <2>2, SubSeqProperties
  <2> QED BY <1>1, <2>3
<1>3. /\ after \in Seq(Signals) /\ Len(after) = n - i
      /\ \A j \in 1..(n - i) : after[j] = signals[i + j]
  <2>1. \A j \in (i + 1)..n : signals[j] \in Signals BY <1>1
  <2>2. i + 1 \in Int /\ n \in Int BY <1>1
  <2>3. /\ after \in Seq(Signals)
        /\ Len(after) = IF i + 1 <= n THEN n - (i + 1) + 1 ELSE 0
        /\ \A j \in 1..(n - (i + 1) + 1) : after[j] = signals[(i + 1) + j - 1]
    BY <2>1, <2>2, SubSeqProperties
  <2> QED BY <1>1, <2>3
<1>4. signals' = before \o after BY DEF Deliver, RemoveAt
<1> HIDE DEF before, after, n
<1>5. /\ signals' \in Seq(Signals) /\ Len(signals') = n - 1
      /\ \A j \in 1..(n - 1) :
             signals'[j] = IF j <= i - 1 THEN before[j] ELSE after[j - (i - 1)]
  <2>1. /\ signals' \in Seq(Signals) /\ Len(signals') = Len(before) + Len(after)
        /\ \A j \in 1..(Len(before) + Len(after)) :
               signals'[j] = IF j <= Len(before) THEN before[j] ELSE after[j - Len(before)]
    BY <1>2, <1>3, <1>4, ConcatProperties
  <2>2. Len(before) = i - 1 /\ Len(before) + Len(after) = n - 1 BY <1>1, <1>2, <1>3
  <2> QED BY <2>1, <2>2
<1>6. \A j \in 1..(n - 1) :
          signals'[j] = IF j < i THEN signals[j] ELSE signals[j + 1]
  <2> SUFFICES ASSUME NEW j \in 1..(n - 1)
               PROVE  signals'[j] = IF j < i THEN signals[j] ELSE signals[j + 1]
    OBVIOUS
  <2>1. CASE j < i BY <1>1, <1>2, <1>5, <2>1
  <2>2. CASE ~(j < i)
    <3>1. j - (i - 1) \in 1..(n - i) /\ i + (j - (i - 1)) = j + 1 BY <1>1, <2>2
    <3>2. ~(j <= i - 1) BY <1>1, <2>2
    <3> QED BY <1>3, <1>5, <2>2, <3>1, <3>2
  <2> QED BY <2>1, <2>2
<1>7. DOMAIN signals' = 1..(n - 1) BY <1>5, LenProperties
<1> QED BY <1>5, <1>6, <1>7 DEF n

-----------------------------------------------------------------------------
(* Types, and the instants. *)

\* The constants, one by one.
LEMMA Bounds ==
  /\ Tolerance \in Nat /\ MaxLatency \in Nat /\ MaxFaults \in Nat
  /\ MaxOvertakes \in Nat /\ MaxEvents \in Nat /\ MaxTime \in Nat
  /\ Heartbeat \in Nat \ {0} /\ PopupInterval \in Nat \ {0}
  /\ BarInterval \in Nat \ {0} /\ PausedInterval \in Nat \ {0}
  /\ \A length \in Lengths : length \in Nat \cup {NoLength}
BY PlaybackAssumption

LEMMA PlayerAtBounds ==
  ASSUME TypeOK, NEW pos \in Nat
  PROVE  /\ PlayerAt(pos) \in Nat /\ PlayerAt(pos) <= pos
         /\ player.length # NoLength => PlayerAt(pos) <= player.length
<1>1. player.length \in Nat \cup {NoLength} BY PlaybackAssumption DEF TypeOK
<1> QED BY <1>1 DEF PlayerAt, NoLength

LEMMA AnnounceTyped ==
  ASSUME TypeOK, NEW signal \in Signals, Announce(signal)
  PROVE  /\ signals' \in Seq(Signals) /\ faults' \in 0..MaxFaults
         /\ faults' = 0 => faults = 0 /\ signals' = Append(signals, signal)
<1>1. signals \in Seq(Signals) /\ faults \in 0..MaxFaults /\ MaxFaults \in Nat
  BY Bounds DEF TypeOK
<1>2. CASE signals' = Append(signals, signal) /\ UNCHANGED faults
  <2>1. signals' \in Seq(Signals) BY <1>1, <1>2, AppendProperties
  <2> QED BY <1>1, <1>2, <2>1
<1>3. CASE faults < MaxFaults /\ faults' = faults + 1 /\ UNCHANGED signals
  BY <1>1, <1>3
<1> QED BY <1>2, <1>3 DEF Announce

\* The end of a handler, and of a frame.
LEMMA FinishTyped ==
  ASSUME TypeOK, Finish, attention' \in Attentions, clock' \in PositionClocks
  PROVE  /\ mode' = "select" /\ cause' = "none" /\ now' = 0 /\ moved' = FALSE /\ target' = 0
         /\ heartbeatAt' = IF attention' # "Idle" /\ clock'.playing
                           THEN time + Heartbeat ELSE Never
         /\ attention' # "Idle" /\ ~clock'.playing => tickAt' = time + PausedInterval
         /\ {heartbeatAt', tickAt'} \subseteq Nat \cup {Never}
<1>1. time \in Nat /\ clock'.playing \in BOOLEAN BY DEF TypeOK, PositionClocks
<1>2. /\ {Heartbeat, PopupInterval, BarInterval, PausedInterval} \subseteq Nat
      /\ Never \notin Nat
  BY PlaybackAssumption DEF Never
<1> DEFINE interval == PollInterval(attention', clock'.playing)
<1>3. interval \in Nat \cup {Never} BY <1>2 DEF PollInterval
<1>4. attention' # "Idle" /\ ~clock'.playing => interval = PausedInterval
  BY DEF PollInterval, Attentions
<1>5. tickAt' = IF interval = Never THEN Never ELSE time + interval
  BY DEF Finish, Rearm
<1>6. heartbeatAt' = IF attention' # "Idle" /\ clock'.playing THEN time + Heartbeat ELSE Never
  BY DEF Finish, Rearm
<1> HIDE DEF interval
<1>7. tickAt' \in Nat \cup {Never} BY <1>1, <1>3, <1>5
<1>8. heartbeatAt' \in Nat \cup {Never} BY <1>1, <1>2, <1>6
<1>9. attention' # "Idle" /\ ~clock'.playing => tickAt' = time + PausedInterval
  BY <1>2, <1>4, <1>5
<1> QED BY <1>6, <1>7, <1>8, <1>9 DEF Finish

LEMMA PublishTyped ==
  ASSUME TypeOK, Publish, status' \in BOOLEAN, clock' \in PositionClocks
  PROVE  /\ shown' \in [playing : BOOLEAN, pos : Nat, at : 0..MaxTime]
         /\ shown'.at = time /\ shown'.playing = status'
<1>1. PositionAt(clock', time) \in Nat BY ClocksStayClocks DEF TypeOK
<1> QED BY <1>1 DEF Publish, TypeOK

LEMMA InitTyped == Init => TypeOK
<1> SUFFICES ASSUME Init PROVE TypeOK OBVIOUS
<1> USE DEF Init
<1>1. PICK playing \in BOOLEAN, length \in Lengths :
          /\ player = [playing |-> playing, pos |-> 0, length |-> length, track |-> 1]
          /\ status = playing
          /\ clock = Anchor(SetLength(NewClock(0), length), 0, playing, 0)
          /\ shown = [playing |-> playing, pos |-> 0, at |-> 0]
  OBVIOUS
<1>2. length \in Nat \cup {NoLength} BY PlaybackAssumption
<1>3. clock \in PositionClocks
  BY <1>1, <1>2 DEF Anchor, SetLength, NewClock, PositionClocks
<1>4. 0 \in 0..MaxTime /\ 0 \in 0..MaxFaults /\ 0 \in 0..MaxOvertakes /\ 0 \in 0..MaxEvents
  BY Bounds
<1>5. player \in [playing : BOOLEAN, pos : Nat, length : Lengths, track : Nat]
  BY <1>1
<1>6. shown \in [playing : BOOLEAN, pos : Nat, at : 0..MaxTime] BY <1>1, <1>4
<1>7. signals \in Seq(Signals) /\ status \in BOOLEAN /\ track \in Nat BY <1>1
<1>8. time \in 0..MaxTime /\ now \in 0..MaxTime /\ heardAt \in 0..MaxTime BY <1>4
<1>9. faults \in 0..MaxFaults /\ overtakes \in 0..MaxOvertakes /\ events \in 0..MaxEvents
  BY <1>4
<1> QED BY <1>3, <1>5, <1>6, <1>7, <1>8, <1>9 DEF TypeOK, Attentions

LEMMA PlayerTyped ==
  ASSUME TypeOK, Player
  PROVE  TypeOK'
<1>1. PlayerActs BY DEF Player, PlayPause, PlayerSeeks, ChangeTrack
<1>2. player' \in [playing : BOOLEAN, pos : Nat, length : Lengths, track : Nat]
  <2>1. player \in [playing : BOOLEAN, pos : Nat, length : Lengths, track : Nat]
    BY DEF TypeOK
  <2>2. CASE PlayPause BY <2>1, <2>2 DEF PlayPause
  <2>3. CASE PlayerSeeks
    <3>1. PICK pos \in 0..MaxTime : player' = [player EXCEPT !.pos = pos]
      BY <2>3 DEF PlayerSeeks
    <3>2. pos \in Nat BY Bounds
    <3> QED BY <2>1, <3>1, <3>2
  <2>4. CASE ChangeTrack
    <3>1. PICK length \in Lengths :
              player' = [player EXCEPT !.pos = 0, !.length = length, !.track = @ + 1]
      BY <2>4 DEF ChangeTrack
    <3>2. player' = [player EXCEPT !.pos = 0, !.length = length,
                                   !.track = player.track + 1]
      BY <2>1, <3>1
    <3>3. player.track + 1 \in Nat /\ 0 \in Nat BY <2>1
    <3> QED BY <2>1, <3>2, <3>3
  <2> QED BY <2>2, <2>3, <2>4 DEF Player
<1>3. \E signal \in Signals : Announce(signal)
  <2>1. CASE PlayPause
    <3>1. [kind |-> "status", playing |-> player'.playing, at |-> time] \in Signals
      BY <1>2 DEF Signals, TypeOK
    <3> QED BY <2>1, <3>1 DEF PlayPause
  <2>2. CASE PlayerSeeks
    <3>1. [kind |-> "seeked", pos |-> player'.pos, at |-> time] \in Signals
      BY <1>2 DEF Signals, TypeOK
    <3> QED BY <2>2, <3>1 DEF PlayerSeeks
  <2>3. CASE ChangeTrack
    <3>1. [kind |-> "metadata", track |-> player'.track, length |-> player'.length, at |-> time]
              \in Signals
      BY <1>2 DEF Signals, TypeOK
    <3> QED BY <2>3, <3>1 DEF ChangeTrack
  <2> QED BY <2>1, <2>2, <2>3 DEF Player
<1>4. signals' \in Seq(Signals) /\ faults' \in 0..MaxFaults BY <1>3, AnnounceTyped
<1>5. events' \in 0..MaxEvents
  <2>1. events \in 0..MaxEvents /\ MaxEvents \in Nat BY Bounds DEF TypeOK
  <2> QED BY <1>1, <2>1 DEF PlayerActs
<1> QED BY <1>1, <1>2, <1>4, <1>5 DEF PlayerActs, TypeOK, handler, picture, timers

LEMMA TickTyped ==
  ASSUME TypeOK, Tick
  PROVE  TypeOK'
<1>1. time' \in 0..MaxTime
  <2>1. time \in 0..MaxTime /\ MaxTime \in Nat BY Bounds DEF TypeOK
  <2> QED BY <2>1 DEF Tick
<1>2. player.pos + 1 \in Nat BY DEF TypeOK
<1>3. PlayerAt(player.pos + 1) \in Nat BY <1>2, PlayerAtBounds
<1>4. player' \in [playing : BOOLEAN, pos : Nat, length : Lengths, track : Nat]
  BY <1>3 DEF Tick, TypeOK
<1> QED BY <1>1, <1>4 DEF Tick, TypeOK, handler, picture, timers

\* What the handlers of signals do to the picture.
LEMMA SignalHandled ==
  ASSUME TypeOK, HandleSeeked \/ HandleStatus \/ HandleMetadata
  PROVE  /\ clock' \in PositionClocks /\ status' \in BOOLEAN /\ track' \in Nat
         /\ signals' \in Seq(Signals) /\ overtakes' \in 0..MaxOvertakes
         /\ clock'.held = clock.held /\ clock'.anchorAt \in {clock.anchorAt, time}
         /\ clock.playing = status => clock'.playing = status'
<1>1. signals \in Seq(Signals) /\ clock \in PositionClocks /\ time \in Nat
      /\ clock.playing \in BOOLEAN /\ status \in BOOLEAN /\ track \in Nat
  BY DEF TypeOK, PositionClocks
<1>2. \A i \in DOMAIN signals : Deliver(i) => signals' \in Seq(Signals)
                                             /\ overtakes' \in 0..MaxOvertakes
  <2> SUFFICES ASSUME NEW i \in DOMAIN signals, Deliver(i)
               PROVE  signals' \in Seq(Signals) /\ overtakes' \in 0..MaxOvertakes
    OBVIOUS
  <2>1. signals' \in Seq(Signals) BY <1>1, Delivered
  <2>2. overtakes \in 0..MaxOvertakes /\ MaxOvertakes \in Nat BY Bounds DEF TypeOK
  <2>3. \/ overtakes' = overtakes
        \/ overtakes < MaxOvertakes /\ overtakes' = overtakes + 1
    BY DEF Deliver
  <2>4. overtakes' \in 0..MaxOvertakes BY <2>2, <2>3
  <2> QED BY <2>1, <2>4
<1>3. CASE HandleSeeked
  <2>1. PICK i \in DOMAIN signals :
            /\ signals[i].kind = "seeked" /\ Deliver(i)
            /\ clock' = Anchor(clock, signals[i].pos, clock.playing, time)
    BY <1>3 DEF HandleSeeked
  <2>2. signals[i].pos \in Nat BY <1>1, <2>1, SignalAt, SignalTypes
  <2>3. clock' \in PositionClocks
    BY <1>1, <2>1, <2>2 DEF Anchor, PositionClocks
  <2>4. clock'.held = clock.held /\ clock'.anchorAt = time /\ clock'.playing = clock.playing
    BY <1>1, <2>1, <2>2 DEF Anchor, PositionClocks
  <2> QED BY <1>1, <1>2, <1>3, <2>1, <2>3, <2>4 DEF HandleSeeked
<1>4. CASE HandleStatus
  <2>1. PICK i \in DOMAIN signals :
            /\ signals[i].kind = "status" /\ Deliver(i)
            /\ status' = signals[i].playing
    BY <1>4 DEF HandleStatus
  <2>2. status' \in BOOLEAN BY <1>1, <2>1, SignalAt, SignalTypes
  <2>3. clock' = SetPlaying(clock, status', time)
    BY <1>4 DEF HandleStatus
  <2>4. clock' \in PositionClocks
    <3>1. 0 \in Nat /\ NoLength \in Nat \cup {NoLength} OBVIOUS
    <3> QED BY <1>1, <2>2, <2>3, <3>1, ClocksStayClocks
  <2>5. clock'.held = clock.held /\ clock'.anchorAt \in {clock.anchorAt, time}
        /\ clock'.playing = status'
    <3>1. 0 \in Nat /\ NoLength \in Nat \cup {NoLength} OBVIOUS
    <3> QED BY <1>1, <2>2, <2>3, <3>1, ClockFields
  <2> QED BY <1>1, <1>2, <1>4, <2>1, <2>2, <2>4, <2>5 DEF HandleStatus
<1>5. CASE HandleMetadata
  <2>1. PICK i \in DOMAIN signals :
            /\ signals[i].kind = "metadata" /\ Deliver(i)
            /\ track' = signals[i].track
            /\ LET resized == SetLength(clock, signals[i].length)
               IN  clock' = IF track' = track THEN resized
                            ELSE Anchor(resized, 0, clock.playing, time)
    BY <1>5 DEF HandleMetadata
  <2>2. track' \in Nat /\ signals[i].length \in Nat \cup {NoLength}
    BY <1>1, <2>1, SignalAt, SignalTypes, PlaybackAssumption
  <2> DEFINE resized == SetLength(clock, signals[i].length)
  <2>3. /\ resized \in PositionClocks /\ resized.held = clock.held
        /\ resized.anchorAt = clock.anchorAt /\ resized.playing = clock.playing
    BY <1>1, <2>2 DEF SetLength, PositionClocks
  <2>4. clock' = IF track' = track THEN resized ELSE Anchor(resized, 0, clock.playing, time)
    BY <2>1
  <2> HIDE DEF resized
  <2>5. /\ clock' \in PositionClocks /\ clock'.held = clock.held
        /\ clock'.anchorAt \in {clock.anchorAt, time} /\ clock'.playing = clock.playing
    BY <1>1, <2>3, <2>4 DEF Anchor, PositionClocks
  <2> QED BY <1>1, <1>2, <1>5, <2>1, <2>2, <2>5 DEF HandleMetadata
<1> QED BY <1>3, <1>4, <1>5

\* What the reads of the player do to it.
LEMMA ReadHandled ==
  ASSUME TypeOK, RefreshStatus \/ RefreshPosition \/ SeekReturns
  PROVE  /\ clock' \in PositionClocks /\ status' \in BOOLEAN /\ track' = track
         /\ faults' \in 0..MaxFaults /\ moved' \in BOOLEAN
         /\ ~clock.held => ~clock'.held
         /\ clock'.anchorAt \in {clock.anchorAt, time, now}
         /\ clock.playing = status => clock'.playing = status'
         /\ clock'.length = clock.length
<1>1. /\ clock \in PositionClocks /\ time \in Nat /\ now \in Nat /\ target \in Nat
      /\ clock.playing \in BOOLEAN /\ status \in BOOLEAN /\ moved \in BOOLEAN
      /\ player.playing \in BOOLEAN /\ player.pos \in Nat
      /\ 0 \in Nat /\ NoLength \in Nat \cup {NoLength}
  BY DEF TypeOK, PositionClocks
<1>2. (ReadFails \/ UNCHANGED faults) => faults' \in 0..MaxFaults
  <2>1. faults \in 0..MaxFaults /\ MaxFaults \in Nat BY Bounds DEF TypeOK
  <2>2. ReadFails => faults' \in 0..MaxFaults
    <3>1. ReadFails => faults < MaxFaults /\ faults' = faults + 1 BY DEF ReadFails
    <3> QED BY <2>1, <3>1
  <2> QED BY <2>1, <2>2
<1>3. CASE RefreshStatus
  <2>1. CASE /\ status' = player.playing
             /\ clock' = SetPlaying(clock, player.playing, now)
             /\ moved' = (moved \/ status # player.playing)
             /\ UNCHANGED faults
    <3>1. clock' \in PositionClocks BY <1>1, <2>1, ClocksStayClocks
    <3>2. /\ clock'.playing = player.playing /\ clock'.length = clock.length
          /\ clock'.held = clock.held /\ clock'.anchorAt \in {clock.anchorAt, now}
      BY <1>1, <2>1, ClockFields
    <3> QED BY <1>1, <1>2, <1>3, <2>1, <3>1, <3>2 DEF RefreshStatus
  <2>2. CASE ReadFails /\ UNCHANGED <<status, clock, moved>>
    BY <1>1, <1>2, <1>3, <2>2 DEF RefreshStatus
  <2> QED BY <1>3, <2>1, <2>2 DEF RefreshStatus
<1>4. CASE RefreshPosition
  <2>1. UNCHANGED <<status, track>> /\ moved' = FALSE /\ faults' \in 0..MaxFaults
    BY <1>2, <1>4 DEF RefreshPosition, Finish
  <2>2. clock' = clock \/ clock' = Anchor(clock, player.pos, clock.playing, now)
    BY <1>4 DEF RefreshPosition
  <2>3. CASE clock' = clock BY <1>1, <2>1, <2>3
  <2>4. CASE clock' = Anchor(clock, player.pos, clock.playing, now)
    <3>1. /\ clock' \in PositionClocks /\ clock'.held = clock.held /\ clock'.anchorAt = now
          /\ clock'.playing = clock.playing /\ clock'.length = clock.length
      BY <1>1, <2>4 DEF Anchor, PositionClocks
    <3> QED BY <1>1, <2>1, <3>1
  <2> QED BY <2>2, <2>3, <2>4
<1>5. CASE SeekReturns
  <2>1. clock' = Release(clock, target, time) /\ UNCHANGED <<status, track, faults>>
        /\ moved' = FALSE
    BY <1>5 DEF SeekReturns, Finish
  <2>2. /\ clock' \in PositionClocks /\ ~clock'.held /\ clock'.anchorAt = time
        /\ clock'.playing = clock.playing /\ clock'.length = clock.length
    BY <1>1, <2>1 DEF Release, Anchor, PositionClocks
  <2> QED BY <1>1, <1>2, <2>1, <2>2
<1> QED BY <1>3, <1>4, <1>5

\* A handler that begins at this instant, and one that ends.
LEMMA BeginTyped ==
  ASSUME TypeOK, NEW next \in {"status", "position"}, NEW why \in {"signal", "tick"},
         Begin(next, why)
  PROVE  /\ mode' = next /\ cause' = why /\ now' = time /\ moved' = FALSE
         /\ target' = target /\ UNCHANGED timers
         /\ mode' \in {"select", "status", "position", "seek"}
         /\ cause' \in {"none", "signal", "tick"} /\ now' \in 0..MaxTime
         /\ moved' \in BOOLEAN /\ target' \in Nat
         /\ {heartbeatAt', tickAt'} \subseteq Nat \cup {Never}
BY DEF Begin, TypeOK, timers

LEMMA EndTyped ==
  ASSUME TypeOK, Finish, attention' \in Attentions, clock' \in PositionClocks
  PROVE  /\ mode' \in {"select", "status", "position", "seek"}
         /\ cause' \in {"none", "signal", "tick"} /\ now' \in 0..MaxTime
         /\ moved' \in BOOLEAN /\ target' \in Nat
         /\ {heartbeatAt', tickAt'} \subseteq Nat \cup {Never}
<1>1. 0 \in 0..MaxTime BY Bounds
<1> QED BY <1>1, FinishTyped

LEMMA LoopTyped ==
  ASSUME TypeOK, Loop
  PROVE  TypeOK'
<1>1. /\ time \in 0..MaxTime /\ attention \in Attentions /\ status \in BOOLEAN
      /\ track \in Nat /\ clock \in PositionClocks
      /\ player \in [playing : BOOLEAN, pos : Nat, length : Lengths, track : Nat]
      /\ signals \in Seq(Signals) /\ target \in Nat
  BY DEF TypeOK
<1>2. CASE HandleSeeked
  <2>1. /\ clock' \in PositionClocks /\ status' \in BOOLEAN /\ track' \in Nat
        /\ signals' \in Seq(Signals) /\ overtakes' \in 0..MaxOvertakes
    BY <1>2, SignalHandled
  <2>2. attention' \in Attentions /\ Finish /\ Publish BY <1>1, <1>2 DEF HandleSeeked
  <2>3. shown' \in [playing : BOOLEAN, pos : Nat, at : 0..MaxTime]
    BY <2>1, <2>2, PublishTyped
  <2> QED BY <1>1, <1>2, <2>1, <2>2, <2>3, EndTyped DEF HandleSeeked, TypeOK
<1>3. CASE HandleStatus
  <2>1. /\ clock' \in PositionClocks /\ status' \in BOOLEAN /\ track' \in Nat
        /\ signals' \in Seq(Signals) /\ overtakes' \in 0..MaxOvertakes
    BY <1>3, SignalHandled
  <2>2. Begin("position", "signal") BY <1>3 DEF HandleStatus
  <2> QED BY <1>1, <1>3, <2>1, <2>2, BeginTyped DEF HandleStatus, TypeOK
<1>4. CASE HandleMetadata
  <2>1. /\ clock' \in PositionClocks /\ status' \in BOOLEAN /\ track' \in Nat
        /\ signals' \in Seq(Signals) /\ overtakes' \in 0..MaxOvertakes
    BY <1>4, SignalHandled
  <2>2. Begin("status", "signal") BY <1>4 DEF HandleMetadata
  <2> QED BY <1>1, <1>4, <2>1, <2>2, BeginTyped DEF HandleMetadata, TypeOK
<1>5. CASE RefreshStatus
  <2>1. /\ clock' \in PositionClocks /\ status' \in BOOLEAN /\ track' = track
        /\ faults' \in 0..MaxFaults /\ moved' \in BOOLEAN
    BY <1>5, ReadHandled
  <2> QED BY <1>1, <1>5, <2>1 DEF RefreshStatus, TypeOK, timers
<1>6. CASE RefreshPosition
  <2>1. /\ clock' \in PositionClocks /\ status' \in BOOLEAN /\ track' = track
        /\ faults' \in 0..MaxFaults /\ moved' \in BOOLEAN
    BY <1>6, ReadHandled
  <2>2. attention' \in Attentions /\ Finish BY <1>1, <1>6 DEF RefreshPosition
  <2>3. Publish \/ UNCHANGED shown BY <1>6 DEF RefreshPosition
  <2>4. shown' \in [playing : BOOLEAN, pos : Nat, at : 0..MaxTime]
    BY <2>1, <2>3, PublishTyped DEF TypeOK
  <2>5. UNCHANGED <<time, player, signals, overtakes, events>> /\ heardAt' = time
    BY <1>6 DEF RefreshPosition
  <2> QED BY <1>1, <2>1, <2>2, <2>4, <2>5, EndTyped DEF TypeOK
<1>7. CASE Reconcile
  <2>1. Begin("status", "tick") BY <1>7 DEF Reconcile
  <2> QED BY <1>1, <1>7, <2>1, BeginTyped DEF Reconcile, TypeOK, picture
<1>8. CASE Republish
  <2>1. Finish /\ Publish /\ clock' = clock /\ status' = status /\ attention' = attention
    BY <1>8 DEF Republish, picture
  <2>2. shown' \in [playing : BOOLEAN, pos : Nat, at : 0..MaxTime]
    BY <1>1, <2>1, PublishTyped
  <2> QED BY <1>1, <1>8, <2>1, <2>2, EndTyped DEF Republish, TypeOK, picture
<1>9. CASE ChangeAttention
  <2>1. Finish /\ clock' = clock /\ attention' \in Attentions
    BY <1>9 DEF ChangeAttention, picture
  <2>2. events' \in 0..MaxEvents
    <3>1. events \in 0..MaxEvents /\ MaxEvents \in Nat BY Bounds DEF TypeOK
    <3> QED BY <1>9, <3>1 DEF ChangeAttention
  <2> QED BY <1>1, <1>9, <2>1, <2>2, EndTyped DEF ChangeAttention, TypeOK, picture
<1>10. CASE Seek
  <2>1. PICK to \in 0..MaxTime :
            /\ target' = to
            /\ \E pos \in {to, player.pos + to - PositionAt(clock, time)} :
                  player' = [player EXCEPT !.pos = PlayerAt(IF pos < 0 THEN 0 ELSE pos)]
    BY <1>10 DEF Seek
  <2>2. PICK pos \in {to, player.pos + to - PositionAt(clock, time)} :
            player' = [player EXCEPT !.pos = PlayerAt(IF pos < 0 THEN 0 ELSE pos)]
    BY <2>1
  <2>3. PositionAt(clock, time) \in Nat /\ to \in Nat /\ player.pos \in Nat /\ target' \in Nat
    BY <1>1, <2>1, ClocksStayClocks, Bounds
  <2>4. (IF pos < 0 THEN 0 ELSE pos) \in Nat BY <2>3
  <2>5. PlayerAt(IF pos < 0 THEN 0 ELSE pos) \in Nat BY <2>4, PlayerAtBounds
  <2>6. player' \in [playing : BOOLEAN, pos : Nat, length : Lengths, track : Nat]
    BY <1>1, <2>2, <2>5
  <2>7. [kind |-> "seeked", pos |-> player'.pos, at |-> time] \in Signals
    BY <1>1, <2>6 DEF Signals
  <2>8. signals' \in Seq(Signals) /\ faults' \in 0..MaxFaults
    BY <1>10, <2>7, AnnounceTyped DEF Seek
  <2>9. events' \in 0..MaxEvents
    <3>1. events \in 0..MaxEvents /\ MaxEvents \in Nat BY Bounds DEF TypeOK
    <3> QED BY <1>10, <3>1 DEF Seek
  <2>10. /\ mode' = "seek" /\ now' = time
         /\ UNCHANGED <<cause, moved, heartbeatAt, tickAt, time, attention, status, track,
                        clock, shown, heardAt, overtakes>>
    BY <1>10 DEF Seek, timers, picture
  <2> QED BY <1>1, <2>3, <2>6, <2>8, <2>9, <2>10 DEF TypeOK
<1>11. CASE SeekReturns
  <2>1. clock' \in PositionClocks /\ status' \in BOOLEAN /\ track' = track
    BY <1>11, ReadHandled
  <2>2. attention' \in Attentions /\ Finish /\ Publish BY <1>1, <1>11 DEF SeekReturns
  <2>3. shown' \in [playing : BOOLEAN, pos : Nat, at : 0..MaxTime]
    BY <2>1, <2>2, PublishTyped
  <2> QED BY <1>1, <1>11, <2>1, <2>2, <2>3, EndTyped DEF SeekReturns, TypeOK
<1> QED BY <1>2, <1>3, <1>4, <1>5, <1>6, <1>7, <1>8, <1>9, <1>10, <1>11 DEF Loop

LEMMA NextTyped == TypeOK /\ [Next]_vars => TypeOK'
<1> SUFFICES ASSUME TypeOK, [Next]_vars PROVE TypeOK' OBVIOUS
<1>1. CASE Next BY <1>1, PlayerTyped, TickTyped, LoopTyped DEF Next
<1>2. CASE UNCHANGED vars BY <1>2 DEF TypeOK, vars, handler, picture, timers
<1> QED BY <1>1, <1>2

\* Every variable has its type.
THEOREM TypeAlways == Spec => []TypeOK
<1> QED BY InitTyped, NextTyped, PTL DEF Spec

-----------------------------------------------------------------------------
(* Where the player is, and the instants. *)

Instants == ClockInTime /\ SignalsInTime /\ HandlerInTime

LEMMA Announced ==
  ASSUME TypeOK, NEW signal \in Signals, Announce(signal)
  PROVE  \/ /\ signals' = Append(signals, signal) /\ faults' = faults
            /\ Len(signals') = Len(signals) + 1 /\ DOMAIN signals' = 1..(Len(signals) + 1)
            /\ \A i \in 1..Len(signals) : signals'[i] = signals[i]
            /\ signals'[Len(signals) + 1] = signal
         \/ UNCHANGED signals /\ faults' = faults + 1 /\ faults' # 0
<1>1. signals \in Seq(Signals) /\ faults \in Nat BY Bounds DEF TypeOK
<1>2. CASE signals' = Append(signals, signal) /\ UNCHANGED faults
  <2>1. /\ Len(signals') = Len(signals) + 1
        /\ \A i \in 1..Len(signals) : signals'[i] = signals[i]
        /\ signals'[Len(signals) + 1] = signal
        /\ signals' \in Seq(Signals)
    BY <1>1, <1>2, AppendProperties
  <2>2. DOMAIN signals' = 1..(Len(signals) + 1) BY <2>1, LenProperties
  <2> QED BY <1>2, <2>1, <2>2
<1>3. CASE faults < MaxFaults /\ faults' = faults + 1 /\ UNCHANGED signals
  BY <1>1, <1>3
<1> QED BY <1>2, <1>3 DEF Announce

\* What a player's action or a Seek announces is of this instant.
LEMMA Says ==
  ASSUME TypeOK, TypeOK'
  PROVE  /\ PlayPause => LET said == [kind |-> "status", playing |-> player'.playing,
                                      at |-> time]
                         IN  said \in Signals /\ Announce(said) /\ said.at = time
         /\ PlayerSeeks \/ Seek => LET said == [kind |-> "seeked", pos |-> player'.pos,
                                                at |-> time]
                                   IN  said \in Signals /\ Announce(said) /\ said.at = time
         /\ ChangeTrack => LET said == [kind |-> "metadata", track |-> player'.track,
                                        length |-> player'.length, at |-> time]
                           IN  said \in Signals /\ Announce(said) /\ said.at = time
<1>1. time \in Nat /\ player' \in [playing : BOOLEAN, pos : Nat, length : Lengths, track : Nat]
  BY Bounds DEF TypeOK
<1>2. /\ [kind |-> "status", playing |-> player'.playing, at |-> time] \in Signals
      /\ [kind |-> "seeked", pos |-> player'.pos, at |-> time] \in Signals
      /\ [kind |-> "metadata", track |-> player'.track, length |-> player'.length,
          at |-> time] \in Signals
  BY <1>1 DEF Signals
<1> QED BY <1>2 DEF PlayPause, PlayerSeeks, ChangeTrack, Seek

LEMMA Untouched ==
  ASSUME Player \/ Seek
  PROVE  /\ UNCHANGED <<time, status, track, clock, heartbeatAt, tickAt, attention, shown,
                        heardAt, overtakes>>
         /\ Player => UNCHANGED <<mode, now>>
         /\ Seek => mode = "select" /\ mode' = "seek" /\ now' = time
<1>1. Player => PlayerActs BY DEF Player, PlayPause, PlayerSeeks, ChangeTrack
<1>2. PlayerActs => UNCHANGED <<time, status, track, clock, heartbeatAt, tickAt, attention,
                                shown, heardAt, overtakes, mode, now>>
  BY DEF PlayerActs, handler, picture, timers
<1>3. Seek => /\ UNCHANGED <<time, status, track, clock, heartbeatAt, tickAt, attention, shown,
                             heardAt, overtakes>>
              /\ mode = "select" /\ mode' = "seek" /\ now' = time
  BY DEF Seek, timers, picture
<1> QED BY <1>1, <1>2, <1>3

\* The signals after a step: old ones, and perhaps a new one of this instant.
LEMMA SignalsGo ==
  ASSUME TypeOK, TypeOK', Next
  PROVE  \A j \in DOMAIN signals' :
            \/ \E i \in DOMAIN signals : signals'[j] = signals[i]
            \/ (Player \/ Seek) /\ signals'[j].at = time
<1>1. signals \in Seq(Signals) BY DEF TypeOK
<1>2. DOMAIN signals = 1..Len(signals) /\ Len(signals) \in Nat BY <1>1, LenProperties
<1>3. CASE Player \/ Seek
  <2>1. PICK signal \in Signals : Announce(signal) /\ signal.at = time
    BY <1>3, Says DEF Player
  <2> QED BY <1>1, <1>2, <1>3, <2>1, Announced
<1>4. CASE HandleSeeked \/ HandleStatus \/ HandleMetadata
  <2>1. PICK i \in DOMAIN signals : Deliver(i)
    BY <1>4 DEF HandleSeeked, HandleStatus, HandleMetadata
  <2>2. /\ i \in 1..Len(signals) /\ DOMAIN signals' = 1..(Len(signals) - 1)
        /\ \A j \in 1..(Len(signals) - 1) :
               signals'[j] = IF j < i THEN signals[j] ELSE signals[j + 1]
    BY <1>1, <1>2, <2>1, Delivered
  <2> QED BY <1>2, <2>2
<1>5. CASE \/ Tick \/ RefreshStatus \/ RefreshPosition \/ Reconcile \/ Republish
           \/ ChangeAttention \/ SeekReturns
  <2>1. signals' = signals
    BY <1>5 DEF Tick, RefreshStatus, RefreshPosition, Reconcile, Republish,
       ChangeAttention,
                SeekReturns
  <2> QED BY <2>1
<1> QED BY <1>3, <1>4, <1>5 DEF Next, Loop

LEMMA InTimeTick ==
  ASSUME TypeOK, Tick
  PROVE  /\ time' = time + 1 /\ time \in Nat
         /\ \A i \in DOMAIN signals : time - signals[i].at < MaxLatency
         /\ mode # "select" => time - now < MaxLatency
         /\ mode = "select" => /\ heartbeatAt = Never \/ time < heartbeatAt
                               /\ tickAt = Never \/ time < tickAt
         /\ UNCHANGED <<signals, mode, now, attention, status, track, clock, heartbeatAt,
                        tickAt, shown, heardAt, faults, overtakes>>
BY Bounds DEF Tick, InTime, TypeOK, handler, picture, timers

LEMMA SignalsStayInTime ==
  ASSUME TypeOK, TypeOK', SignalsInTime, [Next]_vars
  PROVE  SignalsInTime'
<1>1. /\ time \in Nat /\ MaxLatency \in Nat /\ signals \in Seq(Signals)
      /\ signals' \in Seq(Signals)
  BY Bounds DEF TypeOK
<1>2. \A i \in DOMAIN signals : signals[i].at \in Nat
  BY <1>1, SignalAt, SignalTypes
<1>3. CASE Tick
  <2>1. signals' = signals /\ time' = time + 1 BY <1>3, InTimeTick
  <2>2. ASSUME NEW j \in DOMAIN signals
        PROVE  signals[j].at <= time' /\ time' - signals[j].at <= MaxLatency
    <3>1. signals[j].at <= time /\ time - signals[j].at < MaxLatency /\ signals[j].at \in Nat
      BY <1>2, <1>3, InTimeTick DEF SignalsInTime
    <3> QED BY <1>1, <2>1, <3>1
  <2> QED BY <2>1, <2>2 DEF SignalsInTime
<1>4. CASE Next /\ ~Tick
  <2>1. time' = time
    BY <1>4, Untouched DEF Next, Loop, HandleSeeked, HandleStatus, HandleMetadata,
       RefreshStatus,
       RefreshPosition, Reconcile, Republish, ChangeAttention, SeekReturns
  <2> SUFFICES ASSUME NEW j \in DOMAIN signals'
               PROVE  signals'[j].at <= time /\ time - signals'[j].at <= MaxLatency
    BY <2>1 DEF SignalsInTime
  <2>2. CASE \E i \in DOMAIN signals : signals'[j] = signals[i]
    BY <2>2 DEF SignalsInTime
  <2>3. CASE signals'[j].at = time BY <1>1, <2>3
  <2> QED BY <1>4, <2>2, <2>3, SignalsGo
<1>5. CASE UNCHANGED vars BY <1>5 DEF vars, SignalsInTime
<1> QED BY <1>3, <1>4, <1>5

LEMMA ClockStaysInTime ==
  ASSUME TypeOK, TypeOK', ClockInTime, HandlerInTime, [Next]_vars
  PROVE  ClockInTime'
<1>1. time \in Nat /\ time' \in Nat /\ clock.anchorAt \in Nat /\ clock' \in PositionClocks
  BY Bounds DEF TypeOK, PositionClocks
<1>2. clock'.anchorAt \in Nat BY <1>1 DEF PositionClocks
<1>3. CASE HandleSeeked \/ HandleStatus \/ HandleMetadata
  <2>1. time' = time BY <1>3 DEF HandleSeeked, HandleStatus, HandleMetadata
  <2>2. /\ clock'.held = clock.held /\ clock'.anchorAt \in {clock.anchorAt, time}
        /\ clock.playing = status => clock'.playing = status'
    BY <1>3, SignalHandled
  <2> QED BY <1>1, <2>1, <2>2 DEF ClockInTime
<1>4. CASE RefreshStatus \/ RefreshPosition \/ SeekReturns
  <2>1. time' = time /\ mode # "select"
    BY <1>4 DEF RefreshStatus, RefreshPosition, SeekReturns
  <2>2. /\ ~clock.held => ~clock'.held /\ clock'.anchorAt \in {clock.anchorAt, time, now}
        /\ clock.playing = status => clock'.playing = status'
    BY <1>4, ReadHandled
  <2> QED BY <1>1, <2>1, <2>2 DEF ClockInTime, HandlerInTime
<1>5. CASE Player \/ Seek \/ Reconcile \/ Republish \/ ChangeAttention
  <2>1. UNCHANGED <<time, clock, status>>
    BY <1>5, Untouched DEF Reconcile, Republish, ChangeAttention, picture
  <2> QED BY <2>1 DEF ClockInTime
<1>6. CASE Tick BY <1>1, <1>6, InTimeTick DEF ClockInTime
<1>7. CASE UNCHANGED vars BY <1>7 DEF ClockInTime, vars, picture
<1> QED BY <1>3, <1>4, <1>5, <1>6, <1>7 DEF Next, Loop

LEMMA HandlersStayInTime ==
  ASSUME TypeOK, HandlerInTime, [Next]_vars
  PROVE  HandlerInTime'
<1>1. time \in Nat /\ now \in Nat /\ MaxLatency \in Nat BY Bounds DEF TypeOK
<1>2. CASE HandleStatus \/ HandleMetadata \/ Reconcile
  BY <1>1, <1>2 DEF HandleStatus, HandleMetadata, Reconcile, Begin, HandlerInTime
<1>3. CASE HandleSeeked \/ RefreshPosition \/ SeekReturns \/ Republish \/ ChangeAttention
  BY <1>3 DEF HandleSeeked, RefreshPosition, SeekReturns, Republish, ChangeAttention,
     Finish,
     HandlerInTime
<1>4. CASE RefreshStatus BY <1>4 DEF RefreshStatus, HandlerInTime
<1>5. CASE Player \/ Seek BY <1>1, <1>5, Untouched DEF HandlerInTime
<1>6. CASE Tick BY <1>1, <1>6, InTimeTick DEF HandlerInTime
<1>7. CASE UNCHANGED vars BY <1>7 DEF HandlerInTime, vars, handler
<1> QED BY <1>2, <1>3, <1>4, <1>5, <1>6, <1>7 DEF Next, Loop

LEMMA PlayerStaysInTrack ==
  ASSUME TypeOK, PlayerOK, [Next]_vars
  PROVE  PlayerOK'
<1>1. /\ player \in [playing : BOOLEAN, pos : Nat, length : Lengths, track : Nat]
      /\ player.length \in Nat \cup {NoLength} /\ clock \in PositionClocks /\ time \in Nat
  BY Bounds DEF TypeOK
<1>2. \A pos \in Nat : player' = [player EXCEPT !.pos = PlayerAt(pos)] => PlayerOK'
  <2> SUFFICES ASSUME NEW pos \in Nat, player' = [player EXCEPT !.pos = PlayerAt(pos)]
               PROVE  PlayerOK'
    OBVIOUS
  <2>1. player'.pos = PlayerAt(pos) /\ player'.length = player.length BY <1>1
  <2> QED BY <2>1, PlayerAtBounds DEF PlayerOK
<1>3. CASE PlayPause BY <1>1, <1>3 DEF PlayPause, PlayerOK
<1>4. CASE PlayerSeeks
  <2>1. PICK pos \in 0..MaxTime : pos = PlayerAt(pos) /\ player' = [player EXCEPT !.pos = pos]
    BY <1>4 DEF PlayerSeeks
  <2>2. pos \in Nat BY Bounds
  <2> QED BY <1>2, <2>1, <2>2
<1>5. CASE ChangeTrack
  <2>1. PICK length \in Lengths :
            player' = [player EXCEPT !.pos = 0, !.length = length, !.track = @ + 1]
    BY <1>5 DEF ChangeTrack
  <2>2. player'.pos = 0 /\ player'.length = length /\ length \in Nat \cup {NoLength}
    BY <1>1, <2>1, Bounds
  <2> QED BY <2>2 DEF PlayerOK
<1>6. CASE Seek
  <2>1. PICK to \in 0..MaxTime, pos \in Int :
            player' = [player EXCEPT !.pos = PlayerAt(IF pos < 0 THEN 0 ELSE pos)]
    <3>1. PICK to \in 0..MaxTime :
              \E pos \in {to, player.pos + to - PositionAt(clock, time)} :
                  player' = [player EXCEPT !.pos = PlayerAt(IF pos < 0 THEN 0 ELSE pos)]
      BY <1>6 DEF Seek
    <3>2. PositionAt(clock, time) \in Nat /\ to \in Nat /\ player.pos \in Nat
      BY <1>1, ClocksStayClocks, Bounds
    <3>3. to \in Int /\ player.pos + to - PositionAt(clock, time) \in Int BY <3>2
    <3> QED BY <3>1, <3>3
  <2>2. (IF pos < 0 THEN 0 ELSE pos) \in Nat BY <2>1
  <2> QED BY <1>2, <2>1, <2>2
<1>7. CASE Tick
  <2>1. CASE player.playing
    <3>1. player.pos + 1 \in Nat /\ player' = [player EXCEPT !.pos = PlayerAt(player.pos + 1)]
      BY <1>1, <1>7, <2>1 DEF Tick
    <3> QED BY <1>2, <3>1
  <2>2. CASE ~player.playing
    <3>1. player'.pos = player.pos /\ player'.length = player.length
      BY <1>1, <1>7, <2>2 DEF Tick
    <3> QED BY <3>1 DEF PlayerOK
  <2> QED BY <2>1, <2>2
<1>8. CASE Loop /\ ~Seek
  <2>1. player' = player
    BY <1>8 DEF Loop, HandleSeeked, HandleStatus, HandleMetadata, RefreshStatus,
       RefreshPosition, Reconcile, Republish, ChangeAttention, SeekReturns
  <2> QED BY <2>1 DEF PlayerOK
<1>9. CASE UNCHANGED vars BY <1>9 DEF PlayerOK, vars
<1> QED BY <1>3, <1>4, <1>5, <1>6, <1>7, <1>8, <1>9 DEF Next, Player

-----------------------------------------------------------------------------
(* The timers. *)

LEMMA DeadlinesStay ==
  ASSUME TypeOK, TypeOK', Deadlines, [Next]_vars
  PROVE  Deadlines'
<1>1. /\ time \in Nat /\ Heartbeat \in Nat /\ PausedInterval \in Nat /\ Never \notin Nat
      /\ heardAt \in Nat /\ shown.at \in Nat /\ clock.playing \in BOOLEAN
      /\ clock'.playing \in BOOLEAN /\ clock' \in PositionClocks /\ attention' \in Attentions
  BY Bounds DEF TypeOK, Never, PositionClocks
<1>2. ASSUME Finish, time' = time, heardAt' = time \/ (shown'.at = time /\ clock'.playing)
      PROVE  Deadlines'
  <2>1. /\ heartbeatAt' = IF attention' # "Idle" /\ clock'.playing
                          THEN time + Heartbeat ELSE Never
        /\ attention' # "Idle" /\ ~clock'.playing => tickAt' = time + PausedInterval
    BY <1>1, <1>2, FinishTyped
  <2>2. CASE attention' # "Idle" /\ clock'.playing
    <3>1. heartbeatAt' \in {shown'.at + Heartbeat, heardAt' + Heartbeat}
          /\ time' <= heartbeatAt'
      BY <1>1, <1>2, <2>1, <2>2
    <3> QED BY <2>2, <3>1 DEF Deadlines
  <2>3. CASE attention' # "Idle" /\ ~clock'.playing
    <3>1. heardAt' = time BY <1>2, <2>3
    <3>2. heartbeatAt' = Never /\ tickAt' = heardAt' + PausedInterval /\ time' <= tickAt'
      BY <1>1, <1>2, <2>1, <2>3, <3>1
    <3> QED BY <2>3, <3>2 DEF Deadlines
  <2> QED BY <2>2, <2>3 DEF Deadlines
<1>3. CASE HandleSeeked \/ RefreshPosition \/ SeekReturns \/ ChangeAttention
  <2>1. Finish /\ time' = time /\ heardAt' = time
    BY <1>3 DEF HandleSeeked, RefreshPosition, SeekReturns, ChangeAttention
  <2> QED BY <1>2, <2>1
<1>4. CASE Republish /\ clock.playing
  BY <1>2, <1>4 DEF Republish, Publish, picture
<1>5. CASE Republish /\ ~clock.playing
  \* The heartbeat is armed while the clock runs, and for somebody.
  <2>1. mode = "select" /\ heartbeatAt # Never /\ UNCHANGED <<clock, attention>>
    BY <1>5 DEF Republish, picture
  <2>2. attention = "Idle" BY <1>5, <2>1 DEF Deadlines
  <2> QED BY <2>1, <2>2 DEF Deadlines
<1>6. CASE HandleStatus \/ HandleMetadata \/ Reconcile \/ RefreshStatus \/ Seek
  <2>1. mode' # "select"
    BY <1>6 DEF HandleStatus, HandleMetadata, Reconcile, RefreshStatus, Seek, Begin
  <2> QED BY <2>1 DEF Deadlines
<1>7. CASE Player BY <1>7, Untouched DEF Deadlines
<1>8. CASE Tick
  <2>1. /\ time' = time + 1
        /\ UNCHANGED <<mode, attention, clock, heartbeatAt, tickAt, shown, heardAt>>
        /\ mode = "select" => /\ heartbeatAt = Never \/ time < heartbeatAt
                              /\ tickAt = Never \/ time < tickAt
    BY <1>8, InTimeTick
  <2>2. CASE mode = "select" /\ attention # "Idle" /\ clock.playing
    <3>1. heartbeatAt \in {shown.at + Heartbeat, heardAt + Heartbeat} BY <2>2 DEF Deadlines
    <3>2. heartbeatAt \in Nat /\ time < heartbeatAt BY <1>1, <2>1, <2>2, <3>1
    <3>3. time + 1 <= heartbeatAt BY <1>1, <3>2
    <3> QED BY <2>1, <2>2, <3>1, <3>3 DEF Deadlines
  <2>3. CASE mode = "select" /\ attention # "Idle" /\ ~clock.playing
    <3>1. heartbeatAt = Never /\ tickAt = heardAt + PausedInterval BY <2>3 DEF Deadlines
    <3>2. tickAt \in Nat /\ time < tickAt BY <1>1, <2>1, <2>3, <3>1
    <3>3. time + 1 <= tickAt BY <1>1, <3>2
    <3> QED BY <2>1, <2>3, <3>1, <3>3 DEF Deadlines
  <2> QED BY <2>1, <2>2, <2>3 DEF Deadlines
<1>9. CASE UNCHANGED vars BY <1>9 DEF Deadlines, vars, handler, picture, timers
<1> QED BY <1>3, <1>4, <1>5, <1>6, <1>7, <1>8, <1>9 DEF Next, Loop

-----------------------------------------------------------------------------
(* What holds whatever is missed. *)

Timely == TypeOK /\ PlayerOK /\ Instants /\ Deadlines

LEMMA InitTimely == Init => Timely
<1> SUFFICES ASSUME Init PROVE Timely OBVIOUS
<1>1. TypeOK BY InitTyped
<1>2. PICK playing \in BOOLEAN, length \in Lengths :
          /\ player = [playing |-> playing, pos |-> 0, length |-> length, track |-> 1]
          /\ status = playing
          /\ clock = Anchor(SetLength(NewClock(0), length), 0, playing, 0)
  BY DEF Init
<1>3. length \in Nat \cup {NoLength} BY Bounds
<1>4. clock.anchorAt = 0 /\ clock.playing = status /\ ~clock.held
  BY <1>2, <1>3 DEF Anchor, SetLength, NewClock
<1>5. /\ time = 0 /\ mode = "select" /\ signals = <<>> /\ attention = "Idle"
  BY DEF Init
<1>6. PlayerOK BY <1>2, <1>3 DEF PlayerOK
<1>7. Instants BY <1>4, <1>5 DEF Instants, ClockInTime, SignalsInTime, HandlerInTime
<1>8. Deadlines BY <1>5 DEF Deadlines
<1> QED BY <1>1, <1>6, <1>7, <1>8 DEF Timely

LEMMA NextTimely == Timely /\ [Next]_vars => Timely'
<1> SUFFICES ASSUME Timely, [Next]_vars PROVE Timely' OBVIOUS
<1>1. TypeOK /\ TypeOK' BY NextTyped DEF Timely
<1>2. PlayerOK' BY <1>1, PlayerStaysInTrack DEF Timely
<1>3. SignalsInTime' BY <1>1, SignalsStayInTime DEF Timely, Instants
<1>4. ClockInTime' BY <1>1, ClockStaysInTime DEF Timely, Instants
<1>5. HandlerInTime' BY <1>1, HandlersStayInTime DEF Timely, Instants
<1>6. Deadlines' BY <1>1, DeadlinesStay DEF Timely
<1> QED BY <1>1, <1>2, <1>3, <1>4, <1>5, <1>6 DEF Timely, Instants

\* While something is played and somebody is connected, what clients were last
\* shown is never older than a heartbeat from the last event (engine.rs run).
THEOREM NeverFrozenAlways == Spec => []NeverFrozen
<1>1. Timely => NeverFrozen
  <2> SUFFICES ASSUME Timely, mode = "select", clock.playing, attention # "Idle"
               PROVE  \E since \in {shown.at, heardAt} : time - since <= Heartbeat
    BY DEF NeverFrozen
  <2>1. heartbeatAt \in {shown.at + Heartbeat, heardAt + Heartbeat} /\ time <= heartbeatAt
    BY DEF Timely, Deadlines
  <2>2. /\ time \in Nat /\ shown.at \in Nat /\ heardAt \in Nat /\ Heartbeat \in Nat
    BY Bounds DEF Timely, TypeOK
  <2>3. CASE heartbeatAt = shown.at + Heartbeat
    <3>1. time - shown.at <= Heartbeat BY <2>1, <2>2, <2>3
    <3> QED BY <3>1
  <2>4. CASE heartbeatAt = heardAt + Heartbeat
    <3>1. time - heardAt <= Heartbeat BY <2>1, <2>2, <2>4
    <3> QED BY <3>1
  <2> QED BY <2>1, <2>3, <2>4
<1> QED BY <1>1, InitTimely, NextTimely, PTL DEF Spec

\* A start of playback that was never announced is noticed within the paused
\* interval of the last thing heard (engine.rs poll_interval).
THEOREM MissedStartIsNoticedAlways == Spec => []MissedStartIsNoticed
<1>1. Timely => MissedStartIsNoticed
  <2> SUFFICES ASSUME Timely, mode = "select", attention # "Idle", ~status
               PROVE  time - heardAt <= PausedInterval + MaxLatency
    BY DEF MissedStartIsNoticed, CaughtUp
  <2>1. ~clock.playing BY DEF Timely, Instants, ClockInTime
  <2>2. tickAt = heardAt + PausedInterval /\ time <= tickAt
    BY <2>1 DEF Timely, Deadlines
  <2>3. time \in Nat /\ heardAt \in Nat /\ PausedInterval \in Nat /\ MaxLatency \in Nat
    BY Bounds DEF Timely, TypeOK
  <2> QED BY <2>2, <2>3
<1> QED BY <1>1, InitTimely, NextTimely, PTL DEF Spec

\* Clients are always shown a status the clock agrees with: the clock runs
\* exactly while the engine believes the player plays (engine.rs publish).
THEOREM ShownIsConsistentAlways == Spec => ShownIsConsistent
<1>1. Timely /\ Timely' /\ [Next]_vars
          => (shown' # shown => shown'.playing = clock'.playing)
  <2> SUFFICES ASSUME Timely, Timely', [Next]_vars, shown' # shown
               PROVE  shown'.playing = clock'.playing
    OBVIOUS
  <2>1. Publish
    <3>1. ~Player /\ ~Seek BY Untouched
    <3> QED BY <3>1 DEF Next, Loop, Tick, HandleSeeked, HandleStatus, HandleMetadata,
          RefreshStatus, RefreshPosition, Reconcile, Republish, ChangeAttention, SeekReturns,
          vars
  <2>2. shown'.playing = status' BY <2>1 DEF Publish
  <2>3. clock'.playing = status' BY DEF Timely, Instants, ClockInTime
  <2> QED BY <2>2, <2>3
<1> QED BY <1>1, InitTimely, NextTimely, PTL DEF Spec, ShownIsConsistent

-----------------------------------------------------------------------------
(* The last word of each kind. *)

LEMMA LastDelivered ==
  ASSUME TypeOK, NEW i \in DOMAIN signals, Deliver(i), NEW kind
  PROVE  /\ \A j \in DOMAIN signals' :
               LastOf(kind, j)' => \E k \in DOMAIN signals :
                                       LastOf(kind, k) /\ signals'[j] = signals[k]
         /\ NoneOf(kind)' => IF signals[i].kind = kind THEN LastOf(kind, i) ELSE NoneOf(kind)
<1> DEFINE n == Len(signals)
<1>1. /\ i \in 1..n /\ n \in Nat /\ DOMAIN signals = 1..n /\ DOMAIN signals' = 1..(n - 1)
      /\ \A j \in 1..(n - 1) : signals'[j] = IF j < i THEN signals[j] ELSE signals[j + 1]
  <2>1. signals \in Seq(Signals) BY DEF TypeOK
  <2> QED BY <2>1, SignalAt, Delivered
<1>2. \A j \in 1..(i - 1) : signals[j].kind # signals[i].kind
  BY DEF Deliver, Stream
<1> HIDE DEF n
<1>3. \A m \in 1..n : m # i => \E j \in 1..(n - 1) : /\ signals'[j] = signals[m]
                                                     /\ j = IF m < i THEN m ELSE m - 1
  <2> SUFFICES ASSUME NEW m \in 1..n, m # i
               PROVE  \E j \in 1..(n - 1) : /\ signals'[j] = signals[m]
                                            /\ j = IF m < i THEN m ELSE m - 1
    OBVIOUS
  <2>1. CASE m < i
    <3>1. m \in 1..(n - 1) BY <1>1, <2>1
    <3>2. signals'[m] = signals[m] BY <1>1, <2>1, <3>1
    <3> QED BY <2>1, <3>1, <3>2
  <2>2. CASE ~(m < i)
    <3>1. m - 1 \in 1..(n - 1) /\ ~(m - 1 < i) /\ (m - 1) + 1 = m BY <1>1, <2>2
    <3>2. signals'[m - 1] = signals[m] BY <1>1, <3>1
    <3> QED BY <2>2, <3>1, <3>2
  <2> QED BY <2>1, <2>2
<1>4. ASSUME NEW j \in DOMAIN signals', LastOf(kind, j)'
      PROVE  \E k \in DOMAIN signals : LastOf(kind, k) /\ signals'[j] = signals[k]
  <2> DEFINE k == IF j < i THEN j ELSE j + 1
  <2>1. j \in 1..(n - 1) BY <1>1
  <2>2. k \in 1..n /\ k # i /\ signals'[j] = signals[k] BY <1>1, <2>1
  <2>3. signals[k].kind = kind BY <1>4, <2>2 DEF LastOf
  <2>4. ASSUME NEW m \in 1..n, k < m, signals[m].kind = kind
        PROVE  FALSE
    <3>1. m # i
      <4>1. SUFFICES ASSUME m = i PROVE FALSE OBVIOUS
      <4>2. k \in 1..(i - 1) BY <1>1, <2>2, <2>4, <4>1
      <4> QED BY <1>2, <2>3, <2>4, <4>1, <4>2
    <3>2. PICK l \in 1..(n - 1) : /\ signals'[l] = signals[m]
                                  /\ l = IF m < i THEN m ELSE m - 1
      BY <1>3, <3>1
    <3>3. j < l BY <1>1, <2>1, <2>4, <3>1, <3>2
    <3>4. l \in DOMAIN signals' BY <1>1
    <3> QED BY <1>4, <2>4, <3>2, <3>3, <3>4 DEF LastOf
  <2> HIDE DEF k
  <2>5. LastOf(kind, k) BY <1>1, <2>2, <2>3, <2>4 DEF LastOf
  <2> QED BY <1>1, <2>2, <2>5
<1>5. ASSUME NoneOf(kind)'
      PROVE  IF signals[i].kind = kind THEN LastOf(kind, i) ELSE NoneOf(kind)
  <2>1. \A m \in 1..n : m # i => signals[m].kind # kind
    <3>1. \A j \in DOMAIN signals' : signals'[j].kind # kind BY <1>5 DEF NoneOf
    <3> QED BY <1>1, <1>3, <3>1
  <2>2. CASE signals[i].kind = kind
    <3>1. \A m \in 1..n : i < m => signals[m].kind # kind BY <1>1, <2>1
    <3> QED BY <1>1, <2>2, <3>1 DEF LastOf
  <2>3. CASE signals[i].kind # kind BY <1>1, <2>1, <2>3 DEF NoneOf
  <2> QED BY <2>2, <2>3
<1> QED BY <1>4, <1>5

LEMMA LastAnnounced ==
  ASSUME TypeOK, NEW signal \in Signals, Announce(signal), faults' = 0, NEW kind
  PROVE  /\ faults = 0
         /\ \A j \in DOMAIN signals' :
               LastOf(kind, j)' => IF signal.kind = kind THEN signals'[j] = signal
                                   ELSE /\ LastOf(kind, j) /\ j \in DOMAIN signals
                                        /\ signals'[j] = signals[j]
         /\ NoneOf(kind)' => NoneOf(kind) /\ signal.kind # kind
<1> DEFINE n == Len(signals)
<1>1. /\ faults = 0 /\ DOMAIN signals' = 1..(n + 1)
      /\ \A i \in 1..n : signals'[i] = signals[i]
      /\ signals'[n + 1] = signal
  BY Announced
<1>2. n \in Nat /\ DOMAIN signals = 1..n
  <2>1. signals \in Seq(Signals) BY DEF TypeOK
  <2> QED BY <2>1, LenProperties
<1> HIDE DEF n
<1>3. /\ n + 1 \in DOMAIN signals'
      /\ \A j \in 1..(n + 1) : j = n + 1 \/ (j \in 1..n /\ j < n + 1)
  <2>1. n + 1 \in 1..(n + 1) BY <1>2
  <2>2. \A j \in 1..(n + 1) : j = n + 1 \/ (j \in 1..n /\ j < n + 1) BY <1>2
  <2> QED BY <1>1, <2>1, <2>2
<1>4. ASSUME NEW j \in DOMAIN signals', LastOf(kind, j)'
      PROVE  IF signal.kind = kind THEN signals'[j] = signal
             ELSE LastOf(kind, j) /\ j \in DOMAIN signals /\ signals'[j] = signals[j]
  <2>1. /\ signals'[j].kind = kind
        /\ \A m \in DOMAIN signals' : j < m => signals'[m].kind # kind
    BY <1>4 DEF LastOf
  <2>2. CASE signal.kind = kind
    <3>1. j = n + 1 BY <1>1, <1>3, <2>1, <2>2
    <3> QED BY <1>1, <2>2, <3>1
  <2>3. CASE signal.kind # kind
    <3>1. j \in 1..n BY <1>1, <1>3, <2>1, <2>3
    <3>2. \A m \in 1..n : m \in DOMAIN signals' BY <1>1, <1>2
    <3>3. \A m \in 1..n : j < m => signals[m].kind # kind BY <1>1, <2>1, <3>2
    <3> QED BY <1>1, <1>2, <2>1, <2>3, <3>1, <3>3 DEF LastOf
  <2> QED BY <2>2, <2>3
<1>5. ASSUME NoneOf(kind)' PROVE NoneOf(kind) /\ signal.kind # kind
  <2>1. \A j \in DOMAIN signals' : signals'[j].kind # kind BY <1>5 DEF NoneOf
  <2>2. signal.kind # kind BY <1>1, <1>3, <2>1
  <2>3. \A m \in 1..n : m \in DOMAIN signals' BY <1>1, <1>2
  <2>4. \A m \in 1..n : signals[m].kind # kind BY <1>1, <2>1, <2>3
  <2> QED BY <1>2, <2>2, <2>4 DEF NoneOf
<1> QED BY <1>1, <1>4, <1>5

LEMMA FaultsStay == ASSUME TypeOK, TypeOK', [Next]_vars, faults' = 0 PROVE faults = 0
<1>1. faults \in Nat BY Bounds DEF TypeOK
<1>2. faults' \in {faults, faults + 1}
  <2>1. CASE Player \/ Seek BY <2>1 DEF Player, PlayPause, PlayerSeeks, ChangeTrack, Seek, Announce
  <2>2. CASE RefreshStatus \/ RefreshPosition
    BY <2>2 DEF RefreshStatus, RefreshPosition, ReadFails
  <2>3. CASE \/ Tick \/ HandleSeeked \/ HandleStatus \/ HandleMetadata \/ Reconcile
             \/ Republish \/ ChangeAttention \/ SeekReturns
    BY <2>3 DEF Tick, HandleSeeked, HandleStatus, HandleMetadata, Reconcile, Republish,
       ChangeAttention, SeekReturns
  <2>4. CASE UNCHANGED vars BY <2>4 DEF vars
  <2> QED BY <2>1, <2>2, <2>3, <2>4 DEF Next, Loop
<1> QED BY <1>1, <1>2

LEMMA LastWordStays ==
  ASSUME TypeOK, TypeOK', LastWordIsTrue, [Next]_vars
  PROVE  LastWordIsTrue'
<1>1. SUFFICES ASSUME faults' = 0
               PROVE  /\ \A j \in DOMAIN signals' :
                            /\ LastOf("status", j)' => signals'[j].playing = player'.playing
                            /\ LastOf("metadata", j)'
                                  => /\ signals'[j].track = player'.track
                                     /\ signals'[j].length = player'.length
                      /\ NoneOf("status")' => status' = player'.playing
                      /\ NoneOf("metadata")' => /\ track' = player'.track
                                                /\ clock'.length = player'.length
  BY DEF LastWordIsTrue
<1>2. /\ \A j \in DOMAIN signals :
            /\ LastOf("status", j) => signals[j].playing = player.playing
            /\ LastOf("metadata", j) => /\ signals[j].track = player.track
                                        /\ signals[j].length = player.length
      /\ NoneOf("status") => status = player.playing
      /\ NoneOf("metadata") => track = player.track /\ clock.length = player.length
  <2>1. faults = 0 BY <1>1, FaultsStay
  <2> QED BY <2>1 DEF LastWordIsTrue
<1>3. /\ player \in [playing : BOOLEAN, pos : Nat, length : Lengths, track : Nat]
      /\ clock \in PositionClocks /\ time \in Nat /\ status \in BOOLEAN
      /\ 0 \in Nat /\ NoLength \in Nat \cup {NoLength} /\ signals \in Seq(Signals)
  BY Bounds DEF TypeOK
\* A step that keeps the signals, and what they are about.
<1>4. ASSUME UNCHANGED <<signals, track>>, clock'.length = clock.length,
             status' \in {status, player.playing}, player'.playing = player.playing,
             player'.track = player.track, player'.length = player.length
      PROVE  /\ \A j \in DOMAIN signals' :
                   /\ LastOf("status", j)' => signals'[j].playing = player'.playing
                   /\ LastOf("metadata", j)' => /\ signals'[j].track = player'.track
                                                /\ signals'[j].length = player'.length
             /\ NoneOf("status")' => status' = player'.playing
             /\ NoneOf("metadata")' => track' = player'.track /\ clock'.length = player'.length
  <2>1. \A j, kind : LastOf(kind, j)' <=> LastOf(kind, j) BY <1>4 DEF LastOf
  <2>2. \A kind : NoneOf(kind)' <=> NoneOf(kind) BY <1>4 DEF NoneOf
  <2> QED BY <1>2, <1>4, <2>1, <2>2
<1>5. CASE PlayPause
  <2> DEFINE said == [kind |-> "status", playing |-> player'.playing, at |-> time]
  <2>1. said \in Signals /\ Announce(said) BY <1>5, Says
  <2>2. said.kind = "status" /\ said.playing = player'.playing OBVIOUS
  <2>3. player'.track = player.track /\ player'.length = player.length
        /\ UNCHANGED <<track, clock>>
    BY <1>3, <1>5, Untouched DEF PlayPause, Player
  <2> HIDE DEF said
  <2>4. \A j \in DOMAIN signals' : LastOf("status", j)' => signals'[j] = said
    BY <1>1, <2>1, <2>2, LastAnnounced
  <2>5. \A j \in DOMAIN signals' : LastOf("metadata", j)'
            => /\ LastOf("metadata", j) /\ j \in DOMAIN signals
               /\ signals'[j] = signals[j]
    BY <1>1, <2>1, <2>2, LastAnnounced
  <2>6. ~NoneOf("status")' BY <1>1, <2>1, <2>2, LastAnnounced
  <2>7. NoneOf("metadata")' => NoneOf("metadata") BY <1>1, <2>1, LastAnnounced
  <2> QED BY <1>2, <2>2, <2>3, <2>4, <2>5, <2>6, <2>7
<1>6. CASE PlayerSeeks \/ Seek
  <2> DEFINE said == [kind |-> "seeked", pos |-> player'.pos, at |-> time]
  <2>1. said \in Signals /\ Announce(said) BY <1>6, Says
  <2>2. said.kind = "seeked" OBVIOUS
  <2>3. /\ player'.track = player.track /\ player'.length = player.length
        /\ player'.playing = player.playing
    BY <1>3, <1>6 DEF PlayerSeeks, Seek
  <2>4. UNCHANGED <<track, clock, status>> BY <1>6, Untouched DEF Player
  <2> HIDE DEF said
  <2>5. \A j \in DOMAIN signals' : \A kind \in {"status", "metadata"} : LastOf(kind, j)'
            => LastOf(kind, j) /\ j \in DOMAIN signals /\ signals'[j] = signals[j]
    BY <1>1, <2>1, <2>2, LastAnnounced
  <2>6. \A kind \in {"status", "metadata"} : NoneOf(kind)' => NoneOf(kind)
    BY <1>1, <2>1, LastAnnounced
  <2> QED BY <1>2, <2>3, <2>4, <2>5, <2>6
<1>7. CASE ChangeTrack
  <2> DEFINE said == [kind |-> "metadata", track |-> player'.track,
                      length |-> player'.length, at |-> time]
  <2>1. said \in Signals /\ Announce(said) BY <1>7, Says
  <2>2. said.kind = "metadata" /\ said.track = player'.track /\ said.length = player'.length
    OBVIOUS
  <2>3. player'.playing = player.playing /\ UNCHANGED status
    BY <1>3, <1>7, Untouched DEF ChangeTrack, Player
  <2> HIDE DEF said
  <2>4. \A j \in DOMAIN signals' : LastOf("metadata", j)' => signals'[j] = said
    BY <1>1, <2>1, <2>2, LastAnnounced
  <2>5. \A j \in DOMAIN signals' : LastOf("status", j)'
            => /\ LastOf("status", j) /\ j \in DOMAIN signals
               /\ signals'[j] = signals[j]
    BY <1>1, <2>1, <2>2, LastAnnounced
  <2>6. ~NoneOf("metadata")' BY <1>1, <2>1, <2>2, LastAnnounced
  <2>7. NoneOf("status")' => NoneOf("status") BY <1>1, <2>1, LastAnnounced
  <2> QED BY <1>2, <2>2, <2>3, <2>4, <2>5, <2>6, <2>7
<1>8. CASE HandleStatus
  <2>1. PICK i \in DOMAIN signals :
            /\ signals[i].kind = "status" /\ Deliver(i)
            /\ status' = signals[i].playing
            /\ clock' = SetPlaying(clock, signals[i].playing, time)
    BY <1>8 DEF HandleStatus
  <2>2. UNCHANGED <<player, track>> BY <1>8 DEF HandleStatus
  <2>3. signals[i].playing \in BOOLEAN BY <1>3, <2>1, SignalAt, SignalTypes
  <2>4. clock'.length = clock.length BY <1>3, <2>1, <2>3, ClockFields
  <2>5. \A j \in DOMAIN signals' : \A kind \in {"status", "metadata"} :
            LastOf(kind, j)' => \E k \in DOMAIN signals :
                                    LastOf(kind, k) /\ signals'[j] = signals[k]
    BY <2>1, LastDelivered
  <2>6. NoneOf("status")' => LastOf("status", i) BY <2>1, LastDelivered
  <2>7. NoneOf("metadata")' => NoneOf("metadata") BY <2>1, LastDelivered
  <2> QED BY <1>2, <2>1, <2>2, <2>4, <2>5, <2>6, <2>7
<1>9. CASE HandleMetadata
  <2>1. PICK i \in DOMAIN signals :
            /\ signals[i].kind = "metadata" /\ Deliver(i)
            /\ track' = signals[i].track
            /\ LET resized == SetLength(clock, signals[i].length)
               IN  clock' = IF track' = track THEN resized
                            ELSE Anchor(resized, 0, clock.playing, time)
    BY <1>9 DEF HandleMetadata
  <2>2. UNCHANGED <<player, status>> BY <1>9 DEF HandleMetadata
  <2>3. signals[i].length \in Nat \cup {NoLength}
    BY <1>3, <2>1, SignalAt, SignalTypes, Bounds
  <2>4. clock'.length = signals[i].length
    BY <1>3, <2>1, <2>3 DEF SetLength, Anchor, PositionClocks
  <2>5. \A j \in DOMAIN signals' : \A kind \in {"status", "metadata"} :
            LastOf(kind, j)' => \E k \in DOMAIN signals :
                                    LastOf(kind, k) /\ signals'[j] = signals[k]
    BY <2>1, LastDelivered
  <2>6. NoneOf("metadata")' => LastOf("metadata", i) BY <2>1, LastDelivered
  <2>7. NoneOf("status")' => NoneOf("status") BY <2>1, LastDelivered
  <2> QED BY <1>2, <2>1, <2>2, <2>4, <2>5, <2>6, <2>7
<1>10. CASE HandleSeeked
  <2>1. PICK i \in DOMAIN signals :
            /\ signals[i].kind = "seeked" /\ Deliver(i)
            /\ clock' = Anchor(clock, signals[i].pos, clock.playing, time)
    BY <1>10 DEF HandleSeeked
  <2>2. UNCHANGED <<player, status, track>> BY <1>10 DEF HandleSeeked
  <2>3. clock'.length = clock.length BY <1>3, <2>1 DEF Anchor, PositionClocks
  <2>4. \A j \in DOMAIN signals' : \A kind \in {"status", "metadata"} :
            LastOf(kind, j)' => \E k \in DOMAIN signals :
                                    LastOf(kind, k) /\ signals'[j] = signals[k]
    BY <2>1, LastDelivered
  <2>5. \A kind \in {"status", "metadata"} : NoneOf(kind)' => NoneOf(kind)
    BY <2>1, LastDelivered
  <2> QED BY <1>2, <2>2, <2>3, <2>4, <2>5
<1>11. CASE RefreshStatus
  <2>1. UNCHANGED <<signals, player>> /\ status' \in {status, player.playing}
    BY <1>11 DEF RefreshStatus
  <2>2. track' = track /\ clock'.length = clock.length BY <1>11, ReadHandled
  <2> QED BY <1>4, <2>1, <2>2
<1>12. CASE RefreshPosition \/ SeekReturns
  <2>1. UNCHANGED <<signals, player, status>> BY <1>12 DEF RefreshPosition, SeekReturns
  <2>2. track' = track /\ clock'.length = clock.length BY <1>12, ReadHandled
  <2> QED BY <1>4, <2>1, <2>2
<1>13. CASE Reconcile \/ Republish \/ ChangeAttention \/ UNCHANGED vars
  <2>1. UNCHANGED <<signals, player, status, track, clock>>
    BY <1>13 DEF Reconcile, Republish, ChangeAttention, vars, picture
  <2> QED BY <1>4, <2>1
<1>14. CASE Tick
  <2>1. /\ player'.playing = player.playing /\ player'.track = player.track
        /\ player'.length = player.length
    BY <1>3, <1>14 DEF Tick
  <2>2. UNCHANGED <<signals, status, track, clock>> BY <1>14, InTimeTick
  <2> QED BY <1>4, <2>1, <2>2
<1> QED BY <1>5, <1>6, <1>7, <1>8, <1>9, <1>10, <1>11, <1>12, <1>13, <1>14
        DEF Next, Player, Loop

LEMMA InitLastWord == Init => LastWordIsTrue
<1> SUFFICES ASSUME Init PROVE LastWordIsTrue OBVIOUS
<1>1. PICK playing \in BOOLEAN, length \in Lengths :
          /\ player = [playing |-> playing, pos |-> 0, length |-> length, track |-> 1]
          /\ status = playing
          /\ clock = Anchor(SetLength(NewClock(0), length), 0, playing, 0)
  BY DEF Init
<1>2. clock.length = player.length
  BY <1>1 DEF Anchor, SetLength, NewClock
<1>3. signals = <<>> /\ track = 1 BY DEF Init
<1> QED BY <1>1, <1>2, <1>3 DEF LastWordIsTrue, LastOf

\* With no signal missed and no read failed, an engine that has caught up
\* believes what the player does, whatever it read while the player changed
\* (engine.rs apply_properties, refresh_status).
THEOREM StatusSettlesAlways == Spec => []StatusSettles
<1> DEFINE Inv == Timely /\ LastWordIsTrue
<1>1. Init => Inv BY InitTimely, InitLastWord
<1>2. Inv /\ [Next]_vars => Inv'
  <2> SUFFICES ASSUME Inv, [Next]_vars PROVE Inv' OBVIOUS
  <2>1. Timely' BY NextTimely
  <2>2. TypeOK /\ TypeOK' BY <2>1 DEF Timely
  <2> QED BY <2>1, <2>2, LastWordStays
<1>3. Inv => StatusSettles
  <2> SUFFICES ASSUME Inv, signals = <<>>, faults = 0
               PROVE  status = player.playing /\ clock.playing = status
                      /\ track = player.track
    BY DEF StatusSettles, CaughtUp
  <2>1. \A kind : NoneOf(kind) BY DEF NoneOf
  <2>2. status = player.playing /\ track = player.track BY <2>1 DEF LastWordIsTrue
  <2>3. clock.playing = status BY DEF Timely, Instants, ClockInTime
  <2> QED BY <2>2, <2>3
<1> QED BY <1>1, <1>2, <1>3, PTL DEF Spec

-----------------------------------------------------------------------------
(* The clock keeps near the player. *)

LEMMA DistanceIs ==
  ASSUME NEW a \in Int, NEW b \in Int, NEW d \in Int
  PROVE  Distance(a, b) <= d <=> a - b <= d /\ b - a <= d
BY DEF Distance

\* A clock that is no further than this from a player, and runs as it does, is
\* not further from it an instant later: both stop at the end of the track.
LEMMA RunsAlong ==
  ASSUME NEW k \in PositionClocks, NEW at \in Nat, k.anchorAt <= at, ~k.held,
         NEW p \in Nat, k.length # NoLength => p <= k.length, NEW error \in Nat,
         Distance(PositionAt(k, at), p) <= error
  PROVE  /\ k.playing => Distance(PositionAt(k, at + 1), Clamped(k, p + 1)) <= error
         /\ ~k.playing => PositionAt(k, at + 1) = PositionAt(k, at)
<1>1. /\ k.anchor \in Nat /\ k.anchorAt \in Nat /\ k.length \in Nat \cup {NoLength}
      /\ k.playing \in BOOLEAN
  BY DEF PositionClocks
<1>2. CASE k.playing
  <2> DEFINE a == k.anchor + (at - k.anchorAt)
  <2>1. a \in Nat BY <1>1
  <2>2. Elapsed(k, at) = at - k.anchorAt /\ Elapsed(k, at + 1) = at + 1 - k.anchorAt
    BY <1>1 DEF Elapsed
  <2>3. k.anchor + (at + 1 - k.anchorAt) = a + 1 BY <1>1
  <2>4. PositionAt(k, at) = Clamped(k, a) BY <1>2, <2>2 DEF PositionAt
  <2>5. PositionAt(k, at + 1) = Clamped(k, a + 1)
    <3>1. PositionAt(k, at + 1) = Clamped(k, k.anchor + (at + 1 - k.anchorAt))
      BY <1>2, <2>2 DEF PositionAt
    <3> QED BY <2>3, <3>1
  <2> HIDE DEF a
  <2>6. CASE k.length = NoLength
    <3>1. \A x : Clamped(k, x) = x BY <2>6 DEF Clamped
    <3>2. Distance(a, p) <= error BY <2>4, <3>1
    <3>3. Distance(a + 1, p + 1) <= error BY <2>1, <3>2, DistanceIs
    <3> QED BY <1>2, <2>5, <3>1, <3>3
  <2>7. CASE k.length # NoLength
    <3>1. k.length \in Nat /\ p <= k.length BY <1>1, <2>7
    <3>2. \A x \in Nat : Clamped(k, x) = IF x > k.length THEN k.length ELSE x
      BY <2>7 DEF Clamped
    <3> DEFINE c == IF a > k.length THEN k.length ELSE a
               d == IF a + 1 > k.length THEN k.length ELSE a + 1
               q == IF p + 1 > k.length THEN k.length ELSE p + 1
    <3>3. PositionAt(k, at) = c /\ PositionAt(k, at + 1) = d /\ Clamped(k, p + 1) = q
      BY <2>1, <2>4, <2>5, <3>2
    <3>4. c \in Nat /\ d \in Nat /\ q \in Nat BY <2>1, <3>1
    <3>5. c - p <= error /\ p - c <= error BY <3>3, <3>4, DistanceIs
    <3>6. d - q <= error /\ q - d <= error BY <2>1, <3>1, <3>5
    <3>7. Distance(d, q) <= error BY <3>4, <3>6, DistanceIs
    <3> HIDE DEF c, d, q
    <3> QED BY <1>2, <3>3, <3>7
  <2> QED BY <2>6, <2>7
<1>3. ~k.playing => PositionAt(k, at + 1) = PositionAt(k, at) BY DEF PositionAt
<1> QED BY <1>1, <1>2, <1>3

LEMMA OvertakesStay ==
  ASSUME TypeOK, TypeOK', [Next]_vars, overtakes' = 0
  PROVE  /\ overtakes = 0
         /\ \A i \in DOMAIN signals : Deliver(i) => i = 1
<1>1. overtakes \in Nat BY Bounds DEF TypeOK
<1>2. \A i \in DOMAIN signals : Deliver(i) => i = 1 /\ overtakes = 0
  BY <1>1 DEF Deliver
<1>3. CASE HandleSeeked \/ HandleStatus \/ HandleMetadata
  BY <1>2, <1>3 DEF HandleSeeked, HandleStatus, HandleMetadata
<1>4. CASE Player \/ Seek BY <1>2, <1>4, Untouched
<1>5. CASE \/ Tick \/ RefreshStatus \/ RefreshPosition \/ Reconcile \/ Republish
           \/ ChangeAttention \/ SeekReturns
  BY <1>2, <1>5 DEF Tick, RefreshStatus, RefreshPosition, Reconcile, Republish,
     ChangeAttention,
     SeekReturns
<1>6. CASE UNCHANGED vars BY <1>2, <1>6 DEF vars
<1> QED BY <1>2, <1>3, <1>4, <1>5, <1>6 DEF Next, Loop

\* What is on its way after one step: an announcement stays until it is handled.
LEMMA AnnouncedIsLast ==
  ASSUME TypeOK, NEW signal \in Signals, Announce(signal), faults' = 0
  PROVE  /\ signals' # <<>> /\ Len(signals') \in Nat /\ DOMAIN signals' = 1..Len(signals')
         /\ signals'[Len(signals')] = signal
<1>1. /\ Len(signals') = Len(signals) + 1 /\ DOMAIN signals' = 1..(Len(signals) + 1)
      /\ signals'[Len(signals) + 1] = signal
  BY Announced
<1>2. Len(signals) \in Nat
  <2>1. signals \in Seq(Signals) BY DEF TypeOK
  <2> QED BY <2>1, LenProperties
<1>3. signals' # <<>>
  <2>1. SUFFICES ASSUME signals' = <<>> PROVE FALSE OBVIOUS
  <2>2. Len(signals') = 0 BY <2>1
  <2> QED BY <1>1, <1>2, <2>2
<1> QED BY <1>1, <1>2, <1>3

LEMMA OneDelivered ==
  ASSUME TypeOK, TypeOK', NEW i \in DOMAIN signals, Deliver(i), i = 1
  PROVE  /\ signals' = <<>> => Len(signals) = 1
         /\ Len(signals') \in Nat /\ DOMAIN signals' = 1..Len(signals')
         /\ Len(signals') # 0 => signals'[Len(signals')] = signals[Len(signals)]
<1>1. /\ i \in 1..Len(signals) /\ Len(signals) \in Nat
      /\ Len(signals') = Len(signals) - 1
      /\ DOMAIN signals' = 1..(Len(signals) - 1)
      /\ \A j \in 1..(Len(signals) - 1) :
             signals'[j] = IF j < i THEN signals[j] ELSE signals[j + 1]
  <2>1. signals \in Seq(Signals) BY DEF TypeOK
  <2> QED BY <2>1, SignalAt, Delivered
<1>2. signals' = <<>> => Len(signals') = 0 OBVIOUS
<1>3. Len(signals') # 0 => signals'[Len(signals')] = signals[Len(signals)]
  <2> SUFFICES ASSUME Len(signals') # 0
               PROVE  signals'[Len(signals')] = signals[Len(signals)]
    OBVIOUS
  <2> DEFINE j == Len(signals) - 1
  <2>1. j \in 1..(Len(signals) - 1) /\ ~(j < i) /\ j + 1 = Len(signals) BY <1>1
  <2>2. signals'[j] = signals[j + 1] BY <1>1, <2>1
  <2> QED BY <1>1, <2>1, <2>2
<1>4. signals' = <<>> => Len(signals) = 1 BY <1>1, <1>2
<1> QED BY <1>1, <1>3, <1>4

LEMMA NearStays ==
  ASSUME Timely, Timely', LastWordIsTrue, Near, [Next]_vars
  PROVE  Near'
<1>1. SUFFICES ASSUME faults' = 0, overtakes' = 0
               PROVE  /\ mode' = "seek" => signals' # <<>>
                      /\ mode' = "select" /\ signals' = <<>>
                            => PositionError(PositionAt(clock', time'), player'.pos)
                      /\ \A i \in DOMAIN signals' :
                            i = Len(signals') /\ signals'[i].kind = "seeked"
                                => /\ signals'[i].pos <= player'.pos
                                   /\ player'.pos <= signals'[i].pos
                                                     + (time' - signals'[i].at)
  BY DEF Near
<1>2. TypeOK /\ TypeOK' BY DEF Timely
<1>3. faults = 0 /\ overtakes = 0 /\ \A i \in DOMAIN signals : Deliver(i) => i = 1
  BY <1>1, <1>2, FaultsStay, OvertakesStay
<1>4. /\ mode = "seek" => signals # <<>>
      /\ mode = "select" /\ signals = <<>>
            => PositionError(PositionAt(clock, time), player.pos)
      /\ \A i \in DOMAIN signals :
            i = Len(signals) /\ signals[i].kind = "seeked"
                => /\ signals[i].pos <= player.pos
                   /\ player.pos <= signals[i].pos + (time - signals[i].at)
  BY <1>3 DEF Near
<1>5. /\ player \in [playing : BOOLEAN, pos : Nat, length : Lengths, track : Nat]
      /\ clock \in PositionClocks /\ clock' \in PositionClocks
      /\ time \in Nat /\ now \in Nat /\ MaxLatency \in Nat /\ Tolerance \in Nat
      /\ signals \in Seq(Signals) /\ signals' \in Seq(Signals)
      /\ player'.pos \in Nat /\ player.length \in Nat \cup {NoLength}
  BY <1>2, Bounds DEF TypeOK
<1>6. /\ player.length # NoLength => player.pos <= player.length
      /\ clock.anchorAt <= time /\ ~clock.held /\ clock.playing = status
      /\ \A i \in DOMAIN signals :
            signals[i].at <= time /\ time - signals[i].at <= MaxLatency
      /\ mode # "select" => now <= time /\ time - now <= MaxLatency
  BY DEF Timely, PlayerOK, Instants, ClockInTime, SignalsInTime, HandlerInTime
<1>7. \A i \in DOMAIN signals : /\ signals[i].at \in Nat
                                /\ signals[i].kind = "seeked" => signals[i].pos \in Nat
  BY <1>5, SignalAt, SignalTypes
<1>8. signals = <<>> => status = player.playing /\ clock.length = player.length
  <2>1. signals = <<>> => NoneOf("status") /\ NoneOf("metadata") BY DEF NoneOf
  <2> QED BY <1>3, <2>1 DEF LastWordIsTrue
\* A handler that has taken its signal, and has not yet read the position.
<1>9. ASSUME mode' \notin {"select", "seek"}, UNCHANGED <<player, time>>,
             UNCHANGED signals \/ \E i \in DOMAIN signals : Deliver(i)
      PROVE  /\ mode' = "seek" => signals' # <<>>
             /\ mode' = "select" /\ signals' = <<>>
                   => PositionError(PositionAt(clock', time'), player'.pos)
             /\ \A i \in DOMAIN signals' :
                   i = Len(signals') /\ signals'[i].kind = "seeked"
                       => /\ signals'[i].pos <= player'.pos
                          /\ player'.pos <= signals'[i].pos + (time' - signals'[i].at)
  <2>1. CASE UNCHANGED signals BY <1>4, <1>9, <2>1
  <2>2. CASE \E i \in DOMAIN signals : Deliver(i)
    <3>1. PICK i \in DOMAIN signals : Deliver(i) BY <2>2
    <3>2. /\ Len(signals') \in Nat /\ DOMAIN signals' = 1..Len(signals')
          /\ Len(signals') # 0 => signals'[Len(signals')] = signals[Len(signals)]
      BY <1>2, <1>3, <3>1, OneDelivered
    <3>3. Len(signals) \in DOMAIN signals
      <4>1. i \in 1..Len(signals) /\ Len(signals) \in Nat /\ DOMAIN signals = 1..Len(signals)
        BY <1>5, <3>1, SignalAt
      <4> QED BY <4>1
    <3>4. \A j \in DOMAIN signals' : j = Len(signals') => signals'[j] = signals[Len(signals)]
      BY <3>2
    <3> QED BY <1>4, <1>9, <3>3, <3>4
  <2> QED BY <1>9, <2>1, <2>2
<1>10. CASE HandleStatus \/ HandleMetadata \/ Reconcile \/ RefreshStatus
  <2>1. mode' \notin {"select", "seek"} /\ UNCHANGED <<player, time>>
    BY <1>10 DEF HandleStatus, HandleMetadata, Reconcile, RefreshStatus, Begin
  <2>2. UNCHANGED signals \/ \E i \in DOMAIN signals : Deliver(i)
    BY <1>10 DEF HandleStatus, HandleMetadata, Reconcile, RefreshStatus
  <2> QED BY <1>9, <2>1, <2>2
<1>11. CASE PlayPause \/ ChangeTrack
  <2>1. PICK said \in Signals : Announce(said) /\ said.kind # "seeked"
    BY <1>2, <1>11, Says
  <2>2. signals' # <<>> /\ signals'[Len(signals')] = said
    BY <1>1, <1>2, <2>1, AnnouncedIsLast
  <2> QED BY <2>1, <2>2
<1>12. CASE PlayerSeeks \/ Seek
  <2> DEFINE said == [kind |-> "seeked", pos |-> player'.pos, at |-> time]
  <2>1. said \in Signals /\ Announce(said) BY <1>2, <1>12, Says
  <2>2. said.pos = player'.pos /\ said.at = time OBVIOUS
  <2> HIDE DEF said
  <2>3. signals' # <<>> /\ signals'[Len(signals')] = said
    BY <1>1, <1>2, <2>1, AnnouncedIsLast
  <2>4. time' = time BY <1>12, Untouched DEF Player
  <2>5. player'.pos <= said.pos + (time' - said.at) BY <1>5, <2>2, <2>4
  <2> QED BY <1>5, <2>2, <2>3, <2>5
<1>13. CASE HandleSeeked
  <2>1. PICK i \in DOMAIN signals :
            /\ signals[i].kind = "seeked" /\ Deliver(i)
            /\ clock' = Anchor(clock, signals[i].pos, clock.playing, time)
    BY <1>13 DEF HandleSeeked
  <2>2. mode' = "select" /\ UNCHANGED <<player, time>> BY <1>13 DEF HandleSeeked, Finish
  <2>3. i = 1 BY <1>3, <2>1
  <2>4. /\ signals' = <<>> => Len(signals) = 1
        /\ Len(signals') \in Nat /\ DOMAIN signals' = 1..Len(signals')
        /\ Len(signals') # 0 => signals'[Len(signals')] = signals[Len(signals)]
    BY <1>2, <2>1, <2>3, OneDelivered
  <2>5. Len(signals) \in DOMAIN signals /\ DOMAIN signals = 1..Len(signals)
    <3>1. i \in 1..Len(signals) /\ Len(signals) \in Nat /\ DOMAIN signals = 1..Len(signals)
      BY <1>5, <2>1, SignalAt
    <3> QED BY <3>1
  <2>6. \A j \in DOMAIN signals' : j = Len(signals') => signals'[j] = signals[Len(signals)]
    BY <2>4
  <2>7. ASSUME signals' = <<>>
        PROVE  PositionError(PositionAt(clock', time'), player'.pos)
    <3>1. Len(signals) = 1 BY <2>4, <2>7
    <3>2. NoneOf("metadata") BY <2>1, <2>3, <2>5, <3>1 DEF NoneOf
    <3>3. clock.length = player.length BY <1>3, <3>2 DEF LastWordIsTrue
    <3> DEFINE at == signals[i].at
               pos == signals[i].pos
    <3>4. at \in Nat /\ pos \in Nat /\ at <= time /\ time - at <= MaxLatency
      BY <1>6, <1>7, <2>1
    <3>5. pos <= player.pos /\ player.pos <= pos + (time - at)
      BY <1>4, <2>1, <2>3, <3>1
    <3>6. /\ clock'.anchor = pos /\ clock'.anchorAt = time /\ clock'.length = player.length
      BY <1>5, <2>1, <3>3, <3>4 DEF Anchor, PositionClocks
    <3> HIDE DEF at, pos
    <3>7. Elapsed(clock', time) = 0 BY <1>5, <3>6 DEF Elapsed
    <3>8. PositionAt(clock', time) = Clamped(clock', pos)
      BY <3>4, <3>6, <3>7 DEF PositionAt
    <3>9. player.pos \in Nat BY <1>5
    <3>10. Clamped(clock', pos) = pos
      BY <1>5, <1>6, <3>4, <3>5, <3>6, <3>9 DEF Clamped, NoLength
    <3>11. Distance(pos, player.pos) <= Tolerance + MaxLatency
      BY <1>5, <3>4, <3>5, <3>9 DEF Distance
    <3> QED BY <2>2, <3>8, <3>10, <3>11 DEF PositionError
  <2> QED BY <1>4, <2>2, <2>5, <2>6, <2>7
<1>14. CASE RefreshPosition
  <2>1. /\ mode = "position" /\ mode' = "select" /\ UNCHANGED <<player, time, signals>>
    BY <1>14 DEF RefreshPosition, Finish
  <2>2. now <= time /\ time - now <= MaxLatency BY <1>6, <2>1
  <2>3. ~ReadFails BY <1>1, <1>3 DEF ReadFails
  <2>4. ASSUME signals = <<>>
        PROVE  PositionError(PositionAt(clock', time), player.pos)
    <3>1. clock.length = player.length BY <1>8, <2>4
    <3>2. player.pos \in Nat BY <1>5
    <3>3. CASE /\ Drifted(clock, player.pos, now, Tolerance)
               /\ clock' = Anchor(clock, player.pos, clock.playing, now)
      <4>1. clock'.anchor = player.pos /\ clock'.anchorAt = now /\ clock'.length = player.length
        BY <1>5, <3>1, <3>2, <3>3 DEF Anchor, PositionClocks
      <4>2. Elapsed(clock', now) = 0 BY <1>5, <4>1 DEF Elapsed
      <4>3. PositionAt(clock', now) = Clamped(clock', player.pos)
        BY <3>2, <4>1, <4>2 DEF PositionAt
      <4>4. Clamped(clock', player.pos) = player.pos
        BY <1>5, <1>6, <3>2, <4>1 DEF Clamped, NoLength
      <4>5. /\ PositionAt(clock', now) <= PositionAt(clock', time)
            /\ PositionAt(clock', time) <= PositionAt(clock', now) + (time - now)
        BY <1>5, <2>2, PositionFollowsTime
      <4>6. PositionAt(clock', time) \in Nat
        BY <1>5, ClocksStayClocks
      <4>7. Distance(PositionAt(clock', time), player.pos) <= Tolerance + MaxLatency
        BY <1>5, <2>2, <3>2, <4>3, <4>4, <4>5, <4>6 DEF Distance
      <4> QED BY <4>7 DEF PositionError
    <3>4. CASE ~Drifted(clock, player.pos, now, Tolerance) /\ clock' = clock
      <4> DEFINE then == PositionAt(clock, now)
                 next == PositionAt(clock, time)
      <4>1. then \in Nat /\ next \in Nat BY <1>5, ClocksStayClocks
      <4>2. then <= next /\ next <= then + (time - now)
        BY <1>5, <2>2, PositionFollowsTime
      <4>3. ~(then - player.pos > Tolerance) /\ ~(player.pos - then > Tolerance)
        BY <3>4 DEF Drifted
      <4> HIDE DEF then, next
      <4>4. Distance(next, player.pos) <= Tolerance + MaxLatency
        BY <1>5, <2>2, <3>2, <4>1, <4>2, <4>3 DEF Distance
      <4> QED BY <3>4, <4>4 DEF PositionError, next
    <3> QED BY <1>14, <2>3, <3>3, <3>4 DEF RefreshPosition
  <2> QED BY <1>4, <2>1, <2>4
<1>15. CASE SeekReturns
  <2>1. /\ mode = "seek" /\ mode' = "select" /\ UNCHANGED <<player, time, signals>>
    BY <1>15 DEF SeekReturns, Finish
  <2> QED BY <1>4, <2>1
<1>16. CASE Republish \/ ChangeAttention \/ UNCHANGED vars
  <2>1. UNCHANGED <<player, time, signals, clock>> /\ mode' = mode
    BY <1>16 DEF Republish, ChangeAttention, Finish, vars, picture, handler
  <2> QED BY <1>4, <2>1
<1>17. CASE Tick
  <2>1. time' = time + 1 /\ UNCHANGED <<signals, mode, clock>> BY <1>2, <1>17, InTimeTick
  <2>2. player.pos + 1 \in Nat /\ player.pos \in Nat BY <1>5
  <2>3. player'.pos = IF player.playing THEN PlayerAt(player.pos + 1) ELSE player.pos
    BY <1>5, <1>17 DEF Tick
  <2>4. player.pos <= player'.pos /\ player'.pos <= player.pos + 1
    <3>1. player.pos <= PlayerAt(player.pos + 1) /\ PlayerAt(player.pos + 1) <= player.pos + 1
      BY <1>5, <1>6, <2>2 DEF PlayerAt, NoLength
    <3> QED BY <2>2, <2>3, <3>1
  <2>5. ASSUME NEW i \in DOMAIN signals, i = Len(signals), signals[i].kind = "seeked"
        PROVE  /\ signals[i].pos <= player'.pos
               /\ player'.pos <= signals[i].pos + (time' - signals[i].at)
    <3>1. /\ signals[i].pos <= player.pos
          /\ player.pos <= signals[i].pos + (time - signals[i].at)
          /\ signals[i].pos \in Nat /\ signals[i].at \in Nat
      BY <1>4, <1>7, <2>5
    <3>2. player'.pos \in Nat BY <1>5, <2>2, <2>3 DEF PlayerAt, NoLength
    <3>3. signals[i].pos <= player'.pos BY <2>2, <2>4, <3>1, <3>2
    <3>4. time' - signals[i].at = (time - signals[i].at) + 1 BY <1>5, <2>1, <3>1
    <3>5. player'.pos <= signals[i].pos + (time' - signals[i].at)
      <4> DEFINE since == time - signals[i].at
      <4>1. since \in Int BY <1>5, <3>1
      <4> HIDE DEF since
      <4>2. player.pos <= signals[i].pos + since BY <3>1 DEF since
      <4>3. player'.pos <= signals[i].pos + (since + 1)
        BY <2>2, <2>4, <3>1, <3>2, <4>1, <4>2
      <4> QED BY <3>4, <4>3 DEF since
    <3> QED BY <3>3, <3>5
  <2>6. ASSUME mode = "select", signals = <<>>
        PROVE  PositionError(PositionAt(clock, time + 1), player'.pos)
    <3>1. Distance(PositionAt(clock, time), player.pos) <= Tolerance + MaxLatency
      BY <1>4, <2>6 DEF PositionError
    <3>2. clock.playing = player.playing /\ clock.length = player.length
      BY <1>6, <1>8, <2>6
    <3>3. Tolerance + MaxLatency \in Nat BY <1>5
    <3>4. /\ clock.playing => Distance(PositionAt(clock, time + 1),
                                       Clamped(clock, player.pos + 1))
                                  <= Tolerance + MaxLatency
          /\ ~clock.playing => PositionAt(clock, time + 1) = PositionAt(clock, time)
      BY <1>5, <1>6, <2>2, <3>1, <3>2, <3>3, RunsAlong
    <3>5. Clamped(clock, player.pos + 1) = PlayerAt(player.pos + 1)
      BY <3>2 DEF Clamped, PlayerAt
    <3> QED BY <2>3, <3>1, <3>2, <3>4, <3>5 DEF PositionError
  <2> QED BY <1>4, <2>1, <2>5, <2>6
<1> QED BY <1>10, <1>11, <1>12, <1>13, <1>14, <1>15, <1>16, <1>17 DEF Next, Player, Loop

LEMMA InitNear == Init => Near
<1> SUFFICES ASSUME Init PROVE Near OBVIOUS
<1>1. PICK playing \in BOOLEAN, length \in Lengths :
          /\ player = [playing |-> playing, pos |-> 0, length |-> length, track |-> 1]
          /\ clock = Anchor(SetLength(NewClock(0), length), 0, playing, 0)
  BY DEF Init
<1>2. length \in Nat \cup {NoLength} BY Bounds
<1>3. /\ clock.anchor = 0 /\ clock.anchorAt = 0 /\ clock.length = length
      /\ time = 0 /\ mode = "select" /\ signals = <<>> /\ player.pos = 0
  BY <1>1 DEF Init, Anchor, SetLength, NewClock
<1>4. Elapsed(clock, 0) = 0 BY <1>3 DEF Elapsed
<1>5. PositionAt(clock, 0) = Clamped(clock, 0) BY <1>3, <1>4 DEF PositionAt
<1>6. Clamped(clock, 0) = 0 BY <1>2, <1>3 DEF Clamped, NoLength
<1>7. 0 <= Tolerance + MaxLatency BY Bounds
<1>8. PositionError(PositionAt(clock, time), player.pos)
  BY <1>3, <1>5, <1>6, <1>7 DEF PositionError, Distance
<1> QED BY <1>3, <1>8 DEF Near

\* With no signal missed, no read failed and no signal overtaking another, the
\* position of an engine that has caught up is off by no more than the
\* tolerance and the time one handler may take (engine.rs refresh_position).
THEOREM ClockTracksPlayerAlways == Spec => []ClockTracksPlayer
<1> DEFINE Inv == Timely /\ LastWordIsTrue /\ Near
<1>1. Init => Inv BY InitTimely, InitLastWord, InitNear
<1>2. Inv /\ [Next]_vars => Inv'
  <2> SUFFICES ASSUME Inv, [Next]_vars PROVE Inv' OBVIOUS
  <2>1. Timely' BY NextTimely
  <2>2. TypeOK /\ TypeOK' BY <2>1 DEF Timely
  <2>3. LastWordIsTrue' BY <2>2, LastWordStays
  <2>4. Near' BY <2>1, NearStays
  <2> QED BY <2>1, <2>3, <2>4
<1>3. Inv => ClockTracksPlayer
  BY DEF Near, ClockTracksPlayer, CaughtUp, PositionError
<1> QED BY <1>1, <1>2, <1>3, PTL DEF Spec
=============================================================================
