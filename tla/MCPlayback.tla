----------------------------- MODULE MCPlayback -----------------------------
(* Instances of Playback small enough for TLC. *)
EXTENDS Playback

\* A short track, a longer one and a live stream.
SomeLengths == {2, NoLength}
OneLength == {3}
Streams == {NoLength}
=============================================================================
