----------------------------- MODULE MCRequests -----------------------------
(* Instances of Requests small enough for TLC. *)
EXTENDS Requests, TLC

CONSTANTS a, b, y, p, q

\* a and y are one recording, from Spotify and from a browser.
OneRecording == (a :> "s1") @@ (b :> "s2") @@ (y :> "s1")

\* Requests whose answers go to different fields are followed one group at a
\* time: none reads what another writes.
Groups ==
    {{"artwork"}, {"lyrics"}, {"queue"}, {"context", "contents"},
     {"liked", "save", "unsave"}}
OnlyContents == {{"context", "contents"}}

Playlists == Permutations({p, q})
=============================================================================
