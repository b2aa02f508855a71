--------------------------- MODULE MCSpotifyClient ---------------------------
(* Instances of SpotifyClient small enough for TLC: a time unit stands for    *)
(* the least wait, and the rate limit, the margin and the life of a token     *)
(* keep their order.                                                          *)
EXTENDS SpotifyClient

Floors == <<1, 2>>
Waits == {None, 2}

\* Requests are followed a kind at a time, or two that bear on each other: on the
\* library, on the plan.
Each == {{"liked", "save"}, {"playlists"}, {"devices", "play"}, {"transfer"}}
SavesAndDevices == {{"save"}}
Limited == {{"devices"}}
=============================================================================
