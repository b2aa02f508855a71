------------------------------ MODULE MCPlayers ------------------------------
EXTENDS Players

\* Two applications of which one is not to be followed, one that is preferred,
\* and the proxy that mirrors whichever is active.
SomeNames == <<"firefox.1", "mpv", "playerctld", "spotify">>
Shorts == [n \in {"firefox.1", "mpv", "playerctld", "spotify"} |->
              IF n = "firefox.1" THEN "firefox" ELSE n]
Mirrors == {"playerctld"}
SpotifyFirst == <<"spotify", "mpv">>
NotFirefox == {"spotify", "mpv"}
=============================================================================
