------------------------------- MODULE MCVolume -------------------------------
(* An instance of Volume small enough for TLC: a native player whose stream   *)
(* gives nothing but a name, and a browser whose stream comes from a child    *)
(* process under another name.                                                *)
EXTENDS Volume, TLC

CONSTANTS native, browser

Owners ==
    (native :> [binary |-> "spotify", identity |-> "Spotify", pid |-> 10])
        @@ (browser :> [binary |-> "chromium", identity |-> "Google Chrome", pid |-> 20])
Labels ==
    <<[binary |-> Nothing, name |-> "Spotify", pid |-> Nothing],
      [binary |-> "chrome", name |-> Nothing, pid |-> 22]>>
Whose == <<native, browser>>
Folded ==
    [n \in {"spotify", "Spotify", "chromium", "Google Chrome", "chrome"} |->
        CASE n = "Spotify" -> "spotify" [] n = "Google Chrome" -> "google chrome" [] OTHER -> n]
Parents == (22 :> 21) @@ (21 :> 20) @@ (20 :> 1) @@ (10 :> 1)

\* The labels of these streams tell whose they are.
ASSUME LabelsAreTrue
=============================================================================
