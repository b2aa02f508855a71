------------------------------- MODULE MCCaches -------------------------------
(***************************************************************************)
(* The two caches on disk.  They share nothing, so a run follows one of     *)
(* them at a time.                                                          *)
(***************************************************************************)
EXTENDS ArtCache, LyricsCache

VARIABLE part_of

Init == part_of \in {"art", "lyrics"} /\ ArtInit /\ LyricsInit

Next ==
    \/ part_of = "art" /\ asks = <<"search">> /\ filed = {"search"}
          /\ ArtNext /\ UNCHANGED <<part_of, lyricsVars>>
    \/ part_of = "lyrics" /\ LyricsNext /\ UNCHANGED <<part_of, artVars>>

Spec == Init /\ [][Next]_<<part_of, artVars, lyricsVars>>
=============================================================================
