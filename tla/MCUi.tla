-------------------------------- MODULE MCUi --------------------------------
(***************************************************************************)
(* The window's interface: its clock, scrubber and lyrics, and its lists.   *)
(* Both are drawn from the same frames and share nothing else, so a run     *)
(* follows one of the two at a time.                                        *)
(***************************************************************************)
EXTENDS LyricStrip, Panels, TLC

CONSTANTS a, b

TheStarts == (a :> <<1, 2, 4>>) @@ (b :> <<1, 3>>)
TheLengths == (a :> 5) @@ (b :> 3)

VARIABLE part

Init == part \in {"strip", "panels"} /\ StripInit /\ PanelsInit

Next ==
    \/ part = "strip" /\ kind = "queue" /\ StripNext /\ UNCHANGED <<part, panelVars>>
    \/ part = "panels" /\ PanelsNext /\ UNCHANGED <<part, stripVars>>

Spec == Init /\ [][Next]_<<part, stripVars, panelVars>>
=============================================================================
