----------------------------- MODULE AnswerShown -----------------------------
(***************************************************************************)
(* What the window is promised about anything fetched for what is playing: *)
(* lyrics, a picture.  There is a subject, which changes as it likes, and  *)
(* the answer shown for it.  Requests implements it, twice.                *)
(***************************************************************************)
CONSTANTS Subjects, None

VARIABLES subject, answer

Init == subject = None /\ answer = None

\* Another subject, or none, or the same one looked at afresh.  An answer never
\* goes over to another subject.
Turn ==
    /\ subject' \in Subjects \cup {None}
    /\ answer' = None \/ (answer' = answer /\ subject' \in {subject, None})

\* The answer to the subject arrives.
Tell == subject # None /\ answer' = subject /\ subject' = subject

Next == Turn \/ Tell

Spec == Init /\ [][Next]_<<subject, answer>>

\* What is shown is the answer to the subject there is.
AnswerIsOfTheSubject == answer # None /\ subject # None => answer = subject
=============================================================================
