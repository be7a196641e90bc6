---------------------------- MODULE MCEvaluation ----------------------------
(***************************************************************************)
(* Small instances of Evaluation for TLC.                                   *)
(***************************************************************************)
EXTENDS Evaluation

Kinds == {"starts", "stops", "failures", "polls", "frames", "turns", "viewers"}

Nothing == [b \in Kinds |-> 0]

(* Evaluations stopped at any time and started again; requests that fail and     *)
(* another viewer; frames of every degree around a hidden page.                *)
Again   == [Nothing EXCEPT !["starts"] = 2, !["stops"] = 2, !["polls"] = 1]
Failing == [Nothing EXCEPT !["starts"] = 2, !["stops"] = 1, !["failures"] = 1]
Shared  == [Nothing EXCEPT !["starts"] = 1, !["stops"] = 1, !["failures"] = 1, !["viewers"] = 1]
Frames  == [Nothing EXCEPT !["starts"] = 1, !["frames"] = 3, !["turns"] = 1, !["polls"] = 1,
                           !["stops"] = 1]

Scenarios == {Again, Failing, Shared, Frames}

PageSessions == EvaluationsReleased(1..2)
=============================================================================
