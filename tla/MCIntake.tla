------------------------------- MODULE MCIntake -------------------------------
(* Values for the runs of Intake: three files with one id, of which the    *)
(* policy blocks one, a file without an id and a malformed file.           *)
EXTENDS Intake

CONSTANTS a, b, vetoed, anonymous, bad, shared

Ids0 == [f \in Files |-> IF f \in {a, b, vetoed} THEN shared ELSE NoId]
==============================================================================
