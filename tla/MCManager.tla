------------------------------ MODULE MCManager ------------------------------
(* Instances of the approval workflow.  "visible" is the visibility label, *)
(* and "private" a label the policy does not let through.                  *)
EXTENDS Manager, TLC

CONSTANTS r1, r2, r3

(* A grant, an update of its labels, and a grant for a second sender.      *)
TwoSenders == [r \in Requests |-> IF r = r3 THEN 2 ELSE 1]
TwoSendersLabels == (r1 :> {"money"}) @@ (r2 :> {"travel"}) @@ (r3 :> {})

(* One sender: a grant, its update, and an update the policy blocks.       *)
OneSender == [r \in Requests |-> 1]
OneSenderLabels == (r1 :> {"money"}) @@ (r2 :> {"travel"}) @@ (r3 :> {"private"})

UpdatesFollow == [r \in Requests |-> IF EmailOf[r] = 1 /\ r # r1 THEN "update" ELSE "grant"]

Symmetry == Permutations(Processes) \cup Permutations(Messages)
=============================================================================
