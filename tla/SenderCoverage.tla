---------------------------- MODULE SenderCoverage ----------------------------
(***************************************************************************)
(* What reconciling the visibility filters promises (gmail.go,             *)
(* ReconcileGrants), whatever calls to Gmail it takes: covered senders     *)
(* stay covered, a run covers no other senders than those whose grants it  *)
(* has loaded, and it succeeds with all of them covered.                   *)
(***************************************************************************)
CONSTANTS Senders, Runs

VARIABLES
    grants,       \* senders with a grant
    covered,      \* senders with a filter that adds the visibility label
    stage,        \* of each run: "idle", "running" or "done"
    group         \* of each run: the senders whose grants it has loaded

vars == <<grants, covered, stage, group>>

Init ==
    /\ grants = {} /\ covered = {}
    /\ stage = [p \in Runs |-> "idle"]
    /\ group = [p \in Runs |-> {}]

AddGrant(e) ==
    /\ grants' = grants \cup {e}
    /\ UNCHANGED <<covered, stage, group>>

(* A person adds a filter in Gmail's settings.                             *)
CoverByHand(S) ==
    /\ covered' = covered \cup S
    /\ UNCHANGED <<grants, stage, group>>

LoadGrants(p) ==
    /\ stage[p] = "idle"
    /\ stage' = [stage EXCEPT ![p] = "running"]
    /\ group' = [group EXCEPT ![p] = grants]
    /\ UNCHANGED <<grants, covered>>

Cover(p) ==
    /\ stage[p] = "running"
    /\ \E S \in SUBSET group[p] : covered' = covered \cup S
    /\ UNCHANGED <<grants, stage, group>>

Succeed(p) ==
    /\ stage[p] = "running"
    /\ covered' = covered \cup group[p]
    /\ stage' = [stage EXCEPT ![p] = "done"]
    /\ UNCHANGED <<grants, group>>

(* The run is over, or has failed: after a last call of which only the     *)
(* answer was lost, perhaps.                                               *)
End(p) ==
    /\ stage[p] # "idle"
    /\ \E S \in SUBSET group[p] : covered' = covered \cup S
    /\ stage' = [stage EXCEPT ![p] = "idle"]
    /\ group' = [group EXCEPT ![p] = {}]
    /\ UNCHANGED grants

Next ==
    \/ \E e \in Senders : AddGrant(e)
    \/ \E S \in SUBSET Senders : CoverByHand(S)
    \/ \E p \in Runs : LoadGrants(p) \/ Cover(p) \/ Succeed(p) \/ End(p)

Spec == Init /\ [][Next]_vars
=============================================================================
