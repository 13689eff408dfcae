------------------------ MODULE MCVisibilityFilters ------------------------
(* Instances of the filter reconciler.  A filter is small (one to three    *)
(* senders instead of a hundred) so that a handful of senders needs one    *)
(* shard or several.                                                       *)
EXTENDS VisibilityFilters, TLC

(* 1 and 2 fit the query limit of VisibilityShards, 2 and 3 exceed it.     *)
Lengths == [e \in Senders |-> CASE e = 1 -> 10 [] e = 2 -> 20 [] e = 3 -> 40]

Symmetry == Permutations(Reconcilers)

(* Bound: Gmail hands out the least unused id.  Where the list order of    *)
(* the filters is not the question, this leaves out the other orders.      *)
LeastID ==
    \A f \in filters' \ filters : \A i \in FilterIDs : i < f.id => ~Fresh(i)

LeastSpec == Init /\ [][Next /\ LeastID]_vars

LeastFairSpec == LeastSpec /\ Fairness
=============================================================================
