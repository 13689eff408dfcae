---------------------------- MODULE MCStateStore ----------------------------
(* A small store: enough requests for two decisions on one address and one *)
(* on another, and three callers so that two can race while a third writes.*)
EXTENDS StateStore, TLC

Symmetry == Permutations(Requests) \cup Permutations(Emails)
            \cup Permutations(Callers) \cup Permutations(LabelSets)
=============================================================================
