----------------------- MODULE VisibilityFiltersProofs -----------------------
(***************************************************************************)
(* What holds of the visibility filters for any number of senders and of   *)
(* reconcilers racing each other.                                          *)
(*                                                                         *)
(* For any number of shards and of runs: the types, that only address      *)
(* filters are deleted, that no sender is filtered without a reason, and   *)
(* that plans keep the limits.  That no sender loses its filter and that a *)
(* run that succeeds has covered its grants, under one of two hypotheses:  *)
(*                                                                         *)
(*   OneFilterFits, all senders fit one filter.  The argument is an order  *)
(*   on filters: more senders is later, and of equal filters the one       *)
(*   listed first is later.  A filter is scheduled for deletion only when  *)
(*   a later one exists or is about to be created; deleting the later one  *)
(*   needs one later still; and the order has no cycle, so two runs never  *)
(*   delete each other's replacement.                                      *)
(*                                                                         *)
(*   OneReconciler, runs are not made at the same time.  Here the argument *)
(*   is that the shards of a set cover it, so that what a run deletes it   *)
(*   keeps or creates elsewhere, and nobody else deletes that.             *)
(*                                                                         *)
(* With either, all the calls of a run implement SenderCoverage, the       *)
(* promise the approval workflow relies on.                                *)
(*                                                                         *)
(* With neither both are false: with several shards a wanted filter need   *)
(* not contain the ones it replaces, which is how the race of the run      *)
(* VisibilityStaleList loses a sender.                                     *)
(***************************************************************************)
EXTENDS VisibilityFilters, FiniteSetTheorems, WellFoundedInduction, TLAPS

(* No set of senders is too large for one filter.                          *)
OneFilterFits == \A T \in SUBSET Senders : Fits(T)

(* What the plans know of the mailbox, for any number of shards.           *)
PlansInv ==
    /\ TypeOK
    /\ NoOverreach
    /\ \A p \in Reconcilers :
          /\ group[p] \subseteq grants
          /\ pc[p] = "loaded" => group[p] # {}
          /\ \A T \in toCreate[p] : T \subseteq grants \cup typed
          /\ \A f \in filters : f.id \in toDelete[p] => f.exact

(* g makes f superfluous.                                                  *)
Later(f, g) ==
    /\ f.terms \subseteq g.terms
    /\ f.terms = g.terms => g.id < f.id

(* Each planned deletion has a replacement, there or planned; each sender  *)
(* of a planned run has a filter, there or planned.                        *)
ReplacementInv ==
    \A p \in Reconcilers :
        /\ \A f \in Exact(filters) : f.id \in toDelete[p] =>
              \/ \E g \in Exact(filters) : Later(f, g)
              \/ \E T \in toCreate[p] : f.terms \subseteq T /\ f.terms # T
        /\ pc[p] \in {"applying", "done"} => \A e \in group[p] :
              \/ Covered(e)
              \/ \E T \in toCreate[p] : e \in T

USE SendersAssumption, LimitsAssumption, FilterIDsAssumption, MaxByHandAssumption

-----------------------------------------------------------------------------
(* The operators                                                           *)

(* A shard has only senders of the set that was cut.                       *)
LEMMA ShardsInSet ==
  ASSUME NEW S, NEW T \in Shards(S)
  PROVE  T \subseteq S
  BY DEF Shards

(* A set of natural numbers has a least element.                           *)
LEMMA Least ==
  ASSUME NEW S \in SUBSET Nat, S # {}
  PROVE  \E m \in S : \A x \in S : m <= x
<1> DEFINE R == OpToRel(<, Nat)
<1>1. IsWellFoundedOn(R, Nat)
  BY NatLessThanWellFounded
<1>2. PICK m \in S : \A x \in S : ~(<<x, m>> \in R)
  <2> HIDE DEF R
  <2> QED
    BY <1>1, WFMin
<1>3. \A x \in S : ~(x < m)
  BY <1>2 DEF OpToRel
<1> QED
  BY <1>3

(* Senders that fit one filter, however few of them are granted, get one   *)
(* filter: the greedy cut begins with the first of them and never again.   *)
LEMMA OneShard ==
  ASSUME OneFilterFits,
         NEW S \in SUBSET Senders, S # {}
  PROVE  Shards(S) = {S}
<1>1. PICK m \in S : \A x \in S : m <= x
  BY Least
<1> DEFINE C == CHOOSE D \in SUBSET S : GreedyCut(S, D)
<1>2. GreedyCut(S, {m})
  <2> SUFFICES ASSUME NEW x \in S
               PROVE  x \in {m} <=>
                        \A c \in {m} : c < x /\ Begins({m} \ {x}, c, x)
                          => ~Fits({y \in S : c <= y /\ y <= x})
    BY DEF GreedyCut
  <2>1. m \in Nat /\ x \in Nat /\ m <= x
    BY <1>1
  <2>2. Fits({y \in S : m <= y /\ y <= x})
    BY DEF OneFilterFits
  <2>3. CASE x = m
    BY <2>1, <2>3
  <2>4. CASE x # m
    <3>1. m < x /\ Begins({m} \ {x}, m, x)
      BY <2>1, <2>4 DEF Begins
    <3> QED
      BY <3>1, <2>2, <2>4
  <2> QED
    BY <2>3, <2>4
<1>3. C \in SUBSET S /\ GreedyCut(S, C)
  BY <1>2
<1> HIDE DEF C
<1>4. m \in C
  <2>1. \A c \in C : ~(c < m)
    BY <1>1, <1>3
  <2> QED
    BY <1>1, <1>3, <2>1 DEF GreedyCut
<1>5. C = {m}
  <2> SUFFICES ASSUME C \ {m} # {} PROVE FALSE
    BY <1>4
  <2>1. PICK x \in C \ {m} : \A y \in C \ {m} : x <= y
    BY <1>3, Least
  <2>2. m < x
    BY <1>1, <1>3, <2>1
  <2>3. Begins(C \ {x}, m, x)
    <3>1. \A d \in C \ {x} : d <= x => d <= m
      BY <1>1, <1>3, <2>1
    <3> QED
      BY <2>2, <3>1, <1>1, <1>3 DEF Begins
  <2>4. ~Fits({y \in S : m <= y /\ y <= x})
    BY <1>3, <1>4, <2>1, <2>2, <2>3 DEF GreedyCut
  <2> QED
    BY <2>4 DEF OneFilterFits
<1>6. Shards(S) = {{x \in S : Begins(C, c, x)} : c \in C}
  BY DEF Shards, C
<1>7. \A x \in S : Begins({m}, m, x)
  BY <1>1 DEF Begins
<1>8. Shards(S) = {{x \in S : Begins({m}, m, x)}}
  BY <1>5, <1>6
<1> QED
  BY <1>7, <1>8

(* The order of replacement is transitive and has no cycle.                *)
LEMMA LaterOrder ==
  ASSUME NEW f \in Filters, NEW g \in Filters, NEW h \in Filters
  PROVE  /\ ~Later(f, f)
         /\ Later(f, g) /\ Later(g, h) => Later(f, h)
<1>1. ~Later(f, f)
  <2>1. f.id \in Int
    BY DEF Filters
  <2>2. ~(f.id < f.id)
    BY <2>1
  <2> QED
    BY <2>2 DEF Later
<1>2. ASSUME Later(f, g), Later(g, h) PROVE Later(f, h)
  <2>1. f.terms \subseteq h.terms
    BY <1>2 DEF Later
  <2>2. ASSUME f.terms = h.terms PROVE h.id < f.id
    <3>1. f.terms = g.terms /\ g.terms = h.terms
      BY <1>2, <2>2 DEF Later
    <3> QED
      <4>1. g.id < f.id /\ h.id < g.id
        BY <1>2, <3>1 DEF Later
      <4>2. f.id \in Int /\ g.id \in Int /\ h.id \in Int
        BY DEF Filters
      <4> QED
        BY <4>1, <4>2
  <2> QED
    BY <2>1, <2>2 DEF Later
<1> QED
  BY <1>1, <1>2

(* A filter with a fresh id keeps the ids distinct.                         *)
LEMMA FreshKeepsDistinct ==
  ASSUME TypeOK, NEW n, Fresh(n.id), filters' = filters \cup {n}
  PROVE  \A f, g \in filters' : f.id = g.id => f = g
<1> SUFFICES ASSUME NEW f \in filters', NEW g \in filters', f.id = g.id
             PROVE  f = g
  OBVIOUS
<1>1. CASE f \in filters /\ g \in filters
  BY <1>1 DEF TypeOK
<1>2. CASE f = n \/ g = n
  BY <1>2 DEF Fresh
<1> QED
  BY <1>1, <1>2

(* What a plan creates and deletes is taken from the grants loaded and the *)
(* address filters listed.                                                 *)
LEMMA PlanContents ==
  ASSUME TypeOK, NEW p \in Reconcilers
  PROVE  LET desired == Desired(group[p], filters)
         IN  /\ \A T \in Missing(desired, filters) :
                   T \subseteq group[p] \cup Terms(Exact(filters))
             /\ \A f \in Superfluous(desired, filters) : f \in Exact(filters)
  BY ShardsInSet DEF Desired, Missing, Superfluous

-----------------------------------------------------------------------------
(* Any number of shards                                                    *)

LEMMA InitEstablishesPlansInv == Init => PlansInv /\ ReplacementInv
  BY DEF Init, PlansInv, ReplacementInv, TypeOK, NoOverreach, Terms, Exact

(* A step that changes neither the mailbox nor a plan, except to forget    *)
(* one, keeps what the plans know.                                         *)
LEMMA PlansStep == PlansInv /\ [Next]_vars => PlansInv'
<1> SUFFICES ASSUME PlansInv, [Next]_vars
             PROVE  PlansInv'
  OBVIOUS
<1> USE DEF PlansInv
<1>1. ASSUME NEW e \in Senders, AddGrant(e) PROVE PlansInv'
  BY <1>1 DEF AddGrant, TypeOK, NoOverreach, Terms, Exact
<1>2. ASSUME NEW i \in FilterIDs, NEW S \in SUBSET Senders, NEW exact \in BOOLEAN,
             AddByHand(i, S, exact)
      PROVE  PlansInv'
  <2> DEFINE new == [id |-> i, terms |-> S, exact |-> exact]
  <2>1. new \in Filters /\ filters' = filters \cup {new}
    BY <1>2 DEF AddByHand, Filters
  <2>2. TypeOK'
    <3>1. Fresh(new.id)
      BY <1>2 DEF AddByHand
    <3>2. \A f, g \in filters' : f.id = g.id => f = g
      BY <2>1, <3>1, FreshKeepsDistinct
    <3> QED
      BY <1>2, <2>1, <3>2 DEF AddByHand, TypeOK
  <2>3. NoOverreach'
    BY <1>2, <2>1 DEF AddByHand, NoOverreach, Terms, Exact, Filters
  <2>4. \A q \in Reconcilers : \A f \in filters' : f.id \in toDelete'[q] => f.exact
    BY <1>2, <2>1 DEF AddByHand, Fresh
  <2> QED
    BY <1>2, <2>2, <2>3, <2>4 DEF AddByHand
<1>3. ASSUME NEW p \in Reconcilers, LoadGrants(p) PROVE PlansInv'
  BY <1>3 DEF LoadGrants, TypeOK, NoOverreach
<1>4. ASSUME NEW p \in Reconcilers, ListFilters(p) PROVE PlansInv'
  <2> DEFINE desired == Desired(group[p], filters)
  <2>1. /\ toCreate' = [toCreate EXCEPT ![p] = Missing(desired, filters)]
        /\ toDelete' = [toDelete EXCEPT ![p] = {f.id : f \in Superfluous(desired, filters)}]
        /\ pc' = [pc EXCEPT ![p] = "applying"]
        /\ UNCHANGED <<grants, filters, typed, byHand, group>>
    BY <1>4 DEF ListFilters
  <2>2. /\ \A T \in Missing(desired, filters) : T \subseteq group[p] \cup Terms(Exact(filters))
        /\ \A f \in Superfluous(desired, filters) : f \in filters /\ f.exact
    BY PlanContents DEF Exact
  <2>3. /\ \A T \in Missing(desired, filters) : T \subseteq grants \cup typed
        /\ grants \cup typed \subseteq Senders
    BY <2>2 DEF NoOverreach, TypeOK
  <2>4. {f.id : f \in Superfluous(desired, filters)} \subseteq FilterIDs
    BY <2>2 DEF TypeOK, Filters
  <2>5. TypeOK'
    BY <2>1, <2>3, <2>4 DEF TypeOK
  <2>6. \A q \in Reconcilers : \A f \in filters' : f.id \in toDelete'[q] => f.exact
    BY <2>1, <2>2 DEF TypeOK
  <2>7. \A q \in Reconcilers : \A T \in toCreate'[q] : T \subseteq grants' \cup typed'
    BY <2>1, <2>3 DEF TypeOK
  <2> QED
    BY <2>1, <2>5, <2>6, <2>7 DEF NoOverreach, TypeOK
<1>5. ASSUME NEW p \in Reconcilers, NEW i \in FilterIDs, NEW T \in toCreate[p], Fresh(i),
             filters' = filters \cup {[id |-> i, terms |-> T, exact |-> TRUE]},
             pc[p] = "applying", UNCHANGED <<grants, typed, byHand>>,
             \/ /\ toCreate' = [toCreate EXCEPT ![p] = @ \ {T}]
                /\ UNCHANGED <<pc, group, toDelete>>
             \/ Forget(p, "failed")
      PROVE  PlansInv'
  <2> DEFINE new == [id |-> i, terms |-> T, exact |-> TRUE]
  <2>1. T \subseteq grants \cup typed /\ new \in Filters
    BY DEF TypeOK, Filters
  <2>2. NoOverreach'
    BY <1>5, <2>1 DEF NoOverreach, Terms, Exact
  <2>3. \A q \in Reconcilers : toDelete'[q] \subseteq toDelete[q]
    BY <1>5 DEF TypeOK, Forget
  <2>4. \A q \in Reconcilers : \A f \in filters' : f.id \in toDelete'[q] => f.exact
    BY <1>5, <2>3 DEF Fresh
  <2>5. \A f, g \in filters' : f.id = g.id => f = g
    <3>1. Fresh(new.id) /\ filters' = filters \cup {new}
      BY <1>5
    <3> QED
      BY <3>1, FreshKeepsDistinct
  <2>6. TypeOK'
    BY <1>5, <2>1, <2>5 DEF TypeOK, Forget
  <2>7. \A q \in Reconcilers :
           /\ toCreate'[q] \subseteq toCreate[q]
           /\ group'[q] \subseteq group[q]
           /\ pc'[q] = "loaded" => pc[q] = "loaded" /\ group'[q] = group[q]
    BY <1>5 DEF TypeOK, Forget
  <2>8. \A q \in Reconcilers :
           /\ group'[q] \subseteq grants'
           /\ pc'[q] = "loaded" => group'[q] # {}
           /\ \A U \in toCreate'[q] : U \subseteq grants' \cup typed'
    BY <1>5, <2>7
  <2> QED
    BY <2>2, <2>4, <2>6, <2>8
<1>6. ASSUME NEW p \in Reconcilers, NEW i \in FilterIDs, CreateShard(p, i)
      PROVE  PlansInv'
  BY <1>5, <1>6 DEF CreateShard
<1>7. ASSUME NEW p \in Reconcilers, NEW i \in FilterIDs, CreateUnanswered(p, i)
      PROVE  PlansInv'
  BY <1>5, <1>7 DEF CreateUnanswered
<1>8. ASSUME NEW p \in Reconcilers, NEW i \in FilterIDs, DeleteFilter(p, i)
      PROVE  PlansInv'
  BY <1>8 DEF DeleteFilter, TypeOK, NoOverreach, Terms, Exact
<1>9. ASSUME NEW p \in Reconcilers, Forget(p, "idle") \/ Forget(p, "failed"),
             UNCHANGED <<grants, filters, typed, byHand>>
      PROVE  PlansInv'
  <2>1. TypeOK'
    BY <1>9 DEF Forget, TypeOK
  <2>2. NoOverreach'
    BY <1>9 DEF NoOverreach
  <2>3. \A q \in Reconcilers :
           /\ group'[q] \subseteq group[q] /\ toCreate'[q] \subseteq toCreate[q]
           /\ toDelete'[q] \subseteq toDelete[q]
           /\ pc'[q] = "loaded" => group'[q] = group[q] /\ pc[q] = "loaded"
    BY <1>9 DEF Forget, TypeOK
  <2> QED
    BY <1>9, <2>1, <2>2, <2>3
<1>10. ASSUME NEW p \in Reconcilers, Succeed(p) PROVE PlansInv'
  BY <1>10 DEF Succeed, TypeOK, NoOverreach
<1>11. CASE UNCHANGED vars
  BY <1>11 DEF vars, TypeOK, NoOverreach
<1> QED
  BY <1>1, <1>2, <1>3, <1>4, <1>6, <1>7, <1>8, <1>9, <1>10, <1>11
     DEF Next, DeleteGone, Return, Abandon

(* The plans know what they delete, for any number of shards.              *)
THEOREM PlansInvariant == Spec => []PlansInv
<1>1. Init => PlansInv
  BY InitEstablishesPlansInv
<1>2. PlansInv /\ [Next]_vars => PlansInv'
  BY PlansStep
<1> QED
  BY <1>1, <1>2, PTL DEF Spec

(* Types, distinct ids and plans only while a run is applying.             *)
THEOREM FiltersTypeCorrect == Spec => []TypeOK
  BY PlansInvariant, PTL DEF PlansInv

(* No filter ever names a sender without a grant or a person's own filter. *)
THEOREM NeverOverreaches == Spec => []NoOverreach
  BY PlansInvariant, PTL DEF PlansInv

(* A filter that does more than match addresses survives every step of     *)
(* every reconciler.                                                       *)
THEOREM HandMadeFiltersKept == Spec => HandMadeKept
<1>1. PlansInv /\ [Next]_vars => [HandMadeStep]_vars
  <2> SUFFICES ASSUME PlansInv, Next, NEW f \in filters, ~f.exact
               PROVE  f \in filters'
    BY DEF HandMadeStep
  <2>1. ASSUME NEW p \in Reconcilers, NEW i \in FilterIDs, DeleteFilter(p, i)
        PROVE  f \in filters'
    BY <2>1 DEF DeleteFilter, PlansInv
  <2> QED
    BY <2>1 DEF Next, AddGrant, AddByHand, LoadGrants, ListFilters, CreateShard,
                CreateUnanswered, DeleteGone, Succeed, Return, Abandon
<1> QED
  BY <1>1, PlansInvariant, PTL DEF Spec, HandMadeKept

-----------------------------------------------------------------------------
(* One shard                                                               *)

(* Planned against the list it was computed from, a deletion has its       *)
(* replacement and a granted sender its filter.                            *)
LEMMA OneShardPlan ==
  ASSUME OneFilterFits, PlansInv,
         NEW p \in Reconcilers, group[p] # {}
  PROVE  LET desired == Desired(group[p], filters)
             missing == Missing(desired, filters)
         IN  /\ \A f \in Superfluous(desired, filters) :
                   \/ \E g \in Exact(filters) : Later(f, g)
                   \/ \E T \in missing : f.terms \subseteq T /\ f.terms # T
             /\ \A e \in group[p] : Covered(e) \/ \E T \in missing : e \in T
<1> DEFINE wanted == group[p] \cup Terms(Exact(filters))
           desired == Desired(group[p], filters)
           missing == Missing(desired, filters)
<1>1. wanted \in SUBSET Senders /\ wanted # {}
  BY DEF PlansInv, TypeOK, Terms, Exact, Filters
<1>2. desired = {wanted}
  BY <1>1, OneShard DEF Desired
<1>3. wanted \in missing \/ \E g \in Exact(filters) : g.terms = wanted
  BY <1>2 DEF Missing
<1>4. \A f \in Exact(filters) : f.terms \subseteq wanted
  BY DEF Terms
<1>5. ASSUME NEW f \in Superfluous(desired, filters)
      PROVE  \/ \E g \in Exact(filters) : Later(f, g)
             \/ \E T \in missing : f.terms \subseteq T /\ f.terms # T
  <2>1. f \in Exact(filters)
    BY DEF Superfluous
  <2>2. CASE \E g \in Exact(filters) : g.terms = f.terms /\ g.id < f.id
    BY <2>2 DEF Later
  <2>3. CASE f.terms \notin desired
    BY <1>2, <1>3, <1>4, <2>1, <2>3 DEF Later
  <2> QED
    BY <2>2, <2>3 DEF Superfluous
<1>6. ASSUME NEW e \in group[p]
      PROVE  Covered(e) \/ \E T \in missing : e \in T
  BY <1>3 DEF Covered, Exact
<1> QED
  BY <1>5, <1>6

(* Deleting a planned filter leaves a later one in its place.              *)
LEMMA DeletionReplaced ==
  ASSUME PlansInv, ReplacementInv, NEW p \in Reconcilers, NEW i \in FilterIDs,
         DeleteFilter(p, i)
  PROVE  \A f \in Exact(filters) :
            /\ f.id = i => \E k \in Exact(filters') : Later(f, k)
            /\ (\E g \in Exact(filters) : Later(f, g)) => \E k \in Exact(filters') : Later(f, k)
<1>1. PICK h \in filters : h.id = i
  BY DEF DeleteFilter
<1>2. h \in Exact(filters) /\ h.id \in toDelete[p] /\ toCreate[p] = {}
  BY <1>1 DEF DeleteFilter, PlansInv, Exact
<1>3. PICK k \in Exact(filters) : Later(h, k)
  BY <1>2 DEF ReplacementInv
<1>4. filters \subseteq Filters /\ \A f, g \in filters : f.id = g.id => f = g
  BY DEF PlansInv, TypeOK
<1>5. k # h
  BY <1>2, <1>3, <1>4, LaterOrder DEF Exact
<1>6. \A f \in Exact(filters) : f # h => f \in Exact(filters')
  BY <1>1, <1>4 DEF DeleteFilter, Exact
<1>7. k \in Exact(filters')
  BY <1>3, <1>5, <1>6
<1>8. ASSUME NEW f \in Exact(filters), f.id = i
      PROVE  Later(f, k)
  BY <1>1, <1>3, <1>4, <1>8 DEF Exact
<1>9. ASSUME NEW f \in Exact(filters), NEW g \in Exact(filters), Later(f, g)
      PROVE  \E l \in Exact(filters') : Later(f, l)
  <2>1. CASE g = h
    BY <1>2, <1>3, <1>4, <1>7, <1>9, <2>1, LaterOrder DEF Exact
  <2>2. CASE g # h
    BY <1>6, <1>9, <2>2
  <2> QED
    BY <2>1, <2>2
<1> QED
  BY <1>7, <1>8, <1>9

(* A filter found below another one covers no sender the other does not.   *)
LEMMA LaterCovers ==
  ASSUME NEW f, NEW g, Later(f, g), NEW e \in f.terms
  PROVE  e \in g.terms
  BY DEF Later

(* When all senders fit one filter, no sender loses its filter in a step.  *)
LEMMA CoverageInStep == PlansInv /\ ReplacementInv /\ Next => CoverageStep
<1> SUFFICES ASSUME PlansInv, ReplacementInv, Next,
                    NEW e \in Senders, NEW f \in Exact(filters), e \in f.terms
             PROVE  Covered(e)'
  BY DEF CoverageStep, Covered, Exact
<1>1. ASSUME NEW p \in Reconcilers, NEW i \in FilterIDs, DeleteFilter(p, i)
      PROVE  Covered(e)'
  <2>1. CASE f.id = i
    <3>1. PICK k \in Exact(filters') : Later(f, k)
      BY <1>1, <2>1, DeletionReplaced
    <3> QED
      BY <3>1, LaterCovers DEF Covered, Exact
  <2>2. CASE f.id # i
    BY <1>1, <2>2 DEF DeleteFilter, Covered, Exact
  <2> QED
    BY <2>1, <2>2
<1>2. ASSUME filters \subseteq filters' PROVE Covered(e)'
  BY <1>2 DEF Covered, Exact
<1> QED
  BY <1>1, <1>2 DEF Next, AddGrant, AddByHand, LoadGrants, ListFilters, CreateShard,
                    CreateUnanswered, DeleteGone, Succeed, Return, Abandon

(* The replacement of every planned deletion stays, whatever any           *)
(* reconciler does.                                                        *)
LEMMA ReplacementStep ==
  ASSUME OneFilterFits, PlansInv, ReplacementInv, [Next]_vars
  PROVE  ReplacementInv'
<1> DEFINE Replaced(f, q) == \/ \E g \in Exact(filters) : Later(f, g)
                             \/ \E T \in toCreate[q] : f.terms \subseteq T /\ f.terms # T
           Served(e, q) == Covered(e) \/ \E T \in toCreate[q] : e \in T
<1>1. \A q \in Reconcilers :
         /\ \A f \in Exact(filters) : f.id \in toDelete[q] => Replaced(f, q)
         /\ pc[q] \in {"applying", "done"} => \A e \in group[q] : Served(e, q)
  BY DEF ReplacementInv
<1>2. SUFFICES ASSUME NEW q \in Reconcilers
               PROVE  /\ \A f \in Exact(filters)' : f.id \in toDelete'[q] => Replaced(f, q)'
                      /\ pc'[q] \in {"applying", "done"} => \A e \in group'[q] : Served(e, q)'
  BY DEF ReplacementInv
<1> DEFINE Goal == /\ \A f \in Exact(filters)' : f.id \in toDelete'[q] => Replaced(f, q)'
                   /\ pc'[q] \in {"applying", "done"} => \A e \in group'[q] : Served(e, q)'
<1>3. ASSUME UNCHANGED filters,
             \/ /\ toCreate'[q] = toCreate[q] /\ toDelete'[q] = toDelete[q]
                /\ group'[q] = group[q]
                /\ pc'[q] = pc[q] \/ pc'[q] \notin {"applying", "done"}
                   \/ pc[q] = "applying"
             \/ /\ toDelete'[q] = {}
                /\ pc'[q] \notin {"applying", "done"}
      PROVE  Goal
  BY <1>1, <1>3 DEF Covered, Exact
<1>4. ASSUME NEW p \in Reconcilers, ListFilters(p) PROVE Goal
  <2>1. CASE q # p
    BY <1>3, <1>4, <2>1 DEF ListFilters
  <2>2. CASE q = p
    <3> DEFINE desired == Desired(group[p], filters)
               missing == Missing(desired, filters)
    <3>1. group[p] # {}
      BY <1>4 DEF ListFilters, PlansInv
    <3>2. /\ filters' = filters /\ group' = group
          /\ toCreate'[p] = missing
          /\ toDelete'[p] = {f.id : f \in Superfluous(desired, filters)}
      BY <1>4 DEF ListFilters, PlansInv, TypeOK
    <3>3. /\ \A f \in Superfluous(desired, filters) :
                \/ \E g \in Exact(filters) : Later(f, g)
                \/ \E T \in missing : f.terms \subseteq T /\ f.terms # T
          /\ \A e \in group[p] : Covered(e) \/ \E T \in missing : e \in T
      BY <3>1, OneShardPlan
    <3>4. \A f \in Exact(filters) : f.id \in toDelete'[p] => f \in Superfluous(desired, filters)
      BY <3>2 DEF PlansInv, TypeOK, Superfluous, Exact
    <3> QED
      BY <2>2, <3>2, <3>3, <3>4 DEF Covered, Exact
  <2> QED
    BY <2>1, <2>2
<1>5. ASSUME NEW i, NEW n, n.id = i, Fresh(i), filters' = filters \cup {n},
             toDelete'[q] \subseteq toDelete[q],
             \/ group'[q] = group[q] /\ pc'[q] = pc[q]
             \/ toDelete'[q] = {} /\ pc'[q] \notin {"applying", "done"},
             toDelete'[q] = {} \/ \A T \in toCreate[q] \ toCreate'[q] : n.exact /\ n.terms = T,
             pc'[q] \notin {"applying", "done"}
               \/ \A T \in toCreate[q] \ toCreate'[q] : n.exact /\ n.terms = T
      PROVE  Goal
  <2>1. Exact(filters) \subseteq Exact(filters')
    BY <1>5 DEF Exact
  <2>2. \A f \in Exact(filters') : f.id \in toDelete'[q] => f \in Exact(filters)
    BY <1>5 DEF Exact, Fresh
  <2>3. ASSUME NEW f \in Exact(filters'), f.id \in toDelete'[q]
        PROVE  Replaced(f, q)'
    <3>1. Replaced(f, q)
      BY <1>1, <1>5, <2>2, <2>3
    <3>2. CASE \E g \in Exact(filters) : Later(f, g)
      BY <2>1, <3>2
    <3>3. CASE \E T \in toCreate[q] : f.terms \subseteq T /\ f.terms # T
      <4>1. PICK T \in toCreate[q] : f.terms \subseteq T /\ f.terms # T
        BY <3>3
      <4>2. CASE T \in toCreate'[q]
        BY <4>1, <4>2
      <4>3. CASE T \notin toCreate'[q]
        BY <1>5, <2>3, <4>1, <4>3 DEF Exact, Later
      <4> QED
        BY <4>2, <4>3
    <3> QED
      BY <3>1, <3>2, <3>3
  <2>4. ASSUME pc'[q] \in {"applying", "done"}, NEW e \in group'[q]
        PROVE  Served(e, q)'
    <3>1. Served(e, q)
      BY <1>1, <1>5, <2>4
    <3> QED
      BY <1>5, <2>4, <3>1 DEF Covered
  <2> QED
    BY <2>3, <2>4 DEF Exact
<1>6. ASSUME NEW i \in FilterIDs, NEW S \in SUBSET Senders, NEW exact \in BOOLEAN,
             AddByHand(i, S, exact)
      PROVE  Goal
  <2> DEFINE n == [id |-> i, terms |-> S, exact |-> exact]
  <2>1. n.id = i /\ Fresh(i) /\ filters' = filters \cup {n}
    BY <1>6 DEF AddByHand
  <2>2. UNCHANGED <<pc, group, toCreate, toDelete>>
    BY <1>6 DEF AddByHand
  <2> HIDE DEF n
  <2> QED
    BY <1>5, <2>1, <2>2
<1>7. ASSUME NEW p \in Reconcilers, NEW i \in FilterIDs, CreateShard(p, i)
      PROVE  Goal
  <2>1. PICK T \in toCreate[p] :
           /\ filters' = filters \cup {[id |-> i, terms |-> T, exact |-> TRUE]}
           /\ toCreate' = [toCreate EXCEPT ![p] = @ \ {T}]
    BY <1>7 DEF CreateShard
  <2> DEFINE n == [id |-> i, terms |-> T, exact |-> TRUE]
  <2>2. n.id = i /\ n.terms = T /\ n.exact /\ Fresh(i) /\ filters' = filters \cup {n}
    BY <1>7, <2>1 DEF CreateShard
  <2>3. toCreate[q] \ toCreate'[q] \subseteq {T} /\ UNCHANGED <<pc, group, toDelete>>
    BY <1>7, <2>1 DEF CreateShard, PlansInv, TypeOK
  <2> HIDE DEF n
  <2> QED
    BY <1>5, <2>2, <2>3
<1>8. ASSUME NEW p \in Reconcilers, NEW i \in FilterIDs, CreateUnanswered(p, i)
      PROVE  Goal
  <2>1. PICK T \in toCreate[p] : filters' = filters \cup {[id |-> i, terms |-> T, exact |-> TRUE]}
    BY <1>8 DEF CreateUnanswered
  <2> DEFINE n == [id |-> i, terms |-> T, exact |-> TRUE]
  <2>2. n.id = i /\ Fresh(i) /\ filters' = filters \cup {n}
    BY <1>8, <2>1 DEF CreateUnanswered
  <2>3. CASE q = p
    <3>1. toDelete'[q] = {} /\ pc'[q] = "failed"
      BY <1>8, <2>3 DEF CreateUnanswered, Forget, PlansInv, TypeOK
    <3> HIDE DEF n
    <3> QED
      BY <1>5, <2>2, <3>1
  <2>4. CASE q # p
    <3>1. /\ toDelete'[q] = toDelete[q] /\ toCreate'[q] = toCreate[q]
          /\ group'[q] = group[q] /\ pc'[q] = pc[q]
      BY <1>8, <2>4 DEF CreateUnanswered, Forget, PlansInv, TypeOK
    <3> HIDE DEF n
    <3> QED
      BY <1>5, <2>2, <3>1
  <2> QED
    BY <2>3, <2>4
<1>9. ASSUME NEW p \in Reconcilers, NEW i \in FilterIDs, DeleteFilter(p, i)
      PROVE  Goal
  <2>1. /\ toDelete'[q] \subseteq toDelete[q]
        /\ UNCHANGED <<pc, group, toCreate>>
    BY <1>9 DEF DeleteFilter, PlansInv, TypeOK
  <2>2. Exact(filters') \subseteq Exact(filters)
    BY <1>9 DEF DeleteFilter, Exact
  <2>3. ASSUME NEW f \in Exact(filters'), f.id \in toDelete'[q]
        PROVE  Replaced(f, q)'
    <3>1. f \in Exact(filters) /\ Replaced(f, q)
      BY <1>1, <2>1, <2>2, <2>3
    <3> QED
      BY <1>9, <2>1, <3>1, DeletionReplaced
  <2>4. ASSUME pc'[q] \in {"applying", "done"}, NEW e \in group'[q]
        PROVE  Served(e, q)'
    <3>1. Served(e, q) /\ e \in Senders
      BY <1>1, <2>1, <2>4 DEF PlansInv, TypeOK
    <3>2. Covered(e) => Covered(e)'
      BY <1>9, <3>1, CoverageInStep DEF CoverageStep, Next
    <3> QED
      BY <2>1, <3>1, <3>2
  <2> QED
    BY <2>3, <2>4 DEF Exact
<1>10. ASSUME NEW p \in Reconcilers, Forget(p, "idle") \/ Forget(p, "failed"),
              UNCHANGED filters
       PROVE  Goal
  BY <1>3, <1>10 DEF Forget, PlansInv, TypeOK
<1>11. ASSUME NEW p \in Reconcilers, LoadGrants(p) \/ Succeed(p) PROVE Goal
  BY <1>3, <1>11 DEF LoadGrants, Succeed, PlansInv, TypeOK
<1>12. ASSUME NEW e \in Senders, AddGrant(e) PROVE Goal
  BY <1>3, <1>12 DEF AddGrant
<1>13. ASSUME UNCHANGED vars PROVE Goal
  BY <1>3, <1>13 DEF vars
<1>14. ASSUME NEW p \in Reconcilers, Return(p) \/ Abandon(p) PROVE Goal
  BY <1>10, <1>14 DEF Return, Abandon
<1>15. ASSUME NEW p \in Reconcilers, NEW i \in FilterIDs, DeleteGone(p, i) PROVE Goal
  BY <1>10, <1>15 DEF DeleteGone
<1>16. Goal
  <2> HIDE DEF Goal
  <2>1. ASSUME NEW i \in FilterIDs, NEW S \in (SUBSET Senders) \ {{}},
               NEW exact \in BOOLEAN, AddByHand(i, S, exact)
        PROVE  Goal
    BY <1>6, <2>1
  <2>2. ASSUME Next PROVE Goal
    BY <1>4, <1>7, <1>8, <1>9, <1>11, <1>12, <1>14, <1>15, <2>1, <2>2, Zenon DEF Next
  <2> QED
    BY <1>13, <2>2
<1> QED
  BY <1>16, Zenon

(* As long as all senders fit one filter, a sender that has a filter keeps *)
(* one: no interleaving, failure or stale plan of any number of            *)
(* reconcilers takes the last filter away.                                 *)
THEOREM OneShardCoverageNeverLost ==
  ASSUME OneFilterFits
  PROVE  Spec => CoverageNeverLost
<1> DEFINE Inv == PlansInv /\ ReplacementInv
<1>1. Init => Inv
  BY InitEstablishesPlansInv
<1>2. Inv /\ [Next]_vars => Inv'
  BY PlansStep, ReplacementStep
<1>3. Inv /\ [Next]_vars => [CoverageStep]_vars
  BY CoverageInStep
<1> QED
  BY <1>1, <1>2, <1>3, PTL DEF Spec, CoverageNeverLost

(* As long as all senders fit one filter, success means that every grant   *)
(* the run was given has its filter.                                       *)
THEOREM OneShardSuccessCovers ==
  ASSUME OneFilterFits
  PROVE  Spec => []ReconcileCovers
<1> DEFINE Inv == PlansInv /\ ReplacementInv
<1>1. Init => Inv
  BY InitEstablishesPlansInv
<1>2. Inv /\ [Next]_vars => Inv'
  BY PlansStep, ReplacementStep
<1>3. Inv => ReconcileCovers
  BY DEF PlansInv, TypeOK, ReplacementInv, ReconcileCovers
<1> QED
  BY <1>1, <1>2, <1>3, PTL DEF Spec
-----------------------------------------------------------------------------
(* The greedy cut, for any number of shards                                *)

(* Of a finite set of things with weights, one is lightest.                *)
LEMMA Lightest ==
  ASSUME NEW S, IsFiniteSet(S), S # {}, NEW w \in [S -> Int]
  PROVE  \E m \in S : \A x \in S : w[m] <= w[x]
<1> DEFINE Below(m) == {x \in S : w[x] <= w[m]}
           D == {Cardinality(Below(m)) : m \in S}
<1>1. ASSUME NEW m \in S
      PROVE  IsFiniteSet(Below(m)) /\ Cardinality(Below(m)) \in Nat
  <2>1. Below(m) \in SUBSET S
    OBVIOUS
  <2> HIDE DEF Below
  <2> QED
    BY <2>1, FS_Subset, FS_CardinalityType
<1>2. D \in SUBSET Nat /\ D # {}
  <2> HIDE DEF Below
  <2> QED
    BY <1>1
<1>3. PICK d \in D : \A y \in D : d <= y
  <2> HIDE DEF D
  <2> QED
    BY <1>2, Least
<1>4. PICK m \in S : d = Cardinality(Below(m))
  BY <1>3
<1>5. ASSUME NEW x \in S, w[x] < w[m]
      PROVE  FALSE
  <2>1. Below(x) \subseteq Below(m) /\ m \in Below(m) /\ m \notin Below(x)
    BY <1>5
  <2>2. Cardinality(Below(m)) <= Cardinality(Below(x))
    BY <1>3, <1>4
  <2> HIDE DEF Below
  <2>3. Cardinality(Below(x)) <= Cardinality(Below(m))
    BY <1>1, <2>1, FS_Subset
  <2>4. Cardinality(Below(x)) = Cardinality(Below(m))
    BY <1>1, <2>2, <2>3
  <2>5. Below(x) = Below(m)
    BY <1>1, <2>1, <2>4, FS_Subset
  <2> QED
    BY <2>1, <2>5
<1> QED
  BY <1>5

(* A finite set of senders has a last one.                                 *)
LEMMA LastSender ==
  ASSUME NEW S \in SUBSET Senders, S # {}
  PROVE  \E m \in S : \A x \in S : x <= m
<1> DEFINE w == [x \in S |-> 0 - x]
<1>1. IsFiniteSet(S)
  BY FS_Subset
<1>2. w \in [S -> Int]
  OBVIOUS
<1>3. PICK m \in S : \A x \in S : w[m] <= w[x]
  <2> HIDE DEF w
  <2> QED
    BY <1>1, <1>2, Lightest
<1> QED
  BY <1>3

(* A cut of the senders before m extends to one with m.                    *)
LEMMA CutExtends ==
  ASSUME NEW R \in SUBSET Nat, NEW m \in Nat, \A x \in R : x < m,
         NEW C \in SUBSET R, GreedyCut(R, C)
  PROVE  \E D \in SUBSET (R \cup {m}) : GreedyCut(R \cup {m}, D)
<1> DEFINE S == R \cup {m}
           full == \A c \in C : Begins(C, c, m) => ~Fits({y \in S : c <= y /\ y <= m})
           D == IF full THEN C \cup {m} ELSE C
<1>1. D \subseteq S /\ m \notin R /\ m \notin C /\ (m \in D <=> full)
  OBVIOUS
<1>2. \A x \in R : x \in D <=> x \in C
  BY <1>1
<1>3. ASSUME NEW x \in S
      PROVE  x \in D <=> \A c \in D : c < x /\ Begins(D \ {x}, c, x)
                            => ~Fits({y \in S : c <= y /\ y <= x})
  <2>1. CASE x = m
    <3>1. D \ {x} = C
      BY <1>1, <2>1
    <3>2. \A c \in D : c < x <=> c \in C
      BY <1>1, <2>1
    <3>3. \A c \in C : c \in D
      BY <1>1
    <3> HIDE DEF D
    <3> QED
      BY <1>1, <2>1, <3>1, <3>2, <3>3
  <2>2. CASE x \in R
    <3>1. \A c \in D : c < x => c \in C
      BY <1>1, <2>2
    <3>2. \A c \in C : Begins(D \ {x}, c, x) <=> Begins(C \ {x}, c, x)
      <4>1. \A d \in Nat : d <= x => (d \in D \ {x} <=> d \in C \ {x})
        BY <1>1, <2>2
      <4>2. D \subseteq Nat
        BY <1>1
      <4> HIDE DEF D
      <4> QED
        BY <4>1, <4>2 DEF Begins
    <3>3. \A c \in C : {y \in S : c <= y /\ y <= x} = {y \in R : c <= y /\ y <= x}
      BY <2>2
    <3>4. x \in C <=> \A c \in C : c < x /\ Begins(C \ {x}, c, x)
                         => ~Fits({y \in R : c <= y /\ y <= x})
      BY <2>2 DEF GreedyCut
    <3>5. C \subseteq D
      BY <1>1
    <3> HIDE DEF D, S
    <3> QED
      BY <1>2, <2>2, <3>1, <3>2, <3>3, <3>4, <3>5
  <2> QED
    BY <2>1, <2>2
<1>4. GreedyCut(S, D)
  <2> HIDE DEF D, S
  <2> QED
    BY <1>3 DEF GreedyCut
<1> QED
  BY <1>1, <1>4

(* Every set of senders can be cut: else there were a least sender up to   *)
(* which it cannot.                                                        *)
LEMMA CutExists ==
  ASSUME NEW S \in SUBSET Senders
  PROVE  \E C \in SUBSET S : GreedyCut(S, C)
<1> DEFINE Upto(k) == {x \in S : x <= k}
           Cut(k) == \E C \in SUBSET Upto(k) : GreedyCut(Upto(k), C)
           Uncut == {k \in Nat : ~Cut(k)}
<1>1. CASE S = {}
  BY <1>1 DEF GreedyCut
<1>2. CASE S # {}
  <2>1. ASSUME Uncut # {}
        PROVE  FALSE
    <3>1. PICK m \in Nat : ~Cut(m) /\ \A k \in Nat : ~Cut(k) => m <= k
      <4> HIDE DEF Cut
      <4>1. Uncut \in SUBSET Nat
        OBVIOUS
      <4>2. PICK m \in Uncut : \A k \in Uncut : m <= k
        BY <2>1, <4>1, Least
      <4> QED
        BY <4>2
    <3> HIDE DEF Uncut, Cut
    <3>2. S \subseteq Nat
      OBVIOUS
    <3> DEFINE R == {x \in S : x < m}
    <3>3. \E C \in SUBSET R : GreedyCut(R, C)
      <4>1. CASE m = 0
        <5>1. \A x \in S : ~(x < m)
          BY <3>2, <4>1
        <5>2. R = {}
          BY <5>1
        <5> QED
          BY <5>2 DEF GreedyCut
      <4>2. CASE m # 0
        <5>1. m - 1 \in Nat /\ ~(m <= m - 1)
          BY <4>2
        <5>2. Cut(m - 1)
          BY <3>1, <5>1
        <5>3. \A x \in S : x <= m - 1 <=> x < m
          BY <3>2, <4>2
        <5>4. Upto(m - 1) = R
          BY <5>3
        <5> HIDE DEF R, Upto
        <5> QED
          BY <5>2, <5>4 DEF Cut
      <4> QED
        BY <4>1, <4>2
    <3>4. Cut(m)
      <4>1. CASE m \notin S
        <5>1. \A x \in S : x <= m <=> x < m
          BY <3>2, <4>1
        <5>2. Upto(m) = R
          BY <5>1
        <5> HIDE DEF R, Upto
        <5> QED
          BY <3>3, <5>2 DEF Cut
      <4>2. CASE m \in S
        <5>1. \A x \in S : x <= m <=> (x < m \/ x = m)
          BY <3>2
        <5>2. Upto(m) = R \cup {m}
          BY <4>2, <5>1
        <5>3. R \in SUBSET Nat /\ \A x \in R : x < m
          BY <3>2
        <5> HIDE DEF R, Upto
        <5>4. PICK C \in SUBSET R : GreedyCut(R, C)
          BY <3>3
        <5>5. \E D \in SUBSET (R \cup {m}) : GreedyCut(R \cup {m}, D)
          BY <5>3, <5>4, CutExtends
        <5> QED
          BY <5>2, <5>5 DEF Cut
      <4> QED
        BY <4>1, <4>2
    <3> QED
      BY <3>1, <3>4
  <2>2. PICK n \in S : \A x \in S : x <= n
    BY <1>2, LastSender
  <2>3. Upto(n) = S /\ n \in Nat
    BY <2>2
  <2>4. Cut(n)
    <3> HIDE DEF Cut
    <3> QED
      BY <2>1, <2>3
  <2> HIDE DEF Upto
  <2> QED
    BY <2>3, <2>4
<1> QED
  BY <1>1, <1>2

(* The shards of a set of senders are disjoint, together they are the set, *)
(* and each respects the limits unless it is a single sender.              *)
LEMMA ShardsPartition ==
  ASSUME NEW S \in SUBSET Senders
  PROVE  /\ \A e \in S : \E T \in Shards(S) : e \in T
         /\ \A T, U \in Shards(S) : T # U => T \cap U = {}
         /\ \A T \in Shards(S) : Fits(T) \/ Cardinality(T) = 1
<1> DEFINE C == CHOOSE D \in SUBSET S : GreedyCut(S, D)
           Shard(c) == {x \in S : Begins(C, c, x)}
<1>1. C \in SUBSET S /\ GreedyCut(S, C)
  BY CutExists
<1>2. Shards(S) = {Shard(c) : c \in C}
  BY DEF Shards
<1> HIDE DEF C
<1>3. S \subseteq Nat
  OBVIOUS
<1>4. ASSUME NEW e \in S
      PROVE  \E c \in C : e \in Shard(c)
  <2>1. PICK m \in S : \A x \in S : m <= x
    BY <1>3, Least
  <2>2. m \in C
    <3>1. \A c \in C : ~(c < m)
      BY <1>1, <1>3, <2>1
    <3> QED
      BY <1>1, <3>1 DEF GreedyCut
  <2> DEFINE B == {c \in C : c <= e}
  <2>3. m \in B
    BY <2>1, <2>2
  <2>4. PICK c \in B : \A d \in B : d <= c
    <3>1. B \in SUBSET Senders /\ B # {}
      BY <1>1, <2>3
    <3> HIDE DEF B
    <3> QED
      BY <3>1, LastSender
  <2>5. Begins(C, c, e)
    BY <2>4 DEF Begins
  <2> QED
    BY <2>4, <2>5
<1>5. ASSUME NEW c \in C, NEW d \in C, NEW e \in S, Begins(C, c, e), Begins(C, d, e)
      PROVE  c = d
  <2>1. c <= d /\ d <= c
    BY <1>5 DEF Begins
  <2> QED
    BY <1>1, <1>3, <2>1
<1>6. ASSUME NEW c \in C
      PROVE  Fits(Shard(c)) \/ Cardinality(Shard(c)) = 1
  <2>1. c \in S /\ c \in Shard(c)
    BY <1>1, <1>3 DEF Begins
  <2>2. PICK z \in Shard(c) : \A x \in Shard(c) : x <= z
    <3>1. Shard(c) \in SUBSET Senders /\ Shard(c) # {}
      BY <2>1
    <3> HIDE DEF Shard
    <3> QED
      BY <3>1, LastSender
  <2>3. CASE z = c
    <3>1. \A x \in Shard(c) : x = c
      BY <1>3, <2>1, <2>2, <2>3 DEF Begins
    <3>2. Shard(c) = {c}
      BY <2>1, <3>1
    <3> QED
      BY <3>2, FS_Singleton
  <2>4. CASE z # c
    <3>1. z \in S /\ Begins(C, c, z) /\ c < z
      BY <1>3, <2>1, <2>4 DEF Begins
    <3>2. z \notin C
      BY <1>3, <2>1, <3>1 DEF Begins
    <3>3. PICK b \in C : /\ b < z /\ Begins(C \ {z}, b, z)
                         /\ Fits({y \in S : b <= y /\ y <= z})
      BY <1>1, <3>1, <3>2 DEF GreedyCut
    <3>4. C \ {z} = C
      BY <3>2
    <3>5. b = c
      BY <1>5, <3>1, <3>3, <3>4
    <3>6. {y \in S : c <= y /\ y <= z} = Shard(c)
      <4>1. \A y \in Shard(c) : c <= y /\ y <= z
        BY <2>2 DEF Begins
      <4>2. \A y \in S : c <= y /\ y <= z => Begins(C, c, y)
        BY <1>1, <1>3, <3>1 DEF Begins
      <4> QED
        BY <4>1, <4>2
    <3> HIDE DEF Shard
    <3> QED
      BY <3>3, <3>5, <3>6
  <2> QED
    BY <2>3, <2>4
<1>7. \A e \in S : \E T \in Shards(S) : e \in T
  BY <1>2, <1>4
<1>8. ASSUME NEW T \in Shards(S), NEW U \in Shards(S), NEW e \in T \cap U
      PROVE  T = U
  <2>1. PICK c \in C : T = Shard(c)
    BY <1>2
  <2>2. PICK d \in C : U = Shard(d)
    BY <1>2
  <2>3. e \in S /\ Begins(C, c, e) /\ Begins(C, d, e)
    BY <2>1, <2>2
  <2> QED
    BY <1>5, <2>1, <2>2, <2>3
<1>9. \A T \in Shards(S) : Fits(T) \/ Cardinality(T) = 1
  <2> HIDE DEF Shard
  <2> QED
    BY <1>2, <1>6
<1> QED
  BY <1>7, <1>8, <1>9

-----------------------------------------------------------------------------
(* What is planned                                                         *)

LEMMA PlansFitStep == PlansInv /\ PlansFit /\ [Next]_vars => PlansFit'
<1> SUFFICES ASSUME PlansInv, PlansFit, [Next]_vars, NEW q \in Reconcilers
             PROVE  \A T \in toCreate'[q] :
                       /\ Fits(T) \/ Cardinality(T) = 1
                       /\ \A U \in toCreate'[q] \ {T} : T \cap U = {}
  BY DEF PlansFit
<1>1. ASSUME toCreate'[q] \subseteq toCreate[q]
      PROVE  \A T \in toCreate'[q] :
                /\ Fits(T) \/ Cardinality(T) = 1
                /\ \A U \in toCreate'[q] \ {T} : T \cap U = {}
  BY <1>1 DEF PlansFit
<1>2. ASSUME NEW p \in Reconcilers, ListFilters(p), toCreate'[q] # toCreate[q]
      PROVE  \A T \in toCreate'[q] :
                /\ Fits(T) \/ Cardinality(T) = 1
                /\ \A U \in toCreate'[q] \ {T} : T \cap U = {}
  <2> DEFINE wanted == group[q] \cup Terms(Exact(filters))
  <2>1. toCreate'[q] \subseteq Shards(wanted)
    BY <1>2 DEF ListFilters, Missing, Desired, PlansInv, TypeOK
  <2>2. wanted \in SUBSET Senders
    BY DEF PlansInv, TypeOK, Terms, Exact, Filters
  <2> HIDE DEF wanted
  <2> QED
    BY <2>1, <2>2, ShardsPartition
<1>3. \/ toCreate'[q] \subseteq toCreate[q]
      \/ \E p \in Reconcilers : ListFilters(p)
  BY DEF Next, AddGrant, AddByHand, LoadGrants, CreateShard, CreateUnanswered, DeleteFilter,
         DeleteGone, Succeed, Return, Abandon, Forget, vars, PlansInv, TypeOK
<1> QED
  BY <1>1, <1>2, <1>3

(* A run plans no filter that Gmail would refuse for its size, unless one  *)
(* address alone is too long, and plans no sender twice.                   *)
THEOREM PlansAlwaysFit == Spec => []PlansFit
<1>1. Init => PlansFit
  BY DEF Init, PlansFit
<1>2. PlansInv /\ PlansFit /\ [Next]_vars => PlansFit'
  BY PlansFitStep
<1> QED
  BY <1>1, <1>2, PlansInvariant, PTL DEF Spec

-----------------------------------------------------------------------------
(* One reconciler, and any number of shards                                *)

(* Of the filters for a sender some first one is listed.                   *)
LEMMA FirstListed ==
  ASSUME PlansInv, IsFiniteSet(filters), NEW T, NEW g \in Exact(filters), g.terms = T
  PROVE  \E f \in Exact(filters) :
            f.terms = T /\ \A h \in Exact(filters) : h.terms = T => f.id <= h.id
<1> DEFINE H == {f \in Exact(filters) : f.terms = T}
           w == [f \in H |-> f.id]
<1>1. IsFiniteSet(H)
  <2>1. H \in SUBSET filters
    BY DEF Exact
  <2> QED
    BY <2>1, FS_Subset
<1>2. H # {}
  OBVIOUS
<1>3. w \in [H -> Int]
  BY DEF Exact, PlansInv, TypeOK, Filters
<1>4. PICK f \in H : \A h \in H : w[f] <= w[h]
  <2> HIDE DEF H, w
  <2> QED
    BY <1>1, <1>2, <1>3, Lightest
<1> QED
  BY <1>4

(* With its list up to date a plan secures every sender it is about.       *)
LEMMA FullPlan ==
  ASSUME PlansInv, IsFiniteSet(filters), NEW p \in Reconcilers,
         NEW e \in group[p] \cup Terms(Exact(filters))
  PROVE  LET desired == Desired(group[p], filters)
         IN  \/ \E T \in Missing(desired, filters) : e \in T
             \/ \E f \in Exact(filters) : f \notin Superfluous(desired, filters) /\ e \in f.terms
<1> DEFINE desired == Desired(group[p], filters)
           wanted == group[p] \cup Terms(Exact(filters))
<1>1. wanted \in SUBSET Senders
  BY DEF PlansInv, TypeOK, Terms, Exact, Filters
<1>2. PICK T \in Shards(wanted) : e \in T
  <2>1. \A x \in wanted : \E T \in Shards(wanted) : x \in T
    <3> HIDE DEF wanted
    <3> QED
      BY <1>1, ShardsPartition
  <2> QED
    BY <2>1
<1>3. T \in desired
  BY <1>2 DEF Desired
<1> HIDE DEF desired, wanted
<1>4. CASE T \in Missing(desired, filters)
  BY <1>2, <1>4 DEF desired
<1>5. CASE T \notin Missing(desired, filters)
  <2>1. PICK g \in Exact(filters) : g.terms = T
    BY <1>3, <1>5 DEF Missing
  <2>2. PICK f \in Exact(filters) :
           f.terms = T /\ \A h \in Exact(filters) : h.terms = T => f.id <= h.id
    BY <2>1, FirstListed
  <2>3. \A h \in Exact(filters) : f.id \in Int /\ h.id \in Int
    BY <2>2 DEF Exact, PlansInv, TypeOK, Filters
  <2>4. f \notin Superfluous(desired, filters)
    BY <1>3, <2>2, <2>3 DEF Superfluous
  <2> QED
    BY <1>2, <2>2, <2>4 DEF desired
<1> QED
  BY <1>4, <1>5

(* Runs are not made at the same time.                                     *)
OneReconciler == \A p, q \in Reconcilers : p = q

(* A filter for the sender stays, or is about to be created.               *)
Secured(p, e) ==
    \/ \E f \in Exact(filters) : f.id \notin toDelete[p] /\ e \in f.terms
    \/ \E T \in toCreate[p] : e \in T

(* What a run deletes it does not need, and what it was given it secures.  *)
SoleInv ==
    /\ IsFiniteSet(filters)
    /\ \A p \in Reconcilers :
          /\ \A f \in Exact(filters) :
                f.id \in toDelete[p] => \A e \in f.terms : Secured(p, e)
          /\ pc[p] \in {"applying", "done"} => \A e \in group[p] : Secured(p, e)

LEMMA SoleStep ==
  ASSUME OneReconciler, PlansInv, SoleInv, [Next]_vars
  PROVE  SoleInv'
<1> SUFFICES ASSUME NEW q \in Reconcilers
             PROVE  /\ IsFiniteSet(filters')
                    /\ \A f \in Exact(filters') :
                          f.id \in toDelete'[q] => \A e \in f.terms : Secured(q, e)'
                    /\ pc'[q] \in {"applying", "done"} => \A e \in group'[q] : Secured(q, e)'
  <2>1. CASE Reconcilers = {}
    <3>1. IsFiniteSet(filters')
      <4>1. ASSUME NEW n, filters' = filters \cup {n}
            PROVE  IsFiniteSet(filters')
        BY <4>1, FS_AddElement DEF SoleInv
      <4> QED
        BY <2>1, <4>1 DEF SoleInv, Next, AddGrant, AddByHand, vars
    <3> QED
      BY <2>1, <3>1 DEF SoleInv
  <2>2. CASE Reconcilers # {}
    BY <2>2 DEF SoleInv, Exact
  <2> QED
    BY <2>1, <2>2
<1> DEFINE Goal == /\ IsFiniteSet(filters')
                   /\ \A f \in Exact(filters') :
                         f.id \in toDelete'[q] => \A e \in f.terms : Secured(q, e)'
                   /\ pc'[q] \in {"applying", "done"} => \A e \in group'[q] : Secured(q, e)'
<1>1. /\ IsFiniteSet(filters) /\ \A p \in Reconcilers : p = q
      /\ \A f \in Exact(filters) : f.id \in toDelete[q] => \A e \in f.terms : Secured(q, e)
      /\ pc[q] \in {"applying", "done"} => \A e \in group[q] : Secured(q, e)
  BY DEF SoleInv, OneReconciler
<1>2. ASSUME UNCHANGED <<filters, group, toCreate, toDelete>>,
             pc'[q] \in {"applying", "done"} => pc[q] \in {"applying", "done"}
      PROVE  Goal
  BY <1>1, <1>2 DEF Secured
<1>3. ASSUME IsFiniteSet(filters'), toDelete'[q] = {}, pc'[q] \notin {"applying", "done"}
      PROVE  Goal
  BY <1>3
<1>4. ASSUME NEW n, Fresh(n.id), filters' = filters \cup {n},
             UNCHANGED <<pc, group, toDelete>>,
             \A T \in toCreate[q] \ toCreate'[q] : n.exact /\ n.terms = T
      PROVE  Goal
  <2>1. IsFiniteSet(filters')
    BY <1>1, <1>4, FS_AddElement
  <2>2. n.id \notin toDelete[q]
    BY <1>4 DEF Fresh
  <2>3. ASSUME NEW e, Secured(q, e)
        PROVE  Secured(q, e)'
    <3>1. CASE \E f \in Exact(filters) : f.id \notin toDelete[q] /\ e \in f.terms
      BY <1>4, <3>1 DEF Secured, Exact
    <3>2. ASSUME NEW T \in toCreate[q], e \in T
          PROVE  Secured(q, e)'
      <4>1. CASE T \in toCreate'[q]
        BY <3>2, <4>1 DEF Secured
      <4>2. CASE T \notin toCreate'[q]
        <5>1. n \in Exact(filters') /\ n.id \notin toDelete'[q] /\ e \in n.terms
          BY <1>4, <2>2, <3>2, <4>2 DEF Exact
        <5> QED
          BY <5>1 DEF Secured
      <4> QED
        BY <4>1, <4>2
    <3> QED
      BY <2>3, <3>1, <3>2 DEF Secured
  <2>4. \A f \in Exact(filters') : f.id \in toDelete[q] => f \in Exact(filters)
    BY <1>4, <2>2 DEF Exact
  <2> QED
    BY <1>1, <1>4, <2>1, <2>3, <2>4
<1>5. ASSUME ListFilters(q) PROVE Goal
  <2> DEFINE desired == Desired(group[q], filters)
             missing == Missing(desired, filters)
             superfluous == Superfluous(desired, filters)
  <2>1. /\ filters' = filters /\ group' = group
        /\ toCreate'[q] = missing
        /\ toDelete'[q] = {f.id : f \in superfluous}
    BY <1>5 DEF ListFilters, PlansInv, TypeOK
  <2>2. \A f \in Exact(filters) : f.id \in toDelete'[q] => f \in superfluous
    BY <2>1 DEF PlansInv, TypeOK, Superfluous, Exact
  <2>3. ASSUME NEW e \in group[q] \cup Terms(Exact(filters))
        PROVE  Secured(q, e)'
    <3>1. \/ \E T \in missing : e \in T
          \/ \E f \in Exact(filters) : f \notin superfluous /\ e \in f.terms
      BY <1>1, FullPlan
    <3> QED
      BY <2>1, <2>2, <3>1 DEF Secured
  <2>4. \A f \in Exact(filters) : f.terms \subseteq Terms(Exact(filters))
    BY DEF Terms
  <2> QED
    BY <1>1, <2>1, <2>3, <2>4
<1>6. ASSUME NEW i \in FilterIDs, DeleteFilter(q, i) PROVE Goal
  <2>1. /\ filters' = {f \in filters : f.id # i}
        /\ toDelete'[q] = toDelete[q] \ {i} /\ i \in toDelete[q]
        /\ UNCHANGED <<pc, group, toCreate>>
    BY <1>6 DEF DeleteFilter, PlansInv, TypeOK
  <2>2. IsFiniteSet(filters')
    BY <1>1, <2>1, FS_Subset
  <2>3. ASSUME NEW e, Secured(q, e)
        PROVE  Secured(q, e)'
    BY <2>1, <2>3 DEF Secured, Exact
  <2>4. \A f \in Exact(filters') : f \in Exact(filters)
    BY <2>1 DEF Exact
  <2> QED
    BY <1>1, <2>1, <2>2, <2>3, <2>4
<1>7. ASSUME Forget(q, "idle") \/ Forget(q, "failed"),
             filters' = filters \/ \E n : filters' = filters \cup {n}
      PROVE  Goal
  <2>1. IsFiniteSet(filters')
    BY <1>1, <1>7, FS_AddElement
  <2>2. toDelete'[q] = {} /\ pc'[q] \in {"idle", "failed"}
    BY <1>7 DEF Forget, PlansInv, TypeOK
  <2> QED
    BY <1>3, <2>1, <2>2
<1>8. ASSUME NEW i \in FilterIDs, NEW S \in SUBSET Senders, NEW exact \in BOOLEAN,
             AddByHand(i, S, exact)
      PROVE  Goal
  <2> DEFINE n == [id |-> i, terms |-> S, exact |-> exact]
  <2>1. n.id = i /\ Fresh(i) /\ filters' = filters \cup {n}
        /\ UNCHANGED <<pc, group, toCreate, toDelete>>
    BY <1>8 DEF AddByHand
  <2> HIDE DEF n, Goal
  <2> QED
    BY <1>4, <2>1
<1>9. ASSUME NEW i \in FilterIDs, CreateShard(q, i) PROVE Goal
  <2>1. PICK T \in toCreate[q] :
           /\ filters' = filters \cup {[id |-> i, terms |-> T, exact |-> TRUE]}
           /\ toCreate' = [toCreate EXCEPT ![q] = @ \ {T}]
    BY <1>9 DEF CreateShard
  <2> DEFINE n == [id |-> i, terms |-> T, exact |-> TRUE]
  <2>2. n.id = i /\ n.terms = T /\ n.exact /\ Fresh(i) /\ filters' = filters \cup {n}
    BY <1>9, <2>1 DEF CreateShard
  <2>3. toCreate[q] \ toCreate'[q] \subseteq {T} /\ UNCHANGED <<pc, group, toDelete>>
    BY <1>9, <2>1 DEF CreateShard, PlansInv, TypeOK
  <2> HIDE DEF n, Goal
  <2> QED
    BY <1>4, <2>2, <2>3
<1>10. ASSUME NEW i \in FilterIDs, CreateUnanswered(q, i) PROVE Goal
  BY <1>7, <1>10 DEF CreateUnanswered
<1>11. ASSUME LoadGrants(q) PROVE Goal
  <2>1. filters' = filters /\ toDelete'[q] = {} /\ pc'[q] = "loaded"
    BY <1>11 DEF LoadGrants, PlansInv, TypeOK
  <2> QED
    BY <1>1, <1>3, <2>1
<1>12. ASSUME Succeed(q) PROVE Goal
  BY <1>2, <1>12 DEF Succeed
<1>13. ASSUME NEW e \in Senders, AddGrant(e) PROVE Goal
  BY <1>2, <1>13 DEF AddGrant
<1>14. ASSUME Return(q) \/ Abandon(q) PROVE Goal
  BY <1>7, <1>14 DEF Return, Abandon
<1>15. ASSUME NEW i \in FilterIDs, DeleteGone(q, i) PROVE Goal
  BY <1>7, <1>15 DEF DeleteGone
<1>16. ASSUME UNCHANGED vars PROVE Goal
  BY <1>2, <1>16 DEF vars
<1>17. Goal
  <2> HIDE DEF Goal
  <2>1. ASSUME NEW i \in FilterIDs, NEW S \in (SUBSET Senders) \ {{}},
               NEW exact \in BOOLEAN, AddByHand(i, S, exact)
        PROVE  Goal
    BY <1>8, <2>1
  <2>2. ASSUME Next PROVE Goal
    BY <1>1, <1>5, <1>6, <1>9, <1>10, <1>11, <1>12, <1>13, <1>14, <1>15, <2>1, <2>2
       DEF Next
  <2> QED
    BY <1>16, <2>2
<1> QED
  BY <1>17

(* When nobody else reconciles, a sender that has a filter keeps one, be   *)
(* there as many shards as there may.                                      *)
LEMMA SoleCoverageInStep ==
  ASSUME OneReconciler, PlansInv, SoleInv, Next
  PROVE  CoverageStep
<1> SUFFICES ASSUME NEW e \in Senders, NEW f \in Exact(filters), e \in f.terms
             PROVE  Covered(e)'
  BY DEF CoverageStep, Covered, Exact
<1>1. ASSUME NEW p \in Reconcilers, NEW i \in FilterIDs, DeleteFilter(p, i)
      PROVE  Covered(e)'
  <2>1. toCreate[p] = {} /\ i \in toDelete[p] /\ filters' = {g \in filters : g.id # i}
    BY <1>1 DEF DeleteFilter
  <2>2. CASE f.id = i
    <3>1. Secured(p, e)
      BY <2>1, <2>2 DEF SoleInv
    <3>2. PICK g \in Exact(filters) : g.id \notin toDelete[p] /\ e \in g.terms
      BY <2>1, <3>1 DEF Secured
    <3> QED
      BY <2>1, <3>2 DEF Covered, Exact
  <2>3. CASE f.id # i
    BY <2>1, <2>3 DEF Covered, Exact
  <2> QED
    BY <2>2, <2>3
<1>2. ASSUME filters \subseteq filters' PROVE Covered(e)'
  BY <1>2 DEF Covered, Exact
<1> QED
  BY <1>1, <1>2 DEF Next, AddGrant, AddByHand, LoadGrants, ListFilters, CreateShard,
                    CreateUnanswered, DeleteGone, Succeed, Return, Abandon

LEMMA SoleInvariant ==
  ASSUME OneReconciler
  PROVE  Spec => [](PlansInv /\ SoleInv)
<1> DEFINE Inv == PlansInv /\ SoleInv
<1>1. Init => Inv
  <2>1. Init => SoleInv
    BY FS_EmptySet DEF Init, SoleInv, Exact
  <2> QED
    BY <2>1, InitEstablishesPlansInv
<1>2. Inv /\ [Next]_vars => Inv'
  BY PlansStep, SoleStep
<1> QED
  BY <1>1, <1>2, PTL DEF Spec

(* As long as runs are not made at the same time, a sender that has a      *)
(* filter keeps one, whatever fails and however many shards there are.     *)
THEOREM SoleCoverageNeverLost ==
  ASSUME OneReconciler
  PROVE  Spec => CoverageNeverLost
<1>1. PlansInv /\ SoleInv /\ [Next]_vars => [CoverageStep]_vars
  BY SoleCoverageInStep
<1> QED
  BY <1>1, SoleInvariant, PTL DEF Spec, CoverageNeverLost

(* As long as runs are not made at the same time, success means that every *)
(* grant the run was given has its filter, in whichever shard.             *)
THEOREM SoleSuccessCovers ==
  ASSUME OneReconciler
  PROVE  Spec => []ReconcileCovers
<1>1. PlansInv /\ SoleInv => ReconcileCovers
  BY DEF PlansInv, TypeOK, SoleInv, Secured, ReconcileCovers, Covered, Exact
<1> QED
  BY <1>1, SoleInvariant, PTL

-----------------------------------------------------------------------------
(* The promise of a run as a whole                                         *)

(* A run creates filters for its own grants, and for others only if they   *)
(* are covered anyhow; a run that has failed has no grants any more.       *)
OwnPlans ==
    \A p \in Reconcilers :
        /\ \A T \in toCreate[p] : \A e \in T : e \in group[p] \/ Covered(e)
        /\ pc[p] = "failed" => group[p] = {}

(* With nothing left to create a run has covered its grants.               *)
Created ==
    \A p \in Reconcilers :
        pc[p] = "applying" /\ toCreate[p] = {} => \A e \in group[p] : Covered(e)

LEMMA OwnPlansStep ==
  ASSUME PlansInv, OwnPlans, [Next]_vars, [CoverageStep]_vars
  PROVE  OwnPlans'
<1>0. ASSUME NEW q \in Reconcilers, pc'[q] = "failed"
      PROVE  group'[q] = {}
  BY <1>0 DEF Next, AddGrant, AddByHand, LoadGrants, ListFilters, CreateShard, CreateUnanswered,
              DeleteFilter, DeleteGone, Succeed, Return, Abandon, Forget, vars, PlansInv, TypeOK,
              OwnPlans
<1> SUFFICES ASSUME NEW q \in Reconcilers, NEW T \in toCreate'[q], NEW e \in T
             PROVE  e \in group'[q] \/ Covered(e)'
  BY <1>0 DEF OwnPlans
<1>1. ASSUME T \in toCreate[q], group'[q] = group[q]
      PROVE  e \in group'[q] \/ Covered(e)'
  <2>1. e \in Senders
    BY <1>1 DEF PlansInv, TypeOK
  <2>2. Covered(e) => Covered(e)'
    BY <2>1 DEF CoverageStep, Covered, vars
  <2> QED
    BY <1>1, <2>2 DEF OwnPlans
<1>2. ASSUME ListFilters(q)
      PROVE  e \in group'[q] \/ Covered(e)'
  <2> DEFINE wanted == group[q] \cup Terms(Exact(filters))
  <2>1. T \in Shards(wanted) /\ filters' = filters /\ group' = group
    BY <1>2 DEF ListFilters, Missing, Desired, PlansInv, TypeOK
  <2>2. e \in wanted
    <3> HIDE DEF wanted
    <3> QED
      BY <2>1, ShardsInSet
  <2> QED
    BY <2>1, <2>2 DEF Terms, Exact, Covered
<1>3. \/ T \in toCreate[q] /\ group'[q] = group[q]
      \/ ListFilters(q)
  BY DEF Next, AddGrant, AddByHand, LoadGrants, ListFilters, CreateShard, CreateUnanswered,
         DeleteFilter, DeleteGone, Succeed, Return, Abandon, Forget, vars, PlansInv, TypeOK
<1> QED
  BY <1>1, <1>2, <1>3

(* Each call of a run is a step of the promise, or none at all.            *)
LEMMA CoverageRefinementStep ==
  ASSUME PlansInv, OwnPlans, Created, [Next]_vars, [CoverageStep]_vars
  PROVE  [Coverage!Next]_Coverage!vars
<1> DEFINE covered == {e \in Senders : Covered(e)}
           stageOf(p) == CASE pc[p] \in {"loaded", "applying"} -> "running"
                           [] pc[p] = "done" -> "done"
                           [] OTHER -> "idle"
           stage == [p \in Reconcilers |-> stageOf(p)]
           Goal == [Coverage!Next]_Coverage!vars
<1>1. TypeOK
  BY DEF PlansInv
<1>2. covered \subseteq covered'
  BY DEF CoverageStep, Covered, vars
<1>3. ASSUME UNCHANGED pc PROVE stage' = stage
  BY <1>3
<1>4. ASSUME filters' \subseteq filters PROVE covered' = covered
  BY <1>2, <1>4 DEF Covered
<1>5. ASSUME UNCHANGED grants, UNCHANGED group, covered' = covered, stage' = stage
      PROVE  Goal
  BY <1>5 DEF Coverage!vars
<1>6. ASSUME NEW e \in Senders, AddGrant(e) PROVE Goal
  <2>1. covered' = covered /\ stage' = stage /\ group' = group /\ grants' = grants \cup {e}
    BY <1>3, <1>4, <1>6 DEF AddGrant
  <2>2. Coverage!AddGrant(e)
    BY <2>1 DEF Coverage!AddGrant
  <2> QED
    BY <2>2 DEF Coverage!Next
<1>7. ASSUME NEW i \in FilterIDs, NEW S \in SUBSET Senders, NEW exact \in BOOLEAN,
             AddByHand(i, S, exact)
      PROVE  Goal
  <2> DEFINE n == [id |-> i, terms |-> S, exact |-> exact]
             added == IF exact THEN S ELSE {}
  <2>1. filters' = filters \cup {n} /\ UNCHANGED <<grants, group, pc>>
    BY <1>7 DEF AddByHand
  <2>2. covered' = covered \cup added
    <3>1. n.exact = exact /\ n.terms = S
      OBVIOUS
    <3> HIDE DEF n
    <3>2. \A e : Covered(e)' <=> Covered(e) \/ (exact /\ e \in S)
      BY <2>1, <3>1 DEF Covered
    <3> QED
      BY <3>2
  <2>3. Coverage!CoverByHand(added)
    BY <1>3, <2>1, <2>2 DEF Coverage!CoverByHand
  <2> QED
    BY <2>3 DEF Coverage!Next
<1>8. ASSUME NEW p \in Reconcilers, LoadGrants(p) PROVE Goal
  <2>1. /\ stageOf(p) = "idle" /\ covered' = covered /\ grants' = grants
        /\ group' = [group EXCEPT ![p] = grants] /\ pc' = [pc EXCEPT ![p] = "loaded"]
    BY <1>4, <1>8 DEF LoadGrants
  <2>2. stage' = [stage EXCEPT ![p] = "running"]
    BY <1>1, <2>1 DEF TypeOK
  <2>3. Coverage!LoadGrants(p)
    BY <2>1, <2>2 DEF Coverage!LoadGrants
  <2> QED
    BY <2>3 DEF Coverage!Next
<1>9. ASSUME NEW p \in Reconcilers, ListFilters(p) PROVE Goal
  <2>1. pc[p] = "loaded" /\ pc' = [pc EXCEPT ![p] = "applying"]
    BY <1>9 DEF ListFilters
  <2>2. stage' = stage
    BY <1>1, <2>1 DEF TypeOK
  <2> QED
    BY <1>4, <1>5, <1>9, <2>2 DEF ListFilters
<1>10. ASSUME NEW p \in Reconcilers, NEW i \in FilterIDs, NEW T \in toCreate[p],
              filters' = filters \cup {[id |-> i, terms |-> T, exact |-> TRUE]}
       PROVE  \E S \in SUBSET group[p] : covered' = covered \cup S
  <2> DEFINE n == [id |-> i, terms |-> T, exact |-> TRUE]
  <2>1. T \subseteq Senders /\ T \cap group[p] \in SUBSET group[p]
    BY <1>1 DEF TypeOK
  <2>2. \A e \in Senders : Covered(e)' <=> Covered(e) \/ e \in T
    <3>1. n.exact /\ n.terms = T /\ filters' = filters \cup {n}
      BY <1>10
    <3> HIDE DEF n
    <3> QED
      BY <3>1 DEF Covered
  <2>3. covered' = covered \cup (T \cap group[p])
    BY <2>1, <2>2 DEF OwnPlans
  <2> QED
    BY <2>1, <2>3
<1>11. ASSUME NEW p \in Reconcilers, NEW i \in FilterIDs, CreateShard(p, i) PROVE Goal
  <2>1. \E S \in SUBSET group[p] : covered' = covered \cup S
    BY <1>10, <1>11 DEF CreateShard
  <2>2. stageOf(p) = "running" /\ UNCHANGED <<grants, group, pc>>
    BY <1>11 DEF CreateShard
  <2>3. Coverage!Cover(p)
    BY <1>3, <2>1, <2>2 DEF Coverage!Cover
  <2> QED
    BY <2>3 DEF Coverage!Next
<1>12. ASSUME NEW p \in Reconcilers, NEW i \in FilterIDs, DeleteFilter(p, i) PROVE Goal
  <2>1. UNCHANGED <<grants, group, pc>> /\ filters' \subseteq filters
    BY <1>12 DEF DeleteFilter
  <2> QED
    BY <1>3, <1>4, <1>5, <2>1
<1>13. ASSUME NEW p \in Reconcilers, Succeed(p) PROVE Goal
  <2>1. /\ stageOf(p) = "running" /\ covered' = covered /\ UNCHANGED <<grants, group>>
        /\ pc' = [pc EXCEPT ![p] = "done"]
    BY <1>4, <1>13 DEF Succeed
  <2>2. group[p] \subseteq covered
    BY <1>1, <1>13 DEF Succeed, Created, TypeOK
  <2>3. stage' = [stage EXCEPT ![p] = "done"]
    BY <1>1, <2>1 DEF TypeOK
  <2>4. Coverage!Succeed(p)
    BY <2>1, <2>2, <2>3 DEF Coverage!Succeed
  <2> QED
    BY <2>4 DEF Coverage!Next
<1>14. ASSUME NEW p \in Reconcilers, stageOf(p) # "idle", grants' = grants,
              Forget(p, "idle") \/ Forget(p, "failed"),
              \E S \in SUBSET group[p] : covered' = covered \cup S
       PROVE  Goal
  <2>1. stage' = [stage EXCEPT ![p] = "idle"]
    BY <1>1, <1>14 DEF Forget, TypeOK
  <2>2. group' = [group EXCEPT ![p] = {}]
    BY <1>14 DEF Forget
  <2>3. Coverage!End(p)
    BY <1>14, <2>1, <2>2 DEF Coverage!End
  <2> QED
    BY <2>3 DEF Coverage!Next
<1>15. ASSUME NEW p \in Reconcilers, NEW i \in FilterIDs, CreateUnanswered(p, i) PROVE Goal
  <2>1. \E S \in SUBSET group[p] : covered' = covered \cup S
    BY <1>10, <1>15 DEF CreateUnanswered
  <2>2. stageOf(p) # "idle" /\ grants' = grants /\ Forget(p, "failed")
    BY <1>15 DEF CreateUnanswered
  <2> QED
    BY <1>14, <2>1, <2>2
<1>16. ASSUME NEW p \in Reconcilers, Forget(p, "idle") \/ Forget(p, "failed"),
              pc[p] \in {"loaded", "applying", "done"}, UNCHANGED <<grants, filters>>
       PROVE  Goal
  <2>1. covered' = covered \cup {} /\ {} \in SUBSET group[p]
    BY <1>4, <1>16
  <2>2. stageOf(p) # "idle"
    BY <1>16
  <2> QED
    BY <1>14, <1>16, <2>1, <2>2
<1>17. ASSUME NEW p \in Reconcilers, Return(p) PROVE Goal
  <2>1. CASE pc[p] = "done"
    BY <1>16, <1>17, <2>1 DEF Return
  <2>2. CASE pc[p] = "failed"
    <3>1. stage' = stage
      BY <1>1, <1>17, <2>2 DEF Return, Forget, TypeOK
    <3>2. group' = group
      BY <1>1, <1>17, <2>2 DEF Return, Forget, TypeOK, OwnPlans
    <3> QED
      BY <1>4, <1>5, <1>17, <3>1, <3>2 DEF Return
  <2> QED
    BY <1>17, <2>1, <2>2 DEF Return
<1>18. ASSUME NEW p \in Reconcilers, Abandon(p) PROVE Goal
  BY <1>16, <1>18 DEF Abandon
<1>19. ASSUME NEW p \in Reconcilers, NEW i \in FilterIDs, DeleteGone(p, i) PROVE Goal
  BY <1>16, <1>19 DEF DeleteGone
<1>20. ASSUME UNCHANGED vars PROVE Goal
  BY <1>3, <1>4, <1>5, <1>20 DEF vars
<1>21. Goal
  <2> HIDE DEF Goal
  <2>1. ASSUME NEW i \in FilterIDs, NEW S \in (SUBSET Senders) \ {{}},
               NEW exact \in BOOLEAN, AddByHand(i, S, exact)
        PROVE  Goal
    BY <1>7, <2>1
  <2> QED
    BY <1>6, <1>8, <1>9, <1>11, <1>12, <1>13, <1>15, <1>17, <1>18, <1>19, <1>20, <2>1,
       Zenon DEF Next
<1> QED
  BY <1>21

(* All the calls of a run together, with the failures between them and     *)
(* other runs at the same time, do what SenderCoverage says of the run:    *)
(* the senders covered only grow, by senders the run was given, and it     *)
(* succeeds with all of them covered.                                      *)
THEOREM FiltersImplementCoverage ==
  ASSUME OneFilterFits \/ OneReconciler
  PROVE  Spec => RefinesCoverage
<1>1. Init => Coverage!Init /\ OwnPlans
  BY DEF Init, Coverage!Init, OwnPlans, Covered
<1>2. PlansInv /\ OwnPlans /\ [Next]_vars /\ [CoverageStep]_vars => OwnPlans'
  BY OwnPlansStep
<1>3. PlansInv /\ OwnPlans /\ Created /\ [Next]_vars /\ [CoverageStep]_vars
         => [Coverage!Next]_Coverage!vars
  BY CoverageRefinementStep
<1>4. Spec => [][CoverageStep]_vars
  BY OneShardCoverageNeverLost, SoleCoverageNeverLost, Zenon DEF CoverageNeverLost
<1>5. Spec => []Created
  <2>1. CASE OneFilterFits
    <3>1. PlansInv /\ ReplacementInv => Created
      BY DEF ReplacementInv, Created
    <3>2. PlansInv /\ ReplacementInv /\ [Next]_vars => (PlansInv /\ ReplacementInv)'
      BY <2>1, PlansStep, ReplacementStep
    <3> QED
      BY <3>1, <3>2, InitEstablishesPlansInv, PTL DEF Spec
  <2>2. CASE OneReconciler
    <3>1. PlansInv /\ SoleInv => Created
      BY DEF SoleInv, Secured, Created, Covered, Exact
    <3>2. Spec => [](PlansInv /\ SoleInv)
      BY <2>2, SoleInvariant
    <3> QED
      BY <3>1, <3>2, PTL
  <2> QED
    BY <2>1, <2>2
<1> QED
  BY <1>1, <1>2, <1>3, <1>4, <1>5, PlansInvariant, PTL DEF Spec, RefinesCoverage, Coverage!Spec
=============================================================================
