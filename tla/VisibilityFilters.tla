-------------------------- MODULE VisibilityFilters --------------------------
(***************************************************************************)
(* internal/gmail/gmail.go, reconcileVisibilityGroup: the Gmail filters    *)
(* that give one visibility label to the mail of every granted sender.     *)
(*                                                                         *)
(* A reconciler (a Discord approval, a CLI approval, "gmail reconcile")    *)
(* loads the grants, lists the mailbox's filters once, and from these two  *)
(* snapshots plans the filters to create and to delete; then it calls      *)
(* Gmail once per filter.  Nothing keeps two reconcilers, or a person in   *)
(* Gmail's settings, from working on the same filters meanwhile.           *)
(*                                                                         *)
(* Left out: the visibility labels of other groups, and the per-sender     *)
(* report of the run.                                                      *)
(***************************************************************************)
EXTENDS Integers, FiniteSets, FiniteSetsExt

CONSTANTS
    Senders,        \* addresses, as numbers: their order is the sort order
    MaxTerms,       \* maxExactSenderGroupTerms: most senders of a filter
    MaxLength,      \* maxExactSenderGroupLength: longest query of a filter
    TermLength,     \* of each sender: the length of its address
    FilterIDs,      \* ids Gmail gives out; their order is its list order
    Reconcilers,    \* runs of ReconcileGrants that may be active at once
    MaxByHand       \* bound: filters a person adds by hand

ASSUME SendersAssumption == Senders \subseteq Nat /\ IsFiniteSet(Senders)
ASSUME LimitsAssumption ==
    /\ MaxTerms \in Nat \ {0} /\ MaxLength \in Nat
    /\ TermLength \in [Senders -> Nat]
ASSUME FilterIDsAssumption == FilterIDs \subseteq Int
ASSUME MaxByHandAssumption == MaxByHand \in Nat

VARIABLES
    grants,     \* senders with an active grant
    filters,    \* filters in the mailbox that add the visibility label
    typed,      \* senders a person put into an exact-sender filter
    byHand,     \* filters a person has added so far
    pc, group, toCreate, toDelete    \* of each reconciler: its plan

vars == <<grants, filters, typed, byHand, pc, group, toCreate, toDelete>>

(* An "exact" filter is an OR of addresses and nothing else; any other     *)
(* criterion or action makes it one the manager must leave alone.          *)
Filters == [id : FilterIDs, terms : SUBSET Senders, exact : BOOLEAN]

AnyShape(fs) == fs

Exact(fs) == {f \in fs : f.exact}

Terms(fs) == UNION {f.terms : f \in fs}

Covered(e) == \E f \in filters : f.exact /\ e \in f.terms

-----------------------------------------------------------------------------
(* Planning                                                                *)

(* The query of a filter is its senders, joined by " OR ".                 *)
QueryLength(T) ==
    MapThenSumSet(LAMBDA e : TermLength[e], T) + 4 * (Cardinality(T) - 1)

Fits(T) == Cardinality(T) <= MaxTerms /\ QueryLength(T) <= MaxLength

(* c begins the shard that x of S is in.                                   *)
Begins(C, c, x) == c <= x /\ \A d \in C : d <= x => d <= c

CutLate(S, C) ==
    \A x \in S : x \in C <=>
        \A c \in C : c < x /\ Begins(C \ {x}, c, x)
            => ~Fits({y \in S : c <= y /\ y < x})

(* shardExactSenders goes through the sorted senders and begins a new      *)
(* shard whenever the shard at hand does not fit with the next one in it.  *)
GreedyCut(S, C) ==
    \A x \in S : x \in C <=>
        \A c \in C : c < x /\ Begins(C \ {x}, c, x)
            => ~Fits({y \in S : c <= y /\ y <= x})

Shards(S) ==
    LET C == CHOOSE C \in SUBSET S : GreedyCut(S, C)
    IN  {{x \in S : Begins(C, c, x)} : c \in C}

(* Nothing that is filtered today is dropped: the wanted senders are those *)
(* of the grants and of every exact filter in the list.                    *)
Desired(g, listed) == Shards(g \cup Terms(Exact(listed)))

Missing(desired, listed) == desired \ {f.terms : f \in Exact(listed)}

AllDuplicates(desired, listed) ==
    {f \in Exact(listed) :
        \/ f.terms \notin desired
        \/ \E g \in Exact(listed) : g.terms = f.terms /\ g.id # f.id}

ShapeOnly(desired, listed) == {f \in Exact(listed) : f.terms \notin desired}

(* Filters of another shape than wanted, and all but the first of each     *)
(* set of equal filters.                                                   *)
Superfluous(desired, listed) ==
    {f \in Exact(listed) :
        \/ f.terms \notin desired
        \/ \E g \in Exact(listed) : g.terms = f.terms /\ g.id < f.id}

(* Gmail never reuses an id; an id nobody remembers is as good as new.     *)
Fresh(i) ==
    /\ \A f \in filters : f.id # i
    /\ \A p \in Reconcilers : i \notin toDelete[p]

(* The shard that comes first in sort order.                               *)
First(shards, T) == \A U \in shards \ {T} : \E x \in T : \A y \in U : x < y

-----------------------------------------------------------------------------

Init ==
    /\ grants = {} /\ filters = {} /\ typed = {} /\ byHand = 0
    /\ pc = [p \in Reconcilers |-> "idle"]
    /\ group = [p \in Reconcilers |-> {}]
    /\ toCreate = [p \in Reconcilers |-> {}]
    /\ toDelete = [p \in Reconcilers |-> {}]

(* An approval commits a grant for one more sender.                        *)
AddGrant(e) ==
    /\ e \notin grants
    /\ grants' = grants \cup {e}
    /\ UNCHANGED <<filters, typed, byHand, pc, group, toCreate, toDelete>>

(* A person adds a filter with this label in Gmail's settings.             *)
AddByHand(i, S, exact) ==
    /\ byHand < MaxByHand
    /\ Fresh(i)
    /\ filters' = filters \cup {[id |-> i, terms |-> S, exact |-> exact]}
    /\ typed' = IF exact THEN typed \cup S ELSE typed
    /\ byHand' = byHand + 1
    /\ UNCHANGED <<grants, pc, group, toCreate, toDelete>>

(* ListGrants; with no grant ReconcileGrants returns at once.              *)
LoadGrants(p) ==
    /\ pc[p] = "idle"
    /\ grants # {}
    /\ pc' = [pc EXCEPT ![p] = "loaded"]
    /\ group' = [group EXCEPT ![p] = grants]
    /\ UNCHANGED <<grants, filters, typed, byHand, toCreate, toDelete>>

(* ListFilters, and all that reconcileVisibilityGroup derives from it.     *)
ListFilters(p) ==
    /\ pc[p] = "loaded"
    /\ pc' = [pc EXCEPT ![p] = "applying"]
    /\ LET desired == Desired(group[p], filters)
       IN  /\ toCreate' = [toCreate EXCEPT ![p] = Missing(desired, filters)]
           /\ toDelete' = [toDelete EXCEPT ![p] =
                              {f.id : f \in Superfluous(desired, filters)}]
    /\ UNCHANGED <<grants, filters, typed, byHand, group>>

(* CreateManagedVisibilityGroupFilter, shard after shard.                  *)
CreateShard(p, i) ==
    /\ pc[p] = "applying"
    /\ Fresh(i)
    /\ \E T \in toCreate[p] :
          /\ First(toCreate[p], T)
          /\ filters' = filters \cup {[id |-> i, terms |-> T, exact |-> TRUE]}
          /\ toCreate' = [toCreate EXCEPT ![p] = @ \ {T}]
    /\ UNCHANGED <<grants, typed, byHand, pc, group, toDelete>>

DeleteEarly(p, i) ==
    /\ pc[p] = "applying"
    /\ i \in toDelete[p]
    /\ \E f \in filters : f.id = i
    /\ filters' = {f \in filters : f.id # i}
    /\ toDelete' = [toDelete EXCEPT ![p] = @ \ {i}]
    /\ UNCHANGED <<grants, typed, byHand, pc, group, toCreate>>

(* DeleteFilter, once everything wanted has been created.  The ids are     *)
(* sorted as strings: any order, as far as the senders are concerned.      *)
DeleteFilter(p, i) ==
    /\ pc[p] = "applying"
    /\ toCreate[p] = {}
    /\ i \in toDelete[p]
    /\ \E f \in filters : f.id = i
    /\ filters' = {f \in filters : f.id # i}
    /\ toDelete' = [toDelete EXCEPT ![p] = @ \ {i}]
    /\ UNCHANGED <<grants, typed, byHand, pc, group, toCreate>>

ForgetGroup(p, next) ==
    /\ pc' = [pc EXCEPT ![p] = next]
    /\ group' = [group EXCEPT ![p] = {}]
    /\ UNCHANGED <<toCreate, toDelete>>

(* The run is over; its plan is forgotten.                                 *)
Forget(p, next) ==
    /\ pc' = [pc EXCEPT ![p] = next]
    /\ group' = [group EXCEPT ![p] = {}]
    /\ toCreate' = [toCreate EXCEPT ![p] = {}]
    /\ toDelete' = [toDelete EXCEPT ![p] = {}]

(* Somebody else has deleted the filter: Gmail answers 404, and the run    *)
(* ends with an error.                                                     *)
DeleteGone(p, i) ==
    /\ pc[p] = "applying"
    /\ toCreate[p] = {}
    /\ i \in toDelete[p]
    /\ \A f \in filters : f.id # i
    /\ Forget(p, "idle")
    /\ UNCHANGED <<grants, filters, typed, byHand>>

Succeed(p) ==
    /\ pc[p] = "applying"
    /\ toCreate[p] = {} /\ toDelete[p] = {}
    /\ pc' = [pc EXCEPT ![p] = "done"]
    /\ UNCHANGED <<grants, filters, typed, byHand, group, toCreate, toDelete>>

(* The caller has the result, or has noticed the failure.                  *)
Return(p) ==
    /\ pc[p] \in {"done", "failed"}
    /\ Forget(p, "idle")
    /\ UNCHANGED <<grants, filters, typed, byHand>>

(* A Gmail call fails, the context expires, the process dies, or the run   *)
(* was a dry run: the plan is dropped where it stands.                     *)
Abandon(p) ==
    /\ pc[p] \in {"loaded", "applying"}
    /\ Forget(p, "failed")
    /\ UNCHANGED <<grants, filters, typed, byHand>>

(* Gmail creates the filter but the answer is lost.                        *)
CreateUnanswered(p, i) ==
    /\ pc[p] = "applying"
    /\ Fresh(i)
    /\ \E T \in toCreate[p] :
          /\ First(toCreate[p], T)
          /\ filters' = filters \cup {[id |-> i, terms |-> T, exact |-> TRUE]}
    /\ Forget(p, "failed")
    /\ UNCHANGED <<grants, typed, byHand>>

Next ==
    \/ \E e \in Senders : AddGrant(e)
    \/ \E i \in FilterIDs, S \in (SUBSET Senders) \ {{}}, exact \in BOOLEAN :
          AddByHand(i, S, exact)
    \/ \E p \in Reconcilers :
          \/ LoadGrants(p) \/ ListFilters(p) \/ Succeed(p) \/ Return(p) \/ Abandon(p)
          \/ \E i \in FilterIDs :
                \/ CreateShard(p, i) \/ CreateUnanswered(p, i)
                \/ DeleteFilter(p, i) \/ DeleteGone(p, i)

Spec == Init /\ [][Next]_vars

(* The manager is run again until it succeeds, and no Gmail call fails for *)
(* ever: a run that keeps getting the chance to go on does go on.          *)
Fairness ==
    \A p \in Reconcilers :
        /\ SF_vars(LoadGrants(p)) /\ SF_vars(ListFilters(p))
        /\ SF_vars(\E i \in FilterIDs : CreateShard(p, i))
        /\ SF_vars(\E i \in FilterIDs : DeleteFilter(p, i))
        /\ SF_vars(\E i \in FilterIDs : DeleteGone(p, i))
        /\ SF_vars(Succeed(p)) /\ SF_vars(Return(p))

FairSpec == Spec /\ Fairness

(* One more step of a run that no failure interrupts.                      *)
GoOn(p) ==
    \/ LoadGrants(p) \/ ListFilters(p) \/ Succeed(p) \/ Return(p)
    \/ \E i \in FilterIDs : CreateShard(p, i) \/ DeleteFilter(p, i) \/ DeleteGone(p, i)

Failure(p) == Abandon(p) \/ \E i \in FilterIDs : CreateUnanswered(p, i)

(* Runs are repeated, and from some time on no Gmail call fails.           *)
Calm ==
    /\ \A p \in Reconcilers : WF_vars(GoOn(p))
    /\ <>[][\A p \in Reconcilers : ~Failure(p)]_vars

-----------------------------------------------------------------------------
(* Properties                                                              *)

(* Filters have distinct ids; a run that has not listed the filters has    *)
(* no plan.                                                                *)
TypeOK ==
    /\ grants \subseteq Senders /\ typed \subseteq Senders
    /\ byHand \in 0..MaxByHand
    /\ filters \subseteq Filters
    /\ \A f, g \in filters : f.id = g.id => f = g
    /\ pc \in [Reconcilers -> {"idle", "loaded", "applying", "done", "failed"}]
    /\ group \in [Reconcilers -> SUBSET Senders]
    /\ toCreate \in [Reconcilers -> SUBSET SUBSET Senders]
    /\ toDelete \in [Reconcilers -> SUBSET FilterIDs]
    /\ \A p \in Reconcilers :
          pc[p] # "applying" => toCreate[p] = {} /\ toDelete[p] = {}

(* No step, of whichever reconciler and with however stale a plan, leaves  *)
(* a sender without a filter that had one.                                 *)
CoverageStep == \A e \in Senders : Covered(e) => Covered(e)'

CoverageNeverLost == [][CoverageStep]_vars

(* A filter that does more than match addresses is never deleted.          *)
HandMadeStep == \A f \in filters : ~f.exact => f \in filters'

HandMadeKept == [][HandMadeStep]_vars

(* The manager filters no sender that neither a grant nor a person's own   *)
(* address filter names.                                                   *)
NoOverreach == Terms(Exact(filters)) \subseteq grants \cup typed

(* When ReconcileGrants reports success, every grant it was given has its  *)
(* filter, whatever other runs did meanwhile.                              *)
ReconcileCovers ==
    \A p \in Reconcilers : pc[p] = "done" => \A e \in group[p] : Covered(e)

(* Exactly one filter per wanted shard.                                    *)
Canonical ==
    /\ {f.terms : f \in Exact(filters)} = Shards(grants \cup typed)
    /\ \A f, g \in Exact(filters) : f.terms = g.terms => f = g

(* No filter is planned beyond the limits, except for one address that is  *)
(* too long by itself, and no sender is planned for twice.                 *)
PlansFit ==
    \A p \in Reconcilers : \A T \in toCreate[p] :
        /\ Fits(T) \/ Cardinality(T) = 1
        /\ \A U \in toCreate[p] \ {T} : T \cap U = {}

(* All the calls of a run together keep the promise that the approval      *)
(* workflow relies on: the senders covered grow, by none but those a run   *)
(* was given, and it succeeds with all of them covered.                    *)
Coverage == INSTANCE SenderCoverage WITH
    Runs <- Reconcilers,
    covered <- {e \in Senders : Covered(e)},
    stage <- [p \in Reconcilers |->
                 CASE pc[p] \in {"loaded", "applying"} -> "running"
                   [] pc[p] = "done" -> "done"
                   [] OTHER -> "idle"]

RefinesCoverage == Coverage!Spec

(* Partial failures, lost answers and duplicates of racing runs are all    *)
(* repaired: in the end the mailbox has the canonical filters and keeps    *)
(* them.                                                                   *)
Convergence == (grants # {}) ~> []Canonical

(* Even two runs that keep interfering with each other end up with the     *)
(* canonical filters, once Gmail's calls no longer fail.                   *)
RacesSettle == Calm => Convergence
=============================================================================
