---------------------------- MODULE ManagerProofs ----------------------------
(***************************************************************************)
(* What holds of the approval workflow for any number of requests,         *)
(* senders, labels, messages and processes.  Two invariants, proved one    *)
(* after the other:                                                        *)
(*                                                                         *)
(*   ApprovedInv  whatever a grant, a run, a filter or a message holds     *)
(*                comes from an approved request of its sender;            *)
(*   EnforcedInv  what a run has reached is filtered and its old mail      *)
(*                labelled, and a run marks only what it has reached.      *)
(*                                                                         *)
(* No lock keeps runs apart.  What makes them safe is that no step takes   *)
(* anything back (Grows): decisions and labels stay, filters do while      *)
(* coverage is kept (which only EnforcedInv relies on), and a grant        *)
(* only gives way to a request that has just been approved.  So each run   *)
(* keeps what it relies on while the others move.                          *)
(***************************************************************************)
EXTENDS Manager, WellFoundedInduction, TLAPS

(* The request has been approved.                                          *)
Decided(r) == status[r] \in {"approved", "applied"}

(* An approved request of the sender asks for the label, and the policy    *)
(* lets it through.                                                        *)
Justified(e, l) ==
    \E r \in Requests :
        /\ Decided(r) /\ EmailOf[r] = e
        /\ l \in FilterLabels(r) /\ l \in Allowed \cup {Visibility}

(* Grants, stored or loaded, come from approved requests of their sender.  *)
Agrees(g) ==
    \A e \in Emails : g[e] # NoRequest => Decided(g[e]) /\ EmailOf[g[e]] = e

Running == {"loading", "reading", "listing", "grouping",
            "enforcing", "backfilling", "marking"}

(* Stages with an address at hand.                                         *)
HasAddress(j) ==
    \/ j.at \in {"reading", "enforcing", "backfilling"}
    \/ j.at = "marking" /\ j.kind = "reconcile"

(* What a run may rely on at each stage.                                   *)
Sound(j) ==
    /\ Agrees(j.snap)
    /\ j.at = "reading" => j.kind = "reconcile"
    /\ j.kind = "approve" =>
          j.req \in Requests /\ Decided(j.req) /\ j.full = {EmailOf[j.req]}
    /\ j.at = "loading" => j.snap = NoGrants
    /\ j.at \in {"listing", "grouping"} => Granted(j.snap) # {}
    /\ j.at \in {"loading", "reading", "listing", "grouping"} => j.made = {}
    /\ HasAddress(j) => j.todo # {} /\ j.todo \subseteq Granted(j.snap)
    /\ j.at \in {"enforcing", "backfilling"} => j.made \subseteq LabelsOf[j.snap[First(j.todo)]]
    /\ j.at = "backfilling" =>
          \A m \in j.found : mail[m] # NoMail /\ mail[m].from = First(j.todo)

(* The inductive invariant behind the types and OnlyApprovedLabels.        *)
ApprovedInv ==
    /\ TypeOK
    /\ \A r \in Requests :
          status[r] \in {"pending", "approved", "applied"} => LabelsOf[r] \subseteq Allowed
    /\ Agrees(grant)
    /\ \A f \in filters : Justified(f[1], f[2])
    /\ \A m \in Messages : mail[m] # NoMail =>
          \A l \in mail[m].labels : Justified(mail[m].from, l)
    /\ \A p \in Processes : Sound(job[p])

-----------------------------------------------------------------------------

(* All the labels of request r are filtered for an address, by filters F;  *)
(* and its messages in mail M, but those in S, carry them.                 *)
Filtered(F, e, r) == \A l \in FilterLabels(r) : <<e, l>> \in F

LabelledBut(M, e, r, S) ==
    \A m \in Messages \ S : M[m] # NoMail /\ M[m].from = e =>
        FilterLabels(r) \subseteq M[m].labels

(* Addresses the run is through with.                                      *)
Reached(j) ==
    CASE j.at = "marking" -> Granted(j.snap)
      [] j.at \in {"enforcing", "backfilling"} -> Granted(j.snap) \ j.todo
      [] OTHER -> {}

(* What a run has done, at each stage, with filters F and mail M: old mail *)
(* of the addresses in full carries all labels once they are reached.      *)
Progress(F, M, j) ==
    /\ j.at \in {"grouping", "enforcing", "backfilling"} => j.listed \subseteq F
    /\ j.at \in {"enforcing", "backfilling"} =>
          /\ \A e \in j.todo : <<e, Visibility>> \in F
          /\ \A l \in j.made : <<First(j.todo), l>> \in F
    /\ j.at = "backfilling" =>
          LET e == First(j.todo)
          IN  /\ Filtered(F, e, j.snap[e])
              /\ e \in j.full => LabelledBut(M, e, j.snap[e], j.found)
    /\ \A e \in Reached(j) :
          /\ Filtered(F, e, j.snap[e])
          /\ e \in j.full => LabelledBut(M, e, j.snap[e], {})

(* Addresses whose requests the run has looked at.                         *)
Looked(j) ==
    CASE j.at = "loading" -> {}
      [] j.at = "reading" -> Granted(j.snap) \ j.todo
      [] OTHER -> Granted(j.snap)

(* Old mail is left out only where an earlier run has finished, and an     *)
(* approval that has been overtaken does not govern any more.              *)
Thorough(j) ==
    /\ j.kind = "approve" /\ j.at \in Running \ {"loading"} =>
          (grant[EmailOf[j.req]] = j.req => j.snap[EmailOf[j.req]] = j.req)
    /\ j.kind = "reconcile" /\ j.at \in Running =>
          /\ j.at = "loading" => j.full \in {{}, Emails}
          /\ \A e \in Looked(j) : e \in j.full \/ status[j.snap[e]] = "applied"

(* The inductive invariant behind CurrentGrantEnforced.                    *)
EnforcedInv ==
    /\ CoverageKept
    /\ \A p \in Processes : gmail[p]
    /\ CurrentGrantEnforced
    /\ \A p \in Processes : Progress(filters, mail, job[p]) /\ Thorough(job[p])

-----------------------------------------------------------------------------

(* A set of addresses has a first one.                                     *)
LEMMA Least ==
    ASSUME NEW S \in SUBSET Nat, S # {}
    PROVE  \E m \in S : \A x \in S : m <= x
<1> DEFINE R == OpToRel(<, Nat)
<1>1. IsWellFoundedOn(R, Nat)
  BY NatLessThanWellFounded
<1>2. PICK m \in S : \A x \in S : ~(<<x, m>> \in R)
  <2> HIDE DEF R
  <2> QED
    BY <1>1, WFMin
<1>3. \A x \in S : ~(x < m)
  BY <1>2 DEF OpToRel
<1> QED
  BY <1>3

LEMMA FirstIsMember ==
    ASSUME NEW S \in SUBSET Emails, S # {}
    PROVE  First(S) \in S
BY Least, EmailsAssumption DEF First

(* What no step takes back.                                                *)
Grows ==
    /\ \A r \in Requests : Decided(r) => Decided(r)'
    /\ \A r \in Requests : status[r] = "applied" => status'[r] = "applied"
    /\ \A e \in Emails : grant'[e] = grant[e] \/ ~Decided(grant'[e])
    /\ CoverageKept => filters \subseteq filters'
    /\ \A m \in Messages : mail[m] # NoMail =>
          /\ mail'[m] # NoMail /\ mail'[m].from = mail[m].from
          /\ mail[m].labels \subseteq mail'[m].labels
    /\ \A m \in Messages, l \in Labels :
          mail[m] = NoMail /\ mail'[m] # NoMail /\ <<mail'[m].from, l>> \in filters
             => l \in mail'[m].labels

LEMMA Quiet == UNCHANGED <<status, grant, filters, mail>> => Grows
BY DEF Grows, Decided

LEMMA JustifiedKept ==
    ASSUME Grows, NEW e, NEW l, Justified(e, l) PROVE Justified(e, l)'
BY DEF Grows, Justified

(* What a run relies on survives the steps of the others.                  *)
LEMMA SoundKept ==
    ASSUME Grows, TypeOK, NEW p \in Processes, job'[p] = job[p], Sound(job[p])
    PROVE  Sound(job[p])'
<1> DEFINE j == job[p]
<1>1. j \in Jobs BY DEF TypeOK
<1>2. Agrees(j.snap)' BY <1>1 DEF Sound, Agrees, Grows, Jobs
<1> QED BY <1>1, <1>2 DEF Sound, Grows, Jobs, HasAddress, Agrees

LEMMA ArriveGrows ==
    ASSUME TypeOK, NEW m \in Messages, NEW e \in Emails, Arrive(m, e)
    PROVE  Grows
BY SentinelAssumption DEF Arrive, Grows, TypeOK, Mails, Decided

(* The labels the address at hand is to get are labels of its grant.       *)
LEMMA BackfillLabels ==
    ASSUME TypeOK, NEW p \in Processes, Sound(job[p]),
           job[p].at \in {"enforcing", "backfilling"}
    PROVE  LET j == job[p]
               e == First(j.todo)
           IN  /\ e \in j.todo /\ e \in Emails /\ j.snap[e] \in Requests
               /\ Decided(j.snap[e]) /\ EmailOf[j.snap[e]] = e
               /\ Backfill(j) \subseteq FilterLabels(j.snap[e])
               /\ FilterLabels(j.snap[e]) \subseteq Labels
<1> DEFINE j == job[p]
           e == First(j.todo)
<1>1. j \in Jobs /\ j.todo \in SUBSET Emails /\ j.todo # {} /\ j.todo \subseteq Granted(j.snap)
  BY DEF TypeOK, Sound, HasAddress, Jobs
<1>2. e \in j.todo BY <1>1, FirstIsMember
<1>3. e \in Emails /\ j.snap[e] # NoRequest BY <1>1, <1>2 DEF Granted
<1>4. j.snap[e] \in Requests BY <1>1, <1>3 DEF Jobs
<1>5. Decided(j.snap[e]) /\ EmailOf[j.snap[e]] = e BY <1>3 DEF Sound, Agrees
<1>6. j.made \subseteq LabelsOf[j.snap[e]] BY DEF Sound
<1>7. Backfill(j) \subseteq FilterLabels(j.snap[e]) BY <1>6 DEF Backfill, FilterLabels
<1>8. FilterLabels(j.snap[e]) \subseteq Labels BY <1>4, AsksAssumption DEF FilterLabels
<1> QED BY <1>2, <1>3, <1>4, <1>5, <1>7, <1>8

(* A batch only adds labels, and only to messages.                         *)
LEMMA ModifyGrows ==
    ASSUME TypeOK, NEW p \in Processes, Sound(job[p]), ModifyBatch(p)
    PROVE  Grows /\ mail' \in [Messages -> Mails \cup {NoMail}]
<1> DEFINE L == Backfill(job[p])
<1>1. PICK batch \in SUBSET job[p].found :
          mail' = [n \in Messages |->
                     IF n \in batch THEN [mail[n] EXCEPT !.labels = @ \cup L] ELSE mail[n]]
  BY DEF ModifyBatch
<1>2. \A n \in batch : mail[n] # NoMail /\ mail[n] \in Mails
  BY DEF ModifyBatch, Sound, TypeOK, Jobs
<1>3. L \subseteq Labels
  BY BackfillLabels DEF ModifyBatch
<1> HIDE DEF L
<1>4. \A n \in batch : [mail[n] EXCEPT !.labels = @ \cup L] \in Mails
  BY <1>2, <1>3 DEF Mails
<1>5. \A n \in Messages : mail[n] # NoMail =>
          /\ mail'[n] # NoMail /\ mail'[n].from = mail[n].from
          /\ mail[n].labels \subseteq mail'[n].labels
  BY <1>1, <1>2, <1>4, SentinelAssumption DEF Mails
<1>6. \A n \in Messages : mail[n] = NoMail => mail'[n] = NoMail
  BY <1>1, <1>2
<1>7. mail' \in [Messages -> Mails \cup {NoMail}]
  BY <1>1, <1>4 DEF TypeOK
<1> QED BY <1>5, <1>6, <1>7 DEF Grows, ModifyBatch, Decided

-----------------------------------------------------------------------------

(* When p moves, all runs are sound if that of p is.                       *)
LEMMA OthersSound ==
    ASSUME ApprovedInv, Grows, NEW p \in Processes,
           \A q \in Processes \ {p} : job'[q] = job[q], Sound(job[p])'
    PROVE  \A q \in Processes : Sound(job[q])'
<1> SUFFICES ASSUME NEW q \in Processes PROVE Sound(job[q])'
  OBVIOUS
<1>1. CASE q = p BY <1>1
<1>2. CASE q # p BY <1>2, SoundKept DEF ApprovedInv
<1> QED BY <1>1, <1>2

(* A step of one process alone, which changes nothing it shares.           *)
LEMMA PrivateStep ==
    ASSUME ApprovedInv, NEW p \in Processes,
           UNCHANGED <<gmail, known, status, grant, filters, mail>>,
           job' = [job EXCEPT ![p] = job'[p]],
           job'[p] \in Jobs, job'[p].at = "idle" => job'[p] = Idle,
           Sound(job[p])'
    PROVE  ApprovedInv'
<1>1. Grows BY Quiet
<1>2. \A q \in Processes \ {p} : job'[q] = job[q] BY DEF ApprovedInv, TypeOK
<1>3. TypeOK' BY <1>2 DEF ApprovedInv, TypeOK
<1>4. \A q \in Processes : Sound(job[q])' BY <1>1, <1>2, OthersSound
<1> QED BY <1>3, <1>4 DEF ApprovedInv, Agrees, Decided, Justified

(* A process that is idle or has failed relies on nothing.                 *)
LEMMA Rest ==
    /\ Idle \in Jobs /\ [Idle EXCEPT !.at = "failed"] \in Jobs
    /\ Agrees(NoGrants)
    /\ Sound(Idle) /\ Sound([Idle EXCEPT !.at = "failed"])
<1>1. Idle \in Jobs /\ [Idle EXCEPT !.at = "failed"] \in Jobs
  BY AsksAssumption DEF Idle, Jobs, NoGrants
<1>2. Agrees(NoGrants) BY DEF Agrees, NoGrants
<1> QED BY <1>1, <1>2 DEF Sound, Idle, HasAddress, Running

(* Each step keeps the invariant, first those a process takes alone.       *)
LEMMA StopStep ==
    ASSUME ApprovedInv, NEW p \in Processes,
           LabelMissing(p) \/ Fail(p) \/ Restart(p)
    PROVE  ApprovedInv'
<1>1. /\ job' = [job EXCEPT ![p] = job'[p]]
      /\ job'[p] \in {Idle, [Idle EXCEPT !.at = "failed"]}
      /\ UNCHANGED <<gmail, known, status, grant, filters, mail>>
  BY DEF LabelMissing, Fail, Restart, ApprovedInv, TypeOK
<1>2. Agrees(NoGrants)' BY DEF Agrees, NoGrants
<1>3. Sound(job[p])' BY <1>1, <1>2 DEF Sound, Idle, HasAddress, Running
<1> QED BY <1>1, <1>3, Rest, PrivateStep DEF Idle

LEMMA ReconcileStep ==
    ASSUME ApprovedInv, NEW p \in Processes, NEW historical \in BOOLEAN,
           ReconcileAll(p, historical)
    PROVE  ApprovedInv'
<1>1. /\ job' = [job EXCEPT ![p] = job'[p]]
      /\ job'[p] = [Idle EXCEPT !.at = "loading", !.kind = "reconcile",
                               !.full = IF historical THEN Emails ELSE {}]
      /\ UNCHANGED <<gmail, known, status, grant, filters, mail>>
  BY DEF ReconcileAll, ApprovedInv, TypeOK
<1>2. Agrees(NoGrants)' BY DEF Agrees, NoGrants
<1>3. job'[p] \in Jobs BY <1>1, Rest DEF Jobs, Idle
<1>4. job'[p].at = "loading" /\ job'[p].kind = "reconcile" /\ job'[p].snap = NoGrants
      /\ job'[p].made = {}
  BY <1>1 DEF Idle
<1>5. Sound(job[p])' BY <1>2, <1>4 DEF Sound, HasAddress, Running
<1> QED BY <1>1, <1>3, <1>4, <1>5, PrivateStep

LEMMA LoadStep ==
    ASSUME ApprovedInv, NEW p \in Processes, LoadGrants(p) PROVE ApprovedInv'
<1> DEFINE j == job[p]
           k == job'[p]
<1>1. /\ job' = [job EXCEPT ![p] = k]
      /\ UNCHANGED <<gmail, known, status, grant, filters, mail>>
      /\ j \in Jobs /\ j.at = "loading" /\ Sound(j)
      /\ grant \in [Emails -> Requests \cup {NoRequest}]
  BY DEF LoadGrants, ApprovedInv, TypeOK
<1>2. CASE grant = NoGrants
  <2>1. k = Idle BY <1>2 DEF LoadGrants, ApprovedInv, TypeOK
  <2>2. Agrees(NoGrants)' BY DEF Agrees, NoGrants
  <2>3. Sound(job[p])' BY <2>1, <2>2 DEF Sound, Idle, HasAddress, Running
  <2> QED BY <1>1, <2>1, <2>3, Rest, PrivateStep
<1>3. CASE grant # NoGrants
  <2>1. /\ k \in Jobs /\ k.snap = grant /\ k.kind = j.kind /\ k.req = j.req /\ k.full = j.full
        /\ k.made = j.made
        /\ \/ k.at = "reading" /\ k.kind = "reconcile" /\ k.todo = Granted(grant)
           \/ k.at = "listing"
    BY <1>1, <1>3 DEF LoadGrants, ApprovedInv, TypeOK, Jobs, Granted
  <2>2. Granted(grant) # {} BY <1>1, <1>3 DEF NoGrants, Granted
  <2>3. Agrees(job[p].snap)' BY <1>1, <2>1 DEF ApprovedInv, Agrees, Decided
  <2>4. Sound(job[p])'
    BY <1>1, <2>1, <2>2, <2>3 DEF Sound, HasAddress, Running, Decided, Granted
  <2> QED BY <1>1, <2>1, <2>4, PrivateStep
<1> QED BY <1>2, <1>3

LEMMA ReadStep ==
    ASSUME ApprovedInv, NEW p \in Processes, ReadStatus(p) PROVE ApprovedInv'
<1> DEFINE j == job[p]
           e == First(j.todo)
           at == IF j.todo = {e} THEN "listing" ELSE "reading"
           full == IF status[j.snap[e]] = "approved" THEN j.full \cup {e} ELSE j.full
<1>1. /\ job' = [job EXCEPT ![p] = job'[p]]
      /\ UNCHANGED <<gmail, known, status, grant, filters, mail>>
      /\ j \in Jobs /\ j.at = "reading" /\ Sound(j)
      /\ job'[p] = [j EXCEPT !.at = at, !.todo = j.todo \ {e}, !.full = full]
  BY DEF ReadStatus, ApprovedInv, TypeOK
<1>2. j.todo # {} /\ j.todo \subseteq Granted(j.snap) /\ j.todo \in SUBSET Emails
  BY <1>1 DEF Sound, HasAddress, Jobs
<1>3. e \in j.todo /\ e \in Emails BY <1>2, FirstIsMember
<1>4. at \in {"listing", "reading"} /\ full \in SUBSET Emails
      /\ (at = "reading" => j.todo # {e})
  BY <1>1, <1>3 DEF Jobs
<1> HIDE DEF e, at, full
<1>5. /\ job'[p].at = at /\ job'[p].todo = j.todo \ {e} /\ job'[p].full = full
      /\ job'[p].snap = j.snap /\ job'[p].kind = j.kind /\ job'[p].made = j.made
      /\ job'[p] \in Jobs
  <2> DEFINE left == j.todo \ {e}
  <2>1. left \in SUBSET Emails BY <1>1 DEF Jobs
  <2>2. job'[p] = [j EXCEPT !.at = at, !.todo = left, !.full = full] BY <1>1
  <2> HIDE DEF left
  <2>3. job'[p] \in Jobs BY <1>1, <1>4, <2>1, <2>2 DEF Jobs
  <2> QED BY <1>1, <2>2, <2>3 DEF Jobs, left
<1>6. j.kind = "reconcile" BY <1>1 DEF Sound
<1>7. Agrees(job[p].snap)' BY <1>1, <1>5 DEF Sound, Agrees, Decided
<1>8. Sound(job[p])'
  BY <1>1, <1>2, <1>3, <1>5, <1>6, <1>7, <1>4 DEF Sound, HasAddress, Granted
<1> QED BY <1>1, <1>5, <1>8, <1>4, PrivateStep

LEMMA ListStep ==
    ASSUME ApprovedInv, NEW p \in Processes, ListFilters(p) PROVE ApprovedInv'
<1> DEFINE j == job[p]
<1>1. /\ job' = [job EXCEPT ![p] = job'[p]]
      /\ UNCHANGED <<gmail, known, status, grant, filters, mail>>
      /\ j \in Jobs /\ j.at = "listing" /\ Sound(j)
      /\ job'[p] = [j EXCEPT !.at = "grouping", !.listed = filters]
      /\ filters \in SUBSET (Emails \X Labels)
  BY DEF ListFilters, ApprovedInv, TypeOK
<1>2. /\ job'[p].at = "grouping" /\ job'[p].snap = j.snap /\ job'[p].kind = j.kind
      /\ job'[p].req = j.req /\ job'[p].full = j.full /\ job'[p].made = j.made
      /\ job'[p] \in Jobs
  BY <1>1 DEF Jobs
<1>3. Agrees(job[p].snap)' BY <1>1, <1>2 DEF Sound, Agrees, Decided
<1>4. Sound(job[p])' BY <1>1, <1>2, <1>3 DEF Sound, HasAddress, Decided, Granted
<1> QED BY <1>1, <1>2, <1>4, PrivateStep

(* Going on to the next address keeps what a run relies on.                *)
LEMMA NextGrantSound ==
    ASSUME NEW j \in Jobs, Sound(j), j.at \in {"enforcing", "backfilling"}
    PROVE  /\ NextGrant(j) \in Jobs /\ Sound(NextGrant(j))
           /\ NextGrant(j).at \in {"enforcing", "marking"}
<1> DEFINE left == j.todo \ {First(j.todo)}
           k == NextGrant(j)
<1>1. j.todo \subseteq Granted(j.snap) /\ Granted(j.snap) \in SUBSET Emails
      /\ j.todo # {}
  BY DEF Sound, HasAddress, Granted
<1>2. left \in SUBSET Emails /\ left \subseteq Granted(j.snap) BY <1>1 DEF Jobs
<1>3. CASE left # {}
  <2>1. k = [j EXCEPT !.at = "enforcing", !.todo = left, !.made = {}] BY <1>3 DEF NextGrant
  <2> HIDE DEF left, k
  <2>2. /\ k.at = "enforcing" /\ k.snap = j.snap /\ k.kind = j.kind
        /\ k.req = j.req /\ k.full = j.full /\ k.todo = left /\ k.made = {} /\ k \in Jobs
    BY <1>1, <1>2, <2>1 DEF Jobs
  <2>3. Sound(k) BY <1>2, <1>3, <2>2 DEF Sound, HasAddress
  <2> QED BY <2>2, <2>3 DEF k
<1>4. CASE left = {}
  <2>1. k = [j EXCEPT !.at = "marking", !.todo = Granted(j.snap), !.made = {}]
    BY <1>4 DEF NextGrant
  <2> HIDE DEF left, k
  <2>2. /\ k.at = "marking" /\ k.snap = j.snap /\ k.kind = j.kind
        /\ k.req = j.req /\ k.full = j.full /\ k.todo = Granted(j.snap) /\ k \in Jobs
    BY <1>1, <2>1 DEF Jobs
  <2>3. Sound(k) BY <1>1, <2>2 DEF Sound, HasAddress
  <2> QED BY <2>2, <2>3 DEF k
<1> QED BY <1>3, <1>4

LEMMA SearchStep ==
    ASSUME ApprovedInv, NEW p \in Processes, ListMessages(p) PROVE ApprovedInv'
<1> DEFINE j == job[p]
           matched == {m \in Messages : mail[m] # NoMail /\ mail[m].from = First(j.todo)}
<1>1. /\ job' = [job EXCEPT ![p] = job'[p]]
      /\ UNCHANGED <<gmail, known, status, grant, filters, mail>>
      /\ j \in Jobs /\ j.at = "enforcing" /\ Sound(j)
      /\ \/ job'[p] = NextGrant(j)
         \/ job'[p] = [j EXCEPT !.at = "backfilling", !.found = matched]
  BY DEF ListMessages, ApprovedInv, TypeOK
<1>2. CASE job'[p] = NextGrant(j)
  <2>1. job'[p] \in Jobs /\ Sound(job'[p]) /\ job'[p].at \in {"enforcing", "marking"}
    BY <1>1, <1>2, NextGrantSound DEF ApprovedInv
  <2>2. Sound(job[p])' BY <1>1, <2>1 DEF Sound, Agrees, Decided
  <2> QED BY <1>1, <2>1, <2>2, PrivateStep
<1>3. CASE job'[p] = [j EXCEPT !.at = "backfilling", !.found = matched]
  <2>1. matched \in SUBSET Messages
        /\ \A m \in matched : mail[m] # NoMail /\ mail[m].from = First(j.todo)
    OBVIOUS
  <2> HIDE DEF matched
  <2>2. /\ job'[p].at = "backfilling" /\ job'[p].snap = j.snap /\ job'[p].kind = j.kind
        /\ job'[p].req = j.req /\ job'[p].full = j.full /\ job'[p].todo = j.todo
        /\ job'[p].made = j.made /\ job'[p].found = matched
        /\ job'[p] \in Jobs
    BY <1>1, <1>3, <2>1 DEF Jobs
  <2>3. Agrees(job[p].snap)' BY <1>1, <2>2 DEF Sound, Agrees, Decided
  <2>4. Sound(job[p])' BY <1>1, <2>1, <2>2, <2>3 DEF Sound, HasAddress, Decided, Granted
  <2> QED BY <1>1, <2>2, <2>4, PrivateStep
<1> QED BY <1>1, <1>2, <1>3

-----------------------------------------------------------------------------
(* Steps on what the processes share.                                      *)

(* A step of process p that adds no mail and no grant.                     *)
LEMMA SharedStep ==
    ASSUME ApprovedInv, Grows, NEW p \in Processes,
           UNCHANGED <<gmail, known, grant>>,
           job' = [job EXCEPT ![p] = job'[p]],
           job'[p] \in Jobs, job'[p].at = "idle" => job'[p] = Idle,
           Sound(job[p])',
           status' \in [Requests -> Statuses],
           \A r \in Requests : status'[r] # status[r] => Decided(r),
           filters' \subseteq Emails \X Labels,
           \A f \in filters' \ filters : Justified(f[1], f[2]),
           mail' \in [Messages -> Mails \cup {NoMail}],
           \A m \in Messages : mail'[m] # NoMail =>
              /\ mail[m] # NoMail /\ mail'[m].from = mail[m].from
              /\ \A l \in mail'[m].labels \ mail[m].labels : Justified(mail[m].from, l)
    PROVE  ApprovedInv'
<1>1. \A q \in Processes \ {p} : job'[q] = job[q] BY DEF ApprovedInv, TypeOK
<1>2. TypeOK' BY <1>1 DEF ApprovedInv, TypeOK
<1>3. \A q \in Processes : Sound(job[q])' BY <1>1, OthersSound
<1>4. Agrees(grant)' BY DEF ApprovedInv, TypeOK, Agrees, Grows
<1>6. \A f \in filters' : Justified(f[1], f[2])'
  <2> SUFFICES ASSUME NEW f \in filters' PROVE Justified(f[1], f[2])'
    OBVIOUS
  <2>1. Justified(f[1], f[2]) BY DEF ApprovedInv
  <2> QED BY <2>1 DEF Justified, Grows
<1>7. (\A m \in Messages : mail[m] # NoMail =>
          \A l \in mail[m].labels : Justified(mail[m].from, l))'
  <2> SUFFICES ASSUME NEW m \in Messages, mail'[m] # NoMail, NEW l \in mail'[m].labels
               PROVE  Justified(mail[m].from, l)'
    OBVIOUS
  <2>1. Justified(mail[m].from, l) BY DEF ApprovedInv
  <2> QED BY <2>1 DEF Justified, Grows
<1>8. \A r \in Requests : status'[r] \in {"pending", "approved", "applied"} =>
          LabelsOf[r] \subseteq Allowed
  BY DEF ApprovedInv, Decided
<1> QED BY <1>2, <1>3, <1>4, <1>6, <1>7, <1>8 DEF ApprovedInv

(* The senders of a run have been approved.                                *)
LEMMA WantedJustified ==
    ASSUME NEW j \in Jobs, Agrees(j.snap), NEW f \in Granted(j.snap) \X {Visibility}
    PROVE  Justified(f[1], f[2])
<1>1. PICK e \in Granted(j.snap) : f[1] = e /\ f[2] = Visibility OBVIOUS
<1>2. j.snap[e] \in Requests /\ Decided(j.snap[e]) /\ EmailOf[j.snap[e]] = e
  BY DEF Granted, Agrees, Jobs
<1> QED BY <1>1, <1>2 DEF Justified, FilterLabels

LEMMA CoverStep ==
    ASSUME ApprovedInv, NEW p \in Processes, CreateGroupFilter(p) PROVE ApprovedInv'
<1> DEFINE j == job[p]
           wanted == Granted(j.snap) \X {Visibility}
<1>1. /\ j \in Jobs /\ Sound(j) /\ j.at = "grouping"
      /\ filters \subseteq filters' /\ filters' \subseteq filters \cup wanted
      /\ UNCHANGED <<gmail, known, status, grant, mail, job>>
  BY DEF CreateGroupFilter, ApprovedInv, TypeOK
<1>2. Grows BY <1>1 DEF Grows, Decided
<1>3. wanted \subseteq Emails \X Labels /\ filters \subseteq Emails \X Labels
  BY AsksAssumption DEF ApprovedInv, TypeOK, Granted
<1>4. \A f \in wanted : Justified(f[1], f[2]) BY <1>1, WantedJustified DEF Sound
<1> HIDE DEF wanted
<1>5. Sound(job[p])' BY <1>1, <1>2, SoundKept DEF ApprovedInv
<1>6. job' = [job EXCEPT ![p] = job'[p]] BY <1>1 DEF ApprovedInv, TypeOK
<1> QED BY <1>1, <1>2, <1>3, <1>4, <1>5, <1>6, SharedStep DEF ApprovedInv, TypeOK

(* What has become of the filters and of the run when it has regrouped.    *)
LEMMA Regrouped ==
    ASSUME TypeOK, NEW p \in Processes, ReconcileGroup(p)
    PROVE  LET j == job[p]
               wanted == Granted(j.snap) \X {Visibility}
           IN  /\ filters' \subseteq filters \cup wanted
               /\ CoverageKept => filters' = filters \cup wanted
               /\ job' = [job EXCEPT ![p] = job'[p]]
               /\ \E grew \in SUBSET Emails :
                     job'[p] = [j EXCEPT !.at = "enforcing", !.grew = grew,
                                         !.todo = Granted(j.snap)]
<1> DEFINE j == job[p]
           group == Granted(j.snap)
           wanted == group \X {Visibility}
           losses == IF CoverageKept THEN {{}} ELSE SUBSET Emails
           grown == IF SendersFit THEN {{}, group} ELSE SUBSET group
<1>1. PICK lost \in losses : filters' = (filters \cup wanted) \ (lost \X {Visibility})
  BY DEF ReconcileGroup
<1>2. CoverageKept => lost = {}
  <2> HIDE DEF CoverageKept
  <2> QED OBVIOUS
<1>3. PICK grew \in grown :
        job' = [job EXCEPT ![p] = [j EXCEPT !.at = "enforcing", !.grew = grew, !.todo = group]]
  BY DEF ReconcileGroup
<1>4. grew \in SUBSET Emails
  <2>1. group \subseteq Emails BY DEF Granted
  <2> HIDE DEF group
  <2> QED BY <2>1
<1>5. job'[p] = [j EXCEPT !.at = "enforcing", !.grew = grew, !.todo = group]
  BY <1>3 DEF TypeOK
<1>6. job' = [job EXCEPT ![p] = job'[p]]
  BY <1>3, <1>5
<1> QED BY <1>1, <1>2, <1>4, <1>5, <1>6

LEMMA GroupStep ==
    ASSUME ApprovedInv, NEW p \in Processes, ReconcileGroup(p) PROVE ApprovedInv'
<1> DEFINE j == job[p]
           wanted == Granted(j.snap) \X {Visibility}
<1>1. /\ j \in Jobs /\ j.at = "grouping" /\ Sound(j)
      /\ filters' \subseteq filters \cup wanted
      /\ CoverageKept => filters' = filters \cup wanted
      /\ UNCHANGED <<gmail, known, status, grant, mail>>
  BY Regrouped DEF ReconcileGroup, ApprovedInv, TypeOK
<1>2. PICK grew \in SUBSET Emails :
         /\ job' = [job EXCEPT ![p] = job'[p]]
         /\ job'[p] = [j EXCEPT !.at = "enforcing", !.grew = grew, !.todo = Granted(j.snap)]
  BY Regrouped DEF ApprovedInv
<1>3. Granted(j.snap) \in SUBSET Emails /\ Granted(j.snap) # {} BY <1>1 DEF Granted, Sound
<1>4. wanted \subseteq Emails \X Labels /\ filters \subseteq Emails \X Labels
  BY <1>3, AsksAssumption DEF ApprovedInv, TypeOK
<1>5. Grows BY <1>1 DEF Grows, Decided
<1>6. \A f \in wanted : Justified(f[1], f[2]) BY <1>1, WantedJustified DEF Sound
<1> HIDE DEF wanted
<1>7. /\ job'[p].at = "enforcing" /\ job'[p].snap = j.snap /\ job'[p].kind = j.kind
      /\ job'[p].req = j.req /\ job'[p].full = j.full /\ job'[p].todo = Granted(j.snap)
      /\ job'[p].made = j.made /\ job'[p] \in Jobs
  BY <1>1, <1>2, <1>3 DEF Jobs
<1>8. Agrees(job[p].snap)' BY <1>1, <1>7 DEF Sound, Agrees, Decided
<1>9. Sound(job[p])' BY <1>1, <1>3, <1>7, <1>8 DEF Sound, HasAddress, Decided
<1> QED
  BY <1>1, <1>2, <1>4, <1>5, <1>6, <1>7, <1>9, SharedStep DEF ApprovedInv, TypeOK

LEMMA CreateStep ==
    ASSUME ApprovedInv, NEW p \in Processes, CreateLabelFilter(p) PROVE ApprovedInv'
<1> DEFINE j == job[p]
           e == First(j.todo)
<1>1. PICK l \in ToCreate(j) :
         /\ filters' = filters \cup {<<e, l>>}
         /\ job' = [job EXCEPT ![p].made = @ \cup {l}]
  BY DEF CreateLabelFilter
<1>2. /\ j \in Jobs /\ j.at = "enforcing" /\ Sound(j)
      /\ UNCHANGED <<gmail, known, status, grant, mail>>
  BY DEF CreateLabelFilter, ApprovedInv, TypeOK
<1>3. /\ e \in Emails /\ j.snap[e] \in Requests /\ Decided(j.snap[e])
      /\ EmailOf[j.snap[e]] = e
  BY <1>2, BackfillLabels DEF ApprovedInv
<1>4. l \in LabelsOf[j.snap[e]] BY DEF ToCreate
<1>5. l \in Labels /\ l \in Allowed
  BY <1>3, <1>4, AsksAssumption DEF ApprovedInv, Decided
<1>6. Justified(e, l) BY <1>3, <1>4, <1>5 DEF Justified, FilterLabels
<1>7. Grows BY <1>1, <1>2 DEF Grows, Decided
<1>8. /\ job' = [job EXCEPT ![p] = job'[p]]
      /\ job'[p] = [j EXCEPT !.made = j.made \cup {l}]
  BY <1>1 DEF ApprovedInv, TypeOK
<1>9. \A f \in filters' \ filters : Justified(f[1], f[2]) BY <1>1, <1>6
<1>10. filters' \subseteq Emails \X Labels
  BY <1>1, <1>3, <1>5 DEF ApprovedInv, TypeOK
<1>11. /\ job'[p].at = "enforcing" /\ job'[p].snap = j.snap /\ job'[p].kind = j.kind
       /\ job'[p].req = j.req /\ job'[p].full = j.full /\ job'[p].todo = j.todo
       /\ job'[p].made = j.made \cup {l} /\ job'[p] \in Jobs
  BY <1>2, <1>5, <1>8 DEF Jobs
<1>12. Agrees(job[p].snap)' BY <1>2, <1>11 DEF Sound, Agrees, Decided
<1>13. job'[p].made \subseteq LabelsOf[job'[p].snap[First(job'[p].todo)]]
  BY <1>2, <1>4, <1>11 DEF Sound
<1>14. Sound(job[p])'
  BY <1>2, <1>11, <1>12, <1>13 DEF Sound, HasAddress, Decided, Granted
<1> QED
  BY <1>2, <1>7, <1>8, <1>9, <1>10, <1>11, <1>14, SharedStep DEF ApprovedInv, TypeOK

LEMMA BatchStep ==
    ASSUME ApprovedInv, NEW p \in Processes, ModifyBatch(p) PROVE ApprovedInv'
<1> DEFINE j == job[p]
           e == First(j.todo)
<1>1. /\ j \in Jobs /\ j.at = "backfilling" /\ Sound(j)
      /\ UNCHANGED <<gmail, known, status, grant, filters>>
  BY DEF ModifyBatch, ApprovedInv, TypeOK
<1>2. Grows /\ mail' \in [Messages -> Mails \cup {NoMail}]
  BY <1>1, ModifyGrows DEF ApprovedInv
<1>3. PICK batch \in SUBSET j.found :
         LET left == [j EXCEPT !.found = @ \ batch]
         IN  /\ mail' = [m \in Messages |->
                           IF m \in batch
                           THEN [mail[m] EXCEPT !.labels = @ \cup Backfill(j)]
                           ELSE mail[m]]
             /\ job' = [job EXCEPT ![p] = IF left.found = {} THEN NextGrant(left) ELSE left]
  BY DEF ModifyBatch
<1> DEFINE left == [j EXCEPT !.found = j.found \ batch]
<1>4. /\ job' = [job EXCEPT ![p] = job'[p]]
      /\ job'[p] = left \/ job'[p] = NextGrant(left)
  BY <1>3 DEF ApprovedInv, TypeOK
<1>5. /\ e \in Emails /\ j.snap[e] \in Requests /\ Decided(j.snap[e])
      /\ EmailOf[j.snap[e]] = e
      /\ Backfill(j) \subseteq FilterLabels(j.snap[e])
  BY <1>1, BackfillLabels DEF ApprovedInv
<1>6. \A l \in Backfill(j) : Justified(e, l)
  BY <1>5 DEF Justified, ApprovedInv, Decided, FilterLabels
<1>7. \A m \in batch : mail[m] # NoMail /\ mail[m].from = e /\ mail[m] \in Mails
  BY <1>1 DEF Sound, Jobs, ApprovedInv, TypeOK
<1>8. \A m \in Messages : mail'[m] # NoMail =>
         /\ mail[m] # NoMail /\ mail'[m].from = mail[m].from
         /\ \A l \in mail'[m].labels \ mail[m].labels : Justified(mail[m].from, l)
  BY <1>3, <1>6, <1>7 DEF Mails
<1>9. /\ left.at = "backfilling" /\ left.snap = j.snap /\ left.kind = j.kind
      /\ left.req = j.req /\ left.full = j.full /\ left.todo = j.todo
      /\ left.made = j.made /\ left.found = j.found \ batch /\ left \in Jobs
  BY <1>1 DEF Jobs
<1> HIDE DEF left
<1>10. Sound(left) BY <1>1, <1>9 DEF Sound, HasAddress
<1>11. Sound(NextGrant(left)) /\ NextGrant(left) \in Jobs
       /\ NextGrant(left).at \in {"enforcing", "marking"}
  BY <1>9, <1>10, NextGrantSound DEF ApprovedInv
<1>12. job'[p] \in Jobs /\ Sound(job'[p]) /\ job'[p].at \in {"backfilling", "enforcing", "marking"}
  BY <1>4, <1>9, <1>10, <1>11
<1>13. Sound(job[p])'
  BY <1>1, <1>2, <1>12 DEF Sound, Agrees, Decided, Grows, Jobs
<1> QED
  BY <1>1, <1>2, <1>4, <1>8, <1>12, <1>13, SharedStep DEF ApprovedInv, TypeOK

(* Marking moves one request, from approved to applied.                    *)
LEMMA MarkedStatus ==
    ASSUME TypeOK, NEW r, status' = Applied(r), UNCHANGED <<grant, filters, mail>>
    PROVE  /\ Grows /\ status' \in [Requests -> Statuses]
           /\ \A q \in Requests : status'[q] # status[q] =>
                 q = r /\ status[q] = "approved" /\ status'[q] = "applied"
<1>1. status' = [status EXCEPT ![r] = IF status[r] = "approved" THEN "applied" ELSE status[r]]
  BY DEF Applied
<1>2. \A q \in Requests : status'[q] = status[q] \/
         (q = r /\ status[q] = "approved" /\ status'[q] = "applied")
  BY <1>1 DEF TypeOK
<1>3. status' \in [Requests -> Statuses] BY <1>1, <1>2 DEF TypeOK, Statuses
<1> QED BY <1>2, <1>3 DEF Grows, Decided

LEMMA OwnStep ==
    ASSUME ApprovedInv, NEW p \in Processes, MarkOwn(p) PROVE ApprovedInv'
<1>1. /\ status' = Applied(job[p].req)
      /\ job' = [job EXCEPT ![p] = job'[p]] /\ job'[p] = Idle
      /\ UNCHANGED <<gmail, known, grant, filters, mail>>
  BY DEF MarkOwn, ApprovedInv, TypeOK
<1>2. /\ Grows /\ status' \in [Requests -> Statuses]
      /\ \A r \in Requests : status'[r] # status[r] => Decided(r)
  BY <1>1, MarkedStatus DEF ApprovedInv, Decided
<1>3. Agrees(NoGrants)' BY DEF Agrees, NoGrants
<1>4. Sound(job[p])' BY <1>1, <1>3 DEF Sound, Idle, HasAddress
<1> QED BY <1>1, <1>2, <1>4, Rest, SharedStep DEF ApprovedInv, TypeOK

LEMMA MarkStep ==
    ASSUME ApprovedInv, NEW p \in Processes, MarkGrant(p) PROVE ApprovedInv'
<1> DEFINE j == job[p]
           e == First(j.todo)
<1>1. /\ status' = Applied(j.snap[e])
      /\ job' = [job EXCEPT ![p] = job'[p]] /\ job'[p] = Marked(j)
      /\ UNCHANGED <<gmail, known, grant, filters, mail>>
      /\ j \in Jobs /\ Sound(j) /\ j.at = "marking" /\ j.kind = "reconcile"
  BY DEF MarkGrant, ApprovedInv, TypeOK
<1>2. /\ Grows /\ status' \in [Requests -> Statuses]
      /\ \A r \in Requests : status'[r] # status[r] => Decided(r)
  BY <1>1, MarkedStatus DEF ApprovedInv, Decided
<1>3. j.todo # {} /\ j.todo \in SUBSET Emails /\ j.todo \subseteq Granted(j.snap)
  BY <1>1 DEF Sound, HasAddress, Jobs
<1>4. e \in j.todo BY <1>3, FirstIsMember
<1>5. CASE j.todo = {e}
  <2>1. job'[p] = Idle BY <1>1, <1>5 DEF Marked
  <2>2. Agrees(NoGrants)' BY DEF Agrees, NoGrants
  <2>3. Sound(job[p])' BY <2>1, <2>2 DEF Sound, Idle, HasAddress
  <2> QED BY <1>1, <1>2, <2>1, <2>3, Rest, SharedStep DEF ApprovedInv, TypeOK
<1>6. CASE j.todo # {e}
  <2>1. job'[p] = [j EXCEPT !.todo = j.todo \ {e}] BY <1>1, <1>6 DEF Marked
  <2> HIDE DEF e
  <2>2. /\ job'[p].at = "marking" /\ job'[p].kind = "reconcile" /\ job'[p].snap = j.snap
        /\ job'[p].todo = j.todo \ {e} /\ job'[p] \in Jobs
    BY <1>1, <2>1 DEF Jobs
  <2>3. Agrees(job[p].snap)' BY <1>1, <1>2, <2>2 DEF Sound, Agrees, Grows, Jobs
  <2>4. Sound(job[p])' BY <1>1, <1>3, <1>4, <1>6, <2>2, <2>3 DEF Sound, HasAddress, Granted
  <2> QED BY <1>1, <1>2, <2>2, <2>4, SharedStep DEF ApprovedInv, TypeOK
<1> QED BY <1>5, <1>6

-----------------------------------------------------------------------------

(* Steps that leave the runs and the filters alone.                        *)
LEMMA OutsideStep ==
    ASSUME ApprovedInv, Grows, TypeOK', UNCHANGED <<grant, filters, job>>,
           \A r \in Requests : status'[r] \in {"pending", "approved", "applied"} =>
              LabelsOf[r] \subseteq Allowed,
           (\A m \in Messages : mail[m] # NoMail =>
               \A l \in mail[m].labels : Justified(mail[m].from, l))'
    PROVE  ApprovedInv'
<1>1. \A p \in Processes : Sound(job[p])' BY SoundKept DEF ApprovedInv
<1>2. Agrees(grant)' BY DEF ApprovedInv, TypeOK, Agrees, Grows
<1>3. \A f \in filters : Justified(f[1], f[2])'
  <2> SUFFICES ASSUME NEW f \in filters PROVE Justified(f[1], f[2])'
    OBVIOUS
  <2>1. Justified(f[1], f[2]) BY DEF ApprovedInv
  <2> QED BY <2>1 DEF Justified, Grows
<1> QED BY <1>1, <1>2, <1>3 DEF ApprovedInv

LEMMA ArriveStep ==
    ASSUME ApprovedInv, NEW m \in Messages, NEW e \in Emails, Arrive(m, e)
    PROVE  ApprovedInv'
<1> DEFINE new == [from |-> e, labels |-> {l \in Labels : <<e, l>> \in filters}]
<1>1. /\ mail' = [mail EXCEPT ![m] = new]
      /\ UNCHANGED <<gmail, known, status, grant, filters, job>>
  BY DEF Arrive
<1>2. Grows BY ArriveGrows DEF ApprovedInv
<1>3. new \in Mails BY DEF Mails
<1>4. TypeOK' BY <1>1, <1>3 DEF ApprovedInv, TypeOK
<1>5. \A n \in Messages, l \in Labels :
         mail'[n] # NoMail /\ l \in mail'[n].labels => Justified(mail'[n].from, l)
  <2> SUFFICES ASSUME NEW n \in Messages, NEW l \in Labels,
                      mail'[n] # NoMail, l \in mail'[n].labels
               PROVE  Justified(mail'[n].from, l)
    OBVIOUS
  <2>1. CASE n = m BY <1>1, <2>1 DEF ApprovedInv, TypeOK
  <2>2. CASE n # m BY <1>1, <2>2 DEF ApprovedInv, TypeOK
  <2> QED BY <2>1, <2>2
<1>6. (\A n \in Messages : mail[n] # NoMail =>
          \A l \in mail[n].labels : Justified(mail[n].from, l))'
  BY <1>1, <1>4, <1>5 DEF Justified, Decided, TypeOK, Mails
<1> QED BY <1>1, <1>2, <1>4, <1>6, OutsideStep DEF ApprovedInv

LEMMA SubmitStep ==
    ASSUME ApprovedInv, NEW r \in Requests, Submit(r) \/ Deny(r) PROVE ApprovedInv'
<1>1. /\ UNCHANGED <<gmail, known, grant, filters, mail, job>>
      /\ \/ /\ status[r] = "absent"
            /\ status' = [status EXCEPT ![r] =
                             IF LabelsOf[r] \subseteq Allowed THEN "pending" ELSE "blocked"]
         \/ status[r] = "pending" /\ status' = [status EXCEPT ![r] = "denied"]
  BY DEF Submit, Deny
<1>2. TypeOK' BY <1>1 DEF ApprovedInv, TypeOK, Statuses
<1>3. Grows BY <1>1 DEF ApprovedInv, TypeOK, Grows, Decided
<1>4. \A q \in Requests : status'[q] \in {"pending", "approved", "applied"} =>
          LabelsOf[q] \subseteq Allowed
  BY <1>1 DEF ApprovedInv, TypeOK
<1>5. (\A m \in Messages : mail[m] # NoMail =>
          \A l \in mail[m].labels : Justified(mail[m].from, l))'
  BY <1>1, <1>3 DEF ApprovedInv, Justified, Grows
<1> QED BY <1>1, <1>2, <1>3, <1>4, <1>5, OutsideStep

LEMMA SetUpStep ==
    ASSUME ApprovedInv,
           (\E p \in Processes : ConfigureGmail(p)) \/ (\E l \in Labels : AddLabel(l))
    PROVE  ApprovedInv'
<1>1. UNCHANGED <<status, grant, filters, mail, job>> BY DEF ConfigureGmail, AddLabel
<1>2. gmail' \in [Processes -> BOOLEAN] /\ known' \subseteq Labels
  BY DEF ConfigureGmail, AddLabel, ApprovedInv, TypeOK
<1> QED BY <1>1, <1>2, Quiet, OutsideStep DEF ApprovedInv, TypeOK, Justified, Decided

(* Approving: the request now governs, and was pending until now.          *)
LEMMA ApproveStep ==
    ASSUME ApprovedInv, NEW p \in Processes, NEW r \in Requests, Approve(p, r)
    PROVE  ApprovedInv'
<1> DEFINE at == IF gmail[p] THEN "loading" ELSE "marking"
           full == {EmailOf[r]}
<1>1. /\ status[r] = "pending"
      /\ status' = [status EXCEPT ![r] = "approved"]
      /\ grant' = [grant EXCEPT ![EmailOf[r]] = r]
      /\ job' = [job EXCEPT ![p] = job'[p]]
      /\ job'[p] = [Idle EXCEPT !.at = at, !.kind = "approve", !.req = r, !.full = full]
      /\ UNCHANGED <<gmail, known, filters, mail>>
  BY DEF Approve, ApprovedInv, TypeOK
<1>2. EmailOf[r] \in Emails BY AsksAssumption
<1>3. at \in {"loading", "marking"} /\ full \in SUBSET Emails BY <1>2
<1> HIDE DEF at, full
<1>4. /\ job'[p].at = at /\ job'[p].kind = "approve" /\ job'[p].req = r
      /\ job'[p].full = full /\ job'[p].snap = NoGrants /\ job'[p].made = {}
      /\ job'[p] \in Jobs
  BY <1>1, <1>3, Rest DEF Jobs, Idle
<1>5. Grows BY <1>1, <1>2 DEF ApprovedInv, TypeOK, Grows, Decided
<1>6. \A q \in Processes \ {p} : job'[q] = job[q] BY <1>1 DEF ApprovedInv, TypeOK
<1>7. TypeOK' BY <1>1, <1>2, <1>3, <1>4, <1>6 DEF ApprovedInv, TypeOK, Statuses
<1>8. Agrees(NoGrants)' BY DEF Agrees, NoGrants
<1>9. Decided(r)' BY <1>1 DEF ApprovedInv, TypeOK, Decided
<1>10. Sound(job[p])' BY <1>3, <1>4, <1>8, <1>9 DEF Sound, HasAddress, full
<1>11. \A q \in Processes : Sound(job[q])' BY <1>5, <1>6, <1>10, OthersSound
<1>12. Agrees(grant)'
  BY <1>1, <1>2, <1>5, <1>9 DEF ApprovedInv, TypeOK, Agrees, Grows
<1>13. \A f \in filters : Justified(f[1], f[2])'
  <2> SUFFICES ASSUME NEW f \in filters PROVE Justified(f[1], f[2])'
    OBVIOUS
  <2>1. Justified(f[1], f[2]) BY DEF ApprovedInv
  <2> QED BY <1>5, <2>1 DEF Justified, Grows
<1>14. (\A m \in Messages : mail[m] # NoMail =>
           \A l \in mail[m].labels : Justified(mail[m].from, l))'
  BY <1>1, <1>5 DEF ApprovedInv, Justified, Grows
<1>15. \A q \in Requests : status'[q] \in {"pending", "approved", "applied"} =>
           LabelsOf[q] \subseteq Allowed
  BY <1>1 DEF ApprovedInv, TypeOK
<1> QED BY <1>1, <1>7, <1>11, <1>12, <1>13, <1>14, <1>15 DEF ApprovedInv

LEMMA ApprovedStep == ApprovedInv /\ [Next]_vars => ApprovedInv'
<1> SUFFICES ASSUME ApprovedInv, [Next]_vars PROVE ApprovedInv'
  OBVIOUS
<1>1. CASE (\E p \in Processes : ConfigureGmail(p)) \/ \E l \in Labels : AddLabel(l)
  BY <1>1, SetUpStep
<1>2. CASE \E m \in Messages, e \in Emails : Arrive(m, e)
  BY <1>2, ArriveStep
<1>3. CASE \E r \in Requests : Submit(r) \/ Deny(r)
  BY <1>3, SubmitStep
<1>4. ASSUME NEW p \in Processes, NEW r \in Requests, Approve(p, r) PROVE ApprovedInv'
  BY <1>4, ApproveStep
<1>5. ASSUME NEW p \in Processes, NEW historical \in BOOLEAN, ReconcileAll(p, historical)
      PROVE  ApprovedInv'
  BY <1>5, ReconcileStep
<1>6. ASSUME NEW p \in Processes, Proceed(p) PROVE ApprovedInv'
  BY <1>6, LoadStep, ReadStep, StopStep, ListStep, CoverStep, GroupStep, CreateStep, SearchStep,
     BatchStep, OwnStep, MarkStep DEF Proceed
<1>7. ASSUME NEW p \in Processes, Fail(p) PROVE ApprovedInv'
  BY <1>7, StopStep
<1>8. CASE UNCHANGED vars
  <2>1. UNCHANGED <<gmail, known, status, grant, filters, mail, job>> BY <1>8 DEF vars
  <2>2. TypeOK' BY <2>1 DEF ApprovedInv, TypeOK
  <2> QED BY <2>1, <2>2, Quiet, OutsideStep DEF ApprovedInv, Justified, Decided
<1> QED
  BY <1>1, <1>2, <1>3, <1>4, <1>5, <1>6, <1>7, <1>8 DEF Next

(* Whatever runs in parallel or stops half way, grants, runs, filters and  *)
(* labels stem from approved requests of their sender.                     *)
THEOREM ManagerInvariant == Spec => []ApprovedInv
<1>1. Init => ApprovedInv
  <2> SUFFICES ASSUME Init PROVE ApprovedInv
    OBVIOUS
  <2>1. Idle \in Jobs /\ Sound(Idle) /\ Agrees(NoGrants) BY Rest
  <2>2. NoGrants \in [Emails -> Requests \cup {NoRequest}] BY DEF NoGrants
  <2>3. TypeOK BY <2>1, <2>2, AsksAssumption DEF Init, TypeOK, Statuses
  <2> QED BY <2>1, <2>3 DEF Init, ApprovedInv
<1> QED BY <1>1, ApprovedStep, PTL DEF Spec

(* The type invariant of the workflow.                                     *)
THEOREM ManagerTypeCorrect == Spec => []TypeOK
<1>1. ApprovedInv => TypeOK BY DEF ApprovedInv
<1> QED BY <1>1, ManagerInvariant, PTL

(* Mail carries only labels that an approved request of its very sender    *)
(* asked for and the policy lets through, for any number of processes.     *)
THEOREM OnlyApprovedLabelsAreGiven == Spec => []OnlyApprovedLabels
<1>1. ApprovedInv => OnlyApprovedLabels
  BY DEF ApprovedInv, OnlyApprovedLabels, Justified, Decided
<1> QED BY <1>1, ManagerInvariant, PTL

-----------------------------------------------------------------------------

(* Once in force, always in force: new mail is filtered, old mail keeps    *)
(* its labels.                                                             *)
LEMMA PromiseKept ==
    ASSUME CoverageKept, ApprovedInv, Grows, NEW e, NEW r \in Requests, NEW S,
           Filtered(filters, e, r)
    PROVE  /\ Filtered(filters', e, r)
           /\ LabelledBut(mail, e, r, S) => LabelledBut(mail', e, r, S)
<1>1. FilterLabels(r) \subseteq Labels BY AsksAssumption DEF FilterLabels
<1> QED BY <1>1 DEF Grows, Filtered, LabelledBut

(* Neither progress nor thoroughness is lost to the steps of others.       *)
LEMMA ProgressKept ==
    ASSUME CoverageKept, ApprovedInv, Grows, NEW p \in Processes,
           Progress(filters, mail, job[p])
    PROVE  Progress(filters', mail', job[p])
<1> DEFINE j == job[p]
<1>1. j \in Jobs /\ Sound(j) BY DEF ApprovedInv, TypeOK
<1>2. \A e \in Granted(j.snap) : j.snap[e] \in Requests BY <1>1 DEF Granted, Jobs
<1>3. \A e \in Reached(j) :
         /\ Filtered(filters', e, j.snap[e])
         /\ e \in j.full => LabelledBut(mail', e, j.snap[e], {})
  BY <1>2, PromiseKept DEF Progress, Reached
<1>4. ASSUME j.at = "backfilling"
      PROVE  LET e == First(j.todo)
             IN  /\ Filtered(filters', e, j.snap[e])
                 /\ e \in j.full => LabelledBut(mail', e, j.snap[e], j.found)
  <2>1. j.snap[First(j.todo)] \in Requests BY <1>1, <1>4, BackfillLabels DEF ApprovedInv
  <2> QED BY <1>4, <2>1, PromiseKept DEF Progress
<1>5. filters \subseteq filters' BY DEF Grows
<1> QED BY <1>3, <1>4, <1>5 DEF Progress

LEMMA ThoroughKept ==
    ASSUME ApprovedInv, Grows, NEW p \in Processes, job'[p] = job[p], Thorough(job[p])
    PROVE  Thorough(job[p])'
<1> DEFINE j == job[p]
<1>1. j \in Jobs /\ Sound(j) BY DEF ApprovedInv, TypeOK
<1>2. ASSUME j.kind = "approve", j.at \in Running \ {"loading"}, grant'[EmailOf[j.req]] = j.req
      PROVE  j.snap[EmailOf[j.req]] = j.req
  <2>1. Decided(j.req) /\ j.req \in Requests BY <1>1, <1>2 DEF Sound
  <2>2. EmailOf[j.req] \in Emails BY <2>1, AsksAssumption
  <2> QED BY <1>2, <2>1, <2>2 DEF Thorough, Grows
<1>3. \A e \in Looked(j) : e \in Emails /\ j.snap[e] \in Requests
  BY <1>1 DEF Looked, Granted, Jobs
<1>4. ASSUME j.kind = "reconcile", j.at \in Running, NEW e \in Looked(j)
      PROVE  e \in j.full \/ status'[j.snap[e]] = "applied"
  BY <1>3, <1>4 DEF Thorough, Grows
<1> QED BY <1>2, <1>4 DEF Thorough, Looked, Running

(* In force is filtered and labelled without exception.                    *)
LEMMA InForceMeans ==
    ASSUME NEW r \in Requests
    PROVE  InForce(r) <=> /\ Filtered(filters, EmailOf[r], r)
                          /\ LabelledBut(mail, EmailOf[r], r, {})
BY DEF InForce, Filtered, LabelledBut

(* What has been applied is still in force, if what is applied now is.     *)
LEMMA AppliedKept ==
    ASSUME CoverageKept, ApprovedInv, Grows, CurrentGrantEnforced,
           grant' \in [Emails -> Requests \cup {NoRequest}],
           \A r \in Requests : status'[r] = "applied" /\ status[r] # "applied" =>
              Decided(r) /\ (grant[EmailOf[r]] = r => InForce(r))
    PROVE  CurrentGrantEnforced'
<1> SUFFICES ASSUME NEW e \in Emails, grant'[e] # NoRequest, status'[grant'[e]] = "applied"
             PROVE  InForce(grant[e])'
  BY DEF CurrentGrantEnforced
<1> DEFINE r == grant'[e]
<1>1. r \in Requests OBVIOUS
<1>2. Decided(r) BY <1>1 DEF Decided
<1>3. grant[e] = r BY <1>1, <1>2 DEF Grows
<1>4. EmailOf[r] = e BY <1>1, <1>3 DEF ApprovedInv, Agrees
<1>5. InForce(grant[e]) BY <1>1, <1>3, <1>4 DEF CurrentGrantEnforced
<1>6. Filtered(filters, e, r) /\ LabelledBut(mail, e, r, {})
  BY <1>1, <1>3, <1>4, <1>5, InForceMeans
<1>7. Filtered(filters', e, r) /\ LabelledBut(mail', e, r, {})
  BY <1>1, <1>6, PromiseKept
<1> QED BY <1>1, <1>4, <1>7 DEF InForce, Filtered, LabelledBut

(* A step of the processes S, the others standing still.                   *)
LEMMA EnforcedStep ==
    ASSUME ApprovedInv, ApprovedInv', Grows, EnforcedInv, gmail' = gmail,
           NEW S \in SUBSET Processes, \A q \in Processes \ S : job'[q] = job[q],
           \A r \in Requests : status'[r] = "applied" /\ status[r] # "applied" =>
              Decided(r) /\ (grant[EmailOf[r]] = r => InForce(r)),
           \A p \in S : Progress(filters', mail', job'[p]) /\ Thorough(job[p])'
    PROVE  EnforcedInv'
<1>1. CurrentGrantEnforced' BY AppliedKept DEF ApprovedInv, TypeOK, EnforcedInv
<1>2. ASSUME NEW q \in Processes PROVE Progress(filters', mail', job'[q]) /\ Thorough(job[q])'
  <2>1. CASE q \in S BY <2>1
  <2>2. CASE q \notin S
    <3>1. job'[q] = job[q] BY <2>2
    <3>2. /\ Progress(filters, mail, job[q]) /\ Thorough(job[q])
          /\ CoverageKept
      BY DEF EnforcedInv
    <3> QED BY <3>1, <3>2, ProgressKept, ThoroughKept
  <2> QED BY <2>1, <2>2
<1> QED BY <1>1, <1>2 DEF EnforcedInv

(* A step of process p.                                                    *)
LEMMA RunEnforced ==
    ASSUME ApprovedInv, ApprovedInv', Grows, EnforcedInv, gmail' = gmail,
           NEW p \in Processes, job' = [job EXCEPT ![p] = job'[p]],
           status' = status \/
              \A r \in Requests : status'[r] = "applied" /\ status[r] # "applied" =>
                 Decided(r) /\ (grant[EmailOf[r]] = r => InForce(r)),
           Progress(filters', mail', job'[p]), Thorough(job[p])'
    PROVE  EnforcedInv'
<1>1. \A q \in Processes \ {p} : job'[q] = job[q] BY DEF ApprovedInv, TypeOK
<1>2. \A q \in {p} : Progress(filters', mail', job'[q]) /\ Thorough(job[q])' OBVIOUS
<1>3. {p} \in SUBSET Processes OBVIOUS
<1>4. \A r \in Requests : status'[r] = "applied" /\ status[r] # "applied" =>
         Decided(r) /\ (grant[EmailOf[r]] = r => InForce(r))
  OBVIOUS
<1> QED BY <1>1, <1>2, <1>3, <1>4, EnforcedStep

(* The same, when p changes nothing it shares.                             *)
LEMMA PrivateEnforced ==
    ASSUME ApprovedInv, ApprovedInv', EnforcedInv, NEW p \in Processes,
           UNCHANGED <<gmail, status, grant, filters, mail>>,
           job' = [job EXCEPT ![p] = job'[p]],
           Progress(filters, mail, job'[p]), Thorough(job[p])'
    PROVE  EnforcedInv'
<1>1. Grows BY Quiet
<1>2. Progress(filters', mail', job'[p]) OBVIOUS
<1> QED BY <1>1, <1>2, RunEnforced

(* Each step keeps the invariant.                                          *)
LEMMA StopEnforced ==
    ASSUME ApprovedInv, ApprovedInv', EnforcedInv, NEW p \in Processes,
           LabelMissing(p) \/ Fail(p) \/ Restart(p)
    PROVE  EnforcedInv'
<1>1. /\ job' = [job EXCEPT ![p] = job'[p]]
      /\ job'[p].at \in {"idle", "failed"}
      /\ UNCHANGED <<gmail, known, status, grant, filters, mail>>
  BY DEF LabelMissing, Fail, Restart, ApprovedInv, TypeOK, Idle
<1>2. Progress(filters, mail, job'[p]) BY <1>1 DEF Progress, Reached
<1>3. Thorough(job[p])' BY <1>1 DEF Thorough, Running
<1> QED BY <1>1, <1>2, <1>3, PrivateEnforced

LEMMA ReconcileEnforced ==
    ASSUME ApprovedInv, ApprovedInv', EnforcedInv, NEW p \in Processes,
           NEW historical \in BOOLEAN, ReconcileAll(p, historical)
    PROVE  EnforcedInv'
<1>1. /\ job' = [job EXCEPT ![p] = job'[p]]
      /\ job'[p].at = "loading" /\ job'[p].kind = "reconcile"
      /\ job'[p].full \in {{}, Emails}
      /\ UNCHANGED <<gmail, known, status, grant, filters, mail>>
  BY DEF ReconcileAll, ApprovedInv, TypeOK, Idle
<1>2. Progress(filters, mail, job'[p]) BY <1>1 DEF Progress, Reached
<1>3. Thorough(job[p])' BY <1>1 DEF Thorough, Looked
<1> QED BY <1>1, <1>2, <1>3, PrivateEnforced

LEMMA LoadEnforced ==
    ASSUME ApprovedInv, ApprovedInv', EnforcedInv, NEW p \in Processes, LoadGrants(p)
    PROVE  EnforcedInv'
<1> DEFINE j == job[p]
           k == job'[p]
<1>1. /\ job' = [job EXCEPT ![p] = k]
      /\ UNCHANGED <<gmail, known, status, grant, filters, mail>>
      /\ j \in Jobs /\ j.at = "loading" /\ Thorough(j)
      /\ grant \in [Emails -> Requests \cup {NoRequest}]
  BY DEF LoadGrants, ApprovedInv, TypeOK, EnforcedInv
<1>2. CASE grant = NoGrants
  <2>1. k.at = "idle" BY <1>2 DEF LoadGrants, ApprovedInv, TypeOK, Idle
  <2>2. Progress(filters, mail, k) BY <2>1 DEF Progress, Reached
  <2>3. Thorough(job[p])' BY <2>1 DEF Thorough, Running
  <2> QED BY <1>1, <2>2, <2>3, PrivateEnforced
<1>3. CASE grant # NoGrants
  <2>1. /\ k.snap = grant /\ k.kind = j.kind /\ k.req = j.req /\ k.full = j.full
        /\ \/ /\ k.at = "reading" /\ k.kind = "reconcile" /\ k.todo = Granted(grant)
           \/ /\ k.at = "listing"
              /\ k.kind = "approve" \/ j.full # {} \/ k.kind = "none"
    BY <1>1, <1>3 DEF LoadGrants, ApprovedInv, TypeOK, Jobs, Granted
  <2>2. Progress(filters, mail, k) BY <2>1 DEF Progress, Reached
  <2>3. k.kind = "reconcile" => j.full \in {{}, Emails}
    BY <1>1, <2>1 DEF Thorough, Running
  <2>4. Granted(grant) \subseteq Emails BY DEF Granted
  <2>5. k.kind = "reconcile" => \A e \in Looked(k) : e \in k.full
    BY <2>1, <2>3, <2>4 DEF Looked
  <2>6. Thorough(job[p])' BY <1>1, <2>1, <2>5 DEF Thorough, Looked
  <2> QED BY <1>1, <2>2, <2>6, PrivateEnforced
<1> QED BY <1>2, <1>3

LEMMA ReadEnforced ==
    ASSUME ApprovedInv, ApprovedInv', EnforcedInv, NEW p \in Processes, ReadStatus(p)
    PROVE  EnforcedInv'
<1> DEFINE j == job[p]
           e == First(j.todo)
           k == job'[p]
           at == IF j.todo = {e} THEN "listing" ELSE "reading"
           full == IF status[j.snap[e]] = "approved" THEN j.full \cup {e} ELSE j.full
<1>1. /\ job' = [job EXCEPT ![p] = k]
      /\ UNCHANGED <<gmail, known, status, grant, filters, mail>>
      /\ j \in Jobs /\ j.at = "reading" /\ Sound(j) /\ Thorough(j)
      /\ k = [j EXCEPT !.at = at, !.todo = j.todo \ {e}, !.full = full]
  BY DEF ReadStatus, ApprovedInv, TypeOK, EnforcedInv
<1>2. j.kind = "reconcile" /\ j.todo # {} /\ j.todo \subseteq Granted(j.snap)
      /\ j.todo \in SUBSET Emails
  BY <1>1 DEF Sound, HasAddress, Jobs
<1>3. e \in j.todo BY <1>2, FirstIsMember
<1>4. \/ at = "listing" /\ j.todo = {e}
      \/ at = "reading"
  OBVIOUS
<1>5. status[j.snap[e]] # "applied" => e \in full
  <2>1. Decided(j.snap[e]) BY <1>1, <1>2, <1>3 DEF Sound, Agrees, Granted
  <2> QED BY <2>1 DEF Decided
<1>6. j.full \subseteq full OBVIOUS
<1> HIDE DEF e, at, full
<1>7. /\ k.at = at /\ k.todo = j.todo \ {e} /\ k.full = full
      /\ k.snap = j.snap /\ k.kind = "reconcile"
  BY <1>1, <1>2 DEF Jobs
<1>8. Progress(filters, mail, k) BY <1>4, <1>7 DEF Progress, Reached
<1>9. \A d \in Looked(j) : d \in j.full \/ status[j.snap[d]] = "applied"
  BY <1>1, <1>2 DEF Thorough, Running
<1>10. \A d \in Looked(k) : d \in Looked(j) \/ d = e
  BY <1>1, <1>4, <1>7 DEF Looked
<1>11. \A d \in Looked(k) : d \in full \/ status[j.snap[d]] = "applied"
  BY <1>5, <1>6, <1>9, <1>10
<1>12. Thorough(job[p])' BY <1>1, <1>4, <1>7, <1>11 DEF Thorough, Looked
<1> QED BY <1>1, <1>8, <1>12, PrivateEnforced

LEMMA ListEnforced ==
    ASSUME ApprovedInv, ApprovedInv', EnforcedInv, NEW p \in Processes, ListFilters(p)
    PROVE  EnforcedInv'
<1> DEFINE j == job[p]
           k == job'[p]
<1>1. /\ job' = [job EXCEPT ![p] = k]
      /\ UNCHANGED <<gmail, known, status, grant, filters, mail>>
      /\ j \in Jobs /\ j.at = "listing" /\ Thorough(j)
      /\ k = [j EXCEPT !.at = "grouping", !.listed = filters]
  BY DEF ListFilters, ApprovedInv, TypeOK, EnforcedInv
<1>2. /\ k.at = "grouping" /\ k.snap = j.snap /\ k.kind = j.kind
      /\ k.req = j.req /\ k.full = j.full /\ k.listed = filters
  BY <1>1 DEF Jobs
<1>3. Progress(filters, mail, k) BY <1>2 DEF Progress, Reached
<1>4. Looked(k) = Looked(j) BY <1>1, <1>2 DEF Looked
<1>5. Thorough(job[p])' BY <1>1, <1>2, <1>4 DEF Thorough, Running
<1> QED BY <1>1, <1>3, <1>5, PrivateEnforced

(* Running on keeps whose mail is seen to, whatever the status.            *)
LEMMA ThoroughOn ==
    ASSUME ApprovedInv, Grows, UNCHANGED grant, NEW p \in Processes, Thorough(job[p]),
           job[p].at \in {"grouping", "enforcing", "backfilling", "marking"},
           job'[p].at \in {"grouping", "enforcing", "backfilling", "marking"},
           job'[p].kind = job[p].kind, job'[p].req = job[p].req,
           job'[p].snap = job[p].snap, job'[p].full = job[p].full
    PROVE  Thorough(job[p])'
<1> DEFINE j == job[p]
           k == job'[p]
<1>1. Looked(j) = Granted(j.snap) /\ Looked(k) = Granted(j.snap) BY DEF Looked
<1>2. j \in Jobs BY DEF ApprovedInv, TypeOK
<1>3. \A e \in Granted(j.snap) : j.snap[e] \in Requests BY <1>2 DEF Granted, Jobs
<1>4. k.kind = "reconcile" =>
         \A e \in Granted(j.snap) : e \in k.full \/ status'[k.snap[e]] = "applied"
  BY <1>1, <1>3 DEF Thorough, Running, Grows
<1> QED BY <1>1, <1>4 DEF Thorough, Running

LEMMA CoverEnforced ==
    ASSUME ApprovedInv, ApprovedInv', EnforcedInv, NEW p \in Processes, CreateGroupFilter(p)
    PROVE  EnforcedInv'
<1>1. /\ filters \subseteq filters' /\ UNCHANGED <<gmail, known, status, grant, mail, job>>
  BY DEF CreateGroupFilter
<1>2. Grows BY <1>1 DEF Grows, Decided
<1>3. Progress(filters', mail', job'[p])
  BY <1>1, <1>2, ProgressKept DEF ApprovedInv, TypeOK, EnforcedInv
<1>4. Thorough(job[p])'
  BY <1>1, <1>2, ThoroughKept DEF ApprovedInv, TypeOK, EnforcedInv
<1>5. job' = [job EXCEPT ![p] = job'[p]] BY <1>1 DEF ApprovedInv, TypeOK
<1> QED BY <1>1, <1>2, <1>3, <1>4, <1>5, RunEnforced

LEMMA GroupEnforced ==
    ASSUME ApprovedInv, ApprovedInv', EnforcedInv, NEW p \in Processes, ReconcileGroup(p)
    PROVE  EnforcedInv'
<1> DEFINE j == job[p]
           k == job'[p]
           wanted == Granted(j.snap) \X {Visibility}
<1>1. /\ j \in Jobs /\ j.at = "grouping" /\ Sound(j) /\ Thorough(j)
      /\ filters' = filters \cup wanted
      /\ UNCHANGED <<gmail, known, status, grant, mail>>
      /\ Progress(filters, mail, j)
  BY Regrouped DEF ReconcileGroup, ApprovedInv, TypeOK, EnforcedInv
<1>2. PICK grew \in SUBSET Emails :
         /\ job' = [job EXCEPT ![p] = k]
         /\ k = [j EXCEPT !.at = "enforcing", !.grew = grew, !.todo = Granted(j.snap)]
  BY Regrouped DEF ApprovedInv
<1>3. Grows BY <1>1 DEF Grows, Decided
<1>4. /\ k.at = "enforcing" /\ k.snap = j.snap /\ k.kind = j.kind /\ k.req = j.req
      /\ k.full = j.full /\ k.todo = Granted(j.snap) /\ k.made = j.made /\ k.listed = j.listed
  BY <1>1, <1>2 DEF Jobs
<1>5. k.made = {} BY <1>1, <1>4 DEF Sound
<1>6. j.listed \subseteq filters BY <1>1 DEF Progress
<1>7. \A e \in k.todo : <<e, Visibility>> \in wanted BY <1>4
<1>8. Reached(k) = {} BY <1>4 DEF Reached
<1>9. Progress(filters', mail', k) BY <1>1, <1>4, <1>5, <1>6, <1>7, <1>8 DEF Progress
<1>10. Thorough(job[p])' BY <1>1, <1>3, <1>4, ThoroughOn
<1> QED BY <1>1, <1>2, <1>3, <1>9, <1>10, RunEnforced

LEMMA CreateEnforced ==
    ASSUME ApprovedInv, ApprovedInv', EnforcedInv, NEW p \in Processes, CreateLabelFilter(p)
    PROVE  EnforcedInv'
<1> DEFINE j == job[p]
           k == job'[p]
           e == First(j.todo)
<1>1. PICK l \in ToCreate(j) :
         /\ filters' = filters \cup {<<e, l>>}
         /\ job' = [job EXCEPT ![p].made = @ \cup {l}]
  BY DEF CreateLabelFilter
<1>2. /\ j \in Jobs /\ j.at = "enforcing" /\ Thorough(j) /\ Progress(filters, mail, j)
      /\ UNCHANGED <<gmail, known, status, grant, mail>>
  BY DEF CreateLabelFilter, ApprovedInv, TypeOK, EnforcedInv
<1>3. Grows BY <1>1, <1>2 DEF Grows, Decided
<1>4. job' = [job EXCEPT ![p] = k] /\ k = [j EXCEPT !.made = j.made \cup {l}]
  BY <1>1 DEF ApprovedInv, TypeOK
<1>5. /\ k.at = "enforcing" /\ k.snap = j.snap /\ k.kind = j.kind /\ k.req = j.req
      /\ k.full = j.full /\ k.todo = j.todo /\ k.made = j.made \cup {l} /\ k.listed = j.listed
  BY <1>2, <1>4 DEF Jobs
<1>6. Progress(filters', mail', j) BY <1>3, ProgressKept DEF EnforcedInv
<1>7. Reached(k) = Reached(j) BY <1>2, <1>5 DEF Reached
<1>8. Progress(filters', mail', k) BY <1>1, <1>2, <1>5, <1>6, <1>7 DEF Progress
<1>9. Thorough(job[p])' BY <1>2, <1>3, <1>5, ThoroughOn
<1> QED BY <1>2, <1>3, <1>4, <1>8, <1>9, RunEnforced

(* With the address at hand in force, the run is through with it.          *)
LEMMA NextGrantProgress ==
    ASSUME NEW F, NEW M, NEW j \in Jobs, Sound(j), Progress(F, M, j),
           j.at \in {"enforcing", "backfilling"},
           Filtered(F, First(j.todo), j.snap[First(j.todo)]),
           First(j.todo) \in j.full =>
              LabelledBut(M, First(j.todo), j.snap[First(j.todo)], {})
    PROVE  /\ Progress(F, M, NextGrant(j))
           /\ NextGrant(j).at \in {"enforcing", "marking"}
           /\ NextGrant(j).kind = j.kind /\ NextGrant(j).req = j.req
           /\ NextGrant(j).snap = j.snap /\ NextGrant(j).full = j.full
<1> DEFINE e == First(j.todo)
           left == j.todo \ {e}
           k == NextGrant(j)
<1>1. e \in j.todo BY FirstIsMember DEF Sound, HasAddress, Granted
<1>2. Reached(j) = Granted(j.snap) \ j.todo BY DEF Reached
<1>3. \A d \in Granted(j.snap) \ left :
         /\ Filtered(F, d, j.snap[d])
         /\ d \in j.full => LabelledBut(M, d, j.snap[d], {})
  BY <1>2 DEF Progress
<1>4. CASE left # {}
  <2>1. k = [j EXCEPT !.at = "enforcing", !.todo = left, !.made = {}] BY <1>4 DEF NextGrant
  <2> HIDE DEF left, k
  <2>2. /\ k.at = "enforcing" /\ k.snap = j.snap /\ k.kind = j.kind /\ k.req = j.req
        /\ k.full = j.full /\ k.todo = left /\ k.made = {} /\ k.listed = j.listed
    BY <2>1 DEF Jobs
  <2>3. Reached(k) = Granted(j.snap) \ left BY <2>2 DEF Reached
  <2>4. left \subseteq j.todo BY DEF left
  <2>5. Progress(F, M, k) BY <1>3, <2>2, <2>3, <2>4 DEF Progress
  <2> QED BY <2>2, <2>5 DEF k
<1>5. CASE left = {}
  <2>1. k = [j EXCEPT !.at = "marking", !.todo = Granted(j.snap), !.made = {}]
    BY <1>5 DEF NextGrant
  <2> HIDE DEF left, k
  <2>2. /\ k.at = "marking" /\ k.snap = j.snap /\ k.kind = j.kind /\ k.req = j.req
        /\ k.full = j.full
    BY <2>1 DEF Jobs
  <2>3. Reached(k) = Granted(j.snap) \ left BY <1>5, <2>2 DEF Reached
  <2>4. Progress(F, M, k) BY <1>3, <2>2, <2>3 DEF Progress
  <2> QED BY <2>2, <2>4 DEF k
<1> QED BY <1>4, <1>5

LEMMA SearchEnforced ==
    ASSUME ApprovedInv, ApprovedInv', EnforcedInv, NEW p \in Processes, ListMessages(p)
    PROVE  EnforcedInv'
<1> DEFINE j == job[p]
           k == job'[p]
           e == First(j.todo)
           matched == {m \in Messages : mail[m] # NoMail /\ mail[m].from = e}
<1>1. /\ job' = [job EXCEPT ![p] = k]
      /\ UNCHANGED <<gmail, known, status, grant, filters, mail>>
      /\ j \in Jobs /\ j.at = "enforcing" /\ Sound(j) /\ Thorough(j)
      /\ Progress(filters, mail, j) /\ ToCreate(j) = {}
      /\ \/ (Backfill(j) = {} \/ matched = {}) /\ k = NextGrant(j)
         \/ k = [j EXCEPT !.at = "backfilling", !.found = matched]
  BY DEF ListMessages, ApprovedInv, TypeOK, EnforcedInv
<1>2. e \in j.todo BY <1>1, BackfillLabels DEF ApprovedInv
<1>3. Filtered(filters, e, j.snap[e])
  <2>1. \A l \in LabelsOf[j.snap[e]] : <<e, l>> \in j.listed \/ l \in j.made
    BY <1>1 DEF ToCreate
  <2> QED BY <1>1, <1>2, <2>1 DEF Filtered, FilterLabels, Progress
<1>4. LabelledBut(mail, e, j.snap[e], matched) BY DEF LabelledBut
<1>5. Grows BY <1>1, Quiet
<1>6. CASE (Backfill(j) = {} \/ matched = {}) /\ k = NextGrant(j)
  <2>1. e \in j.full => Backfill(j) # {} BY DEF Backfill, FilterLabels
  <2>2. e \in j.full => LabelledBut(mail, e, j.snap[e], {}) BY <1>4, <1>6, <2>1
  <2>3. /\ Progress(filters, mail, k) /\ k.at \in {"enforcing", "marking"}
        /\ k.kind = j.kind /\ k.req = j.req /\ k.snap = j.snap /\ k.full = j.full
    BY <1>1, <1>3, <1>6, <2>2, NextGrantProgress
  <2>4. Thorough(job[p])' BY <1>1, <1>5, <2>3, ThoroughOn
  <2> QED BY <1>1, <2>3, <2>4, PrivateEnforced
<1>7. CASE k = [j EXCEPT !.at = "backfilling", !.found = matched]
  <2> HIDE DEF matched
  <2>1. /\ k.at = "backfilling" /\ k.snap = j.snap /\ k.kind = j.kind /\ k.req = j.req
        /\ k.full = j.full /\ k.todo = j.todo /\ k.made = j.made /\ k.listed = j.listed
        /\ k.found = matched
    BY <1>1, <1>7 DEF Jobs
  <2>2. Reached(k) = Reached(j) BY <1>1, <2>1 DEF Reached
  <2>3. Progress(filters, mail, k) BY <1>1, <1>3, <1>4, <2>1, <2>2 DEF Progress
  <2>4. Thorough(job[p])' BY <1>1, <1>5, <2>1, ThoroughOn
  <2> QED BY <1>1, <2>3, <2>4, PrivateEnforced
<1> QED BY <1>1, <1>6, <1>7

LEMMA BatchEnforced ==
    ASSUME ApprovedInv, ApprovedInv', EnforcedInv, NEW p \in Processes, ModifyBatch(p)
    PROVE  EnforcedInv'
<1> DEFINE j == job[p]
           k == job'[p]
           e == First(j.todo)
           L == Backfill(j)
<1>1. /\ j \in Jobs /\ j.at = "backfilling" /\ Sound(j) /\ Thorough(j)
      /\ Progress(filters, mail, j)
      /\ UNCHANGED <<gmail, known, status, grant, filters>>
  BY DEF ModifyBatch, ApprovedInv, TypeOK, EnforcedInv
<1>2. Grows BY <1>1, ModifyGrows DEF ApprovedInv
<1>3. PICK batch \in SUBSET j.found :
         LET left == [j EXCEPT !.found = @ \ batch]
         IN  /\ mail' = [m \in Messages |->
                           IF m \in batch
                           THEN [mail[m] EXCEPT !.labels = @ \cup L]
                           ELSE mail[m]]
             /\ job' = [job EXCEPT ![p] = IF left.found = {} THEN NextGrant(left) ELSE left]
  BY DEF ModifyBatch
<1> DEFINE left == [j EXCEPT !.found = j.found \ batch]
<1>4. /\ job' = [job EXCEPT ![p] = k]
      /\ k = IF left.found = {} THEN NextGrant(left) ELSE left
  BY <1>3 DEF ApprovedInv, TypeOK
<1>5. \A m \in batch : m \in Messages /\ mail[m] \in Mails
  BY <1>1 DEF Sound, Jobs, ApprovedInv, TypeOK
<1>6. \A m \in batch : L \subseteq mail'[m].labels
  <2> HIDE DEF L
  <2> QED BY <1>3, <1>5 DEF Mails
<1>7. /\ left.at = "backfilling" /\ left.snap = j.snap /\ left.kind = j.kind
      /\ left.req = j.req /\ left.full = j.full /\ left.todo = j.todo /\ left.made = j.made
      /\ left.listed = j.listed /\ left.found = j.found \ batch /\ left \in Jobs
  BY <1>1 DEF Jobs
<1> HIDE DEF left
<1>8. Sound(left) BY <1>1, <1>7 DEF Sound, HasAddress
<1>9. Progress(filters', mail', j) BY <1>1, <1>2, ProgressKept DEF EnforcedInv
<1>10. Filtered(filters', e, j.snap[e]) BY <1>1, <1>9 DEF Progress
<1>11. e \in j.full => LabelledBut(mail', e, j.snap[e], left.found)
  <2>1. e \in j.full => LabelledBut(mail', e, j.snap[e], j.found)
    BY <1>1, <1>9 DEF Progress
  <2>2. e \in j.full => L = FilterLabels(j.snap[e]) BY DEF Backfill
  <2> QED BY <1>6, <1>7, <2>1, <2>2 DEF LabelledBut
<1>12. Reached(left) = Reached(j) BY <1>1, <1>7 DEF Reached
<1>13. Progress(filters', mail', left)
  BY <1>1, <1>7, <1>9, <1>10, <1>11, <1>12 DEF Progress
<1>14. CASE left.found = {}
  <2>1. k = NextGrant(left) BY <1>4, <1>14
  <2>2. /\ Progress(filters', mail', k) /\ k.at \in {"enforcing", "marking"}
        /\ k.kind = j.kind /\ k.req = j.req /\ k.snap = j.snap /\ k.full = j.full
    BY <1>7, <1>8, <1>10, <1>11, <1>13, <1>14, <2>1, NextGrantProgress
  <2>3. Thorough(job[p])' BY <1>1, <1>2, <2>2, ThoroughOn
  <2> QED BY <1>1, <1>2, <1>4, <2>2, <2>3, RunEnforced
<1>15. CASE left.found # {}
  <2>1. k = left BY <1>4, <1>15
  <2>2. Thorough(job[p])' BY <1>1, <1>2, <1>7, <2>1, ThoroughOn
  <2> QED BY <1>1, <1>2, <1>4, <1>13, <2>1, <2>2, RunEnforced
<1> QED BY <1>14, <1>15

(* An address the run is through with, and whose old mail it has seen to,  *)
(* has the loaded request in force.                                        *)
LEMMA ReachedInForce ==
    ASSUME NEW j \in Jobs, Sound(j), Progress(filters, mail, j),
           NEW e \in Reached(j), e \in j.full
    PROVE  j.snap[e] \in Requests /\ EmailOf[j.snap[e]] = e /\ InForce(j.snap[e])
<1>1. e \in Emails /\ j.snap[e] # NoRequest BY DEF Reached, Granted
<1>2. j.snap[e] \in Requests /\ EmailOf[j.snap[e]] = e BY <1>1 DEF Jobs, Sound, Agrees
<1> QED BY <1>2, InForceMeans DEF Progress

(* An approval marks its request: it governs and is reached, or it has     *)
(* been overtaken.                                                         *)
LEMMA OwnEnforced ==
    ASSUME ApprovedInv, ApprovedInv', EnforcedInv, NEW p \in Processes, MarkOwn(p)
    PROVE  EnforcedInv'
<1> DEFINE j == job[p]
           r == j.req
<1>1. /\ status' = Applied(r)
      /\ job' = [job EXCEPT ![p] = job'[p]] /\ job'[p].at = "idle"
      /\ UNCHANGED <<gmail, known, grant, filters, mail>>
      /\ j \in Jobs /\ j.at = "marking" /\ j.kind = "approve"
      /\ Sound(j) /\ Thorough(j) /\ Progress(filters, mail, j)
  BY DEF MarkOwn, ApprovedInv, TypeOK, EnforcedInv, Idle
<1>2. /\ Grows
      /\ \A q \in Requests : status'[q] = "applied" /\ status[q] # "applied" =>
            q = r /\ Decided(q)
  BY <1>1, MarkedStatus DEF ApprovedInv, Decided
<1>3. r \in Requests /\ j.full = {EmailOf[r]} BY <1>1 DEF Sound
<1>4. ASSUME grant[EmailOf[r]] = r PROVE InForce(r)
  <2>1. j.snap[EmailOf[r]] = r BY <1>1, <1>4 DEF Thorough, Running
  <2>2. EmailOf[r] \in Reached(j) BY <1>1, <1>3, <2>1, AsksAssumption DEF Reached, Granted
  <2> QED BY <1>1, <1>3, <2>1, <2>2, ReachedInForce
<1>5. Progress(filters', mail', job'[p]) BY <1>1 DEF Progress, Reached
<1>6. Thorough(job[p])' BY <1>1 DEF Thorough, Running
<1> QED BY <1>1, <1>2, <1>4, <1>5, <1>6, RunEnforced

(* A reconciliation marks what it has reached; what it has not seen to     *)
(* was applied before.                                                     *)
LEMMA MarkEnforced ==
    ASSUME ApprovedInv, ApprovedInv', EnforcedInv, NEW p \in Processes, MarkGrant(p)
    PROVE  EnforcedInv'
<1> DEFINE j == job[p]
           k == job'[p]
           e == First(j.todo)
           r == j.snap[e]
<1>1. /\ status' = Applied(r)
      /\ job' = [job EXCEPT ![p] = k] /\ k = Marked(j)
      /\ UNCHANGED <<gmail, known, grant, filters, mail>>
      /\ j \in Jobs /\ j.at = "marking" /\ j.kind = "reconcile"
      /\ Sound(j) /\ Thorough(j) /\ Progress(filters, mail, j)
  BY DEF MarkGrant, ApprovedInv, TypeOK, EnforcedInv
<1>2. /\ Grows
      /\ \A q \in Requests : status'[q] = "applied" /\ status[q] # "applied" =>
            q = r /\ Decided(q) /\ status[q] = "approved"
  BY <1>1, MarkedStatus DEF ApprovedInv, Decided
<1>3. j.todo # {} /\ j.todo \in SUBSET Emails /\ j.todo \subseteq Granted(j.snap)
  BY <1>1 DEF Sound, HasAddress, Jobs
<1>4. e \in Granted(j.snap) BY <1>3, FirstIsMember
<1>5. status[r] = "approved" => InForce(r)
  <2>1. e \in Looked(j) /\ e \in Reached(j) BY <1>1, <1>4 DEF Looked, Reached
  <2>2. status[r] = "approved" => e \in j.full BY <1>1, <2>1 DEF Thorough, Running
  <2> QED BY <1>1, <2>1, <2>2, ReachedInForce
<1>6. CASE j.todo = {e}
  <2>1. k.at = "idle" BY <1>1, <1>6 DEF Marked, Idle
  <2>2. Progress(filters', mail', k) BY <2>1 DEF Progress, Reached
  <2>3. Thorough(job[p])' BY <2>1 DEF Thorough, Running
  <2> QED BY <1>1, <1>2, <1>5, <2>2, <2>3, RunEnforced
<1>7. CASE j.todo # {e}
  <2>1. k = [j EXCEPT !.todo = j.todo \ {e}] BY <1>1, <1>7 DEF Marked
  <2>2. /\ k.at = "marking" /\ k.kind = j.kind /\ k.req = j.req /\ k.snap = j.snap
        /\ k.full = j.full
    <3> HIDE DEF e
    <3> QED BY <1>1, <2>1 DEF Jobs
  <2>3. Reached(k) = Reached(j) BY <1>1, <2>2 DEF Reached
  <2>4. Progress(filters', mail', k) BY <1>1, <2>2, <2>3 DEF Progress
  <2>5. Thorough(job[p])' BY <1>1, <1>2, <2>2, ThoroughOn
  <2> QED BY <1>1, <1>2, <1>5, <2>4, <2>5, RunEnforced
<1> QED BY <1>6, <1>7

LEMMA ApproveEnforced ==
    ASSUME ApprovedInv, ApprovedInv', EnforcedInv, NEW p \in Processes,
           NEW r \in Requests, Approve(p, r)
    PROVE  EnforcedInv'
<1>1. /\ status[r] = "pending"
      /\ status' = [status EXCEPT ![r] = "approved"]
      /\ grant' = [grant EXCEPT ![EmailOf[r]] = r]
      /\ job' = [job EXCEPT ![p] = job'[p]] /\ job'[p].at = "loading"
      /\ job'[p].kind = "approve"
      /\ UNCHANGED <<gmail, known, filters, mail>>
  BY DEF Approve, ApprovedInv, TypeOK, EnforcedInv, Idle
<1>2. Grows BY <1>1 DEF ApprovedInv, TypeOK, Grows, Decided
<1>3. \A q \in Requests : ~(status'[q] = "applied" /\ status[q] # "applied")
  BY <1>1 DEF ApprovedInv, TypeOK
<1>4. Progress(filters', mail', job'[p]) BY <1>1 DEF Progress, Reached
<1>5. Thorough(job[p])' BY <1>1 DEF Thorough
<1> QED BY <1>1, <1>2, <1>3, <1>4, <1>5, RunEnforced

(* Mail, requests and denials touch no run.                                *)
LEMMA OutsideEnforced ==
    ASSUME ApprovedInv, ApprovedInv', EnforcedInv, Grows, UNCHANGED <<gmail, job>>,
           \A q \in Requests : ~(status'[q] = "applied" /\ status[q] # "applied")
    PROVE  EnforcedInv'
<1> DEFINE S == {}
<1>1. S \in SUBSET Processes OBVIOUS
<1>2. \A q \in Processes \ S : job'[q] = job[q] OBVIOUS
<1>3. \A q \in S : Progress(filters', mail', job'[q]) /\ Thorough(job[q])' OBVIOUS
<1> QED BY <1>1, <1>2, <1>3, EnforcedStep

(* With Gmail set up, and one visibility filter for all senders or one     *)
(* process, the request that governs a sender and is marked applied is in  *)
(* force on old and new mail, whatever fails, stops or runs in parallel.   *)
(* Without Gmail an approval is marked applied at once; where overlapping  *)
(* runs regroup several filters, coverage may be lost again.               *)
THEOREM AppliedIsInForce ==
    ASSUME GmailAtStart, CoverageKept
    PROVE  Spec => []CurrentGrantEnforced
<1>1. Init => EnforcedInv
  <2> SUFFICES ASSUME Init PROVE EnforcedInv
    OBVIOUS
  <2>1. CurrentGrantEnforced BY DEF Init, NoGrants, CurrentGrantEnforced
  <2>2. \A p \in Processes : job[p].at = "idle" BY DEF Init, Idle
  <2>3. \A p \in Processes : Progress(filters, mail, job[p])
    BY <2>2 DEF Progress, Reached
  <2>4. \A p \in Processes : Thorough(job[p])
    BY <2>2 DEF Thorough, Running
  <2> QED BY <2>1, <2>3, <2>4 DEF Init, EnforcedInv
<1>2. ApprovedInv /\ ApprovedInv' /\ EnforcedInv /\ [Next]_vars => EnforcedInv'
  <2> SUFFICES ASSUME ApprovedInv, ApprovedInv', EnforcedInv, [Next]_vars PROVE EnforcedInv'
    OBVIOUS
  <2>1. ASSUME NEW p \in Processes, ConfigureGmail(p) PROVE FALSE
    BY <2>1 DEF ConfigureGmail, EnforcedInv
  <2>2. ASSUME NEW l \in Labels, AddLabel(l) PROVE EnforcedInv'
    BY <2>2, Quiet, OutsideEnforced DEF AddLabel
  <2>3. ASSUME NEW m \in Messages, NEW e \in Emails, Arrive(m, e) PROVE EnforcedInv'
    <3>1. UNCHANGED <<gmail, status, job>> BY <2>3 DEF Arrive
    <3> QED BY <2>3, <3>1, ArriveGrows, OutsideEnforced DEF ApprovedInv
  <2>4. ASSUME NEW r \in Requests, Submit(r) \/ Deny(r) PROVE EnforcedInv'
    <3>1. UNCHANGED <<gmail, job>> /\ Grows
      BY <2>4 DEF Submit, Deny, ApprovedInv, TypeOK, Grows, Decided
    <3>2. \A q \in Requests : ~(status'[q] = "applied" /\ status[q] # "applied")
      BY <2>4 DEF Submit, Deny, ApprovedInv, TypeOK
    <3> QED BY <3>1, <3>2, OutsideEnforced
  <2>5. ASSUME NEW p \in Processes, NEW r \in Requests, Approve(p, r) PROVE EnforcedInv'
    BY <2>5, ApproveEnforced
  <2>6. ASSUME NEW p \in Processes, NEW historical \in BOOLEAN, ReconcileAll(p, historical)
        PROVE  EnforcedInv'
    BY <2>6, ReconcileEnforced
  <2>7. ASSUME NEW p \in Processes, Proceed(p) PROVE EnforcedInv'
    BY <2>7, LoadEnforced, ReadEnforced, StopEnforced, ListEnforced, CoverEnforced, GroupEnforced,
       CreateEnforced, SearchEnforced, BatchEnforced, OwnEnforced, MarkEnforced DEF Proceed
  <2>8. ASSUME NEW p \in Processes, Fail(p) PROVE EnforcedInv'
    BY <2>8, StopEnforced
  <2>9. CASE UNCHANGED vars
    <3>1. UNCHANGED <<gmail, known, status, grant, filters, mail, job>> BY <2>9 DEF vars
    <3> QED BY <3>1, Quiet, OutsideEnforced
  <2> QED
    BY <2>1, <2>2, <2>3, <2>4, <2>5, <2>6, <2>7, <2>8, <2>9 DEF Next
<1>3. EnforcedInv => CurrentGrantEnforced BY DEF EnforcedInv
<1> QED BY <1>1, <1>2, <1>3, ManagerInvariant, PTL DEF Spec

-----------------------------------------------------------------------------

(* A change of status is a change of the row that stands for it.           *)
LEMMA RowWritten ==
    ASSUME TypeOK, NEW r \in Requests, NEW s \in Statuses \ {"absent"},
           status' = [status EXCEPT ![r] = s]
    PROVE  /\ status[r] = "absent" =>
                /\ requests[r] = NoRow
                /\ requests' = [requests EXCEPT ![r] =
                                  [status |-> s, action |-> ActionOf[r],
                                   email |-> EmailOf[r], labels |-> LabelsOf[r]]]
           /\ status[r] # "absent" =>
                /\ requests[r] # NoRow /\ requests[r].status = status[r]
                /\ requests[r].action = ActionOf[r] /\ requests[r].email = EmailOf[r]
                /\ requests' = [requests EXCEPT ![r].status = s]
<1>1. status'[r] = s /\ \A q \in Requests \ {r} : status'[q] = status[q] BY DEF TypeOK
<1>2. /\ ActionOf[r] \in {"grant", "update"} /\ EmailOf[r] \in Emails
      /\ LabelsOf[r] \in SUBSET (Labels \ {Visibility})
  BY AsksAssumption
<1>3. CASE status[r] = "absent"
  BY <1>1, <1>3 DEF requests
<1>4. CASE status[r] # "absent"
  <2>1. requests[r] = [status |-> status[r], action |-> ActionOf[r],
                       email |-> EmailOf[r], labels |-> LabelsOf[r]]
    BY <1>4 DEF requests
  <2>2. requests[r] # NoRow
    <3>1. status[r] \in Statuses BY DEF TypeOK
    <3> QED BY <1>2, <2>1, <3>1, SentinelAssumption
  <2>3. [requests[r] EXCEPT !.status = s] =
           [status |-> s, action |-> ActionOf[r], email |-> EmailOf[r], labels |-> LabelsOf[r]]
    BY <2>1
  <2>4. requests' = [requests EXCEPT ![r].status = s]
    BY <1>1, <2>3 DEF requests
  <2> QED BY <1>4, <2>1, <2>2, <2>4
<1> QED BY <1>3, <1>4

LEMMA MarkRefines ==
    ASSUME TypeOK, NEW r, status' = Applied(r), UNCHANGED grant
    PROVE  (r \in Requests /\ Lifecycle!Apply(r)) \/ UNCHANGED <<requests, grant>>
<1>1. CASE r \in Requests /\ status[r] = "approved"
  <2>1. status' = [status EXCEPT ![r] = "applied"] BY <1>1 DEF Applied
  <2> QED BY <1>1, <2>1, RowWritten DEF Statuses, Lifecycle!Apply, Lifecycle!HasStatus
<1>2. CASE ~(r \in Requests /\ status[r] = "approved")
  <2>1. status' = status BY <1>2 DEF Applied, TypeOK
  <2> QED BY <2>1 DEF requests
<1> QED BY <1>1, <1>2

(* Every step is one of the lifecycle or leaves it alone.                  *)
LEMMA StepRefines == TypeOK /\ [Next]_vars => [Lifecycle!Next]_(Lifecycle!vars)
<1> SUFFICES ASSUME TypeOK, [Next]_vars
             PROVE  Lifecycle!Next \/ UNCHANGED <<requests, grant>>
  BY DEF Lifecycle!vars
<1>1. ASSUME NEW r \in Requests, Submit(r) PROVE Lifecycle!Receive(r)
  <2> DEFINE s == IF LabelsOf[r] \subseteq Allowed THEN "pending" ELSE "blocked"
             row == [status |-> s, action |-> ActionOf[r],
                     email |-> EmailOf[r], labels |-> LabelsOf[r]]
  <2>1. s \in {"pending", "blocked"} /\ row.status = s OBVIOUS
  <2>2. row \in Lifecycle!Rows
    BY AsksAssumption DEF Lifecycle!Rows, Lifecycle!Statuses, Lifecycle!Actions
  <2>3. requests[r] = NoRow /\ requests' = [requests EXCEPT ![r] = row]
    BY <1>1, <2>1, RowWritten DEF Submit, Statuses
  <2>4. UNCHANGED grant BY <1>1 DEF Submit
  <2> HIDE DEF row
  <2> QED BY <2>1, <2>2, <2>3, <2>4 DEF Lifecycle!Receive
<1>2. ASSUME NEW r \in Requests, Deny(r) PROVE Lifecycle!Deny(r)
  BY <1>2, RowWritten DEF Deny, Statuses, Lifecycle!Deny, Lifecycle!HasStatus
<1>3. ASSUME NEW p \in Processes, NEW r \in Requests, Approve(p, r) PROVE Lifecycle!Approve(r)
  BY <1>3, RowWritten DEF Approve, Statuses, Lifecycle!Approve, Lifecycle!HasStatus
<1>4. ASSUME NEW p \in Processes, MarkOwn(p) \/ MarkGrant(p)
      PROVE  Lifecycle!Next \/ UNCHANGED <<requests, grant>>
  <2>1. PICK r : status' = Applied(r) /\ UNCHANGED grant BY <1>4 DEF MarkOwn, MarkGrant
  <2> QED BY <2>1, MarkRefines DEF Lifecycle!Next
<1>5. ASSUME UNCHANGED <<status, grant>> PROVE UNCHANGED <<requests, grant>>
  BY <1>5 DEF requests
<1> QED
  BY <1>1, <1>2, <1>3, <1>4, <1>5
     DEF Next, vars, Lifecycle!Next, ConfigureGmail, AddLabel, Arrive, ReconcileAll, Proceed,
         LoadGrants, ReadStatus, LabelMissing, ListFilters, CreateGroupFilter, ReconcileGroup,
         CreateLabelFilter,
         ListMessages, ModifyBatch, Restart, Fail

(* The workflow, crashes and races included, keeps the lifecycle.          *)
THEOREM WorkflowImplementsLifecycle == Spec => RefinesLifecycle
<1>1. Init => Lifecycle!Init
  BY DEF Init, Lifecycle!Init, requests, NoGrants
<1>2. TypeOK /\ [Next]_vars => [Lifecycle!Next]_(Lifecycle!vars)
  BY StepRefines
<1> QED
  BY <1>1, <1>2, ManagerTypeCorrect, PTL DEF Spec, RefinesLifecycle, Lifecycle!Spec

-----------------------------------------------------------------------------

(* What a run is to SenderCoverage.                                        *)
StageOf(j) ==
    IF Granted(j.snap) = {} THEN "idle"
    ELSE IF j.at \in {"enforcing", "backfilling", "marking"} THEN "done"
    ELSE "running"

CoveredBy(F) == {e \in Emails : <<e, Visibility>> \in F}

(* The promise is not concerned.                                           *)
LEMMA CoverageStutters ==
    ASSUME CoveredBy(filters') = CoveredBy(filters), Granted(grant') = Granted(grant),
           \A q \in Processes : /\ Granted(job'[q].snap) = Granted(job[q].snap)
                                /\ StageOf(job'[q]) = StageOf(job[q])
    PROVE  UNCHANGED Coverage!vars
BY DEF CoveredBy, StageOf, Coverage!vars

(* A run moves on with the grants it has.                                  *)
LEMMA RunMovesOn ==
    ASSUME TypeOK, NEW p \in Processes, job' = [job EXCEPT ![p] = job'[p]],
           job'[p].snap = job[p].snap, StageOf(job'[p]) = StageOf(job[p]),
           UNCHANGED grant, CoveredBy(filters') = CoveredBy(filters)
    PROVE  UNCHANGED Coverage!vars
<1>1. \A q \in Processes : q = p \/ job'[q] = job[q] BY DEF TypeOK
<1> QED BY <1>1, CoverageStutters

(* A run begins or is over, whether it had loaded grants or not.           *)
LEMMA RunHoldsNone ==
    ASSUME TypeOK, NEW p \in Processes, job' = [job EXCEPT ![p] = job'[p]],
           job'[p].snap = NoGrants, UNCHANGED <<grant, filters>>
    PROVE  [Coverage!Next]_(Coverage!vars)
<1>1. \A q \in Processes : q = p \/ job'[q] = job[q] BY DEF TypeOK
<1>2. Granted(job'[p].snap) = {} /\ StageOf(job'[p]) = "idle"
  BY DEF Granted, NoGrants, StageOf
<1>3. CASE Granted(job[p].snap) = {}
  <2>1. StageOf(job[p]) = "idle" BY <1>3 DEF StageOf
  <2> QED BY <1>1, <1>2, <1>3, <2>1, CoverageStutters
<1>4. CASE Granted(job[p].snap) # {}
  <2>1. StageOf(job[p]) # "idle" BY <1>4 DEF StageOf
  <2>2. Coverage!End(p)
    BY <1>1, <1>2, <2>1 DEF Coverage!End, StageOf
  <2> QED BY <2>2 DEF Coverage!Next
<1> QED BY <1>3, <1>4

LEMMA ApproveRefines ==
    ASSUME ApprovedInv, NEW p \in Processes, NEW r \in Requests, Approve(p, r)
    PROVE  Coverage!AddGrant(EmailOf[r])
<1>1. /\ job' = [job EXCEPT ![p] = job'[p]] /\ job'[p].snap = NoGrants
      /\ job[p].snap = NoGrants /\ filters' = filters
      /\ grant' = [grant EXCEPT ![EmailOf[r]] = r]
  BY DEF Approve, ApprovedInv, TypeOK, Idle
<1>2. Granted(grant') = Granted(grant) \cup {EmailOf[r]}
  BY <1>1, AsksAssumption DEF Granted, ApprovedInv, TypeOK
<1>3. \A q \in Processes : job'[q].snap = job[q].snap /\ StageOf(job'[q]) = StageOf(job[q])
  <2>1. \A q \in Processes : q = p \/ job'[q] = job[q] BY <1>1 DEF ApprovedInv, TypeOK
  <2>2. StageOf(job'[p]) = "idle" /\ StageOf(job[p]) = "idle"
    BY <1>1 DEF StageOf, Granted, NoGrants
  <2> QED BY <1>1, <2>1, <2>2
<1> QED BY <1>1, <1>2, <1>3 DEF Coverage!AddGrant, StageOf

LEMMA LoadRefines ==
    ASSUME ApprovedInv, NEW p \in Processes, LoadGrants(p)
    PROVE  [Coverage!Next]_(Coverage!vars)
<1> DEFINE j == job[p]
           k == job'[p]
<1>1. /\ job' = [job EXCEPT ![p] = k] /\ j \in Jobs /\ j.snap = NoGrants
      /\ UNCHANGED <<grant, filters>> /\ grant \in [Emails -> Requests \cup {NoRequest}]
  BY DEF LoadGrants, ApprovedInv, TypeOK, Sound
<1>2. CASE grant = NoGrants
  <2>1. k.snap = NoGrants BY <1>2 DEF LoadGrants, ApprovedInv, TypeOK, Idle
  <2> QED BY <1>1, <2>1, RunHoldsNone DEF ApprovedInv
<1>3. CASE grant # NoGrants
  <2>1. k.snap = grant /\ k.at \in {"reading", "listing"}
    BY <1>1, <1>3 DEF LoadGrants, ApprovedInv, TypeOK, Jobs
  <2>2. Granted(grant) # {} BY <1>1, <1>3 DEF NoGrants, Granted
  <2>3. StageOf(j) = "idle" /\ StageOf(k) = "running"
    BY <1>1, <2>1, <2>2 DEF StageOf, Granted, NoGrants
  <2>4. \A q \in Processes : q = p \/ job'[q] = job[q] BY <1>1 DEF ApprovedInv, TypeOK
  <2>5. Coverage!LoadGrants(p)
    BY <1>1, <2>1, <2>3, <2>4 DEF Coverage!LoadGrants, StageOf
  <2> QED BY <2>5 DEF Coverage!Next
<1> QED BY <1>2, <1>3

(* Each group filter of a run covers some of its senders, and in the end   *)
(* all are covered.                                                        *)
LEMMA CoverRefines ==
    ASSUME ApprovedInv, NEW p \in Processes, CreateGroupFilter(p)
    PROVE  Coverage!Cover(p)
<1> DEFINE j == job[p]
<1>1. PICK S \in SUBSET Granted(j.snap) : filters' = filters \cup (S \X {Visibility})
  BY DEF CreateGroupFilter
<1>2. CoveredBy(filters') = CoveredBy(filters) \cup S BY <1>1 DEF CoveredBy, Granted
<1>3. Granted(j.snap) # {} /\ StageOf(j) = "running" /\ UNCHANGED <<grant, job>>
  BY DEF CreateGroupFilter, ApprovedInv, Sound, StageOf
<1> QED BY <1>1, <1>2, <1>3 DEF Coverage!Cover, StageOf, CoveredBy

LEMMA GroupRefines ==
    ASSUME CoverageKept, ApprovedInv, NEW p \in Processes, ReconcileGroup(p)
    PROVE  Coverage!Succeed(p)
<1> DEFINE j == job[p]
           k == job'[p]
<1>0. PICK grew \in SUBSET Emails :
        k = [j EXCEPT !.at = "enforcing", !.grew = grew, !.todo = Granted(j.snap)]
  BY Regrouped DEF ApprovedInv
<1>1. /\ job' = [job EXCEPT ![p] = k] /\ j \in Jobs /\ Granted(j.snap) # {}
      /\ j.at = "grouping" /\ k.at = "enforcing" /\ k.snap = j.snap
      /\ filters' = filters \cup (Granted(j.snap) \X {Visibility}) /\ grant' = grant
  <2>1. j \in Jobs /\ Granted(j.snap) # {} /\ j.at = "grouping" /\ grant' = grant
    BY DEF ReconcileGroup, ApprovedInv, TypeOK, Sound
  <2>2. k.at = "enforcing" /\ k.snap = j.snap BY <1>0, <2>1 DEF Jobs
  <2> QED BY <2>1, <2>2, Regrouped DEF ApprovedInv
<1>2. StageOf(j) = "running" /\ StageOf(k) = "done" BY <1>1 DEF StageOf
<1>3. CoveredBy(filters') = CoveredBy(filters) \cup Granted(j.snap)
  BY <1>1 DEF CoveredBy, Granted
<1>4. \A q \in Processes : q = p \/ job'[q] = job[q] BY <1>1 DEF ApprovedInv, TypeOK
<1> QED BY <1>1, <1>2, <1>3, <1>4 DEF Coverage!Succeed, StageOf, CoveredBy

(* Filters for other labels cover nobody.                                  *)
LEMMA CreateRefines ==
    ASSUME ApprovedInv, NEW p \in Processes, CreateLabelFilter(p)
    PROVE  UNCHANGED Coverage!vars
<1> DEFINE j == job[p]
           k == job'[p]
           e == First(j.todo)
<1>1. PICK l \in ToCreate(j) : filters' = filters \cup {<<e, l>>}
  BY DEF CreateLabelFilter
<1>2. l # Visibility
  <2>1. j.snap[e] \in Requests
    BY BackfillLabels DEF CreateLabelFilter, ApprovedInv
  <2> QED BY <2>1, AsksAssumption DEF ToCreate
<1>3. CoveredBy(filters') = CoveredBy(filters) BY <1>1, <1>2 DEF CoveredBy
<1>4. /\ job' = [job EXCEPT ![p] = k] /\ k.snap = j.snap /\ k.at = j.at
      /\ grant' = grant
  BY DEF CreateLabelFilter, ApprovedInv, TypeOK, Jobs
<1>5. StageOf(k) = StageOf(j) BY <1>4 DEF StageOf
<1> QED BY <1>3, <1>4, <1>5, RunMovesOn DEF ApprovedInv

LEMMA OnwardRefines ==
    ASSUME ApprovedInv, NEW p \in Processes,
           \/ ReadStatus(p) \/ ListFilters(p) \/ ListMessages(p) \/ ModifyBatch(p)
    PROVE  UNCHANGED Coverage!vars
<1> DEFINE j == job[p]
           k == job'[p]
           On(at) == at \in {"enforcing", "backfilling", "marking"}
<1>1. /\ job' = [job EXCEPT ![p] = k] /\ j \in Jobs /\ UNCHANGED <<grant, filters>>
  BY DEF ReadStatus, ListFilters, ListMessages, ModifyBatch, ApprovedInv, TypeOK
<1>2. ASSUME NEW i \in Jobs, On(i.at)
      PROVE  NextGrant(i).snap = i.snap /\ On(NextGrant(i).at)
  BY <1>2 DEF NextGrant, Jobs
<1>3. k.snap = j.snap /\ (On(k.at) <=> On(j.at))
  <2>1. CASE ReadStatus(p) BY <1>1, <2>1 DEF ReadStatus, Jobs
  <2>2. CASE ListFilters(p) BY <1>1, <2>2 DEF ListFilters, Jobs
  <2>3. CASE ListMessages(p)
    <3> DEFINE matched == {m \in Messages : mail[m] # NoMail /\ mail[m].from = First(j.todo)}
    <3>1. j.at = "enforcing" /\ (k = NextGrant(j) \/ k = [j EXCEPT !.at = "backfilling", !.found = matched])
      BY <1>1, <2>3 DEF ListMessages, ApprovedInv, TypeOK
    <3> HIDE DEF matched
    <3> QED BY <1>1, <1>2, <3>1 DEF Jobs
  <2>4. CASE ModifyBatch(p)
    <3>1. PICK batch \in SUBSET j.found : k \in {NextGrant([j EXCEPT !.found = @ \ batch]),
                                                [j EXCEPT !.found = @ \ batch]}
      BY <1>1, <2>4 DEF ModifyBatch, ApprovedInv, TypeOK
    <3> DEFINE left == [j EXCEPT !.found = @ \ batch]
    <3>2. left \in Jobs /\ left.snap = j.snap /\ left.at = j.at /\ On(j.at)
      BY <1>1, <2>4 DEF Jobs, ModifyBatch
    <3>3. k \in {NextGrant(left), left} BY <3>1
    <3> HIDE DEF left, On
    <3> QED BY <1>2, <3>2, <3>3
  <2> QED BY <2>1, <2>2, <2>3, <2>4
<1>4. StageOf(k) = StageOf(j) BY <1>3 DEF StageOf
<1> QED BY <1>1, <1>3, <1>4, RunMovesOn DEF ApprovedInv

LEMMA MarkedRefines ==
    ASSUME ApprovedInv, NEW p \in Processes, MarkOwn(p) \/ MarkGrant(p)
    PROVE  [Coverage!Next]_(Coverage!vars)
<1> DEFINE j == job[p]
           k == job'[p]
<1>1. /\ job' = [job EXCEPT ![p] = k] /\ j \in Jobs /\ j.at = "marking"
      /\ UNCHANGED <<grant, filters>> /\ (k = Idle \/ k = [j EXCEPT !.todo = @ \ {First(@)}])
  BY DEF MarkOwn, MarkGrant, Marked, ApprovedInv, TypeOK
<1>2. CASE k = Idle
  <2>1. k.snap = NoGrants BY <1>2 DEF Idle
  <2> QED BY <1>1, <2>1, RunHoldsNone DEF ApprovedInv
<1>3. CASE k = [j EXCEPT !.todo = @ \ {First(@)}]
  <2>1. k.snap = j.snap /\ k.at = j.at BY <1>1, <1>3 DEF Jobs
  <2>2. StageOf(k) = StageOf(j) BY <2>1 DEF StageOf
  <2> QED BY <1>1, <2>1, <2>2, RunMovesOn DEF ApprovedInv
<1> QED BY <1>1, <1>2, <1>3

LEMMA CoverageRefines ==
    ASSUME CoverageKept
    PROVE  ApprovedInv /\ [Next]_vars => [Coverage!Next]_(Coverage!vars)
<1> SUFFICES ASSUME ApprovedInv, [Next]_vars PROVE [Coverage!Next]_(Coverage!vars)
  OBVIOUS
<1> DEFINE Goal == [Coverage!Next]_(Coverage!vars)
<1>1. ASSUME UNCHANGED <<grant, filters, job>> PROVE Goal
  BY <1>1, CoverageStutters
<1>2. ASSUME NEW p \in Processes, NEW r \in Requests, Approve(p, r) PROVE Goal
  BY <1>2, ApproveRefines, AsksAssumption DEF Coverage!Next
<1>3. ASSUME NEW p \in Processes, NEW historical \in BOOLEAN, ReconcileAll(p, historical)
      PROVE  Goal
  BY <1>3, RunHoldsNone DEF ReconcileAll, ApprovedInv, TypeOK, Idle
<1>4. ASSUME NEW p \in Processes, LabelMissing(p) \/ Fail(p) \/ Restart(p) PROVE Goal
  BY <1>4, RunHoldsNone DEF LabelMissing, Fail, Restart, ApprovedInv, TypeOK, Idle
<1>5. ASSUME NEW p \in Processes, Proceed(p) PROVE Goal
  BY <1>4, <1>5, LoadRefines, CoverRefines, GroupRefines, CreateRefines, OnwardRefines, MarkedRefines
     DEF Proceed, Coverage!Next
<1>6. ASSUME NEW m \in Messages, NEW e \in Emails, Arrive(m, e) PROVE Goal
  BY <1>1, <1>6 DEF Arrive
<1>7. ASSUME NEW r \in Requests, Submit(r) \/ Deny(r) PROVE Goal
  BY <1>1, <1>7 DEF Submit, Deny
<1>8. ASSUME (\E p \in Processes : ConfigureGmail(p)) \/ (\E l \in Labels : AddLabel(l)) PROVE Goal
  BY <1>1, <1>8 DEF ConfigureGmail, AddLabel
<1>9. ASSUME UNCHANGED vars PROVE Goal
  BY <1>1, <1>9 DEF vars
<1> QED
  <2> HIDE DEF Goal
  <2>1. Goal BY <1>2, <1>3, <1>4, <1>5, <1>6, <1>7, <1>8, <1>9 DEF Next
  <2> QED BY <2>1 DEF Goal

(* What the workflow takes for the calls of a run for the group filters,   *)
(* failures and races included, is what SenderCoverage says of them, with  *)
(* one filter for all senders or one process.                              *)
THEOREM WorkflowImplementsCoverage ==
    ASSUME CoverageKept
    PROVE  Spec => RefinesCoverage
<1>1. Init => Coverage!Init
  BY DEF Init, Coverage!Init, NoGrants, Granted, Idle
<1> QED
  BY <1>1, CoverageRefines, ManagerInvariant, PTL DEF Spec, RefinesCoverage, Coverage!Spec
=============================================================================
