------------------------------- MODULE Manager -------------------------------
(***************************************************************************)
(* internal/manager/manager.go with gmail.ReconcileGrants: from a request  *)
(* to labelled mail.  An approval commits a grant, then reads all grants   *)
(* back, lists the mailbox's filters, creates what is missing, labels old  *)
(* mail, and only then marks its request applied.  "gmail reconcile"       *)
(* repeats the Gmail part for every grant, and so repairs approvals whose  *)
(* Gmail part failed.  Any of these steps may be the last of its process.  *)
(*                                                                         *)
(* The store's methods are single steps here (StateStore takes them        *)
(* apart).  Of the grouped visibility filters it has what                  *)
(* VisibilityFilters comes to: a run covers its senders, some at a time,   *)
(* and a covered sender stays covered, except where overlapping runs       *)
(* regroup senders that need several filters: there the deletions of a     *)
(* run may take the coverage of any sender away.                           *)
(* Left out: gmail_filter_id, which no decision reads, filters made by     *)
(* hand, and the audit log.                                                *)
(***************************************************************************)
EXTENDS Naturals

CONSTANTS
    Requests,     \* request ids
    Emails,       \* addresses, as numbers: grants are listed in this order
    Labels,       \* Gmail labels
    Visibility,   \* the label that makes a sender visible
    Allowed,      \* classification labels the policy lets through
    EmailOf, LabelsOf, ActionOf,   \* what each request asks for
    SendersFit,   \* whether one filter has room for all the senders
    GmailAtStart, \* whether Gmail is configured before the first approval
    KnownAtStart, \* labels that exist in the mailbox from the beginning
    Messages,     \* bound: messages that ever arrive
    Processes,    \* Discord handlers and command-line runs
    NoRow, NoRequest, NoMail

ASSUME EmailsAssumption == Emails \subseteq Nat
ASSUME AsksAssumption ==
    /\ EmailOf \in [Requests -> Emails]
    /\ LabelsOf \in [Requests -> SUBSET (Labels \ {Visibility})]
    /\ ActionOf \in [Requests -> {"grant", "update"}]
    /\ Visibility \in Labels /\ Allowed \subseteq Labels
    /\ NoRequest \notin Requests
    /\ SendersFit \in BOOLEAN /\ GmailAtStart \in BOOLEAN
    /\ KnownAtStart \subseteq Labels

Statuses == {"absent", "pending", "blocked", "denied", "approved", "applied"}

Mails == [from : Emails, labels : SUBSET Labels]

ASSUME SentinelAssumption ==
    /\ NoMail \notin Mails
    /\ NoRow \notin [status : Statuses, action : {"grant", "update"},
                    email : Emails, labels : SUBSET (Labels \ {Visibility})]

VARIABLES
    gmail,        \* cfg.GmailConfigured() in each process
    known,        \* labels that exist in the mailbox
    status,       \* status of each request row, "absent" without a row
    grant,        \* address -> the request its grant was created from
    filters,      \* <<address, label>> pairs the mailbox's filters apply
    mail,         \* the messages: sender and labels
    job           \* what each process is doing

vars == <<gmail, known, status, grant, filters, mail, job>>

NoGrants == [e \in Emails |-> NoRequest]

(* kind and request of the run; the grants it loaded; the filters it       *)
(* listed; the addresses whose visibility filter it created; whose old     *)
(* mail gets every label; the addresses and messages left; the labels      *)
(* created for the address at hand.                                        *)
Idle == [at |-> "idle", kind |-> "none", req |-> NoRequest, snap |-> NoGrants,
         listed |-> {}, grew |-> {}, full |-> {}, todo |-> {},
         made |-> {}, found |-> {}]

Jobs == [at : {"idle", "loading", "reading", "listing", "grouping",
               "enforcing", "backfilling", "marking", "failed"},
         kind : {"none", "approve", "reconcile"},
         req : Requests \cup {NoRequest},
         snap : [Emails -> Requests \cup {NoRequest}],
         listed : SUBSET (Emails \X Labels),
         grew : SUBSET Emails, full : SUBSET Emails, todo : SUBSET Emails,
         made : SUBSET Labels, found : SUBSET Messages]

(* CompileGrant: the labels a request puts on its sender's mail.           *)
FilterLabels(r) == LabelsOf[r] \cup {Visibility}

Granted(snap) == {e \in Emails : snap[e] # NoRequest}

(* Where a run never takes the coverage of a sender away: all senders are  *)
(* in one filter, or no two runs overlap.                                  *)
CoverageKept == SendersFit \/ \A p, q \in Processes : p = q

(* The next address of a loop over grants, which are sorted by address.    *)
First(S) == CHOOSE e \in S : \A d \in S : e <= d

-----------------------------------------------------------------------------

Init ==
    /\ gmail = [p \in Processes |-> GmailAtStart] /\ known = KnownAtStart
    /\ status = [r \in Requests |-> "absent"]
    /\ grant = NoGrants
    /\ filters = {}
    /\ mail = [m \in Messages |-> NoMail]
    /\ job = [p \in Processes |-> Idle]

(* Mail arrives, and Gmail applies the filters of its sender.              *)
Arrive(m, e) ==
    /\ mail[m] = NoMail
    /\ mail' = [mail EXCEPT ![m] =
                   [from |-> e, labels |-> {l \in Labels : <<e, l>> \in filters}]]
    /\ UNCHANGED <<gmail, known, status, grant, filters, job>>

(* A process is started again after the Gmail set-up is complete: it reads *)
(* its configuration once.                                                 *)
ConfigureGmail(p) ==
    /\ job[p].at = "idle" /\ ~gmail[p]
    /\ gmail' = [gmail EXCEPT ![p] = TRUE]
    /\ UNCHANGED <<known, status, grant, filters, mail, job>>

(* Only the owner creates labels; the program takes them as they are.      *)
AddLabel(l) ==
    /\ l \notin known
    /\ known' = known \cup {l}
    /\ UNCHANGED <<gmail, status, grant, filters, mail, job>>

(* Submit: policy.Evaluate blocks what asks for labels not allowed.        *)
Submit(r) ==
    /\ status[r] = "absent"
    /\ status' = [status EXCEPT ![r] =
                     IF LabelsOf[r] \subseteq Allowed THEN "pending" ELSE "blocked"]
    /\ UNCHANGED <<gmail, known, grant, filters, mail, job>>

Deny(r) ==
    /\ status[r] = "pending"
    /\ status' = [status EXCEPT ![r] = "denied"]
    /\ UNCHANGED <<gmail, known, grant, filters, mail, job>>

ApproveAnyStatus(p, r) ==
    /\ job[p].at = "idle"
    /\ status[r] \in {"pending", "blocked"}
    /\ ActionOf[r] = "update" => grant[EmailOf[r]] # NoRequest
    /\ status' = [status EXCEPT ![r] = "approved"]
    /\ grant' = [grant EXCEPT ![EmailOf[r]] = r]
    /\ job' = [job EXCEPT ![p] =
                  [Idle EXCEPT !.at = IF gmail[p] THEN "loading" ELSE "marking",
                               !.kind = "approve", !.req = r, !.full = {EmailOf[r]}]]
    /\ UNCHANGED <<gmail, known, filters, mail>>

(* Approve, as far as the store: the grant is committed.  Without Gmail    *)
(* the request is marked applied at once.                                  *)
Approve(p, r) ==
    /\ job[p].at = "idle"
    /\ status[r] = "pending"
    /\ ActionOf[r] = "update" => grant[EmailOf[r]] # NoRequest
    /\ status' = [status EXCEPT ![r] = "approved"]
    /\ grant' = [grant EXCEPT ![EmailOf[r]] = r]
    /\ job' = [job EXCEPT ![p] =
                  [Idle EXCEPT !.at = IF gmail[p] THEN "loading" ELSE "marking",
                               !.kind = "approve", !.req = r, !.full = {EmailOf[r]}]]
    /\ UNCHANGED <<gmail, known, filters, mail>>

(* ReconcileAll with apply; with --backfill-historical every sender's old  *)
(* mail gets every label.                                                  *)
ReconcileAll(p, historical) ==
    /\ job[p].at = "idle"
    /\ gmail[p]
    /\ job' = [job EXCEPT ![p] =
                  [Idle EXCEPT !.at = "loading", !.kind = "reconcile",
                               !.full = IF historical THEN Emails ELSE {}]]
    /\ UNCHANGED <<gmail, known, status, grant, filters, mail>>

LoadGrantsOnly(p) ==
    /\ job[p].at = "loading"
    /\ job' = [job EXCEPT ![p] = IF grant = NoGrants THEN Idle
                                 ELSE [@ EXCEPT !.at = "listing", !.snap = grant]]
    /\ UNCHANGED <<gmail, known, status, grant, filters, mail>>

(* ListGrants.  A reconciliation goes on to look at the grants' requests;  *)
(* without any grant it has nothing to do.                                 *)
LoadGrants(p) ==
    /\ job[p].at = "loading"
    /\ LET look == job[p].kind = "reconcile" /\ job[p].full = {}
       IN  job' = [job EXCEPT ![p] =
                      IF grant = NoGrants THEN Idle
                      ELSE [@ EXCEPT !.at = IF look THEN "reading" ELSE "listing",
                                     !.snap = grant,
                                     !.todo = IF look THEN Granted(grant) ELSE {}]]
    /\ UNCHANGED <<gmail, known, status, grant, filters, mail>>

(* GetRequest of each grant's request: one still approved has old mail     *)
(* that a failed approval may not have reached.                            *)
ReadStatus(p) ==
    /\ job[p].at = "reading"
    /\ LET j == job[p]
           e == First(j.todo)
       IN  job' = [job EXCEPT ![p] =
                      [j EXCEPT !.at = IF j.todo = {e} THEN "listing" ELSE "reading",
                                !.todo = @ \ {e},
                                !.full = IF status[j.snap[e]] = "approved"
                                         THEN @ \cup {e} ELSE @]]
    /\ UNCHANGED <<gmail, known, status, grant, filters, mail>>

Needed(snap) == UNION {FilterLabels(snap[e]) : e \in Granted(snap)}

(* The labels of all grants are looked up first: one that does not exist   *)
(* fails the run for every sender, before any filter is created.           *)
LabelMissing(p) ==
    /\ job[p].at = "listing"
    /\ ~(Needed(job[p].snap) \subseteq known)
    /\ job' = [job EXCEPT ![p] = [Idle EXCEPT !.at = "failed"]]
    /\ UNCHANGED <<gmail, known, status, grant, filters, mail>>

(* ReconcileGrants looks at the mailbox's filters once.                    *)
ListFilters(p) ==
    /\ job[p].at = "listing"
    /\ Needed(job[p].snap) \subseteq known
    /\ job' = [job EXCEPT ![p] = [@ EXCEPT !.at = "grouping", !.listed = filters]]
    /\ UNCHANGED <<gmail, known, status, grant, filters, mail>>

(* reconcileVisibilityGroup creates one filter after the other, as its     *)
(* plan has it; each covers some of the senders.                           *)
CreateGroupFilter(p) ==
    /\ job[p].at = "grouping"
    /\ \E S \in SUBSET Granted(job[p].snap) : filters' = filters \cup (S \X {Visibility})
    /\ UNCHANGED <<gmail, known, status, grant, mail, job>>

ReconcileOwn(p) ==
    /\ job[p].at = "grouping"
    /\ LET own == Granted(job[p].snap) \cap job[p].full
       IN  /\ filters' = filters \cup (own \X {Visibility})
           /\ \E grew \in SUBSET own :
                 /\ \A e \in own : <<e, Visibility>> \notin job[p].listed => e \in grew
                 /\ job' = [job EXCEPT ![p] =
                               [@ EXCEPT !.at = "enforcing", !.grew = grew,
                                         !.todo = Granted(job[p].snap)]]
    /\ UNCHANGED <<gmail, known, status, grant, mail>>

(* In the end all are covered, and filters not needed any more are         *)
(* deleted, after the last creation.  A sender's filter has been created   *)
(* if the sender was not covered, or to regroup covered ones; what is said *)
(* of a filter is said of every sender in it.                              *)
ReconcileGroup(p) ==
    /\ job[p].at = "grouping"
    /\ LET wanted == Granted(job[p].snap)
       IN  /\ \E lost \in IF CoverageKept THEN {{}} ELSE SUBSET Emails :
                 filters' = (filters \cup (wanted \X {Visibility})) \ (lost \X {Visibility})
           /\ \E grew \in IF SendersFit THEN {{}, wanted} ELSE SUBSET wanted :
                 /\ \A e \in wanted : <<e, Visibility>> \notin job[p].listed => e \in grew
                 /\ job' = [job EXCEPT ![p] =
                               [@ EXCEPT !.at = "enforcing", !.grew = grew, !.todo = wanted]]
    /\ UNCHANGED <<gmail, known, status, grant, mail>>

(* Classification labels of the address at hand without a listed filter.   *)
ToCreate(j) ==
    LET e == First(j.todo)
    IN  {l \in LabelsOf[j.snap[e]] : <<e, l>> \notin j.listed} \ j.made

CreateLabelFilter(p) ==
    /\ job[p].at = "enforcing"
    /\ \E l \in ToCreate(job[p]) :
          /\ filters' = filters \cup {<<First(job[p].todo), l>>}
          /\ job' = [job EXCEPT ![p].made = @ \cup {l}]
    /\ UNCHANGED <<gmail, known, status, grant, mail>>

(* The labels old mail of the address at hand gets: those that were just   *)
(* created, or all of the grant's.                                         *)
Backfill(j) ==
    LET e == First(j.todo)
    IN  IF e \in j.full THEN FilterLabels(j.snap[e])
        ELSE j.made \cup (IF e \in j.grew THEN {Visibility} ELSE {})

NextGrantKeepingLabels(j) ==
    LET left == j.todo \ {First(j.todo)}
    IN  IF left # {}
        THEN [j EXCEPT !.at = "enforcing", !.todo = left]
        ELSE [j EXCEPT !.at = "marking", !.todo = Granted(j.snap), !.made = {}]

(* On to the next address; after the last, every grant is enforced.        *)
NextGrant(j) ==
    LET left == j.todo \ {First(j.todo)}
    IN  IF left # {}
        THEN [j EXCEPT !.at = "enforcing", !.todo = left, !.made = {}]
        ELSE [j EXCEPT !.at = "marking", !.todo = Granted(j.snap), !.made = {}]

(* BackfillLabelsForSender: the messages found, to be labelled in batches. *)
ListMessages(p) ==
    /\ job[p].at = "enforcing"
    /\ ToCreate(job[p]) = {}
    /\ LET j == job[p]
           matched == {m \in Messages : mail[m] # NoMail /\ mail[m].from = First(j.todo)}
       IN  job' = [job EXCEPT ![p] =
                      IF Backfill(j) = {} \/ matched = {} THEN NextGrant(j)
                      ELSE [j EXCEPT !.at = "backfilling", !.found = matched]]
    /\ UNCHANGED <<gmail, known, status, grant, filters, mail>>

ModifyBatch(p) ==
    /\ job[p].at = "backfilling"
    /\ \E batch \in (SUBSET job[p].found) \ {{}} :
          LET left == [job[p] EXCEPT !.found = @ \ batch]
          IN  /\ mail' = [m \in Messages |->
                            IF m \in batch
                            THEN [mail[m] EXCEPT !.labels = @ \cup Backfill(job[p])]
                            ELSE mail[m]]
              /\ job' = [job EXCEPT ![p] = IF left.found = {} THEN NextGrant(left) ELSE left]
    /\ UNCHANGED <<gmail, known, status, grant, filters>>

Applied(r) == [status EXCEPT ![r] = IF @ = "approved" THEN "applied" ELSE @]

(* MarkRequestApplied: an approval marks its own request, a                *)
(* reconciliation the request of each grant it loaded.                     *)
MarkOwn(p) ==
    /\ job[p].at = "marking" /\ job[p].kind = "approve"
    /\ status' = Applied(job[p].req)
    /\ job' = [job EXCEPT ![p] = Idle]
    /\ UNCHANGED <<gmail, known, grant, filters, mail>>

MarkedStopping(j) ==
    IF j.todo = {First(j.todo)} THEN [j EXCEPT !.at = "idle"]
    ELSE [j EXCEPT !.todo = @ \ {First(@)}]

(* A reconciliation is over with its last grant marked.                    *)
Marked(j) ==
    IF j.todo = {First(j.todo)} THEN Idle ELSE [j EXCEPT !.todo = @ \ {First(@)}]

MarkNothing(p) ==
    /\ job[p].at = "marking" /\ job[p].kind = "reconcile"
    /\ job' = [job EXCEPT ![p] = Marked(@)]
    /\ UNCHANGED <<gmail, known, status, grant, filters, mail>>

MarkGrant(p) ==
    /\ job[p].at = "marking" /\ job[p].kind = "reconcile"
    /\ status' = Applied(job[p].snap[First(job[p].todo)])
    /\ job' = [job EXCEPT ![p] = Marked(@)]
    /\ UNCHANGED <<gmail, known, grant, filters, mail>>

(* A call to Gmail or to the database fails, or the process dies.          *)
Fail(p) ==
    /\ job[p].at \notin {"idle", "failed"}
    /\ job' = [job EXCEPT ![p] = [Idle EXCEPT !.at = "failed"]]
    /\ UNCHANGED <<gmail, known, status, grant, filters, mail>>

(* The failure has been reported, or the process is started again.         *)
Restart(p) ==
    /\ job[p].at = "failed"
    /\ job' = [job EXCEPT ![p] = Idle]
    /\ UNCHANGED <<gmail, known, status, grant, filters, mail>>

(* What a run does next by itself.                                         *)
Proceed(p) ==
    \/ LoadGrants(p) \/ ReadStatus(p)
    \/ LabelMissing(p) \/ ListFilters(p) \/ CreateGroupFilter(p) \/ ReconcileGroup(p)
    \/ CreateLabelFilter(p) \/ ListMessages(p) \/ ModifyBatch(p)
    \/ MarkOwn(p) \/ MarkGrant(p)
    \/ Restart(p)

Next ==
    \/ \E l \in Labels : AddLabel(l)
    \/ \E m \in Messages, e \in Emails : Arrive(m, e)
    \/ \E r \in Requests : Submit(r) \/ Deny(r)
    \/ \E p \in Processes :
          \/ ConfigureGmail(p)
          \/ \E r \in Requests : Approve(p, r)
          \/ \E historical \in BOOLEAN : ReconcileAll(p, historical)
          \/ Proceed(p)
          \/ Fail(p)

Spec == Init /\ [][Next]_vars

(* Gmail is set up at some time and the processes are started again with   *)
(* it, labels that are missing are created, the operator reconciles again  *)
(* and again, a run that can go on does, and from some time on nothing     *)
(* else fails.                                                             *)
Calm ==
    /\ \A p \in Processes : WF_vars(ConfigureGmail(p))
    /\ \A l \in Labels : WF_vars(AddLabel(l))
    /\ \A p \in Processes : WF_vars(Proceed(p) \/ ReconcileAll(p, FALSE))
    /\ <>[][\A p \in Processes : ~Fail(p)]_vars

-----------------------------------------------------------------------------
(* Properties                                                              *)

(* Rows, mail and runs hold what they may, and an idle process keeps       *)
(* nothing of its last run.                                                *)
TypeOK ==
    /\ gmail \in [Processes -> BOOLEAN] /\ known \subseteq Labels
    /\ status \in [Requests -> Statuses]
    /\ grant \in [Emails -> Requests \cup {NoRequest}]
    /\ filters \subseteq Emails \X Labels
    /\ mail \in [Messages -> Mails \cup {NoMail}]
    /\ job \in [Processes -> Jobs]
    /\ \A p \in Processes : job[p].at = "idle" => job[p] = Idle

(* A request that governs its sender and is marked applied is in force:    *)
(* filters for all its labels, and all of the sender's mail labelled, old  *)
(* and new, whatever failed on the way.  Runs in parallel are no exception *)
(* while one visibility filter has room for all senders (CoverageKept).    *)
InForce(r) ==
    \A l \in FilterLabels(r) :
        /\ <<EmailOf[r], l>> \in filters
        /\ \A m \in Messages :
              mail[m] # NoMail /\ mail[m].from = EmailOf[r] => l \in mail[m].labels

CurrentGrantEnforced ==
    \A e \in Emails : grant[e] # NoRequest /\ status[grant[e]] = "applied"
        => InForce(grant[e])

(* Mail carries only labels that an approved request of its very sender    *)
(* asked for and the policy lets through.                                  *)
OnlyApprovedLabels ==
    \A m \in Messages : mail[m] # NoMail =>
        \A l \in mail[m].labels : \E r \in Requests :
            /\ status[r] \in {"approved", "applied"}
            /\ EmailOf[r] = mail[m].from
            /\ l \in FilterLabels(r)
            /\ l \in Allowed \cup {Visibility}

(* The request that governs a sender is in the end applied: an approval    *)
(* whose Gmail part failed, for the want of a label too, of whichever      *)
(* sender, is repaired by a later reconciliation.                          *)
CurrentGrantGetsApplied ==
    \A r \in Requests :
        (status[r] = "approved" /\ grant[EmailOf[r]] = r)
            ~> (status[r] = "applied" \/ grant[EmailOf[r]] # r)

CalmAppliesCurrentGrant == Calm => CurrentGrantGetsApplied

(* The workflow, crashes and races included, keeps the one-step lifecycle. *)
requests ==
    [r \in Requests |->
        IF status[r] = "absent" THEN NoRow
        ELSE [status |-> status[r], action |-> ActionOf[r],
              email |-> EmailOf[r], labels |-> LabelsOf[r]]]

Lifecycle == INSTANCE RequestLifecycle WITH
    LabelSets <- SUBSET (Labels \ {Visibility}), governedBy <- grant

RefinesLifecycle == Lifecycle!Spec

(* Where coverage is kept, the steps for the group filters are those that  *)
(* VisibilityFilters implements, call by call.                             *)
Coverage == INSTANCE SenderCoverage WITH
    Senders <- Emails, Runs <- Processes,
    grants <- Granted(grant),
    covered <- {e \in Emails : <<e, Visibility>> \in filters},
    group <- [p \in Processes |-> Granted(job[p].snap)],
    stage <- [p \in Processes |->
                 IF Granted(job[p].snap) = {} THEN "idle"
                 ELSE IF job[p].at \in {"enforcing", "backfilling", "marking"} THEN "done"
                 ELSE "running"]

RefinesCoverage == Coverage!Spec

(* Said of "gmail reconcile --apply": newly managed labels are backfilled  *)
(* onto matching historical messages.                                      *)
ReconcileBackfillsManagedLabels ==
    \A p \in Processes : job[p].at = "marking" /\ job[p].kind = "reconcile" =>
        \A e \in Granted(job[p].snap), m \in Messages :
            mail[m] # NoMail /\ mail[m].from = e =>
                FilterLabels(job[p].snap[e]) \subseteq mail[m].labels
=============================================================================
