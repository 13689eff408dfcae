----------------------------- MODULE StateStore -----------------------------
(***************************************************************************)
(* internal/state/state.go: the SQLite tables of requests and grants and   *)
(* the methods that write them, called at the same time by the daemon's    *)
(* Discord handlers and by command-line processes on the same file.        *)
(*                                                                         *)
(* The database runs in WAL mode with deferred transactions.  A            *)
(* transaction reads the snapshot of its first SELECT; its first write     *)
(* takes the single write lock, and fails (SQLITE_BUSY_SNAPSHOT) when any  *)
(* other connection has committed since that snapshot.  A statement        *)
(* outside a transaction commits by itself.                                *)
(*                                                                         *)
(* Left out: the columns no decision depends on (who asked, rationale,     *)
(* time stamps, policy reasons), and the read-only list methods.           *)
(***************************************************************************)
CONSTANTS
    Requests, Emails, LabelSets,
    FilterIDs,    \* Gmail filter ids that can be recorded on a grant
    Callers,      \* goroutines and processes that may have a call in flight
    NoRow, NoGrant, NoRequest, NoFilter, NoCaller

VARIABLES
    requests,     \* table requests: id -> row or NoRow
    grants,       \* table grants: email -> row or NoGrant
    lock,         \* the connection that holds SQLite's write lock
    call          \* the method call of each caller, and how far it got

vars == <<requests, grants, lock, call>>

Statuses == {"pending", "blocked", "denied", "approved", "applied"}
Actions == {"grant", "update"}

Rows == [status : Statuses, action : Actions, email : Emails,
         labels : LabelSets]

Grants == [from : Requests, labels : LabelSets,
           filter : FilterIDs \cup {NoFilter}]

ASSUME SentinelAssumption ==
    /\ NoRow \notin Rows /\ NoGrant \notin Grants
    /\ NoRequest \notin Requests /\ NoCaller \notin Callers

(* Where a call can be between two statements.  "granting" and "refusing"  *)
(* hold the write lock, with their writes not yet committed.               *)
Steps == {"idle", "approving", "granting", "looking",
          "denying", "refusing", "marking"}

(* The row a call read, and whether a commit has outdated its snapshot.    *)
Calls == [at : Steps, id : Requests \cup {NoRequest},
          row : Rows \cup {NoRow}, stale : BOOLEAN]

Idle == [at |-> "idle", id |-> NoRequest, row |-> NoRow, stale |-> FALSE]

Reading(step, r) ==
    [at |-> step, id |-> r, row |-> requests[r], stale |-> FALSE]

-----------------------------------------------------------------------------
(* Transactions                                                            *)

NoTransaction(c) == FALSE

(* A call that has read inside BeginTx but not yet written: the snapshot   *)
(* that another commit outdates.                                           *)
InTx(c) == c.at \in {"approving", "denying"}

(* The callers after one of them, p, commits and goes on as "next".        *)
AfterCommit(p, next) ==
    [q \in Callers |->
        IF q = p THEN next
        ELSE IF InTx(call[q]) THEN [call[q] EXCEPT !.stale = TRUE]
        ELSE call[q]]

(* The first write of transaction p: needs the lock and a fresh snapshot.  *)
TakeLock(p, from, to) ==
    /\ call[p].at = from
    /\ lock = NoCaller
    /\ ~call[p].stale
    /\ lock' = p
    /\ call' = [call EXCEPT ![p].at = to]
    /\ UNCHANGED <<requests, grants>>

-----------------------------------------------------------------------------

Init ==
    /\ requests = [r \in Requests |-> NoRow]
    /\ grants = [e \in Emails |-> NoGrant]
    /\ lock = NoCaller
    /\ call = [p \in Callers |-> Idle]

(* Submit: one INSERT; the primary key refuses an id already stored.       *)
Submit(r) ==
    /\ lock = NoCaller
    /\ requests[r] = NoRow
    /\ \E row \in Rows :
          /\ row.status \in {"pending", "blocked"}
          /\ requests' = [requests EXCEPT ![r] = row]
    /\ call' = AfterCommit(NoCaller, Idle)
    /\ UNCHANGED <<grants, lock>>

ApproveUnchecked(p, r) ==
    /\ call[p].at = "idle"
    /\ requests[r] # NoRow
    /\ requests[r].action = "update" => grants[requests[r].email] # NoGrant
    /\ call' = [call EXCEPT ![p] = Reading("approving", r)]
    /\ UNCHANGED <<requests, grants, lock>>

ApproveAnyAction(p, r) ==
    /\ call[p].at = "idle"
    /\ requests[r] # NoRow
    /\ requests[r].status = "pending"
    /\ call' = [call EXCEPT ![p] = Reading("approving", r)]
    /\ UNCHANGED <<requests, grants, lock>>

(* Approve up to its first write: both SELECTs see the same snapshot.      *)
ApproveRead(p, r) ==
    /\ call[p].at = "idle"
    /\ requests[r] # NoRow
    /\ requests[r].status = "pending"
    /\ requests[r].action = "update" => grants[requests[r].email] # NoGrant
    /\ call' = [call EXCEPT ![p] = Reading("approving", r)]
    /\ UNCHANGED <<requests, grants, lock>>

UpsertAndReset(r, row) == [from |-> r, labels |-> row.labels, filter |-> NoFilter]

(* INSERT INTO grants ... ON CONFLICT(email) DO UPDATE: the filter id is   *)
(* not among the updated columns.                                          *)
Upsert(r, row) ==
    [from |-> r, labels |-> row.labels,
     filter |-> IF grants[row.email] = NoGrant THEN NoFilter
                ELSE grants[row.email].filter]

ApproveWrite(p) == TakeLock(p, "approving", "granting")

(* The grant and the request row change together, at COMMIT.               *)
ApproveCommit(p) ==
    /\ call[p].at = "granting"
    /\ LET r == call[p].id
           row == call[p].row
       IN  /\ grants' = [grants EXCEPT ![row.email] = Upsert(r, row)]
           /\ requests' = [requests EXCEPT ![r].status = "approved"]
    /\ lock' = NoCaller
    /\ call' = AfterCommit(p, [call[p] EXCEPT !.at = "looking"])

(* Approve's last read, after the commit and outside the transaction.      *)
LookupGrant(p) ==
    /\ call[p].at = "looking"
    /\ grants[call[p].row.email] # NoGrant
    /\ call' = [call EXCEPT ![p] = Idle]
    /\ UNCHANGED <<requests, grants, lock>>

DenyUnchecked(p, r) ==
    /\ call[p].at = "idle"
    /\ requests[r] # NoRow
    /\ call' = [call EXCEPT ![p] = Reading("denying", r)]
    /\ UNCHANGED <<requests, grants, lock>>

DenyRead(p, r) ==
    /\ call[p].at = "idle"
    /\ requests[r] # NoRow
    /\ requests[r].status = "pending"
    /\ call' = [call EXCEPT ![p] = Reading("denying", r)]
    /\ UNCHANGED <<requests, grants, lock>>

DenyWrite(p) == TakeLock(p, "denying", "refusing")

DenyCommit(p) ==
    /\ call[p].at = "refusing"
    /\ requests' = [requests EXCEPT ![call[p].id].status = "denied"]
    /\ lock' = NoCaller
    /\ call' = AfterCommit(p, Idle)
    /\ UNCHANGED grants

(* MarkRequestApplied reads outside any transaction; a request already     *)
(* applied is a success with nothing to write.                             *)
MarkRead(p, r) ==
    /\ call[p].at = "idle"
    /\ requests[r] # NoRow
    /\ requests[r].status = "approved"
    /\ call' = [call EXCEPT ![p] = Reading("marking", r)]
    /\ UNCHANGED <<requests, grants, lock>>

(* UPDATE ... WHERE status = 'approved'; the row count is not looked at.   *)
MarkUpdate(p) ==
    /\ call[p].at = "marking"
    /\ lock = NoCaller
    /\ LET r == call[p].id
       IN  IF requests[r].status = "approved"
           THEN /\ requests' = [requests EXCEPT ![r].status = "applied"]
                /\ call' = AfterCommit(p, Idle)
           ELSE /\ call' = [call EXCEPT ![p] = Idle]
                /\ UNCHANGED requests
    /\ UNCHANGED <<grants, lock>>

SetGrantFilterID(e, f) ==
    /\ lock = NoCaller
    /\ grants[e] # NoGrant
    /\ grants' = [grants EXCEPT ![e].filter = f]
    /\ call' = AfterCommit(NoCaller, Idle)
    /\ UNCHANGED <<requests, lock>>

RollbackKeepingLock(p) ==
    /\ call[p].at # "idle"
    /\ call' = [call EXCEPT ![p] = Idle]
    /\ UNCHANGED <<requests, grants, lock>>

(* Any statement of a call fails (busy, outdated snapshot, cancelled       *)
(* context) or its process dies: what it has not committed is gone.        *)
Rollback(p) ==
    /\ call[p].at # "idle"
    /\ call' = [call EXCEPT ![p] = Idle]
    /\ lock' = IF lock = p THEN NoCaller ELSE lock
    /\ UNCHANGED <<requests, grants>>

Next ==
    \/ \E r \in Requests : Submit(r)
    \/ \E e \in Emails, f \in FilterIDs : SetGrantFilterID(e, f)
    \/ \E p \in Callers :
          \/ \E r \in Requests : ApproveRead(p, r) \/ DenyRead(p, r) \/ MarkRead(p, r)
          \/ ApproveWrite(p) \/ ApproveCommit(p) \/ LookupGrant(p)
          \/ DenyWrite(p) \/ DenyCommit(p)
          \/ MarkUpdate(p)
          \/ Rollback(p)

Spec == Init /\ [][Next]_vars

-----------------------------------------------------------------------------
(* Properties                                                              *)

(* The tables and the calls hold what their columns and locals can hold,   *)
(* and the write lock is held exactly while a transaction has written and  *)
(* not yet committed or rolled back.                                       *)
TypeOK ==
    /\ requests \in [Requests -> Rows \cup {NoRow}]
    /\ grants \in [Emails -> Grants \cup {NoGrant}]
    /\ lock \in Callers \cup {NoCaller}
    /\ call \in [Callers -> Calls]
    /\ \A p \in Callers : lock = p <=> call[p].at \in {"granting", "refusing"}

(* Every grant is the work of an approved request for that very address,   *)
(* with that request's labels; and the address of every approved request   *)
(* has a grant.  No pair of racing decisions leaves the two tables apart.  *)
GrantsFollowApprovals ==
    /\ \A e \in Emails : grants[e] # NoGrant =>
          LET row == requests[grants[e].from]
          IN  /\ row # NoRow
              /\ row.status \in {"approved", "applied"}
              /\ row.email = e /\ row.labels = grants[e].labels
    /\ \A r \in Requests :
          requests[r] # NoRow /\ requests[r].status \in {"approved", "applied"}
              => grants[requests[r].email] # NoGrant

(* What a call may still write is decided on the current rows: a           *)
(* transaction that can take the lock, or holds it, has read its request   *)
(* pending as it still is; a call past the transaction finds the row it    *)
(* decided or marks.                                                       *)
ReadIsCurrent(c) ==
    /\ c.id \in Requests /\ c.row # NoRow
    /\ requests[c.id] = c.row /\ c.row.status = "pending"

DecisionsReadCurrentRows ==
    \A p \in Callers :
        /\ InTx(call[p]) => call[p].stale \/ ReadIsCurrent(call[p])
        /\ lock = p => ReadIsCurrent(call[p])
        /\ (call[p].at = "approving" /\ ~call[p].stale) \/ call[p].at = "granting" =>
              (call[p].row.action = "update" => grants[call[p].row.email] # NoGrant)
        /\ call[p].at = "looking" =>
              call[p].row # NoRow /\ grants[call[p].row.email] # NoGrant
        /\ call[p].at = "marking" =>
              call[p].id \in Requests /\ requests[call[p].id] # NoRow

(* A decision is made once: a stored request never goes away or changes    *)
(* its content, a blocked, denied or applied one never moves again, and an *)
(* approved one can only become applied.                                   *)
DecisionIsFinalStep ==
    \A r \in Requests : requests[r] # NoRow /\ requests'[r] # requests[r] =>
        /\ requests'[r] = [requests[r] EXCEPT !.status = requests'[r].status]
        /\ <<requests[r].status, requests'[r].status>> \in
              {<<"pending", "approved">>, <<"pending", "denied">>,
               <<"approved", "applied">>}

DecisionIsFinal == [][DecisionIsFinalStep]_vars

(* Approving again for an address keeps the Gmail filter its grant is      *)
(* bound to, and binding a filter never changes who governs the address.   *)
FilterBindingStep ==
    \A e \in Emails : grants[e] # NoGrant =>
        /\ grants'[e] # NoGrant
        /\ \/ grants'[e].filter = grants[e].filter
           \/ grants'[e].from = grants[e].from /\ grants'[e].labels = grants[e].labels

FilterBindingKept == [][FilterBindingStep]_vars

(* The concurrent, transactional store does what the one-step lifecycle    *)
(* promises.                                                               *)
governedBy ==
    [e \in Emails |-> IF grants[e] = NoGrant THEN NoRequest ELSE grants[e].from]

Lifecycle == INSTANCE RequestLifecycle

RefinesLifecycle == Lifecycle!Spec

(* Whatever the order of submissions and racing approvals, no update of    *)
(* labels is how an address comes to be governed: a grant was approved.    *)
GrantComesFirst == Lifecycle!GrantComesFirst
=============================================================================
