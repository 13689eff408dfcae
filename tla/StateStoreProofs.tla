-------------------------- MODULE StateStoreProofs --------------------------
(***************************************************************************)
(* What the store guarantees for any number of requests, addresses and     *)
(* callers.  The inductive invariant adds to the type and to the agreement *)
(* of the two tables what a transaction knows: as long as its snapshot is  *)
(* current, or once it holds the write lock, the row it read has not moved.*)
(***************************************************************************)
EXTENDS StateStore, TLAPS

StoreInv == TypeOK /\ GrantsFollowApprovals /\ DecisionsReadCurrentRows

USE SentinelAssumption

(* A fresh database with no call in flight satisfies the invariant.        *)
LEMMA InitEstablishesStoreInv == Init => StoreInv
  BY DEF Init, StoreInv, TypeOK, GrantsFollowApprovals, DecisionsReadCurrentRows,
         Idle, Calls, Steps, InTx, ReadIsCurrent

(* Every statement of every call keeps the types and the lock discipline.  *)
LEMMA TypeStep == TypeOK /\ DecisionsReadCurrentRows /\ [Next]_vars => TypeOK'
<1> SUFFICES ASSUME TypeOK, DecisionsReadCurrentRows, [Next]_vars
             PROVE  TypeOK'
  OBVIOUS
<1> USE DEF TypeOK
<1>1. Idle \in Calls
  BY DEF Idle, Calls, Steps
<1>2. ASSUME NEW r \in Requests, Submit(r) PROVE TypeOK'
  BY <1>1, <1>2 DEF Submit, AfterCommit, Calls, InTx
<1>3. ASSUME NEW e \in Emails, NEW f \in FilterIDs, SetGrantFilterID(e, f)
      PROVE  TypeOK'
  BY <1>1, <1>3 DEF SetGrantFilterID, AfterCommit, Calls, InTx, Grants
<1>4. ASSUME NEW p \in Callers, NEW r \in Requests, ApproveRead(p, r)
      PROVE  TypeOK'
  BY <1>4 DEF ApproveRead, Reading, Calls, Steps
<1>5. ASSUME NEW p \in Callers, NEW r \in Requests, DenyRead(p, r)
      PROVE  TypeOK'
  BY <1>5 DEF DenyRead, Reading, Calls, Steps
<1>6. ASSUME NEW p \in Callers, NEW r \in Requests, MarkRead(p, r)
      PROVE  TypeOK'
  BY <1>6 DEF MarkRead, Reading, Calls, Steps
<1>7. ASSUME NEW p \in Callers, ApproveWrite(p) \/ DenyWrite(p) PROVE TypeOK'
  BY <1>7 DEF ApproveWrite, DenyWrite, TakeLock, Calls, Steps
<1>8. ASSUME NEW p \in Callers, ApproveCommit(p) PROVE TypeOK'
  <2>1. call[p].id \in Requests /\ call[p].row \in Rows
    BY <1>8 DEF ApproveCommit, DecisionsReadCurrentRows, ReadIsCurrent, Calls
  <2>2. Upsert(call[p].id, call[p].row) \in Grants
    BY <2>1 DEF Upsert, Grants, Rows
  <2>3. requests' \in [Requests -> Rows \cup {NoRow}]
    BY <1>8, <2>1 DEF ApproveCommit, DecisionsReadCurrentRows, ReadIsCurrent, Rows, Statuses
  <2>4. grants' \in [Emails -> Grants \cup {NoGrant}]
    BY <1>8, <2>2 DEF ApproveCommit
  <2>5. call' \in [Callers -> Calls]
    BY <1>8 DEF ApproveCommit, AfterCommit, Calls, Steps
  <2>6. \A q \in Callers : lock' = q <=> call'[q].at \in {"granting", "refusing"}
    BY <1>8 DEF ApproveCommit, AfterCommit, Calls
  <2> QED
    BY <1>8, <2>3, <2>4, <2>5, <2>6 DEF ApproveCommit
<1>9. ASSUME NEW p \in Callers, LookupGrant(p) PROVE TypeOK'
  BY <1>1, <1>9 DEF LookupGrant, Idle
<1>10. ASSUME NEW p \in Callers, DenyCommit(p) PROVE TypeOK'
  <2>1. requests' \in [Requests -> Rows \cup {NoRow}]
    BY <1>10 DEF DenyCommit, DecisionsReadCurrentRows, ReadIsCurrent, Rows, Statuses
  <2>2. call' \in [Callers -> Calls]
    BY <1>1, <1>10 DEF DenyCommit, AfterCommit, Calls, Steps
  <2>3. \A q \in Callers : lock' = q <=> call'[q].at \in {"granting", "refusing"}
    BY <1>10 DEF DenyCommit, AfterCommit, Calls, Idle
  <2> QED
    BY <1>10, <2>1, <2>2, <2>3 DEF DenyCommit
<1>11. ASSUME NEW p \in Callers, MarkUpdate(p) PROVE TypeOK'
  <2>1. requests' \in [Requests -> Rows \cup {NoRow}]
    BY <1>11 DEF MarkUpdate, DecisionsReadCurrentRows, Rows, Statuses
  <2>2. call' \in [Callers -> Calls]
    <3>1. call' = AfterCommit(p, Idle) \/ call' = [call EXCEPT ![p] = Idle]
      BY <1>11 DEF MarkUpdate
    <3>2. AfterCommit(p, Idle) \in [Callers -> Calls]
      BY <1>1 DEF AfterCommit, Calls
    <3>3. [call EXCEPT ![p] = Idle] \in [Callers -> Calls]
      BY <1>1
    <3> QED
      BY <3>1, <3>2, <3>3
  <2>3. \A q \in Callers : lock' = q <=> call'[q].at \in {"granting", "refusing"}
    BY <1>11 DEF MarkUpdate, AfterCommit, Calls, Idle
  <2> QED
    BY <1>11, <2>1, <2>2, <2>3 DEF MarkUpdate
<1>12. ASSUME NEW p \in Callers, Rollback(p) PROVE TypeOK'
  BY <1>1, <1>12 DEF Rollback, Idle
<1>13. CASE UNCHANGED vars
  BY <1>13 DEF vars
<1> QED
  BY <1>2, <1>3, <1>4, <1>5, <1>6, <1>7, <1>8, <1>9, <1>10, <1>11, <1>12, <1>13 DEF Next

(* Whatever writes the two tables keeps them in agreement: a commit of     *)
(* Approve changes both, and every other write starts from a pending or an *)
(* approved row.                                                           *)
LEMMA GrantsStep == StoreInv /\ [Next]_vars => GrantsFollowApprovals'
<1> SUFFICES ASSUME StoreInv, [Next]_vars
             PROVE  GrantsFollowApprovals'
  OBVIOUS
<1> USE DEF StoreInv
<1>1. ASSUME UNCHANGED <<requests, grants>> PROVE GrantsFollowApprovals'
  BY <1>1 DEF GrantsFollowApprovals
<1>2. ASSUME NEW r \in Requests, Submit(r) PROVE GrantsFollowApprovals'
  BY <1>2 DEF Submit, GrantsFollowApprovals, TypeOK, Rows, Grants
<1>3. ASSUME NEW e \in Emails, NEW f \in FilterIDs, SetGrantFilterID(e, f)
      PROVE  GrantsFollowApprovals'
  BY <1>3 DEF SetGrantFilterID, GrantsFollowApprovals, TypeOK, Rows, Grants
<1>4. ASSUME NEW p \in Callers, ApproveCommit(p) PROVE GrantsFollowApprovals'
  <2> DEFINE r == call[p].id
             row == call[p].row
  <2>1. r \in Requests /\ row \in Rows /\ requests[r] = row /\ row.status = "pending"
    BY <1>4 DEF ApproveCommit, TypeOK, DecisionsReadCurrentRows, ReadIsCurrent, Calls
  <2>2. grants' = [grants EXCEPT ![row.email] = Upsert(r, row)]
    BY <1>4 DEF ApproveCommit
  <2>3. requests' = [requests EXCEPT ![r].status = "approved"]
    BY <1>4 DEF ApproveCommit
  <2>4. /\ Upsert(r, row).from = r /\ Upsert(r, row).labels = row.labels
        /\ Upsert(r, row) # NoGrant /\ row.email \in Emails
    <3>1. Upsert(r, row) \in Grants
      BY <2>1 DEF Upsert, Grants, Rows, TypeOK
    <3> QED
      BY <2>1, <3>1 DEF Upsert, Rows
  <2>5. /\ requests'[r] = [row EXCEPT !.status = "approved"]
        /\ requests'[r] \in Rows
        /\ \A q \in Requests \ {r} : requests'[q] = requests[q]
    BY <2>1, <2>3 DEF TypeOK, Rows, Statuses
  <2>6. ASSUME NEW e \in Emails, grants'[e] # NoGrant
        PROVE  LET now == requests'[grants'[e].from]
               IN  /\ now # NoRow
                   /\ now.status \in {"approved", "applied"}
                   /\ now.email = e /\ now.labels = grants'[e].labels
    <3>1. CASE e = row.email
      BY <2>1, <2>2, <2>4, <2>5, <3>1 DEF TypeOK, Rows
    <3>2. CASE e # row.email
      <4>1. grants'[e] = grants[e] /\ grants[e] \in Grants
        BY <2>2, <2>6, <3>2 DEF TypeOK
      <4>2. grants[e].from # r
        BY <2>1, <2>6, <4>1 DEF GrantsFollowApprovals
      <4> QED
        BY <2>5, <2>6, <4>1, <4>2 DEF GrantsFollowApprovals, Grants
    <3> QED
      BY <3>1, <3>2
  <2>7. ASSUME NEW q \in Requests, requests'[q] # NoRow,
               requests'[q].status \in {"approved", "applied"}
        PROVE  grants'[requests'[q].email] # NoGrant
    <3>1. CASE q = r
      BY <2>2, <2>4, <2>5, <3>1 DEF TypeOK, Rows
    <3>2. CASE q # r
      BY <2>2, <2>4, <2>5, <2>7, <3>2 DEF TypeOK, Rows, GrantsFollowApprovals
    <3> QED
      BY <3>1, <3>2
  <2> QED
    BY <2>6, <2>7 DEF GrantsFollowApprovals
<1>5. ASSUME NEW p \in Callers, DenyCommit(p) PROVE GrantsFollowApprovals'
  <2>1. /\ call[p].id \in Requests /\ requests[call[p].id] \in Rows
        /\ requests[call[p].id].status = "pending"
    BY <1>5 DEF DenyCommit, TypeOK, DecisionsReadCurrentRows, ReadIsCurrent
  <2> QED
    BY <1>5, <2>1 DEF DenyCommit, GrantsFollowApprovals, TypeOK, Rows, Grants
<1>6. ASSUME NEW p \in Callers, MarkUpdate(p) PROVE GrantsFollowApprovals'
  <2>1. call[p].id \in Requests /\ requests[call[p].id] \in Rows
    BY <1>6 DEF MarkUpdate, TypeOK, DecisionsReadCurrentRows
  <2>2. CASE requests[call[p].id].status = "approved"
    <3>1. requests' = [requests EXCEPT ![call[p].id].status = "applied"] /\ grants' = grants
      BY <1>6, <2>2 DEF MarkUpdate
    <3>2. \A q \in Requests :
             \/ requests'[q] = requests[q]
             \/ /\ requests'[q] # NoRow /\ requests'[q].status = "applied"
                /\ requests[q] # NoRow /\ requests[q].status = "approved"
                /\ requests'[q].email = requests[q].email
                /\ requests'[q].labels = requests[q].labels
      BY <2>1, <2>2, <3>1 DEF TypeOK, Rows, Statuses
    <3>3. \A e \in Emails : grants[e] # NoGrant => grants[e].from \in Requests
      BY DEF TypeOK, Grants
    <3>4. ASSUME NEW r \in Requests, requests'[r] # NoRow,
                 requests'[r].status \in {"approved", "applied"}
          PROVE  grants'[requests'[r].email] # NoGrant
      <4>1. /\ requests[r] # NoRow /\ requests[r].status \in {"approved", "applied"}
            /\ requests'[r].email = requests[r].email
        BY <3>2, <3>4
      <4> QED
        BY <3>1, <4>1 DEF GrantsFollowApprovals
    <3>5. ASSUME NEW e \in Emails, grants[e] # NoGrant
          PROVE  LET row == requests'[grants[e].from]
                 IN  /\ row # NoRow
                     /\ row.status \in {"approved", "applied"}
                     /\ row.email = e /\ row.labels = grants[e].labels
      BY <3>2, <3>3, <3>5 DEF GrantsFollowApprovals
    <3> QED
      BY <3>1, <3>4, <3>5 DEF GrantsFollowApprovals
  <2>3. CASE requests[call[p].id].status # "approved"
    BY <1>1, <1>6, <2>3 DEF MarkUpdate
  <2> QED
    BY <2>2, <2>3
<1> QED
  BY <1>1, <1>2, <1>3, <1>4, <1>5, <1>6
     DEF Next, vars, ApproveRead, ApproveWrite, LookupGrant, DenyRead, DenyWrite,
         MarkRead, Rollback, TakeLock

(* What a commit does to the calls of the other callers.                   *)
LEMMA OthersAfterCommit ==
  ASSUME TypeOK, NEW p, NEW next, call' = AfterCommit(p, next),
         NEW q \in Callers, q # p
  PROVE  /\ call'[q].at = call[q].at /\ call'[q].id = call[q].id
         /\ call'[q].row = call[q].row
         /\ InTx(call'[q]) => call'[q].stale
  BY DEF AfterCommit, TypeOK, Calls, InTx

(* A commit outdates every other open snapshot and needs the lock nobody   *)
(* else holds, so no read that may still be written down goes out of date. *)
LEMMA ReadsStep == StoreInv /\ [Next]_vars => DecisionsReadCurrentRows'
<1> SUFFICES ASSUME StoreInv, [Next]_vars
             PROVE  DecisionsReadCurrentRows'
  OBVIOUS
<1> USE DEF StoreInv
<1>1. ASSUME NEW r \in Requests, Submit(r) PROVE DecisionsReadCurrentRows'
  BY <1>1 DEF Submit, AfterCommit, TypeOK, DecisionsReadCurrentRows, ReadIsCurrent, InTx, Calls
<1>2. ASSUME NEW e \in Emails, NEW f \in FilterIDs, SetGrantFilterID(e, f)
      PROVE  DecisionsReadCurrentRows'
  BY <1>2 DEF SetGrantFilterID, AfterCommit, TypeOK, DecisionsReadCurrentRows, ReadIsCurrent,
              InTx, Calls, Grants, Rows
<1>3. ASSUME NEW p \in Callers, NEW r \in Requests, ApproveRead(p, r) \/ DenyRead(p, r)
      PROVE  DecisionsReadCurrentRows'
  BY <1>3 DEF ApproveRead, DenyRead, Reading, TypeOK, DecisionsReadCurrentRows, ReadIsCurrent,
              InTx, Calls
<1>4. ASSUME NEW p \in Callers, NEW r \in Requests, MarkRead(p, r)
      PROVE  DecisionsReadCurrentRows'
  BY <1>4 DEF MarkRead, Reading, TypeOK, DecisionsReadCurrentRows, ReadIsCurrent, InTx, Calls
<1>5. ASSUME NEW p \in Callers, ApproveWrite(p) \/ DenyWrite(p)
      PROVE  DecisionsReadCurrentRows'
  BY <1>5 DEF ApproveWrite, DenyWrite, TakeLock, TypeOK, DecisionsReadCurrentRows, ReadIsCurrent,
              InTx, Calls
<1>6. ASSUME NEW p \in Callers, ApproveCommit(p) PROVE DecisionsReadCurrentRows'
  <2>1. \A q \in Callers : q # p => call[q].at \notin {"granting", "refusing"} /\ lock' # q
    BY <1>6 DEF ApproveCommit, TypeOK
  <2>2. lock' # p /\ call'[p] = [call[p] EXCEPT !.at = "looking"]
    BY <1>6 DEF ApproveCommit, AfterCommit, TypeOK
  <2>3. \A q \in Callers : q # p =>
           /\ call'[q].at = call[q].at /\ call'[q].id = call[q].id
           /\ call'[q].row = call[q].row
           /\ InTx(call'[q]) => call'[q].stale
    BY <1>6, OthersAfterCommit DEF ApproveCommit
  <2>4. /\ call[p].row \in Rows /\ call[p].id \in Requests
        /\ requests[call[p].id] = call[p].row
    BY <1>6 DEF ApproveCommit, TypeOK, DecisionsReadCurrentRows, ReadIsCurrent, Calls
  <2>5. Upsert(call[p].id, call[p].row) # NoGrant
    BY <2>4 DEF Upsert, Grants, Rows, TypeOK
  <2>6. \A e \in Emails : grants[e] # NoGrant => grants'[e] # NoGrant
    BY <1>6, <2>5 DEF ApproveCommit, TypeOK
  <2>7. grants'[call[p].row.email] # NoGrant
    BY <1>6, <2>4, <2>5 DEF ApproveCommit, TypeOK, Rows
  <2>8. \A r \in Requests : requests[r] # NoRow => requests'[r] # NoRow
    BY <1>6, <2>4 DEF ApproveCommit, TypeOK, Rows, Statuses
  <2>9. \A q \in Callers : call[q].row # NoRow => call[q].row.email \in Emails
    BY DEF TypeOK, Calls, Rows
  <2>10. ASSUME NEW q \in Callers, q # p
         PROVE  /\ InTx(call'[q]) => call'[q].stale
                /\ ~(call'[q].at = "approving" /\ ~call'[q].stale)
                /\ call'[q].at # "granting"
                /\ call'[q].at = "looking" =>
                     call'[q].row # NoRow /\ grants'[call'[q].row.email] # NoGrant
                /\ call'[q].at = "marking" =>
                     call'[q].id \in Requests /\ requests'[call'[q].id] # NoRow
    BY <2>1, <2>3, <2>6, <2>8, <2>9, <2>10 DEF DecisionsReadCurrentRows, InTx
  <2>11. call'[p].at = "looking" /\ call'[p].row = call[p].row
    BY <2>2 DEF TypeOK, Calls
  <2> QED
    BY <2>1, <2>2, <2>4, <2>7, <2>10, <2>11 DEF DecisionsReadCurrentRows, InTx, Rows
<1>7. ASSUME NEW p \in Callers, DenyCommit(p) PROVE DecisionsReadCurrentRows'
  <2>1. \A q \in Callers : q # p => call[q].at \notin {"granting", "refusing"} /\ lock' # q
    BY <1>7 DEF DenyCommit, TypeOK
  <2>2. lock' # p /\ call'[p] = Idle
    BY <1>7 DEF DenyCommit, AfterCommit, TypeOK
  <2>3. \A q \in Callers : q # p =>
           /\ call'[q].at = call[q].at /\ call'[q].id = call[q].id
           /\ call'[q].row = call[q].row
           /\ InTx(call'[q]) => call'[q].stale
    BY <1>7, OthersAfterCommit DEF DenyCommit
  <2>4. \A r \in Requests : requests[r] # NoRow => requests'[r] # NoRow
    BY <1>7 DEF DenyCommit, TypeOK, DecisionsReadCurrentRows, ReadIsCurrent, Rows, Statuses
  <2>5. ASSUME NEW q \in Callers, q # p
        PROVE  /\ InTx(call'[q]) => call'[q].stale
               /\ ~(call'[q].at = "approving" /\ ~call'[q].stale)
               /\ call'[q].at # "granting"
               /\ call'[q].at = "looking" =>
                    call'[q].row # NoRow /\ grants'[call'[q].row.email] # NoGrant
               /\ call'[q].at = "marking" =>
                    call'[q].id \in Requests /\ requests'[call'[q].id] # NoRow
    BY <1>7, <2>1, <2>3, <2>4, <2>5 DEF DenyCommit, DecisionsReadCurrentRows, InTx
  <2> QED
    BY <2>1, <2>2, <2>5 DEF DecisionsReadCurrentRows, InTx, Idle
<1>8. ASSUME NEW p \in Callers, MarkUpdate(p) PROVE DecisionsReadCurrentRows'
  <2>1. /\ call[p].id \in Requests /\ requests[call[p].id] # NoRow
        /\ grants' = grants /\ lock' = lock /\ lock = NoCaller
    BY <1>8 DEF MarkUpdate, DecisionsReadCurrentRows
  <2>2. CASE requests[call[p].id].status = "approved"
    <3>1. call' = AfterCommit(p, Idle)
          /\ requests' = [requests EXCEPT ![call[p].id].status = "applied"]
      BY <1>8, <2>2 DEF MarkUpdate
    <3>2. \A r \in Requests : requests[r] # NoRow => requests'[r] # NoRow
      BY <2>1, <3>1 DEF TypeOK, Rows, Statuses
    <3>3. \A q \in Callers : q # p =>
             /\ call'[q].at = call[q].at /\ call'[q].id = call[q].id
             /\ call'[q].row = call[q].row
             /\ InTx(call'[q]) => call'[q].stale
      BY <3>1, OthersAfterCommit
    <3>4. call'[p] = Idle
      BY <3>1 DEF AfterCommit
    <3>5. \A q \in Callers : lock' # q /\ call[q].at # "granting"
      BY <2>1 DEF TypeOK
    <3> QED
      BY <2>1, <3>2, <3>3, <3>4, <3>5 DEF DecisionsReadCurrentRows, InTx, Idle
  <2>3. CASE requests[call[p].id].status # "approved"
    <3>1. requests' = requests /\ call' = [call EXCEPT ![p] = Idle]
      BY <1>8, <2>3 DEF MarkUpdate
    <3> QED
      BY <2>1, <3>1 DEF TypeOK, DecisionsReadCurrentRows, ReadIsCurrent, InTx, Idle
  <2> QED
    BY <2>2, <2>3
<1>9. ASSUME NEW p \in Callers, LookupGrant(p) \/ Rollback(p)
      PROVE  DecisionsReadCurrentRows'
  BY <1>9 DEF LookupGrant, Rollback, TypeOK, DecisionsReadCurrentRows, ReadIsCurrent,
              InTx, Calls, Idle
<1>10. CASE UNCHANGED vars
  BY <1>10 DEF vars, DecisionsReadCurrentRows, ReadIsCurrent, InTx
<1> QED
  BY <1>1, <1>2, <1>3, <1>4, <1>5, <1>6, <1>7, <1>8, <1>9, <1>10 DEF Next

-----------------------------------------------------------------------------

(* The rows, the calls and the write lock always hold what they may hold.  *)
(* Every transaction that can still commit decides on rows as they are,    *)
(* and the tables of requests and grants never come apart.                 *)
THEOREM StoreInvariant == Spec => []StoreInv
<1>1. Init => StoreInv
  BY InitEstablishesStoreInv
<1>2. StoreInv /\ [Next]_vars => StoreInv'
  BY TypeStep, GrantsStep, ReadsStep DEF StoreInv
<1> QED
  BY <1>1, <1>2, PTL DEF Spec

(* The types and the lock discipline hold for any number of callers.       *)
THEOREM StoreTypeCorrect == Spec => []TypeOK
  BY StoreInvariant, PTL DEF StoreInv

(* Every grant is the work of an approved request for its address, and     *)
(* every approved request's address has a grant, in every reachable state. *)
THEOREM GrantsAlwaysFollowApprovals == Spec => []GrantsFollowApprovals
  BY StoreInvariant, PTL DEF StoreInv

(* No transaction writes down a decision taken on an outdated row.         *)
THEOREM OnlyCurrentReadsDecide == Spec => []DecisionsReadCurrentRows
  BY StoreInvariant, PTL DEF StoreInv

-----------------------------------------------------------------------------

(* The request row that a committing transaction decides is pending.       *)
LEMMA CommitDecidesPendingRow ==
  ASSUME StoreInv, NEW p \in Callers, call[p].at \in {"granting", "refusing"}
  PROVE  /\ call[p].id \in Requests /\ call[p].row \in Rows
         /\ requests[call[p].id] = call[p].row /\ call[p].row.status = "pending"
         /\ call[p].at = "granting" => (call[p].row.action = "update"
                => grants[call[p].row.email] # NoGrant)
  BY DEF StoreInv, TypeOK, DecisionsReadCurrentRows, ReadIsCurrent, Calls

(* The only writes to a stored request row: a decision on a pending row or *)
(* the end of enforcement of an approved one.                              *)
LEMMA RowWrites ==
  ASSUME StoreInv, Next, NEW r \in Requests, requests[r] # NoRow
  PROVE  \/ requests'[r] = requests[r]
         \/ /\ requests[r].status = "pending"
            /\ requests'[r] = [requests[r] EXCEPT !.status = "approved"]
         \/ /\ requests[r].status = "pending"
            /\ requests'[r] = [requests[r] EXCEPT !.status = "denied"]
         \/ /\ requests[r].status = "approved"
            /\ requests'[r] = [requests[r] EXCEPT !.status = "applied"]
<1> DEFINE Goal == \/ requests'[r] = requests[r]
                   \/ /\ requests[r].status = "pending"
                      /\ requests'[r] = [requests[r] EXCEPT !.status = "approved"]
                   \/ /\ requests[r].status = "pending"
                      /\ requests'[r] = [requests[r] EXCEPT !.status = "denied"]
                   \/ /\ requests[r].status = "approved"
                      /\ requests'[r] = [requests[r] EXCEPT !.status = "applied"]
<1> USE DEF StoreInv
<1>1. ASSUME NEW q \in Requests, Submit(q) PROVE Goal
  BY <1>1 DEF Submit, TypeOK
<1>2. ASSUME NEW p \in Callers, ApproveCommit(p) PROVE Goal
  BY <1>2, CommitDecidesPendingRow DEF ApproveCommit, TypeOK
<1>3. ASSUME NEW p \in Callers, DenyCommit(p) PROVE Goal
  BY <1>3, CommitDecidesPendingRow DEF DenyCommit, TypeOK
<1>4. ASSUME NEW p \in Callers, MarkUpdate(p) PROVE Goal
  BY <1>4 DEF MarkUpdate, TypeOK
<1>5. ASSUME UNCHANGED requests PROVE Goal
  BY <1>5
<1> QED
  BY <1>1, <1>2, <1>3, <1>4, <1>5
     DEF Next, SetGrantFilterID, ApproveRead, ApproveWrite, LookupGrant, DenyRead,
         DenyWrite, MarkRead, Rollback, TakeLock

(* A stored request is never lost or rewritten, is decided at most once,   *)
(* and only an approved one is ever applied, however the calls interleave. *)
THEOREM DecisionsAreFinal == Spec => DecisionIsFinal
<1>1. StoreInv /\ [Next]_vars => [DecisionIsFinalStep]_vars
  <2> SUFFICES ASSUME StoreInv, Next,
                      NEW r \in Requests, requests[r] # NoRow, requests'[r] # requests[r]
               PROVE  /\ requests'[r] = [requests[r] EXCEPT !.status = requests'[r].status]
                      /\ <<requests[r].status, requests'[r].status>> \in
                            {<<"pending", "approved">>, <<"pending", "denied">>,
                             <<"approved", "applied">>}
    BY DEF DecisionIsFinalStep
  <2>1. requests[r] \in Rows
    BY DEF StoreInv, TypeOK
  <2> QED
    BY <2>1, RowWrites DEF Rows
<1> QED
  BY <1>1, StoreInvariant, PTL DEF Spec, DecisionIsFinal

(* However approvals and reconcilers interleave, no step loses the filter  *)
(* an address is bound to while it changes who governs the address.        *)
THEOREM FilterBindingsKept == Spec => FilterBindingKept
<1>1. StoreInv /\ [Next]_vars => [FilterBindingStep]_vars
  <2> SUFFICES ASSUME StoreInv, Next, NEW e \in Emails, grants[e] # NoGrant
               PROVE  /\ grants'[e] # NoGrant
                      /\ \/ grants'[e].filter = grants[e].filter
                         \/ /\ grants'[e].from = grants[e].from
                            /\ grants'[e].labels = grants[e].labels
    BY DEF FilterBindingStep
  <2>1. grants \in [Emails -> Grants \cup {NoGrant}] /\ grants[e] \in Grants
        /\ grants' \in [Emails -> Grants \cup {NoGrant}]
    BY TypeStep DEF StoreInv, TypeOK
  <2>2. ASSUME NEW d \in Emails, NEW f \in FilterIDs, SetGrantFilterID(d, f)
        PROVE  /\ grants'[e] \in Grants
               /\ grants'[e].from = grants[e].from
               /\ grants'[e].labels = grants[e].labels
    BY <2>1, <2>2 DEF SetGrantFilterID, Grants
  <2>3. ASSUME NEW p \in Callers, ApproveCommit(p)
        PROVE  grants'[e] \in Grants /\ grants'[e].filter = grants[e].filter
    <3>1. call[p].id \in Requests /\ call[p].row \in Rows
      BY <2>3, CommitDecidesPendingRow DEF ApproveCommit
    <3>2. CASE call[p].row.email = e
      <4>1. grants'[e] = [from |-> call[p].id, labels |-> call[p].row.labels,
                          filter |-> grants[e].filter]
        BY <2>1, <2>3, <3>2 DEF ApproveCommit, Upsert
      <4>2. /\ call[p].row.labels \in LabelSets
            /\ grants[e].filter \in FilterIDs \cup {NoFilter}
        BY <2>1, <3>1 DEF Rows, Grants
      <4> QED BY <3>1, <4>1, <4>2 DEF Grants
    <3>3. CASE call[p].row.email # e
      BY <2>1, <2>3, <3>3 DEF ApproveCommit
    <3> QED BY <3>2, <3>3
  <2>4. CASE UNCHANGED grants
    BY <2>4
  <2> QED
    BY <2>2, <2>3, <2>4, SentinelAssumption
       DEF Next, Submit, ApproveRead, DenyRead, MarkRead, ApproveWrite,
           LookupGrant, DenyWrite, DenyCommit, MarkUpdate, Rollback, TakeLock
<1> QED
  BY <1>1, StoreInvariant, PTL DEF Spec, FilterBindingKept

-----------------------------------------------------------------------------
(* Refinement                                                              *)

(* What governs an address after Approve commits.                          *)
LEMMA CommitGoverns ==
  ASSUME StoreInv, NEW p \in Callers, ApproveCommit(p)
  PROVE  governedBy' = [governedBy EXCEPT ![call[p].row.email] = call[p].id]
<1>1. call[p].id \in Requests /\ call[p].row \in Rows
  BY CommitDecidesPendingRow DEF ApproveCommit
<1>2. grants' = [grants EXCEPT ![call[p].row.email] = Upsert(call[p].id, call[p].row)]
  BY DEF ApproveCommit
<1>3. /\ Upsert(call[p].id, call[p].row) # NoGrant
      /\ Upsert(call[p].id, call[p].row).from = call[p].id
  BY <1>1 DEF Upsert, Grants, Rows, StoreInv, TypeOK
<1> QED
  BY <1>2, <1>3 DEF governedBy, StoreInv, TypeOK

(* Every step of the store is one step of the lifecycle, or none.          *)
LEMMA StepRefines == StoreInv /\ [Next]_vars => [Lifecycle!Next]_(Lifecycle!vars)
<1> SUFFICES ASSUME StoreInv, Next
             PROVE  Lifecycle!Next \/ UNCHANGED <<requests, governedBy>>
  BY DEF vars, Lifecycle!vars, governedBy
<1>1. ASSUME NEW r \in Requests, Submit(r) PROVE Lifecycle!Receive(r)
  BY <1>1 DEF Submit, Lifecycle!Receive, Lifecycle!Rows, Lifecycle!Statuses,
              Lifecycle!Actions, Rows, Statuses, Actions, governedBy
<1>2. ASSUME NEW p \in Callers, ApproveCommit(p) PROVE Lifecycle!Approve(call[p].id)
  <2>1. /\ call[p].id \in Requests /\ call[p].row \in Rows
        /\ requests[call[p].id] = call[p].row /\ call[p].row.status = "pending"
        /\ call[p].row.action = "update" => grants[call[p].row.email] # NoGrant
    BY <1>2, CommitDecidesPendingRow DEF ApproveCommit
  <2>2. governedBy' = [governedBy EXCEPT ![call[p].row.email] = call[p].id]
    BY <1>2, CommitGoverns
  <2>3. call[p].row.email \in Emails /\ call[p].row # NoRow
    BY <2>1 DEF Rows
  <2>4. grants[call[p].row.email] # NoGrant => governedBy[call[p].row.email] # NoRequest
    BY <2>3 DEF governedBy, StoreInv, TypeOK, Grants
  <2> QED
    BY <1>2, <2>1, <2>2, <2>3, <2>4
       DEF ApproveCommit, Lifecycle!Approve, Lifecycle!HasStatus
<1>3. ASSUME NEW p \in Callers, DenyCommit(p) PROVE Lifecycle!Deny(call[p].id)
  <2>1. /\ call[p].id \in Requests /\ call[p].row \in Rows
        /\ requests[call[p].id] = call[p].row /\ call[p].row.status = "pending"
    BY <1>3, CommitDecidesPendingRow DEF DenyCommit
  <2> QED
    BY <1>3, <2>1 DEF DenyCommit, Lifecycle!Deny, Lifecycle!HasStatus, governedBy
<1>4. ASSUME NEW p \in Callers, MarkUpdate(p)
      PROVE  Lifecycle!Apply(call[p].id) \/ UNCHANGED <<requests, governedBy>>
  BY <1>4 DEF MarkUpdate, StoreInv, DecisionsReadCurrentRows, Lifecycle!Apply,
              Lifecycle!HasStatus, governedBy
<1>5. ASSUME NEW e \in Emails, NEW f \in FilterIDs, SetGrantFilterID(e, f)
      PROVE  UNCHANGED <<requests, governedBy>>
  <2>1. grants[e] \in Grants /\ grants' = [grants EXCEPT ![e].filter = f]
    BY <1>5 DEF SetGrantFilterID, StoreInv, TypeOK
  <2>2. \A d \in Emails :
           /\ grants'[d] = NoGrant <=> grants[d] = NoGrant
           /\ grants[d] # NoGrant => grants'[d].from = grants[d].from
    BY <2>1 DEF Grants, StoreInv, TypeOK
  <2> QED
    BY <1>5, <2>2 DEF SetGrantFilterID, governedBy
<1>6. ASSUME UNCHANGED <<requests, grants>> PROVE UNCHANGED <<requests, governedBy>>
  BY <1>6 DEF governedBy
<1>7. ASSUME NEW p \in Callers, ApproveCommit(p) \/ DenyCommit(p) \/ MarkUpdate(p)
      PROVE  call[p].id \in Requests
  BY <1>7, CommitDecidesPendingRow
     DEF ApproveCommit, DenyCommit, MarkUpdate, StoreInv, DecisionsReadCurrentRows
<1> QED
  BY <1>1, <1>2, <1>3, <1>4, <1>5, <1>6, <1>7
     DEF Next, Lifecycle!Next, ApproveRead, ApproveWrite, LookupGrant, DenyRead,
         DenyWrite, MarkRead, Rollback, TakeLock

(* The store, with its transactions, implements the one-step lifecycle.    *)
THEOREM StoreImplementsLifecycle == Spec => RefinesLifecycle
<1>1. Init => Lifecycle!Init
  BY DEF Init, Lifecycle!Init, governedBy
<1>2. StoreInv /\ [Next]_vars => [Lifecycle!Next]_(Lifecycle!vars)
  BY StepRefines
<1> QED
  BY <1>1, <1>2, StoreInvariant, PTL DEF Spec, RefinesLifecycle, Lifecycle!Spec

-----------------------------------------------------------------------------
(* The lifecycle itself, whose promises the store inherits.                *)

LifecycleInv ==
    /\ requests \in [Requests -> Rows \cup {NoRow}]
    /\ governedBy \in [Emails -> Requests \cup {NoRequest}]
    /\ GrantComesFirst

(* Every step of the lifecycle keeps grants ahead of updates.              *)
LEMMA LifecycleStep ==
    ASSUME LifecycleInv, Lifecycle!Next, requests' \in [Requests -> Rows \cup {NoRow}],
           governedBy' \in [Emails -> Requests \cup {NoRequest}]
    PROVE  GrantComesFirst'
<1> USE SentinelAssumption DEF LifecycleInv
<1>1. ASSUME NEW r \in Requests, Lifecycle!Receive(r) PROVE GrantComesFirst'
  <2>1. ~Lifecycle!Decided(r) /\ ~Lifecycle!Decided(r)'
    BY <1>1 DEF Lifecycle!Receive, Lifecycle!Decided, Lifecycle!HasStatus
  <2>2. \A q \in Requests \ {r} : requests'[q] = requests[q]
    BY <1>1 DEF Lifecycle!Receive
  <2> QED
    BY <1>1, <2>1, <2>2
       DEF Lifecycle!Receive, GrantComesFirst, Lifecycle!GrantComesFirst,
           Lifecycle!Granted, Lifecycle!Decided, Lifecycle!HasStatus
<1>2. ASSUME NEW r \in Requests, Lifecycle!Approve(r) PROVE GrantComesFirst'
  <2> DEFINE e == requests[r].email
  <2>1. /\ requests[r] \in Rows /\ requests[r] # NoRow /\ requests[r].status = "pending"
        /\ requests[r].action \in {"grant", "update"} /\ e \in Emails
        /\ requests' = [requests EXCEPT ![r].status = "approved"]
        /\ governedBy' = [governedBy EXCEPT ![e] = r]
    BY <1>2 DEF Lifecycle!Approve, Lifecycle!HasStatus, Rows, Actions
  <2>2. \A q \in Requests :
           /\ Lifecycle!Decided(q) => Lifecycle!Decided(q)'
           /\ Lifecycle!Decided(q)' => Lifecycle!Decided(q) \/ q = r
           /\ requests[q] # NoRow => requests'[q].email = requests[q].email
                                     /\ requests'[q].action = requests[q].action
    BY <2>1 DEF Lifecycle!Decided, Lifecycle!HasStatus, Rows
  <2>3. Lifecycle!Decided(r)' /\ requests'[r].email = e
    <3>1. requests'[r] = [requests[r] EXCEPT !.status = "approved"]
      BY <2>1
    <3>2. requests'[r] \in Rows /\ requests'[r].status = "approved" /\ requests'[r].email = e
      BY <2>1, <3>1 DEF Rows, Statuses
    <3> QED
      BY <3>2 DEF Lifecycle!Decided, Lifecycle!HasStatus
  <2>4. \A d \in Emails : Lifecycle!Granted(d) => Lifecycle!Granted(d)'
    BY <2>2 DEF Lifecycle!Granted, Lifecycle!Decided, Lifecycle!HasStatus
  <2>5. Lifecycle!Granted(e)'
    <3>1. CASE requests[r].action = "grant"
      BY <2>1, <2>2, <2>3, <3>1 DEF Lifecycle!Granted
    <3>2. CASE requests[r].action = "update"
      <4>1. governedBy[e] # NoRequest
        BY <1>2, <3>2 DEF Lifecycle!Approve
      <4> QED
        BY <2>1, <2>4, <4>1 DEF GrantComesFirst, Lifecycle!GrantComesFirst
    <3> QED
      BY <2>1, <3>1, <3>2
  <2>6. ASSUME NEW d \in Emails, governedBy'[d] # NoRequest
        PROVE  /\ Lifecycle!Decided(governedBy[d])'
               /\ requests'[governedBy'[d]].email = d
               /\ Lifecycle!Granted(d)'
    <3>1. CASE d = e
      BY <2>1, <2>3, <2>5, <3>1
    <3>2. CASE d # e
      <4>1. governedBy'[d] = governedBy[d] /\ governedBy[d] \in Requests
        BY <2>1, <2>6, <3>2
      <4>2. Lifecycle!Decided(governedBy[d]) /\ requests[governedBy[d]].email = d
            /\ Lifecycle!Granted(d)
        BY <2>6, <4>1 DEF GrantComesFirst, Lifecycle!GrantComesFirst
      <4> QED
        BY <2>2, <2>4, <4>1, <4>2 DEF Lifecycle!Decided, Lifecycle!HasStatus
    <3> QED
      BY <3>1, <3>2
  <2>7. ASSUME NEW q \in Requests, Lifecycle!Decided(q)'
        PROVE  Lifecycle!Granted(requests[q].email)'
    <3>1. CASE q = r
      BY <2>1, <2>3, <2>5, <3>1
    <3>2. CASE q # r
      <4>1. Lifecycle!Decided(q) /\ requests[q] \in Rows
        BY <2>2, <2>7, <3>2 DEF Lifecycle!Decided, Lifecycle!HasStatus
      <4> QED
        BY <2>2, <2>4, <4>1
           DEF GrantComesFirst, Lifecycle!GrantComesFirst, Rows,
               Lifecycle!Decided, Lifecycle!HasStatus
    <3> QED
      BY <3>1, <3>2
  <2> QED
    BY <2>6, <2>7 DEF GrantComesFirst, Lifecycle!GrantComesFirst
<1>3. ASSUME NEW r \in Requests, Lifecycle!Deny(r) \/ Lifecycle!Apply(r)
      PROVE  GrantComesFirst'
  <2>1. \A q \in Requests :
           /\ Lifecycle!Decided(q)' <=> Lifecycle!Decided(q)
           /\ requests[q] # NoRow => requests'[q].email = requests[q].email
                                     /\ requests'[q].action = requests[q].action
    <3>1. requests[r] \in Rows /\ requests[r] # NoRow
      BY <1>3 DEF Lifecycle!Deny, Lifecycle!Apply, Lifecycle!HasStatus
    <3>2. PICK s \in Statuses : /\ requests' = [requests EXCEPT ![r].status = s]
                                /\ \/ s = "denied" /\ requests[r].status = "pending"
                                   \/ s = "applied" /\ requests[r].status = "approved"
      BY <1>3 DEF Lifecycle!Deny, Lifecycle!Apply, Lifecycle!HasStatus, Statuses
    <3>3. requests'[r] = [requests[r] EXCEPT !.status = s] /\ requests'[r] \in Rows
      BY <3>1, <3>2 DEF Rows
    <3>4. \A q \in Requests \ {r} : requests'[q] = requests[q]
      BY <3>2
    <3>5. requests'[r] # NoRow /\ requests'[r].status = s
          /\ requests'[r].email = requests[r].email
          /\ requests'[r].action = requests[r].action
      BY <3>1, <3>3 DEF Rows
    <3> QED
      BY <3>1, <3>2, <3>4, <3>5 DEF Lifecycle!Decided, Lifecycle!HasStatus
  <2>2. governedBy' = governedBy
    BY <1>3 DEF Lifecycle!Deny, Lifecycle!Apply
  <2> QED
    BY <2>1, <2>2
       DEF GrantComesFirst, Lifecycle!GrantComesFirst, Lifecycle!Granted,
           Lifecycle!Decided, Lifecycle!HasStatus
<1> QED
  BY <1>1, <1>2, <1>3 DEF Lifecycle!Next

(* In the store, too, a person has approved a grant for every address that *)
(* is governed and for every approved update, before anything else.        *)
THEOREM GrantsComeFirst == Spec => []GrantComesFirst
<1>1. Init => LifecycleInv
  BY SentinelAssumption
     DEF Init, LifecycleInv, governedBy, GrantComesFirst, Lifecycle!GrantComesFirst,
         Lifecycle!Decided, Lifecycle!HasStatus
<1>2. StoreInv => /\ requests \in [Requests -> Rows \cup {NoRow}]
                  /\ governedBy \in [Emails -> Requests \cup {NoRequest}]
  BY DEF StoreInv, TypeOK, Grants, governedBy
<1>3. LifecycleInv /\ StoreInv /\ StoreInv' /\ [Next]_vars => LifecycleInv'
  <2> SUFFICES ASSUME LifecycleInv, StoreInv, StoreInv', [Next]_vars
               PROVE  LifecycleInv'
    OBVIOUS
  <2>1. requests' \in [Requests -> Rows \cup {NoRow}]
        /\ governedBy' \in [Emails -> Requests \cup {NoRequest}]
    BY <1>2 DEF StoreInv, TypeOK, Grants, governedBy
  <2>2. Lifecycle!Next \/ UNCHANGED <<requests, governedBy>>
    BY StepRefines DEF Lifecycle!vars
  <2>3. CASE Lifecycle!Next
    BY <2>1, <2>3, LifecycleStep DEF LifecycleInv
  <2>4. CASE UNCHANGED <<requests, governedBy>>
    BY <2>1, <2>4
       DEF LifecycleInv, GrantComesFirst, Lifecycle!GrantComesFirst, Lifecycle!Granted,
           Lifecycle!Decided, Lifecycle!HasStatus
  <2> QED
    BY <2>2, <2>3, <2>4
<1> QED
  BY <1>1, <1>3, StoreInvariant, PTL DEF Spec, LifecycleInv
=============================================================================
