---------------------------- MODULE BackfillProofs ----------------------------
(***************************************************************************)
(* Theorems about module Backfill, for every size of pages and batches and *)
(* any number of messages.  The argument: a run meets the messages in      *)
(* falling order, so it collects none twice, and a message without the     *)
(* labels that is still in the mailbox waits in the batch, on the page or  *)
(* beyond the token.                                                       *)
(***************************************************************************)
EXTENDS Backfill, FiniteSetTheorems, TLAPS

(* What was collected is newer than what is on the page, and both are not  *)
(* older than the place the token stands for.                              *)
Falling ==
    /\ \A m \in page \cup batch : cursor <= m
    /\ \A m \in page, n \in batch : m < n

Waiting == batch \cup page \cup (IF token THEN Older(cursor) ELSE {})

NothingSkipped == inbox \ labelled \subseteq Waiting

(* The last batch only may be smaller than the limit, and nothing follows  *)
(* it.                                                                     *)
Counted ==
    /\ matched = modified + Cardinality(batch)
    /\ \/ modified = batches * BatchLimit
       \/ /\ Listed /\ batch = {}
          /\ modified <= batches * BatchLimit
          /\ batches * BatchLimit < modified + BatchLimit

(* The inductive invariant.                                                *)
BackfillInv ==
    /\ TypeOK
    /\ phase = "running" => Falling /\ NothingSkipped /\ Counted
    /\ ReportIsTrue

-----------------------------------------------------------------------------

LEMMA Limits ==
    /\ PageSize \in Nat /\ PageSize > 0
    /\ BatchLimit \in Nat /\ BatchLimit > 0
    /\ MaxMail \in Nat /\ OldMail \in Nat /\ OldMail <= MaxMail
BY LimitsAssumption, SMT

(* A batch is finite, and has one message more with a new one.             *)
LEMMA Growing ==
    ASSUME NEW k \in Nat, NEW B \in SUBSET (1..k), NEW m \in (1..k) \ B
    PROVE  Cardinality(B \cup {m}) = Cardinality(B) + 1
<1>1. IsFiniteSet(1..k) BY FS_Interval, SMT
<1>2. IsFiniteSet(B) BY <1>1, FS_Subset, Zenon
<1> QED BY <1>2, FS_AddElement, Zenon

LEMMA Counting ==
    ASSUME NEW k \in Nat, NEW B \in SUBSET (1..k)
    PROVE  /\ Cardinality(B) \in Nat
           /\ Cardinality(B) = 0 <=> B = {}
<1>1. IsFiniteSet(1..k) BY FS_Interval, SMT
<1>2. IsFiniteSet(B) BY <1>1, FS_Subset, Zenon
<1> QED BY <1>2, FS_CardinalityType, FS_EmptySet, Zenon

(* As many batches as the limit makes necessary.                           *)
LEMMA Rounding ==
    ASSUME NEW d \in Nat, d > 0, NEW n \in Nat, NEW q \in Nat,
           n <= q * d, q * d < n + d
    PROVE  (n + d - 1) \div d = q
<1> DEFINE r == n + d - 1 - q * d
<1>1. q * d \in Nat BY SMT
<1>2. r \in Int /\ 0 <= r /\ r < d BY <1>1, SMT
<1>3. n + d - 1 = d * q + r BY <1>1, SMT
<1> HIDE DEF r
<1> QED BY <1>2, <1>3, SMT

-----------------------------------------------------------------------------
(* Every step keeps the invariant.                                         *)

LEMMA InitInv == Init => BackfillInv
<1> SUFFICES ASSUME Init PROVE BackfillInv
  OBVIOUS
<1>1. Cardinality({}) = 0 BY FS_EmptySet, Zenon
<1>2. Cardinality(page) = 0 /\ Cardinality(batch) = 0 BY <1>1, Zenon DEF Init
<1>3. /\ arrived \in 0..MaxMail /\ cursor \in 0..(MaxMail + 1)
      /\ inbox \subseteq 1..arrived /\ labelled \subseteq 1..arrived
      /\ page \subseteq 1..arrived /\ batch \subseteq 1..arrived
  BY Limits DEF Init
<1>4. Cardinality(page) <= PageSize /\ Cardinality(batch) <= BatchLimit
  BY <1>2, Limits
<1>5. /\ phase \in {"idle", "running", "ok", "error"} /\ token \in BOOLEAN
      /\ matched \in Nat /\ modified \in Nat /\ batches \in Nat
  BY DEF Init
<1>6. TypeOK BY <1>3, <1>4, <1>5 DEF TypeOK
<1> QED BY <1>6 DEF Init, BackfillInv, ReportIsTrue

(* The mailbox changes: new mail has its labels, and what is deleted needs *)
(* none.                                                                   *)
LEMMA ArriveStep == ASSUME BackfillInv, Arrive PROVE BackfillInv'
<1>1. /\ arrived' = arrived + 1 /\ arrived < MaxMail
      /\ inbox' = inbox \cup {arrived'} /\ labelled' = labelled \cup {arrived'}
      /\ UNCHANGED <<phase, token, cursor, page, batch, report>>
  BY DEF Arrive
<1>2. TypeOK /\ TypeOK'
  BY <1>1, Limits DEF BackfillInv, TypeOK, report
<1>3. ASSUME NothingSkipped PROVE NothingSkipped'
  BY <1>1, <1>2, <1>3 DEF NothingSkipped, Waiting, Older, TypeOK
<1>4. Falling => Falling' BY <1>1 DEF Falling
<1>5. Counted => Counted' BY <1>1 DEF Counted, Listed, report
<1>6. ReportIsTrue' BY <1>1 DEF BackfillInv, ReportIsTrue, report
<1> QED BY <1>1, <1>2, <1>3, <1>4, <1>5, <1>6 DEF BackfillInv

LEMMA VanishStep == ASSUME BackfillInv, NEW m \in Messages, Vanish(m) PROVE BackfillInv'
<1>1. /\ inbox' = inbox \ {m}
      /\ UNCHANGED <<labelled, arrived, phase, token, cursor, page, batch, report>>
  BY DEF Vanish
<1>2. TypeOK' BY <1>1 DEF BackfillInv, TypeOK, report
<1>3. NothingSkipped => NothingSkipped'
  BY <1>1 DEF NothingSkipped, Waiting, Older
<1>4. Falling => Falling' BY <1>1 DEF Falling
<1>5. Counted => Counted' BY <1>1 DEF Counted, Listed, report
<1>6. ReportIsTrue' BY <1>1 DEF BackfillInv, ReportIsTrue, report
<1> QED BY <1>1, <1>2, <1>3, <1>4, <1>5, <1>6 DEF BackfillInv

LEMMA BeginStep == ASSUME BackfillInv, Begin PROVE BackfillInv'
<1>1. /\ phase' = "running" /\ token' = TRUE /\ cursor' = MaxMail + 1
      /\ page' = {} /\ batch' = {}
      /\ matched' = 0 /\ modified' = 0 /\ batches' = 0
      /\ UNCHANGED <<inbox, labelled, arrived>>
  BY DEF Begin, mailbox
<1>2. Cardinality({}) = 0 BY FS_EmptySet, Zenon
<1>3. TypeOK' BY <1>1, <1>2, Limits DEF BackfillInv, TypeOK
<1>4. Falling' BY <1>1 DEF Falling
<1>5. NothingSkipped'
  BY <1>1, Limits DEF BackfillInv, TypeOK, NothingSkipped, Waiting, Older
<1>6. Counted' BY <1>1, <1>2, Limits DEF Counted
<1>7. ReportIsTrue' BY <1>1 DEF ReportIsTrue
<1> QED BY <1>3, <1>4, <1>5, <1>6, <1>7 DEF BackfillInv

(* What Gmail leaves for further pages is older than all of this one.      *)
LEMMA ListPageStep ==
    ASSUME BackfillInv, NEW S \in SUBSET Messages, ListPage(S)
    PROVE  BackfillInv'
<1>1. /\ phase = "running" /\ page = {} /\ token
      /\ page' = S /\ token' \in BOOLEAN
      /\ Older(cursor) # S => token'
      /\ UNCHANGED <<inbox, labelled, arrived, phase, batch, report>>
  BY DEF ListPage, mailbox
<1>2. /\ S \subseteq Older(cursor) /\ Cardinality(S) <= PageSize
      /\ \A m \in S, n \in Older(cursor) \ S : n < m
      /\ S = {} => Older(cursor) = {} /\ ~token'
  BY DEF ListPage, NextPage
<1>3. CASE S = {}
  <2>1. cursor' = cursor BY <1>3 DEF ListPage
  <2>2. TypeOK' BY <1>1, <1>2, <2>1, <1>3 DEF BackfillInv, TypeOK, report
  <2>3. Falling' BY <1>1, <2>1, <1>3 DEF BackfillInv, Falling
  <2>4. NothingSkipped'
    BY <1>1, <1>2, <2>1, <1>3 DEF BackfillInv, NothingSkipped, Waiting
  <2>5. Counted' BY <1>1 DEF BackfillInv, Counted, Listed, report
  <2> QED BY <1>1, <2>2, <2>3, <2>4, <2>5 DEF BackfillInv, ReportIsTrue
<1>4. CASE S # {}
  <2>1. cursor' \in S /\ \A m \in S : cursor' <= m BY <1>4 DEF ListPage
  <2>2. \A n \in Older(cursor) : n \in inbox /\ n < cursor BY DEF Older
  <2>3. inbox \subseteq 1..arrived /\ arrived \in 0..MaxMail /\ cursor \in Nat
        /\ batch \subseteq 1..arrived
    BY Limits DEF BackfillInv, TypeOK
  <2>4. TypeOK'
    <3>1. S \subseteq 1..arrived BY <1>2, <2>2, <2>3
    <3>2. cursor' \in 0..(MaxMail + 1) BY <2>1, <2>3, <3>1, Limits
    <3> QED BY <1>1, <1>2, <3>1, <3>2 DEF BackfillInv, TypeOK, report
  <2>5. Falling'
    <3>1. \A n \in batch : cursor <= n BY <1>1 DEF BackfillInv, Falling
    <3>2. ASSUME NEW m \in S, NEW n \in batch PROVE m < n
      <4>1. m \in 1..arrived /\ m < cursor BY <1>2, <2>2, <2>3
      <4>2. n \in 1..arrived /\ cursor <= n BY <2>3, <3>1
      <4> QED BY <4>1, <4>2, <2>3
    <3>3. ASSUME NEW n \in batch PROVE cursor' <= n
      <4>1. cursor' < n BY <2>1, <3>2
      <4>2. cursor' \in 1..arrived /\ n \in 1..arrived BY <1>2, <2>1, <2>2, <2>3
      <4> QED BY <4>1, <4>2, <2>3
    <3> QED BY <1>1, <2>1, <3>2, <3>3 DEF Falling
  <2>6. NothingSkipped'
    <3>1. inbox \ labelled \subseteq batch \cup Older(cursor)
      BY <1>1 DEF BackfillInv, NothingSkipped, Waiting
    <3>2. \A n \in Older(cursor) \ S : token' /\ n \in Older(cursor)'
      BY <1>1, <1>2, <2>1, <2>2 DEF Older
    <3> QED BY <1>1, <3>1, <3>2 DEF NothingSkipped, Waiting
  <2>7. Counted' BY <1>1 DEF BackfillInv, Counted, Listed, report
  <2> QED BY <1>1, <2>4, <2>5, <2>6, <2>7 DEF BackfillInv, ReportIsTrue
<1> QED BY <1>3, <1>4

(* A message of the page is new to the batch, for it is older.             *)
LEMMA CollectStep ==
    ASSUME BackfillInv, NEW m \in Messages, Collect(m)
    PROVE  BackfillInv'
<1>1. /\ phase = "running" /\ ~Full
      /\ m \in page /\ \A n \in page : n <= m
      /\ page' = page \ {m} /\ batch' = batch \cup {m} /\ matched' = matched + 1
      /\ UNCHANGED <<inbox, labelled, arrived, phase, token, cursor, modified, batches>>
  BY DEF Collect, Newest, mailbox
<1>2. TypeOK /\ Falling /\ NothingSkipped /\ Counted
  BY <1>1 DEF BackfillInv
<1>3. page \subseteq 1..arrived /\ batch \subseteq 1..arrived /\ arrived \in Nat
  BY <1>2, Limits DEF TypeOK
<1>4. m \notin batch BY <1>1, <1>2, <1>3 DEF Falling
<1>5. Cardinality(batch') = Cardinality(batch) + 1 /\ Cardinality(batch) \in Nat
  BY <1>1, <1>3, <1>4, Growing, Counting
<1>6. Cardinality(page') <= PageSize
  <2>0. IsFiniteSet(1..arrived) BY <1>3, FS_Interval, SMT
  <2>1. IsFiniteSet(page) BY <1>3, <2>0, FS_Subset, Zenon
  <2>2. Cardinality(page') <= Cardinality(page)
    BY <1>1, <2>1, FS_Subset, Zenon
  <2>3. Cardinality(page) \in Nat /\ Cardinality(page') \in Nat
    BY <1>1, <1>3, Counting
  <2> QED BY <1>2, <2>2, <2>3, Limits DEF TypeOK
<1>7. TypeOK' BY <1>1, <1>2, <1>3, <1>5, <1>6, Limits DEF TypeOK, Full
<1>8. Falling' BY <1>1, <1>2, <1>3, <1>7 DEF Falling, TypeOK
<1>9. NothingSkipped' BY <1>1, <1>2 DEF NothingSkipped, Waiting, Older
<1>10. Counted' BY <1>1, <1>2, <1>5 DEF Counted, Listed, TypeOK
<1> QED BY <1>1, <1>7, <1>8, <1>9, <1>10 DEF BackfillInv, ReportIsTrue

LEMMA FlushStep == ASSUME BackfillInv, Flush PROVE BackfillInv'
<1>1. /\ phase = "running" /\ batch # {} /\ (Full \/ Listed)
      /\ labelled' = labelled \cup batch /\ batch' = {}
      /\ modified' = modified + Cardinality(batch) /\ batches' = batches + 1
      /\ UNCHANGED <<inbox, arrived, phase, token, cursor, page, matched>>
  BY DEF Flush
<1>2. TypeOK /\ Falling /\ NothingSkipped /\ Counted
  BY <1>1 DEF BackfillInv
<1>3. batch \subseteq 1..arrived /\ arrived \in Nat BY <1>2, Limits DEF TypeOK
<1>4. Cardinality(batch) \in Nat /\ Cardinality(batch) > 0
  <2>1. /\ Cardinality(batch) \in Nat
        /\ Cardinality(batch) = 0 <=> batch = {}
    BY <1>3, Counting, Zenon
  <2> QED BY <1>1, <2>1
<1>5. Cardinality({}) = 0 BY FS_EmptySet, Zenon
<1>6. TypeOK' BY <1>1, <1>2, <1>4, <1>5, Limits DEF TypeOK
<1>7. Falling' BY <1>1, <1>2 DEF Falling
<1>8. NothingSkipped' BY <1>1, <1>2 DEF NothingSkipped, Waiting, Older
<1>9. Counted'
  <2>1. modified = batches * BatchLimit BY <1>1, <1>2 DEF Counted
  <2>2. matched' = modified' BY <1>1, <1>2 DEF Counted
  <2>3. batches' * BatchLimit = modified + BatchLimit
    BY <1>1, <1>2, <2>1, Limits DEF TypeOK
  <2>4. Cardinality(batch) <= BatchLimit BY <1>2 DEF TypeOK
  <2>5. CASE Full
    BY <1>1, <1>5, <1>6, <2>2, <2>3, <2>5 DEF Counted, Full, TypeOK
  <2>6. CASE Listed
    <3>1. Listed' BY <1>1, <2>6 DEF Listed
    <3>2. /\ modified' <= batches' * BatchLimit
          /\ batches' * BatchLimit < modified' + BatchLimit
      BY <1>1, <1>2, <1>4, <2>3, <2>4, Limits DEF TypeOK
    <3> QED BY <1>1, <1>5, <1>6, <2>2, <3>1, <3>2 DEF Counted, TypeOK
  <2> QED BY <1>1, <2>5, <2>6
<1> QED BY <1>1, <1>6, <1>7, <1>8, <1>9 DEF BackfillInv, ReportIsTrue

LEMMA SucceedStep == ASSUME BackfillInv, Succeed PROVE BackfillInv'
<1>1. /\ phase = "running" /\ Listed /\ batch = {} /\ phase' = "ok"
      /\ UNCHANGED <<inbox, labelled, arrived, token, cursor, page, batch,
                     matched, modified, batches>>
  BY DEF Succeed, mailbox, report
<1>2. TypeOK /\ Counted BY <1>1 DEF BackfillInv
<1>3. TypeOK' BY <1>1, <1>2 DEF TypeOK
<1>4. matched = modified BY <1>1, <1>2, FS_EmptySet DEF Counted, TypeOK
<1>5. /\ matched \in Nat /\ batches \in Nat
      /\ matched <= batches * BatchLimit
      /\ batches * BatchLimit < matched + BatchLimit
  BY <1>2, <1>4, Limits DEF Counted, TypeOK
<1>6. batches = (matched + BatchLimit - 1) \div BatchLimit
  BY <1>5, Limits, Rounding
<1> QED BY <1>1, <1>3, <1>4, <1>6 DEF BackfillInv, ReportIsTrue

LEMMA FailureStep == ASSUME BackfillInv, Failure PROVE BackfillInv'
<1>1. /\ phase' = "error"
      /\ labelled' = labelled \/ labelled' = labelled \cup batch
      /\ UNCHANGED <<inbox, arrived, token, cursor, page, batch,
                     matched, modified, batches>>
  BY DEF Failure, Abandon, FlushUnanswered, mailbox, report
<1>2. TypeOK' BY <1>1 DEF BackfillInv, TypeOK
<1> QED BY <1>1, <1>2 DEF BackfillInv, ReportIsTrue

LEMMA StutterStep == ASSUME BackfillInv, UNCHANGED vars PROVE BackfillInv'
<1>1. /\ UNCHANGED <<inbox, labelled, arrived, phase, token, cursor, page, batch>>
      /\ UNCHANGED <<matched, modified, batches>>
  BY DEF vars, mailbox, report
<1> QED BY <1>1 DEF BackfillInv, TypeOK, Falling, NothingSkipped, Waiting, Older,
                   Counted, Listed, ReportIsTrue

THEOREM Invariance == Spec => []BackfillInv
<1>1. BackfillInv /\ [Next]_vars => BackfillInv'
  BY ArriveStep, VanishStep, BeginStep, ListPageStep, CollectStep, FlushStep,
     SucceedStep, FailureStep, StutterStep
     DEF Next, Proceed
<1> QED BY InitInv, <1>1, PTL DEF Spec

-----------------------------------------------------------------------------
(* The theorems                                                            *)

(* Pages and batches keep their limits, whatever Gmail lists.              *)
THEOREM BackfillTypeCorrect == Spec => []TypeOK
<1>1. BackfillInv => TypeOK BY DEF BackfillInv
<1> QED BY Invariance, <1>1, PTL

(* What a successful run reports is what it did.                           *)
THEOREM ReportsAreTrue == Spec => []ReportIsTrue
<1>1. BackfillInv => ReportIsTrue BY DEF BackfillInv
<1> QED BY Invariance, <1>1, PTL

(* The run implements one-step labelling of the sender's old mail.         *)
THEOREM BackfillKeepsPromise == Spec => LabelsOldMail
<1>1. Init => Promise!Init
  BY Limits DEF Init, Promise!Init, Messages
<1>2. ASSUME BackfillInv, [Next]_vars PROVE [Promise!Next]_(Promise!vars)
  <2>0. /\ arrived \in 0..MaxMail /\ batch \subseteq Messages
        /\ MaxMail \in Nat
    BY <1>2, Limits DEF BackfillInv, TypeOK, Messages
  <2>1. CASE Arrive
    <3>1. arrived' \in Messages /\ Promise!Arrive(arrived')
      BY <2>0, <2>1 DEF Arrive, Promise!Arrive, Messages
    <3> QED BY <3>1 DEF Promise!Next
  <2>2. ASSUME NEW m \in Messages, Vanish(m) PROVE [Promise!Next]_(Promise!vars)
    BY <2>2 DEF Vanish, Promise!Vanish, Promise!Next
  <2>3. CASE Begin
    BY <2>3 DEF Begin, mailbox, Promise!Begin, Promise!Next
  <2>4. ASSUME NEW S \in SUBSET Messages, ListPage(S) PROVE [Promise!Next]_(Promise!vars)
    BY <2>4 DEF ListPage, mailbox, Promise!vars
  <2>5. ASSUME NEW m \in Messages, Collect(m) PROVE [Promise!Next]_(Promise!vars)
    BY <2>5 DEF Collect, mailbox, Promise!vars
  <2>6. CASE Flush
    <3>1. Promise!Label(batch) BY <2>6 DEF Flush, Promise!Label
    <3> QED BY <2>0, <3>1 DEF Promise!Next
  <2>7. CASE Succeed
    <3>1. inbox \subseteq labelled
      BY <1>2, <2>7 DEF Succeed, Listed, BackfillInv, NothingSkipped, Waiting
    <3>2. Promise!Succeed BY <2>7, <3>1 DEF Succeed, mailbox, Promise!Succeed
    <3> QED BY <3>2 DEF Promise!Next
  <2>8. CASE Abandon
    <3>1. Promise!Fail({}) BY <2>8 DEF Abandon, mailbox, Promise!Fail
    <3> QED BY <3>1 DEF Promise!Next
  <2>9. CASE FlushUnanswered
    <3>1. Promise!Fail(batch) BY <2>9 DEF FlushUnanswered, Promise!Fail
    <3> QED BY <2>0, <3>1 DEF Promise!Next
  <2>10. CASE UNCHANGED vars
    BY <2>10 DEF vars, mailbox, Promise!vars
  <2> QED BY <1>2, <2>1, <2>2, <2>3, <2>4, <2>5, <2>6, <2>7, <2>8, <2>9, <2>10
          DEF Next, Proceed, Failure
<1> QED BY <1>1, <1>2, Invariance, PTL DEF Spec, LabelsOldMail, Promise!Spec
=============================================================================
