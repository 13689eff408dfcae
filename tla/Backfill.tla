------------------------------ MODULE Backfill ------------------------------
(***************************************************************************)
(* internal/gmail/gmail.go, BackfillLabelsForSender: labels are added to   *)
(* the old mail of one sender.  Gmail lists the messages page by page; the *)
(* run collects them in batches and has Gmail label a batch when it is     *)
(* full, and what is left of it after the last page.  Mail arrives and is  *)
(* deleted meanwhile, calls fail, answers get lost, and the whole run may  *)
(* be repeated ("gmail reconcile --apply --backfill-historical").          *)
(*                                                                         *)
(* Messages are numbers in the order of their arrival, and Gmail lists the *)
(* newest first: a page token stands for the oldest message listed so far. *)
(* Left out: messages without an id, which Gmail does not list, and a      *)
(* sender without labels, for whom Manager skips the run.                  *)
(***************************************************************************)
EXTENDS Naturals, FiniteSets

CONSTANTS
    PageSize,     \* backfillListPageSize
    BatchLimit,   \* batchModifyLimit
    OldMail,      \* messages from before the sender's filter existed
    MaxMail       \* bound: number of the last message that ever arrives

ASSUME LimitsAssumption ==
    /\ PageSize \in Nat \ {0} /\ BatchLimit \in Nat \ {0}
    /\ MaxMail \in Nat /\ OldMail \in 0..MaxMail

Messages == 1..MaxMail

VARIABLES
    inbox,        \* the sender's messages in the mailbox
    labelled,     \* messages that have got the labels
    arrived,      \* number of the newest message so far
    phase,        \* the run: "idle", "running", or how the last one ended
    token,        \* whether there is another page to ask for
    cursor,       \* where it begins: with the messages older than this
    page,         \* messages of the last page not yet collected
    batch,        \* messages collected since the last BatchModify
    matched, modified, batches      \* what the run reports

mailbox == <<inbox, labelled, arrived>>
report == <<matched, modified, batches>>
vars == <<mailbox, phase, token, cursor, page, batch, report>>

Newest(S, m) == m \in S /\ \A n \in S : n <= m

Older(m) == {n \in inbox : n < m}

-----------------------------------------------------------------------------
(* The mailbox                                                             *)

Init ==
    /\ inbox = 1..OldMail /\ labelled = {} /\ arrived = OldMail
    /\ phase = "idle" /\ token = FALSE /\ cursor = 0
    /\ page = {} /\ batch = {}
    /\ matched = 0 /\ modified = 0 /\ batches = 0

(* The sender's filters come before the search for old mail.               *)
Arrive ==
    /\ arrived < MaxMail
    /\ arrived' = arrived + 1
    /\ inbox' = inbox \cup {arrived'}
    /\ labelled' = labelled \cup {arrived'}
    /\ UNCHANGED <<phase, token, cursor, page, batch, report>>

(* A person deletes a message for good.                                    *)
Vanish(m) ==
    /\ m \in inbox
    /\ inbox' = inbox \ {m}
    /\ UNCHANGED <<labelled, arrived, phase, token, cursor, page, batch, report>>

-----------------------------------------------------------------------------
(* The run                                                                 *)

BeginKeepingCounts ==
    /\ phase # "running"
    /\ phase' = "running" /\ token' = TRUE /\ cursor' = MaxMail + 1
    /\ page' = {} /\ batch' = {}
    /\ UNCHANGED <<mailbox, report>>

(* A new result, an empty batch, and no token yet: the first page begins   *)
(* with the newest message.                                                *)
Begin ==
    /\ phase # "running"
    /\ phase' = "running" /\ token' = TRUE /\ cursor' = MaxMail + 1
    /\ page' = {} /\ batch' = {}
    /\ matched' = 0 /\ modified' = 0 /\ batches' = 0
    /\ UNCHANGED mailbox

FullLate == Cardinality(batch) > BatchLimit

Full == Cardinality(batch) = BatchLimit

(* All pages are listed and collected.                                     *)
Listed == page = {} /\ ~token

(* Gmail answers with the newest messages beyond the token, at most a page *)
(* full of them.  It may announce a further page that turns out empty.     *)
NextPage(S) ==
    /\ S \subseteq Older(cursor)
    /\ Cardinality(S) <= PageSize
    /\ \A m \in S, n \in Older(cursor) \ S : n < m
    /\ S = {} => Older(cursor) = {}

OnePage(S) ==
    /\ phase = "running" /\ page = {} /\ token /\ ~Full
    /\ NextPage(S)
    /\ page' = S
    /\ token' = FALSE
    /\ UNCHANGED <<mailbox, phase, cursor, batch, report>>

ListPage(S) ==
    /\ phase = "running" /\ page = {} /\ token /\ ~Full
    /\ NextPage(S)
    /\ page' = S
    /\ token' \in BOOLEAN /\ (Older(cursor) # S => token') /\ (S = {} => ~token')
    /\ IF S = {} THEN UNCHANGED cursor
                 ELSE cursor' \in S /\ \A m \in S : cursor' <= m
    /\ UNCHANGED <<mailbox, phase, batch, report>>

(* The next message of the page joins the batch.                           *)
Collect(m) ==
    /\ phase = "running" /\ ~Full
    /\ Newest(page, m)
    /\ page' = page \ {m}
    /\ batch' = batch \cup {m}
    /\ matched' = matched + 1
    /\ UNCHANGED <<mailbox, phase, token, cursor, modified, batches>>

(* BatchModify; ids of messages deleted meanwhile do no harm.              *)
Flush ==
    /\ phase = "running"
    /\ batch # {} /\ (Full \/ Listed)
    /\ labelled' = labelled \cup batch
    /\ batch' = {}
    /\ modified' = modified + Cardinality(batch)
    /\ batches' = batches + 1
    /\ UNCHANGED <<inbox, arrived, phase, token, cursor, page, matched>>

SucceedUnflushed ==
    /\ phase = "running" /\ Listed
    /\ phase' = "ok"
    /\ UNCHANGED <<mailbox, token, cursor, page, batch, report>>

Succeed ==
    /\ phase = "running" /\ Listed /\ batch = {}
    /\ phase' = "ok"
    /\ UNCHANGED <<mailbox, token, cursor, page, batch, report>>

(* A list call fails, or the process ends.                                 *)
Abandon ==
    /\ phase = "running"
    /\ phase' = "error"
    /\ UNCHANGED <<mailbox, token, cursor, page, batch, report>>

(* BatchModify has its effect, but the answer is lost.                     *)
FlushUnanswered ==
    /\ phase = "running"
    /\ batch # {} /\ (Full \/ Listed)
    /\ labelled' = labelled \cup batch
    /\ phase' = "error"
    /\ UNCHANGED <<inbox, arrived, token, cursor, page, batch, report>>

Failure == Abandon \/ FlushUnanswered

Proceed ==
    \/ \E S \in SUBSET Messages : ListPage(S)
    \/ \E m \in Messages : Collect(m)
    \/ Flush \/ Succeed

Next ==
    \/ Arrive
    \/ \E m \in Messages : Vanish(m)
    \/ Begin \/ Proceed \/ Failure

Spec == Init /\ [][Next]_vars

(* The operator repeats the run, a run that can go on does, and from some  *)
(* time on no call fails.                                                  *)
Calm ==
    /\ WF_vars(Begin \/ Proceed)
    /\ <>[][~Failure]_vars

-----------------------------------------------------------------------------
(* Properties                                                              *)

(* Pages and batches keep their limits, and what a run has yet to look at  *)
(* or to label was in the mailbox once.                                    *)
TypeOK ==
    /\ arrived \in 0..MaxMail
    /\ inbox \subseteq 1..arrived /\ labelled \subseteq 1..arrived
    /\ phase \in {"idle", "running", "ok", "error"}
    /\ token \in BOOLEAN /\ cursor \in 0..(MaxMail + 1)
    /\ page \subseteq 1..arrived /\ Cardinality(page) <= PageSize
    /\ batch \subseteq 1..arrived /\ Cardinality(batch) <= BatchLimit
    /\ matched \in Nat /\ modified \in Nat /\ batches \in Nat

(* A run that reports success has modified every message it matched, in as *)
(* few batches as the limit allows.                                        *)
ReportIsTrue ==
    phase = "ok" =>
        /\ modified = matched
        /\ batches = (matched + BatchLimit - 1) \div BatchLimit

(* Paging, batching, lost answers and repeated runs keep the promise of    *)
(* one-step labelling: success leaves no message of the sender unlabelled. *)
Promise == INSTANCE OldMail

LabelsOldMail == Promise!Spec

(* Once calls stop failing all mail of the sender is labelled, though mail *)
(* arrives and is deleted while a run goes through the pages.              *)
CalmLabelsAll == Calm => <>[](inbox \subseteq labelled)
=============================================================================
