------------------------------- MODULE OldMail -------------------------------
(***************************************************************************)
(* What labelling a sender's old mail promises (gmail.go,                  *)
(* BackfillLabelsForSender): labels are added to the sender's mail and     *)
(* never taken away, and a run that reports success leaves no message      *)
(* without them, whatever arrived or was deleted while it ran.             *)
(* Messages are numbers in the order of their arrival.                     *)
(***************************************************************************)
EXTENDS Naturals

CONSTANTS Messages      \* messages the sender ever sends

VARIABLES
    inbox,        \* the sender's messages in the mailbox
    labelled,     \* messages that have got the labels
    phase         \* "idle", "running", and how the last run ended

vars == <<inbox, labelled, phase>>

Init ==
    /\ inbox \subseteq Messages
    /\ labelled = {}
    /\ phase = "idle"

(* The sender's filter exists by now and labels what arrives.              *)
Arrive(m) ==
    /\ inbox' = inbox \cup {m}
    /\ labelled' = labelled \cup {m}
    /\ UNCHANGED phase

Vanish(m) ==
    /\ inbox' = inbox \ {m}
    /\ UNCHANGED <<labelled, phase>>

Begin ==
    /\ phase # "running"
    /\ phase' = "running"
    /\ UNCHANGED <<inbox, labelled>>

Label(S) ==
    /\ phase = "running"
    /\ labelled' = labelled \cup S
    /\ UNCHANGED <<inbox, phase>>

Succeed ==
    /\ phase = "running"
    /\ inbox \subseteq labelled
    /\ phase' = "ok"
    /\ UNCHANGED <<inbox, labelled>>

(* The last batch may have been labelled although its answer was lost.     *)
Fail(S) ==
    /\ phase = "running"
    /\ phase' = "error"
    /\ labelled' = labelled \cup S
    /\ UNCHANGED inbox

Next ==
    \/ \E m \in Messages : Arrive(m) \/ Vanish(m)
    \/ Begin \/ Succeed
    \/ \E S \in SUBSET Messages : Label(S) \/ Fail(S)

Spec == Init /\ [][Next]_vars
=============================================================================
