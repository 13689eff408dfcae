-------------------------- MODULE RequestLifecycle --------------------------
(***************************************************************************)
(* What the daemon promises about visibility requests, whoever calls it    *)
(* and in whatever order: the life of a request row and the grant that a   *)
(* sender's mail is governed by, with every decision in one atomic step.   *)
(*                                                                         *)
(*     absent --> pending --> approved --> applied                         *)
(*        \           \                                                    *)
(*         blocked     denied                                              *)
(*                                                                         *)
(* StateStore (SQL transactions of concurrent callers) and Manager (the    *)
(* approval workflow with its Gmail calls) are shown to implement it.      *)
(***************************************************************************)
CONSTANTS
    Requests,     \* request ids
    Emails,       \* normalized sender addresses
    LabelSets,    \* classification label sets a request may ask for
    NoRow,        \* the row of a request that was never received
    NoRequest     \* what governs an address without a grant

VARIABLES
    requests,     \* request id -> its row
    governedBy    \* address -> the request its grant comes from

vars == <<requests, governedBy>>

Statuses == {"pending", "blocked", "denied", "approved", "applied"}
Actions == {"grant", "update"}

Rows == [status : Statuses, action : Actions, email : Emails,
         labels : LabelSets]

HasStatus(r, s) == requests[r] # NoRow /\ requests[r].status = s

-----------------------------------------------------------------------------

Init ==
    /\ requests = [r \in Requests |-> NoRow]
    /\ governedBy = [e \in Emails |-> NoRequest]

(* A validated request is stored, already refused or awaiting a person.    *)
Receive(r) ==
    /\ requests[r] = NoRow
    /\ \E row \in Rows :
          /\ row.status \in {"pending", "blocked"}
          /\ requests' = [requests EXCEPT ![r] = row]
    /\ UNCHANGED governedBy

(* A person approves: from now on the request governs its sender.  Labels  *)
(* can only be updated where a grant exists.                               *)
Approve(r) ==
    /\ HasStatus(r, "pending")
    /\ requests[r].action = "update" => governedBy[requests[r].email] # NoRequest
    /\ requests' = [requests EXCEPT ![r].status = "approved"]
    /\ governedBy' = [governedBy EXCEPT ![requests[r].email] = r]

Deny(r) ==
    /\ HasStatus(r, "pending")
    /\ requests' = [requests EXCEPT ![r].status = "denied"]
    /\ UNCHANGED governedBy

(* The request's labels have been put in force.                            *)
Apply(r) ==
    /\ HasStatus(r, "approved")
    /\ requests' = [requests EXCEPT ![r].status = "applied"]
    /\ UNCHANGED governedBy

Next == \E r \in Requests : Receive(r) \/ Approve(r) \/ Deny(r) \/ Apply(r)

Spec == Init /\ [][Next]_vars

-----------------------------------------------------------------------------
(* Properties                                                              *)

Decided(r) == HasStatus(r, "approved") \/ HasStatus(r, "applied")

Granted(e) ==
    \E g \in Requests :
        Decided(g) /\ requests[g].action = "grant" /\ requests[g].email = e

(* An address is governed only by a decided request of its own, and no     *)
(* chain of updates can be the way in: a person has once approved a grant  *)
(* for every address that is governed, and for every update in force.      *)
GrantComesFirst ==
    /\ \A e \in Emails : governedBy[e] # NoRequest =>
          /\ Decided(governedBy[e]) /\ requests[governedBy[e]].email = e
          /\ Granted(e)
    /\ \A r \in Requests : Decided(r) => Granted(requests[r].email)
=============================================================================
