---------------------------- MODULE GovernedBan ----------------------------
(***************************************************************************)
(* What the approval workflow promises about a ban, with every handler,    *)
(* statement and failure taken away: a request has one requester for ever; *)
(* its approvals, of which there may be several, come from other users;    *)
(* and an order to ban is given only for an approved request and is never  *)
(* withdrawn.                                                              *)
(***************************************************************************)
CONSTANTS Users, ReqIds, NoUser

VARIABLES
    requester,  \* who submitted each request, NoUser before submission
    approver,   \* who approved it last, NoUser before the first approval
    ordered     \* the requests an order to ban exists for

vars == <<requester, approver, ordered>>

Init ==
    /\ requester = [r \in ReqIds |-> NoUser]
    /\ approver = [r \in ReqIds |-> NoUser]
    /\ ordered = {}

Submit(r, u) ==
    /\ requester[r] = NoUser
    /\ requester' = [requester EXCEPT ![r] = u]
    /\ UNCHANGED <<approver, ordered>>

Approve(r, u) ==
    /\ requester[r] \notin {NoUser, u}
    /\ approver' = [approver EXCEPT ![r] = u]
    /\ UNCHANGED <<requester, ordered>>

Order(r) ==
    /\ approver[r] # NoUser
    /\ ordered' = ordered \cup {r}
    /\ UNCHANGED <<requester, approver>>

Next ==
    \E r \in ReqIds :
        \/ Order(r)
        \/ \E u \in Users : Submit(r, u) \/ Approve(r, u)

Spec == Init /\ [][Next]_vars
=============================================================================
