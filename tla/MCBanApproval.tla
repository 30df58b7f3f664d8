--------------------------- MODULE MCBanApproval ---------------------------
(***************************************************************************)
(* Values for BanApproval: an admin, who may both submit and approve, one  *)
(* approver and one operator; a host, a network that holds both the host   *)
(* and the protected gateway, the gateway, loopback and a string that does *)
(* not parse.  MCRole gives the roles at the start; where a run allows     *)
(* edits, an admin may change them to one of NewRoles.                     *)
(***************************************************************************)
EXTENDS BanApproval, TLC

CONSTANTS adm, apr, opr, host, net, gw, lo, junk

MCRole == [u \in Users |-> (adm :> "admin" @@ apr :> "approver" @@ opr :> "operator")[u]]
MCCover == host :> {1} @@ net :> {1, 2} @@ gw :> {2} @@ lo :> {3} @@ junk :> {}

MCHard == {lo} \cap Targets
MCSeeded == {gw} \cap Targets

Symmetry == Permutations(ReqIds) \cup Permutations(Handlers)
=============================================================================
