---------------------------- MODULE MCUserAdmin ----------------------------
(***************************************************************************)
(* Values for UserAdmin: one administrator to start with, whom the others  *)
(* have left alone, one more name, and the roles that user management      *)
(* tells apart.                                                            *)
(***************************************************************************)
EXTENDS UserAdmin, TLC

CONSTANTS root, other, t1, t2, h1, h2

Account(name, role) == [name |-> name, role |-> role, active |-> TRUE, password |-> 0]
MCSeedRows == <<Account(root, "admin")>>
MCSymmetry == Permutations({h1, h2}) \cup Permutations({t1, t2})
=============================================================================
