----------------------------- MODULE MCSampler -----------------------------
(* Values for Sampler: three packets on two pairs, one of them with two ports. *)
EXTENDS Sampler, TLC

CONSTANTS p1, p2
=============================================================================
