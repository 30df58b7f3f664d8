---------------------------- MODULE MCScopedBan ----------------------------
(***************************************************************************)
(* Values for ScopedBan: an administrator and an approver, one ordinary    *)
(* host, a country and an AS, and two prefix databases.  In the second one *)
(* the AS has grown past the per-rule limit and the country has become     *)
(* wide; in the first one both rules together just fit.                    *)
(***************************************************************************)
EXTENDS ScopedBan, TLC

CONSTANTS alice, bob, web, country, asn, v1, v2, h1, h2

MCRole == alice :> "admin" @@ bob :> "approver"
MCSize == v1 :> (country :> 2 @@ asn :> 1) @@ v2 :> (country :> 1 @@ asn :> 3)
MCWide == v1 :> {} @@ v2 :> {country}
\* In one behaviour, a failed statement or a restart, and a new prefix database or a
\* change of the protected set; what comes after a restart that left the quota astray
\* is not followed, as no property about the quota speaks of it.
MCBudget ==
    /\ faults + crashes <= 1 /\ swaps + edits <= 1
    /\ crashes > 0 => ~astray
MCSymmetry == Permutations({h1, h2})
=============================================================================
