---------------------------- MODULE MCPrefixSync ----------------------------
(***************************************************************************)
(* Values for PrefixSync over 3-bit addresses: a TSV file whose ranges     *)
(* touch and a RIR file of two lines, one of which has a count that wraps  *)
(* and is dropped, so that the first file cut short may look like the      *)
(* second; an override across both entries of the first, which cut short   *)
(* is another range or none; an explicit file whose ranges overlap up to   *)
(* the end of the space.                                                   *)
(***************************************************************************)
EXTENDS PrefixSync, TLC

CONSTANTS h1, h2

E(s, e, n, c) == [start |-> s, end |-> e, asn |-> n, country |-> c]
Tsv(s, e, n, c) == [form |-> "tsv", start |-> s, end |-> e, asn |-> n, country |-> c]
Rir(s, n, c) == [form |-> "rir", start |-> s, count |-> n, country |-> c]

MCRaws ==
    {{Tsv(1, 2, 0, "CN"), Tsv(3, 5, 7, "US")},
     {Rir(1, 2, "CN"), Rir(6, 4, "US")}}
MCOverrides == {{E(2, 3, 7, "US")}, {BadLine}}
MCMangled == {E(2, 2, 7, "US"), BadLine}
MCExplicit == {E(0, 7, 7, "US"), E(4, 7, 7, "US")}

\* Bound: an edit torn by a failure and one read while it is made, but not both.
MCApart == torn => ~origin.mixed /\ \A h \in Handlers : job[h] # NoJob => ~job[h].mixed
=============================================================================
