----------------------------- MODULE MCExecutor -----------------------------
(***************************************************************************)
(* Values for Executor: two source addresses, one prefix for the first and *)
(* a wider one for both; two hosts; a string for each prefix, a second     *)
(* spelling of the wide one and an IPv6 address.                           *)
(***************************************************************************)
EXTENDS Executor, TLC

CONSTANTS s1, s2, narrow, wide, h1, h2

MCCover == narrow :> {s1} @@ wide :> {s1, s2}
MCTargets == {"narrow", "wide", "v6"}
MCParse == "narrow" :> narrow @@ "wide" :> wide @@ "v6" :> NoPrefix

Single(t, ttl) == [target |-> t, host |-> NoHost, prefixes |-> <<>>, ttl |-> ttl]
Scoped(h, ps, ttl) == [target |-> "v6", host |-> h, prefixes |-> ps, ttl |-> ttl]
MCPayloads ==
    {Single("narrow", 1), Single("wide", 0), Single("v6", 1),
     Scoped(h1, <<narrow, wide>>, 0), Scoped(h1, <<narrow>>, 1), Scoped(h2, <<wide>>, 1)}
=============================================================================
