------------------------------ MODULE MCRateLimit ------------------------------
(*****************************************************************************)
(* A limit of one and two requests at a time: the smallest instance in which *)
(* a quota is used up, doubled by a failover and refused.                    *)
(*****************************************************************************)
EXTENDS RateLimit, TLC

RequestSymmetry == Permutations(Requests) \cup Permutations(Clients)

===============================================================================
