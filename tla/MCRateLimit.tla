---------------------------- MODULE MCRateLimit ----------------------------
(* An instance of RateLimit: "a" keeps visitors until their buckets are    *)
(* full, "b" does not, "z" has the burst of DefaultConfig.                 *)
EXTENDS RateLimit, TLC

MCInstances == {"a", "b", "z"}
MCBurst == [i \in MCInstances |-> CASE i = "a" -> 2 [] i = "b" -> 1 [] i = "z" -> 0]
MCInterval == [i \in MCInstances |-> IF i = "b" THEN 2 ELSE 1]
MCExpiresIn == [i \in MCInstances |-> IF i = "b" THEN 1 ELSE 2]
MCChains == {<<"a">>, <<"b">>, <<"z">>, <<"a", "b">>}

Symmetry == Permutations(Workers)
=============================================================================
