-------------------------- MODULE MCPooledExchange --------------------------
(***************************************************************************)
(* An instance of PooledExchange: a GET whose parameters are stored in the *)
(* loop, a HEAD with one, stored without it, and a GET with more than fit. *)
(***************************************************************************)
EXTENDS PooledExchange, TLC

CONSTANTS t1, t2, t3, raw1

MCParams == (t1 :> <<"a", "b">>) @@ (t2 :> <<"a">>) @@ (t3 :> <<"b", "a", "d">>)
MCQuery == (t1 :> raw1) @@ (t2 :> None) @@ (t3 :> raw1)
MCSends == (t1 :> {"Content-Type"}) @@ (t2 :> {}) @@ (t3 :> {})
MCSize == (t1 :> 1) @@ (t2 :> 0) @@ (t3 :> 2)
MCCalls == (t1 :> 2) @@ (t2 :> 1) @@ (t3 :> 1)

Symmetry == Permutations(Workers) \cup Permutations(Reqs) \cup Permutations(Recs)
              \cup Permutations(Ctxs) \cup Permutations(Stores)
=============================================================================
