----------------------------- MODULE MCDispatch -----------------------------
(***************************************************************************)
(* Instances of Dispatch.  g is middleware of the router; m and n are      *)
(* middleware of routes; hA and hB are closures of one function literal.   *)
(* The chain of rC is longer than the fixed buffer; rE has no handlers.    *)
(***************************************************************************)
EXTENDS Dispatch, TLC

CONSTANTS w1, w2, x1, x2, g, m, n, hA, hB, hC, rA, rB, rC, rD, rE

MCCode == [f \in Funcs |-> IF f = hB THEN hA ELSE f]
MCHandlers == (rA :> <<m, hA>>) @@ (rB :> <<m, hB>>) @@ (rC :> <<m, n, hC>>)
                @@ (rD :> <<hC>>) @@ (rE :> <<>>)
MCSymmetry == Permutations({w1, w2}) \cup Permutations({x1, x2})
=============================================================================
