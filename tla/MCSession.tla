----------------------------- MODULE MCSession ------------------------------
(***************************************************************************)
(* Instances of Session: two goroutines, two clients.                      *)
(***************************************************************************)
EXTENDS Session, TLC

CONSTANTS w1, w2, ca, cb

MCSymmetry == Permutations({w1, w2}) \cup Permutations({ca, cb})
=============================================================================
