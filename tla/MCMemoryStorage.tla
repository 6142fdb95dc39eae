-------------------------- MODULE MCMemoryStorage --------------------------
(***************************************************************************)
(* Instances of MemoryStorage.  kt is used with a ttl and without, so that *)
(* its entries can expire; kp is only used without.                        *)
(***************************************************************************)
EXTENDS MemoryStorage, TLC

CONSTANTS c1, c2, kt, kp, v1, v2

MCTTLs == [k \in Keys |-> IF k = kt THEN {0, 1} ELSE {0}]
MCSymmetry == Permutations({c1, c2}) \cup Permutations({v1, v2})
=============================================================================
