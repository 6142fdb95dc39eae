-------------------------- MODULE MCSharedValues ---------------------------
(* An instance of SharedValues: a header of two cells, and three           *)
(* configurations, two of which are the same with the defaults put in.     *)
EXTENDS SharedValues, TLC

MCConfigs == {[size |-> 0, items |-> 0], [size |-> 0, items |-> 1], [size |-> 2, items |-> 1]}

Symmetry == Permutations(Workers)
=============================================================================
