---------------------------- MODULE MCFileCache ----------------------------
(***************************************************************************)
(* Instances of FileCache: two goroutines, three paths, room for three bytes *)
(* in two files, and files of one, two or four bytes.                      *)
(***************************************************************************)
EXTENDS FileCache, TLC

CONSTANTS c1, c2, p1, p2, p3

MCSymmetry == Permutations({c1, c2}) \cup Permutations({p1, p2, p3})
=============================================================================
