--------------------------- MODULE MCStaticFiles ---------------------------
(***************************************************************************)
(* Instances of StaticFiles: two goroutines and two files of two chunks,   *)
(* pm, which is served from memory, and pl, which is large and is not.     *)
(***************************************************************************)
EXTENDS StaticFiles, TLC

CONSTANTS w1, w2, pm, pl, f1, f2, f3

MCSpan == <<2, 2>>
MCSymmetry == Permutations(Workers) \cup Permutations(Fds)

MCKinds == {<<"whole", pm>>, <<"range", pm>>, <<"preload", pm>>,
            <<"whole", pl>>, <<"range", pl>>}
=============================================================================
