----------------------------- MODULE MCRouting ------------------------------
(***************************************************************************)
(* An instance of Routing: every kind of segment, patterns that shadow     *)
(* each other, and paths with slashes too many.                            *)
(***************************************************************************)
EXTENDS Routing

MCPatterns ==
  {<<"">>, <<"a">>, <<"a", "b">>, <<":x">>, <<":x", "*">>, <<":y", "b">>,
   <<"*">>, <<"*", "b">>, <<"a", "">>, <<"a", "", "">>}
MCPaths ==
  {<<"">>, <<"", "">>, <<"a">>, <<"a", "">>, <<"a", "b">>, <<"b", "", "b">>,
   <<"b", "a", "b">>}
MCParams == {":x", ":y"}
=============================================================================
