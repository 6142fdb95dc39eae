---------------------------- MODULE MCConnection ----------------------------
(***************************************************************************)
(* An instance of Connection: requests without a body, with a length (one  *)
(* with a head that ends in a 0, one a form whose body is CRLF CRLF), and  *)
(* in chunks; and others that the shortcuts of Parse do not read right.    *)
(***************************************************************************)
EXTENDS Connection

MCKind(framing, body) ==
  [framing |-> framing, body |-> body, form |-> FALSE, zero |-> FALSE, misread |-> FALSE]

MCClearKinds ==
  {MCKind("none", <<>>),
   [MCKind("length", <<"text">>) EXCEPT !.zero = TRUE],
   [MCKind("length", <<"blank">>) EXCEPT !.form = TRUE],
   MCKind("length", <<"last", "text">>),
   MCKind("chunked", <<"text", "last">>)}

\* A body that begins with CRLF CRLF, chunks with 0 CRLF CRLF in the data, and chunks that
\* parseChunkedBody takes for other ones.
MCKinds ==
  MCClearKinds \cup
  {[MCKind("length", <<"blank", "text">>) EXCEPT !.form = TRUE],
   MCKind("chunked", <<"last", "last">>),
   [MCKind("chunked", <<"text", "last">>) EXCEPT !.misread = TRUE],
   [MCKind("chunked", <<"text", "last", "last">>) EXCEPT !.misread = TRUE]}
=============================================================================
