------------------------------- MODULE Reply -------------------------------
(***************************************************************************)
(* What a handler may do to its reply through a Ctx (context.go) and the   *)
(* response writer (response_writer.go), as operators on a reply, and what *)
(* processRequest (server.go) makes of it.                                 *)
(*                                                                         *)
(* A header value or a piece of body is known by the request that it is    *)
(* for and by who wrote it.                                                *)
(***************************************************************************)
EXTENDS Integers, Sequences

CONSTANTS Names,  \* header names, "Server" and "Content-Type" among them
          None    \* no value, no error

OK == 200
NotFound == 404
InternalServerError == 500

\* shown is the Header of the Request of the Ctx, from which Get reads; sent
\* that of the recorder.  word is history: the last of Error and Status called.
NewReply ==
  [status |-> OK, err |-> None, shown |-> [n \in Names |-> None],
   sent |-> [n \in Names |-> None], body |-> <<>>, data |-> None, word |-> "none"]

Put(r, n, v) == [r EXCEPT !.shown[n] = v, !.sent[n] = v]

-----------------------------------------------------------------------------
(* The methods, for the request t.                                         *)

Set(r, t, n, by) == Put(r, n, [for |-> t, by |-> by])

\* Writer.Header().Set: the adapter hands out the map of the recorder.
WriterSet(r, t, n) == [r EXCEPT !.sent[n] = [for |-> t, by |-> "writer"]]

Status(r, code) == [r EXCEPT !.status = code, !.word = "status"]

\* err is "plain" or an "HttpError", which carries the status 404.
Error(r, err) ==
  [r EXCEPT !.status = IF @ < 400 THEN InternalServerError ELSE @, !.err = err,
            !.word = "error"]

\* Writer.Write, which appends to the body of the recorder.
Write(r, t, by) == [r EXCEPT !.body = Append(@, [for |-> t, by |-> by])]

\* String, JSON, HTML and Data: the content type in both headers, then the body.
Typed(r, t, by) == Write(Set(r, t, "Content-Type", by), t, by)

\* JSON of a value that cannot be encoded.
JSONFails(r, t) == Error(Set(r, t, "Content-Type", "write"), "plain")

UserData(r, t) == [r EXCEPT !.data = t]

\* What one call of a handler may make of its reply.
Called(r, t) ==
  {Set(r, t, n, "set") : n \in Names} \cup {WriterSet(r, t, n) : n \in Names}
    \cup {Status(r, code) : code \in {OK, NotFound, InternalServerError}}
    \cup {Error(r, err) : err \in {"plain", "HttpError"}}
    \cup {Write(r, t, "write"), Typed(r, t, "write"), JSONFails(r, t), UserData(r, t)}

-----------------------------------------------------------------------------
(* The end of processRequest.                                              *)

\* Mutant of HandleError: the status of the error is not taken.
HandleErrorPlainly(r, t) == Typed([r EXCEPT !.status = OK], t, "errorHandler")

\* defaultErrorHandler, for a reply with an error.
HandleError(r, t) ==
  Typed([r EXCEPT !.status = IF r.err = "HttpError" THEN NotFound ELSE @], t, "errorHandler")

\* The reply when the handlers have returned, with the errorHandler of
\* DefaultConfig; HEAD is handled "specially per HTTP spec" (server.go:511).
Answered(r, t, head) ==
  LET done == IF r.err = None THEN r ELSE HandleError(r, t)
  IN IF head /\ done.status = InternalServerError THEN [done EXCEPT !.status = OK] ELSE done

\* The headers of the recorder, then over them those of the Ctx.
Merged(r) == [n \in Names |-> IF r.shown[n] # None THEN r.shown[n] ELSE r.sent[n]]

\* What WriteResponse is given.
Response(r, head) ==
  [status |-> r.status, headers |-> Merged(r), body |-> IF head THEN <<>> ELSE r.body]
=============================================================================
