------------------------------ MODULE Exchange ------------------------------
(***************************************************************************)
(* What a request may rely on while it is handled: it reads its own        *)
(* parameters and query, its reply starts empty but for the Server header, *)
(* and what is answered is what its own handlers have made of the reply.   *)
(* There are no pools here.                                                *)
(***************************************************************************)
EXTENDS Reply, FiniteSets

CONSTANTS Workers,   \* goroutines that serve requests, one at a time each
          Requests,  \* the different requests there are
          HeadRequests,      \* those with the method HEAD
          Params,    \* Params[t]: the names of the parameters of its route
          Query,     \* Query[t]: its query, or None
          MaxCalls   \* MaxCalls[t], a bound: calls of a handler of t and of another

VARIABLES pc,       \* "idle", "handle" or "answered"
          from,     \* from[w]: the request that w handles, or None
          reply,    \* reply[w]: its reply
          seen,     \* seen[w]: what the last call of the handler has read
          calls,    \* calls[w]: how many calls it has made
          response  \* response[w]: what has been answered

vars == <<pc, from, reply, seen, calls, response>>

ParamNames == UNION {{Params[t][i] : i \in DOMAIN Params[t]} : t \in Requests}

\* The value of the parameter n of the request t is known by t.
ParamOf(t, n) == IF \E i \in DOMAIN Params[t] : Params[t][i] = n THEN t ELSE None

Goto(w, label) == pc' = [pc EXCEPT ![w] = label]

Init ==
  /\ pc = [w \in Workers |-> "idle"]
  /\ from = [w \in Workers |-> None]
  /\ reply = [w \in Workers |-> NewReply]
  /\ seen = [w \in Workers |-> None]
  /\ calls = [w \in Workers |-> 0]
  /\ response = [w \in Workers |-> None]

Begin(w, t) ==
  /\ pc[w] = "idle"
  /\ from' = [from EXCEPT ![w] = t]
  /\ reply' = [reply EXCEPT ![w] = Set(NewReply, t, "Server", "server")]
  /\ Goto(w, "handle")
  /\ UNCHANGED <<seen, calls, response>>

\* The handler makes one more call.
Counted(w) ==
  /\ pc[w] = "handle"
  /\ \A u \in Workers : calls[w] + (IF u = w THEN 0 ELSE calls[u]) < MaxCalls[from[w]]
  /\ calls' = [calls EXCEPT ![w] = @ + 1]

Call(w) ==
  /\ Counted(w)
  /\ \E r \in Called(reply[w], from[w]) : reply' = [reply EXCEPT ![w] = r]
  /\ seen' = [seen EXCEPT ![w] = None]
  /\ UNCHANGED <<pc, from, response>>

Read(w) ==
  /\ Counted(w)
  /\ \E v \in {<<"Param", n, ParamOf(from[w], n)>> : n \in ParamNames}
               \cup {<<"Get", n, reply[w].shown[n]>> : n \in Names}
               \cup {<<"UserData", None, reply[w].data>>, <<"Query", None, Query[from[w]]>>} :
       seen' = [seen EXCEPT ![w] = v]
  /\ UNCHANGED <<pc, from, reply, response>>

Answer(w) ==
  /\ pc[w] = "handle"
  /\ LET r == Answered(reply[w], from[w], from[w] \in HeadRequests)
     IN /\ reply' = [reply EXCEPT ![w] = r]
        /\ response' = [response EXCEPT ![w] = Response(r, from[w] \in HeadRequests)]
  /\ Goto(w, "answered")
  /\ UNCHANGED <<from, seen, calls>>

End(w) ==
  /\ pc[w] = "answered"
  /\ from' = [from EXCEPT ![w] = None]
  /\ reply' = [reply EXCEPT ![w] = NewReply]
  /\ seen' = [seen EXCEPT ![w] = None]
  /\ calls' = [calls EXCEPT ![w] = 0]
  /\ response' = [response EXCEPT ![w] = None]
  /\ Goto(w, "idle")

Next ==
  \E w \in Workers :
    \/ \E t \in Requests : Begin(w, t)
    \/ Call(w) \/ Read(w) \/ Answer(w) \/ End(w)

Spec == Init /\ [][Next]_vars

-----------------------------------------------------------------------------
(* Properties.                                                             *)

\* A handler whose last word on its reply was Error has it answered with a status
\* of 400 or more, and the text of the error ends the body, behind whatever was
\* written before ("It returns a plain text response with the error message",
\* server.go:51).  Not so for HEAD: a 500 is answered as 200.
ErrorsShow ==
  \A w \in Workers :
    pc[w] = "answered" /\ reply[w].word = "error" =>
      IF from[w] \in HeadRequests THEN response[w].status # InternalServerError
      ELSE /\ response[w].status >= 400
           /\ response[w].body # <<>>
           /\ response[w].body[Len(response[w].body)].by = "errorHandler"
           /\ response[w].headers["Content-Type"] # None
=============================================================================
