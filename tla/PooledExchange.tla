--------------------------- MODULE PooledExchange ---------------------------
(***************************************************************************)
(* How server.go handles a request with objects from pools: getRequest,    *)
(* processRequest and releaseRequest, with the recorder, the Ctx           *)
(* (getContextFromRequest, ReleaseContext), the store of its parameters    *)
(* (param.go) and the buffer its body is read into.  It implements         *)
(* Exchange: nothing of a request is left in an object for the next one.   *)
(*                                                                         *)
(* The reply of a request lies in three objects; Gathered puts it together *)
(* and Scatter takes it apart again.  The pools of response writers, of    *)
(* parser headers and of text buffers are left out: their objects live     *)
(* within one call, or keep nothing.                                       *)
(*                                                                         *)
(* A buffer has an array of size 1; a larger body makes it read on into    *)
(* one of size 2, and the old one stays with those who have it.            *)
(***************************************************************************)
EXTENDS Reply, FiniteSets

CONSTANTS Workers,   \* goroutines that serve requests, one at a time each
          Requests,  \* the different requests there are
          HeadRequests,      \* those with the method HEAD
          Params,    \* Params[t]: the names of the parameters of its route
          Query,     \* Query[t]: its query string, or None
          Sends,     \* Sends[t]: the headers that the client has sent
          Size,      \* Size[t]: of its body; 0 if it has none
          Reqs,      \* objects of requestPool
          Recs,      \* of responseRecorderPool
          Ctxs,      \* of contextPool
          Stores,    \* of routeParamsPool
          Bufs,      \* of requestBodyBufferPool
          Fixed,     \* len(fixedKeys), 16 in the code
          Unrolled,  \* so many parameters are stored without the loop, 2
          MaxCalls   \* MaxCalls[t], a bound: calls of a handler of t and of another

\* Who has set a header or written a piece of a body.
Writers == {"server", "set", "writer", "write", "errorHandler"}
Values == [for : Requests, by : Writers \cup {"client"}]

ASSUME PooledExchangeAssumption ==
  /\ HeadRequests \subseteq Requests
  /\ Params \in [Requests -> Seq(STRING)]
  /\ Size \in [Requests -> 0..2]
  /\ Sends \in [Requests -> SUBSET Names]
  /\ {"Server", "Content-Type"} \subseteq Names
  /\ Fixed \in Nat /\ Unrolled \in 0..Fixed
  /\ MaxCalls \in [Requests -> Nat]
  /\ None \notin Requests \cup Reqs \cup Recs \cup Ctxs \cup Stores
  /\ None \notin {"plain", "HttpError"} \cup Values
  /\ None \notin [key : STRING, value : Requests]
  /\ None \notin [buf : Bufs, size : 1..2]

VARIABLES reqs,     \* the Request objects: url (with the method), header, body
          recs,     \* the recorders: header, body
          ctxs,     \* the Ctx objects
          stores,   \* the routeParams: count, fixed, dynamic
          bufs,     \* the buffers: cap, and by[n], who filled the array of size n
          pc,       \* pc[w]: where w is
          held,     \* held[w]: the objects that w has taken
          serving,  \* serving[w]: the request that came to w, or None
          word,     \* history: the last of Error and Status that was called
          seen,     \* seen[w]: what the last call of the handler has read
          calls,    \* calls[w]: how many calls it has made
          response, \* response[w]: what was given to WriteResponse
          spoilt    \* history: the array of the body of w was filled again

objects == <<reqs, recs, ctxs, stores>>
handler == <<word, seen, calls, response>>
vars == <<objects, bufs, pc, held, serving, handler, spoilt>>

-----------------------------------------------------------------------------
(* Objects.                                                                *)

NoHeaders == [n \in Names |-> None]

NewRequest == [url |-> None, header |-> NoHeaders, body |-> None]
NewRecorder == [header |-> NoHeaders, body |-> <<>>]
NewQuery == [valid |-> FALSE, raw |-> None, values |-> None]
NewCtx == [status |-> OK, err |-> None, data |-> None, valid |-> FALSE, store |-> None,
           query |-> NewQuery]
NewStore == [count |-> 0, fixed |-> [i \in 1..Fixed |-> None], dynamic |-> <<>>]
NewBuffer == [cap |-> 1, by |-> [n \in 1..2 |-> None]]

Nothing == [req |-> None, rec |-> None, ctx |-> None]

FreeReqs == Reqs \ {held[w].req : w \in Workers}
FreeRecs == Recs \ {held[w].rec : w \in Workers}
FreeCtxs == Ctxs \ {held[w].ctx : w \in Workers}
FreeStores == Stores \ {ctxs[x].store : x \in Ctxs}

Req(w) == reqs[held[w].req]
Rec(w) == recs[held[w].rec]
Ctx(w) == ctxs[held[w].ctx]

\* The reply of w, from where its objects have it.
Gathered(w) ==
  [status |-> Ctx(w).status, err |-> Ctx(w).err, shown |-> Req(w).header,
   sent |-> Rec(w).header, body |-> Rec(w).body, data |-> Ctx(w).data, word |-> word[w]]

\* w makes r of its reply.
Scatter(w, r) ==
  /\ reqs' = [reqs EXCEPT ![held[w].req].header = r.shown]
  /\ recs' = [recs EXCEPT ![held[w].rec] = [header |-> r.sent, body |-> r.body]]
  /\ ctxs' = [ctxs EXCEPT ![held[w].ctx] =
                [@ EXCEPT !.status = r.status, !.err = r.err, !.data = r.data]]
  /\ word' = [word EXCEPT ![w] = r.word]

Goto(w, label) == pc' = [pc EXCEPT ![w] = label]

Init ==
  /\ reqs = [x \in Reqs |-> NewRequest]
  /\ recs = [x \in Recs |-> NewRecorder]
  /\ ctxs = [x \in Ctxs |-> NewCtx]
  /\ stores = [s \in Stores |-> NewStore]
  /\ bufs = [b \in Bufs |-> NewBuffer]
  /\ pc = [w \in Workers |-> "idle"]
  /\ held = [w \in Workers |-> Nothing]
  /\ serving = [w \in Workers |-> None]
  /\ word = [w \in Workers |-> "none"]
  /\ seen = [w \in Workers |-> None]
  /\ calls = [w \in Workers |-> 0]
  /\ response = [w \in Workers |-> None]
  /\ spoilt = [w \in Workers |-> FALSE]

-----------------------------------------------------------------------------
(* getRequest.                                                             *)

\* The size of the array of b when a body of this size has been read into it.
Capacity(b, size) == IF size > bufs[b].cap THEN size ELSE bufs[b].cap

\* Mutant of Filled: without buf.Reset() the body comes behind what is there.
FilledBehind(b, size) ==
  IF size = 0 THEN {} ELSE {n \in {bufs[b].cap, Capacity(b, size)} : bufs[b].by[n] = None}

\* The arrays of b that begin with a body of this size once it has been read.
Filled(b, size) == IF size = 0 THEN {} ELSE {bufs[b].cap, Capacity(b, size)}

\* buf.Bytes().
Body(b, size) == IF size = 0 THEN None ELSE [buf |-> b, size |-> Capacity(b, size)]

\* The body of u lies in an array that is filled.
Overwrites(b, size, u) ==
  /\ pc[u] # "idle" /\ Req(u).body # None
  /\ Req(u).body.buf = b /\ Req(u).body.size \in Filled(b, size)

ClientHeader(t) ==
  [n \in Names |-> IF n \in Sends[t] THEN [for |-> t, by |-> "client"] ELSE None]

\* The Request gets what has come; its body is read into the buffer b, which
\* goes back to the pool at once.
Arrive(w, t, x, b) ==
  /\ pc[w] = "idle"
  /\ x \in FreeReqs
  /\ serving' = [serving EXCEPT ![w] = t]
  /\ held' = [held EXCEPT ![w].req = x]
  /\ reqs' = [reqs EXCEPT ![x] =
                [url |-> t, header |-> ClientHeader(t), body |-> Body(b, Size[t])]]
  /\ bufs' = [bufs EXCEPT ![b] =
                [cap |-> Capacity(b, Size[t]),
                 by |-> [n \in 1..2 |-> IF n \in Filled(b, Size[t]) THEN t ELSE @.by[n]]]]
  /\ spoilt' = [u \in Workers |-> u # w /\ (spoilt[u] \/ Overwrites(b, Size[t], u))]
  /\ Goto(w, "got")
  /\ UNCHANGED <<recs, ctxs, stores, handler>>

-----------------------------------------------------------------------------
(* processRequest.                                                         *)

Param(t, i) == [key |-> Params[t][i], value |-> t]

\* handleMatchedRoute: the parameters of the request t in the store s.
Store(s, t) ==
  LET n == Len(Params[t])
  IN IF n <= Fixed
       THEN [s EXCEPT !.count = IF n <= Unrolled THEN n ELSE @ + n,
                      !.fixed = [i \in 1..Fixed |-> IF i <= n THEN Param(t, i) ELSE @[i]]]
       ELSE [s EXCEPT !.dynamic = [i \in 1..(IF Len(@) > n THEN Len(@) ELSE n) |->
                                     IF i <= n THEN Param(t, i) ELSE @[i]]]

\* Mutant of FirstHeader: the Request keeps the headers that came.
FirstHeaderKept(w, y) == Req(w).header

\* The header that getContextFromRequest gives the Request: not what has come,
\* but the header of the response, that is of the recorder y.
FirstHeader(w, y) == recs[y].header

\* The stores that a Ctx with the store s may go on with, for the request t.
StoresFor(s, t) ==
  IF Params[t] = <<>> THEN {s} ELSE IF s # None THEN {s} ELSE FreeStores

\* Reset, which leaves fixedKeys and fixedValues as they are.
Reset(s) == [s EXCEPT !.count = 0, !.dynamic = <<>>]

\* The recorder y and the Ctx x are taken, the Server header is set, and
\* ServeHTTP has found the route.
Begin(w, y, x) ==
  LET t == Req(w).url
      server == [for |-> serving[w], by |-> "server"]
  IN /\ pc[w] = "got"
     /\ y \in FreeRecs /\ x \in FreeCtxs
     /\ held' = [held EXCEPT ![w].rec = y, ![w].ctx = x]
     /\ reqs' = [reqs EXCEPT ![held[w].req].header =
                   [FirstHeader(w, y) EXCEPT !["Server"] = server]]
     /\ recs' = [recs EXCEPT ![y].header["Server"] = server]
     /\ \E s \in StoresFor(ctxs[x].store, t) :
          /\ ctxs' = [ctxs EXCEPT ![x].store = s, ![x].valid = @ \/ Params[t] # <<>>]
          /\ stores' = IF Params[t] = <<>> THEN stores
                       ELSE [stores EXCEPT ![s] =
                               Store(IF ctxs[x].store = s THEN Reset(@) ELSE @, t)]
     /\ Goto(w, "handle")
     /\ UNCHANGED <<bufs, serving, handler, spoilt>>

Counted(w) ==
  /\ pc[w] = "handle"
  /\ \A u \in Workers : calls[w] + (IF u = w THEN 0 ELSE calls[u]) < MaxCalls[serving[w]]
  /\ calls' = [calls EXCEPT ![w] = @ + 1]

\* The handler calls a method that changes its reply.
Call(w) ==
  /\ Counted(w)
  /\ \E r \in Called(Gathered(w), serving[w]) : Scatter(w, r)
  /\ seen' = [seen EXCEPT ![w] = None]
  /\ UNCHANGED <<stores, bufs, pc, held, serving, response, spoilt>>

\* What Param finds in the store s: in the fixed slots, then behind them.
Found(s, n) ==
  LET slots == {i \in 1..Fixed : i <= s.count /\ s.fixed[i] # None /\ s.fixed[i].key = n}
      places == {i \in DOMAIN s.dynamic : s.dynamic[i].key = n}
      FirstOf(S) == CHOOSE i \in S : \A j \in S : i <= j
  IN IF slots # {} THEN s.fixed[FirstOf(slots)].value
     ELSE IF places # {} THEN s.dynamic[FirstOf(places)].value ELSE None

ParamNames == UNION {{Params[t][i] : i \in DOMAIN Params[t]} : t \in Requests}

\* Param, UserData or Get.
Read(w) ==
  LET param(n) == IF Ctx(w).valid THEN Found(stores[Ctx(w).store], n) ELSE None
  IN /\ Counted(w)
     /\ \E v \in {<<"Param", n, param(n)>> : n \in ParamNames}
                  \cup {<<"Get", n, Req(w).header[n]>> : n \in Names}
                  \cup {<<"UserData", None, Ctx(w).data>>} :
          seen' = [seen EXCEPT ![w] = v]
     /\ UNCHANGED <<objects, bufs, pc, held, serving, word, response, spoilt>>

\* Query, through the cache of the Ctx.
ReadQuery(w) ==
  LET raw == Query[Req(w).url]
      hit == Ctx(w).query.valid /\ Ctx(w).query.raw = raw
      q == IF raw = None \/ hit THEN Ctx(w).query
           ELSE [valid |-> TRUE, raw |-> raw, values |-> raw]
  IN /\ Counted(w)
     /\ ctxs' = [ctxs EXCEPT ![held[w].ctx].query = q]
     /\ seen' = [seen EXCEPT ![w] = <<"Query", None, IF raw = None THEN None ELSE q.values>>]
     /\ UNCHANGED <<reqs, recs, stores, bufs, pc, held, serving, word, response, spoilt>>

\* The error handler, if there is an error, and WriteResponse.
Answer(w) ==
  LET head == Req(w).url \in HeadRequests
      r == Answered(Gathered(w), serving[w], head)
  IN /\ pc[w] = "handle"
     /\ Scatter(w, r)
     /\ response' = [response EXCEPT ![w] = Response(r, head)]
     /\ Goto(w, "answered")
     /\ UNCHANGED <<stores, bufs, held, serving, seen, calls, spoilt>>

-----------------------------------------------------------------------------
(* The releases.                                                           *)

\* Mutant of Cleared: the cached query stays valid.
ClearedButQuery(c) ==
  [c EXCEPT !.status = OK, !.err = None, !.data = None, !.valid = FALSE, !.store = None,
            !.query.values = None]

\* The Ctx as ReleaseContext leaves it; rawQuery keeps what it has.
Cleared(c) ==
  [c EXCEPT !.status = OK, !.err = None, !.data = None, !.valid = FALSE, !.store = None,
            !.query.valid = FALSE, !.query.values = None]

\* ReleaseContext, releaseResponseRecorder and releaseRequest: one step, since each
\* object is w's own until it is put back, and is put back as new.
Release(w) ==
  /\ pc[w] = "answered"
  /\ reqs' = [reqs EXCEPT ![held[w].req] = NewRequest]
  /\ recs' = [recs EXCEPT ![held[w].rec] = NewRecorder]
  /\ ctxs' = [ctxs EXCEPT ![held[w].ctx] = Cleared(@)]
  /\ stores' = IF Ctx(w).store = None THEN stores
               ELSE [stores EXCEPT ![Ctx(w).store] = Reset(@)]
  /\ held' = [held EXCEPT ![w] = Nothing]
  /\ serving' = [serving EXCEPT ![w] = None]
  /\ word' = [word EXCEPT ![w] = "none"]
  /\ seen' = [seen EXCEPT ![w] = None]
  /\ calls' = [calls EXCEPT ![w] = 0]
  /\ response' = [response EXCEPT ![w] = None]
  /\ spoilt' = [spoilt EXCEPT ![w] = FALSE]
  /\ Goto(w, "idle")
  /\ UNCHANGED bufs

-----------------------------------------------------------------------------
Handle(w) == Call(w) \/ Read(w) \/ ReadQuery(w) \/ Answer(w)

Next ==
  \E w \in Workers :
    \/ \E t \in Requests, x \in FreeReqs, b \in Bufs : Arrive(w, t, x, b)
    \/ \E y \in FreeRecs, x \in FreeCtxs : Begin(w, y, x)
    \/ Handle(w) \/ Release(w)

Spec == Init /\ [][Next]_vars

-----------------------------------------------------------------------------
(* Properties.                                                             *)

Handling(w) == pc[w] \in {"handle", "answered"}

Abstract ==
  INSTANCE Exchange WITH
    pc <- [w \in Workers |-> IF Handling(w) THEN pc[w] ELSE "idle"],
    from <- [w \in Workers |-> IF Handling(w) THEN serving[w] ELSE None],
    reply <- [w \in Workers |-> IF Handling(w) THEN Gathered(w) ELSE NewReply]

\* Whoever had its objects before, a request is handled as if they were new: it
\* reads its own parameters and query, and is answered what its own handlers
\* have made of an empty reply.
ImplementsExchange == Abstract!Spec

\* See Exchange: what Error leads to.
ErrorsShow == Abstract!ErrorsShow

\* A handler finds the body of its request, or none if it has none, unless
\* another request has been read into its buffer meanwhile: that went back to
\* the pool before the handler was called.  ("Body is the request's body",
\* request.go:35.)
BodyUnlessShared ==
  \A w \in Workers :
    Handling(w) =>
      LET body == Req(w).body
      IN IF Size[serving[w]] = 0 THEN body = None
         ELSE spoilt[w] \/ (body # None /\ bufs[body.buf].by[body.size] = serving[w])

\* No header that a client has sent reaches a handler, nor its own answer.
\* ("Header contains the request header fields", request.go:32.)
HeadersLost ==
  \A w \in Workers : Handling(w) =>
    LET values == {Req(w).header[n] : n \in Names} \cup {Rec(w).header[n] : n \in Names}
    IN \A v \in values : v = None \/ v.by # "client"
=============================================================================
