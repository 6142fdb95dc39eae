------------------------ MODULE PooledExchangeProofs ------------------------
(***************************************************************************)
(* What holds of PooledExchange for any goroutines, requests and pools: it *)
(* implements Exchange, and what becomes of bodies and headers.            *)
(***************************************************************************)
EXTENDS PooledExchange, WellFoundedInduction, TLAPS

-----------------------------------------------------------------------------
(* The inductive invariant.                                                *)

\* The headers and the pieces of a body that the server has written.
Written == [for : Requests, by : Writers]
Headers == [Names -> Written \cup {None}]
Bodies == [buf : Bufs, size : 1..2]
Slots == [key : STRING, value : Requests]
RawQueries == {Query[t] : t \in Requests} \cup {None}

Replies ==
  [status : Nat, err : {"plain", "HttpError", None}, shown : Headers, sent : Headers,
   body : Seq(Written), data : Requests \cup {None}, word : {"none", "status", "error"}]

RequestType ==
  [url : Requests \cup {None}, header : [Names -> Values \cup {None}], body : Bodies \cup {None}]
CtxType ==
  [status : Nat, err : {"plain", "HttpError", None}, data : Requests \cup {None},
   valid : BOOLEAN, store : Stores \cup {None},
   query : [valid : BOOLEAN, raw : RawQueries, values : RawQueries]]
StoreType == [count : Nat, fixed : [1..Fixed -> Slots \cup {None}], dynamic : Seq(Slots)]
HeldType == [req : Reqs \cup {None}, rec : Recs \cup {None}, ctx : Ctxs \cup {None}]

Types ==
  /\ reqs \in [Reqs -> RequestType]
  /\ recs \in [Recs -> [header : Headers, body : Seq(Written)]]
  /\ ctxs \in [Ctxs -> CtxType]
  /\ stores \in [Stores -> StoreType]
  /\ bufs \in [Bufs -> [cap : 1..2, by : [1..2 -> Requests \cup {None}]]]
  /\ pc \in [Workers -> {"idle", "got", "handle", "answered"}]
  /\ held \in [Workers -> HeldType]
  /\ serving \in [Workers -> Requests \cup {None}]
  /\ word \in [Workers -> {"none", "status", "error"}]
  /\ response \in [Workers -> [status : Nat, headers : Headers, body : Seq(Written)]
                                \cup {None}]
  /\ spoilt \in [Workers -> BOOLEAN]

\* A goroutine holds what its place in the code says.
Holding(w) ==
  /\ pc[w] # "idle" <=> held[w].req # None
  /\ Handling(w) <=> held[w].rec # None
  /\ Handling(w) <=> held[w].ctx # None
  /\ pc[w] = "idle" => serving[w] = None
  /\ pc[w] # "idle" => serving[w] \in Requests /\ Req(w).url = serving[w]
  /\ ~Handling(w) => word[w] = "none"

\* An object has one holder at most.
Alone ==
  /\ \A u, w \in Workers : u # w =>
       /\ held[u].req = held[w].req => held[u].req = None
       /\ held[u].rec = held[w].rec => held[u].rec = None
       /\ held[u].ctx = held[w].ctx => held[u].ctx = None
  /\ \A x, y \in Ctxs : x # y /\ ctxs[x].store = ctxs[y].store => ctxs[x].store = None

\* Nothing is left in an object that is in its pool, but what nobody reads.
Fresh ==
  /\ \A y \in FreeRecs : recs[y] = NewRecorder
  /\ \A x \in FreeCtxs :
       /\ ctxs[x].status = OK /\ ctxs[x].err = None /\ ctxs[x].data = None
       /\ ~ctxs[x].valid /\ ctxs[x].store = None /\ ~ctxs[x].query.valid
  /\ \A s \in FreeStores : stores[s].count = 0 /\ stores[s].dynamic = <<>>

\* The store s answers for the parameters of the request t.
Stored(s, t) == \A n \in ParamNames : Found(s, n) = Abstract!ParamOf(t, n)

\* A handler has the store of its own parameters, if its route has any.
ParamsFound ==
  \A w \in Workers : Handling(w) =>
    IF Params[serving[w]] = <<>> THEN ~Ctx(w).valid
    ELSE /\ Ctx(w).valid /\ Ctx(w).store # None
         /\ Stored(stores[Ctx(w).store], serving[w])

\* Cached values are those of the query they are cached for.
QueryCached ==
  \A x \in Ctxs : ctxs[x].query.valid => ctxs[x].query.values = ctxs[x].query.raw

\* A reply with an error as its last word has an error to show.
ReplyOK(r) ==
  /\ r \in Replies
  /\ r.word = "error" => r.err # None /\ r.status >= 400

ErrorShown(r, head, answer) ==
  r.word = "error" =>
    IF head THEN answer.status # InternalServerError
    ELSE /\ answer.status >= 400
         /\ answer.body # <<>>
         /\ answer.body[Len(answer.body)].by = "errorHandler"
         /\ answer.headers["Content-Type"] # None

RepliesOK ==
  \A w \in Workers :
    /\ Handling(w) => Gathered(w) \in Replies
    /\ pc[w] = "handle" => ReplyOK(Gathered(w))
    /\ pc[w] = "answered" => ErrorShown(Gathered(w), serving[w] \in HeadRequests, response[w])

\* BodyUnlessShared, from the moment the body has been read.
BodiesKept ==
  \A w \in Workers : pc[w] # "idle" =>
    LET body == Req(w).body
    IN IF Size[serving[w]] = 0 THEN body = None
       ELSE /\ body \in Bodies
            /\ spoilt[w] \/ bufs[body.buf].by[body.size] = serving[w]

Ownership == Types /\ (\A w \in Workers : Holding(w)) /\ Alone

IInv == Ownership /\ Fresh /\ ParamsFound /\ QueryCached /\ RepliesOK /\ BodiesKept

-----------------------------------------------------------------------------
(* Replies.                                                                *)

LEMMA PutKeeps ==
  ASSUME NEW r \in Replies, NEW n \in Names, NEW v \in Written
  PROVE  /\ Put(r, n, v) \in Replies
         /\ Put(r, n, v).shown[n] = v
         /\ ReplyOK(r) => ReplyOK(Put(r, n, v))
BY DEF Put, Replies, Headers, ReplyOK

LEMMA WriteKeeps ==
  ASSUME NEW r \in Replies, NEW t \in Requests, NEW by \in Writers
  PROVE  /\ Write(r, t, by) \in Replies
         /\ Write(r, t, by).body # <<>>
         /\ Write(r, t, by).body[Len(Write(r, t, by).body)].by = by
         /\ ReplyOK(r) => ReplyOK(Write(r, t, by))
<1>1. [for |-> t, by |-> by] \in Written
  BY DEF Written
<1>2. Append(r.body, [for |-> t, by |-> by]) \in Seq(Written)
  BY <1>1 DEF Replies
<1>3. QED
  BY <1>1, <1>2 DEF Write, Replies, ReplyOK

LEMMA TypedKeeps ==
  ASSUME NEW r \in Replies, NEW t \in Requests, NEW by \in Writers
  PROVE  LET q == Typed(r, t, by)
         IN /\ q \in Replies
            /\ q.body # <<>> /\ q.body[Len(q.body)].by = by
            /\ q.shown["Content-Type"] # None
            /\ q.status = r.status /\ q.word = r.word
            /\ ReplyOK(r) => ReplyOK(q)
<1> DEFINE v == [for |-> t, by |-> by]
           p == Put(r, "Content-Type", v)
<1>1. v \in Written /\ v # None /\ "Content-Type" \in Names
  BY PooledExchangeAssumption DEF Written, Values
<1>2. /\ p \in Replies /\ p.shown["Content-Type"] = v
      /\ ReplyOK(r) => ReplyOK(p)
  BY <1>1, PutKeeps
<1>3. p.status = r.status /\ p.word = r.word
  BY DEF Put, Replies
<1>4. /\ Write(p, t, by).shown = p.shown /\ Write(p, t, by).status = p.status
      /\ Write(p, t, by).word = p.word
  BY <1>2 DEF Write, Replies
<1>5. Typed(r, t, by) = Write(p, t, by)
  BY DEF Typed, Set
<1> HIDE DEF p
<1>6. QED
  BY <1>1, <1>2, <1>3, <1>4, <1>5, WriteKeeps

LEMMA ErrorKeeps ==
  ASSUME NEW r, ReplyOK(r), NEW err \in {"plain", "HttpError"}
  PROVE  ReplyOK(Error(r, err))
<1> DEFINE status == IF r.status < 400 THEN InternalServerError ELSE r.status
<1>1. r \in Replies
  BY DEF ReplyOK
<1>2. status \in Nat /\ status >= 400
  BY <1>1 DEF Replies, InternalServerError
<1>3. err # None
  BY PooledExchangeAssumption
<1>4. Error(r, err) = [r EXCEPT !.status = status, !.err = err, !.word = "error"]
  BY <1>1 DEF Error, Replies
<1> HIDE DEF status
<1>5. /\ Error(r, err) \in Replies
      /\ Error(r, err).err = err /\ Error(r, err).status = status
  BY <1>1, <1>2, <1>4 DEF Replies
<1>6. QED
  BY <1>2, <1>3, <1>5 DEF ReplyOK

\* Whatever a handler calls, an error stays an error until Status is called.
LEMMA CalledKeeps ==
  ASSUME NEW r, ReplyOK(r), NEW t \in Requests, NEW q \in Called(r, t)
  PROVE  ReplyOK(q)
<1>1. r \in Replies
  BY DEF ReplyOK
<1>2. \A by \in {"set", "write", "writer"} : [for |-> t, by |-> by] \in Written
  BY DEF Written, Writers
<1>3. ASSUME NEW n \in Names
      PROVE  ReplyOK(Set(r, t, n, "set")) /\ ReplyOK(WriterSet(r, t, n))
  <2>1. ReplyOK(Set(r, t, n, "set"))
    BY <1>1, <1>2, PutKeeps DEF Set
  <2>2. ReplyOK(WriterSet(r, t, n))
    BY <1>2 DEF WriterSet, ReplyOK, Replies, Headers
  <2>3. QED
    BY <2>1, <2>2
<1>4. ASSUME NEW code \in {OK, NotFound, InternalServerError}
      PROVE  ReplyOK(Status(r, code))
  <2>1. code \in Nat
    BY DEF OK, NotFound, InternalServerError
  <2>2. Status(r, code) \in Replies /\ Status(r, code).word = "status"
    BY <1>1, <2>1 DEF Status, Replies
  <2>3. QED
    BY <2>2 DEF ReplyOK
<1>5. ReplyOK(JSONFails(r, t))
  <2>1. ReplyOK(Set(r, t, "Content-Type", "write"))
    BY <1>1, <1>2, PutKeeps, PooledExchangeAssumption DEF Set
  <2>2. QED
    BY <2>1, ErrorKeeps DEF JSONFails
<1>6. ReplyOK(Write(r, t, "write")) /\ ReplyOK(Typed(r, t, "write"))
  BY <1>1, WriteKeeps, TypedKeeps DEF Writers
<1>7. ReplyOK(UserData(r, t))
  BY <1>1 DEF UserData, ReplyOK, Replies
<1>8. \A err \in {"plain", "HttpError"} : ReplyOK(Error(r, err))
  BY ErrorKeeps
<1>9. QED
  BY <1>3, <1>4, <1>5, <1>6, <1>7, <1>8 DEF Called

LEMMA AnsweredShows ==
  ASSUME NEW r, ReplyOK(r), NEW t \in Requests, NEW head \in BOOLEAN
  PROVE  LET a == Answered(r, t, head)
         IN /\ a \in Replies
            /\ Response(a, head) \in [status : Nat, headers : Headers, body : Seq(Written)]
            /\ ErrorShown(a, head, Response(a, head))
<1> DEFINE coded == [r EXCEPT !.status = IF r.err = "HttpError" THEN NotFound ELSE @]
           done == IF r.err = None THEN r ELSE HandleError(r, t)
           a == Answered(r, t, head)
<1>1. r \in Replies
  BY DEF ReplyOK
<1>2. /\ coded \in Replies /\ coded.word = r.word
      /\ r.word = "error" => coded.status >= 400
  BY <1>1 DEF Replies, NotFound, ReplyOK
<1>3. /\ done \in Replies
      /\ done.word = "error" => /\ done.status >= 400
                                /\ done.body # <<>>
                                /\ done.body[Len(done.body)].by = "errorHandler"
                                /\ done.shown["Content-Type"] # None
  <2>1. HandleError(r, t) = Typed(coded, t, "errorHandler")
    BY DEF HandleError
  <2> HIDE DEF coded
  <2>2. CASE r.err = None
    BY <1>1, <2>2 DEF ReplyOK
  <2>3. CASE r.err # None
    <3> DEFINE q == Typed(coded, t, "errorHandler")
    <3>1. /\ q \in Replies
          /\ q.body # <<>> /\ q.body[Len(q.body)].by = "errorHandler"
          /\ q.shown["Content-Type"] # None
          /\ q.status = coded.status /\ q.word = coded.word
      <4>1. "errorHandler" \in Writers
        BY DEF Writers
      <4>2. QED
        BY <1>2, <4>1, TypedKeeps
    <3>2. done = q
      BY <2>1, <2>3
    <3> HIDE DEF q, done
    <3>3. QED
      BY <1>2, <3>1, <3>2
  <2>4. QED
    BY <2>2, <2>3
<1>4. a = IF head /\ done.status = InternalServerError THEN [done EXCEPT !.status = OK]
          ELSE done
  BY DEF Answered
<1> HIDE DEF done
<1>5. /\ a \in Replies
      /\ a.word = done.word /\ a.body = done.body /\ a.shown = done.shown
      /\ IF head THEN a.status # InternalServerError ELSE a.status = done.status
  BY <1>3, <1>4 DEF Replies, OK, InternalServerError
<1> HIDE DEF a
<1>6. /\ Merged(a) \in Headers
      /\ a.shown["Content-Type"] # None => Merged(a)["Content-Type"] # None
  BY <1>5, PooledExchangeAssumption DEF Merged, Headers, Replies
<1>7. Response(a, head) \in [status : Nat, headers : Headers, body : Seq(Written)]
  BY <1>5, <1>6 DEF Response, Replies
<1>8. ErrorShown(a, head, Response(a, head))
  BY <1>3, <1>5, <1>6 DEF ErrorShown, Response
<1>9. QED
  BY <1>5, <1>7, <1>8 DEF a

-----------------------------------------------------------------------------
(* The invariant holds.                                                    *)

LEMMA NoneIsNoObject ==
  /\ None \notin Requests /\ None \notin Reqs /\ None \notin Recs
  /\ None \notin Ctxs /\ None \notin Stores /\ None \notin Bodies
BY PooledExchangeAssumption DEF Bodies

LEMMA InitHolds == Init => IInv
<1> SUFFICES ASSUME Init PROVE IInv
  OBVIOUS
<1> USE PooledExchangeAssumption DEF Init
<1>1. Types
  BY DEF Types, RequestType, CtxType, StoreType, HeldType, NewRequest, NewRecorder, NewCtx,
         NewStore, NewBuffer, NewQuery, NoHeaders, Nothing, Headers, RawQueries, OK
<1>2. (\A w \in Workers : Holding(w)) /\ Alone
  BY DEF Holding, Alone, Handling, Nothing, NewCtx
<1>3. Fresh /\ QueryCached
  BY DEF Fresh, QueryCached, FreeRecs, FreeCtxs, FreeStores, NewCtx, NewStore, NewQuery
<1>4. ParamsFound /\ RepliesOK /\ BodiesKept
  BY DEF ParamsFound, RepliesOK, BodiesKept, Handling
<1>5. QED
  BY <1>1, <1>2, <1>3, <1>4 DEF IInv, Ownership

\* What Arrive does to w, and what it leaves to others.
Taken(w, t, x, b) ==
  /\ x \in Reqs /\ pc[w] = "idle" /\ word[w] = "none"
  /\ held'[w] = [req |-> x, rec |-> None, ctx |-> None]
  /\ held[w].rec = None /\ held[w].ctx = None
  /\ pc'[w] = "got" /\ serving'[w] = t
  /\ reqs'[x].url = t /\ reqs'[x].body = Body(b, Size[t])
  /\ \A u \in Workers : u # w =>
       /\ held'[u] = held[u] /\ held[u].req # x
       /\ pc'[u] = pc[u] /\ serving'[u] = serving[u]
  /\ \A z \in Reqs : z # x => reqs'[z] = reqs[z]

LEMMA ArriveTakes ==
  ASSUME Ownership, NEW w \in Workers, NEW t \in Requests, NEW x \in FreeReqs, NEW b \in Bufs,
         Arrive(w, t, x, b)
  PROVE  Taken(w, t, x, b)
<1>1. Types /\ Holding(w)
  BY DEF Ownership
<1>2. x \in Reqs /\ \A u \in Workers : held[u].req # x
  BY DEF FreeReqs
<1>3. /\ pc[w] = "idle" /\ word[w] = "none"
      /\ held[w].req = None /\ held[w].rec = None /\ held[w].ctx = None
  BY <1>1 DEF Arrive, Handling, Holding
<1>4. held' = [held EXCEPT ![w].req = x] /\ pc' = [pc EXCEPT ![w] = "got"]
      /\ serving' = [serving EXCEPT ![w] = t]
  BY DEF Arrive, Goto
<1>5. held'[w] = [req |-> x, rec |-> None, ctx |-> None] /\ pc'[w] = "got" /\ serving'[w] = t
  BY <1>1, <1>3, <1>4 DEF Types, RequestType, CtxType, HeldType
<1>6. \A u \in Workers : u # w => held'[u] = held[u] /\ pc'[u] = pc[u] /\ serving'[u] = serving[u]
  BY <1>1, <1>4 DEF Types, RequestType, CtxType, HeldType
<1>7. /\ reqs'[x].url = t /\ reqs'[x].body = Body(b, Size[t])
      /\ \A z \in Reqs : z # x => reqs'[z] = reqs[z]
  BY <1>1, <1>2 DEF Arrive, Types, RequestType, CtxType, HeldType
<1>8. QED
  BY <1>2, <1>3, <1>5, <1>6, <1>7 DEF Taken

LEMMA BodyRead ==
  ASSUME Types, NEW b \in Bufs, NEW size \in 0..2
  PROVE  /\ Capacity(b, size) \in 1..2
         /\ size = 0 => Body(b, size) = None
         /\ size # 0 => /\ Body(b, size) \in Bodies
                        /\ Body(b, size).buf = b
                        /\ Body(b, size).size \in Filled(b, size)
BY DEF Types, RequestType, CtxType, HeldType, Capacity, Body, Filled, Bodies

LEMMA ArriveKeeps ==
  ASSUME IInv, NEW w \in Workers, NEW t \in Requests, NEW x \in FreeReqs, NEW b \in Bufs,
         Arrive(w, t, x, b)
  PROVE  IInv'
<1> USE DEF IInv
<1>1. Ownership /\ Types /\ Alone /\ (\A u \in Workers : Holding(u))
  BY DEF Ownership
<1>2. Taken(w, t, x, b)
  BY <1>1, ArriveTakes
<1>3. UNCHANGED <<recs, ctxs, stores, word, seen, calls, response>>
  BY DEF Arrive, handler
<1>4. Size[t] \in 0..2
  BY PooledExchangeAssumption
<1>5. Types'
  <2>1. ClientHeader(t) \in [Names -> Values \cup {None}]
    BY PooledExchangeAssumption DEF ClientHeader, Values
  <2>2. reqs' \in [Reqs -> RequestType]
    <3>1. Body(b, Size[t]) \in Bodies \cup {None}
      BY <1>1, <1>4, BodyRead
    <3>2. QED
      BY <1>1, <2>1, <3>1 DEF Arrive, Types, RequestType, CtxType, HeldType
  <2>3. bufs' \in [Bufs -> [cap : 1..2, by : [1..2 -> Requests \cup {None}]]]
    <3>1. Capacity(b, Size[t]) \in 1..2
      BY <1>1, <1>4, BodyRead
    <3>2. [n \in 1..2 |-> IF n \in Filled(b, Size[t]) THEN t ELSE bufs[b].by[n]]
            \in [1..2 -> Requests \cup {None}]
      BY <1>1 DEF Types, RequestType, CtxType, HeldType
    <3>3. QED
      BY <1>1, <3>1, <3>2 DEF Arrive, Types, RequestType, CtxType, HeldType
  <2>4. /\ pc' \in [Workers -> {"idle", "got", "handle", "answered"}]
        /\ held' \in [Workers -> HeldType]
        /\ serving' \in [Workers -> Requests \cup {None}]
        /\ spoilt' \in [Workers -> BOOLEAN]
    <3>1. spoilt' \in [Workers -> BOOLEAN]
      BY DEF Arrive
    <3>2. held' \in [Workers -> HeldType]
      BY <1>1 DEF Arrive, Types, RequestType, CtxType, HeldType, FreeReqs
    <3>3. QED
      BY <1>1, <3>1, <3>2 DEF Arrive, Goto, Types, RequestType, CtxType, HeldType
  <2>5. QED
    BY <1>1, <1>3, <2>2, <2>3, <2>4 DEF Types, RequestType, CtxType, HeldType
<1>6. Alone' /\ \A u \in Workers : Holding(u)'
  <2>1. Alone'
    BY <1>1, <1>3, <1>2 DEF Taken, Alone
  <2>2. Holding(w)'
    BY <1>1, <1>3, <1>2, NoneIsNoObject DEF Taken, Holding, Handling, Req
  <2>3. ASSUME NEW u \in Workers, u # w
        PROVE  Holding(u)'
    <3>1. held[u].req \in Reqs \cup {None} /\ held[u].req # x
      BY <1>1, <1>2, <2>3 DEF Taken, Types, RequestType, CtxType, HeldType
    <3>2. QED
      BY <1>1, <1>3, <1>2, <2>3, <3>1 DEF Taken, Holding, Handling, Req
  <2>4. QED
    BY <2>1, <2>2, <2>3
<1>7. Fresh' /\ QueryCached'
  <2>1. FreeRecs' = FreeRecs /\ FreeCtxs' = FreeCtxs /\ FreeStores' = FreeStores
    <3>1. \A u \in Workers : held'[u].rec = held[u].rec /\ held'[u].ctx = held[u].ctx
      BY <1>1, <1>2 DEF Taken, Holding, Handling
    <3>2. QED
      BY <1>3, <3>1 DEF FreeRecs, FreeCtxs, FreeStores
  <2>2. QED
    BY <1>3, <2>1 DEF Fresh, QueryCached
<1>8. ASSUME NEW u \in Workers, Handling(u)'
      PROVE  /\ u # w /\ Handling(u) /\ serving'[u] = serving[u]
             /\ Ctx(u)' = Ctx(u) /\ Gathered(u)' = Gathered(u)
  <2>1. u # w /\ Handling(u)
    BY <1>1, <1>8, <1>2 DEF Taken, Handling
  <2>2. held[u].req \in Reqs \ {x} /\ held'[u] = held[u]
    BY <1>1, <2>1, <1>2 DEF Taken, Holding, Handling, Types, RequestType, CtxType, HeldType
  <2>3. QED
    BY <1>1, <1>3, <2>1, <2>2, <1>2 DEF Taken, Gathered, Req, Rec, Ctx
<1>9. ParamsFound' /\ RepliesOK'
  <2>1. ParamsFound'
    BY <1>3, <1>8 DEF ParamsFound
  <2>2. RepliesOK'
    BY <1>1, <1>3, <1>8, <1>2 DEF Taken, RepliesOK, Handling
  <2>3. QED
    BY <2>1, <2>2
<1>10. BodiesKept'
  <2> DEFINE by == [n \in 1..2 |-> IF n \in Filled(b, Size[t]) THEN t ELSE bufs[b].by[n]]
  <2>1. bufs'[b].by = by /\ \A c \in Bufs : c # b => bufs'[c] = bufs[c]
    BY <1>1 DEF Arrive, Types, RequestType, CtxType, HeldType
  <2>2. ASSUME NEW u \in Workers, u # w, pc'[u] # "idle", Size[serving'[u]] # 0
        PROVE  /\ Req(u)'.body \in Bodies
               /\ \/ spoilt'[u]
                  \/ bufs'[Req(u)'.body.buf].by[Req(u)'.body.size] = serving'[u]
    <3> DEFINE body == Req(u).body
    <3>1. /\ pc[u] # "idle" /\ serving'[u] = serving[u]
          /\ held[u].req \in Reqs /\ held'[u] = held[u] /\ held[u].req # x
      BY <1>1, <1>2, <2>2 DEF Taken, Holding, Types, RequestType, CtxType, HeldType
    <3>2. Req(u)'.body = body
      BY <1>2, <3>1 DEF Taken, Req
    <3>3. body \in Bodies /\ (spoilt[u] \/ bufs[body.buf].by[body.size] = serving[u])
      BY <2>2, <3>1 DEF BodiesKept
    <3>4. spoilt'[u] = (spoilt[u] \/ Overwrites(b, Size[t], u))
      BY <2>2 DEF Arrive
    <3>5. CASE body.buf = b /\ body.size \in Filled(b, Size[t])
      <4>1. Overwrites(b, Size[t], u)
        BY <3>1, <3>3, <3>5, NoneIsNoObject DEF Overwrites
      <4>2. QED
        BY <3>2, <3>3, <3>4, <4>1
    <3>6. CASE ~(body.buf = b /\ body.size \in Filled(b, Size[t]))
      <4>1. body.buf \in Bufs /\ body.size \in 1..2
        BY <3>3 DEF Bodies
      <4>2. bufs'[body.buf].by[body.size] = bufs[body.buf].by[body.size]
        BY <2>1, <3>6, <4>1
      <4>3. QED
        BY <3>1, <3>2, <3>3, <3>4, <4>2
    <3>7. QED
      BY <3>5, <3>6
  <2>3. ASSUME NEW u \in Workers, u # w, pc'[u] # "idle", Size[serving'[u]] = 0
        PROVE  Req(u)'.body = None
    <3>1. /\ pc[u] # "idle" /\ serving'[u] = serving[u]
          /\ held[u].req \in Reqs /\ held'[u] = held[u] /\ held[u].req # x
      BY <1>1, <1>2, <2>3 DEF Taken, Holding, Types, RequestType, CtxType, HeldType
    <3>2. QED
      BY <1>2, <2>3, <3>1 DEF Taken, Req, BodiesKept
  <2>4. /\ serving'[w] = t /\ Req(w)'.body = Body(b, Size[t])
        /\ Size[t] = 0 => Req(w)'.body = None
        /\ Size[t] # 0 => /\ Req(w)'.body \in Bodies
                          /\ bufs'[Req(w)'.body.buf].by[Req(w)'.body.size] = t
    <3>1. serving'[w] = t /\ Req(w)'.body = Body(b, Size[t])
      BY <1>2 DEF Taken, Req
    <3>2. ASSUME Size[t] # 0
          PROVE  LET body == Body(b, Size[t])
                 IN body \in Bodies /\ bufs'[body.buf].by[body.size] = t
      <4> DEFINE body == Body(b, Size[t])
      <4>1. body \in Bodies /\ body.buf = b /\ body.size \in Filled(b, Size[t])
        BY <1>1, <1>4, <3>2, BodyRead
      <4>2. body.size \in 1..2
        BY <4>1 DEF Bodies
      <4>3. QED
        BY <2>1, <4>1, <4>2
    <3>3. QED
      BY <1>1, <1>4, <3>1, <3>2, BodyRead
  <2>5. QED
    BY <2>2, <2>3, <2>4 DEF BodiesKept
<1>11. QED
  BY <1>5, <1>6, <1>7, <1>9, <1>10 DEF Ownership

\* The store of the parameters.

LEMMA LeastOf ==
  ASSUME NEW S \in SUBSET Nat, S # {}
  PROVE  \E m \in S : \A k \in S : m <= k
<1> DEFINE R == OpToRel(<, Nat)
<1>1. IsWellFoundedOn(R, Nat)
  BY NatLessThanWellFounded
<1>2. \A x, y \in Nat : x < y => <<x, y>> \in R
  BY DEF OpToRel
<1> HIDE DEF R
<1>3. PICK m \in S : \A k \in S : ~(<<k, m>> \in R)
  BY <1>1, WFMin
<1>4. ASSUME NEW k \in S
      PROVE  m <= k
  <2>1. ~(k < m)
    BY <1>2, <1>3
  <2>2. QED
    BY <2>1
<1>5. QED
  BY <1>4

\* A store finds what is in its slots up to count, or else behind them.
LEMMA FoundInSlots ==
  ASSUME NEW s \in StoreType, NEW n, NEW v,
         \E i \in 1..Fixed : i <= s.count /\ s.fixed[i] # None /\ s.fixed[i].key = n,
         \A i \in 1..Fixed : i <= s.count => s.fixed[i] # None /\ s.fixed[i].value = v
  PROVE  Found(s, n) = v
<1> DEFINE slots == {i \in 1..Fixed : i <= s.count /\ s.fixed[i] # None /\ s.fixed[i].key = n}
           first == CHOOSE i \in slots : \A j \in slots : i <= j
<1>1. slots # {} /\ slots \in SUBSET Nat
  OBVIOUS
<1>2. first \in slots
  <2> HIDE DEF slots
  <2>1. \E m \in slots : \A k \in slots : m <= k
    BY <1>1, LeastOf
  <2>2. QED
    BY <2>1
<1>3. Found(s, n) = s.fixed[first].value
  BY <1>1 DEF Found
<1> HIDE DEF first
<1>4. QED
  BY <1>2, <1>3

LEMMA FoundBehind ==
  ASSUME NEW s \in StoreType, NEW n, NEW v, s.count = 0,
         \E i \in DOMAIN s.dynamic : s.dynamic[i].key = n,
         \A i \in DOMAIN s.dynamic : s.dynamic[i].value = v
  PROVE  Found(s, n) = v
<1> DEFINE slots == {i \in 1..Fixed : i <= s.count /\ s.fixed[i] # None /\ s.fixed[i].key = n}
           places == {i \in DOMAIN s.dynamic : s.dynamic[i].key = n}
           first == CHOOSE i \in places : \A j \in places : i <= j
<1>1. slots = {}
  BY PooledExchangeAssumption
<1>2. places # {} /\ places \in SUBSET Nat
  BY DEF StoreType
<1>3. first \in places
  <2> HIDE DEF places
  <2>1. \E m \in places : \A k \in places : m <= k
    BY <1>2, LeastOf
  <2>2. QED
    BY <2>1
<1>4. Found(s, n) = s.dynamic[first].value
  BY <1>1, <1>2 DEF Found
<1> HIDE DEF first
<1>5. QED
  BY <1>3, <1>4

LEMMA FoundNowhere ==
  ASSUME NEW s \in StoreType, NEW n,
         \A i \in 1..Fixed : i <= s.count => s.fixed[i].key # n,
         \A i \in DOMAIN s.dynamic : s.dynamic[i].key # n
  PROVE  Found(s, n) = None
BY DEF Found

\* An empty store in which the parameters of t have been put answers for them,
\* whether they fit into the slots or not, and whatever earlier requests left there.
LEMMA StoreAnswers ==
  ASSUME NEW s \in StoreType, s.count = 0, s.dynamic = <<>>,
         NEW t \in Requests, Params[t] # <<>>
  PROVE  Store(s, t) \in StoreType /\ Stored(Store(s, t), t)
<1> DEFINE n == Len(Params[t])
           q == Store(s, t)
<1>1. Params[t] \in Seq(STRING) /\ n \in Nat /\ DOMAIN Params[t] = 1..n
  BY PooledExchangeAssumption
<1>2. \A i \in 1..n : Param(t, i) \in Slots /\ Param(t, i) # None
                      /\ Param(t, i).key = Params[t][i] /\ Param(t, i).value = t
  BY <1>1, PooledExchangeAssumption DEF Param, Slots
<1>3. Fixed \in Nat
  BY PooledExchangeAssumption
<1>4. CASE n <= Fixed
  <2> DEFINE fixed == [i \in 1..Fixed |-> IF i <= n THEN Param(t, i) ELSE s.fixed[i]]
  <2>1. fixed \in [1..Fixed -> Slots \cup {None}]
    BY <1>1, <1>2, <1>3 DEF StoreType
  <2>2. /\ q \in StoreType /\ q.count = n /\ q.dynamic = <<>> /\ q.fixed = fixed
    <3>1. q = [s EXCEPT !.count = IF n <= Unrolled THEN n ELSE s.count + n, !.fixed = fixed]
      BY <1>4 DEF Store, StoreType
    <3>2. (IF n <= Unrolled THEN n ELSE s.count + n) = n
      BY <1>1
    <3> HIDE DEF n, fixed
    <3>3. QED
      BY <1>1, <2>1, <3>1, <3>2 DEF StoreType
  <2>3. \A i \in 1..Fixed : i <= q.count => /\ q.fixed[i] # None
                                           /\ q.fixed[i].key = Params[t][i]
                                           /\ q.fixed[i].value = t
    BY <1>1, <1>2, <1>3, <2>2
  <2> HIDE DEF q
  <2>4. ASSUME NEW name \in ParamNames
        PROVE  Found(q, name) = Abstract!ParamOf(t, name)
    <3>1. CASE \E i \in 1..n : Params[t][i] = name
      <4>1. \E i \in 1..Fixed : i <= q.count /\ q.fixed[i] # None /\ q.fixed[i].key = name
        BY <1>1, <1>3, <1>4, <2>2, <2>3, <3>1
      <4>2. Found(q, name) = t
        <5>1. \A i \in 1..Fixed : i <= q.count => q.fixed[i] # None /\ q.fixed[i].value = t
          BY <2>3
        <5>2. q \in StoreType
          BY <2>2
        <5>3. QED
          BY <4>1, <5>1, <5>2, FoundInSlots
      <4>3. QED
        BY <1>1, <3>1, <4>2 DEF Abstract!ParamOf
    <3>2. CASE ~\E i \in 1..n : Params[t][i] = name
      <4>1. Found(q, name) = None
        <5>1. \A i \in 1..Fixed : i <= q.count => q.fixed[i].key # name
          BY <1>1, <2>2, <2>3, <3>2
        <5>2. \A i \in DOMAIN q.dynamic : q.dynamic[i].key # name
          BY <2>2
        <5>3. QED
          BY <2>2, <5>1, <5>2, FoundNowhere
      <4>2. QED
        BY <1>1, <3>2, <4>1 DEF Abstract!ParamOf
    <3>3. QED
      BY <3>1, <3>2
  <2>5. QED
    BY <2>2, <2>4 DEF Stored, q
<1>5. CASE ~(n <= Fixed)
  <2> DEFINE dynamic == [i \in 1..n |-> Param(t, i)]
  <2>1. dynamic \in Seq(Slots)
    BY <1>1, <1>2
  <2>2. q \in StoreType /\ q.count = 0 /\ q.dynamic = dynamic
    <3>1. q = [s EXCEPT !.dynamic = dynamic]
      <4>1. Len(s.dynamic) = 0
        OBVIOUS
      <4>2. (IF Len(s.dynamic) > n THEN Len(s.dynamic) ELSE n) = n
        BY <1>1, <4>1
      <4> DEFINE m == IF Len(s.dynamic) > n THEN Len(s.dynamic) ELSE n
      <4>3. q = [s EXCEPT !.dynamic = [i \in 1..m |->
                                        IF i <= n THEN Param(t, i) ELSE s.dynamic[i]]]
        BY <1>5 DEF Store, StoreType
      <4>4. [i \in 1..m |-> IF i <= n THEN Param(t, i) ELSE s.dynamic[i]] = dynamic
        BY <1>1, <4>2
      <4> HIDE DEF m, dynamic
      <4>5. QED
        BY <4>3, <4>4
    <3>2. QED
      BY <2>1, <3>1 DEF StoreType
  <2>3. \A i \in 1..n : q.dynamic[i].key = Params[t][i] /\ q.dynamic[i].value = t
    BY <1>2, <2>2
  <2>4. DOMAIN q.dynamic = 1..n
    BY <2>2
  <2> HIDE DEF q
  <2>5. ASSUME NEW name \in ParamNames
        PROVE  Found(q, name) = Abstract!ParamOf(t, name)
    <3>1. CASE \E i \in 1..n : Params[t][i] = name
      <4>1. Found(q, name) = t
        <5>1. \E i \in DOMAIN q.dynamic : q.dynamic[i].key = name
          BY <2>3, <2>4, <3>1
        <5>2. \A i \in DOMAIN q.dynamic : q.dynamic[i].value = t
          BY <2>3, <2>4
        <5> HIDE DEF n
        <5>3. QED
          BY <2>2, <5>1, <5>2, FoundBehind
      <4>2. QED
        BY <1>1, <3>1, <4>1 DEF Abstract!ParamOf
    <3>2. CASE ~\E i \in 1..n : Params[t][i] = name
      <4>1. Found(q, name) = None
        <5>1. \A i \in 1..Fixed : ~(i <= q.count)
          BY <2>2
        <5>2. QED
          BY <2>2, <2>3, <2>4, <3>2, <5>1, FoundNowhere
      <4>2. QED
        BY <1>1, <3>2, <4>1 DEF Abstract!ParamOf
    <3>3. QED
      BY <3>1, <3>2
  <2>6. QED
    BY <2>2, <2>5 DEF Stored, q
<1>6. QED
  BY <1>4, <1>5

\* What Begin does to w, with the store s and the header h, and what it leaves to others.
FirstReply(t) == Put(NewReply, "Server", [for |-> t, by |-> "server"])

Begun(w, y, x, s) ==
  LET t == serving[w]
      r == held[w].req
  IN /\ t \in Requests /\ r \in Reqs /\ y \in Recs /\ x \in Ctxs
     /\ pc[w] = "got" /\ pc' = [pc EXCEPT ![w] = "handle"]
     /\ word[w] = "none" /\ reqs[r].url = t
     /\ held'[w].req = r /\ held'[w].rec = y /\ held'[w].ctx = x
     /\ held[w].rec = None /\ held[w].ctx = None
     /\ \A u \in Workers : u # w =>
          /\ held'[u] = held[u] /\ pc'[u] = pc[u]
          /\ held[u].req # r /\ held[u].rec # y /\ held[u].ctx # x
     /\ reqs' = [reqs EXCEPT ![r] = [url |-> t, header |-> FirstReply(t).shown,
                                     body |-> reqs[r].body]]
     /\ recs' = [recs EXCEPT ![y] = [header |-> FirstReply(t).sent, body |-> <<>>]]
     /\ ctxs[x].status = OK /\ ctxs[x].err = None /\ ctxs[x].data = None
     /\ ~ctxs[x].valid /\ ctxs[x].store = None /\ ~ctxs[x].query.valid
     /\ IF Params[t] = <<>> THEN ctxs' = ctxs /\ stores' = stores
        ELSE /\ s \in FreeStores
             /\ stores[s].count = 0 /\ stores[s].dynamic = <<>>
             /\ ctxs' = [ctxs EXCEPT ![x] = [ctxs[x] EXCEPT !.store = s, !.valid = TRUE]]
             /\ stores' = [stores EXCEPT ![s] = Store(stores[s], t)]

LEMMA FirstReplyOK ==
  ASSUME NEW t \in Requests
  PROVE  /\ ReplyOK(FirstReply(t))
         /\ FirstReply(t) = [NewReply EXCEPT !.shown = FirstReply(t).shown,
                                            !.sent = FirstReply(t).sent]
         /\ FirstReply(t).sent = [NoHeaders EXCEPT !["Server"] = [for |-> t, by |-> "server"]]
         /\ FirstReply(t).shown = FirstReply(t).sent
<1>1. ReplyOK(NewReply)
  BY DEF NewReply, ReplyOK, Replies, Headers, OK
<1>2. "Server" \in Names /\ [for |-> t, by |-> "server"] \in Written
  BY PooledExchangeAssumption DEF Written, Writers
<1>3. ReplyOK(FirstReply(t))
  BY <1>1, <1>2, PutKeeps DEF FirstReply, ReplyOK
<1>4. QED
  BY <1>2, <1>3 DEF FirstReply, Put, NewReply, NoHeaders

LEMMA BeginBegins ==
  ASSUME Ownership, Fresh, NEW w \in Workers, NEW y \in FreeRecs, NEW x \in FreeCtxs,
         Begin(w, y, x)
  PROVE  \E s : Begun(w, y, x, s)
<1> DEFINE t == serving[w]
           r == held[w].req
           server == [for |-> t, by |-> "server"]
<1>1. Types /\ Holding(w) /\ Alone
  BY DEF Ownership
<1>2. /\ pc[w] = "got" /\ t \in Requests /\ r \in Reqs /\ word[w] = "none"
      /\ reqs[r].url = t /\ held[w].rec = None /\ held[w].ctx = None
  BY <1>1 DEF Begin, Handling, Holding, Types, RequestType, CtxType, HeldType, Req
<1>3. /\ y \in Recs /\ x \in Ctxs
      /\ \A u \in Workers : held[u].rec # y /\ held[u].ctx # x
  BY DEF FreeRecs, FreeCtxs
<1>4. \A u \in Workers : u # w => held[u].req # r
  BY <1>1, <1>2, NoneIsNoObject DEF Alone
<1>5. /\ recs[y] = NewRecorder
      /\ ctxs[x].status = OK /\ ctxs[x].err = None /\ ctxs[x].data = None
      /\ ~ctxs[x].valid /\ ctxs[x].store = None /\ ~ctxs[x].query.valid
  BY DEF Fresh
<1>6. /\ held'[w].req = r /\ held'[w].rec = y /\ held'[w].ctx = x
      /\ \A u \in Workers : u # w => held'[u] = held[u]
  <2>1. held' = [held EXCEPT ![w].rec = y, ![w].ctx = x]
    BY DEF Begin
  <2>2. QED
    BY <1>1, <2>1 DEF Types, RequestType, CtxType, HeldType
<1>7. /\ pc' = [pc EXCEPT ![w] = "handle"]
      /\ \A u \in Workers : u # w => pc'[u] = pc[u]
  BY <1>1 DEF Begin, Goto, Types, RequestType, CtxType, HeldType
<1>8. reqs' = [reqs EXCEPT ![r] = [url |-> t, header |-> FirstReply(t).shown,
                                  body |-> reqs[r].body]]
  <2>1. FirstHeader(w, y) = NoHeaders
    BY <1>5 DEF FirstHeader, NewRecorder
  <2>2. reqs' = [reqs EXCEPT ![r].header = [FirstHeader(w, y) EXCEPT !["Server"] = server]]
    BY DEF Begin
  <2>3. [FirstHeader(w, y) EXCEPT !["Server"] = server] = FirstReply(t).shown
    BY <1>2, <2>1, FirstReplyOK
  <2>4. [reqs[r] EXCEPT !.header = FirstReply(t).shown]
          = [url |-> t, header |-> FirstReply(t).shown, body |-> reqs[r].body]
    <3>1. reqs[r] \in RequestType
      BY <1>1, <1>2 DEF Types, RequestType, CtxType, HeldType
    <3>2. QED
      BY <1>2, <3>1 DEF RequestType
  <2>5. QED
    BY <1>1, <1>2, <2>2, <2>3, <2>4 DEF Types, RequestType, CtxType, HeldType
<1>9. recs' = [recs EXCEPT ![y] = [header |-> FirstReply(t).sent, body |-> <<>>]]
  <2>1. recs' = [recs EXCEPT ![y].header["Server"] = server]
    BY DEF Begin
  <2>2. [recs[y] EXCEPT !.header["Server"] = server]
          = [header |-> FirstReply(t).sent, body |-> <<>>]
    <3>1. FirstReply(t).sent = [NoHeaders EXCEPT !["Server"] = server]
      BY <1>2, FirstReplyOK
    <3>2. QED
      BY <1>5, <3>1 DEF NewRecorder
  <2>3. QED
    BY <1>1, <1>3, <2>1, <2>2 DEF Types, RequestType, CtxType, HeldType
<1>10. PICK s \in StoresFor(ctxs[x].store, t) :
         /\ ctxs' = [ctxs EXCEPT ![x].store = s, ![x].valid = @ \/ Params[t] # <<>>]
         /\ stores' = IF Params[t] = <<>> THEN stores
                      ELSE [stores EXCEPT ![s] =
                              Store(IF ctxs[x].store = s THEN Reset(@) ELSE @, t)]
  BY <1>2 DEF Begin, Req
<1>11. CASE Params[t] = <<>>
  <2>1. s = None
    BY <1>5, <1>10, <1>11 DEF StoresFor
  <2>2. ctxs' = ctxs
    <3>1. [ctxs[x] EXCEPT !.store = s, !.valid = @ \/ Params[t] # <<>>] = ctxs[x]
      <4>1. (ctxs[x].valid \/ Params[t] # <<>>) = ctxs[x].valid
        BY <1>1, <1>3, <1>5, <1>11 DEF Types, RequestType, CtxType, HeldType
      <4>2. [ctxs[x] EXCEPT !.store = s, !.valid = ctxs[x].valid] = ctxs[x]
        BY <1>1, <1>3, <1>5, <2>1 DEF Types, RequestType, CtxType, HeldType
      <4>3. QED
        BY <1>1, <1>3, <4>1, <4>2 DEF Types, RequestType, CtxType, HeldType
    <3>2. ctxs' = [ctxs EXCEPT ![x] = ctxs[x]]
      BY <1>1, <1>3, <1>10, <3>1 DEF Types, RequestType, CtxType, HeldType
    <3>3. QED
      BY <1>1, <3>2 DEF Types, RequestType, CtxType, HeldType
  <2>3. QED
    BY <1>2, <1>3, <1>4, <1>5, <1>6, <1>7, <1>8, <1>9, <1>10, <1>11, <2>2 DEF Begun
<1>12. CASE Params[t] # <<>>
  <2>1. s \in FreeStores
    BY <1>5, <1>10, <1>12 DEF StoresFor
  <2>2. stores[s].count = 0 /\ stores[s].dynamic = <<>>
    BY <2>1 DEF Fresh
  <2>3. s # None
    BY <2>1, NoneIsNoObject DEF FreeStores
  <2>4. stores' = [stores EXCEPT ![s] = Store(stores[s], t)]
    BY <1>5, <1>10, <1>12, <2>3
  <2>5. ctxs' = [ctxs EXCEPT ![x] = [ctxs[x] EXCEPT !.store = s, !.valid = TRUE]]
    BY <1>1, <1>3, <1>5, <1>10, <1>12 DEF Types, RequestType, CtxType, HeldType
  <2>6. QED
    BY <1>2, <1>3, <1>4, <1>5, <1>6, <1>7, <1>8, <1>9, <1>12, <2>1, <2>2, <2>4, <2>5
       DEF Begun
<1>13. QED
  BY <1>11, <1>12

\* Of the objects of others nothing changes, and w has the reply that its request begins with.
LEMMA BegunReplies ==
  ASSUME Ownership, NEW w \in Workers, NEW y, NEW x, NEW s, Begun(w, y, x, s),
         UNCHANGED <<bufs, serving, handler, spoilt>>
  PROVE  /\ Handling(w)' /\ ~Handling(w)
         /\ Gathered(w)' = FirstReply(serving[w])
         /\ Req(w)'.url = serving[w] /\ Req(w)'.body = Req(w).body
         /\ \A u \in Workers : u # w =>
              /\ Handling(u)' = Handling(u)
              /\ pc[u] # "idle" => Req(u)' = Req(u)
              /\ Handling(u) => Ctx(u)' = Ctx(u) /\ Gathered(u)' = Gathered(u)
<1> DEFINE t == serving[w]
           r == held[w].req
<1>1. Types /\ (\A u \in Workers : Holding(u))
  BY DEF Ownership
<1>2. Handling(w)' /\ ~Handling(w)
  BY <1>1 DEF Begun, Handling, Types, RequestType, CtxType, HeldType
<1>3. Req(w)' = [url |-> t, header |-> FirstReply(t).shown, body |-> Req(w).body]
  BY <1>1 DEF Begun, Req, Types, RequestType, CtxType, HeldType
<1>4. Rec(w)' = [header |-> FirstReply(t).sent, body |-> <<>>]
  BY <1>1 DEF Begun, Rec, Types, RequestType, CtxType, HeldType
<1>5. Ctx(w)'.status = OK /\ Ctx(w)'.err = None /\ Ctx(w)'.data = None
  <2>1. \/ ctxs' = ctxs
        \/ ctxs' = [ctxs EXCEPT ![x] = [ctxs[x] EXCEPT !.store = s, !.valid = TRUE]]
    BY DEF Begun
  <2>2. /\ held'[w].ctx = x /\ x \in Ctxs
        /\ ctxs[x].status = OK /\ ctxs[x].err = None /\ ctxs[x].data = None
    BY DEF Begun
  <2>3. /\ ctxs'[x].status = ctxs[x].status /\ ctxs'[x].err = ctxs[x].err
        /\ ctxs'[x].data = ctxs[x].data
    <3>1. ctxs[x] \in CtxType
      BY <1>1, <2>2 DEF Types, RequestType, CtxType, HeldType
    <3>2. ctxs' = ctxs \/ ctxs'[x] = [ctxs[x] EXCEPT !.store = s, !.valid = TRUE]
      BY <1>1, <2>1, <2>2 DEF Types, RequestType, CtxType, HeldType
    <3>3. QED
      BY <3>1, <3>2 DEF CtxType
  <2>4. QED
    BY <2>2, <2>3 DEF Ctx
<1>6. word'[w] = "none"
  BY DEF Begun, handler
<1>7. Gathered(w)' = FirstReply(t)
  <2>1. t \in Requests
    BY DEF Begun
  <2>2. FirstReply(t) = [status |-> OK, err |-> None, shown |-> FirstReply(t).shown,
                         sent |-> FirstReply(t).sent, body |-> <<>>, data |-> None,
                         word |-> "none"]
    BY <2>1, FirstReplyOK DEF NewReply
  <2>3. QED
    BY <1>3, <1>4, <1>5, <1>6, <2>2 DEF Gathered
<1>8. ASSUME NEW u \in Workers, u # w
      PROVE  /\ Handling(u)' = Handling(u)
             /\ pc[u] # "idle" => Req(u)' = Req(u)
             /\ Handling(u) => Ctx(u)' = Ctx(u) /\ Gathered(u)' = Gathered(u)
  <2>1. /\ held'[u] = held[u] /\ pc'[u] = pc[u] /\ word' = word
        /\ held[u].req # r /\ held[u].rec # y /\ held[u].ctx # x
    BY <1>8 DEF Begun, handler
  <2>2. Handling(u)' = Handling(u)
    BY <2>1 DEF Handling
  <2>3. pc[u] # "idle" => Req(u)' = Req(u)
    <3>1. pc[u] # "idle" => held[u].req \in Reqs
      BY <1>1 DEF Holding, Types, RequestType, CtxType, HeldType
    <3>2. QED
      BY <1>1, <2>1, <3>1 DEF Begun, Req, Types, RequestType, CtxType, HeldType
  <2>4. ASSUME Handling(u)
        PROVE  Ctx(u)' = Ctx(u) /\ Gathered(u)' = Gathered(u)
    <3>1. held[u].rec \in Recs /\ held[u].ctx \in Ctxs
      BY <1>1, <2>4 DEF Holding, Types, RequestType, CtxType, HeldType
    <3>2. Rec(u)' = Rec(u)
      BY <1>1, <2>1, <3>1 DEF Begun, Rec, Types, RequestType, CtxType, HeldType
    <3>3. Ctx(u)' = Ctx(u)
      <4>1. \/ ctxs' = ctxs
            \/ ctxs' = [ctxs EXCEPT ![x] = [ctxs[x] EXCEPT !.store = s, !.valid = TRUE]]
        BY DEF Begun
      <4>2. QED
        BY <1>1, <2>1, <3>1, <4>1 DEF Ctx, Types, RequestType, CtxType, HeldType
    <3>4. pc[u] # "idle"
      BY <2>4 DEF Handling
    <3>5. QED
      BY <2>1, <2>3, <3>2, <3>3, <3>4 DEF Gathered
  <2>5. QED
    BY <2>2, <2>3, <2>4
<1>9. QED
  BY <1>2, <1>3, <1>7, <1>8

LEMMA BeginKeeps ==
  ASSUME IInv, NEW w \in Workers, NEW y \in FreeRecs, NEW x \in FreeCtxs, Begin(w, y, x)
  PROVE  IInv'
<1> DEFINE t == serving[w]
           r == held[w].req
<1>1. Ownership /\ Types /\ Alone /\ Fresh /\ (\A u \in Workers : Holding(u))
  BY DEF IInv, Ownership
<1>2. PICK s : Begun(w, y, x, s)
  BY <1>1, BeginBegins
<1>3. UNCHANGED <<bufs, serving, handler, spoilt>> /\ UNCHANGED <<word, response>>
  BY DEF Begin, handler
<1>4. /\ Handling(w)' /\ ~Handling(w)
      /\ Gathered(w)' = FirstReply(t)
      /\ Req(w)'.url = t /\ Req(w)'.body = Req(w).body
      /\ \A u \in Workers : u # w =>
           /\ Handling(u)' = Handling(u)
           /\ pc[u] # "idle" => Req(u)' = Req(u)
           /\ Handling(u) => Ctx(u)' = Ctx(u) /\ Gathered(u)' = Gathered(u)
  BY <1>1, <1>2, <1>3, BegunReplies
<1>5. /\ t \in Requests /\ r \in Reqs /\ y \in Recs /\ x \in Ctxs
      /\ ReplyOK(FirstReply(t)) /\ FirstReply(t) \in Replies
  BY <1>2, FirstReplyOK DEF Begun, ReplyOK
<1>6. Types'
  <2>1. FirstReply(t).shown \in Headers /\ FirstReply(t).sent \in Headers
        /\ Headers \subseteq [Names -> Values \cup {None}]
    BY <1>5 DEF Replies, Headers, Written, Values
  <2>2. reqs' \in [Reqs -> RequestType]
    <3>1. reqs[r].body \in Bodies \cup {None}
      BY <1>1, <1>5 DEF Types, RequestType, CtxType, HeldType
    <3>2. QED
      BY <1>1, <1>2, <1>5, <2>1, <3>1 DEF Begun, Types, RequestType, CtxType, HeldType
  <2>3. recs' \in [Recs -> [header : Headers, body : Seq(Written)]]
    BY <1>1, <1>2, <2>1 DEF Begun, Types, RequestType, CtxType, HeldType
  <2>4. ctxs' \in [Ctxs -> CtxType]
    <3> DEFINE c == [ctxs[x] EXCEPT !.store = s, !.valid = TRUE]
    <3>1. ctxs[x] \in CtxType
      BY <1>1, <1>5 DEF Types, RequestType, CtxType, HeldType
    <3>2. s \in Stores => c \in CtxType
      BY <3>1 DEF CtxType
    <3>3. ctxs' = ctxs \/ (s \in Stores /\ ctxs' = [ctxs EXCEPT ![x] = c])
      BY <1>2 DEF Begun, FreeStores
    <3> HIDE DEF c
    <3>4. QED
      BY <1>1, <3>2, <3>3 DEF Types, RequestType, CtxType, HeldType
  <2>5. stores' \in [Stores -> StoreType]
    <3>1. CASE Params[t] = <<>>
      BY <1>1, <1>2, <3>1 DEF Begun, Types, RequestType, CtxType, HeldType, StoreType
    <3>2. CASE Params[t] # <<>>
      <4>1. /\ s \in Stores /\ stores[s].count = 0 /\ stores[s].dynamic = <<>>
            /\ stores' = [stores EXCEPT ![s] = Store(stores[s], t)]
        BY <1>2, <3>2 DEF Begun, FreeStores
      <4>2. stores \in [Stores -> StoreType]
        BY <1>1 DEF Types, RequestType, CtxType, HeldType, StoreType
      <4>3. Store(stores[s], t) \in StoreType
        BY <1>5, <3>2, <4>1, <4>2, StoreAnswers
      <4>4. QED
        BY <4>1, <4>2, <4>3
    <3>3. QED
      BY <3>1, <3>2
  <2>6. /\ pc' \in [Workers -> {"idle", "got", "handle", "answered"}]
        /\ held' \in [Workers -> HeldType]
    <3>1. held' = [held EXCEPT ![w].rec = y, ![w].ctx = x]
      BY DEF Begin
    <3>2. held[w] \in HeldType
      BY <1>1 DEF Types, RequestType, CtxType, HeldType
    <3>3. [held[w] EXCEPT !.rec = y, !.ctx = x]
            \in HeldType
      BY <1>5, <3>2 DEF HeldType
    <3>4. held' = [held EXCEPT ![w] = [held[w] EXCEPT !.rec = y, !.ctx = x]]
      BY <1>1, <3>1 DEF Types, RequestType, CtxType, HeldType
    <3>5. pc' = [pc EXCEPT ![w] = "handle"]
      BY <1>2 DEF Begun
    <3>6. QED
      BY <1>1, <3>3, <3>4, <3>5 DEF Types, RequestType, CtxType, HeldType
  <2>7. QED
    BY <1>1, <1>3, <2>2, <2>3, <2>4, <2>5, <2>6 DEF Types, RequestType, CtxType, HeldType, StoreType
<1>7. \A u \in Workers : Holding(u)'
  <2>1. Holding(w)'
    BY <1>1, <1>2, <1>3, <1>4, <1>5, NoneIsNoObject DEF Begun, Holding, Handling, Types, RequestType, CtxType, HeldType
  <2>2. ASSUME NEW u \in Workers, u # w
        PROVE  Holding(u)'
    <3>1. held'[u] = held[u] /\ pc'[u] = pc[u] /\ Handling(u)' = Handling(u)
      BY <1>2, <1>4, <2>2 DEF Begun
    <3>2. QED
      BY <1>1, <1>3, <1>4, <2>2, <3>1 DEF Holding
  <2>3. QED
    BY <2>1, <2>2
<1>8. Alone'
  <2>1. ASSUME NEW u \in Workers, NEW v \in Workers, u # v
        PROVE  /\ held'[u].req = held'[v].req => held'[u].req = None
               /\ held'[u].rec = held'[v].rec => held'[u].rec = None
               /\ held'[u].ctx = held'[v].ctx => held'[u].ctx = None
    <3>1. CASE u # w /\ v # w
      BY <1>1, <1>2, <2>1, <3>1 DEF Begun, Alone
    <3>2. CASE u = w \/ v = w
      BY <1>2, <2>1, <3>2 DEF Begun
    <3>3. QED
      BY <3>1, <3>2
  <2>2. ASSUME NEW c \in Ctxs, NEW d \in Ctxs, c # d, ctxs'[c].store = ctxs'[d].store
        PROVE  ctxs'[c].store = None
    <3>1. CASE Params[t] = <<>>
      BY <1>1, <1>2, <2>2, <3>1 DEF Begun, Alone
    <3>2. CASE Params[t] # <<>>
      <4>1. /\ s \in FreeStores
            /\ ctxs' = [ctxs EXCEPT ![x] = [ctxs[x] EXCEPT !.store = s, !.valid = TRUE]]
        BY <1>2, <3>2 DEF Begun
      <4>2. ctxs'[x].store = s /\ \A z \in Ctxs : z # x => ctxs'[z] = ctxs[z]
        BY <1>1, <1>5, <4>1 DEF Types, RequestType, CtxType, HeldType
      <4>3. ctxs[c].store # s /\ ctxs[d].store # s
        BY <4>1 DEF FreeStores
      <4>4. QED
        BY <1>1, <2>2, <4>2, <4>3 DEF Alone
    <3>3. QED
      BY <3>1, <3>2
  <2>3. QED
    BY <2>1, <2>2 DEF Alone
<1>9. Fresh'
  <2>1. FreeRecs' \subseteq FreeRecs \ {y} /\ FreeCtxs' \subseteq FreeCtxs \ {x}
    <3>1. /\ held'[w].rec = y /\ held'[w].ctx = x
          /\ held[w].rec = None /\ held[w].ctx = None
          /\ \A u \in Workers : u # w => held'[u].rec = held[u].rec /\ held'[u].ctx = held[u].ctx
      BY <1>2 DEF Begun
    <3>2. QED
      BY <3>1, NoneIsNoObject DEF FreeRecs, FreeCtxs
  <2>2. /\ \A z \in Recs : z # y => recs'[z] = recs[z]
        /\ \A z \in Ctxs : z # x => ctxs'[z] = ctxs[z]
    BY <1>1, <1>2 DEF Begun, Types
  <2>3. \A z \in FreeStores' : z \in FreeStores /\ stores'[z] = stores[z]
    <3>1. CASE Params[t] = <<>>
      BY <1>2, <3>1 DEF Begun, FreeStores
    <3>2. CASE Params[t] # <<>>
      <4>1. /\ s \in FreeStores /\ ctxs[x].store = None
            /\ ctxs' = [ctxs EXCEPT ![x] = [ctxs[x] EXCEPT !.store = s, !.valid = TRUE]]
            /\ stores' = [stores EXCEPT ![s] = Store(stores[s], t)]
        BY <1>2, <3>2 DEF Begun
      <4>2. ctxs'[x].store = s /\ \A z \in Ctxs : z # x => ctxs'[z] = ctxs[z]
        BY <1>1, <1>5, <4>1 DEF Types, CtxType
      <4>3. \A z \in FreeStores' : z # s /\ z \in Stores /\ z # None
        BY <1>5, <4>2, NoneIsNoObject DEF FreeStores
      <4>4. \A z \in FreeStores' : z \in FreeStores
        BY <4>1, <4>2, <4>3 DEF FreeStores
      <4>5. QED
        BY <1>1, <4>1, <4>3, <4>4 DEF Types
    <3>3. QED
      BY <3>1, <3>2
  <2>4. \A z \in FreeCtxs' : z \in FreeCtxs /\ ctxs'[z] = ctxs[z]
    BY <2>1, <2>2 DEF FreeCtxs
  <2>5. \A z \in FreeRecs' : z \in FreeRecs /\ recs'[z] = recs[z]
    BY <2>1, <2>2 DEF FreeRecs
  <2>6. QED
    BY <1>1, <2>3, <2>4, <2>5 DEF Fresh
<1>10. ParamsFound'
  <2>1. ASSUME NEW u \in Workers, u # w, Handling(u)', Params[serving[u]] # <<>>
        PROVE  /\ Ctx(u)' = Ctx(u) /\ Ctx(u).valid /\ Ctx(u).store # None
               /\ stores'[Ctx(u).store] = stores[Ctx(u).store]
               /\ Stored(stores[Ctx(u).store], serving[u])
    <3>1. Handling(u) /\ Ctx(u)' = Ctx(u)
      BY <1>4, <2>1
    <3>2. Ctx(u).valid /\ Ctx(u).store # None /\ Stored(stores[Ctx(u).store], serving[u])
      BY <2>1, <3>1 DEF IInv, ParamsFound
    <3>3. held[u].ctx \in Ctxs /\ Ctx(u).store \in Stores
      BY <1>1, <3>1, <3>2 DEF Holding, Types, HeldType, CtxType, Ctx
    <3>4. s \in FreeStores => Ctx(u).store # s
      BY <3>3 DEF FreeStores, Ctx
    <3>5. stores'[Ctx(u).store] = stores[Ctx(u).store]
      BY <1>1, <1>2, <3>3, <3>4 DEF Begun, Types
    <3>6. QED
      BY <3>1, <3>2, <3>5
  <2>2. ASSUME NEW u \in Workers, u # w, Handling(u)', Params[serving[u]] = <<>>
        PROVE  ~Ctx(u)'.valid
    BY <1>4, <2>2 DEF IInv, ParamsFound
  <2>3. Params[t] = <<>> => ~Ctx(w)'.valid
    BY <1>2 DEF Begun, Ctx
  <2>4. ASSUME Params[t] # <<>>
        PROVE  /\ Ctx(w)'.valid /\ Ctx(w)'.store # None
               /\ Stored(stores'[Ctx(w)'.store], t)
    <3>1. /\ s \in Stores /\ stores[s].count = 0 /\ stores[s].dynamic = <<>>
          /\ stores' = [stores EXCEPT ![s] = Store(stores[s], t)]
          /\ ctxs' = [ctxs EXCEPT ![x] = [ctxs[x] EXCEPT !.store = s, !.valid = TRUE]]
          /\ held'[w].ctx = x
      BY <1>2, <2>4 DEF Begun, FreeStores
    <3>2. ctxs[x] \in CtxType /\ stores[s] \in StoreType
      BY <1>1, <1>5, <3>1 DEF Types
    <3>3. ctxs'[x].store = s /\ ctxs'[x].valid
      BY <1>1, <1>5, <3>1, <3>2 DEF Types, CtxType
    <3>4. stores'[s] = Store(stores[s], t)
      BY <1>1, <3>1 DEF Types
    <3>5. Stored(Store(stores[s], t), t)
      BY <1>5, <2>4, <3>1, <3>2, StoreAnswers
    <3>6. QED
      BY <3>1, <3>3, <3>4, <3>5, NoneIsNoObject DEF Ctx
  <2>5. QED
    BY <1>3, <2>1, <2>2, <2>3, <2>4 DEF ParamsFound
<1>11. QueryCached'
  <2>1. ctxs'[x].query = ctxs[x].query
    <3>1. ctxs[x] \in CtxType
      BY <1>1, <1>5 DEF Types
    <3>2. ctxs' = ctxs \/ ctxs'[x] = [ctxs[x] EXCEPT !.store = s, !.valid = TRUE]
      BY <1>1, <1>2, <1>5 DEF Begun, Types
    <3>3. QED
      BY <3>1, <3>2 DEF CtxType
  <2>2. \A z \in Ctxs : z # x => ctxs'[z] = ctxs[z]
    BY <1>1, <1>2 DEF Begun, Types
  <2>3. QED
    BY <2>1, <2>2 DEF IInv, QueryCached
<1>12. RepliesOK'
  <2>1. pc'[w] = "handle" /\ \A u \in Workers : u # w => pc'[u] = pc[u]
    BY <1>1, <1>2 DEF Begun, Types
  <2>2. Gathered(w)' \in Replies /\ ReplyOK(Gathered(w)')
    BY <1>4, <1>5
  <2>3. ASSUME NEW u \in Workers, u # w
        PROVE  /\ Handling(u)' => Gathered(u)' \in Replies
               /\ pc'[u] = "handle" => ReplyOK(Gathered(u)')
               /\ pc'[u] = "answered" =>
                    ErrorShown(Gathered(u)', serving[u] \in HeadRequests, response[u])
    <3>1. /\ pc'[u] = pc[u] /\ Handling(u)' = Handling(u)
          /\ Handling(u) => Gathered(u)' = Gathered(u)
      BY <1>4, <2>1, <2>3
    <3>2. pc[u] \in {"handle", "answered"} => Handling(u)
      BY DEF Handling
    <3>3. QED
      BY <3>1, <3>2 DEF IInv, RepliesOK
  <2>4. QED
    BY <1>3, <2>1, <2>2, <2>3 DEF RepliesOK
<1>13. BodiesKept'
  <2>1. pc[w] = "got" /\ \A u \in Workers : u # w => pc'[u] = pc[u]
    BY <1>2 DEF Begun
  <2>2. QED
    BY <1>3, <1>4, <2>1 DEF IInv, BodiesKept
<1>14. QED
  BY <1>6, <1>7, <1>8, <1>9, <1>10, <1>11, <1>12, <1>13 DEF IInv, Ownership

\* What the handler of w leaves as it is.
LEMMA Scattered ==
  ASSUME Ownership, NEW w \in Workers, Handling(w), NEW r \in Replies, Scatter(w, r),
         UNCHANGED held
  PROVE  /\ reqs' \in [Reqs -> RequestType]
         /\ recs' \in [Recs -> [header : Headers, body : Seq(Written)]]
         /\ ctxs' \in [Ctxs -> CtxType]
         /\ word' \in [Workers -> {"none", "status", "error"}]
         /\ Gathered(w)' = r
         /\ Req(w)'.url = Req(w).url /\ Req(w)'.body = Req(w).body
         /\ \A z \in Recs : z # held[w].rec => recs'[z] = recs[z]
         /\ \A z \in Ctxs : z # held[w].ctx => ctxs'[z] = ctxs[z]
         /\ \A z \in Ctxs : /\ ctxs'[z].valid = ctxs[z].valid
                            /\ ctxs'[z].store = ctxs[z].store
                            /\ ctxs'[z].query = ctxs[z].query
         /\ \A u \in Workers : u # w =>
              /\ word'[u] = word[u]
              /\ pc[u] # "idle" => Req(u)' = Req(u)
              /\ Handling(u) => Ctx(u)' = Ctx(u) /\ Gathered(u)' = Gathered(u)
<1> DEFINE q == held[w].req
           y == held[w].rec
           x == held[w].ctx
           req == [reqs[q] EXCEPT !.header = r.shown]
           ctx == [ctxs[x] EXCEPT !.status = r.status, !.err = r.err, !.data = r.data]
<1>1. Types /\ (\A u \in Workers : Holding(u)) /\ Alone
  BY DEF Ownership
<1>2. q \in Reqs /\ y \in Recs /\ x \in Ctxs
  BY <1>1 DEF Holding, Handling, Types, HeldType
<1>3. /\ r.shown \in Headers /\ r.sent \in Headers /\ r.body \in Seq(Written)
      /\ r.status \in Nat /\ r.err \in {"plain", "HttpError", None}
      /\ r.data \in Requests \cup {None} /\ r.word \in {"none", "status", "error"}
  BY DEF Replies
<1>4. /\ req \in RequestType /\ req.header = r.shown
      /\ req.url = reqs[q].url /\ req.body = reqs[q].body
  <2>1. reqs[q] \in RequestType
    BY <1>1, <1>2 DEF Types
  <2>2. r.shown \in [Names -> Values \cup {None}]
    BY <1>3 DEF Headers, Written, Values
  <2>3. QED
    BY <2>1, <2>2 DEF RequestType
<1>5. /\ ctx \in CtxType /\ ctx.status = r.status /\ ctx.err = r.err /\ ctx.data = r.data
      /\ ctx.valid = ctxs[x].valid /\ ctx.store = ctxs[x].store /\ ctx.query = ctxs[x].query
  <2>1. ctxs[x] \in CtxType
    BY <1>1, <1>2 DEF Types
  <2>2. QED
    BY <1>3, <2>1 DEF CtxType
<1>6. /\ reqs' = [reqs EXCEPT ![q] = req]
      /\ recs' = [recs EXCEPT ![y] = [header |-> r.sent, body |-> r.body]]
      /\ ctxs' = [ctxs EXCEPT ![x] = ctx]
      /\ word' = [word EXCEPT ![w] = r.word]
  BY <1>1 DEF Scatter, Types
<1> HIDE DEF req, ctx
<1>7. /\ reqs' \in [Reqs -> RequestType]
      /\ recs' \in [Recs -> [header : Headers, body : Seq(Written)]]
      /\ ctxs' \in [Ctxs -> CtxType]
      /\ word' \in [Workers -> {"none", "status", "error"}]
  BY <1>1, <1>3, <1>4, <1>5, <1>6 DEF Types
<1>8. /\ reqs'[q] = req /\ recs'[y] = [header |-> r.sent, body |-> r.body] /\ ctxs'[x] = ctx
      /\ word'[w] = r.word
      /\ \A z \in Reqs : z # q => reqs'[z] = reqs[z]
      /\ \A z \in Recs : z # y => recs'[z] = recs[z]
      /\ \A z \in Ctxs : z # x => ctxs'[z] = ctxs[z]
      /\ \A u \in Workers : u # w => word'[u] = word[u]
  BY <1>1, <1>2, <1>6 DEF Types
<1>9. Gathered(w)' = r
  <2>1. Gathered(w)' = [status |-> r.status, err |-> r.err, shown |-> r.shown,
                        sent |-> r.sent, body |-> r.body, data |-> r.data, word |-> r.word]
    BY <1>4, <1>5, <1>8 DEF Gathered, Req, Rec, Ctx
  <2>2. QED
    BY <2>1 DEF Replies
<1>10. Req(w)'.url = Req(w).url /\ Req(w)'.body = Req(w).body
  BY <1>4, <1>8 DEF Req
<1>11. \A z \in Ctxs : /\ ctxs'[z].valid = ctxs[z].valid
                      /\ ctxs'[z].store = ctxs[z].store
                      /\ ctxs'[z].query = ctxs[z].query
  BY <1>5, <1>8
<1>12. ASSUME NEW u \in Workers, u # w
       PROVE  /\ pc[u] # "idle" => Req(u)' = Req(u)
              /\ Handling(u) => Ctx(u)' = Ctx(u) /\ Gathered(u)' = Gathered(u)
  <2>1. /\ held[u].req = q => held[u].req = None
        /\ held[u].rec = y => held[u].rec = None
        /\ held[u].ctx = x => held[u].ctx = None
    BY <1>1, <1>12 DEF Alone
  <2>2. pc[u] # "idle" => held[u].req \in Reqs \ {q}
    BY <1>1, <2>1 DEF Holding, Types, HeldType
  <2>3. Handling(u) => held[u].rec \in Recs \ {y} /\ held[u].ctx \in Ctxs \ {x}
    BY <1>1, <2>1 DEF Holding, Types, HeldType
  <2>4. pc[u] # "idle" => Req(u)' = Req(u)
    BY <1>8, <2>2 DEF Req
  <2>5. Handling(u) => Ctx(u)' = Ctx(u) /\ Rec(u)' = Rec(u) /\ pc[u] # "idle"
    BY <1>8, <2>3 DEF Ctx, Rec, Handling
  <2>6. QED
    BY <1>8, <1>12, <2>4, <2>5 DEF Gathered
<1>13. QED
  BY <1>7, <1>8, <1>9, <1>10, <1>11, <1>12

\* w makes r of its reply, and has answered a if it is done.
LEMMA ReplyKeeps ==
  ASSUME IInv, NEW w \in Workers, Handling(w), NEW r \in Replies, Scatter(w, r),
         NEW label \in {"handle", "answered"}, pc' = [pc EXCEPT ![w] = label],
         NEW a \in [status : Nat, headers : Headers, body : Seq(Written)] \cup {None},
         response' = [response EXCEPT ![w] = a],
         label = "handle" => ReplyOK(r),
         label = "answered" => ErrorShown(r, serving[w] \in HeadRequests, a),
         UNCHANGED <<stores, bufs, held, serving, spoilt>>
  PROVE  IInv'
<1>1. Ownership /\ Types /\ Alone /\ (\A u \in Workers : Holding(u))
  BY DEF IInv, Ownership
<1>2. /\ reqs' \in [Reqs -> RequestType]
      /\ recs' \in [Recs -> [header : Headers, body : Seq(Written)]]
      /\ ctxs' \in [Ctxs -> CtxType]
      /\ word' \in [Workers -> {"none", "status", "error"}]
  BY <1>1, Scattered
<1>3. /\ Gathered(w)' = r
      /\ Req(w)'.url = Req(w).url /\ Req(w)'.body = Req(w).body
      /\ \A z \in Recs : z # held[w].rec => recs'[z] = recs[z]
      /\ \A z \in Ctxs : z # held[w].ctx => ctxs'[z] = ctxs[z]
      /\ \A z \in Ctxs : /\ ctxs'[z].valid = ctxs[z].valid
                         /\ ctxs'[z].store = ctxs[z].store
                         /\ ctxs'[z].query = ctxs[z].query
      /\ \A u \in Workers : u # w =>
           /\ word'[u] = word[u]
           /\ pc[u] # "idle" => Req(u)' = Req(u)
           /\ Handling(u) => Ctx(u)' = Ctx(u) /\ Gathered(u)' = Gathered(u)
  BY <1>1, Scattered
<1>4. /\ pc'[w] = label /\ Handling(w)' /\ pc[w] # "idle"
      /\ \A u \in Workers : u # w => pc'[u] = pc[u] /\ Handling(u)' = Handling(u)
  BY <1>1 DEF Types, Handling
<1>5. /\ response'[w] = a
      /\ \A u \in Workers : u # w => response'[u] = response[u]
  BY <1>1 DEF Types
<1>6. Types'
  BY <1>1, <1>2 DEF Types
<1>7. \A u \in Workers : Holding(u)'
  <2>1. Holding(w)'
    BY <1>1, <1>3, <1>4 DEF Holding
  <2>2. ASSUME NEW u \in Workers, u # w
        PROVE  Holding(u)'
    BY <1>1, <1>3, <1>4, <2>2 DEF Holding
  <2>3. QED
    BY <2>1, <2>2
<1>8. Alone'
  BY <1>1, <1>3 DEF Alone
<1>9. Fresh'
  <2>1. FreeRecs' = FreeRecs /\ \A y \in FreeRecs : y \in Recs /\ y # held[w].rec
    BY DEF FreeRecs
  <2>2. FreeCtxs' = FreeCtxs /\ \A x \in FreeCtxs : x \in Ctxs /\ x # held[w].ctx
    BY DEF FreeCtxs
  <2>3. FreeStores' = FreeStores
    <3>1. {ctxs'[x].store : x \in Ctxs} = {ctxs[x].store : x \in Ctxs}
      BY <1>3
    <3>2. QED
      BY <3>1 DEF FreeStores
  <2>4. QED
    BY <1>3, <2>1, <2>2, <2>3 DEF IInv, Fresh
<1>10. ParamsFound' /\ QueryCached'
  <2>1. Ctx(w)'.valid = Ctx(w).valid /\ Ctx(w)'.store = Ctx(w).store
    <3>1. held[w].ctx \in Ctxs
      BY <1>1 DEF Holding, Types, HeldType
    <3>2. QED
      BY <1>3, <3>1 DEF Ctx
  <2>2. \A u \in Workers : Handling(u)' =>
           /\ Handling(u)
           /\ Ctx(u)'.valid = Ctx(u).valid /\ Ctx(u)'.store = Ctx(u).store
    BY <1>3, <1>4, <2>1
  <2>3. ParamsFound'
    BY <2>2 DEF IInv, ParamsFound
  <2>4. QueryCached'
    BY <1>3 DEF IInv, QueryCached
  <2>5. QED
    BY <2>3, <2>4
<1>11. RepliesOK'
  <2>1. ASSUME NEW u \in Workers, u # w
        PROVE  /\ Handling(u)' => Gathered(u)' \in Replies
               /\ pc'[u] = "handle" => ReplyOK(Gathered(u)')
               /\ pc'[u] = "answered" =>
                    ErrorShown(Gathered(u)', serving'[u] \in HeadRequests, response'[u])
    <3>1. /\ pc'[u] = pc[u] /\ Handling(u)' = Handling(u)
          /\ Handling(u) => Gathered(u)' = Gathered(u)
          /\ response'[u] = response[u]
      BY <1>3, <1>4, <1>5, <2>1
    <3>2. pc[u] \in {"handle", "answered"} => Handling(u)
      BY DEF Handling
    <3>3. QED
      BY <3>1, <3>2 DEF IInv, RepliesOK
  <2>2. QED
    BY <1>3, <1>4, <1>5, <2>1 DEF RepliesOK
<1>12. BodiesKept'
  BY <1>3, <1>4 DEF IInv, BodiesKept
<1>13. QED
  BY <1>6, <1>7, <1>8, <1>9, <1>10, <1>11, <1>12 DEF IInv, Ownership

LEMMA CallKeeps ==
  ASSUME IInv, NEW w \in Workers, Call(w)
  PROVE  IInv'
<1>1. pc[w] = "handle" /\ Handling(w) /\ Types /\ Holding(w)
  BY DEF Call, Counted, Handling, IInv, Ownership
<1>2. ReplyOK(Gathered(w)) /\ serving[w] \in Requests
  BY <1>1 DEF IInv, RepliesOK, Holding
<1>3. PICK r \in Called(Gathered(w), serving[w]) : Scatter(w, r)
  BY DEF Call
<1>4. ReplyOK(r) /\ r \in Replies
  BY <1>2, <1>3, CalledKeeps DEF ReplyOK
<1>5. pc' = [pc EXCEPT ![w] = "handle"] /\ response' = [response EXCEPT ![w] = response[w]]
  BY <1>1 DEF Call, Types
<1>6. response[w] \in [status : Nat, headers : Headers, body : Seq(Written)] \cup {None}
  BY <1>1 DEF Types
<1>7. UNCHANGED <<stores, bufs, held, serving, spoilt>>
  BY DEF Call
<1>8. QED
  BY <1>1, <1>3, <1>4, <1>5, <1>6, <1>7, ReplyKeeps

LEMMA AnswerKeeps ==
  ASSUME IInv, NEW w \in Workers, Answer(w)
  PROVE  IInv'
<1> DEFINE head == serving[w] \in HeadRequests
           r == Answered(Gathered(w), serving[w], head)
           a == Response(r, head)
<1>1. pc[w] = "handle" /\ Handling(w) /\ Types /\ Holding(w)
  BY DEF Answer, Handling, IInv, Ownership
<1>2. ReplyOK(Gathered(w)) /\ serving[w] \in Requests /\ Req(w).url = serving[w]
  BY <1>1 DEF IInv, RepliesOK, Holding
<1>3. Scatter(w, r) /\ response' = [response EXCEPT ![w] = a]
  BY <1>2 DEF Answer
<1>4. /\ r \in Replies
      /\ a \in [status : Nat, headers : Headers, body : Seq(Written)] \cup {None}
      /\ ErrorShown(r, head, a)
  <2>1. head \in BOOLEAN
    OBVIOUS
  <2> HIDE DEF head
  <2>2. QED
    BY <1>2, <2>1, AnsweredShows
<1>5. pc' = [pc EXCEPT ![w] = "answered"]
  BY DEF Answer, Goto
<1>6. UNCHANGED <<stores, bufs, held, serving, spoilt>>
  BY DEF Answer
<1> HIDE DEF r, a
<1>7. QED
  BY <1>1, <1>3, <1>4, <1>5, <1>6, ReplyKeeps

\* The invariant does not depend on what a handler has read.
LEMMA ReadKeeps ==
  ASSUME IInv, UNCHANGED <<objects, bufs, pc, held, serving, word, response, spoilt>>
  PROVE  IInv'
<1> USE DEF objects
<1>1. Ownership'
  BY DEF IInv, Ownership, Types, Holding, Handling, Req, Alone
<1>2. Fresh' /\ QueryCached'
  BY DEF IInv, Fresh, FreeRecs, FreeCtxs, FreeStores, QueryCached
<1>3. ParamsFound' /\ BodiesKept'
  BY DEF IInv, ParamsFound, Handling, Ctx, BodiesKept, Req
<1>4. RepliesOK'
  BY DEF IInv, RepliesOK, Handling, Gathered, Req, Rec, Ctx
<1>5. QED
  BY <1>1, <1>2, <1>3, <1>4 DEF IInv

LEMMA ReadQueryKeeps ==
  ASSUME IInv, NEW w \in Workers, ReadQuery(w)
  PROVE  IInv'
<1> DEFINE x == held[w].ctx
           raw == Query[serving[w]]
           q == IF raw = None \/ (Ctx(w).query.valid /\ Ctx(w).query.raw = raw)
                THEN Ctx(w).query ELSE [valid |-> TRUE, raw |-> raw, values |-> raw]
<1>1. /\ Ownership /\ Types /\ Alone /\ (\A u \in Workers : Holding(u))
      /\ pc[w] = "handle" /\ Handling(w)
  BY DEF IInv, Ownership, ReadQuery, Counted, Handling
<1>2. x \in Ctxs /\ ctxs[x] \in CtxType /\ serving[w] \in Requests /\ Req(w).url = serving[w]
  BY <1>1 DEF Holding, Handling, Types, HeldType
<1>3. UNCHANGED <<reqs, recs, stores, bufs, pc, held, serving, word, response, spoilt>>
  BY DEF ReadQuery
<1>4. ctxs' = [ctxs EXCEPT ![x] = [ctxs[x] EXCEPT !.query = q]]
  BY <1>1, <1>2 DEF ReadQuery, Types
<1>5. /\ q \in [valid : BOOLEAN, raw : RawQueries, values : RawQueries]
      /\ q.valid => q.values = q.raw
  <2>1. raw \in RawQueries
    BY <1>2 DEF RawQueries
  <2>2. ctxs[x].query \in [valid : BOOLEAN, raw : RawQueries, values : RawQueries]
    BY <1>2 DEF CtxType
  <2>3. ctxs[x].query.valid => ctxs[x].query.values = ctxs[x].query.raw
    BY <1>2 DEF IInv, QueryCached
  <2>4. QED
    BY <2>1, <2>2, <2>3 DEF Ctx
<1> HIDE DEF q
<1>6. /\ ctxs' \in [Ctxs -> CtxType]
      /\ ctxs'[x].query = q
      /\ \A z \in Ctxs : z # x => ctxs'[z] = ctxs[z]
      /\ \A z \in Ctxs : /\ ctxs'[z].status = ctxs[z].status /\ ctxs'[z].err = ctxs[z].err
                         /\ ctxs'[z].data = ctxs[z].data /\ ctxs'[z].valid = ctxs[z].valid
                         /\ ctxs'[z].store = ctxs[z].store
  <2>1. /\ [ctxs[x] EXCEPT !.query = q] \in CtxType
        /\ [ctxs[x] EXCEPT !.query = q].query = q
        /\ [ctxs[x] EXCEPT !.query = q].status = ctxs[x].status
        /\ [ctxs[x] EXCEPT !.query = q].err = ctxs[x].err
        /\ [ctxs[x] EXCEPT !.query = q].data = ctxs[x].data
        /\ [ctxs[x] EXCEPT !.query = q].valid = ctxs[x].valid
        /\ [ctxs[x] EXCEPT !.query = q].store = ctxs[x].store
    BY <1>2, <1>5 DEF CtxType
  <2>2. QED
    BY <1>1, <1>2, <1>4, <2>1 DEF Types
<1>7. Types'
  BY <1>1, <1>3, <1>6 DEF Types
<1>8. Alone' /\ \A u \in Workers : Holding(u)'
  BY <1>1, <1>3, <1>6 DEF Alone, Holding, Handling, Req
<1>9. Fresh'
  <2>1. FreeCtxs' = FreeCtxs /\ \A z \in FreeCtxs : z \in Ctxs /\ z # x
    BY <1>3 DEF FreeCtxs
  <2>2. FreeStores' = FreeStores
    <3>1. {ctxs'[z].store : z \in Ctxs} = {ctxs[z].store : z \in Ctxs}
      BY <1>6
    <3>2. QED
      BY <3>1 DEF FreeStores
  <2>3. FreeRecs' = FreeRecs
    BY <1>3 DEF FreeRecs
  <2>4. QED
    BY <1>3, <1>6, <2>1, <2>2, <2>3 DEF IInv, Fresh
<1>10. \A u \in Workers : /\ Handling(u)' = Handling(u)
                         /\ Handling(u) => /\ Gathered(u)' = Gathered(u)
                                          /\ Ctx(u)'.valid = Ctx(u).valid
                                          /\ Ctx(u)'.store = Ctx(u).store
  <2>1. \A u \in Workers : Handling(u) => held[u].ctx \in Ctxs
    BY <1>1 DEF Holding, Handling, Types, HeldType
  <2>2. QED
    BY <1>3, <1>6, <2>1 DEF Handling, Gathered, Req, Rec, Ctx
<1>11. ParamsFound' /\ RepliesOK'
  BY <1>3, <1>10 DEF IInv, ParamsFound, RepliesOK, Handling
<1>12. QueryCached'
  BY <1>5, <1>6 DEF IInv, QueryCached
<1>13. BodiesKept'
  BY <1>3 DEF IInv, BodiesKept, Req
<1>14. QED
  BY <1>7, <1>8, <1>9, <1>11, <1>12, <1>13 DEF IInv, Ownership

LEMMA ClearedShape ==
  ASSUME NEW c \in CtxType
  PROVE  /\ Cleared(c) \in CtxType
         /\ Cleared(c).status = OK /\ Cleared(c).err = None
         /\ Cleared(c).data = None /\ ~Cleared(c).valid
         /\ Cleared(c).store = None /\ ~Cleared(c).query.valid
<1> DEFINE query == [c.query EXCEPT !.valid = FALSE, !.values = None]
<1>1. c.query \in [valid : BOOLEAN, raw : RawQueries, values : RawQueries]
  BY DEF CtxType
<1>2. query \in [valid : BOOLEAN, raw : RawQueries, values : RawQueries] /\ ~query.valid
  BY <1>1 DEF RawQueries
<1>3. Cleared(c) = [c EXCEPT !.status = OK, !.err = None, !.data = None,
                             !.valid = FALSE, !.store = None, !.query = query]
  BY DEF Cleared, CtxType
<1> HIDE DEF query
<1>4. Cleared(c) = [status |-> OK, err |-> None, data |-> None, valid |-> FALSE,
                    store |-> None, query |-> query]
  BY <1>3 DEF CtxType
<1>5. QED
  BY <1>2, <1>4 DEF CtxType, OK

LEMMA ResetShape ==
  ASSUME NEW z \in StoreType
  PROVE  Reset(z) \in StoreType /\ Reset(z).count = 0 /\ Reset(z).dynamic = <<>>
<1> DEFINE empty == <<>>
<1>1. Reset(z) = [z EXCEPT !.count = 0, !.dynamic = empty]
  BY DEF Reset
<1> HIDE DEF empty
<1>2. Reset(z) = [count |-> 0, fixed |-> z.fixed, dynamic |-> empty]
  BY <1>1 DEF StoreType
<1>3. z.fixed \in [1..Fixed -> Slots \cup {None}] /\ <<>> \in Seq(Slots)
  BY DEF StoreType
<1>4. QED
  BY <1>2, <1>3 DEF StoreType, empty

\* What Release leaves to the others.
LEMMA OthersKeepTheirs ==
  ASSUME Ownership, NEW w \in Workers, Release(w)
  PROVE  /\ held'[w] = Nothing /\ pc'[w] = "idle" /\ serving'[w] = None /\ word'[w] = "none"
         /\ \A u \in Workers : u # w =>
              /\ held'[u] = held[u] /\ pc'[u] = pc[u] /\ serving'[u] = serving[u]
              /\ word'[u] = word[u] /\ response'[u] = response[u] /\ spoilt'[u] = spoilt[u]
              /\ Handling(u)' = Handling(u)
              /\ pc[u] # "idle" => Req(u)' = Req(u)
              /\ Handling(u) => /\ Ctx(u)' = Ctx(u) /\ Gathered(u)' = Gathered(u)
                                /\ Ctx(u).store # None =>
                                     stores'[Ctx(u).store] = stores[Ctx(u).store]
<1> DEFINE q == held[w].req
           y == held[w].rec
           x == held[w].ctx
           s == ctxs[x].store
<1>1. Types /\ Alone /\ (\A u \in Workers : Holding(u)) /\ pc[w] = "answered" /\ Handling(w)
  BY DEF Ownership, Release, Handling
<1>2. q \in Reqs /\ y \in Recs /\ x \in Ctxs /\ ctxs[x] \in CtxType /\ s \in Stores \cup {None}
  BY <1>1 DEF Holding, Types, HeldType, CtxType
<1>3. /\ reqs' = [reqs EXCEPT ![q] = NewRequest]
      /\ recs' = [recs EXCEPT ![y] = NewRecorder]
      /\ ctxs' = [ctxs EXCEPT ![x] = Cleared(ctxs[x])]
      /\ stores' = IF s = None THEN stores ELSE [stores EXCEPT ![s] = Reset(stores[s])]
      /\ held' = [held EXCEPT ![w] = Nothing]
      /\ serving' = [serving EXCEPT ![w] = None]
      /\ word' = [word EXCEPT ![w] = "none"]
      /\ response' = [response EXCEPT ![w] = None]
      /\ spoilt' = [spoilt EXCEPT ![w] = FALSE]
      /\ pc' = [pc EXCEPT ![w] = "idle"]
      /\ bufs' = bufs
  BY <1>1, <1>2 DEF Release, Goto, Ctx, Types
<1>4. /\ held'[w] = Nothing /\ pc'[w] = "idle"
      /\ \A u \in Workers : u # w =>
           /\ held'[u] = held[u] /\ pc'[u] = pc[u] /\ serving'[u] = serving[u]
           /\ word'[u] = word[u] /\ response'[u] = response[u] /\ spoilt'[u] = spoilt[u]
      /\ serving'[w] = None /\ word'[w] = "none"
  BY <1>1, <1>3 DEF Types
<1>5. /\ \A z \in Reqs : z # q => reqs'[z] = reqs[z]
      /\ recs'[y] = NewRecorder /\ \A z \in Recs : z # y => recs'[z] = recs[z]
      /\ ctxs'[x] = Cleared(ctxs[x]) /\ \A z \in Ctxs : z # x => ctxs'[z] = ctxs[z]
      /\ \A z \in Stores : z # s => stores'[z] = stores[z]
      /\ s # None => stores'[s] = Reset(stores[s])
  BY <1>1, <1>2, <1>3 DEF Types
<1>6. ASSUME NEW u \in Workers, u # w
      PROVE  /\ Handling(u)' = Handling(u)
             /\ pc[u] # "idle" => Req(u)' = Req(u)
             /\ Handling(u) => /\ Ctx(u)' = Ctx(u) /\ Gathered(u)' = Gathered(u)
                               /\ Ctx(u).store # None =>
                                    stores'[Ctx(u).store] = stores[Ctx(u).store]
  <2>1. /\ held[u].req = q => held[u].req = None
        /\ held[u].rec = y => held[u].rec = None
        /\ held[u].ctx = x => held[u].ctx = None
    BY <1>1, <1>6 DEF Alone
  <2>2. pc[u] # "idle" => held[u].req \in Reqs /\ held[u].req # q
    BY <1>1, <2>1 DEF Holding, Types, HeldType
  <2>3. Handling(u) => /\ held[u].rec \in Recs /\ held[u].rec # y
                       /\ held[u].ctx \in Ctxs /\ held[u].ctx # x
    BY <1>1, <2>1 DEF Holding, Types, HeldType
  <2>4. Handling(u)' = Handling(u)
    BY <1>4, <1>6 DEF Handling
  <2>5. pc[u] # "idle" => Req(u)' = Req(u)
    BY <1>4, <1>5, <1>6, <2>2 DEF Req
  <2>6. ASSUME Handling(u)
        PROVE  Ctx(u)' = Ctx(u) /\ Gathered(u)' = Gathered(u)
    <3>1. Ctx(u)' = Ctx(u) /\ Rec(u)' = Rec(u)
      BY <1>4, <1>5, <1>6, <2>3, <2>6 DEF Ctx, Rec
    <3>2. Req(u)' = Req(u) /\ word'[u] = word[u]
      BY <1>4, <1>6, <2>5, <2>6 DEF Handling
    <3>3. QED
      BY <3>1, <3>2 DEF Gathered
  <2>7. ASSUME Handling(u), Ctx(u).store # None
        PROVE  stores'[Ctx(u).store] = stores[Ctx(u).store]
    <3>1. Ctx(u).store # s
      BY <1>1, <1>2, <1>6, <2>3, <2>7 DEF Alone, Ctx
    <3>2. Ctx(u).store \in Stores
      BY <1>1, <2>3, <2>7 DEF Types, CtxType, Ctx
    <3>3. QED
      BY <1>5, <3>1, <3>2
  <2>8. QED
    BY <2>4, <2>5, <2>6, <2>7
<1>7. QED
  BY <1>4, <1>6

\* Every object goes back as new, but for the slots of a store and the raw query of a Ctx.
LEMMA ReleaseKeeps ==
  ASSUME IInv, NEW w \in Workers, Release(w)
  PROVE  IInv'
<1> DEFINE q == held[w].req
           y == held[w].rec
           x == held[w].ctx
           s == ctxs[x].store
<1>1. /\ Ownership /\ Types /\ Alone /\ (\A u \in Workers : Holding(u))
      /\ pc[w] = "answered" /\ Handling(w)
  BY DEF IInv, Ownership, Release, Handling
<1>2. q \in Reqs /\ y \in Recs /\ x \in Ctxs /\ ctxs[x] \in CtxType /\ s \in Stores \cup {None}
  BY <1>1 DEF Holding, Types, HeldType, CtxType
<1>3. /\ reqs' = [reqs EXCEPT ![q] = NewRequest]
      /\ recs' = [recs EXCEPT ![y] = NewRecorder]
      /\ ctxs' = [ctxs EXCEPT ![x] = Cleared(ctxs[x])]
      /\ stores' = IF s = None THEN stores ELSE [stores EXCEPT ![s] = Reset(stores[s])]
      /\ held' = [held EXCEPT ![w] = Nothing]
      /\ serving' = [serving EXCEPT ![w] = None]
      /\ word' = [word EXCEPT ![w] = "none"]
      /\ response' = [response EXCEPT ![w] = None]
      /\ spoilt' = [spoilt EXCEPT ![w] = FALSE]
      /\ pc' = [pc EXCEPT ![w] = "idle"]
      /\ bufs' = bufs
  BY <1>1, <1>2 DEF Release, Goto, Ctx, Types
<1>4. /\ Cleared(ctxs[x]) \in CtxType
      /\ Cleared(ctxs[x]).status = OK /\ Cleared(ctxs[x]).err = None
      /\ Cleared(ctxs[x]).data = None /\ ~Cleared(ctxs[x]).valid
      /\ Cleared(ctxs[x]).store = None /\ ~Cleared(ctxs[x]).query.valid
  BY <1>2, ClearedShape
<1>5. ASSUME s # None
      PROVE  /\ Reset(stores[s]) \in StoreType
             /\ Reset(stores[s]).count = 0 /\ Reset(stores[s]).dynamic = <<>>
  <2>1. stores[s] \in StoreType
    BY <1>1, <1>2, <1>5 DEF Types
  <2>2. QED
    BY <2>1, ResetShape
<1>6. /\ held'[w] = Nothing /\ pc'[w] = "idle"
      /\ \A u \in Workers : u # w =>
           /\ held'[u] = held[u] /\ pc'[u] = pc[u] /\ serving'[u] = serving[u]
           /\ word'[u] = word[u] /\ response'[u] = response[u] /\ spoilt'[u] = spoilt[u]
      /\ serving'[w] = None /\ word'[w] = "none"
  BY <1>1, OthersKeepTheirs
<1>7. /\ \A z \in Reqs : z # q => reqs'[z] = reqs[z]
      /\ recs'[y] = NewRecorder /\ \A z \in Recs : z # y => recs'[z] = recs[z]
      /\ ctxs'[x] = Cleared(ctxs[x]) /\ \A z \in Ctxs : z # x => ctxs'[z] = ctxs[z]
      /\ \A z \in Stores : z # s => stores'[z] = stores[z]
      /\ s # None => stores'[s] = Reset(stores[s])
  BY <1>1, <1>2, <1>3 DEF Types
<1>8. Types'
  <2>1. NewRequest \in RequestType /\ Nothing \in HeldType
        /\ NewRecorder \in [header : Headers, body : Seq(Written)]
    BY DEF NewRequest, RequestType, NoHeaders, Nothing, HeldType, NewRecorder, Headers
  <2>2. stores' \in [Stores -> StoreType]
    BY <1>1, <1>2, <1>3, <1>5 DEF Types
  <2>3. QED
    BY <1>1, <1>3, <1>4, <2>1, <2>2 DEF Types
<1>9. \A u \in Workers : u # w =>
        /\ Handling(u)' = Handling(u)
        /\ pc[u] # "idle" => Req(u)' = Req(u)
        /\ Handling(u) => /\ Ctx(u)' = Ctx(u) /\ Gathered(u)' = Gathered(u)
                          /\ Ctx(u).store # None =>
                               stores'[Ctx(u).store] = stores[Ctx(u).store]
  BY <1>1, OthersKeepTheirs
<1>10. \A u \in Workers : Holding(u)'
  <2>1. Holding(w)'
    BY <1>6 DEF Holding, Handling, Nothing
  <2>2. ASSUME NEW u \in Workers, u # w
        PROVE  Holding(u)'
    BY <1>1, <1>6, <1>9, <2>2 DEF Holding
  <2>3. QED
    BY <2>1, <2>2
<1>11. Alone'
  <2>1. \A u \in Workers : u # w => held'[u] = held[u]
    BY <1>6
  <2>2. held'[w].req = None /\ held'[w].rec = None /\ held'[w].ctx = None
    BY <1>6 DEF Nothing
  <2>3. ctxs'[x].store = None /\ \A z \in Ctxs : z # x => ctxs'[z] = ctxs[z]
    BY <1>4, <1>7
  <2>4. QED
    BY <1>1, <2>1, <2>2, <2>3 DEF Alone
<1>12. Fresh'
  <2>1. ASSUME NEW z \in FreeRecs'
        PROVE  recs'[z] = NewRecorder
    <3>1. z = y \/ z \in FreeRecs
      BY <1>6, <2>1 DEF FreeRecs
    <3>2. QED
      BY <1>7, <2>1, <3>1 DEF IInv, Fresh, FreeRecs
  <2>2. ASSUME NEW z \in FreeCtxs'
        PROVE  /\ ctxs'[z].status = OK /\ ctxs'[z].err = None /\ ctxs'[z].data = None
               /\ ~ctxs'[z].valid /\ ctxs'[z].store = None /\ ~ctxs'[z].query.valid
    <3>1. z \in Ctxs /\ (z = x \/ z \in FreeCtxs)
      BY <1>6, <2>2 DEF FreeCtxs
    <3>2. QED
      BY <1>4, <1>7, <3>1 DEF IInv, Fresh
  <2>3. ASSUME NEW z \in FreeStores'
        PROVE  stores'[z].count = 0 /\ stores'[z].dynamic = <<>>
    <3>1. z \in Stores /\ z # None /\ (z = s \/ z \in FreeStores)
      BY <1>2, <1>7, <2>3, NoneIsNoObject DEF FreeStores
    <3>2. QED
      BY <1>5, <1>7, <3>1 DEF IInv, Fresh
  <2>4. QED
    BY <2>1, <2>2, <2>3 DEF Fresh
<1>13. ~Handling(w)'
  BY <1>6 DEF Handling
<1>14. ParamsFound'
  BY <1>6, <1>9, <1>13 DEF IInv, ParamsFound
<1>15. QueryCached'
  BY <1>4, <1>7 DEF IInv, QueryCached
<1>16. RepliesOK'
  BY <1>6, <1>9, <1>13 DEF IInv, RepliesOK, Handling
<1>17. BodiesKept'
  BY <1>3, <1>6, <1>9 DEF IInv, BodiesKept
<1>18. QED
  BY <1>8, <1>10, <1>11, <1>12, <1>14, <1>15, <1>16, <1>17 DEF IInv, Ownership

\* Requests are served in objects that nobody else holds, made fresh for them, by
\* every step of Arrive, Begin, Handle and Release: what the theorems below rest on.
THEOREM InductiveInvariant == Spec => []IInv
<1>1. IInv /\ [Next]_vars => IInv'
  <2> SUFFICES ASSUME IInv, [Next]_vars
               PROVE  IInv'
    OBVIOUS
  <2>1. ASSUME NEW w \in Workers, NEW t \in Requests, NEW x \in FreeReqs, NEW b \in Bufs,
               Arrive(w, t, x, b)
        PROVE  IInv'
    BY <2>1, ArriveKeeps
  <2>2. ASSUME NEW w \in Workers, NEW y \in FreeRecs, NEW x \in FreeCtxs, Begin(w, y, x)
        PROVE  IInv'
    BY <2>2, BeginKeeps
  <2>3. ASSUME NEW w \in Workers, Handle(w)
        PROVE  IInv'
    <3>1. CASE Read(w)
      BY <3>1, ReadKeeps DEF Read
    <3>2. QED
      BY <2>3, <3>1, CallKeeps, AnswerKeeps, ReadQueryKeeps DEF Handle
  <2>4. ASSUME NEW w \in Workers, Release(w)
        PROVE  IInv'
    BY <2>4, ReleaseKeeps
  <2>5. CASE UNCHANGED vars
    BY <2>5, ReadKeeps DEF vars, handler
  <2>6. QED
    BY <2>1, <2>2, <2>3, <2>4, <2>5 DEF Next
<1>2. QED
  BY <1>1, InitHolds, PTL DEF Spec

-----------------------------------------------------------------------------
(* What follows.                                                           *)

\* A handler finds the body of its request, unless another one has been read into
\* its buffer meanwhile.
THEOREM BodySafe == Spec => []BodyUnlessShared
<1>1. IInv => BodyUnlessShared
  BY NoneIsNoObject DEF IInv, BodiesKept, BodyUnlessShared, Handling
<1>2. QED
  BY <1>1, InductiveInvariant, PTL

\* No header that a client has sent reaches a handler or an answer.
THEOREM ClientHeadersLost == Spec => []HeadersLost
<1>1. IInv => HeadersLost
  <2> SUFFICES ASSUME IInv, NEW w \in Workers, Handling(w), NEW n \in Names
               PROVE  /\ Req(w).header[n] = None \/ Req(w).header[n].by # "client"
                      /\ Rec(w).header[n] = None \/ Rec(w).header[n].by # "client"
    BY DEF HeadersLost
  <2>1. Gathered(w) \in Replies
    BY DEF IInv, RepliesOK
  <2>2. Req(w).header \in Headers /\ Rec(w).header \in Headers
    BY <2>1 DEF Replies, Gathered
  <2>3. QED
    BY <2>2 DEF Headers, Written, Writers
<1>2. QED
  BY <1>1, InductiveInvariant, PTL

\* A reply whose last word was Error is answered as an error.
THEOREM ErrorsAreShown == Spec => []ErrorsShow
<1>1. IInv => ErrorsShow
  <2> SUFFICES ASSUME IInv, NEW w \in Workers, pc[w] = "answered", word[w] = "error"
               PROVE  IF serving[w] \in HeadRequests
                      THEN response[w].status # InternalServerError
                      ELSE /\ response[w].status >= 400
                           /\ response[w].body # <<>>
                           /\ response[w].body[Len(response[w].body)].by = "errorHandler"
                           /\ response[w].headers["Content-Type"] # None
    BY DEF ErrorsShow, Abstract!ErrorsShow, Handling, Gathered, InternalServerError,
           Abstract!InternalServerError
  <2>1. ErrorShown(Gathered(w), serving[w] \in HeadRequests, response[w])
    BY DEF IInv, RepliesOK
  <2>2. QED
    BY <2>1 DEF ErrorShown, Gathered
<1>2. QED
  BY <1>1, InductiveInvariant, PTL

-----------------------------------------------------------------------------
(* The refinement.                                                         *)

\* What the abstract specification sees of a state.
PcSeen == [w \in Workers |-> IF Handling(w) THEN pc[w] ELSE "idle"]
FromSeen == [w \in Workers |-> IF Handling(w) THEN serving[w] ELSE None]
ReplySeen == [w \in Workers |-> IF Handling(w) THEN Gathered(w) ELSE NewReply]

LEMMA SameReplies ==
  /\ Abstract!NewReply = NewReply
  /\ \A r, t, n, by : Abstract!Set(r, t, n, by) = Set(r, t, n, by)
  /\ \A r, t : Abstract!Called(r, t) = Called(r, t)
  /\ \A r, t, head : Abstract!Answered(r, t, head) = Answered(r, t, head)
  /\ \A r, head : Abstract!Response(r, head) = Response(r, head)
<1> USE DEF Abstract!OK, OK, Abstract!NotFound, NotFound, Abstract!InternalServerError,
            InternalServerError, Abstract!Put, Put, Abstract!Set, Set
<1>1. Abstract!NewReply = NewReply
  BY DEF Abstract!NewReply, NewReply
<1>2. \A r, t, n, by : Abstract!Set(r, t, n, by) = Set(r, t, n, by)
  OBVIOUS
<1>3. \A r, t, by : Abstract!Typed(r, t, by) = Typed(r, t, by)
  BY DEF Abstract!Typed, Typed, Abstract!Write, Write
<1>4. \A r, t : Abstract!Called(r, t) = Called(r, t)
  BY DEF Abstract!Called, Called, Abstract!WriterSet, WriterSet, Abstract!Status, Status,
         Abstract!Error, Error, Abstract!Write, Write, Abstract!Typed, Typed,
         Abstract!JSONFails, JSONFails, Abstract!UserData, UserData
<1>5. \A r, t, head : Abstract!Answered(r, t, head) = Answered(r, t, head)
  BY DEF Abstract!Answered, Answered, Abstract!HandleError, HandleError,
         Abstract!Typed, Typed, Abstract!Write, Write
<1>6. \A r, head : Abstract!Response(r, head) = Response(r, head)
  BY DEF Abstract!Response, Response, Abstract!Merged, Merged
<1>7. QED
  BY <1>1, <1>2, <1>4, <1>5, <1>6

LEMMA AbstractInit == Init => Abstract!Init
BY SameReplies DEF Init, Abstract!Init, Handling

LEMMA AbstractArrive ==
  ASSUME IInv, NEW w \in Workers, NEW t \in Requests, NEW x \in FreeReqs, NEW b \in Bufs,
         Arrive(w, t, x, b)
  PROVE  UNCHANGED Abstract!vars
<1>1. Ownership /\ Types /\ (\A u \in Workers : Holding(u)) /\ Taken(w, t, x, b)
  BY ArriveTakes DEF IInv, Ownership
<1>2. UNCHANGED <<recs, ctxs, stores, word, seen, calls, response>>
  BY DEF Arrive, handler
<1>3. ~Handling(w) /\ ~Handling(w)'
  BY <1>1 DEF Taken, Handling
<1>4. ASSUME NEW u \in Workers, u # w
      PROVE  /\ Handling(u)' = Handling(u) /\ pc'[u] = pc[u] /\ serving'[u] = serving[u]
             /\ Handling(u) => Gathered(u)' = Gathered(u)
  <2>1. /\ held'[u] = held[u] /\ held[u].req # x
        /\ pc'[u] = pc[u] /\ serving'[u] = serving[u]
    BY <1>1, <1>4 DEF Taken
  <2>2. Handling(u) => held[u].req \in Reqs
    BY <1>1 DEF Holding, Handling, Types, HeldType
  <2>3. Handling(u) => Req(u)' = Req(u)
    BY <1>1, <2>1, <2>2 DEF Taken, Req
  <2>4. QED
    BY <1>2, <2>1, <2>3 DEF Handling, Gathered, Rec, Ctx
<1>5. PcSeen' = PcSeen /\ FromSeen' = FromSeen /\ ReplySeen' = ReplySeen
  BY <1>3, <1>4 DEF PcSeen, FromSeen, ReplySeen, NewReply
<1>6. QED
  BY <1>2, <1>5 DEF Abstract!vars, PcSeen, FromSeen, ReplySeen

LEMMA AbstractBegin ==
  ASSUME IInv, NEW w \in Workers, NEW y \in FreeRecs, NEW x \in FreeCtxs, Begin(w, y, x),
         NEW t \in Requests, t = serving[w]
  PROVE  Abstract!Begin(w, t)
<1>1. Ownership /\ Types /\ Fresh
  BY DEF IInv, Ownership
<1>2. PICK s : Begun(w, y, x, s)
  BY <1>1, BeginBegins
<1>3. UNCHANGED <<bufs, serving, handler, spoilt>> /\ UNCHANGED <<seen, calls, response>>
  BY DEF Begin, handler
<1>4. /\ Handling(w)' /\ ~Handling(w)
      /\ Gathered(w)' = FirstReply(serving[w])
      /\ \A u \in Workers : u # w =>
           /\ Handling(u)' = Handling(u)
           /\ Handling(u) => Gathered(u)' = Gathered(u)
  BY <1>1, <1>2, <1>3, BegunReplies
<1>5. pc'[w] = "handle" /\ \A u \in Workers : u # w => pc'[u] = pc[u]
  BY <1>1, <1>2 DEF Begun, Types
<1>6. FirstReply(serving[w]) = Abstract!Set(Abstract!NewReply, serving[w], "Server", "server")
  BY SameReplies DEF FirstReply, Set
<1>7. /\ PcSeen' = [PcSeen EXCEPT ![w] = "handle"]
      /\ FromSeen' = [FromSeen EXCEPT ![w] = serving[w]]
      /\ ReplySeen' = [ReplySeen EXCEPT ![w] = FirstReply(serving[w])]
  BY <1>3, <1>4, <1>5 DEF PcSeen, FromSeen, ReplySeen, NewReply
<1>8. PcSeen[w] = "idle"
  BY <1>4 DEF PcSeen
<1>9. QED
  BY <1>3, <1>6, <1>7, <1>8 DEF Abstract!Begin, Abstract!Goto, PcSeen, FromSeen, ReplySeen

\* What the abstract specification sees of a step of the handler of w.
LEMMA HandlerSeen ==
  ASSUME IInv, NEW w \in Workers, Handling(w), NEW r \in Replies, Scatter(w, r),
         UNCHANGED <<held, serving>>, NEW label \in {"handle", "answered"},
         pc' = [pc EXCEPT ![w] = label]
  PROVE  /\ PcSeen' = [PcSeen EXCEPT ![w] = label]
         /\ FromSeen' = FromSeen
         /\ ReplySeen' = [ReplySeen EXCEPT ![w] = r]
         /\ PcSeen[w] = pc[w] /\ FromSeen[w] = serving[w] /\ ReplySeen[w] = Gathered(w)
<1>1. Ownership /\ Types
  BY DEF IInv, Ownership
<1>2. /\ Gathered(w)' = r
      /\ \A u \in Workers : u # w => (Handling(u) => Gathered(u)' = Gathered(u))
  BY <1>1, Scattered
<1>3. /\ pc'[w] = label /\ Handling(w)'
      /\ \A u \in Workers : u # w => pc'[u] = pc[u] /\ Handling(u)' = Handling(u)
  BY <1>1 DEF Types, Handling
<1>4. QED
  BY <1>2, <1>3 DEF PcSeen, FromSeen, ReplySeen, NewReply

LEMMA AbstractCall ==
  ASSUME IInv, NEW w \in Workers, Call(w)
  PROVE  Abstract!Call(w)
<1>1. pc[w] = "handle" /\ Handling(w) /\ Types /\ Holding(w)
  BY DEF Call, Counted, Handling, IInv, Ownership
<1>2. ReplyOK(Gathered(w)) /\ serving[w] \in Requests
  BY <1>1 DEF IInv, RepliesOK, Holding
<1>3. PICK r \in Called(Gathered(w), serving[w]) : Scatter(w, r)
  BY DEF Call
<1>4. r \in Replies
  BY <1>2, <1>3, CalledKeeps DEF ReplyOK
<1>5. pc' = [pc EXCEPT ![w] = "handle"]
  BY <1>1 DEF Call, Types
<1>6. UNCHANGED <<held, serving>> /\ response' = response /\ seen' = [seen EXCEPT ![w] = None]
  BY DEF Call
<1>7. /\ PcSeen' = [PcSeen EXCEPT ![w] = "handle"]
      /\ FromSeen' = FromSeen
      /\ ReplySeen' = [ReplySeen EXCEPT ![w] = r]
      /\ PcSeen[w] = pc[w] /\ FromSeen[w] = serving[w] /\ ReplySeen[w] = Gathered(w)
  BY <1>1, <1>3, <1>4, <1>5, <1>6, HandlerSeen
<1>8. PcSeen' = PcSeen
  BY <1>1, <1>7 DEF PcSeen
<1>9. r \in Abstract!Called(ReplySeen[w], FromSeen[w])
  BY <1>3, <1>7, SameReplies
<1>10. Abstract!Counted(w)
  BY <1>1, <1>7 DEF Call, Counted, Abstract!Counted, PcSeen, FromSeen
<1>11. QED
  BY <1>6, <1>7, <1>8, <1>9, <1>10 DEF Abstract!Call, PcSeen, FromSeen, ReplySeen

LEMMA AbstractAnswer ==
  ASSUME IInv, NEW w \in Workers, Answer(w)
  PROVE  Abstract!Answer(w)
<1> DEFINE head == serving[w] \in HeadRequests
           r == Answered(Gathered(w), serving[w], head)
<1>1. pc[w] = "handle" /\ Handling(w) /\ Types /\ Holding(w)
  BY DEF Answer, Handling, IInv, Ownership
<1>2. ReplyOK(Gathered(w)) /\ serving[w] \in Requests /\ Req(w).url = serving[w]
  BY <1>1 DEF IInv, RepliesOK, Holding
<1>3. /\ Scatter(w, r) /\ response' = [response EXCEPT ![w] = Response(r, head)]
      /\ pc' = [pc EXCEPT ![w] = "answered"]
      /\ UNCHANGED <<held, serving>> /\ UNCHANGED <<seen, calls>>
  BY <1>2 DEF Answer, Goto
<1>4. r \in Replies
  <2>1. head \in BOOLEAN
    OBVIOUS
  <2> HIDE DEF head
  <2>2. QED
    BY <1>2, <2>1, AnsweredShows
<1>5. r = Abstract!Answered(Gathered(w), serving[w], head)
      /\ Response(r, head) = Abstract!Response(r, head)
  BY SameReplies
<1> HIDE DEF r
<1>6. /\ PcSeen' = [PcSeen EXCEPT ![w] = "answered"]
      /\ FromSeen' = FromSeen
      /\ ReplySeen' = [ReplySeen EXCEPT ![w] = r]
      /\ PcSeen[w] = pc[w] /\ FromSeen[w] = serving[w] /\ ReplySeen[w] = Gathered(w)
  BY <1>1, <1>3, <1>4, HandlerSeen
<1>7. QED
  BY <1>1, <1>3, <1>5, <1>6 DEF Abstract!Answer, Abstract!Goto, PcSeen, FromSeen, ReplySeen

\* A handler reads its own parameters.
LEMMA ParamRead ==
  ASSUME IInv, NEW w \in Workers, Handling(w), NEW n \in ParamNames
  PROVE  (IF Ctx(w).valid THEN Found(stores[Ctx(w).store], n) ELSE None)
           = Abstract!ParamOf(serving[w], n)
<1>1. CASE Params[serving[w]] = <<>>
  <2>1. ~Ctx(w).valid
    BY <1>1 DEF IInv, ParamsFound
  <2>2. Abstract!ParamOf(serving[w], n) = None
    BY <1>1 DEF Abstract!ParamOf
  <2>3. QED
    BY <2>1, <2>2
<1>2. CASE Params[serving[w]] # <<>>
  BY <1>2 DEF IInv, ParamsFound, Stored
<1>3. QED
  BY <1>1, <1>2

LEMMA AbstractRead ==
  ASSUME IInv, NEW w \in Workers, Read(w) \/ ReadQuery(w)
  PROVE  Abstract!Read(w)
<1>1. Ownership /\ Types /\ Holding(w) /\ pc[w] = "handle" /\ Handling(w)
  BY DEF IInv, Ownership, Read, ReadQuery, Counted, Handling
<1>2. /\ UNCHANGED <<reqs, recs, pc, held, serving, word, response>>
      /\ \A u \in Workers : Handling(u) =>
           /\ Ctx(u)'.status = Ctx(u).status /\ Ctx(u)'.err = Ctx(u).err
           /\ Ctx(u)'.data = Ctx(u).data
  <2>1. CASE Read(w)
    BY <2>1 DEF Read, objects, Ctx
  <2>2. CASE ReadQuery(w)
    <3>1. PICK q : ctxs' = [ctxs EXCEPT ![held[w].ctx].query = q]
      BY <2>2 DEF ReadQuery
    <3>2. \A z \in Ctxs : /\ ctxs'[z].status = ctxs[z].status
                         /\ ctxs'[z].err = ctxs[z].err /\ ctxs'[z].data = ctxs[z].data
      BY <1>1, <3>1 DEF Types, CtxType
    <3>3. \A u \in Workers : Handling(u) => held[u].ctx \in Ctxs
      BY <1>1 DEF Ownership, Holding, Handling, Types, HeldType
    <3>4. held' = held
      BY <2>2 DEF ReadQuery
    <3>5. QED
      BY <2>2, <3>2, <3>3, <3>4 DEF ReadQuery, Ctx
  <2>3. QED
    BY <2>1, <2>2
<1>3. PcSeen' = PcSeen /\ FromSeen' = FromSeen /\ ReplySeen' = ReplySeen
  <2>1. \A u \in Workers : Handling(u)' = Handling(u)
    BY <1>2 DEF Handling
  <2>2. \A u \in Workers : Handling(u) => Gathered(u)' = Gathered(u)
    BY <1>2 DEF Gathered, Req, Rec
  <2>3. QED
    BY <1>2, <2>1, <2>2 DEF PcSeen, FromSeen, ReplySeen, NewReply
<1>4. PcSeen[w] = "handle" /\ FromSeen[w] = serving[w] /\ ReplySeen[w] = Gathered(w)
  BY <1>1 DEF PcSeen, FromSeen, ReplySeen
<1>5. Abstract!Counted(w)
  BY <1>4 DEF Read, ReadQuery, Counted, Abstract!Counted, PcSeen, FromSeen
<1> DEFINE Seen == {<<"Param", n, Abstract!ParamOf(serving[w], n)>> : n \in ParamNames}
                     \cup {<<"Get", n, Req(w).header[n]>> : n \in Names}
                     \cup {<<"UserData", None, Ctx(w).data>>, <<"Query", None, Query[serving[w]]>>}
<1>6. \E v \in Seen : seen' = [seen EXCEPT ![w] = v]
  <2>1. CASE Read(w)
    <3> DEFINE param(n) == IF Ctx(w).valid THEN Found(stores[Ctx(w).store], n) ELSE None
    <3>1. PICK v \in {<<"Param", n, param(n)>> : n \in ParamNames}
                      \cup {<<"Get", n, Req(w).header[n]>> : n \in Names}
                      \cup {<<"UserData", None, Ctx(w).data>>} : seen' = [seen EXCEPT ![w] = v]
      BY <2>1 DEF Read
    <3>2. \A n \in ParamNames : param(n) = Abstract!ParamOf(serving[w], n)
      BY <1>1, ParamRead
    <3> HIDE DEF param
    <3>3. v \in Seen
      BY <3>2
    <3>4. QED
      BY <3>1, <3>3
  <2>2. CASE ReadQuery(w)
    <3> DEFINE raw == Query[Req(w).url]
               q == IF raw = None \/ (Ctx(w).query.valid /\ Ctx(w).query.raw = raw)
                    THEN Ctx(w).query ELSE [valid |-> TRUE, raw |-> raw, values |-> raw]
    <3>1. seen' = [seen EXCEPT ![w] = <<"Query", None, IF raw = None THEN None ELSE q.values>>]
      BY <2>2 DEF ReadQuery
    <3>2. raw = Query[serving[w]]
      BY <1>1 DEF Holding
    <3>3. raw # None => q.values = raw
      <4>1. held[w].ctx \in Ctxs
        BY <1>1 DEF Holding, Types, HeldType
      <4>2. Ctx(w).query.valid => Ctx(w).query.values = Ctx(w).query.raw
        BY <4>1 DEF IInv, QueryCached, Ctx
      <4>3. QED
        BY <4>2
    <3> HIDE DEF raw, q
    <3>4. <<"Query", None, IF raw = None THEN None ELSE q.values>>
            = <<"Query", None, Query[serving[w]]>>
      BY <3>2, <3>3
    <3>5. QED
      BY <3>1, <3>4
  <2>3. QED
    BY <2>1, <2>2
<1>7. /\ Gathered(w).shown = Req(w).header /\ Gathered(w).data = Ctx(w).data
      /\ Abstract!ParamNames = ParamNames
  BY DEF Gathered, Abstract!ParamNames, ParamNames
<1>8. response' = response
  BY <1>2
<1>9. Seen = {<<"Param", n, Abstract!ParamOf(FromSeen[w], n)>> : n \in Abstract!ParamNames}
               \cup {<<"Get", n, ReplySeen[w].shown[n]>> : n \in Names}
               \cup {<<"UserData", None, ReplySeen[w].data>>, <<"Query", None, Query[FromSeen[w]]>>}
  BY <1>4, <1>7
<1> HIDE DEF Seen
<1>10. QED
  BY <1>3, <1>5, <1>6, <1>8, <1>9 DEF Abstract!Read, PcSeen, FromSeen, ReplySeen

LEMMA AbstractEnd ==
  ASSUME IInv, NEW w \in Workers, Release(w)
  PROVE  Abstract!End(w)
<1>1. /\ Ownership /\ Types /\ Alone /\ (\A u \in Workers : Holding(u))
      /\ pc[w] = "answered" /\ Handling(w)
  BY DEF IInv, Ownership, Release, Handling
<1>2. /\ ~Handling(w)'
      /\ \A u \in Workers : u # w =>
           /\ Handling(u)' = Handling(u) /\ pc'[u] = pc[u] /\ serving'[u] = serving[u]
           /\ Handling(u) => Gathered(u)' = Gathered(u)
  <2>1. pc'[w] = "idle"
    BY <1>1, OthersKeepTheirs
  <2>2. QED
    BY <1>1, <2>1, OthersKeepTheirs DEF Handling
<1>3. /\ PcSeen' = [PcSeen EXCEPT ![w] = "idle"]
      /\ FromSeen' = [FromSeen EXCEPT ![w] = None]
      /\ ReplySeen' = [ReplySeen EXCEPT ![w] = NewReply]
  BY <1>2 DEF PcSeen, FromSeen, ReplySeen, NewReply
<1>4. PcSeen[w] = "answered"
  BY <1>1 DEF PcSeen
<1>5. /\ seen' = [seen EXCEPT ![w] = None]
      /\ calls' = [calls EXCEPT ![w] = 0]
      /\ response' = [response EXCEPT ![w] = None]
  BY DEF Release
<1>6. QED
  BY <1>3, <1>4, <1>5, SameReplies DEF Abstract!End, Abstract!Goto, PcSeen, FromSeen, ReplySeen

LEMMA AbstractStutter ==
  ASSUME UNCHANGED vars
  PROVE  UNCHANGED Abstract!vars
<1>1. \A u \in Workers : Handling(u)' = Handling(u) /\ Gathered(u)' = Gathered(u)
  BY DEF vars, objects, handler, Handling, Gathered, Req, Rec, Ctx
<1>2. PcSeen' = PcSeen /\ FromSeen' = FromSeen /\ ReplySeen' = ReplySeen
  BY <1>1 DEF vars, PcSeen, FromSeen, ReplySeen, NewReply
<1>3. QED
  BY <1>2 DEF vars, handler, Abstract!vars, PcSeen, FromSeen, ReplySeen

LEMMA AbstractStep ==
  IInv /\ [Next]_vars => [Abstract!Next]_(Abstract!vars)
<1> SUFFICES ASSUME IInv, [Next]_vars
             PROVE  [Abstract!Next]_(Abstract!vars)
  OBVIOUS
<1>1. ASSUME NEW w \in Workers, NEW t \in Requests, NEW x \in FreeReqs, NEW b \in Bufs,
             Arrive(w, t, x, b)
      PROVE  UNCHANGED Abstract!vars
  BY <1>1, AbstractArrive
<1>2. ASSUME NEW w \in Workers, NEW y \in FreeRecs, NEW x \in FreeCtxs, Begin(w, y, x)
      PROVE  Abstract!Next
  <2>1. serving[w] \in Requests
    BY <1>2 DEF IInv, Ownership, Holding, Begin
  <2>2. \A t \in Requests : t = serving[w] => Abstract!Begin(w, t)
    BY <1>2, AbstractBegin
  <2>3. PICK t \in Requests : t = serving[w]
    BY <2>1
  <2>4. Abstract!Begin(w, t)
    BY <2>2, <2>3
  <2>5. QED
    BY <2>4 DEF Abstract!Next
<1>3. ASSUME NEW w \in Workers, Handle(w)
      PROVE  Abstract!Next
  BY <1>3, AbstractCall, AbstractRead, AbstractAnswer DEF Handle, Abstract!Next
<1>4. ASSUME NEW w \in Workers, Release(w)
      PROVE  Abstract!Next
  BY <1>4, AbstractEnd DEF Abstract!Next
<1>5. CASE UNCHANGED vars
  BY <1>5, AbstractStutter
<1>6. QED
  BY <1>1, <1>2, <1>3, <1>4, <1>5 DEF Next

\* Objects from the pools are as good as new ones: whoever had them before, a handler
\* reads what is its own, and is answered what it has made of an empty reply.
THEOREM PoolsImplementExchange == Spec => ImplementsExchange
BY AbstractInit, AbstractStep, InductiveInvariant, PTL DEF Spec, ImplementsExchange, Abstract!Spec
=============================================================================
