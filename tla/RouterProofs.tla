---------------------------- MODULE RouterProofs ----------------------------
(***************************************************************************)
(* What holds of the router: of Dispatch for any goroutines, contexts,     *)
(* functions and routes, of Routing for any patterns and paths.            *)
(***************************************************************************)
EXTENDS Dispatch, Routing, FiniteSetTheorems, SequenceTheorems, TLAPS

-----------------------------------------------------------------------------
(* The inductive invariant.                                                *)

\* A context with which Next calls nothing.
Inert(x) == x.count = 0 /\ x.stack = <<>> /\ x.handler = None /\ x.index >= -1

Unused(x) == Inert(x) /\ ~x.failed

\* A goroutine has a context while it serves, which no other one has.
HasCtx ==
  /\ \A w \in Workers : pc[w] = "idle" <=> held[w] = None
  /\ \A u, w \in Workers : u # w /\ held[u] = held[w] => held[u] = None

FreeUnused == \A x \in Ctxs : x \notin InUse => Unused(ctx[x])

\* It serves with the server started, so that Use is called no more.
Started(w) == pc[w] # "idle" => open /\ route[w] \in Routes

\* Before a pass nothing has been called, and after the passes nothing runs.
Calm(w) ==
  /\ pc[w] \in {"idle", "setup", "compile"} =>
       frames[w] = <<>> /\ log[w] = <<>> /\ earlier[w] = <<>> /\ link[w] = 0
  /\ pc[w] \in {"setup", "compile"} => Unused(ctx[held[w]])
  /\ pc[w] = "compile" => Cacheable(w)
  /\ pc[w] = "done" => frames[w] = <<>>

\* A compiled pass has called the first link[w] functions of a chain with the code
\* of its own, one at a time.
InChain(w) ==
  InPass(w) =>
    /\ Inert(ctx[held[w]])
    /\ link[w] = 0 => ~ctx[held[w]].failed /\ frames[w] = <<>>
    /\ Hash(chain[w]) = Hash(Own(w))
    /\ Handlers[route[w]] # <<>>
    /\ link[w] \in 0..Len(chain[w])
    /\ log[w] = SubSeq(chain[w], 1, link[w])
    /\ earlier[w] = <<>>
    /\ Len(frames[w]) <= 1

\* What is at the place i of the functions of a route: the final handler behind the last.
At(hs, i) == hs[IF i <= Len(hs) THEN i ELSE Len(hs)]

\* A dynamic pass has called the functions of the route in order, as many as the index
\* says; Next is going to call the one after these, or the final handler again.
InDynamic(w) ==
  pc[w] = "dynamic" =>
    LET x == ctx[held[w]]
        hs == Handlers[route[w]]
    IN /\ hs # <<>>
       /\ x.index \in Nat
       /\ \A i \in Nat : NextCallee([x EXCEPT !.index = i]) = At(hs, i + 1)
       /\ Len(log[w]) = x.index + 1
       /\ \A i \in 1..Len(log[w]) : log[w][i] = At(hs, i)

\* The router has no middleware, and the chain of w is in the cache.
FirstOfChain(w) ==
  pc[w] \in {"first", "dynamic"} =>
    middlewareFuncs = <<>> /\ \E s \in compiled : Hash(s) = Hash(Own(w))

\* What has been called is the chain of the request, up to a point, and in a dynamic
\* pass perhaps the last of it again.
OfChain(w) ==
  pc[w] # "idle" =>
    /\ InPass(w) => Prefix(Hash(log[w]), Hash(Own(w)))
    /\ InOrder(Hash(log[w]), Hash(Own(w)))
    /\ Prefix(Hash(earlier[w]), Hash(Own(w)))

Placed(w) ==
  Started(w) /\ Calm(w) /\ InChain(w) /\ InDynamic(w) /\ FirstOfChain(w) /\ OfChain(w)

IInv == TypeOK /\ HasCtx /\ FreeUnused /\ \A w \in Workers : Placed(w)

-----------------------------------------------------------------------------
(* Sequences and their codes.                                              *)

Codes == {Code[f] : f \in Funcs}

LEMMA HashType ==
  ASSUME NEW s \in Seq(Funcs)
  PROVE  /\ Hash(s) \in Seq(Codes)
         /\ Len(Hash(s)) = Len(s)
         /\ \A i \in 1..Len(s) : Hash(s)[i] = Code[s[i]]
<1>1. Len(s) \in Nat /\ \A i \in 1..Len(s) : s[i] \in Funcs
  OBVIOUS
<1>2. \A i \in 1..Len(s) : Code[s[i]] \in Codes
  BY <1>1 DEF Codes
<1>3. [i \in 1..Len(s) |-> Code[s[i]]] \in Seq(Codes)
  BY <1>1, <1>2, IsASeq
<1>4. QED
  BY <1>1, <1>3 DEF Hash

LEMMA OwnType ==
  ASSUME TypeOK, NEW w \in Workers, route[w] \in Routes
  PROVE  Own(w) \in Seq(Funcs) /\ Handlers[route[w]] \in Seq(Funcs)
BY DispatchAssumption, ConcatProperties DEF TypeOK, FuncSeqs, Own

\* The codes of a part of a chain are a part of its codes.
LEMMA PartOfChain ==
  ASSUME NEW s \in Seq(Funcs), NEW t \in Seq(Funcs), Hash(s) = Hash(t),
         NEW n \in 0..Len(s)
  PROVE  Prefix(Hash(SubSeq(s, 1, n)), Hash(t))
<1> DEFINE part == SubSeq(s, 1, n)
<1>1. part \in Seq(Funcs) /\ Len(part) = n /\ \A i \in 1..n : part[i] = s[i]
  OBVIOUS
<1> HIDE DEF part
<1>2. Len(Hash(part)) = n /\ \A i \in 1..n : Hash(part)[i] = Code[s[i]]
  BY <1>1, HashType
<1>3. Len(Hash(t)) = Len(s) /\ \A i \in 1..Len(s) : Hash(t)[i] = Code[s[i]]
  BY HashType
<1>4. QED
  BY <1>2, <1>3 DEF Prefix, part

LEMMA PrefixInOrder ==
  ASSUME NEW s \in Seq(Funcs), NEW t \in Seq(Funcs), Prefix(Hash(s), Hash(t))
  PROVE  InOrder(Hash(s), Hash(t))
<1>1. /\ Len(Hash(s)) \in Nat /\ Len(Hash(t)) \in Nat /\ Len(Hash(s)) <= Len(Hash(t))
      /\ \A i \in 1..Len(Hash(s)) : Hash(s)[i] = Hash(t)[i]
  BY HashType DEF Prefix
<1>2. QED
  BY <1>1 DEF InOrder

LEMMA EmptyIsPrefix ==
  ASSUME NEW s \in Seq(Funcs)
  PROVE  Prefix(Hash(<<>>), Hash(s)) /\ InOrder(Hash(<<>>), Hash(s))
<1>1. Len(Hash(<<>>)) = 0
  BY DEF Hash
<1>2. QED
  BY <1>1, HashType DEF Prefix, InOrder

\* The codes of functions called in order are in the order of the codes.
LEMMA CodesInOrder ==
  ASSUME NEW s \in Seq(Funcs), NEW t \in Seq(Funcs), t # <<>>,
         \A i \in 1..Len(s) : s[i] = At(t, i)
  PROVE  InOrder(Hash(s), Hash(t))
<1>1. /\ Len(Hash(s)) = Len(s) /\ \A i \in 1..Len(s) : Hash(s)[i] = Code[s[i]]
      /\ Len(Hash(t)) = Len(t) /\ \A i \in 1..Len(t) : Hash(t)[i] = Code[t[i]]
  BY HashType
<1>2. ASSUME NEW i \in 1..Len(s)
      PROVE  Hash(s)[i] = Hash(t)[IF i <= Len(t) THEN i ELSE Len(t)]
  <2> DEFINE j == IF i <= Len(t) THEN i ELSE Len(t)
  <2>1. j \in 1..Len(t)
    OBVIOUS
  <2>2. s[i] = t[j]
    BY DEF At
  <2> HIDE DEF j
  <2>3. Hash(s)[i] = Hash(t)[j]
    BY <1>1, <2>1, <2>2
  <2>4. QED
    BY <2>3 DEF j
<1>3. QED
  BY <1>1, <1>2 DEF InOrder

\* A longer part by one.
LEMMA OneMore ==
  ASSUME NEW s \in Seq(Funcs), NEW n \in 0..Len(s) - 1
  PROVE  Append(SubSeq(s, 1, n), s[n + 1]) = SubSeq(s, 1, n + 1)
OBVIOUS

-----------------------------------------------------------------------------
(* Contexts.                                                               *)

\* Next calls nothing with an inert context, and leaves it inert.
LEMMA InertCallee ==
  ASSUME NEW x \in CtxType, Inert(x)
  PROVE  NextCallee([x EXCEPT !.index = @ + 1]) = None /\ Inert([x EXCEPT !.index = @ + 1])
BY DEF CtxType, Inert, NextCallee

\* What Next calls in a context set up for the dynamic pass over hs.
LEMMA DynamicCallee ==
  ASSUME NEW x \in CtxType, x.stack = <<>>,
         NEW hs \in Seq(Funcs), hs # <<>>, NEW i \in Nat
  PROVE  NextCallee([DynamicCtx(x, hs) EXCEPT !.index = i]) = At(hs, i + 1)
<1> DEFINE total == Len(hs) - 1
           y == [DynamicCtx(x, hs) EXCEPT !.index = i]
<1>1. total \in Nat /\ Fixed \in Nat /\ Len(hs) = total + 1
  BY DispatchAssumption
<1>2. CASE total <= Fixed
  <2>1. /\ y.count = total /\ y.handler = hs[total + 1] /\ y.index = i /\ y.stack = <<>>
        /\ y.fixed = [k \in 1..Fixed |-> IF k <= total THEN hs[k] ELSE x.fixed[k]]
    BY <1>2 DEF DynamicCtx, CtxType
  <2> HIDE DEF y, total
  <2>2. i < total => y.fixed[i + 1] = hs[i + 1]
    BY <1>1, <1>2, <2>1
  <2>3. NextCallee(y) = At(hs, i + 1)
    BY <1>1, <2>1, <2>2 DEF NextCallee, At
  <2>4. QED
    BY <2>3 DEF y
<1>3. CASE ~(total <= Fixed)
  <2>1. /\ y.count = 0 /\ y.handler = hs[total + 1] /\ y.index = i
        /\ y.stack = SubSeq(hs, 1, total)
    BY <1>3 DEF DynamicCtx, CtxType
  <2> HIDE DEF y
  <2>2. Len(y.stack) = total /\ \A k \in 1..total : y.stack[k] = hs[k]
    BY <1>1, <2>1
  <2> HIDE DEF total
  <2>3. i < total => y.stack[i + 1] = hs[i + 1]
    BY <1>1, <2>2
  <2>4. NextCallee(y) = At(hs, i + 1)
    BY <1>1, <2>1, <2>2, <2>3 DEF NextCallee, At
  <2>5. QED
    BY <2>4 DEF y
<1>4. QED
  BY <1>2, <1>3

LEMMA DynamicType ==
  ASSUME NEW x \in CtxType, NEW hs \in Seq(Funcs), hs # <<>>
  PROVE  DynamicCtx(x, hs) \in CtxType /\ DynamicCtx(x, hs).index = 0
<1> DEFINE total == Len(hs) - 1
           fixed == [k \in 1..Fixed |-> IF k <= total THEN hs[k] ELSE x.fixed[k]]
           part == SubSeq(hs, 1, total)
           last == hs[total + 1]
<1>1. total \in Nat /\ last \in Funcs /\ part \in FuncSeqs
  BY DEF FuncSeqs
<1>2. fixed \in [1..Fixed -> Funcs \cup {None}]
  <2>1. \A k \in 1..Fixed : k <= total => hs[k] \in Funcs
    BY DispatchAssumption
  <2>2. x.fixed \in [1..Fixed -> Funcs \cup {None}]
    BY DEF CtxType
  <2>3. QED
    BY <2>1, <2>2
<1>3. DynamicCtx(x, hs) =
        IF total <= Fixed
          THEN [x EXCEPT !.count = total, !.fixed = fixed, !.index = 0, !.handler = last]
          ELSE [x EXCEPT !.count = 0, !.stack = part, !.index = 0, !.handler = last]
  BY DEF DynamicCtx, CtxType
<1> HIDE DEF total, fixed, part, last
<1>4. /\ total <= Fixed =>
           DynamicCtx(x, hs) = [failed |-> x.failed, stack |-> x.stack, fixed |-> fixed,
                                count |-> total, index |-> 0, handler |-> last]
      /\ ~(total <= Fixed) =>
           DynamicCtx(x, hs) = [failed |-> x.failed, stack |-> part, fixed |-> x.fixed,
                                count |-> 0, index |-> 0, handler |-> last]
  BY <1>3 DEF CtxType
<1>5. QED
  BY <1>1, <1>2, <1>4 DEF CtxType

-----------------------------------------------------------------------------
(* What a step of one goroutine leaves alone.                              *)

\* The chain of u stays, and stays in the cache if it is there.
ChainKept(u) ==
  /\ UNCHANGED middlewareFuncs
  /\ open => open'
  /\ \A s \in compiled : \E t \in compiled' : Hash(t) = Hash(s)

\* A step of w: nothing of another goroutine changes, nor its context.
Only(w) ==
  /\ ChainKept(w)
  /\ \A u \in Workers : u # w =>
       /\ pc'[u] = pc[u] /\ route'[u] = route[u] /\ held'[u] = held[u] /\ chain'[u] = chain[u]
       /\ link'[u] = link[u] /\ frames'[u] = frames[u] /\ log'[u] = log[u]
       /\ earlier'[u] = earlier[u]
       /\ pc[u] # "idle" => ctx'[held[u]] = ctx[held[u]]

LEMMA OthersPlaced ==
  ASSUME NEW w \in Workers, Only(w), NEW u \in Workers, u # w, Placed(u)
  PROVE  Placed(u)'
<1>1. /\ UNCHANGED middlewareFuncs /\ (open => open')
      /\ \A s \in compiled : \E t \in compiled' : Hash(t) = Hash(s)
  BY DEF Only, ChainKept
<1>2. /\ pc'[u] = pc[u] /\ route'[u] = route[u] /\ held'[u] = held[u] /\ chain'[u] = chain[u]
      /\ link'[u] = link[u] /\ frames'[u] = frames[u] /\ log'[u] = log[u]
      /\ earlier'[u] = earlier[u]
      /\ pc[u] # "idle" => ctx'[held[u]] = ctx[held[u]]
  BY DEF Only
<1>3. Own(u)' = Own(u) /\ Cacheable(u)' = Cacheable(u) /\ InPass(u)' = InPass(u)
  BY <1>1, <1>2 DEF Own, Cacheable, InPass
<1>4. Started(u)'
  BY <1>1, <1>2 DEF Placed, Started
<1>5. Calm(u)'
  BY <1>2, <1>3 DEF Placed, Calm
<1>6. InChain(u)'
  BY <1>2, <1>3 DEF Placed, InChain, InPass
<1>7. InDynamic(u)'
  BY <1>2, <1>3 DEF Placed, InDynamic
<1>8. FirstOfChain(u)'
  <2>1. CASE pc[u] \in {"first", "dynamic"}
    <3>1. PICK s \in compiled : middlewareFuncs = <<>> /\ Hash(s) = Hash(Own(u))
      BY <2>1 DEF Placed, FirstOfChain
    <3>2. QED
      BY <1>1, <1>3, <3>1 DEF FirstOfChain
  <2>2. QED
    BY <1>2, <2>1 DEF FirstOfChain
<1>9. OfChain(u)'
  BY <1>2, <1>3 DEF Placed, OfChain, InPass
<1>10. QED
  BY <1>4, <1>5, <1>6, <1>7, <1>8, <1>9 DEF Placed

\* A step of w in which it keeps its context, and changes no other one.
LEMMA ContextKept ==
  ASSUME TypeOK, HasCtx, FreeUnused, NEW w \in Workers, pc[w] # "idle", pc'[w] # "idle",
         \A u \in Workers : u # w => pc'[u] = pc[u], UNCHANGED held,
         \A x \in Ctxs : x # held[w] => ctx'[x] = ctx[x]
  PROVE  /\ HasCtx' /\ FreeUnused'
         /\ held[w] \in Ctxs
         /\ \A u \in Workers : u # w /\ pc[u] # "idle" => ctx'[held[u]] = ctx[held[u]]
<1>1. held[w] \in Ctxs /\ \A u \in Workers : u # w /\ pc[u] # "idle" =>
        held[u] \in Ctxs /\ held[u] # held[w]
  BY DEF TypeOK, HasCtx
<1>2. HasCtx'
  BY DEF HasCtx
<1>3. FreeUnused'
  <2>1. InUse' = InUse /\ held[w] \in InUse
    BY DEF InUse
  <2>2. QED
    BY <2>1 DEF FreeUnused, Unused, Inert
<1>4. QED
  BY <1>1, <1>2, <1>3

LEMMA StepKeeps ==
  ASSUME IInv, NEW w \in Workers, Only(w), TypeOK', HasCtx', FreeUnused', Placed(w)'
  PROVE  IInv'
BY OthersPlaced DEF IInv

-----------------------------------------------------------------------------
(* Before the passes.                                                      *)

LEMMA UseKeeps ==
  ASSUME IInv, NEW f \in GlobalFuncs, Use(f)
  PROVE  IInv'
<1>1. \A w \in Workers : pc[w] = "idle"
  BY DEF IInv, Placed, Started, Use
<1>2. TypeOK'
  <2>1. f \in Funcs
    BY DispatchAssumption
  <2>2. middlewareFuncs' \in FuncSeqs
    BY <2>1 DEF IInv, TypeOK, FuncSeqs, Use
  <2>3. QED
    BY <2>2 DEF IInv, TypeOK, Use, job, run
<1>3. HasCtx' /\ FreeUnused'
  BY DEF IInv, HasCtx, FreeUnused, Use, job, run, InUse
<1>4. \A w \in Workers : Placed(w)'
  BY <1>1 DEF IInv, Placed, Use, job, run, Started, Calm, InChain, InPass, InDynamic,
              FirstOfChain, OfChain
<1>5. QED
  BY <1>2, <1>3, <1>4 DEF IInv

LEMMA ArriveKeeps ==
  ASSUME IInv, NEW w \in Workers, NEW x \in Ctxs, NEW r \in Routes, Arrive(w, x, r)
  PROVE  IInv'
<1>1. TypeOK'
  BY DEF IInv, TypeOK, Arrive, Goto, run
<1>2. /\ pc[w] = "idle" /\ pc'[w] = "setup" /\ held'[w] = x /\ route'[w] = r /\ open'
      /\ UNCHANGED <<middlewareFuncs, compiled, ctx, chain, frames, log, link, earlier>>
      /\ \A u \in Workers : u # w =>
           pc'[u] = pc[u] /\ route'[u] = route[u] /\ held'[u] = held[u]
  BY DEF IInv, TypeOK, Arrive, Goto, run
<1>3. \A u \in Workers : held[u] # x
  BY DEF Arrive, InUse
<1>4. HasCtx'
  BY <1>2, <1>3, DispatchAssumption DEF IInv, HasCtx
<1>5. FreeUnused'
  BY <1>2, DispatchAssumption DEF IInv, FreeUnused, Unused, Inert, InUse, HasCtx
<1>6. Only(w)
  BY <1>2 DEF Only, ChainKept
<1>7. Placed(w)'
  <2>1. Unused(ctx[x])
    BY DEF IInv, FreeUnused, Arrive
  <2>2. frames[w] = <<>> /\ log[w] = <<>> /\ earlier[w] = <<>> /\ link[w] = 0
    BY <1>2 DEF IInv, Placed, Calm
  <2>3. Started(w)' /\ Calm(w)' /\ InChain(w)' /\ InDynamic(w)' /\ FirstOfChain(w)'
    BY <1>2, <2>1, <2>2 DEF Started, Calm, InChain, InDynamic, FirstOfChain, InPass
  <2>4. Own(w)' \in Seq(Funcs)
    BY <1>2, DispatchAssumption DEF IInv, TypeOK, FuncSeqs, Own
  <2>5. OfChain(w)'
    BY <1>2, <2>2, <2>4, EmptyIsPrefix DEF OfChain
  <2>6. QED
    BY <2>3, <2>5 DEF Placed
<1>8. QED
  BY <1>1, <1>4, <1>5, <1>6, <1>7, StepKeeps

\* A step that changes nothing but the place and the chain of w, on the way to a pass.
LEMMA ChosenKeeps ==
  ASSUME IInv, NEW w \in Workers, pc[w] \in {"setup", "compile"}, Handlers[route[w]] # <<>>,
         NEW s \in Seq(Funcs), NEW label \in {"pass", "first"}, Chosen(w, s, label),
         Hash(s) = Hash(Own(w)), compiled' \subseteq Seq(Funcs),
         \A t \in compiled : \E v \in compiled' : Hash(v) = Hash(t),
         label = "first" =>
           middlewareFuncs = <<>> /\ \E t \in compiled' : Hash(t) = Hash(Own(w))
  PROVE  IInv'
<1>1. /\ pc'[w] = label /\ chain'[w] = s
      /\ UNCHANGED <<middlewareFuncs, open, ctx, route, held, frames, log, link, earlier>>
      /\ \A u \in Workers : u # w => pc'[u] = pc[u] /\ chain'[u] = chain[u]
  BY DEF IInv, TypeOK, Chosen, Goto, run
<1>2. TypeOK'
  BY DEF IInv, TypeOK, Chosen, Goto, run, FuncSeqs
<1>3. HasCtx' /\ FreeUnused'
  BY <1>1, ContextKept DEF IInv
<1>4. Only(w)
  BY <1>1 DEF Only, ChainKept
<1>5. Own(w)' = Own(w) /\ Own(w) \in Seq(Funcs)
  BY <1>1, OwnType DEF IInv, Placed, Started, Own
<1>6. /\ frames[w] = <<>> /\ log[w] = <<>> /\ earlier[w] = <<>> /\ link[w] = 0
      /\ Unused(ctx[held[w]])
  BY DEF IInv, Placed, Calm
<1>7. Started(w)' /\ Calm(w)' /\ InDynamic(w)'
  BY <1>1 DEF IInv, Placed, Started, Calm, InDynamic
<1>8. InChain(w)'
  <2>1. Len(s) \in Nat /\ SubSeq(s, 1, 0) = <<>>
    OBVIOUS
  <2>2. QED
    BY <1>1, <1>5, <1>6, <2>1 DEF InChain, Unused
<1>9. FirstOfChain(w)'
  BY <1>1, <1>5 DEF FirstOfChain
<1>10. OfChain(w)'
  BY <1>1, <1>5, <1>6, EmptyIsPrefix DEF OfChain
<1>11. QED
  BY <1>2, <1>3, <1>4, <1>7, <1>8, <1>9, <1>10, StepKeeps DEF Placed

LEMMA SetupKeeps ==
  ASSUME IInv, NEW w \in Workers, Setup(w)
  PROVE  IInv'
<1>1. /\ compiled \subseteq Seq(Funcs)
      /\ pc[w] \in {"setup", "compile"} => Own(w) \in Seq(Funcs)
  BY OwnType DEF IInv, TypeOK, FuncSeqs, Placed, Started
<1>2. CASE NoHandlers(w) \/ CacheMiss(w)
  <2>1. /\ pc[w] = "setup" /\ pc' = [pc EXCEPT ![w] = pc'[w]] /\ pc'[w] \in {"done", "compile"}
        /\ pc'[w] = "compile" => Cacheable(w)
        /\ UNCHANGED <<middlewareFuncs, open, compiled, ctx, route, held, chain, frames, log,
                       link, earlier>>
    BY <1>2 DEF NoHandlers, CacheMiss, Goto, IInv, TypeOK, shared, job, run
  <2>2. TypeOK'
    BY <2>1 DEF IInv, TypeOK
  <2>3. pc[w] # "idle" /\ \A u \in Workers : u # w => pc'[u] = pc[u]
    BY <2>1 DEF IInv, TypeOK
  <2>4. HasCtx' /\ FreeUnused'
    BY <2>1, <2>3, ContextKept DEF IInv
  <2>5. Only(w)
    BY <2>1, <2>3 DEF Only, ChainKept
  <2>6. Placed(w)'
    BY <2>1 DEF IInv, Placed, Started, Calm, InChain, InPass, InDynamic, FirstOfChain, OfChain,
                Own, Cacheable
  <2>7. QED
    BY <2>2, <2>4, <2>5, <2>6, StepKeeps
<1>3. CASE Direct(w)
  BY <1>1, <1>3, ChosenKeeps DEF Direct
<1>4. CASE CacheHit(w)
  <2>1. PICK s \in compiled : Hash(s) = Hash(Own(w)) /\ Chosen(w, s, "pass")
    BY <1>4 DEF CacheHit
  <2>2. QED
    BY <1>1, <1>4, <2>1, ChosenKeeps DEF CacheHit, Cacheable
<1>5. CASE Compile(w)
  <2> DEFINE label == IF middlewareFuncs = <<>> THEN "first" ELSE "pass"
  <2>1. pc[w] = "compile" /\ Chosen(w, Own(w), label) /\ Handlers[route[w]] # <<>>
    BY <1>5 DEF Compile, IInv, Placed, Calm, Cacheable
  <2>2. /\ compiled' \subseteq Seq(Funcs) /\ Own(w) \in compiled'
        /\ \A t \in compiled : \E v \in compiled' : Hash(v) = Hash(t)
    BY <1>1, <1>5 DEF Compile
  <2>3. label \in {"pass", "first"} /\ (label = "first" => middlewareFuncs = <<>>)
    OBVIOUS
  <2> HIDE DEF label
  <2>4. QED
    BY <1>1, <2>1, <2>2, <2>3, ChosenKeeps
<1>6. QED
  BY <1>2, <1>3, <1>4, <1>5 DEF Setup

-----------------------------------------------------------------------------
(* The passes.                                                             *)

\* What a step within a pass leaves as it is.
Within(w) ==
  /\ pc[w] \in {"pass", "first", "dynamic"}
  /\ UNCHANGED <<middlewareFuncs, open, compiled, pc, route, held, chain, earlier>>
  /\ \A u \in Workers : u # w =>
       link'[u] = link[u] /\ frames'[u] = frames[u] /\ log'[u] = log[u]
  /\ \A x \in Ctxs : x # held[w] => ctx'[x] = ctx[x]

LEMMA WithinKeeps ==
  ASSUME IInv, NEW w \in Workers, Within(w), TypeOK', Calm(w)', InChain(w)', InDynamic(w)',
         OfChain(w)'
  PROVE  IInv'
<1>1. HasCtx' /\ FreeUnused' /\ Only(w)
  BY ContextKept DEF IInv, Within, Only, ChainKept
<1>2. Started(w)' /\ FirstOfChain(w)'
  BY DEF IInv, Placed, Within, Started, FirstOfChain, Own
<1>3. QED
  BY <1>1, <1>2, StepKeeps DEF Placed

\* Where a function runs.
LEMMA Running ==
  ASSUME IInv, NEW w \in Workers, frames[w] # <<>> \/ InPass(w)
  PROVE  /\ pc[w] \in {"pass", "first", "dynamic"}
         /\ held[w] \in Ctxs /\ ctx[held[w]] \in CtxType
         /\ route[w] \in Routes /\ Own(w) \in Seq(Funcs) /\ Handlers[route[w]] \in Seq(Funcs)
<1>1. pc[w] \in {"pass", "first", "dynamic"}
  BY DEF IInv, TypeOK, Placed, Calm, InPass
<1>2. held[w] \in Ctxs /\ route[w] \in Routes
  BY <1>1 DEF IInv, TypeOK, HasCtx, Placed, Started
<1>3. QED
  BY <1>1, <1>2, OwnType DEF IInv, TypeOK

LEMMA CallLinkKeeps ==
  ASSUME IInv, NEW w \in Workers, CallLink(w)
  PROVE  IInv'
<1> DEFINE f == chain[w][link[w] + 1]
<1>1. /\ chain[w] \in Seq(Funcs) /\ link[w] \in 0..Len(chain[w]) - 1 /\ f \in Funcs
      /\ Inert(ctx[held[w]]) /\ Hash(chain[w]) = Hash(Own(w)) /\ Own(w) \in Seq(Funcs)
      /\ log[w] = SubSeq(chain[w], 1, link[w]) /\ earlier[w] = <<>>
      /\ InPass(w) /\ Handlers[route[w]] # <<>> /\ frames[w] = <<>>
  BY Running DEF IInv, TypeOK, FuncSeqs, Placed, InChain, CallLink
<1>2. /\ frames' = [frames EXCEPT ![w] = <<f>>]
      /\ log' = [log EXCEPT ![w] = SubSeq(chain[w], 1, link[w] + 1)]
      /\ link' = [link EXCEPT ![w] = @ + 1]
      /\ UNCHANGED <<middlewareFuncs, open, compiled, ctx, pc, route, held, chain, earlier>>
  <2>1. Append(SubSeq(chain[w], 1, link[w]), f) = SubSeq(chain[w], 1, link[w] + 1)
    BY <1>1, OneMore
  <2>2. Append(frames[w], f) = <<f>>
    BY <1>1
  <2>3. QED
    BY <1>1, <2>1, <2>2 DEF CallLink, Push, IInv, TypeOK, shared, job
<1>3. TypeOK'
  <2>1. SubSeq(chain[w], 1, link[w] + 1) \in Seq(Funcs) /\ link[w] + 1 \in Nat
    BY <1>1
  <2>2. <<f>> \in Seq(Funcs)
    BY <1>1
  <2>3. QED
    BY <1>2, <2>1, <2>2 DEF IInv, TypeOK, FuncSeqs
<1>4. /\ link'[w] = link[w] + 1 /\ log'[w] = SubSeq(chain[w], 1, link[w] + 1)
      /\ Len(frames'[w]) <= 1
  BY <1>2 DEF IInv, TypeOK
<1>5. Own(w)' = Own(w)
  BY <1>2 DEF Own
<1>6. Within(w)
  BY <1>1, <1>2 DEF Within, InPass, IInv, TypeOK
<1>7. Calm(w)' /\ InDynamic(w)'
  BY <1>1, <1>2 DEF Calm, InDynamic, InPass
<1>8. InChain(w)'
  BY <1>1, <1>2, <1>4, <1>5 DEF InChain
<1>9. OfChain(w)'
  <2>1. Prefix(Hash(log'[w]), Hash(Own(w)))
    BY <1>1, <1>4, PartOfChain
  <2>2. log'[w] \in Seq(Funcs)
    BY <1>3 DEF TypeOK, FuncSeqs
  <2>3. InOrder(Hash(log'[w]), Hash(Own(w)))
    BY <1>1, <2>1, <2>2, PrefixInOrder
  <2>4. QED
    BY <1>2, <1>5, <2>1, <2>3 DEF OfChain, IInv, Placed
<1>10. QED
  BY <1>3, <1>6, <1>7, <1>8, <1>9, WithinKeeps

\* A function that returns, with or without an error.
LEMMA PopKeeps ==
  ASSUME IInv, NEW w \in Workers, Fail(w) \/ Return(w)
  PROVE  IInv'
<1>1. frames[w] # <<>> /\ frames[w] \in Seq(Funcs)
  BY DEF Fail, Return, IInv, TypeOK, FuncSeqs
<1>2. /\ pc[w] \in {"pass", "first", "dynamic"} /\ held[w] \in Ctxs
      /\ ctx[held[w]] \in CtxType
  BY <1>1, Running
<1> DEFINE rest == SubSeq(frames[w], 1, Len(frames[w]) - 1)
<1>3. rest \in Seq(Funcs) /\ Len(rest) = Len(frames[w]) - 1 /\ Len(rest) \in Nat
  BY <1>1
<1> HIDE DEF rest
<1>4. /\ frames' = [frames EXCEPT ![w] = rest]
      /\ UNCHANGED <<middlewareFuncs, open, compiled, pc, route, held, chain, log, link,
                     earlier>>
      /\ ctx' \in [Ctxs -> CtxType]
      /\ \A x \in Ctxs : x # held[w] => ctx'[x] = ctx[x]
      /\ ctx'[held[w]].index = ctx[held[w]].index
      /\ Inert(ctx[held[w]]) => Inert(ctx'[held[w]])
      /\ \A i \in Int : NextCallee([ctx'[held[w]] EXCEPT !.index = i])
                          = NextCallee([ctx[held[w]] EXCEPT !.index = i])
  <2>1. CASE Return(w)
    BY <2>1 DEF Return, Pop, rest, IInv, TypeOK, shared, job
  <2>2. CASE Fail(w)
    <3>1. /\ ctx' = [ctx EXCEPT ![held[w]].failed = TRUE]
          /\ frames' = [frames EXCEPT ![w] = rest]
          /\ UNCHANGED <<middlewareFuncs, open, compiled, pc, route, held, chain, log, link,
                         earlier>>
      BY <2>2 DEF Fail, Pop, rest, shared, job
    <3>2. ctx'[held[w]] = [ctx[held[w]] EXCEPT !.failed = TRUE]
      BY <1>2, <3>1 DEF IInv, TypeOK
    <3>3. /\ ctx' \in [Ctxs -> CtxType]
          /\ \A x \in Ctxs : x # held[w] => ctx'[x] = ctx[x]
      BY <1>2, <3>1 DEF IInv, TypeOK, CtxType
    <3>4. \A c \in CtxType :
            /\ [c EXCEPT !.failed = TRUE].index = c.index
            /\ Inert(c) => Inert([c EXCEPT !.failed = TRUE])
            /\ \A i \in Int : NextCallee([[c EXCEPT !.failed = TRUE] EXCEPT !.index = i])
                                = NextCallee([c EXCEPT !.index = i])
      BY DEF CtxType, Inert, NextCallee
    <3>5. QED
      BY <1>2, <3>1, <3>2, <3>3, <3>4
  <2>3. QED
    BY <2>1, <2>2
<1>5. TypeOK'
  BY <1>3, <1>4 DEF IInv, TypeOK, FuncSeqs
<1>6. Within(w)
  BY <1>2, <1>4 DEF Within, IInv, TypeOK
<1>7. frames'[w] = rest
  BY <1>4 DEF IInv, TypeOK
<1>8. Calm(w)' /\ OfChain(w)'
  BY <1>2, <1>4 DEF Calm, OfChain, InPass, Own, IInv, Placed
<1>9. InChain(w)'
  <2>1. CASE InPass(w)
    <3>1. link[w] # 0 /\ Len(rest) <= 1
      BY <1>1, <1>3, <2>1 DEF IInv, Placed, InChain
    <3>2. QED
      BY <1>4, <1>7, <2>1, <3>1 DEF IInv, Placed, InChain, Own
  <2>2. QED
    BY <1>4, <2>1 DEF InChain, InPass
<1>10. InDynamic(w)'
  <2>1. CASE pc[w] = "dynamic"
    <3> DEFINE x == ctx[held[w]]
               hs == Handlers[route[w]]
    <3>1. /\ hs # <<>> /\ x.index \in Nat
          /\ \A i \in Nat : NextCallee([x EXCEPT !.index = i]) = At(hs, i + 1)
          /\ Len(log[w]) = x.index + 1
          /\ \A i \in 1..Len(log[w]) : log[w][i] = At(hs, i)
      BY <2>1 DEF IInv, Placed, InDynamic
    <3>2. \A i \in Nat : NextCallee([ctx'[held[w]] EXCEPT !.index = i]) = At(hs, i + 1)
      <4>1. TAKE i \in Nat
      <4>2. NextCallee([ctx'[held[w]] EXCEPT !.index = i]) = NextCallee([x EXCEPT !.index = i])
        BY <1>4
      <4>3. QED
        BY <3>1, <4>2
    <3>3. QED
      BY <1>4, <3>1, <3>2 DEF InDynamic
  <2>2. QED
    BY <1>4, <2>1 DEF InDynamic
<1>11. QED
  BY <1>5, <1>6, <1>8, <1>9, <1>10, WithinKeeps

\* The context of w with another index.
Indexed(w, n) == [ctx[held[w]] EXCEPT !.index = n]

LEMMA IndexedType ==
  ASSUME NEW w \in Workers, ctx[held[w]] \in CtxType, NEW n \in Int
  PROVE  /\ Indexed(w, n) \in CtxType /\ Indexed(w, n).index = n
         /\ \A i \in Int : [Indexed(w, n) EXCEPT !.index = i] = [ctx[held[w]] EXCEPT !.index = i]
<1> DEFINE x == ctx[held[w]]
           y == [failed |-> x.failed, stack |-> x.stack, fixed |-> x.fixed, count |-> x.count,
                 index |-> n, handler |-> x.handler]
<1>1. Indexed(w, n) = y
  BY DEF Indexed, CtxType
<1>2. y \in CtxType /\ y.index = n
  BY DEF CtxType
<1>3. \A i \in Int : [y EXCEPT !.index = i] = [x EXCEPT !.index = i]
  BY DEF CtxType
<1>4. QED
  BY <1>1, <1>2, <1>3

\* c.Next() in a compiled pass counts the index up and calls nothing.
LEMMA CallNextInert ==
  ASSUME IInv, NEW w \in Workers, CallNext(w), InPass(w)
  PROVE  /\ ctx' = [ctx EXCEPT ![held[w]] = Indexed(w, ctx[held[w]].index + 1)]
         /\ Inert(ctx'[held[w]])
         /\ UNCHANGED <<frames, log>>
<1>1. held[w] \in Ctxs /\ ctx[held[w]] \in CtxType /\ Inert(ctx[held[w]])
  BY Running DEF IInv, Placed, InChain
<1> DEFINE x == [ctx[held[w]] EXCEPT !.index = @ + 1]
<1>2. NextCallee(x) = None /\ Inert(x)
  BY <1>1, InertCallee
<1>3. /\ ctx' = [ctx EXCEPT ![held[w]] = x]
      /\ UNCHANGED <<frames, log>>
  BY <1>2 DEF CallNext
<1>4. ctx'[held[w]] = x
  BY <1>1, <1>3 DEF IInv, TypeOK
<1>5. QED
  BY <1>2, <1>3, <1>4 DEF Indexed

\* c.Next() in a dynamic pass calls the next function of the route, or the last again.
LEMMA CallNextDynamic ==
  ASSUME IInv, NEW w \in Workers, CallNext(w), ~InPass(w)
  PROVE  LET hs == Handlers[route[w]]
             n == ctx[held[w]].index + 1
         IN /\ pc[w] = "dynamic"
            /\ n \in Nat /\ At(hs, n + 1) \in Funcs
            /\ ctx' = [ctx EXCEPT ![held[w]] = Indexed(w, n)]
            /\ frames' = [frames EXCEPT ![w] = Append(@, At(hs, n + 1))]
            /\ log' = [log EXCEPT ![w] = Append(@, At(hs, n + 1))]
<1> DEFINE hs == Handlers[route[w]]
           n == ctx[held[w]].index + 1
           x == [ctx[held[w]] EXCEPT !.index = @ + 1]
<1>1. frames[w] # <<>>
  BY DEF CallNext
<1>2. /\ pc[w] = "dynamic" /\ route[w] \in Routes /\ hs \in Seq(Funcs)
      /\ ctx[held[w]] \in CtxType
  BY <1>1, Running DEF InPass
<1>3. /\ hs # <<>> /\ ctx[held[w]].index \in Nat
      /\ \A i \in Nat : NextCallee([ctx[held[w]] EXCEPT !.index = i]) = At(hs, i + 1)
  BY <1>2 DEF IInv, Placed, InDynamic
<1>4. n \in Nat /\ x = [ctx[held[w]] EXCEPT !.index = n]
  BY <1>3
<1>5. At(hs, n + 1) \in Funcs
  <2>1. (IF n + 1 <= Len(hs) THEN n + 1 ELSE Len(hs)) \in 1..Len(hs)
    BY <1>2, <1>3, <1>4
  <2>2. QED
    BY <1>2, <2>1 DEF At
<1>6. NextCallee(x) = At(hs, n + 1) /\ At(hs, n + 1) # None
  BY <1>3, <1>4, <1>5, DispatchAssumption
<1>7. /\ ctx' = [ctx EXCEPT ![held[w]] = x]
      /\ frames' = [frames EXCEPT ![w] = Append(@, At(hs, n + 1))]
      /\ log' = [log EXCEPT ![w] = Append(@, At(hs, n + 1))]
  BY <1>6 DEF CallNext, Push
<1>8. QED
  BY <1>2, <1>4, <1>5, <1>7 DEF Indexed

LEMMA CallNextKeeps ==
  ASSUME IInv, NEW w \in Workers, CallNext(w)
  PROVE  IInv'
<1> DEFINE hs == Handlers[route[w]]
           x == ctx[held[w]]
<1>1. /\ frames[w] # <<>> /\ frames[w] \in Seq(Funcs) /\ log[w] \in Seq(Funcs)
  BY DEF CallNext, IInv, TypeOK, FuncSeqs
<1>2. /\ pc[w] \in {"pass", "first", "dynamic"} /\ held[w] \in Ctxs /\ x \in CtxType
      /\ route[w] \in Routes /\ hs \in Seq(Funcs) /\ Own(w) \in Seq(Funcs)
  BY <1>1, Running
<1>3. UNCHANGED <<middlewareFuncs, open, compiled, pc, route, held, chain, link, earlier>>
  BY DEF CallNext, shared, job
<1>4. Own(w)' = Own(w)
  BY <1>3 DEF Own
<1>5. CASE InPass(w)
  <2>1. /\ ctx' = [ctx EXCEPT ![held[w]] = Indexed(w, x.index + 1)]
        /\ Inert(ctx'[held[w]]) /\ UNCHANGED <<frames, log>>
    BY <1>5, CallNextInert
  <2>2. Indexed(w, x.index + 1) \in CtxType
    <3>1. x.index + 1 \in Int
      BY <1>2 DEF CtxType
    <3>2. QED
      BY <1>2, <3>1, IndexedType
  <2>3. TypeOK'
    BY <1>3, <2>1, <2>2 DEF IInv, TypeOK
  <2>4. Within(w)
    BY <1>2, <1>3, <2>1 DEF Within, IInv, TypeOK
  <2>5. Calm(w)' /\ OfChain(w)' /\ InDynamic(w)'
    BY <1>3, <1>4, <1>5, <2>1 DEF Calm, OfChain, InDynamic, InPass, IInv, Placed
  <2>6. link[w] # 0
    BY <1>1, <1>5 DEF IInv, Placed, InChain
  <2>7. InChain(w)'
    BY <1>3, <1>4, <1>5, <2>1, <2>6 DEF IInv, Placed, InChain
  <2>8. QED
    BY <2>3, <2>4, <2>5, <2>7, WithinKeeps
<1>6. CASE ~InPass(w)
  <2> DEFINE n == x.index + 1
             new == At(hs, n + 1)
             y == Indexed(w, n)
  <2>1. /\ pc[w] = "dynamic" /\ n \in Nat /\ new \in Funcs
        /\ ctx' = [ctx EXCEPT ![held[w]] = y]
        /\ frames' = [frames EXCEPT ![w] = Append(@, new)]
        /\ log' = [log EXCEPT ![w] = Append(@, new)]
    BY <1>6, CallNextDynamic
  <2>2. y \in CtxType /\ y.index = n
        /\ \A i \in Int : [y EXCEPT !.index = i] = [x EXCEPT !.index = i]
    BY <1>2, <2>1, IndexedType
  <2>3. /\ hs # <<>> /\ Len(log[w]) = n
        /\ \A i \in Nat : NextCallee([x EXCEPT !.index = i]) = At(hs, i + 1)
        /\ \A i \in 1..Len(log[w]) : log[w][i] = At(hs, i)
    BY <2>1 DEF IInv, Placed, InDynamic
  <2>4. \A i \in Nat : NextCallee([y EXCEPT !.index = i]) = At(hs, i + 1)
    <3>1. TAKE i \in Nat
    <3>2. [y EXCEPT !.index = i] = [x EXCEPT !.index = i]
      BY <2>2
    <3>3. QED
      BY <2>3, <3>2
  <2> HIDE DEF y, new
  <2>5. Append(log[w], new) \in Seq(Funcs) /\ Append(frames[w], new) \in Seq(Funcs)
    BY <1>1, <2>1
  <2>6. TypeOK'
    BY <1>3, <2>1, <2>2, <2>5 DEF IInv, TypeOK, FuncSeqs
  <2>7. log'[w] = Append(log[w], new) /\ ctx'[held[w]] = y
    BY <1>2, <2>1 DEF IInv, TypeOK
  <2>8. /\ Len(log'[w]) = n + 1
        /\ \A i \in 1..Len(log'[w]) : log'[w][i] = At(hs, i)
    BY <1>1, <2>1, <2>3, <2>7 DEF new
  <2>9. InDynamic(w)'
    <3>1. y.index \in Nat /\ Len(log'[w]) = y.index + 1
      BY <2>1, <2>2, <2>8
    <3> HIDE DEF n
    <3>2. QED
      BY <1>3, <2>3, <2>4, <2>7, <2>8, <3>1 DEF InDynamic
  <2>10. OfChain(w)'
    <3>1. Own(w) = hs
      BY <1>2, <2>1 DEF Own, IInv, Placed, FirstOfChain
    <3>2. InOrder(Hash(log'[w]), Hash(hs))
      BY <1>2, <2>3, <2>5, <2>7, <2>8, CodesInOrder
    <3>3. QED
      BY <1>3, <1>4, <2>1, <3>1, <3>2 DEF OfChain, InPass, IInv, Placed
  <2>11. Within(w) /\ Calm(w)' /\ InChain(w)'
    BY <1>2, <1>3, <1>6, <2>1 DEF Within, Calm, InChain, InPass, IInv, TypeOK
  <2>12. QED
    BY <2>6, <2>9, <2>10, <2>11, WithinKeeps
<1>7. QED
  BY <1>5, <1>6

-----------------------------------------------------------------------------
(* The ends of the passes.                                                 *)

LEMMA EndPassKeeps ==
  ASSUME IInv, NEW w \in Workers, EndPass(w) \/ EndDynamic(w)
  PROVE  IInv'
<1>1. /\ pc[w] # "idle" /\ pc' = [pc EXCEPT ![w] = "done"] /\ frames[w] = <<>>
      /\ UNCHANGED <<middlewareFuncs, open, compiled, ctx, route, held, chain, link, frames,
                     log, earlier>>
  BY DEF EndPass, EndDynamic, PassOver, Goto, shared, job, run
<1>2. TypeOK' /\ pc'[w] = "done" /\ \A u \in Workers : u # w => pc'[u] = pc[u]
  BY <1>1 DEF IInv, TypeOK
<1>3. HasCtx' /\ FreeUnused'
  BY <1>1, <1>2, ContextKept DEF IInv
<1>4. Only(w)
  BY <1>1, <1>2 DEF Only, ChainKept
<1>5. Placed(w)'
  BY <1>1, <1>2 DEF IInv, Placed, Started, Calm, InChain, InPass, InDynamic, FirstOfChain,
                    OfChain, Own
<1>6. QED
  BY <1>2, <1>3, <1>4, <1>5, StepKeeps

LEMMA FallThroughKeeps ==
  ASSUME IInv, NEW w \in Workers, FallThrough(w)
  PROVE  IInv'
<1> DEFINE hs == Handlers[route[w]]
           x == ctx[held[w]]
           y == DynamicCtx(x, hs)
           f == hs[1]
           called == <<f>>
<1>1. pc[w] = "first" /\ InPass(w)
  BY DEF FallThrough, InPass
<1>2. /\ held[w] \in Ctxs /\ x \in CtxType /\ route[w] \in Routes /\ hs \in Seq(Funcs)
      /\ Own(w) \in Seq(Funcs)
  BY <1>1, Running
<1>3. /\ hs # <<>> /\ Inert(x) /\ Prefix(Hash(log[w]), Hash(Own(w)))
      /\ middlewareFuncs = <<>> /\ \E s \in compiled : Hash(s) = Hash(Own(w))
  BY <1>1 DEF IInv, Placed, InChain, OfChain, FirstOfChain
<1>4. /\ y \in CtxType /\ y.index = 0
      /\ \A i \in Nat : NextCallee([y EXCEPT !.index = i]) = At(hs, i + 1)
  BY <1>2, <1>3, DynamicType, DynamicCallee DEF Inert
<1>5. NextCallee(y) = f /\ f \in Funcs /\ f = At(hs, 1)
  <2>1. 1 \in 1..Len(hs) /\ f \in Funcs /\ f = At(hs, 1)
    BY <1>2, <1>3 DEF At
  <2>2. y = [y EXCEPT !.index = 0]
    BY <1>4 DEF CtxType
  <2>3. NextCallee(y) = NextCallee([y EXCEPT !.index = 0])
    BY <2>2
  <2>4. NextCallee([y EXCEPT !.index = 0]) = At(hs, 0 + 1) /\ 0 + 1 = 1
    BY <1>4
  <2>5. QED
    BY <2>1, <2>3, <2>4
<1>6. /\ called \in Seq(Funcs) /\ Len(called) = 1 /\ called[1] = f
  BY <1>5
<1>7. /\ ctx' = [ctx EXCEPT ![held[w]] = y]
      /\ frames' = [frames EXCEPT ![w] = called]
      /\ log' = [log EXCEPT ![w] = called]
      /\ earlier' = [earlier EXCEPT ![w] = log[w]]
      /\ pc' = [pc EXCEPT ![w] = "dynamic"]
      /\ UNCHANGED <<middlewareFuncs, open, compiled, route, held, chain, link>>
  BY <1>5 DEF FallThrough, Goto, shared, job
<1> HIDE DEF y, called, f
<1>8. TypeOK'
  BY <1>4, <1>6, <1>7 DEF IInv, TypeOK, FuncSeqs
<1>9. /\ pc'[w] = "dynamic" /\ ctx'[held[w]] = y /\ log'[w] = called /\ earlier'[w] = log[w]
      /\ \A u \in Workers : u # w =>
           /\ pc'[u] = pc[u] /\ frames'[u] = frames[u] /\ log'[u] = log[u]
           /\ earlier'[u] = earlier[u]
      /\ \A z \in Ctxs : z # held[w] => ctx'[z] = ctx[z]
  BY <1>2, <1>7 DEF IInv, TypeOK
<1>10. HasCtx' /\ FreeUnused' /\ Only(w)
  BY <1>1, <1>7, <1>9, ContextKept DEF IInv, Only, ChainKept
<1>11. Own(w)' = Own(w) /\ Own(w) = hs
  BY <1>2, <1>3, <1>7 DEF Own
<1>12. Started(w)' /\ Calm(w)' /\ InChain(w)' /\ FirstOfChain(w)'
  BY <1>1, <1>3, <1>7, <1>9, <1>11 DEF Started, Calm, InChain, InPass, FirstOfChain, IInv, Placed
<1>13. InDynamic(w)'
  <2>1. Handlers[route[w]]' = hs /\ ctx'[held'[w]] = y
    BY <1>7, <1>9
  <2>2. y.index \in Nat /\ Len(called) = y.index + 1
    BY <1>4, <1>6
  <2>3. \A i \in 1..Len(called) : called[i] = At(hs, i)
    BY <1>5, <1>6
  <2> HIDE DEF hs
  <2>4. QED
    BY <1>3, <1>4, <1>9, <2>1, <2>2, <2>3 DEF InDynamic
<1>14. OfChain(w)'
  <2>1. \A i \in 1..Len(called) : called[i] = At(hs, i)
    BY <1>5, <1>6
  <2>2. InOrder(Hash(called), Hash(hs))
    BY <1>2, <1>3, <1>6, <2>1, CodesInOrder
  <2>3. QED
    BY <1>3, <1>9, <1>11, <2>2 DEF OfChain, InPass
<1>15. QED
  BY <1>8, <1>10, <1>12, <1>13, <1>14, StepKeeps DEF Placed

\* ReleaseContext leaves a context unused.
LEMMA ReleasedUnused ==
  ASSUME NEW x \in CtxType
  PROVE  Released(x) \in CtxType /\ Unused(Released(x))
<1> DEFINE empty == <<>>
           no == FALSE
           before == -1
           zero == 0
           nil == None
           y == [x EXCEPT !.failed = no, !.stack = empty, !.count = zero, !.index = before,
                          !.handler = nil]
<1>1. /\ empty \in Seq(Funcs) /\ no \in BOOLEAN /\ zero \in Nat /\ before \in Int
      /\ nil \in Funcs \cup {None}
  OBVIOUS
<1>2. Released(x) = y
  BY DEF Released
<1> HIDE DEF empty, no, before, zero, nil
<1>3. y \in CtxType
  BY <1>1 DEF CtxType, FuncSeqs
<1>4. y.failed = no /\ y.stack = empty /\ y.count = zero /\ y.index = before /\ y.handler = nil
  BY <1>1 DEF CtxType
<1> HIDE DEF y
<1>5. QED
  BY <1>2, <1>3, <1>4 DEF Unused, Inert, empty, no, before, zero, nil

LEMMA FinishKeeps ==
  ASSUME IInv, NEW w \in Workers, Finish(w)
  PROVE  IInv'
<1> DEFINE x == ctx[held[w]]
           y == Released(x)
<1>1. pc[w] = "done" /\ held[w] \in Ctxs /\ x \in CtxType /\ frames[w] = <<>>
      /\ \A u \in Workers : u # w => held[u] # held[w]
  BY DEF IInv, TypeOK, HasCtx, Finish, Placed, Calm
<1>2. y \in CtxType /\ Unused(y)
  BY <1>1, ReleasedUnused
<1> HIDE DEF y
<1> DEFINE empty == <<>>
<1>3. empty \in FuncSeqs
  BY DEF FuncSeqs
<1>4. /\ ctx' = [ctx EXCEPT ![held[w]] = y]
      /\ held' = [held EXCEPT ![w] = None] /\ route' = [route EXCEPT ![w] = None]
      /\ chain' = [chain EXCEPT ![w] = empty] /\ link' = [link EXCEPT ![w] = 0]
      /\ log' = [log EXCEPT ![w] = empty] /\ earlier' = [earlier EXCEPT ![w] = empty]
      /\ pc' = [pc EXCEPT ![w] = "idle"]
      /\ UNCHANGED <<middlewareFuncs, open, compiled, frames>>
  BY DEF Finish, Goto, shared, y
<1> HIDE DEF empty
<1>5. TypeOK'
  BY <1>2, <1>3, <1>4 DEF IInv, TypeOK
<1>6. /\ pc'[w] = "idle" /\ held'[w] = None /\ log'[w] = empty /\ earlier'[w] = empty
      /\ link'[w] = 0 /\ ctx'[held[w]] = y
      /\ \A u \in Workers : u # w =>
           /\ pc'[u] = pc[u] /\ route'[u] = route[u] /\ held'[u] = held[u]
           /\ chain'[u] = chain[u] /\ link'[u] = link[u] /\ log'[u] = log[u]
           /\ earlier'[u] = earlier[u]
      /\ \A z \in Ctxs : z # held[w] => ctx'[z] = ctx[z]
  BY <1>1, <1>4 DEF IInv, TypeOK
<1>7. HasCtx'
  BY <1>6 DEF IInv, HasCtx
<1>8. FreeUnused'
  <2>1. \A z \in Ctxs : z \notin InUse' => z = held[w] \/ z \notin InUse
    BY <1>6 DEF InUse
  <2>2. QED
    BY <1>2, <1>6, <2>1 DEF IInv, FreeUnused, Unused, Inert
<1>9. Only(w)
  <2>1. \A u \in Workers : u # w /\ pc[u] # "idle" => held[u] \in Ctxs
    BY DEF IInv, TypeOK, HasCtx
  <2>2. QED
    BY <1>1, <1>4, <1>6, <2>1 DEF Only, ChainKept
<1>10. Placed(w)'
  BY <1>1, <1>4, <1>6 DEF Placed, Started, Calm, InChain, InPass, InDynamic, FirstOfChain,
                          OfChain, empty
<1>11. QED
  BY <1>5, <1>7, <1>8, <1>9, <1>10, StepKeeps

-----------------------------------------------------------------------------
(* The invariants.                                                         *)

LEMMA InitHolds == Init => IInv
<1> SUFFICES ASSUME Init PROVE IInv
  OBVIOUS
<1>1. TypeOK
  <2>1. NewCtx \in CtxType
    BY DispatchAssumption DEF NewCtx, CtxType, FuncSeqs
  <2>2. QED
    <3> DEFINE empty == <<>>
    <3>1. empty \in FuncSeqs
      BY DEF FuncSeqs
    <3>2. /\ middlewareFuncs = empty /\ chain = [w \in Workers |-> empty]
          /\ frames = [w \in Workers |-> empty] /\ log = [w \in Workers |-> empty]
          /\ earlier = [w \in Workers |-> empty]
      BY DEF Init
    <3> HIDE DEF empty
    <3>3. QED
      BY <2>1, <3>1, <3>2 DEF Init, TypeOK
<1>2. HasCtx /\ FreeUnused
  BY DEF Init, HasCtx, FreeUnused, NewCtx, Unused, Inert
<1>3. \A w \in Workers : Placed(w)
  BY DEF Init, Placed, Started, Calm, InChain, InPass, InDynamic, FirstOfChain, OfChain
<1>4. QED
  BY <1>1, <1>2, <1>3 DEF IInv

LEMMA NextKeeps == IInv /\ [Next]_vars => IInv'
<1> SUFFICES ASSUME IInv, [Next]_vars PROVE IInv'
  OBVIOUS
<1>1. CASE UNCHANGED vars
  BY <1>1 DEF IInv, vars, shared, job, run, TypeOK, HasCtx, FreeUnused, InUse, Placed, Started,
              Calm, InChain, InPass, InDynamic, FirstOfChain, OfChain, Own, Cacheable
<1>2. ASSUME NEW f \in GlobalFuncs, Use(f)
      PROVE  IInv'
  BY <1>2, UseKeeps
<1>3. ASSUME NEW w \in Workers, NEW x \in Ctxs, NEW r \in Routes, Arrive(w, x, r)
      PROVE  IInv'
  BY <1>3, ArriveKeeps
<1>4. ASSUME NEW w \in Workers, Setup(w)
      PROVE  IInv'
  BY <1>4, SetupKeeps
<1>5. ASSUME NEW w \in Workers, Run(w)
      PROVE  IInv'
  BY <1>5, CallLinkKeeps, PopKeeps, CallNextKeeps DEF Run
<1>6. ASSUME NEW w \in Workers, End(w)
      PROVE  IInv'
  BY <1>6, EndPassKeeps, FallThroughKeeps, FinishKeeps DEF End
<1>7. QED
  BY <1>1, <1>2, <1>3, <1>4, <1>5, <1>6 DEF Next

\* A goroutine that serves runs a part of its own chain, in a context that no other
\* one has, that was unused when it came and that only its own passes set up.
THEOREM InductiveInvariant == Spec => []IInv
BY InitHolds, NextKeeps, PTL DEF Spec

\* The variables have the types that the fields of Router and Ctx are declared with.
THEOREM TypeCorrect == Spec => []TypeOK
<1>1. IInv => TypeOK
  BY DEF IInv
<1>2. QED
  BY <1>1, InductiveInvariant, PTL

\* Whatever the routes, their functions and the order of the requests: the code
\* that runs for a request is that of its own chain, in order and once in a compiled
\* pass; in the dynamic pass only the final handler may run again.
THEOREM ChainsRunInOrder == Spec => []RunsInOrder
<1>1. IInv => RunsInOrder
  BY DEF IInv, Placed, OfChain, FirstOfChain, RunsInOrder
<1>2. QED
  BY <1>1, InductiveInvariant, PTL

\* c.Next() of a compiled pass calls nothing.
THEOREM NextCallsNothing == Spec => []NextInert
<1>1. IInv => NextInert
  BY DEF IInv, Placed, InChain, NextInert
<1>2. QED
  BY <1>1, InductiveInvariant, PTL

-----------------------------------------------------------------------------
(* How a compiled pass ends.                                               *)

\* What OnlyFailureStops says of a step and the goroutine w.
PassStep(w) ==
  InPass(w) =>
    /\ ~InPass(w)' => log[w] = chain[w] \/ ctx[held[w]].failed
    /\ InPass(w)' /\ ctx[held[w]].failed => log'[w] = log[w]

LEMMA OtherPassStep ==
  ASSUME NEW w \in Workers, pc'[w] = pc[w], log'[w] = log[w]
  PROVE  PassStep(w)
BY DEF PassStep, InPass

LEMMA OwnPassStep ==
  ASSUME IInv, NEW w \in Workers, Setup(w) \/ Run(w) \/ End(w)
  PROVE  PassStep(w)
<1> SUFFICES ASSUME InPass(w)
             PROVE  /\ ~InPass(w)' => log[w] = chain[w] \/ ctx[held[w]].failed
                    /\ InPass(w)' /\ ctx[held[w]].failed => log'[w] = log[w]
  BY DEF PassStep
<1>1. /\ chain[w] \in Seq(Funcs) /\ log[w] = SubSeq(chain[w], 1, link[w])
      /\ link[w] = 0 => ~ctx[held[w]].failed
  BY DEF IInv, TypeOK, FuncSeqs, Placed, InChain
<1>2. ~Setup(w) /\ ~EndDynamic(w) /\ ~Finish(w)
  BY DEF InPass, Setup, NoHandlers, Direct, CacheHit, CacheMiss, Compile, EndDynamic, Finish
<1>3. CASE EndPass(w) \/ FallThrough(w)
  <2>1. ~InPass(w)'
    BY <1>3 DEF EndPass, FallThrough, Goto, IInv, TypeOK, InPass
  <2>2. link[w] = Len(chain[w]) \/ ctx[held[w]].failed
    BY <1>3 DEF EndPass, FallThrough, PassOver
  <2>3. QED
    BY <1>1, <2>1, <2>2
<1>4. CASE CallLink(w)
  BY <1>1, <1>4 DEF CallLink, InPass
<1>5. CASE Fail(w) \/ Return(w)
  BY <1>5 DEF Fail, Return, InPass
<1>6. CASE CallNext(w)
  BY <1>6, CallNextInert DEF CallNext, InPass
<1>7. QED
  BY <1>2, <1>3, <1>4, <1>5, <1>6 DEF Run, End

LEMMA StepStops ==
  ASSUME IInv, [Next]_vars, NEW w \in Workers
  PROVE  PassStep(w)
<1>1. CASE UNCHANGED vars
  BY <1>1, OtherPassStep DEF vars, run
<1>2. ASSUME NEW f \in GlobalFuncs, Use(f)
      PROVE  PassStep(w)
  BY <1>2, OtherPassStep DEF Use, run
<1>3. ASSUME NEW u \in Workers, NEW x \in Ctxs, NEW r \in Routes, Arrive(u, x, r)
      PROVE  PassStep(w)
  <2>1. u = w => ~InPass(w)
    BY <1>3 DEF Arrive, InPass
  <2>2. u # w => pc'[w] = pc[w] /\ log'[w] = log[w]
    BY <1>3 DEF Arrive, Goto, run, IInv, TypeOK
  <2>3. QED
    BY <2>1, <2>2, OtherPassStep DEF PassStep
<1>4. ASSUME NEW u \in Workers, Setup(u) \/ Run(u) \/ End(u)
      PROVE  PassStep(w)
  <2>1. CASE u = w
    BY <1>4, <2>1, OwnPassStep
  <2>2. CASE u # w
    <3>1. pc \in [Workers -> {"idle", "setup", "compile", "pass", "first", "dynamic", "done"}]
          /\ log \in [Workers -> FuncSeqs]
      BY DEF IInv, TypeOK
    <3>2. Setup(u) => pc'[w] = pc[w] /\ log'[w] = log[w]
      BY <2>2, <3>1 DEF Setup, NoHandlers, Direct, CacheHit, CacheMiss, Compile, Chosen, Goto, run
    <3>3. Run(u) => pc'[w] = pc[w] /\ log'[w] = log[w]
      BY <2>2, <3>1 DEF Run, CallLink, Push, Fail, CallNext, Return
    <3>4. End(u) => pc'[w] = pc[w] /\ log'[w] = log[w]
      BY <2>2, <3>1 DEF End, EndPass, FallThrough, EndDynamic, Finish, Goto, run
    <3>5. QED
      BY <1>4, <3>2, <3>3, <3>4, OtherPassStep
  <2>3. QED
    BY <2>1, <2>2
<1>5. QED
  BY <1>1, <1>2, <1>3, <1>4 DEF Next

\* A compiled pass ends with its last function or after a failure: middleware that
\* answers and does not call c.Next() stops nothing.
THEOREM OnlyFailureStopsAPass == Spec => OnlyFailureStops
<1>1. IInv /\ [Next]_vars =>
        [\A w \in Workers :
           InPass(w) =>
             /\ ~InPass(w)' => log[w] = chain[w] \/ ctx[held[w]].failed
             /\ InPass(w)' /\ ctx[held[w]].failed => log'[w] = log[w]]_vars
  BY StepStops DEF PassStep
<1>2. QED
  BY <1>1, InductiveInvariant, PTL DEF Spec, OnlyFailureStops

-----------------------------------------------------------------------------
(* Routing: the least of some numbers, and the segments of a path.         *)

\* A set of numbers has a least one.
LEMMA LeastNumber ==
  ASSUME NEW S \in SUBSET Nat, S # {}
  PROVE  \E n \in S : \A m \in S : n <= m
<1>1. PICK R : R = OpToRel(<, Nat)
  OBVIOUS
<1>2. R = {ss \in Nat \X Nat : ss[1] < ss[2]}
  BY <1>1 DEF OpToRel
<1>3. IsWellFoundedOn(R, Nat)
  BY <1>1, NatLessThanWellFounded
<1>4. PICK n \in S : \A m \in S : <<m, n>> \notin R
  BY <1>3, WFMin
<1>5. \A m \in S : ~(m < n)
  BY <1>2, <1>4
<1>6. QED
  BY <1>5

\* Induction on a set: no number is in it, where none is the first in it.
LEMMA NoneBad ==
  ASSUME NEW Bad \in SUBSET Nat, 0 \notin Bad, \A n \in Nat : n \notin Bad => n + 1 \notin Bad
  PROVE  Bad = {}
<1>1. SUFFICES ASSUME Bad # {} PROVE FALSE
  OBVIOUS
<1>2. PICK n \in Bad : \A m \in Bad : n <= m
  BY <1>1, LeastNumber
<1>3. n # 0 /\ n - 1 \in Nat /\ n - 1 + 1 = n
  BY <1>2
<1>4. n - 1 \in Bad
  BY <1>2, <1>3
<1>5. QED
  BY <1>2, <1>3, <1>4

\* It is what Min gives, which looks for a method's first route.
LEMMA MinIsLeast ==
  ASSUME NEW S \in SUBSET Nat, S # {}
  PROVE  Min(S) \in S /\ \A m \in S : Min(S) <= m
BY LeastNumber DEF Min

\* The ranks number a set of places from 1 on, in their order.
LEMMA RankShape ==
  ASSUME NEW K \in SUBSET Nat, IsFiniteSet(K)
  PROVE  /\ Cardinality(K) \in Nat
         /\ \A i \in K : Rank(K, i) \in 1..Cardinality(K)
         /\ \A i, j \in K : i < j => Rank(K, i) < Rank(K, j)
         /\ \A k \in 1..Cardinality(K) : \E i \in K : Rank(K, i) = k
<1>1. Cardinality(K) \in Nat
  BY FS_CardinalityType
<1>2. ASSUME NEW i \in K PROVE Rank(K, i) \in 1..Cardinality(K)
  <2>1. PICK U : U = {j \in K : j <= i}
    OBVIOUS
  <2>2. i \in U /\ U \subseteq K
    BY <2>1
  <2>3. IsFiniteSet(U) /\ Cardinality(U) \in Nat /\ Cardinality(U) <= Cardinality(K)
    BY <2>2, FS_Subset, FS_CardinalityType
  <2>4. Cardinality(U) # 0
    BY <2>2, <2>3, FS_EmptySet
  <2>5. QED
    BY <1>1, <2>1, <2>3, <2>4 DEF Rank
<1>3. ASSUME NEW i \in K, NEW j \in K, i < j PROVE Rank(K, i) < Rank(K, j)
  <2>1. PICK U : U = {h \in K : h <= i}
    OBVIOUS
  <2>2. PICK V : V = {h \in K : h <= j}
    OBVIOUS
  <2>3. U \subseteq V /\ j \in V /\ j \notin U /\ V \subseteq K
    <3>1. K \subseteq Int
      OBVIOUS
    <3>2. \A h \in K : h <= i => h <= j
      BY <1>3, <3>1
    <3>3. ~(j <= i) /\ j <= j
      BY <1>3, <3>1
    <3>4. QED
      BY <2>1, <2>2, <3>2, <3>3
  <2>4. IsFiniteSet(V) /\ Cardinality(V) \in Nat
    BY <2>3, FS_Subset, FS_CardinalityType
  <2>5. Cardinality(U) \in Nat /\ Cardinality(U) <= Cardinality(V) /\ Cardinality(U) # Cardinality(V)
    BY <2>3, <2>4, FS_Subset, FS_CardinalityType
  <2>6. QED
    BY <2>1, <2>2, <2>4, <2>5 DEF Rank
<1>4. \A k \in 1..Cardinality(K) : \E i \in K : Rank(K, i) = k
  <2>1. PICK T : T = 1..Cardinality(K)
    OBVIOUS
  <2>2. PICK f : f = [i \in K |-> Rank(K, i)]
    OBVIOUS
  <2>3. f \in [K -> T]
    BY <1>2, <2>1, <2>2
  <2>4. ASSUME NEW a \in K, NEW b \in K, f[a] = f[b] PROVE a = b
    <3>1. Rank(K, a) = Rank(K, b) /\ Rank(K, a) \in Int
      BY <1>2, <2>2, <2>4
    <3>2. ~(a < b) /\ ~(b < a)
      BY <1>3, <3>1
    <3>3. QED
      BY <3>2
  <2>5. f \in Injection(K, T)
    BY <2>3, <2>4 DEF Injection, IsInjective
  <2>6. IsFiniteSet(T) /\ Cardinality(T) = Cardinality(K)
    <3>1. PICK n \in Nat : n = Cardinality(K)
      BY <1>1
    <3>2. IsFiniteSet(1..n) /\ Cardinality(1..n) = n
      BY FS_Interval
    <3>3. QED
      BY <2>1, <3>1, <3>2
  <2>7. f \in Surjection(K, T)
    BY <2>5, <2>6, FS_Injection
  <2>8. QED
    BY <2>1, <2>2, <2>7 DEF Surjection
<1>5. QED
  BY <1>1, <1>2, <1>3, <1>4

\* The segments kept are the elements of the clean path, in their order.
LEMMA CleanShape ==
  ASSUME NEW p \in Seq(STRING)
  PROVE  /\ Kept(p) \in SUBSET (1..Len(p)) /\ IsFiniteSet(Kept(p))
         /\ Clean(p) \in Seq(STRING \ {Blank}) /\ DOMAIN Clean(p) = 1..Len(Clean(p))
         /\ Len(Clean(p)) = Cardinality(Kept(p)) /\ Len(Clean(p)) \in Nat
         /\ \A i \in Kept(p) : /\ Rank(Kept(p), i) \in DOMAIN Clean(p)
                               /\ Clean(p)[Rank(Kept(p), i)] = p[i]
         /\ \A k \in DOMAIN Clean(p) :
              \E i \in Kept(p) : Rank(Kept(p), i) = k /\ Clean(p)[k] = p[i]
<1>1. PICK L \in Nat : L = Len(p) /\ DOMAIN p = 1..L
  BY LenProperties
<1>2. Kept(p) \in SUBSET (1..L) /\ IsFiniteSet(Kept(p)) /\ Kept(p) \in SUBSET Nat
  <2>1. IsFiniteSet(1..L)
    BY FS_Interval
  <2>2. Kept(p) \in SUBSET (1..L)
    BY <1>1 DEF Kept
  <2>3. QED
    BY <2>1, <2>2, FS_Subset
<1>3. PICK n \in Nat : n = Cardinality(Kept(p))
  BY <1>2, RankShape
<1>4. PICK s : s = Clean(p)
  OBVIOUS
<1>5. s = [k \in 1..Cardinality(Kept(p)) |-> p[CHOOSE i \in Kept(p) : Rank(Kept(p), i) = k]]
  BY <1>4 DEF Clean
<1>6. ASSUME NEW i \in Kept(p), NEW j \in Kept(p), Rank(Kept(p), i) = Rank(Kept(p), j) PROVE i = j
  <2>1. Rank(Kept(p), i) \in Int /\ ~(i < j) /\ ~(j < i)
    BY <1>2, <1>3, <1>6, RankShape
  <2>2. QED
    BY <1>2, <2>1
<1>7. ASSUME NEW i \in Kept(p)
      PROVE  Rank(Kept(p), i) \in 1..n /\ s[Rank(Kept(p), i)] = p[i]
  <2>1. Rank(Kept(p), i) \in 1..n
    BY <1>2, <1>3, RankShape
  <2>2. (CHOOSE j \in Kept(p) : Rank(Kept(p), j) = Rank(Kept(p), i)) = i
    BY <1>6
  <2>3. QED
    BY <1>3, <1>5, <2>1, <2>2
<1>8. ASSUME NEW k \in 1..n PROVE \E i \in Kept(p) : Rank(Kept(p), i) = k /\ s[k] = p[i]
  BY <1>2, <1>3, <1>7, RankShape
<1>9. s \in Seq(STRING \ {Blank}) /\ Len(s) = n /\ DOMAIN s = 1..n
  <2>1. \A i \in Kept(p) : p[i] \in STRING \ {Blank}
    BY <1>1, <1>2, ElementOfSeq DEF Kept
  <2>2. DOMAIN s = 1..n
    BY <1>3, <1>5
  <2>3. \A k \in 1..n : s[k] \in STRING \ {Blank}
    BY <1>8, <2>1
  <2>4. s = [k \in 1..n |-> s[k]]
    BY <1>3, <1>5
  <2>5. s \in [1..n -> STRING \ {Blank}]
    BY <2>3, <2>4
  <2>6. QED
    BY <1>3, <2>2, <2>5
<1>10. QED
  BY <1>1, <1>2, <1>3, <1>4, <1>7, <1>8, <1>9

\* Cleaning takes away empty segments only.
LEMMA CleanLabels ==
  ASSUME NEW p \in Seq(STRING)
  PROVE  /\ IsStatic(p) <=> IsStatic(Clean(p))
         /\ HasWild(p) <=> HasWild(Clean(p))
         /\ \A k \in DOMAIN Clean(p) : Clean(p)[k] # Blank
<1>1. \A i \in DOMAIN p : p[i] # Blank => \E k \in DOMAIN Clean(p) : Clean(p)[k] = p[i]
  BY CleanShape DEF Kept
<1>2. \A k \in DOMAIN Clean(p) : \E i \in DOMAIN p : Clean(p)[k] = p[i] /\ p[i] # Blank
  BY CleanShape DEF Kept
<1>3. Blank \notin Params \cup {Wild}
  BY RoutingAssumption
<1>4. IsStatic(p) <=> IsStatic(Clean(p))
  BY <1>1, <1>2, <1>3 DEF IsStatic
<1>5. HasWild(p) <=> HasWild(Clean(p))
  BY <1>1, <1>2, <1>3 DEF HasWild
<1>6. QED
  BY <1>2, <1>4, <1>5

\* A parameter or the wildcard is at one place of a pattern.
LEMMA CleanDistinct ==
  ASSUME NEW p \in Patterns, NEW j \in DOMAIN Clean(p), NEW k \in DOMAIN Clean(p),
         Clean(p)[j] = Clean(p)[k], Clean(p)[j] \in Params \cup {Wild}
  PROVE  j = k
<1>1. p \in Seq(STRING)
  BY RoutingAssumption
<1>2. PICK a \in Kept(p) : Rank(Kept(p), a) = j /\ Clean(p)[j] = p[a]
  BY <1>1, CleanShape
<1>3. PICK b \in Kept(p) : Rank(Kept(p), b) = k /\ Clean(p)[k] = p[b]
  BY <1>1, CleanShape
<1>4. a = b
  BY <1>2, <1>3, RoutingAssumption DEF Kept
<1>5. QED
  BY <1>2, <1>3, <1>4

\* Where no segment at the front or at the back is empty, those are the
\* segments at the front and at the back of the clean path.
LEMMA CleanEnds ==
  ASSUME NEW p \in Seq(STRING), NEW a \in Nat, NEW b \in Nat, a + b <= Len(p),
         \A i \in 1..a : p[i] # Blank,
         \A i \in 0..(b - 1) : p[Len(p) - i] # Blank
  PROVE  /\ Len(Clean(p)) \in Nat /\ Len(Clean(p)) >= a + b
         /\ \A i \in 1..a : Clean(p)[i] = p[i]
         /\ \A i \in 0..(b - 1) : Clean(p)[Len(Clean(p)) - i] = p[Len(p) - i]
<1>1. PICK L \in Nat : L = Len(p) /\ DOMAIN p = 1..L
  BY LenProperties
<1>2. PICK K : K = Kept(p)
  OBVIOUS
<1>3. K \in SUBSET (1..L) /\ IsFiniteSet(K)
  BY <1>1, <1>2, CleanShape
<1>4. PICK n \in Nat : n = Len(Clean(p)) /\ n = Cardinality(K)
  BY <1>2, CleanShape
<1>5. \A i \in 1..L : p[i] # Blank => i \in K
  BY <1>1, <1>2 DEF Kept
<1>6. (1..a) \subseteq K
  BY <1>1, <1>5
<1>7. ((L - b + 1)..L) \subseteq K
  <2>1. ASSUME NEW i \in (L - b + 1)..L PROVE i \in K
    <3>1. L - i \in 0..(b - 1) /\ L - (L - i) = i /\ i \in 1..L
      BY <1>1
    <3>2. p[L - (L - i)] # Blank
      BY <1>1, <3>1
    <3>3. QED
      BY <1>5, <3>1, <3>2
  <2>2. QED
    BY <2>1
<1>8. n >= a + b
  <2>1. PICK A : A = 1..a
    OBVIOUS
  <2>2. PICK B : B = (L - b + 1)..L
    OBVIOUS
  <2>3. IsFiniteSet(A) /\ Cardinality(A) = a
    BY <2>1, FS_Interval
  <2>4. L - b + 1 \in Int /\ L \in Int /\ IsFiniteSet(B) /\ Cardinality(B) = b
    <3>1. PICK c : c = L - b + 1
      OBVIOUS
    <3>2. c \in Int /\ L \in Int
      BY <1>1, <3>1
    <3>3. IsFiniteSet(c..L) /\ Cardinality(c..L) = IF c > L THEN 0 ELSE L - c + 1
      BY <3>2, FS_Interval
    <3>4. QED
      BY <1>1, <2>2, <3>1, <3>2, <3>3
  <2>5. A \cap B = {}
    BY <1>1, <2>1, <2>2
  <2>6. Cardinality(A \cup B) = a + b
    <3>1. Cardinality(A \cap B) = 0
      BY <2>5, FS_EmptySet
    <3>2. Cardinality(A \cup B) = Cardinality(A) + Cardinality(B) - Cardinality(A \cap B)
      BY <2>3, <2>4, FS_Union
    <3>3. QED
      BY <2>3, <2>4, <3>1, <3>2
  <2>7. A \cup B \in SUBSET K
    BY <1>6, <1>7, <2>1, <2>2
  <2>8. QED
    BY <1>3, <1>4, <2>6, <2>7, FS_Subset
<1>9. ASSUME NEW i \in 1..a PROVE Clean(p)[i] = p[i]
  <2>1. {j \in K : j <= i} = 1..i
    <3>1. \A j \in 1..i : j \in 1..a
      OBVIOUS
    <3>2. \A j \in K : j \in Int /\ 1 <= j
      BY <1>1, <1>3
    <3>3. \A j \in K : j <= i <=> j \in 1..i
      BY <3>2
    <3>4. \A j \in 1..i : j \in K
      BY <1>6, <3>1
    <3>5. QED
      BY <3>3, <3>4
  <2>2. Rank(K, i) = i
    <3>1. i \in Nat
      OBVIOUS
    <3>2. Cardinality(1..i) = i
      BY <3>1, FS_Interval
    <3>3. QED
      BY <2>1, <3>2 DEF Rank
  <2>3. i \in K
    BY <1>6
  <2>4. QED
    BY <1>2, <2>2, <2>3, CleanShape
<1>10. ASSUME NEW i \in 0..(b - 1) PROVE Clean(p)[n - i] = p[L - i]
  <2>1. PICK c : c = L - i
    OBVIOUS
  <2>2. c \in 1..L
    BY <1>1, <2>1
  <2>3. PICK U : U = {j \in K : j <= c}
    OBVIOUS
  <2>4. PICK V : V = (c + 1)..L
    OBVIOUS
  <2>5. V \subseteq K /\ U \cap V = {} /\ U \cup V = K
    <3>1. V \subseteq (L - b + 1)..L
      BY <1>1, <2>2, <2>1, <2>4
    <3>2. V \subseteq K
      BY <1>7, <3>1
    <3>3. U \cap V = {}
      BY <1>1, <1>3, <2>2, <2>1, <2>3, <2>4
    <3>4. \A j \in K : j <= c \/ j \in V
      BY <1>1, <1>3, <2>2, <2>1, <2>4
    <3>5. QED
      BY <2>3, <3>2, <3>3, <3>4
  <2>6. IsFiniteSet(U) /\ Cardinality(U) \in Nat
    BY <1>3, <2>3, FS_Subset, FS_CardinalityType
  <2>7. IsFiniteSet(V) /\ Cardinality(V) = i
    <3>1. PICK d : d = c + 1
      OBVIOUS
    <3>2. d \in Int /\ L \in Int
      BY <1>1, <2>2, <3>1
    <3>3. IsFiniteSet(d..L) /\ Cardinality(d..L) = IF d > L THEN 0 ELSE L - d + 1
      BY <3>2, FS_Interval
    <3>4. QED
      BY <1>1, <2>2, <2>1, <2>4, <3>1, <3>3
  <2>8. n = Cardinality(U) + i
    <3>1. Cardinality(U \cap V) = 0
      BY <2>5, FS_EmptySet
    <3>2. Cardinality(U \cup V) = Cardinality(U) + Cardinality(V) - Cardinality(U \cap V)
      BY <2>6, <2>7, FS_Union
    <3>3. Cardinality(U \cup V) = Cardinality(K)
      BY <2>5, Zenon
    <3>4. QED
      BY <1>4, <2>6, <2>7, <3>1, <3>2, <3>3
  <2>9. Rank(K, c) = n - i
    BY <2>3, <2>6, <2>8 DEF Rank
  <2>10. c \in K
    <3>1. c \in (L - b + 1)..L
      BY <1>1, <2>2, <2>1
    <3>2. QED
      BY <1>7, <3>1
  <2>11. QED
    BY <1>2, <2>1, <2>9, <2>10, CleanShape
<1>11. QED
  BY <1>1, <1>4, <1>8, <1>9, <1>10

\* It leaves a path alone that has none.
LEMMA CleanSame ==
  ASSUME NEW p \in Seq(STRING), \A i \in DOMAIN p : p[i] # Blank
  PROVE  Clean(p) = p
<1>1. PICK L \in Nat : L = Len(p) /\ DOMAIN p = 1..L
  BY LenProperties
<1>2. Len(Clean(p)) >= L /\ Len(Clean(p)) \in Nat /\ \A i \in 1..L : Clean(p)[i] = p[i]
  <2>1. L + 0 <= Len(p) /\ 0 \in Nat /\ \A i \in 0..(0 - 1) : p[Len(p) - i] # Blank
    BY <1>1
  <2>2. \A i \in 1..L : p[i] # Blank
    BY <1>1
  <2>3. QED
    <3>1. L \in Nat
      BY <1>1
    <3>2. /\ Len(Clean(p)) \in Nat /\ Len(Clean(p)) >= L + 0
          /\ \A i \in 1..L : Clean(p)[i] = p[i]
      BY <2>1, <2>2, <3>1, CleanEnds
    <3>3. QED
      BY <3>1, <3>2
<1>3. Len(Clean(p)) <= L
  <2>1. L \in Nat
    BY <1>1
  <2>2. IsFiniteSet(1..L) /\ Cardinality(1..L) = L
    BY <2>1, FS_Interval
  <2>3. QED
    BY <1>1, <2>2, CleanShape, FS_Subset
<1>4. Clean(p) \in Seq(STRING)
  <2>1. PICK s \in Seq(STRING \ {Blank}) : s = Clean(p)
    BY CleanShape
  <2>2. s \in Seq(STRING)
    BY SeqMonotonic, ElementOfSeq, LenProperties
  <2>3. QED
    BY <2>1, <2>2
<1>5. QED
  BY <1>1, <1>2, <1>3, <1>4, SeqEqual

\* The assumption on the constants in the form that the proofs use it.
LEMMA RouterConstants ==
  /\ \A p \in Patterns \cup Paths : p \in Seq(STRING)
  /\ \A p \in Paths : ~HasWild(Clean(p)) /\ IsStatic(Clean(p)) /\ IsStatic(p)
  /\ Wild # Blank /\ Wild \notin Params /\ Blank \notin Params
<1>1. \A p \in Patterns \cup Paths : p \in Seq(STRING)
  BY RoutingAssumption
<1>2. ASSUME NEW p \in Paths PROVE IsStatic(p) /\ IsStatic(Clean(p)) /\ ~HasWild(Clean(p))
  <2>1. p \in Seq(STRING) /\ IsStatic(p) /\ ~HasWild(p)
    BY <1>1, RoutingAssumption DEF IsStatic, HasWild
  <2>2. QED
    BY <2>1, CleanLabels
<1>3. QED
  BY <1>1, <1>2, RoutingAssumption

\* The body is the clean pattern, but for a wildcard at its end.
LEMMA BodyShape ==
  ASSUME NEW p \in Seq(STRING)
  PROVE  /\ Len(Body(p)) \in Nat /\ DOMAIN Body(p) = 1..Len(Body(p))
         /\ Open(p) => /\ Len(Clean(p)) = Len(Body(p)) + 1
                       /\ Clean(p)[Len(Clean(p))] = Wild
         /\ ~Open(p) => /\ Len(Clean(p)) = Len(Body(p))
                        /\ Clean(p) = <<>> \/ Clean(p)[Len(Clean(p))] # Wild
         /\ \A i \in DOMAIN Body(p) : Body(p)[i] = Clean(p)[i] /\ Body(p)[i] # Blank
<1>1. PICK c \in Seq(STRING \ {Blank}) : c = Clean(p)
  BY CleanShape
<1>2. PICK n \in Nat : n = Len(c) /\ DOMAIN c = 1..n
  BY <1>1, LenProperties
<1>3. \A i \in 1..n : c[i] # Blank
  BY <1>1, <1>2, ElementOfSeq
<1>4. CASE Open(p)
  <2>1. c # <<>> /\ c[n] = Wild /\ Body(p) = SubSeq(c, 1, n - 1)
    BY <1>1, <1>2, <1>4 DEF Open, Body, Label, Parent
  <2>2. n >= 1
    BY <1>1, <1>2, <2>1
  <2>3. PICK k \in Nat : k = n - 1
    BY <1>2, <2>2
  <2>4. PICK b : b = SubSeq(c, 1, k)
    OBVIOUS
  <2>5. Len(b) = k /\ DOMAIN b = 1..k /\ \A i \in 1..k : b[i] = c[i]
    BY <1>1, <1>2, <2>2, <2>3, <2>4
  <2>6. QED
    BY <1>1, <1>2, <1>3, <1>4, <2>1, <2>2, <2>3, <2>4, <2>5
<1>5. CASE ~Open(p)
  BY <1>1, <1>2, <1>3, <1>5 DEF Open, Body, Label
<1>6. QED
  BY <1>4, <1>5

\* Scanning takes the paths that match, but for a wildcard in the middle.
LEMMA ScanIsMatch ==
  ASSUME NEW p \in Patterns, NEW path \in Paths
  PROVE  ByteScan(p, path) <=> Matches(p, path) /\ ~MidWild(p)
<1>1. PICK c : c = Clean(p)
  OBVIOUS
<1>2. PICK s : s = Clean(path)
  OBVIOUS
<1>3. PICK b : b = Body(p)
  OBVIOUS
<1>4. PICK n \in Nat : n = Len(c) /\ DOMAIN c = 1..n
  BY <1>1, RouterConstants, CleanShape
<1>5. PICK l \in Nat : l = Len(s) /\ DOMAIN s = 1..l
  BY <1>2, RouterConstants, CleanShape
<1>6. PICK k \in Nat : k = Len(b) /\ DOMAIN b = 1..k
  BY <1>3, RouterConstants, BodyShape
<1>7. \A i \in 1..l : s[i] # Blank
  BY <1>2, <1>5, RouterConstants, CleanLabels
<1>8. \A i \in 1..k : b[i] = c[i] /\ b[i] # Blank
  BY <1>1, <1>3, <1>6, RouterConstants, BodyShape
<1>9. Wild \notin Params /\ Wild # Blank
  BY RouterConstants
<1>10. MidWild(p) <=> \E i \in 1..k : b[i] = Wild
  BY <1>3, <1>6 DEF MidWild, HasWild
<1>11. ASSUME ~MidWild(p), Open(p)
       PROVE  ByteScan(p, path) <=> Matches(p, path)
  <2>1. n = k + 1 /\ c[n] = Wild
    BY <1>1, <1>3, <1>4, <1>6, <1>11, RouterConstants, BodyShape
  <2>2. \A i \in DOMAIN c : c[i] = Wild <=> i = n
    BY <1>4, <1>8, <1>10, <1>11, <2>1
  <2>3. HasWild(c)
    BY <1>4, <2>1 DEF HasWild
  <2>4. PICK w : w = CHOOSE i \in DOMAIN c : c[i] = Wild
    OBVIOUS
  <2>5. w = n
    <3>1. n \in DOMAIN c
      BY <1>4, <2>1
    <3>2. QED
      BY <2>2, <2>4, <3>1
  <2>6. Matches(p, path) <=> /\ l >= n - 1 + (n - n) + 0
                             /\ \A i \in 1..(n - 1) : Fits(s[i], c[i])
                             /\ \A i \in 0..(n - n - 1) : Fits(s[l - i], c[n - i])
    BY <1>1, <1>2, <1>4, <1>5, <2>3, <2>4, <2>5 DEF Matches, Covers
  <2>7. Matches(p, path) <=> l >= k /\ \A i \in 1..k : Fits(s[i], c[i])
    BY <2>1, <2>6
  <2>8. ByteScan(p, path) <=> l >= k /\ \A i \in 1..k : Accepts(b[i], s[i])
    BY <1>2, <1>3, <1>5, <1>6, <1>11 DEF ByteScan
  <2>9. ASSUME l >= k, NEW i \in 1..k PROVE Fits(s[i], c[i]) <=> Accepts(b[i], s[i])
    <3>1. s[i] # Blank
      BY <1>5, <1>6, <1>7, <2>9
    <3>2. b[i] # Wild
      BY <1>10, <1>11
    <3>3. QED
      BY <1>8, <3>1, <3>2 DEF Fits, Accepts
  <2>10. QED
    BY <2>7, <2>8, <2>9
<1>12. ASSUME ~MidWild(p), ~Open(p)
       PROVE  ByteScan(p, path) <=> Matches(p, path)
  <2>1. n = k
    BY <1>1, <1>3, <1>4, <1>6, <1>12, RouterConstants, BodyShape
  <2>2. ~HasWild(c)
    BY <1>4, <1>8, <1>10, <1>12, <2>1 DEF HasWild
  <2>3. Matches(p, path) <=> l = n /\ \A i \in 1..n : Fits(s[i], c[i])
    BY <1>1, <1>2, <1>4, <1>5, <2>2 DEF Matches, Covers
  <2>4. ByteScan(p, path) <=> l = k /\ \A i \in 1..k : Accepts(b[i], s[i])
    BY <1>2, <1>3, <1>5, <1>6, <1>12 DEF ByteScan
  <2>5. ASSUME l = k, NEW i \in 1..k PROVE Fits(s[i], c[i]) <=> Accepts(b[i], s[i])
    <3>1. s[i] # Blank
      BY <1>5, <1>6, <1>7, <2>5
    <3>2. b[i] # Wild
      BY <1>10, <1>12
    <3>3. QED
      BY <1>8, <3>1, <3>2 DEF Fits, Accepts
  <2>6. QED
    BY <2>1, <2>3, <2>4, <2>5
<1>13. ByteScan(p, path) => ~MidWild(p)
  BY DEF ByteScan
<1>14. QED
  BY <1>11, <1>12, <1>13

\* What the expression takes matches, and has been in the matches before:
\* where a clean path has another length, no segment is empty to clean.
LEMMA RegexIsMatch ==
  ASSUME NEW p \in Patterns, NEW path \in Paths, Regex(p, path)
  PROVE  Matches(p, path) /\ Touches(p, path)
<1>1. PICK c : c = Clean(p)
  OBVIOUS
<1>2. PICK s : s = Clean(path)
  OBVIOUS
<1>3. PICK n \in Nat : n = Len(c) /\ DOMAIN c = 1..n
  BY <1>1, RouterConstants, CleanShape
<1>4. PICK L \in Nat : L = Len(path) /\ DOMAIN path = 1..L
  BY RouterConstants, LenProperties
<1>5. \A i \in 1..n : c[i] # Blank
  BY <1>1, <1>3, RouterConstants, CleanLabels
<1>6. CASE IsStatic(p)
  <2>1. c = s
    BY <1>1, <1>2, <1>6 DEF Regex
  <2>2. ~HasWild(c)
    BY <1>2, <2>1, RouterConstants
  <2>3. QED
    BY <1>1, <1>2, <2>1, <2>2 DEF Matches, Covers, Fits, Touches
<1>7. ASSUME ~IsStatic(p), ~HasWild(c) PROVE Matches(p, path) /\ Touches(p, path)
  <2>1. L = n /\ \A i \in 1..n : Fits(path[i], c[i])
    BY <1>1, <1>3, <1>4, <1>7 DEF Regex, Covers
  <2>2. \A i \in DOMAIN path : path[i] # Blank
    BY <1>4, <1>5, <2>1 DEF Fits
  <2>3. s = path
    BY <1>2, <2>2, RouterConstants, CleanSame
  <2>4. QED
    BY <1>1, <1>2, <1>3, <1>4, <1>7, <2>1, <2>3 DEF Matches, Covers, Touches
<1>8. ASSUME ~IsStatic(p), HasWild(c) PROVE Matches(p, path) /\ Touches(p, path)
  <2>1. PICK w : w = CHOOSE i \in DOMAIN c : c[i] = Wild
    OBVIOUS
  <2>2. w \in 1..n
    BY <1>3, <1>8, <2>1 DEF HasWild
  <2>3. /\ L >= w - 1 + (n - w) + 1
        /\ \A i \in 1..(w - 1) : Fits(path[i], c[i])
        /\ \A i \in 0..(n - w - 1) : Fits(path[L - i], c[n - i])
    BY <1>1, <1>3, <1>4, <1>8, <2>1 DEF Regex, Covers
  <2>4. PICK a : a = w - 1
    OBVIOUS
  <2>5. PICK b : b = n - w
    OBVIOUS
  <2>6. a \in Nat /\ b \in Nat /\ a + b <= Len(path)
    BY <1>3, <1>4, <2>2, <2>3, <2>4, <2>5
  <2>7. \A i \in 1..a : path[i] # Blank
    <3>1. \A i \in 1..a : i \in 1..(w - 1) /\ i \in 1..n
      BY <2>2, <2>4
    <3>2. QED
      BY <1>5, <2>3, <3>1 DEF Fits
  <2>8. \A i \in 0..(b - 1) : path[Len(path) - i] # Blank
    <3>1. \A i \in 0..(b - 1) : i \in 0..(n - w - 1) /\ n - i \in 1..n
      BY <2>2, <2>5
    <3>2. QED
      BY <1>4, <1>5, <2>3, <3>1 DEF Fits
  <2>9. /\ Len(s) \in Nat /\ Len(s) >= a + b
        /\ \A i \in 1..a : s[i] = path[i]
        /\ \A i \in 0..(b - 1) : s[Len(s) - i] = path[Len(path) - i]
    BY <1>2, <2>6, <2>7, <2>8, RouterConstants, CleanEnds
  <2>10. Len(s) >= w - 1 + (n - w) + 0
    BY <1>3, <2>2, <2>4, <2>5, <2>9
  <2>11. \A i \in 1..(w - 1) : Fits(s[i], c[i])
    BY <2>3, <2>4, <2>9
  <2>12. \A i \in 0..(n - w - 1) : Fits(s[Len(s) - i], c[n - i])
    BY <1>4, <2>3, <2>5, <2>9
  <2>13. Covers(s, c, 0)
    BY <1>3, <1>8, <2>1, <2>10, <2>11, <2>12 DEF Covers
  <2>14. QED
    BY <1>1, <1>2, <1>8, <2>13 DEF Matches, Touches
<1>9. QED
  BY <1>6, <1>7, <1>8

-----------------------------------------------------------------------------
(* Routing: what the four structures hold.                                 *)

(* The converse of the type invariant: no route is missing from the map or *)
(* from the trees (nor, by its definition, from the list).                 *)
NothingMissing ==
  \A m \in Methods : \A i \in RoutesByMethod(m) :
    /\ IsStatic(routes[i].pattern) => routes[i].pattern \in DOMAIN staticRoutes[m]
    /\ IsStored(routes[i].pattern) => Clean(routes[i].pattern) \in DOMAIN routeTrees[m].handler

(* An answer is the one that the present routes give. *)
AnswerStands ==
  answer # NoAnswer =>
    \E method \in Methods, path \in Paths : answer = ServeHTTP(method, path)

RouterSound == RouterTypeOK /\ NothingMissing /\ AnswerStands

\* Routes are numbered from 1 on, so that none is NoRoute.
LEMMA RoutesShape ==
  ASSUME routes \in Seq([pattern : Patterns, method : Methods])
  PROVE  /\ Len(routes) \in Nat /\ DOMAIN routes = 1..Len(routes)
         /\ \A i \in DOMAIN routes : routes[i].pattern \in Patterns /\ routes[i].method \in Methods
         /\ \A m : RoutesByMethod(m) \in SUBSET Nat /\ RoutesByMethod(m) \subseteq DOMAIN routes
         /\ NoRoute \notin DOMAIN routes
<1>1. Len(routes) \in Nat /\ DOMAIN routes = 1..Len(routes)
  BY LenProperties
<1>2. ASSUME NEW i \in DOMAIN routes
      PROVE  routes[i].pattern \in Patterns /\ routes[i].method \in Methods
  <2>1. routes[i] \in [pattern : Patterns, method : Methods]
    BY <1>1, ElementOfSeq
  <2>2. QED
    BY <2>1
<1>3. QED
  BY <1>1, <1>2 DEF RoutesByMethod, NoRoute

\* A tree that keeps the order of its nodes' labels: Tree.Insert.
TreeOK(tree) ==
  /\ \A n \in DOMAIN tree.made : n \in Seq(STRING) \ {<<>>} /\ tree.made[n] \in Nat
  /\ DOMAIN tree.handler \subseteq DOMAIN tree.made
  /\ NoNode \notin DOMAIN tree.handler

\* Each tree of a reachable state is one that can be searched.
LEMMA TreesOK ==
  ASSUME RouterTypeOK, NEW m \in Methods
  PROVE  TreeOK(routeTrees[m])
<1>1. PICK tree : tree = routeTrees[m]
  OBVIOUS
<1>2. /\ \A n \in DOMAIN tree.made : n \in Seq(STRING) \ {<<>>} /\ tree.made[n] \in DOMAIN routes
      /\ DOMAIN tree.handler \subseteq DOMAIN tree.made
      /\ \A n \in DOMAIN tree.handler : /\ tree.handler[n] \in RoutesByMethod(m)
                                        /\ Clean(routes[tree.handler[n]].pattern) = n
  BY <1>1 DEF RouterTypeOK, TreeSound, TreeShape
<1>3. DOMAIN routes \subseteq Nat
  BY RoutesShape DEF RouterTypeOK
<1>4. NoNode \notin DOMAIN tree.handler
  <2>1. ASSUME NEW n \in DOMAIN tree.handler PROVE \A k \in DOMAIN n : n[k] # Blank
    <3>1. PICK p : p = routes[tree.handler[n]].pattern
      OBVIOUS
    <3>2. p \in Seq(STRING) /\ Clean(p) = n
      BY <1>2, <3>1, RoutesShape, RouterConstants DEF RouterTypeOK
    <3>3. QED
      BY <3>2, CleanLabels
  <2>2. 1 \in DOMAIN NoNode /\ NoNode[1] = Blank
    BY DEF NoNode
  <2>3. QED
    BY <2>1, <2>2
<1>5. QED
  BY <1>1, <1>2, <1>3, <1>4 DEF TreeOK

\* The labels on the way to a node take the first segments; only the last
\* may be a wildcard, which ends the search; a parameter with one place has
\* the segment at this place.
WalkedParams(s, at) ==
  /\ DOMAIN at.params = {at.node[i] : i \in {j \in DOMAIN at.node : at.node[j] \in Params}}
  /\ \A i \in DOMAIN at.node :
       /\ at.node[i] \in Params
       /\ \A j \in DOMAIN at.node : at.node[j] = at.node[i] => j = i
       => at.params[at.node[i]] = s[i]

WalkedLabels(s, at) ==
  \A i \in DOMAIN at.node : /\ Accepts(at.node[i], s[i])
                            /\ at.node[i] = Wild => at.over /\ i = Len(at.node)

Walked(s, k, at) ==
  /\ at.over \in BOOLEAN
  /\ ~(at.over /\ at.node = NoNode) =>
       /\ at.node \in Seq(STRING) /\ Len(at.node) <= k
       /\ at.over => at.node # <<>> /\ at.node[Len(at.node)] = Wild
       /\ ~at.over => Len(at.node) = k
       /\ WalkedLabels(s, at)
       /\ WalkedParams(s, at)

\* There is a first one among the children that take a segment.
LEMMA FirstTaker ==
  ASSUME NEW tree, TreeOK(tree), NEW node, NEW segment, Takers(tree, node, segment) # {}
  PROVE  LET takers == Takers(tree, node, segment)
             first == CHOOSE n \in takers : \A m \in takers : tree.made[n] <= tree.made[m]
         IN first \in takers
<1>1. PICK T : T = Takers(tree, node, segment)
  OBVIOUS
<1>2. \A n \in T : tree.made[n] \in Nat
  BY <1>1 DEF Takers, TreeOK
<1>3. PICK S : S = {tree.made[n] : n \in T}
  OBVIOUS
<1>4. S \in SUBSET Nat /\ S # {}
  BY <1>1, <1>2, <1>3
<1>5. PICK a \in S : \A b \in S : a <= b
  BY <1>4, LeastNumber
<1>6. PICK n \in T : tree.made[n] = a
  BY <1>3, <1>5
<1>7. \A m \in T : tree.made[n] <= tree.made[m]
  BY <1>3, <1>5, <1>6
<1>8. QED
  BY <1>1, <1>6, <1>7

\* One level of the search keeps what holds of the way so far.
LEMMA DescendWalks ==
  ASSUME NEW tree, TreeOK(tree), NEW s, NEW k \in Nat, NEW at, Walked(s, k, at)
  PROVE  Walked(s, k + 1, Descend(tree, at, s[k + 1]))
<1>1. PICK T : T = Takers(tree, at.node, s[k + 1])
  OBVIOUS
<1>2. PICK d : d = Descend(tree, at, s[k + 1])
  OBVIOUS
<1>3. CASE at.over
  <2>1. d = at
    BY <1>2, <1>3 DEF Descend
  <2>2. ~(at.node = NoNode) => Len(at.node) <= k + 1
    <3>1. at.node # NoNode => at.node \in Seq(STRING) /\ Len(at.node) <= k
      BY <1>3 DEF Walked
    <3>2. at.node # NoNode => Len(at.node) \in Nat
      BY <3>1, LenProperties
    <3>3. QED
      BY <3>1, <3>2
  <2>3. CASE at.node = NoNode
    BY <1>2, <1>3, <2>1, <2>3 DEF Walked
  <2>4. CASE at.node # NoNode
    BY <1>2, <1>3, <2>1, <2>2, <2>4 DEF Walked
  <2>5. QED
    BY <2>3, <2>4
<1>4. ASSUME ~at.over, T = {} PROVE Walked(s, k + 1, d)
  <2>1. d.over = TRUE
    BY <1>1, <1>2, <1>4 DEF Descend
  <2>2. d.node = NoNode
    BY <1>1, <1>2, <1>4 DEF Descend
  <2>3. QED
    BY <2>1, <2>2 DEF Walked
<1>5. ASSUME ~at.over, T # {} PROVE Walked(s, k + 1, d)
  <2>1. PICK n : n = CHOOSE a \in T : \A b \in T : tree.made[a] <= tree.made[b]
    OBVIOUS
  <2>2. n \in T
    BY <1>1, <1>5, <2>1, FirstTaker
  <2>3. PICK l : l = Label(n)
    OBVIOUS
  <2>4. n \in Seq(STRING) /\ n # <<>> /\ Parent(n) = at.node /\ Accepts(l, s[k + 1])
    BY <1>1, <2>2, <2>3 DEF Takers, TreeOK
  <2>5. at.node \in Seq(STRING) /\ Len(at.node) = k
    BY <1>5 DEF Walked
  <2>6. /\ Len(n) = k + 1 /\ DOMAIN n = 1..(k + 1) /\ n[k + 1] = l
        /\ DOMAIN at.node = 1..k /\ \A i \in 1..k : n[i] = at.node[i]
    <3>1. PICK L \in Nat : L = Len(n) /\ DOMAIN n = 1..L /\ L >= 1
      BY <2>4, EmptySeq, LenProperties
    <3>2. PICK h : h = L - 1
      OBVIOUS
    <3>3. h \in Nat /\ at.node = SubSeq(n, 1, h) /\ L = h + 1
      BY <2>4, <3>1, <3>2 DEF Parent
    <3>4. Len(at.node) = h /\ DOMAIN at.node = 1..h /\ \A i \in 1..h : n[i] = at.node[i]
      BY <2>4, <3>1, <3>3
    <3>5. QED
      BY <2>3, <2>5, <3>1, <3>3, <3>4 DEF Label
  <2>7. /\ d.node = n /\ d.over = (l = Wild)
        /\ d.params = IF l \in Params
                      THEN [p \in DOMAIN at.params \cup {l} |->
                              IF p = l THEN s[k + 1] ELSE at.params[p]]
                      ELSE at.params
    BY <1>1, <1>2, <1>5, <2>1, <2>3 DEF Descend
  <2>8. /\ \A i \in 1..k : Accepts(n[i], s[i]) /\ n[i] # Wild
        /\ DOMAIN at.params = {at.node[i] : i \in {j \in 1..k : at.node[j] \in Params}}
        /\ \A i \in 1..k :
             /\ at.node[i] \in Params
             /\ \A j \in 1..k : at.node[j] = at.node[i] => j = i
             => at.params[at.node[i]] = s[i]
    BY <1>5, <2>6 DEF Walked, WalkedLabels, WalkedParams
  <2>9. \A i \in 1..(k + 1) : i \in 1..k \/ i = k + 1
    OBVIOUS
  <2>10. \A i \in 1..(k + 1) : Accepts(n[i], s[i]) /\ (n[i] = Wild => l = Wild /\ i = k + 1)
    BY <2>4, <2>6, <2>8, <2>9
  <2>11. DOMAIN d.params = {n[i] : i \in {j \in 1..(k + 1) : n[j] \in Params}}
    <3>1. DOMAIN at.params = {n[i] : i \in {j \in 1..k : n[j] \in Params}}
      BY <2>6, <2>8
    <3>2. CASE l \in Params
      <4>1. DOMAIN d.params = DOMAIN at.params \cup {n[k + 1]}
        BY <2>6, <2>7, <3>2
      <4>2. k + 1 \in 1..(k + 1) /\ n[k + 1] \in Params
        BY <2>6, <3>2
      <4>3. \A i \in 1..k : i \in 1..(k + 1)
        OBVIOUS
      <4>4. QED
        BY <2>9, <3>1, <4>1, <4>2, <4>3
    <3>3. CASE l \notin Params
      <4>1. DOMAIN d.params = DOMAIN at.params
        BY <2>7, <3>3
      <4>2. n[k + 1] \notin Params
        BY <2>6, <3>3
      <4>3. \A i \in 1..k : i \in 1..(k + 1)
        OBVIOUS
      <4>4. QED
        BY <2>9, <3>1, <4>1, <4>2, <4>3
    <3>4. QED
      BY <3>2, <3>3
  <2>12. ASSUME NEW i \in 1..(k + 1), n[i] \in Params,
                \A j \in 1..(k + 1) : n[j] = n[i] => j = i
         PROVE  d.params[n[i]] = s[i]
    <3>1. CASE i = k + 1
      <4>1. l \in Params /\ n[i] = l
        BY <2>6, <2>12, <3>1
      <4>2. QED
        BY <2>7, <3>1, <4>1
    <3>2. CASE i \in 1..k
      <4>1. \A j \in 1..k : n[j] = n[i] => j = i
        <5>1. \A j \in 1..k : j \in 1..(k + 1)
          OBVIOUS
        <5>2. QED
          BY <2>12, <5>1
      <4>2. n[i] \in DOMAIN at.params /\ at.params[n[i]] = s[i]
        BY <2>6, <2>8, <2>12, <3>2, <4>1
      <4>3. n[i] # l
        <5>1. k + 1 \in 1..(k + 1) /\ i # k + 1
          BY <3>2
        <5>2. QED
          BY <2>6, <2>12, <5>1
      <4>4. QED
        BY <2>7, <4>2, <4>3
    <3>3. QED
      BY <2>9, <3>1, <3>2
  <2>13. WalkedLabels(s, d)
    BY <2>6, <2>7, <2>10 DEF WalkedLabels
  <2>14. WalkedParams(s, d)
    BY <2>6, <2>7, <2>11, <2>12 DEF WalkedParams
  <2>15. d.over \in BOOLEAN /\ (d.over => d.node # <<>> /\ d.node[Len(d.node)] = Wild)
    BY <2>4, <2>6, <2>7
  <2>16. d.node \in Seq(STRING) /\ Len(d.node) <= k + 1 /\ Len(d.node) = k + 1
    BY <2>4, <2>6, <2>7
  <2>17. QED
    BY <2>13, <2>14, <2>15, <2>16 DEF Walked
<1>6. QED
  BY <1>2, <1>3, <1>4, <1>5 DEF Walked

IsWalk(tree, s, n, f) ==
  f = [k \in 0..n |-> IF k = 0 THEN AtRoot ELSE Descend(tree, f[k - 1], s[k])]

\* The search is defined for paths of any length.
LEMMA WalkExists ==
  ASSUME NEW tree, NEW s, NEW L \in Nat
  PROVE  \E f : IsWalk(tree, s, L, f)
<1>1. PICK Bad : Bad = {n \in Nat : ~\E f : IsWalk(tree, s, n, f)}
  OBVIOUS
<1>2. 0 \notin Bad
  <2>1. PICK f : f = [k \in 0..0 |-> AtRoot]
    OBVIOUS
  <2>2. IsWalk(tree, s, 0, f)
    <3>1. \A k \in 0..0 : k = 0
      OBVIOUS
    <3>2. [k \in 0..0 |-> IF k = 0 THEN AtRoot ELSE Descend(tree, f[k - 1], s[k])]
            = [k \in 0..0 |-> AtRoot]
      BY <3>1
    <3>3. QED
      BY <2>1, <3>2 DEF IsWalk
  <2>3. QED
    BY <1>1, <2>2
<1>3. ASSUME NEW n \in Nat, n \notin Bad PROVE n + 1 \notin Bad
  <2>1. PICK f : IsWalk(tree, s, n, f)
    BY <1>1, <1>3
  <2>2. PICK v : v = Descend(tree, f[n], s[n + 1])
    OBVIOUS
  <2>3. PICK g : g = [k \in 0..(n + 1) |-> IF k = n + 1 THEN v ELSE f[k]]
    OBVIOUS
  <2>4. ASSUME NEW k \in 0..(n + 1)
        PROVE  g[k] = IF k = 0 THEN AtRoot ELSE Descend(tree, g[k - 1], s[k])
    <3>1. CASE k = n + 1
      <4>1. n \in 0..(n + 1) /\ n # n + 1 /\ k - 1 = n /\ k # 0
        BY <3>1
      <4>2. g[n] = f[n] /\ g[k] = v
        BY <2>3, <3>1, <4>1
      <4>3. QED
        BY <2>2, <3>1, <4>1, <4>2
    <3>2. CASE k # n + 1 /\ k # 0
      <4>1. k \in 0..n /\ k - 1 \in 0..(n + 1) /\ k - 1 # n + 1
        BY <3>2
      <4>2. g[k - 1] = f[k - 1] /\ g[k] = f[k]
        BY <2>3, <3>2, <4>1
      <4>3. f[k] = Descend(tree, f[k - 1], s[k])
        BY <2>1, <3>2, <4>1 DEF IsWalk
      <4>4. QED
        BY <3>2, <4>2, <4>3
    <3>3. CASE k = 0
      <4>1. 0 \in 0..n /\ 0 \in 0..(n + 1) /\ 0 # n + 1
        OBVIOUS
      <4>2. f[0] = AtRoot
        BY <2>1, <4>1 DEF IsWalk
      <4>3. g[0] = f[0]
        BY <2>3, <4>1
      <4>4. QED
        BY <3>3, <4>2, <4>3
    <3>4. QED
      BY <3>1, <3>2, <3>3
  <2>5. g = [k \in 0..(n + 1) |-> g[k]]
    BY <2>3
  <2>6. IsWalk(tree, s, n + 1, g)
    BY <2>4, <2>5 DEF IsWalk
  <2>7. QED
    BY <1>1, <2>6
<1>4. Bad = {}
  BY <1>1, <1>2, <1>3, NoneBad
<1>5. QED
  BY <1>1, <1>4

\* Where the search of a path ends.
LEMMA SearchWalks ==
  ASSUME NEW tree, TreeOK(tree), NEW s, NEW L \in Nat, L = Len(s)
  PROVE  Walked(s, L, Search(tree, s))
<1>1. PICK f : f = CHOOSE g : IsWalk(tree, s, L, g)
  OBVIOUS
<1>2. IsWalk(tree, s, L, f)
  BY <1>1, WalkExists
<1>3. Search(tree, s) = f[L]
  BY <1>1 DEF Search, IsWalk
<1>4. PICK Bad : Bad = {n \in Nat : n <= L /\ ~Walked(s, n, f[n])}
  OBVIOUS
<1>5. 0 \notin Bad
  <2>1. 0 \in 0..L
    OBVIOUS
  <2>2. f[0] = AtRoot
    BY <1>2, <2>1 DEF IsWalk
  <2>3. PICK e : e = AtRoot
    OBVIOUS
  <2>4. e.node = <<>> /\ e.over = FALSE /\ e.params = Nothing
    BY <2>3 DEF AtRoot
  <2>5. DOMAIN e.node = {} /\ Len(e.node) = 0 /\ e.node \in Seq(STRING)
    BY <2>4
  <2>6. DOMAIN e.params = {}
    BY <2>4 DEF Nothing
  <2>7. Walked(s, 0, e)
    <3>1. WalkedLabels(s, e)
      BY <2>5 DEF WalkedLabels
    <3>2. {i \in DOMAIN e.node : e.node[i] \in Params} = {}
      BY <2>5
    <3>3. DOMAIN e.params = {e.node[i] : i \in {j \in DOMAIN e.node : e.node[j] \in Params}}
      BY <2>6, <3>2
    <3>4. WalkedParams(s, e)
      BY <2>5, <3>3 DEF WalkedParams
    <3>5. e.over \in BOOLEAN /\ ~e.over
      BY <2>4
    <3>6. e.node \in Seq(STRING) /\ Len(e.node) <= 0 /\ Len(e.node) = 0
      BY <2>5
    <3>7. QED
      BY <3>1, <3>4, <3>5, <3>6 DEF Walked
  <2>8. QED
    BY <1>4, <2>2, <2>3, <2>7
<1>6. ASSUME NEW n \in Nat, n \notin Bad PROVE n + 1 \notin Bad
  <2>1. SUFFICES ASSUME n + 1 <= L PROVE Walked(s, n + 1, f[n + 1])
    BY <1>4
  <2>2. Walked(s, n, f[n])
    BY <1>4, <1>6, <2>1
  <2>3. n + 1 \in 0..L /\ n + 1 # 0 /\ n + 1 - 1 = n
    BY <2>1
  <2>4. f[n + 1] = Descend(tree, f[n], s[n + 1])
    BY <1>2, <2>3 DEF IsWalk
  <2>5. QED
    BY <2>2, <2>4, DescendWalks
<1>7. Bad = {}
  BY <1>4, <1>5, <1>6, NoneBad
<1>8. QED
  BY <1>3, <1>4, <1>7

-----------------------------------------------------------------------------
(* Routing: what each of the four structures finds.                        *)

\* What an answer says of the route it names.
Fitting(m, path, found) ==
  /\ found.id \in RoutesByMethod(m)
  /\ ByteScan(routes[found.id].pattern, path)

Valued(path, found, wild) ==
  LET labels == Clean(routes[found.id].pattern)
      segments == Clean(path)
      places == {i \in DOMAIN labels : labels[i] \in Params}
  IN /\ DOMAIN found.params = {labels[i] : i \in places} \cup {w \in {Wild} : wild}
     /\ \A i \in places : found.params[labels[i]] = segments[i]
     /\ wild => found.params[Wild] = SubSeq(segments, Len(labels), Len(segments))

\* A route whose clean pattern is the clean path is static and matches it.
LEMMA SameFits ==
  ASSUME NEW p \in Patterns, NEW path \in Paths, Clean(p) = Clean(path)
  PROVE  ByteScan(p, path) /\ IsStatic(p)
<1>1. PICK c : c = Clean(p)
  OBVIOUS
<1>2. IsStatic(c) /\ ~HasWild(c)
  BY <1>1, RouterConstants
<1>3. IsStatic(p)
  BY <1>1, <1>2, RouterConstants, CleanLabels
<1>4. Covers(c, c, 0)
  BY <1>2 DEF Covers, Fits
<1>5. Matches(p, path)
  BY <1>1, <1>4 DEF Matches
<1>6. ~MidWild(p)
  <2>1. PICK n \in Nat : n = Len(c) /\ DOMAIN c = 1..n
    BY <1>1, RouterConstants, CleanShape
  <2>2. PICK k \in Nat : k = Len(Body(p)) /\ DOMAIN Body(p) = 1..k
    BY RouterConstants, BodyShape
  <2>3. k <= n /\ \A i \in 1..k : Body(p)[i] = c[i]
    BY <1>1, <2>1, <2>2, RouterConstants, BodyShape
  <2>4. \A i \in 1..k : c[i] # Wild
    BY <1>2, <2>1, <2>3 DEF HasWild
  <2>5. QED
    BY <2>2, <2>3, <2>4 DEF MidWild, HasWild
<1>7. QED
  BY <1>3, <1>5, <1>6, ScanIsMatch

\* It has no parameters, so that none have to be given.
LEMMA SameValued ==
  ASSUME NEW path \in Paths, NEW found, Clean(routes[found.id].pattern) = Clean(path),
         found.params = Nothing
  PROVE  Valued(path, found, FALSE)
<1>1. PICK c : c = Clean(path)
  OBVIOUS
<1>2. {i \in DOMAIN c : c[i] \in Params} = {}
  BY <1>1, RouterConstants DEF IsStatic
<1>3. DOMAIN found.params = {}
  BY DEF Nothing
<1>4. QED
  BY <1>1, <1>2, <1>3 DEF Valued

\* What the map of static patterns finds.
LEMMA MapFinds ==
  ASSUME RouterTypeOK, NothingMissing, NEW m \in Methods, NEW path \in Paths,
         NEW found, found = FromMap(m, path)
  PROVE  /\ found.id # NoRoute =>
              /\ Fitting(m, path, found) /\ Valued(path, found, FALSE)
              /\ IsStatic(routes[found.id].pattern)
         /\ \A i \in RoutesByMethod(m) :
              IsStatic(routes[i].pattern) /\ routes[i].pattern = path => found.id # NoRoute
<1>1. PICK map : map = staticRoutes[m]
  OBVIOUS
<1>2. /\ found.params = Nothing
      /\ found.id = IF path \in DOMAIN map THEN map[path] ELSE NoRoute
  BY <1>1 DEF FromMap
<1>3. path \in DOMAIN map => /\ map[path] \in RoutesByMethod(m)
                             /\ routes[map[path]].pattern = path
  BY <1>1 DEF RouterTypeOK, MapSound
<1>4. ASSUME found.id # NoRoute
      PROVE  /\ Fitting(m, path, found) /\ Valued(path, found, FALSE)
             /\ IsStatic(routes[found.id].pattern)
  <2>1. /\ found.id \in RoutesByMethod(m) /\ found.id \in DOMAIN routes
        /\ routes[found.id].pattern = path
    BY <1>2, <1>3, <1>4, RoutesShape DEF RouterTypeOK
  <2>2. routes[found.id].pattern \in Patterns
    BY <2>1, RoutesShape DEF RouterTypeOK
  <2>3. QED
    BY <1>2, <2>1, <2>2, SameFits, SameValued DEF Fitting
<1>5. ASSUME NEW i \in RoutesByMethod(m), IsStatic(routes[i].pattern), routes[i].pattern = path
      PROVE  found.id # NoRoute
  <2>1. path \in DOMAIN map
    BY <1>1, <1>5 DEF NothingMissing
  <2>2. QED
    BY <1>2, <1>3, <2>1, RoutesShape DEF RouterTypeOK
<1>6. QED
  BY <1>4, <1>5

\* What the search for static routes finds.
LEMMA TreeFinds ==
  ASSUME RouterTypeOK, NothingMissing, NEW m \in Methods, NEW path \in Paths,
         NEW found, found = FromTree(m, path)
  PROVE  /\ found.id # NoRoute =>
              /\ Fitting(m, path, found) /\ Valued(path, found, FALSE)
              /\ IsStatic(routes[found.id].pattern)
         /\ \A i \in RoutesByMethod(m) :
              IsStored(routes[i].pattern) /\ Clean(routes[i].pattern) = Clean(path)
                => found.id # NoRoute
<1>1. PICK handler : handler = routeTrees[m].handler
  OBVIOUS
<1>2. PICK node : node = Clean(path)
  OBVIOUS
<1>3. /\ found.params = Nothing
      /\ found.id = IF node \in DOMAIN handler THEN handler[node] ELSE NoRoute
  <2>1. IsStatic(node)
    BY <1>2, RouterConstants
  <2>2. QED
    BY <1>1, <1>2, <2>1 DEF FromTree, FindStatic, HandlerAt
<1>4. node \in DOMAIN handler => /\ handler[node] \in RoutesByMethod(m)
                                 /\ Clean(routes[handler[node]].pattern) = node
  BY <1>1 DEF RouterTypeOK, TreeSound
<1>5. ASSUME found.id # NoRoute
      PROVE  /\ Fitting(m, path, found) /\ Valued(path, found, FALSE)
             /\ IsStatic(routes[found.id].pattern)
  <2>1. /\ found.id \in RoutesByMethod(m) /\ found.id \in DOMAIN routes
        /\ Clean(routes[found.id].pattern) = Clean(path)
    BY <1>2, <1>3, <1>4, <1>5, RoutesShape DEF RouterTypeOK
  <2>2. routes[found.id].pattern \in Patterns
    BY <2>1, RoutesShape DEF RouterTypeOK
  <2>3. QED
    BY <1>3, <2>1, <2>2, SameFits, SameValued DEF Fitting
<1>6. ASSUME NEW i \in RoutesByMethod(m), IsStored(routes[i].pattern),
             Clean(routes[i].pattern) = Clean(path)
      PROVE  found.id # NoRoute
  <2>1. node \in DOMAIN handler
    BY <1>1, <1>2, <1>6 DEF NothingMissing
  <2>2. QED
    BY <1>3, <1>4, <2>1, RoutesShape DEF RouterTypeOK
<1>7. QED
  BY <1>5, <1>6

\* What the search finds: its nodes' labels have taken the segments.
LEMMA SearchFinds ==
  ASSUME RouterTypeOK, NEW m \in Methods, NEW path \in Paths,
         NEW found, found = FindBytes(routeTrees[m], path)
  PROVE  found.id # NoRoute => Fitting(m, path, found) /\ Valued(path, found, FALSE)
<1>1. SUFFICES ASSUME found.id # NoRoute
               PROVE  Fitting(m, path, found) /\ Valued(path, found, FALSE)
  OBVIOUS
<1>2. PICK tree : tree = routeTrees[m]
  OBVIOUS
<1>3. PICK s : s = Clean(path)
  OBVIOUS
<1>4. PICK l \in Nat : l = Len(s) /\ DOMAIN s = 1..l
  BY <1>3, RouterConstants, CleanShape
<1>5. PICK e : e = Search(tree, s)
  OBVIOUS
<1>6. TreeOK(tree)
  BY <1>2, TreesOK
<1>7. Walked(s, l, e)
  BY <1>4, <1>5, <1>6, SearchWalks
<1>8. PICK n : n = e.node
  OBVIOUS
<1>9. /\ found.params = e.params /\ n \in DOMAIN tree.handler /\ n # NoNode
      /\ found.id = tree.handler[n]
  BY <1>1, <1>2, <1>3, <1>5, <1>6, <1>8 DEF FindBytes, HandlerAt, TreeOK
<1>10. /\ found.id \in RoutesByMethod(m) /\ found.id \in DOMAIN routes
       /\ Clean(routes[found.id].pattern) = n
  BY <1>2, <1>9, RoutesShape DEF RouterTypeOK, TreeSound
<1>11. PICK p \in Patterns : p = routes[found.id].pattern
  BY <1>10, RoutesShape DEF RouterTypeOK
<1>12. PICK k \in Nat : k = Len(n) /\ DOMAIN n = 1..k
  BY <1>10, <1>11, RouterConstants, CleanShape
<1>13. /\ e.over \in BOOLEAN /\ k <= l
       /\ e.over => n # <<>> /\ n[k] = Wild
       /\ ~e.over => k = l
       /\ WalkedLabels(s, e) /\ WalkedParams(s, e)
  BY <1>7, <1>8, <1>9, <1>12 DEF Walked
<1>14. \A i \in 1..k : Accepts(n[i], s[i]) /\ (n[i] = Wild => e.over /\ i = k)
  BY <1>8, <1>12, <1>13 DEF WalkedLabels
<1>15. Clean(p) = n
  BY <1>10, <1>11
<1>16. \A i, j \in 1..k : n[i] \in Params \cup {Wild} /\ n[j] = n[i] => j = i
  BY <1>12, <1>15, CleanDistinct
<1>17. PICK b : b = Body(p)
  OBVIOUS
<1>18. PICK h \in Nat : h = Len(b) /\ DOMAIN b = 1..h
  BY <1>17, RouterConstants, BodyShape
<1>19. /\ Open(p) => k = h + 1 /\ n[k] = Wild
       /\ ~Open(p) => k = h /\ (n = <<>> \/ n[k] # Wild)
       /\ \A i \in 1..h : b[i] = n[i]
  BY <1>12, <1>15, <1>17, <1>18, RouterConstants, BodyShape
<1>20. \A i \in 1..h : i \in 1..k /\ b[i] # Wild
  <2>1. ASSUME NEW i \in 1..h PROVE i \in 1..k /\ b[i] # Wild
    <3>1. CASE Open(p)
      BY <1>14, <1>19, <3>1
    <3>2. CASE ~Open(p)
      <4>1. n # <<>>
        BY <1>12, <1>19, <3>2
      <4>2. QED
        BY <1>14, <1>19, <3>2, <4>1
    <3>3. QED
      BY <3>1, <3>2
  <2>2. QED
    BY <2>1
<1>21. ByteScan(p, path)
  <2>1. ~MidWild(p)
    BY <1>17, <1>18, <1>20 DEF MidWild, HasWild
  <2>2. IF Open(p) THEN l >= h ELSE l = h
    <3>1. CASE Open(p)
      BY <1>13, <1>19, <3>1
    <3>2. CASE ~Open(p)
      BY <1>13, <1>19, <3>2
    <3>3. QED
      BY <3>1, <3>2
  <2>3. \A i \in 1..h : Accepts(b[i], s[i])
    BY <1>14, <1>19, <1>20
  <2>4. QED
    BY <1>3, <1>4, <1>17, <1>18, <2>1, <2>2, <2>3 DEF ByteScan
<1>22. Fitting(m, path, found)
  BY <1>10, <1>11, <1>21 DEF Fitting
<1>23. Valued(path, found, FALSE)
  <2>1. DOMAIN found.params = {n[i] : i \in {j \in DOMAIN n : n[j] \in Params}}
    BY <1>8, <1>9, <1>13 DEF WalkedParams
  <2>2. ASSUME NEW i \in DOMAIN n, n[i] \in Params PROVE found.params[n[i]] = s[i]
    <3>1. \A j \in DOMAIN n : n[j] = n[i] => j = i
      BY <1>12, <1>16, <2>2
    <3>2. QED
      BY <1>8, <1>9, <1>13, <2>2, <3>1 DEF WalkedParams
  <2>3. QED
    BY <1>3, <1>10, <2>1, <2>2 DEF Valued
<1>24. QED
  BY <1>22, <1>23

\* The values that are taken from the matches of a route.
LEMMA ScanValued ==
  ASSUME NEW path \in Paths, NEW found, routes[found.id].pattern \in Patterns,
         found.params = ParamValues(routes[found.id].pattern, path)
  PROVE  Valued(path, found, NamesWild(routes[found.id].pattern))
<1>1. PICK p \in Patterns : p = routes[found.id].pattern
  OBVIOUS
<1>2. PICK n : n = Clean(p)
  OBVIOUS
<1>3. PICK k \in Nat : k = Len(n) /\ DOMAIN n = 1..k
  BY <1>2, RouterConstants, CleanShape
<1>4. PICK b : b = Body(p)
  OBVIOUS
<1>5. PICK h \in Nat : h = Len(b) /\ DOMAIN b = 1..h
  BY <1>4, RouterConstants, BodyShape
<1>6. PICK s : s = Clean(path)
  OBVIOUS
<1>7. /\ Open(p) => k = h + 1 /\ n[k] = Wild
      /\ ~Open(p) => k = h
      /\ \A i \in 1..h : b[i] = n[i]
  BY <1>2, <1>3, <1>4, <1>5, RouterConstants, BodyShape
<1>8. PICK P : P = {i \in DOMAIN b : b[i] \in Params}
  OBVIOUS
<1>9. P = {i \in DOMAIN n : n[i] \in Params}
  <2>1. Wild \notin Params
    BY RouterConstants
  <2>2. CASE Open(p)
    <3>1. \A i \in 1..k : i \in 1..h \/ i = k
      BY <1>7, <2>2
    <3>2. \A i \in 1..h : i \in 1..k
      BY <1>7, <2>2
    <3>3. QED
      BY <1>3, <1>5, <1>7, <1>8, <2>1, <2>2, <3>1, <3>2
  <2>3. CASE ~Open(p)
    BY <1>3, <1>5, <1>7, <1>8, <2>3
  <2>4. QED
    BY <2>2, <2>3
<1>10. \A i \in P : b[i] = n[i] /\ i \in DOMAIN n /\ n[i] \in Params
  BY <1>5, <1>7, <1>8, <1>9
<1>11. \A i, j \in P : b[i] = b[j] => i = j
  BY <1>2, <1>10, CleanDistinct
<1>12. Wild \notin {b[i] : i \in P}
  BY <1>8, RouterConstants
<1>13. PICK W : W = {w \in {Wild} : NamesWild(p)}
  OBVIOUS
<1>14. found.params = [a \in {b[i] : i \in P} \cup W |->
                         IF a = Wild THEN SubSeq(s, h + 1, Len(s))
                         ELSE s[CHOOSE i \in P : b[i] = a]]
  BY <1>1, <1>4, <1>5, <1>6, <1>8, <1>13 DEF ParamValues
<1>15. DOMAIN found.params = {n[i] : i \in P} \cup W
  BY <1>10, <1>14
<1>16. ASSUME NEW i \in P PROVE found.params[n[i]] = s[i]
  <2>1. (CHOOSE j \in P : b[j] = b[i]) = i
    BY <1>11
  <2>2. b[i] \in {b[j] : j \in P} \cup W /\ b[i] # Wild
    BY <1>12
  <2>3. found.params[b[i]] = s[CHOOSE j \in P : b[j] = b[i]]
    BY <1>14, <2>2
  <2>4. QED
    BY <1>10, <2>1, <2>3
<1>17. NamesWild(p) => found.params[Wild] = SubSeq(s, k, Len(s))
  <2>1. SUFFICES ASSUME NamesWild(p) PROVE found.params[Wild] = SubSeq(s, k, Len(s))
    OBVIOUS
  <2>2. Wild \in W
    BY <1>13, <2>1
  <2>3. k = h + 1
    BY <1>7, <2>1 DEF NamesWild
  <2>4. QED
    BY <1>14, <2>2, <2>3
<1>18. QED
  BY <1>1, <1>2, <1>3, <1>6, <1>9, <1>13, <1>15, <1>16, <1>17 DEF Valued

\* The list finds what scanning takes: the expressions, which are tried as
\* long as no route has touched the matches, take nothing in addition.
LEMMA ListFinds ==
  ASSUME RouterTypeOK, NEW m \in Methods, NEW path \in Paths,
         NEW found, found = FromList(m, path)
  PROVE  /\ found.id # NoRoute =>
              /\ Fitting(m, path, found)
              /\ Valued(path, found, NamesWild(routes[found.id].pattern))
         /\ \A i \in RoutesByMethod(m) : ByteScan(routes[i].pattern, path) => found.id # NoRoute
<1>1. PICK list : list = RoutesByMethod(m)
  OBVIOUS
<1>2. PICK hits : hits = {i \in list :
                 \/ ByteScan(routes[i].pattern, path)
                 \/ /\ \A j \in list : j <= i => ~Touches(routes[j].pattern, path)
                    /\ Regex(routes[i].pattern, path)}
  OBVIOUS
<1>3. list \in SUBSET Nat /\ list \subseteq DOMAIN routes /\ NoRoute \notin list
  BY <1>1, RoutesShape DEF RouterTypeOK
<1>4. \A i \in list : routes[i].pattern \in Patterns
  BY <1>3, RoutesShape DEF RouterTypeOK
<1>5. ASSUME NEW i \in hits PROVE i \in list /\ ByteScan(routes[i].pattern, path)
  <2>1. i \in list /\ i <= i
    BY <1>2, <1>3
  <2>2. CASE ByteScan(routes[i].pattern, path)
    BY <2>1, <2>2
  <2>3. CASE ~Touches(routes[i].pattern, path) /\ Regex(routes[i].pattern, path)
    BY <1>4, <2>1, <2>3, RegexIsMatch
  <2>4. QED
    BY <1>2, <2>1, <2>2, <2>3
<1>6. CASE hits = {}
  <2>1. found.id = NoRoute
    BY <1>1, <1>2, <1>6 DEF FromList
  <2>2. \A i \in list : ~ByteScan(routes[i].pattern, path)
    BY <1>2, <1>6
  <2>3. QED
    BY <1>1, <2>1, <2>2
<1>7. CASE hits # {}
  <2>1. PICK least : least = Min(hits)
    OBVIOUS
  <2>2. hits \in SUBSET Nat
    BY <1>3, <1>5
  <2>3. least \in hits
    BY <1>7, <2>1, <2>2, MinIsLeast
  <2>4. found.id = least /\ found.params = ParamValues(routes[least].pattern, path)
    BY <1>1, <1>2, <1>7, <2>1 DEF FromList
  <2>5. found.id \in list /\ routes[found.id].pattern \in Patterns
    BY <1>4, <1>5, <2>3, <2>4
  <2>6. Fitting(m, path, found)
    BY <1>1, <1>5, <2>3, <2>4 DEF Fitting
  <2>7. Valued(path, found, NamesWild(routes[found.id].pattern))
    BY <2>4, <2>5, ScanValued
  <2>8. QED
    BY <1>3, <2>5, <2>6, <2>7
<1>8. QED
  BY <1>6, <1>7

\* An answer is of the first structure that finds a route.
LEMMA ServeShape ==
  ASSUME NEW m, NEW path, NEW finds, finds = Finds(m, path),
         NEW a, a = ServeHTTP(m, path)
  PROVE  /\ a.method = m /\ a.path = path
         /\ a.status = 200 \/ a.status = 404 \/ a.status = 405
         /\ (\E k \in 1..4 : finds[k].id # NoRoute) => a.status = 200
         /\ a.status = 200 =>
              \E k \in 1..4 : /\ finds[k].id # NoRoute
                              /\ a.id = finds[k].id /\ a.params = finds[k].params
                              /\ \A j \in 1..4 : j < k => finds[j].id = NoRoute
         /\ a.status = 405 => a.allow = AllowedMethods(m, path)
         /\ a.status = 404 => AllowedMethods(m, path) = {}
<1>1. PICK found : found = {k \in 1..4 : finds[k].id # NoRoute}
  OBVIOUS
<1>2. PICK allowed : allowed = AllowedMethods(m, path)
  OBVIOUS
<1>3. CASE found # {}
  <2>1. PICK k : k = Min(found)
    OBVIOUS
  <2>2. found \in SUBSET Nat
    BY <1>1
  <2>3. k \in found /\ \A j \in found : k <= j
    BY <1>3, <2>1, <2>2, MinIsLeast
  <2>4. a = [method |-> m, path |-> path, status |-> 200, id |-> finds[k].id,
             params |-> finds[k].params, allow |-> {}]
    BY <1>1, <1>3, <2>1 DEF ServeHTTP
  <2>5. a.method = m /\ a.path = path /\ a.status = 200 /\ a.id = finds[k].id /\ a.params = finds[k].params
    BY <2>4
  <2>6. \A j \in 1..4 : j < k => finds[j].id = NoRoute
    BY <1>1, <2>3
  <2>7. k \in 1..4 /\ finds[k].id # NoRoute
    BY <1>1, <2>3
  <2>8. QED
    BY <2>5, <2>6, <2>7
<1>4. CASE found = {} /\ allowed # {}
  <2>1. /\ a.method = m /\ a.path = path /\ a.status = 405 /\ a.allow = allowed
    BY <1>1, <1>2, <1>4 DEF ServeHTTP
  <2>2. QED
    BY <1>1, <1>2, <1>4, <2>1
<1>5. CASE found = {} /\ allowed = {}
  <2>1. /\ a.method = m /\ a.path = path /\ a.status = 404
    BY <1>1, <1>2, <1>5 DEF ServeHTTP
  <2>2. QED
    BY <1>1, <1>2, <1>5, <2>1
<1>6. QED
  BY <1>3, <1>4, <1>5

\* Whether the answer has a parameter for the wildcard of its route.
WildGiven(m, path, a) == NamesWild(routes[a.id].pattern) /\ LeftToList(m, path)

\* A request is served just when a route of its method matches that has no
\* wildcard in the middle.
LEMMA ServedIsMatch ==
  ASSUME RouterTypeOK, NothingMissing, NEW m \in Methods, NEW path \in Paths,
         NEW a, a = ServeHTTP(m, path)
  PROVE  /\ a.status = 200 => /\ Fitting(m, path, a)
                              /\ Valued(path, a, WildGiven(m, path, a))
                              /\ (\E i \in RoutesByMethod(m) :
                                    LET pattern == routes[i].pattern
                                    IN /\ IsStatic(pattern) /\ Clean(pattern) = Clean(path)
                                       /\ pattern = path \/ IsStored(pattern))
                                 => IsStatic(routes[a.id].pattern)
         /\ \A i \in RoutesByMethod(m) : ByteScan(routes[i].pattern, path) => a.status = 200
<1>1. PICK f1 : f1 = FromMap(m, path)
  OBVIOUS
<1>2. PICK f2 : f2 = FromTree(m, path)
  OBVIOUS
<1>3. PICK f3 : f3 = FindBytes(routeTrees[m], path)
  OBVIOUS
<1>4. PICK f4 : f4 = FromList(m, path)
  OBVIOUS
<1>5. PICK finds : finds = Finds(m, path)
  OBVIOUS
<1>6. finds = <<f1, f2, f3, f4>>
  BY <1>1, <1>2, <1>3, <1>4, <1>5 DEF Finds
<1>7. finds[1] = f1 /\ finds[2] = f2 /\ finds[3] = f3 /\ finds[4] = f4
  BY <1>6
<1>8. ASSUME NEW k \in 1..4, finds[k].id # NoRoute, NEW wild \in BOOLEAN,
             wild <=> k = 4 /\ NamesWild(routes[finds[k].id].pattern)
      PROVE  Fitting(m, path, finds[k]) /\ Valued(path, finds[k], wild)
  <2>1. k = 1 \/ k = 2 \/ k = 3 \/ k = 4
    OBVIOUS
  <2>2. CASE k = 1
    <3>1. wild = FALSE
      BY <1>8, <2>2
    <3>2. f1.id # NoRoute /\ finds[k] = f1
      BY <1>7, <1>8, <2>2
    <3>3. QED
      BY <1>1, <3>1, <3>2, MapFinds
  <2>3. CASE k = 2
    <3>1. wild = FALSE
      BY <1>8, <2>3
    <3>2. f2.id # NoRoute /\ finds[k] = f2
      BY <1>7, <1>8, <2>3
    <3>3. QED
      BY <1>2, <3>1, <3>2, TreeFinds
  <2>4. CASE k = 3
    <3>1. wild = FALSE
      BY <1>8, <2>4
    <3>2. f3.id # NoRoute /\ finds[k] = f3
      BY <1>7, <1>8, <2>4
    <3>3. QED
      BY <1>3, <3>1, <3>2, SearchFinds
  <2>5. CASE k = 4
    <3>1. wild <=> NamesWild(routes[f4.id].pattern)
      BY <1>7, <1>8, <2>5
    <3>2. f4.id # NoRoute /\ finds[k] = f4
      BY <1>7, <1>8, <2>5
    <3>3. Fitting(m, path, f4) /\ Valued(path, f4, NamesWild(routes[f4.id].pattern))
      BY <1>4, <3>2, ListFinds
    <3>4. Valued(path, f4, wild)
      BY <3>1, <3>3 DEF Valued
    <3>5. QED
      BY <3>2, <3>3, <3>4
  <2>6. QED
    BY <2>1, <2>2, <2>3, <2>4, <2>5
<1>9. ASSUME NEW i \in RoutesByMethod(m), ByteScan(routes[i].pattern, path)
      PROVE  a.status = 200
  <2>1. f4.id # NoRoute
    BY <1>4, <1>9, ListFinds
  <2>2. QED
    BY <1>5, <1>7, <2>1, ServeShape
<1>10. ASSUME a.status = 200
       PROVE  /\ Fitting(m, path, a) /\ Valued(path, a, WildGiven(m, path, a))
              /\ (\E i \in RoutesByMethod(m) :
                    LET pattern == routes[i].pattern
                    IN /\ IsStatic(pattern) /\ Clean(pattern) = Clean(path)
                       /\ pattern = path \/ IsStored(pattern))
                 => IsStatic(routes[a.id].pattern)
  <2>1. PICK k \in 1..4 : /\ finds[k].id # NoRoute
                          /\ a.id = finds[k].id /\ a.params = finds[k].params
                          /\ \A j \in 1..4 : j < k => finds[j].id = NoRoute
    BY <1>5, <1>10, ServeShape
  <2>2. Fitting(m, path, a) /\ Valued(path, a, WildGiven(m, path, a))
    <3>1. LeftToList(m, path) <=> k = 4
      BY <1>5, <2>1 DEF LeftToList
    <3>2. PICK wild \in BOOLEAN : wild = WildGiven(m, path, a)
      BY DEF WildGiven, LeftToList, NamesWild, Open, HasParams
    <3>3. wild <=> k = 4 /\ NamesWild(routes[finds[k].id].pattern)
      BY <2>1, <3>1, <3>2 DEF WildGiven
    <3>4. Fitting(m, path, finds[k]) /\ Valued(path, finds[k], wild)
      BY <1>8, <2>1, <3>3
    <3>5. Fitting(m, path, a) /\ Valued(path, a, wild)
      BY <2>1, <3>4 DEF Fitting, Valued
    <3>6. QED
      BY <3>2, <3>5
  <2>3. ASSUME NEW i \in RoutesByMethod(m), IsStatic(routes[i].pattern),
               Clean(routes[i].pattern) = Clean(path),
               routes[i].pattern = path \/ IsStored(routes[i].pattern)
        PROVE  IsStatic(routes[a.id].pattern)
    <3>1. f1.id # NoRoute \/ f2.id # NoRoute
      <4>1. CASE routes[i].pattern = path
        BY <1>1, <2>3, <4>1, MapFinds
      <4>2. CASE IsStored(routes[i].pattern)
        BY <1>2, <2>3, <4>2, TreeFinds
      <4>3. QED
        BY <2>3, <4>1, <4>2
    <3>2. k = 1 \/ k = 2
      BY <1>7, <2>1, <3>1
    <3>3. CASE k = 1
      BY <1>1, <1>7, <2>1, <3>3, MapFinds
    <3>4. CASE k = 2
      BY <1>2, <1>7, <2>1, <3>4, TreeFinds
    <3>5. QED
      BY <3>2, <3>3, <3>4
  <2>4. QED
    BY <2>2, <2>3
<1>11. QED
  BY <1>9, <1>10

-----------------------------------------------------------------------------
(* Routing: a registration keeps the trees and the map.                    *)

\* The nodes of one route are one below the other.
LEMMA PrefixShape ==
  ASSUME NEW c \in Seq(STRING)
  PROVE  /\ \A n \in Prefixes(c) : /\ n \in Seq(STRING) \ {<<>>}
                                   /\ Parent(n) \in Prefixes(c) \cup {<<>>}
         /\ \A n, o \in Prefixes(c) : Parent(n) = Parent(o) => n = o
         /\ c # <<>> => c \in Prefixes(c)
<1>1. PICK L \in Nat : L = Len(c) /\ DOMAIN c = 1..L
  BY LenProperties
<1>2. ASSUME NEW k \in 0..L
      PROVE  /\ SubSeq(c, 1, k) \in Seq(STRING) /\ Len(SubSeq(c, 1, k)) = k
             /\ \A i \in 1..k : SubSeq(c, 1, k)[i] = c[i]
  BY <1>1
<1>3. ASSUME NEW k \in 1..L
      PROVE  Parent(SubSeq(c, 1, k)) = SubSeq(c, 1, k - 1)
  <2>1. PICK a : a = SubSeq(c, 1, k)
    OBVIOUS
  <2>2. PICK h : h = k - 1
    OBVIOUS
  <2>3. h \in Nat /\ h \in 0..L /\ k \in 0..L
    BY <1>1, <2>2
  <2>4. a \in Seq(STRING) /\ Len(a) = k /\ \A i \in 1..k : a[i] = c[i]
    BY <1>2, <2>1, <2>3
  <2>5. PICK b : b = SubSeq(a, 1, h)
    OBVIOUS
  <2>6. b \in Seq(STRING) /\ Len(b) = h /\ \A i \in 1..h : b[i] = a[i]
    BY <2>2, <2>3, <2>4, <2>5
  <2>7. PICK d : d = SubSeq(c, 1, h)
    OBVIOUS
  <2>8. d \in Seq(STRING) /\ Len(d) = h /\ \A i \in 1..h : d[i] = c[i]
    BY <1>2, <2>3, <2>7
  <2>9. \A i \in 1..h : b[i] = d[i]
    BY <2>2, <2>4, <2>6, <2>8
  <2>10. b = d
    BY <2>6, <2>8, <2>9, SeqEqual
  <2>11. QED
    BY <2>1, <2>2, <2>4, <2>5, <2>7, <2>10 DEF Parent
<1>4. ASSUME NEW n \in Prefixes(c)
      PROVE  n \in Seq(STRING) \ {<<>>} /\ Parent(n) \in Prefixes(c) \cup {<<>>}
  <2>1. PICK k \in 1..L : n = SubSeq(c, 1, k)
    BY <1>1 DEF Prefixes
  <2>2. k \in 0..L /\ k # 0
    BY <2>1
  <2>3. n \in Seq(STRING) /\ n # <<>>
    BY <1>2, <2>1, <2>2
  <2>4. Parent(n) = SubSeq(c, 1, k - 1)
    BY <1>3, <2>1
  <2>5. CASE k = 1
    <3>1. 0 \in 0..L /\ k - 1 = 0
      BY <2>5
    <3>2. SubSeq(c, 1, 0) \in Seq(STRING) /\ Len(SubSeq(c, 1, 0)) = 0
      BY <1>2, <3>1
    <3>3. SubSeq(c, 1, 0) = <<>>
      BY <3>2, EmptySeq
    <3>4. QED
      BY <2>3, <2>4, <3>1, <3>3
  <2>6. CASE k # 1
    <3>1. k - 1 \in 1..L
      BY <2>6
    <3>2. SubSeq(c, 1, k - 1) \in Prefixes(c)
      BY <1>1, <3>1 DEF Prefixes
    <3>3. QED
      BY <2>3, <2>4, <3>2
  <2>7. QED
    BY <2>5, <2>6
<1>5. ASSUME NEW n \in Prefixes(c), NEW o \in Prefixes(c), Parent(n) = Parent(o)
      PROVE  n = o
  <2>1. PICK k \in 1..L : n = SubSeq(c, 1, k)
    BY <1>1 DEF Prefixes
  <2>2. PICK l \in 1..L : o = SubSeq(c, 1, l)
    BY <1>1 DEF Prefixes
  <2>3. k - 1 \in 0..L /\ l - 1 \in 0..L
    BY <1>1
  <2>4. SubSeq(c, 1, k - 1) = SubSeq(c, 1, l - 1)
    BY <1>3, <1>5, <2>1, <2>2
  <2>5. k - 1 = l - 1
    BY <1>2, <2>3, <2>4
  <2>6. k = l
    BY <2>5
  <2>7. QED
    BY <2>1, <2>2, <2>6
<1>6. ASSUME c # <<>> PROVE c \in Prefixes(c)
  <2>1. L \in 1..L /\ L \in 0..L
    BY <1>1, <1>6, EmptySeq
  <2>2. PICK d : d = SubSeq(c, 1, L)
    OBVIOUS
  <2>3. d \in Seq(STRING) /\ Len(d) = L /\ \A i \in 1..L : d[i] = c[i]
    BY <1>2, <2>1, <2>2
  <2>4. d = c
    BY <1>1, <2>3, SeqEqual
  <2>5. QED
    BY <1>1, <2>1, <2>2, <2>4 DEF Prefixes
<1>7. QED
  BY <1>4, <1>5, <1>6

\* The node of a pattern that is stored is not the root.
LEMMA StoredHasNode ==
  ASSUME NEW p \in Patterns, IsStored(p)
  PROVE  Clean(p) # <<>>
<1>1. p \in Seq(STRING) /\ p # <<>>
  BY RoutingAssumption
<1>2. PICK L \in Nat : L = Len(p) /\ DOMAIN p = 1..L /\ L >= 1
  BY <1>1, EmptySeq, LenProperties
<1>3. LastIndex(p) \in 1..L
  BY <1>2 DEF LastIndex
<1>4. LastIndex(p) \in Kept(p)
  BY <1>2, <1>3 DEF IsStored, Kept
<1>5. Rank(Kept(p), LastIndex(p)) \in DOMAIN Clean(p)
  BY <1>1, <1>4, CleanShape
<1>6. QED
  BY <1>5

\* A route that is inserted takes nothing away from a tree.
LEMMA InsertShape ==
  ASSUME NEW tree, NEW p \in Patterns, NEW id, NEW t, t = Insert(tree, p, id),
         TreeShape(tree), \A n \in DOMAIN tree.made : tree.made[n] # id
  PROVE  /\ TreeShape(t)
         /\ \A n \in DOMAIN t.made :
              t.made[n] = id \/ (n \in DOMAIN tree.made /\ t.made[n] = tree.made[n])
         /\ DOMAIN tree.handler \subseteq DOMAIN t.handler
         /\ \A n \in DOMAIN t.handler :
              \/ n = Clean(p) /\ t.handler[n] = id
              \/ n \in DOMAIN tree.handler /\ t.handler[n] = tree.handler[n]
         /\ IsStored(p) => Clean(p) \in DOMAIN t.handler
<1>1. PICK c : c = Clean(p)
  OBVIOUS
<1>2. c \in Seq(STRING)
  <2>1. PICK s \in Seq(STRING \ {Blank}) : s = Clean(p)
    BY RouterConstants, CleanShape
  <2>2. s \in Seq(STRING)
    BY SeqMonotonic, ElementOfSeq, LenProperties
  <2>3. QED
    BY <1>1, <2>1, <2>2
<1>3. PICK P : P = Prefixes(c)
  OBVIOUS
<1>4. /\ \A n \in P : n \in Seq(STRING) \ {<<>>} /\ Parent(n) \in P \cup {<<>>}
      /\ \A n, o \in P : Parent(n) = Parent(o) => n = o
      /\ c # <<>> => c \in P
  BY <1>2, <1>3, PrefixShape
<1>5. t.made = [n \in DOMAIN tree.made \cup P |-> IF n \in DOMAIN tree.made THEN tree.made[n] ELSE id]
  BY <1>1, <1>3 DEF Insert
<1>6. t.handler = IF ~IsStored(p) THEN tree.handler
                  ELSE [n \in DOMAIN tree.handler \cup {c} |-> IF n = c THEN id ELSE tree.handler[n]]
  BY <1>1 DEF Insert
<1>7. DOMAIN t.made = DOMAIN tree.made \cup P
  BY <1>5
<1>8. \A n \in DOMAIN tree.made : t.made[n] = tree.made[n]
  BY <1>5
<1>9. \A n \in P : n \notin DOMAIN tree.made => t.made[n] = id
  BY <1>5
<1>10. ASSUME NEW n \in DOMAIN t.made
       PROVE  /\ n \in Seq(STRING) \ {<<>>}
              /\ t.made[n] = id \/ (n \in DOMAIN tree.made /\ t.made[n] = tree.made[n])
              /\ Parent(n) \in DOMAIN t.made \cup {<<>>}
  BY <1>4, <1>7, <1>8, <1>9 DEF TreeShape
<1>11. ASSUME NEW n \in DOMAIN t.made, NEW o \in DOMAIN t.made,
              Parent(n) = Parent(o), t.made[n] = t.made[o]
       PROVE  n = o
  <2>1. CASE n \in DOMAIN tree.made
    <3>1. o \in DOMAIN tree.made
      BY <1>7, <1>8, <1>9, <1>11, <2>1 DEF TreeShape
    <3>2. QED
      BY <1>8, <1>11, <2>1, <3>1 DEF TreeShape
  <2>2. CASE n \notin DOMAIN tree.made
    <3>1. o \notin DOMAIN tree.made
      BY <1>7, <1>8, <1>9, <1>11, <2>2 DEF TreeShape
    <3>2. QED
      BY <1>4, <1>7, <1>11, <2>2, <3>1
  <2>3. QED
    BY <2>1, <2>2
<1>12. CASE ~IsStored(p)
  BY <1>6, <1>7, <1>10, <1>11, <1>12 DEF TreeShape
<1>13. CASE IsStored(p)
  <2>1. c \in P
    BY <1>1, <1>4, <1>13, StoredHasNode
  <2>2. DOMAIN t.handler = DOMAIN tree.handler \cup {c}
    BY <1>6, <1>13
  <2>3. \A n \in DOMAIN t.handler : t.handler[n] = IF n = c THEN id ELSE tree.handler[n]
    BY <1>6, <1>13
  <2>4. QED
    BY <1>1, <1>7, <1>10, <1>11, <2>1, <2>2, <2>3 DEF TreeShape
<1>14. QED
  BY <1>12, <1>13

\* The routes grow at the end.
LEMMA HandleRoutes ==
  ASSUME RouterTypeOK, NEW pattern \in Patterns, NEW method \in Methods, Handle(pattern, method),
         NEW id, id = Len(routes) + 1
  PROVE  /\ routes' \in Seq([pattern : Patterns, method : Methods])
         /\ id \notin DOMAIN routes /\ DOMAIN routes' = DOMAIN routes \cup {id}
         /\ \A i \in DOMAIN routes : routes'[i] = routes[i]
         /\ routes'[id].pattern = pattern /\ routes'[id].method = method
         /\ \A m \in Methods : RoutesByMethod(m)' =
              RoutesByMethod(m) \cup (IF ServesMethod(method, m) THEN {id} ELSE {})
<1>1. PICK L \in Nat : L = Len(routes) /\ DOMAIN routes = 1..L
  BY RoutesShape DEF RouterTypeOK
<1>2. PICK r : r = [pattern |-> pattern, method |-> method]
  OBVIOUS
<1>3. r \in [pattern : Patterns, method : Methods] /\ r.pattern = pattern /\ r.method = method
  BY <1>2
<1>4. routes \in Seq([pattern : Patterns, method : Methods]) /\ routes' = Append(routes, r)
  BY <1>2 DEF RouterTypeOK, Handle
<1>5. /\ routes' \in Seq([pattern : Patterns, method : Methods])
      /\ Len(routes') = L + 1 /\ routes'[L + 1] = r
      /\ \A i \in 1..L : routes'[i] = routes[i]
  BY <1>1, <1>3, <1>4, AppendProperties
<1>6. DOMAIN routes' = 1..(L + 1)
  BY <1>1, <1>5, LenProperties
<1>7. id = L + 1 /\ id \notin 1..L /\ 1..(L + 1) = (1..L) \cup {id}
  <2>1. id = L + 1
    BY <1>1
  <2>2. \A i \in 1..(L + 1) : i \in 1..L \/ i = id
    BY <2>1
  <2>3. \A i \in 1..L : i \in 1..(L + 1)
    OBVIOUS
  <2>4. id \in 1..(L + 1) /\ id \notin 1..L
    BY <2>1
  <2>5. QED
    BY <2>1, <2>2, <2>3, <2>4
<1>8. ASSUME NEW m \in Methods
      PROVE  RoutesByMethod(m)' =
               RoutesByMethod(m) \cup (IF ServesMethod(method, m) THEN {id} ELSE {})
  <2>1. RoutesByMethod(m)' = {i \in DOMAIN routes' : ServesMethod(routes'[i].method, m)}
    BY DEF RoutesByMethod
  <2>2. \A i \in DOMAIN routes :
          ServesMethod(routes'[i].method, m) <=> ServesMethod(routes[i].method, m)
    BY <1>1, <1>5
  <2>3. routes'[id].method = method
    BY <1>3, <1>5, <1>7
  <2>4. QED
    BY <1>1, <1>6, <1>7, <2>1, <2>2, <2>3 DEF RoutesByMethod
<1>9. QED
  BY <1>1, <1>3, <1>5, <1>6, <1>7, <1>8

\* A registration puts a route everywhere it belongs.
LEMMA HandleSound ==
  ASSUME RouterTypeOK, NothingMissing,
         NEW pattern \in Patterns, NEW method \in Methods, Handle(pattern, method)
  PROVE  RouterTypeOK' /\ NothingMissing'
<1>1. PICK id : id = Len(routes) + 1
  OBVIOUS
<1>2. /\ routes' \in Seq([pattern : Patterns, method : Methods])
      /\ id \notin DOMAIN routes /\ DOMAIN routes' = DOMAIN routes \cup {id}
      /\ \A i \in DOMAIN routes : routes'[i] = routes[i]
      /\ routes'[id].pattern = pattern /\ routes'[id].method = method
      /\ \A m \in Methods : RoutesByMethod(m)' =
           RoutesByMethod(m) \cup (IF ServesMethod(method, m) THEN {id} ELSE {})
  BY <1>1, HandleRoutes
<1>3. \A m : RoutesByMethod(m) \subseteq DOMAIN routes
  BY DEF RoutesByMethod
<1>4. ASSUME NEW m \in Methods, NEW t, t = routeTrees'[m]
      PROVE  /\ TreeSound(t, routes', RoutesByMethod(m)')
             /\ \A i \in RoutesByMethod(m)' :
                  IsStored(routes'[i].pattern) => Clean(routes'[i].pattern) \in DOMAIN t.handler
  <2>1. PICK tree : tree = routeTrees[m]
    OBVIOUS
  <2>2. TreeSound(tree, routes, RoutesByMethod(m))
    BY <2>1 DEF RouterTypeOK
  <2>3. \A i \in RoutesByMethod(m) :
          IsStored(routes[i].pattern) => Clean(routes[i].pattern) \in DOMAIN tree.handler
    BY <2>1 DEF NothingMissing
  <2>4. t = IF ServesMethod(method, m) THEN Insert(tree, pattern, id) ELSE tree
    BY <1>1, <1>4, <2>1 DEF Handle
  <2>5. CASE ~ServesMethod(method, m)
    <3>1. t = tree /\ RoutesByMethod(m)' = RoutesByMethod(m)
      BY <1>2, <2>4, <2>5
    <3>2. QED
      BY <1>2, <1>3, <2>2, <2>3, <3>1 DEF TreeSound
  <2>6. CASE ServesMethod(method, m)
    <3>1. t = Insert(tree, pattern, id) /\ RoutesByMethod(m)' = RoutesByMethod(m) \cup {id}
      BY <1>2, <2>4, <2>6
    <3>2. TreeShape(tree) /\ \A n \in DOMAIN tree.made : tree.made[n] # id
      BY <1>2, <2>2 DEF TreeSound
    <3>3. /\ TreeShape(t)
          /\ \A n \in DOMAIN t.made :
               t.made[n] = id \/ (n \in DOMAIN tree.made /\ t.made[n] = tree.made[n])
          /\ DOMAIN tree.handler \subseteq DOMAIN t.handler
          /\ \A n \in DOMAIN t.handler :
               \/ n = Clean(pattern) /\ t.handler[n] = id
               \/ n \in DOMAIN tree.handler /\ t.handler[n] = tree.handler[n]
          /\ IsStored(pattern) => Clean(pattern) \in DOMAIN t.handler
      BY <3>1, <3>2, InsertShape
    <3>4. \A n \in DOMAIN t.made : t.made[n] \in DOMAIN routes'
      BY <1>2, <2>2, <3>3 DEF TreeSound
    <3>5. \A n \in DOMAIN t.handler : /\ t.handler[n] \in RoutesByMethod(m)'
                                      /\ Clean(routes'[t.handler[n]].pattern) = n
      BY <1>2, <1>3, <2>2, <3>1, <3>3 DEF TreeSound
    <3>6. \A i \in RoutesByMethod(m)' :
            IsStored(routes'[i].pattern) => Clean(routes'[i].pattern) \in DOMAIN t.handler
      BY <1>2, <1>3, <2>3, <3>1, <3>3
    <3>7. TreeSound(t, routes', RoutesByMethod(m)')
      BY <3>3, <3>4, <3>5 DEF TreeSound
    <3>8. QED
      BY <3>6, <3>7
  <2>7. QED
    BY <2>5, <2>6
<1>5. ASSUME NEW m \in Methods, NEW map, map = staticRoutes'[m]
      PROVE  /\ MapSound(map, routes', RoutesByMethod(m)')
             /\ \A i \in RoutesByMethod(m)' :
                  IsStatic(routes'[i].pattern) => routes'[i].pattern \in DOMAIN map
  <2>1. PICK old : old = staticRoutes[m]
    OBVIOUS
  <2>2. /\ \A p \in DOMAIN old : old[p] \in RoutesByMethod(m) /\ routes[old[p]].pattern = p
        /\ \A i \in RoutesByMethod(m) :
             IsStatic(routes[i].pattern) => routes[i].pattern \in DOMAIN old
    BY <2>1 DEF RouterTypeOK, NothingMissing, MapSound
  <2>3. map = IF IsStatic(pattern) /\ ServesMethod(method, m)
              THEN [p \in DOMAIN old \cup {pattern} |-> IF p = pattern THEN id ELSE old[p]]
              ELSE old
    BY <1>1, <1>5, <2>1 DEF Handle
  <2>4. CASE ~ServesMethod(method, m)
    BY <1>2, <1>3, <2>2, <2>3, <2>4 DEF MapSound
  <2>5. CASE ServesMethod(method, m) /\ ~IsStatic(pattern)
    <3>1. map = old /\ RoutesByMethod(m)' = RoutesByMethod(m) \cup {id}
      BY <1>2, <2>3, <2>5
    <3>2. QED
      BY <1>2, <1>3, <2>2, <2>5, <3>1 DEF MapSound
  <2>6. CASE ServesMethod(method, m) /\ IsStatic(pattern)
    <3>1. RoutesByMethod(m)' = RoutesByMethod(m) \cup {id}
      BY <1>2, <2>6
    <3>2. /\ DOMAIN map = DOMAIN old \cup {pattern}
          /\ \A p \in DOMAIN map : map[p] = IF p = pattern THEN id ELSE old[p]
      BY <2>3, <2>6
    <3>3. QED
      BY <1>2, <1>3, <2>2, <3>1, <3>2 DEF MapSound
  <2>7. QED
    BY <2>4, <2>5, <2>6 DEF MapSound
<1>6. answer'.status = 0
  BY DEF Handle, NoAnswer
<1>7. RouterTypeOK'
  BY <1>2, <1>4, <1>5, <1>6 DEF RouterTypeOK
<1>8. NothingMissing'
  BY <1>4, <1>5 DEF NothingMissing
<1>9. QED
  BY <1>7, <1>8

\* Answering depends on the registered routes alone.
LEMMA SameRoutes ==
  ASSUME UNCHANGED <<routes, routeTrees, staticRoutes>>
  PROVE  \A m, path : ServeHTTP(m, path)' = ServeHTTP(m, path)
BY DEF ServeHTTP, Finds, AllowedMethods, FromMap, FromTree, FromList, RoutesByMethod

\* So the invariant stays while none is registered.
LEMMA SameSound ==
  ASSUME RouterTypeOK, NothingMissing, UNCHANGED <<routes, routeTrees, staticRoutes>>,
         answer'.status \in {0, 200, 404, 405}
  PROVE  RouterTypeOK' /\ NothingMissing'
<1>1. RouterTypeOK'
  BY DEF RouterTypeOK, RoutesByMethod, TreeSound, TreeShape, MapSound
<1>2. NothingMissing'
  BY DEF NothingMissing, RoutesByMethod
<1>3. QED
  BY <1>1, <1>2

\* The inductive invariant of the router.
LEMMA RouterStaysSound ==
  RouterSpec => []RouterSound
<1>1. NewRouter => RouterSound
  <2>1. SUFFICES ASSUME NewRouter PROVE RouterSound
    OBVIOUS
  <2>2. routes = <<>> /\ DOMAIN routes = {} /\ answer = NoAnswer /\ answer.status = 0
    BY <2>1 DEF NewRouter, NoAnswer
  <2>3. \A m : RoutesByMethod(m) = {}
    BY <2>2 DEF RoutesByMethod
  <2>4. ASSUME NEW m \in Methods
        PROVE  /\ DOMAIN routeTrees[m].made = {} /\ DOMAIN routeTrees[m].handler = {}
               /\ DOMAIN staticRoutes[m] = {}
    BY <2>1 DEF NewRouter, Nothing
  <2>5. routes \in Seq([pattern : Patterns, method : Methods])
    BY <2>2
  <2>6. RouterTypeOK
    BY <2>2, <2>4, <2>5 DEF RouterTypeOK, TreeSound, TreeShape, MapSound
  <2>7. QED
    BY <2>2, <2>3, <2>6 DEF RouterSound, NothingMissing, AnswerStands
<1>2. RouterSound /\ [RouterNext]_routerVars => RouterSound'
  <2>1. SUFFICES ASSUME RouterSound, [RouterNext]_routerVars PROVE RouterSound'
    OBVIOUS
  <2>2. RouterTypeOK /\ NothingMissing /\ AnswerStands
    BY <2>1 DEF RouterSound
  <2>3. ASSUME NEW pattern \in Patterns, NEW method \in Methods, Handle(pattern, method)
        PROVE  RouterSound'
    <3>1. RouterTypeOK' /\ NothingMissing'
      BY <2>2, <2>3, HandleSound
    <3>2. AnswerStands'
      BY <2>3 DEF Handle, AnswerStands, NoAnswer
    <3>3. QED
      BY <3>1, <3>2 DEF RouterSound
  <2>4. ASSUME NEW method \in Methods, NEW path \in Paths, Serve(method, path)
        PROVE  RouterSound'
    <3>1. PICK a : a = ServeHTTP(method, path)
      OBVIOUS
    <3>2. a.status = 200 \/ a.status = 404 \/ a.status = 405
      BY <3>1, ServeShape
    <3>3. answer' = a /\ UNCHANGED <<routes, routeTrees, staticRoutes>>
      BY <2>4, <3>1 DEF Serve
    <3>4. RouterTypeOK' /\ NothingMissing'
      BY <2>2, <3>2, <3>3, SameSound
    <3>5. ServeHTTP(method, path)' = a
      BY <3>1, <3>3, SameRoutes
    <3>6. AnswerStands'
      BY <3>3, <3>5 DEF AnswerStands
    <3>7. QED
      BY <3>4, <3>6 DEF RouterSound
  <2>5. CASE Answered
    <3>1. answer' = NoAnswer /\ UNCHANGED <<routes, routeTrees, staticRoutes>>
      BY <2>5 DEF Answered
    <3>2. answer'.status = 0
      BY <3>1 DEF NoAnswer
    <3>3. RouterTypeOK' /\ NothingMissing'
      BY <2>2, <3>1, <3>2, SameSound
    <3>4. AnswerStands'
      BY <3>1 DEF AnswerStands, NoAnswer
    <3>5. QED
      BY <3>3, <3>4 DEF RouterSound
  <2>6. CASE UNCHANGED routerVars
    <3>1. answer' = answer /\ UNCHANGED <<routes, routeTrees, staticRoutes>>
      BY <2>6 DEF routerVars
    <3>2. RouterTypeOK' /\ NothingMissing'
      BY <2>2, <3>1, SameSound DEF RouterTypeOK
    <3>3. \A m, path : ServeHTTP(m, path)' = ServeHTTP(m, path)
      BY <3>1, SameRoutes
    <3>4. AnswerStands'
      BY <2>2, <3>1, <3>3 DEF AnswerStands, NoAnswer
    <3>5. QED
      BY <3>2, <3>4 DEF RouterSound
  <2>7. QED
    BY <2>1, <2>3, <2>4, <2>5, <2>6 DEF RouterNext
<1>3. QED
  BY <1>1, <1>2, PTL DEF RouterSpec

\* The map, the trees and the list hold routes of their method, each under
\* its own pattern, and the trees are trees (Router.Handle, Tree.Insert).
THEOREM RouterTypeCorrect ==
  RouterSpec => []RouterTypeOK
<1>1. RouterSound => RouterTypeOK
  BY DEF RouterSound
<1>2. QED
  BY <1>1, RouterStaysSound, PTL

\* An answer is what ServeHTTP gives for its own method and path.
LEMMA AnswerOf ==
  ASSUME RouterSound, answer.status # 0
  PROVE  /\ answer.method \in Methods /\ answer.path \in Paths
         /\ answer = ServeHTTP(answer.method, answer.path)
<1>1. PICK method \in Methods, path \in Paths : answer = ServeHTTP(method, path)
  BY DEF RouterSound, AnswerStands, NoAnswer
<1>2. answer.method = method /\ answer.path = path
  BY <1>1, ServeShape
<1>3. QED
  BY <1>1, <1>2

\* A path is answered by a route of its method that matches it, whenever
\* there is one without a wildcard in the middle: the tree's search, which
\* never comes back, finds nothing that the list would not (ServeHTTP).
THEOREM RouteIsFound ==
  RouterSpec => []RouteFound
<1>1. RouterSound => RouteFound
  <2>1. SUFFICES ASSUME RouterSound PROVE RouteFound
    OBVIOUS
  <2>2. RouterTypeOK /\ NothingMissing
    BY <2>1 DEF RouterSound
  <2>3. PICK a : a = answer
    OBVIOUS
  <2>4. PICK m : m = answer.method
    OBVIOUS
  <2>5. PICK path : path = answer.path
    OBVIOUS
  <2>6. ASSUME NEW i \in RoutesByMethod(m) PROVE routes[i].pattern \in Patterns
    BY <2>2, RoutesShape DEF RouterTypeOK
  <2>7. ASSUME Served
        PROVE  /\ a.id \in RoutesByMethod(m) /\ Matches(routes[a.id].pattern, path)
               /\ ~MidWild(routes[a.id].pattern)
    <3>1. m \in Methods /\ path \in Paths /\ a = ServeHTTP(m, path) /\ a.status = 200
      BY <2>1, <2>3, <2>4, <2>5, <2>7, AnswerOf DEF Served
    <3>2. Fitting(m, path, a)
      BY <2>2, <3>1, ServedIsMatch
    <3>3. a.id \in RoutesByMethod(m) /\ ByteScan(routes[a.id].pattern, path)
      BY <3>2 DEF Fitting
    <3>4. QED
      BY <2>6, <3>1, <3>3, ScanIsMatch
  <2>8. ASSUME Failed, NEW i \in RoutesByMethod(m), Matches(routes[i].pattern, path)
        PROVE  MidWild(routes[i].pattern)
    <3>1. m \in Methods /\ path \in Paths /\ a = ServeHTTP(m, path) /\ a.status # 200
      BY <2>1, <2>3, <2>4, <2>5, <2>8, AnswerOf DEF Failed
    <3>2. ~ByteScan(routes[i].pattern, path)
      BY <2>2, <3>1, ServedIsMatch
    <3>3. QED
      BY <2>6, <2>8, <3>1, <3>2, ScanIsMatch
  <2>9. QED
    BY <2>3, <2>4, <2>5, <2>7, <2>8 DEF RouteFound
<1>2. QED
  BY <1>1, RouterStaysSound, PTL

\* The handler gets the parameters of its route with the values at their
\* places in the path, whichever structure has found the route; and "*" with
\* the rest of the path, if its route has parameters and only the list finds it.
THEOREM ParamsAreRight ==
  RouterSpec => []ParamsRight
<1>1. RouterSound => ParamsRight
  <2>1. SUFFICES ASSUME RouterSound, Served PROVE ParamsRight
    BY DEF ParamsRight
  <2>2. RouterTypeOK /\ NothingMissing
    BY <2>1 DEF RouterSound
  <2>3. /\ answer.method \in Methods /\ answer.path \in Paths
        /\ answer = ServeHTTP(answer.method, answer.path) /\ answer.status = 200
    BY <2>1, AnswerOf DEF Served
  <2>4. Valued(answer.path, answer, WildGiven(answer.method, answer.path, answer))
    BY <2>2, <2>3, ServedIsMatch
  <2>5. QED
    BY <2>4 DEF ParamsRight, Valued, WildGiven
<1>2. QED
  BY <1>1, RouterStaysSound, PTL

\* A static pattern goes before parameters and wildcards, whatever was
\* registered first (the first two lookups of ServeHTTP).
THEOREM StaticGoesFirst ==
  RouterSpec => []StaticFirst
<1>1. RouterSound => StaticFirst
  <2>1. SUFFICES ASSUME RouterSound, Served PROVE StaticFirst
    BY DEF StaticFirst
  <2>2. RouterTypeOK /\ NothingMissing
    BY <2>1 DEF RouterSound
  <2>3. /\ answer.method \in Methods /\ answer.path \in Paths
        /\ answer = ServeHTTP(answer.method, answer.path) /\ answer.status = 200
    BY <2>1, AnswerOf DEF Served
  <2>4. (\E i \in RoutesByMethod(answer.method) :
           LET pattern == routes[i].pattern
           IN /\ IsStatic(pattern) /\ Clean(pattern) = Clean(answer.path)
              /\ pattern = answer.path \/ IsStored(pattern))
        => IsStatic(routes[answer.id].pattern)
    BY <2>2, <2>3, ServedIsMatch
  <2>5. QED
    BY <2>4 DEF StaticFirst
<1>2. QED
  BY <1>1, RouterStaysSound, PTL

\* No method is left out of, or put into, the Allow header by asking trees
\* and routes otherwise than for the request's own method (AllowedMethods).
THEOREM AllowIsRight ==
  RouterSpec => []AllowRight
<1>1. RouterSound => AllowRight
  <2>1. SUFFICES ASSUME RouterSound PROVE AllowRight
    OBVIOUS
  <2>2. RouterTypeOK /\ NothingMissing
    BY <2>1 DEF RouterSound
  <2>3. PICK a : a = answer
    OBVIOUS
  <2>4. PICK method : method = answer.method
    OBVIOUS
  <2>5. PICK path : path = answer.path
    OBVIOUS
  <2>6. PICK trees : trees = {m \in Methods \ {method} : FindBytes(routeTrees[m], path).id # NoRoute}
    OBVIOUS
  <2>7. PICK matching : matching = {j \in DOMAIN routes :
          routes[j].method # method /\ (ByteScan(routes[j].pattern, path) \/ Regex(routes[j].pattern, path))}
    OBVIOUS
  <2>8. PICK named : named = IF trees # {} THEN trees ELSE {routes[j].method : j \in matching}
    OBVIOUS
  <2>9. AllowedMethods(method, path) = WithoutHead(named)
    BY <2>6, <2>7, <2>8 DEF AllowedMethods
  <2>10. \A j \in DOMAIN routes : routes[j].pattern \in Patterns /\ routes[j].method \in Methods
    BY <2>2, RoutesShape DEF RouterTypeOK
  <2>11. ASSUME a.status = 405, NEW m \in a.allow
         PROVE  \/ ServeHTTP(m, path).status = 200
                \/ \E i \in RoutesByMethod(m) :
                     MidWild(routes[i].pattern) /\ Matches(routes[i].pattern, path)
    <3>1. method \in Methods /\ path \in Paths /\ a = ServeHTTP(method, path)
      BY <2>1, <2>3, <2>4, <2>5, <2>11, AnswerOf
    <3>2. m \in named
      <4>1. a.allow = WithoutHead(named)
        BY <2>9, <2>11, <3>1, ServeShape
      <4>2. QED
        BY <2>11, <4>1 DEF WithoutHead
    <3>3. CASE m \in trees
      <4>1. PICK finds : finds = Finds(m, path)
        OBVIOUS
      <4>2. finds[3].id # NoRoute
        BY <2>6, <3>3, <4>1 DEF Finds
      <4>3. QED
        BY <4>1, <4>2, ServeShape
    <3>4. CASE m \notin trees
      <4>1. PICK j \in matching : m = routes[j].method
        BY <2>8, <3>2, <3>4
      <4>2. j \in DOMAIN routes /\ j \in RoutesByMethod(m) /\ m \in Methods /\ routes[j].pattern \in Patterns
        BY <2>7, <2>10, <4>1 DEF RoutesByMethod, ServesMethod
      <4>3. Matches(routes[j].pattern, path)
        BY <2>7, <3>1, <4>1, <4>2, ScanIsMatch, RegexIsMatch
      <4>4. CASE MidWild(routes[j].pattern)
        BY <4>2, <4>3, <4>4
      <4>5. CASE ~MidWild(routes[j].pattern)
        <5>1. ByteScan(routes[j].pattern, path)
          BY <3>1, <4>2, <4>3, <4>5, ScanIsMatch
        <5>2. QED
          BY <2>2, <3>1, <4>2, <5>1, ServedIsMatch
      <4>6. QED
        BY <4>4, <4>5
    <3>5. QED
      BY <3>3, <3>4
  <2>12. ASSUME a.status = 404, NEW m \in Methods, ServeHTTP(m, path).status = 200
         PROVE  FALSE
    <3>1. method \in Methods /\ path \in Paths /\ a = ServeHTTP(method, path)
      BY <2>1, <2>3, <2>4, <2>5, <2>12, AnswerOf
    <3>2. named = {}
      <4>1. WithoutHead(named) = {}
        BY <2>9, <2>12, <3>1, ServeShape
      <4>2. QED
        BY <4>1 DEF WithoutHead
    <3>3. matching = {}
      BY <2>8, <3>2
    <3>4. PICK b : b = ServeHTTP(m, path)
      OBVIOUS
    <3>5. Fitting(m, path, b)
      BY <2>2, <2>12, <3>1, <3>4, ServedIsMatch
    <3>6. PICK i \in RoutesByMethod(m) : ByteScan(routes[i].pattern, path)
      BY <3>5 DEF Fitting
    <3>7. i \in DOMAIN routes
      BY <3>6 DEF RoutesByMethod
    <3>8. routes[i].method = method
      BY <2>7, <3>3, <3>6, <3>7
    <3>9. i \in RoutesByMethod(method)
      BY <3>7, <3>8 DEF RoutesByMethod, ServesMethod
    <3>10. a.status = 200
      BY <2>2, <3>1, <3>6, <3>9, ServedIsMatch
    <3>11. QED
      BY <2>12, <3>10
  <2>13. QED
    BY <2>3, <2>5, <2>11, <2>12 DEF AllowRight
<1>2. QED
  BY <1>1, RouterStaysSound, PTL
=============================================================================
