------------------------------ MODULE Dispatch ------------------------------
(***************************************************************************)
(* How a matched request runs its functions: setupMiddleware and the cache *)
(* of compiled chains (router.go), CompileMiddleware (handler.go), Next    *)
(* and the pooled Ctx (context.go).                                        *)
(*                                                                         *)
(* A chain is the router's middleware, then the handlers of the route.  A  *)
(* chain is run in a compiled pass, which calls its functions one after    *)
(* the other; the first request of a chain of route handlers alone goes on *)
(* to a dynamic pass, in which each function calls the next through Next.  *)
(*                                                                         *)
(* A function is a value; two closures made by the same function literal   *)
(* are two functions with one Code, and the hash of a chain, FNV-1a of the *)
(* code pointers, is taken to identify the sequence of codes.              *)
(***************************************************************************)
EXTENDS Integers, Sequences, FiniteSets

CONSTANTS Workers,      \* goroutines that serve requests, one at a time each
          Ctxs,         \* the Ctx objects that contextPool has or can make
          Funcs,        \* handlers and middleware of the application
          Code,         \* Code[f]: the code pointer of f
          CallsNext,    \* the functions that may call c.Next()
          Routes,       \* registered routes
          Handlers,     \* Handlers[r]: the handlers of the route
          GlobalFuncs,  \* functions that Router.Use may be given
          MaxUse,       \* bound: at most so many of them
          MaxIndex,     \* bound: Next counts the index of a context no higher
          Fixed,        \* len(ctx.fixedMiddleware), 16 in the code
          None          \* nil

ASSUME DispatchAssumption ==
  /\ Code \in [Funcs -> {Code[f] : f \in Funcs}]
  /\ CallsNext \subseteq Funcs
  /\ Handlers \in [Routes -> Seq(Funcs)]
  /\ GlobalFuncs \subseteq Funcs
  /\ MaxUse \in Nat /\ Fixed \in Nat /\ MaxIndex \in Int
  /\ None \notin Funcs \cup Ctxs

VARIABLES middlewareFuncs,  \* Router.middlewareFuncs
          open,             \* the server has started
          compiled,         \* Router.middlewareCache: the chains compiled
          ctx,              \* ctx[x]: the Ctx object x
          pc,               \* pc[w]: where the goroutine w is
          route,            \* route[w]: the route its request matched
          held,             \* held[w]: its Ctx
          chain,            \* chain[w]: the chain that its compiled pass runs
          link,             \* link[w]: how many functions of it have been called
          frames,           \* frames[w]: the functions that are running, as a stack
          log,              \* log[w]: the functions called in this pass
          earlier           \* earlier[w]: those called in the pass before

job == <<route, held, chain>>
run == <<frames, log, link>>
shared == <<middlewareFuncs, open, compiled>>
vars == <<shared, ctx, pc, job, run, earlier>>

-----------------------------------------------------------------------------
(* Chains and contexts.                                                    *)

\* generateMiddlewareHash
Hash(s) == [i \in 1..Len(s) |-> Code[s[i]]]

\* The chain of the request that w serves: allMiddleware and finalHandler.
Own(w) == middlewareFuncs \o Handlers[route[w]]

\* A Ctx: whether it has an error or a status of 400 or more; the middleware
\* stack and the fixed buffer with its count; the index; the final handler.
NewCtx == [failed |-> FALSE, stack |-> <<>>, fixed |-> [i \in 1..Fixed |-> None],
           count |-> 0, index |-> -1, handler |-> None]

\* Mutant of Released: the handler of the dynamic pass is kept.
ReleasedWithHandler(x) ==
  [x EXCEPT !.failed = FALSE, !.stack = <<>>, !.count = 0, !.index = -1]

\* ReleaseContext; fixedMiddleware keeps what it has.
Released(x) ==
  [x EXCEPT !.failed = FALSE, !.stack = <<>>, !.count = 0, !.index = -1, !.handler = None]

\* What Next calls in the context x, whose index it has counted up.
NextCallee(x) ==
  IF x.count > 0
    THEN IF x.index >= x.count THEN x.handler ELSE x.fixed[x.index + 1]
    ELSE IF x.index >= Len(x.stack) THEN x.handler ELSE x.stack[x.index + 1]

Init ==
  /\ middlewareFuncs = <<>>
  /\ open = FALSE
  /\ compiled = {}
  /\ ctx = [x \in Ctxs |-> NewCtx]
  /\ pc = [w \in Workers |-> "idle"]
  /\ route = [w \in Workers |-> None]
  /\ held = [w \in Workers |-> None]
  /\ chain = [w \in Workers |-> <<>>]
  /\ link = [w \in Workers |-> 0]
  /\ frames = [w \in Workers |-> <<>>]
  /\ log = [w \in Workers |-> <<>>]
  /\ earlier = [w \in Workers |-> <<>>]

Goto(w, label) == pc' = [pc EXCEPT ![w] = label]

\* Router.Use, before the server starts.
Use(f) ==
  /\ ~open
  /\ Len(middlewareFuncs) < MaxUse
  /\ middlewareFuncs' = Append(middlewareFuncs, f)
  /\ UNCHANGED <<open, compiled, ctx, pc, job, run, earlier>>

-----------------------------------------------------------------------------
(* setupMiddleware.                                                        *)

InUse == {held[w] : w \in Workers}

\* getContextFromRequest, and ServeHTTP has matched the route r.
Arrive(w, x, r) ==
  /\ pc[w] = "idle"
  /\ x \notin InUse
  /\ open' = TRUE
  /\ held' = [held EXCEPT ![w] = x]
  /\ route' = [route EXCEPT ![w] = r]
  /\ Goto(w, "setup")
  /\ UNCHANGED <<middlewareFuncs, compiled, ctx, chain, run, earlier>>

\* w is going to run the chain s, and then no other pass if label is "pass".
Chosen(w, s, label) ==
  /\ chain' = [chain EXCEPT ![w] = s]
  /\ Goto(w, label)
  /\ UNCHANGED <<middlewareFuncs, open, ctx, route, held, run, earlier>>

\* No handlers: nothing to do.
NoHandlers(w) ==
  /\ pc[w] = "setup"
  /\ Handlers[route[w]] = <<>>
  /\ Goto(w, "done")
  /\ UNCHANGED <<shared, ctx, job, run, earlier>>

\* One handler and no middleware: called directly.
Direct(w) ==
  /\ pc[w] = "setup"
  /\ Handlers[route[w]] # <<>> /\ Len(Own(w)) = 1
  /\ Chosen(w, Own(w), "pass")
  /\ UNCHANGED compiled

Cacheable(w) == Handlers[route[w]] # <<>> /\ Len(Own(w)) > 1

\* middlewareCache.Load finds a chain with this hash.
CacheHit(w) ==
  /\ pc[w] = "setup"
  /\ Cacheable(w)
  /\ \E s \in compiled : Hash(s) = Hash(Own(w)) /\ Chosen(w, s, "pass")
  /\ UNCHANGED compiled

CacheMiss(w) ==
  /\ pc[w] = "setup"
  /\ Cacheable(w)
  /\ \A s \in compiled : Hash(s) # Hash(Own(w))
  /\ Goto(w, "compile")
  /\ UNCHANGED <<shared, ctx, job, run, earlier>>

\* CompileMiddleware and middlewareCache.Store, which overwrites.
Compile(w) ==
  /\ pc[w] = "compile"
  /\ compiled' = {s \in compiled : Hash(s) # Hash(Own(w))} \cup {Own(w)}
  /\ Chosen(w, Own(w), IF middlewareFuncs = <<>> THEN "first" ELSE "pass")

-----------------------------------------------------------------------------
(* Running functions.                                                      *)

\* f is called: it becomes the top of the stack.
Push(w, f) ==
  /\ frames' = [frames EXCEPT ![w] = Append(@, f)]
  /\ log' = [log EXCEPT ![w] = Append(@, f)]

Pop(w) == frames' = [frames EXCEPT ![w] = SubSeq(@, 1, Len(@) - 1)]

InPass(w) == pc[w] \in {"pass", "first"}

\* Mutant of CallLink: the error and the status are not looked at.
CallLinkAnyway(w) ==
  /\ InPass(w)
  /\ frames[w] = <<>>
  /\ link[w] < Len(chain[w])
  /\ Push(w, chain[w][link[w] + 1])
  /\ link' = [link EXCEPT ![w] = @ + 1]
  /\ UNCHANGED <<shared, ctx, pc, job, earlier>>

\* The compiled chain calls its next function, unless one has failed.
CallLink(w) ==
  /\ InPass(w)
  /\ frames[w] = <<>>
  /\ link[w] < Len(chain[w])
  /\ link[w] = 0 \/ ~ctx[held[w]].failed
  /\ Push(w, chain[w][link[w] + 1])
  /\ link' = [link EXCEPT ![w] = @ + 1]
  /\ UNCHANGED <<shared, ctx, pc, job, earlier>>

Top(w) == frames[w][Len(frames[w])]

\* The running function sets an error or a status of 400 or more and returns.
Fail(w) ==
  /\ frames[w] # <<>>
  /\ ctx' = [ctx EXCEPT ![held[w]].failed = TRUE]
  /\ Pop(w)
  /\ UNCHANGED <<shared, pc, job, link, log, earlier>>

\* It calls c.Next(), for the first time or again.
CallNext(w) ==
  /\ frames[w] # <<>>
  /\ Top(w) \in CallsNext
  /\ ctx[held[w]].index < MaxIndex
  /\ LET x == [ctx[held[w]] EXCEPT !.index = @ + 1]
         callee == NextCallee(x)
     IN /\ ctx' = [ctx EXCEPT ![held[w]] = x]
        /\ \/ callee = None /\ UNCHANGED <<frames, log>>
           \/ callee # None /\ Push(w, callee)
  /\ UNCHANGED <<shared, pc, job, link, earlier>>

\* It returns: what Next called, if it called Next, has returned before.  It may
\* have answered itself and not called Next, as cors does with a preflight.
Return(w) ==
  /\ frames[w] # <<>>
  /\ Pop(w)
  /\ UNCHANGED <<shared, ctx, pc, job, link, log, earlier>>

\* The compiled chain is at its end, or a function of it has failed.
PassOver(w) ==
  /\ frames[w] = <<>>
  /\ link[w] = Len(chain[w]) \/ (link[w] > 0 /\ ctx[held[w]].failed)

EndPass(w) ==
  /\ pc[w] = "pass"
  /\ PassOver(w)
  /\ Goto(w, "done")
  /\ UNCHANGED <<shared, ctx, job, run, earlier>>

\* Mutant of DynamicCtx: the copy into the fixed buffer stops one short.
DynamicCtxShort(x, hs) ==
  LET total == Len(hs) - 1
  IN IF total <= Fixed
       THEN [x EXCEPT !.count = total,
                      !.fixed = [i \in 1..Fixed |-> IF i < total THEN hs[i] ELSE @[i]],
                      !.index = 0, !.handler = hs[total + 1]]
       ELSE [x EXCEPT !.count = 0, !.stack = SubSeq(hs, 1, total),
                      !.index = 0, !.handler = hs[total + 1]]

\* Mutant of DynamicCtx: the index starts one too high.
DynamicCtxSkips(x, hs) ==
  LET total == Len(hs) - 1
  IN IF total <= Fixed
       THEN [x EXCEPT !.count = total,
                      !.fixed = [i \in 1..Fixed |-> IF i <= total THEN hs[i] ELSE @[i]],
                      !.index = 1, !.handler = hs[total + 1]]
       ELSE [x EXCEPT !.count = 0, !.stack = SubSeq(hs, 1, total),
                      !.index = 1, !.handler = hs[total + 1]]

\* The context as the dynamic pass over the handlers hs sets it up, with
\* index where the first Next leaves it.
DynamicCtx(x, hs) ==
  LET total == Len(hs) - 1
  IN IF total <= Fixed
       THEN [x EXCEPT !.count = total,
                      !.fixed = [i \in 1..Fixed |-> IF i <= total THEN hs[i] ELSE @[i]],
                      !.index = 0, !.handler = hs[total + 1]]
       ELSE [x EXCEPT !.count = 0, !.stack = SubSeq(hs, 1, total),
                      !.index = 0, !.handler = hs[total + 1]]

\* The compiled pass of the first request falls through to the "legacy path".
FallThrough(w) ==
  /\ pc[w] = "first"
  /\ PassOver(w)
  /\ LET x == DynamicCtx(ctx[held[w]], Handlers[route[w]])
         f == NextCallee(x)
     IN /\ ctx' = [ctx EXCEPT ![held[w]] = x]
        /\ frames' = [frames EXCEPT ![w] = <<f>>]
        /\ log' = [log EXCEPT ![w] = <<f>>]
  /\ earlier' = [earlier EXCEPT ![w] = log[w]]
  /\ Goto(w, "dynamic")
  /\ UNCHANGED <<shared, job, link>>

EndDynamic(w) ==
  /\ pc[w] = "dynamic"
  /\ frames[w] = <<>>
  /\ Goto(w, "done")
  /\ UNCHANGED <<shared, ctx, job, run, earlier>>

\* The deferred ReleaseContext of processRequest.
Finish(w) ==
  /\ pc[w] = "done"
  /\ ctx' = [ctx EXCEPT ![held[w]] = Released(@)]
  /\ held' = [held EXCEPT ![w] = None]
  /\ route' = [route EXCEPT ![w] = None]
  /\ chain' = [chain EXCEPT ![w] = <<>>]
  /\ link' = [link EXCEPT ![w] = 0]
  /\ log' = [log EXCEPT ![w] = <<>>]
  /\ earlier' = [earlier EXCEPT ![w] = <<>>]
  /\ Goto(w, "idle")
  /\ UNCHANGED <<shared, frames>>

-----------------------------------------------------------------------------
Setup(w) == NoHandlers(w) \/ Direct(w) \/ CacheHit(w) \/ CacheMiss(w) \/ Compile(w)

Run(w) == CallLink(w) \/ Fail(w) \/ CallNext(w) \/ Return(w)

End(w) == EndPass(w) \/ FallThrough(w) \/ EndDynamic(w) \/ Finish(w)

Next ==
  \/ \E f \in GlobalFuncs : Use(f)
  \/ \E w \in Workers :
       \/ \E x \in Ctxs, r \in Routes : Arrive(w, x, r)
       \/ Setup(w) \/ Run(w) \/ End(w)

Spec == Init /\ [][Next]_vars

-----------------------------------------------------------------------------
(* Properties.                                                             *)

FuncSeqs == Seq(Funcs)
CtxType == [failed: BOOLEAN, stack: FuncSeqs, fixed: [1..Fixed -> Funcs \cup {None}],
            count: Nat, index: Int, handler: Funcs \cup {None}]

\* Types of the variables.
TypeOK ==
  /\ middlewareFuncs \in FuncSeqs
  /\ open \in BOOLEAN
  /\ compiled \subseteq FuncSeqs
  /\ ctx \in [Ctxs -> CtxType]
  /\ pc \in [Workers -> {"idle", "setup", "compile", "pass", "first", "dynamic", "done"}]
  /\ route \in [Workers -> Routes \cup {None}]
  /\ held \in [Workers -> Ctxs \cup {None}]
  /\ chain \in [Workers -> FuncSeqs]
  /\ link \in [Workers -> Nat]
  /\ frames \in [Workers -> FuncSeqs]
  /\ log \in [Workers -> FuncSeqs]
  /\ earlier \in [Workers -> FuncSeqs]

Prefix(s, t) == Len(s) <= Len(t) /\ \A i \in 1..Len(s) : s[i] = t[i]

\* s goes through t from the start, and on with the last of t when t is at its end.
InOrder(s, t) == \A i \in 1..Len(s) : s[i] = t[IF i <= Len(t) THEN i ELSE Len(t)]

\* A request runs the code of its own chain, in order and each function once in
\* a compiled pass: no request runs on the leavings of the one that had its Ctx
\* before.  The dynamic pass leaves nothing out, and runs only the final handler
\* again, once for each Next too many.  The code, that is: the functions may be
\* another chain's, "used as a key for the middleware cache" (router.go:1606) being
\* the code pointers.  Two passes are for a request that found its chain not
\* compiled, with no middleware of the router.
RunsInOrder ==
  \A w \in Workers :
    pc[w] # "idle" =>
      /\ InPass(w) => Prefix(Hash(log[w]), Hash(Own(w)))
      /\ InOrder(Hash(log[w]), Hash(Own(w)))
      /\ Prefix(Hash(earlier[w]), Hash(Own(w)))
      /\ pc[w] \in {"first", "dynamic"} =>
           middlewareFuncs = <<>> /\ \E s \in compiled : Hash(s) = Hash(Own(w))

\* In a compiled pass Next calls nothing: what a middleware does after c.Next()
\* it does before the next function starts.  (context.go says of that place "Do
\* something after the next middleware or handler has completed".)
NextInert == \A w \in Workers : InPass(w) => Len(frames[w]) <= 1

\* Nothing but a failure ends a compiled pass early: a middleware that answers by
\* itself and does not call c.Next() has the rest of the chain called all the same.
\* After a failure the pass calls no function any more.
OnlyFailureStops ==
  [][\A w \in Workers :
       InPass(w) =>
         /\ ~InPass(w)' => log[w] = chain[w] \/ ctx[held[w]].failed
         /\ InPass(w)' /\ ctx[held[w]].failed => log'[w] = log[w]]_vars
=============================================================================
