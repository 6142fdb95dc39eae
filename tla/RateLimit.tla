----------------------------- MODULE RateLimit -----------------------------
(***************************************************************************)
(* The rate limiting middleware (middleware/ratelimit/limit.go).  Every    *)
(* instance made by New has a configuration and a cleaner of its own; the  *)
(* map of visitors, one limiter for each client, belongs to the package.   *)
(*                                                                         *)
(* A request consults the instances of its chain one after the other: it   *)
(* looks its client up, under the mutex, and asks the limiter later.  One  *)
(* that is refused gets 429, which ends the pass over the chain.  A        *)
(* request that finds its chain not compiled goes through it twice (see    *)
(* Dispatch).                                                              *)
(*                                                                         *)
(* The limiter is external (golang.org/x/time/rate): a token bucket.  Its  *)
(* tokens are counted as the time it took to earn them.  When a cleaner    *)
(* wakes up is left open.                                                  *)
(***************************************************************************)
EXTENDS Integers, Sequences, FiniteSets

CONSTANTS Workers,    \* goroutines that serve requests
          Clients,    \* the addresses that requests come from
          Instances,  \* the limiters that New has returned
          Burst,      \* Burst[i]: the tokens that a bucket of i holds
          Interval,   \* Interval[i]: Duration / Requests, a token's time
          ExpiresIn,  \* ExpiresIn[i]: what the cleaner of i goes by
          Chains,     \* the sequences of instances that requests go through
          Limiters,   \* the rate.Limiter objects
          MaxTime,    \* bound: the last tick of the clock
          None        \* nil

Visitor == [limiter: Limiters, lastSeen: 0..MaxTime]
Bucket == [made: Instances, credit: Nat, at: Nat, late: BOOLEAN]
Request == [client: Clients, chain: Chains, passes: 1..2, pass: 1..2, at: Nat \ {0},
            limiter: Limiters \cup {None}, looked: Nat, refused: BOOLEAN, served: BOOLEAN]

\* There is a limiter for each client and for each request that has one in hand.
ASSUME RateLimitAssumption ==
  /\ Burst \in [Instances -> Nat]
  /\ Interval \in [Instances -> Nat \ {0}]
  /\ ExpiresIn \in [Instances -> Nat]
  /\ Chains \subseteq Seq(Instances)
  /\ IsFiniteSet(Limiters) /\ IsFiniteSet(Workers) /\ IsFiniteSet(Clients)
  /\ Cardinality(Limiters) > Cardinality(Workers) + Cardinality(Clients)
  /\ MaxTime \in Nat
  /\ None \notin Limiters \cup Nat
  /\ None \notin Visitor /\ None \notin Bucket /\ None \notin Request

VARIABLES now,       \* the clock
          visitors,  \* visitors[c]: the limiter of c and lastSeen, or None
          limiters,  \* limiters[l]: the state of the bucket l
          req,       \* req[w]: the request that w serves, or None
          lastAsk,   \* history: when a limiter was last asked for c
          refusals,  \* history: what is known of the refusal, if the last step was one
          forgiven   \* history: the buckets in use that the last step swept away

vars == <<now, visitors, limiters, req, lastAsk, refusals, forgiven>>

\* The step refuses nobody and sweeps nothing.
Quiet == refusals' = {} /\ forgiven' = {}

-----------------------------------------------------------------------------
(* Buckets.                                                                *)

\* How long an empty bucket of i takes to fill.
FillTime(i) == Burst[i] * Interval[i]

Smaller(a, b) == IF a < b THEN a ELSE b

\* Mutant of Credit: it goes on growing when the bucket is full.
CreditUncapped(l) == limiters[l].credit + (now - limiters[l].at)

\* What the bucket l holds now.
Credit(l) ==
  Smaller(FillTime(limiters[l].made), limiters[l].credit + (now - limiters[l].at))

\* Mutant of HasToken: the last token is not given away.
HasSpareToken(l) == Credit(l) > Interval[limiters[l].made]

HasToken(l) == Credit(l) >= Interval[limiters[l].made]

\* A token is taken; late is history: longer after the lookup than it should be.
Taken(l, late) ==
  [limiters[l] EXCEPT !.credit = Credit(l) - Interval[limiters[l].made], !.at = now,
                       !.late = @ \/ late]

\* NewVisitor: a full bucket.
NewBucket(i) == [made |-> i, credit |-> FillTime(i), at |-> now, late |-> FALSE]

Serving == {w \in Workers : req[w] # None}

\* The limiters that visitors vs and requests rs refer to.
Referenced(vs, rs) ==
  {vs[c].limiter : c \in {d \in Clients : vs[d] # None}}
    \cup {rs[w].limiter : w \in {v \in Workers : rs[v] # None}}

\* What is not referred to is collected.
Collected(ls, vs, rs) ==
  [l \in Limiters |-> IF l \in Referenced(vs, rs) THEN ls[l] ELSE None]

\* A new rate.Limiter.
Fresh == CHOOSE l \in Limiters : l \notin Referenced(visitors, req)

-----------------------------------------------------------------------------
(* A request.                                                              *)

Init ==
  /\ now = 0
  /\ visitors = [c \in Clients |-> None]
  /\ limiters = [l \in Limiters |-> None]
  /\ req = [w \in Workers |-> None]
  /\ lastAsk = [c \in Clients |-> None]
  /\ refusals = {} /\ forgiven = {}

\* A request of c: at is the instance of the chain that is next, behind the
\* chain is the handler; passes says how often it goes through the chain.
Arrive(w, c, chain, passes) ==
  /\ req[w] = None
  /\ req' = [req EXCEPT ![w] =
               [client |-> c, chain |-> chain, passes |-> passes, pass |-> 1, at |-> 1,
                limiter |-> None, looked |-> 0, refused |-> FALSE, served |-> FALSE]]
  /\ UNCHANGED <<now, visitors, limiters, lastAsk>>
  /\ Quiet

Consulting(w) == req[w] # None /\ req[w].at <= Len(req[w].chain)

\* Mutant of GetVisitor: lastSeen is when the visitor was first seen.
GetVisitorOnce(w) ==
  LET i == req[w].chain[req[w].at]
      c == req[w].client
      new == visitors[c] = None
      l == IF new THEN Fresh ELSE visitors[c].limiter
  IN /\ Consulting(w) /\ req[w].limiter = None
     /\ visitors' = IF new THEN [visitors EXCEPT ![c] = [limiter |-> l, lastSeen |-> now]]
                    ELSE visitors
     /\ limiters' = IF new THEN [limiters EXCEPT ![l] = NewBucket(i)] ELSE limiters
     /\ req' = [req EXCEPT ![w].limiter = l, ![w].looked = now]
     /\ UNCHANGED <<now, lastAsk>>
     /\ Quiet

\* GetVisitor: a bucket is made as the instance that sees the client first wants it.
GetVisitor(w) ==
  LET i == req[w].chain[req[w].at]
      c == req[w].client
      new == visitors[c] = None
      l == IF new THEN Fresh ELSE visitors[c].limiter
  IN /\ Consulting(w) /\ req[w].limiter = None
     /\ visitors' = [visitors EXCEPT ![c] = [limiter |-> l, lastSeen |-> now]]
     /\ limiters' = IF new THEN [limiters EXCEPT ![l] = NewBucket(i)] ELSE limiters
     /\ req' = [req EXCEPT ![w].limiter = l, ![w].looked = now]
     /\ UNCHANGED <<now, lastAsk>>
     /\ Quiet

\* The limiter has been asked: w goes on at the function numbered at.
Asked(w, at, refused) ==
  /\ req' = [req EXCEPT ![w] = [@ EXCEPT !.at = at, !.limiter = None, !.looked = 0,
                                         !.refused = refused]]
  /\ lastAsk' = [lastAsk EXCEPT ![req[w].client] = now]
  /\ UNCHANGED <<now, visitors>>

\* limiter.Allow() has taken a token; c.Next().
Allow(w) ==
  LET l == req[w].limiter
      taken == [limiters EXCEPT ![l] = Taken(l, now > req[w].looked)]
  IN /\ Consulting(w) /\ l # None /\ HasToken(l)
     /\ Asked(w, req[w].at + 1, req[w].refused)
     /\ limiters' = Collected(taken, visitors, req')
     /\ Quiet

\* A limiter was asked for this client less than a token's time ago.
Hasty(w) ==
  LET c == req[w].client
  IN lastAsk[c] # None /\ now - lastAsk[c] < Interval[limiters[req[w].limiter].made]

\* There is none, and w goes on at the function numbered at.
Refused(w, at) ==
  LET l == req[w].limiter
  IN /\ Consulting(w) /\ l # None /\ ~HasToken(l)
     /\ Asked(w, at, TRUE)
     /\ limiters' = Collected(limiters, visitors, req')
     /\ refusals' = {[hasty |-> Hasty(w), made |-> limiters[l].made]}
     /\ forgiven' = {}

\* Mutant of Refuse: the pass goes on to the next function.
RefuseOnly(w) == Refused(w, req[w].at + 1)

\* 429 is written, and the pass ends before the handler.
Refuse(w) == Refused(w, Len(req[w].chain) + 2)

\* The handler of the route.
Serve(w) ==
  /\ req[w] # None /\ req[w].at = Len(req[w].chain) + 1
  /\ req' = [req EXCEPT ![w].at = @ + 1, ![w].served = TRUE]
  /\ UNCHANGED <<now, visitors, limiters, lastAsk>>
  /\ Quiet

\* The pass is over: the dynamic pass starts at the first function again.
PassOver(w) ==
  /\ req[w] # None /\ req[w].at = Len(req[w].chain) + 2
  /\ req' = [req EXCEPT ![w] = IF req[w].pass < req[w].passes
                                 THEN [req[w] EXCEPT !.pass = @ + 1, !.at = 1] ELSE None]
  /\ UNCHANGED <<now, visitors, limiters, lastAsk>>
  /\ Quiet

-----------------------------------------------------------------------------
(* The cleaners and the clock.                                             *)

\* Whom the cleaner of i has not seen for longer than its ExpiresIn.
Stale(i) ==
  {c \in Clients : visitors[c] # None /\ now - visitors[c].lastSeen > ExpiresIn[i]}

\* The bucket that c loses is not full; late says that once a
\* token was taken in a later tick than the lookup had stamped.
Forgotten(i, c) ==
  LET l == visitors[c].limiter
  IN IF Credit(l) = FillTime(limiters[l].made) THEN {}
     ELSE {[by |-> i, made |-> limiters[l].made, late |-> limiters[l].late]}

\* CleanupVisitors, woken up: all visitors are looked at, whoever made them.
CleanupVisitors(i) ==
  /\ Stale(i) # {}
  /\ visitors' = [c \in Clients |-> IF c \in Stale(i) THEN None ELSE visitors[c]]
  /\ limiters' = Collected(limiters, visitors', req)
  /\ forgiven' = UNION {Forgotten(i, c) : c \in Stale(i)}
  /\ refusals' = {}
  /\ UNCHANGED <<now, req, lastAsk>>

Tick ==
  /\ now < MaxTime
  /\ now' = now + 1
  /\ UNCHANGED <<visitors, limiters, req, lastAsk>>
  /\ Quiet

Middleware(w) == GetVisitor(w) \/ Allow(w) \/ Refuse(w)

Next ==
  \/ \E w \in Workers :
       \/ \E c \in Clients, chain \in Chains, passes \in 1..2 : Arrive(w, c, chain, passes)
       \/ Middleware(w) \/ Serve(w) \/ PassOver(w)
  \/ \E i \in Instances : CleanupVisitors(i)
  \/ Tick

Spec == Init /\ [][Next]_vars

-----------------------------------------------------------------------------
(* Properties.                                                             *)

\* Types of the variables; a bucket never holds more than its maker's Burst.
TypeOK ==
  /\ now \in 0..MaxTime
  /\ visitors \in [Clients -> Visitor \cup {None}]
  /\ limiters \in [Limiters -> Bucket \cup {None}]
  /\ \A l \in Limiters : limiters[l] # None => limiters[l].credit <= FillTime(limiters[l].made)
  /\ req \in [Workers -> Request \cup {None}]
  /\ lastAsk \in [Clients -> (0..MaxTime) \cup {None}]
  /\ refusals \subseteq [hasty: BOOLEAN, made: Instances]
  /\ forgiven \subseteq [by: Instances, made: Instances, late: BOOLEAN]

\* A client is refused only if a limiter was asked for it less than a token's time
\* ago: for another request, or for this one, by another instance in its chain, which
\* has the same bucket, or in its first pass.  Or if the bucket can hold no token: the
\* burst of DefaultConfig is 0 ("1 request per second").
SpacedAdmitted == \A r \in refusals : r.hasty \/ Burst[r.made] = 0

\* What a client has used up is forgotten early only by the cleaner of an
\* instance with an ExpiresIn shorter than the bucket takes to fill, whichever
\* instance made the bucket ("Visitor entry expiration", limit.go:15), or if a token
\* was taken later than the lookup was stamped.
SweepKeepsLimit == \A f \in forgiven : f.late \/ ExpiresIn[f.by] < FillTime(f.made)

\* A handler runs for a request that was refused only if its chain was not
\* compiled: then it runs in the one pass and is refused in the other.
RefusedNotServed ==
  \A w \in Serving : req[w].refused /\ req[w].served => req[w].passes = 2
=============================================================================
