-------------------------- MODULE RateLimitProofs ---------------------------
(***************************************************************************)
(* What holds of RateLimit for any goroutines, clients, instances, chains  *)
(* and buckets.                                                            *)
(***************************************************************************)
EXTENDS RateLimit, FiniteSetTheorems, TLAPS

-----------------------------------------------------------------------------
(* The inductive invariant.                                                *)

\* The bucket l is that of the client c, in the map or in a request's hands.
RefersTo(c, l) ==
  \/ visitors[c] # None /\ visitors[c].limiter = l
  \/ \E w \in Workers : req[w] # None /\ req[w].client = c /\ req[w].limiter = l

\* A bucket has one client.
OneClient == \A l \in Limiters : \A c, d \in Clients : RefersTo(c, l) /\ RefersTo(d, l) => c = d

\* It is there; when it was last counted no limiter had been asked since, for its
\* client, if a token has ever been taken out of it.
BucketsOK ==
  \A c \in Clients, l \in Limiters : RefersTo(c, l) =>
    /\ limiters[l] # None
    /\ limiters[l].at <= now
    /\ \/ limiters[l].credit = FillTime(limiters[l].made)
       \/ lastAsk[c] # None /\ limiters[l].at <= lastAsk[c]

\* A visitor was seen after its bucket was last counted, if that was in time.
VisitorsOK ==
  \A c \in Clients : visitors[c] # None =>
    LET l == limiters[visitors[c].limiter]
    IN l.late \/ l.at <= visitors[c].lastSeen

\* A lookup is not later than lastSeen, as long as the visitor is the same.
LookupsOK ==
  \A w \in Workers : req[w] # None /\ req[w].limiter # None =>
    /\ req[w].looked <= now
    /\ LET v == visitors[req[w].client]
       IN v # None /\ v.limiter = req[w].limiter => req[w].looked <= v.lastSeen

\* A request that has one pass is refused or served, behind the chain.
PassesOK ==
  \A w \in Workers : req[w] # None /\ req[w].passes = 1 =>
    /\ req[w].pass = 1
    /\ req[w].refused \/ req[w].served => req[w].at = Len(req[w].chain) + 2
    /\ ~(req[w].refused /\ req[w].served)

Times == \A c \in Clients : visitors[c] # None => visitors[c].lastSeen <= now

IInv ==
  /\ TypeOK /\ Times
  /\ OneClient /\ BucketsOK /\ VisitorsOK /\ LookupsOK /\ PassesOK
  /\ SpacedAdmitted /\ SweepKeepsLimit

-----------------------------------------------------------------------------
(* Buckets.                                                                *)

LEMMA FillType ==
  ASSUME NEW i \in Instances
  PROVE  /\ FillTime(i) \in Nat
         /\ Interval[i] \in Nat /\ Interval[i] > 0
         /\ Burst[i] # 0 => Interval[i] <= FillTime(i)
<1>1. Burst[i] \in Nat /\ Interval[i] \in Nat \ {0}
  BY RateLimitAssumption
<1>2. \A b, n \in Nat : b * n \in Nat /\ (b # 0 => n <= b * n)
  OBVIOUS
<1>3. QED
  BY <1>1, <1>2 DEF FillTime

\* What a bucket holds is no more than it has room for, and no less than it earned.
LEMMA CreditType ==
  ASSUME TypeOK, NEW l \in Limiters, limiters[l] # None
  PROVE  LET i == limiters[l].made
         IN /\ limiters[l] \in Bucket /\ i \in Instances
            /\ FillTime(i) \in Nat
            /\ Credit(l) \in Int /\ Credit(l) <= FillTime(i)
            /\ limiters[l].at <= now => Credit(l) \in Nat /\ limiters[l].credit <= Credit(l)
            /\ Credit(l) < FillTime(i) =>
                 Credit(l) = limiters[l].credit + (now - limiters[l].at)
<1>1. /\ limiters[l] \in Bucket /\ limiters[l].made \in Instances /\ limiters[l].credit \in Nat
      /\ limiters[l].at \in Nat /\ limiters[l].credit <= FillTime(limiters[l].made)
      /\ now \in Nat
  BY RateLimitAssumption DEF TypeOK, Bucket
<1>2. FillTime(limiters[l].made) \in Nat
  BY <1>1, FillType
<1>3. QED
  BY <1>1, <1>2 DEF Credit, Smaller

\* A bucket from which a token is taken.
LEMMA TakenType ==
  ASSUME TypeOK, NEW l \in Limiters, limiters[l] # None, HasToken(l), NEW late \in BOOLEAN
  PROVE  /\ Taken(l, late) \in Bucket
         /\ Taken(l, late).made = limiters[l].made
         /\ Taken(l, late).credit <= FillTime(limiters[l].made)
         /\ Taken(l, late).at = now
         /\ Taken(l, late).late = (limiters[l].late \/ late)
<1> DEFINE b == limiters[l]
           rest == Credit(l) - Interval[b.made]
           ever == b.late \/ late
<1>1. /\ b \in Bucket /\ b.made \in Instances /\ Credit(l) \in Int
      /\ Credit(l) <= FillTime(b.made) /\ FillTime(b.made) \in Nat /\ now \in Nat
  BY CreditType, RateLimitAssumption DEF TypeOK
<1>2. rest \in Nat /\ rest <= FillTime(b.made)
  BY <1>1, FillType DEF HasToken
<1>3. ever \in BOOLEAN
  OBVIOUS
<1>4. Taken(l, late) = [b EXCEPT !.credit = rest, !.at = now, !.late = ever]
  BY DEF Taken
<1> HIDE DEF b, rest, ever
<1>5. [b EXCEPT !.credit = rest, !.at = now, !.late = ever] \in Bucket
  BY <1>1, <1>2, <1>3 DEF Bucket
<1>6. /\ [b EXCEPT !.credit = rest, !.at = now, !.late = ever].made = b.made
      /\ [b EXCEPT !.credit = rest, !.at = now, !.late = ever].credit = rest
      /\ [b EXCEPT !.credit = rest, !.at = now, !.late = ever].at = now
      /\ [b EXCEPT !.credit = rest, !.at = now, !.late = ever].late = ever
  BY <1>1, <1>2, <1>3 DEF Bucket
<1>7. QED
  BY <1>2, <1>4, <1>5, <1>6 DEF b, ever

-----------------------------------------------------------------------------
(* References.                                                             *)

LEMMA ReferencedBy ==
  ASSUME TypeOK, NEW l \in Limiters
  PROVE  l \in Referenced(visitors, req) <=> \E c \in Clients : RefersTo(c, l)
<1>1. \A w \in Workers : req[w] # None => req[w].client \in Clients
  BY DEF TypeOK, Request
<1>2. QED
  BY <1>1 DEF Referenced, RefersTo

\* There are more limiters than references to any.
LEMMA FreshIsFresh ==
  ASSUME TypeOK
  PROVE  Fresh \in Limiters /\ Fresh \notin Referenced(visitors, req)
<1> DEFINE C == {c \in Clients : visitors[c] # None}
           W == {w \in Workers : req[w] # None}
           A == {visitors[c].limiter : c \in C}
           B == {req[w].limiter : w \in W}
           f == [c \in C |-> visitors[c].limiter]
           g == [w \in W |-> req[w].limiter]
<1>1. /\ IsFiniteSet(Clients) /\ IsFiniteSet(Workers) /\ IsFiniteSet(Limiters)
      /\ Cardinality(Limiters) > Cardinality(Workers) + Cardinality(Clients)
  BY RateLimitAssumption
<1>2. /\ IsFiniteSet(C) /\ Cardinality(C) <= Cardinality(Clients)
      /\ IsFiniteSet(W) /\ Cardinality(W) <= Cardinality(Workers)
  <2>1. C \in SUBSET Clients /\ W \in SUBSET Workers
    OBVIOUS
  <2> HIDE DEF C, W
  <2>2. QED
    BY <1>1, <2>1, FS_Subset
<1>3. f \in Surjection(C, A) /\ g \in Surjection(W, B)
  BY DEF Surjection
<1> HIDE DEF f, g, C, W
<1>4. /\ IsFiniteSet(A) /\ Cardinality(A) <= Cardinality(C)
      /\ IsFiniteSet(B) /\ Cardinality(B) <= Cardinality(W)
  <2> HIDE DEF A, B
  <2>1. QED
    BY <1>2, <1>3, FS_Surjection
<1> HIDE DEF A, B
<1>5. /\ Cardinality(A) \in Nat /\ Cardinality(B) \in Nat /\ Cardinality(A \cap B) \in Nat
      /\ Cardinality(C) \in Nat /\ Cardinality(W) \in Nat
      /\ Cardinality(Clients) \in Nat /\ Cardinality(Workers) \in Nat
      /\ Cardinality(Limiters) \in Nat
  <2>1. IsFiniteSet(A \cap B)
    BY <1>4, FS_Intersection
  <2>2. QED
    BY <1>1, <1>2, <1>4, <2>1, FS_CardinalityType
<1>6. /\ IsFiniteSet(A \cup B)
      /\ Cardinality(A \cup B) = Cardinality(A) + Cardinality(B) - Cardinality(A \cap B)
  BY <1>4, FS_Union
<1>7. ~(Limiters \subseteq A \cup B)
  BY <1>1, <1>2, <1>4, <1>5, <1>6, FS_Subset
<1>8. Referenced(visitors, req) = A \cup B
  BY DEF Referenced, A, B, C, W
<1>9. QED
  BY <1>7, <1>8 DEF Fresh

-----------------------------------------------------------------------------
(* Steps.                                                                  *)

\* A step that makes no reference, keeps the buckets that are referred to and
\* does not turn the clock back keeps what is said of them.
LEMMA NothingNew ==
  ASSUME IInv, TypeOK', now <= now',
         \A c \in Clients : visitors'[c] = None \/ visitors'[c] = visitors[c],
         \A w \in Workers : req'[w] # None /\ req'[w].limiter # None =>
           /\ req[w] # None /\ req[w].limiter = req'[w].limiter
           /\ req[w].client = req'[w].client /\ req[w].looked = req'[w].looked,
         \A l \in Limiters : l \in Referenced(visitors, req)' => limiters'[l] = limiters[l],
         \A c \in Clients : lastAsk'[c] = lastAsk[c] \/ lastAsk'[c] = now
  PROVE  Times' /\ OneClient' /\ BucketsOK' /\ VisitorsOK' /\ LookupsOK'
<1>1. now \in Nat /\ now' \in Nat
  BY RateLimitAssumption DEF IInv, TypeOK
<1>2. Times'
  <2>1. \A c \in Clients : visitors[c] # None => visitors[c].lastSeen \in Nat
    BY RateLimitAssumption DEF IInv, TypeOK, Visitor
  <2>2. QED
    BY <1>1, <2>1 DEF IInv, Times
<1>3. \A c \in Clients, l \in Limiters : RefersTo(c, l)' =>
        RefersTo(c, l) /\ limiters'[l] = limiters[l]
  <2>1. SUFFICES ASSUME NEW c \in Clients, NEW l \in Limiters, RefersTo(c, l)'
                 PROVE  RefersTo(c, l) /\ limiters'[l] = limiters[l]
    OBVIOUS
  <2>2. l \in Referenced(visitors, req)'
    BY <2>1 DEF Referenced, RefersTo
  <2>3. l # None
    BY RateLimitAssumption
  <2>4. RefersTo(c, l)
    BY <2>1, <2>3 DEF RefersTo
  <2>5. QED
    BY <2>2, <2>4
<1>4. OneClient'
  BY <1>3 DEF IInv, OneClient
<1>5. BucketsOK'
  <2>1. SUFFICES ASSUME NEW c \in Clients, NEW l \in Limiters, RefersTo(c, l)'
                 PROVE  /\ limiters'[l] # None
                        /\ limiters'[l].at <= now'
                        /\ \/ limiters'[l].credit = FillTime(limiters'[l].made)
                           \/ lastAsk'[c] # None /\ limiters'[l].at <= lastAsk'[c]
    BY DEF BucketsOK, FillTime
  <2>2. limiters'[l] = limiters[l] /\ RefersTo(c, l)
    BY <1>3, <2>1
  <2>3. /\ limiters[l] # None /\ limiters[l].at <= now
        /\ \/ limiters[l].credit = FillTime(limiters[l].made)
           \/ lastAsk[c] # None /\ limiters[l].at <= lastAsk[c]
    BY <2>2 DEF IInv, BucketsOK
  <2>4. limiters[l].at \in Nat
    BY <2>3 DEF IInv, TypeOK, Bucket
  <2>5. now # None
    BY <1>1, RateLimitAssumption
  <2>6. QED
    BY <1>1, <2>2, <2>3, <2>4, <2>5
<1>6. VisitorsOK'
  <2>1. SUFFICES ASSUME NEW c \in Clients, visitors'[c] # None
                 PROVE  \/ limiters'[visitors'[c].limiter].late
                        \/ limiters'[visitors'[c].limiter].at <= visitors'[c].lastSeen
    BY DEF VisitorsOK
  <2>2. visitors'[c] = visitors[c]
    BY <2>1
  <2>3. PICK l \in Limiters : visitors'[c].limiter = l
    BY <2>1 DEF TypeOK, Visitor
  <2>4. RefersTo(c, l)'
    BY <2>1, <2>3 DEF RefersTo
  <2>5. limiters'[l] = limiters[l]
    BY <1>3, <2>4
  <2>6. QED
    BY <2>1, <2>2, <2>3, <2>5 DEF IInv, VisitorsOK
<1>7. LookupsOK'
  <2>1. SUFFICES ASSUME NEW w \in Workers, req'[w] # None, req'[w].limiter # None
                 PROVE  /\ req'[w].looked <= now'
                        /\ LET v == visitors'[req'[w].client]
                           IN v # None /\ v.limiter = req'[w].limiter
                                => req'[w].looked <= v.lastSeen
    BY DEF LookupsOK
  <2>2. /\ req[w] # None /\ req[w].limiter = req'[w].limiter
        /\ req[w].client = req'[w].client /\ req[w].looked = req'[w].looked
    BY <2>1
  <2>3. req[w].client \in Clients /\ req[w].looked \in Nat
    BY <2>2 DEF IInv, TypeOK, Request
  <2>4. QED
    BY <1>1, <2>1, <2>2, <2>3 DEF IInv, LookupsOK
<1>8. QED
  BY <1>2, <1>4, <1>5, <1>6, <1>7

LEMMA ArriveKeeps ==
  ASSUME IInv, NEW w \in Workers, NEW c \in Clients, NEW chain \in Chains,
         NEW passes \in 1..2, Arrive(w, c, chain, passes)
  PROVE  IInv'
<1> DEFINE zero == 0
           one == 1
           no == FALSE
           nil == None
           r == [client |-> c, chain |-> chain, passes |-> passes, pass |-> one, at |-> one,
                 limiter |-> nil, looked |-> zero, refused |-> no, served |-> no]
<1>1. req' = [req EXCEPT ![w] = r]
  BY DEF Arrive
<1>2. /\ zero \in Nat /\ one \in 1..2 /\ one \in Nat \ {0} /\ one = 1 /\ no \in BOOLEAN /\ ~no
      /\ nil \in Limiters \cup {None} /\ nil = None
  OBVIOUS
<1> HIDE DEF zero, one, no, nil
<1>3. r \in Request
  BY <1>2 DEF Request
<1>4. /\ r.limiter = None /\ r.pass = 1 /\ ~r.refused /\ ~r.served
  BY <1>2
<1> HIDE DEF r
<1>5. /\ req \in [Workers -> Request \cup {None}]
      /\ req' \in [Workers -> Request \cup {None}]
      /\ \A u \in Workers : req'[u] = IF u = w THEN r ELSE req[u]
  BY <1>1, <1>3 DEF IInv, TypeOK
<1>6. UNCHANGED <<now, visitors, limiters, lastAsk>> /\ refusals' = {} /\ forgiven' = {}
  BY DEF Arrive, Quiet
<1>7. TypeOK'
  BY <1>5, <1>6 DEF IInv, TypeOK, FillTime
<1>8. PassesOK'
  BY <1>4, <1>5 DEF IInv, PassesOK
<1>9. SpacedAdmitted' /\ SweepKeepsLimit'
  BY <1>6 DEF SpacedAdmitted, SweepKeepsLimit
<1>10. now <= now'
  BY <1>6, RateLimitAssumption DEF IInv, TypeOK
<1>11. Times' /\ OneClient' /\ BucketsOK' /\ VisitorsOK' /\ LookupsOK'
  BY <1>4, <1>5, <1>6, <1>7, <1>10, NothingNew
<1>12. QED
  BY <1>7, <1>8, <1>9, <1>11 DEF IInv

\* A request whose limiter has been asked.
LEMMA AskedRequest ==
  ASSUME IInv, NEW w \in Workers, req[w] # None,
         NEW at \in Nat \ {0}, NEW refused \in BOOLEAN, Asked(w, at, refused)
  PROVE  /\ req' \in [Workers -> Request \cup {None}]
         /\ \A u \in Workers : u # w => req'[u] = req[u]
         /\ req'[w].chain = req[w].chain /\ req'[w].passes = req[w].passes
         /\ req'[w].pass = req[w].pass /\ req'[w].at = at /\ req'[w].limiter = None
         /\ req'[w].refused = refused /\ req'[w].served = req[w].served
         /\ lastAsk' = [lastAsk EXCEPT ![req[w].client] = now]
         /\ UNCHANGED <<now, visitors>>
<1> DEFINE zero == 0
           nil == None
<1>1. PICK r \in Request : r = req[w]
  BY DEF IInv, TypeOK
<1> DEFINE q == [r EXCEPT !.at = at, !.limiter = nil, !.looked = zero, !.refused = refused]
<1>2. req' = [req EXCEPT ![w] = q] /\ req \in [Workers -> Request \cup {None}]
  BY <1>1 DEF Asked, IInv, TypeOK
<1>3. zero \in Nat /\ nil \in Limiters \cup {None} /\ nil = None
  OBVIOUS
<1> HIDE DEF zero, nil
<1>4. q \in Request
  BY <1>3 DEF Request
<1>5. /\ q.chain = r.chain /\ q.passes = r.passes /\ q.pass = r.pass /\ q.at = at
      /\ q.limiter = nil /\ q.refused = refused /\ q.served = r.served
  BY DEF Request
<1> HIDE DEF q
<1>6. /\ req' \in [Workers -> Request \cup {None}]
      /\ \A u \in Workers : req'[u] = IF u = w THEN q ELSE req[u]
  BY <1>2, <1>4
<1>7. QED
  BY <1>1, <1>3, <1>5, <1>6 DEF Asked

\* The step of a request that is refused: its client, that has this bucket to
\* itself, has just been asked for.
LEMMA RefuseKeeps ==
  ASSUME IInv, NEW w \in Workers, Refuse(w)
  PROVE  IInv'
<1> DEFINE l == req[w].limiter
           c == req[w].client
           i == limiters[l].made
<1>1. /\ req[w] # None /\ req[w] \in Request /\ l \in Limiters /\ c \in Clients
      /\ Len(req[w].chain) \in Nat /\ req[w].at <= Len(req[w].chain)
      /\ ~HasToken(l) /\ now \in Nat
  <2>1. req[w] # None /\ l # None /\ req[w].at <= Len(req[w].chain) /\ ~HasToken(l)
    BY DEF Refuse, Refused, Consulting
  <2>2. req[w] \in Request
    BY <2>1 DEF IInv, TypeOK
  <2>3. QED
    BY <2>1, <2>2, RateLimitAssumption DEF Request, IInv, TypeOK
<1>2. PICK at \in Nat \ {0} : at = Len(req[w].chain) + 2
  BY <1>1
<1>3. /\ Asked(w, at, TRUE)
      /\ limiters' = Collected(limiters, visitors', req')
      /\ refusals' = {[hasty |-> Hasty(w), made |-> i]} /\ forgiven' = {}
  BY <1>2 DEF Refuse, Refused, Asked
<1>4. TRUE \in BOOLEAN
  OBVIOUS
<1>5. /\ req' \in [Workers -> Request \cup {None}]
      /\ \A u \in Workers : u # w => req'[u] = req[u]
      /\ req'[w].chain = req[w].chain /\ req'[w].passes = req[w].passes
      /\ req'[w].pass = req[w].pass /\ req'[w].at = at /\ req'[w].limiter = None
      /\ req'[w].refused = TRUE /\ req'[w].served = req[w].served
      /\ lastAsk' = [lastAsk EXCEPT ![c] = now]
      /\ UNCHANGED <<now, visitors>>
  BY <1>1, <1>3, <1>4, AskedRequest
<1>6. RefersTo(c, l)
  BY <1>1 DEF RefersTo
<1>7. limiters[l] # None /\ i \in Instances
  BY <1>1, <1>6, CreditType DEF IInv, BucketsOK
<1>8. TypeOK'
  <2>1. lastAsk' \in [Clients -> (0..MaxTime) \cup {None}]
    BY <1>5 DEF IInv, TypeOK
  <2>2. /\ limiters' \in [Limiters -> Bucket \cup {None}]
        /\ \A k \in Limiters : limiters'[k] # None =>
             limiters'[k].credit <= FillTime(limiters'[k].made)
    BY <1>3 DEF IInv, TypeOK, Collected
  <2>3. refusals' \subseteq [hasty: BOOLEAN, made: Instances]
    BY <1>3, <1>7 DEF Hasty
  <2>4. QED
    BY <1>3, <1>5, <2>1, <2>2, <2>3 DEF IInv, TypeOK, FillTime
<1>9. PassesOK'
  BY <1>1, <1>2, <1>5 DEF IInv, PassesOK, Request
<1>10. SpacedAdmitted'
  <2>1. SUFFICES ASSUME ~Hasty(w), Burst[i] # 0
                 PROVE  FALSE
    BY <1>3 DEF SpacedAdmitted
  <2>2. lastAsk[c] = None \/ now - lastAsk[c] >= Interval[i]
    <3>1. lastAsk[c] = None \/ lastAsk[c] \in Nat
      BY <1>1, RateLimitAssumption DEF IInv, TypeOK
    <3>2. Interval[i] \in Nat
      BY <1>7, FillType
    <3>3. QED
      BY <1>1, <2>1, <3>1, <3>2 DEF Hasty
  <2>3. /\ limiters[l].at <= now /\ limiters[l].at \in Nat /\ limiters[l].credit \in Nat
        /\ \/ limiters[l].credit = FillTime(i)
           \/ lastAsk[c] # None /\ limiters[l].at <= lastAsk[c]
    BY <1>1, <1>6, <1>7 DEF IInv, BucketsOK, TypeOK, Bucket
  <2>4. /\ Credit(l) \in Nat /\ limiters[l].credit <= Credit(l) /\ FillTime(i) \in Nat
        /\ Credit(l) < FillTime(i) => Credit(l) = limiters[l].credit + (now - limiters[l].at)
    BY <1>1, <1>7, <2>3, CreditType DEF IInv
  <2>5. Interval[i] <= FillTime(i) /\ Interval[i] \in Nat
    BY <1>7, <2>1, FillType
  <2>6. Credit(l) < Interval[i]
    BY <1>1, <2>4, <2>5 DEF HasToken
  <2>7. lastAsk[c] \in Nat /\ limiters[l].at <= lastAsk[c]
    BY <1>1, <2>3, <2>4, <2>5, <2>6, RateLimitAssumption DEF IInv, TypeOK
  <2>8. now - lastAsk[c] >= Interval[i]
    BY <2>2, <2>7, RateLimitAssumption
  <2> DEFINE asked == lastAsk[c]
             made == limiters[l]
             credit == Credit(l)
             full == FillTime(i)
             step == Interval[i]
  <2>9. /\ now \in Nat /\ asked \in Nat /\ made.at \in Nat /\ made.credit \in Nat /\ credit \in Nat
        /\ full \in Nat /\ step \in Nat
        /\ made.at <= asked /\ now - asked >= step /\ credit < step /\ step <= full
        /\ credit < full => credit = made.credit + (now - made.at)
    BY <1>1, <2>3, <2>4, <2>5, <2>6, <2>7, <2>8
  <2> HIDE DEF asked, made, credit, full, step
  <2>10. QED
    BY <2>9
<1>11. SweepKeepsLimit'
  BY <1>3 DEF SweepKeepsLimit
<1>12. \A k \in Limiters : k \in Referenced(visitors, req)' => limiters'[k] = limiters[k]
  BY <1>3 DEF Collected
<1>13. \A d \in Clients : lastAsk'[d] = lastAsk[d] \/ lastAsk'[d] = now
  BY <1>5 DEF IInv, TypeOK
<1>14. \A u \in Workers : req'[u] # None /\ req'[u].limiter # None => req'[u] = req[u]
  BY <1>5
<1>15. now <= now' /\ \A d \in Clients : visitors'[d] = visitors[d]
  BY <1>1, <1>5
<1>16. Times' /\ OneClient' /\ BucketsOK' /\ VisitorsOK' /\ LookupsOK'
  BY <1>8, <1>12, <1>13, <1>14, <1>15, NothingNew
<1>17. QED
  BY <1>8, <1>9, <1>10, <1>11, <1>16 DEF IInv

LEMMA ServeKeeps ==
  ASSUME IInv, NEW w \in Workers, Serve(w)
  PROVE  IInv'
<1>1. PICK r \in Request : r = req[w] /\ r # None
  BY DEF Serve, IInv, TypeOK
<1>2. r.at = Len(r.chain) + 1 /\ r.at \in Nat
  BY <1>1 DEF Serve, Request
<1> DEFINE yes == TRUE
           at == r.at + 1
           q == [r EXCEPT !.at = at, !.served = yes]
<1>3. req' = [req EXCEPT ![w] = q] /\ req \in [Workers -> Request \cup {None}]
  BY <1>1 DEF Serve, IInv, TypeOK
<1>4. yes \in BOOLEAN /\ yes /\ at \in Nat \ {0} /\ at = Len(r.chain) + 2
  BY <1>2, <1>1, RateLimitAssumption DEF Request
<1> HIDE DEF yes, at
<1>5. q \in Request
  BY <1>4 DEF Request
<1>6. /\ q.client = r.client /\ q.chain = r.chain /\ q.passes = r.passes /\ q.pass = r.pass
      /\ q.at = at /\ q.limiter = r.limiter /\ q.looked = r.looked /\ q.refused = r.refused
  BY DEF Request
<1> HIDE DEF q
<1>7. /\ req' \in [Workers -> Request \cup {None}]
      /\ \A u \in Workers : req'[u] = IF u = w THEN q ELSE req[u]
  BY <1>3, <1>5
<1>8. UNCHANGED <<now, visitors, limiters, lastAsk>> /\ refusals' = {} /\ forgiven' = {}
  BY DEF Serve, Quiet
<1>9. TypeOK'
  BY <1>7, <1>8 DEF IInv, TypeOK, FillTime
<1>10. PassesOK'
  <2>1. \A u \in Workers : u # w => req'[u] = req[u]
    BY <1>7
  <2>2. r.passes = 1 => r.pass = 1 /\ ~r.refused
    <3>1. r.at # Len(r.chain) + 2
      BY <1>1, <1>2, RateLimitAssumption DEF Request
    <3>2. QED
      BY <1>1, <3>1 DEF IInv, PassesOK
  <2>3. QED
    BY <1>4, <1>6, <1>7, <2>1, <2>2 DEF IInv, PassesOK
<1>11. SpacedAdmitted' /\ SweepKeepsLimit'
  BY <1>8 DEF SpacedAdmitted, SweepKeepsLimit
<1>12. now <= now'
  BY <1>8, RateLimitAssumption DEF IInv, TypeOK
<1>13. Times' /\ OneClient' /\ BucketsOK' /\ VisitorsOK' /\ LookupsOK'
  BY <1>1, <1>6, <1>7, <1>8, <1>9, <1>12, NothingNew
<1>14. QED
  BY <1>9, <1>10, <1>11, <1>13 DEF IInv

LEMMA PassOverKeeps ==
  ASSUME IInv, NEW w \in Workers, PassOver(w)
  PROVE  IInv'
<1>1. PICK r \in Request : r = req[w] /\ r # None
  BY DEF PassOver, IInv, TypeOK
<1> DEFINE one == 1
           pass == r.pass + 1
           q == [r EXCEPT !.pass = pass, !.at = one]
<1>2. req' = [req EXCEPT ![w] = IF r.pass < r.passes THEN q ELSE None]
  <2>1. req \in [Workers -> Request \cup {None}]
    BY DEF IInv, TypeOK
  <2>2. req' = [req EXCEPT ![w] = IF req[w].pass < req[w].passes
                  THEN [req[w] EXCEPT !.pass = req[w].pass + 1, !.at = 1] ELSE None]
    BY <2>1 DEF PassOver
  <2>3. QED
    BY <1>1, <2>2
<1>3. /\ one \in Nat \ {0} /\ r.pass \in 1..2 /\ r.passes \in 1..2
      /\ r.pass < r.passes => pass \in 1..2
  BY DEF Request
<1> HIDE DEF one, pass
<1>4. r.pass < r.passes => q \in Request
  BY <1>3 DEF Request
<1>5. /\ q.client = r.client /\ q.limiter = r.limiter /\ q.looked = r.looked
      /\ q.passes = r.passes
  BY DEF Request
<1> HIDE DEF q
<1>6. /\ req' \in [Workers -> Request \cup {None}]
      /\ \A u \in Workers : u # w => req'[u] = req[u]
      /\ req'[w] # None => r.pass < r.passes /\ req'[w] = q
  BY <1>2, <1>4 DEF IInv, TypeOK
<1>7. UNCHANGED <<now, visitors, limiters, lastAsk>> /\ refusals' = {} /\ forgiven' = {}
  BY DEF PassOver, Quiet
<1>8. TypeOK'
  BY <1>6, <1>7 DEF IInv, TypeOK, FillTime
<1>9. PassesOK'
  BY <1>3, <1>5, <1>6 DEF IInv, PassesOK
<1>10. SpacedAdmitted' /\ SweepKeepsLimit'
  BY <1>7 DEF SpacedAdmitted, SweepKeepsLimit
<1>11. now <= now'
  BY <1>7, RateLimitAssumption DEF IInv, TypeOK
<1>12. \A u \in Workers : req'[u] # None /\ req'[u].limiter # None =>
         /\ req[u] # None /\ req[u].limiter = req'[u].limiter
         /\ req[u].client = req'[u].client /\ req[u].looked = req'[u].looked
  BY <1>1, <1>5, <1>6
<1>13. Times' /\ OneClient' /\ BucketsOK' /\ VisitorsOK' /\ LookupsOK'
  BY <1>7, <1>8, <1>11, <1>12, NothingNew
<1>14. QED
  BY <1>8, <1>9, <1>10, <1>13 DEF IInv

LEMMA TickKeeps ==
  ASSUME IInv, Tick
  PROVE  IInv'
<1>1. UNCHANGED <<visitors, limiters, req, lastAsk>> /\ refusals' = {} /\ forgiven' = {}
  BY DEF Tick, Quiet
<1>2. now' \in 0..MaxTime /\ now <= now'
  BY RateLimitAssumption DEF Tick, IInv, TypeOK
<1>3. TypeOK'
  BY <1>1, <1>2 DEF IInv, TypeOK, FillTime
<1>4. PassesOK' /\ SpacedAdmitted' /\ SweepKeepsLimit'
  BY <1>1 DEF IInv, PassesOK, SpacedAdmitted, SweepKeepsLimit
<1>5. Times' /\ OneClient' /\ BucketsOK' /\ VisitorsOK' /\ LookupsOK'
  BY <1>1, <1>2, <1>3, NothingNew
<1>6. QED
  BY <1>3, <1>4, <1>5 DEF IInv

\* What CleanupVisitors takes had been there, unseen, for longer than ExpiresIn.
LEMMA CleanupVisitorsKeeps ==
  ASSUME IInv, NEW i \in Instances, CleanupVisitors(i)
  PROVE  IInv'
<1>1. /\ limiters' = Collected(limiters, visitors', req)
      /\ visitors' = [c \in Clients |-> IF c \in Stale(i) THEN None ELSE visitors[c]]
      /\ forgiven' = UNION {Forgotten(i, c) : c \in Stale(i)}
      /\ refusals' = {} /\ UNCHANGED <<now, req, lastAsk>>
  BY DEF CleanupVisitors
<1>2. \A c \in Clients : visitors'[c] = None \/ visitors'[c] = visitors[c]
  BY <1>1
<1>3. \A c \in Stale(i) :
        LET l == visitors[c].limiter
        IN /\ c \in Clients /\ visitors[c] # None /\ visitors[c] \in Visitor
           /\ now - visitors[c].lastSeen > ExpiresIn[i]
           /\ l \in Limiters /\ RefersTo(c, l)
           /\ limiters[l] # None /\ limiters[l] \in Bucket /\ limiters[l].at <= now
  <2>1. SUFFICES ASSUME NEW c \in Clients, visitors[c] # None
                 PROVE  LET l == visitors[c].limiter
                        IN /\ visitors[c] \in Visitor /\ l \in Limiters /\ RefersTo(c, l)
                           /\ limiters[l] # None /\ limiters[l] \in Bucket
                           /\ limiters[l].at <= now
    BY DEF Stale
  <2>2. visitors[c] \in Visitor /\ visitors[c].limiter \in Limiters
    BY <2>1 DEF IInv, TypeOK, Visitor
  <2>3. RefersTo(c, visitors[c].limiter)
    BY <2>1 DEF RefersTo
  <2>4. QED
    BY <2>2, <2>3 DEF IInv, BucketsOK, TypeOK
<1>4. TypeOK'
  <2>1. visitors' \in [Clients -> Visitor \cup {None}]
    BY <1>1 DEF IInv, TypeOK
  <2>2. /\ limiters' \in [Limiters -> Bucket \cup {None}]
        /\ \A k \in Limiters : limiters'[k] # None =>
             limiters'[k].credit <= FillTime(limiters'[k].made)
    BY <1>1 DEF IInv, TypeOK, Collected
  <2>3. forgiven' \subseteq [by: Instances, made: Instances, late: BOOLEAN]
    BY <1>1, <1>3 DEF Forgotten, Bucket
  <2>4. QED
    BY <1>1, <2>1, <2>2, <2>3 DEF IInv, TypeOK, FillTime
<1>5. SweepKeepsLimit'
  <2>1. SUFFICES ASSUME NEW c \in Stale(i), NEW f \in Forgotten(i, c), ~f.late
                 PROVE  ExpiresIn[f.by] < FillTime(f.made)
    BY <1>1 DEF SweepKeepsLimit, FillTime
  <2> DEFINE l == visitors[c].limiter
             v == visitors[c]
             b == limiters[l]
             credit == Credit(l)
             full == FillTime(b.made)
             longest == ExpiresIn[i]
  <2>2. f.by = i /\ f.made = b.made /\ f.late = b.late /\ credit # full
    BY DEF Forgotten
  <2>3. /\ b.at \in Nat /\ b.at <= now /\ b.credit \in Nat /\ v.lastSeen \in Nat
        /\ now - v.lastSeen > longest /\ longest \in Nat /\ now \in Nat
    BY <1>3, RateLimitAssumption DEF IInv, TypeOK, Bucket, Visitor
  <2>4. /\ full \in Nat /\ credit \in Nat /\ credit <= full
        /\ credit < full => credit = b.credit + (now - b.at)
    BY <1>3, CreditType DEF IInv
  <2>5. b.at <= v.lastSeen
    BY <1>3, <2>1, <2>2 DEF IInv, VisitorsOK
  <2> HIDE DEF v, b, credit, full, longest
  <2>6. longest < full
    BY <2>2, <2>3, <2>4, <2>5
  <2>7. QED
    BY <2>2, <2>6 DEF longest, full
<1>6. PassesOK' /\ SpacedAdmitted'
  BY <1>1 DEF IInv, PassesOK, SpacedAdmitted
<1>7. \A k \in Limiters : k \in Referenced(visitors, req)' => limiters'[k] = limiters[k]
  BY <1>1 DEF Collected
<1>8. now <= now'
  BY <1>1, RateLimitAssumption DEF IInv, TypeOK
<1>9. Times' /\ OneClient' /\ BucketsOK' /\ VisitorsOK' /\ LookupsOK'
  BY <1>1, <1>2, <1>4, <1>7, <1>8, NothingNew
<1>10. QED
  BY <1>4, <1>5, <1>6, <1>9 DEF IInv

\* A token is taken, out of a bucket that its client has to itself.
LEMMA AllowKeeps ==
  ASSUME IInv, NEW w \in Workers, Allow(w)
  PROVE  IInv'
<1>1. req[w] # None /\ req[w] \in Request /\ req[w].at \in Nat \ {0} /\ req[w].refused \in BOOLEAN
  BY DEF Allow, Consulting, IInv, TypeOK, Request
<1>2. PICK l \in Limiters : l = req[w].limiter
  BY <1>1 DEF Allow, Request
<1>3. PICK c \in Clients : c = req[w].client
  BY <1>1 DEF Request
<1>4. PICK late \in BOOLEAN : late = (now > req[w].looked)
  <2>1. now \in Nat /\ req[w].looked \in Nat
    BY <1>1, RateLimitAssumption DEF IInv, TypeOK, Request
  <2>2. CASE now > req[w].looked
    <3>1. TRUE = (now > req[w].looked)
      BY <2>1, <2>2
    <3>2. QED
      BY <3>1
  <2>3. CASE ~(now > req[w].looked)
    <3>1. FALSE = (now > req[w].looked)
      BY <2>1, <2>3
    <3>2. QED
      BY <3>1
  <2>4. QED
    BY <2>2, <2>3
<1>5. PICK at \in Nat \ {0} : at = req[w].at + 1
  BY <1>1
<1>6. PICK refused \in BOOLEAN : refused = req[w].refused
  BY <1>1
<1>7. /\ HasToken(l) /\ Asked(w, at, refused) /\ req[w].at <= Len(req[w].chain)
      /\ limiters' = Collected([limiters EXCEPT ![l] = Taken(l, late)], visitors, req')
      /\ refusals' = {} /\ forgiven' = {}
  BY <1>2, <1>4, <1>5, <1>6 DEF Allow, Quiet, Consulting
<1>8. /\ req' \in [Workers -> Request \cup {None}]
      /\ \A u \in Workers : u # w => req'[u] = req[u]
      /\ req'[w].chain = req[w].chain /\ req'[w].passes = req[w].passes
      /\ req'[w].pass = req[w].pass /\ req'[w].at = at /\ req'[w].limiter = None
      /\ req'[w].refused = req[w].refused /\ req'[w].served = req[w].served
      /\ lastAsk' = [lastAsk EXCEPT ![c] = now]
      /\ UNCHANGED <<now, visitors>>
  BY <1>1, <1>3, <1>6, <1>7, AskedRequest
<1>9. RefersTo(c, l)
  BY <1>1, <1>2, <1>3 DEF RefersTo
<1>10. PICK b \in Bucket : b = Taken(l, late)
  BY <1>7, <1>9, TakenType DEF IInv, BucketsOK
<1>11. /\ b.credit <= FillTime(b.made) /\ b.at = now /\ b.late = (limiters[l].late \/ late)
  BY <1>7, <1>9, <1>10, TakenType DEF IInv, BucketsOK
<1>12. \A k \in Limiters :
         /\ limiters'[k] # None => limiters'[k] = IF k = l THEN b ELSE limiters[k]
         /\ k \in Referenced(visitors, req)' => limiters'[k] = IF k = l THEN b ELSE limiters[k]
  BY <1>7, <1>8, <1>10 DEF Collected, IInv, TypeOK
<1>13. now \in Nat /\ now # None /\ None \notin Bucket /\ l # None
  BY RateLimitAssumption DEF IInv, TypeOK
<1>14. \A d \in Clients : lastAsk'[d] = IF d = c THEN now ELSE lastAsk[d]
  BY <1>8 DEF IInv, TypeOK
<1>15. \A d \in Clients, k \in Limiters : RefersTo(d, k)' =>
         /\ RefersTo(d, k)
         /\ k # l => limiters'[k] = limiters[k]
         /\ k = l => limiters'[k] = b /\ d = c
  <2>1. SUFFICES ASSUME NEW d \in Clients, NEW k \in Limiters, RefersTo(d, k)'
                 PROVE  RefersTo(d, k) /\ k \in Referenced(visitors, req)'
    BY <1>9, <1>12 DEF IInv, OneClient
  <2>2. k # None
    BY RateLimitAssumption
  <2>3. QED
    BY <1>8, <2>1, <2>2 DEF RefersTo, Referenced
<1>16. TypeOK'
  <2>1. lastAsk' \in [Clients -> (0..MaxTime) \cup {None}]
    BY <1>8 DEF IInv, TypeOK
  <2>2. limiters' \in [Limiters -> Bucket \cup {None}]
    BY <1>7, <1>10 DEF IInv, TypeOK, Collected
  <2>3. \A k \in Limiters : limiters'[k] # None =>
          limiters'[k].credit <= FillTime(limiters'[k].made)
    BY <1>11, <1>12 DEF IInv, TypeOK
  <2>4. QED
    BY <1>7, <1>8, <2>1, <2>2, <2>3 DEF IInv, TypeOK, FillTime
<1>17. Times' /\ OneClient'
  BY <1>8, <1>15 DEF IInv, Times, OneClient
<1>18. BucketsOK'
  <2>1. SUFFICES ASSUME NEW d \in Clients, NEW k \in Limiters, RefersTo(d, k)'
                 PROVE  /\ limiters'[k] # None
                        /\ limiters'[k].at <= now
                        /\ \/ limiters'[k].credit = FillTime(limiters'[k].made)
                           \/ lastAsk'[d] # None /\ limiters'[k].at <= lastAsk'[d]
    BY <1>8 DEF BucketsOK, FillTime
  <2>2. CASE k = l
    BY <1>11, <1>13, <1>14, <1>15, <2>1, <2>2
  <2>3. CASE k # l
    <3>1. limiters'[k] = limiters[k] /\ RefersTo(d, k)
      BY <1>15, <2>1, <2>3
    <3>2. /\ limiters[k] # None /\ limiters[k].at <= now
          /\ \/ limiters[k].credit = FillTime(limiters[k].made)
             \/ lastAsk[d] # None /\ limiters[k].at <= lastAsk[d]
      BY <3>1 DEF IInv, BucketsOK
    <3>3. QED
      BY <1>13, <1>14, <3>1, <3>2
  <2>4. QED
    BY <2>2, <2>3
<1>19. VisitorsOK'
  <2>1. SUFFICES ASSUME NEW d \in Clients, visitors[d] # None
                 PROVE  \/ limiters'[visitors[d].limiter].late
                        \/ limiters'[visitors[d].limiter].at <= visitors[d].lastSeen
    BY <1>8 DEF VisitorsOK
  <2>2. PICK k \in Limiters : k = visitors[d].limiter
    BY <2>1 DEF IInv, TypeOK, Visitor
  <2>3. RefersTo(d, k)'
    BY <1>8, <2>1, <2>2 DEF RefersTo
  <2>4. CASE k # l
    BY <1>15, <2>1, <2>2, <2>3, <2>4 DEF IInv, VisitorsOK
  <2>5. CASE k = l
    <3>1. limiters'[k] = b /\ d = c
      BY <1>15, <2>3, <2>5
    <3>2. /\ req[w].looked <= now /\ req[w].looked <= visitors[d].lastSeen
          /\ req[w].looked \in Nat /\ visitors[d].lastSeen \in Nat
      <4>1. /\ req[w].looked <= now
            /\ LET v == visitors[req[w].client]
               IN v # None /\ v.limiter = req[w].limiter => req[w].looked <= v.lastSeen
        BY <1>1, <1>2, <1>13 DEF IInv, LookupsOK
      <4>2. visitors[d] \in Visitor
        BY <2>1 DEF IInv, TypeOK
      <4>3. visitors[d].lastSeen \in Nat
        BY <4>2, RateLimitAssumption DEF Visitor
      <4>4. QED
        BY <1>1, <1>2, <1>3, <2>1, <2>2, <2>5, <3>1, <4>1, <4>3 DEF Request
    <3>3. ~late => b.at <= visitors[d].lastSeen
      <4>1. ~late => ~(now > req[w].looked)
        BY <1>4
      <4>2. QED
        BY <1>11, <1>13, <3>2, <4>1
    <3>4. QED
      BY <1>11, <2>2, <3>1, <3>3
  <2>6. QED
    BY <2>4, <2>5
<1>20. LookupsOK'
  BY <1>8 DEF IInv, LookupsOK
<1>21. PassesOK'
  <2>1. Len(req[w].chain) \in Nat
    BY <1>1, RateLimitAssumption DEF Request
  <2>2. req[w].passes = 1 => req[w].pass = 1 /\ ~req[w].refused /\ ~req[w].served
    BY <1>1, <1>7, <2>1 DEF IInv, PassesOK
  <2>3. QED
    BY <1>8, <2>2 DEF IInv, PassesOK
<1>22. SpacedAdmitted' /\ SweepKeepsLimit'
  BY <1>7 DEF SpacedAdmitted, SweepKeepsLimit
<1>23. QED
  BY <1>16, <1>17, <1>18, <1>19, <1>20, <1>21, <1>22 DEF IInv

\* The bucket that the request gets is the visitor's, or new and nobody else's.
LEMMA GetVisitorKeeps ==
  ASSUME IInv, NEW w \in Workers, GetVisitor(w)
  PROVE  IInv'
<1>1. PICK r \in Request : r = req[w] /\ r # None
  BY DEF GetVisitor, Consulting, IInv, TypeOK
<1>2. PICK c \in Clients : c = r.client
  BY DEF Request
<1>3. PICK i \in Instances : i = r.chain[r.at]
  <2>1. r.at <= Len(r.chain) /\ r.at \in Nat /\ r.chain \in Seq(Instances)
    BY <1>1, RateLimitAssumption DEF GetVisitor, Consulting, Request
  <2>2. r.at >= 1
    BY DEF Request
  <2>3. QED
    BY <2>1, <2>2
<1> DEFINE new == visitors[c] = None
<1>4. PICK l \in Limiters : l = IF new THEN Fresh ELSE visitors[c].limiter
  BY FreshIsFresh DEF IInv, TypeOK, Visitor
<1>5. now \in Nat /\ now \in 0..MaxTime /\ None \notin Bucket /\ l # None /\ None \notin Visitor
  BY RateLimitAssumption DEF IInv, TypeOK
<1> DEFINE v == [limiter |-> l, lastSeen |-> now]
           q == [r EXCEPT !.limiter = l, !.looked = now]
<1>6. v \in Visitor /\ v.limiter = l /\ v.lastSeen = now
  BY <1>5 DEF Visitor
<1>7. /\ q \in Request /\ q.client = c /\ q.chain = r.chain /\ q.passes = r.passes
      /\ q.pass = r.pass /\ q.at = r.at /\ q.limiter = l /\ q.looked = now
      /\ q.refused = r.refused /\ q.served = r.served
  BY <1>2, <1>5 DEF Request
<1>8. /\ visitors' = [visitors EXCEPT ![c] = v]
      /\ limiters' = IF new THEN [limiters EXCEPT ![l] = NewBucket(i)] ELSE limiters
      /\ req' = [req EXCEPT ![w] = q]
      /\ UNCHANGED <<now, lastAsk>> /\ refusals' = {} /\ forgiven' = {}
  BY <1>1, <1>2, <1>3, <1>4 DEF GetVisitor, Quiet, IInv, TypeOK
<1> HIDE DEF v, q
<1>9. /\ visitors' \in [Clients -> Visitor \cup {None}]
      /\ \A d \in Clients : visitors'[d] = IF d = c THEN v ELSE visitors[d]
      /\ req' \in [Workers -> Request \cup {None}]
      /\ \A u \in Workers : req'[u] = IF u = w THEN q ELSE req[u]
  BY <1>6, <1>7, <1>8 DEF IInv, TypeOK
<1>10. PICK b \in Bucket : /\ b = NewBucket(i) /\ b.at = now
                           /\ b.credit = FillTime(i) /\ b.made = i
  <2>1. FillTime(i) \in Nat
    BY FillType
  <2>2. PICK full \in Nat : full = FillTime(i)
    BY <2>1
  <2>3. PICK no \in BOOLEAN : no = FALSE
    OBVIOUS
  <2>4. NewBucket(i) = [made |-> i, credit |-> full, at |-> now, late |-> no]
    BY <2>2, <2>3 DEF NewBucket
  <2>5. QED
    BY <1>5, <2>2, <2>4 DEF Bucket
<1>11. /\ limiters' \in [Limiters -> Bucket \cup {None}]
       /\ \A k \in Limiters : limiters'[k] = IF new /\ k = l THEN b ELSE limiters[k]
  BY <1>8, <1>10 DEF IInv, TypeOK
<1>12. IF new THEN \A d \in Clients : ~RefersTo(d, l) ELSE RefersTo(c, l)
  <2>1. CASE new
    BY <1>4, <2>1, FreshIsFresh, ReferencedBy DEF IInv
  <2>2. CASE ~new
    BY <1>4, <2>2 DEF RefersTo
  <2>3. QED
    BY <2>1, <2>2
<1>13. \A d \in Clients, k \in Limiters : RefersTo(d, k)' => RefersTo(d, k) \/ (d = c /\ k = l)
  BY <1>6, <1>7, <1>9 DEF RefersTo
<1>14. TypeOK'
  <2>1. \A k \in Limiters : limiters'[k] # None =>
          limiters'[k].credit <= FillTime(limiters'[k].made)
    <3>1. FillTime(i) \in Nat
      BY FillType
    <3>2. QED
      BY <1>10, <1>11, <3>1 DEF IInv, TypeOK
  <2>2. QED
    BY <1>8, <1>9, <1>11, <2>1 DEF IInv, TypeOK, FillTime
<1>15. Times'
  BY <1>5, <1>6, <1>8, <1>9 DEF IInv, Times
<1>16. OneClient'
  BY <1>12, <1>13 DEF IInv, OneClient
<1>17. BucketsOK'
  <2>1. SUFFICES ASSUME NEW d \in Clients, NEW k \in Limiters, RefersTo(d, k)'
                 PROVE  /\ limiters'[k] # None
                        /\ limiters'[k].at <= now
                        /\ \/ limiters'[k].credit = FillTime(limiters'[k].made)
                           \/ lastAsk[d] # None /\ limiters'[k].at <= lastAsk[d]
    BY <1>8 DEF BucketsOK, FillTime
  <2>2. CASE new /\ k = l
    BY <1>5, <1>10, <1>11, <2>2
  <2>3. CASE ~(new /\ k = l)
    <3>1. RefersTo(d, k) /\ limiters'[k] = limiters[k]
      BY <1>11, <1>12, <1>13, <2>1, <2>3
    <3>2. QED
      BY <3>1 DEF IInv, BucketsOK
  <2>4. QED
    BY <2>2, <2>3
<1>18. VisitorsOK'
  <2>1. SUFFICES ASSUME NEW d \in Clients, visitors'[d] # None
                 PROVE  \/ limiters'[visitors'[d].limiter].late
                        \/ limiters'[visitors'[d].limiter].at <= visitors'[d].lastSeen
    BY DEF VisitorsOK
  <2>2. CASE d = c
    <3>1. visitors'[d].limiter = l /\ visitors'[d].lastSeen = now
      BY <1>6, <1>9, <2>2
    <3>2. limiters'[l].at <= now
      BY <1>5, <1>10, <1>11, <1>12 DEF IInv, BucketsOK
    <3>3. QED
      BY <3>1, <3>2
  <2>3. CASE d # c
    <3>1. visitors'[d] = visitors[d] /\ visitors[d] # None
      BY <1>9, <2>1, <2>3
    <3>2. PICK k \in Limiters : k = visitors[d].limiter
      BY <3>1 DEF IInv, TypeOK, Visitor
    <3>3. RefersTo(d, k)
      BY <3>1, <3>2 DEF RefersTo
    <3>4. limiters'[k] = limiters[k]
      BY <1>11, <1>12, <3>3
    <3>5. QED
      BY <3>1, <3>2, <3>4 DEF IInv, VisitorsOK
  <2>4. QED
    BY <2>2, <2>3
<1>19. LookupsOK'
  <2>1. SUFFICES ASSUME NEW u \in Workers, req'[u] # None, req'[u].limiter # None
                 PROVE  /\ req'[u].looked <= now
                        /\ visitors'[req'[u].client] # None
                             /\ visitors'[req'[u].client].limiter = req'[u].limiter
                           => req'[u].looked <= visitors'[req'[u].client].lastSeen
    BY <1>8 DEF LookupsOK
  <2>2. CASE u = w
    BY <1>2, <1>5, <1>6, <1>7, <1>9, <2>2
  <2>3. CASE u # w
    <3>1. req'[u] = req[u] /\ req[u] # None /\ req[u].limiter # None
      BY <1>9, <2>1, <2>3
    <3>2. req[u].client \in Clients
      BY <3>1 DEF IInv, TypeOK, Request
    <3>3. req[u].looked <= now
      BY <3>1 DEF IInv, LookupsOK
    <3>4. CASE req[u].client = c
      BY <1>6, <1>9, <3>1, <3>3, <3>4
    <3>5. CASE req[u].client # c
      BY <1>9, <3>1, <3>2, <3>3, <3>5 DEF IInv, LookupsOK
    <3>6. QED
      BY <3>4, <3>5
  <2>4. QED
    BY <2>2, <2>3
<1>20. PassesOK'
  <2>1. \A u \in Workers : u # w => req'[u] = req[u]
    BY <1>9
  <2>2. req'[w] = q
    BY <1>9
  <2>3. QED
    BY <1>1, <1>7, <2>1, <2>2 DEF IInv, PassesOK
<1>21. SpacedAdmitted' /\ SweepKeepsLimit'
  BY <1>8 DEF SpacedAdmitted, SweepKeepsLimit
<1>22. QED
  BY <1>14, <1>15, <1>16, <1>17, <1>18, <1>19, <1>20, <1>21 DEF IInv

-----------------------------------------------------------------------------
(* What every state has.                                                   *)

LEMMA InitHolds == Init => IInv
<1>1. SUFFICES ASSUME Init PROVE IInv
  OBVIOUS
<1>2. now = 0 /\ now \in 0..MaxTime
  BY <1>1, RateLimitAssumption DEF Init
<1>3. /\ \A c \in Clients : visitors[c] = None
      /\ \A l \in Limiters : limiters[l] = None
      /\ \A w \in Workers : req[w] = None
      /\ refusals = {} /\ forgiven = {}
  BY <1>1 DEF Init
<1>4. TypeOK
  BY <1>1, <1>2, <1>3 DEF Init, TypeOK
<1>5. Times /\ VisitorsOK /\ LookupsOK /\ PassesOK /\ SpacedAdmitted /\ SweepKeepsLimit
  BY <1>3 DEF Times, VisitorsOK, LookupsOK, PassesOK, SpacedAdmitted, SweepKeepsLimit
<1>6. OneClient /\ BucketsOK
  BY <1>3 DEF OneClient, BucketsOK, RefersTo
<1>7. QED
  BY <1>4, <1>5, <1>6 DEF IInv

LEMMA NextKeeps == IInv /\ [Next]_vars => IInv'
<1>1. SUFFICES ASSUME IInv, [Next]_vars PROVE IInv'
  OBVIOUS
<1>2. ASSUME NEW w \in Workers, NEW c \in Clients, NEW chain \in Chains,
             NEW passes \in 1..2, Arrive(w, c, chain, passes)
      PROVE  IInv'
  BY <1>1, <1>2, ArriveKeeps
<1>3. ASSUME NEW w \in Workers, Middleware(w) \/ Serve(w) \/ PassOver(w)
      PROVE  IInv'
  BY <1>1, <1>3, GetVisitorKeeps, AllowKeeps, RefuseKeeps, ServeKeeps, PassOverKeeps
     DEF Middleware
<1>4. ASSUME NEW i \in Instances, CleanupVisitors(i)
      PROVE  IInv'
  BY <1>1, <1>4, CleanupVisitorsKeeps
<1>5. CASE Tick
  BY <1>1, <1>5, TickKeeps
<1>6. CASE UNCHANGED vars
  BY <1>1, <1>6
     DEF vars, IInv, TypeOK, Times, OneClient, RefersTo, BucketsOK, VisitorsOK, LookupsOK,
         PassesOK, SpacedAdmitted, SweepKeepsLimit, FillTime
<1>7. QED
  BY <1>1, <1>2, <1>3, <1>4, <1>5, <1>6 DEF Next

\* A bucket is one client's, and from when it was last counted on no limiter has been asked
\* for that client in vain; lastSeen is not behind the bucket, but for a late token.
THEOREM InductiveInvariant == Spec => []IInv
<1>1. Init => IInv
  BY InitHolds
<1>2. IInv /\ [Next]_vars => IInv'
  BY NextKeeps
<1>3. QED
  BY <1>1, <1>2, PTL DEF Spec

\* The state is well typed, and no bucket holds more than its maker's Burst.
THEOREM TypeCorrect == Spec => []TypeOK
<1>1. IInv => TypeOK
  BY DEF IInv
<1>2. QED
  BY <1>1, InductiveInvariant, PTL

\* Whatever instances share a bucket: Allow refuses a client only if a limiter was asked
\* for it less than a token's time ago, or if the bucket can hold no token.
THEOREM RateIsGranted == Spec => []SpacedAdmitted
<1>1. IInv => SpacedAdmitted
  BY DEF IInv
<1>2. QED
  BY <1>1, InductiveInvariant, PTL

\* CleanupVisitors forgets what a client has used up only if its ExpiresIn is shorter
\* than the bucket takes to fill, or after a token that was taken late.
THEOREM SweepsForgive == Spec => []SweepKeepsLimit
<1>1. IInv => SweepKeepsLimit
  BY DEF IInv
<1>2. QED
  BY <1>1, InductiveInvariant, PTL

\* A request that goes through its chain once is not both refused and served.
THEOREM RefusalsHold == Spec => []RefusedNotServed
<1>1. IInv => RefusedNotServed
  <2>1. SUFFICES ASSUME IInv, NEW w \in Workers, req[w] # None,
                        req[w].refused, req[w].served
                 PROVE  req[w].passes = 2
    BY DEF RefusedNotServed, Serving
  <2>2. req[w].passes # 1
    BY <2>1 DEF IInv, PassesOK
  <2>3. req[w].passes \in 1..2
    BY <2>1 DEF IInv, TypeOK, Request
  <2>4. QED
    BY <2>2, <2>3
<1>2. QED
  BY <1>1, InductiveInvariant, PTL
=============================================================================
