--------------------------- MODULE SessionProofs ----------------------------
(***************************************************************************)
(* What holds of Session for any goroutines, clients, expirations and      *)
(* numbers of requests.                                                    *)
(***************************************************************************)
EXTENDS Session, FiniteSetTheorems, TLAPS

-----------------------------------------------------------------------------
(* The inductive invariant.                                                *)

\* The session i is one that c has: in its cookie, or in a request of its own.
Uses(c, i) ==
  \/ cookie[c] # None /\ cookie[c].id = i
  \/ \E w \in Workers :
       /\ client[w] = c
       /\ presented[w] = i \/ setCookie[w] = i \/ (session[w] # None /\ session[w].id = i)

\* A session has been made, for one client, and the storage has values of that client.
OwnersOK ==
  \A i \in Ids, c \in Clients : Uses(c, i) =>
    /\ i <= lastId
    /\ \A d \in Clients : Uses(d, i) => d = c
    /\ store[i] # None => \A v \in store[i].values : v.by = c

\* What is stored is over when the session is.
StoreOK ==
  \A i \in Ids : store[i] # None =>
    /\ i <= lastId
    /\ store[i].expires <= store[i].until
    /\ store[i].until <= store[i].since + Expiration
    /\ \A v \in store[i].values : ~v.silent

\* So is a session that a goroutine has in hand.
HeldOK ==
  \A w \in Workers : session[w] # None =>
    /\ session[w].expires <= session[w].since + Expiration
    /\ \A v \in session[w].values : v.by = client[w] /\ ~v.silent

\* Where a goroutine is, and what it has there.
PlacesOK ==
  \A w \in Workers :
    /\ pc[w] = "idle" => client[w] = None /\ setCookie[w] = None /\ session[w] = None
    /\ pc[w] # "idle" => client[w] # None
    /\ pc[w] = "purge" => presented[w] # None
    /\ pc[w] \in {"save", "handle"} => session[w] # None

\* Each request makes one session at most, the first of a chain one more.
Making == {w \in Workers : pc[w] \in {"load", "purge", "create"}}
First == {w \in Workers : pass[w] = "first"}

Counted ==
  lastId + Cardinality(Making) + Cardinality(First) <= sent + (IF sent = 0 THEN 0 ELSE 1)

IInv == TypeOK /\ OwnersOK /\ StoreOK /\ HeldOK /\ PlacesOK /\ Counted

-----------------------------------------------------------------------------
(* Frames.                                                                 *)

LEMMA CountsFinite ==
  /\ IsFiniteSet(Making) /\ Cardinality(Making) \in Nat
  /\ IsFiniteSet(First) /\ Cardinality(First) \in Nat
<1>1. Making \in SUBSET Workers /\ First \in SUBSET Workers
  BY DEF Making, First
<1>2. IsFiniteSet(Making) /\ IsFiniteSet(First)
  <2> HIDE DEF Making, First
  <2>1. QED
    BY <1>1, SessionAssumption, FS_Subset
<1>3. QED
  BY <1>2, FS_CardinalityType

\* Nobody has more sessions to make than before.
LEMMA CountedKept ==
  ASSUME IInv, lastId' = lastId, sent' = sent, Making' \subseteq Making, First' \subseteq First
  PROVE  Counted'
<1> DEFINE m == Making'
           f == First'
<1>1. /\ IsFiniteSet(m) /\ Cardinality(m) <= Cardinality(Making) /\ Cardinality(m) \in Nat
      /\ IsFiniteSet(f) /\ Cardinality(f) <= Cardinality(First) /\ Cardinality(f) \in Nat
  <2>1. m \in SUBSET Making /\ f \in SUBSET First
    OBVIOUS
  <2> HIDE DEF m, f
  <2>2. QED
    BY <2>1, CountsFinite, FS_Subset, FS_CardinalityType
<1>2. lastId \in Nat /\ sent \in Nat
  BY SessionAssumption DEF IInv, TypeOK
<1>3. lastId + Cardinality(Making) + Cardinality(First) <= sent + (IF sent = 0 THEN 0 ELSE 1)
  BY DEF IInv, Counted
<1> DEFINE bonus == IF sent = 0 THEN 0 ELSE 1
<1>4. bonus \in Nat
  OBVIOUS
<1> HIDE DEF m, f
<1>5. lastId + Cardinality(m) + Cardinality(f) <= sent + bonus
  <2>1. lastId + Cardinality(Making) + Cardinality(First) <= sent + bonus
    BY <1>3
  <2> HIDE DEF bonus
  <2>2. QED
    BY <1>1, <1>2, <1>4, <2>1, CountsFinite
<1>6. QED
  BY <1>5 DEF Counted, m, f

\* No session is made, changed or stored, and nobody uses one that is not its own.
LEMMA SessionsKept ==
  ASSUME IInv, lastId' = lastId,
         \A c \in Clients, i \in Ids : Uses(c, i)' => Uses(c, i),
         \A i \in Ids : store'[i] = None \/ store'[i] = store[i],
         \A w \in Workers : session'[w] # None =>
           session'[w] = session[w] /\ client'[w] = client[w]
  PROVE  OwnersOK' /\ StoreOK' /\ HeldOK'
<1>1. OwnersOK'
  BY DEF IInv, OwnersOK
<1>2. StoreOK'
  BY DEF IInv, StoreOK
<1>3. HeldOK'
  BY DEF IInv, HeldOK
<1>4. QED
  BY <1>1, <1>2, <1>3

-----------------------------------------------------------------------------
(* Steps.                                                                  *)

LEMMA TickKeeps ==
  ASSUME IInv, Tick
  PROVE  IInv'
<1>1. /\ now < MaxTime /\ now' = now + 1
      /\ store' = [i \in Ids |-> Kept(store[i], now')]
      /\ cookie' = [c \in Clients |-> Kept(cookie[c], now')]
      /\ UNCHANGED <<lastId, sent, pc, client, pass, presented, session, setCookie>>
  BY DEF Tick, task
<1>2. /\ \A i \in Ids : store'[i] = None \/ store'[i] = store[i]
      /\ \A c \in Clients : cookie'[c] = None \/ cookie'[c] = cookie[c]
  BY <1>1 DEF Kept
<1>3. now' \in 0..MaxTime
  BY <1>1, SessionAssumption DEF IInv, TypeOK
<1>4. /\ store' \in [Ids -> Entry \cup {None}]
      /\ cookie' \in [Clients -> Cookie \cup {None}]
  <2>1. /\ \A i \in Ids : store'[i] \in Entry \cup {None}
        /\ \A c \in Clients : cookie'[c] \in Cookie \cup {None}
    BY <1>2 DEF IInv, TypeOK
  <2>2. QED
    BY <1>1, <2>1
<1>5. TypeOK'
  BY <1>1, <1>3, <1>4 DEF IInv, TypeOK
<1>6. \A c \in Clients, i \in Ids : Uses(c, i)' => Uses(c, i)
  BY <1>1, <1>2 DEF Uses
<1>7. OwnersOK' /\ StoreOK' /\ HeldOK'
  BY <1>1, <1>2, <1>6, SessionsKept
<1>8. PlacesOK' /\ Counted'
  BY <1>1 DEF IInv, PlacesOK, Counted, Making, First
<1>9. QED
  BY <1>5, <1>7, <1>8 DEF IInv

LEMMA LoseKeeps ==
  ASSUME IInv, NEW i \in Ids, Lose(i)
  PROVE  IInv'
<1>1. /\ store' = [store EXCEPT ![i] = None]
      /\ UNCHANGED <<now, lastId, cookie, sent, pc, client, pass, presented, session, setCookie>>
  BY DEF Lose, task
<1>2. TypeOK'
  BY <1>1 DEF IInv, TypeOK
<1>3. \A j \in Ids : store'[j] = None \/ store'[j] = store[j]
  BY <1>1 DEF IInv, TypeOK
<1>4. \A c \in Clients, j \in Ids : Uses(c, j)' => Uses(c, j)
  BY <1>1 DEF Uses
<1>5. OwnersOK' /\ StoreOK' /\ HeldOK'
  BY <1>1, <1>3, <1>4, SessionsKept
<1>6. PlacesOK' /\ Counted'
  BY <1>1 DEF IInv, PlacesOK, Counted, Making, First
<1>7. QED
  BY <1>2, <1>5, <1>6 DEF IInv

LEMMA RestartKeeps ==
  ASSUME IInv, Restart
  PROVE  IInv'
<1>1. /\ store' = [i \in Ids |-> None]
      /\ pc' = [w \in Workers |-> "idle"]
      /\ client' = [w \in Workers |-> None]
      /\ pass' = [w \in Workers |-> None]
      /\ presented' = [w \in Workers |-> None]
      /\ session' = [w \in Workers |-> None]
      /\ setCookie' = [w \in Workers |-> None]
      /\ UNCHANGED <<now, lastId, cookie, sent>>
  BY DEF Restart
<1>2. TypeOK'
  BY <1>1 DEF IInv, TypeOK
<1>3. \A c \in Clients, i \in Ids : Uses(c, i)' => Uses(c, i)
  <2>1. None \notin Ids /\ None \notin Clients
    BY SessionAssumption DEF Ids
  <2>2. QED
    BY <1>1, <2>1 DEF Uses
<1>4. OwnersOK' /\ StoreOK' /\ HeldOK'
  BY <1>1, <1>3, SessionsKept
<1>5. PlacesOK'
  BY <1>1 DEF PlacesOK
<1>6. Counted'
  <2>1. Making' \subseteq Making
    BY <1>1 DEF Making
  <2>2. First' \subseteq First
    <3>1. None # "first"
      BY SessionAssumption DEF Passes
    <3>2. QED
      BY <1>1, <3>1 DEF First
  <2>3. QED
    BY <1>1, <2>1, <2>2, CountedKept
<1>7. QED
  BY <1>2, <1>4, <1>5, <1>6 DEF IInv

LEMMA SendKeeps ==
  ASSUME IInv, NEW w \in Workers, NEW c \in Clients,
         NEW p \in {"compiled", "first", "get"}, Send(w, c, p)
  PROVE  IInv'
<1>1. /\ pc[w] = "idle" /\ sent < MaxRequests /\ (p = "first" => sent = 0)
      /\ sent' = sent + 1
      /\ client' = [client EXCEPT ![w] = c]
      /\ pass' = [pass EXCEPT ![w] = p]
      /\ presented' = [presented EXCEPT ![w] = Presented(c)]
      /\ pc' = [pc EXCEPT ![w] = "load"]
      /\ UNCHANGED <<now, lastId, store, cookie, session, setCookie>>
  BY DEF Send, Goto, stored
<1>2. client[w] = None /\ setCookie[w] = None /\ session[w] = None
  BY <1>1 DEF IInv, PlacesOK
<1>3. None \notin Ids /\ c # None
  BY SessionAssumption DEF Ids
<1>4. Presented(c) \in Ids \cup {None}
  BY DEF Presented, IInv, TypeOK, Cookie
<1>5. sent \in Nat /\ lastId \in Nat /\ sent' \in 0..MaxRequests /\ lastId \in 0..(sent' + 1)
  BY <1>1, SessionAssumption DEF IInv, TypeOK
<1>6. TypeOK'
  BY <1>1, <1>4, <1>5 DEF IInv, TypeOK, Passes
<1>7. \A u \in Workers :
        /\ pc'[u] = IF u = w THEN "load" ELSE pc[u]
        /\ client'[u] = IF u = w THEN c ELSE client[u]
        /\ presented'[u] = IF u = w THEN Presented(c) ELSE presented[u]
        /\ pass'[u] = IF u = w THEN p ELSE pass[u]
  BY <1>1 DEF IInv, TypeOK
<1>8. \A d \in Clients, i \in Ids : Uses(d, i)' => Uses(d, i)
  <2>1. SUFFICES ASSUME NEW d \in Clients, NEW i \in Ids, Uses(d, i)'
                 PROVE  Uses(d, i)
    OBVIOUS
  <2>2. CASE cookie[d] # None /\ cookie[d].id = i
    BY <2>2 DEF Uses
  <2>3. ASSUME NEW u \in Workers, client'[u] = d,
               \/ presented'[u] = i \/ setCookie[u] = i
               \/ session[u] # None /\ session[u].id = i
        PROVE  Uses(d, i)
    <3>1. CASE u = w
      BY <1>2, <1>3, <1>7, <2>3, <3>1 DEF Uses, Presented
    <3>2. CASE u # w
      BY <1>7, <2>3, <3>2 DEF Uses
    <3>3. QED
      BY <3>1, <3>2
  <2>4. QED
    BY <1>1, <2>1, <2>2, <2>3 DEF Uses
<1>9. OwnersOK' /\ StoreOK' /\ HeldOK'
  BY <1>1, <1>2, <1>7, <1>8, SessionsKept
<1>10. PlacesOK'
  BY <1>1, <1>2, <1>3, <1>7 DEF IInv, PlacesOK
<1>11. Counted'
  <2> DEFINE m == Making'
             f == First'
  <2>1. m = Making \cup {w} /\ w \notin Making
    BY <1>1, <1>7 DEF Making
  <2>2. f \subseteq First \cup {w} /\ (p # "first" => f \subseteq First)
    BY <1>7 DEF First
  <2>3. lastId + Cardinality(Making) + Cardinality(First) <= sent + (IF sent = 0 THEN 0 ELSE 1)
    BY DEF IInv, Counted
  <2> HIDE DEF m, f
  <2>4. Cardinality(m) = Cardinality(Making) + 1
    BY <2>1, CountsFinite, FS_AddElement
  <2>5. /\ Cardinality(f) \in Nat /\ Cardinality(f) <= Cardinality(First) + 1
        /\ p # "first" => Cardinality(f) <= Cardinality(First)
    <3>1. /\ IsFiniteSet(First \cup {w})
          /\ Cardinality(First \cup {w}) <= Cardinality(First) + 1
          /\ Cardinality(First \cup {w}) \in Nat
      <4>1. /\ IsFiniteSet(First \cup {w})
            /\ \/ Cardinality(First \cup {w}) = Cardinality(First)
               \/ Cardinality(First \cup {w}) = Cardinality(First) + 1
        BY CountsFinite, FS_AddElement
      <4>2. QED
        BY <4>1, CountsFinite
    <3>2. /\ IsFiniteSet(f) /\ Cardinality(f) <= Cardinality(First \cup {w})
      BY <2>2, <3>1, FS_Subset
    <3>3. p # "first" => Cardinality(f) <= Cardinality(First)
      BY <2>2, CountsFinite, FS_Subset
    <3>4. Cardinality(f) \in Nat
      BY <3>2, FS_CardinalityType
    <3>5. QED
      BY <3>1, <3>2, <3>3, <3>4, CountsFinite
  <2>6. CASE sent = 0
    <3>1. lastId' + Cardinality(m) + Cardinality(f) <= 2
      BY <1>1, <1>5, <2>3, <2>4, <2>5, <2>6, CountsFinite
    <3>2. QED
      BY <1>1, <2>6, <3>1 DEF Counted, m, f
  <2>7. CASE sent # 0
    <3>1. p # "first" /\ sent + 1 # 0
      BY <1>1, <1>5, <2>7
    <3>2. lastId' + Cardinality(m) + Cardinality(f) <= sent + 2
      BY <1>1, <1>5, <2>3, <2>4, <2>5, <2>7, <3>1, CountsFinite
    <3>3. QED
      BY <1>1, <1>5, <3>1, <3>2 DEF Counted, m, f
  <2>8. QED
    BY <2>6, <2>7
<1>12. QED
  BY <1>6, <1>9, <1>10, <1>11 DEF IInv

LEMMA LoadExpiredKeeps ==
  ASSUME IInv, NEW w \in Workers, LoadExpired(w)
  PROVE  IInv'
<1>1. /\ pc[w] = "load" /\ presented[w] # None
      /\ pc' = [pc EXCEPT ![w] = "purge"]
      /\ UNCHANGED <<now, lastId, store, cookie, sent, client, pass, presented, session, setCookie>>
  BY DEF LoadExpired, Found, Goto, stored, task
<1>2. TypeOK'
  BY <1>1 DEF IInv, TypeOK
<1>3. \A u \in Workers : pc'[u] = IF u = w THEN "purge" ELSE pc[u]
  BY <1>1 DEF IInv, TypeOK
<1>4. \A c \in Clients, i \in Ids : Uses(c, i)' => Uses(c, i)
  BY <1>1 DEF Uses
<1>5. OwnersOK' /\ StoreOK' /\ HeldOK'
  BY <1>1, <1>4, SessionsKept
<1>6. PlacesOK'
  BY <1>1, <1>3 DEF IInv, PlacesOK
<1>7. Counted'
  <2>1. Making' \subseteq Making /\ First' \subseteq First
    BY <1>1, <1>3 DEF Making, First
  <2>2. QED
    BY <1>1, <2>1, CountedKept
<1>8. QED
  BY <1>2, <1>5, <1>6, <1>7 DEF IInv

LEMMA PurgeKeeps ==
  ASSUME IInv, NEW w \in Workers, Purge(w)
  PROVE  IInv'
<1>1. /\ pc[w] = "purge"
      /\ store' = [store EXCEPT ![presented[w]] = None]
      /\ pc' = [pc EXCEPT ![w] = "create"]
      /\ UNCHANGED <<now, lastId, cookie, sent, client, pass, presented, session, setCookie>>
  BY DEF Purge, Goto, task
<1>2. TypeOK'
  BY <1>1 DEF IInv, TypeOK
<1>3. \A u \in Workers : pc'[u] = IF u = w THEN "create" ELSE pc[u]
  BY <1>1 DEF IInv, TypeOK
<1>4. \A i \in Ids : store'[i] = None \/ store'[i] = store[i]
  BY <1>1 DEF IInv, TypeOK
<1>5. \A c \in Clients, i \in Ids : Uses(c, i)' => Uses(c, i)
  BY <1>1 DEF Uses
<1>6. OwnersOK' /\ StoreOK' /\ HeldOK'
  BY <1>1, <1>4, <1>5, SessionsKept
<1>7. PlacesOK'
  BY <1>1, <1>3 DEF IInv, PlacesOK
<1>8. Counted'
  <2>1. Making' \subseteq Making /\ First' \subseteq First
    BY <1>1, <1>3 DEF Making, First
  <2>2. QED
    BY <1>1, <2>1, CountedKept
<1>9. QED
  BY <1>2, <1>6, <1>7, <1>8 DEF IInv

LEMMA AnswerKeeps ==
  ASSUME IInv, NEW w \in Workers, Answer(w)
  PROVE  IInv'
<1> DEFINE new == IF setCookie[w] = None THEN cookie[client[w]]
                  ELSE IF setCookie[w] = Expire THEN None
                  ELSE [id |-> setCookie[w], until |-> now + Expiration]
<1>1. /\ pc[w] = "answer"
      /\ cookie' = [cookie EXCEPT ![client[w]] = new]
      /\ pc' = [pc EXCEPT ![w] = "idle"]
      /\ client' = [client EXCEPT ![w] = None]
      /\ pass' = [pass EXCEPT ![w] = None]
      /\ presented' = [presented EXCEPT ![w] = None]
      /\ session' = [session EXCEPT ![w] = None]
      /\ setCookie' = [setCookie EXCEPT ![w] = None]
      /\ UNCHANGED <<now, lastId, store, sent>>
  <2>1. cookie' = [cookie EXCEPT ![client[w]] =
                     IF setCookie[w] = None THEN @
                     ELSE IF setCookie[w] = Expire THEN None
                     ELSE [id |-> setCookie[w], until |-> now + Expiration]]
    BY DEF Answer
  <2>2. QED
    BY <2>1 DEF Answer, Goto, stored
<1>2. client[w] \in Clients /\ client[w] # None
  BY <1>1 DEF IInv, TypeOK, PlacesOK
<1>3. /\ new \in Cookie \cup {None}
      /\ \/ new = cookie[client[w]] \/ new = None
         \/ setCookie[w] \in Ids /\ new.id = setCookie[w]
  <2>1. CASE setCookie[w] = None
    BY <1>2, <2>1 DEF IInv, TypeOK
  <2>2. CASE setCookie[w] # None /\ setCookie[w] = Expire
    BY <2>2
  <2>3. CASE setCookie[w] # None /\ setCookie[w] # Expire
    <3>1. setCookie[w] \in Ids
      BY <2>3 DEF IInv, TypeOK
    <3>2. now + Expiration \in Times
      BY SessionAssumption DEF IInv, TypeOK, Times, Past
    <3>3. new = [id |-> setCookie[w], until |-> now + Expiration]
      BY <2>3
    <3>4. QED
      BY <3>1, <3>2, <3>3 DEF Cookie
  <2>4. QED
    BY <2>1, <2>2, <2>3
<1> HIDE DEF new
<1>4. TypeOK'
  BY <1>1, <1>3 DEF IInv, TypeOK
<1>5. /\ \A u \in Workers :
           /\ pc'[u] = IF u = w THEN "idle" ELSE pc[u]
           /\ client'[u] = IF u = w THEN None ELSE client[u]
           /\ presented'[u] = IF u = w THEN None ELSE presented[u]
           /\ session'[u] = IF u = w THEN None ELSE session[u]
           /\ setCookie'[u] = IF u = w THEN None ELSE setCookie[u]
           /\ pass'[u] = IF u = w THEN None ELSE pass[u]
      /\ \A c \in Clients : cookie'[c] = IF c = client[w] THEN new ELSE cookie[c]
  BY <1>1, <1>2 DEF IInv, TypeOK
<1>6. \A c \in Clients, i \in Ids : Uses(c, i)' => Uses(c, i)
  <2>1. SUFFICES ASSUME NEW c \in Clients, NEW i \in Ids, Uses(c, i)'
                 PROVE  Uses(c, i)
    OBVIOUS
  <2>2. CASE cookie'[c] # None /\ cookie'[c].id = i
    <3>1. CASE c = client[w]
      BY <1>2, <1>3, <1>5, <2>2, <3>1 DEF Uses
    <3>2. CASE c # client[w]
      BY <1>5, <2>2, <3>2 DEF Uses
    <3>3. QED
      BY <3>1, <3>2
  <2>3. ASSUME NEW u \in Workers, client'[u] = c,
               \/ presented'[u] = i \/ setCookie'[u] = i
               \/ session'[u] # None /\ session'[u].id = i
        PROVE  Uses(c, i)
    <3>1. u # w
      BY <1>5, <2>3, SessionAssumption
    <3>2. QED
      BY <1>5, <2>3, <3>1 DEF Uses
  <2>4. QED
    BY <2>1, <2>2, <2>3 DEF Uses
<1>7. OwnersOK' /\ StoreOK' /\ HeldOK'
  BY <1>1, <1>5, <1>6, SessionsKept
<1>8. PlacesOK'
  BY <1>1, <1>5 DEF IInv, PlacesOK
<1>9. Counted'
  <2>1. None # "first"
    BY SessionAssumption DEF Passes
  <2>2. Making' \subseteq Making /\ First' \subseteq First
    BY <1>1, <1>5, <2>1 DEF Making, First
  <2>3. QED
    BY <1>1, <2>2, CountedKept
<1>10. QED
  BY <1>4, <1>7, <1>8, <1>9 DEF IInv

\* The session that a goroutine gets from the storage is its client's.
LEMMA LoadKeeps ==
  ASSUME IInv, NEW w \in Workers, Load(w)
  PROVE  IInv'
<1>1. PICK i \in Ids : i = presented[w] /\ i # None
  BY DEF Load, Found, IInv, TypeOK
<1>2. PICK e \in Entry : e = store[i] /\ e # None
  BY <1>1 DEF Load, Found, IInv, TypeOK
<1> DEFINE no == FALSE
           s == [id |-> i, values |-> e.values, expires |-> e.expires, since |-> e.since,
                 named |-> no]
<1>3. /\ pc[w] = "load"
      /\ session' = [session EXCEPT ![w] = s]
      /\ pc' = [pc EXCEPT ![w] = Have(w)]
      /\ UNCHANGED <<now, lastId, store, cookie, sent, client, pass, presented, setCookie>>
  BY <1>1, <1>2 DEF Load, Found, Goto, stored, task
<1>4. no \in BOOLEAN
  OBVIOUS
<1> HIDE DEF no
<1>5. /\ s \in SessionType /\ s.id = i /\ s.values = e.values
      /\ s.expires = e.expires /\ s.since = e.since
  BY <1>4 DEF Entry, SessionType
<1> HIDE DEF s
<1>6. PICK place \in {"save", "handle"} : place = Have(w)
  BY DEF Have
<1>7. TypeOK'
  BY <1>3, <1>5, <1>6 DEF IInv, TypeOK
<1>8. \A u \in Workers : /\ pc'[u] = IF u = w THEN place ELSE pc[u]
                         /\ session'[u] = IF u = w THEN s ELSE session[u]
  BY <1>3, <1>6 DEF IInv, TypeOK
<1>9. PICK c \in Clients : c = client[w]
  BY <1>3 DEF IInv, TypeOK, PlacesOK
<1>10. Uses(c, i)
  BY <1>1, <1>9 DEF Uses
<1>11. \A d \in Clients, j \in Ids : Uses(d, j)' => Uses(d, j)
  <2>1. SUFFICES ASSUME NEW d \in Clients, NEW j \in Ids, Uses(d, j)'
                 PROVE  Uses(d, j)
    OBVIOUS
  <2>2. CASE \E u \in Workers : u # w /\ client[u] = d /\ session[u] # None /\ session[u].id = j
    BY <2>2 DEF Uses
  <2>3. CASE client[w] = d /\ s.id = j
    BY <1>5, <1>9, <1>10, <2>3
  <2>4. QED
    BY <1>3, <1>8, <2>1, <2>2, <2>3 DEF Uses
<1>12. OwnersOK'
  BY <1>3, <1>11 DEF IInv, OwnersOK
<1>13. StoreOK'
  BY <1>3 DEF IInv, StoreOK
<1>14. HeldOK'
  <2>1. s.expires <= s.since + Expiration
    <3>1. /\ e.expires <= e.until /\ e.until <= e.since + Expiration
          /\ e.expires \in Int /\ e.until \in Int /\ e.since \in Nat /\ Expiration \in Nat
      BY <1>2, SessionAssumption DEF IInv, StoreOK, Entry, Times, Past
    <3>2. QED
      BY <1>5, <3>1
  <2>2. \A v \in s.values : v.by = client[w] /\ ~v.silent
    BY <1>2, <1>5, <1>9, <1>10 DEF IInv, OwnersOK, StoreOK
  <2>3. QED
    BY <1>3, <1>8, <2>1, <2>2 DEF IInv, HeldOK
<1>15. PlacesOK'
  BY <1>3, <1>5, <1>8, SessionAssumption DEF IInv, PlacesOK
<1>16. Counted'
  <2>1. Making' \subseteq Making /\ First' \subseteq First
    BY <1>3, <1>8 DEF Making, First
  <2>2. QED
    BY <1>3, <2>1, CountedKept
<1>17. QED
  BY <1>7, <1>12, <1>13, <1>14, <1>15, <1>16 DEF IInv

\* A session that is made has an ID that nobody uses, and its place is reserved.
LEMMA CreateKeeps ==
  ASSUME IInv, NEW w \in Workers, Create(w)
  PROVE  IInv'
<1>1. /\ pc[w] \in {"create", "load"} /\ lastId' = lastId + 1
      /\ session' = [session EXCEPT ![w] =
           [id |-> lastId', values |-> {}, expires |-> now + Expiration, since |-> now,
            named |-> TRUE]]
      /\ pc' = [pc EXCEPT ![w] = Have(w)]
      /\ UNCHANGED <<now, store, cookie, sent, client, pass, presented>>
      /\ setCookie' = IF presented[w] = None /\ pass[w] # "get"
                        THEN [setCookie EXCEPT ![w] = lastId'] ELSE setCookie
  BY DEF Create, New, Goto, task
<1>2. /\ now \in Nat /\ now + Expiration \in Times /\ lastId \in Nat /\ sent \in Nat
      /\ Expiration \in Nat /\ MaxRequests \in Nat /\ sent <= MaxRequests
  BY SessionAssumption DEF IInv, TypeOK, Times, Past
<1>3. PICK place \in {"save", "handle"} : place = Have(w)
  BY DEF Have
<1>4. \A u \in Workers : pc'[u] = IF u = w THEN place ELSE pc[u]
  BY <1>1, <1>3 DEF IInv, TypeOK
<1>5. Counted' /\ lastId' <= sent + 1
  <2> DEFINE m == Making'
             f == First'
             bonus == IF sent = 0 THEN 0 ELSE 1
  <2>1. m = Making \ {w} /\ w \in Making /\ f = First
    BY <1>1, <1>4 DEF Making, First
  <2>2. lastId + Cardinality(Making) + Cardinality(First) <= sent + bonus
    BY DEF IInv, Counted
  <2>3. bonus \in 0..1
    OBVIOUS
  <2> HIDE DEF m, f, bonus
  <2>4. Cardinality(m) = Cardinality(Making) - 1 /\ Cardinality(m) \in Nat
    BY <2>1, CountsFinite, FS_RemoveElement, FS_CardinalityType
  <2>5. lastId' + Cardinality(m) + Cardinality(f) <= sent + bonus
    BY <1>1, <1>2, <2>1, <2>2, <2>3, <2>4, CountsFinite
  <2>6. lastId' <= sent + 1
    BY <1>1, <1>2, <2>1, <2>3, <2>4, <2>5, CountsFinite
  <2>7. QED
    BY <1>1, <2>5, <2>6 DEF Counted, m, f, bonus
<1>6. PICK id \in Ids : id = lastId'
  BY <1>1, <1>2, <1>5 DEF Ids
<1> DEFINE until == now + Expiration
           none == {}
           yes == TRUE
           s == [id |-> id, values |-> none, expires |-> until, since |-> now, named |-> yes]
<1>7. session' = [session EXCEPT ![w] = s]
  BY <1>1, <1>6
<1>8. /\ none \in SUBSET Values /\ none = {} /\ yes \in BOOLEAN /\ until \in Times
      /\ until <= now + Expiration
  BY <1>2
<1> HIDE DEF until, none, yes
<1>9. s \in SessionType /\ s.id = id /\ s.values = none /\ s.expires = until /\ s.since = now
  BY <1>2, <1>8 DEF SessionType
<1> HIDE DEF s
<1>10. setCookie' \in {setCookie, [setCookie EXCEPT ![w] = id]}
  BY <1>1, <1>6
<1>11. TypeOK'
  <2>1. setCookie' \in [Workers -> Ids \cup {Expire, None}]
    BY <1>10 DEF IInv, TypeOK
  <2>2. session' \in [Workers -> SessionType \cup {None}]
    BY <1>7, <1>9 DEF IInv, TypeOK
  <2>3. pc' \in [Workers -> {"idle", "load", "purge", "create", "save", "handle", "answer"}]
    BY <1>1, <1>3 DEF IInv, TypeOK
  <2>4. lastId' \in 0..(sent + 1)
    BY <1>1, <1>2, <1>5
  <2>5. QED
    BY <1>1, <2>1, <2>2, <2>3, <2>4 DEF IInv, TypeOK
<1>12. \A u \in Workers :
         /\ session'[u] = IF u = w THEN s ELSE session[u]
         /\ setCookie'[u] = setCookie[u] \/ (u = w /\ setCookie'[u] = id)
  BY <1>7, <1>10 DEF IInv, TypeOK
<1>13. PICK c \in Clients : c = client[w]
  BY <1>1 DEF IInv, TypeOK, PlacesOK
<1>14. ~(id <= lastId)
  BY <1>1, <1>2, <1>6
<1>15. \A d \in Clients : ~Uses(d, id)
  BY <1>14 DEF IInv, OwnersOK
<1>16. store[id] = None
  BY <1>14 DEF IInv, StoreOK
<1>17. \A d \in Clients, i \in Ids : Uses(d, i)' => Uses(d, i) \/ (d = c /\ i = id)
  <2>1. SUFFICES ASSUME NEW d \in Clients, NEW i \in Ids, Uses(d, i)'
                 PROVE  Uses(d, i) \/ (d = c /\ i = id)
    OBVIOUS
  <2>2. CASE cookie[d] # None /\ cookie[d].id = i
    BY <2>2 DEF Uses
  <2>3. ASSUME NEW u \in Workers, client[u] = d,
               \/ presented[u] = i \/ setCookie'[u] = i
               \/ session'[u] # None /\ session'[u].id = i
        PROVE  Uses(d, i) \/ (d = c /\ i = id)
    BY <1>9, <1>12, <1>13, <2>3 DEF Uses
  <2>4. QED
    BY <1>1, <2>1, <2>2, <2>3 DEF Uses
<1>18. OwnersOK'
  <2>1. SUFFICES ASSUME NEW i \in Ids, NEW d \in Clients, Uses(d, i)'
                 PROVE  /\ i <= lastId'
                        /\ \A e \in Clients : Uses(e, i)' => e = d
                        /\ store[i] # None => \A v \in store[i].values : v.by = d
    BY <1>1 DEF OwnersOK
  <2>2. CASE i = id
    <3>1. d = c /\ \A e \in Clients : Uses(e, i)' => e = c
      BY <1>15, <1>17, <2>1, <2>2
    <3>2. i <= lastId'
      BY <1>1, <1>2, <1>6, <2>2
    <3>3. QED
      BY <1>16, <2>2, <3>1, <3>2
  <2>3. CASE i # id
    <3>1. Uses(d, i) /\ \A e \in Clients : Uses(e, i)' => Uses(e, i)
      BY <1>17, <2>1, <2>3
    <3>2. /\ i <= lastId
          /\ \A e \in Clients : Uses(e, i) => e = d
          /\ store[i] # None => \A v \in store[i].values : v.by = d
      BY <3>1 DEF IInv, OwnersOK
    <3>3. i <= lastId'
      BY <1>1, <1>2, <3>2 DEF Ids
    <3>4. QED
      BY <3>1, <3>2, <3>3
  <2>4. QED
    BY <2>2, <2>3
<1>19. StoreOK'
  <2>1. \A i \in Ids : i <= lastId => i <= lastId'
    BY <1>1, <1>2 DEF Ids
  <2>2. QED
    BY <1>1, <2>1 DEF IInv, StoreOK
<1>20. HeldOK'
  BY <1>1, <1>8, <1>9, <1>12 DEF IInv, HeldOK
<1>21. PlacesOK'
  <2>1. SUFFICES ASSUME NEW u \in Workers
                 PROVE  /\ pc'[u] = "idle" =>
                             client[u] = None /\ setCookie'[u] = None /\ session'[u] = None
                        /\ pc'[u] # "idle" => client[u] # None
                        /\ pc'[u] = "purge" => presented[u] # None
                        /\ pc'[u] \in {"save", "handle"} => session'[u] # None
    BY <1>1 DEF PlacesOK
  <2>2. CASE u = w
    BY <1>4, <1>9, <1>12, <1>13, <2>2, SessionAssumption
  <2>3. CASE u # w
    BY <1>4, <1>12, <2>3 DEF IInv, PlacesOK
  <2>4. QED
    BY <2>2, <2>3
<1>22. QED
  BY <1>5, <1>11, <1>18, <1>19, <1>20, <1>21 DEF IInv

\* A second is rounded down to.
LEMMA TruncatedType ==
  ASSUME NEW t \in Nat
  PROVE  Truncated(t) \in 0..t
<1>1. \A n \in Nat : n > 0 => t % n >= 0 /\ t % n <= t /\ t % n \in Int
  OBVIOUS
<1>2. t % Second \in 0..t
  BY <1>1, SessionAssumption
<1>3. QED
  BY <1>2 DEF Truncated

\* What s is in the storage, if it is there, is over when s is.
LEMMA Saved ==
  ASSUME IInv, NEW s \in SessionType, s.expires <= s.since + Expiration, Save(s)
  PROVE  /\ store' \in [Ids -> Entry \cup {None}]
         /\ \A i \in Ids : i # s.id => store'[i] = store[i]
         /\ store'[s.id] # None =>
              /\ store'[s.id].values = s.values
              /\ store'[s.id].expires <= store'[s.id].until
              /\ store'[s.id].until <= store'[s.id].since + Expiration
<1>1. /\ s.id \in Ids /\ s.expires \in Times /\ s.expires \in Int /\ s.since \in Nat
      /\ s.values \in SUBSET Values /\ store \in [Ids -> Entry \cup {None}]
      /\ now \in Nat
  BY SessionAssumption DEF SessionType, Times, Past, IInv, TypeOK
<1>2. CASE s.expires <= now
  BY <1>1, <1>2 DEF Save
<1>3. CASE ~(s.expires <= now)
  <2>1. PICK cut \in Times : cut = Truncated(s.expires) /\ cut <= s.expires
    <3>1. s.expires \in Nat
      BY <1>1, <1>3
    <3>2. Truncated(s.expires) \in 0..s.expires
      BY <3>1, TruncatedType
    <3>3. QED
      BY <1>1, <3>1, <3>2, SessionAssumption DEF Times, Past
  <2> DEFINE e == [values |-> s.values, expires |-> cut, until |-> s.expires, since |-> s.since]
  <2>2. store' = [store EXCEPT ![s.id] = e]
    BY <1>3, <2>1 DEF Save
  <2>3. /\ e \in Entry /\ e.values = s.values /\ e.expires = cut /\ e.until = s.expires
        /\ e.since = s.since
    BY <1>1 DEF Entry
  <2> HIDE DEF e
  <2>4. QED
    BY <1>1, <2>1, <2>2, <2>3
<1>4. QED
  BY <1>2, <1>3

\* A step of c's request that may save s, a session of c.
LEMMA SavesKept ==
  ASSUME IInv, lastId' = lastId, NEW c \in Clients, NEW s \in SessionType,
         \A d \in Clients, i \in Ids : Uses(d, i)' => Uses(d, i),
         Uses(c, s.id), s.expires <= s.since + Expiration,
         UNCHANGED store \/ (Save(s) /\ \A v \in s.values : v.by = c /\ ~v.silent)
  PROVE  OwnersOK' /\ StoreOK' /\ store' \in [Ids -> Entry \cup {None}]
<1>1. CASE UNCHANGED store
  BY <1>1 DEF IInv, TypeOK, OwnersOK, StoreOK
<1>2. CASE Save(s) /\ \A v \in s.values : v.by = c /\ ~v.silent
  <2>1. /\ store' \in [Ids -> Entry \cup {None}]
        /\ \A i \in Ids : i # s.id => store'[i] = store[i]
        /\ store'[s.id] # None =>
             /\ store'[s.id].values = s.values
             /\ store'[s.id].expires <= store'[s.id].until
             /\ store'[s.id].until <= store'[s.id].since + Expiration
    BY <1>2, Saved
  <2>2. OwnersOK'
    <3>1. SUFFICES ASSUME NEW i \in Ids, NEW d \in Clients, Uses(d, i)'
                   PROVE  /\ i <= lastId
                          /\ \A e \in Clients : Uses(e, i)' => e = d
                          /\ store'[i] # None => \A v \in store'[i].values : v.by = d
      BY DEF OwnersOK
    <3>2. Uses(d, i) /\ i <= lastId /\ \A e \in Clients : Uses(e, i) => e = d
      BY <3>1 DEF IInv, OwnersOK
    <3>3. CASE i = s.id
      BY <1>2, <2>1, <3>2, <3>3
    <3>4. CASE i # s.id
      BY <2>1, <3>2, <3>4 DEF IInv, OwnersOK
    <3>5. QED
      BY <3>2, <3>3, <3>4
  <2>3. StoreOK'
    <3>1. s.id \in Ids /\ s.id <= lastId
      BY DEF IInv, OwnersOK, SessionType
    <3>2. SUFFICES ASSUME NEW i \in Ids, store'[i] # None
                   PROVE  /\ i <= lastId
                          /\ store'[i].expires <= store'[i].until
                          /\ store'[i].until <= store'[i].since + Expiration
                          /\ \A v \in store'[i].values : ~v.silent
      BY DEF StoreOK
    <3>3. CASE i = s.id
      BY <1>2, <2>1, <3>1, <3>2, <3>3
    <3>4. CASE i # s.id
      BY <2>1, <3>2, <3>4 DEF IInv, StoreOK
    <3>5. QED
      BY <3>3, <3>4
  <2>4. QED
    BY <2>1, <2>2, <2>3
<1>3. QED
  BY <1>1, <1>2

LEMMA MiddlewareSaveKeeps ==
  ASSUME IInv, NEW w \in Workers, MiddlewareSave(w)
  PROVE  IInv'
<1>1. PICK place \in {"answer", "handle"} :
        place = IF pass[w] = "dynamic" THEN "answer" ELSE "handle"
  OBVIOUS
<1>2. /\ pc[w] = "save" /\ Save(session[w])
      /\ pc' = [pc EXCEPT ![w] = place]
      /\ UNCHANGED <<now, lastId, cookie, sent, client, pass, presented, session, setCookie>>
  BY <1>1 DEF MiddlewareSave, Goto, task
<1>3. PICK s \in SessionType : s = session[w] /\ s # None
  BY <1>2 DEF IInv, TypeOK, PlacesOK
<1>4. PICK c \in Clients : c = client[w]
  BY <1>2 DEF IInv, TypeOK, PlacesOK
<1>5. Uses(c, s.id)
  BY <1>3, <1>4 DEF Uses
<1>6. s.expires <= s.since + Expiration /\ \A v \in s.values : v.by = c /\ ~v.silent
  BY <1>3, <1>4 DEF IInv, HeldOK
<1>7. \A d \in Clients, i \in Ids : Uses(d, i)' => Uses(d, i)
  BY <1>2 DEF Uses
<1>8. OwnersOK' /\ StoreOK' /\ store' \in [Ids -> Entry \cup {None}]
  BY <1>2, <1>3, <1>5, <1>6, <1>7, SavesKept
<1>9. TypeOK'
  BY <1>2, <1>8 DEF IInv, TypeOK
<1>10. \A u \in Workers : pc'[u] = IF u = w THEN place ELSE pc[u]
  BY <1>2 DEF IInv, TypeOK
<1>11. HeldOK'
  BY <1>2 DEF IInv, HeldOK
<1>12. PlacesOK'
  BY <1>2, <1>3, <1>10 DEF IInv, PlacesOK
<1>13. Counted'
  <2>1. Making' \subseteq Making /\ First' \subseteq First
    BY <1>2, <1>10 DEF Making, First
  <2>2. QED
    BY <1>2, <2>1, CountedKept
<1>14. QED
  BY <1>8, <1>9, <1>11, <1>12, <1>13 DEF IInv

\* A handler that leaves its session as s, and may save it.
LEMMA HandleKeeps ==
  ASSUME IInv, NEW w \in Workers, NEW s \in SessionType, NEW saves \in BOOLEAN,
         Handle(w, s, saves),
         s.id = session[w].id, s.expires <= s.since + Expiration,
         \A v \in s.values :
           v.by = client[w] /\ (saves \/ pass[w] = "dynamic" => ~v.silent),
         setCookie' \in [Workers -> Ids \cup {Expire, None}],
         \A u \in Workers : u # w => setCookie'[u] = setCookie[u],
         setCookie'[w] \in {setCookie[w], Expire, None}
  PROVE  IInv'
<1>1. PICK left \in SessionType \cup {None} : left = IF pass[w] = "dynamic" THEN s ELSE None
  OBVIOUS
<1>2. PICK place \in {"load", "save", "answer"} :
        place = CASE pass[w] = "first" -> "load"
                  [] pass[w] = "dynamic" -> "save"
                  [] OTHER -> "answer"
  <2>1. CASE pass[w] = "first"
    BY <2>1
  <2>2. CASE pass[w] = "dynamic"
    BY <2>2
  <2>3. CASE pass[w] # "first" /\ pass[w] # "dynamic"
    BY <2>3
  <2>4. QED
    BY <2>1, <2>2, <2>3
<1>3. /\ pass[w] = "first" <=> place = "load"
      /\ pass[w] = "dynamic" <=> place = "save"
      /\ place = "save" => left = s
      /\ place # "save" => left = None
  <2>1. CASE pass[w] = "first"
    BY <1>1, <1>2, <2>1
  <2>2. CASE pass[w] = "dynamic"
    BY <1>1, <1>2, <2>2
  <2>3. CASE pass[w] # "first" /\ pass[w] # "dynamic"
    BY <1>1, <1>2, <2>3
  <2>4. QED
    BY <2>1, <2>2, <2>3
<1>4. /\ pc[w] = "handle"
      /\ IF saves THEN Save(s) ELSE UNCHANGED store
      /\ session' = [session EXCEPT ![w] = left]
      /\ pc' = [pc EXCEPT ![w] = place]
      /\ pass' = IF pass[w] = "first" THEN [pass EXCEPT ![w] = "dynamic"] ELSE pass
      /\ UNCHANGED <<now, lastId, cookie, sent, client, presented>>
  BY <1>1, <1>2 DEF Handle, EndOfHandler, Goto
<1>5. PICK c \in Clients : c = client[w]
  BY <1>4 DEF IInv, TypeOK, PlacesOK
<1>6. session[w] # None
  BY <1>4 DEF IInv, PlacesOK
<1>7. Uses(c, s.id)
  BY <1>5, <1>6 DEF Uses
<1>8. \A u \in Workers : /\ session'[u] = IF u = w THEN left ELSE session[u]
                         /\ pc'[u] = IF u = w THEN place ELSE pc[u]
  BY <1>4 DEF IInv, TypeOK
<1>9. \A d \in Clients, i \in Ids : Uses(d, i)' => Uses(d, i)
  <2>1. SUFFICES ASSUME NEW d \in Clients, NEW i \in Ids, Uses(d, i)'
                 PROVE  Uses(d, i)
    OBVIOUS
  <2>2. i # Expire /\ i # None
    BY SessionAssumption DEF Ids, Expire
  <2>3. CASE cookie[d] # None /\ cookie[d].id = i
    BY <2>3 DEF Uses
  <2>4. ASSUME NEW u \in Workers, client[u] = d,
               \/ presented[u] = i \/ setCookie'[u] = i
               \/ session'[u] # None /\ session'[u].id = i
        PROVE  Uses(d, i)
    <3>1. CASE u = w
      BY <1>3, <1>6, <1>8, <2>2, <2>4, <3>1 DEF Uses
    <3>2. CASE u # w
      BY <1>8, <2>4, <3>2 DEF Uses
    <3>3. QED
      BY <3>1, <3>2
  <2>5. QED
    BY <1>4, <2>1, <2>3, <2>4 DEF Uses
<1>10. OwnersOK' /\ StoreOK' /\ store' \in [Ids -> Entry \cup {None}]
  <2>1. CASE saves
    <3>1. Save(s) /\ \A v \in s.values : v.by = c /\ ~v.silent
      BY <1>4, <1>5, <2>1
    <3>2. QED
      BY <1>4, <1>7, <1>9, <3>1, SavesKept
  <2>2. CASE ~saves
    <3>1. UNCHANGED store
      BY <1>4, <2>2
    <3>2. QED
      BY <1>4, <1>7, <1>9, <3>1, SavesKept
  <2>3. QED
    BY <2>1, <2>2
<1>11. TypeOK'
  <2>1. pass' \in [Workers -> Passes \cup {None}]
    BY <1>4 DEF IInv, TypeOK, Passes
  <2>2. QED
    BY <1>4, <1>10, <2>1 DEF IInv, TypeOK
<1>12. HeldOK'
  <2>1. SUFFICES ASSUME NEW u \in Workers, session'[u] # None
                 PROVE  /\ session'[u].expires <= session'[u].since + Expiration
                        /\ \A v \in session'[u].values : v.by = client[u] /\ ~v.silent
    BY <1>4 DEF HeldOK
  <2>2. CASE u = w
    <3>1. session'[u] = s /\ pass[w] = "dynamic"
      BY <1>3, <1>8, <2>1, <2>2
    <3>2. QED
      BY <2>2, <3>1
  <2>3. CASE u # w
    BY <1>8, <2>1, <2>3 DEF IInv, HeldOK
  <2>4. QED
    BY <2>2, <2>3
<1>13. PlacesOK'
  <2>1. SUFFICES ASSUME NEW u \in Workers
                 PROVE  /\ pc'[u] = "idle" =>
                             client[u] = None /\ setCookie'[u] = None /\ session'[u] = None
                        /\ pc'[u] # "idle" => client[u] # None
                        /\ pc'[u] = "purge" => presented[u] # None
                        /\ pc'[u] \in {"save", "handle"} => session'[u] # None
    BY <1>4 DEF PlacesOK
  <2>2. CASE u = w
    BY <1>3, <1>5, <1>8, <2>2, SessionAssumption
  <2>3. CASE u # w
    BY <1>8, <2>3 DEF IInv, PlacesOK
  <2>4. QED
    BY <2>2, <2>3
<1>14. Counted'
  <2>1. CASE pass[w] # "first"
    <3>1. Making' \subseteq Making /\ First' \subseteq First
      BY <1>3, <1>4, <1>8, <2>1 DEF Making, First
    <3>2. QED
      BY <1>4, <3>1, CountedKept
  <2>2. CASE pass[w] = "first"
    <3> DEFINE m == Making'
               f == First'
    <3>1. m = Making \cup {w} /\ w \notin Making
      BY <1>3, <1>4, <1>8, <2>2 DEF Making
    <3>2. f = First \ {w} /\ w \in First
      BY <1>4, <2>2 DEF First, IInv, TypeOK
    <3>3. lastId + Cardinality(Making) + Cardinality(First)
            <= sent + (IF sent = 0 THEN 0 ELSE 1)
      BY DEF IInv, Counted
    <3> HIDE DEF m, f
    <3>4. Cardinality(m) = Cardinality(Making) + 1
      BY <3>1, CountsFinite, FS_AddElement
    <3>5. Cardinality(f) = Cardinality(First) - 1
      BY <3>2, CountsFinite, FS_RemoveElement
    <3>6. lastId + Cardinality(m) + Cardinality(f)
            = lastId + Cardinality(Making) + Cardinality(First)
      BY <3>4, <3>5, CountsFinite DEF IInv, TypeOK
    <3>7. QED
      BY <1>4, <3>3, <3>6 DEF Counted, m, f
  <2>3. QED
    BY <2>1, <2>2
<1>15. QED
  BY <1>10, <1>11, <1>12, <1>13, <1>14 DEF IInv

LEMMA HandlerKeeps ==
  ASSUME IInv, NEW w \in Workers, NEW saves \in BOOLEAN,
         Put(w, saves) \/ SetExpiry(w, saves) \/ Destroy(w, saves)
  PROVE  IInv'
<1>1. pc[w] = "handle"
  BY DEF Put, SetExpiry, Destroy, Handle
<1>2. PICK r \in SessionType : r = session[w] /\ r # None
  BY <1>1 DEF IInv, TypeOK, PlacesOK
<1>3. /\ r.id \in Ids /\ r.values \in SUBSET Values /\ r.expires \in Times /\ r.since \in Nat
      /\ r.named \in BOOLEAN /\ r.expires <= r.since + Expiration
      /\ \A v \in r.values : v.by = client[w] /\ ~v.silent
  BY <1>2 DEF SessionType, IInv, HeldOK
<1>4. setCookie \in [Workers -> Ids \cup {Expire, None}]
  BY DEF IInv, TypeOK
<1>5. now \in Nat /\ now + Expiration \in Times /\ Past \in Times
  BY SessionAssumption DEF IInv, TypeOK, Times, Past
<1>6. CASE Put(w, saves)
  <2>1. client[w] \in Clients
    BY <1>1 DEF IInv, TypeOK, PlacesOK
  <2>2. PICK silent \in BOOLEAN : silent = (~saves /\ pass[w] = "compiled")
    OBVIOUS
  <2>3. PICK x \in Values : x = Value(w, saves) /\ x.by = client[w] /\ x.silent = silent
    <3>1. Value(w, saves) = [by |-> client[w], silent |-> silent]
      BY <2>2 DEF Value
    <3>2. QED
      BY <2>1, <3>1 DEF Values
  <2>4. PICK more \in SUBSET Values : more = r.values \cup {x}
    BY <1>3
  <2>5. PICK s \in SessionType :
          /\ s = [session[w] EXCEPT !.values = @ \cup {Value(w, saves)}]
          /\ s.id = r.id /\ s.values = more /\ s.expires = r.expires /\ s.since = r.since
    <3>1. [session[w] EXCEPT !.values = @ \cup {Value(w, saves)}] = [r EXCEPT !.values = more]
      BY <1>2, <2>3, <2>4
    <3>2. [r EXCEPT !.values = more] \in SessionType
      BY DEF SessionType
    <3>3. LET s == [r EXCEPT !.values = more]
          IN s.id = r.id /\ s.values = more /\ s.expires = r.expires /\ s.since = r.since
      BY DEF SessionType
    <3>4. QED
      BY <3>1, <3>2, <3>3
  <2>6. Handle(w, s, saves) /\ setCookie' = setCookie
    BY <1>6, <2>5 DEF Put
  <2>7. \A v \in s.values : v.by = client[w] /\ (saves \/ pass[w] = "dynamic" => ~v.silent)
    BY <1>3, <2>2, <2>3, <2>4, <2>5
  <2>8. QED
    BY <1>2, <1>3, <1>4, <2>5, <2>6, <2>7, HandleKeeps
<1>7. CASE SetExpiry(w, saves)
  <2>1. PICK until \in Times : until = now + Expiration
    BY <1>5
  <2>2. PICK s \in SessionType :
          /\ s = [session[w] EXCEPT !.expires = now + Expiration, !.since = now]
          /\ s.id = r.id /\ s.values = r.values /\ s.expires = until /\ s.since = now
    <3>1. [session[w] EXCEPT !.expires = now + Expiration, !.since = now]
            = [r EXCEPT !.expires = until, !.since = now]
      BY <1>2, <2>1
    <3>2. [r EXCEPT !.expires = until, !.since = now] \in SessionType
      BY <1>5 DEF SessionType
    <3>3. LET s == [r EXCEPT !.expires = until, !.since = now]
          IN s.id = r.id /\ s.values = r.values /\ s.expires = until /\ s.since = now
      BY DEF SessionType
    <3>4. QED
      BY <3>1, <3>2, <3>3
  <2>3. Handle(w, s, saves) /\ setCookie' = setCookie
    BY <1>7, <2>2 DEF SetExpiry
  <2>4. s.expires <= s.since + Expiration
    BY <1>5, <2>1, <2>2, SessionAssumption DEF Times, Past
  <2>5. QED
    BY <1>2, <1>3, <1>4, <2>2, <2>3, <2>4, HandleKeeps
<1>8. CASE Destroy(w, saves)
  <2>1. PICK past \in Times : past = Past
    BY <1>5
  <2>2. PICK none \in SUBSET Values : none = {}
    OBVIOUS
  <2>3. PICK s \in SessionType :
          /\ s = [session[w] EXCEPT !.values = {}, !.expires = Past]
          /\ s.id = r.id /\ s.values = none /\ s.expires = past /\ s.since = r.since
    <3>1. [session[w] EXCEPT !.values = {}, !.expires = Past]
            = [r EXCEPT !.values = none, !.expires = past]
      BY <1>2, <2>1, <2>2
    <3>2. [r EXCEPT !.values = none, !.expires = past] \in SessionType
      BY DEF SessionType
    <3>3. LET s == [r EXCEPT !.values = none, !.expires = past]
          IN s.id = r.id /\ s.values = none /\ s.expires = past /\ s.since = r.since
      BY DEF SessionType
    <3>4. QED
      BY <3>1, <3>2, <3>3
  <2>4. PICK set \in {Expire, None} :
          set = IF session[w].named \/ StandardCookie THEN Expire ELSE None
    OBVIOUS
  <2>5. Handle(w, s, saves) /\ setCookie' = [setCookie EXCEPT ![w] = set]
    BY <1>8, <2>3, <2>4 DEF Destroy
  <2>6. s.expires <= s.since + Expiration
    BY <1>3, <2>1, <2>3, SessionAssumption DEF Past
  <2>7. QED
    BY <1>2, <1>3, <1>4, <2>2, <2>3, <2>5, <2>6, HandleKeeps
<1>9. QED
  BY <1>6, <1>7, <1>8

-----------------------------------------------------------------------------
(* A client that presents a session that is gone.                          *)

\* How a client is left out still, or not any more.
StillOut(c) ==
  \/ LockedOut(c)'
  \/ now' > cookie[c].until
  \/ \E w \in Workers : client[w] = c /\ setCookie'[w] = Expire

\* The session id is gone, c presents it, and its requests will not tell it of another.
Gone(c, id) ==
  /\ cookie[c] # None /\ cookie[c].id = id
  /\ store[id] = None
  /\ \A w \in Workers : session[w] = None \/ session[w].id # id
  /\ \A w \in Workers : client[w] = c => setCookie[w] = None /\ presented[w] = id

LEMMA GoneIsLockedOut ==
  ASSUME IInv, NEW c \in Clients
  PROVE  LockedOut(c) <=> \E id \in Ids : Gone(c, id)
<1>1. cookie[c] # None => cookie[c].id \in Ids
  BY DEF IInv, TypeOK, Cookie
<1>2. None \notin Ids
  BY SessionAssumption DEF Ids
<1>3. QED
  BY <1>1, <1>2 DEF LockedOut, Presented, Gone

LEMMA EnvironmentLeavesOut ==
  ASSUME IInv, NEW c \in Clients, NEW id \in Ids, Gone(c, id),
         Tick \/ Restart \/ \E i \in Ids : Lose(i)
  PROVE  Gone(c, id)' \/ now' > cookie[c].until
<1>1. CASE Tick
  <2>1. /\ store'[id] = Kept(store[id], now') /\ cookie'[c] = Kept(cookie[c], now')
        /\ UNCHANGED <<client, presented, session, setCookie>>
    BY <1>1 DEF Tick, task
  <2>2. store'[id] = None
    BY <2>1 DEF Gone, Kept
  <2>3. CASE now' <= cookie[c].until
    BY <2>1, <2>2, <2>3 DEF Gone, Kept
  <2>4. CASE ~(now' <= cookie[c].until)
    <3>1. now' \in Int /\ cookie[c].until \in Int
      BY <1>1, SessionAssumption DEF Tick, Gone, IInv, TypeOK, Cookie, Times, Past
    <3>2. QED
      BY <2>4, <3>1
  <2>5. QED
    BY <2>3, <2>4
<1>2. CASE Restart
  BY <1>2, SessionAssumption DEF Restart, Gone
<1>3. ASSUME NEW i \in Ids, Lose(i)
      PROVE  Gone(c, id)'
  BY <1>3 DEF Lose, task, Gone, IInv, TypeOK
<1>4. QED
  BY <1>1, <1>2, <1>3

LEMMA RequestsLeaveOut ==
  ASSUME IInv, NEW c \in Clients, NEW id \in Ids, Gone(c, id), NEW w \in Workers,
         \/ \E d \in Clients, p \in {"compiled", "first", "get"} : Send(w, d, p)
         \/ GetOrCreate(w) \/ MiddlewareSave(w) \/ Answer(w)
  PROVE  Gone(c, id)'
<1>1. ASSUME NEW d \in Clients, NEW p \in {"compiled", "first", "get"}, Send(w, d, p)
      PROVE  Gone(c, id)'
  <2>1. /\ client' = [client EXCEPT ![w] = d]
        /\ presented' = [presented EXCEPT ![w] = Presented(d)]
        /\ pc[w] = "idle" /\ UNCHANGED <<store, cookie, session, setCookie>>
    BY <1>1 DEF Send, stored
  <2>2. setCookie[w] = None
    BY <2>1 DEF IInv, PlacesOK
  <2>3. /\ \A u \in Workers : u # w => client'[u] = client[u] /\ presented'[u] = presented[u]
        /\ client'[w] = d /\ presented'[w] = Presented(d)
    BY <2>1 DEF IInv, TypeOK
  <2>4. d = c => Presented(d) = id
    BY DEF Presented, Gone
  <2>5. QED
    BY <2>1, <2>2, <2>3, <2>4 DEF Gone
<1>2. CASE Load(w)
  <2>1. presented[w] # None /\ store[presented[w]] # None
    BY <1>2 DEF Load, Found
  <2>2. presented[w] # id
    BY <2>1 DEF Gone
  <2>3. /\ session' = [session EXCEPT ![w] =
                         [id |-> presented[w], values |-> Found(w).values,
                          expires |-> Found(w).expires, since |-> Found(w).since,
                          named |-> FALSE]]
        /\ UNCHANGED <<store, cookie, client, presented, setCookie>>
    BY <1>2 DEF Load, stored, task
  <2>4. session'[w].id = presented[w] /\ \A u \in Workers : u # w => session'[u] = session[u]
    BY <2>3 DEF IInv, TypeOK
  <2>5. QED
    BY <2>2, <2>3, <2>4 DEF Gone
<1>3. CASE LoadExpired(w)
  BY <1>3 DEF LoadExpired, stored, task, Gone
<1>4. CASE Purge(w)
  BY <1>4 DEF Purge, task, Gone, IInv, TypeOK
<1>5. CASE Create(w)
  <2>1. id <= lastId
    BY DEF Gone, Uses, IInv, OwnersOK
  <2>2. lastId' # id
    BY <1>5, <2>1, SessionAssumption DEF Create, New, IInv, TypeOK, Ids
  <2>3. /\ session' = [session EXCEPT ![w] =
                         [id |-> lastId', values |-> {}, expires |-> now + Expiration,
                          since |-> now, named |-> TRUE]]
        /\ UNCHANGED <<store, cookie, client, presented>>
        /\ setCookie' = IF presented[w] = None /\ pass[w] # "get"
                          THEN [setCookie EXCEPT ![w] = lastId'] ELSE setCookie
    BY <1>5 DEF Create, New, task
  <2>4. session'[w].id = lastId' /\ \A u \in Workers : u # w => session'[u] = session[u]
    BY <2>3 DEF IInv, TypeOK
  <2>5. \A u \in Workers : client[u] = c => setCookie'[u] = setCookie[u]
    <3>1. client[w] = c => presented[w] # None
      BY SessionAssumption DEF Gone, Ids
    <3>2. QED
      BY <2>3, <3>1 DEF IInv, TypeOK
  <2>6. QED
    BY <2>2, <2>3, <2>4, <2>5 DEF Gone
<1>6. CASE MiddlewareSave(w)
  <2>1. /\ pc[w] = "save" /\ Save(session[w])
        /\ UNCHANGED <<cookie, client, presented, session, setCookie>>
    BY <1>6 DEF MiddlewareSave, task
  <2>2. session[w] # None /\ session[w].id # id
    BY <2>1 DEF IInv, PlacesOK, Gone
  <2>3. store'[id] = store[id]
    BY <2>1, <2>2 DEF Save, IInv, TypeOK
  <2>4. QED
    BY <2>1, <2>3 DEF Gone
<1>7. CASE Answer(w)
  <2>1. /\ pc[w] = "answer" /\ UNCHANGED store
        /\ client' = [client EXCEPT ![w] = None]
        /\ presented' = [presented EXCEPT ![w] = None]
        /\ session' = [session EXCEPT ![w] = None]
        /\ setCookie' = [setCookie EXCEPT ![w] = None]
        /\ cookie' = [cookie EXCEPT ![client[w]] =
                        IF setCookie[w] = None THEN @
                        ELSE IF setCookie[w] = Expire THEN None
                        ELSE [id |-> setCookie[w], until |-> now + Expiration]]
    BY <1>7 DEF Answer, stored
  <2>2. cookie'[c] = cookie[c]
    <3>1. CASE client[w] = c
      <4>1. setCookie[w] = None
        BY <3>1 DEF Gone
      <4>2. QED
        BY <2>1, <3>1, <4>1 DEF IInv, TypeOK
    <3>2. CASE client[w] # c
      BY <2>1, <3>2 DEF IInv, TypeOK
    <3>3. QED
      BY <3>1, <3>2
  <2>3. /\ session'[w] = None /\ \A u \in Workers : u # w => session'[u] = session[u]
        /\ client'[w] = None
        /\ \A u \in Workers : u # w =>
             client'[u] = client[u] /\ presented'[u] = presented[u] /\ setCookie'[u] = setCookie[u]
    BY <2>1 DEF IInv, TypeOK
  <2>4. c # None
    BY SessionAssumption
  <2>5. QED
    BY <2>1, <2>2, <2>3, <2>4 DEF Gone
<1>8. QED
  BY <1>1, <1>2, <1>3, <1>4, <1>5, <1>6, <1>7 DEF GetOrCreate

LEMMA HandlersLeaveOut ==
  ASSUME IInv, NEW c \in Clients, NEW id \in Ids, Gone(c, id), NEW w \in Workers, Handler(w)
  PROVE  Gone(c, id)' \/ \E u \in Workers : client[u] = c /\ setCookie'[u] = Expire
<1>1. PICK saves \in BOOLEAN : Put(w, saves) \/ SetExpiry(w, saves) \/ Destroy(w, saves)
  BY DEF Handler
<1>2. pc[w] = "handle"
  BY <1>1 DEF Put, SetExpiry, Destroy, Handle
<1>3. session[w] # None /\ session[w].id # id /\ session[w] \in SessionType
  BY <1>2 DEF IInv, TypeOK, PlacesOK, Gone
<1>4. PICK s : Handle(w, s, saves) /\ s.id = session[w].id
  <2>1. CASE Put(w, saves)
    <3>1. [session[w] EXCEPT !.values = @ \cup {Value(w, saves)}].id = session[w].id
      BY <1>3 DEF SessionType
    <3>2. QED
      BY <2>1, <3>1 DEF Put
  <2>2. CASE SetExpiry(w, saves)
    <3>1. [session[w] EXCEPT !.expires = now + Expiration, !.since = now].id = session[w].id
      BY <1>3 DEF SessionType
    <3>2. QED
      BY <2>2, <3>1 DEF SetExpiry
  <2>3. CASE Destroy(w, saves)
    <3>1. [session[w] EXCEPT !.values = {}, !.expires = Past].id = session[w].id
      BY <1>3 DEF SessionType
    <3>2. QED
      BY <2>3, <3>1 DEF Destroy
  <2>4. QED
    BY <1>1, <2>1, <2>2, <2>3
<1>5. /\ IF saves THEN Save(s) ELSE UNCHANGED store
      /\ session' = [session EXCEPT ![w] = IF pass[w] = "dynamic" THEN s ELSE None]
      /\ UNCHANGED <<cookie, client, presented>>
  BY <1>4 DEF Handle
<1>6. store'[id] = store[id]
  BY <1>3, <1>4, <1>5 DEF Save, IInv, TypeOK
<1>7. \A u \in Workers : session'[u] = None \/ session'[u].id # id
  BY <1>3, <1>4, <1>5 DEF Gone, IInv, TypeOK
<1>8. \/ setCookie' = setCookie
      \/ \E set \in {Expire, None} : setCookie' = [setCookie EXCEPT ![w] = set]
  BY <1>1 DEF Put, SetExpiry, Destroy
<1>9. CASE setCookie' = setCookie
  BY <1>5, <1>6, <1>7, <1>9 DEF Gone
<1>10. CASE setCookie' = [setCookie EXCEPT ![w] = None]
  BY <1>5, <1>6, <1>7, <1>10 DEF Gone, IInv, TypeOK
<1>11. CASE setCookie' = [setCookie EXCEPT ![w] = Expire]
  <2>1. setCookie'[w] = Expire /\ \A u \in Workers : u # w => setCookie'[u] = setCookie[u]
    BY <1>11 DEF IInv, TypeOK
  <2>2. QED
    BY <1>5, <1>6, <1>7, <2>1 DEF Gone
<1>12. QED
  BY <1>8, <1>9, <1>10, <1>11

-----------------------------------------------------------------------------
(* What every state and every step has.                                    *)

LEMMA InitHolds == Init => IInv
<1>1. SUFFICES ASSUME Init PROVE IInv
  OBVIOUS
<1>2. TypeOK
  BY <1>1, SessionAssumption DEF Init, TypeOK
<1>3. \A i \in Ids, c \in Clients : ~Uses(c, i)
  <2>1. None \notin Clients
    BY SessionAssumption
  <2>2. QED
    BY <1>1, <2>1 DEF Init, Uses
<1>4. OwnersOK /\ StoreOK /\ HeldOK /\ PlacesOK
  BY <1>1, <1>3 DEF Init, OwnersOK, StoreOK, HeldOK, PlacesOK
<1>5. Counted
  <2>1. None # "first"
    BY SessionAssumption DEF Passes
  <2>2. Making = {} /\ First = {}
    BY <1>1, <2>1 DEF Init, Making, First
  <2>3. lastId = 0 /\ sent = 0
    BY <1>1 DEF Init
  <2>4. QED
    BY <2>2, <2>3, FS_EmptySet DEF Counted
<1>6. QED
  BY <1>2, <1>4, <1>5 DEF IInv

LEMMA NextKeeps == IInv /\ [Next]_vars => IInv'
<1>1. SUFFICES ASSUME IInv, [Next]_vars PROVE IInv'
  OBVIOUS
<1>2. CASE Tick
  BY <1>1, <1>2, TickKeeps
<1>3. CASE Restart
  BY <1>1, <1>3, RestartKeeps
<1>4. ASSUME NEW i \in Ids, Lose(i)
      PROVE  IInv'
  BY <1>1, <1>4, LoseKeeps
<1>5. ASSUME NEW w \in Workers, NEW c \in Clients, NEW p \in {"compiled", "first", "get"},
             Send(w, c, p)
      PROVE  IInv'
  BY <1>1, <1>5, SendKeeps
<1>6. ASSUME NEW w \in Workers, GetOrCreate(w)
      PROVE  IInv'
  BY <1>1, <1>6, LoadKeeps, LoadExpiredKeeps, PurgeKeeps, CreateKeeps DEF GetOrCreate
<1>7. ASSUME NEW w \in Workers, MiddlewareSave(w) \/ Answer(w)
      PROVE  IInv'
  BY <1>1, <1>7, MiddlewareSaveKeeps, AnswerKeeps
<1>8. ASSUME NEW w \in Workers, Handler(w)
      PROVE  IInv'
  BY <1>1, <1>8, HandlerKeeps DEF Handler
<1>9. CASE UNCHANGED vars
  BY <1>1, <1>9
     DEF vars, stored, task, IInv, TypeOK, OwnersOK, Uses, StoreOK, HeldOK, PlacesOK, Counted,
         Making, First
<1>10. QED
  BY <1>1, <1>2, <1>3, <1>4, <1>5, <1>6, <1>7, <1>8, <1>9 DEF Next

\* Every session is one client's, in its cookie, its requests and the storage, and is over
\* in all of them by its time; no ID is given out twice.
THEOREM InductiveInvariant == Spec => []IInv
<1>1. Init => IInv
  BY InitHolds
<1>2. IInv /\ [Next]_vars => IInv'
  BY NextKeeps
<1>3. QED
  BY <1>1, <1>2, PTL DEF Spec

\* The state is well typed; Manager.Get and GetOrCreate have made at most one session more
\* than requests have come.
THEOREM TypeCorrect == Spec => []TypeOK
<1>1. IInv => TypeOK
  BY DEF IInv
<1>2. QED
  BY <1>1, InductiveInvariant, PTL

\* The middleware gives no request a session with values of another client.
THEOREM SessionsAreIsolated == Spec => []Isolation
<1>1. IInv => Isolation
  BY DEF IInv, HeldOK, Isolation
<1>2. QED
  BY <1>1, InductiveInvariant, PTL

\* No save and no rounding keeps a session, in the storage or in a goroutine's hands,
\* for longer than Expiration after it was made or SetExpiry called.
THEOREM SessionsEnd == Spec => []SessionEnds
<1>1. IInv => SessionEnds
  BY DEF IInv, StoreOK, HeldOK, SessionEnds
<1>2. QED
  BY <1>1, InductiveInvariant, PTL

\* What a handler of a compiled chain leaves to the middleware to save is never stored.
THEOREM SilentValuesAreLost == Spec => []SilentIsLost
<1>1. IInv => SilentIsLost
  BY DEF IInv, StoreOK, SilentIsLost
<1>2. QED
  BY <1>1, InductiveInvariant, PTL

\* A client that presents a session that is gone gets no other, in any step, until its
\* cookie is over or Destroy removes it.
THEOREM LockedOutForGood == Spec => StaysLockedOut
<1>1. ASSUME IInv, IInv', NEW c \in Clients, LockedOut(c), Next
      PROVE  StillOut(c)
  <2>1. PICK id \in Ids : Gone(c, id)
    BY <1>1, GoneIsLockedOut
  <2>2. Gone(c, id)' => StillOut(c)
    <3>1. id # None
      BY SessionAssumption DEF Ids
    <3>2. QED
      BY <3>1 DEF Gone, StillOut, LockedOut, Presented
  <2>3. CASE Tick \/ Restart \/ \E i \in Ids : Lose(i)
    BY <1>1, <2>1, <2>2, <2>3, EnvironmentLeavesOut DEF StillOut
  <2>4. ASSUME NEW w \in Workers,
               \/ \E d \in Clients, p \in {"compiled", "first", "get"} : Send(w, d, p)
               \/ GetOrCreate(w) \/ MiddlewareSave(w) \/ Answer(w)
        PROVE  StillOut(c)
    BY <1>1, <2>1, <2>2, <2>4, RequestsLeaveOut
  <2>5. ASSUME NEW w \in Workers, Handler(w)
        PROVE  StillOut(c)
    BY <1>1, <2>1, <2>2, <2>5, HandlersLeaveOut DEF StillOut
  <2>6. QED
    BY <1>1, <2>3, <2>4, <2>5 DEF Next
<1>2. IInv /\ IInv' /\ [Next]_vars =>
        [\A c \in Clients : LockedOut(c) =>
           \/ LockedOut(c)'
           \/ now' > cookie[c].until
           \/ \E w \in Workers : client[w] = c /\ setCookie'[w] = Expire]_vars
  BY <1>1 DEF StillOut
<1>3. QED
  BY <1>2, InductiveInvariant, PTL DEF Spec, StaysLockedOut
=============================================================================
