------------------------------ MODULE Session -------------------------------
(***************************************************************************)
(* Sessions: Manager.Get and GetOrCreate, StorageAdapter, the middleware   *)
(* of NewMiddleware and what a handler does with its session (session.go), *)
(* for clients that keep the cookie and may have several requests at once. *)
(*                                                                         *)
(* The middleware calls c.Next() and saves.  In a compiled pass Next calls *)
(* nothing (Dispatch!NextInert), so it saves before the handler runs; in   *)
(* the dynamic pass that follows the first compiled pass of a chain it     *)
(* saves behind the handler.                                               *)
(*                                                                         *)
(* Of a value in a session it is kept whose request stored it, and whether *)
(* that request left it to the middleware to save it.  The storage is      *)
(* KVStore: its calls are atomic, its entries go when their ttl is over,   *)
(* and one may be lost before.  Session IDs are taken to be all different. *)
(* History: since in a session.                                            *)
(*                                                                         *)
(* The contexts are those of GetContext, which have the cookies of their   *)
(* requests; those of the server's own connections do not (HeadersLost in  *)
(* PooledExchange), and there each request makes a session.                *)
(***************************************************************************)
EXTENDS Integers, FiniteSets

CONSTANTS Workers,         \* goroutines that serve requests
          Clients,         \* clients, which each keep one cookie
          Expiration,      \* Config.Expiration, in ticks
          Second,          \* ticks of a second: the stored expiry is in seconds
          StandardCookie,  \* the cookie is "session_id" with path "/"
          MaxRequests,     \* bound: requests sent
          MaxTime,         \* bound: the last tick
          None

Past == -1                   \* an hour ago
Expire == 0                  \* setCookie: the cookie is to be removed
Ids == 1..(MaxRequests + 1)  \* the first request of a chain may make two sessions
Times == Past..(MaxTime + Expiration)
Passes == {"compiled", "first", "dynamic", "get"}

\* A value in a session, a *Session, what the storage has of it, and a cookie.
Values == [by: Clients, silent: BOOLEAN]
SessionType == [id: Ids, values: SUBSET Values, expires: Times, since: Nat, named: BOOLEAN]
Entry == [values: SUBSET Values, expires: Times, until: Times, since: Nat]
Cookie == [id: Ids, until: Times]

ASSUME SessionAssumption ==
  /\ Expiration \in Nat \ {0} /\ Second \in Nat \ {0}
  /\ StandardCookie \in BOOLEAN
  /\ MaxRequests \in Nat /\ MaxTime \in Nat
  /\ IsFiniteSet(Workers)
  /\ None \notin Nat \cup Clients \cup Passes
  /\ None \notin SessionType /\ None \notin Entry /\ None \notin Cookie

VARIABLES now,
          lastId,     \* session IDs generated so far
          store,      \* store[id]: the stored session, or None
          cookie,     \* cookie[c]: the cookie that the client has, or None
          sent,       \* requests sent so far
          pc,         \* per goroutine: where it is
          client,     \* who has sent the request that it serves
          pass,       \* which pass it is in, "get" for a handler without the middleware
          presented,  \* the session ID in the request, or None
          session,    \* the *Session it has, or None
          setCookie   \* what the Set-Cookie header of the response does

stored == <<lastId, store>>
task == <<client, pass, presented>>
vars == <<now, stored, cookie, sent, pc, task, session, setCookie>>

-----------------------------------------------------------------------------
Goto(w, label) == pc' = [pc EXCEPT ![w] = label]

Truncated(t) == t - (t % Second)

\* The session ID in the cookie that the browser presents.
Presented(c) == IF cookie[c] # None THEN cookie[c].id ELSE None

\* Of an entry of the store or a cookie, what is left of it at the time t.
Kept(e, t) == IF e # None /\ t <= e.until THEN e ELSE None

Init ==
  /\ now = 0
  /\ lastId = 0
  /\ store = [i \in Ids |-> None]
  /\ cookie = [c \in Clients |-> None]
  /\ sent = 0
  /\ pc = [w \in Workers |-> "idle"]
  /\ client = [w \in Workers |-> None]
  /\ pass = [w \in Workers |-> None]
  /\ presented = [w \in Workers |-> None]
  /\ session = [w \in Workers |-> None]
  /\ setCookie = [w \in Workers |-> None]

\* The storage has no entry, and the browser no cookie, whose time is over: the
\* Max-Age of the cookie is Config.Expiration.
Tick ==
  /\ now < MaxTime
  /\ now' = now + 1
  /\ store' = [i \in Ids |-> Kept(store[i], now')]
  /\ cookie' = [c \in Clients |-> Kept(cookie[c], now')]
  /\ UNCHANGED <<lastId, sent, pc, task, session, setCookie>>

\* c sends a request.  Its chain is compiled already, or it is the "first" of a
\* chain of route handlers, or there is no session middleware and the handler calls
\* Manager.Get.  Bound: only the first request of all is the first of its chain.
Send(w, c, p) ==
  /\ pc[w] = "idle"
  /\ sent < MaxRequests
  /\ p = "first" => sent = 0
  /\ sent' = sent + 1
  /\ client' = [client EXCEPT ![w] = c]
  /\ pass' = [pass EXCEPT ![w] = p]
  /\ presented' = [presented EXCEPT ![w] = Presented(c)]
  /\ Goto(w, "load")
  /\ UNCHANGED <<now, stored, cookie, session, setCookie>>

-----------------------------------------------------------------------------
(* Manager.Get and GetOrCreate.                                            *)

\* Where a goroutine goes that has its session.
Have(w) == IF pass[w] \in {"compiled", "first"} THEN "save" ELSE "handle"

\* The entry that the storage has for the session ID of the request.
Found(w) == IF presented[w] = None THEN None ELSE store[presented[w]]

\* Mutant of Load: the session lives for another Expiration when it is loaded.
LoadExtends(w) ==
  /\ pc[w] = "load"
  /\ Found(w) # None
  /\ now <= Found(w).expires
  /\ session' = [session EXCEPT ![w] =
       [id |-> presented[w], values |-> Found(w).values,
        expires |-> now + Expiration, since |-> Found(w).since,
        named |-> FALSE]]
  /\ Goto(w, Have(w))
  /\ UNCHANGED <<now, stored, cookie, sent, task, setCookie>>

\* A session read from the storage does not know the name of its cookie.
Load(w) ==
  /\ pc[w] = "load"
  /\ Found(w) # None
  /\ now <= Found(w).expires
  /\ session' = [session EXCEPT ![w] =
       [id |-> presented[w], values |-> Found(w).values,
        expires |-> Found(w).expires, since |-> Found(w).since,
        named |-> FALSE]]
  /\ Goto(w, Have(w))
  /\ UNCHANGED <<now, stored, cookie, sent, task, setCookie>>

\* The session that Get has read is over: it is deleted in another step.
LoadExpired(w) ==
  /\ pc[w] = "load"
  /\ Found(w) # None
  /\ now > Found(w).expires
  /\ Goto(w, "purge")
  /\ UNCHANGED <<now, stored, cookie, sent, task, session, setCookie>>

Purge(w) ==
  /\ pc[w] = "purge"
  /\ store' = [store EXCEPT ![presented[w]] = None]
  /\ Goto(w, "create")
  /\ UNCHANGED <<now, lastId, cookie, sent, task, session, setCookie>>

\* No session: w makes the session id.
New(w, id) ==
  /\ pc[w] = "create" \/ (pc[w] = "load" /\ Found(w) = None)
  /\ lastId' = id
  /\ session' = [session EXCEPT ![w] =
       [id |-> id, values |-> {}, expires |-> now + Expiration, since |-> now,
        named |-> TRUE]]
  /\ Goto(w, Have(w))
  /\ UNCHANGED <<now, store, cookie, sent, task>>

\* Mutant of Create: the generator falls back to one constant ID.
CreateSame(w) ==
  /\ New(w, 1)
  /\ setCookie' = IF presented[w] = None /\ pass[w] # "get"
                    THEN [setCookie EXCEPT ![w] = 1] ELSE setCookie

\* Mutant of Create: every new session is told to the client.
CreateTold(w) ==
  /\ New(w, lastId + 1)
  /\ setCookie' = [setCookie EXCEPT ![w] = lastId + 1]

\* A new session.  GetOrCreate sets the cookie if the request had no session ID.
Create(w) ==
  /\ New(w, lastId + 1)
  /\ setCookie' = IF presented[w] = None /\ pass[w] # "get"
                    THEN [setCookie EXCEPT ![w] = lastId + 1] ELSE setCookie

-----------------------------------------------------------------------------
(* StorageAdapter.Save.                                                    *)

\* What is stored has its expiry in seconds, and is kept until the exact one.
Save(s) ==
  store' = [store EXCEPT ![s.id] =
    IF s.expires <= now THEN None
    ELSE [values |-> s.values, expires |-> Truncated(s.expires), until |-> s.expires,
          since |-> s.since]]

\* The middleware saves, before the handler in a compiled pass.
MiddlewareSave(w) ==
  /\ pc[w] = "save"
  /\ Save(session[w])
  /\ Goto(w, IF pass[w] = "dynamic" THEN "answer" ELSE "handle")
  /\ UNCHANGED <<now, lastId, cookie, sent, task, session, setCookie>>

-----------------------------------------------------------------------------
(* The handler: it changes its session, which is its own, and may save it. *)

\* Where the goroutine goes, and in which pass.  The first request of a chain runs
\* all of it again.
EndOfHandler(w) ==
  /\ Goto(w, CASE pass[w] = "first" -> "load"
               [] pass[w] = "dynamic" -> "save"
               [] OTHER -> "answer")
  /\ pass' = IF pass[w] = "first" THEN [pass EXCEPT ![w] = "dynamic"] ELSE pass

\* Mutant of Handle: the middleware of a compiled chain saves behind the handler.
HandleSaves(w, s, saves) ==
  /\ pc[w] = "handle"
  /\ IF saves \/ pass[w] = "compiled" THEN Save(s) ELSE UNCHANGED store
  /\ session' = [session EXCEPT ![w] = IF pass[w] = "dynamic" THEN s ELSE None]
  /\ EndOfHandler(w)
  /\ UNCHANGED <<now, lastId, cookie, sent, client, presented>>

\* The handler has changed its session to s, and saves it or not.
Handle(w, s, saves) ==
  /\ pc[w] = "handle"
  /\ IF saves THEN Save(s) ELSE UNCHANGED store
  /\ session' = [session EXCEPT ![w] = IF pass[w] = "dynamic" THEN s ELSE None]
  /\ EndOfHandler(w)
  /\ UNCHANGED <<now, lastId, cookie, sent, client, presented>>

\* What a handler stores: its client's, and whether only the middleware can save
\* it, in a compiled pass that no other one follows.
Value(w, saves) == [by |-> client[w], silent |-> ~saves /\ pass[w] = "compiled"]

\* It stores something.
Put(w, saves) ==
  /\ Handle(w, [session[w] EXCEPT !.values = @ \cup {Value(w, saves)}], saves)
  /\ UNCHANGED setCookie

\* SetExpiry.
SetExpiry(w, saves) ==
  /\ Handle(w, [session[w] EXCEPT !.expires = now + Expiration, !.since = now], saves)
  /\ UNCHANGED setCookie

\* Destroy(c): the cookie that it removes is session_id of / unless the session
\* was made in this very pass.
Destroy(w, saves) ==
  /\ Handle(w, [session[w] EXCEPT !.values = {}, !.expires = Past], saves)
  /\ setCookie' = [setCookie EXCEPT ![w] =
                     IF session[w].named \/ StandardCookie THEN Expire ELSE None]

\* The response arrives.
Answer(w) ==
  LET set == setCookie[w]
  IN /\ pc[w] = "answer"
     /\ cookie' = [cookie EXCEPT ![client[w]] =
          IF set = None THEN @
          ELSE IF set = Expire THEN None
          ELSE [id |-> set, until |-> now + Expiration]]
     /\ Goto(w, "idle")
     /\ client' = [client EXCEPT ![w] = None]
     /\ pass' = [pass EXCEPT ![w] = None]
     /\ presented' = [presented EXCEPT ![w] = None]
     /\ session' = [session EXCEPT ![w] = None]
     /\ setCookie' = [setCookie EXCEPT ![w] = None]
     /\ UNCHANGED <<now, stored, sent>>

\* The server starts anew: the memory storage is empty, requests get no answer.
Restart ==
  /\ store' = [i \in Ids |-> None]
  /\ pc' = [w \in Workers |-> "idle"]
  /\ client' = [w \in Workers |-> None]
  /\ pass' = [w \in Workers |-> None]
  /\ presented' = [w \in Workers |-> None]
  /\ session' = [w \in Workers |-> None]
  /\ setCookie' = [w \in Workers |-> None]
  /\ UNCHANGED <<now, lastId, cookie, sent>>

\* The storage loses an entry (KVStore!Lose).
Lose(i) ==
  /\ store[i] # None
  /\ store' = [store EXCEPT ![i] = None]
  /\ UNCHANGED <<now, lastId, cookie, sent, pc, task, session, setCookie>>

-----------------------------------------------------------------------------
GetOrCreate(w) == Load(w) \/ LoadExpired(w) \/ Purge(w) \/ Create(w)

Handler(w) ==
  \E saves \in BOOLEAN : Put(w, saves) \/ SetExpiry(w, saves) \/ Destroy(w, saves)

Next ==
  \/ Tick \/ Restart
  \/ \E i \in Ids : Lose(i)
  \/ \E w \in Workers :
       \/ \E c \in Clients, p \in {"compiled", "first", "get"} : Send(w, c, p)
       \/ GetOrCreate(w) \/ MiddlewareSave(w) \/ Handler(w) \/ Answer(w)

Spec == Init /\ [][Next]_vars

-----------------------------------------------------------------------------
(* Properties.                                                             *)

\* Types of the variables; an ID has been generated for a request.
TypeOK ==
  /\ now \in 0..MaxTime
  /\ sent \in 0..MaxRequests /\ lastId \in 0..(sent + 1)
  /\ store \in [Ids -> Entry \cup {None}]
  /\ cookie \in [Clients -> Cookie \cup {None}]
  /\ pc \in [Workers -> {"idle", "load", "purge", "create", "save", "handle", "answer"}]
  /\ client \in [Workers -> Clients \cup {None}]
  /\ pass \in [Workers -> Passes \cup {None}]
  /\ presented \in [Workers -> Ids \cup {None}]
  /\ session \in [Workers -> SessionType \cup {None}]
  /\ setCookie \in [Workers -> Ids \cup {Expire, None}]

\* What a client finds in its session was stored by requests of its own.
Isolation ==
  \A w \in Workers : session[w] # None =>
    \A v \in session[w].values : v.by = client[w]

\* However saves race with expiry and with each other, a session is over when
\* Expiration has passed since it was made or SetExpiry called for it.
SessionEnds ==
  /\ \A i \in Ids : store[i] # None => store[i].until <= store[i].since + Expiration
  /\ \A w \in Workers : session[w] # None => session[w].expires <= session[w].since + Expiration

\* What a handler behind the middleware stores and does not save itself is lost:
\* in a compiled chain the middleware has saved before (session.go:657-661).
SilentIsLost == \A i \in Ids : store[i] # None => \A v \in store[i].values : ~v.silent

\* The client c presents a session that is gone and that nobody has in hand, and no
\* response is on its way to it that sets the cookie.
LockedOut(c) ==
  LET id == Presented(c)
  IN /\ id # None
     /\ store[id] = None
     /\ \A w \in Workers : session[w] = None \/ session[w].id # id
     /\ \A w \in Workers : client[w] = c => setCookie[w] = None /\ presented[w] = id

\* session.go:488: a new session in place of one that is gone is not told to the
\* client.  Until the cookie is over, or Destroy removes it, its sessions are all new.
StaysLockedOut ==
  [][\A c \in Clients : LockedOut(c) =>
       \/ LockedOut(c)'
       \/ now' > cookie[c].until
       \/ \E w \in Workers : client[w] = c /\ setCookie'[w] = Expire]_vars
=============================================================================
