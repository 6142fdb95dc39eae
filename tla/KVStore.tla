------------------------------ MODULE KVStore ------------------------------
(***************************************************************************)
(* What a ngebut.Storage promises its callers, with every operation taking *)
(* effect at one instant between the call and its return: a map from keys  *)
(* to values, an entry of which expires only if it was set with a positive *)
(* ttl.  There is no mutex here, no cleaner, and no entry that is expired  *)
(* but still stored.                                                       *)
(*                                                                         *)
(* Lossy = FALSE and Missing = ngebut.ErrNotFound is the contract of the   *)
(* Storage interface.  Lossy = TRUE is a cache: an entry that may expire   *)
(* can also vanish early.  The memory storage is such a cache, and Missing *)
(* is an error of its own there.  The interface has no Close: Shut is the  *)
(* call that memory.Storage adds to it, and leaves what is stored alone.   *)
(***************************************************************************)
EXTENDS StorageCalls

CONSTANTS Lossy,    \* may an entry of a key with a ttl vanish before it expires?
          Missing   \* the error of NotFoundErrors that a Get gives when it finds nothing

VARIABLES store,    \* store[k]: the live entry of k, or NoItem
          clock,
          request,  \* request[c]: the call c is making, [op |-> "none"] for none
          answer    \* answer[c]: what the call has come to, [is |-> "none"] before that

vars == <<store, clock, request, answer>>

Init ==
  /\ store = [k \in Keys |-> NoItem]
  /\ clock = 1
  /\ request = [c \in Callers |-> NoCall]
  /\ answer = [c \in Callers |-> NoAnswer]

Invoke(c) ==
  /\ request[c] = NoCall
  /\ \E r \in Requests : request' = [request EXCEPT ![c] = r]
  /\ UNCHANGED <<store, clock, answer>>

Pending(c, ops) == request[c].op \in ops /\ answer[c] = NoAnswer

\* Get and Has look the key up.
Lookup(c) ==
  /\ Pending(c, {"get", "has"})
  /\ LET i == store[request[c].key]
     IN answer' = [answer EXCEPT ![c] =
                     IF request[c].op = "has" THEN IF i = NoItem THEN Absent ELSE Found
                     ELSE IF i = NoItem THEN NotFound(Missing) ELSE Value(i.val)]
  /\ UNCHANGED <<store, clock, request>>

Update(c) ==
  /\ Pending(c, {"set", "delete", "clear"})
  /\ LET r == request[c]
     IN \/ /\ r.op = "set"
           /\ store' = [store EXCEPT ![r.key] = NewItem(r.val, r.ttl, clock)]
        \/ /\ r.op = "delete"
           /\ store' = [store EXCEPT ![r.key] = NoItem]
        \/ /\ r.op = "clear"
           /\ store' = [k \in Keys |-> NoItem]
  /\ answer' = [answer EXCEPT ![c] = Done]
  /\ UNCHANGED <<clock, request>>

Shut(c) ==
  /\ Pending(c, {"close"})
  /\ answer' = [answer EXCEPT ![c] = Done]
  /\ UNCHANGED <<store, clock, request>>

Respond(c) ==
  /\ answer[c] # NoAnswer
  /\ request' = [request EXCEPT ![c] = NoCall]
  /\ answer' = [answer EXCEPT ![c] = NoAnswer]
  /\ UNCHANGED <<store, clock>>

\* Time passes, and what has expired is gone.
Tick ==
  /\ clock' = clock + 1
  /\ store' = [k \in Keys |->
                 IF store[k] # NoItem /\ Expired(store[k], clock')
                 THEN NoItem ELSE store[k]]
  /\ UNCHANGED <<request, answer>>

\* Only of a cache: an entry of a key that is ever set to expire is lost.
Lose(k) ==
  /\ Lossy
  /\ store[k] # NoItem
  /\ TTLs[k] # {0}
  /\ store' = [store EXCEPT ![k] = NoItem]
  /\ UNCHANGED <<clock, request, answer>>

Next ==
  \/ \E c \in Callers :
       Invoke(c) \/ Lookup(c) \/ Update(c) \/ Shut(c) \/ Respond(c)
  \/ \E k \in Keys : Lose(k)
  \/ Tick

Spec == Init /\ [][Next]_vars
=============================================================================
