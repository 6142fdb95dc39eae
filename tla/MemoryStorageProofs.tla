------------------------ MODULE MemoryStorageProofs ------------------------
(***************************************************************************)
(* What holds of MemoryStorage for any goroutines, keys, values and ttls.  *)
(***************************************************************************)
EXTENDS MemoryStorage, TLAPS

-----------------------------------------------------------------------------
(* The requests.                                                           *)

LEMMA LookupShape ==
  ASSUME NEW r \in LookupRequests
  PROVE  r.op \in {"get", "has"} /\ r.key \in Keys /\ r # NoCall
BY DEF LookupRequests, NoCall

LEMMA UpdateShape ==
  ASSUME NEW r \in UpdateRequests
  PROVE  /\ r.op \in {"set", "delete", "clear"}
         /\ r.op \in {"set", "delete"} => r.key \in Keys
         /\ r.op = "set" => r.val \in Values /\ r.ttl \in TTLs[r.key]
         /\ r # NoCall
<1>1. CASE r \in SetRequests
  <2>1. PICK k \in Keys : r \in [op: {"set"}, key: {k}, val: Values, ttl: TTLs[k]]
    BY <1>1 DEF SetRequests
  <2>2. QED
    BY <2>1 DEF NoCall
<1>2. CASE r \in DeleteRequests
  BY <1>2 DEF DeleteRequests, NoCall
<1>3. CASE r \in ClearRequests
  BY <1>3 DEF ClearRequests, NoCall
<1>4. QED
  BY <1>1, <1>2, <1>3 DEF UpdateRequests

LEMMA CloseShape ==
  ASSUME NEW r \in CloseRequests
  PROVE  r.op = "close" /\ r # NoCall
BY DEF CloseRequests, NoCall

LEMMA NewItemType ==
  ASSUME NEW v \in Values, NEW ttl \in Nat, NEW t \in Nat
  PROVE  /\ NewItem(v, ttl, t) \in Item
         /\ NewItem(v, ttl, t) # NoItem
         /\ ~Expired(NewItem(v, ttl, t), t)
BY StorageAssumption DEF NewItem, Item, Expired, NeverExpires

-----------------------------------------------------------------------------
(* Types, and the call each goroutine is making.                           *)

LEMMA EntryByCall ==
  ASSUME NEW r \in Requests
  PROVE  \/ r \in LookupRequests /\ Entry(r) = "rlock"
         \/ r \in UpdateRequests /\ Entry(r) = "lock"
         \/ r \in CloseRequests /\ Entry(r) = "send"
<1>1. CASE r \in LookupRequests
  BY <1>1, LookupShape DEF Entry
<1>2. CASE r \in UpdateRequests
  BY <1>2, UpdateShape DEF Entry
<1>3. CASE r \in CloseRequests
  BY <1>3, CloseShape DEF Entry
<1>4. QED
  BY <1>1, <1>2, <1>3 DEF Requests

LEMMA CallInit == Init => TypeOK /\ CallMatches
BY DEF Init, TypeOK, CallMatches, Mutexes, FreeMutex, Goroutines, PcLabels, Answers,
       LookupPcs, UpdatePcs, ClosePcs

\* The steps that change pc, call or ret, and leave the store alone.
LEMMA BeginCall ==
  ASSUME TypeOK, CallMatches, NEW c \in Callers, Begin(c)
  PROVE  TypeOK' /\ CallMatches'
<1>1. PICK r \in Requests : /\ call' = [call EXCEPT ![c] = r]
                            /\ pc' = [pc EXCEPT ![c] = Entry(r)]
  BY DEF Begin
<1>2. UNCHANGED <<items, now, mu, ret, cleaner>>
  BY DEF Begin
<1>3. TypeOK'
  BY <1>1, <1>2, EntryByCall DEF TypeOK, PcLabels, LookupPcs, UpdatePcs, ClosePcs
<1>4. CallMatches'
  BY <1>1, <1>2, EntryByCall DEF TypeOK, CallMatches, LookupPcs, UpdatePcs, ClosePcs
<1>5. QED
  BY <1>3, <1>4

LEMMA LookupCall ==
  ASSUME TypeOK, CallMatches, NEW c \in Callers, GetStep(c)
  PROVE  TypeOK' /\ CallMatches'
<1> USE DEF TypeOK, CallMatches, PcLabels, LookupPcs, UpdatePcs, ClosePcs, Mutexes, Goroutines
<1>1. CASE GetRLock(c)
  BY <1>1 DEF GetRLock, RLock
<1>2. CASE ReadMiss(c)
  BY <1>2 DEF ReadMiss, Answers, Miss, NotFound, ErrNotFound, NotFoundErrors
<1>3. CASE ReadHit(c)
  <2>1. items[call[c].key] \in Item
    BY <1>3, LookupShape DEF ReadHit
  <2>2. \E a \in Answers : ret' = [ret EXCEPT ![c] = a]
    BY <1>3, <2>1 DEF ReadHit, Answers, Item, Value
  <2>3. QED
    BY <1>3, <2>2 DEF ReadHit
<1>4. CASE ReadExpired(c)
  BY <1>4 DEF ReadExpired, ExpiredAtRead, RUnlock, Answers, Miss,
         NotFound, ErrNotFound, NotFoundErrors
<1>5. CASE PurgeLock(c)
  BY <1>5 DEF PurgeLock, LockRequest
<1>6. CASE PurgeGranted(c)
  BY <1>6 DEF PurgeGranted
<1>7. CASE Purge(c)
  BY <1>7, LookupShape DEF Purge, Unlock
<1>8. CASE RelockRead(c)
  BY <1>8 DEF RelockRead, RLock
<1>9. CASE GetRUnlock(c)
  BY <1>9 DEF GetRUnlock, Returned, RUnlock, Answers
<1>10. QED
  BY <1>1, <1>2, <1>3, <1>4, <1>5, <1>6, <1>7, <1>8, <1>9 DEF GetStep

LEMMA UpdateCall ==
  ASSUME TypeOK, CallMatches, NEW c \in Callers, UpdateStep(c)
  PROVE  TypeOK' /\ CallMatches'
<1> USE DEF TypeOK, CallMatches, PcLabels, LookupPcs, UpdatePcs, ClosePcs, Mutexes, Goroutines
<1>1. CASE UpdateLock(c)
  BY <1>1 DEF UpdateLock, LockRequest
<1>2. CASE UpdateGranted(c)
  BY <1>2 DEF UpdateGranted
<1>3. CASE Update(c)
  <2>1. call[c] \in UpdateRequests
    BY <1>3 DEF Update
  <2>2. items' \in [Keys -> Item \cup {NoItem}]
    <3>1. CASE SetItem(c)
      <4>1. call[c].key \in Keys /\ call[c].val \in Values /\ call[c].ttl \in Nat
        BY <2>1, <3>1, UpdateShape, StorageAssumption DEF SetItem
      <4>2. QED
        BY <3>1, <4>1, NewItemType DEF SetItem
    <3>2. CASE DeleteItem(c)
      BY <3>2 DEF DeleteItem
    <3>3. CASE ClearItems(c)
      BY <3>3 DEF ClearItems
    <3>4. QED
      BY <1>3, <3>1, <3>2, <3>3 DEF Update
  <2>3. QED
    BY <1>3, <2>2 DEF Update, Answers, Done
<1>4. CASE UpdateUnlock(c)
  BY <1>4 DEF UpdateUnlock, Returned, Unlock, Answers
<1>5. QED
  BY <1>1, <1>2, <1>3, <1>4 DEF UpdateStep

LEMMA CloseCall ==
  ASSUME TypeOK, CallMatches, NEW c \in Callers, CloseStep(c)
  PROVE  TypeOK' /\ CallMatches'
<1> USE DEF TypeOK, CallMatches, PcLabels, LookupPcs, UpdatePcs, ClosePcs, Answers
<1>1. CASE CloseNoTicker(c)
  BY <1>1 DEF CloseNoTicker
<1>2. CASE CloseStop(c)
  BY <1>2 DEF CloseStop
<1>3. CASE CloseReturn(c)
  BY <1>3 DEF CloseReturn, Returned
<1>4. QED
  BY <1>1, <1>2, <1>3 DEF CloseStep

\* The cleanup goroutine and the clock.
LEMMA CleanCall ==
  ASSUME TypeOK, CallMatches, CleanStep \/ Tick
  PROVE  TypeOK' /\ CallMatches'
<1> USE DEF TypeOK, CallMatches, Mutexes, Goroutines
<1>1. CASE CleanWake
  BY <1>1 DEF CleanWake
<1>2. CASE CleanLock
  BY <1>2 DEF CleanLock, LockRequest
<1>3. CASE CleanGranted
  BY <1>3 DEF CleanGranted
<1>4. CASE CleanSweep
  BY <1>4 DEF CleanSweep, Sweep, Unlock
<1>5. CASE Tick
  BY <1>5 DEF Tick
<1>6. QED
  BY <1>1, <1>2, <1>3, <1>4, <1>5 DEF CleanStep

LEMMA CallNext == (TypeOK /\ CallMatches) /\ [Next]_vars => (TypeOK /\ CallMatches)'
<1> SUFFICES ASSUME TypeOK, CallMatches, [Next]_vars
             PROVE  TypeOK' /\ CallMatches'
  OBVIOUS
<1>1. ASSUME NEW c \in Callers, Begin(c) \/ CallStep(c)
      PROVE  TypeOK' /\ CallMatches'
  BY <1>1, BeginCall, LookupCall, UpdateCall, CloseCall DEF CallStep
<1>2. CASE UNCHANGED vars
  BY <1>2 DEF vars, TypeOK, CallMatches
<1>3. QED
  BY <1>1, <1>2, CleanCall DEF Next

\* Every variable keeps its type, and every goroutine is where its call takes it.
THEOREM TypeCorrect == Spec => []TypeOK
<1>1. Spec => [](TypeOK /\ CallMatches)
  BY CallInit, CallNext, PTL DEF Spec
<1>2. QED
  BY <1>1, PTL

-----------------------------------------------------------------------------
(* The mutex.                                                              *)

Locking == LockDiscipline /\ OneOwner

LEMMA LockingInit == Init => Locking
BY DEF Init, Locking, LockDiscipline, OneOwner, FreeMutex, MapWriters

\* The steps by which a call asks for, gets and gives back the mutex.
LEMMA LockingCall ==
  ASSUME TypeOK, Locking, NEW c \in Callers, Begin(c) \/ CallStep(c)
  PROVE  Locking'
<1> USE MemoryAssumption DEF TypeOK, Locking, LockDiscipline, OneOwner, MapWriters, Mutexes, Goroutines
<1>1. CASE Begin(c)
  <2>1. PICK r \in Requests : pc' = [pc EXCEPT ![c] = Entry(r)]
    BY <1>1 DEF Begin
  <2>2. Entry(r) \in {"rlock", "lock", "send"}
    BY EntryByCall
  <2>3. QED
    BY <1>1, <2>1, <2>2 DEF Begin
<1>2. CASE GetRLock(c)
  BY <1>2 DEF GetRLock, RLock, CanRLock
<1>3. CASE ReadMiss(c) \/ ReadHit(c)
  BY <1>3 DEF ReadMiss, ReadHit
<1>4. CASE ReadExpired(c)
  BY <1>4 DEF ReadExpired, ExpiredAtRead, RUnlock
<1>5. CASE PurgeLock(c)
  BY <1>5 DEF PurgeLock, LockRequest, CanRequest
<1>6. CASE PurgeGranted(c)
  BY <1>6 DEF PurgeGranted, LockGranted
<1>7. CASE Purge(c)
  BY <1>7 DEF Purge, Unlock
<1>8. CASE RelockRead(c)
  BY <1>8 DEF RelockRead, RLock, CanRLock
<1>9. CASE GetRUnlock(c)
  BY <1>9 DEF GetRUnlock, Returned, RUnlock
<1>10. CASE UpdateLock(c)
  BY <1>10 DEF UpdateLock, LockRequest, CanRequest
<1>11. CASE UpdateGranted(c)
  BY <1>11 DEF UpdateGranted, LockGranted
<1>12. CASE Update(c)
  BY <1>12 DEF Update
<1>13. CASE UpdateUnlock(c)
  BY <1>13 DEF UpdateUnlock, Returned, Unlock
<1>14. CASE CloseStep(c)
  BY <1>14 DEF CloseStep, CloseNoTicker, CloseStop, CloseReturn, Returned
<1>15. QED
  BY <1>1, <1>2, <1>3, <1>4, <1>5, <1>6, <1>7, <1>8, <1>9, <1>10, <1>11, <1>12,
     <1>13, <1>14 DEF CallStep, GetStep, UpdateStep

LEMMA LockingClean ==
  ASSUME TypeOK, Locking, CleanStep \/ Tick
  PROVE  Locking'
<1> USE MemoryAssumption DEF TypeOK, Locking, LockDiscipline, OneOwner, MapWriters, Mutexes, Goroutines
<1>1. CASE CleanWake \/ Tick
  BY <1>1 DEF CleanWake, Tick
<1>2. CASE CleanLock
  BY <1>2 DEF CleanLock, LockRequest, CanRequest
<1>3. CASE CleanGranted
  BY <1>3 DEF CleanGranted, LockGranted
<1>4. CASE CleanSweep
  BY <1>4 DEF CleanSweep, Sweep, Unlock
<1>5. QED
  BY <1>1, <1>2, <1>3, <1>4 DEF CleanStep

LEMMA LockingNext == TypeOK /\ Locking /\ [Next]_vars => Locking'
<1>1. ASSUME TypeOK, Locking, UNCHANGED vars
      PROVE  Locking'
  BY <1>1 DEF vars, Locking, LockDiscipline, OneOwner, MapWriters
<1>2. QED
  BY <1>1, LockingCall, LockingClean DEF Next

\* Every unlock is of a lock the goroutine holds, whatever the callers do.
THEOREM LocksBalance == Spec => []LockDiscipline
<1>1. Locking => LockDiscipline
  BY DEF Locking
<1>2. QED
  BY <1>1, TypeCorrect, LockingInit, LockingNext, PTL DEF Spec

LEMMA LockingExcludes == Locking => NoMapRace
<1> SUFFICES ASSUME Locking, NEW w \in MapWriters
             PROVE  MapWriters = {w} /\ MapReaders = {}
  BY DEF NoMapRace
<1>1. MapWriters \subseteq mu.owner
  BY DEF Locking, LockDiscipline, MapWriters
<1>2. MapWriters = {w}
  BY <1>1 DEF Locking, OneOwner
<1>3. MapReaders \subseteq mu.readers
  BY DEF Locking, LockDiscipline, MapReaders
<1>4. QED
  BY <1>2, <1>3 DEF Locking, OneOwner

\* The map is never written while another goroutine is reading or writing it.
THEOREM MapRaceFree == Spec => []NoMapRace
BY TypeCorrect, LockingInit, LockingNext, LockingExcludes, PTL DEF Spec

-----------------------------------------------------------------------------
(* Expiry, and the entries that stay.                                      *)

\* A call knows its answer from the step on at which it has its effect.
LEMMA AnswerNext == TypeOK /\ CallMatches /\ AnswerMatches /\ [Next]_vars => AnswerMatches'
<1> SUFFICES ASSUME TypeOK, CallMatches, AnswerMatches, [Next]_vars
             PROVE  AnswerMatches'
  OBVIOUS
<1> USE DEF TypeOK, AnswerMatches
<1>1. ASSUME NEW c \in Callers, Begin(c)
      PROVE  AnswerMatches'
  <2>1. PICK r \in Requests : pc' = [pc EXCEPT ![c] = Entry(r)]
    BY <1>1 DEF Begin
  <2>2. Entry(r) \in {"rlock", "lock", "send"}
    BY EntryByCall
  <2>3. QED
    BY <1>1, <2>1, <2>2 DEF Begin
<1>2. ASSUME NEW c \in Callers, GetStep(c)
      PROVE  AnswerMatches'
  <2>1. CASE GetRLock(c) \/ PurgeLock(c) \/ PurgeGranted(c) \/ Purge(c) \/ RelockRead(c)
    BY <2>1 DEF GetRLock, PurgeLock, PurgeGranted, Purge, RelockRead
  <2>2. CASE ReadMiss(c) \/ ReadHit(c) \/ ReadExpired(c)
    BY <2>2 DEF ReadMiss, ReadHit, ReadExpired, ExpiredAtRead, NoAnswer, Miss, NotFound, Absent, Found,
         Value
  <2>3. CASE GetRUnlock(c)
    BY <2>3 DEF GetRUnlock, Returned
  <2>4. QED
    BY <1>2, <2>1, <2>2, <2>3 DEF GetStep
<1>3. ASSUME NEW c \in Callers, UpdateStep(c) \/ CloseStep(c)
      PROVE  AnswerMatches'
  <2>1. CASE UpdateStep(c)
    BY <2>1 DEF UpdateStep, UpdateLock, UpdateGranted, Update, UpdateUnlock, Returned,
                NoAnswer, Done
  <2>2. CASE CloseStep(c)
    BY <2>2 DEF CloseStep, CloseNoTicker, CloseStop, CloseReturn, Returned, NoAnswer, Done
  <2>3. QED
    BY <1>3, <2>1, <2>2
<1>4. CASE CleanStep \/ Tick \/ UNCHANGED vars
  BY <1>4 DEF CleanStep, CleanWake, CleanLock, CleanGranted, CleanSweep, Sweep, Tick, vars
<1>5. QED
  BY <1>1, <1>2, <1>3, <1>4 DEF Next, CallStep

\* Only keys that are sometimes given a ttl hold entries that can expire.
LEMMA ExpiryNext == TypeOK /\ CallMatches /\ ExpiryFromTTL /\ [Next]_vars => ExpiryFromTTL'
<1> SUFFICES ASSUME TypeOK, CallMatches, ExpiryFromTTL, [Next]_vars
             PROVE  ExpiryFromTTL'
  OBVIOUS
<1> USE DEF TypeOK, ExpiryFromTTL
<1>1. ASSUME NEW c \in Callers, Begin(c)
      PROVE  ExpiryFromTTL'
  <2>1. PICK r \in Requests : /\ pc' = [pc EXCEPT ![c] = Entry(r)]
                              /\ call' = [call EXCEPT ![c] = r]
    BY <1>1 DEF Begin
  <2>2. Entry(r) \in {"rlock", "lock", "send"}
    BY EntryByCall
  <2>3. QED
    BY <1>1, <2>1, <2>2 DEF Begin
<1>2. ASSUME NEW c \in Callers, GetStep(c)
      PROVE  ExpiryFromTTL'
  <2>1. CASE ReadExpired(c)
    <3>1. call[c].key \in Keys
      BY <2>1, LookupShape DEF ReadExpired, ExpiredAtRead, CallMatches, LookupPcs
    <3>2. call[c].key \notin PermanentKeys
      BY <2>1, <3>1 DEF ReadExpired, ExpiredAtRead, Expired
    <3>3. QED
      BY <2>1, <3>2 DEF ReadExpired, ExpiredAtRead
  <2>2. CASE Purge(c)
    BY <2>2 DEF Purge
  <2>3. CASE GetRLock(c) \/ ReadMiss(c) \/ ReadHit(c) \/ PurgeLock(c) \/ PurgeGranted(c)
             \/ RelockRead(c)
    BY <2>3 DEF GetRLock, ReadMiss, ReadHit, PurgeLock, PurgeGranted, RelockRead
  <2>4. CASE GetRUnlock(c)
    BY <2>4 DEF GetRUnlock, Returned
  <2>5. QED
    BY <1>2, <2>1, <2>2, <2>3, <2>4 DEF GetStep
<1>3. ASSUME NEW c \in Callers, UpdateStep(c)
      PROVE  ExpiryFromTTL'
  <2>1. CASE Update(c) /\ SetItem(c)
    <3>1. /\ call[c].key \in Keys
          /\ call[c].ttl \in TTLs[call[c].key]
      BY <2>1, UpdateShape DEF Update, SetItem, CallMatches, UpdatePcs
    <3>2. call[c].key \in PermanentKeys =>
            NewItem(call[c].val, call[c].ttl, now).exp = NeverExpires
      BY <3>1 DEF PermanentKeys, NewItem
    <3>3. QED
      BY <2>1, <3>1, <3>2 DEF Update, SetItem, PermanentKeys
  <2>2. CASE Update(c) /\ (DeleteItem(c) \/ ClearItems(c))
    BY <2>2 DEF Update, DeleteItem, ClearItems, PermanentKeys
  <2>3. CASE UpdateLock(c) \/ UpdateGranted(c) \/ UpdateUnlock(c)
    BY <2>3 DEF UpdateLock, UpdateGranted, UpdateUnlock, Returned
  <2>4. QED
    BY <1>3, <2>1, <2>2, <2>3 DEF UpdateStep, Update
<1>4. ASSUME NEW c \in Callers, CloseStep(c)
      PROVE  ExpiryFromTTL'
  BY <1>4 DEF CloseStep, CloseNoTicker, CloseStop, CloseReturn, Returned
<1>5. CASE CleanStep
  BY <1>5 DEF CleanStep, CleanWake, CleanLock, CleanGranted, CleanSweep, Sweep, PermanentKeys
<1>6. CASE Tick \/ UNCHANGED vars
  BY <1>6 DEF Tick, vars
<1>7. QED
  BY <1>1, <1>2, <1>3, <1>4, <1>5, <1>6 DEF Next, CallStep

LEMMA InductiveInvariant == Spec => []IInv
<1>1. Init => AnswerMatches /\ ExpiryFromTTL
  BY DEF Init, AnswerMatches, ExpiryFromTTL, PermanentKeys
<1>2. ((TypeOK /\ CallMatches) /\ (AnswerMatches /\ LockDiscipline))
          /\ (OneOwner /\ ExpiryFromTTL) /\ [Next]_vars
      => (((TypeOK /\ CallMatches) /\ (AnswerMatches /\ LockDiscipline))
            /\ (OneOwner /\ ExpiryFromTTL))'
  BY CallNext, AnswerNext, ExpiryNext, LockingNext DEF Locking
<1>3. QED
  BY <1>1, <1>2, CallInit, LockingInit, PTL DEF Spec, IInv, Locking

\* The keys whose entry a step of the cleanup or of a purge removes are not permanent.
LEMMA PermanentStep ==
  ASSUME IInv, [Next]_vars, NEW k \in PermanentKeys, items[k] # NoItem, items'[k] = NoItem
  PROVE  \E c \in Callers : Removes(c, k)
<1> USE DEF IInv, TypeOK
<1>1. k \in Keys /\ ~Expired(items[k], now)
  BY DEF PermanentKeys, ExpiryFromTTL, Expired
<1>2. ASSUME NEW c \in Callers, Update(c)
      PROVE  Removes(c, k)
  <2>1. CASE SetItem(c)
    <3>1. call[c].key \in Keys /\ call[c].val \in Values /\ call[c].ttl \in Nat
      BY <1>2, <2>1, UpdateShape, StorageAssumption DEF Update, SetItem, CallMatches, UpdatePcs
    <3>2. items'[k] # NoItem
      BY <1>1, <2>1, <3>1, NewItemType DEF SetItem
    <3>3. QED
      BY <3>2
  <2>2. CASE DeleteItem(c) \/ ClearItems(c)
    BY <1>1, <1>2, <2>2 DEF Update, DeleteItem, ClearItems, Removes
  <2>3. QED
    BY <1>2, <2>1, <2>2 DEF Update
<1>3. ASSUME NEW c \in Callers, Purge(c)
      PROVE  FALSE
  BY <1>1, <1>3 DEF Purge, ExpiryFromTTL
<1>4. CASE CleanSweep
  BY <1>1, <1>4 DEF CleanSweep, Sweep
<1>5. ASSUME UNCHANGED items
      PROVE  FALSE
  BY <1>5
<1>6. ASSUME NEW c \in Callers, Begin(c) \/ GetStep(c) \/ UpdateStep(c) \/ CloseStep(c)
      PROVE  Purge(c) \/ Update(c) \/ UNCHANGED items
  BY <1>6 DEF Begin, GetStep, GetRLock, ReadMiss, ReadHit, ReadExpired, PurgeLock, PurgeGranted,
       RelockRead, GetRUnlock, UpdateStep, UpdateLock, UpdateGranted, UpdateUnlock,
       CloseStep, CloseNoTicker, CloseStop, CloseReturn
<1>7. CleanStep \/ Tick => CleanSweep \/ UNCHANGED items
  BY DEF CleanStep, CleanWake, CleanLock, CleanGranted, Tick
<1>8. QED
  BY <1>2, <1>3, <1>4, <1>5, <1>6, <1>7 DEF Next, CallStep, vars

\* The entry of a key that is never given a ttl goes only by a Delete or a Clear.
THEOREM PermanentKeysStay == Spec => PermanentKeysKept
<1>1. IInv /\ [Next]_vars =>
        [\A k \in PermanentKeys :
           items[k] # NoItem /\ items'[k] = NoItem => \E c \in Callers : Removes(c, k)]_vars
  BY PermanentStep
<1>2. QED
  BY <1>1, InductiveInvariant, PTL DEF Spec, PermanentKeysKept

-----------------------------------------------------------------------------
(* The store implements the lossy contract.                                *)

LEMMA CacheInit == Init => Cache!Init
BY DEF Init, Cache!Init, LiveItems, Cache!NoCall, NoCall, Cache!NoAnswer, NoAnswer

\* A step that leaves the visible store, the calls and the answers alone.
LEMMA CacheStutter ==
  ASSUME UNCHANGED <<items, now, call, ret>>
  PROVE  [Cache!Next]_Cache!vars
BY DEF Cache!vars, LiveItems

LEMMA CacheBegin ==
  ASSUME IInv, NEW c \in Callers, Begin(c)
  PROVE  Cache!Invoke(c)
<1>1. PICK r \in Requests : call' = [call EXCEPT ![c] = r]
  BY DEF Begin
<1>2. r \in Cache!Requests
  BY DEF Requests, LookupRequests, UpdateRequests, SetRequests, DeleteRequests,
         ClearRequests, CloseRequests, Cache!Requests, Cache!LookupRequests,
         Cache!UpdateRequests, Cache!SetRequests, Cache!DeleteRequests,
         Cache!ClearRequests, Cache!CloseRequests
<1>3. call[c] = Cache!NoCall
  BY DEF Begin, IInv, CallMatches, NoCall, Cache!NoCall
<1>4. LiveItems' = LiveItems
  BY DEF Begin, LiveItems
<1>5. QED
  BY <1>1, <1>2, <1>3, <1>4 DEF Begin, Cache!Invoke

LEMMA CacheLookup ==
  ASSUME IInv, NEW c \in Callers, ReadMiss(c) \/ ReadHit(c) \/ ReadExpired(c)
  PROVE  Cache!Lookup(c)
<1> USE DEF ReadMiss, ReadHit, ReadExpired, ExpiredAtRead
<1>1. call[c] \in LookupRequests
  BY DEF IInv, CallMatches, LookupPcs
<1>2. call[c].op \in {"get", "has"} /\ call[c].key \in Keys
  BY <1>1, LookupShape
<1>3. Cache!Pending(c, {"get", "has"})
  BY <1>2 DEF IInv, AnswerMatches, Cache!Pending, Cache!NoAnswer, NoAnswer
<1>4. LiveItems[call[c].key] =
        IF items[call[c].key] # NoItem /\ Expired(items[call[c].key], now)
        THEN NoItem ELSE items[call[c].key]
  BY <1>2 DEF LiveItems
<1>5. ret' = [ret EXCEPT ![c] =
                IF call[c].op = "has"
                THEN IF LiveItems[call[c].key] = NoItem THEN Absent ELSE Found
                ELSE IF LiveItems[call[c].key] = NoItem THEN NotFound(ErrNotFound)
                     ELSE Value(LiveItems[call[c].key].val)]
  <2>1. CASE items[call[c].key] = NoItem
    BY <1>4, <2>1 DEF Miss
  <2>2. CASE items[call[c].key] # NoItem /\ Expired(items[call[c].key], now)
    BY <1>4, <2>2 DEF Miss
  <2>3. CASE items[call[c].key] # NoItem /\ ~Expired(items[call[c].key], now)
    BY <1>4, <2>3
  <2>4. QED
    BY <2>1, <2>2, <2>3
<1>6. UNCHANGED <<LiveItems, now, call>>
  BY DEF LiveItems
<1>7. QED
  BY <1>3, <1>5, <1>6 DEF Cache!Lookup, Cache!NotFound, NotFound, Cache!Absent, Absent,
       Cache!Found, Found,
       Cache!Value, Value

LEMMA CacheUpdate ==
  ASSUME IInv, NEW c \in Callers, Update(c)
  PROVE  Cache!Update(c)
<1> USE DEF Update
<1>1. call[c] \in UpdateRequests
  BY DEF IInv, CallMatches, UpdatePcs
<1>2. call[c].op \in {"set", "delete", "clear"}
  BY <1>1, UpdateShape
<1>3. Cache!Pending(c, {"set", "delete", "clear"})
  BY <1>2 DEF IInv, AnswerMatches, Cache!Pending, Cache!NoAnswer, NoAnswer
<1>4. CASE SetItem(c)
  <2>1. call[c].key \in Keys /\ call[c].val \in Values /\ call[c].ttl \in Nat
    BY <1>1, <1>4, UpdateShape, StorageAssumption DEF SetItem
  <2>2. items' = [items EXCEPT ![call[c].key] = NewItem(call[c].val, call[c].ttl, now)]
    BY <1>4 DEF SetItem
  <2>3. ~Expired(NewItem(call[c].val, call[c].ttl, now), now)
    BY <2>1, NewItemType DEF IInv, TypeOK
  <2>4. LiveItems' =
          [LiveItems EXCEPT ![call[c].key] = NewItem(call[c].val, call[c].ttl, now)]
    BY <2>1, <2>2, <2>3 DEF LiveItems, IInv, TypeOK
  <2>5. QED
    BY <1>3, <1>4, <2>4, Zenon DEF SetItem, Cache!Update, Cache!NewItem, NewItem, Cache!Done,
      Done, Cache!NeverExpires, NeverExpires
<1>5. CASE DeleteItem(c)
  <2>1. LiveItems' = [LiveItems EXCEPT ![call[c].key] = NoItem]
    BY <1>5 DEF DeleteItem, LiveItems, IInv, TypeOK
  <2>2. QED
    BY <1>3, <1>5, <2>1 DEF DeleteItem, Cache!Update, Cache!Done, Done
<1>6. CASE ClearItems(c)
  <2>1. LiveItems' = [k \in Keys |-> NoItem]
    BY <1>6 DEF ClearItems, LiveItems
  <2>2. QED
    BY <1>3, <1>6, <2>1 DEF ClearItems, Cache!Update, Cache!Done, Done
<1>7. QED
  BY <1>4, <1>5, <1>6

LEMMA CacheClose ==
  ASSUME IInv, NEW c \in Callers, CloseNoTicker(c) \/ CloseStop(c)
  PROVE  Cache!Shut(c)
<1>1. call[c] \in CloseRequests /\ ret[c] = NoAnswer
  BY DEF IInv, CallMatches, AnswerMatches, ClosePcs, CloseNoTicker, CloseStop
<1>2. Cache!Pending(c, {"close"})
  BY <1>1, CloseShape DEF Cache!Pending, Cache!NoAnswer, NoAnswer
<1>3. UNCHANGED <<LiveItems, now, call>> /\ ret' = [ret EXCEPT ![c] = Done]
  BY DEF CloseNoTicker, CloseStop, LiveItems
<1>4. QED
  BY <1>2, <1>3 DEF Cache!Shut, Cache!Done, Done

LEMMA CacheReturn ==
  ASSUME IInv, NEW c \in Callers, GetRUnlock(c) \/ UpdateUnlock(c) \/ CloseReturn(c)
  PROVE  Cache!Respond(c)
<1>1. ret[c] # NoAnswer
  BY DEF IInv, AnswerMatches, GetRUnlock, UpdateUnlock, CloseReturn
<1>2. Returned(c) /\ UNCHANGED <<items, now>>
  BY DEF GetRUnlock, UpdateUnlock, CloseReturn
<1>3. QED
  BY <1>1, <1>2 DEF Returned, LiveItems, Cache!Respond, Cache!NoCall, NoCall,
       Cache!NoAnswer, NoAnswer

\* Purging what the key holds by now: it is expired, or the key may lose it.
LEMMA CachePurge ==
  ASSUME IInv, NEW c \in Callers, Purge(c)
  PROVE  [Cache!Next]_Cache!vars
<1> DEFINE k == call[c].key
<1>1. k \in Keys /\ TTLs[k] # {0}
  <2>1. call[c] \in LookupRequests
    BY DEF IInv, CallMatches, LookupPcs, Purge
  <2>2. k \notin PermanentKeys
    BY DEF IInv, ExpiryFromTTL, Purge
  <2>3. QED
    BY <2>1, <2>2, LookupShape DEF PermanentKeys
<1>2. LiveItems' = [LiveItems EXCEPT ![k] = NoItem] /\ UNCHANGED <<now, call, ret>>
  BY DEF Purge, LiveItems, IInv, TypeOK
<1>3. CASE LiveItems[k] = NoItem
  BY <1>2, <1>3 DEF Cache!vars, LiveItems
<1>4. CASE LiveItems[k] # NoItem
  <2>1. Cache!Lose(k)
    BY <1>1, <1>2, <1>4 DEF Cache!Lose
  <2>2. QED
    BY <1>1, <2>1 DEF Cache!Next
<1>5. QED
  BY <1>3, <1>4

LEMMA CacheTick ==
  ASSUME IInv, Tick
  PROVE  Cache!Tick
<1>1. now' = now + 1 /\ UNCHANGED <<items, call, ret>>
  BY DEF Tick
<1>2. \A k \in Keys : items[k] # NoItem => items[k] \in Item
  BY DEF IInv, TypeOK
<1>3. \A k \in Keys : items[k] # NoItem /\ Expired(items[k], now) => Expired(items[k], now + 1)
  BY <1>2 DEF IInv, TypeOK, Expired, Item
<1>4. LiveItems' = [k \in Keys |->
                      IF LiveItems[k] # NoItem /\ Expired(LiveItems[k], now')
                      THEN NoItem ELSE LiveItems[k]]
  BY <1>1, <1>3 DEF LiveItems
<1>5. QED
  BY <1>1, <1>4 DEF Cache!Tick, Cache!Expired, Expired, Cache!NeverExpires, NeverExpires

LEMMA CacheSweep ==
  ASSUME CleanSweep
  PROVE  [Cache!Next]_Cache!vars
BY DEF CleanSweep, Sweep, Present, Cache!vars, LiveItems

LEMMA CacheStep == IInv /\ [Next]_vars => [Cache!Next]_Cache!vars
<1> SUFFICES ASSUME IInv, [Next]_vars
             PROVE  [Cache!Next]_Cache!vars
  OBVIOUS
<1>1. ASSUME NEW c \in Callers, Begin(c)
      PROVE  Cache!Next
  BY <1>1, CacheBegin DEF Cache!Next
<1>2. ASSUME NEW c \in Callers, GetStep(c)
      PROVE  [Cache!Next]_Cache!vars
  <2>1. CASE ReadMiss(c) \/ ReadHit(c) \/ ReadExpired(c)
    BY <2>1, CacheLookup DEF Cache!Next
  <2>2. CASE Purge(c)
    BY <2>2, CachePurge
  <2>3. CASE GetRUnlock(c)
    BY <2>3, CacheReturn DEF Cache!Next
  <2>4. CASE GetRLock(c) \/ PurgeLock(c) \/ PurgeGranted(c) \/ RelockRead(c)
    BY <2>4, CacheStutter DEF GetRLock, PurgeLock, PurgeGranted, RelockRead
  <2>5. QED
    BY <1>2, <2>1, <2>2, <2>3, <2>4 DEF GetStep
<1>3. ASSUME NEW c \in Callers, UpdateStep(c)
      PROVE  [Cache!Next]_Cache!vars
  <2>1. CASE Update(c)
    BY <2>1, CacheUpdate DEF Cache!Next
  <2>2. CASE UpdateUnlock(c)
    BY <2>2, CacheReturn DEF Cache!Next
  <2>3. CASE UpdateLock(c) \/ UpdateGranted(c)
    BY <2>3, CacheStutter DEF UpdateLock, UpdateGranted
  <2>4. QED
    BY <1>3, <2>1, <2>2, <2>3 DEF UpdateStep
<1>4. ASSUME NEW c \in Callers, CloseStep(c)
      PROVE  [Cache!Next]_Cache!vars
  BY <1>4, CacheClose, CacheReturn DEF CloseStep, Cache!Next
<1>5. CASE CleanStep
  BY <1>5, CacheSweep, CacheStutter DEF CleanStep, CleanWake, CleanLock, CleanGranted
<1>6. CASE Tick
  BY <1>6, CacheTick DEF Cache!Next
<1>7. CASE UNCHANGED vars
  BY <1>7, CacheStutter DEF vars
<1>8. QED
  BY <1>1, <1>2, <1>3, <1>4, <1>5, <1>6, <1>7 DEF Next, CallStep

\* Every call has its effect at one instant between its start and its return.
THEOREM StoreImplementsCache == Spec => ImplementsCache
BY CacheInit, CacheStep, InductiveInvariant, PTL DEF Spec, ImplementsCache, Cache!Spec

-----------------------------------------------------------------------------
(* Close.                                                                  *)

\* A Close that finds the cleanup goroutine gone waits for ever.
THEOREM LateCloseWaits == Spec => LateCloseHangs
<1> DEFINE Waits == \A c \in Callers : pc[c] = "send" /\ cleaner = "stopped" => pc'[c] = "send"
<1>1. IInv /\ [Next]_vars => [Waits]_vars
  <2> SUFFICES ASSUME IInv, [Next]_vars, NEW c \in Callers, pc[c] = "send", cleaner = "stopped"
               PROVE  pc'[c] = "send"
    OBVIOUS
  <2> USE DEF IInv, TypeOK
  <2>1. ASSUME NEW d \in Callers, Begin(d)
        PROVE  pc'[c] = "send"
    BY <2>1 DEF Begin
  <2>2. ASSUME NEW d \in Callers, GetStep(d)
        PROVE  pc'[c] = "send"
    BY <2>2 DEF GetStep, GetRLock, ReadMiss, ReadHit, ReadExpired, ExpiredAtRead, PurgeLock,
         PurgeGranted, Purge, RelockRead, GetRUnlock, Returned
  <2>3. ASSUME NEW d \in Callers, UpdateStep(d) \/ CloseStep(d)
        PROVE  pc'[c] = "send"
    BY <2>3 DEF UpdateStep, UpdateLock, UpdateGranted, Update, UpdateUnlock, Returned,
         CloseStep, CloseNoTicker, CloseStop, CloseReturn
  <2>4. CASE CleanStep \/ Tick \/ UNCHANGED vars
    BY <2>4 DEF CleanStep, CleanWake, CleanLock, CleanGranted, CleanSweep, Sweep, Tick, vars
  <2>5. QED
    BY <2>1, <2>2, <2>3, <2>4 DEF Next, CallStep
<1>2. QED
  BY <1>1, InductiveInvariant, PTL DEF Spec, LateCloseHangs
=============================================================================
