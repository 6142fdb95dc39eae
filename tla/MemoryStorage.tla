--------------------------- MODULE MemoryStorage ---------------------------
(***************************************************************************)
(* memory.Storage of internal/memory/memory.go: a map behind one           *)
(* sync.RWMutex, used by any number of goroutines, with a goroutine of its *)
(* own that removes expired entries each time a ticker fires.              *)
(*                                                                         *)
(* A step is what a goroutine does between two points where another may    *)
(* run: waiting for the mutex is a step of its own, as is what it does     *)
(* while it holds the mutex and as is the deferred unlock.                 *)
(***************************************************************************)
EXTENDS StorageCalls, RWMutex, FiniteSets

CONSTANTS Cleaner,     \* the cleanup goroutine
          MaxTime      \* bound: the clock stops there

ASSUME MemoryAssumption ==
  /\ Cleaner \notin Callers
  /\ MaxTime \in Nat

VARIABLES items,    \* Storage.items: items[k] is an entry, or NoItem
          now,      \* time.Now()
          mu,       \* Storage.mu
          pc,       \* pc[c]: where the goroutine c is
          call,     \* call[c]: the call it is making
          ret,      \* ret[c]: what the call is going to return
          cleaner   \* where the cleanup goroutine is, "off" if there is none

vars == <<items, now, mu, pc, call, ret, cleaner>>

Goroutines == Callers \cup {Cleaner}

-----------------------------------------------------------------------------
(* New, and the calls a client makes.                                      *)

Init ==
  /\ items = [k \in Keys |-> NoItem]
  /\ now = 1
  /\ mu = FreeMutex
  /\ pc = [c \in Callers |-> "idle"]
  /\ call = [c \in Callers |-> NoCall]
  /\ ret = [c \in Callers |-> NoAnswer]
  /\ cleaner \in {"off", "select"}   \* by the sign of New's cleanupInterval

\* Where a call first waits.
Entry(r) == CASE r.op \in {"get", "has"} -> "rlock"
              [] r.op \in {"set", "delete", "clear"} -> "lock"
              [] r.op = "close" -> "send"

Begin(c) ==
  /\ pc[c] = "idle"
  /\ \E r \in Requests :
       /\ call' = [call EXCEPT ![c] = r]
       /\ pc' = [pc EXCEPT ![c] = Entry(r)]
  /\ UNCHANGED <<items, now, mu, ret, cleaner>>

\* c is back with its caller.
Returned(c) ==
  /\ pc' = [pc EXCEPT ![c] = "idle"]
  /\ call' = [call EXCEPT ![c] = NoCall]
  /\ ret' = [ret EXCEPT ![c] = NoAnswer]

-----------------------------------------------------------------------------
(* Get and Has: look up under the read lock; to remove an expired entry,   *)
(* let the read lock go, delete under the write lock, and take the read    *)
(* lock back for the deferred RUnlock.                                     *)

GetRLock(c) ==
  /\ pc[c] = "rlock"
  /\ CanRLock(mu)
  /\ mu' = RLock(mu, c)
  /\ pc' = [pc EXCEPT ![c] = "read"]
  /\ UNCHANGED <<items, now, call, ret, cleaner>>

\* What a lookup answers when there is no live entry: Get an error of package
\* memory, Has that there is none.
ErrNotFound == "memory.ErrNotFound"
Miss(op) == IF op = "has" THEN Absent ELSE NotFound(ErrNotFound)

ReadMiss(c) ==
  /\ pc[c] = "read"
  /\ items[call[c].key] = NoItem
  /\ ret' = [ret EXCEPT ![c] = Miss(call[c].op)]
  /\ pc' = [pc EXCEPT ![c] = "runlock"]
  /\ UNCHANGED <<items, now, mu, call, cleaner>>

\* Mutant of ReadHit: the expiry is not looked at.
ReadHitStale(c) ==
  /\ pc[c] = "read"
  /\ items[call[c].key] # NoItem
  /\ ret' = [ret EXCEPT ![c] =
               IF call[c].op = "has" THEN Found ELSE Value(items[call[c].key].val)]
  /\ pc' = [pc EXCEPT ![c] = "runlock"]
  /\ UNCHANGED <<items, now, mu, call, cleaner>>

ReadHit(c) ==
  /\ pc[c] = "read"
  /\ LET i == items[call[c].key]
     IN /\ i # NoItem
        /\ ~Expired(i, now)
        /\ ret' = [ret EXCEPT ![c] =
                     IF call[c].op = "has" THEN Found ELSE Value(i.val)]
  /\ pc' = [pc EXCEPT ![c] = "runlock"]
  /\ UNCHANGED <<items, now, mu, call, cleaner>>

ExpiredAtRead(c) ==
  /\ pc[c] = "read"
  /\ items[call[c].key] # NoItem
  /\ Expired(items[call[c].key], now)
  /\ ret' = [ret EXCEPT ![c] = Miss(call[c].op)]

\* Mutant of ReadExpired: the entry is deleted under the read lock.
PurgeUnderRLock(c) ==
  /\ ExpiredAtRead(c)
  /\ pc' = [pc EXCEPT ![c] = "purge"]
  /\ UNCHANGED <<items, now, mu, call, cleaner>>

\* Mutant of ReadExpired: the write lock is asked for with the read lock held.
UpgradeInPlace(c) ==
  /\ ExpiredAtRead(c)
  /\ pc' = [pc EXCEPT ![c] = "upgrade"]
  /\ UNCHANGED <<items, now, mu, call, cleaner>>

ReadExpired(c) ==
  /\ ExpiredAtRead(c)
  /\ mu' = RUnlock(mu, c)
  /\ pc' = [pc EXCEPT ![c] = "upgrade"]
  /\ UNCHANGED <<items, now, call, cleaner>>

PurgeLock(c) ==
  /\ pc[c] = "upgrade"
  /\ CanRequest(mu)
  /\ mu' = LockRequest(mu, c)
  /\ pc' = [pc EXCEPT ![c] = "purgewait"]
  /\ UNCHANGED <<items, now, call, ret, cleaner>>

PurgeGranted(c) ==
  /\ pc[c] = "purgewait"
  /\ LockGranted(mu, c)
  /\ pc' = [pc EXCEPT ![c] = "purge"]
  /\ UNCHANGED <<items, now, mu, call, ret, cleaner>>

\* The entry is not looked at again: whatever the key holds by now goes.
Purge(c) ==
  /\ pc[c] = "purge"
  /\ items' = [items EXCEPT ![call[c].key] = NoItem]
  /\ mu' = Unlock(mu, c)
  /\ pc' = [pc EXCEPT ![c] = "relock"]
  /\ UNCHANGED <<now, call, ret, cleaner>>

\* Mutant of RelockRead: the read lock is not taken back for the deferred RUnlock.
RelockSkipped(c) ==
  /\ pc[c] = "relock"
  /\ pc' = [pc EXCEPT ![c] = "runlock"]
  /\ UNCHANGED <<items, now, mu, call, ret, cleaner>>

RelockRead(c) ==
  /\ pc[c] = "relock"
  /\ CanRLock(mu)
  /\ mu' = RLock(mu, c)
  /\ pc' = [pc EXCEPT ![c] = "runlock"]
  /\ UNCHANGED <<items, now, call, ret, cleaner>>

GetRUnlock(c) ==
  /\ pc[c] = "runlock"
  /\ mu' = RUnlock(mu, c)
  /\ Returned(c)
  /\ UNCHANGED <<items, now, cleaner>>

-----------------------------------------------------------------------------
(* Set, Delete and Clear: one critical section under the write lock.       *)

UpdateLock(c) ==
  /\ pc[c] = "lock"
  /\ CanRequest(mu)
  /\ mu' = LockRequest(mu, c)
  /\ pc' = [pc EXCEPT ![c] = "lockwait"]
  /\ UNCHANGED <<items, now, call, ret, cleaner>>

UpdateGranted(c) ==
  /\ pc[c] = "lockwait"
  /\ LockGranted(mu, c)
  /\ pc' = [pc EXCEPT ![c] = "write"]
  /\ UNCHANGED <<items, now, mu, call, ret, cleaner>>

SetItem(c) ==
  /\ call[c].op = "set"
  /\ items' = [items EXCEPT ![call[c].key] =
                 NewItem(call[c].val, call[c].ttl, now)]

DeleteItem(c) ==
  /\ call[c].op = "delete"
  /\ items' = [items EXCEPT ![call[c].key] = NoItem]

ClearItems(c) ==
  /\ call[c].op = "clear"
  /\ items' = [k \in Keys |-> NoItem]

Update(c) ==
  /\ pc[c] = "write"
  /\ SetItem(c) \/ DeleteItem(c) \/ ClearItems(c)
  /\ ret' = [ret EXCEPT ![c] = Done]
  /\ pc' = [pc EXCEPT ![c] = "unlock"]
  /\ UNCHANGED <<now, mu, call, cleaner>>

UpdateUnlock(c) ==
  /\ pc[c] = "unlock"
  /\ mu' = Unlock(mu, c)
  /\ Returned(c)
  /\ UNCHANGED <<items, now, cleaner>>

-----------------------------------------------------------------------------
(* Close: nothing without a ticker; with one, it hands stopCleanup, which  *)
(* has no buffer, to the cleanup goroutine waiting in its select.          *)

CloseNoTicker(c) ==
  /\ pc[c] = "send"
  /\ cleaner = "off"
  /\ ret' = [ret EXCEPT ![c] = Done]
  /\ pc' = [pc EXCEPT ![c] = "return"]
  /\ UNCHANGED <<items, now, mu, call, cleaner>>

CloseStop(c) ==
  /\ pc[c] = "send"
  /\ cleaner = "select"
  /\ cleaner' = "stopped"
  /\ ret' = [ret EXCEPT ![c] = Done]
  /\ pc' = [pc EXCEPT ![c] = "return"]
  /\ UNCHANGED <<items, now, mu, call>>

CloseReturn(c) ==
  /\ pc[c] = "return"
  /\ Returned(c)
  /\ UNCHANGED <<items, now, mu, cleaner>>

-----------------------------------------------------------------------------
(* Time, the ticker and the cleanup goroutine.                             *)

Tick ==
  /\ now < MaxTime
  /\ now' = now + 1
  /\ UNCHANGED <<items, mu, pc, call, ret, cleaner>>

\* A tick of cleanupTicker: they keep coming until the ticker is stopped.
CleanWake ==
  /\ cleaner = "select"
  /\ cleaner' = "lock"
  /\ UNCHANGED <<items, now, mu, pc, call, ret>>

CleanLock ==
  /\ cleaner = "lock"
  /\ CanRequest(mu)
  /\ mu' = LockRequest(mu, Cleaner)
  /\ cleaner' = "lockwait"
  /\ UNCHANGED <<items, now, pc, call, ret>>

CleanGranted ==
  /\ cleaner = "lockwait"
  /\ LockGranted(mu, Cleaner)
  /\ cleaner' = "sweep"
  /\ UNCHANGED <<items, now, mu, pc, call, ret>>

\* cleanup()'s loop over the map, which removes the entries of the keys old.
Sweep(old) ==
  /\ cleaner = "sweep"
  /\ items' = [k \in Keys |-> IF k \in old THEN NoItem ELSE items[k]]
  /\ mu' = Unlock(mu, Cleaner)
  /\ cleaner' = "select"
  /\ UNCHANGED <<now, pc, call, ret>>

Present == {k \in Keys : items[k] # NoItem}

\* Mutant of CleanSweep: a zero expireAt is taken for a time long past.
SweepPermanent == Sweep({k \in Present : now > items[k].exp})

\* Mutant of CleanSweep: the test for a zero expireAt is inverted.
SweepNothing == Sweep({k \in Present : items[k].exp = NeverExpires /\ now < items[k].exp})

CleanSweep == Sweep({k \in Present : Expired(items[k], now)})

-----------------------------------------------------------------------------
GetStep(c) ==
  \/ GetRLock(c) \/ ReadMiss(c) \/ ReadHit(c) \/ ReadExpired(c)
  \/ PurgeLock(c) \/ PurgeGranted(c) \/ Purge(c) \/ RelockRead(c)
  \/ GetRUnlock(c)

UpdateStep(c) ==
  UpdateLock(c) \/ UpdateGranted(c) \/ Update(c) \/ UpdateUnlock(c)

CloseStep(c) == CloseNoTicker(c) \/ CloseStop(c) \/ CloseReturn(c)

CallStep(c) == GetStep(c) \/ UpdateStep(c) \/ CloseStep(c)

CleanStep == CleanWake \/ CleanLock \/ CleanGranted \/ CleanSweep

Next ==
  \/ \E c \in Callers : Begin(c) \/ CallStep(c)
  \/ Tick \/ CleanStep

Spec == Init /\ [][Next]_vars

(***************************************************************************)
(* The runtime schedules every goroutine, a Go mutex hands itself to every *)
(* waiter in the end, a select takes a case that is ready again and again, *)
(* and the ticker keeps firing.  Nobody is obliged to make a call.         *)
(***************************************************************************)
Acquire(c) == GetRLock(c) \/ PurgeLock(c) \/ RelockRead(c) \/ UpdateLock(c)

Fairness ==
  /\ \A c \in Callers :
       WF_vars(CallStep(c)) /\ SF_vars(Acquire(c)) /\ SF_vars(CloseStop(c))
  /\ WF_vars(CleanStep)
  /\ SF_vars(CleanWake \/ CleanLock)

FairSpec == Spec /\ Fairness

-----------------------------------------------------------------------------
(* Properties.                                                             *)

LookupPcs == {"rlock", "read", "upgrade", "purgewait", "purge", "relock", "runlock"}
UpdatePcs == {"lock", "lockwait", "write", "unlock"}
ClosePcs == {"send", "return"}
PcLabels == ({"idle"} \cup LookupPcs) \cup (UpdatePcs \cup ClosePcs)

\* Types of the variables.
TypeOK ==
  /\ items \in [Keys -> Item \cup {NoItem}]
  /\ now \in Nat
  /\ mu \in Mutexes(Goroutines)
  /\ pc \in [Callers -> PcLabels]
  /\ call \in [Callers -> Requests \cup {NoCall}]
  /\ ret \in [Callers -> Answers]
  /\ cleaner \in {"off", "select", "lock", "lockwait", "sweep", "stopped"}

\* The goroutines that are about to read, or to write, the map Storage.items.
MapReaders == {c \in Callers : pc[c] = "read"}
MapWriters == {c \in Callers : pc[c] \in {"purge", "write"}}
                \cup {g \in {Cleaner} : cleaner = "sweep"}

\* A goroutine that writes the map is alone with it: no other one is between
\* its lock and its unlock at a read or a write of the map.  (Go stops the
\* program on "concurrent map read and map write".)
NoMapRace == \A w \in MapWriters : MapWriters = {w} /\ MapReaders = {}

\* A goroutine holds the lock it is going to release, and a call that waits,
\* sends or returns holds nothing: the unlock, relock and deferred RUnlock of
\* Get and Has balance.  (Go stops the program on RUnlock of an unlocked mutex.)
LockDiscipline ==
  /\ mu.readers = {c \in Callers : pc[c] \in {"read", "runlock"}}
  /\ mu.owner =
       {c \in Callers : pc[c] \in {"purgewait", "purge", "lockwait", "write", "unlock"}}
         \cup {g \in {Cleaner} : cleaner \in {"lockwait", "sweep"}}

\* The store as a caller can see it: an expired entry is as good as none.
LiveItems == [k \in Keys |-> IF items[k] # NoItem /\ Expired(items[k], now)
                             THEN NoItem ELSE items[k]]

Cache == INSTANCE KVStore
           WITH store <- LiveItems, clock <- now, request <- call,
                answer <- ret, Lossy <- TRUE, Missing <- ErrNotFound

\* Every call of the store has its effect at one instant between its start and
\* its return, and an expired value is never returned.  That is the contract of
\* Storage but for two things: an entry of a key that is sometimes given a ttl
\* may vanish before its time, and a Get that finds nothing returns the error of
\* package memory, not ngebut.ErrNotFound, which memory.go:77 and storage.go:12 promise.
ImplementsCache == Cache!Spec

\* The step of c that performs its Delete of k or its Clear.
Removes(c, k) ==
  /\ pc[c] = "write" /\ pc'[c] = "unlock"
  /\ call[c].op = "clear" \/ (call[c].op = "delete" /\ call[c].key = k)

\* The entry of a key that nobody ever gives a ttl stays until a Delete or a
\* Clear removes it: no cleanup and no concurrent Get or Has of any key takes it.
PermanentKeysKept ==
  [][\A k \in PermanentKeys :
       items[k] # NoItem /\ items'[k] = NoItem => \E c \in Callers : Removes(c, k)]_vars

\* Every call returns, except a Close that finds the cleanup goroutine gone.
CallsReturn ==
  \A c \in Callers :
    pc[c] # "idle" ~> (pc[c] = "idle" \/ (pc[c] = "send" /\ cleaner = "stopped"))

\* A Close that finds the cleanup goroutine gone never returns: nobody is left
\* to receive from stopCleanup (memory.go says of Close "It always returns nil").
LateCloseHangs ==
  [][\A c \in Callers : pc[c] = "send" /\ cleaner = "stopped" => pc'[c] = "send"]_vars

\* While the cleanup goroutine runs, no expired entry stays in memory for ever.
ExpiredSwept ==
  \A k \in Keys :
    (items[k] # NoItem /\ Expired(items[k], now))
      ~> (LiveItems[k] = items[k] \/ cleaner \in {"off", "stopped"})

-----------------------------------------------------------------------------
(* The inductive invariant behind TypeOK, LockDiscipline, NoMapRace,       *)
(* PermanentKeysKept and ImplementsCache.                                  *)

\* A goroutine is where its call takes it.
CallMatches ==
  \A c \in Callers :
    /\ pc[c] = "idle" => call[c] = NoCall
    /\ pc[c] \in LookupPcs => call[c] \in LookupRequests
    /\ pc[c] \in UpdatePcs => call[c] \in UpdateRequests
    /\ pc[c] \in ClosePcs => call[c] \in CloseRequests

\* A call knows its answer from the step on at which it has its effect.
AnswerMatches ==
  \A c \in Callers :
    ret[c] = NoAnswer <=>
      pc[c] \in {"idle", "rlock", "read", "lock", "lockwait", "write", "send"}

\* One goroutine at most owns the mutex, and no reader is left once it is in.
OneOwner ==
  /\ \A g, h \in mu.owner : g = h
  /\ MapWriters # {} => mu.readers = {}

\* Only the keys that are sometimes given a ttl hold entries that expire, and
\* only such a key is ever purged.
ExpiryFromTTL ==
  /\ \A k \in PermanentKeys : items[k] # NoItem => items[k].exp = NeverExpires
  /\ \A c \in Callers :
       pc[c] \in {"upgrade", "purgewait", "purge"} => call[c].key \notin PermanentKeys

IInv == ((TypeOK /\ CallMatches) /\ (AnswerMatches /\ LockDiscipline))
          /\ (OneOwner /\ ExpiryFromTTL)
=============================================================================
