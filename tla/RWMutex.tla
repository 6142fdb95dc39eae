------------------------------ MODULE RWMutex ------------------------------
(***************************************************************************)
(* sync.RWMutex of the Go library as the stores and caches of this program *)
(* use it: many readers or one writer, and no re-entrance.  The mutex is a *)
(* value, so a module keeps one variable per mutex of the program.         *)
(*                                                                         *)
(* Lock takes two steps, as in Go.  LockRequest takes the inner mutex that *)
(* only one writer has at a time and from then on keeps new readers out;   *)
(* the writer is in once the readers that were there have left, when       *)
(* LockGranted holds.  Without that a stream of readers could keep every   *)
(* writer waiting for ever.                                                *)
(***************************************************************************)

\* Nobody holds the mutex.
FreeMutex == [readers |-> {}, owner |-> {}]

\* Every state a mutex used by the goroutines G can be in, reachable or not.
Mutexes(G) == [readers: SUBSET G, owner: SUBSET G]

\* RLock() does not wait; Lock() gets past the inner mutex.
CanRLock(m) == m.owner = {}
CanRequest(m) == m.owner = {}

\* The writer g, having requested the lock, has it.
LockGranted(m, g) == m.owner = {g} /\ m.readers = {}

\* The mutex after g's RLock, RUnlock, the request of its Lock, its Unlock.
RLock(m, g) == [m EXCEPT !.readers = @ \cup {g}]
RUnlock(m, g) == [m EXCEPT !.readers = @ \ {g}]
LockRequest(m, g) == [m EXCEPT !.owner = @ \cup {g}]
Unlock(m, g) == [m EXCEPT !.owner = @ \ {g}]
=============================================================================
