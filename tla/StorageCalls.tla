---------------------------- MODULE StorageCalls ----------------------------
(***************************************************************************)
(* The calls of the Storage interface (storage.go) and their answers, the  *)
(* entries of a store, and the arithmetic of their expiry.  The contract   *)
(* (KVStore) and the store that implements it (MemoryStorage) share them.  *)
(***************************************************************************)
EXTENDS Naturals

CONSTANTS Callers,  \* the goroutines that use the store
          Keys,     \* the keys they use
          Values,   \* the values they store
          TTLs,     \* TTLs[k]: the ttl arguments used for k; 0 stands for ttl <= 0
          NoItem    \* no entry for the key

NeverExpires == 0
Item == [val: Values, exp: Nat]

ASSUME StorageAssumption ==
  /\ TTLs \in [Keys -> SUBSET Nat]
  /\ NoItem \notin Item

\* The entry a Set at time t stores, and whether an entry has expired at time t.
NewItem(v, ttl, t) ==
  [val |-> v, exp |-> IF ttl = 0 THEN NeverExpires ELSE t + ttl]
Expired(i, t) == i.exp # NeverExpires /\ t > i.exp

\* The keys no caller ever gives a time to live.
PermanentKeys == {k \in Keys : TTLs[k] = {0}}

NoCall == [op |-> "none"]
LookupRequests == [op: {"get", "has"}, key: Keys]
SetRequests == UNION {[op: {"set"}, key: {k}, val: Values, ttl: TTLs[k]] : k \in Keys}
DeleteRequests == [op: {"delete"}, key: Keys]
ClearRequests == [op: {"clear"}]
CloseRequests == [op: {"close"}]
UpdateRequests == (SetRequests \cup DeleteRequests) \cup ClearRequests
Requests == (LookupRequests \cup UpdateRequests) \cup CloseRequests

NoAnswer == [is |-> "none"]
\* Two errors of the same text: the one storage.go exports and promises for Get,
\* and the one of that name in package memory.
NotFoundErrors == {"ngebut.ErrNotFound", "memory.ErrNotFound"}
NotFound(err) == [is |-> "error", err |-> err]

\* Has: (false, nil) and (true, nil).
Absent == [is |-> "absent"]
Found == [is |-> "found"]
Done == [is |-> "done"]
Value(v) == [is |-> "value", val |-> v]
Answers == ({NoAnswer, Absent, Found, Done} \cup {Value(v) : v \in Values})
             \cup {NotFound(err) : err \in NotFoundErrors}
=============================================================================
