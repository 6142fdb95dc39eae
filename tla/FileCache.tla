----------------------------- MODULE FileCache -----------------------------
(***************************************************************************)
(* filecache.Cache of internal/filecache/filecache.go: the contents of     *)
(* static files, up to MaxSize bytes and MaxItems files, behind one        *)
(* sync.RWMutex.  The file last accessed longest ago makes room for a new  *)
(* one.  Contents, content type and modification time ride along with the  *)
(* entry and decide nothing here; StaticFiles gives them a meaning.        *)
(*                                                                         *)
(* currentSize is counted up and down beside the map.  The bytes really in *)
(* the cache are the elements of Bytes: numbered bytes of the files.       *)
(***************************************************************************)
EXTENDS Integers, FiniteSets, RWMutex

CONSTANTS Callers,     \* goroutines that serve requests
          FilePaths,   \* paths of files
          Sizes,       \* sizes that the files have
          MaxSize,     \* maxSize
          MaxItems,    \* maxItems
          NoFile,      \* what files has for a path that is not in the map
          MaxTime      \* bound: the clock stops there

\* CachedFile: Size and LastAccessed.
Entry == [size: Nat, last: Nat]

ASSUME FileCacheAssumption ==
  /\ IsFiniteSet(FilePaths)
  /\ Sizes \subseteq Nat
  /\ MaxSize \in Nat
  /\ MaxItems \in Nat
  /\ NoFile \notin Entry
  /\ MaxTime \in Nat

VARIABLES files,         \* Cache.files: files[p] is an entry, or NoFile
          currentSize,   \* Cache.currentSize
          lost,          \* history: sizes of replaced entries, never counted down
          now,           \* time.Now()
          mutex,         \* Cache.mutex
          at,            \* at[c]: where the goroutine c is
          call,          \* call[c]: the call it is making
          stamp          \* stamp[c]: the time.Now() that its Get has taken

cacheVars == <<files, currentSize, lost, now, mutex, at, call, stamp>>

NoCall == [op |-> "none"]
Gets == [op: {"get"}, path: FilePaths]
Sets == [op: {"set"}, path: FilePaths, size: Sizes]
Removes == [op: {"remove"}, path: FilePaths]
Clears == [op: {"clear"}]
Updates == (Sets \cup Removes) \cup Clears
Calls == Gets \cup Updates

NewCache ==
  /\ files = [p \in FilePaths |-> NoFile]
  /\ currentSize = 0
  /\ lost = 0
  /\ now = 1
  /\ mutex = FreeMutex
  /\ at = [c \in Callers |-> "idle"]
  /\ call = [c \in Callers |-> NoCall]
  /\ stamp = [c \in Callers |-> 0]

Cached == {p \in FilePaths : files[p] # NoFile}

SizeOf(e) == IF e = NoFile THEN 0 ELSE e.size

Move(c, label) == at' = [at EXCEPT ![c] = label]

Begin(c) ==
  /\ at[c] = "idle"
  /\ \E r \in Calls :
       /\ call' = [call EXCEPT ![c] = r]
       /\ Move(c, IF r.op = "get" THEN "rlock" ELSE "lock")
  /\ UNCHANGED <<files, currentSize, lost, now, mutex, stamp>>

Return(c) ==
  /\ Move(c, "idle")
  /\ call' = [call EXCEPT ![c] = NoCall]
  /\ stamp' = [stamp EXCEPT ![c] = 0]

-----------------------------------------------------------------------------
(* Get: two goroutines may be in it at once, and the time one of them has  *)
(* taken may be stored after a later one.                                  *)

GetRLock(c) ==
  /\ at[c] = "rlock"
  /\ CanRLock(mutex)
  /\ mutex' = RLock(mutex, c)
  /\ Move(c, "lookup")
  /\ UNCHANGED <<files, currentSize, lost, now, call, stamp>>

GetMiss(c) ==
  /\ at[c] = "lookup"
  /\ call[c].path \notin Cached
  /\ Move(c, "runlock")
  /\ UNCHANGED <<files, currentSize, lost, now, mutex, call, stamp>>

GetHit(c) ==
  /\ at[c] = "lookup"
  /\ call[c].path \in Cached
  /\ stamp' = [stamp EXCEPT ![c] = now]
  /\ Move(c, "touch")
  /\ UNCHANGED <<files, currentSize, lost, now, mutex, call>>

Touch(c) ==
  /\ at[c] = "touch"
  /\ files' = [files EXCEPT ![call[c].path].last = stamp[c]]
  /\ Move(c, "runlock")
  /\ UNCHANGED <<currentSize, lost, now, mutex, call, stamp>>

GetRUnlock(c) ==
  /\ at[c] = "runlock"
  /\ mutex' = RUnlock(mutex, c)
  /\ Return(c)
  /\ UNCHANGED <<files, currentSize, lost, now>>

-----------------------------------------------------------------------------
(* Set, Remove and Clear, under the write lock.                            *)

LockCache(c) ==
  /\ at[c] = "lock"
  /\ CanRequest(mutex)
  /\ mutex' = LockRequest(mutex, c)
  /\ Move(c, "lockwait")
  /\ UNCHANGED <<files, currentSize, lost, now, call, stamp>>

LockHeld(c) ==
  /\ at[c] = "lockwait"
  /\ LockGranted(mutex, c)
  /\ Move(c, "write")
  /\ UNCHANGED <<files, currentSize, lost, now, mutex, call, stamp>>

SetTooLarge(c) ==
  /\ at[c] = "write"
  /\ call[c].op = "set"
  /\ call[c].size > MaxSize
  /\ Move(c, "unlock")
  /\ UNCHANGED <<files, currentSize, lost, now, mutex, call, stamp>>

SetAdmit(c) ==
  /\ at[c] = "write"
  /\ call[c].op = "set"
  /\ call[c].size <= MaxSize
  /\ Move(c, "evict")
  /\ UNCHANGED <<files, currentSize, lost, now, mutex, call, stamp>>

\* Mutant of NoRoom: the number of files is not looked at.
NoRoomForBytes(needed) == currentSize + needed > MaxSize

\* A file of the size needed does not fit: the test of Set and of evict's loop.
NoRoom(needed) ==
  currentSize + needed > MaxSize \/ Cardinality(Cached) >= MaxItems

\* The files accessed longest ago; the order of the map decides between them.
Oldest == {p \in Cached : \A q \in Cached : files[p].last <= files[q].last}

EvictOldest(c) ==
  /\ at[c] = "evict"
  /\ NoRoom(call[c].size)
  /\ \E p \in Oldest :
       /\ files' = [files EXCEPT ![p] = NoFile]
       /\ currentSize' = currentSize - SizeOf(files[p])
  /\ UNCHANGED <<lost, now, mutex, at, call, stamp>>

PutFile(c) ==
  LET p == call[c].path
  IN /\ files' = [files EXCEPT ![p] = [size |-> call[c].size, last |-> now]]
     /\ currentSize' = currentSize + call[c].size
     /\ lost' = lost + SizeOf(files[p])
     /\ Move(c, "unlock")
     /\ UNCHANGED <<now, mutex, call, stamp>>

\* Mutant of Insert: evict has no break for an empty cache.
InsertWhenRoom(c) ==
  /\ at[c] = "evict"
  /\ ~NoRoom(call[c].size)
  /\ PutFile(c)

\* There is room, or nothing left to evict.  An entry that was there under the
\* same path is replaced, and its size stays in currentSize.
Insert(c) ==
  /\ at[c] = "evict"
  /\ NoRoom(call[c].size) => Cached = {}
  /\ PutFile(c)

\* Mutant of RemoveFile: the size of the file removed is not counted down.
RemoveUncounted(c) ==
  /\ at[c] = "write"
  /\ call[c].op = "remove"
  /\ files' = [files EXCEPT ![call[c].path] = NoFile]
  /\ Move(c, "unlock")
  /\ UNCHANGED <<currentSize, lost, now, mutex, call, stamp>>

RemoveFile(c) ==
  /\ at[c] = "write"
  /\ call[c].op = "remove"
  /\ LET p == call[c].path
     IN /\ files' = [files EXCEPT ![p] = NoFile]
        /\ currentSize' = currentSize - SizeOf(files[p])
  /\ Move(c, "unlock")
  /\ UNCHANGED <<lost, now, mutex, call, stamp>>

ClearFiles(c) ==
  /\ at[c] = "write"
  /\ call[c].op = "clear"
  /\ files' = [p \in FilePaths |-> NoFile]
  /\ currentSize' = 0
  /\ lost' = 0
  /\ Move(c, "unlock")
  /\ UNCHANGED <<now, mutex, call, stamp>>

UnlockCache(c) ==
  /\ at[c] = "unlock"
  /\ mutex' = Unlock(mutex, c)
  /\ Return(c)
  /\ UNCHANGED <<files, currentSize, lost, now>>

Tick ==
  /\ now < MaxTime
  /\ now' = now + 1
  /\ UNCHANGED <<files, currentSize, lost, mutex, at, call, stamp>>

-----------------------------------------------------------------------------
GetStep(c) ==
  \/ GetRLock(c) \/ GetMiss(c) \/ GetHit(c) \/ Touch(c) \/ GetRUnlock(c)

SetStep(c) == SetTooLarge(c) \/ SetAdmit(c) \/ EvictOldest(c) \/ Insert(c)

UpdateStep(c) ==
  \/ LockCache(c) \/ LockHeld(c)
  \/ SetStep(c) \/ RemoveFile(c) \/ ClearFiles(c)
  \/ UnlockCache(c)

CacheNext == Tick \/ \E c \in Callers : Begin(c) \/ GetStep(c) \/ UpdateStep(c)

CacheSpec == NewCache /\ [][CacheNext]_cacheVars

\* The runtime schedules every goroutine, and a mutex reaches every waiter.
Fairness ==
  \A c \in Callers :
    /\ WF_cacheVars(GetStep(c) \/ UpdateStep(c))
    /\ SF_cacheVars(GetRLock(c) \/ LockCache(c))

FairCacheSpec == CacheSpec /\ Fairness

-----------------------------------------------------------------------------
(* Properties.                                                             *)

\* The bytes in the cache, one element for each.
BytesOf(p, e) == {p} \X (1..SizeOf(e))
BytesIn(f) == UNION {BytesOf(p, f[p]) : p \in FilePaths}
Bytes == BytesIn(files)

GetPcs == {"rlock", "lookup", "touch", "runlock"}
UpdatePcs == {"lock", "lockwait", "write", "evict", "unlock"}

\* Types of the variables.
CacheTypeOK ==
  /\ files \in [FilePaths -> Entry \cup {NoFile}]
  /\ currentSize \in Nat
  /\ lost \in Nat
  /\ now \in Nat
  /\ mutex \in Mutexes(Callers)
  /\ at \in [Callers -> {"idle"} \cup (GetPcs \cup UpdatePcs)]
  /\ call \in [Callers -> Calls \cup {NoCall}]
  /\ stamp \in [Callers -> Nat]

\* currentSize is the bytes in the cache plus the sizes of the entries that a
\* Set has replaced since the last Clear: Remove and evict count right, Set does
\* not, and nothing but a Clear makes up for it.  The error cannot grow past
\* maxSize, since a Set that replaces an entry makes room by currentSize first.
Accounting ==
  /\ currentSize = Cardinality(Bytes) + lost
  /\ lost <= MaxSize

\* The limits hold whatever currentSize has come to: never more than maxSize
\* bytes, and never more than maxItems files (one, if maxItems is zero).
WithinLimits ==
  /\ Cardinality(Bytes) <= MaxSize
  /\ Cardinality(Cached) <= MaxItems \/ Cardinality(Cached) <= 1

\* Set and evict are through in finitely many rounds whatever the error is, and
\* let the next goroutine in: every call returns.
CallsReturn == \A c \in Callers : at[c] # "idle" ~> at[c] = "idle"

\* The entry that a Get found stays the entry of its path until the Get has
\* stamped it: nobody evicts, replaces or removes it in between.
StampsItsEntry ==
  [][\A c \in Callers :
       at[c] = "touch" =>
         /\ call[c].path \in Cached
         /\ Cached' = Cached
         /\ SizeOf(files'[call[c].path]) = SizeOf(files[call[c].path])]_cacheVars

-----------------------------------------------------------------------------
(* What else is inductive, for the proofs.                                 *)

\* A goroutine is where its call takes it; evict only ever makes room for a
\* file that an empty cache has room for.
CallMatches ==
  \A c \in Callers :
    /\ at[c] \in GetPcs => call[c] \in Gets
    /\ at[c] \in UpdatePcs => call[c] \in Updates
    /\ at[c] = "evict" => call[c] \in Sets /\ call[c].size <= MaxSize

\* Who holds the mutex; one goroutine at most owns it, and no reader is left
\* once it is in.
Locking ==
  /\ mutex.readers = {c \in Callers : at[c] \in {"lookup", "touch", "runlock"}}
  /\ mutex.owner = {c \in Callers : at[c] \in {"lockwait", "write", "evict", "unlock"}}
  /\ \A g, h \in mutex.owner : g = h
  /\ \A c \in Callers : at[c] \in {"write", "evict", "unlock"} => mutex.readers = {}

\* A Get that is about to stamp an entry has found it.
TouchesEntry == \A c \in Callers : at[c] = "touch" => call[c].path \in Cached
=============================================================================
