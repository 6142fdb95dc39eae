------------------------- MODULE StaticFilesProofs -------------------------
(***************************************************************************)
(* The two caches of static files.  What holds of FileCache for any        *)
(* goroutines, paths, file sizes and limits: its counter against the bytes *)
(* and the files it holds.  What holds of StaticFiles for any goroutines,  *)
(* files, descriptors, ranges and lengths: the cache of descriptors, and   *)
(* what a response is made of.                                             *)
(***************************************************************************)
EXTENDS FileCache, StaticFiles, FiniteSetTheorems, SequenceTheorems, TLAPS

-----------------------------------------------------------------------------
(* Counting the bytes of a map of entries.                                 *)

LEMMA EntrySize ==
  ASSUME NEW e \in Entry \cup {NoFile}
  PROVE  SizeOf(e) \in Nat
BY FileCacheAssumption DEF SizeOf, Entry

LEMMA BytesOfEntry ==
  ASSUME NEW p, NEW e \in Entry \cup {NoFile}
  PROVE  /\ IsFiniteSet(BytesOf(p, e))
         /\ Cardinality(BytesOf(p, e)) = SizeOf(e)
<1>1. SizeOf(e) \in Nat
  BY EntrySize
<1>2. IsFiniteSet(1..SizeOf(e)) /\ Cardinality(1..SizeOf(e)) = SizeOf(e)
  BY <1>1, FS_Interval
<1>3. IsFiniteSet({p}) /\ Cardinality({p}) = 1
  BY FS_Singleton
<1>4. /\ IsFiniteSet({p} \X (1..SizeOf(e)))
      /\ Cardinality({p} \X (1..SizeOf(e))) = 1 * SizeOf(e)
  BY <1>2, <1>3, FS_Product
<1>5. QED
  BY <1>1, <1>4 DEF BytesOf

LEMMA BytesFinite ==
  ASSUME NEW f \in [FilePaths -> Entry \cup {NoFile}]
  PROVE  IsFiniteSet(BytesIn(f)) /\ Cardinality(BytesIn(f)) \in Nat
<1> DEFINE Of == {BytesOf(p, f[p]) : p \in FilePaths}
           by == [p \in FilePaths |-> BytesOf(p, f[p])]
<1>1. by \in Surjection(FilePaths, Of)
  BY DEF Surjection
<1>2. IsFiniteSet(Of)
  BY <1>1, FileCacheAssumption, FS_Surjection
<1>3. \A T \in Of : IsFiniteSet(T)
  BY BytesOfEntry
<1>4. IsFiniteSet(UNION Of)
  BY <1>2, <1>3, FS_UNION
<1>5. QED
  BY <1>4, FS_CardinalityType DEF BytesIn

LEMMA DisjointUnion ==
  ASSUME NEW S, NEW T, IsFiniteSet(S), IsFiniteSet(T), S \cap T = {}
  PROVE  Cardinality(S \cup T) = Cardinality(S) + Cardinality(T)
<1>1. Cardinality(S \cup T) = Cardinality(S) + Cardinality(T) - Cardinality(S \cap T)
  BY FS_Union
<1>2. Cardinality(S \cap T) = 0
  BY FS_EmptySet
<1>3. Cardinality(S) \in Nat /\ Cardinality(T) \in Nat
  BY FS_CardinalityType
<1>4. QED
  BY <1>1, <1>2, <1>3

\* Giving one path another entry, or none, changes the count by the difference
\* of the two sizes.
LEMMA BytesChange ==
  ASSUME NEW f \in [FilePaths -> Entry \cup {NoFile}],
         NEW p \in FilePaths, NEW e \in Entry \cup {NoFile}
  PROVE  Cardinality(BytesIn([f EXCEPT ![p] = e]))
           = Cardinality(BytesIn(f)) - SizeOf(f[p]) + SizeOf(e)
<1> DEFINE g == [f EXCEPT ![p] = e]
           Others == UNION {BytesOf(q, f[q]) : q \in FilePaths \ {p}}
<1>1. g \in [FilePaths -> Entry \cup {NoFile}] /\ g[p] = e
  OBVIOUS
<1>2. \A q \in FilePaths \ {p} : g[q] = f[q]
  OBVIOUS
<1> HIDE DEF g
<1>3. BytesIn(f) = Others \cup BytesOf(p, f[p])
  BY DEF BytesIn
<1>4. BytesIn(g) = Others \cup BytesOf(p, e)
  BY <1>1, <1>2 DEF BytesIn
<1>5. \A d \in Entry \cup {NoFile} : Others \cap BytesOf(p, d) = {}
  BY DEF BytesOf
<1>6. IsFiniteSet(Others)
  <2>1. Others \subseteq BytesIn(f)
    BY <1>3
  <2>2. QED
    BY <2>1, BytesFinite, FS_Subset
<1>7. Cardinality(BytesIn(f)) = Cardinality(Others) + SizeOf(f[p])
  BY <1>3, <1>5, <1>6, BytesOfEntry, DisjointUnion
<1>8. Cardinality(BytesIn(g)) = Cardinality(Others) + SizeOf(e)
  BY <1>4, <1>5, <1>6, BytesOfEntry, DisjointUnion
<1>9. /\ Cardinality(Others) \in Nat
      /\ SizeOf(f[p]) \in Nat /\ SizeOf(e) \in Nat
  BY <1>6, FS_CardinalityType, EntrySize
<1>10. QED
  BY <1>7, <1>8, <1>9 DEF g

\* Without entries there are no bytes.
LEMMA BytesOfNone ==
  Cardinality(BytesIn([p \in FilePaths |-> NoFile])) = 0
<1>1. BytesIn([p \in FilePaths |-> NoFile]) = {}
  BY DEF BytesIn, BytesOf, SizeOf
<1>2. QED
  BY <1>1, FS_EmptySet

LEMMA CallShape ==
  /\ \A r \in Gets : r.op = "get" /\ r.path \in FilePaths
  /\ \A r \in Sets : r.op = "set" /\ r.path \in FilePaths /\ r.size \in Nat
  /\ \A r \in Removes : r.op = "remove" /\ r.path \in FilePaths
  /\ \A r \in Clears : r.op = "clear"
BY FileCacheAssumption DEF Gets, Sets, Removes, Clears

\* The operation of a call says which call it is.
LEMMA UpdateShape ==
  ASSUME NEW r \in Updates
  PROVE  /\ r.op # "get"
         /\ r.op = "set" => r \in Sets
         /\ r.op = "remove" => r \in Removes
BY CallShape DEF Updates

-----------------------------------------------------------------------------
(* Calls and locks.                                                        *)

\* All of CacheTypeOK but the two counters, whose type follows from the accounting.
Types ==
  /\ files \in [FilePaths -> Entry \cup {NoFile}]
  /\ now \in Nat
  /\ mutex \in Mutexes(Callers)
  /\ at \in [Callers -> {"idle"} \cup (GetPcs \cup UpdatePcs)]
  /\ call \in [Callers -> Calls \cup {NoCall}]
  /\ stamp \in [Callers -> Nat]

Control == (Types /\ CallMatches) /\ (Locking /\ TouchesEntry)

LEMMA ControlInit == NewCache => Control
BY DEF NewCache, Control, Types, CallMatches, Locking, TouchesEntry, FreeMutex, Mutexes,
       GetPcs, UpdatePcs

LEMMA ControlBegin ==
  ASSUME Control, NEW c \in Callers, Begin(c)
  PROVE  Control'
<1>1. PICK r \in Calls :
        /\ call' = [call EXCEPT ![c] = r]
        /\ at' = [at EXCEPT ![c] = IF r.op = "get" THEN "rlock" ELSE "lock"]
  BY DEF Begin, Move
<1>2. UNCHANGED <<files, currentSize, lost, now, mutex, stamp>> /\ at[c] = "idle"
  BY DEF Begin
<1>3. r.op = "get" => r \in Gets
  BY UpdateShape DEF Calls
<1>4. r.op # "get" => r \in Updates
  BY CallShape DEF Calls
<1>5. Types' /\ CallMatches'
  BY <1>1, <1>2, <1>3, <1>4
     DEF Control, Types, CallMatches, GetPcs, UpdatePcs
<1>6. Locking' /\ TouchesEntry'
  BY <1>1, <1>2 DEF Control, Types, Locking, TouchesEntry, Cached
<1>7. QED
  BY <1>5, <1>6 DEF Control

LEMMA ControlGet ==
  ASSUME Control, NEW c \in Callers, GetStep(c)
  PROVE  Control'
<1> USE DEF Control, Types, CallMatches, Locking, TouchesEntry, Mutexes, GetPcs, UpdatePcs,
            Move, Cached
<1>1. CASE GetRLock(c)
  BY <1>1 DEF GetRLock, RLock, CanRLock
<1>2. CASE GetMiss(c)
  BY <1>2 DEF GetMiss
<1>3. CASE GetHit(c)
  BY <1>3 DEF GetHit
<1>4. CASE Touch(c)
  <2>1. /\ files[call[c].path] \in Entry
        /\ call[c].path \in FilePaths
    BY <1>4 DEF Touch
  <2>2. [files[call[c].path] EXCEPT !.last = stamp[c]] \in Entry
    BY <2>1 DEF Entry
  <2>3. files' \in [FilePaths -> Entry \cup {NoFile}]
    BY <1>4, <2>2 DEF Touch
  <2>4. \A p \in FilePaths : files[p] # NoFile => files'[p] # NoFile
    BY <1>4, <2>2, FileCacheAssumption DEF Touch
  <2>5. QED
    BY <1>4, <2>3, <2>4 DEF Touch
<1>5. CASE GetRUnlock(c)
  BY <1>5 DEF GetRUnlock, RUnlock, Return
<1>6. QED
  BY <1>1, <1>2, <1>3, <1>4, <1>5 DEF GetStep

LEMMA ControlUpdate ==
  ASSUME Control, NEW c \in Callers, UpdateStep(c)
  PROVE  Control'
<1> USE DEF Control, Types, CallMatches, Locking, TouchesEntry, Mutexes, GetPcs, UpdatePcs,
            Move, Cached
<1>1. CASE LockCache(c)
  BY <1>1 DEF LockCache, LockRequest, CanRequest
<1>2. CASE LockHeld(c)
  BY <1>2 DEF LockHeld, LockGranted
<1>3. CASE SetTooLarge(c)
  BY <1>3 DEF SetTooLarge
<1>4. CASE SetAdmit(c)
  BY <1>4, UpdateShape DEF SetAdmit
<1>5. CASE EvictOldest(c)
  <2>1. \A d \in Callers : at[d] # "touch"
    BY <1>5 DEF EvictOldest
  <2>2. QED
    BY <1>5, <2>1 DEF EvictOldest
<1>6. CASE Insert(c)
  <2>1. [size |-> call[c].size, last |-> now] \in Entry
    BY <1>6, CallShape DEF Insert, Entry
  <2>2. \A d \in Callers : at[d] # "touch"
    BY <1>6 DEF Insert
  <2>3. QED
    BY <1>6, <2>1, <2>2 DEF Insert, PutFile
<1>7. CASE RemoveFile(c)
  <2>1. \A d \in Callers : at[d] # "touch"
    BY <1>7 DEF RemoveFile
  <2>2. QED
    BY <1>7, <2>1 DEF RemoveFile
<1>8. CASE ClearFiles(c)
  <2>1. \A d \in Callers : at[d] # "touch"
    BY <1>8 DEF ClearFiles
  <2>2. QED
    BY <1>8, <2>1 DEF ClearFiles
<1>9. CASE UnlockCache(c)
  BY <1>9 DEF UnlockCache, Unlock, Return
<1>10. QED
  BY <1>1, <1>2, <1>3, <1>4, <1>5, <1>6, <1>7, <1>8, <1>9 DEF UpdateStep, SetStep

LEMMA ControlInvariant == CacheSpec => []Control
<1>1. Control /\ [CacheNext]_cacheVars => Control'
  <2> SUFFICES ASSUME Control, [CacheNext]_cacheVars
               PROVE  Control'
    OBVIOUS
  <2>1. CASE Tick
    BY <2>1 DEF Tick, Control, Types, CallMatches, Locking, TouchesEntry, Cached
  <2>2. ASSUME NEW c \in Callers, Begin(c) \/ GetStep(c) \/ UpdateStep(c)
        PROVE  Control'
    BY <2>2, ControlBegin, ControlGet, ControlUpdate
  <2>3. CASE UNCHANGED cacheVars
    BY <2>3 DEF cacheVars, Control, Types, CallMatches, Locking, TouchesEntry, Cached
  <2>4. QED
    BY <2>1, <2>2, <2>3 DEF CacheNext
<1>2. QED
  BY <1>1, ControlInit, PTL DEF CacheSpec

-----------------------------------------------------------------------------
(* The counter.                                                            *)

Counting ==
  /\ currentSize \in Nat /\ lost \in Nat
  /\ Accounting /\ WithinLimits

LEMMA CachedFinite == IsFiniteSet(Cached) /\ Cardinality(Cached) \in Nat
BY FileCacheAssumption, FS_Subset, FS_CardinalityType DEF Cached

LEMMA CountingInit == NewCache => Counting
<1> SUFFICES ASSUME NewCache
             PROVE  Counting
  OBVIOUS
<1>1. Cardinality(Bytes) = 0
  BY BytesOfNone DEF NewCache, Bytes
<1>2. Cardinality(Cached) = 0
  BY FS_EmptySet DEF NewCache, Cached
<1>3. QED
  BY <1>1, <1>2, FileCacheAssumption
     DEF NewCache, Counting, Accounting, WithinLimits

\* A step that takes the entry of one path away.
LEMMA CountingDrop ==
  ASSUME Control, Counting, NEW p \in FilePaths,
         files' = [files EXCEPT ![p] = NoFile],
         currentSize' = currentSize - SizeOf(files[p]),
         UNCHANGED lost
  PROVE  Counting'
<1>1. files \in [FilePaths -> Entry \cup {NoFile}]
  BY DEF Control, Types
<1>2. Cardinality(Bytes') = Cardinality(Bytes) - SizeOf(files[p])
  <2>1. SizeOf(NoFile) = 0
    BY DEF SizeOf
  <2>2. Cardinality(BytesIn([files EXCEPT ![p] = NoFile]))
          = Cardinality(BytesIn(files)) - SizeOf(files[p]) + SizeOf(NoFile)
    BY <1>1, BytesChange
  <2>3. SizeOf(files[p]) \in Nat /\ Cardinality(BytesIn(files)) \in Nat
    BY <1>1, EntrySize, BytesFinite
  <2>4. Cardinality(BytesIn(files')) = Cardinality(BytesIn(files)) - SizeOf(files[p])
    BY <2>1, <2>2, <2>3
  <2>5. QED
    BY <2>4 DEF Bytes
<1>3. /\ Cardinality(Bytes) \in Nat /\ Cardinality(Bytes') \in Nat
      /\ SizeOf(files[p]) \in Nat
  <2>1. [files EXCEPT ![p] = NoFile] \in [FilePaths -> Entry \cup {NoFile}]
    BY <1>1
  <2>2. QED
    BY <1>1, <2>1, BytesFinite, EntrySize DEF Bytes
<1>4. Cardinality(Cached') <= Cardinality(Cached) /\ Cardinality(Cached') \in Nat
  <2>1. Cached' \subseteq Cached
    BY <1>1 DEF Cached
  <2>2. QED
    BY <2>1, CachedFinite, FS_Subset, FS_CardinalityType
<1>5. QED
  BY <1>2, <1>3, <1>4, CachedFinite, FileCacheAssumption
     DEF Counting, Accounting, WithinLimits

LEMMA CountingInsert ==
  ASSUME Control, Counting, NEW c \in Callers, Insert(c)
  PROVE  Counting'
<1> DEFINE p == call[c].path
           size == call[c].size
           e == [size |-> size, last |-> now]
           old == SizeOf(files[p])
<1>1. /\ files \in [FilePaths -> Entry \cup {NoFile}] /\ now \in Nat
      /\ call[c] \in Sets /\ size <= MaxSize
  BY DEF Control, Types, CallMatches, Insert
<1>2. p \in FilePaths /\ size \in Nat
  BY <1>1, CallShape
<1>3. e \in Entry /\ SizeOf(e) = size /\ e # NoFile
  BY <1>1, <1>2, FileCacheAssumption DEF Entry, SizeOf
<1>4. /\ NoRoom(size) => Cached = {}
      /\ files' = [files EXCEPT ![p] = e]
      /\ currentSize' = currentSize + size
      /\ lost' = lost + old
  BY DEF Insert, PutFile
<1> HIDE DEF p, size, e
<1>5. Cardinality(Bytes') = Cardinality(Bytes) - old + size
  BY <1>1, <1>2, <1>3, <1>4, BytesChange DEF Bytes
<1>6. old <= Cardinality(Bytes) /\ old \in Nat /\ Cardinality(Bytes) \in Nat
  <2>1. [files EXCEPT ![p] = NoFile] \in [FilePaths -> Entry \cup {NoFile}]
    BY <1>1
  <2>2. Cardinality(BytesIn([files EXCEPT ![p] = NoFile]))
          = Cardinality(BytesIn(files)) - old + SizeOf(NoFile)
    BY <1>1, <1>2, BytesChange
  <2>3. /\ Cardinality(BytesIn([files EXCEPT ![p] = NoFile])) \in Nat
        /\ Cardinality(BytesIn(files)) \in Nat
        /\ old \in Nat /\ SizeOf(NoFile) = 0
    BY <1>1, <1>2, <2>1, BytesFinite, EntrySize DEF SizeOf
  <2>4. QED
    BY <2>2, <2>3 DEF Bytes
<1>7. Cached' = Cached \cup {p}
  BY <1>1, <1>2, <1>3, <1>4 DEF Cached
<1>8. /\ Cardinality(Cached') \in Nat
      /\ Cardinality(Cached') <= Cardinality(Cached) + 1
  BY <1>7, CachedFinite, FS_AddElement, FS_CardinalityType
<1>9. CASE ~NoRoom(size)
  BY <1>2, <1>4, <1>5, <1>6, <1>8, <1>9, CachedFinite, FileCacheAssumption
     DEF NoRoom, Counting, Accounting, WithinLimits
<1>10. CASE Cached = {}
  <2>1. files = [q \in FilePaths |-> NoFile]
    BY <1>1, <1>10 DEF Cached
  <2>2. Cardinality(Bytes) = 0
    BY <2>1, BytesOfNone DEF Bytes
  <2>3. Cardinality(Cached) = 0
    BY <1>10, FS_EmptySet
  <2>4. QED
    BY <1>1, <1>2, <1>4, <1>5, <1>6, <1>8, <2>2, <2>3, FileCacheAssumption
       DEF Counting, Accounting, WithinLimits
<1>11. QED
  BY <1>4, <1>9, <1>10

\* Stamping an entry changes no size.
LEMMA TouchKeepsSizes ==
  ASSUME Control, NEW c \in Callers, Touch(c)
  PROVE  /\ Cached' = Cached
         /\ Cardinality(Bytes') = Cardinality(Bytes)
         /\ SizeOf(files'[call[c].path]) = SizeOf(files[call[c].path])
<1> DEFINE p == call[c].path
           e == [files[p] EXCEPT !.last = stamp[c]]
<1>1. files \in [FilePaths -> Entry \cup {NoFile}] /\ p \in Cached /\ stamp[c] \in Nat
  BY DEF Control, Types, TouchesEntry, Touch
<1>2. p \in FilePaths /\ files[p] \in Entry
  BY <1>1 DEF Cached
<1>3. e \in Entry /\ e # NoFile /\ SizeOf(e) = SizeOf(files[p])
  BY <1>1, <1>2, FileCacheAssumption DEF Entry, SizeOf
<1>4. files' = [files EXCEPT ![p] = e]
  BY DEF Touch
<1> HIDE DEF p, e
<1>5. Cardinality(Bytes') = Cardinality(Bytes) - SizeOf(files[p]) + SizeOf(e)
  BY <1>1, <1>2, <1>3, <1>4, BytesChange DEF Bytes
<1>6. Cardinality(Bytes) \in Nat /\ SizeOf(files[p]) \in Nat
  BY <1>1, <1>2, BytesFinite, EntrySize DEF Bytes
<1>7. Cached' = Cached
  BY <1>1, <1>2, <1>3, <1>4 DEF Cached
<1>8. SizeOf(files'[p]) = SizeOf(files[p])
  BY <1>1, <1>2, <1>3, <1>4
<1>9. QED
  BY <1>3, <1>5, <1>6, <1>7, <1>8 DEF p

LEMMA CountingStutter ==
  ASSUME Counting, UNCHANGED <<currentSize, lost>>,
         Cardinality(Bytes') = Cardinality(Bytes), Cached' = Cached
  PROVE  Counting'
BY DEF Counting, Accounting, WithinLimits

LEMMA CountingStep ==
  ASSUME Control, Counting, NEW c \in Callers, GetStep(c) \/ UpdateStep(c)
  PROVE  Counting'
<1>1. CASE UNCHANGED <<files, currentSize, lost>>
  BY <1>1, CountingStutter DEF Bytes, Cached
<1>2. CASE Touch(c)
  BY <1>2, TouchKeepsSizes, CountingStutter DEF Touch
<1>3. CASE EvictOldest(c)
  <2>1. PICK p \in Oldest : /\ files' = [files EXCEPT ![p] = NoFile]
                            /\ currentSize' = currentSize - SizeOf(files[p])
    BY <1>3 DEF EvictOldest
  <2>2. p \in FilePaths
    BY <2>1 DEF Oldest, Cached
  <2>3. QED
    BY <1>3, <2>1, <2>2, CountingDrop DEF EvictOldest
<1>4. CASE Insert(c)
  BY <1>4, CountingInsert
<1>5. CASE RemoveFile(c)
  <2>1. call[c].path \in FilePaths
    BY <1>5, UpdateShape, CallShape
       DEF RemoveFile, Control, CallMatches, UpdatePcs
  <2>2. QED
    BY <1>5, <2>1, CountingDrop DEF RemoveFile
<1>6. CASE ClearFiles(c)
  <2>1. Cardinality(Bytes') = 0
    BY <1>6, BytesOfNone DEF ClearFiles, Bytes
  <2>2. Cardinality(Cached') = 0
    BY <1>6, FS_EmptySet DEF ClearFiles, Cached
  <2>3. QED
    BY <1>6, <2>1, <2>2, FileCacheAssumption
       DEF ClearFiles, Counting, Accounting, WithinLimits
<1>7. QED
  BY <1>1, <1>2, <1>3, <1>4, <1>5, <1>6
     DEF GetStep, UpdateStep, SetStep, GetRLock, GetMiss, GetHit, GetRUnlock,
         LockCache, LockHeld, SetTooLarge, SetAdmit, UnlockCache

LEMMA CountingInvariant == CacheSpec => []Counting
<1>1. Control /\ Counting /\ [CacheNext]_cacheVars => Counting'
  <2> SUFFICES ASSUME Control, Counting, [CacheNext]_cacheVars
               PROVE  Counting'
    OBVIOUS
  <2>1. CASE UNCHANGED <<files, currentSize, lost>>
    BY <2>1, CountingStutter DEF Bytes, Cached
  <2>2. ASSUME NEW c \in Callers, GetStep(c) \/ UpdateStep(c)
        PROVE  Counting'
    BY <2>2, CountingStep
  <2>3. QED
    BY <2>1, <2>2 DEF CacheNext, cacheVars, Tick, Begin
<1>2. QED
  BY <1>1, CountingInit, ControlInvariant, PTL DEF CacheSpec

-----------------------------------------------------------------------------
(* The theorems.                                                           *)

\* The state is always of its type; currentSize in particular is never
\* negative, whatever Sets, Removes, evictions and Clears have gone before.
THEOREM CacheTypeCorrect == CacheSpec => []CacheTypeOK
<1>1. Control /\ Counting => CacheTypeOK
  BY DEF Control, Types, Counting, CacheTypeOK
<1>2. QED
  BY <1>1, ControlInvariant, CountingInvariant, PTL

\* currentSize exceeds the bytes in the cache by exactly the sizes of the
\* entries replaced since the last Clear, and by maxSize at most.
THEOREM SizeAccounted == CacheSpec => []Accounting
<1>1. Counting => Accounting
  BY DEF Counting
<1>2. QED
  BY <1>1, CountingInvariant, PTL

\* The cache keeps to maxSize and maxItems although currentSize is wrong.
THEOREM LimitsKept == CacheSpec => []WithinLimits
<1>1. Counting => WithinLimits
  BY DEF Counting
<1>2. QED
  BY <1>1, CountingInvariant, PTL

\* A Get stamps the entry that it found, never one put there since or gone.
THEOREM GetStampsItsEntry == CacheSpec => StampsItsEntry
<1>1. Control /\ [CacheNext]_cacheVars =>
        [\A c \in Callers :
           at[c] = "touch" =>
             /\ call[c].path \in Cached
             /\ Cached' = Cached
             /\ SizeOf(files'[call[c].path]) = SizeOf(files[call[c].path])]_cacheVars
  <2> SUFFICES ASSUME Control, [CacheNext]_cacheVars, NEW c \in Callers, at[c] = "touch"
               PROVE  /\ call[c].path \in Cached
                      /\ Cached' = Cached
                      /\ SizeOf(files'[call[c].path]) = SizeOf(files[call[c].path])
    OBVIOUS
  <2>1. call[c].path \in Cached
    BY DEF Control, TouchesEntry
  <2>2. \A d \in Callers : at[d] \notin {"write", "evict", "unlock"}
    BY DEF Control, Locking
  <2>3. CASE UNCHANGED files
    BY <2>1, <2>3 DEF Cached
  <2>4. ASSUME NEW d \in Callers, Touch(d)
        PROVE  Cached' = Cached /\ \A p \in FilePaths : SizeOf(files'[p]) = SizeOf(files[p])
    <3>1. Cached' = Cached
      BY <2>4, TouchKeepsSizes
    <3>2. SizeOf(files'[call[d].path]) = SizeOf(files[call[d].path])
      BY <2>4, TouchKeepsSizes
    <3>3. \A p \in FilePaths : p # call[d].path => files'[p] = files[p]
      BY <2>4 DEF Touch, Control, Types
    <3>4. QED
      BY <3>1, <3>2, <3>3
  <2>5. UNCHANGED files \/ \E d \in Callers : Touch(d)
    BY <2>2 DEF CacheNext, cacheVars, Tick, Begin, GetStep, UpdateStep, SetStep, GetRLock, GetMiss,
                GetHit, GetRUnlock, LockCache, LockHeld, SetTooLarge, SetAdmit,
                EvictOldest, Insert, RemoveFile, ClearFiles, UnlockCache
  <2>6. QED
    BY <2>1, <2>3, <2>4, <2>5 DEF Cached
<1>2. QED
  BY <1>1, ControlInvariant, PTL DEF CacheSpec, StampsItsEntry

-----------------------------------------------------------------------------
(* StaticFiles: where a goroutine is, and what it has of a file.           *)

HasFile == {"check", "seek", "put", "read"}
HasNone == {"idle", "memory", "lookup", "open", "stream"}

\* The file opened for the cache is open, and nobody else has it.
Private(w) ==
  /\ fds[file[w]] # None
  /\ file[w] \notin CachedFds
  /\ \A v \in Workers \ {w} : file[v] # file[w]

Placed(w) ==
  /\ pc[w] = "idle" => got[w] = <<>>
  /\ pc[w] # "idle" => request[w] \in Kinds /\ info[w] \in 1..disk[Path(w)]
  /\ pc[w] \in HasFile => file[w] \in Fds
  /\ pc[w] \in HasNone => file[w] = None
  /\ pc[w] = "put" => Private(w)

\* Of two that read from one file each has been interfered with.
SharedSpoils ==
  \A v, w \in Workers :
    v # w /\ pc[v] = "read" /\ pc[w] = "read" /\ file[v] = file[w] => spoiled[w]

Sound ==
  /\ TypeOK
  /\ \A w \in Workers : Placed(w)
  /\ SharedSpoils
  /\ IsFiniteSet(Opened)
  /\ DescriptorsSound

\* A goroutine that never begins a file again behind what it has sent.
Single(w) == Buffers(w) \/ ~Streams(w)

OfVersion(s, v) == \A i \in DOMAIN s : s[i][1] = v
Uniform(s) == \A i, j \in DOMAIN s : s[i][1] = s[j][1]

UniformReader(w) ==
  pc[w] # "idle" /\ Single(w) =>
    /\ pc[w] \notin {"read", "done"} => got[w] = <<>>
    /\ pc[w] = "read" => Uniform(got[w])
    /\ pc[w] = "read" /\ fds[file[w]] # None => OfVersion(got[w], fds[file[w]].version)

AllUniform ==
  /\ \A p \in Paths : contents[p] # None => Uniform(contents[p].data)
  /\ \A w \in Workers : UniformReader(w)
  /\ OneVersion

\* The version of an open file is one that w may serve.
Current(w) == fds[file[w]].version \in info[w]..disk[Path(w)]

\* Nobody has moved the offset under w, nor closed its file.
QuietReader(w) ==
  /\ fds[file[w]] # None
  /\ Current(w)
  /\ fds[file[w]].offset = Start(w) + Len(got[w])
  /\ \A i \in 1..Len(got[w]) : got[w][i] = <<fds[file[w]].version, Start(w) + i>>
  /\ Op(w) = "range" /\ ~Buffers(w) => Len(got[w]) <= To(w) - From(w) + 1

BeforeRead == {"idle", "memory", "lookup", "check", "seek", "open", "stream", "put"}

Quiet(w) ==
  /\ pc[w] \in BeforeRead /\ ~spoiled[w] => got[w] = <<>>
  /\ pc[w] = "put" => Current(w) /\ fds[file[w]].offset = Start(w)
  /\ pc[w] = "seek" /\ ~spoiled[w] /\ fds[file[w]] # None => Current(w)
  /\ pc[w] = "read" /\ ~spoiled[w] => QuietReader(w)

DescriptorsCurrent ==
  \A p \in Opened :
    fds[descriptors[p].file].version \in descriptors[p].modTime..disk[p]

ContentsCurrent ==
  \A p \in Paths :
    contents[p] # None /\ contents[p].pure =>
      \E v \in contents[p].modTime..disk[p] : contents[p].data = Content(v)

AllQuiet ==
  /\ \A w \in Workers : Quiet(w)
  /\ DescriptorsCurrent
  /\ ContentsCurrent
  /\ QuietIsRight

-----------------------------------------------------------------------------
(* What a request asks for, and what the caches hold.                      *)

LEMMA RequestShape ==
  ASSUME NEW w \in Workers, request[w] \in Kinds
  PROVE  /\ Path(w) \in Paths
         /\ Op(w) \in {"whole", "range", "preload"}
         /\ Op(w) = "preload" => Path(w) \in InMemory
         /\ From(w) \in 1..Length /\ To(w) \in From(w)..Length
         /\ Start(w) \in Nat /\ Start(w) < Length
         /\ Buffers(w) => Start(w) = 0
         /\ ~Buffers(w) => Start(w) = From(w) - 1
<1> DEFINE k == request[w]
<1>1. PICK k1, k2 : /\ request[w] = <<k1, k2>> /\ k2 \in Paths
                    /\ k1 \in {"whole", "range", "preload"}
                    /\ k1 = "preload" => k2 \in InMemory
  BY StaticAssumption
<1>2. Op(w) = k1 /\ Path(w) = k2
  BY <1>1 DEF Op, Path
<1>3. From(w) \in 1..Length /\ To(w) \in From(w)..Length
  BY StaticAssumption DEF From, To
<1>4. /\ Start(w) \in Nat /\ Start(w) < Length
      /\ Buffers(w) => Start(w) = 0
      /\ ~Buffers(w) => Start(w) = From(w) - 1
  BY <1>3, StaticAssumption DEF Start
<1>5. QED
  BY <1>1, <1>2, <1>3, <1>4

\* What is in the cache of descriptors is there with its file.
LEMMA DescriptorShape ==
  ASSUME TypeOK, NEW p \in Opened
  PROVE  /\ p \in Paths
         /\ descriptors[p] \in Descriptor
         /\ descriptors[p].file \in Fds /\ descriptors[p].modTime \in 1..MaxVersion
BY DEF TypeOK, Opened, Descriptor

LEMMA CachedShape ==
  ASSUME TypeOK
  PROVE  CachedFds \subseteq Fds
BY DescriptorShape DEF CachedFds

\* Any record of these fields is an open file, none is None.
LEMMA OpenFileShape ==
  /\ \A o \in OpenFile : o.version \in 1..MaxVersion /\ o.offset \in 0..Length /\ o # None
  /\ \A d \in Descriptor : d.file \in Fds /\ d.modTime \in 1..MaxVersion /\ d # None
  /\ \A o \in OpenFile, n \in 0..Length :
       /\ [o EXCEPT !.offset = n] \in OpenFile
       /\ [o EXCEPT !.offset = n].version = o.version
       /\ [o EXCEPT !.offset = n].offset = n
  /\ \A v \in 1..MaxVersion, n \in 0..Length : [version |-> v, offset |-> n] \in OpenFile
BY StaticAssumption DEF OpenFile, Descriptor

LEMMA CloseKeepsType ==
  ASSUME TypeOK, NEW F, Close(F)
  PROVE  fds' \in [Fds -> OpenFile \cup {None}]
BY DEF TypeOK, Close

LEMMA DropKeepsType ==
  ASSUME TypeOK, NEW ps, Drop(ps)
  PROVE  /\ fds' \in [Fds -> OpenFile \cup {None}]
         /\ descriptors' \in [Paths -> Descriptor \cup {None}]
         /\ older' \subseteq Paths \X Paths
         /\ spoiled' \in [Workers -> BOOLEAN]
<1>1. fds' \in [Fds -> OpenFile \cup {None}]
  BY CloseKeepsType DEF Drop
<1>2. descriptors' \in [Paths -> Descriptor \cup {None}]
  BY DEF Drop, TypeOK
<1>3. older' \subseteq Paths \X Paths
  BY DEF Drop, TypeOK, Among
<1>4. spoiled' \in [Workers -> BOOLEAN]
  BY DEF Drop, TypeOK, Spoil
<1>5. QED
  BY <1>1, <1>2, <1>3, <1>4

LEMMA LatestShape ==
  ASSUME TypeOK, NEW p \in Paths, NEW S \in SUBSET Paths
  PROVE  Latest(p, S) \subseteq Paths \X Paths
BY DEF TypeOK, Latest, Among

LEMMA MinOfTwo ==
  ASSUME NEW a \in Int, NEW b \in Int
  PROVE  Min({a, b}) = IF a <= b THEN a ELSE b
BY DEF Min

\* The range cut out of chunks that were read.
LEMMA CutShape ==
  ASSUME NEW w \in Workers, request[w] \in Kinds, NEW content \in Chunks,
         ~(From(w) > Len(content))
  PROVE  /\ Min({To(w), Len(content)}) \in From(w)..Len(content)
         /\ SubSeq(content, From(w), Min({To(w), Len(content)})) \in Chunks
<1>1. From(w) \in 1..Length /\ To(w) \in From(w)..Length
  BY RequestShape
<1>2. Length \in Nat
  BY StaticAssumption
<1>3. content \in Seq((1..MaxVersion) \X (1..Length))
  BY DEF Chunks
<1>4. Len(content) \in Nat
  BY <1>3, LenProperties
<1>5. PICK m : m = Min({To(w), Len(content)})
  OBVIOUS
<1>6. m \in From(w)..Len(content)
  <2>1. m = IF To(w) <= Len(content) THEN To(w) ELSE Len(content)
    BY <1>1, <1>2, <1>4, <1>5, MinOfTwo
  <2>2. QED
    BY <2>1, <1>1, <1>2, <1>4
<1>7. SubSeq(content, From(w), m) \in Seq((1..MaxVersion) \X (1..Length))
  <2>1. \A i \in From(w)..m : i \in 1..Len(content)
    BY <1>1, <1>2, <1>4, <1>6
  <2>2. QED
    BY <1>1, <1>2, <1>3, <1>4, <1>6, <2>1, SubSeqProperties
<1>8. QED
  BY <1>5, <1>6, <1>7 DEF Chunks

\* An answer is well typed, and the goroutine is done.
LEMMA ReplyShape ==
  ASSUME TypeOK, NEW w \in Workers, NEW status \in Statuses, NEW chunks \in Chunks,
         NEW pure \in BOOLEAN, Reply(w, status, chunks, pure)
  PROVE  /\ pc' = [pc EXCEPT ![w] = "done"]
         /\ DOMAIN reply' = Workers
         /\ \A v \in Workers : reply'[v] # None =>
              /\ reply'[v].status \in Statuses
              /\ reply'[v].chunks \in Chunks
              /\ reply'[v].pure \in BOOLEAN
<1>1. reply' = [reply EXCEPT ![w] = [status |-> status, chunks |-> chunks, pure |-> pure]]
  BY DEF Reply
<1>2. \A v \in Workers : reply'[v] # reply[v] => v = w
  BY <1>1
<1>3. reply'[w] # reply[w] =>
        reply'[w] = [status |-> status, chunks |-> chunks, pure |-> pure]
  BY <1>1
<1>4. QED
  BY <1>2, <1>3 DEF Reply, Goto, TypeOK

LEMMA Negation ==
  ASSUME NEW b
  PROVE  (~b) \in BOOLEAN
BY Zenon

LEMMA EmptyChunks == <<>> \in Chunks
BY EmptySeq DEF Chunks

LEMMA ReplyFromShape ==
  ASSUME TypeOK, NEW w \in Workers, request[w] \in Kinds, NEW content \in Chunks,
         NEW pure \in BOOLEAN, ReplyFrom(w, content, pure)
  PROVE  /\ pc' = [pc EXCEPT ![w] = "done"]
         /\ DOMAIN reply' = Workers
         /\ \A v \in Workers : reply'[v] # None =>
              /\ reply'[v].status \in Statuses
              /\ reply'[v].chunks \in Chunks
              /\ reply'[v].pure \in BOOLEAN
<1>1. CASE From(w) > Len(content)
  <2>1. Reply(w, "unsatisfiable", <<>>, pure)
    BY <1>1 DEF ReplyFrom
  <2>2. QED
    BY <2>1, EmptyChunks, ReplyShape DEF Statuses
<1>2. CASE ~(From(w) > Len(content))
  <2>1. PICK cut : cut = SubSeq(content, From(w), Min({To(w), Len(content)}))
    OBVIOUS
  <2>2. Reply(w, "sent", cut, pure)
    BY <1>2, <2>1 DEF ReplyFrom
  <2>3. cut \in Chunks
    BY <1>2, <2>1, CutShape
  <2>4. QED
    BY <2>2, <2>3, ReplyShape DEF Statuses
<1>3. QED
  BY <1>1, <1>2

\* The cached content of a file, by its type.
LEMMA ContentShape ==
  ASSUME TypeOK, NEW p \in Paths, contents[p] # None
  PROVE  /\ contents[p].data \in Chunks
         /\ contents[p].modTime \in 1..disk[p]
         /\ contents[p].pure \in BOOLEAN
BY DEF TypeOK

\* Where a request goes on when it has no file.
LEMMA OpenPcShape ==
  ASSUME NEW w
  PROVE  OpenPc(w) \in {"open", "stream"}
BY DEF OpenPc

-----------------------------------------------------------------------------
(* Types.                                                                  *)

LEMMA TypeInit == Init => TypeOK
<1> SUFFICES ASSUME Init PROVE TypeOK
  OBVIOUS
<1>1. <<>> \in Chunks /\ 1 \in 1..MaxVersion /\ 0 \in 0..MaxVersion
  BY EmptyChunks, StaticAssumption
<1>2. /\ disk \in [Paths -> 1..MaxVersion]
      /\ info \in [Workers -> 0..MaxVersion]
      /\ got \in [Workers -> Chunks]
  BY <1>1 DEF Init
<1>3. /\ descriptors \in [Paths -> Descriptor \cup {None}]
      /\ fds \in [Fds -> OpenFile \cup {None}]
      /\ file \in [Workers -> Fds \cup {None}]
      /\ request \in [Workers -> Kinds \cup {None}]
      /\ spoiled \in [Workers -> BOOLEAN]
      /\ older \subseteq Paths \X Paths
  BY DEF Init
<1>4. QED
  BY <1>2, <1>3 DEF Init, TypeOK

LEMMA TypeStat ==
  ASSUME TypeOK, NEW w \in Workers, Stat(w)
  PROVE  TypeOK'
<1>1. PICK kind \in Kinds :
        /\ request' = [request EXCEPT ![w] = kind]
        /\ info' = [info EXCEPT ![w] = disk[kind[2]]]
        /\ pc' = [pc EXCEPT ![w] = IF kind[1] = "preload" THEN "stream"
                                   ELSE IF kind[2] \in InMemory THEN "memory" ELSE "lookup"]
  BY DEF Stat, Goto
<1>2. kind[2] \in Paths
  BY StaticAssumption
<1>3. info' \in [Workers -> 0..MaxVersion]
  BY <1>1, <1>2, StaticAssumption DEF TypeOK
<1>4. request' \in [Workers -> Kinds \cup {None}]
  BY <1>1 DEF TypeOK
<1>5. pc' \in [Workers -> {"idle", "memory", "lookup", "check", "seek", "open", "stream",
                           "put", "read", "done"}]
  BY <1>1 DEF TypeOK
<1>6. UNCHANGED <<disk, caches, fds, file, got, reply, spoiled>>
  BY DEF Stat
<1>7. QED
  BY <1>3, <1>4, <1>5, <1>6 DEF TypeOK, caches

LEMMA TypeMemory ==
  ASSUME TypeOK, NEW w \in Workers, Placed(w), MemoryHit(w) \/ MemoryMiss(w)
  PROVE  TypeOK'
<1>1. request[w] \in Kinds /\ Path(w) \in Paths
  BY RequestShape DEF Placed, MemoryHit, MemoryMiss
<1>2. CASE MemoryHit(w)
  <2>1. contents[Path(w)] # None
    BY <1>2 DEF MemoryHit, InCache
  <2>2. ReplyFrom(w, contents[Path(w)].data, contents[Path(w)].pure)
    BY <1>2 DEF MemoryHit
  <2>3. /\ pc' = [pc EXCEPT ![w] = "done"]
        /\ DOMAIN reply' = Workers
        /\ \A v \in Workers : reply'[v] # None =>
             /\ reply'[v].status \in Statuses
             /\ reply'[v].chunks \in Chunks
             /\ reply'[v].pure \in BOOLEAN
    BY <1>1, <2>1, <2>2, ContentShape, ReplyFromShape
  <2>4. UNCHANGED <<disk, caches, fds, task, file, got, spoiled>>
    BY <1>2 DEF MemoryHit
  <2>5. QED
    BY <2>3, <2>4 DEF TypeOK, caches, task
<1>3. CASE MemoryMiss(w)
  BY <1>3 DEF MemoryMiss, Goto, TypeOK, caches, task
<1>4. QED
  BY <1>2, <1>3

LEMMA TypeFdGet ==
  ASSUME TypeOK, NEW w \in Workers, Placed(w), FdGet(w)
  PROVE  TypeOK'
<1>1. Path(w) \in Paths
  BY RequestShape DEF Placed, FdGet
<1>2. /\ file' \in [Workers -> Fds \cup {None}]
      /\ pc' \in [Workers -> {"idle", "memory", "lookup", "check", "seek", "open", "stream",
                              "put", "read", "done"}]
  <2>1. CASE descriptors[Path(w)] = None
    BY <2>1, OpenPcShape DEF FdGet, Goto, TypeOK
  <2>2. CASE descriptors[Path(w)] # None
    <3>1. descriptors[Path(w)].file \in Fds
      BY <1>1, <2>2, DescriptorShape DEF Opened
    <3>2. QED
      BY <2>2, <3>1 DEF FdGet, Goto, TypeOK
  <2>3. QED
    BY <2>1, <2>2
<1>3. UNCHANGED <<disk, caches, fds, task, got, reply, spoiled>>
  BY DEF FdGet
<1>4. QED
  BY <1>2, <1>3 DEF TypeOK, caches, task

\* Letting a file go.
LEMMA LetGoShape ==
  ASSUME TypeOK, NEW w \in Workers, LetGo(w)
  PROVE  /\ file' \in [Workers -> Fds \cup {None}]
         /\ fds' \in [Fds -> OpenFile \cup {None}]
<1>1. fds' \in [Fds -> OpenFile \cup {None}]
  BY CloseKeepsType DEF LetGo
<1>2. QED
  BY <1>1 DEF LetGo, TypeOK

LEMMA TypeFdCheck ==
  ASSUME TypeOK, NEW w \in Workers, Placed(w), FdCheck(w)
  PROVE  TypeOK'
<1>1. Path(w) \in Paths
  BY RequestShape DEF Placed, FdCheck
<1>2. UNCHANGED <<disk, contents, descriptors, task, got, reply>>
  BY DEF FdCheck
<1>3. older' \subseteq Paths \X Paths
  <2>1. Latest(Path(w), Opened) \subseteq Paths \X Paths
    BY <1>1, LatestShape DEF Opened
  <2>2. older' = Latest(Path(w), Opened) \/ older' = older
    BY DEF FdCheck
  <2>3. QED
    BY <2>1, <2>2 DEF TypeOK
<1>4. CASE /\ Goto(w, "seek")
           /\ \E S : Spoil(S)
           /\ UNCHANGED <<file, fds>>
  BY <1>2, <1>3, <1>4 DEF Goto, Spoil, TypeOK, task
<1>5. CASE LetGo(w) /\ Goto(w, OpenPc(w)) /\ UNCHANGED spoiled
  BY <1>2, <1>3, <1>5, LetGoShape, OpenPcShape DEF Goto, TypeOK, task
<1>6. QED
  BY <1>4, <1>5 DEF FdCheck

LEMMA TypeSeek ==
  ASSUME TypeOK, NEW w \in Workers, Placed(w), Seek(w)
  PROVE  TypeOK'
<1>1. request[w] \in Kinds /\ file[w] \in Fds
  BY DEF Placed, Seek, HasFile
<1>2. Start(w) \in 0..Length
  BY <1>1, RequestShape, StaticAssumption
<1>3. fds[file[w]] \in OpenFile
  BY <1>1 DEF TypeOK, Seek
<1>4. fds' \in [Fds -> OpenFile \cup {None}]
  <2>1. [fds[file[w]] EXCEPT !.offset = Start(w)] \in OpenFile
    <3>1. PICK o \in OpenFile : o = fds[file[w]]
      BY <1>3
    <3>2. PICK n \in 0..Length : n = Start(w)
      BY <1>2
    <3>3. [o EXCEPT !.offset = n] \in OpenFile
      BY OpenFileShape
    <3>4. QED
      BY <3>1, <3>2, <3>3
  <2>2. fds' = [fds EXCEPT ![file[w]] = [fds[file[w]] EXCEPT !.offset = Start(w)]]
    BY DEF Seek
  <2>3. QED
    BY <2>1, <2>2 DEF TypeOK
<1>5. spoiled' \in [Workers -> BOOLEAN]
  BY DEF Seek, Spoil, TypeOK
<1>6. pc' = [pc EXCEPT ![w] = "read"]
  BY DEF Seek, Goto
<1>7. UNCHANGED <<disk, caches, task, file, got, reply>>
  BY DEF Seek
<1>8. QED
  BY <1>4, <1>5, <1>6, <1>7 DEF TypeOK, caches, task

LEMMA TypeSeekFails ==
  ASSUME TypeOK, NEW w \in Workers, SeekFails(w)
  PROVE  TypeOK'
<1>1. PICK ps : Drop(ps)
  BY DEF SeekFails
<1>2. UNCHANGED <<disk, contents, task, got, reply>>
  BY DEF SeekFails
<1>3. QED
  BY <1>1, <1>2, DropKeepsType, OpenPcShape DEF SeekFails, Goto, TypeOK, task

LEMMA TypeOpen ==
  ASSUME TypeOK, NEW w \in Workers, Placed(w), Open(w)
  PROVE  TypeOK'
<1>1. request[w] \in Kinds /\ Path(w) \in Paths
  BY RequestShape DEF Placed, Open
<1>2. PICK f \in FreeFds :
        /\ fds' = [fds EXCEPT ![f] = [version |-> disk[Path(w)], offset |-> Start(w)]]
        /\ file' = [file EXCEPT ![w] = f]
  BY DEF Open
<1>3. fds' \in [Fds -> OpenFile \cup {None}]
  <2>1. disk[Path(w)] \in 1..MaxVersion /\ Start(w) \in 0..Length
    BY <1>1, RequestShape, StaticAssumption DEF TypeOK
  <2>2. [version |-> disk[Path(w)], offset |-> Start(w)] \in OpenFile
    BY <2>1 DEF OpenFile
  <2>3. QED
    BY <1>2, <2>2 DEF TypeOK
<1>4. file' \in [Workers -> Fds \cup {None}]
  BY <1>2 DEF FreeFds, TypeOK
<1>5. \/ pc' = [pc EXCEPT ![w] = "put"]
      \/ pc' = [pc EXCEPT ![w] = "read"]
  BY DEF Open, Goto
<1>6. UNCHANGED <<disk, caches, task, got, reply, spoiled>>
  BY DEF Open
<1>7. QED
  BY <1>3, <1>4, <1>5, <1>6 DEF TypeOK, caches, task

LEMMA TypeOpenFails ==
  ASSUME TypeOK, NEW w \in Workers, OpenFails(w)
  PROVE  TypeOK'
<1>1. UNCHANGED <<disk, caches, fds, task, file, got, spoiled>>
  BY DEF OpenFails
<1>2. /\ pc' = [pc EXCEPT ![w] = "done"]
      /\ DOMAIN reply' = Workers
      /\ \A v \in Workers : reply'[v] # None =>
           /\ reply'[v].status \in Statuses
           /\ reply'[v].chunks \in Chunks
           /\ reply'[v].pure \in BOOLEAN
  BY EmptyChunks, ReplyShape DEF OpenFails, Statuses
<1>3. QED
  BY <1>1, <1>2 DEF TypeOK, caches, task

LEMMA TypeEnter ==
  ASSUME TypeOK, NEW w \in Workers, Placed(w), pc[w] = "put", NEW ps, Enter(w, ps)
  PROVE  TypeOK'
<1>1. /\ Path(w) \in Paths /\ file[w] \in Fds
      /\ info[w] \in 1..disk[Path(w)]
  BY RequestShape DEF Placed, HasFile
<1>2. info[w] \in 1..MaxVersion
  BY <1>1, StaticAssumption DEF TypeOK
<1>3. descriptors' \in [Paths -> Descriptor \cup {None}]
  <2>1. [file |-> file[w], modTime |-> info[w]] \in Descriptor
    BY <1>1, <1>2 DEF Descriptor
  <2>2. PICK d \in Descriptor : d = [file |-> file[w], modTime |-> info[w]]
    BY <2>1
  <2>3. descriptors' = [p \in Paths |-> IF p = Path(w) THEN d
                                        ELSE IF p \in ps THEN None ELSE descriptors[p]]
    BY <2>2 DEF Enter
  <2>4. QED
    BY <2>3 DEF TypeOK
<1>4. older' \subseteq Paths \X Paths
  BY <1>1, LatestShape DEF Enter, Opened
<1>5. fds' \in [Fds -> OpenFile \cup {None}]
  BY CloseKeepsType DEF Enter
<1>6. spoiled' \in [Workers -> BOOLEAN]
  BY DEF Enter, Spoil
<1>7. UNCHANGED <<disk, contents, task, file, got, reply>> /\ pc' = [pc EXCEPT ![w] = "read"]
  BY DEF Enter, Goto
<1>8. QED
  BY <1>3, <1>4, <1>5, <1>6, <1>7 DEF TypeOK, task

LEMMA TypeRead ==
  ASSUME TypeOK, NEW w \in Workers, Placed(w), Read(w)
  PROVE  TypeOK'
<1>1. file[w] \in Fds
  BY DEF Placed, Read, HasFile
<1>2. fds[file[w]] \in OpenFile
  BY <1>1 DEF TypeOK, Read
<1>3. PICK o \in OpenFile : o = fds[file[w]]
  BY <1>2
<1>4. o.version \in 1..MaxVersion /\ o.offset + 1 \in 1..Length
  <2>1. o.offset # Length
    BY <1>3 DEF Read, ReadAll
  <2>2. QED
    BY <2>1, OpenFileShape, StaticAssumption
<1>5. fds' \in [Fds -> OpenFile \cup {None}]
  <2>1. PICK n \in 0..Length : n = o.offset + 1
    BY <1>4
  <2>2. fds' = [fds EXCEPT ![file[w]] = [o EXCEPT !.offset = n]]
    BY <1>3, <2>1 DEF Read
  <2>3. [o EXCEPT !.offset = n] \in OpenFile
    BY OpenFileShape
  <2>4. QED
    BY <2>2, <2>3 DEF TypeOK
<1>6. got' \in [Workers -> Chunks]
  <2>1. PICK c : c = <<o.version, o.offset + 1>>
    OBVIOUS
  <2>2. c \in (1..MaxVersion) \X (1..Length)
    BY <1>4, <2>1
  <2>3. got[w] \in Seq((1..MaxVersion) \X (1..Length))
    BY DEF TypeOK, Chunks
  <2>4. Append(got[w], c) \in Chunks
    BY <2>2, <2>3, AppendProperties DEF Chunks
  <2>5. got' = [got EXCEPT ![w] = Append(got[w], c)]
    BY <1>3, <2>1 DEF Read
  <2>6. QED
    BY <2>4, <2>5 DEF TypeOK
<1>7. UNCHANGED <<disk, caches, pc, task, file, reply, spoiled>>
  BY DEF Read
<1>8. QED
  BY <1>5, <1>6, <1>7 DEF TypeOK, caches, task

LEMMA TypeBuffered ==
  ASSUME TypeOK, NEW w \in Workers, Placed(w), Buffered(w)
  PROVE  TypeOK'
<1>1. /\ request[w] \in Kinds /\ Path(w) \in Paths
      /\ info[w] \in 1..disk[Path(w)]
  BY RequestShape DEF Placed, Buffered
<1>2. got[w] \in Chunks /\ (~spoiled[w]) \in BOOLEAN
  BY Negation DEF TypeOK
<1>3. /\ pc' = [pc EXCEPT ![w] = "done"]
      /\ DOMAIN reply' = Workers
      /\ \A v \in Workers : reply'[v] # None =>
           /\ reply'[v].status \in Statuses
           /\ reply'[v].chunks \in Chunks
           /\ reply'[v].pure \in BOOLEAN
  BY <1>1, <1>2, ReplyFromShape DEF Buffered
<1>4. UNCHANGED <<disk, descriptors, older, fds, task, file, got, spoiled>>
  BY DEF Buffered
<1>5. DOMAIN contents' = Paths
  BY DEF Buffered, TypeOK
<1>6. \A p \in Paths : contents'[p] # None =>
        /\ contents'[p].data \in Chunks
        /\ contents'[p].modTime \in 1..disk[p]
        /\ contents'[p].pure \in BOOLEAN
  <2>1. PICK g \in BOOLEAN : g = ~spoiled[w]
    BY <1>2
  <2>2. PICK c : c = [data |-> got[w], modTime |-> info[w], pure |-> g]
    OBVIOUS
  <2>3. c.data = got[w] /\ c.modTime = info[w]
    BY <2>2
  <2>4. c.pure = g
    BY <2>2
  <2>5. contents' = [contents EXCEPT ![Path(w)] = c]
    BY <2>1, <2>2 DEF Buffered
  <2>6. \A p \in Paths : contents'[p] = contents[p] \/ (p = Path(w) /\ contents'[p] = c)
    BY <2>5
  <2>7. QED
    BY <1>1, <1>2, <2>6, <2>3, <2>4, ContentShape
<1>7. QED
  BY <1>3, <1>4, <1>5, <1>6 DEF TypeOK, task

LEMMA TypeCopied ==
  ASSUME TypeOK, NEW w \in Workers, Copied(w)
  PROVE  TypeOK'
<1>1. UNCHANGED <<disk, caches, fds, task, file, got, spoiled>>
  BY DEF Copied
<1>2. /\ pc' = [pc EXCEPT ![w] = "done"]
      /\ DOMAIN reply' = Workers
      /\ \A v \in Workers : reply'[v] # None =>
           /\ reply'[v].status \in Statuses
           /\ reply'[v].chunks \in Chunks
           /\ reply'[v].pure \in BOOLEAN
  <2>1. got[w] \in Chunks /\ (~spoiled[w]) \in BOOLEAN
    BY Negation DEF TypeOK
  <2>2. QED
    BY <2>1, ReplyShape DEF Copied, Statuses
<1>3. QED
  BY <1>1, <1>2 DEF TypeOK, caches, task

LEMMA TypeReadFails ==
  ASSUME TypeOK, NEW w \in Workers, ReadFails(w)
  PROVE  TypeOK'
<1>1. CASE /\ UNCHANGED <<disk, caches, fds, task, file, got, spoiled>>
           /\ \/ Reply(w, "failed", <<>>, ~spoiled[w])
              \/ Reply(w, "sent", got[w], ~spoiled[w])
  <2>1. got[w] \in Chunks /\ (~spoiled[w]) \in BOOLEAN
    BY Negation DEF TypeOK
  <2>2. /\ pc' = [pc EXCEPT ![w] = "done"]
        /\ DOMAIN reply' = Workers
        /\ \A v \in Workers : reply'[v] # None =>
             /\ reply'[v].status \in Statuses
             /\ reply'[v].chunks \in Chunks
             /\ reply'[v].pure \in BOOLEAN
    BY <1>1, <2>1, EmptyChunks, ReplyShape DEF Statuses
  <2>3. QED
    BY <1>1, <2>2 DEF TypeOK, caches, task
<1>2. CASE /\ \E ps : Drop(ps)
           /\ file' = [file EXCEPT ![w] = None]
           /\ Goto(w, "stream")
           /\ UNCHANGED <<disk, contents, task, got, reply>>
  <2>1. PICK ps : Drop(ps)
    BY <1>2
  <2>2. QED
    BY <1>2, <2>1, DropKeepsType DEF Goto, TypeOK, task
<1>3. QED
  BY <1>1, <1>2 DEF ReadFails

LEMMA TypeDone ==
  ASSUME TypeOK, NEW w \in Workers, Done(w)
  PROVE  TypeOK'
<1>1. file' \in [Workers -> Fds \cup {None}] /\ fds' \in [Fds -> OpenFile \cup {None}]
  BY LetGoShape DEF Done
<1>2. got' \in [Workers -> Chunks]
  BY EmptyChunks DEF Done, TypeOK
<1>3. info' \in [Workers -> 0..MaxVersion]
  <2>1. 0 \in 0..MaxVersion
    BY StaticAssumption
  <2>2. QED
    BY <2>1 DEF Done, TypeOK
<1>4. UNCHANGED <<disk, caches>>
  BY DEF Done
<1>5. QED
  BY <1>1, <1>2, <1>3, <1>4 DEF Done, Goto, TypeOK, caches

LEMMA TypeReplace ==
  ASSUME TypeOK, NEW p \in Paths, Replace(p)
  PROVE  TypeOK'
<1>1. disk' \in [Paths -> 1..MaxVersion] /\ \A q \in Paths : disk'[q] >= disk[q]
  BY StaticAssumption DEF TypeOK, Replace
<1>2. \A q \in Paths : contents[q] # None => contents[q].modTime \in 1..disk'[q]
  <2>1. \A q \in Paths : disk'[q] \in Nat /\ disk[q] \in Nat
    BY <1>1, StaticAssumption DEF TypeOK
  <2>2. QED
    BY <1>1, <2>1, ContentShape
<1>3. UNCHANGED <<caches, fds, pc, task, file, got, reply, spoiled>>
  BY DEF Replace
<1>4. QED
  BY <1>1, <1>2, <1>3 DEF TypeOK, caches, task

LEMMA TypeForget ==
  ASSUME TypeOK, NEW p \in Paths, Forget(p)
  PROVE  TypeOK'
BY DEF Forget, TypeOK, task

LEMMA TypeCleanup ==
  ASSUME TypeOK, NEW ps, Cleanup(ps)
  PROVE  TypeOK'
<1>1. Drop(ps)
  BY DEF Cleanup
<1>2. QED
  BY <1>1, DropKeepsType DEF Cleanup, TypeOK, task

LEMMA TypeStep ==
  ASSUME TypeOK, \A w \in Workers : Placed(w), [Next]_vars
  PROVE  TypeOK'
<1>1. ASSUME NEW w \in Workers, ServeFile(w) PROVE TypeOK'
  <2>1. Placed(w)
    OBVIOUS
  <2>2. CASE FdSet(w)
    BY <2>1, <2>2, TypeEnter DEF FdSet
  <2>3. CASE ~FdSet(w)
    BY <1>1, <2>1, <2>3, TypeStat, TypeMemory, TypeFdGet, TypeFdCheck, TypeSeek, TypeSeekFails,
       TypeOpen, TypeOpenFails, TypeRead, TypeBuffered, TypeCopied, TypeReadFails, TypeDone
       DEF ServeFile
  <2>4. QED
    BY <2>2, <2>3
<1>2. CASE UNCHANGED vars
  BY <1>2 DEF vars, caches, task, TypeOK
<1>3. QED
  BY <1>1, <1>2, TypeReplace, TypeForget, TypeCleanup DEF Next

-----------------------------------------------------------------------------
(* What a step of one goroutine leaves alone.                              *)

Same(v) ==
  /\ pc'[v] = pc[v] /\ request'[v] = request[v] /\ info'[v] = info[v]
  /\ file'[v] = file[v] /\ got'[v] = got[v] /\ reply'[v] = reply[v]
  /\ spoiled[v] => spoiled'[v]

LEMMA ReplyTouches ==
  ASSUME TypeOK, NEW w \in Workers, NEW status, NEW chunks, NEW pure,
         Reply(w, status, chunks, pure), NEW v \in Workers \ {w}
  PROVE  pc'[v] = pc[v] /\ reply'[v] = reply[v]
BY DEF Reply, Goto, TypeOK

LEMMA ReplyFromTouches ==
  ASSUME TypeOK, NEW w \in Workers, NEW content, NEW pure,
         ReplyFrom(w, content, pure), NEW v \in Workers \ {w}
  PROVE  pc'[v] = pc[v] /\ reply'[v] = reply[v]
<1>1. PICK status, chunks : Reply(w, status, chunks, pure)
  BY DEF ReplyFrom
<1>2. QED
  BY <1>1, ReplyTouches

LEMMA StatLocal ==
  ASSUME TypeOK, NEW w \in Workers, Stat(w), NEW v \in Workers \ {w}
  PROVE  Same(v) /\ disk' = disk
BY DEF Stat, Goto, TypeOK, Same

LEMMA MemoryLocal ==
  ASSUME TypeOK, NEW w \in Workers, MemoryHit(w) \/ MemoryMiss(w), NEW v \in Workers \ {w}
  PROVE  Same(v) /\ disk' = disk
<1>1. UNCHANGED <<disk, task, file, got, spoiled>>
  BY DEF MemoryHit, MemoryMiss
<1>2. pc'[v] = pc[v] /\ reply'[v] = reply[v]
  BY ReplyFromTouches DEF MemoryHit, MemoryMiss, Goto, TypeOK
<1>3. QED
  BY <1>1, <1>2 DEF Same, task

LEMMA FdLocal ==
  ASSUME TypeOK, NEW w \in Workers, FdGet(w) \/ FdCheck(w), NEW v \in Workers \ {w}
  PROVE  Same(v) /\ disk' = disk
<1>1. UNCHANGED <<disk, task, got, reply>>
  BY DEF FdGet, FdCheck
<1>2. pc'[v] = pc[v] /\ file'[v] = file[v]
  BY DEF FdGet, FdCheck, LetGo, Goto, TypeOK
<1>3. spoiled[v] => spoiled'[v]
  BY DEF FdGet, FdCheck, Spoil
<1>4. QED
  BY <1>1, <1>2, <1>3 DEF Same, task

LEMMA SeekLocal ==
  ASSUME TypeOK, NEW w \in Workers, Seek(w) \/ SeekFails(w), NEW v \in Workers \ {w}
  PROVE  Same(v) /\ disk' = disk
<1>1. UNCHANGED <<disk, task, got, reply>>
  BY DEF Seek, SeekFails
<1>2. pc'[v] = pc[v] /\ file'[v] = file[v]
  BY DEF Seek, SeekFails, Goto, TypeOK
<1>3. spoiled[v] => spoiled'[v]
  BY DEF Seek, SeekFails, Drop, Spoil
<1>4. QED
  BY <1>1, <1>2, <1>3 DEF Same, task

LEMMA OpenLocal ==
  ASSUME TypeOK, NEW w \in Workers, Open(w) \/ OpenFails(w), NEW v \in Workers \ {w}
  PROVE  Same(v) /\ disk' = disk
<1>1. UNCHANGED <<disk, task, got, spoiled>>
  BY DEF Open, OpenFails
<1>2. CASE Open(w)
  BY <1>1, <1>2 DEF Open, Goto, TypeOK, Same, task
<1>3. CASE OpenFails(w)
  BY <1>1, <1>3, ReplyTouches DEF OpenFails, Same, task
<1>4. QED
  BY <1>2, <1>3

LEMMA EnterLocal ==
  ASSUME TypeOK, NEW w \in Workers, NEW ps, Enter(w, ps), NEW v \in Workers \ {w}
  PROVE  Same(v) /\ disk' = disk
BY DEF Enter, Spoil, Goto, TypeOK, Same, task

LEMMA ReadLocal ==
  ASSUME TypeOK, NEW w \in Workers, Read(w) \/ Buffered(w) \/ Copied(w) \/ ReadFails(w),
         NEW v \in Workers \ {w}
  PROVE  Same(v) /\ disk' = disk
<1>1. CASE Read(w)
  BY <1>1 DEF Read, TypeOK, Same, task
<1>2. CASE Buffered(w) \/ Copied(w)
  <2>1. UNCHANGED <<disk, task, file, got, spoiled>>
    BY <1>2 DEF Buffered, Copied
  <2>2. pc'[v] = pc[v] /\ reply'[v] = reply[v]
    BY <1>2, ReplyFromTouches, ReplyTouches DEF Buffered, Copied
  <2>3. QED
    BY <2>1, <2>2 DEF Same, task
<1>3. CASE ReadFails(w)
  <2>1. UNCHANGED <<disk, task, got>>
    BY <1>3 DEF ReadFails
  <2>2. pc'[v] = pc[v] /\ reply'[v] = reply[v] /\ file'[v] = file[v]
    BY <1>3, ReplyTouches DEF ReadFails, Goto, TypeOK
  <2>3. spoiled[v] => spoiled'[v]
    BY <1>3 DEF ReadFails, Drop, Spoil
  <2>4. QED
    BY <2>1, <2>2, <2>3 DEF Same, task
<1>4. QED
  BY <1>1, <1>2, <1>3

LEMMA DoneLocal ==
  ASSUME TypeOK, NEW w \in Workers, Done(w), NEW v \in Workers \ {w}
  PROVE  Same(v) /\ disk' = disk
BY DEF Done, LetGo, Goto, TypeOK, Same

\* A goroutine does nothing to another one but spoil what it reads.
LEMMA Locality ==
  ASSUME TypeOK, NEW w \in Workers, ServeFile(w), NEW v \in Workers \ {w}
  PROVE  Same(v) /\ disk' = disk
<1>1. CASE FdSet(w)
  BY <1>1, EnterLocal DEF FdSet
<1>2. CASE ~FdSet(w)
  BY <1>2, StatLocal, MemoryLocal, FdLocal, SeekLocal, OpenLocal, ReadLocal, DoneLocal
     DEF ServeFile
<1>3. QED
  BY <1>1, <1>2

LEMMA DiskStays ==
  ASSUME NEW w \in Workers, ServeFile(w)
  PROVE  disk' = disk
<1>1. CASE FdSet(w)
  BY <1>1 DEF FdSet, Enter
<1>2. CASE ~FdSet(w)
  BY <1>2 DEF ServeFile, Stat, MemoryHit, MemoryMiss, FdGet, FdCheck, Seek, SeekFails, Open,
     OpenFails, Read, Buffered, Copied, ReadFails, Done
<1>3. QED
  BY <1>1, <1>2

LEMMA BesidesLocal ==
  ASSUME TypeOK, NEW v \in Workers,
         \/ \E p \in Paths : Replace(p) \/ Forget(p)
         \/ \E ps \in SUBSET Opened : Cleanup(ps)
         \/ UNCHANGED vars
  PROVE  Same(v)
BY DEF Replace, Forget, Cleanup, Drop, Spoil, Same, vars, task

LEMMA DiskGrows ==
  ASSUME TypeOK, [Next]_vars, NEW p \in Paths
  PROVE  disk[p] \in 1..MaxVersion /\ disk'[p] \in 1..MaxVersion /\ disk[p] <= disk'[p]
<1>1. disk[p] \in 1..MaxVersion /\ MaxVersion \in Nat
  BY StaticAssumption DEF TypeOK
<1>2. CASE \E w \in Workers : ServeFile(w)
  BY <1>1, <1>2, DiskStays
<1>3. CASE \E q \in Paths : Replace(q)
  BY <1>1, <1>3 DEF Replace, TypeOK
<1>4. CASE UNCHANGED disk
  BY <1>1, <1>4
<1>5. QED
  BY <1>2, <1>3, <1>4 DEF Next, Forget, Cleanup, vars

-----------------------------------------------------------------------------
(* What becomes of an open file, of those who use it, and of the cache.    *)

\* It stays open, at the version it was opened at.
OpenKept(f) ==
  fds[f] # None /\ fds'[f] # None /\ fds'[f].version = fds[f].version

FileKept(v) ==
  /\ pc[v] = "put" => fds'[file[v]] = fds[file[v]]
  /\ file[v] \in Fds /\ fds'[file[v]] # None => OpenKept(file[v])
  /\ pc[v] = "read" => fds'[file[v]] = fds[file[v]] \/ spoiled'[v]

CacheKept ==
  \A p \in Paths :
    descriptors'[p] # None =>
      p \in Opened /\ descriptors'[p] = descriptors[p] /\ OpenKept(descriptors[p].file)

LEMMA CachedIsOpen ==
  ASSUME Sound, NEW p \in Opened
  PROVE  /\ p \in Paths /\ descriptors[p].file \in Fds /\ descriptors[p].file \in CachedFds
         /\ fds[descriptors[p].file] # None
BY DescriptorShape DEF Sound, DescriptorsSound, CachedFds

\* Closing files does no more to a goroutine than to spoil what it reads, and
\* to the cache than to leave it files that are open.
LEMMA CloseKeeps ==
  ASSUME Sound, NEW v \in Workers, NEW F, Close(F),
         pc[v] = "put" => file[v] \notin F,
         pc[v] = "read" /\ file[v] \in F => spoiled'[v]
  PROVE  FileKept(v)
<1>1. \A f \in Fds : fds'[f] = IF f \in F THEN None ELSE fds[f]
  BY DEF Close
<1>2. pc[v] \in {"put", "read"} => file[v] \in Fds
  BY DEF Sound, Placed, HasFile
<1>3. QED
  BY <1>1, <1>2 DEF FileKept, OpenKept

LEMMA CloseKeepsCache ==
  ASSUME Sound, NEW F, Close(F), UNCHANGED descriptors, F \cap CachedFds = {}
  PROVE  CacheKept
<1>1. \A f \in Fds : fds'[f] = IF f \in F THEN None ELSE fds[f]
  BY DEF Close
<1>2. ASSUME NEW p \in Opened PROVE OpenKept(descriptors[p].file)
  <2>1. /\ descriptors[p].file \in Fds /\ descriptors[p].file \in CachedFds
        /\ fds[descriptors[p].file] # None
    BY CachedIsOpen
  <2>2. QED
    BY <1>1, <2>1 DEF OpenKept
<1>3. QED
  BY <1>2 DEF CacheKept, Opened

LEMMA LetGoKeeps ==
  ASSUME Sound, NEW w \in Workers, LetGo(w)
  PROVE  /\ \A v \in Workers \ {w} : FileKept(v)
         /\ UNCHANGED descriptors => CacheKept
<1> DEFINE F == {file[w]} \ (CachedFds \cup FdsOf(Workers \ {w}))
<1>1. Close(F) /\ F \cap CachedFds = {}
  BY DEF LetGo
<1>2. \A v \in Workers \ {w} : file[v] \notin F
  BY DEF FdsOf
<1> HIDE DEF F
<1>3. QED
  BY <1>1, <1>2, CloseKeeps, CloseKeepsCache

LEMMA SameFilesKeep ==
  ASSUME Sound, UNCHANGED fds
  PROVE  /\ \A v \in Workers : FileKept(v)
         /\ UNCHANGED descriptors => CacheKept
<1>1. \A v \in Workers : FileKept(v)
  BY DEF FileKept, OpenKept
<1>2. \A p \in Opened : OpenKept(descriptors[p].file)
  BY CachedIsOpen DEF OpenKept
<1>3. QED
  BY <1>1, <1>2 DEF CacheKept, Opened

LEMMA DropKeeps ==
  ASSUME Sound, NEW ps \in SUBSET Opened, Drop(ps)
  PROVE  /\ \A v \in Workers : FileKept(v)
         /\ CacheKept
<1> DEFINE F == {descriptors[p].file : p \in ps}
<1>1. Close(F)
  BY DEF Drop
<1>2. F \subseteq CachedFds
  BY DEF CachedFds
<1>3. \A v \in Workers : pc[v] = "read" /\ file[v] \in F => spoiled'[v]
  <2>1. Spoil(UNION {Readers(f) : f \in F})
    BY DEF Drop
  <2>2. ASSUME NEW v \in Workers, pc[v] = "read", file[v] \in F
        PROVE  spoiled'[v]
    <3>1. v \in Readers(file[v])
      BY <2>2 DEF Readers
    <3>2. v \in UNION {Readers(f) : f \in F}
      BY <2>2, <3>1
    <3>3. QED
      BY <2>1, <3>2 DEF Spoil
  <2>3. QED
    BY <2>2
<1>4. \A p \in Opened \ ps : descriptors[p].file \notin F
  BY DEF Sound, DescriptorsSound
<1> HIDE DEF F
<1>5. ASSUME NEW v \in Workers PROVE FileKept(v)
  <2>1. pc[v] = "put" => file[v] \notin F
    BY <1>2 DEF Sound, Placed, Private
  <2>2. QED
    BY <1>1, <1>3, <2>1, CloseKeeps
<1>6. CacheKept
  <2>1. SUFFICES ASSUME NEW p \in Paths, descriptors'[p] # None
                 PROVE  /\ p \in Opened /\ descriptors'[p] = descriptors[p]
                        /\ OpenKept(descriptors[p].file)
    BY DEF CacheKept
  <2>2. p \notin ps /\ descriptors'[p] = descriptors[p]
    BY <2>1 DEF Drop
  <2>3. p \in Opened
    BY <2>1, <2>2 DEF Opened
  <2>4. fds'[descriptors[p].file] = fds[descriptors[p].file]
    BY <1>1, <1>4, <2>2, <2>3, CachedIsOpen DEF Close
  <2>5. QED
    BY <2>2, <2>3, <2>4, CachedIsOpen DEF OpenKept
<1>7. QED
  BY <1>5, <1>6

\* Moving the offset of the file of w.
LEMMA OffsetKeeps ==
  ASSUME Sound, NEW w \in Workers, NEW n \in 0..Length,
         file[w] \in Fds, fds[file[w]] # None,
         fds' = [fds EXCEPT ![file[w]].offset = n],
         \A v \in Workers \ {w} : pc[v] = "read" /\ file[v] = file[w] => spoiled'[v]
  PROVE  /\ \A v \in Workers \ {w} : FileKept(v)
         /\ UNCHANGED descriptors => CacheKept
         /\ fds'[file[w]] # None
         /\ fds'[file[w]].version = fds[file[w]].version
         /\ fds'[file[w]].offset = n
<1>1. PICK o \in OpenFile : o = fds[file[w]]
  BY DEF Sound, TypeOK
<1>2. PICK o2 \in OpenFile : o2 = [o EXCEPT !.offset = n] /\ o2.version = o.version /\ o2.offset = n
  BY OpenFileShape
<1>3. fds' = [fds EXCEPT ![file[w]] = o2]
  BY <1>1, <1>2
<1>4. /\ fds'[file[w]] = o2
      /\ \A f \in Fds \ {file[w]} : fds'[f] = fds[f]
  BY <1>3 DEF Sound, TypeOK
<1>5. OpenKept(file[w])
  BY <1>1, <1>2, <1>4, OpenFileShape DEF OpenKept
<1>6. ASSUME NEW v \in Workers \ {w} PROVE FileKept(v)
  <2>1. pc[v] = "put" => file[v] # file[w]
    BY DEF Sound, Placed, Private
  <2>2. pc[v] \in {"put", "read"} => file[v] \in Fds
    BY DEF Sound, Placed, HasFile
  <2>3. QED
    BY <1>4, <1>5, <2>1, <2>2 DEF FileKept, OpenKept
<1>7. \A p \in Opened : OpenKept(descriptors[p].file)
  BY <1>4, <1>5, CachedIsOpen DEF OpenKept
<1>8. QED
  BY <1>1, <1>2, <1>4, <1>5, <1>6, <1>7 DEF CacheKept, Opened, OpenKept

LEMMA SeekKeeps ==
  ASSUME Sound, NEW w \in Workers, Seek(w)
  PROVE  /\ \A v \in Workers \ {w} : FileKept(v)
         /\ CacheKept
         /\ fds'[file[w]] # None
         /\ fds'[file[w]].version = fds[file[w]].version
         /\ fds'[file[w]].offset = Start(w)
<1>1. request[w] \in Kinds /\ file[w] \in Fds
  BY DEF Sound, Placed, Seek, HasFile
<1>2. PICK n \in 0..Length : n = Start(w)
  BY <1>1, RequestShape, StaticAssumption
<1>3. fds[file[w]] # None /\ fds' = [fds EXCEPT ![file[w]].offset = n]
  BY <1>2 DEF Seek
<1>4. \A v \in Workers \ {w} : pc[v] = "read" /\ file[v] = file[w] => spoiled'[v]
  BY DEF Seek, Spoil, Readers
<1>5. UNCHANGED descriptors
  BY DEF Seek, caches
<1>6. QED
  BY <1>1, <1>2, <1>3, <1>4, <1>5, OffsetKeeps

LEMMA ReadKeeps ==
  ASSUME Sound, NEW w \in Workers, Read(w)
  PROVE  /\ \A v \in Workers \ {w} : FileKept(v)
         /\ CacheKept
         /\ fds'[file[w]] # None
         /\ fds'[file[w]].version = fds[file[w]].version
         /\ fds'[file[w]].offset = fds[file[w]].offset + 1
<1>1. file[w] \in Fds /\ fds[file[w]] # None /\ pc[w] = "read"
  BY DEF Sound, Placed, Read, HasFile
<1>2. PICK o \in OpenFile : o = fds[file[w]]
  BY <1>1 DEF Sound, TypeOK
<1>3. PICK n \in 0..Length : n = o.offset + 1
  <2>1. o.offset # Length
    BY <1>2 DEF Read, ReadAll
  <2>2. QED
    BY <2>1, OpenFileShape, StaticAssumption
<1>4. fds' = [fds EXCEPT ![file[w]].offset = n]
  BY <1>2, <1>3 DEF Read
<1>5. \A v \in Workers \ {w} : pc[v] = "read" /\ file[v] = file[w] => spoiled'[v]
  BY <1>1 DEF Sound, SharedSpoils, Read
<1>6. UNCHANGED descriptors
  BY DEF Read, caches
<1>7. QED
  BY <1>1, <1>2, <1>3, <1>4, <1>5, <1>6, OffsetKeeps

LEMMA OpenKeeps ==
  ASSUME Sound, NEW w \in Workers, Open(w)
  PROVE  /\ \A v \in Workers \ {w} : FileKept(v)
         /\ CacheKept
         /\ file'[w] \in FreeFds
         /\ fds'[file'[w]] = [version |-> disk[Path(w)], offset |-> Start(w)]
<1>1. PICK f \in FreeFds :
        /\ fds' = [fds EXCEPT ![f] = [version |-> disk[Path(w)], offset |-> Start(w)]]
        /\ file' = [file EXCEPT ![w] = f]
  BY DEF Open
<1>2. f \in Fds /\ f \notin CachedFds /\ \A v \in Workers : file[v] # f
  BY DEF FreeFds, FdsOf
<1>3. /\ \A g \in Fds \ {f} : fds'[g] = fds[g]
      /\ fds'[f] = [version |-> disk[Path(w)], offset |-> Start(w)]
      /\ file'[w] = f
  BY <1>1, <1>2 DEF Sound, TypeOK
<1>4. ASSUME NEW v \in Workers \ {w} PROVE FileKept(v)
  <2>1. pc[v] \in {"put", "read"} => file[v] \in Fds
    BY DEF Sound, Placed, HasFile
  <2>2. QED
    BY <1>2, <1>3, <2>1 DEF FileKept, OpenKept
<1>5. \A p \in Opened : OpenKept(descriptors[p].file)
  BY <1>2, <1>3, CachedIsOpen DEF OpenKept
<1>6. UNCHANGED descriptors
  BY DEF Open, caches
<1>7. QED
  BY <1>3, <1>4, <1>5, <1>6 DEF CacheKept, Opened

\* FDCache.Set: the file of w enters the cache, and stays as it is.
LEMMA EnterKeeps ==
  ASSUME Sound, NEW w \in Workers, pc[w] = "put", NEW ps \in SUBSET Opened, Enter(w, ps)
  PROVE  /\ \A v \in Workers \ {w} : FileKept(v)
         /\ \A p \in Paths \ {Path(w)} : descriptors'[p] # None =>
              /\ p \in Opened \ ps
              /\ descriptors'[p] = descriptors[p]
              /\ OpenKept(descriptors[p].file)
         /\ descriptors'[Path(w)] = [file |-> file[w], modTime |-> info[w]]
         /\ fds'[file[w]] = fds[file[w]]
<1> DEFINE evicted == {descriptors[p].file : p \in ps}
           old == {descriptors[p].file : p \in (Opened \ ps) \cap {Path(w)}}
           F == evicted \cup (old \ FdsOf(Workers))
<1>1. Close(F) /\ Spoil(UNION {Readers(f) : f \in evicted})
  BY DEF Enter
<1>2. evicted \subseteq CachedFds /\ old \subseteq CachedFds
  BY DEF CachedFds
<1>3. file[w] \in Fds /\ file[w] \notin CachedFds /\ Path(w) \in Paths
  BY RequestShape DEF Sound, Placed, Private, HasFile
<1>4. \A f \in old \ FdsOf(Workers), v \in Workers : file[v] # f
  BY DEF FdsOf
<1>5. \A p \in Opened \ (ps \cup {Path(w)}) : descriptors[p].file \notin F
  <2>1. SUFFICES ASSUME NEW p \in Opened, p \notin ps, p # Path(w)
                 PROVE  descriptors[p].file \notin F
    OBVIOUS
  <2>2. \A q \in Opened : descriptors[q].file = descriptors[p].file => q = p
    BY DEF Sound, DescriptorsSound
  <2>3. QED
    BY <2>1, <2>2
<1>6. descriptors' = [p \in Paths |->
                        IF p = Path(w) THEN [file |-> file[w], modTime |-> info[w]]
                        ELSE IF p \in ps THEN None ELSE descriptors[p]]
  BY DEF Enter
<1>7. file[w] \notin F
  BY <1>2, <1>3
<1>8. ASSUME NEW v \in Workers, pc[v] = "read", file[v] \in F
      PROVE  spoiled'[v]
  <2>1. file[v] \in evicted
    BY <1>4, <1>8
  <2>2. v \in Readers(file[v])
    BY <1>8 DEF Readers
  <2>3. v \in UNION {Readers(f) : f \in evicted}
    BY <2>1, <2>2
  <2>4. QED
    BY <1>1, <2>3 DEF Spoil
<1>9. F \subseteq CachedFds
  BY <1>2
<1> HIDE DEF F
<1>10. ASSUME NEW v \in Workers \ {w} PROVE FileKept(v)
  <2>1. pc[v] = "put" => file[v] \notin F
    BY <1>9 DEF Sound, Placed, Private
  <2>2. QED
    BY <1>1, <1>8, <2>1, CloseKeeps
<1>11. ASSUME NEW p \in Paths \ {Path(w)}, descriptors'[p] # None
       PROVE  /\ p \in Opened \ ps
              /\ descriptors'[p] = descriptors[p]
              /\ OpenKept(descriptors[p].file)
  <2>1. p \in Opened \ ps /\ descriptors'[p] = descriptors[p]
    BY <1>6, <1>11 DEF Opened
  <2>2. fds'[descriptors[p].file] = fds[descriptors[p].file]
    BY <1>1, <1>5, <2>1, CachedIsOpen DEF Close
  <2>3. QED
    BY <2>1, <2>2, CachedIsOpen DEF OpenKept
<1>12. descriptors'[Path(w)] = [file |-> file[w], modTime |-> info[w]]
  BY <1>3, <1>6
<1>13. fds'[file[w]] = fds[file[w]]
  BY <1>1, <1>3, <1>7 DEF Close
<1>14. QED
  BY <1>10, <1>11, <1>12, <1>13

\* No other goroutine's file is touched, but if that goroutine is spoiled.
LEMMA OthersFilesKept ==
  ASSUME Sound, NEW w \in Workers, ServeFile(w), NEW v \in Workers \ {w}
  PROVE  FileKept(v)
<1>1. CASE Seek(w) \/ Read(w) \/ Open(w)
  BY <1>1, SeekKeeps, ReadKeeps, OpenKeeps
<1>2. CASE SeekFails(w)
  <2>1. Drop({Path(w)} \cap Opened)
    BY <1>2 DEF SeekFails
  <2>2. QED
    BY <2>1, DropKeeps
<1>3. CASE FdSet(w)
  <2>1. PICK ps \in SUBSET Opened : Enter(w, ps)
    BY <1>3 DEF FdSet
  <2>2. QED
    BY <1>3, <2>1, EnterKeeps DEF FdSet
<1>4. CASE FdCheck(w)
  <2>1. LetGo(w) \/ UNCHANGED fds
    BY <1>4 DEF FdCheck
  <2>2. QED
    BY <2>1, LetGoKeeps, SameFilesKeep
<1>5. CASE ReadFails(w)
  <2>1. UNCHANGED fds \/ Drop({Path(w)} \cap Opened)
    BY <1>5 DEF ReadFails
  <2>2. QED
    BY <2>1, DropKeeps, SameFilesKeep
<1>6. CASE Done(w)
  BY <1>6, LetGoKeeps DEF Done
<1>7. CASE /\ ~Seek(w) /\ ~Read(w) /\ ~Open(w) /\ ~SeekFails(w) /\ ~FdSet(w)
           /\ ~FdCheck(w) /\ ~ReadFails(w) /\ ~Done(w)
  <2>1. UNCHANGED fds
    BY <1>7 DEF ServeFile, Stat, MemoryHit, MemoryMiss, FdGet, OpenFails, Buffered, Copied
  <2>2. QED
    BY <2>1, SameFilesKeep
<1>8. QED
  BY <1>1, <1>2, <1>3, <1>4, <1>5, <1>6, <1>7

\* Only FDCache.Set puts a file into the cache.
LEMMA CacheStays ==
  ASSUME Sound, NEW w \in Workers, ServeFile(w), ~FdSet(w)
  PROVE  CacheKept
<1>1. CASE Seek(w) \/ Read(w) \/ Open(w)
  BY <1>1, SeekKeeps, ReadKeeps, OpenKeeps
<1>2. CASE SeekFails(w)
  <2>1. Drop({Path(w)} \cap Opened)
    BY <1>2 DEF SeekFails
  <2>2. QED
    BY <2>1, DropKeeps
<1>3. CASE FdCheck(w)
  <2>1. (LetGo(w) \/ UNCHANGED fds) /\ UNCHANGED descriptors
    BY <1>3 DEF FdCheck
  <2>2. QED
    BY <2>1, LetGoKeeps, SameFilesKeep
<1>4. CASE ReadFails(w)
  <2>1. (UNCHANGED fds /\ UNCHANGED descriptors) \/ Drop({Path(w)} \cap Opened)
    BY <1>4 DEF ReadFails, caches
  <2>2. QED
    BY <2>1, DropKeeps, SameFilesKeep
<1>5. CASE Done(w)
  BY <1>5, LetGoKeeps DEF Done, caches
<1>6. CASE /\ ~Seek(w) /\ ~Read(w) /\ ~Open(w) /\ ~SeekFails(w)
           /\ ~FdCheck(w) /\ ~ReadFails(w) /\ ~Done(w)
  <2>1. UNCHANGED fds /\ UNCHANGED descriptors
    BY <1>6 DEF ServeFile, Stat, MemoryHit, MemoryMiss, FdGet, OpenFails, Buffered, Copied, caches
  <2>2. QED
    BY <2>1, SameFilesKeep
<1>7. QED
  BY <1>1, <1>2, <1>3, <1>4, <1>5, <1>6

\* The rest of Next: the expiry of descriptors is the only one that closes any.
LEMMA BesidesKeeps ==
  ASSUME Sound,
         \/ \E p \in Paths : Replace(p) \/ Forget(p)
         \/ \E ps \in SUBSET Opened : Cleanup(ps)
         \/ UNCHANGED vars
  PROVE  CacheKept /\ \A v \in Workers : FileKept(v)
<1>1. CASE \E ps \in SUBSET Opened : Cleanup(ps)
  BY <1>1, DropKeeps DEF Cleanup
<1>2. CASE UNCHANGED fds /\ UNCHANGED descriptors
  BY <1>2, SameFilesKeep
<1>3. QED
  BY <1>1, <1>2 DEF Replace, Forget, vars, caches

\* A step makes a goroutine's file its own, one of the cache, a new one or none.
LEMMA ActorFile ==
  ASSUME TypeOK, NEW w \in Workers, ServeFile(w), Placed(w)
  PROVE  file'[w] \in {file[w], None} \cup CachedFds \cup FreeFds
<1>1. CASE FdGet(w)
  <2>1. Path(w) \in Paths
    BY <1>1, RequestShape DEF Placed, FdGet
  <2>2. file'[w] = file[w] \/ (descriptors[Path(w)] # None /\ file'[w] = descriptors[Path(w)].file)
    BY <1>1 DEF FdGet, TypeOK
  <2>3. QED
    BY <2>1, <2>2 DEF CachedFds, Opened
<1>2. CASE FdCheck(w) \/ Done(w)
  <2>1. file' = [file EXCEPT ![w] = None] \/ file' = file
    BY <1>2 DEF FdCheck, Done, LetGo
  <2>2. QED
    BY <2>1 DEF TypeOK
<1>3. CASE SeekFails(w) \/ ReadFails(w)
  <2>1. file' = [file EXCEPT ![w] = None] \/ file' = file
    BY <1>3 DEF SeekFails, ReadFails
  <2>2. QED
    BY <2>1 DEF TypeOK
<1>4. CASE Open(w)
  <2>1. PICK f \in FreeFds : file' = [file EXCEPT ![w] = f]
    BY <1>4 DEF Open
  <2>2. QED
    BY <2>1 DEF TypeOK
<1>5. CASE FdSet(w)
  BY <1>5 DEF FdSet, Enter
<1>6. CASE ~FdGet(w) /\ ~FdCheck(w) /\ ~Done(w) /\ ~SeekFails(w) /\ ~ReadFails(w) /\ ~Open(w)
           /\ ~FdSet(w)
  BY <1>6 DEF ServeFile, Stat, MemoryHit, MemoryMiss, Seek, OpenFails, Read, Buffered, Copied
<1>7. QED
  BY <1>1, <1>2, <1>3, <1>4, <1>5, <1>6

-----------------------------------------------------------------------------
(* The cache of descriptors: its size, its order and its files.            *)

TotalOn(order, S) ==
  /\ order \subseteq S \X S
  /\ \A p, q \in S : (<<p, q>> \in order) # (p = q \/ <<q, p>> \in order)
  /\ \A p, q, r \in S : <<p, q>> \in order /\ <<q, r>> \in order => <<p, r>> \in order

LEMMA AmongOrders ==
  ASSUME NEW T, TotalOn(older, T), NEW S \in SUBSET T
  PROVE  TotalOn(Among(S), S)
<1>1. \A p, q \in S : <<p, q>> \in Among(S) <=> <<p, q>> \in older
  BY DEF Among
<1>2. Among(S) \subseteq S \X S
  BY DEF Among
<1>3. QED
  BY <1>1, <1>2 DEF TotalOn

\* What has been accessed last is above all the others.
LEMMA LatestOrders ==
  ASSUME NEW T, TotalOn(older, T), NEW S, NEW p \in S, S \ {p} \subseteq T
  PROVE  TotalOn(Latest(p, S), S)
<1>1. \A q, r \in S : <<q, r>> \in Latest(p, S) <=>
        q # p /\ (r = p \/ <<q, r>> \in older)
  BY DEF Latest, Among
<1>2. Latest(p, S) \subseteq S \X S
  BY DEF Latest, Among
<1>3. \A q, r \in S : (<<q, r>> \in Latest(p, S)) # (q = r \/ <<r, q>> \in Latest(p, S))
  <2>1. SUFFICES ASSUME NEW q \in S, NEW r \in S
                 PROVE  <<q, r>> \in Latest(p, S) <=> ~(q = r \/ <<r, q>> \in Latest(p, S))
    OBVIOUS
  <2>2. CASE q = p
    BY <1>1, <2>2
  <2>3. CASE q # p /\ r = p
    BY <1>1, <2>3
  <2>4. CASE q # p /\ r # p
    <3>1. <<q, r>> \in older <=> ~(q = r \/ <<r, q>> \in older)
      BY <2>4 DEF TotalOn
    <3>2. QED
      BY <1>1, <2>4, <3>1
  <2>5. QED
    BY <2>2, <2>3, <2>4
<1>4. \A q, r, s \in S :
        <<q, r>> \in Latest(p, S) /\ <<r, s>> \in Latest(p, S) => <<q, s>> \in Latest(p, S)
  <2>1. \A q, r, s \in S \ {p} : <<q, r>> \in older /\ <<r, s>> \in older => <<q, s>> \in older
    BY DEF TotalOn
  <2>2. QED
    BY <1>1, <2>1
<1>5. QED
  BY <1>2, <1>3, <1>4 DEF TotalOn

LEMMA OrderOfSound ==
  ASSUME Sound
  PROVE  TotalOn(older, Opened)
BY DEF Sound, DescriptorsSound, TotalOn

\* The cache is sound if its size and its order are, and its files were kept.
LEMMA CacheKeptSound ==
  ASSUME Sound, CacheKept, TotalOn(older', Opened')
  PROVE  DescriptorsSound' /\ IsFiniteSet(Opened')
<1>1. Opened' \subseteq Opened /\ \A p \in Opened' : descriptors'[p] = descriptors[p]
  BY DEF CacheKept, Opened
<1>2. IsFiniteSet(Opened') /\ Cardinality(Opened') <= Cardinality(Opened)
  BY <1>1, FS_Subset DEF Sound
<1>3. Cardinality(Opened') <= MaxFDs
  <2>1. Cardinality(Opened') \in Nat /\ Cardinality(Opened) \in Nat
    BY <1>2, FS_CardinalityType DEF Sound
  <2>2. QED
    BY <1>2, <2>1, StaticAssumption DEF Sound, DescriptorsSound
<1>4. \A p \in Opened' : fds'[descriptors'[p].file] # None
  BY DEF CacheKept, OpenKept, Opened
<1>5. \A p, q \in Opened' : descriptors'[p].file = descriptors'[q].file => p = q
  BY <1>1 DEF Sound, DescriptorsSound
<1>6. QED
  BY <1>2, <1>3, <1>4, <1>5 DEF DescriptorsSound, TotalOn

LEMMA DropSound ==
  ASSUME Sound, NEW ps \in SUBSET Opened, Drop(ps)
  PROVE  DescriptorsSound' /\ IsFiniteSet(Opened')
<1>1. CacheKept
  BY DropKeeps
<1>2. Opened' = Opened \ ps
  BY DEF Drop, Opened
<1>3. older' = Among(Opened \ ps)
  BY DEF Drop
<1>4. TotalOn(Among(Opened \ ps), Opened \ ps)
  BY AmongOrders, OrderOfSound
<1>5. QED
  BY <1>1, <1>2, <1>3, <1>4, CacheKeptSound

\* With one path more there is one descriptor more at most.
LEMMA OneMore ==
  ASSUME NEW S, IsFiniteSet(S), NEW p
  PROVE  /\ IsFiniteSet(S \cup {p})
         /\ Cardinality(S \cup {p}) <= Cardinality(S) + 1
         /\ Cardinality(S) \in Nat /\ Cardinality(S \cup {p}) \in Nat
<1>1. IsFiniteSet(S \cup {p}) /\ Cardinality(S \cup {p}) = IF p \in S THEN Cardinality(S)
                                                          ELSE Cardinality(S) + 1
  BY FS_AddElement
<1>2. Cardinality(S) \in Nat
  BY FS_CardinalityType
<1>3. QED
  BY <1>1, <1>2

LEMMA EnterSound ==
  ASSUME Sound, NEW w \in Workers, pc[w] = "put", NEW ps \in SUBSET Opened, Enter(w, ps),
         \/ ps = {} /\ Cardinality(Opened) < MaxFDs
         \/ \E p \in Opened : ps = {p}
  PROVE  DescriptorsSound' /\ IsFiniteSet(Opened')
<1>1. /\ \A p \in Paths \ {Path(w)} : descriptors'[p] # None =>
           /\ p \in Opened \ ps
           /\ descriptors'[p] = descriptors[p]
           /\ OpenKept(descriptors[p].file)
      /\ descriptors'[Path(w)] = [file |-> file[w], modTime |-> info[w]]
      /\ fds'[file[w]] = fds[file[w]]
  BY EnterKeeps
<1>2. Private(w) /\ file[w] \in Fds /\ Path(w) \in Paths /\ info[w] \in 1..disk[Path(w)]
  BY RequestShape DEF Sound, Placed, HasFile
<1>3. descriptors'[Path(w)].file = file[w] /\ descriptors'[Path(w)] # None
  <2>1. info[w] \in 1..MaxVersion
    BY <1>2, StaticAssumption DEF Sound, TypeOK
  <2>2. PICK d : d = [file |-> file[w], modTime |-> info[w]]
    OBVIOUS
  <2>3. d \in Descriptor /\ d.file = file[w]
    BY <1>2, <2>1, <2>2 DEF Descriptor
  <2>4. QED
    BY <1>1, <2>2, <2>3, StaticAssumption
<1>4. Opened' = (Opened \ ps) \cup {Path(w)}
  <2>1. \A p \in Opened \ ps : p # Path(w) => descriptors'[p] # None
    BY DEF Enter, Opened
  <2>2. QED
    BY <1>1, <1>2, <1>3, <2>1 DEF Opened
<1>5. IsFiniteSet(Opened') /\ Cardinality(Opened') <= MaxFDs
  <2>1. IsFiniteSet(Opened \ ps) /\ Cardinality(Opened \ ps) < MaxFDs
    <3>1. CASE ps = {} /\ Cardinality(Opened) < MaxFDs
      BY <3>1 DEF Sound
    <3>2. CASE \E p \in Opened : ps = {p}
      <4>1. PICK p \in Opened : ps = {p}
        BY <3>2
      <4>2. /\ IsFiniteSet(Opened \ {p})
            /\ Cardinality(Opened \ {p}) = Cardinality(Opened) - 1
        BY FS_RemoveElement DEF Sound
      <4>3. Cardinality(Opened) \in Nat /\ Cardinality(Opened) <= MaxFDs
        BY FS_CardinalityType DEF Sound, DescriptorsSound
      <4>4. QED
        BY <4>1, <4>2, <4>3, StaticAssumption
    <3>3. QED
      BY <3>1, <3>2
  <2>2. PICK S : S = Opened \ ps
    OBVIOUS
  <2>3. IsFiniteSet(S \cup {Path(w)}) /\ Cardinality(S \cup {Path(w)}) <= MaxFDs
    <3>1. PICK n : n = Cardinality(S)
      OBVIOUS
    <3>2. PICK m : m = Cardinality(S \cup {Path(w)})
      OBVIOUS
    <3>3. IsFiniteSet(S \cup {Path(w)}) /\ n \in Nat /\ m \in Nat /\ m <= n + 1
      BY <2>1, <2>2, <3>1, <3>2, OneMore
    <3>4. n < MaxFDs
      BY <2>1, <2>2, <3>1
    <3>5. QED
      BY <3>2, <3>3, <3>4, StaticAssumption
  <2>4. QED
    BY <1>4, <2>2, <2>3
<1>6. TotalOn(older', Opened')
  <2>1. TotalOn(older, Opened)
    BY OrderOfSound
  <2>2. PICK S : S = (Opened \ ps) \cup {Path(w)}
    OBVIOUS
  <2>3. TotalOn(Latest(Path(w), S), S)
    BY <2>1, <2>2, LatestOrders
  <2>4. older' = Latest(Path(w), S)
    <3>1. older' = Latest(Path(w), Opened \ ps)
      BY DEF Enter
    <3>2. S \ {Path(w)} = (Opened \ ps) \ {Path(w)}
      BY <2>2
    <3>3. QED
      BY <3>1, <3>2 DEF Latest
  <2>5. QED
    BY <1>4, <2>2, <2>3, <2>4
<1>7. \A p \in Opened' : fds'[descriptors'[p].file] # None
  <2>1. fds'[file[w]] # None
    BY <1>1, <1>2 DEF Private
  <2>2. QED
    BY <1>1, <1>3, <2>1 DEF Opened, OpenKept
<1>8. \A p, q \in Opened' : descriptors'[p].file = descriptors'[q].file => p = q
  <2>1. \A p \in Opened' \ {Path(w)} : p \in Opened /\ descriptors'[p] = descriptors[p]
    BY <1>1 DEF Opened
  <2>2. \A p \in Opened' \ {Path(w)} : descriptors'[p].file # file[w]
    BY <1>2, <2>1 DEF Private, CachedFds
  <2>3. \A p, q \in Opened' \ {Path(w)} : descriptors'[p].file = descriptors'[q].file => p = q
    BY <2>1 DEF Sound, DescriptorsSound
  <2>4. QED
    BY <1>3, <2>2, <2>3
<1>9. QED
  BY <1>5, <1>6, <1>7, <1>8 DEF DescriptorsSound, TotalOn

LEMMA FdSetSound ==
  ASSUME Sound, NEW w \in Workers, FdSet(w)
  PROVE  DescriptorsSound' /\ IsFiniteSet(Opened')
<1>1. CASE Cardinality(Opened) < MaxFDs /\ Enter(w, {})
  BY <1>1, EnterSound DEF FdSet
<1>2. CASE \E p \in Opened : Enter(w, {p})
  BY <1>2, EnterSound DEF FdSet
<1>3. QED
  BY <1>1, <1>2 DEF FdSet

\* Every other step of a goroutine leaves the cache as it is, but for the order.
LEMMA OtherSound ==
  ASSUME Sound, NEW w \in Workers, ServeFile(w), ~FdSet(w)
  PROVE  DescriptorsSound' /\ IsFiniteSet(Opened')
<1>1. CacheKept
  BY CacheStays
<1>2. CASE UNCHANGED descriptors /\ UNCHANGED older
  <2>1. Opened' = Opened
    BY <1>2 DEF Opened
  <2>2. QED
    BY <1>1, <1>2, <2>1, OrderOfSound, CacheKeptSound
<1>3. CASE FdCheck(w)
  <2>1. Opened' = Opened
    BY <1>3 DEF FdCheck, Opened
  <2>2. older' = older \/ (Path(w) \in Opened /\ older' = Latest(Path(w), Opened))
    <3>1. Path(w) \in Paths
      BY <1>3, RequestShape DEF Sound, Placed, FdCheck
    <3>2. QED
      BY <1>3, <3>1 DEF FdCheck, Opened
  <2>3. TotalOn(older', Opened)
    <3>1. TotalOn(older, Opened)
      BY OrderOfSound
    <3>2. Path(w) \in Opened => TotalOn(Latest(Path(w), Opened), Opened)
      BY <3>1, LatestOrders
    <3>3. QED
      BY <2>2, <3>1, <3>2
  <2>4. QED
    BY <1>1, <2>1, <2>3, CacheKeptSound
<1>4. CASE SeekFails(w)
  <2>1. Drop({Path(w)} \cap Opened)
    BY <1>4 DEF SeekFails
  <2>2. QED
    BY <2>1, DropSound
<1>5. CASE ReadFails(w)
  <2>1. (UNCHANGED descriptors /\ UNCHANGED older) \/ Drop({Path(w)} \cap Opened)
    BY <1>5 DEF ReadFails, caches
  <2>2. QED
    BY <1>2, <2>1, DropSound
<1>6. CASE ~FdCheck(w) /\ ~SeekFails(w) /\ ~ReadFails(w)
  <2>1. UNCHANGED descriptors /\ UNCHANGED older
    BY <1>6 DEF ServeFile, Stat, MemoryHit, MemoryMiss, FdGet, Seek, Open, OpenFails, Read,
       Buffered, Copied, Done, caches
  <2>2. QED
    BY <1>2, <2>1
<1>7. QED
  BY <1>3, <1>4, <1>5, <1>6

LEMMA BesidesSound ==
  ASSUME Sound,
         \/ \E p \in Paths : Replace(p) \/ Forget(p)
         \/ \E ps \in SUBSET Opened : Cleanup(ps)
         \/ UNCHANGED vars
  PROVE  DescriptorsSound' /\ IsFiniteSet(Opened')
<1>1. CASE \E ps \in SUBSET Opened : Cleanup(ps)
  BY <1>1, DropSound DEF Cleanup
<1>2. CASE UNCHANGED descriptors /\ UNCHANGED older
  <2>1. Opened' = Opened
    BY <1>2 DEF Opened
  <2>2. CacheKept
    BY BesidesKeeps
  <2>3. QED
    BY <1>2, <2>1, <2>2, OrderOfSound, CacheKeptSound
<1>3. QED
  BY <1>1, <1>2 DEF Replace, Forget, vars, caches

-----------------------------------------------------------------------------
(* Where the goroutines are.                                               *)

LEMMA PcStat ==
  ASSUME Sound, NEW w \in Workers, Stat(w)
  PROVE  Placed(w)' /\ pc'[w] # "read"
<1>1. PICK kind \in Kinds :
        /\ request' = [request EXCEPT ![w] = kind]
        /\ info' = [info EXCEPT ![w] = disk[kind[2]]]
        /\ pc' = [pc EXCEPT ![w] = IF kind[1] = "preload" THEN "stream"
                                   ELSE IF kind[2] \in InMemory THEN "memory" ELSE "lookup"]
  BY DEF Stat, Goto
<1>2. kind[2] \in Paths /\ file[w] = None /\ got[w] = <<>>
  BY StaticAssumption DEF Sound, Placed, HasNone, Stat
<1>3. request'[w] = kind /\ info'[w] = disk[kind[2]] /\ file'[w] = None
      /\ pc'[w] \in {"stream", "memory", "lookup"}
  BY <1>1, <1>2 DEF Sound, TypeOK, Stat
<1>4. info'[w] \in 1..disk'[request'[w][2]]
  BY <1>2, <1>3 DEF Sound, TypeOK, Stat
<1>5. QED
  BY <1>3, <1>4 DEF Placed, HasFile, HasNone, Path

\* What a goroutine serves stays as it is until it is done.
LEMMA TaskStays ==
  ASSUME Sound, NEW w \in Workers, ServeFile(w), ~Stat(w), ~Done(w)
  PROVE  /\ pc[w] # "idle" /\ UNCHANGED task
         /\ request[w] \in Kinds /\ Path(w) \in Paths
         /\ info[w] \in 1..disk[Path(w)]
         /\ request'[w] \in Kinds /\ info'[w] \in 1..disk'[Path(w)']
<1>1. pc[w] # "idle" /\ UNCHANGED task
  <2>1. CASE FdSet(w)
    BY <2>1 DEF FdSet, Enter
  <2>2. CASE ~FdSet(w)
    BY <2>2 DEF ServeFile, MemoryHit, MemoryMiss, FdGet, FdCheck, Seek, SeekFails, Open,
       OpenFails, Read, Buffered, Copied, ReadFails
  <2>3. QED
    BY <2>1, <2>2
<1>2. request[w] \in Kinds /\ info[w] \in 1..disk[Path(w)] /\ Path(w) \in Paths
  BY <1>1, RequestShape DEF Sound, Placed
<1>3. disk' = disk
  BY DiskStays
<1>4. QED
  BY <1>1, <1>2, <1>3 DEF task, Path

LEMMA PcStep ==
  ASSUME Sound, NEW w \in Workers, ServeFile(w), ~Stat(w), ~Done(w), ~Open(w)
  PROVE  /\ pc'[w] # "idle" /\ pc'[w] # "put"
         /\ pc'[w] \in HasFile => file'[w] \in Fds
         /\ pc'[w] \in HasNone => file'[w] = None
<1>1. pc[w] \in HasFile => file[w] \in Fds
  BY DEF Sound, Placed
<1>2. pc[w] \in HasNone => file[w] = None
  BY DEF Sound, Placed
<1>3. pc' = [pc EXCEPT ![w] = pc'[w]] /\ DOMAIN pc = Workers /\ DOMAIN file = Workers
  BY DEF Sound, TypeOK, ServeFile, MemoryHit, ReplyFrom, Reply, MemoryMiss, FdGet, FdCheck, Seek,
     SeekFails, OpenFails, FdSet, Enter, Read, Buffered, Copied, ReadFails, Goto
<1>4. CASE MemoryHit(w) \/ OpenFails(w) \/ Buffered(w) \/ Copied(w)
  <2>1. pc'[w] = "done"
    BY <1>3, <1>4 DEF MemoryHit, OpenFails, Buffered, Copied, ReplyFrom, Reply, Goto
  <2>2. QED
    BY <2>1 DEF HasFile, HasNone
<1>5. CASE MemoryMiss(w) \/ Read(w)
  BY <1>1, <1>2, <1>3, <1>5 DEF MemoryMiss, Read, Goto, HasFile, HasNone
<1>6. CASE FdGet(w)
  <2>1. CASE descriptors[Path(w)] = None
    <3>1. pc'[w] \in {"open", "stream"} /\ file'[w] = None
      BY <1>2, <1>3, <1>6, <2>1, OpenPcShape DEF FdGet, Goto, HasNone
    <3>2. QED
      BY <3>1 DEF HasFile, HasNone
  <2>2. CASE descriptors[Path(w)] # None
    <3>1. Path(w) \in Opened
      BY <1>6, <2>2, TaskStays DEF Opened
    <3>2. pc'[w] = "check" /\ file'[w] = descriptors[Path(w)].file
      BY <1>3, <1>6, <2>2 DEF FdGet, Goto
    <3>3. QED
      BY <3>1, <3>2, CachedIsOpen DEF HasFile, HasNone
  <2>3. QED
    BY <2>1, <2>2
<1>7. CASE FdCheck(w)
  <2>1. file[w] \in Fds
    BY <1>1, <1>7 DEF FdCheck, HasFile
  <2>2. \/ pc'[w] = "seek" /\ file'[w] = file[w]
        \/ pc'[w] \in {"open", "stream"} /\ file'[w] = None
    BY <1>3, <1>7, OpenPcShape DEF FdCheck, LetGo, Goto
  <2>3. QED
    BY <2>1, <2>2 DEF HasFile, HasNone
<1>8. CASE Seek(w)
  BY <1>1, <1>3, <1>8 DEF Seek, Goto, HasFile, HasNone
<1>9. CASE SeekFails(w)
  <2>1. pc'[w] \in {"open", "stream"} /\ file'[w] = None
    BY <1>3, <1>9, OpenPcShape DEF SeekFails, Goto
  <2>2. QED
    BY <2>1 DEF HasFile, HasNone
<1>10. CASE FdSet(w)
  BY <1>1, <1>3, <1>10 DEF FdSet, Enter, Goto, HasFile, HasNone
<1>11. CASE ReadFails(w)
  <2>1. \/ pc'[w] = "done"
        \/ pc'[w] = "stream" /\ file'[w] = None
    BY <1>3, <1>11 DEF ReadFails, Reply, Goto
  <2>2. QED
    BY <2>1 DEF HasFile, HasNone
<1>12. QED
  BY <1>4, <1>5, <1>6, <1>7, <1>8, <1>9, <1>10, <1>11 DEF ServeFile

\* Who reads after a step, and what became of the file.
LEMMA ReadsAfter ==
  ASSUME Sound, NEW w \in Workers, ServeFile(w), pc'[w] = "read"
  PROVE  \/ Seek(w) /\ file'[w] = file[w]
         \/ Open(w)
         \/ FdSet(w) /\ file'[w] = file[w]
         \/ Read(w) /\ file'[w] = file[w]
<1>1. CASE MemoryHit(w) \/ OpenFails(w) \/ Buffered(w) \/ Copied(w)
  BY <1>1 DEF MemoryHit, OpenFails, Buffered, Copied, ReplyFrom, Reply, Goto, Sound, TypeOK
<1>2. CASE MemoryMiss(w) \/ FdGet(w) \/ FdCheck(w) \/ SeekFails(w) \/ Done(w)
  BY <1>2, OpenPcShape
     DEF MemoryMiss, FdGet, FdCheck, SeekFails, Done, Goto, Sound, TypeOK
<1>3. CASE ReadFails(w)
  BY <1>3 DEF ReadFails, Reply, Goto, Sound, TypeOK
<1>4. CASE Stat(w)
  BY <1>4, PcStat
<1>5. Seek(w) \/ Read(w) \/ FdSet(w) => file'[w] = file[w]
  BY DEF Seek, Read, FdSet, Enter
<1>6. QED
  BY <1>1, <1>2, <1>3, <1>4, <1>5 DEF ServeFile

LEMMA OpenPlaces ==
  ASSUME Sound, NEW w \in Workers, Open(w)
  PROVE  /\ pc'[w] \in {"put", "read"} /\ file'[w] \in Fds
         /\ Private(w)'
<1>1. file'[w] \in FreeFds
      /\ fds'[file'[w]] = [version |-> disk[Path(w)], offset |-> Start(w)]
  BY OpenKeeps
<1>2. file'[w] \in Fds /\ file'[w] \notin CachedFds /\ \A v \in Workers : file[v] # file'[w]
  BY <1>1 DEF FreeFds, FdsOf
<1>3. CachedFds' = CachedFds
  BY DEF Open, caches, CachedFds, Opened
<1>4. \A v \in Workers \ {w} : file'[v] = file[v]
  BY OpenLocal DEF Same, Sound
<1>5. fds'[file'[w]] # None
  <2>1. request[w] \in Kinds
    BY DEF Sound, Placed, Open
  <2>2. disk[Path(w)] \in 1..MaxVersion /\ Start(w) \in 0..Length
    BY <2>1, RequestShape, StaticAssumption DEF Sound, TypeOK
  <2>3. [version |-> disk[Path(w)], offset |-> Start(w)] \in OpenFile
    BY <2>2 DEF OpenFile
  <2>4. QED
    BY <1>1, <2>3, StaticAssumption
<1>6. pc'[w] \in {"put", "read"}
  BY DEF Open, Goto, Sound, TypeOK
<1>7. QED
  BY <1>2, <1>3, <1>4, <1>5, <1>6 DEF Private

LEMMA PlacedActor ==
  ASSUME Sound, NEW w \in Workers, ServeFile(w)
  PROVE  Placed(w)'
<1>1. CASE Stat(w)
  BY <1>1, PcStat
<1>2. CASE Done(w)
  <2>1. pc'[w] = "idle" /\ got'[w] = <<>> /\ file'[w] = None
    BY <1>2 DEF Done, LetGo, Goto, Sound, TypeOK
  <2>2. QED
    BY <2>1 DEF Placed, HasFile
<1>3. CASE Open(w)
  <2>1. request'[w] \in Kinds /\ info'[w] \in 1..disk'[Path(w)']
    BY <1>3, TaskStays DEF Open, Stat, Done, ServeFile
  <2>2. QED
    BY <1>3, <2>1, OpenPlaces DEF Placed, HasNone
<1>4. CASE ~Stat(w) /\ ~Done(w) /\ ~Open(w)
  BY <1>4, TaskStays, PcStep DEF Placed
<1>5. QED
  BY <1>1, <1>2, <1>3, <1>4

LEMMA PlacedBystander ==
  ASSUME Sound, NEW v \in Workers, Same(v), FileKept(v), [Next]_vars,
         pc[v] = "put" => /\ file[v] \notin CachedFds'
                          /\ \A u \in Workers \ {v} : file'[u] # file[v]
  PROVE  Placed(v)'
<1>1. pc'[v] # "idle" => request'[v] \in Kinds /\ info'[v] \in 1..disk'[Path(v)']
  <2>1. SUFFICES ASSUME pc[v] # "idle"
                 PROVE  request'[v] \in Kinds /\ info'[v] \in 1..disk'[Path(v)']
    BY DEF Same
  <2>2. request[v] \in Kinds /\ info[v] \in 1..disk[Path(v)] /\ Path(v) \in Paths
    BY <2>1, RequestShape DEF Sound, Placed
  <2>3. PICK p \in Paths : p = Path(v) /\ p = Path(v)'
    BY <2>2 DEF Same, Path
  <2>4. disk[p] \in Nat /\ disk'[p] \in Nat /\ disk[p] <= disk'[p]
    BY DiskGrows DEF Sound
  <2>5. QED
    BY <2>2, <2>3, <2>4 DEF Same
<1>2. pc'[v] = "put" => Private(v)'
  <2>1. pc[v] = "put" => fds'[file[v]] = fds[file[v]] /\ fds[file[v]] # None
    BY DEF FileKept, Sound, Placed, Private
  <2>2. QED
    BY <2>1 DEF Private, Same
<1>3. QED
  BY <1>1, <1>2 DEF Same, Sound, Placed

LEMMA CachedAfter ==
  ASSUME CacheKept
  PROVE  CachedFds' \subseteq CachedFds
BY DEF CacheKept, CachedFds, Opened

LEMMA PlacedStep ==
  ASSUME Sound, NEW w \in Workers, ServeFile(w)
  PROVE  \A v \in Workers : Placed(v)'
<1>1. ASSUME NEW v \in Workers \ {w} PROVE Placed(v)'
  <2>1. Same(v) /\ FileKept(v)
    BY Locality, OthersFilesKept DEF Sound
  <2>2. ASSUME pc[v] = "put"
        PROVE  /\ file[v] \notin CachedFds'
               /\ \A u \in Workers \ {v} : file'[u] # file[v]
    <3>1. Private(v) /\ file[v] \in Fds
      BY <2>2 DEF Sound, Placed, HasFile
    <3>2. file[v] \notin CachedFds'
      <4>1. CASE FdSet(w)
        <5>1. PICK ps \in SUBSET Opened : Enter(w, ps) /\ pc[w] = "put"
          BY <4>1 DEF FdSet
        <5>2. CachedFds' \subseteq CachedFds \cup {file[w]}
          <6>1. descriptors'[Path(w)].file = file[w]
            <7>1. descriptors'[Path(w)] = [file |-> file[w], modTime |-> info[w]]
              BY <5>1, EnterKeeps
            <7>2. QED
              BY <7>1
          <6>2. \A p \in Paths \ {Path(w)} :
                  descriptors'[p] # None => p \in Opened /\ descriptors'[p] = descriptors[p]
            BY <5>1, EnterKeeps
          <6>3. QED
            BY <6>1, <6>2 DEF CachedFds, Opened
        <5>3. QED
          BY <3>1, <5>2 DEF Private
      <4>2. CASE ~FdSet(w)
        BY <3>1, <4>2, CacheStays, CachedAfter DEF Private
      <4>3. QED
        BY <4>1, <4>2
    <3>3. file'[w] # file[v]
      <4>1. file'[w] \in {file[w], None} \cup CachedFds \cup FreeFds
        BY ActorFile DEF Sound
      <4>2. QED
        BY <3>1, <4>1, StaticAssumption DEF Private, FreeFds, FdsOf
    <3>4. \A u \in Workers \ {v, w} : file'[u] # file[v]
      BY <3>1, Locality DEF Same, Private, Sound
    <3>5. QED
      BY <3>2, <3>3, <3>4
  <2>3. QED
    BY <2>1, <2>2, PlacedBystander DEF Next
<1>2. QED
  BY <1>1, PlacedActor

LEMMA SharedSpoilsStep ==
  ASSUME Sound, NEW w \in Workers, ServeFile(w)
  PROVE  SharedSpoils'
<1>1. \A v \in Workers \ {w} : Same(v)
  BY Locality DEF Sound
<1>2. ASSUME NEW v \in Workers \ {w}, pc'[v] = "read", pc'[w] = "read", file'[v] = file'[w]
      PROVE  spoiled'[v] /\ spoiled'[w]
  <2>1. pc[v] = "read" /\ file'[v] = file[v]
    BY <1>1, <1>2 DEF Same
  <2>2. CASE Seek(w) /\ file'[w] = file[w]
    <3>1. v \in Readers(file[w])
      BY <1>2, <2>1, <2>2 DEF Readers
    <3>2. QED
      BY <2>2, <3>1 DEF Seek, Spoil
  <2>3. CASE Open(w)
    BY <1>2, <2>3, OpenPlaces DEF Private
  <2>4. CASE FdSet(w) /\ file'[w] = file[w]
    BY <1>2, <2>1, <2>4 DEF FdSet, Sound, Placed, Private
  <2>5. CASE Read(w) /\ file'[w] = file[w]
    <3>1. spoiled[v] /\ spoiled[w]
      BY <1>2, <2>1, <2>5 DEF Read, Sound, SharedSpoils
    <3>2. QED
      BY <2>5, <3>1 DEF Read
  <2>6. QED
    BY <1>2, <2>2, <2>3, <2>4, <2>5, ReadsAfter
<1>3. ASSUME NEW u \in Workers \ {w}, NEW v \in Workers \ {w}, u # v,
             pc'[u] = "read", pc'[v] = "read", file'[u] = file'[v]
      PROVE  spoiled'[v]
  BY <1>1, <1>3 DEF Same, Sound, SharedSpoils
<1>4. QED
  BY <1>2, <1>3 DEF SharedSpoils

LEMMA SoundStep ==
  ASSUME Sound, [Next]_vars
  PROVE  Sound'
<1>1. TypeOK'
  BY TypeStep DEF Sound
<1>2. ASSUME NEW w \in Workers, ServeFile(w) PROVE Sound'
  <2>1. DescriptorsSound' /\ IsFiniteSet(Opened')
    BY <1>2, FdSetSound, OtherSound
  <2>2. QED
    BY <1>1, <1>2, <2>1, PlacedStep, SharedSpoilsStep DEF Sound
<1>3. CASE \/ \E p \in Paths : Replace(p) \/ Forget(p)
           \/ \E ps \in SUBSET Opened : Cleanup(ps)
           \/ UNCHANGED vars
  <2>1. CacheKept /\ \A v \in Workers : FileKept(v) /\ Same(v)
    BY <1>3, BesidesKeeps, BesidesLocal DEF Sound
  <2>2. ASSUME NEW v \in Workers PROVE Placed(v)'
    <3>1. pc[v] = "put" => /\ file[v] \notin CachedFds'
                           /\ \A u \in Workers \ {v} : file'[u] # file[v]
      BY <2>1, CachedAfter DEF Sound, Placed, Private, Same
    <3>2. QED
      BY <2>1, <3>1, PlacedBystander
  <2>3. SharedSpoils'
    BY <2>1 DEF SharedSpoils, Sound, Same
  <2>4. DescriptorsSound' /\ IsFiniteSet(Opened')
    BY <1>3, BesidesSound
  <2>5. QED
    BY <1>1, <2>2, <2>3, <2>4 DEF Sound
<1>4. QED
  BY <1>2, <1>3 DEF Next

LEMMA SoundInit == Init => Sound
<1> SUFFICES ASSUME Init PROVE Sound
  OBVIOUS
<1>1. Opened = {} /\ older = {}
  BY DEF Init, Opened
<1>2. IsFiniteSet(Opened) /\ Cardinality(Opened) = 0
  BY <1>1, FS_EmptySet
<1>3. DescriptorsSound
  BY <1>1, <1>2, StaticAssumption DEF DescriptorsSound
<1>4. \A w \in Workers : Placed(w)
  BY DEF Init, Placed, HasFile, HasNone
<1>5. SharedSpoils
  BY DEF Init, SharedSpoils
<1>6. QED
  BY <1>2, <1>3, <1>4, <1>5, TypeInit DEF Sound

LEMMA SoundInvariant == Spec => []Sound
BY SoundInit, SoundStep, PTL DEF Spec

\* Types of the variables: in particular no offset is behind the end of a file,
\* and no cached content is newer than its file on disk.
THEOREM TypeCorrect == Spec => []TypeOK
<1>1. Sound => TypeOK
  BY DEF Sound
<1>2. QED
  BY <1>1, SoundInvariant, PTL

\* FDCache never holds more than maxSize descriptors, whatever closes a file
\* takes it out of the cache, a file serves one path, and the last uses of the
\* descriptors are in a total order, for any goroutines and paths.
THEOREM DescriptorsStaySound == Spec => []DescriptorsSound
<1>1. Sound => DescriptorsSound
  BY DEF Sound
<1>2. QED
  BY <1>1, SoundInvariant, PTL

-----------------------------------------------------------------------------
(* Responses of one version.                                               *)

LEMMA ChunkSeq ==
  ASSUME NEW s \in Chunks
  PROVE  /\ s \in Seq((1..MaxVersion) \X (1..Length))
         /\ Len(s) \in Nat /\ DOMAIN s = 1..Len(s)
<1>1. s \in Seq((1..MaxVersion) \X (1..Length))
  BY DEF Chunks
<1>2. QED
  BY <1>1, LenProperties

LEMMA NoChunks ==
  /\ Uniform(<<>>)
  /\ \A v : OfVersion(<<>>, v)
  /\ Len(<<>>) = 0
BY EmptySeq DEF Uniform, OfVersion

LEMMA CutUniform ==
  ASSUME NEW w \in Workers, request[w] \in Kinds, NEW content \in Chunks, Uniform(content),
         ~(From(w) > Len(content))
  PROVE  Uniform(SubSeq(content, From(w), Min({To(w), Len(content)})))
<1>1. PICK m : m = Min({To(w), Len(content)})
  OBVIOUS
<1>2. PICK a : a = From(w)
  OBVIOUS
<1>3. a \in 1..Length /\ Length \in Nat
  BY <1>2, RequestShape, StaticAssumption
<1>4. Len(content) \in Nat /\ DOMAIN content = 1..Len(content)
      /\ content \in Seq((1..MaxVersion) \X (1..Length))
  BY ChunkSeq
<1>5. m \in a..Len(content)
  BY <1>1, <1>2, CutShape
<1>6. PICK cut : cut = SubSeq(content, a, m)
  OBVIOUS
<1>7. /\ cut \in Seq((1..MaxVersion) \X (1..Length))
      /\ Len(cut) = m - a + 1
      /\ \A i \in 1..(m - a + 1) : cut[i] = content[a + i - 1]
  <2>1. \A i \in a..m : i \in 1..Len(content)
    BY <1>3, <1>4, <1>5
  <2>2. m >= a - 1 /\ a \in Int /\ m \in Int
    BY <1>3, <1>4, <1>5
  <2>3. /\ SubSeq(content, a, m) \in Seq((1..MaxVersion) \X (1..Length))
        /\ Len(SubSeq(content, a, m)) = IF a <= m THEN m - a + 1 ELSE 0
        /\ \A i \in 1..(m - a + 1) : SubSeq(content, a, m)[i] = content[a + i - 1]
    BY <1>4, <2>1, <2>2, SubSeqProperties
  <2>4. QED
    BY <1>5, <1>6, <2>2, <2>3
<1>8. DOMAIN cut = 1..(m - a + 1)
  BY <1>7, LenProperties
<1>9. ASSUME NEW i \in DOMAIN cut
      PROVE  a + i - 1 \in DOMAIN content /\ cut[i] = content[a + i - 1]
  <2>1. PICK n \in Nat : n = Len(content)
    BY <1>4
  <2>2. i \in 1..(m - a + 1)
    BY <1>8
  <2>3. a + i - 1 \in 1..n
    BY <1>3, <1>5, <2>1, <2>2
  <2>4. QED
    BY <1>4, <1>7, <2>1, <2>2, <2>3
<1>10. Uniform(cut)
  BY <1>9 DEF Uniform
<1>11. QED
  BY <1>1, <1>2, <1>6, <1>10

LEMMA ReplyAnswers ==
  ASSUME TypeOK, NEW w \in Workers, NEW status, NEW chunks, NEW pure,
         Reply(w, status, chunks, pure)
  PROVE  /\ pc'[w] = "done"
         /\ reply'[w] = [status |-> status, chunks |-> chunks, pure |-> pure]
         /\ reply'[w].chunks = chunks
<1>1. reply' = [reply EXCEPT ![w] = [status |-> status, chunks |-> chunks, pure |-> pure]]
  BY DEF Reply
<1>2. w \in DOMAIN reply => reply'[w] = [status |-> status, chunks |-> chunks, pure |-> pure]
  BY <1>1
<1>3. [status |-> status, chunks |-> chunks, pure |-> pure].chunks = chunks
  OBVIOUS
<1>4. pc'[w] = "done"
  BY DEF Reply, Goto, TypeOK
<1>5. QED
  BY <1>2, <1>3, <1>4 DEF TypeOK

UniformAnswer(w) == pc[w] = "done" /\ ~Streams(w) => Uniform(reply[w].chunks)

LEMMA UniformAnswers == OneVersion <=> \A w \in Workers : UniformAnswer(w)
BY DEF OneVersion, UniformAnswer, Uniform

\* The kind of a request depends on the request alone.
LEMMA KindStays ==
  ASSUME NEW w, request'[w] = request[w]
  PROVE  /\ Op(w)' = Op(w) /\ Path(w)' = Path(w) /\ From(w)' = From(w) /\ To(w)' = To(w)
         /\ (Streams(w)' <=> Streams(w)) /\ (Buffers(w)' <=> Buffers(w))
         /\ (Single(w)' <=> Single(w)) /\ Start(w)' = Start(w)
BY DEF Op, Path, From, To, Streams, Buffers, Single, Start

LEMMA UniformBystander ==
  ASSUME Sound, AllUniform, NEW v \in Workers, Same(v), FileKept(v)
  PROVE  UniformReader(v)' /\ UniformAnswer(v)'
<1>1. UniformReader(v) /\ UniformAnswer(v)
  BY UniformAnswers DEF AllUniform
<1>2. (Single(v)' <=> Single(v)) /\ (Streams(v)' <=> Streams(v))
  BY KindStays DEF Same
<1>3. pc[v] = "read" => file[v] \in Fds
  BY DEF Sound, Placed, HasFile
<1>4. UniformReader(v)'
  BY <1>1, <1>2, <1>3 DEF UniformReader, Same, FileKept, OpenKept
<1>5. UniformAnswer(v)'
  BY <1>1, <1>2 DEF UniformAnswer, Same
<1>6. QED
  BY <1>4, <1>5

\* Steps that do not read, and end with no answer.
LEMMA UniformMove ==
  ASSUME Sound, AllUniform, NEW w \in Workers, UNCHANGED got,
         request'[w] = request[w], pc[w] \notin {"idle", "read", "done"}, pc'[w] # "done"
  PROVE  UniformReader(w)' /\ UniformAnswer(w)'
<1>1. Single(w)' <=> Single(w)
  BY KindStays
<1>2. Single(w) => got'[w] = <<>>
  BY DEF AllUniform, UniformReader
<1>3. QED
  BY <1>1, <1>2, NoChunks DEF UniformReader, UniformAnswer

LEMMA UniformReply ==
  ASSUME Sound, NEW w \in Workers, request'[w] = request[w],
         NEW status, NEW chunks, NEW pure, Reply(w, status, chunks, pure),
         ~Streams(w) => Uniform(chunks)
  PROVE  UniformReader(w)' /\ UniformAnswer(w)'
<1>1. pc'[w] = "done" /\ reply'[w].chunks = chunks
  BY ReplyAnswers DEF Sound
<1>2. Streams(w)' <=> Streams(w)
  BY KindStays
<1>3. QED
  BY <1>1, <1>2 DEF UniformReader, UniformAnswer

LEMMA UniformReplyFrom ==
  ASSUME Sound, NEW w \in Workers, request'[w] = request[w], request[w] \in Kinds,
         NEW content \in Chunks, Uniform(content), NEW pure, ReplyFrom(w, content, pure)
  PROVE  UniformReader(w)' /\ UniformAnswer(w)'
<1>1. CASE From(w) > Len(content)
  <2>1. Reply(w, "unsatisfiable", <<>>, pure)
    BY <1>1 DEF ReplyFrom
  <2>2. QED
    BY <2>1, NoChunks, UniformReply
<1>2. CASE ~(From(w) > Len(content))
  <2>1. PICK cut : cut = SubSeq(content, From(w), Min({To(w), Len(content)}))
    OBVIOUS
  <2>2. Reply(w, "sent", cut, pure)
    BY <1>2, <2>1 DEF ReplyFrom
  <2>3. Uniform(cut)
    BY <1>2, <2>1, CutUniform
  <2>4. QED
    BY <2>2, <2>3, UniformReply
<1>3. QED
  BY <1>1, <1>2

LEMMA UniformRead ==
  ASSUME Sound, AllUniform, NEW w \in Workers, Read(w)
  PROVE  UniformReader(w)' /\ UniformAnswer(w)'
<1>1. /\ pc[w] = "read" /\ pc'[w] = "read" /\ request'[w] = request[w] /\ file'[w] = file[w]
      /\ fds[file[w]] # None
  BY DEF Read, task
<1>2. Single(w)' <=> Single(w)
  BY <1>1, KindStays
<1>3. /\ fds'[file[w]] # None /\ fds'[file[w]].version = fds[file[w]].version
  BY ReadKeeps
<1>4. PICK s : s = got[w]
  OBVIOUS
<1>5. PICK c : c = <<fds[file[w]].version, fds[file[w]].offset + 1>>
  OBVIOUS
<1>6. s \in Chunks /\ c \in (1..MaxVersion) \X (1..Length)
  <2>1. file[w] \in Fds
    BY <1>1 DEF Sound, Placed, HasFile
  <2>2. PICK o \in OpenFile : o = fds[file[w]]
    BY <1>1, <2>1 DEF Sound, TypeOK
  <2>3. o.offset # Length
    BY <2>2 DEF Read, ReadAll
  <2>4. o.version \in 1..MaxVersion /\ o.offset + 1 \in 1..Length
    BY <2>3, OpenFileShape, StaticAssumption
  <2>5. QED
    BY <1>4, <1>5, <2>2, <2>4 DEF Sound, TypeOK
<1>7. got'[w] = Append(s, c)
  BY <1>4, <1>5 DEF Read, Sound, TypeOK
<1>8. ASSUME Single(w) PROVE OfVersion(Append(s, c), fds[file[w]].version)
  <2>1. s \in Seq((1..MaxVersion) \X (1..Length)) /\ Len(s) \in Nat /\ DOMAIN s = 1..Len(s)
    BY <1>6, ChunkSeq
  <2>2. PICK t : t = Append(s, c)
    OBVIOUS
  <2>3. /\ Append(s, c) \in Seq((1..MaxVersion) \X (1..Length))
        /\ Len(Append(s, c)) = Len(s) + 1
        /\ \A i \in 1..Len(s) : Append(s, c)[i] = s[i]
        /\ Append(s, c)[Len(s) + 1] = c
    BY <1>6, <2>1, AppendProperties
  <2>4. DOMAIN t = 1..(Len(s) + 1)
    BY <2>2, <2>3, LenProperties
  <2>5. OfVersion(s, fds[file[w]].version)
    BY <1>1, <1>4, <1>8 DEF AllUniform, UniformReader
  <2>6. c[1] = fds[file[w]].version
    BY <1>5
  <2>7. ASSUME NEW i \in DOMAIN t PROVE t[i][1] = fds[file[w]].version
    <3>1. CASE i \in 1..Len(s)
      BY <2>1, <2>2, <2>3, <2>5, <3>1 DEF OfVersion
    <3>2. CASE i = Len(s) + 1
      BY <2>2, <2>3, <2>6, <3>2
    <3>3. QED
      BY <2>1, <2>4, <3>1, <3>2
  <2>8. QED
    BY <2>2, <2>7 DEF OfVersion
<1>9. Single(w) => Uniform(got'[w])
  BY <1>7, <1>8 DEF OfVersion, Uniform
<1>10. QED
  BY <1>1, <1>2, <1>3, <1>7, <1>8, <1>9 DEF UniformReader, UniformAnswer

LEMMA UniformActor ==
  ASSUME Sound, AllUniform, NEW w \in Workers, ServeFile(w)
  PROVE  UniformReader(w)' /\ UniformAnswer(w)'
<1>1. CASE Stat(w)
  <2>1. got'[w] = <<>> /\ pc'[w] \notin {"read", "done"}
    <3>1. got[w] = <<>>
      BY <1>1 DEF Stat, Sound, Placed
    <3>2. pc'[w] \in {"stream", "memory", "lookup"}
      BY <1>1 DEF Stat, Goto, Sound, TypeOK
    <3>3. QED
      BY <1>1, <3>1, <3>2 DEF Stat
  <2>2. QED
    BY <2>1 DEF UniformReader, UniformAnswer
<1>2. CASE Done(w)
  <2>1. pc'[w] = "idle"
    BY <1>2 DEF Done, Goto, Sound, TypeOK
  <2>2. QED
    BY <2>1 DEF UniformReader, UniformAnswer
<1>3. CASE ~Stat(w) /\ ~Done(w)
  <2>1. /\ pc[w] # "idle" /\ request'[w] = request[w] /\ request[w] \in Kinds
        /\ Path(w) \in Paths /\ got[w] \in Chunks
    BY <1>3, TaskStays DEF task, Sound, TypeOK
  <2>2. UniformReader(w)
    BY DEF AllUniform
  <2>3. CASE MemoryHit(w)
    <3>1. contents[Path(w)] # None
      BY <2>3 DEF MemoryHit, InCache
    <3>2. contents[Path(w)].data \in Chunks /\ Uniform(contents[Path(w)].data)
      BY <2>1, <3>1, ContentShape DEF Sound, AllUniform
    <3>3. QED
      BY <2>1, <2>3, <3>2, UniformReplyFrom DEF MemoryHit
  <2>4. CASE Read(w)
    BY <2>4, UniformRead
  <2>5. CASE Buffered(w)
    <3>1. Uniform(got[w])
      BY <2>1, <2>2, <2>5 DEF Buffered, Single, UniformReader
    <3>2. QED
      BY <2>1, <2>5, <3>1, UniformReplyFrom DEF Buffered
  <2>6. CASE Copied(w)
    <3>1. ~Streams(w) => Uniform(got[w])
      BY <2>1, <2>2, <2>6 DEF Copied, Single, UniformReader
    <3>2. QED
      BY <2>1, <2>6, <3>1, UniformReply DEF Copied
  <2>7. CASE OpenFails(w)
    BY <2>1, <2>7, NoChunks, UniformReply DEF OpenFails
  <2>8. CASE ReadFails(w)
    <3>1. CASE Reply(w, "failed", <<>>, ~spoiled[w])
      BY <2>1, <3>1, NoChunks, UniformReply
    <3>2. CASE ~Streams(w) /\ Reply(w, "sent", got[w], ~spoiled[w])
      <4>1. Uniform(got[w])
        BY <2>1, <2>2, <2>8, <3>2 DEF ReadFails, Single, UniformReader
      <4>2. QED
        BY <2>1, <3>2, <4>1, UniformReply
    <3>3. CASE ~Buffers(w) /\ Streams(w) /\ Goto(w, "stream")
      <4>1. ~Single(w)' /\ pc'[w] = "stream"
        BY <2>1, <3>3, KindStays DEF Single, Goto, Sound, TypeOK
      <4>2. QED
        BY <4>1 DEF UniformReader, UniformAnswer
    <3>4. QED
      BY <2>8, <3>1, <3>2, <3>3 DEF ReadFails
  <2>9. CASE MemoryMiss(w) \/ FdGet(w) \/ FdCheck(w) \/ Seek(w) \/ SeekFails(w) \/ Open(w) \/ FdSet(w)
    <3>1. UNCHANGED got /\ pc[w] \notin {"idle", "read", "done"}
      BY <2>9 DEF MemoryMiss, FdGet, FdCheck, Seek, SeekFails, Open, FdSet, Enter
    <3>2. pc'[w] # "done"
      BY <2>9, OpenPcShape
         DEF MemoryMiss, FdGet, FdCheck, Seek, SeekFails, Open, FdSet, Enter, Goto, Sound, TypeOK
    <3>3. QED
      BY <2>1, <3>1, <3>2, UniformMove
  <2>10. QED
    BY <1>3, <2>3, <2>4, <2>5, <2>6, <2>7, <2>8, <2>9 DEF ServeFile
<1>4. QED
  BY <1>1, <1>2, <1>3

UniformContents == \A p \in Paths : contents[p] # None => Uniform(contents[p].data)

\* Only a whole buffer is ever put into the cache of contents.
LEMMA ContentsChange ==
  ASSUME Sound, [Next]_vars, NEW p \in Paths, contents'[p] # None, contents'[p] # contents[p]
  PROVE  \E w \in Workers :
           /\ Buffered(w) /\ p = Path(w)
           /\ contents'[p] = [data |-> got[w], modTime |-> info[w], pure |-> ~spoiled[w]]
<1>1. CASE \E q \in Paths : Forget(q)
  BY <1>1 DEF Forget, Sound, TypeOK
<1>2. CASE \E w \in Workers : Buffered(w)
  BY <1>2 DEF Buffered, Sound, TypeOK
<1>3. CASE UNCHANGED contents
  BY <1>3
<1>4. QED
  BY <1>1, <1>2, <1>3 DEF Next, ServeFile, Stat, MemoryHit, MemoryMiss, FdGet, FdCheck, Seek,
     SeekFails, Open, OpenFails, FdSet, Enter, Read, Copied, ReadFails, Done, Replace, Cleanup,
     vars, caches

LEMMA UniformContentsStep ==
  ASSUME Sound, AllUniform, [Next]_vars
  PROVE  UniformContents'
<1>1. ASSUME NEW p \in Paths, contents'[p] # None, contents'[p] # contents[p]
      PROVE  Uniform(contents'[p].data)
  <2>1. PICK w \in Workers :
          /\ Buffered(w) /\ p = Path(w)
          /\ contents'[p] = [data |-> got[w], modTime |-> info[w], pure |-> ~spoiled[w]]
    BY <1>1, ContentsChange
  <2>2. contents'[p].data = got[w]
    BY <2>1
  <2>3. Uniform(got[w])
    BY <2>1 DEF Buffered, Single, AllUniform, UniformReader
  <2>4. QED
    BY <2>2, <2>3
<1>2. QED
  BY <1>1 DEF UniformContents, AllUniform

LEMMA UniformStep ==
  ASSUME Sound, AllUniform, [Next]_vars
  PROVE  AllUniform'
<1>1. UniformContents'
  BY UniformContentsStep
<1>2. ASSUME NEW v \in Workers PROVE UniformReader(v)' /\ UniformAnswer(v)'
  <2>1. CASE \E w \in Workers : ServeFile(w)
    <3>1. PICK w \in Workers : ServeFile(w)
      BY <2>1
    <3>2. CASE v = w
      BY <3>1, <3>2, UniformActor
    <3>3. CASE v # w
      BY <3>1, <3>3, Locality, OthersFilesKept, UniformBystander DEF Sound
    <3>4. QED
      BY <3>2, <3>3
  <2>2. CASE \/ \E p \in Paths : Replace(p) \/ Forget(p)
             \/ \E ps \in SUBSET Opened : Cleanup(ps)
             \/ UNCHANGED vars
    BY <2>2, BesidesKeeps, BesidesLocal, UniformBystander DEF Sound
  <2>3. QED
    BY <2>1, <2>2 DEF Next
<1>3. OneVersion'
  BY <1>2 DEF OneVersion, UniformAnswer, Uniform
<1>4. QED
  BY <1>1, <1>2, <1>3 DEF AllUniform, UniformContents

LEMMA UniformInit == Init => AllUniform
BY DEF Init, AllUniform, UniformReader, OneVersion

\* However goroutines interfere at a descriptor or by way of the cache, a
\* response has chunks of one version of its file only, unless it is a large
\* file's, which is begun again when its descriptor is closed: for any number
\* of goroutines, files, versions and chunks.
THEOREM OneVersionIsServed == Spec => []OneVersion
<1>1. Init => Sound /\ AllUniform
  BY SoundInit, UniformInit
<1>2. Sound /\ AllUniform /\ [Next]_vars => (Sound /\ AllUniform)'
  BY SoundStep, UniformStep
<1>3. Sound /\ AllUniform => OneVersion
  BY DEF AllUniform
<1>4. QED
  BY <1>1, <1>2, <1>3, PTL DEF Spec

-----------------------------------------------------------------------------
(* Responses of the range asked for.                                       *)

RightAnswer(w) ==
  pc[w] = "done" /\ reply[w].pure =>
    /\ reply[w].status = "sent"
    /\ \E v \in info[w]..disk[Path(w)] :
         reply[w].chunks = SubSeq(Content(v), From(w), To(w))

LEMMA ContentSeq ==
  ASSUME NEW v
  PROVE  /\ Content(v) \in Seq({v} \X (1..Length))
         /\ Len(Content(v)) = Length
         /\ \A i \in 1..Length : /\ Content(v)[i] = <<v, i>>
                                  /\ Content(v)[i] \in {v} \X (1..Length)
<1>1. Length \in Nat
  BY StaticAssumption
<1>2. Content(v) \in [1..Length -> {v} \X (1..Length)]
  BY DEF Content
<1>3. QED
  BY <1>1, <1>2 DEF Content

\* Two functions on 1..n that agree are equal.
LEMMA SameSeq ==
  ASSUME NEW S, NEW s \in Seq(S), NEW T, NEW t \in Seq(T), Len(s) = Len(t),
         \A i \in 1..Len(s) : s[i] = t[i]
  PROVE  s = t
<1>1. s \in [1..Len(s) -> S] /\ t \in [1..Len(s) -> T]
  BY LenProperties
<1>2. QED
  BY <1>1

\* Chunks in a row of one version are a part of its content.
LEMMA PartOfContent ==
  ASSUME NEW v, NEW s \in Chunks, NEW a \in 1..Length, NEW b \in a..Length,
         Len(s) = b - a + 1, \A i \in 1..Len(s) : s[i] = <<v, a - 1 + i>>
  PROVE  s = SubSeq(Content(v), a, b)
<1>1. s \in Seq((1..MaxVersion) \X (1..Length))
  BY ChunkSeq
<1>2. PICK c : c = Content(v)
  OBVIOUS
<1>3. /\ c \in Seq({v} \X (1..Length))
      /\ \A i \in 1..Length : c[i] = <<v, i>> /\ c[i] \in {v} \X (1..Length)
  BY <1>2, ContentSeq
<1>4. a \in Int /\ b \in Int /\ Length \in Nat /\ a <= b /\ b - a + 1 \in Nat
  BY StaticAssumption
<1>5. \A i \in a..b : c[i] \in {v} \X (1..Length)
  BY <1>3, <1>4
<1>6. PICK t : t = SubSeq(c, a, b)
  OBVIOUS
<1>7. /\ t \in Seq({v} \X (1..Length))
      /\ Len(t) = b - a + 1
      /\ \A i \in 1..(b - a + 1) : t[i] = c[a + i - 1]
  BY <1>4, <1>5, <1>6, SubSeqProperties
<1>8. ASSUME NEW i \in 1..Len(s) PROVE s[i] = t[i]
  <2>1. i \in Int /\ i \in 1..(b - a + 1) /\ a + i - 1 \in 1..Length /\ a - 1 + i = a + i - 1
    BY <1>4
  <2>2. PICK j \in 1..Length : j = a + i - 1
    BY <2>1
  <2>3. t[i] = c[j] /\ c[j] = <<v, j>> /\ s[i] = <<v, j>>
    BY <1>3, <1>7, <2>1, <2>2
  <2>4. QED
    BY <2>3
<1>9. s = t
  BY <1>1, <1>7, <1>8, SameSeq
<1>10. QED
  BY <1>2, <1>6, <1>9

\* What a quiet reader has read.
LEMMA QuietShape ==
  ASSUME Sound, NEW w \in Workers, pc[w] = "read", QuietReader(w)
  PROVE  /\ request[w] \in Kinds /\ Path(w) \in Paths /\ info[w] \in 1..disk[Path(w)]
         /\ got[w] \in Chunks /\ Len(got[w]) \in Nat
         /\ fds[file[w]] \in OpenFile
         /\ fds[file[w]].version \in info[w]..disk[Path(w)]
<1>1. file[w] \in Fds /\ request[w] \in Kinds /\ info[w] \in 1..disk[Path(w)]
  BY DEF Sound, Placed, HasFile
<1>2. fds[file[w]] \in OpenFile
  BY <1>1 DEF Sound, TypeOK, QuietReader
<1>3. got[w] \in Chunks
  BY DEF Sound, TypeOK
<1>4. QED
  BY <1>1, <1>2, <1>3, ChunkSeq, RequestShape DEF QuietReader, Current

LEMMA BufferIsContent ==
  ASSUME Sound, NEW w \in Workers, pc[w] = "read", QuietReader(w), ReadAll(w), Buffers(w)
  PROVE  got[w] = Content(fds[file[w]].version)
<1>1. PICK v : v = fds[file[w]].version
  OBVIOUS
<1>2. PICK s \in Chunks : s = got[w]
  BY QuietShape
<1>3. Start(w) = 0
  BY QuietShape, RequestShape
<1>4. Len(s) \in Nat /\ s \in Seq((1..MaxVersion) \X (1..Length))
  BY ChunkSeq
<1>5. fds[file[w]].offset = Length
  BY DEF ReadAll
<1>6. Len(s) = Length /\ \A i \in 1..Len(s) : s[i] = <<v, i>>
  <2>1. fds[file[w]].offset = 0 + Len(s)
    BY <1>2, <1>3 DEF QuietReader
  <2>2. \A i \in 1..Len(s) : s[i] = <<v, 0 + i>>
    BY <1>1, <1>2, <1>3 DEF QuietReader
  <2>3. QED
    BY <1>4, <1>5, <2>1, <2>2
<1>7. s = Content(v)
  <2>1. PICK c : c = Content(v)
    OBVIOUS
  <2>2. c \in Seq({v} \X (1..Length)) /\ Len(c) = Length /\ \A i \in 1..Length : c[i] = <<v, i>>
    BY <2>1, ContentSeq
  <2>3. s = c
    <3>1. Len(s) = Len(c)
      BY <1>6, <2>2
    <3>2. \A i \in 1..Len(s) : s[i] = c[i]
      BY <1>6, <2>2
    <3>3. s \in Seq((1..MaxVersion) \X (1..Length)) /\ c \in Seq({v} \X (1..Length))
      BY <1>4, <2>2
    <3>4. QED
      BY <3>1, <3>2, <3>3, SameSeq
  <2>4. QED
    BY <2>1, <2>3
<1>8. QED
  BY <1>1, <1>2, <1>7

LEMMA CopyIsCut ==
  ASSUME Sound, NEW w \in Workers, pc[w] = "read", QuietReader(w), ReadAll(w), ~Buffers(w)
  PROVE  got[w] = SubSeq(Content(fds[file[w]].version), From(w), To(w))
<1>1. PICK v : v = fds[file[w]].version
  OBVIOUS
<1>2. PICK s \in Chunks : s = got[w]
  BY QuietShape
<1>3. PICK n \in Nat : n = Len(s)
  BY ChunkSeq
<1>4. PICK a \in 1..Length : a = From(w)
  BY QuietShape, RequestShape
<1>5. PICK b \in a..Length : b = To(w)
  BY <1>4, QuietShape, RequestShape
<1>6. Start(w) = a - 1
  BY <1>4, QuietShape, RequestShape
<1>7. PICK o : o = fds[file[w]].offset /\ o = a - 1 + n
  BY <1>2, <1>3, <1>6 DEF QuietReader
<1>8. Length \in Nat /\ a <= b /\ b <= Length
  BY StaticAssumption
<1>9. n = b - a + 1
  <2>1. CASE Op(w) = "range"
    <3>1. n <= b - a + 1
      BY <1>2, <1>3, <1>4, <1>5, <2>1 DEF QuietReader
    <3>2. o = Length \/ n = b - a + 1
      BY <1>2, <1>3, <1>4, <1>5, <1>7 DEF ReadAll
    <3>3. QED
      BY <1>7, <1>8, <3>1, <3>2
  <2>2. CASE Op(w) # "range"
    <3>1. o = Length /\ a = 1 /\ b = Length
      BY <1>4, <1>5, <1>7, <2>2 DEF ReadAll, From, To
    <3>2. QED
      BY <1>7, <1>8, <3>1
  <2>3. QED
    BY <2>1, <2>2
<1>10. \A i \in 1..Len(s) : s[i] = <<v, a - 1 + i>>
  BY <1>1, <1>2, <1>6 DEF QuietReader
<1>11. s = SubSeq(Content(v), a, b)
  <2>1. Len(s) = b - a + 1
    BY <1>3, <1>9
  <2>2. QED
    BY <1>10, <2>1, PartOfContent
<1>12. QED
  BY <1>1, <1>2, <1>4, <1>5, <1>11

LEMMA ReplyIs ==
  ASSUME TypeOK, NEW w \in Workers, NEW status, NEW chunks, NEW pure \in BOOLEAN,
         Reply(w, status, chunks, pure)
  PROVE  reply'[w].status = status /\ reply'[w].chunks = chunks /\ reply'[w].pure = pure
<1>1. reply'[w] = [status |-> status, chunks |-> chunks, pure |-> pure]
  BY ReplyAnswers
<1>2. [status |-> status, chunks |-> chunks, pure |-> pure].status = status
  OBVIOUS
<1>3. [status |-> status, chunks |-> chunks, pure |-> pure].chunks = chunks
  OBVIOUS
<1>4. [status |-> status, chunks |-> chunks, pure |-> pure].pure = pure
  OBVIOUS
<1>5. QED
  BY <1>1, <1>2, <1>3, <1>4

\* Cut out of the content of a version, an answer is the range of that version.
LEMMA CutOfContent ==
  ASSUME Sound, NEW w \in Workers, request[w] \in Kinds, NEW v, NEW pure \in BOOLEAN,
         ReplyFrom(w, Content(v), pure)
  PROVE  /\ reply'[w].status = "sent"
         /\ reply'[w].chunks = SubSeq(Content(v), From(w), To(w))
         /\ reply'[w].pure = pure
<1>1. PICK c : c = Content(v)
  OBVIOUS
<1>2. Len(c) = Length /\ Length \in Nat
  BY <1>1, ContentSeq, StaticAssumption
<1>3. From(w) \in 1..Length /\ To(w) \in From(w)..Length
  BY RequestShape
<1>4. ~(From(w) > Len(c))
  BY <1>2, <1>3
<1>5. Min({To(w), Len(c)}) = To(w)
  BY <1>2, <1>3, MinOfTwo
<1>6. Reply(w, "sent", SubSeq(c, From(w), To(w)), pure)
  BY <1>1, <1>4, <1>5 DEF ReplyFrom
<1>7. PICK d : d = SubSeq(c, From(w), To(w))
  OBVIOUS
<1>8. Reply(w, "sent", d, pure)
  BY <1>6, <1>7
<1>9. reply'[w].status = "sent" /\ reply'[w].chunks = d /\ reply'[w].pure = pure
  BY <1>8, ReplyIs DEF Sound
<1>10. QED
  BY <1>1, <1>7, <1>9

LEMMA RightAnswers == QuietIsRight <=> \A w \in Workers : RightAnswer(w)
BY DEF QuietIsRight, RightAnswer

\* A version may be served as long as the file is open: the disk only grows.
LEMMA CurrentKept ==
  ASSUME Sound, NEW v \in Workers, [Next]_vars, pc[v] # "idle", file[v] \in Fds,
         request'[v] = request[v], info'[v] = info[v], file'[v] = file[v],
         fds[file[v]] # None, fds'[file[v]].version = fds[file[v]].version, Current(v)
  PROVE  Current(v)'
<1>1. request[v] \in Kinds /\ Path(v) \in Paths /\ info[v] \in 1..disk[Path(v)]
  BY RequestShape DEF Sound, Placed
<1>2. PICK p \in Paths : p = Path(v) /\ p = Path(v)'
  BY <1>1, KindStays
<1>3. disk[p] \in Nat /\ disk'[p] \in Nat /\ disk[p] <= disk'[p]
  BY DiskGrows DEF Sound
<1>4. fds[file[v]].version \in info[v]..disk[p]
  BY <1>2 DEF Current
<1>5. fds[file[v]].version \in info[v]..disk'[p]
  BY <1>1, <1>2, <1>3, <1>4
<1>6. QED
  BY <1>2, <1>5 DEF Current

LEMMA RightAnswerKept ==
  ASSUME Sound, NEW v \in Workers, [Next]_vars, Same(v), RightAnswer(v)
  PROVE  RightAnswer(v)'
<1>1. SUFFICES ASSUME pc[v] = "done", reply[v].pure
               PROVE  /\ reply'[v].status = "sent"
                      /\ \E u \in info'[v]..disk'[Path(v)'] :
                           reply'[v].chunks = SubSeq(Content(u), From(v)', To(v)')
  BY DEF RightAnswer, Same
<1>2. info[v] \in 1..disk[Path(v)] /\ Path(v) \in Paths
  BY <1>1, RequestShape DEF Sound, Placed
<1>3. PICK p \in Paths : p = Path(v) /\ p = Path(v)'
  BY <1>2, KindStays DEF Same
<1>4. disk[p] \in Nat /\ disk'[p] \in Nat /\ disk[p] <= disk'[p]
  BY DiskGrows DEF Sound
<1>5. PICK u \in info[v]..disk[p] : reply[v].chunks = SubSeq(Content(u), From(v), To(v))
  BY <1>1, <1>3 DEF RightAnswer
<1>6. u \in info[v]..disk'[p]
  BY <1>2, <1>3, <1>4
<1>7. From(v)' = From(v) /\ To(v)' = To(v)
  BY KindStays DEF Same
<1>8. reply'[v].chunks = SubSeq(Content(u), From(v)', To(v)')
  BY <1>5, <1>7 DEF Same
<1>9. reply'[v].status = "sent"
  BY <1>1 DEF RightAnswer, Same
<1>10. QED
  BY <1>3, <1>6, <1>8, <1>9 DEF Same

LEMMA QuietReaderKept ==
  ASSUME Sound, NEW v \in Workers, [Next]_vars, Same(v), pc[v] = "read",
         fds'[file[v]] = fds[file[v]], QuietReader(v)
  PROVE  QuietReader(v)'
<1>1. file[v] \in Fds
  BY DEF Sound, Placed, HasFile
<1>2. Current(v)'
  BY <1>1, CurrentKept DEF QuietReader, Same
<1>3. /\ Op(v)' = Op(v) /\ From(v)' = From(v) /\ To(v)' = To(v) /\ Start(v)' = Start(v)
      /\ (Buffers(v)' <=> Buffers(v))
  BY KindStays DEF Same
<1>4. fds'[file'[v]] = fds[file[v]] /\ got'[v] = got[v]
  BY DEF Same
<1>5. QED
  BY <1>2, <1>3, <1>4 DEF QuietReader

LEMMA QuietBystander ==
  ASSUME Sound, AllQuiet, NEW v \in Workers, [Next]_vars, Same(v), FileKept(v)
  PROVE  Quiet(v)' /\ RightAnswer(v)'
<1>1. Quiet(v) /\ RightAnswer(v)
  BY RightAnswers DEF AllQuiet
<1>2. pc[v] \in HasFile => file[v] \in Fds
  BY DEF Sound, Placed
<1>3. pc'[v] = "put" => Current(v)' /\ (fds[file[v]].offset = Start(v))'
  <2>1. SUFFICES ASSUME pc[v] = "put" PROVE Current(v)' /\ (fds[file[v]].offset = Start(v))'
    BY DEF Same
  <2>2. fds[file[v]] # None /\ fds'[file[v]] = fds[file[v]] /\ file[v] \in Fds
    BY <1>2, <2>1 DEF FileKept, Sound, Placed, Private, HasFile
  <2>3. Current(v)'
    BY <1>1, <2>1, <2>2, CurrentKept DEF Quiet, Same
  <2>4. Start(v)' = Start(v)
    BY KindStays DEF Same
  <2>5. QED
    BY <1>1, <2>1, <2>2, <2>3, <2>4 DEF Quiet, Same
<1>4. pc'[v] = "seek" /\ ~spoiled'[v] /\ fds'[file'[v]] # None => Current(v)'
  <2>1. SUFFICES ASSUME pc[v] = "seek", ~spoiled[v], fds'[file[v]] # None PROVE Current(v)'
    BY DEF Same
  <2>2. file[v] \in Fds /\ OpenKept(file[v])
    BY <1>2, <2>1 DEF FileKept, HasFile
  <2>3. QED
    BY <1>1, <2>1, <2>2, CurrentKept DEF Quiet, Same, OpenKept
<1>5. pc'[v] = "read" /\ ~spoiled'[v] => QuietReader(v)'
  BY <1>1, QuietReaderKept DEF Quiet, Same, FileKept
<1>6. RightAnswer(v)'
  BY <1>1, RightAnswerKept
<1>7. pc'[v] \in BeforeRead /\ ~spoiled'[v] => got'[v] = <<>>
  BY <1>1 DEF Quiet, Same
<1>8. QED
  BY <1>3, <1>4, <1>5, <1>6, <1>7 DEF Quiet

\* The steps after which w has no file, or has not yet opened or moved one.
LEMMA QuietMove ==
  ASSUME Sound, AllQuiet, NEW w \in Workers, got'[w] = got[w],
         pc[w] \in BeforeRead, spoiled[w] => spoiled'[w],
         pc'[w] \in {"lookup", "check", "open", "stream"}
  PROVE  Quiet(w)' /\ RightAnswer(w)'
<1>1. pc'[w] \in BeforeRead /\ ~spoiled'[w] => got'[w] = <<>>
  BY DEF AllQuiet, Quiet
<1>2. QED
  BY <1>1 DEF Quiet, RightAnswer

\* An answer that is not pure is none that the property is about.
LEMMA ImpureAnswer ==
  ASSUME Sound, NEW w \in Workers, NEW status, NEW chunks,
         Reply(w, status, chunks, FALSE)
  PROVE  Quiet(w)' /\ RightAnswer(w)'
<1>1. pc'[w] = "done" /\ reply'[w].pure = FALSE
  BY ReplyAnswers, ReplyIs DEF Sound
<1>2. QED
  BY <1>1 DEF Quiet, RightAnswer, BeforeRead

\* An answer of the range of a version that is current.
LEMMA PureAnswer ==
  ASSUME Sound, NEW w \in Workers, pc'[w] = "done", request'[w] = request[w],
         info'[w] = info[w], disk' = disk,
         reply'[w].status = "sent",
         NEW v \in info[w]..disk[Path(w)],
         reply'[w].chunks = SubSeq(Content(v), From(w), To(w))
  PROVE  Quiet(w)' /\ RightAnswer(w)'
<1>1. Path(w)' = Path(w) /\ From(w)' = From(w) /\ To(w)' = To(w)
  BY KindStays
<1>2. RightAnswer(w)'
  BY <1>1 DEF RightAnswer
<1>3. QED
  BY <1>2 DEF Quiet, BeforeRead

LEMMA QuietMemoryHit ==
  ASSUME Sound, AllQuiet, NEW w \in Workers, MemoryHit(w)
  PROVE  Quiet(w)' /\ RightAnswer(w)'
<1>1. /\ request[w] \in Kinds /\ Path(w) \in Paths /\ request'[w] = request[w]
      /\ info'[w] = info[w] /\ disk' = disk /\ info[w] \in 1..disk[Path(w)]
  <2>1. pc[w] # "idle" /\ UNCHANGED task /\ disk' = disk
    BY DEF MemoryHit
  <2>2. QED
    BY <2>1, RequestShape DEF task, Sound, Placed
<1>2. PICK p \in Paths : p = Path(w)
  BY <1>1
<1>3. PICK c \in Chunks : c = contents[p].data
  BY <1>2, ContentShape DEF MemoryHit, InCache, Sound
<1>4. /\ contents[p] # None /\ contents[p].modTime \in 1..disk[p] /\ info[w] <= contents[p].modTime
      /\ contents[p].pure \in BOOLEAN
  BY <1>2, ContentShape DEF MemoryHit, InCache, Sound
<1>5. CASE contents[p].pure
  <2>1. PICK v \in contents[p].modTime..disk[p] : c = Content(v)
    BY <1>3, <1>4, <1>5 DEF AllQuiet, ContentsCurrent
  <2>2. v \in info[w]..disk[p]
    <3>1. disk[p] \in Nat
      BY DEF Sound, TypeOK
    <3>2. QED
      BY <1>1, <1>2, <1>4, <3>1
  <2>3. PICK g \in BOOLEAN : g = contents[p].pure
    BY <1>4
  <2>4. ReplyFrom(w, Content(v), g)
    BY <1>2, <1>3, <2>1, <2>3 DEF MemoryHit
  <2>5. /\ reply'[w].status = "sent"
        /\ reply'[w].chunks = SubSeq(Content(v), From(w), To(w))
    BY <1>1, <2>4, CutOfContent
  <2>6. pc'[w] = "done"
    BY DEF MemoryHit, ReplyFrom, Reply, Goto, Sound, TypeOK
  <2>7. QED
    BY <1>1, <1>2, <2>2, <2>5, <2>6, PureAnswer
<1>6. CASE ~contents[p].pure
  <2>1. ReplyFrom(w, c, FALSE)
    BY <1>2, <1>3, <1>4, <1>6 DEF MemoryHit
  <2>2. PICK status, chunks : Reply(w, status, chunks, FALSE)
    BY <2>1 DEF ReplyFrom
  <2>3. QED
    BY <2>2, ImpureAnswer
<1>7. QED
  BY <1>5, <1>6

LEMMA QuietFdCheck ==
  ASSUME Sound, AllQuiet, NEW w \in Workers, FdCheck(w)
  PROVE  Quiet(w)' /\ RightAnswer(w)'
<1>1. /\ pc[w] = "check" /\ UNCHANGED <<disk, task, got>>
      /\ spoiled[w] => spoiled'[w]
  BY DEF FdCheck, Spoil
<1>2. CASE LetGo(w) /\ Goto(w, OpenPc(w))
  <2>1. pc'[w] \in {"open", "stream"}
    BY <1>2, OpenPcShape DEF Goto, Sound, TypeOK
  <2>2. QED
    BY <1>1, <2>1, QuietMove DEF BeforeRead
<1>3. CASE /\ descriptors[Path(w)] # None /\ info[w] <= descriptors[Path(w)].modTime
           /\ Goto(w, "seek")
           /\ Spoil(IF descriptors[Path(w)] # None /\ descriptors[Path(w)].file = file[w]
                      THEN {} ELSE {w})
           /\ UNCHANGED <<file, fds>>
  <2>1. pc'[w] = "seek"
    BY <1>3 DEF Goto, Sound, TypeOK
  <2>2. pc'[w] \in BeforeRead /\ ~spoiled'[w] => got'[w] = <<>>
    BY <1>1 DEF AllQuiet, Quiet, BeforeRead
  <2>3. ASSUME ~spoiled'[w] PROVE Current(w)'
    <3>1. descriptors[Path(w)].file = file[w]
      BY <1>3, <2>3 DEF Spoil
    <3>2. PICK p \in Opened : p = Path(w)
      <4>1. Path(w) \in Paths
        BY <1>1, RequestShape DEF Sound, Placed
      <4>2. QED
        BY <1>3, <4>1 DEF Opened
    <3>3. fds[descriptors[p].file].version \in descriptors[p].modTime..disk[p]
      BY DEF AllQuiet, DescriptorsCurrent
    <3>4. descriptors[p].modTime \in Nat /\ info[w] \in Nat /\ disk[p] \in Nat
      <4>1. descriptors[p].modTime \in 1..MaxVersion
        BY DescriptorShape DEF Sound
      <4>2. info[w] \in 0..MaxVersion /\ disk[p] \in 1..MaxVersion
        BY DEF Sound, TypeOK, Opened
      <4>3. QED
        BY <4>1, <4>2, StaticAssumption
    <3>5. info[w] <= descriptors[p].modTime
      BY <1>3, <3>2
    <3>6. fds[file[w]].version \in info[w]..disk[p]
      BY <3>1, <3>2, <3>3, <3>4, <3>5
    <3>7. Path(w)' = Path(w) /\ info'[w] = info[w]
      BY <1>1, KindStays DEF task
    <3>8. QED
      BY <1>1, <1>3, <3>2, <3>6, <3>7 DEF Current
  <2>4. QED
    BY <2>1, <2>2, <2>3 DEF Quiet, RightAnswer
<1>4. QED
  BY <1>2, <1>3 DEF FdCheck

\* A goroutine that begins to read with the offset where it has to be.
LEMMA QuietBegins ==
  ASSUME Sound, NEW w \in Workers, pc'[w] = "read", request'[w] = request[w],
         request[w] \in Kinds,
         ~spoiled'[w] =>
           /\ got'[w] = <<>> /\ fds'[file'[w]] # None
           /\ Current(w)' /\ fds'[file'[w]].offset = Start(w)
  PROVE  Quiet(w)' /\ RightAnswer(w)'
<1>1. /\ Op(w)' = Op(w) /\ From(w)' = From(w) /\ To(w)' = To(w) /\ Start(w)' = Start(w)
      /\ (Buffers(w)' <=> Buffers(w))
  BY KindStays
<1>2. Start(w) \in Nat /\ From(w) \in Int /\ To(w) - From(w) + 1 >= 0
  BY RequestShape, StaticAssumption
<1>3. ASSUME ~spoiled'[w] PROVE QuietReader(w)'
  <2>1. got'[w] = <<>> /\ Len(got'[w]) = 0
    BY <1>3, NoChunks
  <2>2. fds'[file'[w]].offset = Start(w)' + Len(got'[w])
    BY <1>1, <1>2, <1>3, <2>1
  <2>3. \A i \in 1..Len(got'[w]) : got'[w][i] = <<fds'[file'[w]].version, Start(w)' + i>>
    BY <2>1
  <2>4. Len(got'[w]) <= To(w)' - From(w)' + 1
    BY <1>1, <1>2, <2>1
  <2>5. QED
    BY <1>3, <2>2, <2>3, <2>4 DEF QuietReader
<1>4. QED
  BY <1>3 DEF Quiet, RightAnswer, BeforeRead

LEMMA QuietSeek ==
  ASSUME Sound, AllQuiet, [Next]_vars, NEW w \in Workers, Seek(w)
  PROVE  Quiet(w)' /\ RightAnswer(w)'
<1>1. /\ pc[w] = "seek" /\ pc'[w] = "read" /\ request[w] \in Kinds /\ file[w] \in Fds
      /\ request'[w] = request[w] /\ info'[w] = info[w] /\ file'[w] = file[w]
      /\ got'[w] = got[w] /\ fds[file[w]] # None
      /\ spoiled[w] => spoiled'[w]
  BY DEF Seek, Goto, Spoil, task, Sound, TypeOK, Placed, HasFile
<1>2. /\ fds'[file[w]] # None /\ fds'[file[w]].version = fds[file[w]].version
      /\ fds'[file[w]].offset = Start(w)
  BY SeekKeeps
<1>3. ~spoiled[w] => got[w] = <<>> /\ Current(w)
  BY <1>1 DEF AllQuiet, Quiet, BeforeRead
<1>4. ~spoiled[w] => Current(w)'
  BY <1>1, <1>2, <1>3, CurrentKept
<1>5. QED
  BY <1>1, <1>2, <1>3, <1>4, QuietBegins

LEMMA QuietOpen ==
  ASSUME Sound, AllQuiet, NEW w \in Workers, Open(w)
  PROVE  Quiet(w)' /\ RightAnswer(w)'
<1>1. /\ pc[w] \in BeforeRead /\ pc[w] # "idle" /\ request[w] \in Kinds
      /\ request'[w] = request[w] /\ info'[w] = info[w] /\ got'[w] = got[w]
      /\ disk' = disk /\ spoiled' = spoiled
      /\ info[w] \in 1..disk[Path(w)] /\ Path(w) \in Paths
  BY RequestShape DEF Open, task, Sound, Placed, BeforeRead
<1>2. /\ pc'[w] \in {"put", "read"} /\ fds'[file'[w]] # None
      /\ fds'[file'[w]] = [version |-> disk[Path(w)], offset |-> Start(w)]
  BY OpenPlaces, OpenKeeps DEF Private
<1>3. fds'[file'[w]].version = disk[Path(w)] /\ fds'[file'[w]].offset = Start(w)
  BY <1>2
<1>4. Path(w)' = Path(w) /\ Start(w)' = Start(w)
  BY <1>1, KindStays
<1>5. Current(w)'
  <2>1. disk[Path(w)] \in Nat
    BY <1>1 DEF Sound, TypeOK
  <2>2. disk[Path(w)] \in info[w]..disk[Path(w)]
    BY <1>1, <2>1
  <2>3. QED
    BY <1>1, <1>3, <1>4, <2>2 DEF Current
<1>6. ~spoiled'[w] => got'[w] = <<>>
  BY <1>1 DEF AllQuiet, Quiet
<1>7. CASE pc'[w] = "put"
  BY <1>3, <1>4, <1>5, <1>6, <1>7 DEF Quiet, RightAnswer
<1>8. CASE pc'[w] = "read"
  BY <1>1, <1>2, <1>3, <1>5, <1>6, <1>8, QuietBegins
<1>9. QED
  BY <1>2, <1>7, <1>8

LEMMA QuietFdSet ==
  ASSUME Sound, AllQuiet, [Next]_vars, NEW w \in Workers, FdSet(w)
  PROVE  Quiet(w)' /\ RightAnswer(w)'
<1>1. PICK ps \in SUBSET Opened : Enter(w, ps)
  BY DEF FdSet
<1>2. /\ pc[w] = "put" /\ pc'[w] = "read" /\ request[w] \in Kinds /\ file[w] \in Fds
      /\ request'[w] = request[w] /\ info'[w] = info[w] /\ file'[w] = file[w]
      /\ got'[w] = got[w] /\ fds[file[w]] # None
      /\ spoiled[w] => spoiled'[w]
  BY <1>1 DEF FdSet, Enter, Goto, Spoil, task, Sound, TypeOK, Placed, Private, HasFile
<1>3. fds'[file[w]] = fds[file[w]]
  BY <1>1, <1>2, EnterKeeps
<1>4. Current(w) /\ fds[file[w]].offset = Start(w)
  BY <1>2 DEF AllQuiet, Quiet
<1>5. ~spoiled[w] => got[w] = <<>>
  BY <1>2 DEF AllQuiet, Quiet, BeforeRead
<1>6. Current(w)'
  BY <1>2, <1>3, <1>4, CurrentKept
<1>7. QED
  BY <1>2, <1>3, <1>4, <1>5, <1>6, QuietBegins

LEMMA QuietRead ==
  ASSUME Sound, AllQuiet, [Next]_vars, NEW w \in Workers, Read(w)
  PROVE  Quiet(w)' /\ RightAnswer(w)'
<1>1. /\ pc[w] = "read" /\ pc'[w] = "read" /\ request'[w] = request[w] /\ info'[w] = info[w]
      /\ file'[w] = file[w] /\ fds[file[w]] # None /\ spoiled'[w] = spoiled[w] /\ ~ReadAll(w)
  BY DEF Read, task
<1>2. SUFFICES ASSUME ~spoiled[w] PROVE QuietReader(w)'
  BY <1>1 DEF Quiet, RightAnswer, BeforeRead
<1>3. QuietReader(w)
  BY <1>1, <1>2 DEF AllQuiet, Quiet
<1>4. PICK s \in Chunks : s = got[w]
  BY <1>1, <1>3, QuietShape
<1>5. PICK n \in Nat : n = Len(s)
  BY ChunkSeq
<1>6. PICK o \in OpenFile : o = fds[file[w]]
  BY <1>1, <1>3, QuietShape
<1>7. PICK b \in Nat : b = Start(w)
  BY <1>1, <1>3, QuietShape, RequestShape
<1>8. o.offset = b + n
  BY <1>3, <1>4, <1>5, <1>6, <1>7 DEF QuietReader
<1>9. PICK c : c = <<o.version, b + n + 1>>
  OBVIOUS
<1>10. PICK t : t = Append(s, c)
  OBVIOUS
<1>11. got'[w] = t
  BY <1>4, <1>6, <1>8, <1>9, <1>10 DEF Read, Sound, TypeOK
<1>12. /\ Len(t) = n + 1
       /\ \A i \in 1..n : t[i] = s[i]
       /\ t[n + 1] = c
  <2>1. o.offset # Length
    BY <1>6, <1>1 DEF ReadAll
  <2>2. c \in (1..MaxVersion) \X (1..Length)
    BY <1>7, <1>8, <1>9, <2>1, OpenFileShape, StaticAssumption
  <2>3. s \in Seq((1..MaxVersion) \X (1..Length))
    BY ChunkSeq
  <2>4. QED
    BY <1>5, <1>10, <2>2, <2>3, AppendProperties
<1>13. \A i \in 1..Len(t) : t[i] = <<o.version, b + i>>
  <2>1. \A i \in 1..n : s[i] = <<o.version, b + i>>
    BY <1>3, <1>4, <1>5, <1>6, <1>7 DEF QuietReader
  <2>2. ASSUME NEW i \in 1..(n + 1) PROVE t[i] = <<o.version, b + i>>
    <3>1. CASE i \in 1..n
      BY <1>12, <2>1, <3>1
    <3>2. CASE i = n + 1
      <4>1. b + n + 1 = b + i
        BY <3>2
      <4>2. QED
        BY <1>9, <1>12, <3>2, <4>1
    <3>3. QED
      BY <3>1, <3>2
  <2>3. QED
    BY <1>12, <2>2
<1>14. /\ fds'[file[w]] # None
       /\ fds'[file[w]].version = o.version /\ fds'[file[w]].offset = b + n + 1
  BY <1>6, <1>8, ReadKeeps
<1>15. Current(w)'
  <2>1. file[w] \in Fds
    BY <1>1 DEF Sound, Placed, HasFile
  <2>2. QED
    BY <1>1, <1>3, <1>6, <1>14, <2>1, CurrentKept DEF QuietReader
<1>16. Op(w) = "range" /\ ~Buffers(w) => Len(t) <= To(w) - From(w) + 1
  <2>1. To(w) \in Int /\ From(w) \in Int
    BY <1>1, <1>3, QuietShape, RequestShape, StaticAssumption
  <2>2. QED
    BY <1>1, <1>3, <1>4, <1>5, <1>12, <2>1 DEF QuietReader, ReadAll
<1>17. /\ Op(w)' = Op(w) /\ From(w)' = From(w) /\ To(w)' = To(w) /\ Start(w)' = Start(w)
       /\ (Buffers(w)' <=> Buffers(w))
  BY <1>1, KindStays
<1>18. fds'[file'[w]].offset = Start(w)' + Len(got'[w])
  BY <1>1, <1>7, <1>11, <1>12, <1>14, <1>17
<1>19. QED
  BY <1>1, <1>7, <1>11, <1>13, <1>14, <1>15, <1>16, <1>17, <1>18 DEF QuietReader

\* The answers of those who have read; one that has been interfered with is
\* impure, for another the lemmas on quiet readers say what it is.
LEMMA QuietBuffered ==
  ASSUME Sound, AllQuiet, NEW w \in Workers, Buffered(w)
  PROVE  Quiet(w)' /\ RightAnswer(w)'
<1>1. /\ pc[w] = "read" /\ ReadAll(w) /\ Buffers(w) /\ disk' = disk
      /\ request'[w] = request[w] /\ info'[w] = info[w]
  BY DEF Buffered, task
<1>2. CASE spoiled[w]
  <2>1. ReplyFrom(w, got[w], FALSE)
    <3>1. (~spoiled[w]) = FALSE
      BY <1>2
    <3>2. QED
      BY <3>1 DEF Buffered
  <2>2. PICK status, chunks : Reply(w, status, chunks, FALSE)
    BY <2>1 DEF ReplyFrom
  <2>3. QED
    BY <2>2, ImpureAnswer
<1>3. CASE ~spoiled[w]
  <2>1. QuietReader(w)
    BY <1>1, <1>3 DEF AllQuiet, Quiet
  <2>2. PICK v \in info[w]..disk[Path(w)] : v = fds[file[w]].version
    BY <1>1, <2>1, QuietShape
  <2>3. request[w] \in Kinds /\ got[w] = Content(v)
    BY <1>1, <2>1, <2>2, QuietShape, BufferIsContent
  <2>4. PICK g \in BOOLEAN : g = ~spoiled[w]
    BY Negation
  <2>5. ReplyFrom(w, Content(v), g)
    BY <2>3, <2>4 DEF Buffered
  <2>6. /\ reply'[w].status = "sent"
        /\ reply'[w].chunks = SubSeq(Content(v), From(w), To(w))
    BY <2>3, <2>5, CutOfContent
  <2>7. pc'[w] = "done"
    BY DEF Buffered, ReplyFrom, Reply, Goto, Sound, TypeOK
  <2>8. QED
    BY <1>1, <2>6, <2>7, PureAnswer
<1>4. QED
  BY <1>2, <1>3

LEMMA QuietCopied ==
  ASSUME Sound, AllQuiet, NEW w \in Workers, Copied(w)
  PROVE  Quiet(w)' /\ RightAnswer(w)'
<1>1. /\ pc[w] = "read" /\ ReadAll(w) /\ ~Buffers(w) /\ disk' = disk
      /\ request'[w] = request[w] /\ info'[w] = info[w]
  BY DEF Copied, task
<1>2. PICK s : s = got[w]
  OBVIOUS
<1>3. PICK g \in BOOLEAN : g = ~spoiled[w]
  BY Negation
<1>4. Reply(w, "sent", s, g)
  BY <1>2, <1>3 DEF Copied
<1>5. CASE spoiled[w]
  <2>1. g = FALSE
    BY <1>3, <1>5
  <2>2. QED
    BY <1>4, <2>1, ImpureAnswer
<1>6. CASE ~spoiled[w]
  <2>1. QuietReader(w)
    BY <1>1, <1>6 DEF AllQuiet, Quiet
  <2>2. PICK v \in info[w]..disk[Path(w)] : v = fds[file[w]].version
    BY <1>1, <2>1, QuietShape
  <2>3. s = SubSeq(Content(v), From(w), To(w))
    BY <1>1, <1>2, <2>1, <2>2, CopyIsCut
  <2>4. reply'[w].status = "sent" /\ reply'[w].chunks = s
    BY <1>4, ReplyIs DEF Sound
  <2>5. pc'[w] = "done"
    BY <1>4 DEF Reply, Goto, Sound, TypeOK
  <2>6. QED
    BY <1>1, <2>3, <2>4, <2>5, PureAnswer
<1>7. QED
  BY <1>5, <1>6

\* A file that is closed under its reader has spoiled what it reads.
LEMMA QuietReadFails ==
  ASSUME Sound, AllQuiet, NEW w \in Workers, ReadFails(w)
  PROVE  Quiet(w)' /\ RightAnswer(w)'
<1>1. pc[w] = "read" /\ spoiled[w]
  BY DEF ReadFails, AllQuiet, Quiet, QuietReader
<1>2. CASE \E status, chunks : Reply(w, status, chunks, ~spoiled[w])
  <2>1. PICK status, chunks : Reply(w, status, chunks, ~spoiled[w])
    BY <1>2
  <2>2. (~spoiled[w]) = FALSE
    BY <1>1
  <2>3. Reply(w, status, chunks, FALSE)
    BY <2>1, <2>2
  <2>4. QED
    BY <2>3, ImpureAnswer
<1>3. CASE Drop({Path(w)} \cap Opened) /\ Goto(w, "stream")
  <2>1. pc'[w] = "stream" /\ spoiled'[w]
    BY <1>1, <1>3 DEF Goto, Drop, Spoil, Sound, TypeOK
  <2>2. QED
    BY <2>1 DEF Quiet, RightAnswer
<1>4. QED
  BY <1>2, <1>3 DEF ReadFails

LEMMA QuietActor ==
  ASSUME Sound, AllQuiet, [Next]_vars, NEW w \in Workers, ServeFile(w)
  PROVE  Quiet(w)' /\ RightAnswer(w)'
<1>1. CASE Stat(w)
  <2>1. got'[w] = <<>>
    BY <1>1 DEF Stat, Sound, Placed
  <2>2. pc'[w] \in {"stream", "memory", "lookup"}
    BY <1>1 DEF Stat, Goto, Sound, TypeOK
  <2>3. QED
    BY <2>1, <2>2 DEF Quiet, RightAnswer
<1>2. CASE Done(w)
  <2>1. pc'[w] = "idle" /\ got'[w] = <<>>
    BY <1>2 DEF Done, Goto, Sound, TypeOK
  <2>2. QED
    BY <2>1 DEF Quiet, RightAnswer
<1>3. CASE MemoryMiss(w) \/ FdGet(w) \/ SeekFails(w)
  <2>1. pc[w] \in BeforeRead /\ got'[w] = got[w] /\ (spoiled[w] => spoiled'[w])
    BY <1>3 DEF MemoryMiss, FdGet, SeekFails, Drop, Spoil, BeforeRead
  <2>2. pc'[w] \in {"lookup", "check", "open", "stream"}
    BY <1>3, OpenPcShape DEF MemoryMiss, FdGet, SeekFails, Goto, Sound, TypeOK
  <2>3. QED
    BY <2>1, <2>2, QuietMove
<1>4. CASE OpenFails(w)
  BY <1>4, ImpureAnswer DEF OpenFails
<1>5. QED
  BY <1>1, <1>2, <1>3, <1>4, QuietMemoryHit, QuietFdCheck, QuietSeek, QuietOpen, QuietFdSet,
     QuietRead, QuietBuffered, QuietCopied, QuietReadFails DEF ServeFile

\* What FDCache.Set enters was opened for it, at a version that is current.
LEMMA DescriptorsCurrentStep ==
  ASSUME Sound, AllQuiet, [Next]_vars
  PROVE  DescriptorsCurrent'
<1>1. ASSUME NEW p \in Paths, p \in Opened, descriptors'[p] = descriptors[p],
             OpenKept(descriptors[p].file)
      PROVE  fds'[descriptors'[p].file].version \in descriptors'[p].modTime..disk'[p]
  <2>1. disk[p] \in Nat /\ disk'[p] \in Nat /\ disk[p] <= disk'[p]
    BY DiskGrows, StaticAssumption DEF Sound
  <2>2. fds[descriptors[p].file].version \in descriptors[p].modTime..disk[p]
    BY <1>1 DEF AllQuiet, DescriptorsCurrent
  <2>3. descriptors[p].modTime \in Nat
    BY <1>1, DescriptorShape DEF Sound
  <2>4. QED
    BY <1>1, <2>1, <2>2, <2>3 DEF OpenKept
<1>2. CASE CacheKept
  BY <1>1, <1>2 DEF CacheKept, DescriptorsCurrent, Opened
<1>3. CASE \E w \in Workers : FdSet(w)
  <2>1. PICK w \in Workers, ps \in SUBSET Opened : pc[w] = "put" /\ Enter(w, ps)
    BY <1>3 DEF FdSet
  <2>2. /\ request[w] \in Kinds /\ Path(w) \in Paths /\ disk' = disk
        /\ fds'[file[w]] = fds[file[w]]
        /\ descriptors'[Path(w)] = [file |-> file[w], modTime |-> info[w]]
    BY <2>1, RequestShape, EnterKeeps DEF Enter, Sound, Placed
  <2>3. Current(w)
    BY <2>1 DEF AllQuiet, Quiet
  <2>4. /\ descriptors'[Path(w)].file = file[w]
        /\ descriptors'[Path(w)].modTime = info[w]
    BY <2>2
  <2>5. fds'[descriptors'[Path(w)].file].version \in descriptors'[Path(w)].modTime..disk'[Path(w)]
    BY <2>2, <2>3, <2>4 DEF Current
  <2>6. \A p \in Paths \ {Path(w)} : descriptors'[p] # None =>
          fds'[descriptors'[p].file].version \in descriptors'[p].modTime..disk'[p]
    BY <1>1, <2>1, EnterKeeps
  <2>7. QED
    BY <2>5, <2>6 DEF DescriptorsCurrent, Opened
<1>4. CASE \E w \in Workers : ServeFile(w) /\ ~FdSet(w)
  BY <1>2, <1>4, CacheStays
<1>5. CASE ~\E w \in Workers : ServeFile(w)
  BY <1>2, <1>5, BesidesKeeps DEF Next
<1>6. QED
  BY <1>3, <1>4, <1>5

\* What a quiet reader puts into the cache of contents is the content of a version.
LEMMA ContentsCurrentStep ==
  ASSUME Sound, AllQuiet, [Next]_vars
  PROVE  ContentsCurrent'
<1>1. SUFFICES ASSUME NEW p \in Paths, contents'[p] # None, contents'[p].pure
               PROVE  \E v \in contents'[p].modTime..disk'[p] : contents'[p].data = Content(v)
  BY DEF ContentsCurrent, Content
<1>2. disk[p] \in Nat /\ disk'[p] \in Nat /\ disk[p] <= disk'[p]
  BY DiskGrows, StaticAssumption DEF Sound
<1>3. CASE contents'[p] = contents[p]
  <2>1. contents[p].modTime \in Nat
    BY <1>1, <1>3, ContentShape DEF Sound
  <2>2. PICK v \in contents[p].modTime..disk[p] : contents[p].data = Content(v)
    BY <1>1, <1>3 DEF AllQuiet, ContentsCurrent
  <2>3. v \in contents[p].modTime..disk'[p]
    BY <1>2, <2>1
  <2>4. QED
    BY <1>3, <2>2, <2>3
<1>4. CASE contents'[p] # contents[p]
  <2>1. PICK w \in Workers :
          /\ Buffered(w) /\ p = Path(w)
          /\ contents'[p] = [data |-> got[w], modTime |-> info[w], pure |-> ~spoiled[w]]
    BY <1>1, <1>4, ContentsChange
  <2>2. PICK g \in BOOLEAN : g = ~spoiled[w]
    BY Negation
  <2>3. contents'[p] = [data |-> got[w], modTime |-> info[w], pure |-> g]
    BY <2>1, <2>2
  <2>4. contents'[p].data = got[w] /\ contents'[p].modTime = info[w]
    BY <2>3
  <2>5. contents'[p].pure = g
    BY <2>3
  <2>6. ~spoiled[w]
    BY <1>1, <2>2, <2>5
  <2>7. pc[w] = "read" /\ ReadAll(w) /\ Buffers(w) /\ QuietReader(w) /\ disk' = disk
    BY <2>1, <2>6 DEF Buffered, AllQuiet, Quiet
  <2>8. fds[file[w]].version \in info[w]..disk[p] /\ got[w] = Content(fds[file[w]].version)
    BY <2>1, <2>7, QuietShape, BufferIsContent
  <2>9. QED
    BY <2>4, <2>7, <2>8
<1>5. QED
  BY <1>3, <1>4

LEMMA QuietStep ==
  ASSUME Sound, AllQuiet, [Next]_vars
  PROVE  AllQuiet'
<1>1. ASSUME NEW v \in Workers PROVE Quiet(v)' /\ RightAnswer(v)'
  <2>1. CASE \E w \in Workers : ServeFile(w)
    <3>1. PICK w \in Workers : ServeFile(w)
      BY <2>1
    <3>2. CASE v = w
      BY <3>1, <3>2, QuietActor
    <3>3. CASE v # w
      BY <3>1, <3>3, Locality, OthersFilesKept, QuietBystander DEF Sound
    <3>4. QED
      BY <3>2, <3>3
  <2>2. CASE \/ \E p \in Paths : Replace(p) \/ Forget(p)
             \/ \E ps \in SUBSET Opened : Cleanup(ps)
             \/ UNCHANGED vars
    BY <2>2, BesidesKeeps, BesidesLocal, QuietBystander DEF Sound
  <2>3. QED
    BY <2>1, <2>2 DEF Next
<1>2. QuietIsRight'
  BY <1>1 DEF QuietIsRight, RightAnswer
<1>3. QED
  BY <1>1, <1>2, DescriptorsCurrentStep, ContentsCurrentStep DEF AllQuiet

LEMMA QuietInit == Init => AllQuiet
BY DEF Init, AllQuiet, Quiet, DescriptorsCurrent, ContentsCurrent, QuietIsRight, Opened

\* A request that no other goroutine has interfered with is answered with the
\* range it asked for of a version that is not older than the one there when
\* it came in, whether it was served from the cache of contents, from a cached
\* descriptor or from a file of its own, and whatever happened to the others:
\* for any number of goroutines, files, versions and chunks.
THEOREM QuietRequestsAreRight == Spec => []QuietIsRight
<1>1. Init => Sound /\ AllQuiet
  BY SoundInit, QuietInit
<1>2. Sound /\ AllQuiet /\ [Next]_vars => (Sound /\ AllQuiet)'
  BY SoundStep, QuietStep
<1>3. Sound /\ AllQuiet => QuietIsRight
  BY DEF AllQuiet
<1>4. QED
  BY <1>1, <1>2, <1>3, PTL DEF Spec

=============================================================================
