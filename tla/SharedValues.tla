---------------------------- MODULE SharedValues ----------------------------
(***************************************************************************)
(* Two values of the package that are made when they are first needed and  *)
(* that all goroutines share: the date header that WriteResponse writes    *)
(* (getDateHeader, internal/httpparser/httpparser.go), and the cache of a  *)
(* configuration (getCacheInstance and, alike, getFDCacheInstance of       *)
(* router.go).                                                             *)
(*                                                                         *)
(* The header is an array of cells, formatted and copied one by one; the   *)
(* second at which a cell was formatted stands for what is in it.  The     *)
(* slice that getDateHeader returns is the shared array, copied without    *)
(* the mutex and formatted anew in place.                                  *)
(***************************************************************************)
EXTENDS Integers, Sequences, FiniteSets

CONSTANTS Workers,  \* goroutines
          Cells,    \* the number of cells of the header
          Configs,  \* the configurations of static routes: [size, items]
          Size,     \* the size that stands for no size, 100 MB in the code
          Items,    \* the number of items that stands for none, 1000
          MaxTime,  \* bound: the last second
          MaxMade,  \* bound: cache instances made
          None      \* nil

ASSUME SharedValuesAssumption ==
  /\ Cells \in Nat
  /\ Configs \subseteq [size: Int, items: Int]
  /\ Size \in Nat \ {0} /\ Items \in Nat \ {0}
  /\ MaxTime \in Nat /\ MaxMade \in Nat
  /\ None \notin Nat \cup Workers

VARIABLES now,         \* time.Now().Unix()
          cached,      \* cachedDateHeader, <<>> if it is nil
          lastUpdate,  \* lastDateUpdate
          writer,      \* who holds dateMutex for writing, or None
          instances,   \* cacheMap.instances: the number of the cache of a key
          made,        \* how many caches have been made
          pc,          \* pc[w]: where w is
          asked,       \* asked[w]: now, in getDateHeader
          formatting,  \* formatting[w]: t
          cell,        \* cell[w]: the cells that w has formatted
          copied,      \* copied[w]: what w has copied of the header
          rewritten,   \* history: it was formatted since w got it
          key,         \* key[w]: the key that w looks for
          got,         \* got[w]: the cache that w goes on with
          missed       \* history: the keys that w did not find

date == <<cached, lastUpdate, writer, asked, formatting, cell, copied, rewritten>>
caches == <<instances, made, key, got, missed>>
vars == <<now, date, caches, pc>>

Goto(w, label) == pc' = [pc EXCEPT ![w] = label]

-----------------------------------------------------------------------------
(* The date.                                                               *)

\* Mutant of Valid: any date that has been formatted will do.
ValidOnce(s) == cached # <<>>

\* The cached header is that of the second s.
Valid(s) == s = lastUpdate /\ cached # <<>>

\* The fast path of getDateHeader, under RLock.
AskDate(w) ==
  /\ pc[w] = "idle"
  /\ writer = None
  /\ asked' = [asked EXCEPT ![w] = now]
  /\ Goto(w, IF Valid(now) THEN "copy" ELSE "lock")
  /\ UNCHANGED <<now, cached, lastUpdate, writer, formatting, cell, copied, rewritten, caches>>

\* Mutant of LockDate: the mutex is not waited for.
LockDateAnyway(w) ==
  /\ pc[w] = "lock"
  /\ IF Valid(asked[w])
       THEN Goto(w, "copy") /\ UNCHANGED <<cached, writer, formatting>>
       ELSE /\ Goto(w, "format")
            /\ writer' = w
            /\ formatting' = [formatting EXCEPT ![w] = now]
            /\ cached' = IF cached = <<>> THEN [i \in 1..Cells |-> None] ELSE cached
  /\ UNCHANGED <<now, lastUpdate, asked, cell, copied, rewritten, caches>>

\* The slow path: it looks again for the second it has asked for.
LockDate(w) ==
  /\ pc[w] = "lock"
  /\ writer = None
  /\ IF Valid(asked[w])
       THEN Goto(w, "copy") /\ UNCHANGED <<cached, writer, formatting>>
       ELSE /\ Goto(w, "format")
            /\ writer' = w
            /\ formatting' = [formatting EXCEPT ![w] = now]
            /\ cached' = IF cached = <<>> THEN [i \in 1..Cells |-> None] ELSE cached
  /\ UNCHANGED <<now, lastUpdate, asked, cell, copied, rewritten, caches>>

\* A cell is formatted, in the array that others may be copying.
Format(w) ==
  /\ pc[w] = "format" /\ cell[w] < Cells
  /\ cached' = [cached EXCEPT ![cell[w] + 1] = formatting[w]]
  /\ cell' = [cell EXCEPT ![w] = @ + 1]
  /\ rewritten' = [u \in Workers |-> rewritten[u] \/ pc[u] = "copy"]
  /\ UNCHANGED <<now, lastUpdate, writer, asked, formatting, copied, caches, pc>>

\* lastDateUpdate is the second asked for, not the one formatted.
Formatted(w) ==
  /\ pc[w] = "format" /\ cell[w] = Cells
  /\ lastUpdate' = asked[w]
  /\ writer' = None
  /\ cell' = [cell EXCEPT ![w] = 0]
  /\ Goto(w, "copy")
  /\ UNCHANGED <<now, cached, asked, formatting, copied, rewritten, caches>>

\* WriteResponse copies the header.
Copy(w) ==
  /\ pc[w] = "copy" /\ Len(copied[w]) < Cells
  /\ copied' = [copied EXCEPT ![w] = Append(@, cached[Len(@) + 1])]
  /\ UNCHANGED <<now, cached, lastUpdate, writer, asked, formatting, cell, rewritten, caches, pc>>

Dated(w) == pc[w] = "copy" /\ Len(copied[w]) = Cells

Respond(w) ==
  /\ Dated(w)
  /\ copied' = [copied EXCEPT ![w] = <<>>]
  /\ rewritten' = [rewritten EXCEPT ![w] = FALSE]
  /\ asked' = [asked EXCEPT ![w] = 0]
  /\ formatting' = [formatting EXCEPT ![w] = 0]
  /\ Goto(w, "idle")
  /\ UNCHANGED <<now, cached, lastUpdate, writer, cell, caches>>

-----------------------------------------------------------------------------
(* The caches.                                                             *)

\* The key of a configuration, with the defaults put in.
Key(c) == <<IF c.size <= 0 THEN Size ELSE c.size, IF c.items <= 0 THEN Items ELSE c.items>>

\* With neither value there is filecache.DefaultCache, which is always there.
HasKey(c) == c.size > 0 \/ c.items > 0

Keys == {Key(c) : c \in {d \in Configs : HasKey(d)}}

\* The lookup under RLock.
Look(w, c) ==
  /\ pc[w] = "idle" /\ HasKey(c)
  /\ key' = [key EXCEPT ![w] = Key(c)]
  /\ IF instances[Key(c)] # None
       THEN /\ got' = [got EXCEPT ![w] = instances[Key(c)]]
            /\ Goto(w, "use")
            /\ UNCHANGED missed
       ELSE /\ missed' = [missed EXCEPT ![w] = @ \cup {Key(c)}]
            /\ Goto(w, "make")
            /\ UNCHANGED got
  /\ UNCHANGED <<now, date, instances, made>>

\* NewCache, with no lock held.
Make(w) ==
  /\ pc[w] = "make" /\ made < MaxMade
  /\ made' = made + 1
  /\ got' = [got EXCEPT ![w] = made + 1]
  /\ Goto(w, "store")
  /\ UNCHANGED <<now, date, instances, key, missed>>

\* Mutant of Store: what has been made is not kept.
StoreNothing(w) ==
  /\ pc[w] = "store"
  /\ Goto(w, "use")
  /\ UNCHANGED <<now, date, caches>>

\* It is stored in place of whatever has been stored meanwhile.
Store(w) ==
  /\ pc[w] = "store"
  /\ instances' = [instances EXCEPT ![key[w]] = got[w]]
  /\ Goto(w, "use")
  /\ UNCHANGED <<now, date, made, key, got, missed>>

Leave(w) ==
  /\ pc[w] = "use"
  /\ got' = [got EXCEPT ![w] = None]
  /\ key' = [key EXCEPT ![w] = None]
  /\ Goto(w, "idle")
  /\ UNCHANGED <<now, date, instances, made, missed>>

-----------------------------------------------------------------------------
Init ==
  /\ now = 1
  /\ cached = <<>> /\ lastUpdate = 0 /\ writer = None
  /\ instances = [k \in Keys |-> None]
  /\ made = 0
  /\ pc = [w \in Workers |-> "idle"]
  /\ asked = [w \in Workers |-> 0]
  /\ formatting = [w \in Workers |-> 0]
  /\ cell = [w \in Workers |-> 0]
  /\ copied = [w \in Workers |-> <<>>]
  /\ rewritten = [w \in Workers |-> FALSE]
  /\ key = [w \in Workers |-> None]
  /\ got = [w \in Workers |-> None]
  /\ missed = [w \in Workers |-> {}]

Tick == now < MaxTime /\ now' = now + 1 /\ UNCHANGED <<date, caches, pc>>

GetDateHeader(w) ==
  AskDate(w) \/ LockDate(w) \/ Format(w) \/ Formatted(w) \/ Copy(w) \/ Respond(w)

GetCacheInstance(w) ==
  (\E c \in Configs : Look(w, c)) \/ Make(w) \/ Store(w) \/ Leave(w)

Next == (\E w \in Workers : GetDateHeader(w) \/ GetCacheInstance(w)) \/ Tick

Spec == Init /\ [][Next]_vars

-----------------------------------------------------------------------------
(* Properties.                                                             *)

\* The date of a response is none from before the request for it: each cell was
\* formatted at a second between the asking and the end of the copy, although
\* lastDateUpdate may be another second than the one that is in the header.
DateCurrent ==
  \A w \in Workers : Dated(w) => \A i \in 1..Cells : copied[w][i] \in asked[w]..now

\* A header is put together from two dates only if it was formatted anew while it
\* was copied: two goroutines never format at once, and no mixture stays behind.
DateWhole ==
  \A w \in Workers :
    Dated(w) /\ ~rewritten[w] => \A i, j \in 1..Cells : copied[w][i] = copied[w][j]

\* Two goroutines use different caches of one configuration only if two have found
\* none in the map; and there are no more caches than times that a goroutine has found
\* none: who has found none of a configuration finds one ever after.
\* ("Check if we already have a cache instance for this configuration".)
InstancesSettle ==
  LET using == {w \in Workers : pc[w] = "use"}
      misses == {m \in Workers \X Keys : m[2] \in missed[m[1]]}
  IN /\ made <= Cardinality(misses)
     /\ \A u, w \in using :
          key[u] = key[w] /\ got[u] # got[w] =>
            \E first, second \in Workers :
              first # second /\ {<<first, key[w]>>, <<second, key[w]>>} \subseteq misses
=============================================================================
