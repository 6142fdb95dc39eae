------------------------- MODULE SharedValuesProofs -------------------------
(***************************************************************************)
(* What holds of SharedValues for any goroutines, cells, configurations    *)
(* and time.                                                               *)
(***************************************************************************)
EXTENDS SharedValues, FiniteSetTheorems, TLAPS

-----------------------------------------------------------------------------
(* The inductive invariant.                                                *)

Places == {"idle", "lock", "format", "copy", "make", "store", "use"}
Seconds == Nat \cup {None}

Types ==
  /\ now \in Nat /\ lastUpdate \in Nat /\ made \in Nat
  /\ cached = <<>> \/ cached \in [1..Cells -> Seconds]
  /\ writer \in Workers \cup {None}
  /\ instances \in [Keys -> Nat \cup {None}]
  /\ pc \in [Workers -> Places]
  /\ asked \in [Workers -> Nat] /\ formatting \in [Workers -> Nat]
  /\ cell \in [Workers -> 0..Cells]
  /\ copied \in [Workers -> Seq(Nat)]
  /\ rewritten \in [Workers -> BOOLEAN]
  /\ key \in [Workers -> Keys \cup {None}]
  /\ got \in [Workers -> Nat \cup {None}]
  /\ missed \in [Workers -> SUBSET Keys]

\* One goroutine formats, the one that holds the mutex.
OneFormats ==
  \A w \in Workers : (pc[w] = "format" <=> writer = w) /\ (pc[w] # "format" => cell[w] = 0)

\* What is in the cells while w formats: its second in those it has done with.
Formatting(w) ==
  pc[w] = "format" =>
    /\ cached \in [1..Cells -> Seconds]
    /\ asked[w] <= formatting[w] /\ formatting[w] <= now
    /\ \A i \in 1..cell[w] : cached[i] = formatting[w]
    /\ cell[w] = 0 => \A i, j \in 1..Cells : cached[i] = cached[j]
    /\ \A u \in Workers : pc[u] = "copy" =>
         asked[u] <= formatting[w] /\ (cell[w] > 0 => rewritten[u])

\* What is in them while nobody does: one date, of lastDateUpdate or a later second.
AtRest ==
  writer = None /\ cached # <<>> =>
    /\ \A i, j \in 1..Cells : cached[i] = cached[j]
    /\ \A i \in 1..Cells : cached[i] \in Nat /\ lastUpdate <= cached[i]

\* No cell is of the future.
NotAhead ==
  /\ cached # <<>> => \A i \in 1..Cells : cached[i] \in Nat => cached[i] <= now
  /\ \A w \in Workers : asked[w] <= now

\* While w copies, the cells are of its own second or of later ones, and what it has
\* copied was so too; it is still there if nobody has formatted meanwhile.
Copying(w) ==
  /\ pc[w] = "copy" =>
       /\ Cells > 0 => cached # <<>>
       /\ \A i \in 1..Cells : cached[i] \in Nat /\ asked[w] <= cached[i]
       /\ Len(copied[w]) <= Cells
       /\ \A i \in 1..Len(copied[w]) : copied[w][i] \in asked[w]..now
       /\ ~rewritten[w] => \A i \in 1..Len(copied[w]) : copied[w][i] = cached[i]
  /\ pc[w] # "copy" => copied[w] = <<>> /\ ~rewritten[w]

DateOK == OneFormats /\ AtRest /\ NotAhead /\ \A w \in Workers : Formatting(w) /\ Copying(w)

Misses == {m \in Workers \X Keys : m[2] \in missed[m[1]]}
Making == {w \in Workers : pc[w] = "make"}

\* Each miss is for one cache, made or to be made.
Counted ==
  /\ IsFiniteSet(Misses) /\ IsFiniteSet(Making)
  /\ made + Cardinality(Making) = Cardinality(Misses)

Pending(w, k) == pc[w] \in {"make", "store"} /\ key[w] = k

\* A cache is stored by a goroutine that has missed it, and after that nobody does.
Stored ==
  /\ \A w \in Workers :
       /\ pc[w] \in {"make", "store", "use"} => key[w] \in Keys
       /\ pc[w] \in {"make", "store"} => key[w] \in missed[w]
       /\ pc[w] \in {"store", "use"} => got[w] \in Nat
       /\ \A k \in missed[w] : Pending(w, k) \/ instances[k] # None
  /\ \A k \in Keys : instances[k] # None =>
       \E v \in Workers : k \in missed[v] /\ ~Pending(v, k)

Lone(k) == \A u, v \in Workers : k \in missed[u] /\ k \in missed[v] => u = v

\* If one goroutine alone has missed a cache, there is one for all.
Settled ==
  \A w \in Workers : pc[w] = "use" /\ Lone(key[w]) => got[w] = instances[key[w]]

CachesOK == Counted /\ Stored /\ Settled

IInv == Types /\ DateOK /\ CachesOK

-----------------------------------------------------------------------------
(* Types.                                                                  *)

LEMMA KeyIsKey ==
  ASSUME NEW c \in Configs, HasKey(c)
  PROVE  Key(c) \in Keys
BY DEF Keys

LEMMA InitTypes == Init => Types
<1> SUFFICES ASSUME Init PROVE Types
  OBVIOUS
<1> DEFINE empty == <<>>
<1>1. empty \in Seq(Nat) /\ copied = [w \in Workers |-> empty]
  BY DEF Init
<1>2. Cells \in Nat
  BY SharedValuesAssumption
<1> HIDE DEF empty
<1>3. QED
  BY <1>1, <1>2 DEF Init, Types, Places

LEMMA DateTypes ==
  ASSUME Types, DateOK, NEW w \in Workers, GetDateHeader(w)
  PROVE  Types'
<1>1. Cells \in Nat
  BY SharedValuesAssumption
<1>2. CASE AskDate(w)
  BY <1>2 DEF Types, AskDate, Goto, Places, caches
<1>3. CASE LockDate(w)
  <2>1. CASE Valid(asked[w])
    BY <1>3, <2>1 DEF Types, LockDate, Goto, Places, caches
  <2>2. CASE ~Valid(asked[w])
    <3>1. cached' \in [1..Cells -> Seconds]
      BY <1>3, <2>2 DEF Types, LockDate, Seconds
    <3>2. QED
      BY <1>3, <2>2, <3>1 DEF Types, LockDate, Goto, Places, caches
  <2>3. QED
    BY <2>1, <2>2
<1>4. CASE Format(w)
  <2>1. cached \in [1..Cells -> Seconds] /\ formatting[w] \in Seconds
    BY <1>4 DEF Types, DateOK, Formatting, Format, Seconds
  <2>2. cached' \in [1..Cells -> Seconds]
    BY <1>4, <2>1 DEF Format
  <2>3. cell[w] + 1 \in 0..Cells
    BY <1>1, <1>4 DEF Types, Format
  <2>4. rewritten' \in [Workers -> BOOLEAN]
    BY <1>4 DEF Types, Format
  <2>5. QED
    BY <1>4, <2>2, <2>3, <2>4 DEF Types, Format, caches
<1>5. CASE Formatted(w)
  BY <1>1, <1>5 DEF Types, Formatted, Goto, Places, caches
<1>6. CASE Copy(w)
  <2>1. Len(copied[w]) + 1 \in 1..Cells
    BY <1>1, <1>6 DEF Types, Copy
  <2>2. cached[Len(copied[w]) + 1] \in Nat
    BY <1>6, <2>1 DEF DateOK, Copying, Copy
  <2>3. Append(copied[w], cached[Len(copied[w]) + 1]) \in Seq(Nat)
    BY <2>2 DEF Types
  <2>4. QED
    BY <1>6, <2>3 DEF Types, Copy, caches
<1>7. CASE Respond(w)
  <2> DEFINE empty == <<>>
  <2>1. empty \in Seq(Nat) /\ copied' = [copied EXCEPT ![w] = empty]
    BY <1>7 DEF Respond
  <2> HIDE DEF empty
  <2>2. QED
    BY <1>7, <2>1 DEF Types, Respond, Goto, Places, caches
<1>8. QED
  BY <1>2, <1>3, <1>4, <1>5, <1>6, <1>7 DEF GetDateHeader

LEMMA CacheTypes ==
  ASSUME Types, Stored, NEW w \in Workers, GetCacheInstance(w)
  PROVE  Types'
<1>1. ASSUME NEW c \in Configs, Look(w, c)
      PROVE  Types'
  <2>1. Key(c) \in Keys
    BY <1>1, KeyIsKey DEF Look
  <2>2. instances[Key(c)] \in Nat \cup {None}
    BY <2>1 DEF Types
  <2>3. QED
    <3>1. CASE instances[Key(c)] # None
      BY <1>1, <2>1, <2>2, <3>1 DEF Types, Look, Goto, Places, date
    <3>2. CASE instances[Key(c)] = None
      <4>1. missed' = [missed EXCEPT ![w] = @ \cup {Key(c)}]
        BY <1>1, <3>2 DEF Look
      <4>2. missed[w] \cup {Key(c)} \in SUBSET Keys
        BY <2>1 DEF Types
      <4>3. missed' \in [Workers -> SUBSET Keys]
        BY <4>1, <4>2 DEF Types
      <4>4. QED
        BY <1>1, <2>1, <3>2, <4>3 DEF Types, Look, Goto, Places, date
    <3>3. QED
      BY <3>1, <3>2
<1>2. CASE Make(w)
  BY <1>2 DEF Types, Make, Goto, Places, date
<1>3. CASE Store(w)
  BY <1>3 DEF Types, Store, Goto, Places, date
<1>4. CASE Leave(w)
  BY <1>4 DEF Types, Leave, Goto, Places, date
<1>5. QED
  BY <1>1, <1>2, <1>3, <1>4 DEF GetCacheInstance

-----------------------------------------------------------------------------
(* The date.                                                               *)

DatePlaces == {"lock", "format", "copy"}

\* What DateOK says of a goroutine is kept by steps that do nothing with the date.
LEMMA DateAlone ==
  ASSUME Types, DateOK, UNCHANGED date, now' >= now, now' \in Nat,
         \A u \in Workers : pc'[u] = pc[u] \/ {pc[u], pc'[u]} \cap DatePlaces = {}
  PROVE  DateOK'
<1>1. /\ UNCHANGED <<cached, lastUpdate, writer, asked, formatting, cell, copied, rewritten>>
      /\ \A u \in Workers : \A p \in {"format", "copy"} : pc'[u] = p <=> pc[u] = p
  BY DEF date, DatePlaces
<1>2. OneFormats' /\ AtRest'
  BY <1>1 DEF DateOK, OneFormats, AtRest
<1>3. NotAhead'
  BY <1>1 DEF DateOK, NotAhead, Types
<1>4. \A w \in Workers : Formatting(w)'
  BY <1>1 DEF DateOK, Formatting, Types
<1>5. \A w \in Workers : Copying(w)'
  <2>1. TAKE w \in Workers
  <2>2. \A s : s \in asked[w]..now => s \in asked[w]..now'
    BY DEF Types
  <2>3. QED
    BY <1>1, <2>2 DEF DateOK, Copying
<1>6. QED
  BY <1>2, <1>3, <1>4, <1>5 DEF DateOK

LEMMA AskKeeps ==
  ASSUME Types, DateOK, NEW w \in Workers, AskDate(w)
  PROVE  DateOK'
<1>1. /\ pc[w] = "idle" /\ writer = None /\ asked' = [asked EXCEPT ![w] = now]
      /\ UNCHANGED <<now, cached, lastUpdate, writer, formatting, cell, copied, rewritten>>
      /\ pc' = [pc EXCEPT ![w] = pc'[w]]
      /\ pc'[w] = IF Valid(now) THEN "copy" ELSE "lock"
  BY DEF AskDate, Goto, Types
<1>2. /\ asked'[w] = now
      /\ \A u \in Workers : u # w => pc'[u] = pc[u] /\ asked'[u] = asked[u]
  BY <1>1 DEF Types
<1>3. \A u \in Workers : pc[u] # "format" /\ pc'[u] # "format"
  BY <1>1, <1>2, SharedValuesAssumption DEF DateOK, OneFormats
<1>4. OneFormats' /\ AtRest' /\ NotAhead' /\ \A u \in Workers : Formatting(u)'
  BY <1>1, <1>2, <1>3 DEF DateOK, OneFormats, AtRest, NotAhead, Formatting, Types
<1>5. Copying(w)'
  <2>1. copied[w] = <<>> /\ ~rewritten[w]
    BY <1>1 DEF DateOK, Copying
  <2>2. pc'[w] = "copy" => \A i \in 1..Cells : cached[i] \in Nat /\ now <= cached[i]
    BY <1>1 DEF DateOK, AtRest, Valid
  <2>3. Cells \in Nat /\ Len(<<>>) = 0 /\ 1..0 = {}
    BY SharedValuesAssumption
  <2>4. QED
    BY <1>1, <1>2, <2>1, <2>2, <2>3 DEF Copying, Valid
<1>6. \A u \in Workers : u # w => Copying(u)'
  BY <1>1, <1>2 DEF DateOK, Copying
<1>7. QED
  BY <1>4, <1>5, <1>6 DEF DateOK

LEMMA LockKeeps ==
  ASSUME Types, DateOK, NEW w \in Workers, LockDate(w)
  PROVE  DateOK'
<1>1. /\ pc[w] = "lock" /\ writer = None
      /\ UNCHANGED <<now, lastUpdate, asked, cell, copied, rewritten>>
      /\ pc' = [pc EXCEPT ![w] = pc'[w]]
      /\ \A u \in Workers : u # w => pc'[u] = pc[u]
  BY DEF LockDate, Goto, Types
<1>2. \A u \in Workers : pc[u] # "format" /\ cell[u] = 0
  BY <1>1, SharedValuesAssumption DEF DateOK, OneFormats
<1>3. copied[w] = <<>> /\ ~rewritten[w] /\ Len(<<>>) = 0
  BY <1>1 DEF DateOK, Copying
<1>4. CASE Valid(asked[w])
  <2>1. pc'[w] = "copy" /\ UNCHANGED <<cached, writer, formatting>>
    BY <1>1, <1>4 DEF LockDate, Goto, Types
  <2>2. OneFormats' /\ AtRest' /\ NotAhead' /\ \A u \in Workers : Formatting(u)'
    BY <1>1, <1>2, <2>1 DEF DateOK, OneFormats, AtRest, NotAhead, Formatting
  <2>3. Cells \in Nat /\ \A i \in 1..Cells : cached[i] \in Nat /\ asked[w] <= cached[i]
    BY <1>1, <1>4, SharedValuesAssumption DEF DateOK, AtRest, Valid
  <2>4. Copying(w)'
    BY <1>1, <1>3, <1>4, <2>1, <2>3 DEF Copying, Valid
  <2>5. \A u \in Workers : u # w => Copying(u)'
    BY <1>1, <2>1 DEF DateOK, Copying
  <2>6. QED
    BY <2>2, <2>4, <2>5 DEF DateOK
<1>5. CASE ~Valid(asked[w])
  <2>1. /\ pc'[w] = "format" /\ writer' = w
        /\ formatting'[w] = now /\ \A u \in Workers : u # w => formatting'[u] = formatting[u]
        /\ cached' = IF cached = <<>> THEN [i \in 1..Cells |-> None] ELSE cached
    BY <1>1, <1>5 DEF LockDate, Goto, Types
  <2>2. /\ cached' \in [1..Cells -> Seconds]
        /\ \A i, j \in 1..Cells : cached'[i] = cached'[j]
        /\ \A i \in 1..Cells : cached'[i] \in Nat => cached'[i] <= now
    <3>1. CASE cached = <<>>
      BY <2>1, <3>1, SharedValuesAssumption DEF Seconds
    <3>2. CASE cached # <<>>
      BY <1>1, <2>1, <3>2 DEF Types, DateOK, AtRest, NotAhead
    <3>3. QED
      BY <3>1, <3>2
  <2>3. \A u \in Workers : pc[u] = "copy" /\ Cells > 0 => cached' = cached
    BY <2>1 DEF DateOK, Copying
  <2>4. OneFormats' /\ AtRest' /\ NotAhead'
    BY <1>1, <1>2, <2>1, <2>2, SharedValuesAssumption
       DEF DateOK, OneFormats, AtRest, NotAhead
  <2>5. \A u \in Workers : Formatting(u)'
    <3>1. \A u \in Workers : u # w => pc'[u] # "format"
      BY <1>1, <1>2
    <3>2. \A i \in 1..cell'[w] : FALSE
      BY <1>1, <1>2
    <3>3. Formatting(w)'
      BY <1>1, <1>2, <2>1, <2>2, <3>2 DEF DateOK, NotAhead, Formatting, Types
    <3>4. QED
      BY <3>1, <3>3 DEF Formatting
  <2>6. \A u \in Workers : Copying(u)'
    <3>1. Copying(w)'
      BY <1>1, <1>3, <2>1 DEF Copying
    <3>2. ASSUME NEW u \in Workers, u # w
          PROVE  Copying(u)'
      <4>1. CASE pc[u] = "copy" /\ Cells > 0
        BY <1>1, <2>3, <3>2, <4>1 DEF DateOK, Copying
      <4>2. CASE pc[u] = "copy" /\ ~(Cells > 0)
        <5>1. Cells = 0 /\ 1..0 = {}
          BY <4>2, SharedValuesAssumption
        <5>2. Len(copied[u]) <= Cells /\ Len(copied[u]) \in Nat
          BY <4>2 DEF Types, DateOK, Copying
        <5>3. 1..Len(copied[u]) = {}
          BY <5>1, <5>2
        <5>4. QED
          BY <1>1, <3>2, <4>2, <5>1, <5>2, <5>3 DEF Copying
      <4>3. CASE pc[u] # "copy"
        BY <1>1, <3>2, <4>3 DEF DateOK, Copying
      <4>4. QED
        BY <4>1, <4>2, <4>3
    <3>3. QED
      BY <3>1, <3>2
  <2>7. QED
    BY <2>4, <2>5, <2>6 DEF DateOK
<1>6. QED
  BY <1>4, <1>5

LEMMA FormatKeeps ==
  ASSUME Types, DateOK, NEW w \in Workers, Format(w)
  PROVE  DateOK'
<1> DEFINE n == cell[w] + 1
<1>1. /\ pc[w] = "format" /\ n \in 1..Cells /\ cell[w] \in Nat /\ Cells \in Nat
      /\ UNCHANGED <<now, lastUpdate, writer, asked, formatting, copied, pc>>
      /\ cached' = [cached EXCEPT ![n] = formatting[w]]
      /\ cell' = [cell EXCEPT ![w] = n]
      /\ rewritten' = [u \in Workers |-> rewritten[u] \/ pc[u] = "copy"]
  BY SharedValuesAssumption DEF Format, Types
<1>2. /\ cached \in [1..Cells -> Seconds] /\ formatting[w] \in Nat
      /\ asked[w] <= formatting[w] /\ formatting[w] <= now
      /\ \A i \in 1..cell[w] : cached[i] = formatting[w]
      /\ \A u \in Workers : pc[u] = "copy" => asked[u] <= formatting[w]
  BY <1>1 DEF DateOK, Formatting, Types
<1>3. /\ cached' \in [1..Cells -> Seconds] /\ cell'[w] = n
      /\ \A i \in 1..Cells : cached'[i] = IF i = n THEN formatting[w] ELSE cached[i]
      /\ \A u \in Workers : u # w => cell'[u] = cell[u]
      /\ \A u \in Workers : pc[u] = "copy" => rewritten'[u]
      /\ \A u \in Workers : pc[u] # "copy" => rewritten'[u] = rewritten[u]
  BY <1>1, <1>2 DEF Types, Seconds
<1>4. writer = w /\ \A u \in Workers : u # w => pc[u] # "format"
  BY <1>1 DEF DateOK, OneFormats
<1>5. OneFormats' /\ AtRest'
  BY <1>1, <1>3, <1>4, SharedValuesAssumption DEF DateOK, OneFormats, AtRest
<1>6. cached # <<>>
  BY <1>1, <1>2
<1>7. NotAhead'
  BY <1>1, <1>2, <1>3, <1>6 DEF DateOK, NotAhead
<1>8. \A u \in Workers : Formatting(u)'
  <2>1. \A i \in 1..n : cached'[i] = formatting[w]
    BY <1>1, <1>2, <1>3
  <2>2. Formatting(w)'
    BY <1>1, <1>2, <1>3, <2>1 DEF Formatting
  <2>3. QED
    BY <1>1, <1>4, <2>2 DEF Formatting
<1>9. \A u \in Workers : Copying(u)'
  <2>1. TAKE u \in Workers
  <2>2. CASE pc[u] = "copy"
    <3>1. \A i \in 1..Cells : cached'[i] \in Nat /\ asked[u] <= cached'[i]
      BY <1>2, <1>3, <2>2 DEF DateOK, Copying
    <3>2. cached' # <<>>
      BY <1>1, <1>3
    <3>3. QED
      BY <1>1, <1>3, <2>2, <3>1, <3>2 DEF DateOK, Copying
  <2>3. CASE pc[u] # "copy"
    BY <1>1, <1>3, <2>3 DEF DateOK, Copying
  <2>4. QED
    BY <2>2, <2>3
<1>10. QED
  BY <1>5, <1>7, <1>8, <1>9 DEF DateOK

LEMMA FormattedKeeps ==
  ASSUME Types, DateOK, NEW w \in Workers, Formatted(w)
  PROVE  DateOK'
<1>1. /\ pc[w] = "format" /\ cell[w] = Cells /\ Cells \in Nat
      /\ lastUpdate' = asked[w] /\ writer' = None /\ cell' = [cell EXCEPT ![w] = 0]
      /\ pc' = [pc EXCEPT ![w] = "copy"]
      /\ UNCHANGED <<now, cached, asked, formatting, copied, rewritten>>
  BY SharedValuesAssumption DEF Formatted, Goto
<1>2. /\ cached \in [1..Cells -> Seconds] /\ formatting[w] \in Nat
      /\ asked[w] <= formatting[w] /\ formatting[w] <= now /\ asked[w] \in Nat
      /\ \A i \in 1..Cells : cached[i] = formatting[w]
  BY <1>1 DEF DateOK, Formatting, Types
<1>3. /\ pc'[w] = "copy" /\ cell'[w] = 0
      /\ \A u \in Workers : u # w =>
           pc'[u] = pc[u] /\ cell'[u] = cell[u] /\ pc[u] # "format"
  BY <1>1 DEF Types, DateOK, OneFormats
<1>4. OneFormats'
  BY <1>1, <1>3, SharedValuesAssumption DEF DateOK, OneFormats
<1>5. AtRest' /\ NotAhead'
  BY <1>1, <1>2 DEF DateOK, AtRest, NotAhead
<1>6. \A u \in Workers : Formatting(u)'
  BY <1>3 DEF Formatting
<1>7. Copying(w)'
  <2>1. copied[w] = <<>> /\ ~rewritten[w] /\ Len(<<>>) = 0
    BY <1>1 DEF DateOK, Copying
  <2>2. Cells > 0 => cached # <<>>
    BY <1>1, <1>2
  <2>3. QED
    BY <1>1, <1>2, <1>3, <2>1, <2>2 DEF Copying
<1>8. \A u \in Workers : u # w => Copying(u)'
  BY <1>1, <1>3 DEF DateOK, Copying
<1>9. QED
  BY <1>4, <1>5, <1>6, <1>7, <1>8 DEF DateOK

LEMMA CopyKeeps ==
  ASSUME Types, DateOK, NEW w \in Workers, Copy(w)
  PROVE  DateOK'
<1> DEFINE n == Len(copied[w]) + 1
           c == Append(copied[w], cached[n])
<1>1. /\ pc[w] = "copy" /\ Len(copied[w]) \in Nat /\ n \in 1..Cells
      /\ copied' = [copied EXCEPT ![w] = c]
      /\ UNCHANGED <<now, cached, lastUpdate, writer, asked, formatting, cell, rewritten, pc>>
  BY SharedValuesAssumption DEF Copy, Types
<1>2. OneFormats' /\ AtRest' /\ NotAhead' /\ \A u \in Workers : Formatting(u)'
  BY <1>1 DEF DateOK, OneFormats, AtRest, NotAhead, Formatting
<1>3. /\ copied'[w] = c /\ \A u \in Workers : u # w => copied'[u] = copied[u]
      /\ Cells > 0 => cached # <<>>
      /\ \A i \in 1..Cells : cached[i] \in Nat /\ asked[w] <= cached[i] /\ cached[i] <= now
      /\ \A i \in 1..Len(copied[w]) : copied[w][i] \in asked[w]..now
      /\ ~rewritten[w] => \A i \in 1..Len(copied[w]) : copied[w][i] = cached[i]
  <2>1. /\ copied'[w] = c /\ \A u \in Workers : u # w => copied'[u] = copied[u]
        /\ Cells > 0 => cached # <<>>
        /\ \A i \in 1..Cells : cached[i] \in Nat /\ asked[w] <= cached[i]
        /\ \A i \in 1..Len(copied[w]) : copied[w][i] \in asked[w]..now
        /\ ~rewritten[w] => \A i \in 1..Len(copied[w]) : copied[w][i] = cached[i]
    BY <1>1 DEF Types, DateOK, Copying
  <2>2. cached # <<>>
    BY <1>1, <2>1, SharedValuesAssumption
  <2>3. \A i \in 1..Cells : cached[i] <= now
    BY <2>1, <2>2 DEF DateOK, NotAhead
  <2>4. QED
    BY <2>1, <2>3
<1>4. /\ Len(c) = n /\ c[n] = cached[n]
      /\ \A i \in 1..n : i # n => c[i] = copied[w][i] /\ i \in 1..Len(copied[w])
  BY <1>1, <1>3 DEF Types
<1> HIDE DEF c
<1>5. Copying(w)'
  <2>1. \A i \in 1..n : c[i] \in asked[w]..now
    <3>1. cached[n] \in asked[w]..now
      BY <1>1, <1>3 DEF Types
    <3>2. QED
      BY <1>3, <1>4, <3>1
  <2>2. ~rewritten[w] => \A i \in 1..n : c[i] = cached[i]
    BY <1>3, <1>4
  <2>3. QED
    BY <1>1, <1>3, <1>4, <2>1, <2>2 DEF Copying
<1>6. \A u \in Workers : u # w => Copying(u)'
  BY <1>1, <1>3 DEF DateOK, Copying
<1>7. QED
  BY <1>2, <1>5, <1>6 DEF DateOK

LEMMA RespondKeeps ==
  ASSUME Types, DateOK, NEW w \in Workers, Respond(w)
  PROVE  DateOK'
<1>1. /\ pc[w] = "copy"
      /\ UNCHANGED <<now, cached, lastUpdate, writer, cell>>
      /\ pc'[w] = "idle" /\ copied'[w] = <<>> /\ ~rewritten'[w] /\ asked'[w] = 0
      /\ \A u \in Workers : u # w =>
           /\ pc'[u] = pc[u] /\ copied'[u] = copied[u] /\ rewritten'[u] = rewritten[u]
           /\ asked'[u] = asked[u] /\ formatting'[u] = formatting[u]
  BY DEF Respond, Dated, Goto, Types
<1>2. OneFormats' /\ AtRest' /\ NotAhead'
  <2>1. OneFormats' /\ AtRest'
    BY <1>1 DEF DateOK, OneFormats, AtRest
  <2>2. \A u \in Workers : asked'[u] <= now
    <3>1. 0 <= now
      BY DEF Types
    <3>2. \A u \in Workers : asked[u] <= now
      BY DEF DateOK, NotAhead
    <3>3. QED
      BY <1>1, <3>1, <3>2
  <2>3. QED
    BY <1>1, <2>1, <2>2 DEF DateOK, NotAhead
<1>3. \A u \in Workers : Formatting(u)' /\ Copying(u)'
  <2>1. TAKE u \in Workers
  <2>2. CASE u = w
    BY <1>1, <2>2 DEF Formatting, Copying
  <2>3. CASE u # w
    BY <1>1, <2>3 DEF DateOK, Formatting, Copying
  <2>4. QED
    BY <2>2, <2>3
<1>4. QED
  BY <1>2, <1>3 DEF DateOK

LEMMA DateStep ==
  ASSUME Types, DateOK, NEW w \in Workers, GetDateHeader(w)
  PROVE  DateOK'
BY AskKeeps, LockKeeps, FormatKeeps, FormattedKeeps, CopyKeeps, RespondKeeps DEF GetDateHeader

-----------------------------------------------------------------------------
(* The caches.                                                             *)

\* What CachesOK says is kept by steps that do nothing with the caches.
LEMMA CachesAlone ==
  ASSUME CachesOK, UNCHANGED caches,
         \A u \in Workers : pc'[u] = pc[u] \/ {pc[u], pc'[u]} \subseteq DatePlaces \cup {"idle"}
  PROVE  CachesOK'
<1>1. /\ UNCHANGED <<instances, made, key, got, missed>>
      /\ \A u \in Workers : \A p \in {"make", "store", "use"} : pc'[u] = p <=> pc[u] = p
  BY DEF caches, DatePlaces
<1>2. Making' = Making /\ Misses' = Misses
  BY <1>1 DEF Making, Misses
<1>3. Counted'
  BY <1>1, <1>2 DEF CachesOK, Counted
<1>4. \A u \in Workers : \A k : Pending(u, k)' <=> Pending(u, k)
  BY <1>1 DEF Pending
<1>5. Stored'
  BY <1>1, <1>4 DEF CachesOK, Stored
<1>6. Settled'
  BY <1>1 DEF CachesOK, Settled, Lone
<1>7. QED
  BY <1>3, <1>5, <1>6 DEF CachesOK

\* A goroutine finds a cache in the map.
LEMMA HitKeeps ==
  ASSUME Types, CachesOK, NEW w \in Workers, NEW c \in Configs, Look(w, c),
         instances[Key(c)] # None
  PROVE  CachesOK'
<1> DEFINE k == Key(c)
<1>1. k \in Keys
  BY KeyIsKey DEF Look
<1>2. /\ pc[w] = "idle" /\ pc'[w] = "use" /\ key'[w] = k /\ got'[w] = instances[k]
      /\ UNCHANGED <<instances, made, missed>>
      /\ \A u \in Workers : u # w =>
           pc'[u] = pc[u] /\ key'[u] = key[u] /\ got'[u] = got[u]
  BY DEF Look, Goto, Types
<1> HIDE DEF k
<1>3. Making' = Making /\ Misses' = Misses
  BY <1>2 DEF Making, Misses
<1>4. Counted'
  BY <1>2, <1>3 DEF CachesOK, Counted
<1>5. \A u \in Workers : \A j : Pending(u, j)' <=> Pending(u, j)
  BY <1>2 DEF Pending
<1>6. instances[k] \in Nat
  <2>1. instances[k] # None
    BY DEF k
  <2>2. QED
    BY <1>1, <2>1 DEF Types
<1>7. Stored'
  BY <1>1, <1>2, <1>5, <1>6 DEF CachesOK, Stored
<1>8. Settled'
  BY <1>2 DEF CachesOK, Settled, Lone
<1>9. QED
  BY <1>4, <1>7, <1>8 DEF CachesOK

\* A goroutine finds none, for the first time.
LEMMA MissKeeps ==
  ASSUME Types, CachesOK, NEW w \in Workers, NEW c \in Configs, Look(w, c),
         instances[Key(c)] = None
  PROVE  CachesOK'
<1> DEFINE k == Key(c)
           m == <<w, k>>
<1>1. k \in Keys
  BY KeyIsKey DEF Look
<1>2. /\ pc[w] = "idle" /\ pc'[w] = "make" /\ key'[w] = k /\ instances[k] = None
      /\ missed'[w] = missed[w] \cup {k}
      /\ UNCHANGED <<instances, made, got>>
      /\ \A u \in Workers : u # w =>
           pc'[u] = pc[u] /\ key'[u] = key[u] /\ missed'[u] = missed[u]
  BY DEF Look, Goto, Types
<1> HIDE DEF k
<1>3. k \notin missed[w]
  BY <1>2 DEF CachesOK, Stored, Pending
<1>4. Counted'
  <2>1. Making' = Making \cup {w} /\ w \notin Making
    BY <1>2 DEF Making
  <2>2. Misses' = Misses \cup {m} /\ m \notin Misses
    BY <1>1, <1>2, <1>3 DEF Misses
  <2>3. /\ IsFiniteSet(Misses') /\ Cardinality(Misses') = Cardinality(Misses) + 1
        /\ IsFiniteSet(Making') /\ Cardinality(Making') = Cardinality(Making) + 1
    BY <2>1, <2>2, FS_AddElement DEF CachesOK, Counted
  <2>4. Cardinality(Misses) \in Nat /\ Cardinality(Making) \in Nat /\ made \in Nat
    BY FS_CardinalityType DEF CachesOK, Counted, Types
  <2>5. QED
    BY <1>2, <2>3, <2>4 DEF CachesOK, Counted
<1>5. \A u \in Workers : u # w => \A j : Pending(u, j)' <=> Pending(u, j)
  BY <1>2 DEF Pending
<1>6. Pending(w, k)' /\ \A j : ~Pending(w, j) /\ (j # k => ~Pending(w, j)')
  BY <1>2 DEF Pending
<1>7. Stored'
  <2>1. ASSUME NEW u \in Workers
        PROVE  /\ pc'[u] \in {"make", "store", "use"} => key'[u] \in Keys
               /\ pc'[u] \in {"make", "store"} => key'[u] \in missed'[u]
               /\ pc'[u] \in {"store", "use"} => got'[u] \in Nat
               /\ \A j \in missed'[u] : Pending(u, j)' \/ instances'[j] # None
    <3>1. CASE u = w
      BY <1>1, <1>2, <1>6, <3>1 DEF CachesOK, Stored
    <3>2. CASE u # w
      BY <1>2, <1>5, <3>2 DEF CachesOK, Stored
    <3>3. QED
      BY <3>1, <3>2
  <2>2. ASSUME NEW j \in Keys, instances'[j] # None
        PROVE  \E v \in Workers : j \in missed'[v] /\ ~Pending(v, j)'
    <3>1. PICK v \in Workers : j \in missed[v] /\ ~Pending(v, j)
      BY <1>2, <2>2 DEF CachesOK, Stored
    <3>2. j # k
      BY <1>2, <2>2
    <3>3. QED
      BY <1>2, <1>5, <1>6, <3>1, <3>2
  <2>3. QED
    BY <2>1, <2>2 DEF Stored
<1>8. Settled'
  <2>1. \A u \in Workers : Lone(key[u])' => Lone(key'[u])
    BY <1>2 DEF Lone
  <2>2. QED
    BY <1>2 DEF CachesOK, Settled, Lone
<1>9. QED
  BY <1>4, <1>7, <1>8 DEF CachesOK

LEMMA MakeKeeps ==
  ASSUME Types, CachesOK, NEW w \in Workers, Make(w)
  PROVE  CachesOK'
<1>1. /\ pc[w] = "make" /\ pc'[w] = "store" /\ made' = made + 1 /\ got'[w] = made + 1
      /\ UNCHANGED <<instances, missed, key>>
      /\ \A u \in Workers : u # w => pc'[u] = pc[u] /\ got'[u] = got[u]
  BY DEF Make, Goto, Types
<1>2. made \in Nat /\ made + 1 \in Nat
  BY DEF Types
<1>3. Counted'
  <2>1. Making' = Making \ {w} /\ w \in Making /\ Misses' = Misses
    BY <1>1 DEF Making, Misses
  <2>2. /\ IsFiniteSet(Making') /\ Cardinality(Making') = Cardinality(Making) - 1
    BY <2>1, FS_RemoveElement DEF CachesOK, Counted
  <2>3. Cardinality(Misses) \in Nat /\ Cardinality(Making) \in Nat
    BY FS_CardinalityType DEF CachesOK, Counted
  <2>4. QED
    BY <1>1, <1>2, <2>1, <2>2, <2>3 DEF CachesOK, Counted
<1>4. \A u \in Workers : \A j : Pending(u, j)' <=> Pending(u, j)
  BY <1>1 DEF Pending
<1>5. Stored'
  BY <1>1, <1>2, <1>4 DEF CachesOK, Stored
<1>6. Settled'
  BY <1>1 DEF CachesOK, Settled, Lone
<1>7. QED
  BY <1>3, <1>5, <1>6 DEF CachesOK

\* What is stored replaces something only if another goroutine had missed it too.
LEMMA StoreKeeps ==
  ASSUME Types, CachesOK, NEW w \in Workers, Store(w)
  PROVE  CachesOK'
<1> DEFINE k == key[w]
<1>1. /\ pc[w] = "store" /\ pc'[w] = "use"
      /\ instances' = [instances EXCEPT ![k] = got[w]]
      /\ UNCHANGED <<made, missed, key, got>>
      /\ \A u \in Workers : u # w => pc'[u] = pc[u]
  BY DEF Store, Goto, Types
<1>2. k \in Keys /\ k \in missed[w] /\ got[w] \in Nat
  BY <1>1 DEF CachesOK, Stored
<1>3. /\ instances'[k] = got[w] /\ got[w] # None
      /\ \A j \in Keys : j # k => instances'[j] = instances[j]
  BY <1>1, <1>2, SharedValuesAssumption DEF Types
<1>4. Making' = Making /\ Misses' = Misses
  BY <1>1 DEF Making, Misses
<1>5. Counted'
  BY <1>1, <1>4 DEF CachesOK, Counted
<1>6. /\ \A u \in Workers : u # w => \A j : Pending(u, j)' <=> Pending(u, j)
      /\ \A j : ~Pending(w, j)' /\ (j # k => ~Pending(w, j))
  BY <1>1 DEF Pending
<1>7. Stored'
  <2>1. ASSUME NEW u \in Workers
        PROVE  /\ pc'[u] \in {"make", "store", "use"} => key'[u] \in Keys
               /\ pc'[u] \in {"make", "store"} => key'[u] \in missed'[u]
               /\ pc'[u] \in {"store", "use"} => got'[u] \in Nat
               /\ \A j \in missed'[u] : Pending(u, j)' \/ instances'[j] # None
    <3>1. \A j \in missed[u] : j \in Keys /\ (Pending(u, j) \/ instances[j] # None)
      BY DEF CachesOK, Stored, Types
    <3>2. \A j \in missed[u] : Pending(u, j)' \/ instances'[j] # None
      BY <1>3, <1>6, <3>1
    <3>3. QED
      BY <1>1, <1>2, <3>2 DEF CachesOK, Stored
  <2>2. ASSUME NEW j \in Keys, instances'[j] # None
        PROVE  \E v \in Workers : j \in missed'[v] /\ ~Pending(v, j)'
    <3>1. CASE j = k
      BY <1>1, <1>2, <1>6, <3>1
    <3>2. CASE j # k
      <4>1. PICK v \in Workers : j \in missed[v] /\ ~Pending(v, j)
        BY <1>3, <2>2, <3>2 DEF CachesOK, Stored
      <4>2. QED
        BY <1>1, <1>6, <4>1
    <3>3. QED
      BY <3>1, <3>2
  <2>3. QED
    BY <2>1, <2>2 DEF Stored
<1>8. Settled'
  <2>1. ASSUME NEW u \in Workers, pc'[u] = "use", Lone(key[u])
        PROVE  got[u] = instances'[key[u]]
    <3>1. CASE u = w
      BY <1>3, <3>1
    <3>2. CASE u # w /\ key[u] # k
      BY <1>1, <1>3, <2>1, <3>2 DEF CachesOK, Settled, Stored
    <3>3. CASE u # w /\ key[u] = k
      <4>1. got[u] \in Nat /\ got[u] = instances[k]
        BY <1>1, <2>1, <3>3 DEF CachesOK, Settled, Stored
      <4>2. instances[k] # None
        BY <4>1, SharedValuesAssumption
      <4>3. PICK v \in Workers : k \in missed[v] /\ ~Pending(v, k)
        BY <1>2, <4>2 DEF CachesOK, Stored
      <4>4. v # w
        BY <1>1, <4>3 DEF Pending
      <4>5. QED
        BY <1>2, <2>1, <3>3, <4>3, <4>4 DEF Lone
    <3>4. QED
      BY <3>1, <3>2, <3>3
  <2>2. QED
    BY <1>1, <2>1 DEF Settled, Lone
<1>9. QED
  BY <1>5, <1>7, <1>8 DEF CachesOK

LEMMA LeaveKeeps ==
  ASSUME Types, CachesOK, NEW w \in Workers, Leave(w)
  PROVE  CachesOK'
<1>1. /\ pc[w] = "use" /\ pc'[w] = "idle"
      /\ UNCHANGED <<instances, made, missed>>
      /\ \A u \in Workers : u # w =>
           pc'[u] = pc[u] /\ key'[u] = key[u] /\ got'[u] = got[u]
  BY DEF Leave, Goto, Types
<1>2. Making' = Making /\ Misses' = Misses
  BY <1>1 DEF Making, Misses
<1>3. Counted'
  BY <1>1, <1>2 DEF CachesOK, Counted
<1>4. \A u \in Workers : \A j : Pending(u, j)' <=> Pending(u, j)
  BY <1>1 DEF Pending
<1>5. Stored'
  BY <1>1, <1>4 DEF CachesOK, Stored
<1>6. Settled'
  BY <1>1 DEF CachesOK, Settled, Lone
<1>7. QED
  BY <1>3, <1>5, <1>6 DEF CachesOK

LEMMA CacheStep ==
  ASSUME Types, CachesOK, NEW w \in Workers, GetCacheInstance(w)
  PROVE  CachesOK'
BY HitKeeps, MissKeeps, MakeKeeps, StoreKeeps, LeaveKeeps DEF GetCacheInstance

-----------------------------------------------------------------------------
(* The invariants.                                                         *)

LEMMA InitHolds == Init => IInv
<1> SUFFICES ASSUME Init PROVE IInv
  OBVIOUS
<1>1. DateOK
  BY SharedValuesAssumption
     DEF Init, DateOK, OneFormats, Formatting, AtRest, NotAhead, Copying
<1>2. Counted
  <2>1. Misses = {} /\ Making = {}
    BY DEF Init, Misses, Making
  <2>2. QED
    BY <2>1, FS_EmptySet DEF Init, Counted
<1>3. Stored /\ Settled
  BY DEF Init, Stored, Settled
<1>4. QED
  BY <1>1, <1>2, <1>3, InitTypes DEF IInv, CachesOK

LEMMA NextKeeps == IInv /\ [Next]_vars => IInv'
<1> SUFFICES ASSUME IInv, [Next]_vars PROVE IInv'
  OBVIOUS
<1>1. Types /\ DateOK /\ CachesOK /\ now \in Nat
  BY DEF IInv, Types
<1>2. ASSUME NEW w \in Workers, GetDateHeader(w)
      PROVE  IInv'
  <2>1. \A u \in Workers :
          pc'[u] = pc[u] \/ {pc[u], pc'[u]} \subseteq DatePlaces \cup {"idle"}
    BY <1>1, <1>2 DEF GetDateHeader, AskDate, LockDate, Format, Formatted, Copy, Respond, Dated,
                      Goto, Types, DatePlaces
  <2>2. UNCHANGED caches
    BY <1>2 DEF GetDateHeader, AskDate, LockDate, Format, Formatted, Copy, Respond
  <2>3. QED
    BY <1>1, <1>2, <2>1, <2>2, DateTypes, DateStep, CachesAlone DEF IInv
<1>3. ASSUME NEW w \in Workers, GetCacheInstance(w)
      PROVE  IInv'
  <2>1. \A u \in Workers : pc'[u] = pc[u] \/ {pc[u], pc'[u]} \cap DatePlaces = {}
    BY <1>1, <1>3 DEF GetCacheInstance, Look, Make, Store, Leave, Goto, Types, DatePlaces
  <2>2. UNCHANGED <<date, now>>
    BY <1>3 DEF GetCacheInstance, Look, Make, Store, Leave
  <2>3. QED
    BY <1>1, <1>3, <2>1, <2>2, CacheTypes, CacheStep, DateAlone DEF IInv, CachesOK
<1>4. CASE Tick \/ UNCHANGED vars
  <2>1. UNCHANGED <<date, caches, pc>> /\ now' \in Nat /\ now' >= now
    BY <1>1, <1>4 DEF Tick, vars
  <2>2. Types'
    BY <1>1, <2>1 DEF Types, date, caches
  <2>3. QED
    BY <1>1, <2>1, <2>2, DateAlone, CachesAlone DEF IInv
<1>5. QED
  BY <1>2, <1>3, <1>4 DEF Next

\* One goroutine formats the shared header at a time and knows what the others can
\* have copied of it; each cache that is made is for one miss.
THEOREM InductiveInvariant == Spec => []IInv
BY InitHolds, NextKeeps, PTL DEF Spec

\* However many goroutines and seconds: no response has a date, or a part of one,
\* from before its request asked for it.
THEOREM DatesAreCurrent == Spec => []DateCurrent
<1>1. IInv => DateCurrent
  BY SharedValuesAssumption DEF IInv, DateOK, Copying, DateCurrent, Dated
<1>2. QED
  BY <1>1, InductiveInvariant, PTL

\* A response has a mixture of dates only if getDateHeader formatted the array anew
\* while it was copied.
THEOREM DatesAreWhole == Spec => []DateWhole
<1>1. IInv => DateWhole
  <2> SUFFICES ASSUME IInv, NEW w \in Workers, Dated(w), ~rewritten[w],
                      NEW i \in 1..Cells, NEW j \in 1..Cells
               PROVE  copied[w][i] = copied[w][j]
    BY DEF DateWhole
  <2>1. pc[w] = "copy" /\ copied[w][i] = cached[i] /\ copied[w][j] = cached[j] /\ cached # <<>>
    BY SharedValuesAssumption DEF IInv, DateOK, Copying, Dated
  <2>2. CASE writer = None
    BY <2>1, <2>2 DEF IInv, DateOK, AtRest
  <2>3. CASE writer # None
    <3>1. PICK v \in Workers : writer = v
      BY <2>3 DEF IInv, Types
    <3>2. pc[v] = "format" /\ cell[v] \in Nat
      BY <3>1, SharedValuesAssumption DEF IInv, DateOK, OneFormats, Types
    <3>3. cell[v] = 0
      BY <2>1, <3>2 DEF IInv, DateOK, Formatting
    <3>4. QED
      BY <2>1, <3>2, <3>3 DEF IInv, DateOK, Formatting
  <2>4. QED
    BY <2>2, <2>3
<1>2. QED
  BY <1>1, InductiveInvariant, PTL

\* However many goroutines look for however many configurations: getCacheInstance
\* gives two of them different caches only after two have missed the same one, and
\* makes no more caches than there were misses.
THEOREM InstancesDoSettle == Spec => []InstancesSettle
<1>1. IInv => InstancesSettle
  <2> SUFFICES ASSUME IInv PROVE InstancesSettle
    OBVIOUS
  <2>1. made <= Cardinality(Misses)
    <3>1. Cardinality(Making) \in Nat /\ Cardinality(Misses) \in Nat /\ made \in Nat
      BY FS_CardinalityType DEF IInv, CachesOK, Counted, Types
    <3>2. QED
      BY <3>1 DEF IInv, CachesOK, Counted
  <2>2. ASSUME NEW u \in Workers, NEW w \in Workers, pc[u] = "use", pc[w] = "use",
               key[u] = key[w], got[u] # got[w]
        PROVE  \E first, second \in Workers :
                 first # second /\ {<<first, key[w]>>, <<second, key[w]>>} \subseteq Misses
    <3>1. ~Lone(key[w]) /\ key[w] \in Keys
      BY <2>2 DEF IInv, CachesOK, Settled, Stored
    <3>2. PICK first \in Workers, second \in Workers :
            first # second /\ key[w] \in missed[first] /\ key[w] \in missed[second]
      BY <3>1 DEF Lone
    <3>3. <<first, key[w]>> \in Misses /\ <<second, key[w]>> \in Misses
      BY <3>1, <3>2 DEF Misses
    <3>4. QED
      BY <3>2, <3>3
  <2>3. QED
    BY <2>1, <2>2 DEF InstancesSettle, Misses
<1>2. QED
  BY <1>1, InductiveInvariant, PTL
=============================================================================
