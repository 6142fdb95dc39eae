# TLA+ models and proofs for ngebut

ngebut is a web framework in Go on top of the event loop of gnet.  This directory holds
TLA+ models of the parts of it that keep state, or in which goroutines meet; TLC
configurations that check them on small instances; and proofs, checked by TLAPS, of what
holds for any number of goroutines, keys and files.  Paths below are relative to `src/`.

## 1. The system

| Part | State it keeps | Operations | What makes it hard |
|---|---|---|---|
| Connection, codec (`server.go`, `internal/httpparser`) | inbound buffer, a `Codec` per connection with its content length and response buffer | OnOpen, OnTraffic, OnClose, Parse | bytes arrive cut at any place; several requests in one buffer; what one request leaves in the `Codec` |
| Routing (`router.go`, `internal/radix`) | list of routes, radix tree per method, map of static routes | Handle, ServeHTTP | four structures answer one question, and each splits paths its own way; the tree is searched without backtracking |
| Dispatch (`router.go`, `handler.go`, `context.go`) | router middleware, cache of compiled chains, pooled contexts | Use, setupMiddleware, CompileMiddleware, Next | two passes over a chain; a chain found by a hash; contexts that are used again |
| Memory storage (`internal/memory`, `storage.go`) | a map with expiry, a mutex, a cleaner goroutine | Get, Has, Set, Delete, Clear, Close | locks let go and taken back within a call; the cleaner; Close |
| File contents cache (`internal/filecache/filecache.go`) | contents, a size counted beside them, a mutex | Get, Set with evict, Remove, Clear | the size must agree with the contents; the loop of evict must end |
| Static files, descriptor cache (`router.go`, `internal/filecache/fdcache.go`) | open files in an LRU cache with expiry | serveFile, serveFileWithRange, preloading, Get/Set/Remove/cleanup | one offset for all who read a descriptor; descriptors closed in use; files replaced on disk |
| Sessions (`middleware/session`) | sessions in a `Storage`, the client's cookie | Get, GetOrCreate, Save, Destroy, SetExpiry, the middleware | several requests of a client at once; expiry between two steps; saving before or behind the handler; restarts |
| Rate limiting (`middleware/ratelimit`) | one map of visitors for all instances, a cleaner per instance | GetVisitor, CleanupVisitors, the middleware | instances with different configurations share buckets and sweep each other's visitors; a request may go through its chain twice |
| Exchange (`server.go`, `request.go`, `context.go`, `response_writer.go`, `param.go`) | pooled Requests, recorders, contexts, stores of parameters, body buffers | getRequest, processRequest, Status, Set, Error, Write..., Param, Query, the releases | objects that go from request to request; a reply that lies in three objects; a buffer used behind its release |
| Shared values (`internal/httpparser`, `router.go`) | one formatted date, the caches of each configuration | getDateHeader, WriteResponse, getCacheInstance | a slice rewritten under its readers; look up, make and store without one lock |
| Groups, binder, text of headers and cookies, CORS, basic auth, access log, logging, configuration | nothing that outlives a request, or plain output | | sequential |

How they meet: gnet calls OnTraffic on its event loops, with the bytes that have come.  For
each request that Parse finds in them, a `Ctx` is taken from the pool and
Router.ServeHTTP finds the handlers of the route; setupMiddleware runs them, behind the
router's middleware.  Request, recorder and context come from pools, as do the body's
buffer and the store of the parameters, and go back when the request is answered.  The
answer is put together from the headers of the recorder and of the Ctx, with the shared
date.  A static file handler goes through both file caches, which all
goroutines share.  The session middleware runs as one function of such a chain and keeps
its sessions in a Storage, by default the memory storage.  What the handlers have written
goes into the buffer of the `Codec`, and OnTraffic writes that.

What would make each part correct, and is checked below: a storage call has its effect at
one instant and nothing else removes an entry; the caches keep their limits; a request that
nobody interferes with gets the file it asked for; a chain runs in order, on a context that
keeps nothing from before; a request is answered by a route that matches it; a session ends
when it should and stays with its client; every request is handled once and in order, as if its
objects were new; a client is limited as it was configured, and no more; the date of a
response is current and whole.

## 2. The modules

Each module states in its head what it abstracts.  A step is what a goroutine does between
two points where another one may run: taking a lock, reading, deleting and unlocking are
steps of their own.  Definitions whose comment begins with "Mutant of" are not part of a
specification: each is a plausible mistake in the definition that follows, and the property
that notices it is paired with it in `PROJECT.json`.

* `RWMutex`: sync.RWMutex as its users see it.  A writer that waits keeps new readers out.
* `StorageCalls`: requests, answers, and expiry of entries, for the next two.
* `KVStore`: the abstract storage.  Every call takes effect at one instant, there is no
  mutex and no cleaner.  With `Lossy = FALSE` and `Missing = "ngebut.ErrNotFound"` it is the
  contract of the Storage interface; with `Lossy = TRUE` an entry that may expire can vanish
  early.  Has answers with a Boolean, Get with a value or the error `Missing`, of which there
  are two with one text.  `Shut` is the Close that `memory.Storage` has beside the interface.
* `MemoryStorage`: memory.Storage with its locks, the lookup that deletes what it found
  expired, the cleaner with its ticker, and Close.  The actions are named for the step of
  the method (`GetRLock`, `ReadExpired`, `PurgeLock`, `Purge`, `RelockRead`, ...).
* `FileCache`: filecache.Cache.  Contents are sizes.  `lost` is a history variable: the
  bytes that Set has counted and never takes off.
* `StaticFiles`: what a goroutine does with both caches to serve or preload a file, one
  read at a time.  A file has a version and chunks, an open file has an offset.  Of the
  contents cache only this is used: Set stores, and may drop another file.  `spoiled`
  and `pure` are history: whether another goroutine has interfered.
* `Dispatch`: Use, the compiled and the dynamic pass, the cache of compiled chains, Next
  and the context pool.  A closure is a value, and closures of one literal share a `Code`.
  A function may call Next any number of times, the final handler as well: Next then calls
  the final handler again, until `MaxIndex`, a bound of the model, ends it.
* `Session`: Manager, StorageAdapter, the middleware and what a handler does with its
  session, over a storage as `KVStore` is: its calls are atomic, and an entry may be lost
  early (which `MemoryStorage` implements).  That the middleware saves before the handler
  in a compiled pass is `Dispatch!NextInert`.
* `Routing`: Handle builds the list, the trees and the static map; Serve answers with the
  pure operator `ServeHTTP`, put together from what the four structures find (`FromMap`,
  `FromTree`, `FindBytes`, `FromList`) and from `AllowedMethods`.  A tree is the set of its
  nodes, each with the route it was made for and its handlers; `Search` is the walk of
  findNode, as a recursive function of the segments gone through.  Paths are sequences of
  segments, empty ones included, as the three ways to split a path differ in just these.
  `Covers` is the reference that says which paths a pattern stands for.  The parameters of an
  answer are those the code stores, `*` included (`NamesWild`), which only the list does.
* `Connection`: one connection and its client.  The bytes of a request are a few elements: a
  "line", the first byte of its head; an "end", the rest of it; and those of its body.  Each
  has a mark that says what Parse's searches see in it: "blank" is CRLF CRLF, "last" ends in
  0 CRLF CRLF, "text" is anything else.  So the shortcuts of Parse can be told apart from
  what a request means: CRLF CRLF behind the head ends the request there, before Content-Length
  is looked at (`BlankBehind`); the first 0 CRLF CRLF ends chunks, wherever it stands
  (`LastChunks`, `EarlyEnd`); and `misread` is for chunks of which parseChunkedBody takes
  the first for all, or a hexadecimal size for a decimal one.  `Clear` says which requests
  these do no harm.  The external parsers accept a head that is all there, refuse one that is
  not, and may do either with other bytes: from the midst of a request anything may be
  handled, of any length, `MaxGarbled` times.  A cut comes between elements, so one within
  CRLF CRLF or 0 CRLF CRLF is not modelled.  The byte that is skipped when Parse fails is a
  "line", or one of an element of several bytes, which may or may not be gone with it
  (`Skipped`).
* `Reply`: what a handler may do to its reply, and what processRequest makes of it, as
  operators on a record.  The next two share it.
* `Exchange`: the abstract exchange of a request and its answer.  There are no pools; a
  request reads its own parameters and query and starts with an empty reply.
* `PooledExchange`: the same with the pooled objects, where a reply lies in a Request, a
  recorder and a Ctx (`Gathered`, `Scatter`), parameters in a store with fixed and dynamic
  places, and a body in a buffer that is back in its pool.  `spoilt` is history.  It
  implements `Exchange`.
* `RateLimit`: the middleware of several instances, GetVisitor, the cleaners, and the
  token bucket, which is external.  A request makes one or two passes, as `Dispatch` has it.
  `refusals` and `forgiven` are history: what is known of the refusal or the sweep that was
  the last step.
* `SharedValues`: the date header, an array of cells formatted and copied one by one, and
  the map of cache instances.

How the modules meet: `PooledExchange` implements `Exchange` and `MemoryStorage` implements
`KVStore` by refinement.  Where one component relies on what another one shows, it takes
that in as its environment: `Session` has the lossy storage and the passes of `Dispatch`,
`RateLimit` the two passes, `Dispatch` the context as ReleaseContext leaves it.

The `MC` modules give the constants values and name symmetries.  `MemoryStorageProofs`,
`PooledExchangeProofs`, `SharedValuesProofs`, `RateLimitProofs`, `SessionProofs` and
`ConnectionProofs` hold the theorems about the module whose name they begin with,
`StaticFilesProofs` those about `FileCache` and `StaticFiles`, and `RouterProofs` those about
`Dispatch` and `Routing`.

## 3. What TLC checks

| Run | Shows | Bounds |
|---|---|---|
| `memory` | no concurrent access to the map; locks balance; the store implements `KVStore` with `Lossy = TRUE` and an error of its own for what is not there; a key that is never given a ttl keeps its entry until Delete or Clear | 2 goroutines, a key with and one without ttl, 2 values, 3 ticks |
| `memory_live` | every call returns but a late Close; expired entries leave the map while the cleaner lives | 2 goroutines, one key and value |
| `filecache` | the size counted is the bytes cached plus those of replaced entries; limits of bytes and of files hold all the same; calls return | 2 goroutines, 3 paths with room for 2 files, files smaller than, nearly as large as and larger than the cache, 2 ticks |
| `static` | each cached descriptor is open and serves one path; undisturbed requests get what they asked for; buffered responses hold one version | 2 goroutines, a file kept in memory and a large one, room for one descriptor, two versions; goroutines and open files are interchangeable |
| `static_poison` | violation: what is cached is the content of the file | as `static` |
| `dispatch` | types; a pass runs the codes of its chain in order, on a context that keeps nothing, and who makes a second pass; Next calls nothing in a compiled pass; only a failure ends a pass early, and it does | 2 requests at a time, 5 routes, 2 contexts, fixed buffer of one, Next counts to 3 |
| `session` | clients' values do not mix; a session does not outlive its expiry; what only the middleware could save is lost; a client with a stale cookie stays with new sessions | 2 goroutines, 2 clients, 3 requests, 2 ticks, any restarts and losses of the storage |
| `routing` | whenever a route matches the request one that matches answers; parameters have the values of their places, and `*` is there if the list has found the route; static patterns first; Allow and 404 are right | every table of up to 3 routes from 10 patterns and 3 methods, 7 paths |
| `connection` | nothing handled twice or out of order; a client that waits for answers is served; only the last answer of a batch is written; which requests are handled with their body; OnTraffic ends | 2 requests of 9 kinds, cut between any elements, 2 handled that nobody has sent |
| `exchange` | an exchange over pooled objects implements one without pools; an error is answered as one, also behind what was written; a body is the request's own unless another one was read into its buffer; no header of the client reaches a handler | 2 goroutines, 3 kinds of requests, 2 objects in each pool and one buffer, 2 calls of the handler |
| `ratelimit` | no bucket holds more than its burst; a client is refused only within a token's time of a request or a look at its bucket, or by a burst of none; a sweep forgets only where ExpiresIn is shorter than a bucket takes to fill; a refused request is served only in the other of two passes | 2 requests at a time of one client, 3 instances, 4 chains, 5 ticks |
| `shared_values` | a response's date is from its own time; it is whole unless it was rewritten while it was copied; no more caches than misses, and two of one configuration only after two goroutines have missed it | 3 goroutines, 3 seconds, a header of 2 cells, 3 configurations |

Why the bounds are enough.  The races in the storage, the caches and the sessions are
between two goroutines, one of which is between two steps: two goroutines and the cleaner
show them all, and a second key or path shows what must not be disturbed.  Three ticks let
an entry be set, expire and be set again.  A fixed buffer of one function makes the chains
of the instance fit it or overflow it, as sixteen does in the code.  Three routes are what
it takes for one to shadow a second, so that a third is reached through the list; the
patterns have every kind of segment in first and last place, and the paths doubled and
trailing slashes.  In `filecache` the third path is what a limit of two files is for.  In `connection` two requests are a batch, and what a connection keeps
from one request to the next (`contentLength`, and what is left in the buffer) is seen by the
second; the proofs are of any number.  The nine kinds are each way to tell a body's length with
each mark in the places where the shortcuts look.  In `exchange` every object
is used a second time, by the other goroutine and for another kind of request, in any order;
the three kinds store parameters in each of the three ways there are, and one array of the
buffer is outgrown.  A header of two cells is the least that can be a mixture, and the third
goroutine meets what two have left.  In `ratelimit` the buckets hold two tokens, one and
none, and the clock runs for longer than any of them takes to fill or to expire.

Bounds that are in the guards: `MaxTime` (the clock), `MaxSent`, `MaxRequests`,
`MaxRoutes`, `MaxUse`, `MaxIndex`, `MaxGarbled`, `MaxVersion`, `MaxRead`, `MaxCalls`, `MaxMade`.  None of them stands for a limit in the code.
`MaxSize`, `MaxItems`, `MaxFDs`, `Fixed`, `Unrolled` do: they are limits of the code, made small.

Deadlock is looked for except where the system may stop: a goroutine may hang in a second
Close, a client may stop sending, and a goroutine that has come to one of the bounds stops
there.

### Fairness

Safety runs assume none.  `MemoryStorage!FairSpec` and `FileCache!FairCacheSpec` assume that the
Go runtime runs every goroutine that can run (weak fairness of its steps), and that a
sync.RWMutex hands itself to every waiter in the end (strong fairness of the steps that
take it: writers queue, and a waiting writer stops new readers).  A Close that is ready to
send reaches the cleaner in the end although the cleaner's select may take ticks first: it
chooses among what is ready at random.  The cleaner's ticker keeps firing; the clock need
not go on.  A client's next call is never assumed.  `Connection!FairSpec` assumes that
the event loop runs a callback to its end and that bytes that were sent arrive, which TCP
gives unless the connection closes.

## 4. What the runs found

Each is in `PROJECT.json` under `findings`, with the line of the comment it contradicts.

1. Get and Has may delete an entry that was Set after they saw it expired.
2. A second Close never returns.
3. Set counts the size of an entry that it replaces for good.
4. A request that finds its chain not compiled has its handlers called twice.
5. A compiled chain is found by code pointers that closures share: two STATIC routes, or
   two routes of one handler factory, may serve each other's requests.
6. Next does nothing in a compiled chain, and a middleware that answers by itself, as for a
   preflight, cannot keep the rest of the chain from being called.
7. The session middleware therefore saves before the handler has run.
8. Destroy removes the cookie `session_id`, not the configured one, for any session that
   was read from the store; with the next requests the client gets one new session after
   another and is told of none.
9. Two goroutines read through the offset of one cached descriptor, and what one of them
   has got is cached as the file.
10. A route with a wildcard before its last segment never answers.
11. A partly received request loses a byte, and with it the rest, or a chunked body.
12. The body of the first request of a connection does not reach the handler.
13. Of pipelined requests only the last one is answered.
14. On the server's own connections a handler finds no header that the client has sent: the
    Ctx reads the header of the response.  Tests make their contexts with GetContext, which
    does not replace it.
15. A request's body lies in a buffer that the next body is read into.
16. HEAD is answered with 200 where GET is answered with 500.
17. With the burst of DefaultConfig the rate limiter refuses every request.
18. The cleaner of one rate limiting instance forgets what clients owe another one.
19. Two goroutines that find no cache of a configuration make two, and one of them is lost.
20. The date header is rewritten in place while others copy it without the mutex.
21. The memory storage answers Get with an error of its own, not with `ngebut.ErrNotFound`,
    which its comment and the interface promise; the session store compares the text instead.
22. A body that begins with CRLF CRLF and goes on is lost, and what is behind that is parsed as
    the next request.
23. Chunks of a few bytes, with sizes of two digits, or with 0 CRLF CRLF in them, may be read
    wrong.
24. The parameter `*` of a route with parameters and a wildcard at its end is there or not,
    depending on whether the list or the tree has found the route.

All but 9 are stated as what does hold: properties such as `ImplementsCache` (of the lossy
store), `Accounting`, `RunsInOrder`, `NextInert`, `SilentIsLost`, `HandledWhole`,
`HeadersLost` or `SpacedAdmitted` say exactly how far the code's behaviour goes.  A repair of
the code shows up as a run that fails, or a clause that can be dropped, and must be restated.

## 5. What is proved

Theorems hold for every value of the constants that satisfies the named assumptions
(`StorageAssumption`, `MemoryAssumption`, `FileCacheAssumption`, `StaticAssumption`,
`DispatchAssumption`, `RoutingAssumption`, `PooledExchangeAssumption`, `SharedValuesAssumption`,
`RateLimitAssumption`, `SessionAssumption`, `ConnectionAssumption`), which TLC also evaluates.
They say what the types of the constants are and that `None` is no other value.  What else they
say: a bucket's interval is not zero (see section 6); there are more names for buckets than
requests and clients to hold one, and more for open files than goroutines and the cache, so that
a new one always gets a name; a chunked body does not begin with CRLF CRLF and ends in the last
chunk; a file is not empty, and a range lies within it; a pattern has a
parameter's name or a wildcard once at most, and the segments of a requested path are none of
these.

Every invariant and every property of steps that a passing run checks is a theorem.  Each
follows from an inductive invariant or, where it is of steps, from one and the step; TLC found
each inductive invariant to hold on the instance of the run before it was proved.  Runs are not
spent again on what is proved for every instance and is no question of its own: `TypeOK` of
`MemoryStorage`, `StaticFiles`, `Session` and `Connection`, `CacheTypeOK`, `RouterTypeOK`,
`LateCloseHangs` and `StampsItsEntry` are theorems that no run checks.

`MemoryStorageProofs`.  `IInv` is in `MemoryStorage`: types, *each goroutine is where its call
takes it* (`CallMatches`), *it knows its answer from its effect on* (`AnswerMatches`),
`LockDiscipline`, *one goroutine at most owns the mutex, and without readers once it is in*
(`OneOwner`), and *only keys that are given a ttl hold entries that expire, and only such keys
are purged* (`ExpiryFromTTL`).  None of the properties is inductive alone: `NoMapRace` needs
that the mutex is held by exactly those who are about to use the map, `PermanentKeysKept`
needs to know of a goroutine that waits to purge what it waits for.
* `TypeCorrect`, `LocksBalance`, `MapRaceFree`: `TypeOK`, `LockDiscipline`, `NoMapRace`.
* `PermanentKeysStay`: from `IInv`, by the steps that change the map.
* `LateCloseWaits`: nobody but the cleaner lets a Close go on, and a stopped one never runs.
* `StoreImplementsCache`: the store implements `KVStore` with `Lossy = TRUE` and, as `Missing`,
  the error of package memory.  `items` is mapped to its entries that have not expired
  (`LiveItems`); each step is mapped to the abstract call, the early loss of an entry, a tick, or
  a stutter.

`StaticFilesProofs`, of `FileCache`.
* `CacheTypeCorrect`: `CacheTypeOK`, with `CallMatches`.
* `SizeAccounted`: `currentSize` is the number of bytes cached plus `lost`, and `lost` is never
  more than `maxSize`, as a Set inserts only when `currentSize + size <= maxSize`.  Bytes are
  counted as the cardinality of a union over paths, so that a step that changes one path
  changes the count by its size.
* `LimitsKept`: follows from accounting, since `lost >= 0`, and from the condition of
  evict's loop.
* `GetStampsItsEntry`: whoever stamps holds the read lock (`Locking`) and has found its
  entry (`TouchesEntry`).

`StaticFilesProofs`, of `StaticFiles`.  Three layers of invariants, each inductive with those
below.  `Sound`: types; where a goroutine is and what it holds there (`Placed`), with the file
it has opened for the cache its own until it is in it (`Private`); two that read from one file
have each been interfered with (`SharedSpoils`); and `DescriptorsSound`, which needs the others
because a file enters the cache only steps after it was opened.  `AllUniform`: what a goroutine
has read, and what is cached, is of one version (`UniformReader`).  `AllQuiet`: whoever reads
undisturbed is at the offset its own reads have moved the file to, and has got just what lies
before it (`Quiet`); the version of a cached descriptor, and of content read undisturbed, is
between the one it was entered for and the one on disk.  A step changes what one goroutine holds
and at most one file, one entry and one line of the disk (`Locality`, `BesidesLocal`), so that
the others' parts need only be shown not to depend on these.
* `TypeCorrect`, `DescriptorsStaySound`: `TypeOK`, `DescriptorsSound`.  The run has room for
  one descriptor; which of several is dropped (the relation `older`) is covered by the proof.
* `OneVersionIsServed` (`OneVersion`), `QuietRequestsAreRight` (`QuietIsRight`).

`ConnectionProofs`.  What OnTraffic has still to go over (`Ahead`: the rest of the buffer and
what is on its way) is the end of a stream of requests (`Framed`): each element is followed as it
is in its request, or by the line of the next one, an end by the whole body, and in order.
Sending appends to it, OnTraffic drops from its front, and the arrival and the discarding of
bytes leave it alone.
Around this: what was handled lies behind it (`HandledBehind`); a Codec is new exactly as long
as the first line is ahead (`CodecOK`); a request of which a piece came alone has lost its
line, or is about to (`CutOK`); what a polite client has sent, is in the buffer, and has got
(`PoliteOK`); and what the response buffer holds (`ResponseOK`).  A clear request that is alone
in the buffer is parsed as what it is (`WholeAlone`); of others it is shown what Parse can take
for the body (`BlankIsOfTheBody`, `HeadAndBody`).  The smallest offset that
Parse looks for exists by the well-foundedness of the naturals (`FirstOfIsLeast`).
* `OnceAndInOrder`, `WholeUnlessNamed`, `OnlyTheLastIsAnswered`,
  `PoliteClientsAreServed`: `HandledOnce`, `HandledWhole`, `LastAnswerOnly`, `PoliteServed`, for
  requests with bodies of any length, any number of them, cut anywhere.

`RouterProofs`, of `Dispatch`.  `IInv` says that a context in use is held by one goroutine and that the
others are as ReleaseContext leaves them (`HasCtx`, `FreeUnused`), and of each goroutine
(`Placed`) how what it has called is a beginning of a chain with its own codes: by the place in
the compiled chain, or by the index of the context in a dynamic pass.
* `ChainsRunInOrder` (each function once in a compiled pass, the final one perhaps again in a
  dynamic one: `RunsInOrder`), `NextCallsNothing` (`NextInert`), `TypeCorrect` (`TypeOK`).
* `OnlyFailureStopsAPass`: of the steps that end a pass.

`RouterProofs`, of `Routing`.  `RouterSound`: what map and trees hold are routes of the method,
at the place of their patterns (`RouterTypeOK`); no route is missing from them
(`NothingMissing`, without which a 404 would say nothing); and an answer is what the present
routes give (`AnswerStands`).  That the four structures agree is then a matter of the operators.
Comparing segments takes just the paths a pattern stands for (`ScanIsMatch`), and the regular
expression, where it is tried, none besides (`RegexIsMatch`, which needs that the segments at
the ends of a path, where none is empty, are those at the ends of its clean form, `CleanEnds`).  A search of the
tree that ends at handlers has walked along a pattern that takes the path, with the values of
its parameters (`SearchWalks`).  So each structure finds only what comparing takes (`MapFinds`,
`TreeFinds`, `SearchFinds`), and the list finds all of it (`ListFinds`).
* `RouterTypeCorrect`, `RouteIsFound`, `ParamsAreRight`, `StaticGoesFirst`, `AllowIsRight`:
  `RouterTypeOK`, `RouteFound`, `ParamsRight`, `StaticFirst`, `AllowRight`, for any patterns,
  paths and number of routes.  `ParamsRight` names the one parameter, `*`, that depends on the
  structure that has found the route, and so on the other routes.

`PooledExchangeProofs`.  `IInv`: objects have one holder at most, and a goroutine holds what its
place in the code says (`Ownership`); what is in a pool is as new, but for what is never read
(`Fresh`); the store and the cached query of a handler are those of its request (`ParamsFound`,
`QueryCached`); the three parts of a reply hang together (`RepliesOK`); `BodiesKept`.
* `BodySafe`, `ClientHeadersLost`, `ErrorsAreShown`: `BodyUnlessShared`, `HeadersLost`,
  `ErrorsShow`.
* `PoolsImplementExchange`: the refinement of `Exchange`, for any goroutines, requests and pools.
  A reply is mapped to what `Gathered` collects from the Request, the recorder and the Ctx.

`SharedValuesProofs`.  `IInv`: who formats holds the mutex; what the cells hold, behind and
before the one that is formatted, is bounded by the second of each goroutine that copies
(`DateOK`); each cache made, or about to be, is for one miss, counted by cardinality
(`CachesOK`).
* `DatesAreCurrent`, `DatesAreWhole`, `InstancesDoSettle`: `DateCurrent`, `DateWhole`,
  `InstancesSettle`.  The proof showed that an earlier form of the last, that a goroutine's own
  miss accounts for its cache, fails with a fourth goroutine.

`RateLimitProofs`.  `IInv`: a bucket is one client's (`OneClient`); since it was last counted no
limiter was asked for that client unless the bucket is full (`BucketsOK`); `lastSeen` is not
behind the bucket, but for a token taken late (`VisitorsOK`, `LookupsOK`); a request of one pass
is refused or served behind the chain (`PassesOK`).
* `RateIsGranted`, `SweepsForgive`, `RefusalsHold`: `SpacedAdmitted`, `SweepKeepsLimit`,
  `RefusedNotServed`.

`SessionProofs`.  `IInv`: whoever has an ID, in its cookie or in a request, is the one client of
that session (`OwnersOK`); what is stored or in hand is over when the session is (`StoreOK`,
`HeldOK`); where a goroutine is (`PlacesOK`); and IDs are counted (`Counted`), without which an ID
that is about to be given out need not be new.
* `SessionsAreIsolated`, `SessionsEnd`, `SilentValuesAreLost`: `Isolation`, `SessionEnds`,
  `SilentIsLost`.
* `LockedOutForGood`: `StaysLockedOut`, of every step, from `OwnersOK`.

Only model-checked: liveness (`CallsReturn`, `ExpiredSwept`, `TrafficEnds`), as fairness and
ENABLED are beyond the proof system.  `CachedIsContent` is no theorem: it is the claim that
`static_poison` refutes.  The induction theorems of the library take an operator, which the
provers cannot instantiate; where an induction was needed (how far a search of the tree has got,
the places of segments in a clean path) it goes by a least counterexample instead (`NoneBad`,
from the well-foundedness of the naturals).

## 6. Not modelled

* Handlers that block for ever, panics, and what the operating system does to a read other
  than an error or fewer bytes.
* The parts in the last row of the first table, which keep no state between requests.  A
  group is a prefix and a call of Router.Handle; its middleware is stored and never used.
  CORS, basic auth and the access log look at one request; what becomes of the headers they
  ask for is finding 14.
* Text: stored session values, headers and cookies, query strings, JSON, the date itself.
* Directory listings, headers, the path of a static file and empty static files.
* Routes with text around a parameter (`/a:b`), names used twice in a pattern.  In routing,
  methods other than GET, HEAD and POST, which are treated as POST is.
* Pools whose objects are used and returned within one call.
* A rate limit configured with no requests, for which NewVisitor divides by zero.
* `Error(nil)` and an HttpError with a code below 400.  That the date is the server's local time
  under the name of GMT.  The constant session ID that is given out if no random one can be had:
  IDs are assumed to be new.
* Cuts within CRLF CRLF or 0 CRLF CRLF, and requests whose chunks begin with CRLF CRLF.
* What two saves, or a save and a Destroy, of one session do to each other is in `Session`, but
  no property restricts it, as no part of the code promises anything.  That a client is limited
  by the configuration of whichever instance saw it first is in `RateLimit` in the same way.

## 7. Plan

Done, in this order: memory storage with its contract and proofs; file cache with proofs;
dispatch; connection; static files; sessions; routing; the exchange over pooled objects with
its abstract specification; rate limiting; shared values; sessions over the lossy storage.

Proofs, also done: exchange with its refinement, dispatch, shared values, rate limiting,
sessions, connection, static files, routing.

Left: the parts of section 6.  Of these, routes with text around a parameter are the ones on
which the tree and the list could still disagree.
