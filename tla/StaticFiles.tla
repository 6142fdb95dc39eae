---------------------------- MODULE StaticFiles ----------------------------
(***************************************************************************)
(* Static files: createStaticHandler, serveFile, serveFileWithRange and    *)
(* preloadFileToCache of router.go over the cache of contents (FileCache)  *)
(* and the cache of open descriptors, filecache.FDCache.                   *)
(*                                                                         *)
(* An open file has one offset, and a descriptor in the cache is used by   *)
(* every goroutine that serves its path.  FDCache closes a descriptor that *)
(* it drops, whether or not somebody reads from it.                        *)
(*                                                                         *)
(* A file is replaced on disk by a newer version, never written in place;  *)
(* an open file keeps the version it was opened at.  A version has Length  *)
(* chunks, what one read returns, and is its own modification time.  Of    *)
(* FileCache only this is used: Set stores, and may drop another file.     *)
(* LastAccess is kept as the order of its times, which are all different.  *)
(***************************************************************************)
EXTENDS Integers, Sequences, FiniteSets, FiniteSetsExt

CONSTANTS Workers,     \* goroutines that serve or preload a file
          Paths,       \* paths of files
          InMemory,    \* those served with InMemoryCache
          Large,       \* those of more than 1MB
          Length,      \* chunks of a file
          Kinds,       \* what is asked of which path: <<"whole", p>>, ...
          Span,        \* the range asked for: its first and its last chunk
          MaxFDs,      \* FDCache.maxSize
          Fds,         \* open contents, os.File
          MaxVersion,  \* bound: newest version of the one file that is replaced
          MaxRead,     \* bound: chunks that one request reads
          None

\* An open file, and filecache.FileDescriptor.
OpenFile == [version: 1..MaxVersion, offset: 0..Length]
Descriptor == [file: Fds, modTime: 1..MaxVersion]

ASSUME StaticAssumption ==
  /\ InMemory \subseteq Paths /\ Large \subseteq Paths
  /\ Kinds \subseteq {"whole", "range"} \X Paths \cup {"preload"} \X InMemory
  /\ Length \in Nat \ {0} /\ Span[1] \in 1..Length /\ Span[2] \in Span[1]..Length
  /\ MaxFDs \in Nat \ {0}
  /\ IsFiniteSet(Fds) /\ Cardinality(Fds) >= Cardinality(Workers) + MaxFDs
  /\ MaxVersion \in Nat \ {0} /\ MaxRead \in Nat
  /\ None \notin Fds \cup OpenFile \cup Descriptor

VARIABLES disk,         \* disk[p]: the version of p on disk
          contents,     \* Cache.files: contents, or None
          descriptors,  \* FDCache.descriptors: descriptors, or None
          older,        \* <<p, q>>: LastAccess of p's descriptor is before that of q's
          fds,          \* fds[f]: the open file f, or None when it is closed
          pc, request, info,  \* per goroutine: where it is, what it serves, fileInfo
          file,         \* file[w]: the open file that it uses
          got,          \* got[w]: the chunks that it has read
          reply,        \* reply[w]: the response
          spoiled       \* history: another goroutine has interfered with w

caches == <<contents, descriptors, older>>
task == <<request, info>>
vars == <<disk, caches, fds, pc, task, file, got, reply, spoiled>>

-----------------------------------------------------------------------------
Op(w) == request[w][1]
Path(w) == request[w][2]
From(w) == IF Op(w) = "range" THEN Span[1] ELSE 1
To(w) == IF Op(w) = "range" THEN Span[2] ELSE Length

\* Read with a descriptor of its own: preloading, and serving a large file whole
\* unless there is a descriptor in the cache.
Streams(w) ==
  Op(w) = "preload" \/ (Op(w) = "whole" /\ Path(w) \in Large)

\* The whole file is read into a buffer that is cached.
Buffers(w) ==
  Op(w) = "preload" \/ (Path(w) \in InMemory /\ ~Streams(w))

OpenPc(w) == IF Streams(w) THEN "stream" ELSE "open"

Goto(w, label) == pc' = [pc EXCEPT ![w] = label]

\* The goroutine answers with the chunks, and is done; pure: nobody interfered.
Reply(w, status, chunks, pure) ==
  /\ reply' = [reply EXCEPT ![w] = [status |-> status, chunks |-> chunks, pure |-> pure]]
  /\ Goto(w, "done")

\* The range asked for, cut out of the content of the file.
ReplyFrom(w, content, pure) ==
  IF From(w) > Len(content)
    THEN Reply(w, "unsatisfiable", <<>>, pure)
    ELSE Reply(w, "sent", SubSeq(content, From(w), Min({To(w), Len(content)})), pure)

Init ==
  /\ disk = [p \in Paths |-> 1]
  /\ contents = [p \in Paths |-> None]
  /\ descriptors = [p \in Paths |-> None]
  /\ older = {}
  /\ fds = [f \in Fds |-> None]
  /\ pc = [w \in Workers |-> "idle"]
  /\ request = [w \in Workers |-> None]
  /\ info = [w \in Workers |-> 0]
  /\ file = [w \in Workers |-> None]
  /\ got = [w \in Workers |-> <<>>]
  /\ reply = [w \in Workers |-> None]
  /\ spoiled = [w \in Workers |-> FALSE]

\* os.Stat, then by the configuration and the kind of request.
Stat(w) ==
  /\ pc[w] = "idle"
  /\ \E kind \in Kinds :
       LET op == kind[1]
           p == kind[2]
       IN /\ op = "preload" => contents[p] = None
          /\ request' = [request EXCEPT ![w] = kind]
          /\ info' = [info EXCEPT ![w] = disk[p]]
          /\ Goto(w, IF op = "preload" THEN "stream"
                     ELSE IF p \in InMemory THEN "memory" ELSE "lookup")
  /\ UNCHANGED <<disk, caches, fds, file, got, reply, spoiled>>

-----------------------------------------------------------------------------
(* The cache of contents.                                                  *)

InCache(w) == contents[Path(w)] # None /\ info[w] <= contents[Path(w)].modTime

\* Mutant of MemoryHit: the modification time is not compared.
MemoryHitStale(w) ==
  /\ pc[w] = "memory"
  /\ contents[Path(w)] # None
  /\ ReplyFrom(w, contents[Path(w)].data, contents[Path(w)].pure)
  /\ UNCHANGED <<disk, caches, fds, task, file, got, spoiled>>

MemoryHit(w) ==
  /\ pc[w] = "memory"
  /\ InCache(w)
  /\ ReplyFrom(w, contents[Path(w)].data, contents[Path(w)].pure)
  /\ UNCHANGED <<disk, caches, fds, task, file, got, spoiled>>

MemoryMiss(w) ==
  /\ pc[w] = "memory"
  /\ ~InCache(w)
  /\ Goto(w, "lookup")
  /\ UNCHANGED <<disk, caches, fds, task, file, got, reply, spoiled>>

-----------------------------------------------------------------------------
(* The cache of descriptors.                                               *)

\* The goroutines that read from the open file f.
Readers(f) == {v \in Workers : pc[v] = "read" /\ file[v] = f}

Spoil(S) == spoiled' = [v \in Workers |-> spoiled[v] \/ v \in S]

Opened == {p \in Paths : descriptors[p] # None}

CachedFds == {descriptors[p].file : p \in Opened}
FdsOf(S) == {file[v] : v \in S}

\* The order of the paths S, and that with p accessed last of all.
Among(S) == older \cap (S \X S)
Latest(p, S) == Among(S \ {p}) \cup ((S \ {p}) \X {p})

Close(F) == fds' = [f \in Fds |-> IF f \in F THEN None ELSE fds[f]]

\* w uses its file no more; an open file that nobody uses is as good as closed.
LetGo(w) ==
  /\ file' = [file EXCEPT ![w] = None]
  /\ Close({file[w]} \ (CachedFds \cup FdsOf(Workers \ {w})))

\* fdCache.Get: the descriptor of the path, which FDCache goes on using.
FdGet(w) ==
  /\ pc[w] = "lookup"
  /\ LET fd == descriptors[Path(w)]
     IN \/ /\ fd = None
           /\ Goto(w, OpenPc(w))
           /\ UNCHANGED file
        \/ /\ fd # None
           /\ file' = [file EXCEPT ![w] = fd.file]
           /\ Goto(w, "check")
  /\ UNCHANGED <<disk, caches, fds, task, got, reply, spoiled>>

\* The end of Get, which stamps the descriptor it has found, and IsModified,
\* which looks at the one in the cache by now.
FdCheck(w) ==
  /\ pc[w] = "check"
  /\ LET fd == descriptors[Path(w)]
         same == fd # None /\ fd.file = file[w]
         current == fd # None /\ info[w] <= fd.modTime
     IN /\ older' = IF same THEN Latest(Path(w), Opened) ELSE older
        /\ \/ /\ current
              /\ Goto(w, "seek")
              /\ Spoil(IF same THEN {} ELSE {w})
              /\ UNCHANGED <<file, fds>>
           \/ /\ ~current
              /\ LetGo(w)
              /\ Goto(w, OpenPc(w))
              /\ UNCHANGED spoiled
  /\ UNCHANGED <<disk, contents, descriptors, task, got, reply>>

\* FDCache closes and forgets the descriptors of the paths.
Drop(ps) ==
  LET closed == {descriptors[p].file : p \in ps}
  IN /\ Close(closed)
     /\ descriptors' = [p \in Paths |-> IF p \in ps THEN None ELSE descriptors[p]]
     /\ older' = Among(Opened \ ps)
     /\ Spoil(UNION {Readers(f) : f \in closed})

\* Where the offset has to be: a buffer takes the whole file.
Start(w) == IF Buffers(w) THEN 0 ELSE From(w) - 1

\* Seek on a descriptor of the cache, under whoever reads from it.
Seek(w) ==
  /\ pc[w] = "seek"
  /\ fds[file[w]] # None
  /\ fds' = [fds EXCEPT ![file[w]].offset = Start(w)]
  /\ LET others == Readers(file[w])
     IN Spoil(IF others = {} THEN {} ELSE others \cup {w})
  /\ Goto(w, "read")
  /\ UNCHANGED <<disk, caches, task, file, got, reply>>

\* Seek fails on a closed file; Remove closes what the cache has by now.
SeekFails(w) ==
  /\ pc[w] = "seek"
  /\ fds[file[w]] = None
  /\ Drop({Path(w)} \cap Opened)
  /\ file' = [file EXCEPT ![w] = None]
  /\ Goto(w, OpenPc(w))
  /\ UNCHANGED <<disk, contents, task, got, reply>>

FreeFds == Fds \ (CachedFds \cup FdsOf(Workers))

Open(w) ==
  /\ pc[w] \in {"open", "stream"}
  /\ \E f \in FreeFds :
        /\ fds' = [fds EXCEPT ![f] =
                     [version |-> disk[Path(w)], offset |-> Start(w)]]
        /\ file' = [file EXCEPT ![w] = f]
  /\ Goto(w, IF pc[w] = "open" THEN "put" ELSE "read")
  /\ UNCHANGED <<disk, caches, task, got, reply, spoiled>>

OpenFails(w) ==
  /\ pc[w] \in {"open", "stream"}
  /\ Reply(w, "failed", <<>>, FALSE)
  /\ UNCHANGED <<disk, caches, fds, task, file, got, spoiled>>

\* FDCache.Set when the paths ps have been evicted; the descriptor that may be
\* there for the path is replaced and not closed.
Enter(w, ps) ==
  LET kept == Opened \ ps
      closed == {descriptors[p].file : p \in ps}
      old == {descriptors[p].file : p \in kept \cap {Path(w)}}
  IN /\ descriptors' = [p \in Paths |->
                          IF p = Path(w) THEN [file |-> file[w], modTime |-> info[w]]
                          ELSE IF p \in ps THEN None ELSE descriptors[p]]
     /\ older' = Latest(Path(w), kept)
     /\ Close(closed \cup (old \ FdsOf(Workers)))
     /\ Spoil(UNION {Readers(f) : f \in closed})
     /\ Goto(w, "read")
     /\ UNCHANGED <<disk, contents, task, file, got, reply>>

\* FDCache.Set: if the cache is full the descriptor used longest ago is closed.
FdSet(w) ==
  /\ pc[w] = "put"
  /\ \/ /\ Cardinality(Opened) < MaxFDs
        /\ Enter(w, {})
     \/ /\ Cardinality(Opened) >= MaxFDs
        /\ \E p \in Opened :
             /\ \A q \in Opened \ {p} : <<p, q>> \in older
             /\ Enter(w, {p})

-----------------------------------------------------------------------------
(* Reading.                                                                *)

\* All that io.CopyN is asked for, or the end of the file.
ReadAll(w) ==
  \/ fds[file[w]].offset = Length
  \/ Op(w) = "range" /\ ~Buffers(w) /\ Len(got[w]) = To(w) - From(w) + 1

Read(w) ==
  /\ pc[w] = "read"
  /\ fds[file[w]] # None
  /\ ~ReadAll(w)
  /\ Len(got[w]) < MaxRead
  /\ LET f == file[w]
     IN /\ got' = [got EXCEPT ![w] = Append(@, <<fds[f].version, fds[f].offset + 1>>)]
        /\ fds' = [fds EXCEPT ![f].offset = @ + 1]
  /\ UNCHANGED <<disk, caches, pc, task, file, reply, spoiled>>

\* A buffer is cached, with the time of the fileInfo, and the answer cut out of it.
Buffered(w) ==
  /\ pc[w] = "read"
  /\ fds[file[w]] # None
  /\ ReadAll(w)
  /\ Buffers(w)
  /\ contents' = [contents EXCEPT ![Path(w)] =
                 [data |-> got[w], modTime |-> info[w], pure |-> ~spoiled[w]]]
  /\ ReplyFrom(w, got[w], ~spoiled[w])
  /\ UNCHANGED <<disk, descriptors, older, fds, task, file, got, spoiled>>

\* Otherwise the chunks have gone to the response as they were read.
Copied(w) ==
  /\ pc[w] = "read"
  /\ fds[file[w]] # None
  /\ ReadAll(w)
  /\ ~Buffers(w)
  /\ Reply(w, "sent", got[w], ~spoiled[w])
  /\ UNCHANGED <<disk, caches, fds, task, file, got, spoiled>>

\* Mutant of ReadFails: every file is begun again behind what has been sent.
ReadFailsRetries(w) ==
  /\ pc[w] = "read"
  /\ fds[file[w]] = None
  /\ Drop({Path(w)} \cap Opened)
  /\ file' = [file EXCEPT ![w] = None]
  /\ Goto(w, OpenPc(w))
  /\ UNCHANGED <<disk, contents, task, got, reply>>

\* The file has been closed.  A buffer is given up; a response that has begun
\* stays as it is; a large file is begun again, behind what has been sent.
ReadFails(w) ==
  /\ pc[w] = "read"
  /\ fds[file[w]] = None
  /\ \/ /\ Buffers(w)
        /\ Reply(w, "failed", <<>>, ~spoiled[w])
        /\ UNCHANGED <<disk, caches, fds, task, file, got, spoiled>>
     \/ /\ ~Buffers(w) /\ ~Streams(w)
        /\ Reply(w, "sent", got[w], ~spoiled[w])
        /\ UNCHANGED <<disk, caches, fds, task, file, got, spoiled>>
     \/ /\ ~Buffers(w) /\ Streams(w)
        /\ Drop({Path(w)} \cap Opened)
        /\ file' = [file EXCEPT ![w] = None]
        /\ Goto(w, "stream")
        /\ UNCHANGED <<disk, contents, task, got, reply>>

Done(w) ==
  /\ pc[w] = "done"
  /\ Goto(w, "idle")
  /\ request' = [request EXCEPT ![w] = None]
  /\ info' = [info EXCEPT ![w] = 0]
  /\ LetGo(w)
  /\ got' = [got EXCEPT ![w] = <<>>]
  /\ reply' = [reply EXCEPT ![w] = None]
  /\ spoiled' = [spoiled EXCEPT ![w] = FALSE]
  /\ UNCHANGED <<disk, caches>>

-----------------------------------------------------------------------------
(* What happens besides.                                                   *)

\* A newer version of the file is put in its place.
Replace(p) ==
  /\ disk[p] < MaxVersion
  /\ \A q \in Paths \ {p} : disk[q] = 1
  /\ disk' = [disk EXCEPT ![p] = @ + 1]
  /\ UNCHANGED <<caches, fds, pc, task, file, got, reply, spoiled>>

\* FileCache.evict makes room for another file.
Forget(p) ==
  /\ contents[p] # None
  /\ contents' = [contents EXCEPT ![p] = None]
  /\ UNCHANGED <<disk, descriptors, older, fds, pc, task, file, got, reply, spoiled>>

\* Mutant of Cleanup: the files are closed and their descriptors kept.
CleanupKeeps(ps) ==
  /\ Close({descriptors[p].file : p \in ps})
  /\ UNCHANGED <<disk, caches, pc, task, file, got, reply, spoiled>>

\* FDCache.cleanup: the descriptors ps, used before all the others, have expired.
Cleanup(ps) ==
  /\ ps \X (Opened \ ps) \subseteq older
  /\ Drop(ps)
  /\ UNCHANGED <<disk, contents, pc, task, file, got, reply>>

ServeFile(w) ==
  \/ Stat(w) \/ MemoryHit(w) \/ MemoryMiss(w)
  \/ FdGet(w) \/ FdCheck(w) \/ Seek(w) \/ SeekFails(w)
  \/ Open(w) \/ OpenFails(w) \/ FdSet(w)
  \/ Read(w) \/ Buffered(w) \/ Copied(w) \/ ReadFails(w) \/ Done(w)

Next ==
  \/ \E w \in Workers : ServeFile(w)
  \/ \E p \in Paths : Replace(p) \/ Forget(p)
  \/ \E ps \in SUBSET Opened \ {{}} : Cleanup(ps)

Spec == Init /\ [][Next]_vars

-----------------------------------------------------------------------------
(* Properties.                                                             *)

Chunks == Seq((1..MaxVersion) \X (1..Length))
Statuses == {"sent", "unsatisfiable", "failed"}

\* Types of the variables.
TypeOK ==
  /\ disk \in [Paths -> 1..MaxVersion]
  /\ DOMAIN contents = Paths
  /\ \A p \in Paths : contents[p] # None =>
       contents[p].data \in Chunks /\ contents[p].modTime \in 1..disk[p] /\ contents[p].pure \in BOOLEAN
  /\ descriptors \in [Paths -> Descriptor \cup {None}]
  /\ older \subseteq Paths \X Paths
  /\ fds \in [Fds -> OpenFile \cup {None}]
  /\ pc \in [Workers -> {"idle", "memory", "lookup", "check", "seek", "open", "stream",
                         "put", "read", "done"}]
  /\ request \in [Workers -> Kinds \cup {None}]
  /\ info \in [Workers -> 0..MaxVersion]
  /\ file \in [Workers -> Fds \cup {None}]
  /\ got \in [Workers -> Chunks]
  /\ DOMAIN reply = Workers
  /\ \A w \in Workers : reply[w] # None =>
       reply[w].status \in Statuses /\ reply[w].chunks \in Chunks /\ reply[w].pure \in BOOLEAN
  /\ spoiled \in [Workers -> BOOLEAN]

\* FDCache keeps at most maxSize descriptors, of which each is open and serves
\* one path: whatever closes a file takes it out of the cache.  When they were
\* used last puts them in a total order, so that evictLRU always has one to evict.
DescriptorsSound ==
  /\ Cardinality(Opened) <= MaxFDs
  /\ older \subseteq Opened \X Opened
  /\ \A p, q \in Opened : (<<p, q>> \in older) # (p = q \/ <<q, p>> \in older)
  /\ \A p, q, r \in Opened : <<p, q>> \in older /\ <<q, r>> \in older => <<p, r>> \in older
  /\ \A p \in Opened : fds[descriptors[p].file] # None
  /\ \A p, q \in Opened : descriptors[p].file = descriptors[q].file => p = q

Content(v) == [i \in 1..Length |-> <<v, i>>]

\* A request that no other goroutine has interfered with, at the descriptor or
\* by way of the cache, gets the range it asked for of a version that is not
\* older than the one there when the request came in.
QuietIsRight ==
  \A w \in Workers :
    pc[w] = "done" /\ reply[w].pure =>
      /\ reply[w].status = "sent"
      /\ \E v \in info[w]..disk[Path(w)] :
           reply[w].chunks = SubSeq(Content(v), From(w), To(w))

\* However goroutines interfere, a response has chunks of one version of the
\* file only, unless a large file is streamed, which may be begun twice.
OneVersion ==
  \A w \in Workers :
    pc[w] = "done" /\ ~Streams(w) =>
      \A i, j \in DOMAIN reply[w].chunks : reply[w].chunks[i][1] = reply[w].chunks[j][1]

\* router.go:740, "Cache the file content directly from buffer": what is cached
\* is the content of the file, all of it and in order.
CachedIsContent ==
  \A p \in Paths : contents[p] # None => \E v \in 1..disk[p] : contents[p].data = Content(v)
=============================================================================
