----------------------------- MODULE CacheIndex -----------------------------
(***************************************************************************)
(* How the index of one session is read and written (load_index and flush  *)
(* in src/cache.rs): the directory entries <hash>.index and <hash>.tmp,    *)
(* the files behind them, and the runs of that session, which all use the  *)
(* same two names and take no lock.  Beside it lie the indexes of other    *)
(* sessions; when a run of any session ends it removes the oldest ones.    *)
(***************************************************************************)
EXTENDS Naturals, FiniteSets

CONSTANTS
  Procs,      \* runs of the session
  Others,     \* the other sessions; each stands for its index and its run too
  MaxSessions, \* how many sessions evict leaves alone
  Own,        \* the name of this session's index
  Maps,       \* what the map of a run can be
  EmptyMap,
  Inodes,     \* the files of the file system
  None,       \* no file, nothing open
  Empty,      \* contents of a file just truncated; not JSON
  Torn        \* part of a map, or two overlaid; not JSON

ASSUME ConstantsOK ==
  /\ EmptyMap \in Maps
  /\ None \notin Maps \union Inodes \union {Empty, Torn}
  /\ {Empty, Torn} \cap Maps = {}
  /\ None \notin Others /\ Own \notin Others
  /\ Procs \cap Others = {} /\ Inodes \cap Others = {}
  /\ IsFiniteSet(Others)
  /\ MaxSessions \in Nat

VARIABLES
  index,  \* the inode <hash>.index names
  tmp,    \* the inode <hash>.tmp names
  data,   \* data[i]: the bytes of inode i
  pc,     \* pc[p]: where p stands
  mem,    \* mem[p]: ResultCache::entries
  dirty,  \* dirty[p]: ResultCache::dirty
  fd,     \* fd[p]: the inode p has open for writing
  clash,  \* whether flushes overlapped since one was last under way alone (history)
  offered, \* the maps they were to save (history)
  others, \* the other sessions that have an index
  after,  \* after[x]: the files written after x, which is how their mtimes sort
  doomed, \* doomed[e]: the names that run e still has to remove
  raced   \* an index was renewed after a run had listed what to remove (history)

files == <<index, tmp, data, clash, offered>>
eviction == <<others, after, doomed, raced>>
vars == <<index, tmp, data, pc, mem, dirty, fd, clash, offered, others, after, doomed, raced>>

Runs == Procs \union Others

TypeOK ==
  /\ index \in Inodes \union {None}
  /\ tmp \in Inodes \union {None}
  /\ data \in [Inodes -> Maps \union {Empty, Torn}]
  /\ pc \in [Procs -> {"down", "lint", "writing", "written", "flushed"}]
  /\ mem \in [Procs -> Maps]
  /\ dirty \in [Procs -> BOOLEAN]
  /\ fd \in [Procs -> Inodes \union {None}]
  /\ clash \in BOOLEAN
  /\ offered \subseteq Maps
  /\ others \subseteq Others
  /\ after \in [Others \union Inodes -> SUBSET (Others \union Inodes)]
  /\ doomed \in [Runs -> SUBSET (Others \union {Own})]
  /\ raced \in BOOLEAN

Init ==
  /\ index = None
  /\ tmp = None
  /\ data = [i \in Inodes |-> Empty]
  /\ pc = [p \in Procs |-> "down"]
  /\ mem = [p \in Procs |-> EmptyMap]
  /\ dirty = [p \in Procs |-> FALSE]
  /\ fd = [p \in Procs |-> None]
  /\ clash = FALSE
  /\ offered = {}
  /\ others = {}
  /\ after = [x \in Others \union Inodes |-> {}]
  /\ doomed = [e \in Runs |-> {}]
  /\ raced = FALSE

\* The files that have a name or are open.
Existing == (others \union {index, tmp} \union {fd[p] : p \in Procs}) \ {None}

\* x is written, and sorts behind all others.
WrittenLast(x) ==
  [y \in Others \union Inodes |->
     IF y = x \/ y \notin Existing THEN {} ELSE (after[y] \cap Existing) \union {x}]

\* The indexes of these names are not what a run may have listed any more.
Renewed(names) ==
  raced' = (raced \/ \E e \in Runs : doomed[e] \cap names # {})

\* serde_json::from_slice(..).unwrap_or_default(): what does not parse is empty.
Parse(bytes) == IF bytes \in Maps THEN bytes ELSE EmptyMap

\* ResultCache::new.
Load(p) ==
  /\ pc[p] = "down"
  /\ doomed[p] = {}
  /\ pc' = [pc EXCEPT ![p] = "lint"]
  /\ mem' = [mem EXCEPT ![p] = IF index = None THEN EmptyMap ELSE Parse(data[index])]
  /\ dirty' = [dirty EXCEPT ![p] = FALSE]
  /\ UNCHANGED <<files, fd, eviction>>

\* put and get_by_content.
Learn(p) ==
  /\ pc[p] = "lint"
  /\ \E m \in Maps : mem' = [mem EXCEPT ![p] = m]
  /\ dirty' = [dirty EXCEPT ![p] = TRUE]
  /\ UNCHANGED <<files, pc, fd, eviction>>

\* The runs that are under way in flush.
Flushing == {q \in Procs : pc[q] \in {"writing", "written"}}

\* The map is not used any more: evict comes next, or the process is killed.
Exit(p) ==
  /\ \E next \in {"flushed", "down"} : pc' = [pc EXCEPT ![p] = next]
  /\ mem' = [mem EXCEPT ![p] = EmptyMap]
  /\ dirty' = [dirty EXCEPT ![p] = FALSE]
  /\ fd' = [fd EXCEPT ![p] = None]
  /\ IF Flushing \subseteq {p} THEN clash' = FALSE /\ offered' = {}
                              ELSE UNCHANGED <<clash, offered>>

\* flush returns early.
NothingToFlush(p) ==
  /\ pc[p] = "lint"
  /\ ~dirty[p]
  /\ Exit(p)
  /\ UNCHANGED <<index, tmp, data, eviction>>

\* p starts to write while the runs in Flushing do, which nothing in the code prevents.
MeetFlushes(p) ==
  /\ clash' = (Flushing # {})
  /\ offered' = offered \union {mem[p]}

\* fs::write without the temporary file: the index itself is opened and truncated.
OpenIndex(p) ==
  /\ pc[p] = "lint"
  /\ dirty[p]
  /\ \E i \in Inodes :
       /\ IF index = None THEN i # tmp /\ \A q \in Procs : fd[q] # i ELSE i = index
       /\ index' = i
       /\ data' = [data EXCEPT ![i] = Empty]
       /\ fd' = [fd EXCEPT ![p] = i]
       /\ after' = WrittenLast(i)
  /\ pc' = [pc EXCEPT ![p] = "writing"]
  /\ MeetFlushes(p)
  /\ Renewed({Own})
  /\ UNCHANGED <<tmp, mem, dirty, others, doomed>>

\* fs::write without truncation: what an earlier run left there is overwritten in place.
OpenTmpInPlace(p) ==
  /\ pc[p] = "lint"
  /\ dirty[p]
  /\ \E i \in Inodes :
       /\ IF tmp = None THEN i # index /\ \A q \in Procs : fd[q] # i ELSE i = tmp
       /\ tmp' = i
       /\ data' = [data EXCEPT ![i] = IF tmp = None THEN Empty ELSE data[i]]
       /\ fd' = [fd EXCEPT ![p] = i]
       /\ after' = WrittenLast(i)
  /\ pc' = [pc EXCEPT ![p] = "writing"]
  /\ MeetFlushes(p)
  /\ UNCHANGED <<index, mem, dirty, others, doomed, raced>>

\* fs::write opens <hash>.tmp: the file of that name is truncated, also under a run
\* that has written a part to it and goes on behind the hole, or a new one is created.
OpenTmp(p) ==
  /\ pc[p] = "lint"
  /\ dirty[p]
  /\ \E i \in Inodes, bytes \in {Empty, Torn} :
       /\ IF tmp = None THEN i # index /\ \A q \in Procs : fd[q] # i ELSE i = tmp
       /\ bytes = Torn => \E q \in Procs : fd[q] = i
       /\ tmp' = i
       /\ data' = [data EXCEPT ![i] = bytes]
       /\ fd' = [fd EXCEPT ![p] = i]
       /\ after' = WrittenLast(i)
  /\ pc' = [pc EXCEPT ![p] = "writing"]
  /\ MeetFlushes(p)
  /\ UNCHANGED <<index, mem, dirty, others, doomed, raced>>

\* fs::write writes the serialized map from offset 0 and closes the file.  If another
\* run has written there since the file was truncated, the longer text keeps its tail.
WriteTmp(p) ==
  /\ pc[p] = "writing"
  /\ \E bytes \in {mem[p], Torn} :
       /\ data[fd[p]] = Empty => bytes = mem[p]
       /\ data' = [data EXCEPT ![fd[p]] = bytes]
  /\ pc' = [pc EXCEPT ![p] = "written"]
  /\ fd' = [fd EXCEPT ![p] = None]
  /\ after' = WrittenLast(fd[p])
  /\ Renewed(IF fd[p] = index THEN {Own} ELSE {})
  /\ UNCHANGED <<index, tmp, mem, dirty, clash, offered, others, doomed>>

\* rename(tmp, index); its failure, because the name is gone, is ignored.  An index
\* written in place since then gives way to an older file.
Rename(p) ==
  /\ pc[p] = "written"
  /\ IF tmp = None
     THEN UNCHANGED <<index, tmp, raced>>
     ELSE /\ index' = tmp
          /\ tmp' = None
          /\ Renewed(IF index # None /\ tmp \notin after[index] THEN Others \union {Own}
                                                                ELSE {Own})
  /\ Exit(p)
  /\ UNCHANGED <<data, others, after, doomed>>

\* The process is killed, or fs::write or rename fails and flush ignores it.  A write
\* under way leaves nothing, all or a part of it.
Abandon(p) ==
  /\ pc[p] \notin {"down", "flushed"}
  /\ IF pc[p] = "writing"
     THEN /\ \E bytes \in {data[fd[p]], Torn} : data' = [data EXCEPT ![fd[p]] = bytes]
          /\ after' \in {after, WrittenLast(fd[p])}
          /\ Renewed(IF fd[p] = index THEN {Own} ELSE {})
     ELSE UNCHANGED <<data, after, raced>>
  /\ Exit(p)
  /\ UNCHANGED <<index, tmp, others, doomed>>

\* --cache-clear removes the whole cache directory.
ClearCache ==
  /\ index # None \/ tmp # None \/ others # {}
  /\ index' = None
  /\ tmp' = None
  /\ others' = {}
  /\ UNCHANGED <<data, pc, mem, dirty, fd, clash, offered, after, doomed, raced>>

-----------------------------------------------------------------------------
(* Eviction.                                                               *)

\* A run of another session flushes.
OtherFlush(o) ==
  /\ others' = others \union {o}
  /\ after' = WrittenLast(o)
  /\ Renewed({o})
  /\ UNCHANGED <<files, pc, mem, dirty, fd, doomed>>

\* The index files in the cache directory, and what they are named.
Indexes == others \union ({index} \ {None})
NameOf(x) == IF x = index THEN Own ELSE x
FileOf(name) == IF name = Own THEN index ELSE name

Target == IF MaxSessions \div 2 > 1 THEN MaxSessions \div 2 ELSE 1

\* How many indexes are younger than x.
Younger(x) == Cardinality(after[x] \cap Indexes)

\* The youngest first.
YoungestSessions ==
  IF Cardinality(Indexes) <= MaxSessions THEN {}
  ELSE {x \in Indexes : Cardinality(Indexes) - Younger(x) > Target}
\* evict_old_sessions: the first of the sorted list, as many as are above the target.
OldSessions ==
  IF Cardinality(Indexes) <= MaxSessions THEN {}
  ELSE {x \in Indexes : Younger(x) >= Target}

\* evict: read_dir and the mtimes.
List(e) ==
  /\ IF e \in Procs THEN /\ pc[e] = "flushed"
                         /\ pc' = [pc EXCEPT ![e] = "down"]
                    ELSE UNCHANGED pc
  /\ doomed[e] = {}
  /\ doomed' = [doomed EXCEPT ![e] = {NameOf(x) : x \in OldSessions}]
  /\ raced' = (raced /\ \E r \in Runs : doomed[r] # {})
  /\ UNCHANGED <<files, mem, dirty, fd, others, after>>

\* remove_file, whatever the name stands for by now; in any order.
Remove(e, name) ==
  /\ name \in doomed[e]
  /\ doomed' = [doomed EXCEPT ![e] = @ \ {name}]
  /\ IF name = Own THEN index' = None /\ UNCHANGED others
                   ELSE others' = others \ {name} /\ UNCHANGED index
  /\ UNCHANGED <<tmp, data, clash, offered, pc, mem, dirty, fd, after, raced>>

\* The run is killed before it has removed them all.
StopEvicting(e) ==
  /\ doomed[e] # {}
  /\ doomed' = [doomed EXCEPT ![e] = {}]
  /\ UNCHANGED <<files, pc, mem, dirty, fd, others, after, raced>>

Next ==
  \/ \E p \in Procs : \/ Load(p) \/ Learn(p) \/ NothingToFlush(p)
                      \/ OpenTmp(p) \/ WriteTmp(p) \/ Rename(p) \/ Abandon(p)
  \/ ClearCache
  \/ \E o \in Others : OtherFlush(o)
  \/ \E e \in Runs : \/ List(e) \/ StopEvicting(e)
                     \/ \E name \in Others \union {Own} : Remove(e, name)

Spec == Init /\ [][Next]_vars

-----------------------------------------------------------------------------

IndexWhole == index # None => data[index] \in Maps

\* src/cache.rs: "Uses atomic write (temp file + rename) to avoid corruption."  A run that
\* reads the index, whatever crashed or failed before, finds one whole map, with one
\* exception: two flushes of the session that overlap share the temporary file, and while
\* they do, they can leave a torn index.
OnlyOverlapsBreak ==
  [][IndexWhole /\ ~clash => IndexWhole']_vars

\* A run whose flush meets no other leaves its whole map in the index, whatever the
\* overlaps, crashes and failures before it left in either file.
LoneFlushRepairs ==
  [][\A p \in Procs : Rename(p) /\ ~clash /\ tmp # None =>
       index' # None /\ data'[index'] = mem[p]]_vars

\* However many runs evict at once, between flushes of any session, an index goes only
\* while the youngest half of MaxSessions stays, unless one was written, or gave way to an
\* older file, between a run's look at the directory and its removals.  src/cache.rs:
\* "removes the oldest sessions (by mtime) until count drops to half the limit."
EvictionKeepsRecent ==
  [][\A e \in Runs, name \in Others \union {Own} :
       Remove(e, name) /\ ~raced /\ FileOf(name) \in Indexes =>
         Younger(FileOf(name)) >= Target]_vars

\* The abstract store this implements.
Store == INSTANCE IndexStore WITH
  stored <- IF index = None THEN None ELSE IF data[index] \in Maps THEN data[index] ELSE Torn,
  run    <- [p \in Procs |-> IF pc[p] \in {"down", "flushed"} THEN "down"
                              ELSE IF pc[p] = "lint" THEN "up" ELSE "saving"]

\* Runs that load, learn and flush in any interleaving, with crashes, full disks, stale
\* .tmp files, eviction and --cache-clear, see a store whose map is replaced at once; while
\* flushes overlap it may lose it, but never holds a map that none of them flushed.
ImplementsIndexStore == Store!Spec
=============================================================================
