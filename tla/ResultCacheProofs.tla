-------------------------- MODULE ResultCacheProofs --------------------------
(***************************************************************************)
(* Proofs about ResultCache, for every number of processes, files, options *)
(* and contents, and any bound on the clock.                               *)
(***************************************************************************)
EXTENDS ResultCache, TLAPS

\* What holds of every entry of f in a map of session k, in memory or on disk.
EntryOK(e, f, k) ==
  /\ e.diags.content = e.hash
  /\ e.diags.opts.key = k
  /\ e.mtime <= mtime[f]
  /\ content[f] # None /\ f \notin raced /\ StampMatches(e, f) => e.hash = content[f]

MapsOK ==
  /\ \A p \in Procs, f \in Files :
       entries[p][f] # None => EntryOK(entries[p][f], f, opts[p].key)
  /\ \A k \in Keys, f \in Files :
       stored[k] # None /\ stored[k][f] # None => EntryOK(stored[k][f], f, k)

ClockOK == \A f \in Files : mtime[f] <= now

\* A process that is down has no memory.
DownOK ==
  \A p \in Procs : ~Live(p) =>
    \A f \in Files : pc[p][f] = "queued" /\ entries[p][f] = None /\ result[p][f] = None

\* What the worker of f knows at each point of lint_file.
WorkerOK(p, f) ==
  /\ pc[p][f] \in {"queued", "missed", "skipped", "unreadable", "read", "matched"}
       => result[p][f] = None
  /\ pc[p][f] \in {"read", "matched", "linted"} => observed[p][f] \in Contents
  /\ pc[p][f] = "matched" => HashMatches(p, f)
  /\ pc[p][f] = "linted" => result[p][f] = Lint(opts[p], observed[p][f])
  /\ pc[p][f] \in {"stat_hit", "content_hit", "stored"} =>
       /\ entries[p][f] # None
       /\ result[p][f] = entries[p][f].diags
  /\ pc[p][f] \in {"content_hit", "stored"} => dirty[p]
  /\ result[p][f] # None => result[p][f].opts.key = opts[p].key

WorkersOK == \A p \in Procs, f \in Files : WorkerOK(p, f)

\* The inductive invariant.
IInv == TypeOK /\ MapsOK /\ ClockOK /\ DownOK /\ WorkersOK /\ ResultsAreOfTheFile

-----------------------------------------------------------------------------

\* The initial states: no entry, no result, one tick on the clock.
LEMMA InitIInv == Init => IInv
<1> SUFFICES ASSUME Init PROVE IInv
  OBVIOUS
<1> USE ConstantsOK DEF Init
<1>1. TypeOK
  BY DEF TypeOK, PC, Map, EmptyMap, Opts
<1>2. MapsOK /\ ClockOK /\ DownOK
  BY DEF MapsOK, ClockOK, DownOK, EmptyMap, Live
<1>3. WorkersOK
  BY DEF WorkersOK, WorkerOK
<1>4. ResultsAreOfTheFile
  BY DEF ResultsAreOfTheFile
<1>5. QED
  BY <1>1, <1>2, <1>3, <1>4 DEF IInv

\* Where the file system is left alone, an entry stays as good as it was.
LEMMA EntryKept ==
  ASSUME NEW f \in Files, NEW k \in Keys, NEW e \in Entry, EntryOK(e, f, k),
         UNCHANGED <<content, mtime>>, raced \subseteq raced'
  PROVE  EntryOK(e, f, k)'
BY DEF EntryOK, StampMatches, Stat

\* The entries of memory and disk are among EntriesOf.
LEMMA EntriesOfMembers ==
  ASSUME NEW f \in Files
  PROVE  /\ \A p \in Procs : entries[p][f] \in EntriesOf(f)
         /\ \A k \in Keys : stored[k] # None => stored[k][f] \in EntriesOf(f)
BY DEF EntriesOf

\* A lookup step of a worker changes neither the maps nor the file system.
LEMMA LookupKeepsMaps ==
  ASSUME IInv, NEW p \in Procs, NEW f \in Files,
         UNCHANGED <<now, content, mtime, stored, phase, opts, entries, raced>>
  PROVE  MapsOK' /\ ClockOK'
<1>1. MapsOK'
  BY DEF IInv, MapsOK, EntryOK, StampMatches, Stat
<1>2. ClockOK'
  BY DEF IInv, ClockOK
<1>3. QED
  BY <1>1, <1>2

\* The steps of lint_file that only look: what a worker has to know about where it
\* goes, what it saw and what it returns for the invariant to be kept.
LEMMA LookupStep ==
  ASSUME IInv, NEW p \in Procs, NEW f \in Files, NEW from,
         NEW to \in PC \ {"queued", "content_hit", "stored"},
         NEW obs \in Contents \union {None}, NEW res \in Diags \union {None},
         Worker(p, f, from, to, obs, res),
         UNCHANGED <<entries, dirty, raced>>,
         to \in {"missed", "skipped", "unreadable", "read", "matched"} => res = None,
         to \in {"read", "matched", "linted"} => obs \in Contents,
         to = "matched" => entries[p][f] # None /\ entries[p][f].hash = obs,
         to = "linted" => res = Lint(opts[p], obs),
         to = "stat_hit" => entries[p][f] # None /\ res = entries[p][f].diags,
         res # None => res.opts.key = opts[p].key,
         to \in Returned /\ res # None /\ f \notin raced => res.content = obs
  PROVE  IInv'
<1> USE DEF IInv
<1>1. TypeOK'
  BY DEF TypeOK, Worker
<1>2. MapsOK' /\ ClockOK'
  BY LookupKeepsMaps DEF Worker
<1>3. DownOK'
  BY DEF TypeOK, DownOK, Live, Worker
<1>4. WorkersOK'
  <2> SUFFICES ASSUME NEW q \in Procs, NEW g \in Files
               PROVE  WorkerOK(q, g)'
    BY DEF WorkersOK
  <2>1. CASE q = p /\ g = f
    BY <2>1 DEF TypeOK, WorkerOK, Worker, HashMatches, Lint
  <2>2. CASE ~(q = p /\ g = f)
    <3>1. /\ pc'[q][g] = pc[q][g]
          /\ observed'[q][g] = observed[q][g]
          /\ result'[q][g] = result[q][g]
      BY <2>2 DEF TypeOK, Worker
    <3>2. WorkerOK(q, g)
      BY DEF WorkersOK
    <3>3. QED
      BY <3>1, <3>2 DEF WorkerOK, Worker, HashMatches, Lint
  <2>3. QED
    BY <2>1, <2>2
<1>5. ResultsAreOfTheFile'
  BY DEF TypeOK, ResultsAreOfTheFile, Worker
<1>6. QED
  BY <1>1, <1>2, <1>3, <1>4, <1>5

\* Files that never reach the cache return nothing.
LEMMA SkipKeepsIInv ==
  ASSUME IInv, NEW p \in Procs, NEW f \in Files, Skip(p, f)
  PROVE  IInv'
BY LookupStep DEF Skip, PC, Returned

\* A stat hit returns diagnostics of the file's bytes: StampsAreSound at work.
LEMMA StatHitKeepsIInv ==
  ASSUME IInv, NEW p \in Procs, NEW f \in Files, StatHit(p, f)
  PROVE  IInv'
<1> DEFINE e == entries[p][f]
<1>1. e \in Entry /\ e # None /\ content[f] \in Contents
  BY DEF StatHit, IInv, TypeOK, Map
<1>2. EntryOK(e, f, opts[p].key)
  BY <1>1 DEF IInv, MapsOK
<1>3. e.diags \in Diags /\ e.diags.opts.key = opts[p].key
  BY <1>1, <1>2 DEF EntryOK, Entry
<1>4. f \notin raced => e.diags.content = content[f]
  BY <1>1, <1>2 DEF EntryOK, StatHit
<1>5. Worker(p, f, "queued", "stat_hit", content[f], e.diags) /\ UNCHANGED <<entries, dirty, raced>>
  BY DEF StatHit
<1>6. QED
  BY <1>1, <1>3, <1>4, <1>5, LookupStep DEF PC, Returned

\* A miss of the stat tier teaches the worker nothing.
LEMMA StatMissKeepsIInv ==
  ASSUME IInv, NEW p \in Procs, NEW f \in Files, StatMiss(p, f)
  PROVE  IInv'
BY LookupStep DEF StatMiss, PC, Returned

\* A file that is gone yields no result.
LEMMA ReadFailsKeepsIInv ==
  ASSUME IInv, NEW p \in Procs, NEW f \in Files, ReadFails(p, f)
  PROVE  IInv'
BY LookupStep DEF ReadFails, PC, Returned

\* The bytes read are those the file holds.
LEMMA ReadKeepsIInv ==
  ASSUME IInv, NEW p \in Procs, NEW f \in Files, Read(p, f)
  PROVE  IInv'
BY LookupStep DEF Read, PC, Returned

\* A lint result is of the bytes it was given, under the options of the run.
LEMMA LintType ==
  ASSUME NEW o \in Opts, NEW d \in Contents
  PROVE  /\ Lint(o, d) \in Diags
         /\ Lint(o, d).content = d
         /\ Lint(o, d).opts = o
BY DEF Lint, Diags

\* Invalid UTF-8 is linted, as it were, in the step that reads it.
LEMMA ReadInvalidUtf8KeepsIInv ==
  ASSUME IInv, NEW p \in Procs, NEW f \in Files, ReadInvalidUtf8(p, f)
  PROVE  IInv'
<1>1. content[f] \in Contents /\ opts[p] \in Opts
  BY ConstantsOK DEF ReadInvalidUtf8, IInv, TypeOK
<1>2. Worker(p, f, "missed", "linted", content[f], Lint(opts[p], content[f]))
      /\ UNCHANGED <<entries, dirty, raced>>
  BY DEF ReadInvalidUtf8
<1>3. QED
  BY <1>1, <1>2, LintType, LookupStep DEF PC, Returned

\* A content match: the entry's hash, hence its diagnostics, are of the bytes read.
LEMMA ContentMatchKeepsIInv ==
  ASSUME IInv, NEW p \in Procs, NEW f \in Files, ContentMatch(p, f)
  PROVE  IInv'
<1>1. observed[p][f] \in Contents
  BY DEF ContentMatch, Worker, IInv, WorkersOK, WorkerOK
<1>2. QED
  BY <1>1, LookupStep DEF ContentMatch, HashMatches, PC, Returned

\* A content miss: the bytes read are linted.
LEMMA ContentMissKeepsIInv ==
  ASSUME IInv, NEW p \in Procs, NEW f \in Files, ContentMiss(p, f)
  PROVE  IInv'
<1>1. observed[p][f] \in Contents /\ opts[p] \in Opts
  BY DEF ContentMiss, Worker, IInv, WorkersOK, WorkerOK, TypeOK
<1>2. Worker(p, f, "read", "linted", observed[p][f], Lint(opts[p], observed[p][f]))
      /\ UNCHANGED <<entries, dirty, raced>>
  BY DEF ContentMiss
<1>3. QED
  BY <1>1, <1>2, LintType, LookupStep DEF PC, Returned

\* The two steps that write an entry: the stamp is taken now, the hash and the
\* diagnostics belong to the bytes read before.
LEMMA WriteStep ==
  ASSUME IInv, NEW p \in Procs, NEW f \in Files, NEW from,
         NEW to \in {"content_hit", "stored"}, NEW res \in Diags, NEW e \in Entry,
         observed[p][f] \in Contents,
         Worker(p, f, from, to, observed[p][f], res),
         entries' = [entries EXCEPT ![p][f] = e],
         dirty' = [dirty EXCEPT ![p] = TRUE],
         raced' = IF ChangedSinceRead(p, f) THEN raced \union {f} ELSE raced,
         e.mtime = Stat(f, observed[p][f]).mtime,
         e.hash = observed[p][f],
         e.diags = res,
         res.content = observed[p][f],
         res.opts.key = opts[p].key
  PROVE  IInv'
<1> USE DEF IInv
<1>0. e # None /\ res # None /\ raced \subseteq raced'
  BY ConstantsOK
<1>1. TypeOK'
  BY DEF TypeOK, Worker, PC, Map
<1>2. MapsOK'
  <2>1. EntryOK(e, f, opts[p].key)'
    <3>1. e.mtime <= mtime'[f]
      BY DEF Stat, TypeOK, Worker
    <3>2. content'[f] # None /\ f \notin raced' => e.hash = content'[f]
      BY DEF ChangedSinceRead, Worker
    <3>3. QED
      BY <3>1, <3>2 DEF EntryOK, Worker
  <2>2. ASSUME NEW q \in Procs, NEW g \in Files, entries'[q][g] # None
        PROVE  EntryOK(entries[q][g], g, opts[q].key)' 
    <3>1. CASE q = p /\ g = f
      <4>1. entries'[p][f] = e
        BY DEF TypeOK, Map
      <4>2. QED
        BY <2>1, <3>1, <4>1 DEF EntryOK, Worker, StampMatches, Stat
    <3>2. CASE ~(q = p /\ g = f)
      <4>1. entries'[q][g] = entries[q][g]
        BY <3>2 DEF TypeOK, Map
      <4>2. entries[q][g] \in Entry /\ opts[q].key \in Keys
        BY <2>2, <4>1 DEF TypeOK, Map, Opts
      <4>3. EntryOK(entries[q][g], g, opts[q].key)
        BY <2>2, <4>1 DEF MapsOK
      <4>4. QED
        BY <1>0, <4>1, <4>3 DEF Worker, EntryOK, StampMatches, Stat
    <3>3. QED
      BY <3>1, <3>2
  <2>3. ASSUME NEW k \in Keys, NEW g \in Files, stored'[k] # None, stored'[k][g] # None
        PROVE  EntryOK(stored[k][g], g, k)'
    <3>1. stored' = stored
      BY DEF Worker
    <3>2. EntryOK(stored[k][g], g, k)
      BY <2>3, <3>1 DEF MapsOK
    <3>3. QED
      BY <1>0, <3>1, <3>2 DEF Worker, EntryOK, StampMatches, Stat
  <2>4. QED
    BY <2>2, <2>3 DEF MapsOK
<1>3. ClockOK'
  BY DEF ClockOK, Worker
<1>4. DownOK'
  BY DEF TypeOK, DownOK, Live, Worker
<1>5. WorkersOK'
  <2> SUFFICES ASSUME NEW q \in Procs, NEW g \in Files
               PROVE  WorkerOK(q, g)'
    BY DEF WorkersOK
  <2>1. CASE q = p /\ g = f
    <3>1. /\ entries'[p][f] = e
          /\ pc'[p][f] = to
          /\ result'[p][f] = res
          /\ dirty'[p]
          /\ opts' = opts
      BY DEF TypeOK, Map, Worker
    <3>2. QED
      BY <1>0, <2>1, <3>1 DEF WorkerOK
  <2>2. CASE ~(q = p /\ g = f)
    <3>1. /\ pc'[q][g] = pc[q][g]
          /\ observed'[q][g] = observed[q][g]
          /\ result'[q][g] = result[q][g]
          /\ entries'[q][g] = entries[q][g]
          /\ dirty[q] => dirty'[q]
      BY <2>2 DEF TypeOK, Worker, Map
    <3>2. WorkerOK(q, g)
      BY DEF WorkersOK
    <3>3. QED
      BY <3>1, <3>2 DEF WorkerOK, Worker, HashMatches, Lint
  <2>3. QED
    BY <2>1, <2>2
<1>6. ResultsAreOfTheFile'
  BY <1>0 DEF TypeOK, ResultsAreOfTheFile, Worker
<1>7. QED
  BY <1>1, <1>2, <1>3, <1>4, <1>5, <1>6

\* get_by_content's second half gives the entry the stamp of now.
LEMMA RefreshKeepsIInv ==
  ASSUME IInv, NEW p \in Procs, NEW f \in Files, Refresh(p, f)
  PROVE  IInv'
<1> DEFINE old == entries[p][f]
           st  == Stat(f, observed[p][f])
           e   == [old EXCEPT !.mtime = st.mtime, !.size = st.size]
<1>1. /\ old \in Entry
      /\ old.hash = observed[p][f]
      /\ observed[p][f] \in Contents
  BY DEF Refresh, Worker, IInv, TypeOK, Map, WorkersOK, WorkerOK, HashMatches
<1>2. EntryOK(old, f, opts[p].key)
  BY <1>1, ConstantsOK DEF IInv, MapsOK
<1>3. st.mtime \in Nat /\ st.size \in Nat
  BY <1>1, ConstantsOK DEF Stat, IInv, TypeOK
<1>4. /\ e \in Entry
      /\ e.mtime = st.mtime
      /\ e.hash = observed[p][f]
      /\ e.diags = old.diags
  BY <1>1, <1>3 DEF Entry
<1>5. entries' = [entries EXCEPT ![p][f] = e]
  <2>1. entries \in [Procs -> Map]
    BY DEF IInv, TypeOK
  <2>2. entries[p] \in [Files -> Entry \union {None}]
    BY <2>1 DEF Map
  <2>3. entries' = [entries EXCEPT ![p][f].mtime = st.mtime, ![p][f].size = st.size]
    BY DEF Refresh
  <2> HIDE DEF st
  <2>4. QED
    BY <2>1, <2>2, <2>3
<1>6. old.diags \in Diags /\ old.diags.content = observed[p][f]
      /\ old.diags.opts.key = opts[p].key
  BY <1>1, <1>2 DEF EntryOK, Entry
<1>7. /\ Worker(p, f, "matched", "content_hit", observed[p][f], old.diags)
      /\ dirty' = [dirty EXCEPT ![p] = TRUE]
      /\ raced' = IF ChangedSinceRead(p, f) THEN raced \union {f} ELSE raced
  BY DEF Refresh
<1> HIDE DEF e, old, st
<1>8. QED
  BY <1>1, <1>4, <1>5, <1>6, <1>7, WriteStep DEF st

\* put inserts the entry with the stamp of now.
LEMMA PutKeepsIInv ==
  ASSUME IInv, NEW p \in Procs, NEW f \in Files, Put(p, f)
  PROVE  IInv'
<1>1. /\ observed[p][f] \in Contents
      /\ opts[p] \in Opts
      /\ result[p][f] = Lint(opts[p], observed[p][f])
  BY DEF Put, Worker, IInv, TypeOK, WorkersOK, WorkerOK
<1>2. /\ result[p][f] \in Diags
      /\ result[p][f].content = observed[p][f]
      /\ result[p][f].opts.key = opts[p].key
  BY <1>1, LintType
<1>3. PutEntry(p, f) \in Entry
  BY <1>1, <1>2, ConstantsOK DEF PutEntry, Entry, Stat, IInv, TypeOK
<1>4. /\ PutEntry(p, f).mtime = Stat(f, observed[p][f]).mtime
      /\ PutEntry(p, f).hash = observed[p][f]
      /\ PutEntry(p, f).diags = result[p][f]
  BY DEF PutEntry
<1>5. QED
  BY <1>1, <1>2, <1>3, <1>4, WriteStep DEF Put

-----------------------------------------------------------------------------

\* Steps of the environment move no worker.
LEMMA WorkersKept ==
  ASSUME IInv, raced \subseteq raced',
         UNCHANGED <<phase, opts, entries, dirty, pc, observed, result>>
  PROVE  DownOK' /\ WorkersOK' /\ ResultsAreOfTheFile'
<1> USE DEF IInv
<1>1. DownOK'
  BY DEF DownOK, Live
<1>2. WorkersOK'
  BY DEF WorkersOK, WorkerOK, HashMatches, Lint
<1>3. ResultsAreOfTheFile'
  BY DEF ResultsAreOfTheFile
<1>4. QED
  BY <1>1, <1>2, <1>3

\* Every entry of a map is an Entry, with a key that is one of Keys.
LEMMA MapEntries ==
  ASSUME IInv, NEW g \in Files
  PROVE  /\ \A p \in Procs : entries[p][g] # None =>
              /\ entries[p][g] \in Entry
              /\ entries[p][g] \in EntriesOf(g) \ {None}
              /\ opts[p].key \in Keys
              /\ EntryOK(entries[p][g], g, opts[p].key)
         /\ \A k \in Keys : stored[k] # None /\ stored[k][g] # None =>
              /\ stored[k][g] \in Entry
              /\ stored[k][g] \in EntriesOf(g) \ {None}
              /\ EntryOK(stored[k][g], g, k)
<1>1. ASSUME NEW p \in Procs, entries[p][g] # None
      PROVE  /\ entries[p][g] \in Entry
             /\ entries[p][g] \in EntriesOf(g) \ {None}
             /\ opts[p].key \in Keys
             /\ EntryOK(entries[p][g], g, opts[p].key)
  BY <1>1, EntriesOfMembers DEF IInv, MapsOK, TypeOK, Map, Opts
<1>2. ASSUME NEW k \in Keys, stored[k] # None, stored[k][g] # None
      PROVE  /\ stored[k][g] \in Entry
             /\ stored[k][g] \in EntriesOf(g) \ {None}
             /\ EntryOK(stored[k][g], g, k)
  <2>1. stored[k] \in Map
    BY <1>2 DEF IInv, TypeOK
  <2>2. QED
    BY <1>2, <2>1, EntriesOfMembers DEF IInv, MapsOK, Map
<1>3. QED
  BY <1>1, <1>2

\* If every entry survives a step that leaves the maps alone, MapsOK does.
LEMMA MapsKept ==
  ASSUME IInv, UNCHANGED <<stored, opts, entries>>,
         \A g \in Files, k \in Keys : \A e \in EntriesOf(g) \ {None} :
           e \in Entry /\ EntryOK(e, g, k) => EntryOK(e, g, k)'
  PROVE  MapsOK'
<1>1. ASSUME NEW p \in Procs, NEW g \in Files, entries'[p][g] # None
      PROVE  EntryOK(entries[p][g], g, opts[p].key)'
  <2>1. EntryOK(entries[p][g], g, opts[p].key)
        /\ entries[p][g] \in Entry
        /\ entries[p][g] \in EntriesOf(g) \ {None}
        /\ opts[p].key \in Keys
    BY <1>1, MapEntries
  <2>2. QED
    BY <2>1 DEF EntryOK, StampMatches, Stat
<1>2. ASSUME NEW k \in Keys, NEW g \in Files, stored'[k] # None, stored'[k][g] # None
      PROVE  EntryOK(stored[k][g], g, k)'
  <2>1. EntryOK(stored[k][g], g, k)
        /\ stored[k][g] \in Entry
        /\ stored[k][g] \in EntriesOf(g) \ {None}
    BY <1>2, MapEntries
  <2>2. QED
    BY <2>1 DEF EntryOK, StampMatches, Stat
<1>3. QED
  BY <1>1, <1>2 DEF MapsOK

\* Time passing changes no stamp.
LEMMA TickKeepsIInv ==
  ASSUME IInv, Tick
  PROVE  IInv'
<1> USE DEF IInv, Tick
<1>1. TypeOK'
  BY ConstantsOK DEF TypeOK
<1>2. MapsOK'
  BY DEF MapsOK, EntryOK, StampMatches, Stat
<1>3. ClockOK'
  BY DEF ClockOK, TypeOK
<1>4. QED
  BY <1>1, <1>2, <1>3, WorkersKept

\* A new mtime is later than every stamp: nothing matches it yet.
LEMMA TouchKeepsIInv ==
  ASSUME IInv, NEW f \in Files, Touch(f)
  PROVE  IInv'
<1> USE DEF IInv, Touch
<1>1. TypeOK'
  BY DEF TypeOK
<1>2. MapsOK'
  <2> SUFFICES ASSUME NEW g \in Files, NEW k \in Keys, NEW e \in Entry, EntryOK(e, g, k)
               PROVE  EntryOK(e, g, k)'
    BY MapsKept
  <2>1. e.mtime \in Nat /\ now \in Nat /\ mtime[f] \in Nat /\ mtime[f] <= now
    BY DEF Entry, TypeOK, ClockOK
  <2>2. CASE g = f
    <3>1. mtime'[f] = now
      BY DEF TypeOK
    <3>2. e.mtime <= mtime[f] /\ mtime[f] # now
      BY <2>2 DEF EntryOK
    <3>3. e.mtime < now
      BY <2>1, <3>2
    <3>4. QED
      BY <2>1, <2>2, <3>1, <3>3 DEF EntryOK, StampMatches, Stat
  <2>3. CASE g # f
    BY <2>3 DEF EntryOK, StampMatches, Stat, TypeOK
  <2>4. QED
    BY <2>2, <2>3
<1>3. ClockOK'
  BY DEF ClockOK, TypeOK
<1>4. QED
  BY <1>1, <1>2, <1>3, WorkersKept

\* An edit in a later tick gives a stamp no entry has; one in the same tick that an
\* entry could be taken for is a race.
LEMMA EditKeepsIInv ==
  ASSUME IInv, NEW f \in Files, NEW d \in Contents \union {None}, Edit(f, d)
  PROVE  IInv'
<1> USE DEF IInv, Edit
<1>0. raced \subseteq raced'
  OBVIOUS
<1>1. TypeOK'
  BY DEF TypeOK
<1>2. MapsOK'
  <2> SUFFICES ASSUME NEW g \in Files, NEW k \in Keys, NEW e \in EntriesOf(g) \ {None},
                      e \in Entry, EntryOK(e, g, k)
               PROVE  EntryOK(e, g, k)'
    BY MapsKept
  <2>1. e.mtime \in Nat /\ now \in Nat /\ mtime[f] \in Nat /\ mtime[f] <= now
    BY DEF Entry, TypeOK, ClockOK
  <2>2. CASE g = f
    <3>1. mtime'[f] = now /\ content'[f] = d
      BY DEF TypeOK
    <3>2. e.mtime <= mtime[f]
      BY <2>2 DEF EntryOK
    <3>3. ASSUME d # None, f \notin raced', e.mtime = now, e.size = Size[d]
          PROVE  e.hash = d
      <4>1. ~SameStampEdit(f, d)
        BY <3>3
      <4>2. mtime[f] = now
        BY <2>1, <3>2, <3>3
      <4>3. QED
        BY <2>2, <3>3, <4>1, <4>2 DEF SameStampEdit
    <3>4. QED
      BY <2>1, <2>2, <3>1, <3>2, <3>3 DEF EntryOK, StampMatches, Stat
  <2>3. CASE g # f
    BY <1>0, <2>3 DEF EntryOK, StampMatches, Stat, TypeOK
  <2>4. QED
    BY <2>2, <2>3
<1>3. ClockOK'
  BY DEF ClockOK, TypeOK
<1>4. QED
  BY <1>0, <1>1, <1>2, <1>3, WorkersKept

\* An index that goes away takes its entries with it.
LEMMA DiscardKeepsIInv ==
  ASSUME IInv, NEW k \in Keys, Discard(k)
  PROVE  IInv'
<1> USE DEF IInv, Discard
<1>1. TypeOK'
  BY DEF TypeOK
<1>2. MapsOK'
  BY DEF MapsOK, EntryOK, StampMatches, Stat, TypeOK
<1>3. ClockOK'
  BY DEF ClockOK
<1>4. QED
  BY <1>1, <1>2, <1>3, WorkersKept

-----------------------------------------------------------------------------

\* A process that starts gets the entries of its session and no other.
LEMMA StartKeepsIInv ==
  ASSUME IInv, NEW p \in Procs, NEW o \in Opts, Start(p, o)
  PROVE  IInv'
<1> USE DEF IInv, Start
<1>0. /\ o.key \in Keys
      /\ Load(o.key) \in Map
      /\ entries' = [entries EXCEPT ![p] = Load(o.key)]
      /\ opts'[p] = o
  BY DEF Load, SessionKey, TypeOK, Opts, Map, EmptyMap
<1>1. TypeOK'
  BY <1>0 DEF TypeOK
<1>2. MapsOK'
  <2>1. ASSUME NEW q \in Procs, NEW g \in Files, entries'[q][g] # None
        PROVE  EntryOK(entries[q][g], g, opts[q].key)'
    <3>1. CASE q = p
      <4>1. entries'[p][g] = Load(o.key)[g]
        BY <1>0 DEF TypeOK
      <4>2. stored[o.key] # None /\ stored[o.key][g] # None
            /\ entries'[p][g] = stored[o.key][g]
        BY <2>1, <3>1, <4>1 DEF Load, EmptyMap
      <4>3. EntryOK(stored[o.key][g], g, o.key)
        BY <1>0, <4>2, MapEntries
      <4>4. QED
        BY <1>0, <3>1, <4>2, <4>3 DEF EntryOK, StampMatches, Stat
    <3>2. CASE q # p
      <4>1. entries'[q] = entries[q] /\ opts'[q] = opts[q]
        BY <1>0, <3>2 DEF TypeOK
      <4>2. EntryOK(entries[q][g], g, opts[q].key)
        BY <2>1, <4>1, MapEntries
      <4>3. QED
        BY <4>1, <4>2 DEF EntryOK, StampMatches, Stat
    <3>3. QED
      BY <3>1, <3>2
  <2>2. ASSUME NEW k \in Keys, NEW g \in Files, stored'[k] # None, stored'[k][g] # None
        PROVE  EntryOK(stored[k][g], g, k)'
    BY <2>2 DEF MapsOK, EntryOK, StampMatches, Stat
  <2>3. QED
    BY <2>1, <2>2 DEF MapsOK
<1>3. ClockOK'
  BY DEF ClockOK
<1>4. DownOK'
  BY DEF DownOK, Live, TypeOK
<1>5. WorkersOK'
  <2> SUFFICES ASSUME NEW q \in Procs, NEW g \in Files
               PROVE  WorkerOK(q, g)'
    BY DEF WorkersOK
  <2>1. CASE q = p
    <3>1. pc[p][g] = "queued" /\ result[p][g] = None
      BY DEF DownOK, Live
    <3>2. QED
      BY <2>1, <3>1 DEF WorkerOK
  <2>2. CASE q # p
    <3>1. entries'[q] = entries[q] /\ opts'[q] = opts[q] /\ dirty'[q] = dirty[q]
      BY <2>2 DEF TypeOK
    <3>2. WorkerOK(q, g)
      BY DEF WorkersOK
    <3>3. QED
      BY <3>1, <3>2 DEF WorkerOK, HashMatches, Lint
  <2>3. QED
    BY <2>1, <2>2
<1>6. ResultsAreOfTheFile'
  BY DEF ResultsAreOfTheFile
<1>7. QED
  BY <1>1, <1>2, <1>3, <1>4, <1>5, <1>6

\* A process that ends, whatever index it leaves, if the index is as good.
LEMMA ExitStep ==
  ASSUME IInv, NEW p \in Procs, Exit(p),
         stored' \in [Keys -> Map \union {None}],
         \A k \in Keys, g \in Files : stored'[k] # None /\ stored'[k][g] # None =>
           EntryOK(stored'[k][g], g, k)
  PROVE  IInv'
<1> USE DEF IInv, Exit
<1>1. TypeOK'
  BY DEF TypeOK, Map, EmptyMap, PC
<1>2. MapsOK'
  <2>1. ASSUME NEW q \in Procs, NEW g \in Files, entries'[q][g] # None
        PROVE  EntryOK(entries[q][g], g, opts[q].key)'
    <3>1. q # p /\ entries'[q] = entries[q]
      BY <2>1 DEF TypeOK, EmptyMap
    <3>2. EntryOK(entries[q][g], g, opts[q].key)
      BY <2>1, <3>1, MapEntries
    <3>3. QED
      BY <3>1, <3>2 DEF EntryOK, StampMatches, Stat
  <2>2. ASSUME NEW k \in Keys, NEW g \in Files, stored'[k] # None, stored'[k][g] # None
        PROVE  EntryOK(stored[k][g], g, k)'
    BY <2>2 DEF EntryOK, StampMatches, Stat
  <2>3. QED
    BY <2>1, <2>2 DEF MapsOK
<1>3. ClockOK'
  BY DEF ClockOK
<1>4. DownOK'
  <2> SUFFICES ASSUME NEW q \in Procs, ~Live(q)', NEW g \in Files
               PROVE  pc'[q][g] = "queued" /\ entries'[q][g] = None /\ result'[q][g] = None
    BY DEF DownOK
  <2>1. CASE q = p
    BY <2>1 DEF TypeOK, EmptyMap
  <2>2. CASE q # p
    BY <2>2 DEF TypeOK, DownOK, Live
  <2>3. QED
    BY <2>1, <2>2
<1>5. WorkersOK'
  <2> SUFFICES ASSUME NEW q \in Procs, NEW g \in Files
               PROVE  WorkerOK(q, g)'
    BY DEF WorkersOK
  <2>1. CASE q = p
    <3>1. pc'[p][g] = "queued" /\ result'[p][g] = None
      BY DEF TypeOK
    <3>2. QED
      BY <2>1, <3>1 DEF WorkerOK
  <2>2. CASE q # p
    <3>1. /\ entries'[q] = entries[q]
          /\ dirty'[q] = dirty[q]
          /\ pc'[q] = pc[q]
          /\ observed'[q] = observed[q]
          /\ result'[q] = result[q]
          /\ opts' = opts
      BY <2>2 DEF TypeOK
    <3>2. WorkerOK(q, g)
      BY DEF WorkersOK
    <3>3. QED
      BY <3>1, <3>2 DEF WorkerOK, HashMatches, Lint
  <2>3. QED
    BY <2>1, <2>2
<1>6. ResultsAreOfTheFile'
  <2> SUFFICES ASSUME NEW q \in Procs, NEW g \in Files, pc'[q][g] \in Returned,
                      result'[q][g] # None, g \notin raced
               PROVE  result'[q][g].content = observed'[q][g]
    BY DEF ResultsAreOfTheFile
  <2>1. q # p
    BY DEF TypeOK
  <2>2. QED
    BY <2>1 DEF TypeOK, ResultsAreOfTheFile
<1>7. QED
  BY <1>1, <1>2, <1>3, <1>4, <1>5, <1>6

\* flush writes what the map holds, under the key the map was loaded from.
LEMMA FinishKeepsIInv ==
  ASSUME IInv, NEW p \in Procs, Finish(p)
  PROVE  IInv'
<1>1. opts[p].key \in Keys /\ entries[p] \in Map
  BY DEF IInv, TypeOK, Opts
<1> DEFINE flushed == IF dirty[p]
                      THEN [stored EXCEPT ![opts[p].key] = entries[p]] ELSE stored
<1>2. PICK gone \in SUBSET Keys :
        stored' = [k \in Keys |-> IF k \in gone THEN None ELSE flushed[k]]
  BY DEF Finish, SessionKey, Evictable
<1>3. stored' \in [Keys -> Map \union {None}]
  BY <1>1, <1>2 DEF IInv, TypeOK
<1>4. ASSUME NEW k \in Keys, NEW g \in Files, stored'[k] # None, stored'[k][g] # None
      PROVE  EntryOK(stored'[k][g], g, k)
  <2>1. CASE stored'[k] = stored[k]
    BY <1>4, <2>1, MapEntries
  <2>2. CASE stored'[k] # stored[k]
    <3>1. k = opts[p].key /\ stored'[k] = entries[p]
      BY <1>1, <1>2, <1>4, <2>2
    <3>2. QED
      BY <1>4, <3>1, MapEntries
  <2>3. QED
    BY <2>1, <2>2
<1>5. QED
  BY <1>3, <1>4, ExitStep DEF Finish

\* A crash loses the memory of the process and nothing else.
LEMMA CrashKeepsIInv ==
  ASSUME IInv, NEW p \in Procs, Crash(p)
  PROVE  IInv'
<1>1. stored' = stored /\ stored' \in [Keys -> Map \union {None}]
  BY DEF Crash, IInv, TypeOK
<1>2. \A k \in Keys, g \in Files : stored'[k] # None /\ stored'[k][g] # None =>
        EntryOK(stored'[k][g], g, k)
  BY <1>1, MapEntries
<1>3. QED
  BY <1>1, <1>2, ExitStep DEF Crash

\* A stuttering step.
LEMMA StutterKeepsIInv ==
  ASSUME IInv, UNCHANGED vars
  PROVE  IInv'
<1> USE DEF vars
<1>1. TypeOK'
  BY DEF IInv, TypeOK
<1>2. MapsOK' /\ ClockOK'
  BY DEF IInv, MapsOK, ClockOK, EntryOK, StampMatches, Stat
<1>3. DownOK' /\ WorkersOK' /\ ResultsAreOfTheFile'
  BY WorkersKept
<1>4. QED
  BY <1>1, <1>2, <1>3 DEF IInv

\* Every step keeps the invariant.
LEMMA NextKeepsIInv == IInv /\ [Next]_vars => IInv'
<1> SUFFICES ASSUME IInv, [Next]_vars PROVE IInv'
  OBVIOUS
<1>1. ASSUME Environment PROVE IInv'
  BY <1>1, TickKeepsIInv, TouchKeepsIInv, EditKeepsIInv, DiscardKeepsIInv DEF Environment
<1>2. ASSUME NEW p \in Procs, NEW f \in Files, LintFile(p, f) PROVE IInv'
  BY <1>2, SkipKeepsIInv, StatHitKeepsIInv, StatMissKeepsIInv, ReadFailsKeepsIInv,
     ReadKeepsIInv, ReadInvalidUtf8KeepsIInv, ContentMatchKeepsIInv,
     ContentMissKeepsIInv, RefreshKeepsIInv, PutKeepsIInv DEF LintFile
<1>3. ASSUME NEW p \in Procs, NEW o \in Opts, Start(p, o) PROVE IInv'
  BY <1>3, StartKeepsIInv
<1>4. ASSUME NEW p \in Procs, Finish(p) PROVE IInv'
  BY <1>4, FinishKeepsIInv
<1>5. ASSUME NEW p \in Procs, Crash(p) PROVE IInv'
  BY <1>5, CrashKeepsIInv
<1>6. CASE UNCHANGED vars
  BY <1>6, StutterKeepsIInv
<1>7. QED
  BY <1>1, <1>2, <1>3, <1>4, <1>5, <1>6 DEF Next

\* The strengthening of the cache's promises holds of every reachable state.
THEOREM Invariance == Spec => []IInv
<1>1. QED
  BY InitIInv, NextKeepsIInv, PTL DEF Spec

-----------------------------------------------------------------------------
(* The promises.                                                           *)

\* Type correctness, with any number of ticks.
THEOREM TypeCorrect == Spec => []TypeOK
<1>1. IInv => TypeOK
  BY DEF IInv
<1>2. QED
  BY <1>1, Invariance, PTL

\* Whatever tier of the lookup a result comes from, it is of the bytes the file
\* held, unless one of the two windows was hit.  (get_by_stat, get_by_content, put)
THEOREM ResultsCorrect == Spec => []ResultsAreOfTheFile
<1>1. IInv => ResultsAreOfTheFile
  BY DEF IInv
<1>2. QED
  BY <1>1, Invariance, PTL

\* No interleaving of runs lets a result cross to another session key.
THEOREM SessionsIsolated == Spec => []ResultsAreOfTheSession
<1>1. IInv => ResultsAreOfTheSession
  BY DEF IInv, WorkersOK, WorkerOK, ResultsAreOfTheSession
<1>2. QED
  BY <1>1, Invariance, PTL

\* No entry, in any memory or index, carries a file's stamp for other bytes, unless
\* one of the two windows was hit.
THEOREM StampsCorrect == Spec => []StampsAreSound
<1>1. IInv => StampsAreSound
  <2> SUFFICES ASSUME IInv, NEW f \in Files, content[f] # None, f \notin raced,
                      NEW e \in EntriesOf(f) \ {None}, StampMatches(e, f)
               PROVE  e.hash = content[f]
    BY DEF StampsAreSound
  <2>1. CASE \E p \in Procs : e = entries[p][f]
    BY <2>1, MapEntries DEF EntryOK
  <2>2. CASE \E k \in Keys : stored[k] # None /\ e = stored[k][f]
    BY <2>2, MapEntries DEF EntryOK
  <2>3. QED
    BY <2>1, <2>2 DEF EntriesOf
<1>2. QED
  BY <1>1, Invariance, PTL

\* A run that learnt something leaves every result it returned in its index.
THEOREM WorkSaved == Spec => WorkIsSaved
<1> DEFINE Saved ==
      \A p \in Procs :
        Live(p) /\ Finish(p) /\ (\E f \in Files : pc[p][f] \in {"content_hit", "stored"})
          => \A f \in Files : pc[p][f] \in {"stat_hit", "content_hit", "stored"} =>
               /\ stored'[opts[p].key] # None
               /\ stored'[opts[p].key][f] # None
               /\ stored'[opts[p].key][f].diags = result[p][f]
<1>1. IInv /\ [Next]_vars => [Saved]_vars
  <2> SUFFICES ASSUME IInv, NEW p \in Procs, Finish(p),
                      NEW g \in Files, pc[p][g] \in {"content_hit", "stored"},
                      NEW f \in Files, pc[p][f] \in {"stat_hit", "content_hit", "stored"}
               PROVE  /\ stored'[opts[p].key] # None
                      /\ stored'[opts[p].key][f] # None
                      /\ stored'[opts[p].key][f].diags = result[p][f]
    OBVIOUS
  <2>1. dirty[p]
    BY DEF IInv, WorkersOK, WorkerOK
  <2>2. opts[p].key \in Keys /\ entries[p] \in Map /\ entries[p] # None
    BY ConstantsOK DEF IInv, TypeOK, Opts
  <2>3. PICK gone \in SUBSET (Keys \ {opts[p].key}) :
          stored' = [k \in Keys |-> IF k \in gone THEN None
                                    ELSE [stored EXCEPT ![opts[p].key] = entries[p]][k]]
    BY <2>1 DEF Finish, SessionKey, Evictable
  <2>4. stored'[opts[p].key] = entries[p]
    BY <2>2, <2>3 DEF IInv, TypeOK
  <2>5. entries[p][f] # None /\ result[p][f] = entries[p][f].diags
    BY DEF IInv, WorkersOK, WorkerOK
  <2>6. QED
    BY <2>2, <2>4, <2>5
<1>2. QED
  BY <1>1, Invariance, PTL DEF Spec, WorkIsSaved

\* A result served from the cache is the one a run without a cache would compute of the
\* bytes under some options with the same session key, unless one of the windows was hit:
\* it can differ from that of the run's own options only by what the key does not read,
\* such as --preview.  (compute_session_hash, get_by_stat, get_by_content)
THEOREM CachedIsUncached ==
  Spec => [](\A p \in Procs, f \in Files :
               pc[p][f] \in Returned /\ result[p][f] # None /\ f \notin raced
                 => \E u \in Unkeyed :
                      result[p][f] = Lint([key |-> opts[p].key, unkeyed |-> u],
                                          observed[p][f]))
<1> DEFINE Same ==
      \A p \in Procs, f \in Files :
        pc[p][f] \in Returned /\ result[p][f] # None /\ f \notin raced
          => \E u \in Unkeyed :
               result[p][f] = Lint([key |-> opts[p].key, unkeyed |-> u], observed[p][f])
<1>1. IInv => Same
  <2> SUFFICES ASSUME IInv, NEW p \in Procs, NEW f \in Files, pc[p][f] \in Returned,
                      result[p][f] # None, f \notin raced
               PROVE  \E u \in Unkeyed :
                        result[p][f] = Lint([key |-> opts[p].key, unkeyed |-> u],
                                            observed[p][f])
    OBVIOUS
  <2>1. result[p][f] \in Diags /\ opts[p] \in Opts
    BY DEF IInv, TypeOK
  <2>2. result[p][f].opts.key = opts[p].key
    BY DEF IInv, WorkersOK, WorkerOK
  <2>3. result[p][f].opts \in Opts
    BY <2>1 DEF Diags
  <2>4. result[p][f].opts = [key |-> opts[p].key, unkeyed |-> result[p][f].opts.unkeyed]
    BY <2>1, <2>2, <2>3 DEF Opts
  <2>5. result[p][f].content = observed[p][f]
    BY DEF IInv, ResultsAreOfTheFile
  <2>6. result[p][f].opts.unkeyed \in Unkeyed
    BY <2>3 DEF Opts
  <2>7. result[p][f] = Lint([key |-> opts[p].key, unkeyed |-> result[p][f].opts.unkeyed],
                            observed[p][f])
    BY <2>1, <2>4, <2>5 DEF Lint, Diags
  <2>8. QED
    BY <2>6, <2>7
<1>2. QED
  BY <1>1, Invariance, PTL
=============================================================================
