---------------------------- MODULE ResultCache ----------------------------
(***************************************************************************)
(* The file-level result cache of nitrocop (src/cache.rs) as the linter    *)
(* drives it (lint_file in src/linter.rs).                                 *)
(*                                                                         *)
(* Each process is one nitrocop invocation.  It loads the index of its     *)
(* session, lets one worker per file run lint_file against the in-memory   *)
(* map, and writes the map back when every worker is done.  Meanwhile an   *)
(* editor changes the files, and other invocations do the same.            *)
(*                                                                         *)
(* The index on disk is an atomic store here; CacheIndex models how flush  *)
(* writes it.  SHA-256 is taken as injective: a content hash is the        *)
(* content, a path hash is the file, a session hash is its key.            *)
(***************************************************************************)
EXTENDS Naturals

CONSTANTS
  Procs,        \* nitrocop invocations
  Files,        \* paths given to run_linter (sorted and deduplicated: one worker each)
  Contents,     \* the byte strings a file can hold
  InvalidUtf8,  \* the contents reported as invalid UTF-8 without running a cop
  Skipped,      \* globally excluded or already migrated files
  Keys,         \* what compute_session_hash reads: version, configs, --only, --except ...
  Unkeyed,      \* what the cops also depend on and it does not read: --preview, db/schema.rb
  Size,         \* length in bytes of each content
  MaxTime,      \* bound on the clock (TLC only)
  None          \* no entry, no index, no file, no result

Opts  == [key : Keys, unkeyed : Unkeyed]
Diags == [opts : Opts, content : Contents]
Entry == [mtime : Nat, size : Nat, hash : Contents, diags : Diags]
Map   == [Files -> Entry \union {None}]

ASSUME ConstantsOK ==
  /\ InvalidUtf8 \subseteq Contents
  /\ Skipped \subseteq Files
  /\ Size \in [Contents -> Nat]
  /\ MaxTime \in Nat
  /\ None \notin Contents
  /\ None \notin Entry
  /\ None \notin Map
  /\ None \notin Diags

VARIABLES
  now,       \* the file system's clock, in units of its timestamp granularity
  content,   \* content[f]: what file f holds, None if it does not exist
  mtime,     \* mtime[f]: the clock at the last change of f
  stored,    \* stored[k]: the index file of session k
  phase,     \* phase[p]: "down" or "lint"
  opts,      \* opts[p]: the options p was started with
  entries,   \* entries[p]: ResultCache::entries
  dirty,     \* dirty[p]: ResultCache::dirty
  pc,        \* pc[p][f]: where lint_file stands for f
  observed,  \* observed[p][f]: the bytes lint_file read; for a stat hit, which reads
             \* nothing, the bytes a read would have returned (history)
  result,    \* result[p][f]: the diagnostics lint_file returns, None for an empty Vec
  raced      \* files for which an edit fell into one of the two windows that
             \* the stamp of an entry cannot see (history)

vars == <<now, content, mtime, stored, phase, opts, entries, dirty, pc, observed,
          result, raced>>

PC == {"queued", "missed", "read", "matched", "linted",
       "skipped", "unreadable", "stat_hit", "content_hit", "stored"}

\* lint_file has returned.
Returned == {"skipped", "unreadable", "stat_hit", "content_hit", "stored"}

TypeOK ==
  /\ now \in Nat \ {0}
  /\ content \in [Files -> Contents \union {None}]
  /\ mtime \in [Files -> Nat \ {0}]
  /\ stored \in [Keys -> Map \union {None}]
  /\ phase \in [Procs -> {"down", "lint"}]
  /\ opts \in [Procs -> Opts]
  /\ entries \in [Procs -> Map]
  /\ dirty \in [Procs -> BOOLEAN]
  /\ pc \in [Procs -> [Files -> PC]]
  /\ observed \in [Procs -> [Files -> Contents \union {None}]]
  /\ result \in [Procs -> [Files -> Diags \union {None}]]
  /\ raced \subseteq Files

EmptyMap == [f \in Files |-> None]

\* The diagnostics of a file's bytes.  The cops are deterministic: nothing but
\* the options and the bytes goes in.
Lint(o, c) == [opts |-> o, content |-> c]

\* compute_session_hash.
SessionKey(o) == o.key

\* metadata(path): (0, 0) and the length of the bytes in hand when it fails.
Stat(f, c) == IF content[f] = None
              THEN [mtime |-> 0, size |-> Size[c]]
              ELSE [mtime |-> mtime[f], size |-> Size[content[f]]]

\* The comparison get_by_stat makes: the entry's stamp is the file's.
StampMatches(e, f) ==
  /\ e.mtime = Stat(f, content[f]).mtime
  /\ e.size = Stat(f, content[f]).size

Init ==
  /\ now = 1
  /\ content \in [Files -> Contents]
  /\ mtime = [f \in Files |-> 1]
  /\ stored = [k \in Keys |-> None]
  /\ phase = [p \in Procs |-> "down"]
  /\ opts \in [Procs -> Opts]
  /\ entries = [p \in Procs |-> EmptyMap]
  /\ dirty = [p \in Procs |-> FALSE]
  /\ pc = [p \in Procs |-> [f \in Files |-> "queued"]]
  /\ observed = [p \in Procs |-> [f \in Files |-> None]]
  /\ result = [p \in Procs |-> [f \in Files |-> None]]
  /\ raced = {}

-----------------------------------------------------------------------------
(* The environment: the clock, the editor and whoever removes index files. *)

Tick ==
  /\ now < MaxTime
  /\ now' = now + 1
  /\ UNCHANGED <<content, mtime, stored, phase, opts, entries, dirty, pc,
                 observed, result, raced>>

\* Every entry of f that exists anywhere, in memory or on disk.
EntriesOf(f) ==
  {entries[p][f] : p \in Procs}
    \union {stored[k][f] : k \in {j \in Keys : stored[j] # None}}

\* f was already modified in this tick, and an entry of the new content's size
\* stands for other bytes: the next stat may not tell them apart.
SameStampEdit(f, c) ==
  /\ mtime[f] = now
  /\ \E e \in EntriesOf(f) \ {None} : e.size = Size[c] /\ e.hash # c

\* Somebody changes f, or deletes it (c = None).  Writers stamp the current time.
Edit(f, c) ==
  /\ c # content[f]
  /\ content' = [content EXCEPT ![f] = c]
  /\ mtime' = [mtime EXCEPT ![f] = now]
  /\ raced' = IF c # None /\ SameStampEdit(f, c) THEN raced \union {f} ELSE raced
  /\ UNCHANGED <<now, stored, phase, opts, entries, dirty, pc, observed, result>>

\* git checkout or touch: a new mtime, the same bytes.
Touch(f) ==
  /\ content[f] # None
  /\ mtime[f] # now
  /\ mtime' = [mtime EXCEPT ![f] = now]
  /\ UNCHANGED <<now, content, stored, phase, opts, entries, dirty, pc, observed,
                 result, raced>>

\* The index of session k goes away: a run over other files evicts it, --cache-clear,
\* or a file load_index cannot read or parse, which it takes as empty.
Discard(k) ==
  /\ stored[k] # None
  /\ stored' = [stored EXCEPT ![k] = None]
  /\ UNCHANGED <<now, content, mtime, phase, opts, entries, dirty, pc, observed,
                 result, raced>>

-----------------------------------------------------------------------------
(* lint_file, for the file f of the process p.                             *)

\* One step of the worker of f: it moves to `to`, having looked at `obs`, with
\* the diagnostics `res`.
Worker(p, f, from, to, obs, res) ==
  /\ phase[p] = "lint"
  /\ pc[p][f] = from
  /\ pc' = [pc EXCEPT ![p][f] = to]
  /\ observed' = [observed EXCEPT ![p][f] = obs]
  /\ result' = [result EXCEPT ![p][f] = res]
  /\ UNCHANGED <<now, content, mtime, stored, phase, opts>>

\* Excluded and migrated files return no diagnostics and never reach the cache.
Skip(p, f) ==
  /\ f \in Skipped
  /\ Worker(p, f, "queued", "skipped", None, None)
  /\ UNCHANGED <<entries, dirty, raced>>

\* get_by_stat finds an entry whose stamp is the file's: it is returned unread.
StatHit(p, f) ==
  /\ f \notin Skipped
  /\ content[f] # None
  /\ entries[p][f] # None
  /\ StampMatches(entries[p][f], f)
  /\ Worker(p, f, "queued", "stat_hit", content[f], entries[p][f].diags)
  /\ UNCHANGED <<entries, dirty, raced>>

\* get_by_stat: no file, no entry, or another stamp.
StatMiss(p, f) ==
  /\ f \notin Skipped
  /\ ~ /\ content[f] # None
       /\ entries[p][f] # None
       /\ StampMatches(entries[p][f], f)
  /\ Worker(p, f, "queued", "missed", None, None)
  /\ UNCHANGED <<entries, dirty, raced>>

\* SourceFile::from_path fails: an error on stderr, no diagnostics.
ReadFails(p, f) ==
  /\ content[f] = None
  /\ Worker(p, f, "missed", "unreadable", None, None)
  /\ UNCHANGED <<entries, dirty, raced>>

\* SourceFile::from_path.
Read(p, f) ==
  /\ content[f] \in Contents \ InvalidUtf8
  /\ Worker(p, f, "missed", "read", content[f], None)
  /\ UNCHANGED <<entries, dirty, raced>>

\* Invalid UTF-8 is reported at once; get_by_content is not consulted.
ReadInvalidUtf8(p, f) ==
  /\ content[f] \in InvalidUtf8
  /\ Worker(p, f, "missed", "linted", content[f], Lint(opts[p], content[f]))
  /\ UNCHANGED <<entries, dirty, raced>>

\* Any entry will do.
HashMatchesAny(p, f) == entries[p][f] # None
\* get_by_content, under the read lock: the entry's hash is the content's.
HashMatches(p, f) ==
  /\ entries[p][f] # None
  /\ entries[p][f].hash = observed[p][f]

ContentMatch(p, f) ==
  /\ HashMatches(p, f)
  /\ Worker(p, f, "read", "matched", observed[p][f], None)
  /\ UNCHANGED <<entries, dirty, raced>>

\* get_by_content misses; lint_source_inner runs on the bytes that were read.
ContentMiss(p, f) ==
  /\ ~HashMatches(p, f)
  /\ Worker(p, f, "read", "linted", observed[p][f], Lint(opts[p], observed[p][f]))
  /\ UNCHANGED <<entries, dirty, raced>>

\* The file no longer holds the bytes whose stamp is about to be recorded.
ChangedSinceRead(p, f) == content[f] \notin {None, observed[p][f]}

\* The new stamp alone does not make the map dirty.
RefreshNotDirty(p, f) ==
  LET st == Stat(f, observed[p][f]) IN
  /\ Worker(p, f, "matched", "content_hit", observed[p][f], entries[p][f].diags)
  /\ entries' = [entries EXCEPT ![p][f].mtime = st.mtime, ![p][f].size = st.size]
  /\ raced' = IF ChangedSinceRead(p, f) THEN raced \union {f} ELSE raced
  /\ UNCHANGED dirty

\* The second half of get_by_content: the lock was released, the file is stat'ed
\* again, and under the write lock the entry gets that stamp.  The entry is still
\* there: only this worker touches it.
Refresh(p, f) ==
  LET st == Stat(f, observed[p][f]) IN
  /\ Worker(p, f, "matched", "content_hit", observed[p][f], entries[p][f].diags)
  /\ entries' = [entries EXCEPT ![p][f].mtime = st.mtime, ![p][f].size = st.size]
  /\ dirty' = [dirty EXCEPT ![p] = TRUE]
  /\ raced' = IF ChangedSinceRead(p, f) THEN raced \union {f} ELSE raced

\* The stamp of an entry is the time of the put and the length of the bytes read.
PutEntryWithoutStat(p, f) ==
  [mtime |-> now, size |-> Size[observed[p][f]],
   hash |-> observed[p][f], diags |-> result[p][f]]
\* What put inserts: the stamp the file has now, the hash of the bytes read then.
PutEntry(p, f) ==
  LET st == Stat(f, observed[p][f]) IN
  [mtime |-> st.mtime, size |-> st.size,
   hash |-> observed[p][f], diags |-> result[p][f]]

\* put, after the lint.
Put(p, f) ==
  /\ Worker(p, f, "linted", "stored", observed[p][f], result[p][f])
  /\ entries' = [entries EXCEPT ![p][f] = PutEntry(p, f)]
  /\ dirty' = [dirty EXCEPT ![p] = TRUE]
  /\ raced' = IF ChangedSinceRead(p, f) THEN raced \union {f} ELSE raced

-----------------------------------------------------------------------------
(* One invocation: ResultCache::new, the parallel loop, flush.             *)

\* The index is taken as it is.
LoadUnchecked(k) == stored[k]
\* load_index: a missing or unreadable index is an empty map.
Load(k) == IF stored[k] = None THEN EmptyMap ELSE stored[k]

\* run_linter with the cache enabled (no autocorrect, no stdin, no directory
\* specific configs).
Start(p, o) ==
  /\ phase[p] = "down"
  /\ phase' = [phase EXCEPT ![p] = "lint"]
  /\ opts' = [opts EXCEPT ![p] = o]
  /\ entries' = [entries EXCEPT ![p] = Load(SessionKey(o))]
  /\ dirty' = [dirty EXCEPT ![p] = FALSE]
  /\ UNCHANGED <<now, content, mtime, stored, pc, observed, result, raced>>

\* The process is gone and its memory with it.
Exit(p) ==
  /\ phase' = [phase EXCEPT ![p] = "down"]
  /\ entries' = [entries EXCEPT ![p] = EmptyMap]
  /\ dirty' = [dirty EXCEPT ![p] = FALSE]
  /\ pc' = [pc EXCEPT ![p] = [f \in Files |-> "queued"]]
  /\ observed' = [observed EXCEPT ![p] = [f \in Files |-> None]]
  /\ result' = [result EXCEPT ![p] = [f \in Files |-> None]]
  /\ UNCHANGED <<now, content, mtime, opts, raced>>

AllReturned(p) == \A f \in Files : pc[p][f] \in Returned

\* The sessions evict may remove after the flush: with more than 50 of them the least
\* recently written go (how many there are is not modelled), and an index just written
\* is not among those.
Evictable(p) == IF dirty[p] THEN Keys \ {SessionKey(opts[p])} ELSE Keys

\* flush: the whole map replaces the session's index, if anything changed; then evict.
Finish(p) ==
  LET flushed == IF dirty[p]
                 THEN [stored EXCEPT ![SessionKey(opts[p])] = entries[p]]
                 ELSE stored
  IN
  /\ phase[p] = "lint"
  /\ AllReturned(p)
  /\ \E gone \in SUBSET Evictable(p) :
       stored' = [k \in Keys |-> IF k \in gone THEN None ELSE flushed[k]]
  /\ Exit(p)

\* The process is killed, or flush cannot write: the index stays as it was.
Crash(p) ==
  /\ phase[p] = "lint"
  /\ Exit(p)
  /\ UNCHANGED stored

LintFile(p, f) ==
  \/ Skip(p, f)
  \/ StatHit(p, f)
  \/ StatMiss(p, f)
  \/ ReadFails(p, f)
  \/ Read(p, f)
  \/ ReadInvalidUtf8(p, f)
  \/ ContentMatch(p, f)
  \/ ContentMiss(p, f)
  \/ Refresh(p, f)
  \/ Put(p, f)

\* Nobody looks at a skipped file: what happens to it is left out.
Environment ==
  \/ Tick
  \/ \E f \in Files \ Skipped : Touch(f)
  \/ \E f \in Files \ Skipped, c \in Contents \union {None} : Edit(f, c)
  \/ \E k \in Keys : Discard(k)

Next ==
  \/ Environment
  \/ \E p \in Procs, o \in Opts : Start(p, o)
  \/ \E p \in Procs, f \in Files : LintFile(p, f)
  \/ \E p \in Procs : Finish(p)
  \/ \E p \in Procs : Crash(p)

Spec == Init /\ [][Next]_vars

-----------------------------------------------------------------------------
(* What the cache promises.                                                *)

Live(p) == phase[p] = "lint"

\* The diagnostics lint_file returns for a file are those of the bytes the file
\* held when lint_file looked at it, whichever of the three tiers they come from,
\* unless an edit hit one of the two windows.  (get_by_stat, get_by_content, put)
ResultsAreOfTheFile ==
  \A p \in Procs, f \in Files :
    pc[p][f] \in Returned /\ result[p][f] # None /\ f \notin raced
      => result[p][f].content = observed[p][f]

\* A lookup never crosses sessions: whatever the interleaving of runs with other
\* configurations, what a run returns was computed under its own session key.
\* (compute_session_hash, load_index, flush)
ResultsAreOfTheSession ==
  \A p \in Procs, f \in Files :
    result[p][f] # None => result[p][f].opts.key = opts[p].key

\* The stamp tells contents apart: in no map, in memory or on disk, does an entry
\* carry the stamp a file has now and stand for bytes the file does not hold,
\* unless an edit hit one of the two windows.  (put, get_by_content, flush)
StampsAreSound ==
  \A f \in Files : content[f] # None /\ f \notin raced =>
    \A e \in EntriesOf(f) \ {None} : StampMatches(e, f) => e.hash = content[f]

\* A run that linted or re-stamped anything leaves all it knows in its session's
\* index when it ends.  (the dirty flag, put, get_by_content, flush)
WorkIsSaved ==
  [][\A p \in Procs :
       Live(p) /\ Finish(p) /\ (\E f \in Files : pc[p][f] \in {"content_hit", "stored"})
         => \A f \in Files : pc[p][f] \in {"stat_hit", "content_hit", "stored"} =>
              /\ stored'[opts[p].key] # None
              /\ stored'[opts[p].key][f] # None
              /\ stored'[opts[p].key][f].diags = result[p][f]]_vars

-----------------------------------------------------------------------------
(* What the repository says of it.                                         *)

\* src/cache.rs of the session key: "Compute the session hash from version + config +
\* CLI args"; tests/integration.rs: "Config change should use different session, not
\* return stale cached results".  Whatever the file's history, a result is one of the
\* options the run was started with.
OptionChangeIsSeen ==
  \A p \in Procs, f \in Files :
    pc[p][f] \in Returned /\ result[p][f] # None => result[p][f].opts = opts[p]
=============================================================================
