------------------------------- MODULE GemLock -------------------------------
(***************************************************************************)
(* Where the gems that a configuration inherits from are installed: --init *)
(* asks Bundler for each and writes the answers with the hash of           *)
(* Gemfile.lock; later runs trust them while the hash is the same and the  *)
(* directories exist (lockfile.rs and gem_path.rs, as run in lib.rs calls  *)
(* them).  Meanwhile the user edits Gemfile.lock, switches Ruby, installs  *)
(* and removes gems, and starts other runs in the same project.  The names *)
(* of its formulas start with Lock, to be told from those of CopState, the *)
(* other model of answers kept under a key: their proofs share a module.   *)
(***************************************************************************)
EXTENDS Naturals

CONSTANTS
  Procs,    \* nitrocop invocations
  Gems,
  Bundles,  \* what Gemfile.lock can hold
  Rubies,
  Paths,    \* directories gems can be installed in
  Found,    \* Found[b, r][g]: what bundle info says of g, Absent if it is not in the bundle
  MaxTime,  \* bound on the clock
  Absent,
  Empty,    \* a lockfile just truncated; not JSON
  Torn      \* part of a lockfile, or two overlaid; not JSON

Answers == [Gems -> Paths \union {Absent}]

ASSUME FoundOK ==
  /\ Found \in [Bundles \X Rubies -> Answers]
  /\ MaxTime \in Nat
  /\ Absent \notin Bundles \union Paths

VARIABLES
  now,        \* the file system's clock, in units of its timestamp granularity
  bundle,     \* what Gemfile.lock holds, Absent if there is none
  mtime,      \* its modification time, 0 if there is none
  ruby,       \* the Ruby that Bundler runs under
  installed,  \* the gem directories that exist
  lockfile,   \* lockfiles/<hash>.json in the cache directory
  phase,      \* where each invocation stands
  lock,       \* the lock an --init is about to write or a run has read
  cache,      \* GEM_PATH_CACHE of each invocation: lockfile_mtime, entries
  asked,      \* the lookup under way: the gem, and the mtime it began with
  drift,      \* Bundler's answers may have changed: under a run, since it compared the
              \* hash; under --init, since the cache was last begun (history)
  since       \* the same, since the lookup under way began (history)

lockVars == <<now, bundle, mtime, ruby, installed, lockfile, phase, lock, cache, asked,
          drift, since>>
world == <<now, bundle, mtime, ruby, installed>>

\* The Ruby when the hash was taken, and drift, are history.
Lock ==
  [hash : Bundles \union {Absent}, gems : Answers, under : Rubies, drifted : BOOLEAN]

Cache == [mtime : Nat, entries : Answers]

\* said: what Bundler answered, once it is not pending.
Lookup == [gem : Gems, mtime : Nat, pending : BOOLEAN, said : Paths \union {Absent}]

LockTypeOK ==
  /\ now \in Nat \ {0}
  /\ bundle \in Bundles \union {Absent}
  /\ mtime \in Nat
  /\ ruby \in Rubies
  /\ installed \subseteq Paths
  /\ lockfile \in Lock \union {Absent, Empty, Torn}
  /\ phase \in [Procs -> {"down", "init", "hashed", "writing", "read", "fresh", "run"}]
  /\ lock \in [Procs -> Lock \union {Absent}]
  /\ cache \in [Procs -> Cache \union {Absent}]
  /\ asked \in [Procs -> Lookup \union {Absent}]
  /\ drift \in [Procs -> BOOLEAN]
  /\ since \in [Procs -> BOOLEAN]

NoAnswers == [g \in Gems |-> Absent]

\* bundle info, which needs a Gemfile.lock and an installed gem.
BundleInfo ==
  LET said == IF bundle = Absent THEN NoAnswers ELSE Found[<<bundle, ruby>>]
  IN  [g \in Gems |-> IF said[g] \in installed THEN said[g] ELSE Absent]

LockInit ==
  /\ now = 1
  /\ bundle \in Bundles
  /\ mtime = 1
  /\ ruby \in Rubies
  /\ installed = Paths
  /\ lockfile = Absent
  /\ phase = [p \in Procs |-> "down"]
  /\ lock = [p \in Procs |-> Absent]
  /\ cache = [p \in Procs |-> Absent]
  /\ asked = [p \in Procs |-> Absent]
  /\ drift = [p \in Procs |-> FALSE]
  /\ since = [p \in Procs |-> FALSE]

-----------------------------------------------------------------------------
(* The world around. *)

Drifts ==
  /\ drift' = [p \in Procs |-> phase[p] \in {"init", "fresh", "run"}]
  /\ since' = [p \in Procs |-> asked[p] # Absent]

Tick ==
  /\ now < MaxTime
  /\ now' = now + 1
  /\ UNCHANGED <<bundle, mtime, ruby, installed, lockfile, phase, lock, cache, asked,
                 drift, since>>

\* Gemfile.lock is changed, removed or put back.
Edit ==
  /\ bundle' \in (Bundles \union {Absent}) \ {bundle}
  /\ mtime' = IF bundle' = Absent THEN 0 ELSE now
  /\ Drifts
  /\ UNCHANGED <<now, ruby, installed, lockfile, phase, lock, cache, asked>>

SwitchRuby ==
  /\ ruby' \in Rubies \ {ruby}
  /\ Drifts
  /\ UNCHANGED <<now, bundle, mtime, installed, lockfile, phase, lock, cache, asked>>

Install ==
  /\ \E d \in Paths \ installed : installed' = installed \union {d}
  /\ UNCHANGED <<now, bundle, mtime, ruby, lockfile, phase, lock, cache, asked, drift,
                 since>>

Uninstall ==
  /\ \E d \in installed : installed' = installed \ {d}
  /\ UNCHANGED <<now, bundle, mtime, ruby, lockfile, phase, lock, cache, asked, drift,
                 since>>

-----------------------------------------------------------------------------
(* resolve_gem_path, for the gems a configuration names, in any order.     *)

\* The gem is not in the cache, or Gemfile.lock has another mtime: Bundler is asked.  A
\* run asks only for gems its lock does not have.
LookUp(p) ==
  /\ phase[p] \in {"init", "run"}
  /\ asked[p] = Absent
  /\ \E g \in Gems :
       /\ phase[p] = "run" => lock[p].gems[g] = Absent
       /\ cache[p] # Absent /\ cache[p].mtime = mtime => cache[p].entries[g] = Absent
       /\ asked' = [asked EXCEPT ![p] =
            [gem |-> g, mtime |-> mtime, pending |-> TRUE, said |-> Absent]]
  /\ since' = [since EXCEPT ![p] = FALSE]
  /\ UNCHANGED <<world, lockfile, phase, lock, cache, drift>>

\* Bundler reads Gemfile.lock, at some time before its answer is stored.
Answer(p) ==
  /\ asked[p] # Absent
  /\ asked[p].pending
  /\ asked' = [asked EXCEPT ![p] =
       [gem |-> asked[p].gem, mtime |-> asked[p].mtime, pending |-> FALSE,
        said |-> BundleInfo[asked[p].gem]]]
  /\ UNCHANGED <<world, lockfile, phase, lock, cache, drift, since>>

\* Bundler named a directory, which path.exists() finds.
Resolved(p) ==
  /\ asked[p] # Absent
  /\ ~asked[p].pending
  /\ asked[p].said \in installed

\* Entries of another mtime stay.
ResolveBeside(p) ==
  /\ Resolved(p)
  /\ LET g == asked[p].gem
         anew == cache[p] = Absent \/ cache[p].mtime # asked[p].mtime
         kept == IF cache[p] = Absent THEN NoAnswers ELSE cache[p].entries
     IN  /\ cache' = [cache EXCEPT ![p] =
              [mtime |-> asked[p].mtime, entries |-> [kept EXCEPT ![g] = asked[p].said]]]
         /\ drift' = [drift EXCEPT ![p] = IF anew /\ phase[p] = "init" THEN since[p] ELSE @]
  /\ asked' = [asked EXCEPT ![p] = Absent]
  /\ since' = [since EXCEPT ![p] = FALSE]
  /\ UNCHANGED <<world, lockfile, phase, lock>>

\* The answer is stored; the cache is begun anew when the mtime is not that of its entries.
Resolve(p) ==
  /\ Resolved(p)
  /\ LET g == asked[p].gem
         anew == cache[p] = Absent \/ cache[p].mtime # asked[p].mtime
         kept == IF anew THEN NoAnswers ELSE cache[p].entries
     IN  /\ cache' = [cache EXCEPT ![p] =
              [mtime |-> asked[p].mtime, entries |-> [kept EXCEPT ![g] = asked[p].said]]]
         /\ drift' = [drift EXCEPT ![p] = IF anew /\ phase[p] = "init" THEN since[p] ELSE @]
  /\ asked' = [asked EXCEPT ![p] = Absent]
  /\ since' = [since EXCEPT ![p] = FALSE]
  /\ UNCHANGED <<world, lockfile, phase, lock>>

\* Bundler does not know the gem or is not there, or the directory is gone: the cache stays
\* as it is, and the gem's configuration is left out with a warning.
ResolveFails(p) ==
  /\ asked[p] # Absent
  /\ asked[p].said \notin installed
  /\ asked' = [asked EXCEPT ![p] = Absent]
  /\ since' = [since EXCEPT ![p] = FALSE]
  /\ UNCHANGED <<world, lockfile, phase, lock, cache, drift>>

-----------------------------------------------------------------------------
(* --init. *)

\* An invocation ends, however it does.
Exits(p) ==
  /\ phase' = [phase EXCEPT ![p] = "down"]
  /\ lock' = [lock EXCEPT ![p] = Absent]
  /\ cache' = [cache EXCEPT ![p] = Absent]
  /\ asked' = [asked EXCEPT ![p] = Absent]
  /\ drift' = [drift EXCEPT ![p] = FALSE]
  /\ since' = [since EXCEPT ![p] = FALSE]

StartInit(p) ==
  /\ phase[p] = "down"
  /\ phase' = [phase EXCEPT ![p] = "init"]
  /\ UNCHANGED <<world, lockfile, lock, cache, asked, drift, since>>

\* drain_resolved_paths, and the hash of Gemfile.lock as it is by now.
Hash(p) ==
  /\ phase[p] = "init"
  /\ asked[p] = Absent
  /\ lock' = [lock EXCEPT ![p] =
       [hash |-> bundle, under |-> ruby, drifted |-> drift[p],
        gems |-> IF cache[p] = Absent THEN NoAnswers ELSE cache[p].entries]]
  /\ phase' = [phase EXCEPT ![p] = "hashed"]
  /\ cache' = [cache EXCEPT ![p] = Absent]
  /\ drift' = [drift EXCEPT ![p] = FALSE]
  /\ UNCHANGED <<world, lockfile, asked, since>>

\* fs::write, in place: the lockfile is truncated, then written from its start.  What
\* another --init wrote in between may leave its tail.
Truncate(p) ==
  /\ phase[p] = "hashed"
  /\ lockfile' = Empty
  /\ phase' = [phase EXCEPT ![p] = "writing"]
  /\ UNCHANGED <<world, lock, cache, asked, drift, since>>

Write(p) ==
  /\ phase[p] = "writing"
  /\ lockfile' \in {lock[p], Torn}
  /\ lockfile = Empty => lockfile' = lock[p]
  /\ Exits(p)
  /\ UNCHANGED world

\* An --init that is killed, or whose write fails, leaves nothing or a part.
Abandon(p) ==
  /\ phase[p] \in {"init", "hashed", "writing"}
  /\ lockfile' \in IF phase[p] = "writing" THEN {lockfile, Torn} ELSE {lockfile}
  /\ Exits(p)
  /\ UNCHANGED world

-----------------------------------------------------------------------------
(* A run that lints. *)

\* Whatever the file holds.
ReadUnparsed(p) ==
  /\ phase[p] = "down"
  /\ lockfile # Absent
  /\ lock' = [lock EXCEPT ![p] = lockfile]
  /\ phase' = [phase EXCEPT ![p] = "read"]
  /\ UNCHANGED <<world, lockfile, cache, asked, drift, since>>

\* read_lock; what is missing or does not parse ends the run at once.
Read(p) ==
  /\ phase[p] = "down"
  /\ lockfile \notin {Absent, Empty, Torn}
  /\ lock' = [lock EXCEPT ![p] = lockfile]
  /\ phase' = [phase EXCEPT ![p] = "read"]
  /\ UNCHANGED <<world, lockfile, cache, asked, drift, since>>

\* Hashes are compared only if there are two.
CheckHashOfFiles(p) ==
  /\ phase[p] = "read"
  /\ Absent \in {bundle, lock[p].hash} \/ lock[p].hash = bundle
  /\ phase' = [phase EXCEPT ![p] = "fresh"]
  /\ UNCHANGED <<world, lockfile, lock, cache, asked, drift, since>>

\* check_freshness: first the hash ...
CheckHash(p) ==
  /\ phase[p] = "read"
  /\ lock[p].hash = bundle
  /\ phase' = [phase EXCEPT ![p] = "fresh"]
  /\ UNCHANGED <<world, lockfile, lock, cache, asked, drift, since>>

\* ... then the directories.
CheckPaths(p) ==
  /\ phase[p] = "fresh"
  /\ \A g \in Gems : lock[p].gems[g] \in installed \union {Absent}
  /\ phase' = [phase EXCEPT ![p] = "run"]
  /\ UNCHANGED <<world, lockfile, lock, cache, asked, drift, since>>

\* The lockfile is stale.
Refuse(p) ==
  /\ \/ phase[p] = "read" /\ lock[p].hash # bundle
     \/ phase[p] = "fresh" /\ \E g \in Gems : lock[p].gems[g] \notin installed \union {Absent}
  /\ Exits(p)
  /\ UNCHANGED <<world, lockfile>>

EndRun(p) ==
  /\ phase[p] = "run"
  /\ Exits(p)
  /\ UNCHANGED <<world, lockfile>>

LockNext ==
  \/ Tick \/ Edit \/ SwitchRuby \/ Install \/ Uninstall
  \/ \E p \in Procs :
       \/ LookUp(p) \/ Answer(p) \/ Resolve(p) \/ ResolveFails(p)
       \/ StartInit(p) \/ Hash(p) \/ Truncate(p) \/ Write(p) \/ Abandon(p)
       \/ Read(p) \/ CheckHash(p) \/ CheckPaths(p) \/ Refuse(p) \/ EndRun(p)

LockSpec == LockInit /\ [][LockNext]_lockVars

-----------------------------------------------------------------------------

\* The answer to gem g that the run p works with.
Used(p, g) ==
  IF lock[p].gems[g] # Absent THEN lock[p].gems[g]
  ELSE IF cache[p] = Absent THEN Absent ELSE cache[p].entries[g]

\* What a lockfile says of its gems is what Bundler says for the Gemfile.lock it carries
\* the hash of, although the gems were looked up one after another and before the hash was
\* taken: a change meanwhile makes the next answer discard the earlier ones, unless it
\* came after the last answer or within a tick of the clock.  (A switch of Ruby is
\* no change of Gemfile.lock.)
LockIsOfItsHash ==
  lockfile \notin {Absent, Empty, Torn} /\ ~lockfile.drifted =>
    \A g \in Gems :
      lockfile.gems[g] # Absent =>
        /\ lockfile.hash # Absent
        /\ lockfile.gems[g] = Found[<<lockfile.hash, lockfile.under>>][g]

\* A run inherits from the gems that Bundler names for the Gemfile.lock in place, whether
\* its lock or its own lookups found them and whatever was edited before the run compared
\* the hash.  src/config/lockfile.rs: "Detects: Gemfile.lock changes, Ruby version
\* switches, gem reinstalls"; a switch of Ruby is not among them while the gems of the
\* other Ruby stay installed.
GemsAreOfTheBundle ==
  \A p \in Procs :
    phase[p] = "run" /\ ~drift[p] /\ ~lock[p].drifted /\ lock[p].under = ruby =>
      \A g \in Gems :
        Used(p, g) # Absent => bundle # Absent /\ Used(p, g) = Found[<<bundle, ruby>>][g]
=============================================================================
