# nitrocop in TLA+

nitrocop is a Ruby linter in Rust that runs RuboCop's cops over many files at once,
caches their results between runs and can correct what they find.  This directory
holds TLA+ specifications of the parts of it whose correctness depends on more than
one step: the result cache, the way its index reaches the disk, the parallel run,
the autocorrection loop and the merging of corrections, the comments that switch cops off, the
analysis of local variables, what cops keep from file to file, and the lockfile of gem
paths.  TLC checks them on small instances; most of the safety properties
are also proved, for all values of the constants, with the TLA+ proof system.

## The system

| Component | Source | State | Operations | Specified in |
|---|---|---|---|---|
| Result cache | `src/cache.rs`, driven by `lint_file` in `src/linter.rs` | `entries` (path hash to stamp, content hash, diagnostics), `dirty`, the index file of the session | `new`, `get_by_stat`, `get_by_content`, `put`, `flush`, `evict` | `ResultCache` |
| Cache index on disk | `src/cache.rs` | `<hash>.index`, `<hash>.tmp` | `load_index`, `flush`, `evict_old_sessions`, `clear_cache` | `CacheIndex`, abstractly `IndexStore` |
| Parallel run, exit code | `run_linter` in `src/linter.rs`, `run` in `src/lib.rs` | the files left, `found_offense`, the diagnostics | take a file, lint it, skip it, exit | `RunLinter` |
| Autocorrect loop | `lint_source_inner`, `lint_source_once`, `lint_file` in `src/linter.rs`; `cop/mod.rs`, `cop/walker.rs`, `cop/autocorrect_allowlist.rs` | `current_bytes`, `corrected_diags`, the file | a pass, converge, bail out, give up, validate, write | `Autocorrect` |
| Correction sets | `src/correction.rs` | the corrections sorted and kept, the cursor of the splice | `from_vec`, `apply` | `Corrections` |
| Inline directives | `src/parse/directives.rs`; the end of `lint_source_once` and `is_directive_redundant` in `src/linter.rs` | disabled ranges, open disables, use marks | `from_comments`, `check_and_mark_used`, the report of redundant directives | `Directives` |
| State of cops between files | `cop/naming/inclusive_language.rs`, `cop/layout/multiline_operation_indentation.rs`, `cop/style/operator_method_call.rs`; the thread-locals of `cop/style/map_into_array.rs`, `infinite_loop.rs`, `conditional_assignment.rs`, `cop/lint/unused_method_argument.rs` | maps from addresses to derived data, per-file data of a thread | look up, build, fill in `check_source` | `CopState` |
| Variable analysis | `cop/variable_force/engine.rs`, `variable.rs`, `variable_table.rs`, `assignment.rs`, `scope.rs`; `cop/lint/useless_assignment.rs` | scope stack, variables, assignments, references, branch stack | the tree walk, declaration, assignment, reference, back edges, leaving a scope | `VariableForce` |
| Lockfile, gem paths | `config/lockfile.rs`, `config/gem_path.rs`, `run` in `src/lib.rs` | the lockfile, `Gemfile.lock`, `GEM_PATH_CACHE` | `--init`, `read_lock`, `check_freshness`, `resolve_gem_path` | `GemLock` |
| Configuration, cop filters | `config/`, `cop/tiers.rs` | merged YAML | load, inherit, match | planned in part |
| Cops | `src/cop/` | none | check a line, a source, a node | an oracle in the models |
| Node patterns, source and code map, discovery, schema, formatters, migrate, doctor, rules, verify | `src/node_pattern/`, `src/parse/`, `src/fs.rs`, `src/schema.rs`, `src/formatter/`, ... | none that outlives a call | | not modelled |

How they interact: `run` discovers the files and calls `run_linter`, which computes the
session hash, loads the cache (`ResultCache::new`), and lets rayon's workers call
`lint_file` on one file each.  `lint_file` asks the cache twice (before and after it reads
the file), lints or corrects through `lint_source_inner`, writes a corrected file, and puts
the result.  The workers share the cache's `RwLock`, its dirty flag, and the fail-fast flag.
When all have returned, `flush` writes the index and `evict` removes old ones; `run` prints
the diagnostics and derives the exit code.  Before all that, `run` reads the lockfile that an `--init` left,
checks it and loads the configuration with the gem paths in it.  Other nitrocop processes (an editor
integration, a pre-commit hook) share the cache directory with no lock, and the user's
editor shares the Ruby files.

The behaviours that are hard to test are therefore: an edit between two looks at the same
file; two processes that load, write and rename the same names; a crash between those
steps; options that change between runs; the order of the workers under `--fail-fast`;
a correction loop over texts that nobody wrote by hand; corrections of several cops at one place;
comments that disable and enable a
cop, its department and everything in any order; memory that one file freed and the next got; a
walk over a tree that has to foresee loops, exceptions and blocks; and a `Gemfile.lock` that changes
while its gems are looked up.  PROJECT.json lists them one by one,
each with its line and with the properties that would fail if the code got it wrong.

## The specifications

In every module an action is named after the step of the code it stands for.  Directly
before some definitions stands a variant of it under a longer name (`LoadUnchecked` before
`Load`, `ConvergeEarly` before `Converge`, ...): a plausible mistake in that piece of code.  No
specification uses the variants; with one put in place of its original TLC finds the property
listed for it in PROJECT.json violated, which shows that the property depends on the code.

### ResultCache

State: the file system (`now`, `content`, `mtime`), one index per session (`stored`), and for
each process its options, its map, its dirty flag, and how far `lint_file` has come with each
file (`pc`).  One process is one invocation; one worker per file is right because the list of
files is sorted and deduplicated.

| Code | Actions |
|---|---|
| `run_linter` up to the parallel loop, `ResultCache::new`, `load_index` | `Start` |
| exclusion and migrated-file tests in `lint_file` | `Skip` |
| `get_by_stat` | `StatHit`, `StatMiss` |
| `SourceFile::from_path` | `Read`, `ReadFails`, `ReadInvalidUtf8` (which lints too) |
| `get_by_content`: under the read lock; then the second stat and the write lock | `ContentMatch`, `ContentMiss` (which lints too); `Refresh` |
| `put`, with its stat | `Put` |
| `flush`, `evict`, process exit | `Finish` |
| a kill, a failed write | `Crash` |
| the editor, git, the clock, `--cache-clear` | `Edit`, `Touch`, `Tick`, `Discard` |

What is abstracted: SHA-256 is injective; diagnostics are the pair of the options and the bytes
they were computed from, which is all the cops depend on (they are deterministic); the
options are split into `Keys`, what `compute_session_hash` reads, and `Unkeyed`, what the cops
also depend on (`--preview`, `db/schema.rb`).  `evict` removes some set of other sessions
(or any set, when nothing was flushed); which ones is the business of `CacheIndex`.  The cache is off
under autocorrection, `--stdin` and directory-specific configurations, so `Start` stands for
runs without those.

A stamp (mtime and length) cannot tell every two contents apart, so what the cache returns can
be wrong in two windows, which the history variable `raced` records: an edit after the
read and before the stat of `put` or `get_by_content`, and an edit in the same tick of the
file system's clock that keeps the length.  The properties say that these are the only
ones: `ResultsAreOfTheFile`, `StampsAreSound` (an entry in memory or on disk that carries a
file's stamp is of its bytes: what makes reading nothing on a stat hit sound),
and `WorkIsSaved`, which ties the dirty flag to what the run learnt.
`ResultsAreOfTheSession`, that no result crosses from one session key to another, is proved only.

### CacheIndex and IndexStore

`IndexStore` says what the index of one session is for its runs: a whole map, read when a run
starts and replaced at once when one ends.  Runs that save at the same time may leave the map of any of
them there, or something that cannot be read.  `CacheIndex` has the two directory entries
(`index`, `tmp`), the files behind them (`data`, by inode, because a file stays open after its
name is renamed), and per run the open file (`fd`).  `flush` is `OpenTmp`, `WriteTmp`, `Rename`,
or `NothingToFlush`; `Abandon` is a crash, a full disk or a failed rename at any of these
steps; `ClearCache` removes all names.  Runs overlap in any way, in their flushes too: nothing in the code
keeps them apart, and all use one temporary file.  A run that opens it truncates it under another that is writing, which
goes on behind the hole; two that write leave either map or a mixture; and a rename may publish what
another run has not finished.  After
`--cache-clear` a run whose directory is gone cannot open its temporary file; the model
also lets it succeed, which a run started meanwhile makes possible.

`flush` says that it writes atomically (`cache.rs:276`), and that is not so while flushes overlap.  The properties
say how far the promise goes.  Two history variables belong to them: `clash`, whether flushes have overlapped since one was last under way
alone, and `offered`, the maps they were to save.  `OnlyOverlapsBreak`: no step makes a whole index anything else unless
`clash`, whatever crashed, failed or was removed before.  `ImplementsIndexStore` (refinement
mapping `stored <- ` the contents of the index): what a run loads is what a store replaced at once would give it, and with
`clash` one of the maps `offered`, or nothing.  `LoneFlushRepairs`: the damage ends with the next flush that meets
no other, also if a torn temporary file was left behind.

Eviction is part of the same module, since it removes the same index.  Other sessions are one index and one run each,
which flushes at once (`OtherFlush`).  `after` orders the files as their mtimes do: what is written sorts behind
everything, and a rename keeps the place of the file, which is what `fs::rename` does with an mtime.  A run that has
flushed looks at the directory (`List`: `read_dir`, the mtimes and the choice of names, in one step), then
removes name by name (`Remove`, in any order, where the code goes from the oldest), whatever the name stands for by then; it may be killed in
between (`StopEvicting`).  `EvictionKeepsRecent` says that with any number of runs doing so at once, and
flushes in between, an index goes only while the youngest half of the limit stays.  The history variable `raced`
is the one way out: an index is rewritten after a run listed it, and is removed though it is now the youngest.  A run
that has only stat hits flushes nothing and does not renew its index, as in the code.  The other things `evict_old_sessions`
removes, directories of the old layout, nobody reads any more; mtimes are taken to be different.

### RunLinter

Rayon's workers take files in any order.  The fail-fast flag is a relaxed atomic: a
load may return FALSE after another worker stored TRUE, but never after this worker has itself read
or written TRUE (`sees`; coherence of one location).  The severities of the
files, the arguments and the outcome of `--strict` are fixed in the initial state and arbitrary.

`CleanMeansAllLinted`, `OneReportPerWorker` and `ExitCodeIsTheVerdict` say what `--fail-fast`
does not break: a clean report is complete, the number of reports is bounded by the number of
workers, and the exit code does not depend on the schedule unless a `--fail-level` above
convention is combined with it.  `RunTerminates` says the run ends.

### Autocorrect

One file, one run under `-a` or `-A`.  Prism and the cops are an oracle fixed in the initial
state: for each text its verdict (`syntax`: no errors, errors that leave the tree intact, or
structural ones), the cops with an offence in it, and the text that the corrections
of a pass make of it.  Nothing is assumed of them but that equal texts get equal answers, that a
text with structural errors reaches no cop, and that no corrections leave a text as it is.  A cop
stands for all its offences; `Lint/Syntax` diagnostics, which are never corrected, are left
out.  Which cops get a place for corrections follows the code: before the walk those that
`should_autocorrect` and, under `-a`, the allowlist admit; in the walk all, and the allowlist
filters afterwards.  `Muted` cops are those whose offences a comment disables: their
diagnostics go and their corrections stay.  The file is truncated and then written, in two
steps; the user may save it, and the process may die, in between.

`OnlyValidRubyIsWritten`, `UnchangedFileIsNotRewritten`, `SecondRunIsIdle` (a converged text has
nothing left to correct), `ReportIsOfTheFile` (what is reported as uncorrected is what is wrong with
the file that is left), `SafeModeIsAllowlisted`, and `Terminates`.  `SettingsHold`, that no cop corrects which
`should_autocorrect` says should not, fails: in the walk nobody asks.  When the loop bails out the
code returns neither the text nor the last pass's diagnostics, so `ReportIsOfTheFile` is
about runs that converged.

### Directives

One file in one pass of the linter.  `from_comments` reads the names in the directive
comments from the top to the bottom (`Scan`: `DisableInline`, `Disable`, `EnableInline`, `Enable`,
one name a step, then `EndOfFile`) into `ranges`, `open` (`open_disables`) and `directives`; the
filter of the diagnostics marks directives as used (`Filter`); `Report` is the loop over the
unused ones with `is_directive_redundant`.  `written` is history: the names as they were read.

| Code | Definitions |
|---|---|
| the arms of `from_comments` | `DisableInline`, `Disable`, `EnableInline`, `Enable`; which keys an enable closes, `Closes` |
| the loop after the comments | `EndOfFile` |
| `check_ranges`, `check_and_mark_used`, `mark_directives_used` | `InRange`, `IsDisabled`, `Marks`, `Filter` |
| which cops run under `--only`, `--except` and the filters | `Runs`, `Matches`, `AllCopsRan` |
| `is_directive_redundant` | `IsRedundant` and its three cases |

What is abstracted: how a comment is found and its names are cut out is data (a name is what
`normalize_directive_cop_name` returns), and so is `qualify`: `KeyOf`, `DeptOf`, `Aliases` and
`NewName` are constants of which `ConstantsOK` assumes what the registry and the table of renames
satisfy (a former name is no cop again; `qualify` leaves it alone or makes it the cop it was
renamed to).  Names with a `/` that do not begin with a capital letter are left out.  `Statuses` is what
the globs of a cop say of the file.  Where the cops find offences is fixed in the initial state and
arbitrary.

The properties compare this with `Reaches`, which reads off the comments themselves how far a
disable goes.  `SuppressedAsWritten`: the ranges suppress what was asked for, no more and no less.
`ReportedIsRedundant`: all the comments reported as redundant can be deleted together without an
offence coming back, of the cops that ran and, if `LeavesNothingOut`, of those that did not.
`RedundantIsReported`: when all cops ran, nothing that is redundant is missed.

### Corrections

`from_vec` and `apply` one iteration a step: the cops push (`Collect`, in any order and any number),
`Sort`, then `Keep` or `Drop` for each in the sorted order, `Built`, then `Splice` for each correction kept,
and `CopyRest`.  A correction is its range and its cop; of the new text the model keeps which
stretch of the source, or which replacement, each segment is.  The sort is stated by what it
yields (`IsSorted`); that `sort_by` is stable makes the index the last key.

`KeptIffUncontested`: a correction is dropped exactly if it starts inside a kept one that comes before
it, which determines the kept ones from the set proposed; `EarlierCopWins`: what the
comment on registry order promises, including insertions, after which a later cop's correction at
the same offset is still kept; `ResultTiles`: the segments stand for the whole source, without
gap or overlap, and every kept replacement is there once.

### CopState

What cops keep between files.  A unit is a pass over a text: a worker takes a file (`Take`), gets
configurations for it (`Configure`), runs `check_source` (`CheckSource`) and the walk (`Walk`, `Note`), looks
into the caches whenever it likes (`LookUpTerms`, `LookUpContext`), and goes on to the next pass or
file (`NextPass`, `Finish`), which frees the text, its tree and the configurations of its own.

| Code | State, actions |
|---|---|
| `TERMS_CACHE`, `get_or_build_terms` | `terms` by address, shared by the workers, never emptied; `LookUpTerms` |
| `OPERATOR_CONTEXT_CACHE`, `CALL_CONTEXT_CACHE` | `contexts`, one per worker, keyed by where tree and text lie and by the length; `CacheKey`, `LookUpContext` |
| thread-locals filled in `check_source` and read in later phases | `locals`; `CheckSource`, `Note` |
| `base_configs`, `owned_base_configs` | `configs` by address; `Configure`, `Dropped` |
| the allocator | any address no one else uses: `Free`, and the choice in `Configure` |

What is derived from a configuration or a text stands for it.  `RunTermsAreKept`: a file that no
nested `.rubocop.yml` governs is checked with the terms of the run's configuration.  `ContextsAreOfTheText`:
a worker that gets contexts of another text built them itself, for a text of the same length that lay
at the same place; that does happen to two passes whose correction keeps the length, if the allocator puts the
second text and its tree where the first lay.  `LocalsAreOfTheText`: nothing in a thread-local is of an
earlier text once `check_source` has run, though nobody empties it at the end of one.  `TermsAreOfTheConfig`
is what the code's comment claims and is violated below nested configurations.

### VariableForce

The actions are the nodes the engine visits, so that a behaviour is a program, written while it is
walked; one name, `x`, is followed.  `scopes` is the `VariableTable`, `path` the
`branch_stack`, `open` the constructs the walk is inside of, `pos` the offset; `reported` is what
`Lint/UselessAssignment` collects when a scope is left.

| Visitor | Actions |
|---|---|
| local variable write, read, `\|\|=` and `&&=`, and a write with a modifier `if` | `Write`, `Read`, `WriteShort` (`FirstShort` where it is the first mention), `WriteModified` |
| `if`, `unless`, `case`; modifier `if` with a write in its condition | `Cond`, `Arm`, `EndCond`; `CondModified` |
| `and`, `or` | `Logic`, `EndLogic` |
| `while`, `until`; `begin ... end while` | `While`, `Body`, `EndWhile`; `Post`, `Test`, `EndPost` |
| `begin` with `rescue` and `else`; with `ensure` | `Begin`, `Rescue`, `Else`, `EndBegin`; `Ensured`, `Ensure`, `EndEnsure` |
| block, lambda; `def`; `class`, `module`, `class <<` | `Block`, `EndBlock`; `Def`, `Class`, `EndOwn` |
| `Variable::assign`, `reference_with_branches`, `mark_loop_back_edges`, the check of a variable | `Assigned`, `Referenced` with `Reaches` and `Exclusive`, `LoopMarked`, `Useless` |

Two history variables say what Ruby does: `flow`, the assignments whose value `x` may have here, by
the order of the program and through exceptions (`Raising` lets every open `begin` be left at each
step), and `seen`, the assignments some read, closure or later iteration gets to see.  The
five properties say that no such assignment is reported, one for each way to be seen:
`LiveIsNotReported`, `RaisedIsNotReported`, `AroundIsNotReported` (a later run of a loop),
`CapturedIsNotReported` and `LaterIsNotReported` (before and after a block takes hold of `x`).

Two kinds of assignment that are used are reported all the same, as RuboCop does, and the properties
leave them out by name.  `Sequential`: assignments in a loop, read by its next iteration, that are on no
conditional branch and not the last (`engine.rs:231`: "Plain sequential writes in the loop body are
intentionally excluded").  `Hidden`: values only an exception carries to a read, assigned outside the
body of a `begin` and overwritten on the same branch, or overwritten by an unbranched assignment in a block.

Not modelled: `retry`, `next` and `break`, `for` (whose index the engine takes as always assigned), conditions of `when`,
parameters, patterns, multiple and operator assignment, `x = v while c`, `binding` and `super`; the cops
besides `Lint/UselessAssignment` that use the engine; and the suppressions in that cop (`useless_assignment.rs:188`),
which only take reports away.

### GemLock

`--init` loads the configuration, which looks up gems one after another (`LookUp` takes the mtime of `Gemfile.lock`
and asks Bundler, `Answer` is the moment Bundler reads `Gemfile.lock`, `Resolve` stores the answer if the directory exists, `ResolveFails`
warns if it does not), then takes the hash of `Gemfile.lock` (`Hash`) and writes
the lockfile in place (`Truncate`, `Write`).  A run reads it (`Read`), compares the hash (`CheckHash`) and tests the
directories (`CheckPaths`), or stops (`Refuse`); it then uses the paths of the lock and looks
up those the lock does not have.  `Edit`, `SwitchRuby`, `Install` and `Uninstall` are the world around and happen
at any step; `Abandon` is a kill or a full disk.  A lookup answered from the cache changes nothing and is no step.  Which
gems a configuration names, and in which order, is open.

The history variable `drift` says that Bundler's answers may have changed since the cache was last begun anew
(under `--init`) or since the hash was compared (under a run); `since`, that they may have changed since the lookup under way began.
`LockIsOfItsHash`: unless `drift`, a lockfile
vouches for its own `Gemfile.lock`, though the lookups and the hash are separate steps: it is the reset of the cache at the
first answer under another mtime that ensures it.  `GemsAreOfTheBundle`: the same of what a run uses, wherever it
found it.  Three cases remain outside, and really happen: an edit after the last answer (or one after which
every lookup fails, for a failed lookup leaves the earlier answers in the cache), an edit within a tick of the
clock, and a switch of Ruby while the gems of the other stay installed, although the comment on `check_freshness`
lists "Ruby version switches" among what it detects.  The model is of a run on the directory `Gemfile.lock` is in.
A target below it has a lockfile of its own (`lib.rs:284` passes the target), whose hash is that of no file, so that
a change of `Gemfile.lock` goes unnoticed.

## The runs

| Run | Instance | Shows |
|---|---|---|
| `rc_editor` | 2 processes, 2 files (one excluded), 3 contents (two of one length, one invalid UTF-8), 1 session, 2 ticks; 1,044,224 states up to symmetry | the cache under an editor and overlapping runs |
| `rc_preview` | 1 process, 1 file, 1 session, 2 unkeyed options | violated: `OptionChangeIsSeen` |
| `ci` | 2 runs that overlap, in their flushes too, 1 other session, a limit of 1 session, 3 maps, 3 inodes; 270,143 states up to symmetry | the refinement, that only overlapping flushes tear the index, and its repair, through crashes and removals; eviction spares the youngest |
| `rl` | 2 workers, 3 files; 231,536 states | fail-fast, exit codes, termination |
| `ac` | 2 texts, 4 cops, at most 3 passes; 337,212 states | the loop under every oracle |
| `ac_settings` | 2 texts, 2 cops, 1 pass | violated: `SettingsHold` |
| `cor` | 4 bytes, 2 cops, up to 3 corrections; 247,736 states | which corrections are kept, and that the splice tiles the source |
| `dir` | 3 lines, up to 3 names out of 6, at most 1 offence, 8 settings of a run; 1,816,000 states | suppression as written; the report of redundant comments |
| `cs` | 2 workers, 2 files, 4 texts (one that does not parse), 3 addresses, 3 places, 2 passes; 319,421 states | caches keyed by addresses; thread-locals |
| `cs_nested` | 1 worker, 3 files, 2 of them in directories of their own configuration | violated: `TermsAreOfTheConfig` |
| `vf` | programs of 5 nodes nested 2 deep, 3 arms, the fifth no construct but a modifier (an empty one changes nothing); 901,670 states up to a view | which assignments may be reported as useless |
| `gl` | 1 invocation at a time, 2 gems, 2 versions of `Gemfile.lock`, 2 Rubies, 2 ticks; 1,152,408 states | what the lockfile vouches for |

Why the bounds are enough.  An entry of the cache goes wrong through one file, one entry and at most two
looks at it, by two processes of which one may have written the index the other
loads: `rc_editor` has those.  Two ticks give edits within and across the clock's
granularity; three contents give edits that keep the length and edits that do not.  The
interplay of files is only through the dirty flag and the map as a whole, that of sessions
only through the key; `rc_editor` has a file that is linted and one that is not, and for more of either, and for any number
of sessions, there are the theorems.  In
`ci` two runs are enough for a flush under another's load, crash, removal or flush; three
maps tell the empty one, an old one and a new one apart, and three inodes leave one for the index, one for the
temporary name and one that is still open under no name.  One other session gives eviction an older and a younger
index, and three runs that evict; with a limit of one the second index already is one too many, and for limits and sessions
of any number there is the theorem `RecentSurvive`.  `MCCacheIndex` swaps runs, inodes, other sessions and the maps that are not empty, which
no definition tells apart, and takes states for one that differ only in a file that has neither a name nor an open
handle, which no step can read again; `MCResultCache` does so with what is in an excluded file and with the options
of a run that is over.  `MCVariableForce` does so with reads that no open loop has in it, and, when the last node of a program
is behind the walk and no loop or block is left to close, with everything but the constructs and what will be reported and is seen.  Three files are one more than the workers,
so a worker meets the flag with a file still to take.  Two texts contain the cycle (A to B to A), the
fixed point and the invalid result; the four cops are the classes the code tells apart; with three
passes the loop can change a text, undo it, and run out of passes (200 in the code, a constant here).
Two disables and
the enable that ends one or both, in three lines, are the smallest file in which a gap, an overlap
or a range that ends too late can occur; a fourth name only repeats such a pair.  The six names are one of each kind
the code tells apart: a cop, a misplaced name that `qualify` resolves, a former name, the redundancy
cop, a department, and all.  Offences are independent of each other, so one is enough.
Whether a correction is kept depends on one earlier correction, and the third is the one
that a dropped one would have blocked; four bytes hold three that touch, overlap or nest, and two cops
give a tie at each offset.  A program of five nodes holds two assignments, a read, and two constructs around
or between them, which is what each rule of the engine looks at; three arms make a `case` whose first or last arm
may be skipped.  A cache of `CopState` goes wrong when one text or configuration is freed and another gets its address:
two files or two passes do; four texts give equal and different lengths, and three addresses leave one besides the run's
for each of the two workers.  Invocations in `gl` share nothing but the lockfile, whose every value (none, empty, torn, any
lock) an earlier one can leave through a crash, so one at a time is enough; two gems let an answer be old
while the other is new.
`MaxTime` bounds only the clock.  Deadlock is checked in the runs of the cache and in `gl`, whose
systems never stop; the other modules describe one run, or one walk, which ends.

Fairness.  `RunLinter` assumes weak fairness of each worker and of the exit: rayon does not
stop a worker that has something to do, `lint_file` has no lock to wait for but the cache's short
ones, and `collect` returns when all have.  `Autocorrect` assumes weak fairness of nitrocop's
steps as a whole, because the loop waits for nothing; a kill is not assumed.  The other
modules state no liveness.

### Where the code does not do what the repository says

Three runs show it:

* `rc_preview`: the session hash does not read `--preview`, nor `db/schema.rb`, and a run with
  another such option is served the earlier one's results.
* `cs_nested`: `get_or_build_terms` relies on configurations that live as long as the run
  (`inclusive_language.rs:104`), but those of a nested `.rubocop.yml` live as long as a pass over a file.  A
  file in one such directory may be checked with the flagged terms of another.
* `ac_settings`: `should_autocorrect` (`cop/mod.rs:256`) is to say whether a cop corrects "given the
  current CLI mode", and `docs/AUTOCORRECT_PLAN.md:41` that `-a` skips cops with `Safe: false` or `SafeAutoCorrect: false`.  The
  cops that correct in the walk are all given a place for corrections (`linter.rs:1263`), and ask nobody: those of them that are
  allowlisted, `Style/Not` for one, correct the file whatever `AutoCorrect`, `Safe` and `SafeAutoCorrect` say.

The models contain the following as well, and the properties leave the cases out by name:

* `flush` promises (`cache.rs:276`) an atomic write through a temporary file, but overlapping
  runs of a session share its name.  A reader may find the index torn; `load_index` then starts
  from an empty map, so work is lost and no result is wrong (`clash` in `CacheIndex`).  TLC finds it with `IndexWhole`
  as an invariant of `ci`: one run writes, a second opens the file and truncates it, and the first renames it.
* `evict_old_sessions` promises (`cache.rs:428`) to remove the oldest sessions, but looks at the mtimes before it
  removes: an index that another run renames into place in between goes although it is the
  youngest.  Only its work is lost (`raced` in `CacheIndex`).
* Under `-a` an offence of a cop that corrects in the walk and is not allowlisted is counted as
  corrected (`linter.rs:753`) though its correction is dropped (`linter.rs:1271`).
* With `--except` a comment that names the excepted cop by a former name that still
  suppresses it, or by its short name under another department, is reported as unnecessary, though the
  cop did not run: `is_directive_redundant` asks `all_cops_ran` only of the names of registered
  cops (`linter.rs:713`).  `LeavesNothingOut` names the case.
* A change of Ruby does not show in the hash of `Gemfile.lock`, although the comment on `check_freshness`
  lists it; `resolve_inherit_gem` calls its failure "intentionally a hard failure" (`config/mod.rs:1725`) while its caller
  warns and goes on (`config/mod.rs:1634`).

Two more cases, which no document contradicts, are outside `LeavesNothingOut`: `--only` with the
redundancy cop beside others reports misplaced names whose cop did not run, and a file whose nearest
configuration takes back an `Exclude` of the root's has its cop run and its directives reported
when another `--only` kept the cop from running (`is_cop_excluded` looks at both, `is_cop_match` at
the nearest).  Likewise, `--fail-fast` stops at an offence below `--fail-level`, so the two together can end with
0 although a skipped file has an offence at the level; `ExitCodeIsTheVerdict` excludes it.

## The proofs

The modules whose names end in `Proofs` hold the theorems.  Two of them are about two specifications that share no variable:
`LinterProofs` about `RunLinter` and `Autocorrect`, the loop over the files and what it does with one, and
`CachedProofs` about `CopState` and `GemLock`, answers kept under a key that may no longer stand for them.  Those about
`VariableForce` fill two, `VariableForceProofs` and, on top of it, `RaisedProofs`.  Each theorem rests only on
the `ConstantsOK` of the module it is about (`RunConstantsOK` for `RunLinter`, `FoundOK` for `GemLock`).

* **ResultCache.**  `ResultsAreOfTheFile` is not inductive: a stat hit returns what an entry
  says without looking at the bytes.  `IInv` adds `MapsOK`, every entry of every map, in memory or on
  disk, is of its file and session (its diagnostics are of the content it hashes, and if
  its stamp is the file's, so is its hash, unless the file is in `raced`); `ClockOK`, no file
  and no entry is younger than the clock, so that a later edit moves the stamp; `DownOK`, a
  process that is down holds nothing; `WorkersOK`, what each step of `lint_file` has seen.
  Typical step: `Edit` in a new tick changes the mtime beyond that of any entry; in the same tick it keeps the
  stamp only for an entry of the same length, which is `SameStampEdit`.  From `IInv` follow `TypeCorrect`,
  `ResultsCorrect`, `SessionsIsolated`, `StampsCorrect`, `WorkSaved`, and `CachedIsUncached`: what
  the cache returns is what an uncached run would compute of the bytes it observed under the same keyed options and some
  value of those the key does not read.  That it need not be this run's value is what `rc_preview` shows.
* **CacheIndex.**  All of it holds for flushes that overlap in any way, of any number of runs.  `FlushInv` is the invariant of
  `OverlapsAloneBreak`, `LoneFlushWhole` and `Refinement`.  `Alone`: a run that flushes without `clash` is the only one that does, writes into an
  empty file, what it has written is its map, and if the temporary name still exists it is of that file.  `Shared`: otherwise
  every file that is open or named `tmp` holds a map that was `offered`, or none.  The index and the temporary name are of different files.
  Typical step: `Rename` without `clash` publishes the run's own map (`Alone`), with it what `Overwrite` of the store allows (`Shared`).
  `RecentSurvive` holds for any number of sessions and any limit.  Its invariant: `OrderOK`, `after` is a strict order of the
  files; `TmpIsYounger`, what a rename puts in the place of the index sorts behind it;
  `EnoughOK`, an index some run still has to remove has at least `Target` indexes behind it.  Typical step: `Remove`
  of an index that is behind another doomed one leaves it enough, since all that is behind the
  former is behind the latter too.
* **RunLinter.**  `RunInv` ties the job of each worker to the state of its file, a raised flag to a
  reported file, and under `--fail-fast` each worker's report to its having seen the flag.
* **GemLock.**  `LockTypeCorrect`, `LockCorrect` and `GemsCorrect` hold for any number of invocations that write, read
  and look up at once, in one project, while everything around them changes; TLC checks one invocation at a time.
  `LockInv` says when something vouches for `Gemfile.lock`: `LocksOK`, every lock that parses, in the file or in
  memory, is right for the hash it carries unless it is marked as drifted; `LookupsOK`, Bundler's answer is what it would
  say now unless something changed since the lookup began, and then the drift is noted; `CachesOK`, the same of all the answers in
  a cache; `DriftOK`, a run that has compared the hash still has that of the file.  The typical step is `Resolve` under
  `--init`: an answer under another mtime begins the cache anew, and from then on only what `since` says counts.
  The lemma `OwnStep` reduces each action to the state of the invocation that takes it and the lockfile.
* **Autocorrect.**  `IInv` says what each phase knows: the bytes returned are those of
  `Validate`, the outcome "converged" means the last pass collected nothing, and what was
  applied is within what `Collected` admits.
* **Corrections.**  `LoopInv` says of the loop of `from_vec` that what it kept is disjoint and in order,
  and that each correction seen is kept or starts inside a kept one before it; `SpliceInv` says of
  `apply` that the segments end at the cursor, which is the end of the last correction spliced, and that
  each of those is among them.  For any number of corrections, cops and bytes.
* **VariableForce.**  `TypeCorrect`, `LaterCorrect`, `LiveCorrect`, `CapturedCorrect`, `RaisedCorrect` and `AroundCorrect`
  for programs of any size, nested to any depth.  `Single`: `x` is declared in one accessible
  scope at most, so the table's search has no choice.  `Safe`: an assignment in `seen.later` is
  of a captured variable and is not reassigned.  The argument is the order of two steps: an assignment
  captures the variable in a block before it overwrites anything (`Behind`).
  The next two need `LiveInv`: what some read has seen is marked, or captured and not
  overwritten (`SeenOK`), and what `x` may be, here (`flow`) or where a construct around it puts values aside
  (`Saved`), is `Carried`: in a scope in reach, not overwritten, and, unless captured, `Live` for a read on the branch
  of the walk and on that of every scope around it.  `Live` says that the branch of the assignment does not exclude the read's
  and that whatever was assigned later in the list is by a modifier or on a branch that the walk has left
  and the earlier assignment is not on (`Parted`).  `LiveIsReached`: such an assignment is one the backward walk gets to and
  marks.  The rest says where branches can be: `NestOK` and `PathsOK`, how constructs and their branches nest;
  `WritesOK`, no assignment is on a branch still to come; `Aside`, what is put aside is of an earlier branch, and
  of one a jump may leave if the next branch can start with it, which is why the body of a `begin` must be
  marked as jumping.  One lemma says what each kind of step does to all this (`AddAlive` an assignment, `EnterAlive`,
  `TurnAlive`, `LeaveAlive`, `ScopeAlive`, `PopAlive`), and `StaysAlive` puts them together.
  `RaisedCorrect` needs two more invariants.  `PlacedInv` (`StaysInPlace`) says where the walk can stand: there is a
  construct for each scope, the branches in a block are younger than the block, those of inner scopes come last, whoever stands
  right in the body of a `begin` is on a branch that a jump may leave (`Straightly`, `Jumpy`), and the variable of a scope no
  block uses was last assigned in front of the blocks in it.  `RaisedInv` (`StaysRaised`) says of every value
  that an exception may still carry to a read (`flow.raised`, and what is `Held` by a construct
  around the walk) that it is in reach and is either `Settled`, that is marked, captured and not
  overwritten, or one of `Hidden`, or else `Thrown`: the branch of its assignment excludes neither the walk's nor that
  of a scope around it, and every later assignment is on a branch that the walk has left, or may not run.
  The typical step is an assignment in a `begin`: what an exception may take along is judged from where the `begin` stands, and
  the new assignment is on a branch that is left there (`NewLeft`), or on none, in a block, and then what it hides is in
  `Hidden` (`AddsSettled`).  `ThrownIsReached`: a read marks such a value unless it is `Skipped`, for the walk back stops only at an
  assignment on the read's own branch or behind one on the same branch, and a body that a jump may leave stops nothing.
  `AroundCorrect` needs two more again.  In `flow` the offset of a loop or block stands for the values an earlier run
  of it left, so the question is which assignments an iteration may still get once that offset is seen.
  `TrackedInv` (`StaysTracked`) says that what the loop found at its start and its offset come and go `Together`, in `flow` and in
  every flow a construct inside puts aside, and that nothing older than the loop gets in otherwise (`Older`).  `AroundInv`
  (`StaysAround`) says that once a read has seen the offset, `x` is read in the loop and all the loop found at its start
  is `Settled` (`LoopsSeen`): the read that saw the one saw the other, and `LiveInv` and `RaisedInv` say what such a read marks.
  So at the end of the loop only its own assignments are left to mark, and those `mark_loop_back_edges` marks, but for
  `Sequential`.  At the end of a block nothing is marked: its variable is one of an outer scope (a block with an
  `x` of its own is `own`, and no other run can see that), and every assignment to it in there is captured (`Late`).
* **CopState.**  The three properties are inductive together with `BaseOK` (the run's configuration stays
  where it is), `JobOK` (a file without a nested configuration is given that one) and `ContextsOK` (what is cached
  is of a text that lay where the key says and was as long).
* **Directives.**  `TypeCorrect`, `SuppressedCorrect`, `ReportedCorrect` and `RedundantReported` hold
  for any names, registry, comments and offences.  `IInv` relates the three copies of what a comment
  does.  `DirectivesOK`: each directive is of one disable in `written`.  `OpenOK`: an open directive reaches
  everything below it.  `ClosedOK`: a closed one reaches all its lines, and while reading none of
  them is below the last comment, which is why no later enable can cut into it.  `RangesOK`: every range
  is that of a closed directive.  `ReachedOK`, the converse: every line a comment reaches is in a
  range or below an open directive of its key, also when a repeated disable took over from an
  earlier one.  The lemma `ReachesFollows` says what one more comment does to `Reaches`.

Model-checked only: the liveness properties (`RunTerminates` and `Terminates`), which are outside what the
prover supports, as is ENABLED.  Every safety property of a passing run is stated by a theorem.  The `TypeOK` of every
module is proved, and of `ResultCache` and `GemLock` (`LockTypeOK`) checked too.  The
installed provers cannot instantiate the library's induction theorems, so nothing about recursively defined data
is proved either; these modules need none, and none declares a RECURSIVE operator.  The violated
properties are TLC's.

## What is not modelled, and the plan

In the order in which it is worth doing:

1. `VariableForce`: `retry`, `for`, parameters, multiple and operator assignment.
2. `Corrections` in place of the oracle `edit` of `Autocorrect`.
3. Configuration: inheritance, enablement, `--only` and `--except`, per-directory overrides.
4. Code map and node patterns, as pure functions.

Theorems worth proving next: that the muted offences of `Autocorrect` are those `Directives` suppresses;
that the parallel run with the cache reports what one without it would (`RunLinter` composed with `CachedIsUncached`).

The cops themselves are not modelled: each is a pure function of a syntax tree, better served by the
repository's tests against RuboCop.  Formatters, migrate, doctor, rules, verify, discovery and the
schema parser are input and output around pure functions.  The gem wrapper, benchmarks, fuzzing
and scripts are tooling.
