----------------------------- MODULE RunLinter -----------------------------
(***************************************************************************)
(* The parallel loop of one nitrocop run (run_linter in src/linter.rs) and *)
(* the exit code made of its report (run in src/lib.rs): rayon workers     *)
(* take the files in any order, --fail-fast shares one relaxed atomic      *)
(* flag, and the process exits when every file has been taken care of.     *)
(* The names of its formulas start with Run, to be told from those of      *)
(* Autocorrect, which details lint_file: their proofs share a module.      *)
(***************************************************************************)
EXTENDS Naturals

CONSTANTS
  Workers,  \* rayon's threads
  Files,    \* effective_discovered.files
  Nothing   \* no file, no worker, no exit code

ASSUME RunConstantsOK ==
  /\ Nothing \notin Files
  /\ Nothing \notin Workers
  /\ Nothing \notin Nat
  /\ Workers # {}

VARIABLES
  failFast,   \* args.fail_fast
  failLevel,  \* args.fail_level
  strict,     \* --strict is given and strict_check_fails
  worst,      \* worst[f]: the highest severity lint_file reports for f, Clean if it
              \* reports nothing (an unreadable file is one of those)
  out,        \* out[f]: "todo", "running", "skipped" or "linted"
  job,        \* job[w]: the file worker w is in lint_file with
  by,         \* by[f]: the worker that linted f (history)
  found,      \* found_offense
  sees,       \* sees[w]: w has read or written TRUE in found_offense, and by
              \* coherence can read nothing else from then on
  exit        \* the exit code

runVars == <<failFast, failLevel, strict, worst, out, job, by, found, sees, exit>>
args == <<failFast, failLevel, strict, worst>>

Clean == 0
Convention == 1
Severities == Convention .. 4  \* convention < warning < error < fatal

RunTypeOK ==
  /\ failFast \in BOOLEAN
  /\ failLevel \in Severities
  /\ strict \in BOOLEAN
  /\ worst \in [Files -> Severities \union {Clean}]
  /\ out \in [Files -> {"todo", "running", "skipped", "linted"}]
  /\ job \in [Workers -> Files \union {Nothing}]
  /\ by \in [Files -> Workers \union {Nothing}]
  /\ found \in BOOLEAN
  /\ sees \in [Workers -> BOOLEAN]
  /\ exit \in {0, 1, 2, Nothing}

RunInit ==
  /\ failFast \in BOOLEAN
  /\ failLevel \in Severities
  /\ strict \in BOOLEAN
  /\ worst \in [Files -> Severities \union {Clean}]
  /\ out = [f \in Files |-> "todo"]
  /\ job = [w \in Workers |-> Nothing]
  /\ by = [f \in Files |-> Nothing]
  /\ found = FALSE
  /\ sees = [w \in Workers |-> FALSE]
  /\ exit = Nothing

\* The worker w is free to take the file f.
Takes(w, f) == job[w] = Nothing /\ out[f] = "todo"

\* The worker waits for the flag to go down instead of passing over the file.
SkipRequeues(w, f) ==
  /\ Takes(w, f)
  /\ failFast
  /\ found
  /\ sees' = [sees EXCEPT ![w] = TRUE]
  /\ UNCHANGED <<args, out, job, by, found, exit>>
\* found_offense.load(Relaxed) is TRUE: the file is not looked at.
Skip(w, f) ==
  /\ Takes(w, f)
  /\ failFast
  /\ found
  /\ out' = [out EXCEPT ![f] = "skipped"]
  /\ sees' = [sees EXCEPT ![w] = TRUE]
  /\ UNCHANGED <<args, job, by, found, exit>>

\* lint_file begins whatever the flag says.
StartUnchecked(w, f) ==
  /\ Takes(w, f)
  /\ out' = [out EXCEPT ![f] = "running"]
  /\ job' = [job EXCEPT ![w] = f]
  /\ UNCHANGED <<args, by, found, sees, exit>>
\* There is no --fail-fast, or the load returns FALSE, which it still may when
\* another worker has stored TRUE: lint_file begins.
Start(w, f) ==
  /\ Takes(w, f)
  /\ ~(failFast /\ sees[w])
  /\ out' = [out EXCEPT ![f] = "running"]
  /\ job' = [job EXCEPT ![w] = f]
  /\ UNCHANGED <<args, by, found, sees, exit>>

\* Every file that was linted raises the flag.
FinishAlwaysRaises(w, f) ==
  /\ job[w] = f
  /\ out' = [out EXCEPT ![f] = "linted"]
  /\ job' = [job EXCEPT ![w] = Nothing]
  /\ by' = [by EXCEPT ![f] = w]
  /\ found' = (found \/ failFast)
  /\ sees' = [sees EXCEPT ![w] = sees[w] \/ failFast]
  /\ UNCHANGED <<args, exit>>
\* lint_file returns; a file with diagnostics raises the flag under --fail-fast.
Finish(w, f) ==
  LET raise == failFast /\ worst[f] # Clean IN
  /\ job[w] = f
  /\ out' = [out EXCEPT ![f] = "linted"]
  /\ job' = [job EXCEPT ![w] = Nothing]
  /\ by' = [by EXCEPT ![f] = w]
  /\ found' = (found \/ raise)
  /\ sees' = [sees EXCEPT ![w] = sees[w] \/ raise]
  /\ UNCHANGED <<args, exit>>

\* The files with diagnostics in LintResult.
Reported == {f \in Files : out[f] = "linted" /\ worst[f] # Clean}

\* A strict failure comes first.
CodeStrictFirst(files) ==
  IF strict THEN 2
  ELSE IF \E f \in files : worst[f] >= failLevel THEN 1 ELSE 0
\* run: an offence at the fail level comes before a strict failure.
Code(files) ==
  IF \E f \in files : worst[f] >= failLevel THEN 1 ELSE IF strict THEN 2 ELSE 0

\* collect has every file's diagnostics: they are printed and the process exits.
Exit ==
  /\ exit = Nothing
  /\ \A f \in Files : out[f] \in {"skipped", "linted"}
  /\ exit' = Code(Reported)
  /\ UNCHANGED <<args, out, job, by, found, sees>>

Worker(w) == \E f \in Files : Skip(w, f) \/ Start(w, f) \/ Finish(w, f)

RunNext == (\E w \in Workers : Worker(w)) \/ Exit

\* A rayon worker with something to do is not stopped, lint_file returns, and
\* the main thread leaves collect when it can.
Fairness == (\A w \in Workers : WF_runVars(Worker(w))) /\ WF_runVars(Exit)

RunSpec == RunInit /\ [][RunNext]_runVars
RunFairSpec == RunSpec /\ Fairness

-----------------------------------------------------------------------------

\* A run that reports nothing has linted every file: --fail-fast never skips a
\* file on account of a flag nobody with an offence has raised.
CleanMeansAllLinted ==
  exit # Nothing /\ Reported = {} => \A f \in Files : out[f] = "linted"

\* Under --fail-fast a worker reports at most one file, however stale the loads
\* of the others: it stops at the first offence it finds itself.
OneReportPerWorker ==
  failFast => \A f, g \in Reported : by[f] = by[g] => f = g

\* The exit code says whether some file has an offence at the fail level, for any
\* order of the workers; with --fail-fast, as long as every offence is at that level.
\* Without --fail-fast it is the code a sequential run over all files would give.
ExitCodeIsTheVerdict ==
  /\ exit # Nothing /\ ~failFast => exit = Code(Files)
  /\ exit # Nothing /\ failLevel = Convention
       => (exit = 1 <=> \E f \in Files : worst[f] # Clean)

\* Every run ends.
RunTerminates == <>(exit # Nothing)
=============================================================================
