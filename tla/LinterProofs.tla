--------------------------- MODULE LinterProofs ----------------------------
(***************************************************************************)
(* The safety properties of the two loops of src/linter.rs, which share no *)
(* state: the parallel one over the files, RunLinter, for any number of    *)
(* threads and files, and the one that corrects a file, Autocorrect, for   *)
(* any texts, cops, settings and number of iterations, and any answers of  *)
(* Prism and the cops.                                                     *)
(***************************************************************************)
EXTENDS RunLinter, Autocorrect, TLAPS

-----------------------------------------------------------------------------
(* The run over the files: its inductive invariant.                        *)

\* The flag is up only under --fail-fast and because somebody has reported a file;
\* nobody has seen it up, or passed over a file, before.
FlagIsJustified ==
  /\ found => failFast /\ Reported # {}
  /\ \A w \in Workers : sees[w] => found
  /\ \A f \in Files : out[f] = "skipped" => found

\* Under --fail-fast the worker that reported a file has seen the flag up, and no
\* worker that has is in lint_file.
ReportersHaveStopped ==
  failFast =>
    /\ \A f \in Reported : sees[by[f]]
    /\ \A w \in Workers : job[w] # Nothing => ~sees[w]

\* Who is linted was linted by a worker; who is being linted is not passed over.
JobsAreTaken ==
  /\ \A f \in Files : out[f] = "linted" => by[f] \in Workers
  /\ \A w \in Workers : job[w] # Nothing => out[job[w]] \in {"running", "linted"}

\* The exit code is that of the report, and the report is complete.
ExitIsFinal ==
  exit # Nothing =>
    /\ \A f \in Files : out[f] \in {"skipped", "linted"}
    /\ exit = Code(Reported)

RunInv ==
  /\ RunTypeOK
  /\ FlagIsJustified
  /\ ReportersHaveStopped
  /\ JobsAreTaken
  /\ OneReportPerWorker
  /\ ExitIsFinal

-----------------------------------------------------------------------------

\* No worker has done anything yet.
LEMMA RunInitEstablishes == RunInit => RunInv
<1> SUFFICES ASSUME RunInit PROVE RunInv
  OBVIOUS
<1> USE RunConstantsOK DEF RunInit
<1>1. RunTypeOK
  BY DEF RunTypeOK
<1>2. Reported = {}
  BY DEF Reported
<1>3. FlagIsJustified /\ ReportersHaveStopped /\ JobsAreTaken
  BY <1>2 DEF FlagIsJustified, ReportersHaveStopped, JobsAreTaken
<1>4. OneReportPerWorker /\ ExitIsFinal
  BY <1>2 DEF OneReportPerWorker, ExitIsFinal
<1> QED
  BY <1>1, <1>3, <1>4 DEF RunInv

\* A file is passed over on account of the flag: somebody has reported one.
LEMMA SkipKeeps ==
  ASSUME RunInv, NEW w \in Workers, NEW f \in Files, Skip(w, f)
  PROVE  RunInv'
<1> USE RunConstantsOK DEF RunInv, Skip, Takes, args
<1>1. RunTypeOK'
  BY DEF RunTypeOK
<1>2. Reported' = Reported
  BY DEF Reported, RunTypeOK
<1>3. FlagIsJustified'
  BY <1>2 DEF FlagIsJustified, RunTypeOK
<1>4. ReportersHaveStopped'
  BY <1>2 DEF ReportersHaveStopped, RunTypeOK, Reported, JobsAreTaken
<1>5. JobsAreTaken'
  BY DEF JobsAreTaken, RunTypeOK
<1>6. OneReportPerWorker'
  BY <1>2 DEF OneReportPerWorker
<1>7. ExitIsFinal'
  BY DEF ExitIsFinal
<1> QED
  BY <1>1, <1>3, <1>4, <1>5, <1>6, <1>7

\* A worker that has not seen the flag up goes into lint_file.
LEMMA StartKeeps ==
  ASSUME RunInv, NEW w \in Workers, NEW f \in Files, Start(w, f)
  PROVE  RunInv'
<1> USE RunConstantsOK DEF RunInv, Start, Takes, args
<1>1. RunTypeOK'
  BY DEF RunTypeOK
<1>2. Reported' = Reported
  BY DEF Reported, RunTypeOK
<1>3. FlagIsJustified'
  BY <1>2 DEF FlagIsJustified, RunTypeOK
<1>4. ReportersHaveStopped'
  BY <1>2 DEF ReportersHaveStopped, RunTypeOK, Reported
<1>5. JobsAreTaken'
  BY DEF JobsAreTaken, RunTypeOK
<1>6. OneReportPerWorker'
  BY <1>2 DEF OneReportPerWorker
<1>7. ExitIsFinal'
  BY DEF ExitIsFinal
<1> QED
  BY <1>1, <1>3, <1>4, <1>5, <1>6, <1>7

\* A worker that reports a file raises the flag, and had reported none before.
LEMMA FinishKeeps ==
  ASSUME RunInv, NEW w \in Workers, NEW f \in Files, Finish(w, f)
  PROVE  RunInv'
<1> USE RunConstantsOK DEF RunInv, Finish, args
<1> DEFINE raise == failFast /\ worst[f] # Clean
<1>1. RunTypeOK'
  BY DEF RunTypeOK
<1>2. /\ out' = [out EXCEPT ![f] = "linted"]
      /\ by' = [by EXCEPT ![f] = w]
      /\ job' = [job EXCEPT ![w] = Nothing]
      /\ found' = (found \/ raise)
      /\ sees' = [sees EXCEPT ![w] = sees[w] \/ raise]
      /\ worst' = worst /\ failFast' = failFast
      /\ job[w] = f /\ f # Nothing
  OBVIOUS
<1>3. Reported' = IF worst[f] # Clean THEN Reported \union {f} ELSE Reported
  BY <1>2 DEF Reported, RunTypeOK
<1>4. FlagIsJustified'
  BY <1>2, <1>3 DEF FlagIsJustified, RunTypeOK
<1>5. failFast => ~sees[w]
  BY <1>2 DEF ReportersHaveStopped
<1>6. failFast => \A g \in Reported : by[g] # w
  BY <1>5 DEF ReportersHaveStopped
<1>7. ReportersHaveStopped'
  <2> SUFFICES ASSUME failFast PROVE ReportersHaveStopped'
    BY <1>2 DEF ReportersHaveStopped
  <2>1. ASSUME NEW g \in Reported' PROVE sees'[by'[g]]
    <3>1. CASE g = f
      BY <1>2, <1>3, <3>1 DEF RunTypeOK, Reported
    <3>2. CASE g # f
      BY <1>2, <1>3, <3>2 DEF RunTypeOK, ReportersHaveStopped, Reported, JobsAreTaken
    <3> QED
      BY <3>1, <3>2
  <2>2. ASSUME NEW v \in Workers, job'[v] # Nothing PROVE ~sees'[v]
    BY <1>2, <2>2 DEF RunTypeOK, ReportersHaveStopped
  <2> QED
    BY <2>1, <2>2 DEF ReportersHaveStopped
<1>8. JobsAreTaken'
  BY <1>2 DEF JobsAreTaken, RunTypeOK
<1>9. OneReportPerWorker'
  <2> SUFFICES ASSUME failFast, NEW g \in Reported', NEW h \in Reported', by'[g] = by'[h]
               PROVE  g = h
    BY <1>2 DEF OneReportPerWorker
  <2> QED
    BY <1>2, <1>3, <1>6 DEF OneReportPerWorker, RunTypeOK, Reported
<1>10. ExitIsFinal'
  <2> SUFFICES ASSUME exit # Nothing PROVE ExitIsFinal'
    BY DEF ExitIsFinal
  <2>1. out[f] = "linted"
    BY <1>2 DEF ExitIsFinal, JobsAreTaken
  <2>2. out' = out
    BY <1>2, <2>1 DEF RunTypeOK
  <2> QED
    BY <1>2, <2>2 DEF ExitIsFinal, Reported, Code
<1> QED
  BY <1>1, <1>4, <1>7, <1>8, <1>9, <1>10

\* The exit code is made when every file has been taken care of.
LEMMA ExitKeeps == RunInv /\ Exit => RunInv'
<1> SUFFICES ASSUME RunInv, Exit PROVE RunInv'
  OBVIOUS
<1> USE DEF RunInv, Exit, args
<1>1. Code(Reported) \in {0, 1, 2}
  BY DEF Code
<1>2. RunTypeOK'
  BY <1>1 DEF RunTypeOK
<1>3. Reported' = Reported /\ Code(Reported)' = Code(Reported)
  BY DEF Reported, Code
<1>4. FlagIsJustified' /\ ReportersHaveStopped' /\ JobsAreTaken'
  BY <1>3 DEF FlagIsJustified, ReportersHaveStopped, JobsAreTaken
<1>5. OneReportPerWorker'
  BY <1>3 DEF OneReportPerWorker
<1>6. ExitIsFinal'
  BY <1>3 DEF ExitIsFinal
<1> QED
  BY <1>2, <1>4, <1>5, <1>6

\* RunInv is an invariant of the loop.
THEOREM RunInvariance == RunSpec => []RunInv
<1>1. RunInv /\ [RunNext]_runVars => RunInv'
  <2> SUFFICES ASSUME RunInv, [RunNext]_runVars PROVE RunInv'
    OBVIOUS
  <2>1. CASE \E w \in Workers : Worker(w)
    BY <2>1, SkipKeeps, StartKeeps, FinishKeeps DEF Worker
  <2>2. CASE Exit
    BY <2>2, ExitKeeps
  <2>3. CASE UNCHANGED runVars
    BY <2>3 DEF runVars, RunInv, RunTypeOK, FlagIsJustified, ReportersHaveStopped, JobsAreTaken,
                OneReportPerWorker, ExitIsFinal, Reported, Code
  <2> QED
    BY <2>1, <2>2, <2>3 DEF RunNext
<1> QED
  BY RunInitEstablishes, <1>1, PTL DEF RunSpec

\* Every variable has its type in every reachable state.
THEOREM RunTypeCorrect == RunSpec => []RunTypeOK
BY RunInvariance, PTL DEF RunInv

\* --fail-fast: no worker, whatever stale loads the others make, reports two files.
THEOREM ReportsAreFew == RunSpec => []OneReportPerWorker
BY RunInvariance, PTL DEF RunInv

\* A run that reports nothing has linted every file, whatever the order and the loads.
THEOREM CleanIsComplete == RunSpec => []CleanMeansAllLinted
<1>1. RunInv => CleanMeansAllLinted
  BY DEF RunInv, CleanMeansAllLinted, ExitIsFinal, FlagIsJustified
<1> QED
  BY RunInvariance, <1>1, PTL

\* The exit code does not depend on the order of the workers: without --fail-fast it
\* is the sequential one, with it the verdict is the same if every offence counts.
THEOREM VerdictCorrect == RunSpec => []ExitCodeIsTheVerdict
<1>1. RunInv => ExitCodeIsTheVerdict
  <2> SUFFICES ASSUME RunInv, exit # Nothing PROVE ExitCodeIsTheVerdict
    BY DEF ExitCodeIsTheVerdict
  <2>1. exit = Code(Reported) /\ \A f \in Files : out[f] \in {"skipped", "linted"}
    BY DEF RunInv, ExitIsFinal
  <2>2. \A f \in Files : worst[f] \in Severities \union {Clean}
    BY DEF RunInv, RunTypeOK
  <2>3. failLevel \in Severities
    BY DEF RunInv, RunTypeOK
  <2>4. CASE ~failFast
    <3>1. \A f \in Files : out[f] = "linted"
      BY <2>1, <2>4 DEF RunInv, FlagIsJustified
    <3>2. Code(Reported) = Code(Files)
      BY <2>2, <2>3, <3>1 DEF Code, Reported, Clean, Severities, Convention
    <3>3. failLevel = Convention => (exit = 1 <=> \E f \in Files : worst[f] # Clean)
      BY <2>1, <2>2, <3>2 DEF Code, Clean, Severities, Convention
    <3> QED
      BY <2>1, <3>2, <3>3 DEF ExitCodeIsTheVerdict
  <2>5. CASE failFast
    <3> SUFFICES ASSUME failLevel = Convention
                 PROVE  exit = 1 <=> \E f \in Files : worst[f] # Clean
      BY <2>5 DEF ExitCodeIsTheVerdict
    <3>1. exit = 1 <=> Reported # {}
      BY <2>1, <2>2 DEF Code, Reported, Clean, Severities, Convention
    <3>2. (\E f \in Files : worst[f] # Clean) <=> Reported # {}
      BY <2>1 DEF RunInv, FlagIsJustified, Reported
    <3> QED
      BY <3>1, <3>2
  <2> QED
    BY <2>4, <2>5
<1> QED
  BY RunInvariance, <1>1, PTL

-----------------------------------------------------------------------------
(* The loop over one file: its inductive invariant.                        *)

\* After the read there is a text to work on; before the loop ends it has no outcome.
LoopOK ==
  /\ phase \in {"loop", "returned", "writing", "done"}
       => original \in Texts /\ current \in Texts
  /\ phase = "start" => disk \in Texts
  /\ phase \in {"start", "loop"} => outcome = None /\ bytes = None
  /\ phase = "writing" => bytes # None

\* Bytes that are returned are the last text, not the first, and Prism accepts them.
BytesOK ==
  bytes # None => bytes = current /\ bytes # original /\ syntax[bytes] = "clean"

\* The loop converges on a text without corrections, and reports that text.
ConvergedOK ==
  outcome = "converged" => Collected(current) = {} /\ remaining = Unmarked(current)

\* The file changes when it is written, and if all goes well to the bytes returned.
DiskOK ==
  ~saved =>
    /\ phase \in {"loop", "returned"} => disk = original
    /\ phase = "done" /\ ~failed => disk = IF bytes = None THEN original ELSE bytes

IInv ==
  /\ TypeOK
  /\ LoopOK
  /\ BytesOK
  /\ ConvergedOK
  /\ DiskOK
  /\ SafeModeIsAllowlisted

-----------------------------------------------------------------------------

\* Nothing has been read.
LEMMA InitEstablishes == Init => IInv
<1> SUFFICES ASSUME Init PROVE IInv
  OBVIOUS
<1> USE ConstantsOK DEF Init
<1>1. TypeOK
  <2>1. passes \in 0 .. MaxIterations /\ disk \in Texts
    OBVIOUS
  <2>2. saved \in BOOLEAN /\ failed \in BOOLEAN
    OBVIOUS
  <2>3. /\ mode \in {"safe", "all"}
        /\ syntax \in [Texts -> {"clean", "semantic", "structural"}]
        /\ offends \in [Texts -> SUBSET Cops]
        /\ edit \in [Texts -> Texts]
    OBVIOUS
  <2> QED
    BY <2>1, <2>2, <2>3 DEF TypeOK
<1>2. LoopOK /\ BytesOK /\ DiskOK
  BY DEF LoopOK, BytesOK, DiskOK
<1>3. ConvergedOK
  BY DEF ConvergedOK
<1>4. SafeModeIsAllowlisted
  BY DEF SafeModeIsAllowlisted
<1> QED
  BY <1>1, <1>2, <1>3, <1>4 DEF IInv

\* What a pass yields depends on the oracle alone.
LEMMA PassIsDetermined ==
  ASSUME UNCHANGED oracle, NEW t
  PROVE  /\ Collected(t)' = Collected(t)
         /\ Marked(t)' = Marked(t)
         /\ Unmarked(t)' = Unmarked(t)
BY DEF oracle, Collected, Marked, Unmarked, Finds, Invited, ShouldAutocorrect, Listed

\* The diagnostics of a pass are cops, and the corrections are, under -a, of
\* allowlisted ones.
LEMMA PassIsOfCops ==
  ASSUME TypeOK, NEW t \in Texts
  PROVE  /\ Collected(t) \subseteq Cops
         /\ Marked(t) \subseteq Cops
         /\ Unmarked(t) \subseteq Cops
         /\ Finds(t) \ Muted \subseteq Cops
         /\ mode = "safe" => Collected(t) \subseteq Allowlist
BY DEF TypeOK, Collected, Marked, Unmarked, Finds, Listed, Invited

\* The file is read: the loop works on what it holds.
LEMMA ReadKeeps == IInv /\ Read => IInv'
<1> SUFFICES ASSUME IInv, Read PROVE IInv'
  OBVIOUS
<1> USE ConstantsOK DEF IInv, Read
<1>0. disk \in Texts
  BY DEF LoopOK
<1>1. TypeOK'
  BY <1>0 DEF TypeOK, oracle
<1>2. LoopOK' /\ BytesOK'
  BY <1>0 DEF LoopOK, BytesOK
<1>3. ConvergedOK' /\ DiskOK'
  BY DEF LoopOK, ConvergedOK, DiskOK
<1>4. SafeModeIsAllowlisted'
  BY DEF SafeModeIsAllowlisted, oracle
<1> QED
  BY <1>1, <1>2, <1>3, <1>4

\* The loop ends, on the text it has or on none, and no correction is applied any more.
LEMMA ReturnKeeps ==
  ASSUME IInv, phase = "loop",
         NEW e \in {"converged", "bailed", "exhausted"},
         NEW b \in {None, Validate(current)},
         NEW rest \in SUBSET Cops,
         Return(e, b, rest),
         UNCHANGED <<current, passes, applied>>,
         corrected' \subseteq Cops,
         e = "converged" => Collected(current) = {} /\ rest = Unmarked(current)
  PROVE  IInv'
<1> USE ConstantsOK DEF IInv
<1>1. /\ phase' = "returned" /\ outcome' = e /\ bytes' = b /\ remaining' = rest
      /\ disk' = disk /\ original' = original /\ saved' = saved /\ failed' = failed
      /\ UNCHANGED oracle
  BY DEF Return
<1>2. original \in Texts /\ current \in Texts
  BY DEF LoopOK
<1>3. b = None \/ (b = current /\ b # original /\ syntax[b] = "clean")
  BY DEF Validate
<1>4. TypeOK'
  BY <1>1, <1>2, <1>3 DEF TypeOK, oracle
<1>5. LoopOK'
  BY <1>1, <1>2 DEF LoopOK
<1>6. BytesOK'
  BY <1>1, <1>3 DEF BytesOK, oracle
<1>7. ConvergedOK'
  BY <1>1, PassIsDetermined DEF ConvergedOK
<1>8. DiskOK'
  BY <1>1 DEF DiskOK
<1>9. SafeModeIsAllowlisted'
  BY <1>1 DEF SafeModeIsAllowlisted, oracle
<1> QED
  BY <1>4, <1>5, <1>6, <1>7, <1>8, <1>9

\* The three ends of the loop.
LEMMA EndKeeps == IInv /\ (Converge \/ Bail \/ Exhaust) => IInv'
<1> SUFFICES ASSUME IInv, Converge \/ Bail \/ Exhaust PROVE IInv'
  OBVIOUS
<1>1. phase = "loop" /\ TypeOK /\ current \in Texts
  BY DEF IInv, LoopOK, Converge, Bail, Exhaust
<1>2. CASE Converge
  BY <1>1, <1>2, PassIsOfCops, ReturnKeeps DEF Converge, TypeOK
<1>3. CASE Bail
  BY <1>1, <1>3, PassIsOfCops, ReturnKeeps DEF Bail, TypeOK
<1>4. CASE Exhaust
  BY <1>1, <1>4, PassIsOfCops, ReturnKeeps DEF Exhaust, TypeOK
<1> QED
  BY <1>2, <1>3, <1>4

\* A pass that changes the text: under -a it applied allowlisted corrections.
LEMMA CorrectKeeps == IInv /\ Correct => IInv'
<1> SUFFICES ASSUME IInv, Correct PROVE IInv'
  OBVIOUS
<1> USE ConstantsOK DEF IInv, Correct
<1>1. current \in Texts
  BY DEF LoopOK
<1>2. /\ Marked(current) \subseteq Cops
      /\ Collected(current) \subseteq Cops
      /\ mode = "safe" => Collected(current) \subseteq Allowlist
  BY <1>1, PassIsOfCops
<1>3. TypeOK'
  BY <1>1, <1>2 DEF TypeOK, oracle
<1>4. LoopOK' /\ BytesOK'
  BY <1>1 DEF LoopOK, BytesOK, TypeOK
<1>5. ConvergedOK' /\ DiskOK'
  BY DEF LoopOK, ConvergedOK, DiskOK
<1>6. SafeModeIsAllowlisted'
  BY <1>2 DEF SafeModeIsAllowlisted, oracle
<1> QED
  BY <1>3, <1>4, <1>5, <1>6

\* The file is written or not, the process killed, the file saved by its user.
LEMMA FileKeeps ==
  ASSUME IInv,
         Keep \/ Truncate \/ Write \/ WriteFails \/ Crash \/ \E t \in Texts : Save(t)
  PROVE  IInv'
<1> USE ConstantsOK DEF IInv, Keep, Truncate, Write, WriteFails, Crash, Save
<1>1. UNCHANGED <<oracle, loop>>
  BY DEF loop
<1>2. TypeOK'
  BY <1>1 DEF TypeOK, LoopOK, oracle, loop
<1>3. LoopOK' /\ BytesOK'
  BY <1>1 DEF LoopOK, BytesOK, oracle, loop
<1>4. ConvergedOK'
  BY <1>1, PassIsDetermined DEF ConvergedOK, loop
<1>5. DiskOK'
  BY <1>1 DEF DiskOK, LoopOK, loop
<1>6. SafeModeIsAllowlisted'
  BY <1>1 DEF SafeModeIsAllowlisted, oracle, loop
<1> QED
  BY <1>2, <1>3, <1>4, <1>5, <1>6

\* Nothing happens.
LEMMA StutterKeeps == IInv /\ UNCHANGED vars => IInv'
<1> SUFFICES ASSUME IInv, UNCHANGED vars PROVE IInv'
  OBVIOUS
<1>1. UNCHANGED oracle
  BY DEF vars
<1> QED
  BY <1>1, PassIsDetermined
  DEF vars, loop, oracle, IInv, TypeOK, LoopOK, BytesOK, ConvergedOK, DiskOK,
      SafeModeIsAllowlisted

\* IInv is an invariant of the run over a file.
THEOREM Invariance == Spec => []IInv
<1>1. IInv /\ [Next]_vars => IInv'
  BY ReadKeeps, EndKeeps, CorrectKeeps, FileKeeps, StutterKeeps DEF Next, Nitrocop
<1> QED
  BY InitEstablishes, <1>1, PTL DEF Spec

\* Every variable has its type in every reachable state.
THEOREM TypeCorrect == Spec => []TypeOK
BY Invariance, PTL DEF IInv

\* A file never gets the bytes it held when it was read, however the passes went.
THEOREM NothingIsRewritten == Spec => []UnchangedFileIsNotRewritten
<1>1. IInv => UnchangedFileIsNotRewritten
  BY DEF IInv, LoopOK, BytesOK, UnchangedFileIsNotRewritten
<1> QED
  BY Invariance, <1>1, PTL

\* What is written is Ruby without errors, whatever the oracle answers.
THEOREM WrittenIsValid == Spec => OnlyValidRubyIsWritten
<1> DEFINE Valid ==
      phase = "writing" /\ phase' = "done" /\ ~failed'
        => disk' \in Texts /\ syntax[disk'] = "clean"
<1>1. IInv /\ [Next]_vars => [Valid]_vars
  <2> SUFFICES ASSUME IInv, Next, phase = "writing", phase' = "done", ~failed'
               PROVE  disk' \in Texts /\ syntax[disk'] = "clean"
    OBVIOUS
  <2>1. Write
    BY DEF Next, Nitrocop, Read, Converge, Bail, Correct, Exhaust, Return, Keep, Truncate,
           WriteFails, Crash, Save
  <2> QED
    BY <2>1 DEF Write, IInv, TypeOK, LoopOK, BytesOK
<1> QED
  BY Invariance, <1>1, PTL DEF Spec, OnlyValidRubyIsWritten

\* A second run over a file that was written after convergence collects nothing.
THEOREM SecondRunCorrect == Spec => []SecondRunIsIdle
<1>1. IInv => SecondRunIsIdle
  BY DEF IInv, BytesOK, ConvergedOK, SecondRunIsIdle
<1> QED
  BY Invariance, <1>1, PTL

\* The uncorrected offences of the report are those of the file the run leaves.
THEOREM ReportCorrect == Spec => []ReportIsOfTheFile
<1>1. IInv => ReportIsOfTheFile
  BY DEF IInv, BytesOK, ConvergedOK, DiskOK, ReportIsOfTheFile
<1> QED
  BY Invariance, <1>1, PTL

\* -a never applies a correction of a cop that is not allowlisted.
THEOREM SafeModeCorrect == Spec => []SafeModeIsAllowlisted
BY Invariance, PTL DEF IInv
=============================================================================
