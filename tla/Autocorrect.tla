---------------------------- MODULE Autocorrect ----------------------------
(***************************************************************************)
(* One file under -a or -A: lint_file and the iteration loop of            *)
(* lint_source_inner in src/linter.rs, with the file on disk, a user who   *)
(* may save it meanwhile, and a process that may be killed.                *)
(*                                                                         *)
(* Prism and the cops are an oracle fixed in the initial state: what       *)
(* errors a text has, which cops find something in it, and which text the  *)
(* corrections of one pass make of it.  A cop stands for its offences.     *)
(***************************************************************************)
EXTENDS Naturals

CONSTANTS
  Texts,          \* what the file can hold
  Cops,           \* those that can correct
  Walkers,        \* cops that correct in check_node, from the AST walk; the others
                  \* do in check_lines or check_source
  Allowlist,      \* autocorrect_safe_allowlist.json
  Unsafe,         \* Safe: false or SafeAutoCorrect: false
  Disabled,       \* AutoCorrect: false
  Muted,          \* offences under a rubocop:disable comment
  MaxIterations,  \* MAX_ITERATIONS
  None,           \* nothing read, nothing to write
  Torn            \* a file truncated or half written

ASSUME ConstantsOK ==
  /\ Walkers \subseteq Cops
  /\ MaxIterations \in Nat
  /\ None \notin Texts \union {"converged", "bailed", "exhausted"}
  /\ Torn \notin Texts \union {None}

VARIABLES
  mode,       \* "safe" (-a) or "all" (-A)
  syntax,     \* syntax[t]: Prism's verdict: "clean", "semantic" errors only, "structural"
  offends,    \* offends[t]: the cops that find an offence in t
  edit,       \* edit[t]: t with the corrections of a pass over it applied
  disk,       \* what the file holds
  phase,      \* "start", "loop", "returned", "writing", "done" or "dead"
  original,   \* original_bytes
  current,    \* current_bytes
  passes,     \* _iteration
  corrected,  \* the cops in corrected_diags
  remaining,  \* the cops of the other diagnostics returned
  outcome,    \* how the loop ended: None, "converged", "bailed" or "exhausted"
  bytes,      \* the corrected bytes returned, None if there are none
  applied,    \* the cops whose corrections went into a CorrectionSet (history)
  saved,      \* the user saved the file after it was read (history)
  failed      \* the write failed (history)

oracle == <<mode, syntax, offends, edit>>
loop == <<original, current, passes, corrected, remaining, outcome, bytes, applied>>
vars == <<oracle, disk, phase, loop, saved, failed>>

TypeOK ==
  /\ mode \in {"safe", "all"}
  /\ syntax \in [Texts -> {"clean", "semantic", "structural"}]
  /\ offends \in [Texts -> SUBSET Cops]
  /\ edit \in [Texts -> Texts]
  /\ disk \in Texts \union {Torn}
  /\ phase \in {"start", "loop", "returned", "writing", "done", "dead"}
  /\ original \in Texts \union {None}
  /\ current \in Texts \union {None}
  /\ passes \in 0 .. MaxIterations
  /\ corrected \subseteq Cops
  /\ remaining \subseteq Cops
  /\ outcome \in {None, "converged", "bailed", "exhausted"}
  /\ bytes \in Texts \union {None}
  /\ applied \subseteq Cops
  /\ saved \in BOOLEAN
  /\ failed \in BOOLEAN

\* CopConfig::should_autocorrect.
ShouldAutocorrect(c) == c \notin Disabled /\ (mode = "safe" => c \notin Unsafe)

\* The cops that run on t and find something: none if its structure is broken, when
\* Lint/Syntax reports alone.
Finds(t) == IF syntax[t] = "structural" THEN {} ELSE offends[t]

Listed(c) == mode = "safe" => c \in Allowlist

\* The cops that are handed a place for corrections: before the walk each is asked
\* for; in the walk there is one place for all.
Invited(c) == c \in Walkers \/ (ShouldAutocorrect(c) /\ Listed(c))

\* The walk's corrections are taken as they are.
CollectedUnfiltered(t) == {c \in Finds(t) : Invited(c)}
\* lint_source_once: the corrections of a pass over t.  Those of the walk are
\* filtered by the allowlist afterwards.
Collected(t) == {c \in Finds(t) : Invited(c) /\ Listed(c)}

\* Its diagnostics, less what comments disable: those marked corrected, which is up
\* to the cop that was handed a place for corrections, and the others.
Marked(t) == {c \in Finds(t) \ Muted : Invited(c)}
Unmarked(t) == (Finds(t) \ Muted) \ Marked(t)

Init ==
  /\ mode \in {"safe", "all"}
  /\ syntax \in [Texts -> {"clean", "semantic", "structural"}]
  /\ offends \in [Texts -> SUBSET Cops]
  /\ edit \in [Texts -> Texts]
  /\ \A t \in Texts : syntax[t] = "structural" => offends[t] = {}
  /\ \A t \in Texts : Collected(t) = {} => edit[t] = t
  /\ disk \in Texts
  /\ phase = "start"
  /\ original = None
  /\ current = None
  /\ passes = 0
  /\ corrected = {}
  /\ remaining = {}
  /\ outcome = None
  /\ bytes = None
  /\ applied = {}
  /\ saved = FALSE
  /\ failed = FALSE

-----------------------------------------------------------------------------
(* The loop.                                                               *)

\* SourceFile::from_path.
Read ==
  /\ phase = "start"
  /\ phase' = "loop"
  /\ original' = disk
  /\ current' = disk
  /\ UNCHANGED <<oracle, disk, passes, corrected, remaining, outcome, bytes, applied,
                 saved, failed>>

\* The bytes are returned whatever Prism says of them.
ValidateNothing(t) == IF t = original THEN None ELSE t
\* The bytes are returned even if they are those that were read.
ValidateSyntaxOnly(t) == IF syntax[t] # "clean" THEN None ELSE t
\* validate_corrected_bytes.
Validate(t) == IF t = original \/ syntax[t] # "clean" THEN None ELSE t

\* The loop returns the bytes b, having ended as e says; the last pass left rest.
Return(e, b, rest) ==
  /\ phase' = "returned"
  /\ outcome' = e
  /\ bytes' = b
  /\ remaining' = rest
  /\ UNCHANGED <<oracle, disk, original, saved, failed>>

\* The first pass counts as the last.
ConvergeEarly ==
  /\ phase = "loop"
  /\ passes < MaxIterations
  /\ passes > 0 \/ Collected(current) = {}
  /\ corrected' = corrected \union Marked(current)
  /\ Return("converged", Validate(current), Unmarked(current))
  /\ UNCHANGED <<current, passes, applied>>
\* Only what the earlier passes left uncorrected is returned.
ConvergeWithoutLastPass ==
  /\ phase = "loop"
  /\ passes < MaxIterations
  /\ Collected(current) = {}
  /\ corrected' = corrected \union Marked(current)
  /\ Return("converged", Validate(current), Unmarked(original))
  /\ UNCHANGED <<current, passes, applied>>
\* A pass with no corrections is the last one.
Converge ==
  /\ phase = "loop"
  /\ passes < MaxIterations
  /\ Collected(current) = {}
  /\ corrected' = corrected \union Marked(current)
  /\ Return("converged", Validate(current), Unmarked(current))
  /\ UNCHANGED <<current, passes, applied>>

\* Corrections that change nothing: what the earlier passes did is not returned.
Bail ==
  /\ phase = "loop"
  /\ passes < MaxIterations
  /\ Collected(current) # {}
  /\ edit[current] = current
  /\ corrected' = corrected \union Marked(current)
  /\ Return("bailed", None, {})
  /\ UNCHANGED <<current, passes, applied>>

\* The corrected text is linted again, as often as it takes.
CorrectUncounted ==
  /\ phase = "loop"
  /\ passes < MaxIterations
  /\ edit[current] # current
  /\ corrected' = corrected \union Marked(current)
  /\ applied' = applied \union Collected(current)
  /\ current' = edit[current]
  /\ UNCHANGED <<oracle, disk, phase, original, passes, remaining, outcome, bytes,
                 saved, failed>>
\* The corrected text is linted again.
Correct ==
  /\ phase = "loop"
  /\ passes < MaxIterations
  /\ Collected(current) # {}
  /\ edit[current] # current
  /\ corrected' = corrected \union Marked(current)
  /\ applied' = applied \union Collected(current)
  /\ current' = edit[current]
  /\ passes' = passes + 1
  /\ UNCHANGED <<oracle, disk, phase, original, remaining, outcome, bytes, saved, failed>>

\* MAX_ITERATIONS: one more pass, with autocorrection off.
Exhaust ==
  /\ phase = "loop"
  /\ passes = MaxIterations
  /\ Return("exhausted", Validate(current), Finds(current) \ Muted)
  /\ UNCHANGED <<current, passes, corrected, applied>>

-----------------------------------------------------------------------------
(* The file.                                                               *)

\* There is nothing to write.
Keep ==
  /\ phase = "returned"
  /\ bytes = None
  /\ phase' = "done"
  /\ UNCHANGED <<oracle, disk, loop, saved, failed>>

\* fs::write opens and truncates the file,
Truncate ==
  /\ phase = "returned"
  /\ bytes # None
  /\ phase' = "writing"
  /\ disk' = Torn
  /\ UNCHANGED <<oracle, loop, saved, failed>>

\* and writes it.
Write ==
  /\ phase = "writing"
  /\ phase' = "done"
  /\ disk' = bytes
  /\ UNCHANGED <<oracle, loop, saved, failed>>

\* It cannot open the file, or cannot write it: lint_file prints an error and goes on.
WriteFails ==
  /\ phase = "writing" \/ (phase = "returned" /\ bytes # None)
  /\ phase' = "done"
  /\ failed' = TRUE
  /\ UNCHANGED <<oracle, disk, loop, saved>>

\* The process is killed.
Crash ==
  /\ phase \notin {"done", "dead"}
  /\ phase' = "dead"
  /\ UNCHANGED <<oracle, disk, loop, saved, failed>>

\* The user saves the file while nitrocop works on it.
Save(t) ==
  /\ phase \in {"loop", "returned", "writing"}
  /\ disk' = t
  /\ saved' = TRUE
  /\ UNCHANGED <<oracle, phase, loop, failed>>

Nitrocop ==
  \/ Read \/ Converge \/ Bail \/ Correct \/ Exhaust
  \/ Keep \/ Truncate \/ Write \/ WriteFails

Next == Nitrocop \/ Crash \/ \E t \in Texts : Save(t)

Spec == Init /\ [][Next]_vars

\* Nothing in the code waits: the process goes on until it is killed.
FairSpec == Spec /\ WF_vars(Nitrocop)

-----------------------------------------------------------------------------

\* What nitrocop writes is Ruby that Prism accepts without any error, whatever the
\* passes made of the text on the way.  (validate_corrected_bytes)
OnlyValidRubyIsWritten ==
  [][phase = "writing" /\ phase' = "done" /\ ~failed'
       => disk' \in Texts /\ syntax[disk'] = "clean"]_vars

\* A file that would hold after the loop what it held before is not written, also if
\* corrections undid one another on the way.  (validate_corrected_bytes)
UnchangedFileIsNotRewritten == phase = "writing" => bytes # original

\* After a run that converged and wrote the file a second one has nothing to correct.
\* (the convergence test of lint_source_inner)
SecondRunIsIdle ==
  outcome = "converged" /\ bytes # None => Collected(bytes) = {}

\* A run that converged, wrote or had to write nothing, and was left alone, reports as
\* uncorrected what is wrong with the file it leaves.  (lint_source_inner, lint_file)
ReportIsOfTheFile ==
  phase = "done" /\ outcome = "converged" /\ ~saved /\ ~failed
    /\ (bytes = None => current = original)
      => /\ disk = current
         /\ remaining = Unmarked(disk)

\* -a applies corrections of allowlisted cops only, whether they were collected before
\* the AST walk or in it.  (lint_source_once)
SafeModeIsAllowlisted == mode = "safe" => applied \subseteq Allowlist

\* src/cop/mod.rs says of should_autocorrect: "Whether this cop should autocorrect given
\* the current CLI mode."  AutoCorrect: false keeps a cop from correcting, and under -a so
\* does Safe or SafeAutoCorrect: false.  But in the walk nobody asks.
SettingsHold == applied \subseteq {c \in Cops : ShouldAutocorrect(c)}

\* The loop ends, also when corrections undo one another for ever.  (MAX_ITERATIONS)
Terminates == <>(phase \in {"done", "dead"})
=============================================================================
