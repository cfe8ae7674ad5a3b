--------------------------- MODULE CachedProofs ----------------------------
(***************************************************************************)
(* The safety properties of what nitrocop keeps under a key that only      *)
(* stands for what it was made from: the caches of cops, keyed by address, *)
(* CopState, for any number of workers, files, directories, addresses and  *)
(* passes, wherever memory is allocated; and the lockfile, keyed by the    *)
(* hash of Gemfile.lock, GemLock, for any number of invocations, gems,     *)
(* versions of Gemfile.lock and Rubies.  The two share no state.           *)
(***************************************************************************)
EXTENDS CopState, GemLock, TLAPS

-----------------------------------------------------------------------------
(* The caches of cops: the inductive invariant.                            *)

\* The configuration of the run stays where it is, and its terms are its own.
BaseOK == configs[Base] = Root /\ terms[Base] \in {None, Root}

\* A worker that looks at a text has it, and one that runs cops has a configuration:
\* that of the run for a file without one of its own.
JobOK(w) ==
  LET j == job[w]
  IN  /\ j.phase # "idle" => j.file \in Files /\ j.text \in Texts /\ j.place \in Places
      /\ j.phase \in {"sources", "nodes"} =>
           j.config \in Addresses /\ (Dir[j.file] = Root => j.config = Base)
      /\ j.phase \in {"idle", "parsed"} =>
           ~j.checked /\ j.gotTerms = None /\ j.gotContext = None

\* The cached contexts are of a text that lay where the key says and was as long.
ContextsOK(w) ==
  contexts[w] # Unused =>
    /\ <<contexts[w].text, contexts[w].key.place>> \in built[w]
    /\ contexts[w].key.length = Length[contexts[w].text]

IInv ==
  /\ TypeOK
  /\ BaseOK
  /\ \A w \in Workers : JobOK(w) /\ ContextsOK(w)
  /\ RunTermsAreKept
  /\ ContextsAreOfTheText
  /\ LocalsAreOfTheText

-----------------------------------------------------------------------------

\* No worker does anything and both caches are empty.
LEMMA IInvInit == Init => IInv
<1> SUFFICES ASSUME Init PROVE IInv
  OBVIOUS
<1> USE ConstantsOK DEF Init, Idle, Unused
<1>1. TypeOK
  BY DEF TypeOK, Job, Phases, Key
<1>2. BaseOK
  BY DEF BaseOK
<1>3. \A w \in Workers : JobOK(w) /\ ContextsOK(w)
  BY DEF JobOK, ContextsOK
<1>4. RunTermsAreKept /\ ContextsAreOfTheText /\ LocalsAreOfTheText
  BY DEF RunTermsAreKept, ContextsAreOfTheText, LocalsAreOfTheText
<1>5. QED
  BY <1>1, <1>2, <1>3, <1>4 DEF IInv

\* What the steps of a worker make of its job is a job.
LEMMA JobUpdates ==
  ASSUME NEW j \in Job
  PROVE  /\ \A a \in Addresses : [j EXCEPT !.phase = "sources", !.config = a] \in Job
         /\ [j EXCEPT !.phase = "nodes"] \in Job
         /\ [j EXCEPT !.checked = TRUE] \in Job
         /\ \A d \in Dirs \union {None} : [j EXCEPT !.gotTerms = d] \in Job
         /\ \A t \in Texts : [j EXCEPT !.gotContext = t] \in Job
<1>1. \A a \in Addresses : [j EXCEPT !.phase = "sources", !.config = a] \in Job
  BY DEF Job, Phases
<1>2. [j EXCEPT !.phase = "nodes"] \in Job
  BY DEF Job, Phases
<1>3. [j EXCEPT !.checked = TRUE] \in Job
  BY DEF Job, Phases
<1>4. \A d \in Dirs \union {None} : [j EXCEPT !.gotTerms = d] \in Job
  BY DEF Job
<1>5. \A t \in Texts : [j EXCEPT !.gotContext = t] \in Job
  BY DEF Job
<1>6. QED
  BY <1>1, <1>2, <1>3, <1>4, <1>5

\* What a worker starts with on a text.
LEMMA ParsedTyped ==
  ASSUME NEW f \in Files, NEW t \in Texts, NEW n \in Nat, NEW p \in Places
  PROVE  /\ Parsed(f, t, n, p) \in Job
         /\ Parsed(f, t, n, p).phase = "parsed"
         /\ Parsed(f, t, n, p).file = f
         /\ Parsed(f, t, n, p).text = t
         /\ Parsed(f, t, n, p).place = p
         /\ ~Parsed(f, t, n, p).checked
         /\ Parsed(f, t, n, p).gotTerms = None
         /\ Parsed(f, t, n, p).gotContext = None
BY ConstantsOK DEF Parsed, Idle, Job, Phases

\* A job stays in order when the worker goes on with it, and the contexts do if they are left
\* alone.
LEMMA GoesOn ==
  ASSUME NEW v, JobOK(v),
         /\ job'[v].file = job[v].file /\ job'[v].text = job[v].text
         /\ job'[v].place = job[v].place /\ job'[v].config = job[v].config,
         \/ job'[v].phase = job[v].phase
         \/ job[v].phase = "sources" /\ job'[v].phase = "nodes",
         job[v].phase \in {"idle", "parsed"} =>
           /\ job'[v].checked = job[v].checked /\ job'[v].gotTerms = job[v].gotTerms
           /\ job'[v].gotContext = job[v].gotContext
  PROVE  JobOK(v)'
BY DEF JobOK

LEMMA ContextsStay ==
  ASSUME NEW v, ContextsOK(v), contexts'[v] = contexts[v], built'[v] = built[v]
  PROVE  ContextsOK(v)'
BY DEF ContextsOK

\* A worker that begins with a text, or is done with a file, holds nothing of an
\* earlier one, and may have dropped a configuration but never the run's.
LEMMA FreshKeepsIInv ==
  ASSUME IInv, NEW w \in Workers, NEW j \in Job,
         job' = [job EXCEPT ![w] = j],
         \/ j = Idle
         \/ \E f \in Files, t \in Texts, n \in Nat, p \in Places : j = Parsed(f, t, n, p),
         left' \subseteq Files,
         \/ configs' = configs
         \/ \E a \in Addresses \ {Base} : configs' = [configs EXCEPT ![a] = None],
         UNCHANGED <<terms, contexts, locals, built>>
  PROVE  IInv'
<1> DEFINE Fresh ==
      /\ j.phase \in {"idle", "parsed"}
      /\ ~j.checked /\ j.gotTerms = None /\ j.gotContext = None
      /\ j.phase # "idle" => j.file \in Files /\ j.text \in Texts /\ j.place \in Places
<1>1. Fresh
  <2>1. CASE j = Idle
    BY <2>1 DEF Idle
  <2>2. ASSUME NEW f \in Files, NEW t \in Texts, NEW n \in Nat, NEW p \in Places,
               j = Parsed(f, t, n, p)
        PROVE  Fresh
    <3>1. /\ j.phase = "parsed" /\ j.file = f /\ j.text = t /\ j.place = p
          /\ ~j.checked /\ j.gotTerms = None /\ j.gotContext = None
      BY ONLY ParsedTyped, <2>2
    <3>2. QED
      BY ONLY <3>1, f \in Files, t \in Texts, p \in Places
  <2>3. QED
    BY <2>1, <2>2
<1> USE ConstantsOK DEF IInv
<1>2. TypeOK'
  BY DEF TypeOK
<1>3. BaseOK'
  BY DEF BaseOK, TypeOK
<1>4. ASSUME NEW v \in Workers PROVE job'[v] = IF v = w THEN j ELSE job[v]
  BY DEF TypeOK
<1>5. \A v \in Workers : JobOK(v)' /\ ContextsOK(v)'
  BY <1>1, <1>4 DEF JobOK, ContextsOK
<1>6. RunTermsAreKept'
  BY <1>1, <1>4 DEF RunTermsAreKept
<1>7. ContextsAreOfTheText'
  BY <1>1, <1>4 DEF ContextsAreOfTheText
<1>8. LocalsAreOfTheText'
  BY <1>1, <1>4 DEF LocalsAreOfTheText
<1>9. QED
  BY <1>2, <1>3, <1>5, <1>6, <1>7, <1>8

\* A file taken is looked at afresh.
LEMMA TakeKeepsIInv ==
  ASSUME IInv, NEW w \in Workers, Take(w)
  PROVE  IInv'
<1>1. PICK f \in left, p \in Free(w) :
        left' = left \ {f} /\ job' = [job EXCEPT ![w] = Parsed(f, Text[f], 1, p)]
  BY DEF Take
<1>2. f \in Files /\ Text[f] \in Texts /\ p \in Places /\ 1 \in Nat
  BY ConstantsOK DEF IInv, TypeOK, Free
<1>3. Parsed(f, Text[f], 1, p) \in Job
  BY <1>2, ParsedTyped
<1>4. UNCHANGED <<configs, terms, contexts, locals, built>> /\ left' \subseteq Files
  BY <1>1 DEF Take, IInv, TypeOK
<1>5. QED
  BY <1>1, <1>2, <1>3, <1>4, FreshKeepsIInv

\* What is dropped is a configuration of a file's own.
LEMMA DroppedIsNotTheRuns ==
  ASSUME IInv, NEW w \in Workers, configs' = Dropped(w)
  PROVE  \/ configs' = configs
         \/ \E a \in Addresses \ {Base} : configs' = [configs EXCEPT ![a] = None]
BY ConstantsOK DEF Dropped, IInv, TypeOK, Job

\* So is the text a correction made.
LEMMA NextPassKeepsIInv ==
  ASSUME IInv, NEW w \in Workers, NextPass(w)
  PROVE  IInv'
<1>1. PICK t \in Texts \ {job[w].text}, p \in Free(w) :
        job' = [job EXCEPT ![w] = Parsed(@.file, t, @.pass + 1, p)]
  BY DEF NextPass
<1>2. job[w].file \in Files /\ job[w].pass + 1 \in Nat /\ p \in Places
  BY DEF NextPass, IInv, TypeOK, Job, JobOK, Free
<1>3. Parsed(job[w].file, t, job[w].pass + 1, p) \in Job
  BY <1>2, ParsedTyped
<1>4. job' = [job EXCEPT ![w] = Parsed(job[w].file, t, job[w].pass + 1, p)]
  BY <1>1 DEF IInv, TypeOK
<1>5. UNCHANGED <<left, terms, contexts, locals, built>> /\ configs' = Dropped(w)
  BY DEF NextPass
<1>6. left' \subseteq Files
  BY <1>5 DEF IInv, TypeOK
<1>7. \/ configs' = configs
      \/ \E a \in Addresses \ {Base} : configs' = [configs EXCEPT ![a] = None]
  BY <1>5, DroppedIsNotTheRuns
<1>8. QED
  BY <1>2, <1>3, <1>4, <1>5, <1>6, <1>7, FreshKeepsIInv

\* A worker that is done looks at nothing.
LEMMA FinishKeepsIInv ==
  ASSUME IInv, NEW w \in Workers, Finish(w)
  PROVE  IInv'
<1>1. UNCHANGED <<left, terms, contexts, locals, built>> /\ configs' = Dropped(w)
      /\ job' = [job EXCEPT ![w] = Idle] /\ left' \subseteq Files
  BY DEF Finish, IInv, TypeOK
<1>2. Idle \in Job
  BY ConstantsOK DEF Idle, Job, Phases
<1>3. QED
  BY <1>1, <1>2, DroppedIsNotTheRuns, FreshKeepsIInv

\* A configuration of a file's own is laid out beside that of the run.
LEMMA ConfigureKeepsIInv ==
  ASSUME IInv, NEW w \in Workers, Configure(w)
  PROVE  IInv'
<1> USE ConstantsOK DEF IInv
<1>1. PICK a \in Addresses :
        /\ IF Dir[job[w].file] = Root THEN a = Base ELSE configs[a] = None
        /\ configs' = [configs EXCEPT ![a] = Dir[job[w].file]]
        /\ job' = [job EXCEPT ![w].phase = "sources", ![w].config = a]
  BY DEF Configure
<1>2. UNCHANGED <<left, terms, contexts, locals, built>> /\ job[w].phase = "parsed"
  BY DEF Configure
<1>3. job[w].file \in Files /\ Dir[job[w].file] \in Dirs
  BY <1>2 DEF JobOK
<1>4. TypeOK'
  <2>1. [job[w] EXCEPT !.phase = "sources", !.config = a] \in Job
    BY JobUpdates DEF TypeOK
  <2>2. job' = [job EXCEPT ![w] = [job[w] EXCEPT !.phase = "sources", !.config = a]]
    BY <1>1 DEF TypeOK
  <2>3. job' \in [Workers -> Job]
    BY <2>1, <2>2 DEF TypeOK
  <2>4. QED
    BY <1>1, <1>2, <1>3, <2>3 DEF TypeOK
<1>5. BaseOK'
  BY <1>1, <1>2, <1>3 DEF BaseOK, TypeOK
<1>6. ASSUME NEW v \in Workers
      PROVE  /\ v # w => job'[v] = job[v]
             /\ \A x \in {"file", "text", "place", "checked", "gotTerms", "gotContext"} :
                  job'[v][x] = job[v][x]
  BY <1>1 DEF TypeOK, Job
<1>7. job'[w].phase = "sources" /\ job'[w].config = a
  BY <1>1 DEF TypeOK, Job
<1>8. \A v \in Workers : JobOK(v)' /\ ContextsOK(v)'
  <2>1. JobOK(w)'
    <3>1. job[w].phase = "parsed" /\ JobOK(w)
      BY <1>2
    <3>2. job'[w].file \in Files /\ job'[w].text \in Texts /\ job'[w].place \in Places
      BY <1>6, <3>1 DEF JobOK
    <3>3. Dir[job'[w].file] = Root => a = Base
      BY <1>1, <1>6
    <3>4. QED
      BY <1>7, <3>2, <3>3 DEF JobOK
  <2>2. \A v \in Workers \ {w} : JobOK(v)'
    BY <1>6 DEF JobOK
  <2>3. \A v \in Workers : ContextsOK(v)'
    BY <1>2 DEF ContextsOK
  <2>4. QED
    BY <2>1, <2>2, <2>3
<1>9. RunTermsAreKept' /\ ContextsAreOfTheText' /\ LocalsAreOfTheText'
  BY <1>2, <1>6 DEF RunTermsAreKept, ContextsAreOfTheText, LocalsAreOfTheText
<1>10. QED
  BY <1>4, <1>5, <1>8, <1>9

\* Terms built under the run's address are the run's.
LEMMA LookUpTermsKeepsIInv ==
  ASSUME IInv, NEW w \in Workers, LookUpTerms(w)
  PROVE  IInv'
<1> USE ConstantsOK DEF IInv
<1> DEFINE a == job[w].config
<1>1. /\ a \in Addresses
      /\ Dir[job[w].file] = Root => a = Base
      /\ job[w].phase \in {"sources", "nodes"}
  BY DEF LookUpTerms, JobOK
<1>2. /\ terms' = [terms EXCEPT ![a] = IF terms[a] = None THEN configs[a] ELSE terms[a]]
      /\ job' = [job EXCEPT ![w].gotTerms = terms'[a]]
      /\ UNCHANGED <<left, configs, contexts, locals, built>>
  BY <1>1 DEF LookUpTerms, TypeOK
<1>3. terms'[a] \in Dirs \union {None}
  BY <1>1, <1>2 DEF TypeOK
<1>4. TypeOK'
  <2>1. [job[w] EXCEPT !.gotTerms = terms'[a]] \in Job
    BY <1>3, JobUpdates DEF TypeOK
  <2>2. terms' \in [Addresses -> Dirs \union {None}]
    BY <1>1, <1>2 DEF TypeOK
  <2>3. QED
    BY <1>2, <2>1, <2>2 DEF TypeOK
<1>5. BaseOK'
  BY <1>2 DEF BaseOK, TypeOK
<1>6. ASSUME NEW v \in Workers
      PROVE  /\ v # w => job'[v] = job[v]
             /\ \A x \in {"phase", "file", "text", "place", "config", "checked",
                          "gotContext"} : job'[v][x] = job[v][x]
  BY <1>2 DEF TypeOK, Job
<1>7. job'[w].gotTerms = terms'[a]
  BY <1>2 DEF TypeOK, Job
<1>8. ASSUME NEW v \in Workers PROVE JobOK(v)' /\ ContextsOK(v)'
  <2>1. /\ JobOK(v) /\ ContextsOK(v)
        /\ job[v].phase \in {"idle", "parsed"} => v # w
    BY <1>1
  <2>2. /\ job'[v].phase = job[v].phase /\ job'[v].file = job[v].file
        /\ job'[v].text = job[v].text /\ job'[v].place = job[v].place
        /\ job'[v].config = job[v].config
        /\ v # w => job'[v] = job[v]
    BY ONLY <1>6, v \in Workers
  <2>3. JobOK(v)'
    BY ONLY <2>1, <2>2, GoesOn
  <2>4. ContextsOK(v)'
    BY ONLY <1>2, <2>1, ContextsStay
  <2>5. QED
    BY ONLY <2>3, <2>4
<1>9. RunTermsAreKept'
  BY <1>1, <1>5, <1>6, <1>7 DEF RunTermsAreKept, BaseOK
<1>10. ContextsAreOfTheText' /\ LocalsAreOfTheText'
  <2>1. \A v \in Workers : /\ job'[v].text = job[v].text
                          /\ job'[v].place = job[v].place
                          /\ job'[v].checked = job[v].checked
                          /\ job'[v].gotContext = job[v].gotContext
    BY <1>6
  <2>2. QED
    BY <1>2, <2>1 DEF ContextsAreOfTheText, LocalsAreOfTheText
<1>11. QED
  BY <1>4, <1>5, <1>8, <1>9, <1>10

\* What was left in the thread-local is replaced before anything looks at it.
LEMMA CheckSourceKeepsIInv ==
  ASSUME IInv, NEW w \in Workers, CheckSource(w)
  PROVE  IInv'
<1> USE ConstantsOK DEF IInv
<1>1. PICK found \in {{}, {job[w].text}} : locals' = [locals EXCEPT ![w] = found]
  BY DEF CheckSource
<1>2. /\ job' = [job EXCEPT ![w].checked = TRUE]
      /\ job[w].phase = "sources"
      /\ UNCHANGED <<left, configs, terms, contexts, built>>
  BY DEF CheckSource
<1>3. job[w].text \in Texts
  BY <1>2 DEF JobOK
<1>4. TypeOK'
  <2>1. [job[w] EXCEPT !.checked = TRUE] \in Job
    BY JobUpdates DEF TypeOK
  <2>2. locals' \in [Workers -> SUBSET Texts]
    BY <1>1, <1>3 DEF TypeOK
  <2>3. QED
    BY <1>2, <2>1, <2>2 DEF TypeOK
<1>5. ASSUME NEW v \in Workers
      PROVE  /\ v # w => job'[v] = job[v] /\ locals'[v] = locals[v]
             /\ \A x \in {"phase", "file", "text", "place", "config", "gotTerms",
                          "gotContext"} : job'[v][x] = job[v][x]
  BY <1>1, <1>2 DEF TypeOK, Job
<1>6. locals'[w] \subseteq {job[w].text}
  BY <1>1 DEF TypeOK
<1>7. BaseOK' /\ \A v \in Workers : JobOK(v)' /\ ContextsOK(v)'
  <2>1. BaseOK'
    BY <1>2 DEF BaseOK
  <2>2. ASSUME NEW v \in Workers PROVE JobOK(v)' /\ ContextsOK(v)'
    <3>1. /\ JobOK(v) /\ ContextsOK(v)
          /\ job[v].phase \in {"idle", "parsed"} => v # w
      BY <1>2
    <3>2. /\ job'[v].phase = job[v].phase /\ job'[v].file = job[v].file
          /\ job'[v].text = job[v].text /\ job'[v].place = job[v].place
          /\ job'[v].config = job[v].config
          /\ v # w => job'[v] = job[v]
      BY ONLY <1>5, v \in Workers
    <3>3. JobOK(v)'
      BY ONLY <3>1, <3>2, GoesOn
    <3>4. ContextsOK(v)'
      BY ONLY <1>2, <3>1, ContextsStay
    <3>5. QED
      BY ONLY <3>3, <3>4
  <2>3. QED
    BY ONLY <2>1, <2>2
<1>8. RunTermsAreKept' /\ ContextsAreOfTheText'
  <2>1. \A v \in Workers : /\ job'[v].file = job[v].file
                          /\ job'[v].text = job[v].text
                          /\ job'[v].place = job[v].place
                          /\ job'[v].gotTerms = job[v].gotTerms
                          /\ job'[v].gotContext = job[v].gotContext
    BY ONLY <1>5
  <2>2. RunTermsAreKept /\ ContextsAreOfTheText
    OBVIOUS
  <2>3. QED
    BY ONLY <1>2, <2>1, <2>2 DEF RunTermsAreKept, ContextsAreOfTheText
<1>9. LocalsAreOfTheText'
  BY <1>5, <1>6 DEF LocalsAreOfTheText
<1>10. QED
  BY <1>4, <1>7, <1>8, <1>9

\* Nothing changes between check_source and the walk.
LEMMA WalkKeepsIInv ==
  ASSUME IInv, NEW w \in Workers, Walk(w)
  PROVE  IInv'
<1> USE ConstantsOK DEF IInv
<1>1. /\ job' = [job EXCEPT ![w].phase = "nodes"]
      /\ job[w].phase = "sources"
      /\ UNCHANGED <<left, configs, terms, contexts, locals, built>>
  BY DEF Walk
<1>2. TypeOK'
  <2>1. [job[w] EXCEPT !.phase = "nodes"] \in Job
    BY JobUpdates DEF TypeOK
  <2>2. QED
    BY <1>1, <2>1 DEF TypeOK
<1>3. ASSUME NEW v \in Workers
      PROVE  /\ v # w => job'[v] = job[v]
             /\ \A x \in {"file", "text", "place", "config", "checked", "gotTerms",
                          "gotContext"} : job'[v][x] = job[v][x]
  BY <1>1 DEF TypeOK, Job
<1>4. job'[w].phase = "nodes"
  BY <1>1 DEF TypeOK, Job
<1>5. BaseOK' /\ \A v \in Workers : JobOK(v)' /\ ContextsOK(v)'
  <2>1. BaseOK'
    BY <1>1 DEF BaseOK
  <2>2. ASSUME NEW v \in Workers PROVE JobOK(v)' /\ ContextsOK(v)'
    <3>1. /\ JobOK(v) /\ ContextsOK(v)
          /\ v = w => job[v].phase = "sources" /\ job'[v].phase = "nodes"
      BY <1>1, <1>4
    <3>2. /\ job'[v].file = job[v].file /\ job'[v].text = job[v].text
          /\ job'[v].place = job[v].place /\ job'[v].config = job[v].config
          /\ v # w => job'[v] = job[v]
      BY ONLY <1>3, v \in Workers
    <3>3. JobOK(v)'
      BY ONLY <3>1, <3>2, GoesOn
    <3>4. ContextsOK(v)'
      BY ONLY <1>1, <3>1, ContextsStay
    <3>5. QED
      BY ONLY <3>3, <3>4
  <2>3. QED
    BY ONLY <2>1, <2>2
<1>6. RunTermsAreKept' /\ ContextsAreOfTheText' /\ LocalsAreOfTheText'
  <2>1. \A v \in Workers : /\ job'[v].file = job[v].file
                          /\ job'[v].text = job[v].text
                          /\ job'[v].place = job[v].place
                          /\ job'[v].checked = job[v].checked
                          /\ job'[v].gotTerms = job[v].gotTerms
                          /\ job'[v].gotContext = job[v].gotContext
    BY <1>3
  <2>2. QED
    BY <1>1, <2>1 DEF RunTermsAreKept, ContextsAreOfTheText, LocalsAreOfTheText
<1>7. QED
  BY <1>2, <1>5, <1>6

\* The walk adds what it finds in the text under way.
LEMMA NoteKeepsIInv ==
  ASSUME IInv, NEW w \in Workers, Note(w)
  PROVE  IInv'
<1> USE DEF IInv
<1>1. /\ locals' = [locals EXCEPT ![w] = locals[w] \union {job[w].text}]
      /\ job[w].text \in Texts
      /\ UNCHANGED <<left, job, configs, terms, contexts, built>>
  BY DEF Note, TypeOK, JobOK
<1>2. TypeOK'
  BY <1>1 DEF TypeOK
<1>3. BaseOK' /\ \A v \in Workers : JobOK(v)' /\ ContextsOK(v)'
  BY <1>1 DEF BaseOK, JobOK, ContextsOK
<1>4. RunTermsAreKept' /\ ContextsAreOfTheText'
  BY <1>1 DEF RunTermsAreKept, ContextsAreOfTheText
<1>5. LocalsAreOfTheText'
  BY <1>1 DEF LocalsAreOfTheText, TypeOK
<1>6. QED
  BY <1>2, <1>3, <1>4, <1>5

\* Equal keys mean the same place and the same length, whatever lay there.
LEMMA LookUpContextKeepsIInv ==
  ASSUME IInv, NEW w \in Workers, LookUpContext(w)
  PROVE  IInv'
<1> USE ConstantsOK DEF IInv
<1> DEFINE t == job[w].text
           k == [place |-> job[w].place, length |-> Length[t]]
           rebuild == contexts[w] = Unused \/ contexts[w].key # k
<1>1. /\ t \in Texts /\ job[w].place \in Places /\ job[w].phase = "nodes"
      /\ k \in Key
  BY DEF LookUpContext, JobOK, Key
<1>2. /\ contexts' = IF rebuild
                     THEN [contexts EXCEPT ![w] = [key |-> k, text |-> t]]
                     ELSE contexts
      /\ built' = IF rebuild
                  THEN [built EXCEPT ![w] = built[w] \union {<<t, job[w].place>>}]
                  ELSE built
      /\ job' = [job EXCEPT ![w].gotContext = contexts'[w].text]
      /\ UNCHANGED <<left, configs, terms, locals>>
  BY DEF LookUpContext, CacheKey, TypeOK
<1>3. /\ contexts'[w] \in [key : Key, text : Texts]
      /\ contexts'[w].key = k
      /\ <<contexts'[w].text, job[w].place>> \in built'[w]
      /\ contexts'[w].key.length = Length[contexts'[w].text]
  <2>1. CASE rebuild
    BY <1>1, <1>2, <2>1 DEF TypeOK
  <2>2. CASE ~rebuild
    <3>1. contexts' = contexts /\ built' = built
      BY <1>2, <2>2
    <3>2. contexts[w] # Unused /\ contexts[w].key = k
      BY <2>2
    <3>3. contexts[w] \in [key : Key, text : Texts] /\ ContextsOK(w)
      BY <3>2 DEF TypeOK
    <3>4. contexts[w].key.place = job[w].place
      BY <3>2
    <3>5. QED
      BY <3>1, <3>2, <3>3, <3>4 DEF ContextsOK
  <2>3. QED
    BY <2>1, <2>2
<1>4. contexts'[w].text \in Texts
  BY <1>3
<1>5. TypeOK'
  <2>1. [job[w] EXCEPT !.gotContext = contexts'[w].text] \in Job
    BY <1>4, JobUpdates DEF TypeOK
  <2>2. contexts' \in [Workers -> [key : Key, text : Texts] \union {Unused}]
    BY <1>1, <1>2 DEF TypeOK
  <2>3. built' \in [Workers -> SUBSET (Texts \X Places)]
    BY <1>1, <1>2 DEF TypeOK
  <2>4. QED
    BY <1>2, <2>1, <2>2, <2>3 DEF TypeOK
<1>6. ASSUME NEW v \in Workers
      PROVE  /\ v # w => /\ job'[v] = job[v]
                         /\ contexts'[v] = contexts[v]
                         /\ built'[v] = built[v]
             /\ \A x \in {"phase", "file", "text", "place", "config", "checked",
                          "gotTerms"} : job'[v][x] = job[v][x]
  <2>1. CASE v # w
    BY <1>1, <1>2, <2>1 DEF TypeOK
  <2>2. CASE v = w
    <3>1. job'[w] = [job[w] EXCEPT !.gotContext = contexts'[w].text]
      BY <1>2 DEF TypeOK
    <3>2. job[w] \in Job
      BY DEF TypeOK
    <3>3. QED
      BY <2>2, <3>1, <3>2 DEF Job
  <2>3. QED
    BY <2>1, <2>2
<1>7. job'[w].gotContext = contexts'[w].text
  BY <1>2 DEF TypeOK, Job
<1>8. BaseOK' /\ \A v \in Workers : JobOK(v)'
  BY <1>1, <1>2, <1>6 DEF BaseOK, JobOK
<1>9. \A v \in Workers : ContextsOK(v)'
  <2>1. ContextsOK(w)'
    BY <1>3 DEF ContextsOK
  <2>2. ASSUME NEW v \in Workers, v # w PROVE ContextsOK(v)'
    <3>1. contexts'[v] = contexts[v] /\ built'[v] = built[v]
      BY ONLY <1>6, <2>2
    <3>2. ContextsOK(v)
      BY DEF IInv
    <3>3. QED
      BY ONLY <3>1, <3>2 DEF ContextsOK
  <2>3. QED
    BY <2>1, <2>2
<1>10. ContextsAreOfTheText'
  <2> DEFINE OfTheText(v) ==
        job[v].gotContext \notin {None, job[v].text} =>
          /\ Length[job[v].gotContext] = Length[job[v].text]
          /\ <<job[v].gotContext, job[v].place>> \in built[v]
  <2>1. ASSUME NEW v \in Workers, v # w PROVE OfTheText(v)'
    <3>1. job'[v] = job[v] /\ built'[v] = built[v]
      BY ONLY <1>6, <2>1
    <3>2. OfTheText(v)
      BY DEF IInv, ContextsAreOfTheText
    <3>3. QED
      BY ONLY <3>1, <3>2
  <2>2. OfTheText(w)'
    <3>1. /\ job'[w].text = t /\ job'[w].place = job[w].place
          /\ job'[w].gotContext = contexts'[w].text
      BY ONLY <1>6, <1>7
    <3>2. /\ Length[contexts'[w].text] = Length[t]
          /\ <<contexts'[w].text, job[w].place>> \in built'[w]
      BY <1>3
    <3>3. QED
      BY ONLY <3>1, <3>2
  <2>3. QED
    BY <2>1, <2>2 DEF ContextsAreOfTheText
<1>11. RunTermsAreKept' /\ LocalsAreOfTheText'
  BY <1>2, <1>6 DEF RunTermsAreKept, LocalsAreOfTheText
<1>12. QED
  BY <1>5, <1>8, <1>9, <1>10, <1>11

-----------------------------------------------------------------------------

\* IInv is inductive.
LEMMA IInvNext == IInv /\ [Next]_vars => IInv'
<1> SUFFICES ASSUME IInv, [Next]_vars PROVE IInv'
  OBVIOUS
<1>1. ASSUME NEW w \in Workers,
             \/ Take(w) \/ Configure(w) \/ LookUpTerms(w) \/ CheckSource(w) \/ Walk(w)
             \/ Note(w) \/ LookUpContext(w) \/ NextPass(w) \/ Finish(w)
      PROVE  IInv'
  BY <1>1, TakeKeepsIInv, ConfigureKeepsIInv, LookUpTermsKeepsIInv, CheckSourceKeepsIInv,
     WalkKeepsIInv, NoteKeepsIInv, LookUpContextKeepsIInv, NextPassKeepsIInv,
     FinishKeepsIInv
<1>2. ASSUME UNCHANGED vars PROVE IInv'
  BY <1>2 DEF vars, IInv, TypeOK, BaseOK, JobOK, ContextsOK, RunTermsAreKept,
              ContextsAreOfTheText, LocalsAreOfTheText
<1>3. QED
  BY <1>1, <1>2 DEF Next

\* Every state is typed: what the caches return is a configuration's or a text's.
THEOREM TypeCorrect == Spec => []TypeOK
<1>1. IInv => TypeOK
  BY DEF IInv
<1>2. QED
  BY <1>1, IInvInit, IInvNext, PTL DEF Spec

\* However memory is reused among nested configurations, a file without one gets the
\* run's terms.  (get_or_build_terms, owned_base_configs)
THEOREM RunTermsCorrect == Spec => []RunTermsAreKept
<1>1. IInv => RunTermsAreKept
  BY DEF IInv
<1>2. QED
  BY <1>1, IInvInit, IInvNext, PTL DEF Spec

\* Only a text of the same length that the same worker had at the same place can lend a
\* text its operator contexts.  (operator_context, call_context)
THEOREM ContextsCorrect == Spec => []ContextsAreOfTheText
<1>1. IInv => ContextsAreOfTheText
  BY DEF IInv
<1>2. QED
  BY <1>1, IInvInit, IInvNext, PTL DEF Spec

\* Nothing of an earlier file or pass is found in the thread-locals of the cops.
THEOREM LocalsCorrect == Spec => []LocalsAreOfTheText
<1>1. IInv => LocalsAreOfTheText
  BY DEF IInv
<1>2. QED
  BY <1>1, IInvInit, IInvNext, PTL DEF Spec

-----------------------------------------------------------------------------
(* The lockfile: its inductive invariant.                                  *)

\* A lock says of its gems what Bundler says for the Gemfile.lock of its hash.
Vouches(l) ==
  ~l.drifted =>
    \A g \in Gems :
      l.gems[g] # Absent =>
        l.hash # Absent /\ l.gems[g] = Found[<<l.hash, l.under>>][g]

\* Bundler would name d for g now.
Current(g, d) == bundle # Absent /\ d = Found[<<bundle, ruby>>][g]

\* So does every lock, on disk or held by an invocation.
LocksOK ==
  /\ lockfile \notin {Absent, Empty, Torn} => Vouches(lockfile)
  /\ \A p \in Procs :
       phase[p] \in {"hashed", "writing", "read", "fresh", "run"} =>
         lock[p] \in Lock /\ Vouches(lock[p])

\* Bundler's answer to a lookup is what it would say now, unless Gemfile.lock or Ruby
\* changed since the lookup began, and what changed since then has changed since the cache
\* was begun, or the run compared the hash.
LookupsOK ==
  \A p \in Procs : asked[p] # Absent =>
    /\ phase[p] \in {"init", "run"}
    /\ since[p] => drift[p]
    /\ ~since[p] /\ asked[p].said # Absent => Current(asked[p].gem, asked[p].said)

\* The same of all answers in a cache.
CachesOK ==
  \A p \in Procs :
    /\ phase[p] \notin {"init", "run"} => cache[p] = Absent
    /\ cache[p] # Absent /\ ~drift[p] =>
         \A g \in Gems :
           cache[p].entries[g] # Absent => Current(g, cache[p].entries[g])

\* A run that has compared the hash still has that of Gemfile.lock, if nothing changed.
DriftOK ==
  \A p \in Procs :
    /\ phase[p] \in {"down", "read"} => ~drift[p]
    /\ phase[p] \in {"fresh", "run"} /\ ~drift[p] => lock[p].hash = bundle

LockInv == LockTypeOK /\ LocksOK /\ LookupsOK /\ CachesOK /\ DriftOK

\* Nothing but p's own state and the lockfile changes.
Own(p) ==
  /\ UNCHANGED world
  /\ phase' = [phase EXCEPT ![p] = phase'[p]]
  /\ lock' = [lock EXCEPT ![p] = lock'[p]]
  /\ cache' = [cache EXCEPT ![p] = cache'[p]]
  /\ asked' = [asked EXCEPT ![p] = asked'[p]]
  /\ drift' = [drift EXCEPT ![p] = drift'[p]]
  /\ since' = [since EXCEPT ![p] = since'[p]]

\* What the invariant says of p's own state.
OwnOK(p) ==
  /\ phase[p] \in {"hashed", "writing", "read", "fresh", "run"} =>
       lock[p] \in Lock /\ Vouches(lock[p])
  /\ asked[p] # Absent =>
       /\ phase[p] \in {"init", "run"}
       /\ since[p] => drift[p]
       /\ ~since[p] /\ asked[p].said # Absent => Current(asked[p].gem, asked[p].said)
  /\ phase[p] \notin {"init", "run"} => cache[p] = Absent
  /\ cache[p] # Absent /\ ~drift[p] =>
       \A g \in Gems : cache[p].entries[g] # Absent => Current(g, cache[p].entries[g])
  /\ phase[p] \in {"down", "read"} => ~drift[p]
  /\ phase[p] \in {"fresh", "run"} /\ ~drift[p] => lock[p].hash = bundle

\* The type of p's own state.
OwnType(p) ==
  /\ phase[p] \in {"down", "init", "hashed", "writing", "read", "fresh", "run"}
  /\ lock[p] \in Lock \union {Absent}
  /\ cache[p] \in Cache \union {Absent}
  /\ asked[p] \in Lookup \union {Absent}
  /\ drift[p] \in BOOLEAN
  /\ since[p] \in BOOLEAN

\* What the invariant says of the lockfile.
FileOK ==
  /\ lockfile \in Lock \union {Absent, Empty, Torn}
  /\ lockfile \notin {Absent, Empty, Torn} => Vouches(lockfile)

-----------------------------------------------------------------------------

\* The invariant is about each invocation on its own.
LEMMA OwnParts ==
  ASSUME LockInv, NEW p \in Procs
  PROVE  OwnOK(p) /\ OwnType(p) /\ FileOK
<1>1. OwnOK(p)
  BY DEF LockInv, LocksOK, LookupsOK, CachesOK, DriftOK, OwnOK
<1>2. OwnType(p) /\ FileOK
  BY DEF LockInv, LocksOK, LockTypeOK, OwnType, FileOK
<1> QED
  BY <1>1, <1>2

\* So a step of one invocation need look at that one only.
LEMMA OwnStep ==
  ASSUME LockInv, NEW p \in Procs, Own(p), OwnOK(p)', OwnType(p)', FileOK'
  PROVE  LockInv'
<1>1. UNCHANGED <<now, bundle, mtime, ruby, installed>>
  BY DEF Own, world
<1>2. LockTypeOK'
  BY <1>1 DEF LockInv, LockTypeOK, Own, OwnType, FileOK
<1>3. ASSUME NEW q \in Procs
      PROVE  OwnOK(q)'
  <2>1. CASE q = p
    BY <2>1
  <2>2. CASE q # p
    <3>1. /\ phase'[q] = phase[q] /\ lock'[q] = lock[q] /\ cache'[q] = cache[q]
          /\ asked'[q] = asked[q] /\ drift'[q] = drift[q] /\ since'[q] = since[q]
      BY <2>2 DEF Own, LockInv, LockTypeOK
    <3>2. OwnOK(q)
      BY OwnParts
    <3> QED
      BY <1>1, <3>1, <3>2 DEF OwnOK, Vouches, Current
  <2> QED
    BY <2>1, <2>2
<1>4. LocksOK' /\ LookupsOK' /\ CachesOK' /\ DriftOK'
  BY <1>3 DEF OwnOK, FileOK, LocksOK, LookupsOK, CachesOK, DriftOK
<1> QED
  BY <1>2, <1>4 DEF LockInv

\* A lookup begins with no change behind it.
LEMMA LookUpKeeps ==
  ASSUME LockInv, NEW p \in Procs, LookUp(p)
  PROVE  LockInv'
<1>1. OwnOK(p) /\ OwnType(p) /\ FileOK /\ LockTypeOK
  BY OwnParts DEF LockInv
<1>2. Own(p)
  BY <1>1 DEF LookUp, Own, world, LockTypeOK
<1>3. OwnType(p)'
  BY <1>1 DEF LookUp, OwnType, LockTypeOK, world, Lookup
<1>4. OwnOK(p)'
  BY <1>1, FoundOK DEF LookUp, OwnOK, OwnType, LockTypeOK, FileOK, Vouches, Current, world, Lookup
<1>5. FileOK'
  BY <1>1 DEF LookUp, OwnOK, OwnType, FileOK, Vouches, world
<1> QED
  BY <1>2, <1>3, <1>4, <1>5, OwnStep

\* Bundler answers for the Gemfile.lock and the Ruby of the moment.
LEMMA AnswerKeeps ==
  ASSUME LockInv, NEW p \in Procs, Answer(p)
  PROVE  LockInv'
<1>1. OwnOK(p) /\ OwnType(p) /\ FileOK /\ LockTypeOK
  BY OwnParts DEF LockInv
<1>2. Own(p)
  BY <1>1 DEF Answer, Own, world, LockTypeOK
<1>3. OwnType(p)'
  BY <1>1 DEF Answer, OwnType, LockTypeOK, world, Lookup, BundleInfo, NoAnswers, Answers
<1>4. OwnOK(p)'
  BY <1>1, FoundOK DEF Answer, OwnOK, OwnType, LockTypeOK, FileOK, Vouches, Current, world, Lookup, BundleInfo, NoAnswers, Answers
<1>5. FileOK'
  BY <1>1 DEF Answer, OwnOK, OwnType, FileOK, Vouches, world
<1> QED
  BY <1>2, <1>3, <1>4, <1>5, OwnStep

\* An answer joins those of its mtime, or begins a new cache.
LEMMA ResolveKeeps ==
  ASSUME LockInv, NEW p \in Procs, Resolve(p)
  PROVE  LockInv'
<1>1. OwnOK(p) /\ OwnType(p) /\ FileOK /\ LockTypeOK
  BY OwnParts DEF LockInv
<1>2. Own(p)
  BY <1>1 DEF Resolve, Own, world, LockTypeOK
<1>3. OwnType(p)'
  BY <1>1 DEF Resolve, OwnType, LockTypeOK, world, Lookup, Cache, NoAnswers, Answers, Resolved
<1>4. OwnOK(p)'
  BY <1>1, FoundOK DEF Resolve, OwnOK, OwnType, LockTypeOK, FileOK, Vouches, Current, world, Lookup, Cache, NoAnswers, Answers, Resolved
<1>5. FileOK'
  BY <1>1 DEF Resolve, OwnOK, OwnType, FileOK, Vouches, world
<1> QED
  BY <1>2, <1>3, <1>4, <1>5, OwnStep

\* No answer.
LEMMA ResolveFailsKeeps ==
  ASSUME LockInv, NEW p \in Procs, ResolveFails(p)
  PROVE  LockInv'
<1>1. OwnOK(p) /\ OwnType(p) /\ FileOK /\ LockTypeOK
  BY OwnParts DEF LockInv
<1>2. Own(p)
  BY <1>1 DEF ResolveFails, Own, world, LockTypeOK
<1>3. OwnType(p)'
  BY <1>1 DEF ResolveFails, OwnType, LockTypeOK, world
<1>4. OwnOK(p)'
  BY <1>1, FoundOK DEF ResolveFails, OwnOK, OwnType, LockTypeOK, FileOK, Vouches, Current, world
<1>5. FileOK'
  BY <1>1 DEF ResolveFails, OwnOK, OwnType, FileOK, Vouches, world
<1> QED
  BY <1>2, <1>3, <1>4, <1>5, OwnStep

\* --init starts with no cache.
LEMMA StartInitKeeps ==
  ASSUME LockInv, NEW p \in Procs, StartInit(p)
  PROVE  LockInv'
<1>1. OwnOK(p) /\ OwnType(p) /\ FileOK /\ LockTypeOK
  BY OwnParts DEF LockInv
<1>2. Own(p)
  BY <1>1 DEF StartInit, Own, world, LockTypeOK
<1>3. OwnType(p)'
  BY <1>1 DEF StartInit, OwnType, LockTypeOK, world
<1>4. OwnOK(p)'
  BY <1>1, FoundOK DEF StartInit, OwnOK, OwnType, LockTypeOK, FileOK, Vouches, Current, world
<1>5. FileOK'
  BY <1>1 DEF StartInit, OwnOK, OwnType, FileOK, Vouches, world
<1> QED
  BY <1>2, <1>3, <1>4, <1>5, OwnStep

\* What is in the cache is put beside the hash of the Gemfile.lock of now.
LEMMA HashKeeps ==
  ASSUME LockInv, NEW p \in Procs, Hash(p)
  PROVE  LockInv'
<1>1. OwnOK(p) /\ OwnType(p) /\ FileOK /\ LockTypeOK
  BY OwnParts DEF LockInv
<1>2. Own(p)
  BY <1>1 DEF Hash, Own, world, LockTypeOK
<1>3. OwnType(p)'
  BY <1>1 DEF Hash, OwnType, LockTypeOK, world, Lock, Cache, NoAnswers, Answers
<1>4. OwnOK(p)'
  <2> DEFINE gems == IF cache[p] = Absent THEN NoAnswers ELSE cache[p].entries
  <2>1. /\ lock'[p] = [hash |-> bundle, under |-> ruby, drifted |-> drift[p], gems |-> gems]
        /\ phase'[p] = "hashed" /\ cache'[p] = Absent
        /\ drift'[p] = FALSE /\ asked'[p] = Absent /\ phase[p] = "init"
    BY <1>1 DEF Hash, LockTypeOK
  <2>2. gems \in Answers
    BY <1>1 DEF OwnType, Cache, NoAnswers, Answers
  <2>3. ~drift[p] => \A g \in Gems : gems[g] # Absent => Current(g, gems[g])
    BY <1>1 DEF OwnOK, NoAnswers
  <2> HIDE DEF gems
  <2>4. lock'[p] \in Lock
    BY <1>1, <2>1, <2>2 DEF Lock, LockTypeOK
  <2>5. /\ lock'[p].hash = bundle /\ lock'[p].under = ruby
        /\ lock'[p].drifted = drift[p] /\ lock'[p].gems = gems
    BY ONLY <2>1
  <2>6. Vouches(lock[p])'
    BY ONLY <2>3, <2>5 DEF Vouches, Current
  <2> QED
    BY ONLY <2>1, <2>4, <2>6 DEF OwnOK
<1>5. FileOK'
  BY <1>1 DEF Hash, OwnOK, OwnType, FileOK, Vouches, world
<1> QED
  BY <1>2, <1>3, <1>4, <1>5, OwnStep

\* An empty lockfile says nothing.
LEMMA TruncateKeeps ==
  ASSUME LockInv, NEW p \in Procs, Truncate(p)
  PROVE  LockInv'
<1>1. OwnOK(p) /\ OwnType(p) /\ FileOK /\ LockTypeOK
  BY OwnParts DEF LockInv
<1>2. Own(p)
  BY <1>1 DEF Truncate, Own, world, LockTypeOK
<1>3. OwnType(p)'
  BY <1>1 DEF Truncate, OwnType, LockTypeOK, world
<1>4. OwnOK(p)'
  BY <1>1, FoundOK DEF Truncate, OwnOK, OwnType, LockTypeOK, FileOK, Vouches, Current, world
<1>5. FileOK'
  BY <1>1 DEF Truncate, OwnOK, OwnType, FileOK, Vouches, world
<1> QED
  BY <1>2, <1>3, <1>4, <1>5, OwnStep

\* The lockfile is the lock, or does not parse.
LEMMA WriteKeeps ==
  ASSUME LockInv, NEW p \in Procs, Write(p)
  PROVE  LockInv'
<1>1. OwnOK(p) /\ OwnType(p) /\ FileOK /\ LockTypeOK
  BY OwnParts DEF LockInv
<1>2. Own(p)
  BY <1>1 DEF Write, Own, world, LockTypeOK, Exits
<1>3. OwnType(p)'
  BY <1>1 DEF Write, OwnType, LockTypeOK, world, Exits
<1>4. OwnOK(p)'
  BY <1>1, FoundOK DEF Write, OwnOK, OwnType, LockTypeOK, FileOK, Vouches, Current, world, Exits
<1>5. FileOK'
  BY <1>1 DEF Write, OwnOK, OwnType, FileOK, Vouches, world, Exits
<1> QED
  BY <1>2, <1>3, <1>4, <1>5, OwnStep

\* An --init that dies leaves what was there, or what does not parse.
LEMMA AbandonKeeps ==
  ASSUME LockInv, NEW p \in Procs, Abandon(p)
  PROVE  LockInv'
<1>1. OwnOK(p) /\ OwnType(p) /\ FileOK /\ LockTypeOK
  BY OwnParts DEF LockInv
<1>2. Own(p)
  BY <1>1 DEF Abandon, Own, world, LockTypeOK, Exits
<1>3. OwnType(p)'
  BY <1>1 DEF Abandon, OwnType, LockTypeOK, world, Exits
<1>4. OwnOK(p)'
  BY <1>1, FoundOK DEF Abandon, OwnOK, OwnType, LockTypeOK, FileOK, Vouches, Current, world, Exits
<1>5. FileOK'
  BY <1>1 DEF Abandon, OwnOK, OwnType, FileOK, Vouches, world, Exits
<1> QED
  BY <1>2, <1>3, <1>4, <1>5, OwnStep

\* A run holds the lock it read.
LEMMA ReadKeeps ==
  ASSUME LockInv, NEW p \in Procs, Read(p)
  PROVE  LockInv'
<1>1. OwnOK(p) /\ OwnType(p) /\ FileOK /\ LockTypeOK
  BY OwnParts DEF LockInv
<1>2. Own(p)
  BY <1>1 DEF Read, Own, world, LockTypeOK
<1>3. OwnType(p)'
  BY <1>1 DEF Read, OwnType, LockTypeOK, world
<1>4. OwnOK(p)'
  BY <1>1, FoundOK DEF Read, OwnOK, OwnType, LockTypeOK, FileOK, Vouches, Current, world
<1>5. FileOK'
  BY <1>1 DEF Read, OwnOK, OwnType, FileOK, Vouches, world
<1> QED
  BY <1>2, <1>3, <1>4, <1>5, OwnStep

\* The hash is that of Gemfile.lock.
LEMMA CheckHashKeeps ==
  ASSUME LockInv, NEW p \in Procs, CheckHash(p)
  PROVE  LockInv'
<1>1. OwnOK(p) /\ OwnType(p) /\ FileOK /\ LockTypeOK
  BY OwnParts DEF LockInv
<1>2. Own(p)
  BY <1>1 DEF CheckHash, Own, world, LockTypeOK
<1>3. OwnType(p)'
  BY <1>1 DEF CheckHash, OwnType, LockTypeOK, world
<1>4. OwnOK(p)'
  BY <1>1, FoundOK DEF CheckHash, OwnOK, OwnType, LockTypeOK, FileOK, Vouches, Current, world
<1>5. FileOK'
  BY <1>1 DEF CheckHash, OwnOK, OwnType, FileOK, Vouches, world
<1> QED
  BY <1>2, <1>3, <1>4, <1>5, OwnStep

\* A run begins with no cache.
LEMMA CheckPathsKeeps ==
  ASSUME LockInv, NEW p \in Procs, CheckPaths(p)
  PROVE  LockInv'
<1>1. OwnOK(p) /\ OwnType(p) /\ FileOK /\ LockTypeOK
  BY OwnParts DEF LockInv
<1>2. Own(p)
  BY <1>1 DEF CheckPaths, Own, world, LockTypeOK
<1>3. OwnType(p)'
  BY <1>1 DEF CheckPaths, OwnType, LockTypeOK, world
<1>4. OwnOK(p)'
  BY <1>1, FoundOK DEF CheckPaths, OwnOK, OwnType, LockTypeOK, FileOK, Vouches, Current, world
<1>5. FileOK'
  BY <1>1 DEF CheckPaths, OwnOK, OwnType, FileOK, Vouches, world
<1> QED
  BY <1>2, <1>3, <1>4, <1>5, OwnStep

\* The run ends.
LEMMA RefuseKeeps ==
  ASSUME LockInv, NEW p \in Procs, Refuse(p)
  PROVE  LockInv'
<1>1. OwnOK(p) /\ OwnType(p) /\ FileOK /\ LockTypeOK
  BY OwnParts DEF LockInv
<1>2. Own(p)
  BY <1>1 DEF Refuse, Own, world, LockTypeOK, Exits
<1>3. OwnType(p)'
  BY <1>1 DEF Refuse, OwnType, LockTypeOK, world, Exits
<1>4. OwnOK(p)'
  BY <1>1, FoundOK DEF Refuse, OwnOK, OwnType, LockTypeOK, FileOK, Vouches, Current, world, Exits
<1>5. FileOK'
  BY <1>1 DEF Refuse, OwnOK, OwnType, FileOK, Vouches, world, Exits
<1> QED
  BY <1>2, <1>3, <1>4, <1>5, OwnStep

\* The run ends.
LEMMA EndRunKeeps ==
  ASSUME LockInv, NEW p \in Procs, EndRun(p)
  PROVE  LockInv'
<1>1. OwnOK(p) /\ OwnType(p) /\ FileOK /\ LockTypeOK
  BY OwnParts DEF LockInv
<1>2. Own(p)
  BY <1>1 DEF EndRun, Own, world, LockTypeOK, Exits
<1>3. OwnType(p)'
  BY <1>1 DEF EndRun, OwnType, LockTypeOK, world, Exits
<1>4. OwnOK(p)'
  BY <1>1, FoundOK DEF EndRun, OwnOK, OwnType, LockTypeOK, FileOK, Vouches, Current, world, Exits
<1>5. FileOK'
  BY <1>1 DEF EndRun, OwnOK, OwnType, FileOK, Vouches, world, Exits
<1> QED
  BY <1>2, <1>3, <1>4, <1>5, OwnStep

\* Gemfile.lock or Ruby changes: every answer, and every hash compared, is drifting.
LEMMA WorldKeeps ==
  ASSUME LockInv, Edit \/ SwitchRuby
  PROVE  LockInv'
<1>1. LockTypeOK'
  <2>1. UNCHANGED <<now, installed, lockfile, phase, lock, cache, asked>> /\ Drifts
    BY DEF Edit, SwitchRuby
  <2>2. drift' \in [Procs -> BOOLEAN] /\ since' \in [Procs -> BOOLEAN]
    <3>1. [p \in Procs |-> phase[p] \in {"init", "fresh", "run"}] \in [Procs -> BOOLEAN]
      OBVIOUS
    <3>2. [p \in Procs |-> asked[p] # Absent] \in [Procs -> BOOLEAN]
      OBVIOUS
    <3> QED
      BY <2>1, <3>1, <3>2, Zenon DEF Drifts
  <2>3. bundle' \in Bundles \union {Absent} /\ mtime' \in Nat /\ ruby' \in Rubies
    BY DEF LockInv, LockTypeOK, Edit, SwitchRuby
  <2> QED
    BY <2>1, <2>2, <2>3 DEF LockInv, LockTypeOK
<1>2. LocksOK'
  BY DEF LockInv, LocksOK, Vouches, Edit, SwitchRuby
<1>3. UNCHANGED <<phase, lock, cache, asked>> /\ Drifts
  BY DEF Edit, SwitchRuby
<1>4. \A p \in Procs : /\ drift'[p] <=> phase[p] \in {"init", "fresh", "run"}
                       /\ since'[p] <=> asked[p] # Absent
  BY <1>3 DEF Drifts
<1>5. LookupsOK'
  BY <1>3, <1>4 DEF LockInv, LookupsOK
<1>6. CachesOK'
  BY <1>3, <1>4 DEF LockInv, CachesOK
<1>7. DriftOK'
  BY <1>3, <1>4 DEF LockInv, DriftOK
<1> QED
  BY <1>1, <1>2, <1>5, <1>6, <1>7 DEF LockInv

\* Time passes, gems come and go.
LEMMA QuietKeeps ==
  ASSUME LockInv, Tick \/ Install \/ Uninstall \/ UNCHANGED lockVars
  PROVE  LockInv'
<1>1. UNCHANGED <<bundle, ruby, lockfile, phase, lock, cache, asked, drift, since>>
  BY DEF Tick, Install, Uninstall, lockVars
<1>2. LockTypeOK'
  BY DEF LockInv, LockTypeOK, Tick, Install, Uninstall, lockVars
<1>3. LocksOK' /\ LookupsOK' /\ CachesOK' /\ DriftOK'
  BY <1>1 DEF LockInv, LocksOK, LookupsOK, CachesOK, DriftOK, Vouches, Current
<1> QED
  BY <1>2, <1>3 DEF LockInv

\* LockInv is an invariant.
THEOREM LockInvariance == LockSpec => []LockInv
<1>1. LockInit => LockInv
  <2> SUFFICES ASSUME LockInit PROVE LockInv
    OBVIOUS
  <2>1. LockTypeOK
    BY FoundOK DEF LockInit, LockTypeOK
  <2>2. LocksOK /\ LookupsOK /\ CachesOK /\ DriftOK
    BY DEF LockInit, LocksOK, LookupsOK, CachesOK, DriftOK
  <2> QED
    BY <2>1, <2>2 DEF LockInv
<1>2. LockInv /\ [LockNext]_lockVars => LockInv'
  <2> SUFFICES ASSUME LockInv, [LockNext]_lockVars PROVE LockInv'
    OBVIOUS
  <2>1. CASE Tick \/ Edit \/ SwitchRuby \/ Install \/ Uninstall \/ UNCHANGED lockVars
    BY <2>1, WorldKeeps, QuietKeeps
  <2>2. ASSUME NEW p \in Procs,
               LookUp(p) \/ Answer(p) \/ Resolve(p) \/ ResolveFails(p)
        PROVE  LockInv'
    BY <2>2, LookUpKeeps, AnswerKeeps, ResolveKeeps, ResolveFailsKeeps
  <2>3. ASSUME NEW p \in Procs,
               StartInit(p) \/ Hash(p) \/ Truncate(p) \/ Write(p) \/ Abandon(p)
        PROVE  LockInv'
    BY <2>3, StartInitKeeps, HashKeeps, TruncateKeeps, WriteKeeps, AbandonKeeps
  <2>4. ASSUME NEW p \in Procs,
               Read(p) \/ CheckHash(p) \/ CheckPaths(p) \/ Refuse(p) \/ EndRun(p)
        PROVE  LockInv'
    BY <2>4, ReadKeeps, CheckHashKeeps, CheckPathsKeeps, RefuseKeeps, EndRunKeeps
  <2> QED
    BY <2>1, <2>2, <2>3, <2>4 DEF LockNext
<1> QED
  BY <1>1, <1>2, PTL DEF LockSpec

\* Every variable of GemLock has its type in every reachable state; a run never works with
\* a lock that did not parse.
THEOREM LockTypeCorrect == LockSpec => []LockTypeOK
BY LockInvariance, PTL DEF LockInv

\* Whatever happens to Gemfile.lock while any number of --init runs look up their gems, and
\* wherever they write over each other, what a lockfile says is what Bundler says for the
\* Gemfile.lock it carries the hash of (write_lock, resolve_gem_path).
THEOREM LockCorrect == LockSpec => []LockIsOfItsHash
<1>1. LockInv => LockIsOfItsHash
  BY DEF LockInv, LocksOK, Vouches, LockIsOfItsHash
<1> QED
  BY LockInvariance, <1>1, PTL

\* A run inherits from the gems Bundler names for the Gemfile.lock in place, from its lock
\* and from its own lookups (check_freshness, resolve_gem_path).
THEOREM GemsCorrect == LockSpec => []GemsAreOfTheBundle
<1>1. LockInv => GemsAreOfTheBundle
  <2> SUFFICES ASSUME LockInv, NEW p \in Procs,
                      phase[p] = "run", ~drift[p], ~lock[p].drifted, lock[p].under = ruby,
                      NEW g \in Gems, Used(p, g) # Absent
               PROVE  bundle # Absent /\ Used(p, g) = Found[<<bundle, ruby>>][g]
    BY DEF GemsAreOfTheBundle
  <2>1. OwnOK(p)
    BY OwnParts
  <2>2. CASE lock[p].gems[g] # Absent
    BY <2>1, <2>2 DEF OwnOK, Vouches, Used
  <2>3. CASE lock[p].gems[g] = Absent
    BY <2>1, <2>3 DEF OwnOK, Current, Used
  <2> QED
    BY <2>2, <2>3
<1> QED
  BY LockInvariance, <1>1, PTL
=============================================================================
