------------------------------ MODULE CopState ------------------------------
(***************************************************************************)
(* What cops keep from one file to the next while several workers lint: a  *)
(* cache shared by all, keyed by the address of a configuration            *)
(* (Naming/InclusiveLanguage); one per thread, keyed by where a text and   *)
(* its tree lie (Layout/MultilineOperationIndentation); and what a cop     *)
(* hands from check_source to later phases in a thread-local.  Memory that *)
(* was freed may be allocated again, which is what the model is about.     *)
(***************************************************************************)
EXTENDS Naturals

CONSTANTS
  Workers,    \* rayon's threads
  Files,
  Texts,
  Dirs,       \* the configurations, by the directory of their .rubocop.yml
  Root,       \* that of the run
  Addresses,  \* where the configurations of a run or of a pass may lie
  Base,       \* where those of the run lie
  Places,     \* where a text and its parse result may lie
  Text,       \* what a file holds
  Dir,        \* the nearest configuration of a file
  Length,     \* of a text
  Broken,     \* the texts with structural errors
  MaxPasses,  \* bound on the passes over a file, 1 without autocorrection
  None

ASSUME ConstantsOK ==
  /\ Root \in Dirs
  /\ Base \in Addresses
  /\ Text \in [Files -> Texts]
  /\ Dir \in [Files -> Dirs]
  /\ Length \in [Texts -> Nat]
  /\ MaxPasses \in Nat
  /\ None \notin Dirs \union Texts \union Addresses \union Files

VARIABLES
  left,      \* the files no worker has taken
  job,       \* what each worker is doing
  configs,   \* the configuration alive at each address
  terms,     \* TERMS_CACHE: the configuration the terms of an address were built from
  contexts,  \* OPERATOR_CONTEXT_CACHE of each worker: key, and the text it was built from
  locals,    \* the texts whose data a cop's thread-local holds
  built      \* the texts each worker built contexts for, and where they lay (history)

vars == <<left, job, configs, terms, contexts, locals, built>>

\* checked: check_source of the cop with the thread-local ran; gotTerms and gotContext:
\* what the last look into either cache returned.
Idle ==
  [phase |-> "idle", file |-> None, text |-> None, pass |-> 0, place |-> None,
   config |-> None, checked |-> FALSE, gotTerms |-> None, gotContext |-> None]

Phases == {"idle", "parsed", "sources", "nodes"}

Job ==
  [phase : Phases, file : Files \union {None}, text : Texts \union {None}, pass : Nat,
   place : Places \union {None}, config : Addresses \union {None}, checked : BOOLEAN,
   gotTerms : Dirs \union {None}, gotContext : Texts \union {None}]

Key == [place : Places, length : Nat]

Unused == [key |-> None, text |-> None]

TypeOK ==
  /\ left \subseteq Files
  /\ job \in [Workers -> Job]
  /\ configs \in [Addresses -> Dirs \union {None}]
  /\ terms \in [Addresses -> Dirs \union {None}]
  /\ contexts \in [Workers -> [key : Key, text : Texts] \union {Unused}]
  /\ locals \in [Workers -> SUBSET Texts]
  /\ built \in [Workers -> SUBSET (Texts \X Places)]

Init ==
  /\ left = Files
  /\ job = [w \in Workers |-> Idle]
  /\ configs = [a \in Addresses |-> IF a = Base THEN Root ELSE None]
  /\ terms = [a \in Addresses |-> None]
  /\ contexts = [w \in Workers |-> Unused]
  /\ locals = [w \in Workers |-> {}]
  /\ built = [w \in Workers |-> {}]

-----------------------------------------------------------------------------

\* Places of other workers' texts are taken; one's own last text is gone.
Free(w) == {p \in Places : \A v \in Workers \ {w} : job[v].place # p}

Parsed(f, t, n, p) ==
  [Idle EXCEPT !.phase = "parsed", !.file = f, !.text = t, !.pass = n, !.place = p]

\* The worker takes a file, reads it and parses it.
Take(w) ==
  /\ job[w].phase = "idle"
  /\ \E f \in left, p \in Free(w) :
       /\ left' = left \ {f}
       /\ job' = [job EXCEPT ![w] = Parsed(f, Text[f], 1, p)]
  /\ UNCHANGED <<configs, terms, contexts, locals, built>>

\* The configurations computed anew for every file.
ConfigureAnew(w) ==
  /\ job[w].phase = "parsed"
  /\ job[w].text \notin Broken
  /\ \E a \in Addresses :
       /\ configs[a] = None
       /\ configs' = [configs EXCEPT ![a] = Dir[job[w].file]]
       /\ job' = [job EXCEPT ![w].phase = "sources", ![w].config = a]
  /\ UNCHANGED <<left, terms, contexts, locals, built>>

\* Files without a nested .rubocop.yml share the run's configurations, others get some of
\* their own (owned_base_configs), at any free address.
Configure(w) ==
  /\ job[w].phase = "parsed"
  /\ job[w].text \notin Broken
  /\ \E a \in Addresses :
       /\ IF Dir[job[w].file] = Root THEN a = Base ELSE configs[a] = None
       /\ configs' = [configs EXCEPT ![a] = Dir[job[w].file]]
       /\ job' = [job EXCEPT ![w].phase = "sources", ![w].config = a]
  /\ UNCHANGED <<left, terms, contexts, locals, built>>

\* get_or_build_terms, under the lock; from check_source and from check_node.
LookUpTerms(w) ==
  /\ job[w].phase \in {"sources", "nodes"}
  /\ LET a == job[w].config
     IN  /\ terms' = [terms EXCEPT ![a] = IF @ = None THEN configs[a] ELSE @]
         /\ job' = [job EXCEPT ![w].gotTerms = terms'[a]]
  /\ UNCHANGED <<left, configs, contexts, locals, built>>

\* What is found is added to what is there.
CheckSourceAdding(w) ==
  /\ job[w].phase = "sources"
  /\ ~job[w].checked
  /\ job' = [job EXCEPT ![w].checked = TRUE]
  /\ locals' = [locals EXCEPT ![w] = @ \union {job[w].text}]
  /\ UNCHANGED <<left, configs, terms, contexts, built>>

\* check_source fills the thread-local anew, or clears it, if the cop applies to the file.
CheckSource(w) ==
  /\ job[w].phase = "sources"
  /\ ~job[w].checked
  /\ job' = [job EXCEPT ![w].checked = TRUE]
  /\ \E found \in {{}, {job[w].text}} : locals' = [locals EXCEPT ![w] = found]
  /\ UNCHANGED <<left, configs, terms, contexts, built>>

\* The variable analysis and the walk over the tree.
Walk(w) ==
  /\ job[w].phase = "sources"
  /\ job' = [job EXCEPT ![w].phase = "nodes"]
  /\ UNCHANGED <<left, configs, terms, contexts, locals, built>>

\* The walk adds to the thread-local of a cop whose check_source ran.
Note(w) ==
  /\ job[w].phase = "nodes"
  /\ job[w].checked
  /\ locals' = [locals EXCEPT ![w] = @ \union {job[w].text}]
  /\ UNCHANGED <<left, job, configs, terms, contexts, built>>

\* The addresses alone.
CacheKeyOfPlace(w) == [place |-> job[w].place, length |-> 0]

CacheKey(w) == [place |-> job[w].place, length |-> Length[job[w].text]]

\* operator_context: built for the whole tree when the key is another.
LookUpContext(w) ==
  /\ job[w].phase = "nodes"
  /\ LET rebuild == contexts[w] = Unused \/ contexts[w].key # CacheKey(w)
     IN  /\ contexts' = IF rebuild
                        THEN [contexts EXCEPT ![w] =
                                [key |-> CacheKey(w), text |-> job[w].text]]
                        ELSE contexts
         /\ built' = IF rebuild
                     THEN [built EXCEPT ![w] = @ \union {<<job[w].text, job[w].place>>}]
                     ELSE built
         /\ job' = [job EXCEPT ![w].gotContext = contexts'[w].text]
  /\ UNCHANGED <<left, configs, terms, locals>>

\* The cops are done with the text, or it has structural errors and none saw it.
Done(w) ==
  \/ job[w].phase = "nodes"
  \/ job[w].phase = "parsed" /\ job[w].text \in Broken

\* Configurations of the file's own are dropped.
Dropped(w) ==
  IF job[w].config \in {None, Base} THEN configs
  ELSE [configs EXCEPT ![job[w].config] = None]

\* The next pass of the autocorrect loop, over the text that was corrected.
NextPass(w) ==
  /\ job[w].phase = "nodes"
  /\ job[w].pass < MaxPasses
  /\ \E t \in Texts \ {job[w].text}, p \in Free(w) :
       job' = [job EXCEPT ![w] = Parsed(@.file, t, @.pass + 1, p)]
  /\ configs' = Dropped(w)
  /\ UNCHANGED <<left, terms, contexts, locals, built>>

Finish(w) ==
  /\ Done(w)
  /\ job' = [job EXCEPT ![w] = Idle]
  /\ configs' = Dropped(w)
  /\ UNCHANGED <<left, terms, contexts, locals, built>>

Next ==
  \E w \in Workers :
    \/ Take(w) \/ Configure(w) \/ LookUpTerms(w) \/ CheckSource(w) \/ Walk(w)
    \/ Note(w) \/ LookUpContext(w) \/ NextPass(w) \/ Finish(w)

Spec == Init /\ [][Next]_vars

-----------------------------------------------------------------------------

\* inclusive_language.rs: "Since base configs are long-lived (entire lint run), the
\* pointers are stable": the terms a cop finds under its configuration's address were
\* built from that configuration.  The configurations of a file below a nested
\* .rubocop.yml live for a pass, and the next ones may lie where they lay.
TermsAreOfTheConfig ==
  \A w \in Workers : job[w].gotTerms # None => job[w].gotTerms = Dir[job[w].file]

\* A file that no nested .rubocop.yml governs gets the terms of the run's configuration,
\* whatever configurations of other files came and went.
RunTermsAreKept ==
  \A w \in Workers :
    job[w].gotTerms # None /\ Dir[job[w].file] = Root => job[w].gotTerms = Root

\* The operator contexts a cop gets are those of the text it looks at, unless this very
\* worker built some for a text of the same length that lay at the same place: no other
\* worker's, none of a text that a correction made longer or shorter.
ContextsAreOfTheText ==
  \A w \in Workers :
    LET j == job[w]
    IN  j.gotContext \notin {None, j.text} =>
          /\ Length[j.gotContext] = Length[j.text]
          /\ <<j.gotContext, j.place>> \in built[w]

\* What a hook of the variable analysis, or the walk, finds in a thread-local is of the
\* text under way, although nothing is cleared at the end of a file or a pass.
LocalsAreOfTheText ==
  \A w \in Workers : job[w].checked => locals[w] \subseteq {job[w].text}
=============================================================================
