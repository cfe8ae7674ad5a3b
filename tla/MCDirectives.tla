---------------------------- MODULE MCDirectives ----------------------------
(***************************************************************************)
(* One ordinary cop, names of each kind for it, and the runs over them,    *)
(* for TLC.                                                                *)
(***************************************************************************)
EXTENDS Directives, TLC

Cop == "Lint/Cop"
Other == "Lint/Other"
Self == "Lint/Redundant"
\* Not a cop of any release, but its short name is that of one cop alone: qualify makes
\* it that cop, and is_directive_redundant does not know it.
Misplaced == "Style/Cop"
\* A former name of the cop that qualify leaves alone, as Style/VariableName is while
\* both Naming/VariableName and RSpec/VariableName are registered.
Former == "Style/Former"

MCCops == {Cop, Other, Self}
MCDeptOf ==
  Cop :> "Lint" @@ Other :> "Lint" @@ Self :> "Lint" @@ Misplaced :> "Style"
    @@ Former :> "Style"
MCQualified == DOMAIN MCDeptOf
MCNames == MCQualified \union {"Lint", "Style", "all"}
MCKeyOf == [n \in MCNames |-> IF n = Misplaced THEN Cop ELSE n]
MCNewName == Former :> Cop
MCAliases == Cop :> {Former} @@ Other :> {} @@ Self :> {}
MCMentioned == {Cop, Misplaced, Former, Self, "Lint", "all"}

Run(only, except, status) ==
  [only |-> only, except |-> except, ignore |-> FALSE,
   status |-> Cop :> status @@ Other :> "off" @@ Self :> "on"]

MCSettings ==
  {Run({}, {}, s) : s \in Statuses}
    \union {Run({Self}, {}, "on"), Run({Other}, {}, "on"),
            [Run({}, {}, "off") EXCEPT !.ignore = TRUE]}
=============================================================================
