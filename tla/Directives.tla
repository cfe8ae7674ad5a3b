----------------------------- MODULE Directives -----------------------------
(***************************************************************************)
(* The comments that switch cops off and on in one file, as the linter     *)
(* reads them (DisabledRanges in src/parse/directives.rs) and uses them    *)
(* (lint_source_once and is_directive_redundant in src/linter.rs): ranges  *)
(* of lines per key, the offences they suppress, and the report of the     *)
(* directives that suppress nothing.                                       *)
(***************************************************************************)
EXTENDS Naturals, Sequences, FiniteSets

CONSTANTS
  Names,      \* the names a comment may give, after normalize_directive_cop_name,
              \* and the keys they stand for
  KeyOf,      \* KeyOf[n]: the key of the name n (DirectiveRegistryInfo::qualify)
  Qualified,  \* the names of the form Department/CopName
  DeptOf,     \* DeptOf[n]: the department of a qualified name
  All,        \* "all"
  Cops,       \* the names in the registry
  Redundant,  \* Lint/RedundantCopDisableDirective
  NewName,    \* NewName[o]: what the former cop name o is called now (RENAMED_COPS)
  Aliases,    \* Aliases[c]: the former names that suppress c (DIRECTIVE_LEGACY_ALIASES)
  Settings,   \* the arguments and the cops' filters a run may have
  Mentioned,  \* bound: the names its comments use
  MaxLine,    \* bound: lines of the file
  MaxNames,   \* bound: names in its directive comments
  MaxOffences \* bound: offences in the file

Lines == 1 .. MaxLine
Eof == MaxLine + 1  \* usize::MAX

\* What the filters of a cop say of the file: "on", it runs; "off", not enabled;
\* "excluded" by Exclude; "unmatched" by Include; "nested", it runs, for the nearest
\* configuration does not exclude the file, though the root's Exclude names it.
Statuses == {"on", "off", "excluded", "unmatched", "nested"}

\* Of the registry and the table of renames: no former name is a cop again, or has the
\* short name of another cop than the one it was renamed to.
ASSUME ConstantsOK ==
  /\ KeyOf \in [Names -> Names]
  /\ Qualified \subseteq Names
  /\ DeptOf \in [Qualified -> Names \ Qualified]
  /\ All \in Names \ Qualified
  /\ Cops \subseteq Qualified
  /\ Redundant \in Cops
  /\ \A c \in Cops : KeyOf[c] = c
  /\ NewName \in [DOMAIN NewName -> Names]
  /\ DOMAIN NewName \subseteq Qualified \ Cops
  /\ \A o \in DOMAIN NewName : KeyOf[o] \in {o} \union ({NewName[o]} \cap Cops)
  /\ Aliases \in [Cops -> SUBSET DOMAIN NewName]
  /\ \A c \in Cops : \A o \in Aliases[c] : NewName[o] = c
  /\ Settings \subseteq [only : SUBSET Cops, except : SUBSET Cops, ignore : BOOLEAN,
                         status : [Cops -> Statuses]]
  /\ Mentioned \subseteq Names
  /\ MaxLine \in Nat
  /\ MaxNames \in Nat
  /\ MaxOffences \in Nat

VARIABLES
  setting,     \* --only, --except, --ignore-disable-comments, the cops' filters
  offends,     \* <<c, l>>: run on this file, cop c reports an offence in line l
  written,     \* the names in the comments read so far, one after the other (history)
  phase,       \* "scan", "filter", "report", "done"
  ranges,      \* ranges[k]: the closed ranges of lines of key k
  open,        \* open_disables[k]: the directive whose range is open, 0 if none is
  directives,  \* the disable directives; at is the index in written
  shown,       \* the cops' diagnostics
  reported     \* the directives reported as redundant

vars == <<setting, offends, written, phase, ranges, open, directives, shown, reported>>
file == <<setting, offends>>
output == <<shown, reported>>

Mentions == [verb : {"disable", "enable"}, name : Names, line : Lines, inline : BOOLEAN]
DirectiveRecords ==
  [name : Names, at : Nat, first : Lines, last : 1 .. Eof, used : BOOLEAN]

TypeOK ==
  /\ setting \in Settings
  /\ offends \subseteq Cops \X Lines
  /\ written \in Seq(Mentions)
  /\ phase \in {"scan", "filter", "report", "done"}
  /\ ranges \in [Names -> SUBSET (Lines \X (1 .. Eof))]
  /\ open \in [Names -> Nat]
  /\ directives \in Seq(DirectiveRecords)
  /\ shown \subseteq Cops \X Lines
  /\ reported \subseteq DOMAIN directives

-----------------------------------------------------------------------------

Matches(c) == setting.status[c] \in {"on", "nested"}

\* --only with this cop alone runs all the others to see which directives they use.
RunAllForRedundant == setting.only = {Redundant}

AllCopsRan == RunAllForRedundant \/ (setting.only = {} /\ setting.except = {})

Runs(c) ==
  /\ c # Redundant
  /\ setting.only = {} \/ RunAllForRedundant \/ c \in setting.only
  /\ c \notin setting.except
  /\ Matches(c)

\* The diagnostics of the cops before the comments are looked at.
Found == {o \in offends : Runs(o[1])}

Init ==
  /\ setting \in Settings
  /\ offends \in SUBSET ({c \in Cops \ {Redundant} : Matches(c)} \X Lines)
  /\ Cardinality(offends) <= MaxOffences
  /\ written = <<>>
  /\ phase = "scan"
  /\ ranges = [k \in Names |-> {}]
  /\ open = [k \in Names |-> 0]
  /\ directives = <<>>
  /\ shown = Found
  /\ reported = {}

\* The next name is in the comment of the last one or in one further down.
Follows(m) ==
  /\ phase = "scan"
  /\ Len(written) < MaxNames
  /\ written # <<>> =>
       LET last == written[Len(written)] IN
       \/ m.line > last.line
       \/ m.line = last.line /\ m.verb = last.verb /\ m.inline = last.inline
  /\ written' = Append(written, m)

\* What a range left open by one of the keys ks becomes when it is closed in line l.
RangesClosed(ks, l) ==
  [k \in Names |-> IF k \in ks /\ open[k] # 0
                   THEN ranges[k] \union {<<directives[open[k]].first, l>>}
                   ELSE ranges[k]]
DirectivesClosedNot(ks, l) == directives
DirectivesClosed(ks, l) ==
  [i \in DOMAIN directives |-> IF \E k \in ks : open[k] = i
                               THEN [directives[i] EXCEPT !.last = l]
                               ELSE directives[i]]
OpenClosed(ks) == [k \in Names |-> IF k \in ks THEN 0 ELSE open[k]]

DirectiveOf(n, l, last) ==
  [name |-> n, at |-> Len(written) + 1, first |-> l, last |-> last, used |-> FALSE]

Mention(verb, n, l, inline) == [verb |-> verb, name |-> n, line |-> l, inline |-> inline]

\* A comment behind code: its own line only.
DisableInline(n, l) ==
  /\ Follows(Mention("disable", n, l, TRUE))
  /\ ranges' = [ranges EXCEPT ![KeyOf[n]] = @ \union {<<l, l>>}]
  /\ directives' = Append(directives, DirectiveOf(n, l, l))
  /\ UNCHANGED <<file, phase, open, output>>

\* The entry of an open directive for the key is overwritten.
DisableOverwrites(n, l) ==
  /\ Follows(Mention("disable", n, l, FALSE))
  /\ directives' = Append(directives, DirectiveOf(n, l, Eof))
  /\ open' = [open EXCEPT ![KeyOf[n]] = Len(directives) + 1]
  /\ UNCHANGED <<file, phase, ranges, output>>
\* A comment on a line of its own: from here on; one that is open for the key ends here.
Disable(n, l) ==
  /\ Follows(Mention("disable", n, l, FALSE))
  /\ ranges' = RangesClosed({KeyOf[n]}, l)
  /\ directives' = Append(DirectivesClosed({KeyOf[n]}, l), DirectiveOf(n, l, Eof))
  /\ open' = [open EXCEPT ![KeyOf[n]] = Len(directives) + 1]
  /\ UNCHANGED <<file, phase, output>>

\* An enable of key k ends what is open for key o: everything, or the key itself
\* and, if k is not qualified, the keys of that department.
Closes(k, o) ==
  \/ k = All
  \/ k = o
  \/ k \notin Qualified /\ o \in Qualified /\ DeptOf[o] = k
ClosedBy(k) == {o \in Names : Closes(k, o)}

\* An enable behind code does nothing, whatever it names.
EnableInline(l) ==
  /\ Follows(Mention("enable", All, l, TRUE))
  /\ UNCHANGED <<file, phase, ranges, open, directives, output>>

Enable(n, l) ==
  LET ks == ClosedBy(KeyOf[n]) IN
  /\ Follows(Mention("enable", n, l, FALSE))
  /\ ranges' = RangesClosed(ks, l)
  /\ directives' = DirectivesClosed(ks, l)
  /\ open' = OpenClosed(ks)
  /\ UNCHANGED <<file, phase, output>>

\* What is still open lasts to the end of the file.
EndOfFile ==
  /\ phase = "scan"
  /\ phase' = "filter"
  /\ ranges' = RangesClosed(Names, Eof)
  /\ directives' = DirectivesClosed(Names, Eof)
  /\ open' = OpenClosed(Names)
  /\ UNCHANGED <<file, written, output>>

-----------------------------------------------------------------------------

Within(l, r) == r[1] <= l /\ l <= r[2]

\* check_ranges
InRange(k, l) == \E r \in ranges[k] : Within(l, r)

\* The keys that suppress cop c.
KeysFor(c) == {c, DeptOf[c], All} \union Aliases[c]
IsDisabled(c, l) == \E k \in KeysFor(c) : InRange(k, l)

\* A directive is looked up by the name as written.
MarksByName(d, o) ==
  /\ d.name \in KeysFor(o[1])
  /\ InRange(d.name, o[2])
  /\ Within(o[2], <<d.first, d.last>>)
\* mark_directives_used, for the diagnostic o and directive d
Marks(d, o) ==
  /\ KeyOf[d.name] \in KeysFor(o[1])
  /\ InRange(KeyOf[d.name], o[2])
  /\ Within(o[2], <<d.first, d.last>>)

\* Every diagnostic is dropped if a range has it and marks the directives it is under.
Filter ==
  /\ phase = "filter"
  /\ phase' = "report"
  /\ directives' =
       [i \in DOMAIN directives |->
          [directives[i] EXCEPT
             !.used = ~setting.ignore /\ \E o \in Found : Marks(directives[i], o)]]
  /\ shown' = IF RunAllForRedundant THEN {}
              ELSE {o \in Found : setting.ignore \/ ~IsDisabled(o[1], o[2])}
  /\ UNCHANGED <<file, written, ranges, open, reported>>

\* A registered cop that does not look at the file, or did and left the directive unused.
RegisteredRedundant(n) ==
  \/ setting.status[n] \in {"off", "excluded", "nested"}
  \/ AllCopsRan /\ Matches(n)

\* A former name, unless --only may have kept the cop it now is from running.
RenamedRedundant(n) ==
  ~ /\ setting.only # {}
    /\ ~AllCopsRan
    /\ NewName[n] \in Cops
    /\ setting.status[NewName[n]] \in {"on", "unmatched"}

UnknownRedundant == setting.only = {} \/ Redundant \in setting.only

\* is_directive_redundant
IsRedundant(n) ==
  /\ n \in Qualified \ {Redundant}
  /\ \/ n \in Cops /\ RegisteredRedundant(n)
     \/ n \in DOMAIN NewName /\ RenamedRedundant(n)
     \/ n \notin Cops \union DOMAIN NewName /\ UnknownRedundant

\* Whether redundant directives are looked for at all.
ReportsRedundant ==
  /\ ~setting.ignore
  /\ Redundant \notin setting.except
  /\ Matches(Redundant)

Report ==
  /\ phase = "report"
  /\ phase' = "done"
  /\ reported' = {i \in DOMAIN directives :
                    /\ ReportsRedundant
                    /\ ~directives[i].used
                    /\ ~InRange(Redundant, directives[i].first)
                    /\ IsRedundant(directives[i].name)}
  /\ UNCHANGED <<file, written, ranges, open, directives, shown>>

Scan ==
  \E l \in Lines :
    \/ \E n \in Mentioned : DisableInline(n, l) \/ Disable(n, l) \/ Enable(n, l)
    \/ EnableInline(l)

Next == Scan \/ EndOfFile \/ Filter \/ Report

Spec == Init /\ [][Next]_vars

-----------------------------------------------------------------------------

\* The key k is among those that suppress cop c.
Covers(k, c) == k \in KeysFor(c)

\* What the comments w ask for, read off them without ranges or open directives: the
\* disable at place i reaches line l, if no enable on a line of its own ended it before.
Reaches(w, i, l) ==
  /\ w[i].verb = "disable"
  /\ IF w[i].inline
     THEN l = w[i].line
     ELSE /\ w[i].line <= l
          /\ \A j \in i + 1 .. Len(w) :
               /\ w[j].verb = "enable"
               /\ ~w[j].inline
               /\ Closes(KeyOf[w[j].name], KeyOf[w[i].name])
               => l <= w[j].line

\* One of the disables at the places S reaches the offence o.
SuppressedBy(S, o) ==
  \E i \in S : Covers(KeyOf[written[i].name], o[1]) /\ Reaches(written, i, o[2])

\* When they have been read, the ranges say of every cop and line what the comments ask for: however disables of
\* a cop, its former names, its department and "all" nest, repeat or overlap, a repeated
\* disable leaves no gap and no enable ends too little or too much.
SuppressedAsWritten ==
  phase = "filter" =>
    \A c \in Cops, l \in Lines : IsDisabled(c, l) <=> SuppressedBy(DOMAIN written, <<c, l>>)

\* The comments left when those reported as redundant are deleted.
Kept == DOMAIN written \ {directives[i].at : i \in reported}

\* None of the offences that the comments suppress comes back without those reported.
StillSuppressed(offences) ==
  \A o \in offences : SuppressedBy(DOMAIN written, o) => SuppressedBy(Kept, o)

\* What a run left out does not count for the report: there is no --except, --only does
\* not select the redundancy cop beside others, and the file is not in a directory whose
\* configuration takes back an Exclude of the root's.
LeavesNothingOut ==
  /\ setting.except = {}
  /\ Redundant \in setting.only => RunAllForRedundant
  /\ \A c \in Cops : setting.status[c] # "nested"

\* Deleting all the comments that were reported as redundant brings back nothing this run
\* found, and if LeavesNothingOut nothing that a run over all cops would find: --only may
\* keep the cops a comment is for from running, and the comment is not reported.
ReportedIsRedundant ==
  phase = "done" =>
    /\ StillSuppressed(Found)
    /\ LeavesNothingOut => StillSuppressed(offends)

\* When all cops ran, a comment that names a cop and reaches none of its offences is
\* reported: no directive counts as used on account of lines after the enable that ends
\* it. Those of this very cop, in lines where this cop is off, and for cops that Include
\* keeps from the file are not asked for.
RedundantIsReported ==
  phase = "done" /\ AllCopsRan /\ ReportsRedundant =>
    \A i \in DOMAIN directives :
      LET d == directives[i] IN
      /\ d.name \in Qualified \ {Redundant}
      /\ d.name \in Cops => setting.status[d.name] # "unmatched"
      /\ ~SuppressedBy(DOMAIN written, <<Redundant, d.first>>)
      /\ \A o \in Found : ~(Covers(KeyOf[d.name], o[1]) /\ Reaches(written, d.at, o[2]))
      => i \in reported
=============================================================================
