--------------------------- MODULE VariableForce ---------------------------
(***************************************************************************)
(* The walk that decides which assignments to a local variable are useless *)
(* (src/cop/variable_force, for Lint/UselessAssignment), over every        *)
(* program of a bounded size: the actions are the nodes the engine visits, *)
(* in the order it visits them, for one name x.  Beside what the engine    *)
(* keeps, the model follows which assignments really reach which reads.    *)
(***************************************************************************)
EXTENDS Naturals, Sequences

CONSTANTS
  MaxPos,    \* bound on the reads, assignments and constructs of the program
  MaxDepth,  \* bound on how deep the constructs nest
  MaxArms    \* bound on the arms of a conditional and the clauses of a rescue

ASSUME BoundsAreNaturals == MaxPos \in Nat /\ MaxDepth \in Nat /\ MaxArms \in Nat

VARIABLES
  scopes,    \* the stack of VariableTable
  path,      \* Engine::branch_stack
  open,      \* the constructs the walk is inside of
  pos,       \* the offset of what comes next
  reported,  \* the assignments reported as useless
  flow,      \* the assignments whose value x may have here (history)
  seen       \* the assignments that some read, or some closure, sees, and those in the
             \* body of a begin (history)

vars == <<scopes, path, open, pos, reported, flow, seen>>

\* A branch: the child of the construct at offset parent, taken in that scope.  A jump
\* may lead out of it into another child (may_jump_to_other_branch and
\* may_run_incompletely, which go together); back is loop_back_edge_branch.
Context ==
  [parent : Nat, child : Nat, scope : Nat, jumps : BOOLEAN, back : BOOLEAN]

Assignment ==
  [at : Nat, path : Seq(Context), modifier : BOOLEAN,
   referenced : BOOLEAN, reassigned : BOOLEAN]

\* A scope and its variable x, if it has one.
Scope ==
  [hard : BOOLEAN, declared : BOOLEAN, captured : BOOLEAN,
   writes : Seq(Assignment), reads : SUBSET Nat]

\* plain: by the order of the program; raised: through an exception.  The offset of a
\* loop stands for the values of x an earlier iteration left.
Flow == [plain : SUBSET Nat, raised : SUBSET Nat]

Kinds == {"cond", "modifier", "logic", "while", "body", "post", "test", "begin", "rescue",
          "else", "ensured", "ensure", "block", "own", "def", "class"}

\* scope and path: the scope and the branches it is in.
Frame ==
  [kind : Kinds, at : Nat, arm : Nat, scope : Nat, path : Seq(Context),
   entry : Flow, out : Flow, thrown : Flow, end : Flow]

TypeOK ==
  /\ scopes \in Seq(Scope)
  /\ path \in Seq(Context)
  /\ open \in Seq(Frame)
  /\ pos \in Nat
  /\ reported \subseteq Nat
  /\ flow \in Flow
  /\ seen \in [plain : SUBSET Nat, raised : SUBSET Nat, around : SUBSET Nat,
               captured : SUBSET Nat, later : SUBSET Nat, body : SUBSET Nat]

NoFlow == [plain |-> {}, raised |-> {}]

NewScope(hard) ==
  [hard |-> hard, declared |-> FALSE, captured |-> FALSE, writes |-> <<>>, reads |-> {}]

Init ==
  /\ scopes = <<NewScope(TRUE)>>
  /\ path = <<>>
  /\ open = <<>>
  /\ pos = 1
  /\ reported = {}
  /\ flow = NoFlow
  /\ seen = [plain |-> {}, raised |-> {}, around |-> {}, captured |-> {}, later |-> {},
             body |-> {}]

-----------------------------------------------------------------------------
(* The variable table. *)

Top == Len(scopes)

\* The scopes of find_variable: up to the first hard one.
Accessible == {s \in 1..Top : \A t \in s + 1..Top : ~scopes[t].hard}

Declaring == {s \in Accessible : scopes[s].declared}

Home == CHOOSE s \in Declaring : \A t \in Declaring : t <= s

\* relevant_branch_path: the branches in scope s, in their places; those around it are the
\* same for every assignment in s itself, and a block inside it starts with no branches.
Relevant(p, s) == [i \in {k \in DOMAIN p : p[k].scope >= s} |-> p[i]]

\* Variable::assign: the last assignment is overwritten if it is on the same branch.
Overwrites(ws, s, p, j) ==
  /\ j = Len(ws)
  /\ ~ws[j].referenced
  /\ Relevant(ws[j].path, s) = Relevant(p, s)

\* Also in a variable that a block uses.
AssignedUncaptured(sc, p, modifier) ==
  LET s == IF Declaring = {} THEN Top ELSE Home
      ws == sc[s].writes
      new == [at |-> pos, path |-> p, modifier |-> modifier,
              referenced |-> FALSE, reassigned |-> FALSE]
      Kept(j) == [ws[j] EXCEPT !.reassigned = @ \/ Overwrites(ws, s, p, j)]
  IN  [sc EXCEPT ![s] =
         [sc[s] EXCEPT !.declared = TRUE,
                   !.captured = @ \/ s # Top,
                   !.writes = Append([j \in DOMAIN ws |-> Kept(j)], new)]]

\* VariableTable::assign_to_variable, of an assignment with branch path p.
Assigned(sc, p, modifier) ==
  LET s == IF Declaring = {} THEN Top ELSE Home
      ws == sc[s].writes
      captured == sc[s].captured \/ s # Top
      new == [at |-> pos, path |-> p, modifier |-> modifier,
              referenced |-> FALSE, reassigned |-> FALSE]
      Kept(j) ==
        [ws[j] EXCEPT !.reassigned = @ \/ (~captured /\ Overwrites(ws, s, p, j))]
  IN  [sc EXCEPT ![s] =
         [sc[s] EXCEPT !.declared = TRUE,
                   !.captured = captured,
                   !.writes = Append([j \in DOMAIN ws |-> Kept(j)], new)]]

\* assignment_exclusive_with_reference: the innermost branch of the assignment that
\* can be left by a jump, or is of a construct the reference is in too, decides.
Exclusive(ap, rp) ==
  \E i \in DOMAIN ap :
    /\ \A k \in DOMAIN ap : k >= i => ~ap[k].jumps
    /\ \E r \in DOMAIN rp : rp[r].parent = ap[i].parent /\ rp[r].child # ap[i].child
    /\ \A k \in DOMAIN ap : k > i => \A r \in DOMAIN rp : rp[r].parent # ap[k].parent

\* Variable::reference: the last assignment only.
ReachesLast(ws, s, r, j) == j = Len(ws)

\* The backward walk of reference_with_branches, for a read on the branch r: does it
\* reach the assignment ws[j] and mark it?
Reaches(ws, s, r, j) ==
  LET Path(k) == Relevant(ws[k].path, s)
      Unbranched(k) == DOMAIN Path(k) = {}
      Stops(k) == ~ws[k].modifier /\ (Unbranched(k) \/ Path(k) = r)
      Consumes(k) ==
        /\ Path(k) = Path(j)
        /\ ~Unbranched(k)
        /\ ~ws[k].modifier
        /\ ~ws[k].path[Len(ws[k].path)].jumps
  IN  /\ \A k \in j + 1..Len(ws) : ~Stops(k) /\ ~Consumes(k)
      /\ ~Exclusive(Path(j), r)

\* VariableTable::reference_variable
Referenced ==
  LET s == Home
      ws == scopes[s].writes
      r == Relevant(path, s)
  IN  [scopes EXCEPT ![s] =
         [scopes[s] EXCEPT !.captured = @ \/ s # Top,
                   !.reads = @ \union {pos},
                   !.writes = [j \in DOMAIN ws |->
                      [ws[j] EXCEPT !.referenced = @ \/ Reaches(ws, s, r, j)]]]]

\* The scopes after a read of x in the node that is the first to mention it.
FirstReferenced == [scopes EXCEPT ![Top].reads = @ \union {pos}]

\* The last assignment only.
LoopMarkedLast(start) ==
  IF Declaring = {} \/ \A r \in scopes[Home].reads : r < start
  THEN scopes
  ELSE LET ws == scopes[Home].writes
           Marks(j) == ws[j].at > start /\ j = Len(ws)
       IN  [scopes EXCEPT ![Home].writes = [j \in DOMAIN ws |->
              [ws[j] EXCEPT !.referenced = @ \/ Marks(j)]]]

\* mark_loop_back_edges, for the loop at offset start: if x is read in it, its last
\* assignment in it and those on a conditional branch count as referenced.
LoopMarked(start) ==
  IF Declaring = {} \/ \A r \in scopes[Home].reads : r < start
  THEN scopes
  ELSE LET ws == scopes[Home].writes
           Marks(j) ==
             /\ ws[j].at > start
             /\ \/ j = Len(ws)
                \/ \E k \in DOMAIN ws[j].path : ws[j].path[k].back
       IN  [scopes EXCEPT ![Home].writes = [j \in DOMAIN ws |->
              [ws[j] EXCEPT !.referenced = @ \/ Marks(j)]]]

\* Whatever blocks do with the variable.
UselessUnreferenced ==
  LET sc == scopes[Top]
  IN  {sc.writes[j].at : j \in {k \in DOMAIN sc.writes : ~sc.writes[k].referenced}}

\* Assignment::used, of the assignments of the scope about to be left.
Useless ==
  LET sc == scopes[Top]
  IN  {sc.writes[j].at : j \in {k \in DOMAIN sc.writes :
         /\ ~sc.writes[k].referenced
         /\ sc.writes[k].reassigned \/ ~sc.captured}}

-----------------------------------------------------------------------------
(* What really happens to the value of x. *)

Join(f, g) == [plain |-> f.plain \union g.plain, raised |-> f.raised \union g.raised]

\* Every begin that the walk is inside of, in this method and in front of its ensure
\* clause, can be left here with the values in f.
Raising(f) ==
  [i \in DOMAIN open |->
     IF /\ open[i].kind \in {"begin", "rescue", "else", "ensured"}
        /\ \A k \in i + 1..Len(open) : open[k].kind \notin {"own", "def", "class"}
     THEN [open[i] EXCEPT !.end = Join(@, f)]
     ELSE open[i]]

\* f, where what an earlier iteration of the loop at offset h left is in g.
Unrolled(f, h, g) ==
  LET out == [plain |-> f.plain \ {h}, raised |-> f.raised \ {h}]
      in == [plain |-> g.plain \ {h}, raised |-> g.raised \ {h}]
  IN  IF h \in f.plain THEN Join(out, in)
      ELSE IF h \in f.raised
      THEN [out EXCEPT !.raised = @ \union in.plain \union in.raised]
      ELSE out

\* The assignments the walk back from a read may not get to, although an exception can
\* carry them there: those followed by another on the same branch, where that is not
\* the body of a begin, or by one in a block.
Hidden ==
  IF Declaring = {} THEN {}
  ELSE LET ws == scopes[Home].writes
           Branches(k) == Relevant(ws[k].path, Home)
           OnBranch(k) == DOMAIN Branches(k) # {} /\ ws[k].at \notin seen.body
       IN  {ws[j].at : j \in {k \in DOMAIN ws : \E l \in k + 1..Len(ws) :
              \/ OnBranch(k) /\ Branches(l) = Branches(k)
              \/ ws[l].path = <<>>}}

\* The assignments in g reach the reads that saw the loop at offset h.
Around(h, g, left) ==
  IF h \in seen.plain \union seen.raised
  THEN [seen EXCEPT !.around =
          @ \union ((g.plain \union (g.raised \ Hidden)) \ ({h} \union left))]
  ELSE seen

\* The assignments in the loop at offset h that are on no conditional branch and not
\* the last.
Sequential(h) ==
  IF Declaring = {} THEN {}
  ELSE LET ws == scopes[Home].writes
       IN  {ws[j].at : j \in {k \in 1..Len(ws) - 1 :
              ws[k].at > h /\ \A c \in DOMAIN ws[k].path : ~ws[k].path[c].back}}

\* A read here sees what is in the flow; a block that mentions x can run later and see
\* what is assigned from here on.
Sees ==
  [seen EXCEPT
     !.plain = @ \union flow.plain,
     !.raised = @ \union (flow.raised \ Hidden),
     !.captured = IF Home # Top THEN @ \union flow.plain ELSE @]

\* A variable declared here is no block's.
FirstSees ==
  [seen EXCEPT !.plain = @ \union flow.plain, !.raised = @ \union flow.raised]

\* Right in the body of a begin.
InBody ==
  \E i \in DOMAIN open :
    /\ open[i].kind \in {"begin", "ensured"}
    /\ \A k \in i + 1..Len(open) : open[k].kind \in {"while", "test", "ensure"}

Wrote(sn) == IF InBody THEN [sn EXCEPT !.body = @ \union {pos}] ELSE sn

SeesWritten(sn) ==
  IF Declaring = {} THEN sn
  ELSE [sn EXCEPT
          !.captured = IF Home # Top THEN @ \union flow.plain ELSE @,
          !.later = IF Home # Top \/ scopes[Home].captured THEN @ \union {pos} ELSE @]

-----------------------------------------------------------------------------
(* The nodes. *)

Branch(at, child, jumps, back) ==
  [parent |-> at, child |-> child, scope |-> Top, jumps |-> jumps, back |-> back]

\* The walk goes on behind a node that leaves the values in f.
Passed(f) ==
  /\ pos < MaxPos
  /\ Top > 0
  /\ pos' = pos + 1
  /\ flow' = f
  /\ open' = Raising(f)

Written == [plain |-> {pos}, raised |-> {}]

\* x = v
Write ==
  /\ Passed(Written)
  /\ scopes' = Assigned(scopes, path, FALSE)
  /\ seen' = SeesWritten(Wrote(seen))
  /\ UNCHANGED <<path, reported>>

\* x = v if c
WriteModified ==
  /\ Passed(Join(flow, Written))
  /\ scopes' = Assigned(scopes, Append(path, Branch(pos, 0, FALSE, TRUE)), TRUE)
  /\ seen' = SeesWritten(seen)
  /\ UNCHANGED <<path, reported>>

\* A read of x; before its first assignment x is not a variable.
Read ==
  /\ Passed(flow)
  /\ Declaring # {}
  /\ scopes' = Referenced
  /\ seen' = Sees
  /\ UNCHANGED <<path, reported>>

\* x ||= v and x &&= v: read, and then assigned or not.
WriteShort ==
  /\ Passed(Join(flow, Written))
  /\ Declaring # {}
  /\ scopes' = Assigned(Referenced, path, FALSE)
  /\ seen' = SeesWritten(Wrote(Sees))
  /\ UNCHANGED <<path, reported>>

\* The same as the first mention of x: it is declared, and read as nil.
FirstShort ==
  /\ Passed(Join(flow, Written))
  /\ Declaring = {}
  /\ scopes' = Assigned(FirstReferenced, path, FALSE)
  /\ seen' = SeesWritten(Wrote(FirstSees))
  /\ UNCHANGED <<path, reported>>

\* The walk enters a construct, goes on on branch p, and finds the values in f there; before
\* are those in front of it.  A construct with nothing in it changes nothing: none but a
\* modifier, whose condition is part of it, comes last within the bound.
Enters(kind, p, before, f) ==
  /\ pos < MaxPos
  /\ pos + 1 < MaxPos \/ kind = "modifier"
  /\ Top > 0
  /\ Len(open) < MaxDepth
  /\ pos' = pos + 1
  /\ path' = p
  /\ flow' = f
  /\ open' = Append(open, [kind |-> kind, at |-> pos, arm |-> 0, scope |-> Top,
                           path |-> path, entry |-> before, out |-> NoFlow,
                           thrown |-> NoFlow, end |-> before])

Last == open[Len(open)]

Inside(kinds) == open # <<>> /\ Last.kind \in kinds

\* What x may be when an exception leaves the construct.
Unwinding == Last.end.plain \union Last.end.raised

\* The walk goes on in another part of the construct.
Turns(frame, p, f) ==
  /\ open' = [open EXCEPT ![Len(open)] = frame]
  /\ path' = p
  /\ flow' = f
  /\ UNCHANGED pos

\* The walk leaves the construct.
Leaves(f) ==
  /\ open' = SubSeq(open, 1, Len(open) - 1)
  /\ path' = Last.path
  /\ flow' = f
  /\ UNCHANGED pos

\* if, unless and case: the first arm, after the predicate.
Cond ==
  /\ Enters("cond", Append(path, Branch(pos, 0, FALSE, TRUE)), flow, flow)
  /\ UNCHANGED <<scopes, reported, seen>>

\* body if (x = v)
CondModified ==
  /\ Enters("modifier", Append(path, Branch(pos, 0, FALSE, TRUE)), Written, Written)
  /\ scopes' = Assigned(scopes, path, TRUE)
  /\ seen' = SeesWritten(Wrote(seen))
  /\ UNCHANGED reported

Arm ==
  /\ Inside({"cond"})
  /\ Last.arm + 1 < MaxArms
  /\ Turns([Last EXCEPT !.arm = @ + 1, !.out = Join(@, flow)],
           Append(Last.path, Branch(Last.at, Last.arm + 1, FALSE, TRUE)), Last.entry)
  /\ UNCHANGED <<scopes, reported, seen>>

\* The last arm of two or more may be an else, that of one is not.
EndCond ==
  /\ Inside({"cond", "modifier"})
  /\ \E f \in {Last.entry} \union (IF Last.arm > 0 THEN {NoFlow} ELSE {}) :
       Leaves(Join(f, Join(Last.out, flow)))
  /\ UNCHANGED <<scopes, reported, seen>>

\* The right operand of && and ||.
Logic ==
  /\ Enters("logic", Append(path, Branch(pos, 1, FALSE, FALSE)), flow, flow)
  /\ UNCHANGED <<scopes, reported, seen>>

EndLogic ==
  /\ Inside({"logic"})
  /\ Leaves(Join(Last.entry, flow))
  /\ UNCHANGED <<scopes, reported, seen>>

Looping == Join(flow, Written)

\* while and until: the predicate, the body, and back.
While ==
  /\ Enters("while", path, flow, Looping)
  /\ UNCHANGED <<scopes, reported, seen>>

Body ==
  /\ Inside({"while"})
  /\ Turns([Last EXCEPT !.kind = "body", !.out = flow],
           Append(path, Branch(Last.at, 0, FALSE, FALSE)), flow)
  /\ UNCHANGED <<scopes, reported, seen>>

EndWhile ==
  /\ Inside({"body"})
  /\ Leaves(Unrolled(Last.out, Last.at, flow))
  /\ scopes' = LoopMarked(Last.at)
  /\ seen' = Around(Last.at, flow, Sequential(Last.at))
  /\ UNCHANGED reported

\* begin .. end while: the body first.
Post ==
  /\ Enters("post", Append(path, Branch(pos, 0, FALSE, FALSE)), flow, Looping)
  /\ UNCHANGED <<scopes, reported, seen>>

Test ==
  /\ Inside({"post"})
  /\ Turns([Last EXCEPT !.kind = "test"], Last.path, flow)
  /\ UNCHANGED <<scopes, reported, seen>>

EndPost ==
  /\ Inside({"test"})
  /\ Leaves(Unrolled(flow, Last.at, flow))
  /\ scopes' = LoopMarked(Last.at)
  /\ seen' = Around(Last.at, flow, Sequential(Last.at))
  /\ UNCHANGED reported

\* The body is a branch like any other.
BeginBranch ==
  /\ Enters("begin", Append(path, Branch(pos, 0, FALSE, TRUE)), flow, flow)
  /\ UNCHANGED <<scopes, reported, seen>>

\* begin .. rescue .. else .. end: the body may be left anywhere.
Begin ==
  /\ Enters("begin", Append(path, Branch(pos, 0, TRUE, TRUE)), flow, flow)
  /\ UNCHANGED <<scopes, reported, seen>>

Rescue ==
  /\ Inside({"begin", "rescue"})
  /\ Last.arm + 1 < MaxArms
  /\ LET first == Last.kind = "begin"
         thrown == IF first
                   THEN [plain |-> Last.entry.plain, raised |-> Unwinding]
                   ELSE Last.thrown
     IN  Turns([Last EXCEPT !.kind = "rescue", !.arm = @ + 1, !.thrown = thrown,
                            !.entry = IF first THEN flow ELSE @,
                            !.out = IF first THEN @ ELSE Join(@, flow)],
               Append(Last.path, Branch(Last.at, Last.arm + 1, FALSE, TRUE)), thrown)
  /\ UNCHANGED <<scopes, reported, seen>>

Else ==
  /\ Inside({"rescue"})
  /\ Turns([Last EXCEPT !.kind = "else", !.arm = @ + 1, !.out = Join(@, flow)],
           Append(Last.path, Branch(Last.at, Last.arm + 1, FALSE, TRUE)), Last.entry)
  /\ UNCHANGED <<scopes, reported, seen>>

\* What x may be behind the rescue and else clauses.
Rescued == Join(flow, IF Last.kind = "rescue" THEN Join(Last.out, Last.entry) ELSE Last.out)

EndBegin ==
  /\ Inside({"rescue", "else"})
  /\ Leaves(Rescued)
  /\ UNCHANGED <<scopes, reported, seen>>

\* begin .. ensure .. end, without a rescue.
Ensured ==
  /\ Enters("ensured", Append(path, Branch(pos, 0, TRUE, FALSE)), flow, flow)
  /\ UNCHANGED <<scopes, reported, seen>>

\* The ensure clause is no branch; an exception passes through it.
Ensure ==
  /\ Inside({"ensured", "rescue", "else"})
  /\ LET f == IF Last.kind = "ensured" THEN flow ELSE Rescued
     IN  Turns([Last EXCEPT !.kind = "ensure", !.entry = f], Last.path,
               [f EXCEPT !.raised = @ \union Unwinding])
  /\ UNCHANGED <<scopes, reported, seen>>

EndEnsure ==
  /\ Inside({"ensure"})
  /\ Leaves([flow EXCEPT !.raised = @ \ (Unwinding \ Last.entry.raised)])
  /\ UNCHANGED <<scopes, reported, seen>>

\* leave_scope; pop_scope expects a scope on the stack.
LeaveScope ==
  /\ Top > 1
  /\ reported' = reported \union Useless
  /\ scopes' = SubSeq(scopes, 1, Top - 1)

\* A block or lambda; x in it is the outer x if there is one.
Block ==
  /\ \/ Enters("own", <<>>, flow, NoFlow) /\ Declaring = {}
     \/ Enters("block", <<>>, flow, Looping) /\ Declaring # {}
  /\ scopes' = Append(scopes, NewScope(FALSE))
  /\ UNCHANGED <<reported, seen>>

EndBlock ==
  /\ Inside({"block"})
  /\ Leaves(Join(Last.entry, Unrolled(flow, Last.at, flow)))
  /\ LeaveScope
  /\ seen' = Around(Last.at, flow, {})

\* def starts with no branches, the body of a class keeps those around it.
Def ==
  /\ Enters("def", <<>>, flow, NoFlow)
  /\ scopes' = Append(scopes, NewScope(TRUE))
  /\ UNCHANGED <<reported, seen>>

Class ==
  /\ Enters("class", path, flow, NoFlow)
  /\ scopes' = Append(scopes, NewScope(TRUE))
  /\ UNCHANGED <<reported, seen>>

EndOwn ==
  /\ Inside({"own", "def", "class"})
  /\ Leaves(Last.entry)
  /\ LeaveScope
  /\ UNCHANGED seen

\* The end of the program.
EndProgram ==
  /\ open = <<>>
  /\ Top = 1
  /\ reported' = reported \union Useless
  /\ scopes' = <<>>
  /\ UNCHANGED <<path, open, pos, flow, seen>>

Next ==
  \/ Write \/ WriteModified \/ WriteShort \/ FirstShort \/ Read
  \/ Cond \/ CondModified \/ Arm \/ EndCond \/ Logic \/ EndLogic
  \/ While \/ Body \/ EndWhile \/ Post \/ Test \/ EndPost
  \/ Begin \/ Rescue \/ Else \/ EndBegin \/ Ensured \/ Ensure \/ EndEnsure
  \/ Block \/ EndBlock \/ Def \/ Class \/ EndOwn \/ EndProgram

Spec == Init /\ [][Next]_vars

-----------------------------------------------------------------------------

\* An assignment whose value some read gets when no exception is raised, on whatever
\* way through conditionals, short circuits, the first run of a loop or out of it,
\* rescue clauses and blocks, is not reported as useless, though the engine only walks
\* back over a list and compares branches.
LiveIsNotReported == reported \cap seen.plain = {}

\* Neither is one whose value an exception carries to a read, with the exceptions of
\* Hidden.  engine.rs: "references must keep walking past them".
RaisedIsNotReported == reported \cap seen.raised = {}

\* Neither is one whose value a read gets in a later run of a loop, except those of
\* Sequential, which mark_loop_back_edges leaves out on purpose: "Plain sequential
\* writes in the loop body are intentionally excluded."
AroundIsNotReported == reported \cap seen.around = {}

\* Neither is what x may be where a block or lambda takes hold of it, nor, next, what is
\* assigned to it from then on: the block can run at any time.
CapturedIsNotReported == reported \cap seen.captured = {}

\* An assignment to a variable some block already uses is never reported, on whichever
\* branch, in or out of the block, and whatever overwrites it.  variable.rs: "the block
\* may execute at any time and reference any assignment's value."
LaterIsNotReported == reported \cap seen.later = {}
=============================================================================
