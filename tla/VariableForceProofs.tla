------------------------ MODULE VariableForceProofs ------------------------
(* Proofs about VariableForce, for programs of any size. *)
EXTENDS VariableForce, SequenceTheorems, TLAPS

\* x is declared in one accessible scope at most: find_variable has no choice.
Single(sc) ==
  \A s, t \in 1..Len(sc) :
    s < t /\ sc[s].declared /\ sc[t].declared => \E u \in s + 1..t : sc[u].hard

\* The assignments are before offset n, and those in later are safe.
Safe(sc, n, later) ==
  \A s \in 1..Len(sc) : \A j \in DOMAIN sc[s].writes :
    /\ sc[s].writes[j].at < n
    /\ sc[s].writes[j].at \in later => sc[s].captured /\ ~sc[s].writes[j].reassigned

Inv ==
  /\ TypeOK
  /\ Single(scopes)
  /\ Safe(scopes, pos, seen.later)
  /\ \A r \in reported \union seen.later : r < pos
  /\ LaterIsNotReported

\* sc has the scopes of scopes, with the same declarations and no fewer captures.
Extends(sc) ==
  /\ sc \in Seq(Scope)
  /\ Len(sc) = Len(scopes)
  /\ \A s \in 1..Len(sc) :
       /\ sc[s].hard = scopes[s].hard
       /\ sc[s].declared = scopes[s].declared
       /\ scopes[s].captured => sc[s].captured

\* sc2 has the scopes and assignments of sc, with no fewer captured or referenced.
Milder(sc, sc2) ==
  /\ Len(sc2) = Len(sc)
  /\ \A s \in 1..Len(sc) :
       /\ sc2[s].hard = sc[s].hard
       /\ sc2[s].declared = sc[s].declared
       /\ sc[s].captured => sc2[s].captured
       /\ DOMAIN sc2[s].writes = DOMAIN sc[s].writes
       /\ \A j \in DOMAIN sc[s].writes :
            /\ sc2[s].writes[j].at = sc[s].writes[j].at
            /\ sc2[s].writes[j].path = sc[s].writes[j].path
            /\ sc2[s].writes[j].modifier = sc[s].writes[j].modifier
            /\ sc2[s].writes[j].reassigned = sc[s].writes[j].reassigned
            /\ sc[s].writes[j].referenced => sc2[s].writes[j].referenced

\* sc2 is sc after an assignment to the variable of scope s at offset n on branch p.
Adds(sc, sc2, s, n, p, modifier) ==
  /\ Len(sc2) = Len(sc)
  /\ \A t \in 1..Len(sc) : t # s => sc2[t] = sc[t]
  /\ sc2[s].hard = sc[s].hard
  /\ sc2[s].declared
  /\ sc2[s].captured <=> sc[s].captured \/ s # Len(sc)
  /\ Len(sc2[s].writes) = Len(sc[s].writes) + 1
  /\ sc2[s].writes[Len(sc[s].writes) + 1] =
       [at |-> n, path |-> p, modifier |-> modifier, referenced |-> FALSE,
        reassigned |-> FALSE]
  /\ \A j \in 1..Len(sc[s].writes) :
       /\ sc2[s].writes[j].at = sc[s].writes[j].at
       /\ sc2[s].writes[j].path = sc[s].writes[j].path
       /\ sc2[s].writes[j].modifier = sc[s].writes[j].modifier
       /\ sc2[s].writes[j].referenced <=> sc[s].writes[j].referenced
       /\ sc2[s].writes[j].reassigned <=>
            \/ sc[s].writes[j].reassigned
            \/ ~sc2[s].captured /\ Overwrites(sc[s].writes, s, p, j)

\* The assignments ws, where those m holds of count as referenced.
Marking(ws, m) == [j \in DOMAIN ws |-> [ws[j] EXCEPT !.referenced = @ \/ m[j]]]

\* The assignments ws, where those m holds of count as reassigned.
Overwriting(ws, m) == [j \in DOMAIN ws |-> [ws[j] EXCEPT !.reassigned = @ \/ m[j]]]

-----------------------------------------------------------------------------

\* The scope found is the one that declares x.
LEMMA HomeDeclares ==
  ASSUME TypeOK, Single(scopes), Declaring # {}
  PROVE  /\ Home \in 1..Len(scopes)
         /\ scopes[Home].declared
         /\ Home \in Declaring
<1>1. \A s, t \in Declaring : s = t
  <2>1. SUFFICES ASSUME NEW s \in Declaring, NEW t \in Declaring, s < t PROVE FALSE
    BY DEF Declaring, Accessible, Top, TypeOK
  <2>2. PICK u \in s + 1..t : scopes[u].hard
    BY <2>1 DEF Single, Declaring, Accessible, Top, TypeOK
  <2>3. u \in s + 1..Top /\ ~scopes[u].hard
    BY <2>1, <2>2 DEF Declaring, Accessible, Top, TypeOK
  <2>4. QED
    BY <2>2, <2>3
<1>2. \E s \in Declaring : \A t \in Declaring : t <= s
  BY <1>1 DEF Declaring, Accessible, Top, TypeOK
<1>3. Home \in Declaring
  BY <1>2 DEF Home
<1>4. QED
  BY <1>3 DEF Declaring, Accessible, Top

\* A sequence with one element replaced.
LEMMA Replaced ==
  ASSUME NEW S, NEW sc \in Seq(S), NEW s \in 1..Len(sc), NEW v \in S
  PROVE  LET new == [sc EXCEPT ![s] = v]
         IN  /\ new \in Seq(S)
             /\ Len(new) = Len(sc)
             /\ new[s] = v
             /\ \A t \in 1..Len(sc) : t # s => new[t] = sc[t]
  BY ExceptSeq

\* The scopes after marking some assignments as referenced.
LEMMA MilderIsSafe ==
  ASSUME Inv, NEW sc \in Seq(Scope), Milder(scopes, sc)
  PROVE  Extends(sc) /\ Single(sc) /\ Safe(sc, pos, seen.later)
<1>1. Extends(sc)
  BY DEF Extends, Milder
<1>2. Single(sc)
  <2>1. SUFFICES ASSUME NEW s \in 1..Len(sc), NEW t \in 1..Len(sc),
                        s < t, sc[s].declared, sc[t].declared
                 PROVE  \E u \in s + 1..t : sc[u].hard
    BY DEF Single
  <2>2. PICK u \in s + 1..t : scopes[u].hard
    BY <1>1, <2>1 DEF Inv, Single, Extends
  <2>3. u \in 1..Len(sc)
    BY <2>1, <2>2
  <2>4. QED
    BY <1>1, <2>2, <2>3 DEF Extends
<1>3. Safe(sc, pos, seen.later)
  BY DEF Inv, Safe, Milder
<1>4. QED
  BY <1>1, <1>2, <1>3

\* What a mark does to an assignment.
LEMMA Marked ==
  ASSUME NEW a \in Assignment, NEW m \in BOOLEAN
  PROVE  LET b == [a EXCEPT !.referenced = @ \/ m]
         IN  /\ b \in Assignment /\ b.at = a.at /\ b.path = a.path
             /\ b.modifier = a.modifier /\ b.reassigned = a.reassigned
             /\ b.referenced <=> a.referenced \/ m
  BY DEF Assignment

\* What marks, m, do to the assignments of a variable.
LEMMA AllMarked ==
  ASSUME NEW ws \in Seq(Assignment), NEW m \in [DOMAIN ws -> BOOLEAN]
  PROVE  /\ Marking(ws, m) \in Seq(Assignment)
         /\ DOMAIN Marking(ws, m) = DOMAIN ws
         /\ \A j \in DOMAIN ws :
              /\ Marking(ws, m)[j].at = ws[j].at
              /\ Marking(ws, m)[j].path = ws[j].path
              /\ Marking(ws, m)[j].modifier = ws[j].modifier
              /\ Marking(ws, m)[j].reassigned = ws[j].reassigned
              /\ Marking(ws, m)[j].referenced <=> ws[j].referenced \/ m[j]
<1> DEFINE new == Marking(ws, m)
<1>1. DOMAIN new = DOMAIN ws /\ DOMAIN ws = 1..Len(ws) /\ Len(ws) \in Nat
  BY DEF Marking
<1>2. ASSUME NEW j \in DOMAIN ws
      PROVE  /\ new[j] \in Assignment /\ new[j].at = ws[j].at /\ new[j].path = ws[j].path
             /\ new[j].modifier = ws[j].modifier /\ new[j].reassigned = ws[j].reassigned
             /\ new[j].referenced <=> ws[j].referenced \/ m[j]
  <2>1. ws[j] \in Assignment /\ m[j] \in BOOLEAN
    OBVIOUS
  <2>2. new[j] = [ws[j] EXCEPT !.referenced = @ \/ m[j]]
    BY DEF Marking
  <2> HIDE DEF new
  <2>3. QED
    BY <2>1, <2>2, Marked
<1>3. new \in Seq(Assignment)
  <2>1. new \in [1..Len(ws) -> Assignment]
    BY <1>1, <1>2 DEF Marking
  <2>2. QED
    BY <1>1, <2>1, SeqDef
<1>4. QED
  BY <1>1, <1>2, <1>3

\* The scopes, where one got marks on its assignments and perhaps a capture.
LEMMA MarkedScope ==
  ASSUME NEW sc \in Seq(Scope), NEW s \in 1..Len(sc),
         NEW m \in [DOMAIN sc[s].writes -> BOOLEAN],
         NEW v \in Scope, v.hard = sc[s].hard, v.declared = sc[s].declared,
         sc[s].captured => v.captured, v.writes = Marking(sc[s].writes, m),
         NEW sc2, sc2 = [sc EXCEPT ![s] = v]
  PROVE  /\ sc2 \in Seq(Scope) /\ Milder(sc, sc2) /\ sc2[s].captured = v.captured
         /\ \A j \in DOMAIN sc[s].writes :
              sc2[s].writes[j].referenced <=> sc[s].writes[j].referenced \/ m[j]
<1>1. /\ sc2 \in Seq(Scope)
      /\ Len(sc2) = Len(sc)
      /\ sc2[s] = v
      /\ \A t \in 1..Len(sc) : t # s => sc2[t] = sc[t]
  BY Replaced
<1> DEFINE ws == sc[s].writes
<1>2. ws \in Seq(Assignment)
  <2>1. sc[s] \in Scope
    OBVIOUS
  <2>2. QED
    BY <2>1 DEF Scope
<1> HIDE DEF ws
<1>3. /\ DOMAIN v.writes = DOMAIN ws
      /\ \A j \in DOMAIN ws :
           /\ v.writes[j].at = ws[j].at /\ v.writes[j].path = ws[j].path
           /\ v.writes[j].modifier = ws[j].modifier
           /\ v.writes[j].reassigned = ws[j].reassigned
           /\ v.writes[j].referenced <=> ws[j].referenced \/ m[j]
  BY <1>2, AllMarked DEF ws
<1>4. ASSUME NEW t \in 1..Len(sc), t # s
      PROVE  sc2[t] = sc[t]
  BY <1>1, <1>4
<1>5. Milder(sc, sc2)
  BY <1>1, <1>3 DEF Milder, ws
<1>6. QED
  BY <1>1, <1>3, <1>5 DEF ws

\* A read marks assignments and captures, nothing else.
LEMMA ReferencedIsMilder ==
  ASSUME Inv, Declaring # {}
  PROVE  /\ Referenced \in Seq(Scope) /\ Milder(scopes, Referenced)
         /\ Home # Top => Referenced[Home].captured
         /\ \A j \in DOMAIN scopes[Home].writes :
              Reaches(scopes[Home].writes, Home, Relevant(path, Home), j)
                => Referenced[Home].writes[j].referenced
<1> DEFINE ws == scopes[Home].writes
           m == [j \in DOMAIN ws |-> Reaches(ws, Home, Relevant(path, Home), j)]
           v == [scopes[Home] EXCEPT !.captured = @ \/ Home # Top,
                                     !.reads = @ \union {pos},
                                     !.writes = Marking(ws, m)]
<1>1. TypeOK /\ Home \in 1..Len(scopes) /\ scopes \in Seq(Scope) /\ pos \in Nat
  BY HomeDeclares DEF Inv, TypeOK
<1>2. scopes[Home] \in Scope /\ ws \in Seq(Assignment)
  <2>1. scopes[Home] \in Scope
    BY <1>1
  <2>2. QED
    BY <2>1 DEF Scope
<1>3. m \in [DOMAIN ws -> BOOLEAN]
  BY DEF Reaches
<1>4. Referenced = [scopes EXCEPT ![Home] = v]
  BY DEF Referenced, Marking
<1>5. \A j \in DOMAIN ws : Reaches(ws, Home, Relevant(path, Home), j) => m[j]
  OBVIOUS
<1> HIDE DEF m
<1>6. Marking(ws, m) \in Seq(Assignment)
  BY <1>2, <1>3, AllMarked
<1>7. v \in Scope
  BY <1>1, <1>2, <1>6 DEF Scope
<1>8. v.hard = scopes[Home].hard /\ v.declared = scopes[Home].declared
      /\ (scopes[Home].captured => v.captured) /\ (Home # Top => v.captured)
      /\ v.writes = Marking(ws, m)
  BY <1>2 DEF Scope
<1> DEFINE new == Referenced
<1> HIDE DEF v, new
<1>9. /\ new \in Seq(Scope) /\ Milder(scopes, new)
      /\ new[Home].captured = v.captured
      /\ \A j \in DOMAIN ws : new[Home].writes[j].referenced <=> ws[j].referenced \/ m[j]
  <2>1. new = [scopes EXCEPT ![Home] = v]
    BY <1>4 DEF new
  <2>2. new \in Seq(Scope) /\ Milder(scopes, new)
    BY <1>1, <1>3, <1>7, <1>8, <2>1, MarkedScope
  <2>3. new[Home].captured = v.captured
    BY <1>1, <1>3, <1>7, <1>8, <2>1, MarkedScope
  <2>4. \A j \in DOMAIN ws : new[Home].writes[j].referenced <=> ws[j].referenced \/ m[j]
    BY <1>1, <1>3, <1>7, <1>8, <2>1, MarkedScope
  <2>5. QED
    BY <2>2, <2>3, <2>4
<1>10. QED
  BY <1>5, <1>8, <1>9 DEF new

\* A read in the node that declares x marks none.
LEMMA FirstIsMilder ==
  ASSUME Inv, Top > 0
  PROVE  /\ FirstReferenced \in Seq(Scope) /\ Milder(scopes, FirstReferenced)
         /\ pos \in FirstReferenced[Top].reads
         /\ \A s \in 1..Len(scopes) : scopes[s].reads \subseteq FirstReferenced[s].reads
<1> DEFINE v == [scopes[Top] EXCEPT !.reads = @ \union {pos}]
<1>1. scopes \in Seq(Scope) /\ Top \in 1..Len(scopes) /\ pos \in Nat
  BY DEF Inv, TypeOK, Top
<1>2. scopes[Top] \in Scope
  BY <1>1
<1>3. /\ v \in Scope /\ v.reads = scopes[Top].reads \union {pos}
      /\ v.hard = scopes[Top].hard /\ v.declared = scopes[Top].declared
      /\ v.captured = scopes[Top].captured /\ v.writes = scopes[Top].writes
  BY <1>1, <1>2 DEF Scope
<1>4. FirstReferenced = [scopes EXCEPT ![Top] = v]
  BY DEF FirstReferenced
<1> HIDE DEF v
<1>5. /\ FirstReferenced \in Seq(Scope)
      /\ Len(FirstReferenced) = Len(scopes)
      /\ FirstReferenced[Top] = v
      /\ \A t \in 1..Len(scopes) : t # Top => FirstReferenced[t] = scopes[t]
  BY <1>1, <1>3, <1>4, Replaced
<1>6. Milder(scopes, FirstReferenced)
  BY <1>3, <1>5 DEF Milder
<1>7. QED
  BY <1>3, <1>5, <1>6

\* So do the back edges of a loop.
LEMMA LoopMarkedIsMilder ==
  ASSUME Inv, NEW start \in Nat
  PROVE  LoopMarked(start) \in Seq(Scope) /\ Milder(scopes, LoopMarked(start))
<1>a. CASE Declaring = {} \/ \A r \in scopes[Home].reads : r < start
  <2>1. LoopMarked(start) = scopes
    BY <1>a DEF LoopMarked
  <2>2. QED
    BY <2>1 DEF Milder, Inv, TypeOK
<1>b. CASE ~(Declaring = {} \/ \A r \in scopes[Home].reads : r < start)
  <2> DEFINE ws == scopes[Home].writes
             m == [j \in DOMAIN ws |->
                     /\ ws[j].at > start
                     /\ \/ j = Len(ws)
                        \/ \E k \in DOMAIN ws[j].path : ws[j].path[k].back]
             v == [scopes[Home] EXCEPT !.writes = Marking(ws, m)]
             new == LoopMarked(start)
  <2>1. TypeOK /\ Home \in 1..Len(scopes) /\ scopes \in Seq(Scope)
    BY <1>b, HomeDeclares DEF Inv, TypeOK
  <2>2. scopes[Home] \in Scope /\ ws \in Seq(Assignment)
    <3>1. scopes[Home] \in Scope
      BY <2>1
    <3>2. QED
      BY <3>1 DEF Scope
  <2>3. m \in [DOMAIN ws -> BOOLEAN]
    OBVIOUS
  <2>4. new = [scopes EXCEPT ![Home] = v]
    BY <1>b DEF LoopMarked, Marking
  <2> HIDE DEF m, new
  <2>5. Marking(ws, m) \in Seq(Assignment)
    BY <2>2, <2>3, AllMarked
  <2>6. v \in Scope
    BY <2>2, <2>5 DEF Scope
  <2>7. v.hard = scopes[Home].hard /\ v.declared = scopes[Home].declared
        /\ v.captured = scopes[Home].captured /\ v.writes = Marking(ws, m)
    BY <2>2 DEF Scope
  <2> HIDE DEF v
  <2>8. new \in Seq(Scope) /\ Milder(scopes, new)
    BY <2>1, <2>3, <2>4, <2>6, <2>7, MarkedScope
  <2>9. QED
    BY <2>8 DEF new
<1>c. QED
  BY <1>a, <1>b

\* What overwriting does to an assignment.
LEMMA Overwritten ==
  ASSUME NEW a \in Assignment, NEW m \in BOOLEAN
  PROVE  LET b == [a EXCEPT !.reassigned = @ \/ m]
         IN  /\ b \in Assignment /\ b.at = a.at /\ b.path = a.path
             /\ b.modifier = a.modifier /\ (b.referenced <=> a.referenced)
             /\ b.reassigned <=> a.reassigned \/ m
  BY DEF Assignment

\* What overwriting some, by m, does to the assignments of a variable.
LEMMA AllOverwritten ==
  ASSUME NEW ws \in Seq(Assignment), NEW m \in [DOMAIN ws -> BOOLEAN]
  PROVE  /\ Overwriting(ws, m) \in Seq(Assignment)
         /\ Len(Overwriting(ws, m)) = Len(ws)
         /\ \A j \in 1..Len(ws) :
              /\ Overwriting(ws, m)[j].at = ws[j].at
              /\ Overwriting(ws, m)[j].path = ws[j].path
              /\ Overwriting(ws, m)[j].modifier = ws[j].modifier
              /\ Overwriting(ws, m)[j].referenced <=> ws[j].referenced
              /\ Overwriting(ws, m)[j].reassigned <=> ws[j].reassigned \/ m[j]
<1> DEFINE new == Overwriting(ws, m)
<1>1. DOMAIN new = DOMAIN ws /\ DOMAIN ws = 1..Len(ws) /\ Len(ws) \in Nat
  BY DEF Overwriting
<1>2. ASSUME NEW j \in DOMAIN ws
      PROVE  /\ new[j] \in Assignment /\ new[j].at = ws[j].at /\ new[j].path = ws[j].path
             /\ new[j].modifier = ws[j].modifier
             /\ new[j].referenced <=> ws[j].referenced
             /\ new[j].reassigned <=> ws[j].reassigned \/ m[j]
  <2>1. ws[j] \in Assignment /\ m[j] \in BOOLEAN
    OBVIOUS
  <2>2. new[j] = [ws[j] EXCEPT !.reassigned = @ \/ m[j]]
    BY DEF Overwriting
  <2> HIDE DEF new
  <2>3. QED
    BY <2>1, <2>2, Overwritten
<1>3. new \in Seq(Assignment) /\ Len(new) = Len(ws)
  <2>1. new \in [1..Len(ws) -> Assignment]
    BY <1>1, <1>2 DEF Overwriting
  <2>2. new \in Seq(Assignment)
    BY <1>1, <2>1, SeqDef
  <2> HIDE DEF new
  <2>3. QED
    BY <1>1, <2>2
<1>4. QED
  BY <1>1, <1>2, <1>3

\* The scope whose variable the next assignment is to.
Target == IF Declaring = {} THEN Top ELSE Home

\* An assignment adds itself, after it has captured the variable.
LEMMA AssignedAdds ==
  ASSUME Inv, NEW sc, Extends(sc), NEW p \in Seq(Context), NEW modifier \in BOOLEAN, Top > 0
  PROVE  /\ Target \in 1..Len(sc)
         /\ Assigned(sc, p, modifier) \in Seq(Scope)
         /\ Adds(sc, Assigned(sc, p, modifier), Target, pos, p, modifier)
<1> DEFINE s == Target
           ws == sc[s].writes
           captured == sc[s].captured \/ s # Top
           m == [j \in DOMAIN ws |-> ~captured /\ Overwrites(ws, s, p, j)]
           new == [at |-> pos, path |-> p, modifier |-> modifier,
                   referenced |-> FALSE, reassigned |-> FALSE]
           kept == Overwriting(ws, m)
           writes == Append(kept, new)
           v == [sc[s] EXCEPT !.declared = TRUE, !.captured = captured, !.writes = writes]
           result == Assigned(sc, p, modifier)
<1>1. /\ TypeOK /\ pos \in Nat /\ scopes \in Seq(Scope)
      /\ sc \in Seq(Scope) /\ Len(sc) = Len(scopes)
  BY DEF Inv, TypeOK, Extends
<1>2. s \in 1..Len(sc)
  BY <1>1, HomeDeclares DEF Inv, Top, Target
<1>3. sc[s] \in Scope /\ ws \in Seq(Assignment) /\ captured \in BOOLEAN
  <2>1. sc[s] \in Scope
    BY <1>1, <1>2
  <2> HIDE DEF s
  <2>2. QED
    BY <2>1 DEF Scope
<1>4. m \in [DOMAIN ws -> BOOLEAN]
  OBVIOUS
<1>5. result = [sc EXCEPT ![s] = v]
  BY DEF Assigned, Overwriting, Target
<1>6. \A j \in DOMAIN ws : m[j] <=> ~captured /\ Overwrites(ws, s, p, j)
  OBVIOUS
<1>7. new \in Assignment
  BY <1>1 DEF Assignment
<1>8. ws = sc[s].writes /\ (captured <=> sc[s].captured \/ s # Len(sc))
  BY <1>1 DEF Top
<1> HIDE DEF s, ws, m, captured, result
<1>9. /\ kept \in Seq(Assignment)
      /\ Len(kept) = Len(ws)
      /\ \A j \in 1..Len(ws) :
           /\ kept[j].at = ws[j].at /\ kept[j].path = ws[j].path
           /\ kept[j].modifier = ws[j].modifier
           /\ kept[j].referenced <=> ws[j].referenced
           /\ kept[j].reassigned <=> ws[j].reassigned \/ m[j]
  BY <1>3, <1>4, AllOverwritten
<1> HIDE DEF kept, new
<1>10. /\ writes \in Seq(Assignment)
       /\ Len(writes) = Len(ws) + 1
       /\ writes[Len(ws) + 1] = new
       /\ \A j \in 1..Len(ws) : writes[j] = kept[j]
  BY <1>3, <1>7, <1>9
<1> HIDE DEF writes
<1>11. v \in Scope
  BY <1>3, <1>10 DEF Scope
<1>12. v.hard = sc[s].hard /\ v.declared /\ v.captured = captured /\ v.writes = writes
  BY <1>3 DEF Scope
<1> HIDE DEF v
<1>13. /\ result \in Seq(Scope)
       /\ Len(result) = Len(sc)
       /\ result[s] = v
       /\ \A t \in 1..Len(sc) : t # s => result[t] = sc[t]
  BY <1>1, <1>2, <1>5, <1>11, Replaced
<1>14. \A j \in 1..Len(sc[s].writes) :
         /\ result[s].writes[j].at = sc[s].writes[j].at
         /\ result[s].writes[j].path = sc[s].writes[j].path
         /\ result[s].writes[j].modifier = sc[s].writes[j].modifier
         /\ result[s].writes[j].referenced <=> sc[s].writes[j].referenced
         /\ result[s].writes[j].reassigned <=>
              \/ sc[s].writes[j].reassigned
              \/ ~result[s].captured /\ Overwrites(sc[s].writes, s, p, j)
  <2>1. SUFFICES ASSUME NEW j \in 1..Len(ws)
                 PROVE  /\ kept[j].at = ws[j].at /\ kept[j].path = ws[j].path
                        /\ kept[j].modifier = ws[j].modifier
                        /\ kept[j].referenced <=> ws[j].referenced
                        /\ kept[j].reassigned <=>
                             ws[j].reassigned \/ (~captured /\ Overwrites(ws, s, p, j))
    <3>1. /\ \A j \in 1..Len(ws) : result[s].writes[j] = kept[j]
          /\ result[s].captured = captured /\ sc[s].writes = ws
      BY ONLY <1>8, <1>10, <1>12, <1>13
    <3>2. QED
      BY <3>1
  <2>2. m[j] <=> ~captured /\ Overwrites(ws, s, p, j)
    BY <1>3, <1>6
  <2>3. QED
    BY <1>9, <2>2
<1>15. Adds(sc, result, s, pos, p, modifier)
  BY <1>8, <1>10, <1>12, <1>13, <1>14 DEF Adds, new
<1>16. QED
  BY <1>2, <1>13, <1>15 DEF result, s

\* The assignments that the closures around the next assignment, one at pos, can see.
Later == IF Declaring # {} /\ (Home # Top \/ scopes[Home].captured)
         THEN seen.later \union {pos}
         ELSE seen.later

\* So it overwrites nothing that a block can see.
LEMMA AssignedIsSafe ==
  ASSUME Inv, NEW sc, Extends(sc), Single(sc), Safe(sc, pos, seen.later),
         NEW p \in Seq(Context), NEW modifier \in BOOLEAN, Top > 0
  PROVE  /\ Assigned(sc, p, modifier) \in Seq(Scope)
         /\ Single(Assigned(sc, p, modifier))
         /\ Safe(Assigned(sc, p, modifier), pos + 1, Later)
<1> DEFINE s == Target
           result == Assigned(sc, p, modifier)
<1>1. /\ TypeOK /\ pos \in Nat /\ scopes \in Seq(Scope)
      /\ sc \in Seq(Scope) /\ Len(sc) = Len(scopes) /\ Len(sc) \in Nat
      /\ \A r \in seen.later : r < pos
  BY DEF Inv, TypeOK, Extends
<1>2. /\ s \in 1..Len(sc) /\ result \in Seq(Scope)
      /\ Adds(sc, result, s, pos, p, modifier)
  BY AssignedAdds
<1>3. /\ Declaring # {} => s = Home
      /\ Declaring = {} => s = Top
  BY DEF Target
<1> HIDE DEF s, result
<1>4. /\ Len(result) = Len(sc)
      /\ \A t \in 1..Len(sc) : t # s => result[t] = sc[t]
      /\ \A t \in 1..Len(sc) : result[t].hard = sc[t].hard
  BY <1>2 DEF Adds
<1>5. Single(result)
  <2>1. SUFFICES ASSUME NEW t \in 1..Len(sc), NEW u \in 1..Len(sc),
                        t < u, result[t].declared, result[u].declared
                 PROVE  \E w \in t + 1..u : sc[w].hard
    <3>1. SUFFICES ASSUME NEW t \in 1..Len(sc), NEW u \in 1..Len(sc),
                          t < u, result[t].declared, result[u].declared
                   PROVE  \E w \in t + 1..u : result[w].hard
      BY <1>4 DEF Single
    <3>2. \A w \in t + 1..u : w \in 1..Len(sc)
      BY <1>1
    <3>3. QED
      BY <1>4, <2>1, <3>1, <3>2
  <2>2. CASE sc[t].declared /\ sc[u].declared
    BY <2>1, <2>2 DEF Single
  <2>3. CASE ~sc[t].declared \/ ~sc[u].declared
    <3>1. Declaring = {} /\ s = Top
      <4>1. Declaring # {} => sc[s].declared
        BY <1>2, <1>3, HomeDeclares DEF Extends, Inv
      <4>2. QED
        BY <1>3, <1>4, <2>1, <2>3, <4>1
    <3>2. u = Top /\ t < Top /\ sc[t].declared
      BY <1>1, <1>2, <1>4, <2>1, <2>3, <3>1 DEF Top
    <3>3. t \notin Accessible
      BY <1>1, <3>1, <3>2 DEF Declaring, Extends, Accessible, Top
    <3>4. PICK w \in t + 1..Top : scopes[w].hard
      BY <1>1, <3>2, <3>3 DEF Accessible, Top
    <3>5. QED
      BY <1>1, <3>2, <3>4 DEF Extends, Top
  <2>4. QED
    BY <2>2, <2>3
<1>6. Safe(result, pos + 1, Later)
  <2> DEFINE ws == sc[s].writes
  <2>1. SUFFICES ASSUME NEW t \in 1..Len(sc), NEW j \in DOMAIN result[t].writes
                 PROVE  /\ result[t].writes[j].at < pos + 1
                        /\ result[t].writes[j].at \in Later
                             => result[t].captured /\ ~result[t].writes[j].reassigned
    BY <1>4 DEF Safe
  <2>2. \A u \in 1..Len(sc) : \A k \in DOMAIN sc[u].writes :
          /\ sc[u].writes[k].at < pos /\ sc[u].writes[k].at \in Nat
          /\ sc[u].writes[k].at \in Later => sc[u].captured /\ ~sc[u].writes[k].reassigned
    <3>1. SUFFICES ASSUME NEW u \in 1..Len(sc), NEW k \in DOMAIN sc[u].writes
                   PROVE  /\ sc[u].writes[k].at < pos /\ sc[u].writes[k].at \in Nat
                          /\ sc[u].writes[k].at \in Later
                               => sc[u].captured /\ ~sc[u].writes[k].reassigned
      OBVIOUS
    <3>2. sc[u].writes[k].at < pos
          /\ (sc[u].writes[k].at \in seen.later
                => sc[u].captured /\ ~sc[u].writes[k].reassigned)
      BY DEF Safe
    <3>3. sc[u].writes[k].at \in Nat
      <4>1. sc[u] \in Scope
        BY <1>1
      <4>2. sc[u].writes \in Seq(Assignment)
        BY <4>1 DEF Scope
      <4>3. sc[u].writes[k] \in Assignment
        BY <4>2
      <4>4. QED
        BY <4>3 DEF Assignment
    <3>4. QED
      BY <1>1, <3>2, <3>3 DEF Later
  <2>3. CASE t # s
    BY <1>1, <1>4, <2>1, <2>2, <2>3
  <2>4. DOMAIN ws = 1..Len(ws) /\ Len(ws) \in Nat /\ DOMAIN result[s].writes = 1..Len(ws) + 1
    <3>1. sc[s] \in Scope /\ result[s] \in Scope
      BY <1>1, <1>2, <1>4
    <3>2. ws \in Seq(Assignment) /\ result[s].writes \in Seq(Assignment)
      BY <3>1 DEF Scope
    <3>3. Len(result[s].writes) = Len(ws) + 1
      BY <1>2 DEF Adds
    <3>4. QED
      BY <3>2, <3>3
  <2>5. CASE t = s /\ j \in 1..Len(ws)
    <3>1. /\ result[s].writes[j].at = ws[j].at
          /\ result[s].writes[j].reassigned <=>
               ws[j].reassigned \/ (~result[s].captured /\ Overwrites(ws, s, p, j))
          /\ sc[s].captured => result[s].captured
      BY <1>2, <2>5 DEF Adds
    <3>2. /\ ws[j].at < pos /\ ws[j].at \in Nat
          /\ ws[j].at \in Later => sc[s].captured /\ ~ws[j].reassigned
      BY <1>2, <2>2, <2>4, <2>5
    <3> HIDE DEF ws
    <3>3. QED
      BY <1>1, <2>5, <3>1, <3>2
  <2>6. CASE t = s /\ j \notin 1..Len(ws)
    <3>1. j = Len(ws) + 1
      BY <2>1, <2>4, <2>6
    <3>2. /\ result[s].writes[j].at = pos /\ ~result[s].writes[j].reassigned
          /\ result[s].captured <=> sc[s].captured \/ s # Len(sc)
      BY <1>2, <3>1 DEF Adds
    <3>3. pos \in Later => result[s].captured
      <4>1. SUFFICES ASSUME pos \in Later PROVE result[s].captured
        OBVIOUS
      <4>2. Declaring # {} /\ (Home # Top \/ scopes[Home].captured)
        BY <1>1, <4>1 DEF Later
      <4>3. s = Home /\ (scopes[s].captured => sc[s].captured)
        BY <1>2, <1>3, <4>2 DEF Extends
      <4>4. QED
        BY <1>1, <3>2, <4>2, <4>3 DEF Top
    <3> HIDE DEF ws
    <3>4. QED
      BY <1>1, <2>6, <3>2, <3>3
  <2>7. QED
    BY <2>3, <2>5, <2>6
<1>7. QED
  BY <1>2, <1>5, <1>6 DEF result

-----------------------------------------------------------------------------
(* Types. *)

Shape == path \in Seq(Context) /\ open \in Seq(Frame) /\ flow \in Flow

Seen == [plain : SUBSET Nat, raised : SUBSET Nat, around : SUBSET Nat,
         captured : SUBSET Nat, later : SUBSET Nat, body : SUBSET Nat]

\* Flows joined are a flow.
LEMMA JoinType ==
  ASSUME NEW f \in Flow, NEW g \in Flow
  PROVE  Join(f, g) \in Flow
  BY DEF Join, Flow

\* NoFlow is one, and what an assignment leaves is.
LEMMA FlowTypes ==
  ASSUME pos \in Nat
  PROVE  NoFlow \in Flow /\ Written \in Flow
  BY DEF NoFlow, Written, Flow

\* So is a flow with a loop unrolled.
LEMMA UnrolledType ==
  ASSUME NEW f \in Flow, NEW g \in Flow, NEW h \in Nat
  PROVE  Unrolled(f, h, g) \in Flow
<1> DEFINE out == [plain |-> f.plain \ {h}, raised |-> f.raised \ {h}]
           in == [plain |-> g.plain \ {h}, raised |-> g.raised \ {h}]
<1>1. out \in Flow /\ in \in Flow
  BY DEF Flow
<1>2. Join(out, in) \in Flow
  BY <1>1, JoinType
<1>3. [out EXCEPT !.raised = @ \union in.plain \union in.raised] \in Flow
  BY <1>1 DEF Flow
<1>4. Unrolled(f, h, g) \in
        {Join(out, in), [out EXCEPT !.raised = @ \union in.plain \union in.raised], out}
  BY DEF Unrolled
<1> HIDE DEF out, in
<1>5. QED
  BY <1>1, <1>2, <1>3, <1>4

\* The open constructs stay constructs when something in them can raise.
LEMMA RaisingType ==
  ASSUME open \in Seq(Frame), NEW f \in Flow
  PROVE  Raising(f) \in Seq(Frame)
<1>1. DOMAIN Raising(f) = 1..Len(open) /\ Len(open) \in Nat
  BY DEF Raising
<1>2. ASSUME NEW i \in 1..Len(open)
      PROVE  Raising(f)[i] \in Frame
  <2>1. open[i] \in Frame
    OBVIOUS
  <2>2. open[i].end \in Flow
    BY <2>1 DEF Frame
  <2>3. Join(open[i].end, f) \in Flow
    BY <2>2, JoinType
  <2>4. [open[i] EXCEPT !.end = Join(@, f)] \in Frame
    BY <2>1, <2>3 DEF Frame
  <2>5. Raising(f)[i] \in {open[i], [open[i] EXCEPT !.end = Join(@, f)]}
    BY DEF Raising
  <2>6. QED
    BY <2>1, <2>4, <2>5
<1>3. Raising(f) \in [1..Len(open) -> Frame]
  BY <1>1, <1>2 DEF Raising
<1>4. QED
  BY <1>1, <1>3, SeqDef

\* What a branch is.
LEMMA BranchType ==
  ASSUME TypeOK, NEW at \in Nat, NEW child \in Nat, NEW jumps \in BOOLEAN,
         NEW back \in BOOLEAN, NEW p \in Seq(Context)
  PROVE  Append(p, Branch(at, child, jumps, back)) \in Seq(Context)
<1>1. Branch(at, child, jumps, back) \in Context
  BY DEF TypeOK, Branch, Context, Top
<1>2. QED
  BY <1>1

\* The construct the walk is inside of.
LEMMA LastType ==
  ASSUME Shape, open # <<>>
  PROVE  /\ Last \in Frame
         /\ Last.at \in Nat /\ Last.arm + 1 \in Nat /\ Last.path \in Seq(Context)
         /\ Last.entry \in Flow /\ Last.out \in Flow
         /\ Last.thrown \in Flow /\ Last.end \in Flow
<1>1. Last \in Frame
  BY DEF Shape, Last
<1>2. Last.arm \in Nat
  BY <1>1 DEF Frame
<1>3. QED
  BY <1>1, <1>2 DEF Frame

\* Walking on behind a node.
LEMMA PassedShape ==
  ASSUME Shape, NEW f \in Flow, Passed(f), UNCHANGED path
  PROVE  Shape'
<1>1. Raising(f) \in Seq(Frame)
  BY RaisingType DEF Shape
<1>2. QED
  BY <1>1 DEF Shape, Passed

\* The number of scopes.
LEMMA TopType == TypeOK => Top \in Nat
  BY DEF TypeOK, Top

\* Walking into a construct.
LEMMA EntersShape ==
  ASSUME Shape, pos \in Nat, Top \in Nat, NEW kind \in Kinds, NEW p \in Seq(Context),
         NEW before \in Flow, NEW f \in Flow, Enters(kind, p, before, f)
  PROVE  Shape'
<1> DEFINE frame == [kind |-> kind, at |-> pos, arm |-> 0, scope |-> Top, path |-> path,
                     entry |-> before, out |-> NoFlow, thrown |-> NoFlow, end |-> before]
<1>1. frame \in Frame
  BY FlowTypes DEF Frame, Shape
<1>2. open' = Append(open, frame) /\ path' = p /\ flow' = f
  BY DEF Enters
<1> HIDE DEF frame
<1>3. QED
  BY <1>1, <1>2 DEF Shape

\* Walking from one part of it to another.
LEMMA TurnsShape ==
  ASSUME Shape, open # <<>>, NEW frame \in Frame, NEW p \in Seq(Context),
         NEW f \in Flow, Turns(frame, p, f)
  PROVE  Shape'
<1>1. open' \in Seq(Frame)
  <2>1. Len(open) \in 1..Len(open)
    BY DEF Shape
  <2>2. QED
    BY <2>1, ExceptSeq DEF Shape, Turns
<1>2. QED
  BY <1>1 DEF Shape, Turns

\* Walking out of it.
LEMMA LeavesShape ==
  ASSUME Shape, open # <<>>, NEW f \in Flow, Leaves(f)
  PROVE  Shape'
<1>1. SubSeq(open, 1, Len(open) - 1) \in Seq(Frame)
  BY DEF Shape
<1>2. Last.path \in Seq(Context)
  BY LastType
<1>3. QED
  BY <1>1, <1>2 DEF Shape, Leaves

\* What is noted of an assignment in the body of a begin changes nothing else.
LEMMA WroteTypes ==
  ASSUME TypeOK, NEW sn \in Seen
  PROVE  /\ Wrote(sn) \in Seen
         /\ Wrote(sn).plain = sn.plain /\ Wrote(sn).captured = sn.captured
         /\ Wrote(sn).later = sn.later /\ Wrote(sn).raised = sn.raised
         /\ Wrote(sn).around = sn.around
  BY DEF TypeOK, Wrote, Seen

\* A read, and an assignment after it or not, leave what they see well typed, and add
\* nothing to what blocks see later but the assignment.
LEMMA SeesTypes ==
  ASSUME TypeOK
  PROVE  /\ Sees \in Seen /\ Sees.later = seen.later
         /\ SeesWritten(seen) \in Seen /\ SeesWritten(seen).later = Later
         /\ SeesWritten(Wrote(seen)) \in Seen /\ SeesWritten(Wrote(seen)).later = Later
         /\ SeesWritten(Wrote(Sees)) \in Seen /\ SeesWritten(Wrote(Sees)).later = Later
<1>1. seen \in Seen /\ flow \in Flow /\ pos \in Nat
  BY DEF TypeOK, Seen
<1>2. Sees \in Seen /\ Sees.later = seen.later
  BY <1>1 DEF Sees, Seen, Flow
<1>3. ASSUME NEW sn \in Seen, sn.later = seen.later
      PROVE  SeesWritten(sn) \in Seen /\ SeesWritten(sn).later = Later
  <2>1. CASE Declaring = {}
    BY <1>3, <2>1 DEF SeesWritten, Later
  <2>2. CASE Declaring # {}
    <3> DEFINE c == IF Home # Top THEN sn.captured \union flow.plain ELSE sn.captured
               l == IF Home # Top \/ scopes[Home].captured
                    THEN sn.later \union {pos} ELSE sn.later
    <3>1. c \in SUBSET Nat /\ l \in SUBSET Nat /\ l = Later
      BY <1>1, <1>3, <2>2 DEF Seen, Flow, Later
    <3>2. SeesWritten(sn) = [sn EXCEPT !.captured = c, !.later = l]
      BY <2>2 DEF SeesWritten
    <3> HIDE DEF c, l
    <3>3. QED
      BY <1>3, <3>1, <3>2 DEF Seen
  <2>3. QED
    BY <2>1, <2>2
<1>4. /\ Wrote(seen) \in Seen /\ Wrote(seen).later = seen.later
      /\ Wrote(Sees) \in Seen /\ Wrote(Sees).later = seen.later
  BY <1>1, <1>2, WroteTypes
<1>5. QED
  BY <1>1, <1>2, <1>3, <1>4

\* A read in the node that declares x leaves it well typed, too.
LEMMA FirstSeesTypes ==
  ASSUME TypeOK, Declaring = {}
  PROVE  /\ FirstSees \in Seen /\ FirstSees.plain = seen.plain \union flow.plain
         /\ FirstSees.raised = seen.raised \union flow.raised
         /\ FirstSees.around = seen.around /\ FirstSees.captured = seen.captured
         /\ FirstSees.body = seen.body
         /\ SeesWritten(Wrote(FirstSees)) = Wrote(FirstSees)
         /\ Wrote(FirstSees) \in Seen /\ Wrote(FirstSees).later = Later
<1>1. seen \in Seen /\ flow \in Flow
  BY DEF TypeOK, Seen
<1>2. /\ FirstSees \in Seen /\ FirstSees.plain = seen.plain \union flow.plain
      /\ FirstSees.raised = seen.raised \union flow.raised
      /\ FirstSees.around = seen.around /\ FirstSees.captured = seen.captured
      /\ FirstSees.body = seen.body /\ FirstSees.later = seen.later
  BY <1>1 DEF FirstSees, Seen, Flow
<1>3. Wrote(FirstSees) \in Seen /\ Wrote(FirstSees).later = seen.later
  BY <1>2, WroteTypes
<1>4. SeesWritten(Wrote(FirstSees)) = Wrote(FirstSees)
  BY DEF SeesWritten
<1>5. QED
  BY <1>2, <1>3, <1>4 DEF Later

\* So does the end of a loop or block, which adds nothing to it.
LEMMA AroundType ==
  ASSUME TypeOK, NEW h \in Nat, NEW g \in Flow, NEW left
  PROVE  Around(h, g, left) \in Seen /\ Around(h, g, left).later = seen.later
<1>1. seen \in Seen
  BY DEF TypeOK, Seen
<1>2. (g.plain \union (g.raised \ Hidden)) \ ({h} \union left) \in SUBSET Nat
  BY DEF Flow
<1>3. QED
  BY <1>1, <1>2 DEF Around, Seen

-----------------------------------------------------------------------------
(* The steps. *)

\* What is reported, and seen later, is behind the walk, and nothing is both.
Behind == /\ \A r \in reported \union seen.later : r < pos
          /\ LaterIsNotReported

\* The parts of the invariant.
LEMMA Parts ==
  Inv <=> /\ Shape /\ scopes \in Seq(Scope) /\ pos \in Nat /\ reported \subseteq Nat
          /\ seen \in Seen
          /\ Single(scopes) /\ Safe(scopes, pos, seen.later)
          /\ Behind
  BY DEF Inv, TypeOK, Shape, Seen, Behind

\* A step on which the table does not change.
LEMMA Quiet ==
  ASSUME Inv, UNCHANGED <<scopes, reported, seen>>, Shape', pos' \in {pos, pos + 1}
  PROVE  Inv'
<1>1. pos \in Nat /\ scopes \in Seq(Scope)
  BY DEF Inv, TypeOK
<1>2. Safe(scopes, pos', seen.later)
  <2>1. SUFFICES ASSUME NEW s \in 1..Len(scopes), NEW j \in DOMAIN scopes[s].writes
                 PROVE  scopes[s].writes[j].at < pos'
    BY DEF Safe, Inv
  <2>2. scopes[s].writes[j].at < pos /\ scopes[s].writes[j].at \in Nat
    <3>1. scopes[s] \in Scope
      BY <1>1
    <3>2. scopes[s].writes \in Seq(Assignment)
      BY <3>1 DEF Scope
    <3>3. scopes[s].writes[j] \in Assignment
      BY <3>2
    <3>4. QED
      BY <3>3 DEF Assignment, Safe, Inv
  <2>3. QED
    BY <1>1, <2>2
<1>3. (Single(scopes) /\ Safe(scopes, pos, seen.later))'
  <2>1. Single(scopes)'
    BY DEF Single, Inv
  <2>2. Safe(scopes, pos, seen.later)'
    BY <1>2 DEF Safe
  <2>3. QED
    BY <2>1, <2>2
<1>4. Behind'
  <2>1. \A r \in reported \union seen.later : r < pos'
    BY <1>1 DEF Inv, TypeOK
  <2>2. QED
    BY <2>1 DEF Behind, LaterIsNotReported, Inv
<1>5. (scopes \in Seq(Scope) /\ pos \in Nat /\ reported \subseteq Nat /\ seen \in Seen)'
  BY DEF Inv, TypeOK, Seen
<1>6. QED
  BY <1>3, <1>4, <1>5, Parts, PTL

\* A step that only marks assignments: a read or the end of a loop.
LEMMA Marks ==
  ASSUME Inv, Shape', pos' \in {pos, pos + 1}, UNCHANGED reported,
         scopes' \in Seq(Scope), Single(scopes'), Safe(scopes', pos, seen.later),
         seen' \in Seen, seen'.later = seen.later
  PROVE  Inv'
<1>1. pos \in Nat /\ \A r \in reported \union seen.later : r \in Nat /\ r < pos
  BY DEF Inv, TypeOK
<1>2. Safe(scopes, pos, seen.later)'
  <2>1. SUFFICES ASSUME NEW s \in 1..Len(scopes'), NEW j \in DOMAIN scopes'[s].writes
                 PROVE  /\ scopes'[s].writes[j].at < pos'
                        /\ scopes'[s].writes[j].at \in seen'.later
                             => scopes'[s].captured /\ ~scopes'[s].writes[j].reassigned
    BY DEF Safe
  <2>2. /\ scopes'[s].writes[j].at < pos
        /\ scopes'[s].writes[j].at \in seen.later
             => scopes'[s].captured /\ ~scopes'[s].writes[j].reassigned
    BY DEF Safe
  <2>3. scopes'[s].writes[j].at \in Nat
    <3>1. scopes'[s] \in Scope
      OBVIOUS
    <3>2. scopes'[s].writes \in Seq(Assignment)
      BY <3>1 DEF Scope
    <3>3. scopes'[s].writes[j] \in Assignment
      BY <3>2
    <3>4. QED
      BY <3>3 DEF Assignment
  <2>4. QED
    BY <1>1, <2>2, <2>3
<1>3. Single(scopes)'
  BY DEF Single
<1>4. Behind'
  BY <1>1 DEF Behind, LaterIsNotReported, Inv
<1>5. (scopes \in Seq(Scope) /\ pos \in Nat /\ reported \subseteq Nat /\ seen \in Seen)'
  BY <1>1, <1>2 DEF Inv, TypeOK
<1>6. QED
  BY <1>2, <1>3, <1>4, <1>5, Parts, PTL

\* A step that assigns.
LEMMA Assigns ==
  ASSUME Inv, Shape', pos' = pos + 1, UNCHANGED reported,
         NEW sc, Extends(sc), Single(sc), Safe(sc, pos, seen.later),
         NEW p \in Seq(Context), NEW modifier \in BOOLEAN, Top > 0,
         scopes' = Assigned(sc, p, modifier),
         seen' \in Seen, seen'.later = Later
  PROVE  Inv'
<1>1. pos \in Nat /\ \A r \in reported \union seen.later : r \in Nat /\ r < pos
  BY DEF Inv, TypeOK
<1>2. scopes' \in Seq(Scope) /\ Single(scopes') /\ Safe(scopes', pos + 1, Later)
  BY AssignedIsSafe
<1>3. Single(scopes)'
  BY <1>2 DEF Single
<1>4. Safe(scopes, pos, seen.later)'
  BY <1>2 DEF Safe
<1>5. Behind'
  <2>1. Later \subseteq seen.later \union {pos}
    BY DEF Later
  <2>2. QED
    BY <1>1, <2>1 DEF Behind, LaterIsNotReported, Inv
<1>6. (scopes \in Seq(Scope) /\ pos \in Nat /\ reported \subseteq Nat /\ seen \in Seen)'
  BY <1>1, <1>2 DEF Inv, TypeOK
<1>7. QED
  BY <1>2, <1>3, <1>4, <1>5, <1>6, Parts, PTL

\* A step that opens a scope.
LEMMA Pushes ==
  ASSUME Inv, Shape', pos' = pos + 1, UNCHANGED <<reported, seen>>,
         NEW hard \in BOOLEAN, scopes' = Append(scopes, NewScope(hard))
  PROVE  Inv'
<1>1. NewScope(hard) \in Scope /\ NewScope(hard).writes = <<>> /\ ~NewScope(hard).declared
  BY DEF NewScope, Scope
<1>2. scopes \in Seq(Scope) /\ pos \in Nat
  BY DEF Inv, TypeOK
<1>3. /\ scopes' \in Seq(Scope)
      /\ Len(scopes') = Len(scopes) + 1
      /\ scopes'[Len(scopes) + 1] = NewScope(hard)
      /\ \A s \in 1..Len(scopes) : scopes'[s] = scopes[s]
  BY <1>1, <1>2
<1>4. Single(scopes')
  <2>1. SUFFICES ASSUME NEW s \in 1..Len(scopes'), NEW t \in 1..Len(scopes'),
                        s < t, scopes'[s].declared, scopes'[t].declared
                 PROVE  \E u \in s + 1..t : scopes'[u].hard
    BY DEF Single
  <2>2. t \in 1..Len(scopes)
    BY <1>1, <1>2, <1>3, <2>1
  <2>3. s \in 1..Len(scopes)
    BY <1>2, <2>1, <2>2
  <2>4. PICK u \in s + 1..t : scopes[u].hard
    BY <1>3, <2>1, <2>2, <2>3 DEF Single, Inv
  <2>5. QED
    BY <1>2, <1>3, <2>2, <2>3, <2>4
<1>5. Safe(scopes', pos, seen.later)
  <2>1. SUFFICES ASSUME NEW s \in 1..Len(scopes'), NEW j \in DOMAIN scopes'[s].writes
                 PROVE  /\ scopes'[s].writes[j].at < pos
                        /\ scopes'[s].writes[j].at \in seen.later
                             => scopes'[s].captured /\ ~scopes'[s].writes[j].reassigned
    BY DEF Safe
  <2>2. s \in 1..Len(scopes)
    BY <1>1, <1>2, <1>3
  <2>3. QED
    BY <1>3, <2>2 DEF Safe, Inv
<1>6. QED
  BY <1>3, <1>4, <1>5, Marks DEF Inv, TypeOK, Seen

\* A step that leaves the innermost scope for those outside it and reports in it.
LEMMA Pops ==
  ASSUME Inv, Shape', UNCHANGED pos, seen' \in Seen, seen'.later = seen.later,
         Top > 0, reported' = reported \union Useless,
         scopes' = SubSeq(scopes, 1, Top - 1) \/ scopes' = <<>>
  PROVE  Inv'
<1>1. /\ scopes \in Seq(Scope) /\ pos \in Nat /\ Top \in 1..Len(scopes)
      /\ \A r \in reported \union seen.later : r \in Nat /\ r < pos
  BY DEF Inv, TypeOK, Top
<1>2. /\ scopes' \in Seq(Scope)
      /\ Len(scopes') <= Len(scopes)
      /\ \A s \in 1..Len(scopes') : scopes'[s] = scopes[s]
  <2>1. CASE scopes' = <<>>
    BY <1>1, <2>1
  <2>2. CASE scopes' = SubSeq(scopes, 1, Top - 1)
    BY <1>1, <2>2, SubSeqProperties DEF Top
  <2>3. QED
    BY <2>1, <2>2
<1>3. Single(scopes)'
  <2>1. SUFFICES ASSUME NEW s \in 1..Len(scopes'), NEW t \in 1..Len(scopes'),
                        s < t, scopes'[s].declared, scopes'[t].declared
                 PROVE  \E u \in s + 1..t : scopes'[u].hard
    BY DEF Single
  <2>2. s \in 1..Len(scopes) /\ t \in 1..Len(scopes) /\ Len(scopes') \in Nat
    BY <1>1, <1>2
  <2>3. PICK u \in s + 1..t : scopes[u].hard
    BY <1>2, <2>1, <2>2 DEF Single, Inv
  <2>4. u \in 1..Len(scopes')
    BY <2>2, <2>3
  <2>5. QED
    BY <1>2, <2>3, <2>4
<1>4. Safe(scopes, pos, seen.later)'
  <2>1. SUFFICES ASSUME NEW s \in 1..Len(scopes'), NEW j \in DOMAIN scopes'[s].writes
                 PROVE  /\ scopes'[s].writes[j].at < pos
                        /\ scopes'[s].writes[j].at \in seen.later
                             => scopes'[s].captured /\ ~scopes'[s].writes[j].reassigned
    BY DEF Safe
  <2>2. s \in 1..Len(scopes)
    BY <1>1, <1>2
  <2>3. QED
    BY <1>2, <2>2 DEF Safe, Inv
<1>5. ASSUME NEW r \in Useless
      PROVE  r \in Nat /\ r < pos /\ r \notin seen.later
  <2> DEFINE ws == scopes[Top].writes
  <2>1. PICK j \in DOMAIN ws : r = ws[j].at /\ (ws[j].reassigned \/ ~scopes[Top].captured)
    BY <1>5 DEF Useless
  <2>2. scopes[Top] \in Scope
    BY <1>1
  <2>3. ws \in Seq(Assignment)
    BY <2>2 DEF Scope
  <2>4. ws[j] \in Assignment
    BY <2>3
  <2>5. ws[j].at \in Nat
    BY <2>4 DEF Assignment
  <2>6. /\ ws[j].at < pos
        /\ ws[j].at \in seen.later => scopes[Top].captured /\ ~ws[j].reassigned
    BY <1>1 DEF Safe, Inv
  <2>7. QED
    BY <2>1, <2>5, <2>6
<1>6. Behind'
  BY <1>1, <1>5 DEF Behind, LaterIsNotReported, Inv
<1>7. (scopes \in Seq(Scope) /\ pos \in Nat /\ reported \subseteq Nat /\ seen \in Seen)'
  BY <1>1, <1>2, <1>5 DEF Inv, TypeOK
<1>8. QED
  BY <1>2, <1>3, <1>4, <1>6, <1>7, Parts, PTL

-----------------------------------------------------------------------------
(* One lemma per node. *)

\* x = v
LEMMA WriteKeeps ==
  ASSUME Inv, Write
  PROVE  Inv'
<1>1. Shape /\ pos \in Nat /\ path \in Seq(Context) /\ flow \in Flow /\ TypeOK
  BY DEF Inv, TypeOK, Shape
<1>2. Written \in Flow /\ NoFlow \in Flow /\ Join(flow, Written) \in Flow
  BY <1>1, FlowTypes, JoinType
<1>3. Shape' /\ pos' = pos + 1 /\ Top > 0
  BY <1>1, <1>2, PassedShape DEF Write, Passed
<1>4. Extends(scopes) /\ Single(scopes) /\ Safe(scopes, pos, seen.later)
  BY DEF Extends, Inv, TypeOK
<1>5. seen' \in Seen /\ seen'.later = Later
  BY <1>1, SeesTypes DEF Write
<1>6. scopes' = Assigned(scopes, path, FALSE) /\ UNCHANGED reported
  BY DEF Write
<1>7. QED
  BY <1>1, <1>3, <1>4, <1>5, <1>6, Assigns

\* x = v if c
LEMMA WriteModifiedKeeps ==
  ASSUME Inv, WriteModified
  PROVE  Inv'
<1>1. Shape /\ pos \in Nat /\ path \in Seq(Context) /\ flow \in Flow /\ TypeOK
  BY DEF Inv, TypeOK, Shape
<1>2. Written \in Flow /\ NoFlow \in Flow /\ Join(flow, Written) \in Flow
  BY <1>1, FlowTypes, JoinType
<1>3. Shape' /\ pos' = pos + 1 /\ Top > 0
  BY <1>1, <1>2, PassedShape DEF WriteModified, Passed
<1>4. Extends(scopes) /\ Single(scopes) /\ Safe(scopes, pos, seen.later)
  BY DEF Extends, Inv, TypeOK
<1>5. seen' \in Seen /\ seen'.later = Later
  BY <1>1, SeesTypes DEF WriteModified
<1>6. Append(path, Branch(pos, 0, FALSE, TRUE)) \in Seq(Context)
  BY <1>1, BranchType
<1>7. /\ scopes' = Assigned(scopes, Append(path, Branch(pos, 0, FALSE, TRUE)), TRUE)
      /\ UNCHANGED reported
  BY DEF WriteModified
<1>8. QED
  BY <1>3, <1>4, <1>5, <1>6, <1>7, Assigns

\* A read.
LEMMA ReadKeeps ==
  ASSUME Inv, Read
  PROVE  Inv'
<1>1. Shape /\ pos \in Nat /\ path \in Seq(Context) /\ flow \in Flow /\ TypeOK
  BY DEF Inv, TypeOK, Shape
<1>2. Shape' /\ pos' = pos + 1
  BY <1>1, PassedShape DEF Read, Passed
<1>3. seen' \in Seen /\ seen'.later = seen.later
  BY <1>1, SeesTypes DEF Read
<1>4. Extends(Referenced) /\ Single(Referenced) /\ Safe(Referenced, pos, seen.later)
  BY ReferencedIsMilder, MilderIsSafe DEF Read
<1>5. scopes' = Referenced /\ UNCHANGED reported
  BY DEF Read
<1>6. scopes' \in Seq(Scope) /\ Single(scopes') /\ Safe(scopes', pos, seen.later)
  BY <1>4, <1>5 DEF Extends
<1>7. QED
  BY <1>2, <1>3, <1>5, <1>6, Marks

\* x ||= v
LEMMA WriteShortKeeps ==
  ASSUME Inv, WriteShort
  PROVE  Inv'
<1>1. Shape /\ pos \in Nat /\ path \in Seq(Context) /\ flow \in Flow /\ TypeOK
  BY DEF Inv, TypeOK, Shape
<1>2. Written \in Flow /\ NoFlow \in Flow /\ Join(flow, Written) \in Flow
  BY <1>1, FlowTypes, JoinType
<1>3. Shape' /\ pos' = pos + 1 /\ Top > 0
  BY <1>1, <1>2, PassedShape DEF WriteShort, Passed
<1>4. Extends(Referenced) /\ Single(Referenced) /\ Safe(Referenced, pos, seen.later)
  BY ReferencedIsMilder, MilderIsSafe DEF WriteShort
<1>5. seen' \in Seen /\ seen'.later = Later
  BY <1>1, SeesTypes DEF WriteShort
<1>6. scopes' = Assigned(Referenced, path, FALSE) /\ UNCHANGED reported
  BY DEF WriteShort
<1>7. QED
  BY <1>1, <1>3, <1>4, <1>5, <1>6, Assigns

\* x ||= v, the first mention of x.
LEMMA FirstShortKeeps ==
  ASSUME Inv, FirstShort
  PROVE  Inv'
<1>1. Shape /\ pos \in Nat /\ path \in Seq(Context) /\ flow \in Flow /\ TypeOK
  BY DEF Inv, TypeOK, Shape
<1>2. Written \in Flow /\ NoFlow \in Flow /\ Join(flow, Written) \in Flow
  BY <1>1, FlowTypes, JoinType
<1>3. Shape' /\ pos' = pos + 1 /\ Top > 0
  BY <1>1, <1>2, PassedShape DEF FirstShort, Passed
<1>4. /\ Extends(FirstReferenced) /\ Single(FirstReferenced)
      /\ Safe(FirstReferenced, pos, seen.later)
  BY <1>3, FirstIsMilder, MilderIsSafe
<1>5. seen' \in Seen /\ seen'.later = Later
  BY <1>1, FirstSeesTypes DEF FirstShort
<1>6. scopes' = Assigned(FirstReferenced, path, FALSE) /\ UNCHANGED reported
  BY DEF FirstShort
<1>7. QED
  BY <1>1, <1>3, <1>4, <1>5, <1>6, Assigns

\* if, unless and case.
LEMMA CondKeeps ==
  ASSUME Inv, Cond
  PROVE  Inv'
<1>1. Shape /\ pos \in Nat /\ path \in Seq(Context) /\ flow \in Flow /\ TypeOK
  BY DEF Inv, TypeOK, Shape
<1>2. Looping \in Flow
  BY <1>1, FlowTypes, JoinType DEF Looping
<1>3. Append(path, Branch(pos, 0, FALSE, TRUE)) \in Seq(Context)
  BY <1>1, BranchType
<1>4. Enters("cond", Append(path, Branch(pos, 0, FALSE, TRUE)), flow, flow)
  BY DEF Cond
<1>5. Shape'
  BY <1>1, <1>2, <1>3, <1>4, EntersShape, TopType DEF Kinds
<1>6. UNCHANGED <<scopes, reported, seen>> /\ pos' = pos + 1
  BY <1>4 DEF Cond, Enters
<1>7. QED
  BY <1>5, <1>6, Quiet

\* && and ||.
LEMMA LogicKeeps ==
  ASSUME Inv, Logic
  PROVE  Inv'
<1>1. Shape /\ pos \in Nat /\ path \in Seq(Context) /\ flow \in Flow /\ TypeOK
  BY DEF Inv, TypeOK, Shape
<1>2. Looping \in Flow
  BY <1>1, FlowTypes, JoinType DEF Looping
<1>3. Append(path, Branch(pos, 1, FALSE, FALSE)) \in Seq(Context)
  BY <1>1, BranchType
<1>4. Enters("logic", Append(path, Branch(pos, 1, FALSE, FALSE)), flow, flow)
  BY DEF Logic
<1>5. Shape'
  BY <1>1, <1>2, <1>3, <1>4, EntersShape, TopType DEF Kinds
<1>6. UNCHANGED <<scopes, reported, seen>> /\ pos' = pos + 1
  BY <1>4 DEF Logic, Enters
<1>7. QED
  BY <1>5, <1>6, Quiet

\* while and until.
LEMMA WhileKeeps ==
  ASSUME Inv, While
  PROVE  Inv'
<1>1. Shape /\ pos \in Nat /\ path \in Seq(Context) /\ flow \in Flow /\ TypeOK
  BY DEF Inv, TypeOK, Shape
<1>2. Looping \in Flow
  BY <1>1, FlowTypes, JoinType DEF Looping
<1>3. path \in Seq(Context)
  BY <1>1
<1>4. Enters("while", path, flow, Looping)
  BY DEF While
<1>5. Shape'
  BY <1>1, <1>2, <1>3, <1>4, EntersShape, TopType DEF Kinds
<1>6. UNCHANGED <<scopes, reported, seen>> /\ pos' = pos + 1
  BY <1>4 DEF While, Enters
<1>7. QED
  BY <1>5, <1>6, Quiet

\* begin .. end while.
LEMMA PostKeeps ==
  ASSUME Inv, Post
  PROVE  Inv'
<1>1. Shape /\ pos \in Nat /\ path \in Seq(Context) /\ flow \in Flow /\ TypeOK
  BY DEF Inv, TypeOK, Shape
<1>2. Looping \in Flow
  BY <1>1, FlowTypes, JoinType DEF Looping
<1>3. Append(path, Branch(pos, 0, FALSE, FALSE)) \in Seq(Context)
  BY <1>1, BranchType
<1>4. Enters("post", Append(path, Branch(pos, 0, FALSE, FALSE)), flow, Looping)
  BY DEF Post
<1>5. Shape'
  BY <1>1, <1>2, <1>3, <1>4, EntersShape, TopType DEF Kinds
<1>6. UNCHANGED <<scopes, reported, seen>> /\ pos' = pos + 1
  BY <1>4 DEF Post, Enters
<1>7. QED
  BY <1>5, <1>6, Quiet

\* begin .. rescue.
LEMMA BeginKeeps ==
  ASSUME Inv, Begin
  PROVE  Inv'
<1>1. Shape /\ pos \in Nat /\ path \in Seq(Context) /\ flow \in Flow /\ TypeOK
  BY DEF Inv, TypeOK, Shape
<1>2. Looping \in Flow
  BY <1>1, FlowTypes, JoinType DEF Looping
<1>3. Append(path, Branch(pos, 0, TRUE, TRUE)) \in Seq(Context)
  BY <1>1, BranchType
<1>4. Enters("begin", Append(path, Branch(pos, 0, TRUE, TRUE)), flow, flow)
  BY DEF Begin
<1>5. Shape'
  BY <1>1, <1>2, <1>3, <1>4, EntersShape, TopType DEF Kinds
<1>6. UNCHANGED <<scopes, reported, seen>> /\ pos' = pos + 1
  BY <1>4 DEF Begin, Enters
<1>7. QED
  BY <1>5, <1>6, Quiet

\* body if (x = v)
LEMMA CondModifiedKeeps ==
  ASSUME Inv, CondModified
  PROVE  Inv'
<1>1. Shape /\ pos \in Nat /\ path \in Seq(Context) /\ flow \in Flow /\ TypeOK
  BY DEF Inv, TypeOK, Shape
<1>2. Written \in Flow /\ NoFlow \in Flow /\ Join(flow, Written) \in Flow
  BY <1>1, FlowTypes, JoinType
<1>3. Append(path, Branch(pos, 0, FALSE, TRUE)) \in Seq(Context)
  BY <1>1, BranchType
<1>4. Enters("modifier", Append(path, Branch(pos, 0, FALSE, TRUE)), Written, Written)
  BY DEF CondModified
<1>5. Shape' /\ pos' = pos + 1 /\ Top > 0
  BY <1>1, <1>2, <1>3, <1>4, EntersShape, TopType DEF Kinds, Enters
<1>6. Extends(scopes) /\ Single(scopes) /\ Safe(scopes, pos, seen.later)
  BY DEF Extends, Inv, TypeOK
<1>7. seen' \in Seen /\ seen'.later = Later
  BY <1>1, SeesTypes DEF CondModified
<1>8. scopes' = Assigned(scopes, path, TRUE) /\ UNCHANGED reported
  BY DEF CondModified
<1>9. QED
  BY <1>1, <1>5, <1>6, <1>7, <1>8, Assigns

\* The next arm of a conditional.
LEMMA ArmKeeps ==
  ASSUME Inv, Arm
  PROVE  Inv'
<1>1. Shape /\ pos \in Nat /\ path \in Seq(Context) /\ flow \in Flow /\ TypeOK
  BY DEF Inv, TypeOK, Shape
<1>2. open # <<>>
  BY DEF Arm, Inside
<1>3. /\ Last \in Frame
      /\ Last.at \in Nat /\ Last.arm + 1 \in Nat /\ Last.path \in Seq(Context)
      /\ Last.entry \in Flow /\ Last.out \in Flow
      /\ Last.thrown \in Flow /\ Last.end \in Flow
  BY <1>1, <1>2, LastType
<1> DEFINE frame == [Last EXCEPT !.arm = @ + 1, !.out = Join(@, flow)]
<1>4. Join(Last.out, flow) \in Flow
  BY <1>1, <1>3, JoinType
<1>5. frame \in Frame
  BY <1>1, <1>3, <1>4 DEF Frame, Kinds
<1>6. Append(Last.path, Branch(Last.at, Last.arm + 1, FALSE, TRUE)) \in Seq(Context)
  BY <1>1, <1>3, BranchType
<1>7. Turns(frame, Append(Last.path, Branch(Last.at, Last.arm + 1, FALSE, TRUE)), Last.entry)
  BY DEF Arm
<1> HIDE DEF frame
<1>8. Shape'
  BY <1>1, <1>2, <1>3, <1>5, <1>6, <1>7, TurnsShape
<1>9. UNCHANGED <<scopes, reported, seen, pos>>
  BY <1>7 DEF Arm, Turns
<1>10. QED
  BY <1>8, <1>9, Quiet

\* The body of a loop.
LEMMA BodyKeeps ==
  ASSUME Inv, Body
  PROVE  Inv'
<1>1. Shape /\ pos \in Nat /\ path \in Seq(Context) /\ flow \in Flow /\ TypeOK
  BY DEF Inv, TypeOK, Shape
<1>2. open # <<>>
  BY DEF Body, Inside
<1>3. /\ Last \in Frame
      /\ Last.at \in Nat /\ Last.arm + 1 \in Nat /\ Last.path \in Seq(Context)
      /\ Last.entry \in Flow /\ Last.out \in Flow
      /\ Last.thrown \in Flow /\ Last.end \in Flow
  BY <1>1, <1>2, LastType
<1> DEFINE frame == [Last EXCEPT !.kind = "body", !.out = flow]
<1>4. Join(Last.out, flow) \in Flow
  BY <1>1, <1>3, JoinType
<1>5. frame \in Frame
  BY <1>1, <1>3, <1>4 DEF Frame, Kinds
<1>6. Append(path, Branch(Last.at, 0, FALSE, FALSE)) \in Seq(Context)
  BY <1>1, <1>3, BranchType
<1>7. Turns(frame, Append(path, Branch(Last.at, 0, FALSE, FALSE)), flow)
  BY DEF Body
<1> HIDE DEF frame
<1>8. Shape'
  BY <1>1, <1>2, <1>3, <1>5, <1>6, <1>7, TurnsShape
<1>9. UNCHANGED <<scopes, reported, seen, pos>>
  BY <1>7 DEF Body, Turns
<1>10. QED
  BY <1>8, <1>9, Quiet

\* The condition after the body.
LEMMA TestKeeps ==
  ASSUME Inv, Test
  PROVE  Inv'
<1>1. Shape /\ pos \in Nat /\ path \in Seq(Context) /\ flow \in Flow /\ TypeOK
  BY DEF Inv, TypeOK, Shape
<1>2. open # <<>>
  BY DEF Test, Inside
<1>3. /\ Last \in Frame
      /\ Last.at \in Nat /\ Last.arm + 1 \in Nat /\ Last.path \in Seq(Context)
      /\ Last.entry \in Flow /\ Last.out \in Flow
      /\ Last.thrown \in Flow /\ Last.end \in Flow
  BY <1>1, <1>2, LastType
<1> DEFINE frame == [Last EXCEPT !.kind = "test"]
<1>4. Join(Last.out, flow) \in Flow
  BY <1>1, <1>3, JoinType
<1>5. frame \in Frame
  BY <1>1, <1>3, <1>4 DEF Frame, Kinds
<1>6. Last.path \in Seq(Context)
  BY <1>1, <1>3, BranchType
<1>7. Turns(frame, Last.path, flow)
  BY DEF Test
<1> HIDE DEF frame
<1>8. Shape'
  BY <1>1, <1>2, <1>3, <1>5, <1>6, <1>7, TurnsShape
<1>9. UNCHANGED <<scopes, reported, seen, pos>>
  BY <1>7 DEF Test, Turns
<1>10. QED
  BY <1>8, <1>9, Quiet

\* The else clause of a begin.
LEMMA ElseKeeps ==
  ASSUME Inv, Else
  PROVE  Inv'
<1>1. Shape /\ pos \in Nat /\ path \in Seq(Context) /\ flow \in Flow /\ TypeOK
  BY DEF Inv, TypeOK, Shape
<1>2. open # <<>>
  BY DEF Else, Inside
<1>3. /\ Last \in Frame
      /\ Last.at \in Nat /\ Last.arm + 1 \in Nat /\ Last.path \in Seq(Context)
      /\ Last.entry \in Flow /\ Last.out \in Flow
      /\ Last.thrown \in Flow /\ Last.end \in Flow
  BY <1>1, <1>2, LastType
<1> DEFINE frame == [Last EXCEPT !.kind = "else", !.arm = @ + 1, !.out = Join(@, flow)]
<1>4. Join(Last.out, flow) \in Flow
  BY <1>1, <1>3, JoinType
<1>5. frame \in Frame
  BY <1>1, <1>3, <1>4 DEF Frame, Kinds
<1>6. Append(Last.path, Branch(Last.at, Last.arm + 1, FALSE, TRUE)) \in Seq(Context)
  BY <1>1, <1>3, BranchType
<1>7. Turns(frame, Append(Last.path, Branch(Last.at, Last.arm + 1, FALSE, TRUE)), Last.entry)
  BY DEF Else
<1> HIDE DEF frame
<1>8. Shape'
  BY <1>1, <1>2, <1>3, <1>5, <1>6, <1>7, TurnsShape
<1>9. UNCHANGED <<scopes, reported, seen, pos>>
  BY <1>7 DEF Else, Turns
<1>10. QED
  BY <1>8, <1>9, Quiet

\* A rescue clause.
LEMMA RescueKeeps ==
  ASSUME Inv, Rescue
  PROVE  Inv'
<1>1. Shape /\ pos \in Nat /\ path \in Seq(Context) /\ flow \in Flow /\ TypeOK
  BY DEF Inv, TypeOK, Shape
<1>2. open # <<>>
  BY DEF Rescue, Inside
<1>3. /\ Last \in Frame
      /\ Last.at \in Nat /\ Last.arm + 1 \in Nat /\ Last.path \in Seq(Context)
      /\ Last.entry \in Flow /\ Last.out \in Flow
      /\ Last.thrown \in Flow /\ Last.end \in Flow
  BY <1>1, <1>2, LastType
<1> DEFINE first == Last.kind = "begin"
           thrown == IF first
                     THEN [plain |-> Last.entry.plain, raised |-> Unwinding]
                     ELSE Last.thrown
           entry == IF first THEN flow ELSE Last.entry
           out == IF first THEN Last.out ELSE Join(Last.out, flow)
           frame == [Last EXCEPT !.kind = "rescue", !.arm = @ + 1, !.thrown = thrown,
                                 !.entry = entry, !.out = out]
           p == Append(Last.path, Branch(Last.at, Last.arm + 1, FALSE, TRUE))
<1>4. Join(Last.out, flow) \in Flow
  BY <1>1, <1>3, JoinType
<1>5. thrown \in Flow /\ entry \in Flow /\ out \in Flow
  <2>1. [plain |-> Last.entry.plain, raised |-> Unwinding] \in Flow
    BY <1>3 DEF Flow, Unwinding
  <2>2. QED
    BY <1>1, <1>3, <1>4, <2>1
<1>6. Turns(frame, p, thrown)
  BY DEF Rescue
<1> HIDE DEF thrown, entry, out
<1>7. frame \in Frame
  BY <1>3, <1>5 DEF Frame, Kinds
<1>8. p \in Seq(Context)
  BY <1>1, <1>3, BranchType
<1> HIDE DEF frame, p
<1>9. Shape'
  BY <1>1, <1>2, <1>5, <1>6, <1>7, <1>8, TurnsShape
<1>10. UNCHANGED <<scopes, reported, seen, pos>>
  BY <1>6 DEF Rescue, Turns
<1>11. QED
  BY <1>9, <1>10, Quiet

\* The end of a conditional.
LEMMA EndCondKeeps ==
  ASSUME Inv, EndCond
  PROVE  Inv'
<1>1. Shape /\ pos \in Nat /\ path \in Seq(Context) /\ flow \in Flow /\ TypeOK
  BY DEF Inv, TypeOK, Shape
<1>2. open # <<>>
  BY DEF EndCond, Inside
<1>3. /\ Last \in Frame
      /\ Last.at \in Nat /\ Last.arm + 1 \in Nat /\ Last.path \in Seq(Context)
      /\ Last.entry \in Flow /\ Last.out \in Flow
      /\ Last.thrown \in Flow /\ Last.end \in Flow
  BY <1>1, <1>2, LastType
<1>4. PICK f \in {Last.entry, NoFlow} : Leaves(Join(f, Join(Last.out, flow)))
  BY DEF EndCond
<1>5. f \in Flow
  BY <1>1, <1>3, FlowTypes
<1>6. Join(f, Join(Last.out, flow)) \in Flow
  BY <1>1, <1>3, <1>5, JoinType
<1>7. Shape'
  BY <1>1, <1>2, <1>4, <1>6, LeavesShape
<1>8. UNCHANGED <<scopes, reported, seen, pos>>
  BY <1>4 DEF EndCond, Leaves
<1>9. QED
  BY <1>7, <1>8, Quiet

\* The end of a short circuit.
LEMMA EndLogicKeeps ==
  ASSUME Inv, EndLogic
  PROVE  Inv'
<1>1. Shape /\ pos \in Nat /\ path \in Seq(Context) /\ flow \in Flow /\ TypeOK
  BY DEF Inv, TypeOK, Shape
<1>2. open # <<>>
  BY DEF EndLogic, Inside
<1>3. /\ Last \in Frame
      /\ Last.at \in Nat /\ Last.arm + 1 \in Nat /\ Last.path \in Seq(Context)
      /\ Last.entry \in Flow /\ Last.out \in Flow
      /\ Last.thrown \in Flow /\ Last.end \in Flow
  BY <1>1, <1>2, LastType
<1>4. Join(Last.entry, flow) \in Flow
  BY <1>1, <1>3, JoinType
<1>5. Leaves(Join(Last.entry, flow))
  BY DEF EndLogic
<1>6. Shape'
  BY <1>1, <1>2, <1>4, <1>5, LeavesShape
<1>7. UNCHANGED <<scopes, reported, seen, pos>>
  BY <1>5 DEF EndLogic, Leaves
<1>8. QED
  BY <1>6, <1>7, Quiet

\* The end of a begin.
LEMMA EndBeginKeeps ==
  ASSUME Inv, EndBegin
  PROVE  Inv'
<1>1. Shape /\ pos \in Nat /\ path \in Seq(Context) /\ flow \in Flow /\ TypeOK
  BY DEF Inv, TypeOK, Shape
<1>2. open # <<>>
  BY DEF EndBegin, Inside
<1>3. /\ Last \in Frame
      /\ Last.at \in Nat /\ Last.arm + 1 \in Nat /\ Last.path \in Seq(Context)
      /\ Last.entry \in Flow /\ Last.out \in Flow
      /\ Last.thrown \in Flow /\ Last.end \in Flow
  BY <1>1, <1>2, LastType
<1>4. Rescued \in Flow
  <2>1. Join(Last.out, Last.entry) \in Flow
    BY <1>3, JoinType
  <2>2. Join(flow, Join(Last.out, Last.entry)) \in Flow /\ Join(flow, Last.out) \in Flow
    BY <1>1, <1>3, <2>1, JoinType
  <2>3. QED
    BY <2>2 DEF Rescued
<1>5. Leaves(Rescued)
  BY DEF EndBegin
<1>6. Shape'
  BY <1>1, <1>2, <1>4, <1>5, LeavesShape
<1>7. UNCHANGED <<scopes, reported, seen, pos>>
  BY <1>5 DEF EndBegin, Leaves
<1>8. QED
  BY <1>6, <1>7, Quiet

\* An ensure clause.
LEMMA EnsureKeeps ==
  ASSUME Inv, Ensure
  PROVE  Inv'
<1>1. Shape /\ pos \in Nat /\ path \in Seq(Context) /\ flow \in Flow /\ TypeOK
  BY DEF Inv, TypeOK, Shape
<1>2. open # <<>>
  BY DEF Ensure, Inside
<1>3. /\ Last \in Frame
      /\ Last.at \in Nat /\ Last.arm + 1 \in Nat /\ Last.path \in Seq(Context)
      /\ Last.entry \in Flow /\ Last.out \in Flow
      /\ Last.thrown \in Flow /\ Last.end \in Flow
  BY <1>1, <1>2, LastType
<1>4. Rescued \in Flow
  <2>1. Join(Last.out, Last.entry) \in Flow
    BY <1>3, JoinType
  <2>2. Join(flow, Join(Last.out, Last.entry)) \in Flow /\ Join(flow, Last.out) \in Flow
    BY <1>1, <1>3, <2>1, JoinType
  <2>3. QED
    BY <2>2 DEF Rescued
<1> DEFINE f == IF Last.kind = "ensured" THEN flow ELSE Rescued
           frame == [Last EXCEPT !.kind = "ensure", !.entry = f]
           g == [f EXCEPT !.raised = @ \union Unwinding]
<1>5. f \in Flow
  BY <1>1, <1>4
<1>6. Turns(frame, Last.path, g)
  BY DEF Ensure
<1> HIDE DEF f
<1>7. frame \in Frame
  BY <1>3, <1>5 DEF Frame, Kinds
<1>8. g \in Flow
  BY <1>3, <1>5 DEF Flow, Unwinding
<1> HIDE DEF frame, g
<1>9. Shape'
  BY <1>1, <1>2, <1>3, <1>6, <1>7, <1>8, TurnsShape
<1>10. UNCHANGED <<scopes, reported, seen, pos>>
  BY <1>6 DEF Ensure, Turns
<1>11. QED
  BY <1>9, <1>10, Quiet

\* The end of an ensure clause.
LEMMA EndEnsureKeeps ==
  ASSUME Inv, EndEnsure
  PROVE  Inv'
<1>1. Shape /\ pos \in Nat /\ path \in Seq(Context) /\ flow \in Flow /\ TypeOK
  BY DEF Inv, TypeOK, Shape
<1>2. open # <<>>
  BY DEF EndEnsure, Inside
<1>3. /\ Last \in Frame
      /\ Last.at \in Nat /\ Last.arm + 1 \in Nat /\ Last.path \in Seq(Context)
      /\ Last.entry \in Flow /\ Last.out \in Flow
      /\ Last.thrown \in Flow /\ Last.end \in Flow
  BY <1>1, <1>2, LastType
<1> DEFINE g == [flow EXCEPT !.raised = @ \ (Unwinding \ Last.entry.raised)]
<1>4. g \in Flow
  BY <1>1 DEF Flow
<1>5. Leaves(g)
  BY DEF EndEnsure
<1> HIDE DEF g
<1>6. Shape'
  BY <1>1, <1>2, <1>4, <1>5, LeavesShape
<1>7. UNCHANGED <<scopes, reported, seen, pos>>
  BY <1>5 DEF EndEnsure, Leaves
<1>8. QED
  BY <1>6, <1>7, Quiet

\* begin .. ensure.
LEMMA EnsuredKeeps ==
  ASSUME Inv, Ensured
  PROVE  Inv'
<1>1. Shape /\ pos \in Nat /\ path \in Seq(Context) /\ flow \in Flow /\ TypeOK
  BY DEF Inv, TypeOK, Shape
<1>2. Looping \in Flow
  BY <1>1, FlowTypes, JoinType DEF Looping
<1>3. Append(path, Branch(pos, 0, TRUE, FALSE)) \in Seq(Context)
  BY <1>1, BranchType
<1>4. Enters("ensured", Append(path, Branch(pos, 0, TRUE, FALSE)), flow, flow)
  BY DEF Ensured
<1>5. Shape'
  BY <1>1, <1>2, <1>3, <1>4, EntersShape, TopType DEF Kinds
<1>6. UNCHANGED <<scopes, reported, seen>> /\ pos' = pos + 1
  BY <1>4 DEF Ensured, Enters
<1>7. QED
  BY <1>5, <1>6, Quiet

\* The end of a while loop.
LEMMA EndWhileKeeps ==
  ASSUME Inv, EndWhile
  PROVE  Inv'
<1>1. Shape /\ pos \in Nat /\ path \in Seq(Context) /\ flow \in Flow /\ TypeOK
  BY DEF Inv, TypeOK, Shape
<1>2. open # <<>>
  BY DEF EndWhile, Inside
<1>3. /\ Last \in Frame
      /\ Last.at \in Nat /\ Last.arm + 1 \in Nat /\ Last.path \in Seq(Context)
      /\ Last.entry \in Flow /\ Last.out \in Flow
      /\ Last.thrown \in Flow /\ Last.end \in Flow
  BY <1>1, <1>2, LastType
<1>4. Unrolled(Last.out, Last.at, flow) \in Flow
  BY <1>1, <1>3, UnrolledType
<1>5. Leaves(Unrolled(Last.out, Last.at, flow))
  BY DEF EndWhile
<1>6. Shape'
  BY <1>1, <1>2, <1>4, <1>5, LeavesShape
<1>7. seen' \in Seen /\ seen'.later = seen.later
  BY <1>1, <1>3, AroundType DEF EndWhile
<1>8. /\ Extends(LoopMarked(Last.at)) /\ Single(LoopMarked(Last.at))
      /\ Safe(LoopMarked(Last.at), pos, seen.later)
  BY <1>3, LoopMarkedIsMilder, MilderIsSafe
<1>9. scopes' = LoopMarked(Last.at) /\ UNCHANGED <<pos, reported>>
  BY <1>5 DEF EndWhile, Leaves
<1>10. scopes' \in Seq(Scope) /\ Single(scopes') /\ Safe(scopes', pos, seen.later)
  BY <1>8, <1>9 DEF Extends
<1>11. QED
  BY <1>6, <1>7, <1>9, <1>10, Marks

\* The end of a post loop.
LEMMA EndPostKeeps ==
  ASSUME Inv, EndPost
  PROVE  Inv'
<1>1. Shape /\ pos \in Nat /\ path \in Seq(Context) /\ flow \in Flow /\ TypeOK
  BY DEF Inv, TypeOK, Shape
<1>2. open # <<>>
  BY DEF EndPost, Inside
<1>3. /\ Last \in Frame
      /\ Last.at \in Nat /\ Last.arm + 1 \in Nat /\ Last.path \in Seq(Context)
      /\ Last.entry \in Flow /\ Last.out \in Flow
      /\ Last.thrown \in Flow /\ Last.end \in Flow
  BY <1>1, <1>2, LastType
<1>4. Unrolled(flow, Last.at, flow) \in Flow
  BY <1>1, <1>3, UnrolledType
<1>5. Leaves(Unrolled(flow, Last.at, flow))
  BY DEF EndPost
<1>6. Shape'
  BY <1>1, <1>2, <1>4, <1>5, LeavesShape
<1>7. seen' \in Seen /\ seen'.later = seen.later
  BY <1>1, <1>3, AroundType DEF EndPost
<1>8. /\ Extends(LoopMarked(Last.at)) /\ Single(LoopMarked(Last.at))
      /\ Safe(LoopMarked(Last.at), pos, seen.later)
  BY <1>3, LoopMarkedIsMilder, MilderIsSafe
<1>9. scopes' = LoopMarked(Last.at) /\ UNCHANGED <<pos, reported>>
  BY <1>5 DEF EndPost, Leaves
<1>10. scopes' \in Seq(Scope) /\ Single(scopes') /\ Safe(scopes', pos, seen.later)
  BY <1>8, <1>9 DEF Extends
<1>11. QED
  BY <1>6, <1>7, <1>9, <1>10, Marks

\* def
LEMMA DefKeeps ==
  ASSUME Inv, Def
  PROVE  Inv'
<1>1. Shape /\ pos \in Nat /\ path \in Seq(Context) /\ flow \in Flow /\ TypeOK
  BY DEF Inv, TypeOK, Shape
<1>2. NoFlow \in Flow /\ <<>> \in Seq(Context)
  BY <1>1, FlowTypes
<1>3. Enters("def", <<>>, flow, NoFlow)
  BY DEF Def
<1>4. Shape' /\ pos' = pos + 1
  BY <1>1, <1>2, <1>3, EntersShape, TopType DEF Kinds, Enters
<1>5. scopes' = Append(scopes, NewScope(TRUE)) /\ UNCHANGED <<reported, seen>>
  BY DEF Def
<1>6. QED
  BY <1>4, <1>5, Pushes

\* class, module, class << self
LEMMA ClassKeeps ==
  ASSUME Inv, Class
  PROVE  Inv'
<1>1. Shape /\ pos \in Nat /\ path \in Seq(Context) /\ flow \in Flow /\ TypeOK
  BY DEF Inv, TypeOK, Shape
<1>2. NoFlow \in Flow /\ <<>> \in Seq(Context)
  BY <1>1, FlowTypes
<1>3. Enters("class", path, flow, NoFlow)
  BY DEF Class
<1>4. Shape' /\ pos' = pos + 1
  BY <1>1, <1>2, <1>3, EntersShape, TopType DEF Kinds, Enters
<1>5. scopes' = Append(scopes, NewScope(TRUE)) /\ UNCHANGED <<reported, seen>>
  BY DEF Class
<1>6. QED
  BY <1>4, <1>5, Pushes

\* A block or lambda.
LEMMA BlockKeeps ==
  ASSUME Inv, Block
  PROVE  Inv'
<1>1. Shape /\ pos \in Nat /\ path \in Seq(Context) /\ flow \in Flow /\ TypeOK
  BY DEF Inv, TypeOK, Shape
<1>2. NoFlow \in Flow /\ Looping \in Flow /\ <<>> \in Seq(Context)
  BY <1>1, FlowTypes, JoinType DEF Looping
<1>3. Shape' /\ pos' = pos + 1
  <2>1. CASE Declaring = {}
    <3>1. Enters("own", <<>>, flow, NoFlow)
      BY <2>1 DEF Block
    <3>2. QED
      BY <1>1, <1>2, <3>1, EntersShape, TopType DEF Kinds, Enters
  <2>2. CASE Declaring # {}
    <3>1. Enters("block", <<>>, flow, Looping)
      BY <2>2 DEF Block
    <3>2. QED
      BY <1>1, <1>2, <3>1, EntersShape, TopType DEF Kinds, Enters
  <2>3. QED
    BY <2>1, <2>2
<1>4. scopes' = Append(scopes, NewScope(FALSE)) /\ UNCHANGED <<reported, seen>>
  BY DEF Block
<1>5. QED
  BY <1>3, <1>4, Pushes

\* The end of a block that may use x.
LEMMA EndBlockKeeps ==
  ASSUME Inv, EndBlock
  PROVE  Inv'
<1>1. Shape /\ pos \in Nat /\ path \in Seq(Context) /\ flow \in Flow /\ TypeOK
  BY DEF Inv, TypeOK, Shape
<1>2. open # <<>>
  BY DEF EndBlock, Inside
<1>3. /\ Last \in Frame
      /\ Last.at \in Nat /\ Last.arm + 1 \in Nat /\ Last.path \in Seq(Context)
      /\ Last.entry \in Flow /\ Last.out \in Flow
      /\ Last.thrown \in Flow /\ Last.end \in Flow
  BY <1>1, <1>2, LastType
<1>4. Join(Last.entry, Unrolled(flow, Last.at, flow)) \in Flow
  BY <1>1, <1>3, JoinType, UnrolledType
<1>5. Leaves(Join(Last.entry, Unrolled(flow, Last.at, flow)))
  BY DEF EndBlock
<1>6. Shape' /\ UNCHANGED pos
  BY <1>1, <1>2, <1>4, <1>5, LeavesShape DEF Leaves
<1>7. seen' \in Seen /\ seen'.later = seen.later
  BY <1>1, <1>3, AroundType DEF EndBlock
<1>8. Top > 0 /\ reported' = reported \union Useless /\ scopes' = SubSeq(scopes, 1, Top - 1)
  <2>1. Top \in Nat
    BY DEF Top, Inv, TypeOK
  <2>2. QED
    BY <2>1 DEF EndBlock, LeaveScope
<1>9. QED
  BY <1>6, <1>7, <1>8, Pops

\* The end of a scope of its own.
LEMMA EndOwnKeeps ==
  ASSUME Inv, EndOwn
  PROVE  Inv'
<1>1. Shape /\ pos \in Nat /\ path \in Seq(Context) /\ flow \in Flow /\ TypeOK
  BY DEF Inv, TypeOK, Shape
<1>2. open # <<>>
  BY DEF EndOwn, Inside
<1>3. /\ Last \in Frame
      /\ Last.at \in Nat /\ Last.arm + 1 \in Nat /\ Last.path \in Seq(Context)
      /\ Last.entry \in Flow /\ Last.out \in Flow
      /\ Last.thrown \in Flow /\ Last.end \in Flow
  BY <1>1, <1>2, LastType
<1>4. Shape' /\ UNCHANGED pos
  BY <1>1, <1>2, <1>3, LeavesShape DEF EndOwn, Leaves
<1>5. seen' \in Seen /\ seen'.later = seen.later
  BY DEF EndOwn, Inv, TypeOK, Seen
<1>6. Top > 0 /\ reported' = reported \union Useless /\ scopes' = SubSeq(scopes, 1, Top - 1)
  <2>1. Top \in Nat
    BY DEF Top, Inv, TypeOK
  <2>2. QED
    BY <2>1 DEF EndOwn, LeaveScope
<1>7. QED
  BY <1>4, <1>5, <1>6, Pops

\* The end of the program.
LEMMA EndProgramKeeps ==
  ASSUME Inv, EndProgram
  PROVE  Inv'
<1>1. Shape' /\ UNCHANGED pos
  BY DEF EndProgram, Inv, TypeOK, Shape
<1>2. seen' \in Seen /\ seen'.later = seen.later
  BY DEF EndProgram, Inv, TypeOK, Seen
<1>3. Top > 0 /\ reported' = reported \union Useless /\ scopes' = <<>>
  BY DEF EndProgram
<1>4. QED
  BY <1>1, <1>2, <1>3, Pops

-----------------------------------------------------------------------------

\* The invariant is inductive.
THEOREM Inductive == Spec => []Inv
<1>1. Init => Inv
  <2>1. SUFFICES ASSUME Init PROVE Inv
    OBVIOUS
  <2> DEFINE new == NewScope(TRUE)
  <2>2. new \in Scope /\ new.writes = <<>>
    BY DEF NewScope, Scope
  <2>3. scopes = <<new>>
    BY <2>1 DEF Init
  <2> HIDE DEF new
  <2>4. scopes \in Seq(Scope) /\ Len(scopes) = 1
    BY <2>2, <2>3
  <2>5. \A s \in 1..Len(scopes) : scopes[s].writes = <<>>
    BY <2>2, <2>3
  <2>6. Single(scopes) /\ Safe(scopes, pos, seen.later)
    BY <2>4, <2>5 DEF Single, Safe
  <2>7. TypeOK
    <3>1. NoFlow \in Flow
      BY DEF NoFlow, Flow
    <3>2. seen \in Seen
      BY <2>1 DEF Init, Seen
    <3>3. path \in Seq(Context) /\ open \in Seq(Frame)
      BY <2>1 DEF Init
    <3>4. QED
      BY <2>1, <2>4, <3>1, <3>2, <3>3 DEF Init, TypeOK, Seen
  <2>8. QED
    BY <2>1, <2>6, <2>7 DEF Inv, Init, LaterIsNotReported
<1>2. Inv /\ [Next]_vars => Inv'
  <2>1. SUFFICES ASSUME Inv, [Next]_vars PROVE Inv'
    OBVIOUS
  <2>2. CASE Write
    BY <2>1, <2>2, WriteKeeps
  <2>3. CASE WriteModified
    BY <2>1, <2>3, WriteModifiedKeeps
  <2>4. CASE WriteShort
    BY <2>1, <2>4, WriteShortKeeps
  <2>5. CASE Read
    BY <2>1, <2>5, ReadKeeps
  <2>6. CASE Cond
    BY <2>1, <2>6, CondKeeps
  <2>7. CASE CondModified
    BY <2>1, <2>7, CondModifiedKeeps
  <2>8. CASE Arm
    BY <2>1, <2>8, ArmKeeps
  <2>9. CASE EndCond
    BY <2>1, <2>9, EndCondKeeps
  <2>10. CASE Logic
    BY <2>1, <2>10, LogicKeeps
  <2>11. CASE EndLogic
    BY <2>1, <2>11, EndLogicKeeps
  <2>12. CASE While
    BY <2>1, <2>12, WhileKeeps
  <2>13. CASE Body
    BY <2>1, <2>13, BodyKeeps
  <2>14. CASE EndWhile
    BY <2>1, <2>14, EndWhileKeeps
  <2>15. CASE Post
    BY <2>1, <2>15, PostKeeps
  <2>16. CASE Test
    BY <2>1, <2>16, TestKeeps
  <2>17. CASE EndPost
    BY <2>1, <2>17, EndPostKeeps
  <2>18. CASE Begin
    BY <2>1, <2>18, BeginKeeps
  <2>19. CASE Rescue
    BY <2>1, <2>19, RescueKeeps
  <2>20. CASE Else
    BY <2>1, <2>20, ElseKeeps
  <2>21. CASE EndBegin
    BY <2>1, <2>21, EndBeginKeeps
  <2>22. CASE Ensured
    BY <2>1, <2>22, EnsuredKeeps
  <2>23. CASE Ensure
    BY <2>1, <2>23, EnsureKeeps
  <2>24. CASE EndEnsure
    BY <2>1, <2>24, EndEnsureKeeps
  <2>25. CASE Block
    BY <2>1, <2>25, BlockKeeps
  <2>26. CASE EndBlock
    BY <2>1, <2>26, EndBlockKeeps
  <2>27. CASE Def
    BY <2>1, <2>27, DefKeeps
  <2>28. CASE Class
    BY <2>1, <2>28, ClassKeeps
  <2>29. CASE EndOwn
    BY <2>1, <2>29, EndOwnKeeps
  <2>30. CASE EndProgram
    BY <2>1, <2>30, EndProgramKeeps
  <2>31. CASE UNCHANGED vars
    <3>1. Shape'
      BY <2>1, <2>31 DEF vars, Inv, TypeOK, Shape
    <3>2. QED
      BY <2>1, <2>31, <3>1, Quiet DEF vars
  <2>32. CASE FirstShort
    BY <2>1, <2>32, FirstShortKeeps
  <2>33. QED
    BY <2>1, <2>2, <2>3, <2>4, <2>5, <2>6, <2>7, <2>8, <2>9, <2>10, <2>11, <2>12, <2>13,
       <2>14, <2>15, <2>16, <2>17, <2>18, <2>19, <2>20, <2>21, <2>22, <2>23, <2>24,
       <2>25, <2>26, <2>27, <2>28, <2>29, <2>30, <2>31, <2>32 DEF Next
<1>3. QED
  BY <1>1, <1>2, PTL DEF Spec

\* The state the engine keeps is well formed: every branch on the stack and every
\* assignment has a type, whatever the program.
THEOREM TypeCorrect == Spec => []TypeOK
  BY Inductive, PTL DEF Inv

\* In a program of any size, an assignment to a variable that a block already uses is
\* never reported as useless (engine.rs, variable.rs: captured_by_block).
THEOREM LaterCorrect == Spec => []LaterIsNotReported
  BY Inductive, PTL DEF Inv

-----------------------------------------------------------------------------
(* The assignments a read can see.                                         *)

Contexts(p) == {p[i] : i \in DOMAIN p}

\* Constructs with a scope of their own, and parts of constructs that are no branch.
Scoping == {"block", "own", "def", "class"}
Straight == {"while", "test", "ensure"}

\* The branch of the construct that the walk is in, and the scope it walks in.
Child(fr) ==
  IF fr.kind = "logic" THEN 1 ELSE IF fr.kind \in {"while", "body"} THEN 0 ELSE fr.arm
After(fr) == IF fr.kind \in Scoping THEN fr.scope + 1 ELSE fr.scope

\* The values that are put aside while the walk is in the construct, ...
Saved(fr) ==
  IF fr.kind \in {"while", "test", "ensure", "post", "ensured"} THEN {}
  ELSE IF fr.kind = "body" THEN fr.out.plain
  ELSE fr.entry.plain \union fr.out.plain \union fr.thrown.plain

\* ... and those of them with which a later branch of it may start.
Sibling(fr) ==
  IF fr.kind \in {"cond", "begin", "rescue"} THEN fr.entry.plain \union fr.thrown.plain
  ELSE {}

\* No branch in p is of a part of the construct that is still to come.
Agree(fr, p) ==
  \A c \in Contexts(p) : c.parent = fr.at =>
    /\ fr.kind # "while"
    /\ c.child <= Child(fr)
    /\ fr.kind = "begin" => c.jumps

\* The walk cannot have got to offset n by path p otherwise.
PathOK(op, p, n) ==
  /\ \A c \in Contexts(p) : c.parent < n
  /\ \A c, d \in Contexts(p) : c.parent = d.parent => c = d
  /\ \A i \in DOMAIN op : Agree(op[i], p)

\* Path p, at that level, is inside the branches of the first constructs of that level.
Within(op, lim, level, p) ==
  \A i \in DOMAIN op : i < lim /\ op[i].scope = level =>
    /\ Contexts(op[i].path) \subseteq Contexts(p)
    /\ op[i].kind \notin Straight \union Scoping =>
         \E c \in Contexts(p) :
           c.parent = op[i].at /\ c.child = Child(op[i]) /\ c.scope = level

\* The constructs nest.
NestOK(top, op, n) ==
  /\ IF op = <<>> THEN top <= 1 ELSE top = After(op[Len(op)]) /\ op[1].scope = 1
  /\ \A i \in DOMAIN op :
       /\ op[i].at < n
       /\ op[i].scope >= 1
       /\ i + 1 \in DOMAIN op => op[i + 1].scope = After(op[i])
       /\ \A m \in DOMAIN op : i < m => op[i].at < op[m].at /\ After(op[i]) <= op[m].scope

PathsOK(top, op, p, n) ==
  /\ \A i \in DOMAIN op :
       PathOK(op, op[i].path, op[i].at) /\ Within(op, i, op[i].scope, op[i].path)
  /\ PathOK(op, p, n)
  /\ Within(op, Len(op) + 1, top, p)

WritesOK(sc, op, n) ==
  \A s \in 1..Len(sc) : \A j \in DOMAIN sc[s].writes :
    /\ sc[s].declared
    /\ sc[s].writes[j].at < n
    /\ \A c \in Contexts(sc[s].writes[j].path) : c.parent <= sc[s].writes[j].at
    /\ \A i \in DOMAIN op : Agree(op[i], sc[s].writes[j].path)

\* A read on branch q does not take an assignment on branch p for one that excludes it.
Compatible(p, q) ==
  \A c \in Contexts(p), d \in Contexts(q) :
    c.parent = d.parent => c.child = d.child \/ c.jumps

\* The assignment w has left the branch of the earlier one on o, and the walk has left its
\* branch or it may not run.
Parted(w, o, q, s) ==
  \E c \in Contexts(w.path) :
    c.scope >= s /\ c \notin Contexts(o) /\ (w.modifier \/ c \notin Contexts(q))

\* A read on branch q would mark the assignment, if it is not marked yet.
Live(ws, s, j, q) ==
  \/ ws[j].referenced
  \/ /\ Compatible(ws[j].path, q)
     /\ \A k \in DOMAIN ws : k > j => Parted(ws[k], ws[j].path, q, s)

Reach(sc, s, level) == s <= level /\ \A t \in s + 1..level : ~sc[t].hard

\* Scope by scope outwards from branch q, a read would mark the assignments in X.
Carried(sc, op, X, level, q, lim) ==
  \A s \in 1..Len(sc) : \A j \in DOMAIN sc[s].writes : sc[s].writes[j].at \in X =>
    /\ Reach(sc, s, level)
    /\ ~sc[s].writes[j].reassigned
    /\ ~sc[s].captured =>
         /\ s = level => Live(sc[s].writes, s, j, q)
         /\ \A b \in DOMAIN op : b < lim /\ op[b].kind \in Scoping /\ op[b].scope = s =>
              Live(sc[s].writes, s, j, op[b].path)

\* What is put aside is not of the branch the walk is in.
Aside(sc, fr) ==
  \A s \in 1..Len(sc) : \A j \in DOMAIN sc[s].writes : sc[s].writes[j].at \in Saved(fr) =>
    \A c \in Contexts(sc[s].writes[j].path) : c.parent = fr.at =>
      c.child < Child(fr) /\ (sc[s].writes[j].at \in Sibling(fr) => c.jumps)

Unreported(X, n, rep) == \A x \in X : x < n /\ x \notin rep

SavedOK(sc, op, n, rep) ==
  \A i \in DOMAIN op :
    /\ Unreported(Saved(op[i]), n, rep)
    /\ Carried(sc, op, Saved(op[i]), op[i].scope, op[i].path, i)
    /\ Aside(sc, op[i])

BlocksOK(sc, op) ==
  \A i \in DOMAIN op : op[i].kind = "block" =>
    /\ ~sc[op[i].scope + 1].declared
    /\ \E s \in 1..op[i].scope : sc[s].declared /\ Reach(sc, s, op[i].scope + 1)

SeenOK(sc, n, rep, sn) ==
  /\ Unreported(sn.plain \union sn.captured, n, rep)
  /\ \A s \in 1..Len(sc) : \A j \in DOMAIN sc[s].writes :
       /\ sc[s].writes[j].at \in sn.plain =>
            sc[s].writes[j].referenced \/ (sc[s].captured /\ ~sc[s].writes[j].reassigned)
       /\ sc[s].writes[j].at \in sn.captured =>
            sc[s].captured /\ ~sc[s].writes[j].reassigned

\* With the values in plain, the walk is at offset n on branch p, in scopes sc and in the
\* constructs op.
Alive(sc, op, p, n, rep, sn, plain) ==
  /\ SeenOK(sc, n, rep, sn)
  /\ NestOK(Len(sc), op, n)
  /\ PathsOK(Len(sc), op, p, n)
  /\ WritesOK(sc, op, n)
  /\ SavedOK(sc, op, n, rep)
  /\ BlocksOK(sc, op)
  /\ Unreported(plain, n, rep)
  /\ Carried(sc, op, plain, Len(sc), p, Len(op) + 1)

LiveInv ==
  /\ SeenOK(scopes, pos, reported, seen)
  /\ scopes = <<>> => open = <<>>
  /\ scopes # <<>> => Alive(scopes, open, path, pos, reported, seen, flow.plain)

-----------------------------------------------------------------------------

\* The branches of a path.
LEMMA ContextsOf ==
  /\ Contexts(<<>>) = {}
  /\ \A p \in Seq(Context) : Contexts(p) \subseteq Context
  /\ \A p \in Seq(Context), c \in Context : Contexts(Append(p, c)) = Contexts(p) \union {c}
<1>1. Contexts(<<>>) = {}
  BY DEF Contexts
<1>2. ASSUME NEW p \in Seq(Context)
      PROVE  Contexts(p) \subseteq Context
  BY DEF Contexts
<1>3. ASSUME NEW p \in Seq(Context), NEW c \in Context
      PROVE  Contexts(Append(p, c)) = Contexts(p) \union {c}
  <2> DEFINE q == Append(p, c)
  <2>1. /\ q \in Seq(Context) /\ Len(q) = Len(p) + 1 /\ Len(p) \in Nat
        /\ \A i \in 1..Len(p) : q[i] = p[i]
        /\ q[Len(p) + 1] = c
    BY AppendProperties
  <2>2. DOMAIN q = 1..Len(p) + 1 /\ DOMAIN p = 1..Len(p)
    BY <2>1
  <2> HIDE DEF q
  <2>3. ASSUME NEW d \in Contexts(q) PROVE d \in Contexts(p) \union {c}
    <3>1. PICK i \in 1..Len(p) + 1 : d = q[i]
      BY <2>2 DEF Contexts
    <3>2. CASE i = Len(p) + 1
      BY <2>1, <3>1, <3>2
    <3>3. CASE i # Len(p) + 1
      <4>1. i \in 1..Len(p)
        BY <2>1, <3>3
      <4>2. QED
        BY <2>1, <2>2, <3>1, <4>1 DEF Contexts
    <3>4. QED
      BY <3>2, <3>3
  <2>4. ASSUME NEW d \in Contexts(p) PROVE d \in Contexts(q)
    <3>1. PICK i \in 1..Len(p) : d = p[i]
      BY <2>2 DEF Contexts
    <3>2. i \in DOMAIN q /\ q[i] = d
      BY <2>1, <2>2, <3>1
    <3>3. QED
      BY <3>2 DEF Contexts
  <2>5. c \in Contexts(q)
    <3>1. Len(p) + 1 \in DOMAIN q
      BY <2>1, <2>2
    <3>2. QED
      BY <2>1, <3>1 DEF Contexts
  <2>6. QED
    BY <2>3, <2>4, <2>5 DEF q
<1>4. QED
  BY <1>1, <1>2, <1>3

\* An assignment of a variable.
LEMMA WriteTypes ==
  ASSUME NEW sc \in Seq(Scope), NEW s \in 1..Len(sc)
  PROVE  /\ sc[s] \in Scope
         /\ sc[s].writes \in Seq(Assignment)
         /\ DOMAIN sc[s].writes = 1..Len(sc[s].writes)
         /\ Len(sc[s].writes) \in Nat
         /\ \A j \in DOMAIN sc[s].writes :
              /\ sc[s].writes[j] \in Assignment
              /\ sc[s].writes[j].at \in Nat
              /\ sc[s].writes[j].path \in Seq(Context)
              /\ Contexts(sc[s].writes[j].path) \subseteq Context
<1>1. sc[s] \in Scope
  OBVIOUS
<1>2. sc[s].writes \in Seq(Assignment)
  BY <1>1 DEF Scope
<1>3. ASSUME NEW j \in DOMAIN sc[s].writes
      PROVE  sc[s].writes[j] \in Assignment
  BY <1>2
<1>4. QED
  BY <1>1, <1>2, <1>3, ContextsOf DEF Assignment

\* A construct.
LEMMA FrameTypes ==
  ASSUME NEW op \in Seq(Frame), NEW i \in DOMAIN op
  PROVE  /\ DOMAIN op = 1..Len(op) /\ Len(op) \in Nat
         /\ op[i] \in Frame
         /\ op[i].at \in Nat /\ op[i].scope \in Nat /\ op[i].arm \in Nat
         /\ Child(op[i]) \in Nat /\ After(op[i]) \in Nat
         /\ op[i].path \in Seq(Context)
         /\ Contexts(op[i].path) \subseteq Context
         /\ Saved(op[i]) \subseteq Nat
<1>1. op[i] \in Frame
  OBVIOUS
<1>2. op[i].entry \in Flow /\ op[i].out \in Flow /\ op[i].thrown \in Flow
  BY <1>1 DEF Frame
<1>3. Saved(op[i]) \subseteq Nat
  BY <1>2 DEF Saved, Flow
<1>4. op[i].at \in Nat /\ op[i].scope \in Nat /\ op[i].arm \in Nat
      /\ op[i].path \in Seq(Context)
  BY <1>1 DEF Frame
<1>5. Child(op[i]) \in Nat /\ After(op[i]) \in Nat
  BY <1>4 DEF Child, After
<1>6. QED
  BY <1>1, <1>3, <1>4, <1>5, ContextsOf

\* A path with a branch in scope s that another does not have differs from it there.
LEMMA RelevantDiffers ==
  ASSUME NEW p, NEW o, NEW s, NEW c \in Contexts(p), c.scope >= s, c \notin Contexts(o)
  PROVE  Relevant(p, s) # Relevant(o, s) /\ DOMAIN Relevant(p, s) # {}
<1>1. PICK i \in DOMAIN p : p[i] = c
  BY DEF Contexts
<1>2. i \in DOMAIN Relevant(p, s) /\ Relevant(p, s)[i] = c
  BY <1>1 DEF Relevant
<1>3. ASSUME Relevant(p, s) = Relevant(o, s) PROVE FALSE
  <2>1. i \in DOMAIN Relevant(o, s) /\ Relevant(o, s)[i] = c
    BY <1>2, <1>3
  <2>2. i \in DOMAIN o /\ o[i] = c
    BY <2>1 DEF Relevant
  <2>3. QED
    BY <2>2 DEF Contexts
<1>4. QED
  BY <1>2, <1>3

\* A read marks a live assignment: the walk back meets no assignment that stops it, and does
\* not take it for one that excludes the read.
LEMMA LiveIsReached ==
  ASSUME NEW ws \in Seq(Assignment), NEW s \in Nat, NEW q \in Seq(Context),
         NEW j \in DOMAIN ws, Live(ws, s, j, q), ~ws[j].referenced
  PROVE  Reaches(ws, s, Relevant(q, s), j)
<1> DEFINE r == Relevant(q, s)
           o == Relevant(ws[j].path, s)
<1>1. Compatible(ws[j].path, q)
      /\ \A k \in DOMAIN ws : k > j => Parted(ws[k], ws[j].path, q, s)
  BY DEF Live
<1>2. ASSUME NEW k \in j + 1..Len(ws), ~ws[k].modifier
      PROVE  /\ DOMAIN Relevant(ws[k].path, s) # {}
             /\ Relevant(ws[k].path, s) # r
             /\ Relevant(ws[k].path, s) # o
  <2>1. PICK c \in Contexts(ws[k].path) :
          c.scope >= s /\ c \notin Contexts(ws[j].path) /\ c \notin Contexts(q)
    BY <1>1, <1>2 DEF Parted
  <2>2. QED
    BY <2>1, RelevantDiffers
<1>3. ~Exclusive(o, r)
  <2>1. SUFFICES ASSUME NEW i \in DOMAIN o, ~o[i].jumps,
                        NEW k \in DOMAIN r, r[k].parent = o[i].parent,
                        r[k].child # o[i].child
                 PROVE  FALSE
    <3>1. ASSUME Exclusive(o, r)
          PROVE  \E i \in DOMAIN o : ~o[i].jumps /\ \E k \in DOMAIN r :
                   r[k].parent = o[i].parent /\ r[k].child # o[i].child
      <4>1. PICK i \in DOMAIN o :
              /\ \A k \in DOMAIN o : k >= i => ~o[k].jumps
              /\ \E k \in DOMAIN r : r[k].parent = o[i].parent /\ r[k].child # o[i].child
        BY <3>1 DEF Exclusive
      <4>2. i \in Nat
        <5>1. ws[j] \in Assignment
          OBVIOUS
        <5>2. ws[j].path \in Seq(Context)
          BY <5>1 DEF Assignment
        <5>3. i \in DOMAIN ws[j].path
          BY DEF Relevant
        <5>4. QED
          BY <5>2, <5>3
      <4>3. QED
        BY <4>1, <4>2
    <3>2. QED
      BY <3>1
  <2>2. o[i] \in Contexts(ws[j].path) /\ r[k] \in Contexts(q)
    BY DEF Relevant, Contexts
  <2>3. QED
    BY <1>1, <2>1, <2>2 DEF Compatible
<1>4. QED
  BY <1>2, <1>3 DEF Reaches

\* Further out, what is live stays live.
LEMMA LiveOutside ==
  ASSUME NEW ws, NEW s, NEW j, NEW q, NEW r,
         Live(ws, s, j, q), Contexts(r) \subseteq Contexts(q)
  PROVE  Live(ws, s, j, r)
  BY DEF Live, Compatible, Parted

\* So it does on a new branch c that no assignment is on and that does not exclude it.
LEMMA LiveInside ==
  ASSUME NEW ws, NEW s, NEW j, NEW q, NEW r, NEW c,
         Live(ws, s, j, q), Contexts(r) \subseteq Contexts(q) \union {c},
         \A d \in Contexts(ws[j].path) : d.parent = c.parent => d.child = c.child \/ d.jumps,
         \A k \in DOMAIN ws : c \notin Contexts(ws[k].path)
  PROVE  Live(ws, s, j, r)
  BY DEF Live, Compatible, Parted

-----------------------------------------------------------------------------
(* What is carried. *)

\* Fewer, or from both of two places.
LEMMA CarriedTogether ==
  ASSUME NEW sc, NEW op, NEW X, NEW Y, NEW Z, NEW level, NEW q, NEW lim,
         Carried(sc, op, X, level, q, lim), Carried(sc, op, Y, level, q, lim),
         Z \subseteq X \union Y
  PROVE  Carried(sc, op, Z, level, q, lim)
  BY DEF Carried

\* Further out.
LEMMA CarriedOut ==
  ASSUME NEW sc, NEW op, NEW X, NEW level, NEW q, NEW lim, NEW r,
         Carried(sc, op, X, level, q, lim), Contexts(r) \subseteq Contexts(q)
  PROVE  Carried(sc, op, X, level, r, lim)
  BY LiveOutside DEF Carried

\* On a new branch.
LEMMA CarriedIn ==
  ASSUME NEW sc, NEW op, NEW X, NEW level, NEW q, NEW lim, NEW r, NEW c,
         Carried(sc, op, X, level, q, lim), Contexts(r) \subseteq Contexts(q) \union {c},
         \A s \in 1..Len(sc) : \A j \in DOMAIN sc[s].writes :
           /\ c \notin Contexts(sc[s].writes[j].path)
           /\ sc[s].writes[j].at \in X =>
                \A d \in Contexts(sc[s].writes[j].path) :
                  d.parent = c.parent => d.child = c.child \/ d.jumps
  PROVE  Carried(sc, op, X, level, r, lim)
  BY LiveInside DEF Carried

\* Among other constructs, if none of them has a scope that was not there.
LEMMA CarriedAmong ==
  ASSUME NEW sc, NEW op, NEW X, NEW level, NEW q, NEW lim, NEW op2, NEW lim2,
         Carried(sc, op, X, level, q, lim),
         \A b \in DOMAIN op2 : b < lim2 /\ op2[b].kind \in Scoping =>
           /\ b \in DOMAIN op /\ b < lim /\ op[b].kind \in Scoping
           /\ op[b].scope = op2[b].scope /\ op[b].path = op2[b].path
  PROVE  Carried(sc, op2, X, level, q, lim2)
  BY DEF Carried

-----------------------------------------------------------------------------
(* The scopes after a step. *)

\* Scopes stay as far apart as they are.
LEMMA MilderReach ==
  ASSUME NEW sc \in Seq(Scope), NEW sc2 \in Seq(Scope), Milder(sc, sc2),
         NEW s \in 1..Len(sc), NEW level, Reach(sc, s, level), level \in 1..Len(sc)
  PROVE  Reach(sc2, s, level)
  BY DEF Milder, Reach

\* A live assignment stays live when others are marked.
LEMMA MilderLive ==
  ASSUME NEW sc \in Seq(Scope), NEW sc2 \in Seq(Scope), Milder(sc, sc2),
         NEW s \in 1..Len(sc), NEW j \in DOMAIN sc[s].writes, NEW q,
         Live(sc[s].writes, s, j, q)
  PROVE  Live(sc2[s].writes, s, j, q)
<1>1. /\ DOMAIN sc2[s].writes = DOMAIN sc[s].writes
      /\ sc2[s].writes[j].path = sc[s].writes[j].path
      /\ sc[s].writes[j].referenced => sc2[s].writes[j].referenced
      /\ \A k \in DOMAIN sc[s].writes :
           /\ sc2[s].writes[k].path = sc[s].writes[k].path
           /\ sc2[s].writes[k].modifier = sc[s].writes[k].modifier
  BY DEF Milder
<1>2. QED
  BY <1>1 DEF Live, Parted

\* So what is carried is carried on.
LEMMA MilderCarried ==
  ASSUME NEW sc \in Seq(Scope), NEW sc2 \in Seq(Scope), Milder(sc, sc2),
         NEW op, NEW X, NEW level \in 1..Len(sc), NEW q, NEW lim,
         Carried(sc, op, X, level, q, lim)
  PROVE  Carried(sc2, op, X, level, q, lim)
<1>1. SUFFICES ASSUME NEW s \in 1..Len(sc), NEW j \in DOMAIN sc[s].writes,
                      sc[s].writes[j].at \in X
               PROVE  /\ Reach(sc2, s, level)
                      /\ ~sc2[s].writes[j].reassigned
                      /\ ~sc2[s].captured =>
                           /\ s = level => Live(sc2[s].writes, s, j, q)
                           /\ \A b \in DOMAIN op :
                                b < lim /\ op[b].kind \in Scoping /\ op[b].scope = s =>
                                  Live(sc2[s].writes, s, j, op[b].path)
  BY DEF Carried, Milder
<1>2. /\ Reach(sc, s, level)
      /\ ~sc[s].writes[j].reassigned
      /\ ~sc[s].captured =>
           /\ s = level => Live(sc[s].writes, s, j, q)
           /\ \A b \in DOMAIN op : b < lim /\ op[b].kind \in Scoping /\ op[b].scope = s =>
                Live(sc[s].writes, s, j, op[b].path)
  BY <1>1 DEF Carried
<1>3. Reach(sc2, s, level)
  BY <1>2, MilderReach
<1>4. sc2[s].writes[j].reassigned = sc[s].writes[j].reassigned
      /\ (sc[s].captured => sc2[s].captured)
  BY DEF Milder
<1>5. QED
  BY <1>2, <1>3, <1>4, MilderLive

\* And the rest of what the invariant says of scopes and constructs stays true.
LEMMA MilderKeeps ==
  ASSUME NEW sc \in Seq(Scope), NEW sc2 \in Seq(Scope), Milder(sc, sc2),
         NEW op \in Seq(Frame), NEW n, NEW rep, NEW sn,
         \A i \in DOMAIN op : op[i].scope \in 1..Len(sc) /\ After(op[i]) <= Len(sc)
  PROVE  /\ WritesOK(sc, op, n) => WritesOK(sc2, op, n)
         /\ SavedOK(sc, op, n, rep) => SavedOK(sc2, op, n, rep)
         /\ BlocksOK(sc, op) => BlocksOK(sc2, op)
         /\ SeenOK(sc, n, rep, sn) => SeenOK(sc2, n, rep, sn)
<1>1. ASSUME WritesOK(sc, op, n)
      PROVE  WritesOK(sc2, op, n)
  <2>1. SUFFICES ASSUME NEW s \in 1..Len(sc), NEW j \in DOMAIN sc[s].writes
                 PROVE  /\ sc2[s].declared
                        /\ sc2[s].writes[j].at < n
                        /\ \A c \in Contexts(sc2[s].writes[j].path) :
                             c.parent <= sc2[s].writes[j].at
                        /\ \A i \in DOMAIN op : Agree(op[i], sc2[s].writes[j].path)
    BY DEF WritesOK, Milder
  <2>2. /\ sc[s].declared
        /\ sc[s].writes[j].at < n
        /\ \A c \in Contexts(sc[s].writes[j].path) : c.parent <= sc[s].writes[j].at
        /\ \A i \in DOMAIN op : Agree(op[i], sc[s].writes[j].path)
    BY <1>1 DEF WritesOK
  <2>3. /\ sc2[s].declared = sc[s].declared
        /\ sc2[s].writes[j].at = sc[s].writes[j].at
        /\ sc2[s].writes[j].path = sc[s].writes[j].path
    BY DEF Milder
  <2>4. QED
    BY <2>2, <2>3
<1>2. ASSUME SavedOK(sc, op, n, rep)
      PROVE  SavedOK(sc2, op, n, rep)
  <2>1. SUFFICES ASSUME NEW i \in DOMAIN op
                 PROVE  /\ Carried(sc2, op, Saved(op[i]), op[i].scope, op[i].path, i)
                        /\ Aside(sc2, op[i])
    BY <1>2 DEF SavedOK
  <2>2. Carried(sc, op, Saved(op[i]), op[i].scope, op[i].path, i) /\ Aside(sc, op[i])
    BY <1>2 DEF SavedOK
  <2>3. Carried(sc2, op, Saved(op[i]), op[i].scope, op[i].path, i)
    BY <2>2, MilderCarried
  <2>4. Aside(sc2, op[i])
    BY <2>2 DEF Aside, Milder
  <2>5. QED
    BY <2>3, <2>4
<1>3. ASSUME BlocksOK(sc, op)
      PROVE  BlocksOK(sc2, op)
  <2>1. SUFFICES ASSUME NEW i \in DOMAIN op, op[i].kind = "block"
                 PROVE  /\ ~sc2[op[i].scope + 1].declared
                        /\ \E s \in 1..op[i].scope :
                             sc2[s].declared /\ Reach(sc2, s, op[i].scope + 1)
    BY DEF BlocksOK
  <2>2. /\ op[i].scope \in 1..Len(sc) /\ op[i].scope + 1 \in 1..Len(sc)
    <3>1. After(op[i]) = op[i].scope + 1
      BY <2>1 DEF After, Scoping
    <3>2. QED
      BY <3>1
  <2>3. PICK s \in 1..op[i].scope : sc[s].declared /\ Reach(sc, s, op[i].scope + 1)
    BY <1>3, <2>1 DEF BlocksOK
  <2>4. s \in 1..Len(sc)
    BY <2>2
  <2>5. Reach(sc2, s, op[i].scope + 1)
    BY <2>2, <2>3, <2>4, MilderReach
  <2>6. sc2[s].declared /\ ~sc2[op[i].scope + 1].declared
    BY <1>3, <2>1, <2>2, <2>3, <2>4 DEF BlocksOK, Milder
  <2>7. QED
    BY <2>3, <2>5, <2>6
<1>4. ASSUME SeenOK(sc, n, rep, sn)
      PROVE  SeenOK(sc2, n, rep, sn)
  <2>1. SUFFICES ASSUME NEW s \in 1..Len(sc), NEW j \in DOMAIN sc[s].writes
                 PROVE  /\ sc2[s].writes[j].at \in sn.plain =>
                             \/ sc2[s].writes[j].referenced
                             \/ sc2[s].captured /\ ~sc2[s].writes[j].reassigned
                        /\ sc2[s].writes[j].at \in sn.captured =>
                             sc2[s].captured /\ ~sc2[s].writes[j].reassigned
    BY <1>4 DEF SeenOK, Milder
  <2>2. /\ sc[s].writes[j].at \in sn.plain =>
             \/ sc[s].writes[j].referenced
             \/ sc[s].captured /\ ~sc[s].writes[j].reassigned
        /\ sc[s].writes[j].at \in sn.captured =>
             sc[s].captured /\ ~sc[s].writes[j].reassigned
    BY <1>4 DEF SeenOK
  <2>3. /\ sc2[s].writes[j].at = sc[s].writes[j].at
        /\ sc2[s].writes[j].reassigned = sc[s].writes[j].reassigned
        /\ sc[s].writes[j].referenced => sc2[s].writes[j].referenced
        /\ sc[s].captured => sc2[s].captured
    BY DEF Milder
  <2>4. QED
    BY <2>2, <2>3
<1>5. QED
  BY <1>1, <1>2, <1>3, <1>4

\* An assignment leaves live what its branch p left before, or what is marked.
LEMMA AddsLive ==
  ASSUME NEW sc \in Seq(Scope), NEW sc2 \in Seq(Scope), NEW s \in 1..Len(sc),
         NEW n, NEW p, NEW modifier, Adds(sc, sc2, s, n, p, modifier),
         NEW j \in DOMAIN sc[s].writes, NEW q, Live(sc[s].writes, s, j, q),
         \/ sc[s].writes[j].referenced
         \/ \E c \in Contexts(p) :
              /\ c.scope >= s
              /\ c \notin Contexts(sc[s].writes[j].path)
              /\ modifier \/ c \notin Contexts(q)
  PROVE  Live(sc2[s].writes, s, j, q)
<1> DEFINE ws == sc[s].writes
           w2 == sc2[s].writes
           l == Len(ws)
<1>1. /\ l \in Nat /\ DOMAIN ws = 1..l /\ DOMAIN w2 = 1..l + 1
  BY WriteTypes DEF Adds
<1>2. /\ w2[j].path = ws[j].path /\ (w2[j].referenced <=> ws[j].referenced)
      /\ \A k \in 1..l : w2[k].path = ws[k].path /\ w2[k].modifier = ws[k].modifier
      /\ w2[l + 1].path = p /\ w2[l + 1].modifier = modifier
  BY <1>1 DEF Adds
<1> HIDE DEF w2
<1>3. CASE ws[j].referenced
  BY <1>2, <1>3 DEF Live, w2
<1>4. CASE ~ws[j].referenced
  <2>1. /\ Compatible(ws[j].path, q)
        /\ \A k \in DOMAIN ws : k > j => Parted(ws[k], ws[j].path, q, s)
    BY <1>4 DEF Live
  <2>2. ASSUME NEW k \in 1..l + 1, k > j
        PROVE  Parted(w2[k], w2[j].path, q, s)
    <3>1. CASE k = l + 1
      BY <1>2, <1>4, <3>1 DEF Parted
    <3>2. CASE k # l + 1
      <4>1. k \in 1..l
        BY ONLY <1>1, <3>2
      <4>2. QED
        BY <1>1, <1>2, <2>1, <2>2, <4>1 DEF Parted
    <3>3. QED
      BY <3>1, <3>2
  <2>3. QED
    BY <1>1, <1>2, <2>1, <2>2 DEF Live, w2
<1>5. QED
  BY <1>3, <1>4

\* Among the scopes, an assignment changes the captured and declared ones only.
LEMMA AddsReach ==
  ASSUME NEW sc \in Seq(Scope), NEW sc2 \in Seq(Scope), NEW s \in 1..Len(sc),
         NEW n, NEW p, NEW modifier, Adds(sc, sc2, s, n, p, modifier),
         NEW t \in 1..Len(sc), NEW level \in 1..Len(sc), Reach(sc, t, level)
  PROVE  Reach(sc2, t, level)
<1>1. \A u \in 1..Len(sc) : sc2[u].hard = sc[u].hard
  BY DEF Adds
<1>2. QED
  BY <1>1 DEF Reach

\* An assignment on p to the variable of scope s overwrites none in X, and a read on q still
\* gets to them.
Spares(sc, s, p, modifier, X, q) ==
  \A j \in DOMAIN sc[s].writes : sc[s].writes[j].at \in X /\ ~sc[s].captured =>
    \/ sc[s].writes[j].referenced
    \/ \E c \in Contexts(p) :
         /\ c.scope >= s
         /\ c \notin Contexts(sc[s].writes[j].path)
         /\ modifier \/ c \notin Contexts(q)

\* What an assignment does to what is carried: it overwrites none that is marked or on another
\* branch.
LEMMA AddsCarried ==
  ASSUME NEW sc \in Seq(Scope), NEW sc2 \in Seq(Scope), NEW s \in 1..Len(sc),
         NEW n, NEW p, NEW modifier, Adds(sc, sc2, s, n, p, modifier),
         NEW op, NEW X, NEW level \in 1..Len(sc), NEW q, NEW lim,
         Carried(sc, op, X, level, q, lim), n \notin X,
         \A b \in DOMAIN op : op[b].kind \in Scoping => op[b].scope # Len(sc),
         s = Len(sc) /\ s = level => Spares(sc, s, p, modifier, X, q)
  PROVE  Carried(sc2, op, X, level, q, lim)
<1>1. SUFFICES ASSUME NEW t \in 1..Len(sc), NEW j \in DOMAIN sc2[t].writes,
                      sc2[t].writes[j].at \in X
               PROVE  /\ Reach(sc2, t, level)
                      /\ ~sc2[t].writes[j].reassigned
                      /\ ~sc2[t].captured =>
                           /\ t = level => Live(sc2[t].writes, t, j, q)
                           /\ \A b \in DOMAIN op :
                                b < lim /\ op[b].kind \in Scoping /\ op[b].scope = t =>
                                  Live(sc2[t].writes, t, j, op[b].path)
  BY DEF Carried, Adds
<1>2. CASE t # s
  <2>1. sc2[t] = sc[t]
    BY <1>2 DEF Adds
  <2>2. Reach(sc, t, level)
    BY <1>1, <2>1 DEF Carried
  <2>3. Reach(sc2, t, level)
    BY <2>2, AddsReach
  <2>4. QED
    BY <1>1, <2>1, <2>3 DEF Carried
<1>3. CASE t = s
  <2> DEFINE ws == sc[s].writes
             w2 == sc2[s].writes
             l == Len(ws)
  <2>1. /\ l \in Nat /\ DOMAIN ws = 1..l /\ DOMAIN w2 = 1..l + 1
        /\ w2[l + 1].at = n
    BY WriteTypes DEF Adds
  <2>2. j \in 1..l
    BY <1>1, <1>3, <2>1
  <2>3. /\ w2[j].at = ws[j].at
        /\ w2[j].reassigned <=>
             ws[j].reassigned \/ (~sc2[s].captured /\ Overwrites(ws, s, p, j))
        /\ sc2[s].captured <=> sc[s].captured \/ s # Len(sc)
    BY <2>2 DEF Adds
  <2>4. /\ Reach(sc, s, level)
        /\ ~ws[j].reassigned
        /\ ~sc[s].captured =>
             /\ s = level => Live(ws, s, j, q)
             /\ \A b \in DOMAIN op : b < lim /\ op[b].kind \in Scoping /\ op[b].scope = s =>
                  Live(ws, s, j, op[b].path)
    BY <1>1, <1>3, <2>1, <2>2, <2>3 DEF Carried
  <2>5. Reach(sc2, t, level)
    BY <1>3, <2>4, AddsReach
  <2>6. CASE sc2[s].captured
    BY <1>3, <2>3, <2>4, <2>5, <2>6
  <2>7. CASE ~sc2[s].captured
    <3>1. ~sc[s].captured /\ s = Len(sc) /\ s = level
      BY <2>3, <2>4, <2>7 DEF Reach
    <3>2. \/ ws[j].referenced
          \/ \E c \in Contexts(p) :
               /\ c.scope >= s
               /\ c \notin Contexts(ws[j].path)
               /\ modifier \/ c \notin Contexts(q)
      BY <1>1, <1>3, <2>1, <2>2, <2>3, <3>1 DEF Spares
    <3>3. ~Overwrites(ws, s, p, j)
      BY <3>2, RelevantDiffers DEF Overwrites
    <3>5. Live(ws, s, j, q)
      BY <2>4, <3>1
    <3> HIDE DEF ws, w2
    <3>6. Live(sc2[s].writes, s, j, q)
      BY <2>1, <2>2, <3>2, <3>5, AddsLive DEF ws
    <3>7. QED
      BY <1>3, <2>3, <2>4, <2>5, <3>1, <3>3, <3>6 DEF w2
  <2>8. QED
    BY <2>6, <2>7
<1>4. QED
  BY <1>2, <1>3

\* The new assignment is carried from where it is made, and along with what was.
LEMMA AddedCarried ==
  ASSUME NEW sc \in Seq(Scope), NEW sc2 \in Seq(Scope), NEW s \in 1..Len(sc),
         NEW n \in Nat, NEW p, NEW modifier, Adds(sc, sc2, s, n, p, modifier),
         NEW op, NEW q, NEW lim, Reach(sc, s, Len(sc)),
         WritesOK(sc, op, n), Compatible(p, q),
         \A b \in DOMAIN op : op[b].kind \in Scoping => op[b].scope # Len(sc)
  PROVE  Carried(sc2, op, {n}, Len(sc), q, lim)
<1>1. SUFFICES ASSUME NEW t \in 1..Len(sc), NEW j \in DOMAIN sc2[t].writes,
                      sc2[t].writes[j].at = n
               PROVE  /\ Reach(sc2, t, Len(sc))
                      /\ ~sc2[t].writes[j].reassigned
                      /\ ~sc2[t].captured =>
                           /\ t = Len(sc) => Live(sc2[t].writes, t, j, q)
                           /\ \A b \in DOMAIN op :
                                b < lim /\ op[b].kind \in Scoping /\ op[b].scope = t =>
                                  Live(sc2[t].writes, t, j, op[b].path)
  BY DEF Carried, Adds
<1> DEFINE ws == sc[s].writes
           w2 == sc2[s].writes
           l == Len(ws)
<1>2. t = s
  <2>1. SUFFICES ASSUME t # s PROVE FALSE
    OBVIOUS
  <2>2. sc2[t] = sc[t]
    BY <2>1 DEF Adds
  <2>3. sc[t].writes[j].at < n /\ sc[t].writes[j].at \in Nat
    BY <2>2, WriteTypes DEF WritesOK
  <2>4. QED
    BY <1>1, <2>2, <2>3
<1>3. /\ l \in Nat /\ DOMAIN ws = 1..l /\ DOMAIN w2 = 1..l + 1
  BY WriteTypes DEF Adds
<1>4. j = l + 1
  <2>1. SUFFICES ASSUME j # l + 1 PROVE FALSE
    OBVIOUS
  <2>2. j \in 1..l
    BY <1>2, <1>3, <2>1
  <2>3. w2[j].at = ws[j].at /\ ws[j].at < n /\ ws[j].at \in Nat
    BY <1>3, <2>2, WriteTypes DEF WritesOK, Adds
  <2>4. QED
    BY <1>1, <1>2, <2>3
<1>5. w2[j].path = p /\ ~w2[j].reassigned
  BY <1>4 DEF Adds
<1>6. Live(w2, s, j, q)
  <2>1. \A k \in DOMAIN w2 : ~(k > j)
    BY <1>3, <1>4
  <2> HIDE DEF w2
  <2>2. QED
    BY <1>5, <2>1 DEF Live
<1>7. Len(sc) \in 1..Len(sc) /\ (~sc2[s].captured => s = Len(sc))
  BY DEF Adds
<1>8. Reach(sc2, s, Len(sc))
  BY <1>7, AddsReach
<1>9. QED
  BY <1>2, <1>5, <1>6, <1>7, <1>8

\* Where the constructs stand among the scopes.
LEMMA NestFacts ==
  ASSUME NEW top \in Nat, NEW op \in Seq(Frame), NEW n, NestOK(top, op, n),
         NEW i \in DOMAIN op
  PROVE  /\ op[i].scope \in 1..top
         /\ After(op[i]) <= top
         /\ op[i].kind \in Scoping => op[i].scope < top
<1>1. DOMAIN op = 1..Len(op) /\ Len(op) \in Nat /\ Len(op) \in DOMAIN op /\ op # <<>>
  OBVIOUS
<1>2. top = After(op[Len(op)])
  BY <1>1 DEF NestOK
<1>3. /\ op[i].scope \in Nat /\ op[i].scope >= 1
      /\ op[Len(op)].scope \in Nat
      /\ After(op[i]) \in Nat
  BY <1>1, FrameTypes DEF NestOK
<1>4. After(op[i]) <= top
  <2>1. CASE i = Len(op)
    BY <1>2, <1>3, <2>1
  <2>2. CASE i # Len(op)
    <3>1. After(op[i]) <= op[Len(op)].scope
      BY <1>1, <2>2 DEF NestOK
    <3>2. op[Len(op)].scope <= top
      BY <1>2, <1>3 DEF After
    <3>3. QED
      BY <1>3, <3>1, <3>2
  <2>3. QED
    BY <2>1, <2>2
<1>5. QED
  BY <1>3, <1>4 DEF After

\* What an assignment leaves of the invariant.
LEMMA AddsKeeps ==
  ASSUME NEW sc \in Seq(Scope), NEW sc2 \in Seq(Scope), NEW s \in 1..Len(sc),
         NEW n \in Nat, NEW p, NEW modifier, Adds(sc, sc2, s, n, p, modifier),
         NEW op \in Seq(Frame), NEW pth, NEW rep, NEW sn,
         NestOK(Len(sc), op, n), PathsOK(Len(sc), op, pth, n), WritesOK(sc, op, n),
         SavedOK(sc, op, n, rep), BlocksOK(sc, op), SeenOK(sc, n, rep, sn),
         Contexts(pth) \subseteq Contexts(p),
         \A c \in Contexts(p) : c.parent <= n,
         \A i \in DOMAIN op : Agree(op[i], p),
         \/ sc[s].declared
         \/ s = Len(sc) /\ \A t \in 1..Len(sc) : Reach(sc, t, Len(sc)) => ~sc[t].declared,
         \A x \in sn.plain \union sn.captured : x \in Nat
  PROVE  /\ WritesOK(sc2, op, n + 1)
         /\ SavedOK(sc2, op, n + 1, rep)
         /\ BlocksOK(sc2, op)
         /\ SeenOK(sc2, n + 1, rep, sn)
<1> DEFINE ws == sc[s].writes
           w2 == sc2[s].writes
           l == Len(ws)
<1>1. /\ l \in Nat /\ DOMAIN ws = 1..l /\ DOMAIN w2 = 1..l + 1 /\ Len(sc2) = Len(sc)
      /\ w2[l + 1].at = n /\ w2[l + 1].path = p
      /\ Len(sc) \in Nat
  BY WriteTypes DEF Adds
<1>2. \A j \in 1..l : /\ w2[j].at = ws[j].at /\ w2[j].path = ws[j].path
                      /\ (w2[j].referenced <=> ws[j].referenced)
  BY DEF Adds
<1>3. /\ \A t \in 1..Len(sc) : t # s => sc2[t] = sc[t]
      /\ sc2[s].declared
      /\ sc[s].captured => sc2[s].captured
      /\ \A j \in 1..l : sc2[s].captured => w2[j].reassigned = ws[j].reassigned
  <2>1. \A j \in 1..l : sc2[s].captured => w2[j].reassigned = ws[j].reassigned
    <3>1. SUFFICES ASSUME NEW j \in 1..l, sc2[s].captured
                   PROVE  w2[j].reassigned = ws[j].reassigned
      OBVIOUS
    <3>2. w2[j].reassigned <=> ws[j].reassigned
      BY <3>1 DEF Adds
    <3>3. j \in DOMAIN ws /\ j \in DOMAIN w2
      BY <1>1
    <3>4. sc2[s] \in Scope /\ w2 \in Seq(Assignment)
      BY <1>1, WriteTypes
    <3>5. w2[j] \in Assignment /\ ws[j] \in Assignment
      BY <3>3, <3>4, WriteTypes
    <3>6. w2[j].reassigned \in BOOLEAN /\ ws[j].reassigned \in BOOLEAN
      BY <3>5 DEF Assignment
    <3>7. QED
      BY <3>2, <3>6
  <2>2. QED
    BY <2>1 DEF Adds
<1>4. \A t \in 1..Len(sc) : \A j \in DOMAIN sc[t].writes :
        sc[t].writes[j].at \in Nat /\ sc[t].writes[j].at < n
  BY WriteTypes DEF WritesOK
<1>5. WritesOK(sc2, op, n + 1)
  <2>1. SUFFICES ASSUME NEW t \in 1..Len(sc), NEW j \in DOMAIN sc2[t].writes
                 PROVE  /\ sc2[t].declared
                        /\ sc2[t].writes[j].at < n + 1
                        /\ \A c \in Contexts(sc2[t].writes[j].path) :
                             c.parent <= sc2[t].writes[j].at
                        /\ \A i \in DOMAIN op : Agree(op[i], sc2[t].writes[j].path)
    BY <1>1 DEF WritesOK
  <2>2. CASE t # s
    <3>1. sc2[t] = sc[t] /\ j \in DOMAIN sc[t].writes
      BY <1>3, <2>1, <2>2
    <3>2. sc[t].writes[j].at < n + 1
      BY ONLY <1>4, <3>1
    <3>3. QED
      BY <3>1, <3>2 DEF WritesOK
  <2>3. CASE t = s /\ j = l + 1
    BY <1>1, <1>3, <2>3
  <2>4. CASE t = s /\ j # l + 1
    <3>1. j \in DOMAIN ws /\ j \in 1..l
      BY ONLY <1>1, <2>1, <2>4
    <3>2. w2[j].at = ws[j].at /\ w2[j].path = ws[j].path
      BY <1>2, <3>1
    <3>3. ws[j].at < n /\ ws[j].at \in Nat
      BY <1>4, <3>1
    <3>4. /\ \A c \in Contexts(ws[j].path) : c.parent <= ws[j].at
          /\ \A i \in DOMAIN op : Agree(op[i], ws[j].path)
      BY <3>1 DEF WritesOK
    <3> HIDE DEF ws
    <3>5. QED
      BY <1>3, <2>4, <3>2, <3>3, <3>4 DEF w2
  <2>5. QED
    BY <2>2, <2>3, <2>4
<1>6. ASSUME NEW i \in DOMAIN op
      PROVE  /\ Carried(sc2, op, Saved(op[i]), op[i].scope, op[i].path, i)
             /\ Aside(sc2, op[i])
             /\ Unreported(Saved(op[i]), n + 1, rep)
  <2>1. /\ Carried(sc, op, Saved(op[i]), op[i].scope, op[i].path, i)
        /\ Aside(sc, op[i])
        /\ Unreported(Saved(op[i]), n, rep)
        /\ Saved(op[i]) \subseteq Nat
    BY FrameTypes DEF SavedOK
  <2>2. n \notin Saved(op[i])
    BY <2>1 DEF Unreported
  <2>3. op[i].scope \in 1..Len(sc)
    BY <1>1, NestFacts
  <2>4. ASSUME NEW b \in DOMAIN op, op[b].kind \in Scoping PROVE op[b].scope # Len(sc)
    <3>1. op[b].scope \in 1..Len(sc) /\ op[b].scope < Len(sc)
      BY <1>1, <2>4, NestFacts
    <3>2. QED
      BY ONLY <3>1
  <2>5. ASSUME NEW j \in DOMAIN ws, ws[j].at \in Saved(op[i]), s = Len(sc),
               s = op[i].scope
        PROVE  \E c \in Contexts(p) : /\ c.scope >= s
                                      /\ c \notin Contexts(ws[j].path)
                                      /\ c \notin Contexts(op[i].path)
    <3>1. op[i].kind \notin Straight \union Scoping
      BY <2>4, <2>5 DEF Saved, Straight
    <3>2. PICK c \in Contexts(pth) :
            c.parent = op[i].at /\ c.child = Child(op[i]) /\ c.scope = Len(sc)
      <4>1. i < Len(op) + 1
        OBVIOUS
      <4>2. QED
        BY <2>5, <3>1, <4>1 DEF PathsOK, Within
    <3>3. c \notin Contexts(ws[j].path)
      <4>1. SUFFICES ASSUME c \in Contexts(ws[j].path) PROVE FALSE
        OBVIOUS
      <4>2. c.child < Child(op[i])
        BY <2>1, <2>5, <3>2, <4>1 DEF Aside
      <4>3. Child(op[i]) \in Nat
        BY FrameTypes
      <4>4. QED
        BY <3>2, <4>2, <4>3
    <3>4. c \notin Contexts(op[i].path)
      BY <3>2, FrameTypes DEF PathsOK, PathOK
    <3>5. c.scope >= s
      <4>1. c.scope = s /\ s \in Nat
        BY <1>1, <2>5, <3>2
      <4>2. QED
        BY <4>1
    <3>6. QED
      BY <3>2, <3>3, <3>4, <3>5
  <2>6. Carried(sc2, op, Saved(op[i]), op[i].scope, op[i].path, i)
    <3> HIDE DEF ws
    <3>1. s = Len(sc) /\ s = op[i].scope =>
            Spares(sc, s, p, modifier, Saved(op[i]), op[i].path)
      BY <2>5 DEF ws, Spares
    <3>2. QED
      BY <2>1, <2>2, <2>3, <2>4, <3>1, AddsCarried
  <2>7. Aside(sc2, op[i])
    <3>1. SUFFICES ASSUME NEW t \in 1..Len(sc), NEW j \in DOMAIN sc2[t].writes,
                          sc2[t].writes[j].at \in Saved(op[i]),
                          NEW c \in Contexts(sc2[t].writes[j].path), c.parent = op[i].at
                   PROVE  /\ c.child < Child(op[i])
                          /\ sc2[t].writes[j].at \in Sibling(op[i]) => c.jumps
      BY <1>1 DEF Aside
    <3>2. CASE t # s
      BY <1>3, <2>1, <3>1, <3>2 DEF Aside
    <3>3. CASE t = s
      <4>1. j \in DOMAIN w2 /\ w2[j].at # n
        BY <2>2, <3>1, <3>3
      <4>2. j \in DOMAIN ws /\ j \in 1..l
        <5>1. j # l + 1
          BY <1>1, <4>1
        <5>2. j \in 1..l + 1 /\ l \in Nat /\ DOMAIN ws = 1..l
          BY <1>1, <4>1
        <5> HIDE DEF ws, w2, l
        <5>3. QED
          BY ONLY <5>1, <5>2
      <4>3. w2[j].at = ws[j].at /\ w2[j].path = ws[j].path
        BY <1>2, <4>2
      <4>4. /\ w2[j] = sc2[t].writes[j] /\ Aside(sc, op[i])
            /\ s \in 1..Len(sc) /\ j \in DOMAIN sc[s].writes /\ ws[j] = sc[s].writes[j]
        BY <2>1, <3>3, <4>2
      <4> HIDE DEF ws, w2
      <4>5. QED
        BY ONLY <3>1, <4>3, <4>4 DEF Aside
    <3>4. QED
      BY <3>2, <3>3
  <2>8. Unreported(Saved(op[i]), n + 1, rep)
    BY <2>1 DEF Unreported
  <2>9. QED
    BY <2>6, <2>7, <2>8
<1>7. SavedOK(sc2, op, n + 1, rep)
  BY <1>6 DEF SavedOK
<1>8. BlocksOK(sc2, op)
  <2>1. SUFFICES ASSUME NEW i \in DOMAIN op, op[i].kind = "block"
                 PROVE  /\ ~sc2[op[i].scope + 1].declared
                        /\ \E t \in 1..op[i].scope :
                             sc2[t].declared /\ Reach(sc2, t, op[i].scope + 1)
    BY DEF BlocksOK
  <2>2. PICK t \in 1..op[i].scope : sc[t].declared /\ Reach(sc, t, op[i].scope + 1)
    BY <2>1 DEF BlocksOK
  <2>3. op[i].scope + 1 \in 1..Len(sc) /\ t \in 1..Len(sc) /\ ~sc[op[i].scope + 1].declared
    <3>1. op[i].scope \in 1..Len(sc) /\ op[i].scope < Len(sc) /\ Len(sc) \in Nat
      BY <1>1, <2>1, NestFacts DEF Scoping
    <3>2. t \in 1..op[i].scope /\ ~sc[op[i].scope + 1].declared
      BY <2>1 DEF BlocksOK
    <3>3. QED
      BY ONLY <3>1, <3>2
  <2>4. op[i].scope + 1 # s
    BY <2>2, <2>3
  <2>5. sc2[t].declared /\ ~sc2[op[i].scope + 1].declared
    BY <1>3, <2>2, <2>3, <2>4
  <2>6. Reach(sc2, t, op[i].scope + 1)
    BY <2>2, <2>3, AddsReach
  <2>7. QED
    BY <2>5, <2>6
<1>9. SeenOK(sc2, n + 1, rep, sn)
  <2>1. Unreported(sn.plain \union sn.captured, n + 1, rep)
    BY DEF SeenOK, Unreported
  <2>2. n \notin sn.plain \union sn.captured
    BY DEF SeenOK, Unreported
  <2>3. SUFFICES ASSUME NEW t \in 1..Len(sc), NEW j \in DOMAIN sc2[t].writes
                 PROVE  /\ sc2[t].writes[j].at \in sn.plain =>
                             \/ sc2[t].writes[j].referenced
                             \/ sc2[t].captured /\ ~sc2[t].writes[j].reassigned
                        /\ sc2[t].writes[j].at \in sn.captured =>
                             sc2[t].captured /\ ~sc2[t].writes[j].reassigned
    BY <1>1, <2>1 DEF SeenOK
  <2>4. CASE t # s
    BY <1>3, <2>4 DEF SeenOK
  <2>5. CASE t = s /\ j = l + 1
    BY <1>1, <2>2, <2>5
  <2>6. CASE t = s /\ j # l + 1
    <3>1. j \in DOMAIN ws /\ j \in 1..l
      BY ONLY <1>1, <2>3, <2>6
    <3>2. /\ ws[j].at \in sn.plain => ws[j].referenced \/ (sc[s].captured /\ ~ws[j].reassigned)
          /\ ws[j].at \in sn.captured => sc[s].captured /\ ~ws[j].reassigned
      BY <3>1 DEF SeenOK
    <3>3. w2[j].at = ws[j].at /\ (w2[j].referenced <=> ws[j].referenced)
      BY <1>2, <3>1
    <3>4. sc[s].captured => sc2[s].captured /\ w2[j].reassigned = ws[j].reassigned
      BY <1>3, <3>1
    <3>5. QED
      BY <2>6, <3>2, <3>3, <3>4
  <2>7. QED
    BY <2>4, <2>5, <2>6
<1>10. QED
  BY <1>5, <1>7, <1>8, <1>9

-----------------------------------------------------------------------------
(* The constructs after a step. *)

\* What a frame says but for the values an exception leaves it with.
SameFrame(fr, fr2) ==
  /\ fr2.kind = fr.kind /\ fr2.at = fr.at /\ fr2.arm = fr.arm /\ fr2.scope = fr.scope
  /\ fr2.path = fr.path /\ fr2.entry = fr.entry /\ fr2.out = fr.out
  /\ fr2.thrown = fr.thrown

\* The invariant does not look at those.
LEMMA SameFrames ==
  ASSUME NEW sc, NEW op, NEW op2, NEW p, NEW n, NEW rep, NEW sn, NEW X,
         Alive(sc, op, p, n, rep, sn, X),
         op \in Seq(Frame), op2 \in Seq(Frame),
         DOMAIN op2 = DOMAIN op, Len(op2) = Len(op),
         \A i \in DOMAIN op : SameFrame(op[i], op2[i])
  PROVE  Alive(sc, op2, p, n, rep, sn, X)
<1>1. \A i \in DOMAIN op :
        /\ op2[i].kind = op[i].kind /\ op2[i].at = op[i].at /\ op2[i].scope = op[i].scope
        /\ op2[i].path = op[i].path
        /\ Child(op2[i]) = Child(op[i]) /\ After(op2[i]) = After(op[i])
        /\ Saved(op2[i]) = Saved(op[i]) /\ Sibling(op2[i]) = Sibling(op[i])
  BY DEF SameFrame, Child, After, Saved, Sibling
<1>2. \A i \in DOMAIN op : \A q : Agree(op[i], q) => Agree(op2[i], q)
  BY <1>1 DEF Agree
<1>3. \A q, m : PathOK(op, q, m) => PathOK(op2, q, m)
  BY <1>2 DEF PathOK
<1>4. \A q, lim, level : Within(op, lim, level, q) => Within(op2, lim, level, q)
  BY <1>1 DEF Within
<1>5. NestOK(Len(sc), op2, n)
  <2>1. NestOK(Len(sc), op, n)
    BY DEF Alive
  <2>2. op = <<>> <=> op2 = <<>>
    OBVIOUS
  <2>3. op # <<>> => Len(op) \in DOMAIN op /\ 1 \in DOMAIN op
    OBVIOUS
  <2>4. QED
    BY <1>1, <2>1, <2>2, <2>3 DEF NestOK
<1>6. PathsOK(Len(sc), op2, p, n)
  <2>1. PathsOK(Len(sc), op, p, n)
    BY DEF Alive
  <2>2. QED
    BY <1>1, <1>3, <1>4, <2>1 DEF PathsOK
<1>7. WritesOK(sc, op2, n)
  <2>1. WritesOK(sc, op, n)
    BY DEF Alive
  <2>2. QED
    BY <1>2, <2>1 DEF WritesOK
<1>8. SavedOK(sc, op2, n, rep)
  <2>1. SUFFICES ASSUME NEW i \in DOMAIN op
                 PROVE  /\ Unreported(Saved(op2[i]), n, rep)
                        /\ Carried(sc, op2, Saved(op2[i]), op2[i].scope, op2[i].path, i)
                        /\ Aside(sc, op2[i])
    BY DEF SavedOK
  <2>2. /\ Unreported(Saved(op[i]), n, rep)
        /\ Carried(sc, op, Saved(op[i]), op[i].scope, op[i].path, i)
        /\ Aside(sc, op[i])
    BY DEF Alive, SavedOK
  <2>3. Carried(sc, op2, Saved(op[i]), op[i].scope, op[i].path, i)
    BY <1>1, <2>2, CarriedAmong
  <2>4. Aside(sc, op2[i])
    BY <1>1, <2>2 DEF Aside
  <2>5. QED
    BY <1>1, <2>2, <2>3, <2>4
<1>9. BlocksOK(sc, op2)
  <2>1. BlocksOK(sc, op)
    BY DEF Alive
  <2>2. QED
    BY <1>1, <2>1 DEF BlocksOK
<1>10. Carried(sc, op2, X, Len(sc), p, Len(op2) + 1)
  <2>1. Carried(sc, op, X, Len(sc), p, Len(op) + 1)
    BY DEF Alive
  <2>2. QED
    BY <1>1, <2>1, CarriedAmong
<1>11. QED
  BY <1>5, <1>6, <1>7, <1>8, <1>9, <1>10 DEF Alive

\* An exception may leave a begin at any place.
LEMMA RaisingSame ==
  ASSUME open \in Seq(Frame), NEW f
  PROVE  /\ DOMAIN Raising(f) = DOMAIN open
         /\ \A i \in DOMAIN open : SameFrame(open[i], Raising(f)[i])
<1>1. DOMAIN Raising(f) = DOMAIN open
  BY DEF Raising
<1>2. ASSUME NEW i \in DOMAIN open
      PROVE  SameFrame(open[i], Raising(f)[i])
  <2>1. open[i] \in Frame
    OBVIOUS
  <2>2. \/ Raising(f)[i] = [open[i] EXCEPT !.end = Join(@, f)]
        \/ Raising(f)[i] = open[i]
    BY DEF Raising
  <2>3. QED
    BY <2>1, <2>2 DEF SameFrame, Frame
<1>3. QED
  BY <1>1, <1>2

\* Where the walk has got to does not matter, but that it is behind everything.
LEMMA AliveOn ==
  ASSUME NEW sc \in Seq(Scope), NEW op \in Seq(Frame), NEW p \in Seq(Context), NEW n \in Nat,
         NEW rep, NEW sn, NEW X, Alive(sc, op, p, n, rep, sn, X),
         \A x \in X \union sn.plain \union sn.captured : x \in Nat
  PROVE  Alive(sc, op, p, n + 1, rep, sn, X)
<1>1. \A S : Unreported(S, n, rep) /\ (\A x \in S : x \in Nat) => Unreported(S, n + 1, rep)
  BY DEF Unreported
<1>2. SeenOK(sc, n + 1, rep, sn)
  BY <1>1 DEF Alive, SeenOK
<1>3. NestOK(Len(sc), op, n + 1)
  BY FrameTypes DEF Alive, NestOK
<1>4. PathsOK(Len(sc), op, p, n + 1)
  <2>1. PathsOK(Len(sc), op, p, n)
    BY DEF Alive
  <2>2. PathOK(op, p, n + 1)
    BY <2>1, ContextsOf DEF PathsOK, PathOK, Context
  <2>3. QED
    BY <2>1, <2>2 DEF PathsOK
<1>5. WritesOK(sc, op, n + 1)
  <2>1. WritesOK(sc, op, n)
    BY DEF Alive
  <2>2. \A s \in 1..Len(sc) : \A j \in DOMAIN sc[s].writes : sc[s].writes[j].at < n + 1
    BY <2>1, WriteTypes DEF WritesOK
  <2>3. QED
    BY <2>1, <2>2 DEF WritesOK
<1>6. SavedOK(sc, op, n + 1, rep)
  BY <1>1, FrameTypes DEF Alive, SavedOK
<1>7. QED
  BY <1>1, <1>2, <1>3, <1>4, <1>5, <1>6 DEF Alive

\* Nor do further marks.
LEMMA AliveMilder ==
  ASSUME NEW sc \in Seq(Scope), NEW sc2 \in Seq(Scope), Milder(sc, sc2),
         NEW op \in Seq(Frame), NEW p \in Seq(Context), NEW n \in Nat,
         NEW rep, NEW sn, NEW X, Alive(sc, op, p, n, rep, sn, X), sc # <<>>
  PROVE  Alive(sc2, op, p, n, rep, sn, X)
<1>1. Len(sc2) = Len(sc) /\ Len(sc) \in Nat /\ Len(sc) \in 1..Len(sc)
  BY DEF Milder
<1>2. \A i \in DOMAIN op : op[i].scope \in 1..Len(sc) /\ After(op[i]) <= Len(sc)
  BY <1>1, NestFacts DEF Alive
<1>3. /\ WritesOK(sc2, op, n) /\ SavedOK(sc2, op, n, rep)
      /\ BlocksOK(sc2, op) /\ SeenOK(sc2, n, rep, sn)
  BY <1>2, MilderKeeps DEF Alive
<1>4. Carried(sc2, op, X, Len(sc2), p, Len(op) + 1)
  BY <1>1, MilderCarried DEF Alive
<1>5. QED
  BY <1>1, <1>3, <1>4 DEF Alive

\* The constructs around the innermost one.
LEMMA FrontOf ==
  ASSUME NEW op \in Seq(Frame), op # <<>>
  PROVE  LET front == SubSeq(op, 1, Len(op) - 1)
         IN  /\ front \in Seq(Frame) /\ Len(front) = Len(op) - 1
             /\ DOMAIN front = 1..Len(op) - 1
             /\ \A i \in 1..Len(op) - 1 : front[i] = op[i]
<1>1. Len(op) \in Nat /\ Len(op) > 0
  OBVIOUS
<1> DEFINE front == SubSeq(op, 1, Len(op) - 1)
<1>2. /\ front \in Seq(Frame) /\ Len(front) = Len(op) - 1
      /\ \A i \in 1..Len(op) - 1 : front[i] = op[i]
  <2> DEFINE m == Len(op) - 1
  <2>1. 1 \in Int /\ m \in Int /\ m \in Nat /\ \A i \in 1..m : op[i] \in Frame
    BY <1>1
  <2> HIDE DEF m
  <2>2. /\ SubSeq(op, 1, m) \in Seq(Frame)
        /\ Len(SubSeq(op, 1, m)) = IF 1 <= m THEN m - 1 + 1 ELSE 0
        /\ \A i \in 1..m - 1 + 1 : SubSeq(op, 1, m)[i] = op[1 + i - 1]
    BY ONLY <2>1, SubSeqProperties
  <2>3. Len(SubSeq(op, 1, m)) = m
    BY ONLY <2>1, <2>2
  <2>4. \A i \in 1..m : i \in 1..m - 1 + 1 /\ 1 + i - 1 = i
    BY <2>1
  <2>5. \A i \in 1..m : SubSeq(op, 1, m)[i] = op[i]
    BY <2>2, <2>4
  <2>6. QED
    BY <2>2, <2>3, <2>5 DEF m
<1> HIDE DEF front
<1>3. DOMAIN front = 1..Len(op) - 1
  BY <1>2
<1>4. QED
  BY <1>2, <1>3 DEF front

\* What the walk holds is carried where it leaves the innermost construct, along with what
\* was put aside there.
LEMMA AtLast ==
  ASSUME NEW sc \in Seq(Scope), NEW op \in Seq(Frame), NEW p \in Seq(Context), NEW n \in Nat,
         NEW rep, NEW sn, NEW X, Alive(sc, op, p, n, rep, sn, X),
         op # <<>>, op[Len(op)].kind \notin Scoping, NEW Y,
         Y \subseteq Saved(op[Len(op)]) \union X
  PROVE  /\ op[Len(op)].scope = Len(sc)
         /\ Len(op) \in DOMAIN op
         /\ Contexts(op[Len(op)].path) \subseteq Contexts(p)
         /\ Carried(sc, op, Y, Len(sc), op[Len(op)].path, Len(op))
         /\ Unreported(Y, n, rep)
<1> DEFINE m == Len(op)
<1>1. m \in DOMAIN op /\ m \in Nat
  OBVIOUS
<1>2. op[m].scope = Len(sc)
  BY DEF Alive, NestOK, After
<1>3. Contexts(op[m].path) \subseteq Contexts(p)
  BY <1>1, <1>2 DEF Alive, PathsOK, Within
<1>4. Carried(sc, op, Saved(op[m]), Len(sc), op[m].path, m) /\ Unreported(Saved(op[m]), n, rep)
  BY <1>1, <1>2 DEF Alive, SavedOK
<1>5. Carried(sc, op, X, Len(sc), op[m].path, m) /\ Unreported(X, n, rep)
  <2>1. Carried(sc, op, X, Len(sc), op[m].path, m + 1)
    BY <1>3, CarriedOut DEF Alive
  <2>2. \A b \in DOMAIN op : b < m => b < m + 1
    BY <1>1
  <2>3. QED
    BY <2>1, <2>2, CarriedAmong DEF Alive
<1>6. Carried(sc, op, Y, Len(sc), op[m].path, m)
  BY <1>4, <1>5, CarriedTogether
<1>7. Unreported(Y, n, rep)
  BY <1>4, <1>5 DEF Unreported
<1>8. QED
  BY <1>1, <1>2, <1>3, <1>6, <1>7

\* The walk leaves a construct that has no scope of its own.
LEMMA LeaveAlive ==
  ASSUME NEW sc \in Seq(Scope), NEW op \in Seq(Frame), NEW p \in Seq(Context), NEW n \in Nat,
         NEW rep, NEW sn, NEW X, Alive(sc, op, p, n, rep, sn, X),
         op # <<>>, op[Len(op)].kind \notin Scoping, NEW Y,
         Y \subseteq Saved(op[Len(op)]) \union X
  PROVE  Alive(sc, SubSeq(op, 1, Len(op) - 1), op[Len(op)].path, n, rep, sn, Y)
<1> DEFINE m == Len(op)
           front == SubSeq(op, 1, m - 1)
<1>1. m \in DOMAIN op /\ m \in Nat /\ m > 0 /\ DOMAIN op = 1..m
  OBVIOUS
<1>2. /\ front \in Seq(Frame) /\ Len(front) = m - 1 /\ DOMAIN front = 1..m - 1
      /\ \A i \in 1..m - 1 : front[i] = op[i]
  BY FrontOf
<1>3. /\ op[m].scope = Len(sc)
      /\ Carried(sc, op, Y, Len(sc), op[m].path, m)
      /\ Unreported(Y, n, rep)
  BY AtLast
<1> HIDE DEF m, front
<1>4. \A i \in DOMAIN front : i \in DOMAIN op /\ front[i] = op[i] /\ i < m
  BY <1>1, <1>2
<1>5. NestOK(Len(sc), front, n)
  <2>1. NestOK(Len(sc), op, n)
    BY DEF Alive
  <2>2. IF front = <<>> THEN Len(sc) <= 1
                        ELSE Len(sc) = After(front[Len(front)]) /\ front[1].scope = 1
    <3>1. op[1].scope = 1
      BY <2>1, <1>1 DEF NestOK
    <3>2. CASE m = 1
      BY <1>2, <1>3, <3>1, <3>2
    <3>3. CASE m # 1
      <4>1. m - 1 \in DOMAIN op /\ 1 \in DOMAIN front /\ m - 1 \in DOMAIN front
        BY <1>1, <1>2, <3>3
      <4>2. op[m].scope = After(op[m - 1])
        BY <1>1, <2>1, <4>1 DEF NestOK
      <4>3. front # <<>>
        BY <4>1
      <4>4. front[Len(front)] = op[m - 1] /\ front[1] = op[1]
        BY <1>2, <1>4, <4>1
      <4>5. QED
        BY <1>3, <3>1, <4>2, <4>3, <4>4
    <3>4. QED
      BY <3>2, <3>3
  <2>3. QED
    BY <1>4, <2>1, <2>2 DEF NestOK
<1>6. \A q, k : PathOK(op, q, k) => PathOK(front, q, k)
  BY <1>4 DEF PathOK
<1>7. \A q, lim, level : Within(op, lim, level, q) => Within(front, lim, level, q)
  BY <1>4 DEF Within
<1>8. PathsOK(Len(sc), front, op[m].path, n)
  <2>1. PathsOK(Len(sc), op, p, n) /\ op[m].at < n
    BY <1>1 DEF Alive, NestOK
  <2>2. PathOK(front, op[m].path, n)
    <3>1. PathOK(front, op[m].path, op[m].at)
      BY <1>1, <1>6, <2>1 DEF PathsOK
    <3>2. op[m].at \in Nat /\ \A c \in Contexts(op[m].path) : c.parent \in Nat
      BY <1>1, FrameTypes DEF Context
    <3>3. QED
      BY <2>1, <3>1, <3>2 DEF PathOK
  <2>3. Within(front, m, Len(sc), op[m].path)
    BY <1>1, <1>3, <1>7, <2>1 DEF PathsOK
  <2>4. \A i \in DOMAIN front : PathOK(front, front[i].path, front[i].at)
                                /\ Within(front, i, front[i].scope, front[i].path)
    BY <1>4, <1>6, <1>7, <2>1 DEF PathsOK
  <2>5. Len(front) + 1 = m
    BY <1>1, <1>2
  <2>6. QED
    BY <2>2, <2>3, <2>4, <2>5 DEF PathsOK
<1>9. WritesOK(sc, front, n)
  BY <1>4 DEF Alive, WritesOK
<1>10. \A Z, level, q, lim : Carried(sc, op, Z, level, q, lim)
                               => Carried(sc, front, Z, level, q, lim)
  BY <1>4, CarriedAmong
<1>11. SavedOK(sc, front, n, rep)
  BY <1>4, <1>10 DEF Alive, SavedOK
<1>12. BlocksOK(sc, front)
  BY <1>4 DEF Alive, BlocksOK
<1>13. Carried(sc, front, Y, Len(sc), op[m].path, Len(front) + 1)
  <2>1. Len(front) + 1 = m
    BY <1>1, <1>2
  <2>2. QED
    BY <1>3, <1>10, <2>1
<1>14. Alive(sc, front, op[m].path, n, rep, sn, Y)
  BY <1>3, <1>5, <1>8, <1>9, <1>11, <1>12, <1>13 DEF Alive
<1>15. QED
  BY <1>14 DEF front, m

\* The walk turns to another part of the construct, on branch c of it or on none.
LEMMA TurnAlive ==
  ASSUME NEW sc \in Seq(Scope), NEW op \in Seq(Frame), NEW p \in Seq(Context), NEW n \in Nat,
         NEW rep, NEW sn, NEW X, Alive(sc, op, p, n, rep, sn, X),
         op # <<>>, NEW last, last = op[Len(op)], last.kind \notin Scoping,
         NEW fr \in Frame,
         fr.at = last.at, fr.scope = last.scope, fr.path = last.path,
         fr.kind \notin {"while", "begin"} \union Scoping, Child(fr) >= Child(last),
         NEW base \in Seq(Context),
         \A d \in Contexts(base) : d.parent # fr.at,
         NEW p2 \in Seq(Context), NEW c,
         IF fr.kind \in Straight THEN Contexts(p2) = Contexts(base)
         ELSE /\ Contexts(p2) = Contexts(base) \union {c}
              /\ c.parent = fr.at /\ c.child = Child(fr) /\ c.scope = Len(sc),
         Saved(fr) \subseteq Saved(last) \union X, Aside(sc, fr),
         NEW Y, Y \subseteq Saved(last) \union X,
         base = last.path \/ (base = p /\ Y \subseteq X),
         fr.kind \notin Straight =>
           \A s \in 1..Len(sc) : \A j \in DOMAIN sc[s].writes :
             \A d \in Contexts(sc[s].writes[j].path) : d.parent = fr.at =>
               d.child < Child(fr) /\ (sc[s].writes[j].at \in Y => d.jumps)
  PROVE  Alive(sc, [op EXCEPT ![Len(op)] = fr], p2, n, rep, sn, Y)
<1> DEFINE m == Len(op)
           op2 == [op EXCEPT ![m] = fr]
<1>1. m \in DOMAIN op /\ m \in Nat /\ m > 0 /\ DOMAIN op = 1..m
  OBVIOUS
<1>2. /\ op2 \in Seq(Frame) /\ DOMAIN op2 = DOMAIN op /\ Len(op2) = m
      /\ op2[m] = fr /\ \A i \in DOMAIN op : i # m => op2[i] = op[i]
  BY <1>1, Replaced
<1> HIDE DEF m, op2
<1>3. /\ last.scope = Len(sc) /\ last = op[m]
      /\ Contexts(last.path) \subseteq Contexts(p)
  BY AtLast DEF m
<1>4. \A i \in DOMAIN op :
        /\ op2[i].at = op[i].at /\ op2[i].scope = op[i].scope /\ op2[i].path = op[i].path
        /\ After(op2[i]) = After(op[i])
        /\ op2[i].kind \in Scoping <=> op[i].kind \in Scoping
  BY <1>2, <1>3 DEF After
<1>5. \A i \in DOMAIN op : \A q :
        Agree(op[i], q) /\ Contexts(q) \subseteq Context => Agree(op2[i], q)
  <2>1. SUFFICES ASSUME NEW q, Agree(last, q), Contexts(q) \subseteq Context
                 PROVE  Agree(fr, q)
    <3>1. ASSUME NEW i \in DOMAIN op, NEW q, Agree(op[i], q), Contexts(q) \subseteq Context,
                 \A r : Agree(last, r) /\ Contexts(r) \subseteq Context => Agree(fr, r)
          PROVE  Agree(op2[i], q)
      <4>1. CASE i = m
        BY <1>2, <1>3, <3>1, <4>1
      <4>2. CASE i # m
        BY <1>2, <3>1, <4>2
      <4>3. QED
        BY <4>1, <4>2
    <3>2. QED
      BY <3>1
  <2>2. Child(fr) \in Nat /\ Child(last) \in Nat
    <3>1. Child(op2[m]) \in Nat /\ Child(op[m]) \in Nat
      BY <1>1, <1>2, FrameTypes
    <3>2. QED
      BY <1>2, <1>3, <3>1
  <2>3. QED
    BY <2>1, <2>2 DEF Agree, Context
<1>6. \A q, k : PathOK(op, q, k) /\ Contexts(q) \subseteq Context => PathOK(op2, q, k)
  BY <1>2, <1>5 DEF PathOK
<1>7. \A q, lim, level : Within(op, lim, level, q) /\ lim <= m /\ lim \in Nat
                           => Within(op2, lim, level, q)
  <2>1. SUFFICES ASSUME NEW q, NEW lim \in Nat, NEW level, Within(op, lim, level, q), lim <= m
                 PROVE  Within(op2, lim, level, q)
    OBVIOUS
  <2>2. \A i \in DOMAIN op2 : i < lim => i \in DOMAIN op /\ op2[i] = op[i]
    BY <1>1, <1>2, <2>1
  <2>3. QED
    BY ONLY <2>1, <2>2 DEF Within
<1>8. NestOK(Len(sc), op2, n)
  <2>1. NestOK(Len(sc), op, n)
    BY DEF Alive
  <2>2. op2 # <<>> /\ op # <<>> /\ 1 \in DOMAIN op
    BY <1>1, <1>2
  <2>3. Len(sc) = After(op2[Len(op2)]) /\ op2[1].scope = 1
    <3>1. Len(sc) = After(op[m]) /\ op[1].scope = 1
      BY <2>1, <2>2 DEF NestOK, m
    <3>2. QED
      BY ONLY <1>1, <1>2, <1>4, <2>2, <3>1
  <2>4. ASSUME NEW i \in DOMAIN op2
        PROVE  /\ op2[i].at < n /\ op2[i].scope >= 1
               /\ i + 1 \in DOMAIN op2 => op2[i + 1].scope = After(op2[i])
               /\ \A k \in DOMAIN op2 : i < k => op2[i].at < op2[k].at /\ After(op2[i]) <= op2[k].scope
    <3>1. /\ op[i].at < n /\ op[i].scope >= 1
          /\ i + 1 \in DOMAIN op => op[i + 1].scope = After(op[i])
          /\ \A k \in DOMAIN op : i < k => op[i].at < op[k].at /\ After(op[i]) <= op[k].scope
      BY ONLY <1>2, <2>1, i \in DOMAIN op2 DEF NestOK
    <3>2. i \in DOMAIN op /\ DOMAIN op2 = DOMAIN op
      BY <1>2
    <3>3. QED
      BY ONLY <1>4, <3>1, <3>2
  <2>5. QED
    BY ONLY <2>2, <2>3, <2>4 DEF NestOK
<1>9. PathOK(op, base, n) /\ Within(op, m, Len(sc), base)
      /\ Contexts(last.path) \subseteq Contexts(base)
  <2>1. PathsOK(Len(sc), op, p, n) /\ op[m].at < n
    BY <1>1 DEF Alive, NestOK
  <2>2. CASE base = p
    <3>1. PathOK(op, p, n) /\ Within(op, m + 1, Len(sc), p)
      BY <2>1 DEF PathsOK, m
    <3>2. \A i \in DOMAIN op : i < m => i < m + 1
      BY <1>1
    <3>3. Within(op, m, Len(sc), p)
      BY <3>1, <3>2 DEF Within
    <3>4. QED
      BY <1>3, <2>2, <3>1, <3>3
  <2>3. CASE base = last.path
    <3>1. PathOK(op, base, op[m].at) /\ Within(op, m, Len(sc), base)
      BY <1>1, <1>3, <2>1, <2>3 DEF PathsOK
    <3>2. op[m].at \in Nat /\ \A d \in Contexts(base) : d.parent \in Nat
      BY <1>1, FrameTypes, ContextsOf DEF Context
    <3>3. PathOK(op, base, n)
      BY <2>1, <3>1, <3>2 DEF PathOK
    <3>4. QED
      BY <2>3, <3>1, <3>3
  <2>4. QED
    BY <2>2, <2>3
<1>10. PathOK(op2, p2, n)
  <2>1. PathOK(op2, base, n)
    BY <1>6, <1>9, ContextsOf
  <2>2. CASE fr.kind \in Straight
    BY <2>1, <2>2 DEF PathOK, Agree
  <2>3. CASE fr.kind \notin Straight
    <3>1. /\ Contexts(p2) = Contexts(base) \union {c}
          /\ c.parent = fr.at /\ c.child = Child(fr)
      BY <2>3
    <3>2. c.parent < n
      BY <1>1, <1>3, <3>1 DEF Alive, NestOK
    <3>3. \A i \in DOMAIN op2 : i # m => op2[i].at # c.parent
      <4>1. \A i \in DOMAIN op : i < m => op[i].at < op[m].at
        BY <1>1 DEF Alive, NestOK
      <4>2. \A i \in DOMAIN op : op[i].at \in Nat
        BY FrameTypes
      <4>3. c.parent = op[m].at
        BY <1>3, <3>1
      <4>4. \A i \in DOMAIN op2 : i # m => i < m /\ i \in DOMAIN op /\ op2[i] = op[i]
        BY <1>1, <1>2
      <4>5. QED
        BY <1>1, <4>1, <4>2, <4>3, <4>4
    <3>4. \A i \in DOMAIN op2 : Agree(op2[i], p2)
      <4>1. SUFFICES ASSUME NEW i \in DOMAIN op2, NEW d \in Contexts(p2),
                            d.parent = op2[i].at
                     PROVE  /\ op2[i].kind # "while"
                            /\ d.child <= Child(op2[i])
                            /\ op2[i].kind = "begin" => d.jumps
        BY DEF Agree
      <4>2. CASE d \in Contexts(base)
        BY <2>1, <4>1, <4>2 DEF PathOK, Agree
      <4>3. CASE d = c
        <5>1. op2[i] = fr
          BY <1>2, <3>3, <4>1, <4>3
        <5>2. Child(fr) \in Nat
          BY <1>1, <1>2, FrameTypes
        <5>3. QED
          BY <3>1, <4>3, <5>1, <5>2
      <4>4. QED
        BY <3>1, <4>2, <4>3
    <3>5. QED
      BY <2>1, <3>1, <3>2, <3>4 DEF PathOK
  <2>4. QED
    BY <2>2, <2>3
<1>11. PathsOK(Len(sc), op2, p2, n)
  <2>1. PathsOK(Len(sc), op, p, n)
    BY DEF Alive
  <2>2. ASSUME NEW i \in DOMAIN op2
        PROVE  PathOK(op2, op2[i].path, op2[i].at) /\ Within(op2, i, op2[i].scope, op2[i].path)
    <3>1. i \in DOMAIN op /\ i <= m /\ i \in Nat
      BY <1>1, <1>2
    <3>2. PathOK(op, op[i].path, op[i].at) /\ Within(op, i, op[i].scope, op[i].path)
      BY <2>1, <3>1 DEF PathsOK
    <3>3. Contexts(op[i].path) \subseteq Context
      BY <3>1, FrameTypes
    <3>4. QED
      BY <1>4, <1>6, <1>7, <3>1, <3>2, <3>3
  <2>3. Within(op2, m + 1, Len(sc), p2)
    <3>1. SUFFICES ASSUME NEW i \in DOMAIN op2, op2[i].scope = Len(sc)
                   PROVE  /\ Contexts(op2[i].path) \subseteq Contexts(p2)
                          /\ op2[i].kind \notin Straight \union Scoping =>
                               \E d \in Contexts(p2) : /\ d.parent = op2[i].at
                                                       /\ d.child = Child(op2[i])
                                                       /\ d.scope = Len(sc)
      BY DEF Within
    <3>2. Contexts(base) \subseteq Contexts(p2)
      OBVIOUS
    <3>3. CASE i = m
      BY <1>2, <1>9, <3>2, <3>3
    <3>4. CASE i # m
      <4>1. i \in DOMAIN op /\ i < m /\ op2[i] = op[i]
        BY <1>1, <1>2, <3>4
      <4>2. QED
        BY ONLY <1>9, <3>1, <3>2, <4>1 DEF Within
    <3>5. QED
      BY <3>3, <3>4
  <2>4. QED
    BY <1>2, <1>10, <2>2, <2>3 DEF PathsOK
<1>12. WritesOK(sc, op2, n)
  <2>1. WritesOK(sc, op, n)
    BY DEF Alive
  <2>2. \A s \in 1..Len(sc) : \A j \in DOMAIN sc[s].writes : \A i \in DOMAIN op2 :
          Agree(op2[i], sc[s].writes[j].path)
    BY <1>2, <1>5, <2>1, WriteTypes DEF WritesOK
  <2>3. QED
    BY <2>1, <2>2 DEF WritesOK
<1>13. \A Z, level, q, lim : Carried(sc, op, Z, level, q, lim)
                               => Carried(sc, op2, Z, level, q, lim)
  <2>1. SUFFICES ASSUME NEW Z, NEW level, NEW q, NEW lim, Carried(sc, op, Z, level, q, lim)
                 PROVE  Carried(sc, op2, Z, level, q, lim)
    OBVIOUS
  <2>2. \A b \in DOMAIN op2 : b < lim /\ op2[b].kind \in Scoping =>
          /\ b \in DOMAIN op /\ b < lim /\ op[b].kind \in Scoping
          /\ op[b].scope = op2[b].scope /\ op[b].path = op2[b].path
    BY <1>2, <1>4
  <2>3. QED
    BY <2>1, <2>2, CarriedAmong
<1>14. SavedOK(sc, op2, n, rep)
  <2>1. SUFFICES ASSUME NEW i \in DOMAIN op2
                 PROVE  /\ Unreported(Saved(op2[i]), n, rep)
                        /\ Carried(sc, op2, Saved(op2[i]), op2[i].scope, op2[i].path, i)
                        /\ Aside(sc, op2[i])
    BY DEF SavedOK
  <2>2. CASE i # m
    <3>1. i \in DOMAIN op /\ op2[i] = op[i]
      BY <1>2, <2>2
    <3>2. QED
      BY <1>13, <3>1 DEF Alive, SavedOK
  <2>3. CASE i = m
    <3>1. Carried(sc, op, Saved(fr), Len(sc), last.path, m) /\ Unreported(Saved(fr), n, rep)
      BY AtLast DEF m
    <3>2. QED
      BY <1>2, <1>3, <1>13, <2>3, <3>1
  <2>4. QED
    BY <2>2, <2>3
<1>15. BlocksOK(sc, op2)
  <2>1. \A i \in DOMAIN op2 : op2[i].kind = "block" => op2[i] = op[i]
    BY <1>2 DEF Scoping
  <2>2. QED
    BY <1>2, <2>1 DEF Alive, BlocksOK
<1>16. Unreported(Y, n, rep)
  BY AtLast
<1>17. Carried(sc, op, Y, Len(sc), base, m)
  <2>1. CASE base = last.path
    BY <2>1, AtLast DEF m
  <2>2. CASE base = p /\ Y \subseteq X
    <3>1. Carried(sc, op, X, Len(sc), p, m + 1)
      BY DEF Alive, m
    <3>2. Carried(sc, op, Y, Len(sc), p, m + 1)
      BY <2>2, <3>1, CarriedTogether
    <3>3. \A b \in DOMAIN op : b < m => b < m + 1
      BY <1>1
    <3>4. QED
      BY <2>2, <3>2, <3>3, CarriedAmong
  <2>3. QED
    BY <2>1, <2>2
<1>18. Carried(sc, op, Y, Len(sc), p2, m)
  <2>1. CASE fr.kind \in Straight
    BY <1>17, <2>1, CarriedOut
  <2>2. CASE fr.kind \notin Straight
    <3>1. /\ Contexts(p2) \subseteq Contexts(base) \union {c}
          /\ c.parent = fr.at /\ c.child = Child(fr) /\ Child(fr) \in Nat
      BY <1>1, <1>2, <2>2, FrameTypes
    <3>2. \A s \in 1..Len(sc) : \A j \in DOMAIN sc[s].writes :
            /\ c \notin Contexts(sc[s].writes[j].path)
            /\ sc[s].writes[j].at \in Y =>
                 \A d \in Contexts(sc[s].writes[j].path) :
                   d.parent = c.parent => d.child = c.child \/ d.jumps
      <4>1. SUFFICES ASSUME NEW s \in 1..Len(sc), NEW j \in DOMAIN sc[s].writes
                     PROVE  /\ c \notin Contexts(sc[s].writes[j].path)
                            /\ sc[s].writes[j].at \in Y =>
                                 \A d \in Contexts(sc[s].writes[j].path) :
                                   d.parent = c.parent => d.child = c.child \/ d.jumps
        OBVIOUS
      <4>2. \A d \in Contexts(sc[s].writes[j].path) : d.parent = fr.at =>
              d.child < Child(fr) /\ (sc[s].writes[j].at \in Y => d.jumps)
        BY <2>2
      <4>3. ~(c.child < Child(fr))
        BY <3>1
      <4>4. QED
        BY <3>1, <4>2, <4>3
    <3>3. QED
      BY <1>17, <3>1, <3>2, CarriedIn
  <2>3. QED
    BY <2>1, <2>2
<1>19. Carried(sc, op2, Y, Len(sc), p2, Len(op2) + 1)
  <2>1. \A b \in DOMAIN op2 : b < m + 1 /\ op2[b].kind \in Scoping =>
          /\ b \in DOMAIN op /\ b < m /\ op[b].kind \in Scoping
          /\ op[b].scope = op2[b].scope /\ op[b].path = op2[b].path
    <3>1. \A b \in DOMAIN op2 : op2[b].kind \in Scoping => b # m
      BY <1>2
    <3>2. \A b \in DOMAIN op2 : b \in DOMAIN op /\ (b # m => b < m)
      BY <1>1, <1>2
    <3>3. QED
      BY <1>4, <3>1, <3>2
  <2>2. Carried(sc, op2, Y, Len(sc), p2, m + 1)
    BY <1>18, <2>1, CarriedAmong
  <2>3. QED
    BY <1>2, <2>2
<1>20. Alive(sc, op2, p2, n, rep, sn, Y)
  BY <1>8, <1>11, <1>12, <1>14, <1>15, <1>16, <1>19 DEF Alive
<1>21. QED
  BY <1>20 DEF op2, m

\* The constructs with another innermost one.
LEMMA AppendOf ==
  ASSUME NEW op \in Seq(Frame), NEW fr \in Frame
  PROVE  LET more == Append(op, fr)
         IN  /\ more \in Seq(Frame) /\ Len(more) = Len(op) + 1 /\ more # <<>>
             /\ DOMAIN more = 1..Len(op) + 1 /\ DOMAIN op = 1..Len(op) /\ Len(op) \in Nat
             /\ more[Len(op) + 1] = fr
             /\ \A i \in DOMAIN op : i # Len(op) + 1 /\ i < Len(op) + 1 /\ more[i] = op[i]
<1> DEFINE more == Append(op, fr)
<1>1. /\ more \in Seq(Frame) /\ Len(more) = Len(op) + 1 /\ Len(op) \in Nat
      /\ more[Len(op) + 1] = fr
      /\ \A i \in 1..Len(op) : more[i] = op[i]
  BY AppendProperties
<1>2. DOMAIN more = 1..Len(op) + 1 /\ DOMAIN op = 1..Len(op)
  BY <1>1
<1> HIDE DEF more
<1>3. more # <<>>
  BY <1>1
<1>4. \A i \in DOMAIN op : i # Len(op) + 1 /\ i < Len(op) + 1 /\ more[i] = op[i]
  BY <1>1, <1>2
<1>5. QED
  BY <1>1, <1>2, <1>3, <1>4 DEF more

\* From path p the walk enters a construct at offset a, in a scope of its own or not: it goes
\* on on path p2, with branch c of the construct or with none.
Entering(top, p, a, fr, p2, c) ==
  /\ \A d \in Contexts(p) : d.parent < a
  /\ fr.at = a /\ fr.scope = top /\ fr.path = p
  /\ c.parent = a /\ c.child = Child(fr) /\ c.scope = top
  /\ fr.kind = "begin" => c.jumps
  /\ \A d \in Contexts(p2) : d \in Contexts(p) \/ (d = c /\ fr.kind \notin Straight)
  /\ fr.kind \notin Scoping => Contexts(p) \subseteq Contexts(p2)
  /\ fr.kind \notin Straight \union Scoping => c \in Contexts(p2)

\* The constructs nest, and the branches are those they open.
LEMMA PushPaths ==
  ASSUME NEW top \in Nat, top > 0, NEW op \in Seq(Frame), NEW p \in Seq(Context),
         NEW a \in Nat, NestOK(top, op, a + 1), PathsOK(top, op, p, a + 1),
         \A i \in DOMAIN op : op[i].at < a,
         NEW fr \in Frame, NEW p2 \in Seq(Context), NEW c \in Context,
         Entering(top, p, a, fr, p2, c)
  PROVE  /\ NestOK(After(fr), Append(op, fr), a + 1)
         /\ PathsOK(After(fr), Append(op, fr), p2, a + 1)
<1> DEFINE m == Len(op)
           op2 == Append(op, fr)
<1> USE DEF Entering
<1>1. /\ op2 \in Seq(Frame) /\ Len(op2) = m + 1 /\ op2 # <<>>
      /\ DOMAIN op2 = 1..m + 1 /\ DOMAIN op = 1..m /\ m \in Nat
      /\ op2[m + 1] = fr
      /\ \A i \in DOMAIN op : i # m + 1 /\ i < m + 1 /\ op2[i] = op[i]
  BY AppendOf
<1> HIDE DEF op2
<1>2. \A i \in DOMAIN op2 : i \in DOMAIN op \/ i = m + 1
  BY <1>1
<1>3. \A i \in DOMAIN op : /\ op[i].at \in Nat /\ op[i].at < a
                           /\ op[i].scope \in Nat /\ After(op[i]) \in Nat
                           /\ Contexts(op[i].path) \subseteq Context
                           /\ op[i].scope \in 1..top /\ After(op[i]) <= top
  BY FrameTypes, NestFacts
<1>4. \A d \in Contexts(p) : d.parent \in Nat
  BY ContextsOf DEF Context
<1>5. NestOK(After(fr), op2, a + 1)
  <2>1. op2[1].scope = 1
    <3>1. CASE m = 0
      <4>1. op = <<>>
        BY <3>1
      <4>2. top = 1
        BY <4>1 DEF NestOK
      <4>3. QED
        BY <1>1, <3>1, <4>2
    <3>2. CASE m # 0
      <4>1. op # <<>> /\ 1 \in DOMAIN op
        BY <1>1, <3>2
      <4>2. QED
        BY <1>1, <4>1 DEF NestOK
    <3>3. QED
      BY <3>1, <3>2
  <2>2. op2[Len(op2)] = fr
    BY <1>1
  <2>3. ASSUME NEW i \in DOMAIN op2
        PROVE  op2[i].at < a + 1 /\ op2[i].scope >= 1
    BY <1>1, <1>2, <1>3
  <2>4. ASSUME NEW i \in DOMAIN op2, i + 1 \in DOMAIN op2
        PROVE  op2[i + 1].scope = After(op2[i])
    <3>1. i \in DOMAIN op /\ op2[i] = op[i]
      BY <1>1, <2>4
    <3>2. CASE i = m
      <4>1. top = After(op[m])
        BY <3>1, <3>2 DEF NestOK
      <4>2. QED
        BY <1>1, <3>1, <3>2, <4>1
    <3>3. CASE i # m
      <4>1. i + 1 \in DOMAIN op /\ op2[i + 1] = op[i + 1]
        BY <1>1, <3>1, <3>3
      <4>2. QED
        BY <3>1, <4>1 DEF NestOK
    <3>4. QED
      BY <3>2, <3>3
  <2>5. ASSUME NEW i \in DOMAIN op2, NEW k \in DOMAIN op2, i < k
        PROVE  op2[i].at < op2[k].at /\ After(op2[i]) <= op2[k].scope
    <3>1. i \in DOMAIN op /\ op2[i] = op[i]
      BY <1>1, <2>5
    <3>2. CASE k = m + 1
      BY <1>1, <1>3, <3>1, <3>2
    <3>3. CASE k # m + 1
      <4>1. k \in DOMAIN op /\ op2[k] = op[k]
        BY <1>1, <1>2, <3>3
      <4>2. QED
        BY <2>5, <3>1, <4>1 DEF NestOK
    <3>4. QED
      BY <3>2, <3>3
  <2>6. QED
    BY <1>1, <2>1, <2>2, <2>3, <2>4, <2>5 DEF NestOK
<1>6. ASSUME NEW q, NEW k \in Nat, PathOK(op, q, k), k <= a, Contexts(q) \subseteq Context
      PROVE  PathOK(op2, q, k)
  <2>1. \A d \in Contexts(q) : d.parent # a
    BY <1>6 DEF PathOK, Context
  <2>2. Agree(fr, q)
    BY <2>1 DEF Agree
  <2>3. QED
    BY <1>1, <1>2, <1>6, <2>2 DEF PathOK
<1>7. ASSUME NEW q, NEW lim \in Nat, NEW level, Within(op, lim, level, q), lim <= m + 1
      PROVE  Within(op2, lim, level, q)
  <2>1. \A i \in DOMAIN op2 : i < lim => i \in DOMAIN op /\ op2[i] = op[i]
    BY <1>1, <1>2, <1>7
  <2>2. QED
    BY <1>7, <2>1 DEF Within
<1>8. PathOK(op, p, a)
  BY DEF PathsOK, PathOK
<1>9. PathOK(op2, p2, a + 1)
  <2>1. \A d \in Contexts(p2) : d.parent < a + 1
    BY <1>4
  <2>2. \A d, e \in Contexts(p2) : d.parent = e.parent => d = e
    <3>1. \A d \in Contexts(p) : d.parent # a
      BY <1>4
    <3>2. QED
      BY <1>8, <3>1 DEF PathOK
  <2>3. ASSUME NEW i \in DOMAIN op2, NEW d \in Contexts(p2), d.parent = op2[i].at
        PROVE  /\ op2[i].kind # "while"
               /\ d.child <= Child(op2[i])
               /\ op2[i].kind = "begin" => d.jumps
    <3>1. CASE i = m + 1
      <4>1. op2[i] = fr /\ d.parent = a
        BY <1>1, <2>3, <3>1
      <4>2. d = c /\ fr.kind \notin Straight
        BY <1>4, <4>1
      <4>3. c.child \in Nat
        BY DEF Context
      <4>4. QED
        BY <4>1, <4>2, <4>3 DEF Straight
    <3>2. CASE i # m + 1
      <4>1. i \in DOMAIN op /\ op2[i] = op[i]
        BY <1>1, <1>2, <3>2
      <4>2. d \in Contexts(p)
        BY <1>3, <2>3, <4>1
      <4>3. QED
        BY <1>8, <2>3, <4>1, <4>2 DEF PathOK, Agree
    <3>3. QED
      BY <3>1, <3>2
  <2>4. QED
    BY <2>1, <2>2, <2>3 DEF PathOK, Agree
<1>10. ASSUME NEW i \in DOMAIN op2
       PROVE  PathOK(op2, op2[i].path, op2[i].at) /\ Within(op2, i, op2[i].scope, op2[i].path)
  <2>1. CASE i = m + 1
    <3>1. Within(op, m + 1, top, p)
      BY DEF PathsOK
    <3>2. PathOK(op2, p, a) /\ Within(op2, m + 1, top, p)
      BY <1>1, <1>6, <1>7, <1>8, <3>1, ContextsOf
    <3>3. QED
      BY <1>1, <2>1, <3>2
  <2>2. CASE i # m + 1
    <3>1. i \in DOMAIN op /\ op2[i] = op[i] /\ i \in Nat /\ i <= m + 1
      BY <1>1, <1>2, <2>2
    <3>2. PathOK(op, op[i].path, op[i].at) /\ Within(op, i, op[i].scope, op[i].path)
      BY <3>1 DEF PathsOK
    <3>3. PathOK(op2, op[i].path, op[i].at)
      BY <1>3, <1>6, <3>1, <3>2
    <3>4. Within(op2, i, op[i].scope, op[i].path)
      BY <1>7, <3>1, <3>2
    <3>5. QED
      BY <3>1, <3>3, <3>4
  <2>3. QED
    BY <2>1, <2>2
<1>11. Within(op2, m + 2, After(fr), p2)
  <2>1. SUFFICES ASSUME NEW i \in DOMAIN op2, op2[i].scope = After(fr)
                 PROVE  /\ Contexts(op2[i].path) \subseteq Contexts(p2)
                        /\ op2[i].kind \notin Straight \union Scoping =>
                             \E d \in Contexts(p2) : /\ d.parent = op2[i].at
                                                     /\ d.child = Child(op2[i])
                                                     /\ d.scope = After(fr)
    BY DEF Within
  <2>2. fr.kind \notin Scoping /\ After(fr) = top
    <3>1. op2[i].scope <= top /\ op2[i].scope \in Nat
      BY <1>1, <1>2, <1>3
    <3>2. QED
      BY <2>1, <3>1 DEF After
  <2>3. CASE i = m + 1
    BY <1>1, <2>2, <2>3
  <2>4. CASE i # m + 1
    <3>1. i \in DOMAIN op /\ op2[i] = op[i] /\ i < m + 1
      BY <1>1, <1>2, <2>4
    <3>2. Within(op, m + 1, top, p)
      BY DEF PathsOK
    <3>3. QED
      BY <2>1, <2>2, <3>1, <3>2 DEF Within
  <2>5. QED
    BY <2>3, <2>4
<1>12. PathsOK(After(fr), op2, p2, a + 1)
  <2>1. Len(op2) + 1 = m + 2
    BY <1>1
  <2>2. QED
    BY <1>9, <1>10, <1>11, <2>1 DEF PathsOK
<1>13. QED
  BY <1>5, <1>12 DEF op2

\* The walk enters a construct that has no scope of its own.
LEMMA EnterAlive ==
  ASSUME NEW sc \in Seq(Scope), sc # <<>>, NEW op \in Seq(Frame), NEW p \in Seq(Context),
         NEW a \in Nat, NEW rep, NEW sn, NEW X, Alive(sc, op, p, a + 1, rep, sn, X),
         \A i \in DOMAIN op : op[i].at < a,
         \A s \in 1..Len(sc) : \A j \in DOMAIN sc[s].writes :
           \A d \in Contexts(sc[s].writes[j].path) : d.parent < a,
         NEW fr \in Frame, fr.kind \notin Scoping, Saved(fr) \subseteq X,
         NEW p2 \in Seq(Context), NEW c \in Context, Entering(Len(sc), p, a, fr, p2, c),
         NEW Y, Y \subseteq X \union {a}, a \notin rep,
         a \in X \/ \A s \in 1..Len(sc) : \A j \in DOMAIN sc[s].writes : sc[s].writes[j].at # a
  PROVE  Alive(sc, Append(op, fr), p2, a + 1, rep, sn, Y)
<1> DEFINE m == Len(op)
           op2 == Append(op, fr)
<1>1. /\ op2 \in Seq(Frame) /\ Len(op2) = m + 1 /\ op2 # <<>>
      /\ DOMAIN op2 = 1..m + 1 /\ DOMAIN op = 1..m /\ m \in Nat
      /\ op2[m + 1] = fr
      /\ \A i \in DOMAIN op : i # m + 1 /\ i < m + 1 /\ op2[i] = op[i]
  BY AppendOf
<1>2. Len(sc) \in Nat /\ Len(sc) > 0 /\ After(fr) = Len(sc)
  BY DEF After, Entering
<1>3. NestOK(Len(sc), op2, a + 1) /\ PathsOK(Len(sc), op2, p2, a + 1)
  <2>1. NestOK(Len(sc), op, a + 1) /\ PathsOK(Len(sc), op, p, a + 1)
    BY DEF Alive
  <2>2. QED
    BY <1>2, <2>1, PushPaths
<1> HIDE DEF op2, m
<1> USE DEF Entering
<1>4. \A i \in DOMAIN op2 : i \in DOMAIN op \/ i = m + 1
  BY <1>1
<1>5. \A s \in 1..Len(sc) : \A j \in DOMAIN sc[s].writes :
        \A d \in Contexts(sc[s].writes[j].path) : d.parent # a
  BY WriteTypes DEF Context
<1>6. WritesOK(sc, op2, a + 1)
  <2>1. WritesOK(sc, op, a + 1)
    BY DEF Alive
  <2>2. \A s \in 1..Len(sc) : \A j \in DOMAIN sc[s].writes :
          Agree(fr, sc[s].writes[j].path)
    BY <1>5 DEF Agree
  <2>3. QED
    BY <1>1, <1>4, <2>1, <2>2 DEF WritesOK
<1>7. ASSUME NEW Z, NEW level, NEW q, NEW lim, NEW lim2,
             Carried(sc, op, Z, level, q, lim),
             \A b \in DOMAIN op : b < lim2 => b < lim
      PROVE  Carried(sc, op2, Z, level, q, lim2)
  <2>1. \A b \in DOMAIN op2 : b < lim2 /\ op2[b].kind \in Scoping =>
          /\ b \in DOMAIN op /\ b < lim /\ op[b].kind \in Scoping
          /\ op[b].scope = op2[b].scope /\ op[b].path = op2[b].path
    BY <1>1, <1>4, <1>7
  <2>2. QED
    BY <1>7, <2>1, CarriedAmong
<1>8. Carried(sc, op, X, Len(sc), p, m + 1) /\ Unreported(X, a + 1, rep)
  BY DEF Alive, m
<1>9. SavedOK(sc, op2, a + 1, rep)
  <2>1. SUFFICES ASSUME NEW i \in DOMAIN op2
                 PROVE  /\ Unreported(Saved(op2[i]), a + 1, rep)
                        /\ Carried(sc, op2, Saved(op2[i]), op2[i].scope, op2[i].path, i)
                        /\ Aside(sc, op2[i])
    BY DEF SavedOK
  <2>2. CASE i = m + 1
    <3>1. Aside(sc, fr)
      BY <1>5 DEF Aside
    <3>2. Carried(sc, op, Saved(fr), Len(sc), p, m + 1)
      BY <1>8, CarriedTogether
    <3>3. Carried(sc, op2, Saved(fr), Len(sc), p, m + 1)
      BY <1>7, <3>2
    <3>4. Unreported(Saved(fr), a + 1, rep)
      BY <1>8 DEF Unreported
    <3>5. QED
      BY <1>1, <2>2, <3>1, <3>3, <3>4
  <2>3. CASE i # m + 1
    <3>1. i \in DOMAIN op /\ op2[i] = op[i]
      BY <1>1, <1>4, <2>3
    <3>2. /\ Unreported(Saved(op[i]), a + 1, rep)
          /\ Carried(sc, op, Saved(op[i]), op[i].scope, op[i].path, i)
          /\ Aside(sc, op[i])
      BY <3>1 DEF Alive, SavedOK
    <3>3. Carried(sc, op2, Saved(op[i]), op[i].scope, op[i].path, i)
      BY <1>7, <3>2
    <3>4. QED
      BY <3>1, <3>2, <3>3
  <2>4. QED
    BY <2>2, <2>3
<1>10. BlocksOK(sc, op2)
  <2>1. \A i \in DOMAIN op2 : op2[i].kind = "block" => i \in DOMAIN op /\ op2[i] = op[i]
    BY <1>1, <1>4 DEF Scoping
  <2>2. QED
    BY <2>1 DEF Alive, BlocksOK
<1>11. Unreported(Y, a + 1, rep)
  BY <1>8 DEF Unreported
<1>12. Carried(sc, op2, Y, Len(sc), p2, m + 2)
  <2>1. Carried(sc, op, Y, Len(sc), p, m + 1)
    BY <1>8 DEF Carried
  <2>2. Carried(sc, op, Y, Len(sc), p2, m + 1)
    <3>1. Contexts(p2) \subseteq Contexts(p) \union {c}
      OBVIOUS
    <3>2. \A s \in 1..Len(sc) : \A j \in DOMAIN sc[s].writes :
           /\ c \notin Contexts(sc[s].writes[j].path)
           /\ sc[s].writes[j].at \in Y =>
                \A d \in Contexts(sc[s].writes[j].path) :
                  d.parent = c.parent => d.child = c.child \/ d.jumps
      BY <1>5
    <3>3. QED
      BY <2>1, <3>1, <3>2, CarriedIn
  <2>3. \A b \in DOMAIN op : b < m + 1
    BY <1>1
  <2>4. QED
    BY <1>7, <2>2, <2>3
<1>13. QED
  <2>1. Len(op2) + 1 = m + 2
    BY <1>1
  <2>2. SeenOK(sc, a + 1, rep, sn)
    BY DEF Alive
  <2>3. Alive(sc, op2, p2, a + 1, rep, sn, Y)
    BY <1>3, <1>6, <1>9, <1>10, <1>11, <1>12, <2>1, <2>2 DEF Alive
  <2>4. QED
    BY <2>3 DEF op2

\* The walk enters a construct with a scope of its own.
LEMMA ScopeAlive ==
  ASSUME NEW sc \in Seq(Scope), sc # <<>>, NEW op \in Seq(Frame), NEW p \in Seq(Context),
         NEW a \in Nat, NEW rep, NEW sn, NEW X, Alive(sc, op, p, a + 1, rep, sn, X),
         \A i \in DOMAIN op : op[i].at < a,
         \A s \in 1..Len(sc) : \A j \in DOMAIN sc[s].writes :
           /\ sc[s].writes[j].at # a
           /\ \A d \in Contexts(sc[s].writes[j].path) : d.parent < a,
         NEW fr \in Frame, fr.kind \in Scoping, Saved(fr) \subseteq X,
         NEW p2 \in Seq(Context), NEW c \in Context, Entering(Len(sc), p, a, fr, p2, c),
         NEW new \in Scope, new.writes = <<>>, ~new.declared,
         fr.kind = "block" =>
           ~new.hard /\ \E s \in 1..Len(sc) : sc[s].declared /\ Reach(sc, s, Len(sc)),
         NEW Y, Y \subseteq (IF fr.kind = "block" THEN X \union {a} ELSE {}), a \notin rep
  PROVE  Alive(Append(sc, new), Append(op, fr), p2, a + 1, rep, sn, Y)
<1> DEFINE m == Len(op)
           op2 == Append(op, fr)
           top == Len(sc)
           sc2 == Append(sc, new)
<1>1. /\ op2 \in Seq(Frame) /\ Len(op2) = m + 1 /\ op2 # <<>>
      /\ DOMAIN op2 = 1..m + 1 /\ DOMAIN op = 1..m /\ m \in Nat
      /\ op2[m + 1] = fr
      /\ \A i \in DOMAIN op : i # m + 1 /\ i < m + 1 /\ op2[i] = op[i]
  BY AppendOf
<1>2. top \in Nat /\ top > 0 /\ After(fr) = top + 1
  BY DEF After, Entering
<1>3. NestOK(top + 1, op2, a + 1) /\ PathsOK(top + 1, op2, p2, a + 1)
  <2>1. NestOK(top, op, a + 1) /\ PathsOK(top, op, p, a + 1)
    BY DEF Alive
  <2>2. QED
    BY <1>2, <2>1, PushPaths
<1>4. /\ sc2 \in Seq(Scope) /\ Len(sc2) = top + 1
      /\ sc2[top + 1] = new
      /\ \A s \in 1..top : sc2[s] = sc[s]
  BY AppendProperties
<1> HIDE DEF op2, m, sc2, top
<1> USE DEF Entering
<1>5. \A i \in DOMAIN op2 : i \in DOMAIN op \/ i = m + 1
  BY <1>1
<1>6. \A s \in 1..Len(sc2) : \A j \in DOMAIN sc2[s].writes :
        s \in 1..top /\ sc2[s] = sc[s]
  <2>1. SUFFICES ASSUME NEW s \in 1..Len(sc2), NEW j \in DOMAIN sc2[s].writes, s \notin 1..top
                 PROVE  FALSE
    BY <1>4
  <2>2. sc2[s].writes = <<>>
    BY <1>2, <1>4, <2>1
  <2>3. QED
    BY <2>2
<1>7. \A s \in 1..top : \A j \in DOMAIN sc[s].writes :
        \A d \in Contexts(sc[s].writes[j].path) : d.parent # a
  BY WriteTypes DEF Context, top
<1>8. \A s, level \in 1..top : Reach(sc, s, level) => Reach(sc2, s, level)
  BY <1>2, <1>4 DEF Reach
<1>9. \A s \in 1..top : Reach(sc, s, top) /\ ~new.hard => Reach(sc2, s, top + 1)
  <2>1. SUFFICES ASSUME NEW s \in 1..top, Reach(sc, s, top), ~new.hard,
                        NEW t \in s + 1..top + 1
                 PROVE  ~sc2[t].hard
    <3>1. \A s \in 1..top : s <= top + 1
      BY <1>2
    <3>2. QED
      BY <3>1 DEF Reach
  <2>2. CASE t = top + 1
    BY <1>4, <2>1, <2>2
  <2>3. CASE t # top + 1
    <3>1. t \in s + 1..top /\ t \in 1..top
      BY <1>2, <2>3
    <3>2. QED
      BY <1>4, <2>1, <3>1 DEF Reach
  <2>4. QED
    BY <2>2, <2>3
<1>10. WritesOK(sc2, op2, a + 1)
  <2>1. WritesOK(sc, op, a + 1)
    BY DEF Alive
  <2>2. \A s \in 1..top : \A j \in DOMAIN sc[s].writes : Agree(fr, sc[s].writes[j].path)
    BY <1>7 DEF Agree
  <2>3. QED
    BY <1>1, <1>5, <1>6, <2>1, <2>2 DEF WritesOK, top
<1>11. ASSUME NEW Z, NEW level \in 1..top, NEW q, NEW lim,
              Carried(sc, op, Z, level, q, lim), \A b \in DOMAIN op2 : b < lim => b # m + 1
       PROVE  Carried(sc2, op2, Z, level, q, lim)
  <2>1. \A b \in DOMAIN op2 : b < lim /\ op2[b].kind \in Scoping =>
          /\ b \in DOMAIN op /\ b < lim /\ op[b].kind \in Scoping
          /\ op[b].scope = op2[b].scope /\ op[b].path = op2[b].path
    BY <1>1, <1>5, <1>11
  <2>2. Carried(sc, op2, Z, level, q, lim)
    BY <1>11, <2>1, CarriedAmong
  <2>3. QED
    BY <1>6, <1>8, <2>2 DEF Carried, top
<1>12. Carried(sc, op, X, top, p, m + 1) /\ Unreported(X, a + 1, rep)
  BY DEF Alive, m, top
<1>13. SavedOK(sc2, op2, a + 1, rep)
  <2>1. SUFFICES ASSUME NEW i \in DOMAIN op2
                 PROVE  /\ Unreported(Saved(op2[i]), a + 1, rep)
                        /\ Carried(sc2, op2, Saved(op2[i]), op2[i].scope, op2[i].path, i)
                        /\ Aside(sc2, op2[i])
    BY DEF SavedOK
  <2>2. CASE i = m + 1
    <3>1. Aside(sc2, fr)
      BY <1>6, <1>7 DEF Aside, top
    <3>2. Carried(sc, op, Saved(fr), top, p, m + 1)
      BY <1>12, CarriedTogether
    <3>3. \A b \in DOMAIN op2 : b < m + 1 => b # m + 1
      BY <1>1
    <3>4. Carried(sc2, op2, Saved(fr), top, p, m + 1)
      BY <1>2, <1>11, <3>2, <3>3
    <3>5. Unreported(Saved(fr), a + 1, rep)
      BY <1>12 DEF Unreported
    <3>6. QED
      BY <1>1, <2>2, <3>1, <3>4, <3>5 DEF top
  <2>3. CASE i # m + 1
    <3>1. i \in DOMAIN op /\ op2[i] = op[i]
      BY <1>1, <1>5, <2>3
    <3>2. /\ Unreported(Saved(op[i]), a + 1, rep)
          /\ Carried(sc, op, Saved(op[i]), op[i].scope, op[i].path, i)
          /\ Aside(sc, op[i])
      BY <3>1 DEF Alive, SavedOK
    <3>3. op[i].scope \in 1..top
      BY <1>2, <3>1, NestFacts DEF Alive, top
    <3>4. \A b \in DOMAIN op2 : b < i => b # m + 1
      BY <1>1, <3>1
    <3>5. Carried(sc2, op2, Saved(op[i]), op[i].scope, op[i].path, i)
      BY <1>11, <3>2, <3>3, <3>4
    <3>6. Aside(sc2, op[i])
      BY <1>6, <3>2 DEF Aside, top
    <3>7. QED
      BY <3>1, <3>2, <3>5, <3>6
  <2>4. QED
    BY <2>2, <2>3
<1>14. BlocksOK(sc2, op2)
  <2>1. SUFFICES ASSUME NEW i \in DOMAIN op2, op2[i].kind = "block"
                 PROVE  /\ ~sc2[op2[i].scope + 1].declared
                        /\ \E s \in 1..op2[i].scope :
                             sc2[s].declared /\ Reach(sc2, s, op2[i].scope + 1)
    BY DEF BlocksOK
  <2>2. CASE i = m + 1
    <3>1. op2[i] = fr /\ op2[i].scope = top
      BY <1>1, <2>2 DEF top
    <3>2. PICK s \in 1..top : sc[s].declared /\ Reach(sc, s, top)
      BY <2>1, <3>1 DEF top
    <3>3. QED
      BY <1>4, <1>9, <2>1, <3>1, <3>2
  <2>3. CASE i # m + 1
    <3>1. i \in DOMAIN op /\ op2[i] = op[i]
      BY <1>1, <1>5, <2>3
    <3>2. PICK s \in 1..op[i].scope : sc[s].declared /\ Reach(sc, s, op[i].scope + 1)
      BY <2>1, <3>1 DEF Alive, BlocksOK
    <3>3. op[i].scope \in 1..top /\ After(op[i]) <= top
      BY <1>2, <3>1, NestFacts DEF Alive, top
    <3>4. op[i].scope + 1 \in 1..top /\ s \in 1..top
      <4>1. After(op[i]) = op[i].scope + 1
        BY ONLY <2>1, <3>1 DEF After, Scoping
      <4>2. top \in Nat /\ s \in 1..op[i].scope
        BY <1>2
      <4>3. QED
        BY ONLY <3>3, <4>1, <4>2
    <3>5. ~sc[op[i].scope + 1].declared
      BY <2>1, <3>1 DEF Alive, BlocksOK
    <3>6. QED
      BY <1>4, <1>8, <3>1, <3>2, <3>4, <3>5
  <2>4. QED
    BY <2>2, <2>3
<1>15. Unreported(Y, a + 1, rep)
  BY <1>12 DEF Unreported
<1>16. Carried(sc2, op2, Y, top + 1, p2, m + 2)
  <2>1. SUFFICES ASSUME NEW s \in 1..top, NEW j \in DOMAIN sc[s].writes, sc2[s] = sc[s],
                        sc[s].writes[j].at \in Y
                 PROVE  /\ Reach(sc2, s, top + 1)
                        /\ ~sc[s].writes[j].reassigned
                        /\ ~sc[s].captured =>
                             /\ s = top + 1 => Live(sc[s].writes, s, j, p2)
                             /\ \A b \in DOMAIN op2 :
                                  b < m + 2 /\ op2[b].kind \in Scoping /\ op2[b].scope = s =>
                                    Live(sc[s].writes, s, j, op2[b].path)
    BY <1>6 DEF Carried
  <2>2. fr.kind = "block" /\ sc[s].writes[j].at \in X
    BY <2>1 DEF top
  <2>3. /\ Reach(sc, s, top)
        /\ ~sc[s].writes[j].reassigned
        /\ ~sc[s].captured =>
             /\ s = top => Live(sc[s].writes, s, j, p)
             /\ \A b \in DOMAIN op :
                  b < m + 1 /\ op[b].kind \in Scoping /\ op[b].scope = s =>
                    Live(sc[s].writes, s, j, op[b].path)
    BY <1>12, <2>2 DEF Carried, top
  <2>4. Reach(sc2, s, top + 1)
    BY <1>9, <2>2, <2>3
  <2>5. s # top + 1
    BY <1>2
  <2>6. ASSUME ~sc[s].captured, NEW b \in DOMAIN op2, op2[b].kind \in Scoping, op2[b].scope = s
        PROVE  Live(sc[s].writes, s, j, op2[b].path)
    <3>1. CASE b = m + 1
      BY <1>1, <2>3, <2>6, <3>1 DEF top
    <3>2. CASE b # m + 1
      <4>1. b \in DOMAIN op /\ b < m + 1 /\ op2[b] = op[b]
        BY <1>1, <1>5, <3>2
      <4>2. QED
        BY <2>3, <2>6, <4>1
    <3>3. QED
      BY <3>1, <3>2
  <2>7. QED
    BY <2>3, <2>4, <2>5, <2>6
<1>17. SeenOK(sc2, a + 1, rep, sn)
  BY <1>6 DEF Alive, SeenOK, top
<1>18. Len(op2) + 1 = m + 2 /\ Len(sc2) = top + 1
  BY <1>1, <1>4
<1>19. Alive(sc2, op2, p2, a + 1, rep, sn, Y)
  BY <1>3, <1>10, <1>13, <1>14, <1>15, <1>16, <1>17, <1>18 DEF Alive
<1>20. QED
  BY <1>19 DEF op2, sc2

\* The offsets U are of assignments found useless in the innermost scope.
Discarded(sc, U) ==
  \A u \in U : \E j \in DOMAIN sc[Len(sc)].writes :
    /\ u = sc[Len(sc)].writes[j].at
    /\ ~sc[Len(sc)].writes[j].referenced
    /\ sc[Len(sc)].writes[j].reassigned \/ ~sc[Len(sc)].captured

\* None of them has been seen.
LEMMA DiscardedUnseen ==
  ASSUME NEW sc \in Seq(Scope), sc # <<>>, NEW n, NEW rep, NEW sn, NEW U,
         SeenOK(sc, n, rep, sn), Discarded(sc, U),
         NEW sc2, \A s \in 1..Len(sc2) : s \in 1..Len(sc) /\ sc2[s] = sc[s]
  PROVE  SeenOK(sc2, n, rep \union U, sn)
<1>1. Len(sc) \in 1..Len(sc)
  OBVIOUS
<1>2. \A x \in sn.plain \union sn.captured : x \notin U
  <2>1. SUFFICES ASSUME NEW x \in sn.plain \union sn.captured, x \in U PROVE FALSE
    OBVIOUS
  <2>2. PICK j \in DOMAIN sc[Len(sc)].writes :
          /\ x = sc[Len(sc)].writes[j].at
          /\ ~sc[Len(sc)].writes[j].referenced
          /\ sc[Len(sc)].writes[j].reassigned \/ ~sc[Len(sc)].captured
    BY <2>1 DEF Discarded
  <2>3. /\ x \in sn.plain =>
             sc[Len(sc)].writes[j].referenced
               \/ (sc[Len(sc)].captured /\ ~sc[Len(sc)].writes[j].reassigned)
        /\ x \in sn.captured =>
             sc[Len(sc)].captured /\ ~sc[Len(sc)].writes[j].reassigned
    BY <1>1, <2>2 DEF SeenOK
  <2>4. QED
    BY <2>1, <2>2, <2>3
<1>3. Unreported(sn.plain \union sn.captured, n, rep \union U)
  BY <1>2 DEF SeenOK, Unreported
<1>4. QED
  BY <1>3 DEF SeenOK

\* The walk leaves a construct with a scope of its own: its useless assignments are reported.
LEMMA PopAlive ==
  ASSUME NEW sc \in Seq(Scope), sc # <<>>, NEW op \in Seq(Frame), NEW p \in Seq(Context),
         NEW n \in Nat, NEW rep, NEW sn, NEW X, Alive(sc, op, p, n, rep, sn, X),
         op # <<>>, NEW last, last = op[Len(op)], last.kind \in Scoping,
         NEW U, Discarded(sc, U),
         NEW Y, Y \subseteq Saved(last) \union (IF last.kind = "block" THEN X ELSE {})
  PROVE  Alive(SubSeq(sc, 1, Len(sc) - 1), SubSeq(op, 1, Len(op) - 1), last.path, n,
               rep \union U, sn, Y)
<1> DEFINE m == Len(op)
           top == Len(sc)
           front == SubSeq(op, 1, m - 1)
           sc2 == SubSeq(sc, 1, top - 1)
<1>1. m \in DOMAIN op /\ m \in Nat /\ m > 0 /\ DOMAIN op = 1..m /\ op[m] = last
  OBVIOUS
<1>2. /\ front \in Seq(Frame) /\ Len(front) = m - 1 /\ DOMAIN front = 1..m - 1
      /\ \A i \in 1..m - 1 : front[i] = op[i]
  BY FrontOf
<1>3. top \in Nat /\ top \in 1..top /\ top = last.scope + 1 /\ last.scope \in Nat
      /\ last.scope >= 1
  <2>1. last.scope \in Nat /\ last.scope >= 1 /\ top = After(last)
    BY <1>1, FrameTypes DEF Alive, NestOK
  <2>2. QED
    BY <2>1 DEF After
<1>4. /\ sc2 \in Seq(Scope) /\ Len(sc2) = last.scope
      /\ \A s \in 1..last.scope : sc2[s] = sc[s] /\ s \in 1..top /\ s # top
  <2>1. \A s \in 1..top - 1 : sc[s] \in Scope
    BY <1>3
  <2>2. /\ sc2 \in Seq(Scope) /\ Len(sc2) = top - 1
        /\ \A s \in 1..top - 1 : sc2[s] = sc[s]
    BY <1>3, <2>1, SubSeqProperties
  <2> HIDE DEF sc2, top
  <2>3. top - 1 = last.scope /\ \A s \in 1..last.scope : s \in 1..top /\ s # top
    BY ONLY <1>3
  <2>4. QED
    BY ONLY <2>2, <2>3
<1> HIDE DEF m, front, sc2, top
<1>5. \A i \in DOMAIN front : i \in DOMAIN op /\ front[i] = op[i] /\ i < m
  BY <1>1, <1>2
<1>6. \A s \in 1..Len(sc2) : s \in 1..top /\ sc2[s] = sc[s] /\ s \in 1..last.scope /\ s # top
  BY ONLY <1>4
<1>7. NestOK(top, op, n) /\ PathsOK(top, op, p, n)
  BY DEF Alive, top
<1>8. NestOK(last.scope, front, n)
  <2>1. IF front = <<>> THEN last.scope <= 1
                        ELSE last.scope = After(front[Len(front)]) /\ front[1].scope = 1
    <3>1. op[1].scope = 1
      BY <1>7 DEF NestOK
    <3>2. CASE m = 1
      BY <1>1, <1>2, <3>1, <3>2
    <3>3. CASE m # 1
      <4>1. m - 1 \in DOMAIN op /\ 1 \in DOMAIN front /\ m - 1 \in DOMAIN front
        BY <1>1, <1>2, <3>3
      <4>2. op[m].scope = After(op[m - 1])
        BY <1>1, <1>7, <4>1 DEF NestOK
      <4>3. front # <<>>
        BY <4>1
      <4>4. front[Len(front)] = op[m - 1] /\ front[1] = op[1]
        BY <1>2, <1>5, <4>1
      <4>5. QED
        BY <1>1, <3>1, <4>2, <4>3, <4>4
    <3>4. QED
      BY <3>2, <3>3
  <2>2. QED
    BY <1>5, <1>7, <2>1 DEF NestOK
<1>9. \A i \in DOMAIN front : op[i].scope \in 1..last.scope /\ After(op[i]) <= last.scope
                              /\ After(op[i]) \in Nat
  <2>1. SUFFICES ASSUME NEW i \in DOMAIN front
                 PROVE  op[i].scope \in 1..last.scope /\ After(op[i]) <= last.scope
                        /\ After(op[i]) \in Nat
    OBVIOUS
  <2>2. After(op[i]) <= op[m].scope
    BY <1>1, <1>5, <1>7 DEF NestOK
  <2>3. op[i].scope \in Nat /\ op[i].scope >= 1 /\ After(op[i]) \in Nat
    BY <1>5, <1>7, FrameTypes DEF NestOK
  <2>4. op[i].scope <= After(op[i])
    BY <2>3 DEF After
  <2>5. QED
    BY <1>1, <1>3, <2>2, <2>3, <2>4
<1>10. PathsOK(last.scope, front, last.path, n)
  <2>1. \A q, k : PathOK(op, q, k) => PathOK(front, q, k)
    BY <1>5 DEF PathOK
  <2>2. \A q, lim, level : Within(op, lim, level, q) => Within(front, lim, level, q)
    BY <1>5 DEF Within
  <2>3. PathOK(front, last.path, n)
    <3>1. PathOK(front, last.path, last.at) /\ last.at < n
      BY <1>1, <1>7, <2>1 DEF PathsOK, NestOK
    <3>2. last.at \in Nat /\ \A c \in Contexts(last.path) : c.parent \in Nat
      BY <1>1, FrameTypes DEF Context
    <3>3. QED
      BY <3>1, <3>2 DEF PathOK
  <2>4. Within(front, m, last.scope, last.path)
    BY <1>1, <1>7, <2>2 DEF PathsOK
  <2>5. \A i \in DOMAIN front : PathOK(front, front[i].path, front[i].at)
                                /\ Within(front, i, front[i].scope, front[i].path)
    BY <1>5, <1>7, <2>1, <2>2 DEF PathsOK
  <2>6. Len(front) + 1 = m
    BY <1>1, <1>2
  <2>7. QED
    BY <2>3, <2>4, <2>5, <2>6 DEF PathsOK
<1>11. WritesOK(sc2, front, n)
  BY <1>5, <1>6 DEF Alive, WritesOK, top
<1>12. \A s \in 1..Len(sc2), level \in 1..top : Reach(sc, s, level) /\ s <= last.scope =>
         Reach(sc2, s, IF level = top THEN last.scope ELSE level)
  <2>1. SUFFICES ASSUME NEW s \in 1..Len(sc2), NEW level \in 1..top, Reach(sc, s, level),
                        s <= last.scope
                 PROVE  Reach(sc2, s, IF level = top THEN last.scope ELSE level)
    OBVIOUS
  <2> DEFINE lower == IF level = top THEN last.scope ELSE level
  <2>2. s <= lower /\ lower \in Nat /\ lower <= level /\ lower <= last.scope
    BY <1>3, <2>1 DEF Reach
  <2> HIDE DEF lower
  <2>3. \A t \in s + 1..lower : t \in s + 1..level /\ t \in 1..Len(sc2)
    <3>1. SUFFICES ASSUME NEW t \in s + 1..lower
                   PROVE  t \in s + 1..level /\ t \in 1..Len(sc2)
      OBVIOUS
    <3>2. s \in Nat /\ level \in Nat /\ t \in Nat /\ s + 1 <= t /\ t <= lower
      BY <2>2
    <3>3. t <= level
      BY <2>2, <3>2
    <3>4. last.scope \in Nat /\ last.scope <= Len(sc2) /\ Len(sc2) \in Nat
      BY ONLY <1>3, <1>4
    <3>5. t >= 1 /\ t <= Len(sc2)
      BY <2>2, <3>2, <3>4
    <3>6. QED
      BY <3>2, <3>3, <3>4, <3>5
  <2>4. \A t \in s + 1..lower : ~sc2[t].hard
    BY <1>6, <2>1, <2>3 DEF Reach
  <2>5. Reach(sc2, s, lower)
    BY <2>2, <2>4 DEF Reach
  <2>6. QED
    BY <2>5 DEF lower
<1>13. ASSUME NEW Z, NEW level \in 1..last.scope, NEW q, NEW lim,
              Carried(sc, op, Z, level, q, lim)
       PROVE  Carried(sc2, front, Z, level, q, lim)
  <2>1. Carried(sc, front, Z, level, q, lim)
    BY <1>5, <1>13, CarriedAmong
  <2>2. \A s \in 1..Len(sc2) : Reach(sc, s, level) => Reach(sc2, s, level)
    BY <1>3, <1>6, <1>12
  <2>3. QED
    BY <1>6, <2>1, <2>2 DEF Carried, top
<1>14. ASSUME NEW Z, NEW level \in 1..last.scope, NEW q, NEW lim,
              Carried(sc, op, Z, level, q, lim), Unreported(Z, n, rep)
       PROVE  Unreported(Z, n, rep \union U)
  <2>1. SUFFICES ASSUME NEW x \in Z, x \in U PROVE FALSE
    BY <1>14 DEF Unreported
  <2>2. PICK j \in DOMAIN sc[top].writes : x = sc[top].writes[j].at
    BY <2>1 DEF Discarded, top
  <2>3. Reach(sc, top, level)
    BY <1>3, <1>14, <2>1, <2>2 DEF Carried, top
  <2>4. QED
    BY <1>3, <2>3 DEF Reach
<1>15. SavedOK(sc2, front, n, rep \union U)
  <2>1. SUFFICES ASSUME NEW i \in DOMAIN front
                 PROVE  /\ Unreported(Saved(front[i]), n, rep \union U)
                        /\ Carried(sc2, front, Saved(front[i]), front[i].scope,
                                   front[i].path, i)
                        /\ Aside(sc2, front[i])
    BY DEF SavedOK
  <2>2. /\ Unreported(Saved(op[i]), n, rep)
        /\ Carried(sc, op, Saved(op[i]), op[i].scope, op[i].path, i)
        /\ Aside(sc, op[i])
    BY <1>5 DEF Alive, SavedOK
  <2>3. Aside(sc2, op[i])
    BY <1>6, <2>2 DEF Aside, top
  <2>4. op[i].scope \in 1..last.scope /\ front[i] = op[i]
    BY <1>5, <1>9
  <2>5. Carried(sc2, front, Saved(op[i]), op[i].scope, op[i].path, i)
    BY <1>13, <2>2, <2>4
  <2>6. Unreported(Saved(op[i]), n, rep \union U)
    BY <1>14, <2>2, <2>4
  <2>7. QED
    BY <2>3, <2>4, <2>5, <2>6
<1>16. BlocksOK(sc2, front)
  <2>1. SUFFICES ASSUME NEW i \in DOMAIN front, front[i].kind = "block"
                 PROVE  /\ ~sc2[front[i].scope + 1].declared
                        /\ \E s \in 1..front[i].scope :
                             sc2[s].declared /\ Reach(sc2, s, front[i].scope + 1)
    BY DEF BlocksOK
  <2>2. i \in DOMAIN op /\ front[i] = op[i] /\ op[i].kind = "block"
    BY <1>5, <2>1
  <2>3. /\ ~sc[op[i].scope + 1].declared
        /\ \E s \in 1..op[i].scope : sc[s].declared /\ Reach(sc, s, op[i].scope + 1)
    BY <2>2 DEF Alive, BlocksOK
  <2>4. op[i].scope + 1 \in 1..last.scope /\ op[i].scope \in Nat
    BY <1>3, <1>9, <2>2 DEF After, Scoping
  <2>5. PICK s \in 1..op[i].scope : sc[s].declared /\ Reach(sc, s, op[i].scope + 1)
    BY <2>3
  <2>6. s \in 1..Len(sc2) /\ op[i].scope + 1 \in 1..Len(sc2) /\ s <= last.scope
        /\ op[i].scope + 1 \in 1..top /\ op[i].scope + 1 # top
    <3>1. Len(sc2) = last.scope /\ top = last.scope + 1 /\ last.scope \in Nat
      BY ONLY <1>3, <1>4
    <3>2. s \in Nat /\ s >= 1 /\ s <= op[i].scope /\ op[i].scope + 1 <= last.scope
      BY <2>4, <2>5
    <3>3. s \in 1..last.scope /\ op[i].scope + 1 \in 1..last.scope /\ s <= last.scope
      BY ONLY <2>4, <3>1, <3>2
    <3>4. \A k \in 1..last.scope : k \in 1..top /\ k # top
      BY ONLY <3>1
    <3>5. QED
      BY ONLY <3>1, <3>3, <3>4
  <2>7. Reach(sc2, s, op[i].scope + 1)
    BY <1>12, <2>5, <2>6
  <2>8. QED
    BY ONLY <1>6, <2>2, <2>3, <2>5, <2>6, <2>7
<1>17. SeenOK(sc2, n, rep \union U, sn)
  BY <1>6, DiscardedUnseen DEF Alive, top
<1>18. last.scope \in 1..last.scope
  BY <1>3
<1>19. Carried(sc, op, Saved(last), last.scope, last.path, m) /\ Unreported(Saved(last), n, rep)
  BY <1>1 DEF Alive, SavedOK
<1>20. Carried(sc2, front, Saved(last), last.scope, last.path, m)
       /\ Unreported(Saved(last), n, rep \union U)
  BY <1>13, <1>14, <1>18, <1>19
<1>21. ASSUME last.kind = "block"
       PROVE  /\ Carried(sc2, front, X, last.scope, last.path, m)
              /\ Unreported(X, n, rep \union U)
  <2>1. ~sc[top].declared
    BY <1>1, <1>3, <1>21 DEF Alive, BlocksOK
  <2>2. DOMAIN sc[top].writes = {}
    BY <1>3, <2>1 DEF Alive, WritesOK, top
  <2>3. U = {}
    BY <2>2 DEF Discarded, top
  <2>4. Unreported(X, n, rep \union U)
    BY <2>3 DEF Alive, Unreported
  <2>5. SUFFICES ASSUME NEW s \in 1..Len(sc2), NEW j \in DOMAIN sc[s].writes, sc2[s] = sc[s],
                        sc[s].writes[j].at \in X
                 PROVE  /\ Reach(sc2, s, last.scope)
                        /\ ~sc[s].writes[j].reassigned
                        /\ ~sc[s].captured =>
                             /\ s = last.scope => Live(sc[s].writes, s, j, last.path)
                             /\ \A b \in DOMAIN front :
                                  b < m /\ front[b].kind \in Scoping
                                        /\ front[b].scope = s =>
                                    Live(sc[s].writes, s, j, front[b].path)
    BY <1>6, <2>4 DEF Carried
  <2>6. /\ Reach(sc, s, top)
        /\ ~sc[s].writes[j].reassigned
        /\ ~sc[s].captured =>
             \A b \in DOMAIN op :
               b < m + 1 /\ op[b].kind \in Scoping /\ op[b].scope = s =>
                 Live(sc[s].writes, s, j, op[b].path)
    <3>1. s \in 1..top
      BY <1>6
    <3>2. QED
      BY <2>5, <3>1 DEF Alive, Carried, top, m
  <2>7. Reach(sc2, s, last.scope)
    BY <1>3, <1>6, <1>12, <2>6
  <2>8. ~sc[s].captured /\ s = last.scope => Live(sc[s].writes, s, j, last.path)
    <3>1. m < m + 1
      BY <1>1
    <3>2. QED
      BY <1>1, <2>6, <3>1
  <2>9. \A b \in DOMAIN front : b < m + 1
    BY <1>1, <1>2
  <2>10. QED
    BY <1>5, <2>6, <2>7, <2>8, <2>9
<1>22. Carried(sc2, front, Y, last.scope, last.path, m) /\ Unreported(Y, n, rep \union U)
  <2>1. CASE last.kind = "block"
    BY <1>20, <1>21, <2>1, CarriedTogether DEF Unreported
  <2>2. CASE last.kind # "block"
    <3>1. Y \subseteq Saved(last) \union Saved(last)
      BY <2>2
    <3>2. QED
      BY <1>20, <3>1, CarriedTogether DEF Unreported
  <2>3. QED
    BY <2>1, <2>2
<1>23. Len(front) + 1 = m /\ Len(sc2) = last.scope
  <2>1. m \in Nat /\ Len(front) = m - 1
    BY ONLY <1>1, <1>2
  <2>2. QED
    BY ONLY <1>4, <2>1
<1>24. Alive(sc2, front, last.path, n, rep \union U, sn, Y)
  BY <1>8, <1>10, <1>11, <1>15, <1>16, <1>17, <1>22, <1>23 DEF Alive
<1>25. QED
  BY <1>24 DEF sc2, front, m, top

-----------------------------------------------------------------------------
(* What an assignment and a read leave alive. *)

\* Fewer values are alive if more are.
LEMMA AliveLess ==
  ASSUME NEW sc, NEW op, NEW p, NEW n, NEW rep, NEW sn, NEW X, NEW Y,
         Alive(sc, op, p, n, rep, sn, X), Y \subseteq X
  PROVE  Alive(sc, op, p, n, rep, sn, Y)
<1>1. Unreported(Y, n, rep)
  BY DEF Alive, Unreported
<1>2. Carried(sc, op, Y, Len(sc), p, Len(op) + 1)
  BY CarriedTogether DEF Alive
<1>3. QED
  BY <1>1, <1>2 DEF Alive

\* More have been seen, if they are marked or captured.
LEMMA AliveSeen ==
  ASSUME NEW sc, NEW op, NEW p, NEW n, NEW rep, NEW sn, NEW X, NEW sn2,
         Alive(sc, op, p, n, rep, sn, X),
         Unreported(sn2.plain \union sn2.captured, n, rep),
         \A s \in 1..Len(sc) : \A j \in DOMAIN sc[s].writes :
           /\ sc[s].writes[j].at \in sn2.plain \ sn.plain =>
                sc[s].writes[j].referenced \/ (sc[s].captured /\ ~sc[s].writes[j].reassigned)
           /\ sc[s].writes[j].at \in sn2.captured \ sn.captured =>
                sc[s].captured /\ ~sc[s].writes[j].reassigned
  PROVE  Alive(sc, op, p, n, rep, sn2, X)
<1>1. SeenOK(sc, n, rep, sn2)
  <2>1. SUFFICES ASSUME NEW s \in 1..Len(sc), NEW j \in DOMAIN sc[s].writes
                 PROVE  /\ sc[s].writes[j].at \in sn2.plain =>
                             \/ sc[s].writes[j].referenced
                             \/ sc[s].captured /\ ~sc[s].writes[j].reassigned
                        /\ sc[s].writes[j].at \in sn2.captured =>
                             sc[s].captured /\ ~sc[s].writes[j].reassigned
    BY DEF SeenOK
  <2>2. /\ sc[s].writes[j].at \in sn.plain =>
             \/ sc[s].writes[j].referenced
             \/ sc[s].captured /\ ~sc[s].writes[j].reassigned
        /\ sc[s].writes[j].at \in sn.captured =>
             sc[s].captured /\ ~sc[s].writes[j].reassigned
    BY DEF Alive, SeenOK
  <2>3. QED
    BY <2>2
<1>2. QED
  BY <1>1 DEF Alive

\* An assignment at offset n, on a branch p that is the walk's own or that of a modifier.
LEMMA AddAlive ==
  ASSUME NEW sc \in Seq(Scope), NEW sc2 \in Seq(Scope), NEW s \in 1..Len(sc),
         NEW n \in Nat, NEW p \in Seq(Context), NEW modifier,
         Adds(sc, sc2, s, n, p, modifier),
         NEW op \in Seq(Frame), NEW q \in Seq(Context), NEW rep, NEW sn, NEW X,
         Alive(sc, op, q, n, rep, sn, X), n \notin rep,
         \A x \in sn.plain \union sn.captured \union X : x \in Nat,
         Reach(sc, s, Len(sc)),
         \/ sc[s].declared
         \/ s = Len(sc) /\ \A t \in 1..Len(sc) : Reach(sc, t, Len(sc)) => ~sc[t].declared,
         Contexts(q) \subseteq Contexts(p),
         \A c \in Contexts(p) : c \in Contexts(q) \/ c.parent = n,
         NEW Y, Y \subseteq X,
         s = Len(sc) => Spares(sc, s, p, modifier, Y, q)
  PROVE  Alive(sc2, op, q, n + 1, rep, sn, Y \union {n})
<1>1. /\ Len(sc2) = Len(sc) /\ Len(sc) \in Nat /\ Len(sc) \in 1..Len(sc)
  BY DEF Adds
<1>2. /\ NestOK(Len(sc), op, n) /\ PathsOK(Len(sc), op, q, n) /\ WritesOK(sc, op, n)
      /\ SavedOK(sc, op, n, rep) /\ BlocksOK(sc, op) /\ SeenOK(sc, n, rep, sn)
      /\ Unreported(X, n, rep) /\ Carried(sc, op, X, Len(sc), q, Len(op) + 1)
  BY DEF Alive
<1>3. \A c \in Contexts(q) : c.parent < n /\ c.parent \in Nat
  BY <1>2, ContextsOf DEF PathsOK, PathOK, Context
<1>4. \A c \in Contexts(p) : c.parent <= n
  BY <1>3
<1>5. ASSUME NEW i \in DOMAIN op
      PROVE  Agree(op[i], p)
  <2>1. Agree(op[i], q)
    BY <1>2 DEF PathsOK, PathOK
  <2>2. op[i].at < n /\ op[i].at \in Nat
    BY <1>2, FrameTypes DEF NestOK
  <2>3. \A c \in Contexts(p) : c.parent = op[i].at => c \in Contexts(q)
    BY <2>2
  <2>4. QED
    BY <2>1, <2>3 DEF Agree
<1>6. Compatible(p, q)
  <2>1. SUFFICES ASSUME NEW c \in Contexts(p), NEW d \in Contexts(q), c.parent = d.parent
                 PROVE  c.child = d.child
    BY DEF Compatible
  <2>2. c \in Contexts(q)
    BY <1>3, <2>1
  <2>3. c = d
    BY <1>2, <2>1, <2>2 DEF PathsOK, PathOK
  <2>4. QED
    BY <2>3
<1>7. /\ WritesOK(sc2, op, n + 1)
      /\ SavedOK(sc2, op, n + 1, rep)
      /\ BlocksOK(sc2, op)
      /\ SeenOK(sc2, n + 1, rep, sn)
  <2>1. \A x \in sn.plain \union sn.captured : x \in Nat
    OBVIOUS
  <2>2. QED
    BY <1>2, <1>4, <1>5, <2>1, AddsKeeps
<1>8. \A b \in DOMAIN op : op[b].kind \in Scoping => op[b].scope # Len(sc)
  BY <1>1, <1>2, NestFacts, FrameTypes
<1>9. Carried(sc2, op, Y, Len(sc), q, Len(op) + 1)
  <2>1. n \notin Y
    BY <1>2 DEF Unreported
  <2>2. Carried(sc, op, Y, Len(sc), q, Len(op) + 1)
    BY <1>2, CarriedTogether
  <2>3. Adds(sc, sc2, s, n, p, modifier) /\ (s = Len(sc) => Spares(sc, s, p, modifier, Y, q))
    OBVIOUS
  <2>4. QED
    BY ONLY <1>1, <1>8, <2>1, <2>2, <2>3, sc \in Seq(Scope), sc2 \in Seq(Scope),
            s \in 1..Len(sc), AddsCarried
<1>10. Carried(sc2, op, {n}, Len(sc), q, Len(op) + 1)
  BY <1>2, <1>6, <1>8, AddedCarried
<1>11. Carried(sc2, op, Y \union {n}, Len(sc), q, Len(op) + 1)
  BY <1>9, <1>10, CarriedTogether
<1>12. Unreported(Y \union {n}, n + 1, rep)
  BY <1>2 DEF Unreported
<1>13. NestOK(Len(sc), op, n + 1)
  <2>1. \A i \in DOMAIN op : op[i].at < n + 1
    <3>1. \A i \in DOMAIN op : op[i].at < n
      BY <1>2 DEF NestOK
    <3>2. \A i \in DOMAIN op : op[i].at \in Nat
      BY FrameTypes
    <3>3. QED
      BY <3>1, <3>2
  <2>2. QED
    BY <1>2, <2>1 DEF NestOK
<1>14. PathsOK(Len(sc), op, q, n + 1)
  <2>1. PathOK(op, q, n + 1)
    BY <1>2, <1>3 DEF PathsOK, PathOK
  <2>2. QED
    BY <1>2, <2>1 DEF PathsOK
<1>15. QED
  BY <1>1, <1>7, <1>11, <1>12, <1>13, <1>14 DEF Alive

-----------------------------------------------------------------------------
(* The state. *)

\* Types, once more.
LEMMA LiveTypes ==
  ASSUME Inv
  PROVE  /\ scopes \in Seq(Scope) /\ open \in Seq(Frame) /\ path \in Seq(Context)
         /\ pos \in Nat /\ pos \notin reported /\ Top = Len(scopes) /\ Top \in Nat
         /\ Len(open) \in Nat /\ flow \in Flow
         /\ \A x \in flow.plain \union seen.plain \union seen.captured : x \in Nat
<1>1. /\ scopes \in Seq(Scope) /\ open \in Seq(Frame) /\ path \in Seq(Context)
      /\ pos \in Nat /\ flow \in Flow /\ reported \subseteq Nat
      /\ \A r \in reported : r < pos
  BY DEF Inv, TypeOK
<1>2. seen.plain \subseteq Nat /\ seen.captured \subseteq Nat
  BY DEF Inv, TypeOK
<1>3. flow.plain \subseteq Nat
  BY <1>1 DEF Flow
<1>4. QED
  BY <1>1, <1>2, <1>3 DEF Top

\* All there is, is before the next offset.
LEMMA AllBefore ==
  ASSUME NEW sc \in Seq(Scope), NEW op \in Seq(Frame), NEW p \in Seq(Context), NEW n \in Nat,
         NEW rep, NEW sn, NEW X, Alive(sc, op, p, n, rep, sn, X)
  PROVE  /\ \A i \in DOMAIN op : op[i].at < n
         /\ \A d \in Contexts(p) : d.parent < n
         /\ \A s \in 1..Len(sc) : \A j \in DOMAIN sc[s].writes :
              /\ sc[s].writes[j].at < n /\ sc[s].writes[j].at # n
              /\ \A d \in Contexts(sc[s].writes[j].path) : d.parent < n
<1>1. \A i \in DOMAIN op : op[i].at < n
  BY DEF Alive, NestOK
<1>2. \A d \in Contexts(p) : d.parent < n
  BY DEF Alive, PathsOK, PathOK
<1>3. ASSUME NEW s \in 1..Len(sc), NEW j \in DOMAIN sc[s].writes
      PROVE  /\ sc[s].writes[j].at < n /\ sc[s].writes[j].at # n
             /\ \A d \in Contexts(sc[s].writes[j].path) : d.parent < n
  <2>1. sc[s].writes[j].at \in Nat /\ Contexts(sc[s].writes[j].path) \subseteq Context
    BY WriteTypes
  <2>2. /\ sc[s].writes[j].at < n
        /\ \A d \in Contexts(sc[s].writes[j].path) : d.parent <= sc[s].writes[j].at
    BY DEF Alive, WritesOK
  <2>3. \A d \in Contexts(sc[s].writes[j].path) : d.parent \in Nat
    BY <2>1 DEF Context
  <2>4. QED
    BY <2>1, <2>2, <2>3
<1>4. QED
  BY <1>1, <1>2, <1>3

\* The scope that declares x and is in reach is the one found.
LEMMA HomeOnly ==
  ASSUME Inv, NEW t \in 1..Top, scopes[t].declared, Reach(scopes, t, Top)
  PROVE  Declaring # {} /\ t = Home
<1>1. Top \in Nat /\ Top = Len(scopes)
  BY LiveTypes
<1>2. t \in Declaring
  BY DEF Declaring, Accessible, Reach
<1>3. Home \in 1..Top /\ scopes[Home].declared /\ Home \in Accessible
  BY <1>1, <1>2, HomeDeclares DEF Inv, Declaring
<1>4. \A u \in Home + 1..Top : ~scopes[u].hard
  BY <1>3 DEF Accessible
<1>5. \A u \in t + 1..Top : ~scopes[u].hard
  BY DEF Reach
<1>6. CASE t < Home
  <2>1. PICK u \in t + 1..Home : scopes[u].hard
    BY <1>1, <1>3, <1>6 DEF Inv, Single
  <2>2. QED
    BY <1>1, <1>3, <1>5, <2>1
<1>7. CASE Home < t
  <2>1. PICK u \in Home + 1..t : scopes[u].hard
    BY <1>1, <1>3, <1>7 DEF Inv, Single
  <2>2. QED
    BY <1>1, <1>3, <1>4, <2>1
<1>8. QED
  BY <1>1, <1>2, <1>3, <1>6, <1>7

\* The variable of the next assignment is in reach, and none nearer is declared.
LEMMA TargetReached ==
  ASSUME Inv, Top > 0, NEW sc \in Seq(Scope), Milder(scopes, sc)
  PROVE  /\ Target \in 1..Len(sc)
         /\ Reach(sc, Target, Len(sc))
         /\ \/ sc[Target].declared
            \/ Target = Len(sc)
               /\ \A t \in 1..Len(sc) : Reach(sc, t, Len(sc)) => ~sc[t].declared
         /\ \A t \in 1..Len(sc) : sc[t].declared /\ Reach(sc, t, Len(sc)) => t = Target
<1>1. Top \in Nat /\ Top = Len(scopes) /\ Len(sc) = Top
  BY LiveTypes DEF Milder
<1>2. \A t \in 1..Top : sc[t].hard = scopes[t].hard /\ sc[t].declared = scopes[t].declared
  BY <1>1 DEF Milder
<1>3. \A t \in 1..Top : Reach(sc, t, Top) <=> Reach(scopes, t, Top)
  BY <1>1, <1>2 DEF Reach
<1>4. CASE Declaring = {}
  <2>1. Target = Top
    BY <1>4 DEF Target
  <2>2. \A t \in 1..Top : Reach(scopes, t, Top) => ~scopes[t].declared
    BY <1>4, HomeOnly
  <2>3. Reach(sc, Top, Top)
    BY <1>1 DEF Reach
  <2>4. QED
    BY <1>1, <1>2, <1>3, <2>1, <2>2, <2>3
<1>5. CASE Declaring # {}
  <2>1. Target = Home
    BY <1>5 DEF Target
  <2>2. Home \in 1..Top /\ scopes[Home].declared /\ Home \in Accessible
    BY <1>1, <1>5, HomeDeclares DEF Inv, Declaring
  <2>3. Reach(scopes, Home, Top)
    BY <1>1, <2>2 DEF Reach, Accessible
  <2>4. \A t \in 1..Top : scopes[t].declared /\ Reach(scopes, t, Top) => t = Home
    BY HomeOnly
  <2>5. QED
    BY <1>1, <1>2, <1>3, <2>1, <2>2, <2>3, <2>4
<1>6. QED
  BY <1>4, <1>5

-----------------------------------------------------------------------------
(* What a read and an assignment do. *)

\* What a mention of x in a block lets it see.
Captured(X) == IF Declaring # {} /\ Home # Top THEN X \union flow.plain ELSE X

\* What an assignment and a read add to what has been seen.
LEMMA SeesPlain ==
  ASSUME TypeOK
  PROVE  /\ \A sn \in Seen : /\ SeesWritten(sn).plain = sn.plain
                             /\ SeesWritten(sn).captured = Captured(sn.captured)
         /\ Declaring # {} => /\ Sees.plain = seen.plain \union flow.plain
                              /\ Sees.captured = Captured(seen.captured)
<1>1. ASSUME NEW sn \in Seen
      PROVE  /\ SeesWritten(sn).plain = sn.plain
             /\ SeesWritten(sn).captured = Captured(sn.captured)
  <2>1. CASE Declaring = {}
    BY <2>1 DEF SeesWritten, Captured
  <2>2. CASE Declaring # {}
    <3>1. SeesWritten(sn) =
            [sn EXCEPT !.captured = IF Home # Top THEN @ \union flow.plain ELSE @,
                       !.later = IF Home # Top \/ scopes[Home].captured
                                 THEN @ \union {pos} ELSE @]
      BY <2>2 DEF SeesWritten
    <3>2. SeesWritten(sn).plain = sn.plain
          /\ SeesWritten(sn).captured =
               IF Home # Top THEN sn.captured \union flow.plain ELSE sn.captured
      BY <3>1, <1>1 DEF Seen
    <3>3. QED
      BY <2>2, <3>2 DEF Captured
  <2>3. QED
    BY <2>1, <2>2
<1>2. ASSUME Declaring # {}
      PROVE  /\ Sees.plain = seen.plain \union flow.plain
             /\ Sees.captured = Captured(seen.captured)
  BY <1>2 DEF TypeOK, Sees, Captured
<1>3. QED
  BY <1>1, <1>2

\* An assignment, on path p.
LEMMA AssignsAlive ==
  ASSUME Inv, Top > 0, NEW sc \in Seq(Scope), Milder(scopes, sc),
         NEW sn, \A x \in sn.plain \union sn.captured : x \in Nat,
         Alive(sc, open, path, pos, reported, sn, flow.plain),
         NEW p \in Seq(Context), NEW modifier \in BOOLEAN,
         Contexts(path) \subseteq Contexts(p),
         \A c \in Contexts(p) : c \in Contexts(path) \/ c.parent = pos,
         NEW Y, Y \subseteq flow.plain,
         Target = Len(sc) => Spares(sc, Target, p, modifier, Y, path),
         NEW sn2, sn2.plain = sn.plain, sn2.captured = Captured(sn.captured)
  PROVE  /\ Alive(Assigned(sc, p, modifier), open, path, pos + 1, reported, sn2,
                  Y \union {pos})
         /\ Assigned(sc, p, modifier) # <<>>
<1> DEFINE sc2 == Assigned(sc, p, modifier)
<1>1. /\ scopes \in Seq(Scope) /\ open \in Seq(Frame) /\ path \in Seq(Context)
      /\ pos \in Nat /\ pos \notin reported /\ Len(sc) \in Nat
      /\ \A x \in flow.plain : x \in Nat
  BY LiveTypes DEF Milder
<1>2. Extends(sc)
  BY MilderIsSafe
<1>3. Target \in 1..Len(sc) /\ sc2 \in Seq(Scope) /\ Adds(sc, sc2, Target, pos, p, modifier)
  BY <1>2, AssignedAdds
<1>4. /\ Reach(sc, Target, Len(sc))
      /\ \/ sc[Target].declared
         \/ Target = Len(sc)
            /\ \A t \in 1..Len(sc) : Reach(sc, t, Len(sc)) => ~sc[t].declared
      /\ \A t \in 1..Len(sc) : sc[t].declared /\ Reach(sc, t, Len(sc)) => t = Target
  BY TargetReached
<1> HIDE DEF sc2
<1>5. Assigned(sc, p, modifier) # <<>>
  BY <1>1, <1>3 DEF Adds, sc2
<1>6. \A x \in sn.plain \union sn.captured \union flow.plain : x \in Nat
  BY <1>1
<1>7. ASSUME NEW Z, Z \subseteq flow.plain,
             Target = Len(sc) => Spares(sc, Target, p, modifier, Z, path)
      PROVE  Alive(sc2, open, path, pos + 1, reported, sn, Z \union {pos})
  BY <1>1, <1>3, <1>4, <1>6, <1>7, AddAlive
<1>8. CASE ~(Declaring # {} /\ Home # Top)
  <2>1. Alive(sc2, open, path, pos + 1, reported, sn, Y \union {pos})
    BY <1>7
  <2>2. sn2.captured = sn.captured
    BY <1>8 DEF Captured
  <2>3. Unreported(sn2.plain \union sn2.captured, pos + 1, reported)
    BY <2>1, <2>2 DEF Alive, SeenOK
  <2>4. sn2.plain \ sn.plain = {} /\ sn2.captured \ sn.captured = {}
    BY <2>2
  <2>5. QED
    BY <1>5, <2>1, <2>3, <2>4, AliveSeen DEF sc2
<1>9. CASE Declaring # {} /\ Home # Top
  <2>1. Target # Len(sc)
    BY <1>9, <1>2 DEF Target, Extends, Top
  <2>2. Alive(sc2, open, path, pos + 1, reported, sn, flow.plain \union {pos})
    BY <1>7, <2>1
  <2>3. sn2.captured = sn.captured \union flow.plain
    BY <1>9 DEF Captured
  <2>4. Unreported(sn2.plain \union sn2.captured, pos + 1, reported)
    BY <2>2, <2>3 DEF Alive, SeenOK, Unreported
  <2>5. ASSUME NEW s \in 1..Len(sc2), NEW j \in DOMAIN sc2[s].writes,
               sc2[s].writes[j].at \in flow.plain
        PROVE  sc2[s].captured /\ ~sc2[s].writes[j].reassigned
    <3>1. ~sc2[s].writes[j].reassigned
      BY <2>2, <2>5 DEF Alive, Carried
    <3>2. Len(sc2) = Len(sc)
      BY <1>3 DEF Adds
    <3>3. s = Target
      <4>1. SUFFICES ASSUME s # Target PROVE FALSE
        OBVIOUS
      <4>2. sc2[s] = sc[s] /\ s \in 1..Len(sc)
        BY <1>3, <3>2, <4>1 DEF Adds
      <4>3. sc[s].declared
        BY <4>2, <2>5 DEF Alive, WritesOK
      <4>4. Reach(sc, s, Len(sc))
        BY <4>2, <2>5 DEF Alive, Carried
      <4>5. QED
        BY <1>4, <4>1, <4>2, <4>3, <4>4
    <3>4. sc2[Target].captured
      BY <1>3, <2>1 DEF Adds
    <3>5. QED
      BY <3>1, <3>3, <3>4
  <2>6. sn2.plain \ sn.plain = {} /\ sn2.captured \ sn.captured \subseteq flow.plain
    BY <2>3
  <2>7. Alive(sc2, open, path, pos + 1, reported, sn2, flow.plain \union {pos})
    <3>1. \A s \in 1..Len(sc2) : \A j \in DOMAIN sc2[s].writes :
            /\ sc2[s].writes[j].at \in sn2.plain \ sn.plain =>
                 \/ sc2[s].writes[j].referenced
                 \/ sc2[s].captured /\ ~sc2[s].writes[j].reassigned
            /\ sc2[s].writes[j].at \in sn2.captured \ sn.captured =>
                 sc2[s].captured /\ ~sc2[s].writes[j].reassigned
      BY <2>5, <2>6
    <3>2. QED
      BY <2>2, <2>4, <3>1, AliveSeen
  <2>8. QED
    BY <1>5, <2>7, AliveLess DEF sc2
<1>10. QED
  BY <1>8, <1>9

\* A read: what x may be is marked, or captured.
LEMMA ReadAlive ==
  ASSUME Inv, LiveInv, Declaring # {}, Top > 0
  PROVE  Alive(Referenced, open, path, pos, reported, Sees, flow.plain)
<1>1. /\ scopes \in Seq(Scope) /\ open \in Seq(Frame) /\ path \in Seq(Context)
      /\ pos \in Nat /\ Top = Len(scopes) /\ Top \in Nat
  BY LiveTypes
<1>2. scopes # <<>> /\ Alive(scopes, open, path, pos, reported, seen, flow.plain)
  BY <1>1 DEF LiveInv
<1>3. /\ Referenced \in Seq(Scope) /\ Milder(scopes, Referenced)
      /\ Home # Top => Referenced[Home].captured
      /\ \A j \in DOMAIN scopes[Home].writes :
           Reaches(scopes[Home].writes, Home, Relevant(path, Home), j)
             => Referenced[Home].writes[j].referenced
  BY ReferencedIsMilder
<1>4. Alive(Referenced, open, path, pos, reported, seen, flow.plain)
  BY <1>1, <1>2, <1>3, AliveMilder
<1>5. Sees.plain = seen.plain \union flow.plain /\ Sees.captured = Captured(seen.captured)
  BY SeesPlain DEF Inv
<1>6. Unreported(Sees.plain \union Sees.captured, pos, reported)
  BY <1>2, <1>5 DEF Alive, SeenOK, Unreported, Captured
<1>7. ASSUME NEW s \in 1..Len(Referenced), NEW j \in DOMAIN Referenced[s].writes,
             Referenced[s].writes[j].at \in flow.plain
      PROVE  /\ s = Home
             /\ ~Referenced[s].writes[j].reassigned
             /\ Referenced[s].writes[j].referenced \/ Referenced[s].captured
  <2>1. /\ s \in 1..Len(scopes) /\ j \in DOMAIN scopes[s].writes
        /\ scopes[s].writes[j].at = Referenced[s].writes[j].at
        /\ scopes[s].writes[j].reassigned = Referenced[s].writes[j].reassigned
        /\ scopes[s].writes[j].referenced => Referenced[s].writes[j].referenced
        /\ scopes[s].captured => Referenced[s].captured
    BY <1>3, <1>7 DEF Milder
  <2>2. /\ Reach(scopes, s, Top) /\ ~scopes[s].writes[j].reassigned
        /\ ~scopes[s].captured /\ s = Top => Live(scopes[s].writes, s, j, path)
    BY <1>1, <1>2, <1>7, <2>1 DEF Alive, Carried
  <2>3. scopes[s].declared
    BY <1>2, <2>1 DEF Alive, WritesOK
  <2>4. s = Home
    BY <1>1, <2>1, <2>2, <2>3, HomeOnly
  <2>5. CASE Home # Top
    BY <1>3, <2>1, <2>2, <2>4, <2>5
  <2>6. CASE scopes[s].captured
    BY <2>1, <2>2, <2>4, <2>6
  <2>7. CASE Home = Top /\ ~scopes[s].captured
    <3>1. Live(scopes[s].writes, s, j, path)
      BY <2>2, <2>4, <2>7
    <3>2. CASE scopes[s].writes[j].referenced
      BY <2>1, <2>2, <2>4, <3>2
    <3>3. CASE ~scopes[s].writes[j].referenced
      <4>1. scopes[s].writes \in Seq(Assignment) /\ s \in Nat
        BY <1>1, <2>1, WriteTypes
      <4>2. Reaches(scopes[s].writes, s, Relevant(path, s), j)
        BY <1>1, <2>1, <3>1, <3>3, <4>1, LiveIsReached
      <4>3. Referenced[s].writes[j].referenced
        BY <1>3, <2>1, <2>4, <4>2
      <4>4. QED
        BY <2>1, <2>2, <2>4, <4>3
    <3>4. QED
      BY <3>2, <3>3
  <2>8. QED
    BY <2>5, <2>6, <2>7
<1>8. ASSUME NEW s \in 1..Len(Referenced), NEW j \in DOMAIN Referenced[s].writes
      PROVE  /\ Referenced[s].writes[j].at \in Sees.plain \ seen.plain =>
                  \/ Referenced[s].writes[j].referenced
                  \/ Referenced[s].captured /\ ~Referenced[s].writes[j].reassigned
             /\ Referenced[s].writes[j].at \in Sees.captured \ seen.captured =>
                  Referenced[s].captured /\ ~Referenced[s].writes[j].reassigned
  <2>1. Referenced[s].writes[j].at \in Sees.plain \ seen.plain
          => Referenced[s].writes[j].at \in flow.plain
    BY <1>5
  <2>2. Referenced[s].writes[j].at \in Sees.captured \ seen.captured
          => Referenced[s].writes[j].at \in flow.plain /\ Home # Top
    BY <1>5 DEF Captured
  <2>3. QED
    BY <1>3, <1>7, <2>1, <2>2
<1>9. QED
  BY <1>4, <1>6, <1>8, AliveSeen

-----------------------------------------------------------------------------
(* One lemma per node, once more. *)

\* The walk is somewhere.
LEMMA Arrives ==
  ASSUME scopes' # <<>>, Alive(scopes', open', path', pos', reported', seen', flow'.plain)
  PROVE  LiveInv'
  BY DEF LiveInv, Alive

\* Where it is.
LEMMA Stands ==
  ASSUME Inv, LiveInv, Top > 0
  PROVE  /\ scopes # <<>> /\ Alive(scopes, open, path, pos, reported, seen, flow.plain)
         /\ \A i \in DOMAIN open : open[i].at < pos
         /\ \A d \in Contexts(path) : d.parent < pos
         /\ \A s \in 1..Len(scopes) : \A j \in DOMAIN scopes[s].writes :
              /\ scopes[s].writes[j].at < pos /\ scopes[s].writes[j].at # pos
              /\ \A d \in Contexts(scopes[s].writes[j].path) : d.parent < pos
<1>1. /\ scopes \in Seq(Scope) /\ open \in Seq(Frame) /\ path \in Seq(Context)
      /\ pos \in Nat /\ Top = Len(scopes)
  BY LiveTypes
<1>2. scopes # <<>>
  BY <1>1
<1>3. Alive(scopes, open, path, pos, reported, seen, flow.plain)
  BY <1>2 DEF LiveInv
<1>4. QED
  BY <1>1, <1>2, <1>3, AllBefore

\* The walk goes on behind a node.
LEMMA Passing ==
  ASSUME Inv, Inv', NEW f, Passed(f), UNCHANGED <<path, reported>>, scopes' # <<>>,
         Alive(scopes', open, path, pos + 1, reported, seen', f.plain)
  PROVE  LiveInv'
<1>1. open' = Raising(f) /\ pos' = pos + 1 /\ flow' = f
  BY DEF Passed
<1>2. open \in Seq(Frame) /\ open' \in Seq(Frame)
  BY DEF Inv, TypeOK
<1>3. DOMAIN open' = DOMAIN open /\ \A i \in DOMAIN open : SameFrame(open[i], open'[i])
  BY <1>1, <1>2, RaisingSame
<1>4. Len(open') = Len(open)
  BY <1>2, <1>3
<1>5. Alive(scopes', open', path, pos + 1, reported, seen', f.plain)
  BY <1>2, <1>3, <1>4, SameFrames
<1>6. QED
  BY <1>1, <1>5, Arrives

\* x = v
LEMMA WriteLives ==
  ASSUME Inv, LiveInv, Inv', Write
  PROVE  LiveInv'
<1>1. Top > 0 /\ Passed(Written)
  BY DEF Write, Passed
<1>2. /\ scopes \in Seq(Scope) /\ path \in Seq(Context) /\ TypeOK /\ seen \in Seen
      /\ \A x \in seen.plain \union seen.captured : x \in Nat
  BY LiveTypes DEF Inv, TypeOK, Seen
<1>3. Milder(scopes, scopes)
  BY DEF Milder
<1>4. Alive(scopes, open, path, pos, reported, seen, flow.plain)
  BY <1>1, Stands
<1> DEFINE none == flow.plain \ flow.plain
<1>5. Spares(scopes, Target, path, FALSE, none, path) /\ none \subseteq flow.plain
  BY DEF Spares
<1>6. /\ seen'.plain = seen.plain
      /\ seen'.captured = Captured(seen.captured)
  BY <1>2, WroteTypes, SeesPlain DEF Write
<1>7. scopes' = Assigned(scopes, path, FALSE) /\ UNCHANGED <<path, reported>>
  BY DEF Write
<1>8. Alive(scopes', open, path, pos + 1, reported, seen', none \union {pos}) /\ scopes' # <<>>
  <2> HIDE DEF none
  <2>1. QED
    BY <1>1, <1>2, <1>3, <1>4, <1>5, <1>6, <1>7, AssignsAlive
<1>9. Written.plain = none \union {pos}
  BY DEF Written
<1>10. QED
  BY <1>1, <1>7, <1>8, <1>9, Passing

\* x = v if c
LEMMA WriteModifiedLives ==
  ASSUME Inv, LiveInv, Inv', WriteModified
  PROVE  LiveInv'
<1>1. Top > 0 /\ Passed(Join(flow, Written))
  BY DEF WriteModified, Passed
<1>2. /\ scopes \in Seq(Scope) /\ path \in Seq(Context) /\ TypeOK /\ seen \in Seen
      /\ pos \in Nat /\ Top = Len(scopes) /\ Top \in Nat
      /\ \A x \in seen.plain \union seen.captured : x \in Nat
  BY LiveTypes DEF Inv, TypeOK, Seen
<1>3. Milder(scopes, scopes)
  BY DEF Milder
<1>4. /\ Alive(scopes, open, path, pos, reported, seen, flow.plain)
      /\ \A s \in 1..Len(scopes) : \A j \in DOMAIN scopes[s].writes :
           \A d \in Contexts(scopes[s].writes[j].path) : d.parent < pos
  BY <1>1, Stands
<1> DEFINE c == Branch(pos, 0, FALSE, TRUE)
           p == Append(path, c)
<1>5. /\ c.parent = pos /\ c.scope = Len(scopes) /\ p \in Seq(Context)
      /\ Contexts(p) = Contexts(path) \union {c}
  <2>1. c \in Context /\ c.parent = pos /\ c.scope = Len(scopes)
    BY <1>2 DEF Branch, Context
  <2> HIDE DEF c
  <2>2. QED
    BY <1>2, <2>1, ContextsOf
<1>6. scopes' = Assigned(scopes, p, TRUE) /\ UNCHANGED <<path, reported>>
  BY DEF WriteModified
<1> HIDE DEF c, p
<1>7. ASSUME Target = Len(scopes)
      PROVE  Spares(scopes, Target, p, TRUE, flow.plain, path)
  <2>1. ASSUME NEW j \in DOMAIN scopes[Target].writes
        PROVE  c \in Contexts(p) /\ c.scope >= Target
               /\ c \notin Contexts(scopes[Target].writes[j].path)
    <3>1. Target \in 1..Len(scopes)
      BY <1>1, <1>2, <1>7
    <3>2. QED
      BY <1>2, <1>4, <1>5, <1>7, <3>1
  <2>2. QED
    BY <2>1 DEF Spares
<1>8. /\ seen'.plain = seen.plain
      /\ seen'.captured = Captured(seen.captured)
  BY <1>2, SeesPlain DEF WriteModified
<1>9. Alive(scopes', open, path, pos + 1, reported, seen', flow.plain \union {pos})
      /\ scopes' # <<>>
  BY <1>1, <1>2, <1>3, <1>4, <1>5, <1>6, <1>7, <1>8, AssignsAlive
<1>10. Join(flow, Written).plain = flow.plain \union {pos}
  BY DEF Written, Join
<1>11. QED
  BY <1>1, <1>6, <1>9, <1>10, Passing

\* A read.
LEMMA ReadLives ==
  ASSUME Inv, LiveInv, Inv', Read
  PROVE  LiveInv'
<1>1. Top > 0 /\ Passed(flow) /\ Declaring # {} /\ UNCHANGED <<path, reported>>
      /\ scopes' = Referenced /\ seen' = Sees
  BY DEF Read, Passed
<1>2. /\ open \in Seq(Frame) /\ path \in Seq(Context) /\ pos \in Nat /\ Top = Len(scopes)
      /\ scopes \in Seq(Scope) /\ \A x \in flow.plain : x \in Nat
  BY LiveTypes
<1>3. Referenced \in Seq(Scope) /\ Len(Referenced) = Len(scopes)
  BY <1>1, ReferencedIsMilder DEF Milder
<1>4. Alive(Referenced, open, path, pos, reported, Sees, flow.plain)
  BY <1>1, ReadAlive
<1>5. \A x \in flow.plain \union Sees.plain \union Sees.captured : x \in Nat
  BY <1>2, SeesTypes DEF Seen, Inv
<1>6. Alive(Referenced, open, path, pos + 1, reported, Sees, flow.plain)
  BY <1>2, <1>3, <1>4, <1>5, AliveOn
<1>7. scopes' # <<>>
  BY <1>1, <1>2, <1>3
<1>8. QED
  BY <1>1, <1>6, <1>7, Passing

\* x ||= v
LEMMA WriteShortLives ==
  ASSUME Inv, LiveInv, Inv', WriteShort
  PROVE  LiveInv'
<1>1. Top > 0 /\ Passed(Join(flow, Written)) /\ Declaring # {} /\ UNCHANGED <<path, reported>>
      /\ scopes' = Assigned(Referenced, path, FALSE) /\ seen' = SeesWritten(Wrote(Sees))
  BY DEF WriteShort, Passed
<1>2. path \in Seq(Context)
  BY LiveTypes
<1>3. Referenced \in Seq(Scope) /\ Milder(scopes, Referenced)
  BY <1>1, ReferencedIsMilder
<1>4. Alive(Referenced, open, path, pos, reported, Sees, flow.plain)
  BY <1>1, ReadAlive
<1>5. /\ Sees \in Seen /\ TypeOK
      /\ \A x \in Sees.plain \union Sees.captured : x \in Nat
  BY SeesTypes DEF Seen, Inv
<1>6. seen'.plain = Sees.plain /\ seen'.captured = Captured(Sees.captured)
  BY <1>1, <1>5, WroteTypes, SeesPlain
<1>7. flow.plain \subseteq Sees.plain
  BY <1>1, <1>5, SeesPlain
<1>8. ASSUME Target = Len(Referenced)
      PROVE  Spares(Referenced, Target, path, FALSE, flow.plain, path)
  <2>1. Target \in 1..Len(Referenced)
    BY <1>1, <1>3, TargetReached
  <2>2. SeenOK(Referenced, pos, reported, Sees)
    BY <1>4 DEF Alive
  <2>3. ASSUME NEW j \in DOMAIN Referenced[Target].writes,
               Referenced[Target].writes[j].at \in flow.plain, ~Referenced[Target].captured
        PROVE  Referenced[Target].writes[j].referenced
    BY <1>7, <2>1, <2>2, <2>3 DEF SeenOK
  <2>4. QED
    BY <2>3 DEF Spares
<1>9. Alive(scopes', open, path, pos + 1, reported, seen', flow.plain \union {pos})
      /\ scopes' # <<>>
  BY <1>1, <1>2, <1>3, <1>4, <1>5, <1>6, <1>8, AssignsAlive
<1>10. Join(flow, Written).plain = flow.plain \union {pos}
  BY DEF Written, Join
<1>11. QED
  BY <1>1, <1>9, <1>10, Passing

\* Where x is no variable, no value of it is in the flow.
LEMMA NothingFlows ==
  ASSUME Inv, LiveInv, Declaring = {}, Top > 0,
         NEW s \in 1..Len(scopes), NEW j \in DOMAIN scopes[s].writes
  PROVE  scopes[s].writes[j].at \notin flow.plain
<1>1. Alive(scopes, open, path, pos, reported, seen, flow.plain) /\ Top = Len(scopes)
  BY Stands DEF Top
<1>2. SUFFICES ASSUME scopes[s].writes[j].at \in flow.plain PROVE FALSE
  OBVIOUS
<1>3. scopes[s].declared /\ Reach(scopes, s, Top)
  BY <1>1, <1>2 DEF Alive, WritesOK, Carried
<1>4. QED
  BY <1>1, <1>3, HomeOnly

\* x ||= v, the first mention of x.
LEMMA FirstShortLives ==
  ASSUME Inv, LiveInv, Inv', FirstShort
  PROVE  LiveInv'
<1>1. Top > 0 /\ Passed(Join(flow, Written)) /\ Declaring = {} /\ UNCHANGED <<path, reported>>
      /\ scopes' = Assigned(FirstReferenced, path, FALSE)
      /\ seen' = SeesWritten(Wrote(FirstSees))
  BY DEF FirstShort, Passed
<1>2. /\ scopes \in Seq(Scope) /\ open \in Seq(Frame) /\ path \in Seq(Context) /\ pos \in Nat
      /\ TypeOK /\ Top = Len(scopes) /\ Top \in Nat
      /\ scopes # <<>> /\ Alive(scopes, open, path, pos, reported, seen, flow.plain)
  BY <1>1, LiveTypes, Stands DEF Inv
<1>3. FirstReferenced \in Seq(Scope) /\ Milder(scopes, FirstReferenced)
  BY <1>1, FirstIsMilder
<1>4. /\ FirstSees \in Seen /\ FirstSees.plain = seen.plain \union flow.plain
      /\ FirstSees.captured = seen.captured /\ SeesWritten(Wrote(FirstSees)) = Wrote(FirstSees)
  BY <1>1, <1>2, FirstSeesTypes
<1>5. \A x \in FirstSees.plain \union FirstSees.captured : x \in Nat
  BY <1>4 DEF Seen
<1>6. ASSUME NEW s \in 1..Len(FirstReferenced), NEW j \in DOMAIN FirstReferenced[s].writes
      PROVE  FirstReferenced[s].writes[j].at \notin flow.plain
  <2>1. /\ s \in 1..Len(scopes) /\ j \in DOMAIN scopes[s].writes
        /\ FirstReferenced[s].writes[j].at = scopes[s].writes[j].at
    BY <1>3 DEF Milder
  <2>2. QED
    BY <1>1, <2>1, NothingFlows
<1>7. Alive(FirstReferenced, open, path, pos, reported, FirstSees, flow.plain)
  <2>1. Alive(FirstReferenced, open, path, pos, reported, seen, flow.plain)
    BY <1>2, <1>3, AliveMilder
  <2>2. Unreported(FirstSees.plain \union FirstSees.captured, pos, reported)
    BY <1>2, <1>4 DEF Alive, SeenOK, Unreported
  <2>3. FirstSees.plain \ seen.plain \subseteq flow.plain /\ FirstSees.captured \ seen.captured = {}
    BY <1>4
  <2>4. QED
    BY <1>6, <2>1, <2>2, <2>3, AliveSeen
<1>8. seen'.plain = FirstSees.plain /\ seen'.captured = Captured(FirstSees.captured)
  BY <1>1, <1>2, <1>4, WroteTypes, SeesPlain
<1>9. ASSUME Target = Len(FirstReferenced)
      PROVE  Spares(FirstReferenced, Target, path, FALSE, flow.plain, path)
  <2>1. Target \in 1..Len(FirstReferenced)
    BY <1>1, <1>3, TargetReached
  <2>2. QED
    BY <1>6, <2>1 DEF Spares
<1>10. Alive(scopes', open, path, pos + 1, reported, seen', flow.plain \union {pos})
       /\ scopes' # <<>>
  BY <1>1, <1>2, <1>3, <1>5, <1>7, <1>8, <1>9, AssignsAlive
<1>11. Join(flow, Written).plain = flow.plain \union {pos}
  BY DEF Written, Join
<1>12. QED
  BY <1>1, <1>10, <1>11, Passing

\* The walk enters a construct with no scope of its own, with branch c of it or none.
LEMMA EntersPart ==
  ASSUME Inv, Inv', LiveInv, NEW kind \in Kinds, NEW p2 \in Seq(Context),
         NEW before \in Flow, NEW f \in Flow, Enters(kind, p2, before, f),
         UNCHANGED reported, kind \notin Scoping \union {"body"}, scopes' # <<>>,
         Len(scopes') = Len(scopes),
         NEW X, Alive(scopes', open, path, pos + 1, reported, seen', X),
         \A s \in 1..Len(scopes') : \A j \in DOMAIN scopes'[s].writes :
           \A d \in Contexts(scopes'[s].writes[j].path) : d.parent < pos,
         \/ pos \in X
         \/ \A s \in 1..Len(scopes') : \A j \in DOMAIN scopes'[s].writes :
              scopes'[s].writes[j].at # pos,
         before.plain \subseteq X, f.plain \subseteq X \union {pos},
         NEW c \in Context, c.parent = pos, c.scope = Len(scopes),
         c.child = IF kind = "logic" THEN 1 ELSE 0, kind = "begin" => c.jumps,
         Contexts(p2) = IF kind \in Straight THEN Contexts(path) ELSE Contexts(path) \union {c}
  PROVE  LiveInv'
<1> DEFINE fr == [kind |-> kind, at |-> pos, arm |-> 0, scope |-> Top, path |-> path,
                  entry |-> before, out |-> NoFlow, thrown |-> NoFlow, end |-> before]
<1>1. /\ open \in Seq(Frame) /\ path \in Seq(Context)
      /\ pos \in Nat /\ pos \notin reported /\ Top = Len(scopes) /\ Top \in Nat
  BY LiveTypes
<1>2. scopes' \in Seq(Scope)
  BY DEF Inv, TypeOK
<1>3. /\ Top > 0 /\ pos' = pos + 1 /\ path' = p2 /\ flow' = f /\ open' = Append(open, fr)
  BY DEF Enters
<1>4. /\ \A i \in DOMAIN open : open[i].at < pos
      /\ \A d \in Contexts(path) : d.parent < pos
  BY <1>3, Stands
<1>5. /\ fr.kind = kind /\ fr.at = pos /\ fr.arm = 0 /\ fr.scope = Top /\ fr.path = path
      /\ fr.entry = before /\ fr.out = NoFlow /\ fr.thrown = NoFlow
  OBVIOUS
<1>6. NoFlow \in Flow /\ NoFlow.plain = {}
  BY DEF NoFlow, Flow
<1>7. fr \in Frame
  BY <1>1, <1>6 DEF Frame
<1> HIDE DEF fr
<1>8. Saved(fr) \subseteq X
  BY <1>5, <1>6 DEF Saved
<1>9. Child(fr) = c.child
  BY <1>5 DEF Child
<1>10. Entering(Len(scopes'), path, pos, fr, p2, c)
  BY <1>1, <1>4, <1>5, <1>9 DEF Entering
<1>11. fr.kind \notin Scoping
  BY <1>5
<1>12. Alive(scopes', Append(open, fr), p2, pos + 1, reported, seen', f.plain)
  BY <1>1, <1>2, <1>4, <1>7, <1>8, <1>10, <1>11, EnterAlive
<1>13. QED
  BY <1>3, <1>12, Arrives

\* With nothing assigned in front of it.
LEMMA EntersQuietly ==
  ASSUME Inv, Inv', LiveInv, NEW kind \in Kinds, NEW p2 \in Seq(Context),
         NEW f \in Flow, Enters(kind, p2, flow, f),
         UNCHANGED <<scopes, reported, seen>>, kind \notin Scoping \union {"body"},
         f.plain \subseteq flow.plain \union {pos},
         NEW c \in Context, c.parent = pos, c.scope = Len(scopes),
         c.child = IF kind = "logic" THEN 1 ELSE 0, kind = "begin" => c.jumps,
         Contexts(p2) = IF kind \in Straight THEN Contexts(path) ELSE Contexts(path) \union {c}
  PROVE  LiveInv'
<1>1. /\ open \in Seq(Frame) /\ path \in Seq(Context) /\ scopes \in Seq(Scope)
      /\ pos \in Nat /\ flow \in Flow
      /\ \A x \in flow.plain \union seen.plain \union seen.captured : x \in Nat
  BY LiveTypes
<1>2. /\ scopes # <<>> /\ Alive(scopes, open, path, pos, reported, seen, flow.plain)
      /\ \A s \in 1..Len(scopes) : \A j \in DOMAIN scopes[s].writes :
           /\ scopes[s].writes[j].at # pos
           /\ \A d \in Contexts(scopes[s].writes[j].path) : d.parent < pos
  BY Stands DEF Enters
<1>3. Alive(scopes, open, path, pos + 1, reported, seen, flow.plain)
  BY <1>1, <1>2, AliveOn
<1>4. scopes' = scopes /\ seen' = seen
  OBVIOUS
<1>5. /\ scopes' # <<>> /\ Len(scopes') = Len(scopes)
      /\ Alive(scopes', open, path, pos + 1, reported, seen', flow.plain)
      /\ \A s \in 1..Len(scopes') : \A j \in DOMAIN scopes'[s].writes :
           \A d \in Contexts(scopes'[s].writes[j].path) : d.parent < pos
      /\ \A s \in 1..Len(scopes') : \A j \in DOMAIN scopes'[s].writes :
           scopes'[s].writes[j].at # pos
  BY <1>2, <1>3, <1>4
<1>6. QED
  BY <1>1, <1>5, EntersPart

\* if, unless and case.
LEMMA CondLives ==
  ASSUME Inv, LiveInv, Inv', Cond
  PROVE  LiveInv'
<1> DEFINE c == Branch(pos, 0, FALSE, TRUE)
<1>1. pos \in Nat /\ Top = Len(scopes) /\ Top \in Nat /\ path \in Seq(Context) /\ flow \in Flow
  BY LiveTypes
<1>2. c \in Context /\ c.parent = pos /\ c.child = 0 /\ c.scope = Len(scopes)
  BY <1>1 DEF Branch, Context
<1>3. Enters("cond", Append(path, c), flow, flow) /\ UNCHANGED <<scopes, reported, seen>>
  BY DEF Cond
<1> HIDE DEF c
<1>4. Append(path, c) \in Seq(Context) /\ Contexts(Append(path, c)) = Contexts(path) \union {c}
  BY <1>1, <1>2, ContextsOf
<1>5. "cond" \in Kinds /\ "cond" \notin Scoping \union {"body"} /\ "cond" \notin Straight
  BY DEF Kinds, Scoping, Straight
<1>6. QED
  BY <1>1, <1>2, <1>3, <1>4, <1>5, EntersQuietly

\* && and ||.
LEMMA LogicLives ==
  ASSUME Inv, LiveInv, Inv', Logic
  PROVE  LiveInv'
<1> DEFINE c == Branch(pos, 1, FALSE, FALSE)
<1>1. pos \in Nat /\ Top = Len(scopes) /\ Top \in Nat /\ path \in Seq(Context) /\ flow \in Flow
  BY LiveTypes
<1>2. c \in Context /\ c.parent = pos /\ c.child = 1 /\ c.scope = Len(scopes)
  BY <1>1 DEF Branch, Context
<1>3. Enters("logic", Append(path, c), flow, flow) /\ UNCHANGED <<scopes, reported, seen>>
  BY DEF Logic
<1> HIDE DEF c
<1>4. Append(path, c) \in Seq(Context) /\ Contexts(Append(path, c)) = Contexts(path) \union {c}
  BY <1>1, <1>2, ContextsOf
<1>5. "logic" \in Kinds /\ "logic" \notin Scoping \union {"body"} /\ "logic" \notin Straight
  BY DEF Kinds, Scoping, Straight
<1>6. QED
  BY <1>1, <1>2, <1>3, <1>4, <1>5, EntersQuietly

\* while and until.
LEMMA WhileLives ==
  ASSUME Inv, LiveInv, Inv', While
  PROVE  LiveInv'
<1> DEFINE c == Branch(pos, 0, FALSE, FALSE)
<1>1. pos \in Nat /\ Top = Len(scopes) /\ Top \in Nat /\ path \in Seq(Context) /\ flow \in Flow
  BY LiveTypes
<1>2. c \in Context /\ c.parent = pos /\ c.child = 0 /\ c.scope = Len(scopes)
  BY <1>1 DEF Branch, Context
<1>3. Enters("while", path, flow, Looping) /\ UNCHANGED <<scopes, reported, seen>>
  BY DEF While
<1> HIDE DEF c
<1>4. Looping \in Flow /\ Looping.plain = flow.plain \union {pos}
  BY <1>1, FlowTypes, JoinType DEF Looping, Join, Written
<1>5. "while" \in Kinds /\ "while" \notin Scoping \union {"body"} /\ "while" \in Straight
  BY DEF Kinds, Scoping, Straight
<1>6. QED
  BY <1>1, <1>2, <1>3, <1>4, <1>5, EntersQuietly

\* begin .. end while.
LEMMA PostLives ==
  ASSUME Inv, LiveInv, Inv', Post
  PROVE  LiveInv'
<1> DEFINE c == Branch(pos, 0, FALSE, FALSE)
<1>1. pos \in Nat /\ Top = Len(scopes) /\ Top \in Nat /\ path \in Seq(Context) /\ flow \in Flow
  BY LiveTypes
<1>2. c \in Context /\ c.parent = pos /\ c.child = 0 /\ c.scope = Len(scopes)
  BY <1>1 DEF Branch, Context
<1>3. Enters("post", Append(path, c), flow, Looping) /\ UNCHANGED <<scopes, reported, seen>>
  BY DEF Post
<1> HIDE DEF c
<1>4. Append(path, c) \in Seq(Context) /\ Contexts(Append(path, c)) = Contexts(path) \union {c}
  BY <1>1, <1>2, ContextsOf
<1>5. Looping \in Flow /\ Looping.plain = flow.plain \union {pos}
  BY <1>1, FlowTypes, JoinType DEF Looping, Join, Written
<1>6. "post" \in Kinds /\ "post" \notin Scoping \union {"body"} /\ "post" \notin Straight
  BY DEF Kinds, Scoping, Straight
<1>7. QED
  BY <1>1, <1>2, <1>3, <1>4, <1>5, <1>6, EntersQuietly

\* begin .. rescue.
LEMMA BeginLives ==
  ASSUME Inv, LiveInv, Inv', Begin
  PROVE  LiveInv'
<1> DEFINE c == Branch(pos, 0, TRUE, TRUE)
<1>1. pos \in Nat /\ Top = Len(scopes) /\ Top \in Nat /\ path \in Seq(Context) /\ flow \in Flow
  BY LiveTypes
<1>2. c \in Context /\ c.parent = pos /\ c.child = 0 /\ c.scope = Len(scopes) /\ c.jumps
  BY <1>1 DEF Branch, Context
<1>3. Enters("begin", Append(path, c), flow, flow) /\ UNCHANGED <<scopes, reported, seen>>
  BY DEF Begin
<1> HIDE DEF c
<1>4. Append(path, c) \in Seq(Context) /\ Contexts(Append(path, c)) = Contexts(path) \union {c}
  BY <1>1, <1>2, ContextsOf
<1>5. "begin" \in Kinds /\ "begin" \notin Scoping \union {"body"} /\ "begin" \notin Straight
  BY DEF Kinds, Scoping, Straight
<1>6. QED
  BY <1>1, <1>2, <1>3, <1>4, <1>5, EntersQuietly

\* begin .. ensure.
LEMMA EnsuredLives ==
  ASSUME Inv, LiveInv, Inv', Ensured
  PROVE  LiveInv'
<1> DEFINE c == Branch(pos, 0, TRUE, FALSE)
<1>1. pos \in Nat /\ Top = Len(scopes) /\ Top \in Nat /\ path \in Seq(Context) /\ flow \in Flow
  BY LiveTypes
<1>2. c \in Context /\ c.parent = pos /\ c.child = 0 /\ c.scope = Len(scopes)
  BY <1>1 DEF Branch, Context
<1>3. Enters("ensured", Append(path, c), flow, flow) /\ UNCHANGED <<scopes, reported, seen>>
  BY DEF Ensured
<1> HIDE DEF c
<1>4. Append(path, c) \in Seq(Context) /\ Contexts(Append(path, c)) = Contexts(path) \union {c}
  BY <1>1, <1>2, ContextsOf
<1>5. "ensured" \in Kinds /\ "ensured" \notin Scoping \union {"body"} /\ "ensured" \notin Straight
  BY DEF Kinds, Scoping, Straight
<1>6. QED
  BY <1>1, <1>2, <1>3, <1>4, <1>5, EntersQuietly

\* body if (x = v)
LEMMA CondModifiedLives ==
  ASSUME Inv, LiveInv, Inv', CondModified
  PROVE  LiveInv'
<1> DEFINE c == Branch(pos, 0, FALSE, TRUE)
           none == flow.plain \ flow.plain
<1>1. /\ pos \in Nat /\ Top = Len(scopes) /\ Top \in Nat /\ path \in Seq(Context)
      /\ scopes \in Seq(Scope) /\ TypeOK /\ seen \in Seen
      /\ \A x \in seen.plain \union seen.captured : x \in Nat
  BY LiveTypes DEF Inv, TypeOK, Seen
<1>2. c \in Context /\ c.parent = pos /\ c.child = 0 /\ c.scope = Len(scopes)
  BY <1>1 DEF Branch, Context
<1>3. /\ Enters("modifier", Append(path, c), Written, Written)
      /\ scopes' = Assigned(scopes, path, TRUE) /\ UNCHANGED reported
      /\ seen' = SeesWritten(Wrote(seen))
  BY DEF CondModified
<1>4. Top > 0
  BY <1>3 DEF Enters
<1>5. none \subseteq flow.plain /\ Spares(scopes, Target, path, TRUE, none, path)
  BY DEF Spares
<1> HIDE DEF c, none
<1>6. Append(path, c) \in Seq(Context) /\ Contexts(Append(path, c)) = Contexts(path) \union {c}
  BY <1>1, <1>2, ContextsOf
<1>7. /\ Alive(scopes, open, path, pos, reported, seen, flow.plain)
      /\ \A d \in Contexts(path) : d.parent < pos
      /\ \A s \in 1..Len(scopes) : \A j \in DOMAIN scopes[s].writes :
           \A d \in Contexts(scopes[s].writes[j].path) : d.parent < pos
  BY <1>4, Stands
<1>8. Milder(scopes, scopes) /\ Extends(scopes)
  BY <1>1 DEF Milder, Extends
<1>9. seen'.plain = seen.plain /\ seen'.captured = Captured(seen.captured)
  BY <1>1, <1>3, WroteTypes, SeesPlain
<1>10. Alive(scopes', open, path, pos + 1, reported, seen', none \union {pos}) /\ scopes' # <<>>
  BY <1>1, <1>3, <1>4, <1>5, <1>7, <1>8, <1>9, AssignsAlive
<1>11. /\ Target \in 1..Len(scopes) /\ scopes' \in Seq(Scope)
       /\ Adds(scopes, scopes', Target, pos, path, TRUE)
  BY <1>1, <1>3, <1>4, <1>8, AssignedAdds
<1>12. ASSUME NEW s \in 1..Len(scopes'), NEW j \in DOMAIN scopes'[s].writes,
              NEW d \in Contexts(scopes'[s].writes[j].path)
       PROVE  d.parent < pos
  <2>1. s \in 1..Len(scopes)
    BY <1>11 DEF Adds
  <2>2. CASE s # Target
    BY <1>7, <1>11, <1>12, <2>1, <2>2 DEF Adds
  <2>3. CASE s = Target
    <3>1. /\ DOMAIN scopes'[s].writes = 1..Len(scopes[s].writes) + 1
          /\ Len(scopes[s].writes) \in Nat
          /\ DOMAIN scopes[s].writes = 1..Len(scopes[s].writes)
      BY <1>1, <1>11, <2>1, <2>3, WriteTypes DEF Adds
    <3>2. CASE j = Len(scopes[s].writes) + 1
      BY <1>7, <1>11, <1>12, <2>3, <3>2 DEF Adds
    <3>3. CASE j # Len(scopes[s].writes) + 1
      <4>1. j \in 1..Len(scopes[s].writes)
        BY <3>1, <3>3
      <4>2. scopes'[s].writes[j].path = scopes[s].writes[j].path
        BY <1>11, <2>3, <4>1 DEF Adds
      <4>3. QED
        BY <1>7, <1>12, <2>1, <3>1, <4>1, <4>2
    <3>4. QED
      BY <3>2, <3>3
  <2>4. QED
    BY <2>2, <2>3
<1>13. Written \in Flow /\ Written.plain = {pos}
  BY <1>1, FlowTypes DEF Written
<1>14. /\ "modifier" \in Kinds /\ "modifier" \notin Scoping \union {"body"}
       /\ "modifier" \notin Straight
  BY DEF Kinds, Scoping, Straight
<1>15. Len(scopes') = Len(scopes)
  BY <1>11 DEF Adds
<1>16. pos \in none \union {pos} /\ Written.plain \subseteq none \union {pos}
       /\ Written.plain \subseteq (none \union {pos}) \union {pos}
  BY <1>13
<1>17. QED
  BY <1>2, <1>3, <1>6, <1>10, <1>12, <1>13, <1>14, <1>15, <1>16, EntersPart

\* What is known where the walk is inside of a construct.
LEMMA WhereInside ==
  ASSUME Inv, LiveInv, open # <<>>
  PROVE  /\ scopes # <<>> /\ scopes \in Seq(Scope) /\ open \in Seq(Frame)
         /\ path \in Seq(Context) /\ pos \in Nat /\ Top = Len(scopes) /\ Top \in Nat
         /\ flow \in Flow /\ Last \in Frame /\ Last.path \in Seq(Context)
         /\ Last.at \in Nat /\ Last.arm \in Nat
         /\ Last.entry \in Flow /\ Last.out \in Flow /\ Last.thrown \in Flow
         /\ Alive(scopes, open, path, pos, reported, seen, flow.plain)
         /\ Agree(Last, path) /\ Aside(scopes, Last)
         /\ \A d \in Contexts(Last.path) : d.parent # Last.at
         /\ \A s \in 1..Len(scopes) : \A j \in DOMAIN scopes[s].writes :
              Agree(Last, scopes[s].writes[j].path)
<1>1. /\ scopes \in Seq(Scope) /\ open \in Seq(Frame)
      /\ path \in Seq(Context) /\ pos \in Nat /\ Top = Len(scopes) /\ Top \in Nat
      /\ flow \in Flow
  BY LiveTypes
<1>2. scopes # <<>> /\ Alive(scopes, open, path, pos, reported, seen, flow.plain)
  BY DEF LiveInv
<1>3. Len(open) \in DOMAIN open /\ Last = open[Len(open)]
  BY <1>1 DEF Last
<1>4. /\ Last \in Frame /\ Last.path \in Seq(Context)
      /\ Last.at \in Nat /\ Last.arm \in Nat
      /\ Last.entry \in Flow /\ Last.out \in Flow /\ Last.thrown \in Flow
  <2>1. Last \in Frame
    BY <1>1, <1>3
  <2>2. QED
    BY <2>1 DEF Frame
<1>5. Agree(Last, path)
  BY <1>2, <1>3 DEF Alive, PathsOK, PathOK
<1>6. Aside(scopes, Last)
  BY <1>2, <1>3 DEF Alive, SavedOK
<1>7. \A d \in Contexts(Last.path) : d.parent # Last.at
  <2>1. PathOK(open, Last.path, Last.at)
    BY <1>2, <1>3 DEF Alive, PathsOK
  <2>2. \A d \in Contexts(Last.path) : d.parent < Last.at
    BY <2>1 DEF PathOK
  <2>3. QED
    BY <1>4, <2>2
<1>8. \A s \in 1..Len(scopes) : \A j \in DOMAIN scopes[s].writes :
        Agree(Last, scopes[s].writes[j].path)
  BY <1>2, <1>3 DEF Alive, WritesOK
<1>9. QED
  BY <1>1, <1>2, <1>4, <1>5, <1>6, <1>7, <1>8

\* The walk turns to a part of the construct that is no branch.
LEMMA TurnsStraight ==
  ASSUME Inv, LiveInv, Inv', open # <<>>, Last.kind \notin Scoping,
         NEW fr \in Frame, NEW f, Turns(fr, Last.path, f), UNCHANGED <<scopes, reported, seen>>,
         fr.at = Last.at, fr.scope = Last.scope, fr.path = Last.path,
         fr.kind \in {"test", "ensure"}, Child(fr) >= Child(Last),
         f.plain \subseteq Saved(Last) \union flow.plain
  PROVE  LiveInv'
<1>1. /\ scopes # <<>> /\ scopes \in Seq(Scope) /\ open \in Seq(Frame)
      /\ path \in Seq(Context) /\ pos \in Nat /\ Last.path \in Seq(Context)
      /\ Alive(scopes, open, path, pos, reported, seen, flow.plain)
      /\ \A d \in Contexts(Last.path) : d.parent # Last.at
  BY WhereInside
<1>2. fr.kind \notin {"while", "begin"} \union Scoping /\ fr.kind \in Straight
      /\ Saved(fr) = {}
  BY DEF Scoping, Straight, Saved
<1>3. Aside(scopes, fr) /\ Saved(fr) \subseteq Saved(Last) \union flow.plain
  BY <1>2 DEF Aside
<1>4. Last = open[Len(open)]
  BY DEF Last
<1>5. Alive(scopes, [open EXCEPT ![Len(open)] = fr], Last.path, pos, reported, seen, f.plain)
  BY <1>1, <1>2, <1>3, <1>4, TurnAlive
<1>6. /\ scopes' = scopes /\ reported' = reported /\ seen' = seen /\ pos' = pos
      /\ open' = [open EXCEPT ![Len(open)] = fr] /\ path' = Last.path /\ flow' = f
  BY DEF Turns
<1>7. QED
  BY <1>1, <1>5, <1>6, Arrives

\* It turns to the next branch of it, from none that it can come from without a jump.
LEMMA TurnsOn ==
  ASSUME Inv, LiveInv, Inv', open # <<>>, Last.kind \in {"cond", "begin", "rescue"},
         NEW fr \in Frame, NEW f, NEW c \in Context, Turns(fr, Append(Last.path, c), f),
         UNCHANGED <<scopes, reported, seen>>,
         fr.at = Last.at, fr.scope = Last.scope, fr.path = Last.path,
         fr.kind \in {"cond", "rescue", "else"}, fr.arm = Last.arm + 1,
         c.parent = Last.at, c.child = fr.arm, c.scope = Top,
         Saved(fr) \subseteq Saved(Last) \union flow.plain,
         f.plain \subseteq Saved(Last) \union flow.plain,
         Last.kind = "begin" \/ Sibling(fr) \union f.plain \subseteq Sibling(Last)
  PROVE  LiveInv'
<1>1. /\ scopes # <<>> /\ scopes \in Seq(Scope) /\ open \in Seq(Frame)
      /\ path \in Seq(Context) /\ pos \in Nat /\ Last.path \in Seq(Context)
      /\ Top = Len(scopes) /\ Last.arm \in Nat
      /\ Alive(scopes, open, path, pos, reported, seen, flow.plain)
      /\ Aside(scopes, Last)
      /\ \A d \in Contexts(Last.path) : d.parent # Last.at
      /\ \A s \in 1..Len(scopes) : \A j \in DOMAIN scopes[s].writes :
           Agree(Last, scopes[s].writes[j].path)
  BY WhereInside
<1>2. /\ fr.kind \notin {"while", "begin"} \union Scoping /\ fr.kind \notin Straight
      /\ Last.kind \notin Scoping
      /\ Child(fr) = Last.arm + 1 /\ Child(Last) = Last.arm
  BY DEF Scoping, Straight, Child
<1>3. Sibling(Last) \subseteq Saved(Last)
  BY DEF Sibling, Saved
<1>4. ASSUME NEW s \in 1..Len(scopes), NEW j \in DOMAIN scopes[s].writes,
             NEW d \in Contexts(scopes[s].writes[j].path), d.parent = Last.at
      PROVE  /\ d.child < Child(fr)
             /\ scopes[s].writes[j].at \in Sibling(fr) \union f.plain => d.jumps
  <2>1. d.child <= Child(Last) /\ (Last.kind = "begin" => d.jumps)
    BY <1>1, <1>4 DEF Agree
  <2>2. d.child \in Nat
    <3>1. Contexts(scopes[s].writes[j].path) \subseteq Context
      BY <1>1, WriteTypes
    <3>2. d \in Context
      BY <3>1
    <3>3. QED
      BY ONLY <3>2 DEF Context
  <2>3. d.child < Child(fr)
    BY <1>1, <1>2, <2>1, <2>2
  <2>4. ASSUME scopes[s].writes[j].at \in Sibling(fr) \union f.plain, Last.kind # "begin"
        PROVE  d.jumps
    <3>1. scopes[s].writes[j].at \in Sibling(Last)
      BY <2>4
    <3>2. QED
      BY <1>1, <1>3, <1>4, <3>1 DEF Aside
  <2>5. QED
    BY <2>1, <2>3, <2>4
<1>5. Aside(scopes, fr)
  BY <1>4 DEF Aside
<1>6. /\ Append(Last.path, c) \in Seq(Context)
      /\ Contexts(Append(Last.path, c)) = Contexts(Last.path) \union {c}
  BY <1>1, ContextsOf
<1>7. Last = open[Len(open)]
  BY DEF Last
<1>8. \A s \in 1..Len(scopes) : \A j \in DOMAIN scopes[s].writes :
        \A d \in Contexts(scopes[s].writes[j].path) : d.parent = fr.at =>
          d.child < Child(fr) /\ (scopes[s].writes[j].at \in f.plain => d.jumps)
  BY <1>4
<1>9. Child(fr) >= Child(Last) /\ c.child = Child(fr)
  BY <1>1, <1>2
<1>10. Alive(scopes, [open EXCEPT ![Len(open)] = fr], Append(Last.path, c), pos, reported,
             seen, f.plain)
  <2> DEFINE last == Last
             p2 == Append(Last.path, c)
             X == flow.plain
             Y == f.plain
  <2>1. IF fr.kind \in Straight THEN Contexts(p2) = Contexts(last.path)
        ELSE /\ Contexts(p2) = Contexts(last.path) \union {c}
             /\ c.parent = fr.at /\ c.child = Child(fr) /\ c.scope = Len(scopes)
    BY <1>1, <1>2, <1>6, <1>9
  <2>2. /\ scopes \in Seq(Scope) /\ open \in Seq(Frame) /\ path \in Seq(Context) /\ pos \in Nat
        /\ Alive(scopes, open, path, pos, reported, seen, X) /\ open # <<>>
        /\ last = open[Len(open)] /\ last.kind \notin Scoping /\ last.path \in Seq(Context)
        /\ fr \in Frame /\ fr.at = last.at /\ fr.scope = last.scope /\ fr.path = last.path
        /\ fr.kind \notin {"while", "begin"} \union Scoping /\ Child(fr) >= Child(last)
        /\ p2 \in Seq(Context) /\ Aside(scopes, fr)
        /\ Saved(fr) \subseteq Saved(last) \union X /\ Y \subseteq Saved(last) \union X
        /\ \A d \in Contexts(last.path) : d.parent # fr.at
    BY <1>1, <1>2, <1>5, <1>6, <1>7, <1>9
  <2>3. fr.kind \notin Straight =>
          \A s \in 1..Len(scopes) : \A j \in DOMAIN scopes[s].writes :
            \A d \in Contexts(scopes[s].writes[j].path) : d.parent = fr.at =>
              d.child < Child(fr) /\ (scopes[s].writes[j].at \in Y => d.jumps)
    BY <1>8
  <2> HIDE DEF last, p2, X, Y
  <2>4. Alive(scopes, [open EXCEPT ![Len(open)] = fr], p2, pos, reported, seen, Y)
    BY ONLY <2>1, <2>2, <2>3, TurnAlive
  <2>5. QED
    BY <2>4 DEF p2, Y
<1>11. /\ scopes' = scopes /\ reported' = reported /\ seen' = seen /\ pos' = pos
       /\ open' = [open EXCEPT ![Len(open)] = fr] /\ path' = Append(Last.path, c) /\ flow' = f
  BY DEF Turns
<1>12. QED
  BY <1>1, <1>10, <1>11, Arrives

\* The walk leaves the construct.
LEMMA LeavesLive ==
  ASSUME Inv, LiveInv, Inv', open # <<>>, Last.kind \notin Scoping,
         NEW f, Leaves(f), UNCHANGED reported, Milder(scopes, scopes'),
         seen'.plain = seen.plain, seen'.captured = seen.captured,
         f.plain \subseteq Saved(Last) \union flow.plain
  PROVE  LiveInv'
<1>1. /\ scopes # <<>> /\ scopes \in Seq(Scope) /\ open \in Seq(Frame)
      /\ path \in Seq(Context) /\ pos \in Nat
      /\ Alive(scopes, open, path, pos, reported, seen, flow.plain)
  BY WhereInside
<1>2. scopes' \in Seq(Scope) /\ Len(scopes') = Len(scopes)
  BY DEF Inv, TypeOK, Milder
<1>3. Alive(scopes', open, path, pos, reported, seen, flow.plain)
  BY <1>1, <1>2, AliveMilder
<1>4. Last = open[Len(open)]
  BY DEF Last
<1>5. Alive(scopes', SubSeq(open, 1, Len(open) - 1), Last.path, pos, reported, seen, f.plain)
  BY <1>1, <1>2, <1>3, <1>4, LeaveAlive
<1>6. Unreported(seen'.plain \union seen'.captured, pos, reported)
  BY <1>3 DEF Alive, SeenOK
<1>7. seen'.plain \ seen.plain = {} /\ seen'.captured \ seen.captured = {}
  OBVIOUS
<1>8. Alive(scopes', SubSeq(open, 1, Len(open) - 1), Last.path, pos, reported, seen', f.plain)
  BY <1>5, <1>6, <1>7, AliveSeen
<1>9. /\ reported' = reported /\ pos' = pos
      /\ open' = SubSeq(open, 1, Len(open) - 1) /\ path' = Last.path /\ flow' = f
  BY DEF Leaves
<1>10. scopes' # <<>>
  BY <1>1, <1>2
<1>11. QED
  BY <1>8, <1>9, <1>10, Arrives

\* The next arm of a conditional.
LEMMA ArmLives ==
  ASSUME Inv, LiveInv, Inv', Arm
  PROVE  LiveInv'
<1> DEFINE fr == [Last EXCEPT !.arm = @ + 1, !.out = Join(@, flow)]
           c == Branch(Last.at, Last.arm + 1, FALSE, TRUE)
<1>1. open # <<>> /\ Last.kind = "cond"
  BY DEF Arm, Inside
<1>2. /\ Last \in Frame /\ Last.at \in Nat /\ Last.arm \in Nat /\ Top \in Nat
      /\ Last.out \in Flow /\ flow \in Flow
  BY <1>1, WhereInside
<1>3. Join(Last.out, flow) \in Flow
        /\ Join(Last.out, flow).plain = Last.out.plain \union flow.plain
  BY <1>2, JoinType DEF Join
<1>4. /\ fr \in Frame /\ fr.kind = "cond" /\ fr.arm = Last.arm + 1
      /\ fr.at = Last.at /\ fr.scope = Last.scope /\ fr.path = Last.path
      /\ fr.entry = Last.entry /\ fr.thrown = Last.thrown
      /\ fr.out = Join(Last.out, flow)
  <2>1. Last.arm + 1 \in Nat
    BY <1>2
  <2>2. fr \in Frame
    BY <1>2, <1>3, <2>1 DEF Frame
  <2>3. fr.kind = "cond" /\ fr.arm = Last.arm + 1
    BY <1>1, <1>2 DEF Frame
  <2>4. fr.at = Last.at /\ fr.scope = Last.scope /\ fr.path = Last.path
    BY <1>2 DEF Frame
  <2>5. /\ fr.entry = Last.entry /\ fr.thrown = Last.thrown
        /\ fr.out = Join(Last.out, flow)
    BY <1>2 DEF Frame
  <2>6. QED
    BY <2>2, <2>3, <2>4, <2>5
<1>5. c \in Context /\ c.parent = Last.at /\ c.child = Last.arm + 1 /\ c.scope = Top
  BY <1>2 DEF Branch, Context
<1>6. Turns(fr, Append(Last.path, c), Last.entry) /\ UNCHANGED <<scopes, reported, seen>>
  BY DEF Arm
<1> HIDE DEF fr, c
<1>7. Saved(fr) \subseteq Saved(Last) \union flow.plain
  BY <1>1, <1>3, <1>4 DEF Saved
<1>8. Sibling(fr) = Sibling(Last) /\ Last.entry.plain \subseteq Sibling(Last)
      /\ Last.entry.plain \subseteq Saved(Last)
  BY <1>1, <1>4 DEF Sibling, Saved
<1>9. QED
  BY <1>1, <1>4, <1>5, <1>6, <1>7, <1>8, TurnsOn

\* The else clause of a begin.
LEMMA ElseLives ==
  ASSUME Inv, LiveInv, Inv', Else
  PROVE  LiveInv'
<1> DEFINE fr == [Last EXCEPT !.kind = "else", !.arm = @ + 1, !.out = Join(@, flow)]
           c == Branch(Last.at, Last.arm + 1, FALSE, TRUE)
<1>1. open # <<>> /\ Last.kind = "rescue"
  BY DEF Else, Inside
<1>2. /\ Last \in Frame /\ Last.at \in Nat /\ Last.arm \in Nat /\ Top \in Nat
      /\ Last.out \in Flow /\ flow \in Flow
  BY <1>1, WhereInside
<1>3. Join(Last.out, flow) \in Flow
        /\ Join(Last.out, flow).plain = Last.out.plain \union flow.plain
  BY <1>2, JoinType DEF Join
<1>4. /\ fr \in Frame /\ fr.kind = "else" /\ fr.arm = Last.arm + 1
      /\ fr.at = Last.at /\ fr.scope = Last.scope /\ fr.path = Last.path
      /\ fr.entry = Last.entry /\ fr.thrown = Last.thrown
      /\ fr.out = Join(Last.out, flow)
  <2>1. Last.arm + 1 \in Nat
    BY <1>2
  <2>2. fr \in Frame
    BY <1>2, <1>3, <2>1 DEF Frame, Kinds
  <2>3. fr.kind = "else" /\ fr.arm = Last.arm + 1
    BY <1>1, <1>2 DEF Frame
  <2>4. fr.at = Last.at /\ fr.scope = Last.scope /\ fr.path = Last.path
    BY <1>2 DEF Frame
  <2>5. /\ fr.entry = Last.entry /\ fr.thrown = Last.thrown
        /\ fr.out = Join(Last.out, flow)
    BY <1>2 DEF Frame
  <2>6. QED
    BY <2>2, <2>3, <2>4, <2>5
<1>5. c \in Context /\ c.parent = Last.at /\ c.child = Last.arm + 1 /\ c.scope = Top
  BY <1>2 DEF Branch, Context
<1>6. Turns(fr, Append(Last.path, c), Last.entry) /\ UNCHANGED <<scopes, reported, seen>>
  BY DEF Else
<1> HIDE DEF fr, c
<1>7. Saved(fr) \subseteq Saved(Last) \union flow.plain
  BY <1>1, <1>3, <1>4 DEF Saved
<1>8. Sibling(fr) = {} /\ Last.entry.plain \subseteq Sibling(Last)
      /\ Last.entry.plain \subseteq Saved(Last)
  BY <1>1, <1>4 DEF Sibling, Saved
<1>9. QED
  BY <1>1, <1>4, <1>5, <1>6, <1>7, <1>8, TurnsOn

\* A rescue clause.
LEMMA RescueLives ==
  ASSUME Inv, LiveInv, Inv', Rescue
  PROVE  LiveInv'
<1> DEFINE first == Last.kind = "begin"
           thrown == IF first
                     THEN [plain |-> Last.entry.plain, raised |-> Unwinding]
                     ELSE Last.thrown
           entry == IF first THEN flow ELSE Last.entry
           out == IF first THEN Last.out ELSE Join(Last.out, flow)
           fr == [Last EXCEPT !.kind = "rescue", !.arm = @ + 1, !.thrown = thrown,
                              !.entry = entry, !.out = out]
           c == Branch(Last.at, Last.arm + 1, FALSE, TRUE)
<1>1. open # <<>> /\ Last.kind \in {"begin", "rescue"}
  BY DEF Rescue, Inside
<1>2. /\ Last \in Frame /\ Last.at \in Nat /\ Last.arm \in Nat /\ Top \in Nat
      /\ Last.out \in Flow /\ flow \in Flow /\ Last.entry \in Flow /\ Last.thrown \in Flow
      /\ Last.end \in Flow
  BY <1>1, WhereInside DEF Frame
<1>3. Join(Last.out, flow) \in Flow
        /\ Join(Last.out, flow).plain = Last.out.plain \union flow.plain
  BY <1>2, JoinType DEF Join
<1>4. [plain |-> Last.entry.plain, raised |-> Unwinding] \in Flow
  BY <1>2 DEF Flow, Unwinding
<1>5. /\ thrown \in Flow /\ entry \in Flow /\ out \in Flow
      /\ thrown.plain = IF first THEN Last.entry.plain ELSE Last.thrown.plain
      /\ entry.plain = IF first THEN flow.plain ELSE Last.entry.plain
      /\ out.plain \subseteq Last.out.plain \union flow.plain
  BY <1>2, <1>3, <1>4
<1>6. c \in Context /\ c.parent = Last.at /\ c.child = Last.arm + 1 /\ c.scope = Top
  BY <1>2 DEF Branch, Context
<1>7. Turns(fr, Append(Last.path, c), thrown) /\ UNCHANGED <<scopes, reported, seen>>
  BY DEF Rescue
<1> HIDE DEF thrown, entry, out, c
<1>8. /\ fr \in Frame /\ fr.kind = "rescue" /\ fr.arm = Last.arm + 1
      /\ fr.at = Last.at /\ fr.scope = Last.scope /\ fr.path = Last.path
      /\ fr.entry = entry /\ fr.thrown = thrown /\ fr.out = out
  <2>1. Last.arm + 1 \in Nat
    BY <1>2
  <2>2. fr \in Frame
    BY <1>2, <1>5, <2>1 DEF Frame, Kinds
  <2>3. fr.kind = "rescue" /\ fr.arm = Last.arm + 1
    BY <1>2 DEF Frame
  <2>4. fr.at = Last.at /\ fr.scope = Last.scope /\ fr.path = Last.path
    BY <1>2 DEF Frame
  <2>5. fr.entry = entry /\ fr.thrown = thrown /\ fr.out = out
    BY <1>2 DEF Frame
  <2>6. QED
    BY <2>2, <2>3, <2>4, <2>5
<1> HIDE DEF fr
<1>9. Saved(Last) = Last.entry.plain \union Last.out.plain \union Last.thrown.plain
  BY <1>1 DEF Saved
<1>10. Saved(fr) \subseteq Saved(Last) \union flow.plain
  BY <1>5, <1>8, <1>9 DEF Saved
<1>11. thrown.plain \subseteq Saved(Last) \union flow.plain
  BY <1>5, <1>9
<1>12. Last.kind = "begin" \/ Sibling(fr) \union thrown.plain \subseteq Sibling(Last)
  BY <1>1, <1>5, <1>8 DEF Sibling
<1>13. Last.kind \in {"cond", "begin", "rescue"} /\ fr.kind \in {"cond", "rescue", "else"}
  BY <1>1, <1>8
<1>14. QED
  BY <1>1, <1>6, <1>7, <1>8, <1>10, <1>11, <1>12, <1>13, TurnsOn

\* The body of a loop: nothing is on a branch of it yet.
LEMMA BodyLives ==
  ASSUME Inv, LiveInv, Inv', Body
  PROVE  LiveInv'
<1> DEFINE fr == [Last EXCEPT !.kind = "body", !.out = flow]
           c == Branch(Last.at, 0, FALSE, FALSE)
<1>1. open # <<>> /\ Last.kind = "while"
  BY DEF Body, Inside
<1>2. /\ scopes # <<>> /\ scopes \in Seq(Scope) /\ open \in Seq(Frame)
      /\ path \in Seq(Context) /\ pos \in Nat /\ Top = Len(scopes) /\ Top \in Nat
      /\ Last \in Frame /\ Last.at \in Nat /\ Last.arm \in Nat /\ flow \in Flow
      /\ Alive(scopes, open, path, pos, reported, seen, flow.plain)
      /\ Agree(Last, path)
      /\ \A s \in 1..Len(scopes) : \A j \in DOMAIN scopes[s].writes :
           Agree(Last, scopes[s].writes[j].path)
  BY <1>1, WhereInside
<1>3. /\ fr \in Frame /\ fr.kind = "body" /\ fr.arm = Last.arm
      /\ fr.at = Last.at /\ fr.scope = Last.scope /\ fr.path = Last.path
      /\ fr.out = flow
  BY <1>1, <1>2 DEF Frame, Kinds
<1>4. c \in Context /\ c.parent = Last.at /\ c.child = 0 /\ c.scope = Len(scopes)
  BY <1>2 DEF Branch, Context
<1>5. Turns(fr, Append(path, c), flow) /\ UNCHANGED <<scopes, reported, seen>>
  BY DEF Body
<1> HIDE DEF fr, c
<1>6. Child(fr) = 0 /\ Child(Last) = 0
  BY <1>1, <1>3 DEF Child
<1>7. /\ Saved(fr) = flow.plain /\ Last.kind \notin Scoping
      /\ fr.kind \notin {"while", "begin"} \union Scoping /\ fr.kind \notin Straight
  BY <1>1, <1>3 DEF Saved, Scoping, Straight
<1>8. \A d \in Contexts(path) : d.parent # fr.at
  BY <1>1, <1>2, <1>3 DEF Agree
<1>9. \A s \in 1..Len(scopes) : \A j \in DOMAIN scopes[s].writes :
        \A d \in Contexts(scopes[s].writes[j].path) : d.parent # fr.at
  BY <1>1, <1>2, <1>3 DEF Agree
<1>10. Aside(scopes, fr)
  BY <1>9 DEF Aside
<1>11. /\ Append(path, c) \in Seq(Context)
       /\ Contexts(Append(path, c)) = Contexts(path) \union {c}
  BY <1>2, <1>4, ContextsOf
<1>12. Alive(scopes, [open EXCEPT ![Len(open)] = fr], Append(path, c), pos, reported, seen,
             flow.plain)
  <2> DEFINE last == Last
             p2 == Append(path, c)
             X == flow.plain
  <2>1. IF fr.kind \in Straight THEN Contexts(p2) = Contexts(path)
        ELSE /\ Contexts(p2) = Contexts(path) \union {c}
             /\ c.parent = fr.at /\ c.child = Child(fr) /\ c.scope = Len(scopes)
    BY <1>3, <1>4, <1>6, <1>7, <1>11
  <2>2. /\ scopes \in Seq(Scope) /\ open \in Seq(Frame) /\ path \in Seq(Context) /\ pos \in Nat
        /\ Alive(scopes, open, path, pos, reported, seen, X) /\ open # <<>>
        /\ last = open[Len(open)] /\ last.kind \notin Scoping
        /\ fr \in Frame /\ fr.at = last.at /\ fr.scope = last.scope /\ fr.path = last.path
        /\ fr.kind \notin {"while", "begin"} \union Scoping /\ Child(fr) >= Child(last)
        /\ p2 \in Seq(Context) /\ Aside(scopes, fr)
        /\ Saved(fr) \subseteq Saved(last) \union X /\ X \subseteq Saved(last) \union X
        /\ X \subseteq X
        /\ \A d \in Contexts(path) : d.parent # fr.at
    BY <1>1, <1>2, <1>3, <1>6, <1>7, <1>8, <1>10, <1>11 DEF Last
  <2>3. fr.kind \notin Straight =>
          \A s \in 1..Len(scopes) : \A j \in DOMAIN scopes[s].writes :
            \A d \in Contexts(scopes[s].writes[j].path) : d.parent = fr.at =>
              d.child < Child(fr) /\ (scopes[s].writes[j].at \in X => d.jumps)
    BY <1>9
  <2> HIDE DEF last, p2, X
  <2>4. Alive(scopes, [open EXCEPT ![Len(open)] = fr], p2, pos, reported, seen, X)
    BY ONLY <2>1, <2>2, <2>3, TurnAlive
  <2>5. QED
    BY <2>4 DEF p2, X
<1>13. /\ scopes' = scopes /\ reported' = reported /\ seen' = seen /\ pos' = pos
       /\ open' = [open EXCEPT ![Len(open)] = fr] /\ path' = Append(path, c) /\ flow' = flow
  BY <1>5 DEF Turns
<1>14. QED
  BY <1>2, <1>12, <1>13, Arrives

\* The condition after the body.
LEMMA TestLives ==
  ASSUME Inv, LiveInv, Inv', Test
  PROVE  LiveInv'
<1> DEFINE fr == [Last EXCEPT !.kind = "test"]
<1>1. open # <<>> /\ Last.kind = "post"
  BY DEF Test, Inside
<1>2. Last \in Frame /\ Last.arm \in Nat
  BY <1>1, WhereInside
<1>3. /\ fr \in Frame /\ fr.kind = "test" /\ fr.arm = Last.arm
      /\ fr.at = Last.at /\ fr.scope = Last.scope /\ fr.path = Last.path
  BY <1>1, <1>2 DEF Frame, Kinds
<1>4. Turns(fr, Last.path, flow) /\ UNCHANGED <<scopes, reported, seen>>
  BY DEF Test
<1> HIDE DEF fr
<1>5. Child(fr) >= Child(Last) /\ Last.kind \notin Scoping
  BY <1>1, <1>2, <1>3 DEF Child, Scoping
<1>6. QED
  BY <1>1, <1>3, <1>4, <1>5, TurnsStraight

\* An ensure clause.
LEMMA EnsureLives ==
  ASSUME Inv, LiveInv, Inv', Ensure
  PROVE  LiveInv'
<1> DEFINE f == IF Last.kind = "ensured" THEN flow ELSE Rescued
           fr == [Last EXCEPT !.kind = "ensure", !.entry = f]
           g == [f EXCEPT !.raised = @ \union Unwinding]
<1>1. open # <<>> /\ Last.kind \in {"ensured", "rescue", "else"}
  BY DEF Ensure, Inside
<1>2. /\ Last \in Frame /\ Last.arm \in Nat /\ flow \in Flow
      /\ Last.entry \in Flow /\ Last.out \in Flow
  BY <1>1, WhereInside
<1>3. /\ f \in Flow
      /\ f.plain = IF Last.kind = "ensured" THEN flow.plain
                   ELSE flow.plain \union Last.out.plain
                          \union (IF Last.kind = "rescue" THEN Last.entry.plain ELSE {})
  <2>1. Rescued \in Flow
    BY <1>2, JoinType DEF Rescued
  <2>2. Rescued.plain = flow.plain \union Last.out.plain
                          \union (IF Last.kind = "rescue" THEN Last.entry.plain ELSE {})
    BY <1>2 DEF Rescued, Join
  <2>3. QED
    BY <1>2, <2>1, <2>2
<1>4. Turns(fr, Last.path, g) /\ UNCHANGED <<scopes, reported, seen>>
  BY DEF Ensure
<1> HIDE DEF f
<1>5. /\ fr \in Frame /\ fr.kind = "ensure" /\ fr.arm = Last.arm
      /\ fr.at = Last.at /\ fr.scope = Last.scope /\ fr.path = Last.path
  BY <1>1, <1>2, <1>3 DEF Frame, Kinds
<1>6. g.plain = f.plain
  BY <1>3 DEF Flow
<1> HIDE DEF fr, g
<1>7. Child(fr) >= Child(Last) /\ Last.kind \notin Scoping
  BY <1>1, <1>2, <1>5 DEF Child, Scoping
<1>8. g.plain \subseteq Saved(Last) \union flow.plain
  BY <1>1, <1>3, <1>6 DEF Saved
<1>9. QED
  BY <1>1, <1>4, <1>5, <1>7, <1>8, TurnsStraight

\* Without a change, scopes are as mild as they were.
LEMMA SameIsMilder == ASSUME UNCHANGED scopes PROVE Milder(scopes, scopes')
  BY DEF Milder

\* The end of a conditional.
LEMMA EndCondLives ==
  ASSUME Inv, LiveInv, Inv', EndCond
  PROVE  LiveInv'
<1>1. open # <<>> /\ Last.kind \in {"cond", "modifier"} /\ UNCHANGED <<scopes, reported, seen>>
  BY DEF EndCond, Inside
<1>2. PICK f \in {Last.entry} \union (IF Last.arm > 0 THEN {NoFlow} ELSE {}) :
        Leaves(Join(f, Join(Last.out, flow)))
  BY DEF EndCond
<1>3. f.plain \subseteq Last.entry.plain
  BY <1>2 DEF NoFlow
<1>4. Join(f, Join(Last.out, flow)).plain =
        f.plain \union (Last.out.plain \union flow.plain)
  BY DEF Join
<1>5. Last.kind \notin Scoping
      /\ Saved(Last) = Last.entry.plain \union Last.out.plain \union Last.thrown.plain
  BY <1>1 DEF Scoping, Saved
<1>6. Join(f, Join(Last.out, flow)).plain \subseteq Saved(Last) \union flow.plain
  BY <1>3, <1>4, <1>5
<1>7. QED
  BY <1>1, <1>2, <1>5, <1>6, SameIsMilder, LeavesLive

\* The end of a short circuit.
LEMMA EndLogicLives ==
  ASSUME Inv, LiveInv, Inv', EndLogic
  PROVE  LiveInv'
<1>1. /\ open # <<>> /\ Last.kind = "logic" /\ UNCHANGED <<scopes, reported, seen>>
      /\ Leaves(Join(Last.entry, flow))
  BY DEF EndLogic, Inside
<1>2. Last.kind \notin Scoping
      /\ Join(Last.entry, flow).plain \subseteq Saved(Last) \union flow.plain
  BY <1>1 DEF Scoping, Saved, Join
<1>3. QED
  BY <1>1, <1>2, SameIsMilder, LeavesLive

\* The end of a begin.
LEMMA EndBeginLives ==
  ASSUME Inv, LiveInv, Inv', EndBegin
  PROVE  LiveInv'
<1>1. /\ open # <<>> /\ Last.kind \in {"rescue", "else"} /\ UNCHANGED <<scopes, reported, seen>>
      /\ Leaves(Rescued)
  BY DEF EndBegin, Inside
<1>2. Rescued.plain \subseteq flow.plain \union Last.out.plain \union Last.entry.plain
  BY <1>1 DEF Rescued, Join
<1>3. Last.kind \notin Scoping /\ Rescued.plain \subseteq Saved(Last) \union flow.plain
  BY <1>1, <1>2 DEF Scoping, Saved
<1>4. QED
  BY <1>1, <1>3, SameIsMilder, LeavesLive

\* The end of an ensure clause.
LEMMA EndEnsureLives ==
  ASSUME Inv, LiveInv, Inv', EndEnsure
  PROVE  LiveInv'
<1> DEFINE f == [flow EXCEPT !.raised = @ \ (Unwinding \ Last.entry.raised)]
<1>1. /\ open # <<>> /\ Last.kind = "ensure" /\ UNCHANGED <<scopes, reported, seen>>
      /\ Leaves(f)
  BY DEF EndEnsure, Inside
<1>2. f.plain = flow.plain
  BY <1>1, WhereInside DEF Flow
<1> HIDE DEF f
<1>3. Last.kind \notin Scoping
  BY <1>1 DEF Scoping
<1>4. QED
  BY <1>1, <1>2, <1>3, SameIsMilder, LeavesLive

\* Unrolling a loop adds what an earlier run of it left.
LEMMA UnrolledPlain ==
  ASSUME NEW f, NEW h, NEW g
  PROVE  Unrolled(f, h, g).plain \subseteq f.plain \union g.plain
<1> DEFINE out == [plain |-> f.plain \ {h}, raised |-> f.raised \ {h}]
           in == [plain |-> g.plain \ {h}, raised |-> g.raised \ {h}]
<1>1. CASE h \in f.plain
  BY <1>1 DEF Unrolled, Join
<1>2. CASE h \notin f.plain /\ h \in f.raised
  <2>1. Unrolled(f, h, g) = [out EXCEPT !.raised = @ \union in.plain \union in.raised]
    BY <1>2 DEF Unrolled
  <2>2. QED
    BY <2>1
<1>3. CASE h \notin f.plain /\ h \notin f.raised
  BY <1>3 DEF Unrolled
<1>4. QED
  BY <1>1, <1>2, <1>3

\* The end of a loop is seen by none that the engine follows.
LEMMA AroundPlain ==
  ASSUME TypeOK, NEW h, NEW g, NEW left
  PROVE  /\ Around(h, g, left).plain = seen.plain
         /\ Around(h, g, left).captured = seen.captured
  BY DEF Around, TypeOK

\* The end of a while loop.
LEMMA EndWhileLives ==
  ASSUME Inv, LiveInv, Inv', EndWhile
  PROVE  LiveInv'
<1> DEFINE f == Unrolled(Last.out, Last.at, flow)
<1>1. /\ open # <<>> /\ Last.kind = "body" /\ UNCHANGED reported
      /\ Leaves(f) /\ scopes' = LoopMarked(Last.at)
      /\ seen' = Around(Last.at, flow, Sequential(Last.at))
  BY DEF EndWhile, Inside
<1>2. f.plain \subseteq Last.out.plain \union flow.plain
  BY UnrolledPlain
<1> HIDE DEF f
<1>3. Last.kind \notin Scoping /\ Saved(Last) = Last.out.plain
  BY <1>1 DEF Scoping, Saved
<1>4. Last.at \in Nat
  BY <1>1, WhereInside
<1>5. Milder(scopes, scopes')
  BY <1>1, <1>4, LoopMarkedIsMilder
<1>6. seen'.plain = seen.plain /\ seen'.captured = seen.captured
  BY <1>1, AroundPlain DEF Inv
<1>7. QED
  BY <1>1, <1>2, <1>3, <1>5, <1>6, LeavesLive

\* The end of a post loop.
LEMMA EndPostLives ==
  ASSUME Inv, LiveInv, Inv', EndPost
  PROVE  LiveInv'
<1> DEFINE f == Unrolled(flow, Last.at, flow)
<1>1. /\ open # <<>> /\ Last.kind = "test" /\ UNCHANGED reported
      /\ Leaves(f) /\ scopes' = LoopMarked(Last.at)
      /\ seen' = Around(Last.at, flow, Sequential(Last.at))
  BY DEF EndPost, Inside
<1>2. f.plain \subseteq flow.plain \union flow.plain
  BY UnrolledPlain
<1> HIDE DEF f
<1>3. Last.kind \notin Scoping
  BY <1>1 DEF Scoping
<1>4. Last.at \in Nat
  BY <1>1, WhereInside
<1>5. Milder(scopes, scopes')
  BY <1>1, <1>4, LoopMarkedIsMilder
<1>6. seen'.plain = seen.plain /\ seen'.captured = seen.captured
  BY <1>1, AroundPlain DEF Inv
<1>7. QED
  BY <1>1, <1>2, <1>3, <1>5, <1>6, LeavesLive

\* A sequence with a length is not empty.
LEMMA NotEmpty == ASSUME NEW sq, Len(sq) # 0 PROVE sq # <<>>
<1>1. SUFFICES ASSUME sq = <<>> PROVE FALSE
  OBVIOUS
<1>2. Len(<<>>) = 0
  OBVIOUS
<1>3. QED
  BY <1>1, <1>2

\* The walk enters a construct with a scope of its own.
LEMMA EntersScope ==
  ASSUME Inv, LiveInv, Inv', NEW kind \in Kinds, kind \in Scoping,
         NEW p2 \in Seq(Context), Contexts(p2) \subseteq Contexts(path),
         NEW f, Enters(kind, p2, flow, f), NEW new \in Scope, scopes' = Append(scopes, new),
         new.writes = <<>>, ~new.declared, UNCHANGED <<reported, seen>>,
         kind = "block" => ~new.hard /\ Declaring # {},
         f.plain \subseteq (IF kind = "block" THEN flow.plain \union {pos} ELSE {})
  PROVE  LiveInv'
<1> DEFINE fr == [kind |-> kind, at |-> pos, arm |-> 0, scope |-> Top, path |-> path,
                  entry |-> flow, out |-> NoFlow, thrown |-> NoFlow, end |-> flow]
           c == Branch(pos, 0, FALSE, FALSE)
<1>1. /\ open \in Seq(Frame) /\ path \in Seq(Context) /\ flow \in Flow
      /\ scopes \in Seq(Scope)
      /\ pos \in Nat /\ pos \notin reported /\ Top = Len(scopes) /\ Top \in Nat
      /\ \A x \in flow.plain \union seen.plain \union seen.captured : x \in Nat
  BY LiveTypes
<1>2. /\ Top > 0 /\ pos' = pos + 1 /\ path' = p2 /\ flow' = f /\ open' = Append(open, fr)
      /\ reported' = reported /\ seen' = seen
  BY DEF Enters
<1>3. /\ scopes # <<>> /\ Alive(scopes, open, path, pos, reported, seen, flow.plain)
      /\ \A i \in DOMAIN open : open[i].at < pos
      /\ \A d \in Contexts(path) : d.parent < pos
      /\ \A s \in 1..Len(scopes) : \A j \in DOMAIN scopes[s].writes :
           /\ scopes[s].writes[j].at # pos
           /\ \A d \in Contexts(scopes[s].writes[j].path) : d.parent < pos
  BY <1>2, Stands
<1>4. Alive(scopes, open, path, pos + 1, reported, seen, flow.plain)
  BY <1>1, <1>3, AliveOn
<1>5. /\ fr.kind = kind /\ fr.at = pos /\ fr.arm = 0 /\ fr.scope = Top /\ fr.path = path
      /\ fr.entry = flow /\ fr.out = NoFlow /\ fr.thrown = NoFlow
  OBVIOUS
<1>6. NoFlow \in Flow /\ NoFlow.plain = {}
  BY DEF NoFlow, Flow
<1>7. fr \in Frame
  BY <1>1, <1>6 DEF Frame
<1>8. c \in Context /\ c.parent = pos /\ c.child = 0 /\ c.scope = Len(scopes)
  BY <1>1 DEF Branch, Context
<1> HIDE DEF fr, c
<1>9. Saved(fr) \subseteq flow.plain /\ fr.kind \in Scoping /\ kind # "logic" /\ kind # "begin"
  BY <1>5, <1>6 DEF Saved, Scoping
<1>10. Child(fr) = 0
  BY <1>5, <1>9 DEF Child
<1>11. kind \notin Straight
  BY DEF Scoping, Straight
<1>12. Entering(Len(scopes), path, pos, fr, p2, c)
  BY <1>1, <1>3, <1>5, <1>8, <1>9, <1>10 DEF Entering
<1>13. ASSUME kind = "block"
       PROVE  ~new.hard /\ \E s \in 1..Len(scopes) : scopes[s].declared
                                                     /\ Reach(scopes, s, Len(scopes))
  <2>1. Declaring # {} /\ TypeOK /\ Single(scopes)
    BY <1>13 DEF Inv
  <2>2. Home \in 1..Len(scopes) /\ scopes[Home].declared /\ Home \in Declaring
    BY <2>1, HomeDeclares
  <2>3. Reach(scopes, Home, Len(scopes))
    BY <1>1, <2>2 DEF Reach, Declaring, Accessible
  <2>4. QED
    BY <1>13, <2>2, <2>3
<1>14. fr.kind = "block" =>
         ~new.hard /\ \E s \in 1..Len(scopes) : scopes[s].declared
                                                /\ Reach(scopes, s, Len(scopes))
  BY <1>5, <1>13
<1>15. f.plain \subseteq (IF fr.kind = "block" THEN flow.plain \union {pos} ELSE {})
  BY <1>5
<1>16. Alive(Append(scopes, new), Append(open, fr), p2, pos + 1, reported, seen, f.plain)
  <2> DEFINE X == flow.plain
             Y == f.plain
  <2>1. /\ scopes \in Seq(Scope) /\ scopes # <<>> /\ open \in Seq(Frame)
        /\ path \in Seq(Context) /\ pos \in Nat
        /\ Alive(scopes, open, path, pos + 1, reported, seen, X)
        /\ \A i \in DOMAIN open : open[i].at < pos
        /\ fr \in Frame /\ fr.kind \in Scoping /\ Saved(fr) \subseteq X
        /\ p2 \in Seq(Context) /\ c \in Context
        /\ Entering(Len(scopes), path, pos, fr, p2, c)
        /\ new \in Scope /\ new.writes = <<>> /\ ~new.declared
        /\ Y \subseteq (IF fr.kind = "block" THEN X \union {pos} ELSE {}) /\ pos \notin reported
    BY <1>1, <1>3, <1>4, <1>7, <1>8, <1>9, <1>12, <1>15
  <2>2. \A s \in 1..Len(scopes) : \A j \in DOMAIN scopes[s].writes :
          /\ scopes[s].writes[j].at # pos
          /\ \A d \in Contexts(scopes[s].writes[j].path) : d.parent < pos
    BY <1>3
  <2> HIDE DEF X, Y
  <2>3. Alive(Append(scopes, new), Append(open, fr), p2, pos + 1, reported, seen, Y)
    BY ONLY <1>14, <2>1, <2>2, ScopeAlive
  <2>4. QED
    BY <2>3 DEF Y
<1>17. Append(scopes, new) # <<>>
  <2>1. Len(Append(scopes, new)) = Len(scopes) + 1 /\ Len(scopes) \in Nat
    BY <1>1
  <2>2. QED
    BY <2>1, NotEmpty
<1>18. QED
  BY <1>2, <1>16, <1>17, Arrives

\* A scope that has just been opened.
LEMMA NewScopeType ==
  ASSUME NEW hard \in BOOLEAN
  PROVE  /\ NewScope(hard) \in Scope /\ NewScope(hard).writes = <<>>
         /\ ~NewScope(hard).declared
  BY DEF NewScope, Scope

\* A block or lambda.
LEMMA BlockLives ==
  ASSUME Inv, LiveInv, Inv', Block
  PROVE  LiveInv'
<1>1. path \in Seq(Context) /\ pos \in Nat /\ flow \in Flow
  BY LiveTypes
<1>2. <<>> \in Seq(Context) /\ Contexts(<<>>) \subseteq Contexts(path)
  BY ContextsOf
<1> DEFINE new == NewScope(FALSE)
<1>3. new \in Scope /\ new.writes = <<>> /\ ~new.declared
  BY NewScopeType
<1>4. ~new.hard
  BY DEF NewScope
<1>5. scopes' = Append(scopes, new) /\ UNCHANGED <<reported, seen>>
  BY DEF Block
<1> HIDE DEF new
<1>6. CASE Declaring = {}
  <2>1. Enters("own", <<>>, flow, NoFlow)
    BY <1>6 DEF Block
  <2>2. "own" \in Kinds /\ "own" \in Scoping /\ NoFlow.plain = {}
    BY DEF Kinds, Scoping, NoFlow
  <2>3. QED
    BY <1>2, <1>3, <1>5, <2>1, <2>2, EntersScope
<1>7. CASE Declaring # {}
  <2>1. Enters("block", <<>>, flow, Looping)
    BY <1>7 DEF Block
  <2>2. "block" \in Kinds /\ "block" \in Scoping
    BY DEF Kinds, Scoping
  <2>3. Looping.plain = flow.plain \union {pos}
    BY DEF Looping, Join, Written
  <2>4. QED
    BY <1>2, <1>3, <1>4, <1>5, <1>7, <2>1, <2>2, <2>3, EntersScope
<1>8. QED
  BY <1>6, <1>7

\* def
LEMMA DefLives ==
  ASSUME Inv, LiveInv, Inv', Def
  PROVE  LiveInv'
<1>1. <<>> \in Seq(Context) /\ Contexts(<<>>) \subseteq Contexts(path)
  BY ContextsOf
<1> DEFINE new == NewScope(TRUE)
<1>2. new \in Scope /\ new.writes = <<>> /\ ~new.declared
  BY NewScopeType
<1>3. /\ scopes' = Append(scopes, new) /\ UNCHANGED <<reported, seen>>
      /\ Enters("def", <<>>, flow, NoFlow)
  BY DEF Def
<1> HIDE DEF new
<1>4. "def" \in Kinds /\ "def" \in Scoping /\ NoFlow.plain = {}
  BY DEF Kinds, Scoping, NoFlow
<1>5. QED
  BY <1>1, <1>2, <1>3, <1>4, EntersScope

\* class, module, class << self
LEMMA ClassLives ==
  ASSUME Inv, LiveInv, Inv', Class
  PROVE  LiveInv'
<1>1. path \in Seq(Context) /\ Contexts(path) \subseteq Contexts(path)
  BY LiveTypes
<1> DEFINE new == NewScope(TRUE)
<1>2. new \in Scope /\ new.writes = <<>> /\ ~new.declared
  BY NewScopeType
<1>3. /\ scopes' = Append(scopes, new) /\ UNCHANGED <<reported, seen>>
      /\ Enters("class", path, flow, NoFlow)
  BY DEF Class
<1> HIDE DEF new
<1>4. "class" \in Kinds /\ "class" \in Scoping /\ NoFlow.plain = {}
  BY DEF Kinds, Scoping, NoFlow
<1>5. QED
  BY <1>1, <1>2, <1>3, <1>4, EntersScope

\* What is reported at the end of a scope.
LEMMA UselessDiscarded == ASSUME TRUE PROVE Discarded(scopes, Useless)
  BY DEF Discarded, Useless, Top

\* The walk leaves a scope.
LEMMA LeavesScope ==
  ASSUME Inv, LiveInv, Inv', open # <<>>, Last.kind \in Scoping,
         NEW f, Leaves(f), LeaveScope,
         seen'.plain = seen.plain, seen'.captured = seen.captured,
         f.plain \subseteq Saved(Last) \union (IF Last.kind = "block" THEN flow.plain ELSE {})
  PROVE  LiveInv'
<1>1. /\ scopes # <<>> /\ scopes \in Seq(Scope) /\ open \in Seq(Frame)
      /\ path \in Seq(Context) /\ pos \in Nat /\ Top = Len(scopes) /\ Top \in Nat
      /\ Alive(scopes, open, path, pos, reported, seen, flow.plain)
  BY WhereInside
<1>2. Last = open[Len(open)]
  BY DEF Last
<1> DEFINE inner == SubSeq(scopes, 1, Len(scopes) - 1)
           rep == reported \union Useless
<1>3. Alive(inner, SubSeq(open, 1, Len(open) - 1), Last.path, pos, rep, seen, f.plain)
  BY <1>1, <1>2, UselessDiscarded, PopAlive
<1>4. /\ scopes' = inner /\ reported' = rep /\ pos' = pos
      /\ open' = SubSeq(open, 1, Len(open) - 1) /\ path' = Last.path /\ flow' = f
  BY <1>1 DEF Leaves, LeaveScope
<1>5. inner # <<>>
  <2>1. Len(scopes) > 1
    BY <1>1 DEF LeaveScope
  <2>2. Len(inner) = Len(scopes) - 1
    BY <1>1, <2>1
  <2>3. Len(inner) # 0
    BY ONLY <1>1, <2>1, <2>2
  <2>4. QED
    BY <2>3, NotEmpty
<1> HIDE DEF inner, rep
<1>6. Unreported(seen'.plain \union seen'.captured, pos, rep)
  BY <1>3 DEF Alive, SeenOK
<1>7. seen'.plain \ seen.plain = {} /\ seen'.captured \ seen.captured = {}
  OBVIOUS
<1>8. Alive(inner, SubSeq(open, 1, Len(open) - 1), Last.path, pos, rep, seen', f.plain)
  BY <1>3, <1>6, <1>7, AliveSeen
<1>9. QED
  BY <1>4, <1>5, <1>8, Arrives

\* The end of a block that may use x.
LEMMA EndBlockLives ==
  ASSUME Inv, LiveInv, Inv', EndBlock
  PROVE  LiveInv'
<1> DEFINE f == Join(Last.entry, Unrolled(flow, Last.at, flow))
<1>1. /\ open # <<>> /\ Last.kind = "block" /\ Leaves(f) /\ LeaveScope
      /\ seen' = Around(Last.at, flow, {})
  BY DEF EndBlock, Inside
<1>2. Unrolled(flow, Last.at, flow).plain \subseteq flow.plain \union flow.plain
  BY UnrolledPlain
<1>3. f.plain \subseteq Last.entry.plain \union flow.plain
  BY <1>2 DEF Join
<1> HIDE DEF f
<1>4. Last.kind \in Scoping /\ Last.entry.plain \subseteq Saved(Last)
  BY <1>1 DEF Scoping, Saved
<1>5. seen'.plain = seen.plain /\ seen'.captured = seen.captured
  BY <1>1, AroundPlain DEF Inv
<1>6. QED
  BY <1>1, <1>3, <1>4, <1>5, LeavesScope

\* The end of a scope of its own.
LEMMA EndOwnLives ==
  ASSUME Inv, LiveInv, Inv', EndOwn
  PROVE  LiveInv'
<1>1. /\ open # <<>> /\ Last.kind \in {"own", "def", "class"} /\ Leaves(Last.entry)
      /\ LeaveScope /\ seen' = seen
  BY DEF EndOwn, Inside
<1>2. Last.kind \in Scoping /\ Last.entry.plain \subseteq Saved(Last)
  BY <1>1 DEF Scoping, Saved
<1>3. seen'.plain = seen.plain /\ seen'.captured = seen.captured
  BY <1>1
<1>4. QED
  BY <1>1, <1>2, <1>3, LeavesScope

\* The end of the program.
LEMMA EndProgramLives ==
  ASSUME Inv, LiveInv, Inv', EndProgram
  PROVE  LiveInv'
<1>1. /\ open = <<>> /\ Top = 1 /\ reported' = reported \union Useless /\ scopes' = <<>>
      /\ open' = open /\ pos' = pos /\ seen' = seen
  BY DEF EndProgram
<1>2. scopes \in Seq(Scope) /\ scopes # <<>>
  <2>1. scopes \in Seq(Scope) /\ Top = Len(scopes)
    BY LiveTypes
  <2>2. QED
    BY <1>1, <2>1
<1>3. SeenOK(scopes, pos, reported, seen)
  BY DEF LiveInv
<1>4. \A s \in 1..Len(scopes') : s \in 1..Len(scopes) /\ scopes'[s] = scopes[s]
  BY <1>1
<1>5. SeenOK(scopes', pos, reported \union Useless, seen)
  BY <1>2, <1>3, <1>4, UselessDiscarded, DiscardedUnseen
<1>6. QED
  BY <1>1, <1>5 DEF LiveInv

\* The beginning of the program.
LEMMA InitLives == Init => LiveInv
<1>1. SUFFICES ASSUME Init PROVE LiveInv
  OBVIOUS
<1> DEFINE new == NewScope(TRUE)
<1>2. new.writes = <<>>
  BY DEF NewScope
<1>3. /\ scopes = <<new>> /\ path = <<>> /\ open = <<>> /\ pos = 1 /\ reported = {}
      /\ flow.plain = {} /\ seen.plain = {} /\ seen.captured = {}
  BY <1>1 DEF Init, NoFlow
<1> HIDE DEF new
<1>4. Len(scopes) = 1 /\ scopes # <<>>
  BY <1>3
<1>5. \A s \in 1..Len(scopes) : DOMAIN scopes[s].writes = {}
  BY <1>2, <1>3
<1>6. Contexts(path) = {} /\ DOMAIN open = {} /\ Len(open) = 0
  BY <1>3, ContextsOf
<1>7. SeenOK(scopes, pos, reported, seen)
  BY <1>3, <1>5 DEF SeenOK, Unreported
<1>8. NestOK(Len(scopes), open, pos)
  BY <1>3, <1>4, <1>6 DEF NestOK
<1>9. PathsOK(Len(scopes), open, path, pos)
  BY <1>6 DEF PathsOK, PathOK, Within
<1>10. WritesOK(scopes, open, pos) /\ SavedOK(scopes, open, pos, reported)
       /\ BlocksOK(scopes, open)
  BY <1>5, <1>6 DEF WritesOK, SavedOK, BlocksOK
<1>11. Unreported(flow.plain, pos, reported)
       /\ Carried(scopes, open, flow.plain, Len(scopes), path, Len(open) + 1)
  BY <1>3, <1>5 DEF Unreported, Carried
<1>12. QED
  BY <1>4, <1>7, <1>8, <1>9, <1>10, <1>11 DEF LiveInv, Alive

-----------------------------------------------------------------------------

\* Whatever the program, what x may be is alive: in scopes out of which it can be read, on
\* no branch that excludes the walk's, and overwritten only on branches that were left.
THEOREM StaysAlive == Spec => []LiveInv
<1>1. Inv /\ Inv' /\ LiveInv /\ [Next]_vars => LiveInv'
  <2>1. SUFFICES ASSUME Inv, Inv', LiveInv, [Next]_vars PROVE LiveInv'
    OBVIOUS
  <2>2. CASE Write
    BY <2>1, <2>2, WriteLives
  <2>3. CASE WriteModified
    BY <2>1, <2>3, WriteModifiedLives
  <2>4. CASE WriteShort
    BY <2>1, <2>4, WriteShortLives
  <2>5. CASE Read
    BY <2>1, <2>5, ReadLives
  <2>6. CASE Cond
    BY <2>1, <2>6, CondLives
  <2>7. CASE CondModified
    BY <2>1, <2>7, CondModifiedLives
  <2>8. CASE Arm
    BY <2>1, <2>8, ArmLives
  <2>9. CASE EndCond
    BY <2>1, <2>9, EndCondLives
  <2>10. CASE Logic
    BY <2>1, <2>10, LogicLives
  <2>11. CASE EndLogic
    BY <2>1, <2>11, EndLogicLives
  <2>12. CASE While
    BY <2>1, <2>12, WhileLives
  <2>13. CASE Body
    BY <2>1, <2>13, BodyLives
  <2>14. CASE EndWhile
    BY <2>1, <2>14, EndWhileLives
  <2>15. CASE Post
    BY <2>1, <2>15, PostLives
  <2>16. CASE Test
    BY <2>1, <2>16, TestLives
  <2>17. CASE EndPost
    BY <2>1, <2>17, EndPostLives
  <2>18. CASE Begin
    BY <2>1, <2>18, BeginLives
  <2>19. CASE Rescue
    BY <2>1, <2>19, RescueLives
  <2>20. CASE Else
    BY <2>1, <2>20, ElseLives
  <2>21. CASE EndBegin
    BY <2>1, <2>21, EndBeginLives
  <2>22. CASE Ensured
    BY <2>1, <2>22, EnsuredLives
  <2>23. CASE Ensure
    BY <2>1, <2>23, EnsureLives
  <2>24. CASE EndEnsure
    BY <2>1, <2>24, EndEnsureLives
  <2>25. CASE Block
    BY <2>1, <2>25, BlockLives
  <2>26. CASE EndBlock
    BY <2>1, <2>26, EndBlockLives
  <2>27. CASE Def
    BY <2>1, <2>27, DefLives
  <2>28. CASE Class
    BY <2>1, <2>28, ClassLives
  <2>29. CASE EndOwn
    BY <2>1, <2>29, EndOwnLives
  <2>30. CASE EndProgram
    BY <2>1, <2>30, EndProgramLives
  <2>31. CASE UNCHANGED vars
    BY <2>1, <2>31 DEF vars, LiveInv
  <2>32. CASE FirstShort
    BY <2>1, <2>32, FirstShortLives
  <2>33. QED
    BY <2>1, <2>2, <2>3, <2>4, <2>5, <2>6, <2>7, <2>8, <2>9, <2>10, <2>11, <2>12, <2>13,
       <2>14, <2>15, <2>16, <2>17, <2>18, <2>19, <2>20, <2>21, <2>22, <2>23, <2>24,
       <2>25, <2>26, <2>27, <2>28, <2>29, <2>30, <2>31, <2>32 DEF Next
<1>2. QED
  BY <1>1, Inductive, InitLives, PTL DEF Spec

\* In a program of any size, an assignment whose value some read gets when no exception is
\* raised is never reported as useless (engine.rs, reference_with_branches).
THEOREM LiveCorrect == Spec => []LiveIsNotReported
<1>1. LiveInv => LiveIsNotReported
  BY DEF LiveInv, SeenOK, Unreported, LiveIsNotReported
<1>2. QED
  BY <1>1, StaysAlive, PTL

\* Nor is one whose value a block or lambda can see (variable.rs, captured_by_block).
THEOREM CapturedCorrect == Spec => []CapturedIsNotReported
<1>1. LiveInv => CapturedIsNotReported
  BY DEF LiveInv, SeenOK, Unreported, CapturedIsNotReported
<1>2. QED
  BY <1>1, StaysAlive, PTL
=============================================================================
