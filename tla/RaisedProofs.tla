--------------------------- MODULE RaisedProofs ----------------------------
(***************************************************************************)
(* The assignments whose value an exception or an earlier run of a loop    *)
(* carries to a read, for any program: where the walk of VariableForce can *)
(* stand, what its marks know of the loops it is in, and that it reports   *)
(* none of those assignments, with the exceptions of Hidden.               *)
(***************************************************************************)
EXTENDS VariableForceProofs

-----------------------------------------------------------------------------
(* The branches the walk can be on.                                        *)

\* Branches of inner scopes come last, ...
Mono(p) == \A i, k \in DOMAIN p : i <= k => p[i].scope <= p[k].scope

\* ... and a jump may lead out of the last one.
Jumpy(p) == p # <<>> /\ p[Len(p)].jumps

\* In front of the construct lim the walk is right in the body of a begin.
Straightly(op, lim) ==
  \E i \in DOMAIN op :
    /\ i < lim /\ op[i].kind \in {"begin", "ensured"}
    /\ \A k \in DOMAIN op : i < k /\ k < lim => op[k].kind \in Straight

\* Branch q is one of the scope level, in front of the construct lim: there is a construct for
\* each scope, and in a block the branches start anew.
Place(op, level, q, lim) ==
  /\ \A s \in 1..level - 1 :
       \E b \in DOMAIN op : b < lim /\ op[b].kind \in Scoping /\ op[b].scope = s
  /\ \A b \in DOMAIN op : b < lim /\ op[b].kind \in {"block", "own"} =>
       \A c \in Contexts(q) : c.parent > op[b].at /\ c.scope > op[b].scope
  /\ Mono(q) /\ \A c \in Contexts(q) : c.scope <= level
  /\ Straightly(op, lim) => Jumpy(q)

\* The assignments of a scope with no captured variable are older than the blocks in it.
WritesPlaced(sc, op, body) ==
  \A s \in 1..Len(sc) : \A j \in DOMAIN sc[s].writes :
    /\ Mono(sc[s].writes[j].path)
    /\ sc[s].writes[j].at \in body => Jumpy(sc[s].writes[j].path)
    /\ ~sc[s].captured =>
         \A b \in DOMAIN op : op[b].kind \in Scoping /\ op[b].scope = s =>
           sc[s].writes[j].at < op[b].at

FramesPlaced(sc, op) ==
  \A i \in DOMAIN op :
    /\ Place(op, op[i].scope, op[i].path, i)
    /\ op[i].kind \in {"def", "class"} => sc[op[i].scope + 1].hard

Placed(sc, op, p, n, body) ==
  /\ Place(op, Len(sc), p, Len(op) + 1)
  /\ FramesPlaced(sc, op)
  /\ WritesPlaced(sc, op, body)
  /\ \A x \in body : x < n

PlacedInv == scopes # <<>> => Placed(scopes, open, path, pos, seen.body)

\* The constructs op and op2 are the same in front of lim.
SameBefore(op, op2, lim) ==
  \A b \in Nat : b < lim =>
    /\ b \in DOMAIN op <=> b \in DOMAIN op2
    /\ b \in DOMAIN op => /\ op2[b].kind = op[b].kind /\ op2[b].at = op[b].at
                          /\ op2[b].scope = op[b].scope /\ op2[b].path = op[b].path

\* A place is one among other constructs too.
LEMMA PlaceAmong ==
  ASSUME NEW op \in Seq(Frame), NEW op2 \in Seq(Frame), NEW lim, SameBefore(op, op2, lim),
         NEW level, NEW q, Place(op, level, q, lim)
  PROVE  Place(op2, level, q, lim)
<1>1. /\ \A b \in DOMAIN op : b \in Nat
      /\ \A b \in DOMAIN op2 : b \in Nat
  OBVIOUS
<1>2. \A b \in DOMAIN op : b < lim =>
        /\ b \in DOMAIN op2 /\ op2[b].kind = op[b].kind /\ op2[b].at = op[b].at
        /\ op2[b].scope = op[b].scope
  BY <1>1 DEF SameBefore
<1>3. \A b \in DOMAIN op2 : b < lim =>
        /\ b \in DOMAIN op /\ op2[b].kind = op[b].kind /\ op2[b].at = op[b].at
        /\ op2[b].scope = op[b].scope
  BY <1>1 DEF SameBefore
<1>4. Straightly(op2, lim) => Straightly(op, lim)
  BY <1>2, <1>3 DEF Straightly
<1>5. QED
  BY <1>2, <1>3, <1>4 DEF Place

\* The last branch of a path.
LEMMA PathAppended ==
  ASSUME NEW q \in Seq(Context), NEW c \in Context
  PROVE  /\ Jumpy(Append(q, c)) <=> c.jumps
         /\ (Mono(q) /\ \A d \in Contexts(q) : d.scope <= c.scope) => Mono(Append(q, c))
<1> DEFINE r == Append(q, c)
<1>1. /\ Len(r) = Len(q) + 1 /\ r # <<>> /\ r[Len(q) + 1] = c /\ Len(q) \in Nat
      /\ DOMAIN r = 1..Len(q) + 1 /\ DOMAIN q = 1..Len(q)
      /\ \A i \in 1..Len(q) : r[i] = q[i]
  <2>1. r \in Seq(Context) /\ Len(r) = Len(q) + 1 /\ Len(q) \in Nat /\ r[Len(q) + 1] = c
        /\ \A i \in 1..Len(q) : r[i] = q[i]
    BY AppendProperties
  <2> HIDE DEF r
  <2>2. DOMAIN r = 1..Len(q) + 1 /\ DOMAIN q = 1..Len(q) /\ r # <<>>
    BY <2>1
  <2>3. QED
    BY <2>1, <2>2
<1> HIDE DEF r
<1>2. Jumpy(r) <=> c.jumps
  BY <1>1 DEF Jumpy
<1>3. ASSUME Mono(q), \A d \in Contexts(q) : d.scope <= c.scope
      PROVE  Mono(r)
  <2>1. \A i \in 1..Len(q) : q[i].scope <= c.scope
    BY <1>1, <1>3 DEF Contexts
  <2>2. c.scope \in Nat
    BY DEF Context
  <2>3. SUFFICES ASSUME NEW i \in 1..Len(q) + 1, NEW k \in 1..Len(q) + 1, i <= k
                 PROVE  r[i].scope <= r[k].scope
    BY <1>1 DEF Mono
  <2>4. CASE k = Len(q) + 1
    BY <1>1, <2>1, <2>2, <2>4
  <2>5. CASE k # Len(q) + 1
    <3>1. i \in 1..Len(q) /\ k \in 1..Len(q)
      BY <1>1, <2>3, <2>5
    <3>2. QED
      BY <1>1, <1>3, <2>3, <3>1 DEF Mono
  <2>6. QED
    BY <2>4, <2>5
<1>4. QED
  BY <1>2, <1>3 DEF r

\* The place behind construct m, of that scope, on the same branch or a new one c.
LEMMA PlaceBehind ==
  ASSUME NEW op \in Seq(Frame), NEW m \in DOMAIN op, NEW q \in Seq(Context),
         NEW level \in Nat, Place(op, level, q, m),
         \A b \in DOMAIN op : b < m => op[b].at < op[m].at /\ After(op[b]) <= level,
         op[m].kind \notin Scoping, NEW p2,
         \/ op[m].kind \in Straight /\ p2 = q
         \/ /\ op[m].kind \notin Straight
            /\ \E c \in Context : /\ p2 = Append(q, c) /\ c.parent = op[m].at /\ c.scope = level
                                  /\ op[m].kind \in {"begin", "ensured"} => c.jumps
  PROVE  Place(op, level, p2, m + 1)
<1>1. /\ DOMAIN op = 1..Len(op) /\ Len(op) \in Nat /\ m \in Nat
      /\ \A b \in DOMAIN op : b < m + 1 <=> b < m \/ b = m
  OBVIOUS
<1>2. \A b \in DOMAIN op : b < m + 1 /\ op[b].kind \in Scoping => b < m
  BY <1>1
<1>3. \A s \in 1..level - 1 :
        \E b \in DOMAIN op : b < m + 1 /\ op[b].kind \in Scoping /\ op[b].scope = s
  BY <1>1 DEF Place
<1>4. CASE op[m].kind \in Straight /\ p2 = q
  <2>1. Straightly(op, m + 1) => Straightly(op, m)
    BY <1>1, <1>4 DEF Straightly, Straight
  <2>2. QED
    BY <1>2, <1>3, <1>4, <2>1 DEF Place, Scoping
<1>5. ASSUME op[m].kind \notin Straight, NEW c \in Context, p2 = Append(q, c),
             c.parent = op[m].at, c.scope = level,
             op[m].kind \in {"begin", "ensured"} => c.jumps
      PROVE  Place(op, level, p2, m + 1)
  <2>1. Contexts(p2) = Contexts(q) \union {c} /\ Contexts(q) \subseteq Context
    BY <1>5, ContextsOf
  <2>2. (Jumpy(p2) <=> c.jumps) /\ Mono(p2)
    BY <1>5, PathAppended DEF Place
  <2>3. Straightly(op, m + 1) => Jumpy(p2)
    BY <1>1, <1>5, <2>2 DEF Straightly
  <2>4. ASSUME NEW b \in DOMAIN op, b < m, op[b].kind \in {"block", "own"},
               NEW d \in Contexts(p2)
        PROVE  d.parent > op[b].at /\ d.scope > op[b].scope
    <3>1. CASE d \in Contexts(q)
      BY <2>4, <3>1 DEF Place
    <3>2. CASE d = c
      <4>1. op[b].at < op[m].at /\ op[b].scope + 1 <= level
        BY <2>4 DEF After, Scoping
      <4>2. op[b].at \in Nat /\ op[b].scope \in Nat /\ op[m].at \in Nat
        BY FrameTypes
      <4>3. QED
        BY <1>5, <3>2, <4>1, <4>2
    <3>3. QED
      BY <2>1, <3>1, <3>2
  <2>5. \A d \in Contexts(p2) : d.scope <= level
    BY <1>5, <2>1 DEF Place
  <2>6. \A b \in DOMAIN op : b < m + 1 /\ op[b].kind \in {"block", "own"} => b < m
    BY <1>2 DEF Scoping
  <2>7. QED
    BY <1>3, <2>2, <2>3, <2>4, <2>5, <2>6 DEF Place
<1>6. QED
  BY <1>4, <1>5

\* The place in a scope of its own.
LEMMA PlaceInside ==
  ASSUME NEW op \in Seq(Frame), NEW m \in DOMAIN op, NEW q \in Seq(Context),
         NEW level \in Nat, Place(op, level, q, m), op[m].kind \in Scoping,
         op[m].scope = level, NEW p2 \in Seq(Context),
         p2 = <<>> \/ (op[m].kind = "class" /\ p2 = q)
  PROVE  Place(op, level + 1, p2, m + 1)
<1>1. /\ DOMAIN op = 1..Len(op) /\ Len(op) \in Nat /\ m \in Nat
      /\ \A b \in DOMAIN op : b < m + 1 <=> b < m \/ b = m
  OBVIOUS
<1>2. \A s \in 1..level + 1 - 1 :
        \E b \in DOMAIN op : b < m + 1 /\ op[b].kind \in Scoping /\ op[b].scope = s
  <2>1. SUFFICES ASSUME NEW s \in 1..level
                 PROVE  \E b \in DOMAIN op :
                          b < m + 1 /\ op[b].kind \in Scoping /\ op[b].scope = s
    OBVIOUS
  <2>2. CASE s = level
    BY <1>1, <2>2
  <2>3. CASE s # level
    <3>1. s \in 1..level - 1
      BY <2>3
    <3>2. QED
      BY <1>1, <3>1 DEF Place
  <2>4. QED
    BY <2>2, <2>3
<1>3. ~Straightly(op, m + 1)
  BY <1>1 DEF Straightly, Straight, Scoping
<1>4. CASE p2 = <<>>
  <2>1. Contexts(p2) = {} /\ Mono(p2)
    BY <1>4, ContextsOf DEF Mono
  <2>2. \A c \in Contexts(p2) : c.scope <= level + 1
    BY <2>1
  <2>3. \A b \in DOMAIN op : b < m + 1 /\ op[b].kind \in {"block", "own"} =>
          \A c \in Contexts(p2) : c.parent > op[b].at /\ c.scope > op[b].scope
    BY <2>1
  <2>4. /\ \A s \in 1..level + 1 - 1 :
             \E b \in DOMAIN op : b < m + 1 /\ op[b].kind \in Scoping /\ op[b].scope = s
        /\ Mono(p2) /\ \A c \in Contexts(p2) : c.scope <= level + 1
        /\ Straightly(op, m + 1) => Jumpy(p2)
    BY <1>2, <1>3, <2>1, <2>2
  <2>5. QED
    BY ONLY <2>3, <2>4 DEF Place
<1>5. CASE op[m].kind = "class" /\ p2 = q
  <2>1. \A b \in DOMAIN op : b < m + 1 /\ op[b].kind \in {"block", "own"} => b < m
    BY <1>1, <1>5
  <2>2. Contexts(q) \subseteq Context
    BY ContextsOf
  <2>3. \A c \in Contexts(q) : c.scope <= level + 1
    BY <2>2 DEF Place, Context
  <2>4. QED
    BY <1>2, <1>3, <1>5, <2>1, <2>3 DEF Place
<1>6. QED
  BY <1>4, <1>5

\* The frames in front of lim stay in place.
LEMMA FramesStay ==
  ASSUME NEW op \in Seq(Frame), NEW op2 \in Seq(Frame), NEW lim \in Nat, SameBefore(op, op2, lim),
         NEW sc, NEW sc2, FramesPlaced(sc, op),
         \A i \in DOMAIN op : i < lim /\ op[i].kind \in {"def", "class"} =>
           sc2[op[i].scope + 1].hard = sc[op[i].scope + 1].hard,
         NEW i \in DOMAIN op2, i < lim
  PROVE  /\ Place(op2, op2[i].scope, op2[i].path, i)
         /\ op2[i].kind \in {"def", "class"} => sc2[op2[i].scope + 1].hard
<1>1. i \in Nat
  OBVIOUS
<1>2. /\ i \in DOMAIN op /\ op2[i].kind = op[i].kind
      /\ op2[i].scope = op[i].scope /\ op2[i].path = op[i].path
  BY <1>1 DEF SameBefore
<1>3. SameBefore(op, op2, i)
  <2>1. \A b \in Nat : b < i => b < lim
    BY <1>1
  <2>2. QED
    BY <2>1 DEF SameBefore
<1>4. Place(op, op[i].scope, op[i].path, i)
  BY <1>2 DEF FramesPlaced
<1>5. Place(op2, op[i].scope, op[i].path, i)
  BY <1>3, <1>4, PlaceAmong
<1>6. QED
  BY <1>2, <1>5 DEF FramesPlaced

\* Marking assignments does not move them.
LEMMA MilderPlaced ==
  ASSUME NEW sc \in Seq(Scope), NEW sc2 \in Seq(Scope), Milder(sc, sc2),
         NEW op, NEW body, WritesPlaced(sc, op, body)
  PROVE  WritesPlaced(sc2, op, body)
<1>1. SUFFICES ASSUME NEW s \in 1..Len(sc), NEW j \in DOMAIN sc[s].writes
               PROVE  /\ Mono(sc2[s].writes[j].path)
                      /\ sc2[s].writes[j].at \in body => Jumpy(sc2[s].writes[j].path)
                      /\ ~sc2[s].captured =>
                           \A b \in DOMAIN op : op[b].kind \in Scoping /\ op[b].scope = s =>
                             sc2[s].writes[j].at < op[b].at
  BY DEF WritesPlaced, Milder
<1>2. /\ sc2[s].writes[j].path = sc[s].writes[j].path
      /\ sc2[s].writes[j].at = sc[s].writes[j].at
      /\ ~sc2[s].captured => ~sc[s].captured
  BY DEF Milder
<1>3. QED
  BY <1>2 DEF WritesPlaced

\* Nor does an assignment move the others.
LEMMA AddsPlaced ==
  ASSUME NEW sc \in Seq(Scope), NEW sc2 \in Seq(Scope), NEW s \in 1..Len(sc),
         NEW n, NEW p, NEW modifier, Adds(sc, sc2, s, n, p, modifier),
         NEW op, NEW body, NEW body2, WritesPlaced(sc, op, body),
         \A t \in 1..Len(sc) : \A j \in DOMAIN sc[t].writes : sc[t].writes[j].at # n,
         \A b \in DOMAIN op : op[b].kind \in Scoping => op[b].scope # Len(sc),
         body2 \subseteq body \union {n}, Mono(p), n \in body2 => Jumpy(p)
  PROVE  WritesPlaced(sc2, op, body2)
<1>1. SUFFICES ASSUME NEW t \in 1..Len(sc), NEW j \in DOMAIN sc2[t].writes
               PROVE  /\ Mono(sc2[t].writes[j].path)
                      /\ sc2[t].writes[j].at \in body2 => Jumpy(sc2[t].writes[j].path)
                      /\ ~sc2[t].captured =>
                           \A b \in DOMAIN op : op[b].kind \in Scoping /\ op[b].scope = t =>
                             sc2[t].writes[j].at < op[b].at
  BY DEF WritesPlaced, Adds
<1>2. CASE t # s
  <2>1. sc2[t] = sc[t]
    BY <1>2 DEF Adds
  <2>2. j \in DOMAIN sc[t].writes /\ sc[t].writes[j].at # n
    BY <2>1
  <2>3. QED
    BY <2>1, <2>2 DEF WritesPlaced
<1>3. CASE t = s
  <2> DEFINE l == Len(sc[s].writes)
  <2>1. l \in Nat /\ DOMAIN sc[s].writes = 1..l /\ DOMAIN sc2[s].writes = 1..l + 1
    BY WriteTypes DEF Adds
  <2>2. CASE j \in 1..l
    <3>1. /\ sc2[s].writes[j].path = sc[s].writes[j].path
          /\ sc2[s].writes[j].at = sc[s].writes[j].at
          /\ ~sc2[s].captured => ~sc[s].captured
      BY <2>2 DEF Adds
    <3>2. j \in DOMAIN sc[s].writes /\ sc[s].writes[j].at # n
      BY <2>1, <2>2
    <3>3. QED
      BY <1>3, <3>1, <3>2 DEF WritesPlaced
  <2>3. CASE j = l + 1
    <3>1. sc2[s].writes[j].path = p /\ sc2[s].writes[j].at = n
      BY <2>3 DEF Adds
    <3>2. ~sc2[s].captured => s = Len(sc)
      BY DEF Adds
    <3>3. QED
      BY <1>3, <3>1, <3>2
  <2>4. QED
    BY <1>1, <1>3, <2>1, <2>2, <2>3
<1>4. QED
  BY <1>2, <1>3

\* In fewer scopes and constructs, or empty scopes and later constructs.
LEMMA WritesStay ==
  ASSUME NEW sc \in Seq(Scope), NEW sc2 \in Seq(Scope),
         NEW op, NEW op2, NEW body, WritesPlaced(sc, op, body),
         \A s \in 1..Len(sc2) : \/ s \in 1..Len(sc) /\ sc2[s] = sc[s]
                                \/ sc2[s].writes = <<>>,
         \A b \in DOMAIN op2 : op2[b].kind \in Scoping =>
           \/ /\ b \in DOMAIN op /\ op[b].kind \in Scoping
              /\ op2[b].scope = op[b].scope /\ op2[b].at = op[b].at
           \/ \A s \in 1..Len(sc) : \A j \in DOMAIN sc[s].writes :
                sc[s].writes[j].at < op2[b].at
  PROVE  WritesPlaced(sc2, op2, body)
<1>1. SUFFICES ASSUME NEW s \in 1..Len(sc2), NEW j \in DOMAIN sc2[s].writes
               PROVE  /\ Mono(sc2[s].writes[j].path)
                      /\ sc2[s].writes[j].at \in body => Jumpy(sc2[s].writes[j].path)
                      /\ ~sc2[s].captured =>
                           \A b \in DOMAIN op2 : op2[b].kind \in Scoping /\ op2[b].scope = s =>
                             sc2[s].writes[j].at < op2[b].at
  BY DEF WritesPlaced
<1>2. s \in 1..Len(sc) /\ sc2[s] = sc[s]
  <2>1. DOMAIN sc2[s].writes # {}
    OBVIOUS
  <2>2. sc2[s].writes # <<>>
    BY <2>1
  <2>3. QED
    BY <2>2
<1>3. QED
  BY <1>2 DEF WritesPlaced

\* The walk goes on among the same constructs.
LEMMA StaysPlaced ==
  ASSUME Inv, Inv', LiveInv, PlacedInv, Top > 0, UNCHANGED path,
         Len(scopes') = Len(scopes),
         \A s \in 1..Len(scopes) : scopes'[s].hard = scopes[s].hard,
         DOMAIN open' = DOMAIN open, \A i \in DOMAIN open : SameFrame(open[i], open'[i]),
         WritesPlaced(scopes', open, seen'.body), \A x \in seen'.body : x < pos'
  PROVE  PlacedInv'
<1>1. /\ open \in Seq(Frame) /\ open' \in Seq(Frame) /\ scopes \in Seq(Scope)
      /\ scopes' \in Seq(Scope) /\ Top = Len(scopes) /\ Len(open) \in Nat
  BY LiveTypes DEF Inv, TypeOK
<1>2. Placed(scopes, open, path, pos, seen.body) /\ NestOK(Len(scopes), open, pos)
  BY <1>1 DEF PlacedInv, LiveInv, Alive
<1>3. Len(open') = Len(open)
  BY <1>1
<1>4. SameBefore(open, open', Len(open) + 1)
  BY DEF SameBefore, SameFrame
<1>5. Place(open', Len(scopes'), path', Len(open') + 1)
  BY <1>1, <1>2, <1>3, <1>4, PlaceAmong DEF Placed
<1>6. \A i \in DOMAIN open : After(open[i]) <= Len(scopes) /\ open[i].scope \in 1..Len(scopes)
  BY <1>1, <1>2, NestFacts
<1>7. \A i \in DOMAIN open : i < Len(open) + 1 /\ open[i].kind \in {"def", "class"} =>
        scopes'[open[i].scope + 1].hard = scopes[open[i].scope + 1].hard
  BY <1>1, <1>6 DEF After, Scoping
<1>8. \A i \in DOMAIN open' : i < Len(open) + 1
  BY <1>1, <1>3
<1>9. FramesPlaced(scopes', open')
  <2>1. Len(open) + 1 \in Nat /\ FramesPlaced(scopes, open)
    BY <1>1, <1>2 DEF Placed
  <2>2. SUFFICES ASSUME NEW i \in DOMAIN open'
                 PROVE  /\ Place(open', open'[i].scope, open'[i].path, i)
                        /\ open'[i].kind \in {"def", "class"} =>
                             scopes'[open'[i].scope + 1].hard
    BY DEF FramesPlaced
  <2>3. QED
    BY <1>1, <1>4, <1>7, <1>8, <2>1, FramesStay
<1>10. WritesPlaced(scopes', open', seen'.body)
  BY DEF WritesPlaced, SameFrame
<1>11. QED
  BY <1>5, <1>9, <1>10 DEF PlacedInv, Placed

\* The construct that the walk enters.
Opened(kind, before) ==
  [kind |-> kind, at |-> pos, arm |-> 0, scope |-> Top, path |-> path,
   entry |-> before, out |-> NoFlow, thrown |-> NoFlow, end |-> before]

LEMMA Entered ==
  ASSUME Inv, NEW kind \in Kinds, NEW p2, NEW before \in Flow, NEW f, Enters(kind, p2, before, f)
  PROVE  /\ Opened(kind, before) \in Frame /\ open' = Append(open, Opened(kind, before))
         /\ path' = p2 /\ flow' = f /\ pos' = pos + 1 /\ Top > 0
<1>1. path \in Seq(Context) /\ pos \in Nat /\ Top \in Nat
  BY LiveTypes
<1>2. NoFlow \in Flow
  BY DEF NoFlow, Flow
<1>3. QED
  BY <1>1, <1>2 DEF Enters, Opened, Frame

\* The stack is as it was, up to the new construct.
LEMMA Under ==
  ASSUME NEW op \in Seq(Frame), NEW fr \in Frame
  PROVE  LET op2 == Append(op, fr)
             m == Len(op) + 1
         IN  /\ m \in Nat /\ DOMAIN op2 = 1..m /\ m \in DOMAIN op2 /\ Len(op2) = m
             /\ op2[m] = fr
             /\ \A i \in DOMAIN op : i < m /\ op2[i] = op[i]
             /\ \A i \in DOMAIN op2 : i # m => i \in DOMAIN op /\ i < m
             /\ SameBefore(op, op2, m)
<1> DEFINE op2 == Append(op, fr)
           m == Len(op) + 1
<1>1. /\ Len(op) \in Nat /\ DOMAIN op = 1..Len(op)
      /\ Len(op2) = Len(op) + 1 /\ DOMAIN op2 = 1..Len(op) + 1
      /\ op2[Len(op) + 1] = fr /\ \A i \in DOMAIN op : op2[i] = op[i]
  BY AppendOf
<1>2. \A b \in Nat : b < m => (b \in DOMAIN op <=> b \in DOMAIN op2)
  BY <1>1
<1> HIDE DEF op2
<1>3. QED
  BY <1>1, <1>2 DEF SameBefore, op2

\* The walk enters a construct with no scope of its own.
LEMMA EntersPlaced ==
  ASSUME Inv, Inv', LiveInv, PlacedInv, NEW kind \in Kinds, kind \notin Scoping,
         NEW p2 \in Seq(Context), NEW before \in Flow, NEW f, Enters(kind, p2, before, f),
         Len(scopes') = Len(scopes),
         \A s \in 1..Len(scopes) : scopes'[s].hard = scopes[s].hard,
         WritesPlaced(scopes', open, seen'.body), \A x \in seen'.body : x < pos',
         \/ kind \in Straight /\ p2 = path
         \/ /\ kind \notin Straight
            /\ \E c \in Context : /\ p2 = Append(path, c) /\ c.parent = pos /\ c.scope = Top
                                  /\ kind \in {"begin", "ensured"} => c.jumps
  PROVE  PlacedInv'
<1> DEFINE fr == Opened(kind, before)
<1>1. /\ fr \in Frame /\ open' = Append(open, fr) /\ path' = p2 /\ pos' = pos + 1 /\ Top > 0
      /\ fr.kind = kind /\ fr.at = pos /\ fr.scope = Top /\ fr.path = path
  BY Entered DEF Opened
<1> HIDE DEF fr
<1>2. /\ open \in Seq(Frame) /\ open' \in Seq(Frame) /\ scopes \in Seq(Scope)
      /\ scopes' \in Seq(Scope) /\ Top = Len(scopes) /\ Len(open) \in Nat
      /\ path \in Seq(Context) /\ Top \in Nat
  BY LiveTypes DEF Inv, TypeOK
<1>3. Placed(scopes, open, path, pos, seen.body) /\ NestOK(Len(scopes), open, pos)
  BY <1>1, <1>2 DEF PlacedInv, LiveInv, Alive
<1> DEFINE m == Len(open) + 1
<1>4. /\ m \in Nat /\ m \in DOMAIN open' /\ Len(open') = m /\ open'[m] = fr
      /\ \A i \in DOMAIN open : i < m /\ open'[i] = open[i]
      /\ \A i \in DOMAIN open' : i # m => i \in DOMAIN open /\ i < m
      /\ SameBefore(open, open', m)
  BY <1>1, <1>2, Under
<1>5. SameBefore(open, open', m)
  BY <1>4
<1>6. Place(open', Top, path, m)
  BY <1>2, <1>3, <1>5, PlaceAmong DEF Placed
<1>7. \A i \in DOMAIN open : /\ After(open[i]) <= Top /\ open[i].scope \in 1..Len(scopes)
                             /\ open[i].at < pos
  BY <1>2, <1>3, NestFacts DEF NestOK
<1> HIDE DEF m
<1>8. Place(open', Top, p2, m + 1)
  <2>1. \A b \in DOMAIN open' : b < m => open'[b].at < open'[m].at /\ After(open'[b]) <= Top
    BY <1>1, <1>4, <1>7
  <2>2. /\ open'[m].kind \notin Scoping
        /\ \/ open'[m].kind \in Straight /\ p2 = path
           \/ /\ open'[m].kind \notin Straight
              /\ \E c \in Context :
                   /\ p2 = Append(path, c) /\ c.parent = open'[m].at /\ c.scope = Top
                   /\ open'[m].kind \in {"begin", "ensured"} => c.jumps
    BY <1>1, <1>4
  <2>3. QED
    BY <1>2, <1>4, <1>6, <2>1, <2>2, PlaceBehind
<1>9. \A i \in DOMAIN open : i < m /\ open[i].kind \in {"def", "class"} =>
        scopes'[open[i].scope + 1].hard = scopes[open[i].scope + 1].hard
  BY <1>2, <1>7 DEF After, Scoping
<1>10. FramesPlaced(scopes', open')
  <2>1. SUFFICES ASSUME NEW i \in DOMAIN open'
                 PROVE  /\ Place(open', open'[i].scope, open'[i].path, i)
                        /\ open'[i].kind \in {"def", "class"} =>
                             scopes'[open'[i].scope + 1].hard
    BY DEF FramesPlaced
  <2>2. CASE i = m
    BY <1>1, <1>4, <1>6, <2>2 DEF Scoping
  <2>3. CASE i # m
    <3>1. i < m /\ m \in Nat
      BY <1>4, <2>3
    <3>2. QED
      BY <1>2, <1>3, <1>5, <1>9, <3>1, FramesStay DEF Placed
  <2>4. QED
    BY <2>2, <2>3
<1>11. WritesPlaced(scopes', open', seen'.body)
  <2>1. \A b \in DOMAIN open' : open'[b].kind \in Scoping =>
          b \in DOMAIN open /\ open'[b] = open[b]
    BY <1>1, <1>4
  <2>2. QED
    BY <2>1 DEF WritesPlaced
<1>12. QED
  BY <1>1, <1>2, <1>4, <1>8, <1>10, <1>11 DEF PlacedInv, Placed

\* The walk enters a scope.
LEMMA EntersScopePlaced ==
  ASSUME Inv, Inv', LiveInv, PlacedInv, NEW kind \in Kinds, kind \in Scoping,
         NEW p2 \in Seq(Context), NEW before \in Flow, NEW f, Enters(kind, p2, before, f),
         NEW new \in Scope, scopes' = Append(scopes, new), new.writes = <<>>, UNCHANGED seen,
         kind \in {"def", "class"} => new.hard,
         p2 = <<>> \/ (kind = "class" /\ p2 = path)
  PROVE  PlacedInv'
<1> DEFINE fr == Opened(kind, before)
<1>1. /\ fr \in Frame /\ open' = Append(open, fr) /\ path' = p2 /\ pos' = pos + 1 /\ Top > 0
      /\ fr.kind = kind /\ fr.at = pos /\ fr.scope = Top /\ fr.path = path
  BY Entered DEF Opened
<1> HIDE DEF fr
<1>2. /\ open \in Seq(Frame) /\ open' \in Seq(Frame) /\ scopes \in Seq(Scope)
      /\ scopes' \in Seq(Scope) /\ Top = Len(scopes) /\ Len(open) \in Nat
      /\ path \in Seq(Context) /\ Top \in Nat /\ pos \in Nat
  BY LiveTypes DEF Inv, TypeOK
<1>3. Placed(scopes, open, path, pos, seen.body) /\ NestOK(Len(scopes), open, pos)
      /\ WritesOK(scopes, open, pos)
  BY <1>1, <1>2 DEF PlacedInv, LiveInv, Alive
<1> DEFINE m == Len(open) + 1
<1>4. /\ m \in Nat /\ m \in DOMAIN open' /\ Len(open') = m /\ open'[m] = fr
      /\ \A i \in DOMAIN open : i < m /\ open'[i] = open[i]
      /\ \A i \in DOMAIN open' : i # m => i \in DOMAIN open /\ i < m
      /\ SameBefore(open, open', m)
  BY <1>1, <1>2, Under
<1>5. SameBefore(open, open', m)
  BY <1>4
<1>6. Place(open', Top, path, m)
  BY <1>2, <1>3, <1>5, PlaceAmong DEF Placed
<1>7. \A i \in DOMAIN open : /\ After(open[i]) <= Top /\ open[i].scope \in 1..Len(scopes)
  BY <1>2, <1>3, NestFacts DEF NestOK
<1>8. /\ Len(scopes') = Top + 1 /\ scopes'[Top + 1] = new
      /\ \A s \in 1..Top : scopes'[s] = scopes[s]
  BY <1>2, AppendProperties
<1> HIDE DEF m
<1>9. Place(open', Top + 1, p2, m + 1)
  <2>1. /\ open'[m].kind \in Scoping /\ open'[m].scope = Top
        /\ p2 = <<>> \/ (open'[m].kind = "class" /\ p2 = path)
    BY <1>1, <1>4
  <2>2. QED
    BY <1>2, <1>4, <1>6, <2>1, PlaceInside
<1>10. \A i \in DOMAIN open : i < m /\ open[i].kind \in {"def", "class"} =>
        scopes'[open[i].scope + 1].hard = scopes[open[i].scope + 1].hard
  BY ONLY <1>2, <1>7, <1>8 DEF After, Scoping
<1>11. FramesPlaced(scopes', open')
  <2>1. SUFFICES ASSUME NEW i \in DOMAIN open'
                 PROVE  /\ Place(open', open'[i].scope, open'[i].path, i)
                        /\ open'[i].kind \in {"def", "class"} =>
                             scopes'[open'[i].scope + 1].hard
    BY DEF FramesPlaced
  <2>2. CASE i = m
    BY <1>1, <1>4, <1>6, <1>8, <2>2
  <2>3. CASE i # m
    <3>1. i < m /\ m \in Nat
      BY <1>4, <2>3
    <3>2. QED
      BY <1>2, <1>3, <1>5, <1>10, <3>1, FramesStay DEF Placed
  <2>4. QED
    BY <2>2, <2>3
<1>12. WritesPlaced(scopes', open', seen.body)
  <2>1. ASSUME NEW b \in DOMAIN open', open'[b].kind \in Scoping
        PROVE  \/ /\ b \in DOMAIN open /\ open[b].kind \in Scoping
                  /\ open'[b].scope = open[b].scope /\ open'[b].at = open[b].at
               \/ \A s \in 1..Len(scopes) : \A j \in DOMAIN scopes[s].writes :
                    scopes[s].writes[j].at < open'[b].at
    <3>1. CASE b = m
      BY <1>1, <1>3, <1>4, <3>1 DEF WritesOK
    <3>2. CASE b # m
      <4>1. b \in DOMAIN open /\ open'[b] = open[b]
        BY <1>4, <3>2
      <4>2. QED
        BY <2>1, <4>1
    <3>3. QED
      BY <3>1, <3>2
  <2>2. \A s \in 1..Len(scopes') : \/ s \in 1..Len(scopes) /\ scopes'[s] = scopes[s]
                                   \/ scopes'[s].writes = <<>>
    BY <1>2, <1>8
  <2>3. QED
    BY <1>2, <1>3, <2>1, <2>2, WritesStay DEF Placed
<1>13. \A x \in seen.body : x < pos + 1
  <2>1. seen.body \subseteq Nat
    BY DEF Inv, TypeOK
  <2>2. QED
    BY <1>2, <1>3, <2>1 DEF Placed
<1>14. QED
  BY <1>1, <1>2, <1>4, <1>8, <1>9, <1>11, <1>12, <1>13 DEF PlacedInv, Placed

\* The stack is as it was in front of the construct changed.
LEMMA Turned ==
  ASSUME NEW op \in Seq(Frame), op # <<>>, NEW fr \in Frame
  PROVE  LET op2 == [op EXCEPT ![Len(op)] = fr]
             m == Len(op)
         IN  /\ m \in Nat /\ m \in DOMAIN op /\ m \in DOMAIN op2 /\ Len(op2) = m
             /\ op2 \in Seq(Frame) /\ DOMAIN op2 = DOMAIN op
             /\ op2[m] = fr
             /\ \A i \in DOMAIN op : i # m => i < m /\ op2[i] = op[i]
             /\ SameBefore(op, op2, m)
<1> DEFINE op2 == [op EXCEPT ![Len(op)] = fr]
           m == Len(op)
<1>1. m \in Nat /\ m \in DOMAIN op /\ DOMAIN op = 1..m
  OBVIOUS
<1>2. /\ op2 \in Seq(Frame) /\ Len(op2) = m /\ op2[m] = fr /\ DOMAIN op2 = DOMAIN op
      /\ \A i \in DOMAIN op : i # m => op2[i] = op[i]
  BY <1>1
<1> HIDE DEF op2
<1>3. \A i \in DOMAIN op : i # m => i < m
  BY <1>1
<1>4. SameBefore(op, op2, m)
  BY <1>1, <1>2 DEF SameBefore
<1>5. QED
  BY <1>1, <1>2, <1>3, <1>4 DEF op2

\* And in front of the one left.
LEMMA Left ==
  ASSUME NEW op \in Seq(Frame), op # <<>>
  PROVE  LET op2 == SubSeq(op, 1, Len(op) - 1)
             m == Len(op)
         IN  /\ m \in Nat /\ m \in DOMAIN op /\ op2 \in Seq(Frame) /\ Len(op2) + 1 = m
             /\ \A i \in DOMAIN op2 : i \in DOMAIN op /\ i < m /\ op2[i] = op[i]
             /\ SameBefore(op, op2, m)
<1> DEFINE op2 == SubSeq(op, 1, Len(op) - 1)
           m == Len(op)
<1>1. m \in Nat /\ m \in DOMAIN op /\ DOMAIN op = 1..m
  OBVIOUS
<1>2. /\ op2 \in Seq(Frame) /\ Len(op2) = m - 1 /\ DOMAIN op2 = 1..m - 1
      /\ \A i \in 1..m - 1 : op2[i] = op[i]
  BY FrontOf
<1> HIDE DEF op2
<1>3. \A i \in DOMAIN op2 : i \in DOMAIN op /\ i < m /\ op2[i] = op[i]
  BY <1>1, <1>2
<1>4. \A b \in Nat : b < m => (b \in DOMAIN op <=> b \in DOMAIN op2)
  BY <1>1, <1>2
<1>5. SameBefore(op, op2, m)
  BY <1>3, <1>4 DEF SameBefore
<1>6. QED
  BY <1>1, <1>2, <1>3, <1>5 DEF op2

\* The walk goes on in another part of a construct.
LEMMA TurnsPlaced ==
  ASSUME Inv, Inv', LiveInv, PlacedInv, open # <<>>, Last.kind \notin Scoping,
         NEW fr \in Frame, NEW p2 \in Seq(Context), NEW f, Turns(fr, p2, f),
         UNCHANGED <<scopes, seen>>, fr.kind \notin Scoping,
         fr.at = Last.at, fr.scope = Last.scope, fr.path = Last.path,
         NEW q, q = Last.path \/ (Last.kind = "while" /\ q = path),
         \/ fr.kind \in Straight /\ p2 = q
         \/ /\ fr.kind \notin Straight \union {"begin", "ensured"}
            /\ \E c \in Context : p2 = Append(q, c) /\ c.parent = Last.at /\ c.scope = Top
  PROVE  PlacedInv'
<1>1. /\ open \in Seq(Frame) /\ open' \in Seq(Frame) /\ scopes \in Seq(Scope)
      /\ Top = Len(scopes) /\ Top \in Nat /\ path \in Seq(Context)
      /\ scopes # <<>> /\ Alive(scopes, open, path, pos, reported, seen, flow.plain)
      /\ Last.path \in Seq(Context)
  BY WhereInside DEF Inv, TypeOK
<1>2. Placed(scopes, open, path, pos, seen.body) /\ NestOK(Len(scopes), open, pos)
  BY <1>1 DEF PlacedInv, Alive
<1> DEFINE m == Len(open)
<1>3. open' = [open EXCEPT ![m] = fr] /\ path' = p2 /\ pos' = pos
  BY DEF Turns
<1>4. /\ m \in Nat /\ m \in DOMAIN open /\ m \in DOMAIN open' /\ Len(open') = m
      /\ DOMAIN open' = DOMAIN open /\ open'[m] = fr /\ open[m] = Last
      /\ \A i \in DOMAIN open : i # m => i < m /\ open'[i] = open[i]
      /\ SameBefore(open, open', m)
  BY <1>1, <1>3, Turned DEF Last
<1> HIDE DEF m
<1>5. Last.scope = Top
  BY <1>1, <1>2, <1>4 DEF NestOK, After, m
<1>6. Place(open, Top, Last.path, m)
  BY <1>2, <1>4, <1>5 DEF Placed, FramesPlaced
<1>7. Place(open, Top, q, m)
  <2>1. CASE q = Last.path
    BY <1>6, <2>1
  <2>2. CASE Last.kind = "while" /\ q = path
    <3>1. Place(open, Top, path, m + 1)
      BY <1>1, <1>2 DEF Placed, m
    <3>2. \A b \in DOMAIN open : b < m + 1 <=> b < m \/ b = m
      BY <1>1, <1>4
    <3>3. Straightly(open, m) => Straightly(open, m + 1)
      BY <1>4, <2>2, <3>2 DEF Straightly, Straight
    <3>4. \A b \in DOMAIN open : b < m + 1 /\ open[b].kind \in Scoping => b < m
      BY <1>4, <3>2
    <3>5. QED
      BY <2>2, <3>1, <3>2, <3>3, <3>4 DEF Place
  <2>3. QED
    BY <2>1, <2>2
<1>8. q \in Seq(Context)
  BY <1>1
<1>9. Place(open', Top, q, m) /\ Place(open', Top, Last.path, m)
  BY <1>1, <1>4, <1>6, <1>7, PlaceAmong
<1>10. Place(open', Top, p2, m + 1)
  <2>1. \A b \in DOMAIN open' : b < m => open'[b].at < open'[m].at /\ After(open'[b]) <= Top
    <3>1. \A b \in DOMAIN open : b < m => open[b].at < Last.at /\ After(open[b]) <= Top
      BY <1>2, <1>4, <1>5 DEF NestOK
    <3>2. \A b \in DOMAIN open : b < m => b # m
      BY <1>4
    <3>3. QED
      BY <1>4, <3>1, <3>2
  <2>2. /\ open'[m].kind \notin Scoping
        /\ \/ open'[m].kind \in Straight /\ p2 = q
           \/ /\ open'[m].kind \notin Straight
              /\ \E c \in Context : /\ p2 = Append(q, c) /\ c.parent = open'[m].at /\ c.scope = Top
                                    /\ open'[m].kind \in {"begin", "ensured"} => c.jumps
    BY <1>4
  <2>3. QED
    BY <1>1, <1>4, <1>8, <1>9, <2>1, <2>2, PlaceBehind
<1>11. FramesPlaced(scopes', open')
  <2>1. SUFFICES ASSUME NEW i \in DOMAIN open'
                 PROVE  /\ Place(open', open'[i].scope, open'[i].path, i)
                        /\ open'[i].kind \in {"def", "class"} =>
                             scopes[open'[i].scope + 1].hard
    BY DEF FramesPlaced
  <2>2. CASE i = m
    BY <1>4, <1>5, <1>9, <2>2 DEF Scoping
  <2>3. CASE i # m
    <3>1. i < m
      BY <1>4, <2>3
    <3>2. QED
      BY <1>1, <1>2, <1>4, <3>1, FramesStay DEF Placed
  <2>4. QED
    BY <2>2, <2>3
<1>12. WritesPlaced(scopes', open', seen'.body)
  <2>1. \A b \in DOMAIN open' : open'[b].kind \in Scoping =>
          b \in DOMAIN open /\ open'[b] = open[b]
    BY <1>4
  <2>2. QED
    BY <1>2, <2>1 DEF WritesPlaced, Placed
<1>13. QED
  BY <1>1, <1>2, <1>3, <1>4, <1>10, <1>11, <1>12 DEF PlacedInv, Placed

\* The walk leaves a construct, and its scope if it has one.
LEMMA LeavesPlaced ==
  ASSUME Inv, Inv', LiveInv, PlacedInv, open # <<>>, NEW f, Leaves(f),
         seen'.body = seen.body,
         IF Last.kind \in Scoping THEN scopes' = SubSeq(scopes, 1, Top - 1)
         ELSE Milder(scopes, scopes')
  PROVE  PlacedInv'
<1>1. /\ open \in Seq(Frame) /\ open' \in Seq(Frame) /\ scopes \in Seq(Scope)
      /\ scopes' \in Seq(Scope)
      /\ Top = Len(scopes) /\ Top \in Nat /\ path \in Seq(Context)
      /\ scopes # <<>> /\ Alive(scopes, open, path, pos, reported, seen, flow.plain)
  BY WhereInside DEF Inv, TypeOK
<1>2. Placed(scopes, open, path, pos, seen.body) /\ NestOK(Len(scopes), open, pos)
  BY <1>1 DEF PlacedInv, Alive
<1> DEFINE m == Len(open)
<1>3. open' = SubSeq(open, 1, m - 1) /\ path' = Last.path /\ pos' = pos
  BY DEF Leaves
<1>4. /\ m \in Nat /\ m \in DOMAIN open /\ Len(open') + 1 = m /\ open[m] = Last
      /\ \A i \in DOMAIN open' : i \in DOMAIN open /\ i < m /\ open'[i] = open[i]
      /\ SameBefore(open, open', m)
  BY <1>1, <1>3, Left DEF Last
<1>5. Place(open', Last.scope, Last.path, m)
  BY <1>1, <1>2, <1>4, PlaceAmong DEF Placed, FramesPlaced
<1> HIDE DEF m
<1>6. /\ Top = After(Last) /\ Last.scope \in Nat /\ Top > 0
      /\ \A i \in DOMAIN open : i < m => After(open[i]) <= Last.scope /\ open[i].scope \in Nat
                                        /\ open[i].scope >= 1
  <2>1. Top = After(Last)
    BY <1>1, <1>2, <1>4 DEF NestOK, m
  <2>2. \A i \in DOMAIN open : i < m => After(open[i]) <= Last.scope /\ open[i].scope >= 1
    BY <1>2, <1>4 DEF NestOK
  <2>3. \A i \in DOMAIN open : open[i].scope \in Nat
    BY <1>1, FrameTypes
  <2>4. Top > 0
    <3>1. Len(scopes) # 0
      BY <1>1
    <3>2. QED
      BY <1>1, <3>1
  <2>5. Last.scope \in Nat
    BY <1>4, <2>3
  <2>6. QED
    BY <2>1, <2>2, <2>3, <2>4, <2>5
<1>7. /\ Len(scopes') = Last.scope
      /\ \A s \in 1..Len(scopes') : s \in 1..Top /\ scopes'[s].hard = scopes[s].hard
  <2>1. CASE Last.kind \in Scoping
    <3>1. After(Last) = Last.scope + 1
      BY <2>1 DEF After
    <3>2. QED
      BY <1>1, <1>6, <2>1, <3>1
  <2>2. CASE Last.kind \notin Scoping
    <3>1. After(Last) = Last.scope
      BY <2>2 DEF After
    <3>2. QED
      BY <1>1, <1>6, <2>2, <3>1 DEF Milder
  <2>3. QED
    BY <2>1, <2>2
<1>8. \A i \in DOMAIN open : i < m /\ open[i].kind \in {"def", "class"} =>
        scopes'[open[i].scope + 1].hard = scopes[open[i].scope + 1].hard
  BY <1>6, <1>7 DEF After, Scoping
<1>9. FramesPlaced(scopes', open')
  BY <1>1, <1>2, <1>4, <1>8, FramesStay DEF FramesPlaced, Placed
<1>10. WritesPlaced(scopes', open', seen'.body)
  <2>1. \A b \in DOMAIN open' : b \in DOMAIN open /\ open'[b] = open[b]
    BY <1>4
  <2>2. CASE Last.kind \in Scoping
    <3>1. \A s \in 1..Len(scopes') : s \in 1..Len(scopes) /\ scopes'[s] = scopes[s]
      BY <1>1, <1>6, <2>2
    <3>2. WritesPlaced(scopes, open, seen'.body)
      BY <1>2 DEF Placed
    <3>3. \A b \in DOMAIN open' : open'[b].kind \in Scoping =>
            /\ b \in DOMAIN open /\ open[b].kind \in Scoping
            /\ open'[b].scope = open[b].scope /\ open'[b].at = open[b].at
      BY ONLY <2>1
    <3>4. scopes \in Seq(Scope) /\ scopes' \in Seq(Scope)
      BY <1>1
    <3>5. QED
      BY ONLY <3>1, <3>2, <3>3, <3>4, WritesStay
  <2>3. CASE Last.kind \notin Scoping
    <3>1. WritesPlaced(scopes', open, seen.body)
      BY <1>1, <1>2, <2>3, MilderPlaced DEF Placed
    <3>2. QED
      BY <2>1, <3>1 DEF WritesPlaced
  <2>4. QED
    BY <2>2, <2>3
<1>11. QED
  BY <1>2, <1>3, <1>4, <1>5, <1>7, <1>9, <1>10 DEF PlacedInv, Placed

\* What the steps do to the history that the proof is about.
LEMMA BodyOf ==
  ASSUME TypeOK
  PROVE  /\ \A sn \in Seen : /\ SeesWritten(sn).body = sn.body
                             /\ SeesWritten(sn).raised = sn.raised
                             /\ Wrote(sn).body =
                                  IF InBody THEN sn.body \union {pos} ELSE sn.body
         /\ Sees.body = seen.body /\ Sees.raised = seen.raised \union (flow.raised \ Hidden)
         /\ \A h, g, left : /\ Around(h, g, left).body = seen.body
                            /\ Around(h, g, left).raised = seen.raised
<1>1. seen \in Seen
  BY DEF TypeOK, Seen
<1>2. ASSUME NEW sn \in Seen
      PROVE  /\ SeesWritten(sn).body = sn.body
             /\ SeesWritten(sn).raised = sn.raised
             /\ Wrote(sn).body = IF InBody THEN sn.body \union {pos} ELSE sn.body
  <2>1. Wrote(sn).body = IF InBody THEN sn.body \union {pos} ELSE sn.body
    BY DEF Wrote, Seen
  <2>2. CASE Declaring = {}
    BY <2>1, <2>2 DEF SeesWritten
  <2>3. CASE Declaring # {}
    <3> DEFINE c == IF Home # Top THEN sn.captured \union flow.plain ELSE sn.captured
               l == IF Home # Top \/ scopes[Home].captured
                    THEN sn.later \union {pos} ELSE sn.later
    <3>1. SeesWritten(sn) = [sn EXCEPT !.captured = c, !.later = l]
      BY <2>3 DEF SeesWritten
    <3> HIDE DEF c, l
    <3>2. QED
      BY <2>1, <3>1 DEF Seen
  <2>4. QED
    BY <2>2, <2>3
<1>3. Sees.body = seen.body /\ Sees.raised = seen.raised \union (flow.raised \ Hidden)
  BY <1>1 DEF Sees, Seen
<1>4. ASSUME NEW h, NEW g, NEW left
      PROVE  /\ Around(h, g, left).body = seen.body
             /\ Around(h, g, left).raised = seen.raised
  BY <1>1 DEF Around, Seen
<1>5. QED
  BY <1>2, <1>3, <1>4

LEMMA InTheBody ==
  ASSUME Inv, InBody
  PROVE  Straightly(open, Len(open) + 1)
<1>1. open \in Seq(Frame) /\ Len(open) \in Nat /\ DOMAIN open = 1..Len(open)
  BY LiveTypes
<1>2. PICK i \in DOMAIN open :
        /\ open[i].kind \in {"begin", "ensured"}
        /\ \A k \in i + 1..Len(open) : open[k].kind \in {"while", "test", "ensure"}
  BY DEF InBody
<1>3. \A k \in DOMAIN open : i < k /\ k < Len(open) + 1 => open[k].kind \in Straight
  BY <1>1, <1>2 DEF Straight
<1>4. i < Len(open) + 1
  BY <1>1
<1>5. QED
  BY <1>2, <1>3, <1>4 DEF Straightly

\* An assignment, after a read or not.
LEMMA AssignsPlaced ==
  ASSUME Inv, LiveInv, PlacedInv, Top > 0, NEW sc \in Seq(Scope), Milder(scopes, sc),
         NEW p \in Seq(Context), Mono(p), NEW modifier \in BOOLEAN,
         NEW body, body \subseteq seen.body \union {pos}, pos \in body => Jumpy(p)
  PROVE  LET sc2 == Assigned(sc, p, modifier)
         IN  /\ sc2 \in Seq(Scope) /\ Len(sc2) = Len(scopes)
             /\ \A s \in 1..Len(scopes) : sc2[s].hard = scopes[s].hard
             /\ WritesPlaced(sc2, open, body) /\ \A x \in body : x < pos + 1
<1>1. /\ open \in Seq(Frame) /\ scopes \in Seq(Scope) /\ pos \in Nat /\ Top = Len(scopes)
      /\ Top \in Nat /\ scopes # <<>> /\ NestOK(Len(scopes), open, pos)
      /\ \A s \in 1..Len(scopes) : \A j \in DOMAIN scopes[s].writes : scopes[s].writes[j].at # pos
  BY LiveTypes, Stands DEF Alive
<1>2. Placed(scopes, open, path, pos, seen.body)
  BY <1>1 DEF PlacedInv
<1>3. Extends(sc) /\ Len(sc) = Len(scopes)
  BY MilderIsSafe DEF Milder
<1> DEFINE sc2 == Assigned(sc, p, modifier)
<1>4. Target \in 1..Len(sc) /\ sc2 \in Seq(Scope) /\ Adds(sc, sc2, Target, pos, p, modifier)
  BY <1>3, AssignedAdds
<1> HIDE DEF sc2
<1>5. Len(sc2) = Len(scopes) /\ \A s \in 1..Len(scopes) : sc2[s].hard = scopes[s].hard
  BY <1>3, <1>4 DEF Adds, Extends
<1>6. WritesPlaced(sc, open, seen.body)
  BY <1>1, <1>2, MilderPlaced DEF Placed
<1>7. \A s \in 1..Len(sc) : \A j \in DOMAIN sc[s].writes : sc[s].writes[j].at # pos
  <2>1. SUFFICES ASSUME NEW s \in 1..Len(sc), NEW j \in DOMAIN sc[s].writes
                 PROVE  sc[s].writes[j].at # pos
    OBVIOUS
  <2>2. s \in 1..Len(scopes)
    BY <1>3
  <2>3. j \in DOMAIN scopes[s].writes /\ sc[s].writes[j].at = scopes[s].writes[j].at
    BY <2>2 DEF Milder
  <2>4. QED
    BY <1>1, <2>2, <2>3
<1>8. \A b \in DOMAIN open : open[b].kind \in Scoping => open[b].scope # Len(sc)
  BY <1>1, <1>3, NestFacts
<1>9. WritesPlaced(sc2, open, body)
  BY <1>4, <1>6, <1>7, <1>8, AddsPlaced
<1>10. \A x \in body : x < pos + 1
  <2>1. \A x \in seen.body : x < pos
    BY <1>2 DEF Placed
  <2>2. \A x \in seen.body : x \in Nat
    BY DEF Inv, TypeOK
  <2>3. QED
    BY <1>1, <2>1, <2>2
<1>11. QED
  BY <1>4, <1>5, <1>9, <1>10 DEF sc2

\* The paths of assignments and their place in a body.
LEMMA PathPlaced ==
  ASSUME Inv, LiveInv, PlacedInv, Top > 0
  PROVE  /\ Mono(path) /\ (InBody => Jumpy(path))
         /\ \A c \in Context : c.scope = Top => Mono(Append(path, c))
         /\ \A x \in seen.body : x < pos /\ x \in Nat
<1>1. scopes # <<>> /\ path \in Seq(Context) /\ Top = Len(scopes)
  BY LiveTypes, Stands
<1>2. Placed(scopes, open, path, pos, seen.body)
  BY <1>1 DEF PlacedInv
<1>3. Mono(path) /\ (InBody => Jumpy(path)) /\ \A d \in Contexts(path) : d.scope <= Top
  BY <1>1, <1>2, InTheBody DEF Placed, Place
<1>4. \A c \in Context : c.scope = Top => Mono(Append(path, c))
  BY <1>1, <1>3, PathAppended
<1>5. \A x \in seen.body : x < pos /\ x \in Nat
  BY <1>2 DEF Placed, Inv, TypeOK
<1>6. QED
  BY <1>3, <1>4, <1>5

\* The walk goes on behind a node.
LEMMA PassingPlaced ==
  ASSUME Inv, Inv', LiveInv, PlacedInv, NEW f, Passed(f), UNCHANGED path,
         Len(scopes') = Len(scopes),
         \A s \in 1..Len(scopes) : scopes'[s].hard = scopes[s].hard,
         WritesPlaced(scopes', open, seen'.body), \A x \in seen'.body : x < pos + 1
  PROVE  PlacedInv'
<1>1. Top > 0 /\ pos' = pos + 1 /\ open' = Raising(f)
  BY DEF Passed
<1>2. open \in Seq(Frame)
  BY LiveTypes
<1>3. /\ DOMAIN open' = DOMAIN open
      /\ \A i \in DOMAIN open : SameFrame(open[i], open'[i])
  BY <1>1, <1>2, RaisingSame
<1>4. QED
  BY <1>1, <1>3, StaysPlaced

LEMMA WritePlaced ==
  ASSUME Inv, Inv', LiveInv, PlacedInv, Write
  PROVE  PlacedInv'
<1>1. /\ Passed(Written) /\ UNCHANGED path /\ Top > 0
      /\ scopes' = Assigned(scopes, path, FALSE) /\ seen' = SeesWritten(Wrote(seen))
  BY DEF Write, Passed
<1>2. scopes \in Seq(Scope) /\ path \in Seq(Context) /\ seen \in Seen /\ TypeOK
  BY LiveTypes DEF Inv, TypeOK, Seen
<1>3. seen'.body = IF InBody THEN seen.body \union {pos} ELSE seen.body
  BY <1>1, <1>2, WroteTypes, BodyOf
<1>4. /\ Mono(path) /\ (InBody => Jumpy(path))
      /\ \A x \in seen.body : x < pos /\ x \in Nat
  BY <1>1, PathPlaced
<1>5. seen'.body \subseteq seen.body \union {pos} /\ (pos \in seen'.body => Jumpy(path))
  BY <1>3, <1>4
<1>6. Milder(scopes, scopes)
  BY DEF Milder
<1>7. /\ scopes' \in Seq(Scope) /\ Len(scopes') = Len(scopes)
      /\ \A s \in 1..Len(scopes) : scopes'[s].hard = scopes[s].hard
      /\ WritesPlaced(scopes', open, seen'.body) /\ \A x \in seen'.body : x < pos + 1
  BY <1>1, <1>2, <1>4, <1>5, <1>6, AssignsPlaced
<1>8. QED
  BY <1>1, <1>7, PassingPlaced

LEMMA WriteModifiedPlaced ==
  ASSUME Inv, Inv', LiveInv, PlacedInv, WriteModified
  PROVE  PlacedInv'
<1> DEFINE c == Branch(pos, 0, FALSE, TRUE)
<1>1. /\ Passed(Join(flow, Written)) /\ UNCHANGED path /\ Top > 0
      /\ scopes' = Assigned(scopes, Append(path, c), TRUE) /\ seen' = SeesWritten(seen)
  BY DEF WriteModified, Passed
<1>2. /\ scopes \in Seq(Scope) /\ path \in Seq(Context) /\ seen \in Seen /\ TypeOK
      /\ pos \in Nat /\ Top \in Nat
  BY LiveTypes DEF Inv, TypeOK, Seen
<1>3. c \in Context /\ c.scope = Top
  BY <1>2 DEF Branch, Context
<1> HIDE DEF c
<1>4. /\ Mono(Append(path, c))
      /\ \A x \in seen.body : x < pos /\ x \in Nat
  BY <1>1, <1>3, PathPlaced
<1>5. seen'.body = seen.body
  BY <1>1, <1>2, BodyOf
<1>6. seen'.body \subseteq seen.body \union {pos} /\ pos \notin seen'.body
  BY <1>2, <1>4, <1>5
<1>7. Milder(scopes, scopes) /\ Append(path, c) \in Seq(Context)
  BY <1>2, <1>3 DEF Milder
<1>8. /\ scopes' \in Seq(Scope) /\ Len(scopes') = Len(scopes)
      /\ \A s \in 1..Len(scopes) : scopes'[s].hard = scopes[s].hard
      /\ WritesPlaced(scopes', open, seen'.body) /\ \A x \in seen'.body : x < pos + 1
  BY <1>1, <1>2, <1>4, <1>6, <1>7, AssignsPlaced
<1>9. QED
  BY <1>1, <1>8, PassingPlaced

LEMMA ReadPlaced ==
  ASSUME Inv, Inv', LiveInv, PlacedInv, Read
  PROVE  PlacedInv'
<1>1. /\ Passed(flow) /\ UNCHANGED path /\ Top > 0 /\ Declaring # {}
      /\ scopes' = Referenced /\ seen' = Sees
  BY DEF Read, Passed
<1>2. scopes \in Seq(Scope) /\ TypeOK /\ pos \in Nat /\ scopes # <<>>
  BY <1>1, LiveTypes, Stands DEF Inv
<1>3. Referenced \in Seq(Scope) /\ Milder(scopes, Referenced)
  BY <1>1, ReferencedIsMilder
<1>4. seen'.body = seen.body
  BY <1>1, <1>2, BodyOf
<1>5. /\ WritesPlaced(scopes, open, seen.body)
      /\ \A x \in seen.body : x < pos /\ x \in Nat
  BY <1>1, <1>2, PathPlaced DEF PlacedInv, Placed
<1>6. WritesPlaced(scopes', open, seen'.body)
  BY <1>1, <1>2, <1>3, <1>4, <1>5, MilderPlaced
<1>7. \A x \in seen'.body : x < pos + 1
  BY <1>2, <1>4, <1>5
<1>8. /\ Len(scopes') = Len(scopes)
      /\ \A s \in 1..Len(scopes) : scopes'[s].hard = scopes[s].hard
  BY <1>1, <1>3 DEF Milder
<1>9. QED
  BY <1>1, <1>6, <1>7, <1>8, PassingPlaced

LEMMA WriteShortPlaced ==
  ASSUME Inv, Inv', LiveInv, PlacedInv, WriteShort
  PROVE  PlacedInv'
<1>1. /\ Passed(Join(flow, Written)) /\ UNCHANGED path /\ Top > 0 /\ Declaring # {}
      /\ scopes' = Assigned(Referenced, path, FALSE) /\ seen' = SeesWritten(Wrote(Sees))
  BY DEF WriteShort, Passed
<1>2. path \in Seq(Context) /\ Sees \in Seen /\ TypeOK
  BY LiveTypes, SeesTypes DEF Inv
<1>3. seen'.body = IF InBody THEN seen.body \union {pos} ELSE seen.body
  BY <1>1, <1>2, WroteTypes, BodyOf
<1>4. /\ Mono(path) /\ (InBody => Jumpy(path))
      /\ \A x \in seen.body : x < pos /\ x \in Nat
  BY <1>1, PathPlaced
<1>5. seen'.body \subseteq seen.body \union {pos} /\ (pos \in seen'.body => Jumpy(path))
  BY <1>3, <1>4
<1>6. Referenced \in Seq(Scope) /\ Milder(scopes, Referenced)
  BY <1>1, ReferencedIsMilder
<1>7. /\ scopes' \in Seq(Scope) /\ Len(scopes') = Len(scopes)
      /\ \A s \in 1..Len(scopes) : scopes'[s].hard = scopes[s].hard
      /\ WritesPlaced(scopes', open, seen'.body) /\ \A x \in seen'.body : x < pos + 1
  BY <1>1, <1>2, <1>4, <1>5, <1>6, AssignsPlaced
<1>8. QED
  BY <1>1, <1>7, PassingPlaced

LEMMA FirstShortPlaced ==
  ASSUME Inv, Inv', LiveInv, PlacedInv, FirstShort
  PROVE  PlacedInv'
<1>1. /\ Passed(Join(flow, Written)) /\ UNCHANGED path /\ Top > 0 /\ Declaring = {}
      /\ scopes' = Assigned(FirstReferenced, path, FALSE)
      /\ seen' = SeesWritten(Wrote(FirstSees))
  BY DEF FirstShort, Passed
<1>2. /\ path \in Seq(Context) /\ TypeOK /\ FirstSees \in Seen /\ FirstSees.body = seen.body
      /\ seen' = Wrote(FirstSees)
  BY <1>1, LiveTypes, FirstSeesTypes DEF Inv
<1>3. seen'.body = IF InBody THEN seen.body \union {pos} ELSE seen.body
  BY <1>2, BodyOf
<1>4. /\ Mono(path) /\ (InBody => Jumpy(path))
      /\ \A x \in seen.body : x < pos /\ x \in Nat
  BY <1>1, PathPlaced
<1>5. seen'.body \subseteq seen.body \union {pos} /\ (pos \in seen'.body => Jumpy(path))
  BY <1>3, <1>4
<1>6. FirstReferenced \in Seq(Scope) /\ Milder(scopes, FirstReferenced)
  BY <1>1, FirstIsMilder
<1>7. /\ scopes' \in Seq(Scope) /\ Len(scopes') = Len(scopes)
      /\ \A s \in 1..Len(scopes) : scopes'[s].hard = scopes[s].hard
      /\ WritesPlaced(scopes', open, seen'.body) /\ \A x \in seen'.body : x < pos + 1
  BY <1>1, <1>2, <1>4, <1>5, <1>6, AssignsPlaced
<1>8. QED
  BY <1>1, <1>7, PassingPlaced

\* The construct that the walk has turned in.
LEMMA TurnedLast ==
  ASSUME Inv, open # <<>>, NEW fr \in Frame, NEW p, NEW f, Turns(fr, p, f)
  PROVE  Last' = fr /\ path' = p /\ flow' = f /\ pos' = pos /\ Turns(Last', path', flow')
<1>1. open \in Seq(Frame)
  BY LiveTypes
<1>2. open' = [open EXCEPT ![Len(open)] = fr] /\ path' = p /\ flow' = f /\ pos' = pos
  BY DEF Turns
<1>3. Len(open') = Len(open) /\ open'[Len(open)] = fr
  BY <1>1, <1>2, Turned
<1>4. Last' = fr
  BY <1>3 DEF Last
<1>5. QED
  BY <1>2, <1>4

\* Where the construct is, and what it is after the turn.
SamePlace ==
  /\ Last' \in Frame /\ Last'.at = Last.at /\ Last'.scope = Last.scope /\ Last'.path = Last.path
  /\ Last'.end = Last.end /\ UNCHANGED <<scopes, reported, seen, pos>>
  /\ Turns(Last', path', flow')

LEMMA ArmTurns ==
  ASSUME Inv, LiveInv, Arm
  PROVE  /\ open # <<>> /\ Last.kind = "cond" /\ SamePlace
         /\ Last'.kind = "cond" /\ Last'.arm = Last.arm + 1 /\ Last'.entry = Last.entry
         /\ Last'.thrown = Last.thrown /\ Last'.out = Join(Last.out, flow)
         /\ path' = Append(Last.path, Branch(Last.at, Last.arm + 1, FALSE, TRUE))
         /\ flow' = Last.entry
<1> DEFINE fr == [Last EXCEPT !.arm = @ + 1, !.out = Join(@, flow)]
           c == Branch(Last.at, Last.arm + 1, FALSE, TRUE)
<1>1. open # <<>> /\ Last.kind = "cond"
  BY DEF Arm, Inside
<1>2. /\ Last \in Frame /\ Last.arm + 1 \in Nat /\ Last.out \in Flow /\ flow \in Flow
  BY <1>1, WhereInside
<1>3. Join(Last.out, flow) \in Flow
  BY <1>2, JoinType
<1>4. fr \in Frame
  BY <1>2, <1>3 DEF Frame
<1>5. Turns(fr, Append(Last.path, c), Last.entry) /\ UNCHANGED <<scopes, reported, seen>>
  BY DEF Arm
<1>6. /\ Last' = fr /\ path' = Append(Last.path, c) /\ flow' = Last.entry /\ pos' = pos
      /\ Turns(Last', path', flow')
  BY <1>1, <1>4, <1>5, TurnedLast
<1>7. /\ fr.kind = "cond" /\ fr.arm = Last.arm + 1 /\ fr.entry = Last.entry
      /\ fr.thrown = Last.thrown /\ fr.out = Join(Last.out, flow) /\ fr.end = Last.end
      /\ fr.at = Last.at /\ fr.scope = Last.scope /\ fr.path = Last.path
  BY <1>1, <1>2 DEF Frame
<1>8. QED
  BY <1>1, <1>4, <1>5, <1>6, <1>7 DEF SamePlace

LEMMA ElseTurns ==
  ASSUME Inv, LiveInv, Else
  PROVE  /\ open # <<>> /\ Last.kind = "rescue" /\ SamePlace
         /\ Last'.kind = "else" /\ Last'.arm = Last.arm + 1 /\ Last'.entry = Last.entry
         /\ Last'.thrown = Last.thrown /\ Last'.out = Join(Last.out, flow)
         /\ path' = Append(Last.path, Branch(Last.at, Last.arm + 1, FALSE, TRUE))
         /\ flow' = Last.entry
<1> DEFINE fr == [Last EXCEPT !.kind = "else", !.arm = @ + 1, !.out = Join(@, flow)]
           c == Branch(Last.at, Last.arm + 1, FALSE, TRUE)
<1>1. open # <<>> /\ Last.kind = "rescue"
  BY DEF Else, Inside
<1>2. /\ Last \in Frame /\ Last.arm + 1 \in Nat /\ Last.out \in Flow /\ flow \in Flow
  BY <1>1, WhereInside
<1>3. Join(Last.out, flow) \in Flow /\ "else" \in Kinds
  BY <1>2, JoinType DEF Kinds
<1>4. fr \in Frame
  BY <1>2, <1>3 DEF Frame
<1>5. Turns(fr, Append(Last.path, c), Last.entry) /\ UNCHANGED <<scopes, reported, seen>>
  BY DEF Else
<1>6. /\ Last' = fr /\ path' = Append(Last.path, c) /\ flow' = Last.entry /\ pos' = pos
      /\ Turns(Last', path', flow')
  BY <1>1, <1>4, <1>5, TurnedLast
<1>7. /\ fr.kind = "else" /\ fr.arm = Last.arm + 1 /\ fr.entry = Last.entry
      /\ fr.thrown = Last.thrown /\ fr.out = Join(Last.out, flow) /\ fr.end = Last.end
      /\ fr.at = Last.at /\ fr.scope = Last.scope /\ fr.path = Last.path
  BY <1>1, <1>2 DEF Frame
<1>8. QED
  BY <1>1, <1>4, <1>5, <1>6, <1>7 DEF SamePlace

LEMMA RescueTurns ==
  ASSUME Inv, LiveInv, Rescue
  PROVE  /\ open # <<>> /\ Last.kind \in {"begin", "rescue"} /\ SamePlace
         /\ Last'.kind = "rescue" /\ Last'.arm = Last.arm + 1
         /\ Last.kind = "begin" =>
              /\ Last'.entry = flow /\ Last'.out = Last.out
              /\ Last'.thrown = [plain |-> Last.entry.plain, raised |-> Unwinding]
         /\ Last.kind = "rescue" =>
              /\ Last'.entry = Last.entry /\ Last'.out = Join(Last.out, flow)
              /\ Last'.thrown = Last.thrown
         /\ path' = Append(Last.path, Branch(Last.at, Last.arm + 1, FALSE, TRUE))
         /\ flow' = Last'.thrown
<1> DEFINE first == Last.kind = "begin"
           thrown == IF first
                     THEN [plain |-> Last.entry.plain, raised |-> Unwinding]
                     ELSE Last.thrown
           entry == IF first THEN flow ELSE Last.entry
           out == IF first THEN Last.out ELSE Join(Last.out, flow)
           fr == [Last EXCEPT !.kind = "rescue", !.arm = @ + 1, !.thrown = thrown,
                              !.entry = entry, !.out = out]
           c == Branch(Last.at, Last.arm + 1, FALSE, TRUE)
<1>1. open # <<>> /\ Last.kind \in {"begin", "rescue"}
  BY DEF Rescue, Inside
<1>2. /\ Last \in Frame /\ Last.arm + 1 \in Nat /\ Last.out \in Flow /\ flow \in Flow
      /\ Last.entry \in Flow /\ Last.thrown \in Flow /\ Last.end \in Flow
  <2>1. /\ Last \in Frame /\ Last.arm \in Nat /\ Last.out \in Flow /\ flow \in Flow
        /\ Last.entry \in Flow /\ Last.thrown \in Flow
    BY <1>1, WhereInside
  <2>2. Last.end \in Flow
    BY ONLY <2>1 DEF Frame
  <2>3. QED
    BY ONLY <2>1, <2>2
<1>3. Join(Last.out, flow) \in Flow /\ "rescue" \in Kinds
  BY <1>2, JoinType DEF Kinds
<1>4. [plain |-> Last.entry.plain, raised |-> Unwinding] \in Flow
  BY <1>2 DEF Flow, Unwinding
<1>5. thrown \in Flow /\ entry \in Flow /\ out \in Flow
  BY <1>2, <1>3, <1>4
<1>6. Turns(fr, Append(Last.path, c), thrown) /\ UNCHANGED <<scopes, reported, seen>>
  BY DEF Rescue
<1>7. first =>
        /\ entry = flow /\ out = Last.out
        /\ thrown = [plain |-> Last.entry.plain, raised |-> Unwinding]
  OBVIOUS
<1>8. ~first =>
        /\ entry = Last.entry /\ out = Join(Last.out, flow)
        /\ thrown = Last.thrown
  OBVIOUS
<1> HIDE DEF thrown, entry, out
<1>9. fr \in Frame
  BY <1>2, <1>3, <1>5 DEF Frame
<1>10. /\ Last' = fr /\ path' = Append(Last.path, c) /\ flow' = thrown /\ pos' = pos
       /\ Turns(Last', path', flow')
  BY <1>1, <1>6, <1>9, TurnedLast
<1>11. /\ fr.kind = "rescue" /\ fr.arm = Last.arm + 1 /\ fr.entry = entry
       /\ fr.thrown = thrown /\ fr.out = out /\ fr.end = Last.end
       /\ fr.at = Last.at /\ fr.scope = Last.scope /\ fr.path = Last.path
  BY <1>2 DEF Frame
<1> HIDE DEF fr
<1>12. QED
  BY <1>1, <1>6, <1>7, <1>8, <1>9, <1>10, <1>11 DEF SamePlace

LEMMA BodyTurns ==
  ASSUME Inv, LiveInv, Body
  PROVE  /\ open # <<>> /\ Last.kind = "while" /\ SamePlace
         /\ Last'.kind = "body" /\ Last'.arm = Last.arm /\ Last'.entry = Last.entry
         /\ Last'.thrown = Last.thrown /\ Last'.out = flow
         /\ path' = Append(path, Branch(Last.at, 0, FALSE, FALSE))
         /\ flow' = flow
<1> DEFINE fr == [Last EXCEPT !.kind = "body", !.out = flow]
           c == Branch(Last.at, 0, FALSE, FALSE)
<1>1. open # <<>> /\ Last.kind = "while"
  BY DEF Body, Inside
<1>2. Last \in Frame /\ flow \in Flow /\ "body" \in Kinds
  BY <1>1, WhereInside DEF Kinds
<1>3. fr \in Frame
  BY <1>2 DEF Frame
<1>4. Turns(fr, Append(path, c), flow) /\ UNCHANGED <<scopes, reported, seen>>
  BY DEF Body
<1>5. /\ Last' = fr /\ path' = Append(path, c) /\ flow' = flow /\ pos' = pos
      /\ Turns(Last', path', flow')
  BY <1>1, <1>3, <1>4, TurnedLast
<1>6. /\ fr.kind = "body" /\ fr.arm = Last.arm /\ fr.entry = Last.entry
      /\ fr.thrown = Last.thrown /\ fr.out = flow /\ fr.end = Last.end
      /\ fr.at = Last.at /\ fr.scope = Last.scope /\ fr.path = Last.path
  BY <1>1, <1>2 DEF Frame
<1>7. QED
  BY <1>1, <1>3, <1>4, <1>5, <1>6 DEF SamePlace

LEMMA TestTurns ==
  ASSUME Inv, LiveInv, Test
  PROVE  /\ open # <<>> /\ Last.kind = "post" /\ SamePlace
         /\ Last'.kind = "test" /\ Last'.arm = Last.arm /\ Last'.entry = Last.entry
         /\ Last'.thrown = Last.thrown /\ Last'.out = Last.out
         /\ path' = Last.path /\ flow' = flow
<1> DEFINE fr == [Last EXCEPT !.kind = "test"]
<1>1. open # <<>> /\ Last.kind = "post"
  BY DEF Test, Inside
<1>2. Last \in Frame /\ "test" \in Kinds
  BY <1>1, WhereInside DEF Kinds
<1>3. fr \in Frame
  BY <1>2 DEF Frame
<1>4. Turns(fr, Last.path, flow) /\ UNCHANGED <<scopes, reported, seen>>
  BY DEF Test
<1>5. /\ Last' = fr /\ path' = Last.path /\ flow' = flow /\ pos' = pos
      /\ Turns(Last', path', flow')
  BY <1>1, <1>3, <1>4, TurnedLast
<1>6. /\ fr.kind = "test" /\ fr.arm = Last.arm /\ fr.entry = Last.entry
      /\ fr.thrown = Last.thrown /\ fr.out = Last.out /\ fr.end = Last.end
      /\ fr.at = Last.at /\ fr.scope = Last.scope /\ fr.path = Last.path
  BY <1>1, <1>2 DEF Frame
<1>7. QED
  BY <1>1, <1>3, <1>4, <1>5, <1>6 DEF SamePlace

LEMMA EnsureTurns ==
  ASSUME Inv, LiveInv, Ensure
  PROVE  /\ open # <<>> /\ Last.kind \in {"ensured", "rescue", "else"} /\ SamePlace
         /\ Last'.kind = "ensure" /\ Last'.arm = Last.arm
         /\ Last'.entry = (IF Last.kind = "ensured" THEN flow ELSE Rescued)
         /\ Last'.thrown = Last.thrown /\ Last'.out = Last.out
         /\ path' = Last.path
         /\ flow'.plain = Last'.entry.plain
         /\ flow'.raised = Last'.entry.raised \union Unwinding
<1> DEFINE f == IF Last.kind = "ensured" THEN flow ELSE Rescued
           fr == [Last EXCEPT !.kind = "ensure", !.entry = f]
           g == [f EXCEPT !.raised = @ \union Unwinding]
<1>1. open # <<>> /\ Last.kind \in {"ensured", "rescue", "else"}
  BY DEF Ensure, Inside
<1>2. /\ Last \in Frame /\ flow \in Flow /\ "ensure" \in Kinds
      /\ Last.entry \in Flow /\ Last.out \in Flow
  BY <1>1, WhereInside DEF Kinds
<1>3. f \in Flow
  BY <1>2, JoinType DEF Rescued
<1>4. Turns(fr, Last.path, g) /\ UNCHANGED <<scopes, reported, seen>>
  BY DEF Ensure
<1>5. f = (IF Last.kind = "ensured" THEN flow ELSE Rescued)
  OBVIOUS
<1> HIDE DEF f
<1>6. fr \in Frame
  BY <1>2, <1>3 DEF Frame
<1>7. /\ Last' = fr /\ path' = Last.path /\ flow' = g /\ pos' = pos
      /\ Turns(Last', path', flow')
  BY <1>1, <1>4, <1>6, TurnedLast
<1>8. /\ fr.kind = "ensure" /\ fr.arm = Last.arm /\ fr.entry = f
      /\ fr.thrown = Last.thrown /\ fr.out = Last.out /\ fr.end = Last.end
      /\ fr.at = Last.at /\ fr.scope = Last.scope /\ fr.path = Last.path
  BY <1>1, <1>2 DEF Frame
<1>9. g.plain = f.plain /\ g.raised = f.raised \union Unwinding
  BY <1>3 DEF Flow
<1> HIDE DEF fr, g
<1>10. QED
  BY <1>1, <1>4, <1>5, <1>6, <1>7, <1>8, <1>9 DEF SamePlace

\* The walk enters a construct, and nothing else happens.
LEMMA EntersQuietlyPlaced ==
  ASSUME Inv, Inv', LiveInv, PlacedInv, NEW kind \in Kinds, kind \notin Scoping,
         NEW p2 \in Seq(Context), NEW f, Enters(kind, p2, flow, f),
         UNCHANGED <<scopes, reported, seen>>,
         \/ kind \in Straight /\ p2 = path
         \/ /\ kind \notin Straight
            /\ \E c \in Context : /\ p2 = Append(path, c) /\ c.parent = pos /\ c.scope = Top
                                  /\ kind \in {"begin", "ensured"} => c.jumps
  PROVE  PlacedInv'
<1>1. Top > 0 /\ pos' = pos + 1
  BY DEF Enters
<1>2. scopes # <<>> /\ flow \in Flow /\ pos \in Nat
  BY <1>1, Stands, LiveTypes
<1>3. WritesPlaced(scopes', open, seen'.body)
  BY <1>2 DEF PlacedInv, Placed
<1>4. \A x \in seen'.body : x < pos'
  BY <1>1, <1>2, PathPlaced
<1>5. QED
  BY <1>2, <1>3, <1>4, EntersPlaced

LEMMA CondPlaced ==
  ASSUME Inv, Inv', LiveInv, PlacedInv, Cond
  PROVE  PlacedInv'
<1> DEFINE c == Branch(pos, 0, FALSE, TRUE)
<1>1. pos \in Nat /\ Top \in Nat /\ path \in Seq(Context) /\ flow \in Flow
  BY LiveTypes
<1>2. c \in Context /\ c.parent = pos /\ c.scope = Top
  BY <1>1 DEF Branch, Context
<1>3. Enters("cond", Append(path, c), flow, flow) /\ UNCHANGED <<scopes, reported, seen>>
  BY DEF Cond
<1> HIDE DEF c
<1>4. Append(path, c) \in Seq(Context)
  BY <1>1, <1>2
<1>5. /\ "cond" \in Kinds /\ "cond" \notin Scoping /\ "cond" \notin Straight
      /\ "cond" \in {"begin", "ensured"} => c.jumps
  BY <1>2 DEF Kinds, Scoping, Straight
<1>6. QED
  BY <1>1, <1>2, <1>3, <1>4, <1>5, EntersQuietlyPlaced

LEMMA LogicPlaced ==
  ASSUME Inv, Inv', LiveInv, PlacedInv, Logic
  PROVE  PlacedInv'
<1> DEFINE c == Branch(pos, 1, FALSE, FALSE)
<1>1. pos \in Nat /\ Top \in Nat /\ path \in Seq(Context) /\ flow \in Flow
  BY LiveTypes
<1>2. c \in Context /\ c.parent = pos /\ c.scope = Top
  BY <1>1 DEF Branch, Context
<1>3. Enters("logic", Append(path, c), flow, flow) /\ UNCHANGED <<scopes, reported, seen>>
  BY DEF Logic
<1> HIDE DEF c
<1>4. Append(path, c) \in Seq(Context)
  BY <1>1, <1>2
<1>5. /\ "logic" \in Kinds /\ "logic" \notin Scoping /\ "logic" \notin Straight
      /\ "logic" \in {"begin", "ensured"} => c.jumps
  BY <1>2 DEF Kinds, Scoping, Straight
<1>6. QED
  BY <1>1, <1>2, <1>3, <1>4, <1>5, EntersQuietlyPlaced

LEMMA WhilePlaced ==
  ASSUME Inv, Inv', LiveInv, PlacedInv, While
  PROVE  PlacedInv'
<1>1. path \in Seq(Context) /\ flow \in Flow
  BY LiveTypes
<1>2. Enters("while", path, flow, Looping) /\ UNCHANGED <<scopes, reported, seen>>
  BY DEF While
<1>3. "while" \in Kinds /\ "while" \notin Scoping /\ "while" \in Straight
  BY DEF Kinds, Scoping, Straight
<1>4. QED
  BY <1>1, <1>2, <1>3, EntersQuietlyPlaced

LEMMA PostPlaced ==
  ASSUME Inv, Inv', LiveInv, PlacedInv, Post
  PROVE  PlacedInv'
<1> DEFINE c == Branch(pos, 0, FALSE, FALSE)
<1>1. pos \in Nat /\ Top \in Nat /\ path \in Seq(Context) /\ flow \in Flow
  BY LiveTypes
<1>2. c \in Context /\ c.parent = pos /\ c.scope = Top
  BY <1>1 DEF Branch, Context
<1>3. Enters("post", Append(path, c), flow, Looping) /\ UNCHANGED <<scopes, reported, seen>>
  BY DEF Post
<1> HIDE DEF c
<1>4. Append(path, c) \in Seq(Context)
  BY <1>1, <1>2
<1>5. /\ "post" \in Kinds /\ "post" \notin Scoping /\ "post" \notin Straight
      /\ "post" \in {"begin", "ensured"} => c.jumps
  BY <1>2 DEF Kinds, Scoping, Straight
<1>6. QED
  BY <1>1, <1>2, <1>3, <1>4, <1>5, EntersQuietlyPlaced

LEMMA BeginPlaced ==
  ASSUME Inv, Inv', LiveInv, PlacedInv, Begin
  PROVE  PlacedInv'
<1> DEFINE c == Branch(pos, 0, TRUE, TRUE)
<1>1. pos \in Nat /\ Top \in Nat /\ path \in Seq(Context) /\ flow \in Flow
  BY LiveTypes
<1>2. c \in Context /\ c.parent = pos /\ c.scope = Top /\ c.jumps
  BY <1>1 DEF Branch, Context
<1>3. Enters("begin", Append(path, c), flow, flow) /\ UNCHANGED <<scopes, reported, seen>>
  BY DEF Begin
<1> HIDE DEF c
<1>4. Append(path, c) \in Seq(Context)
  BY <1>1, <1>2
<1>5. /\ "begin" \in Kinds /\ "begin" \notin Scoping /\ "begin" \notin Straight
      /\ "begin" \in {"begin", "ensured"} => c.jumps
  BY <1>2 DEF Kinds, Scoping, Straight
<1>6. QED
  BY <1>1, <1>2, <1>3, <1>4, <1>5, EntersQuietlyPlaced

LEMMA EnsuredPlaced ==
  ASSUME Inv, Inv', LiveInv, PlacedInv, Ensured
  PROVE  PlacedInv'
<1> DEFINE c == Branch(pos, 0, TRUE, FALSE)
<1>1. pos \in Nat /\ Top \in Nat /\ path \in Seq(Context) /\ flow \in Flow
  BY LiveTypes
<1>2. c \in Context /\ c.parent = pos /\ c.scope = Top /\ c.jumps
  BY <1>1 DEF Branch, Context
<1>3. Enters("ensured", Append(path, c), flow, flow) /\ UNCHANGED <<scopes, reported, seen>>
  BY DEF Ensured
<1> HIDE DEF c
<1>4. Append(path, c) \in Seq(Context)
  BY <1>1, <1>2
<1>5. /\ "ensured" \in Kinds /\ "ensured" \notin Scoping /\ "ensured" \notin Straight
      /\ "ensured" \in {"begin", "ensured"} => c.jumps
  BY <1>2 DEF Kinds, Scoping, Straight
<1>6. QED
  BY <1>1, <1>2, <1>3, <1>4, <1>5, EntersQuietlyPlaced

LEMMA CondModifiedPlaced ==
  ASSUME Inv, Inv', LiveInv, PlacedInv, CondModified
  PROVE  PlacedInv'
<1> DEFINE c == Branch(pos, 0, FALSE, TRUE)
<1>1. /\ Enters("modifier", Append(path, c), Written, Written)
      /\ scopes' = Assigned(scopes, path, TRUE) /\ seen' = SeesWritten(Wrote(seen))
      /\ Top > 0 /\ pos' = pos + 1
  BY DEF CondModified, Enters
<1>2. /\ scopes \in Seq(Scope) /\ path \in Seq(Context) /\ seen \in Seen /\ TypeOK
      /\ pos \in Nat /\ Top \in Nat /\ Written \in Flow
  BY LiveTypes, FlowTypes DEF Inv, TypeOK, Seen
<1>3. c \in Context /\ c.parent = pos /\ c.scope = Top
  BY <1>2 DEF Branch, Context
<1> HIDE DEF c
<1>4. seen'.body = IF InBody THEN seen.body \union {pos} ELSE seen.body
  BY <1>1, <1>2, WroteTypes, BodyOf
<1>5. /\ Mono(path) /\ (InBody => Jumpy(path))
      /\ \A x \in seen.body : x < pos /\ x \in Nat
  BY <1>1, PathPlaced
<1>6. seen'.body \subseteq seen.body \union {pos} /\ (pos \in seen'.body => Jumpy(path))
  BY <1>4, <1>5
<1>7. Milder(scopes, scopes)
  BY DEF Milder
<1>8. /\ scopes' \in Seq(Scope) /\ Len(scopes') = Len(scopes)
      /\ \A s \in 1..Len(scopes) : scopes'[s].hard = scopes[s].hard
      /\ WritesPlaced(scopes', open, seen'.body) /\ \A x \in seen'.body : x < pos + 1
  BY <1>1, <1>2, <1>5, <1>6, <1>7, AssignsPlaced
<1>9. "modifier" \in Kinds /\ "modifier" \notin Scoping /\ "modifier" \notin Straight
  BY DEF Kinds, Scoping, Straight
<1>10. Append(path, c) \in Seq(Context)
  BY <1>2, <1>3
<1>11. \/ "modifier" \in Straight /\ Append(path, c) = path
       \/ /\ "modifier" \notin Straight
          /\ \E d \in Context :
               /\ Append(path, c) = Append(path, d) /\ d.parent = pos /\ d.scope = Top
               /\ "modifier" \in {"begin", "ensured"} => d.jumps
  BY <1>3, <1>9
<1>12. QED
  BY <1>1, <1>2, <1>8, <1>9, <1>10, <1>11, EntersPlaced

LEMMA DefPlaced ==
  ASSUME Inv, Inv', LiveInv, PlacedInv, Def
  PROVE  PlacedInv'
<1> DEFINE new == NewScope(TRUE)
<1>1. Enters("def", <<>>, flow, NoFlow) /\ scopes' = Append(scopes, new) /\ UNCHANGED seen
  BY DEF Def
<1>2. new \in Scope /\ new.writes = <<>> /\ new.hard
  BY NewScopeType DEF NewScope
<1> HIDE DEF new
<1>3. path \in Seq(Context) /\ <<>> \in Seq(Context) /\ flow \in Flow
  BY LiveTypes
<1>4. "def" \in Kinds /\ "def" \in Scoping
  BY DEF Kinds, Scoping
<1>5. QED
  BY <1>1, <1>2, <1>3, <1>4, EntersScopePlaced

LEMMA ClassPlaced ==
  ASSUME Inv, Inv', LiveInv, PlacedInv, Class
  PROVE  PlacedInv'
<1> DEFINE new == NewScope(TRUE)
<1>1. Enters("class", path, flow, NoFlow) /\ scopes' = Append(scopes, new) /\ UNCHANGED seen
  BY DEF Class
<1>2. new \in Scope /\ new.writes = <<>> /\ new.hard
  BY NewScopeType DEF NewScope
<1> HIDE DEF new
<1>3. path \in Seq(Context) /\ <<>> \in Seq(Context) /\ flow \in Flow
  BY LiveTypes
<1>4. "class" \in Kinds /\ "class" \in Scoping
  BY DEF Kinds, Scoping
<1>5. QED
  BY <1>1, <1>2, <1>3, <1>4, EntersScopePlaced

LEMMA BlockPlaced ==
  ASSUME Inv, Inv', LiveInv, PlacedInv, Block
  PROVE  PlacedInv'
<1> DEFINE new == NewScope(FALSE)
<1>1. /\ scopes' = Append(scopes, new) /\ UNCHANGED seen
      /\ \/ Enters("own", <<>>, flow, NoFlow)
         \/ Enters("block", <<>>, flow, Looping)
  BY DEF Block
<1>2. new \in Scope /\ new.writes = <<>>
  BY NewScopeType
<1> HIDE DEF new
<1>3. <<>> \in Seq(Context) /\ flow \in Flow
  BY LiveTypes
<1>4. /\ {"own", "block"} \subseteq Kinds /\ {"own", "block"} \subseteq Scoping
      /\ "own" \notin {"def", "class"} /\ "block" \notin {"def", "class"}
  BY DEF Kinds, Scoping
<1>5. CASE Enters("own", <<>>, flow, NoFlow)
  BY <1>1, <1>2, <1>3, <1>4, <1>5, EntersScopePlaced
<1>6. CASE Enters("block", <<>>, flow, Looping)
  BY <1>1, <1>2, <1>3, <1>4, <1>6, EntersScopePlaced
<1>7. QED
  BY <1>1, <1>5, <1>6

LEMMA TurnsIntoBranch ==
  ASSUME Inv, Inv', LiveInv, PlacedInv, open # <<>>, SamePlace, Last.kind \notin Scoping,
         Last'.kind \in {"cond", "rescue", "else", "body"},
         NEW q, q = Last.path \/ (Last.kind = "while" /\ q = path),
         NEW c \in Context, c.parent = Last.at, c.scope = Top, path' = Append(q, c)
  PROVE  PlacedInv'
<1>1. /\ Last' \in Frame /\ Last'.at = Last.at /\ Last'.scope = Last.scope
      /\ Last'.path = Last.path /\ UNCHANGED <<scopes, seen>> /\ Turns(Last', path', flow')
  BY DEF SamePlace
<1>2. Last'.kind \notin Scoping /\ Last'.kind \notin Straight \union {"begin", "ensured"}
  BY DEF Scoping, Straight
<1>3. path' \in Seq(Context)
  BY DEF Inv, TypeOK
<1>4. QED
  BY <1>1, <1>2, <1>3, TurnsPlaced

LEMMA ArmPlaced ==
  ASSUME Inv, Inv', LiveInv, PlacedInv, Arm
  PROVE  PlacedInv'
<1> DEFINE c == Branch(Last.at, Last.arm + 1, FALSE, TRUE)
<1>1. /\ open # <<>> /\ Last.kind \in {"cond", "begin", "rescue"} /\ SamePlace
      /\ Last'.kind \in {"cond", "rescue", "else"} /\ path' = Append(Last.path, c)
  BY ArmTurns
<1>2. Last.at \in Nat /\ Last.arm + 1 \in Nat /\ Top \in Nat /\ Last.path \in Seq(Context)
  BY <1>1, WhereInside
<1>3. c \in Context /\ c.parent = Last.at /\ c.scope = Top
  BY <1>2 DEF Branch, Context
<1> HIDE DEF c
<1>4. Last.kind \notin Scoping
  BY <1>1 DEF Scoping
<1>5. QED
  BY <1>1, <1>2, <1>3, <1>4, TurnsIntoBranch

LEMMA ElsePlaced ==
  ASSUME Inv, Inv', LiveInv, PlacedInv, Else
  PROVE  PlacedInv'
<1> DEFINE c == Branch(Last.at, Last.arm + 1, FALSE, TRUE)
<1>1. /\ open # <<>> /\ Last.kind \in {"cond", "begin", "rescue"} /\ SamePlace
      /\ Last'.kind \in {"cond", "rescue", "else"} /\ path' = Append(Last.path, c)
  BY ElseTurns
<1>2. Last.at \in Nat /\ Last.arm + 1 \in Nat /\ Top \in Nat /\ Last.path \in Seq(Context)
  BY <1>1, WhereInside
<1>3. c \in Context /\ c.parent = Last.at /\ c.scope = Top
  BY <1>2 DEF Branch, Context
<1> HIDE DEF c
<1>4. Last.kind \notin Scoping
  BY <1>1 DEF Scoping
<1>5. QED
  BY <1>1, <1>2, <1>3, <1>4, TurnsIntoBranch

LEMMA RescuePlaced ==
  ASSUME Inv, Inv', LiveInv, PlacedInv, Rescue
  PROVE  PlacedInv'
<1> DEFINE c == Branch(Last.at, Last.arm + 1, FALSE, TRUE)
<1>1. /\ open # <<>> /\ Last.kind \in {"cond", "begin", "rescue"} /\ SamePlace
      /\ Last'.kind \in {"cond", "rescue", "else"} /\ path' = Append(Last.path, c)
  BY RescueTurns
<1>2. Last.at \in Nat /\ Last.arm + 1 \in Nat /\ Top \in Nat /\ Last.path \in Seq(Context)
  BY <1>1, WhereInside
<1>3. c \in Context /\ c.parent = Last.at /\ c.scope = Top
  BY <1>2 DEF Branch, Context
<1> HIDE DEF c
<1>4. Last.kind \notin Scoping
  BY <1>1 DEF Scoping
<1>5. QED
  BY <1>1, <1>2, <1>3, <1>4, TurnsIntoBranch

LEMMA BodyPlaced ==
  ASSUME Inv, Inv', LiveInv, PlacedInv, Body
  PROVE  PlacedInv'
<1> DEFINE c == Branch(Last.at, 0, FALSE, FALSE)
<1>1. /\ open # <<>> /\ Last.kind = "while" /\ SamePlace
      /\ Last'.kind = "body" /\ path' = Append(path, c)
  BY BodyTurns
<1>2. Last.at \in Nat /\ Top \in Nat /\ path \in Seq(Context)
  BY <1>1, WhereInside
<1>3. c \in Context /\ c.parent = Last.at /\ c.scope = Top
  BY <1>2 DEF Branch, Context
<1> HIDE DEF c
<1>4. Last.kind \notin Scoping
  BY <1>1 DEF Scoping
<1>5. QED
  BY <1>1, <1>2, <1>3, <1>4, TurnsIntoBranch

LEMMA TestPlaced ==
  ASSUME Inv, Inv', LiveInv, PlacedInv, Test
  PROVE  PlacedInv'
<1>1. /\ open # <<>> /\ Last.kind \in {"post"} /\ SamePlace
      /\ Last'.kind \in {"test", "ensure"} /\ path' = Last.path
  BY TestTurns
<1>2. Last.path \in Seq(Context)
  BY <1>1, WhereInside
<1>3. QED
  BY <1>1, <1>2, TurnsPlaced DEF SamePlace, Scoping, Straight

LEMMA EnsurePlaced ==
  ASSUME Inv, Inv', LiveInv, PlacedInv, Ensure
  PROVE  PlacedInv'
<1>1. /\ open # <<>> /\ Last.kind \in {"ensured", "rescue", "else"} /\ SamePlace
      /\ Last'.kind \in {"test", "ensure"} /\ path' = Last.path
  BY EnsureTurns
<1>2. Last.path \in Seq(Context)
  BY <1>1, WhereInside
<1>3. QED
  BY <1>1, <1>2, TurnsPlaced DEF SamePlace, Scoping, Straight

\* The walk leaves a construct, and nothing else happens; a loop; a scope.
LEMMA LeavesQuietlyPlaced ==
  ASSUME Inv, Inv', LiveInv, PlacedInv,
         EndCond \/ EndLogic \/ EndBegin \/ EndEnsure
  PROVE  PlacedInv'
<1>1. open # <<>> /\ Last.kind \notin Scoping /\ UNCHANGED <<scopes, reported, seen>>
  BY DEF EndCond, EndLogic, EndBegin, EndEnsure, Inside, Scoping
<1>2. \E f : Leaves(f)
  BY DEF EndCond, EndLogic, EndBegin, EndEnsure
<1>3. QED
  BY <1>1, <1>2, SameIsMilder, LeavesPlaced

LEMMA EndLoopPlaced ==
  ASSUME Inv, Inv', LiveInv, PlacedInv, EndWhile \/ EndPost
  PROVE  PlacedInv'
<1>1. /\ open # <<>> /\ Last.kind \notin Scoping /\ scopes' = LoopMarked(Last.at)
      /\ \E left : seen' = Around(Last.at, flow, left)
  BY DEF EndWhile, EndPost, Inside, Scoping
<1>2. \E f : Leaves(f)
  BY DEF EndWhile, EndPost
<1>3. Last.at \in Nat
  BY <1>1, WhereInside
<1>4. Milder(scopes, scopes')
  BY <1>1, <1>3, LoopMarkedIsMilder
<1>5. seen'.body = seen.body
  BY <1>1, BodyOf DEF Inv
<1>6. QED
  BY <1>1, <1>2, <1>4, <1>5, LeavesPlaced

LEMMA EndScopePlaced ==
  ASSUME Inv, Inv', LiveInv, PlacedInv, EndBlock \/ EndOwn
  PROVE  PlacedInv'
<1>1. /\ open # <<>> /\ Last.kind \in Scoping /\ scopes' = SubSeq(scopes, 1, Top - 1)
      /\ \/ seen' = Around(Last.at, flow, {})
         \/ seen' = seen
  BY DEF EndBlock, EndOwn, Inside, Scoping, LeaveScope
<1>2. \E f : Leaves(f)
  BY DEF EndBlock, EndOwn
<1>3. seen'.body = seen.body
  BY <1>1, BodyOf DEF Inv
<1>4. QED
  BY <1>1, <1>2, <1>3, LeavesPlaced

LEMMA InitPlaced == Init => PlacedInv
<1>1. SUFFICES ASSUME Init PROVE PlacedInv
  OBVIOUS
<1> DEFINE new == NewScope(TRUE)
<1>2. new.writes = <<>>
  BY DEF NewScope
<1>3. scopes = <<new>> /\ path = <<>> /\ open = <<>> /\ seen.body = {}
  BY <1>1 DEF Init
<1> HIDE DEF new
<1>4. Len(scopes) = 1 /\ \A s \in 1..Len(scopes) : DOMAIN scopes[s].writes = {}
  BY <1>2, <1>3
<1>5. Contexts(path) = {} /\ DOMAIN open = {} /\ DOMAIN path = {}
  BY <1>3, ContextsOf
<1>6. Place(open, Len(scopes), path, Len(open) + 1)
  BY <1>4, <1>5 DEF Place, Mono, Straightly
<1>7. FramesPlaced(scopes, open) /\ WritesPlaced(scopes, open, seen.body)
  BY <1>4, <1>5 DEF FramesPlaced, WritesPlaced
<1>8. QED
  BY <1>3, <1>6, <1>7 DEF PlacedInv, Placed

-----------------------------------------------------------------------------

\* Whatever the program, the walk is on the branches of the constructs that it is inside of:
\* those of inner scopes last, none from around a block, and the body of a begin on a branch
\* that a jump can leave (Engine::branch_stack).
THEOREM StaysInPlace == Spec => []PlacedInv
<1>1. Inv /\ Inv' /\ LiveInv /\ PlacedInv /\ [Next]_vars => PlacedInv'
  <2>1. SUFFICES ASSUME Inv, Inv', LiveInv, PlacedInv, [Next]_vars PROVE PlacedInv'
    OBVIOUS
  <2>2. CASE Write
    BY <2>1, <2>2, WritePlaced
  <2>3. CASE WriteModified
    BY <2>1, <2>3, WriteModifiedPlaced
  <2>4. CASE WriteShort
    BY <2>1, <2>4, WriteShortPlaced
  <2>5. CASE Read
    BY <2>1, <2>5, ReadPlaced
  <2>6. CASE Cond
    BY <2>1, <2>6, CondPlaced
  <2>7. CASE CondModified
    BY <2>1, <2>7, CondModifiedPlaced
  <2>8. CASE Arm
    BY <2>1, <2>8, ArmPlaced
  <2>9. CASE Logic
    BY <2>1, <2>9, LogicPlaced
  <2>10. CASE While
    BY <2>1, <2>10, WhilePlaced
  <2>11. CASE Body
    BY <2>1, <2>11, BodyPlaced
  <2>12. CASE Post
    BY <2>1, <2>12, PostPlaced
  <2>13. CASE Test
    BY <2>1, <2>13, TestPlaced
  <2>14. CASE Begin
    BY <2>1, <2>14, BeginPlaced
  <2>15. CASE Rescue
    BY <2>1, <2>15, RescuePlaced
  <2>16. CASE Else
    BY <2>1, <2>16, ElsePlaced
  <2>17. CASE Ensured
    BY <2>1, <2>17, EnsuredPlaced
  <2>18. CASE Ensure
    BY <2>1, <2>18, EnsurePlaced
  <2>19. CASE Block
    BY <2>1, <2>19, BlockPlaced
  <2>20. CASE Def
    BY <2>1, <2>20, DefPlaced
  <2>21. CASE Class
    BY <2>1, <2>21, ClassPlaced
  <2>22. CASE EndCond \/ EndLogic \/ EndBegin \/ EndEnsure
    BY <2>1, <2>22, LeavesQuietlyPlaced
  <2>23. CASE EndWhile \/ EndPost
    BY <2>1, <2>23, EndLoopPlaced
  <2>24. CASE EndBlock \/ EndOwn
    BY <2>1, <2>24, EndScopePlaced
  <2>25. CASE EndProgram
    BY <2>25 DEF EndProgram, PlacedInv
  <2>26. CASE UNCHANGED vars
    BY <2>1, <2>26 DEF vars, PlacedInv
  <2>27. CASE FirstShort
    BY <2>1, <2>27, FirstShortPlaced
  <2>28. QED
    BY <2>1, <2>2, <2>3, <2>4, <2>5, <2>6, <2>7, <2>8, <2>9, <2>10, <2>11, <2>12, <2>13, <2>14, <2>15, <2>16, <2>17, <2>18, <2>19, <2>20, <2>21, <2>22, <2>23, <2>24, <2>25, <2>26, <2>27 DEF Next
<1>2. QED
  BY <1>1, Inductive, StaysAlive, InitPlaced, PTL DEF Spec

-----------------------------------------------------------------------------
(* What an exception carries.                                               *)

Begins == {"begin", "rescue", "else", "ensured"}

All(f) == f.plain \union f.raised

\* The values with which an exception may leave a part of the construct, or that it has
\* carried behind one, ...
Held(fr) ==
  (IF fr.kind \in Begins THEN All(fr.end) ELSE {})
  \union
  (IF fr.kind \in {"while", "test", "ensure", "post", "ensured"} THEN {}
   ELSE IF fr.kind = "body" THEN fr.out.raised
   ELSE fr.entry.raised \union fr.out.raised \union fr.thrown.raised)

\* ... and those of them with which a later branch of it may start.
HeldSibling(fr) ==
  IF fr.kind \in {"cond", "begin", "rescue"}
  THEN fr.entry.raised \union fr.thrown.raised
       \union (IF fr.kind = "begin" THEN All(fr.end) ELSE {})
  ELSE {}

\* The walk back from a read may not get to the assignment: it is one of Hidden.
Skipped(ws, s, j, body) ==
  \E l \in j + 1..Len(ws) :
    \/ /\ DOMAIN Relevant(ws[j].path, s) # {} /\ ws[j].at \notin body
       /\ Relevant(ws[l].path, s) = Relevant(ws[j].path, s)
    \/ ws[l].path = <<>>

\* The walk on branch q has left the branch of the assignment, or it may not run.
HasLeft(w, q, s) == w.modifier \/ \E c \in Contexts(w.path) : c.scope >= s /\ c \notin Contexts(q)

\* A read on branch q would mark the assignment, if it is not one of Hidden.
Thrown(ws, s, j, q) ==
  /\ Compatible(ws[j].path, q)
  /\ \A k \in DOMAIN ws : k > j => HasLeft(ws[k], q, s)

\* A read need not mark the assignment.
Settled(sc, s, j, body) ==
  \/ sc[s].writes[j].referenced
  \/ sc[s].captured /\ ~sc[s].writes[j].reassigned
  \/ Skipped(sc[s].writes, s, j, body)

\* Outwards from branch q, in front of the construct lim, reads would mark the assignments in X.
Tossed(sc, op, body, X, level, q, lim) ==
  \A s \in 1..Len(sc) : \A j \in DOMAIN sc[s].writes : sc[s].writes[j].at \in X =>
    /\ Reach(sc, s, level)
    /\ \/ Settled(sc, s, j, body)
       \/ /\ Thrown(sc[s].writes, s, j, q)
          /\ \A b \in DOMAIN op : b < lim /\ op[b].kind \in Scoping /\ op[b].scope >= s =>
               Thrown(sc[s].writes, s, j, op[b].path)

HeldAside(sc, fr) ==
  \A s \in 1..Len(sc) : \A j \in DOMAIN sc[s].writes :
    sc[s].writes[j].at \in HeldSibling(fr) =>
      \A c \in Contexts(sc[s].writes[j].path) : c.parent = fr.at => c.jumps

HeldOK(sc, op, n, rep, body) ==
  \A i \in DOMAIN op :
    /\ Unreported(Held(op[i]), n, rep)
    /\ Tossed(sc, op, body, Held(op[i]), op[i].scope, op[i].path, i)
    /\ HeldAside(sc, op[i])

RSeenOK(sc, n, rep, X) ==
  /\ Unreported(X, n, rep)
  /\ \A s \in 1..Len(sc) : \A j \in DOMAIN sc[s].writes : sc[s].writes[j].at \in X =>
       sc[s].writes[j].referenced \/ (sc[s].captured /\ ~sc[s].writes[j].reassigned)

RaisedInv ==
  /\ RSeenOK(scopes, pos, reported, seen.raised)
  /\ scopes # <<>> =>
       /\ HeldOK(scopes, open, pos, reported, seen.body)
       /\ Unreported(flow.raised, pos, reported)
       /\ Tossed(scopes, open, seen.body, flow.raised, Top, path, Len(open) + 1)

-----------------------------------------------------------------------------

LEMMA ThrownOutside ==
  ASSUME NEW ws, NEW s, NEW j, NEW q, NEW r,
         Thrown(ws, s, j, q), Contexts(r) \subseteq Contexts(q)
  PROVE  Thrown(ws, s, j, r)
  BY DEF Thrown, Compatible, HasLeft

LEMMA ThrownInside ==
  ASSUME NEW ws, NEW s, NEW j, NEW q, NEW r, NEW c,
         Thrown(ws, s, j, q), Contexts(r) \subseteq Contexts(q) \union {c},
         \A d \in Contexts(ws[j].path) : d.parent = c.parent => d.child = c.child \/ d.jumps,
         \A k \in DOMAIN ws : c \notin Contexts(ws[k].path)
  PROVE  Thrown(ws, s, j, r)
  BY DEF Thrown, Compatible, HasLeft

LEMMA TossedTogether ==
  ASSUME NEW sc, NEW op, NEW body, NEW X, NEW Y, NEW Z, NEW level, NEW q, NEW lim,
         Tossed(sc, op, body, X, level, q, lim), Tossed(sc, op, body, Y, level, q, lim),
         Z \subseteq X \union Y
  PROVE  Tossed(sc, op, body, Z, level, q, lim)
  BY DEF Tossed

LEMMA TossedOut ==
  ASSUME NEW sc, NEW op, NEW body, NEW X, NEW level, NEW q, NEW lim, NEW r,
         Tossed(sc, op, body, X, level, q, lim), Contexts(r) \subseteq Contexts(q)
  PROVE  Tossed(sc, op, body, X, level, r, lim)
  BY ThrownOutside DEF Tossed

LEMMA TossedIn ==
  ASSUME NEW sc, NEW op, NEW body, NEW X, NEW level, NEW q, NEW lim, NEW r, NEW c,
         Tossed(sc, op, body, X, level, q, lim), Contexts(r) \subseteq Contexts(q) \union {c},
         \A s \in 1..Len(sc) : \A j \in DOMAIN sc[s].writes :
           /\ c \notin Contexts(sc[s].writes[j].path)
           /\ sc[s].writes[j].at \in X =>
                \A d \in Contexts(sc[s].writes[j].path) :
                  d.parent = c.parent => d.child = c.child \/ d.jumps
  PROVE  Tossed(sc, op, body, X, level, r, lim)
  BY ThrownInside DEF Tossed

LEMMA TossedAmong ==
  ASSUME NEW sc, NEW op, NEW body, NEW X, NEW level, NEW q, NEW lim, NEW op2, NEW lim2,
         Tossed(sc, op, body, X, level, q, lim),
         \A b \in DOMAIN op2 : b < lim2 /\ op2[b].kind \in Scoping =>
           /\ b \in DOMAIN op /\ b < lim /\ op[b].kind \in Scoping
           /\ op[b].scope = op2[b].scope /\ op[b].path = op2[b].path
  PROVE  Tossed(sc, op2, body, X, level, q, lim2)
  BY DEF Tossed

LEMMA SameLength ==
  ASSUME NEW m \in Nat, NEW n \in Nat, 1..m = 1..n
  PROVE  m = n
<1>1. ~ m < n
  <2>1. SUFFICES ASSUME m < n PROVE FALSE
    OBVIOUS
  <2>2. n \in 1..n /\ n \notin 1..m
    BY <2>1
  <2>3. QED
    BY <2>2
<1>2. ~ n < m
  <2>1. SUFFICES ASSUME n < m PROVE FALSE
    OBVIOUS
  <2>2. m \in 1..m /\ m \notin 1..n
    BY <2>1
  <2>3. QED
    BY <2>2
<1>3. QED
  BY <1>1, <1>2

\* Marking assignments keeps all of it.
LEMMA MilderSkipped ==
  ASSUME NEW sc \in Seq(Scope), NEW sc2 \in Seq(Scope), Milder(sc, sc2), NEW s \in 1..Len(sc),
         NEW j \in DOMAIN sc[s].writes, NEW body
  PROVE  Skipped(sc2[s].writes, s, j, body) <=> Skipped(sc[s].writes, s, j, body)
<1> DEFINE ws == sc[s].writes
           w2 == sc2[s].writes
<1>1. s \in 1..Len(sc2)
  BY DEF Milder
<1>2. DOMAIN ws = 1..Len(ws) /\ DOMAIN w2 = 1..Len(w2) /\ Len(ws) \in Nat /\ Len(w2) \in Nat
  BY <1>1, WriteTypes
<1>3. /\ DOMAIN w2 = DOMAIN ws
      /\ \A k \in DOMAIN ws : w2[k].path = ws[k].path /\ w2[k].at = ws[k].at
  BY DEF Milder
<1> HIDE DEF ws, w2
<1>4. Len(w2) = Len(ws)
  <2>1. 1..Len(w2) = 1..Len(ws)
    BY <1>2, <1>3
  <2>2. QED
    BY <1>2, <2>1, SameLength
<1>5. j \in DOMAIN ws
  BY DEF ws
<1>6. \A l \in j + 1..Len(ws) : l \in DOMAIN ws
  BY <1>2, <1>5
<1>7. QED
  BY <1>3, <1>4, <1>5, <1>6 DEF Skipped, ws, w2

LEMMA MilderSettled ==
  ASSUME NEW sc \in Seq(Scope), NEW sc2 \in Seq(Scope), Milder(sc, sc2), NEW s \in 1..Len(sc),
         NEW j \in DOMAIN sc[s].writes, NEW body, Settled(sc, s, j, body)
  PROVE  Settled(sc2, s, j, body)
<1>1. /\ sc[s].captured => sc2[s].captured
      /\ sc2[s].writes[j].reassigned = sc[s].writes[j].reassigned
      /\ sc[s].writes[j].referenced => sc2[s].writes[j].referenced
  BY DEF Milder
<1>2. QED
  BY <1>1, MilderSkipped DEF Settled

LEMMA MilderThrown ==
  ASSUME NEW sc \in Seq(Scope), NEW sc2 \in Seq(Scope), Milder(sc, sc2), NEW s \in 1..Len(sc),
         NEW j \in DOMAIN sc[s].writes, NEW q, Thrown(sc[s].writes, s, j, q)
  PROVE  Thrown(sc2[s].writes, s, j, q)
<1>1. /\ DOMAIN sc2[s].writes = DOMAIN sc[s].writes
      /\ \A k \in DOMAIN sc[s].writes :
           /\ sc2[s].writes[k].path = sc[s].writes[k].path
           /\ sc2[s].writes[k].modifier = sc[s].writes[k].modifier
  BY DEF Milder
<1>2. QED
  BY <1>1 DEF Thrown, HasLeft

LEMMA MilderTossed ==
  ASSUME NEW sc \in Seq(Scope), NEW sc2 \in Seq(Scope), Milder(sc, sc2),
         NEW op, NEW body, NEW X, NEW level \in 1..Len(sc), NEW q, NEW lim,
         Tossed(sc, op, body, X, level, q, lim)
  PROVE  Tossed(sc2, op, body, X, level, q, lim)
<1>1. SUFFICES ASSUME NEW s \in 1..Len(sc), NEW j \in DOMAIN sc[s].writes,
                      sc[s].writes[j].at \in X
               PROVE  /\ Reach(sc2, s, level)
                      /\ \/ Settled(sc2, s, j, body)
                         \/ /\ Thrown(sc2[s].writes, s, j, q)
                            /\ \A b \in DOMAIN op :
                                 b < lim /\ op[b].kind \in Scoping /\ op[b].scope >= s =>
                                   Thrown(sc2[s].writes, s, j, op[b].path)
  BY DEF Tossed, Milder
<1>2. /\ Reach(sc, s, level)
      /\ \/ Settled(sc, s, j, body)
         \/ /\ Thrown(sc[s].writes, s, j, q)
            /\ \A b \in DOMAIN op : b < lim /\ op[b].kind \in Scoping /\ op[b].scope >= s =>
                 Thrown(sc[s].writes, s, j, op[b].path)
  BY <1>1 DEF Tossed
<1>3. Reach(sc2, s, level)
  BY <1>2, MilderReach
<1>4. QED
  BY <1>2, <1>3, MilderSettled, MilderThrown

LEMMA MilderHeld ==
  ASSUME NEW sc \in Seq(Scope), NEW sc2 \in Seq(Scope), Milder(sc, sc2),
         NEW op, NEW n, NEW rep, NEW body, HeldOK(sc, op, n, rep, body),
         \A i \in DOMAIN op : op[i].scope \in 1..Len(sc)
  PROVE  HeldOK(sc2, op, n, rep, body)
<1>1. SUFFICES ASSUME NEW i \in DOMAIN op
               PROVE  /\ Unreported(Held(op[i]), n, rep)
                      /\ Tossed(sc2, op, body, Held(op[i]), op[i].scope, op[i].path, i)
                      /\ HeldAside(sc2, op[i])
  BY DEF HeldOK
<1>2. /\ Unreported(Held(op[i]), n, rep)
      /\ Tossed(sc, op, body, Held(op[i]), op[i].scope, op[i].path, i)
      /\ HeldAside(sc, op[i])
  BY DEF HeldOK
<1>3. HeldAside(sc2, op[i])
  BY <1>2 DEF HeldAside, Milder
<1>4. QED
  BY <1>2, <1>3, MilderTossed

\* An assignment hides no other that was settled, and settles the others if it is in a block.
LEMMA AddsSettled ==
  ASSUME NEW sc \in Seq(Scope), NEW sc2 \in Seq(Scope), NEW s \in 1..Len(sc),
         NEW n, NEW p, NEW modifier, Adds(sc, sc2, s, n, p, modifier),
         NEW t \in 1..Len(sc), NEW j \in DOMAIN sc[t].writes, sc[t].writes[j].at # n,
         NEW body, NEW body2, body2 \subseteq body \union {n}
  PROVE  /\ Settled(sc, t, j, body) => Settled(sc2, t, j, body2)
         /\ t = s /\ p = <<>> => Settled(sc2, t, j, body2)
<1>1. CASE t # s
  <2>1. sc2[t] = sc[t]
    BY <1>1 DEF Adds
  <2>2. Skipped(sc[t].writes, t, j, body) => Skipped(sc[t].writes, t, j, body2)
    BY DEF Skipped
  <2>3. QED
    BY <1>1, <2>1, <2>2 DEF Settled
<1>2. CASE t = s
  <2> DEFINE ws == sc[s].writes
             w2 == sc2[s].writes
             l == Len(ws)
  <2>1. l \in Nat /\ DOMAIN ws = 1..l /\ Len(w2) = l + 1 /\ j \in 1..l
    BY <1>2, WriteTypes DEF Adds
  <2>2. /\ w2[l + 1].path = p
        /\ \A k \in 1..l : w2[k].path = ws[k].path /\ w2[k].at = ws[k].at
        /\ w2[j].referenced <=> ws[j].referenced
        /\ w2[j].reassigned <=>
             ws[j].reassigned \/ (~sc2[s].captured /\ Overwrites(ws, s, p, j))
        /\ sc2[s].captured <=> sc[s].captured \/ s # Len(sc)
    <3>1. w2[l + 1].path = p
      BY DEF Adds
    <3>2. \A k \in 1..l : w2[k].path = ws[k].path /\ w2[k].at = ws[k].at
      BY DEF Adds
    <3>3. w2[j].referenced <=> ws[j].referenced
      BY <2>1 DEF Adds
    <3>4. w2[j].reassigned <=>
            ws[j].reassigned \/ (~sc2[s].captured /\ Overwrites(ws, s, p, j))
      BY <2>1 DEF Adds
    <3>5. sc2[s].captured <=> sc[s].captured \/ s # Len(sc)
      BY DEF Adds
    <3>6. QED
      BY <3>1, <3>2, <3>3, <3>4, <3>5
  <2>3. l + 1 \in j + 1..Len(w2)
    BY <2>1
  <2>4. ws[j].at # n
    BY <1>2
  <2> HIDE DEF ws, w2, l
  <2>5. Skipped(ws, s, j, body) => Skipped(w2, s, j, body2)
    <3>1. SUFFICES ASSUME NEW k \in j + 1..Len(ws),
                          \/ /\ DOMAIN Relevant(ws[j].path, s) # {} /\ ws[j].at \notin body
                             /\ Relevant(ws[k].path, s) = Relevant(ws[j].path, s)
                          \/ ws[k].path = <<>>
                   PROVE  Skipped(w2, s, j, body2)
      BY DEF Skipped
    <3>2. k \in 1..l /\ k \in j + 1..Len(w2)
      BY <2>1 DEF l
    <3>3. w2[k].path = ws[k].path /\ w2[j].path = ws[j].path /\ w2[j].at = ws[j].at
      BY <2>1, <2>2, <3>2
    <3>4. ws[j].at \notin body => w2[j].at \notin body2
      BY <2>4, <3>3
    <3>5. QED
      BY <3>1, <3>2, <3>3, <3>4 DEF Skipped
  <2>6. p = <<>> => Skipped(w2, s, j, body2)
    BY <2>2, <2>3 DEF Skipped
  <2>7. ws[j].referenced \/ (sc[s].captured /\ ~ws[j].reassigned) \/ Skipped(ws, s, j, body)
          => w2[j].referenced \/ (sc2[s].captured /\ ~w2[j].reassigned)
               \/ Skipped(w2, s, j, body2)
    BY <2>2, <2>5
  <2>8. QED
    BY <1>2, <2>6, <2>7 DEF Settled, ws, w2
<1>3. QED
  BY <1>1, <1>2

LEMMA AddsThrown ==
  ASSUME NEW sc \in Seq(Scope), NEW sc2 \in Seq(Scope), NEW s \in 1..Len(sc),
         NEW n, NEW p, NEW modifier, Adds(sc, sc2, s, n, p, modifier),
         NEW t \in 1..Len(sc), NEW j \in DOMAIN sc[t].writes, NEW q,
         Thrown(sc[t].writes, t, j, q),
         t = s => modifier \/ \E c \in Contexts(p) : c.scope >= s /\ c \notin Contexts(q)
  PROVE  Thrown(sc2[t].writes, t, j, q)
<1>1. CASE t # s
  BY <1>1 DEF Adds
<1>2. CASE t = s
  <2> DEFINE ws == sc[s].writes
             w2 == sc2[s].writes
             l == Len(ws)
  <2>1. l \in Nat /\ DOMAIN ws = 1..l /\ DOMAIN w2 = 1..l + 1 /\ j \in 1..l
    BY <1>2, WriteTypes DEF Adds
  <2>2. /\ w2[l + 1].path = p /\ w2[l + 1].modifier = modifier
        /\ \A k \in 1..l : w2[k].path = ws[k].path /\ w2[k].modifier = ws[k].modifier
    BY <2>1 DEF Adds
  <2> HIDE DEF ws, w2, l
  <2>3. Compatible(w2[j].path, q)
    BY <1>2, <2>1, <2>2 DEF Thrown, ws
  <2>4. ASSUME NEW k \in DOMAIN w2, k > j PROVE HasLeft(w2[k], q, s)
    <3>1. CASE k = l + 1
      BY <1>2, <2>2, <3>1 DEF HasLeft
    <3>2. CASE k # l + 1
      <4>1. k \in 1..l
        <5>1. k \in 1..l + 1
          BY <2>1
        <5>2. l \in Nat
          BY <2>1
        <5>3. QED
          BY <3>2, <5>1, <5>2
      <4>2. HasLeft(ws[k], q, s)
        BY <1>2, <2>1, <2>4, <4>1 DEF Thrown, ws
      <4>3. QED
        BY <2>2, <4>1, <4>2 DEF HasLeft
    <3>3. QED
      BY <3>1, <3>2
  <2>5. QED
    BY <1>2, <2>3, <2>4 DEF Thrown, w2
<1>3. QED
  BY <1>1, <1>2

\* The assignment on p in scope s parts with the reads on q and around it.
PartsAround(op, p, modifier, s, q, lim) ==
  \/ p = <<>> \/ modifier
  \/ /\ \E c \in Contexts(p) : c.scope >= s /\ c \notin Contexts(q)
     /\ \A b \in DOMAIN op : b < lim /\ op[b].kind \in Scoping /\ op[b].scope >= s =>
          \E c \in Contexts(p) : c.scope >= s /\ c \notin Contexts(op[b].path)

LEMMA AddsTossed ==
  ASSUME NEW sc \in Seq(Scope), NEW sc2 \in Seq(Scope), NEW s \in 1..Len(sc),
         NEW n, NEW p, NEW modifier, Adds(sc, sc2, s, n, p, modifier),
         NEW body, NEW body2, body2 \subseteq body \union {n},
         NEW op, NEW X, NEW level \in 1..Len(sc), NEW q, NEW lim,
         Tossed(sc, op, body, X, level, q, lim), n \notin X,
         \/ \A j \in DOMAIN sc[s].writes : sc[s].writes[j].at \in X => Settled(sc, s, j, body)
         \/ s <= level => PartsAround(op, p, modifier, s, q, lim)
  PROVE  Tossed(sc2, op, body2, X, level, q, lim)
<1>1. SUFFICES ASSUME NEW t \in 1..Len(sc), NEW j \in DOMAIN sc2[t].writes,
                      sc2[t].writes[j].at \in X
               PROVE  /\ Reach(sc2, t, level)
                      /\ \/ Settled(sc2, t, j, body2)
                         \/ /\ Thrown(sc2[t].writes, t, j, q)
                            /\ \A b \in DOMAIN op :
                                 b < lim /\ op[b].kind \in Scoping /\ op[b].scope >= t =>
                                   Thrown(sc2[t].writes, t, j, op[b].path)
  BY DEF Tossed, Adds
<1>2. j \in DOMAIN sc[t].writes /\ sc[t].writes[j].at = sc2[t].writes[j].at
  <2>1. CASE t # s
    BY <2>1 DEF Adds
  <2>2. CASE t = s
    <3> DEFINE l == Len(sc[s].writes)
    <3>1. /\ l \in Nat /\ DOMAIN sc[s].writes = 1..l /\ DOMAIN sc2[s].writes = 1..l + 1
          /\ sc2[s].writes[l + 1].at = n
          /\ \A k \in 1..l : sc2[s].writes[k].at = sc[s].writes[k].at
      BY WriteTypes DEF Adds
    <3> HIDE DEF l
    <3>2. j # l + 1
      BY <1>1, <2>2, <3>1
    <3>3. j \in 1..l
      BY <1>1, <2>2, <3>1, <3>2
    <3>4. QED
      BY <2>2, <3>1, <3>3
  <2>3. QED
    BY <2>1, <2>2
<1>3. /\ Reach(sc, t, level)
      /\ \/ Settled(sc, t, j, body)
         \/ /\ Thrown(sc[t].writes, t, j, q)
            /\ \A b \in DOMAIN op : b < lim /\ op[b].kind \in Scoping /\ op[b].scope >= t =>
                 Thrown(sc[t].writes, t, j, op[b].path)
  BY <1>1, <1>2 DEF Tossed
<1>4. Reach(sc2, t, level)
  BY <1>3, AddsReach
<1>5. sc[t].writes[j].at # n
  BY <1>1, <1>2
<1>6. /\ Settled(sc, t, j, body) => Settled(sc2, t, j, body2)
      /\ t = s /\ p = <<>> => Settled(sc2, t, j, body2)
  BY <1>2, <1>5, AddsSettled
<1>7. CASE Settled(sc2, t, j, body2)
  BY <1>4, <1>7
<1>8. CASE ~Settled(sc2, t, j, body2)
  <2>1. /\ Thrown(sc[t].writes, t, j, q)
        /\ \A b \in DOMAIN op : b < lim /\ op[b].kind \in Scoping /\ op[b].scope >= t =>
             Thrown(sc[t].writes, t, j, op[b].path)
    BY <1>3, <1>6, <1>8
  <2>2. ASSUME t = s
        PROVE  \/ modifier
               \/ /\ \E c \in Contexts(p) : c.scope >= s /\ c \notin Contexts(q)
                  /\ \A b \in DOMAIN op : b < lim /\ op[b].kind \in Scoping /\ op[b].scope >= s =>
                       \E c \in Contexts(p) : c.scope >= s /\ c \notin Contexts(op[b].path)
    <3>1. ~Settled(sc, s, j, body) /\ sc[s].writes[j].at \in X /\ p # <<>>
      BY <1>1, <1>2, <1>6, <1>8, <2>2
    <3>2. s <= level
      BY <1>3, <2>2 DEF Reach
    <3>3. QED
      BY <1>2, <2>2, <3>1, <3>2 DEF PartsAround
  <2>3. ASSUME NEW r, Thrown(sc[t].writes, t, j, r),
               t = s => modifier \/ \E c \in Contexts(p) : c.scope >= s /\ c \notin Contexts(r)
        PROVE  Thrown(sc2[t].writes, t, j, r)
    BY <1>2, <2>3, AddsThrown
  <2>4. Thrown(sc2[t].writes, t, j, q)
    BY <2>1, <2>2, <2>3
  <2>5. ASSUME NEW b \in DOMAIN op, b < lim, op[b].kind \in Scoping, op[b].scope >= t
        PROVE  Thrown(sc2[t].writes, t, j, op[b].path)
    <3>1. Thrown(sc[t].writes, t, j, op[b].path)
      BY <2>1, <2>5
    <3>2. t = s => modifier \/ \E c \in Contexts(p) :
                                 c.scope >= s /\ c \notin Contexts(op[b].path)
      BY <2>2, <2>5
    <3>3. QED
      BY <2>3, <3>1, <3>2
  <2>6. QED
    BY <1>4, <2>4, <2>5
<1>9. QED
  BY <1>7, <1>8

LEMMA AddsTossedModified ==
  ASSUME NEW sc \in Seq(Scope), NEW sc2 \in Seq(Scope), NEW s \in 1..Len(sc),
         NEW n, NEW p, Adds(sc, sc2, s, n, p, TRUE),
         NEW body, NEW body2, body2 \subseteq body \union {n},
         NEW op, NEW X, NEW level \in 1..Len(sc), NEW q, NEW lim,
         Tossed(sc, op, body, X, level, q, lim), n \notin X
  PROVE  Tossed(sc2, op, body2, X, level, q, lim)
<1>1. PartsAround(op, p, TRUE, s, q, lim)
  BY DEF PartsAround
<1>2. QED
  BY <1>1, AddsTossed

LEMMA AddsTossedSettled ==
  ASSUME NEW sc \in Seq(Scope), NEW sc2 \in Seq(Scope), NEW s \in 1..Len(sc),
         NEW n, NEW p, NEW modifier, Adds(sc, sc2, s, n, p, modifier),
         NEW body, NEW body2, body2 \subseteq body \union {n},
         NEW op, NEW X, NEW level \in 1..Len(sc), NEW q, NEW lim,
         Tossed(sc, op, body, X, level, q, lim), n \notin X,
         \A j \in DOMAIN sc[s].writes : sc[s].writes[j].at \in X => Settled(sc, s, j, body)
  PROVE  Tossed(sc2, op, body2, X, level, q, lim)
  BY AddsTossed

LEMMA AddsAside ==
  ASSUME NEW sc \in Seq(Scope), NEW sc2 \in Seq(Scope), NEW s \in 1..Len(sc),
         NEW n, NEW p, NEW modifier, Adds(sc, sc2, s, n, p, modifier),
         NEW fr, HeldAside(sc, fr), n \notin HeldSibling(fr)
  PROVE  HeldAside(sc2, fr)
<1>1. SUFFICES ASSUME NEW t \in 1..Len(sc), NEW j \in DOMAIN sc2[t].writes,
                      sc2[t].writes[j].at \in HeldSibling(fr),
                      NEW c \in Contexts(sc2[t].writes[j].path), c.parent = fr.at
               PROVE  c.jumps
  BY DEF HeldAside, Adds
<1>2. CASE t # s
  BY <1>1, <1>2 DEF HeldAside, Adds
<1>3. CASE t = s
  <2> DEFINE l == Len(sc[s].writes)
  <2>1. /\ l \in Nat /\ DOMAIN sc[s].writes = 1..l /\ DOMAIN sc2[s].writes = 1..l + 1
        /\ sc2[s].writes[l + 1].at = n
        /\ \A k \in 1..l : /\ sc2[s].writes[k].at = sc[s].writes[k].at
                           /\ sc2[s].writes[k].path = sc[s].writes[k].path
    <3>1. l \in Nat /\ DOMAIN sc[s].writes = 1..l
      BY WriteTypes
    <3>2. DOMAIN sc2[s].writes = 1..Len(sc2[s].writes)
      BY WriteTypes DEF Adds
    <3> HIDE DEF l
    <3>3. /\ Len(sc2[s].writes) = l + 1 /\ sc2[s].writes[l + 1].at = n
          /\ \A k \in 1..l : /\ sc2[s].writes[k].at = sc[s].writes[k].at
                             /\ sc2[s].writes[k].path = sc[s].writes[k].path
      <4>1. /\ Len(sc2[s].writes) = l + 1
            /\ sc2[s].writes[l + 1] =
                 [at |-> n, path |-> p, modifier |-> modifier, referenced |-> FALSE,
                  reassigned |-> FALSE]
        BY DEF Adds, l
      <4>2. \A k \in 1..l : /\ sc2[s].writes[k].at = sc[s].writes[k].at
                            /\ sc2[s].writes[k].path = sc[s].writes[k].path
        BY DEF Adds, l
      <4>3. QED
        BY ONLY <4>1, <4>2
    <3>4. QED
      BY ONLY <3>1, <3>2, <3>3
  <2> HIDE DEF l
  <2>2. j # l + 1
    BY <1>1, <1>3, <2>1
  <2>3. j \in 1..l
    BY <1>1, <1>3, <2>1, <2>2
  <2>4. QED
    BY <1>1, <1>3, <2>1, <2>3 DEF HeldAside
<1>4. QED
  BY <1>2, <1>3

\* An assignment keeps what the constructs hold, if it parts with each that holds something.
LEMMA AddsHeld ==
  ASSUME NEW sc \in Seq(Scope), NEW sc2 \in Seq(Scope), NEW s \in 1..Len(sc),
         NEW n \in Nat, NEW p, NEW modifier, Adds(sc, sc2, s, n, p, modifier),
         NEW body, NEW body2, body2 \subseteq body \union {n},
         NEW op \in Seq(Frame), NEW rep, HeldOK(sc, op, n, rep, body),
         \A i \in DOMAIN op : op[i].scope \in 1..Len(sc) /\ Held(op[i]) \subseteq Nat,
         \A i \in DOMAIN op : op[i].kind \notin Straight /\ s <= op[i].scope =>
           PartsAround(op, p, modifier, s, op[i].path, i)
  PROVE  HeldOK(sc2, op, n + 1, rep, body2)
<1>1. SUFFICES ASSUME NEW i \in DOMAIN op
               PROVE  /\ Unreported(Held(op[i]), n + 1, rep)
                      /\ Tossed(sc2, op, body2, Held(op[i]), op[i].scope, op[i].path, i)
                      /\ HeldAside(sc2, op[i])
  BY DEF HeldOK
<1>2. /\ Unreported(Held(op[i]), n, rep)
      /\ Tossed(sc, op, body, Held(op[i]), op[i].scope, op[i].path, i)
      /\ HeldAside(sc, op[i])
  BY DEF HeldOK
<1>3. \A x \in Held(op[i]) : x < n /\ x \notin rep /\ x \in Nat
  BY <1>2 DEF Unreported
<1>4. n \notin Held(op[i]) /\ Unreported(Held(op[i]), n + 1, rep)
  BY <1>3 DEF Unreported
<1>5. HeldSibling(op[i]) \subseteq Held(op[i])
  BY DEF HeldSibling, Held, Begins
<1>6. HeldAside(sc2, op[i])
  BY <1>2, <1>4, <1>5, AddsAside
<1>7. CASE op[i].kind \in Straight
  <2>1. Held(op[i]) = {}
    BY <1>7 DEF Held, Straight, Begins
  <2>2. QED
    BY <1>4, <1>6, <2>1 DEF Tossed
<1>8. CASE op[i].kind \notin Straight
  <2>1. s <= op[i].scope => PartsAround(op, p, modifier, s, op[i].path, i)
    BY <1>8
  <2>2. op[i].scope \in 1..Len(sc)
    OBVIOUS
  <2>3. Tossed(sc2, op, body2, Held(op[i]), op[i].scope, op[i].path, i)
    BY <1>2, <1>4, <2>1, <2>2, AddsTossed
  <2>4. QED
    BY <1>4, <1>6, <2>3
<1>9. QED
  BY <1>7, <1>8

-----------------------------------------------------------------------------
(* Where the constructs are.                                                *)

\* The facts about the nesting that the proofs need.
LEMMA Nested ==
  ASSUME NEW top \in Nat, NEW op \in Seq(Frame), NEW n, NestOK(top, op, n)
  PROVE  /\ \A i \in DOMAIN op : op[i].scope \in 1..top /\ After(op[i]) <= top /\ op[i].at < n
         /\ \A i, m \in DOMAIN op : i < m =>
              /\ op[i].at < op[m].at /\ After(op[i]) <= op[m].scope
              /\ op[i].scope <= op[m].scope
              /\ op[i].kind \in Scoping => op[i].scope < op[m].scope
         /\ \A i, m \in DOMAIN op : op[i].kind \in Scoping /\ op[i].scope >= op[m].scope => m <= i
<1>1. \A i \in DOMAIN op : op[i].scope \in 1..top /\ After(op[i]) <= top /\ op[i].at < n
  BY NestFacts DEF NestOK
<1>2. \A i, m \in DOMAIN op : i < m =>
        /\ op[i].at < op[m].at /\ After(op[i]) <= op[m].scope
        /\ op[i].scope <= op[m].scope
        /\ op[i].kind \in Scoping => op[i].scope < op[m].scope
  <2>1. SUFFICES ASSUME NEW i \in DOMAIN op, NEW m \in DOMAIN op, i < m
                 PROVE  /\ op[i].at < op[m].at /\ After(op[i]) <= op[m].scope
                        /\ op[i].scope <= op[m].scope
                        /\ op[i].kind \in Scoping => op[i].scope < op[m].scope
    OBVIOUS
  <2>2. op[i].at < op[m].at /\ After(op[i]) <= op[m].scope
    BY <2>1 DEF NestOK
  <2>3. op[i].scope \in Nat /\ op[m].scope \in Nat
    BY FrameTypes
  <2>4. QED
    BY <2>2, <2>3 DEF After
<1>3. \A i, m \in DOMAIN op : op[i].kind \in Scoping /\ op[i].scope >= op[m].scope => m <= i
  <2>1. SUFFICES ASSUME NEW i \in DOMAIN op, NEW m \in DOMAIN op,
                        op[i].kind \in Scoping, op[i].scope >= op[m].scope, ~(m <= i)
                 PROVE  FALSE
    OBVIOUS
  <2>2. i < m /\ op[i].scope \in Nat /\ op[m].scope \in Nat
    BY <2>1, FrameTypes
  <2>3. op[i].scope < op[m].scope
    BY <1>2, <2>1, <2>2
  <2>4. QED
    BY <2>1, <2>2, <2>3
<1>4. QED
  BY <1>1, <1>2, <1>3

\* A scope between that of a construct and the walk's is of a construct in it.
LEMMA ScopeOf ==
  ASSUME NEW sc \in Seq(Scope), NEW op \in Seq(Frame), NEW n, NestOK(Len(sc), op, n),
         NEW level \in 1..Len(sc), NEW q, NEW lim, Place(op, level, q, lim),
         NEW s \in 1..level - 1
  PROVE  \E b \in DOMAIN op :
           /\ b < lim /\ op[b].kind \in Scoping /\ op[b].scope = s
           /\ \A i \in DOMAIN op : op[i].scope <= s => i <= b
<1>1. PICK b \in DOMAIN op : b < lim /\ op[b].kind \in Scoping /\ op[b].scope = s
  BY DEF Place
<1>2. Len(sc) \in Nat
  OBVIOUS
<1>3. \A i \in DOMAIN op : op[i].scope <= s => i <= b
  BY <1>1, <1>2, Nested
<1>4. QED
  BY <1>1, <1>3

\* Behind the scope of a def or class, x is another variable.
LEMMA BlockBetween ==
  ASSUME NEW sc \in Seq(Scope), NEW op \in Seq(Frame), FramesPlaced(sc, op),
         NEW s \in Nat, NEW level \in Nat, Reach(sc, s, level),
         NEW b \in DOMAIN op, op[b].kind \in Scoping, s <= op[b].scope, op[b].scope < level
  PROVE  op[b].kind \in {"block", "own"}
<1>1. op[b].scope \in Nat
  BY FrameTypes
<1>2. op[b].scope + 1 \in s + 1..level
  BY <1>1
<1>3. ~sc[op[b].scope + 1].hard
  BY <1>2 DEF Reach
<1>4. QED
  BY <1>3 DEF FramesPlaced, Scoping

\* The walk has left the branch of each construct that a value may be put aside in, unless it
\* is on none.
LEMMA NewLeft ==
  ASSUME Inv, LiveInv, PlacedInv, Top > 0, NEW s \in 1..Top, Reach(scopes, s, Top),
         NEW i \in DOMAIN open, open[i].kind \notin Straight, s <= open[i].scope
  PROVE  path = <<>> \/ \E c \in Contexts(path) : c.scope >= s /\ c \notin Contexts(open[i].path)
<1>1. /\ open \in Seq(Frame) /\ scopes \in Seq(Scope) /\ pos \in Nat /\ Top = Len(scopes)
      /\ Top \in Nat /\ scopes # <<>> /\ path \in Seq(Context) /\ Len(open) \in Nat
      /\ Alive(scopes, open, path, pos, reported, seen, flow.plain)
  BY LiveTypes, Stands
<1>2. /\ Placed(scopes, open, path, pos, seen.body)
      /\ NestOK(Len(scopes), open, pos) /\ PathsOK(Len(scopes), open, path, pos)
  BY <1>1 DEF PlacedInv, Alive
<1>3. /\ open[i].scope \in 1..Top /\ After(open[i]) <= Top /\ open[i].at \in Nat
      /\ \A c \in Contexts(open[i].path) : c.parent < open[i].at
      /\ Contexts(open[i].path) \subseteq Context
  <2>1. open[i].scope \in 1..Top /\ After(open[i]) <= Top
    BY <1>1, <1>2, Nested
  <2>2. open[i].at \in Nat /\ Contexts(open[i].path) \subseteq Context
    BY <1>1, FrameTypes
  <2>3. \A c \in Contexts(open[i].path) : c.parent < open[i].at
    BY <1>2 DEF PathsOK, PathOK
  <2>4. QED
    BY <2>1, <2>2, <2>3
<1>4. CASE open[i].scope = Top
  <2>1. open[i].kind \notin Scoping
    BY <1>1, <1>3, <1>4 DEF After
  <2>2. i < Len(open) + 1
    BY <1>1
  <2>3. PICK c \in Contexts(path) : c.parent = open[i].at /\ c.scope = Top
    BY <1>1, <1>2, <1>4, <2>1, <2>2 DEF PathsOK, Within
  <2>4. c \notin Contexts(open[i].path)
    BY <1>3, <2>3
  <2>5. QED
    BY <1>1, <2>3, <2>4
<1>5. CASE open[i].scope # Top
  <2>1. open[i].scope \in 1..Top - 1
    BY <1>1, <1>3, <1>5
  <2>2. PICK b \in DOMAIN open :
          /\ b < Len(open) + 1 /\ open[b].kind \in Scoping /\ open[b].scope = open[i].scope
          /\ i <= b
    <3>1. Place(open, Len(scopes), path, Len(open) + 1) /\ Len(scopes) \in 1..Len(scopes)
      BY <1>1, <1>2 DEF Placed
    <3>2. scopes \in Seq(Scope) /\ open \in Seq(Frame) /\ NestOK(Len(scopes), open, pos)
      BY <1>1, <1>2
    <3>3. \A z \in 1..Len(scopes) - 1 :
            \E b \in DOMAIN open :
              /\ b < Len(open) + 1 /\ open[b].kind \in Scoping /\ open[b].scope = z
              /\ \A k \in DOMAIN open : open[k].scope <= z => k <= b
      BY <3>1, <3>2, ScopeOf
    <3>4. open[i].scope \in 1..Len(scopes) - 1
      BY <1>1, <2>1
    <3>5. \E b \in DOMAIN open :
            /\ b < Len(open) + 1 /\ open[b].kind \in Scoping /\ open[b].scope = open[i].scope
            /\ \A k \in DOMAIN open : open[k].scope <= open[i].scope => k <= b
      BY <3>3, <3>4
    <3>6. QED
      BY <1>3, <3>5
  <2>3. open[b].kind \in {"block", "own"}
    <3>1. s \in Nat /\ open[b].scope < Top /\ s <= open[b].scope
      BY <1>1, <2>1, <2>2
    <3>2. FramesPlaced(scopes, open)
      BY <1>2 DEF Placed
    <3>3. QED
      BY <1>1, <2>2, <3>1, <3>2, BlockBetween
  <2>4. \A c \in Contexts(path) : c.parent > open[b].at /\ c.scope > open[b].scope
    BY <1>2, <2>2, <2>3 DEF Placed, Place
  <2>5. open[b].at \in Nat /\ open[b].at >= open[i].at
    <3>1. open[b].at \in Nat
      BY <1>1, FrameTypes
    <3>2. i < b => open[i].at < open[b].at
      BY <1>1, <1>2, Nested
    <3>3. i \in Nat /\ b \in Nat
      BY <1>1
    <3>4. QED
      BY <1>3, <2>2, <3>1, <3>2, <3>3
  <2>6. ASSUME NEW c \in Contexts(path)
        PROVE  c.scope >= s /\ c \notin Contexts(open[i].path)
    <3>1. c.parent > open[b].at /\ c.scope > open[b].scope
      BY <2>4
    <3>2. c \in Context
      BY <1>1, ContextsOf
    <3>3. c.scope >= s
      BY <1>3, <2>2, <3>1, <3>2 DEF Context
    <3>4. c.parent >= open[i].at
      BY <1>3, <2>5, <3>1, <3>2 DEF Context
    <3>5. c \notin Contexts(open[i].path)
      BY <1>3, <3>2, <3>4 DEF Context
    <3>6. QED
      BY <3>3, <3>5
  <2>7. path = <<>> \/ Contexts(path) # {}
    <3>1. SUFFICES ASSUME path # <<>> PROVE Contexts(path) # {}
      OBVIOUS
    <3>2. 1 \in DOMAIN path
      BY <1>1, <3>1
    <3>3. QED
      BY <3>2 DEF Contexts
  <2>8. QED
    BY <2>6, <2>7
<1>6. QED
  BY <1>4, <1>5

\* So an assignment parts with the reads there.
LEMMA NewParts ==
  ASSUME Inv, LiveInv, PlacedInv, Top > 0, NEW s \in 1..Top, Reach(scopes, s, Top),
         NEW i \in DOMAIN open, open[i].kind \notin Straight, s <= open[i].scope, NEW modifier
  PROVE  PartsAround(open, path, modifier, s, open[i].path, i)
<1>1. path = <<>> \/ \E c \in Contexts(path) : c.scope >= s /\ c \notin Contexts(open[i].path)
  BY NewLeft
<1>2. ASSUME NEW b \in DOMAIN open, b < i, open[b].kind \in Scoping, open[b].scope >= s
      PROVE  path = <<>> \/ \E c \in Contexts(path) :
                              c.scope >= s /\ c \notin Contexts(open[b].path)
  <2>1. open[b].kind \notin Straight
    BY <1>2 DEF Scoping, Straight
  <2>2. s <= open[b].scope
    <3>1. open \in Seq(Frame)
      BY LiveTypes
    <3>2. open[b].scope \in Nat /\ s \in Nat
      BY <3>1, FrameTypes
    <3>3. QED
      BY <1>2, <3>2
  <2>3. QED
    BY <2>1, <2>2, NewLeft
<1>3. QED
  BY <1>1, <1>2 DEF PartsAround

\* The last branch of a path is relevant if one of them is.
LEMMA LastRelevant ==
  ASSUME NEW p \in Seq(Context), NEW s \in Nat, Mono(p), DOMAIN Relevant(p, s) # {}
  PROVE  /\ Len(p) \in DOMAIN Relevant(p, s) /\ Relevant(p, s)[Len(p)] = p[Len(p)]
         /\ \A i \in DOMAIN Relevant(p, s) : i \in Nat /\ i <= Len(p)
<1>1. PICK i \in DOMAIN p : p[i].scope >= s
  BY DEF Relevant
<1>2. /\ i \in 1..Len(p) /\ Len(p) \in Nat /\ Len(p) \in DOMAIN p
      /\ p[i] \in Context /\ p[Len(p)] \in Context
  BY <1>1
<1>3. p[i].scope \in Nat /\ p[Len(p)].scope \in Nat
  BY <1>2 DEF Context
<1>4. p[i].scope <= p[Len(p)].scope
  BY <1>1, <1>2 DEF Mono
<1>5. p[Len(p)].scope >= s
  BY <1>1, <1>3, <1>4
<1>6. QED
  BY <1>2, <1>5 DEF Relevant

\* A read marks what an exception carries to it, except for Hidden.
LEMMA ThrownIsReached ==
  ASSUME NEW ws \in Seq(Assignment), NEW s \in Nat, NEW q \in Seq(Context),
         NEW j \in DOMAIN ws, NEW body, Thrown(ws, s, j, q), ~Skipped(ws, s, j, body),
         \A k \in DOMAIN ws : Mono(ws[k].path),
         ws[j].at \in body => Jumpy(ws[j].path)
  PROVE  Reaches(ws, s, Relevant(q, s), j)
<1> DEFINE r == Relevant(q, s)
           o == Relevant(ws[j].path, s)
<1>1. /\ Compatible(ws[j].path, q)
      /\ \A k \in DOMAIN ws : k > j => HasLeft(ws[k], q, s)
  BY DEF Thrown
<1>2. \A k \in DOMAIN ws : ws[k].path \in Seq(Context)
  <2>1. \A k \in DOMAIN ws : ws[k] \in Assignment
    OBVIOUS
  <2>2. QED
    BY <2>1 DEF Assignment
<1>3. \A k \in j + 1..Len(ws) : k \in DOMAIN ws /\ k > j
  OBVIOUS
<1>4. ASSUME NEW k \in j + 1..Len(ws), ~ws[k].modifier
      PROVE  DOMAIN Relevant(ws[k].path, s) # {} /\ Relevant(ws[k].path, s) # r
  <2>1. PICK c \in Contexts(ws[k].path) : c.scope >= s /\ c \notin Contexts(q)
    BY <1>1, <1>3, <1>4 DEF HasLeft
  <2>2. QED
    BY <2>1, RelevantDiffers
<1>5. ASSUME NEW k \in j + 1..Len(ws), ~ws[k].modifier, Relevant(ws[k].path, s) = o
      PROVE  ws[k].path[Len(ws[k].path)].jumps
  <2> DEFINE pk == ws[k].path
             pj == ws[j].path
  <2>1. pk \in Seq(Context) /\ pj \in Seq(Context) /\ Mono(pk) /\ Mono(pj)
    BY <1>2, <1>3
  <2>2. DOMAIN Relevant(pk, s) # {} /\ DOMAIN Relevant(pj, s) # {}
    BY <1>4, <1>5
  <2>3. ws[j].at \in body
    BY <1>5, <2>2 DEF Skipped
  <2>4. Jumpy(pj)
    BY <2>3
  <2>5. Relevant(pk, s) = Relevant(pj, s)
    BY <1>5
  <2> HIDE DEF pk, pj
  <2>6. /\ Len(pk) \in DOMAIN Relevant(pk, s) /\ Relevant(pk, s)[Len(pk)] = pk[Len(pk)]
        /\ \A i \in DOMAIN Relevant(pk, s) : i <= Len(pk)
    BY <2>1, <2>2, LastRelevant
  <2>7. /\ Len(pj) \in DOMAIN Relevant(pj, s) /\ Relevant(pj, s)[Len(pj)] = pj[Len(pj)]
        /\ \A i \in DOMAIN Relevant(pj, s) : i <= Len(pj)
    BY <2>1, <2>2, LastRelevant
  <2>8. Len(pk) <= Len(pj) /\ Len(pj) <= Len(pk) /\ Len(pk) \in Nat /\ Len(pj) \in Nat
    BY <2>1, <2>5, <2>6, <2>7
  <2>9. Len(pk) = Len(pj)
    BY <2>8
  <2>10. pk[Len(pk)] = pj[Len(pj)]
    BY <2>5, <2>6, <2>7, <2>9
  <2>11. pk[Len(pk)].jumps
    BY <2>4, <2>10 DEF Jumpy
  <2>12. QED
    BY <2>11 DEF pk
<1>6. ~Exclusive(o, r)
  <2>1. SUFFICES ASSUME Exclusive(o, r) PROVE FALSE
    OBVIOUS
  <2>2. PICK i \in DOMAIN o :
          /\ \A k \in DOMAIN o : k >= i => ~o[k].jumps
          /\ \E k \in DOMAIN r : r[k].parent = o[i].parent /\ r[k].child # o[i].child
    BY <2>1 DEF Exclusive
  <2>3. i \in Nat
    <3>1. i \in DOMAIN ws[j].path /\ ws[j].path \in Seq(Context)
      BY <1>2 DEF Relevant
    <3>2. QED
      BY <3>1
  <2>4. ~o[i].jumps
    BY <2>2, <2>3
  <2>5. PICK k \in DOMAIN r : r[k].parent = o[i].parent /\ r[k].child # o[i].child
    BY <2>2
  <2>6. o[i] \in Contexts(ws[j].path) /\ r[k] \in Contexts(q)
    BY DEF Relevant, Contexts
  <2>7. QED
    BY <1>1, <2>4, <2>5, <2>6 DEF Compatible
<1>7. QED
  BY <1>4, <1>5, <1>6 DEF Reaches

\* What the invariants say where there is a scope.
LEMMA RaisedTypes ==
  ASSUME Inv, LiveInv, PlacedInv, Top > 0
  PROVE  /\ scopes \in Seq(Scope) /\ open \in Seq(Frame) /\ path \in Seq(Context)
         /\ pos \in Nat /\ pos \notin reported /\ Top = Len(scopes) /\ Top \in Nat
         /\ Len(open) \in Nat /\ flow \in Flow /\ scopes # <<>>
         /\ Alive(scopes, open, path, pos, reported, seen, flow.plain)
         /\ NestOK(Len(scopes), open, pos) /\ PathsOK(Len(scopes), open, path, pos)
         /\ WritesOK(scopes, open, pos) /\ SavedOK(scopes, open, pos, reported)
         /\ BlocksOK(scopes, open)
         /\ Carried(scopes, open, flow.plain, Len(scopes), path, Len(open) + 1)
         /\ Unreported(flow.plain, pos, reported)
         /\ Placed(scopes, open, path, pos, seen.body)
         /\ Place(open, Len(scopes), path, Len(open) + 1)
         /\ FramesPlaced(scopes, open) /\ WritesPlaced(scopes, open, seen.body)
         /\ \A i \in DOMAIN open :
              /\ open[i] \in Frame /\ open[i].scope \in 1..Len(scopes)
              /\ open[i].at \in Nat /\ open[i].at < pos
              /\ Held(open[i]) \subseteq Nat
         /\ flow.raised \subseteq Nat /\ flow.plain \subseteq Nat
<1>1. /\ scopes \in Seq(Scope) /\ open \in Seq(Frame) /\ path \in Seq(Context)
      /\ pos \in Nat /\ pos \notin reported /\ Top = Len(scopes) /\ Top \in Nat
      /\ Len(open) \in Nat /\ flow \in Flow /\ scopes # <<>>
      /\ Alive(scopes, open, path, pos, reported, seen, flow.plain)
  BY LiveTypes, Stands
<1>2. /\ NestOK(Len(scopes), open, pos) /\ PathsOK(Len(scopes), open, path, pos)
      /\ WritesOK(scopes, open, pos) /\ SavedOK(scopes, open, pos, reported)
      /\ BlocksOK(scopes, open)
      /\ Carried(scopes, open, flow.plain, Len(scopes), path, Len(open) + 1)
      /\ Unreported(flow.plain, pos, reported)
  BY <1>1 DEF Alive
<1>3. /\ Placed(scopes, open, path, pos, seen.body)
      /\ Place(open, Len(scopes), path, Len(open) + 1)
      /\ FramesPlaced(scopes, open) /\ WritesPlaced(scopes, open, seen.body)
  BY <1>1 DEF PlacedInv, Placed
<1>4. \A i \in DOMAIN open :
        /\ open[i] \in Frame /\ open[i].scope \in 1..Len(scopes)
        /\ open[i].at \in Nat /\ open[i].at < pos
        /\ Held(open[i]) \subseteq Nat
  <2>1. SUFFICES ASSUME NEW i \in DOMAIN open
                 PROVE  /\ open[i] \in Frame /\ open[i].scope \in 1..Len(scopes)
                        /\ open[i].at \in Nat /\ open[i].at < pos
                        /\ Held(open[i]) \subseteq Nat
    OBVIOUS
  <2>2. open[i] \in Frame /\ open[i].at \in Nat
    BY <1>1, FrameTypes
  <2>3. open[i].scope \in 1..Len(scopes) /\ open[i].at < pos
    BY <1>1, <1>2, Nested
  <2>4. Held(open[i]) \subseteq Nat
    BY <2>2 DEF Frame, Flow, Held, All
  <2>5. QED
    BY <2>2, <2>3, <2>4
<1>5. flow.raised \subseteq Nat /\ flow.plain \subseteq Nat
  BY <1>1 DEF Flow
<1>6. QED
  BY <1>1, <1>2, <1>3, <1>4, <1>5

LEMMA SkippedIsHidden ==
  ASSUME Declaring # {}, NEW j \in DOMAIN scopes[Home].writes,
         Skipped(scopes[Home].writes, Home, j, seen.body)
  PROVE  scopes[Home].writes[j].at \in Hidden
  BY DEF Skipped, Hidden

\* A read settles what an exception may carry to it.
LEMMA ReadSettles ==
  ASSUME Inv, LiveInv, PlacedInv, RaisedInv, Declaring # {}, Top > 0,
         NEW s \in 1..Len(scopes), NEW j \in DOMAIN scopes[s].writes,
         scopes[s].writes[j].at \in flow.raised
  PROVE  s = Home /\ Settled(Referenced, s, j, seen.body)
<1>1. /\ scopes \in Seq(Scope) /\ path \in Seq(Context) /\ Top = Len(scopes) /\ scopes # <<>>
      /\ WritesOK(scopes, open, pos) /\ WritesPlaced(scopes, open, seen.body)
  BY RaisedTypes
<1>2. /\ Reach(scopes, s, Top)
      /\ Settled(scopes, s, j, seen.body) \/ Thrown(scopes[s].writes, s, j, path)
  BY <1>1 DEF RaisedInv, Tossed
<1>3. scopes[s].declared
  BY <1>1 DEF WritesOK
<1>4. s = Home
  BY <1>1, <1>2, <1>3, HomeOnly
<1>5. /\ Referenced \in Seq(Scope) /\ Milder(scopes, Referenced)
      /\ \A k \in DOMAIN scopes[Home].writes :
           Reaches(scopes[Home].writes, Home, Relevant(path, Home), k)
             => Referenced[Home].writes[k].referenced
  BY ReferencedIsMilder
<1>6. CASE Settled(scopes, s, j, seen.body)
  BY <1>1, <1>4, <1>5, <1>6, MilderSettled
<1>7. CASE ~Settled(scopes, s, j, seen.body)
  <2>1. Thrown(scopes[s].writes, s, j, path) /\ ~Skipped(scopes[s].writes, s, j, seen.body)
    BY <1>2, <1>7 DEF Settled
  <2>2. scopes[s].writes \in Seq(Assignment) /\ s \in Nat
    BY <1>1, WriteTypes
  <2>3. /\ \A k \in DOMAIN scopes[s].writes : Mono(scopes[s].writes[k].path)
        /\ scopes[s].writes[j].at \in seen.body => Jumpy(scopes[s].writes[j].path)
    BY <1>1 DEF WritesPlaced
  <2>4. Reaches(scopes[s].writes, s, Relevant(path, s), j)
    BY <1>1, <2>1, <2>2, <2>3, ThrownIsReached
  <2>5. Referenced[s].writes[j].referenced
    BY <1>4, <1>5, <2>4
  <2>6. QED
    BY <1>4, <2>5 DEF Settled
<1>8. QED
  BY <1>6, <1>7

LEMMA ReadSees ==
  ASSUME Inv, LiveInv, PlacedInv, RaisedInv, Declaring # {}, Top > 0
  PROVE  RSeenOK(Referenced, pos, reported, Sees.raised)
<1>1. /\ scopes \in Seq(Scope) /\ Top = Len(scopes) /\ scopes # <<>>
  BY RaisedTypes
<1>2. Referenced \in Seq(Scope) /\ Milder(scopes, Referenced)
  BY ReferencedIsMilder
<1>3. Sees.raised = seen.raised \union (flow.raised \ Hidden)
  BY BodyOf DEF Inv
<1>4. Unreported(Sees.raised, pos, reported)
  BY <1>1, <1>3 DEF RaisedInv, RSeenOK, Unreported
<1>5. ASSUME NEW s \in 1..Len(Referenced), NEW j \in DOMAIN Referenced[s].writes,
             Referenced[s].writes[j].at \in Sees.raised
      PROVE  \/ Referenced[s].writes[j].referenced
             \/ Referenced[s].captured /\ ~Referenced[s].writes[j].reassigned
  <2>1. /\ s \in 1..Len(scopes) /\ j \in DOMAIN scopes[s].writes
        /\ Referenced[s].writes[j].at = scopes[s].writes[j].at
        /\ Referenced[s].writes[j].reassigned = scopes[s].writes[j].reassigned
        /\ scopes[s].captured => Referenced[s].captured
        /\ scopes[s].writes[j].referenced => Referenced[s].writes[j].referenced
    BY <1>2 DEF Milder
  <2>2. CASE scopes[s].writes[j].at \in seen.raised
    <3>1. scopes[s].writes[j].referenced \/ (scopes[s].captured /\ ~scopes[s].writes[j].reassigned)
      BY <2>1, <2>2 DEF RaisedInv, RSeenOK
    <3>2. QED
      BY <2>1, <3>1
  <2>3. CASE scopes[s].writes[j].at \in flow.raised \ Hidden
    <3>1. s = Home /\ Settled(Referenced, s, j, seen.body)
      BY <2>1, <2>3, ReadSettles
    <3>2. ~Skipped(scopes[s].writes, s, j, seen.body)
      BY <2>1, <2>3, <3>1, SkippedIsHidden
    <3>3. ~Skipped(Referenced[s].writes, s, j, seen.body)
      BY <1>1, <1>2, <2>1, <3>2, MilderSkipped
    <3>4. QED
      BY <3>1, <3>3 DEF Settled
  <2>4. QED
    BY <1>3, <1>5, <2>1, <2>2, <2>3
<1>6. QED
  BY <1>4, <1>5 DEF RSeenOK

\* With one scope inside another, each is of one construct.
LEMMA ScopingDiffer ==
  ASSUME NEW top \in Nat, NEW op \in Seq(Frame), NEW n, NestOK(top, op, n),
         NEW a \in DOMAIN op, NEW b \in DOMAIN op, op[a].kind \in Scoping, op[b].kind \in Scoping
  PROVE  /\ op[a].scope = op[b].scope => a = b
         /\ a < b <=> op[a].scope < op[b].scope
<1>1. /\ op[a].scope \in Nat /\ op[b].scope \in Nat /\ a \in Nat /\ b \in Nat
  BY FrameTypes
<1>2. /\ a < b => op[a].scope < op[b].scope
      /\ b < a => op[b].scope < op[a].scope
  BY Nested
<1>3. QED
  BY <1>1, <1>2

\* On a branch that has nothing to do with the assignments, a read would mark the same.
LEMMA ThrownBehind ==
  ASSUME NEW ws, NEW s, NEW j, NEW r, NEW q, Thrown(ws, s, j, r), j \in DOMAIN ws,
         \A k \in DOMAIN ws : \A c \in Contexts(ws[k].path), d \in Contexts(q) :
           c.parent # d.parent
  PROVE  Thrown(ws, s, j, q)
<1>1. Compatible(ws[j].path, q)
  BY DEF Compatible
<1>2. ASSUME NEW k \in DOMAIN ws, k > j PROVE HasLeft(ws[k], q, s)
  <2>1. HasLeft(ws[k], r, s)
    BY <1>2 DEF Thrown
  <2>2. \A c \in Contexts(ws[k].path) : c \notin Contexts(q)
    OBVIOUS
  <2>3. QED
    BY <2>1, <2>2 DEF HasLeft
<1>3. QED
  BY <1>1, <1>2 DEF Thrown

LEMMA LiveIsThrown ==
  ASSUME NEW ws, NEW s, NEW j, NEW q, Live(ws, s, j, q), ~ws[j].referenced
  PROVE  Thrown(ws, s, j, q)
  BY DEF Live, Parted, Thrown, HasLeft

\* What reaches a read by the order of the program is as safe where it is thrown.
LEMMA CarriedTossed ==
  ASSUME NEW sc \in Seq(Scope), NEW op \in Seq(Frame), NEW n, NEW body,
         NestOK(Len(sc), op, n), WritesOK(sc, op, n), FramesPlaced(sc, op),
         WritesPlaced(sc, op, body),
         NEW level \in 1..Len(sc), NEW q \in Seq(Context), NEW lim, Place(op, level, q, lim),
         \A b \in DOMAIN op : b < lim => After(op[b]) <= level,
         NEW X, Carried(sc, op, X, level, q, lim)
  PROVE  Tossed(sc, op, body, X, level, q, lim)
<1>1. SUFFICES ASSUME NEW s \in 1..Len(sc), NEW j \in DOMAIN sc[s].writes,
                      sc[s].writes[j].at \in X, ~Settled(sc, s, j, body)
               PROVE  /\ Thrown(sc[s].writes, s, j, q)
                      /\ \A b \in DOMAIN op :
                           b < lim /\ op[b].kind \in Scoping /\ op[b].scope >= s =>
                             Thrown(sc[s].writes, s, j, op[b].path)
  BY DEF Tossed, Carried
<1> DEFINE ws == sc[s].writes
<1>2. /\ Reach(sc, s, level) /\ ~sc[s].captured /\ ~ws[j].referenced
      /\ s = level => Live(ws, s, j, q)
      /\ \A b \in DOMAIN op : b < lim /\ op[b].kind \in Scoping /\ op[b].scope = s =>
           Live(ws, s, j, op[b].path)
  BY <1>1 DEF Carried, Settled
<1>3. /\ s \in Nat /\ Len(sc) \in Nat /\ s <= level
      /\ \A b \in DOMAIN op : op[b].scope \in Nat /\ op[b].at \in Nat /\ b \in Nat
  <2>1. \A b \in DOMAIN op : op[b].scope \in Nat /\ op[b].at \in Nat /\ b \in Nat
    BY FrameTypes
  <2>2. QED
    BY <1>2, <2>1 DEF Reach
<1>4. CASE s = level
  <2>1. Thrown(ws, s, j, q)
    BY <1>2, <1>4, LiveIsThrown
  <2>2. ASSUME NEW b \in DOMAIN op, b < lim, op[b].kind \in Scoping PROVE op[b].scope < s
    BY <1>3, <1>4, <2>2 DEF After
  <2>3. QED
    BY <1>3, <2>1, <2>2
<1>5. CASE s # level
  <2>1. s \in 1..level - 1
    BY <1>3, <1>5
  <2>2. PICK b0 \in DOMAIN op : b0 < lim /\ op[b0].kind \in Scoping /\ op[b0].scope = s
    BY <2>1, ScopeOf
  <2>3. op[b0].kind \in {"block", "own"}
    BY <1>2, <1>3, <2>1, <2>2, BlockBetween
  <2>4. Thrown(ws, s, j, op[b0].path)
    BY <1>2, <2>2, LiveIsThrown
  <2>5. \A k \in DOMAIN ws : \A c \in Contexts(ws[k].path) : c.parent < op[b0].at
    <3>1. SUFFICES ASSUME NEW k \in DOMAIN ws, NEW c \in Contexts(ws[k].path)
                   PROVE  c.parent < op[b0].at
      OBVIOUS
    <3>2. ws[k].at < op[b0].at
      BY <1>2, <2>2 DEF WritesPlaced
    <3>3. c.parent <= ws[k].at
      BY DEF WritesOK
    <3>4. ws[k].at \in Nat /\ c \in Context
      BY WriteTypes
    <3>5. QED
      BY <1>3, <3>2, <3>3, <3>4 DEF Context
  <2>6. ASSUME NEW r \in Seq(Context), \A d \in Contexts(r) : d.parent > op[b0].at
        PROVE  Thrown(ws, s, j, r)
    <3>1. ASSUME NEW k \in DOMAIN ws, NEW c \in Contexts(ws[k].path), NEW d \in Contexts(r)
          PROVE  c.parent # d.parent
      <4>1. c.parent < op[b0].at /\ d.parent > op[b0].at
        BY <2>5, <2>6
      <4>2. c \in Context /\ d \in Context
        BY <2>6, WriteTypes, ContextsOf
      <4>3. QED
        BY <1>3, <4>1, <4>2 DEF Context
    <3>2. QED
      BY <2>4, <3>1, ThrownBehind
  <2>7. Thrown(ws, s, j, q)
    BY <2>2, <2>3, <2>6 DEF Place
  <2>8. ASSUME NEW b \in DOMAIN op, b < lim, op[b].kind \in Scoping, op[b].scope >= s
        PROVE  Thrown(ws, s, j, op[b].path)
    <3>1. CASE op[b].scope = s
      <4>1. Len(sc) \in Nat
        OBVIOUS
      <4>2. b = b0
        BY <2>2, <2>8, <3>1, <4>1, ScopingDiffer
      <4>3. QED
        BY <2>4, <4>2
    <3>2. CASE op[b].scope # s
      <4>1. Len(sc) \in Nat
        OBVIOUS
      <4>2. op[b0].scope < op[b].scope
        BY <1>3, <2>2, <2>8, <3>2
      <4>3. b0 < b
        BY <2>2, <2>8, <4>1, <4>2, ScopingDiffer
      <4>4. Place(op, op[b].scope, op[b].path, b)
        BY DEF FramesPlaced
      <4>5. \A d \in Contexts(op[b].path) : d.parent > op[b0].at
        BY <2>2, <2>3, <4>3, <4>4 DEF Place
      <4>6. op[b].path \in Seq(Context)
        BY FrameTypes
      <4>7. QED
        BY <2>6, <4>5, <4>6
    <3>3. QED
      BY <3>1, <3>2
  <2>9. QED
    BY <2>7, <2>8
<1>6. QED
  BY <1>4, <1>5

\* What may be thrown here, and not behind a scope of its own, may be thrown from a construct
\* around it.
LEMMA TossedFrame ==
  ASSUME NEW sc \in Seq(Scope), NEW op \in Seq(Frame), NEW n, NEW body, NEW p, sc # <<>>,
         NestOK(Len(sc), op, n), PathsOK(Len(sc), op, p, n), WritesOK(sc, op, n),
         BlocksOK(sc, op), Place(op, Len(sc), p, Len(op) + 1),
         NEW X, Tossed(sc, op, body, X, Len(sc), p, Len(op) + 1),
         NEW i \in DOMAIN op,
         \A k \in DOMAIN op : k >= i => op[k].kind \notin {"own", "def", "class"}
  PROVE  Tossed(sc, op, body, X, op[i].scope, op[i].path, i)
<1>1. SUFFICES ASSUME NEW s \in 1..Len(sc), NEW j \in DOMAIN sc[s].writes,
                      sc[s].writes[j].at \in X
               PROVE  /\ Reach(sc, s, op[i].scope)
                      /\ \/ Settled(sc, s, j, body)
                         \/ /\ Thrown(sc[s].writes, s, j, op[i].path)
                            /\ \A b \in DOMAIN op :
                                 b < i /\ op[b].kind \in Scoping /\ op[b].scope >= s =>
                                   Thrown(sc[s].writes, s, j, op[b].path)
  BY DEF Tossed
<1>2. /\ Reach(sc, s, Len(sc))
      /\ \/ Settled(sc, s, j, body)
         \/ /\ Thrown(sc[s].writes, s, j, p)
            /\ \A b \in DOMAIN op :
                 b < Len(op) + 1 /\ op[b].kind \in Scoping /\ op[b].scope >= s =>
                   Thrown(sc[s].writes, s, j, op[b].path)
  BY <1>1 DEF Tossed
<1>3. sc[s].declared
  BY DEF WritesOK
<1>4. /\ Len(sc) \in Nat /\ Len(sc) \in 1..Len(sc) /\ Len(op) \in Nat /\ s \in Nat
      /\ op[i].scope \in 1..Len(sc)
      /\ \A b \in DOMAIN op : op[b].scope \in Nat /\ b \in Nat /\ b < Len(op) + 1
  <2>1. Len(sc) \in Nat /\ Len(op) \in Nat /\ s \in Nat
    OBVIOUS
  <2>2. Len(sc) # 0
    OBVIOUS
  <2>3. op[i].scope \in 1..Len(sc)
    BY <2>1, Nested
  <2>4. \A b \in DOMAIN op : op[b].scope \in Nat
    BY FrameTypes
  <2>5. QED
    BY <2>1, <2>2, <2>3, <2>4
<1>5. \A t \in 1..Len(sc) - 1 :
        \E b \in DOMAIN op : /\ op[b].kind \in Scoping /\ op[b].scope = t
                             /\ op[i].scope <= t => i <= b
  <2>1. Len(sc) \in 1..Len(sc)
    BY <1>4
  <2>2. \A t \in 1..Len(sc) - 1 :
          \E b \in DOMAIN op : /\ b < Len(op) + 1 /\ op[b].kind \in Scoping /\ op[b].scope = t
                               /\ \A k \in DOMAIN op : op[k].scope <= t => k <= b
    BY <2>1, ScopeOf
  <2>3. QED
    BY <2>2
<1>6. s <= op[i].scope
  <2>1. SUFFICES ASSUME op[i].scope <= s - 1 PROVE FALSE
    BY <1>4
  <2>2. s - 1 \in 1..Len(sc) - 1
    BY <1>4, <2>1
  <2>3. PICK b \in DOMAIN op : /\ op[b].kind \in Scoping /\ op[b].scope = s - 1
                               /\ i <= b
    BY <1>5, <2>1, <2>2
  <2>4. op[b].kind = "block"
    BY <1>4, <2>3 DEF Scoping
  <2>5. op[b].scope + 1 = s
    BY <1>4, <2>3
  <2>6. QED
    BY <1>3, <2>4, <2>5 DEF BlocksOK
<1>7. Reach(sc, s, op[i].scope)
  BY <1>2, <1>4, <1>6 DEF Reach
<1>8. CASE Settled(sc, s, j, body)
  BY <1>7, <1>8
<1>9. CASE ~Settled(sc, s, j, body)
  <2>1. /\ Thrown(sc[s].writes, s, j, p)
        /\ \A b \in DOMAIN op : op[b].kind \in Scoping /\ op[b].scope >= s =>
             Thrown(sc[s].writes, s, j, op[b].path)
    BY <1>2, <1>4, <1>9
  <2>2. Thrown(sc[s].writes, s, j, op[i].path)
    <3>1. CASE op[i].scope = Len(sc)
      <4>1. Contexts(op[i].path) \subseteq Contexts(p)
        BY <1>4, <3>1 DEF PathsOK, Within
      <4>2. QED
        BY <2>1, <4>1, ThrownOutside
    <3>2. CASE op[i].scope # Len(sc)
      <4>1. op[i].scope \in 1..Len(sc) - 1
        BY <1>4, <3>2
      <4>2. PICK b \in DOMAIN op : /\ op[b].kind \in Scoping /\ op[b].scope = op[i].scope
                                   /\ i <= b
        <5>1. op[i].scope <= op[i].scope
          BY <1>4
        <5>2. QED
          BY <1>5, <4>1, <5>1
      <4>3. Thrown(sc[s].writes, s, j, op[b].path)
        BY <1>4, <1>6, <2>1, <4>2
      <4>4. Contexts(op[i].path) \subseteq Contexts(op[b].path)
        <5>1. CASE i = b
          BY <5>1
        <5>2. CASE i < b
          <6>1. Within(op, b, op[b].scope, op[b].path)
            BY DEF PathsOK
          <6>2. QED
            BY <4>2, <5>2, <6>1 DEF Within
        <5>3. QED
          BY <1>4, <4>2, <5>1, <5>2
      <4>5. QED
        BY <4>3, <4>4, ThrownOutside
    <3>3. QED
      BY <3>1, <3>2
  <2>3. QED
    BY <1>7, <2>1, <2>2
<1>10. QED
  BY <1>8, <1>9

\* The same of the next state.
LEMMA NextTypes ==
  ASSUME Inv', LiveInv', PlacedInv', scopes' # <<>>
  PROVE  /\ scopes' \in Seq(Scope) /\ open' \in Seq(Frame) /\ path' \in Seq(Context)
         /\ flow' \in Flow /\ pos' \in Nat /\ Len(open') \in Nat
         /\ Len(scopes') \in 1..Len(scopes')
         /\ NestOK(Len(scopes'), open', pos') /\ PathsOK(Len(scopes'), open', path', pos')
         /\ WritesOK(scopes', open', pos') /\ SavedOK(scopes', open', pos', reported')
         /\ BlocksOK(scopes', open')
         /\ Carried(scopes', open', flow'.plain, Len(scopes'), path', Len(open') + 1)
         /\ Unreported(flow'.plain, pos', reported')
         /\ Place(open', Len(scopes'), path', Len(open') + 1)
         /\ FramesPlaced(scopes', open') /\ WritesPlaced(scopes', open', seen'.body)
         /\ \A i \in DOMAIN open' : /\ open'[i].scope \in 1..Len(scopes')
                                    /\ After(open'[i]) <= Len(scopes')
                                    /\ open'[i].path \in Seq(Context)
<1>1. /\ scopes' \in Seq(Scope) /\ open' \in Seq(Frame) /\ path' \in Seq(Context)
      /\ flow' \in Flow /\ pos' \in Nat /\ Len(open') \in Nat /\ Len(scopes') \in Nat
  BY DEF Inv, TypeOK
<1>2. Len(scopes') # 0
  BY <1>1
<1>3. /\ Alive(scopes', open', path', pos', reported', seen', flow'.plain)
      /\ Placed(scopes', open', path', pos', seen'.body)
  BY DEF LiveInv, PlacedInv
<1>4. /\ NestOK(Len(scopes'), open', pos') /\ PathsOK(Len(scopes'), open', path', pos')
      /\ WritesOK(scopes', open', pos') /\ SavedOK(scopes', open', pos', reported')
      /\ BlocksOK(scopes', open')
      /\ Carried(scopes', open', flow'.plain, Len(scopes'), path', Len(open') + 1)
      /\ Unreported(flow'.plain, pos', reported')
  BY <1>3 DEF Alive
<1>5. /\ Place(open', Len(scopes'), path', Len(open') + 1)
      /\ FramesPlaced(scopes', open') /\ WritesPlaced(scopes', open', seen'.body)
  BY <1>3 DEF Placed
<1>6. ASSUME NEW i \in DOMAIN open'
      PROVE  /\ open'[i].scope \in 1..Len(scopes')
             /\ After(open'[i]) <= Len(scopes')
             /\ open'[i].path \in Seq(Context)
  <2>1. open'[i].scope \in 1..Len(scopes') /\ After(open'[i]) <= Len(scopes')
    BY <1>1, <1>4, NestFacts
  <2>2. open'[i].path \in Seq(Context)
    BY <1>1, FrameTypes
  <2>3. QED
    BY <2>1, <2>2
<1>7. QED
  BY <1>1, <1>2, <1>4, <1>5, <1>6

\* What x may be by the order of the program may be thrown as well.
LEMMA PlainTossed ==
  ASSUME Inv', LiveInv', PlacedInv', scopes' # <<>>
  PROVE  Tossed(scopes', open', seen'.body, flow'.plain, Len(scopes'), path', Len(open') + 1)
  BY NextTypes, CarriedTossed

LEMMA ArrivesRaised ==
  ASSUME scopes' # <<>>, RSeenOK(scopes', pos', reported', seen'.raised),
         HeldOK(scopes', open', pos', reported', seen'.body),
         Unreported(flow'.raised, pos', reported'),
         Tossed(scopes', open', seen'.body, flow'.raised, Len(scopes'), path', Len(open') + 1)
  PROVE  RaisedInv'
  BY DEF RaisedInv, Top

\* Behind each node, an exception may leave the begins it is in with what x may be there.
LEMMA PassingRaised ==
  ASSUME Inv, Inv', LiveInv, LiveInv', PlacedInv, PlacedInv',
         NEW f \in Flow, Passed(f), UNCHANGED <<path, reported>>,
         scopes' # <<>>, HeldOK(scopes', open, pos + 1, reported, seen'.body),
         Unreported(f.raised, pos + 1, reported),
         Tossed(scopes', open, seen'.body, f.raised, Len(scopes'), path, Len(open) + 1),
         RSeenOK(scopes', pos + 1, reported, seen'.raised)
  PROVE  RaisedInv'
<1>1. /\ open' = Raising(f) /\ flow' = f /\ pos' = pos + 1 /\ path' = path
      /\ reported' = reported
  BY DEF Passed
<1>2. open \in Seq(Frame)
  BY DEF Inv, TypeOK
<1>3. /\ DOMAIN open' = DOMAIN open /\ Len(open') = Len(open)
      /\ \A i \in DOMAIN open : SameFrame(open[i], open'[i])
  <2>1. /\ DOMAIN open' = DOMAIN open
        /\ \A i \in DOMAIN open : SameFrame(open[i], open'[i])
    BY <1>1, <1>2, RaisingSame
  <2>2. open' \in Seq(Frame)
    BY DEF Inv, TypeOK
  <2>3. QED
    BY <1>2, <2>1, <2>2
<1>4. \A X, level, q, lim :
        Tossed(scopes', open, seen'.body, X, level, q, lim)
          => Tossed(scopes', open', seen'.body, X, level, q, lim)
  <2>1. \A b \in DOMAIN open' : /\ b \in DOMAIN open /\ open[b].kind = open'[b].kind
                                /\ open[b].scope = open'[b].scope
                                /\ open[b].path = open'[b].path
    BY <1>3 DEF SameFrame
  <2>2. QED
    BY <2>1, TossedAmong
<1>5. Tossed(scopes', open', seen'.body, f.raised, Len(scopes'), path', Len(open') + 1)
  BY <1>1, <1>3, <1>4
<1>6. /\ Tossed(scopes', open', seen'.body, All(f), Len(scopes'), path', Len(open') + 1)
      /\ Unreported(All(f), pos', reported')
  <2>1. Tossed(scopes', open', seen'.body, f.plain, Len(scopes'), path', Len(open') + 1)
    BY <1>1, PlainTossed
  <2>2. Unreported(f.plain, pos', reported')
    BY <1>1, NextTypes
  <2>3. QED
    BY <1>1, <1>5, <2>1, <2>2, TossedTogether DEF All, Unreported
<1>7. ASSUME NEW i \in DOMAIN open'
      PROVE  /\ Unreported(Held(open'[i]), pos', reported')
             /\ Tossed(scopes', open', seen'.body, Held(open'[i]), open'[i].scope, open'[i].path, i)
             /\ HeldAside(scopes', open'[i])
  <2>1. i \in DOMAIN open /\ SameFrame(open[i], open'[i])
    BY <1>3
  <2>2. /\ Unreported(Held(open[i]), pos', reported')
        /\ Tossed(scopes', open, seen'.body, Held(open[i]), open[i].scope, open[i].path, i)
        /\ HeldAside(scopes', open[i])
    BY <1>1, <2>1 DEF HeldOK
  <2>3. /\ Tossed(scopes', open', seen'.body, Held(open[i]), open'[i].scope, open'[i].path, i)
    BY <1>4, <2>1, <2>2 DEF SameFrame
  <2>4. open'[i] = open[i]
        \/ /\ open[i].kind \in Begins
           /\ \A k \in i + 1..Len(open) : open[k].kind \notin {"own", "def", "class"}
           /\ open'[i] = [open[i] EXCEPT !.end = Join(@, f)]
    BY <1>1, <2>1 DEF Raising, Begins
  <2>5. CASE open'[i] = open[i]
    BY <2>2, <2>3, <2>5
  <2>6. CASE /\ open[i].kind \in Begins
             /\ \A k \in i + 1..Len(open) : open[k].kind \notin {"own", "def", "class"}
             /\ open'[i] = [open[i] EXCEPT !.end = Join(@, f)]
    <3>1. open[i] \in Frame
      BY <1>2, <2>1, FrameTypes
    <3>2. All(open'[i].end) = All(open[i].end) \union All(f)
      BY <2>6, <3>1 DEF Frame, Flow, Join, All
    <3>3. Held(open'[i]) \subseteq Held(open[i]) \union All(f)
      BY <2>1, <2>6, <3>2 DEF Held, SameFrame
    <3>4. \A k \in DOMAIN open' : k >= i => open'[k].kind \notin {"own", "def", "class"}
      <4>1. SUFFICES ASSUME NEW k \in DOMAIN open, k >= i
                     PROVE  open[k].kind \notin {"own", "def", "class"}
        BY <1>3 DEF SameFrame
      <4>2. k = i \/ k \in i + 1..Len(open)
        BY <1>2, <2>1, <4>1
      <4>3. QED
        BY <2>6, <4>2 DEF Begins
    <3>5. Tossed(scopes', open', seen'.body, All(f), open'[i].scope, open'[i].path, i)
      BY <1>6, <3>4, NextTypes, TossedFrame
    <3>6. Tossed(scopes', open', seen'.body, Held(open'[i]), open'[i].scope, open'[i].path, i)
      BY <2>3, <3>3, <3>5, TossedTogether
    <3>7. Unreported(Held(open'[i]), pos', reported')
      BY <1>6, <2>2, <3>3 DEF Unreported
    <3>8. HeldAside(scopes', open'[i])
      <4>1. CASE open[i].kind = "begin"
        <5>1. \A s \in 1..Len(scopes') : \A j \in DOMAIN scopes'[s].writes :
                Agree(open'[i], scopes'[s].writes[j].path)
          BY NextTypes DEF WritesOK
        <5>2. QED
          BY <2>1, <4>1, <5>1 DEF HeldAside, Agree, SameFrame
      <4>2. CASE open[i].kind # "begin"
        <5>1. HeldSibling(open'[i]) = HeldSibling(open[i]) /\ open'[i].at = open[i].at
          BY <2>1, <4>2 DEF HeldSibling, SameFrame
        <5>2. QED
          BY <2>2, <5>1 DEF HeldAside
      <4>3. QED
        BY <4>1, <4>2
    <3>9. QED
      BY <3>6, <3>7, <3>8
  <2>7. QED
    BY <2>4, <2>5, <2>6
<1>8. HeldOK(scopes', open', pos', reported', seen'.body)
  BY <1>7 DEF HeldOK
<1>9. QED
  BY <1>1, <1>5, <1>8, ArrivesRaised

\* An assignment takes no mark from what an exception carried to a read.
LEMMA AddsSeen ==
  ASSUME NEW sc \in Seq(Scope), NEW sc2 \in Seq(Scope), NEW s \in 1..Len(sc),
         NEW n \in Nat, NEW p, NEW modifier, Adds(sc, sc2, s, n, p, modifier),
         NEW rep, NEW X, X \subseteq Nat, RSeenOK(sc, n, rep, X)
  PROVE  RSeenOK(sc2, n + 1, rep, X)
<1>1. Unreported(X, n + 1, rep) /\ n \notin X
  BY DEF RSeenOK, Unreported
<1>2. SUFFICES ASSUME NEW t \in 1..Len(sc), NEW j \in DOMAIN sc2[t].writes,
                      sc2[t].writes[j].at \in X
               PROVE  \/ sc2[t].writes[j].referenced
                      \/ sc2[t].captured /\ ~sc2[t].writes[j].reassigned
  BY <1>1 DEF RSeenOK, Adds
<1>3. CASE t # s
  BY <1>2, <1>3 DEF RSeenOK, Adds
<1>4. CASE t = s
  <2> DEFINE l == Len(sc[s].writes)
  <2>1. /\ l \in Nat /\ DOMAIN sc[s].writes = 1..l /\ DOMAIN sc2[s].writes = 1..l + 1
        /\ sc2[s].writes[l + 1].at = n
        /\ \A k \in 1..l :
             /\ sc2[s].writes[k].at = sc[s].writes[k].at
             /\ sc2[s].writes[k].referenced <=> sc[s].writes[k].referenced
             /\ sc2[s].captured /\ ~sc[s].writes[k].reassigned => ~sc2[s].writes[k].reassigned
        /\ sc[s].captured => sc2[s].captured
    <3>1. l \in Nat /\ DOMAIN sc[s].writes = 1..l
      BY WriteTypes
    <3>2. Len(sc2) = Len(sc) /\ Len(sc2[s].writes) = l + 1
      BY DEF Adds
    <3>3. DOMAIN sc2[s].writes = 1..l + 1
      BY <3>2, WriteTypes
    <3>4. sc2[s].writes[l + 1].at = n
      BY DEF Adds
    <3>5. \A k \in 1..l :
            /\ sc2[s].writes[k].at = sc[s].writes[k].at
            /\ sc2[s].writes[k].referenced <=> sc[s].writes[k].referenced
            /\ sc2[s].captured /\ ~sc[s].writes[k].reassigned => ~sc2[s].writes[k].reassigned
      BY DEF Adds
    <3>6. sc[s].captured => sc2[s].captured
      BY DEF Adds
    <3>7. QED
      BY <3>1, <3>3, <3>4, <3>5, <3>6
  <2> HIDE DEF l
  <2>2. j # l + 1
    BY <1>1, <1>2, <1>4, <2>1
  <2>3. j \in 1..l
    BY <1>2, <1>4, <2>1, <2>2
  <2>4. sc[s].writes[j].referenced \/ (sc[s].captured /\ ~sc[s].writes[j].reassigned)
    BY <1>2, <1>4, <2>1, <2>3 DEF RSeenOK
  <2>5. QED
    BY <1>4, <2>1, <2>3, <2>4
<1>5. QED
  BY <1>3, <1>4

LEMMA AssignsRaised ==
  ASSUME Inv, LiveInv, PlacedInv, Top > 0, NEW sc \in Seq(Scope), Milder(scopes, sc),
         NEW X, X \subseteq Nat, RSeenOK(sc, pos, reported, X),
         HeldOK(sc, open, pos, reported, seen.body),
         NEW p \in Seq(Context), NEW modifier \in BOOLEAN, p = path \/ modifier,
         NEW body, body \subseteq seen.body \union {pos}
  PROVE  LET sc2 == Assigned(sc, p, modifier)
         IN  /\ sc2 \in Seq(Scope) /\ Target \in 1..Len(sc) /\ Len(sc2) = Len(sc) /\ sc2 # <<>>
             /\ Adds(sc, sc2, Target, pos, p, modifier)
             /\ HeldOK(sc2, open, pos + 1, reported, body)
             /\ RSeenOK(sc2, pos + 1, reported, X)
<1> DEFINE sc2 == Assigned(sc, p, modifier)
<1>1. /\ scopes \in Seq(Scope) /\ open \in Seq(Frame) /\ Top = Len(scopes) /\ pos \in Nat
      /\ Len(sc) = Len(scopes)
      /\ \A i \in DOMAIN open : /\ open[i].scope \in 1..Len(sc)
                                /\ Held(open[i]) \subseteq Nat
  BY RaisedTypes DEF Milder
<1>2. Extends(sc)
  BY MilderIsSafe
<1>3. /\ Target \in 1..Len(sc) /\ sc2 \in Seq(Scope)
      /\ Adds(sc, sc2, Target, pos, p, modifier)
  BY <1>2, AssignedAdds
<1> HIDE DEF sc2
<1>4. Target \in 1..Top /\ Reach(scopes, Target, Top)
  <2>1. Milder(scopes, scopes)
    BY DEF Milder
  <2>2. QED
    BY <1>1, <2>1, TargetReached
<1>5. ASSUME NEW i \in DOMAIN open, open[i].kind \notin Straight, Target <= open[i].scope
      PROVE  PartsAround(open, p, modifier, Target, open[i].path, i)
  <2>1. CASE modifier
    BY <2>1 DEF PartsAround
  <2>2. CASE p = path
    BY <1>4, <1>5, <2>2, NewParts
  <2>3. QED
    BY <2>1, <2>2
<1>6. HeldOK(sc2, open, pos + 1, reported, body)
  BY <1>1, <1>3, <1>5, AddsHeld
<1>7. RSeenOK(sc2, pos + 1, reported, X)
  BY <1>1, <1>3, AddsSeen
<1>8. Len(sc2) = Len(sc) /\ sc2 # <<>>
  <2>1. Len(sc2) = Len(sc)
    BY <1>3 DEF Adds
  <2>2. Len(sc2) # 0
    BY <1>1, <2>1
  <2>3. QED
    BY <2>1, <2>2, NotEmpty
<1>9. QED
  BY <1>3, <1>6, <1>7, <1>8 DEF sc2

LEMMA NothingTossed ==
  ASSUME NEW sc, NEW op, NEW body, NEW level, NEW q, NEW lim
  PROVE  Tossed(sc, op, body, {}, level, q, lim)
  BY DEF Tossed

\* What the invariant says where there is a scope.
LEMMA RaisedHere ==
  ASSUME Inv, RaisedInv, scopes # <<>>
  PROVE  /\ RSeenOK(scopes, pos, reported, seen.raised) /\ seen.raised \subseteq Nat
         /\ HeldOK(scopes, open, pos, reported, seen.body)
         /\ Unreported(flow.raised, pos, reported)
         /\ Unreported(flow.raised, pos + 1, reported) /\ pos \notin flow.raised
         /\ Tossed(scopes, open, seen.body, flow.raised, Len(scopes), path, Len(open) + 1)
<1>1. seen.raised \subseteq Nat /\ pos \in Nat /\ flow.raised \subseteq Nat
  BY DEF Inv, TypeOK, Flow
<1>2. Unreported(flow.raised, pos, reported)
  BY DEF RaisedInv
<1>3. Unreported(flow.raised, pos + 1, reported) /\ pos \notin flow.raised
  BY <1>1, <1>2 DEF Unreported
<1>4. QED
  BY <1>1, <1>2, <1>3 DEF RaisedInv, Top

LEMMA WriteRaised ==
  ASSUME Inv, Inv', LiveInv, LiveInv', PlacedInv, PlacedInv', RaisedInv, Write
  PROVE  RaisedInv'
<1>1. /\ Passed(Written) /\ UNCHANGED <<path, reported>> /\ Top > 0
      /\ scopes' = Assigned(scopes, path, FALSE) /\ seen' = SeesWritten(Wrote(seen))
  BY DEF Write, Passed
<1>2. /\ scopes \in Seq(Scope) /\ path \in Seq(Context) /\ seen \in Seen /\ TypeOK
      /\ pos \in Nat /\ Written \in Flow /\ scopes # <<>>
  BY <1>1, RaisedTypes, FlowTypes DEF Inv, TypeOK, Seen
<1>3. /\ seen'.body \subseteq seen.body \union {pos} /\ seen'.raised = seen.raised
  BY <1>1, <1>2, WroteTypes, BodyOf
<1>4. Milder(scopes, scopes)
  BY DEF Milder
<1>5. /\ HeldOK(scopes', open, pos + 1, reported, seen'.body) /\ scopes' # <<>>
      /\ RSeenOK(scopes', pos + 1, reported, seen'.raised)
  BY <1>1, <1>2, <1>3, <1>4, RaisedHere, AssignsRaised
<1>6. Written.raised = {}
  BY DEF Written
<1>7. /\ Unreported(Written.raised, pos + 1, reported)
      /\ Tossed(scopes', open, seen'.body, Written.raised, Len(scopes'), path, Len(open) + 1)
  BY <1>6, NothingTossed DEF Unreported
<1>8. QED
  BY <1>1, <1>2, <1>5, <1>7, PassingRaised

LEMMA WriteModifiedRaised ==
  ASSUME Inv, Inv', LiveInv, LiveInv', PlacedInv, PlacedInv', RaisedInv, WriteModified
  PROVE  RaisedInv'
<1> DEFINE p2 == Append(path, Branch(pos, 0, FALSE, TRUE))
           f == Join(flow, Written)
<1>1. /\ Passed(f) /\ UNCHANGED <<path, reported>> /\ Top > 0
      /\ scopes' = Assigned(scopes, p2, TRUE) /\ seen' = SeesWritten(seen)
  BY DEF WriteModified, Passed
<1>2. /\ scopes \in Seq(Scope) /\ path \in Seq(Context) /\ seen \in Seen /\ TypeOK
      /\ pos \in Nat /\ Written \in Flow /\ flow \in Flow /\ scopes # <<>> /\ Top = Len(scopes)
      /\ Top \in Nat
  BY <1>1, RaisedTypes, FlowTypes DEF Inv, TypeOK, Seen
<1>3. p2 \in Seq(Context)
  BY <1>2, BranchType
<1>4. f \in Flow /\ f.raised = flow.raised
  BY <1>2, JoinType DEF Join, Written
<1> HIDE DEF p2, f
<1>5. seen'.body = seen.body /\ seen'.raised = seen.raised
  BY <1>1, <1>2, BodyOf
<1>6. Milder(scopes, scopes)
  BY DEF Milder
<1>7. /\ HeldOK(scopes', open, pos + 1, reported, seen'.body) /\ scopes' # <<>>
      /\ RSeenOK(scopes', pos + 1, reported, seen'.raised)
      /\ scopes' \in Seq(Scope) /\ Target \in 1..Len(scopes) /\ Len(scopes') = Len(scopes)
      /\ Adds(scopes, scopes', Target, pos, p2, TRUE)
  BY <1>1, <1>2, <1>3, <1>5, <1>6, RaisedHere, AssignsRaised
<1>8. /\ Unreported(flow.raised, pos + 1, reported) /\ pos \notin flow.raised
      /\ Tossed(scopes, open, seen.body, flow.raised, Len(scopes), path, Len(open) + 1)
  BY <1>2, RaisedHere
<1>9. Len(scopes) \in 1..Len(scopes)
  BY <1>1, <1>2
<1>10. Tossed(scopes', open, seen'.body, flow.raised, Len(scopes'), path, Len(open) + 1)
  <2>1. /\ scopes \in Seq(Scope) /\ scopes' \in Seq(Scope) /\ Target \in 1..Len(scopes)
        /\ Adds(scopes, scopes', Target, pos, p2, TRUE)
    BY <1>2, <1>7
  <2>2. seen'.body \subseteq seen.body \union {pos}
    BY <1>5
  <2>3. \A X, q, lim :
          Tossed(scopes, open, seen.body, X, Len(scopes), q, lim) /\ pos \notin X =>
            Tossed(scopes', open, seen'.body, X, Len(scopes), q, lim)
    BY <1>9, <2>1, <2>2, AddsTossedModified
  <2>4. QED
    BY <1>7, <1>8, <2>3
<1>11. QED
  BY <1>1, <1>4, <1>7, <1>8, <1>10, PassingRaised

LEMMA ReadRaised ==
  ASSUME Inv, Inv', LiveInv, LiveInv', PlacedInv, PlacedInv', RaisedInv, Read
  PROVE  RaisedInv'
<1>1. /\ Passed(flow) /\ UNCHANGED <<path, reported>> /\ Top > 0 /\ Declaring # {}
      /\ scopes' = Referenced /\ seen' = Sees
  BY DEF Read, Passed
<1>2. /\ scopes \in Seq(Scope) /\ open \in Seq(Frame) /\ TypeOK /\ pos \in Nat
      /\ flow \in Flow /\ scopes # <<>> /\ Top = Len(scopes) /\ Top \in Nat
      /\ \A i \in DOMAIN open : /\ open[i].scope \in 1..Len(scopes)
                                /\ Held(open[i]) \subseteq Nat
  BY <1>1, RaisedTypes DEF Inv
<1>3. Referenced \in Seq(Scope) /\ Milder(scopes, Referenced)
  BY <1>1, ReferencedIsMilder
<1>4. seen'.body = seen.body
  BY <1>1, <1>2, BodyOf
<1>5. HeldOK(scopes', open, pos, reported, seen'.body)
  BY <1>1, <1>2, <1>3, <1>4, RaisedHere, MilderHeld
<1>6. HeldOK(scopes', open, pos + 1, reported, seen'.body)
  <2>1. \A i \in DOMAIN open : Unreported(Held(open[i]), pos + 1, reported)
    <3>1. SUFFICES ASSUME NEW i \in DOMAIN open, NEW x \in Held(open[i])
                   PROVE  x < pos + 1 /\ x \notin reported
      BY DEF Unreported
    <3>2. x < pos /\ x \notin reported /\ x \in Nat
      BY <1>2, <1>5 DEF HeldOK, Unreported
    <3>3. QED
      BY <1>2, <3>2
  <2>2. QED
    BY <1>5, <2>1 DEF HeldOK
<1>7. RSeenOK(scopes', pos, reported, seen'.raised) /\ seen'.raised \subseteq Nat
  BY <1>1, ReadSees DEF Inv, TypeOK
<1>8. RSeenOK(scopes', pos + 1, reported, seen'.raised)
  BY <1>2, <1>7 DEF RSeenOK, Unreported
<1>9. Unreported(flow.raised, pos + 1, reported)
  BY <1>2, RaisedHere
<1>10. Len(scopes) \in 1..Len(scopes) /\ Len(scopes') = Len(scopes)
  BY <1>1, <1>2, <1>3 DEF Milder
<1>11. Tossed(scopes', open, seen'.body, flow.raised, Len(scopes'), path, Len(open) + 1)
  <2>1. Tossed(scopes, open, seen.body, flow.raised, Len(scopes), path, Len(open) + 1)
    BY <1>2, RaisedHere
  <2>2. QED
    BY <1>1, <1>2, <1>3, <1>4, <1>10, <2>1, MilderTossed
<1>12. scopes' # <<>>
  BY <1>1, <1>2, <1>10
<1>13. QED
  BY <1>1, <1>2, <1>6, <1>8, <1>9, <1>11, <1>12, PassingRaised

LEMMA WriteShortRaised ==
  ASSUME Inv, Inv', LiveInv, LiveInv', PlacedInv, PlacedInv', RaisedInv, WriteShort
  PROVE  RaisedInv'
<1> DEFINE f == Join(flow, Written)
<1>1. /\ Passed(f) /\ UNCHANGED <<path, reported>> /\ Top > 0 /\ Declaring # {}
      /\ scopes' = Assigned(Referenced, path, FALSE) /\ seen' = SeesWritten(Wrote(Sees))
  BY DEF WriteShort, Passed
<1>2. /\ scopes \in Seq(Scope) /\ open \in Seq(Frame) /\ TypeOK /\ pos \in Nat
      /\ path \in Seq(Context) /\ Sees \in Seen
      /\ flow \in Flow /\ Written \in Flow /\ scopes # <<>> /\ Top = Len(scopes) /\ Top \in Nat
      /\ \A i \in DOMAIN open : open[i].scope \in 1..Len(scopes)
  BY <1>1, RaisedTypes, SeesTypes, FlowTypes DEF Inv
<1>3. f \in Flow /\ f.raised = flow.raised
  BY <1>2, JoinType DEF Join, Written
<1> HIDE DEF f
<1>4. /\ seen'.body \subseteq seen.body \union {pos} /\ seen'.raised = Sees.raised
  BY <1>1, <1>2, WroteTypes, BodyOf
<1>5. Referenced \in Seq(Scope) /\ Milder(scopes, Referenced) /\ Len(Referenced) = Len(scopes)
  BY <1>1, ReferencedIsMilder DEF Milder
<1>6. HeldOK(Referenced, open, pos, reported, seen.body)
  BY <1>2, <1>5, RaisedHere, MilderHeld
<1>7. RSeenOK(Referenced, pos, reported, Sees.raised) /\ Sees.raised \subseteq Nat
  BY <1>1, <1>2, ReadSees DEF Seen
<1>8. /\ HeldOK(scopes', open, pos + 1, reported, seen'.body) /\ scopes' # <<>>
      /\ RSeenOK(scopes', pos + 1, reported, seen'.raised)
      /\ scopes' \in Seq(Scope) /\ Target \in 1..Len(Referenced)
      /\ Len(scopes') = Len(Referenced)
      /\ Adds(Referenced, scopes', Target, pos, path, FALSE)
  BY <1>1, <1>2, <1>4, <1>5, <1>6, <1>7, AssignsRaised
<1>9. /\ Unreported(flow.raised, pos + 1, reported) /\ pos \notin flow.raised
      /\ Tossed(scopes, open, seen.body, flow.raised, Len(scopes), path, Len(open) + 1)
  BY <1>2, RaisedHere
<1>10. Len(scopes) \in 1..Len(scopes)
  BY <1>1, <1>2
<1>11. Tossed(Referenced, open, seen.body, flow.raised, Len(scopes), path, Len(open) + 1)
  BY <1>2, <1>5, <1>9, <1>10, MilderTossed
<1>12. ASSUME NEW j \in DOMAIN Referenced[Target].writes,
              Referenced[Target].writes[j].at \in flow.raised
       PROVE  Settled(Referenced, Target, j, seen.body)
  <2>1. /\ Target \in 1..Len(scopes) /\ j \in DOMAIN scopes[Target].writes
        /\ scopes[Target].writes[j].at \in flow.raised
    BY <1>5, <1>8, <1>12 DEF Milder
  <2>2. QED
    BY <1>1, <2>1, ReadSettles
<1>13. Tossed(scopes', open, seen'.body, flow.raised, Len(scopes'), path, Len(open) + 1)
  <2>1. /\ Referenced \in Seq(Scope) /\ scopes' \in Seq(Scope) /\ Target \in 1..Len(Referenced)
        /\ Adds(Referenced, scopes', Target, pos, path, FALSE)
    BY <1>5, <1>8
  <2>2. Len(scopes) \in 1..Len(Referenced) /\ pos \notin flow.raised
    BY <1>5, <1>9, <1>10
  <2>3. seen'.body \subseteq seen.body \union {pos}
    BY <1>4
  <2>4. Tossed(scopes', open, seen'.body, flow.raised, Len(scopes), path, Len(open) + 1)
    BY <1>11, <1>12, <2>1, <2>2, <2>3, AddsTossedSettled
  <2>5. QED
    BY <1>5, <1>8, <2>4
<1>14. QED
  BY <1>1, <1>3, <1>8, <1>9, <1>13, PassingRaised

\* What has been seen is safe among scopes with more marks, and further on.
LEMMA MilderRSeen ==
  ASSUME NEW sc \in Seq(Scope), NEW sc2 \in Seq(Scope), Milder(sc, sc2),
         NEW n \in Nat, NEW n2 \in {n, n + 1}, NEW rep, NEW X, X \subseteq Nat, RSeenOK(sc, n, rep, X)
  PROVE  RSeenOK(sc2, n2, rep, X)
<1>1. Unreported(X, n2, rep)
  BY DEF RSeenOK, Unreported
<1>2. ASSUME NEW s \in 1..Len(sc2), NEW j \in DOMAIN sc2[s].writes, sc2[s].writes[j].at \in X
      PROVE  sc2[s].writes[j].referenced \/ (sc2[s].captured /\ ~sc2[s].writes[j].reassigned)
  <2>1. s \in 1..Len(sc) /\ j \in DOMAIN sc[s].writes
    BY <1>2 DEF Milder
  <2>2. /\ sc2[s].writes[j].at = sc[s].writes[j].at
        /\ sc2[s].writes[j].reassigned = sc[s].writes[j].reassigned
        /\ sc[s].captured => sc2[s].captured
        /\ sc[s].writes[j].referenced => sc2[s].writes[j].referenced
    BY <2>1 DEF Milder
  <2>3. sc[s].writes[j].referenced \/ (sc[s].captured /\ ~sc[s].writes[j].reassigned)
    BY <1>2, <2>1, <2>2 DEF RSeenOK
  <2>4. QED
    BY <2>2, <2>3
<1>3. QED
  BY <1>1, <1>2 DEF RSeenOK

\* Where x is no variable, an exception carries no value of it either.
LEMMA NothingRaised ==
  ASSUME Inv, LiveInv, PlacedInv, RaisedInv, Declaring = {}, Top > 0,
         NEW s \in 1..Len(scopes), NEW j \in DOMAIN scopes[s].writes
  PROVE  scopes[s].writes[j].at \notin flow.raised
<1>1. Top = Len(scopes) /\ scopes # <<>> /\ WritesOK(scopes, open, pos)
  BY RaisedTypes
<1>2. SUFFICES ASSUME scopes[s].writes[j].at \in flow.raised PROVE FALSE
  OBVIOUS
<1>3. scopes[s].declared /\ Reach(scopes, s, Top)
  BY <1>1, <1>2 DEF WritesOK, RaisedInv, Tossed
<1>4. QED
  BY <1>1, <1>3, HomeOnly

LEMMA FirstShortRaised ==
  ASSUME Inv, Inv', LiveInv, LiveInv', PlacedInv, PlacedInv', RaisedInv, FirstShort
  PROVE  RaisedInv'
<1> DEFINE f == Join(flow, Written)
<1>1. /\ Passed(f) /\ UNCHANGED <<path, reported>> /\ Top > 0 /\ Declaring = {}
      /\ scopes' = Assigned(FirstReferenced, path, FALSE)
      /\ seen' = SeesWritten(Wrote(FirstSees))
  BY DEF FirstShort, Passed
<1>2. /\ scopes \in Seq(Scope) /\ open \in Seq(Frame) /\ TypeOK /\ pos \in Nat
      /\ path \in Seq(Context)
      /\ flow \in Flow /\ Written \in Flow /\ scopes # <<>> /\ Top = Len(scopes) /\ Top \in Nat
      /\ \A i \in DOMAIN open : open[i].scope \in 1..Len(scopes)
  BY <1>1, RaisedTypes, FlowTypes DEF Inv
<1>3. f \in Flow /\ f.raised = flow.raised
  BY <1>2, JoinType DEF Join, Written
<1> HIDE DEF f
<1>4. /\ FirstSees \in Seen /\ FirstSees.raised = seen.raised \union flow.raised
      /\ FirstSees.body = seen.body /\ seen' = Wrote(FirstSees)
  BY <1>1, <1>2, FirstSeesTypes
<1>5. seen'.body \subseteq seen.body \union {pos} /\ seen'.raised = FirstSees.raised
  BY <1>2, <1>4, WroteTypes, BodyOf
<1>6. /\ FirstReferenced \in Seq(Scope) /\ Milder(scopes, FirstReferenced)
      /\ Len(FirstReferenced) = Len(scopes)
  BY <1>1, FirstIsMilder DEF Milder
<1>7. HeldOK(FirstReferenced, open, pos, reported, seen.body)
  BY <1>2, <1>6, RaisedHere, MilderHeld
<1>8. ASSUME NEW s \in 1..Len(FirstReferenced), NEW j \in DOMAIN FirstReferenced[s].writes
      PROVE  FirstReferenced[s].writes[j].at \notin flow.raised
  <2>1. /\ s \in 1..Len(scopes) /\ j \in DOMAIN scopes[s].writes
        /\ FirstReferenced[s].writes[j].at = scopes[s].writes[j].at
    BY <1>6 DEF Milder
  <2>2. QED
    BY <1>1, <2>1, NothingRaised
<1>9. RSeenOK(FirstReferenced, pos, reported, FirstSees.raised) /\ FirstSees.raised \subseteq Nat
  <2>1. RSeenOK(FirstReferenced, pos, reported, seen.raised)
    BY <1>2, <1>6, RaisedHere, MilderRSeen
  <2>2. Unreported(FirstSees.raised, pos, reported)
    BY <1>2, <1>4, <2>1, RaisedHere DEF RSeenOK, Unreported
  <2>3. QED
    BY <1>4, <1>8, <2>1, <2>2 DEF RSeenOK, Seen
<1>10. /\ HeldOK(scopes', open, pos + 1, reported, seen'.body) /\ scopes' # <<>>
       /\ RSeenOK(scopes', pos + 1, reported, seen'.raised)
       /\ scopes' \in Seq(Scope) /\ Target \in 1..Len(FirstReferenced)
       /\ Len(scopes') = Len(FirstReferenced)
       /\ Adds(FirstReferenced, scopes', Target, pos, path, FALSE)
  BY <1>1, <1>2, <1>5, <1>6, <1>7, <1>9, AssignsRaised
<1>11. Unreported(flow.raised, pos + 1, reported) /\ pos \notin flow.raised
  BY <1>2, RaisedHere
<1>12. Tossed(scopes', open, seen'.body, flow.raised, Len(scopes'), path, Len(open) + 1)
  <2>1. SUFFICES ASSUME NEW s \in 1..Len(scopes'), NEW j \in DOMAIN scopes'[s].writes,
                        scopes'[s].writes[j].at \in flow.raised
                 PROVE  FALSE
    BY DEF Tossed
  <2>2. CASE s # Target
    BY <1>8, <1>10, <2>1, <2>2 DEF Adds
  <2>3. CASE s = Target
    <3>1. /\ DOMAIN scopes'[s].writes = 1..Len(scopes'[s].writes)
          /\ DOMAIN FirstReferenced[s].writes = 1..Len(FirstReferenced[s].writes)
          /\ Len(FirstReferenced[s].writes) \in Nat
      BY <1>6, <1>10, <2>3, WriteTypes
    <3>2. CASE j \in 1..Len(FirstReferenced[s].writes)
      BY <1>8, <1>10, <2>1, <2>3, <3>1, <3>2 DEF Adds
    <3>3. CASE j \notin 1..Len(FirstReferenced[s].writes)
      <4>1. j = Len(FirstReferenced[s].writes) + 1
        BY <1>10, <2>3, <3>1, <3>3 DEF Adds
      <4>2. QED
        BY <1>10, <1>11, <2>1, <2>3, <4>1 DEF Adds
    <3>4. QED
      BY <3>2, <3>3
  <2>4. QED
    BY <2>2, <2>3
<1>13. QED
  BY <1>1, <1>3, <1>10, <1>11, <1>12, PassingRaised

\* Here too, what x may be by the order of the program may be thrown.
LEMMA AllTossed ==
  ASSUME Inv, LiveInv, PlacedInv, RaisedInv, Top > 0
  PROVE  /\ Tossed(scopes, open, seen.body, All(flow), Len(scopes), path, Len(open) + 1)
         /\ Unreported(All(flow), pos, reported) /\ Unreported(All(flow), pos + 1, reported)
<1>1. /\ scopes \in Seq(Scope) /\ open \in Seq(Frame) /\ path \in Seq(Context)
      /\ scopes # <<>> /\ pos \in Nat
      /\ NestOK(Len(scopes), open, pos) /\ WritesOK(scopes, open, pos)
      /\ Carried(scopes, open, flow.plain, Len(scopes), path, Len(open) + 1)
      /\ Unreported(flow.plain, pos, reported)
      /\ Place(open, Len(scopes), path, Len(open) + 1)
      /\ FramesPlaced(scopes, open) /\ WritesPlaced(scopes, open, seen.body)
      /\ flow.raised \subseteq Nat /\ flow.plain \subseteq Nat
  BY RaisedTypes
<1>2. Len(scopes) \in Nat /\ Len(scopes) # 0
  BY <1>1
<1>3. /\ Len(scopes) \in 1..Len(scopes)
      /\ \A b \in DOMAIN open : b < Len(open) + 1 => After(open[b]) <= Len(scopes)
  BY <1>1, <1>2, Nested
<1>4. Tossed(scopes, open, seen.body, flow.plain, Len(scopes), path, Len(open) + 1)
  BY <1>1, <1>3, CarriedTossed
<1>5. /\ Unreported(flow.raised, pos, reported)
      /\ Tossed(scopes, open, seen.body, flow.raised, Len(scopes), path, Len(open) + 1)
  BY <1>1, RaisedHere
<1>6. Unreported(All(flow), pos, reported) /\ All(flow) \subseteq Nat
  BY <1>1, <1>5 DEF All, Unreported
<1>7. Unreported(All(flow), pos + 1, reported)
  BY <1>1, <1>6 DEF Unreported
<1>8. QED
  BY <1>4, <1>5, <1>6, <1>7, TossedTogether DEF All

\* A construct that is no scope of its own: what may be thrown in it is what may be thrown
\* in front of it.
LEMMA EntersRaised ==
  ASSUME Inv, Inv', NEW kind \in Kinds, kind \notin Scoping,
         NEW p2, NEW before \in Flow, NEW f, Enters(kind, p2, before, f),
         UNCHANGED reported, scopes' # <<>>, Len(scopes') = Len(scopes),
         HeldOK(scopes', open, pos + 1, reported, seen'.body),
         RSeenOK(scopes', pos + 1, reported, seen'.raised),
         NEW X, Unreported(X, pos + 1, reported),
         Tossed(scopes', open, seen'.body, X, Len(scopes'), path, Len(open) + 1),
         Held(Opened(kind, before)) \subseteq X, f.raised \subseteq X,
         \A s \in 1..Len(scopes') : \A j \in DOMAIN scopes'[s].writes :
           \A d \in Contexts(scopes'[s].writes[j].path) : d.parent # pos,
         NEW c, c.parent = pos, Contexts(p2) \subseteq Contexts(path) \union {c}
  PROVE  RaisedInv'
<1> DEFINE fr == Opened(kind, before)
           m == Len(open) + 1
<1>1. /\ fr \in Frame /\ open' = Append(open, fr)
      /\ path' = p2 /\ flow' = f /\ pos' = pos + 1
  BY Entered
<1>2. open \in Seq(Frame)
  BY DEF Inv, TypeOK
<1>3. /\ m \in Nat /\ DOMAIN open' = 1..m /\ Len(open') = m /\ open'[m] = fr
      /\ \A i \in DOMAIN open : i < m /\ open'[i] = open[i]
      /\ \A i \in DOMAIN open' : i # m => i \in DOMAIN open /\ i < m
  BY <1>1, <1>2, Under
<1>4. fr.kind = kind /\ fr.at = pos /\ fr.scope = Len(scopes') /\ fr.path = path
  BY DEF Opened, Top
<1>5. /\ Tossed(scopes', open, seen'.body, Held(fr), Len(scopes'), path, m)
      /\ Tossed(scopes', open, seen'.body, f.raised, Len(scopes'), path, m)
      /\ Unreported(Held(fr), pos', reported') /\ Unreported(f.raised, pos', reported')
  BY <1>1, TossedTogether DEF Unreported
<1> HIDE DEF fr, m
<1>6. Tossed(scopes', open', seen'.body, Held(fr), fr.scope, fr.path, m)
  BY <1>3, <1>4, <1>5, TossedAmong
<1>7. HeldAside(scopes', fr)
  BY <1>4 DEF HeldAside
<1>8. HeldOK(scopes', open', pos', reported', seen'.body)
  <2>1. SUFFICES ASSUME NEW i \in DOMAIN open'
                 PROVE  /\ Unreported(Held(open'[i]), pos', reported')
                        /\ Tossed(scopes', open', seen'.body, Held(open'[i]), open'[i].scope,
                                  open'[i].path, i)
                        /\ HeldAside(scopes', open'[i])
    BY DEF HeldOK
  <2>2. CASE i = m
    BY <1>3, <1>5, <1>6, <1>7, <2>2
  <2>3. CASE i # m
    <3>1. i \in DOMAIN open /\ i < m /\ open'[i] = open[i] /\ i \in Nat
      BY <1>2, <1>3, <2>1, <2>3
    <3>2. /\ Unreported(Held(open[i]), pos', reported')
          /\ Tossed(scopes', open, seen'.body, Held(open[i]), open[i].scope, open[i].path, i)
          /\ HeldAside(scopes', open[i])
      BY <1>1, <3>1 DEF HeldOK
    <3>3. \A b \in DOMAIN open' : b < i => b \in DOMAIN open /\ open'[b] = open[b]
      BY <1>3, <3>1
    <3>4. Tossed(scopes', open', seen'.body, Held(open[i]), open[i].scope, open[i].path, i)
      BY <3>2, <3>3, TossedAmong
    <3>5. QED
      BY <3>1, <3>2, <3>4
  <2>4. QED
    BY <2>2, <2>3
<1>9. Tossed(scopes', open', seen'.body, flow'.raised, Len(scopes'), path', Len(open') + 1)
  <2>1. \A s \in 1..Len(scopes') : \A j \in DOMAIN scopes'[s].writes :
          /\ c \notin Contexts(scopes'[s].writes[j].path)
          /\ \A d \in Contexts(scopes'[s].writes[j].path) : d.parent # c.parent
    OBVIOUS
  <2>2. Tossed(scopes', open, seen'.body, f.raised, Len(scopes'), p2, m)
    BY <1>5, <2>1, TossedIn
  <2>3. \A b \in DOMAIN open' : open'[b].kind \in Scoping =>
          b \in DOMAIN open /\ b < m /\ open'[b] = open[b]
    BY <1>3, <1>4
  <2>4. Tossed(scopes', open', seen'.body, f.raised, Len(scopes'), p2, Len(open') + 1)
    BY <2>2, <2>3, TossedAmong
  <2>5. QED
    BY <1>1, <2>4
<1>10. QED
  BY <1>1, <1>5, <1>8, <1>9, ArrivesRaised

LEMMA EntersQuietlyRaised ==
  ASSUME Inv, Inv', LiveInv, PlacedInv, RaisedInv, NEW kind \in Kinds, kind \notin Scoping,
         NEW p2, NEW f, Enters(kind, p2, flow, f), UNCHANGED <<scopes, reported, seen>>,
         f.raised \subseteq flow.raised,
         NEW c, c.parent = pos, Contexts(p2) \subseteq Contexts(path) \union {c}
  PROVE  RaisedInv'
<1>1. Top > 0
  BY DEF Enters
<1>2. /\ pos \in Nat /\ flow \in Flow /\ scopes # <<>>
      /\ \A i \in DOMAIN open : Held(open[i]) \subseteq Nat
  BY <1>1, RaisedTypes
<1>3. /\ Tossed(scopes, open, seen.body, All(flow), Len(scopes), path, Len(open) + 1)
      /\ Unreported(All(flow), pos + 1, reported)
  BY <1>1, AllTossed
<1>4. Held(Opened(kind, flow)) \subseteq All(flow) /\ f.raised \subseteq All(flow)
  BY DEF Held, Opened, NoFlow, All
<1>5. HeldOK(scopes, open, pos + 1, reported, seen.body)
  <2>1. HeldOK(scopes, open, pos, reported, seen.body)
    BY <1>2, RaisedHere
  <2>2. ASSUME NEW i \in DOMAIN open PROVE Unreported(Held(open[i]), pos + 1, reported)
    <3>1. Unreported(Held(open[i]), pos, reported) /\ Held(open[i]) \subseteq Nat
      BY <1>2, <2>1 DEF HeldOK
    <3>2. QED
      BY <1>2, <3>1 DEF Unreported
  <2>3. QED
    BY <2>1, <2>2 DEF HeldOK
<1>6. RSeenOK(scopes, pos + 1, reported, seen.raised)
  BY <1>2, RaisedHere DEF RSeenOK, Unreported
<1>7. \A s \in 1..Len(scopes) : \A j \in DOMAIN scopes[s].writes :
        \A d \in Contexts(scopes[s].writes[j].path) : d.parent # pos
  <2>1. SUFFICES ASSUME NEW s \in 1..Len(scopes), NEW j \in DOMAIN scopes[s].writes,
                        NEW d \in Contexts(scopes[s].writes[j].path)
                 PROVE  d.parent # pos
    OBVIOUS
  <2>2. d.parent < pos
    BY <1>1, Stands
  <2>3. QED
    BY <1>2, <2>2
<1>8. QED
  BY <1>2, <1>3, <1>4, <1>5, <1>6, <1>7, EntersRaised

LEMMA CondRaised ==
  ASSUME Inv, Inv', LiveInv, PlacedInv, RaisedInv, Cond
  PROVE  RaisedInv'
<1> DEFINE c == Branch(pos, 0, FALSE, TRUE)
<1>1. Enters("cond", Append(path, c), flow, flow) /\ UNCHANGED <<scopes, reported, seen>>
  BY DEF Cond
<1>2. c \in Context /\ c.parent = pos /\ path \in Seq(Context)
  BY LiveTypes DEF Branch, Context
<1> HIDE DEF c
<1>3. Contexts(Append(path, c)) \subseteq Contexts(path) \union {c}
  BY <1>2, ContextsOf
<1>4. "cond" \in Kinds /\ "cond" \notin Scoping
  BY DEF Kinds, Scoping
<1>5. QED
  BY <1>1, <1>2, <1>3, <1>4, EntersQuietlyRaised

LEMMA LogicRaised ==
  ASSUME Inv, Inv', LiveInv, PlacedInv, RaisedInv, Logic
  PROVE  RaisedInv'
<1> DEFINE c == Branch(pos, 1, FALSE, FALSE)
<1>1. Enters("logic", Append(path, c), flow, flow) /\ UNCHANGED <<scopes, reported, seen>>
  BY DEF Logic
<1>2. c \in Context /\ c.parent = pos /\ path \in Seq(Context)
  BY LiveTypes DEF Branch, Context
<1> HIDE DEF c
<1>3. Contexts(Append(path, c)) \subseteq Contexts(path) \union {c}
  BY <1>2, ContextsOf
<1>4. "logic" \in Kinds /\ "logic" \notin Scoping
  BY DEF Kinds, Scoping
<1>5. QED
  BY <1>1, <1>2, <1>3, <1>4, EntersQuietlyRaised

LEMMA BeginRaised ==
  ASSUME Inv, Inv', LiveInv, PlacedInv, RaisedInv, Begin
  PROVE  RaisedInv'
<1> DEFINE c == Branch(pos, 0, TRUE, TRUE)
<1>1. Enters("begin", Append(path, c), flow, flow) /\ UNCHANGED <<scopes, reported, seen>>
  BY DEF Begin
<1>2. c \in Context /\ c.parent = pos /\ path \in Seq(Context)
  BY LiveTypes DEF Branch, Context
<1> HIDE DEF c
<1>3. Contexts(Append(path, c)) \subseteq Contexts(path) \union {c}
  BY <1>2, ContextsOf
<1>4. "begin" \in Kinds /\ "begin" \notin Scoping
  BY DEF Kinds, Scoping
<1>5. QED
  BY <1>1, <1>2, <1>3, <1>4, EntersQuietlyRaised

LEMMA EnsuredRaised ==
  ASSUME Inv, Inv', LiveInv, PlacedInv, RaisedInv, Ensured
  PROVE  RaisedInv'
<1> DEFINE c == Branch(pos, 0, TRUE, FALSE)
<1>1. Enters("ensured", Append(path, c), flow, flow) /\ UNCHANGED <<scopes, reported, seen>>
  BY DEF Ensured
<1>2. c \in Context /\ c.parent = pos /\ path \in Seq(Context)
  BY LiveTypes DEF Branch, Context
<1> HIDE DEF c
<1>3. Contexts(Append(path, c)) \subseteq Contexts(path) \union {c}
  BY <1>2, ContextsOf
<1>4. "ensured" \in Kinds /\ "ensured" \notin Scoping
  BY DEF Kinds, Scoping
<1>5. QED
  BY <1>1, <1>2, <1>3, <1>4, EntersQuietlyRaised

LEMMA WhileRaised ==
  ASSUME Inv, Inv', LiveInv, PlacedInv, RaisedInv, While
  PROVE  RaisedInv'
<1> DEFINE c == Branch(pos, 0, FALSE, FALSE)
<1>1. Enters("while", path, flow, Looping) /\ UNCHANGED <<scopes, reported, seen>>
  BY DEF While
<1>2. c.parent = pos /\ Looping.raised = flow.raised
  BY DEF Branch, Looping, Join, Written
<1> HIDE DEF c
<1>3. "while" \in Kinds /\ "while" \notin Scoping
  BY DEF Kinds, Scoping
<1>4. QED
  BY <1>1, <1>2, <1>3, EntersQuietlyRaised

LEMMA PostRaised ==
  ASSUME Inv, Inv', LiveInv, PlacedInv, RaisedInv, Post
  PROVE  RaisedInv'
<1> DEFINE c == Branch(pos, 0, FALSE, FALSE)
<1>1. Enters("post", Append(path, c), flow, Looping) /\ UNCHANGED <<scopes, reported, seen>>
  BY DEF Post
<1>2. /\ c \in Context /\ c.parent = pos /\ path \in Seq(Context)
      /\ Looping.raised = flow.raised
  BY LiveTypes DEF Branch, Context, Looping, Join, Written
<1> HIDE DEF c
<1>3. Contexts(Append(path, c)) \subseteq Contexts(path) \union {c}
  BY <1>2, ContextsOf
<1>4. "post" \in Kinds /\ "post" \notin Scoping
  BY DEF Kinds, Scoping
<1>5. QED
  BY <1>1, <1>2, <1>3, <1>4, EntersQuietlyRaised

LEMMA CondModifiedRaised ==
  ASSUME Inv, Inv', LiveInv, PlacedInv, RaisedInv, CondModified
  PROVE  RaisedInv'
<1> DEFINE c == Branch(pos, 0, FALSE, TRUE)
<1>1. /\ Enters("modifier", Append(path, c), Written, Written) /\ UNCHANGED reported
      /\ scopes' = Assigned(scopes, path, TRUE) /\ seen' = SeesWritten(Wrote(seen))
      /\ Top > 0
  BY DEF CondModified, Enters
<1>2. /\ scopes \in Seq(Scope) /\ path \in Seq(Context) /\ seen \in Seen /\ TypeOK
      /\ pos \in Nat /\ Written \in Flow /\ scopes # <<>>
  BY <1>1, RaisedTypes, FlowTypes DEF Inv, TypeOK, Seen
<1>3. c \in Context /\ c.parent = pos
  BY <1>2 DEF Branch, Context, Top
<1> HIDE DEF c
<1>4. Contexts(Append(path, c)) \subseteq Contexts(path) \union {c}
  BY <1>2, <1>3, ContextsOf
<1>5. /\ seen'.body \subseteq seen.body \union {pos} /\ seen'.raised = seen.raised
  BY <1>1, <1>2, WroteTypes, BodyOf
<1>6. Milder(scopes, scopes)
  BY DEF Milder
<1>7. /\ HeldOK(scopes', open, pos + 1, reported, seen'.body) /\ scopes' # <<>>
      /\ RSeenOK(scopes', pos + 1, reported, seen'.raised)
      /\ Target \in 1..Len(scopes) /\ Len(scopes') = Len(scopes)
      /\ Adds(scopes, scopes', Target, pos, path, TRUE)
  BY <1>1, <1>2, <1>5, <1>6, RaisedHere, AssignsRaised
<1>8. Held(Opened("modifier", Written)) = {} /\ Written.raised = {}
  BY DEF Held, Opened, Written, NoFlow, Begins
<1>9. \A s \in 1..Len(scopes') : \A j \in DOMAIN scopes'[s].writes :
        \A d \in Contexts(scopes'[s].writes[j].path) : d.parent # pos
  <2>1. SUFFICES ASSUME NEW s \in 1..Len(scopes), NEW j \in DOMAIN scopes'[s].writes,
                        NEW d \in Contexts(scopes'[s].writes[j].path)
                 PROVE  d.parent < pos
    BY <1>2, <1>7
  <2>2. scopes'[s].writes[j].path = path
        \/ \E k \in DOMAIN scopes[s].writes : scopes'[s].writes[j].path = scopes[s].writes[k].path
    <3>1. CASE s # Target
      BY <1>7, <3>1 DEF Adds
    <3>2. CASE s = Target
      <4> DEFINE l == Len(scopes[s].writes)
      <4>1. /\ l \in Nat /\ DOMAIN scopes[s].writes = 1..l
            /\ DOMAIN scopes'[s].writes = 1..l + 1
            /\ scopes'[s].writes[l + 1].path = path
            /\ \A k \in 1..l : scopes'[s].writes[k].path = scopes[s].writes[k].path
        <5>1. scopes' \in Seq(Scope) /\ s \in 1..Len(scopes')
          BY <1>7 DEF Inv, TypeOK
        <5>2. DOMAIN scopes'[s].writes = 1..Len(scopes'[s].writes)
          BY <5>1, WriteTypes
        <5>3. /\ l \in Nat /\ DOMAIN scopes[s].writes = 1..l
          BY <1>2, WriteTypes
        <5> HIDE DEF l
        <5>4. /\ Len(scopes'[s].writes) = l + 1 /\ scopes'[s].writes[l + 1].path = path
              /\ \A k \in 1..l : scopes'[s].writes[k].path = scopes[s].writes[k].path
          BY ONLY <1>7, <3>2 DEF Adds, l
        <5>5. QED
          BY ONLY <5>2, <5>3, <5>4
      <4> HIDE DEF l
      <4>2. j = l + 1 \/ j \in 1..l
        BY <4>1
      <4>3. QED
        BY <4>1, <4>2
    <3>3. QED
      BY <3>1, <3>2
  <2>3. QED
    BY <1>1, <2>2, Stands
<1>10. "modifier" \in Kinds /\ "modifier" \notin Scoping
  BY DEF Kinds, Scoping
<1>11. /\ Unreported({}, pos + 1, reported)
       /\ Tossed(scopes', open, seen'.body, {}, Len(scopes'), path, Len(open) + 1)
  BY NothingTossed DEF Unreported
<1>12. QED
  BY <1>1, <1>2, <1>3, <1>4, <1>7, <1>8, <1>9, <1>10, <1>11, EntersRaised

\* Scopes pushed or popped above the level change nothing there.
LEMMA TossedBelow ==
  ASSUME NEW sc \in Seq(Scope), NEW sc2 \in Seq(Scope), NEW op, NEW body, NEW X, NEW level \in Nat,
         NEW q, NEW lim, Tossed(sc, op, body, X, level, q, lim),
         \A s \in 1..Len(sc2) : \A j \in DOMAIN sc2[s].writes :
           s \in 1..Len(sc) /\ sc2[s] = sc[s],
         \A t \in 1..level : sc2[t].hard = sc[t].hard
  PROVE  Tossed(sc2, op, body, X, level, q, lim)
<1>1. SUFFICES ASSUME NEW s \in 1..Len(sc2), NEW j \in DOMAIN sc2[s].writes,
                      sc2[s].writes[j].at \in X
               PROVE  /\ Reach(sc2, s, level)
                      /\ \/ Settled(sc2, s, j, body)
                         \/ /\ Thrown(sc2[s].writes, s, j, q)
                            /\ \A b \in DOMAIN op :
                                 b < lim /\ op[b].kind \in Scoping /\ op[b].scope >= s =>
                                   Thrown(sc2[s].writes, s, j, op[b].path)
  BY DEF Tossed
<1>2. s \in 1..Len(sc) /\ sc2[s] = sc[s]
  OBVIOUS
<1>3. /\ Reach(sc, s, level)
      /\ \/ Settled(sc, s, j, body)
         \/ /\ Thrown(sc[s].writes, s, j, q)
            /\ \A b \in DOMAIN op :
                 b < lim /\ op[b].kind \in Scoping /\ op[b].scope >= s =>
                   Thrown(sc[s].writes, s, j, op[b].path)
  BY <1>1, <1>2 DEF Tossed
<1>4. Reach(sc2, s, level)
  <2>1. \A t \in s + 1..level : t \in 1..level
    OBVIOUS
  <2>2. QED
    BY <1>3, <2>1 DEF Reach
<1>5. Settled(sc2, s, j, body) <=> Settled(sc, s, j, body)
  BY <1>2 DEF Settled
<1>6. QED
  BY <1>2, <1>3, <1>4, <1>5

\* A scope of its own: a block starts with what may be thrown in front of it.
LEMMA EntersScopeRaised ==
  ASSUME Inv, Inv', LiveInv, PlacedInv, RaisedInv, NEW kind \in Kinds, kind \in Scoping,
         NEW p2, NEW f, Enters(kind, p2, flow, f), NEW new \in Scope,
         scopes' = Append(scopes, new), new.writes = <<>>, UNCHANGED <<reported, seen>>,
         kind = "block" => ~new.hard /\ p2 = <<>>,
         f.raised \subseteq (IF kind = "block" THEN flow.raised ELSE {})
  PROVE  RaisedInv'
<1> DEFINE fr == Opened(kind, flow)
           m == Len(open) + 1
<1>1. Top > 0
  BY DEF Enters
<1>2. /\ scopes \in Seq(Scope) /\ open \in Seq(Frame) /\ path \in Seq(Context)
      /\ pos \in Nat /\ flow \in Flow /\ scopes # <<>> /\ Top = Len(scopes)
      /\ \A i \in DOMAIN open : /\ Held(open[i]) \subseteq Nat
                                /\ open[i].scope \in 1..Len(scopes)
  BY <1>1, RaisedTypes
<1>3. /\ fr \in Frame /\ open' = Append(open, fr)
      /\ path' = p2 /\ flow' = f /\ pos' = pos + 1
  BY <1>2, Entered
<1>4. /\ m \in Nat /\ DOMAIN open' = 1..m /\ Len(open') = m /\ open'[m] = fr
      /\ \A i \in DOMAIN open : i < m /\ open'[i] = open[i]
      /\ \A i \in DOMAIN open' : i # m => i \in DOMAIN open /\ i < m
  BY <1>2, <1>3, Under
<1>5. fr.kind = kind /\ fr.at = pos /\ fr.scope = Len(scopes) /\ fr.path = path
  BY DEF Opened, Top
<1>6. Held(fr) \subseteq flow.raised /\ HeldSibling(fr) = {}
  BY DEF Held, HeldSibling, Opened, NoFlow, Begins, Scoping
<1> HIDE DEF fr, m
<1>7. /\ scopes' \in Seq(Scope) /\ Len(scopes') = Len(scopes) + 1 /\ scopes' # <<>>
      /\ \A s \in 1..Len(scopes) : scopes'[s] = scopes[s]
      /\ scopes'[Len(scopes) + 1] = new
  BY <1>2
<1>8. \A s \in 1..Len(scopes') : \A j \in DOMAIN scopes'[s].writes :
        s \in 1..Len(scopes) /\ scopes'[s] = scopes[s]
  <2>1. \A s \in 1..Len(scopes') : s \in 1..Len(scopes) \/ s = Len(scopes) + 1
    BY <1>2, <1>7
  <2>2. DOMAIN new.writes = {}
    OBVIOUS
  <2>3. QED
    BY <1>7, <2>1, <2>2
<1>9. /\ HeldOK(scopes, open, pos, reported, seen.body)
      /\ Unreported(flow.raised, pos', reported')
      /\ Tossed(scopes, open, seen.body, flow.raised, Len(scopes), path, m)
      /\ RSeenOK(scopes, pos, reported, seen.raised) /\ seen.raised \subseteq Nat
  BY <1>2, <1>3, RaisedHere DEF m
<1>10. RSeenOK(scopes', pos', reported', seen'.raised)
  BY <1>2, <1>3, <1>8, <1>9 DEF RSeenOK, Unreported
<1>11. ASSUME NEW X, NEW level \in 1..Len(scopes), NEW q, NEW lim,
              Tossed(scopes, open, seen.body, X, level, q, lim)
       PROVE  Tossed(scopes', open, seen'.body, X, level, q, lim)
  <2>1. \A t \in 1..level : scopes'[t].hard = scopes[t].hard
    BY <1>2, <1>7
  <2>2. level \in Nat
    OBVIOUS
  <2>3. QED
    BY <1>2, <1>7, <1>8, <1>11, <2>1, <2>2, TossedBelow
<1>12. Len(scopes) \in 1..Len(scopes) /\ Len(scopes) \in Nat
  BY <1>1, <1>2
<1>13. Tossed(scopes', open, seen'.body, flow.raised, Len(scopes), path, m)
  BY <1>9, <1>11, <1>12
<1>14. HeldOK(scopes', open', pos', reported', seen'.body)
  <2>1. SUFFICES ASSUME NEW i \in DOMAIN open'
                 PROVE  /\ Unreported(Held(open'[i]), pos', reported')
                        /\ Tossed(scopes', open', seen'.body, Held(open'[i]), open'[i].scope,
                                  open'[i].path, i)
                        /\ HeldAside(scopes', open'[i])
    BY DEF HeldOK
  <2>2. CASE i = m
    <3>1. Unreported(Held(fr), pos', reported')
      BY <1>6, <1>9 DEF Unreported
    <3>2. HeldAside(scopes', fr)
      BY <1>6 DEF HeldAside
    <3>3. Tossed(scopes', open, seen'.body, Held(fr), Len(scopes), path, m)
      BY <1>6, <1>13, TossedTogether
    <3>4. Tossed(scopes', open', seen'.body, Held(fr), Len(scopes), path, m)
      BY <1>4, <3>3, TossedAmong
    <3>5. QED
      BY <1>4, <1>5, <2>2, <3>1, <3>2, <3>4
  <2>3. CASE i # m
    <3>1. i \in DOMAIN open /\ i < m /\ open'[i] = open[i] /\ i \in Nat
      BY <1>2, <1>4, <2>1, <2>3
    <3>2. /\ Unreported(Held(open[i]), pos, reported)
          /\ Tossed(scopes, open, seen.body, Held(open[i]), open[i].scope, open[i].path, i)
          /\ HeldAside(scopes, open[i])
      BY <1>9, <3>1 DEF HeldOK
    <3>3. \A b \in DOMAIN open' : b < i => b \in DOMAIN open /\ open'[b] = open[b]
      BY <1>4, <3>1
    <3>4. Tossed(scopes', open, seen'.body, Held(open[i]), open[i].scope, open[i].path, i)
      BY <1>2, <1>11, <3>1, <3>2
    <3>5. Tossed(scopes', open', seen'.body, Held(open[i]), open[i].scope, open[i].path, i)
      BY <3>3, <3>4, TossedAmong
    <3>6. HeldAside(scopes', open[i])
      BY <1>8, <3>2 DEF HeldAside
    <3>7. Unreported(Held(open[i]), pos', reported')
      BY <1>2, <1>3, <3>1, <3>2 DEF Unreported
    <3>8. QED
      BY <3>1, <3>5, <3>6, <3>7
  <2>4. QED
    BY <2>2, <2>3
<1>15. Unreported(flow'.raised, pos', reported')
  BY <1>3, <1>9 DEF Unreported
<1>16. Tossed(scopes', open', seen'.body, flow'.raised, Len(scopes'), path', Len(open') + 1)
  <2>1. CASE kind # "block"
    <3>1. flow'.raised = {}
      BY <1>3, <2>1
    <3>2. QED
      BY <3>1, NothingTossed
  <2>2. CASE kind = "block"
    <3>1. SUFFICES ASSUME NEW s \in 1..Len(scopes'), NEW j \in DOMAIN scopes'[s].writes,
                          scopes'[s].writes[j].at \in flow.raised
                   PROVE  /\ Reach(scopes', s, Len(scopes'))
                          /\ \/ Settled(scopes', s, j, seen'.body)
                             \/ /\ Thrown(scopes'[s].writes, s, j, path')
                                /\ \A b \in DOMAIN open' :
                                     b < Len(open') + 1 /\ open'[b].kind \in Scoping
                                     /\ open'[b].scope >= s =>
                                       Thrown(scopes'[s].writes, s, j, open'[b].path)
      BY <1>3, <2>2 DEF Tossed
    <3>2. /\ Reach(scopes', s, Len(scopes))
          /\ \/ Settled(scopes', s, j, seen'.body)
             \/ /\ Thrown(scopes'[s].writes, s, j, path)
                /\ \A b \in DOMAIN open :
                     b < m /\ open[b].kind \in Scoping /\ open[b].scope >= s =>
                       Thrown(scopes'[s].writes, s, j, open[b].path)
      BY <1>13, <3>1 DEF Tossed
    <3>3. Reach(scopes', s, Len(scopes'))
      <4>1. \A t \in s + 1..Len(scopes') : t \in s + 1..Len(scopes) \/ t = Len(scopes) + 1
        BY <1>7, <1>12
      <4>2. s <= Len(scopes')
        BY <1>7, <1>12
      <4>3. QED
        BY <1>7, <2>2, <3>2, <4>1, <4>2 DEF Reach
    <3>4. CASE Settled(scopes', s, j, seen'.body)
      BY <3>3, <3>4
    <3>5. CASE ~Settled(scopes', s, j, seen'.body)
      <4>1. Contexts(path') \subseteq Contexts(path)
        BY <1>3, <2>2, ContextsOf
      <4>2. Thrown(scopes'[s].writes, s, j, path')
        BY <3>2, <3>5, <4>1, ThrownOutside
      <4>3. ASSUME NEW b \in DOMAIN open', open'[b].kind \in Scoping, open'[b].scope >= s
            PROVE  Thrown(scopes'[s].writes, s, j, open'[b].path)
        <5>1. CASE b = m
          BY <1>4, <1>5, <3>2, <3>5, <5>1
        <5>2. CASE b # m
          <6>1. b \in DOMAIN open /\ b < m /\ open'[b] = open[b]
            BY <1>4, <5>2
          <6>2. QED
            BY <3>2, <3>5, <4>3, <6>1
        <5>3. QED
          BY <5>1, <5>2
      <4>4. QED
        BY <3>3, <4>2, <4>3
    <3>6. QED
      BY <3>4, <3>5
  <2>3. QED
    BY <2>1, <2>2
<1>17. QED
  BY <1>7, <1>10, <1>14, <1>15, <1>16, ArrivesRaised

LEMMA DefRaised ==
  ASSUME Inv, Inv', LiveInv, PlacedInv, RaisedInv, Def
  PROVE  RaisedInv'
<1> DEFINE new == NewScope(TRUE)
<1>1. /\ Enters("def", <<>>, flow, NoFlow) /\ scopes' = Append(scopes, new)
      /\ UNCHANGED <<reported, seen>>
  BY DEF Def
<1>2. new \in Scope /\ new.writes = <<>>
  BY NewScopeType
<1> HIDE DEF new
<1>3. "def" \in Kinds /\ "def" \in Scoping /\ NoFlow.raised = {}
  BY DEF Kinds, Scoping, NoFlow
<1>4. QED
  BY <1>1, <1>2, <1>3, EntersScopeRaised

LEMMA ClassRaised ==
  ASSUME Inv, Inv', LiveInv, PlacedInv, RaisedInv, Class
  PROVE  RaisedInv'
<1> DEFINE new == NewScope(TRUE)
<1>1. /\ Enters("class", path, flow, NoFlow) /\ scopes' = Append(scopes, new)
      /\ UNCHANGED <<reported, seen>>
  BY DEF Class
<1>2. new \in Scope /\ new.writes = <<>>
  BY NewScopeType
<1> HIDE DEF new
<1>3. "class" \in Kinds /\ "class" \in Scoping /\ NoFlow.raised = {}
  BY DEF Kinds, Scoping, NoFlow
<1>4. QED
  BY <1>1, <1>2, <1>3, EntersScopeRaised

LEMMA BlockRaised ==
  ASSUME Inv, Inv', LiveInv, PlacedInv, RaisedInv, Block
  PROVE  RaisedInv'
<1> DEFINE new == NewScope(FALSE)
<1>1. /\ Enters("own", <<>>, flow, NoFlow) \/ Enters("block", <<>>, flow, Looping)
      /\ scopes' = Append(scopes, new) /\ UNCHANGED <<reported, seen>>
  BY DEF Block
<1>2. new \in Scope /\ new.writes = <<>> /\ ~new.hard
  BY NewScopeType DEF NewScope
<1> HIDE DEF new
<1>3. /\ "own" \in Kinds /\ "own" \in Scoping /\ "block" \in Kinds /\ "block" \in Scoping
      /\ NoFlow.raised = {} /\ Looping.raised = flow.raised
  BY DEF Kinds, Scoping, NoFlow, Looping, Join, Written
<1>4. CASE Enters("own", <<>>, flow, NoFlow)
  BY <1>1, <1>2, <1>3, <1>4, EntersScopeRaised
<1>5. CASE Enters("block", <<>>, flow, Looping)
  BY <1>1, <1>2, <1>3, <1>5, EntersScopeRaised
<1>6. QED
  BY <1>1, <1>4, <1>5

\* What may be thrown inside a construct or is held by it may be thrown where it is.
LEMMA AtLastRaised ==
  ASSUME Inv, LiveInv, PlacedInv, RaisedInv, open # <<>>, Last.kind \notin Scoping,
         NEW Y, Y \subseteq Held(Last) \union All(flow)
  PROVE  /\ Top > 0 /\ Last.scope = Len(scopes) /\ Contexts(Last.path) \subseteq Contexts(path)
         /\ Len(open) \in DOMAIN open
         /\ Tossed(scopes, open, seen.body, Y, Len(scopes), Last.path, Len(open))
         /\ Unreported(Y, pos, reported)
<1>1. /\ scopes # <<>> /\ scopes \in Seq(Scope) /\ open \in Seq(Frame) /\ path \in Seq(Context)
      /\ pos \in Nat /\ Top = Len(scopes) /\ Top \in Nat
      /\ Alive(scopes, open, path, pos, reported, seen, flow.plain)
  BY WhereInside
<1>2. Top > 0
  <2>1. Len(scopes) # 0
    BY <1>1
  <2>2. QED
    BY <1>1, <2>1
<1>3. /\ Last.scope = Len(scopes) /\ Len(open) \in DOMAIN open /\ Last = open[Len(open)]
      /\ Contexts(Last.path) \subseteq Contexts(path)
  <2>1. {} \subseteq Saved(open[Len(open)]) \union flow.plain
    OBVIOUS
  <2>2. open[Len(open)].kind \notin Scoping
    BY DEF Last
  <2>3. /\ open[Len(open)].scope = Len(scopes) /\ Len(open) \in DOMAIN open
        /\ Contexts(open[Len(open)].path) \subseteq Contexts(path)
    BY <1>1, <2>1, <2>2, AtLast
  <2>4. QED
    BY <2>3 DEF Last
<1>4. /\ Tossed(scopes, open, seen.body, All(flow), Len(scopes), path, Len(open) + 1)
      /\ Unreported(All(flow), pos, reported)
  BY <1>2, AllTossed
<1>5. Tossed(scopes, open, seen.body, All(flow), Len(scopes), Last.path, Len(open) + 1)
  BY <1>3, <1>4, TossedOut
<1>6. Tossed(scopes, open, seen.body, All(flow), Len(scopes), Last.path, Len(open))
  <2>1. \A b \in DOMAIN open : b < Len(open) => b < Len(open) + 1
    BY <1>1
  <2>2. QED
    BY <1>5, <2>1, TossedAmong
<1>7. /\ Tossed(scopes, open, seen.body, Held(Last), Len(scopes), Last.path, Len(open))
      /\ Unreported(Held(Last), pos, reported)
  BY <1>1, <1>3, RaisedHere DEF HeldOK
<1>8. Tossed(scopes, open, seen.body, Y, Len(scopes), Last.path, Len(open))
  BY <1>6, <1>7, TossedTogether
<1>9. Unreported(Y, pos, reported)
  BY <1>4, <1>7 DEF Unreported
<1>10. QED
  BY <1>2, <1>3, <1>8, <1>9

\* No assignment is on branch c yet, and a read there does not take what an exception
\* carries to it for an assignment that excludes it.
Ahead(c) ==
  \A s \in 1..Len(scopes) : \A j \in DOMAIN scopes[s].writes :
    /\ c \notin Contexts(scopes[s].writes[j].path)
    /\ scopes[s].writes[j].at \in flow'.raised =>
         \A d \in Contexts(scopes[s].writes[j].path) :
           d.parent = c.parent => d.child = c.child \/ d.jumps

\* The walk goes on in another part of the construct, on branch base or a new one of it.
LEMMA TurnsRaised ==
  ASSUME Inv, Inv', LiveInv, PlacedInv, RaisedInv, open # <<>>,
         Last.kind \notin Scoping, Last'.kind \notin Scoping, SamePlace,
         Held(Last') \subseteq Held(Last) \union flow.raised,
         flow'.raised \subseteq Held(Last) \union flow.raised,
         HeldAside(scopes, Last'),
         NEW base, base = Last.path \/ (base = path /\ flow'.raised \subseteq flow.raised),
         NEW c, Contexts(path') \subseteq Contexts(base) \union {c}, Ahead(c)
  PROVE  RaisedInv'
<1> DEFINE m == Len(open)
<1>1. /\ scopes # <<>> /\ scopes \in Seq(Scope) /\ open \in Seq(Frame) /\ pos \in Nat
      /\ UNCHANGED <<scopes, reported, seen, pos>> /\ Last' \in Frame
      /\ open' = [open EXCEPT ![m] = Last']
  BY WhereInside DEF SamePlace, Turns
<1>2. /\ m \in Nat /\ m \in DOMAIN open /\ Len(open') = m
      /\ DOMAIN open' = DOMAIN open
      /\ open'[m] = Last'
      /\ \A i \in DOMAIN open : i # m => i < m /\ open'[i] = open[i]
  BY <1>1, Turned
<1>3. \A Y : Y \subseteq Held(Last) \union flow.raised =>
        Y \subseteq Held(Last) \union All(flow)
  BY DEF All
<1>4. /\ Last.scope = Len(scopes) /\ Top > 0
      /\ Tossed(scopes, open, seen.body, Held(Last'), Len(scopes), Last.path, m)
      /\ Unreported(Held(Last'), pos, reported)
  BY <1>3, AtLastRaised
<1>5. /\ Tossed(scopes, open, seen.body, flow'.raised, Len(scopes), Last.path, m)
      /\ Unreported(flow'.raised, pos, reported)
  BY <1>3, AtLastRaised
<1>6. open[m].kind \notin Scoping /\ open'[m].kind \notin Scoping
  BY <1>2 DEF Last
<1> HIDE DEF m
<1>7. ASSUME NEW X, NEW level, NEW q, NEW lim,
             Tossed(scopes, open, seen.body, X, level, q, lim)
      PROVE  Tossed(scopes', open', seen'.body, X, level, q, lim)
  <2>1. \A b \in DOMAIN open' : open'[b].kind \in Scoping =>
          b \in DOMAIN open /\ open'[b] = open[b]
    BY <1>2, <1>6
  <2>2. Tossed(scopes, open', seen.body, X, level, q, lim)
    BY <1>7, <2>1, TossedAmong
  <2>3. QED
    BY <1>1, <2>2
<1>8. HeldOK(scopes', open', pos', reported', seen'.body)
  <2>1. SUFFICES ASSUME NEW i \in DOMAIN open'
                 PROVE  /\ Unreported(Held(open'[i]), pos', reported')
                        /\ Tossed(scopes', open', seen'.body, Held(open'[i]), open'[i].scope,
                                  open'[i].path, i)
                        /\ HeldAside(scopes', open'[i])
    BY DEF HeldOK
  <2>2. CASE i = m
    <3>1. Last'.scope = Last.scope /\ Last'.path = Last.path
      BY DEF SamePlace
    <3>2. Tossed(scopes', open', seen'.body, Held(Last'), Len(scopes), Last.path, m)
      BY <1>4, <1>7
    <3>3. HeldAside(scopes', Last')
      BY <1>1 DEF HeldAside
    <3>4. Unreported(Held(Last'), pos', reported')
      BY <1>1, <1>4
    <3>5. open'[i] = Last' /\ open'[i].scope = Len(scopes) /\ open'[i].path = Last.path
      BY <1>2, <1>4, <2>2, <3>1
    <3>6. QED
      BY <2>2, <3>2, <3>3, <3>4, <3>5
  <2>3. CASE i # m
    <3>1. i \in DOMAIN open /\ open'[i] = open[i]
      BY <1>2, <2>1, <2>3
    <3>2. /\ Unreported(Held(open[i]), pos, reported)
          /\ Tossed(scopes, open, seen.body, Held(open[i]), open[i].scope, open[i].path, i)
          /\ HeldAside(scopes, open[i])
      BY <1>1, <3>1, RaisedHere DEF HeldOK
    <3>3. QED
      BY <1>1, <1>7, <3>1, <3>2
  <2>4. QED
    BY <2>2, <2>3
<1>9. Tossed(scopes, open, seen.body, flow'.raised, Len(scopes), base, m + 1)
  <2>1. CASE base = Last.path
    <3>1. \A b \in DOMAIN open : open[b].kind \in Scoping => b < m
      BY <1>2, <1>6
    <3>2. QED
      BY <1>5, <2>1, <3>1, TossedAmong
  <2>2. CASE base = path /\ flow'.raised \subseteq flow.raised
    <3>1. Tossed(scopes, open, seen.body, flow.raised, Len(scopes), path, m + 1)
      BY <1>1, RaisedHere DEF m
    <3>2. QED
      BY <2>2, <3>1, TossedTogether
  <2>3. QED
    BY <2>1, <2>2
<1>10. Tossed(scopes, open, seen.body, flow'.raised, Len(scopes), path', m + 1)
  BY <1>9, TossedIn DEF Ahead
<1>11. Tossed(scopes', open', seen'.body, flow'.raised, Len(scopes'), path', Len(open') + 1)
  BY <1>1, <1>2, <1>7, <1>10
<1>12. RSeenOK(scopes', pos', reported', seen'.raised) /\ scopes' # <<>>
  BY <1>1, RaisedHere
<1>13. Unreported(flow'.raised, pos', reported')
  BY <1>1, <1>5
<1>14. QED
  BY <1>8, <1>11, <1>12, <1>13, ArrivesRaised

\* A branch that no assignment is on yet.
LEMMA BranchAhead ==
  ASSUME Inv, LiveInv, open # <<>>, NEW c, c.parent = Last.at,
         c.child > Child(Last) \/ Last.kind = "while"
  PROVE  \A s \in 1..Len(scopes) : \A j \in DOMAIN scopes[s].writes :
           c \notin Contexts(scopes[s].writes[j].path)
<1>1. SUFFICES ASSUME NEW s \in 1..Len(scopes), NEW j \in DOMAIN scopes[s].writes,
                      c \in Contexts(scopes[s].writes[j].path)
               PROVE  FALSE
  OBVIOUS
<1>2. Agree(Last, scopes[s].writes[j].path)
  BY WhereInside
<1>3. c.child <= Child(Last) /\ Last.kind # "while"
  BY <1>1, <1>2 DEF Agree
<1>4. c.child \in Nat /\ Child(Last) \in Nat
  <2>1. scopes \in Seq(Scope) /\ Last \in Frame
    BY WhereInside
  <2>2. c \in Context
    BY <1>1, <2>1, WriteTypes
  <2>3. QED
    BY <2>1, <2>2 DEF Context, Frame, Child
<1>5. QED
  BY <1>3, <1>4

LEMMA ArmRaised ==
  ASSUME Inv, Inv', LiveInv, PlacedInv, RaisedInv, Arm
  PROVE  RaisedInv'
<1> DEFINE c == Branch(Last.at, Last.arm + 1, FALSE, TRUE)
<1>1. /\ open # <<>> /\ Last.kind = "cond" /\ SamePlace
      /\ Last'.kind = "cond" /\ Last'.entry = Last.entry
      /\ Last'.thrown = Last.thrown /\ Last'.out = Join(Last.out, flow)
      /\ path' = Append(Last.path, c) /\ flow' = Last.entry
  BY ArmTurns
<1>2. /\ Last.path \in Seq(Context) /\ Last.at \in Nat /\ Last.arm \in Nat /\ Top \in Nat
      /\ scopes # <<>> /\ scopes \in Seq(Scope)
  BY <1>1, WhereInside
<1>3. c \in Context /\ c.parent = Last.at /\ c.child = Last.arm + 1
  BY <1>2 DEF Branch, Context
<1> HIDE DEF c
<1>4. Contexts(path') \subseteq Contexts(Last.path) \union {c}
  BY <1>1, <1>2, <1>3, ContextsOf
<1>5. /\ Held(Last') \subseteq Held(Last) \union flow.raised
      /\ flow'.raised \subseteq HeldSibling(Last) /\ HeldSibling(Last') = HeldSibling(Last)
      /\ HeldSibling(Last) \subseteq Held(Last)
  BY <1>1 DEF Held, HeldSibling, Begins, Join
<1>6. c.child > Child(Last)
  BY <1>1, <1>2, <1>3 DEF Child
<1>7. \A s \in 1..Len(scopes) : \A j \in DOMAIN scopes[s].writes :
        c \notin Contexts(scopes[s].writes[j].path)
  BY <1>1, <1>3, <1>6, BranchAhead
<1>8. HeldAside(scopes, Last)
  <2>1. Len(open) \in DOMAIN open
    BY <1>1, LiveTypes
  <2>2. QED
    BY <1>2, <2>1, RaisedHere DEF HeldOK, Last
<1>9. HeldAside(scopes, Last')
  BY <1>1, <1>5, <1>8 DEF HeldAside, SamePlace
<1>10. \A s \in 1..Len(scopes) : \A j \in DOMAIN scopes[s].writes :
         scopes[s].writes[j].at \in flow'.raised =>
           \A d \in Contexts(scopes[s].writes[j].path) :
             d.parent = c.parent => d.child = c.child \/ d.jumps
  BY <1>3, <1>5, <1>8 DEF HeldAside
<1>11. Last.kind \notin Scoping /\ Last'.kind \notin Scoping
  BY <1>1 DEF Scoping
<1>12. Held(Last') \subseteq Held(Last) \union flow.raised
  BY <1>5
<1>13. flow'.raised \subseteq Held(Last) \union flow.raised
  BY <1>5
<1>14. Ahead(c)
  BY <1>7, <1>10 DEF Ahead
<1>15. QED
  BY <1>1, <1>4, <1>9, <1>11, <1>12, <1>13, <1>14, TurnsRaised

LEMMA ElseRaised ==
  ASSUME Inv, Inv', LiveInv, PlacedInv, RaisedInv, Else
  PROVE  RaisedInv'
<1> DEFINE c == Branch(Last.at, Last.arm + 1, FALSE, TRUE)
<1>1. /\ open # <<>> /\ Last.kind = "rescue" /\ SamePlace
      /\ Last'.kind = "else" /\ Last'.entry = Last.entry
      /\ Last'.thrown = Last.thrown /\ Last'.out = Join(Last.out, flow)
      /\ path' = Append(Last.path, c) /\ flow' = Last.entry
  BY ElseTurns
<1>2. /\ Last.path \in Seq(Context) /\ Last.at \in Nat /\ Last.arm \in Nat /\ Top \in Nat
      /\ scopes # <<>> /\ scopes \in Seq(Scope) /\ Last'.end = Last.end
  BY <1>1, WhereInside DEF SamePlace
<1>3. c \in Context /\ c.parent = Last.at /\ c.child = Last.arm + 1
  BY <1>2 DEF Branch, Context
<1> HIDE DEF c
<1>4. Contexts(path') \subseteq Contexts(Last.path) \union {c}
  BY <1>1, <1>2, <1>3, ContextsOf
<1>5. /\ Held(Last') \subseteq Held(Last) \union flow.raised
      /\ flow'.raised \subseteq HeldSibling(Last) /\ HeldSibling(Last') = {}
      /\ HeldSibling(Last) \subseteq Held(Last)
  BY <1>1, <1>2 DEF Held, HeldSibling, Begins, Join
<1>6. c.child > Child(Last)
  BY <1>1, <1>2, <1>3 DEF Child
<1>7. \A s \in 1..Len(scopes) : \A j \in DOMAIN scopes[s].writes :
        c \notin Contexts(scopes[s].writes[j].path)
  BY <1>1, <1>3, <1>6, BranchAhead
<1>8. HeldAside(scopes, Last)
  <2>1. Len(open) \in DOMAIN open
    BY <1>1, LiveTypes
  <2>2. QED
    BY <1>2, <2>1, RaisedHere DEF HeldOK, Last
<1>9. HeldAside(scopes, Last')
  BY <1>5 DEF HeldAside
<1>10. \A s \in 1..Len(scopes) : \A j \in DOMAIN scopes[s].writes :
         scopes[s].writes[j].at \in flow'.raised =>
           \A d \in Contexts(scopes[s].writes[j].path) :
             d.parent = c.parent => d.child = c.child \/ d.jumps
  BY <1>3, <1>5, <1>8 DEF HeldAside
<1>11. Last.kind \notin Scoping /\ Last'.kind \notin Scoping
  BY <1>1 DEF Scoping
<1>12. Held(Last') \subseteq Held(Last) \union flow.raised
  BY <1>5
<1>13. flow'.raised \subseteq Held(Last) \union flow.raised
  BY <1>5
<1>14. Ahead(c)
  BY <1>7, <1>10 DEF Ahead
<1>15. QED
  BY <1>1, <1>4, <1>9, <1>11, <1>12, <1>13, <1>14, TurnsRaised

LEMMA RescueRaised ==
  ASSUME Inv, Inv', LiveInv, PlacedInv, RaisedInv, Rescue
  PROVE  RaisedInv'
<1> DEFINE c == Branch(Last.at, Last.arm + 1, FALSE, TRUE)
<1>1. /\ open # <<>> /\ Last.kind \in {"begin", "rescue"} /\ SamePlace
      /\ Last'.kind = "rescue"
      /\ Last.kind = "begin" =>
           /\ Last'.entry = flow /\ Last'.out = Last.out
           /\ Last'.thrown = [plain |-> Last.entry.plain, raised |-> Unwinding]
      /\ Last.kind = "rescue" =>
           /\ Last'.entry = Last.entry /\ Last'.out = Join(Last.out, flow)
           /\ Last'.thrown = Last.thrown
      /\ path' = Append(Last.path, c) /\ flow' = Last'.thrown
  BY RescueTurns
<1>2. /\ Last.path \in Seq(Context) /\ Last.at \in Nat /\ Last.arm \in Nat /\ Top \in Nat
      /\ scopes # <<>> /\ scopes \in Seq(Scope) /\ Last'.end = Last.end /\ Last'.at = Last.at
  BY <1>1, WhereInside DEF SamePlace
<1>3. c \in Context /\ c.parent = Last.at /\ c.child = Last.arm + 1
  BY <1>2 DEF Branch, Context
<1> HIDE DEF c
<1>4. Contexts(path') \subseteq Contexts(Last.path) \union {c}
  BY <1>1, <1>2, <1>3, ContextsOf
<1>5. /\ Held(Last') \subseteq Held(Last) \union flow.raised
      /\ flow'.raised \subseteq HeldSibling(Last')
      /\ flow'.raised \subseteq Held(Last)
      /\ Last.kind = "rescue" => HeldSibling(Last') = HeldSibling(Last)
  <2>1. CASE Last.kind = "begin"
    BY <1>1, <1>2, <2>1 DEF Held, HeldSibling, Begins, Unwinding, All
  <2>2. CASE Last.kind = "rescue"
    BY <1>1, <1>2, <2>2 DEF Held, HeldSibling, Begins, Join
  <2>3. QED
    BY <1>1, <2>1, <2>2
<1>6. c.child > Child(Last)
  BY <1>1, <1>2, <1>3 DEF Child
<1>7. \A s \in 1..Len(scopes) : \A j \in DOMAIN scopes[s].writes :
        c \notin Contexts(scopes[s].writes[j].path)
  BY <1>1, <1>3, <1>6, BranchAhead
<1>8. HeldAside(scopes, Last')
  <2>1. CASE Last.kind = "begin"
    <3>1. \A s \in 1..Len(scopes) : \A j \in DOMAIN scopes[s].writes :
            Agree(Last, scopes[s].writes[j].path)
      BY <1>1, WhereInside
    <3>2. QED
      BY <1>2, <2>1, <3>1 DEF HeldAside, Agree
  <2>2. CASE Last.kind = "rescue"
    <3>1. Len(open) \in DOMAIN open
      BY <1>1, LiveTypes
    <3>2. HeldAside(scopes, Last)
      BY <1>2, <3>1, RaisedHere DEF HeldOK, Last
    <3>3. QED
      BY <1>2, <1>5, <2>2, <3>2 DEF HeldAside
  <2>3. QED
    BY <1>1, <2>1, <2>2
<1>9. \A s \in 1..Len(scopes) : \A j \in DOMAIN scopes[s].writes :
         scopes[s].writes[j].at \in flow'.raised =>
           \A d \in Contexts(scopes[s].writes[j].path) :
             d.parent = c.parent => d.child = c.child \/ d.jumps
  BY <1>2, <1>3, <1>5, <1>8 DEF HeldAside
<1>10. Last.kind \notin Scoping /\ Last'.kind \notin Scoping
  BY <1>1 DEF Scoping
<1>11. flow'.raised \subseteq Held(Last) \union flow.raised
  BY <1>5
<1>12. Held(Last') \subseteq Held(Last) \union flow.raised
  BY <1>5
<1>13. Ahead(c)
  BY <1>7, <1>9 DEF Ahead
<1>14. QED
  BY <1>1, <1>4, <1>8, <1>10, <1>11, <1>12, <1>13, TurnsRaised

LEMMA BodyRaised ==
  ASSUME Inv, Inv', LiveInv, PlacedInv, RaisedInv, Body
  PROVE  RaisedInv'
<1> DEFINE c == Branch(Last.at, 0, FALSE, FALSE)
<1>1. /\ open # <<>> /\ Last.kind = "while" /\ SamePlace
      /\ Last'.kind = "body" /\ Last'.out = flow
      /\ path' = Append(path, c) /\ flow' = flow
  BY BodyTurns
<1>2. /\ path \in Seq(Context) /\ Last.at \in Nat /\ Top \in Nat
      /\ scopes \in Seq(Scope)
  BY <1>1, WhereInside
<1>3. c \in Context /\ c.parent = Last.at
  BY <1>2 DEF Branch, Context
<1> HIDE DEF c
<1>4. Contexts(path') \subseteq Contexts(path) \union {c}
  BY <1>1, <1>2, <1>3, ContextsOf
<1>5. /\ Held(Last') \subseteq Held(Last) \union flow.raised
      /\ HeldSibling(Last') = {} /\ flow'.raised \subseteq flow.raised
  BY <1>1 DEF Held, HeldSibling, Begins
<1>6. \A s \in 1..Len(scopes) : \A j \in DOMAIN scopes[s].writes :
        c \notin Contexts(scopes[s].writes[j].path)
  BY <1>1, <1>3, BranchAhead
<1>7. HeldAside(scopes, Last')
  BY <1>5 DEF HeldAside
<1>8. \A s \in 1..Len(scopes) : \A j \in DOMAIN scopes[s].writes :
        \A d \in Contexts(scopes[s].writes[j].path) : d.parent # c.parent
  <2>1. \A s \in 1..Len(scopes) : \A j \in DOMAIN scopes[s].writes :
          Agree(Last, scopes[s].writes[j].path)
    BY <1>1, WhereInside
  <2>2. QED
    BY <1>1, <1>3, <2>1 DEF Agree
<1>9. Last.kind \notin Scoping /\ Last'.kind \notin Scoping
  BY <1>1 DEF Scoping
<1>10. /\ Held(Last') \subseteq Held(Last) \union flow.raised
       /\ flow'.raised \subseteq Held(Last) \union flow.raised
       /\ flow'.raised \subseteq flow.raised
  BY <1>5
<1>11. Ahead(c)
  BY <1>6, <1>8 DEF Ahead
<1>12. QED
  BY <1>1, <1>4, <1>7, <1>9, <1>10, <1>11, TurnsRaised

\* The test of a loop and the ensure clause are no branch.
LEMMA TurnsBackRaised ==
  ASSUME Inv, Inv', LiveInv, PlacedInv, RaisedInv, open # <<>>,
         Last.kind \notin Scoping, Last'.kind \notin Scoping, SamePlace, path' = Last.path,
         Held(Last') = {}, flow'.raised \subseteq Held(Last) \union flow.raised
  PROVE  RaisedInv'
<1> DEFINE c == Branch(pos, 0, FALSE, FALSE)
<1>1. pos \in Nat /\ scopes # <<>> /\ c.parent = pos /\ Top > 0
  <2>1. {} \subseteq Held(Last) \union All(flow)
    OBVIOUS
  <2>2. QED
    BY <2>1, WhereInside, AtLastRaised DEF Branch
<1> HIDE DEF c
<1>2. \A s \in 1..Len(scopes) : \A j \in DOMAIN scopes[s].writes :
        \A d \in Contexts(scopes[s].writes[j].path) : d.parent # c.parent
  <2>1. SUFFICES ASSUME NEW s \in 1..Len(scopes), NEW j \in DOMAIN scopes[s].writes,
                        NEW d \in Contexts(scopes[s].writes[j].path)
                 PROVE  d.parent # c.parent
    OBVIOUS
  <2>2. d.parent < pos
    BY <1>1, Stands
  <2>3. QED
    BY <1>1, <2>2
<1>3. \A s \in 1..Len(scopes) : \A j \in DOMAIN scopes[s].writes :
        c \notin Contexts(scopes[s].writes[j].path)
  BY <1>2
<1>4. HeldAside(scopes, Last')
  <2>1. HeldSibling(Last') \subseteq Held(Last')
    BY DEF HeldSibling, Held, Begins
  <2>2. QED
    BY <2>1 DEF HeldAside
<1>5. Contexts(path') \subseteq Contexts(Last.path) \union {c}
  OBVIOUS
<1>6. Ahead(c)
  BY <1>2, <1>3 DEF Ahead
<1>7. Held(Last') \subseteq Held(Last) \union flow.raised
  OBVIOUS
<1>8. QED
  BY <1>4, <1>5, <1>6, <1>7, TurnsRaised

LEMMA TestRaised ==
  ASSUME Inv, Inv', LiveInv, PlacedInv, RaisedInv, Test
  PROVE  RaisedInv'
<1>1. /\ open # <<>> /\ Last.kind = "post" /\ SamePlace
      /\ Last'.kind = "test" /\ path' = Last.path /\ flow' = flow
  BY TestTurns
<1>2. Held(Last') = {} /\ Last.kind \notin Scoping /\ Last'.kind \notin Scoping
  BY <1>1 DEF Held, Begins, Scoping
<1>3. QED
  BY <1>1, <1>2, TurnsBackRaised

LEMMA EnsureRaised ==
  ASSUME Inv, Inv', LiveInv, PlacedInv, RaisedInv, Ensure
  PROVE  RaisedInv'
<1>1. /\ open # <<>> /\ Last.kind \in {"ensured", "rescue", "else"} /\ SamePlace
      /\ Last'.kind = "ensure"
      /\ Last'.entry = (IF Last.kind = "ensured" THEN flow ELSE Rescued)
      /\ path' = Last.path
      /\ flow'.raised = Last'.entry.raised \union Unwinding
  BY EnsureTurns
<1>2. Held(Last') = {} /\ Last.kind \notin Scoping /\ Last'.kind \notin Scoping
  BY <1>1 DEF Held, Begins, Scoping
<1>3. Unwinding \subseteq Held(Last)
  BY <1>1 DEF Held, Begins, Unwinding, All
<1>4. Last'.entry.raised \subseteq Held(Last) \union flow.raised
  <2>1. CASE Last.kind = "ensured"
    BY <1>1, <2>1
  <2>2. CASE Last.kind # "ensured"
    BY <1>1, <2>2 DEF Rescued, Join, Held, Begins
  <2>3. QED
    BY <2>1, <2>2
<1>5. QED
  BY <1>1, <1>2, <1>3, <1>4, TurnsBackRaised

\* The walk leaves a construct with what may be thrown in it or is held by it.
LEMMA LeavesRaised ==
  ASSUME Inv, Inv', LiveInv, PlacedInv, RaisedInv, open # <<>>, Last.kind \notin Scoping,
         NEW f, Leaves(f), UNCHANGED reported, Milder(scopes, scopes'),
         seen'.raised = seen.raised, seen'.body = seen.body,
         f.raised \subseteq Held(Last) \union All(flow)
  PROVE  RaisedInv'
<1> DEFINE m == Len(open)
<1>1. /\ scopes # <<>> /\ scopes \in Seq(Scope) /\ open \in Seq(Frame) /\ pos \in Nat
      /\ scopes' \in Seq(Scope) /\ Len(scopes') = Len(scopes)
      /\ open' = SubSeq(open, 1, m - 1) /\ path' = Last.path /\ flow' = f /\ pos' = pos
  BY WhereInside DEF Leaves, Inv, TypeOK, Milder
<1>2. /\ m \in Nat /\ Len(open') + 1 = m
      /\ \A i \in DOMAIN open' : i \in DOMAIN open /\ i < m /\ open'[i] = open[i]
  BY <1>1, Left
<1>3. /\ Top > 0 /\ Tossed(scopes, open, seen.body, f.raised, Len(scopes), Last.path, m)
      /\ Unreported(f.raised, pos, reported)
  BY AtLastRaised
<1> HIDE DEF m
<1>4. \A i \in DOMAIN open : open[i].scope \in 1..Len(scopes)
  BY <1>3, RaisedTypes
<1>5. Len(scopes) \in 1..Len(scopes)
  BY <1>1, <1>3 DEF Top
<1>6. /\ HeldOK(scopes', open, pos, reported, seen.body)
      /\ RSeenOK(scopes, pos, reported, seen.raised)
  BY <1>1, <1>4, RaisedHere, MilderHeld
<1>7. Tossed(scopes', open, seen.body, f.raised, Len(scopes), Last.path, m)
  BY <1>1, <1>3, <1>5, MilderTossed
<1>8. ASSUME NEW X, NEW level, NEW q, NEW lim,
             Tossed(scopes', open, seen.body, X, level, q, lim),
             lim \in Nat, lim <= m
      PROVE  Tossed(scopes', open', seen'.body, X, level, q, lim)
  <2>1. \A b \in DOMAIN open' : b \in DOMAIN open /\ open'[b] = open[b]
    BY <1>2
  <2>2. QED
    BY <1>8, <2>1, TossedAmong
<1>9. HeldOK(scopes', open', pos', reported', seen'.body)
  <2>1. SUFFICES ASSUME NEW i \in DOMAIN open'
                 PROVE  /\ Unreported(Held(open'[i]), pos', reported')
                        /\ Tossed(scopes', open', seen'.body, Held(open'[i]), open'[i].scope,
                                  open'[i].path, i)
                        /\ HeldAside(scopes', open'[i])
    BY DEF HeldOK
  <2>2. i \in DOMAIN open /\ i < m /\ open'[i] = open[i] /\ i \in Nat
    BY <1>1, <1>2
  <2>3. /\ Unreported(Held(open[i]), pos, reported)
        /\ Tossed(scopes', open, seen.body, Held(open[i]), open[i].scope, open[i].path, i)
        /\ HeldAside(scopes', open[i])
    BY <1>6, <2>2 DEF HeldOK
  <2>4. i <= m
    BY <1>2, <2>2
  <2>5. QED
    BY <1>1, <1>8, <2>2, <2>3, <2>4
<1>10. Tossed(scopes', open', seen'.body, flow'.raised, Len(scopes'), path', Len(open') + 1)
  BY <1>1, <1>2, <1>7, <1>8
<1>11. RSeenOK(scopes', pos', reported', seen'.raised)
  <2>1. Unreported(seen.raised, pos, reported)
    BY <1>6 DEF RSeenOK
  <2>2. ASSUME NEW s \in 1..Len(scopes), NEW j \in DOMAIN scopes'[s].writes,
               scopes'[s].writes[j].at \in seen.raised
        PROVE  \/ scopes'[s].writes[j].referenced
               \/ scopes'[s].captured /\ ~scopes'[s].writes[j].reassigned
    <3>1. /\ j \in DOMAIN scopes[s].writes
          /\ scopes'[s].writes[j].at = scopes[s].writes[j].at
          /\ scopes'[s].writes[j].reassigned = scopes[s].writes[j].reassigned
          /\ scopes[s].captured => scopes'[s].captured
          /\ scopes[s].writes[j].referenced => scopes'[s].writes[j].referenced
      BY DEF Milder
    <3>2. scopes[s].writes[j].referenced \/ (scopes[s].captured /\ ~scopes[s].writes[j].reassigned)
      BY <1>6, <2>2, <3>1 DEF RSeenOK
    <3>3. QED
      BY <3>1, <3>2
  <2>3. QED
    BY <1>1, <2>1, <2>2 DEF RSeenOK
<1>12. scopes' # <<>>
  BY <1>1, <1>5
<1>13. Unreported(flow'.raised, pos', reported')
  BY <1>1, <1>3
<1>14. QED
  BY <1>9, <1>10, <1>11, <1>12, <1>13, ArrivesRaised

LEMMA LeavesQuietlyRaised ==
  ASSUME Inv, Inv', LiveInv, PlacedInv, RaisedInv,
         EndCond \/ EndLogic \/ EndBegin \/ EndEnsure
  PROVE  RaisedInv'
<1>1. UNCHANGED <<scopes, reported, seen>> /\ open # <<>>
      /\ Last.kind \notin Scoping
  BY DEF EndCond, EndLogic, EndBegin, EndEnsure, Inside, Scoping
<1>2. Milder(scopes, scopes')
  BY <1>1, SameIsMilder
<1>3. PICK f : Leaves(f) /\ f.raised \subseteq Held(Last) \union All(flow)
  <2>1. CASE EndCond
    <3>1. PICK g \in {Last.entry} \union (IF Last.arm > 0 THEN {NoFlow} ELSE {}) :
            Leaves(Join(g, Join(Last.out, flow)))
      BY <2>1 DEF EndCond
    <3>2. g.raised \subseteq Last.entry.raised
      BY DEF NoFlow
    <3>3. Last.kind \in {"cond", "modifier"}
      BY <2>1 DEF EndCond, Inside
    <3>4. Join(g, Join(Last.out, flow)).raised \subseteq Held(Last) \union All(flow)
      BY <3>2, <3>3 DEF Join, Held, Begins, All
    <3>5. QED
      BY <3>1, <3>4
  <2>2. CASE EndLogic
    <3>1. Leaves(Join(Last.entry, flow)) /\ Last.kind = "logic"
      BY <2>2 DEF EndLogic, Inside
    <3>2. Join(Last.entry, flow).raised \subseteq Held(Last) \union All(flow)
      BY <3>1 DEF Join, Held, Begins, All
    <3>3. QED
      BY <3>1, <3>2
  <2>3. CASE EndBegin
    <3>1. Leaves(Rescued) /\ Last.kind \in {"rescue", "else"}
      BY <2>3 DEF EndBegin, Inside
    <3>2. Rescued.raised \subseteq Held(Last) \union All(flow)
      BY <3>1 DEF Rescued, Join, Held, Begins, All
    <3>3. QED
      BY <3>1, <3>2
  <2>4. CASE EndEnsure
    <3> DEFINE g == [flow EXCEPT !.raised = @ \ (Unwinding \ Last.entry.raised)]
    <3>1. Leaves(g)
      BY <2>4 DEF EndEnsure
    <3>2. g.raised \subseteq All(flow)
      BY LiveTypes DEF Flow, All
    <3> HIDE DEF g
    <3>3. QED
      BY <3>1, <3>2
  <2>5. QED
    BY <2>1, <2>2, <2>3, <2>4
<1>4. QED
  BY <1>1, <1>2, <1>3, LeavesRaised

LEMMA UnrolledRaised ==
  ASSUME NEW f, NEW h, NEW g
  PROVE  Unrolled(f, h, g).raised \subseteq f.raised \union All(g)
  BY DEF Unrolled, Join, All

LEMMA EndLoopRaised ==
  ASSUME Inv, Inv', LiveInv, PlacedInv, RaisedInv, EndWhile \/ EndPost
  PROVE  RaisedInv'
<1>1. /\ open # <<>> /\ Last.kind \in {"body", "test"} /\ UNCHANGED reported
      /\ scopes' = LoopMarked(Last.at)
      /\ seen' = Around(Last.at, flow, Sequential(Last.at))
  BY DEF EndWhile, EndPost, Inside
<1>2. Last.at \in Nat
  BY <1>1, WhereInside
<1>3. Milder(scopes, scopes')
  BY <1>1, <1>2, LoopMarkedIsMilder
<1>4. seen'.raised = seen.raised /\ seen'.body = seen.body
  BY <1>1, BodyOf DEF Inv
<1>5. PICK f : Leaves(f) /\ f.raised \subseteq Held(Last) \union All(flow)
  <2>1. CASE EndWhile
    <3>1. Leaves(Unrolled(Last.out, Last.at, flow)) /\ Last.kind = "body"
      BY <2>1 DEF EndWhile, Inside
    <3>2. Last.out.raised \subseteq Held(Last)
      BY <3>1 DEF Held, Begins
    <3>3. Unrolled(Last.out, Last.at, flow).raised \subseteq Held(Last) \union All(flow)
      BY <3>2, UnrolledRaised
    <3>4. QED
      BY <3>1, <3>3
  <2>2. CASE EndPost
    <3>1. Leaves(Unrolled(flow, Last.at, flow))
      BY <2>2 DEF EndPost
    <3>2. Unrolled(flow, Last.at, flow).raised \subseteq Held(Last) \union All(flow)
      BY UnrolledRaised DEF All
    <3>3. QED
      BY <3>1, <3>2
  <2>3. QED
    BY <2>1, <2>2
<1>6. Last.kind \notin Scoping
  BY <1>1 DEF Scoping
<1>7. QED
  BY <1>1, <1>3, <1>4, <1>5, <1>6, LeavesRaised

\* What is reported as a scope is left has not been seen by a read an exception leads to.
LEMMA DiscardedUnraised ==
  ASSUME NEW sc \in Seq(Scope), sc # <<>>, NEW n, NEW rep, NEW X, NEW U,
         RSeenOK(sc, n, rep, X), Discarded(sc, U),
         NEW sc2, \A s \in 1..Len(sc2) : s \in 1..Len(sc) /\ sc2[s] = sc[s]
  PROVE  RSeenOK(sc2, n, rep \union U, X)
<1>1. Len(sc) \in 1..Len(sc)
  <2>1. Len(sc) \in Nat /\ Len(sc) # 0
    OBVIOUS
  <2>2. QED
    BY <2>1
<1>2. \A u \in U : u \notin X
  BY <1>1 DEF Discarded, RSeenOK
<1>3. QED
  BY <1>2 DEF RSeenOK, Unreported

\* The walk leaves a scope: what is thrown further out is of the scopes around it.
LEMMA LeavesScopeRaised ==
  ASSUME Inv, Inv', LiveInv, PlacedInv, RaisedInv, open # <<>>, Last.kind \in Scoping,
         NEW f, Leaves(f), LeaveScope, seen'.raised = seen.raised, seen'.body = seen.body,
         f.raised \subseteq Held(Last) \union (IF Last.kind = "block" THEN All(flow) ELSE {})
  PROVE  RaisedInv'
<1> DEFINE m == Len(open)
<1>1. /\ scopes # <<>> /\ scopes \in Seq(Scope) /\ open \in Seq(Frame) /\ pos \in Nat
      /\ scopes' \in Seq(Scope) /\ scopes' = SubSeq(scopes, 1, Top - 1)
      /\ reported' = reported \union Useless
      /\ Top = Len(scopes) /\ Top \in Nat /\ Top > 1
      /\ open' = SubSeq(open, 1, m - 1) /\ path' = Last.path /\ flow' = f /\ pos' = pos
  BY WhereInside DEF Leaves, LeaveScope, Inv, TypeOK
<1>2. /\ m \in Nat /\ m \in DOMAIN open /\ Len(open') + 1 = m /\ open[m] = Last
      /\ \A i \in DOMAIN open' : i \in DOMAIN open /\ i < m /\ open'[i] = open[i]
  BY <1>1, Left DEF Last
<1> HIDE DEF m
<1>3. /\ Len(scopes') = Top - 1 /\ scopes' # <<>>
      /\ \A s \in 1..Len(scopes') : s \in 1..Len(scopes) /\ scopes'[s] = scopes[s]
  <2>1. /\ Len(scopes') = Top - 1
        /\ \A s \in 1..Len(scopes') : s \in 1..Len(scopes) /\ scopes'[s] = scopes[s]
    BY <1>1
  <2>2. Len(scopes') # 0
    BY <1>1, <2>1
  <2>3. QED
    BY <2>1, <2>2, NotEmpty
<1>4. /\ NestOK(Len(scopes), open, pos) /\ BlocksOK(scopes, open)
      /\ WritesOK(scopes, open, pos)
      /\ \A i \in DOMAIN open : open[i].scope \in 1..Len(scopes)
  BY <1>1, RaisedTypes
<1>5. /\ Last.scope = Top - 1
      /\ \A i \in DOMAIN open : i <= m => open[i].scope \in 1..Top - 1
  <2>1. Top = After(Last) /\ Last.scope \in Nat
    BY <1>1, <1>2, <1>4, FrameTypes DEF NestOK, m
  <2>2. Last.scope = Top - 1
    BY <1>1, <2>1 DEF After
  <2>3. \A i \in DOMAIN open : i < m => open[i].scope <= Last.scope
    BY <1>1, <1>2, <1>4, Nested
  <2>4. QED
    BY <1>1, <1>2, <1>4, <2>2, <2>3
<1>6. /\ HeldOK(scopes, open, pos, reported, seen.body)
      /\ RSeenOK(scopes, pos, reported, seen.raised)
      /\ Tossed(scopes, open, seen.body, All(flow), Len(scopes), path, m + 1)
      /\ Unreported(All(flow), pos, reported)
  BY <1>1, RaisedHere, AllTossed DEF m
<1>7. RSeenOK(scopes', pos', reported', seen'.raised)
  BY <1>1, <1>3, <1>6, UselessDiscarded, DiscardedUnraised
<1>8. ASSUME NEW X, NEW level \in 1..Top - 1, NEW q, NEW lim,
             Tossed(scopes, open, seen.body, X, level, q, lim)
      PROVE  /\ Tossed(scopes', open, seen'.body, X, level, q, lim)
             /\ X \cap Useless = {}
  <2>1. \A t \in 1..level : scopes'[t].hard = scopes[t].hard
    BY <1>1, <1>3
  <2>2. level \in Nat
    OBVIOUS
  <2>3. Tossed(scopes', open, seen'.body, X, level, q, lim)
    BY <1>1, <1>3, <1>8, <2>1, <2>2, TossedBelow
  <2>4. X \cap Useless = {}
    <3>1. SUFFICES ASSUME NEW u \in X, u \in Useless PROVE FALSE
      OBVIOUS
    <3>2. PICK j \in DOMAIN scopes[Top].writes : u = scopes[Top].writes[j].at
      BY <3>1 DEF Useless
    <3>3. Top \in 1..Len(scopes)
      BY <1>1
    <3>4. Reach(scopes, Top, level)
      BY <1>1, <1>8, <3>1, <3>2, <3>3 DEF Tossed
    <3>5. Top <= level
      BY <3>4 DEF Reach
    <3>6. QED
      BY <1>1, <3>5
  <2>5. QED
    BY <2>3, <2>4
<1>9. ASSUME NEW X, NEW level, NEW q, NEW lim \in Nat, lim <= m,
             Tossed(scopes', open, seen'.body, X, level, q, lim)
      PROVE  Tossed(scopes', open', seen'.body, X, level, q, lim)
  <2>1. \A b \in DOMAIN open' : b \in DOMAIN open /\ open'[b] = open[b]
    BY <1>2
  <2>2. QED
    BY <1>9, <2>1, TossedAmong
<1>10. ASSUME NEW i \in DOMAIN open, i <= m
       PROVE  /\ Unreported(Held(open[i]), pos', reported')
              /\ Tossed(scopes', open', seen'.body, Held(open[i]), open[i].scope, open[i].path, i)
              /\ HeldAside(scopes', open[i])
  <2>1. /\ Unreported(Held(open[i]), pos, reported)
        /\ Tossed(scopes, open, seen.body, Held(open[i]), open[i].scope, open[i].path, i)
        /\ HeldAside(scopes, open[i])
    BY <1>6 DEF HeldOK
  <2>2. open[i].scope \in 1..Top - 1
    BY <1>5, <1>10
  <2>3. /\ Tossed(scopes', open, seen'.body, Held(open[i]), open[i].scope, open[i].path, i)
        /\ Held(open[i]) \cap Useless = {}
    BY <1>8, <2>1, <2>2
  <2>4. i \in Nat
    BY <1>1
  <2>5. Tossed(scopes', open', seen'.body, Held(open[i]), open[i].scope, open[i].path, i)
    BY <1>9, <1>10, <2>3, <2>4
  <2>6. HeldAside(scopes', open[i])
    BY <1>3, <2>1 DEF HeldAside
  <2>7. Unreported(Held(open[i]), pos', reported')
    BY <1>1, <2>1, <2>3 DEF Unreported
  <2>8. QED
    BY <2>5, <2>6, <2>7
<1>11. HeldOK(scopes', open', pos', reported', seen'.body)
  <2>1. SUFFICES ASSUME NEW i \in DOMAIN open'
                 PROVE  /\ Unreported(Held(open'[i]), pos', reported')
                        /\ Tossed(scopes', open', seen'.body, Held(open'[i]), open'[i].scope,
                                  open'[i].path, i)
                        /\ HeldAside(scopes', open'[i])
    BY DEF HeldOK
  <2>2. i \in DOMAIN open /\ i < m /\ open'[i] = open[i] /\ i \in Nat
    BY <1>1, <1>2
  <2>3. i <= m
    BY <1>2, <2>2
  <2>4. QED
    BY <1>10, <2>2, <2>3
<1>12. /\ Unreported(Held(Last), pos', reported')
       /\ Tossed(scopes', open', seen'.body, Held(Last), Top - 1, Last.path, m)
  <2>1. m <= m
    BY <1>2
  <2>2. QED
    BY <1>2, <1>5, <1>10, <2>1
<1>13. ASSUME Last.kind = "block"
       PROVE  /\ Unreported(All(flow), pos', reported')
              /\ Tossed(scopes', open', seen'.body, All(flow), Top - 1, Last.path, m)
  <2>1. ~scopes[Top].declared
    BY <1>1, <1>2, <1>4, <1>5, <1>13 DEF BlocksOK
  <2>2. DOMAIN scopes[Top].writes = {}
    <3>1. Top \in 1..Len(scopes)
      BY <1>1
    <3>2. QED
      BY <1>4, <2>1, <3>1 DEF WritesOK
  <2>3. Useless = {}
    BY <2>2 DEF Useless
  <2>4. Tossed(scopes, open, seen.body, All(flow), Top - 1, Last.path, m)
    <3>1. SUFFICES ASSUME NEW s \in 1..Len(scopes), NEW j \in DOMAIN scopes[s].writes,
                          scopes[s].writes[j].at \in All(flow)
                   PROVE  /\ Reach(scopes, s, Top - 1)
                          /\ \/ Settled(scopes, s, j, seen.body)
                             \/ /\ Thrown(scopes[s].writes, s, j, Last.path)
                                /\ \A b \in DOMAIN open :
                                     b < m /\ open[b].kind \in Scoping /\ open[b].scope >= s =>
                                       Thrown(scopes[s].writes, s, j, open[b].path)
      BY DEF Tossed
    <3>2. /\ Reach(scopes, s, Len(scopes))
          /\ \/ Settled(scopes, s, j, seen.body)
             \/ \A b \in DOMAIN open :
                  b < m + 1 /\ open[b].kind \in Scoping /\ open[b].scope >= s =>
                    Thrown(scopes[s].writes, s, j, open[b].path)
      BY <1>6, <3>1 DEF Tossed
    <3>3. s # Top
      BY <2>2
    <3>4. s <= Top - 1 /\ s \in Nat
      BY <1>1, <3>3
    <3>5. Reach(scopes, s, Top - 1)
      BY <1>1, <3>2, <3>4 DEF Reach
    <3>6. \A b \in DOMAIN open : b <= m => b < m + 1
      BY <1>1, <1>2
    <3>7. m <= m /\ open[m].kind \in Scoping /\ open[m].scope >= s
      BY <1>2, <1>5, <3>4
    <3>8. \A b \in DOMAIN open : b < m => b <= m
      BY <1>1, <1>2
    <3>9. QED
      BY <1>2, <3>2, <3>5, <3>6, <3>7, <3>8
  <2>5. Top - 1 \in 1..Top - 1 /\ m <= m
    BY <1>1, <1>2
  <2>6. Tossed(scopes', open, seen'.body, All(flow), Top - 1, Last.path, m)
    BY <1>8, <2>4, <2>5
  <2>7. Tossed(scopes', open', seen'.body, All(flow), Top - 1, Last.path, m)
    BY <1>2, <1>9, <2>5, <2>6
  <2>8. Unreported(All(flow), pos', reported')
    BY <1>1, <1>6, <2>3 DEF Unreported
  <2>9. QED
    BY <2>7, <2>8
<1>14. /\ Unreported(f.raised, pos', reported')
       /\ Tossed(scopes', open', seen'.body, f.raised, Top - 1, Last.path, m)
  <2>1. CASE Last.kind = "block"
    BY <1>12, <1>13, <2>1, TossedTogether DEF Unreported
  <2>2. CASE Last.kind # "block"
    BY <1>12, <2>2, TossedTogether DEF Unreported
  <2>3. QED
    BY <2>1, <2>2
<1>15. Tossed(scopes', open', seen'.body, flow'.raised, Len(scopes'), path', Len(open') + 1)
  BY <1>1, <1>2, <1>3, <1>14
<1>16. Unreported(flow'.raised, pos', reported')
  BY <1>1, <1>14
<1>17. QED
  BY <1>3, <1>7, <1>11, <1>15, <1>16, ArrivesRaised

LEMMA EndScopeRaised ==
  ASSUME Inv, Inv', LiveInv, PlacedInv, RaisedInv, EndBlock \/ EndOwn
  PROVE  RaisedInv'
<1>1. /\ open # <<>> /\ Last.kind \in Scoping /\ LeaveScope
      /\ seen' = Around(Last.at, flow, {}) \/ seen' = seen
  BY DEF EndBlock, EndOwn, Inside, Scoping
<1>2. seen'.raised = seen.raised /\ seen'.body = seen.body
  BY <1>1, BodyOf DEF Inv
<1>3. Last.entry.raised \subseteq Held(Last)
  BY <1>1 DEF Held, Scoping
<1>4. PICK f : /\ Leaves(f)
               /\ f.raised \subseteq
                    Held(Last) \union (IF Last.kind = "block" THEN All(flow) ELSE {})
  <2>1. CASE EndBlock
    <3> DEFINE g == Join(Last.entry, Unrolled(flow, Last.at, flow))
    <3>1. Leaves(g) /\ Last.kind = "block"
      BY <2>1 DEF EndBlock, Inside
    <3>2. Unrolled(flow, Last.at, flow).raised \subseteq All(flow)
      BY UnrolledRaised DEF All
    <3>3. g.raised \subseteq Held(Last) \union All(flow)
      BY <1>3, <3>2 DEF Join
    <3>4. QED
      BY <3>1, <3>3
  <2>2. CASE EndOwn
    <3>1. Leaves(Last.entry)
      BY <2>2 DEF EndOwn
    <3>2. QED
      BY <1>3, <3>1
  <2>3. QED
    BY <2>1, <2>2
<1>5. QED
  BY <1>1, <1>2, <1>4, LeavesScopeRaised

LEMMA EndProgramRaised ==
  ASSUME Inv, RaisedInv, EndProgram
  PROVE  RaisedInv'
<1>1. /\ Top = 1 /\ reported' = reported \union Useless /\ scopes' = <<>>
      /\ UNCHANGED <<path, open, pos, flow, seen>>
  BY DEF EndProgram
<1>2. scopes \in Seq(Scope) /\ scopes # <<>>
  <2>1. scopes \in Seq(Scope)
    BY DEF Inv, TypeOK
  <2>2. QED
    BY <1>1, <2>1 DEF Top
<1>3. RSeenOK(scopes, pos, reported, seen.raised)
  BY DEF RaisedInv
<1>4. \A s \in 1..Len(scopes') : s \in 1..Len(scopes) /\ scopes'[s] = scopes[s]
  BY <1>1
<1>5. RSeenOK(scopes', pos, reported', seen.raised)
  BY <1>1, <1>2, <1>3, <1>4, UselessDiscarded, DiscardedUnraised
<1>6. QED
  BY <1>1, <1>5 DEF RaisedInv

LEMMA InitRaised == Init => RaisedInv
<1> DEFINE new == NewScope(TRUE)
<1>1. SUFFICES ASSUME Init PROVE RaisedInv
  OBVIOUS
<1>2. new.writes = <<>>
  BY DEF NewScope
<1>3. /\ scopes = <<new>> /\ open = <<>> /\ flow.raised = {} /\ seen.raised = {}
  BY <1>1 DEF Init, NoFlow
<1> HIDE DEF new
<1>4. RSeenOK(scopes, pos, reported, seen.raised)
  BY <1>3 DEF RSeenOK, Unreported
<1>5. HeldOK(scopes, open, pos, reported, seen.body)
  BY <1>3 DEF HeldOK
<1>6. Unreported(flow.raised, pos, reported)
  BY <1>3 DEF Unreported
<1>7. Tossed(scopes, open, seen.body, flow.raised, Top, path, Len(open) + 1)
  BY <1>3, NothingTossed
<1>8. QED
  BY <1>4, <1>5, <1>6, <1>7 DEF RaisedInv

\* Wherever an exception leaves the code, every assignment whose value it takes along is one a
\* read behind it marks, or is one of Hidden: may_jump_to_other_branch keeps the walk back from
\* stopping short of it.
THEOREM StaysRaised == Spec => []RaisedInv
<1>1. Inv /\ Inv' /\ LiveInv /\ LiveInv' /\ PlacedInv /\ PlacedInv' /\ RaisedInv /\ [Next]_vars
        => RaisedInv'
  <2>1. SUFFICES ASSUME Inv, Inv', LiveInv, LiveInv', PlacedInv, PlacedInv', RaisedInv,
                        [Next]_vars
                 PROVE  RaisedInv'
    OBVIOUS
  <2>2. CASE Write
    BY <2>1, <2>2, WriteRaised
  <2>3. CASE WriteModified
    BY <2>1, <2>3, WriteModifiedRaised
  <2>4. CASE WriteShort
    BY <2>1, <2>4, WriteShortRaised
  <2>5. CASE Read
    BY <2>1, <2>5, ReadRaised
  <2>6. CASE Cond
    BY <2>1, <2>6, CondRaised
  <2>7. CASE CondModified
    BY <2>1, <2>7, CondModifiedRaised
  <2>8. CASE Arm
    BY <2>1, <2>8, ArmRaised
  <2>9. CASE Logic
    BY <2>1, <2>9, LogicRaised
  <2>10. CASE While
    BY <2>1, <2>10, WhileRaised
  <2>11. CASE Body
    BY <2>1, <2>11, BodyRaised
  <2>12. CASE Post
    BY <2>1, <2>12, PostRaised
  <2>13. CASE Test
    BY <2>1, <2>13, TestRaised
  <2>14. CASE Begin
    BY <2>1, <2>14, BeginRaised
  <2>15. CASE Rescue
    BY <2>1, <2>15, RescueRaised
  <2>16. CASE Else
    BY <2>1, <2>16, ElseRaised
  <2>17. CASE Ensured
    BY <2>1, <2>17, EnsuredRaised
  <2>18. CASE Ensure
    BY <2>1, <2>18, EnsureRaised
  <2>19. CASE Block
    BY <2>1, <2>19, BlockRaised
  <2>20. CASE Def
    BY <2>1, <2>20, DefRaised
  <2>21. CASE Class
    BY <2>1, <2>21, ClassRaised
  <2>22. CASE EndCond \/ EndLogic \/ EndBegin \/ EndEnsure
    BY <2>1, <2>22, LeavesQuietlyRaised
  <2>23. CASE EndWhile \/ EndPost
    BY <2>1, <2>23, EndLoopRaised
  <2>24. CASE EndBlock \/ EndOwn
    BY <2>1, <2>24, EndScopeRaised
  <2>25. CASE EndProgram
    BY <2>1, <2>25, EndProgramRaised
  <2>26. CASE UNCHANGED vars
    BY <2>1, <2>26 DEF vars, RaisedInv, Top
  <2>27. CASE FirstShort
    BY <2>1, <2>27, FirstShortRaised
  <2>28. QED
    BY <2>1, <2>2, <2>3, <2>4, <2>5, <2>6, <2>7, <2>8, <2>9, <2>10, <2>11, <2>12, <2>13, <2>14, <2>15, <2>16, <2>17, <2>18, <2>19, <2>20, <2>21, <2>22, <2>23, <2>24, <2>25, <2>26, <2>27 DEF Next
<1>2. QED
  BY <1>1, Inductive, StaysAlive, StaysInPlace, InitRaised, PTL DEF Spec

\* An assignment whose value an exception carries to a read, on whatever way through rescue and
\* ensure clauses, loops and blocks, is not reported, with the exceptions of Hidden.
THEOREM RaisedCorrect == Spec => []RaisedIsNotReported
<1>1. RaisedInv => RaisedIsNotReported
  BY DEF RaisedInv, RSeenOK, Unreported, RaisedIsNotReported
<1>2. QED
  BY <1>1, StaysRaised, PTL

-----------------------------------------------------------------------------
(* What an earlier run of a loop has left.                                 *)

Loops == {"while", "body", "post", "test", "block"}

\* The values of before the construct that can still be there inside of it.
Olds(fr) ==
  IF fr.kind \in Loops THEN [plain |-> fr.entry.plain, raised |-> All(fr.entry)]
  ELSE IF fr.kind = "ensure"
  THEN [plain |-> fr.entry.plain, raised |-> All(fr.entry) \union All(fr.end)]
  ELSE NoFlow

Older(fr, f) ==
  fr.kind \in Loops \union {"ensure", "own", "def", "class"} =>
    /\ \A x \in f.plain : x < fr.at => x \in Olds(fr).plain
    /\ \A x \in f.raised : x < fr.at => x \in Olds(fr).raised

\* The values e that the loop at offset h found there come and go with h, which stands for what
\* an earlier run left.
Together(h, e, f) ==
  /\ h \in f.plain => e.plain \subseteq f.plain /\ e.raised \subseteq f.raised
  /\ h \in f.raised => All(e) \subseteq f.raised
  /\ \A x \in f.plain : x < h => h \in f.plain
  /\ \A x \in f.raised : x < h => x \in e.raised \/ h \in f.raised

Tracked(fr, f) == Older(fr, f) /\ (fr.kind \in Loops => Together(fr.at, fr.entry, f))

Flows(fr) == {fr.entry, fr.out, fr.thrown, fr.end}

TrackedIn(op, f) ==
  \A i \in DOMAIN op :
    /\ Tracked(op[i], f)
    /\ \A m \in DOMAIN op : i < m => \A g \in Flows(op[m]) : Tracked(op[i], g)
    /\ op[i].kind \in Loops => \A x \in All(op[i].entry) : x < op[i].at
    /\ op[i].kind = "begin" => op[i].entry.raised \subseteq op[i].end.raised

TrackedInv == TrackedIn(open, flow)

-----------------------------------------------------------------------------

LEMMA NothingTracked ==
  ASSUME NEW fr
  PROVE  Tracked(fr, NoFlow)
  BY DEF Tracked, Older, Together, NoFlow

LEMMA JoinTracked ==
  ASSUME NEW fr, NEW f, NEW g, Tracked(fr, f), Tracked(fr, g)
  PROVE  Tracked(fr, Join(f, g))
<1>1. /\ Join(f, g).plain = f.plain \union g.plain
      /\ Join(f, g).raised = f.raised \union g.raised
  BY DEF Join
<1>2. Older(fr, Join(f, g))
  BY <1>1 DEF Tracked, Older
<1>3. ASSUME fr.kind \in Loops
      PROVE  Together(fr.at, fr.entry, Join(f, g))
  BY <1>1, <1>3 DEF Tracked, Together
<1>4. QED
  BY <1>2, <1>3 DEF Tracked

\* What is thrown inside comes behind what is left there.
LEMMA ThrowTracked ==
  ASSUME NEW fr, NEW f, NEW g, Tracked(fr, f), Tracked(fr, g),
         NEW t, t.plain = f.plain, t.raised = f.raised \union All(g),
         fr.kind \in Loops => \A x \in All(fr.entry) : x < fr.at
  PROVE  Tracked(fr, t)
<1>1. t.raised = f.raised \union g.plain \union g.raised
  BY DEF All
<1>2. Older(fr, t)
  <2>1. SUFFICES ASSUME fr.kind \in Loops \union {"ensure", "own", "def", "class"}
                 PROVE  /\ \A x \in t.plain : x < fr.at => x \in Olds(fr).plain
                        /\ \A x \in t.raised : x < fr.at => x \in Olds(fr).raised
    BY DEF Older
  <2>2. Olds(fr).plain \subseteq Olds(fr).raised
    BY DEF Olds, All, NoFlow
  <2>3. QED
    BY <1>1, <2>1, <2>2 DEF Tracked, Older
<1>3. ASSUME fr.kind \in Loops
      PROVE  Together(fr.at, fr.entry, t)
  <2>1. Together(fr.at, fr.entry, f) /\ Together(fr.at, fr.entry, g)
    BY <1>3 DEF Tracked
  <2>2. QED
    BY <1>1, <2>1 DEF Together, All
<1>4. QED
  BY <1>2, <1>3 DEF Tracked

\* Neither an assignment behind the loop's start nor an inner loop is one of the values.
LEMMA LaterTracked ==
  ASSUME NEW fr, fr.at \in Nat, NEW n \in Nat, fr.at < n, NEW f, Tracked(fr, f),
         fr.kind \in Loops => \A x \in All(fr.entry) : x < fr.at
  PROVE  /\ Tracked(fr, [plain |-> {n}, raised |-> {}])
         /\ Tracked(fr, [plain |-> f.plain \ {n}, raised |-> f.raised \ {n}])
<1>1. Tracked(fr, [plain |-> {n}, raised |-> {}])
  BY DEF Tracked, Older, Together
<1> DEFINE g == [plain |-> f.plain \ {n}, raised |-> f.raised \ {n}]
<1>2. g.plain = f.plain \ {n} /\ g.raised = f.raised \ {n}
  OBVIOUS
<1> HIDE DEF g
<1>3. Older(fr, g)
  BY <1>2 DEF Tracked, Older
<1>4. ASSUME fr.kind \in Loops
      PROVE  Together(fr.at, fr.entry, g)
  <2>1. n \notin All(fr.entry) /\ n # fr.at
    BY <1>4
  <2>2. Together(fr.at, fr.entry, f)
    BY <1>4 DEF Tracked
  <2>3. QED
    BY <1>2, <2>1, <2>2 DEF Together, All
<1>5. Tracked(fr, g)
  BY <1>3, <1>4 DEF Tracked
<1>6. QED
  BY <1>1, <1>5 DEF g

LEMMA UnrolledTracked ==
  ASSUME NEW fr, fr.at \in Nat, NEW n \in Nat, fr.at < n, NEW f, Tracked(fr, f),
         NEW g, Tracked(fr, g),
         fr.kind \in Loops => \A x \in All(fr.entry) : x < fr.at
  PROVE  Tracked(fr, Unrolled(f, n, g))
<1> DEFINE out == [plain |-> f.plain \ {n}, raised |-> f.raised \ {n}]
           in == [plain |-> g.plain \ {n}, raised |-> g.raised \ {n}]
           t == [out EXCEPT !.raised = @ \union in.plain \union in.raised]
<1>1. Tracked(fr, out) /\ Tracked(fr, in)
  BY LaterTracked
<1>2. Tracked(fr, Join(out, in))
  BY <1>1, JoinTracked
<1>3. t.plain = out.plain /\ t.raised = out.raised \union All(in)
  BY DEF All
<1>4. Unrolled(f, n, g) \in {Join(out, in), t, out}
  BY DEF Unrolled
<1> HIDE DEF out, in, t
<1>5. Tracked(fr, t)
  BY <1>1, <1>3, ThrowTracked
<1>6. QED
  BY <1>1, <1>2, <1>4, <1>5

\* Behind an ensure clause, what exceptions carried into it is gone.
LEMMA EnsuredTracked ==
  ASSUME NEW fr, NEW last, last.kind = "ensure", fr.at \in Nat, last.at \in Nat, fr.at < last.at,
         NEW f, Tracked(fr, f), Tracked(fr, last.entry), Tracked(fr, last.end), Tracked(last, f),
         f.plain \subseteq Nat, f.raised \subseteq Nat,
         fr.kind \in Loops => \A x \in All(fr.entry) : x < fr.at,
         NEW t, t.plain = f.plain, t.raised = f.raised \ (All(last.end) \ last.entry.raised)
  PROVE  Tracked(fr, t)
<1> DEFINE in == last.entry
           U == All(last.end)
<1>1. Older(fr, t)
  BY DEF Tracked, Older
<1>2. /\ \A x \in f.plain : x < last.at => x \in in.plain
      /\ \A x \in f.raised : x < last.at => x \in in.plain \union in.raised \union U
  <2>1. Olds(last) = [plain |-> in.plain, raised |-> All(in) \union U]
    BY DEF Olds, Loops
  <2>2. QED
    BY <2>1 DEF Tracked, Older, All
<1>3. ASSUME fr.kind \in Loops
      PROVE  Together(fr.at, fr.entry, t)
  <2> DEFINE h == fr.at
             e == fr.entry
  <2>1. Together(h, e, f) /\ Together(h, e, in) /\ Together(h, e, last.end)
    BY <1>3 DEF Tracked
  <2>2. \A x \in in.plain : x < h => x \in e.plain
    BY <1>3 DEF Tracked, Older, Olds
  <2>3. \A x \in All(e) : x < h
    BY <1>3
  <2>4. \A x \in f.plain \union f.raised : x < h => x < last.at
    <3>1. ASSUME NEW x \in Nat, x < h PROVE x < last.at
      BY <3>1
    <3>2. QED
      BY <3>1
  <2>5. h \in U => All(e) \subseteq U
    BY <2>1 DEF Together, All
  <2> HIDE DEF in, h, e
  <2>6. ASSUME h \in t.plain
        PROVE  e.plain \subseteq t.plain /\ e.raised \subseteq t.raised
    <3>1. e.plain \subseteq f.plain /\ e.raised \subseteq f.raised
      BY <2>1, <2>6 DEF Together
    <3>2. h \in in.plain
      BY <1>2, <2>6 DEF h
    <3>3. e.raised \subseteq in.raised
      BY <2>1, <3>2 DEF Together
    <3>4. QED
      BY <3>1, <3>3 DEF in
  <2>7. ASSUME h \in t.raised
        PROVE  All(e) \subseteq t.raised
    <3>1. h \in f.raised /\ All(e) \subseteq f.raised
      BY <2>1, <2>7 DEF Together
    <3>2. CASE h \in in.raised
      <4>1. All(e) \subseteq in.raised
        BY <2>1, <3>2 DEF Together
      <4>2. QED
        BY <3>1, <4>1 DEF in
    <3>3. CASE h \notin in.raised
      <4>1. h \notin U /\ h \in in.plain
        BY <1>2, <2>7, <3>1, <3>3 DEF h, in
      <4>2. e.raised \subseteq in.raised
        BY <2>1, <4>1 DEF Together
      <4>3. h \notin last.end.plain /\ h \notin last.end.raised
        BY <4>1 DEF All
      <4>4. ASSUME NEW x \in All(e), x \in U PROVE x \in in.raised
        <5>1. x < h /\ (x \in last.end.plain \/ x \in last.end.raised)
          BY <2>3, <4>4 DEF All
        <5>2. x \in e.raised
          BY <2>1, <4>3, <5>1 DEF Together
        <5>3. QED
          BY <4>2, <5>2
      <4>5. QED
        BY <3>1, <4>4 DEF in
    <3>4. QED
      BY <3>2, <3>3
  <2>8. \A x \in t.plain : x < h => h \in t.plain
    BY <2>1 DEF Together
  <2>9. ASSUME NEW x \in t.raised, x < h, h \notin t.raised
        PROVE  x \in e.raised
    <3>1. x \in f.raised /\ (x \notin U \/ x \in in.raised) /\ (x \in e.raised \/ h \in f.raised)
      BY <2>1, <2>9 DEF Together, in
    <3>2. CASE h \in f.raised
      <4>1. h \in U /\ h \notin in.raised
        BY <2>9, <3>2 DEF in
      <4>2. CASE x \in in.raised
        BY <2>1, <2>9, <4>1, <4>2 DEF Together
      <4>3. CASE x \notin in.raised
        <5>1. x \in in.plain
          BY <1>2, <2>4, <2>9, <3>1, <4>3
        <5>2. x \in U
          BY <2>2, <2>5, <2>9, <4>1, <5>1 DEF All
        <5>3. QED
          BY <3>1, <4>3, <5>2
      <4>4. QED
        BY <4>2, <4>3
    <3>3. QED
      BY <3>1, <3>2
  <2>10. QED
    BY <2>6, <2>7, <2>8, <2>9 DEF Together, h, e
<1>4. QED
  BY <1>1, <1>3 DEF Tracked

\* The tracking looks at no more of the construct.
LEMMA SameTracked ==
  ASSUME NEW fr, NEW fr2, fr2.kind = fr.kind \/ (fr.kind \in Loops /\ fr2.kind \in Loops),
         fr2.at = fr.at, fr2.entry = fr.entry, fr.kind = "ensure" => fr2.end = fr.end,
         NEW f, Tracked(fr, f)
  PROVE  Tracked(fr2, f)
<1>1. Olds(fr2) = Olds(fr) /\ (fr2.kind \in Loops <=> fr.kind \in Loops)
  BY DEF Olds, Loops
<1>2. fr2.kind \in Loops \union {"ensure", "own", "def", "class"}
        <=> fr.kind \in Loops \union {"ensure", "own", "def", "class"}
  BY <1>1
<1>3. Older(fr2, f)
  BY <1>1, <1>2 DEF Tracked, Older
<1>4. fr2.kind \in Loops => Together(fr2.at, fr2.entry, f)
  BY <1>1 DEF Tracked
<1>5. QED
  BY <1>3, <1>4 DEF Tracked

\* The flows around the last construct.
LEMMA TrackedAround ==
  ASSUME Inv, LiveInv, TrackedInv, open # <<>>, NEW i \in DOMAIN open, i < Len(open)
  PROVE  /\ Tracked(open[i], flow)
         /\ Tracked(open[i], Last.entry) /\ Tracked(open[i], Last.out)
         /\ Tracked(open[i], Last.thrown) /\ Tracked(open[i], Last.end)
         /\ open[i].at \in Nat /\ Last.at \in Nat /\ open[i].at < Last.at
         /\ open[i].kind \in Loops => \A x \in All(open[i].entry) : x < open[i].at
<1>1. /\ scopes # <<>> /\ open \in Seq(Frame) /\ Last.at \in Nat
      /\ Alive(scopes, open, path, pos, reported, seen, flow.plain)
  BY WhereInside
<1>2. Len(open) \in DOMAIN open /\ NestOK(Len(scopes), open, pos)
  BY <1>1 DEF Alive
<1>3. open[i].at \in Nat /\ open[i].at < open[Len(open)].at
  BY <1>1, <1>2, FrameTypes DEF NestOK
<1>4. /\ Tracked(open[i], flow) /\ \A g \in Flows(open[Len(open)]) : Tracked(open[i], g)
      /\ open[i].kind \in Loops => \A x \in All(open[i].entry) : x < open[i].at
  BY <1>2 DEF TrackedInv, TrackedIn
<1>5. QED
  BY <1>1, <1>3, <1>4 DEF Flows, Last

LEMMA PassedTracked ==
  ASSUME Inv, TrackedInv, NEW f \in Flow, Passed(f), \A i \in DOMAIN open : Tracked(open[i], f)
  PROVE  TrackedInv'
<1>1. open' = Raising(f) /\ flow' = f /\ open \in Seq(Frame)
  BY DEF Passed, Inv, TypeOK
<1>2. DOMAIN open' = DOMAIN open
  BY <1>1, RaisingSame
<1>3. ASSUME NEW i \in DOMAIN open
      PROVE  /\ SameFrame(open[i], open'[i])
             /\ \/ open'[i].end = open[i].end
                \/ open[i].kind \in Begins /\ open'[i].end = Join(open[i].end, f)
  <2>1. SameFrame(open[i], open'[i])
    BY <1>1, RaisingSame
  <2>2. open[i] \in Frame
    BY <1>1
  <2>3. open'[i] = open[i] \/ (open[i].kind \in Begins /\ open'[i] = [open[i] EXCEPT !.end = Join(@, f)])
    BY <1>1 DEF Raising, Begins
  <2>4. QED
    BY <2>1, <2>2, <2>3 DEF Frame
<1>4. ASSUME NEW i \in DOMAIN open, NEW g, Tracked(open[i], g)
      PROVE  Tracked(open'[i], g)
  <2>1. open[i].kind = "ensure" => open'[i].end = open[i].end
    BY <1>3 DEF Begins
  <2>2. QED
    BY <1>3, <1>4, <2>1, SameTracked DEF SameFrame
<1>5. SUFFICES ASSUME NEW i \in DOMAIN open
               PROVE  /\ Tracked(open'[i], f)
                      /\ \A m \in DOMAIN open : i < m => \A g \in Flows(open'[m]) : Tracked(open'[i], g)
                      /\ open'[i].kind \in Loops => \A x \in All(open'[i].entry) : x < open'[i].at
                      /\ open'[i].kind = "begin" => open'[i].entry.raised \subseteq open'[i].end.raised
  BY <1>1, <1>2 DEF TrackedInv, TrackedIn
<1>6. /\ \A m \in DOMAIN open : i < m => \A g \in Flows(open[m]) : Tracked(open[i], g)
      /\ open[i].kind \in Loops => \A x \in All(open[i].entry) : x < open[i].at
      /\ open[i].kind = "begin" => open[i].entry.raised \subseteq open[i].end.raised
  BY DEF TrackedInv, TrackedIn
<1>7. Tracked(open'[i], f)
  BY <1>4
<1>8. ASSUME NEW m \in DOMAIN open, i < m, NEW g \in Flows(open'[m])
      PROVE  Tracked(open'[i], g)
  <2>1. g \in Flows(open[m]) \/ g = Join(open[m].end, f)
    BY <1>3, <1>8 DEF Flows, SameFrame
  <2>2. Tracked(open[i], open[m].end)
    BY <1>6, <1>8 DEF Flows
  <2>3. Tracked(open[i], Join(open[m].end, f))
    BY <2>2, JoinTracked
  <2>4. QED
    BY <1>4, <1>6, <1>8, <2>1, <2>3
<1>9. open'[i].kind \in Loops => \A x \in All(open'[i].entry) : x < open'[i].at
  BY <1>3, <1>6 DEF SameFrame
<1>10. open'[i].kind = "begin" => open'[i].entry.raised \subseteq open'[i].end.raised
  <2>1. open'[i].end = open[i].end \/ open'[i].end = Join(open[i].end, f)
    BY <1>3
  <2>2. open[i].end.raised \subseteq open'[i].end.raised
    BY <2>1 DEF Join
  <2>3. QED
    BY <1>3, <1>6, <2>2 DEF SameFrame
<1>11. QED
  BY <1>7, <1>8, <1>9, <1>10

LEMMA EntersTracked ==
  ASSUME Inv, TrackedInv, NEW kind \in Kinds, NEW p2, NEW before \in Flow, NEW f,
         Enters(kind, p2, before, f),
         \A i \in DOMAIN open : Tracked(open[i], before) /\ Tracked(open[i], f),
         Tracked(Opened(kind, before), f), kind \in Loops => \A x \in All(before) : x < pos
  PROVE  TrackedInv'
<1> DEFINE fr == Opened(kind, before)
           m == Len(open) + 1
<1>1. fr \in Frame /\ open' = Append(open, fr) /\ flow' = f /\ open \in Seq(Frame)
  BY Entered DEF Inv, TypeOK
<1>2. /\ fr.kind = kind /\ fr.at = pos /\ fr.entry = before /\ fr.end = before
      /\ Flows(fr) = {before, NoFlow}
  BY DEF Opened, Flows
<1> HIDE DEF fr
<1>3. /\ m \in Nat /\ open'[m] = fr
      /\ \A i \in DOMAIN open : i < m /\ open'[i] = open[i]
      /\ \A i \in DOMAIN open' : i # m => i \in DOMAIN open /\ i < m
  BY <1>1, Under
<1>4. SUFFICES ASSUME NEW i \in DOMAIN open'
               PROVE  /\ Tracked(open'[i], f)
                      /\ \A k \in DOMAIN open' : i < k => \A g \in Flows(open'[k]) : Tracked(open'[i], g)
                      /\ open'[i].kind \in Loops => \A x \in All(open'[i].entry) : x < open'[i].at
                      /\ open'[i].kind = "begin" => open'[i].entry.raised \subseteq open'[i].end.raised
  BY <1>1 DEF TrackedInv, TrackedIn
<1>5. CASE i = m
  <2>1. \A k \in DOMAIN open' : ~ m < k
    BY <1>3
  <2>2. Tracked(fr, f)
    BY DEF fr
  <2>3. QED
    BY <1>2, <1>3, <1>5, <2>1, <2>2
<1>6. CASE i # m
  <2>1. i \in DOMAIN open /\ open'[i] = open[i] /\ i < m
    BY <1>3, <1>6
  <2>2. \A g \in Flows(fr) : Tracked(open[i], g)
    BY <1>2, <2>1, NothingTracked
  <2>3. \A k \in DOMAIN open' : k = m \/ (k \in DOMAIN open /\ open'[k] = open[k])
    BY <1>3
  <2>4. \A k \in DOMAIN open : i < k => \A g \in Flows(open[k]) : Tracked(open[i], g)
    BY <2>1 DEF TrackedInv, TrackedIn
  <2>5. /\ open[i].kind \in Loops => \A x \in All(open[i].entry) : x < open[i].at
        /\ open[i].kind = "begin" => open[i].entry.raised \subseteq open[i].end.raised
    BY <2>1 DEF TrackedInv, TrackedIn
  <2>6. QED
    BY <1>3, <2>1, <2>2, <2>3, <2>4, <2>5
<1>7. QED
  BY <1>5, <1>6

LEMMA TurnsTracked ==
  ASSUME Inv, TrackedInv, open # <<>>, NEW fr \in Frame, NEW p, NEW f, Turns(fr, p, f),
         \A i \in DOMAIN open : i < Len(open) =>
           Tracked(open[i], f) /\ \A g \in Flows(fr) : Tracked(open[i], g),
         Tracked(fr, f), fr.kind \in Loops => \A x \in All(fr.entry) : x < fr.at,
         fr.kind # "begin"
  PROVE  TrackedInv'
<1> DEFINE m == Len(open)
<1>1. open' = [open EXCEPT ![m] = fr] /\ flow' = f /\ open \in Seq(Frame)
  BY DEF Turns, Inv, TypeOK
<1>2. /\ m \in Nat /\ m \in DOMAIN open /\ DOMAIN open' = DOMAIN open /\ open'[m] = fr
      /\ \A i \in DOMAIN open : i # m => i < m /\ open'[i] = open[i]
  BY <1>1, Turned
<1>3. SUFFICES ASSUME NEW i \in DOMAIN open
               PROVE  /\ Tracked(open'[i], f)
                      /\ \A k \in DOMAIN open : i < k => \A g \in Flows(open'[k]) : Tracked(open'[i], g)
                      /\ open'[i].kind \in Loops => \A x \in All(open'[i].entry) : x < open'[i].at
                      /\ open'[i].kind = "begin" => open'[i].entry.raised \subseteq open'[i].end.raised
  BY <1>1, <1>2 DEF TrackedInv, TrackedIn
<1>4. CASE i = m
  <2>1. \A k \in DOMAIN open : ~ m < k
    BY <1>2
  <2>2. QED
    BY <1>2, <1>4, <2>1
<1>5. CASE i # m
  <2>1. i < m /\ open'[i] = open[i]
    BY <1>2, <1>5
  <2>2. /\ \A k \in DOMAIN open : i < k => \A g \in Flows(open[k]) : Tracked(open[i], g)
        /\ open[i].kind \in Loops => \A x \in All(open[i].entry) : x < open[i].at
        /\ open[i].kind = "begin" => open[i].entry.raised \subseteq open[i].end.raised
    BY DEF TrackedInv, TrackedIn
  <2>3. \A g \in Flows(fr) : Tracked(open[i], g)
    BY <2>1
  <2>4. Tracked(open[i], f)
    BY <2>1
  <2>5. QED
    BY <1>2, <2>1, <2>2, <2>3, <2>4
<1>6. QED
  BY <1>4, <1>5

LEMMA LeavesTracked ==
  ASSUME Inv, TrackedInv, open # <<>>, NEW f, Leaves(f),
         \A i \in DOMAIN open : i < Len(open) => Tracked(open[i], f)
  PROVE  TrackedInv'
<1>1. open' = SubSeq(open, 1, Len(open) - 1) /\ flow' = f /\ open \in Seq(Frame)
  BY DEF Leaves, Inv, TypeOK
<1>2. \A i \in DOMAIN open' : i \in DOMAIN open /\ i < Len(open) /\ open'[i] = open[i]
  BY <1>1, Left
<1>3. QED
  BY <1>1, <1>2 DEF TrackedInv, TrackedIn

-----------------------------------------------------------------------------

\* What there is in front of the next node, and with a write there.
LEMMA TrackedHere ==
  ASSUME Inv, LiveInv, PlacedInv, RaisedInv, TrackedInv, Top > 0
  PROVE  /\ pos \in Nat /\ flow \in Flow /\ Written \in Flow /\ Looping \in Flow
         /\ \A x \in All(flow) : x < pos
         /\ \A i \in DOMAIN open : /\ Tracked(open[i], flow) /\ Tracked(open[i], Written)
                                   /\ Tracked(open[i], Looping)
<1>1. /\ pos \in Nat /\ flow \in Flow /\ scopes # <<>> /\ Unreported(flow.plain, pos, reported)
      /\ \A i \in DOMAIN open : open[i].at \in Nat /\ open[i].at < pos
  BY RaisedTypes
<1>2. Written \in Flow /\ Looping \in Flow
  BY <1>1, FlowTypes, JoinType DEF Looping
<1>3. \A x \in All(flow) : x < pos
  BY <1>1, RaisedHere DEF Unreported, All
<1>4. ASSUME NEW i \in DOMAIN open
      PROVE  /\ Tracked(open[i], flow) /\ Tracked(open[i], Written)
             /\ Tracked(open[i], Looping)
  <2>1. /\ Tracked(open[i], flow) /\ open[i].at \in Nat /\ open[i].at < pos
        /\ open[i].kind \in Loops => \A x \in All(open[i].entry) : x < open[i].at
    BY <1>1 DEF TrackedInv, TrackedIn
  <2>2. Tracked(open[i], Written)
    BY <1>1, <2>1, LaterTracked DEF Written
  <2>3. QED
    BY <2>1, <2>2, JoinTracked DEF Looping
<1>5. QED
  BY <1>1, <1>2, <1>3, <1>4

\* In a loop, the flow is tracked from its start.
LEMMA LoopTracked ==
  ASSUME NEW fr, NEW n \in Nat, fr.at = n, NEW f, fr.entry = f, \A x \in All(f) : x < n,
         NEW g, g.plain = f.plain \union {n}, g.raised = f.raised
  PROVE  Tracked(fr, g) \/ fr.kind \notin Loops
<1>1. SUFFICES ASSUME fr.kind \in Loops PROVE Tracked(fr, g)
  OBVIOUS
<1>2. Olds(fr) = [plain |-> f.plain, raised |-> All(f)]
  BY <1>1 DEF Olds
<1>3. n \notin All(f)
  OBVIOUS
<1>4. Older(fr, g)
  BY <1>2 DEF Older, All
<1>5. Together(n, f, g)
  BY <1>3 DEF Together, All
<1>6. QED
  BY <1>4, <1>5 DEF Tracked

LEMMA PassesTracked ==
  ASSUME Inv, LiveInv, PlacedInv, RaisedInv, TrackedInv,
         Write \/ WriteModified \/ WriteShort \/ FirstShort \/ Read
  PROVE  TrackedInv'
<1>1. \E f \in {flow, Written, Looping} : Passed(f)
  BY DEF Write, WriteModified, WriteShort, FirstShort, Read, Looping
<1>2. Top > 0
  BY <1>1 DEF Passed
<1>3. QED
  BY <1>1, <1>2, TrackedHere, PassedTracked

\* Into a part of a construct that may start with what there is in front.
LEMMA EntersPlainTracked ==
  ASSUME Inv, LiveInv, PlacedInv, RaisedInv, TrackedInv,
         NEW kind \in {"cond", "modifier", "logic", "begin", "ensured"}, NEW p2,
         NEW f \in {flow, Written}, Enters(kind, p2, f, f)
  PROVE  TrackedInv'
<1>1. Top > 0
  BY DEF Enters
<1>2. kind \in Kinds /\ kind \notin Loops \union {"ensure", "own", "def", "class"}
  BY DEF Kinds, Loops
<1>3. Opened(kind, f).kind = kind
  BY DEF Opened
<1>4. Tracked(Opened(kind, f), f)
  BY <1>2, <1>3 DEF Tracked, Older
<1>5. f \in Flow /\ \A i \in DOMAIN open : Tracked(open[i], f)
  BY <1>1, TrackedHere
<1>6. QED
  BY <1>2, <1>4, <1>5, EntersTracked

LEMMA EntersLoopTracked ==
  ASSUME Inv, LiveInv, PlacedInv, RaisedInv, TrackedInv, NEW kind \in {"while", "post", "block"},
         NEW p2, Enters(kind, p2, flow, Looping)
  PROVE  TrackedInv'
<1>1. Top > 0
  BY DEF Enters
<1>2. kind \in Kinds /\ kind \in Loops
  BY DEF Kinds, Loops
<1>3. /\ pos \in Nat /\ flow \in Flow /\ \A x \in All(flow) : x < pos
      /\ \A i \in DOMAIN open : Tracked(open[i], flow) /\ Tracked(open[i], Looping)
  BY <1>1, TrackedHere
<1>4. /\ Opened(kind, flow).kind = kind /\ Opened(kind, flow).at = pos
      /\ Opened(kind, flow).entry = flow
  BY DEF Opened
<1>5. Looping.plain = flow.plain \union {pos} /\ Looping.raised = flow.raised
  BY DEF Looping, Join, Written
<1>6. Tracked(Opened(kind, flow), Looping)
  BY <1>2, <1>3, <1>4, <1>5, LoopTracked
<1>7. QED
  BY <1>2, <1>3, <1>6, EntersTracked

LEMMA EntersOwnTracked ==
  ASSUME Inv, LiveInv, PlacedInv, RaisedInv, TrackedInv, NEW kind \in {"own", "def", "class"},
         NEW p2, Enters(kind, p2, flow, NoFlow)
  PROVE  TrackedInv'
<1>1. Top > 0 /\ kind \in Kinds /\ kind \notin Loops
  BY DEF Enters, Kinds, Loops
<1>2. flow \in Flow /\ \A i \in DOMAIN open : Tracked(open[i], flow)
  BY <1>1, TrackedHere
<1>3. QED
  BY <1>1, <1>2, NothingTracked, EntersTracked

\* Into the next part of a construct.
LEMMA TurnsKeepTracked ==
  ASSUME Inv, LiveInv, TrackedInv, open # <<>>, SamePlace,
         \A i \in DOMAIN open : i < Len(open) =>
           /\ Tracked(open[i], flow') /\ Tracked(open[i], Last'.entry)
           /\ Tracked(open[i], Last'.out) /\ Tracked(open[i], Last'.thrown),
         Tracked(Last', flow'), Last'.kind \in Loops => \A x \in All(Last'.entry) : x < Last'.at,
         Last'.kind # "begin"
  PROVE  TrackedInv'
<1>1. Last' \in Frame /\ Last'.end = Last.end /\ Turns(Last', path', flow')
  BY DEF SamePlace
<1>2. \A i \in DOMAIN open : i < Len(open) =>
        Tracked(open[i], flow') /\ \A g \in Flows(Last') : Tracked(open[i], g)
  BY <1>1, TrackedAround DEF Flows
<1>3. QED
  BY <1>1, <1>2, TurnsTracked

LEMMA ArmTracked ==
  ASSUME Inv, LiveInv, TrackedInv, Arm
  PROVE  TrackedInv'
<1>1. /\ open # <<>> /\ SamePlace /\ Last'.kind = "cond" /\ Last'.entry = Last.entry
      /\ Last'.thrown = Last.thrown /\ Last'.out = Join(Last.out, flow) /\ flow' = Last.entry
  BY ArmTurns
<1>2. Tracked(Last', flow') /\ Last'.kind \notin Loops /\ Last'.kind # "begin"
  BY <1>1 DEF Tracked, Older, Loops
<1>3. \A i \in DOMAIN open : i < Len(open) =>
        /\ Tracked(open[i], Last.entry) /\ Tracked(open[i], Join(Last.out, flow))
        /\ Tracked(open[i], Last.thrown)
  BY <1>1, TrackedAround, JoinTracked
<1>4. QED
  BY <1>1, <1>2, <1>3, TurnsKeepTracked

LEMMA ElseTracked ==
  ASSUME Inv, LiveInv, TrackedInv, Else
  PROVE  TrackedInv'
<1>1. /\ open # <<>> /\ SamePlace /\ Last'.kind = "else" /\ Last'.entry = Last.entry
      /\ Last'.thrown = Last.thrown /\ Last'.out = Join(Last.out, flow) /\ flow' = Last.entry
  BY ElseTurns
<1>2. Tracked(Last', flow') /\ Last'.kind \notin Loops /\ Last'.kind # "begin"
  BY <1>1 DEF Tracked, Older, Loops
<1>3. \A i \in DOMAIN open : i < Len(open) =>
        /\ Tracked(open[i], Last.entry) /\ Tracked(open[i], Join(Last.out, flow))
        /\ Tracked(open[i], Last.thrown)
  BY <1>1, TrackedAround, JoinTracked
<1>4. QED
  BY <1>1, <1>2, <1>3, TurnsKeepTracked

LEMMA RescueTracked ==
  ASSUME Inv, LiveInv, TrackedInv, Rescue
  PROVE  TrackedInv'
<1>1. /\ open # <<>> /\ SamePlace /\ Last.kind \in {"begin", "rescue"} /\ Last'.kind = "rescue"
      /\ Last.kind = "begin" =>
           /\ Last'.entry = flow /\ Last'.out = Last.out
           /\ Last'.thrown = [plain |-> Last.entry.plain, raised |-> Unwinding]
      /\ Last.kind = "rescue" =>
           /\ Last'.entry = Last.entry /\ Last'.out = Join(Last.out, flow)
           /\ Last'.thrown = Last.thrown
      /\ flow' = Last'.thrown
  BY RescueTurns
<1>2. Tracked(Last', flow') /\ Last'.kind \notin Loops /\ Last'.kind # "begin"
  BY <1>1 DEF Tracked, Older, Loops
<1>3. ASSUME NEW i \in DOMAIN open, i < Len(open)
      PROVE  /\ Tracked(open[i], Last'.entry) /\ Tracked(open[i], Last'.out)
             /\ Tracked(open[i], Last'.thrown)
  <2>1. /\ Tracked(open[i], flow) /\ Tracked(open[i], Last.entry) /\ Tracked(open[i], Last.out)
        /\ Tracked(open[i], Last.thrown) /\ Tracked(open[i], Last.end)
        /\ open[i].kind \in Loops => \A x \in All(open[i].entry) : x < open[i].at
    BY <1>1, <1>3, TrackedAround
  <2>2. CASE Last.kind = "begin"
    <3>1. Len(open) \in DOMAIN open /\ Last = open[Len(open)]
      BY <1>1, WhereInside DEF Last
    <3>2. Last.entry.raised \subseteq Last.end.raised
      BY <2>2, <3>1 DEF TrackedInv, TrackedIn
    <3>3. /\ Last'.thrown.plain = Last.entry.plain
          /\ Last'.thrown.raised = Last.entry.raised \union All(Last.end)
      BY <1>1, <2>2, <3>2 DEF Unwinding, All
    <3>4. Tracked(open[i], Last'.thrown)
      BY <2>1, <3>3, ThrowTracked
    <3>5. QED
      BY <1>1, <2>1, <2>2, <3>4
  <2>3. CASE Last.kind = "rescue"
    BY <1>1, <2>1, <2>3, JoinTracked
  <2>4. QED
    BY <1>1, <2>2, <2>3
<1>4. QED
  BY <1>1, <1>2, <1>3, TurnsKeepTracked

LEMMA LoopTurnsTracked ==
  ASSUME Inv, LiveInv, TrackedInv, Body \/ Test
  PROVE  TrackedInv'
<1>1. /\ open # <<>> /\ SamePlace /\ Last.kind \in Loops /\ Last'.kind \in Loops
      /\ Last'.entry = Last.entry /\ Last'.thrown = Last.thrown /\ Last'.out \in {flow, Last.out}
      /\ flow' = flow /\ Last'.kind # "begin"
  BY BodyTurns, TestTurns DEF Loops
<1>2. Len(open) \in DOMAIN open /\ Last = open[Len(open)] /\ Last'.at = Last.at
  BY <1>1, WhereInside DEF Last, SamePlace
<1>3. Tracked(Last, flow) /\ \A x \in All(Last.entry) : x < Last.at
  BY <1>1, <1>2 DEF TrackedInv, TrackedIn
<1>4. Tracked(Last', flow')
  BY <1>1, <1>2, <1>3, SameTracked DEF Loops
<1>5. QED
  BY <1>1, <1>2, <1>3, <1>4, TrackedAround, TurnsKeepTracked

LEMMA EnsureTracked ==
  ASSUME Inv, LiveInv, TrackedInv, Ensure
  PROVE  TrackedInv'
<1>1. /\ open # <<>> /\ SamePlace /\ Last'.kind = "ensure" /\ Last'.end = Last.end
      /\ Last'.entry = (IF Last.kind = "ensured" THEN flow ELSE Rescued)
      /\ Last'.thrown = Last.thrown /\ Last'.out = Last.out
      /\ flow'.plain = Last'.entry.plain
      /\ flow'.raised = Last'.entry.raised \union All(Last.end)
  BY EnsureTurns DEF Unwinding, All, SamePlace
<1>2. Last'.kind \notin Loops /\ Last'.kind # "begin"
  BY <1>1 DEF Loops
<1>3. Tracked(Last', flow')
  <2>1. /\ Olds(Last').plain = Last'.entry.plain
        /\ Olds(Last').raised = All(Last'.entry) \union All(Last.end)
    BY <1>1, <1>2 DEF Olds
  <2>2. Older(Last', flow')
    BY <1>1, <2>1 DEF Older, All
  <2>3. QED
    BY <1>2, <2>2 DEF Tracked
<1>4. ASSUME NEW i \in DOMAIN open, i < Len(open)
      PROVE  /\ Tracked(open[i], flow') /\ Tracked(open[i], Last'.entry)
             /\ Tracked(open[i], Last'.out) /\ Tracked(open[i], Last'.thrown)
  <2>1. /\ Tracked(open[i], flow) /\ Tracked(open[i], Last.entry) /\ Tracked(open[i], Last.out)
        /\ Tracked(open[i], Last.thrown) /\ Tracked(open[i], Last.end)
        /\ open[i].kind \in Loops => \A x \in All(open[i].entry) : x < open[i].at
    BY <1>1, <1>4, TrackedAround
  <2>2. Tracked(open[i], Rescued)
    BY <2>1, JoinTracked DEF Rescued
  <2>3. Tracked(open[i], Last'.entry)
    BY <1>1, <2>1, <2>2
  <2>4. Tracked(open[i], flow')
    BY <1>1, <2>1, <2>3, ThrowTracked
  <2>5. QED
    BY <1>1, <2>1, <2>3, <2>4
<1>5. QED
  BY <1>1, <1>2, <1>3, <1>4, TurnsKeepTracked

\* Behind a construct.
LEMMA LeavesPlainTracked ==
  ASSUME Inv, LiveInv, TrackedInv, EndCond \/ EndLogic \/ EndBegin \/ EndOwn
  PROVE  TrackedInv'
<1>1. /\ open # <<>>
      /\ \/ \E f \in {Last.entry, NoFlow} : Leaves(Join(f, Join(Last.out, flow)))
         \/ Leaves(Join(Last.entry, flow))
         \/ Leaves(Rescued)
         \/ Leaves(Last.entry)
  BY DEF EndCond, EndLogic, EndBegin, EndOwn, Inside
<1>2. ASSUME NEW i \in DOMAIN open, i < Len(open)
      PROVE  /\ \A f \in {Last.entry, NoFlow} : Tracked(open[i], Join(f, Join(Last.out, flow)))
             /\ Tracked(open[i], Join(Last.entry, flow)) /\ Tracked(open[i], Rescued)
             /\ Tracked(open[i], Last.entry)
  <2>1. Tracked(open[i], flow) /\ Tracked(open[i], Last.entry) /\ Tracked(open[i], Last.out)
    BY <1>1, <1>2, TrackedAround
  <2>2. Tracked(open[i], Rescued)
    BY <2>1, JoinTracked DEF Rescued
  <2>3. QED
    BY <2>1, <2>2, JoinTracked, NothingTracked
<1>3. QED
  BY <1>1, <1>2, LeavesTracked

LEMMA EndEnsureTracked ==
  ASSUME Inv, LiveInv, TrackedInv, EndEnsure
  PROVE  TrackedInv'
<1> DEFINE t == [flow EXCEPT !.raised = @ \ (Unwinding \ Last.entry.raised)]
<1>1. open # <<>> /\ Last.kind = "ensure" /\ Leaves(t)
  BY DEF EndEnsure, Inside
<1>2. flow \in Flow /\ Len(open) \in DOMAIN open /\ Last = open[Len(open)]
  BY <1>1, WhereInside DEF Last
<1>3. /\ t.plain = flow.plain /\ flow.plain \subseteq Nat /\ flow.raised \subseteq Nat
      /\ t.raised = flow.raised \ (All(Last.end) \ Last.entry.raised)
  BY <1>2 DEF Unwinding, All, Flow
<1>4. Tracked(Last, flow)
  BY <1>2 DEF TrackedInv, TrackedIn
<1> HIDE DEF t
<1>5. ASSUME NEW i \in DOMAIN open, i < Len(open)
      PROVE  Tracked(open[i], t)
  <2>1. /\ Tracked(open[i], flow) /\ Tracked(open[i], Last.entry) /\ Tracked(open[i], Last.end)
        /\ open[i].at \in Nat /\ Last.at \in Nat /\ open[i].at < Last.at
        /\ open[i].kind \in Loops => \A x \in All(open[i].entry) : x < open[i].at
    BY <1>1, <1>5, TrackedAround
  <2>2. QED
    BY <1>1, <1>3, <1>4, <2>1, EnsuredTracked
<1>6. QED
  BY <1>1, <1>5, LeavesTracked

LEMMA EndLoopTracked ==
  ASSUME Inv, LiveInv, TrackedInv, EndWhile \/ EndPost \/ EndBlock
  PROVE  TrackedInv'
<1> DEFINE t == Unrolled(flow, Last.at, flow)
<1>1. /\ open # <<>>
      /\ \/ Leaves(Unrolled(Last.out, Last.at, flow))
         \/ Leaves(t)
         \/ Leaves(Join(Last.entry, t))
  BY DEF EndWhile, EndPost, EndBlock, Inside
<1>2. ASSUME NEW i \in DOMAIN open, i < Len(open)
      PROVE  /\ Tracked(open[i], Unrolled(Last.out, Last.at, flow)) /\ Tracked(open[i], t)
             /\ Tracked(open[i], Join(Last.entry, t))
  <2>1. /\ Tracked(open[i], flow) /\ Tracked(open[i], Last.entry) /\ Tracked(open[i], Last.out)
        /\ open[i].at \in Nat /\ Last.at \in Nat /\ open[i].at < Last.at
        /\ open[i].kind \in Loops => \A x \in All(open[i].entry) : x < open[i].at
    BY <1>1, <1>2, TrackedAround
  <2>2. Tracked(open[i], Unrolled(Last.out, Last.at, flow)) /\ Tracked(open[i], t)
    BY <2>1, UnrolledTracked
  <2> HIDE DEF t
  <2>3. QED
    BY <2>1, <2>2, JoinTracked
<1>3. QED
  BY <1>1, <1>2, LeavesTracked

\* In every loop, what it found there comes and goes with what an earlier run left.
THEOREM StaysTracked == Spec => []TrackedInv
<1>1. Init => TrackedInv
  BY DEF Init, TrackedInv, TrackedIn
<1>2. Inv /\ LiveInv /\ PlacedInv /\ RaisedInv /\ TrackedInv /\ [Next]_vars => TrackedInv'
  <2>1. SUFFICES ASSUME Inv, LiveInv, PlacedInv, RaisedInv, TrackedInv, [Next]_vars
                 PROVE  TrackedInv'
    OBVIOUS
  <2>2. CASE Write \/ WriteModified \/ WriteShort \/ FirstShort \/ Read
    BY <2>1, <2>2, PassesTracked
  <2>3. CASE Cond
    BY <2>1, <2>3, EntersPlainTracked DEF Cond
  <2>4. CASE CondModified
    BY <2>1, <2>4, EntersPlainTracked DEF CondModified
  <2>5. CASE Logic
    BY <2>1, <2>5, EntersPlainTracked DEF Logic
  <2>6. CASE Begin
    BY <2>1, <2>6, EntersPlainTracked DEF Begin
  <2>7. CASE Ensured
    BY <2>1, <2>7, EntersPlainTracked DEF Ensured
  <2>8. CASE While
    BY <2>1, <2>8, EntersLoopTracked DEF While
  <2>9. CASE Post
    BY <2>1, <2>9, EntersLoopTracked DEF Post
  <2>10. CASE Block
    BY <2>1, <2>10, EntersLoopTracked, EntersOwnTracked DEF Block
  <2>11. CASE Def
    BY <2>1, <2>11, EntersOwnTracked DEF Def
  <2>12. CASE Class
    BY <2>1, <2>12, EntersOwnTracked DEF Class
  <2>13. CASE Arm
    BY <2>1, <2>13, ArmTracked
  <2>14. CASE Else
    BY <2>1, <2>14, ElseTracked
  <2>15. CASE Rescue
    BY <2>1, <2>15, RescueTracked
  <2>16. CASE Body \/ Test
    BY <2>1, <2>16, LoopTurnsTracked
  <2>17. CASE Ensure
    BY <2>1, <2>17, EnsureTracked
  <2>18. CASE EndCond \/ EndLogic \/ EndBegin \/ EndOwn
    BY <2>1, <2>18, LeavesPlainTracked
  <2>19. CASE EndEnsure
    BY <2>1, <2>19, EndEnsureTracked
  <2>20. CASE EndWhile \/ EndPost \/ EndBlock
    BY <2>1, <2>20, EndLoopTracked
  <2>21. CASE EndProgram
    BY <2>1, <2>21 DEF EndProgram, TrackedInv
  <2>22. CASE UNCHANGED vars
    BY <2>1, <2>22 DEF vars, TrackedInv
  <2>23. QED
    BY <2>1, <2>2, <2>3, <2>4, <2>5, <2>6, <2>7, <2>8, <2>9, <2>10, <2>11, <2>12, <2>13, <2>14, <2>15, <2>16, <2>17, <2>18, <2>19, <2>20, <2>21, <2>22 DEF Next
<1>3. QED
  BY <1>1, <1>2, Inductive, StaysAlive, StaysInPlace, StaysRaised, PTL DEF Spec

-----------------------------------------------------------------------------
(* What the reads in an earlier run saw.                                   *)

\* Once a read in the loop has seen what an earlier run left, what the loop found there needs
\* no mark any more, and x is read in it.
LoopsSeen(sc, op, X, body) ==
  \A i \in DOMAIN op : op[i].kind \in Loops /\ op[i].at \in X =>
    /\ op[i].kind # "block" =>
         \E s \in 1..op[i].scope : /\ sc[s].declared /\ Reach(sc, s, op[i].scope)
                                   /\ \E r \in sc[s].reads : r >= op[i].at
    /\ \A s \in 1..Len(sc) : \A j \in DOMAIN sc[s].writes :
         sc[s].writes[j].at \in All(op[i].entry) => Settled(sc, s, j, body)

\* What is assigned in a block to a variable of an outer scope is captured.
Late(sc, op) ==
  \A b \in DOMAIN op : op[b].kind = "block" =>
    \A s \in 1..op[b].scope : \A j \in DOMAIN sc[s].writes :
      sc[s].writes[j].at > op[b].at => sc[s].captured /\ ~sc[s].writes[j].reassigned

AroundInv ==
  /\ RSeenOK(scopes, pos, reported, seen.around)
  /\ scopes # <<>> => /\ LoopsSeen(scopes, open, seen.plain \union seen.raised, seen.body)
                      /\ Late(scopes, open)

\* Beside an assignment at offset n, all that counts of the scopes stays.
Follows(sc, sc2, body, body2, n) ==
  /\ \A s \in 1..Len(sc) : s <= Len(sc2) =>
       /\ sc2[s].hard = sc[s].hard
       /\ sc[s].declared => sc2[s].declared
       /\ sc[s].reads \subseteq sc2[s].reads
  /\ \A s \in 1..Len(sc2) : \A j \in DOMAIN sc2[s].writes :
       \/ /\ sc2[s].writes[j].at = n /\ ~sc2[s].writes[j].reassigned
          /\ s < Len(sc2) => sc2[s].captured
       \/ /\ s \in 1..Len(sc) /\ j \in DOMAIN sc[s].writes
          /\ sc2[s].writes[j].at = sc[s].writes[j].at
          /\ Settled(sc, s, j, body) => Settled(sc2, s, j, body2)
          /\ sc[s].captured /\ ~sc[s].writes[j].reassigned =>
               sc2[s].captured /\ ~sc2[s].writes[j].reassigned

SameLoop(fr, fr2) ==
  /\ fr.kind \in Loops /\ fr2.kind \in Loops /\ (fr.kind = "block" <=> fr2.kind = "block")
  /\ fr2.at = fr.at /\ fr2.scope = fr.scope /\ fr2.entry = fr.entry

\* Beside one at offset n, no loop is new.
LoopsStay(op, op2, n) ==
  \A i \in DOMAIN op2 : op2[i].kind \in Loops =>
    op2[i].at = n \/ \E k \in DOMAIN op : SameLoop(op[k], op2[i])

LEMMA SeenFollows ==
  ASSUME NEW sc \in Seq(Scope), NEW sc2 \in Seq(Scope), NEW op \in Seq(Frame), NEW op2 \in Seq(Frame),
         NEW X, NEW body, NEW body2, NEW n \in Nat, Follows(sc, sc2, body, body2, n),
         LoopsStay(op, op2, n), LoopsSeen(sc, op, X, body), n \notin X,
         \A k \in DOMAIN op : /\ op[k].scope \in 1..Len(sc)
                              /\ op[k].kind \in Loops => n \notin All(op[k].entry),
         \A i \in DOMAIN op2 : op2[i].scope \in 1..Len(sc2)
  PROVE  LoopsSeen(sc2, op2, X, body2)
<1>1. SUFFICES ASSUME NEW i \in DOMAIN op2, op2[i].kind \in Loops,
                      op2[i].at \in X
               PROVE  /\ op2[i].kind # "block" =>
                           \E s \in 1..op2[i].scope :
                             /\ sc2[s].declared /\ Reach(sc2, s, op2[i].scope)
                             /\ \E r \in sc2[s].reads : r >= op2[i].at
                      /\ \A s \in 1..Len(sc2) : \A j \in DOMAIN sc2[s].writes :
                           sc2[s].writes[j].at \in All(op2[i].entry) => Settled(sc2, s, j, body2)
  BY DEF LoopsSeen
<1>2. PICK k \in DOMAIN op : SameLoop(op[k], op2[i])
  BY <1>1 DEF LoopsStay
<1>3. /\ op[k].kind \in Loops /\ op[k].at = op2[i].at /\ op[k].scope = op2[i].scope
      /\ op[k].entry = op2[i].entry /\ (op[k].kind = "block" <=> op2[i].kind = "block")
  BY <1>2 DEF SameLoop
<1>4. /\ op2[i].kind # "block" =>
           \E s \in 1..op2[i].scope : /\ sc[s].declared /\ Reach(sc, s, op2[i].scope)
                                     /\ \E r \in sc[s].reads : r >= op2[i].at
      /\ \A s \in 1..Len(sc) : \A j \in DOMAIN sc[s].writes :
           sc[s].writes[j].at \in All(op2[i].entry) => Settled(sc, s, j, body)
  BY <1>1, <1>3 DEF LoopsSeen
<1>5. op2[i].scope \in 1..Len(sc) /\ op2[i].scope \in 1..Len(sc2) /\ n \notin All(op2[i].entry)
  BY <1>3
<1>6. ASSUME op2[i].kind # "block"
      PROVE  \E s \in 1..op2[i].scope :
               /\ sc2[s].declared /\ Reach(sc2, s, op2[i].scope)
               /\ \E r \in sc2[s].reads : r >= op2[i].at
  <2>1. PICK s \in 1..op2[i].scope : /\ sc[s].declared /\ Reach(sc, s, op2[i].scope)
                                     /\ \E r \in sc[s].reads : r >= op2[i].at
    BY <1>4, <1>6
  <2>2. Len(sc) \in Nat /\ Len(sc2) \in Nat /\ op2[i].scope \in Nat
    BY <1>5
  <2>3. \A t \in 1..op2[i].scope : t \in 1..Len(sc) /\ t <= Len(sc2)
    BY <1>5, <2>2
  <2>4. \A t \in 1..op2[i].scope : /\ sc2[t].hard = sc[t].hard
                                   /\ sc[t].declared => sc2[t].declared
                                   /\ sc[t].reads \subseteq sc2[t].reads
    BY <2>3 DEF Follows
  <2>5. \A t \in s + 1..op2[i].scope : t \in 1..op2[i].scope
    BY <2>2
  <2>6. Reach(sc2, s, op2[i].scope)
    BY <2>1, <2>4, <2>5 DEF Reach
  <2>7. QED
    BY <2>1, <2>4, <2>6
<1>7. ASSUME NEW s \in 1..Len(sc2), NEW j \in DOMAIN sc2[s].writes,
             sc2[s].writes[j].at \in All(op2[i].entry)
      PROVE  Settled(sc2, s, j, body2)
  <2>1. /\ s \in 1..Len(sc) /\ j \in DOMAIN sc[s].writes
        /\ sc2[s].writes[j].at = sc[s].writes[j].at
        /\ Settled(sc, s, j, body) => Settled(sc2, s, j, body2)
    BY <1>5, <1>7 DEF Follows
  <2>2. QED
    BY <1>4, <1>7, <2>1
<1>8. QED
  BY <1>6, <1>7

LEMMA LateFollows ==
  ASSUME NEW sc \in Seq(Scope), NEW sc2 \in Seq(Scope), NEW op \in Seq(Frame), NEW op2 \in Seq(Frame),
         NEW body, NEW body2, NEW n \in Nat, Follows(sc, sc2, body, body2, n),
         LoopsStay(op, op2, n), Late(sc, op),
         \A i \in DOMAIN op2 : op2[i].kind = "block" => op2[i].scope \in 1..Len(sc2) - 1,
         \A s \in 1..Len(sc2) : \A j \in DOMAIN sc2[s].writes : sc2[s].writes[j].at <= n
  PROVE  Late(sc2, op2)
<1>1. SUFFICES ASSUME NEW b \in DOMAIN op2, op2[b].kind = "block", NEW s \in 1..op2[b].scope,
                      NEW j \in DOMAIN sc2[s].writes, sc2[s].writes[j].at > op2[b].at
               PROVE  sc2[s].captured /\ ~sc2[s].writes[j].reassigned
  BY DEF Late
<1>2. s \in 1..Len(sc2) /\ s < Len(sc2) /\ Len(sc2) \in Nat
  BY <1>1
<1>3. sc2[s].writes[j].at \in Nat /\ op2[b].at \in Nat /\ op2[b].at # n
  <2>1. sc2[s].writes[j].at \in Nat /\ op2[b].at \in Nat /\ sc2[s].writes[j].at <= n
    BY <1>2, WriteTypes, FrameTypes
  <2>2. QED
    BY <1>1, <2>1
<1>4. PICK k \in DOMAIN op : SameLoop(op[k], op2[b])
  BY <1>1, <1>3 DEF LoopsStay, Loops
<1>5. op[k].kind = "block" /\ op[k].at = op2[b].at /\ op[k].scope = op2[b].scope
  BY <1>1, <1>4 DEF SameLoop
<1>6. CASE sc2[s].writes[j].at = n /\ ~sc2[s].writes[j].reassigned /\ sc2[s].captured
  BY <1>6
<1>7. CASE /\ s \in 1..Len(sc) /\ j \in DOMAIN sc[s].writes
           /\ sc2[s].writes[j].at = sc[s].writes[j].at
           /\ sc[s].captured /\ ~sc[s].writes[j].reassigned =>
                sc2[s].captured /\ ~sc2[s].writes[j].reassigned
  <2>1. sc[s].captured /\ ~sc[s].writes[j].reassigned
    BY <1>1, <1>5, <1>7 DEF Late
  <2>2. QED
    BY <1>7, <2>1
<1>8. QED
  BY <1>2, <1>6, <1>7 DEF Follows

LEMMA AroundFollows ==
  ASSUME Inv, Inv', LiveInv, LiveInv', PlacedInv, PlacedInv', TrackedInv, Top > 0, scopes' # <<>>,
         NEW sc \in Seq(Scope), Len(sc) = Len(scopes), NEW X, NEW body, LoopsSeen(sc, open, X, body),
         Late(sc, open), Follows(sc, scopes', body, seen'.body, pos),
         LoopsStay(open, open', pos), pos' \in {pos, pos + 1},
         X = seen'.plain \union seen'.raised, pos \notin X,
         RSeenOK(scopes', pos', reported', seen'.around)
  PROVE  AroundInv'
<1>1. /\ open \in Seq(Frame) /\ pos \in Nat
      /\ \A k \in DOMAIN open : /\ open[k].scope \in 1..Len(sc) /\ open[k].at \in Nat
                                /\ open[k].at < pos
  BY RaisedTypes
<1>2. ASSUME NEW k \in DOMAIN open, open[k].kind \in Loops
      PROVE  pos \notin All(open[k].entry)
  <2>1. \A x \in All(open[k].entry) : x < open[k].at
    BY <1>2 DEF TrackedInv, TrackedIn
  <2>2. ~ pos < open[k].at
    BY <1>1
  <2>3. QED
    BY <2>1, <2>2
<1>3. /\ scopes' \in Seq(Scope) /\ open' \in Seq(Frame) /\ pos' \in Nat
      /\ NestOK(Len(scopes'), open', pos') /\ WritesOK(scopes', open', pos')
      /\ \A i \in DOMAIN open' : open'[i].scope \in 1..Len(scopes')
  BY NextTypes
<1>4. LoopsSeen(scopes', open', X, seen'.body)
  BY <1>1, <1>2, <1>3, SeenFollows
<1>5. ASSUME NEW i \in DOMAIN open', open'[i].kind = "block"
      PROVE  open'[i].scope \in 1..Len(scopes') - 1
  <2>1. open'[i].scope \in 1..Len(scopes') /\ open'[i].scope < Len(scopes')
    BY <1>3, <1>5, NestFacts DEF Scoping
  <2>2. Len(scopes') \in Nat
    BY <1>3
  <2>3. QED
    BY <2>1, <2>2
<1>6. ASSUME NEW s \in 1..Len(scopes'), NEW j \in DOMAIN scopes'[s].writes
      PROVE  scopes'[s].writes[j].at <= pos
  <2>1. scopes'[s].writes[j].at < pos' /\ scopes'[s].writes[j].at \in Nat
    BY <1>3, WriteTypes DEF WritesOK
  <2>2. QED
    BY <1>1, <2>1
<1>7. Late(scopes', open')
  BY <1>1, <1>3, <1>5, <1>6, LateFollows
<1>8. QED
  BY <1>4, <1>7 DEF AroundInv

\* Reads are noted in the variable that is read, and nowhere else.
LEMMA ReadsOf ==
  ASSUME Inv
  PROVE  /\ Declaring # {} =>
              /\ pos \in Referenced[Home].reads
              /\ \A s \in 1..Len(scopes) : scopes[s].reads \subseteq Referenced[s].reads
         /\ \A start : \A s \in 1..Len(scopes) : LoopMarked(start)[s].reads = scopes[s].reads
         /\ \A sc \in Seq(Scope) : \A p, modifier : \A s \in 1..Len(sc) :
              Len(sc) = Len(scopes) => Assigned(sc, p, modifier)[s].reads = sc[s].reads
<1>1. scopes \in Seq(Scope)
  BY DEF Inv, TypeOK
<1>2. ASSUME Declaring # {}
      PROVE  /\ pos \in Referenced[Home].reads
             /\ \A s \in 1..Len(scopes) : scopes[s].reads \subseteq Referenced[s].reads
  <2>1. Home \in 1..Len(scopes)
    BY <1>2, HomeDeclares DEF Inv
  <2>2. PICK v : Referenced = [scopes EXCEPT ![Home] = v] /\ v.reads = scopes[Home].reads \union {pos}
    <3>1. scopes[Home] \in Scope
      BY <1>1, <2>1
    <3> DEFINE w == [j \in DOMAIN scopes[Home].writes |->
                      [scopes[Home].writes[j] EXCEPT !.referenced =
                         @ \/ Reaches(scopes[Home].writes, Home, Relevant(path, Home), j)]]
               v == [scopes[Home] EXCEPT !.captured = @ \/ Home # Top,
                                         !.reads = @ \union {pos}, !.writes = w]
    <3>2. Referenced = [scopes EXCEPT ![Home] = v]
      BY DEF Referenced
    <3> HIDE DEF w
    <3>3. v.reads = scopes[Home].reads \union {pos}
      BY <3>1 DEF Scope
    <3>4. QED
      BY <3>2, <3>3
  <2>3. \A s \in 1..Len(scopes) : Referenced[s] = IF s = Home THEN v ELSE scopes[s]
    BY <1>1, <2>2
  <2>4. QED
    BY <2>1, <2>2, <2>3
<1>3. ASSUME NEW start, NEW s \in 1..Len(scopes)
      PROVE  LoopMarked(start)[s].reads = scopes[s].reads
  <2>1. CASE Declaring = {} \/ \A r \in scopes[Home].reads : r < start
    BY <2>1 DEF LoopMarked
  <2>2. CASE ~(Declaring = {} \/ \A r \in scopes[Home].reads : r < start)
    <3>1. Home \in 1..Len(scopes)
      BY <2>2, HomeDeclares DEF Inv
    <3>2. scopes[Home] \in Scope
      BY <1>1, <3>1
    <3> DEFINE w == [j \in DOMAIN scopes[Home].writes |->
                      [scopes[Home].writes[j] EXCEPT !.referenced =
                        @ \/ (/\ scopes[Home].writes[j].at > start
                              /\ \/ j = Len(scopes[Home].writes)
                                 \/ \E k \in DOMAIN scopes[Home].writes[j].path :
                                      scopes[Home].writes[j].path[k].back)]]
               v == [scopes[Home] EXCEPT !.writes = w]
    <3>3. LoopMarked(start) = [scopes EXCEPT ![Home] = v]
      BY <2>2 DEF LoopMarked
    <3> HIDE DEF w
    <3>4. v.reads = scopes[Home].reads
      BY <3>2 DEF Scope
    <3> HIDE DEF v
    <3>5. QED
      BY <1>1, <3>1, <3>3, <3>4
  <2>3. QED
    BY <2>1, <2>2
<1>4. ASSUME NEW sc \in Seq(Scope), NEW p, NEW modifier, NEW s \in 1..Len(sc),
             Len(sc) = Len(scopes)
      PROVE  Assigned(sc, p, modifier)[s].reads = sc[s].reads
  <2> DEFINE t == IF Declaring = {} THEN Top ELSE Home
  <2>1. t \in 1..Len(sc)
    <3>1. Len(sc) \in Nat /\ Len(sc) # 0 /\ Top = Len(sc)
      BY <1>4 DEF Top
    <3>2. Declaring # {} => Home \in 1..Len(sc)
      BY <1>4, HomeDeclares DEF Inv
    <3>3. QED
      BY <3>1, <3>2
  <2>2. sc[t] \in Scope
    BY <2>1
  <2>3. PICK d, c, w : Assigned(sc, p, modifier) =
                 [sc EXCEPT ![t] = [sc[t] EXCEPT !.declared = d, !.captured = c, !.writes = w]]
    BY DEF Assigned
  <2> DEFINE v == [sc[t] EXCEPT !.declared = d, !.captured = c, !.writes = w]
  <2>4. v.reads = sc[t].reads
    BY <2>2 DEF Scope
  <2>5. Assigned(sc, p, modifier) = [sc EXCEPT ![t] = v]
    BY <2>3
  <2> HIDE DEF v, t
  <2>6. QED
    BY <2>1, <2>4, <2>5
<1>5. QED
  BY <1>2, <1>3, <1>4

\* What marks the assignments, ...
LEMMA FollowsMilder ==
  ASSUME NEW sc \in Seq(Scope), NEW sc2 \in Seq(Scope), Milder(sc, sc2),
         \A s \in 1..Len(sc) : sc[s].reads \subseteq sc2[s].reads, NEW body, NEW n
  PROVE  Follows(sc, sc2, body, body, n)
<1>1. Len(sc2) = Len(sc)
  BY DEF Milder
<1>2. \A s \in 1..Len(sc) : /\ sc2[s].hard = sc[s].hard
                            /\ sc[s].declared => sc2[s].declared
                            /\ sc[s].reads \subseteq sc2[s].reads
  BY DEF Milder
<1>3. ASSUME NEW s \in 1..Len(sc2), NEW j \in DOMAIN sc2[s].writes
      PROVE  /\ s \in 1..Len(sc) /\ j \in DOMAIN sc[s].writes
             /\ sc2[s].writes[j].at = sc[s].writes[j].at
             /\ Settled(sc, s, j, body) => Settled(sc2, s, j, body)
             /\ sc[s].captured /\ ~sc[s].writes[j].reassigned =>
                  sc2[s].captured /\ ~sc2[s].writes[j].reassigned
  <2>1. s \in 1..Len(sc) /\ j \in DOMAIN sc[s].writes
    BY <1>1, <1>3 DEF Milder
  <2>2. /\ sc2[s].writes[j].at = sc[s].writes[j].at
        /\ sc2[s].writes[j].reassigned = sc[s].writes[j].reassigned
        /\ sc[s].captured => sc2[s].captured
    BY <2>1 DEF Milder
  <2>3. Settled(sc, s, j, body) => Settled(sc2, s, j, body)
    BY <2>1, MilderSettled
  <2>4. QED
    BY <2>1, <2>2, <2>3
<1>4. QED
  BY <1>2, <1>3 DEF Follows

\* ... adds one, ...
LEMMA FollowsAdds ==
  ASSUME NEW sc \in Seq(Scope), NEW sc2 \in Seq(Scope), NEW s \in 1..Len(sc),
         NEW n, NEW p, NEW modifier, Adds(sc, sc2, s, n, p, modifier),
         \A t \in 1..Len(sc) : sc[t].reads \subseteq sc2[t].reads,
         NEW body, NEW body2, body2 \subseteq body \union {n},
         \A t \in 1..Len(sc) : \A j \in DOMAIN sc[t].writes : sc[t].writes[j].at # n
  PROVE  Follows(sc, sc2, body, body2, n)
<1>1. Len(sc2) = Len(sc)
  BY DEF Adds
<1>2. \A t \in 1..Len(sc) : /\ sc2[t].hard = sc[t].hard
                            /\ sc[t].declared => sc2[t].declared
                            /\ sc[t].reads \subseteq sc2[t].reads
  BY DEF Adds
<1> DEFINE l == Len(sc[s].writes)
<1>3. /\ l \in Nat /\ DOMAIN sc[s].writes = 1..l /\ DOMAIN sc2[s].writes = 1..l + 1
      /\ sc2[s].writes[l + 1].at = n /\ ~sc2[s].writes[l + 1].reassigned
      /\ s # Len(sc) => sc2[s].captured
      /\ \A k \in 1..l :
           /\ sc2[s].writes[k].at = sc[s].writes[k].at
           /\ sc2[s].captured /\ ~sc[s].writes[k].reassigned => ~sc2[s].writes[k].reassigned
      /\ sc[s].captured => sc2[s].captured
  <2>1. l \in Nat /\ DOMAIN sc[s].writes = 1..l
    BY WriteTypes
  <2>2. Len(sc2) = Len(sc) /\ Len(sc2[s].writes) = l + 1
    BY DEF Adds
  <2>3. DOMAIN sc2[s].writes = 1..l + 1
    BY <2>2, WriteTypes
  <2>4. sc2[s].writes[l + 1].at = n /\ ~sc2[s].writes[l + 1].reassigned
    BY DEF Adds
  <2>5. \A k \in 1..l :
          /\ sc2[s].writes[k].at = sc[s].writes[k].at
          /\ sc2[s].captured /\ ~sc[s].writes[k].reassigned => ~sc2[s].writes[k].reassigned
    BY DEF Adds
  <2>6. (sc[s].captured => sc2[s].captured) /\ (s # Len(sc) => sc2[s].captured)
    BY DEF Adds
  <2>7. QED
    BY <2>1, <2>3, <2>4, <2>5, <2>6
<1> HIDE DEF l
<1>4. ASSUME NEW t \in 1..Len(sc2), NEW j \in DOMAIN sc2[t].writes
      PROVE  \/ /\ sc2[t].writes[j].at = n /\ ~sc2[t].writes[j].reassigned
                /\ t < Len(sc2) => sc2[t].captured
             \/ /\ t \in 1..Len(sc) /\ j \in DOMAIN sc[t].writes
                /\ sc2[t].writes[j].at = sc[t].writes[j].at
                /\ Settled(sc, t, j, body) => Settled(sc2, t, j, body2)
                /\ sc[t].captured /\ ~sc[t].writes[j].reassigned =>
                     sc2[t].captured /\ ~sc2[t].writes[j].reassigned
  <2>1. t \in 1..Len(sc)
    BY <1>1, <1>4
  <2>2. CASE t = s /\ j = l + 1
    <3>1. t < Len(sc2) => s # Len(sc)
      BY <1>1, <2>2
    <3>2. QED
      BY <1>3, <2>2, <3>1
  <2>3. CASE ~(t = s /\ j = l + 1)
    <3>1. j \in DOMAIN sc[t].writes
      <4>1. CASE t = s
        BY <1>3, <1>4, <2>3, <4>1
      <4>2. CASE t # s
        BY <1>4, <2>1, <4>2 DEF Adds
      <4>3. QED
        BY <4>1, <4>2
    <3>2. sc[t].writes[j].at # n
      BY <2>1, <3>1
    <3>3. Settled(sc, t, j, body) => Settled(sc2, t, j, body2)
      BY <2>1, <3>1, <3>2, AddsSettled
    <3>4. /\ sc2[t].writes[j].at = sc[t].writes[j].at
          /\ sc[t].captured /\ ~sc[t].writes[j].reassigned =>
               sc2[t].captured /\ ~sc2[t].writes[j].reassigned
      <4>1. CASE t = s
        BY <1>3, <3>1, <4>1
      <4>2. CASE t # s
        BY <2>1, <4>2 DEF Adds
      <4>3. QED
        BY <4>1, <4>2
    <3>5. QED
      BY <2>1, <3>1, <3>3, <3>4
  <2>4. QED
    BY <2>2, <2>3
<1>5. QED
  BY <1>2, <1>4 DEF Follows

\* ... opens a scope or leaves some.
LEMMA FollowsScopes ==
  ASSUME NEW sc \in Seq(Scope), NEW sc2 \in Seq(Scope),
         \A s \in 1..Len(sc2) : \/ s \in 1..Len(sc) /\ sc2[s] = sc[s]
                                \/ s \notin 1..Len(sc) /\ sc2[s].writes = <<>>,
         NEW body, NEW n
  PROVE  Follows(sc, sc2, body, body, n)
<1>1. \A s \in 1..Len(sc) : s <= Len(sc2) => s \in 1..Len(sc2) /\ sc2[s] = sc[s]
  OBVIOUS
<1>2. \A s \in 1..Len(sc2) : \A j \in DOMAIN sc2[s].writes :
        s \in 1..Len(sc) /\ sc2[s] = sc[s]
  OBVIOUS
<1>3. \A s \in 1..Len(sc2) : \A j \in DOMAIN sc2[s].writes :
        Settled(sc, s, j, body) => Settled(sc2, s, j, body)
  BY <1>2 DEF Settled
<1>4. QED
  BY <1>1, <1>2, <1>3 DEF Follows

\* The end of a loop in which x is read marks its last assignment and those on a conditional
\* branch.
LEMMA LoopMarks ==
  ASSUME Inv, NEW start \in Nat, Declaring # {}, NEW r \in scopes[Home].reads, r >= start,
         NEW j \in DOMAIN scopes[Home].writes, scopes[Home].writes[j].at > start,
         \/ j = Len(scopes[Home].writes)
         \/ \E k \in DOMAIN scopes[Home].writes[j].path : scopes[Home].writes[j].path[k].back
  PROVE  LoopMarked(start)[Home].writes[j].referenced
<1> DEFINE ws == scopes[Home].writes
           m == [k \in DOMAIN ws |-> /\ ws[k].at > start
                                     /\ \/ k = Len(ws)
                                        \/ \E i \in DOMAIN ws[k].path : ws[k].path[i].back]
           w == [k \in DOMAIN ws |-> [ws[k] EXCEPT !.referenced = @ \/ m[k]]]
           v == [scopes[Home] EXCEPT !.writes = w]
<1>1. scopes \in Seq(Scope) /\ Home \in 1..Len(scopes)
  BY HomeDeclares DEF Inv, TypeOK
<1>2. scopes[Home] \in Scope /\ ws[j] \in Assignment /\ scopes[Home].reads \subseteq Nat
  <2>1. scopes[Home] \in Scope /\ ws[j] \in Assignment
    BY <1>1, WriteTypes
  <2>2. QED
    BY <2>1 DEF Scope
<1>3. ~(Declaring = {} \/ \A q \in scopes[Home].reads : q < start)
  BY <1>2
<1>4. LoopMarked(start) = [scopes EXCEPT ![Home] = v]
  BY <1>3 DEF LoopMarked
<1>5. m[j]
  OBVIOUS
<1> HIDE DEF m
<1>6. w[j].referenced
  BY <1>2, <1>5 DEF Assignment
<1> HIDE DEF w
<1>7. v.writes = w
  BY <1>2 DEF Scope
<1> HIDE DEF v
<1>8. QED
  BY <1>1, <1>4, <1>6, <1>7

\* The loops that the walk is inside of, behind a node, ...
LEMMA StayPassed ==
  ASSUME Inv, NEW f, Passed(f)
  PROVE  LoopsStay(open, open', pos)
<1>1. open \in Seq(Frame) /\ open' = Raising(f)
  BY DEF Inv, TypeOK, Passed
<1>2. /\ DOMAIN open' = DOMAIN open
      /\ \A i \in DOMAIN open : SameFrame(open[i], open'[i])
  BY <1>1, RaisingSame
<1>3. QED
  BY <1>2 DEF LoopsStay, SameLoop, SameFrame

\* ... into a construct, ...
LEMMA StayEntered ==
  ASSUME Inv, NEW kind \in Kinds, NEW p2, NEW before \in Flow, NEW f, Enters(kind, p2, before, f)
  PROVE  LoopsStay(open, open', pos)
<1>1. /\ open \in Seq(Frame) /\ Opened(kind, before) \in Frame
      /\ open' = Append(open, Opened(kind, before))
  BY Entered DEF Inv, TypeOK
<1>2. /\ open'[Len(open) + 1] = Opened(kind, before)
      /\ \A i \in DOMAIN open' : i # Len(open) + 1 => i \in DOMAIN open /\ open'[i] = open[i]
  BY <1>1, Under
<1>3. Opened(kind, before).at = pos
  BY DEF Opened
<1>4. QED
  BY <1>2, <1>3 DEF LoopsStay, SameLoop

\* ... in another part of it, ...
LEMMA StayTurned ==
  ASSUME Inv, open # <<>>, SamePlace, Last'.kind \in Loops => Last.kind \in Loops,
         Last'.kind = "block" <=> Last.kind = "block",
         Last'.kind \in Loops => Last'.entry = Last.entry
  PROVE  LoopsStay(open, open', pos)
<1>1. open \in Seq(Frame) /\ Last' \in Frame /\ open' = [open EXCEPT ![Len(open)] = Last']
      /\ Last'.at = Last.at /\ Last'.scope = Last.scope
  BY DEF Inv, TypeOK, SamePlace, Turns
<1>2. /\ Len(open) \in DOMAIN open /\ DOMAIN open' = DOMAIN open
      /\ open'[Len(open)] = Last'
      /\ \A i \in DOMAIN open : i # Len(open) => open'[i] = open[i]
  BY <1>1, Turned
<1>3. ASSUME NEW i \in DOMAIN open', open'[i].kind \in Loops
      PROVE  \E k \in DOMAIN open : SameLoop(open[k], open'[i])
  <2>1. CASE i = Len(open)
    <3>1. open'[i] = Last' /\ open[i] = Last
      BY <1>2, <2>1 DEF Last
    <3>2. SameLoop(Last, Last')
      BY <1>1, <1>3, <3>1 DEF SameLoop
    <3>3. QED
      BY <1>2, <2>1, <3>1, <3>2
  <2>2. CASE i # Len(open)
    BY <1>2, <1>3, <2>2 DEF SameLoop
  <2>3. QED
    BY <2>1, <2>2
<1>4. QED
  BY <1>3 DEF LoopsStay

\* ... and out of it.
LEMMA StayLeft ==
  ASSUME Inv, open # <<>>, NEW f, Leaves(f)
  PROVE  LoopsStay(open, open', pos)
<1>1. open \in Seq(Frame) /\ open' = SubSeq(open, 1, Len(open) - 1)
  BY DEF Inv, TypeOK, Leaves
<1>2. \A i \in DOMAIN open' : i \in DOMAIN open /\ open'[i] = open[i]
  BY <1>1, Left
<1>3. QED
  BY <1>2 DEF LoopsStay, SameLoop

\* What the invariants say where there is a scope.
LEMMA AroundHere ==
  ASSUME Inv, LiveInv, PlacedInv, RaisedInv, TrackedInv, AroundInv, Top > 0
  PROVE  /\ scopes \in Seq(Scope) /\ scopes # <<>> /\ open \in Seq(Frame) /\ pos \in Nat
         /\ LoopsSeen(scopes, open, seen.plain \union seen.raised, seen.body) /\ Late(scopes, open)
         /\ pos \notin seen.plain \union seen.raised
         /\ seen.around \subseteq Nat /\ RSeenOK(scopes, pos, reported, seen.around)
         /\ \A k \in DOMAIN open : /\ open[k].scope \in 1..Len(scopes) /\ open[k].at \in Nat
                                   /\ open[k].at < pos
         /\ \A k \in DOMAIN open : open[k].kind \in Loops => pos \notin All(open[k].entry)
         /\ \A s \in 1..Len(scopes) : \A j \in DOMAIN scopes[s].writes :
              scopes[s].writes[j].at # pos
<1>1. /\ scopes \in Seq(Scope) /\ scopes # <<>> /\ open \in Seq(Frame) /\ pos \in Nat
      /\ \A k \in DOMAIN open : /\ open[k].scope \in 1..Len(scopes) /\ open[k].at \in Nat
                                /\ open[k].at < pos
      /\ Alive(scopes, open, path, pos, reported, seen, flow.plain)
  BY RaisedTypes
<1>2. /\ LoopsSeen(scopes, open, seen.plain \union seen.raised, seen.body)
      /\ Late(scopes, open) /\ RSeenOK(scopes, pos, reported, seen.around)
  BY <1>1 DEF AroundInv
<1>3. seen.around \subseteq Nat
  BY DEF Inv, TypeOK
<1>4. pos \notin seen.plain \union seen.raised
  <2>1. /\ \A x \in seen.plain : x < pos
        /\ \A x \in seen.raised : x < pos
    BY <1>1 DEF Alive, SeenOK, RaisedInv, RSeenOK, Unreported
  <2>2. QED
    BY <1>1, <2>1
<1>5. ASSUME NEW k \in DOMAIN open, open[k].kind \in Loops
      PROVE  pos \notin All(open[k].entry)
  <2>1. \A x \in All(open[k].entry) : x < open[k].at
    BY <1>5 DEF TrackedInv, TrackedIn
  <2>2. ~ pos < open[k].at
    BY <1>1
  <2>3. QED
    BY <2>1, <2>2
<1>6. \A s \in 1..Len(scopes) : \A j \in DOMAIN scopes[s].writes : scopes[s].writes[j].at # pos
  BY <1>1, Stands
<1>7. QED
  BY <1>1, <1>2, <1>3, <1>4, <1>5, <1>6

\* A step on which the table does not change.
LEMMA QuietAround ==
  ASSUME Inv, Inv', LiveInv, LiveInv', PlacedInv, PlacedInv', RaisedInv, TrackedInv, AroundInv,
         Top > 0, UNCHANGED <<scopes, reported, seen>>, LoopsStay(open, open', pos),
         pos' \in {pos, pos + 1}
  PROVE  AroundInv'
<1>1. /\ scopes \in Seq(Scope) /\ scopes # <<>> /\ pos \in Nat
      /\ LoopsSeen(scopes, open, seen.plain \union seen.raised, seen.body) /\ Late(scopes, open)
      /\ pos \notin seen.plain \union seen.raised
      /\ seen.around \subseteq Nat /\ RSeenOK(scopes, pos, reported, seen.around)
  BY AroundHere
<1>2. Milder(scopes, scopes)
  BY DEF Milder
<1>3. RSeenOK(scopes', pos', reported', seen'.around)
  <2>1. RSeenOK(scopes, pos', reported, seen.around)
    BY <1>1, <1>2, MilderRSeen
  <2>2. QED
    BY <2>1
<1>4. Follows(scopes, scopes', seen.body, seen'.body, pos)
  <2>1. Follows(scopes, scopes, seen.body, seen.body, pos)
    BY <1>1, <1>2, FollowsMilder
  <2>2. QED
    BY <2>1
<1>5. QED
  BY <1>1, <1>3, <1>4, AroundFollows

\* A loop that left something where the walk is, is in the scope h or in one inside it, if the
\* construct of that scope lets nothing through.
LEMMA LoopWithin ==
  ASSUME Inv, LiveInv, PlacedInv, TrackedInv, Top > 0, NEW h \in 1..Len(scopes),
         \A b \in DOMAIN open : open[b].kind = "block" => open[b].scope + 1 # h,
         NEW i \in DOMAIN open, open[i].kind \in Loops, open[i].kind # "block",
         open[i].at \in All(flow)
  PROVE  h <= open[i].scope
<1>1. /\ scopes \in Seq(Scope) /\ open \in Seq(Frame) /\ Len(scopes) \in Nat
      /\ open[i].scope \in 1..Len(scopes)
      /\ NestOK(Len(scopes), open, pos) /\ Place(open, Len(scopes), path, Len(open) + 1)
  BY RaisedTypes
<1>2. SUFFICES ASSUME ~(h <= open[i].scope)
               PROVE  FALSE
  OBVIOUS
<1> DEFINE g == h - 1
<1>3. g \in 1..Len(scopes) - 1 /\ open[i].scope <= g /\ g + 1 = h
  BY <1>1, <1>2
<1> HIDE DEF g
<1>4. PICK b \in DOMAIN open : /\ b < Len(open) + 1 /\ open[b].kind \in Scoping
                               /\ open[b].scope = g
  BY ONLY <1>1, <1>3 DEF Place
<1>5. i <= b
  BY ONLY <1>1, <1>3, <1>4, i \in DOMAIN open, Nested
<1>6. i # b
  BY <1>4 DEF Loops, Scoping
<1>7. open[i].at < open[b].at
  <2>1. i < b
    BY <1>1, <1>4, <1>5, <1>6, FrameTypes
  <2>2. QED
    BY <1>1, <2>1 DEF NestOK
<1>8. open[b].kind # "block"
  BY <1>3, <1>4
<1>9. Older(open[b], flow)
  BY DEF TrackedInv, TrackedIn, Tracked
<1>10. open[b].kind \in {"own", "def", "class"}
  BY <1>4, <1>8 DEF Scoping
<1>11. Olds(open[b]).plain = {} /\ Olds(open[b]).raised = {}
  BY <1>10 DEF Olds, Loops, NoFlow
<1>12. QED
  BY <1>7, <1>9, <1>10, <1>11 DEF Older, All

\* A read in a loop that sees what an earlier run of it left sees what the loop found there,
\* too: it marks what an exception does not hide from it, and is itself in the loop.
LEMMA ReadSeesLoops ==
  ASSUME Inv, LiveInv, PlacedInv, RaisedInv, TrackedInv, AroundInv, Declaring # {}, Top > 0
  PROVE  LoopsSeen(Referenced, open, Sees.plain \union Sees.raised, seen.body)
<1>1. /\ scopes \in Seq(Scope) /\ scopes # <<>> /\ open \in Seq(Frame) /\ pos \in Nat
      /\ LoopsSeen(scopes, open, seen.plain \union seen.raised, seen.body)
      /\ pos \notin seen.plain \union seen.raised
      /\ \A k \in DOMAIN open : /\ open[k].scope \in 1..Len(scopes) /\ open[k].at \in Nat
                                /\ open[k].at < pos
      /\ \A k \in DOMAIN open : open[k].kind \in Loops => pos \notin All(open[k].entry)
  BY AroundHere
<1>2. /\ Referenced \in Seq(Scope) /\ Milder(scopes, Referenced) /\ Len(Referenced) = Len(scopes)
      /\ pos \in Referenced[Home].reads
      /\ \A s \in 1..Len(scopes) : scopes[s].reads \subseteq Referenced[s].reads
  BY ReferencedIsMilder, ReadsOf DEF Milder
<1>3. LoopsSeen(Referenced, open, seen.plain \union seen.raised, seen.body)
  <2>1. Follows(scopes, Referenced, seen.body, seen.body, pos)
    BY <1>1, <1>2, FollowsMilder
  <2>2. LoopsStay(open, open, pos)
    BY DEF LoopsStay, SameLoop
  <2>3. \A i \in DOMAIN open : open[i].scope \in 1..Len(Referenced)
    BY <1>1, <1>2
  <2> DEFINE X == seen.plain \union seen.raised
  <2>4. LoopsSeen(scopes, open, X, seen.body) /\ pos \notin X
    BY <1>1
  <2> HIDE DEF X
  <2>5. LoopsSeen(Referenced, open, X, seen.body)
    BY <1>1, <1>2, <2>1, <2>2, <2>3, <2>4, SeenFollows
  <2>6. QED
    BY <2>5 DEF X
<1>4. /\ Sees.plain = seen.plain \union flow.plain
      /\ Sees.raised = seen.raised \union (flow.raised \ Hidden)
  BY SeesPlain, BodyOf DEF Inv
<1>5. SUFFICES ASSUME NEW i \in DOMAIN open, open[i].kind \in Loops, open[i].at \in All(flow)
               PROVE  /\ open[i].kind # "block" =>
                           \E s \in 1..open[i].scope :
                             /\ Referenced[s].declared /\ Reach(Referenced, s, open[i].scope)
                             /\ \E r \in Referenced[s].reads : r >= open[i].at
                      /\ \A s \in 1..Len(Referenced) : \A j \in DOMAIN Referenced[s].writes :
                           Referenced[s].writes[j].at \in All(open[i].entry)
                             => Settled(Referenced, s, j, seen.body)
  BY <1>3, <1>4 DEF LoopsSeen, All
<1>6. Tracked(open[i], flow)
  BY DEF TrackedInv, TrackedIn
<1>7. All(open[i].entry) \subseteq All(flow)
  BY <1>5, <1>6 DEF Tracked, Together, All
<1>8. ASSUME NEW s \in 1..Len(Referenced), NEW j \in DOMAIN Referenced[s].writes,
             Referenced[s].writes[j].at \in All(open[i].entry)
      PROVE  Settled(Referenced, s, j, seen.body)
  <2>1. s \in 1..Len(scopes) /\ j \in DOMAIN scopes[s].writes
        /\ Referenced[s].writes[j].at = scopes[s].writes[j].at
    BY <1>2, <1>8 DEF Milder
  <2>2. scopes[s].writes[j].at \in All(flow)
    BY <1>7, <1>8, <2>1
  <2>3. CASE scopes[s].writes[j].at \in flow.raised
    BY <2>1, <2>3, ReadSettles
  <2>4. CASE scopes[s].writes[j].at \in flow.plain
    <3>1. SeenOK(Referenced, pos, reported, Sees)
      BY ReadAlive DEF Alive
    <3>2. Referenced[s].writes[j].at \in Sees.plain
      BY <1>4, <2>1, <2>4
    <3>3. QED
      BY <1>8, <3>1, <3>2 DEF SeenOK, Settled
  <2>5. QED
    BY <2>2, <2>3, <2>4 DEF All
<1>9. ASSUME open[i].kind # "block"
      PROVE  \E s \in 1..open[i].scope :
               /\ Referenced[s].declared /\ Reach(Referenced, s, open[i].scope)
               /\ \E r \in Referenced[s].reads : r >= open[i].at
  <2>1. /\ Home \in 1..Len(scopes) /\ scopes[Home].declared /\ Home \in Declaring
        /\ Len(scopes) \in Nat /\ Top = Len(scopes) /\ open[i].scope \in 1..Len(scopes)
    BY <1>1, HomeDeclares DEF Inv, Top
  <2>2. Reach(scopes, Home, Len(scopes))
    BY <2>1 DEF Declaring, Accessible, Reach
  <2>3. Home <= open[i].scope
    <3>1. \A b \in DOMAIN open : open[b].kind = "block" => open[b].scope + 1 # Home
      BY <2>1, RaisedTypes DEF BlocksOK
    <3>2. QED
      BY <1>5, <1>9, <2>1, <3>1, LoopWithin
  <2>4. Home \in 1..open[i].scope
    BY <2>1, <2>3
  <2>5. Reach(scopes, Home, open[i].scope)
    BY <2>1, <2>2, <2>3 DEF Reach
  <2>6. Reach(Referenced, Home, open[i].scope)
    BY <1>1, <1>2, <2>1, <2>5, MilderReach
  <2>7. Referenced[Home].declared
    BY <1>2, <2>1 DEF Milder
  <2>8. pos >= open[i].at
    BY <1>1
  <2>9. QED
    BY <1>2, <2>4, <2>6, <2>7, <2>8
<1>10. QED
  BY <1>8, <1>9

LEMMA MilderLate ==
  ASSUME NEW sc \in Seq(Scope), NEW sc2 \in Seq(Scope), Milder(sc, sc2),
         NEW op \in Seq(Frame), Late(sc, op), \A k \in DOMAIN op : op[k].scope \in 1..Len(sc)
  PROVE  Late(sc2, op)
<1>1. SUFFICES ASSUME NEW b \in DOMAIN op, op[b].kind = "block", NEW s \in 1..op[b].scope,
                      NEW j \in DOMAIN sc2[s].writes, sc2[s].writes[j].at > op[b].at
               PROVE  sc2[s].captured /\ ~sc2[s].writes[j].reassigned
  BY DEF Late
<1>2. s \in 1..Len(sc)
  BY <1>1
<1>3. /\ j \in DOMAIN sc[s].writes /\ sc2[s].writes[j].at = sc[s].writes[j].at
      /\ sc2[s].writes[j].reassigned = sc[s].writes[j].reassigned
      /\ sc[s].captured => sc2[s].captured
  BY <1>1, <1>2 DEF Milder
<1>4. sc[s].captured /\ ~sc[s].writes[j].reassigned
  BY <1>1, <1>3 DEF Late
<1>5. QED
  BY <1>3, <1>4

\* What reads and assignments leave of the history.
LEMMA SeenOf ==
  ASSUME TypeOK
  PROVE  /\ \A sn \in Seen :
              /\ SeesWritten(sn).plain = sn.plain /\ SeesWritten(sn).raised = sn.raised
              /\ SeesWritten(sn).around = sn.around /\ SeesWritten(sn).body = sn.body
              /\ Wrote(sn) \in Seen /\ Wrote(sn).plain = sn.plain /\ Wrote(sn).raised = sn.raised
              /\ Wrote(sn).around = sn.around /\ Wrote(sn).body \subseteq sn.body \union {pos}
         /\ seen \in Seen /\ Sees \in Seen /\ Sees.around = seen.around /\ Sees.body = seen.body
<1>1. seen \in Seen /\ Sees \in Seen
  BY SeesTypes DEF TypeOK, Seen
<1>2. Sees.around = seen.around
  BY <1>1 DEF Sees, Seen
<1>3. \A sn \in Seen : SeesWritten(sn).around = sn.around
  BY DEF SeesWritten, Seen
<1>4. QED
  BY <1>1, <1>2, <1>3, SeesPlain, BodyOf, WroteTypes

\* An assignment, after a read or not.
LEMMA AssignsAround ==
  ASSUME Inv, Inv', LiveInv, LiveInv', PlacedInv, PlacedInv', RaisedInv, TrackedInv, AroundInv,
         Top > 0, NEW sc \in Seq(Scope), Milder(scopes, sc),
         \A s \in 1..Len(scopes) : scopes[s].reads \subseteq sc[s].reads,
         NEW p \in Seq(Context), NEW modifier \in BOOLEAN, scopes' = Assigned(sc, p, modifier),
         NEW X, X = seen'.plain \union seen'.raised, pos \notin X,
         LoopsSeen(sc, open, X, seen.body), seen'.around = seen.around,
         seen'.body \subseteq seen.body \union {pos}, UNCHANGED reported, pos' = pos + 1,
         LoopsStay(open, open', pos)
  PROVE  AroundInv'
<1>1. /\ scopes \in Seq(Scope) /\ scopes # <<>> /\ pos \in Nat /\ open \in Seq(Frame)
      /\ Late(scopes, open)
      /\ seen.around \subseteq Nat /\ RSeenOK(scopes, pos, reported, seen.around)
      /\ \A k \in DOMAIN open : open[k].scope \in 1..Len(scopes)
      /\ \A s \in 1..Len(scopes) : \A j \in DOMAIN scopes[s].writes : scopes[s].writes[j].at # pos
  BY AroundHere
<1>2. Extends(sc)
  BY MilderIsSafe
<1>3. /\ Target \in 1..Len(sc) /\ scopes' \in Seq(Scope)
      /\ Adds(sc, scopes', Target, pos, p, modifier)
  BY <1>2, AssignedAdds
<1>4. Len(sc) = Len(scopes) /\ Len(scopes') = Len(scopes) /\ scopes' # <<>>
  <2>1. Len(sc) = Len(scopes) /\ Len(scopes') = Len(sc)
    BY <1>3 DEF Adds, Milder
  <2>2. Len(scopes) # 0
    BY DEF Top
  <2>3. QED
    BY <2>1, <2>2, NotEmpty
<1>5. Late(sc, open)
  BY <1>1, MilderLate
<1>6. Follows(sc, scopes', seen.body, seen'.body, pos)
  <2>1. \A t \in 1..Len(sc) : sc[t].reads \subseteq scopes'[t].reads
    BY <1>4, ReadsOf
  <2>2. \A t \in 1..Len(sc) : \A j \in DOMAIN sc[t].writes : sc[t].writes[j].at # pos
    <3>1. SUFFICES ASSUME NEW t \in 1..Len(sc), NEW j \in DOMAIN sc[t].writes
                   PROVE  sc[t].writes[j].at # pos
      OBVIOUS
    <3>2. t \in 1..Len(scopes) /\ j \in DOMAIN scopes[t].writes
      BY DEF Milder
    <3>3. sc[t].writes[j].at = scopes[t].writes[j].at
      BY <3>2 DEF Milder
    <3>4. QED
      BY <1>1, <3>2, <3>3
  <2>3. QED
    BY <1>3, <2>1, <2>2, FollowsAdds
<1>7. RSeenOK(scopes', pos', reported', seen'.around)
  <2>1. RSeenOK(sc, pos, reported, seen.around)
    BY <1>1, MilderRSeen
  <2>2. RSeenOK(scopes', pos + 1, reported, seen.around)
    BY <1>1, <1>3, <2>1, AddsSeen
  <2>3. QED
    BY <2>2
<1>8. pos' \in {pos, pos + 1}
  OBVIOUS
<1>9. QED
  BY <1>4, <1>5, <1>6, <1>7, <1>8, AroundFollows

\* One that nothing is read with.
LEMMA WritesAround ==
  ASSUME Inv, Inv', LiveInv, LiveInv', PlacedInv, PlacedInv', RaisedInv, TrackedInv, AroundInv,
         Top > 0, NEW p \in Seq(Context), NEW modifier \in BOOLEAN,
         scopes' = Assigned(scopes, p, modifier),
         NEW sn \in Seen, sn.plain = seen.plain, sn.raised = seen.raised,
         sn.around = seen.around, sn.body \subseteq seen.body \union {pos},
         seen' = SeesWritten(sn), UNCHANGED reported, pos' = pos + 1,
         LoopsStay(open, open', pos)
  PROVE  AroundInv'
<1>1. /\ scopes \in Seq(Scope)
      /\ LoopsSeen(scopes, open, seen.plain \union seen.raised, seen.body)
      /\ pos \notin seen.plain \union seen.raised
  BY AroundHere
<1>2. Milder(scopes, scopes)
  BY DEF Milder
<1>3. /\ seen'.plain = seen.plain /\ seen'.raised = seen.raised
      /\ seen'.around = seen.around /\ seen'.body \subseteq seen.body \union {pos}
  BY SeenOf DEF Inv
<1>4. QED
  BY <1>1, <1>2, <1>3, AssignsAround

LEMMA WriteAround ==
  ASSUME Inv, Inv', LiveInv, LiveInv', PlacedInv, PlacedInv', RaisedInv, TrackedInv, AroundInv,
         Write
  PROVE  AroundInv'
<1>1. /\ Top > 0 /\ pos' = pos + 1 /\ scopes' = Assigned(scopes, path, FALSE)
      /\ seen' = SeesWritten(Wrote(seen)) /\ UNCHANGED reported
  BY DEF Write, Passed
<1>2. LoopsStay(open, open', pos)
  BY StayPassed DEF Write
<1>3. path \in Seq(Context)
  BY DEF Inv, TypeOK
<1>4. /\ Wrote(seen) \in Seen /\ Wrote(seen).plain = seen.plain /\ Wrote(seen).raised = seen.raised
      /\ Wrote(seen).around = seen.around /\ Wrote(seen).body \subseteq seen.body \union {pos}
  BY SeenOf DEF Inv
<1>5. QED
  BY <1>1, <1>2, <1>3, <1>4, WritesAround

LEMMA WriteModifiedAround ==
  ASSUME Inv, Inv', LiveInv, LiveInv', PlacedInv, PlacedInv', RaisedInv, TrackedInv, AroundInv,
         WriteModified
  PROVE  AroundInv'
<1> DEFINE p == Append(path, Branch(pos, 0, FALSE, TRUE))
<1>1. /\ Top > 0 /\ pos' = pos + 1 /\ scopes' = Assigned(scopes, p, TRUE)
      /\ seen' = SeesWritten(seen) /\ UNCHANGED reported
  BY DEF WriteModified, Passed
<1>2. LoopsStay(open, open', pos)
  BY StayPassed DEF WriteModified
<1>3. p \in Seq(Context)
  BY BranchType DEF Inv, TypeOK
<1> HIDE DEF p
<1>4. seen \in Seen
  BY SeenOf DEF Inv
<1>5. QED
  BY <1>1, <1>2, <1>3, <1>4, WritesAround

LEMMA CondModifiedAround ==
  ASSUME Inv, Inv', LiveInv, LiveInv', PlacedInv, PlacedInv', RaisedInv, TrackedInv, AroundInv,
         CondModified
  PROVE  AroundInv'
<1> DEFINE p == Append(path, Branch(pos, 0, FALSE, TRUE))
<1>1. /\ Enters("modifier", p, Written, Written) /\ scopes' = Assigned(scopes, path, TRUE)
      /\ seen' = SeesWritten(Wrote(seen)) /\ UNCHANGED reported
  BY DEF CondModified
<1> HIDE DEF p
<1>2. Top > 0 /\ pos' = pos + 1
  BY <1>1 DEF Enters
<1>3. LoopsStay(open, open', pos)
  <2>1. Written \in Flow /\ "modifier" \in Kinds
    BY FlowTypes DEF Inv, TypeOK, Kinds
  <2>2. QED
    BY <1>1, <2>1, StayEntered
<1>4. path \in Seq(Context)
  BY DEF Inv, TypeOK
<1>5. /\ Wrote(seen) \in Seen /\ Wrote(seen).plain = seen.plain /\ Wrote(seen).raised = seen.raised
      /\ Wrote(seen).around = seen.around /\ Wrote(seen).body \subseteq seen.body \union {pos}
  BY SeenOf DEF Inv
<1>6. QED
  BY <1>1, <1>2, <1>3, <1>4, <1>5, WritesAround

\* What a read sees.
LEMMA ReadHere ==
  ASSUME Inv, LiveInv, PlacedInv, RaisedInv, TrackedInv, AroundInv, Declaring # {}, Top > 0
  PROVE  /\ Referenced \in Seq(Scope) /\ Milder(scopes, Referenced) /\ Referenced # <<>>
         /\ Len(Referenced) = Len(scopes)
         /\ \A s \in 1..Len(scopes) : scopes[s].reads \subseteq Referenced[s].reads
         /\ LoopsSeen(Referenced, open, Sees.plain \union Sees.raised, seen.body)
         /\ pos \notin Sees.plain \union Sees.raised
<1>1. /\ Referenced \in Seq(Scope) /\ Milder(scopes, Referenced)
      /\ \A s \in 1..Len(scopes) : scopes[s].reads \subseteq Referenced[s].reads
  BY ReferencedIsMilder, ReadsOf
<1>2. Referenced # <<>> /\ Len(Referenced) = Len(scopes)
  <2>1. Len(Referenced) = Len(scopes) /\ Len(scopes) # 0
    BY <1>1 DEF Milder, Top
  <2>2. QED
    BY <2>1, NotEmpty
<1>3. pos \notin Sees.plain \union Sees.raised
  <2>1. pos \notin seen.plain \union seen.raised /\ pos \in Nat
    BY AroundHere
  <2>2. \A x \in All(flow) : x < pos
    BY TrackedHere
  <2>3. pos \notin All(flow)
    BY <2>1, <2>2
  <2>4. /\ Sees.plain = seen.plain \union flow.plain
        /\ Sees.raised = seen.raised \union (flow.raised \ Hidden)
    BY SeesPlain, BodyOf DEF Inv
  <2>5. QED
    BY <2>1, <2>3, <2>4 DEF All
<1>4. QED
  BY <1>1, <1>2, <1>3, ReadSeesLoops

LEMMA WriteShortAround ==
  ASSUME Inv, Inv', LiveInv, LiveInv', PlacedInv, PlacedInv', RaisedInv, TrackedInv, AroundInv,
         WriteShort
  PROVE  AroundInv'
<1>1. /\ Top > 0 /\ pos' = pos + 1 /\ scopes' = Assigned(Referenced, path, FALSE)
      /\ seen' = SeesWritten(Wrote(Sees)) /\ UNCHANGED reported /\ Declaring # {}
  BY DEF WriteShort, Passed
<1>2. LoopsStay(open, open', pos)
  BY StayPassed DEF WriteShort
<1>3. path \in Seq(Context)
  BY DEF Inv, TypeOK
<1>4. /\ Wrote(Sees) \in Seen /\ Wrote(Sees).plain = Sees.plain /\ Wrote(Sees).raised = Sees.raised
      /\ Wrote(Sees).around = seen.around /\ Wrote(Sees).body \subseteq seen.body \union {pos}
  BY SeenOf DEF Inv
<1>5. /\ seen'.plain = Sees.plain /\ seen'.raised = Sees.raised
      /\ seen'.around = seen.around /\ seen'.body \subseteq seen.body \union {pos}
  BY <1>1, <1>4, SeenOf DEF Inv
<1>6. /\ Referenced \in Seq(Scope) /\ Milder(scopes, Referenced)
      /\ \A s \in 1..Len(scopes) : scopes[s].reads \subseteq Referenced[s].reads
      /\ LoopsSeen(Referenced, open, Sees.plain \union Sees.raised, seen.body)
      /\ pos \notin Sees.plain \union Sees.raised
  BY <1>1, ReadHere
<1>7. QED
  BY <1>1, <1>2, <1>3, <1>5, <1>6, AssignsAround

LEMMA FirstShortAround ==
  ASSUME Inv, Inv', LiveInv, LiveInv', PlacedInv, PlacedInv', RaisedInv, TrackedInv, AroundInv,
         FirstShort
  PROVE  AroundInv'
<1>1. /\ Top > 0 /\ pos' = pos + 1 /\ scopes' = Assigned(FirstReferenced, path, FALSE)
      /\ seen' = SeesWritten(Wrote(FirstSees)) /\ UNCHANGED reported /\ Declaring = {}
  BY DEF FirstShort, Passed
<1>2. LoopsStay(open, open', pos)
  BY StayPassed DEF FirstShort
<1>3. /\ scopes \in Seq(Scope) /\ scopes # <<>> /\ open \in Seq(Frame) /\ pos \in Nat
      /\ path \in Seq(Context) /\ TypeOK /\ Top = Len(scopes)
      /\ LoopsSeen(scopes, open, seen.plain \union seen.raised, seen.body)
      /\ Late(scopes, open)
      /\ seen.around \subseteq Nat /\ RSeenOK(scopes, pos, reported, seen.around)
      /\ \A k \in DOMAIN open : /\ open[k].scope \in 1..Len(scopes) /\ open[k].at \in Nat
                                /\ open[k].at < pos
      /\ \A s \in 1..Len(scopes) : \A j \in DOMAIN scopes[s].writes : scopes[s].writes[j].at # pos
  BY <1>1, AroundHere DEF Inv, TypeOK, Top
<1>4. /\ FirstSees \in Seen /\ FirstSees.plain = seen.plain \union flow.plain
      /\ FirstSees.raised = seen.raised \union flow.raised /\ FirstSees.around = seen.around
      /\ FirstSees.body = seen.body /\ seen' = Wrote(FirstSees)
  BY <1>1, <1>3, FirstSeesTypes
<1>5. /\ seen'.plain = seen.plain \union flow.plain /\ seen'.raised = seen.raised \union flow.raised
      /\ seen'.around = seen.around /\ seen'.body \subseteq seen.body \union {pos}
  BY <1>3, <1>4, SeenOf
<1> DEFINE X == seen.plain \union seen.raised
           Y == seen'.plain \union seen'.raised
           mid == [FirstReferenced EXCEPT ![Top].declared = TRUE]
<1>6. /\ FirstReferenced \in Seq(Scope) /\ Milder(scopes, FirstReferenced)
      /\ Len(FirstReferenced) = Len(scopes) /\ pos \in FirstReferenced[Top].reads
      /\ \A s \in 1..Len(scopes) : scopes[s].reads \subseteq FirstReferenced[s].reads
  BY <1>1, FirstIsMilder DEF Milder
<1>7. Target = Top /\ Top \in 1..Len(scopes)
  BY <1>1, <1>3 DEF Target
<1>8. /\ mid \in Seq(Scope) /\ Len(mid) = Len(scopes)
      /\ \A s \in 1..Len(scopes) : s # Top => mid[s] = FirstReferenced[s]
      /\ mid[Top].declared /\ mid[Top].hard = FirstReferenced[Top].hard
      /\ mid[Top].captured = FirstReferenced[Top].captured
      /\ mid[Top].reads = FirstReferenced[Top].reads
      /\ mid[Top].writes = FirstReferenced[Top].writes
  <2> DEFINE v == [FirstReferenced[Top] EXCEPT !.declared = TRUE]
  <2>1. FirstReferenced[Top] \in Scope
    BY <1>6, <1>7
  <2>2. /\ v \in Scope /\ v.declared /\ v.hard = FirstReferenced[Top].hard
        /\ v.captured = FirstReferenced[Top].captured /\ v.reads = FirstReferenced[Top].reads
        /\ v.writes = FirstReferenced[Top].writes
    BY <2>1 DEF Scope
  <2>3. mid = [FirstReferenced EXCEPT ![Top] = v]
    OBVIOUS
  <2> HIDE DEF v, mid
  <2>4. /\ mid \in Seq(Scope) /\ Len(mid) = Len(FirstReferenced) /\ mid[Top] = v
        /\ \A s \in 1..Len(FirstReferenced) : s # Top => mid[s] = FirstReferenced[s]
    BY <1>6, <1>7, <2>2, <2>3, Replaced
  <2>5. QED
    BY <1>6, <2>2, <2>4
<1> HIDE DEF mid, X, Y
<1>9. /\ scopes' \in Seq(Scope) /\ Len(scopes') = Len(mid) /\ scopes' # <<>>
      /\ Adds(mid, scopes', Top, pos, path, FALSE)
  <2>1. Extends(FirstReferenced)
    BY <1>6, MilderIsSafe
  <2>2. scopes' \in Seq(Scope) /\ Adds(FirstReferenced, scopes', Top, pos, path, FALSE)
    BY <1>1, <1>3, <1>7, <2>1, AssignedAdds
  <2>3. Adds(mid, scopes', Top, pos, path, FALSE)
    BY <1>6, <1>7, <1>8, <2>2 DEF Adds
  <2>4. Len(scopes') = Len(mid) /\ Len(scopes') # 0
    <3>1. Len(scopes') = Len(mid)
      BY <2>3 DEF Adds
    <3>2. Len(scopes) # 0
      BY <1>7
    <3>3. QED
      BY <1>8, <3>1, <3>2
  <2>5. QED
    BY <2>2, <2>3, <2>4, NotEmpty
<1>10. \A s \in 1..Len(scopes) : \A j \in DOMAIN mid[s].writes :
         /\ j \in DOMAIN scopes[s].writes /\ mid[s].writes[j].at = scopes[s].writes[j].at
         /\ mid[s].writes[j].reassigned = scopes[s].writes[j].reassigned
         /\ scopes[s].captured => mid[s].captured
  <2>1. SUFFICES ASSUME NEW s \in 1..Len(scopes), NEW j \in DOMAIN mid[s].writes
                 PROVE  /\ j \in DOMAIN scopes[s].writes
                        /\ mid[s].writes[j].at = scopes[s].writes[j].at
                        /\ mid[s].writes[j].reassigned = scopes[s].writes[j].reassigned
                        /\ scopes[s].captured => mid[s].captured
    OBVIOUS
  <2>2. mid[s].writes = FirstReferenced[s].writes /\ mid[s].captured = FirstReferenced[s].captured
    BY <1>8
  <2>3. QED
    BY <1>6, <2>2 DEF Milder
<1>11. LoopsSeen(mid, open, Y, seen.body)
  <2>1. LoopsSeen(FirstReferenced, open, X, seen.body)
    <3>1. Follows(scopes, FirstReferenced, seen.body, seen.body, pos)
      BY <1>3, <1>6, FollowsMilder
    <3>2. LoopsStay(open, open, pos)
      BY DEF LoopsStay, SameLoop
    <3>3. /\ pos \notin X /\ LoopsSeen(scopes, open, X, seen.body)
          /\ \A k \in DOMAIN open : open[k].kind \in Loops => pos \notin All(open[k].entry)
      BY <1>1, AroundHere DEF X
    <3>4. QED
      BY <1>3, <1>6, <3>1, <3>2, <3>3, SeenFollows
  <2>2. LoopsSeen(mid, open, X, seen.body)
    <3>1. ASSUME NEW s \in 1..Len(scopes), NEW j \in DOMAIN mid[s].writes,
                 Settled(FirstReferenced, s, j, seen.body)
          PROVE  Settled(mid, s, j, seen.body)
      <4>1. /\ mid[s].writes = FirstReferenced[s].writes
            /\ mid[s].captured = FirstReferenced[s].captured
        BY <1>8
      <4>2. QED
        BY <3>1, <4>1 DEF Settled
    <3>2. \A s \in 1..Len(scopes) :
            /\ FirstReferenced[s].declared => mid[s].declared
            /\ mid[s].hard = FirstReferenced[s].hard
            /\ mid[s].reads = FirstReferenced[s].reads
            /\ mid[s].writes = FirstReferenced[s].writes
      BY <1>8
    <3>3. SUFFICES ASSUME NEW i \in DOMAIN open, open[i].kind \in Loops, open[i].at \in X
                   PROVE  /\ open[i].kind # "block" =>
                               \E s \in 1..open[i].scope :
                                 /\ mid[s].declared /\ Reach(mid, s, open[i].scope)
                                 /\ \E r \in mid[s].reads : r >= open[i].at
                          /\ \A s \in 1..Len(mid) : \A j \in DOMAIN mid[s].writes :
                               mid[s].writes[j].at \in All(open[i].entry)
                                 => Settled(mid, s, j, seen.body)
      BY DEF LoopsSeen
    <3>4. ASSUME open[i].kind # "block"
          PROVE  \E s \in 1..open[i].scope :
                   /\ mid[s].declared /\ Reach(mid, s, open[i].scope)
                   /\ \E r \in mid[s].reads : r >= open[i].at
      <4>1. PICK s \in 1..open[i].scope :
              /\ FirstReferenced[s].declared /\ Reach(FirstReferenced, s, open[i].scope)
              /\ \E r \in FirstReferenced[s].reads : r >= open[i].at
        BY <2>1, <3>3, <3>4 DEF LoopsSeen
      <4>2. s \in 1..Len(scopes) /\ \A t \in s + 1..open[i].scope : t \in 1..Len(scopes)
        BY <1>3
      <4>3. QED
        BY <3>2, <4>1, <4>2 DEF Reach
    <3>5. ASSUME NEW s \in 1..Len(mid), NEW j \in DOMAIN mid[s].writes,
                 mid[s].writes[j].at \in All(open[i].entry)
          PROVE  Settled(mid, s, j, seen.body)
      <4>1. s \in 1..Len(FirstReferenced) /\ s \in 1..Len(scopes)
        BY <1>6, <1>8
      <4>2. Settled(FirstReferenced, s, j, seen.body)
        BY <2>1, <3>2, <3>3, <3>5, <4>1 DEF LoopsSeen
      <4>3. QED
        BY <3>1, <4>1, <4>2
    <3>6. QED
      BY <3>4, <3>5
  <2>3. Y = X \union All(flow)
    BY <1>5 DEF X, Y, All
  <2>4. SUFFICES ASSUME NEW i \in DOMAIN open, open[i].kind \in Loops, open[i].at \in All(flow)
                 PROVE  /\ open[i].kind # "block" =>
                             \E s \in 1..open[i].scope :
                               /\ mid[s].declared /\ Reach(mid, s, open[i].scope)
                               /\ \E r \in mid[s].reads : r >= open[i].at
                        /\ \A s \in 1..Len(mid) : \A j \in DOMAIN mid[s].writes :
                             mid[s].writes[j].at \notin All(open[i].entry)
    BY <2>2, <2>3 DEF LoopsSeen
  <2>5. ASSUME NEW s \in 1..Len(mid), NEW j \in DOMAIN mid[s].writes
        PROVE  mid[s].writes[j].at \notin All(open[i].entry)
    <3>1. All(open[i].entry) \subseteq All(flow)
      BY <2>4 DEF TrackedInv, TrackedIn, Tracked, Together, All
    <3>2. s \in 1..Len(scopes) /\ j \in DOMAIN scopes[s].writes
          /\ mid[s].writes[j].at = scopes[s].writes[j].at
      BY <1>8, <1>10
    <3>3. scopes[s].writes[j].at \notin All(flow)
      BY <1>1, <3>2, NothingFlows, NothingRaised DEF All
    <3>4. QED
      BY <3>1, <3>2, <3>3
  <2>6. ASSUME open[i].kind # "block"
        PROVE  \E s \in 1..open[i].scope :
                 /\ mid[s].declared /\ Reach(mid, s, open[i].scope)
                 /\ \E r \in mid[s].reads : r >= open[i].at
    <3>1. ASSUME NEW b \in DOMAIN open, open[b].kind = "block", open[b].scope + 1 = Top
          PROVE  FALSE
      <4>1. BlocksOK(scopes, open)
        BY <1>1, RaisedTypes
      <4>2. PICK s \in 1..open[b].scope : scopes[s].declared /\ Reach(scopes, s, Top)
        BY <3>1, <4>1 DEF BlocksOK
      <4>3. s \in 1..Top
        BY <1>3, <4>2
      <4>4. QED
        BY <1>1, <4>2, <4>3, HomeOnly
    <3>2. Top <= open[i].scope
      BY <1>1, <1>3, <1>7, <2>4, <2>6, <3>1, LoopWithin
    <3>3. open[i].scope = Top
      BY <1>3, <1>7, <3>2
    <3>4. Top \in 1..open[i].scope /\ Reach(mid, Top, open[i].scope)
      BY <1>7, <3>3 DEF Reach
    <3>5. pos \in mid[Top].reads /\ pos >= open[i].at
      BY <1>3, <1>6, <1>8
    <3>6. QED
      BY <1>8, <3>4, <3>5
  <2>7. QED
    BY <2>5, <2>6
<1>12. Late(mid, open)
  <2>1. SUFFICES ASSUME NEW b \in DOMAIN open, open[b].kind = "block",
                        NEW s \in 1..open[b].scope, NEW j \in DOMAIN mid[s].writes,
                        mid[s].writes[j].at > open[b].at
                 PROVE  mid[s].captured /\ ~mid[s].writes[j].reassigned
    BY DEF Late
  <2>2. s \in 1..Len(scopes)
    BY <1>3
  <2>3. QED
    BY <1>3, <1>10, <2>1, <2>2 DEF Late
<1>13. Follows(mid, scopes', seen.body, seen'.body, pos)
  <2>1. \A t \in 1..Len(mid) : mid[t].reads \subseteq scopes'[t].reads
    <3>1. ASSUME NEW t \in 1..Len(scopes)
          PROVE  scopes'[t].reads = FirstReferenced[t].reads
      <4>1. t \in 1..Len(FirstReferenced)
        BY <1>6
      <4>2. \A m : Assigned(FirstReferenced, path, m)[t].reads = FirstReferenced[t].reads
        BY <1>6, <4>1, ReadsOf
      <4>3. \E m : scopes' = Assigned(FirstReferenced, path, m)
        <5>1. WITNESS FALSE
        <5>2. QED
          BY <1>1
      <4>4. QED
        BY <4>2, <4>3
    <3>2. QED
      BY <1>8, <3>1
  <2>2. ASSUME NEW t \in 1..Len(mid), NEW j \in DOMAIN mid[t].writes
        PROVE  mid[t].writes[j].at # pos
    <3>1. t \in 1..Len(scopes)
      BY <1>8
    <3>2. j \in DOMAIN scopes[t].writes /\ mid[t].writes[j].at = scopes[t].writes[j].at
      BY <1>10, <3>1
    <3>3. scopes[t].writes[j].at # pos
      BY <1>3, <3>1, <3>2
    <3>4. QED
      BY <3>2, <3>3
  <2>3. QED
    BY <1>5, <1>7, <1>8, <1>9, <2>1, <2>2, FollowsAdds
<1>14. RSeenOK(scopes', pos', reported', seen'.around)
  <2>1. RSeenOK(FirstReferenced, pos, reported, seen.around)
    BY <1>3, <1>6, MilderRSeen
  <2>2. RSeenOK(mid, pos, reported, seen.around)
    <3>1. \A s \in 1..Len(scopes) : /\ mid[s].writes = FirstReferenced[s].writes
                                    /\ mid[s].captured = FirstReferenced[s].captured
      BY <1>8
    <3>2. QED
      BY <1>6, <1>8, <2>1, <3>1 DEF RSeenOK
  <2>3. RSeenOK(scopes', pos + 1, reported, seen.around)
    BY <1>3, <1>7, <1>8, <1>9, <2>2, AddsSeen
  <2>4. QED
    BY <1>1, <1>5, <2>3
<1>15. pos \notin Y
  <2>1. pos \notin X
    BY <1>1, AroundHere DEF X
  <2>2. \A x \in All(flow) : x < pos
    BY <1>1, TrackedHere
  <2>3. Y = X \union All(flow)
    BY <1>5 DEF X, Y, All
  <2>4. QED
    BY <1>3, <2>1, <2>2, <2>3
<1>16. pos' \in {pos, pos + 1} /\ Y = seen'.plain \union seen'.raised
  BY <1>1 DEF Y
<1>17. QED
  BY <1>1, <1>2, <1>8, <1>9, <1>11, <1>12, <1>13, <1>14, <1>15, <1>16, AroundFollows

LEMMA ReadAround ==
  ASSUME Inv, Inv', LiveInv, LiveInv', PlacedInv, PlacedInv', RaisedInv, TrackedInv, AroundInv,
         Read
  PROVE  AroundInv'
<1>1. /\ Top > 0 /\ pos' = pos + 1 /\ scopes' = Referenced
      /\ seen' = Sees /\ UNCHANGED reported /\ Declaring # {}
  BY DEF Read, Passed
<1>2. LoopsStay(open, open', pos)
  BY StayPassed DEF Read
<1>3. /\ Referenced \in Seq(Scope) /\ Milder(scopes, Referenced) /\ Referenced # <<>>
      /\ Len(Referenced) = Len(scopes)
      /\ \A s \in 1..Len(scopes) : scopes[s].reads \subseteq Referenced[s].reads
      /\ LoopsSeen(Referenced, open, Sees.plain \union Sees.raised, seen.body)
      /\ pos \notin Sees.plain \union Sees.raised
  BY <1>1, ReadHere
<1>4. /\ scopes \in Seq(Scope) /\ open \in Seq(Frame) /\ pos \in Nat /\ Late(scopes, open)
      /\ seen.around \subseteq Nat /\ RSeenOK(scopes, pos, reported, seen.around)
      /\ \A k \in DOMAIN open : open[k].scope \in 1..Len(scopes)
  BY <1>1, AroundHere
<1>5. Sees.around = seen.around /\ Sees.body = seen.body
  BY SeenOf DEF Inv
<1>6. Late(Referenced, open)
  BY <1>3, <1>4, MilderLate
<1>7. RSeenOK(scopes', pos', reported', seen'.around)
  <2>1. RSeenOK(Referenced, pos + 1, reported, seen.around)
    BY <1>3, <1>4, MilderRSeen
  <2>2. QED
    BY <1>1, <1>5, <2>1
<1>8. Follows(Referenced, scopes', seen.body, seen'.body, pos)
  <2>1. Milder(Referenced, Referenced)
    BY DEF Milder
  <2>2. Follows(Referenced, Referenced, seen.body, seen.body, pos)
    BY <1>3, <2>1, FollowsMilder
  <2>3. QED
    BY <1>1, <1>5, <2>2
<1>9. scopes' # <<>> /\ pos' \in {pos, pos + 1}
  BY <1>1, <1>3
<1> DEFINE X == Sees.plain \union Sees.raised
<1>10. X = seen'.plain \union seen'.raised /\ pos \notin X /\ LoopsSeen(Referenced, open, X, seen.body)
  BY <1>1, <1>3
<1> HIDE DEF X
<1>11. QED
  BY <1>1, <1>2, <1>3, <1>6, <1>7, <1>8, <1>9, <1>10, AroundFollows

LEMMA EntersAround ==
  ASSUME Inv, Inv', LiveInv, LiveInv', PlacedInv, PlacedInv', RaisedInv, TrackedInv, AroundInv,
         NEW kind \in Kinds, NEW p2, NEW f, Enters(kind, p2, flow, f),
         UNCHANGED <<scopes, reported, seen>>
  PROVE  AroundInv'
<1>1. Top > 0 /\ pos' \in {pos, pos + 1}
  BY DEF Enters
<1>2. flow \in Flow
  BY DEF Inv, TypeOK
<1>3. LoopsStay(open, open', pos)
  BY <1>2, StayEntered
<1>4. QED
  BY <1>1, <1>3, QuietAround

LEMMA EntersQuietlyAround ==
  ASSUME Inv, Inv', LiveInv, LiveInv', PlacedInv, PlacedInv', RaisedInv, TrackedInv, AroundInv,
         Cond \/ Logic \/ While \/ Post \/ Begin \/ Ensured
  PROVE  AroundInv'
<1>1. {"cond", "logic", "while", "post", "begin", "ensured"} \subseteq Kinds
  BY DEF Kinds
<1>2. CASE Cond
  BY <1>1, <1>2, EntersAround DEF Cond
<1>3. CASE Logic
  BY <1>1, <1>3, EntersAround DEF Logic
<1>4. CASE While
  BY <1>1, <1>4, EntersAround DEF While
<1>5. CASE Post
  BY <1>1, <1>5, EntersAround DEF Post
<1>6. CASE Begin
  BY <1>1, <1>6, EntersAround DEF Begin
<1>7. CASE Ensured
  BY <1>1, <1>7, EntersAround DEF Ensured
<1>8. QED
  BY <1>2, <1>3, <1>4, <1>5, <1>6, <1>7

LEMMA TurnsAround ==
  ASSUME Inv, Inv', LiveInv, LiveInv', PlacedInv, PlacedInv', RaisedInv, TrackedInv, AroundInv,
         Arm \/ Else \/ Rescue \/ Body \/ Test \/ Ensure
  PROVE  AroundInv'
<1>1. /\ open # <<>> /\ SamePlace
      /\ Last'.kind \in Loops => Last.kind \in Loops /\ Last'.entry = Last.entry
      /\ Last'.kind # "block" /\ Last.kind # "block"
  <2>1. CASE Arm
    BY <2>1, ArmTurns DEF Loops
  <2>2. CASE Else
    BY <2>2, ElseTurns DEF Loops
  <2>3. CASE Rescue
    BY <2>3, RescueTurns DEF Loops
  <2>4. CASE Body
    BY <2>4, BodyTurns DEF Loops
  <2>5. CASE Test
    BY <2>5, TestTurns DEF Loops
  <2>6. CASE Ensure
    BY <2>6, EnsureTurns DEF Loops
  <2>7. QED
    BY <2>1, <2>2, <2>3, <2>4, <2>5, <2>6
<1>2. LoopsStay(open, open', pos)
  BY <1>1, StayTurned
<1>3. Top > 0
  <2>1. scopes # <<>> /\ scopes \in Seq(Scope) /\ Top = Len(scopes)
    BY <1>1, WhereInside
  <2>2. QED
    BY <2>1
<1>4. UNCHANGED <<scopes, reported, seen>> /\ pos' \in {pos, pos + 1}
  BY <1>1 DEF SamePlace
<1>5. QED
  BY <1>2, <1>3, <1>4, QuietAround

LEMMA LeavesQuietlyAround ==
  ASSUME Inv, Inv', LiveInv, LiveInv', PlacedInv, PlacedInv', RaisedInv, TrackedInv, AroundInv,
         EndCond \/ EndLogic \/ EndBegin \/ EndEnsure
  PROVE  AroundInv'
<1>1. PICK f : Leaves(f)
  BY DEF EndCond, EndLogic, EndBegin, EndEnsure
<1>2. open # <<>> /\ UNCHANGED <<scopes, reported, seen>>
  BY DEF EndCond, EndLogic, EndBegin, EndEnsure, Inside
<1>3. LoopsStay(open, open', pos)
  BY <1>1, <1>2, StayLeft
<1>4. Top > 0
  <2>1. scopes # <<>> /\ scopes \in Seq(Scope) /\ Top = Len(scopes)
    BY <1>2, WhereInside
  <2>2. QED
    BY <2>1
<1>5. pos' \in {pos, pos + 1}
  BY <1>1 DEF Leaves
<1>6. QED
  BY <1>2, <1>3, <1>4, <1>5, QuietAround

\* A scope of its own.
LEMMA EntersScopeAround ==
  ASSUME Inv, Inv', LiveInv, LiveInv', PlacedInv, PlacedInv', RaisedInv, TrackedInv, AroundInv,
         NEW kind \in Kinds, NEW p2, NEW f, Enters(kind, p2, flow, f),
         NEW hard \in BOOLEAN, scopes' = Append(scopes, NewScope(hard)),
         UNCHANGED <<reported, seen>>
  PROVE  AroundInv'
<1>1. Top > 0 /\ pos' = pos + 1
  BY DEF Enters
<1>2. flow \in Flow
  BY DEF Inv, TypeOK
<1>3. LoopsStay(open, open', pos)
  BY <1>2, StayEntered
<1>4. /\ scopes \in Seq(Scope) /\ pos \in Nat
      /\ LoopsSeen(scopes, open, seen.plain \union seen.raised, seen.body) /\ Late(scopes, open)
      /\ pos \notin seen.plain \union seen.raised
      /\ seen.around \subseteq Nat /\ RSeenOK(scopes, pos, reported, seen.around)
  BY <1>1, AroundHere
<1>5. NewScope(hard) \in Scope /\ NewScope(hard).writes = <<>>
  BY NewScopeType
<1>6. /\ scopes' \in Seq(Scope) /\ scopes' # <<>>
      /\ \A s \in 1..Len(scopes') : \/ s \in 1..Len(scopes) /\ scopes'[s] = scopes[s]
                                    \/ s \notin 1..Len(scopes) /\ scopes'[s].writes = <<>>
  BY <1>4, <1>5
<1>7. Follows(scopes, scopes', seen.body, seen'.body, pos)
  <2>1. Follows(scopes, scopes', seen.body, seen.body, pos)
    BY <1>4, <1>6, FollowsScopes
  <2>2. QED
    BY <2>1
<1>8. RSeenOK(scopes', pos', reported', seen'.around)
  <2>1. Milder(scopes, scopes)
    BY DEF Milder
  <2>2. RSeenOK(scopes, pos + 1, reported, seen.around)
    BY <1>4, <2>1, MilderRSeen
  <2>3. RSeenOK(scopes', pos + 1, reported, seen.around)
    BY <1>6, <2>2 DEF RSeenOK
  <2>4. QED
    BY <1>1, <2>3
<1>9. pos' \in {pos, pos + 1}
  BY <1>1
<1> DEFINE X == seen.plain \union seen.raised
<1>10. X = seen'.plain \union seen'.raised /\ pos \notin X /\ LoopsSeen(scopes, open, X, seen.body)
  BY <1>4
<1> HIDE DEF X
<1>11. QED
  BY <1>1, <1>3, <1>4, <1>6, <1>7, <1>8, <1>9, <1>10, AroundFollows

LEMMA ScopesAround ==
  ASSUME Inv, Inv', LiveInv, LiveInv', PlacedInv, PlacedInv', RaisedInv, TrackedInv, AroundInv,
         Block \/ Def \/ Class
  PROVE  AroundInv'
<1>1. {"own", "block", "def", "class"} \subseteq Kinds
  BY DEF Kinds
<1>2. CASE Block
  <2>1. \E kind \in {"own", "block"} : \E f : Enters(kind, <<>>, flow, f)
    BY <1>2 DEF Block
  <2>2. scopes' = Append(scopes, NewScope(FALSE)) /\ UNCHANGED <<reported, seen>>
    BY <1>2 DEF Block
  <2>3. QED
    BY <1>1, <2>1, <2>2, EntersScopeAround
<1>3. CASE Def
  BY <1>1, <1>3, EntersScopeAround DEF Def
<1>4. CASE Class
  BY <1>1, <1>4, EntersScopeAround DEF Class
<1>5. QED
  BY <1>2, <1>3, <1>4

\* What reaches the next node in the order of the program is not skipped unless it is captured.
LEMMA PlainSettled ==
  ASSUME Inv, LiveInv, PlacedInv, Top > 0, NEW s \in 1..Len(scopes),
         NEW j \in DOMAIN scopes[s].writes, scopes[s].writes[j].at \in flow.plain,
         Settled(scopes, s, j, seen.body)
  PROVE  scopes[s].writes[j].referenced
         \/ (scopes[s].captured /\ ~scopes[s].writes[j].reassigned)
<1> DEFINE ws == scopes[s].writes
<1>1. /\ scopes \in Seq(Scope) /\ Len(scopes) \in Nat /\ open \in Seq(Frame)
      /\ Carried(scopes, open, flow.plain, Len(scopes), path, Len(open) + 1)
      /\ Place(open, Len(scopes), path, Len(open) + 1)
  BY RaisedTypes
<1>2. /\ ~ws[j].reassigned
      /\ ~scopes[s].captured =>
           /\ s = Len(scopes) => Live(ws, s, j, path)
           /\ \A b \in DOMAIN open :
                b < Len(open) + 1 /\ open[b].kind \in Scoping /\ open[b].scope = s =>
                  Live(ws, s, j, open[b].path)
  BY <1>1 DEF Carried
<1>3. SUFFICES ASSUME ~scopes[s].captured, ~ws[j].referenced
               PROVE  FALSE
  BY <1>2
<1>4. \E q : Live(ws, s, j, q)
  <2>1. CASE s = Len(scopes)
    BY <1>2, <1>3, <2>1
  <2>2. CASE s # Len(scopes)
    <3>1. s \in 1..Len(scopes) - 1
      BY <1>1, <2>2
    <3>2. PICK b \in DOMAIN open :
            b < Len(open) + 1 /\ open[b].kind \in Scoping /\ open[b].scope = s
      BY <1>1, <3>1 DEF Place
    <3>3. QED
      BY <1>2, <1>3, <3>2
  <2>3. QED
    BY <2>1, <2>2
<1>5. PICK q : \A k \in DOMAIN ws : k > j => Parted(ws[k], ws[j].path, q, s)
  BY <1>3, <1>4 DEF Live
<1>6. Skipped(ws, s, j, seen.body)
  BY <1>3 DEF Settled
<1>7. ws \in Seq(Assignment) /\ DOMAIN ws = 1..Len(ws) /\ Len(ws) \in Nat
  BY <1>1, WriteTypes
<1> HIDE DEF ws
<1>8. PICK l \in j + 1..Len(ws) : \/ Relevant(ws[l].path, s) = Relevant(ws[j].path, s)
                                  \/ ws[l].path = <<>>
  BY <1>6 DEF Skipped
<1>9. l \in DOMAIN ws /\ l > j
  <2>1. j \in 1..Len(ws)
    BY <1>7 DEF ws
  <2>2. QED
    BY <1>7, <1>8, <2>1
<1>10. PICK c \in Contexts(ws[l].path) : c.scope >= s /\ c \notin Contexts(ws[j].path)
  BY <1>5, <1>9 DEF Parted
<1>11. Relevant(ws[l].path, s) # Relevant(ws[j].path, s)
  BY <1>10, RelevantDiffers
<1>12. ws[l].path # <<>>
  BY <1>10, ContextsOf
<1>13. QED
  BY <1>8, <1>11, <1>12

\* At the end of a loop, what a read in an earlier run of it saw: an assignment from in front
\* of the loop needs no mark.
LEMMA EndSees ==
  ASSUME Inv, LiveInv, PlacedInv, RaisedInv, TrackedInv, AroundInv, open # <<>>,
         Last.kind \in Loops, Last.at \in seen.plain \union seen.raised,
         NEW s \in 1..Len(scopes), NEW j \in DOMAIN scopes[s].writes,
         scopes[s].writes[j].at \in flow.plain \union (flow.raised \ Hidden),
         scopes[s].writes[j].at # Last.at
  PROVE  /\ Declaring # {} /\ s = Home /\ scopes[s].declared /\ Reach(scopes, s, Len(scopes))
         /\ \/ scopes[s].writes[j].at > Last.at
            \/ scopes[s].writes[j].referenced
            \/ scopes[s].captured /\ ~scopes[s].writes[j].reassigned
<1> DEFINE x == scopes[s].writes[j].at
<1>1. /\ scopes \in Seq(Scope) /\ scopes # <<>> /\ Top = Len(scopes) /\ Top \in Nat
      /\ open \in Seq(Frame) /\ Last.at \in Nat
  BY WhereInside
<1>2. Top > 0
  BY <1>1
<1>3. Reach(scopes, s, Len(scopes)) /\ scopes[s].declared
  <2>1. Tossed(scopes, open, seen.body, All(flow), Len(scopes), path, Len(open) + 1)
    BY <1>2, AllTossed
  <2>2. x \in All(flow)
    BY DEF All
  <2>3. WritesOK(scopes, open, pos)
    BY <1>2, RaisedTypes
  <2>4. QED
    BY <2>1, <2>2, <2>3 DEF Tossed, WritesOK
<1>4. Declaring # {} /\ s = Home
  BY <1>1, <1>3, HomeOnly
<1>5. x \in Nat
  BY <1>1, WriteTypes
<1>6. ASSUME x < Last.at
      PROVE  scopes[s].writes[j].referenced
             \/ (scopes[s].captured /\ ~scopes[s].writes[j].reassigned)
  <2>1. Len(open) \in DOMAIN open /\ open[Len(open)] = Last
    BY <1>1, Left DEF Last
  <2>2. Older(Last, flow)
    BY <2>1 DEF TrackedInv, TrackedIn, Tracked
  <2>3. Olds(Last).plain = Last.entry.plain /\ Olds(Last).raised = All(Last.entry)
    BY DEF Olds
  <2>4. x \in All(Last.entry)
    BY <1>6, <2>2, <2>3 DEF Older, All
  <2>5. Settled(scopes, s, j, seen.body)
    <3>1. LoopsSeen(scopes, open, seen.plain \union seen.raised, seen.body)
      BY <1>2, AroundHere
    <3>2. QED
      BY <2>1, <2>4, <3>1 DEF LoopsSeen
  <2>6. CASE x \in flow.plain
    BY <1>2, <2>5, <2>6, PlainSettled
  <2>7. CASE x \in flow.raised \ Hidden
    <3>1. ~Skipped(scopes[s].writes, s, j, seen.body)
      BY <1>4, <2>7, SkippedIsHidden
    <3>2. QED
      BY <2>5, <3>1 DEF Settled
  <2>8. QED
    BY <2>6, <2>7
<1>7. QED
  BY <1>1, <1>3, <1>4, <1>5, <1>6

\* What the end of a loop adds to what has been seen.
LEMMA AroundOf ==
  ASSUME TypeOK, NEW h, NEW g, NEW left
  PROVE  /\ Around(h, g, left).plain = seen.plain /\ Around(h, g, left).raised = seen.raised
         /\ Around(h, g, left).body = seen.body
         /\ h \notin seen.plain \union seen.raised => Around(h, g, left).around = seen.around
         /\ h \in seen.plain \union seen.raised =>
              Around(h, g, left).around =
                seen.around \union ((g.plain \union (g.raised \ Hidden)) \ ({h} \union left))
<1>1. seen \in Seen
  BY DEF TypeOK, Seen
<1>2. QED
  BY <1>1 DEF Around, Seen

\* The end of a loop: what an earlier run left to a read.
LEMMA EndLoopSees ==
  ASSUME Inv, LiveInv, PlacedInv, RaisedInv, TrackedInv, AroundInv, open # <<>>,
         Last.kind \in {"body", "test"}, Last.at \in seen.plain \union seen.raised,
         NEW s \in 1..Len(scopes), NEW j \in DOMAIN scopes[s].writes,
         scopes[s].writes[j].at \in
           (flow.plain \union (flow.raised \ Hidden)) \ ({Last.at} \union Sequential(Last.at))
  PROVE  LoopMarked(Last.at)[s].writes[j].referenced
         \/ (scopes[s].captured /\ ~scopes[s].writes[j].reassigned)
<1>1. /\ scopes \in Seq(Scope) /\ scopes # <<>> /\ Top = Len(scopes) /\ Top \in Nat
      /\ open \in Seq(Frame) /\ Last.at \in Nat
      /\ Len(open) \in DOMAIN open /\ open[Len(open)] = Last
  BY WhereInside, Left DEF Last
<1>2. Top > 0
  BY <1>1
<1>3. /\ Declaring # {} /\ s = Home
      /\ \/ scopes[s].writes[j].at > Last.at
         \/ scopes[s].writes[j].referenced
         \/ scopes[s].captured /\ ~scopes[s].writes[j].reassigned
  BY EndSees DEF Loops
<1>4. Milder(scopes, LoopMarked(Last.at))
  BY <1>1, LoopMarkedIsMilder
<1>5. CASE scopes[s].writes[j].referenced
  BY <1>4, <1>5 DEF Milder
<1>6. CASE scopes[s].writes[j].at > Last.at
  <2>1. PICK t \in 1..Last.scope : /\ scopes[t].declared /\ Reach(scopes, t, Last.scope)
                                   /\ \E r \in scopes[t].reads : r >= Last.at
    <3>1. LoopsSeen(scopes, open, seen.plain \union seen.raised, seen.body)
      BY <1>2, AroundHere
    <3>2. Last.kind \in Loops /\ Last.kind # "block"
      BY DEF Loops
    <3>3. QED
      BY <1>1, <3>1, <3>2 DEF LoopsSeen
  <2>2. Last.scope = Len(scopes)
    <3>1. Last.kind \notin Scoping
      BY DEF Scoping
    <3>2. QED
      BY <3>1, AtLastRaised
  <2>3. t = Home
    BY <1>1, <2>1, <2>2, HomeOnly
  <2>4. \/ j = Len(scopes[Home].writes)
        \/ \E k \in DOMAIN scopes[Home].writes[j].path : scopes[Home].writes[j].path[k].back
    <3>1. DOMAIN scopes[s].writes = 1..Len(scopes[s].writes) /\ Len(scopes[s].writes) \in Nat
      BY <1>1, WriteTypes
    <3>2. j = Len(scopes[s].writes) \/ j \in 1..Len(scopes[s].writes) - 1
      BY <3>1
    <3>3. scopes[s].writes[j].at \notin Sequential(Last.at)
      OBVIOUS
    <3>4. QED
      BY <1>3, <1>6, <3>2, <3>3 DEF Sequential
  <2>5. LoopMarked(Last.at)[Home].writes[j].referenced
    BY <1>1, <1>3, <1>6, <2>1, <2>3, <2>4, LoopMarks
  <2>6. QED
    BY <1>3, <2>5
<1>7. QED
  BY <1>3, <1>5, <1>6

LEMMA EndLoopAround ==
  ASSUME Inv, Inv', LiveInv, LiveInv', PlacedInv, PlacedInv', RaisedInv, TrackedInv, AroundInv,
         EndWhile \/ EndPost
  PROVE  AroundInv'
<1>1. /\ open # <<>> /\ Last.kind \in {"body", "test"} /\ UNCHANGED reported
      /\ scopes' = LoopMarked(Last.at) /\ pos' = pos
      /\ seen' = Around(Last.at, flow, Sequential(Last.at))
  BY DEF EndWhile, EndPost, Inside, Leaves
<1>2. /\ scopes \in Seq(Scope) /\ scopes # <<>> /\ Top = Len(scopes) /\ Top \in Nat
      /\ Last.at \in Nat
  BY <1>1, WhereInside
<1>3. Top > 0
  BY <1>2
<1>4. LoopMarked(Last.at) \in Seq(Scope) /\ Milder(scopes, LoopMarked(Last.at))
  BY <1>2, LoopMarkedIsMilder
<1>5. LoopsStay(open, open', pos)
  <2>1. \E f : Leaves(f)
    BY DEF EndWhile, EndPost
  <2>2. QED
    BY <1>1, <2>1, StayLeft
<1>6. /\ pos \in Nat /\ Late(scopes, open)
      /\ LoopsSeen(scopes, open, seen.plain \union seen.raised, seen.body)
      /\ pos \notin seen.plain \union seen.raised
      /\ seen.around \subseteq Nat /\ RSeenOK(scopes, pos, reported, seen.around)
  BY <1>3, AroundHere
<1>7. /\ seen'.plain = seen.plain /\ seen'.raised = seen.raised /\ seen'.body = seen.body
      /\ Last.at \notin seen.plain \union seen.raised => seen'.around = seen.around
      /\ Last.at \in seen.plain \union seen.raised =>
           seen'.around = seen.around \union
             ((flow.plain \union (flow.raised \ Hidden)) \ ({Last.at} \union Sequential(Last.at)))
  BY <1>1, AroundOf DEF Inv
<1>8. RSeenOK(LoopMarked(Last.at), pos, reported, seen.around)
  BY <1>4, <1>2, <1>6, MilderRSeen
<1>9. RSeenOK(LoopMarked(Last.at), pos, reported, seen'.around)
  <2>1. CASE Last.at \notin seen.plain \union seen.raised
    BY <1>7, <1>8, <2>1
  <2>2. CASE Last.at \in seen.plain \union seen.raised
    <3> DEFINE G == (flow.plain \union (flow.raised \ Hidden))
                      \ ({Last.at} \union Sequential(Last.at))
    <3>1. G \subseteq All(flow)
      BY DEF All
    <3>2. Unreported(G, pos, reported)
      BY <1>3, <3>1, AllTossed DEF Unreported
    <3>3. ASSUME NEW s \in 1..Len(LoopMarked(Last.at)),
                 NEW j \in DOMAIN LoopMarked(Last.at)[s].writes,
                 LoopMarked(Last.at)[s].writes[j].at \in G
          PROVE  \/ LoopMarked(Last.at)[s].writes[j].referenced
                 \/ /\ LoopMarked(Last.at)[s].captured
                    /\ ~LoopMarked(Last.at)[s].writes[j].reassigned
      <4>1. s \in 1..Len(scopes) /\ j \in DOMAIN scopes[s].writes
        BY <1>4, <3>3 DEF Milder
      <4>2. /\ LoopMarked(Last.at)[s].writes[j].at = scopes[s].writes[j].at
            /\ LoopMarked(Last.at)[s].writes[j].reassigned = scopes[s].writes[j].reassigned
            /\ scopes[s].captured => LoopMarked(Last.at)[s].captured
        BY <1>4, <4>1 DEF Milder
      <4>3. LoopMarked(Last.at)[s].writes[j].referenced
            \/ (scopes[s].captured /\ ~scopes[s].writes[j].reassigned)
        BY <1>1, <2>2, <3>3, <4>1, <4>2, EndLoopSees
      <4>4. QED
        BY <4>2, <4>3
    <3> HIDE DEF G
    <3>4. seen'.around = seen.around \union G
      BY <1>7, <2>2 DEF G
    <3>5. QED
      BY <1>8, <3>2, <3>3, <3>4 DEF RSeenOK, Unreported
  <2>3. QED
    BY <2>1, <2>2
<1>10. scopes' # <<>> /\ Len(scopes') = Len(scopes)
  <2>1. Len(scopes') = Len(scopes) /\ Len(scopes) # 0
    BY <1>1, <1>3, <1>4 DEF Milder, Top
  <2>2. QED
    BY <2>1, NotEmpty
<1>11. Follows(scopes, scopes', seen.body, seen'.body, pos)
  <2>1. \A s \in 1..Len(scopes) : scopes[s].reads \subseteq LoopMarked(Last.at)[s].reads
    BY ReadsOf
  <2>2. Follows(scopes, LoopMarked(Last.at), seen.body, seen.body, pos)
    BY <1>2, <1>4, <2>1, FollowsMilder
  <2>3. QED
    BY <1>1, <1>7, <2>2
<1>12. RSeenOK(scopes', pos', reported', seen'.around) /\ pos' \in {pos, pos + 1}
  BY <1>1, <1>9
<1> DEFINE X == seen.plain \union seen.raised
<1>13. X = seen'.plain \union seen'.raised /\ pos \notin X /\ LoopsSeen(scopes, open, X, seen.body)
  BY <1>6, <1>7
<1> HIDE DEF X
<1>14. QED
  BY <1>2, <1>3, <1>5, <1>6, <1>10, <1>11, <1>12, <1>13, AroundFollows

\* The end of a scope, where what has been seen is safe before it is left.
LEMMA LeavesScopeAround ==
  ASSUME Inv, Inv', LiveInv, LiveInv', PlacedInv, PlacedInv', RaisedInv, TrackedInv, AroundInv,
         open # <<>>, NEW f, Leaves(f), LeaveScope,
         seen'.plain = seen.plain, seen'.raised = seen.raised, seen'.body = seen.body,
         RSeenOK(scopes, pos, reported, seen'.around)
  PROVE  AroundInv'
<1>1. /\ scopes \in Seq(Scope) /\ scopes # <<>> /\ Top = Len(scopes) /\ Top \in Nat /\ Top > 1
      /\ scopes' = SubSeq(scopes, 1, Top - 1) /\ reported' = reported \union Useless
      /\ pos' = pos
  BY WhereInside DEF LeaveScope, Leaves
<1>2. Top > 0
  BY <1>1
<1>3. /\ scopes' \in Seq(Scope) /\ scopes' # <<>>
      /\ \A s \in 1..Len(scopes') : s \in 1..Len(scopes) /\ scopes'[s] = scopes[s]
  <2>1. /\ scopes' \in Seq(Scope) /\ Len(scopes') = Top - 1
        /\ \A s \in 1..Len(scopes') : s \in 1..Len(scopes) /\ scopes'[s] = scopes[s]
    BY <1>1
  <2>2. Len(scopes') # 0
    BY <1>1, <2>1
  <2>3. QED
    BY <2>1, <2>2, NotEmpty
<1>4. RSeenOK(scopes', pos', reported', seen'.around)
  BY <1>1, <1>3, UselessDiscarded, DiscardedUnraised
<1>5. Follows(scopes, scopes', seen.body, seen'.body, pos)
  BY <1>1, <1>3, FollowsScopes
<1>6. LoopsStay(open, open', pos)
  BY StayLeft
<1>7. /\ Late(scopes, open)
      /\ LoopsSeen(scopes, open, seen.plain \union seen.raised, seen.body)
      /\ pos \notin seen.plain \union seen.raised
  BY <1>2, AroundHere
<1>8. pos' \in {pos, pos + 1}
  BY <1>1
<1> DEFINE X == seen.plain \union seen.raised
<1>9. X = seen'.plain \union seen'.raised /\ pos \notin X /\ LoopsSeen(scopes, open, X, seen.body)
  BY <1>7
<1> HIDE DEF X
<1>10. QED
  BY <1>1, <1>2, <1>3, <1>4, <1>5, <1>6, <1>7, <1>8, <1>9, AroundFollows

\* A block is left: what it assigned to a variable of an outer scope is captured.
LEMMA EndBlockAround ==
  ASSUME Inv, Inv', LiveInv, LiveInv', PlacedInv, PlacedInv', RaisedInv, TrackedInv, AroundInv,
         EndBlock
  PROVE  AroundInv'
<1>1. /\ open # <<>> /\ Last.kind = "block" /\ LeaveScope
      /\ seen' = Around(Last.at, flow, {})
  BY DEF EndBlock, Inside
<1>2. /\ scopes \in Seq(Scope) /\ scopes # <<>> /\ Top = Len(scopes) /\ Top \in Nat
      /\ open \in Seq(Frame)
  BY <1>1, WhereInside
<1>3. Top > 0
  BY <1>2
<1>4. Late(scopes, open) /\ RSeenOK(scopes, pos, reported, seen.around)
  BY <1>3, AroundHere
<1>5. /\ seen'.plain = seen.plain /\ seen'.raised = seen.raised /\ seen'.body = seen.body
      /\ Last.at \notin seen.plain \union seen.raised => seen'.around = seen.around
      /\ Last.at \in seen.plain \union seen.raised =>
           seen'.around = seen.around \union
             ((flow.plain \union (flow.raised \ Hidden)) \ ({Last.at} \union {}))
  BY <1>1, AroundOf DEF Inv
<1>6. RSeenOK(scopes, pos, reported, seen'.around)
  <2>1. CASE Last.at \notin seen.plain \union seen.raised
    BY <1>4, <1>5, <2>1
  <2>2. CASE Last.at \in seen.plain \union seen.raised
    <3> DEFINE G == (flow.plain \union (flow.raised \ Hidden)) \ ({Last.at} \union {})
    <3>1. G \subseteq All(flow)
      BY DEF All
    <3>2. Unreported(G, pos, reported)
      BY <1>3, <3>1, AllTossed DEF Unreported
    <3>3. ASSUME NEW s \in 1..Len(scopes), NEW j \in DOMAIN scopes[s].writes,
                 scopes[s].writes[j].at \in G
          PROVE  scopes[s].writes[j].referenced
                 \/ (scopes[s].captured /\ ~scopes[s].writes[j].reassigned)
      <4>1. Last.kind \in Loops
        BY <1>1 DEF Loops
      <4>2. /\ scopes[s].declared
            /\ \/ scopes[s].writes[j].at > Last.at
               \/ scopes[s].writes[j].referenced
               \/ scopes[s].captured /\ ~scopes[s].writes[j].reassigned
        BY <1>1, <2>2, <3>3, <4>1, EndSees
      <4>3. CASE scopes[s].writes[j].at > Last.at
        <5>1. Len(open) \in DOMAIN open /\ open[Len(open)] = Last
          BY <1>1, <1>2, Left DEF Last
        <5>2. /\ Last.scope \in Nat /\ Top = Last.scope + 1
              /\ ~scopes[Last.scope + 1].declared
          <6>1. NestOK(Len(scopes), open, pos) /\ BlocksOK(scopes, open)
            BY <1>3, RaisedTypes
          <6>2. Top = After(Last)
            BY <1>1, <1>2, <6>1 DEF NestOK, Last
          <6>3. Last.scope \in Nat
            BY <1>2, <5>1, FrameTypes
          <6>4. ~scopes[Last.scope + 1].declared
            BY <1>1, <5>1, <6>1 DEF BlocksOK
          <6>5. QED
            BY <1>1, <6>2, <6>3, <6>4 DEF After, Scoping
        <5>3. s \in 1..Last.scope
          <6>1. s # Last.scope + 1
            BY <4>2, <5>2
          <6>2. QED
            BY <1>2, <5>2, <6>1
        <5>4. QED
          BY <1>1, <1>4, <4>3, <5>1, <5>3 DEF Late
      <4>4. QED
        BY <4>2, <4>3
    <3> HIDE DEF G
    <3>4. seen'.around = seen.around \union G
      BY <1>5, <2>2 DEF G
    <3>5. QED
      BY <1>4, <3>2, <3>3, <3>4 DEF RSeenOK, Unreported
  <2>3. QED
    BY <2>1, <2>2
<1>7. \E f : Leaves(f)
  BY DEF EndBlock
<1>8. QED
  BY <1>1, <1>5, <1>6, <1>7, LeavesScopeAround

LEMMA EndOwnAround ==
  ASSUME Inv, Inv', LiveInv, LiveInv', PlacedInv, PlacedInv', RaisedInv, TrackedInv, AroundInv,
         EndOwn
  PROVE  AroundInv'
<1>1. open # <<>> /\ Leaves(Last.entry) /\ LeaveScope /\ seen' = seen
  BY DEF EndOwn, Inside
<1>2. Top > 0
  <2>1. Top = Len(scopes) /\ scopes # <<>> /\ scopes \in Seq(Scope)
    BY <1>1, WhereInside
  <2>2. QED
    BY <2>1
<1>3. RSeenOK(scopes, pos, reported, seen.around)
  BY DEF AroundInv
<1>4. QED
  BY <1>1, <1>3, LeavesScopeAround

LEMMA EndProgramAround ==
  ASSUME Inv, AroundInv, EndProgram
  PROVE  AroundInv'
<1>1. /\ Top = 1 /\ reported' = reported \union Useless /\ scopes' = <<>>
      /\ UNCHANGED <<path, open, pos, flow, seen>>
  BY DEF EndProgram
<1>2. scopes \in Seq(Scope) /\ scopes # <<>>
  <2>1. scopes \in Seq(Scope)
    BY DEF Inv, TypeOK
  <2>2. QED
    BY <1>1, <2>1 DEF Top
<1>3. RSeenOK(scopes, pos, reported, seen.around)
  BY DEF AroundInv
<1>4. \A s \in 1..Len(scopes') : s \in 1..Len(scopes) /\ scopes'[s] = scopes[s]
  BY <1>1
<1>5. RSeenOK(scopes', pos, reported', seen.around)
  BY <1>1, <1>2, <1>3, <1>4, UselessDiscarded, DiscardedUnraised
<1>6. QED
  BY <1>1, <1>5 DEF AroundInv

LEMMA InitAround == Init => AroundInv
<1>1. SUFFICES ASSUME Init PROVE AroundInv
  OBVIOUS
<1>2. open = <<>> /\ seen.around = {}
  BY <1>1 DEF Init
<1>3. RSeenOK(scopes, pos, reported, seen.around)
  BY <1>2 DEF RSeenOK, Unreported
<1>4. LoopsSeen(scopes, open, seen.plain \union seen.raised, seen.body) /\ Late(scopes, open)
  BY <1>2 DEF LoopsSeen, Late
<1>5. QED
  BY <1>3, <1>4 DEF AroundInv

-----------------------------------------------------------------------------

\* Wherever the walk is, a loop in which a read has seen what an earlier run left needs no
\* further mark on what it found there, and an assignment in a block to a variable of an outer
\* scope is captured (mark_loop_back_edges, Variable::captured_by_block).
THEOREM StaysAround == Spec => []AroundInv
<1>1. Inv /\ Inv' /\ LiveInv /\ LiveInv' /\ PlacedInv /\ PlacedInv' /\ RaisedInv /\ TrackedInv
        /\ AroundInv /\ [Next]_vars => AroundInv'
  <2>1. SUFFICES ASSUME Inv, Inv', LiveInv, LiveInv', PlacedInv, PlacedInv', RaisedInv,
                        TrackedInv, AroundInv, [Next]_vars
                 PROVE  AroundInv'
    OBVIOUS
  <2>2. CASE Write
    BY <2>1, <2>2, WriteAround
  <2>3. CASE WriteModified
    BY <2>1, <2>3, WriteModifiedAround
  <2>4. CASE WriteShort
    BY <2>1, <2>4, WriteShortAround
  <2>5. CASE Read
    BY <2>1, <2>5, ReadAround
  <2>6. CASE CondModified
    BY <2>1, <2>6, CondModifiedAround
  <2>7. CASE Cond \/ Logic \/ While \/ Post \/ Begin \/ Ensured
    BY <2>1, <2>7, EntersQuietlyAround
  <2>8. CASE Arm \/ Else \/ Rescue \/ Body \/ Test \/ Ensure
    BY <2>1, <2>8, TurnsAround
  <2>9. CASE EndCond \/ EndLogic \/ EndBegin \/ EndEnsure
    BY <2>1, <2>9, LeavesQuietlyAround
  <2>10. CASE Block \/ Def \/ Class
    BY <2>1, <2>10, ScopesAround
  <2>11. CASE EndWhile \/ EndPost
    BY <2>1, <2>11, EndLoopAround
  <2>12. CASE EndBlock
    BY <2>1, <2>12, EndBlockAround
  <2>13. CASE EndOwn
    BY <2>1, <2>13, EndOwnAround
  <2>14. CASE EndProgram
    BY <2>1, <2>14, EndProgramAround
  <2>15. CASE UNCHANGED vars
    BY <2>1, <2>15 DEF vars, AroundInv
  <2>16. CASE FirstShort
    BY <2>1, <2>16, FirstShortAround
  <2>17. QED
    BY <2>1, <2>2, <2>3, <2>4, <2>5, <2>6, <2>7, <2>8, <2>9, <2>10, <2>11, <2>12, <2>13, <2>14, <2>15, <2>16 DEF Next
<1>2. QED
  BY <1>1, Inductive, StaysAlive, StaysInPlace, StaysRaised, StaysTracked, InitAround, PTL
     DEF Spec

\* An assignment whose value a read gets in a later run of a loop or block is not reported, but
\* for those of Sequential and Hidden.
THEOREM AroundCorrect == Spec => []AroundIsNotReported
<1>1. AroundInv => AroundIsNotReported
  BY DEF AroundInv, RSeenOK, Unreported, AroundIsNotReported
<1>2. QED
  BY <1>1, StaysAround, PTL
====
