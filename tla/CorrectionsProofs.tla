------------------------- MODULE CorrectionsProofs -------------------------
(***************************************************************************)
(* Proofs about Corrections, for every source length, number of cops and   *)
(* number of corrections.                                                  *)
(***************************************************************************)
EXTENDS Corrections, SequenceTheorems, TLAPS

\* The fields of a proposed correction.
LEMMA RawOK ==
  ASSUME TypeOK, NEW j \in DOMAIN raw
  PROVE  /\ raw[j].start \in 0..Size /\ raw[j].end \in 0..Size
         /\ raw[j].start \in Nat /\ raw[j].end \in Nat /\ raw[j].cop \in Nat
         /\ raw[j].start <= raw[j].end
         /\ j \in 1..Len(raw) /\ j \in Nat
<1>1. raw[j] \in Correction
  BY DEF TypeOK
<1>2. raw[j] \in [start : 0..Size, end : 0..Size, cop : 0..LastCop]
  BY <1>1 DEF Correction
<1>3. raw[j].start <= raw[j].end
  BY <1>1 DEF Correction
<1> QED
  BY <1>1, <1>2, <1>3, BoundsAreNaturals DEF TypeOK

\* The order of the corrections is strict.
LEMMA BeforeIsStrict ==
  ASSUME TypeOK, NEW j \in DOMAIN raw, NEW k \in DOMAIN raw
  PROVE  /\ ~(Before(j, k) /\ Before(k, j))
         /\ Before(j, k) => raw[j].start <= raw[k].start
<1> QED
  BY RawOK DEF Before

\* A stretch of the source is a sequence of at most one segment.
LEMMA CopiedType ==
  ASSUME NEW a \in 0..Size, NEW b \in 0..Size
  PROVE  Copied(a, b) \in Seq(Segment)
<1>2. [from |-> a, to |-> b, by |-> 0] \in Segment
  BY DEF Segment
<1> QED
  BY <1>2 DEF Copied

-----------------------------------------------------------------------------
(* Types.                                                                  *)

\* Nothing is collected yet.
LEMMA TypedInit == Init => TypeOK
BY BoundsAreNaturals DEF Init, TypeOK

\* What Splice appends is a segment of the source.
LEMMA SpliceTyped ==
  ASSUME TypeOK, Splice
  PROVE  /\ i \in DOMAIN accepted /\ accepted[i] \in DOMAIN raw
         /\ raw[accepted[i]].start \in 0..Size /\ raw[accepted[i]].end \in 0..Size
         /\ Copied(cursor, raw[accepted[i]].start) \in Seq(Segment)
         /\ [from |-> raw[accepted[i]].start, to |-> raw[accepted[i]].end, by |-> i]
              \in Segment
<1>1. i \in DOMAIN accepted /\ accepted[i] \in DOMAIN raw
  BY DEF Splice, TypeOK
<1>2. raw[accepted[i]].start \in 0..Size /\ raw[accepted[i]].end \in 0..Size
  BY <1>1, RawOK
<1>3. Copied(cursor, raw[accepted[i]].start) \in Seq(Segment)
  BY <1>2, CopiedType DEF TypeOK
<1>4. i \in Nat
  BY DEF TypeOK
<1> QED
  BY <1>1, <1>2, <1>3, <1>4 DEF Segment

\* Every step keeps the types.
LEMMA TypedNext == TypeOK /\ [Next]_vars => TypeOK'
<1> SUFFICES ASSUME TypeOK, [Next]_vars
             PROVE  TypeOK'
  OBVIOUS
<1>1. CASE Collect
  <2>1. PICK c \in Correction : raw' = Append(raw, c)
    BY <1>1 DEF Collect
  <2>2. raw' \in Seq(Correction) /\ Len(raw') = Len(raw) + 1
    BY <2>1 DEF TypeOK
  <2>3. Len(raw') <= MaxRaw
    BY <1>1, <2>2, BoundsAreNaturals DEF Collect, TypeOK
  <2>4. 1..Len(raw) \subseteq 1..Len(raw')
    BY <2>2 DEF TypeOK
  <2>5. order' \in Seq(1..Len(raw')) /\ accepted' \in Seq(1..Len(raw'))
    BY <1>1, <2>4 DEF Collect, TypeOK
  <2> QED
    BY <1>1, <2>2, <2>3, <2>5 DEF Collect, TypeOK
<1>2. CASE Sort
  <2>1. PICK p \in [1..Len(raw) -> 1..Len(raw)] : order' = p
    BY <1>2 DEF Sort
  <2>2. Len(raw) \in Nat
    BY DEF TypeOK
  <2>3. order' \in Seq(1..Len(raw))
    BY <2>1, <2>2, SeqDef
  <2> QED
    BY <1>2, <2>3 DEF Sort, TypeOK
<1>3. CASE Keep
  <2>1. order[i] \in 1..Len(raw)
    BY <1>3 DEF Keep, TypeOK
  <2>2. accepted' \in Seq(1..Len(raw))
    BY <1>3, <2>1 DEF Keep, TypeOK
  <2> QED
    BY <1>3, <2>2 DEF Keep, TypeOK
<1>4. CASE Drop
  BY <1>4 DEF Drop, TypeOK
<1>5. CASE Built
  BY <1>5 DEF Built, TypeOK
<1>6. CASE Splice
  <2>1. result' \in Seq(Segment)
    <3> HIDE DEF Segment, Copied
    <3>1. result \in Seq(Segment)
      BY DEF TypeOK
    <3> QED
      BY <1>6, <3>1, SpliceTyped DEF Splice
  <2>2. cursor' \in 0..Size
    BY <1>6, SpliceTyped DEF Splice
  <2> QED
    BY <1>6, <2>1, <2>2 DEF Splice, TypeOK
<1>7. CASE CopyRest
  <2>1. Copied(cursor, Size) \in Seq(Segment)
    BY CopiedType, BoundsAreNaturals DEF TypeOK
  <2> QED
    BY <1>7, <2>1 DEF CopyRest, TypeOK
<1>8. CASE UNCHANGED vars
  BY <1>8 DEF vars, TypeOK
<1> QED
  BY <1>1, <1>2, <1>3, <1>4, <1>5, <1>6, <1>7, <1>8 DEF Next

\* The variables keep their types for every size of source and set of corrections.
THEOREM TypeCorrect == Spec => []TypeOK
BY TypedInit, TypedNext, PTL DEF Spec

-----------------------------------------------------------------------------
(* The loop of from_vec.                                                   *)

\* How many of the sorted corrections the loop has decided on.
Seen == CASE phase = "collect" -> 0
          [] phase = "accept"  -> i - 1
          [] OTHER             -> Len(order)

Contested(j) ==
  \E k \in DOMAIN raw : Accepted(k) /\ Before(k, j) /\ raw[j].start < raw[k].end

\* What is kept was seen; it is sorted and free of overlaps; what was seen and not
\* kept is contested by something kept.
LoopInv ==
  /\ phase = "collect" => accepted = <<>> /\ order = <<>> /\ i = 1
  /\ phase = "accept" => i <= Len(order) + 1
  /\ phase # "collect" => IsSorted(order)
  /\ \A j \in DOMAIN accepted : \E k \in 1..Seen : order[k] = accepted[j]
  /\ \A j, k \in DOMAIN accepted : j < k => Before(accepted[j], accepted[k])
  /\ \A j, k \in DOMAIN accepted : j < k => raw[accepted[j]].end <= raw[accepted[k]].start
  /\ \A k \in 1..Seen : Accepted(order[k]) \/ Contested(order[k])

\* Nothing is kept at first.
LEMMA LoopInit == Init => LoopInv
BY DEF Init, LoopInv, Seen

\* A correction that does not run into the last one kept overlaps none that is kept.
LEMMA KeepKeeps ==
  ASSUME TypeOK, LoopInv, Keep
  PROVE  LoopInv'
<1> DEFINE n == Len(accepted)
<1> DEFINE c == order[i]
<1>1. /\ n \in Nat /\ i \in DOMAIN order /\ i \in Nat /\ c \in DOMAIN raw
      /\ accepted' = Append(accepted, c) /\ Len(accepted') = n + 1
      /\ accepted'[n + 1] = c
      /\ \A j \in 1..n : accepted'[j] = accepted[j]
      /\ DOMAIN accepted = 1..n /\ DOMAIN accepted' = 1..(n + 1)
      /\ \A j \in 1..n : accepted[j] \in DOMAIN raw
  BY DEF Keep, TypeOK
<1>2. UNCHANGED <<phase, raw, order>> /\ phase = "accept" /\ i' = i + 1
  BY DEF Keep
<1>3. Seen = i - 1 /\ Seen' = i
  BY <1>1, <1>2 DEF Seen
<1>4. \A j, k : Before(j, k)' <=> Before(j, k)
  BY <1>2 DEF Before
<1>5. IsSorted(order)'
  BY <1>2, <1>4 DEF LoopInv, IsSorted
<1>6. (i <= Len(order) + 1)'
  BY <1>1, <1>2 DEF Keep, TypeOK
<1>7. \A j \in DOMAIN accepted' : \E k \in 1..Seen' : order'[k] = accepted'[j]
  <2> SUFFICES ASSUME NEW j \in 1..(n + 1)
               PROVE  \E k \in 1..i : order[k] = accepted'[j]
    BY <1>1, <1>2, <1>3
  <2>1. CASE j = n + 1
    BY <2>1, <1>1
  <2>2. CASE j \in 1..n
    <3>1. PICK k \in 1..Seen : order[k] = accepted[j]
      BY <2>2, <1>1 DEF LoopInv
    <3> QED
      BY <3>1, <2>2, <1>1, <1>3
  <2> QED
    BY <2>1, <2>2, <1>1
<1>8. \A j \in 1..n : Before(accepted[j], c)
  <2> SUFFICES ASSUME NEW j \in 1..n PROVE Before(accepted[j], c)
    OBVIOUS
  <2>1. PICK k \in 1..Seen : order[k] = accepted[j]
    BY <1>1 DEF LoopInv
  <2>2. k \in DOMAIN order /\ k < i
    BY <1>1, <1>3 DEF TypeOK
  <2>3. Before(order[k], order[i])
    BY <2>2, <1>1, <1>2 DEF LoopInv, IsSorted
  <2> QED
    BY <2>1, <2>3
<1>9. \A j \in 1..n : raw[accepted[j]].end <= raw[c].start
  <2> SUFFICES ASSUME NEW j \in 1..n PROVE raw[accepted[j]].end <= raw[c].start
    OBVIOUS
  <2>1. accepted # <<>> /\ n \in 1..n
    BY <1>1
  <2>2. ~(raw[c].start < raw[accepted[n]].end)
    BY <2>1 DEF Keep, RunsIntoLast
  <2>3. /\ raw[accepted[n]].end \in Nat /\ raw[accepted[n]].start \in Nat
        /\ raw[accepted[n]].start <= raw[accepted[n]].end
    BY <2>1, <1>1, RawOK
  <2>4. raw[accepted[j]].end \in Nat
    BY <1>1, RawOK
  <2>5. raw[c].start \in Nat
    BY <1>1, RawOK
  <2>6. j < n => raw[accepted[j]].end <= raw[accepted[n]].start
    BY <2>1, <1>1 DEF LoopInv
  <2> QED
    BY <2>2, <2>3, <2>4, <2>5, <2>6, <1>1
<1>10. \A j, k \in DOMAIN accepted' : j < k =>
         /\ Before(accepted'[j], accepted'[k])
         /\ raw[accepted'[j]].end <= raw[accepted'[k]].start
  <2> SUFFICES ASSUME NEW j \in 1..(n + 1), NEW k \in 1..(n + 1), j < k
               PROVE  /\ Before(accepted'[j], accepted'[k])
                      /\ raw[accepted'[j]].end <= raw[accepted'[k]].start
    BY <1>1
  <2>1. j \in 1..n /\ accepted'[j] = accepted[j]
    BY <1>1
  <2>2. CASE k = n + 1
    BY <2>1, <2>2, <1>1, <1>8, <1>9
  <2>3. CASE k \in 1..n
    BY <2>1, <2>3, <1>1 DEF LoopInv
  <2> QED
    BY <2>2, <2>3, <1>1
<1>11. \A m : Accepted(m) => Accepted(m)'
  BY <1>1 DEF Accepted
<1>12. accepted'[n + 1] = order[i] /\ n + 1 \in DOMAIN accepted'
  BY <1>1
<1>13. \A k \in 1..Seen' : Accepted(order[k])' \/ Contested(order[k])'
  <2> SUFFICES ASSUME NEW k \in 1..i
               PROVE  Accepted(order[k])' \/ Contested(order[k])'
    BY <1>3
  <2>1. CASE k = i
    BY <2>1, <1>12, <1>2 DEF Accepted
  <2>2. CASE k # i
    <3>1. k \in 1..Seen
      BY <2>2, <1>1, <1>3
    <3>2. Accepted(order[k]) \/ Contested(order[k])
      BY <3>1 DEF LoopInv
    <3>3. Contested(order[k]) => Contested(order[k])'
      <4> SUFFICES ASSUME Contested(order[k]) PROVE Contested(order[k])'
        OBVIOUS
      <4>1. PICK m \in DOMAIN raw : /\ Accepted(m) /\ Before(m, order[k])
                                    /\ raw[order[k]].start < raw[m].end
        BY DEF Contested
      <4>2. Accepted(m)'
        BY <4>1, <1>11
      <4>3. Before(m, order[k])'
        BY <4>1, <1>2 DEF Before
      <4> QED
        BY <4>1, <4>2, <4>3, <1>2 DEF Contested
    <3>4. Accepted(order[k]) => Accepted(order[k])'
      BY <1>1, <1>2 DEF Accepted
    <3> QED
      BY <3>2, <3>3, <3>4
  <2> QED
    BY <2>1, <2>2
<1> HIDE DEF n, c
<1> QED
  BY <1>2, <1>3, <1>4, <1>5, <1>6, <1>7, <1>10, <1>13 DEF LoopInv

\* A correction that is dropped is contested by the last one kept.
LEMMA DropKeeps ==
  ASSUME TypeOK, LoopInv, Drop
  PROVE  LoopInv'
<1> DEFINE last == accepted[Len(accepted)]
<1>1. /\ i \in DOMAIN order /\ i \in Nat /\ order[i] \in DOMAIN raw
      /\ Len(accepted) \in DOMAIN accepted /\ last \in DOMAIN raw
      /\ raw[order[i]].start < raw[last].end
  BY DEF Drop, RunsIntoLast, TypeOK
<1>2. UNCHANGED <<phase, raw, order, accepted>> /\ phase = "accept" /\ i' = i + 1
  BY DEF Drop
<1>3. Seen = i - 1 /\ Seen' = i
  BY <1>1, <1>2 DEF Seen
<1>4. Before(last, order[i])
  <2>1. PICK k \in 1..Seen : order[k] = last
    BY <1>1 DEF LoopInv
  <2>2. k \in DOMAIN order /\ k < i
    BY <2>1, <1>1, <1>3 DEF TypeOK
  <2>3. Before(order[k], order[i])
    BY <2>2, <1>1, <1>2 DEF LoopInv, IsSorted
  <2> QED
    BY <2>1, <2>3
<1>5. Contested(order[i])
  <2>1. Accepted(last)
    BY <1>1 DEF Accepted
  <2> QED
    BY <2>1, <1>1, <1>4 DEF Contested
<1> HIDE DEF last
<1>6. \A k \in 1..i : Accepted(order[k]) \/ Contested(order[k])
  <2>1. \A k \in 1..i : k \in 1..Seen \/ k = i
    BY <1>1, <1>3
  <2> QED
    BY <2>1, <1>5 DEF LoopInv
<1>7. \A k \in 1..i : Accepted(order[k])' \/ Contested(order[k])'
  BY <1>6, <1>2 DEF Accepted, Contested, Before
<1>8. \A j \in DOMAIN accepted : \E k \in 1..i : order[k] = accepted[j]
  <2>1. 1..Seen \subseteq 1..i
    BY <1>1, <1>3
  <2> QED
    BY <2>1 DEF LoopInv
<1>9. (i <= Len(order) + 1)'
  BY <1>1, <1>2 DEF TypeOK
<1>10. IsSorted(order)'
  BY <1>2 DEF LoopInv, IsSorted, Before
<1>11. /\ \A j, k \in DOMAIN accepted : j < k => Before(accepted[j], accepted[k])'
       /\ \A j, k \in DOMAIN accepted :
            j < k => raw[accepted[j]].end <= raw[accepted[k]].start
  BY <1>2 DEF LoopInv, Before
<1> QED
  BY <1>2, <1>3, <1>7, <1>8, <1>9, <1>10, <1>11 DEF LoopInv

\* Once the loop is over its invariant is of the whole of order, and stays.
LEMMA LaterKeeps ==
  ASSUME TypeOK, LoopInv, Built \/ Splice \/ CopyRest
  PROVE  LoopInv'
<1>1. UNCHANGED <<raw, order, accepted>> /\ phase # "collect" /\ phase' \in {"apply", "done"}
  BY DEF Built, Splice, CopyRest
<1>2. Seen' = Len(order)
  BY <1>1 DEF Seen
<1>3. Seen = Len(order)
  <2>1. CASE Built
    BY <2>1 DEF Built, Seen, LoopInv, TypeOK
  <2>2. CASE Splice \/ CopyRest
    BY <2>2 DEF Splice, CopyRest, Seen
  <2> QED
    BY <2>1, <2>2
<1>4. \A k \in 1..Seen : Accepted(order[k])' \/ Contested(order[k])'
  BY <1>1 DEF LoopInv, Accepted, Contested, Before
<1>5. IsSorted(order)'
  BY <1>1 DEF LoopInv, IsSorted, Before
<1>6. /\ \A j, k \in DOMAIN accepted : j < k => Before(accepted[j], accepted[k])'
      /\ \A j, k \in DOMAIN accepted :
           j < k => raw[accepted[j]].end <= raw[accepted[k]].start
      /\ \A j \in DOMAIN accepted : \E k \in 1..Seen : order[k] = accepted[j]
  BY <1>1 DEF LoopInv, Before
<1> QED
  BY <1>1, <1>2, <1>3, <1>4, <1>5, <1>6 DEF LoopInv

\* The loop's invariant holds after every step: of the loop by KeepKeeps, Drop's by
\* RunsIntoLast, and the others leave the corrections alone.
LEMMA LoopNext == TypeOK /\ LoopInv /\ [Next]_vars => LoopInv'
<1> SUFFICES ASSUME TypeOK, LoopInv, [Next]_vars
             PROVE  LoopInv'
  OBVIOUS
<1>1. CASE Collect
  <2>1. /\ phase' = "collect" /\ phase = "collect"
        /\ accepted' = <<>> /\ order' = <<>> /\ i' = 1
    BY <1>1 DEF Collect, LoopInv
  <2>2. Seen' = 0
    BY <2>1 DEF Seen
  <2> QED
    BY <2>1, <2>2 DEF LoopInv
<1>2. CASE Sort
  <2>1. PICK p \in [1..Len(raw) -> 1..Len(raw)] : IsSorted(p) /\ order' = p
    BY <1>2 DEF Sort
  <2>2. phase' = "accept" /\ accepted' = <<>> /\ i' = 1 /\ raw' = raw
    BY <1>2 DEF Sort, LoopInv
  <2>3. IsSorted(order)'
    BY <2>1, <2>2 DEF IsSorted, Before
  <2>4. Seen' = 0
    BY <2>2 DEF Seen
  <2>5. Len(order') \in Nat
    BY <1>2, TypedNext DEF Next, TypeOK
  <2> QED
    BY <2>2, <2>3, <2>4, <2>5 DEF LoopInv
<1>3. CASE UNCHANGED vars
  BY <1>3 DEF vars, LoopInv, Seen, IsSorted, Before, Accepted, Contested
<1> QED
  BY <1>1, <1>2, <1>3, KeepKeeps, DropKeeps, LaterKeeps DEF Next

-----------------------------------------------------------------------------

\* What is kept is not contested by anything kept.
LEMMA KeptIsUncontested ==
  ASSUME TypeOK, LoopInv, NEW j \in DOMAIN raw, Accepted(j)
  PROVE  ~Contested(j)
<1> SUFFICES ASSUME NEW k \in DOMAIN raw, Accepted(k), Before(k, j),
                    raw[j].start < raw[k].end
             PROVE  FALSE
  BY DEF Contested
<1>1. PICK a \in DOMAIN accepted : accepted[a] = j
  BY DEF Accepted
<1>2. PICK b \in DOMAIN accepted : accepted[b] = k
  BY DEF Accepted
<1>3. a \in Nat /\ b \in Nat
  BY DEF TypeOK
<1>4. CASE a < b
  BY <1>4, <1>1, <1>2, BeforeIsStrict DEF LoopInv
<1>5. CASE b < a
  <2>1. raw[k].end <= raw[j].start
    BY <1>5, <1>1, <1>2 DEF LoopInv
  <2> QED
    BY <2>1, RawOK
<1>6. CASE a = b
  BY <1>6, <1>1, <1>2, BeforeIsStrict
<1> QED
  BY <1>3, <1>4, <1>5, <1>6

\* When the loop has looked at every correction, its invariant is the property.
LEMMA LoopInvImpliesGreedy == TypeOK /\ LoopInv => KeptIffUncontested
<1> SUFFICES ASSUME TypeOK, LoopInv, phase \in {"apply", "done"}, NEW j \in DOMAIN raw
             PROVE  Accepted(j) <=> ~Contested(j)
  BY DEF KeptIffUncontested, Contested
<1>1. Accepted(j) => ~Contested(j)
  BY KeptIsUncontested
<1>2. Accepted(j) \/ Contested(j)
  <2>1. PICK k \in DOMAIN order : order[k] = j
    BY DEF LoopInv, IsSorted
  <2>2. k \in 1..Seen
    BY <2>1 DEF Seen, TypeOK
  <2> QED
    BY <2>1, <2>2 DEF LoopInv
<1> QED
  BY <1>1, <1>2

\* What the offsets and the cops decide, nothing else decides: a correction is kept
\* unless it starts inside a kept one that comes before it.
THEOREM Greedy == Spec => []KeptIffUncontested
<1>1. Init => TypeOK /\ LoopInv
  BY TypedInit, LoopInit
<1>2. TypeOK /\ LoopInv /\ [Next]_vars => (TypeOK /\ LoopInv)'
  BY TypedNext, LoopNext
<1> QED
  BY <1>1, <1>2, LoopInvImpliesGreedy, PTL DEF Spec

\* Of two corrections at one offset, the earlier cop's comes first in the order.
LEMMA GreedyImpliesEarlierCop ==
  TypeOK /\ KeptIffUncontested => EarlierCopWins
<1> SUFFICES ASSUME TypeOK, KeptIffUncontested, phase \in {"apply", "done"},
                    NEW j \in DOMAIN raw, NEW k \in DOMAIN raw,
                    raw[j].start = raw[k].start, raw[j].cop < raw[k].cop, Accepted(k)
             PROVE  Accepted(j) /\ raw[j].end = raw[j].start
  BY DEF EarlierCopWins
<1>1. Before(j, k)
  BY DEF Before
<1>2. Accepted(j)
  <2>1. SUFFICES ASSUME NEW a \in DOMAIN raw, Accepted(a), Before(a, j),
                        raw[j].start < raw[a].end
                 PROVE  FALSE
    BY DEF KeptIffUncontested
  <2>2. Before(a, k)
    BY <2>1, RawOK DEF Before
  <2> QED
    BY <2>1, <2>2 DEF KeptIffUncontested
<1>3. ~(raw[k].start < raw[j].end)
  BY <1>1, <1>2 DEF KeptIffUncontested
<1> QED
  BY <1>2, <1>3, RawOK

\* The earlier cop wins a shared offset; a later one gets a share only behind an
\* insertion.
THEOREM EarlierCopAlwaysWins == Spec => []EarlierCopWins
BY TypeCorrect, Greedy, GreedyImpliesEarlierCop, PTL

-----------------------------------------------------------------------------
(* The scan of apply.                                                      *)

\* The bytes q stands for, up to which it has come.
Reach(q) == IF q = <<>> THEN 0 ELSE q[Len(q)].to
Chained(q) == \A s \in DOMAIN q : q[s].from = IF s = 1 THEN 0 ELSE q[s - 1].to
Once(q) == \A s, t \in DOMAIN q : q[s].by # 0 /\ q[s].by = q[t].by => s = t

\* A segment that begins where q has come to, and replaces what q has not replaced.
LEMMA AddSegment ==
  ASSUME NEW q \in Seq(Segment), NEW g \in Segment, Chained(q), Once(q),
         g.from = Reach(q), g.by # 0 => \A s \in DOMAIN q : q[s].by # g.by
  PROVE  /\ Append(q, g) \in Seq(Segment)
         /\ Chained(Append(q, g)) /\ Once(Append(q, g)) /\ Reach(Append(q, g)) = g.to
         /\ DOMAIN Append(q, g) = DOMAIN q \union {Len(q) + 1}
         /\ \A s \in DOMAIN q : Append(q, g)[s] = q[s]
         /\ Append(q, g)[Len(q) + 1] = g
<1> DEFINE r == Append(q, g)
<1>1. /\ r \in Seq(Segment) /\ r # <<>> /\ Len(r) = Len(q) + 1 /\ Len(q) \in Nat
      /\ DOMAIN q = 1..Len(q) /\ DOMAIN r = 1..(Len(q) + 1)
      /\ \A s \in 1..Len(q) : r[s] = q[s]
      /\ r[Len(q) + 1] = g
  <2> HIDE DEF Segment
  <2> QED
    BY AppendProperties, LenProperties
<1> HIDE DEF r
<1>2. Reach(r) = g.to
  BY <1>1 DEF Reach
<1>3. Chained(r)
  <2> SUFFICES ASSUME NEW s \in 1..(Len(q) + 1)
               PROVE  r[s].from = IF s = 1 THEN 0 ELSE r[s - 1].to
    BY <1>1 DEF Chained
  <2>1. CASE s \in 1..Len(q)
    <3>1. s = 1 \/ s - 1 \in 1..Len(q)
      BY <2>1, <1>1
    <3> QED
      BY <2>1, <3>1, <1>1 DEF Chained
  <2>2. CASE s = Len(q) + 1 /\ q = <<>>
    BY <2>2, <1>1 DEF Reach
  <2>3. CASE s = Len(q) + 1 /\ q # <<>>
    <3>1. s # 1 /\ s - 1 = Len(q) /\ Len(q) \in 1..Len(q)
      BY <2>3, <1>1
    <3> QED
      BY <2>3, <3>1, <1>1 DEF Reach
  <2> QED
    BY <2>1, <2>2, <2>3, <1>1
<1>4. Once(r)
  <2> SUFFICES ASSUME NEW s \in 1..(Len(q) + 1), NEW t \in 1..(Len(q) + 1),
                      r[s].by # 0, r[s].by = r[t].by
               PROVE  s = t
    BY <1>1 DEF Once
  <2>1. CASE s \in 1..Len(q) /\ t \in 1..Len(q)
    BY <2>1, <1>1 DEF Once
  <2>2. CASE s = Len(q) + 1 /\ t \in 1..Len(q)
    BY <2>2, <1>1
  <2>3. CASE s \in 1..Len(q) /\ t = Len(q) + 1
    BY <2>3, <1>1
  <2> QED
    BY <2>1, <2>2, <2>3, <1>1
<1>5. DOMAIN r = DOMAIN q \union {Len(q) + 1}
  BY <1>1
<1> QED
  BY <1>1, <1>2, <1>3, <1>4, <1>5 DEF r

\* Copying the source from where q has come to replaces nothing.
LEMMA AddCopied ==
  ASSUME NEW q \in Seq(Segment), Chained(q), Once(q), NEW a \in 0..Size, a = Reach(q),
         NEW b \in 0..Size, a <= b
  PROVE  /\ (q \o Copied(a, b)) \in Seq(Segment)
         /\ Chained(q \o Copied(a, b)) /\ Once(q \o Copied(a, b))
         /\ Reach(q \o Copied(a, b)) = b
         /\ \A s \in DOMAIN (q \o Copied(a, b)) :
              (q \o Copied(a, b))[s].by # 0 =>
                s \in DOMAIN q /\ (q \o Copied(a, b))[s] = q[s]
         /\ \A s \in DOMAIN q :
              s \in DOMAIN (q \o Copied(a, b)) /\ (q \o Copied(a, b))[s] = q[s]
<1>1. CASE a < b
  <2> DEFINE g == [from |-> a, to |-> b, by |-> 0]
  <2>1. g \in Segment /\ g.from = a /\ g.to = b /\ g.by = 0
    BY DEF Segment
  <2> HIDE DEF g, Segment
  <2>2. q \o Copied(a, b) = Append(q, g)
    <3>1. Copied(a, b) = <<g>>
      BY <1>1 DEF Copied, g
    <3> QED
      BY <3>1, <2>1
  <2>3. Len(q) \in Nat /\ DOMAIN q = 1..Len(q)
    OBVIOUS
  <2> QED
    BY <2>1, <2>2, <2>3, AddSegment
<1>2. CASE ~(a < b)
  <2>1. a = b
    BY <1>2
  <2>2. Copied(a, b) = <<>>
    BY <1>2 DEF Copied
  <2>3. q \o Copied(a, b) = q
    <3> HIDE DEF Segment
    <3> QED
      BY <2>2
  <2> QED
    BY <2>1, <2>3
<1> QED
  BY <1>1, <1>2

\* Between two splices: result stands for the source up to the cursor, and for the
\* corrections before i, each once; what is left starts at the cursor or after it.
SpliceInv ==
  /\ phase \in {"collect", "accept"} => result = <<>> /\ cursor = 0
  /\ phase = "apply" =>
       /\ i <= Len(accepted) + 1
       /\ Reach(result) = cursor
       /\ cursor = IF i = 1 THEN 0 ELSE raw[accepted[i - 1]].end
       /\ \A s \in DOMAIN result : result[s].by < i
       /\ \A k \in 1..(i - 1) : \E s \in DOMAIN result : result[s].by = k
  /\ Chained(result)
  /\ Once(result)
  /\ \A s \in DOMAIN result : result[s].by # 0 =>
       /\ result[s].by \in DOMAIN accepted
       /\ raw[accepted[result[s].by]].start = result[s].from
       /\ raw[accepted[result[s].by]].end = result[s].to
  /\ phase = "done" =>
       /\ Reach(result) = Size
       /\ \A k \in DOMAIN accepted : \E s \in DOMAIN result : result[s].by = k

\* The new text is empty at first.
LEMMA SpliceInit == Init => SpliceInv
BY DEF Init, SpliceInv, Chained, Once

\* A splice goes on where the last one ended.
LEMMA SpliceKeeps ==
  ASSUME TypeOK, LoopInv, SpliceInv, Splice
  PROVE  SpliceInv'
<1> DEFINE c == raw[accepted[i]]
<1> DEFINE q == result \o Copied(cursor, c.start)
<1> DEFINE g == [from |-> c.start, to |-> c.end, by |-> i]
<1>1. /\ result \in Seq(Segment) /\ cursor \in 0..Size /\ i \in Nat /\ i # 0
      /\ phase = "apply" /\ phase' = "apply" /\ i' = i + 1
      /\ i \in DOMAIN accepted /\ DOMAIN accepted = 1..Len(accepted)
      /\ Len(accepted) \in Nat
      /\ UNCHANGED <<raw, accepted>>
      /\ result' = Append(q, g) /\ cursor' = c.end
  BY SpliceTyped DEF Splice, TypeOK
<1>2. c.start \in 0..Size /\ c.end \in 0..Size /\ g \in Segment
  BY SpliceTyped
<1>3. cursor <= c.start
  <2>1. CASE i = 1
    BY <2>1, <1>1, <1>2 DEF SpliceInv
  <2>2. CASE i # 1
    <3>1. i - 1 \in DOMAIN accepted /\ i - 1 < i
      BY <2>2, <1>1
    <3>2. raw[accepted[i - 1]].end <= c.start
      BY <3>1, <1>1 DEF LoopInv
    <3> QED
      BY <3>2, <2>2, <1>1 DEF SpliceInv
  <2> QED
    BY <2>1, <2>2
<1>4. /\ Chained(result) /\ Once(result) /\ Reach(result) = cursor
      /\ \A s \in DOMAIN result : result[s].by < i
      /\ \A k \in 1..(i - 1) : \E s \in DOMAIN result : result[s].by = k
  BY <1>1 DEF SpliceInv
<1>5. g.from = c.start /\ g.to = c.end /\ g.by = i
  OBVIOUS
<1>6. /\ q \in Seq(Segment) /\ Chained(q) /\ Once(q) /\ Reach(q) = c.start
      /\ \A s \in DOMAIN q : q[s].by # 0 => s \in DOMAIN result /\ q[s] = result[s]
      /\ \A s \in DOMAIN result : s \in DOMAIN q /\ q[s] = result[s]
  <2> HIDE DEF c, Segment
  <2> QED
    BY <1>1, <1>2, <1>3, <1>4, AddCopied
<1> HIDE DEF q, g, Segment
<1>7. \A s \in DOMAIN q : q[s].by # g.by
  <2> SUFFICES ASSUME NEW s \in DOMAIN q, q[s].by = i PROVE FALSE
    BY <1>5
  <2>1. s \in DOMAIN result /\ result[s].by = i
    BY <1>1, <1>6
  <2>2. result[s].by < i
    BY <2>1, <1>4
  <2> QED
    BY <2>1, <2>2, <1>1
<1>8. /\ result' \in Seq(Segment) /\ Chained(result') /\ Once(result')
      /\ Reach(result') = c.end
      /\ DOMAIN result' = DOMAIN q \union {Len(q) + 1}
      /\ \A s \in DOMAIN q : result'[s] = q[s]
      /\ result'[Len(q) + 1] = g
  BY <1>1, <1>2, <1>5, <1>6, <1>7, AddSegment
<1>9. \A s \in DOMAIN result' : result'[s].by # 0 =>
        \/ s \in DOMAIN result /\ result'[s] = result[s]
        \/ result'[s] = g
  BY <1>6, <1>8
<1>10. \A s \in DOMAIN result' : result'[s].by < i + 1
  <2> SUFFICES ASSUME NEW s \in DOMAIN result' PROVE result'[s].by < i + 1
    OBVIOUS
  <2>1. CASE result'[s].by = 0
    BY <2>1, <1>1
  <2>2. CASE s \in DOMAIN result /\ result'[s] = result[s]
    <3>1. result[s] \in Segment
      BY <2>2, <1>1
    <3>3. result[s].by \in Nat
      BY <3>1 DEF Segment
    <3>2. result[s].by < i /\ i \in Nat
      BY <2>2, <1>1, <1>4
    <3> QED
      BY <2>2, <3>2, <3>3
  <2>3. CASE result'[s] = g
    BY <2>3, <1>1, <1>5
  <2> QED
    BY <2>1, <2>2, <2>3, <1>9
<1>11. \A k \in 1..i : \E s \in DOMAIN result' : result'[s].by = k
  <2> SUFFICES ASSUME NEW k \in 1..i PROVE \E s \in DOMAIN result' : result'[s].by = k
    OBVIOUS
  <2>1. CASE k = i
    BY <2>1, <1>5, <1>8
  <2>2. CASE k # i
    <3>1. k \in 1..(i - 1)
      BY <2>2, <1>1
    <3>2. PICK s \in DOMAIN result : result[s].by = k
      BY <3>1, <1>4
    <3> QED
      BY <3>2, <1>6, <1>8
  <2> QED
    BY <2>1, <2>2
<1>12. \A s \in DOMAIN result' : result'[s].by # 0 =>
         /\ result'[s].by \in DOMAIN accepted
         /\ raw[accepted[result'[s].by]].start = result'[s].from
         /\ raw[accepted[result'[s].by]].end = result'[s].to
  <2> SUFFICES ASSUME NEW s \in DOMAIN result', result'[s].by # 0
               PROVE  /\ result'[s].by \in DOMAIN accepted
                      /\ raw[accepted[result'[s].by]].start = result'[s].from
                      /\ raw[accepted[result'[s].by]].end = result'[s].to
    OBVIOUS
  <2>1. CASE s \in DOMAIN result /\ result'[s] = result[s]
    BY <2>1 DEF SpliceInv
  <2>2. CASE result'[s] = g
    BY <2>2, <1>1, <1>5
  <2> QED
    BY <2>1, <2>2, <1>9
<1>13. /\ i' <= Len(accepted) + 1
       /\ cursor' = IF i' = 1 THEN 0 ELSE raw[accepted[i' - 1]].end
  BY <1>1
<1>14. Reach(result') = cursor'
  BY <1>1, <1>8
<1>15. \A k \in 1..(i' - 1) : \E s \in DOMAIN result' : result'[s].by = k
  BY <1>1, <1>11
<1>16. \A s \in DOMAIN result' : result'[s].by < i'
  BY <1>1, <1>10
<1> HIDE DEF c
<1>17. /\ Chained(result)' /\ Once(result)' /\ (Reach(result) = cursor)'
  BY <1>8, <1>14 DEF Chained, Once, Reach
<1> QED
  BY <1>1, <1>12, <1>13, <1>15, <1>16, <1>17 DEF SpliceInv

\* The rest of the source ends the new text.
LEMMA CopyRestKeeps ==
  ASSUME TypeOK, SpliceInv, CopyRest
  PROVE  SpliceInv'
<1> DEFINE q == result \o Copied(cursor, Size)
<1>1. /\ result \in Seq(Segment) /\ cursor \in 0..Size /\ Size \in 0..Size
      /\ cursor <= Size /\ phase = "apply" /\ phase' = "done" /\ result' = q
      /\ UNCHANGED <<raw, accepted, i, cursor>>
      /\ i \in Nat /\ Len(accepted) \in Nat /\ DOMAIN accepted = 1..Len(accepted)
      /\ i > Len(accepted)
  BY BoundsAreNaturals DEF CopyRest, TypeOK
<1>2. /\ Chained(result) /\ Once(result) /\ Reach(result) = cursor
      /\ \A k \in 1..(i - 1) : \E s \in DOMAIN result : result[s].by = k
  BY <1>1 DEF SpliceInv
<1>3. /\ q \in Seq(Segment) /\ Chained(q) /\ Once(q) /\ Reach(q) = Size
      /\ \A s \in DOMAIN q : q[s].by # 0 => s \in DOMAIN result /\ q[s] = result[s]
      /\ \A s \in DOMAIN result : s \in DOMAIN q /\ q[s] = result[s]
  <2> HIDE DEF Segment
  <2> QED
    BY <1>1, <1>2, AddCopied
<1> HIDE DEF q, Segment
<1>4. \A k \in DOMAIN accepted : \E s \in DOMAIN q : q[s].by = k
  <2> SUFFICES ASSUME NEW k \in DOMAIN accepted PROVE \E s \in DOMAIN q : q[s].by = k
    OBVIOUS
  <2>1. k \in 1..(i - 1)
    BY <1>1
  <2> QED
    BY <2>1, <1>2, <1>3
<1>5. \A s \in DOMAIN q : q[s].by # 0 =>
        /\ q[s].by \in DOMAIN accepted
        /\ raw[accepted[q[s].by]].start = q[s].from
        /\ raw[accepted[q[s].by]].end = q[s].to
  BY <1>3 DEF SpliceInv
<1>6. /\ Chained(result)' /\ Once(result)' /\ (Reach(result) = Size)'
  BY <1>1, <1>3 DEF Chained, Once, Reach
<1> QED
  BY <1>1, <1>4, <1>5, <1>6 DEF SpliceInv

\* The splice's invariant holds after every step.
LEMMA SpliceNext == TypeOK /\ LoopInv /\ SpliceInv /\ [Next]_vars => SpliceInv'
<1> SUFFICES ASSUME TypeOK, LoopInv, SpliceInv, [Next]_vars
             PROVE  SpliceInv'
  OBVIOUS
<1>1. CASE Collect \/ Sort \/ Keep \/ Drop
  <2>1. result' = <<>> /\ cursor' = 0 /\ phase' \in {"collect", "accept"}
    BY <1>1 DEF Collect, Sort, Keep, Drop, SpliceInv
  <2> QED
    BY <2>1 DEF SpliceInv, Chained, Once
<1>2. CASE Built
  <2>1. /\ result' = <<>> /\ cursor' = 0 /\ phase' = "apply" /\ i' = 1
        /\ accepted' = accepted /\ Len(accepted) \in Nat
    BY <1>2 DEF Built, SpliceInv, TypeOK
  <2> QED
    BY <2>1 DEF SpliceInv, Chained, Once, Reach
<1>3. CASE UNCHANGED vars
  BY <1>3 DEF vars, SpliceInv, Chained, Once, Reach
<1> QED
  BY <1>1, <1>2, <1>3, SpliceKeeps, CopyRestKeeps DEF Next

\* The new text is the source with the kept corrections, and nothing else, in place.
THEOREM TextIsTiled == Spec => []ResultTiles
<1>1. Init => TypeOK /\ LoopInv /\ SpliceInv
  BY TypedInit, LoopInit, SpliceInit
<1>2. TypeOK /\ LoopInv /\ SpliceInv /\ [Next]_vars => (TypeOK /\ LoopInv /\ SpliceInv)'
  BY TypedNext, LoopNext, SpliceNext
<1>3. SpliceInv => ResultTiles
  BY DEF SpliceInv, ResultTiles, Chained, Once, Reach
<1> QED
  BY <1>1, <1>2, <1>3, PTL DEF Spec
=============================================================================
