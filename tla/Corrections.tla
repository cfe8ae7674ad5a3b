---------------------------- MODULE Corrections ----------------------------
(***************************************************************************)
(* How the corrections the cops propose for one file become its new text   *)
(* (CorrectionSet in src/correction.rs): from_vec sorts them and drops     *)
(* those that run into one already kept, apply copies the source around    *)
(* the replacements in one scan.                                           *)
(***************************************************************************)
EXTENDS Naturals, Sequences

CONSTANTS
  Size,     \* bytes of the source
  LastCop,  \* cops are their registry indices, 0..LastCop
  MaxRaw    \* bound on the corrections collected

ASSUME BoundsAreNaturals == Size \in Nat /\ LastCop \in Nat /\ MaxRaw \in Nat

\* The bytes start..end-1 are to be replaced; an insertion has start = end.
Correction ==
  {c \in [start : 0..Size, end : 0..Size, cop : 0..LastCop] : c.start <= c.end}

VARIABLES
  phase,     \* "collect", "accept", "apply" or "done"
  raw,       \* the corrections, as the cops pushed them
  order,     \* the indices of raw, sorted
  accepted,  \* the indices kept
  i,         \* what the loop under way looks at next
  cursor,    \* the first byte of the source not yet dealt with
  result     \* the new text: stretches of the source (by = 0) and the
             \* replacements of accepted[by], with the bytes each stands for

vars == <<phase, raw, order, accepted, i, cursor, result>>

Segment == [from : 0..Size, to : 0..Size, by : Nat]

TypeOK ==
  /\ phase \in {"collect", "accept", "apply", "done"}
  /\ raw \in Seq(Correction)
  /\ Len(raw) <= MaxRaw
  /\ order \in Seq(1..Len(raw))
  /\ accepted \in Seq(1..Len(raw))
  /\ i \in Nat \ {0}
  /\ cursor \in 0..Size
  /\ result \in Seq(Segment)

Init ==
  /\ phase = "collect"
  /\ raw = <<>>
  /\ order = <<>>
  /\ accepted = <<>>
  /\ i = 1
  /\ cursor = 0
  /\ result = <<>>

\* A cop pushes a correction; the order is that of the walk, not of the offsets.
Collect ==
  /\ phase = "collect"
  /\ Len(raw) < MaxRaw
  /\ \E c \in Correction : raw' = Append(raw, c)
  /\ UNCHANGED <<phase, order, accepted, i, cursor, result>>

\* By start only: corrections at one offset stay in the order of the walk.
BeforeByStart(j, k) ==
  \/ raw[j].start < raw[k].start
  \/ raw[j].start = raw[k].start /\ j < k

\* The sort key, and the index itself since sort_by is stable.
Before(j, k) ==
  \/ raw[j].start < raw[k].start
  \/ raw[j].start = raw[k].start /\ raw[j].cop < raw[k].cop
  \/ raw[j].start = raw[k].start /\ raw[j].cop = raw[k].cop /\ j < k

IsSorted(p) ==
  /\ \A j, k \in DOMAIN p : j < k => Before(p[j], p[k])
  /\ \A j \in DOMAIN raw : \E k \in DOMAIN p : p[k] = j

Sort ==
  /\ phase = "collect"
  /\ \E p \in [1..Len(raw) -> 1..Len(raw)] : IsSorted(p) /\ order' = p
  /\ phase' = "accept"
  /\ UNCHANGED <<raw, accepted, i, cursor, result>>

\* Adjacent corrections count as overlapping.
TouchesLast(k) ==
  /\ accepted # <<>>
  /\ raw[k].start <= raw[accepted[Len(accepted)]].end

\* Correction k starts before the last one kept has ended.
RunsIntoLast(k) ==
  /\ accepted # <<>>
  /\ raw[k].start < raw[accepted[Len(accepted)]].end

Keep ==
  /\ phase = "accept"
  /\ i <= Len(order)
  /\ ~RunsIntoLast(order[i])
  /\ accepted' = Append(accepted, order[i])
  /\ i' = i + 1
  /\ UNCHANGED <<phase, raw, order, cursor, result>>

Drop ==
  /\ phase = "accept"
  /\ i <= Len(order)
  /\ RunsIntoLast(order[i])
  /\ i' = i + 1
  /\ UNCHANGED <<phase, raw, order, accepted, cursor, result>>

Built ==
  /\ phase = "accept"
  /\ i > Len(order)
  /\ phase' = "apply"
  /\ i' = 1
  /\ UNCHANGED <<raw, order, accepted, cursor, result>>

\* source[from..to], nothing if that is empty.
Copied(from, to) == IF from < to THEN <<[from |-> from, to |-> to, by |-> 0]>> ELSE <<>>

\* The cursor stays at the start of what was replaced.
SpliceFromStart ==
  /\ phase = "apply"
  /\ i <= Len(accepted)
  /\ LET c == raw[accepted[i]]
     IN  /\ result' = Append(result \o Copied(cursor, c.start),
                             [from |-> c.start, to |-> c.end, by |-> i])
         /\ cursor' = c.start
  /\ i' = i + 1
  /\ UNCHANGED <<phase, raw, order, accepted>>

Splice ==
  /\ phase = "apply"
  /\ i <= Len(accepted)
  /\ LET c == raw[accepted[i]]
     IN  /\ result' = Append(result \o Copied(cursor, c.start),
                             [from |-> c.start, to |-> c.end, by |-> i])
         /\ cursor' = c.end
  /\ i' = i + 1
  /\ UNCHANGED <<phase, raw, order, accepted>>

CopyRest ==
  /\ phase = "apply"
  /\ i > Len(accepted)
  /\ result' = result \o Copied(cursor, Size)
  /\ phase' = "done"
  /\ UNCHANGED <<raw, order, accepted, i, cursor>>

Next == Collect \/ Sort \/ Keep \/ Drop \/ Built \/ Splice \/ CopyRest

Spec == Init /\ [][Next]_vars

-----------------------------------------------------------------------------

Accepted(j) == \E k \in DOMAIN accepted : accepted[k] = j

\* A correction is dropped exactly if it starts inside one that is kept and comes
\* before it in the order of offsets and cops: what is kept depends on the corrections
\* and not on when the walk met them, never overlaps, and is not empty unless
\* nothing was proposed.
KeptIffUncontested ==
  phase \in {"apply", "done"} =>
    \A j \in DOMAIN raw :
      Accepted(j) <=> ~\E k \in DOMAIN raw :
                         Accepted(k) /\ Before(k, j) /\ raw[j].start < raw[k].end

\* Of two corrections that start at one offset the later cop's is kept only if the
\* earlier cop's is kept too and is an insertion.  src/correction.rs: "When two
\* corrections start at the same offset, the one from the earlier cop in registry
\* order wins."
EarlierCopWins ==
  phase \in {"apply", "done"} =>
    \A j, k \in DOMAIN raw :
      /\ raw[j].start = raw[k].start
      /\ raw[j].cop < raw[k].cop
      /\ Accepted(k)
      => Accepted(j) /\ raw[j].end = raw[j].start

\* The new text is the source with the bytes of every kept correction, and no others,
\* replaced, each once and in place: its segments stand for 0..Size without gap or
\* overlap.
ResultTiles ==
  phase = "done" =>
    /\ \A s \in DOMAIN result :
         /\ result[s].from = IF s = 1 THEN 0 ELSE result[s - 1].to
         /\ result[s].by # 0 =>
              LET c == raw[accepted[result[s].by]]
              IN  c.start = result[s].from /\ c.end = result[s].to
    /\ (IF result = <<>> THEN 0 ELSE result[Len(result)].to) = Size
    /\ \A k \in DOMAIN accepted : \E s \in DOMAIN result : result[s].by = k
    /\ \A s, t \in DOMAIN result :
         result[s].by # 0 /\ result[s].by = result[t].by => s = t
=============================================================================
