-------------------------- MODULE DirectivesProofs --------------------------
(***************************************************************************)
(* Proofs about Directives, for any names, keys, registry and settings and *)
(* for files and comments of any length.                                   *)
(***************************************************************************)
EXTENDS Directives, SequenceTheorems, TLAPS

-----------------------------------------------------------------------------
(* The inductive invariant. *)

\* The comments are read from the top to the bottom.
SortedOK ==
  \A i, j \in DOMAIN written : i < j => written[i].line <= written[j].line

\* Directive i is of a disable in the comments, no two are of the same, and what it says
\* is what was written.
DirectivesOK ==
  \A i \in DOMAIN directives :
    LET d == directives[i] IN
    /\ d.at \in DOMAIN written
    /\ written[d.at].verb = "disable"
    /\ written[d.at].name = d.name
    /\ written[d.at].line = d.first
    /\ \A j \in DOMAIN directives : directives[j].at = d.at => i = j

IsOpen(i) == open[KeyOf[directives[i].name]] = i

\* An open directive is one of its key, and none of the comments after it ends it.
OpenOK ==
  /\ \A k \in Names : open[k] # 0 =>
       /\ open[k] \in DOMAIN directives
       /\ KeyOf[directives[open[k]].name] = k
       /\ \A l \in Lines : directives[open[k]].first <= l => Reaches(written, directives[open[k]].at, l)
  /\ phase # "scan" => \A k \in Names : open[k] = 0

\* A closed directive has the lines its comment reaches, or fewer; while the comments are
\* being read none of them is below the last comment.
ClosedOK ==
  \A i \in DOMAIN directives : ~IsOpen(i) =>
    /\ \A l \in Lines : Within(l, <<directives[i].first, directives[i].last>>)
                          => Reaches(written, directives[i].at, l)
    /\ phase = "scan" => directives[i].last <= written[Len(written)].line

\* Every range is one of a closed directive.
RangesOK ==
  \A k \in Names : \A r \in ranges[k] :
    \E i \in DOMAIN directives :
      /\ ~IsOpen(i)
      /\ KeyOf[directives[i].name] = k
      /\ r = <<directives[i].first, directives[i].last>>

\* A line that a comment reaches is in a range of the key or below its open directive.
ReachedOK ==
  \A p \in DOMAIN written, l \in Lines : Reaches(written, p, l) =>
    LET k == KeyOf[written[p].name] IN
    InRange(k, l) \/ (open[k] # 0 /\ directives[open[k]].first <= l)

\* What the last two steps have found out.
UsedOK ==
  phase \in {"report", "done"} =>
    \A i \in DOMAIN directives : \A o \in Found :
      ~setting.ignore /\ Marks(directives[i], o) => directives[i].used
UnusedOK ==
  \A i \in DOMAIN directives :
    directives[i].used =>
      phase # "scan" /\ ~setting.ignore /\ \E o \in Found : Marks(directives[i], o)
ReportedOK ==
  reported = IF phase # "done" THEN {}
             ELSE {i \in DOMAIN directives :
                     /\ ReportsRedundant
                     /\ ~directives[i].used
                     /\ ~InRange(Redundant, directives[i].first)
                     /\ IsRedundant(directives[i].name)}
OffendsOK == offends \subseteq {c \in Cops \ {Redundant} : Matches(c)} \X Lines

IInv ==
  /\ TypeOK
  /\ SortedOK
  /\ DirectivesOK
  /\ OpenOK
  /\ ClosedOK
  /\ RangesOK
  /\ ReachedOK
  /\ UsedOK
  /\ UnusedOK
  /\ ReportedOK
  /\ OffendsOK

-----------------------------------------------------------------------------
(* What the helpers of the steps do.                                       *)

\* The ranges that a step may write are of the right type.
LEMMA LinesAreNat == Lines \subseteq Nat /\ Lines \subseteq 1 .. Eof /\ Eof \in 1 .. Eof
BY ConstantsOK DEF Lines, Eof

\* Another comment behind the ones read: it cuts off the disables that it ends and
\* changes nothing else in what they reach.
LEMMA ReachesFollows ==
  ASSUME NEW w \in Seq(Mentions), NEW m \in Mentions, NEW i \in DOMAIN w, NEW l \in Lines
  PROVE  Reaches(Append(w, m), i, l) <=>
           /\ Reaches(w, i, l)
           /\ (/\ ~w[i].inline
               /\ m.verb = "enable"
               /\ ~m.inline
               /\ Closes(KeyOf[m.name], KeyOf[w[i].name])) => l <= m.line
<1> DEFINE v == Append(w, m)
<1>1. /\ Len(w) \in Nat
      /\ DOMAIN w = 1 .. Len(w)
      /\ Len(v) = Len(w) + 1
      /\ \A j \in 1 .. Len(w) : v[j] = w[j]
      /\ v[Len(w) + 1] = m
  OBVIOUS
<1>2. i \in 1 .. Len(w) /\ v[i] = w[i]
  BY <1>1
<1>3. \A j \in i + 1 .. Len(w) : v[j] = w[j]
  BY <1>1, <1>2
<1>4. i + 1 .. Len(v) = (i + 1 .. Len(w)) \union {Len(w) + 1}
  BY <1>1, <1>2
<1> HIDE DEF v
<1>5. Reaches(v, i, l) <=>
           /\ Reaches(w, i, l)
           /\ (/\ ~w[i].inline
               /\ m.verb = "enable"
               /\ ~m.inline
               /\ Closes(KeyOf[m.name], KeyOf[w[i].name])) => l <= m.line
  BY <1>1, <1>2, <1>3, <1>4 DEF Reaches
<1>6. QED
  BY <1>5 DEF v

\* Reading one more comment: its line is the last, and the ones before keep their places.
LEMMA FollowsFacts ==
  ASSUME TypeOK, SortedOK, NEW m \in Mentions, Follows(m)
  PROVE  /\ phase = "scan"
         /\ written' = Append(written, m)
         /\ written' \in Seq(Mentions)
         /\ Len(written) \in Nat
         /\ Len(written') = Len(written) + 1
         /\ DOMAIN written = 1 .. Len(written)
         /\ DOMAIN written' = 1 .. Len(written) + 1
         /\ \A j \in DOMAIN written : written'[j] = written[j] /\ written[j] \in Mentions
         /\ written'[Len(written) + 1] = m
         /\ \A j \in DOMAIN written : written[j].line <= m.line
         /\ SortedOK'
<1>1. /\ phase = "scan"
      /\ written' = Append(written, m)
      /\ written' \in Seq(Mentions)
      /\ Len(written) \in Nat
      /\ Len(written') = Len(written) + 1
      /\ DOMAIN written = 1 .. Len(written)
      /\ DOMAIN written' = 1 .. Len(written) + 1
      /\ \A j \in DOMAIN written : written'[j] = written[j] /\ written[j] \in Mentions
      /\ written'[Len(written) + 1] = m
  BY DEF TypeOK, Follows
<1>a. m.line \in Nat /\ \A j \in DOMAIN written : written[j].line \in Nat
  BY <1>1, LinesAreNat DEF Mentions
<1>2. ASSUME NEW j \in DOMAIN written PROVE written[j].line <= m.line
  <2>1. written # <<>> /\ Len(written) \in DOMAIN written
    BY <1>1, <1>2
  <2>2. written[Len(written)].line <= m.line
    BY <1>1, <1>a, <2>1 DEF Follows
  <2>3. written[j].line <= written[Len(written)].line
    BY <1>1, <1>2, <1>a, <2>1 DEF SortedOK
  <2>4. QED
    BY <1>2, <1>a, <2>1, <2>2, <2>3
<1>3. SortedOK'
  <2>1. SUFFICES ASSUME NEW i \in DOMAIN written', NEW j \in DOMAIN written', i < j
                 PROVE  written'[i].line <= written'[j].line
    BY DEF SortedOK
  <2>2. i \in DOMAIN written /\ written'[i] = written[i]
    BY <1>1, <2>1
  <2>3. CASE j \in DOMAIN written
    BY <1>1, <2>1, <2>2, <2>3 DEF SortedOK
  <2>4. CASE j = Len(written) + 1
    BY <1>1, <1>2, <2>2, <2>4
  <2>5. QED
    BY <1>1, <2>1, <2>3, <2>4
<1>4. QED
  BY <1>1, <1>2, <1>3

\* Closing changes the last lines of the directives that are open and nothing else.
LEMMA DirectivesClosedFacts ==
  ASSUME TypeOK, NEW ks \in SUBSET Names, NEW l \in 1 .. Eof
  PROVE  LET c == DirectivesClosed(ks, l) IN
         /\ c \in Seq(DirectiveRecords)
         /\ Len(c) = Len(directives)
         /\ DOMAIN c = DOMAIN directives
         /\ \A i \in DOMAIN directives :
              /\ c[i].name = directives[i].name
              /\ c[i].at = directives[i].at
              /\ c[i].first = directives[i].first
              /\ c[i].used = directives[i].used
              /\ c[i].last = IF \E k \in ks : open[k] = i THEN l ELSE directives[i].last
<1> DEFINE c == DirectivesClosed(ks, l)
<1>1. directives \in Seq(DirectiveRecords) /\ Len(directives) \in Nat
      /\ DOMAIN directives = 1 .. Len(directives)
      /\ \A i \in DOMAIN directives : directives[i] \in DirectiveRecords
  BY DEF TypeOK
<1>2. ASSUME NEW i \in DOMAIN directives
      PROVE  /\ c[i] \in DirectiveRecords
             /\ c[i].name = directives[i].name
             /\ c[i].at = directives[i].at
             /\ c[i].first = directives[i].first
             /\ c[i].used = directives[i].used
             /\ c[i].last = IF \E k \in ks : open[k] = i THEN l ELSE directives[i].last
  <2>1. directives[i] \in DirectiveRecords
    BY <1>1, <1>2
  <2>2. CASE \E k \in ks : open[k] = i
    <3>1. c[i] = [directives[i] EXCEPT !.last = l]
      BY <1>2, <2>2 DEF DirectivesClosed
    <3>2. QED
      BY <2>1, <2>2, <3>1 DEF DirectiveRecords
  <2>3. CASE ~\E k \in ks : open[k] = i
    <3>1. c[i] = directives[i]
      BY <1>2, <2>3 DEF DirectivesClosed
    <3>2. QED
      BY <2>1, <2>3, <3>1 DEF DirectiveRecords
  <2>4. QED
    BY <2>2, <2>3
<1>3. DOMAIN c = DOMAIN directives
  BY DEF DirectivesClosed
<1>4. c \in [1 .. Len(directives) -> DirectiveRecords]
  BY <1>1, <1>2, <1>3 DEF DirectivesClosed
<1>5. c \in Seq(DirectiveRecords) /\ Len(c) = Len(directives)
  BY <1>1, <1>4
<1>6. QED
  BY <1>2, <1>3, <1>5

\* The closed ranges are of lines of the file.
LEMMA RangesClosedType ==
  ASSUME TypeOK, OpenOK, NEW ks \in SUBSET Names, NEW l \in 1 .. Eof
  PROVE  RangesClosed(ks, l) \in [Names -> SUBSET (Lines \X (1 .. Eof))]
<1>1. \A k \in Names : open[k] # 0 => directives[open[k]].first \in Lines
  <2>1. \A k \in Names : open[k] # 0 => open[k] \in DOMAIN directives
    BY DEF OpenOK
  <2>2. \A i \in DOMAIN directives : directives[i] \in DirectiveRecords
    BY DEF TypeOK
  <2>3. QED
    BY <2>1, <2>2 DEF DirectiveRecords
<1>2. ASSUME NEW k \in Names
      PROVE  RangesClosed(ks, l)[k] \in SUBSET (Lines \X (1 .. Eof))
  <2>1. ranges[k] \in SUBSET (Lines \X (1 .. Eof))
    BY DEF TypeOK
  <2>2. CASE k \in ks /\ open[k] # 0
    <3>1. RangesClosed(ks, l)[k] = ranges[k] \union {<<directives[open[k]].first, l>>}
      BY <2>2 DEF RangesClosed
    <3>2. <<directives[open[k]].first, l>> \in Lines \X (1 .. Eof)
      BY <1>1, <2>2
    <3>3. QED
      BY <2>1, <3>1, <3>2
  <2>3. CASE ~(k \in ks /\ open[k] # 0)
    BY <2>1, <2>3 DEF RangesClosed
  <2>4. QED
    BY <2>2, <2>3
<1>3. QED
  BY <1>2 DEF RangesClosed

\* A directive that is closed afterwards was closed before and is as it was, or it was
\* open for one of the keys and ends in line l.  Every range is still one of a closed
\* directive.
LEMMA ClosingFacts ==
  ASSUME TypeOK, DirectivesOK, OpenOK, RangesOK, NEW ks \in SUBSET Names, NEW l \in 1 .. Eof
  PROVE  LET d == DirectivesClosed(ks, l)
             o == OpenClosed(ks)
             key(i) == KeyOf[directives[i].name]
         IN
         /\ \A i \in DOMAIN directives : o[key(i)] # i =>
              \/ ~IsOpen(i) /\ d[i].last = directives[i].last
              \/ IsOpen(i) /\ key(i) \in ks /\ d[i].last = l
         /\ \A k \in Names : \A x \in RangesClosed(ks, l)[k] :
              \E i \in DOMAIN directives :
                key(i) = k /\ o[k] # i /\ x = <<directives[i].first, d[i].last>>
<1> DEFINE d == DirectivesClosed(ks, l)
           o == OpenClosed(ks)
           key(i) == KeyOf[directives[i].name]
<1>1. /\ DOMAIN d = DOMAIN directives
      /\ \A i \in DOMAIN directives :
           d[i].last = IF \E k \in ks : open[k] = i THEN l ELSE directives[i].last
  BY DirectivesClosedFacts
<1>2. DOMAIN directives = 1 .. Len(directives) /\ Len(directives) \in Nat
      /\ \A i \in DOMAIN directives : directives[i] \in DirectiveRecords
  BY DEF TypeOK
<1>3. \A i \in DOMAIN directives : i # 0 /\ key(i) \in Names
  BY <1>2, ConstantsOK DEF DirectiveRecords
<1>4. ASSUME NEW i \in DOMAIN directives
      PROVE  (\E k \in ks : open[k] = i) <=> IsOpen(i) /\ key(i) \in ks
  BY <1>3, <1>4 DEF OpenOK, IsOpen
<1>5. ASSUME NEW i \in DOMAIN directives, o[key(i)] # i
      PROVE  \/ ~IsOpen(i) /\ d[i].last = directives[i].last
             \/ IsOpen(i) /\ key(i) \in ks /\ d[i].last = l
  BY <1>1, <1>3, <1>4, <1>5 DEF IsOpen, OpenClosed
<1>6. ASSUME NEW k \in Names, NEW x \in RangesClosed(ks, l)[k]
      PROVE  \E i \in DOMAIN directives :
               key(i) = k /\ o[k] # i /\ x = <<directives[i].first, d[i].last>>
  <2>1. CASE x \in ranges[k]
    <3>1. PICK i \in DOMAIN directives :
            /\ ~IsOpen(i)
            /\ key(i) = k
            /\ x = <<directives[i].first, directives[i].last>>
      BY <2>1 DEF RangesOK
    <3>2. d[i].last = directives[i].last
      BY <1>1, <1>4, <3>1
    <3>3. o[k] # i
      BY <1>3, <3>1 DEF IsOpen, OpenClosed
    <3>4. QED
      BY <3>1, <3>2, <3>3
  <2>2. CASE x \notin ranges[k]
    <3>1. k \in ks /\ open[k] # 0 /\ x = <<directives[open[k]].first, l>>
      BY <2>2 DEF RangesClosed
    <3>2. open[k] \in DOMAIN directives /\ key(open[k]) = k
      BY <3>1 DEF OpenOK
    <3>3. d[open[k]].last = l
      BY <1>1, <3>1, <3>2
    <3>4. o[k] # open[k]
      BY <3>1 DEF OpenClosed
    <3>5. QED
      BY <3>1, <3>2, <3>3, <3>4
  <2>3. QED
    BY <2>1, <2>2
<1>7. QED
  BY <1>5, <1>6

\* Every range stays, and what was open for one of the keys has become a range.
LEMMA RangesGrow ==
  ASSUME TypeOK, NEW ks \in SUBSET Names, NEW l \in 1 .. Eof, NEW k \in Names
  PROVE  /\ ranges[k] \subseteq RangesClosed(ks, l)[k]
         /\ k \in ks /\ open[k] # 0
              => <<directives[open[k]].first, l>> \in RangesClosed(ks, l)[k]
BY DEF RangesClosed

\* The types that the steps need.
LEMMA TypeFacts ==
  ASSUME TypeOK
  PROVE  /\ written \in Seq(Mentions)
         /\ DOMAIN written = 1 .. Len(written) /\ Len(written) \in Nat
         /\ \A p \in DOMAIN written :
              /\ written[p].line \in Lines /\ written[p].line \in Nat
              /\ KeyOf[written[p].name] \in Names
         /\ DOMAIN directives = 1 .. Len(directives) /\ Len(directives) \in Nat
         /\ \A i \in DOMAIN directives :
              /\ i # 0
              /\ directives[i] \in DirectiveRecords
              /\ directives[i].first \in Lines /\ directives[i].first \in Nat
              /\ directives[i].last \in 1 .. Eof /\ directives[i].last \in Nat
              /\ KeyOf[directives[i].name] \in Names
<1>1. /\ written \in Seq(Mentions)
      /\ DOMAIN written = 1 .. Len(written) /\ Len(written) \in Nat
      /\ \A p \in DOMAIN written : written[p] \in Mentions
      /\ DOMAIN directives = 1 .. Len(directives) /\ Len(directives) \in Nat
      /\ \A i \in DOMAIN directives : directives[i] \in DirectiveRecords
  BY DEF TypeOK
<1>2. KeyOf \in [Names -> Names] /\ Eof \in Nat
  BY ConstantsOK DEF Eof
<1>3. ASSUME NEW p \in DOMAIN written
      PROVE  /\ written[p].line \in Lines /\ written[p].line \in Nat
             /\ KeyOf[written[p].name] \in Names
  BY <1>1, <1>2, LinesAreNat DEF Mentions
<1>4. ASSUME NEW i \in DOMAIN directives
      PROVE  /\ i # 0
             /\ directives[i] \in DirectiveRecords
             /\ directives[i].first \in Lines /\ directives[i].first \in Nat
             /\ directives[i].last \in 1 .. Eof /\ directives[i].last \in Nat
             /\ KeyOf[directives[i].name] \in Names
  <2>1. /\ directives[i].name \in Names
        /\ directives[i].first \in Lines
        /\ directives[i].last \in 1 .. Eof
    BY <1>1, <1>4 DEF DirectiveRecords
  <2>2. KeyOf[directives[i].name] \in Names
    BY <1>2, <2>1
  <2>3. directives[i].first \in Nat
    BY <2>1, LinesAreNat
  <2>4. directives[i].last \in Nat
    BY <1>2, <2>1
  <2>5. i # 0
    BY <1>1, <1>4
  <2>6. QED
    BY <1>1, <1>4, <2>1, <2>2, <2>3, <2>4, <2>5
<1>5. QED
  BY <1>1, <1>3, <1>4

\* Nothing has been suppressed or reported before the first cop starts.
LEMMA InitOK == Init => IInv
<1> SUFFICES ASSUME Init PROVE IInv
  OBVIOUS
<1>1. Found \subseteq offends
  BY DEF Found
<1>2. offends \subseteq {c \in Cops \ {Redundant} : Matches(c)} \X Lines
  BY DEF Init
<1>3. TypeOK
  BY <1>1, <1>2, ConstantsOK DEF Init, TypeOK, Matches
<1>4. SortedOK /\ DirectivesOK /\ OpenOK /\ ClosedOK /\ RangesOK /\ ReachedOK
  BY DEF Init, SortedOK, DirectivesOK, OpenOK, ClosedOK, RangesOK, ReachedOK
<1>5. UsedOK /\ UnusedOK /\ ReportedOK /\ OffendsOK
  BY <1>2 DEF Init, UsedOK, UnusedOK, ReportedOK, OffendsOK
<1>6. QED
  BY <1>3, <1>4, <1>5 DEF IInv

-----------------------------------------------------------------------------
(* The steps. *)

\* A comment that is read keeps what is closed above it.
LEMMA ClosedAbove ==
  ASSUME TypeOK, SortedOK, ClosedOK, DirectivesOK, NEW m \in Mentions, Follows(m),
         NEW i \in DOMAIN directives, ~IsOpen(i)
  PROVE  directives[i].last <= m.line
<1>1. /\ phase = "scan"
      /\ DOMAIN written = 1 .. Len(written)
      /\ Len(written) \in Nat
      /\ \A j \in DOMAIN written : written[j].line <= m.line
  BY FollowsFacts
<1>2. directives[i].at \in DOMAIN written
  BY DEF DirectivesOK
<1>3. Len(written) \in DOMAIN written
  BY <1>1, <1>2
<1>4. directives[i].last <= written[Len(written)].line
  BY <1>1 DEF ClosedOK
<1>5. written[Len(written)].line <= m.line
  BY <1>1, <1>3
<1>6. written[Len(written)].line \in Nat /\ directives[i].last \in Nat
  BY <1>3, TypeFacts
<1>7. m.line \in Nat
  BY LinesAreNat DEF Mentions
<1>8. QED
  BY <1>4, <1>5, <1>6, <1>7

\* An enable ends what it closes in its line, and cuts off in the comments what it cuts
\* off in the ranges.
LEMMA EnableStep ==
  ASSUME IInv, NEW n \in Names, NEW l \in Lines, Enable(n, l)
  PROVE  /\ TypeOK' /\ SortedOK' /\ DirectivesOK'
         /\ OpenOK' /\ ClosedOK' /\ RangesOK' /\ ReachedOK'
<1> DEFINE m == Mention("enable", n, l, FALSE)
           ks == ClosedBy(KeyOf[n])
<1>1. TypeOK /\ SortedOK /\ DirectivesOK /\ OpenOK /\ ClosedOK /\ RangesOK /\ ReachedOK
  BY DEF IInv
<1>2. m \in Mentions /\ m.verb = "enable" /\ m.name = n /\ m.line = l /\ m.inline = FALSE
  BY DEF Mention, Mentions
<1>3. ks \in SUBSET Names /\ \A o \in Names : o \in ks <=> Closes(KeyOf[n], o)
  BY DEF ClosedBy
<1>4. Follows(m)
  BY DEF Enable
<1> HIDE DEF m, ks
<1>5. /\ phase = "scan"
      /\ written' = Append(written, m)
      /\ written' \in Seq(Mentions)
      /\ Len(written) \in Nat
      /\ Len(written') = Len(written) + 1
      /\ DOMAIN written = 1 .. Len(written)
      /\ DOMAIN written' = 1 .. Len(written) + 1
      /\ \A j \in DOMAIN written : written'[j] = written[j] /\ written[j] \in Mentions
      /\ written'[Len(written) + 1] = m
      /\ \A j \in DOMAIN written : written[j].line <= l
      /\ SortedOK'
  BY <1>1, <1>2, <1>4, FollowsFacts
<1>6. /\ ranges' = RangesClosed(ks, l)
      /\ directives' = DirectivesClosed(ks, l)
      /\ open' = OpenClosed(ks)
      /\ UNCHANGED <<file, phase, output>>
  BY DEF Enable, ks
<1>7. l \in Nat /\ l \in 1 .. Eof /\ Lines \subseteq Nat
  BY LinesAreNat
<1>8. /\ directives' \in Seq(DirectiveRecords)
      /\ DOMAIN directives' = DOMAIN directives
      /\ \A i \in DOMAIN directives :
           /\ directives'[i].name = directives[i].name
           /\ directives'[i].at = directives[i].at
           /\ directives'[i].first = directives[i].first
  BY <1>1, <1>3, <1>6, <1>7, DirectivesClosedFacts
<1>9. /\ \A i \in DOMAIN directives : open'[KeyOf[directives[i].name]] # i =>
           \/ ~IsOpen(i) /\ directives'[i].last = directives[i].last
           \/ IsOpen(i) /\ KeyOf[directives[i].name] \in ks /\ directives'[i].last = l
      /\ \A k \in Names : \A x \in ranges'[k] :
           \E i \in DOMAIN directives :
             /\ KeyOf[directives[i].name] = k
             /\ open'[k] # i
             /\ x = <<directives[i].first, directives'[i].last>>
  BY <1>1, <1>3, <1>6, <1>7, ClosingFacts
<1>10. ASSUME NEW k \in Names
       PROVE  /\ k \in ks => open'[k] = 0
              /\ k \notin ks => open'[k] = open[k]
              /\ ranges[k] \subseteq ranges'[k]
              /\ k \in ks /\ open[k] # 0 => <<directives[open[k]].first, l>> \in ranges'[k]
  <2>1. /\ ranges[k] \subseteq ranges'[k]
        /\ k \in ks /\ open[k] # 0 => <<directives[open[k]].first, l>> \in ranges'[k]
    BY <1>1, <1>3, <1>6, <1>7, RangesGrow
  <2>2. QED
    BY <2>1, <1>6 DEF OpenClosed
<1>11. ASSUME NEW p \in DOMAIN written, NEW y \in Lines
       PROVE  Reaches(written', p, y) <=>
                /\ Reaches(written, p, y)
                /\ ~written[p].inline /\ KeyOf[written[p].name] \in ks => y <= l
  <2>1. KeyOf[written[p].name] \in Names
    BY <1>1, TypeFacts
  <2>2. QED
    BY <1>1, <1>2, <1>3, <1>5, <2>1, ReachesFollows, TypeFacts
<1>12. TypeOK'
  <2>1. ranges' \in [Names -> SUBSET (Lines \X (1 .. Eof))]
    BY <1>1, <1>3, <1>6, <1>7, RangesClosedType
  <2>2. open' \in [Names -> Nat]
    BY <1>1, <1>6 DEF OpenClosed, TypeOK
  <2>3. QED
    BY <1>1, <1>5, <1>6, <1>8, <2>1, <2>2 DEF TypeOK, file, output
<1>13. DirectivesOK'
  BY <1>1, <1>5, <1>8 DEF DirectivesOK
<1>14. OpenOK'
  <2>1. SUFFICES ASSUME NEW k \in Names, open'[k] # 0
                 PROVE  /\ open'[k] \in DOMAIN directives'
                        /\ KeyOf[directives'[open'[k]].name] = k
                        /\ \A y \in Lines : directives'[open'[k]].first <= y
                             => Reaches(written', directives'[open'[k]].at, y)
    BY <1>5, <1>6 DEF OpenOK
  <2>2. k \notin ks /\ open'[k] = open[k]
    BY <1>10, <2>1
  <2>3. PICK i \in DOMAIN directives : i = open[k]
    BY <1>1, <2>1, <2>2 DEF OpenOK
  <2>4. /\ KeyOf[directives[i].name] = k
        /\ \A y \in Lines : directives[i].first <= y => Reaches(written, directives[i].at, y)
    BY <1>1, <2>1, <2>2, <2>3 DEF OpenOK
  <2>5. PICK p \in DOMAIN written : p = directives[i].at /\ written[p].name = directives[i].name
    BY <1>1 DEF DirectivesOK
  <2>6. \A y \in Lines : directives[i].first <= y => Reaches(written', p, y)
    BY <1>11, <2>2, <2>4, <2>5
  <2>7. QED
    BY <1>8, <2>2, <2>3, <2>4, <2>5, <2>6
<1>15. ClosedOK'
  <2>1. SUFFICES ASSUME NEW i \in DOMAIN directives, open'[KeyOf[directives[i].name]] # i
                 PROVE  /\ \A y \in Lines :
                             Within(y, <<directives[i].first, directives'[i].last>>)
                               => Reaches(written', directives[i].at, y)
                        /\ directives'[i].last <= l
    BY <1>2, <1>5, <1>8 DEF ClosedOK, IsOpen
  <2>2. PICK p \in DOMAIN written : p = directives[i].at /\ written[p].name = directives[i].name
    BY <1>1 DEF DirectivesOK
  <2>3. CASE ~IsOpen(i) /\ directives'[i].last = directives[i].last
    <3>1. directives[i].last <= l
      BY <1>1, <1>2, <1>4, <2>3, ClosedAbove
    <3>2. ASSUME NEW y \in Lines, Within(y, <<directives[i].first, directives[i].last>>)
          PROVE  Reaches(written', p, y)
      <4>1. Reaches(written, p, y)
        BY <1>1, <2>2, <2>3, <3>2 DEF ClosedOK
      <4>2. y <= directives[i].last
        BY <3>2 DEF Within
      <4>3. y <= l
        <5>1. directives[i].last \in Nat
          BY <1>1, TypeFacts
        <5>2. y \in Nat
          BY <1>7, <3>2
        <5>3. QED
          BY <1>7, <3>1, <4>2, <5>1, <5>2
      <4>4. QED
        BY <1>11, <4>1, <4>3
    <3>3. QED
      BY <2>2, <2>3, <3>1, <3>2
  <2>4. CASE /\ IsOpen(i)
             /\ KeyOf[directives[i].name] \in ks
             /\ directives'[i].last = l
    <3>1. ASSUME NEW y \in Lines, directives[i].first <= y, y <= l
          PROVE  Reaches(written', p, y)
      <4>1. Reaches(written, p, y)
        BY <1>1, <2>2, <2>4, <3>1, TypeFacts DEF OpenOK, IsOpen
      <4>2. QED
        BY <1>11, <3>1, <4>1
    <3>2. ASSUME NEW y \in Lines, Within(y, <<directives[i].first, directives'[i].last>>)
          PROVE  Reaches(written', p, y)
      <4>1. directives[i].first <= y /\ y <= l
        BY <2>4, <3>2 DEF Within
      <4>2. QED
        BY <3>1, <4>1
    <3>3. directives'[i].last <= l
      BY <1>7, <2>4
    <3>4. QED
      BY <2>2, <3>2, <3>3
  <2>5. QED
    BY <1>9, <2>1, <2>3, <2>4
<1>16. RangesOK'
  BY <1>8, <1>9 DEF RangesOK, IsOpen
<1>17. ReachedOK'
  <2>1. SUFFICES ASSUME NEW p \in DOMAIN written', NEW y \in Lines, Reaches(written', p, y),
                        NEW k, k = KeyOf[written'[p].name]
                 PROVE  \/ \E r \in ranges'[k] : Within(y, r)
                        \/ open'[k] # 0 /\ directives'[open'[k]].first <= y
    BY DEF ReachedOK, InRange
  <2>2. p \in DOMAIN written
    BY <1>2, <1>5, <2>1 DEF Reaches
  <2>3. k = KeyOf[written[p].name] /\ k \in Names
    BY <1>1, <1>5, <2>1, <2>2, TypeFacts
  <2>4. Reaches(written, p, y) /\ (~written[p].inline /\ k \in ks => y <= l)
    BY <1>11, <2>1, <2>2, <2>3
  <2>5. CASE InRange(k, y)
    BY <1>10, <2>3, <2>5 DEF InRange
  <2>6. CASE open[k] # 0 /\ directives[open[k]].first <= y
    <3>1. CASE k \in ks
      <4>1. y <= l
        BY <1>5, <2>2, <2>4, <3>1 DEF Reaches
      <4>2. <<directives[open[k]].first, l>> \in ranges'[k]
        BY <1>10, <2>3, <2>6, <3>1
      <4>3. Within(y, <<directives[open[k]].first, l>>)
        BY <2>6, <4>1 DEF Within
      <4>4. \E r \in ranges'[k] : Within(y, r)
        BY <4>2, <4>3
      <4>5. QED
        BY <4>4
    <3>2. CASE k \notin ks
      <4>1. open'[k] = open[k] /\ open[k] \in DOMAIN directives
        BY <1>1, <1>10, <2>3, <2>6, <3>2 DEF OpenOK
      <4>2. QED
        BY <1>8, <2>6, <4>1
    <3>3. QED
      BY <3>1, <3>2
  <2>7. QED
    BY <1>1, <2>2, <2>3, <2>4, <2>5, <2>6 DEF ReachedOK
<1>18. QED
  BY <1>5, <1>12, <1>13, <1>14, <1>15, <1>16, <1>17

\* The directive a disable adds is one of its type.
LEMMA DirectiveOfType ==
  ASSUME TypeOK, NEW n \in Names, NEW l \in Lines, NEW e \in 1 .. Eof
  PROVE  /\ DirectiveOf(n, l, e) \in DirectiveRecords
         /\ DirectiveOf(n, l, e).name = n
         /\ DirectiveOf(n, l, e).at = Len(written) + 1
         /\ DirectiveOf(n, l, e).first = l
         /\ DirectiveOf(n, l, e).last = e
         /\ DirectiveOf(n, l, e).used = FALSE
<1>1. Len(written) + 1 \in Nat
  BY TypeFacts
<1>2. QED
  BY <1>1 DEF DirectiveOf, DirectiveRecords

\* A disable on a line of its own reaches everything from there on; what it ends of an
\* earlier one for the key, it takes over.
LEMMA DisableStep ==
  ASSUME IInv, NEW n \in Names, NEW l \in Lines, Disable(n, l)
  PROVE  /\ TypeOK' /\ SortedOK' /\ DirectivesOK'
         /\ OpenOK' /\ ClosedOK' /\ RangesOK' /\ ReachedOK'
<1> DEFINE m == Mention("disable", n, l, FALSE)
           kk == KeyOf[n]
           ks == {kk}
           N == Len(directives)
           W == Len(written)
           new == DirectiveOf(n, l, Eof)
           closed == DirectivesClosed(ks, l)
<1>1. TypeOK /\ SortedOK /\ DirectivesOK /\ OpenOK /\ ClosedOK /\ RangesOK /\ ReachedOK
  BY DEF IInv
<1>2. m \in Mentions /\ m.verb = "disable" /\ m.name = n /\ m.line = l /\ m.inline = FALSE
  BY DEF Mention, Mentions
<1>3. kk \in Names /\ ks \in SUBSET Names /\ ks = {kk}
  BY ConstantsOK
<1>4. Follows(m)
  BY DEF Disable
<1>5. /\ ranges' = RangesClosed(ks, l)
      /\ directives' = Append(closed, new)
      /\ open' = [open EXCEPT ![kk] = N + 1]
      /\ UNCHANGED <<file, phase, output>>
  BY DEF Disable
<1>6. l \in Nat /\ l \in 1 .. Eof /\ Eof \in 1 .. Eof /\ Lines \subseteq Nat
  BY LinesAreNat
<1>7. /\ new \in DirectiveRecords
      /\ new.name = n /\ new.at = W + 1 /\ new.first = l /\ new.last = Eof
  <2>1. \A e \in 1 .. Eof : DirectiveOf(n, l, e) \in DirectiveRecords
    BY <1>1, DirectiveOfType
  <2>2. QED
    BY <1>6, <2>1 DEF DirectiveOf
<1> HIDE DEF m, new, ks
<1>8. /\ phase = "scan"
      /\ written' = Append(written, m)
      /\ written' \in Seq(Mentions)
      /\ W \in Nat
      /\ Len(written') = W + 1
      /\ DOMAIN written = 1 .. W
      /\ DOMAIN written' = 1 .. W + 1
      /\ \A j \in DOMAIN written : written'[j] = written[j] /\ written[j] \in Mentions
      /\ written'[W + 1] = m
      /\ \A j \in DOMAIN written : written[j].line <= l
      /\ SortedOK'
  BY <1>1, <1>2, <1>4, FollowsFacts
<1>9. /\ closed \in Seq(DirectiveRecords)
      /\ Len(closed) = N
      /\ \A i \in DOMAIN directives :
           /\ closed[i].name = directives[i].name
           /\ closed[i].at = directives[i].at
           /\ closed[i].first = directives[i].first
  BY <1>1, <1>3, <1>6, DirectivesClosedFacts
<1>10. N \in Nat /\ DOMAIN directives = 1 .. N
  BY <1>1, TypeFacts
<1>11. /\ \A i \in DOMAIN directives : OpenClosed(ks)[KeyOf[directives[i].name]] # i =>
            \/ ~IsOpen(i) /\ closed[i].last = directives[i].last
            \/ IsOpen(i) /\ KeyOf[directives[i].name] \in ks /\ closed[i].last = l
       /\ \A k \in Names : \A x \in ranges'[k] :
            \E i \in DOMAIN directives :
              /\ KeyOf[directives[i].name] = k
              /\ OpenClosed(ks)[k] # i
              /\ x = <<directives[i].first, closed[i].last>>
  <2> DEFINE oc == OpenClosed(ks)
  <2> HIDE DEF closed, oc
  <2>1. RangesClosed(ks, l) = ranges' /\ DirectivesClosed(ks, l) = closed /\ OpenClosed(ks) = oc
    BY <1>5 DEF closed, oc
  <2>2. /\ \A i \in DOMAIN directives : oc[KeyOf[directives[i].name]] # i =>
             \/ ~IsOpen(i) /\ closed[i].last = directives[i].last
             \/ IsOpen(i) /\ KeyOf[directives[i].name] \in ks /\ closed[i].last = l
        /\ \A k \in Names : \A x \in ranges'[k] :
             \E i \in DOMAIN directives :
               /\ KeyOf[directives[i].name] = k
               /\ oc[k] # i
               /\ x = <<directives[i].first, closed[i].last>>
    BY <1>1, <1>3, <1>6, <2>1, ClosingFacts
  <2>3. QED
    BY <2>1, <2>2
<1> HIDE DEF closed
<1>12. /\ directives' \in Seq(DirectiveRecords)
       /\ DOMAIN directives' = 1 .. N + 1
       /\ \A i \in DOMAIN directives : directives'[i] = closed[i]
       /\ directives'[N + 1] = new
  <2>1. /\ Len(directives') = N + 1
        /\ directives' \in Seq(DirectiveRecords)
        /\ \A i \in 1 .. N : directives'[i] = closed[i]
        /\ directives'[N + 1] = new
    BY <1>5, <1>7, <1>9, <1>10
  <2>2. QED
    BY <1>10, <2>1
<1>13. open' \in [Names -> Nat] /\ open'[kk] = N + 1
       /\ \A k \in Names : k # kk => open'[k] = open[k]
  BY <1>1, <1>3, <1>5, <1>10 DEF TypeOK
<1>14. ASSUME NEW k \in Names
       PROVE  /\ ranges[k] \subseteq ranges'[k]
              /\ k = kk /\ open[k] # 0 => <<directives[open[k]].first, l>> \in ranges'[k]
  BY <1>1, <1>3, <1>5, <1>6, RangesGrow
<1>15. ASSUME NEW p \in DOMAIN written, NEW y \in Lines
       PROVE  Reaches(written', p, y) <=> Reaches(written, p, y)
  BY <1>1, <1>2, <1>8, ReachesFollows, TypeFacts
<1>16. \A y \in Lines : Reaches(written', W + 1, y) <=> l <= y
  <2>1. W + 1 + 1 .. Len(written') = {}
    BY <1>8
  <2>2. QED
    BY <1>2, <1>8, <2>1 DEF Reaches
<1>17. TypeOK'
  <2>1. ranges' \in [Names -> SUBSET (Lines \X (1 .. Eof))]
    BY <1>1, <1>3, <1>5, <1>6, RangesClosedType
  <2>2. reported' \subseteq DOMAIN directives'
    BY <1>1, <1>5, <1>10, <1>12 DEF TypeOK, output
  <2>3. QED
    BY <1>1, <1>5, <1>8, <1>12, <1>13, <2>1, <2>2 DEF TypeOK, file, output
<1>18. DirectivesOK'
  <2>1. ASSUME NEW i \in DOMAIN directives'
        PROVE  /\ directives'[i].at \in DOMAIN written'
               /\ written'[directives'[i].at].verb = "disable"
               /\ written'[directives'[i].at].name = directives'[i].name
               /\ written'[directives'[i].at].line = directives'[i].first
               /\ i = N + 1 <=> directives'[i].at = W + 1
    <3>1. CASE i \in DOMAIN directives
      BY <1>1, <1>8, <1>9, <1>10, <1>12, <3>1 DEF DirectivesOK
    <3>2. CASE i = N + 1
      BY <1>2, <1>7, <1>8, <1>12, <3>2
    <3>3. QED
      BY <1>10, <1>12, <2>1, <3>1, <3>2
  <2>2. ASSUME NEW i \in DOMAIN directives', NEW j \in DOMAIN directives',
               directives'[j].at = directives'[i].at
        PROVE  i = j
    <3>1. CASE i \in DOMAIN directives /\ j \in DOMAIN directives
      BY <1>1, <1>9, <1>12, <2>2, <3>1 DEF DirectivesOK
    <3>2. CASE i = N + 1 \/ j = N + 1
      BY <2>1, <2>2, <3>2
    <3>3. QED
      BY <1>10, <1>12, <2>2, <3>1, <3>2
  <2>3. QED
    BY <2>1, <2>2 DEF DirectivesOK
<1>19. OpenOK'
  <2>1. SUFFICES ASSUME NEW k \in Names, open'[k] # 0
                 PROVE  /\ open'[k] \in DOMAIN directives'
                        /\ KeyOf[directives'[open'[k]].name] = k
                        /\ \A y \in Lines : directives'[open'[k]].first <= y
                             => Reaches(written', directives'[open'[k]].at, y)
    BY <1>5, <1>8 DEF OpenOK
  <2>2. CASE k = kk
    BY <1>7, <1>10, <1>12, <1>13, <1>16, <2>2
  <2>3. CASE k # kk
    <3>1. PICK i \in DOMAIN directives : i = open[k] /\ i = open'[k]
      BY <1>1, <1>13, <2>1, <2>3 DEF OpenOK
    <3>2. /\ KeyOf[directives[i].name] = k
          /\ \A y \in Lines : directives[i].first <= y => Reaches(written, directives[i].at, y)
      BY <1>1, <1>13, <2>1, <2>3, <3>1 DEF OpenOK
    <3>3. PICK p \in DOMAIN written : p = directives[i].at
      BY <1>1 DEF DirectivesOK
    <3>4. \A y \in Lines : directives[i].first <= y => Reaches(written', p, y)
      BY <1>15, <3>2, <3>3
    <3>5. QED
      BY <1>9, <1>10, <1>12, <3>1, <3>2, <3>3, <3>4
  <2>4. QED
    BY <2>2, <2>3
<1>20. ASSUME NEW i \in DOMAIN directives, open'[KeyOf[directives[i].name]] # i
       PROVE  OpenClosed(ks)[KeyOf[directives[i].name]] # i
  BY <1>1, <1>3, <1>13, <1>20, TypeFacts DEF OpenClosed
<1>21. ClosedOK'
  <2>1. ASSUME NEW i \in DOMAIN directives', open'[KeyOf[directives'[i].name]] # i
        PROVE  /\ i \in DOMAIN directives
               /\ KeyOf[directives'[i].name] = KeyOf[directives[i].name]
    BY <1>7, <1>9, <1>10, <1>12, <1>13, <2>1
  <2>2. SUFFICES ASSUME NEW i \in DOMAIN directives, open'[KeyOf[directives[i].name]] # i
                 PROVE  /\ \A y \in Lines :
                             Within(y, <<directives[i].first, closed[i].last>>)
                               => Reaches(written', directives[i].at, y)
                        /\ closed[i].last <= l
    BY <1>2, <1>8, <1>9, <1>12, <2>1 DEF ClosedOK, IsOpen
  <2>3. PICK p \in DOMAIN written : p = directives[i].at
    BY <1>1 DEF DirectivesOK
  <2>4. CASE ~IsOpen(i) /\ closed[i].last = directives[i].last
    <3>1. directives[i].last <= l
      BY <1>1, <1>2, <1>4, <2>4, ClosedAbove
    <3>2. \A y \in Lines : Within(y, <<directives[i].first, directives[i].last>>)
                             => Reaches(written', p, y)
      BY <1>1, <1>15, <2>3, <2>4 DEF ClosedOK
    <3>3. QED
      BY <2>3, <2>4, <3>1, <3>2
  <2>5. CASE /\ IsOpen(i)
             /\ KeyOf[directives[i].name] \in ks
             /\ closed[i].last = l
    <3>1. \A y \in Lines : directives[i].first <= y => Reaches(written', p, y)
      BY <1>1, <1>15, <2>3, <2>5, TypeFacts DEF OpenOK, IsOpen
    <3>2. QED
      BY <1>6, <2>3, <2>5, <3>1 DEF Within
  <2>6. QED
    BY <1>11, <1>20, <2>2, <2>4, <2>5
<1>22. RangesOK'
  <2>1. SUFFICES ASSUME NEW k \in Names, NEW x \in ranges'[k]
                 PROVE  \E i \in DOMAIN directives' :
                          /\ open'[KeyOf[directives'[i].name]] # i
                          /\ KeyOf[directives'[i].name] = k
                          /\ x = <<directives'[i].first, directives'[i].last>>
    BY DEF RangesOK, IsOpen
  <2>2. PICK i \in DOMAIN directives :
          /\ KeyOf[directives[i].name] = k
          /\ OpenClosed(ks)[k] # i
          /\ x = <<directives[i].first, closed[i].last>>
    BY <1>11
  <2>3. open'[k] # i
    BY <1>3, <1>10, <1>13, <2>2 DEF OpenClosed
  <2>4. QED
    BY <1>9, <1>10, <1>12, <2>2, <2>3
<1>23. ReachedOK'
  <2>1. SUFFICES ASSUME NEW p \in DOMAIN written', NEW y \in Lines, Reaches(written', p, y),
                        NEW k, k = KeyOf[written'[p].name]
                 PROVE  \/ \E r \in ranges'[k] : Within(y, r)
                        \/ open'[k] # 0 /\ directives'[open'[k]].first <= y
    BY DEF ReachedOK, InRange
  <2>2. open'[kk] # 0 /\ directives'[open'[kk]].first = l
    BY <1>7, <1>10, <1>12, <1>13
  <2>3. CASE p = W + 1
    BY <1>2, <1>8, <1>16, <2>1, <2>2, <2>3
  <2>4. CASE p \in DOMAIN written
    <3>1. k = KeyOf[written[p].name] /\ k \in Names /\ Reaches(written, p, y)
      BY <1>1, <1>8, <1>15, <2>1, <2>4, TypeFacts
    <3>2. CASE InRange(k, y)
      BY <1>14, <3>1, <3>2 DEF InRange
    <3>3. CASE open[k] # 0 /\ directives[open[k]].first <= y
      <4>1. CASE k = kk /\ y <= l
        <5>1. <<directives[open[k]].first, l>> \in ranges'[k]
          BY <1>14, <3>1, <3>3, <4>1
        <5>2. Within(y, <<directives[open[k]].first, l>>)
          BY <3>3, <4>1 DEF Within
        <5>3. \E r \in ranges'[k] : Within(y, r)
          BY <5>1, <5>2
        <5>4. QED
          BY <5>3
      <4>2. CASE k = kk /\ ~(y <= l)
        BY <1>6, <2>2, <4>2
      <4>3. CASE k # kk
        <5>1. open'[k] = open[k] /\ open[k] \in DOMAIN directives
          BY <1>1, <1>13, <3>1, <3>3, <4>3 DEF OpenOK
        <5>2. QED
          BY <1>9, <1>12, <3>3, <5>1
      <4>4. QED
        BY <4>1, <4>2, <4>3
    <3>4. QED
      BY <1>1, <2>4, <3>1, <3>2, <3>3 DEF ReachedOK
  <2>5. QED
    BY <1>8, <2>1, <2>3, <2>4
<1>24. QED
  BY <1>8, <1>17, <1>18, <1>19, <1>21, <1>22, <1>23

\* An enable behind code ends nothing.
LEMMA EnableInlineStep ==
  ASSUME IInv, NEW l \in Lines, EnableInline(l)
  PROVE  /\ TypeOK' /\ SortedOK' /\ DirectivesOK'
         /\ OpenOK' /\ ClosedOK' /\ RangesOK' /\ ReachedOK'
<1> DEFINE m == Mention("enable", All, l, TRUE)
<1>1. TypeOK /\ SortedOK /\ DirectivesOK /\ OpenOK /\ ClosedOK /\ RangesOK /\ ReachedOK
  BY DEF IInv
<1>2. m \in Mentions /\ m.verb = "enable" /\ m.line = l /\ m.inline = TRUE
  BY ConstantsOK DEF Mention, Mentions
<1>3. Follows(m)
  BY DEF EnableInline
<1>4. UNCHANGED <<file, phase, ranges, open, directives, output>>
  BY DEF EnableInline
<1> HIDE DEF m
<1>5. /\ phase = "scan"
      /\ written' = Append(written, m)
      /\ written' \in Seq(Mentions)
      /\ Len(written) \in Nat
      /\ Len(written') = Len(written) + 1
      /\ DOMAIN written = 1 .. Len(written)
      /\ DOMAIN written' = 1 .. Len(written) + 1
      /\ \A j \in DOMAIN written : written'[j] = written[j]
      /\ written'[Len(written) + 1] = m
      /\ SortedOK'
  BY <1>1, <1>2, <1>3, FollowsFacts
<1>6. ASSUME NEW p \in DOMAIN written, NEW y \in Lines
      PROVE  Reaches(written', p, y) <=> Reaches(written, p, y)
  BY <1>1, <1>2, <1>5, ReachesFollows, TypeFacts
<1>7. TypeOK'
  BY <1>1, <1>4, <1>5 DEF TypeOK, file, output
<1>8. DirectivesOK'
  BY <1>1, <1>4, <1>5 DEF DirectivesOK
<1>9. \A i \in DOMAIN directives : directives[i].at \in DOMAIN written
  BY <1>1 DEF DirectivesOK
<1>10. OpenOK'
  BY <1>1, <1>4, <1>6, <1>9 DEF OpenOK
<1>11. ClosedOK'
  <2>1. SUFFICES ASSUME NEW i \in DOMAIN directives, ~IsOpen(i)
                 PROVE  /\ \A y \in Lines :
                             Within(y, <<directives[i].first, directives[i].last>>)
                               => Reaches(written', directives[i].at, y)
                        /\ directives[i].last <= l
    BY <1>2, <1>4, <1>5 DEF ClosedOK, IsOpen
  <2>2. directives[i].last <= l
    BY <1>1, <1>2, <1>3, <2>1, ClosedAbove
  <2>3. QED
    BY <1>1, <1>6, <1>9, <2>1, <2>2 DEF ClosedOK
<1>12. RangesOK'
  BY <1>1, <1>4 DEF RangesOK, IsOpen
<1>13. ReachedOK'
  <2>1. SUFFICES ASSUME NEW p \in DOMAIN written', NEW y \in Lines, Reaches(written', p, y),
                        NEW k, k = KeyOf[written'[p].name]
                 PROVE  InRange(k, y) \/ (open[k] # 0 /\ directives[open[k]].first <= y)
    BY <1>4 DEF ReachedOK, InRange
  <2>2. p \in DOMAIN written
    BY <1>2, <1>5, <2>1 DEF Reaches
  <2>3. QED
    BY <1>1, <1>5, <1>6, <2>1, <2>2 DEF ReachedOK
<1>14. QED
  BY <1>5, <1>7, <1>8, <1>10, <1>11, <1>12, <1>13

\* A disable behind code is closed at once and reaches its own line only.
LEMMA DisableInlineStep ==
  ASSUME IInv, NEW n \in Names, NEW l \in Lines, DisableInline(n, l)
  PROVE  /\ TypeOK' /\ SortedOK' /\ DirectivesOK'
         /\ OpenOK' /\ ClosedOK' /\ RangesOK' /\ ReachedOK'
<1> DEFINE m == Mention("disable", n, l, TRUE)
           kk == KeyOf[n]
           N == Len(directives)
           W == Len(written)
           new == DirectiveOf(n, l, l)
<1>1. TypeOK /\ SortedOK /\ DirectivesOK /\ OpenOK /\ ClosedOK /\ RangesOK /\ ReachedOK
  BY DEF IInv
<1>2. m \in Mentions /\ m.verb = "disable" /\ m.name = n /\ m.line = l /\ m.inline = TRUE
  BY DEF Mention, Mentions
<1>3. kk \in Names /\ kk = KeyOf[n]
  BY ConstantsOK
<1>4. Follows(m)
  BY DEF DisableInline
<1>5. /\ ranges' = [ranges EXCEPT ![kk] = @ \union {<<l, l>>}]
      /\ directives' = Append(directives, new)
      /\ UNCHANGED <<file, phase, open, output>>
  BY DEF DisableInline
<1>6. l \in Nat /\ l \in 1 .. Eof /\ Lines \subseteq Nat
  BY LinesAreNat
<1>7. /\ new \in DirectiveRecords
      /\ new.name = n /\ new.at = W + 1 /\ new.first = l /\ new.last = l
  <2>1. \A e \in 1 .. Eof : DirectiveOf(n, l, e) \in DirectiveRecords
    BY <1>1, DirectiveOfType
  <2>2. QED
    BY <1>6, <2>1 DEF DirectiveOf
<1> HIDE DEF m, new, kk
<1>8. /\ phase = "scan"
      /\ written' = Append(written, m)
      /\ written' \in Seq(Mentions)
      /\ W \in Nat
      /\ Len(written') = W + 1
      /\ DOMAIN written = 1 .. W
      /\ DOMAIN written' = 1 .. W + 1
      /\ \A j \in DOMAIN written : written'[j] = written[j]
      /\ written'[W + 1] = m
      /\ SortedOK'
  BY <1>1, <1>2, <1>4, FollowsFacts
<1>9. N \in Nat /\ DOMAIN directives = 1 .. N
  BY <1>1, TypeFacts
<1>10. /\ directives' \in Seq(DirectiveRecords)
       /\ DOMAIN directives' = 1 .. N + 1
       /\ \A i \in DOMAIN directives : directives'[i] = directives[i]
       /\ directives'[N + 1] = new
  <2>1. directives \in Seq(DirectiveRecords)
    BY <1>1 DEF TypeOK
  <2>2. QED
    BY <1>5, <1>7, <1>9, <2>1
<1>11. ASSUME NEW p \in DOMAIN written, NEW y \in Lines
       PROVE  Reaches(written', p, y) <=> Reaches(written, p, y)
  BY <1>1, <1>2, <1>8, ReachesFollows, TypeFacts
<1>12. \A y \in Lines : Reaches(written', W + 1, y) <=> y = l
  BY <1>2, <1>8 DEF Reaches
<1>13. \A k \in Names : ranges'[k] = IF k = kk THEN ranges[k] \union {<<l, l>>} ELSE ranges[k]
  BY <1>1, <1>5 DEF TypeOK
<1>14. \A k \in Names : open[k] # N + 1
  BY <1>1, <1>9 DEF OpenOK
<1>15. TypeOK'
  <2>1. ranges' \in [Names -> SUBSET (Lines \X (1 .. Eof))]
    <3>1. <<l, l>> \in Lines \X (1 .. Eof)
      BY <1>6
    <3>2. QED
      BY <1>1, <1>3, <1>5, <3>1 DEF TypeOK
  <2>2. reported' \subseteq DOMAIN directives'
    BY <1>1, <1>5, <1>9, <1>10 DEF TypeOK, output
  <2>3. QED
    BY <1>1, <1>5, <1>8, <1>10, <2>1, <2>2 DEF TypeOK, file, output
<1>16. DirectivesOK'
  <2>1. ASSUME NEW i \in DOMAIN directives'
        PROVE  /\ directives'[i].at \in DOMAIN written'
               /\ written'[directives'[i].at].verb = "disable"
               /\ written'[directives'[i].at].name = directives'[i].name
               /\ written'[directives'[i].at].line = directives'[i].first
               /\ i = N + 1 <=> directives'[i].at = W + 1
    <3>1. CASE i \in DOMAIN directives
      BY <1>1, <1>8, <1>9, <1>10, <3>1 DEF DirectivesOK
    <3>2. CASE i = N + 1
      BY <1>2, <1>7, <1>8, <1>10, <3>2
    <3>3. QED
      BY <1>9, <1>10, <2>1, <3>1, <3>2
  <2>2. ASSUME NEW i \in DOMAIN directives', NEW j \in DOMAIN directives',
               directives'[j].at = directives'[i].at
        PROVE  i = j
    <3>1. CASE i \in DOMAIN directives /\ j \in DOMAIN directives
      BY <1>1, <1>10, <2>2, <3>1 DEF DirectivesOK
    <3>2. CASE i = N + 1 \/ j = N + 1
      BY <2>1, <2>2, <3>2
    <3>3. QED
      BY <1>9, <1>10, <2>2, <3>1, <3>2
  <2>3. QED
    BY <2>1, <2>2 DEF DirectivesOK
<1>17. \A i \in DOMAIN directives : directives[i].at \in DOMAIN written
  BY <1>1 DEF DirectivesOK
<1>18. OpenOK'
  <2>1. SUFFICES ASSUME NEW k \in Names, open[k] # 0
                 PROVE  /\ open[k] \in DOMAIN directives'
                        /\ KeyOf[directives'[open[k]].name] = k
                        /\ \A y \in Lines : directives'[open[k]].first <= y
                             => Reaches(written', directives'[open[k]].at, y)
    BY <1>5, <1>8 DEF OpenOK
  <2>2. PICK i \in DOMAIN directives : i = open[k]
    BY <1>1, <2>1 DEF OpenOK
  <2>3. /\ KeyOf[directives[i].name] = k
        /\ \A y \in Lines : directives[i].first <= y => Reaches(written, directives[i].at, y)
    BY <1>1, <2>1, <2>2 DEF OpenOK
  <2>4. PICK p \in DOMAIN written : p = directives[i].at
    BY <1>17
  <2>5. \A y \in Lines : directives[i].first <= y => Reaches(written', p, y)
    BY <1>11, <2>3, <2>4
  <2>6. QED
    BY <1>9, <1>10, <2>2, <2>3, <2>4, <2>5
<1>19. ClosedOK'
  <2>1. SUFFICES ASSUME NEW i \in DOMAIN directives', open[KeyOf[directives'[i].name]] # i
                 PROVE  /\ \A y \in Lines :
                             Within(y, <<directives'[i].first, directives'[i].last>>)
                               => Reaches(written', directives'[i].at, y)
                        /\ directives'[i].last <= l
    BY <1>2, <1>5, <1>8 DEF ClosedOK, IsOpen
  <2>2. CASE i = N + 1
    BY <1>6, <1>7, <1>10, <1>12, <2>2 DEF Within
  <2>3. CASE i \in DOMAIN directives
    <3>1. ~IsOpen(i) /\ directives'[i] = directives[i]
      BY <1>10, <2>1, <2>3 DEF IsOpen
    <3>2. directives[i].last <= l
      BY <1>1, <1>2, <1>4, <2>3, <3>1, ClosedAbove
    <3>3. PICK p \in DOMAIN written : p = directives[i].at
      BY <1>17, <2>3
    <3>4. \A y \in Lines : Within(y, <<directives[i].first, directives[i].last>>)
                             => Reaches(written', p, y)
      BY <1>1, <1>11, <2>3, <3>1, <3>3 DEF ClosedOK
    <3>5. QED
      BY <3>1, <3>2, <3>3, <3>4
  <2>4. QED
    BY <1>9, <1>10, <2>1, <2>2, <2>3
<1>20. RangesOK'
  <2>1. SUFFICES ASSUME NEW k \in Names, NEW x \in ranges'[k]
                 PROVE  \E i \in DOMAIN directives' :
                          /\ open[KeyOf[directives'[i].name]] # i
                          /\ KeyOf[directives'[i].name] = k
                          /\ x = <<directives'[i].first, directives'[i].last>>
    BY <1>5 DEF RangesOK, IsOpen
  <2>2. CASE x \in ranges[k]
    BY <1>1, <1>9, <1>10, <2>2 DEF RangesOK, IsOpen
  <2>3. CASE k = kk /\ x = <<l, l>>
    <3>1. /\ N + 1 \in DOMAIN directives'
          /\ KeyOf[directives'[N + 1].name] = k
          /\ x = <<directives'[N + 1].first, directives'[N + 1].last>>
      BY <1>3, <1>7, <1>9, <1>10, <2>3
    <3>2. QED
      BY <1>3, <1>14, <2>3, <3>1
  <2>4. QED
    BY <1>13, <2>1, <2>2, <2>3
<1>21. ReachedOK'
  <2>1. SUFFICES ASSUME NEW p \in DOMAIN written', NEW y \in Lines, Reaches(written', p, y),
                        NEW k, k = KeyOf[written'[p].name]
                 PROVE  \/ \E r \in ranges'[k] : Within(y, r)
                        \/ open[k] # 0 /\ directives'[open[k]].first <= y
    BY <1>5 DEF ReachedOK, InRange
  <2>2. CASE p = W + 1
    <3>1. k = kk /\ y = l
      BY <1>2, <1>3, <1>8, <1>12, <2>1, <2>2
    <3>2. <<l, l>> \in ranges'[k]
      BY <1>3, <1>13, <3>1
    <3>3. Within(y, <<l, l>>)
      BY <1>6, <3>1 DEF Within
    <3>4. \E r \in ranges'[k] : Within(y, r)
      BY <3>2, <3>3
    <3>5. QED
      BY <3>4
  <2>3. CASE p \in DOMAIN written
    <3>1. k = KeyOf[written[p].name] /\ k \in Names /\ Reaches(written, p, y)
      BY <1>1, <1>8, <1>11, <2>1, <2>3, TypeFacts
    <3>2. CASE InRange(k, y)
      BY <1>13, <3>1, <3>2 DEF InRange
    <3>3. CASE open[k] # 0 /\ directives[open[k]].first <= y
      BY <1>1, <1>10, <3>1, <3>3 DEF OpenOK
    <3>4. QED
      BY <1>1, <2>3, <3>1, <3>2, <3>3 DEF ReachedOK
  <2>4. QED
    BY <1>8, <2>1, <2>2, <2>3
<1>22. QED
  BY <1>8, <1>15, <1>16, <1>18, <1>19, <1>20, <1>21

\* At the end of the file everything that is open is closed there.
LEMMA EndOfFileStep ==
  ASSUME IInv, EndOfFile
  PROVE  /\ TypeOK' /\ SortedOK' /\ DirectivesOK'
         /\ OpenOK' /\ ClosedOK' /\ RangesOK' /\ ReachedOK'
<1> DEFINE ks == Names
<1>1. TypeOK /\ SortedOK /\ DirectivesOK /\ OpenOK /\ ClosedOK /\ RangesOK /\ ReachedOK
  BY DEF IInv
<1>2. ks \in SUBSET Names /\ Eof \in 1 .. Eof /\ Lines \subseteq Nat
  BY LinesAreNat
<1>3. /\ phase = "scan" /\ phase' = "filter"
      /\ ranges' = RangesClosed(ks, Eof)
      /\ directives' = DirectivesClosed(ks, Eof)
      /\ open' = OpenClosed(ks)
      /\ UNCHANGED <<file, written, output>>
  BY DEF EndOfFile
<1>4. \A k \in Names : open'[k] = 0
  BY <1>3 DEF OpenClosed
<1> HIDE DEF ks
<1>5. /\ directives' \in Seq(DirectiveRecords)
      /\ DOMAIN directives' = DOMAIN directives
      /\ \A i \in DOMAIN directives :
           /\ directives'[i].name = directives[i].name
           /\ directives'[i].at = directives[i].at
           /\ directives'[i].first = directives[i].first
  BY <1>1, <1>2, <1>3, DirectivesClosedFacts
<1>6. /\ \A i \in DOMAIN directives : open'[KeyOf[directives[i].name]] # i =>
           \/ ~IsOpen(i) /\ directives'[i].last = directives[i].last
           \/ IsOpen(i) /\ KeyOf[directives[i].name] \in ks /\ directives'[i].last = Eof
      /\ \A k \in Names : \A x \in ranges'[k] :
           \E i \in DOMAIN directives :
             /\ KeyOf[directives[i].name] = k
             /\ open'[k] # i
             /\ x = <<directives[i].first, directives'[i].last>>
  BY <1>1, <1>2, <1>3, ClosingFacts
<1>7. \A k \in Names :
        /\ ranges[k] \subseteq ranges'[k]
        /\ open[k] # 0 => <<directives[open[k]].first, Eof>> \in ranges'[k]
  BY <1>1, <1>2, <1>3, RangesGrow DEF ks
<1>8. TypeOK'
  <2>1. ranges' \in [Names -> SUBSET (Lines \X (1 .. Eof))]
    BY <1>1, <1>2, <1>3, RangesClosedType
  <2>2. open' \in [Names -> Nat]
    BY <1>1, <1>3 DEF OpenClosed, TypeOK
  <2>3. QED
    BY <1>1, <1>3, <1>5, <2>1, <2>2 DEF TypeOK, file, output
<1>9. SortedOK' /\ DirectivesOK'
  BY <1>1, <1>3, <1>5 DEF SortedOK, DirectivesOK
<1>10. OpenOK'
  BY <1>4 DEF OpenOK
<1>11. ClosedOK'
  <2>1. SUFFICES ASSUME NEW i \in DOMAIN directives, open'[KeyOf[directives[i].name]] # i,
                        NEW y \in Lines,
                        Within(y, <<directives[i].first, directives'[i].last>>)
                 PROVE  Reaches(written, directives[i].at, y)
    BY <1>3, <1>5 DEF ClosedOK, IsOpen
  <2>2. CASE ~IsOpen(i) /\ directives'[i].last = directives[i].last
    BY <1>1, <2>1, <2>2 DEF ClosedOK
  <2>3. CASE IsOpen(i)
    BY <1>1, <2>1, <2>3, TypeFacts DEF OpenOK, IsOpen, Within
  <2>4. QED
    BY <1>6, <2>1, <2>2, <2>3
<1>12. RangesOK'
  BY <1>5, <1>6 DEF RangesOK, IsOpen
<1>13. ReachedOK'
  <2>1. SUFFICES ASSUME NEW p \in DOMAIN written, NEW y \in Lines, Reaches(written, p, y),
                        NEW k, k = KeyOf[written[p].name]
                 PROVE  \E r \in ranges'[k] : Within(y, r)
    BY <1>3 DEF ReachedOK, InRange
  <2>2. k \in Names
    BY <1>1, <2>1, TypeFacts
  <2>3. CASE InRange(k, y)
    BY <1>7, <2>2, <2>3 DEF InRange
  <2>4. CASE open[k] # 0 /\ directives[open[k]].first <= y
    <3>1. <<directives[open[k]].first, Eof>> \in ranges'[k]
      BY <1>7, <2>2, <2>4
    <3>2. y <= Eof
      BY ConstantsOK DEF Lines, Eof
    <3>3. Within(y, <<directives[open[k]].first, Eof>>)
      BY <2>4, <3>2 DEF Within
    <3>4. QED
      BY <3>1, <3>3
  <2>5. QED
    BY <1>1, <2>1, <2>3, <2>4 DEF ReachedOK
<1>14. QED
  BY <1>8, <1>9, <1>10, <1>11, <1>12, <1>13

\* As long as the comments are read, nothing is used or reported.
LEMMA ScanRest ==
  ASSUME IInv, phase = "scan", phase' \in {"scan", "filter"},
         UNCHANGED <<file, output>>,
         \A i \in DOMAIN directives' : directives'[i].used = TRUE =>
           i \in DOMAIN directives /\ directives[i].used = TRUE
  PROVE  UsedOK' /\ UnusedOK' /\ ReportedOK' /\ OffendsOK'
<1>1. \A i \in DOMAIN directives : directives[i].used # TRUE
  BY DEF IInv, UnusedOK
<1>2. UsedOK' /\ UnusedOK'
  BY <1>1 DEF UsedOK, UnusedOK
<1>3. ReportedOK'
  BY DEF IInv, ReportedOK, output
<1>4. OffendsOK'
  BY DEF IInv, OffendsOK, file, Matches
<1>5. QED
  BY <1>2, <1>3, <1>4

\* What the filter and the report leave alone.
LEMMA RestOfStep ==
  ASSUME IInv, phase # "scan", phase' # "scan", UNCHANGED <<file, written, ranges, open>>,
         DOMAIN directives' = DOMAIN directives,
         directives' \in Seq(DirectiveRecords),
         \A i \in DOMAIN directives :
           /\ directives'[i].name = directives[i].name
           /\ directives'[i].at = directives[i].at
           /\ directives'[i].first = directives[i].first
           /\ directives'[i].last = directives[i].last
  PROVE  /\ SortedOK' /\ DirectivesOK'
         /\ OpenOK' /\ ClosedOK' /\ RangesOK' /\ ReachedOK' /\ OffendsOK'
<1>1. SortedOK' /\ DirectivesOK'
  BY DEF IInv, SortedOK, DirectivesOK
<1>2. \A k \in Names : open[k] = 0
  BY DEF IInv, OpenOK
<1>3. OpenOK'
  BY <1>2 DEF OpenOK
<1>4. ClosedOK'
  BY DEF IInv, ClosedOK, IsOpen
<1>5. RangesOK'
  BY DEF IInv, RangesOK, IsOpen
<1>6. ReachedOK'
  <2>1. SUFFICES ASSUME NEW p \in DOMAIN written, NEW y \in Lines, Reaches(written, p, y)
                 PROVE  InRange(KeyOf[written[p].name], y)
    BY DEF ReachedOK, InRange
  <2>2. KeyOf[written[p].name] \in Names
    BY TypeFacts DEF IInv
  <2>3. QED
    BY <1>2, <2>1, <2>2 DEF IInv, ReachedOK
<1>7. OffendsOK'
  BY DEF IInv, OffendsOK, file, Matches
<1>8. QED
  BY <1>1, <1>3, <1>4, <1>5, <1>6, <1>7

\* The filter marks the directives that a diagnostic is under.
LEMMA FilterStep ==
  ASSUME IInv, Filter
  PROVE  IInv'
<1>1. /\ TypeOK /\ phase = "filter" /\ phase' = "report"
      /\ UNCHANGED <<file, written, ranges, open, reported>>
  BY DEF Filter, IInv
<1>2. DOMAIN directives' = DOMAIN directives
  BY DEF Filter
<1>3. ASSUME NEW i \in DOMAIN directives
      PROVE  /\ directives'[i] \in DirectiveRecords
             /\ directives'[i].name = directives[i].name
             /\ directives'[i].at = directives[i].at
             /\ directives'[i].first = directives[i].first
             /\ directives'[i].last = directives[i].last
             /\ directives'[i].used = (~setting.ignore /\ \E o \in Found : Marks(directives[i], o))
  <2> DEFINE u == ~setting.ignore /\ \E o \in Found : Marks(directives[i], o)
  <2>1. directives[i] \in DirectiveRecords
    BY <1>1, TypeFacts
  <2>2. directives'[i] = [directives[i] EXCEPT !.used = u]
    BY DEF Filter
  <2>3. u \in BOOLEAN
    OBVIOUS
  <2> HIDE DEF u
  <2>4. /\ directives'[i] \in DirectiveRecords
        /\ directives'[i].name = directives[i].name
        /\ directives'[i].at = directives[i].at
        /\ directives'[i].first = directives[i].first
        /\ directives'[i].last = directives[i].last
        /\ directives'[i].used = u
    BY <2>1, <2>2, <2>3 DEF DirectiveRecords
  <2>5. QED
    BY <2>4 DEF u
<1>4. directives' \in Seq(DirectiveRecords)
  <2>1. /\ DOMAIN directives = 1 .. Len(directives)
        /\ Len(directives) \in Nat
    BY <1>1, TypeFacts
  <2>2. directives' \in [1 .. Len(directives) -> DirectiveRecords]
    <3>1. directives' = [i \in 1 .. Len(directives) |-> directives'[i]]
      BY <2>1 DEF Filter
    <3>2. QED
      BY <1>3, <2>1, <3>1
  <2>3. QED
    BY <2>1, <2>2
<1>5. /\ SortedOK' /\ DirectivesOK'
      /\ OpenOK' /\ ClosedOK' /\ RangesOK' /\ ReachedOK' /\ OffendsOK'
  BY <1>1, <1>2, <1>3, <1>4, RestOfStep
<1>6. Found' = Found /\ setting' = setting
  BY <1>1 DEF Found, file, Runs, RunAllForRedundant, Matches
<1>7. ASSUME NEW i \in DOMAIN directives, NEW o
      PROVE  Marks(directives[i], o)' <=> Marks(directives[i], o)
  BY <1>1, <1>3, <1>7 DEF Marks, InRange
<1>8. UsedOK'
  BY <1>2, <1>3, <1>6, <1>7 DEF UsedOK
<1>9. UnusedOK'
  BY <1>1, <1>2, <1>3, <1>6, <1>7 DEF UnusedOK
<1>10. ReportedOK'
  BY <1>1 DEF IInv, ReportedOK
<1>11. TypeOK'
  <2>1. shown' \subseteq Cops \X Lines
    BY <1>1 DEF Filter, Found, TypeOK
  <2>2. QED
    BY <1>1, <1>2, <1>4, <2>1 DEF TypeOK, file
<1>12. QED
  BY <1>5, <1>8, <1>9, <1>10, <1>11 DEF IInv

\* The report reads everything and writes what it reports.
LEMMA ReportStep ==
  ASSUME IInv, Report
  PROVE  IInv'
<1>1. /\ TypeOK /\ phase = "report" /\ phase' = "done"
      /\ UNCHANGED <<file, written, ranges, open, directives, shown>>
  BY DEF Report, IInv
<1>2. /\ SortedOK' /\ DirectivesOK'
      /\ OpenOK' /\ ClosedOK' /\ RangesOK' /\ ReachedOK' /\ OffendsOK'
  <2>1. directives \in Seq(DirectiveRecords)
    BY <1>1 DEF TypeOK
  <2>2. QED
    BY <1>1, <2>1, RestOfStep
<1>3. Found' = Found /\ setting' = setting
  BY <1>1 DEF Found, file, Runs, RunAllForRedundant, Matches
<1>4. \A i \in DOMAIN directives : \A o : Marks(directives[i], o)' <=> Marks(directives[i], o)
  BY <1>1 DEF Marks, InRange
<1>5. UsedOK' /\ UnusedOK'
  BY <1>1, <1>3, <1>4 DEF IInv, UsedOK, UnusedOK
<1>6. ReportedOK'
  BY <1>1, <1>3 DEF Report, ReportedOK, ReportsRedundant, Matches, InRange, IsRedundant,
     RegisteredRedundant, RenamedRedundant, UnknownRedundant, AllCopsRan, RunAllForRedundant
<1>7. TypeOK'
  BY <1>1 DEF TypeOK, Report, file
<1>8. QED
  BY <1>2, <1>5, <1>6, <1>7 DEF IInv

\* The invariant is inductive.
LEMMA IInvNext == IInv /\ [Next]_vars => IInv'
<1> SUFFICES ASSUME IInv, [Next]_vars PROVE IInv'
  OBVIOUS
<1> DEFINE Scanned == /\ TypeOK' /\ SortedOK' /\ DirectivesOK'
                      /\ OpenOK' /\ ClosedOK' /\ RangesOK' /\ ReachedOK'
           Rest == UsedOK' /\ UnusedOK' /\ ReportedOK' /\ OffendsOK'
<1>1. Mentioned \subseteq Names
  BY ConstantsOK
<1>2. TypeOK /\ DOMAIN directives = 1 .. Len(directives) /\ Len(directives) \in Nat
  BY TypeFacts DEF IInv
<1>3. ASSUME NEW l \in Lines, NEW n \in Names, NEW ks \in SUBSET Names
      PROVE  /\ Len(DirectivesClosed(ks, l)) = Len(directives)
             /\ DirectivesClosed(ks, l) \in Seq(DirectiveRecords)
             /\ \A i \in 1 .. Len(directives) : DirectivesClosed(ks, l)[i].used = directives[i].used
  BY <1>2, LinesAreNat, DirectivesClosedFacts
<1>4. CASE Scan
  <2>1. PICK l \in Lines, n \in Names :
          \/ DisableInline(n, l) \/ Disable(n, l) \/ Enable(n, l)
          \/ EnableInline(l)
    BY <1>1, <1>4, ConstantsOK DEF Scan
  <2>2. phase = "scan" /\ phase' = "scan" /\ UNCHANGED <<file, output>>
    BY <2>1 DEF DisableInline, Disable, Enable, EnableInline, Follows
  <2>3. CASE DisableInline(n, l)
    <3>1. \A i \in DOMAIN directives' : directives'[i].used = TRUE =>
            i \in DOMAIN directives /\ directives[i].used = TRUE
      <4> DEFINE new == DirectiveOf(n, l, l)
      <4>1. directives' = Append(directives, new) /\ new.used = FALSE
        BY <2>3 DEF DisableInline, DirectiveOf
      <4>2. directives \in Seq(DirectiveRecords)
        BY <1>2 DEF TypeOK
      <4> HIDE DEF new
      <4>3. QED
        BY <1>2, <4>1, <4>2
    <3>2. Scanned
      BY <2>3, DisableInlineStep
    <3>3. Rest
      BY <2>2, <3>1, ScanRest
    <3>4. QED
      BY <3>2, <3>3 DEF IInv
  <2>4. CASE Disable(n, l)
    <3>1. \A i \in DOMAIN directives' : directives'[i].used = TRUE =>
            i \in DOMAIN directives /\ directives[i].used = TRUE
      <4> DEFINE new == DirectiveOf(n, l, Eof)
                 closed == DirectivesClosed({KeyOf[n]}, l)
      <4>1. directives' = Append(closed, new) /\ new.used = FALSE
        BY <2>4 DEF Disable, DirectiveOf
      <4>2. KeyOf[n] \in Names
        BY ConstantsOK
      <4>3. /\ Len(closed) = Len(directives)
            /\ closed \in Seq(DirectiveRecords)
            /\ \A i \in 1 .. Len(directives) : closed[i].used = directives[i].used
        BY <1>3, <4>2
      <4> HIDE DEF new, closed
      <4>4. QED
        BY <1>2, <4>1, <4>3
    <3>2. Scanned
      BY <2>4, DisableStep
    <3>3. Rest
      BY <2>2, <3>1, ScanRest
    <3>4. QED
      BY <3>2, <3>3 DEF IInv
  <2>5. CASE Enable(n, l)
    <3>1. \A i \in DOMAIN directives' : directives'[i].used = TRUE =>
            i \in DOMAIN directives /\ directives[i].used = TRUE
      <4> DEFINE ks == ClosedBy(KeyOf[n])
      <4>1. directives' = DirectivesClosed(ks, l)
        BY <2>5 DEF Enable
      <4>2. ks \in SUBSET Names
        BY DEF ClosedBy
      <4> HIDE DEF ks
      <4>3. /\ Len(directives') = Len(directives)
            /\ directives' \in Seq(DirectiveRecords)
            /\ \A i \in 1 .. Len(directives) : directives'[i].used = directives[i].used
        BY <1>3, <4>1, <4>2
      <4>4. QED
        BY <1>2, <4>3
    <3>2. Scanned
      BY <2>5, EnableStep
    <3>3. Rest
      BY <2>2, <3>1, ScanRest
    <3>4. QED
      BY <3>2, <3>3 DEF IInv
  <2>6. CASE EnableInline(l)
    <3>1. directives' = directives
      BY <2>6 DEF EnableInline
    <3>2. Scanned
      BY <2>6, EnableInlineStep
    <3>3. Rest
      BY <2>2, <3>1, ScanRest
    <3>4. QED
      BY <3>2, <3>3 DEF IInv
  <2>7. QED
    BY <2>1, <2>3, <2>4, <2>5, <2>6
<1>5. CASE EndOfFile
  <2>1. /\ phase = "scan" /\ phase' = "filter" /\ UNCHANGED <<file, output>>
        /\ directives' = DirectivesClosed(Names, Eof)
    BY <1>5 DEF EndOfFile
  <2>2. /\ DOMAIN directives' = DOMAIN directives
        /\ \A i \in DOMAIN directives : directives'[i].used = directives[i].used
    BY <1>2, <2>1, LinesAreNat, DirectivesClosedFacts
  <2>3. Scanned
    BY <1>5, EndOfFileStep
  <2>4. Rest
    BY <2>1, <2>2, ScanRest
  <2>5. QED
    BY <2>3, <2>4 DEF IInv
<1>6. CASE Filter
  BY <1>6, FilterStep
<1>7. CASE Report
  BY <1>7, ReportStep
<1>8. CASE UNCHANGED vars
  <2>1. UNCHANGED <<setting, offends, written, phase, ranges, open, directives, shown, reported>>
    BY <1>8 DEF vars
  <2>2. TypeOK' /\ SortedOK' /\ DirectivesOK' /\ OpenOK'
    BY <2>1 DEF IInv, TypeOK, SortedOK, DirectivesOK, OpenOK
  <2>3. ClosedOK' /\ RangesOK' /\ ReachedOK'
    BY <2>1 DEF IInv, ClosedOK, RangesOK, ReachedOK, IsOpen, InRange
  <2>4. UsedOK' /\ UnusedOK' /\ ReportedOK' /\ OffendsOK'
    BY <2>1 DEF IInv, UsedOK, UnusedOK, ReportedOK, OffendsOK, Found, Marks, InRange, Runs,
       Matches, ReportsRedundant, IsRedundant, RegisteredRedundant, RenamedRedundant,
       UnknownRedundant, AllCopsRan, RunAllForRedundant
  <2>5. QED
    BY <2>2, <2>3, <2>4 DEF IInv
<1>9. QED
  BY <1>4, <1>5, <1>6, <1>7, <1>8 DEF Next

THEOREM Invariance == Spec => []IInv
<1>1. Init => IInv
  BY InitOK
<1>2. IInv /\ [Next]_vars => IInv'
  BY IInvNext
<1>3. QED
  BY <1>1, <1>2, PTL DEF Spec

-----------------------------------------------------------------------------
(* The properties. *)

\* TypeOK is an invariant.
THEOREM TypeCorrect == Spec => []TypeOK
<1>1. IInv => TypeOK
  BY DEF IInv
<1>2. QED
  BY <1>1, Invariance, PTL

\* A line in a range of a key is one that the comment of some directive reaches.
LEMMA RangesFrom ==
  ASSUME IInv, phase # "scan", NEW k \in Names, NEW l \in Lines, InRange(k, l)
  PROVE  \E i \in DOMAIN directives :
           /\ KeyOf[directives[i].name] = k
           /\ Within(l, <<directives[i].first, directives[i].last>>)
<1>1. PICK r \in ranges[k] : Within(l, r)
  BY DEF InRange
<1>2. PICK i \in DOMAIN directives :
        /\ KeyOf[directives[i].name] = k
        /\ r = <<directives[i].first, directives[i].last>>
  BY DEF IInv, RangesOK
<1>3. QED
  BY <1>1, <1>2

\* When the comments have been read, a directive has only lines that its comment reaches.
LEMMA DirectiveReaches ==
  ASSUME IInv, phase # "scan", NEW i \in DOMAIN directives, NEW l \in Lines,
         Within(l, <<directives[i].first, directives[i].last>>)
  PROVE  /\ directives[i].at \in DOMAIN written
         /\ written[directives[i].at].name = directives[i].name
         /\ Reaches(written, directives[i].at, l)
<1>1. directives[i].at \in DOMAIN written /\ written[directives[i].at].name = directives[i].name
  BY DEF IInv, DirectivesOK
<1>2. i # 0 /\ KeyOf[directives[i].name] \in Names
  BY TypeFacts DEF IInv
<1>3. ~IsOpen(i)
  BY <1>2 DEF IInv, OpenOK, IsOpen
<1>4. Reaches(written, directives[i].at, l)
  BY <1>3 DEF IInv, ClosedOK
<1>5. QED
  BY <1>1, <1>4

\* A line that a comment reaches is in a range of its key.
LEMMA ReachedInRange ==
  ASSUME IInv, phase # "scan", NEW p \in DOMAIN written, NEW l \in Lines,
         Reaches(written, p, l)
  PROVE  KeyOf[written[p].name] \in Names /\ InRange(KeyOf[written[p].name], l)
<1>1. KeyOf[written[p].name] \in Names
  BY TypeFacts DEF IInv
<1>2. open[KeyOf[written[p].name]] = 0
  BY <1>1 DEF IInv, OpenOK
<1>3. QED
  BY <1>1, <1>2 DEF IInv, ReachedOK

\* The keys of a cop are names.
LEMMA KeysAreNames ==
  ASSUME NEW c \in Cops
  PROVE  KeysFor(c) \subseteq Names
<1>1. c \in Names /\ All \in Names
  BY ConstantsOK
<1>2. DeptOf[c] \in Names
  BY ConstantsOK
<1>3. Aliases[c] \subseteq Names
  BY ConstantsOK
<1>4. QED
  BY <1>1, <1>2, <1>3 DEF KeysFor

\* An offence that a comment suppresses is under a directive, with a key of its cop.
LEMMA SuppressingDirective ==
  ASSUME IInv, phase # "scan", NEW o \in Cops \X Lines, SuppressedBy(DOMAIN written, o)
  PROVE  \E i \in DOMAIN directives :
           /\ KeyOf[directives[i].name] \in KeysFor(o[1])
           /\ Within(o[2], <<directives[i].first, directives[i].last>>)
           /\ Marks(directives[i], o)
<1>1. PICK p \in DOMAIN written :
        KeyOf[written[p].name] \in KeysFor(o[1]) /\ Reaches(written, p, o[2])
  BY DEF SuppressedBy, Covers
<1>2. o[1] \in Cops /\ o[2] \in Lines
  OBVIOUS
<1> DEFINE k == KeyOf[written[p].name]
<1>3. k \in KeysFor(o[1]) /\ k \in Names /\ InRange(k, o[2])
  BY <1>1, <1>2, ReachedInRange
<1> HIDE DEF k
<1>4. PICK i \in DOMAIN directives :
        /\ KeyOf[directives[i].name] = k
        /\ Within(o[2], <<directives[i].first, directives[i].last>>)
  BY <1>2, <1>3, RangesFrom
<1>5. QED
  BY <1>3, <1>4 DEF Marks

\* SuppressedAsWritten is an invariant: the ranges and the keys say of every cop and line
\* what the comments ask for.
THEOREM SuppressedCorrect == Spec => []SuppressedAsWritten
<1>1. IInv => SuppressedAsWritten
  <2>1. SUFFICES ASSUME IInv, phase = "filter", NEW c \in Cops, NEW l \in Lines
                 PROVE  IsDisabled(c, l) <=> SuppressedBy(DOMAIN written, <<c, l>>)
    BY DEF SuppressedAsWritten
  <2>2. ASSUME IsDisabled(c, l) PROVE SuppressedBy(DOMAIN written, <<c, l>>)
    <3>1. PICK k \in KeysFor(c) : InRange(k, l)
      BY <2>2 DEF IsDisabled
    <3>2. k \in Names
      BY KeysAreNames
    <3>3. PICK i \in DOMAIN directives :
            /\ KeyOf[directives[i].name] = k
            /\ Within(l, <<directives[i].first, directives[i].last>>)
      BY <2>1, <3>1, <3>2, RangesFrom
    <3>4. /\ directives[i].at \in DOMAIN written
          /\ written[directives[i].at].name = directives[i].name
          /\ Reaches(written, directives[i].at, l)
      BY <2>1, <3>3, DirectiveReaches
    <3>5. QED
      BY <3>1, <3>3, <3>4 DEF SuppressedBy, Covers
  <2>3. ASSUME SuppressedBy(DOMAIN written, <<c, l>>) PROVE IsDisabled(c, l)
    <3>1. PICK p \in DOMAIN written :
            KeyOf[written[p].name] \in KeysFor(c) /\ Reaches(written, p, l)
      BY <2>3 DEF SuppressedBy, Covers
    <3>2. InRange(KeyOf[written[p].name], l)
      BY <2>1, <3>1, ReachedInRange
    <3>3. QED
      BY <3>1, <3>2 DEF IsDisabled
  <2>4. QED
    BY <2>2, <2>3
<1>2. QED
  BY <1>1, Invariance, PTL

\* The comment of a directive that is not reported is kept.
LEMMA UnreportedIsKept ==
  ASSUME IInv, NEW i \in DOMAIN directives, i \notin reported
  PROVE  directives[i].at \in Kept
BY DEF IInv, TypeOK, DirectivesOK, Kept

\* An offence under a directive that is not reported stays suppressed.
LEMMA StaysSuppressed ==
  ASSUME IInv, phase # "scan", NEW o \in Cops \X Lines, NEW i \in DOMAIN directives,
         KeyOf[directives[i].name] \in KeysFor(o[1]),
         Within(o[2], <<directives[i].first, directives[i].last>>),
         i \notin reported
  PROVE  SuppressedBy(Kept, o)
<1>1. o[2] \in Lines
  OBVIOUS
<1>2. directives[i].at \in Kept
  BY UnreportedIsKept
<1>3. /\ written[directives[i].at].name = directives[i].name
      /\ Reaches(written, directives[i].at, o[2])
  BY <1>1, DirectiveReaches
<1>4. QED
  BY <1>2, <1>3 DEF SuppressedBy, Covers

\* A key of a cop that stands for a name other than a department is the cop or one of its
\* former names.
LEMMA QualifiedKeys ==
  ASSUME NEW c \in Cops, NEW k \in KeysFor(c), k \in Qualified
  PROVE  k = c \/ k \in Aliases[c]
<1>1. DeptOf[c] \notin Qualified /\ All \notin Qualified
  BY ConstantsOK
<1>2. QED
  BY <1>1 DEF KeysFor

\* If nothing is left out, a directive that is under an offence of a cop that did not run
\* is not redundant.
LEMMA NotRunNotRedundant ==
  ASSUME IInv, LeavesNothingOut, NEW o \in offends, o \notin Found,
         NEW n \in Names, KeyOf[n] \in KeysFor(o[1])
  PROVE  ~IsRedundant(n)
<1> DEFINE c == o[1]
<1>1. c \in Cops /\ c # Redundant /\ Matches(c)
  BY DEF IInv, OffendsOK
<1>2. ~Runs(c)
  BY DEF Found
<1>3. setting.except = {} /\ setting.only # {} /\ ~RunAllForRedundant
  BY <1>1, <1>2 DEF Runs, LeavesNothingOut
<1>4. ~AllCopsRan /\ Redundant \notin setting.only
  BY <1>3 DEF AllCopsRan, LeavesNothingOut
<1>5. setting.status[c] = "on"
  BY <1>1 DEF Matches, LeavesNothingOut
<1>6. KeyOf[n] \in KeysFor(c)
  OBVIOUS
<1> HIDE DEF c
<1>7. ASSUME n \in Cops PROVE ~RegisteredRedundant(n)
  <2>1. KeyOf[n] = n /\ n \in Qualified
    BY <1>7, ConstantsOK
  <2>2. n \notin Aliases[c]
    BY <1>1, <1>7, ConstantsOK
  <2>3. n = c
    BY <1>1, <1>6, <2>1, <2>2, QualifiedKeys
  <2>4. QED
    BY <1>4, <1>5, <2>3 DEF RegisteredRedundant
<1>8. ASSUME n \in DOMAIN NewName PROVE ~RenamedRedundant(n)
  <2>1. NewName[n] = c
    <3>1. CASE KeyOf[n] = n
      <4>1. n \in Qualified /\ n # c
        BY <1>1, <1>8, ConstantsOK
      <4>2. n \in Aliases[c]
        BY <1>1, <1>6, <3>1, <4>1, QualifiedKeys
      <4>3. QED
        BY <1>1, <4>2, ConstantsOK
    <3>2. CASE KeyOf[n] = NewName[n] /\ NewName[n] \in Cops
      <4>1. NewName[n] \in Qualified
        BY <3>2, ConstantsOK
      <4>2. NewName[n] \notin Aliases[c]
        BY <1>1, <3>2, ConstantsOK
      <4>3. QED
        BY <1>1, <1>6, <3>2, <4>1, <4>2, QualifiedKeys
    <3>3. QED
      BY <1>8, <3>1, <3>2, ConstantsOK
  <2>2. QED
    BY <1>1, <1>3, <1>4, <1>5, <2>1 DEF RenamedRedundant
<1>9. ~UnknownRedundant
  BY <1>3, <1>4 DEF UnknownRedundant
<1>10. QED
  BY <1>7, <1>8, <1>9 DEF IsRedundant

\* ReportedIsRedundant is an invariant: no comment that suppresses something is reported.
THEOREM ReportedCorrect == Spec => []ReportedIsRedundant
<1>1. IInv => ReportedIsRedundant
  <2>1. SUFFICES ASSUME IInv, phase = "done"
                 PROVE  /\ StillSuppressed(Found)
                        /\ LeavesNothingOut => StillSuppressed(offends)
    BY DEF ReportedIsRedundant
  <2>2. offends \subseteq Cops \X Lines /\ Found \subseteq offends
    BY <2>1 DEF IInv, TypeOK, Found
  <2>3. \A i \in reported :
          /\ i \in DOMAIN directives
          /\ ReportsRedundant /\ ~directives[i].used /\ IsRedundant(directives[i].name)
    BY <2>1 DEF IInv, ReportedOK
  <2>4. ASSUME NEW o \in Found, NEW i \in DOMAIN directives, Marks(directives[i], o)
        PROVE  i \notin reported
    <3>1. ~setting.ignore => directives[i].used
      BY <2>1, <2>4 DEF IInv, UsedOK
    <3>2. QED
      BY <2>3, <3>1 DEF ReportsRedundant
  <2>5. StillSuppressed(Found)
    <3>1. SUFFICES ASSUME NEW o \in Found, SuppressedBy(DOMAIN written, o)
                   PROVE  SuppressedBy(Kept, o)
      BY DEF StillSuppressed
    <3>2. PICK i \in DOMAIN directives :
            /\ KeyOf[directives[i].name] \in KeysFor(o[1])
            /\ Within(o[2], <<directives[i].first, directives[i].last>>)
            /\ Marks(directives[i], o)
      BY <2>1, <2>2, <3>1, SuppressingDirective
    <3>3. QED
      BY <2>1, <2>2, <2>4, <3>2, StaysSuppressed
  <2>6. ASSUME LeavesNothingOut PROVE StillSuppressed(offends)
    <3>1. SUFFICES ASSUME NEW o \in offends, SuppressedBy(DOMAIN written, o), o \notin Found
                   PROVE  SuppressedBy(Kept, o)
      BY <2>5 DEF StillSuppressed
    <3>2. PICK i \in DOMAIN directives :
            /\ KeyOf[directives[i].name] \in KeysFor(o[1])
            /\ Within(o[2], <<directives[i].first, directives[i].last>>)
      BY <2>1, <2>2, <3>1, SuppressingDirective
    <3>3. directives[i].name \in Names
      BY TypeFacts, <2>1 DEF IInv, DirectiveRecords
    <3>4. i \notin reported
      BY <2>1, <2>3, <2>6, <3>1, <3>2, <3>3, NotRunNotRedundant
    <3>5. QED
      BY <2>1, <2>2, <3>2, <3>4, StaysSuppressed
  <2>7. QED
    BY <2>5, <2>6
<1>2. QED
  BY <1>1, Invariance, PTL

\* RedundantIsReported is an invariant: with all cops run, none that suppresses nothing
\* is left out.
THEOREM RedundantReported == Spec => []RedundantIsReported
<1>1. IInv => RedundantIsReported
  <2>1. SUFFICES ASSUME IInv, phase = "done", AllCopsRan, ReportsRedundant,
                        NEW i \in DOMAIN directives, NEW n, n = directives[i].name,
                        n \in Qualified \ {Redundant},
                        n \in Cops => setting.status[n] # "unmatched",
                        ~SuppressedBy(DOMAIN written, <<Redundant, directives[i].first>>),
                        \A o \in Found : ~(/\ Covers(KeyOf[n], o[1])
                                           /\ Reaches(written, directives[i].at, o[2]))
                 PROVE  i \in reported
    BY DEF RedundantIsReported
  <2>2. Found \subseteq Cops \X Lines /\ setting.status \in [Cops -> Statuses]
    BY <2>1, ConstantsOK DEF IInv, TypeOK, Found
  <2>3. ~directives[i].used
    <3>1. SUFFICES ASSUME NEW o \in Found, Marks(directives[i], o) PROVE FALSE
      BY <2>1 DEF IInv, UnusedOK
    <3>2. Covers(KeyOf[n], o[1]) /\ Within(o[2], <<directives[i].first, directives[i].last>>)
      BY <2>1, <3>1 DEF Marks, Covers
    <3>3. o[2] \in Lines
      BY <2>2
    <3>4. Reaches(written, directives[i].at, o[2])
      BY <2>1, <3>2, <3>3, DirectiveReaches
    <3>5. QED
      BY <2>1, <3>2, <3>4
  <2>4. ~InRange(Redundant, directives[i].first)
    <3>1. SUFFICES ASSUME InRange(Redundant, directives[i].first) PROVE FALSE
      OBVIOUS
    <3>2. Redundant \in Names /\ Redundant \in Cops
      BY ConstantsOK
    <3>3. directives[i].first \in Lines
      BY <2>1, TypeFacts DEF IInv
    <3>4. PICK j \in DOMAIN directives :
            /\ KeyOf[directives[j].name] = Redundant
            /\ Within(directives[i].first, <<directives[j].first, directives[j].last>>)
      BY <2>1, <3>1, <3>2, <3>3, RangesFrom
    <3>5. /\ directives[j].at \in DOMAIN written
          /\ written[directives[j].at].name = directives[j].name
          /\ Reaches(written, directives[j].at, directives[i].first)
      BY <2>1, <3>3, <3>4, DirectiveReaches
    <3>6. QED
      BY <2>1, <3>4, <3>5 DEF SuppressedBy, Covers, KeysFor
  <2>5. IsRedundant(n)
    <3>1. ASSUME n \in Cops PROVE RegisteredRedundant(n)
      BY <2>1, <2>2, <3>1 DEF RegisteredRedundant, Matches, Statuses
    <3>2. RenamedRedundant(n)
      BY <2>1 DEF RenamedRedundant
    <3>3. UnknownRedundant
      BY <2>1 DEF UnknownRedundant, AllCopsRan, RunAllForRedundant
    <3>4. QED
      BY <2>1, <3>1, <3>2, <3>3 DEF IsRedundant
  <2>6. QED
    BY <2>1, <2>3, <2>4, <2>5 DEF IInv, ReportedOK
<1>2. QED
  BY <1>1, Invariance, PTL
=============================================================================
