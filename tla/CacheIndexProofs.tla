-------------------------- MODULE CacheIndexProofs --------------------------
(***************************************************************************)
(* Proofs about CacheIndex, for any number of runs, maps and files.        *)
(***************************************************************************)
EXTENDS CacheIndex, FiniteSetTheorems, TLAPS

Typed == TypeOK /\ \A p \in Procs : pc[p] = "writing" <=> fd[p] # None

\* No run has a file open.
LEMMA TypedInit == Init => Typed
<1> SUFFICES ASSUME Init PROVE Typed
  OBVIOUS
<1>1. /\ index = None /\ tmp = None /\ clash = FALSE /\ offered = {}
      /\ others = {} /\ raced = FALSE
      /\ data \in [Inodes -> Maps \union {Empty, Torn}]
      /\ pc = [p \in Procs |-> "down"]
      /\ mem \in [Procs -> Maps]
      /\ dirty \in [Procs -> BOOLEAN]
      /\ fd = [p \in Procs |-> None]
  BY ConstantsOK DEF Init
<1>2. after \in [Others \union Inodes -> SUBSET (Others \union Inodes)]
  BY DEF Init
<1>3. doomed \in [Runs -> SUBSET (Others \union {Own})]
  BY DEF Init
<1>4. QED
  BY <1>1, <1>2, <1>3 DEF Typed, TypeOK

\* The order of the files stays one.
LEMMA WrittenType ==
  ASSUME TypeOK, NEW x \in Others \union Inodes
  PROVE  WrittenLast(x) \in [Others \union Inodes -> SUBSET (Others \union Inodes)]
BY DEF TypeOK, WrittenLast

\* What is listed has a name.
LEMMA NamesType ==
  ASSUME TypeOK
  PROVE  {NameOf(x) : x \in OldSessions} \subseteq Others \union {Own}
BY DEF TypeOK, NameOf, OldSessions, Indexes

\* A run that is over keeps nothing.
LEMMA ExitType ==
  ASSUME Typed, NEW p \in Procs, Exit(p)
  PROVE  /\ pc' \in [Procs -> {"down", "lint", "writing", "written", "flushed"}]
         /\ pc'[p] \in {"down", "flushed"}
         /\ mem' \in [Procs -> Maps] /\ dirty' \in [Procs -> BOOLEAN]
         /\ fd' \in [Procs -> Inodes \union {None}]
         /\ clash' \in BOOLEAN /\ offered' \subseteq Maps
         /\ fd'[p] = None
         /\ \A q \in Procs : q # p => pc'[q] = pc[q] /\ fd'[q] = fd[q]
<1>1. PICK next \in {"flushed", "down"} : pc' = [pc EXCEPT ![p] = next]
  BY DEF Exit
<1>2. QED
  BY <1>1, ConstantsOK DEF Exit, Typed, TypeOK

\* Whoever is writing has a file open, nobody else, and every step keeps the types.
LEMMA TypedNext == Typed /\ [Next]_vars => Typed'
<1> SUFFICES ASSUME Typed, [Next]_vars PROVE Typed'
  OBVIOUS
<1>1. ASSUME NEW p \in Procs, Load(p) PROVE Typed'
  BY <1>1, ConstantsOK DEF Typed, TypeOK, Load, Parse, files, eviction
<1>2. ASSUME NEW p \in Procs, Learn(p) PROVE Typed'
  BY <1>2 DEF Typed, TypeOK, Learn, files, eviction
<1>3. ASSUME NEW p \in Procs, NothingToFlush(p) PROVE Typed'
  BY <1>3, ExitType DEF Typed, TypeOK, NothingToFlush, eviction
<1>4. ASSUME NEW p \in Procs, OpenTmp(p) PROVE Typed'
  BY <1>4, WrittenType DEF Typed, TypeOK, OpenTmp, MeetFlushes, Flushing
<1>5. ASSUME NEW p \in Procs, WriteTmp(p) PROVE Typed'
  <2>1. after' \in [Others \union Inodes -> SUBSET (Others \union Inodes)]
    BY <1>5, WrittenType DEF Typed, TypeOK, WriteTmp
  <2>2. raced' \in BOOLEAN
    BY <1>5 DEF Typed, TypeOK, WriteTmp, Renewed
  <2>3. QED
    BY <1>5, <2>1, <2>2 DEF Typed, TypeOK, WriteTmp
<1>6. ASSUME NEW p \in Procs, Rename(p) PROVE Typed'
  <2>1. Exit(p) /\ raced' \in BOOLEAN
    BY <1>6 DEF Typed, TypeOK, Rename, Renewed
  <2>2. index' \in Inodes \union {None} /\ tmp' \in Inodes \union {None}
    BY <1>6 DEF Typed, TypeOK, Rename
  <2>3. QED
    BY <1>6, <2>1, <2>2, ExitType DEF Typed, TypeOK, Rename
<1>7. ASSUME NEW p \in Procs, Abandon(p) PROVE Typed'
  <2>1. Exit(p) /\ raced' \in BOOLEAN
    BY <1>7 DEF Typed, TypeOK, Abandon, Renewed
  <2>2. data' \in [Inodes -> Maps \union {Empty, Torn}]
    BY <1>7 DEF Typed, TypeOK, Abandon
  <2>3. after' \in [Others \union Inodes -> SUBSET (Others \union Inodes)]
    BY <1>7, WrittenType DEF Typed, TypeOK, Abandon
  <2>4. QED
    BY <1>7, <2>1, <2>2, <2>3, ExitType DEF Typed, TypeOK, Abandon
<1>8. ASSUME ClearCache \/ UNCHANGED vars PROVE Typed'
  BY <1>8 DEF Typed, TypeOK, ClearCache, vars
<1>9. ASSUME NEW o \in Others, OtherFlush(o) PROVE Typed'
  BY <1>9, WrittenType DEF Typed, TypeOK, OtherFlush, Renewed, files
<1>10. ASSUME NEW e \in Runs, List(e) PROVE Typed'
  BY <1>10, NamesType DEF Typed, TypeOK, List, files
<1>11. ASSUME NEW e \in Runs, StopEvicting(e) PROVE Typed'
  BY <1>11 DEF Typed, TypeOK, StopEvicting, files
<1>12. ASSUME NEW e \in Runs, NEW name, Remove(e, name) PROVE Typed'
  BY <1>12 DEF Typed, TypeOK, Remove
<1>13. QED
  BY <1>1, <1>2, <1>3, <1>4, <1>5, <1>6, <1>7, <1>8, <1>9, <1>10, <1>11, <1>12 DEF Next

\* A torn or missing index is loaded as an empty map: whatever runs overlap, no
\* memory ever holds anything but a map.  (load_index)
THEOREM TypeCorrect == Spec => []TypeOK
<1>1. Typed => TypeOK
  BY DEF Typed
<1>2. QED
  BY <1>1, TypedInit, TypedNext, PTL DEF Spec

-----------------------------------------------------------------------------
(* Flushes, which may overlap.                                              *)

\* What the one run that flushes knows of the files at each point of flush.
AloneOK(p) ==
  /\ pc[p] = "writing" => /\ fd[p] # index
                          /\ tmp \in {fd[p], None}
                          /\ data[fd[p]] = Empty
  /\ pc[p] = "written" /\ tmp # None => data[tmp] = mem[p]

Alone ==
  ~clash => /\ \A p, q \in Flushing : p = q
            /\ \A p \in Flushing : AloneOK(p)

\* What runs whose flushes overlap still know: the files they share hold nothing from
\* before the first of them began.
SharedOK(p) ==
  /\ mem[p] \in offered
  /\ tmp # None => data[tmp] \in offered \union {Empty, Torn}
  /\ pc[p] = "writing" => data[fd[p]] \in offered \union {Empty, Torn}

Shared == \A p \in Flushing : SharedOK(p)

\* The inductive invariant of the files of the session.
FlushInv ==
  /\ Typed
  /\ index # None => index # tmp
  /\ \A p \in Procs : pc[p] \in {"down", "flushed"} => mem[p] = EmptyMap
  /\ Alone
  /\ Shared

\* No run is flushing and there is no index.
LEMMA FlushInit == Init => FlushInv
<1>1. Init => Typed
  BY TypedInit
<1>2. QED
  BY <1>1, ConstantsOK DEF Init, FlushInv, Flushing, Alone, Shared

\* Where the run that exits leaves the others.
LEMMA ExitFlushing ==
  ASSUME Typed, NEW p \in Procs, Exit(p)
  PROVE  /\ Flushing' = Flushing \ {p}
         /\ Flushing' # {} => clash' = clash /\ offered' = offered
         /\ \A q \in Procs \ {p} : pc'[q] = pc[q] /\ fd'[q] = fd[q] /\ mem'[q] = mem[q]
         /\ pc'[p] \in {"down", "flushed"} /\ mem'[p] = EmptyMap
<1>1. pc'[p] \in {"down", "flushed"} /\ mem'[p] = EmptyMap
      /\ \A q \in Procs \ {p} : pc'[q] = pc[q] /\ fd'[q] = fd[q] /\ mem'[q] = mem[q]
  BY DEF Exit, Typed, TypeOK
<1>2. Flushing' = Flushing \ {p}
  BY <1>1 DEF Flushing
<1>3. QED
  BY <1>1, <1>2 DEF Exit

\* A step that changes neither the files, nor who flushes them, nor with what.
LEMMA QuietFlushes ==
  ASSUME FlushInv, Typed', Flushing' = Flushing, UNCHANGED <<data, clash, offered>>,
         index' \in {index, None}, tmp' \in {tmp, None},
         \A p \in Flushing : pc'[p] = pc[p] /\ fd'[p] = fd[p] /\ mem'[p] = mem[p],
         \A p \in Procs : pc'[p] \in {"down", "flushed"} => mem'[p] = EmptyMap
  PROVE  FlushInv'
<1>1. (index # None => index # tmp)'
  BY DEF FlushInv
<1>2. Alone'
  BY ConstantsOK DEF FlushInv, Alone, AloneOK, Typed, TypeOK, Flushing
<1>3. Shared'
  BY DEF FlushInv, Shared, SharedOK
<1>4. QED
  BY <1>1, <1>2, <1>3 DEF FlushInv

\* Every step keeps what the runs under way in flush know of the files.
LEMMA FlushNext ==
  ASSUME FlushInv, [Next]_vars
  PROVE  FlushInv'
<1>0. Typed'
  BY TypedNext DEF FlushInv
<1> USE ConstantsOK DEF FlushInv, Typed, TypeOK
<1>1. ASSUME NEW p \in Procs, Load(p) PROVE FlushInv'
  <2>1. Flushing' = Flushing
    BY <1>1 DEF Load, Flushing
  <2>2. QED
    BY <1>0, <1>1, <2>1, QuietFlushes DEF Load, Flushing, files
<1>2. ASSUME NEW p \in Procs, Learn(p) PROVE FlushInv'
  <2>1. Flushing' = Flushing
    BY <1>2 DEF Learn, Flushing
  <2>2. QED
    BY <1>0, <1>2, <2>1, QuietFlushes DEF Learn, Flushing, files
<1>3. ASSUME NEW p \in Procs, NothingToFlush(p) PROVE FlushInv'
  <2>1. Exit(p) /\ p \notin Flushing /\ UNCHANGED <<index, tmp, data>>
    BY <1>3 DEF NothingToFlush, Flushing
  <2>2. Flushing' = Flushing
    <3>1. Flushing' = Flushing \ {p}
      BY <2>1, ExitFlushing
    <3>2. QED
      BY <2>1, <3>1
  <2>3. \A q \in Flushing : pc'[q] = pc[q] /\ fd'[q] = fd[q] /\ mem'[q] = mem[q]
    BY <2>1, ExitFlushing DEF Flushing
  <2>4. \A q \in Procs : pc'[q] \in {"down", "flushed"} => mem'[q] = EmptyMap
    BY <2>1, ExitFlushing
  <2>5. CASE Flushing = {}
    BY <1>0, <2>1, <2>2, <2>4, <2>5 DEF Alone, Shared
  <2>6. CASE Flushing # {}
    BY <1>0, <2>1, <2>2, <2>3, <2>4, <2>6, ExitFlushing, QuietFlushes
  <2>7. QED
    BY <2>5, <2>6
<1>4. ASSUME NEW p \in Procs, OpenTmp(p) PROVE FlushInv'
  <2>1. PICK i \in Inodes, bytes \in {Empty, Torn} :
          /\ IF tmp = None THEN i # index /\ \A q \in Procs : fd[q] # i ELSE i = tmp
          /\ bytes = Torn => \E q \in Procs : fd[q] = i
          /\ tmp' = i
          /\ data' = [data EXCEPT ![i] = bytes]
          /\ fd' = [fd EXCEPT ![p] = i]
    BY <1>4 DEF OpenTmp
  <2>2. /\ Flushing' = Flushing \union {p} /\ p \notin Flushing
        /\ clash' = (Flushing # {}) /\ offered' = offered \union {mem[p]}
        /\ UNCHANGED <<index, mem>> /\ pc' = [pc EXCEPT ![p] = "writing"]
    BY <1>4 DEF OpenTmp, MeetFlushes, Flushing
  <2>3. i # index
    BY <2>1
  <2>4. Alone'
    <3>1. SUFFICES ASSUME Flushing = {} PROVE Alone'
      BY <2>2 DEF Alone
    <3>2. bytes = Empty
      <4>1. SUFFICES ASSUME NEW q \in Procs, fd[q] = i PROVE FALSE
        BY <2>1
      <4>2. pc[q] = "writing"
        BY <2>1, <4>1
      <4>3. QED
        BY <3>1, <4>2 DEF Flushing
    <3>3. QED
      BY <2>1, <2>2, <2>3, <3>1, <3>2 DEF Alone, AloneOK
  <2>5. Shared'
    BY <2>1, <2>2 DEF Shared, SharedOK, Flushing
  <2>6. QED
    BY <1>0, <2>1, <2>2, <2>3, <2>4, <2>5
<1>5. ASSUME NEW p \in Procs, WriteTmp(p) PROVE FlushInv'
  <2>1. PICK bytes \in {mem[p], Torn} :
          /\ data[fd[p]] = Empty => bytes = mem[p]
          /\ data' = [data EXCEPT ![fd[p]] = bytes]
    BY <1>5 DEF WriteTmp
  <2>2. /\ p \in Flushing /\ Flushing' = Flushing /\ fd[p] \in Inodes
        /\ pc[p] = "writing" /\ pc' = [pc EXCEPT ![p] = "written"]
        /\ fd' = [fd EXCEPT ![p] = None]
        /\ UNCHANGED <<index, tmp, mem, clash, offered>>
    BY <1>5 DEF WriteTmp, Flushing
  <2>3. Alone'
    <3>1. SUFFICES ASSUME ~clash PROVE AloneOK(p)' /\ \A q \in Flushing : q = p
      BY <2>2 DEF Alone
    <3>2. AloneOK(p) /\ \A q \in Flushing : q = p
      BY <2>2, <3>1 DEF Alone
    <3>3. QED
      BY <2>1, <2>2, <3>2 DEF AloneOK
  <2>4. Shared'
    BY <2>1, <2>2 DEF Shared, SharedOK, Flushing
  <2>5. QED
    BY <1>0, <2>2, <2>3, <2>4
<1>6. ASSUME NEW p \in Procs, Rename(p) PROVE FlushInv'
  <2>1. /\ Exit(p) /\ data' = data
        /\ (UNCHANGED <<index, tmp>> \/ (index' = tmp /\ tmp' = None))
    BY <1>6 DEF Rename
  <2>2. Alone'
    <3>1. SUFFICES ASSUME Flushing' # {}, ~clash PROVE FALSE
      BY <2>1, ExitFlushing DEF Alone
    <3>2. p \in Flushing
      BY <1>6 DEF Rename, Flushing
    <3>3. QED
      BY <2>1, <3>1, <3>2, ExitFlushing DEF Alone
  <2>3. Shared'
    <3>1. SUFFICES ASSUME NEW q \in Flushing' PROVE SharedOK(q)'
      BY DEF Shared
    <3>2. q \in Flushing \ {p} /\ q \in Procs /\ offered' = offered
      BY <2>1, <3>1, ExitFlushing DEF Flushing
    <3>3. pc'[q] = pc[q] /\ fd'[q] = fd[q] /\ mem'[q] = mem[q]
      BY <2>1, <3>2, ExitFlushing
    <3>4. QED
      BY <2>1, <3>2, <3>3 DEF Shared, SharedOK
  <2>4. \A q \in Procs : pc'[q] \in {"down", "flushed"} => mem'[q] = EmptyMap
    BY <2>1, ExitFlushing
  <2>5. QED
    BY <1>0, <1>6, <2>2, <2>3, <2>4 DEF Rename
<1>7. ASSUME NEW p \in Procs, Abandon(p) PROVE FlushInv'
  <2>1. Exit(p) /\ UNCHANGED <<index, tmp>>
    BY <1>7 DEF Abandon
  <2>2. \A i \in Inodes : data'[i] = data[i] \/ data'[i] = Torn
    BY <1>7 DEF Abandon
  <2>3. pc[p] # "writing" => data' = data
    BY <1>7 DEF Abandon
  <2>4. Alone'
    <3>1. SUFFICES ASSUME Flushing' # {}, ~clash PROVE \A q \in Flushing' : AloneOK(q)'
      BY <2>1, ExitFlushing DEF Alone
    <3>2. p \notin Flushing
      BY <2>1, <3>1, ExitFlushing DEF Alone
    <3>3. data' = data /\ UNCHANGED <<clash, offered>>
      BY <2>1, <2>3, <3>1, <3>2, ExitFlushing DEF Flushing
    <3>4. \A q \in Flushing' :
            q \in Flushing /\ pc'[q] = pc[q] /\ fd'[q] = fd[q] /\ mem'[q] = mem[q]
      BY <2>1, <3>2, ExitFlushing DEF Flushing
    <3>5. QED
      BY <2>1, <3>1, <3>3, <3>4 DEF Alone, AloneOK
  <2>5. Shared'
    <3>1. SUFFICES ASSUME NEW q \in Flushing' PROVE SharedOK(q)'
      BY DEF Shared
    <3>2. q \in Flushing \ {p} /\ q \in Procs /\ offered' = offered
      BY <2>1, <3>1, ExitFlushing DEF Flushing
    <3>3. pc'[q] = pc[q] /\ fd'[q] = fd[q] /\ mem'[q] = mem[q]
      BY <2>1, <3>2, ExitFlushing
    <3>4. QED
      BY <2>1, <2>2, <3>2, <3>3 DEF Shared, SharedOK
  <2>6. \A q \in Procs : pc'[q] \in {"down", "flushed"} => mem'[q] = EmptyMap
    BY <2>1, ExitFlushing
  <2>7. QED
    BY <1>0, <2>1, <2>4, <2>5, <2>6
<1>8. ASSUME ClearCache \/ UNCHANGED vars PROVE FlushInv'
  BY <1>0, <1>8, QuietFlushes DEF ClearCache, vars, Flushing
<1>9. ASSUME NEW o \in Others, OtherFlush(o) PROVE FlushInv'
  BY <1>0, <1>9, QuietFlushes DEF OtherFlush, files, Flushing
<1>10. ASSUME NEW e \in Runs, List(e) PROVE FlushInv'
  <2>1. Flushing' = Flushing /\ \A q \in Flushing : pc'[q] = pc[q]
    BY <1>10 DEF List, Flushing
  <2>2. \A q \in Procs : pc'[q] \in {"down", "flushed"} => pc[q] \in {"down", "flushed"}
    BY <1>10 DEF List
  <2>3. QED
    BY <1>0, <1>10, <2>1, <2>2, QuietFlushes DEF List, files
<1>11. ASSUME NEW e \in Runs, StopEvicting(e) PROVE FlushInv'
  BY <1>0, <1>11, QuietFlushes DEF StopEvicting, files, Flushing
<1>12. ASSUME NEW e \in Runs, NEW name, Remove(e, name) PROVE FlushInv'
  BY <1>0, <1>12, QuietFlushes DEF Remove, Flushing
<1>13. QED
  BY <1>1, <1>2, <1>3, <1>4, <1>5, <1>6, <1>7, <1>8, <1>9, <1>10, <1>11, <1>12 DEF Next

\* Whatever crashed or failed before, only a run whose flush overlaps another's can leave
\* an index that is not one whole map.  (flush)
THEOREM OverlapsAloneBreak == Spec => OnlyOverlapsBreak
<1> DEFINE Kept == IndexWhole /\ ~clash => IndexWhole'
<1>1. ASSUME FlushInv, Next, IndexWhole, ~clash PROVE IndexWhole'
  <2> USE ConstantsOK DEF FlushInv, Typed, TypeOK, IndexWhole
  <2>1. ASSUME NEW p \in Procs, Load(p) \/ Learn(p) \/ NothingToFlush(p) PROVE IndexWhole'
    BY <1>1, <2>1 DEF Load, Learn, NothingToFlush, files
  <2>2. ASSUME NEW p \in Procs, OpenTmp(p) PROVE IndexWhole'
    BY <1>1, <2>2 DEF OpenTmp
  <2>3. ASSUME NEW p \in Procs, WriteTmp(p) PROVE IndexWhole'
    <3>1. p \in Flushing /\ fd[p] # index
      BY <1>1, <2>3 DEF WriteTmp, Flushing, Alone, AloneOK
    <3>2. QED
      BY <1>1, <2>3, <3>1 DEF WriteTmp
  <2>4. ASSUME NEW p \in Procs, Rename(p) PROVE IndexWhole'
    <3>1. p \in Flushing /\ (tmp # None => data[tmp] = mem[p])
      BY <1>1, <2>4 DEF Rename, Flushing, Alone, AloneOK
    <3>2. QED
      BY <1>1, <2>4, <3>1 DEF Rename
  <2>5. ASSUME NEW p \in Procs, Abandon(p) PROVE IndexWhole'
    <3>1. pc[p] = "writing" => fd[p] # index
      BY <1>1 DEF Flushing, Alone, AloneOK
    <3>2. QED
      BY <1>1, <2>5, <3>1 DEF Abandon
  <2>6. ASSUME ClearCache PROVE IndexWhole'
    BY <2>6 DEF ClearCache
  <2>7. ASSUME NEW o \in Others, OtherFlush(o) PROVE IndexWhole'
    BY <1>1, <2>7 DEF OtherFlush, files
  <2>8. ASSUME NEW e \in Runs,
               List(e) \/ StopEvicting(e) \/ \E name \in Others \union {Own} : Remove(e, name)
        PROVE  IndexWhole'
    BY <1>1, <2>8 DEF List, StopEvicting, Remove, files
  <2>9. QED
    BY <1>1, <2>1, <2>2, <2>3, <2>4, <2>5, <2>6, <2>7, <2>8 DEF Next
<1>2. FlushInv /\ [Next]_vars => [Kept]_vars
  BY <1>1
<1>3. FlushInv /\ [Next]_vars => FlushInv'
  BY FlushNext
<1>4. QED
  BY <1>2, <1>3, FlushInit, PTL DEF Spec, OnlyOverlapsBreak

\* However runs overlap, crash and fail, a run whose own flush meets no other leaves
\* its map whole in the index.  (flush, load_index)
THEOREM LoneFlushWhole == Spec => LoneFlushRepairs
<1> DEFINE Repaired ==
      \A p \in Procs : Rename(p) /\ ~clash /\ tmp # None =>
        index' # None /\ data'[index'] = mem[p]
<1>1. FlushInv /\ [Next]_vars => [Repaired]_vars
  BY DEF FlushInv, Alone, AloneOK, Flushing, Rename
<1>2. FlushInv /\ [Next]_vars => FlushInv'
  BY FlushNext
<1>3. QED
  BY <1>1, <1>2, FlushInit, PTL DEF Spec, LoneFlushRepairs

-----------------------------------------------------------------------------
(* The abstract store.                                                      *)

\* The steps are steps of the abstract store: a rename of a flush that meets no other
\* publishes the map, whatever writes to a file that runs share overwrites, everything
\* else of flush is invisible or an end unsaved.
LEMMA StepSimulation ==
  ASSUME FlushInv, [Next]_vars
  PROVE  [Store!Next]_Store!vars
<1> USE ConstantsOK DEF FlushInv, Typed, TypeOK
<1> DEFINE Stored == IF index = None THEN None
                     ELSE IF data[index] \in Maps THEN data[index] ELSE Torn
           Run    == [p \in Procs |-> IF pc[p] \in {"down", "flushed"} THEN "down"
                                      ELSE IF pc[p] = "lint" THEN "up" ELSE "saving"]
<1>a. \A p \in Procs : /\ Run[p] = "down" <=> pc[p] \in {"down", "flushed"}
                       /\ Run[p] = "up" <=> pc[p] = "lint"
                       /\ Run[p] = "saving" <=> pc[p] \in {"writing", "written"}
  OBVIOUS
<1>b. Flushing = {q \in Procs : Run[q] = "saving"}
  BY <1>a DEF Flushing
<1>0. ASSUME NEW p \in Procs, Exit(p), pc[p] \notin {"down", "flushed"} PROVE Store!End(p)
  <2>1. PICK next \in {"flushed", "down"} : pc' = [pc EXCEPT ![p] = next]
    BY <1>0 DEF Exit
  <2>2. Run' = [Run EXCEPT ![p] = "down"]
    BY <2>1
  <2>3. Run[p] # "down"
    BY <1>0, <1>a
  <2>4. /\ mem' = [mem EXCEPT ![p] = EmptyMap]
        /\ IF Flushing \subseteq {p} THEN clash' = FALSE /\ offered' = {}
                                    ELSE UNCHANGED <<clash, offered>>
    BY <1>0 DEF Exit
  <2> HIDE DEF Run
  <2>5. QED
    BY <1>b, <2>2, <2>3, <2>4 DEF Store!End, Store!Saving, Run
<1>1. ASSUME NEW p \in Procs, Load(p) PROVE Store!Load(p)
  <2>1. Stored' = Stored /\ Run' = [Run EXCEPT ![p] = "up"] /\ Run[p] = "down"
    BY <1>1 DEF Load, files
  <2>2. mem' = [mem EXCEPT ![p] = IF Stored \in {None, Torn} THEN EmptyMap ELSE Stored]
    BY <1>1 DEF Load, Parse
  <2>3. QED
    BY <1>1, <2>1, <2>2 DEF Store!Load, Load, files
<1>2. ASSUME NEW p \in Procs, Learn(p) PROVE Store!Learn(p)
  <2>1. Stored' = Stored /\ Run' = Run /\ Run[p] = "up"
    BY <1>2 DEF Learn, files
  <2>2. QED
    BY <1>2, <2>1 DEF Learn, Store!Learn, files
<1>3. ASSUME NEW p \in Procs, NothingToFlush(p) PROVE Store!EndUnsaved(p)
  <2>1. Stored' = Stored
    BY <1>3 DEF NothingToFlush
  <2>2. Store!End(p)
    BY <1>3, <1>0 DEF NothingToFlush
  <2>3. QED
    BY <2>1, <2>2 DEF Store!EndUnsaved
<1>4. ASSUME NEW p \in Procs, OpenTmp(p) PROVE Store!Save(p)
  <2>1. Stored' = Stored
    BY <1>4 DEF OpenTmp
  <2>2. Run[p] = "up" /\ Run' = [Run EXCEPT ![p] = "saving"] /\ mem' = mem
    BY <1>4 DEF OpenTmp
  <2>3. clash' = (Flushing # {}) /\ offered' = offered \union {mem[p]}
    BY <1>4 DEF OpenTmp, MeetFlushes
  <2>4. QED
    BY <1>b, <2>1, <2>2, <2>3 DEF Store!Save, Store!Saving
<1>5. ASSUME NEW p \in Procs, WriteTmp(p) PROVE [Store!Next]_Store!vars
  <2>1. Run' = Run /\ UNCHANGED <<mem, clash, offered>> /\ Run[p] = "saving" /\ p \in Flushing
    BY <1>5 DEF WriteTmp, Flushing
  <2>2. CASE fd[p] # index
    <3>1. Stored' = Stored
      BY <1>5, <2>2 DEF WriteTmp
    <3>2. QED
      BY <2>1, <3>1 DEF Store!vars
  <2>3. CASE fd[p] = index
    <3>1. clash
      BY <1>5, <2>1, <2>3 DEF WriteTmp, Alone, AloneOK
    <3>2. Stored' \in offered \union {Torn}
      BY <1>5, <2>1, <2>3 DEF WriteTmp, Shared, SharedOK
    <3>3. Store!Overwrite(p)
      BY <2>1, <3>1, <3>2 DEF Store!Overwrite
    <3>4. QED
      BY <3>3 DEF Store!Next
  <2>4. QED
    BY <2>2, <2>3
<1>6. ASSUME NEW p \in Procs, Rename(p)
      PROVE  Store!Publish(p) \/ Store!EndUnsaved(p) \/ Store!Overwrite(p)
  <2>1. Store!End(p) /\ Run[p] = "saving" /\ p \in Flushing
    BY <1>6, <1>0 DEF Rename, Flushing
  <2>2. CASE tmp = None
    <3>1. Stored' = Stored
      BY <1>6, <2>2 DEF Rename
    <3>2. QED
      BY <2>1, <3>1 DEF Store!EndUnsaved
  <2>3. CASE tmp # None /\ ~clash
    <3>1. Stored' = mem[p]
      BY <1>6, <2>1, <2>3 DEF Rename, Alone, AloneOK
    <3>2. QED
      BY <2>1, <3>1 DEF Store!Publish
  <2>4. CASE tmp # None /\ clash
    <3>1. Stored' \in offered \union {Torn}
      BY <1>6, <2>1, <2>4 DEF Rename, Shared, SharedOK
    <3>2. QED
      BY <2>1, <2>4, <3>1 DEF Store!Overwrite
  <2>5. QED
    BY <2>2, <2>3, <2>4
<1>7. ASSUME NEW p \in Procs, Abandon(p) PROVE Store!EndUnsaved(p) \/ Store!Overwrite(p)
  <2>1. Store!End(p)
    BY <1>7, <1>0 DEF Abandon
  <2>2. CASE Stored' = Stored
    BY <2>1, <2>2 DEF Store!EndUnsaved
  <2>3. CASE Stored' # Stored
    <3>1. pc[p] = "writing" /\ fd[p] = index /\ Stored' = Torn
      BY <1>7, <2>3 DEF Abandon
    <3>2. p \in Flushing /\ Run[p] = "saving"
      BY <3>1 DEF Flushing
    <3>3. clash
      BY <3>1, <3>2 DEF Alone, AloneOK
    <3>4. QED
      BY <2>1, <3>1, <3>2, <3>3 DEF Store!Overwrite
  <2>4. QED
    BY <2>2, <2>3
<1>8. ASSUME ClearCache PROVE Store!Remove
  BY <1>8 DEF ClearCache, Store!Remove
<1>9. ASSUME UNCHANGED vars PROVE UNCHANGED Store!vars
  BY <1>9 DEF vars, Store!vars
<1>10. ASSUME NEW o \in Others, OtherFlush(o) PROVE UNCHANGED Store!vars
  BY <1>10 DEF OtherFlush, files, Store!vars
<1>11. ASSUME NEW e \in Runs, List(e) PROVE UNCHANGED Store!vars
  <2>1. Run' = Run
    BY <1>11 DEF List
  <2>2. QED
    BY <1>11, <2>1 DEF List, files, Store!vars
<1>12. ASSUME NEW e \in Runs, StopEvicting(e) PROVE UNCHANGED Store!vars
  BY <1>12 DEF StopEvicting, files, Store!vars
<1>13. ASSUME NEW e \in Runs, NEW name, Remove(e, name)
       PROVE  Store!Remove \/ UNCHANGED Store!vars
  BY <1>13 DEF Remove, Store!Remove, Store!vars
<1>14. QED
  BY <1>1, <1>2, <1>3, <1>4, <1>5, <1>6, <1>7, <1>8, <1>9, <1>10, <1>11, <1>12, <1>13
  DEF Next, Store!Next

\* Through overlapping flushes, crashes, failed writes, stale .tmp files, eviction and
\* --cache-clear, the files implement a store that is replaced at once, but for what
\* flushes that overlap do to each other.  (flush)
THEOREM Refinement == Spec => ImplementsIndexStore
<1>1. Init => Store!Init
  <2>1. ASSUME Init
        PROVE  [p \in Procs |-> IF pc[p] \in {"down", "flushed"} THEN "down"
                                ELSE IF pc[p] = "lint" THEN "up" ELSE "saving"]
                 = [p \in Procs |-> "down"]
    BY <2>1 DEF Init
  <2>2. QED
    BY <2>1 DEF Init, Store!Init
<1>2. FlushInv /\ [Next]_vars => FlushInv'
  BY FlushNext
<1>3. FlushInv /\ [Next]_vars => [Store!Next]_Store!vars
  BY StepSimulation
<1>4. QED
  BY <1>1, <1>2, <1>3, FlushInit, PTL DEF Spec, Store!Spec, ImplementsIndexStore

-----------------------------------------------------------------------------
(* Eviction.                                                                *)

Files == Others \union Inodes

\* After is an order.
OrderOK ==
  /\ \A x \in Files : x \notin after[x]
  /\ \A x, y, z \in Files : y \in after[x] /\ z \in after[y] => z \in after[x]

\* Of what is still to be removed, each has enough indexes behind it.
EnoughOK ==
  ~raced => \A e \in Runs : \A name \in doomed[e] :
    FileOf(name) \in Indexes => Younger(FileOf(name)) >= Target

KeepInv == FlushInv /\ OrderOK /\ EnoughOK

\* There are finitely many indexes.
LEMMA FiniteIndexes == TypeOK => IsFiniteSet(Indexes)
<1> SUFFICES ASSUME TypeOK PROVE IsFiniteSet(Indexes)
  OBVIOUS
<1>1. IsFiniteSet(others)
  BY ConstantsOK, FS_Subset DEF TypeOK
<1>2. IsFiniteSet({index})
  BY FS_Singleton
<1>3. IsFiniteSet({index} \ {None})
  BY <1>2, FS_Subset
<1>4. QED
  BY <1>1, <1>3, FS_Union DEF Indexes

\* So the indexes younger than one can be counted.
LEMMA YoungerType ==
  ASSUME TypeOK, NEW x
  PROVE  IsFiniteSet(after[x] \cap Indexes) /\ Younger(x) \in Nat
<1>1. IsFiniteSet(after[x] \cap Indexes)
  BY FiniteIndexes, FS_Subset
<1>2. QED
  BY <1>1, FS_CardinalityType DEF Younger

\* The target is a number.
LEMMA TargetType == Target \in Nat
BY ConstantsOK DEF Target

\* A step keeps enough behind what is to be removed if it leaves them behind it.
LEMMA StillEnough ==
  ASSUME TypeOK, TypeOK', EnoughOK, raced => raced',
         ~raced' => \A e \in Runs : \A name \in doomed'[e] :
           FileOf(name)' \in Indexes' =>
             /\ name \in doomed[e]
             /\ FileOf(name) \in Indexes
             /\ (after[FileOf(name)] \cap Indexes)
                  \subseteq (after[FileOf(name)] \cap Indexes)'
  PROVE  EnoughOK'
<1>1. SUFFICES ASSUME ~raced', NEW e \in Runs, NEW name \in doomed'[e],
                      FileOf(name)' \in Indexes'
               PROVE  (Younger(FileOf(name)) >= Target)'
  BY DEF EnoughOK
<1> DEFINE S == after[FileOf(name)] \cap Indexes
<1>2. Younger(FileOf(name)) >= Target
  BY <1>1 DEF EnoughOK
<1>3. S \subseteq S'
  BY <1>1
<1>4. IsFiniteSet(S')
  <2>1. IsFiniteSet(Indexes)'
    BY FiniteIndexes, PTL
  <2>2. S' \subseteq Indexes'
    OBVIOUS
  <2>3. QED
    BY <2>1, <2>2, FS_Subset
<1>5. Cardinality(S) <= Cardinality(S') /\ Cardinality(S) \in Nat /\ Cardinality(S') \in Nat
  BY <1>3, <1>4, FS_Subset, FS_CardinalityType
<1>6. Target' = Target
  BY DEF Target
<1>7. QED
  BY <1>2, <1>5, <1>6, TargetType DEF Younger

\* A written file comes last.
LEMMA WrittenOrder ==
  ASSUME TypeOK, OrderOK, NEW x \in Files, after' = WrittenLast(x)
  PROVE  OrderOK'
BY DEF TypeOK, OrderOK, Files, WrittenLast

\* It stays behind what it was behind.
LEMMA WrittenKeeps ==
  ASSUME TypeOK, NEW x \in Files, NEW y \in Indexes, y # x
  PROVE  (after[y] \cap Existing) \union {x} \subseteq WrittenLast(x)[y]
         /\ Indexes \subseteq Existing
BY ConstantsOK DEF TypeOK, Files, WrittenLast, Indexes, Existing

\* A step that changes neither the order, nor the indexes, nor what is to be removed.
LEMMA QuietKeeps ==
  ASSUME KeepInv, FlushInv', UNCHANGED <<index, after, others, doomed>>, raced => raced'
  PROVE  KeepInv'
<1>1. TypeOK /\ TypeOK'
  BY DEF KeepInv, FlushInv, Typed
<1>2. EnoughOK'
  BY <1>1, StillEnough DEF KeepInv, FileOf, Indexes
<1>3. QED
  BY <1>2 DEF KeepInv, OrderOK

\* The file p writes is the temporary one, one without a name, or the index itself, which
\* then comes last.
LEMMA WritingKeeps ==
  ASSUME KeepInv, FlushInv', NEW i \in Inodes, after' = WrittenLast(i),
         Renewed(IF i = index THEN {Own} ELSE {}), UNCHANGED <<index, others, doomed>>
  PROVE  KeepInv'
<1>1. TypeOK /\ TypeOK' /\ i \in Files /\ i \notin Others
  BY ConstantsOK DEF KeepInv, FlushInv, Typed, TypeOK, Files
<1>2. OrderOK'
  BY <1>1, WrittenOrder DEF KeepInv
<1>3. Indexes' = Indexes /\ \A name : FileOf(name)' = FileOf(name)
  BY DEF Indexes, FileOf
<1>4. \A x \in Indexes : x # i => after[x] \cap Indexes \subseteq after'[x]
  BY <1>1, WrittenKeeps
<1>5. ASSUME ~raced', NEW e \in Runs, NEW name \in doomed[e], FileOf(name) \in Indexes
      PROVE  FileOf(name) # i
  <2>1. i = index => Own \notin doomed[e]
    BY <1>5 DEF Renewed
  <2>2. name \in Others \union {Own}
    BY <1>1, <1>5 DEF TypeOK
  <2>3. CASE name = Own
    BY <1>5, <2>1, <2>3, ConstantsOK DEF FileOf
  <2>4. CASE name # Own
    BY <1>1, <2>2, <2>4 DEF FileOf
  <2>5. QED
    BY <2>3, <2>4
<1>6. raced => raced'
  BY DEF Renewed
<1>7. EnoughOK'
  BY <1>1, <1>3, <1>4, <1>5, <1>6, StillEnough DEF KeepInv
<1>8. QED
  BY <1>2, <1>7 DEF KeepInv

\* No index is written while it waits to be removed, or the step is a race.
LEMMA RenewedKeeps ==
  ASSUME TypeOK, NEW name, Renewed({name})
  PROVE  /\ raced => raced'
         /\ ~raced' => \A e \in Runs : name \notin doomed[e]
BY DEF Renewed, TypeOK

\* Every step keeps enough behind what is to be removed.
LEMMA KeepNext ==
  ASSUME KeepInv, [Next]_vars
  PROVE  KeepInv'
<1>0. FlushInv' /\ TypeOK /\ TypeOK'
  BY FlushNext DEF KeepInv, FlushInv, Typed
<1>1. ASSUME NEW p \in Procs, Load(p) \/ Learn(p) \/ NothingToFlush(p) PROVE KeepInv'
  BY <1>0, <1>1, QuietKeeps DEF Load, Learn, NothingToFlush, files, eviction
<1>2. ASSUME NEW p \in Procs, OpenTmp(p) PROVE KeepInv'
  <2>1. PICK i \in Inodes : /\ IF tmp = None THEN i # index ELSE i = tmp
                            /\ after' = WrittenLast(i)
    BY <1>2 DEF OpenTmp
  <2>2. i # index
    BY <2>1, ConstantsOK DEF KeepInv, FlushInv
  <2>3. Renewed({})
    BY <1>0, <1>2 DEF OpenTmp, Renewed, TypeOK
  <2>4. QED
    BY <1>0, <1>2, <2>1, <2>2, <2>3, WritingKeeps DEF OpenTmp
<1>3. ASSUME NEW p \in Procs, WriteTmp(p) PROVE KeepInv'
  <2>1. fd[p] \in Inodes
    BY <1>3 DEF WriteTmp, KeepInv, FlushInv, Typed, TypeOK
  <2>2. QED
    BY <1>0, <1>3, <2>1, WritingKeeps DEF WriteTmp
<1>4. ASSUME NEW p \in Procs, Rename(p) PROVE KeepInv'
  <2>1. CASE tmp = None
    BY <1>0, <1>4, <2>1, QuietKeeps DEF Rename
  <2>2. CASE tmp # None
    <3>1. index' = tmp /\ tmp' = None /\ UNCHANGED <<others, after, doomed>>
      BY <1>4, <2>2 DEF Rename
    <3>2. /\ raced => raced'
          /\ ~raced' => \A e \in Runs : Own \notin doomed[e]
          /\ ~raced' /\ index # None /\ tmp \notin after[index] => \A e \in Runs : doomed[e] = {}
      BY <1>0, <1>4, <2>2 DEF Rename, Renewed, TypeOK
    <3>3. ASSUME ~raced', NEW e \in Runs, NEW name \in doomed'[e], FileOf(name)' \in Indexes'
          PROVE  (Younger(FileOf(name)) >= Target)'
      <4>1. name \in doomed[e] /\ name \in Others /\ name # Own
        BY <1>0, <3>1, <3>2, <3>3 DEF TypeOK
      <4>2. FileOf(name)' = name /\ FileOf(name) = name
        BY <4>1 DEF FileOf
      <4>3. Indexes = others \union ({index} \ {None}) /\ Indexes' = others \union {tmp}
            /\ tmp \notin others
        BY <1>0, <2>2, <3>1, ConstantsOK DEF Indexes, TypeOK
      <4>4. name \in Indexes
        BY <1>0, <3>3, <4>1, <4>2, <4>3, ConstantsOK, <2>2 DEF TypeOK
      <4>5. index \in after[name] /\ index # None => tmp \in after[name]
        BY <1>0, <2>2, <3>2, <3>3, <4>1 DEF KeepInv, OrderOK, TypeOK, Files
      <4> DEFINE A == after[name] \cap others
      <4>6. IsFiniteSet(A)
        BY <1>0, ConstantsOK, FS_Subset DEF TypeOK
      <4>7. Younger(name)' = Cardinality(after[name] \cap (others \union {tmp}))
        BY <3>1, <4>3 DEF Younger
      <4>8. Younger(name) >= Target
        BY <3>2, <3>3, <4>1, <4>2, <4>4 DEF KeepInv, EnoughOK
      <4>9. Younger(name)' >= Target
        <5>1. CASE index \in after[name] /\ index # None
          <6>1. index \notin others
            BY <1>0, <5>1, ConstantsOK DEF TypeOK
          <6>2. after[name] \cap Indexes = A \union {index}
                /\ after[name] \cap (others \union {tmp}) = A \union {tmp}
            BY <4>3, <4>5, <5>1
          <6>3. Cardinality(A \union {index}) = Cardinality(A) + 1
                /\ Cardinality(A \union {tmp}) = Cardinality(A) + 1
            BY <4>3, <4>6, <6>1, FS_AddElement
          <6>4. QED
            BY <4>7, <4>8, <6>2, <6>3 DEF Younger
        <5>2. CASE ~(index \in after[name] /\ index # None)
          <6>1. after[name] \cap Indexes = A
            BY <4>3, <5>2
          <6>2. after[name] \cap (others \union {tmp}) \in {A, A \union {tmp}}
            OBVIOUS
          <6>3. Cardinality(A \union {tmp}) = Cardinality(A) + 1 /\ Cardinality(A) \in Nat
            BY <4>3, <4>6, FS_AddElement, FS_CardinalityType
          <6>4. Cardinality(A) >= Target
            BY <4>8, <6>1 DEF Younger
          <6> DEFINE B == after[name] \cap (others \union {tmp})
                     n == Cardinality(A)
          <6>5. Cardinality(B) \in {n, n + 1}
            BY <6>2, <6>3
          <6>6. Younger(name)' = Cardinality(B)
            BY <4>7
          <6> HIDE DEF B, n
          <6>7. n \in Nat /\ n >= Target
            BY <6>3, <6>4 DEF n
          <6>8. QED
            BY <6>5, <6>6, <6>7, TargetType
        <5>3. QED
          BY <5>1, <5>2
      <4>10. QED
        BY <4>2, <4>9 DEF Target
    <3>4. EnoughOK'
      BY <3>3 DEF EnoughOK
    <3>5. QED
      BY <1>0, <3>1, <3>4 DEF KeepInv, OrderOK
  <2>3. QED
    BY <2>1, <2>2
<1>5. ASSUME NEW p \in Procs, Abandon(p) PROVE KeepInv'
  <2>1. raced => raced'
    BY <1>5 DEF Abandon, Renewed
  <2>2. CASE after' = after
    BY <1>0, <1>5, <2>1, <2>2, QuietKeeps DEF Abandon
  <2>3. CASE after' # after
    <3>1. /\ pc[p] = "writing" /\ after' = WrittenLast(fd[p])
          /\ Renewed(IF fd[p] = index THEN {Own} ELSE {})
      BY <1>5, <2>3 DEF Abandon
    <3>2. fd[p] \in Inodes
      BY <3>1 DEF KeepInv, FlushInv, Typed, TypeOK
    <3>3. QED
      BY <1>0, <1>5, <3>1, <3>2, WritingKeeps DEF Abandon
  <2>4. QED
    BY <2>2, <2>3
<1>6. ASSUME ClearCache PROVE KeepInv'
  <2>1. Indexes' = {}
    BY <1>6 DEF ClearCache, Indexes
  <2>2. EnoughOK'
    BY <2>1 DEF EnoughOK
  <2>3. QED
    BY <1>0, <1>6, <2>2 DEF ClearCache, KeepInv, OrderOK
<1>7. ASSUME NEW o \in Others, OtherFlush(o) PROVE KeepInv'
  <2>1. /\ others' = others \union {o} /\ after' = WrittenLast(o) /\ Renewed({o})
        /\ UNCHANGED <<index, tmp, doomed>>
    BY <1>7 DEF OtherFlush, files
  <2>2. (raced => raced') /\ (~raced' => \A e \in Runs : o \notin doomed[e])
    BY <1>0, <2>1, RenewedKeeps
  <2>3. o \in Files /\ (index # None => index # o /\ index \in Inodes)
    BY <1>0, ConstantsOK DEF Files, TypeOK
  <2>4. Indexes' = Indexes \union {o} /\ \A name : FileOf(name)' = FileOf(name)
    BY <2>1 DEF Indexes, FileOf
  <2>5. OrderOK'
    BY <1>0, <2>1, <2>3, WrittenOrder DEF KeepInv
  <2>7. ASSUME ~raced', NEW e \in Runs, NEW name \in doomed'[e], FileOf(name)' \in Indexes'
        PROVE  /\ name \in doomed[e]
               /\ FileOf(name) \in Indexes
               /\ (after[FileOf(name)] \cap Indexes)
                    \subseteq (after[FileOf(name)] \cap Indexes)'
    <3>1. name \in doomed[e] /\ name # o
      BY <2>1, <2>2, <2>7
    <3>2. FileOf(name) # o
      BY <1>0, <2>3, <3>1, ConstantsOK DEF FileOf, TypeOK
    <3>3. FileOf(name) \in Indexes
      BY <2>4, <2>7, <3>2
    <3>4. (after[FileOf(name)] \cap Existing) \subseteq after'[FileOf(name)]
          /\ Indexes \subseteq Existing
      BY <1>0, <2>1, <2>3, <3>2, <3>3, WrittenKeeps
    <3>5. QED
      BY <2>4, <3>1, <3>3, <3>4
  <2>8. EnoughOK'
    BY <1>0, <2>2, <2>7, StillEnough DEF KeepInv
  <2>9. QED
    BY <1>0, <2>5, <2>8 DEF KeepInv
<1>8. ASSUME NEW e \in Runs, List(e) PROVE KeepInv'
  <2>1. /\ UNCHANGED <<index, tmp, others, after>>
        /\ doomed' = [doomed EXCEPT ![e] = {NameOf(x) : x \in OldSessions}]
        /\ raced' = (raced /\ \E r \in Runs : doomed[r] # {})
        /\ doomed[e] = {}
    BY <1>8 DEF List, files
  <2>2. Indexes' = Indexes /\ \A x : FileOf(x)' = FileOf(x) /\ Younger(x)' = Younger(x)
    BY <2>1 DEF Indexes, FileOf, Younger
  <2>3. \A x \in OldSessions : FileOf(NameOf(x)) = x /\ Younger(x) >= Target
    BY <1>0, ConstantsOK DEF OldSessions, Indexes, FileOf, NameOf, TypeOK
  <2>4. ASSUME ~raced', NEW r \in Runs, NEW name \in doomed'[r], FileOf(name) \in Indexes
        PROVE  Younger(FileOf(name)) >= Target
    <3>1. CASE r = e
      <4>1. PICK x \in OldSessions : name = NameOf(x)
        BY <1>0, <2>1, <2>4, <3>1 DEF TypeOK
      <4>2. QED
        BY <2>3, <4>1
    <3>2. CASE r # e
      <4>1. name \in doomed[r]
        BY <1>0, <2>1, <2>4, <3>2 DEF TypeOK
      <4>2. ~raced
        BY <2>1, <2>4, <4>1
      <4>3. QED
        BY <2>4, <4>1, <4>2 DEF KeepInv, EnoughOK
    <3>3. QED
      BY <3>1, <3>2
  <2>5. Target' = Target
    BY DEF Target
  <2>6. EnoughOK'
    BY <2>2, <2>4, <2>5 DEF EnoughOK
  <2>7. QED
    BY <1>0, <2>1, <2>6 DEF KeepInv, OrderOK
<1>9. ASSUME NEW e \in Runs, StopEvicting(e) PROVE KeepInv'
  <2>1. /\ UNCHANGED <<index, tmp, others, after, raced>>
        /\ \A r \in Runs : doomed'[r] \subseteq doomed[r]
    BY <1>0, <1>9 DEF StopEvicting, files, TypeOK
  <2>2. Indexes' = Indexes /\ \A x : FileOf(x)' = FileOf(x)
    BY <2>1 DEF Indexes, FileOf
  <2>3. EnoughOK'
    BY <1>0, <2>1, <2>2, StillEnough DEF KeepInv
  <2>4. QED
    BY <1>0, <2>1, <2>3 DEF KeepInv, OrderOK
<1>10. ASSUME NEW e \in Runs, NEW name \in Others \union {Own}, Remove(e, name) PROVE KeepInv'
  <2> DEFINE gone == FileOf(name)
  <2>1. /\ UNCHANGED <<tmp, after, raced>>
        /\ \A r \in Runs : doomed'[r] \subseteq doomed[r]
        /\ name \in doomed[e]
    BY <1>0, <1>10 DEF Remove, TypeOK
  <2>2. Indexes' = Indexes \ {gone}
    BY <1>0, <1>10, ConstantsOK DEF Remove, Indexes, FileOf, TypeOK
  <2>3. ASSUME NEW other, other # name, FileOf(other)' \in Indexes'
        PROVE  FileOf(other)' = FileOf(other)
    BY <1>10, <2>3 DEF Remove, FileOf, Indexes
  <2>4. FileOf(name)' \notin Indexes'
    BY <1>0, <1>10, ConstantsOK DEF Remove, FileOf, Indexes, TypeOK
  <2>5. ASSUME ~raced', NEW r \in Runs, NEW other \in doomed'[r], FileOf(other)' \in Indexes'
        PROVE  (Younger(FileOf(other)) >= Target)'
    <3>0. FileOf(other)' = FileOf(other)
      BY <2>3, <2>4, <2>5
    <3>1. PICK x : FileOf(other)' = x /\ FileOf(other) = x /\ x \in Indexes
                   /\ other \in doomed[r]
      BY <2>1, <2>2, <2>5, <3>0
    <3>2. x \in Files
      BY <1>0, <3>1 DEF Indexes, TypeOK, Files
    <3>3. Younger(x)' = Cardinality(after[x] \cap (Indexes \ {gone}))
      BY <2>1, <2>2 DEF Younger
    <3>4. Younger(x) >= Target
      BY <2>1, <2>5, <3>1 DEF KeepInv, EnoughOK
    <3>5. CASE gone \in after[x] \cap Indexes
      <4>1. Younger(gone) >= Target
        BY <2>1, <2>5, <3>5 DEF KeepInv, EnoughOK
      <4>2. gone \in Files
        BY <1>0, <3>5 DEF Indexes, TypeOK, Files
      <4>3. after[gone] \cap Indexes \subseteq after[x] \cap (Indexes \ {gone})
        BY <1>0, <3>2, <3>5, <4>2 DEF KeepInv, OrderOK, TypeOK, Files
      <4>4. IsFiniteSet(after[x] \cap (Indexes \ {gone}))
        BY <1>0, FiniteIndexes, FS_Subset
      <4>5. Younger(gone) <= Cardinality(after[x] \cap (Indexes \ {gone}))
        BY <4>3, <4>4, FS_Subset DEF Younger
      <4>6. Cardinality(after[x] \cap (Indexes \ {gone})) \in Nat
        BY <4>4, FS_CardinalityType
      <4>7. Younger(gone) \in Nat
        BY <1>0, YoungerType
      <4>8. Younger(x)' >= Target
        BY <3>3, <4>1, <4>5, <4>6, <4>7, TargetType
      <4>9. QED
        BY <3>1, <4>8 DEF Target
    <3>6. CASE gone \notin after[x] \cap Indexes
      <4>1. after[x] \cap (Indexes \ {gone}) = after[x] \cap Indexes
        BY <3>6
      <4>2. Younger(x)' = Younger(x)
        BY <3>3, <4>1 DEF Younger
      <4>3. QED
        BY <3>1, <3>4, <4>2 DEF Target
    <3>7. QED
      BY <3>5, <3>6
  <2>6. EnoughOK'
    BY <2>5 DEF EnoughOK
  <2>7. QED
    BY <1>0, <2>1, <2>6 DEF KeepInv, OrderOK
<1>11. ASSUME UNCHANGED vars PROVE KeepInv'
  BY <1>0, <1>11, QuietKeeps DEF vars
<1>12. QED
  BY <1>1, <1>2, <1>3, <1>4, <1>5, <1>6, <1>7, <1>8, <1>9, <1>10, <1>11 DEF Next

\* However many runs of however many sessions flush and evict at once, no index goes of
\* which the limit does not leave enough younger ones, unless one was written, or gave way
\* to an older file, after a run had listed what to remove.  (evict_old_sessions)
THEOREM RecentSurvive == Spec => EvictionKeepsRecent
<1> DEFINE Kept ==
      \A e \in Runs, name \in Others \union {Own} :
        Remove(e, name) /\ ~raced /\ FileOf(name) \in Indexes =>
          Younger(FileOf(name)) >= Target
<1>1. Init => KeepInv
  <2>1. Init => OrderOK /\ EnoughOK
    BY DEF Init, OrderOK, EnoughOK, Files
  <2>2. QED
    BY <2>1, FlushInit DEF KeepInv
<1>2. KeepInv /\ [Next]_vars => KeepInv'
  BY KeepNext
<1>3. KeepInv /\ [Next]_vars => [Kept]_vars
  BY DEF KeepInv, EnoughOK, Remove
<1>4. QED
  BY <1>1, <1>2, <1>3, PTL DEF Spec, EvictionKeepsRecent
=============================================================================
