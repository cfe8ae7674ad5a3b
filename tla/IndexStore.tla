----------------------------- MODULE IndexStore -----------------------------
(***************************************************************************)
(* What the index file of one session is for its runs: a place that holds  *)
(* one whole map, read when a run starts and replaced at once, if at all,  *)
(* when it ends.  Runs that save at the same time may leave the map of any *)
(* of them, or none.  CacheIndex is shown to implement it.                 *)
(***************************************************************************)
CONSTANTS Procs, Maps, EmptyMap, None, Torn

VARIABLES
  stored,  \* the saved map, None if there is none, Torn if it cannot be read
  run,     \* run[p]: "down", "up" or "saving"
  mem,     \* mem[p]: the map in the memory of p
  clash,   \* whether runs saved at the same time since one last did alone
  offered  \* the maps they were to save

vars == <<stored, run, mem, clash, offered>>

Init ==
  /\ stored = None
  /\ run = [p \in Procs |-> "down"]
  /\ mem = [p \in Procs |-> EmptyMap]
  /\ clash = FALSE
  /\ offered = {}

Load(p) ==
  /\ run[p] = "down"
  /\ run' = [run EXCEPT ![p] = "up"]
  /\ mem' = [mem EXCEPT ![p] = IF stored \in {None, Torn} THEN EmptyMap ELSE stored]
  /\ UNCHANGED <<stored, clash, offered>>

Learn(p) ==
  /\ run[p] = "up"
  /\ \E m \in Maps : mem' = [mem EXCEPT ![p] = m]
  /\ UNCHANGED <<stored, run, clash, offered>>

Saving == {q \in Procs : run[q] = "saving"}

Save(p) ==
  /\ run[p] = "up"
  /\ run' = [run EXCEPT ![p] = "saving"]
  /\ clash' = (Saving # {})
  /\ offered' = offered \union {mem[p]}
  /\ UNCHANGED <<stored, mem>>

\* The run is over and its memory gone.
End(p) ==
  /\ run[p] # "down"
  /\ run' = [run EXCEPT ![p] = "down"]
  /\ mem' = [mem EXCEPT ![p] = EmptyMap]
  /\ IF Saving \subseteq {p} THEN clash' = FALSE /\ offered' = {}
                            ELSE UNCHANGED <<clash, offered>>

Publish(p) == run[p] = "saving" /\ End(p) /\ stored' = mem[p]

EndUnsaved(p) == End(p) /\ UNCHANGED stored

\* One of the runs that save at the same time writes over what another has stored, while
\* it goes on or as it ends.
Overwrite(p) ==
  /\ run[p] = "saving"
  /\ clash
  /\ stored' \in offered \union {Torn}
  /\ End(p) \/ UNCHANGED <<run, mem, clash, offered>>

Remove == stored' = None /\ UNCHANGED <<run, mem, clash, offered>>

Next ==
  \/ \E p \in Procs : \/ Load(p) \/ Learn(p) \/ Save(p)
                      \/ Publish(p) \/ EndUnsaved(p) \/ Overwrite(p)
  \/ Remove

Spec == Init /\ [][Next]_vars
=============================================================================
