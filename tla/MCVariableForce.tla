-------------------------- MODULE MCVariableForce --------------------------
(***************************************************************************)
(* A view of VariableForce for TLC: states that differ only in what no     *)
(* step can tell any more count as one.  Of the reads those count that are *)
(* in a loop the walk is inside of, since only mark_loop_back_edges asks   *)
(* for them.  Behind the last node, outside of loops and blocks, nothing   *)
(* is left but to leave the constructs and scopes, and what they report    *)
(* is known.                                                               *)
(***************************************************************************)
EXTENDS VariableForce

NothingToCome ==
  /\ Top = 0 \/ pos = MaxPos
  /\ \A k \in DOMAIN open : open[k].kind \notin {"while", "body", "post", "test", "block"}

UselessIn(sc) ==
  {sc.writes[j].at : j \in {k \in DOMAIN sc.writes :
     ~sc.writes[k].referenced /\ (sc.writes[k].reassigned \/ ~sc.captured)}}

\* What is reported when the walk ends here.
ToReport == reported \union UNION {UselessIn(scopes[s]) : s \in DOMAIN scopes}

\* The open constructs that have a read in them.
ReadIn(sc) ==
  {open[k].at : k \in {l \in DOMAIN open : \E r \in sc.reads : r >= open[l].at}}

View ==
  IF NothingToCome
  THEN <<Top, [k \in DOMAIN open |-> <<open[k].kind, open[k].arm>>],
         {{k} \X (seen[k] \cap ToReport) : k \in DOMAIN seen \ {"body"}}>>
  ELSE <<[s \in DOMAIN scopes |-> [scopes[s] EXCEPT !.reads = ReadIn(scopes[s])]],
         path, open, pos, reported, flow, seen>>
=============================================================================
