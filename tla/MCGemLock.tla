----------------------------- MODULE MCGemLock -----------------------------
(* An instance of GemLock for TLC. *)
EXTENDS GemLock

CONSTANTS b1, r1, g1, d1, d2

\* One gem is in either bundle and moves with Gemfile.lock and with Ruby; the other
\* is in one bundle only.
MCFound ==
  [br \in Bundles \X Rubies |-> [g \in Gems |->
     IF g = g1 THEN (IF (br[1] = b1) = (br[2] = r1) THEN d1 ELSE d2)
               ELSE (IF br[1] = b1 THEN d2 ELSE Absent)]]
=============================================================================
