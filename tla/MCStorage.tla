------------------------------ MODULE MCStorage -------------------------------
(* The instance of Storage that is checked. *)
EXTENDS Storage, TLC

Players == Permutations(Player)

\* Two of these happen in a behaviour: a crash, a write to games.dat that fails, a
\* write to the file of a player that fails, an edit.  The last two have nothing to
\* do with games.dat.
TwoEvents ==
  /\ crashes + failures + cuts + edits <= 2
  /\ cuts = 0 \/ failures + edits = 0
=============================================================================
