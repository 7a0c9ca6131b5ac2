----------------------------- MODULE MCNarration -----------------------------
(* Narration with small sets of workers, dispatchers and faults for TLC.    *)
EXTENDS NarrationRefinement, TLC

CONSTANTS w1, w2, d1

TwoWorkers == {w1, w2}
OneDispatcher == {d1}
SymmetricWorkers == Permutations(TwoWorkers)

Overlap == {"redelivery", "overrun"}
Deletion == {"delete", "crash", "loss", "manual"}
=============================================================================
