------------------------- MODULE NarrationRefinement -------------------------
(* The narration pipeline implements OrderedPublication: an entry counts as  *)
(* published from the transaction that makes it completed or failed.         *)
EXTENDS Narration

PublicResult == [r \in Receipt |-> IF status[r] \in Terminal THEN status[r] ELSE "none"]

Publication == INSTANCE OrderedPublication
               WITH result <- PublicResult, removed <- ~exists, MaxRun <- 1

\* Every behaviour of the workers, the queue and the dispatchers publishes the
\* results of the receipts one by one, in order and for good
\* (narration-worker.ts:417-428, 680-849).
PublishesInOrder == Publication!Spec

\* ... and, when the environment is fair, publishes all of them.
PublishesAll == Publication!FairSpec
=============================================================================
