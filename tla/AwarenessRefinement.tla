------------------------- MODULE AwarenessRefinement -------------------------
(* The batched narration implements OrderedPublication too: a transaction    *)
(* publishes, or fails, a run of receipts at once.                           *)
EXTENDS AwarenessNarration

PublicResult == [r \in Receipt |-> IF status[r] \in Terminal THEN status[r] ELSE "none"]

Publication == INSTANCE OrderedPublication
               WITH result <- PublicResult, removed <- FALSE, MaxRun <- N

\* Whatever overtakes, crashes, comes late or is delivered twice, the results appear
\* in runs, in the order of the receipts and for good, each run of one kind
\* (awareness-narration-worker-publication.ts:25-49, lifecycle.ts:11-32); and every
\* receipt gets one, whether the provider answers or not.
PublishesAll == Publication!FairSpec
=============================================================================
