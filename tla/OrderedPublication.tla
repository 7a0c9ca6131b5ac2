-------------------------- MODULE OrderedPublication --------------------------
(***************************************************************************)
(* What the narration pipeline promises to the readers of a battle, without *)
(* leases, tasks, workers or attempts: the receipts the battle commits get  *)
(* one public result each, for good, in the order of the receipts, until    *)
(* the battle is deleted (docs/battle-narration-stream-design.md, modelled  *)
(* from the terminal writes of backend/src/services/narration-worker.ts and *)
(* awareness-narration-worker-publication.ts).                              *)
(***************************************************************************)
EXTENDS Integers

CONSTANTS
    N,            \* receipts the battle commits (bound)
    MaxRun        \* receipts one transaction may publish

VARIABLES
    committed,    \* receipts 1..committed have been committed
    result,       \* the public result of each receipt
    removed       \* the battle was deleted

pubVars == <<committed, result, removed>>

Results == {"completed", "failed"}

Init ==
    /\ committed = 0
    /\ result = [r \in 1..N |-> "none"]
    /\ removed = FALSE

Commit ==
    /\ ~removed
    /\ committed < N
    /\ committed' = committed + 1
    /\ UNCHANGED <<result, removed>>

\* Receipts r to s, none of which has a result yet, get the same one.
Publish(r, s) ==
    /\ ~removed
    /\ s - r < MaxRun
    /\ s <= committed
    /\ \A e \in 1..s : result[e] = "none" <=> e >= r
    /\ \E x \in Results :
          result' = [e \in 1..N |-> IF e \in r..s THEN x ELSE result[e]]
    /\ UNCHANGED <<committed, removed>>

PublishSome == \E r, s \in 1..N : r <= s /\ Publish(r, s)

\* Deleting the battle deletes its results.
Remove ==
    /\ ~removed
    /\ removed' = TRUE
    /\ result' = [r \in 1..N |-> "none"]
    /\ UNCHANGED committed

Next == Commit \/ PublishSome \/ Remove

Spec == Init /\ [][Next]_pubVars

\* ... and every committed receipt does get its result.
FairSpec == Spec /\ WF_pubVars(PublishSome)
=============================================================================
