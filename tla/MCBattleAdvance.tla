--------------------------- MODULE MCBattleAdvance ---------------------------
(* Instances of BattleAdvance: two requests in flight and the faults of each run. *)
EXTENDS BattleAdvance, TLC

CONSTANTS r1, r2

TwoRequests == {r1, r2}
SymmetricRequests == Permutations(TwoRequests)

AllWorlds == WorldKinds
ReservedWorld == {"reserved"}

Everything == {"crash", "renewal", "provider", "stall", "slow", "delete"}
Crashes == {"crash", "renewal", "provider"}
=============================================================================
