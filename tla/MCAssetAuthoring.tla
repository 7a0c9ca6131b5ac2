--------------------------- MODULE MCAssetAuthoring ---------------------------
(* Instances of AssetAuthoring: two attempts on one or two assets, two workers. *)
EXTENDS AssetAuthoring, TLC

CONSTANTS field, style, w1, w2

OneAttempt == 1..1
TwoAttempts == 1..2
OneAsset == {field}
TwoAssets == {field, style}
TwoWorkers == {w1, w2}
SymmetricWorkers == Permutations(TwoWorkers)

FieldFamily == [s \in {field} |-> "battlefield"]
BothFamilies == [s \in {field, style} |-> IF s = field THEN "battlefield" ELSE "narration_style"]

NewAssets == {"absent"}
OldAssets == {"unsupported", "ready"}
AllActs == OwnerActs
NoActs == {}
Adjust == {"adjust"}
=============================================================================
