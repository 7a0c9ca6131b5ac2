------------------------- MODULE MCAwarenessNarration -------------------------
EXTENDS AwarenessRefinement

\* Combat receipts of one recognition target.
AllCombat == [r \in Receipt |-> "combat"]
=============================================================================
