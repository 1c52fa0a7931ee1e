------------------------- MODULE MCConversationStore -------------------------
(* Model values and symmetry for checking ConversationStore.                *)
EXTENDS ConversationStore, TLC

MCSymmetry == Permutations(World) \cup Permutations(TurnId)
=============================================================================
