--------------------------- MODULE MCCompanionMod ---------------------------
(* Model values and symmetry for CompanionMod: one session is minted for    *)
(* another world than the rest.                                             *)
EXTENDS CompanionMod, TLC

CONSTANTS w1, w2, sOther

MCHome == [s \in Session |-> IF s = sOther THEN w2 ELSE w1]
MCSymmetry == Permutations(TurnId) \cup Permutations(Session \ {sOther})
=============================================================================
