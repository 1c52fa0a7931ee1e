-------------------------- MODULE MCCompanionSystem --------------------------
(* Model values, message identities and symmetry for CompanionSystem.       *)
EXTENDS CompanionSystem, TLC

CONSTANT w1

MCClientId == Session \X (1..MaxMessages)
MCHome == [s \in Session |-> w1]
MCSymmetry == UNION {Permutations(S) : S \in {TurnId, Session, Body}}

(* What the last step sent does not restrict the next one.                  *)
MCView == <<turns, head, up, epoch, volatile, issued, gvars, uplink, downlink, wording>>
=============================================================================
