-------------------------- MODULE MCCompanionDaemon --------------------------
(* Model values, message identities and symmetry for CompanionDaemon.       *)
EXTENDS CompanionDaemon, TLC

CONSTANT MaxMessages    \* bound: messages of one session

MCClientId == Session \X (1..MaxMessages)
MCSymmetry == UNION {Permutations(S) : S \in {World, TurnId, Addr, Session}}

(* What a step sent does not restrict the next one: states that differ only *)
(* in it are one.  (TLC checks an action property on every step it takes,   *)
(* to a known state too.)                                                   *)
MCView == <<turns, head, up, epoch, volatile, issued>>
=============================================================================
