------------------------ MODULE ConversationTimeline ------------------------
(***************************************************************************)
(* What the companion promises about a saved conversation, with nothing of  *)
(* how it is stored: every world has a tree of finished turns that only     *)
(* grows, and a tip somewhere on that tree.  A reply is committed as one    *)
(* step that adds a turn and makes it the tip; a loaded save moves the tip  *)
(* to any finished turn of the same world and forgets nothing.              *)
(***************************************************************************)
CONSTANTS
    World,      \* worlds (Factorio saves)
    TurnId,     \* turn identities the daemon can issue
    Text,       \* non-blank answers
    Root,       \* "turn_0", the virtual turn every conversation starts from
    NoWorld,    \* tip of a world nobody opened
    NoTurn      \* tree entry of an identity no finished turn has

VARIABLES
    tree,       \* tree[t] is the finished turn t, or NoTurn
    tip         \* tip[w] is the finished turn world w currently stands on

tvars == <<tree, tip>>

Finished(w) == {t \in TurnId : tree[t] # NoTurn /\ tree[t].world = w}

TLInit == /\ tree = [t \in TurnId |-> NoTurn]
          /\ tip = [w \in World |-> NoWorld]

(* An answer x to a question asked at turn p becomes turn t and the tip.    *)
Commit(w, t, p, x) ==
    /\ tree[t] = NoTurn
    /\ p \in Finished(w) \cup {Root}
    /\ tree' = [tree EXCEPT ![t] = [world |-> w, parent |-> p, text |-> x]]
    /\ tip' = [tip EXCEPT ![w] = t]

(* A save is opened or loaded: its world stands on turn h from now on.      *)
MoveTip(w, h) ==
    /\ h \in Finished(w) \cup {Root}
    /\ tip' = [tip EXCEPT ![w] = h]
    /\ UNCHANGED tree

TLNext == \E w \in World :
            \/ \E t \in TurnId, p \in TurnId \cup {Root}, x \in Text : Commit(w, t, p, x)
            \/ \E h \in TurnId \cup {Root} : MoveTip(w, h)

TLSpec == TLInit /\ [][TLNext]_tvars
=============================================================================
