-------------------------- MODULE ConversationStore --------------------------
(***************************************************************************)
(* The SQLite conversation store (bridge/store.py) behind its facade        *)
(* SessionManager (bridge/session.py): one row per turn, one head per       *)
(* world.  Every public operation is one BEGIN IMMEDIATE transaction under  *)
(* the store's lock, so it is one action here; an operation that raises     *)
(* rolls its transaction back and leaves at most the world row that         *)
(* get_or_create_world committed before it (action EnsureWorld).            *)
(* A definition D_what is D with a plausible bug; nothing uses it, the      *)
(* mutation runs put it in the place of D.                                  *)
(***************************************************************************)
EXTENDS Naturals, Sequences

CONSTANTS
    World, TurnId, Text, Root, NoWorld,
    ClientId,   \* provisional turn identities, supplied by the game
    Latest,     \* a parent of None or "": the world's current head is meant
    Blank,      \* an empty or whitespace-only answer
    NoRow,      \* turns[t] for an identity no row has
    NoAlias,    \* client_turn_id NULL
    MaxTurns    \* max_turns of linear_turns: config.max_history

Ref == TurnId \cup ClientId \cup {Root}   \* what callers name a turn by

ASSUME StoreAssumption ==
    /\ Root \notin TurnId \cup ClientId
    /\ NoWorld \notin TurnId \cup {Root}
    /\ TurnId \cap ClientId = {}
    /\ NoAlias \notin Ref /\ Latest \notin Ref
    /\ Blank \notin Text
    /\ MaxTurns \in Nat

Status == {"pending", "completed", "aborted"}
Row == [world : World, parent : TurnId \cup {Root}, status : Status,
        text : Text \cup {Blank}, alias : ClientId \cup {NoAlias}]

Node == [world : World, parent : TurnId \cup {Root}, text : Text \cup {Blank}]
ASSUME NoRowAssumption == NoRow \notin Row \cup Node

VARIABLES
    turns,      \* table turns: [TurnId -> Row \cup {NoRow}]
    head        \* worlds.head_turn_id; NULL is Root, no world row is NoWorld

svars == <<turns, head>>

-----------------------------------------------------------------------------
Rows == {t \in TurnId : turns[t] # NoRow}
InWorld(w) == {t \in Rows : turns[t].world = w}
Pending == {t \in Rows : turns[t].status = "pending"}
Completed(w) == {t \in InWorld(w) : turns[t].status = "completed"}

(* _resolve_turn_locked: a canonical identity names its own row, which must *)
(* be of world w (else CrossWorldTurnError); any other name is looked up    *)
(* among the aliases of world w.                                            *)
Candidates(w, ref) ==
    IF ref \in Rows THEN {ref} \cap InWorld(w)
                    ELSE {t \in InWorld(w) : turns[t].alias = ref}

(* The parent or head that ref stands for, as a set of at most one turn:    *)
(* empty when the lookup is unknown, cross-world, ambiguous or incomplete   *)
(* and the caller raises.                                                   *)
Anchors_unfinished(w, ref) == {r \in {Root} : r = ref}
                              \cup {t \in InWorld(w) : Candidates(w, ref) = {t}}

Anchors(w, ref) == {r \in {Root} : r = ref}
                   \cup {t \in Completed(w) : Candidates(w, ref) = {t}}

(* INSERT INTO worlds ... ON CONFLICT DO NOTHING.                           *)
Opened(w) == IF head[w] = NoWorld THEN [head EXCEPT ![w] = Root] ELSE head

NewRow_swapped(w, p, st, x, c) ==
    [world |-> w, parent |-> c, status |-> st, text |-> x, alias |-> p]

NewRow(w, p, st, x, c) ==
    [world |-> w, parent |-> p, status |-> st, text |-> x, alias |-> c]

(* linear_turns: walk from t towards the root, keeping completed rows, with *)
(* the code's guard against a row met twice.                                *)
Walk[x \in (TurnId \cup {Root}) \X SUBSET TurnId] ==
    LET t == x[1] seen == x[2]
    IN  IF t = Root \/ t \in seen \/ t \notin Rows THEN << >>
        ELSE Walk[<<turns[t].parent, seen \cup {t}>>]
             \o (IF turns[t].status = "completed" THEN <<t>> ELSE << >>)

(* What linear_turns returns: path[-max_turns:], the newest turns of the    *)
(* walk, and none when max_turns is 0.  (max_turns=None, which no caller    *)
(* passes, is a MaxTurns no walk reaches.)                                  *)
Lineage_oldestKept(t) ==
    LET path == Walk[<<t, {}>>]
    IN  SubSeq(path, 1, IF Len(path) > MaxTurns THEN MaxTurns ELSE Len(path))

Lineage(t) ==
    LET path == Walk[<<t, {}>>]
    IN  SubSeq(path, IF Len(path) > MaxTurns THEN Len(path) - MaxTurns + 1 ELSE 1, Len(path))

-----------------------------------------------------------------------------
StoreInit == /\ turns = [t \in TurnId |-> NoRow]
             /\ head = [w \in World |-> NoWorld]

EnsureWorld(w) == head' = Opened(w) /\ UNCHANGED turns

InsertTurn(w, ref, c, t, st, x) ==
    /\ t \notin Rows                      \* the identity is freshly drawn
    /\ \E p \in Anchors(w, IF ref = Latest THEN Opened(w)[w] ELSE ref) :
         turns' = [turns EXCEPT ![t] = NewRow(w, p, st, x, c)]

BeginTurn_movesHead(w, ref, c, t) ==
    /\ InsertTurn(w, ref, c, t, "pending", Blank)
    /\ head' = [head EXCEPT ![w] = t]

BeginTurn(w, ref, c, t) ==
    /\ InsertTurn(w, ref, c, t, "pending", Blank)
    /\ head' = Opened(w)

RecordCompletedTurn(w, ref, c, x, t) ==
    /\ InsertTurn(w, ref, c, t, "completed", x)
    /\ head' = [head EXCEPT ![w] = t]

(* The table after the pending rows of D were marked aborted: a row in any   *)
(* other status is left alone.                                              *)
Aborted_anyStatus(D) == [t \in TurnId |-> IF t \in D \cap Rows
                                         THEN [turns[t] EXCEPT !.status = "aborted"] ELSE turns[t]]

Aborted(D) == [t \in TurnId |-> IF t \in D \cap Pending
                               THEN [turns[t] EXCEPT !.status = "aborted"] ELSE turns[t]]

(* Only a pending row changes; completing a completed or an aborted row     *)
(* returns it or raises.  Several pending rows may share an alias: the code *)
(* takes the one with the latest wall-clock created_at, any of them here.   *)
(* A blank answer is no answer: complete_turn aborts the row instead.       *)
CompleteTurn_anyStatus(w, ref, x) == \E t \in Candidates(w, ref) :
    IF x = Blank
    THEN turns' = Aborted({t}) /\ UNCHANGED head
    ELSE /\ turns' = [turns EXCEPT ![t].status = "completed", ![t].text = x]
         /\ head' = [head EXCEPT ![w] = t]

CompleteTurn_headLater(w, ref, x) == \E t \in Candidates(w, ref) \cap Pending :
    /\ turns' = IF x = Blank THEN Aborted({t})
                ELSE [turns EXCEPT ![t].status = "completed", ![t].text = x]
    /\ UNCHANGED head

CompleteTurn_uncommitted(w, ref, x) ==
    Candidates(w, ref) \cap Pending # {} /\ UNCHANGED <<turns, head>>

CompleteTurn(w, ref, x) == \E t \in Candidates(w, ref) \cap Pending :
    IF x = Blank
    THEN turns' = Aborted({t}) /\ UNCHANGED head
    ELSE /\ turns' = [turns EXCEPT ![t].status = "completed", ![t].text = x]
         /\ head' = [head EXCEPT ![w] = t]

AbortTurn(w, ref) == \E t \in Candidates(w, ref) \cap Pending :
    /\ turns' = Aborted({t})
    /\ UNCHANGED head

(* sync_head also takes None and "", which mean the root: ref is Root then. *)
SyncHead_unfinished(w, ref) ==
    /\ \E h \in Anchors(w, ref) \cup (Candidates(w, ref) \cap Pending) : head' = [head EXCEPT ![w] = h]
    /\ UNCHANGED turns

SyncHead(w, ref) == \E h \in Anchors(w, ref) :
    /\ head' = [head EXCEPT ![w] = h]
    /\ UNCHANGED turns

(* discard_incomplete(world_id), and with no world for the whole table.     *)
DiscardIncomplete(ws) == turns' = Aborted({t \in Rows : turns[t].world \in ws}) /\ UNCHANGED head

StoreNext ==
    \/ \E w \in World : EnsureWorld(w) \/ DiscardIncomplete({w})
    \/ DiscardIncomplete(World)
    \/ \E w \in World, ref \in Ref :
         \/ SyncHead(w, ref) \/ AbortTurn(w, ref)
         \/ \E x \in Text \cup {Blank} : CompleteTurn(w, ref, x)
    \/ \E w \in World, ref \in Ref \cup {Latest}, c \in ClientId \cup {NoAlias}, t \in TurnId :
         \/ BeginTurn(w, ref, c, t)
         \/ \E x \in Text : RecordCompletedTurn(w, ref, c, x, t)

StoreSpec == StoreInit /\ [][StoreNext]_svars

-----------------------------------------------------------------------------
(* Every row and every head is a value the schema admits.                   *)
StoreTypeOK == /\ turns \in [TurnId -> Row \cup {NoRow}]
               /\ head \in [World -> TurnId \cup {Root, NoWorld}]

(* A head is the root or a completed turn of its own world: a failed or     *)
(* unfinished generation, or another save's turn, is never current.         *)
HeadIsFinished == \A w \in World : head[w] \in Completed(w) \cup {Root, NoWorld}

(* A question hangs off the root or a completed turn of its own world, so   *)
(* no later abort can cut a branch that dialogue was built on.              *)
ParentIsFinished == \A t \in Rows :
    turns[t].parent \in Completed(turns[t].world) \cup {Root}

(* Following parents never runs in a circle: any set of rows has one whose  *)
(* parent is outside it.  linear_turns needs it to reach the root.          *)
Acyclic == \A S \in SUBSET Rows : S # {} => \E t \in S : turns[t].parent \notin S

(* A row belongs to a world that has a row of its own (the foreign key).    *)
RowsHaveWorlds == \A t \in Rows : head[turns[t].world] # NoWorld

(* The history handed to the model for a finished turn t is the newest part *)
(* of its branch, oldest turn first: it ends at t, each turn answers the    *)
(* one before it, and none is missing, repeated, unfinished or of another   *)
(* world.  At most MaxTurns are handed over, and what begins after the root *)
(* was cut there because it is full.                                        *)
LineageIsBranch == \A w \in World : \A t \in Completed(w) :
    LET l == Lineage(t)
    IN  /\ Len(l) <= MaxTurns
        /\ Len(l) < MaxTurns => l # << >> /\ turns[l[1]].parent = Root
        /\ l # << >> => l[Len(l)] = t
        /\ \A i \in 2..Len(l) : turns[l[i]].parent = l[i-1]
        /\ \A i \in 1..Len(l) : l[i] \in Completed(w)

(* What was said stays said: whatever is begun, aborted, forked or rewound  *)
(* later, a finished turn keeps its answer and the history handed out with  *)
(* it, so a reloaded save always continues the dialogue it was saved with.  *)
HistoryIsStable == [][\A w \in World : \A t \in Completed(w) :
    /\ turns'[t] = turns[t]
    /\ Lineage(t)' = Lineage(t)]_svars

(* An aborted generation is never revived, and a turn's place in the graph  *)
(* never changes after it was begun.                                        *)
AbortIsFinal == [][\A t \in Rows :
    /\ turns'[t] # NoRow
    /\ turns'[t].parent = turns[t].parent /\ turns'[t].world = turns[t].world
    /\ turns[t].status = "aborted" => turns'[t] = turns[t]]_svars

(* Answer and head move together: the step that completes a turn makes it   *)
(* the head of its world, and touches no other world's head.                *)
CommitIsAtomic == [][\A t \in TurnId, w \in World :
    t \in Completed(w)' \ Completed(w) =>
        head' = [head EXCEPT ![w] = t]]_svars

-----------------------------------------------------------------------------
(* The store implements the timeline: only completed rows are on the tree.  *)
TreeOf == [t \in TurnId |->
             IF turns[t] # NoRow /\ turns[t].status = "completed"
             THEN [world |-> turns[t].world, parent |-> turns[t].parent, text |-> turns[t].text]
             ELSE NoRow]

Timeline == INSTANCE ConversationTimeline
              WITH tree <- TreeOf, tip <- head, NoTurn <- NoRow

(* Every behaviour of the store is one the timeline promises.               *)
ImplementsTimeline == Timeline!TLSpec
=============================================================================
