----------------------- MODULE ConversationStoreProofs -----------------------
(***************************************************************************)
(* Theorems about the conversation store, for any worlds, identities and    *)
(* texts, finite or not.  What every transaction does to the tables is said *)
(* once, as HistoryKept; the invariants follow from it and not from the     *)
(* single transactions.                                                     *)
(***************************************************************************)
EXTENDS ConversationStore, WellFoundedRecursion, SequenceTheorems

(* The inductive invariant, apart from Acyclic.                             *)
StoreInv == StoreTypeOK /\ HeadIsFinished /\ ParentIsFinished /\ RowsHaveWorlds

(* Rows stay where they are and finished ones as they are; a new row hangs  *)
(* off a finished turn of an open world; a head moves only to a finished    *)
(* turn.                                                                    *)
HistoryKept ==
    /\ \A t \in Rows :
         /\ turns'[t] # NoRow
         /\ turns'[t].world = turns[t].world /\ turns'[t].parent = turns[t].parent
         /\ turns[t].status # "pending" => turns'[t] = turns[t]
    /\ \A t \in TurnId : turns[t] = NoRow /\ turns'[t] # NoRow =>
         /\ turns'[t].parent \in Completed(turns'[t].world) \cup {Root}
         /\ head'[turns'[t].world] # NoWorld
    /\ \A w \in World : head'[w] = head[w] \/ head'[w] \in Completed(w)' \cup {Root}

-----------------------------------------------------------------------------
LEMMA StoreInitInv == StoreInit => StoreInv /\ Acyclic
BY DEF StoreInit, StoreInv, StoreTypeOK, HeadIsFinished, ParentIsFinished, RowsHaveWorlds,
       Acyclic, Rows, Completed, InWorld

(* A step that keeps history keeps the invariant.                           *)
LEMMA KeptInv ==
    ASSUME StoreInv, StoreTypeOK', HistoryKept
    PROVE  StoreInv'
<1> USE DEF Rows, InWorld, Completed, StoreInv
<1>1. \A w \in World : Completed(w) \subseteq Completed(w)'
  BY DEF HistoryKept
<1>2. HeadIsFinished'
  BY <1>1 DEF HeadIsFinished, HistoryKept
<1>3. ASSUME NEW t \in TurnId, turns'[t] # NoRow, NEW w \in World, turns'[t].world = w
      PROVE  turns'[t].parent \in Completed(w)' \cup {Root} /\ head'[w] # NoWorld
  <2>1. CASE turns[t] = NoRow
    BY <1>1, <1>3, <2>1 DEF HistoryKept
  <2>2. CASE turns[t] # NoRow
    <3>1. turns[t].world = w /\ turns'[t].parent = turns[t].parent
      BY <1>3, <2>2 DEF HistoryKept
    <3>2. turns[t].parent \in Completed(w) \cup {Root} /\ head[w] # NoWorld
      BY <2>2, <3>1 DEF ParentIsFinished, RowsHaveWorlds
    <3>3. head'[w] # NoWorld
      BY <3>2, StoreAssumption DEF HistoryKept
    <3>4. QED
      BY <1>1, <3>1, <3>2, <3>3
  <2>3. QED
    BY <2>1, <2>2
<1>4. \A t \in TurnId : turns'[t] # NoRow => turns'[t].world \in World
  BY DEF StoreTypeOK, Row
<1>5. ParentIsFinished' /\ RowsHaveWorlds'
  BY <1>3, <1>4 DEF ParentIsFinished, RowsHaveWorlds
<1>6. QED
  BY <1>2, <1>5

(* It closes no circle of parents either: a new row's parent is an old row. *)
LEMMA KeptAcyclic ==
    ASSUME StoreInv, Acyclic, StoreTypeOK', HistoryKept
    PROVE  Acyclic'
<1> SUFFICES ASSUME NEW S \in SUBSET Rows', S # {}
             PROVE  \E t \in S : turns'[t].parent \notin S
  BY DEF Acyclic
<1>1. \A t \in Rows' : turns'[t].parent \in Rows \cup {Root}
  BY DEF Rows, InWorld, Completed, HistoryKept, StoreInv, ParentIsFinished
<1>2. CASE S \cap Rows = {}
  BY <1>1, <1>2, StoreAssumption DEF Rows
<1>3. CASE S \cap Rows # {}
  <2>1. PICK t \in S \cap Rows : turns[t].parent \notin S \cap Rows
    BY <1>3 DEF Acyclic
  <2>2. turns'[t].parent = turns[t].parent
    BY DEF HistoryKept
  <2>3. turns'[t].parent \notin S
    BY <1>1, <2>1, <2>2, StoreAssumption DEF Rows
  <2>4. QED
    BY <2>3
<1>4. QED
  BY <1>2, <1>3

-----------------------------------------------------------------------------
(* What each kind of transaction does to the table of turns.                *)
LEMMA AnchorsAreFinished ==
    ASSUME NEW w \in World, NEW ref, NEW r \in Anchors(w, ref)
    PROVE  r \in Completed(w) \cup {Root}
BY DEF Anchors

LEMMA AbortedRows ==
    ASSUME StoreTypeOK, NEW D, turns' = Aborted(D)
    PROVE  /\ turns' \in [TurnId -> Row \cup {NoRow}]
           /\ \A t \in TurnId :
                /\ turns'[t] = NoRow <=> turns[t] = NoRow
                /\ turns[t] # NoRow =>
                     /\ turns'[t].world = turns[t].world /\ turns'[t].parent = turns[t].parent
                     /\ turns[t].status # "pending" => turns'[t] = turns[t]
                     /\ turns'[t].status = "completed" => turns[t].status = "completed"
BY NoRowAssumption DEF StoreTypeOK, Aborted, Rows, Pending, Row, Status

LEMMA InsertedRow ==
    ASSUME StoreTypeOK, NEW w \in World, NEW ref, NEW c \in ClientId \cup {NoAlias},
           NEW t \in TurnId, NEW st \in Status, NEW x \in Text \cup {Blank},
           InsertTurn(w, ref, c, t, st, x)
    PROVE  \E p \in Completed(w) \cup {Root} :
             /\ turns[t] = NoRow
             /\ turns' = [turns EXCEPT ![t] = NewRow(w, p, st, x, c)]
             /\ NewRow(w, p, st, x, c) \in Row
<1>1. PICK p \in Anchors(w, IF ref = Latest THEN Opened(w)[w] ELSE ref) :
        turns' = [turns EXCEPT ![t] = NewRow(w, p, st, x, c)]
  BY DEF InsertTurn
<1>2. p \in Completed(w) \cup {Root}
  BY AnchorsAreFinished
<1>3. turns[t] = NoRow
  BY DEF InsertTurn, Rows
<1>4. NewRow(w, p, st, x, c) \in Row
  BY <1>2 DEF NewRow, Row, Completed, InWorld, Rows
<1>5. QED
  BY <1>1, <1>2, <1>3, <1>4

-----------------------------------------------------------------------------
(* Every transaction of the store keeps the history.                        *)
LEMMA TransactionKeeps ==
    ASSUME StoreInv, StoreNext
    PROVE  StoreTypeOK' /\ HistoryKept
<1> USE DEF StoreInv
<1>1. ASSUME NEW w \in World, EnsureWorld(w)
      PROVE  StoreTypeOK' /\ HistoryKept
  BY <1>1 DEF EnsureWorld, Opened, StoreTypeOK, HistoryKept, Rows
<1>2. ASSUME NEW D, turns' = Aborted(D), UNCHANGED head
      PROVE  StoreTypeOK' /\ HistoryKept
  BY <1>2, AbortedRows DEF StoreTypeOK, HistoryKept, Rows
<1>3. ASSUME NEW w \in World, NEW ref, SyncHead(w, ref)
      PROVE  StoreTypeOK' /\ HistoryKept
  <2>1. PICK h \in Anchors(w, ref) : head' = [head EXCEPT ![w] = h] /\ UNCHANGED turns
    BY <1>3 DEF SyncHead
  <2>2. h \in Completed(w)' \cup {Root}
    BY <2>1, AnchorsAreFinished DEF Completed, InWorld, Rows
  <2>3. QED
    BY <2>1, <2>2 DEF StoreTypeOK, HistoryKept, Rows, Completed, InWorld
<1>4. ASSUME NEW w \in World, NEW ref, NEW x \in Text \cup {Blank}, CompleteTurn(w, ref, x)
      PROVE  StoreTypeOK' /\ HistoryKept
  <2>1. CASE x = Blank
    BY <1>2, <1>4, <2>1 DEF CompleteTurn
  <2>2. CASE x # Blank
    <3>1. PICK t \in Candidates(w, ref) \cap Pending :
            /\ turns' = [turns EXCEPT ![t].status = "completed", ![t].text = x]
            /\ head' = [head EXCEPT ![w] = t]
      BY <1>4, <2>2 DEF CompleteTurn
    <3>2. t \in InWorld(w) /\ turns[t].status = "pending"
      BY DEF Candidates, Pending
    <3>3. turns' = [turns EXCEPT ![t] = [turns[t] EXCEPT !.status = "completed", !.text = x]]
      BY <3>1, <3>2 DEF StoreTypeOK, InWorld, Rows, Row
    <3>4. turns'[t] \in Row /\ turns'[t] # NoRow
      BY <3>2, <3>3, NoRowAssumption DEF StoreTypeOK, InWorld, Rows, Row, Status
    <3>5. turns'[t].status = "completed" /\ turns'[t].world = w /\ turns'[t].parent = turns[t].parent
      BY <3>2, <3>3 DEF StoreTypeOK, InWorld, Rows, Row
    <3>6. StoreTypeOK'
      BY <3>1, <3>2, <3>3, <3>4 DEF StoreTypeOK, InWorld, Rows
    <3>7. t \in Completed(w)'
      BY <3>2, <3>4, <3>5 DEF Completed, InWorld, Rows
    <3>8. HistoryKept
      BY <3>1, <3>2, <3>3, <3>4, <3>5, <3>7 DEF HistoryKept, StoreTypeOK, InWorld, Rows
    <3>9. QED
      BY <3>6, <3>8
  <2>3. QED
    BY <2>1, <2>2
<1>5. ASSUME NEW w \in World, NEW p \in Completed(w) \cup {Root}, NEW t \in TurnId,
             NEW st \in Status, NEW x, NEW c, turns[t] = NoRow,
             turns' = [turns EXCEPT ![t] = NewRow(w, p, st, x, c)], NewRow(w, p, st, x, c) \in Row,
             IF st = "completed" THEN head' = [head EXCEPT ![w] = t] ELSE head' = Opened(w)
      PROVE  StoreTypeOK' /\ HistoryKept
  <2>1. turns'[t] # NoRow /\ turns'[t].world = w /\ turns'[t].parent = p /\ turns'[t].status = st
    BY <1>5, NoRowAssumption DEF StoreTypeOK, NewRow
  <2>2. StoreTypeOK'
    BY <1>5 DEF StoreTypeOK, Opened
  <2>3. head'[w] # NoWorld
    BY <1>5, StoreAssumption DEF StoreTypeOK, Opened
  <2>4. \A v \in World : head'[v] = head[v] \/ head'[v] \in Completed(v)' \cup {Root}
    BY <1>5, <2>1 DEF StoreTypeOK, Opened, Completed, InWorld, Rows
  <2>5. HistoryKept
    BY <1>5, <2>1, <2>3, <2>4 DEF HistoryKept, StoreTypeOK, Rows
  <2>6. QED
    BY <2>2, <2>5
<1>6. ASSUME NEW w \in World, NEW ref, NEW c \in ClientId \cup {NoAlias}, NEW t \in TurnId,
             BeginTurn(w, ref, c, t)
      PROVE  StoreTypeOK' /\ HistoryKept
  <2>1. InsertTurn(w, ref, c, t, "pending", Blank) /\ head' = Opened(w)
    BY <1>6 DEF BeginTurn
  <2>2. PICK p \in Completed(w) \cup {Root} :
          /\ turns[t] = NoRow
          /\ turns' = [turns EXCEPT ![t] = NewRow(w, p, "pending", Blank, c)]
          /\ NewRow(w, p, "pending", Blank, c) \in Row
    BY <2>1, InsertedRow DEF Status
  <2>3. QED
    BY <1>5, <2>1, <2>2 DEF Status
<1>7. ASSUME NEW w \in World, NEW ref, NEW c \in ClientId \cup {NoAlias}, NEW t \in TurnId,
             NEW x \in Text, RecordCompletedTurn(w, ref, c, x, t)
      PROVE  StoreTypeOK' /\ HistoryKept
  <2>1. InsertTurn(w, ref, c, t, "completed", x) /\ head' = [head EXCEPT ![w] = t]
    BY <1>7 DEF RecordCompletedTurn
  <2>2. PICK p \in Completed(w) \cup {Root} :
          /\ turns[t] = NoRow
          /\ turns' = [turns EXCEPT ![t] = NewRow(w, p, "completed", x, c)]
          /\ NewRow(w, p, "completed", x, c) \in Row
    BY <2>1, InsertedRow DEF Status
  <2>3. QED
    BY <1>5, <2>1, <2>2 DEF Status
<1>8. ASSUME NEW w \in World, NEW ref, AbortTurn(w, ref)
      PROVE  StoreTypeOK' /\ HistoryKept
  BY <1>2, <1>8 DEF AbortTurn
<1>9. QED
  BY <1>1, <1>2, <1>3, <1>4, <1>6, <1>7, <1>8 DEF StoreNext, DiscardIncomplete

-----------------------------------------------------------------------------
LEMMA StoreInvariant == StoreSpec => [](StoreInv /\ Acyclic)
<1>1. StoreInit => StoreInv /\ Acyclic
  BY StoreInitInv
<1>2. StoreInv /\ Acyclic /\ [StoreNext]_svars => (StoreInv /\ Acyclic)'
  <2> SUFFICES ASSUME StoreInv, Acyclic, [StoreNext]_svars
               PROVE  (StoreInv /\ Acyclic)'
    OBVIOUS
  <2>1. CASE StoreNext
    BY <2>1, TransactionKeeps, KeptInv, KeptAcyclic
  <2>2. CASE UNCHANGED svars
    BY <2>2 DEF svars, StoreInv, StoreTypeOK, HeadIsFinished, ParentIsFinished, RowsHaveWorlds,
                Acyclic, Rows, Completed, InWorld
  <2>3. QED
    BY <2>1, <2>2
<1>3. QED
  BY <1>1, <1>2, PTL DEF StoreSpec

(* The tables always hold values of the schema.                             *)
THEOREM StoreTypeCorrect == StoreSpec => []StoreTypeOK
BY StoreInvariant, PTL DEF StoreInv

(* No pending, aborted or foreign turn is ever a world's head (store.py,    *)
(* sync_head and complete_turn).                                            *)
THEOREM HeadsAreFinished == StoreSpec => []HeadIsFinished
BY StoreInvariant, PTL DEF StoreInv

(* No turn ever hangs off an unfinished or a foreign one.                   *)
THEOREM ParentsAreFinished == StoreSpec => []ParentIsFinished
BY StoreInvariant, PTL DEF StoreInv

(* The parent links never close a circle, so linear_turns ends at the root. *)
THEOREM NoCircles == StoreSpec => []Acyclic
BY StoreInvariant, PTL

(* An aborted or finished turn stays so, and no turn changes its place.     *)
THEOREM AbortsAreFinal == StoreSpec => AbortIsFinal
<1>1. StoreInv /\ StoreNext => \A t \in Rows :
        /\ turns'[t] # NoRow
        /\ turns'[t].parent = turns[t].parent /\ turns'[t].world = turns[t].world
        /\ turns[t].status = "aborted" => turns'[t] = turns[t]
  BY TransactionKeeps DEF HistoryKept
<1>2. QED
  BY <1>1, StoreInvariant, PTL DEF StoreSpec, AbortIsFinal

-----------------------------------------------------------------------------
(* The refinement: how the store's rows look as nodes of the timeline.      *)
LEMMA FinishedIsCompleted ==
    ASSUME StoreTypeOK, NEW w \in World
    PROVE  Timeline!Finished(w) = Completed(w)
<1>1. ASSUME NEW t \in TurnId, turns[t] # NoRow, turns[t].status = "completed"
      PROVE  TreeOf[t] # NoRow /\ TreeOf[t].world = turns[t].world
  <2>1. [world |-> turns[t].world, parent |-> turns[t].parent, text |-> turns[t].text] \in Node
    BY <1>1 DEF StoreTypeOK, Row, Node
  <2>2. QED
    BY <1>1, <2>1, NoRowAssumption DEF TreeOf
<1>2. \A t \in TurnId : TreeOf[t] # NoRow => turns[t] # NoRow /\ turns[t].status = "completed"
  BY DEF TreeOf
<1>3. QED
  BY <1>1, <1>2 DEF Timeline!Finished, Completed, InWorld, Rows

(* A step that leaves the finished turns alone leaves the tree alone.       *)
LEMMA SameTree ==
    ASSUME \A t \in TurnId :
             LET done == turns[t] # NoRow /\ turns[t].status = "completed"
             IN  /\ done => turns'[t] = turns[t]
                 /\ ~done => turns'[t] = NoRow \/ turns'[t].status # "completed"
    PROVE  TreeOf' = TreeOf
BY DEF TreeOf

(* A new answer is a commit of the timeline.                                *)
LEMMA AnswerCommits ==
    ASSUME StoreTypeOK, NEW w \in World, NEW t \in TurnId, NEW p \in Completed(w) \cup {Root},
           NEW x \in Text, turns[t] = NoRow \/ turns[t].status # "completed",
           NEW r \in Row, r.status = "completed", r.world = w, r.parent = p, r.text = x,
           turns' = [turns EXCEPT ![t] = r], head' = [head EXCEPT ![w] = t]
    PROVE  Timeline!TLNext
<1>1. TreeOf[t] = NoRow
  BY DEF TreeOf
<1>2. TreeOf' = [TreeOf EXCEPT ![t] = [world |-> w, parent |-> p, text |-> x]]
  BY NoRowAssumption DEF TreeOf, StoreTypeOK
<1>3. Timeline!Commit(w, t, p, x)
  BY <1>1, <1>2, FinishedIsCompleted DEF Timeline!Commit
<1>4. p \in TurnId \cup {Root}
  BY DEF Completed, InWorld, Rows
<1>5. QED
  BY <1>3, <1>4 DEF Timeline!TLNext

(* A head that moves to a finished turn is a save being loaded.             *)
LEMMA HeadMoves ==
    ASSUME StoreTypeOK, NEW w \in World, NEW h \in Completed(w) \cup {Root},
           TreeOf' = TreeOf, head' = [head EXCEPT ![w] = h]
    PROVE  Timeline!TLNext
<1>1. h \in TurnId \cup {Root}
  BY DEF Completed, InWorld, Rows
<1>2. Timeline!MoveTip(w, h)
  BY FinishedIsCompleted DEF Timeline!MoveTip
<1>3. QED
  BY <1>1, <1>2 DEF Timeline!TLNext

LEMMA OpeningMoves ==
    ASSUME StoreTypeOK, NEW w \in World, TreeOf' = TreeOf, head' = Opened(w)
    PROVE  [Timeline!TLNext]_(Timeline!tvars)
BY HeadMoves DEF Opened, Timeline!tvars

LEMMA AbortedTree ==
    ASSUME StoreTypeOK, NEW D, turns' = Aborted(D)
    PROVE  TreeOf' = TreeOf
BY AbortedRows, SameTree

LEMMA InsertedTree ==
    ASSUME StoreTypeOK, NEW w \in World, NEW ref, NEW c \in ClientId \cup {NoAlias},
           NEW t \in TurnId, NEW st \in Status \ {"completed"}, NEW x \in Text \cup {Blank},
           InsertTurn(w, ref, c, t, st, x)
    PROVE  TreeOf' = TreeOf
<1>1. PICK p \in Completed(w) \cup {Root} :
        turns[t] = NoRow /\ turns' = [turns EXCEPT ![t] = NewRow(w, p, st, x, c)]
  BY InsertedRow
<1>2. QED
  BY <1>1, SameTree DEF StoreTypeOK, NewRow

(* What completing a pending row does, and what it keeps.                   *)
LEMMA CompletedRow ==
    ASSUME StoreInv, NEW w \in World, NEW ref, NEW x \in Text, x # Blank, CompleteTurn(w, ref, x)
    PROVE  \E t \in TurnId, r \in Row :
             /\ turns[t] # NoRow /\ turns[t].status = "pending"
             /\ r.status = "completed" /\ r.world = w /\ r.text = x /\ r.parent = turns[t].parent
             /\ r.parent \in Completed(w) \cup {Root}
             /\ turns' = [turns EXCEPT ![t] = r] /\ head' = [head EXCEPT ![w] = t]
<1>1. PICK t \in Candidates(w, ref) \cap Pending :
        /\ turns' = [turns EXCEPT ![t].status = "completed", ![t].text = x]
        /\ head' = [head EXCEPT ![w] = t]
  BY DEF CompleteTurn
<1>2. t \in InWorld(w) /\ t \in TurnId /\ turns[t] # NoRow /\ turns[t].status = "pending"
  BY DEF Candidates, Pending, InWorld, Rows
<1>3. turns[t].parent \in Completed(w) \cup {Root}
  BY <1>2 DEF StoreInv, ParentIsFinished, InWorld, Rows
<1> DEFINE r == [turns[t] EXCEPT !.status = "completed", !.text = x]
<1>4. turns' = [turns EXCEPT ![t] = r]
  BY <1>1, <1>2 DEF StoreInv, StoreTypeOK, Row
<1>5. /\ r \in Row /\ r.status = "completed" /\ r.world = w /\ r.text = x
      /\ r.parent = turns[t].parent
  BY <1>2 DEF StoreInv, StoreTypeOK, InWorld, Row, Status
<1>6. QED
  BY <1>1, <1>2, <1>3, <1>4, <1>5

LEMMA TransactionRefines ==
    ASSUME StoreInv, StoreNext
    PROVE  [Timeline!TLNext]_(Timeline!tvars)
<1> USE DEF StoreInv
<1>1. ASSUME NEW w \in World, EnsureWorld(w)
      PROVE  [Timeline!TLNext]_(Timeline!tvars)
  BY <1>1, OpeningMoves DEF EnsureWorld, TreeOf
<1>2. ASSUME NEW D, turns' = Aborted(D), UNCHANGED head
      PROVE  [Timeline!TLNext]_(Timeline!tvars)
  BY <1>2, AbortedTree DEF Timeline!tvars
<1>3. ASSUME NEW w \in World, NEW ref, SyncHead(w, ref)
      PROVE  [Timeline!TLNext]_(Timeline!tvars)
  BY <1>3, HeadMoves, AnchorsAreFinished DEF SyncHead, TreeOf
<1>4. ASSUME NEW w \in World, NEW ref, NEW x \in Text \cup {Blank}, CompleteTurn(w, ref, x)
      PROVE  [Timeline!TLNext]_(Timeline!tvars)
  <2>1. CASE x = Blank
    BY <1>2, <1>4, <2>1 DEF CompleteTurn
  <2>2. CASE x # Blank
    BY <1>4, <2>2, CompletedRow, AnswerCommits
  <2>3. QED
    BY <2>1, <2>2
<1>5. ASSUME NEW w \in World, NEW ref, NEW c \in ClientId \cup {NoAlias}, NEW t \in TurnId,
             BeginTurn(w, ref, c, t)
      PROVE  [Timeline!TLNext]_(Timeline!tvars)
  BY <1>5, InsertedTree, OpeningMoves DEF BeginTurn, Status
<1>6. ASSUME NEW w \in World, NEW ref, NEW c \in ClientId \cup {NoAlias}, NEW t \in TurnId,
             NEW x \in Text, RecordCompletedTurn(w, ref, c, x, t)
      PROVE  [Timeline!TLNext]_(Timeline!tvars)
  <2>1. PICK p \in Completed(w) \cup {Root} :
          /\ turns[t] = NoRow
          /\ turns' = [turns EXCEPT ![t] = NewRow(w, p, "completed", x, c)]
          /\ NewRow(w, p, "completed", x, c) \in Row
    BY <1>6, InsertedRow DEF RecordCompletedTurn, Status
  <2>2. head' = [head EXCEPT ![w] = t]
    BY <1>6 DEF RecordCompletedTurn
  <2>3. QED
    BY <2>1, <2>2, AnswerCommits DEF NewRow
<1>7. ASSUME NEW w \in World, NEW ref, AbortTurn(w, ref)
      PROVE  [Timeline!TLNext]_(Timeline!tvars)
  BY <1>2, <1>7 DEF AbortTurn
<1>8. QED
  BY <1>1, <1>2, <1>3, <1>4, <1>5, <1>6, <1>7 DEF StoreNext, DiscardIncomplete

(* The store implements the timeline: whatever is begun, aborted or rolled  *)
(* back, a game sees finished turns only, added one at a time together with *)
(* the head, and never changed or forgotten.                                *)
THEOREM StoreImplementsTimeline == StoreSpec => ImplementsTimeline
<1>1. StoreInit => Timeline!TLInit
  BY DEF StoreInit, Timeline!TLInit, TreeOf
<1>2. StoreInv /\ [StoreNext]_svars => [Timeline!TLNext]_(Timeline!tvars)
  <2>1. CASE UNCHANGED svars
    BY <2>1 DEF svars, TreeOf, Timeline!tvars
  <2>2. QED
    BY <2>1, TransactionRefines
<1>3. QED
  BY <1>1, <1>2, StoreInvariant, PTL DEF StoreSpec, ImplementsTimeline, Timeline!TLSpec

(* A turn is completed and made its world's head in one step, and no other  *)
(* head moves: only a commit of the timeline adds a finished turn.          *)
THEOREM CommitsAreAtomic == StoreSpec => CommitIsAtomic
<1>0. (StoreTypeOK => \A w \in World : Timeline!Finished(w) = Completed(w))'
  <2>1. StoreTypeOK => \A w \in World : Timeline!Finished(w) = Completed(w)
    BY FinishedIsCompleted
  <2>2. QED
    BY <2>1, PTL
<1>1. ASSUME StoreInv, StoreTypeOK', StoreNext, NEW w \in World,
             NEW t \in TurnId, t \in Completed(w)' \ Completed(w)
      PROVE  head' = [head EXCEPT ![w] = t]
  <2>1. t \in Timeline!Finished(w)' /\ t \notin Timeline!Finished(w)
    BY <1>0, <1>1, FinishedIsCompleted DEF StoreInv
  <2>2. TreeOf' # TreeOf
    BY <2>1 DEF Timeline!Finished
  <2>3. PICK v \in World, u \in TurnId, p \in TurnId \cup {Root}, x \in Text :
          Timeline!Commit(v, u, p, x)
    BY <1>1, <2>2, TransactionRefines DEF Timeline!TLNext, Timeline!MoveTip, Timeline!tvars
  <2>4. t = u /\ w = v
    BY <2>1, <2>3 DEF Timeline!Commit, Timeline!Finished, TreeOf
  <2>5. QED
    BY <2>3, <2>4 DEF Timeline!Commit
<1>2. StoreInv /\ StoreInv' /\ [StoreNext]_svars =>
        [\A t \in TurnId, w \in World : t \in Completed(w)' \ Completed(w) =>
           head' = [head EXCEPT ![w] = t]]_svars
  BY <1>1 DEF StoreInv
<1>3. QED
  BY <1>2, StoreInvariant, PTL DEF StoreSpec, CommitIsAtomic

-----------------------------------------------------------------------------
(* The history of a turn.  Walk is recursive, and its recursion ends for    *)
(* every set of rows seen before because parents close no circle.  Own(x)   *)
(* is what the turn of x adds to the history, Ends(x) that it adds nothing. *)
Own(x) == IF x[1] \in Rows /\ turns[x[1]].status = "completed" THEN <<x[1]>> ELSE << >>
Ends(x) == x[1] = Root \/ x[1] \in x[2] \/ x[1] \notin Rows
Walked == \A t \in TurnId \cup {Root}, seen \in SUBSET TurnId :
    /\ Walk[<<t, seen>>] \in Seq(TurnId)
    /\ Walk[<<t, seen>>] = IF t = Root \/ t \in seen \/ t \notin Rows THEN << >>
                          ELSE Walk[<<turns[t].parent, seen \cup {t}>>]
                               \o (IF turns[t].status = "completed" THEN <<t>> ELSE << >>)

(* Walk is a function and satisfies its defining equation.                  *)
LEMMA WalkIsDefined == StoreInv /\ Acyclic => Walked
<1> SUFFICES ASSUME StoreInv, Acyclic PROVE Walked
  OBVIOUS
<1> DEFINE D == (TurnId \cup {Root}) \X SUBSET TurnId
           T == Seq(TurnId)
           B == {x \in D : Ends(x)}
           base == [x \in D |-> << >>]
           next == [x \in D |-> IF x \in B THEN x ELSE <<turns[x[1]].parent, x[2] \cup {x[1]}>>]
           step == [x \in D |-> [v \in T |-> v \o Own(x)]]
<1>1. \A x \in D \ B : x[1] \in Rows /\ x[1] \in TurnId /\ turns[x[1]].parent \in TurnId \cup {Root}
  BY DEF StoreInv, StoreTypeOK, Row, Rows, Ends
<1>2. next \in [D -> D]
  BY <1>1
<1>3. base \in [D -> T]
  OBVIOUS
<1>4. step \in [D -> [T -> T]]
  <2>1. \A x \in D : Own(x) \in Seq(TurnId)
    BY DEF Own, Rows
  <2>2. \A x \in D, v \in T : v \o Own(x) \in T
    BY <2>1, ConcatProperties
  <2>3. QED
    BY <2>2
<1>5. Descends(D, B, next)
  <2> SUFFICES ASSUME NEW S \in SUBSET (D \ B), S # {}
               PROVE  \E x \in S : next[x] \notin S
    BY DEF Descends
  <2>1. {x[1] : x \in S} \in SUBSET Rows /\ {x[1] : x \in S} # {}
    BY <1>1
  <2>2. PICK t \in {x[1] : x \in S} : turns[t].parent \notin {x[1] : x \in S}
    BY <2>1 DEF Acyclic
  <2>3. PICK x \in S : t = x[1]
    BY <2>2
  <2>4. next[x][1] = turns[t].parent
    BY <2>3
  <2>5. QED
    BY <2>2, <2>4
<1>6. \E f \in [D -> T] : Solves(f, D, B, base, next, step)
  <2> HIDE DEF D, T, B, base, next, step
  <2>1. QED
    BY <1>2, <1>3, <1>4, <1>5, RecursionHasSolution
<1> DEFINE Walks(g) == g = [x \in (TurnId \cup {Root}) \X SUBSET TurnId |->
             LET t == x[1] seen == x[2]
             IN  IF t = Root \/ t \in seen \/ t \notin Rows THEN << >>
                 ELSE g[<<turns[t].parent, seen \cup {t}>>]
                      \o (IF turns[t].status = "completed" THEN <<t>> ELSE << >>)]
<1>7. Walks(Walk)
  <2>1. PICK f \in [D -> T] : Solves(f, D, B, base, next, step)
    BY <1>6
  <2>2. \A x \in D \ B : step[x][f[next[x]]] = f[<<turns[x[1]].parent, x[2] \cup {x[1]}>>] \o Own(x)
    BY <1>2
  <2>3. \A x \in D : x \in B <=> x[1] = Root \/ x[1] \in x[2] \/ x[1] \notin Rows
    BY DEF Ends
  <2>4. \A x \in D : base[x] = << >> /\ f[x] = IF x \in B THEN base[x] ELSE step[x][f[next[x]]]
    BY <2>1 DEF Solves
  <2>5. Walks(f)
    <3> HIDE DEF B, base, step, next
    <3>1. \A x \in D : f[x] = IF x[1] = Root \/ x[1] \in x[2] \/ x[1] \notin Rows THEN << >>
                           ELSE f[<<turns[x[1]].parent, x[2] \cup {x[1]}>>]
                                \o (IF turns[x[1]].status = "completed" THEN <<x[1]>> ELSE << >>)
      BY <2>2, <2>3, <2>4 DEF Own
    <3>2. f = [x \in D |-> f[x]]
      OBVIOUS
    <3>3. QED
      BY <3>1, <3>2, Zenon
  <2>6. Walk = CHOOSE g : Walks(g)
    BY DEF Walk
  <2> HIDE DEF Walks
  <2>7. QED
    BY <2>5, <2>6
<1> DEFINE Good == {x \in D : Walk[x] \in T}
<1>8. D \subseteq Good
  <2>1. \A x \in D \ B : Walk[x] = Walk[next[x]] \o Own(x)
    BY <1>7 DEF Ends, Own
  <2>2. ASSUME NEW x \in D \ B, next[x] \in Good
        PROVE  x \in Good
    <3>1. Own(x) \in Seq(TurnId)
      BY DEF Own, Rows
    <3>2. Walk[next[x]] \o Own(x) \in Seq(TurnId)
      BY <2>2, <3>1, ConcatProperties
    <3>3. QED
      BY <2>1, <3>2
  <2>3. ASSUME NEW x \in D \cap B
        PROVE  x \in Good
    <3>1. Walk[x] = << >>
      BY <1>7 DEF Ends
    <3>2. << >> \in T /\ x \in D
      OBVIOUS
    <3> HIDE DEF T, D, B
    <3>3. QED
      BY <3>1, <3>2
  <2> HIDE DEF D, B, next, Good
  <2>4. \A x \in D \ B : next[x] \in Good => x \in Good
    BY <2>2
  <2>5. D \cap B \subseteq Good
    BY <2>3
  <2>6. QED
    BY <1>2, <1>5, <2>4, <2>5, DescentInduction
<1>9. ASSUME NEW t \in TurnId \cup {Root}, NEW seen \in SUBSET TurnId
       PROVE  /\ Walk[<<t, seen>>] \in Seq(TurnId)
              /\ Walk[<<t, seen>>] = IF t = Root \/ t \in seen \/ t \notin Rows THEN << >>
                                    ELSE Walk[<<turns[t].parent, seen \cup {t}>>]
                                         \o (IF turns[t].status = "completed" THEN <<t>> ELSE << >>)
  <2> DEFINE x == <<t, seen>>
  <2>1. x \in D /\ x[1] = t /\ x[2] = seen
    OBVIOUS
  <2>2. Walk[x] \in T
    BY <1>8, <2>1
  <2>3. Walk[x] = IF x[1] = Root \/ x[1] \in x[2] \/ x[1] \notin Rows THEN << >>
                  ELSE Walk[<<turns[x[1]].parent, x[2] \cup {x[1]}>>]
                       \o (IF turns[x[1]].status = "completed" THEN <<x[1]>> ELSE << >>)
    <3> HIDE DEF x
    <3>1. QED
      BY <1>7, <2>1
  <2>4. QED
    BY <2>1, <2>2, <2>3
<1>10. QED
  BY <1>9 DEF Walked

(* l is the whole history of t, a finished turn of world w.                 *)
Branch(l, t, w) ==
    /\ l # << >>
    /\ l[Len(l)] = t
    /\ turns[l[1]].parent = Root
    /\ \A i \in 2..Len(l) : turns[l[i]].parent = l[i-1]
    /\ \A i \in 1..Len(l) : l[i] \in Completed(w)

(* The rows seen on the way to t: each answers to one of them or is asked   *)
(* from t.  Parents close no circle, so t is none of them.                  *)
Chain(t, seen) == seen \subseteq Rows /\ \A s \in seen : turns[s].parent \in seen \cup {t}

(* A branch begins at the root and grows by an answer at a time.            *)
LEMMA RootEndsBranch ==
    ASSUME NEW w \in World, NEW t \in Completed(w), turns[t].parent = Root
    PROVE  Branch(<< >> \o <<t>>, t, w)
<1>1. << >> \o <<t>> = <<t>>
  OBVIOUS
<1>2. QED
  BY <1>1 DEF Branch

LEMMA TurnExtendsBranch ==
    ASSUME NEW w \in World, NEW t \in Completed(w), NEW l \in Seq(TurnId),
           Branch(l, turns[t].parent, w)
    PROVE  Branch(l \o <<t>>, t, w)
<1> DEFINE m == l \o <<t>>
<1>1. Len(l) \in Nat \ {0}
  BY EmptySeq DEF Branch
<1>2. t \in TurnId
  BY DEF Completed, InWorld, Rows
<1>3. m \in Seq(TurnId) /\ Len(m) = Len(l) + 1 /\ m[Len(l) + 1] = t
      /\ \A i \in 1..Len(l) : m[i] = l[i]
  BY <1>1, <1>2
<1> HIDE DEF m
<1>4. m # << >> /\ m[Len(m)] = t /\ turns[m[1]].parent = Root
  BY <1>1, <1>3, EmptySeq DEF Branch
<1>5. ASSUME NEW i \in 2..Len(m)
      PROVE  turns[m[i]].parent = m[i - 1]
  BY <1>1, <1>3, <1>5 DEF Branch
<1>6. ASSUME NEW i \in 1..Len(m)
      PROVE  m[i] \in Completed(w)
  BY <1>1, <1>3, <1>6 DEF Branch
<1>7. Branch(m, t, w)
  BY <1>4, <1>5, <1>6 DEF Branch
<1>8. QED
  BY <1>7 DEF m

(* By induction over the parents: a finished turn whose walk is no branch   *)
(* would have a parent whose walk is none.                                  *)
LEMMA WalkIsBranch ==
    ASSUME StoreInv, Acyclic, NEW w \in World, NEW u \in Completed(w),
           NEW before \in SUBSET TurnId, Chain(u, before)
    PROVE  Branch(Walk[<<u, before>>], u, w)
<1> DEFINE Wrong(t) == \E seen \in SUBSET TurnId : Chain(t, seen) /\ ~Branch(Walk[<<t, seen>>], t, w)
           Bad == {t \in Completed(w) : Wrong(t)}
<1> SUFFICES Bad = {}
  OBVIOUS
<1>1. SUFFICES ASSUME NEW t \in Bad, turns[t].parent \notin Bad PROVE FALSE
  BY DEF Acyclic, Completed, InWorld
<1>2. PICK seen \in SUBSET TurnId : Chain(t, seen) /\ ~Branch(Walk[<<t, seen>>], t, w)
  OBVIOUS
<1> DEFINE p == turns[t].parent
           l == Walk[<<p, seen \cup {t}>>]
<1>3. /\ t \in TurnId /\ t \in Rows /\ t # Root /\ turns[t].status = "completed"
      /\ p \in Completed(w) \cup {Root} /\ p \in TurnId \cup {Root}
  BY StoreAssumption DEF Completed, InWorld, Rows, StoreInv, ParentIsFinished
<1>4. t \notin seen
  BY <1>2 DEF Chain, Acyclic
<1> DEFINE further == seen \cup {t}
<1>5. Walk[<<t, seen>>] = l \o <<t>> /\ l \in Seq(TurnId) /\ (p = Root => l = << >>)
  <2>1. Walked /\ further \in SUBSET TurnId
    BY <1>3, WalkIsDefined
  <2>2. Walk[<<t, seen>>] = Walk[<<p, further>>] \o <<t>>
    BY <1>3, <1>4, <2>1 DEF Walked
  <2> HIDE DEF further, p
  <2>3. Walk[<<p, further>>] \in Seq(TurnId) /\ (p = Root => Walk[<<p, further>>] = << >>)
    BY <1>3, <2>1 DEF Walked
  <2>4. QED
    BY <2>2, <2>3 DEF further
<1>6. CASE p = Root
  BY <1>2, <1>5, <1>6, RootEndsBranch
<1>7. CASE p # Root
  <2>1. p \in Completed(w) /\ ~Wrong(p)
    BY <1>1, <1>3, <1>7
  <2>2. Chain(p, seen \cup {t}) /\ seen \cup {t} \in SUBSET TurnId
    BY <1>2, <1>3 DEF Chain
  <2>3. Branch(l, p, w)
    BY <2>1, <2>2
  <2>4. Branch(l \o <<t>>, t, w)
    BY <1>5, <2>3, TurnExtendsBranch
  <2>5. QED
    BY <1>2, <1>5, <2>4
<1>8. QED
  BY <1>6, <1>7

(* The newest part of a branch that has room in a prompt (LineageIsBranch). *)
Recent(l, t, w) ==
    /\ Len(l) <= MaxTurns
    /\ Len(l) < MaxTurns => l # << >> /\ turns[l[1]].parent = Root
    /\ l # << >> => l[Len(l)] = t
    /\ \A i \in 2..Len(l) : turns[l[i]].parent = l[i-1]
    /\ \A i \in 1..Len(l) : l[i] \in Completed(w)

(* A branch that is too long loses its oldest turns, any other nothing.     *)
LEMMA CutBranchIsRecent ==
    ASSUME NEW w \in World, NEW t \in Completed(w), NEW path \in Seq(TurnId), Branch(path, t, w)
    PROVE  Recent(SubSeq(path, IF Len(path) > MaxTurns THEN Len(path) - MaxTurns + 1 ELSE 1, Len(path)), t, w)
<1>1. Len(path) \in Nat \ {0} /\ MaxTurns \in Nat
  BY StoreAssumption, EmptySeq DEF Branch
<1>2. CASE Len(path) <= MaxTurns
  <2>1. SubSeq(path, 1, Len(path)) = path
    BY SubSeqFull
  <2>2. Recent(path, t, w)
    <3>1. path # << >> /\ path[Len(path)] = t /\ turns[path[1]].parent = Root
      BY DEF Branch
    <3>2. (\A i \in 2..Len(path) : turns[path[i]].parent = path[i-1])
          /\ \A i \in 1..Len(path) : path[i] \in Completed(w)
      BY DEF Branch
    <3>3. QED
      BY <1>2, <3>1, <3>2 DEF Recent
  <2>3. ~(Len(path) > MaxTurns)
    BY <1>1, <1>2
  <2>4. QED
    BY <2>1, <2>2, <2>3
<1>3. CASE Len(path) > MaxTurns
  <2> DEFINE n == Len(path)
             l == SubSeq(path, n - MaxTurns + 1, n)
  <2>1. n - MaxTurns + 1 \in 2..n + 1 /\ n - (n - MaxTurns + 1) + 1 = MaxTurns
    BY <1>1, <1>3
  <2>2. \A i \in (n - MaxTurns + 1)..n : path[i] \in TurnId
    BY <1>1, <2>1, ElementOfSeq
  <2>3. Len(l) = MaxTurns /\ \A i \in 1..MaxTurns : l[i] = path[n - MaxTurns + i]
    <3>1. /\ Len(l) = IF n - MaxTurns + 1 <= n THEN n - (n - MaxTurns + 1) + 1 ELSE 0
          /\ \A i \in 1..n - (n - MaxTurns + 1) + 1 : l[i] = path[n - MaxTurns + 1 + i - 1]
      BY <1>1, <2>1, <2>2, SubSeqProperties
    <3> HIDE DEF l, n
    <3>2. n \in Nat /\ n > MaxTurns
      BY <1>1, <1>3 DEF n
    <3>3. QED
      BY <1>1, <3>1, <3>2
  <2>4. path[n] = t /\ (\A i \in 2..n : turns[path[i]].parent = path[i-1])
        /\ \A i \in 1..n : path[i] \in Completed(w)
    BY DEF Branch
  <2>5. l # << >> => Len(l) # 0
    BY <2>1, <2>2, SubSeqProperties, EmptySeq
  <2>6. n \in Nat /\ n > MaxTurns
    BY <1>1, <1>3
  <2> HIDE DEF l, n
  <2>7. l # << >> => l[Len(l)] = t
    BY <1>1, <2>3, <2>4, <2>5, <2>6
  <2>8. ASSUME NEW i \in 2..Len(l)
        PROVE  turns[l[i]].parent = l[i - 1]
    <3>1. i \in 2..MaxTurns /\ i \in 1..MaxTurns /\ i - 1 \in 1..MaxTurns
      BY <1>1, <2>3, <2>8
    <3>2. n - MaxTurns + i \in 2..n /\ n - MaxTurns + (i - 1) = (n - MaxTurns + i) - 1
      BY <1>1, <2>6, <3>1
    <3>3. QED
      BY <2>3, <2>4, <3>1, <3>2
  <2>9. ASSUME NEW i \in 1..Len(l)
        PROVE  l[i] \in Completed(w)
    <3>1. i \in 1..MaxTurns /\ n - MaxTurns + i \in 1..n
      BY <1>1, <2>3, <2>6, <2>9
    <3>2. QED
      BY <2>3, <2>4, <3>1
  <2>10. Recent(l, t, w)
    BY <1>1, <2>3, <2>7, <2>8, <2>9 DEF Recent
  <2>11. QED
    BY <1>3, <2>10 DEF l, n
<1>4. QED
  BY <1>1, <1>2, <1>3

LEMMA FinishedBranches == StoreInv /\ Acyclic => LineageIsBranch
<1> SUFFICES ASSUME StoreInv, Acyclic, NEW w \in World, NEW t \in Completed(w)
             PROVE  Recent(Lineage(t), t, w)
  BY DEF LineageIsBranch, Recent
<1>1. Chain(t, {})
  BY DEF Chain
<1>2. Branch(Walk[<<t, {}>>], t, w)
  BY <1>1, WalkIsBranch
<1>3. Walk[<<t, {}>>] \in Seq(TurnId)
  BY WalkIsDefined DEF Walked, Completed, InWorld, Rows
<1>4. QED
  BY <1>2, <1>3, CutBranchIsRecent DEF Lineage

(* The lineage of a finished turn is the newest part of its branch, as much *)
(* as a prompt holds: no turn is missing in it, repeated, unfinished or of  *)
(* another world, and a shorter one is the whole branch (store.py:976-1029).*)
THEOREM LineagesAreBranches == StoreSpec => []LineageIsBranch
BY FinishedBranches, StoreInvariant, PTL

-----------------------------------------------------------------------------
LEMMA WalkStaysDefined == StoreInv' /\ Acyclic' => Walked'
<1>1. (StoreInv /\ Acyclic => Walked)'
  BY WalkIsDefined, PTL
<1>2. QED
  BY <1>1

(* The walk from a finished turn meets finished rows only, which no step    *)
(* changes.                                                                 *)
LEMMA WalkIsKept ==
    ASSUME StoreInv, Acyclic, StoreInv', Acyclic', HistoryKept, NEW w \in World,
           NEW u \in Completed(w), NEW before \in SUBSET TurnId
    PROVE  Walk'[<<u, before>>] = Walk[<<u, before>>]
<1> DEFINE Wrong(t) == \E seen \in SUBSET TurnId : Walk'[<<t, seen>>] # Walk[<<t, seen>>]
           Bad == {t \in Completed(w) : Wrong(t)}
<1> SUFFICES Bad = {}
  OBVIOUS
<1>1. SUFFICES ASSUME NEW t \in Bad, turns[t].parent \notin Bad PROVE FALSE
  BY DEF Acyclic, Completed, InWorld
<1>2. PICK seen \in SUBSET TurnId : Walk'[<<t, seen>>] # Walk[<<t, seen>>]
  OBVIOUS
<1> DEFINE p == turns[t].parent
<1>3. /\ t \in TurnId /\ t \in Rows /\ t # Root /\ turns[t].status = "completed"
      /\ p \in Completed(w) \cup {Root} /\ p \in TurnId \cup {Root}
  BY StoreAssumption DEF Completed, InWorld, Rows, StoreInv, ParentIsFinished
<1>4. turns'[t] = turns[t] /\ t \in Rows'
  BY <1>3 DEF HistoryKept, Rows
<1>5. Walked /\ Walked'
  BY WalkIsDefined, WalkStaysDefined
<1> DEFINE further == seen \cup {t}
<1>6. Walk'[<<p, further>>] = Walk[<<p, further>>]
  <2>1. further \in SUBSET TurnId
    BY <1>3
  <2>2. CASE p = Root
    <3> HIDE DEF p, further
    <3>1. QED
      BY <1>3, <1>5, <2>1, <2>2, ZenonT(30) DEF Walked
  <2>3. CASE p # Root
    BY <1>1, <1>3, <2>1, <2>3
  <2>4. QED
    BY <2>2, <2>3
<1>7. CASE t \in seen
  BY <1>2, <1>3, <1>5, <1>7 DEF Walked
<1>8. CASE t \notin seen
  <2>1. Walk[<<t, seen>>] = Walk[<<p, further>>] \o <<t>>
    BY <1>3, <1>5, <1>8 DEF Walked
  <2>2. Walk'[<<t, seen>>] = Walk'[<<turns'[t].parent, further>>] \o <<t>>
    BY <1>3, <1>4, <1>5, <1>8 DEF Walked
  <2>3. QED
    BY <1>2, <1>4, <1>6, <2>1, <2>2
<1>9. QED
  BY <1>7, <1>8

LEMMA BranchesStay ==
    ASSUME StoreInv, Acyclic, StoreInv', Acyclic', HistoryKept, NEW w \in World, NEW t \in Completed(w)
    PROVE  turns'[t] = turns[t] /\ Lineage(t)' = Lineage(t)
<1>1. turns'[t] = turns[t]
  BY DEF HistoryKept, Completed, InWorld
<1>2. Walk'[<<t, {}>>] = Walk[<<t, {}>>]
  BY WalkIsKept
<1>3. QED
  BY <1>1, <1>2 DEF Lineage

(* A finished turn keeps its answer and its whole history, whatever is      *)
(* begun, aborted, forked or rewound later: a reloaded save continues the   *)
(* dialogue it was saved with.                                              *)
THEOREM HistoriesAreStable == StoreSpec => HistoryIsStable
<1>1. (StoreInv /\ Acyclic) /\ (StoreInv /\ Acyclic)' /\ [StoreNext]_svars =>
        [\A w \in World : \A t \in Completed(w) :
           /\ turns'[t] = turns[t]
           /\ Lineage(t)' = Lineage(t)]_svars
  BY TransactionKeeps, BranchesStay
<1>2. QED
  BY <1>1, StoreInvariant, PTL DEF StoreSpec, HistoryIsStable
=============================================================================
