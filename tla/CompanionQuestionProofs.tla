----------------------- MODULE CompanionQuestionProofs -----------------------
(***************************************************************************)
(* Theorems about the names and numbers a game gives out: as long as no     *)
(* save is loaded, none of them comes back.  The answer it takes is that of *)
(* the question it asked, the acknowledgement that of the hello it sent,    *)
(* and the daemon is ahead of it by at most the answer it has yet to take.  *)
(***************************************************************************)
EXTENDS CompanionSystemProofs

(* The rows of the store keep the names and the parents they were begun     *)
(* with.                                                                    *)
RowStands(t) == /\ turns'[t] = NoRow <=> turns[t] = NoRow
                /\ turns[t] # NoRow => /\ turns'[t].alias = turns[t].alias
                                       /\ turns'[t].parent = turns[t].parent

RowsStand == \A t \in TurnId : RowStands(t)

LEMMA AbortsStand ==
    ASSUME StoreTypeOK, NEW D, turns' = Aborted(D)
    PROVE  RowsStand
BY AbortedRows, AbortedOthers DEF RowsStand, RowStands

LEMMA AbortRowsStand ==
    ASSUME DaemonInv, NEW D, AbortRows(D)
    PROVE  RowsStand
BY AbortRowsAborts, AbortsStand DEF DaemonInv, DaemonTypeOK

LEMMA UnchangedStand == UNCHANGED turns => RowsStand
BY DEF RowsStand, RowStands

(* Only messages begin rows.                                                *)
OtherWork ==
    \/ StartUp \/ Crash \/ Stop \/ ServiceHeartbeats \/ Hello
    \/ \E a \in Addr, s \in Session : Heartbeat(a, s)
    \/ \E t \in TurnId : Worker(t)

LEMMA OthersStand ==
    ASSUME DaemonInv, OtherWork
    PROVE  RowsStand
<1>1. CASE StartUp \/ Crash \/ ServiceHeartbeats
           \/ \E a \in Addr, s \in Session : Heartbeat(a, s)
  BY <1>1, UnchangedStand DEF StartUp, Crash, ServiceHeartbeats, Heartbeat
<1>2. CASE Stop
  BY <1>2, AbortRowsStand DEF Stop
<1>3. CASE Hello
  <2>1. PICK a \in Addr, h \in TurnId \cup {Root} :
          \/ HelloUnbound(a, h)
          \/ \E w \in World : HelloFails(a, w, h) \/ \E s \in Session : HelloAccepted(a, w, h, s)
    BY <1>3 DEF Hello
  <2>2. CASE HelloUnbound(a, h)
    BY <2>2, UnchangedStand DEF HelloUnbound
  <2>3. ASSUME NEW w \in World, Invalidated(a, w)
        PROVE  RowsStand
    BY <2>3, AbortRowsStand DEF Invalidated
  <2>4. QED
    BY <2>1, <2>2, <2>3 DEF HelloFails, HelloAccepted
<1>4. ASSUME NEW t \in TurnId, Worker(t)
      PROVE  RowsStand
  <2>1. CASE EmitDelta(t) \/ ModelFails(t) \/ Drop(t)
    BY <2>1, UnchangedStand DEF EmitDelta, ModelFails, Drop
  <2>2. CASE FinishError(t)
    BY <2>2, AbortRowsStand DEF FinishError
  <2>3. ASSUME NEW x \in Text, Commit(t, x)
        PROVE  RowsStand
    <3>1. PICK r \in Row : /\ turns' = [turns EXCEPT ![t] = r]
                           /\ r.parent = turns[t].parent /\ r.alias = turns[t].alias
      BY <2>3, CommitFacts
    <3>2. turns[t] # NoRow /\ r # NoRow
      BY <2>3, CommitFacts, NoRowAssumption
    <3>3. turns'[t] = r /\ \A u \in TurnId \ {t} : turns'[u] = turns[u]
      BY <3>1 DEF DaemonInv, DaemonTypeOK, StoreTypeOK
    <3>4. QED
      BY <3>1, <3>2, <3>3 DEF RowsStand, RowStands
  <2>4. QED
    BY <1>4, <2>1, <2>2, <2>3 DEF Worker
<1>5. QED
  BY <1>1, <1>2, <1>3, <1>4 DEF OtherWork

(* And one message begins at most one row, under its own name, at the       *)
(* parent it names, which is a finished turn.                               *)
Begun(t, m) == /\ turns[t] = NoRow /\ turns'[t] # NoRow
               /\ turns'[t].alias = m.exch /\ turns'[t].parent = m.parent
               /\ \A u \in TurnId \ {t} : RowStands(u)

LEMMA BindingParent ==
    ASSUME NEW a \in Addr, NEW m \in Message, NEW b \in Bindings(a, m)
    PROVE  b.parent = m.parent \/ b.parent \in Anchors(WorldOf(m.exch), m.parent)
<1>1. ASSUME NEW v,
             b = [peers |-> peers, addrs |-> addrWorld, heads |-> head, at |-> v,
                  parent |-> m.parent, out |-> {}]
      PROVE  b.parent = m.parent
  BY <1>1
<1>2. ASSUME NEW w, NEW r, NEW ps, NEW as, NEW hs,
             b = [peers |-> ps, addrs |-> as, heads |-> hs, at |-> w,
                  parent |-> r, out |-> {Ack(w, r, m.exch[1])}]
      PROVE  b.parent = r
  BY <1>2
<1>3. QED
  BY <1>1, <1>2 DEF Bindings

LEMMA MessagesBegin ==
    ASSUME DaemonInv, NEW a \in Addr, NEW m \in Message, UserMessageFrom(a, m),
           m.parent \in Completed(WorldOf(m.exch)) \cup {Root}
    PROVE  RowsStand \/ \E t \in TurnId : Begun(t, m)
<1>1. CASE StaleSession(a, m) \/ BootstrapFails(a, m)
  BY <1>1, UnchangedStand DEF StaleSession, BootstrapFails
<1>2. ASSUME NEW b \in Bindings(a, m), Rebound(b), StartFails(b, m) \/ Accept(a, b, m)
      PROVE  \E t \in TurnId : Begun(t, m)
  <2>1. PICK t \in TurnId, st \in {"pending", "aborted"} :
          Admissible(b, m) /\ InsertTurn(WorldOf(m.exch), b.parent, m.exch, t, st, Blank)
    BY <1>2 DEF StartFails, Accept
  <2>2. PICK w : w = WorldOf(m.exch)
    OBVIOUS
  <2>3. b.parent = m.parent
    <3>1. CASE b.parent \in Anchors(w, m.parent)
      <4>1. w \in World
        BY <2>2, MessageFacts DEF DaemonInv
      <4>2. QED
        BY <2>2, <3>1, <4>1, CanonicalAnchor DEF DaemonInv, DaemonTypeOK
    <3>2. CASE b.parent = m.parent
      BY <3>2
    <3>3. b.parent = m.parent \/ b.parent \in Anchors(w, m.parent)
      BY <2>2, BindingParent
    <3>4. QED
      BY <3>1, <3>2, <3>3
  <2>4. b.at = w /\ peers'[w].head = b.parent
    BY <1>2, <2>1, <2>2, BindingFacts DEF DaemonInv, Admissible, Rebound
  <2>5. /\ turns[t] = NoRow /\ turns'[t] # NoRow
        /\ turns'[t] = NewRow(w, b.parent, st, Blank, m.exch)
        /\ \A u \in TurnId \ {t} : turns'[u] = turns[u]
    BY <1>2, <2>1, <2>2, <2>4, BeginningFacts
  <2>6. turns'[t].alias = m.exch /\ turns'[t].parent = m.parent
    BY <2>3, <2>5 DEF NewRow
  <2>7. QED
    BY <2>5, <2>6 DEF Begun, RowStands
<1>3. ASSUME NEW b \in Bindings(a, m),
             \/ Replay(b, m) \/ Misused(b, m) \/ AlreadyRunning(b, m)
             \/ StaleHead(b, m) \/ Busy(b, m) \/ BeginFails(b, m)
      PROVE  RowsStand
  BY <1>3, UnchangedStand DEF Replay, Misused, AlreadyRunning, StaleHead, Busy, BeginFails, Refuse
<1>4. QED
  BY <1>1, <1>2, <1>3 DEF UserMessageFrom

-----------------------------------------------------------------------------
(* The name e of a question, on its way or in a row, was given out already; *)
(* if it is that of the question in progress, so are parent and words.      *)
Given(e, p, b) == /\ e[2] \in Nat /\ e[2] <= storage.minted
                  /\ storage.active # NoExchange /\ storage.active.exch = e
                     => storage.active.parent = p /\ asked = b

NamesInv ==
    /\ loads = 0
    /\ \A p \in uplink : p.type = "user_message" => Given(p.exch, p.parent, p.body)
    /\ \A t \in TurnId : turns[t] # NoRow => Given(turns[t].alias, turns[t].parent, wording[t])

(* The rows a step begins: none, or the one of a message in flight.         *)
WordsStand(t) == turns[t] # NoRow => wording'[t] = wording[t]

BegunFrom(p, t) == /\ p.type = "user_message" /\ Begun(t, p) /\ wording'[t] = p.body
                   /\ \A u \in TurnId \ {t} : WordsStand(u)

LEMMA WorksBegin ==
    ASSUME SysInv, NEW p \in uplink, NEW a \in Addr, DaemonWorks(a, p)
    PROVE  \/ RowsStand /\ \A t \in TurnId : WordsStand(t)
           \/ \E t \in TurnId : BegunFrom(p, t)
<1>1. Up(p) /\ p.type = "user_message"
  BY DEF SysInv, Links, DaemonWorks
<1>2. PICK m : m = [exch |-> p.exch, parent |-> p.parent, body |-> p.body]
  OBVIOUS
<1>3. m.exch = p.exch /\ m.parent = p.parent
  BY <1>2
<1>4. /\ m.exch \in ClientId /\ issued[m.exch[1]] # NoWorld /\ p.body \in Body
      /\ m.parent \in Completed(WorldOf(m.exch)) \cup {Root}
  BY <1>1, <1>3 DEF Up, WorldOf
<1>5. m \in Message
  BY <1>2, <1>3, <1>4 DEF Message, WorldOf, Completed, InWorld, Rows
<1>6. UserMessageFrom(a, m)
  BY <1>2 DEF DaemonWorks
<1>7. RowsStand \/ \E t \in TurnId : Begun(t, m)
  BY <1>4, <1>5, <1>6, MessagesBegin DEF SysInv
<1>8. /\ \A t \in TurnId : WordsStand(t)
      /\ \A t \in TurnId : turns[t] = NoRow /\ turns'[t] # NoRow => wording'[t] = p.body
  BY DEF DaemonWorks, WordsStand, Rows
<1>9. ASSUME NEW t \in TurnId, Begun(t, m)
      PROVE  BegunFrom(p, t)
  BY <1>1, <1>3, <1>8, <1>9 DEF Begun, BegunFrom
<1>10. QED
  BY <1>7, <1>8, <1>9

LEMMA OwnOther ==
    ASSUME DaemonLives \/ DaemonBeats \/ \E t \in TurnId : DaemonAnswers(t) \/ DaemonReports(t) \/ DaemonStreams(t)
    PROVE  OtherWork /\ UNCHANGED <<gvars, uplink, wording>> /\ Replies(0)
BY DEF DaemonLives, DaemonBeats, DaemonAnswers, DaemonReports, DaemonStreams, OnItsOwn, OtherWork, Worker

LEMMA TakenOther ==
    ASSUME SysInv, NEW p \in uplink, NEW a \in Addr, DaemonGreets(a, p) \/ DaemonPings(a, p)
    PROVE  OtherWork /\ UNCHANGED wording
<1>1. Up(p)
  BY DEF SysInv, Links
<1>2. CASE DaemonGreets(a, p)
  <2>1. WorldFor(p) \subseteq World /\ p.head \in TurnId \cup {Root}
    BY <1>1, <1>2 DEF DaemonGreets, Up, WorldFor, Unnamed
  <2>2. Hello
    BY <1>2, <2>1 DEF DaemonGreets, Hello
  <2>3. QED
    BY <1>2, <2>2 DEF DaemonGreets, OtherWork
<1>3. CASE DaemonPings(a, p)
  BY <1>1, <1>3 DEF DaemonPings, Up, OtherWork
<1>4. QED
  BY <1>2, <1>3

(* What the daemon's half of a step does to the names.                      *)
LEMMA DaemonNamesKeep ==
    ASSUME NamesInv, UNCHANGED gvars, uplink' \subseteq uplink,
           \/ RowsStand /\ \A t \in TurnId : WordsStand(t)
           \/ \E p \in uplink, t \in TurnId : BegunFrom(p, t)
    PROVE  NamesInv'
<1>1. UNCHANGED <<storage, loads, asked>>
  BY DEF gvars
<1>2. ASSUME NEW e, NEW p, NEW b, Given(e, p, b)
      PROVE  Given(e, p, b)'
  BY <1>1, <1>2 DEF Given
<1>3. ASSUME NEW p \in uplink', p.type = "user_message"
      PROVE  Given(p.exch, p.parent, p.body)'
  BY <1>2, <1>3 DEF NamesInv
<1>4. ASSUME NEW t \in TurnId, turns'[t] # NoRow
      PROVE  Given(turns[t].alias, turns[t].parent, wording[t])'
  <2>1. CASE RowStands(t) /\ WordsStand(t)
    <3>1. PICK e, p, b : e = turns'[t].alias /\ p = turns'[t].parent /\ b = wording'[t]
      OBVIOUS
    <3>2. Given(e, p, b)
      BY <1>4, <2>1, <3>1 DEF NamesInv, RowStands, WordsStand
    <3>3. QED
      BY <1>2, <3>1, <3>2
  <2>2. ASSUME NEW p \in uplink, BegunFrom(p, t)
        PROVE  Given(turns[t].alias, turns[t].parent, wording[t])'
    <3>1. PICK e, r, b : e = turns'[t].alias /\ r = turns'[t].parent /\ b = wording'[t]
      OBVIOUS
    <3>2. Given(e, r, b)
      BY <2>2, <3>1 DEF NamesInv, BegunFrom, Begun
    <3>3. QED
      BY <1>2, <3>1, <3>2
  <2>3. QED
    BY <2>1, <2>2 DEF RowsStand, BegunFrom, Begun
<1>5. QED
  BY <1>1, <1>3, <1>4 DEF NamesInv

(* And what the game's half does: it asks, or it asks nothing.              *)
LEMMA RestKeeps ==
    ASSUME NamesInv, UNCHANGED <<turns, wording, asked, loads>>, GameP!SameQuestion,
           storage.minted \in Nat, storage'.minted \in Nat, storage.minted <= storage'.minted,
           \A p \in uplink' : p \in uplink \/ p.type # "user_message"
    PROVE  NamesInv'
<1>1. ASSUME NEW e, NEW p, NEW b, Given(e, p, b)
      PROVE  Given(e, p, b)'
  <2>1. e[2] \in Nat /\ e[2] <= storage'.minted
    BY <1>1 DEF Given
  <2>2. storage'.active # NoExchange /\ storage'.active.exch = e => storage'.active.parent = p /\ asked' = b
    BY <1>1 DEF Given, GameP!SameQuestion
  <2>3. QED
    BY <2>1, <2>2 DEF Given
<1>2. QED
  BY <1>1 DEF NamesInv

LEMMA AskKeeps ==
    ASSUME SysInv, NamesInv, GameAsks, storage'.minted \in Nat, GameP!AsksAnew
    PROVE  NamesInv'
<1>1. /\ UNCHANGED <<turns, wording, loads>>
      /\ storage'.active # NoExchange
      /\ storage'.active.exch[2] = storage.minted + 1 /\ storage'.minted = storage.minted + 1
      /\ storage.minted \in Nat
  BY GameFacts, NothingMoves DEF GameAsks, Game!UserInput, GameP!AsksAnew
<1>2. PICK x, b : /\ x = storage'.active /\ b = asked'
                  /\ uplink' = uplink \cup {QuestionOf(x, b)}
  BY <1>1 DEF GameAsks
<1>3. ASSUME NEW e, NEW p, NEW c, Given(e, p, c)
      PROVE  Given(e, p, c)'
  <2>1. e[2] \in Nat /\ e[2] <= storage'.minted /\ e[2] # storage.minted + 1
    BY <1>1, <1>3 DEF Given
  <2>2. QED
    BY <1>1, <2>1 DEF Given
<1>4. ASSUME NEW p \in uplink', p.type = "user_message"
      PROVE  Given(p.exch, p.parent, p.body)'
  <2>1. CASE p \in uplink
    BY <1>3, <1>4, <2>1 DEF NamesInv
  <2>2. CASE p = QuestionOf(x, b)
    <3>1. p.exch = x.exch /\ p.parent = x.parent /\ p.body = b
      BY <2>2 DEF QuestionOf
    <3>2. p.exch[2] \in Nat /\ p.exch[2] <= storage'.minted
      BY <1>1, <1>2, <3>1
    <3>3. QED
      BY <1>2, <3>1, <3>2 DEF Given
  <2>3. QED
    BY <1>2, <2>1, <2>2
<1>5. QED
  BY <1>1, <1>3, <1>4 DEF NamesInv

-----------------------------------------------------------------------------
(* One step of the game.  A packet ends the question in progress or leaves  *)
(* everything about it alone.                                               *)
Ended(p) == p.type = "assistant_end" /\ GameP!AssistantEnd(p.exch, p.seq, p.turn, p.epoch)

LEMMA TakenMoves ==
    ASSUME SysInv, NEW p \in downlink, GameTakes(p)
    PROVE  /\ GameP!Steady \/ Ended(p)
           /\ storage'.control = storage.control
           /\ \/ /\ storage'.pending \in {storage.pending, 0} /\ session' \in {session, NoSession}
                 /\ storage'.world = storage.world
              \/ p.type = "hello_ack" /\ GameP!HelloAck(p.seq, p.session, p.epoch) /\ storage'.pending = 0
<1>1. Down(p) /\ GameP!Epoch = 1..MaxStarts
  BY GameFacts DEF GameP!Epoch
<1>2. CASE p.type = "hello_ack" /\ Game!HelloAck(p.seq, p.session, p.epoch)
  <2>1. GameP!HelloAck(p.seq, p.session, p.epoch) /\ p.session \in Session /\ p.epoch \in GameP!Epoch
    BY <1>1, <1>2, SamePackets DEF Down
  <2>2. GameP!Steady /\ storage'.pending = 0
    BY <2>1, GameAssumed, GameP!AckMoves DEF SysInv
  <2>3. QED
    BY <1>2, <2>1, <2>2 DEF GameP!Steady
<1>3. CASE p.type = "heartbeat" /\ Game!HeartbeatArrives(p.session, p.epoch)
  <2>1. GameP!HeartbeatArrives(p.session, p.epoch) /\ p.session \in Session /\ p.epoch \in GameP!Epoch
    BY <1>1, <1>3, SamePackets DEF Down
  <2>2. /\ GameP!Steady /\ storage'.pending \in {storage.pending, 0}
        /\ session' \in {session, NoSession} /\ storage'.world = storage.world
    BY <2>1, GameAssumed, GameP!HeartbeatMoves DEF SysInv
  <2>3. QED
    BY <2>2 DEF GameP!Steady
<1>4. CASE UNCHANGED session /\ GameP!AssistantStart(p.exch, p.epoch)
  <2>1. GameP!Steady /\ storage'.pending = storage.pending /\ storage'.world = storage.world
    BY <1>4, GameAssumed, GameP!StreamMoves DEF SysInv
  <2>2. QED
    BY <1>4, <2>1 DEF GameP!Steady
<1>5. CASE UNCHANGED session /\ p.type = "assistant_delta" /\ GameP!AssistantDelta(p.exch, p.seq, p.epoch)
  <2>1. p.seq \in Nat
    BY <1>1, <1>5 DEF Down
  <2>2. GameP!Steady /\ storage'.pending = storage.pending /\ storage'.world = storage.world
    BY <1>5, <2>1, GameAssumed, GameP!StreamMoves DEF SysInv
  <2>3. QED
    BY <1>5, <2>2 DEF GameP!Steady
<1>6. CASE UNCHANGED session /\ Ended(p)
  <2>1. UNCHANGED <<storage.control, storage.pending, storage.world>>
    BY <1>6, GameAssumed, GameP!EndMoves DEF SysInv, Ended
  <2>2. QED
    BY <1>6, <2>1
<1>7. CASE /\ UNCHANGED session
           /\ GameP!ExchangeError(p.exch, p.seq, p.epoch) \/ GameP!ConnectionError(p.world)
  <2>1. storage' = GameP!Failing(GameP!Heard(storage))
    BY <1>7 DEF GameP!ExchangeError, GameP!ConnectionError
  <2>2. GameP!Steady /\ storage'.pending = storage.pending /\ storage'.world = storage.world
    BY <2>1, GameAssumed, GameP!FailureMoves DEF SysInv
  <2>3. QED
    BY <1>7, <2>2 DEF GameP!Steady
<1>8. QED
  BY <1>2, <1>3, <1>4, <1>5, <1>6, <1>7, SamePackets DEF GameTakes, Ended

(* One step of the whole, when no save is loaded.                           *)
LEMMA NoReloads ==
    ASSUME MaxLoads = 0, loads = 0
    PROVE  ~GameReloads
BY DEF GameReloads, Game!Save, Game!Load

LEMMA NamesStepKeeps ==
    ASSUME MaxLoads = 0, SysInv, SysInv', NamesInv, [SystemNext]_sysvars
    PROVE  NamesInv'
<1>0. storage.minted \in Nat /\ storage'.minted \in Nat
  BY GameAssumed DEF SysInv, GameP!ModInv, GameP!ModTypeOK, GameP!Storage
<1>1. CASE UNCHANGED sysvars
  BY <1>1 DEF sysvars, gvars, dvars, NamesInv, Given
<1>2. CASE GameReloads
  BY <1>2, NoReloads DEF NamesInv
<1>3. CASE GameBoots \/ GameTicks \/ GameJoins
  <2>1. GameP!Becomes(storage, storage')
    <3>1. CASE GameBoots
      BY <3>1, SameEvents, GameAssumed, GameP!BootMoves DEF GameBoots, SysInv
    <3>2. CASE GameTicks \/ GameJoins
      BY <3>2, SameEvents, GameAssumed, GameP!CheckMoves DEF GameTicks, GameJoins, Signalling, SysInv
    <3>3. QED
      BY <1>3, <3>1, <3>2
  <2>2. GameP!SameQuestion /\ storage'.minted = storage.minted
    BY <2>1 DEF GameP!Becomes, GameP!SameQuestion
  <2>3. UNCHANGED <<turns, wording, asked, loads>>
    BY <1>3, NothingMoves DEF GameBoots, GameTicks, GameJoins, Silently, Signalling, Game!Boot, Game!Check, Game!Join
  <2>4. \A p \in uplink' : p \in uplink \/ p.type # "user_message"
    BY <1>3 DEF GameBoots, GameTicks, GameJoins, Silently, Signalling, HelloOf, HeartbeatOf
  <2>5. QED
    BY <1>0, <2>2, <2>3, <2>4, RestKeeps
<1>4. CASE GameAsks
  <2>1. /\ storage.minted <= storage'.minted /\ storage.active = NoExchange
        /\ storage'.active = NoExchange \/ GameP!AsksAnew
    BY <1>4, SameEvents, GameAssumed, GameP!InputMoves DEF GameAsks, SysInv
  <2>2. CASE storage'.active = NoExchange
    <3>1. uplink' = uplink /\ UNCHANGED <<turns, wording, asked, loads>>
      BY <1>4, <2>2, NothingMoves DEF GameAsks, Game!UserInput
    <3>2. GameP!SameQuestion
      BY <2>2 DEF GameP!SameQuestion
    <3>3. QED
      BY <1>0, <2>1, <3>1, <3>2, RestKeeps
  <2>3. QED
    BY <1>0, <1>4, <2>1, <2>2, AskKeeps
<1>5. ASSUME NEW p \in downlink, GameTakes(p)
      PROVE  NamesInv'
  <2>1. GameP!SameQuestion /\ storage'.minted = storage.minted
    BY <1>5, TakenMoves, GameAssumed, GameP!EndMoves DEF GameP!Steady, GameP!SameQuestion, Ended, SysInv
  <2>2. UNCHANGED <<turns, wording, asked, loads, uplink>>
    BY <1>5, NothingMoves DEF GameTakes
  <2>3. QED
    BY <1>0, <2>1, <2>2, RestKeeps
<1>6. ASSUME NEW p, Lost(p)
      PROVE  NamesInv'
  <2>1. UNCHANGED <<turns, wording, asked, loads, storage>> /\ uplink' \subseteq uplink
    BY <1>6, NothingMoves DEF Lost, gvars
  <2>2. GameP!SameQuestion
    BY <2>1 DEF GameP!SameQuestion
  <2>3. QED
    BY <1>0, <2>1, <2>2, RestKeeps
<1>7. CASE DaemonLives \/ DaemonBeats \/ \E t \in TurnId : DaemonAnswers(t) \/ DaemonReports(t) \/ DaemonStreams(t)
  <2>1. RowsStand /\ UNCHANGED <<gvars, uplink, wording>>
    BY <1>7, OwnOther, OthersStand DEF SysInv
  <2>2. QED
    BY <2>1, DaemonNamesKeep DEF WordsStand
<1>8. ASSUME NEW p \in uplink, DaemonTakes(p)
      PROVE  NamesInv'
  <2>1. PICK a \in Addr : DaemonGreets(a, p) \/ DaemonPings(a, p) \/ DaemonWorks(a, p)
    BY <1>8 DEF DaemonTakes
  <2>2. UNCHANGED gvars /\ uplink' \subseteq uplink
    BY <1>8 DEF DaemonTakes, Taken
  <2>3. CASE DaemonGreets(a, p) \/ DaemonPings(a, p)
    <3>1. RowsStand /\ UNCHANGED wording
      BY <2>3, TakenOther, OthersStand DEF SysInv
    <3>2. QED
      BY <2>2, <3>1, DaemonNamesKeep DEF WordsStand
  <2>4. CASE DaemonWorks(a, p)
    BY <2>2, <2>4, WorksBegin, DaemonNamesKeep
  <2>5. QED
    BY <2>1, <2>3, <2>4
<1>9. QED
  BY <1>1, <1>2, <1>3, <1>4, <1>5, <1>6, <1>7, <1>8 DEF SystemNext

LEMMA NamesInvariant ==
    ASSUME MaxLoads = 0
    PROVE  SystemSpec => [](SysInv /\ NamesInv)
<1>1. SystemInit => SysInv /\ NamesInv
  <2> SUFFICES ASSUME SystemInit PROVE NamesInv
    BY SystemInitInv
  <2>1. loads = 0 /\ uplink = {} /\ \A t \in TurnId : turns[t] = NoRow
    BY DEF SystemInit, Game!ModInit, DaemonInit, StoreInit
  <2>2. QED
    BY <2>1 DEF NamesInv
<1>2. SysInv /\ NamesInv /\ [SystemNext]_sysvars => (SysInv /\ NamesInv)'
  BY SystemStepKeeps, NamesStepKeeps
<1>3. QED
  BY <1>1, <1>2, PTL DEF SystemSpec

(* The answer the game shows under a question is the one the model gave to  *)
(* those words, from the head the question was asked at, however datagrams  *)
(* were lost, repeated or overtook each other, and whatever became of the   *)
(* daemon in between: unless the save is loaded (transport_udp.lua:716-771).*)
THEOREM AnswersFitQuestions ==
    ASSUME MaxLoads = 0
    PROVE  SystemSpec => AnswerFitsQuestion
<1> DEFINE Fits == storage.active # NoExchange /\ storage'.log # storage.log /\ loads' = loads =>
                     LET t == storage'.head IN
                     /\ t \in Completed(storage.world)
                     /\ turns[t].parent = storage.active.parent
                     /\ turns[t].alias = storage.active.exch
                     /\ wording[t] = asked
<1>1. SysInv /\ NamesInv /\ [SystemNext]_sysvars => [Fits]_sysvars
  <2> SUFFICES ASSUME SysInv, NamesInv, SystemNext,
                      storage.active # NoExchange, storage'.log # storage.log
               PROVE  Fits
    OBVIOUS
  <2>1. ASSUME NEW p \in downlink, GameTakes(p)
        PROVE  Fits
    <3>1. Ended(p)
      BY <2>1, TakenMoves DEF GameP!Steady
    <3>2. PICK t, e : t = p.turn /\ e = p.exch
      OBVIOUS
    <3>3. storage'.head = t /\ storage.active.exch = e /\ storage.world = Home[e[1]]
      BY <3>1, <3>2, GameAssumed, GameP!EndMoves DEF Ended, SysInv
    <3>4. Answers(t, e)
      BY <3>1, <3>2, GameFacts DEF Down, Ended
    <3>5. t \in Completed(Home[e[1]]) /\ turns[t].alias = e
      BY <3>4 DEF Answers, SysInv, Sessions
    <3>6. turns[t] # NoRow /\ t \in TurnId
      BY <3>5 DEF Completed, InWorld, Rows
    <3>7. turns[t].parent = storage.active.parent /\ wording[t] = asked
      BY <3>3, <3>5, <3>6 DEF NamesInv, Given
    <3>8. QED
      BY <3>3, <3>5, <3>7
  <2>2. storage' # storage
    OBVIOUS
  <2>3. CASE GameBoots \/ GameTicks \/ GameJoins
    <3>1. GameP!Becomes(storage, storage')
      BY <2>3, SameEvents, GameAssumed, GameP!BootMoves, GameP!CheckMoves
         DEF GameBoots, GameTicks, GameJoins, Signalling, SysInv
    <3>2. QED
      BY <3>1 DEF GameP!Becomes
  <2>4. CASE GameReloads \/ GameAsks
    <3>1. ~GameReloads
      BY NoReloads DEF NamesInv
    <3>2. GameAsks => storage.active = NoExchange
      BY SameEvents, GameAssumed, GameP!InputMoves DEF GameAsks, SysInv
    <3>3. QED
      BY <2>4, <3>1, <3>2
  <2>5. CASE DaemonLives \/ DaemonBeats \/ \E t \in TurnId : DaemonAnswers(t) \/ DaemonReports(t) \/ DaemonStreams(t)
    BY <2>2, <2>5, OwnOther DEF gvars
  <2>6. CASE \E p \in uplink : DaemonTakes(p)
    BY <2>2, <2>6 DEF DaemonTakes, gvars
  <2>7. CASE \E p : Lost(p)
    BY <2>2, <2>7 DEF Lost, gvars
  <2>8. QED
    BY <2>1, <2>3, <2>4, <2>5, <2>6, <2>7 DEF SystemNext
<1>2. QED
  BY <1>1, NamesInvariant, PTL DEF SystemSpec, AnswerFitsQuestion

-----------------------------------------------------------------------------
(* Hellos.  No hello or acknowledgement has a number the game has not given *)
(* out yet, and what answers the pending one names a session that did not   *)
(* exist when it was sent.                                                  *)
HellosInv ==
    /\ loads = 0
    /\ storage.control \in 0..MaxControl
    /\ minted \subseteq Minted
    /\ \A p \in uplink : p.type = "hello" => p.seq \in 0..storage.control
    /\ \A p \in downlink : p.type = "hello_ack" =>
         /\ p.seq \in 0..storage.control
         /\ p.seq = storage.pending /\ p.seq # 0 => p.session \notin minted

(* The control number only grows when a link may repeat datagrams.          *)
LEMMA ControlGrows ==
    ASSUME NEW c \in 0..MaxControl, NEW n, n = (c % MaxControl) + 1, n >= c
    PROVE  n \in 1..MaxControl /\ c < n
<1>1. MaxControl \in Nat /\ MaxControl > 1
  BY SystemAssumption, GameAssumed DEF GameP!ModAssumption
<1>2. CASE c = MaxControl
  <2>1. c % MaxControl = 0
    BY <1>1, <1>2
  <2>2. QED
    BY <1>1, <1>2, <2>1
<1>3. CASE c < MaxControl
  <2>1. c % MaxControl = c
    BY <1>1, <1>3
  <2>2. QED
    BY <1>1, <1>3, <2>1
<1>4. QED
  BY <1>1, <1>2, <1>3

(* A step that sends no hello and gives out no number of one.               *)
LEMMA WaitKeeps ==
    ASSUME HellosInv, NEW c \in 0..MaxControl, c = storage'.control, storage.control <= c,
           storage'.pending \in {storage.pending, 0}, UNCHANGED <<minted, issued, loads>>,
           \A p \in uplink' : p \in uplink \/ p.type # "hello", downlink' \subseteq downlink
    PROVE  HellosInv'
<1>1. storage.control \in 0..MaxControl /\ storage.control \in Nat /\ c \in Nat
  BY SystemAssumption, GameAssumed DEF HellosInv, GameP!ModAssumption
<1>2. \A n \in 0..storage.control : n \in 0..c
  BY <1>1
<1>3. QED
  BY <1>1, <1>2 DEF HellosInv, Minted

(* A step that gives out the next number, for a hello or for none.          *)
LEMMA GreetKeeps ==
    ASSUME HellosInv, NEW c \in 1..MaxControl, c = storage'.control, c = storage'.pending,
           storage.control < c, minted' \in {minted, Minted}, UNCHANGED <<issued, loads, downlink>>,
           \A p \in uplink' : p \in uplink \/ p.type # "hello" \/ p.seq = c
    PROVE  HellosInv'
<1>1. storage.control \in 0..MaxControl /\ storage.control \in Nat /\ c \in Nat /\ c \in 0..MaxControl
  BY SystemAssumption, GameAssumed DEF HellosInv, GameP!ModAssumption
<1>2. \A n \in 0..storage.control : n \in 0..c /\ n # c
  BY <1>1
<1>3. c \in 0..c
  BY <1>1
<1>4. minted' \subseteq Minted'
  BY DEF HellosInv, Minted
<1>5. QED
  BY <1>1, <1>2, <1>3, <1>4 DEF HellosInv

(* An acknowledgement in flight was there, or answers the hello numbered n. *)
LEMMA RepliedAcks ==
    ASSUME DaemonInv, DaemonWork, NEW n, Replies(n), NEW q \in downlink', q.type = "hello_ack"
    PROVE  \/ q \in downlink
           \/ q.seq = n /\ \E p \in sent' : p.type = "hello_ack" /\ q.session = p.session
<1>1. ASSUME NEW p \in sent', q = Wire(p, n)
      PROVE  q.seq = n /\ q.session = p.session /\ p.type = "hello_ack"
  <2>1. CASE AckSent(p)
    <3>0. PICK s \in Session : \E w, h : p = Ack(w, h, s)
      BY <2>1 DEF AckSent
    <3>1. PICK w, h : p = Ack(w, h, s)
      BY <3>0
    <3>2. q = [type |-> "hello_ack", session |-> s, epoch |-> epoch, seq |-> n]
      BY <1>1, <3>1 DEF Wire, Ack
    <3>3. QED
      BY <3>1, <3>2 DEF Ack
  <2>2. CASE BeatSent(p)
    <3>0. PICK s \in Session : \E w, st : p = Beat(w, s, st)
      BY <2>2 DEF BeatSent
    <3>1. PICK w, st : p = Beat(w, s, st)
      BY <3>0
    <3>2. q = [type |-> "heartbeat", session |-> s, epoch |-> epoch]
      BY <1>1, <3>1 DEF Wire, Beat
    <3>3. QED
      BY <3>2
  <2>3. CASE ErrorSent(p)
    <3>1. PICK w, e, c, k : p = Failure(w, e, c, k)
      BY <2>3 DEF ErrorSent
    <3>2. q = [type |-> "error", world |-> w, exch |-> e, seq |-> k, epoch |-> epoch]
      BY <1>1, <3>1 DEF Wire, Failure
    <3>3. QED
      BY <3>2
  <2>4. CASE StreamSent(p)
    <3>1. p.type \in {"assistant_start", "assistant_delta"}
      BY <2>4 DEF StreamSent, Start, Delta
    <3>2. q = p
      BY <1>1, <3>1 DEF Wire
    <3>3. QED
      BY <3>1, <3>2
  <2>5. CASE EndSent(p)
    <3>1. PICK v, e, t, x, k : p = End(v, e, t, x, k)
      BY <2>5 DEF EndSent
    <3>2. p.type = "assistant_end"
      BY <3>1 DEF End
    <3>3. q.type = "assistant_end"
      BY <1>1, <3>2 DEF Wire
    <3>4. QED
      BY <3>3
  <2>6. QED
    BY <2>1, <2>2, <2>3, <2>4, <2>5, DaemonSends
<1>2. QED
  BY <1>1 DEF Replies

(* A step of the daemon, which answers a hello with the number n.           *)
LEMMA ReplyKeeps ==
    ASSUME SysInv, HellosInv, DaemonWork, UNCHANGED gvars, uplink' \subseteq uplink,
           NEW n \in 0..storage.control, Replies(n),
           \A p \in sent' : p.type = "hello_ack" => n = 0 \/ p.session \notin minted
    PROVE  HellosInv'
<1>1. UNCHANGED <<storage, loads, minted>>
  BY DEF gvars
<1>2. minted' \subseteq Minted'
  BY <1>1, WorkKeeps DEF SysInv, HellosInv, Minted, IssuedStay
<1>3. ASSUME NEW q \in downlink', q.type = "hello_ack"
      PROVE  /\ q.seq \in 0..storage.control
             /\ q.seq = storage.pending /\ q.seq # 0 => q.session \notin minted
  <2>1. CASE q \in downlink
    BY <1>3, <2>1 DEF HellosInv
  <2>2. CASE q.seq = n /\ \E p \in sent' : p.type = "hello_ack" /\ q.session = p.session
    BY <2>2
  <2>3. QED
    BY <1>3, <2>1, <2>2, RepliedAcks DEF SysInv
<1>4. QED
  BY <1>1, <1>2, <1>3 DEF HellosInv

(* The daemon greets with a session it has just minted.                     *)
LEMMA GreetsAfresh ==
    ASSUME SysInv, HellosInv, NEW p, NEW a \in Addr, DaemonGreets(a, p), NEW q \in sent', q.type = "hello_ack"
    PROVE  q.session \notin minted
<1>1. PICK w : \/ HelloFails(a, w, p.head)
               \/ \E s \in Session : HelloAccepted(a, w, p.head, s)
  BY DEF DaemonGreets
<1>2. CASE HelloFails(a, w, p.head)
  <2>1. q = Failure(w, NoAlias, "HISTORY_ERROR", 1)
    BY <1>2 DEF HelloFails
  <2>2. QED
    BY <2>1 DEF Failure
<1>3. ASSUME NEW s \in Session, HelloAccepted(a, w, p.head, s)
      PROVE  q.session \notin minted
  <2>1. PICK r : q = Ack(w, r, s) /\ issued[s] = NoWorld
    BY <1>3 DEF HelloAccepted, FreshSession
  <2>2. QED
    BY <2>1 DEF Ack, HellosInv, Minted
<1>4. QED
  BY <1>1, <1>2, <1>3

LEMMA HellosStepKeeps ==
    ASSUME MaxLoads = 0, MayRepeat, SysInv, HellosInv, [SystemNext]_sysvars
    PROVE  HellosInv'
<1>0. storage.control \in 0..MaxControl /\ storage.control \in Nat /\ 0 \in 0..storage.control
  BY SystemAssumption, GameAssumed DEF HellosInv, GameP!ModAssumption
<1>1. CASE UNCHANGED sysvars
  BY <1>1 DEF sysvars, gvars, dvars, HellosInv, Minted
<1>2. CASE GameReloads
  BY <1>2, NoReloads DEF HellosInv
<1>3. CASE GameBoots
  <2>1. storage'.control = storage.control /\ storage'.pending = 0
    BY <1>3, SameEvents, GameAssumed, GameP!BootMoves DEF GameBoots, SysInv
  <2>2. UNCHANGED <<minted, issued, loads, uplink, downlink>>
    BY <1>3, NothingMoves DEF GameBoots, Silently, Game!Boot
  <2>3. QED
    BY <1>0, <2>1, <2>2, WaitKeeps
<1>4. CASE GameTicks \/ GameJoins
  <2>1. /\ \/ GameP!Greets
           \/ GameP!Beats
           \/ storage'.control = storage.control /\ storage'.pending = storage.pending
    BY <1>4, SameEvents, GameAssumed, GameP!CheckMoves DEF GameTicks, GameJoins, Signalling, SysInv
  <2>2. /\ storage'.control >= storage.control
        /\ UNCHANGED <<issued, loads, downlink>>
        /\ minted' = IF HelloSent THEN Minted ELSE minted
        /\ uplink' = uplink \cup {p \in {HelloOf(storage')} : HelloSent}
                            \cup {p \in {HeartbeatOf(session)} : HeartbeatSent}
    BY <1>4, NothingMoves DEF GameTicks, GameJoins, Signalling, Game!Check, Game!Join
  <2>3. \A p \in uplink' : p \in uplink \/ p.type # "hello" \/ (HelloSent /\ p.seq = storage'.pending)
    BY <2>2 DEF HelloOf, HeartbeatOf
  <2>4. CASE storage'.control = storage.control /\ storage'.pending = storage.pending
    <3>1. ~HelloSent
      BY <2>4 DEF HelloSent
    <3>2. QED
      BY <1>0, <2>2, <2>3, <2>4, <3>1, WaitKeeps
  <2>5. CASE GameP!Greets \/ GameP!Beats
    <3>1. PICK c : c = storage'.control
      OBVIOUS
    <3>2. c = (storage.control % MaxControl) + 1
      BY <2>5, <3>1 DEF GameP!Greets, GameP!Beats, GameP!NextControl
    <3>3. c \in 1..MaxControl /\ storage.control < c
      BY <1>0, <2>2, <3>1, <3>2, ControlGrows
    <3>4. c \in 0..MaxControl /\ storage.control <= c
      BY <1>0, <3>3, SystemAssumption, GameAssumed DEF GameP!ModAssumption
    <3>5. CASE GameP!Greets
      <4>1. storage'.pending = c
        BY <3>1, <3>5 DEF GameP!Greets
      <4>2. QED
        BY <2>2, <2>3, <3>1, <3>3, <4>1, GreetKeeps
    <3>6. CASE GameP!Beats
      <4>1. ~HelloSent /\ storage'.pending = storage.pending
        BY <3>6 DEF GameP!Beats, HelloSent
      <4>2. QED
        BY <2>2, <2>3, <3>1, <3>4, <4>1, WaitKeeps
    <3>7. QED
      BY <2>5, <3>5, <3>6
  <2>6. QED
    BY <2>1, <2>4, <2>5
<1>5. CASE GameAsks
  <2>1. storage'.control = storage.control /\ storage'.pending = storage.pending
    BY <1>5, SameEvents, GameAssumed, GameP!InputMoves DEF GameAsks, SysInv
  <2>2. /\ UNCHANGED <<minted, issued, loads, downlink>>
        /\ \A p \in uplink' : p \in uplink \/ p.type # "hello"
    BY <1>5, NothingMoves DEF GameAsks, Game!UserInput, QuestionOf
  <2>3. QED
    BY <1>0, <2>1, <2>2, WaitKeeps
<1>6. ASSUME NEW p \in downlink, GameTakes(p)
      PROVE  HellosInv'
  <2>1. storage'.control = storage.control /\ storage'.pending \in {storage.pending, 0}
    BY <1>6, TakenMoves
  <2>2. UNCHANGED <<minted, issued, loads, uplink>> /\ downlink' \subseteq downlink
    BY <1>6, NothingMoves DEF GameTakes, Taken
  <2>3. QED
    BY <1>0, <2>1, <2>2, WaitKeeps
<1>7. CASE DaemonLives \/ DaemonBeats \/ \E t \in TurnId : DaemonAnswers(t) \/ DaemonReports(t) \/ DaemonStreams(t)
  <2>1. DaemonWork /\ UNCHANGED <<gvars, uplink>> /\ Replies(0)
    BY <1>7, OwnOther, OwnSteps DEF DaemonSide
  <2>2. QED
    BY <1>0, <2>1, ReplyKeeps
<1>8. ASSUME NEW p \in uplink, DaemonTakes(p)
      PROVE  HellosInv'
  <2>1. PICK a \in Addr : DaemonGreets(a, p) \/ DaemonPings(a, p) \/ DaemonWorks(a, p)
    BY <1>8 DEF DaemonTakes
  <2>2. DaemonWork /\ UNCHANGED gvars /\ uplink' \subseteq uplink
    BY <1>8, TakenSteps DEF DaemonSide
  <2>3. CASE DaemonGreets(a, p)
    <3>1. PICK n : n = p.seq
      OBVIOUS
    <3>2. n \in 0..storage.control /\ Replies(n)
      BY <2>3, <3>1 DEF HellosInv, DaemonGreets
    <3>3. QED
      BY <2>2, <2>3, <3>2, GreetsAfresh, ReplyKeeps
  <2>4. CASE DaemonPings(a, p) \/ DaemonWorks(a, p)
    BY <1>0, <2>2, <2>4, ReplyKeeps DEF DaemonPings, DaemonWorks
  <2>5. QED
    BY <2>1, <2>3, <2>4
<1>9. QED
  BY <1>1, <1>2, <1>3, <1>4, <1>5, <1>6, <1>7, <1>8 DEF SystemNext

LEMMA HellosInvariant ==
    ASSUME MaxLoads = 0, MayRepeat
    PROVE  SystemSpec => [](SysInv /\ HellosInv)
<1>1. SystemInit => SysInv /\ HellosInv
  <2> SUFFICES ASSUME SystemInit PROVE HellosInv
    BY SystemInitInv
  <2>1. loads = 0 /\ uplink = {} /\ downlink = {} /\ minted = {} /\ storage = Game!FreshStorage
    BY DEF SystemInit, Game!ModInit
  <2>2. storage.control = 0 /\ 0 \in 0..MaxControl
    BY <2>1, GameAssumed DEF Game!FreshStorage, GameP!ModAssumption
  <2>3. QED
    BY <2>1, <2>2 DEF HellosInv
<1>2. SysInv /\ HellosInv /\ [SystemNext]_sysvars => (SysInv /\ HellosInv)'
  BY SystemStepKeeps, HellosStepKeeps
<1>3. QED
  BY <1>1, <1>2, PTL DEF SystemSpec

(* Over a network that repeats and delays what it likes, the session the    *)
(* game takes up is one the daemon minted for the hello the game sent last, *)
(* never that of an earlier one: unless the save is loaded, which rewinds   *)
(* the number that tells them apart (transport_udp.lua:178, 607-623).       *)
THEOREM AcksAreCurrent ==
    ASSUME MaxLoads = 0, MayRepeat
    PROVE  SystemSpec => AckIsCurrent
<1> DEFINE New == session' \in Session /\ session' # session => session' \notin minted
<1>1. SysInv /\ HellosInv /\ [SystemNext]_sysvars => [New]_sysvars
  <2> SUFFICES ASSUME SysInv, HellosInv, SystemNext, session' \in Session, session' # session
               PROVE  session' \notin minted
    OBVIOUS
  <2>1. session' # NoSession
    BY DaemonAssumption
  <2>2. ASSUME NEW p \in downlink, GameTakes(p)
        PROVE  session' \notin minted
    <3>1. p.type = "hello_ack" /\ GameP!HelloAck(p.seq, p.session, p.epoch)
      BY <2>1, <2>2, TakenMoves
    <3>2. p.session \in Session /\ p.epoch \in GameP!Epoch
      BY <3>1, GameFacts DEF Down, GameP!Epoch
    <3>3. session' = p.session /\ storage.pending = p.seq /\ storage.pending # 0
      BY <3>1, <3>2, GameAssumed, GameP!AckMoves DEF SysInv
    <3>4. QED
      BY <3>1, <3>3 DEF HellosInv
  <2>3. CASE GameBoots \/ GameReloads \/ GameAsks
    BY <2>1, <2>3 DEF GameBoots, GameReloads, GameAsks, Game!Boot, Game!Save, Game!Load, Game!UserInput
  <2>4. CASE GameTicks \/ GameJoins
    <3>1. session' \in {session, NoSession}
      BY <2>4, SameEvents, GameAssumed, GameP!CheckMoves
         DEF GameTicks, GameJoins, Signalling, GameP!Greets, GameP!Beats, SysInv
    <3>2. QED
      BY <2>1, <3>1
  <2>5. CASE DaemonLives \/ DaemonBeats \/ \E t \in TurnId : DaemonAnswers(t) \/ DaemonReports(t) \/ DaemonStreams(t)
    BY <2>5, OwnOther DEF gvars
  <2>6. CASE \E p \in uplink : DaemonTakes(p)
    BY <2>6 DEF DaemonTakes, gvars
  <2>7. CASE \E p : Lost(p)
    BY <2>7 DEF Lost, gvars
  <2>8. QED
    BY <2>2, <2>3, <2>4, <2>5, <2>6, <2>7 DEF SystemNext
<1>2. QED
  BY <1>1, HellosInvariant, PTL DEF SystemSpec, AckIsCurrent

-----------------------------------------------------------------------------
(* One daemon process that nothing fails, one game that is not reloaded, at *)
(* one port (protocol_spec.md:11-18), over a network that repeats.  A       *)
(* daemon that restarts, that the store fails at a repeated hello or that   *)
(* cannot send an answer it has committed does fall behind the game.        *)
Undisturbed == /\ MaxStarts = 1 /\ MaxLoads = 0 /\ MayRepeat
               /\ ~StoreMayFail /\ ~SendMayFail
               /\ \A a, b \in Addr : a = b

(* Once it has minted a session, the daemon has a peer at the port: no      *)
(* message is taken for a hello any more.  No hello is refused.             *)
Greeted == /\ up /\ Minted # {} => \A a \in Addr : PeerAt(a) # {}
           /\ epoch = 0 => Minted = {}
           /\ \A p \in uplink : p.type = "hello" => Kept(p)

(* The sessions of the questions asked so far are in S.                     *)
AskedOver(S) ==
    /\ \A p \in uplink : p.type = "user_message" => p.exch[1] \in S
    /\ \A t \in TurnId : turns[t] # NoRow => turns[t].alias[1] \in S

(* A session that has been answered to the pending hello.                   *)
JoinsInStep(s) == peers[Home[s]] # NoPeer /\ peers[Home[s]].session = s
                  => peers[Home[s]].head = storage.head

(* While a hello is pending nothing has been asked over the session that    *)
(* will answer it, and that session starts where the game stands.           *)
Awaiting ==
    /\ AskedOver(IF storage.pending # 0 THEN minted ELSE Minted)
    /\ storage.pending # 0 =>
         /\ \A p \in uplink : p.type = "hello" /\ p.seq = storage.pending => p.head = storage.head
         /\ \A p \in downlink : p.type = "hello_ack" /\ p.seq = storage.pending => JoinsInStep(p.session)

(* Over one connection: the daemon is ahead by at most the one answer the   *)
(* game has yet to take, and nothing was or will be asked from there before *)
(* it is taken.                                                             *)
Ahead(h, r, W) ==
    /\ h = r \/ (h \in Completed(W) /\ turns[h].parent = r)
    /\ \A t \in Completed(W) : turns[t].alias[1] = session =>
          turns[t].parent # h /\ (turns[t].parent = r => t = h)
    /\ \A p \in uplink : p.type = "user_message" /\ p.exch[1] = session /\ p.parent = h => h = r
    /\ \A t \in active : turns[t].alias[1] = session => h = r

InStep == Together => Ahead(peers[storage.world].head, storage.head, storage.world)

AheadInv == Greeted /\ Awaiting /\ InStep

(* The game is connected to its own world's peer, over a session the daemon *)
(* minted for it.                                                           *)
LEMMA TogetherFacts ==
    ASSUME SysInv, Together, NEW w, w = storage.world
    PROVE  /\ w \in World /\ session \in Session /\ issued[session] = w /\ storage.pending = 0
           /\ peers[w] \in Peer /\ peers[w].session = session
           /\ peers[w].head \in Completed(w) \cup {Root} /\ storage.head \in Completed(w) \cup {Root}
<1>1. w \in World /\ peers[w] # NoPeer /\ peers[w].session = session
  BY GameFacts DEF Together
<1>2. peers[w] \in Peer
  BY <1>1 DEF SysInv, DaemonInv, DaemonTypeOK
<1>3. session \in Session /\ issued[session] = w
  BY <1>1, <1>2 DEF SysInv, DaemonInv, PeersInv, PeersHoldTheirSession, Peer
<1>4. storage.pending = 0
  BY <1>3, DaemonAssumption DEF SysInv, GameP!ModInv, GameP!Connected
<1>5. storage.head \in Completed(w) \cup {Root}
  BY GameFacts DEF Together, Kept
<1>6. QED
  BY <1>1, <1>2, <1>3, <1>4, <1>5 DEF SysInv, DaemonInv, PeersInv, PeerHeadIsFinished

(* What was asked so far was asked over these.                            *)
LEMMA AskedOverStays ==
    ASSUME SysInv, NEW S, AskedOver(S), uplink' \subseteq uplink,
           RowsStand \/ \E p \in uplink, t \in TurnId : BegunFrom(p, t)
    PROVE  AskedOver(S)'
<1>1. ASSUME NEW t \in TurnId, turns'[t] # NoRow, RowStands(t)
      PROVE  turns'[t].alias[1] \in S
  BY <1>1 DEF AskedOver, RowStands
<1>2. ASSUME NEW t \in TurnId, NEW p \in uplink, BegunFrom(p, t)
      PROVE  turns'[t].alias[1] \in S
  BY <1>2 DEF AskedOver, BegunFrom, Begun
<1>3. QED
  BY <1>1, <1>2 DEF AskedOver, RowsStand, BegunFrom, Begun

(* The tree of finished turns says which turns are finished.                *)
LEMMA TreeTells ==
    ASSUME StoreTypeOK', TreeOf' = TreeOf, NEW w \in World
    PROVE  Completed(w)' \subseteq Completed(w)
<1> SUFFICES ASSUME NEW t \in Completed(w)'
             PROVE  t \in Completed(w)
  OBVIOUS
<1>1. t \in TurnId /\ turns'[t] # NoRow /\ turns'[t].status = "completed" /\ turns'[t].world = w
  BY DEF Completed, InWorld, Rows
<1>2. PICK n \in Node : n = [world |-> turns'[t].world, parent |-> turns'[t].parent, text |-> turns'[t].text]
  <2>1. turns'[t] \in Row
    BY <1>1 DEF StoreTypeOK
  <2>2. QED
    BY <2>1 DEF Row, Node
<1>3. TreeOf'[t] = n
  BY <1>1, <1>2 DEF TreeOf
<1>4. TreeOf[t] = n /\ n # NoRow /\ n.world = w
  BY <1>1, <1>2, <1>3, NoRowAssumption
<1>5. turns[t] # NoRow /\ turns[t].status = "completed" /\ turns[t].world = w
  BY <1>1, <1>4 DEF TreeOf
<1>6. QED
  BY <1>1, <1>5 DEF Completed, InWorld, Rows

(* A step that neither finishes a turn nor moves a head: a peer is what it  *)
(* was, or gone, or has been greeted with a session that did not exist.     *)
PeersStay == \A w \in World : \/ peers'[w] \in {peers[w], NoPeer}
                              \/ peers'[w].session \in Session /\ issued[peers'[w].session] = NoWorld

RequestsStay == \A t \in active' :
    \/ t \in active /\ turns'[t].alias = turns[t].alias
    \/ Together /\ turns'[t].alias[1] = session => peers[storage.world].head = storage.head

LEMMA InStepStays ==
    ASSUME SysInv, SysInv', InStep, HistoryKept, TreeOf' = TreeOf, PeersStay, RequestsStay,
           UNCHANGED <<storage, session>>, uplink' \subseteq uplink
    PROVE  InStep'
<1> SUFFICES ASSUME Together' PROVE Ahead(peers[storage.world].head, storage.head, storage.world)'
  BY DEF InStep
<1>1. PICK w, h, r : w = storage.world /\ h = peers'[w].head /\ r = storage.head
  OBVIOUS
<1>2. w \in World /\ peers'[w] # NoPeer /\ peers'[w].session = session
  BY <1>1, GameFacts DEF Together
<1>3. issued[session] # NoWorld \/ session \notin Session
  BY DaemonAssumption DEF SysInv, Sessions
<1>4. peers'[w] = peers[w]
  BY <1>2, <1>3 DEF PeersStay
<1>5. Together
  BY <1>1, <1>2, <1>4 DEF Together
<1>6. Ahead(h, r, w)
  BY <1>1, <1>4, <1>5 DEF InStep
<1>7. /\ \A t \in Completed(w) : t \in Completed(w)' /\ turns'[t] = turns[t]
      /\ \A t \in Completed(w)' : t \in Completed(w)
  <2>1. StoreTypeOK'
    BY DEF SysInv, DaemonInv, DaemonTypeOK
  <2>2. \A t \in Completed(w)' : t \in Completed(w)
    BY <1>2, <2>1, TreeTells
  <2>3. QED
    BY <2>2, FinishedLast
<1>8. h = r \/ (h \in Completed(w)' /\ turns'[h].parent = r)
  BY <1>6, <1>7 DEF Ahead
<1>9. \A t \in Completed(w)' : turns'[t].alias[1] = session =>
        turns'[t].parent # h /\ (turns'[t].parent = r => t = h)
  BY <1>6, <1>7 DEF Ahead
<1>10. \A p \in uplink' : p.type = "user_message" /\ p.exch[1] = session /\ p.parent = h => h = r
  BY <1>6 DEF Ahead
<1>11. \A t \in active' : turns'[t].alias[1] = session => h = r
  BY <1>1, <1>4, <1>5, <1>6 DEF Ahead, RequestsStay
<1>12. QED
  BY <1>1, <1>8, <1>9, <1>10, <1>11 DEF Ahead

(* The half of a step that is the daemon's, for what is pending.            *)
LEMMA AwaitingStays ==
    ASSUME SysInv, HellosInv, Awaiting, UNCHANGED gvars, uplink' \subseteq uplink, IssuedStay,
           RowsStand \/ \E p \in uplink, t \in TurnId : BegunFrom(p, t),
           \A q \in downlink' : q.type = "hello_ack" /\ q.seq = storage.pending /\ storage.pending # 0
                                => JoinsInStep(q.session)'
    PROVE  Awaiting'
<1>1. UNCHANGED <<storage, minted>>
  BY DEF gvars
<1>2. Minted \subseteq Minted'
  BY DEF Minted, IssuedStay
<1>3. PICK S : S = IF storage.pending # 0 THEN minted ELSE Minted
  OBVIOUS
<1>4. PICK T : T = IF storage'.pending # 0 THEN minted' ELSE Minted'
  OBVIOUS
<1>5. S \subseteq T
  BY <1>1, <1>2, <1>3, <1>4
<1>6. AskedOver(S)'
  BY <1>3, AskedOverStays DEF Awaiting
<1>7. AskedOver(T)'
  BY <1>5, <1>6 DEF AskedOver
<1>8. storage'.pending # 0 =>
        \A p \in uplink' : p.type = "hello" /\ p.seq = storage'.pending => p.head = storage'.head
  BY <1>1 DEF Awaiting
<1>9. storage'.pending # 0 =>
        \A q \in downlink' : q.type = "hello_ack" /\ q.seq = storage'.pending => JoinsInStep(q.session)'
  BY <1>1
<1>10. QED
  BY <1>4, <1>7, <1>8, <1>9 DEF Awaiting

(* An acknowledgement that was in flight still does not find the peer ahead.*)
LEMMA JoinsStay ==
    ASSUME SysInv, Awaiting, DaemonWork, UNCHANGED gvars, PeersStay,
           NEW q \in downlink, q.type = "hello_ack", q.seq = storage.pending, storage.pending # 0
    PROVE  JoinsInStep(q.session)'
<1> SUFFICES ASSUME peers'[Home[q.session]] # NoPeer, peers'[Home[q.session]].session = q.session
             PROVE  peers'[Home[q.session]].head = storage'.head
  BY DEF JoinsInStep
<1>1. q.session \in Session /\ issued[q.session] # NoWorld
  BY GameFacts DEF Down
<1>2. issued[q.session] = Home[q.session] /\ Home[q.session] \in World
  BY <1>1 DEF SysInv, Sessions, DaemonInv, DaemonTypeOK
<1>3. peers'[Home[q.session]] = peers[Home[q.session]]
  BY <1>1, <1>2 DEF PeersStay
<1>4. JoinsInStep(q.session)
  BY DEF Awaiting
<1>5. storage' = storage
  BY DEF gvars
<1>6. QED
  BY <1>3, <1>4, <1>5 DEF JoinsInStep

LEMMA GreetedStays ==
    ASSUME SysInv, Greeted, HistoryKept, uplink' \subseteq uplink, UNCHANGED <<issued, addrWorld>>,
           up' => up, epoch' = epoch,
           \A w \in World : peers[w] # NoPeer => peers'[w] # NoPeer /\ peers'[w].addr = peers[w].addr
    PROVE  Greeted'
<1>1. Minted' = Minted
  BY DEF Minted
<1>2. \A a \in Addr : PeerAt(a) \subseteq PeerAt(a)'
  BY DEF PeerAt
<1>3. \A p \in uplink : Kept(p) => Kept(p)'
  BY FinishedLast DEF Kept
<1>4. QED
  BY <1>1, <1>2, <1>3 DEF Greeted

(* Steps of the daemon's own, but for commits.                              *)
Upkeep == \/ StartUp \/ Crash \/ Stop \/ ServiceHeartbeats
         \/ \E t \in TurnId : EmitDelta(t) \/ ModelFails(t) \/ FinishError(t) \/ Drop(t)

LEMMA UpkeepSteps ==
    ASSUME Upkeep
    PROVE  /\ peers' = peers \/ peers' = NoPeers
           /\ active' \subseteq active /\ issued' = issued
           /\ \/ StartUp
              \/ up' = FALSE /\ epoch' = epoch
              \/ UNCHANGED <<up, epoch, peers, addrWorld>>
<1>1. CASE StartUp
  BY <1>1 DEF StartUp, volatile
<1>2. CASE Crash \/ Stop
  BY <1>2 DEF Crash, Stop, Exit
<1>3. CASE ServiceHeartbeats
  BY <1>3 DEF ServiceHeartbeats, volatile
<1>4. ASSUME NEW t \in TurnId, EmitDelta(t) \/ ModelFails(t) \/ FinishError(t) \/ Drop(t)
      PROVE  UNCHANGED <<up, epoch, peers, addrWorld, issued>> /\ active' \subseteq active
  BY <1>4 DEF EmitDelta, ModelFails, FinishError, Drop, Retired
<1>5. QED
  BY <1>1, <1>2, <1>3, <1>4 DEF Upkeep

LEMMA UpkeepAhead ==
    ASSUME Undisturbed, SysInv, SysInv', HellosInv, AheadInv, DaemonWork, HistoryKept, IssuedStay,
           TreeOf' = TreeOf, RowsStand, UNCHANGED gvars, uplink' \subseteq uplink, Replies(0), Upkeep
    PROVE  AheadInv'
<1>1. PeersStay
  BY UpkeepSteps DEF PeersStay, NoPeers
<1>2. RequestsStay
  <2>1. ASSUME NEW t \in active'
        PROVE  t \in active /\ turns'[t].alias = turns[t].alias
    <3>1. t \in active /\ t \in TurnId /\ turns[t] # NoRow
      BY UpkeepSteps, ActiveFacts DEF SysInv, Rows
    <3>2. QED
      BY <3>1 DEF RowsStand, RowStands
  <2>2. QED
    BY <2>1 DEF RequestsStay
<1>3. InStep'
  BY <1>1, <1>2, InStepStays DEF AheadInv, gvars
<1>4. Awaiting'
  <2>1. ASSUME NEW q \in downlink', q.type = "hello_ack", q.seq = storage.pending, storage.pending # 0
        PROVE  JoinsInStep(q.session)'
    <3>1. q \in downlink
      BY <2>1, RepliedAcks DEF SysInv
    <3>2. QED
      BY <1>1, <2>1, <3>1, JoinsStay DEF AheadInv
  <2>2. QED
    BY <2>1, AwaitingStays DEF AheadInv
<1>5. Greeted'
  <2>1. CASE StartUp
    <3>1. epoch = 0
      BY <2>1 DEF StartUp, Undisturbed, SysInv, Sessions
    <3>2. Minted' = {}
      BY <2>1, <3>1 DEF AheadInv, Greeted, Minted, StartUp
    <3>3. \A p \in uplink : Kept(p) => Kept(p)'
      BY FinishedLast DEF Kept
    <3>4. QED
      BY <3>2, <3>3 DEF AheadInv, Greeted
  <2>2. CASE up' = FALSE /\ epoch' = epoch
    <3>1. \A p \in uplink : Kept(p) => Kept(p)'
      BY FinishedLast DEF Kept
    <3>2. Minted' = Minted
      BY UpkeepSteps DEF Minted
    <3>3. QED
      BY <2>2, <3>1, <3>2 DEF AheadInv, Greeted
  <2>3. CASE UNCHANGED <<up, epoch, peers, addrWorld>>
    BY <2>3, UpkeepSteps, GreetedStays DEF AheadInv
  <2>4. QED
    BY <2>1, <2>2, <2>3, UpkeepSteps
<1>6. QED
  BY <1>3, <1>4, <1>5 DEF AheadInv

(* A commit puts the daemon ahead of a game it was in step with.            *)
LEMMA CommitAhead ==
    ASSUME Undisturbed, SysInv, SysInv', HellosInv, AheadInv, DaemonWork, HistoryKept, IssuedStay,
           RowsStand, UNCHANGED gvars, uplink' \subseteq uplink, Replies(0),
           NEW t \in TurnId, NEW x \in Text, Commit(t, x)
    PROVE  AheadInv'
<1>1. PICK v : v = Owner(t)
  OBVIOUS
<1>2. PICK r \in Row : /\ r.status = "completed" /\ r.world = v
                       /\ r.parent = turns[t].parent /\ r.alias = turns[t].alias
                       /\ r.parent \in Completed(v) \cup {Root}
                       /\ turns' = [turns EXCEPT ![t] = r]
  BY <1>1, CommitFacts DEF SysInv
<1>3. /\ t \in active /\ v \in World /\ v = turns[t].world
      /\ turns[t] # NoRow /\ turns[t].status = "pending" /\ \A w : t \notin Completed(w)
  BY <1>1, CommitFacts DEF SysInv, Owner, Completed
<1>4. /\ turns'[t] = r /\ t \in Completed(v)'
      /\ \A u \in TurnId \ {t} : turns'[u] = turns[u]
      /\ \A w : \A u \in Completed(w)' : (u = t /\ w = v) \/ (u # t /\ u \in Completed(w))
      /\ \A w : Completed(w) \subseteq Completed(w)'
  <2>1. turns'[t] = r /\ \A u \in TurnId \ {t} : turns'[u] = turns[u]
    BY <1>2 DEF SysInv, DaemonInv, DaemonTypeOK, StoreTypeOK
  <2>2. r # NoRow
    BY <1>2, NoRowAssumption
  <2>3. t \in Completed(v)'
    BY <1>2, <2>1, <2>2 DEF Completed, InWorld, Rows
  <2>4. ASSUME NEW w, NEW u \in Completed(w)'
        PROVE  (u = t /\ w = v) \/ (u # t /\ u \in Completed(w))
    BY <1>2, <2>1, <2>4 DEF Completed, InWorld, Rows
  <2>5. ASSUME NEW w, NEW u \in Completed(w)
        PROVE  u \in Completed(w)'
    BY <1>3, <2>1, <2>5 DEF Completed, InWorld, Rows
  <2>6. QED
    BY <2>1, <2>3, <2>4, <2>5
<1>5. peers[v].session = turns[t].alias[1] /\ peers[v].head = turns[t].parent /\ peers[v] \in Peer
  BY <1>3, ActiveFacts DEF SysInv, DaemonInv, ActiveInv, ActiveIsCurrent
<1>6. peers' = Advanced(t) /\ active' = active \ {t} /\ UNCHANGED <<up, epoch, addrWorld, issued>>
  BY DEF Commit, SendResults, Undisturbed, Retired
<1>7. /\ peers'[v] \in Peer /\ peers'[v].head = t
      /\ peers'[v].session = peers[v].session /\ peers'[v].addr = peers[v].addr
      /\ \A w \in World \ {v} : peers'[w] = peers[w]
  BY <1>1, <1>3, <1>5, <1>6 DEF Advanced, Peer, SysInv, DaemonInv, DaemonTypeOK
<1>8. peers'[v] # NoPeer /\ peers[v] # NoPeer
  BY <1>5, <1>7, NoPeerAssumption
<1>9. Greeted'
  BY <1>6, <1>7, <1>8, GreetedStays DEF AheadInv
<1>10. Awaiting'
  <2>1. ASSUME NEW q \in downlink', q.type = "hello_ack", q.seq = storage.pending, storage.pending # 0
        PROVE  JoinsInStep(q.session)'
    <3>1. q \in downlink
      BY <2>1, RepliedAcks DEF SysInv
    <3>2. q.session \in Session /\ issued[q.session] # NoWorld /\ q.session \notin minted
      BY <2>1, <3>1, GameFacts DEF Down, HellosInv
    <3>3. Home[q.session] \in World
      BY <3>2 DEF SysInv, Sessions, DaemonInv, DaemonTypeOK
    <3>4. turns[t].alias[1] \in minted
      BY <1>3, <2>1 DEF AheadInv, Awaiting, AskedOver
    <3>5. CASE Home[q.session] = v
      BY <1>5, <1>7, <3>2, <3>4, <3>5 DEF JoinsInStep
    <3>6. CASE Home[q.session] # v
      <4>1. peers'[Home[q.session]] = peers[Home[q.session]] /\ JoinsInStep(q.session)
        BY <1>7, <2>1, <3>1, <3>3, <3>6 DEF AheadInv, Awaiting
      <4>2. QED
        BY <4>1 DEF JoinsInStep, gvars
    <3>7. QED
      BY <3>5, <3>6
  <2>2. QED
    BY <2>1, AwaitingStays DEF AheadInv
<1>11. InStep'
  <2> SUFFICES ASSUME Together' PROVE Ahead(peers[storage.world].head, storage.head, storage.world)'
    BY DEF InStep
  <2>1. PICK w, h, g : w = storage.world /\ h = peers[w].head /\ g = storage.head
    OBVIOUS
  <2>2. w \in World /\ storage' = storage /\ session' = session
    BY <2>1, GameFacts DEF Together, gvars
  <2>3. Together
    BY <1>7, <1>8, <2>1, <2>2 DEF Together
  <2>4. Ahead(h, g, w)
    BY <2>1, <2>3 DEF InStep, AheadInv
  <2>5. \A u \in active' : u \in active /\ u # t /\ turns'[u] = turns[u]
    BY <1>4, <1>6, ActiveFacts DEF SysInv
  <2>6. ASSUME NEW p \in uplink', p.type = "user_message"
        PROVE  p \in uplink /\ p.parent # t
    <3>1. p \in uplink /\ p.parent \in Completed(issued[p.exch[1]]) \cup {Root}
      BY <2>6, GameFacts DEF Up
    <3>2. QED
      BY <1>3, <3>1, StoreAssumption
  <2>7. CASE w # v
    <3>1. /\ h = g \/ (h \in Completed(w)' /\ turns'[h].parent = g)
          /\ \A u \in Completed(w)' : turns'[u].alias[1] = session =>
                turns'[u].parent # h /\ (turns'[u].parent = g => u = h)
      BY <1>3, <1>4, <2>4, <2>7 DEF Ahead, Completed, InWorld, Rows
    <3>2. \A u \in active' : turns'[u].alias[1] = session => h = g
      BY <2>4, <2>5 DEF Ahead
    <3>3. peers'[w].head = h
      BY <1>7, <2>1, <2>2, <2>7
    <3>4. Ahead(h, g, w)'
      BY <2>2, <2>4, <2>6, <3>1, <3>2 DEF Ahead
    <3>5. QED
      BY <2>1, <2>2, <3>3, <3>4
  <2>8. CASE w = v
    <3>1. peers[w].session = session /\ turns[t].alias[1] = session
      BY <1>5, <2>1, <2>3, <2>8 DEF Together
    <3>2. h = g /\ turns[t].parent = g
      BY <1>3, <1>5, <2>1, <2>4, <2>8, <3>1 DEF Ahead
    <3>3. peers'[w].head = t /\ t \in Completed(w)' /\ turns'[t].parent = g /\ t # g
      BY <1>2, <1>3, <1>4, <1>7, <2>8, <3>2, StoreAssumption
    <3>4. ASSUME NEW u \in Completed(w)', turns'[u].alias[1] = session
          PROVE  turns'[u].parent # t /\ (turns'[u].parent = g => u = t)
      <4>1. CASE u = t
        BY <3>3, <4>1
      <4>2. CASE u # t
        <5>1. u \in Completed(w) /\ turns'[u] = turns[u] /\ u \in Rows /\ turns[u].world = w
          BY <1>4, <3>4, <4>2 DEF Completed, InWorld, Rows
        <5>2. turns[u].parent # g
          BY <2>4, <3>2, <3>4, <5>1 DEF Ahead
        <5>3. turns[u].parent \in Completed(w) \cup {Root}
          BY <5>1 DEF SysInv, DaemonInv, StoreInv, ParentIsFinished
        <5>4. QED
          BY <1>3, <5>1, <5>2, <5>3, StoreAssumption
      <4>3. QED
        BY <4>1, <4>2
    <3>5. ASSUME NEW u \in active', turns'[u].alias[1] = session
          PROVE  FALSE
      <4>1. u \in active /\ u # t /\ turns[u].alias[1] = session
        BY <2>5, <3>5
      <4>2. turns[u].world \in World /\ peers[turns[u].world].session = session
            /\ peers[turns[u].world] # NoPeer
        BY <4>1, ActiveFacts DEF SysInv, DaemonInv, ActiveInv, ActiveIsCurrent
      <4>3. turns[u].world = v
        BY <1>3, <1>8, <2>8, <3>1, <4>2 DEF SysInv, DaemonInv, PeersInv, PeersHoldTheirSession
      <4>4. QED
        BY <1>3, <4>1, <4>3 DEF SysInv, DaemonInv, ActiveInv, OneGenerationPerWorld
    <3>6. Ahead(t, g, w)'
      BY <2>2, <2>6, <3>3, <3>4, <3>5 DEF Ahead
    <3>7. QED
      BY <2>1, <2>2, <3>3, <3>6
  <2>9. QED
    BY <2>7, <2>8
<1>12. QED
  BY <1>9, <1>10, <1>11 DEF AheadInv

(* A hello.                                                                 *)
LEMMA GreetsAhead ==
    ASSUME Undisturbed, SysInv, SysInv', HellosInv, AheadInv, DaemonWork, HistoryKept, IssuedStay,
           RowsStand, UNCHANGED gvars, uplink' \subseteq uplink,
           NEW p \in uplink, NEW a \in Addr, DaemonGreets(a, p), TreeOf' = TreeOf
    PROVE  AheadInv'
<1>1. PICK w \in WorldFor(p) : \/ HelloFails(a, w, p.head)
                               \/ \E s \in Session : Home[s] = w /\ HelloAccepted(a, w, p.head, s)
  BY DEF DaemonGreets
<1>2. p.type = "hello" /\ Kept(p) /\ p.world \in World \cup {NoWorld} /\ Replies(p.seq)
  BY GameFacts DEF DaemonGreets, AheadInv, Greeted, Up
<1>3. w \in World /\ p.head \in Completed(w) \cup {Root}
  BY <1>2 DEF WorldFor, Unnamed, Kept
<1>4. p.head \in Anchors(w, p.head)
  BY <1>3 DEF Anchors, Candidates, Completed, InWorld
<1>5. PICK s \in Session : Home[s] = w /\ HelloAccepted(a, w, p.head, s)
  BY <1>1, <1>4 DEF HelloFails, SyncFails, Undisturbed
<1>6. PICK r \in Anchors(w, p.head) :
        /\ addrWorld' = [Unmapped(a, w) EXCEPT ![a] = w]
        /\ peers' = [Unpeered(a, w) EXCEPT ![w] =
                       [addr |-> a, gen |-> NextGeneration(w), head |-> r, session |-> s]]
        /\ sent' = {Ack(w, r, s)}
  BY <1>5 DEF HelloAccepted
<1>7. r = p.head
  BY <1>3, CanonicalAnchor DEF SysInv, DaemonInv, DaemonTypeOK
<1>8. up /\ UNCHANGED <<up, epoch>> /\ active' \subseteq active /\ issued[s] = NoWorld
  BY <1>5 DEF HelloAccepted, Invalidated, FreshSession
<1>9. /\ peers'[w].addr = a /\ peers'[w].head = r /\ peers'[w].session = s
      /\ \A v \in World \ {w} : peers'[v] \in {peers[v], NoPeer}
      /\ addrWorld'[a] = w
  BY <1>3, <1>6 DEF Unpeered, Unmapped
<1>10. PeersStay
  BY <1>8, <1>9 DEF PeersStay
<1>11. RequestsStay
  <2>1. ASSUME NEW t \in active'
        PROVE  t \in active /\ turns'[t].alias = turns[t].alias
    <3>1. t \in active /\ t \in TurnId /\ turns[t] # NoRow
      BY <1>8, ActiveFacts DEF SysInv, Rows
    <3>2. QED
      BY <3>1 DEF RowsStand, RowStands
  <2>2. QED
    BY <2>1 DEF RequestsStay
<1>12. InStep'
  BY <1>10, <1>11, InStepStays DEF AheadInv, gvars
<1>13. Awaiting'
  <2>1. ASSUME NEW q \in downlink', q.type = "hello_ack", q.seq = storage.pending, storage.pending # 0
        PROVE  JoinsInStep(q.session)'
    <3>1. CASE q \in downlink
      BY <1>10, <2>1, <3>1, JoinsStay DEF AheadInv
    <3>2. CASE q.seq = p.seq /\ \E c \in sent' : c.type = "hello_ack" /\ q.session = c.session
      <4>1. q.session = s
        BY <1>6, <3>2 DEF Ack
      <4>2. p.head = storage.head
        BY <1>2, <2>1, <3>2 DEF AheadInv, Awaiting
      <4>3. QED
        BY <1>5, <1>7, <1>9, <4>1, <4>2 DEF JoinsInStep, gvars
    <3>3. QED
      BY <1>2, <2>1, <3>1, <3>2, RepliedAcks DEF SysInv
  <2>2. QED
    BY <2>1, AwaitingStays DEF AheadInv
<1>14. Greeted'
  <2>1. w \in PeerAt(a)'
    <3>1. peers'[w] # NoPeer
      BY <1>3, <1>9 DEF SysInv, DaemonInv, PeersInv, PeerMapsAgree
    <3>2. QED
      BY <1>3, <1>9, <3>1 DEF PeerAt
  <2>2. \A b \in Addr : b = a
    BY DEF Undisturbed
  <2>3. \A k \in uplink : Kept(k) => Kept(k)'
    BY FinishedLast DEF Kept
  <2>4. epoch' # 0
    BY <1>8 DEF SysInv, Sessions
  <2>5. QED
    BY <2>1, <2>2, <2>3, <2>4 DEF AheadInv, Greeted
<1>15. QED
  BY <1>12, <1>13, <1>14 DEF AheadInv

(* A message that is taken finds the peer it names.                         *)
LEMMA WorksAtPeer ==
    ASSUME SysInv, Greeted, NEW p \in uplink, NEW a \in Addr, DaemonWorks(a, p)
    PROVE  /\ UNCHANGED <<up, epoch, peers, addrWorld, issued>>
           /\ \A t \in active' : \/ t \in active
                                 \/ \E w \in World : /\ peers[w] # NoPeer /\ peers[w].session = p.exch[1]
                                                     /\ peers[w].head = p.parent
                                                     /\ turns'[t].alias = p.exch
<1>1. Up(p) /\ p.type = "user_message"
  BY DEF SysInv, Links, DaemonWorks
<1>2. PICK m : m = [exch |-> p.exch, parent |-> p.parent, body |-> p.body]
  OBVIOUS
<1>3. m.exch = p.exch /\ m.parent = p.parent
  BY <1>2
<1>4. /\ m.exch \in ClientId /\ issued[m.exch[1]] # NoWorld /\ p.body \in Body
      /\ m.parent \in Completed(WorldOf(m.exch)) \cup {Root}
  BY <1>1, <1>3 DEF Up, WorldOf
<1>5. m \in Message
  BY <1>2, <1>3, <1>4 DEF Message, WorldOf, Completed, InWorld, Rows
<1>6. UserMessageFrom(a, m)
  BY <1>2 DEF DaemonWorks
<1>7. PeerAt(a) # {}
  <2>1. m.exch[1] \in Session
    BY <1>5, MessageFacts DEF SysInv, DaemonInv
  <2>2. Minted # {} /\ up
    BY <1>4, <1>6, <2>1 DEF Minted, UserMessageFrom
  <2>3. QED
    BY <2>2 DEF Greeted
<1>8. ~MayBootstrap(a, m)
  BY <1>7 DEF MayBootstrap
<1>9. CASE StaleSession(a, m) \/ BootstrapFails(a, m)
  BY <1>8, <1>9 DEF StaleSession, BootstrapFails, volatile
<1>10. ASSUME NEW b \in Bindings(a, m), Rebound(b),
              \/ Replay(b, m) \/ Misused(b, m) \/ AlreadyRunning(b, m) \/ StaleHead(b, m) \/ Busy(b, m)
              \/ BeginFails(b, m) \/ StartFails(b, m) \/ Accept(a, b, m)
       PROVE  /\ UNCHANGED <<up, epoch, peers, addrWorld, issued>>
              /\ \A t \in active' : \/ t \in active
                                    \/ \E w \in World : /\ peers[w] # NoPeer /\ peers[w].session = p.exch[1]
                                                        /\ peers[w].head = p.parent
                                                        /\ turns'[t].alias = p.exch
  <2>1. PICK v \in PeerAt(a) : /\ peers[v].session = m.exch[1]
                               /\ b = [peers |-> peers, addrs |-> addrWorld, heads |-> head, at |-> v,
                                       parent |-> m.parent, out |-> {}]
    BY <1>8 DEF Bindings
  <2>2. /\ b.peers = peers /\ b.addrs = addrWorld /\ b.at = v /\ b.parent = m.parent
        /\ v \in World /\ peers[v] # NoPeer
    BY <2>1 DEF PeerAt
  <2>3. UNCHANGED <<up, epoch, peers, addrWorld, issued>>
    BY <1>10, <2>2 DEF Rebound
  <2>4. ASSUME Accept(a, b, m), NEW t \in active', t \notin active
        PROVE  peers[v].head = p.parent /\ turns'[t].alias = p.exch
    <3>1. PICK u \in TurnId : /\ Admissible(b, m) /\ active' = active \cup {u}
                              /\ InsertTurn(WorldOf(m.exch), b.parent, m.exch, u, "pending", Blank)
      BY <2>4 DEF Accept
    <3>2. u = t
      BY <2>4, <3>1
    <3>3. PICK st, w : st = "pending" /\ st \in {"pending", "aborted"} /\ w = WorldOf(m.exch)
      OBVIOUS
    <3>4. turns'[t] = NewRow(w, peers'[w].head, st, Blank, m.exch)
      BY <1>5, <1>10, <3>1, <3>2, <3>3, BeginningFacts DEF SysInv
    <3>5. turns'[t].alias = m.exch
      BY <3>4 DEF NewRow
    <3>6. QED
      BY <1>3, <2>2, <3>1, <3>5 DEF Admissible
  <2>5. CASE ~Accept(a, b, m)
    <3>1. active' = active
      BY <1>10, <2>5 DEF Replay, Misused, AlreadyRunning, StaleHead, Busy, BeginFails, StartFails, Refuse
    <3>2. QED
      BY <2>3, <3>1
  <2>6. QED
    BY <1>3, <2>1, <2>2, <2>3, <2>4, <2>5
<1>11. QED
  BY <1>6, <1>9, <1>10 DEF UserMessageFrom

(* A message or a heartbeat.                                                *)
LEMMA WorksAhead ==
    ASSUME SysInv, SysInv', HellosInv, AheadInv, DaemonWork, HistoryKept, IssuedStay, TreeOf' = TreeOf,
           UNCHANGED gvars, uplink' \subseteq uplink, NEW p \in uplink, NEW a \in Addr,
           DaemonPings(a, p) \/ DaemonWorks(a, p)
    PROVE  AheadInv'
<1>1. UNCHANGED <<up, epoch, peers, addrWorld, issued>> /\ Replies(0)
  BY WorksAtPeer DEF DaemonPings, DaemonWorks, Heartbeat, volatile, AheadInv
<1>2. RowsStand \/ \E t \in TurnId : BegunFrom(p, t)
  <2>1. CASE DaemonPings(a, p)
    BY <2>1, TakenOther, OthersStand DEF SysInv
  <2>2. QED
    BY <2>1, WorksBegin
<1>3. PeersStay
  BY <1>1 DEF PeersStay
<1>4. ASSUME NEW t \in active'
      PROVE  \/ t \in active /\ turns'[t].alias = turns[t].alias
             \/ Together /\ turns'[t].alias[1] = session => peers[storage.world].head = storage.head
  <2>1. CASE t \in active
    <3>1. t \in TurnId /\ turns[t] # NoRow
      BY <2>1, ActiveFacts DEF SysInv, Rows
    <3>2. RowStands(t)
      BY <1>2, <3>1 DEF RowsStand, BegunFrom, Begun
    <3>3. QED
      BY <2>1, <3>1, <3>2 DEF RowStands
  <2>2. CASE t \notin active
    <3> SUFFICES ASSUME Together, turns'[t].alias[1] = session
                 PROVE  peers[storage.world].head = storage.head
      OBVIOUS
    <3>1. DaemonWorks(a, p)
      BY <1>4, <2>2 DEF DaemonPings, Heartbeat, volatile
    <3>2. PICK w \in World : /\ peers[w] # NoPeer /\ peers[w].session = p.exch[1]
                             /\ peers[w].head = p.parent /\ turns'[t].alias = p.exch
      BY <2>2, <3>1, WorksAtPeer DEF AheadInv
    <3>3. p.type = "user_message" /\ p.exch[1] = session
      BY <3>1, <3>2 DEF DaemonWorks
    <3>4. issued[session] = w /\ issued[session] = storage.world
      BY <3>2, <3>3, TogetherFacts DEF SysInv, DaemonInv, PeersInv, PeersHoldTheirSession
    <3>5. Ahead(peers[w].head, storage.head, w)
      BY <3>4 DEF InStep, AheadInv
    <3>6. QED
      BY <3>2, <3>3, <3>4, <3>5 DEF Ahead
  <2>3. QED
    BY <2>1, <2>2
<1>5. InStep'
  BY <1>3, <1>4, InStepStays DEF RequestsStay, AheadInv, gvars
<1>6. Awaiting'
  <2>1. ASSUME NEW q \in downlink', q.type = "hello_ack", q.seq = storage.pending, storage.pending # 0
        PROVE  JoinsInStep(q.session)'
    <3>1. q \in downlink
      BY <1>1, <2>1, RepliedAcks DEF SysInv
    <3>2. QED
      BY <1>3, <2>1, <3>1, JoinsStay DEF AheadInv
  <2>2. QED
    BY <1>2, <2>1, AwaitingStays DEF AheadInv
<1>7. Greeted'
  BY <1>1, GreetedStays DEF AheadInv
<1>8. QED
  BY <1>5, <1>6, <1>7 DEF AheadInv

(* The daemon's half of a step.                                             *)
LEMMA OwnAhead ==
    ASSUME Undisturbed, SysInv, SysInv', HellosInv, AheadInv,
           DaemonLives \/ DaemonBeats \/ \E t \in TurnId : DaemonAnswers(t) \/ DaemonReports(t) \/ DaemonStreams(t)
    PROVE  AheadInv'
<1>1. DaemonWork /\ RowsStand /\ UNCHANGED <<gvars, uplink>> /\ Replies(0)
  BY OwnOther, OwnSteps, OthersStand DEF DaemonSide, SysInv
<1>2. HistoryKept /\ IssuedStay
  BY <1>1, WorkKeeps DEF SysInv
<1>3. CASE \E t \in TurnId, x \in Text : Commit(t, x)
  BY <1>1, <1>2, <1>3, CommitAhead
<1>4. CASE ~\E t \in TurnId, x \in Text : Commit(t, x)
  <2>1. Upkeep
    BY <1>4 DEF DaemonLives, DaemonBeats, DaemonAnswers, DaemonReports, DaemonStreams, OnItsOwn, Upkeep
  <2>2. TreeOf' = TreeOf
    BY <1>1, <1>4, WorkIsNext, OnlyCommitsFinish DEF SysInv, Quietly
  <2>3. QED
    BY <1>1, <1>2, <2>1, <2>2, UpkeepAhead
<1>5. QED
  BY <1>3, <1>4

LEMMA TakenAhead ==
    ASSUME Undisturbed, SysInv, SysInv', HellosInv, AheadInv, NEW p \in uplink, DaemonTakes(p)
    PROVE  AheadInv'
<1>1. PICK a \in Addr : DaemonGreets(a, p) \/ DaemonPings(a, p) \/ DaemonWorks(a, p)
  BY DEF DaemonTakes
<1>2. DaemonWork /\ UNCHANGED gvars /\ uplink' \subseteq uplink
  BY TakenSteps DEF DaemonSide
<1>3. HistoryKept /\ IssuedStay
  BY <1>2, WorkKeeps DEF SysInv
<1>4. CASE DaemonGreets(a, p)
  <2>1. RowsStand
    BY <1>4, TakenOther, OthersStand DEF SysInv
  <2>2. Hello
    <3>1. Up(p)
      BY GameFacts
    <3>2. WorldFor(p) \subseteq World /\ p.head \in TurnId \cup {Root}
      BY <1>4, <3>1 DEF DaemonGreets, Up, WorldFor, Unnamed
    <3>3. QED
      BY <1>4, <3>2 DEF DaemonGreets, Hello
  <2>3. TreeOf' = TreeOf
    BY <2>2, HelloQuietly DEF Quietly, SysInv
  <2>4. QED
    BY <1>2, <1>3, <1>4, <2>1, <2>3, GreetsAhead
<1>5. CASE DaemonPings(a, p)
  <2>1. TreeOf' = TreeOf
    BY <1>5, HeadsStandQuietly DEF DaemonPings, Heartbeat, Quietly
  <2>2. QED
    BY <1>2, <1>3, <1>5, <2>1, WorksAhead
<1>6. CASE DaemonWorks(a, p)
  <2>1. PICK m : m = [exch |-> p.exch, parent |-> p.parent, body |-> p.body]
    OBVIOUS
  <2>2. m \in Message /\ UserMessageFrom(a, m)
    <3>1. Up(p)
      BY GameFacts
    <3>2. /\ p.exch \in ClientId /\ issued[p.exch[1]] # NoWorld /\ p.body \in Body
          /\ p.parent \in Completed(issued[p.exch[1]]) \cup {Root}
      BY <1>6, <3>1 DEF DaemonWorks, Up
    <3>3. p.parent \in TurnId \cup {Root}
      BY <3>2 DEF Completed, InWorld, Rows
    <3>4. QED
      BY <1>6, <2>1, <3>2, <3>3 DEF DaemonWorks, Message, WorldOf
  <2>3. TreeOf' = TreeOf
    BY <2>2, UserMessageQuietly DEF UserMessage, Quietly, SysInv
  <2>4. QED
    BY <1>2, <1>3, <1>6, <2>3, WorksAhead
<1>7. QED
  BY <1>1, <1>4, <1>5, <1>6

(* The game's half: the daemon stands still.                                *)
LEMMA GreetedStands ==
    ASSUME Greeted, UNCHANGED dvars, \A p \in uplink' : p \in uplink \/ (p.type = "hello" => Kept(p))
    PROVE  Greeted'
<1>1. Minted' = Minted /\ \A a \in Addr : PeerAt(a)' = PeerAt(a)
  BY NothingMoves DEF Minted, PeerAt
<1>2. \A p : Kept(p)' <=> Kept(p)
  BY NothingMoves DEF Kept
<1>3. QED
  BY <1>1, <1>2, NothingMoves DEF Greeted

LEMMA AskedOverGrows ==
    ASSUME UNCHANGED dvars, NEW S, NEW T, S \subseteq T, AskedOver(S),
           \A p \in uplink' : p \in uplink \/ (p.type = "user_message" => p.exch[1] \in T)
    PROVE  AskedOver(T)'
BY NothingMoves DEF AskedOver

LEMMA StandsAhead ==
    ASSUME HellosInv, AheadInv, UNCHANGED <<dvars, minted>>,
           \A p \in uplink' : p \in uplink \/ p.type = "heartbeat", downlink' \subseteq downlink,
           storage'.head = storage.head, storage'.pending \in {storage.pending, 0},
           Together' => session' = session /\ storage'.world = storage.world
    PROVE  AheadInv'
<1>1. Greeted'
  BY GreetedStands DEF AheadInv
<1>2. Awaiting'
  <2>1. Minted' = Minted /\ minted \subseteq Minted
    BY NothingMoves DEF Minted, HellosInv
  <2>2. PICK S : S = IF storage.pending # 0 THEN minted ELSE Minted
    OBVIOUS
  <2>3. PICK T : T = IF storage'.pending # 0 THEN minted ELSE Minted
    OBVIOUS
  <2>4. AskedOver(T)'
    BY <2>1, <2>2, <2>3, AskedOverGrows DEF AheadInv, Awaiting
  <2>5. \A s : JoinsInStep(s)' <=> JoinsInStep(s)
    BY NothingMoves DEF JoinsInStep
  <2>6. QED
    BY <2>1, <2>3, <2>4, <2>5 DEF AheadInv, Awaiting
<1>3. InStep'
  <2> SUFFICES ASSUME Together' PROVE Ahead(peers[storage.world].head, storage.head, storage.world)'
    BY DEF InStep
  <2>1. PICK w, h, r : w = storage.world /\ h = peers[w].head /\ r = storage.head
    OBVIOUS
  <2>2. Together
    BY NothingMoves DEF Together
  <2>3. Ahead(h, r, w)
    BY <2>1, <2>2 DEF AheadInv, InStep
  <2>4. Ahead(h, r, w)'
    BY <2>3, NothingMoves DEF Ahead
  <2>5. QED
    BY <2>1, <2>4, NothingMoves
<1>4. QED
  BY <1>1, <1>2, <1>3 DEF AheadInv

(* Without a session the game is connected to no peer.                      *)
LEMMA Disconnected ==
    ASSUME SysInv, UNCHANGED dvars, session' = NoSession, storage'.world = storage.world
    PROVE  ~Together'
<1> SUFFICES ASSUME Together' PROVE FALSE
  OBVIOUS
<1>1. PICK w \in World : w = storage.world /\ peers[w] # NoPeer /\ peers[w].session = NoSession
  BY GameFacts, NothingMoves DEF Together
<1>2. peers[w] \in Peer
  BY <1>1 DEF SysInv, DaemonInv, DaemonTypeOK
<1>3. QED
  BY <1>1, <1>2, DaemonAssumption DEF Peer

(* A new hello: nothing has been asked over the session it will be given.   *)
LEMMA SignalsAhead ==
    ASSUME Undisturbed, SysInv, HellosInv, AheadInv, GameTicks \/ GameJoins
    PROVE  AheadInv'
<1>1. /\ GameP!Becomes(storage, storage')
      /\ \/ GameP!Greets
         \/ GameP!Beats
         \/ /\ storage'.control = storage.control /\ storage'.pending = storage.pending
            /\ session' = session
  BY SameEvents, GameAssumed, GameP!CheckMoves DEF GameTicks, GameJoins, Signalling, SysInv
<1>2. /\ storage'.control >= storage.control
      /\ UNCHANGED <<dvars, downlink>>
      /\ minted' = IF HelloSent THEN Minted ELSE minted
      /\ uplink' = uplink \cup {p \in {HelloOf(storage')} : HelloSent}
                          \cup {p \in {HeartbeatOf(session)} : HeartbeatSent}
  BY DEF GameTicks, GameJoins, Signalling, Undisturbed
<1>3. storage'.head = storage.head /\ storage'.world = storage.world
  BY <1>1 DEF GameP!Becomes
<1>4. CASE ~GameP!Greets
  <2>1. ~HelloSent /\ session' = session /\ storage'.pending = storage.pending
    BY <1>1, <1>4 DEF HelloSent, GameP!Beats
  <2>2. \A p \in uplink' : p \in uplink \/ p.type = "heartbeat"
    BY <1>2, <2>1 DEF HeartbeatOf
  <2>3. QED
    BY <1>2, <1>3, <2>1, <2>2, StandsAhead
<1>5. CASE GameP!Greets
  <2>1. PICK c : c = storage'.control
    OBVIOUS
  <2>2. c = (storage.control % MaxControl) + 1 /\ storage'.pending = c
        /\ session' = NoSession /\ storage'.status = "connecting"
    BY <1>5, <2>1 DEF GameP!Greets, GameP!NextControl, Undisturbed
  <2>3. storage.control \in 0..MaxControl /\ storage.control \in Nat
    BY SystemAssumption, GameAssumed DEF HellosInv, GameP!ModAssumption
  <2>4. c \in 1..MaxControl /\ storage.control < c
    BY <1>2, <2>1, <2>2, <2>3, ControlGrows
  <2>5. c # 0 /\ \A n \in 0..storage.control : n # c
    BY <2>3, <2>4, SystemAssumption, GameAssumed DEF GameP!ModAssumption
  <2>6. HelloSent
    BY <2>1, <2>2, <2>3, <2>5 DEF HelloSent
  <2>7. PICK q : q = HelloOf(storage')
    OBVIOUS
  <2>8. q.type = "hello" /\ q.head = storage.head /\ Kept(q)
    BY <1>3, <2>7, GameFacts DEF HelloOf, Kept
  <2>9. minted' = Minted /\ \A p \in uplink' : p \in uplink \/ p = q
    BY <1>2, <2>2, <2>6, <2>7 DEF HeartbeatSent
  <2>10. Greeted'
    BY <1>2, <2>8, <2>9, GreetedStands DEF AheadInv
  <2>11. Awaiting'
    <3>1. PICK S : S = IF storage.pending # 0 THEN minted ELSE Minted
      OBVIOUS
    <3>2. PICK T : T = Minted
      OBVIOUS
    <3>3. S \subseteq T /\ AskedOver(S)
      BY <3>1, <3>2 DEF HellosInv, AheadInv, Awaiting
    <3>4. AskedOver(T)'
      BY <1>2, <2>8, <2>9, <3>3, AskedOverGrows
    <3>5. \A p \in uplink' : p.type = "hello" /\ p.seq = c => p.head = storage.head
      BY <2>5, <2>8, <2>9 DEF HellosInv
    <3>6. \A p \in downlink' : p.type = "hello_ack" => p.seq # c
      BY <1>2, <2>5 DEF HellosInv
    <3>7. QED
      BY <1>3, <2>2, <2>5, <2>9, <3>2, <3>4, <3>5, <3>6 DEF Awaiting
  <2>12. InStep'
    BY <1>2, <1>3, <2>2, Disconnected DEF InStep
  <2>13. QED
    BY <2>10, <2>11, <2>12 DEF AheadInv
<1>6. QED
  BY <1>4, <1>5

(* A new question is asked where the game stands, over the session in use.  *)
LEMMA AsksAhead ==
    ASSUME SysInv, HellosInv, AheadInv, GameAsks
    PROVE  AheadInv'
<1>1. /\ storage'.head = storage.head /\ storage'.world = storage.world
      /\ storage'.pending = storage.pending
      /\ storage'.active = NoExchange \/ GameP!AsksAnew
  BY SameEvents, GameAssumed, GameP!InputMoves DEF GameAsks, SysInv
<1>2. UNCHANGED <<dvars, minted, downlink, session>>
  BY DEF GameAsks, Game!UserInput
<1>3. CASE storage'.active = NoExchange
  <2>1. uplink' = uplink
    BY <1>3 DEF GameAsks
  <2>2. QED
    BY <1>1, <1>2, <2>1, StandsAhead
<1>4. CASE storage'.active # NoExchange
  <2>1. session \in Session /\ storage'.active.exch[1] = session /\ storage'.active.parent = storage.head
    BY <1>1, <1>4 DEF GameP!AsksAnew
  <2>2. PICK q : /\ uplink' = uplink \cup {q}
                 /\ q.type = "user_message" /\ q.exch[1] = session /\ q.parent = storage.head
    <3>1. PICK x, b : x = storage'.active /\ uplink' = uplink \cup {QuestionOf(x, b)}
      BY <1>4 DEF GameAsks
    <3>2. PICK k : k = QuestionOf(x, b)
      OBVIOUS
    <3>3. k.type = "user_message" /\ k.exch = x.exch /\ k.parent = x.parent
      BY <3>2 DEF QuestionOf
    <3>4. QED
      BY <2>1, <3>1, <3>2, <3>3
  <2>3. session \in Minted /\ storage.pending = 0
    BY <2>1, DaemonAssumption DEF SysInv, Sessions, Minted, GameP!ModInv, GameP!Connected
  <2>4. Greeted'
    BY <1>2, <2>2, GreetedStands DEF AheadInv
  <2>5. Awaiting'
    <3>1. PICK T : T = Minted
      OBVIOUS
    <3>2. AskedOver(T)'
      BY <1>2, <2>2, <2>3, <3>1, AskedOverGrows DEF AheadInv, Awaiting
    <3>3. Minted' = Minted
      BY <1>2, NothingMoves DEF Minted
    <3>4. QED
      BY <1>1, <2>3, <3>1, <3>2, <3>3 DEF Awaiting
  <2>6. InStep'
    <3> SUFFICES ASSUME Together' PROVE Ahead(peers[storage.world].head, storage.head, storage.world)'
      BY DEF InStep
    <3>1. PICK w, h, r : w = storage.world /\ h = peers[w].head /\ r = storage.head
      OBVIOUS
    <3>2. Together
      BY <1>1, <1>2, NothingMoves DEF Together
    <3>3. Ahead(h, r, w)
      BY <3>1, <3>2 DEF AheadInv, InStep
    <3>4. Ahead(h, r, w)'
      BY <1>2, <2>2, <3>1, <3>3, NothingMoves DEF Ahead
    <3>5. QED
      BY <1>1, <1>2, <3>1, <3>4, NothingMoves
  <2>7. QED
    BY <2>4, <2>5, <2>6 DEF AheadInv
<1>5. QED
  BY <1>3, <1>4

(* The awaited acknowledgement: the peer stands where the game does, and    *)
(* nothing has been asked over the session yet.                             *)
LEMMA AckAhead ==
    ASSUME SysInv, HellosInv, AheadInv, NEW p \in downlink, GameTakes(p),
           p.type = "hello_ack", GameP!HelloAck(p.seq, p.session, p.epoch)
    PROVE  AheadInv'
<1>1. PICK s : s = p.session
  OBVIOUS
<1>2. /\ GameP!Steady /\ storage'.world = Home[s] /\ storage'.pending = 0 /\ session' = s
      /\ \/ storage.pending = p.seq /\ storage.pending # 0
         \/ storage.pending = 0 /\ storage.world = Home[s] /\ session = s
  <2>1. p.session \in Session /\ p.epoch \in GameP!Epoch
    BY GameFacts DEF Down, GameP!Epoch
  <2>2. QED
    BY <1>1, <2>1, GameAssumed, GameP!AckMoves DEF SysInv
<1>3. UNCHANGED <<dvars, minted, uplink>> /\ downlink' \subseteq downlink
  BY DEF GameTakes, Taken
<1>4. storage'.head = storage.head
  BY <1>2 DEF GameP!Steady
<1>5. CASE storage.pending = 0
  BY <1>2, <1>3, <1>4, <1>5, StandsAhead
<1>6. CASE storage.pending = p.seq /\ storage.pending # 0
  <2>1. s \notin minted /\ JoinsInStep(s)
    BY <1>1, <1>6 DEF HellosInv, AheadInv, Awaiting
  <2>2. AskedOver(minted)
    BY <1>6 DEF AheadInv, Awaiting
  <2>3. Greeted'
    BY <1>3, GreetedStands DEF AheadInv
  <2>4. Awaiting'
    <3>1. PICK S, T : S = minted /\ T = Minted
      OBVIOUS
    <3>2. AskedOver(T)'
      BY <1>3, <2>2, <3>1, AskedOverGrows DEF HellosInv
    <3>3. Minted' = Minted
      BY <1>3, NothingMoves DEF Minted
    <3>4. QED
      BY <1>2, <3>1, <3>2, <3>3 DEF Awaiting
  <2>5. InStep'
    <3> SUFFICES ASSUME Together' PROVE Ahead(peers[storage.world].head, storage.head, storage.world)'
      BY DEF InStep
    <3>1. PICK w, r : w = storage'.world /\ r = storage'.head
      OBVIOUS
    <3>2. peers[w].head = r
      BY <1>2, <1>3, <1>4, <2>1, <3>1, NothingMoves DEF Together, JoinsInStep
    <3>3. \A t \in Completed(w) : turns[t].alias[1] # s
      BY <2>1, <2>2 DEF AskedOver, Completed, InWorld, Rows
    <3>4. Ahead(r, r, w)'
      BY <1>2, <1>3, <3>3, NothingMoves DEF Ahead
    <3>5. QED
      BY <1>3, <3>1, <3>2, <3>4, NothingMoves
  <2>6. QED
    BY <2>3, <2>4, <2>5 DEF AheadInv
<1>7. QED
  BY <1>2, <1>5, <1>6

(* The answer the game takes is the one turn the daemon is ahead by.        *)
LEMMA EndAhead ==
    ASSUME SysInv, NamesInv, HellosInv, AheadInv, NEW p \in downlink, GameTakes(p), Ended(p)
    PROVE  AheadInv'
<1>1. PICK t, e, w : t = p.turn /\ e = p.exch /\ w = storage.world
  OBVIOUS
<1>2. /\ storage'.head = t /\ storage'.world = w /\ storage'.pending = storage.pending
      /\ storage.active # NoExchange /\ storage.active.exch = e /\ w = Home[e[1]]
  BY <1>1, GameAssumed, GameP!EndMoves DEF Ended, SysInv
<1>3. /\ UNCHANGED <<dvars, minted, uplink, session>> /\ downlink' \subseteq downlink /\ bootstrapped
  BY DEF GameTakes, Taken, Ended
<1>4. session = e[1] /\ storage.head = storage.active.parent /\ storage.pending = 0
  BY <1>2, <1>3 DEF SysInv, GameP!ModInv, GameP!ExchangeIsCurrent
<1>5. t \in Completed(w) /\ turns[t].alias = e /\ turns[t].parent = storage.head
  <2>1. t \in Completed(w) /\ turns[t].alias = e
    BY <1>1, <1>2, GameFacts DEF Ended, Down, Answers, SysInv, Sessions
  <2>2. turns[t] # NoRow /\ t \in TurnId
    BY <2>1 DEF Completed, InWorld, Rows
  <2>3. turns[t].parent = storage.active.parent
    BY <1>2, <2>1, <2>2 DEF NamesInv, Given
  <2>4. QED
    BY <1>4, <2>1, <2>3
<1>6. Greeted'
  BY <1>3, GreetedStands DEF AheadInv
<1>7. Awaiting'
  <2>1. PICK T : T = Minted
    OBVIOUS
  <2>2. AskedOver(T)'
    BY <1>3, <1>4, <2>1, AskedOverGrows DEF AheadInv, Awaiting
  <2>3. Minted' = Minted
    BY <1>3, NothingMoves DEF Minted
  <2>4. QED
    BY <1>2, <1>4, <2>1, <2>2, <2>3 DEF Awaiting
<1>8. InStep'
  <2> SUFFICES ASSUME Together' PROVE Ahead(peers[storage.world].head, storage.head, storage.world)'
    BY DEF InStep
  <2>1. PICK h : h = peers[w].head
    OBVIOUS
  <2>2. Together
    BY <1>1, <1>2, <1>3, NothingMoves DEF Together
  <2>3. Ahead(h, storage.head, w)
    BY <1>1, <2>1, <2>2 DEF AheadInv, InStep
  <2>4. h = t /\ \A u \in Completed(w) : turns[u].alias[1] = session => turns[u].parent # t
    BY <1>4, <1>5, <2>3 DEF Ahead
  <2>5. Ahead(t, t, w)'
    BY <1>3, <2>4, NothingMoves DEF Ahead
  <2>6. QED
    BY <1>2, <1>3, <2>1, <2>4, <2>5, NothingMoves
<1>9. QED
  BY <1>6, <1>7, <1>8 DEF AheadInv

LEMMA TakesAhead ==
    ASSUME SysInv, NamesInv, HellosInv, AheadInv, NEW p \in downlink, GameTakes(p)
    PROVE  AheadInv'
<1>1. CASE Ended(p)
  BY <1>1, EndAhead
<1>2. CASE p.type = "hello_ack" /\ GameP!HelloAck(p.seq, p.session, p.epoch)
  BY <1>2, AckAhead
<1>3. CASE ~Ended(p) /\ ~(p.type = "hello_ack" /\ GameP!HelloAck(p.seq, p.session, p.epoch))
  <2>1. /\ storage'.head = storage.head /\ storage'.pending \in {storage.pending, 0}
        /\ storage'.world = storage.world /\ session' \in {session, NoSession}
    BY <1>3, TakenMoves DEF GameP!Steady
  <2>2. UNCHANGED <<dvars, minted, uplink>> /\ downlink' \subseteq downlink
    BY DEF GameTakes, Taken
  <2>3. Together' => session' = session
    BY <2>1, <2>2, Disconnected
  <2>4. QED
    BY <2>1, <2>2, <2>3, StandsAhead
<1>4. QED
  BY <1>1, <1>2, <1>3

LEMMA AheadStepKeeps ==
    ASSUME Undisturbed, SysInv, SysInv', NamesInv, HellosInv, AheadInv, [SystemNext]_sysvars
    PROVE  AheadInv'
<1>1. CASE UNCHANGED sysvars
  <2>1. UNCHANGED <<dvars, minted, uplink, downlink, storage, session>>
    BY <1>1 DEF sysvars, gvars
  <2>2. QED
    BY <2>1, StandsAhead
<1>2. CASE GameReloads
  BY <1>2, NoReloads DEF NamesInv, Undisturbed
<1>3. CASE GameBoots
  <2>1. storage'.head = storage.head /\ storage'.world = storage.world /\ storage'.pending = 0 /\ session' = NoSession
    BY <1>3, SameEvents, GameAssumed, GameP!BootMoves DEF GameBoots, SysInv, GameP!Becomes
  <2>2. UNCHANGED <<dvars, minted, uplink, downlink>>
    BY <1>3 DEF GameBoots, Silently
  <2>3. QED
    BY <2>1, <2>2, Disconnected, StandsAhead
<1>4. QED
  BY <1>1, <1>2, <1>3, SignalsAhead, AsksAhead, TakesAhead, OwnAhead, TakenAhead DEF SystemNext, Undisturbed

LEMMA AheadInvariant ==
    ASSUME Undisturbed
    PROVE  SystemSpec => [](SysInv /\ NamesInv /\ HellosInv /\ AheadInv)
<1>1. MaxLoads = 0 /\ MayRepeat
  BY DEF Undisturbed
<1>2. SystemInit => SysInv /\ AheadInv
  <2> SUFFICES ASSUME SystemInit PROVE AheadInv
    BY SystemInitInv
  <2>1. /\ uplink = {} /\ downlink = {} /\ epoch = 0 /\ peers = NoPeers /\ active = {}
        /\ \A t \in TurnId : turns[t] = NoRow
        /\ \A s \in Session : issued[s] = NoWorld
    BY DEF SystemInit, DaemonInit, StoreInit
  <2>2. Minted = {}
    BY <2>1 DEF Minted
  <2>3. ~Together
    BY <2>1, SystemInitInv, GameFacts DEF Together, NoPeers
  <2>4. QED
    BY <2>1, <2>2, <2>3 DEF AheadInv, Greeted, Awaiting, AskedOver, InStep
<1>3. SysInv /\ NamesInv /\ HellosInv /\ AheadInv /\ [SystemNext]_sysvars => AheadInv'
  BY SystemStepKeeps, AheadStepKeeps
<1>4. QED
  BY <1>1, <1>2, <1>3, NamesInvariant, HellosInvariant, PTL DEF SystemSpec

(* Whatever overtakes what, and however often it comes: the daemon is never *)
(* ahead of a connected game by more than the answer to its last question,  *)
(* so that a game that has taken it can ask again (daemon.py:922, 1213-1236)*)
THEOREM DaemonStaysOneAhead ==
    ASSUME Undisturbed
    PROVE  SystemSpec => []DaemonIsOneAhead
<1>1. SysInv /\ AheadInv => DaemonIsOneAhead
  BY DEF AheadInv, InStep, Ahead, DaemonIsOneAhead, Completed, InWorld, Rows
<1>2. QED
  BY <1>1, AheadInvariant, PTL
=============================================================================
