------------------------ MODULE CompanionSystemProofs ------------------------
(***************************************************************************)
(* Theorems about a game, the daemon and the datagrams between them, for    *)
(* any number of worlds, ports, sessions, turns, processes and loads, with  *)
(* or without loss and repetition.  The daemon's half of the invariant is   *)
(* CompanionReplayProofs', the game's half CompanionModProofs'; what is new *)
(* is what they say about each other through the datagrams in flight.       *)
(***************************************************************************)
EXTENDS CompanionSystem, CompanionReplayProofs

GameP == INSTANCE CompanionModProofs WITH MaxEpoch <- MaxStarts

(* The game of the model is an instance of CompanionMod, the game the       *)
(* lemmas are about one of CompanionModProofs; they are the same game:      *)
(* first its helpers, then its events, then what it does with packets.      *)
LEMMA SameHelpers ==
    /\ Game!SendResults = GameP!SendResults
    /\ Game!TooLong = GameP!TooLong
    /\ Game!FreshStorage = GameP!FreshStorage
    /\ \A s : /\ Game!AbortExchange(s) = GameP!AbortExchange(s)
              /\ Game!MarkOffline(s) = GameP!MarkOffline(s)
              /\ Game!Heard(s) = GameP!Heard(s)
              /\ Game!Failing(s) = GameP!Failing(s)
              /\ Game!NextControl(s) = GameP!NextControl(s)
              /\ \A ok : Game!SendHeartbeat(s, ok) = GameP!SendHeartbeat(s, ok)
              /\ \A ok, age : Game!SendHello(s, ok, age) = GameP!SendHello(s, ok, age)
              /\ \A ep : Game!Renewed(s, ep) = GameP!Renewed(s, ep)
    /\ \A l, e : Game!Pushed(l, e) = GameP!Pushed(l, e)
    /\ \A x : Game!Asked(x) = GameP!Asked(x) /\ Game!Answered(x) = GameP!Answered(x)
    /\ \A e, n, ep : Game!Accepts(e, n, ep) <=> GameP!Accepts(e, n, ep)
BY DEF Game!SendResults, GameP!SendResults, Game!TooLong, GameP!TooLong, Game!AbortExchange, GameP!AbortExchange,
   Game!MarkOffline, GameP!MarkOffline, Game!Heard, GameP!Heard, Game!Failing, GameP!Failing,
   Game!NextControl, GameP!NextControl, Game!SendHeartbeat, GameP!SendHeartbeat, Game!SendHello, GameP!SendHello,
   Game!Renewed, GameP!Renewed, Game!Pushed, GameP!Pushed, Game!Asked, GameP!Asked, Game!Answered, GameP!Answered,
   Game!Accepts, GameP!Accepts, Game!Matches, GameP!Matches, Game!FreshStorage, GameP!FreshStorage

LEMMA SameEvents ==
    /\ Game!ModInit <=> GameP!ModInit
    /\ Game!Boot <=> GameP!Boot
    /\ Game!Check <=> GameP!Check
    /\ Game!Join <=> GameP!Join
    /\ Game!Save <=> GameP!Save
    /\ Game!Load <=> GameP!Load
    /\ Game!UserInput <=> GameP!UserInput
<1>1. Game!ModInit <=> GameP!ModInit
  BY SameHelpers DEF Game!ModInit, GameP!ModInit
<1>2. Game!Boot <=> GameP!Boot
  BY SameHelpers DEF Game!Boot, GameP!Boot
<1>3. Game!Check <=> GameP!Check
  BY DEF Game!Check, GameP!Check, Game!Watched, GameP!Watched, Game!Aged, GameP!Aged, Game!HelloDue,
   GameP!HelloDue, Game!SendHello, GameP!SendHello, Game!SendHeartbeat, GameP!SendHeartbeat,
   Game!MarkOffline, GameP!MarkOffline, Game!AbortExchange, GameP!AbortExchange, Game!TooLong, GameP!TooLong,
   Game!NextControl, GameP!NextControl, Game!Count, GameP!Count, Game!SendResults, GameP!SendResults
<1>4. Game!Join <=> GameP!Join
  BY SameHelpers DEF Game!Join, GameP!Join
<1>5. Game!Save <=> GameP!Save
  BY SameHelpers DEF Game!Save, GameP!Save
<1>6. Game!Load <=> GameP!Load
  BY DEF Game!Load, GameP!Load
<1>7. Game!UserInput <=> GameP!UserInput
  BY SameHelpers DEF Game!UserInput, GameP!UserInput, Game!RefusedUnbound, GameP!RefusedUnbound,
     Game!RefusedSilent, GameP!RefusedSilent, Game!ContextFails, GameP!ContextFails, Game!Unsendable,
     GameP!Unsendable, Game!SendFails, GameP!SendFails, Game!Asks, GameP!Asks, Game!Named, GameP!Named,
     Game!Idle, GameP!Idle, Game!Bound, GameP!Bound
<1>8. QED
  BY <1>1, <1>2, <1>3, <1>4, <1>5, <1>6, <1>7

LEMMA SamePackets ==
    /\ \A h, s, ep : Game!HelloAck(h, s, ep) <=> GameP!HelloAck(h, s, ep)
    /\ \A s, ep : Game!HeartbeatArrives(s, ep) <=> GameP!HeartbeatArrives(s, ep)
    /\ \A e, ep : Game!AssistantStart(e, ep) <=> GameP!AssistantStart(e, ep)
    /\ \A e, n, ep : Game!AssistantDelta(e, n, ep) <=> GameP!AssistantDelta(e, n, ep)
    /\ \A e, n, t, ep : Game!AssistantEnd(e, n, t, ep) <=> GameP!AssistantEnd(e, n, t, ep)
    /\ \A e, n, ep : Game!ExchangeError(e, n, ep) <=> GameP!ExchangeError(e, n, ep)
    /\ \A w : Game!ConnectionError(w) <=> GameP!ConnectionError(w)
BY SameHelpers DEF Game!HelloAck, GameP!HelloAck, Game!Expected, GameP!Expected, Game!HeartbeatArrives, GameP!HeartbeatArrives,
   Game!AssistantStart, GameP!AssistantStart, Game!AssistantDelta, GameP!AssistantDelta,
   Game!AssistantEnd, GameP!AssistantEnd, Game!ExchangeError, GameP!ExchangeError, Game!ConnectionError, GameP!ConnectionError

(* What CompanionMod assumes of its constants, the system does.             *)
LEMMA GameAssumed == GameP!ModAssumption /\ GameP!NoExchangeAssumption
BY SystemAssumption DEF Game!ModAssumption, Game!NoExchangeAssumption, GameP!ModAssumption, GameP!NoExchangeAssumption,
   Game!Active, GameP!Active, Game!Exch, GameP!Exch, Game!Turn, GameP!Turn

-----------------------------------------------------------------------------
(* A step the daemon takes in the system: every step of its own, with       *)
(* heartbeats from connected games only.                                    *)
DaemonWork ==
    \/ StartUp \/ Crash \/ Stop \/ ServiceHeartbeats \/ Hello \/ UserMessage
    \/ \E a \in Addr, s \in Session : issued[s] # NoWorld /\ Heartbeat(a, s)
    \/ \E t \in TurnId : Worker(t)

LEMMA WorkIsNext == DaemonWork => DaemonNext
BY DEF DaemonWork, DaemonNext

(* The packets of one step.                                                 *)
AckSent(p) == \E s \in Session : \E w, h : p = Ack(w, h, s) /\ issued'[s] # NoWorld
BeatSent(p) == \E s \in Session : \E w, st : p = Beat(w, s, st)
ErrorSent(p) == \E w, e, c, n : p = Failure(w, e, c, n)
StreamSent(p) == \E e : p = Start(e) \/ \E n \in Nat : p = Delta(e, n)
EndSent(p) == \E w, e, t, x, n : p = End(w, e, t, x, n)

LEMMA BindingAcks ==
    ASSUME NEW a \in Addr, NEW m \in Message, NEW b \in Bindings(a, m)
    PROVE  \A p \in b.out : \E w, h : p = Ack(w, h, m.exch[1])
<1>1. ASSUME NEW v,
             b = [peers |-> peers, addrs |-> addrWorld, heads |-> head, at |-> v,
                  parent |-> m.parent, out |-> {}]
      PROVE  b.out = {}
  BY <1>1
<1>2. ASSUME NEW w, NEW r, NEW ps, NEW as, NEW hs,
             b = [peers |-> ps, addrs |-> as, heads |-> hs, at |-> w,
                  parent |-> r, out |-> {Ack(w, r, m.exch[1])}]
      PROVE  b.out = {Ack(w, r, m.exch[1])}
  BY <1>2
<1>3. QED
  BY <1>1, <1>2 DEF Bindings

LEMMA DaemonSends ==
    ASSUME DaemonInv, DaemonWork, NEW p \in sent'
    PROVE  up /\ (AckSent(p) \/ BeatSent(p) \/ ErrorSent(p) \/ StreamSent(p) \/ EndSent(p))
<1>1. CASE StartUp \/ Crash \/ Stop
  BY <1>1 DEF StartUp, Crash, Stop, Exit
<1>2. CASE ServiceHeartbeats
  <2>1. PICK w \in World : peers[w] # NoPeer /\ p = Beat(w, peers[w].session, StateOf(w))
    BY <1>2 DEF ServiceHeartbeats
  <2>2. peers[w].session \in Session
    BY <2>1 DEF DaemonInv, DaemonTypeOK, Peer
  <2>3. QED
    BY <1>2, <2>1, <2>2 DEF ServiceHeartbeats, BeatSent
<1>3. ASSUME NEW a \in Addr, NEW s \in Session, Heartbeat(a, s)
      PROVE  up /\ BeatSent(p)
  <2>1. \E w : p = Beat(w, s, "ready") \/ p = Beat(w, s, StateOf(w))
    BY <1>3 DEF Heartbeat
  <2>2. QED
    BY <1>3, <2>1 DEF Heartbeat, BeatSent
<1>4. CASE Hello
  <2>1. PICK a \in Addr, h \in TurnId \cup {Root} :
          \/ HelloUnbound(a, h)
          \/ \E w \in World : HelloFails(a, w, h) \/ \E s \in Session : HelloAccepted(a, w, h, s)
    BY <1>4 DEF Hello
  <2>2. CASE HelloUnbound(a, h) \/ \E w \in World : HelloFails(a, w, h)
    BY <2>2 DEF HelloUnbound, HelloFails, Invalidated, ErrorSent
  <2>3. ASSUME NEW w \in World, NEW s \in Session, HelloAccepted(a, w, h, s)
        PROVE  up /\ AckSent(p)
    <3>1. PICK r : p = Ack(w, r, s)
      BY <2>3 DEF HelloAccepted
    <3>2. issued'[s] = w /\ up
      BY <2>3 DEF HelloAccepted, Invalidated, DaemonInv, DaemonTypeOK
    <3>3. QED
      BY <3>1, <3>2, DaemonAssumption DEF AckSent
  <2>4. QED
    BY <2>1, <2>2, <2>3
<1>5. CASE UserMessage
  <2>1. PICK a \in Addr, m \in Message : UserMessageFrom(a, m)
    BY <1>5 DEF UserMessage
  <2>2. up
    BY <2>1 DEF UserMessageFrom
  <2>3. CASE StaleSession(a, m) \/ BootstrapFails(a, m)
    <3>1. \E c : p = Failure(WorldOf(m.exch), m.exch, c, 1)
      BY <2>3 DEF StaleSession, BootstrapFails
    <3>2. QED
      BY <2>2, <3>1 DEF ErrorSent
  <2>4. ASSUME NEW b \in Bindings(a, m), Rebound(b),
               NEW ps, Answer(b, ps), \A q \in ps : ErrorSent(q) \/ StreamSent(q) \/ EndSent(q)
        PROVE  AckSent(p) \/ ErrorSent(p) \/ StreamSent(p) \/ EndSent(p)
    <3>1. CASE p \in ps
      BY <2>4, <3>1
    <3>2. CASE p \in b.out
      <4>1. PICK w, h : p = Ack(w, h, m.exch[1])
        BY <3>2, BindingAcks
      <4>2. m.exch[1] \in Session /\ issued'[m.exch[1]] # NoWorld
        BY <2>4, MessageFacts, DaemonAssumption DEF Rebound, DaemonInv
      <4>3. QED
        BY <4>1, <4>2 DEF AckSent
    <3>3. QED
      BY <2>4, <3>1, <3>2 DEF Answer
  <2>5. ASSUME NEW b \in Bindings(a, m),
               \/ Replay(b, m) \/ Misused(b, m) \/ AlreadyRunning(b, m) \/ StaleHead(b, m) \/ Busy(b, m)
               \/ BeginFails(b, m) \/ StartFails(b, m) \/ Accept(a, b, m)
        PROVE  \E ps : Answer(b, ps) /\ \A q \in ps : ErrorSent(q) \/ StreamSent(q) \/ EndSent(q)
    <3>1. CASE \E c : Refuse(b, m, c)
      <4>1. PICK c : Answer(b, {Failure(WorldOf(m.exch), m.exch, c, 1)})
        BY <3>1 DEF Refuse
      <4>2. ErrorSent(Failure(WorldOf(m.exch), m.exch, c, 1))
        BY DEF ErrorSent
      <4>3. QED
        BY <4>1, <4>2
    <3>2. CASE Replay(b, m)
      <4>1. PICK t, x, n : Answer(b, {End(b.at, m.exch, t, x, n)})
        BY <3>2 DEF Replay
      <4>2. EndSent(End(b.at, m.exch, t, x, n))
        BY DEF EndSent
      <4>3. QED
        BY <4>1, <4>2
    <3>3. CASE Accept(a, b, m)
      <4> DEFINE e == Failure(WorldOf(m.exch), m.exch, "DAEMON_ERROR", 1)
      <4>1. PICK ps \in SUBSET {e} : Answer(b, {Start(m.exch)} \cup ps)
        BY <3>3 DEF Accept
      <4>2. StreamSent(Start(m.exch)) /\ ErrorSent(e)
        BY DEF StreamSent, ErrorSent
      <4>3. \A q \in {Start(m.exch)} \cup ps : ErrorSent(q) \/ StreamSent(q)
        <5> HIDE DEF e
        <5>1. QED
          BY <4>2
      <4>4. QED
        BY <4>1, <4>3
    <3>4. CASE Answer(b, {})
      BY <3>4
    <3>5. QED
      BY <2>5, <3>1, <3>2, <3>3, <3>4
         DEF Misused, AlreadyRunning, StaleHead, Busy, BeginFails, StartFails
  <2>6. QED
    BY <2>1, <2>2, <2>3, <2>4, <2>5 DEF UserMessageFrom
<1>6. ASSUME NEW t \in TurnId, Worker(t)
      PROVE  up /\ (ErrorSent(p) \/ StreamSent(p) \/ EndSent(p))
  <2>1. req[t] # NoRequest => req[t].seq \in Nat
    BY DEF DaemonInv, DaemonTypeOK, Request
  <2>2. QED
    BY <1>6, <2>1 DEF Worker, EmitDelta, ModelFails, FinishError, Drop, Commit, WorkerAt,
                      ErrorSent, StreamSent, EndSent
<1>7. QED
  BY <1>1, <1>2, <1>3, <1>4, <1>5, <1>6 DEF DaemonWork

-----------------------------------------------------------------------------
(* The invariant.  Where the save stands: nowhere, or at a finished turn of *)
(* its world.                                                               *)
Kept(s) == IF s.world = NoWorld THEN s.head = Root ELSE s.head \in Completed(s.world) \cup {Root}

(* The number the head was asked under is one the save has counted, and     *)
(* less than that of the question in progress.                              *)
Numbered(s) ==
    /\ s.head \in TurnId => turns[s.head].alias[2] \in Nat /\ turns[s.head].alias[2] <= s.minted
    /\ s.active # NoExchange =>
         /\ s.active.exch[2] <= s.minted
         /\ s.head \in TurnId => turns[s.head].alias[2] < s.active.exch[2]

(* Sessions are minted for the save's world, the game's by this daemon.     *)
Sessions == /\ \A s \in Session : issued[s] \in {NoWorld, Home[s]}
            /\ session # NoSession => issued[session] # NoWorld
            /\ epoch \in 0..MaxStarts
            /\ up => epoch # 0

Up(p) ==
    /\ p.type = "hello" => p.world \in World \cup {NoWorld} /\ p.head \in TurnId \cup {Root}
    /\ p.type = "heartbeat" => p.session \in Session /\ issued[p.session] # NoWorld
    /\ p.type = "user_message" =>
         /\ p.exch \in ClientId /\ issued[p.exch[1]] # NoWorld /\ p.body \in Body
         /\ p.parent \in Completed(issued[p.exch[1]]) \cup {Root}

Answers(t, e) == /\ e[1] \in Session /\ issued[e[1]] # NoWorld
                 /\ t \in Completed(issued[e[1]]) /\ turns[t].alias = e

Down(p) ==
    /\ p.type \in {"hello_ack", "heartbeat"} => p.session \in Session /\ p.epoch \in 1..MaxStarts
    /\ p.type = "hello_ack" => issued[p.session] # NoWorld
    /\ p.type = "assistant_delta" => p.seq \in Nat
    /\ p.type = "assistant_end" => Answers(p.turn, p.exch)

Links == (\A p \in uplink : Up(p)) /\ (\A p \in downlink : Down(p))

SysInv == /\ DaemonInv /\ CacheInv /\ GameP!ModInv /\ Sessions /\ Links
          /\ Kept(storage) /\ Kept(saved) /\ Numbered(storage) /\ Numbered(saved)

-----------------------------------------------------------------------------
(* What a step of the daemon leaves true of what is in flight.              *)
IssuedStay == \A s \in Session : issued[s] # NoWorld => issued'[s] = issued[s]

LEMMA WorkKeeps ==
    ASSUME DaemonInv, CacheInv, DaemonWork
    PROVE  DaemonInv' /\ CacheInv' /\ HistoryKept /\ IssuedStay
<1>1. DaemonInv' /\ CacheInv' /\ HistoryKept
  BY WorkIsNext, DaemonStepKeeps, CacheStepKeeps
<1>2. IssuedStay
  <2>1. CASE Exit
    BY <2>1 DEF Exit, IssuedStay
  <2>2. CASE ~Exit
    BY <2>2, WorkIsNext, RequestsStaySettled DEF Quiet, IssuedStay
  <2>3. QED
    BY <2>1, <2>2
<1>3. QED
  BY <1>1, <1>2

LEMMA FinishedLast ==
    ASSUME HistoryKept, NEW w, NEW t \in Completed(w)
    PROVE  t \in Completed(w)' /\ turns'[t] = turns[t]
BY DEF HistoryKept, Completed, InWorld, Rows

LEMMA UpStays ==
    ASSUME DaemonInv, HistoryKept, IssuedStay, NEW p, Up(p)
    PROVE  Up(p)'
<1>1. CASE p.type = "user_message"
  <2>1. PICK s, w : s = p.exch[1] /\ w = issued[s]
    OBVIOUS
  <2>2. s \in Session /\ issued'[s] = w
    BY <1>1, <2>1, DaemonAssumption DEF Up, IssuedStay
  <2>3. p.parent \in Completed(w)' \cup {Root}
    BY <1>1, <2>1, FinishedLast DEF Up
  <2>4. w # NoWorld /\ p.exch \in ClientId /\ p.body \in Body
    BY <1>1, <2>1 DEF Up
  <2>5. QED
    BY <1>1, <2>1, <2>2, <2>3, <2>4 DEF Up
<1>2. QED
  BY <1>1 DEF Up, IssuedStay

LEMMA DownStays ==
    ASSUME DaemonInv, HistoryKept, IssuedStay, NEW p, Down(p)
    PROVE  Down(p)'
<1>1. ASSUME NEW t, NEW e, Answers(t, e)
      PROVE  Answers(t, e)'
  <2>1. PICK s, w : s = e[1] /\ w = issued[s]
    OBVIOUS
  <2>2. s \in Session /\ issued'[s] = w /\ w # NoWorld
    BY <1>1, <2>1 DEF Answers, IssuedStay
  <2>3. t \in Completed(w)' /\ turns'[t].alias = e
    BY <1>1, <2>1, FinishedLast DEF Answers
  <2>4. QED
    BY <2>1, <2>2, <2>3 DEF Answers
<1>2. QED
  BY <1>1 DEF Down, IssuedStay

LEMMA SentFits ==
    ASSUME DaemonInv, CacheInv, Sessions, DaemonWork, NEW p \in sent', NEW n, NEW q, q = Wire(p, n)
    PROVE  Down(q)'
<1>0. epoch \in 1..MaxStarts
  BY DaemonSends, DaemonAssumption DEF Sessions
<1>1. CASE AckSent(p)
  <2>0. PICK s \in Session : \E w, h : p = Ack(w, h, s) /\ issued'[s] # NoWorld
    BY <1>1 DEF AckSent
  <2>1. PICK w, h : p = Ack(w, h, s) /\ issued'[s] # NoWorld
    BY <2>0
  <2>2. q = [type |-> "hello_ack", session |-> s, epoch |-> epoch, seq |-> n]
    BY <2>1 DEF Wire, Ack
  <2>3. QED
    BY <1>0, <2>1, <2>2 DEF Down
<1>2. CASE BeatSent(p)
  <2>0. PICK s \in Session : \E w, st : p = Beat(w, s, st)
    BY <1>2 DEF BeatSent
  <2>1. PICK w, st : p = Beat(w, s, st)
    BY <2>0
  <2>2. q = [type |-> "heartbeat", session |-> s, epoch |-> epoch]
    BY <2>1 DEF Wire, Beat
  <2>3. QED
    BY <1>0, <2>2 DEF Down
<1>3. CASE ErrorSent(p)
  <2>1. PICK w, e, c, k : p = Failure(w, e, c, k)
    BY <1>3 DEF ErrorSent
  <2>2. q = [type |-> "error", world |-> w, exch |-> e, seq |-> k, epoch |-> epoch]
    BY <2>1 DEF Wire, Failure
  <2>3. QED
    BY <2>2 DEF Down
<1>4. CASE StreamSent(p)
  <2>1. PICK e : p = Start(e) \/ \E k \in Nat : p = Delta(e, k)
    BY <1>4 DEF StreamSent
  <2>2. p.type \in {"assistant_start", "assistant_delta"}
    BY <2>1 DEF Start, Delta
  <2>3. q = p
    BY <2>2 DEF Wire
  <2>4. p.type = "assistant_delta" => p.seq \in Nat
    BY <2>1 DEF Start, Delta
  <2>5. QED
    BY <2>2, <2>3, <2>4 DEF Down
<1>5. CASE EndSent(p)
  <2>1. PICK v, e, t, x, k : p = End(v, e, t, x, k)
    BY <1>5 DEF EndSent
  <2>2. /\ p.type = "assistant_end" /\ p.exch = e /\ p.turn = t /\ p.world = v
    BY <2>1 DEF End
  <2>3. q.type = "assistant_end" /\ q.exch = e /\ q.turn = t
    BY <2>2 DEF Wire
  <2>4. /\ t \in Completed(v)' /\ turns'[t].alias = e
        /\ peers'[v] # NoPeer /\ peers'[v].session = e[1]
    BY <2>2, WorkIsNext, EndsAnnounce DEF Announced
  <2>5. DaemonInv'
    BY WorkKeeps
  <2>6. v \in World
    BY <2>4, <2>5 DEF DaemonInv, DaemonTypeOK, StoreTypeOK, Row, Completed, InWorld, Rows
  <2>7. peers'[v] \in Peer /\ issued'[peers'[v].session] = v
    BY <2>4, <2>5, <2>6 DEF DaemonInv, DaemonTypeOK, PeersInv, PeersHoldTheirSession
  <2>8. e[1] \in Session /\ issued'[e[1]] = v /\ v # NoWorld
    BY <2>4, <2>6, <2>7, DaemonAssumption DEF Peer
  <2>9. Answers(t, e)'
    BY <2>4, <2>8 DEF Answers
  <2>10. QED
    BY <2>3, <2>9 DEF Down
<1>6. QED
  BY <1>1, <1>2, <1>3, <1>4, <1>5, DaemonSends

-----------------------------------------------------------------------------
(* The daemon's half of a step, and all that it does to the rest.           *)
DaemonSide == /\ DaemonWork /\ UNCHANGED gvars
              /\ uplink' \subseteq uplink /\ \E n : Replies(n)
              /\ issued' = issued \/ \E s \in Session : issued' = [issued EXCEPT ![s] = Home[s]]

LEMMA OwnSteps ==
    ASSUME DaemonLives \/ DaemonBeats \/ \E t \in TurnId : DaemonAnswers(t) \/ DaemonReports(t) \/ DaemonStreams(t)
    PROVE  DaemonSide
<1>1. CASE DaemonLives \/ DaemonBeats
  <2>1. DaemonWork /\ issued' = issued
    BY <1>1 DEF DaemonLives, DaemonBeats, OnItsOwn, DaemonWork, StartUp, Crash, Stop, Exit, ServiceHeartbeats
  <2>2. QED
    BY <1>1, <2>1 DEF DaemonLives, DaemonBeats, OnItsOwn, DaemonSide
<1>2. ASSUME NEW t \in TurnId, DaemonAnswers(t) \/ DaemonReports(t) \/ DaemonStreams(t)
      PROVE  DaemonSide
  <2>1. Worker(t)
    BY <1>2 DEF DaemonAnswers, DaemonReports, DaemonStreams, OnItsOwn, Worker
  <2>2. issued' = issued
    BY <2>1 DEF Worker, EmitDelta, ModelFails, Commit, FinishError, Drop
  <2>3. QED
    BY <1>2, <2>1, <2>2 DEF DaemonAnswers, DaemonReports, DaemonStreams, OnItsOwn, DaemonSide, DaemonWork
<1>3. QED
  BY <1>1, <1>2

LEMMA UserMessagesIssueNothing == UserMessage => issued' = issued
BY DEF UserMessage, UserMessageFrom, StaleSession, BootstrapFails, Rebound

LEMMA TakenSteps ==
    ASSUME SysInv, NEW p \in uplink, DaemonTakes(p)
    PROVE  DaemonSide
<1>1. Up(p)
  BY DEF SysInv, Links
<1>2. PICK a \in Addr : DaemonGreets(a, p) \/ DaemonPings(a, p) \/ DaemonWorks(a, p)
  BY DEF DaemonTakes
<1>3. UNCHANGED gvars /\ uplink' \subseteq uplink
  BY DEF DaemonTakes, Taken
<1>4. CASE DaemonGreets(a, p)
  <2>1. WorldFor(p) \subseteq World /\ p.head \in TurnId \cup {Root}
    BY <1>1, <1>4 DEF DaemonGreets, Up, WorldFor, Unnamed
  <2>2. PICK w \in World : \/ HelloFails(a, w, p.head)
                           \/ \E s \in Session : Home[s] = w /\ HelloAccepted(a, w, p.head, s)
    BY <1>4, <2>1 DEF DaemonGreets
  <2>3. Hello
    BY <2>1, <2>2 DEF Hello
  <2>4. issued' = issued \/ \E s \in Session : issued' = [issued EXCEPT ![s] = Home[s]]
    BY <2>2 DEF HelloFails, HelloAccepted
  <2>5. QED
    BY <1>3, <1>4, <2>3, <2>4 DEF DaemonGreets, DaemonSide, DaemonWork
<1>5. CASE DaemonPings(a, p)
  <2>1. p.session \in Session /\ issued[p.session] # NoWorld /\ Heartbeat(a, p.session)
    BY <1>1, <1>5 DEF DaemonPings, Up
  <2>2. issued' = issued
    BY <2>1 DEF Heartbeat
  <2>3. QED
    BY <1>3, <1>5, <2>1, <2>2 DEF DaemonPings, DaemonSide, DaemonWork
<1>6. CASE DaemonWorks(a, p)
  <2>1. PICK m : m = [exch |-> p.exch, parent |-> p.parent, body |-> p.body]
    OBVIOUS
  <2>2. m \in Message /\ UserMessageFrom(a, m)
    <3>1. /\ p.exch \in ClientId /\ issued[p.exch[1]] # NoWorld /\ p.body \in Body
          /\ p.parent \in Completed(issued[p.exch[1]]) \cup {Root}
      BY <1>1, <1>6 DEF DaemonWorks, Up
    <3>2. p.parent \in TurnId \cup {Root}
      BY <3>1 DEF Completed, InWorld, Rows
    <3>3. QED
      BY <1>6, <2>1, <3>1, <3>2 DEF DaemonWorks, Message, WorldOf
  <2>3. UserMessage
    BY <2>2 DEF UserMessage
  <2>4. QED
    BY <1>3, <1>6, <2>3, UserMessagesIssueNothing DEF DaemonWorks, DaemonSide, DaemonWork
<1>7. QED
  BY <1>2, <1>4, <1>5, <1>6

LEMMA EpochCounts ==
    ASSUME Sessions, DaemonWork
    PROVE  epoch' \in 0..MaxStarts /\ (up' => epoch' # 0)
<1>1. CASE StartUp
  BY <1>1, DaemonAssumption DEF StartUp, Sessions
<1>2. CASE Exit
  BY <1>2 DEF Exit, Sessions
<1>3. CASE UserMessage
  BY <1>3 DEF UserMessage, UserMessageFrom, StaleSession, BootstrapFails, Rebound, Sessions
<1>4. CASE Hello
  BY <1>4 DEF Hello, HelloUnbound, HelloFails, HelloAccepted, Invalidated, Sessions
<1>5. ASSUME NEW t \in TurnId, Worker(t)
      PROVE  epoch' \in 0..MaxStarts /\ (up' => epoch' # 0)
  BY <1>5 DEF Worker, EmitDelta, ModelFails, Commit, FinishError, Drop, Sessions
<1>6. CASE ServiceHeartbeats \/ \E a \in Addr, s \in Session : Heartbeat(a, s)
  BY <1>6 DEF ServiceHeartbeats, Heartbeat, Sessions
<1>7. QED
  BY <1>1, <1>2, <1>3, <1>4, <1>5, <1>6 DEF DaemonWork, Crash, Stop

LEMMA DaemonSideKeeps ==
    ASSUME SysInv, DaemonSide
    PROVE  SysInv'
<1>1. DaemonInv' /\ CacheInv' /\ HistoryKept /\ IssuedStay
  BY WorkKeeps DEF SysInv, DaemonSide
<1>2. UNCHANGED <<storage, session, bootstrapped, saved, loads>>
  BY DEF DaemonSide, gvars
<1>3. GameP!ModInv'
  BY <1>2 DEF SysInv, GameP!ModInv, GameP!ModTypeOK, GameP!Connected, GameP!ExchangeIsCurrent
<1>4. Sessions'
  <2>1. \A s \in Session : issued'[s] \in {NoWorld, Home[s]}
    BY DEF DaemonSide, SysInv, Sessions, DaemonInv, DaemonTypeOK
  <2>2. session' # NoSession => issued'[session'] # NoWorld
    BY <1>1, <1>2 DEF SysInv, Sessions, IssuedStay, GameP!ModInv, GameP!ModTypeOK
  <2>3. QED
    BY <2>1, <2>2, EpochCounts DEF DaemonSide, SysInv, Sessions
<1>5. Links'
  <2>1. ASSUME NEW p \in uplink'
        PROVE  Up(p)'
    BY <1>1, <2>1, UpStays DEF DaemonSide, SysInv, Links
  <2>2. ASSUME NEW q \in downlink'
        PROVE  Down(q)'
    <3>1. CASE q \in downlink
      BY <1>1, <3>1, DownStays DEF SysInv, Links
    <3>2. ASSUME NEW n, NEW p \in sent', q = Wire(p, n)
          PROVE  Down(q)'
      BY <3>2, SentFits DEF SysInv, DaemonSide
    <3>3. QED
      BY <3>1, <3>2 DEF DaemonSide, Replies
  <2>3. QED
    BY <2>1, <2>2 DEF Links
<1>6. ASSUME NEW s, Kept(s), Numbered(s)
      PROVE  Kept(s)' /\ Numbered(s)'
  <2>1. Kept(s)'
    BY <1>1, <1>6, FinishedLast DEF Kept
  <2>2. s.head \in TurnId => turns'[s.head] = turns[s.head]
    BY <1>1, <1>6, FinishedLast, StoreAssumption DEF Kept
  <2>3. QED
    BY <1>6, <2>1, <2>2 DEF Numbered
<1>7. QED
  BY <1>1, <1>2, <1>3, <1>4, <1>5, <1>6 DEF SysInv

-----------------------------------------------------------------------------
(* The game's half: nothing of the daemon moves.                            *)
LEMMA NothingMoves ==
    ASSUME UNCHANGED dvars
    PROVE  /\ UNCHANGED <<turns, head, up, epoch, peers, addrWorld, active, req, cache, issued>>
           /\ \A w : Completed(w)' = Completed(w)
           /\ \A p : (Up(p)' <=> Up(p)) /\ (Down(p)' <=> Down(p))
<1>1. UNCHANGED <<turns, head, up, epoch, peers, addrWorld, active, req, cache, issued>>
  BY DEF dvars, volatile
<1>2. \A w : Completed(w)' = Completed(w)
  BY <1>1 DEF Completed, InWorld, Rows
<1>3. ASSUME NEW p PROVE (Up(p)' <=> Up(p)) /\ (Down(p)' <=> Down(p))
  BY <1>1 DEF Up, Down, Answers, Completed, InWorld, Rows
<1>4. QED
  BY <1>1, <1>2, <1>3

LEMMA StillDaemon ==
    ASSUME DaemonInv, CacheInv, UNCHANGED dvars
    PROVE  DaemonInv' /\ CacheInv'
<1>1. DaemonInv'
  BY NothingMoves, IdleKeeps DEF DaemonInv, DaemonTypeOK, volatile
<1>2. CacheInv'
  BY NothingMoves DEF CacheInv, Distinct, Lasts, Settled, WorldOf, Completed, InWorld, Rows
<1>3. QED
  BY <1>1, <1>2

LEMMA GameSideKeeps ==
    ASSUME SysInv, UNCHANGED dvars, GameP!ModInv',
           session' # NoSession => issued[session'] # NoWorld,
           \A p \in uplink' : Up(p), \A p \in downlink' : Down(p),
           NEW s, s = storage', Kept(s), Numbered(s), NEW r, r = saved', Kept(r), Numbered(r)
    PROVE  SysInv'
<1>1. DaemonInv' /\ CacheInv'
  BY StillDaemon DEF SysInv
<1>2. Sessions'
  BY NothingMoves DEF SysInv, Sessions
<1>3. Links'
  BY NothingMoves DEF Links
<1>4. ASSUME NEW q
      PROVE  (Kept(q)' <=> Kept(q)) /\ (Numbered(q)' <=> Numbered(q))
  BY NothingMoves DEF Kept, Numbered, Completed, InWorld, Rows
<1>5. Kept(storage)' /\ Numbered(storage)' /\ Kept(saved)' /\ Numbered(saved)'
  BY <1>4
<1>6. QED
  BY <1>1, <1>2, <1>3, <1>5 DEF SysInv

(* A step that asks and answers nothing leaves the save where it stands.    *)
LEMMA StandingKeeps ==
    ASSUME NEW s, NEW r, Kept(s), Numbered(s), r.head = s.head, r.minted = s.minted,
           r.world = s.world \/ (s.world = NoWorld /\ r.world \in World),
           \/ r.active = NoExchange
           \/ /\ s.active # NoExchange /\ r.active.exch = s.active.exch
    PROVE  Kept(r) /\ Numbered(r)
BY DaemonAssumption DEF Kept, Numbered

LEMMA GameFacts ==
    ASSUME SysInv
    PROVE  /\ storage \in GameP!Storage /\ saved \in GameP!Storage
           /\ session \in Session \cup {NoSession}
           /\ storage.world \in World \cup {NoWorld} /\ storage.minted \in Nat
           /\ storage.head \in TurnId \cup {Root} /\ storage.control \in Nat
           /\ Kept(storage) /\ Numbered(storage) /\ Kept(saved) /\ Numbered(saved)
           /\ \A p \in uplink : Up(p)
           /\ \A p \in downlink : Down(p)
           /\ session # NoSession => issued[session] = Home[session] /\ Home[session] \in World
BY GameAssumed DEF SysInv, GameP!ModInv, GameP!ModTypeOK, GameP!Storage, GameP!Turn, Links, Sessions, GameP!ModAssumption

LEMMA BootsKeeps == ASSUME SysInv, GameBoots PROVE SysInv'
<1>1. /\ GameP!Boot /\ UNCHANGED <<dvars, uplink, downlink>> /\ saved' = saved
  BY SameEvents DEF GameBoots, Silently, GameP!Boot
<1>2. GameP!ModInv' /\ session' = NoSession
  BY <1>1, GameAssumed, GameP!BootKeeps DEF SysInv, GameP!Boot
<1>3. GameP!Becomes(storage, storage') /\ storage'.active = NoExchange
  BY <1>1, GameAssumed, GameP!BootMoves DEF SysInv
<1>4. PICK s, r : s = storage' /\ r = saved'
  OBVIOUS
<1>5. Kept(s) /\ Numbered(s)
  BY <1>3, <1>4, GameFacts, StandingKeeps DEF GameP!Becomes
<1>6. QED
  BY <1>1, <1>2, <1>4, <1>5, GameFacts, GameSideKeeps

LEMMA ReloadsKeeps == ASSUME SysInv, GameReloads PROVE SysInv'
<1>1. UNCHANGED <<dvars, uplink, downlink>>
  BY DEF GameReloads, Silently
<1>2. PICK s, r : s = storage' /\ r = saved'
  OBVIOUS
<1>3. CASE GameP!Save
  <2>1. GameP!ModInv' /\ session' = session /\ s = storage
    BY <1>2, <1>3, GameAssumed, GameP!SaveKeeps DEF SysInv, GameP!Save
  <2>2. r.head = storage.head /\ r.minted = storage.minted /\ r.world = storage.world /\ r.active = storage.active
    BY <1>2, <1>3, GameAssumed, GameP!SaveMoves DEF SysInv
  <2>3. Kept(r) /\ Numbered(r)
    BY <2>2, GameFacts DEF Kept, Numbered
  <2>4. QED
    BY <1>1, <1>2, <2>1, <2>3, GameFacts, GameSideKeeps DEF SysInv, Sessions
<1>4. CASE GameP!Load
  <2>1. GameP!ModInv' /\ session' = NoSession /\ s = saved /\ r = saved
    BY <1>2, <1>4, GameAssumed, GameP!LoadKeeps DEF SysInv, GameP!Load
  <2>2. QED
    BY <1>1, <1>2, <2>1, GameFacts, GameSideKeeps
<1>5. QED
  BY <1>3, <1>4, SameEvents DEF GameReloads

(* A check or a join, and the datagrams that leave with it.                 *)
LEMMA SignalsKeep == ASSUME SysInv, GameTicks \/ GameJoins PROVE SysInv'
<1>1. GameP!Check \/ GameP!Join
  BY SameEvents DEF GameTicks, GameJoins, Signalling
<1>2. UNCHANGED <<dvars, downlink, asked, wording, bootstrapped, saved, loads>>
  BY <1>1 DEF GameTicks, GameJoins, Signalling, GameP!Check, GameP!Join
<1>3. GameP!ModInv'
  BY <1>1, GameAssumed, GameP!CheckKeeps, GameP!JoinKeeps DEF SysInv
<1>4. /\ GameP!Becomes(storage, storage')
      /\ \/ GameP!Greets
         \/ GameP!Beats
         \/ storage'.control = storage.control /\ session' = session
  BY <1>1, GameAssumed, GameP!CheckMoves DEF SysInv
<1>5. PICK s, r : s = storage' /\ r = saved'
  OBVIOUS
<1>6. /\ s.head = storage.head /\ s.minted = storage.minted /\ s.world = storage.world
      /\ s.active \in {storage.active, NoExchange}
  BY <1>4, <1>5 DEF GameP!Becomes
<1>7. Kept(s) /\ Numbered(s)
  BY <1>6, GameFacts, StandingKeeps
<1>8. session' # NoSession => issued[session'] # NoWorld
  BY <1>4 DEF GameP!Greets, GameP!Beats, SysInv, Sessions
<1>9. ASSUME NEW p \in uplink'
      PROVE  Up(p)
  <2>1. CASE p \in uplink
    BY <2>1, GameFacts
  <2>2. CASE p = HelloOf(s)
    BY <1>6, <2>2, GameFacts DEF HelloOf, Up
  <2>3. CASE p = HeartbeatOf(session) /\ HeartbeatSent
    <3>1. session # NoSession
      BY <1>4, <2>3 DEF HeartbeatSent, GameP!Greets, GameP!Beats
    <3>2. session \in Session /\ issued[session] # NoWorld
      BY <3>1, GameFacts DEF SysInv, Sessions
    <3>3. QED
      BY <2>3, <3>2 DEF HeartbeatOf, Up
  <2>4. QED
    BY <1>5, <2>1, <2>2, <2>3 DEF GameTicks, GameJoins, Signalling
<1>10. QED
  BY <1>2, <1>3, <1>5, <1>7, <1>8, <1>9, GameFacts, GameSideKeeps

LEMMA AsksKeeps == ASSUME SysInv, GameAsks PROVE SysInv'
<1>1. GameP!UserInput /\ UNCHANGED <<dvars, downlink, session, bootstrapped, saved, loads>>
  BY SameEvents DEF GameAsks, GameP!UserInput
<1>2. GameP!ModInv'
  BY <1>1, GameAssumed, GameP!UserInputKeeps DEF SysInv
<1>3. PICK s, r : s = storage' /\ r = saved'
  OBVIOUS
<1>4. /\ storage.active = NoExchange
      /\ s.head = storage.head /\ s.world = storage.world /\ storage.minted <= s.minted
      /\ s.minted \in Nat
  BY <1>1, <1>2, <1>3, GameAssumed, GameP!InputMoves DEF SysInv, GameP!ModInv, GameP!ModTypeOK, GameP!Storage
<1>5. CASE s.active = NoExchange
  <2>1. uplink' = uplink
    BY <1>3, <1>5 DEF GameAsks
  <2>2. Kept(s) /\ Numbered(s)
    BY <1>4, <1>5, GameFacts DEF Kept, Numbered
  <2>3. QED
    BY <1>1, <1>2, <1>3, <2>1, <2>2, GameFacts, GameSideKeeps DEF SysInv, Sessions
<1>6. CASE s.active # NoExchange
  <2>1. /\ session \in Session /\ s.active.exch = <<session, storage.minted + 1>>
        /\ s.active.parent = storage.head
        /\ storage.minted < MaxMessages /\ s.minted = storage.minted + 1
    BY <1>1, <1>3, <1>6, GameAssumed, GameP!InputMoves DEF SysInv, GameP!AsksAnew
  <2>2. Kept(s) /\ Numbered(s)
    BY <1>4, <2>1, GameFacts DEF Kept, Numbered
  <2>3. PICK b \in Body : uplink' = uplink \cup {QuestionOf(s.active, b)}
    BY <1>3, <1>6 DEF GameAsks
  <2>4. storage.world = Home[session] /\ issued[session] = Home[session] /\ Home[session] \in World
    BY <2>1, GameFacts, DaemonAssumption DEF SysInv, GameP!ModInv, GameP!Connected
  <2>5. storage.head \in Completed(issued[session]) \cup {Root}
    BY <2>4, GameFacts, DaemonAssumption DEF Kept
  <2>6. s.active.exch \in ClientId /\ s.active.exch[1] = session
    BY <2>1, GameFacts, SystemAssumption
  <2>7. Up(QuestionOf(s.active, b))
    BY <2>1, <2>4, <2>5, <2>6, DaemonAssumption DEF Up, QuestionOf
  <2>8. QED
    BY <1>1, <1>2, <1>3, <2>2, <2>3, <2>7, GameFacts, GameSideKeeps DEF SysInv, Sessions
<1>7. QED
  BY <1>5, <1>6

(* A packet of the daemon is one the game's proofs are about.               *)
LEMMA TakesKeeps == ASSUME SysInv, NEW p \in downlink, GameTakes(p) PROVE SysInv'
<1>1. /\ UNCHANGED <<dvars, bootstrapped, saved, loads, uplink>> /\ downlink' \subseteq downlink
      /\ bootstrapped
  BY DEF GameTakes, Taken
<1>2. Down(p) /\ GameP!Epoch = 1..MaxStarts
  BY GameFacts DEF GameP!Epoch
<1>3. PICK s, r : s = storage' /\ r = saved'
  OBVIOUS
<1>4. ASSUME GameP!ModInv', session' # NoSession => issued[session'] # NoWorld, Kept(s), Numbered(s)
      PROVE  SysInv'
  BY <1>1, <1>3, <1>4, GameFacts, GameSideKeeps
<1>5. ASSUME GameP!ModInv', session' \in {session, NoSession}, GameP!Steady, s.world = storage.world
      PROVE  SysInv'
  <2>1. Kept(s) /\ Numbered(s)
    BY <1>3, <1>5, GameFacts, StandingKeeps DEF GameP!Steady, GameP!SameQuestion
  <2>2. QED
    BY <1>4, <1>5, <2>1 DEF SysInv, Sessions
<1>6. CASE p.type = "hello_ack" /\ Game!HelloAck(p.seq, p.session, p.epoch)
  <2>1. /\ GameP!HelloAck(p.seq, p.session, p.epoch)
        /\ p.session \in Session /\ p.epoch \in GameP!Epoch /\ issued[p.session] # NoWorld
    BY <1>2, <1>6, SamePackets DEF Down
  <2>2. GameP!ModInv'
    BY <1>1, <2>1, GameAssumed, GameP!HelloAckKeeps DEF SysInv
  <2>3. /\ GameP!Steady /\ s.world = Home[p.session] /\ session' = p.session
        /\ storage.world \in {NoWorld, Home[p.session]}
    BY <1>3, <2>1, GameAssumed, GameP!AckMoves DEF SysInv
  <2>4. Home[p.session] \in World
    BY <2>1, GameAssumed DEF GameP!ModAssumption
  <2>5. Kept(s) /\ Numbered(s)
    BY <1>3, <2>3, <2>4, GameFacts, StandingKeeps DEF GameP!Steady, GameP!SameQuestion
  <2>6. QED
    BY <1>4, <2>1, <2>2, <2>3, <2>5
<1>7. CASE p.type = "heartbeat" /\ Game!HeartbeatArrives(p.session, p.epoch)
  <2>1. GameP!HeartbeatArrives(p.session, p.epoch) /\ p.session \in Session /\ p.epoch \in GameP!Epoch
    BY <1>2, <1>7, SamePackets DEF Down
  <2>2. GameP!ModInv'
    BY <1>1, <2>1, GameAssumed, GameP!HeartbeatKeeps DEF SysInv
  <2>3. GameP!Steady /\ s.world = storage.world /\ session' \in {session, NoSession}
    BY <1>3, <2>1, GameAssumed, GameP!HeartbeatMoves DEF SysInv
  <2>4. QED
    BY <1>5, <2>2, <2>3
<1>8. CASE UNCHANGED session /\ GameP!AssistantStart(p.exch, p.epoch)
  <2>1. GameP!ModInv'
    BY <1>1, <1>8, GameAssumed, GameP!StartKeeps DEF SysInv
  <2>2. GameP!Steady /\ s.world = storage.world
    BY <1>3, <1>8, GameAssumed, GameP!StreamMoves DEF SysInv
  <2>3. QED
    BY <1>5, <1>8, <2>1, <2>2
<1>9. CASE UNCHANGED session /\ p.type = "assistant_delta" /\ GameP!AssistantDelta(p.exch, p.seq, p.epoch)
  <2>1. p.seq \in Nat
    BY <1>2, <1>9 DEF Down
  <2>2. GameP!ModInv'
    BY <1>1, <1>9, <2>1, GameAssumed, GameP!DeltaKeeps DEF SysInv
  <2>3. GameP!Steady /\ s.world = storage.world
    BY <1>3, <1>9, <2>1, GameAssumed, GameP!StreamMoves DEF SysInv
  <2>4. QED
    BY <1>5, <1>9, <2>2, <2>3
<1>10. CASE UNCHANGED session /\ p.type = "assistant_end" /\ GameP!AssistantEnd(p.exch, p.seq, p.turn, p.epoch)
  <2>1. PICK e, t : e = p.exch /\ t = p.turn
    OBVIOUS
  <2>2. /\ e[1] \in Session /\ issued[e[1]] # NoWorld
        /\ t \in Completed(issued[e[1]]) /\ turns[t].alias = e
    BY <1>2, <1>10, <2>1 DEF Down, Answers
  <2>3. t \in TurnId /\ issued[e[1]] = Home[e[1]]
    BY <2>2 DEF Completed, InWorld, Rows, SysInv, Sessions
  <2>4. GameP!ModInv'
    BY <1>1, <1>10, <2>1, <2>3, GameAssumed, GameP!EndKeeps DEF SysInv
  <2>5. /\ s.head = t /\ s.active = NoExchange /\ s.minted = storage.minted /\ s.world = storage.world
        /\ storage.active # NoExchange /\ storage.active.exch = e /\ storage.world = Home[e[1]]
    BY <1>3, <1>10, <2>1, GameAssumed, GameP!EndMoves DEF SysInv
  <2>6. Kept(s)
    BY <2>2, <2>3, <2>5 DEF Kept
  <2>7. e[2] \in Nat /\ e[2] <= storage.minted
    BY <2>5, GameFacts DEF Numbered, GameP!Storage, GameP!Active, GameP!Exch
  <2>8. Numbered(s)
    BY <2>2, <2>5, <2>7 DEF Numbered
  <2>9. QED
    BY <1>4, <1>10, <2>4, <2>6, <2>8 DEF SysInv, Sessions
<1>11. CASE /\ UNCHANGED session
            /\ GameP!ExchangeError(p.exch, p.seq, p.epoch) \/ GameP!ConnectionError(p.world)
  <2>1. storage' = GameP!Failing(GameP!Heard(storage))
    BY <1>11 DEF GameP!ExchangeError, GameP!ConnectionError
  <2>2. GameP!ModInv'
    BY <1>1, <1>11, <2>1, GameAssumed, GameP!FailingKeeps DEF SysInv
  <2>3. GameP!Steady /\ s.world = storage.world
    BY <1>3, <2>1, GameAssumed, GameP!FailureMoves DEF SysInv
  <2>4. QED
    BY <1>5, <1>11, <2>2, <2>3
<1>12. QED
  BY <1>6, <1>7, <1>8, <1>9, <1>10, <1>11, SamePackets DEF GameTakes

LEMMA LossKeeps == ASSUME SysInv, NEW p, Lost(p) PROVE SysInv'
<1>1. /\ UNCHANGED <<dvars, storage, session, bootstrapped, saved, loads>>
      /\ uplink' \subseteq uplink /\ downlink' \subseteq downlink
  BY DEF Lost, gvars
<1>2. GameP!ModInv'
  BY <1>1 DEF SysInv, GameP!ModInv, GameP!ModTypeOK, GameP!Connected, GameP!ExchangeIsCurrent
<1>3. PICK s, r : s = storage' /\ r = saved'
  OBVIOUS
<1>4. QED
  BY <1>1, <1>2, <1>3, GameFacts, GameSideKeeps DEF SysInv, Sessions

(* Every step is the daemon's, or leaves the daemon alone.                  *)
LEMMA SystemSteps ==
    ASSUME SysInv, [SystemNext]_sysvars
    PROVE  DaemonSide \/ UNCHANGED dvars
<1>1. CASE UNCHANGED sysvars
  BY <1>1 DEF sysvars
<1>2. CASE GameBoots \/ GameReloads \/ GameTicks \/ GameJoins \/ GameAsks \/ \E p \in downlink : GameTakes(p)
  BY <1>2 DEF GameBoots, GameReloads, Silently, GameTicks, GameJoins, Signalling, GameAsks, GameTakes
<1>3. CASE \E p \in uplink \cup downlink : Lost(p)
  BY <1>3 DEF Lost
<1>4. QED
  BY <1>1, <1>2, <1>3, OwnSteps, TakenSteps DEF SystemNext

LEMMA SystemStepKeeps == ASSUME SysInv, [SystemNext]_sysvars PROVE SysInv'
<1>1. CASE UNCHANGED sysvars
  <2>1. UNCHANGED <<dvars, storage, session, bootstrapped, saved, loads, uplink, downlink>>
    BY <1>1 DEF sysvars, gvars
  <2>2. GameP!ModInv'
    BY <2>1 DEF SysInv, GameP!ModInv, GameP!ModTypeOK, GameP!Connected, GameP!ExchangeIsCurrent
  <2>3. PICK s, r : s = storage' /\ r = saved'
    OBVIOUS
  <2>4. QED
    BY <2>1, <2>2, <2>3, GameFacts, GameSideKeeps DEF SysInv, Sessions
<1>2. CASE SystemNext
  BY <1>2, BootsKeeps, ReloadsKeeps, SignalsKeep, AsksKeeps, TakesKeeps, LossKeeps, OwnSteps, TakenSteps,
     DaemonSideKeeps DEF SystemNext
<1>3. QED
  BY <1>1, <1>2

LEMMA SystemInitInv == SystemInit => SysInv
<1> SUFFICES ASSUME SystemInit PROVE SysInv
  OBVIOUS
<1>1. DaemonInv
  BY DaemonInitInv DEF SystemInit
<1>2. CacheInv
  BY DaemonAssumption DEF SystemInit, DaemonInit, CacheInv, Distinct
<1>3. GameP!ModInv
  BY SameEvents, GameAssumed, GameP!ModInitInv DEF SystemInit
<1>4. Sessions
  BY DaemonAssumption, SameEvents DEF SystemInit, DaemonInit, Sessions, GameP!ModInit
<1>5. Links
  BY DEF SystemInit, Links
<1>6. storage = GameP!FreshStorage /\ saved = GameP!FreshStorage
  BY SameEvents DEF SystemInit, GameP!ModInit
<1>7. Kept(GameP!FreshStorage) /\ Numbered(GameP!FreshStorage)
  BY StoreAssumption DEF Kept, Numbered, GameP!FreshStorage
<1>8. QED
  BY <1>1, <1>2, <1>3, <1>4, <1>5, <1>6, <1>7 DEF SysInv

LEMMA SystemInvariant == SystemSpec => []SysInv
BY SystemInitInv, SystemStepKeeps, PTL DEF SystemSpec

(* The daemon of the system is the daemon of CompanionDaemon: what the game *)
(* and the network do to it is among what its own model lets any game do    *)
(* (daemon.py:624-966), so that its theorems hold of the whole.             *)
THEOREM SystemRunsDaemon == SystemSpec => DaemonSpec
<1>1. SystemInit => DaemonInit
  BY DEF SystemInit
<1>2. SysInv /\ [SystemNext]_sysvars => [DaemonNext]_dvars
  BY SystemSteps, WorkIsNext DEF DaemonSide
<1>3. QED
  BY <1>1, <1>2, SystemInvariant, PTL DEF SystemSpec, DaemonSpec

(* Whatever is lost, repeated, delayed or reloaded, and whatever SQLite     *)
(* refuses, the save and the save file stand at a turn the daemon can       *)
(* anchor their next hello at.                                              *)
THEOREM SavedHeadsStayKept == SystemSpec => []SavedHeadsAreKept
<1>1. SysInv => SavedHeadsAreKept
  BY DEF SysInv, SavedHeadsAreKept, Kept
<1>2. QED
  BY <1>1, SystemInvariant, PTL

(* No answer the game would take is the turn it stands on already: not even *)
(* one of a future that a load has abandoned.                               *)
THEOREM AnswersStayNew == SystemSpec => []AnswersAreNew
<1>1. SysInv => AnswersAreNew
  <2> SUFFICES ASSUME SysInv, NEW p \in downlink, p.type = "assistant_end",
                      Game!Accepts(p.exch, p.seq, p.epoch), p.turn = storage.head
               PROVE  FALSE
    BY DEF AnswersAreNew
  <2>1. storage.active # NoExchange /\ storage.active.exch = p.exch
    BY DEF Game!Accepts, Game!Matches
  <2>2. turns[p.turn].alias = p.exch /\ p.turn \in TurnId
    BY GameFacts DEF Down, Answers, Completed, InWorld, Rows
  <2>3. p.exch[2] < p.exch[2] /\ p.exch[2] \in Nat
    BY <2>1, <2>2, GameFacts DEF Numbered
  <2>4. QED
    BY <2>3
<1>2. QED
  BY <1>1, SystemInvariant, PTL
=============================================================================
