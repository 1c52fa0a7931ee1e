--------------------------- MODULE CompanionSystem ---------------------------
(***************************************************************************)
(* One game and the daemon over loopback UDP.  The daemon is the module     *)
(* extended, the game an instance of CompanionMod; two sets of datagrams    *)
(* join them.  A datagram in flight may be taken in any order and after any *)
(* delay, stay for ever (which is a loss), and, when the network may repeat *)
(* datagrams, be taken again and again.                                     *)
(*                                                                          *)
(* A game sends from one port, the one Factorio was started with, whatever  *)
(* save it loads (protocol_spec.md:11-18).                                  *)
(***************************************************************************)
EXTENDS CompanionDaemon

CONSTANTS
    Home,           \* the world each session is minted for
    NoExchange, NoStream, MaxControl, MaxMessages, MaxSeq, MaxHistory,
    MaxLoads, Patience, HelloInterval, ErrorChecks,     \* of CompanionMod
    MayRepeat,      \* the network may deliver a datagram again
    MayLose         \* the network may lose a datagram for good

VARIABLES storage, session, bootstrapped, saved, loads      \* of CompanionMod

Game == INSTANCE CompanionMod WITH MaxEpoch <- MaxStarts

VARIABLES
    uplink,     \* datagrams from the game to the daemon
    downlink,   \* datagrams from the daemon to the game
    asked,      \* the body of the question the game asked last
    wording,    \* column turns.user_text: the body each row was begun with
    minted      \* the sessions that existed when the game last said hello

gvars == <<storage, session, bootstrapped, saved, loads, asked, minted>>
sysvars == <<dvars, gvars, uplink, downlink, wording>>

ASSUME SystemAssumption ==
    /\ MayRepeat \in BOOLEAN /\ MayLose \in BOOLEAN
    /\ MaxControl > 1       \* so that two successive control numbers differ
    /\ Session \X (1..MaxMessages) \subseteq ClientId
    /\ Game!ModAssumption /\ Game!NoExchangeAssumption

SystemInit == /\ DaemonInit /\ Game!ModInit
              /\ uplink = {} /\ downlink = {}
              /\ asked \in Body /\ wording \in [TurnId -> {asked}]
              /\ minted = {}

(* A datagram that is taken is in flight no more, unless it was repeated.   *)
Taken(link, p) == IF MayRepeat THEN link ELSE link \ {p}

-----------------------------------------------------------------------------
(* The game's steps.  What it sends is told by what its handlers do to      *)
(* storage; a heartbeat is known by its session, the rest of it is never    *)
(* read.  A link that repeats datagrams may not see a control number again  *)
(* in one timeline: the bound MaxControl is then an end, not a modulus.     *)
HelloSent == /\ storage'.control # storage.control
             /\ storage'.status = "connecting"
HeartbeatSent == /\ storage'.control # storage.control
                 /\ storage'.status \notin {"offline", "connecting"}

HelloOf(s) == [type |-> "hello", seq |-> s.pending, world |-> s.world, head |-> s.head]
HeartbeatOf(s) == [type |-> "heartbeat", session |-> s]
QuestionOf(x, b) == [type |-> "user_message", exch |-> x.exch, parent |-> x.parent, body |-> b]

Minted == {s \in Session : issued[s] # NoWorld}

Silently == UNCHANGED <<dvars, uplink, downlink, asked, wording, minted>>
GameBoots == Game!Boot /\ Silently
GameReloads == (Game!Save \/ Game!Load) /\ Silently

Signalling(A) ==
    /\ A
    /\ MayRepeat => storage'.control >= storage.control
    /\ uplink' = uplink \cup {p \in {HelloOf(storage')} : HelloSent}
                        \cup {p \in {HeartbeatOf(session)} : HeartbeatSent}
    /\ minted' = IF HelloSent THEN Minted ELSE minted
    /\ UNCHANGED <<dvars, downlink, asked, wording>>

GameTicks == Signalling(Game!Check)
GameJoins == Signalling(Game!Join)

GameAsks ==
    /\ Game!UserInput
    /\ IF storage'.active = NoExchange
       THEN UNCHANGED <<uplink, asked>>
       ELSE \E b \in Body : /\ uplink' = uplink \cup {QuestionOf(storage'.active, b)}
                            /\ asked' = b
    /\ UNCHANGED <<dvars, downlink, wording, minted>>

(* handle_packet_impl of the datagram p.  An assistant_end that names       *)
(* another parent than the question's is dropped.                           *)
GameTakes(p) ==
    /\ bootstrapped
    /\ \/ p.type = "hello_ack" /\ Game!HelloAck(p.seq, p.session, p.epoch)
       \/ p.type = "heartbeat" /\ Game!HeartbeatArrives(p.session, p.epoch)
       \/ /\ UNCHANGED session
          /\ \/ p.type = "assistant_start" /\ Game!AssistantStart(p.exch, p.epoch)
             \/ p.type = "assistant_delta" /\ Game!AssistantDelta(p.exch, p.seq, p.epoch)
             \/ /\ p.type = "assistant_end"
                /\ Game!AssistantEnd(p.exch, p.seq, p.turn, p.epoch)
                /\ storage.active.parent \in p.parents
             \/ /\ p.type = "error" /\ p.exch # NoAlias
                /\ Game!ExchangeError(p.exch, p.seq, p.epoch)
             \/ /\ p.type = "error" /\ p.exch = NoAlias
                /\ Game!ConnectionError(p.world)
    /\ downlink' = Taken(downlink, p)
    /\ UNCHANGED <<dvars, bootstrapped, saved, loads, uplink, asked, wording, minted>>

-----------------------------------------------------------------------------
(* The daemon's steps.  Of its packets the link keeps what the game reads:  *)
(* an acknowledgement echoes the number n of its hello (0: none), and only  *)
(* the assistant_end sent at the commit names the parent.                   *)
JustCommitted(t) == t \in Completed(Owner(t))' /\ turns'[t] # turns[t]

Wire(p, n) ==
    CASE p.type = "hello_ack" ->
           [type |-> p.type, session |-> p.session, epoch |-> p.epoch, seq |-> n]
      [] p.type = "heartbeat" ->
           [type |-> p.type, session |-> p.session, epoch |-> p.epoch]
      [] p.type = "assistant_end" ->
           [type |-> p.type, exch |-> p.exch, turn |-> p.turn, seq |-> p.seq, epoch |-> p.epoch,
            parents |-> IF JustCommitted(p.turn) THEN {turns'[p.turn].parent} ELSE TurnId \cup {Root}]
      [] p.type = "error" ->
           [type |-> p.type, world |-> p.world, exch |-> p.exch, seq |-> p.seq, epoch |-> p.epoch]
      [] OTHER -> p

Replies(n) == downlink' = downlink \cup {Wire(p, n) : p \in sent'}

OnItsOwn(A) == A /\ Replies(0) /\ UNCHANGED <<gvars, uplink, wording>>

DaemonLives == OnItsOwn(StartUp \/ Crash \/ Stop)
DaemonBeats == OnItsOwn(ServiceHeartbeats)
DaemonAnswers(t) == OnItsOwn(ModelFails(t) \/ \E x \in Text : Commit(t, x))
DaemonReports(t) == OnItsOwn(FinishError(t))
DaemonStreams(t) == OnItsOwn(EmitDelta(t) \/ Drop(t))

(* A save without an identity is given a world nobody has named.            *)
Unnamed == {w \in World : head[w] = NoWorld}
WorldFor(p) == IF p.world = NoWorld THEN Unnamed ELSE {p.world}

DaemonGreets(a, p) ==
    /\ p.type = "hello"
    /\ \E w \in WorldFor(p) :
         \/ HelloFails(a, w, p.head)
         \/ \E s \in Session : Home[s] = w /\ HelloAccepted(a, w, p.head, s)
    /\ Replies(p.seq)
    /\ UNCHANGED wording

DaemonPings(a, p) ==
    /\ p.type = "heartbeat" /\ Heartbeat(a, p.session)
    /\ Replies(0) /\ UNCHANGED wording

DaemonWorks(a, p) ==
    /\ p.type = "user_message"
    /\ UserMessageFrom(a, [exch |-> p.exch, parent |-> p.parent, body |-> p.body])
    /\ Replies(0)
    /\ wording' = [t \in TurnId |-> IF t \in Rows' \ Rows THEN p.body ELSE wording[t]]

DaemonTakes(p) ==
    /\ \E a \in Addr : DaemonGreets(a, p) \/ DaemonPings(a, p) \/ DaemonWorks(a, p)
    /\ uplink' = Taken(uplink, p)
    /\ UNCHANGED gvars

(* A datagram is lost; one that finds no daemon on the port always may be.  *)
Lost(p) ==
    /\ MayLose \/ (p \in uplink /\ ~up)
    /\ uplink' = uplink \ {p} /\ downlink' = downlink \ {p}
    /\ UNCHANGED <<dvars, gvars, wording>>

SystemNext ==
    \/ GameBoots \/ GameReloads \/ GameTicks \/ GameJoins \/ GameAsks
    \/ DaemonLives \/ DaemonBeats
    \/ \E t \in TurnId : DaemonAnswers(t) \/ DaemonReports(t) \/ DaemonStreams(t)
    \/ \E p \in downlink : GameTakes(p)
    \/ \E p \in uplink : DaemonTakes(p)
    \/ ~MayRepeat /\ \E p \in uplink \cup downlink : Lost(p)

SystemSpec == SystemInit /\ [][SystemNext]_sysvars

(* The game's clock runs, the daemon's threads are scheduled, its provider's *)
(* responses end (llm_timeout bounds a read, not a call), and what the      *)
(* network does not lose it delivers.                                       *)
SystemFairness ==
    /\ WF_sysvars(GameBoots)
    /\ WF_sysvars(GameTicks)
    /\ WF_sysvars(DaemonBeats)
    /\ \A t \in TurnId : WF_sysvars(DaemonAnswers(t)) /\ WF_sysvars(DaemonReports(t))
    /\ \A k \in {"hello", "heartbeat", "user_message"} :
         WF_sysvars(\E p \in uplink : p.type = k /\ DaemonTakes(p))
    /\ \A k \in {"hello_ack", "heartbeat", "assistant_end", "error"}, n \in 1..MaxStarts :
         WF_sysvars(\E p \in downlink : p.type = k /\ p.epoch = n /\ GameTakes(p))

SystemLiveSpec == SystemSpec /\ SystemFairness

-----------------------------------------------------------------------------
(* The head of the save, and of the save file, is one the daemon can anchor *)
(* a hello at, whatever was lost, repeated or reloaded: a finished turn of  *)
(* the save's own world, never one that was announced and then not kept.    *)
SavedHeadsAreKept == \A s \in {storage, saved} :
    IF s.world = NoWorld THEN s.head = Root ELSE s.head \in Completed(s.world) \cup {Root}

(* The answer a game takes was written for the question it asked last: the  *)
(* turn continues the head that was asked about, is known by the name the   *)
(* question was sent under, and was begun with the same words.              *)
AnswerFitsQuestion == [][storage.active # NoExchange /\ storage'.log # storage.log /\ loads' = loads =>
    LET t == storage'.head IN
    /\ t \in Completed(storage.world)
    /\ turns[t].parent = storage.active.parent
    /\ turns[t].alias = storage.active.exch
    /\ wording[t] = asked]_sysvars

(* No answer in flight that the game would take is the turn it stands on.   *)
AnswersAreNew == \A p \in downlink :
    p.type = "assistant_end" /\ Game!Accepts(p.exch, p.seq, p.epoch) => p.turn # storage.head

(* A session taken from an acknowledgement was minted after the hello it    *)
(* acknowledges was sent (daemon.py:702-703).                               *)
AckIsCurrent == [][session' \in Session /\ session' # session => session' \notin minted]_sysvars

(* Over one connection the daemon's head is the game's, or the answer to    *)
(* the question the game asked from there, as long as one process runs: a   *)
(* repeated user_message makes a restarted daemon take up the head of a     *)
(* question the game has long gone past (daemon.py:827-871).                *)
Together == /\ storage.world # NoWorld /\ peers[storage.world] # NoPeer
            /\ peers[storage.world].session = session
DaemonIsOneAhead == Together =>
    LET h == peers[storage.world].head IN
    h = storage.head \/ (h \in TurnId /\ turns[h].parent = storage.head)

(* A question does not keep the game busy for ever: it is answered, refused *)
(* or given up, also when the daemon dies under it (setup_guide.md:113-116).*)
(* The network must not lose anything, since nothing is sent twice, and     *)
(* workers must get their threads.                                          *)
BusyEnds == storage.active # NoExchange ~> storage.active = NoExchange

(* A daemon that took a question of a connection it has no memory of gets   *)
(* the game's hello afterwards (daemon.py:827-830).                         *)
TakenOver == up /\ Together /\ storage.epoch # epoch
BootstrapIsSuperseded == TakenOver ~> (storage.pending # 0 \/ ~up)
=============================================================================
