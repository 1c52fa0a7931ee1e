---------------------------- MODULE CompanionMod ----------------------------
(***************************************************************************)
(* The game's side of the protocol: the transport of the Factorio mod       *)
(* (transport_udp.lua) with the save's identity (campaign.lua) and its chat *)
(* history (chat.lua).  Factorio runs Lua on one thread, so every event     *)
(* handler is one action.  All tables under `storage` are saved with the    *)
(* game and come back as they were when it is loaded; Lua locals do not.    *)
(*                                                                          *)
(* The daemon and the network are an open environment: any packet a daemon  *)
(* could have sent to this game may arrive at any time, again or never.     *)
(* Time is counted in the checks on_tick makes every 60 ticks; what happens *)
(* between two checks happens strictly between them.  One player; system    *)
(* notices of the chat, windows and texts are left out.  D_what is D with   *)
(* a plausible bug, for the mutation runs.                                  *)
(***************************************************************************)
EXTENDS Integers, Sequences

CONSTANTS
    World, TurnId, Root,
    Session,        \* client sessions the daemons may mint
    Home,           \* the world each session is minted for
    NoWorld,        \* world of a save that is not bound yet
    NoSession,      \* runtime_session_id = nil
    NoExchange,     \* active_exchange = nil
    NoStream,       \* storage.stream = nil
    MaxEpoch,       \* bound: daemon processes
    MaxControl,     \* bound: control numbers are counted modulo it
    MaxMessages,    \* bound: questions of one timeline
    MaxSeq,         \* bound: sequence numbers of one stream
    MaxHistory,     \* companion-chat-history-limit
    MaxLoads,       \* bound: loads of a save
    Patience,       \* HEARTBEAT_TIMEOUT in checks
    HelloInterval,  \* HEARTBEAT_INTERVAL in checks
    ErrorChecks,    \* ERROR_STATUS_TICKS in checks
    SendMayFail     \* helpers.send_udp may throw

ASSUME ModAssumption ==
    /\ Home \in [Session -> World] /\ NoWorld \notin World
    /\ MaxEpoch \in Nat /\ MaxControl \in Nat \ {0} /\ MaxMessages \in Nat
    /\ MaxSeq \in Nat /\ MaxHistory \in Nat \ {0} /\ MaxLoads \in Nat
    /\ Patience \in Nat /\ HelloInterval \in Nat /\ ErrorChecks \in Nat
    /\ SendMayFail \in BOOLEAN
    /\ NoSession \notin Session /\ NoStream \notin Seq(Nat)

Exch == Session \X Nat
Turn == TurnId \cup {Root}

(* active_exchange; request_id, turn_id and exchange_id are minted together *)
(* and are one name exch = <<session, n>>.  last_seq = -1 is 0.             *)
Active == [exch : Exch, parent : Turn, last : Nat, started : BOOLEAN]
ASSUME NoExchangeAssumption == NoExchange \notin Active

Status == {"offline", "connecting", "ready", "thinking", "streaming", "error"}

(* An entry of the chat history, of kind "user" or "agent".                 *)
Asked(e) == [kind |-> "user", exch |-> e]
Answered(t) == [kind |-> "agent", turn |-> t]
Entry == [kind : {"user"}, exch : Exch] \cup [kind : {"agent"}, turn : Turn]

TooLong == Patience + 1     \* also last_packet_received = -1

Storage == [
    world   : World \cup {NoWorld},     \* companion.world_id
    head    : Turn,                     \* companion.conversation_head
    minted  : Nat,                      \* companion.turn_counter, request_counter
    log     : Seq(Entry),               \* chat_log
    stream  : Seq(Nat) \cup {NoStream}, \* stream: the deltas of the preview
    status  : Status,
    control : Nat,                      \* control_seq
    pending : Nat,                      \* pending_hello_seq, nil is 0
    epoch   : 0..MaxEpoch,              \* daemon_session_id, "" is 0
    active  : Active \cup {NoExchange},
    quiet   : 0..TooLong,               \* checks since last_packet_received
    since   : -1..Patience,             \* whole checks since last_hello_sent
    error   : 0..ErrorChecks + 1,       \* checks until error_until_tick
    even    : BOOLEAN ]                 \* the next check is at tick % 120 = 0

VARIABLES
    storage,        \* the tables saved with the game
    session,        \* runtime_session_id of campaign.lua, a Lua local
    bootstrapped,   \* runtime_bootstrapped of transport_udp.lua, a Lua local
    saved,          \* the save file
    loads           \* loads so far

mvars == <<storage, session, bootstrapped, saved, loads>>

FreshStorage ==
    [world |-> NoWorld, head |-> Root, minted |-> 0, log |-> <<>>, stream |-> NoStream,
     status |-> "offline", control |-> 0, pending |-> 0, epoch |-> 0, active |-> NoExchange,
     quiet |-> TooLong, since |-> Patience, error |-> 0, even |-> TRUE]

ModInit == /\ storage = FreshStorage /\ saved = FreshStorage
           /\ session = NoSession /\ bootstrapped = FALSE /\ loads = 0

SendResults == IF SendMayFail THEN BOOLEAN ELSE {TRUE}

-----------------------------------------------------------------------------
(* What the local functions of the transport do to storage.                 *)
Pushed(log, entry) ==
    LET full == Append(log, entry)
    IN  SubSeq(full, IF Len(full) > MaxHistory THEN Len(full) - MaxHistory + 1 ELSE 1, Len(full))

AbortExchange(s) ==
    IF s.active = NoExchange THEN s ELSE [s EXCEPT !.active = NoExchange, !.stream = NoStream]

MarkOffline_keepsExchange(s) == [s EXCEPT !.status = "offline"]
MarkOffline(s) == [AbortExchange(s) EXCEPT !.status = "offline"]

Heard(s) == [s EXCEPT !.quiet = 0]

Failing(s) == [AbortExchange(s) EXCEPT !.status = "error", !.error = ErrorChecks + 1]

(* update_daemon_session: a new process cancels what the old one answered.  *)
Renewed(s, ep) ==
    [(IF s.epoch \notin {0, ep} THEN AbortExchange(s) ELSE s) EXCEPT !.epoch = ep]

NextControl(s) == (s.control % MaxControl) + 1

(* send_hello also clears the runtime session: see the actions that say it. *)
(* age is -1 for a hello sent between two checks.                           *)
SendHello(s, ok, age) ==
    LET sent == [AbortExchange(s) EXCEPT !.quiet = TooLong, !.since = age,
                    !.control = NextControl(s), !.pending = NextControl(s)]
    IN  IF ok THEN [sent EXCEPT !.status = "connecting"] ELSE MarkOffline(sent)

SendHeartbeat(s, ok) ==
    LET sent == [s EXCEPT !.control = NextControl(s)]
    IN  IF s.world = NoWorld \/ session = NoSession THEN s
        ELSE IF ok THEN sent ELSE MarkOffline(sent)

-----------------------------------------------------------------------------
(* The game's own events.                                                   *)

(* reset_runtime_connection, on the first tick of a process.                *)
Boot_keepsExchange ==
    /\ ~bootstrapped
    /\ bootstrapped' = TRUE /\ session' = NoSession
    /\ storage' = [storage EXCEPT !.pending = 0, !.quiet = TooLong,
                       !.since = Patience, !.status = "offline"]
    /\ UNCHANGED <<saved, loads>>
Boot ==
    /\ ~bootstrapped
    /\ bootstrapped' = TRUE /\ session' = NoSession
    /\ storage' = [AbortExchange(storage) EXCEPT !.pending = 0, !.quiet = TooLong,
                       !.since = Patience, !.status = "offline"]
    /\ UNCHANGED <<saved, loads>>

(* A check: time passes, then silence, then the end of an error.            *)
Count(n, max) == IF n < max THEN n + 1 ELSE n
Aged(s) == [s EXCEPT !.quiet = Count(s.quiet, TooLong), !.since = Count(s.since, Patience),
                     !.error = IF s.error > 0 THEN s.error - 1 ELSE 0, !.even = ~s.even]

Watched_notBusy(s) ==
    IF s.status \in {"offline", "thinking", "streaming"} THEN s
    ELSE IF s.quiet > Patience THEN MarkOffline(s)
    ELSE IF s.status = "error" /\ s.error = 0 THEN [s EXCEPT !.status = "ready"]
    ELSE s

Watched(s) ==
    IF s.status = "offline" THEN s
    ELSE IF s.quiet > Patience THEN MarkOffline(s)
    ELSE IF s.status = "error" /\ s.error = 0 THEN [s EXCEPT !.status = "ready"]
    ELSE s

HelloDue_unanswered(s) == s.status = "connecting" /\ s.since >= HelloInterval
HelloDue(s) == \/ s.status = "offline" /\ s.since >= HelloInterval
               \/ s.status = "connecting" /\ s.since >= Patience

(* on_tick, at a tick divisible by 60.                                      *)
Check ==
    /\ bootstrapped
    /\ LET s == Watched(Aged(storage))
       IN  IF storage.even /\ HelloDue(s)
           THEN /\ session' = NoSession
                /\ \E ok \in SendResults : storage' = SendHello(s, ok, 0)
           ELSE /\ UNCHANGED session
                /\ \E ok \in SendResults :
                      storage' = IF storage.even /\ s.status \notin {"offline", "connecting"}
                                 THEN SendHeartbeat(s, ok) ELSE s
    /\ UNCHANGED <<bootstrapped, saved, loads>>

(* A player joins, or the mod's configuration changed.                      *)
Join == /\ session' = NoSession
        /\ \E ok \in SendResults : storage' = SendHello(storage, ok, -1)
        /\ UNCHANGED <<bootstrapped, saved, loads>>

(* The save file, and a process that starts from it.  Boot overwrites when  *)
(* the last packet and hello were before anything reads it, so the file     *)
(* need not tell.  A save that can no longer be loaded is not made.         *)
Save == /\ saved' = [storage EXCEPT !.quiet = TooLong, !.since = Patience]
        /\ loads < MaxLoads
        /\ UNCHANGED <<storage, session, bootstrapped, loads>>

Load == /\ loads < MaxLoads /\ loads' = loads + 1
        /\ storage' = saved /\ session' = NoSession /\ bootstrapped' = FALSE
        /\ UNCHANGED saved

-----------------------------------------------------------------------------
(* send_user_input: can_start_exchange, the names, the context, the packet. *)
Idle == storage.active = NoExchange /\ storage.status = "ready"
Bound == storage.world # NoWorld /\ session # NoSession

RefusedUnbound == /\ Idle /\ ~Bound
                  /\ storage' = [storage EXCEPT !.status = "connecting"]

(* More than HEARTBEAT_TIMEOUT may have passed before a check notices.      *)
RefusedSilent == /\ Idle /\ Bound /\ storage.quiet >= Patience
                 /\ storage' = MarkOffline(storage)

(* next_turn_id counts before the context is built and the packet sent.     *)
Named == /\ Idle /\ Bound /\ storage.quiet <= Patience
         /\ storage.minted < MaxMessages

ContextFails == /\ Named
                /\ storage' = [storage EXCEPT !.minted = @ + 1, !.status = "error"]

Unsendable == /\ Named
              /\ storage' = [storage EXCEPT !.minted = @ + 1]

SendFails == /\ Named /\ SendMayFail
             /\ storage' = [MarkOffline(storage) EXCEPT !.minted = @ + 1]

Asks_swapped ==
    /\ Named
    /\ LET e == <<session, storage.minted + 1>>
       IN  storage' = [storage EXCEPT
              !.minted = @ + 1, !.status = "thinking", !.log = Pushed(@, Asked(e)),
              !.active = [exch |-> storage.head, parent |-> e, last |-> 0, started |-> FALSE]]
Asks == /\ Named
        /\ LET e == <<session, storage.minted + 1>>
           IN  storage' = [storage EXCEPT
                  !.minted = @ + 1, !.status = "thinking", !.log = Pushed(@, Asked(e)),
                  !.active = [exch |-> e, parent |-> storage.head, last |-> 0, started |-> FALSE]]

UserInput == /\ \/ RefusedUnbound \/ RefusedSilent \/ ContextFails
                \/ Unsendable \/ SendFails \/ Asks
             /\ UNCHANGED <<session, bootstrapped, saved, loads>>

-----------------------------------------------------------------------------
(* Packets, which only arrive in on_tick, after Boot.  Those that fail a    *)
(* check of the handler change nothing.                                     *)
Epoch == 1..MaxEpoch

(* hello_ack to the hello with number h.                                    *)
Expected_anyHello(h, s) == storage.world \in {NoWorld, Home[s]}
Expected(h, s) ==
    IF storage.pending # 0 THEN h = storage.pending /\ storage.world \in {NoWorld, Home[s]}
    ELSE storage.world = Home[s] /\ session = s

HelloAck(h, s, ep) ==
    /\ Expected(h, s)
    /\ session' = s
    /\ storage' = [Renewed(Heard(storage), ep) EXCEPT
                      !.world = Home[s], !.pending = 0, !.error = 0, !.status = "ready"]

(* The daemon's heartbeats always name the session they are for.            *)
HeartbeatArrives(s, ep) ==
    /\ storage.world = Home[s] /\ session = s
    /\ IF storage.epoch \notin {0, ep}
       THEN /\ session' = NoSession
            /\ storage' = [Renewed(Heard(storage), ep) EXCEPT
                              !.pending = 0, !.since = Patience, !.status = "offline"]
       ELSE /\ UNCHANGED session
            /\ storage' = [Renewed(Heard(storage), ep) EXCEPT
                              !.status = IF @ \in {"connecting", "offline", "error"} THEN "ready" ELSE @]

(* active_exchange_matches, and with it accept_sequence for packet n.       *)
Matches_anyExchange(e, ep) == storage.active # NoExchange /\ storage.epoch \in {0, ep}
Matches(e, ep) == /\ storage.active # NoExchange
                  /\ storage.active.exch = e /\ storage.world = Home[e[1]]
                  /\ storage.epoch \in {0, ep}

Accepts_again(e, n, ep) == Matches(e, ep) /\ n >= storage.active.last
Accepts(e, n, ep) == Matches(e, ep) /\ n > storage.active.last

AssistantStart(e, ep) ==
    /\ Accepts(e, 1, ep)
    /\ storage' = [Heard(storage) EXCEPT !.active.last = 1, !.active.started = TRUE,
                      !.stream = <<>>, !.status = "streaming"]

AssistantDelta(e, n, ep) ==
    /\ n >= 2 /\ Accepts(e, n, ep)
    /\ storage' = [Heard(storage) EXCEPT
                      !.active.last = n, !.active.started = TRUE,
                      !.stream = Append(IF storage.active.started THEN @ ELSE <<>>, n),
                      !.status = IF storage.active.started THEN @ ELSE "streaming"]

(* assistant_end with answer t; only the first one names its parent, which  *)
(* is the question's.  A daemon never answers with the turn it continues.   *)
AssistantEnd_headKept(e, n, t, ep) ==
    /\ n >= 2 /\ Accepts(e, n, ep) /\ t # storage.head
    /\ storage' = [Heard(storage) EXCEPT
                      !.stream = NoStream, !.log = Pushed(@, Answered(t)),
                      !.active = NoExchange, !.error = 0, !.status = "ready"]
AssistantEnd_open(e, n, t, ep) ==
    /\ n >= 2 /\ Accepts(e, n, ep) /\ t # storage.head
    /\ storage' = [Heard(storage) EXCEPT
                      !.head = t, !.stream = NoStream, !.log = Pushed(@, Answered(t)),
                      !.error = 0, !.status = "ready"]
AssistantEnd(e, n, t, ep) ==
    /\ n >= 2 /\ Accepts(e, n, ep) /\ t # storage.head
    /\ storage' = [Heard(storage) EXCEPT
                      !.head = t, !.stream = NoStream, !.log = Pushed(@, Answered(t)),
                      !.active = NoExchange, !.error = 0, !.status = "ready"]

(* assistant_end without a text or a turn.                                  *)
UselessEnd(e, ep) == Matches(e, ep) /\ storage' = Failing(storage)

ExchangeError(e, n, ep) == Accepts(e, n, ep) /\ storage' = Failing(Heard(storage))

(* An error of no exchange: HISTORY_ERROR, with a world or without.         *)
ConnectionError(w) == /\ storage.active = NoExchange /\ w \in {NoWorld, storage.world}
                      /\ storage' = Failing(Heard(storage))

Packet == /\ bootstrapped
          /\ \/ \E h \in 1..MaxControl, s \in Session, ep \in Epoch : HelloAck(h, s, ep)
             \/ \E s \in Session, ep \in Epoch : HeartbeatArrives(s, ep)
             \/ /\ UNCHANGED session
                /\ \/ \E w \in World \cup {NoWorld} : ConnectionError(w)
                   \/ \E e \in Session \X (1..MaxMessages), ep \in Epoch :
                        \/ AssistantStart(e, ep)
                        \/ UselessEnd(e, ep)
                        \/ \E n \in 1..MaxSeq : \/ AssistantDelta(e, n, ep)
                                                \/ ExchangeError(e, n, ep)
                                                \/ \E t \in TurnId : AssistantEnd(e, n, t, ep)
          /\ UNCHANGED <<bootstrapped, saved, loads>>

ModNext == Boot \/ Check \/ Join \/ Save \/ Load \/ UserInput \/ Packet
ModSpec == ModInit /\ [][ModNext]_mvars

(* The game's clock runs: on_tick is called 60 times a second.              *)
ModLiveSpec == ModSpec /\ WF_mvars(Boot) /\ WF_mvars(Check)

-----------------------------------------------------------------------------
(* Every variable has its type.                                             *)
ModTypeOK ==
    /\ storage \in Storage /\ saved \in Storage
    /\ session \in Session \cup {NoSession}
    /\ bootstrapped \in BOOLEAN /\ loads \in 0..MaxLoads

(* The player is never left waiting for an exchange that is gone, nor shown *)
(* one as over that still takes packets; "ready" is what a second           *)
(* acknowledgement of the running connection makes of a busy game           *)
(* (transport_udp.lua:627).                                                 *)
BusyHasExchange ==
    /\ storage.status \in {"thinking", "streaming"} => storage.active # NoExchange
    /\ storage.active # NoExchange => storage.status \in {"thinking", "streaming", "ready"}

(* Once the first tick has run, the exchange in progress belongs to the     *)
(* connection in use and continues the head of the save as it is now: an    *)
(* answer cannot land on another head than the one the question was asked   *)
(* from (transport_udp.lua:24-26, 200, 314).                                *)
ExchangeIsCurrent == bootstrapped /\ storage.active # NoExchange =>
    /\ session = storage.active.exch[1]
    /\ storage.world = Home[session]
    /\ storage.head = storage.active.parent
    /\ storage.pending = 0

(* The preview belongs to the exchange in progress, and whatever order the  *)
(* deltas arrive in it shows a subsequence of the stream, no delta twice    *)
(* (transport_udp.lua:535-543).                                             *)
PreviewInOrder == storage.stream # NoStream =>
    /\ storage.active # NoExchange /\ storage.active.started
    /\ \A i \in DOMAIN storage.stream :
          /\ storage.stream[i] <= storage.active.last
          /\ i > 1 => storage.stream[i - 1] < storage.stream[i]

(* In the history every answer stands right under a question, and the last  *)
(* one is the turn the save continues from, through saves, loads and the    *)
(* history's limit (chat.lua:17, campaign.lua:92).                          *)
Answers == {i \in DOMAIN storage.log : storage.log[i].kind = "agent"}
HistoryMatchesHead ==
    /\ \A i \in Answers \ {1} : storage.log[i - 1].kind = "user"
    /\ \A i \in Answers : (\A j \in Answers : j <= i) => storage.log[i].turn = storage.head

(* The head of a running game moves only by the answer to the exchange in   *)
(* progress, from the turn that was asked about, and once per exchange      *)
(* (transport_udp.lua:716-771).                                             *)
HeadMovesByAnswer == [][storage'.head # storage.head /\ bootstrapped' =>
    /\ storage.active # NoExchange /\ storage'.active = NoExchange
    /\ storage.active.parent = storage.head
    /\ storage'.log # storage.log]_mvars

(* A game that hears nothing does not stay busy, ready or in error: again   *)
(* and again it has heard a packet or is offline (transport_udp.lua:862).   *)
SilenceIsNoticed == []<>(storage.quiet = 0 \/ storage.status = "offline")

(* An offline game says hello again, also after the daemon changed under it *)
(* or the save was reloaded (transport_udp.lua:879-882, 645-652).           *)
OfflineReconnects == storage.status = "offline" ~> storage.status # "offline"
=============================================================================
