--------------------------- MODULE CompanionDaemon ---------------------------
(***************************************************************************)
(* The UDP daemon (bridge/daemon.py) over the conversation store: the peers *)
(* it knows, the requests it runs on worker threads, the exchanges it can   *)
(* replay.  Every handler and every critical section of a worker runs under *)
(* _state_lock and is one action; a worker's model call happens outside the *)
(* lock, between its actions.                                               *)
(*                                                                          *)
(* A request is known by the canonical turn begun for it, so _active is a   *)
(* set of turns.  A message's exchange_id, request_id and turn_id are       *)
(* minted together, once, from its session and a counter: one identity      *)
(* exch = <<session, n>> stands for the three.  A packet that nothing waits *)
(* for may be lost whether or not sendto failed; only where the code looks  *)
(* at the result of a send does the model.  A definition D_what is D with a *)
(* plausible bug, for the mutation runs.                                    *)
(***************************************************************************)
EXTENDS ConversationStore, FiniteSets

CONSTANTS
    Addr,           \* loopback source addresses
    Session,        \* client sessions the daemon may mint
    Body,           \* what a fingerprint covers beside exchange and parent
    NoPeer,         \* peers[w] when world w has none
    NoSession,      \* session of a game that has not been acknowledged yet
    NoRequest,      \* req[t] when no worker of this process ran turn t
    MaxWorkers,     \* config.max_workers
    MaxCached,      \* config.max_cached_exchanges
    StoreMayFail,   \* SQLite may raise
    SendMayFail,    \* sendto may raise
    ThreadMayFail,  \* the system may refuse a worker its thread
    MaxStarts,      \* bound: daemon processes in a behaviour
    MaxDeltas       \* bound: deltas of one stream

ASSUME DaemonAssumption ==
    /\ ClientId \subseteq Session \X Nat
    /\ MaxWorkers \in Nat \ {0} /\ MaxCached \in Nat /\ MaxTurns > 0
    /\ MaxStarts \in Nat /\ MaxDeltas \in Nat
    /\ StoreMayFail \in BOOLEAN /\ SendMayFail \in BOOLEAN /\ ThreadMayFail \in BOOLEAN
    /\ NoWorld \notin World /\ NoSession \notin Session

Peer == [addr : Addr, gen : Nat, head : TurnId \cup {Root}, session : Session]
ASSUME NoPeerAssumption == NoPeer \notin Peer

(* Where the worker of a request is; "unstarted" has none.                  *)
Unfinished == {"unstarted", "running", "failing"}
Phase == Unfinished \cup {"answered", "unsent", "failed", "dropped"}
Request == [body : Body, gen : Nat, addr : Addr, seq : Nat, phase : Phase]
ASSUME NoRequestAssumption == NoRequest \notin Request

Exchange == [exch : ClientId, parent : TurnId \cup {Root}, body : Body, turn : TurnId,
             gen : Nat, text : Text, seq : Nat]

VARIABLES
    up,         \* the process runs
    epoch,      \* daemon_session_id: the number of the process
    peers,      \* _peers: [World -> Peer \cup {NoPeer}]
    addrWorld,  \* _address_world: [Addr -> World \cup {NoWorld}]
    active,     \* _active: turns of the requests in flight
    req,        \* RequestState of every turn begun by this process
    cache,      \* _completed: the OrderedDict of finished exchanges
    issued,     \* the world each minted session was minted for
    sent        \* the packets the last step sent

volatile == <<peers, addrWorld, active, req, cache>>
dvars == <<turns, head, up, epoch, volatile, issued, sent>>

-----------------------------------------------------------------------------
(* Packets to the game.                                                     *)
Ack(w, h, s) == [type |-> "hello_ack", world |-> w, head |-> h, session |-> s, epoch |-> epoch]
Failure(w, e, c, n) == [type |-> "error", world |-> w, exch |-> e, code |-> c, seq |-> n, epoch |-> epoch]
Beat(w, s, st) == [type |-> "heartbeat", world |-> w, session |-> s, state |-> st, epoch |-> epoch]
Start(e) == [type |-> "assistant_start", exch |-> e, seq |-> 1, epoch |-> epoch]
Delta(e, n) == [type |-> "assistant_delta", exch |-> e, seq |-> n, epoch |-> epoch]
End(w, e, t, x, n) == [type |-> "assistant_end", world |-> w, exch |-> e, turn |-> t,
                       text |-> x, seq |-> n, epoch |-> epoch]

(* A send whose result the code looks at.                                   *)
SendResults == IF SendMayFail THEN BOOLEAN ELSE {TRUE}

(* _peer_for_address_locked, as a set of at most one world.                 *)
PeerAt(a) == {w \in World : addrWorld[a] = w /\ peers[w] # NoPeer /\ peers[w].addr = a}

ActiveIn(w) == {t \in active : turns[t].world = w}

(* _request_current_locked.                                                 *)
Current_byPeer(t) == /\ peers[turns[t].world] # NoPeer
                     /\ peers[turns[t].world].gen = req[t].gen
                     /\ peers[turns[t].world].addr = req[t].addr

Current(t) == /\ t \in active
              /\ peers[turns[t].world] # NoPeer
              /\ peers[turns[t].world].gen = req[t].gen
              /\ peers[turns[t].world].addr = req[t].addr

(* _active.pop of a request that ended.                                     *)
Retired_kept(t) == active
Retired(t) == active \ {t}

(* _abort_session_turn of the requests D: an exception is only logged, and  *)
(* leaves the row pending.                                                  *)
AbortRows_skipped(D) == UNCHANGED turns

AbortRows(D) == \E done \in IF StoreMayFail THEN SUBSET D ELSE {D} : turns' = Aborted(done)

(* sync_save(w, ref) raises: it commits the world row first, and reads the  *)
(* head back after it has moved it.                                         *)
SyncFails(w, ref) ==
    \/ Anchors(w, ref) = {} /\ head' = Opened(w)
    \/ StoreMayFail /\ \E h \in {head, Opened(w)} \cup {[head EXCEPT ![w] = r] : r \in Anchors(w, ref)} :
         head' = h

NextGeneration(w) == IF peers[w] = NoPeer THEN 1 ELSE peers[w].gen + 1

-----------------------------------------------------------------------------
NoPeers == [w \in World |-> NoPeer]
NoMappings == [a \in Addr |-> NoWorld]
NoRequests == [t \in TurnId |-> NoRequest]

DaemonInit == /\ StoreInit
              /\ up = FALSE /\ epoch = 0
              /\ peers = NoPeers /\ addrWorld = NoMappings
              /\ active = {} /\ req = NoRequests /\ cache = << >>
              /\ issued = [s \in Session |-> NoWorld]
              /\ sent = {}

StartUp == /\ ~up /\ epoch < MaxStarts
           /\ up' = TRUE /\ epoch' = epoch + 1 /\ sent' = {}
           /\ UNCHANGED <<turns, head, volatile, issued>>

(* The process dies: rows and heads stay, everything in memory goes.        *)
Exit == /\ up' = FALSE /\ sent' = {}
        /\ peers' = NoPeers /\ addrWorld' = NoMappings
        /\ active' = {} /\ req' = NoRequests /\ cache' = << >>
        /\ UNCHANGED <<head, epoch, issued>>

Crash == up /\ Exit /\ UNCHANGED turns

(* stop() aborts what is in flight; its workers find _stop set afterwards.  *)
Stop == up /\ Exit /\ AbortRows(active)

-----------------------------------------------------------------------------
(* _handle_hello from address a for world w and saved head h.  A save that  *)
(* has no identity yet is given a new world.                                *)
Evicted(a, w) == {v \in {addrWorld[a]} : v \notin {NoWorld, w}}

Superseded_ownKept(a, w) == UNION {ActiveIn(v) : v \in Evicted(a, w)}

Superseded(a, w) == UNION {ActiveIn(v) : v \in Evicted(a, w)
                             \cup {u \in {w} : peers[u] # NoPeer}}

(* _address_world once the mappings of a and of w's old address are gone.   *)
Unmapped_oldKept(a, w) == [addrWorld EXCEPT ![a] = NoWorld]

Unmapped(a, w) == [b \in Addr |-> IF b = a \/ (peers[w] # NoPeer /\ peers[w].addr = b)
                                  THEN NoWorld ELSE addrWorld[b]]

Unpeered(a, w) == [v \in World |-> IF v \in Evicted(a, w) \cup {w} THEN NoPeer ELSE peers[v]]

(* _invalidate_world_locked; the worker threads run on and find out later.  *)
Invalidated(a, w) ==
    /\ up /\ active' = active \ Superseded(a, w)
    /\ AbortRows(Superseded(a, w))
    /\ UNCHANGED <<up, epoch, req, cache>>

(* new_id("session").                                                       *)
FreshSession_any(s) == TRUE
FreshSession(s) == issued[s] = NoWorld

HelloAccepted(a, w, h, s) == \E r \in Anchors(w, h) :
    /\ Invalidated(a, w)
    /\ FreshSession(s)
    /\ issued' = [issued EXCEPT ![s] = w]
    /\ head' = [head EXCEPT ![w] = r]
    /\ addrWorld' = [Unmapped(a, w) EXCEPT ![a] = w]
    /\ peers' = [Unpeered(a, w) EXCEPT ![w] =
                   [addr |-> a, gen |-> NextGeneration(w), head |-> r, session |-> s]]
    /\ sent' = {Ack(w, r, s)}

HelloFails(a, w, h) ==
    /\ Invalidated(a, w)
    /\ SyncFails(w, h)
    /\ addrWorld' = Unmapped(a, w) /\ peers' = Unpeered(a, w)
    /\ sent' = {Failure(w, NoAlias, "HISTORY_ERROR", 1)}
    /\ UNCHANGED issued

(* An unbound save that is not at the root is refused outright.             *)
HelloUnbound(a, h) ==
    /\ up /\ h # Root
    /\ sent' = {Failure(NoWorld, NoAlias, "HISTORY_ERROR", 1)}
    /\ UNCHANGED <<turns, head, up, epoch, volatile, issued>>

Hello == \E a \in Addr, h \in TurnId \cup {Root} :
    \/ HelloUnbound(a, h)
    \/ \E w \in World :
         \/ HelloFails(a, w, h)
         \/ \E s \in Session : HelloAccepted(a, w, h, s)

-----------------------------------------------------------------------------
StateOf(w) == IF ActiveIn(w) # {} THEN "busy" ELSE "ready"

(* A heartbeat of session s (none before the first hello) from address a:   *)
(* ignored when a's peer is in another session, echoed when a has no peer.  *)
Heartbeat(a, s) ==
    /\ up
    /\ LET w == IF s \in Session THEN issued[s] ELSE NoWorld
       IN  sent' = IF PeerAt(a) = {} THEN {Beat(w, s, "ready")}
                   ELSE {Beat(v, s, StateOf(v)) : v \in {u \in PeerAt(a) : u = w /\ peers[u].session = s}}
    /\ UNCHANGED <<turns, head, up, epoch, volatile, issued>>

(* _service_heartbeats: every peer hears from the daemon now and then.      *)
ServiceHeartbeats ==
    /\ up
    /\ sent' = {Beat(w, peers[w].session, StateOf(w)) : w \in {v \in World : peers[v] # NoPeer}}
    /\ UNCHANGED <<turns, head, up, epoch, volatile, issued>>

-----------------------------------------------------------------------------
(* _handle_user_message of m = [exch, parent, body] from address a.  The    *)
(* game only sends the world its session was issued for.                    *)
WorldOf(e) == issued[e[1]]
Message == [exch : {e \in ClientId : WorldOf(e) # NoWorld}, parent : TurnId \cup {Root}, body : Body]

(* The address has no peer and the world none elsewhere, so the message is  *)
(* taken for a hello.  (The code's branches for an address mapped to a      *)
(* world without a peer cannot be taken: PeerMapsAgree.)                    *)
MayBootstrap(a, m) == PeerAt(a) = {} /\ peers[WorldOf(m.exch)] = NoPeer

(* What the handler works with once the session is known: the peer tables   *)
(* and heads, the world "at" of the peer, the parent, and the packets sent. *)
Bindings(a, m) ==
    {[peers |-> peers, addrs |-> addrWorld, heads |-> head, at |-> v,
      parent |-> m.parent, out |-> {}] : v \in {u \in PeerAt(a) : peers[u].session = m.exch[1]}}
    \cup
    LET w == WorldOf(m.exch)
    IN  {[peers |-> [peers EXCEPT ![w] = [addr |-> a, gen |-> NextGeneration(w), head |-> r,
                                          session |-> m.exch[1]]],
          addrs |-> [addrWorld EXCEPT ![a] = w], heads |-> [head EXCEPT ![w] = r], at |-> w,
          parent |-> r, out |-> {Ack(w, r, m.exch[1])}] :
            r \in {q \in Anchors(w, m.parent) : MayBootstrap(a, m)}}

Rebound(b) == peers' = b.peers /\ addrWorld' = b.addrs /\ head' = b.heads
              /\ UNCHANGED <<up, epoch, issued>>

Answer(b, ps) == sent' = b.out \cup ps
Refuse(b, m, c) == /\ Answer(b, {Failure(WorldOf(m.exch), m.exch, c, 1)})
                   /\ UNCHANGED <<turns, active, req>>

(* The packet comes from no session the daemon knows: refused, nothing done.*)
StaleSession(a, m) ==
    /\ \/ \E v \in PeerAt(a) : peers[v].session # m.exch[1]
       \/ PeerAt(a) = {} /\ peers[WorldOf(m.exch)] # NoPeer
    /\ sent' = {Failure(WorldOf(m.exch), m.exch, "STALE_SESSION", 1)}
    /\ UNCHANGED <<turns, head, up, epoch, volatile, issued>>

BootstrapFails(a, m) ==
    /\ MayBootstrap(a, m)
    /\ SyncFails(WorldOf(m.exch), m.parent)
    /\ sent' = {Failure(WorldOf(m.exch), m.exch, "HISTORY_ERROR", 1)}
    /\ UNCHANGED <<turns, up, epoch, volatile, issued>>

Hits(m) == {i \in DOMAIN cache : cache[i].exch = m.exch}
Fresh(b, i) == cache[i].gen = b.peers[b.at].gen
Matches(c, m) == c.parent = m.parent /\ c.body = m.body

(* The cache without an entry for exchange e.                               *)
Others_all(e) == cache

Others(e) == IF \E i \in DOMAIN cache : cache[i].exch = e
             THEN LET i == CHOOSE i \in DOMAIN cache : cache[i].exch = e
                  IN  SubSeq(cache, 1, i - 1) \o SubSeq(cache, i + 1, Len(cache))
             ELSE cache

(* Answered in this generation: replay the answer, or refuse another text.  *)
Replay(b, m) == \E i \in Hits(m) :
    /\ Fresh(b, i) /\ Matches(cache[i], m)
    /\ cache' = Append(Others(m.exch), cache[i])
    /\ Answer(b, {End(b.at, m.exch, cache[i].turn, cache[i].text, cache[i].seq)})
    /\ UNCHANGED <<turns, active, req>>

Misused(b, m) == \E i \in Hits(m) :
    /\ Fresh(b, i) /\ ~Matches(cache[i], m)
    /\ Refuse(b, m, "DUPLICATE_EXCHANGE")
    /\ UNCHANGED cache

(* Otherwise the exchange of an older generation is forgotten first.        *)
Forgotten(b, m) == /\ \A i \in Hits(m) : ~Fresh(b, i)
                   /\ cache' = Others(m.exch)

Running(m) == {t \in active : turns[t].world = WorldOf(m.exch) /\ turns[t].alias = m.exch}

(* In flight: the first delivery owns the stream.                           *)
AlreadyRunning(b, m) == \E t \in Running(m) :
    IF turns[t].parent = m.parent /\ req[t].body = m.body
    THEN Answer(b, {}) /\ UNCHANGED <<turns, active, req>>
    ELSE Refuse(b, m, "DUPLICATE_EXCHANGE")

StaleHead(b, m) == /\ Running(m) = {} /\ b.peers[b.at].head # b.parent
                   /\ Refuse(b, m, "STALE_HEAD")

Admissible_anyHead(b, m) == Running(m) = {}
Admissible(b, m) == Running(m) = {} /\ b.peers[b.at].head = b.parent

HasRoom_anyWorld(m) == Cardinality(active) < MaxWorkers
HasRoom(m) == ActiveIn(WorldOf(m.exch)) = {} /\ Cardinality(active) < MaxWorkers
Busy(b, m) == Admissible(b, m) /\ ~HasRoom(m) /\ Refuse(b, m, "BUSY")

BeginFails(b, m) == /\ Admissible(b, m) /\ HasRoom(m) /\ StoreMayFail
                    /\ Refuse(b, m, "HISTORY_ERROR")

NewRequest(a, b, m, started) ==
    [body |-> m.body, gen |-> b.peers[b.at].gen, addr |-> a, seq |-> 2,
     phase |-> IF started THEN "running" ELSE "unstarted"]

(* The request is in _active before its worker is started.  If the system   *)
(* refuses the thread, handle_datagram answers with an error, and request   *)
(* and row stay as they are until a hello or the end of the process.        *)
Threads == IF ThreadMayFail THEN BOOLEAN ELSE {TRUE}

Accept(a, b, m) == \E t \in TurnId, started \in Threads :
    /\ Admissible(b, m) /\ HasRoom(m)
    /\ InsertTurn(WorldOf(m.exch), b.parent, m.exch, t, "pending", Blank)
    /\ active' = active \cup {t}
    /\ req' = [req EXCEPT ![t] = NewRequest(a, b, m, started)]
    /\ Answer(b, {Start(m.exch)}
                 \cup {p \in {Failure(WorldOf(m.exch), m.exch, "DAEMON_ERROR", 1)} : ~started})

(* assistant_start cannot be sent: no worker is started for the turn.       *)
StartFails(b, m) == \E t \in TurnId, st \in {"aborted"} \cup {x \in {"pending"} : StoreMayFail} :
    /\ Admissible(b, m) /\ HasRoom(m) /\ SendMayFail
    /\ InsertTurn(WorldOf(m.exch), b.parent, m.exch, t, st, Blank)
    /\ Answer(b, {})
    /\ UNCHANGED <<active, req>>

UserMessageFrom(a, m) == up /\
    \/ StaleSession(a, m)
    \/ BootstrapFails(a, m)
    \/ \E b \in Bindings(a, m) :
         /\ Rebound(b)
         /\ \/ Replay(b, m)
            \/ Misused(b, m)
            \/ /\ Forgotten(b, m)
               /\ \/ AlreadyRunning(b, m) \/ StaleHead(b, m) \/ Busy(b, m)
                  \/ BeginFails(b, m) \/ StartFails(b, m) \/ Accept(a, b, m)

UserMessage == \E a \in Addr, m \in Message : UserMessageFrom(a, m)

-----------------------------------------------------------------------------
(* The worker of turn t (_run_request).                                     *)
Owner(t) == turns[t].world
WorkerAt(t, ph) == up /\ req[t] # NoRequest /\ req[t].phase = ph
Moved(t, ph) == req' = [req EXCEPT ![t].phase = ph]

EmitDelta(t) ==
    /\ WorkerAt(t, "running") /\ Current(t)
    /\ req[t].seq < 2 + MaxDeltas
    /\ req' = [req EXCEPT ![t].seq = @ + 1]
    /\ sent' = {Delta(turns[t].alias, req[t].seq)}
    /\ UNCHANGED <<turns, head, up, epoch, peers, addrWorld, active, cache, issued>>

(* The model call, or the attempt to commit its answer, raises: no answer,  *)
(* a blank or an oversized one, a failed transaction.                       *)
ModelFails(t) ==
    /\ WorkerAt(t, "running") /\ Moved(t, "failing") /\ sent' = {}
    /\ UNCHANGED <<turns, head, up, epoch, peers, addrWorld, active, cache, issued>>

Newest(c) == SubSeq(c, IF Len(c) > MaxCached THEN Len(c) - MaxCached + 1 ELSE 1, Len(c))

Exchanged_firstSeq(t, x) ==
    [exch |-> turns[t].alias, parent |-> turns[t].parent, body |-> req[t].body,
     turn |-> t, gen |-> req[t].gen, text |-> x, seq |-> 2]

Exchanged_swapped(t, x) ==
    [exch |-> turns[t].alias, parent |-> t, body |-> req[t].body,
     turn |-> turns[t].parent, gen |-> req[t].gen, text |-> x, seq |-> req[t].seq]

Exchanged(t, x) == [exch |-> turns[t].alias, parent |-> turns[t].parent, body |-> req[t].body,
                    turn |-> t, gen |-> req[t].gen, text |-> x, seq |-> req[t].seq]

(* The peers after a game was sent the answer t.                            *)
Advanced_notYet(t) == peers
Advanced(t) == [peers EXCEPT ![Owner(t)].head = t]

(* The answer x is complete: one critical section commits and announces it. *)
Commit(t, x) == \E ok \in SendResults :
    /\ WorkerAt(t, "running") /\ Current(t)
    /\ CompleteTurn(Owner(t), t, x)
    /\ peers' = IF ok THEN Advanced(t) ELSE peers
    /\ active' = Retired(t)
    /\ cache' = Newest(Append(Others(turns[t].alias), Exchanged(t, x)))
    /\ Moved(t, IF ok THEN "answered" ELSE "unsent")
    /\ sent' = {p \in {End(Owner(t), turns[t].alias, t, x, req[t].seq)} : ok}
    /\ UNCHANGED <<up, epoch, addrWorld, issued>>

FinishError(t) ==
    /\ WorkerAt(t, "failing") /\ Current(t)
    /\ active' = Retired(t)
    /\ AbortRows({t})
    /\ Moved(t, "failed")
    /\ sent' = {Failure(Owner(t), turns[t].alias, "MODEL_ERROR", req[t].seq)}
    /\ UNCHANGED <<head, up, epoch, peers, addrWorld, cache, issued>>

(* The request was superseded while the model ran: its worker does nothing. *)
Drop(t) ==
    /\ \E ph \in {"running", "failing"} : WorkerAt(t, ph)
    /\ ~Current(t) /\ Moved(t, "dropped") /\ sent' = {}
    /\ UNCHANGED <<turns, head, up, epoch, peers, addrWorld, active, cache, issued>>

Worker(t) == EmitDelta(t) \/ ModelFails(t) \/ FinishError(t) \/ Drop(t) \/ \E x \in Text : Commit(t, x)

DaemonNext ==
    \/ StartUp \/ Crash \/ Stop
    \/ Hello \/ UserMessage
    \/ ServiceHeartbeats
    \/ \E a \in Addr, s \in {q \in Session : issued[q] # NoWorld} \cup {NoSession} : Heartbeat(a, s)
    \/ \E t \in TurnId : Worker(t)

DaemonSpec == DaemonInit /\ [][DaemonNext]_dvars

-----------------------------------------------------------------------------
(* Every variable of the daemon holds what its comment says.                *)
DaemonTypeOK ==
    /\ StoreTypeOK
    /\ up \in BOOLEAN /\ epoch \in Nat
    /\ peers \in [World -> Peer \cup {NoPeer}]
    /\ addrWorld \in [Addr -> World \cup {NoWorld}]
    /\ active \in SUBSET TurnId
    /\ req \in [TurnId -> Request \cup {NoRequest}]
    /\ cache \in Seq(Exchange)
    /\ issued \in [Session -> World \cup {NoWorld}]

(* _peers and _address_world are inverse: no stale source port keeps a      *)
(* mapping to a world that has moved on, and no peer is unreachable.        *)
PeerMapsAgree == \A a \in Addr, w \in World :
    addrWorld[a] = w <=> peers[w] # NoPeer /\ peers[w].addr = a

(* A session belongs to one world, so checking the session alone (the code  *)
(* never compares worlds) keeps a message from another world's timeline.    *)
PeersHoldTheirSession == \A w \in World :
    peers[w] # NoPeer => issued[peers[w].session] = w

(* Whatever reconnects, moves or replaces a peer also cancels its request:  *)
(* what is in _active can still be answered, over the session that asked,   *)
(* and completing it would extend the very turn the game is standing on.    *)
ActiveIsCurrent == \A t \in active :
    /\ Current(t)
    /\ t \in Pending /\ req[t].phase \in Unfinished
    /\ peers[turns[t].world].session = turns[t].alias[1]
    /\ peers[turns[t].world].head = turns[t].parent

(* One generation per world, and no more than the workers allow.            *)
OneGenerationPerWorld ==
    /\ \A t, u \in active : turns[t].world = turns[u].world => t = u
    /\ Cardinality(active) <= MaxWorkers

(* What the daemon believes to be a game's head is a finished turn of it.   *)
PeerHeadIsFinished == \A w \in World :
    peers[w] # NoPeer => peers[w].head \in Completed(w) \cup {Root}

(* While a game stays connected its head moves only forward, by one turn    *)
(* that answers the turn it stood on.                                       *)
PeerHeadAdvances == [][\A w \in World :
    /\ peers[w] # NoPeer /\ peers'[w] # NoPeer
    /\ peers'[w].gen = peers[w].gen /\ peers'[w].session = peers[w].session
    => \/ peers'[w].head = peers[w].head
       \/ /\ peers'[w].head \in Completed(w)'
          /\ turns'[peers'[w].head].parent = peers[w].head]_dvars

(* A worker that lost its request (reconnect, moved address, failure) never *)
(* commits its turn, however late it returns: not even when its row is      *)
(* still pending because the abort failed, and a new peer at the same       *)
(* address has been given the same generation number again.                 *)
SupersededNeverCommits == [][\A t \in Pending \ active :
    turns'[t].status # "completed"]_dvars

(* The replay cache is bounded, has one entry per exchange, and holds only  *)
(* answers the store has committed, as committed.                           *)
CacheIsDurable ==
    /\ Len(cache) <= MaxCached
    /\ \A i \in DOMAIN cache : LET c == cache[i] IN
         /\ \A j \in DOMAIN cache : cache[j].exch = c.exch => i = j
         /\ c.turn \in Completed(WorldOf(c.exch))
         /\ turns[c.turn].text = c.text /\ turns[c.turn].alias = c.exch

(* Without store failures, every pending row is a request in flight or was  *)
(* left by an earlier process: no failure leaks one without its request.    *)
PendingIsOwned == \A t \in Pending : t \in active \/ req[t] = NoRequest

(* An assistant_end, first sent or replayed, announces a turn the store     *)
(* holds as completed with that text, under the stream's final sequence     *)
(* number, to the session that asked.                                       *)
EndIsDurable == [][\A p \in sent' : p.type = "assistant_end" =>
    /\ p.turn \in Completed(p.world)'
    /\ turns'[p.turn].text = p.text /\ turns'[p.turn].alias = p.exch
    /\ p.seq = req'[p.turn].seq
    /\ peers'[p.world] # NoPeer /\ peers'[p.world].session = p.exch[1]]_dvars

(* A message whose generation ended is not put to the model again by a late *)
(* duplicate with the same fingerprint (protocol_spec.md:325-326).          *)
OneModelCall == \A u \in active, t \in {v \in TurnId : req[v] # NoRequest} :
    /\ req[t].phase \in {"answered", "unsent", "failed"}
    /\ turns[t].alias = turns[u].alias
    => turns[t].parent # turns[u].parent \/ req[t].body # req[u].body

(* A request whose worker could be started does not occupy its world for    *)
(* ever.                                                                    *)
RequestsEnd == \A t \in TurnId : t \in active ~> t \notin active
=============================================================================
