------------------------ MODULE CompanionDaemonProofs ------------------------
(***************************************************************************)
(* Theorems about the daemon, for any number of worlds, ports, sessions,    *)
(* messages, workers and restarts, with a store and a socket that may fail. *)
(***************************************************************************)
EXTENDS CompanionDaemon, ConversationStoreProofs, FiniteSetTheorems, SequenceTheorems

(* A request of this process has a row, under the name of its exchange.     *)
RequestsHaveRows ==
    /\ \A t \in TurnId : req[t] # NoRequest => t \in Rows /\ turns[t].alias \in ClientId
    /\ \A t \in active : req[t] # NoRequest

(* A connected world has been opened in the store.                          *)
PeersAreOpen == \A w \in World : peers[w] # NoPeer => head[w] # NoWorld

PeersInv == PeerMapsAgree /\ PeersHoldTheirSession /\ PeerHeadIsFinished /\ PeersAreOpen
ActiveInv == ActiveIsCurrent /\ OneGenerationPerWorld /\ IsFiniteSet(active)

DaemonInv == DaemonTypeOK /\ StoreInv /\ PeersInv /\ RequestsHaveRows /\ ActiveInv

-----------------------------------------------------------------------------
(* The store under the daemon's steps.                                      *)

(* Heads stay or move to finished turns.                                    *)
HeadsMove == /\ head' \in [World -> TurnId \cup {Root, NoWorld}]
             /\ \A w \in World : head'[w] = head[w] \/ head'[w] \in Completed(w) \cup {Root}

LEMMA AbortKeeps ==
    ASSUME StoreInv, NEW D, turns' = Aborted(D), HeadsMove
    PROVE  StoreTypeOK' /\ HistoryKept
BY AbortedRows DEF StoreInv, StoreTypeOK, HeadsMove, HistoryKept, Completed, InWorld, Rows

LEMMA NothingAborted == StoreTypeOK => turns = Aborted({})
BY DEF StoreTypeOK, Aborted

LEMMA AbortRowsAborts ==
    ASSUME NEW D, AbortRows(D)
    PROVE  \E done \in SUBSET D : turns' = Aborted(done)
BY DEF AbortRows

LEMMA AnchorMoves ==
    ASSUME StoreTypeOK, NEW w \in World, NEW ref, NEW r \in Anchors(w, ref),
           head' = [head EXCEPT ![w] = r]
    PROVE  HeadsMove
BY AnchorsAreFinished DEF StoreTypeOK, HeadsMove, Completed, InWorld, Rows

LEMMA OpenedMoves ==
    ASSUME StoreTypeOK, NEW w \in World, head' = Opened(w) \/ head' = head
    PROVE  HeadsMove
BY DEF StoreTypeOK, HeadsMove, Opened

LEMMA SyncFailsMoves ==
    ASSUME StoreTypeOK, NEW w \in World, NEW ref, SyncFails(w, ref)
    PROVE  HeadsMove
BY AnchorMoves, OpenedMoves DEF SyncFails

(* Of a finished turn's own name, the store makes that turn.                *)
LEMMA CanonicalAnchor ==
    ASSUME StoreTypeOK, NEW w \in World, NEW h \in Completed(w) \cup {Root}, NEW r \in Anchors(w, h)
    PROVE  r = h
<1>1. CASE h = Root
  <2>1. Candidates(w, h) = {}
    BY <1>1, StoreAssumption DEF Candidates, InWorld, Rows, StoreTypeOK, Row, Ref
  <2>2. QED
    BY <1>1, <2>1 DEF Anchors
<1>2. CASE h \in Completed(w)
  BY <1>2, StoreAssumption DEF Anchors, Candidates, Completed, InWorld, Rows
<1>3. QED
  BY <1>1, <1>2

(* Beginning a turn at the head h of an open world.                         *)
LEMMA BeginKeeps ==
    ASSUME StoreInv, HeadsMove,
           NEW w \in World, head'[w] # NoWorld, NEW h \in Completed(w) \cup {Root},
           NEW c \in ClientId, NEW t \in TurnId, NEW st \in {"pending", "aborted"},
           InsertTurn(w, h, c, t, st, Blank)
    PROVE  /\ StoreTypeOK' /\ HistoryKept
           /\ turns[t] = NoRow /\ turns'[t] = NewRow(w, h, st, Blank, c) /\ turns'[t] # NoRow
           /\ \A u \in TurnId \ {t} : turns'[u] = turns[u]
<1>1. h # Latest
  BY StoreAssumption DEF Completed, InWorld, Rows, Ref
<1>2. turns[t] = NoRow /\ turns' = [turns EXCEPT ![t] = NewRow(w, h, st, Blank, c)]
  BY <1>1, CanonicalAnchor DEF InsertTurn, Rows, StoreInv
<1>3. NewRow(w, h, st, Blank, c) \in Row
  BY DEF NewRow, Row, Status, Completed, InWorld, Rows
<1>4. NewRow(w, h, st, Blank, c) # NoRow
  BY <1>3, NoRowAssumption
<1>5. turns'[t] = NewRow(w, h, st, Blank, c) /\ \A u \in TurnId \ {t} : turns'[u] = turns[u]
  BY <1>2 DEF StoreInv, StoreTypeOK
<1>6. StoreTypeOK'
  BY <1>2, <1>3 DEF StoreInv, StoreTypeOK, HeadsMove
<1>7. \A u \in Rows : u # t
  BY <1>2 DEF Rows
<1>8. turns'[t].world = w /\ turns'[t].parent = h
  BY <1>5 DEF NewRow
<1>9. HistoryKept
  BY <1>2, <1>5, <1>7, <1>8 DEF HistoryKept, HeadsMove, Completed, InWorld, Rows
<1>10. QED
  BY <1>2, <1>4, <1>5, <1>6, <1>9

-----------------------------------------------------------------------------
(* The two ways a user message meets its peer: on a connected session, or   *)
(* on an address and a world that have none.                                *)
Known(a, m, b, w) ==
    /\ peers[w] # NoPeer /\ peers[w].addr = a /\ peers[w].session = m.exch[1]
    /\ b.peers = peers /\ b.addrs = addrWorld /\ b.heads = head

Bootstrapped(a, m, b, w, r) ==
    /\ peers[w] = NoPeer /\ addrWorld[a] = NoWorld
    /\ b.peers = [peers EXCEPT ![w] = [addr |-> a, gen |-> 1, head |-> r, session |-> m.exch[1]]]
    /\ b.addrs = [addrWorld EXCEPT ![a] = w]
    /\ b.heads = [head EXCEPT ![w] = r]
    /\ b.parent = r

LEMMA MessageFacts ==
    ASSUME DaemonTypeOK, NEW m \in Message
    PROVE  /\ m.exch \in ClientId /\ m.exch[1] \in Session /\ m.body \in Body
           /\ WorldOf(m.exch) \in World /\ issued[m.exch[1]] = WorldOf(m.exch)
BY DaemonAssumption DEF DaemonTypeOK, Message, WorldOf

LEMMA BindingFacts ==
    ASSUME DaemonTypeOK, PeersInv, NEW a \in Addr, NEW m \in Message, NEW b \in Bindings(a, m),
           NEW w, w = WorldOf(m.exch)
    PROVE  /\ b.at = w
           /\ Known(a, m, b, w) \/ \E r \in Anchors(w, m.parent) : Bootstrapped(a, m, b, w, r)
<1>0. w \in World /\ issued[m.exch[1]] = w
  BY MessageFacts
<1>1. CASE \E v \in {u \in PeerAt(a) : peers[u].session = m.exch[1]} :
             b = [peers |-> peers, addrs |-> addrWorld, heads |-> head, at |-> v,
                  parent |-> m.parent, out |-> {}]
  <2>1. PICK v \in PeerAt(a) : /\ peers[v].session = m.exch[1]
                               /\ b = [peers |-> peers, addrs |-> addrWorld, heads |-> head, at |-> v,
                                       parent |-> m.parent, out |-> {}]
    BY <1>1
  <2>2. v \in World /\ peers[v] # NoPeer /\ peers[v].addr = a
    BY DEF PeerAt
  <2>3. v = w
    BY <1>0, <2>1, <2>2 DEF PeersInv, PeersHoldTheirSession
  <2>4. QED
    BY <2>1, <2>2, <2>3 DEF Known
<1>2. CASE \E r \in {q \in Anchors(w, m.parent) : MayBootstrap(a, m)} :
             b = [peers |-> [peers EXCEPT ![w] = [addr |-> a, gen |-> NextGeneration(w), head |-> r,
                                                  session |-> m.exch[1]]],
                  addrs |-> [addrWorld EXCEPT ![a] = w], heads |-> [head EXCEPT ![w] = r], at |-> w,
                  parent |-> r, out |-> {Ack(w, r, m.exch[1])}]
  <2>1. MayBootstrap(a, m)
    BY <1>2
  <2>2. peers[w] = NoPeer /\ PeerAt(a) = {}
    BY <2>1 DEF MayBootstrap
  <2>3. addrWorld[a] = NoWorld
    BY <2>2 DEF PeerAt, PeersInv, PeerMapsAgree, DaemonTypeOK
  <2>4. NextGeneration(w) = 1
    BY <2>2 DEF NextGeneration
  <2>5. PICK r \in Anchors(w, m.parent) :
          b = [peers |-> [peers EXCEPT ![w] = [addr |-> a, gen |-> 1, head |-> r, session |-> m.exch[1]]],
               addrs |-> [addrWorld EXCEPT ![a] = w], heads |-> [head EXCEPT ![w] = r], at |-> w,
               parent |-> r, out |-> {Ack(w, r, m.exch[1])}]
    BY <1>2, <2>4
  <2>6. Bootstrapped(a, m, b, w, r) /\ b.at = w
    BY <2>2, <2>3, <2>5 DEF Bootstrapped
  <2>7. QED
    BY <2>6
<1>3. QED
  BY <1>1, <1>2 DEF Bindings

(* What the binding leaves for the rest of the handler.                     *)
LEMMA RebindingFacts ==
    ASSUME DaemonTypeOK, PeersInv, NEW a \in Addr, NEW m \in Message, NEW b \in Bindings(a, m),
           Rebound(b), NEW w, w = WorldOf(m.exch)
    PROVE  /\ peers' \in [World -> Peer \cup {NoPeer}]
           /\ addrWorld' \in [Addr -> World \cup {NoWorld}]
           /\ HeadsMove /\ head'[w] # NoWorld
           /\ peers'[w] \in Peer /\ peers'[w].addr = a /\ peers'[w].session = m.exch[1]
           /\ PeerMapsAgree' /\ PeersHoldTheirSession' /\ PeersAreOpen'
           /\ \A v \in World : peers[v] # NoPeer => peers'[v] = peers[v]
           /\ \A v \in World : peers'[v] # NoPeer => peers'[v].head \in Completed(v) \cup {Root}
<1>0. w \in World /\ issued[m.exch[1]] = w /\ m.exch[1] \in Session /\ issued' = issued
  BY MessageFacts DEF Rebound
<1>1. CASE Known(a, m, b, w)
  <2>1. peers' = peers /\ addrWorld' = addrWorld /\ head' = head
    BY <1>1 DEF Known, Rebound
  <2>2. HeadsMove
    BY <2>1 DEF HeadsMove, DaemonTypeOK, StoreTypeOK
  <2>3. PeerMapsAgree' /\ PeersHoldTheirSession' /\ PeersAreOpen'
    BY <1>0, <2>1 DEF PeersInv, PeerMapsAgree, PeersHoldTheirSession, PeersAreOpen
  <2>4. peers[w] \in Peer
    BY <1>0, <1>1 DEF Known, DaemonTypeOK
  <2>5. QED
    BY <1>0, <1>1, <2>1, <2>2, <2>3, <2>4
       DEF Known, DaemonTypeOK, PeersInv, PeersAreOpen, PeerHeadIsFinished
<1>2. ASSUME NEW r \in Anchors(w, m.parent), Bootstrapped(a, m, b, w, r)
      PROVE  /\ peers' \in [World -> Peer \cup {NoPeer}]
             /\ addrWorld' \in [Addr -> World \cup {NoWorld}]
             /\ HeadsMove /\ head'[w] # NoWorld
             /\ peers'[w] \in Peer /\ peers'[w].addr = a /\ peers'[w].session = m.exch[1]
             /\ PeerMapsAgree' /\ PeersHoldTheirSession' /\ PeersAreOpen'
             /\ \A v \in World : peers[v] # NoPeer => peers'[v] = peers[v]
             /\ \A v \in World : peers'[v] # NoPeer => peers'[v].head \in Completed(v) \cup {Root}
  <2> DEFINE p == [addr |-> a, gen |-> 1, head |-> r, session |-> m.exch[1]]
  <2>1. /\ peers' = [peers EXCEPT ![w] = p]
        /\ addrWorld' = [addrWorld EXCEPT ![a] = w] /\ head' = [head EXCEPT ![w] = r]
    BY <1>2 DEF Bootstrapped, Rebound
  <2>2. r \in Completed(w) \cup {Root} /\ r \in TurnId \cup {Root}
    BY <1>0, AnchorsAreFinished DEF Completed, InWorld, Rows
  <2>3. p \in Peer /\ p # NoPeer
    BY <1>0, <2>2, NoPeerAssumption DEF Peer
  <2>4. HeadsMove
    BY <1>0, <2>1, AnchorMoves DEF DaemonTypeOK
  <2>5. peers'[w] = p /\ \A v \in World : v # w => peers'[v] = peers[v]
    BY <1>0, <2>1 DEF DaemonTypeOK
  <2>6. /\ peers' \in [World -> Peer \cup {NoPeer}]
        /\ addrWorld' \in [Addr -> World \cup {NoWorld}]
    BY <1>0, <2>1, <2>3 DEF DaemonTypeOK
  <2>7. head'[w] # NoWorld /\ \A v \in World : v # w => head'[v] = head[v]
    BY <1>0, <2>1, <2>2, StoreAssumption DEF DaemonTypeOK, StoreTypeOK
  <2>8. PeersAreOpen' /\ PeersHoldTheirSession'
    BY <1>0, <2>3, <2>5, <2>7 DEF PeersAreOpen, PeersHoldTheirSession, PeersInv
  <2>9. PeerMapsAgree'
    <3> SUFFICES ASSUME NEW c \in Addr, NEW v \in World
                 PROVE  addrWorld'[c] = v <=> peers'[v] # NoPeer /\ peers'[v].addr = c
      BY DEF PeerMapsAgree
    <3>1. addrWorld[c] = v <=> peers[v] # NoPeer /\ peers[v].addr = c
      BY DEF PeersInv, PeerMapsAgree
    <3>2. peers[w] = NoPeer /\ addrWorld[a] = NoWorld /\ NoWorld # v
      BY <1>2, DaemonAssumption DEF Bootstrapped
    <3>3. addrWorld'[c] = IF c = a THEN w ELSE addrWorld[c]
      BY <2>1 DEF DaemonTypeOK
    <3>4. peers'[v] = IF v = w THEN p ELSE peers[v]
      BY <2>5
    <3>5. QED
      BY <2>3, <3>1, <3>2, <3>3, <3>4
  <2>10. \A v \in World : peers[v] # NoPeer => peers'[v] = peers[v]
    BY <1>2, <2>5 DEF Bootstrapped
  <2>11. \A v \in World : peers'[v] # NoPeer => peers'[v].head \in Completed(v) \cup {Root}
    BY <2>2, <2>5 DEF PeersInv, PeerHeadIsFinished
  <2>12. QED
    BY <2>3, <2>4, <2>5, <2>6, <2>7, <2>8, <2>9, <2>10, <2>11
<1>3. QED
  BY <1>1, <1>2, BindingFacts

-----------------------------------------------------------------------------
(* Facts every action's proof uses.                                         *)
LEMMA AbortedOthers ==
    ASSUME StoreTypeOK, NEW D, turns' = Aborted(D)
    PROVE  \A t \in TurnId :
             /\ t \notin D => turns'[t] = turns[t]
             /\ turns[t] # NoRow => turns'[t].alias = turns[t].alias
BY DEF StoreTypeOK, Aborted, Rows, Pending, Row

LEMMA ActiveFacts ==
    ASSUME DaemonInv, NEW t \in active
    PROVE  /\ t \in TurnId /\ t \in Rows /\ turns[t] \in Row
           /\ turns[t].world \in World /\ turns[t].alias \in ClientId
           /\ req[t] \in Request /\ req[t] # NoRequest
           /\ peers[turns[t].world] \in Peer /\ peers[turns[t].world] # NoPeer
BY DEF DaemonInv, DaemonTypeOK, StoreTypeOK, RequestsHaveRows, ActiveInv, ActiveIsCurrent, Current,
       Rows, Row

(* Requests that keep their row, their peer and their state stay current.   *)
LEMMA Survivors ==
    ASSUME DaemonInv, active' \in SUBSET active,
           \A t \in active' :
             /\ turns'[t] = turns[t] /\ peers'[turns[t].world] = peers[turns[t].world]
             /\ req'[t].gen = req[t].gen /\ req'[t].addr = req[t].addr
             /\ req'[t].phase \in Unfinished
    PROVE  ActiveInv'
<1>1. ActiveIsCurrent'
  <2> SUFFICES ASSUME NEW t \in active'
               PROVE  /\ Current(t)'
                      /\ t \in Pending' /\ req'[t].phase \in Unfinished
                      /\ peers'[turns'[t].world].session = turns'[t].alias[1]
                      /\ peers'[turns'[t].world].head = turns'[t].parent
    BY DEF ActiveIsCurrent
  <2>1. /\ Current(t) /\ t \in Pending
        /\ peers[turns[t].world].session = turns[t].alias[1]
        /\ peers[turns[t].world].head = turns[t].parent
    BY DEF DaemonInv, ActiveInv, ActiveIsCurrent
  <2>2. QED
    BY <2>1 DEF Current, Pending, Rows
<1>2. IsFiniteSet(active') /\ Cardinality(active') <= Cardinality(active)
  BY FS_Subset DEF DaemonInv, ActiveInv
<1>3. Cardinality(active) \in Nat /\ Cardinality(active') \in Nat /\ Cardinality(active) <= MaxWorkers
  BY <1>2, FS_CardinalityType DEF DaemonInv, ActiveInv, OneGenerationPerWorld
<1>4. OneGenerationPerWorld'
  BY <1>2, <1>3, DaemonAssumption DEF DaemonInv, ActiveInv, OneGenerationPerWorld
<1>5. QED
  BY <1>1, <1>2, <1>4 DEF ActiveInv

LEMMA FinishedStay ==
    ASSUME HistoryKept, NEW w \in World
    PROVE  Completed(w) \subseteq Completed(w)'
BY DEF HistoryKept, Completed, InWorld, Rows

LEMMA PeerHeadsKept ==
    ASSUME HistoryKept,
           \A v \in World : peers'[v] # NoPeer => peers'[v].head \in Completed(v) \cup {Root}
    PROVE  PeerHeadIsFinished'
BY FinishedStay DEF PeerHeadIsFinished

LEMMA OpenStay ==
    ASSUME HistoryKept, PeersAreOpen, \A v \in World : peers'[v] = NoPeer \/ peers[v] # NoPeer
    PROVE  PeersAreOpen'
BY StoreAssumption DEF PeersAreOpen, HistoryKept, Completed, InWorld, Rows

(* Whoever's row was there before stays there under its name.               *)
LEMMA RequestRowsKept ==
    ASSUME DaemonInv, HistoryKept, active' \in SUBSET active,
           \A t \in TurnId : req'[t] # NoRequest <=> req[t] # NoRequest,
           \A t \in Rows : turns'[t].alias = turns[t].alias
    PROVE  RequestsHaveRows'
BY DEF DaemonInv, DaemonTypeOK, RequestsHaveRows, HistoryKept, Rows

-----------------------------------------------------------------------------
(* Start, crash, stop, and the packets that change nothing.                 *)
LEMMA RestartKeeps ==
    ASSUME DaemonInv, Exit, NEW D, turns' = Aborted(D)
    PROVE  DaemonInv'
<1>1. HeadsMove
  BY DEF Exit, HeadsMove, DaemonInv, DaemonTypeOK, StoreTypeOK
<1>2. StoreTypeOK' /\ HistoryKept
  BY <1>1, AbortKeeps DEF DaemonInv
<1>3. StoreInv'
  BY <1>2, KeptInv DEF DaemonInv
<1>4. DaemonTypeOK'
  BY <1>2, EmptySeq DEF Exit, NoPeers, NoMappings, NoRequests, DaemonInv, DaemonTypeOK
<1>5. PeersInv'
  BY DaemonAssumption DEF Exit, NoPeers, NoMappings, PeersInv, PeerMapsAgree, PeersHoldTheirSession,
        PeerHeadIsFinished, PeersAreOpen
<1>6. RequestsHaveRows'
  BY DEF Exit, NoRequests, RequestsHaveRows
<1>7. ActiveInv'
  BY FS_EmptySet, DaemonAssumption DEF Exit, ActiveInv, ActiveIsCurrent, OneGenerationPerWorld
<1>8. QED
  BY <1>3, <1>4, <1>5, <1>6, <1>7 DEF DaemonInv

LEMMA IdleHistory == UNCHANGED <<turns, head>> => HistoryKept
BY DEF HistoryKept, Rows

LEMMA IdleKeeps ==
    ASSUME DaemonInv, up' \in BOOLEAN, epoch' \in Nat, UNCHANGED <<turns, head, volatile, issued>>
    PROVE  DaemonInv'
<1>1. UNCHANGED <<turns, head, peers, addrWorld, active, req, cache, issued>>
  BY DEF volatile
<1>2. DaemonTypeOK' /\ StoreInv'
  BY <1>1 DEF DaemonInv, DaemonTypeOK, StoreInv, StoreTypeOK, HeadIsFinished, ParentIsFinished,
              RowsHaveWorlds, Completed, InWorld, Rows
<1>3. PeersInv'
  BY <1>1 DEF DaemonInv, PeersInv, PeerMapsAgree, PeersHoldTheirSession, PeerHeadIsFinished,
              PeersAreOpen, Completed, InWorld, Rows
<1>4. RequestsHaveRows' /\ ActiveInv'
  BY <1>1 DEF DaemonInv, RequestsHaveRows, ActiveInv, ActiveIsCurrent, OneGenerationPerWorld, Current,
              Pending, Rows
<1>5. QED
  BY <1>2, <1>3, <1>4 DEF DaemonInv

-----------------------------------------------------------------------------
(* Hello.                                                                   *)

(* Invalidating the worlds a hello concerns touches no other request.       *)
LEMMA InvalidationKeeps ==
    ASSUME DaemonInv, NEW a \in Addr, NEW w \in World, Invalidated(a, w), HeadsMove,
           issued' \in [Session -> World \cup {NoWorld}],
           peers' \in [World -> Peer \cup {NoPeer}], addrWorld' \in [Addr -> World \cup {NoWorld}],
           \A v \in World \ {w} : v \notin Evicted(a, w) => peers'[v] = peers[v]
    PROVE  HistoryKept /\ DaemonTypeOK' /\ StoreInv' /\ RequestsHaveRows' /\ ActiveInv'
<1>1. /\ active' = active \ Superseded(a, w)
      /\ UNCHANGED <<up, epoch, req, cache>>
  BY DEF Invalidated
<1>2. PICK done \in SUBSET Superseded(a, w) : turns' = Aborted(done)
  BY AbortRowsAborts DEF Invalidated
<1>3. StoreTypeOK' /\ HistoryKept
  BY <1>2, AbortKeeps DEF DaemonInv
<1>4. StoreInv'
  BY <1>3, KeptInv DEF DaemonInv
<1>5. DaemonTypeOK'
  BY <1>1, <1>3 DEF DaemonInv, DaemonTypeOK
<1>6. RequestsHaveRows'
  BY <1>1, <1>2, <1>3, AbortedOthers, RequestRowsKept DEF DaemonInv, DaemonTypeOK, Rows
<1>7. ASSUME NEW t \in active'
      PROVE  /\ turns'[t] = turns[t] /\ peers'[turns[t].world] = peers[turns[t].world]
             /\ req'[t].gen = req[t].gen /\ req'[t].addr = req[t].addr
             /\ req'[t].phase \in Unfinished
  <2>1. t \in active /\ t \notin Superseded(a, w)
    BY <1>1
  <2>2. t \in TurnId /\ turns[t].world \in World /\ peers[turns[t].world] # NoPeer
    BY <2>1, ActiveFacts
  <2>3. turns[t].world \notin Evicted(a, w) /\ turns[t].world # w
    BY <2>1, <2>2 DEF Superseded, ActiveIn
  <2>4. turns'[t] = turns[t]
    BY <1>2, <2>1, <2>2, AbortedOthers DEF DaemonInv, DaemonTypeOK
  <2>5. req'[t].phase \in Unfinished
    BY <1>1, <2>1 DEF DaemonInv, ActiveInv, ActiveIsCurrent
  <2>6. QED
    BY <1>1, <2>2, <2>3, <2>4, <2>5
<1>8. ActiveInv'
  BY <1>1, <1>7, Survivors
<1>9. QED
  BY <1>3, <1>4, <1>5, <1>6, <1>8

LEMMA HelloFailsKeeps ==
    ASSUME DaemonInv, NEW a \in Addr, NEW w \in World, NEW h, HelloFails(a, w, h)
    PROVE  DaemonInv' /\ HistoryKept
<1>1. HeadsMove
  BY SyncFailsMoves DEF HelloFails, DaemonInv, DaemonTypeOK
<1>2. /\ Invalidated(a, w) /\ addrWorld' = Unmapped(a, w) /\ peers' = Unpeered(a, w)
      /\ issued' = issued
  BY DEF HelloFails
<1>3. /\ issued' \in [Session -> World \cup {NoWorld}]
      /\ peers' \in [World -> Peer \cup {NoPeer}] /\ addrWorld' \in [Addr -> World \cup {NoWorld}]
  BY <1>2 DEF DaemonInv, DaemonTypeOK, Unmapped, Unpeered
<1>4. \A v \in World : peers'[v] = IF v \in Evicted(a, w) \cup {w} THEN NoPeer ELSE peers[v]
  BY <1>2 DEF Unpeered
<1>5. HistoryKept /\ DaemonTypeOK' /\ StoreInv' /\ RequestsHaveRows' /\ ActiveInv'
  BY <1>1, <1>2, <1>3, <1>4, InvalidationKeeps
<1>6. PeersHoldTheirSession'
  BY <1>2, <1>4 DEF DaemonInv, PeersInv, PeersHoldTheirSession
<1>7. PeerHeadIsFinished' /\ PeersAreOpen'
  BY <1>4, <1>5, PeerHeadsKept, OpenStay DEF DaemonInv, PeersInv, PeerHeadIsFinished
<1>8. PeerMapsAgree'
  <2> SUFFICES ASSUME NEW b \in Addr, NEW v \in World
               PROVE  addrWorld'[b] = v <=> peers'[v] # NoPeer /\ peers'[v].addr = b
    BY DEF PeerMapsAgree
  <2>1. \A c \in Addr, u \in World : addrWorld[c] = u <=> peers[u] # NoPeer /\ peers[u].addr = c
    BY DEF DaemonInv, PeersInv, PeerMapsAgree
  <2>2. addrWorld'[b] = IF b = a \/ (peers[w] # NoPeer /\ peers[w].addr = b) THEN NoWorld ELSE addrWorld[b]
    BY <1>2 DEF Unmapped
  <2>3. QED
    BY <1>4, <2>1, <2>2, DaemonAssumption DEF Evicted
<1>9. QED
  BY <1>5, <1>6, <1>7, <1>8 DEF DaemonInv, PeersInv

LEMMA HelloAcceptedKeeps ==
    ASSUME DaemonInv, NEW a \in Addr, NEW w \in World, NEW h, NEW s \in Session,
           HelloAccepted(a, w, h, s)
    PROVE  DaemonInv' /\ HistoryKept
<1>1. PICK r \in Anchors(w, h) :
        /\ Invalidated(a, w) /\ FreshSession(s)
        /\ issued' = [issued EXCEPT ![s] = w] /\ head' = [head EXCEPT ![w] = r]
        /\ addrWorld' = [Unmapped(a, w) EXCEPT ![a] = w]
        /\ peers' = [Unpeered(a, w) EXCEPT ![w] =
                       [addr |-> a, gen |-> NextGeneration(w), head |-> r, session |-> s]]
  BY DEF HelloAccepted
<1> DEFINE p == [addr |-> a, gen |-> NextGeneration(w), head |-> r, session |-> s]
<1>2. HeadsMove
  BY <1>1, AnchorMoves DEF DaemonInv, DaemonTypeOK
<1>3. r \in Completed(w) \cup {Root} /\ r \in TurnId \cup {Root}
  BY <1>1, AnchorsAreFinished DEF Completed, InWorld, Rows
<1>4. NextGeneration(w) \in Nat
  BY DEF NextGeneration, DaemonInv, DaemonTypeOK, Peer
<1>5. p \in Peer /\ p # NoPeer
  BY <1>3, <1>4, NoPeerAssumption DEF Peer
<1>6. /\ issued' \in [Session -> World \cup {NoWorld}]
      /\ peers' \in [World -> Peer \cup {NoPeer}] /\ addrWorld' \in [Addr -> World \cup {NoWorld}]
  BY <1>1, <1>5 DEF DaemonInv, DaemonTypeOK, Unmapped, Unpeered
<1>7. \A v \in World : peers'[v] = IF v = w THEN p
                                   ELSE IF v \in Evicted(a, w) THEN NoPeer ELSE peers[v]
  BY <1>1 DEF Unpeered
<1>8. HistoryKept /\ DaemonTypeOK' /\ StoreInv' /\ RequestsHaveRows' /\ ActiveInv'
  BY <1>1, <1>2, <1>6, <1>7, InvalidationKeeps
<1>9. PeersHoldTheirSession'
  <2>1. \A v \in World : peers[v] # NoPeer => peers[v].session # s /\ peers[v].session \in Session
    BY <1>1, DaemonAssumption DEF DaemonInv, DaemonTypeOK, Peer, PeersInv, PeersHoldTheirSession,
                                  FreshSession
  <2>2. \A z \in Session : issued'[z] = IF z = s THEN w ELSE issued[z]
    BY <1>1 DEF DaemonInv, DaemonTypeOK
  <2>3. QED
    BY <1>7, <2>1, <2>2 DEF DaemonInv, PeersInv, PeersHoldTheirSession
<1>10. \A v \in World : peers'[v] # NoPeer => peers'[v].head \in Completed(v) \cup {Root}
  BY <1>3, <1>7 DEF DaemonInv, PeersInv, PeerHeadIsFinished
<1>11. PeerHeadIsFinished'
  BY <1>8, <1>10, PeerHeadsKept
<1>12. PeersAreOpen'
  <2>1. head'[w] # NoWorld /\ \A v \in World : v # w => head'[v] = head[v]
    BY <1>1, <1>3, StoreAssumption DEF DaemonInv, DaemonTypeOK, StoreTypeOK
  <2>2. QED
    BY <1>7, <2>1 DEF DaemonInv, PeersInv, PeersAreOpen
<1>13. PeerMapsAgree'
  <2> SUFFICES ASSUME NEW b \in Addr, NEW v \in World
               PROVE  addrWorld'[b] = v <=> peers'[v] # NoPeer /\ peers'[v].addr = b
    BY DEF PeerMapsAgree
  <2>1. \A c \in Addr, u \in World : addrWorld[c] = u <=> peers[u] # NoPeer /\ peers[u].addr = c
    BY DEF DaemonInv, PeersInv, PeerMapsAgree
  <2>2. addrWorld'[b] = IF b = a THEN w
                        ELSE IF peers[w] # NoPeer /\ peers[w].addr = b THEN NoWorld ELSE addrWorld[b]
    BY <1>1 DEF Unmapped
  <2>3. \A u \in World : u \in Evicted(a, w) <=> u # w /\ addrWorld[a] = u
    BY DaemonAssumption DEF Evicted
  <2>4. p.addr = a
    OBVIOUS
  <2>5. QED
    BY <1>5, <1>7, <2>1, <2>2, <2>3, <2>4, DaemonAssumption
<1>14. QED
  BY <1>8, <1>9, <1>11, <1>12, <1>13 DEF DaemonInv, PeersInv

-----------------------------------------------------------------------------
(* The replay cache stays a sequence of exchanges.                          *)
LEMMA OthersType ==
    ASSUME cache \in Seq(Exchange), NEW e
    PROVE  Others(e) \in Seq(Exchange)
<1>1. CASE \E i \in DOMAIN cache : cache[i].exch = e
  <2> DEFINE i == CHOOSE j \in DOMAIN cache : cache[j].exch = e
  <2>1. i \in 1..Len(cache) /\ Len(cache) \in Nat
    BY <1>1, LenProperties
  <2>2. \A j \in 1..Len(cache) : cache[j] \in Exchange
    BY ElementOfSeq
  <2>3. SubSeq(cache, 1, i - 1) \in Seq(Exchange) /\ SubSeq(cache, i + 1, Len(cache)) \in Seq(Exchange)
    <3> HIDE DEF i
    <3>1. \A j \in 1..(i - 1) : cache[j] \in Exchange
      BY <2>1, <2>2
    <3>2. \A j \in (i + 1)..Len(cache) : cache[j] \in Exchange
      BY <2>1, <2>2
    <3>3. i - 1 \in Int /\ i + 1 \in Int /\ Len(cache) \in Int
      BY <2>1
    <3>4. QED
      BY <3>1, <3>2, <3>3, SubSeqProperties
  <2>4. SubSeq(cache, 1, i - 1) \o SubSeq(cache, i + 1, Len(cache)) \in Seq(Exchange)
    BY <2>3, ConcatProperties
  <2>5. QED
    BY <1>1, <2>4 DEF Others
<1>2. CASE ~\E i \in DOMAIN cache : cache[i].exch = e
  BY <1>2 DEF Others
<1>3. QED
  BY <1>1, <1>2

LEMMA NewestType ==
    ASSUME NEW c \in Seq(Exchange)
    PROVE  Newest(c) \in Seq(Exchange)
<1> DEFINE m == IF Len(c) > MaxCached THEN Len(c) - MaxCached + 1 ELSE 1
<1>1. Len(c) \in Nat /\ m \in Int /\ m >= 1
  BY LenProperties, DaemonAssumption
<1>2. \A j \in m..Len(c) : c[j] \in Exchange
  BY <1>1, ElementOfSeq
<1>3. QED
  BY <1>1, <1>2, SubSeqProperties DEF Newest

-----------------------------------------------------------------------------
(* User messages.                                                           *)
LEMMA BootstrapFailsKeeps ==
    ASSUME DaemonInv, NEW a \in Addr, NEW m \in Message, BootstrapFails(a, m)
    PROVE  DaemonInv' /\ HistoryKept
<1>1. /\ SyncFails(WorldOf(m.exch), m.parent)
      /\ UNCHANGED <<turns, up, epoch, peers, addrWorld, active, req, cache, issued>>
  BY DEF BootstrapFails, volatile
<1>2. WorldOf(m.exch) \in World
  BY MessageFacts DEF DaemonInv
<1>3. HeadsMove /\ turns' = Aborted({})
  BY <1>1, <1>2, SyncFailsMoves, NothingAborted DEF DaemonInv, DaemonTypeOK
<1>4. StoreTypeOK' /\ HistoryKept
  BY <1>3, AbortKeeps DEF DaemonInv
<1>5. StoreInv' /\ DaemonTypeOK'
  BY <1>1, <1>4, KeptInv DEF DaemonInv, DaemonTypeOK
<1>6. PeersInv'
  <2>1. PeerMapsAgree' /\ PeersHoldTheirSession'
    BY <1>1 DEF DaemonInv, PeersInv, PeerMapsAgree, PeersHoldTheirSession
  <2>2. PeerHeadIsFinished' /\ PeersAreOpen'
    BY <1>1, <1>4, PeerHeadsKept, OpenStay DEF DaemonInv, PeersInv, PeerHeadIsFinished
  <2>3. QED
    BY <2>1, <2>2 DEF PeersInv
<1>7. RequestsHaveRows'
  BY <1>1 DEF DaemonInv, RequestsHaveRows, Rows
<1>8. ActiveInv'
  BY <1>1, Survivors DEF DaemonInv, ActiveInv, ActiveIsCurrent
<1>9. QED
  BY <1>4, <1>5, <1>6, <1>7, <1>8 DEF DaemonInv

(* A message that begins no turn leaves rows and requests alone.            *)
LEMMA UnansweredKeeps ==
    ASSUME DaemonInv, NEW a \in Addr, NEW m \in Message, NEW b \in Bindings(a, m), Rebound(b),
           UNCHANGED <<turns, active, req>>, cache' \in Seq(Exchange)
    PROVE  DaemonInv' /\ HistoryKept
<1> DEFINE w == WorldOf(m.exch)
<1>1. /\ peers' \in [World -> Peer \cup {NoPeer}]
      /\ addrWorld' \in [Addr -> World \cup {NoWorld}]
      /\ HeadsMove
      /\ PeerMapsAgree' /\ PeersHoldTheirSession' /\ PeersAreOpen'
      /\ \A v \in World : peers[v] # NoPeer => peers'[v] = peers[v]
      /\ \A v \in World : peers'[v] # NoPeer => peers'[v].head \in Completed(v) \cup {Root}
  BY RebindingFacts DEF DaemonInv
<1>2. StoreTypeOK' /\ HistoryKept
  BY <1>1, AbortKeeps, NothingAborted DEF DaemonInv, StoreInv
<1>3. StoreInv' /\ DaemonTypeOK'
  BY <1>1, <1>2, KeptInv DEF Rebound, DaemonInv, DaemonTypeOK
<1>4. PeersInv'
  BY <1>1, <1>2, PeerHeadsKept DEF PeersInv
<1>5. RequestsHaveRows'
  BY DEF DaemonInv, RequestsHaveRows, Rows
<1>6. ActiveInv'
  BY <1>1, Survivors, ActiveFacts DEF DaemonInv, ActiveInv, ActiveIsCurrent
<1>7. QED
  BY <1>2, <1>3, <1>4, <1>5, <1>6 DEF DaemonInv

(* Beginning a turn for an admissible message.                              *)
LEMMA BeginningFacts ==
    ASSUME DaemonInv, NEW a \in Addr, NEW m \in Message, NEW b \in Bindings(a, m), Rebound(b),
           Admissible(b, m), NEW w, w = WorldOf(m.exch),
           NEW t \in TurnId, NEW st \in {"pending", "aborted"},
           InsertTurn(w, b.parent, m.exch, t, st, Blank)
    PROVE  /\ StoreTypeOK' /\ HistoryKept /\ StoreInv'
           /\ turns[t] = NoRow /\ turns'[t] # NoRow
           /\ turns'[t] = NewRow(w, peers'[w].head, st, Blank, m.exch)
           /\ \A u \in TurnId \ {t} : turns'[u] = turns[u]
<1>1. w \in World /\ m.exch \in ClientId
  BY MessageFacts DEF DaemonInv
<1>2. HeadsMove /\ head'[w] # NoWorld
  BY RebindingFacts DEF DaemonInv
<1>3. b.at = w /\ peers'[w].head = b.parent
  BY BindingFacts DEF DaemonInv, Admissible, Rebound
<1>4. b.parent \in Completed(w) \cup {Root}
  <2>1. peers'[w] \in Peer
    BY RebindingFacts DEF DaemonInv
  <2>2. peers'[w] # NoPeer
    BY <2>1, NoPeerAssumption
  <2>3. peers'[w].head \in Completed(w) \cup {Root}
    BY <1>1, <2>2, RebindingFacts DEF DaemonInv
  <2>4. QED
    BY <1>3, <2>3
<1>5. /\ StoreTypeOK' /\ HistoryKept
      /\ turns[t] = NoRow /\ turns'[t] = NewRow(w, b.parent, st, Blank, m.exch) /\ turns'[t] # NoRow
      /\ \A u \in TurnId \ {t} : turns'[u] = turns[u]
  BY <1>1, <1>2, <1>4, BeginKeeps DEF DaemonInv
<1>6. StoreInv'
  BY <1>5, KeptInv DEF DaemonInv
<1>7. QED
  BY <1>3, <1>5, <1>6

LEMMA StartFailsKeeps ==
    ASSUME DaemonInv, NEW a \in Addr, NEW m \in Message, NEW b \in Bindings(a, m), Rebound(b),
           StartFails(b, m), cache' \in Seq(Exchange)
    PROVE  DaemonInv' /\ HistoryKept
<1> DEFINE w == WorldOf(m.exch)
<1>1. PICK t \in TurnId, st \in {"pending", "aborted"} :
        Admissible(b, m) /\ InsertTurn(w, b.parent, m.exch, t, st, Blank)
  BY DEF StartFails
<1>2. UNCHANGED <<active, req>>
  BY DEF StartFails
<1>3. /\ StoreTypeOK' /\ HistoryKept /\ StoreInv'
      /\ turns[t] = NoRow /\ \A u \in TurnId \ {t} : turns'[u] = turns[u]
  BY <1>1, BeginningFacts
<1>4. /\ peers' \in [World -> Peer \cup {NoPeer}]
      /\ addrWorld' \in [Addr -> World \cup {NoWorld}]
      /\ PeerMapsAgree' /\ PeersHoldTheirSession' /\ PeersAreOpen'
      /\ \A v \in World : peers[v] # NoPeer => peers'[v] = peers[v]
      /\ \A v \in World : peers'[v] # NoPeer => peers'[v].head \in Completed(v) \cup {Root}
  BY RebindingFacts DEF DaemonInv
<1>5. DaemonTypeOK'
  BY <1>2, <1>3, <1>4 DEF Rebound, DaemonInv, DaemonTypeOK
<1>6. PeersInv'
  BY <1>3, <1>4, PeerHeadsKept DEF PeersInv
<1>7. \A u \in Rows : turns'[u] = turns[u]
  BY <1>3 DEF Rows
<1>8. RequestsHaveRows'
  BY <1>2, <1>3, <1>7, RequestRowsKept
<1>9. ActiveInv'
  BY <1>2, <1>4, <1>7, Survivors, ActiveFacts DEF DaemonInv, ActiveInv, ActiveIsCurrent
<1>10. QED
  BY <1>3, <1>5, <1>6, <1>8, <1>9 DEF DaemonInv

LEMMA AcceptKeeps ==
    ASSUME DaemonInv, NEW a \in Addr, NEW m \in Message, NEW b \in Bindings(a, m), Rebound(b),
           Accept(a, b, m), cache' \in Seq(Exchange)
    PROVE  DaemonInv' /\ HistoryKept
<1> DEFINE w == WorldOf(m.exch)
<1>0. w \in World /\ m.exch \in ClientId /\ m.exch[1] \in Session /\ m.body \in Body
  BY MessageFacts DEF DaemonInv
<1> DEFINE New(started) == NewRequest(a, b, m, started)
<1>1. PICK t \in TurnId, started \in Threads :
        /\ Admissible(b, m) /\ HasRoom(m)
        /\ InsertTurn(w, b.parent, m.exch, t, "pending", Blank)
        /\ active' = active \cup {t}
        /\ req' = [req EXCEPT ![t] = New(started)]
  BY DEF Accept
<1>2. /\ StoreTypeOK' /\ HistoryKept /\ StoreInv'
      /\ turns[t] = NoRow /\ turns'[t] # NoRow
      /\ turns'[t] = NewRow(w, peers'[w].head, "pending", Blank, m.exch)
      /\ \A u \in TurnId \ {t} : turns'[u] = turns[u]
  BY <1>1, BeginningFacts
<1>3. /\ peers' \in [World -> Peer \cup {NoPeer}]
      /\ addrWorld' \in [Addr -> World \cup {NoWorld}]
      /\ peers'[w] \in Peer /\ peers'[w].addr = a /\ peers'[w].session = m.exch[1]
      /\ PeerMapsAgree' /\ PeersHoldTheirSession' /\ PeersAreOpen'
      /\ \A v \in World : peers[v] # NoPeer => peers'[v] = peers[v]
      /\ \A v \in World : peers'[v] # NoPeer => peers'[v].head \in Completed(v) \cup {Root}
  BY RebindingFacts DEF DaemonInv
<1>4. b.at = w /\ b.peers = peers'
  BY BindingFacts DEF DaemonInv, Rebound
<1> DEFINE ph == IF started THEN "running" ELSE "unstarted"
<1>5. /\ New(started) = [body |-> m.body, gen |-> peers'[w].gen, addr |-> a, seq |-> 2, phase |-> ph]
      /\ ph \in Unfinished
  BY <1>4 DEF NewRequest, Unfinished
<1>6. New(started) \in Request /\ New(started) # NoRequest
  <2> HIDE DEF New, ph
  <2>1. QED
    BY <1>0, <1>3, <1>5, NoRequestAssumption DEF Request, Phase, Peer
<1> HIDE DEF New, ph
<1>7. req'[t] = New(started) /\ \A u \in TurnId \ {t} : req'[u] = req[u]
  BY <1>1 DEF DaemonInv, DaemonTypeOK
<1>8. t \notin active
  BY <1>2, ActiveFacts DEF Rows
<1>9. DaemonTypeOK'
  BY <1>1, <1>2, <1>3, <1>6 DEF Rebound, DaemonInv, DaemonTypeOK
<1>10. PeersInv'
  BY <1>2, <1>3, PeerHeadsKept DEF PeersInv
<1>11. turns'[t].alias = m.exch /\ turns'[t].world = w /\ turns'[t].parent = peers'[w].head
       /\ turns'[t].status = "pending"
  BY <1>2 DEF NewRow
<1>12. RequestsHaveRows'
  BY <1>0, <1>1, <1>2, <1>6, <1>7, <1>11 DEF DaemonInv, DaemonTypeOK, RequestsHaveRows, Rows
<1>13. ActiveIsCurrent'
  <2> SUFFICES ASSUME NEW u \in active'
               PROVE  /\ Current(u)'
                      /\ u \in Pending' /\ req'[u].phase \in Unfinished
                      /\ peers'[turns'[u].world].session = turns'[u].alias[1]
                      /\ peers'[turns'[u].world].head = turns'[u].parent
    BY DEF ActiveIsCurrent
  <2>1. CASE u = t
    <3>1. peers'[w] # NoPeer
      BY <1>3, NoPeerAssumption
    <3>2. req'[t].gen = peers'[w].gen /\ req'[t].addr = a /\ req'[t].phase \in Unfinished
      BY <1>5, <1>7
    <3>3. QED
      BY <1>2, <1>3, <1>11, <2>1, <3>1, <3>2 DEF Current, Pending, Rows
  <2>2. CASE u # t
    <3>1. u \in active
      BY <1>1, <2>2
    <3>2. /\ Current(u) /\ u \in Pending /\ req[u].phase \in Unfinished
          /\ peers[turns[u].world].session = turns[u].alias[1]
          /\ peers[turns[u].world].head = turns[u].parent
      BY <3>1 DEF DaemonInv, ActiveInv, ActiveIsCurrent
    <3>3. u \in TurnId /\ turns[u].world \in World /\ peers[turns[u].world] # NoPeer
      BY <3>1, ActiveFacts
    <3>4. turns'[u] = turns[u] /\ req'[u] = req[u] /\ peers'[turns[u].world] = peers[turns[u].world]
      BY <1>2, <1>3, <1>7, <2>2, <3>3
    <3>5. QED
      BY <3>2, <3>4 DEF Current, Pending, Rows
  <2>3. QED
    BY <2>1, <2>2
<1>14. IsFiniteSet(active') /\ Cardinality(active') = Cardinality(active) + 1
  BY <1>1, <1>8, FS_AddElement DEF DaemonInv, ActiveInv
<1>15. Cardinality(active') <= MaxWorkers
  BY <1>1, <1>14, FS_CardinalityType, DaemonAssumption DEF HasRoom, DaemonInv, ActiveInv
<1>16. \A u, v \in active' : turns'[u].world = turns'[v].world => u = v
  <2>1. \A u \in active : turns'[u].world = turns[u].world /\ turns[u].world # w
    BY <1>1, <1>2, <1>8, ActiveFacts DEF HasRoom, ActiveIn
  <2>2. QED
    BY <1>1, <1>11, <2>1 DEF DaemonInv, ActiveInv, OneGenerationPerWorld
<1>17. QED
  BY <1>2, <1>9, <1>10, <1>12, <1>13, <1>14, <1>15, <1>16 DEF DaemonInv, ActiveInv, OneGenerationPerWorld

LEMMA UserMessageKeeps ==
    ASSUME DaemonInv, UserMessage
    PROVE  DaemonInv' /\ HistoryKept
<1>1. PICK a \in Addr, m \in Message :
        \/ StaleSession(a, m)
        \/ BootstrapFails(a, m)
        \/ \E b \in Bindings(a, m) :
             /\ Rebound(b)
             /\ \/ Replay(b, m)
                \/ Misused(b, m)
                \/ /\ Forgotten(b, m)
                   /\ \/ AlreadyRunning(b, m) \/ StaleHead(b, m) \/ Busy(b, m)
                      \/ BeginFails(b, m) \/ StartFails(b, m) \/ Accept(a, b, m)
  BY DEF UserMessage, UserMessageFrom
<1>2. CASE StaleSession(a, m)
  <2>1. UNCHANGED <<turns, head, up, epoch, volatile, issued>>
    BY <1>2 DEF StaleSession
  <2>2. HistoryKept
    BY <2>1, IdleHistory
  <2>3. QED
    BY <2>1, <2>2, IdleKeeps DEF DaemonInv, DaemonTypeOK
<1>3. CASE BootstrapFails(a, m)
  BY <1>3, BootstrapFailsKeeps
<1>4. ASSUME NEW b \in Bindings(a, m), Rebound(b), Replay(b, m)
      PROVE  DaemonInv' /\ HistoryKept
  <2>1. PICK i \in Hits(m) : /\ cache' = Append(Others(m.exch), cache[i])
                             /\ UNCHANGED <<turns, active, req>>
    BY <1>4 DEF Replay
  <2>2. cache \in Seq(Exchange) /\ cache[i] \in Exchange
    BY <2>1, LenProperties, ElementOfSeq DEF Hits, DaemonInv, DaemonTypeOK
  <2>3. cache' \in Seq(Exchange)
    BY <2>1, <2>2, OthersType, AppendProperties
  <2>4. QED
    BY <1>4, <2>1, <2>3, UnansweredKeeps
<1>5. ASSUME NEW b \in Bindings(a, m), Rebound(b), Misused(b, m)
      PROVE  DaemonInv' /\ HistoryKept
  BY <1>5, UnansweredKeeps DEF Misused, Refuse, DaemonInv, DaemonTypeOK
<1>6. ASSUME NEW b \in Bindings(a, m), Rebound(b), Forgotten(b, m),
             \/ AlreadyRunning(b, m) \/ StaleHead(b, m) \/ Busy(b, m)
             \/ BeginFails(b, m) \/ StartFails(b, m) \/ Accept(a, b, m)
      PROVE  DaemonInv' /\ HistoryKept
  <2>1. cache' \in Seq(Exchange)
    BY <1>6, OthersType DEF Forgotten, DaemonInv, DaemonTypeOK
  <2>2. CASE AlreadyRunning(b, m) \/ StaleHead(b, m) \/ Busy(b, m) \/ BeginFails(b, m)
    <3>1. UNCHANGED <<turns, active, req>>
      BY <2>2 DEF AlreadyRunning, StaleHead, Busy, BeginFails, Refuse
    <3>2. QED
      BY <1>6, <2>1, <3>1, UnansweredKeeps
  <2>3. QED
    BY <1>6, <2>1, <2>2, StartFailsKeeps, AcceptKeeps
<1>7. QED
  BY <1>1, <1>2, <1>3, <1>4, <1>5, <1>6

-----------------------------------------------------------------------------
(* Workers.                                                                 *)

(* The worker sends a delta, sees the model fail, or finds out too late.    *)
LEMMA WorkerMovesKeeps ==
    ASSUME DaemonInv, NEW t \in TurnId, EmitDelta(t) \/ ModelFails(t) \/ Drop(t)
    PROVE  DaemonInv' /\ HistoryKept
<1>1. UNCHANGED <<turns, head, up, epoch, peers, addrWorld, active, cache, issued>>
  BY DEF EmitDelta, ModelFails, Drop
<1>2. req[t] \in Request
  BY DEF EmitDelta, ModelFails, Drop, WorkerAt, DaemonInv, DaemonTypeOK
<1>3. PICK q \in Request : /\ req' = [req EXCEPT ![t] = q] /\ q.gen = req[t].gen /\ q.addr = req[t].addr
                           /\ t \in active => q.phase \in Unfinished
  <2>1. CASE EmitDelta(t)
    <3> DEFINE q == [req[t] EXCEPT !.seq = @ + 1]
    <3>1. req' = [req EXCEPT ![t] = q] /\ req[t].phase = "running"
      BY <2>1 DEF EmitDelta, WorkerAt, DaemonInv, DaemonTypeOK
    <3>2. q \in Request /\ q.gen = req[t].gen /\ q.addr = req[t].addr /\ q.phase = req[t].phase
      BY <1>2 DEF Request
    <3>3. QED
      BY <3>1, <3>2 DEF Unfinished
  <2>2. ASSUME NEW ph \in Phase, Moved(t, ph), t \in active => ph \in Unfinished
        PROVE  \E q \in Request : /\ req' = [req EXCEPT ![t] = q]
                                  /\ q.gen = req[t].gen /\ q.addr = req[t].addr
                                  /\ t \in active => q.phase \in Unfinished
    <3> DEFINE q == [req[t] EXCEPT !.phase = ph]
    <3>1. req' = [req EXCEPT ![t] = q]
      BY <2>2 DEF Moved, DaemonInv, DaemonTypeOK
    <3>2. q \in Request /\ q.gen = req[t].gen /\ q.addr = req[t].addr /\ q.phase = ph
      BY <1>2 DEF Request
    <3>3. QED
      BY <2>2, <3>1, <3>2
  <2>3. CASE ModelFails(t)
    BY <2>2, <2>3 DEF ModelFails, Phase, Unfinished
  <2>4. CASE Drop(t)
    <3>1. t \notin active
      BY <2>4 DEF Drop, DaemonInv, ActiveInv, ActiveIsCurrent
    <3>2. QED
      BY <2>2, <2>4, <3>1 DEF Drop, Phase
  <2>5. QED
    BY <2>1, <2>3, <2>4
<1>4. req[t] # NoRequest /\ q # NoRequest
  BY <1>2, NoRequestAssumption
<1>5. req'[t] = q /\ \A u \in TurnId \ {t} : req'[u] = req[u]
  BY <1>3 DEF DaemonInv, DaemonTypeOK
<1>6. DaemonTypeOK' /\ StoreInv' /\ HistoryKept
  BY <1>1, <1>3, IdleHistory DEF DaemonInv, DaemonTypeOK, StoreInv, StoreTypeOK, HeadIsFinished,
                    ParentIsFinished, RowsHaveWorlds, Completed, InWorld, Rows
<1>7. PeersInv'
  BY <1>1 DEF DaemonInv, PeersInv, PeerMapsAgree, PeersHoldTheirSession, PeerHeadIsFinished,
              PeersAreOpen, Completed, InWorld, Rows
<1>8. RequestsHaveRows'
  BY <1>1, <1>4, <1>5, <1>6, RequestRowsKept
<1>9. ActiveInv'
  <2>1. \A u \in active : req'[u].gen = req[u].gen /\ req'[u].addr = req[u].addr
                          /\ req'[u].phase \in Unfinished
    BY <1>3, <1>5 DEF DaemonInv, DaemonTypeOK, ActiveInv, ActiveIsCurrent
  <2>2. QED
    BY <1>1, <2>1, Survivors
<1>10. QED
  BY <1>6, <1>7, <1>8, <1>9 DEF DaemonInv

(* Ending request t touches no other request: its world had no other.       *)
LEMMA EndingKeeps ==
    ASSUME DaemonInv, NEW t \in active, active' = Retired(t), NEW ph \in Phase, Moved(t, ph),
           StoreTypeOK', HistoryKept, UNCHANGED <<up, epoch, addrWorld, issued>>,
           \A u \in TurnId \ {t} : turns'[u] = turns[u],
           turns'[t].alias = turns[t].alias,
           NEW w, w = Owner(t), peers' = peers \/ (peers' = Advanced(t) /\ t \in Completed(w)'),
           cache' \in Seq(Exchange)
    PROVE  DaemonInv'
<1>1. /\ t \in TurnId /\ t \in Rows /\ turns[t] \in Row /\ w \in World
      /\ req[t] \in Request /\ req[t] # NoRequest
      /\ peers[w] \in Peer /\ peers[w] # NoPeer
  BY ActiveFacts DEF Owner
<1>2. active' = active \ {t}
  BY DEF Retired
<1> DEFINE q == [req[t] EXCEPT !.phase = ph]
<1>3. q \in Request /\ q # NoRequest
  BY <1>1, NoRequestAssumption DEF Request
<1>4. req' = [req EXCEPT ![t] = q]
  BY DEF Moved, DaemonInv, DaemonTypeOK
<1>5. req'[t] = q /\ \A u \in TurnId \ {t} : req'[u] = req[u]
  BY <1>4 DEF DaemonInv, DaemonTypeOK
<1> DEFINE p == [peers[w] EXCEPT !.head = t]
<1>6. p \in Peer /\ p # NoPeer /\ p.head = t /\ p.addr = peers[w].addr
      /\ p.session = peers[w].session
  BY <1>1, NoPeerAssumption DEF Peer
<1>7. peers' = peers \/ (peers' = [peers EXCEPT ![w] = p] /\ t \in Completed(w)')
  BY DEF Advanced, DaemonInv, DaemonTypeOK
<1>8. \A v \in World : v # w => peers'[v] = peers[v]
  BY <1>7 DEF DaemonInv, DaemonTypeOK
<1>9. peers'[w] = peers[w] \/ (peers'[w] = p /\ t \in Completed(w)')
  BY <1>1, <1>7 DEF DaemonInv, DaemonTypeOK
<1>10. DaemonTypeOK'
  <2>1. peers' \in [World -> Peer \cup {NoPeer}]
    BY <1>6, <1>7 DEF DaemonInv, DaemonTypeOK
  <2>2. req' \in [TurnId -> Request \cup {NoRequest}]
    BY <1>3, <1>4 DEF DaemonInv, DaemonTypeOK
  <2>3. QED
    BY <1>2, <2>1, <2>2 DEF DaemonInv, DaemonTypeOK
<1>11. StoreInv'
  BY KeptInv DEF DaemonInv
<1>12. PeerMapsAgree' /\ PeersHoldTheirSession'
  <2>1. ASSUME NEW v \in World
        PROVE  /\ peers'[v] # NoPeer <=> peers[v] # NoPeer
               /\ peers'[v].addr = peers[v].addr /\ peers'[v].session = peers[v].session
    <3> HIDE DEF p
    <3>1. CASE v = w
      BY <1>1, <1>6, <1>9, <3>1
    <3>2. CASE v # w
      BY <1>8, <3>2
    <3>3. QED
      BY <3>1, <3>2
  <2>2. QED
    BY <2>1 DEF DaemonInv, PeersInv, PeerMapsAgree, PeersHoldTheirSession
<1>13. PeerHeadIsFinished'
  BY <1>6, <1>8, <1>9, FinishedStay, ZenonT(30) DEF DaemonInv, PeersInv, PeerHeadIsFinished
<1>14. PeersAreOpen'
  BY <1>1, <1>8, OpenStay DEF DaemonInv, PeersInv
<1>15. \A u \in Rows : turns'[u].alias = turns[u].alias
  BY DEF Rows
<1>16. RequestsHaveRows'
  BY <1>1, <1>2, <1>3, <1>5, <1>15, RequestRowsKept
<1>17. ASSUME NEW u \in active'
       PROVE  /\ turns'[u] = turns[u] /\ peers'[turns[u].world] = peers[turns[u].world]
              /\ req'[u].gen = req[u].gen /\ req'[u].addr = req[u].addr
              /\ req'[u].phase \in Unfinished
  <2>1. u \in active /\ u # t /\ u \in TurnId /\ turns[u].world \in World
    BY <1>2, ActiveFacts
  <2>2. turns[u].world # w
    BY <2>1 DEF DaemonInv, ActiveInv, OneGenerationPerWorld, Owner
  <2>3. req[u].phase \in Unfinished
    BY <2>1 DEF DaemonInv, ActiveInv, ActiveIsCurrent
  <2>4. QED
    BY <1>5, <1>8, <2>1, <2>2, <2>3
<1>18. ActiveInv'
  BY <1>2, <1>17, Survivors
<1>19. QED
  BY <1>10, <1>11, <1>12, <1>13, <1>14, <1>16, <1>18 DEF DaemonInv, PeersInv

LEMMA FinishErrorKeeps ==
    ASSUME DaemonInv, NEW t \in TurnId, FinishError(t)
    PROVE  DaemonInv' /\ HistoryKept
<1>1. /\ t \in active /\ active' = Retired(t) /\ Moved(t, "failed")
      /\ UNCHANGED <<head, up, epoch, peers, addrWorld, cache, issued>>
  BY DEF FinishError, Current
<1>2. PICK done \in SUBSET {t} : turns' = Aborted(done)
  BY AbortRowsAborts DEF FinishError
<1>3. HeadsMove
  BY <1>1 DEF HeadsMove, DaemonInv, DaemonTypeOK, StoreTypeOK
<1>4. StoreTypeOK' /\ HistoryKept
  BY <1>2, <1>3, AbortKeeps DEF DaemonInv
<1>5. /\ \A u \in TurnId \ {t} : turns'[u] = turns[u]
      /\ turns'[t].alias = turns[t].alias
  BY <1>1, <1>2, AbortedOthers, ActiveFacts DEF DaemonInv, DaemonTypeOK, Rows
<1>6. cache' \in Seq(Exchange) /\ "failed" \in Phase
  BY <1>1 DEF DaemonInv, DaemonTypeOK, Phase
<1>7. DaemonInv'
  BY <1>1, <1>4, <1>5, <1>6, EndingKeeps
<1>8. QED
  BY <1>4, <1>7

(* What a commit does to the store: t was pending, its row becomes r.       *)
LEMMA CommitFacts ==
    ASSUME DaemonInv, NEW t \in TurnId, NEW x \in Text, Commit(t, x)
    PROVE  /\ t \in active /\ Owner(t) \in World
           /\ turns[t] # NoRow /\ turns[t].status = "pending"
           /\ \E r \in Row : /\ r.status = "completed" /\ r.world = Owner(t) /\ r.text = x
                             /\ r.parent = turns[t].parent /\ r.alias = turns[t].alias
                             /\ r.parent \in Completed(Owner(t)) \cup {Root}
                             /\ turns' = [turns EXCEPT ![t] = r]
                             /\ head' = [head EXCEPT ![Owner(t)] = t]
<1>1. t \in active
  BY DEF Commit, Current
<1>2. /\ t \in Rows /\ t \in InWorld(Owner(t)) /\ turns[t] \in Row /\ Owner(t) \in World
      /\ turns[t] # NoRow /\ turns[t].status = "pending"
  BY <1>1, ActiveFacts DEF DaemonInv, ActiveInv, ActiveIsCurrent, Pending, InWorld, Owner, Rows
<1>3. Candidates(Owner(t), t) = {t} /\ x # Blank
  BY <1>2, StoreAssumption DEF Candidates
<1>4. /\ turns' = [turns EXCEPT ![t].status = "completed", ![t].text = x]
      /\ head' = [head EXCEPT ![Owner(t)] = t]
  BY <1>3 DEF Commit, CompleteTurn
<1> DEFINE r == [turns[t] EXCEPT !.status = "completed", !.text = x]
<1>5. turns' = [turns EXCEPT ![t] = r]
  BY <1>2, <1>4 DEF DaemonInv, DaemonTypeOK, StoreTypeOK, Row
<1>6. /\ r \in Row /\ r.status = "completed" /\ r.world = Owner(t) /\ r.text = x
      /\ r.parent = turns[t].parent /\ r.alias = turns[t].alias
  BY <1>2 DEF Row, Status, Owner
<1>7. turns[t].parent \in Completed(Owner(t)) \cup {Root}
  BY <1>2 DEF DaemonInv, StoreInv, ParentIsFinished, Owner
<1>8. QED
  BY <1>1, <1>2, <1>4, <1>5, <1>6, <1>7

LEMMA CommitKeeps ==
    ASSUME DaemonInv, NEW t \in TurnId, NEW x \in Text, Commit(t, x)
    PROVE  DaemonInv' /\ HistoryKept
<1>1. PICK r \in Row : /\ r.status = "completed" /\ r.world = Owner(t) /\ r.text = x
                       /\ r.parent = turns[t].parent /\ r.alias = turns[t].alias
                       /\ turns' = [turns EXCEPT ![t] = r]
                       /\ head' = [head EXCEPT ![Owner(t)] = t]
  BY CommitFacts
<1>2. t \in active /\ Owner(t) \in World /\ turns[t] # NoRow /\ turns[t].status = "pending"
  BY CommitFacts
<1>3. r # NoRow
  BY NoRowAssumption
<1>4. turns'[t] = r /\ \A u \in TurnId \ {t} : turns'[u] = turns[u]
  BY <1>1 DEF DaemonInv, DaemonTypeOK, StoreTypeOK
<1>5. StoreTypeOK'
  BY <1>1 DEF DaemonInv, DaemonTypeOK, StoreTypeOK
<1> PICK w : w = Owner(t)
  OBVIOUS
<1>6. t \in Completed(w)'
  BY <1>1, <1>3, <1>4 DEF Completed, InWorld, Rows
<1>7. HistoryKept
  BY <1>1, <1>2, <1>3, <1>4 DEF HistoryKept, Completed, InWorld, Rows, Owner, DaemonInv, DaemonTypeOK,
                                StoreTypeOK
<1>8. PICK ok \in SendResults :
        /\ peers' = IF ok THEN Advanced(t) ELSE peers
        /\ active' = Retired(t)
        /\ cache' = Newest(Append(Others(turns[t].alias), Exchanged(t, x)))
        /\ Moved(t, IF ok THEN "answered" ELSE "unsent")
        /\ UNCHANGED <<up, epoch, addrWorld, issued>>
  BY DEF Commit
<1>9. Exchanged(t, x) \in Exchange
  BY <1>2, ActiveFacts DEF Exchanged, Exchange, Row, Request
<1>10. cache' \in Seq(Exchange)
  BY <1>8, <1>9, OthersType, NewestType, AppendProperties DEF DaemonInv, DaemonTypeOK
<1>11. (IF ok THEN "answered" ELSE "unsent") \in Phase
  BY DEF Phase
<1>12. DaemonInv'
  BY <1>1, <1>2, <1>4, <1>5, <1>6, <1>7, <1>8, <1>10, <1>11, EndingKeeps
<1>13. QED
  BY <1>7, <1>12

-----------------------------------------------------------------------------
(* The inductive invariant.                                                 *)
LEMMA DaemonInitInv == DaemonInit => DaemonInv
<1> SUFFICES ASSUME DaemonInit PROVE DaemonInv
  OBVIOUS
<1>1. StoreInv
  BY StoreInitInv DEF DaemonInit
<1>2. DaemonTypeOK
  BY <1>1, EmptySeq DEF DaemonInit, NoPeers, NoMappings, NoRequests, DaemonTypeOK, StoreInv
<1>3. PeersInv
  BY DaemonAssumption DEF DaemonInit, NoPeers, NoMappings, PeersInv, PeerMapsAgree,
        PeersHoldTheirSession, PeerHeadIsFinished, PeersAreOpen
<1>4. RequestsHaveRows
  BY DEF DaemonInit, NoRequests, RequestsHaveRows
<1>5. ActiveInv
  BY FS_EmptySet, DaemonAssumption DEF DaemonInit, ActiveInv, ActiveIsCurrent, OneGenerationPerWorld
<1>6. QED
  BY <1>1, <1>2, <1>3, <1>4, <1>5 DEF DaemonInv

(* What a step other than the packets' and the workers' is.                 *)
LEMMA HelloKeeps ==
    ASSUME DaemonInv, Hello
    PROVE  DaemonInv' /\ HistoryKept
<1>1. PICK a \in Addr, h \in TurnId \cup {Root} :
        \/ HelloUnbound(a, h)
        \/ \E w \in World :
             \/ HelloFails(a, w, h)
             \/ \E s \in Session : HelloAccepted(a, w, h, s)
  BY DEF Hello
<1>2. CASE HelloUnbound(a, h)
  BY <1>2, IdleKeeps, IdleHistory DEF HelloUnbound, DaemonInv, DaemonTypeOK
<1>3. CASE \E w \in World : HelloFails(a, w, h) \/ \E s \in Session : HelloAccepted(a, w, h, s)
  BY <1>3, HelloFailsKeeps, HelloAcceptedKeeps
<1>4. QED
  BY <1>1, <1>2, <1>3

LEMMA WorkerKeeps ==
    ASSUME DaemonInv, NEW t \in TurnId, Worker(t)
    PROVE  DaemonInv' /\ HistoryKept
BY WorkerMovesKeeps, FinishErrorKeeps, CommitKeeps DEF Worker

LEMMA ExitKeeps ==
    ASSUME DaemonInv, Crash \/ Stop
    PROVE  DaemonInv' /\ HistoryKept
<1>1. Exit /\ \E D : turns' = Aborted(D)
  BY AbortRowsAborts, NothingAborted DEF Crash, Stop, DaemonInv, DaemonTypeOK
<1>2. HeadsMove
  BY <1>1 DEF Exit, HeadsMove, DaemonInv, DaemonTypeOK, StoreTypeOK
<1>3. QED
  BY <1>1, <1>2, AbortKeeps, RestartKeeps DEF DaemonInv

LEMMA DaemonStepKeeps ==
    ASSUME DaemonInv, DaemonNext
    PROVE  DaemonInv' /\ HistoryKept
<1>1. CASE StartUp
  <2>1. up' \in BOOLEAN /\ epoch' \in Nat /\ UNCHANGED <<turns, head, volatile, issued>>
    BY <1>1 DEF StartUp, DaemonInv, DaemonTypeOK
  <2>2. QED
    BY <2>1, IdleKeeps, IdleHistory
<1>2. ASSUME ServiceHeartbeats \/ \E a \in Addr, s \in Session \cup {NoSession} : Heartbeat(a, s)
      PROVE  DaemonInv' /\ HistoryKept
  <2>1. up' \in BOOLEAN /\ epoch' \in Nat /\ UNCHANGED <<turns, head, volatile, issued>>
    BY <1>2 DEF ServiceHeartbeats, Heartbeat, DaemonInv, DaemonTypeOK
  <2>2. QED
    BY <2>1, IdleKeeps, IdleHistory
<1>3. QED
  BY <1>1, <1>2, ExitKeeps, HelloKeeps, UserMessageKeeps, WorkerKeeps DEF DaemonNext

LEMMA DaemonInvariant == DaemonSpec => []DaemonInv
<1>1. DaemonInv /\ [DaemonNext]_dvars => DaemonInv'
  <2> SUFFICES ASSUME DaemonInv, [DaemonNext]_dvars PROVE DaemonInv'
    OBVIOUS
  <2>1. CASE UNCHANGED dvars
    <3>1. up' \in BOOLEAN /\ epoch' \in Nat /\ UNCHANGED <<turns, head, volatile, issued>>
      BY <2>1 DEF dvars, DaemonInv, DaemonTypeOK
    <3>2. QED
      BY <3>1, IdleKeeps
  <2>2. QED
    BY <2>1, DaemonStepKeeps
<1>2. QED
  BY <1>1, DaemonInitInv, PTL DEF DaemonSpec

(* Every variable of the daemon holds what its comment says.                *)
THEOREM DaemonTypeCorrect == DaemonSpec => []DaemonTypeOK
BY DaemonInvariant, PTL DEF DaemonInv

(* The two tables _peers and _address_world never disagree.                 *)
THEOREM PeerMapsAlwaysAgree == DaemonSpec => []PeerMapsAgree
BY DaemonInvariant, PTL DEF DaemonInv, PeersInv

(* No peer ever holds another world's session.                              *)
THEOREM SessionsStayHome == DaemonSpec => []PeersHoldTheirSession
BY DaemonInvariant, PTL DEF DaemonInv, PeersInv

(* The head the daemon holds a game to is always a finished turn of it.     *)
THEOREM PeerHeadsAreFinished == DaemonSpec => []PeerHeadIsFinished
BY DaemonInvariant, PTL DEF DaemonInv, PeersInv

(* What is in _active can always still be answered.                         *)
THEOREM ActiveStaysCurrent == DaemonSpec => []ActiveIsCurrent
BY DaemonInvariant, PTL DEF DaemonInv, ActiveInv

(* At most one generation per world, at most max_workers in all.            *)
THEOREM GenerationsAreExclusive == DaemonSpec => []OneGenerationPerWorld
BY DaemonInvariant, PTL DEF DaemonInv, ActiveInv

-----------------------------------------------------------------------------
(* The refinement: apart from a commit, no step touches the tree of         *)
(* finished turns, and a head moves as a save is opened or loaded.          *)
Quietly == TreeOf' = TreeOf /\ [Timeline!TLNext]_(Timeline!tvars)

LEMMA HeadsStandQuietly == UNCHANGED <<turns, head>> => Quietly
BY DEF Quietly, TreeOf, Timeline!tvars

LEMMA SyncFailsQuietly ==
    ASSUME StoreTypeOK, NEW w \in World, NEW ref, SyncFails(w, ref), TreeOf' = TreeOf
    PROVE  Quietly
<1>1. \/ head' = head \/ head' = Opened(w)
      \/ \E r \in Anchors(w, ref) : head' = [head EXCEPT ![w] = r]
  BY DEF SyncFails
<1>2. CASE head' = head
  BY <1>2 DEF Quietly, Timeline!tvars
<1>3. CASE head' = Opened(w)
  BY <1>3, OpeningMoves DEF Quietly
<1>4. CASE \E r \in Anchors(w, ref) : head' = [head EXCEPT ![w] = r]
  BY <1>4, HeadMoves, AnchorsAreFinished DEF Quietly
<1>5. QED
  BY <1>1, <1>2, <1>3, <1>4

LEMMA HelloQuietly ==
    ASSUME DaemonInv, Hello
    PROVE  Quietly
<1>1. PICK a \in Addr, h \in TurnId \cup {Root} :
        \/ HelloUnbound(a, h)
        \/ \E w \in World :
             \/ HelloFails(a, w, h)
             \/ \E s \in Session : HelloAccepted(a, w, h, s)
  BY DEF Hello
<1>2. CASE HelloUnbound(a, h)
  BY <1>2, HeadsStandQuietly DEF HelloUnbound
<1>3. ASSUME NEW w \in World, Invalidated(a, w)
      PROVE  TreeOf' = TreeOf
  BY <1>3, AbortRowsAborts, AbortedTree DEF Invalidated, DaemonInv, DaemonTypeOK
<1>4. ASSUME NEW w \in World, HelloFails(a, w, h)
      PROVE  Quietly
  BY <1>3, <1>4, SyncFailsQuietly DEF HelloFails, DaemonInv, DaemonTypeOK
<1>5. ASSUME NEW w \in World, NEW s \in Session, HelloAccepted(a, w, h, s)
      PROVE  Quietly
  <2>1. PICK r \in Anchors(w, h) : head' = [head EXCEPT ![w] = r] /\ Invalidated(a, w)
    BY <1>5 DEF HelloAccepted
  <2>2. QED
    BY <1>3, <2>1, HeadMoves, AnchorsAreFinished DEF Quietly, DaemonInv, DaemonTypeOK
<1>6. QED
  BY <1>1, <1>2, <1>4, <1>5

LEMMA UserMessageQuietly ==
    ASSUME DaemonInv, UserMessage
    PROVE  Quietly
<1>1. PICK a \in Addr, m \in Message :
        \/ StaleSession(a, m)
        \/ BootstrapFails(a, m)
        \/ \E b \in Bindings(a, m) :
             /\ Rebound(b)
             /\ \/ Replay(b, m)
                \/ Misused(b, m)
                \/ /\ Forgotten(b, m)
                   /\ \/ AlreadyRunning(b, m) \/ StaleHead(b, m) \/ Busy(b, m)
                      \/ BeginFails(b, m) \/ StartFails(b, m) \/ Accept(a, b, m)
  BY DEF UserMessage, UserMessageFrom
<1>2. WorldOf(m.exch) \in World /\ m.exch \in ClientId
  BY MessageFacts DEF DaemonInv
<1>3. CASE StaleSession(a, m)
  BY <1>3, HeadsStandQuietly DEF StaleSession
<1>4. CASE BootstrapFails(a, m)
  <2>1. turns' = turns /\ SyncFails(WorldOf(m.exch), m.parent)
    BY <1>4 DEF BootstrapFails
  <2>2. TreeOf' = TreeOf
    BY <2>1 DEF TreeOf
  <2>3. QED
    BY <1>2, <2>1, <2>2, SyncFailsQuietly DEF DaemonInv, DaemonTypeOK
<1>5. ASSUME NEW b \in Bindings(a, m), Rebound(b), TreeOf' = TreeOf
      PROVE  Quietly
  <2> PICK w : w = WorldOf(m.exch)
    OBVIOUS
  <2>1. Known(a, m, b, w) \/ \E r \in Anchors(w, m.parent) : Bootstrapped(a, m, b, w, r)
    BY BindingFacts DEF DaemonInv
  <2>2. CASE Known(a, m, b, w)
    BY <1>5, <2>2 DEF Known, Rebound, Quietly, Timeline!tvars
  <2>3. CASE \E r \in Anchors(w, m.parent) : Bootstrapped(a, m, b, w, r)
    <3>1. PICK r \in Anchors(w, m.parent) : head' = [head EXCEPT ![w] = r]
      BY <1>5, <2>3 DEF Bootstrapped, Rebound
    <3>2. QED
      BY <1>2, <1>5, <3>1, HeadMoves, AnchorsAreFinished DEF Quietly, DaemonInv, DaemonTypeOK
  <2>4. QED
    BY <2>1, <2>2, <2>3
<1>6. ASSUME NEW b \in Bindings(a, m), Accept(a, b, m) \/ StartFails(b, m)
      PROVE  TreeOf' = TreeOf
  <2>1. PICK t \in TurnId, st \in {"pending", "aborted"} :
          InsertTurn(WorldOf(m.exch), b.parent, m.exch, t, st, Blank)
    BY <1>6 DEF Accept, StartFails
  <2>2. QED
    BY <1>2, <2>1, InsertedTree DEF Status, DaemonInv, DaemonTypeOK
<1>7. ASSUME NEW b \in Bindings(a, m),
             \/ Replay(b, m) \/ Misused(b, m) \/ AlreadyRunning(b, m) \/ StaleHead(b, m)
             \/ Busy(b, m) \/ BeginFails(b, m)
      PROVE  TreeOf' = TreeOf
  <2>1. turns' = turns
    BY <1>7 DEF Replay, Misused, AlreadyRunning, StaleHead, Busy, BeginFails, Refuse
  <2>2. QED
    BY <2>1 DEF TreeOf
<1>8. QED
  BY <1>1, <1>3, <1>4, <1>5, <1>6, <1>7

(* Only the commit of a request in flight finishes a turn.                  *)
LEMMA OnlyCommitsFinish ==
    ASSUME DaemonInv, DaemonNext
    PROVE  Quietly \/ \E t \in TurnId, x \in Text : Commit(t, x)
<1>1. CASE StartUp \/ Crash \/ ServiceHeartbeats
           \/ \E a \in Addr, s \in Session \cup {NoSession} : Heartbeat(a, s)
  BY <1>1, HeadsStandQuietly DEF StartUp, Crash, Exit, ServiceHeartbeats, Heartbeat
<1>2. ASSUME NEW D, AbortRows(D), head' = head
      PROVE  Quietly
  BY <1>2, AbortRowsAborts, AbortedTree DEF Quietly, Timeline!tvars, DaemonInv, DaemonTypeOK
<1>3. CASE Stop
  BY <1>2, <1>3 DEF Stop, Exit
<1>4. ASSUME NEW t \in TurnId, EmitDelta(t) \/ ModelFails(t) \/ FinishError(t) \/ Drop(t)
      PROVE  Quietly
  BY <1>2, <1>4, HeadsStandQuietly DEF EmitDelta, ModelFails, FinishError, Drop
<1>5. QED
  BY <1>1, <1>3, <1>4, HelloQuietly, UserMessageQuietly DEF DaemonNext, Worker

(* The daemon implements the timeline: hellos, retries, failures and        *)
(* restarts never show a game anything but finished turns, each added once  *)
(* together with the head it extends (daemon.py, _commit_request).          *)
THEOREM DaemonImplementsTimeline == DaemonSpec => ImplementsTimeline
<1>1. DaemonInit => Timeline!TLInit
  BY DEF DaemonInit, StoreInit, Timeline!TLInit, TreeOf
<1>2. DaemonInv /\ [DaemonNext]_dvars => [Timeline!TLNext]_(Timeline!tvars)
  <2>1. CASE UNCHANGED dvars
    BY <2>1, HeadsStandQuietly DEF dvars, Quietly
  <2>2. ASSUME DaemonInv, NEW t \in TurnId, NEW x \in Text, Commit(t, x)
        PROVE  Timeline!TLNext
    <3> PICK w : w = Owner(t)
      OBVIOUS
    <3>1. /\ w \in World /\ turns[t].status = "pending"
          /\ \E r \in Row : /\ r.status = "completed" /\ r.world = w /\ r.text = x
                            /\ r.parent \in Completed(w) \cup {Root}
                            /\ turns' = [turns EXCEPT ![t] = r]
                            /\ head' = [head EXCEPT ![w] = t]
      BY <2>2, CommitFacts
    <3>2. PICK r \in Row : /\ r.status = "completed" /\ r.world = w /\ r.text = x
                          /\ r.parent \in Completed(w) \cup {Root}
                          /\ turns' = [turns EXCEPT ![t] = r]
                          /\ head' = [head EXCEPT ![w] = t]
      BY <3>1
    <3>3. StoreTypeOK /\ turns[t].status # "completed"
      BY <2>2, <3>1 DEF DaemonInv, DaemonTypeOK
    <3>4. QED
      BY <3>1, <3>2, <3>3, AnswerCommits
  <2>3. QED
    BY <2>1, <2>2, OnlyCommitsFinish DEF Quietly
<1>3. QED
  BY <1>1, <1>2, DaemonInvariant, PTL DEF DaemonSpec, ImplementsTimeline, Timeline!TLSpec

(* A worker whose request was taken from it never commits: the check of     *)
(* _request_current_locked and the commit are one critical section.         *)
THEOREM SupersededIsNeverCommitted == DaemonSpec => SupersededNeverCommits
<1>1. ASSUME DaemonInv, DaemonInv', DaemonNext, NEW t \in Pending \ active
      PROVE  turns'[t].status # "completed"
  <2>1. t \in TurnId /\ turns[t] # NoRow /\ turns[t].status = "pending"
    BY DEF Pending, Rows
  <2>2. CASE Quietly
    <3>1. turns'[t] # NoRow
      BY <1>1, <2>1, DaemonStepKeeps DEF HistoryKept, Rows
    <3>2. turns'[t] \in Row
      BY <1>1, <2>1, <3>1 DEF DaemonInv, DaemonTypeOK, StoreTypeOK
    <3>3. [world |-> turns'[t].world, parent |-> turns'[t].parent, text |-> turns'[t].text] \in Node
      BY <3>2 DEF Row, Node
    <3>4. TreeOf'[t] = NoRow
      BY <2>1, <2>2 DEF Quietly, TreeOf
    <3>5. QED
      BY <2>1, <3>1, <3>3, <3>4, NoRowAssumption DEF TreeOf
  <2>3. CASE \E u \in TurnId, x \in Text : Commit(u, x)
    <3>1. PICK u \in TurnId, r \in Row : u \in active /\ turns' = [turns EXCEPT ![u] = r]
      BY <1>1, <2>3, CommitFacts
    <3>2. turns'[t] = turns[t]
      BY <1>1, <2>1, <3>1 DEF DaemonInv, DaemonTypeOK, StoreTypeOK
    <3>3. QED
      BY <2>1, <3>2
  <2>4. QED
    BY <1>1, <2>2, <2>3, OnlyCommitsFinish
<1>2. DaemonInv /\ DaemonInv' /\ [DaemonNext]_dvars =>
        [\A t \in Pending \ active : turns'[t].status # "completed"]_dvars
  BY <1>1
<1>3. QED
  BY <1>2, DaemonInvariant, PTL DEF DaemonSpec, SupersededNeverCommits

(* A connected peer's head moves only to an answer to the turn it stood on: *)
(* a hello brings a new session, a bootstrap needs a world without a peer,  *)
(* and _commit_request answers what the peer's head asked.                  *)
THEOREM PeerHeadsAdvance == DaemonSpec => PeerHeadAdvances
<1> DEFINE Kept(w) == /\ peers[w] # NoPeer /\ peers'[w] # NoPeer
                      /\ peers'[w].gen = peers[w].gen /\ peers'[w].session = peers[w].session
           Steps(w) == \/ peers'[w].head = peers[w].head
                       \/ /\ peers'[w].head \in Completed(w)'
                          /\ turns'[peers'[w].head].parent = peers[w].head
<1>1. ASSUME DaemonInv, DaemonInv', DaemonNext, NEW w \in World, Kept(w)
      PROVE  Steps(w)
  <2>1. CASE StartUp \/ Crash \/ Stop \/ ServiceHeartbeats
             \/ \E a \in Addr, s \in Session \cup {NoSession} : Heartbeat(a, s)
    BY <1>1, <2>1 DEF StartUp, Crash, Stop, Exit, NoPeers, ServiceHeartbeats, Heartbeat, volatile
  <2>2. CASE Hello
    <3>1. PICK a \in Addr, h \in TurnId \cup {Root} :
            \/ HelloUnbound(a, h)
            \/ \E v \in World :
                 \/ HelloFails(a, v, h)
                 \/ \E s \in Session : HelloAccepted(a, v, h, s)
      BY <2>2 DEF Hello
    <3>2. CASE HelloUnbound(a, h)
      BY <3>2 DEF HelloUnbound, volatile
    <3>3. ASSUME NEW v \in World, HelloFails(a, v, h)
          PROVE  peers'[w] = peers[w]
      BY <1>1, <3>3 DEF HelloFails, Unpeered
    <3>4. ASSUME NEW v \in World, NEW s \in Session, HelloAccepted(a, v, h, s)
          PROVE  peers'[w] = peers[w]
      <4>1. issued[s] = NoWorld /\ issued[peers[w].session] = w /\ w # NoWorld
        BY <1>1, <3>4, DaemonAssumption DEF HelloAccepted, FreshSession, DaemonInv, PeersInv,
                                            PeersHoldTheirSession
      <4>2. PICK r \in Anchors(v, h) :
              peers' = [Unpeered(a, v) EXCEPT ![v] =
                          [addr |-> a, gen |-> NextGeneration(v), head |-> r, session |-> s]]
        BY <3>4 DEF HelloAccepted
      <4>3. /\ peers'[v].session = s
            /\ \A u \in World \ {v} : peers'[u] \in {peers[u], NoPeer}
        BY <4>2 DEF Unpeered
      <4>4. QED
        BY <1>1, <4>1, <4>3
    <3>5. QED
      BY <3>1, <3>2, <3>3, <3>4
  <2>3. CASE UserMessage
    <3>1. PICK a \in Addr, m \in Message :
            \/ StaleSession(a, m) \/ BootstrapFails(a, m)
            \/ \E b \in Bindings(a, m) : Rebound(b)
      BY <2>3 DEF UserMessage, UserMessageFrom
    <3>2. CASE StaleSession(a, m) \/ BootstrapFails(a, m)
      BY <3>2 DEF StaleSession, BootstrapFails, volatile
    <3>3. CASE \E b \in Bindings(a, m) : Rebound(b)
      <4>1. \A v \in World : peers[v] # NoPeer => peers'[v] = peers[v]
        BY <1>1, <3>3, RebindingFacts DEF DaemonInv
      <4>2. QED
        BY <1>1, <4>1
    <3>4. QED
      BY <3>1, <3>2, <3>3
  <2>4. ASSUME NEW t \in TurnId, Worker(t)
        PROVE  Steps(w)
    <3>1. CASE EmitDelta(t) \/ ModelFails(t) \/ FinishError(t) \/ Drop(t)
      BY <3>1 DEF EmitDelta, ModelFails, FinishError, Drop
    <3>2. ASSUME NEW x \in Text, Commit(t, x)
          PROVE  Steps(w)
      <4>1. PICK r \in Row : /\ r.status = "completed" /\ r.world = Owner(t)
                             /\ r.parent = turns[t].parent /\ turns' = [turns EXCEPT ![t] = r]
        BY <1>1, <3>2, CommitFacts
      <4>2. t \in active /\ turns[t].parent = peers[Owner(t)].head
        BY <1>1, <3>2, CommitFacts DEF DaemonInv, ActiveInv, ActiveIsCurrent, Owner
      <4>3. turns'[t] = r /\ turns'[t] # NoRow
        BY <1>1, <4>1, NoRowAssumption DEF DaemonInv, DaemonTypeOK, StoreTypeOK
      <4>4. peers' = peers \/ peers' = [peers EXCEPT ![Owner(t)].head = t]
        BY <3>2 DEF Commit, Advanced
      <4>5. CASE w = Owner(t) /\ peers' = [peers EXCEPT ![Owner(t)].head = t]
        <5>1. peers'[w].head = t
          BY <1>1, <4>5 DEF DaemonInv, DaemonTypeOK, Peer
        <5>2. t \in Completed(w)'
          BY <4>1, <4>3, <4>5 DEF Completed, InWorld, Rows
        <5>3. QED
          BY <4>1, <4>2, <4>3, <4>5, <5>1, <5>2
      <4>6. QED
        BY <1>1, <4>4, <4>5 DEF DaemonInv, DaemonTypeOK
    <3>3. QED
      BY <2>4, <3>1, <3>2 DEF Worker
  <2>5. QED
    BY <1>1, <2>1, <2>2, <2>3, <2>4 DEF DaemonNext
<1>2. DaemonInv /\ DaemonInv' /\ [DaemonNext]_dvars => [\A w \in World : Kept(w) => Steps(w)]_dvars
  BY <1>1
<1>3. QED
  BY <1>2, DaemonInvariant, PTL DEF DaemonSpec, PeerHeadAdvances

-----------------------------------------------------------------------------
LEMMA DaemonCircles == DaemonSpec => [](DaemonInv /\ Acyclic)
<1>1. DaemonInit => Acyclic
  BY DEF DaemonInit, StoreInit, Acyclic, Rows
<1>2. DaemonInv /\ DaemonInv' /\ Acyclic /\ [DaemonNext]_dvars => Acyclic'
  <2> SUFFICES ASSUME DaemonInv, DaemonInv', Acyclic, [DaemonNext]_dvars PROVE Acyclic'
    OBVIOUS
  <2>1. HistoryKept
    BY DaemonStepKeeps, IdleHistory DEF dvars
  <2>2. QED
    BY <2>1, KeptAcyclic DEF DaemonInv, StoreInv
<1>3. QED
  BY <1>1, <1>2, DaemonInvariant, PTL DEF DaemonSpec

(* The max_history turns a worker hands to the model are the newest of one  *)
(* branch of its world, none left out among them, also after workers were   *)
(* superseded, transactions refused and processes killed (daemon.py:937-943,*)
(* store.py:976-1029).                                                      *)
THEOREM PromptsAreBranches == DaemonSpec => []LineageIsBranch
<1>1. DaemonInv /\ Acyclic => LineageIsBranch
  BY FinishedBranches DEF DaemonInv
<1>2. QED
  BY <1>1, DaemonCircles, PTL

(* No message, reconnection, failure or restart changes the history of a    *)
(* finished turn, so that a save of any age finds the dialogue it knew.     *)
THEOREM DialoguesAreStable == DaemonSpec => HistoryIsStable
<1>1. (DaemonInv /\ Acyclic) /\ (DaemonInv /\ Acyclic)' /\ [DaemonNext]_dvars =>
        [\A w \in World : \A t \in Completed(w) :
           /\ turns'[t] = turns[t]
           /\ Lineage(t)' = Lineage(t)]_svars
  <2> SUFFICES ASSUME DaemonInv, Acyclic, DaemonInv', Acyclic', [DaemonNext]_dvars,
                      ~UNCHANGED svars, NEW w \in World, NEW t \in Completed(w)
               PROVE  turns'[t] = turns[t] /\ Lineage(t)' = Lineage(t)
    OBVIOUS
  <2>1. HistoryKept
    BY DaemonStepKeeps DEF dvars, svars
  <2>2. QED
    BY <2>1, BranchesStay DEF DaemonInv
<1>2. QED
  BY <1>1, DaemonCircles, PTL DEF DaemonSpec, HistoryIsStable
=============================================================================
