------------------------ MODULE CompanionReplayProofs ------------------------
(***************************************************************************)
(* Theorems about what the daemon announces: first answers, replayed        *)
(* answers, and the rows a failed generation leaves.                        *)
(***************************************************************************)
EXTENDS CompanionDaemonProofs

(* What the replay cache remembers of an exchange is what the store has     *)
(* committed, and the number is where its stream ended.                     *)
Settled(t) == req[t] # NoRequest /\ req[t].phase \in {"answered", "unsent"}

Lasts(c) == /\ c.turn \in Completed(WorldOf(c.exch))
            /\ turns[c.turn].text = c.text /\ turns[c.turn].alias = c.exch
            /\ Settled(c.turn) /\ req[c.turn].seq = c.seq

Distinct(s) == \A i, j \in DOMAIN s : s[i].exch = s[j].exch => i = j

CacheInv == /\ Len(cache) <= MaxCached
            /\ Distinct(cache)
            /\ \A i \in DOMAIN cache : Lasts(cache[i])

-----------------------------------------------------------------------------
(* The three things done to the cache: an entry leaves it, one is appended, *)
(* the oldest go.                                                           *)
LEMMA TailBounds ==
    ASSUME NEW n \in Nat, NEW i \in 1..n
    PROVE  /\ n - (i + 1) + 1 = n - i
           /\ (IF i + 1 <= n THEN n - (i + 1) + 1 ELSE 0) = n - i
           /\ \A j \in 1..(n - i) : (i + 1) + j - 1 = i + j
OBVIOUS

LEMMA OthersFacts ==
    ASSUME cache \in Seq(Exchange), Distinct(cache), NEW e
    PROVE  /\ Len(Others(e)) <= Len(cache)
           /\ (\E i \in DOMAIN cache : cache[i].exch = e) => Len(Others(e)) < Len(cache)
           /\ Distinct(Others(e))
           /\ \A k \in DOMAIN Others(e) :
                /\ Others(e)[k].exch # e
                /\ \E j \in DOMAIN cache : Others(e)[k] = cache[j]
<1>0. Len(cache) \in Nat /\ DOMAIN cache = 1..Len(cache)
  BY LenProperties
<1>1. CASE \E i \in DOMAIN cache : cache[i].exch = e
  <2> DEFINE i == CHOOSE j \in DOMAIN cache : cache[j].exch = e
             s == SubSeq(cache, 1, i - 1)
             r == SubSeq(cache, i + 1, Len(cache))
  <2>1. Others(e) = s \o r
    BY <1>1 DEF Others
  <2>2. i \in 1..Len(cache) /\ cache[i].exch = e
    BY <1>0, <1>1
  <2>3. \A j \in 1..Len(cache) : cache[j] \in Exchange
    BY ElementOfSeq
  <2> HIDE DEF i
  <2>4. /\ s \in Seq(Exchange) /\ Len(s) = i - 1
        /\ \A j \in 1..(i - 1) : s[j] = cache[j]
    <3>1. \A j \in 1..(i - 1) : cache[j] \in Exchange
      BY <1>0, <2>2, <2>3
    <3>2. /\ s \in Seq(Exchange)
          /\ Len(s) = IF 1 <= i - 1 THEN (i - 1) - 1 + 1 ELSE 0
          /\ \A j \in 1..((i - 1) - 1 + 1) : s[j] = cache[1 + j - 1]
      BY <2>2, <3>1, SubSeqProperties
    <3>3. QED
      BY <2>2, <3>2
  <2>5. /\ r \in Seq(Exchange) /\ Len(r) = Len(cache) - i
        /\ \A j \in 1..(Len(cache) - i) : r[j] = cache[i + j]
    <3>1. \A j \in (i + 1)..Len(cache) : cache[j] \in Exchange
      BY <1>0, <2>2, <2>3
    <3>2. /\ r \in Seq(Exchange)
          /\ Len(r) = IF i + 1 <= Len(cache) THEN Len(cache) - (i + 1) + 1 ELSE 0
          /\ \A j \in 1..(Len(cache) - (i + 1) + 1) : r[j] = cache[(i + 1) + j - 1]
      BY <1>0, <2>2, <3>1, SubSeqProperties
    <3>3. Len(r) = Len(cache) - i
      BY <1>0, <2>2, <3>2, TailBounds
    <3>4. ASSUME NEW j \in 1..(Len(cache) - i)
          PROVE  r[j] = cache[i + j]
      <4>1. j \in 1..(Len(cache) - (i + 1) + 1) /\ (i + 1) + j - 1 = i + j
        BY <1>0, <2>2, TailBounds
      <4>2. QED
        BY <3>2, <4>1
    <3>5. QED
      BY <3>2, <3>3, <3>4
  <2> HIDE DEF s, r
  <2>6. /\ Others(e) \in Seq(Exchange) /\ Len(Others(e)) = Len(cache) - 1
        /\ \A k \in 1..(Len(cache) - 1) :
             Others(e)[k] = IF k < i THEN cache[k] ELSE cache[k + 1]
    <3>1. /\ s \o r \in Seq(Exchange) /\ Len(s \o r) = Len(s) + Len(r)
          /\ \A k \in 1..(Len(s) + Len(r)) :
               (s \o r)[k] = IF k <= Len(s) THEN s[k] ELSE r[k - Len(s)]
      BY <2>4, <2>5, ConcatProperties
    <3>2. Len(s) + Len(r) = Len(cache) - 1
      BY <1>0, <2>2, <2>4, <2>5
    <3>3. ASSUME NEW k \in 1..(Len(cache) - 1)
          PROVE  (s \o r)[k] = IF k < i THEN cache[k] ELSE cache[k + 1]
      <4>1. CASE k < i
        BY <1>0, <2>2, <2>4, <3>1, <3>2, <4>1
      <4>2. CASE ~(k < i)
        <5>1. (s \o r)[k] = r[k - (i - 1)]
          BY <1>0, <2>2, <2>4, <3>1, <3>2, <4>2
        <5>2. k - (i - 1) \in 1..(Len(cache) - i) /\ i + (k - (i - 1)) = k + 1
          BY <1>0, <2>2, <4>2
        <5>3. r[k - (i - 1)] = cache[k + 1]
          BY <2>5, <5>2
        <5>4. QED
          BY <4>2, <5>1, <5>3
      <4>3. QED
        BY <4>1, <4>2
    <3>4. QED
      BY <2>1, <3>1, <3>2, <3>3
  <2>7. DOMAIN Others(e) = 1..(Len(cache) - 1)
    BY <2>6, LenProperties
  <2>8. ASSUME NEW k \in DOMAIN Others(e)
        PROVE  \E j \in DOMAIN cache : /\ j # i /\ j = (IF k < i THEN k ELSE k + 1)
                                       /\ Others(e)[k] = cache[j]
    BY <1>0, <2>2, <2>6, <2>7
  <2>9. \A j \in DOMAIN cache : j # i => cache[j].exch # e
    BY <1>0, <2>2 DEF Distinct
  <2>10. Distinct(Others(e))
    <3> SUFFICES ASSUME NEW k \in DOMAIN Others(e), NEW l \in DOMAIN Others(e),
                        Others(e)[k].exch = Others(e)[l].exch
                 PROVE  k = l
      BY DEF Distinct
    <3>1. PICK j \in DOMAIN cache : j = (IF k < i THEN k ELSE k + 1) /\ Others(e)[k] = cache[j]
      BY <2>8
    <3>2. PICK h \in DOMAIN cache : h = (IF l < i THEN l ELSE l + 1) /\ Others(e)[l] = cache[h]
      BY <2>8
    <3>3. j = h
      BY <3>1, <3>2 DEF Distinct
    <3>4. QED
      BY <1>0, <2>2, <2>7, <3>1, <3>2, <3>3
  <2>11. QED
    BY <1>0, <2>6, <2>8, <2>9, <2>10
<1>2. CASE ~\E i \in DOMAIN cache : cache[i].exch = e
  BY <1>0, <1>2 DEF Others
<1>3. QED
  BY <1>1, <1>2

LEMMA AppendFacts ==
    ASSUME NEW s \in Seq(Exchange), Distinct(s), NEW c \in Exchange,
           \A k \in DOMAIN s : s[k].exch # c.exch
    PROVE  /\ Append(s, c) \in Seq(Exchange) /\ Len(Append(s, c)) = Len(s) + 1
           /\ Distinct(Append(s, c))
           /\ \A k \in DOMAIN Append(s, c) :
                Append(s, c)[k] = c \/ \E j \in DOMAIN s : Append(s, c)[k] = s[j]
<1>1. /\ Append(s, c) \in Seq(Exchange) /\ Len(Append(s, c)) = Len(s) + 1
      /\ \A k \in 1..Len(s) : Append(s, c)[k] = s[k]
      /\ Append(s, c)[Len(s) + 1] = c
  BY AppendProperties
<1>2. /\ Len(s) \in Nat /\ DOMAIN s = 1..Len(s)
      /\ DOMAIN Append(s, c) = 1..(Len(s) + 1)
  BY <1>1, LenProperties
<1>3. \A k \in DOMAIN Append(s, c) : k = Len(s) + 1 \/ k \in DOMAIN s
  BY <1>2
<1>4. Distinct(Append(s, c))
  BY <1>1, <1>2, <1>3 DEF Distinct
<1>5. QED
  BY <1>1, <1>2, <1>3, <1>4

LEMMA NewestFacts ==
    ASSUME NEW s \in Seq(Exchange), Distinct(s)
    PROVE  /\ Len(Newest(s)) <= MaxCached
           /\ Distinct(Newest(s))
           /\ \A k \in DOMAIN Newest(s) : \E j \in DOMAIN s : Newest(s)[k] = s[j]
<1> DEFINE m == IF Len(s) > MaxCached THEN Len(s) - MaxCached + 1 ELSE 1
<1>1. Len(s) \in Nat /\ DOMAIN s = 1..Len(s) /\ MaxCached \in Nat
  BY LenProperties, DaemonAssumption
<1>2. m \in Int /\ m >= 1 /\ Len(s) - m + 1 <= MaxCached
  BY <1>1
<1> HIDE DEF m
<1>3. \A j \in m..Len(s) : s[j] \in Exchange
  BY <1>1, <1>2, ElementOfSeq
<1>4. /\ SubSeq(s, m, Len(s)) \in Seq(Exchange)
      /\ Len(SubSeq(s, m, Len(s))) = IF m <= Len(s) THEN Len(s) - m + 1 ELSE 0
      /\ \A k \in 1..(Len(s) - m + 1) : SubSeq(s, m, Len(s))[k] = s[m + k - 1]
  BY <1>1, <1>2, <1>3, SubSeqProperties
<1>5. Newest(s) = SubSeq(s, m, Len(s))
  BY DEF Newest, m
<1>6. Len(Newest(s)) <= MaxCached
  BY <1>1, <1>2, <1>4, <1>5
<1>7. DOMAIN Newest(s) = 1..Len(Newest(s))
  BY <1>4, <1>5, LenProperties
<1>8. ASSUME NEW k \in DOMAIN Newest(s)
      PROVE  k \in Nat /\ m + k - 1 \in DOMAIN s /\ Newest(s)[k] = s[m + k - 1]
  <2>1. k \in 1..(Len(s) - m + 1)
    BY <1>1, <1>2, <1>4, <1>5, <1>7, <1>8
  <2>2. QED
    BY <1>1, <1>2, <1>4, <1>5, <2>1
<1>9. Distinct(Newest(s))
  <2> SUFFICES ASSUME NEW k \in DOMAIN Newest(s), NEW l \in DOMAIN Newest(s),
                      Newest(s)[k].exch = Newest(s)[l].exch
               PROVE  k = l
    BY DEF Distinct
  <2>1. m + k - 1 = m + l - 1
    BY <1>8 DEF Distinct
  <2>2. QED
    BY <1>2, <1>8, <2>1
<1>10. QED
  BY <1>6, <1>8, <1>9

-----------------------------------------------------------------------------
(* What was answered stays so, as long as the process lives: a request that *)
(* is through does not change, nor does the world of a session.             *)
Quiet == /\ \A t \in TurnId : Settled(t) => req'[t] = req[t]
         /\ \A s \in Session : issued[s] # NoWorld => issued'[s] = issued[s]

LEMMA RequestsStaySettled ==
    ASSUME DaemonInv, DaemonNext, ~Exit
    PROVE  Quiet
<1>1. CASE StartUp \/ ServiceHeartbeats
           \/ \E a \in Addr, s \in Session \cup {NoSession} : Heartbeat(a, s)
  BY <1>1 DEF StartUp, ServiceHeartbeats, Heartbeat, volatile, Quiet
<1>2. CASE Hello
  <2>1. req' = req
    BY <1>2 DEF Hello, HelloUnbound, HelloFails, HelloAccepted, Invalidated, volatile
  <2>2. \A s \in Session : issued[s] # NoWorld => issued'[s] = issued[s]
    <3>1. issued' = issued \/ \E q \in Session, w \in World : /\ issued[q] = NoWorld
                                                              /\ issued' = [issued EXCEPT ![q] = w]
      BY <1>2 DEF Hello, HelloUnbound, HelloFails, HelloAccepted, FreshSession
    <3>2. QED
      BY <3>1 DEF DaemonInv, DaemonTypeOK
  <2>3. QED
    BY <2>1, <2>2 DEF Quiet
<1>3. CASE UserMessage
  <2>1. PICK a \in Addr, m \in Message : UserMessageFrom(a, m)
    BY <1>3 DEF UserMessage
  <2>2. issued' = issued
    BY <2>1 DEF UserMessageFrom, StaleSession, BootstrapFails, Rebound
  <2>3. CASE \E b \in Bindings(a, m) : Accept(a, b, m)
    <3>1. PICK b \in Bindings(a, m), t \in TurnId, started \in Threads :
            t \notin Rows /\ req' = [req EXCEPT ![t] = NewRequest(a, b, m, started)]
      BY <2>3 DEF Accept, InsertTurn
    <3>2. req[t] = NoRequest
      BY <3>1 DEF DaemonInv, RequestsHaveRows
    <3>3. \A u \in TurnId : u # t => req'[u] = req[u]
      BY <3>1 DEF DaemonInv, DaemonTypeOK
    <3>4. QED
      BY <2>2, <3>2, <3>3 DEF Quiet, Settled
  <2>4. CASE ~\E b \in Bindings(a, m) : Accept(a, b, m)
    BY <2>1, <2>2, <2>4 DEF UserMessageFrom, StaleSession, BootstrapFails, Replay, Misused, AlreadyRunning,
         StaleHead, Busy, BeginFails, StartFails, Refuse, volatile, Quiet
  <2>5. QED
    BY <2>3, <2>4
<1>4. ASSUME NEW t \in TurnId, Worker(t)
      PROVE  Quiet
  <2>1. issued' = issued /\ ~Settled(t)
    BY <1>4 DEF Worker, EmitDelta, ModelFails, FinishError, Drop, Commit, WorkerAt, Settled
  <2>2. \A u \in TurnId : u # t => req'[u] = req[u]
    BY <1>4 DEF Worker, EmitDelta, ModelFails, FinishError, Drop, Commit, Moved, DaemonInv, DaemonTypeOK
  <2>3. QED
    BY <2>1, <2>2 DEF Quiet
<1>5. QED
  BY <1>1, <1>2, <1>3, <1>4 DEF DaemonNext, Crash, Stop

LEMMA EntriesLast ==
    ASSUME DaemonInv, HistoryKept, Quiet, NEW c \in Exchange, Lasts(c)
    PROVE  Lasts(c)'
<1>1. /\ c.turn \in TurnId /\ turns[c.turn] # NoRow /\ turns[c.turn].status = "completed"
      /\ turns[c.turn].world = WorldOf(c.exch)
  BY DEF Lasts, Completed, InWorld, Rows
<1>2. turns'[c.turn] = turns[c.turn]
  BY <1>1 DEF HistoryKept, Rows
<1>3. turns[c.turn].world \in World
  BY <1>1 DEF DaemonInv, DaemonTypeOK, StoreTypeOK, Row
<1>4. c.exch[1] \in Session
  BY DaemonAssumption DEF Exchange
<1>5. issued[c.exch[1]] # NoWorld
  BY <1>1, <1>3, DaemonAssumption DEF WorldOf
<1>6. WorldOf(c.exch)' = WorldOf(c.exch)
  BY <1>4, <1>5 DEF Quiet, WorldOf
<1>7. Settled(c.turn) /\ req'[c.turn] = req[c.turn]
  BY <1>1 DEF Lasts, Quiet
<1>8. c.turn \in Completed(WorldOf(c.exch))'
  BY <1>1, <1>2, <1>6 DEF Completed, InWorld, Rows
<1>9. QED
  BY <1>2, <1>7, <1>8 DEF Lasts, Settled

(* The exchange a commit remembers.                                         *)
LEMMA CommittedLasts ==
    ASSUME DaemonInv, NEW t \in TurnId, NEW x \in Text, Commit(t, x),
           NEW c, c = Exchanged(t, x)
    PROVE  /\ c \in Exchange /\ Lasts(c)'
           /\ turns'[t].text = x /\ turns'[t].alias = turns[t].alias
           /\ turns'[t].world = Owner(t)
           /\ t \in Completed(Owner(t))' /\ req'[t].seq = req[t].seq
           /\ peers'[Owner(t)] # NoPeer /\ peers'[Owner(t)].session = turns[t].alias[1]
<1>1. PICK r \in Row : /\ r.status = "completed" /\ r.world = Owner(t) /\ r.text = x
                       /\ r.parent = turns[t].parent /\ r.alias = turns[t].alias
                       /\ turns' = [turns EXCEPT ![t] = r]
  BY CommitFacts
<1>2. t \in active /\ Owner(t) \in World
  BY CommitFacts
<1>3. turns'[t] = r /\ turns'[t] # NoRow
  BY <1>1, NoRowAssumption DEF DaemonInv, DaemonTypeOK, StoreTypeOK
<1>4. PICK ph \in {"answered", "unsent"} : req' = [req EXCEPT ![t].phase = ph]
  BY DEF Commit, Moved
<1>5. req[t] \in Request /\ req[t] # NoRequest /\ turns[t].alias \in ClientId
  BY <1>2 DEF DaemonInv, DaemonTypeOK, RequestsHaveRows
<1>6. req'[t] = [req[t] EXCEPT !.phase = ph]
  BY <1>4, <1>5 DEF DaemonInv, DaemonTypeOK
<1>7. req'[t] \in Request /\ req'[t].phase = ph /\ req'[t].seq = req[t].seq
  BY <1>5, <1>6 DEF Request, Phase
<1>8. Settled(t)'
  BY <1>7, NoRequestAssumption DEF Settled
<1>9. /\ peers[Owner(t)] \in Peer
      /\ peers[Owner(t)].session = turns[t].alias[1]
  BY <1>2 DEF Current, Owner, DaemonInv, DaemonTypeOK, ActiveInv, ActiveIsCurrent
<1>10. issued[peers[Owner(t)].session] = Owner(t) /\ issued' = issued
  BY <1>2, <1>9, NoPeerAssumption DEF Commit, DaemonInv, PeersInv, PeersHoldTheirSession
<1>12. t \in Completed(Owner(t))'
  BY <1>1, <1>3 DEF Completed, InWorld, Rows, Owner
<1>13. turns[t].parent \in TurnId \cup {Root} /\ req[t].body \in Body /\ req[t].gen \in Nat /\ req[t].seq \in Nat
  BY <1>1, <1>5 DEF Row, Request
<1>14. /\ c \in Exchange /\ c.exch = turns[t].alias /\ c.turn = t /\ c.text = x
       /\ c.seq = req[t].seq
  BY <1>5, <1>13 DEF Exchanged, Exchange
<1>15. Lasts(c)'
  <2>1. WorldOf(c.exch)' = Owner(t)
    BY <1>9, <1>10, <1>14 DEF WorldOf
  <2>2. t \in Completed(WorldOf(c.exch))'
    BY <1>1, <1>3, <2>1 DEF Completed, InWorld, Rows
  <2>4. QED
    BY <1>1, <1>3, <1>7, <1>8, <1>14, <2>2 DEF Lasts
<1>16. peers'[Owner(t)] # NoPeer /\ peers'[Owner(t)].session = turns[t].alias[1]
  <2>1. peers' = peers \/ peers' = [peers EXCEPT ![Owner(t)].head = t]
    BY DEF Commit, Advanced
  <2>2. CASE peers' = peers
    BY <1>9, <2>2, NoPeerAssumption
  <2>3. CASE peers' = [peers EXCEPT ![Owner(t)].head = t]
    <3>1. peers'[Owner(t)] = [peers[Owner(t)] EXCEPT !.head = t]
      BY <1>2, <2>3 DEF DaemonInv, DaemonTypeOK
    <3>2. peers'[Owner(t)] \in Peer /\ peers'[Owner(t)].session = peers[Owner(t)].session
      BY <1>9, <3>1 DEF Peer
    <3>3. QED
      BY <1>9, <3>2, NoPeerAssumption
  <2>4. QED
    BY <2>1, <2>2, <2>3
<1>17. QED
  BY <1>1, <1>3, <1>7, <1>12, <1>14, <1>15, <1>16

-----------------------------------------------------------------------------
(* What a step other than a commit does to the cache.                       *)
LEMMA CacheMoves ==
    ASSUME DaemonNext, ~Exit, ~\E t \in TurnId, x \in Text : Commit(t, x)
    PROVE  \/ cache' = cache
           \/ \E e : cache' = Others(e)
           \/ \E i \in DOMAIN cache : cache' = Append(Others(cache[i].exch), cache[i])
<1>1. CASE StartUp \/ ServiceHeartbeats \/ Hello
           \/ \E a \in Addr, s \in Session \cup {NoSession} : Heartbeat(a, s)
  BY <1>1 DEF StartUp, ServiceHeartbeats, Heartbeat, Hello, HelloUnbound, HelloFails, HelloAccepted,
              Invalidated, volatile
<1>2. CASE UserMessage
  <2>1. PICK a \in Addr, m \in Message : UserMessageFrom(a, m)
    BY <1>2 DEF UserMessage
  <2>2. CASE \E b \in Bindings(a, m) : Replay(b, m)
    BY <2>2 DEF Replay, Hits
  <2>3. CASE ~\E b \in Bindings(a, m) : Replay(b, m)
    BY <2>1, <2>3 DEF UserMessageFrom, StaleSession, BootstrapFails, Misused, Forgotten, volatile
  <2>4. QED
    BY <2>2, <2>3
<1>3. ASSUME NEW t \in TurnId, Worker(t)
      PROVE  cache' = cache
  BY <1>3 DEF Worker, EmitDelta, ModelFails, FinishError, Drop
<1>4. QED
  BY <1>1, <1>2, <1>3 DEF DaemonNext, Crash, Stop

LEMMA CacheStepKeeps ==
    ASSUME DaemonInv, CacheInv, DaemonNext
    PROVE  CacheInv'
<1>0. HistoryKept /\ cache \in Seq(Exchange)
  BY DaemonStepKeeps DEF DaemonInv, DaemonTypeOK
<1>1. CASE Exit
  <2>1. cache' = << >>
    BY <1>1 DEF Exit
  <2>2. Len(cache') = 0 /\ DOMAIN cache' = {}
    BY <2>1
  <2>3. QED
    BY <2>2, DaemonAssumption DEF CacheInv, Distinct
<1>2. ASSUME ~Exit
      PROVE  CacheInv'
  <2>1. Quiet
    BY <1>2, RequestsStaySettled
  <2>2. /\ Len(cache) \in Nat /\ DOMAIN cache = 1..Len(cache) /\ MaxCached \in Nat
        /\ \A i \in DOMAIN cache : cache[i] \in Exchange
    BY <1>0, LenProperties, ElementOfSeq, DaemonAssumption
  <2>3. \A i \in DOMAIN cache : Lasts(cache[i]) /\ cache[i] \in Exchange
    BY <2>2 DEF CacheInv
  <2>4. \A c \in Exchange : Lasts(c) => Lasts(c)'
    BY <1>0, <2>1, EntriesLast
  <2>5. SUFFICES /\ Len(cache') <= MaxCached /\ Distinct(cache')
                 /\ \A k \in DOMAIN cache' : \E c \in Exchange : c = cache'[k] /\ Lasts(c)'
    BY DEF CacheInv, Distinct
  <2>6. ASSUME NEW e
        PROVE  /\ Others(e) \in Seq(Exchange) /\ Len(Others(e)) \in Nat
               /\ Len(Others(e)) <= Len(cache) /\ Distinct(Others(e))
               /\ \A k \in DOMAIN Others(e) :
                    /\ Others(e)[k].exch # e
                    /\ \E c \in Exchange : c = Others(e)[k] /\ Lasts(c)'
    <3>1. Others(e) \in Seq(Exchange)
      BY <1>0, OthersType
    <3>2. QED
      BY <1>0, <2>3, <2>4, <3>1, OthersFacts, LenProperties DEF CacheInv
  <2>7. CASE cache' = cache
    BY <2>3, <2>4, <2>7 DEF CacheInv
  <2>8. ASSUME NEW e, cache' = Others(e)
        PROVE  /\ Len(cache') <= MaxCached /\ Distinct(cache')
               /\ \A k \in DOMAIN cache' : \E c \in Exchange : c = cache'[k] /\ Lasts(c)'
    <3>1. Len(Others(e)) <= MaxCached
      BY <2>2, <2>6 DEF CacheInv
    <3>2. QED
      BY <2>6, <2>8, <3>1
  <2>9. ASSUME NEW i \in DOMAIN cache, cache' = Append(Others(cache[i].exch), cache[i])
        PROVE  /\ Len(cache') <= MaxCached /\ Distinct(cache')
               /\ \A k \in DOMAIN cache' : \E c \in Exchange : c = cache'[k] /\ Lasts(c)'
    <3>1. PICK c : c = cache[i]
      OBVIOUS
    <3>2. PICK s : s = Others(c.exch)
      OBVIOUS
    <3>3. /\ s \in Seq(Exchange) /\ Distinct(s) /\ Len(s) \in Nat
          /\ \A k \in DOMAIN s : s[k].exch # c.exch
          /\ \A k \in DOMAIN s : \E d \in Exchange : d = s[k] /\ Lasts(d)'
      BY <2>6, <3>2
    <3>4. Len(s) < Len(cache)
      BY <1>0, <3>1, <3>2, OthersFacts DEF CacheInv
    <3>5. c \in Exchange /\ Lasts(c)'
      BY <2>3, <2>4, <3>1
    <3>6. /\ Len(Append(s, c)) = Len(s) + 1 /\ Distinct(Append(s, c))
          /\ \A k \in DOMAIN Append(s, c) :
               Append(s, c)[k] = c \/ \E j \in DOMAIN s : Append(s, c)[k] = s[j]
      BY <3>3, <3>5, AppendFacts
    <3>7. Len(s) + 1 <= MaxCached
      BY <2>2, <3>3, <3>4 DEF CacheInv
    <3>8. cache' = Append(s, c)
      BY <2>9, <3>1, <3>2
    <3>9. QED
      BY <3>3, <3>5, <3>6, <3>7, <3>8
  <2>10. ASSUME NEW t \in TurnId, NEW x \in Text, Commit(t, x)
         PROVE  /\ Len(cache') <= MaxCached /\ Distinct(cache')
                /\ \A k \in DOMAIN cache' : \E c \in Exchange : c = cache'[k] /\ Lasts(c)'
    <3>1. PICK c : c = Exchanged(t, x)
      OBVIOUS
    <3>2. PICK s : s = Others(turns[t].alias)
      OBVIOUS
    <3>3. c.exch = turns[t].alias
      BY <3>1 DEF Exchanged
    <3>4. /\ s \in Seq(Exchange) /\ Distinct(s)
          /\ \A k \in DOMAIN s : s[k].exch # c.exch
          /\ \A k \in DOMAIN s : \E d \in Exchange : d = s[k] /\ Lasts(d)'
      BY <2>6, <3>2, <3>3
    <3>5. c \in Exchange /\ Lasts(c)'
      BY <2>10, <3>1, CommittedLasts
    <3>6. /\ Append(s, c) \in Seq(Exchange) /\ Distinct(Append(s, c))
          /\ \A k \in DOMAIN Append(s, c) :
               Append(s, c)[k] = c \/ \E j \in DOMAIN s : Append(s, c)[k] = s[j]
      BY <3>4, <3>5, AppendFacts
    <3>7. /\ Len(Newest(Append(s, c))) <= MaxCached /\ Distinct(Newest(Append(s, c)))
          /\ \A k \in DOMAIN Newest(Append(s, c)) :
               \E j \in DOMAIN Append(s, c) : Newest(Append(s, c))[k] = Append(s, c)[j]
      BY <3>6, NewestFacts
    <3>8. cache' = Newest(Append(s, c))
      BY <2>10, <3>1, <3>2 DEF Commit
    <3>9. QED
      BY <3>4, <3>5, <3>6, <3>7, <3>8
  <2>11. QED
    BY <1>2, <2>7, <2>8, <2>9, <2>10, CacheMoves
<1>3. QED
  BY <1>1, <1>2

LEMMA CacheInvariant == DaemonSpec => [](DaemonInv /\ CacheInv)
<1>1. DaemonInit => CacheInv
  BY DaemonAssumption DEF DaemonInit, CacheInv, Distinct
<1>2. DaemonInv /\ CacheInv /\ [DaemonNext]_dvars => CacheInv'
  <2> SUFFICES ASSUME DaemonInv, CacheInv, [DaemonNext]_dvars PROVE CacheInv'
    OBVIOUS
  <2>1. CASE UNCHANGED dvars
    BY <2>1 DEF dvars, volatile, CacheInv, Distinct, Lasts, Settled, Completed, InWorld, Rows, WorldOf
  <2>2. QED
    BY <2>1, CacheStepKeeps
<1>3. QED
  BY <1>1, <1>2, DaemonInvariant, PTL DEF DaemonSpec

(* Whatever is replayed, evicted, forgotten or superseded, the cache holds  *)
(* one entry per exchange, no more than its limit, and every entry is an    *)
(* answer as the store has it (daemon.py, _cache_completed_locked).         *)
THEOREM AnswersAreDurable == DaemonSpec => []CacheIsDurable
<1>1. CacheInv => CacheIsDurable
  BY DEF CacheInv, Distinct, Lasts, CacheIsDurable
<1>2. QED
  BY <1>1, CacheInvariant, PTL

-----------------------------------------------------------------------------
(* Which steps send an assistant_end.                                       *)
NoEnd == \A p \in sent' : p.type # "assistant_end"

LEMMA OnlyAcksBesides ==
    ASSUME NEW a \in Addr, NEW m \in Message, NEW b \in Bindings(a, m)
    PROVE  \A p \in b.out : p.type = "hello_ack"
<1>1. b.out = {} \/ \E w, r, s : b.out = {Ack(w, r, s)}
  <2>1. ASSUME NEW v,
               b = [peers |-> peers, addrs |-> addrWorld, heads |-> head, at |-> v,
                    parent |-> m.parent, out |-> {}]
        PROVE  b.out = {}
    BY <2>1
  <2>2. ASSUME NEW w, NEW r, NEW ps, NEW as, NEW hs,
               b = [peers |-> ps, addrs |-> as, heads |-> hs, at |-> w,
                    parent |-> r, out |-> {Ack(w, r, m.exch[1])}]
        PROVE  b.out = {Ack(w, r, m.exch[1])}
    BY <2>2
  <2>3. QED
    BY <2>1, <2>2 DEF Bindings
<1>2. QED
  BY <1>1 DEF Ack

LEMMA EndsAreAnswers ==
    ASSUME DaemonNext
    PROVE  \/ NoEnd
           \/ \E t \in TurnId, x \in Text : Commit(t, x)
           \/ \E a \in Addr, m \in Message : \E b \in Bindings(a, m) : Rebound(b) /\ Replay(b, m)
<1>1. CASE StartUp \/ Crash \/ Stop \/ ServiceHeartbeats
           \/ \E a \in Addr, s \in Session \cup {NoSession} : Heartbeat(a, s)
  BY <1>1 DEF StartUp, Crash, Stop, Exit, ServiceHeartbeats, Heartbeat, Beat, NoEnd
<1>2. CASE Hello
  BY <1>2 DEF Hello, HelloUnbound, HelloFails, HelloAccepted, Ack, Failure, NoEnd
<1>3. CASE UserMessage
  <2>1. PICK a \in Addr, m \in Message : UserMessageFrom(a, m)
    BY <1>3 DEF UserMessage
  <2>2. CASE StaleSession(a, m) \/ BootstrapFails(a, m)
    BY <2>2 DEF StaleSession, BootstrapFails, Failure, NoEnd
  <2>3. ASSUME NEW b \in Bindings(a, m),
               \/ Misused(b, m) \/ AlreadyRunning(b, m) \/ StaleHead(b, m) \/ Busy(b, m)
               \/ BeginFails(b, m) \/ StartFails(b, m) \/ Accept(a, b, m)
        PROVE  NoEnd
    <3>1. \E ps : Answer(b, ps) /\ \A p \in ps : p.type \in {"error", "assistant_start"}
      <4>1. ASSUME Accept(a, b, m)
            PROVE  \E ps : Answer(b, ps) /\ \A p \in ps : p.type \in {"error", "assistant_start"}
        <5> DEFINE e == Failure(WorldOf(m.exch), m.exch, "DAEMON_ERROR", 1)
        <5>1. PICK ps \in SUBSET {e} : Answer(b, {Start(m.exch)} \cup ps)
          BY <4>1 DEF Accept
        <5>2. e.type = "error" /\ Start(m.exch).type = "assistant_start"
          BY DEF Failure, Start
        <5> HIDE DEF e
        <5>3. QED
          BY <5>1, <5>2
      <4>2. QED
        BY <2>3, <4>1 DEF Misused, AlreadyRunning, StaleHead, Busy, BeginFails, StartFails, Refuse, Failure
    <3>2. QED
      BY <3>1, OnlyAcksBesides DEF Answer, NoEnd
  <2>4. QED
    BY <2>1, <2>2, <2>3 DEF UserMessageFrom
<1>4. ASSUME NEW t \in TurnId, EmitDelta(t) \/ ModelFails(t) \/ FinishError(t) \/ Drop(t)
      PROVE  NoEnd
  BY <1>4 DEF EmitDelta, ModelFails, FinishError, Drop, Delta, Failure, NoEnd
<1>5. QED
  BY <1>1, <1>2, <1>3, <1>4 DEF DaemonNext, Worker

(* p tells what the store has committed, to the session that asked.         *)
Announced(p) == /\ p.turn \in Completed(p.world)'
                /\ turns'[p.turn].text = p.text /\ turns'[p.turn].alias = p.exch
                /\ p.seq = req'[p.turn].seq
                /\ peers'[p.world] # NoPeer /\ peers'[p.world].session = p.exch[1]

LEMMA EndsAnnounce ==
    ASSUME DaemonInv, CacheInv, DaemonNext, NEW p \in sent', p.type = "assistant_end"
    PROVE  Announced(p)
<1>1. ASSUME NEW t \in TurnId, NEW x \in Text, Commit(t, x)
      PROVE  Announced(p)
  <2>1. /\ p.world = Owner(t) /\ p.exch = turns[t].alias /\ p.turn = t
        /\ p.text = x /\ p.seq = req[t].seq
    BY <1>1 DEF Commit, End
  <2>2. QED
    <3>1. PICK c : c = Exchanged(t, x)
      OBVIOUS
    <3>2. /\ turns'[t].text = x /\ turns'[t].alias = turns[t].alias
          /\ t \in Completed(Owner(t))' /\ req'[t].seq = req[t].seq
          /\ peers'[Owner(t)] # NoPeer /\ peers'[Owner(t)].session = turns[t].alias[1]
      BY <1>1, <3>1, CommittedLasts
    <3>3. PICK w : w = Owner(t) /\ w = turns'[t].world
      BY <1>1, <3>1, CommittedLasts
    <3>4. t \in Completed(w)' /\ p.world = w
      BY <2>1, <3>2, <3>3 DEF Owner
    <3>5. QED
      BY <2>1, <3>2, <3>3, <3>4 DEF Announced
<1>2. ASSUME NEW a \in Addr, NEW m \in Message, NEW b \in Bindings(a, m), Rebound(b), Replay(b, m)
      PROVE  Announced(p)
  <2>1. PICK i \in DOMAIN cache :
          /\ cache[i].exch = m.exch
          /\ Answer(b, {End(b.at, m.exch, cache[i].turn, cache[i].text, cache[i].seq)})
          /\ UNCHANGED <<turns, req>>
    BY <1>2 DEF Replay, Hits
  <2>2. /\ p.world = b.at /\ p.exch = m.exch /\ p.turn = cache[i].turn
        /\ p.text = cache[i].text /\ p.seq = cache[i].seq
    BY <2>1, OnlyAcksBesides DEF Answer, End
  <2>3. PICK w : w = WorldOf(m.exch)
    OBVIOUS
  <2>4. b.at = w /\ peers'[w] \in Peer /\ peers'[w].session = m.exch[1]
    BY <1>2, <2>3, BindingFacts, RebindingFacts DEF DaemonInv
  <2>5. Lasts(cache[i])
    BY DEF CacheInv
  <2>6. cache[i].turn \in Completed(w)'
    BY <2>1, <2>3, <2>5 DEF Lasts, Completed, InWorld, Rows
  <2>7. QED
    BY <2>1, <2>2, <2>4, <2>5, <2>6, NoPeerAssumption DEF Lasts, Announced
<1>3. QED
  BY <1>1, <1>2, EndsAreAnswers DEF NoEnd

(* Every assistant_end on the wire, the first and any replayed one, tells   *)
(* what the store has committed, and tells it to the session that asked     *)
(* (daemon.py, _commit_request and the replay in _handle_user_message).     *)
THEOREM EndsAreDurable == DaemonSpec => EndIsDurable
<1>1. DaemonInv /\ CacheInv /\ [DaemonNext]_dvars =>
        [\A p \in sent' : p.type = "assistant_end" => Announced(p)]_dvars
  BY EndsAnnounce
<1>2. QED
  BY <1>1, CacheInvariant, PTL DEF DaemonSpec, EndIsDurable, Announced

-----------------------------------------------------------------------------
(* Rows left pending.                                                       *)
LEMMA NobodyElsePends ==
    ASSUME DaemonInv, PendingIsOwned, ~StoreMayFail, NEW D \in SUBSET active,
           AbortRows(D), active' = active \ D, req' = req
    PROVE  PendingIsOwned'
<1>1. turns' = Aborted(D)
  BY DEF AbortRows
<1>2. \A t \in TurnId : turns'[t] # NoRow /\ turns'[t].status = "pending" =>
        t \in Pending /\ t \notin D
  <2> SUFFICES ASSUME NEW t \in TurnId, turns'[t] # NoRow, turns'[t].status = "pending"
               PROVE  t \in Pending /\ t \notin D
    OBVIOUS
  <2>1. CASE t \in D \cap Pending
    <3>1. turns'[t] = [turns[t] EXCEPT !.status = "aborted"] /\ turns[t] \in Row
      BY <1>1, <2>1 DEF Aborted, Pending, Rows, DaemonInv, DaemonTypeOK, StoreTypeOK
    <3>2. QED
      BY <3>1 DEF Row
  <2>2. CASE t \notin D \cap Pending
    <3>1. turns'[t] = turns[t]
      BY <1>1, <2>2 DEF Aborted
    <3>2. QED
      BY <2>2, <3>1 DEF Pending, Rows
  <2>3. QED
    BY <2>1, <2>2
<1>3. QED
  BY <1>2 DEF PendingIsOwned, Pending, Rows

LEMMA PendingStepKeeps ==
    ASSUME DaemonInv, PendingIsOwned, ~StoreMayFail, DaemonNext
    PROVE  PendingIsOwned'
<1>0. /\ turns \in [TurnId -> Row \cup {NoRow}] /\ req \in [TurnId -> Request \cup {NoRequest}]
      /\ \A t \in TurnId : req[t] # NoRequest => turns[t] # NoRow
  BY DEF DaemonInv, DaemonTypeOK, StoreTypeOK, RequestsHaveRows, Rows
<1>1. CASE StartUp \/ ServiceHeartbeats
           \/ \E a \in Addr, s \in Session \cup {NoSession} : Heartbeat(a, s)
  BY <1>1 DEF StartUp, ServiceHeartbeats, Heartbeat, volatile, PendingIsOwned, Pending, Rows
<1>2. CASE Exit
  BY <1>2 DEF Exit, NoRequests, PendingIsOwned, Pending, Rows
<1>3. CASE Hello
  <2>1. CASE \E a \in Addr, h \in TurnId \cup {Root} : HelloUnbound(a, h)
    BY <2>1 DEF HelloUnbound, volatile, PendingIsOwned, Pending, Rows
  <2>2. ASSUME NEW a \in Addr, NEW w \in World, Invalidated(a, w)
        PROVE  PendingIsOwned'
    <3>1. Superseded(a, w) \in SUBSET active
      BY DEF Superseded, ActiveIn
    <3>2. QED
      BY <2>2, <3>1, NobodyElsePends DEF Invalidated
  <2>3. QED
    BY <1>3, <2>1, <2>2 DEF Hello, HelloFails, HelloAccepted
<1>4. CASE UserMessage
  <2>1. PICK a \in Addr, m \in Message : UserMessageFrom(a, m)
    BY <1>4 DEF UserMessage
  <2>2. ASSUME UNCHANGED <<turns, active, req>>
        PROVE  PendingIsOwned'
    BY <2>2 DEF PendingIsOwned, Pending, Rows
  <2>3. ASSUME NEW b \in Bindings(a, m), Accept(a, b, m) \/ StartFails(b, m)
        PROVE  PendingIsOwned'
    <3>1. PICK t \in TurnId, p \in TurnId \cup {Root}, st \in {"pending", "aborted"} :
            /\ turns[t] = NoRow
            /\ turns' = [turns EXCEPT ![t] = NewRow(WorldOf(m.exch), p, st, Blank, m.exch)]
            /\ \/ active' = active \cup {t}
               \/ active' = active /\ st = "aborted"
            /\ \/ req' = req
               \/ \E started \in Threads : req' = [req EXCEPT ![t] = NewRequest(a, b, m, started)]
      BY <2>3 DEF Accept, StartFails, InsertTurn, Anchors, Completed, InWorld, Rows
    <3>2. \A u \in TurnId : u # t => turns'[u] = turns[u] /\ req'[u] = req[u]
      BY <1>0, <3>1
    <3>3. t \in active' \/ turns'[t].status = "aborted"
      BY <1>0, <3>1 DEF NewRow
    <3>4. active \subseteq active'
      BY <3>1
    <3>5. QED
      BY <3>2, <3>3, <3>4 DEF PendingIsOwned, Pending, Rows
  <2>4. QED
    BY <2>1, <2>2, <2>3 DEF UserMessageFrom, StaleSession, BootstrapFails, Replay, Misused,
         AlreadyRunning, StaleHead, Busy, BeginFails, Refuse, volatile
<1>5. ASSUME NEW t \in TurnId, Worker(t)
      PROVE  PendingIsOwned'
  <2>1. CASE EmitDelta(t) \/ ModelFails(t) \/ Drop(t)
    <3>1. /\ turns' = turns /\ active' = active
          /\ req[t] # NoRequest /\ \A u \in TurnId : u # t => req'[u] = req[u]
      BY <1>0, <2>1 DEF EmitDelta, ModelFails, Drop, WorkerAt, Moved
    <3>2. QED
      BY <3>1 DEF PendingIsOwned, Pending, Rows
  <2>2. CASE FinishError(t)
    <3>1. turns' = Aborted({t}) /\ active' = active \ {t}
      BY <2>2 DEF FinishError, AbortRows, Retired
    <3>2. \A u \in TurnId : u # t => turns'[u] = turns[u] /\ req'[u] = req[u]
      BY <1>0, <2>2, <3>1 DEF FinishError, Moved, Aborted
    <3>3. ~(turns'[t] # NoRow /\ turns'[t].status = "pending")
      BY <1>0, <3>1 DEF Aborted, Pending, Rows, Row
    <3>4. QED
      BY <3>1, <3>2, <3>3 DEF PendingIsOwned, Pending, Rows
  <2>3. ASSUME NEW x \in Text, Commit(t, x)
        PROVE  PendingIsOwned'
    <3>1. PICK r \in Row : r.status = "completed" /\ turns' = [turns EXCEPT ![t] = r]
      BY <2>3, CommitFacts
    <3>2. active' = active \ {t} /\ \A u \in TurnId : u # t => turns'[u] = turns[u] /\ req'[u] = req[u]
      BY <1>0, <2>3, <3>1 DEF Commit, Retired, Moved
    <3>3. turns'[t] = r
      BY <1>0, <3>1
    <3>4. QED
      BY <3>1, <3>2, <3>3 DEF PendingIsOwned, Pending, Rows
  <2>4. QED
    BY <1>5, <2>1, <2>2, <2>3 DEF Worker
<1>6. QED
  BY <1>1, <1>2, <1>3, <1>4, <1>5 DEF DaemonNext, Crash, Stop

(* As long as SQLite works no handled failure leaves a row pending: only a  *)
(* process that died does (daemon.py, _finish_error, _invalidate_world).    *)
THEOREM PendingRowsAreOwned == ASSUME ~StoreMayFail PROVE DaemonSpec => []PendingIsOwned
<1>1. DaemonInit => PendingIsOwned
  BY DEF DaemonInit, NoRequests, PendingIsOwned, Pending, Rows
<1>2. DaemonInv /\ PendingIsOwned /\ [DaemonNext]_dvars => PendingIsOwned'
  <2> SUFFICES ASSUME DaemonInv, PendingIsOwned, [DaemonNext]_dvars PROVE PendingIsOwned'
    OBVIOUS
  <2>1. CASE UNCHANGED dvars
    BY <2>1 DEF dvars, volatile, PendingIsOwned, Pending, Rows
  <2>2. QED
    BY <2>1, PendingStepKeeps
<1>3. QED
  BY <1>1, <1>2, DaemonInvariant, PTL DEF DaemonSpec
=============================================================================
