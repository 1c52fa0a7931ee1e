-------------------------- MODULE CompanionModProofs --------------------------
(***************************************************************************)
(* Theorems about the game's transport, for any number of worlds, sessions, *)
(* turns, daemon processes, questions, packets and loads, any length of the *)
(* history and any timeouts.                                                *)
(***************************************************************************)
EXTENDS CompanionMod, TLAPS

(* The tables of a save, whether the game runs on them or they lie in the   *)
(* file: Load brings back whatever Save wrote.                              *)
BusyFits(s) ==
    /\ s.status \in {"thinking", "streaming"} => s.active # NoExchange
    /\ s.active # NoExchange => s.status \in {"thinking", "streaming", "ready"}

Ordered(stream, last) ==
    \A i \in DOMAIN stream : /\ stream[i] <= last
                             /\ i > 1 => stream[i - 1] < stream[i]

PreviewFits(s) ==
    /\ s.stream # NoStream => /\ s.active # NoExchange /\ s.active.started
                              /\ Ordered(s.stream, s.active.last)
    /\ s.active # NoExchange /\ s.active.started => s.stream # NoStream

Agent(log, i) == i \in DOMAIN log /\ log[i].kind = "agent"

LogFits(log, head) ==
    /\ \A i : Agent(log, i) /\ i # 1 => log[i - 1].kind = "user"
    /\ \A i : Agent(log, i) /\ (\A j : Agent(log, j) => j <= i) => log[i].turn = head

(* The question in progress is the last entry of the history.               *)
AskedLast(s) == s.active # NoExchange => s.log # <<>> /\ s.log[Len(s.log)].kind = "user"

Sound(s) == BusyFits(s) /\ PreviewFits(s) /\ LogFits(s.log, s.head) /\ AskedLast(s)

(* A session in use is the save's own, and no hello is out.                 *)
Connected == session # NoSession => storage.world = Home[session] /\ storage.pending = 0

ModInv == ModTypeOK /\ Sound(storage) /\ Sound(saved) /\ Connected /\ ExchangeIsCurrent

-----------------------------------------------------------------------------
(* What the helpers do.  Calm(s, r): r is s with no exchange in progress.   *)
Calm(s, r) == /\ r \in Storage /\ r.active = NoExchange /\ r.stream = NoStream
              /\ r.head = s.head /\ r.log = s.log

LEMMA CalmIsSound ==
    ASSUME NEW s, Sound(s), NEW r, Calm(s, r), r.status \notin {"thinking", "streaming"}
    PROVE  r \in Storage /\ Sound(r)
BY DEF Calm, Sound, BusyFits, PreviewFits, AskedLast

LEMMA CalmAgain ==
    ASSUME NEW s, NEW r, NEW q, Calm(s, r), Calm(r, q)
    PROVE  Calm(s, q)
BY DEF Calm

LEMMA AbortCalms ==
    ASSUME NEW s \in Storage, PreviewFits(s)
    PROVE  /\ Calm(s, AbortExchange(s))
           /\ AbortExchange(s).world = s.world /\ AbortExchange(s).pending = s.pending
           /\ AbortExchange(s).status = s.status
BY DEF Calm, AbortExchange, PreviewFits, Storage

LEMMA MarkOfflineCalms ==
    ASSUME NEW s \in Storage, PreviewFits(s)
    PROVE  /\ Calm(s, MarkOffline(s)) /\ MarkOffline(s).status = "offline"
           /\ MarkOffline(s).world = s.world /\ MarkOffline(s).pending = s.pending
BY AbortCalms DEF Calm, MarkOffline, Storage, Status

LEMMA CalmPreview ==
    ASSUME NEW s, NEW r, Calm(s, r)
    PROVE  r \in Storage /\ PreviewFits(r)
BY DEF Calm, PreviewFits

LEMMA Bounds ==
    /\ 0 \in 0..TooLong /\ TooLong \in 0..TooLong
    /\ Patience \in -1..Patience /\ -1 \in -1..Patience /\ 0 \in -1..Patience
    /\ 0 \in 0..ErrorChecks + 1 /\ ErrorChecks + 1 \in 0..ErrorChecks + 1
BY ModAssumption DEF TooLong

LEMMA HeardFacts ==
    ASSUME NEW s \in Storage
    PROVE  /\ Heard(s) \in Storage
           /\ Heard(s).world = s.world /\ Heard(s).pending = s.pending /\ Heard(s).head = s.head
           /\ Heard(s).log = s.log /\ Heard(s).status = s.status /\ Heard(s).stream = s.stream
           /\ Heard(s).active = s.active /\ Heard(s).epoch = s.epoch
           /\ Heard(s).minted = s.minted /\ Heard(s).error = s.error
BY Bounds DEF Heard, Storage

LEMMA HeardIsSound ==
    ASSUME NEW s \in Storage, Sound(s)
    PROVE  Sound(Heard(s))
BY HeardFacts DEF Sound, BusyFits, PreviewFits, AskedLast

LEMMA FailingCalms ==
    ASSUME NEW s \in Storage, PreviewFits(s)
    PROVE  /\ Calm(s, Failing(s)) /\ Failing(s).status = "error"
           /\ Failing(s).world = s.world /\ Failing(s).pending = s.pending
BY AbortCalms, Bounds DEF Calm, Failing, Storage, Status

LEMMA ControlCounts ==
    ASSUME NEW s \in Storage
    PROVE  NextControl(s) \in Nat /\ NextControl(s) # 0
<1>1. s.control \in Nat /\ MaxControl \in Nat \ {0}
  BY ModAssumption DEF Storage
<1>2. (s.control % MaxControl) \in Nat
  BY <1>1
<1>3. QED
  BY <1>2 DEF NextControl

LEMMA HelloCalms ==
    ASSUME NEW s \in Storage, PreviewFits(s), NEW ok \in BOOLEAN, NEW age \in {-1, 0}
    PROVE  /\ Calm(s, SendHello(s, ok, age))
           /\ SendHello(s, ok, age).status \in {"connecting", "offline"}
<1> DEFINE sent == [AbortExchange(s) EXCEPT !.quiet = TooLong, !.since = age,
                       !.control = NextControl(s), !.pending = NextControl(s)]
<1>1. Calm(s, sent)
  BY AbortCalms, ControlCounts, Bounds DEF Calm, Storage
<1> HIDE DEF sent
<1>2. CASE ok
  <2>1. SendHello(s, ok, age) = [sent EXCEPT !.status = "connecting"]
    BY <1>2 DEF SendHello, sent
  <2>2. QED
    BY <1>1, <2>1 DEF Calm, Storage, Status
<1>3. CASE ~ok
  <2>1. SendHello(s, ok, age) = MarkOffline(sent)
    BY <1>3 DEF SendHello, sent
  <2>2. QED
    BY <1>1, <2>1, CalmPreview, MarkOfflineCalms, CalmAgain
<1>4. QED
  BY <1>2, <1>3

LEMMA ResultsAreBoolean == SendResults \subseteq BOOLEAN
BY DEF SendResults

LEMMA RenewedFacts ==
    ASSUME NEW s \in Storage, Sound(s), NEW ep \in Epoch
    PROVE  /\ Renewed(s, ep) \in Storage
           /\ PreviewFits(Renewed(s, ep)) /\ AskedLast(Renewed(s, ep))
           /\ Renewed(s, ep).head = s.head /\ Renewed(s, ep).log = s.log
           /\ Renewed(s, ep).pending = s.pending /\ Renewed(s, ep).world = s.world
           /\ Renewed(s, ep).status = s.status
           /\ Renewed(s, ep).active \in {s.active, NoExchange}
           /\ s.epoch \notin {0, ep} => Renewed(s, ep).active = NoExchange
<1>1. ep \in 0..MaxEpoch
  BY ModAssumption DEF Epoch
<1>2. CASE s.epoch \in {0, ep}
  <2>1. Renewed(s, ep) = [s EXCEPT !.epoch = ep]
    BY <1>2 DEF Renewed
  <2>2. QED
    BY <1>1, <1>2, <2>1, SMTT(30) DEF Storage, Sound, PreviewFits, AskedLast
<1>3. CASE s.epoch \notin {0, ep}
  <2>1. Renewed(s, ep) = [AbortExchange(s) EXCEPT !.epoch = ep]
    BY <1>3 DEF Renewed
  <2>2. Calm(s, AbortExchange(s)) /\ AbortExchange(s).world = s.world
        /\ AbortExchange(s).pending = s.pending /\ AbortExchange(s).status = s.status
    BY AbortCalms DEF Sound
  <2>3. QED
    BY <1>1, <1>3, <2>1, <2>2 DEF Calm, Storage, PreviewFits, AskedLast
<1>4. QED
  BY <1>2, <1>3

LEMMA AgedFacts ==
    ASSUME NEW s \in Storage, Sound(s)
    PROVE  /\ Aged(s) \in Storage /\ Sound(Aged(s))
           /\ Aged(s).world = s.world /\ Aged(s).pending = s.pending
           /\ Aged(s).active = s.active /\ Aged(s).head = s.head /\ Aged(s).log = s.log
<1>1. Count(s.quiet, TooLong) \in 0..TooLong
  BY ModAssumption DEF Storage, Count, TooLong
<1>2. Count(s.since, Patience) \in -1..Patience
  BY ModAssumption DEF Storage, Count
<1>3. (IF s.error > 0 THEN s.error - 1 ELSE 0) \in 0..ErrorChecks + 1
  BY ModAssumption DEF Storage
<1>4. (~s.even) \in BOOLEAN
  OBVIOUS
<1> DEFINE e == IF s.error > 0 THEN s.error - 1 ELSE 0
           q == Count(s.quiet, TooLong)
           h == Count(s.since, Patience)
           v == ~s.even
<1>5. Aged(s) = [s EXCEPT !.quiet = q, !.since = h, !.error = e, !.even = v]
  BY DEF Aged
<1> HIDE DEF e, q, h, v
<1>6. e \in 0..ErrorChecks + 1 /\ q \in 0..TooLong /\ h \in -1..Patience /\ v \in BOOLEAN
  BY <1>1, <1>2, <1>3, <1>4 DEF e, q, h, v
<1>7. QED
  BY <1>5, <1>6 DEF Storage, Sound, BusyFits, PreviewFits, AskedLast

LEMMA WatchedFacts ==
    ASSUME NEW s \in Storage, Sound(s)
    PROVE  /\ Watched(s) \in Storage /\ Sound(Watched(s))
           /\ Watched(s).world = s.world /\ Watched(s).pending = s.pending
           /\ Watched(s).active \in {s.active, NoExchange}
           /\ Watched(s).head = s.head /\ Watched(s).log = s.log
<1>1. CASE Watched(s) = s
  BY <1>1
<1>2. CASE Watched(s) = MarkOffline(s)
  <2>1. Calm(s, MarkOffline(s)) /\ MarkOffline(s).status = "offline"
        /\ MarkOffline(s).world = s.world /\ MarkOffline(s).pending = s.pending
    BY MarkOfflineCalms DEF Sound
  <2>2. MarkOffline(s) \in Storage /\ Sound(MarkOffline(s))
    BY <2>1, CalmIsSound
  <2>3. QED
    BY <1>2, <2>1, <2>2 DEF Calm
<1>3. CASE s.status = "error" /\ Watched(s) = [s EXCEPT !.status = "ready"]
  <2>1. s.active = NoExchange
    BY <1>3 DEF Sound, BusyFits
  <2>2. Watched(s) \in Storage /\ Watched(s).status = "ready" /\ Watched(s).active = s.active
        /\ Watched(s).stream = s.stream /\ Watched(s).head = s.head /\ Watched(s).log = s.log
        /\ Watched(s).world = s.world /\ Watched(s).pending = s.pending
    BY <1>3 DEF Storage, Status
  <2>3. QED
    BY <2>1, <2>2 DEF Sound, BusyFits, PreviewFits, AskedLast
<1>4. QED
  BY <1>1, <1>2, <1>3 DEF Watched

LEMMA SendHeartbeatFacts ==
    ASSUME NEW s \in Storage, Sound(s), NEW ok \in BOOLEAN
    PROVE  LET r == SendHeartbeat(s, ok)
           IN  /\ r \in Storage /\ Sound(r) /\ r.world = s.world /\ r.pending = s.pending
               /\ r.active \in {s.active, NoExchange} /\ r.head = s.head /\ r.log = s.log
<1> DEFINE sent == [s EXCEPT !.control = NextControl(s)]
<1>1. sent \in Storage /\ Sound(sent) /\ sent.world = s.world /\ sent.pending = s.pending
      /\ sent.active = s.active /\ sent.head = s.head /\ sent.log = s.log
  BY ControlCounts DEF Storage, Sound, BusyFits, PreviewFits, AskedLast
<1>2. SendHeartbeat(s, ok) \in {s, sent, MarkOffline(sent)}
  BY DEF SendHeartbeat
<1> HIDE DEF sent
<1>3. Calm(sent, MarkOffline(sent)) /\ MarkOffline(sent).status = "offline"
      /\ MarkOffline(sent).world = sent.world /\ MarkOffline(sent).pending = sent.pending
  BY <1>1, MarkOfflineCalms DEF Sound
<1>4. MarkOffline(sent) \in Storage /\ Sound(MarkOffline(sent))
  BY <1>1, <1>3, CalmIsSound
<1>5. QED
  BY <1>1, <1>2, <1>3, <1>4 DEF Calm

LEMMA PushedFacts ==
    ASSUME NEW log \in Seq(Entry), NEW x \in Entry
    PROVE  LET p == Pushed(log, x) IN
           /\ p \in Seq(Entry) /\ Len(p) >= 1 /\ Len(p) <= Len(log) + 1 /\ p[Len(p)] = x
           /\ \A i \in 1..Len(p) - 1 : p[i] = log[i + (Len(log) + 1 - Len(p))]
<1> DEFINE full == Append(log, x)
           m == IF Len(full) > MaxHistory THEN Len(full) - MaxHistory + 1 ELSE 1
<1>1. full \in Seq(Entry) /\ Len(full) = Len(log) + 1 /\ full[Len(full)] = x
      /\ \A i \in 1..Len(log) : full[i] = log[i]
  OBVIOUS
<1>2. m \in 1..Len(full)
  BY <1>1, ModAssumption
<1>3. Pushed(log, x) = SubSeq(full, m, Len(full))
  BY DEF Pushed
<1> HIDE DEF full, m
<1> DEFINE p == SubSeq(full, m, Len(full))
<1>4. p \in Seq(Entry) /\ Len(p) = Len(full) - m + 1 /\ \A i \in 1..Len(p) : p[i] = full[i + m - 1]
  BY <1>1, <1>2
<1> HIDE DEF p
<1>5. Len(log) \in Nat /\ m \in Nat /\ Len(p) \in Nat
  BY <1>1, <1>2, <1>4
<1>6. Len(p) >= 1 /\ Len(p) <= Len(log) + 1
  BY <1>1, <1>2, <1>4, <1>5
<1>7. p[Len(p)] = x
  BY <1>1, <1>4, <1>5, <1>6
<1>8. \A i \in 1..Len(p) - 1 : p[i] = log[i + (Len(log) + 1 - Len(p))]
  <2> SUFFICES ASSUME NEW i \in 1..Len(p) - 1
               PROVE  p[i] = log[i + (Len(log) + 1 - Len(p))]
    OBVIOUS
  <2>1. p[i] = full[i + m - 1] /\ i + m - 1 \in 1..Len(log)
    BY <1>1, <1>2, <1>4, <1>5
  <2>2. i + m - 1 = i + (Len(log) + 1 - Len(p))
    BY <1>1, <1>4, <1>5
  <2>3. QED
    BY <1>1, <2>1, <2>2
<1>9. QED
  BY <1>3, <1>4, <1>6, <1>7, <1>8 DEF p

(* An entry of the longer history that is not the new one was there before. *)
LEMMA PushKeeps ==
    ASSUME NEW log \in Seq(Entry), NEW x \in Entry, NEW head, LogFits(log, head),
           NEW i, Agent(Pushed(log, x), i), i # Len(Pushed(log, x))
    PROVE  /\ i # 1 => Pushed(log, x)[i - 1].kind = "user"
           /\ (\A j : Agent(Pushed(log, x), j) => j <= i) => Pushed(log, x)[i].turn = head
<1> DEFINE p == Pushed(log, x)
           d == Len(log) + 1 - Len(p)
<1>0. p \in Seq(Entry) /\ Len(p) <= Len(log) + 1 /\ \A k \in 1..Len(p) - 1 : p[k] = log[k + d]
  BY PushedFacts
<1>1. /\ p \in Seq(Entry) /\ Len(p) \in Nat /\ Len(log) \in Nat /\ d \in Nat
      /\ \A k \in 1..Len(p) - 1 : p[k] = log[k + d]
  <2> HIDE DEF p
  <2>1. Len(p) \in Nat /\ Len(log) \in Nat
    BY <1>0
  <2>2. QED
    BY <1>0, <2>1
<1>2. i \in 1..Len(p) - 1
  BY <1>1 DEF Agent
<1> HIDE DEF p
<1>3. Agent(log, i + d)
  BY <1>1, <1>2 DEF Agent, p
<1>4. ASSUME i # 1
      PROVE  p[i - 1].kind = "user"
  <2>1. log[i + d - 1].kind = "user"
    BY <1>1, <1>2, <1>3, <1>4 DEF LogFits
  <2>2. i - 1 \in 1..Len(p) - 1 /\ (i - 1) + d = i + d - 1
    BY <1>1, <1>2, <1>4
  <2>3. QED
    BY <1>1, <2>1, <2>2
<1>5. ASSUME \A j : Agent(p, j) => j <= i
      PROVE  p[i].turn = head
  <2>1. ASSUME NEW j, Agent(log, j)
        PROVE  j <= i + d
    <3>1. j \in 1..Len(log)
      BY <2>1 DEF Agent
    <3>2. CASE j <= d
      BY <1>1, <1>2, <3>1, <3>2
    <3>3. CASE j > d
      <4>1. j - d \in 1..Len(p) - 1 /\ (j - d) + d = j
        BY <1>1, <3>1, <3>3
      <4>2. Agent(p, j - d)
        BY <1>1, <2>1, <4>1 DEF Agent
      <4>3. QED
        BY <1>1, <1>2, <1>5, <3>1, <4>2
    <3>4. QED
      BY <1>1, <3>1, <3>2, <3>3
  <2>2. log[i + d].turn = head
    BY <1>3, <2>1 DEF LogFits
  <2>3. QED
    BY <1>1, <1>2, <2>2
<1>6. QED
  BY <1>4, <1>5 DEF p

LEMMA PushQuestion ==
    ASSUME NEW log \in Seq(Entry), NEW e \in Exch, NEW head, LogFits(log, head)
    PROVE  LET p == Pushed(log, Asked(e)) IN
           /\ p \in Seq(Entry) /\ LogFits(p, head)
           /\ p # <<>> /\ p[Len(p)].kind = "user"
<1> DEFINE p == Pushed(log, Asked(e))
<1>1. Asked(e) \in Entry /\ Asked(e).kind = "user"
  BY DEF Asked, Entry
<1>2. p \in Seq(Entry) /\ Len(p) >= 1 /\ p[Len(p)] = Asked(e)
  BY <1>1, PushedFacts
<1>3. ASSUME NEW i, Agent(p, i)
      PROVE  i # Len(p)
  BY <1>1, <1>2, <1>3 DEF Agent
<1>4. LogFits(p, head)
  BY <1>1, <1>3, PushKeeps DEF LogFits
<1>5. QED
  BY <1>1, <1>2, <1>4

LEMMA PushAnswer ==
    ASSUME NEW log \in Seq(Entry), NEW t \in Turn, NEW head, LogFits(log, head),
           log # <<>>, log[Len(log)].kind = "user"
    PROVE  LET p == Pushed(log, Answered(t)) IN
           p \in Seq(Entry) /\ LogFits(p, t) /\ p # log
<1> DEFINE p == Pushed(log, Answered(t))
           d == Len(log) + 1 - Len(p)
<1>1. Answered(t) \in Entry /\ Answered(t).kind = "agent" /\ Answered(t).turn = t
  BY DEF Answered, Entry
<1>0. /\ p \in Seq(Entry) /\ Len(p) >= 1 /\ Len(p) <= Len(log) + 1 /\ p[Len(p)] = Answered(t)
      /\ \A i \in 1..Len(p) - 1 : p[i] = log[i + d]
  BY <1>1, PushedFacts
<1>2. /\ p \in Seq(Entry) /\ Len(p) >= 1 /\ p[Len(p)] = Answered(t) /\ d \in Nat
      /\ \A i \in 1..Len(p) - 1 : p[i] = log[i + d]
      /\ Len(p) \in Nat /\ Len(log) \in Nat
  <2> HIDE DEF p
  <2>1. Len(p) \in Nat /\ Len(log) \in Nat
    BY <1>0
  <2>2. QED
    BY <1>0, <2>1
<1>3. Agent(p, Len(p))
  BY <1>1, <1>2 DEF Agent
<1>4. p # log
  BY <1>1, <1>2
<1> HIDE DEF p
<1>5. ASSUME NEW i, Agent(p, i), i # 1
      PROVE  p[i - 1].kind = "user"
  <2>1. CASE i = Len(p)
    <3>1. i - 1 \in 1..Len(p) - 1 /\ (i - 1) + d = Len(log)
      BY <1>2, <1>5, <2>1
    <3>2. QED
      BY <1>2, <3>1
  <2>2. CASE i # Len(p)
    BY <1>1, <1>5, <2>2, PushKeeps DEF p
  <2>3. QED
    BY <2>1, <2>2
<1>6. ASSUME NEW i, Agent(p, i), \A j : Agent(p, j) => j <= i
      PROVE  p[i].turn = t
  <2>1. i = Len(p)
    BY <1>2, <1>3, <1>6 DEF Agent
  <2>2. QED
    BY <1>1, <1>2, <2>1
<1>7. LogFits(p, t)
  BY <1>5, <1>6 DEF LogFits
<1>8. QED
  BY <1>2, <1>4, <1>7 DEF p

-----------------------------------------------------------------------------
(* The steps.                                                               *)
LEMMA InvFacts ==
    ASSUME ModInv
    PROVE  /\ storage \in Storage /\ Sound(storage) /\ PreviewFits(storage)
           /\ saved \in Storage /\ Sound(saved)
           /\ session \in Session \cup {NoSession} /\ bootstrapped \in BOOLEAN /\ loads \in 0..MaxLoads
BY DEF ModInv, ModTypeOK, Sound

(* A step that neither saves nor loads.                                     *)
LEMMA GameStep ==
    ASSUME ModInv, UNCHANGED <<bootstrapped, saved, loads>>,
           storage' \in Storage, Sound(storage'), session' \in Session \cup {NoSession},
           session' # NoSession => storage'.world = Home[session'] /\ storage'.pending = 0,
           bootstrapped /\ storage'.active # NoExchange =>
               /\ session' # NoSession /\ session' = storage'.active.exch[1]
               /\ storage'.head = storage'.active.parent
    PROVE  ModInv'
BY DEF ModInv, ModTypeOK, Connected, ExchangeIsCurrent

(* A step of a connection that stays, with its exchange or without.         *)
LEMMA SameConnection ==
    ASSUME ModInv, UNCHANGED <<session, bootstrapped, saved, loads>>,
           storage' \in Storage, Sound(storage'),
           storage'.world = storage.world, storage'.pending = storage.pending,
           \/ storage'.active = NoExchange
           \/ /\ storage.active # NoExchange /\ storage'.head = storage.head
              /\ storage'.active.exch = storage.active.exch
              /\ storage'.active.parent = storage.active.parent
    PROVE  ModInv'
<1>1. session # NoSession => storage'.world = Home[session] /\ storage'.pending = 0
  BY DEF ModInv, Connected
<1>2. bootstrapped /\ storage.active # NoExchange =>
          /\ session = storage.active.exch[1] /\ storage.head = storage.active.parent
  BY DEF ModInv, ExchangeIsCurrent
<1>3. bootstrapped /\ storage.active # NoExchange => session # NoSession
  BY <1>2, ModAssumption, ZenonT(30) DEF ModInv, ModTypeOK, Storage, Active, Exch
<1>4. session' \in Session \cup {NoSession}
  BY DEF ModInv, ModTypeOK
<1>5. bootstrapped /\ storage'.active # NoExchange =>
          /\ session' # NoSession /\ session' = storage'.active.exch[1]
          /\ storage'.head = storage'.active.parent
  BY <1>2, <1>3
<1>6. QED
  BY <1>1, <1>4, <1>5, GameStep

LEMMA BootKeeps == ASSUME ModInv, Boot PROVE ModInv'
<1>1. storage \in Storage /\ Sound(storage) /\ PreviewFits(storage)
  BY InvFacts
<1>2. Calm(storage, AbortExchange(storage))
  BY <1>1, AbortCalms
<1>3. storage' = [AbortExchange(storage) EXCEPT !.pending = 0, !.quiet = TooLong,
                       !.since = Patience, !.status = "offline"]
  BY DEF Boot
<1>4. Calm(storage, storage') /\ storage'.status = "offline"
  BY <1>2, <1>3, Bounds DEF Calm, Storage, Status
<1>5. storage' \in Storage /\ Sound(storage')
  BY <1>1, <1>4, CalmIsSound
<1>6. QED
  BY <1>4, <1>5 DEF Boot, Calm, ModInv, ModTypeOK, Connected, ExchangeIsCurrent

LEMMA HelloKeeps ==
    ASSUME ModInv, NEW s \in Storage, Sound(s), NEW ok \in SendResults, NEW age \in {-1, 0},
           storage' = SendHello(s, ok, age), session' = NoSession,
           UNCHANGED <<bootstrapped, saved, loads>>
    PROVE  ModInv'
<1>1. PreviewFits(s) /\ ok \in BOOLEAN
  BY ResultsAreBoolean DEF Sound
<1>2. Calm(s, storage') /\ storage'.status \in {"connecting", "offline"}
  BY <1>1, HelloCalms
<1>3. storage' \in Storage /\ Sound(storage')
  BY <1>2, CalmIsSound
<1>4. storage'.active = NoExchange
  BY <1>2 DEF Calm
<1>5. QED
  BY <1>3, <1>4, GameStep

LEMMA CheckKeeps == ASSUME ModInv, Check PROVE ModInv'
<1> DEFINE s == Watched(Aged(storage))
<1>1. storage \in Storage /\ Sound(storage)
  BY InvFacts
<1>2. /\ Aged(storage) \in Storage /\ Sound(Aged(storage))
      /\ Aged(storage).world = storage.world /\ Aged(storage).pending = storage.pending
      /\ Aged(storage).active = storage.active /\ Aged(storage).head = storage.head
  BY <1>1, AgedFacts
<1>3. /\ s \in Storage /\ Sound(s) /\ s.world = storage.world /\ s.pending = storage.pending
      /\ s.active \in {storage.active, NoExchange} /\ s.head = storage.head
  BY <1>2, WatchedFacts
<1>4. UNCHANGED <<bootstrapped, saved, loads>>
  BY DEF Check
<1>5. \/ session' = NoSession /\ \E ok \in SendResults : storage' = SendHello(s, ok, 0)
      \/ UNCHANGED session /\ \E ok \in SendResults : storage' \in {SendHeartbeat(s, ok), s}
  BY DEF Check
<1> HIDE DEF s
<1>6. CASE session' = NoSession /\ \E ok \in SendResults : storage' = SendHello(s, ok, 0)
  BY <1>3, <1>4, <1>6, HelloKeeps
<1>7. ASSUME UNCHANGED session, NEW ok \in SendResults, storage' \in {SendHeartbeat(s, ok), s}
      PROVE  ModInv'
  <2>1. /\ SendHeartbeat(s, ok) \in Storage /\ Sound(SendHeartbeat(s, ok))
        /\ SendHeartbeat(s, ok).world = s.world /\ SendHeartbeat(s, ok).pending = s.pending
        /\ SendHeartbeat(s, ok).active \in {s.active, NoExchange}
        /\ SendHeartbeat(s, ok).head = s.head
    BY <1>3, SendHeartbeatFacts, ResultsAreBoolean
  <2>2. /\ storage' \in Storage /\ Sound(storage')
        /\ storage'.world = storage.world /\ storage'.pending = storage.pending
        /\ storage'.active \in {storage.active, NoExchange} /\ storage'.head = storage.head
    BY <1>3, <1>7, <2>1
  <2>3. QED
    BY <1>4, <1>7, <2>2, SameConnection
<1>8. QED
  BY <1>5, <1>6, <1>7

LEMMA JoinKeeps == ASSUME ModInv, Join PROVE ModInv'
BY InvFacts, HelloKeeps DEF Join

LEMMA SaveKeeps == ASSUME ModInv, Save PROVE ModInv'
<1>1. storage \in Storage /\ Sound(storage)
  BY InvFacts
<1>2. saved' = [storage EXCEPT !.quiet = TooLong, !.since = Patience]
  BY DEF Save
<1>3. saved' \in Storage
  BY <1>1, <1>2, Bounds DEF Storage
<1>4. Sound(saved')
  BY <1>1, <1>2 DEF Storage, Sound, BusyFits, PreviewFits, AskedLast
<1>5. QED
  BY <1>3, <1>4 DEF Save, ModInv, ModTypeOK, Connected, ExchangeIsCurrent

LEMMA LoadKeeps == ASSUME ModInv, Load PROVE ModInv'
<1>1. loads + 1 \in 0..MaxLoads
  BY InvFacts, ModAssumption DEF Load
<1>2. QED
  BY <1>1 DEF Load, ModInv, ModTypeOK, Connected, ExchangeIsCurrent

(* The player's input.                                                      *)
LEMMA UserInputKeeps == ASSUME ModInv, UserInput PROVE ModInv'
<1>1. /\ storage \in Storage /\ Sound(storage) /\ PreviewFits(storage)
      /\ session \in Session \cup {NoSession}
  BY InvFacts
<1>2. UNCHANGED <<session, bootstrapped, saved, loads>>
  BY DEF UserInput
<1>3. storage.active = NoExchange /\ storage.status = "ready" /\ storage.stream = NoStream
  <2>1. Idle
    BY DEF UserInput, RefusedUnbound, RefusedSilent, ContextFails, Unsendable, SendFails, Asks, Named
  <2>2. QED
    BY <1>1, <2>1 DEF Idle, PreviewFits
<1> DEFINE n == storage.minted + 1
<1>n. n \in Nat
  BY <1>1 DEF Storage
<1> HIDE DEF n
<1>4. CASE \/ storage' = [storage EXCEPT !.status = "connecting"]
           \/ storage' = [storage EXCEPT !.minted = n, !.status = "error"]
           \/ storage' = [storage EXCEPT !.minted = n]
  <2>1. storage' \in Storage
    <3>1. CASE storage' = [storage EXCEPT !.status = "connecting"]
      BY <1>1, <3>1 DEF Storage, Status
    <3>2. CASE storage' = [storage EXCEPT !.minted = n, !.status = "error"]
      BY <1>1, <1>n, <3>2 DEF Storage, Status
    <3>3. CASE storage' = [storage EXCEPT !.minted = n]
      BY <1>1, <1>n, <3>3 DEF Storage
    <3>4. QED
      BY <1>4, <3>1, <3>2, <3>3
  <2>2. /\ storage'.active = NoExchange /\ storage'.stream = NoStream
        /\ storage'.head = storage.head /\ storage'.log = storage.log
        /\ storage'.world = storage.world /\ storage'.pending = storage.pending
        /\ storage'.status \in {"connecting", "error", "ready"}
    BY <1>1, <1>3, <1>4 DEF Storage
  <2>3. Sound(storage')
    BY <1>1, <2>2 DEF Sound, BusyFits, PreviewFits, AskedLast
  <2>4. QED
    BY <1>2, <2>1, <2>2, <2>3, SameConnection
<1>5. CASE \/ storage' = MarkOffline(storage)
           \/ storage' = [MarkOffline(storage) EXCEPT !.minted = @ + 1]
  <2> DEFINE off == MarkOffline(storage)
  <2>1. Calm(storage, off) /\ off.status = "offline"
        /\ off.world = storage.world /\ off.pending = storage.pending
    BY <1>1, MarkOfflineCalms
  <2> HIDE DEF off
  <2>2. storage' \in {off, [off EXCEPT !.minted = @ + 1]}
    BY <1>5 DEF off
  <2>3. Calm(storage, storage') /\ storage'.status = "offline"
        /\ storage'.world = storage.world /\ storage'.pending = storage.pending
    BY <2>1, <2>2 DEF Calm, Storage
  <2>4. storage' \in Storage /\ Sound(storage')
    BY <1>1, <2>3, CalmIsSound
  <2>5. QED
    BY <1>2, <2>3, <2>4, SameConnection DEF Calm
<1>6. CASE Asks
  <2> DEFINE e == <<session, storage.minted + 1>>
             ask == [exch |-> e, parent |-> storage.head, last |-> 0, started |-> FALSE]
             log == Pushed(storage.log, Asked(e))
  <2>1. /\ session \in Session /\ session # NoSession
        /\ storage.world = Home[session] /\ storage.pending = 0
    BY <1>1, <1>6 DEF Asks, Named, Bound, ModInv, Connected
  <2>2. e \in Exch
    BY <1>1, <2>1 DEF Storage, Exch
  <2>3. ask \in Active /\ ask # NoExchange
    <3>1. storage.head \in Turn
      BY <1>1 DEF Storage
    <3> HIDE DEF e
    <3>2. ask \in Active
      BY <2>2, <3>1 DEF Active
    <3>3. QED
      BY <3>2, NoExchangeAssumption
  <2>4. log \in Seq(Entry) /\ LogFits(log, storage.head) /\ log # <<>> /\ log[Len(log)].kind = "user"
    BY <1>1, <2>2, PushQuestion DEF Sound, Storage
  <2>5. ask.exch[1] = session /\ ask.parent = storage.head /\ ask.started = FALSE
    OBVIOUS
  <2>6. storage' = [storage EXCEPT !.minted = n, !.status = "thinking",
                                   !.log = log, !.active = ask]
    BY <1>6 DEF Asks, n
  <2> HIDE DEF ask, log
  <2>7. /\ storage' \in Storage /\ storage'.active = ask /\ storage'.log = log
        /\ storage'.head = storage.head /\ storage'.stream = NoStream /\ storage'.status = "thinking"
        /\ storage'.world = storage.world /\ storage'.pending = storage.pending
    BY <1>1, <1>3, <1>n, <2>3, <2>4, <2>6 DEF Storage, Status
  <2>8. Sound(storage')
    BY <2>3, <2>4, <2>5, <2>7 DEF Sound, BusyFits, PreviewFits, AskedLast
  <2>9. QED
    BY <1>2, <2>1, <2>5, <2>7, <2>8, GameStep
<1>7. QED
  BY <1>4, <1>5, <1>6 DEF UserInput, RefusedUnbound, RefusedSilent, ContextFails, Unsendable, SendFails, n

-----------------------------------------------------------------------------
(* Packets.                                                                 *)
LEMMA HelloAckKeeps ==
    ASSUME ModInv, bootstrapped, UNCHANGED <<bootstrapped, saved, loads>>,
           NEW h, NEW s \in Session, NEW ep \in Epoch, HelloAck(h, s, ep)
    PROVE  ModInv'
<1>1. storage \in Storage /\ Sound(storage) /\ PreviewFits(storage)
  BY InvFacts
<1> DEFINE r == Renewed(Heard(storage), ep)
<1>2. /\ Heard(storage) \in Storage /\ Sound(Heard(storage))
      /\ Heard(storage).head = storage.head /\ Heard(storage).log = storage.log
      /\ Heard(storage).active = storage.active
  BY <1>1, HeardFacts, HeardIsSound
<1>3. /\ r \in Storage /\ PreviewFits(r) /\ AskedLast(r)
      /\ r.head = storage.head /\ r.log = storage.log
      /\ r.active \in {storage.active, NoExchange}
  BY <1>2, RenewedFacts
<1>4. /\ session' = s
      /\ storage' = [r EXCEPT !.world = Home[s], !.pending = 0, !.error = 0, !.status = "ready"]
  BY DEF HelloAck
<1> HIDE DEF r
<1>5. Home[s] \in World /\ s # NoSession
  BY ModAssumption
<1>6. /\ storage' \in Storage /\ storage'.world = Home[s] /\ storage'.pending = 0
      /\ storage'.status = "ready" /\ storage'.active = r.active /\ storage'.stream = r.stream
      /\ storage'.head = r.head /\ storage'.log = r.log
  BY <1>3, <1>4, <1>5, Bounds DEF Storage, Status
<1>7. Sound(storage')
  BY <1>1, <1>3, <1>6 DEF Sound, BusyFits, PreviewFits, AskedLast
<1>8. ASSUME storage'.active # NoExchange
      PROVE  s = storage'.active.exch[1] /\ storage'.head = storage'.active.parent
  <2>1. storage.active # NoExchange /\ storage'.active = storage.active
    BY <1>3, <1>6, <1>8
  <2>2. storage.pending = 0 /\ session = storage.active.exch[1] /\ storage.head = storage.active.parent
    BY <2>1 DEF ModInv, ExchangeIsCurrent
  <2>3. session = s
    BY <2>2 DEF HelloAck, Expected
  <2>4. QED
    BY <1>3, <1>6, <2>1, <2>2, <2>3
<1>9. QED
  BY <1>4, <1>5, <1>6, <1>7, <1>8, GameStep

LEMMA HeartbeatKeeps ==
    ASSUME ModInv, bootstrapped, UNCHANGED <<bootstrapped, saved, loads>>,
           NEW s \in Session, NEW ep \in Epoch, HeartbeatArrives(s, ep)
    PROVE  ModInv'
<1>1. storage \in Storage /\ Sound(storage) /\ PreviewFits(storage)
  BY InvFacts
<1> DEFINE r == Renewed(Heard(storage), ep)
<1>2. /\ Heard(storage) \in Storage /\ Sound(Heard(storage))
      /\ Heard(storage).head = storage.head /\ Heard(storage).log = storage.log
      /\ Heard(storage).active = storage.active /\ Heard(storage).epoch = storage.epoch
      /\ Heard(storage).world = storage.world /\ Heard(storage).pending = storage.pending
      /\ Heard(storage).status = storage.status
  BY <1>1, HeardFacts, HeardIsSound
<1>3. /\ r \in Storage /\ PreviewFits(r) /\ AskedLast(r)
      /\ r.head = storage.head /\ r.log = storage.log /\ r.status = storage.status
      /\ r.world = storage.world /\ r.pending = storage.pending
      /\ r.active \in {storage.active, NoExchange}
      /\ storage.epoch \notin {0, ep} => r.active = NoExchange
  BY <1>2, RenewedFacts
<1> HIDE DEF r
<1>4. CASE storage.epoch \notin {0, ep}
  <2>1. /\ session' = NoSession
        /\ storage' = [r EXCEPT !.pending = 0, !.since = Patience, !.status = "offline"]
    BY <1>4 DEF HeartbeatArrives, r
  <2>2. /\ storage' \in Storage /\ storage'.active = NoExchange /\ storage'.status = "offline"
        /\ storage'.stream = r.stream /\ storage'.head = r.head /\ storage'.log = r.log
    BY <1>3, <1>4, <2>1, Bounds DEF Storage, Status
  <2>3. Sound(storage')
    BY <1>1, <1>3, <1>4, <2>2 DEF Sound, BusyFits, PreviewFits, AskedLast
  <2>4. QED
    BY <2>1, <2>2, <2>3, GameStep
<1>5. CASE storage.epoch \in {0, ep}
  <2> DEFINE st == IF r.status \in {"connecting", "offline", "error"} THEN "ready" ELSE r.status
  <2>1. session' = session /\ storage' = [r EXCEPT !.status = st]
    BY <1>5 DEF HeartbeatArrives, r
  <2>2. r.active = storage.active
    BY <1>2, <1>5 DEF r, Renewed, Storage
  <2>3. st \in Status /\ (st \in {"thinking", "streaming"} => st = storage.status)
        /\ (storage.status \in {"thinking", "streaming", "ready"} => st = storage.status)
    BY <1>1, <1>3 DEF Storage, Status
  <2> HIDE DEF st
  <2>4. /\ storage' \in Storage /\ storage'.active = storage.active /\ storage'.status = st
        /\ storage'.stream = r.stream /\ storage'.head = storage.head /\ storage'.log = storage.log
        /\ storage'.world = storage.world /\ storage'.pending = storage.pending
    BY <1>3, <2>1, <2>2, <2>3 DEF Storage
  <2>5. PreviewFits(storage') /\ AskedLast(storage') /\ LogFits(storage'.log, storage'.head)
    BY <1>1, <1>3, <2>2, <2>4 DEF Sound, PreviewFits, AskedLast
  <2>6. BusyFits(storage')
    BY <1>1, <2>3, <2>4 DEF Sound, BusyFits
  <2>7. QED
    BY <2>1, <2>4, <2>5, <2>6, SameConnection DEF Sound
<1>6. QED
  BY <1>4, <1>5

(* What a packet of the exchange in progress finds.                         *)
LEMMA InExchange ==
    ASSUME ModInv, storage.active # NoExchange
    PROVE  /\ storage.active \in Active /\ storage.status \in {"thinking", "streaming", "ready"}
           /\ storage.log # <<>> /\ storage.log[Len(storage.log)].kind = "user"
<1>1. storage \in Storage /\ Sound(storage)
  BY InvFacts
<1>2. storage.active \in Active
  BY <1>1 DEF Storage
<1>3. QED
  BY <1>1, <1>2 DEF Sound, BusyFits, AskedLast

LEMMA FailingKeeps ==
    ASSUME ModInv, NEW s \in {storage, Heard(storage)}, storage' = Failing(s),
           UNCHANGED <<session, bootstrapped, saved, loads>>
    PROVE  ModInv'
<1>1. storage \in Storage /\ Sound(storage)
  BY InvFacts
<1>2. s \in Storage /\ Sound(s) /\ s.world = storage.world /\ s.pending = storage.pending
  BY <1>1, HeardFacts, HeardIsSound
<1>3. /\ Calm(s, storage') /\ storage'.status = "error"
      /\ storage'.world = s.world /\ storage'.pending = s.pending
  BY <1>2, FailingCalms DEF Sound
<1>4. storage' \in Storage /\ Sound(storage')
  BY <1>2, <1>3, CalmIsSound
<1>5. QED
  BY <1>2, <1>3, <1>4, SameConnection DEF Calm

(* A packet that goes on with the preview: numbers up to n have been seen.  *)
LEMMA StreamKeeps ==
    ASSUME ModInv, UNCHANGED <<session, bootstrapped, saved, loads>>,
           storage.active # NoExchange, NEW n \in Nat, NEW stream \in Seq(Nat), Ordered(stream, n),
           NEW st \in {"thinking", "streaming", "ready"},
           storage' = [Heard(storage) EXCEPT !.active.last = n, !.active.started = TRUE,
                          !.stream = stream, !.status = st]
    PROVE  ModInv'
<1>1. storage \in Storage /\ Sound(storage)
  BY InvFacts
<1>2. storage.active \in Active
  BY InExchange
<1>3. /\ Heard(storage) \in Storage /\ Heard(storage).active = storage.active
      /\ Heard(storage).head = storage.head /\ Heard(storage).log = storage.log
      /\ Heard(storage).world = storage.world /\ Heard(storage).pending = storage.pending
  BY <1>1, HeardFacts
<1> DEFINE act == [storage.active EXCEPT !.last = n, !.started = TRUE]
<1>4. /\ act \in Active /\ act.last = n /\ act.started /\ act.exch = storage.active.exch
      /\ act.parent = storage.active.parent
  BY <1>2 DEF Active
<1>5. act # NoExchange
  BY <1>4, NoExchangeAssumption
<1> DEFINE heard == Heard(storage)
           noted == [heard EXCEPT !.active = [storage.active EXCEPT !.last = n]]
           begun == [noted EXCEPT !.active = act]
<1> HIDE DEF heard
<1>6. storage' = [begun EXCEPT !.stream = stream, !.status = st]
  BY <1>2, <1>3 DEF heard, Storage, Active
<1> HIDE DEF act
<1>7. /\ storage' \in Storage /\ storage'.active = act /\ storage'.stream = stream
      /\ storage'.status = st /\ storage'.head = storage.head /\ storage'.log = storage.log
      /\ storage'.world = storage.world /\ storage'.pending = storage.pending
  <2>1. heard \in Storage /\ heard.head = storage.head /\ heard.log = storage.log
        /\ heard.world = storage.world /\ heard.pending = storage.pending
    BY <1>3 DEF heard
  <2>2. begun = [heard EXCEPT !.active = act]
    BY <2>1 DEF Storage
  <2> HIDE DEF begun
  <2>3. begun \in Storage /\ begun.active = act /\ begun.head = heard.head /\ begun.log = heard.log
        /\ begun.world = heard.world /\ begun.pending = heard.pending
    BY <1>4, <2>1, <2>2 DEF Storage
  <2>4. QED
    BY <1>6, <2>1, <2>3 DEF Storage, Status
<1>8. stream # NoStream
  BY ModAssumption
<1>9. Sound(storage')
  BY <1>1, <1>4, <1>5, <1>7, <1>8, InExchange DEF Sound, BusyFits, PreviewFits, AskedLast
<1>10. QED
  BY <1>4, <1>7, <1>9, SameConnection

LEMMA StartKeeps ==
    ASSUME ModInv, UNCHANGED <<session, bootstrapped, saved, loads>>,
           NEW e, NEW ep, AssistantStart(e, ep)
    PROVE  ModInv'
<1>1. storage.active # NoExchange
  BY DEF AssistantStart, Accepts, Matches
<1>2. <<>> \in Seq(Nat) /\ Ordered(<<>>, 1)
  BY DEF Ordered
<1>3. storage' = [Heard(storage) EXCEPT !.active.last = 1, !.active.started = TRUE,
                      !.stream = <<>>, !.status = "streaming"]
  BY DEF AssistantStart
<1>4. QED
  BY <1>1, <1>2, <1>3, StreamKeeps

LEMMA DeltaKeeps ==
    ASSUME ModInv, UNCHANGED <<session, bootstrapped, saved, loads>>,
           NEW e, NEW n \in Nat, NEW ep, AssistantDelta(e, n, ep)
    PROVE  ModInv'
<1> DEFINE act == storage.active
           before == IF act.started THEN storage.stream ELSE <<>>
           st == IF act.started THEN storage.status ELSE "streaming"
<1>1. storage \in Storage /\ Sound(storage)
  BY InvFacts
<1>2. act # NoExchange /\ act.last < n
  <2>1. act # NoExchange /\ n > act.last
    BY DEF AssistantDelta, Accepts, Matches
  <2>2. act.last \in Nat
    BY <2>1, InExchange DEF Active
  <2>3. QED
    BY <2>1, <2>2
<1>3. act.last \in Nat /\ act.started \in BOOLEAN /\ storage.status \in {"thinking", "streaming", "ready"}
  BY <1>2, InExchange DEF Active
<1>4. before \in Seq(Nat) /\ Ordered(before, act.last)
  <2>1. CASE act.started
    BY <1>1, <1>2, <2>1 DEF Storage, Sound, PreviewFits
  <2>2. CASE ~act.started
    BY <2>2 DEF Ordered
  <2>3. QED
    BY <2>1, <2>2
<1>5. st \in {"thinking", "streaming", "ready"}
  BY <1>3
<1>6. storage' = [Heard(storage) EXCEPT !.active.last = n, !.active.started = TRUE,
                      !.stream = Append(before, n), !.status = st]
  BY <1>1, HeardFacts DEF AssistantDelta, Storage
<1> HIDE DEF before, st
<1>7. Append(before, n) \in Seq(Nat)
  BY <1>4
<1>8. Ordered(Append(before, n), n)
  <2> SUFFICES ASSUME NEW i \in 1..Len(before) + 1
               PROVE  /\ Append(before, n)[i] <= n
                      /\ i > 1 => Append(before, n)[i - 1] < Append(before, n)[i]
    BY <1>4 DEF Ordered
  <2>1. /\ Len(before) \in Nat /\ Append(before, n)[Len(before) + 1] = n
        /\ \A j \in 1..Len(before) : Append(before, n)[j] = before[j] /\ before[j] \in Nat
    BY <1>4
  <2>2. \A j \in 1..Len(before) : before[j] <= act.last /\ (j > 1 => before[j - 1] < before[j])
    BY <1>4 DEF Ordered
  <2>3. CASE i = Len(before) + 1
    <3>1. i > 1 => i - 1 \in 1..Len(before)
      BY <2>1, <2>3
    <3>2. i > 1 => Append(before, n)[i - 1] < n
      BY <1>2, <1>3, <2>1, <2>2, <3>1
    <3>3. QED
      BY <2>1, <2>3, <3>2
  <2>4. CASE i \in 1..Len(before)
    <3>1. i > 1 => i - 1 \in 1..Len(before)
      BY <2>1, <2>4
    <3>2. QED
      BY <1>2, <1>3, <2>1, <2>2, <2>4, <3>1
  <2>5. QED
    BY <2>1, <2>3, <2>4
<1>9. QED
  BY <1>2, <1>5, <1>6, <1>7, <1>8, StreamKeeps

(* The only step that moves the head of a running game.                     *)
LEMMA EndKeeps ==
    ASSUME ModInv, UNCHANGED <<session, bootstrapped, saved, loads>>,
           NEW e, NEW n, NEW t \in TurnId, NEW ep, AssistantEnd(e, n, t, ep)
    PROVE  /\ ModInv'
           /\ storage.active # NoExchange /\ storage'.active = NoExchange
           /\ storage'.log # storage.log
<1>1. storage \in Storage /\ Sound(storage)
  BY InvFacts
<1>2. storage.active # NoExchange
  BY DEF AssistantEnd, Accepts, Matches
<1>3. storage.log \in Seq(Entry) /\ LogFits(storage.log, storage.head)
      /\ storage.log # <<>> /\ storage.log[Len(storage.log)].kind = "user"
  BY <1>1, <1>2, InExchange DEF Storage, Sound
<1> DEFINE log == Pushed(storage.log, Answered(t))
<1>4. log \in Seq(Entry) /\ LogFits(log, t) /\ log # storage.log
  BY <1>3, PushAnswer DEF Turn
<1>5. /\ Heard(storage) \in Storage /\ Heard(storage).log = storage.log
      /\ Heard(storage).world = storage.world /\ Heard(storage).pending = storage.pending
  BY <1>1, HeardFacts
<1>6. storage' = [Heard(storage) EXCEPT !.head = t, !.stream = NoStream, !.log = log,
                      !.active = NoExchange, !.error = 0, !.status = "ready"]
  BY <1>5 DEF AssistantEnd
<1> HIDE DEF log
<1>7. /\ storage' \in Storage /\ storage'.active = NoExchange /\ storage'.stream = NoStream
      /\ storage'.head = t /\ storage'.log = log /\ storage'.status = "ready"
      /\ storage'.world = storage.world /\ storage'.pending = storage.pending
  BY <1>4, <1>5, <1>6, Bounds DEF Storage, Status, Turn
<1>8. Sound(storage')
  BY <1>4, <1>7 DEF Sound, BusyFits, PreviewFits, AskedLast
<1>9. ModInv'
  BY <1>7, <1>8, SameConnection
<1>10. QED
  BY <1>2, <1>4, <1>7, <1>9

LEMMA PacketKeeps == ASSUME ModInv, Packet PROVE ModInv'
<1>1. bootstrapped /\ UNCHANGED <<bootstrapped, saved, loads>>
  BY DEF Packet
<1>2. ASSUME NEW h \in 1..MaxControl, NEW s \in Session, NEW ep \in Epoch, HelloAck(h, s, ep)
      PROVE  ModInv'
  BY <1>1, <1>2, HelloAckKeeps
<1>3. ASSUME NEW s \in Session, NEW ep \in Epoch, HeartbeatArrives(s, ep)
      PROVE  ModInv'
  BY <1>1, <1>3, HeartbeatKeeps
<1>4. ASSUME UNCHANGED session, NEW w, ConnectionError(w)
      PROVE  ModInv'
  BY <1>1, <1>4, FailingKeeps DEF ConnectionError
<1>5. ASSUME UNCHANGED session, NEW e, NEW ep, AssistantStart(e, ep)
      PROVE  ModInv'
  BY <1>1, <1>5, StartKeeps
<1>6. ASSUME UNCHANGED session, NEW e, NEW ep, UselessEnd(e, ep)
      PROVE  ModInv'
  BY <1>1, <1>6, FailingKeeps DEF UselessEnd
<1>7. ASSUME UNCHANGED session, NEW e, NEW n \in 1..MaxSeq, NEW ep, AssistantDelta(e, n, ep)
      PROVE  ModInv'
  BY <1>1, <1>7, DeltaKeeps, ModAssumption
<1>8. ASSUME UNCHANGED session, NEW e, NEW n, NEW ep, ExchangeError(e, n, ep)
      PROVE  ModInv'
  BY <1>1, <1>8, FailingKeeps DEF ExchangeError
<1>9. ASSUME UNCHANGED session, NEW e, NEW n, NEW t \in TurnId, NEW ep, AssistantEnd(e, n, t, ep)
      PROVE  ModInv'
  BY <1>1, <1>9, EndKeeps
<1>10. QED
  BY <1>2, <1>3, <1>4, <1>5, <1>6, <1>7, <1>8, <1>9 DEF Packet

-----------------------------------------------------------------------------
(* The invariant and what follows from it.                                  *)
LEMMA ModInitInv == ModInit => ModInv
<1> SUFFICES ASSUME ModInit
             PROVE  ModInv
  OBVIOUS
<1>1. FreshStorage \in Storage
  BY Bounds, ModAssumption DEF FreshStorage, Storage, Status, Turn
<1>2. Sound(FreshStorage)
  BY DEF FreshStorage, Sound, BusyFits, PreviewFits, LogFits, Agent, AskedLast
<1>3. 0 \in 0..MaxLoads
  BY ModAssumption
<1>4. QED
  BY <1>1, <1>2, <1>3 DEF ModInit, ModInv, ModTypeOK, Connected, ExchangeIsCurrent

LEMMA ModStepInv == ModInv /\ [ModNext]_mvars => ModInv'
<1> SUFFICES ASSUME ModInv, [ModNext]_mvars
             PROVE  ModInv'
  OBVIOUS
<1>1. CASE ModNext
  BY <1>1, BootKeeps, CheckKeeps, JoinKeeps, SaveKeeps, LoadKeeps, UserInputKeeps, PacketKeeps
     DEF ModNext
<1>2. CASE UNCHANGED mvars
  BY <1>2 DEF mvars, ModInv, ModTypeOK, Connected, ExchangeIsCurrent
<1>3. QED
  BY <1>1, <1>2

(* The game's own events leave the head alone.                              *)
LEMMA EventsKeepHeads ==
    ASSUME ModInv, Boot \/ Check \/ Join \/ UserInput
    PROVE  storage'.head = storage.head
<1>1. storage \in Storage /\ Sound(storage) /\ PreviewFits(storage)
  BY InvFacts
<1>2. CASE Boot
  <2>1. Calm(storage, AbortExchange(storage))
    BY <1>1, AbortCalms
  <2>2. storage' = [AbortExchange(storage) EXCEPT !.pending = 0, !.quiet = TooLong,
                         !.since = Patience, !.status = "offline"]
    BY <1>2 DEF Boot
  <2>3. QED
    BY <2>1, <2>2 DEF Calm, Storage
<1>3. CASE Check
  <2> DEFINE s == Watched(Aged(storage))
  <2>1. s \in Storage /\ Sound(s) /\ s.head = storage.head
    BY <1>1, AgedFacts, WatchedFacts
  <2>2. PICK ok \in SendResults : storage' \in {SendHello(s, ok, 0), SendHeartbeat(s, ok), s}
    BY <1>3 DEF Check
  <2> HIDE DEF s
  <2>3. Calm(s, SendHello(s, ok, 0)) /\ SendHeartbeat(s, ok).head = s.head
    BY <2>1, HelloCalms, SendHeartbeatFacts, ResultsAreBoolean DEF Sound
  <2>4. QED
    BY <2>1, <2>2, <2>3 DEF Calm
<1>4. CASE Join
  <2>1. PICK ok \in SendResults : storage' = SendHello(storage, ok, -1)
    BY <1>4 DEF Join
  <2>2. QED
    BY <1>1, <2>1, HelloCalms, ResultsAreBoolean DEF Calm
<1>5. CASE UserInput
  <2>1. Calm(storage, MarkOffline(storage))
    BY <1>1, MarkOfflineCalms
  <2>2. QED
    BY <1>1, <1>5, <2>1 DEF UserInput, RefusedUnbound, RefusedSilent, ContextFails, Unsendable,
                            SendFails, Asks, Calm, Storage
<1>6. QED
  BY <1>2, <1>3, <1>4, <1>5

(* So does every packet but the answer.                                     *)
LEMMA PacketsKeepHeads ==
    ASSUME ModInv, Packet, storage'.head # storage.head
    PROVE  \E e, n, t, ep :
             /\ t \in TurnId /\ AssistantEnd(e, n, t, ep)
             /\ UNCHANGED <<session, bootstrapped, saved, loads>>
<1>1. storage \in Storage /\ Sound(storage) /\ PreviewFits(storage)
  BY InvFacts
<1>2. Heard(storage) \in Storage /\ Sound(Heard(storage)) /\ Heard(storage).head = storage.head
  BY <1>1, HeardFacts, HeardIsSound
<1>3. ASSUME NEW ep \in Epoch
      PROVE  Renewed(Heard(storage), ep) \in Storage /\ Renewed(Heard(storage), ep).head = storage.head
  BY <1>2, RenewedFacts
<1>4. Failing(storage).head = storage.head /\ Failing(Heard(storage)).head = storage.head
  BY <1>1, <1>2, FailingCalms DEF Calm, Sound
<1>5. ASSUME NEW h, NEW s \in Session, NEW ep \in Epoch, HelloAck(h, s, ep) \/ HeartbeatArrives(s, ep)
      PROVE  FALSE
  <2> DEFINE r == Renewed(Heard(storage), ep)
  <2>1. r \in Storage /\ r.head = storage.head
    BY <1>3
  <2>2. \/ storage' = [r EXCEPT !.world = Home[s], !.pending = 0, !.error = 0, !.status = "ready"]
        \/ storage' = [r EXCEPT !.pending = 0, !.since = Patience, !.status = "offline"]
        \/ storage' = [r EXCEPT !.status = IF @ \in {"connecting", "offline", "error"} THEN "ready" ELSE @]
    BY <1>5 DEF HelloAck, HeartbeatArrives
  <2> HIDE DEF r
  <2>3. storage'.head = r.head
    BY <2>1, <2>2 DEF Storage
  <2>4. QED
    BY <2>1, <2>3
<1>6. ASSUME NEW e, NEW n, NEW ep, NEW w,
             \/ AssistantStart(e, ep) \/ UselessEnd(e, ep) \/ AssistantDelta(e, n, ep)
             \/ ExchangeError(e, n, ep) \/ ConnectionError(w)
      PROVE  FALSE
  <2>1. CASE AssistantStart(e, ep) \/ AssistantDelta(e, n, ep)
    BY <1>2, <2>1 DEF AssistantStart, AssistantDelta, Storage
  <2>2. QED
    BY <1>4, <1>6, <2>1 DEF UselessEnd, ExchangeError, ConnectionError
<1>7. QED
  BY <1>5, <1>6 DEF Packet

-----------------------------------------------------------------------------
(* What a step does to the numbers and names of the save.                   *)
SameQuestion ==
    \/ storage'.active = NoExchange
    \/ /\ storage.active # NoExchange /\ storage'.active # NoExchange
       /\ storage'.active.exch = storage.active.exch
       /\ storage'.active.parent = storage.active.parent

Steady == /\ storage'.head = storage.head /\ storage'.minted = storage.minted
          /\ storage'.control = storage.control /\ storage'.log = storage.log
          /\ SameQuestion

(* s has come to r without a question asked or answered.                    *)
Becomes(s, r) == /\ r.head = s.head /\ r.minted = s.minted /\ r.log = s.log
                 /\ r.world = s.world /\ r.active \in {s.active, NoExchange}

LEMMA AbortBecomes ==
    ASSUME NEW s \in Storage
    PROVE  /\ AbortExchange(s) \in Storage /\ Becomes(s, AbortExchange(s))
           /\ AbortExchange(s).control = s.control /\ AbortExchange(s).pending = s.pending
BY DEF AbortExchange, Becomes, Storage

LEMMA MarkOfflineBecomes ==
    ASSUME NEW s \in Storage
    PROVE  /\ Becomes(s, MarkOffline(s))
           /\ MarkOffline(s).control = s.control /\ MarkOffline(s).pending = s.pending
           /\ MarkOffline(s).status = "offline" /\ MarkOffline(s).active = NoExchange
<1>1. PICK r \in Storage : r = AbortExchange(s) /\ Becomes(s, r) /\ r.control = s.control /\ r.pending = s.pending
  BY AbortBecomes
<1>2. r.active = NoExchange
  BY <1>1 DEF AbortExchange, Storage
<1>3. MarkOffline(s) = [r EXCEPT !.status = "offline"]
  BY <1>1 DEF MarkOffline
<1>4. QED
  BY <1>1, <1>2, <1>3 DEF Becomes, Storage

LEMMA FailingBecomes ==
    ASSUME NEW s \in Storage
    PROVE  /\ Becomes(s, Failing(s)) /\ Failing(s).active = NoExchange
           /\ Failing(s).control = s.control /\ Failing(s).pending = s.pending
<1>1. PICK r \in Storage : r = AbortExchange(s) /\ Becomes(s, r) /\ r.control = s.control /\ r.pending = s.pending
  BY AbortBecomes
<1>2. r.active = NoExchange
  BY <1>1 DEF AbortExchange, Storage
<1>3. Failing(s) = [r EXCEPT !.status = "error", !.error = ErrorChecks + 1]
  BY <1>1 DEF Failing
<1>4. QED
  BY <1>1, <1>2, <1>3 DEF Becomes, Storage

LEMMA HelloBecomes ==
    ASSUME NEW s \in Storage, NEW ok, NEW age
    PROVE  LET r == SendHello(s, ok, age)
           IN  /\ Becomes(s, r) /\ r.active = NoExchange
               /\ r.control = NextControl(s) /\ r.pending = NextControl(s)
               /\ r.status \in {"connecting", "offline"} /\ (ok => r.status = "connecting")
<1> DEFINE q == [AbortExchange(s) EXCEPT !.quiet = TooLong, !.since = age,
                    !.control = NextControl(s), !.pending = NextControl(s)]
<1>1. PICK r \in Storage : r = AbortExchange(s) /\ Becomes(s, r)
  BY AbortBecomes
<1>2. r.active = NoExchange
  BY <1>1 DEF AbortExchange, Storage
<1>3. /\ q.head = s.head /\ q.minted = s.minted /\ q.log = s.log /\ q.world = s.world
      /\ q.active = NoExchange /\ q.control = NextControl(s) /\ q.pending = NextControl(s)
  BY <1>1, <1>2 DEF Becomes, Storage
<1>4. SendHello(s, ok, age) = IF ok THEN [q EXCEPT !.status = "connecting"] ELSE MarkOffline(q)
  BY DEF SendHello
<1>5. MarkOffline(q) = [q EXCEPT !.status = "offline"]
  BY <1>3 DEF MarkOffline, AbortExchange
<1>6. PICK st \in {"connecting", "offline"} : /\ SendHello(s, ok, age) = [q EXCEPT !.status = st]
                                              /\ ok => st = "connecting"
  BY <1>4, <1>5
<1>7. /\ [q EXCEPT !.status = st].status = st
      /\ [q EXCEPT !.status = st].head = q.head /\ [q EXCEPT !.status = st].minted = q.minted
      /\ [q EXCEPT !.status = st].log = q.log /\ [q EXCEPT !.status = st].world = q.world
      /\ [q EXCEPT !.status = st].active = q.active
      /\ [q EXCEPT !.status = st].control = q.control /\ [q EXCEPT !.status = st].pending = q.pending
  BY <1>1 DEF Storage
<1>8. QED
  BY <1>3, <1>6, <1>7 DEF Becomes

LEMMA HeardBecomes ==
    ASSUME NEW s \in Storage
    PROVE  /\ Heard(s) \in Storage /\ Becomes(s, Heard(s))
           /\ Heard(s).active = s.active /\ Heard(s).control = s.control /\ Heard(s).pending = s.pending
<1>1. Heard(s) \in Storage
  BY HeardFacts
<1>2. QED
  BY <1>1 DEF Heard, Becomes, Storage

LEMMA RenewedBecomes ==
    ASSUME NEW s \in Storage, NEW ep \in Epoch
    PROVE  /\ Renewed(s, ep) \in Storage /\ Becomes(s, Renewed(s, ep))
           /\ Renewed(s, ep).control = s.control /\ Renewed(s, ep).pending = s.pending
<1>1. PICK r \in Storage : /\ r = (IF s.epoch \notin {0, ep} THEN AbortExchange(s) ELSE s)
                           /\ Becomes(s, r) /\ r.control = s.control /\ r.pending = s.pending
  BY AbortBecomes DEF Becomes
<1>2. Renewed(s, ep) = [r EXCEPT !.epoch = ep] /\ ep \in 0..MaxEpoch
  BY <1>1, ModAssumption DEF Renewed, Epoch
<1>3. QED
  BY <1>1, <1>2 DEF Becomes, Storage

LEMMA WatchedBecomes ==
    ASSUME NEW s \in Storage, Sound(s)
    PROVE  LET r == Watched(Aged(s))
           IN  r \in Storage /\ Becomes(s, r) /\ r.control = s.control /\ r.pending = s.pending
<1>1. PICK q : q = Aged(s)
  OBVIOUS
<1>2. /\ q \in Storage /\ Sound(q) /\ Becomes(s, q) /\ q.active = s.active
      /\ q.control = s.control /\ q.pending = s.pending
  <2>1. q = [s EXCEPT !.quiet = Count(s.quiet, TooLong), !.since = Count(s.since, Patience),
                      !.error = IF s.error > 0 THEN s.error - 1 ELSE 0, !.even = ~s.even]
    BY <1>1 DEF Aged
  <2>2. Becomes(s, q) /\ q.active = s.active /\ q.control = s.control /\ q.pending = s.pending
    BY <2>1 DEF Becomes, Storage
  <2>3. QED
    BY <1>1, <2>2, AgedFacts
<1>3. Watched(q) \in Storage
  BY <1>2, WatchedFacts
<1>4. Becomes(q, MarkOffline(q)) /\ MarkOffline(q).control = q.control /\ MarkOffline(q).pending = q.pending
  BY <1>2, MarkOfflineBecomes
<1>5. Watched(q) \in {q, MarkOffline(q), [q EXCEPT !.status = "ready"]}
  BY DEF Watched
<1>6. Becomes(q, Watched(q)) /\ Watched(q).control = q.control /\ Watched(q).pending = q.pending
  BY <1>2, <1>4, <1>5 DEF Becomes, Storage
<1>7. QED
  BY <1>1, <1>2, <1>3, <1>6 DEF Becomes

LEMMA HeartbeatBecomes ==
    ASSUME NEW s \in Storage, NEW ok
    PROVE  LET r == SendHeartbeat(s, ok)
           IN  /\ Becomes(s, r) /\ r.pending = s.pending
               /\ \/ r = s
                  \/ /\ r.control = NextControl(s) /\ r.status \in {s.status, "offline"}
                     /\ s.world # NoWorld /\ session # NoSession
<1>1. PICK q \in Storage : q = [s EXCEPT !.control = NextControl(s)]
  BY ControlCounts DEF Storage
<1>2. /\ Becomes(s, q) /\ q.control = NextControl(s) /\ q.pending = s.pending
      /\ q.status = s.status /\ q.world = s.world
  BY <1>1 DEF Becomes, Storage
<1>3. /\ Becomes(q, MarkOffline(q)) /\ MarkOffline(q).control = q.control
      /\ MarkOffline(q).pending = q.pending /\ MarkOffline(q).status = "offline"
  BY MarkOfflineBecomes
<1>4. SendHeartbeat(s, ok) = IF s.world = NoWorld \/ session = NoSession THEN s
                             ELSE IF ok THEN q ELSE MarkOffline(q)
  BY <1>1 DEF SendHeartbeat
<1>5. QED
  BY <1>2, <1>3, <1>4 DEF Becomes

(* A new hello leaves with a new number.                                    *)
Greets == /\ storage'.active = NoExchange /\ session' = NoSession
          /\ storage'.control = NextControl(storage) /\ storage'.pending = NextControl(storage)
          /\ storage'.status \in {"connecting", "offline"}
          /\ SendMayFail \/ storage'.status = "connecting"

(* A heartbeat leaves, which is not the one that answers "connecting".      *)
Beats == /\ storage'.control = NextControl(storage) /\ storage'.pending = storage.pending
         /\ storage'.status # "connecting" /\ session' = session /\ session # NoSession

LEMMA CheckMoves ==
    ASSUME ModInv, Check \/ Join
    PROVE  /\ Becomes(storage, storage')
           /\ \/ Greets
              \/ Beats
              \/ /\ storage'.control = storage.control /\ storage'.pending = storage.pending
                 /\ session' = session
<1>1. storage \in Storage /\ Sound(storage)
  BY InvFacts
<1>2. CASE Join
  <2>1. PICK ok \in SendResults : storage' = SendHello(storage, ok, -1)
    BY <1>2 DEF Join
  <2>2. QED
    BY <1>1, <1>2, <2>1, HelloBecomes DEF Join, Greets, SendResults
<1>3. CASE Check
  <2>1. PICK s \in Storage : /\ s = Watched(Aged(storage)) /\ Becomes(storage, s)
                             /\ s.control = storage.control /\ s.pending = storage.pending
    BY <1>1, WatchedBecomes
  <2>2. NextControl(s) = NextControl(storage)
    BY <2>1 DEF NextControl
  <2>3. PICK ok \in SendResults :
          \/ session' = NoSession /\ storage' = SendHello(s, ok, 0)
          \/ session' = session /\ storage' = s
          \/ /\ session' = session /\ s.status # "connecting"
             /\ storage' = SendHeartbeat(s, ok)
    BY <1>3, <2>1 DEF Check
  <2>4. CASE session' = NoSession /\ storage' = SendHello(s, ok, 0)
    <3>1. PICK r : r = SendHello(s, ok, 0)
      OBVIOUS
    <3>2. /\ Becomes(s, r) /\ r.active = NoExchange
          /\ r.control = NextControl(s) /\ r.pending = NextControl(s)
          /\ r.status \in {"connecting", "offline"} /\ (SendMayFail \/ r.status = "connecting")
      BY <3>1, HelloBecomes DEF SendResults
    <3>3. QED
      BY <2>1, <2>2, <2>4, <3>1, <3>2 DEF Becomes, Greets
  <2>5. CASE session' = session /\ storage' = s
    BY <2>1, <2>5
  <2>6. CASE /\ session' = session /\ s.status # "connecting"
             /\ storage' = SendHeartbeat(s, ok)
    <3>1. PICK r : r = SendHeartbeat(s, ok)
      OBVIOUS
    <3>2. /\ Becomes(s, r) /\ r.pending = s.pending
          /\ \/ r = s
             \/ /\ r.control = NextControl(s) /\ r.status \in {s.status, "offline"}
                /\ session # NoSession
      BY <3>1, HeartbeatBecomes
    <3>3. QED
      BY <2>1, <2>2, <2>6, <3>1, <3>2 DEF Becomes, Beats
  <2>7. QED
    BY <2>3, <2>4, <2>5, <2>6
<1>4. QED
  BY <1>2, <1>3

(* A question is asked under the next number, from the head and over the    *)
(* session in use.                                                          *)
AsksAnew == /\ storage.active = NoExchange /\ storage'.active # NoExchange
            /\ session \in Session /\ storage'.active.exch = <<session, storage.minted + 1>>
            /\ storage'.active.parent = storage.head
            /\ storage.minted < MaxMessages /\ storage'.minted = storage.minted + 1

LEMMA InputMoves ==
    ASSUME ModInv, UserInput
    PROVE  /\ storage.active = NoExchange
           /\ storage'.head = storage.head /\ storage'.world = storage.world
           /\ storage'.control = storage.control /\ storage'.pending = storage.pending
           /\ storage.minted <= storage'.minted
           /\ storage'.active = NoExchange \/ AsksAnew
<1>1. storage \in Storage /\ session \in Session \cup {NoSession} /\ storage.minted \in Nat
  BY InvFacts DEF Storage
<1>2. storage.active = NoExchange
  BY DEF UserInput, RefusedUnbound, RefusedSilent, ContextFails, Unsendable, SendFails, Asks, Named, Idle
<1>3. CASE RefusedUnbound \/ ContextFails \/ Unsendable
  <2>1. CASE RefusedUnbound
    BY <1>1, <1>2, <2>1 DEF RefusedUnbound, Storage
  <2>2. CASE ContextFails
    BY <1>1, <1>2, <2>2 DEF ContextFails, Storage
  <2>3. CASE Unsendable
    BY <1>1, <1>2, <2>3 DEF Unsendable, Storage
  <2>4. QED
    BY <1>3, <2>1, <2>2, <2>3
<1>4. CASE RefusedSilent \/ SendFails
  <2>1. PICK r \in Storage : r = MarkOffline(storage)
    BY <1>1, MarkOfflineCalms, InvFacts DEF Calm
  <2>2. Becomes(storage, r) /\ r.control = storage.control /\ r.pending = storage.pending
    BY <1>1, <2>1, MarkOfflineBecomes
  <2>3. storage' = r \/ storage' = [r EXCEPT !.minted = @ + 1]
    BY <1>4, <2>1 DEF RefusedSilent, SendFails
  <2>4. QED
    BY <1>1, <1>2, <2>1, <2>2, <2>3, SMTT(30) DEF Becomes, Storage
<1>5. CASE Asks
  <2>1. session \in Session /\ storage.minted < MaxMessages
    BY <1>1, <1>5 DEF Asks, Named, Bound
  <2> DEFINE e == <<session, storage.minted + 1>>
             x == [exch |-> e, parent |-> storage.head, last |-> 0, started |-> FALSE]
  <2>2. storage' = [storage EXCEPT !.minted = @ + 1, !.status = "thinking", !.log = Pushed(@, Asked(e)),
                                   !.active = x]
    BY <1>5 DEF Asks
  <2>3. x \in Active
    BY <1>1, <2>1 DEF Active, Exch, Storage, Turn
  <2>4. /\ storage'.active = x /\ storage'.minted = storage.minted + 1
        /\ storage'.head = storage.head /\ storage'.world = storage.world
        /\ storage'.control = storage.control /\ storage'.pending = storage.pending
    BY <1>1, <2>2 DEF Storage
  <2>5. QED
    BY <1>1, <1>2, <2>1, <2>3, <2>4, NoExchangeAssumption DEF AsksAnew
<1>6. QED
  BY <1>3, <1>4, <1>5 DEF UserInput

(* What packets do.                                                         *)
LEMMA AckMoves ==
    ASSUME ModInv, NEW h, NEW s \in Session, NEW ep \in Epoch, HelloAck(h, s, ep)
    PROVE  /\ Steady /\ storage'.world = Home[s] /\ storage'.pending = 0 /\ session' = s
           /\ \/ storage.pending = h /\ storage.pending # 0 /\ storage.world \in {NoWorld, Home[s]}
              \/ storage.pending = 0 /\ storage.world = Home[s] /\ session = s
<1>1. storage \in Storage /\ Heard(storage) \in Storage
  BY InvFacts, HeardFacts
<1>2. PICK r \in Storage : r = Renewed(Heard(storage), ep) /\ Becomes(storage, r) /\ r.control = storage.control
  BY <1>1, HeardBecomes, RenewedBecomes DEF Becomes
<1>3. storage' = [r EXCEPT !.world = Home[s], !.pending = 0, !.error = 0, !.status = "ready"]
  BY <1>2 DEF HelloAck
<1>4. /\ storage'.head = r.head /\ storage'.minted = r.minted /\ storage'.log = r.log
      /\ storage'.control = r.control /\ storage'.active = r.active
      /\ storage'.world = Home[s] /\ storage'.pending = 0
  BY <1>3 DEF Storage
<1>5. QED
  BY <1>2, <1>4 DEF HelloAck, Expected, Becomes, Steady, SameQuestion

LEMMA HeartbeatMoves ==
    ASSUME ModInv, NEW s \in Session, NEW ep \in Epoch, HeartbeatArrives(s, ep)
    PROVE  /\ Steady /\ storage'.world = storage.world
           /\ storage'.pending \in {storage.pending, 0} /\ session' \in {session, NoSession}
<1>1. storage \in Storage /\ Heard(storage) \in Storage
  BY InvFacts, HeardFacts
<1>2. PICK r \in Storage : /\ r = Renewed(Heard(storage), ep) /\ Becomes(storage, r)
                           /\ r.control = storage.control /\ r.pending = storage.pending
  BY <1>1, HeardBecomes, RenewedBecomes DEF Becomes
<1>3. \/ storage' = [r EXCEPT !.pending = 0, !.since = Patience, !.status = "offline"]
      \/ storage' = [r EXCEPT !.status = IF @ \in {"connecting", "offline", "error"} THEN "ready" ELSE @]
  BY <1>2 DEF HeartbeatArrives
<1>4. /\ storage'.head = r.head /\ storage'.minted = r.minted /\ storage'.log = r.log
      /\ storage'.control = r.control /\ storage'.active = r.active
      /\ storage'.world = r.world /\ storage'.pending \in {r.pending, 0}
  BY <1>3 DEF Storage
<1>5. session' \in {session, NoSession}
  BY DEF HeartbeatArrives
<1>6. QED
  BY <1>2, <1>4, <1>5 DEF Becomes, Steady, SameQuestion

LEMMA FailureMoves ==
    ASSUME ModInv, storage' \in {Failing(storage), Failing(Heard(storage))}
    PROVE  Steady /\ storage'.world = storage.world /\ storage'.pending = storage.pending
<1>1. storage \in Storage /\ Heard(storage) \in Storage
  BY InvFacts, HeardFacts
<1>2. PICK s \in Storage : /\ storage' = Failing(s) /\ Becomes(storage, s)
                           /\ s.control = storage.control /\ s.pending = storage.pending
  BY <1>1, HeardBecomes DEF Becomes
<1>3. /\ Becomes(s, Failing(s)) /\ Failing(s).active = NoExchange
      /\ Failing(s).control = s.control /\ Failing(s).pending = s.pending
  BY FailingBecomes
<1>4. QED
  BY <1>2, <1>3 DEF Becomes, Steady, SameQuestion

LEMMA StreamMoves ==
    ASSUME ModInv, NEW e, NEW n \in Nat, NEW ep, AssistantStart(e, ep) \/ AssistantDelta(e, n, ep)
    PROVE  Steady /\ storage'.world = storage.world /\ storage'.pending = storage.pending
<1>1. storage \in Storage /\ storage.active # NoExchange
  BY InvFacts DEF AssistantStart, AssistantDelta, Accepts, Matches
<1>2. storage.active \in Active
  BY <1>1 DEF Storage
<1>3. PICK q \in Storage : /\ q = Heard(storage) /\ Becomes(storage, q) /\ q.active = storage.active
                           /\ q.control = storage.control /\ q.pending = storage.pending
  BY <1>1, HeardBecomes
<1>4. CASE AssistantStart(e, ep)
  <2>1. storage' = [q EXCEPT !.active.last = 1, !.active.started = TRUE,
                             !.stream = <<>>, !.status = "streaming"]
    BY <1>3, <1>4 DEF AssistantStart
  <2>2. /\ storage'.head = q.head /\ storage'.minted = q.minted /\ storage'.log = q.log
        /\ storage'.control = q.control /\ storage'.world = q.world /\ storage'.pending = q.pending
        /\ storage'.active = [q.active EXCEPT !.last = 1, !.started = TRUE]
    BY <1>3, <2>1 DEF Storage
  <2>3. /\ storage'.active \in Active /\ storage'.active.exch = storage.active.exch
        /\ storage'.active.parent = storage.active.parent
    <3>1. q.active \in Active /\ q.active.exch = storage.active.exch /\ q.active.parent = storage.active.parent
      BY <1>2, <1>3
    <3>2. PICK x : x = q.active
      OBVIOUS
    <3>3. PICK y : y = [x EXCEPT !.last = 1, !.started = TRUE]
      OBVIOUS
    <3>4. y \in Active /\ y.exch = x.exch /\ y.parent = x.parent
      BY <3>1, <3>2, <3>3 DEF Active
    <3>5. QED
      BY <2>2, <3>1, <3>2, <3>3, <3>4
  <2>4. QED
    BY <1>1, <1>3, <2>2, <2>3, NoExchangeAssumption DEF Becomes, Steady, SameQuestion
<1>5. CASE AssistantDelta(e, n, ep)
  <2>1. storage' = [q EXCEPT !.active.last = n, !.active.started = TRUE,
                      !.stream = Append(IF storage.active.started THEN @ ELSE <<>>, n),
                      !.status = IF storage.active.started THEN @ ELSE "streaming"]
    BY <1>3, <1>5 DEF AssistantDelta
  <2>2. /\ storage'.head = q.head /\ storage'.minted = q.minted /\ storage'.log = q.log
        /\ storage'.control = q.control /\ storage'.world = q.world /\ storage'.pending = q.pending
        /\ storage'.active = [q.active EXCEPT !.last = n, !.started = TRUE]
    BY <1>3, <2>1 DEF Storage
  <2>3. /\ storage'.active \in Active /\ storage'.active.exch = storage.active.exch
        /\ storage'.active.parent = storage.active.parent
    BY <1>2, <1>3, <2>2 DEF Active
  <2>4. QED
    BY <1>1, <1>3, <2>2, <2>3, NoExchangeAssumption DEF Becomes, Steady, SameQuestion
<1>6. QED
  BY <1>4, <1>5

LEMMA EndMoves ==
    ASSUME ModInv, NEW e, NEW n, NEW t, NEW ep, AssistantEnd(e, n, t, ep)
    PROVE  /\ storage'.head = t /\ storage'.active = NoExchange
           /\ storage'.minted = storage.minted /\ storage'.control = storage.control
           /\ storage'.world = storage.world /\ storage'.pending = storage.pending
           /\ storage.active # NoExchange /\ storage.active.exch = e
           /\ storage.world = Home[e[1]]
<1>1. storage \in Storage
  BY InvFacts
<1>2. PICK q \in Storage : q = Heard(storage) /\ Becomes(storage, q) /\ q.control = storage.control /\ q.pending = storage.pending
  BY <1>1, HeardBecomes
<1>3. storage' = [q EXCEPT !.head = t, !.stream = NoStream, !.log = Pushed(@, Answered(t)),
                           !.active = NoExchange, !.error = 0, !.status = "ready"]
  BY <1>2 DEF AssistantEnd
<1>4. QED
  BY <1>2, <1>3 DEF Becomes, Storage, AssistantEnd, Accepts, Matches

LEMMA BootMoves ==
    ASSUME ModInv, Boot
    PROVE  /\ Becomes(storage, storage') /\ storage'.active = NoExchange
           /\ storage'.control = storage.control /\ storage'.pending = 0 /\ session' = NoSession
<1>1. storage \in Storage
  BY InvFacts
<1>2. PICK q \in Storage : /\ q = AbortExchange(storage) /\ Becomes(storage, q)
                           /\ q.control = storage.control /\ q.active = NoExchange
  <2>1. AbortExchange(storage).active = NoExchange
    BY <1>1 DEF AbortExchange, Storage
  <2>2. QED
    BY <1>1, <2>1, AbortBecomes
<1>3. storage' = [q EXCEPT !.pending = 0, !.quiet = TooLong, !.since = Patience, !.status = "offline"]
  BY <1>2 DEF Boot
<1>4. QED
  BY <1>2, <1>3 DEF Becomes, Storage, Boot

LEMMA SaveMoves ==
    ASSUME ModInv, Save
    PROVE  /\ saved'.head = storage.head /\ saved'.minted = storage.minted /\ saved'.world = storage.world
           /\ saved'.active = storage.active
<1>1. storage \in Storage
  BY InvFacts
<1>2. QED
  BY <1>1 DEF Save, Storage

LEMMA ModInvariant == ModSpec => []ModInv
BY ModInitInv, ModStepInv, PTL DEF ModSpec

(* The tables of the save and the save file always have their types.        *)
THEOREM ModTypeCorrect == ModSpec => []ModTypeOK
<1>1. ModInv => ModTypeOK
  BY DEF ModInv
<1>2. QED
  BY <1>1, ModInvariant, PTL

(* A busy game has an exchange, and an exchange shows (transport_udp.lua:   *)
(* 184-218: whatever ends the one ends the other).                          *)
THEOREM BusyAlwaysHasExchange == ModSpec => []BusyHasExchange
<1>1. ModInv => BusyHasExchange
  BY DEF ModInv, Sound, BusyFits, BusyHasExchange
<1>2. QED
  BY <1>1, ModInvariant, PTL

(* The exchange in progress is of the connection in use and continues the   *)
(* head of the save (transport_udp.lua:24-26, 200, 314).                    *)
THEOREM ExchangesStayCurrent == ModSpec => []ExchangeIsCurrent
<1>1. ModInv => ExchangeIsCurrent
  BY DEF ModInv
<1>2. QED
  BY <1>1, ModInvariant, PTL

(* The preview shows deltas of its exchange in their order, none twice,     *)
(* whatever the network does (transport_udp.lua:535-543).                   *)
THEOREM PreviewsStayInOrder == ModSpec => []PreviewInOrder
<1>1. ModInv => PreviewInOrder
  BY DEF ModInv, Sound, PreviewFits, Ordered, PreviewInOrder
<1>2. QED
  BY <1>1, ModInvariant, PTL

(* The history a player reads ends in the turn the save continues from,     *)
(* through saves, loads and the history's limit (chat.lua:17).              *)
THEOREM HistoriesMatchHeads == ModSpec => []HistoryMatchesHead
<1>1. ModInv => HistoryMatchesHead
  <2>1. ASSUME ModInv
        PROVE  /\ \A i : Agent(storage.log, i) <=> i \in Answers
               /\ LogFits(storage.log, storage.head)
    BY <2>1 DEF ModInv, Sound, Agent, Answers
  <2>2. QED
    BY <2>1 DEF LogFits, HistoryMatchesHead, Answers
<1>2. QED
  BY <1>1, ModInvariant, PTL

(* Between loads only the answer to the exchange in progress moves the      *)
(* head, from the turn that was asked about (transport_udp.lua:716-771).    *)
THEOREM HeadsMoveByAnswers == ModSpec => HeadMovesByAnswer
<1>1. ASSUME ModInv, [ModNext]_mvars, storage'.head # storage.head, bootstrapped'
      PROVE  /\ storage.active # NoExchange /\ storage'.active = NoExchange
             /\ storage.active.parent = storage.head /\ storage'.log # storage.log
  <2>1. PICK e, n, t, ep : /\ t \in TurnId /\ AssistantEnd(e, n, t, ep)
                           /\ UNCHANGED <<session, bootstrapped, saved, loads>>
    <3>1. ModNext /\ ~Load
      BY <1>1 DEF mvars, Load
    <3>2. ~Boot /\ ~Check /\ ~Join /\ ~Save /\ ~UserInput
      BY <1>1, EventsKeepHeads DEF Save
    <3>3. Packet
      BY <3>1, <3>2 DEF ModNext
    <3>4. QED
      BY <1>1, <3>3, PacketsKeepHeads
  <2>2. storage.active # NoExchange /\ storage'.active = NoExchange /\ storage'.log # storage.log
    BY <1>1, <2>1, EndKeeps
  <2>3. QED
    BY <1>1, <2>1, <2>2 DEF ModInv, ExchangeIsCurrent
<1>2. QED
  BY <1>1, ModInvariant, PTL DEF ModSpec, HeadMovesByAnswer
=============================================================================
