# A TLA+ model of the Factorio companion

The companion lets a Factorio player talk to a language model. A Lua mod in the
game exchanges UDP datagrams with a Python daemon on the same machine; the daemon
calls a model provider, streams the answer back and stores the dialogue in SQLite.
The dialogue belongs to the *save*: loading an old save rewinds the conversation to
the turn it was saved with, and answering from there forks it.

This directory holds the specifications of that system, the TLC configurations
that check them on small instances, and the TLAPS proofs of what holds for all.

## Inventory

| part | source | state | operations |
| --- | --- | --- | --- |
| conversation store | `bridge/store.py` | rows of turns (world, parent, status, text, client alias); one head per world | begin, complete, record, abort, sync head, discard incomplete, lineage; one SQLite transaction each |
| session facade | `bridge/session.py` | a cache of world objects without data | opens the world, then one store operation |
| daemon | `bridge/daemon.py` | peers by world, world by address, active requests, replay cache, worker threads | hello, heartbeat, user_message; the workers' deltas, completion, failure; start, stop |
| protocol checks | `bridge/protocol.py` | none | reject malformed datagrams |
| provider client | `bridge/llm/openai.py` | none between calls | one streamed HTTP call, SSE lines |
| game transport | `companion/transport_udp.lua`, `campaign.lua` | status, world, session, sequence numbers, the exchange in progress, conversation head; all saved with the game | hello, heartbeat, user message, the handlers of daemon packets, the 60-tick check |
| campaign, chat | `campaign.lua`, `chat.lua` | unlocked levels; bounded history, the entry being streamed | unlock, lock; push, stream, finish |
| game context and UI | `context.lua`, `world.lua`, `ui.lua`, `panels.lua`, `markers.lua`, `remote.lua` | GUI only | snapshots of the game, windows |
| legacy agent | `bridge/agent.py`, `rcon.py`, `gameapi.py`, `gemini.py`, `openai.py` | – | the RCON path that ADR 001 replaced |

**Interaction.** Game to daemon: `hello`, `heartbeat`, `user_message`. Daemon to
game: `hello_ack`, `heartbeat`, `assistant_start`, `assistant_delta`,
`assistant_end`, `error`. Datagrams may be lost, repeated or overtake each other.
The daemon's receive loop and one worker thread per request share `_peers`,
`_address_world`, `_active` and `_completed` under `_state_lock`; the model call
runs outside it. The daemon calls the store under `_session_lock`.

**What is hard.** A worker returns after its game reconnected from another port,
loaded another save or went away. A message is delivered twice, or after its
answer. The store commits and the send fails. The process dies between two
transactions. The game is rewound with everything it knew. Provisional turn names
repeat after a rewind. Each of these is listed, at its line, under `hazards` in
`PROJECT.json`.

**What makes it correct.** Store: a head and a parent is always a finished turn of
its own world, answer and head move together, nothing that was said is lost or
changed. Daemon: a request that lost its game never commits, one generation per
world, what is announced is what was committed, requests end. Worker: what is
shown is cut from the answer without gap or overflow, only a whole answer is
committed. Game: an answer lands only on the head its question was asked from,
status, exchange, connection and history agree through saves and loads, a silent
daemon is noticed. Both together: an accepted answer is the daemon's answer to the
question asked, an accepted acknowledgement answers the last hello, every save
stands on a turn the daemon can continue from, and a busy game becomes free again.

## Modules

```
ConversationTimeline            what is promised about a saved dialogue (abstract)
   ^ implements
ConversationStore               store.py behind session.py
   | EXTENDS   \-- ConversationStoreProofs
CompanionDaemon                 daemon.py
   | EXTENDS   \-- CompanionDaemonProofs -- CompanionReplayProofs
   |                                           \
CompanionSystem                 game and daemon \-- CompanionSystemProofs -- CompanionQuestionProofs
   | INSTANCE                                   /
CompanionMod                    transport_udp.lua with campaign.lua and chat.lua
               \-- CompanionModProofs

AnswerStream                    one worker: llm/openai.py, DeltaBatcher, _emit_delta
               \-- AnswerStreamProofs

WellFoundedRecursion            recursive functions; for the proofs of store and stream

MCConversationStore, MCCompanionDaemon, MCCompanionMod,
MCCompanionSystem, MCAnswerStream                           instances for TLC
```

`ConversationTimeline` knows a tree of finished turns that only grows and a tip
per world. `Commit` adds a turn and makes it the tip; `MoveTip` is a loaded save.

`ConversationStore` is the table `turns` and the column `worlds.head_turn_id`. Every
public operation of `SQLiteStore` is one `BEGIN IMMEDIATE` transaction, hence one
action: `BeginTurn`, `CompleteTurn`, `RecordCompletedTurn`, `AbortTurn`, `SyncHead`,
`DiscardIncomplete`; `EnsureWorld` is what an operation that raises leaves behind,
because the facade opens the world in an earlier transaction. `Candidates` and
`Anchors` are the name lookup: canonical name first, then aliases of the same
world, ambiguity is an error. `Walk` follows parents to the root as `linear_turns`
does, and `Lineage` is what it returns of that: the newest `MaxTurns` turns
(`max_turns`; the daemon passes `max_history`, 12 by default). Timestamps are left
out: where the code picks the newest of several pending rows, the model picks any.

`CompanionDaemon` uses the store's operators and adds the daemon's tables.

| code | model |
| --- | --- |
| `_peers`, `_address_world`, `_active`, `_completed` | `peers`, `addrWorld`, `active`, `cache` |
| `RequestState` and where its worker is | `req[t]` with `phase`; `"unstarted"` is a request whose thread the system refused |
| `daemon_session_id` | `epoch` |
| `_handle_hello` | `Hello` = `HelloUnbound`, `HelloFails`, `HelloAccepted` |
| `_handle_user_message` | `UserMessage`: `StaleSession`, `BootstrapFails`, or a binding (the known peer, or a bootstrapped one) followed by `Replay`, `Misused`, `AlreadyRunning`, `StaleHead`, `Busy`, `BeginFails`, `StartFails`, `Accept`, in the code's order |
| `_handle_heartbeat`, `_service_heartbeats` | `Heartbeat`, `ServiceHeartbeats` |
| `_run_request` | `EmitDelta`, `Commit`, `ModelFails`, `FinishError`, `Drop` |
| `start`, `stop`, a crash | `StartUp`, `Stop`, `Crash` |

Every handler and every critical section of a worker is one action, since it holds
`_state_lock` throughout. Abstractions, all of them named in the module:

- A request is identified by the canonical turn begun for it; `_active` is a set of
  turns. `exchange_id`, `request_id` and `turn_id` of a message are minted together
  from the session and a counter (`campaign.lua:117-137`), so `exch = <<session, n>>`
  stands for the three. The fingerprint is the parent and a `body`.
- The game only sends the world its session was issued for. Branches of the code
  that need anything else (`WORLD_MISMATCH`, a second peer at one address) cannot be
  taken; `PeerMapsAgree` says why for the second.
- A hello that brings its own `client_session_id` is the legacy test peer
  (`daemon.py:632-633`) and is left out.
- The variable `sent` holds the packets of the last step. Whether the network
  delivers them is not part of this module: `UserMessage` accepts any message any
  game could have sent at any time, in any order and any number of times, which
  covers loss, delay and repetition towards the daemon.
- Malformed datagrams change nothing (`daemon.py:470-472`) and are left out.

`CompanionMod` is the game's side. Factorio runs a mod on one thread, so every event
handler is one action. What matters is what survives a reload: the tables under
`storage` are saved with the game and come back as they were, Lua locals do not.

| code | model |
| --- | --- |
| `storage.companion`, `storage.transport`, `storage.chat_log`, `storage.stream` | the record `storage` |
| `runtime_session_id`, `runtime_bootstrapped` (Lua locals) | `session`, `bootstrapped` |
| the save file; loading it | `saved`; `Save`, `Load` |
| `reset_runtime_connection` | `Boot` |
| `on_tick` at a tick divisible by 60 | `Check` = time passes (`Aged`), silence and error expiry (`Watched`), then a hello or a heartbeat at every second check |
| `send_user_input`, `can_start_exchange`, `send_user_message` | `UserInput` = `RefusedUnbound`, `RefusedSilent`, `ContextFails`, `Unsendable`, `SendFails`, `Asks`; the refusals as busy or not ready change nothing |
| player joined, configuration changed | `Join` |
| `handle_packet_impl` | `Packet` = `HelloAck`, `HeartbeatArrives`, `AssistantStart`, `AssistantDelta`, `AssistantEnd`, `UselessEnd`, `ExchangeError`, `ConnectionError` |
| `send_hello`, `mark_offline`, `abort_active_exchange`, `update_daemon_session` | operators on the record: `SendHello`, `MarkOffline`, `AbortExchange`, `Renewed` |

- The daemon and the network are open: any packet some daemon could have sent to
  this game, in a session it minted for this world or another, may arrive at any
  time, again or never.
- Time is counted in checks. `quiet`, `since` and `error` are the checks since the
  last packet and hello and until an error expires; whatever happens between two
  checks happens strictly between them. `last_packet_received = -1` is a silence
  longer than the timeout, which is how every reader of it treats it.
- `turn_counter` and `request_counter` are one number, as in the daemon's model.
- One player; `get_player` falls back to the first one. System notices take room
  in the real history but are left out; the model's limit is hit anyway.
- Branches for malformed packets change nothing and are left out, except an
  `assistant_end` without text or turn, which fails the exchange.

`CompanionSystem` joins the two. It extends the daemon and takes the game as
`INSTANCE CompanionMod`, whose daemon processes are the real ones; its own variables
are the datagrams in flight and what the properties need to remember.

| code | model |
| --- | --- |
| datagrams to and from the daemon | `uplink`, `downlink`: sets, taken in any order, after any delay or never; with `MayRepeat` they are taken again and again |
| an event of the game, and what it sends | `GameBoots`, `GameTicks`, `GameJoins`, `GameAsks`, `GameReloads`; the packet is read off what the handler did to `storage` (`HelloSent`, `HeartbeatSent`) |
| a datagram taken by the game | `GameTakes(p)`: the handler of `CompanionMod` for the type, sequence number, session and process in `p` |
| a datagram taken by the daemon | `DaemonTakes(p)` = `DaemonGreets`, `DaemonPings`, `DaemonWorks`: the handlers of `CompanionDaemon` with the arguments in `p` |
| a step of the daemon of its own | `DaemonLives`, `DaemonBeats`, `DaemonAnswers`, `DaemonReports`, `DaemonStreams` |
| a lost datagram | `Lost(p)`, or one that is never taken |
| a world id for a save without one (`daemon.py:618-632`) | `WorldFor` |

- `asked`, `wording` and `minted` are history variables: the words of the last
  question, the words each row was begun with, the sessions there were at the last
  hello. No action reads them.
- One game, one player, one client port.
- With `MayRepeat` a control number does not come round again within one timeline
  (`Signalling`): 2^53 hellos and heartbeats are not sent while a datagram is in
  flight. `MaxControl` is then where the behaviour stops.

`AnswerStream` is one worker, packet by packet: what `CompanionDaemon` has as
`EmitDelta`, `ModelFails` and `Commit`.

| code | model |
| --- | --- |
| `iter_sse_data` | `Line`, `EventEnds` and `Assembled`: lines gathered to an event, joined, parsed |
| the loop of `stream` | `Handle`, `ResponseEnds`, `RequestFails` |
| `DeltaBatcher` | `Gather`, `Flushed`, `batch` |
| `_emit_delta` | `Emit` = `EmitFrom` (sent, or a send that fails) or `EmitRaises` (text that cannot be encoded); `Packets`, `Longest` (the bisection, of a `Window` that is `Narrowed`), `Numbered` |
| `_invoke_llm`, `_run_request`, `_finish_error` | `Return`, `Finish`, `Report` |
| the game reconnects, or the daemon stops | `Supersede` |

The characters of an answer are numbered as the provider sends them; a piece of
text is an interval, and `width` says how many bytes each character needs in a
packet. A lone half of a surrogate pair cannot be encoded at all: with `LoneMayCome`
any delta, and the final packet, may raise at any point of its text, which fails the
request after the packets sent so far. Comments and unknown fields of the stream
change nothing and are left out.

## Runs

| run | instance | shows |
| --- | --- | --- |
| `store` | 2 worlds, 4 turns, prompts of 2 turns, 1 alias shared by all, 1 text | heads, lineages and the implementation of the timeline, under every order of operations |
| `daemon_peers` | 2 worlds, 2 ports, 3 sessions, 2 messages each, 2 workers, 2 processes, threads may be refused | peer tables, sessions, active requests, pending rows under reconnects, port changes, world changes and a restart |
| `daemon_failures` | 2 worlds, 1 port, 2 sessions, 2 turns, 2 bodies, 1 delta, cache of 1, store and sends may fail, 2 processes | no late commit, heads of peers, cache and announcements, timeline across crash and restart |
| `daemon_second_call` | 1 message | finding: a second model call |
| `mod_packets` | 2 sessions (one of another world), 2 daemons, 2 questions, streams of 3, history of 2, sends may fail, 1 load | status, exchange, preview, history and head agree whatever arrives and whenever the save was made |
| `mod_liveness` | 2 daemons, 1 load, fair clock | silence is noticed, an offline game says hello again |
| `system_packets` | 1 world, 2 sessions, 2 messages each, 2 bodies, 2 turns, 1 delta, datagrams repeat, threads may be refused | answers fit questions, acknowledgements fit hellos, the daemon is at most one answer ahead |
| `system_reload` | 1 session, 1 message, 2 turns, 2 processes, 1 load, datagrams repeat | saved heads are kept, accepted answers are new |
| `system_liveness` | 1 session, 1 turn, 2 processes, nothing lost or repeated | a question ends, a request ends |
| `system_bootstrap` | as `system_liveness` | finding: a bootstrapped connection is never superseded |
| `system_old_answer` | 2 sessions, 1 message each, 2 bodies, 2 turns, 1 load, datagrams repeat | finding: an old answer under a new question |
| `answer_stream` | 4 characters of 1, 3 or 5 bytes, batches of 2, packets of 4 bytes, 3 lines, sends and SQLite may fail, text that cannot be encoded | the preview, the commit and the end of a worker |

**Bounds.** Four turns are the fewest with which a lineage of two is forked and
its alias is repeated in both worlds; with prompts of two turns there are lineages
that are cut and ones that are not. Two worlds and two ports give every overlap
the hello handler distinguishes (same world at a new port, same port with a new
world, both). Two sessions and two turns let a request be superseded and replaced;
the third session of `daemon_peers` lets a world come back to its port with the
generation number it had before; a cache of one makes eviction happen at once.
`MaxStarts`, `MaxDeltas` and `MaxMessages` bound processes, deltas of a stream and
messages of a session; sessions and turns are finite sets that are used up.

For the game, two questions and a stream of three let an exchange be aborted and
replaced while packets of the old one, and of a session of another world, still
arrive. In `mod_liveness` a `Patience` of two checks keeps the hello interval (two
checks) from exceeding the timeout, as 15 does in the code; elsewhere both are
one, since nothing there is about time. Hello numbers are counted modulo
`MaxControl` there: an acknowledgement of any number may arrive anyway. One load
suffices for a save to come back into a running conversation; `MaxLoads` also
excludes a player who reloads for ever.

For the system, two control numbers are a hello and the next one, so that every
acknowledgement may be late by one; two sessions and two messages each are a
conversation of two questions on one connection, or of one on each of two. The
runs have one world: the theorems are about any number of them (below).
`system_reload` asks about heads, for which one turn that is committed, saved,
abandoned and delivered late is enough; with a second turn a question repeated to the
next process is begun anew, from behind the game. Failing SQLite and failing sends of
the daemon are checked with the daemon alone (`daemon_failures`), which takes any
message a game could have sent at any time; the theorems about the whole have them too.

For the stream, widths of 1, 3 and 5 against a packet of 4 give characters that
fit together, alone and not at all; a chunk of 3 against a batch of 2 is cut in
the middle; three lines hold an answer in two events or one in two halves.

`MCView` leaves `sent` out of the state, which no guard reads; symmetry is over
worlds, turns, ports and sessions (worlds and turns for the store, turns and
sessions of one world for the game, these and bodies for the system; liveness runs
use none).
Deadlock is not checked for the daemon, the system and the stream: with sessions,
turns, processes or the answer used up they stop.

**Fairness.** `ModLiveSpec` assumes only that the game's clock runs: `on_tick` is
called on every tick, so `Boot` and `Check` happen. No packet ever has to arrive,
and sends succeed in that run: a game whose sends are all refused stays offline.
`SystemLiveSpec` adds that the daemon's threads are scheduled, so that a worker
reaches the end of its model call and runs its error handler and the receive loop
sends its heartbeats, and that a datagram the network does not lose is delivered:
one fairness condition for each kind of datagram, and for the process it comes from,
since the kinds do not displace each other for ever. Nothing obliges a player to
ask, a daemon to be started again or to die. `StreamSpec` assumes that the worker
is scheduled and that the provider's response ends: `llm_timeout` bounds one read
of the socket, not the call. Threads start in the two liveness runs of the system:
a worker that never ran ends nothing (below).

**Mutants.** A definition `D_what` is `D` with a plausible bug. `PROJECT.json` says
which property notices it in which run.

## Findings

`daemon_second_call`: `docs/protocol_spec.md:325-326` says that a duplicated
`user_message` with the same fingerprint does not start a second model call. It
does when the first generation *failed*: `_finish_error` (`daemon.py:1353-1375`)
removes the request and caches nothing, the peer's head has not moved, and a late
duplicate passes every check. The shortest trace is hello, message, failed model
call, error packet, the duplicate.

`system_bootstrap`: the comment at `daemon.py:827-830` says that after a bootstrap
"a normal hello will supersede this generation shortly afterwards". The `hello_ack`
of the bootstrap names the game's own session, the game takes it and remembers the
new process (`transport_udp.lua:607-628`); the heartbeats that follow are no news,
and no hello is ever sent.

`system_old_answer`: `transport_udp.lua:24-26` says that an exchange of a save's old
future cannot consume a late packet. The counters that name exchanges and hellos are
saved and rewind with the save; a delayed acknowledgement with the number of the new
hello brings the old session back, the next question gets a name the abandoned
future had used, and that future's answer is shown under it. It takes a datagram
that is delayed or repeated beyond the load.

## What the system does not promise

The first and the third to sixth are counterexamples of runs with other constants,
the rest follow from the code directly.

- A lost `user_message`, `assistant_end` or `error` leaves the game busy: heartbeats
  keep the connection alive and nothing is sent again (`transport_udp.lua:372`).
  `BusyEnds` fails with `MayLose = TRUE`; a player rejoining or a load frees the game.
- A heartbeat that arrives between the timeout and the next hello makes the game
  ready without a hello (`transport_udp.lua:655`). If the daemon's head has moved by
  an answer the game gave up, every question is then a `STALE_HEAD`.
- `DaemonIsOneAhead` fails when the daemon loses the connection, by a restart or by
  a refused transaction, and an old `user_message` arrives first: the daemon takes
  up the head of that question.
- It also fails when the daemon commits a turn and cannot send the `assistant_end`:
  the peer's head only moves with a packet that was sent (`daemon.py:1220-1221`). A
  repeated `user_message` gets the answer from the cache, which does not move it
  either (`daemon.py:901-906`, `1008-1023`), the game goes on from that answer, and
  its questions are refused as `STALE_HEAD` until its next hello. `system_packets`
  with `SendMayFail = TRUE` finds it.
- `AckIsCurrent` and `AnswerFitsQuestion` fail after a load, as in the third finding.
- A request whose worker got no thread (`daemon.py:1006`) keeps its slot of
  `max_workers` and its world until the game says hello again or the process ends, and
  its row is pending for as long: the request is in `_active` already, and
  `handle_datagram` (`daemon.py:490-511`) answers `DAEMON_ERROR` and undoes nothing.
  That error repeats the sequence number of the `assistant_start` sent before it, 1,
  `accept_sequence` drops it (`transport_udp.lua:535-543`), and the game stays busy
  while heartbeats keep the connection alive. `BusyEnds` and `RequestsEnd` fail with
  `ThreadMayFail = TRUE`.
- A provider that sends keep-alive comments and nothing else occupies a worker for
  as long as it likes.

## Proofs

`ConversationStoreProofs` proves, for every set of worlds, turns, aliases and
texts, `StoreTypeOK`, `HeadIsFinished`, `LineageIsBranch`, `HistoryIsStable`,
`AbortIsFinal` and `ImplementsTimeline`, and besides them that parents are finished turns of the same world, that parent links
form no circle and that the step that completes a turn makes it the head. The
assumptions are `StoreAssumption` and `NoRowAssumption`: the special values are
distinct from the ordinary ones. The inductive invariant is `StoreInv`, the
conjunction of the type invariant, heads, parents and acyclicity; parents are needed
because a head may be set to any finished turn, and acyclicity because only fresh
rows are added. The argument goes through one action property, `HistoryKept`: in
every transaction rows stay, a row keeps its place, only pending rows change status,
and a finished row changes nothing. It preserves the invariant whatever the head
does, so each transaction only shows `HistoryKept` and that the new head is finished;
the daemon reuses both. The refinement follows case by case: `AnswerCommits` for the
steps that add a finished turn, `HeadMoves` and `OpeningMoves` for a head, and a
stutter for everything else.

`Walk` recurs over the rows themselves. `WellFoundedRecursion` supplies what is needed:
a function that calls itself once, with an argument that descends, satisfies its
defining equation (`RecursionHasSolution`), and induction along such arguments
(`DescentInduction`). `Acyclic` says that parents descend. So `Walk` is a function
whatever rows were seen before (`WalkIsDefined`); a finished turn whose walk is no
branch, or changes, would have a parent of the same kind, and a circle would follow
(`WalkIsBranch`, `WalkIsKept`). A lineage is the end of that walk, and the end of a
branch keeps what makes it one (`CutBranchIsRecent`): it ends at the same turn, links
its turns, and starts after the root or is as long as the limit allows.

`CompanionDaemonProofs` proves, for any number of worlds, ports, sessions, messages
and workers, with a store and a socket that may fail, and through any number of
processes: `DaemonTypeOK`, `PeerMapsAgree`, `PeersHoldTheirSession`,
`PeerHeadIsFinished`, `ActiveIsCurrent`, `OneGenerationPerWorld`,
`SupersededNeverCommits`, `PeerHeadAdvances` and `ImplementsTimeline`, and of the
store it works with `LineageIsBranch` and `HistoryIsStable`. It assumes
`DaemonAssumption` (a message's name holds its session, `max_workers` and
`max_history` are positive)
and that the null values are not ordinary ones. Finiteness of the sets is not
assumed: that `_active` is finite is part of the invariant. The inductive invariant is
`DaemonInv` = the types, the store's `StoreInv`, `PeersInv`, `RequestsHaveRows` and
`ActiveInv`.

- `PeersInv` adds to the three peer properties that a connected world has been
  opened in the store (`PeersAreOpen`), which the row of a new turn needs.
- `RequestsHaveRows` ties a request to its row; without it a turn begun anew could
  reuse the record of an old one.
- `ActiveInv` is `ActiveIsCurrent` with `OneGenerationPerWorld`. Each needs the
  other: a commit moves the head of a world, which would leave a second request of
  that world on a stale parent.

Per action there is a lemma that it keeps `DaemonInv` and `HistoryKept`; requests
an action does not name survive by `Survivors` (same row, same peer, same
request). The hello handler is done once for both outcomes (`InvalidationKeeps`),
the user message by the peer tables it works with (`BindingFacts`,
`RebindingFacts`). `SupersededNeverCommits` and the refinement both follow from
`OnlyCommitsFinish`: a step either is a commit of a request in `_active` or leaves
the tree of finished turns alone.

`CompanionReplayProofs` adds what the daemon announces: `CacheIsDurable`,
`EndIsDurable`, and `PendingIsOwned` where SQLite works. Its invariant `CacheInv`
strengthens the cache's promise by what a replay needs: the request of a cached
answer has ended, and its last number is the cached one. `Quiet` says that steps
other than the worker's leave ended requests alone.

`CompanionModProofs` proves the game's `ModTypeOK`, `BusyHasExchange`,
`ExchangeIsCurrent`, `PreviewInOrder`, `HistoryMatchesHead` and `HeadMovesByAnswer`,
for any packets of any number of daemons, loads and questions, and any timeouts. The
inductive invariant `ModInv` says of the running tables *and* of the save file what
must hold when either runs (`Sound`): a load brings back the one, a save makes it of
the other. To `ExchangeIsCurrent` it adds that a game with a session has no hello
pending and is in that session's world (`Connected`), and to `HistoryMatchesHead`
that the history ends with the question in progress (`AskedLast`), without which an
answer could come to stand under an answer.

`CompanionSystemProofs` proves that the composed system implements the daemon's
specification (`SystemRunsDaemon`), so that all of the above holds of the whole, and
`SavedHeadsAreKept` and `AnswersAreNew`, for any network, any number of loads and a
store that may fail. `SysInv` joins `DaemonInv`, `CacheInv` and `ModInv` by what is in
flight: a message names an issued session and a finished parent of its world (`Up`), an
`assistant_end` the turn that has its name (`Down`), a save a head of its world
(`Kept`), and the question a head was the answer to has a smaller number than the one
in progress (`Numbered`), which is why no accepted answer can be the head itself, also
after a load.

`CompanionQuestionProofs` proves `AnswerFitsQuestion` and `AckIsCurrent` where no save is
loaded (`MaxLoads = 0`); the third finding says why it must be assumed. `NamesInv`
says that a name in flight or in a row was given out already and, if it is the name of
the question in progress, comes with its parent and its words; `HellosInv` that numbers
in flight are not ahead of the game's, and that an acknowledgement of the hello
pending holds a session that was not there when the hello was sent. The second
theorem assumes `MayRepeat`, under which control numbers are never reused.

It also proves `DaemonIsOneAhead` for a daemon and a game that nothing disturbs but the
network (`Undisturbed`): one daemon process, a store and a socket that do not fail, no
load, one port, and datagrams that repeat, overtake each other and stay out. Without
the first two of these the property is false (above). `AheadInv` needs three things
besides the property:

- `InStep`: while the daemon is ahead, no question in flight or being answered could
  put it further ahead, and among the turns of the connection the answer the game is
  about to take is the only one from where it stands. The second part is what makes
  the head and that answer one turn when it is taken.
- `Awaiting`: while a hello is pending, nothing was ever asked over a session minted
  after it was sent, and a peer that answered it stands where the game stood. With
  `HellosInv` that is why a late acknowledgement cannot connect a game that is behind.
- `Greeted`: once the daemon has minted a session it has a peer at the port, so that no
  `user_message` is taken for a hello (`MayBootstrap`).

All three rest on `SystemAssumption`: the assumptions of the parts, two control numbers,
and that the names of the game's exchanges are among those of the daemon.

`AnswerStreamProofs` proves `StreamTypeOK`, `BisectionIsExact`, `PreviewIsCut`,
`PreviewIsWhole`, `OnlyWholeAnswers` and `SupersededIsSilent` for answers, packets and
batches of any size and characters of any width, from `StreamAssumption` alone.

- The bisection keeps a window beyond which no prefix one longer fits and whose best
  fits (`LongestIsExact`, by induction on the window's size). It needs no
  monotonicity of the byte count: "exact" means that one character more does not
  fit, not that no longer prefix does. With widths that are positive the two are
  the same.
- `Packets` cuts a text from its end backwards (`PacketsAreCut`): in order, each
  within the budget, and nothing missing unless a character alone is too wide.
- `WorkerInv` says what has been established at each place of the worker: no failure
  so far, the marker seen, everything handed to the batcher, the batcher empty.
- `StreamInv` says of the packets sent what `Cut` says of one delta (`CutUpTo`,
  `WholeUpTo`), up to `LetGo`, the characters the batcher has let go of. Every step
  lets `n` more go and flushes exactly those (`Shown`), or takes the number of the packet that
  ends the exchange (`Preview`); `PacketsFollow` and `PacketsComplete` join the
  packets of one flush to those before. The count of the batch stays below its limit,
  which the batch size of a packet needs.

**Only model-checked.** Liveness (`BusyEnds`, `RequestsEnd`, `SilenceIsNoticed`,
`OfflineReconnects`, `WorkerEnds`). The three findings.

## Not modelled

- *Protocol validation* (`protocol.py`): pure checks on one packet, which reject
  without a state change; the models take only packets that pass.
- *Campaign capabilities* (`campaign.lua`): set operations no other state depends on
  but the context of a question.
- *Game context and interface*: read-only snapshots, windows, markers, the remote
  interface. Of `chat.lua`, system notices, the unread counter and the windows.
- *Legacy RCON agent*: one synchronous loop that ADR 001 replaced.
- *Launch scripts*, packaging, configuration parsing, logging and wording.
- Of the modelled parts: wall-clock columns and contexts of rows, the request body
  sent to the provider, the legacy peer that brings its own session, more than one
  player.
