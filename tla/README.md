# A verification project for claude-code-remote

The repository runs Claude Code sessions on one machine and lets paired devices (a phone, the `cc`
command line) watch them, steer them and decide on their tool calls. A daemon owns everything: it
spawns sessions, blocks each tool call on a hook until somebody decides, numbers and seals what it
sends, remembers whom it trusts. Most of the code is sequential callbacks on one event loop. What is
hard is between the callbacks: lines on sockets that cross, connections that break with frames in
flight, timers that race answers, writes that fail half-way through a handler, and a process that
dies and comes back with only its database.

This directory models those parts in TLA+, checks them with TLC on small instances and proves the
most important results with TLAPS for every value of the constants.

```
cd tla
tlc -workers 2 -config Jobs.cfg MCJobs      # one run; PROJECT.json lists them all
tlapm ApprovalsProofs.tla                   # the proofs of a module
```

## 1. Inventory

Paths are relative to `src/packages/daemon/src/` unless they start with `protocol/`, `cli/`,
`mobile/` or `hook/`.

| Component | Source | State it keeps | Operations | What makes it hard | What makes it correct |
|---|---|---|---|---|---|
| Hook bridge | `hook/approve-bridge.mjs` | one `settled` flag, one socket, one timer | start, connect, read a decision, self-deny, socket error | timer against answer; daemon dead or dying; killed by its session | prints exactly one verdict, and `allow` only when told so |
| Approval broker, hook socket | `domain/approvals.ts`, `interface/hookBridge.ts` | `pending`, `waiters`, the `claimed` set of a socket, a session's pending set | open, decide, abandon, age out | two deciders, duplicate ids, close after reuse, listeners that throw | first decision wins, the right hook hears it, counts are exact |
| Audit trail, durable store | `infrastructure/db.ts` | tables `approvals`, `sessions`, `jobs`, `push_tokens` | insert, update, reconcile at boot | writes throw; death between effect and record | rows say what happened and none stays open |
| Job queue | `application/jobs.ts` | live map, `running` counter | enqueue, tryStart, exit handler, pump | a slot is taken before the code that returns it is in place | cap, order, nothing stranded, no slot lost |
| Sessions | `infrastructure/session.ts`, `sessionState.ts` | process, derived state, stdin | spawn, error, exit, stdout lines, send, interrupt, set_model, set_permission_mode | `error` and `exit` both or late; output after exit | ends once; screens are true |
| Command dispatcher | `application/commands.ts` | none of its own | all commands | steps of one command that fail in the middle | each is in the model of the state it changes |
| Event delivery, replay | `domain/replay.ts`, `domain/deviceSessions.ts`, `interface/clientHub.ts` | per device: counter, bounded log, LRU order | recordSent, broadcast, sendTo, resumeFor, evict | shared sequence, log at its cap, restart | nobody who looks current misses an event, nobody gets one twice |
| Command redelivery | `protocol/src/resend.ts`, `sync.ts`, `deviceSessions.ts` | resend buffer, duplicate filter, cumulative ack | send, resend, accept, markProcessed, ack | lost acks, pruned filter, throwing handlers, several processes of a device | no false ack, nothing lost, in order, at most once |
| Client connection handler | `interface/clientConnection.ts`, `messageGuard.ts` | authentication of one socket | begin_pair, complete_pair, hello, sealed frames, close | order of steps in hello and after a handler | see the two rows above and trust |
| ReliableClient | `protocol/src/client.ts` | inbound stream, resend buffer, key | onOpen, onMessage, send, onClose | what survives a reconnect and what must not | see delivery and redelivery |
| `cc` client, its device store | `cli/src/cc.ts`, `deviceStore.ts` | number reservation on disk under a lock file; one command, its attempts | one-shot commands, pair, reconnect, exit | several processes share a device; lock files left behind; kills inside a write; other processes' replies and acks | numbers are unique, the exit status is true, every command ends |
| QR encoder | `cli/src/qr.ts` | none | encode, renderToTerminal | tables of fifteen versions, blocks of unequal length, layers of patterns | a reader of the standard gets the payload |
| Identity, pairing, revocation | `infrastructure/pairing.ts` | pending secret, devices in memory and on disk | beginPairing, completePairing, revoke, load | expiry, failing writes, restart | one secret, one device; revoked stays revoked; both ends agree |
| Hook-margin rule | `domain/hookMargin.ts`, `infrastructure/hookMarginFile.ts` | none | evaluate, check | settings change; several hooks; odd timeouts | the bridge's timer beats the runtime's kill |
| WebSocket transport | `interface/wsServer.ts` | byte buffer, fragments | onBytes, write | chunks cut anywhere, control frames between fragments | messages arrive whole and in order |
| Composition root | `index.ts` | wiring | listeners, snapshot, boot, shutdown | order of listeners, what boot repairs | in the models it wires |
| Mobile fleet state | `mobile/core/state/fleetState.ts` | what the screen shows | applyEvent, resync | snapshot and events must add up | `ScreenIsTrue` for sessions, `OwnCheckpointIsComplete` for approvals |

Interactions. A session's tool call runs the *bridge*, which talks to the *hook socket*, which opens
an entry in the *broker*; its events write the *audit trail*, go to every device through *delivery*
and to a phone by push. A device's *command* arrives through *redelivery* and is dispatched to the
broker, the *queue*, a *session* or the *identity*. The exit of a session frees a slot of the queue.
Revocation touches identity, push table, connections and delivery state. `guardMessage` catches what
throws while a message is handled; nothing catches what throws in a `close`, `exit` or timer callback.

`PROJECT.json` lists every part, also those not modelled, and under `hazards` the forty places where
this code is hard to test, with the property that watches each.

## 2. Modules

The order is the order of the plan: the approval gate is why the program exists, then what carries
it to a person and back, then who may decide, then what it all runs on.

| Module | Models | Notes |
|---|---|---|
| `ApprovalGate` | the promise: one vote per request, the gate opens on an allow only and never changes | abstract specification |
| `Approvals` | bridge, hook socket, broker, audit rows, decide | implements `ApprovalGate` (`voteOf`, `verdict`) |
| `HookMargin` | the rule, the settings file, the race of timer and kill | one clock |
| `Delivery` | daemon to client: counters, replay log, hello, ReliableClient's receiving half, approvals on the screen | a device is shared by clients |
| `Commands` | client to daemon: numbers, resend buffer, filter, ack level | the sending half |
| `Jobs` | queue, slots, processes, fleet map, rows, boot | loops unrolled into steps |
| `Cc` | one-shot `cc` processes: lock file, device.json, reconnecting, exits, and the daemon they share | composes both directions around one command |
| `Trust` | pairing at both ends, identity store, push table, revocation | secrets are numbers |
| `Sessions` | one session, its child process, a client's screen | stdin and stdout are queues |
| `WebSockets` | frame parser and encoder, against a reference without bytes or buffers | recursive, so TLC only |
| `Qr` | the encoder and its rendering, against a reader of ISO/IEC 18004 | recursive, so TLC only |
| `ApprovalsProofs`, `DeliveryProofs`, `CommandsProofs`, `HookMarginProofs`, `JobsProofs`, `TrustProofs`, `SessionsProofs`, `CcProofs` | theorems | section 5 |
| `MC*` | instances for TLC | |

### How the models correspond to the code

*One callback is one action.* The daemon is single threaded, so a handler is atomic, with everything
it calls (against a kill it is not: where a handler writes twice, or truncates and then writes, dying in
between is an action): emitting `resolved` runs the listener that writes the row, so `Resolve` writes it. Where a
step inside a handler can throw, the action has one disjunct per place, enabled by a member of
`Faults`, and stops exactly there. Whether the process survives depends on the callback: `HookClosed`
and `ExitThrows` die, handlers under `guardMessage` go on. The one exception to "one callback, one
action" is `Jobs`, whose loop over `tryStart` is a step per job; `ctx` keeps other callbacks out.

*Approvals.* `pending`, `waiters` and `claimed` are the maps of the same names, `tracked` a session's
pending set, `up`/`down` the lines on a hook's socket, `audit` the table. A request is one run of the
bridge; `IdOf` gives its tool_use_id, and two requests may have the same.

*Delivery.* `reg` holds `DeviceSessionRegistry` and `DeviceReplayLog`; `highest` and `seen` are the
client's `InboundStream`, whose pruning is left to `Commands`: within the bounds no number is old
enough. Events are numbers, each the opening or the resolution of an approval; `open`
is what `broker.list()` returns and `screen` what the client shows (`applyEvent`). A snapshot is the
session list, a frame for each open approval and the jobs, and teaches a client everything only when
its last frame was read, so one that is cut short teaches less.

*Commands.* A command is its number. `through` and `ahead` are the ack level, `seen` and `highest`
the filter, `buffer` the resend buffer; `late` holds frames the daemon still reads from a connection
its client has given up.

*Cc.* `pc` is where a process is between two system calls. `store` is `outSeq` in device.json, or `Torn`
between the truncation and the write of `writeFileSync`; `lock` says whose file the lock is, which the
code cannot know, and `old` that it is past ten seconds. Waiting for the lock is not a step; giving up
is. What the daemon sends a device is numbered and replayed as in `Delivery`, acked as in `Commands`,
without the bounds of those modules on the filter. `late` is the bag of frames that were unread when a
process gave its connection up: `LateHello` and `LateFrame` read them at any later time, with every effect
on the daemon and none on the process. `overtaken` are the processes whose number the ack level passed
without an ack to them since their last hello: `Passed` compares the level before and after one frame, so
a process that was sent its own ack is never among them. `reads` are the processes that run `cc history`.

*Jobs.* `live` is the map in insertion order, `scan` the part of a loop still to do, `watched` the
sessions whose exit the queue hears, `row` and `sessRow` the tables.

*Trust.* `devices` is memory, `file` and `stored` are the identity store, `push` the table, `registry` the
per-device state of delivery, `authed` the connections. `pair` is the pairing a machine is in and `holds` the device in its
record; `cc pair` asks for the secret and proves it in one go, a code may be used at any later time.
`persist` is `writeFileSync`, which truncates and then writes: `Persist` when it ends, `Cut` when it is left
in between. A write that throws may leave the old store, none or the new one (`PersistFails`). The daemon
dies between handlers (`Crash`), inside the write (`PairingKilled`, `RevokeKilled`, `FirstRunCut`), or
between the store, the push row and the confirmation of a revocation (`RevokeKilled`). `Boot` refuses a
store that was cut short, until the operator deletes it (`DeleteStore`, what the error message advises).

*Sessions.* `derived` is `deriveSessionState`; `stopped` remembers an interrupt, `wire` the events on
their way to a client and `shown` what it displays.

*HookMargin.* `EvaluateHookMargin` is the pure rule, `TryStart` the check before a spawn, `Load` the
moment the child reads the file. How the runtime treats a hook is external.
A settings file that is JSON of another shape makes the rule throw, and nothing is spawned: it is one of the
unreadable files. In the scan after an exit that exception has no catcher and ends the daemon, a death `Jobs` has.

*Qr.* A matrix is built layer by layer in the order of `encode`; `FunctionModule` asks the layers from the
last to the first, because a later one draws over an earlier. The reader shares the field arithmetic, the
mask formulas and the block structure with the encoder, and takes capacities, alignment positions,
format and version words and the reading path from the standard; that the block structure fits the
matrix of the standard, to the module, is part of `RightSize`.

*WebSockets.* `OnBytes` is the parser. The limits 126 and 65536 and the 256 values of a length byte are
constants with `Medium = Radix * Radix`; in the instance they are 2, 4 and 2, so that the two-byte form
overflows exactly where it does in the code. `Refused` are the messages at which the handler destroys the
socket inside `emit('data')`: the loop then parses the chunk to its end (`left` is the loop's own return,
`destroyed` the socket's flag). `Destroy` is the hub closing the socket between two chunks.

Every definition has its lines in `PROJECT.json` under `map`. Names ending in `_Something` are
mutants: plausible bugs, one for each property, that TLC must catch.

## 3. Runs

| Run | Instance | Shows |
|---|---|---|
| `approvals_faults` | two hooks with one id, two devices, all faults, 2 restarts, 1 age-out (368k states) | the gate opens on one allow to this very request; one answer per hook; decisions final; a decided row is touched only when a request that reused its id is answered; refinement of `ApprovalGate` |
| `approvals_exact` | three hooks, two sharing an id, no faults, 1 restart (210k) | pending counts and list exact, every decision recorded, hooks end, approvals resolve |
| `delivery` | two clients of one device, log of 2, 2 events, 1 reply, 1 drop, 1 restart (1.08M) | completeness, true approvals on the screen, no repeats, no false duplicates, contiguous log, everyone informed |
| `delivery_false_resume` | one client, 4 events, 2 drops, 1 restart | **violation**, finding 1 |
| `jobs` | four jobs, two slots, all faults, 1 survived failure, 1 death (114k) | slots, cap, FIFO, rows, fleet, no open row without a job, no job waits for ever |
| `commands_faults` | two clients, three numbers, every behaviour, 1 drop, 1 restart (680k, symmetric clients) | no false ack, nothing lost, writes once each and in order |
| `commands_single` | one client, six numbers, filter of 3 pruned to 2, 3 drops, 1 restart (6k) | pruning is safe for a writer, acks are not lost, writes are confirmed |
| `trust` | two machines, three devices, cap 2, three secrets, failing and torn writes, lost replies, 1 death, between handlers or inside one (1.22M, symmetric) | one device per secret, cap, revocation final, machines and stores agree |
| `sessions` | one session, 2 requests, 2 spoken events, 1 resync (358k) | ends once, true screen, turns end |
| `cc` | two processes, two writes or a write and a read, reconnect limit 0 or 1, log of 2, a lock left behind, stalls, throwing handlers, frames read late, 1 broadcast, drop, kill or restart, or 3 of them with one process alone (1.08M) | no number drawn twice, exit status true, every process ends, each with its named exceptions |
| `rules` | margin: hooks of 2 or 3 s or unusable, 1 edit; transport: up to three of eight kinds of frame, a message the handler refuses, a text of 0 to 5 bytes; QR: twenty payloads that fill, or just miss, the fifteen versions, eight masks (215k) | a call goes unguarded only through an unjudged hook; reassembly equals the reference for every chunking, the encoder is readable; the printed code is read as the payload |
| `hookmargin_unusable` | hooks of 3 s or unusable | **violation**, finding 2 |

*Why the bounds are enough.* Each is the smallest at which the cases meet. Two hooks with one id are
the smallest collision, and a restart or an age-out is what lets an id be reused; the second restart
lets a reused id be lost again. A log of two entries is overrun by one snapshot, so `delivery` reaches
both sides of the gap test. Four jobs for two slots leave two waiting, the least that can be
overtaken. Six numbers for a filter of three force two prunings. Three devices for a cap of two make
the cap bite; with two machines and three secrets one machine pairs again and replaces its record, or
two use one secret. Two processes that share a number, a lock or a replay log are the smallest that
can harm each other; one upset is enough for every exception in the properties of `Cc` but those that
need none, and `missed`, which takes three (two lost connections and a broadcast in between): so one
process alone, the other killed before it began, may meet three (`OneOrAlone`). A payload that exactly fills a version, and one a byte
longer, are the edges of its tables. Where a bound is on failures
(`MaxDrops`, `MaxRestarts`, `MaxThrows`), the properties compare a state with an earlier one across
one such failure.

*Deadlock* is off everywhere: a bounded instance stops when its inputs are used up. That nothing is
stuck before that is what the liveness properties say.

*Fairness* is weak fairness of what the code itself schedules, and no more:

- `Approvals`: the bridge's own timer fires (`setTimeout` armed before anything else) and the daemon
  hears a socket close. Nobody is obliged to decide, to connect or to restart the daemon.
- `Delivery`, `Commands`: clients redial (the reconnect loops of `cc` and the phone) and both sides
  read their sockets. Drops and restarts are owed by nobody; their bounds make them cease.
- `Cc`: processes run and both sides read their sockets. A lock file need not grow old: whoever waits for
  it gives up after five seconds. Nobody owes a broadcast that would complete an ack, nor that the
  daemon ever reads a late frame.
- `Jobs`: the loop of a running callback continues, a dead daemon is started again by its supervisor,
  processes end and their exits are heard. That a session ends is an assumption on its operator, and
  needed: a queue behind a session that never ends waits for ever.
- `Sessions`: Node reports spawn, output and exit; claude reads its input and finishes its turns.

## 4. Findings and known deviations

Two statements of the repository are refuted by runs of their own.

1. *False resume* (`delivery_false_resume`). `docs/ARCHITECTURE.md:85`: a restart always forces a full
   resync. `resumeFor` compares a client's `lastSeq` with the device's new counter without knowing
   which process issued it. If the first connection after a restart breaks before the resync is read,
   or another process of the device is resynced first, the counter may have reached the old number;
   the client is then told it is resumed. `OwnCheckpointIsComplete` shows that this is the only way:
   clients whose checkpoint this process issued are complete.
2. *Skipped timeouts* (`hookmargin_unusable`). `domain/hookMargin.ts:35`: "Anything not a finite number
   is refused." The entry is skipped, not refused, when another bridge hook has a good timeout.

Others were met while modelling. In these cases a property is stated with the condition under which it
holds; dropping the condition, or setting the constants as below, lets TLC show the trace.

| What happens | Where | How to see it |
|---|---|---|
| An id that was decided and aged out while its first socket stayed open is reused: the late close of that socket denies the second request. | `approvals.ts:75` against its comment at :73 | `OnlyOwnHookAbandons` without `ageouts = 0`, `Approvals_faults.cfg` |
| A request that reused an id gets its decision written over the decided row of the first. | `db.ts:132` against `db.ts:117` | `DecisionStands` without the exception for rows |
| Killed between answering the hook and the UPDATE, the daemon leaves a delivered decision unrecorded; boot does not reconcile approvals. | `approvals.ts:61`, `docs/SECURITY.md:80` | `DecisionsRecorded` with `Faults = {"kill"}` |
| A listener of `pending` throws after the entry is stored: the socket never claims the id and its close does not abandon it. | `hookBridge.ts:106`, `approvals.ts:69` | `PendingExact` with `Faults = {"tokens"}` |
| A connected device evicted from the replay log restarts its counter on the same connection; its client drops the next events as duplicates. | `deviceSessions.ts:80` | `DedupExact` with two devices and `MaxDevices = 1`, which is not `Roomy` (section 5) |
| Recording a job as running throws outside the `try`: the slot is never given back. | `jobs.ts:134` against :138 | `SlotsExact` without `throws = 0`, fault `"slot"` |
| Recording the session throws after the spawn: slot freed, process running with no owner, cap exceeded. | `jobs.ts:152`, `docs/CONFIGURATION.md:21` | `SlotsExact` without `throws = 0`, fault `"session"` |
| The INSERT of a job throws: it sits queued beside free slots until some session ends. | `jobs.ts:105` against :162 | `NoStrandedJob` without `throws = 0`, fault `"insert"` |
| Numbers skipped by reads or by refused writes move the filter's window past a buffered write; its resend runs again. | `sync.ts:53` against `resend.ts:16` | `AtMostOnce` in `Commands_single.cfg` with `"overflow"` or `"read"` |
| One process's number fills the gap below another's; the ack goes to the first only, the second waits. | `clientConnection.ts:215`, `deviceStore.ts:53` | `NoLostAck` with two clients |
| A frame of the old connection runs after the new hello: its resend is dropped and never acked. | `clientConnection.ts:199` against :197 | `NoLostAck` with `"late"` |
| After a restart the ack level waits for numbers acked before it: commands run and are never confirmed. | `deviceSessions.ts:122` | `EventuallyConfirmed` without `Missing` |
| Killed between `identity.revoke` and `push.unregister`, the daemon leaves the push row of a device it no longer trusts; a repeated revoke answers "no such device" and never reaches the row. | `commands.ts:136` against :138 | `TrustAgrees` without `halved` |
| Killed inside `writeFileSync`, the daemon leaves an identity store that `load` refuses; deleting it, as the message says, unpairs every device and leaves their push rows. | `pairing.ts:107`, :75 | `TrustAgrees` without `lost` |
| Forgetting the push token throws after trust was removed: the revoked device keeps its connection. | `commands.ts:140` against `clientHub.ts:125` | `TrustAgrees` without `~threw` |
| A device that revokes itself gets a registry entry again from the end of its own handler. | `clientConnection.ts:208`, `deviceSessions.ts:145` | `TrustAgrees` without its exception |
| No event ends an interrupted turn: `control_response` maps to no state. | `sessionState.ts:27` against `session.ts:157` | `EventuallySettles` without `stopped` |
| Output read after exit sets a dead session back to a live state and broadcasts it. | `session.ts:127`, `commands.ts:19` | `ScreenIsTrue` without `state \in Terminal` |
| A write to a child that died and is not reaped raises an error nobody listens to: the daemon ends. | `session.ts:188`, `messageGuard.ts:4` | `[]alive` in `Sessions.cfg` |
| A waiter that found the lock stale removes the lock its successor has just taken: both draw one number, the daemon drops one command, and its process exits 0. | `deviceStore.ts:69` against :45 | `NumbersUnique` without `stolen` |
| A process killed inside `writeFileSync` leaves device.json cut short: the next to hold the lock draws number 1 again, and the pairing is lost. | `deviceStore.ts:92` | `NumbersUnique` without `torn` |
| A process that starts while another rewrites device.json reads it cut short and exits with "not paired". | `deviceStore.ts:25` | `exit[p] # "unpaired"` as an invariant of `Cc.cfg` |
| An `error` replayed to a resumed process ends it, though it answers another process's command. | `cc.ts:378` against :375 | `ExitIsTrue` without `resumed` |
| The refusal of a command falls into a full resync and the ack does not: `cc` exits 0. | `cc.ts:370` | `ExitIsTrue` without `resynced` |
| The daemon reads a command from a connection the process gave up, after it answered the next hello, and refuses it: the error goes to the old socket, the resend is a silent duplicate, a broadcast moves the checkpoint past the error, and the ack of the next resume makes `cc` exit 0. | `clientConnection.ts:199`, `cc.ts:370` | `ExitIsTrue` without `missed` |
| A write waits for ever: its handler threw, the daemon restarted, a number below it was lost with a connection, or the level passed its number in an ack to another connection, of another process or one it gave up. | `deviceSessions.ts:137` against "eventually surfaces an honest error", `deviceStore.ts:53` | `EveryCommandEnds` without `threw`, `Missing` or `overtaken` |
| An approval resolved in a gap stays on the phone's screen: a resync replaces the sessions and only adds approvals. | `fleetState.ts:41` against :16 | `OwnCheckpointIsComplete` without `resynced` |
| A `paired` reply that is lost leaves a device nobody holds; when they fill the cap no device is left to revoke one. | `clientConnection.ts:84` against :82 | invariant `Cardinality(devices) < MaxPaired \/ \E m \in Machines : holds[m] \cap devices # {}` in `Trust.cfg` |
| The second copy of the format information runs through the dark module, which overwrites one of its bits: readers correct it. | `qr.ts:285` against :10 | `ScannerReads` with `= 0` for `<= 1` |
| One frame longer than the message cap is buffered whole before the cap is looked at. | `wsServer.ts:117` against :26 | compare `Len(shim.buf)` with `MaxMessage` |

## 5. Proofs

All theorems hold for every value of the constants that satisfies the named assumption of the module;
none assumes that bounds are small. Sets are assumed finite only where the code counts them: the
devices of `Trust` and of `Delivery` and the jobs of `Jobs`. A theorem that needs more than that states it as a named
hypothesis, which an instance of section 3 satisfies. The inductive invariants were model-checked on
those instances before they were proved.

**`ApprovalsProofs`** (assumption `ConstantsAssumption`: `IdOf` is a function, the sentinel values are
not members of the sets they mark). `IInv` is `TypeOK` and

- `TimerAfterDecision`: an ageing timer is armed only on a decided entry, so ageing out never removes
  an open one;
- `QuietBefore`, `AskedOnce`: nothing is known of a request whose bridge has not connected, and a
  request that still has its line in flight has no answer yet, so a request is opened or rejected once;
- `EntryOfRequest`: the entry of an id belongs to a request that presents that id and, while it is
  undecided, has no answer: this is where the compare-and-swap is used;
- `WaiterExact`: a waiter exactly for undecided entries, the right one;
- `AnswersSound`: at most one answer, the only line its socket can hold, and only a device allows;
- `VerdictSound`: a verdict to allow repeats the answer.

`WaiterExact` alone is not inductive: that an answer leaves no waiter behind needs `EntryOfRequest`,
and that in turn needs to know that a request asks once. From `IInv`: `TypeCorrect`,
`OnlyAnAllowOpensTheGate` (`GateNeedsAllow`), `HooksAreAnsweredOnce` (`OneAnswer`),
`WaitersAreExact` (`WaiterExact`) and `ImplementsGate` (`Spec => GateSpec`, step by step: `Respond`
is a vote, `Settle` moves the gate, everything else stutters).

Four more rest on the lemma `EveryStepEffect`, which sums up every action by what it does to entries,
rows and answers (an entry is opened, decided, aged out, lost with the daemon), so that each proof
has a few cases and not one per action and fault:

- `HooksAreNotAbandonedByOthers` (`OnlyOwnHookAbandons`), with any faults: a socket's `claimed` set
  names only entries that it owns (`ClaimedIsOwner`), until an age-out frees an id for another;
- `DecisionsAreFinal` (`DecisionStands`, an action property), with any faults: a decided row has a
  request, and the waiter that could overwrite it belongs to another (`RowsSound`);
- `PendingIsExact` (`PendingExact`), if the `pending` listener does not throw (`ListenerDoesNotThrow`):
  if it does, `onRequest` stops before it claims and tracks the id, and nothing makes up for that;
- `DecisionsAreRecorded` (`DecisionsRecorded`), if the row writes succeed and the process is not
  killed between answer and UPDATE (`WritesSucceed`): otherwise the row is missing or left open.

The run `approvals_exact` is an instance of both hypotheses.

**`DeliveryProofs`** (assumption `DeliveryAssumption`). The replay log keeps only the end of what was sent,
a snapshot is a list of frames of any length, and clients of one device read the same numbers at
different times, so no invariant on the log alone says what a number stands for. The proof keeps a *history*
`H` beside the state: for each device the sequence of everything this daemon process recorded for it,
each item with the number of events there had been and the approvals that were open at the time. The
invariant `DeliveryInv` is `TypeInv` and "there is a history such that `IInv(H)`"; each step proves the
invariant again by giving the history that follows. The parts of `IInv`:

- `RegOK`: the counter of a device is the length of its history, its log the last entries of it under their
  places as numbers (`EndOf`), and the LRU order lists the devices with a log once each;
- `HistOK`: an event in the history is the next one, and every piece of a snapshot stands among the others of
  the same snapshot, all made from one state of the broker (`EntryOK`);
- `LinkOK`: what a client has yet to read is a `Chain` of its device's history from the checkpoint on, or from 0
  after a resync, in which only what a later full snapshot repeats is skipped;
- `ShownOK`: nothing in that chain was rendered before, which is what makes the filter exact;
- `LearntOK`: a client whose checkpoint this process issued is level with the history at that place
  (`Synced`): what it knows and shows is what was published and open when that number was given out.

The operators come first: `Recording`, `Keep`, `Touch`, `Evict`, `SendAll`, `RecordFor` and `Replayed` each have a lemma
that says what they do to `RegOK` and to the history, by induction over the list of things to record. That
induction is over a *set*, the lengths at which a statement fails, which has a least element
(`LeastNat`, `NatSetInduction`); the library's own schemes take a predicate as a parameter and cannot be
used. The results:

- `DeliveryTypeCorrect` (`TypeOK`), with evictions: bounded logs with increasing numbers;
- `DeliveryDedupExact` (`DedupExact`) and `DeliveryComplete` (`OwnCheckpointIsComplete`), for any devices, clients, drops and
  restarts, if the log has room for every device: `Roomy`, which is `Cardinality(Devices) <= MaxDevices`. By
  default at most 50 devices are paired (`infrastructure/config.ts:123`, enforced at `interface/clientConnection.ts:84`) and the log has
  room for 200 (`domain/replay.ts:34`), and `Delivery.cfg` is an instance. Without it the known deviation at
  `deviceSessions.ts:80` applies: an evicted device counts from 1 again on an open connection.

One attempt failed for a good reason: what a client learns (`Learnt`) had been a `CASE` whose guards
overlapped for the last frame of a snapshot, and `CASE` promises nothing about which arm it takes. It is
an `IF` now.

**`CommandsProofs`** (assumption `CommandsAssumption`). `IInv` says that the level and what is ahead of
it are completed commands (`Covered`), that every ack in flight is true (`TrueFrames`), and the two
results: `AcksAreTrue` (`NoFalseAck`) and `WritesAreKept` (`NothingLost`). The frames are needed
because an ack outlives the level it was read from: a restart resets the level and not the socket.

What is on the wire needs four more invariants, which hold with any faults and any limits
(`FlightInvariance`):

- `WireInv`: hello is alone on a connection until it is read, commands follow the salt, and every
  number anywhere was drawn;
- `FilterExact`: the filter remembers what ran and is at most `SeenKeep` below the highest, and
  nothing else;
- `AcksRan`: this daemon process acks only what it ran;
- `OrderInv`: a queue of a client, `up` or `late`, has each of its writes behind all older ones that
  did not run; a ready connection carries all that did not run; what did not run is newer than all
  that did. The second is what resending before anything new gives, and it carries the first
  over `SendWrite`.

From them `NothingRunsTwice` (`AtMostOnce`) and `WritesRunInOrder` (`InOrder`), as long as no frame in
flight lags more than `SeenKeep` behind the highest number read (`[]InWindow`). The hypothesis is
needed: a second client, reads, refused writes and late frames all move the highest number while an
old write waits, and the filter then forgets it. `ResendsStayInWindow` proves it from the size of the
buffer, which is what the comment on `ResendBuffer` claims (256 is "deliberately << the daemon's
InboundStream dedup window"), and shows what the comment takes for granted: one client, only
writes the buffer has room for, nothing late. Its invariant `WindowAt` says that the buffer holds
every number above the last ack, so that the oldest is at most `Capacity - 1` below the newest.
`NoAckIsLost` (`NoLostAck`), with one client and nothing late: each write the level covers has an ack on
its way (`AckAt`). With a second client the ack may go to the other one.

`Pending` is an ascending enumeration chosen, not computed; `AscendingExists` proves that there is one,
by rank, and `AscendingProperties` that it misses nothing.

**`JobsProofs`** (assumption `JobsAssumption`). A loop over `tryStart` is interrupted by nothing but
failures, so the invariant is about the middle of it: `CallbackScans` (what is still to visit is the
end of the live map), `SlotsOwned` (each slot belongs to a watched process), `WaitersAreScanned` (a job
that waits beside a free slot is about to be visited), `TablesAgree`, `DownIsEmpty`. `SlotsAreExact`,
`NoJobIsStranded`, `JobsStartInOrder`, `TablesAreExact` and `OpenRowsAreLive` follow; the last one also
after failed writes.

**`TrustProofs`** (assumption `TrustAssumption`). `SecretsUnspent` (the secret that is waited for has
admitted nobody) and `Capped` give `SecretAdmitsOnce` (`AdmissionsBounded`); `AllMinted` (an id known
anywhere was minted, and is minted once) gives `RevocationIsFinal` (`RevokeStands`) with failing writes;
`PushOnDisk`, that a push row belongs to a device on disk or to one in `halved` or `lost`, and `GoneIsEmpty`,
that a dead daemon has no memory and a store that is not whole no devices, carry `TrustIsOne`
(`TrustAgrees`) over every kind of death and the boot after it.

**`SessionsProofs`** (assumption `SessionsAssumption`). `EndsWithChild` ties `exits` to how far
the child is gone, which is what makes the `exit` after an `error` harmless: `SessionEndsOnce` (`EndsOnce`).
`LatestIsTrue` is `ScreenIsTrue` with the events in flight: `ScreenShowsState`.

**`CcProofs`** (assumption `CcAssumption`: "nobody" and "dead" are not processes). Until a lock is
stolen or a file torn, who is between `openSync` and `unlinkSync` owns the lock file, so at most one is,
and what is on disk, or about to be, bounds every number drawn: `NumbersAreUnique` (`NumbersUnique`).

`ExitsAreTrue` (`ExitIsTrue`) has an invariant of its own, `ExitInv`, and holds with stolen locks and
torn files too. What makes an exit code true is the order of the frames, so the invariant follows them:

- `DaemonOK`: the replay log is consecutive and ends at the counter, its acks are no higher than the
  ack level, and only numbers that were drawn were processed;
- `SockOK`: a connection is a hello, then the salt that answers it, then frames no later than the
  counter; an answer among them is the process's own, unless the process was resumed;
- `Cmds`, `Distinct`: a command on the wire of one process carries a number another one waits for only
  if that number was drawn twice;
- `Refusal`: the error of a write that was processed and not completed is ahead of the process's
  checkpoint, in the log unless it was cut off, and, if the process is listening, in its queue
  before every ack that reaches its number. That is why `onAck` cannot confirm a refused command.

The step that takes an argument is the reconnect: the process comes back with a checkpoint before
the error, and either the daemon has every frame behind it and the replay brings the error first
(`ReplayHasRefusal`), or there is a full resync, after which nothing is claimed. The log enters as the
suffix `Replay` takes of it, which is `filter` on an ascending log.

Frames read late need one more invariant, `LateInv`: a command in a process's bag carries a number
that was drawn and that another process waits for only if it was drawn twice, and as long as it is there
the checkpoint of its process is not ahead of the counter (`LateOK`): the command was sent to this daemon
process. So a late command is the process's own; its error is either ahead of the
checkpoint of the hello that is still to be answered, where `Refusal` holds as it does after a drop, or
the process is in `missed`. `StepsFresh` says what a step may do to the numbers that are waited for, and
`LateKeeps` that such a step keeps the bag honest.

**`HookMarginProofs`** (assumption `MarginAssumption`: the bridge arms its timer within the margin).
The lemma `MarginSuffices` is the rule itself: when the smallest timeout leaves the margin, every
finite timeout does. `MarginGuards` (`GuardedIfChecked`) follows with an invariant on the clock
(`ClockSound`: a waiting bridge is not past its deadline, which was set within the start-up time) and
on where the gating hook came from; `TimerFiresFirst` is the corollary without faults: no call ever
goes unguarded.

**Model-checked only.**

- Liveness (`EventuallyResolved`, `EventuallyConfirmed`, `EveryJobIsDequeued` and the others) and
  `ENABLED`, which the prover does not handle.
- `WebSockets` and `Qr`: their operators are recursive and use `Bitwise`, which is out of the prover's
  reach.

## 6. Not modelled

- *Cryptography* (`protocol/src/frame.ts`, `crypto-node.ts`, `pairing-proof.ts`): assumed ideal, a frame
  opens exactly under its key, number and direction.
- *Sanitising, pair-code text, permission-mode list*: pure functions without state, or string formatting.
- *The penalty that ranks the eight QR masks*: it changes which code is printed, not what it says.
- *Configuration, logging, tailnet lookup, HTTP upgrade, push sending*: I/O that changes no state of
  the daemon; configured limits are constants.
- *`cc watch`*, which never exits on its own, and the two exits special to `cc revoke`: `Cc` has the
  commands that wait for an ack or a reply.
- *Rendering, history queries, argument parsing, UI callbacks*.

## 7. Plan

Done: the modules above in that order, their runs, and the proofs of section 5. Next:

1. `Commands` as an abstract specification of `Cc`, for runs without stolen locks and torn files.
2. Two devices in `Delivery`, with eviction in a passing run.
