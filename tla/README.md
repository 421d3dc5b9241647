# PilotSwarm in TLA+

PilotSwarm runs Copilot agents as durable sessions. A session is a generator
that the duroxide runtime executes, records and replays; clients, sub-agents
and management code talk to it through durable queues; turns of the model run
as activities on worker processes. This directory holds TLA+ modules of the
orchestration in `packages/sdk/src/orchestration/` (version 1.0.79), of the
snapshot protocol of its workers, of the budgets of model providers and of the
live plane up to the browser, with their TLC configurations and TLAPS proofs.
`PROJECT.json` lists components, runs, mutants, the lines every definition
stands for, findings, hazards and theorems.

## Inventory

| part | state | operations | what makes it correct |
|---|---|---|---|
| work FIFO (`queue.ts`) | key/value buckets of bounded length | append, prepend, pop, interactive pop | nothing lost or duplicated unnoticed, arrival order |
| message loop (`runtime.ts`, `queue.ts`) | queue, FIFO, duplicate window, tombstones, carried prompt, timer | `drain`, `decide`, sweep, merge, dispatch, continue-as-new | every prompt runs once, in order, or is cancelled |
| sub-agents (`agents.ts`, `turn.ts`) | tracked children, awaited ids, agent-poll, digest, pending shutdown | child update, poll, wait, `done`/`cancel`/`delete` | waits and shutdowns end |
| regeneration (`lifecycle.ts`, `turn.ts`, `regen-worker.ts`, CMS functions) | stage, attempt, epoch, pending commit, stash | `regenerate`, `cancel_regen`, archive, distil, flip, boundary, grounding turn, proof | one epoch per flip, recorded once, no leaked distiller |
| turn execution (`turn.ts`, `session-proxy.ts`) | iteration, retry count, timers | run, retry, hand off, give up, refuse, stop | a turn that failed is retried within its limit |
| timers and cron (`queue.ts`, `lifecycle.ts`, `turn.ts`, `cron-at.ts`) | one active timer, interrupted wait and cron, schedule, question, digest | arm, fire, interrupt, resume, rebuild | owed time is served, a recurring session keeps waking |
| snapshots (`session-lifecycle.ts`, `snapshot-protocol.ts`, stores) | chain of versions, local marker and sentinel | probe, hydrate, commit by compare-and-swap | no committed turn is overwritten or run again |
| session manager, managed session | SDK sessions of a worker | get or create, reset, abort | one live SDK session per session |
| provider budgets and wake (`session-proxy.ts`, `turn.ts`, `provider-*.ts`, CMS functions) | limits, meters, ledger, pauses, stash of refused prompts | check, refuse, settle, change, wake | charged once, limits hold up to turns at work, refused prompts are served |
| live plane (`live-turn.ts`, CMS functions, `live-plane.js`, `ws.js`, `api-client.js`, `controller.js`, `history.js`) | text of the running turn, retained row, sequence numbers, previews | coalesce, publish, notify, read, subscribe, show, clear | the newest text arrives, what is over stays over |
| CMS, facts, graph, canvas | rows | stored procedures | transactions |
| clients, portal, TUI, MCP | caches of status | send, poll | – |
| worker, packages, prompt layers, tools, deployment | configuration | – | – |

How the parts meet: clients enqueue on a session's queue `messages`; a session
enqueues `done` and messages on those of its children, which answer with child
updates; a session calls activities (turn, CMS records, distiller) that run at
least once on some worker; a continue-as-new replaces an execution by a new one
that starts from the carried input. The code of one execution is sequential.
What is hard is what falls between: messages that arrive between two steps, an
execution that ends with something only in memory, one timer slot shared by
several purposes, activities that fail after their effect, a child or
distiller that says nothing.

## Modules

**WorkFifo** is the bucketed FIFO. `bucket` is the key/value store; `Drain`
appends a stash, `DecidePrompt` pops, merges what follows and puts back the
first item it cannot merge, `DecideOther` dispatches answers and timers. Sizes
are numbers, contents are ids in arrival order. The loops of `appendToFifo` and
of `decide` are recursive functions over the items. `dispatched`, `dropped` and
`putBack` are observations. The properties are stated by places: a bucket and a
position in it.

**SessionMessages** is the life of a client's message. A loop iteration goes
through `pc`: `start` (caps), `drain` (one action per message taken), `decide`,
`sweep` (messages taken once more with a prompt in hand), `dispatch`, `merge`,
`turn`. The FIFO is a sequence here, WorkFifo says how it is stored; it is used
within the capacity in which WorkFifo drops nothing. `FreshExecution` is what a
continue-as-new does to memory. Commands are taken where the code takes them
and change what their handlers change; `get_info` stands for the commands that
answer only. The number `n` of a prompt is the order of acceptance and is not
read by any guard.

**AgentWait** is a session with its children. `actual` is what a child does,
`status` what the session believes; reports and polls bring them together. The
timer slot is `none`, `poll` or `other`. The deadline of a shutdown is a number
of polls. Client messages are taken directly, since only their effect on wait
and timer matters.

**RegenPipeline** is a regeneration from the command to the proof of rebirth,
with the distiller session, the CMS functions and the worker reduced to what
the pipeline sees. An activity may fail before or after its effect.
`grounding`, `turn` and `stashed` follow the bootstrap through retries and the
budget stash. **RegenPipelineMC** adds the symmetry of the attempts.

**SnapshotProtocol** is the memory of a session: attempts of turns on several
workers, each worker with a directory (files, marker, sentinel) and a warm SDK
session, and a store with one chain per epoch. Memory is the sequence of the
bodies that made it, a body is named by the attempt that ran it, and a content
hash is the content. An attempt (`att`) goes through preamble (`FindCommitted`,
`UseLocal`, `StartFresh`, `UseStore`, then a restore), SDK session (`getOrCreate`
with its resets, store recovery and lossy replay), body and commit; every await
at which another worker can act, or a crash can matter, separates two actions.
The orchestration is reduced to asking for turns under fresh keys, stopping
them, taking answers and flipping the epoch. `att[i].passed` and `bypassed` are
observations: that a chain has moved since an attempt took its base, and which
chains were deleted by a reset or replaced by a legacy write; `told` is the list
of the answers that the orchestration took as committed. Local file
operations do not fail, and the store's commit is atomic (both stores make the
swap a conditional write or do it under a lock). **SnapshotProtocolMC** adds the
symmetry of the workers.

**SessionMemory** is what the store promises, without workers, files, versions
and attempts: for each epoch one memory that begins once and grows by one body
at a time, and answers that are given only for bodies it holds, behind those of
earlier answers. An epoch may be forfeited (`bypassed`). SnapshotProtocol
implements it (`ImplementsMemory`, checked by the run `snapshots` and proved):
`memory` is
the content of the chains that were not forfeited, `told` is `told`. A step of
an attempt maps to `Remember` at its compare-and-swap, to `Tell` when the
orchestration takes its answer, and to a stutter otherwise, however often the
activity is delivered or crashes in between.

**SessionTimers** is the one timer slot of a session. `timer` is `activeTimer`,
`held` and `heldCron` are the interrupted wait and cron, `schedule` and `at` the
recurring schedule; timers that have fired wait in `fifo` behind prompts and
answers. The loop goes through `pc`: `top` (where an execution may continue as
new), `drain`, `decide`, `turn`. Time passes in ticks while a turn runs or the
session is parked. An occurrence of a wall-clock schedule is counted from now
on, so that no absolute time is needed; seconds are three ticks, so that the
rounding of an interrupted wait is seen. A `pause` is a wait timer of the budget
gate, which the code knows by its flag only. A negative hold window or grace
period is none; with a grace period of 0 a question arms the hold at once. `owed`, `lost`, `lapsed`,
`leftover`, `fresh`, `unflagged` and `cause` are observations.

**ProviderBudgets** is one provider with one limit, and the sessions that use
it. An attempt at a turn goes through `stage`: `gate`, `judged` (the verdict is
computed), then `refused` (the pause is committed) or `model`, then a result. A
settlement inserts a ledger row under session and iteration and moves the meters
only if the row is new. A session keeps `inbox`, `batch` and `stash`; a refused
turn does not advance the iteration. Attempts may be delivered again, and a
stopped or repeated attempt may go on as a stray. A change of the provider is
one statement, the lookup of paused sessions another, and every wake a send of
its own. `told`, `steady` and `crowd` are observations. **ProviderBudgetsMC**
gives every session its own owner.

**LivePlane** composes the five programs between a model call and the preview:
the coalescer and the publisher of a worker (`live`, `pub`), the retained row
with its notification, the relay of the portal (`relay`), the subscription of a
socket (`sub`) and the browser (`viewer`). Durable events (`log`) come to the
browser on a way of their own. A text is its length: 1 is a reasoning without a
message, and lengths in `Large` are too long for a notification and are read
from the row. Every await is a step: the write, the notification, the pointer
read and its answer, the burst of a subscription, its answer, and each update
that waited for it (`SendQueued`). The portal serves subscriptions before its
first LISTEN; that one tells nobody and reads nothing again (`Connect`), only
later ones do (`Reconnect`; `isReconnect`, live-plane.js:112). A behaviour begins
with a portal that listens or with one that has just started, and a portal may
restart with the socket. An event's place in `log` is its time.
`lossy` observes what has happened to writes and reads, `viewer.taken` the last
snapshot that the browser handled since it subscribed, `relay.unheard` the last
write that fell between the burst of a subscription and the first LISTEN.

The proofs about a module are in the module of the same name with `_proofs`:
**SessionMessages_proofs**, **AgentWait_proofs**, **RegenPipeline_proofs**,
**SnapshotProtocol_proofs** (with SessionMemory), **SessionTimers_proofs**,
**ProviderBudgets_proofs**, **LivePlane_proofs** and **WorkFifo_proofs**.

## Runs

| run | instance | shows |
|---|---|---|
| `fifo` | 3 buckets of 2 units, items of 1 and 3 units, 5 items | each item in one place or counted as dropped; arrival order as long as put-backs fit; buckets within their limit |
| `messages` | 2 ids (one kickoff), 3 sends, tombstones, one command of any kind | accounting, order, duplicates only after eviction, tombstones honoured within an execution |
| `messages_settle` | 1 id sent twice, every pair of commands | every accepted prompt settles |
| `agent_wait` | 1 child, 1 prompt, 1 report, 1 command | a wait keeps its poll unless a report or command displaces it; watched waits and shutdowns end |
| `regen` | 2 attempts, every failure, store | epochs counted once, no unproved flip replaced, proof in the store, no stray distiller |
| `regen_ends` | 1 attempt | an attempt flips or is abandoned |
| `snapshots` | 2 workers, 2 turns, up to 3 attempts, 1 regeneration and 1 fault, 4 of these together | the protocol implements SessionMemory; marked files are what the marker says, no dead epoch comes back, memory is given up only to another writer |
| `timers` | every result of a turn and every schedule, any number of turns; 2 messages of any kind | a recurring session has its timer, a wait is served or lost in a known way, a pause does not come back, a wall-clock fire has an occurrence, cron keeps waking |
| `budgets` | 2 sessions and owners, limit 2, shares 50 and 100, 2 prompts, 1 change, 1 fault | charged once, overrun bounded, sleepers listed, refused prompts kept and served |
| `live` | up to 2 turns, 2 model calls, 1 delta and 1 fault, 3 of turns, deltas and faults together; 2 notifications under way | the row ends idle, the newest snapshot arrives and is handled unless it was written before the first LISTEN, nothing that is over comes back, previews grow |

Bounds. Five items fill three small buckets and overflow; `RecentLimit` 1 makes
eviction happen with two ids; `MaxLoops` 2 forces continue-as-news at every
place; one retry reaches retry, hand-off and give-up; two attempts are the
smallest number in which a flip could replace another; one poll before the
deadline reaches both ends of a shutdown. Two turns with three attempts give a
turn a duplicate before, during and after the next turn; one fault (crash,
failing call, unnoticed failure of a delete, lost answer of a commit) may come
at any step of any attempt; one regeneration has a dead epoch to come back.
`MaxWork` bounds attempts, regenerations and faults together: three attempts with
a fault or a regeneration, two with both.
In `timers` turns are not bounded; two messages are what it takes to interrupt a
timer and then the one that took its place, three fires exhaust a schedule after
one that was re-armed. In `budgets` a limit of two is met by two turns that were
cleared together, and one prompt per session is enough because a refused prompt
stays; one fault and one change meet at every pair of steps. In `live` two turns
have two publishers on one row, the final message (length 2) does not fit a
notification and the reasoning does, and two notifications are one that is read
and one that comes during the read. There `MaxWork` bounds turns, deltas and
faults together: two turns with a delta or with a fault, one turn with both (2.4
million states). A portal that has just started counts as a fault.

Larger instances were explored without a violation and are too slow to keep:
`snapshots` without the bound `MaxWork` (1.7 million states), `budgets` with two
faults (2.3 million), two changes (2.8 million) and two prompts per session (5.2
million); `live`, before its burst was taken apart into steps, without the
bound `MaxWork` (6.3 million), with two faults and
one turn (8.6 million), which also reaches a reconnect of the relay without a
subscription or during a burst, and with two deltas (15 million, before the
reload was added); with the first LISTEN in the model, one turn with two faults
(3.7 million). `timers` also passes without a grace period (640,000), as a
child session without a hold window (600,000) and with a grace period of 0
(890,000).

Deadlock is checked in `timers`, where time always goes on, and not in the other
runs: a session that has ended, or that nobody writes to, rests.

Fairness. duroxide keeps executing an orchestration (weak fairness of the
session's steps) and fires armed timers. Strong fairness is used where the code
tries again and again and the world has to help now and then: a turn that is
retried completes, a poll's probes succeed, a stage of the pipeline runs
between two forced continue-as-news, a session that runs turn after turn
completes one at some time (`timers`; otherwise an agent that always asks for
another wait would hold back its cron for ever, which is what it asked for).
In `budgets` workers and orchestrations are weakly fair session by session, and
nothing else is: no change, wake, prompt or end of a window is promised, so that
`RefusedServed` rests on the timer of the pause alone. Clients, children,
distillers and administrators have no fairness: they may be silent for ever. The
distiller's deadline is part of the session's own step. `live` has no liveness
property: `NewestArrives` says what holds when nothing is under way any more,
which needs no fairness.

### Where the documentation and the code disagree

Two runs show a statement of the repository that the code does not keep; the
quotations are in `PROJECT.json`.

- `messages_swept`: "User prompts are never lost". A model switch taken by the
  sweep ends the execution with the popped prompt in memory.
- `budgets_stash_lost`: "Any result other than a gate refusal means the turn
  actually reached the model". When the check of the gate itself fails, the turn
  ends with a result of type error before any model is called, and the prompts
  stashed by earlier refusals are cleared. `RefusedPromptsKept` says that this is
  the only way in which they are lost.

The models show further disagreements, each visible as an exception in a
property that holds, or easily stated on the module:

- a put-back "always should" fit the head bucket (`queue.ts:70`): if the popped
  item was the last of its bucket, the head is another bucket, the item goes to
  the tail and runs after later work (`putBack` in `DispatchedInArrivalOrder`);
- a shutdown ends at its deadline (design.md:455-465): a user prompt clears the
  poll and the awaited ids, and nobody looks at the deadline again (`Watched` in
  `WatchedEnds`);
- "A committed turn is never re-run" (snapshot-store-wins.md:210): the turn key is
  compared with the one probe of the preamble; a restore after it takes over a
  snapshot of the same turn committed meanwhile, and the body runs on top of it;
- a failing grounding turn is never announced as a rebirth
  (session-regen-and-footprint.md:184): results of type error are committed, and
  any snapshot version is proof; and a stashed prompt may replace the bootstrap
  (`session-proxy.ts:1551`);
- a wait the agent asked for is resumed (`turn.ts:748`): it is lost when it was
  interrupted less than half a second before its end (`queue.ts:448`), when the
  gate refuses the turn that interrupted it, or when the late expiry of a hold or
  grace period, or the turn of an answer nobody asked for, takes the slot (`lost`
  in `WaitKept`);
- the budget flag of a pause "survives a continue-as-new"
  (`provider-budgets.ts:222`): `restoreActiveTimer` does not restore it, and a
  child digest and a model switch do not save it, so that the pause is armed again
  after a turn has run (`unflagged` in `PauseNotResumed`);
- a digest of children that are all settled is delivered "immediately"
  (`queue.ts:859`): with a timer armed `drain` parks on it, and a ready digest is
  not a candidate (`Parked`);
- `firesCompleted` counts "exactly once for that scheduled occurrence"
  (wall-clock-cron-at.md:237): a fire that waits in the FIFO while the schedule is
  armed again is taken for the next occurrence, before its time (`leftover` in
  `WallClockOnTime`);
- a recurring session whose turn is cancelled, fails for good or asks a question
  has no timer (`lapsed` in `RecurringAlive`, `CronKeepsWaking`);
- the header of `provider-budgets.ts:22` says "fail open", `session-proxy.ts:1447`
  "FAIL CLOSED", which is what the code does (`GateFails`);
- the wake leaves out sessions whose row says `error` (`pausedFor`;
  `cms-migrations.ts:11019`), which sleep until their timer;
- the late settlement of a turn of an earlier life of a session is keyed by the
  ledger base of the present one (`cms-migrations.ts:14599`), and the failure to
  move that base is swallowed (`system-agents.ts:297`); lives are not modelled;
- "Subscribe before reading the burst so no notification is lost in between"
  (`ws.js:289`): the portal does not wait for its first LISTEN (`server.js:353`),
  and that one refreshes nothing, so that a row written between a burst and the
  first LISTEN comes only with the next write (`unheard` in `NewestArrives`);
- "Reconnects refresh retained topics" (live-plane.md:56): the message that
  precedes the refresh ends the previews of all streams, and the refreshed
  snapshot of the one that still runs is then suppressed (`OnIdle` with no stream,
  `OnLive`);
- late previews are suppressed "after completion" (live-plane.md:61): only those
  of streams the browser has seen; the end of an older turn, on the other hand,
  also closes the previews of the turn after it (`TakeEvent`);
- a repeated end of a turn stops the timer of an ended preview without removing
  it (`EventAgain`; `controller.js:6219`);
- "Clear the retained live row anyway" (`managed-session.ts:3271`): a write that
  fails or times out is not repeated, and a statement may be executed after its
  client has given up (`lossy` in `RowEndsIdle`);
- a subscription that fails is not tried again before the socket reconnects
  (`SubscribeFails`);
- a tombstone is forgotten by a continue-as-new (`forgotten` in
  `TombstonesHonoured`; design.md, section on cancellation, says the set is
  rebuilt);
- a `regenerate` taken by the sweep does not hold back the turn (`regen` may be
  set while `pc = "turn"`; `runtime.ts:256` says no turns);
- with a timer armed, `drain` blocks although the FIFO holds work (`Parked`;
  `runtime.ts:198`);
- a completed session may go on: a report resolves the shutdown within a drain,
  which goes on to a model switch that continues as new (`TakeSetModel` of AgentWait;
  design.md:467);
- a first turn or lossy replay deletes chains: a late attempt of turn 0
  (`CreateFirst`), or one whose recovery failed (`LossyReplay`;
  `session-proxy.ts:1584` says the store is empty then), and at an epoch of 1 or
  more the archived chain of epoch 0 goes while the memory of the epoch is
  overwritten; such chains are in `bypassed`;
- a retry after a throw runs under a new turn key (`Accept`, then `Ask`), so a
  commit that landed before the throw is run again, on top;
- a corrupted transcript takes the sentinel away with the directory
  (`ReplayBody`), so a stop or crash later in the turn leaves files that look clean;
- the eviction of files without a marker writes them to the chain of epoch 0,
  even those of a stopped turn (`Evict`, `dehydrate`);
- a put-back that fits no bucket is dropped (`putBack = "lost"`; `queue.ts:71`);
- `set_model` clears the poll of a wait (`Watched` in `WatchedEnds`);
- a shutdown is finalized when its children are settled, which idle ones are,
  before they have ended (`Live(actual)` need not be empty when `result = "done"`);
- `pendingEpochCommit` is cleared before the rebirth is recorded (`unrecorded`
  in `NoFlipOverwritten`);
- `done` without live children leaves the distiller running (the current
  attempt in `NoStrayDistiller` when `pc = "ended"`);
- without a store a turn refused by the budget gate counts as proof of rebirth
  (`Proven` with `Stored = FALSE`).

## Proofs

TLAPS proves the following for every value of the constants that the ASSUMEs
allow. These are what the code's configuration allows: sets of workers,
children, ids and attempts of any size, limits that are natural numbers (where
the code divides by a limit, loops up to it or compares with `>=` after an
increment, at least 1), and names of commands, results and kinds of messages that
the code knows. Every inductive invariant was checked by TLC on the instance of
its run before it was proved.

**SnapshotProtocol.** `SnapshotsImplementMemory` is the refinement: `Init` maps
to an initial memory and every step to a step of SessionMemory or a stutter.
With it come `FilesAreTrue` (`LocalIsTrue`), `NoEpochReturns`
(`NoResurrection`), `SupersededByAnother` (`SupersededOnlyIfOvertaken`) and
`TypeCorrect`. The inductive invariant `Inv` goes from the worker to the store:
`Alone` is the run-turn lock; behind it the files of a worker are what the
attempt at work found (`Files`, `LocalIsTrue`, `LastOwn`); `Epoched` says that
whatever an attempt of a later epoch builds on is of its epoch; `Markers` that
the store is never behind a marker. The centre is `AllKept`: as long as nobody
has overtaken an attempt, the stored version is its base and the stored memory
is what it runs on, and once its swap has succeeded its body is in the chain
until the answer is taken. From it a conflict means another writer, and a commit
extends the chain by one body. `Contents` (a body is once in a memory) and
`Ordered` (what was told is stored before every body of a later turn) give the
guard of `Tell`. Epochs in `bypassed` are outside `AllKept` and `Ordered`: for
them the code gives no guarantee, and SessionMemory forgets them. There is one
lemma per action and part, and attempts that an action does not touch are dealt
with together (`AttRest`).

**SessionMemory.** `MemoryKeepsItsPromise`: what implements SessionMemory keeps
what was told, in the order in which it was told. The order of two answers
follows from the guard of `Tell` when the later one is given, and from the fact
that a body already remembered gets no second place. With the refinement it is a
theorem about the protocol, `ToldStaysRemembered`: no interleaving of attempts,
crashes and regenerations takes an answer out of the store or moves it before an
earlier one.

**WorkFifo.** `NothingLostOrDoubled` (`EachItemInOnePlace`),
`FirstComeFirstServed` (`DispatchedInArrivalOrder`) and `Typed` (`TypeOK`), for
any number and size of buckets and queues of any length. The three are inductive
together (`Inv`). `Taken` says that two contents of the buckets differ by one
item at one place; every primitive of the FIFO takes an item out or puts one in,
and the lemmas on `Taken` say what that does to ids, order and bytes. The loops
are recursive functions: that each has a value for any number of rounds, and what
holds after every round (`Holds` for an append, `Merging` for the merge of
`decide`), is proved from the least round for which it would fail. A put-back
that fits restores the order of the moment before the pop (`HeadInOrder`); one
that does not is the reason for `putBack` in the property.

**SessionMessages.** `NoPromptVanishes` (`EachPromptAccountedFor`),
`PromptsKeepTheirOrder` (`DispatchedInOrder`), `DuplicatesAreSuppressed`
(`DuplicatesOnlyAfterEviction`) and `TypeCorrect`. A prompt is in one of four
places: among those dispatched, in the hands of `decide`, in the FIFO or in the
stash of a drain, and `Line` is their concatenation. `Inv` says of the places,
pair by pair, what the properties say of the line: numbers grow within a place
and from each to those behind it (`InLine`), the numbers on the way and those
that left it are those given out (`Accounted`), an id is at two places only if it
was evicted (`OnlyOnce`). `Places` says when a place is empty: a drain that could
overtake a held prompt, or a stash left behind by a continue-as-new, would break
the order. `Remembered` ties the FIFO to the duplicate window. Each kind of move
(accept, drop, flush, pop, put back, join, run) has one lemma about sequences of
any length, each action one that names its move. `SpecHonoursTombstones` has an
invariant of its own: every tombstone seen is in `tomb` or `forgotten`, and
`decide` holds exactly one prompt between pop and dispatch, so that the check
made at the dispatch is a check of the prompt that runs.

**RegenPipeline.** `SpecTypeOK`, `SpecCountsEpochs`, `SpecKeepsFlips`,
`SpecStoresProof` and `SpecLeavesNoDistiller`, from one invariant `Inv`. The
strengthening `OneFlipAtATime` says what `pendingEpochCommit` means: while it is
set, its epoch is the current one, the start of the epoch is pending (but while
the record is written), and the CMS has the boundary or the loop has not begun;
while it is not, the CMS is up to date; a pending pipeline excludes it. Without
that neither the count nor the absence of replaced flips is inductive: the gate
of `regenerate` reads `epochStartPending`, not the commit.

**SessionTimers.** `WaitsAreKept` (`WaitKept`), `RecurringSessionsLive`
(`RecurringAlive`), `TypeCorrect`, and the action properties
`PausesAreNotResumed` and `WallClockFiresOnTime`. `Slots` says which timers can
be armed, held and queued together: only waits and pauses are held, and nothing
is held while one is armed, so that resuming a held timer never replaces one.
`NextTurnKnown` extends `RecurringAlive` to every place of the loop outside a
turn; `FlagsKept` counts the pauses without a flag; `Occurrences` says that an
armed wall-clock timer is that of the occurrence the schedule names and that at
most one fire is queued.

**ProviderBudgets.** `LimitsHold` (`OvershootBounded`), `SleepersStayListed`
(`SleepersAreListed`), the action property `RefusedPromptsAreKept`, and
`TypeCorrect`. The bound on the overrun says nothing of turns that will be
charged later; `Bounded` reserves the largest cost of a turn for each turn at
work, strays included. A cleared turn has found the meter below the limit, and a
settlement turns a reservation into a charge, once for each key of the ledger.
`MetersAreRight` (`MetersMatchLedger`) needs what a sum over a finite set is:
that it has a value, that it does not depend on the order in which the rows are
added, and that a new row adds its tokens. Each is proved from a least set for
which it would fail.

**AgentWait.** `WaitsStayWatched` (`WaitsAreWatched`) and `TypeCorrect`. `Inv`
adds that the slot is empty whenever the loop is past its drain, so that no turn
finds a poll to displace, and that a digest, the only thing that ends a drain
with a timer armed, comes from a report.

**LivePlane.** `RowEnds` (`RowEndsIdle`), `NewestReaches` (`NewestArrives`),
`Typed` (`TypeOK`), and the action properties `StaysClosed` (`NoRevival`) and
`NothingShrinks` (`PreviewsGrow`). The worker comes first (`WorkerInv`): the
publishers of later attempts hold later streams, and each writes the texts of a
stream in order, with an idle snapshot behind them; the row owes an idle snapshot
while it shows a running turn. Then what is on its way to the browser: everything
in a notification, a read or a burst has once been the row (`Known`), a step
changes a preview by closing it or by such a message (`View`), and no message
that still counts as new is shorter than what is shown (`Growing`), not even
after a reconnect has reset the sequence filter. Last, `Arriving` says why the
newest row cannot be missed: the last notification is that of the row, a read
that found an older one is followed by something, and an update behind a burst
is left out only when the browser has handled it or a newer one. Either that, or
the row is the write that the subscription missed before the first LISTEN
(`Resolved`). `Relays` says that a portal that has not listened has nothing under
way. The theorems carry the exemptions of their properties: `RowEnds` and
`NewestReaches` want no failed or late write and no restart of the database
(`lossy`), `NothingShrinks` no late statement and no restart.

### What the proofs found

- `NewestArrives` asked that the browser's filter had the number of the row, or
  that the row would change nothing. The second half excused too much: a row that
  was never delivered could satisfy it by chance. It now asks that the row is the
  last snapshot handled since the subscription began (`viewer.taken`).
- The first LISTEN of a portal was taken for a reconnect, and the invariant of
  `NewestArrives` held for that reason alone. `NewestArrives` without `unheard`
  fails when the last text is written between the burst and the first LISTEN.
- The burst of a subscription was one step of `LivePlane`. The browser may lose
  its socket or take events in the middle of it; each message is now a step.

- `SessionTimers` had positive hold windows and grace periods only. Child
  sessions have a grace period of -1 (`client.ts:852`, `turn.ts:1301`), and a
  question then leaves the timer of the schedule in the slot; if the schedule is
  replaced, the resumed cron is of the older one. `RecurringAlive` names that way
  of lapsing.
- The interrupted cron is resumed without a look at the schedule
  (`turn.ts:797`): `TimerFits` holds only as long as the session has not lapsed.
- `NoResurrection` was stated for all epochs and holds from epoch 1 on. A
  session that was replayed has no marker, so that a late attempt of epoch 0
  trusts its files and commits a body of a later epoch to the archived chain.
  TLC finds it with three turns, two attempts and one fault.
- `OvershootBounded` was stated for turns that cost 1; it holds with the largest
  cost of a turn, `MaxTokens`.

### Only model-checked

The liveness properties `EveryPromptSettles`, `WatchedEnds`, `AttemptEnds`,
`CronKeepsWaking` and `RefusedServed`: fairness and ENABLED are out of the
prover's reach. Every other property of the passing runs is a theorem.

The induction theorems of the library take an operator as a parameter, which
the provers cannot instantiate. Where a proof needs induction over data (the
loops of WorkFifo, the sums of ProviderBudgets) it takes the least
counterexample instead: the order of the natural numbers is well-founded, which
the library states without such a parameter.

## Not modelled

Wording of prompts and notices, attribution, attachments, status publishing and
tracing. The calendar of `cron-at.ts` (time zones, daylight saving) and the
binding of sessions to workers. Spawning and messaging of sub-agents. Several
limits of one provider (their verdicts are combined by a maximum), sessions of
the system, which the gate never refuses, model catalogues and credentials. The
topic `native-tasks` of the live plane, patches and signals.

Some paths of modelled handlers are left out or joined to others:

- `TurnCompletes` of SessionTimers: a system sub-agent without a schedule returns
  without a hold and without resuming a held wait (`turn.ts:1161`), and a turn
  that changes packages continues as new at once (`turn.ts:1107`; the prompt it
  carries is `TurnForcesContinue` of SessionMessages).
- SnapshotProtocol: `CreationFails` throws, where a live session lost during a
  creation goes on to recovery or replay (`session-proxy.ts:1575-1664`); the
  timeout of the run-turn lock is not modelled.
- RegenPipeline: what a stage that fails leaves behind in timers and in the
  configured model is not part of its state.
- SessionMessages: `timer` does not say which timer is armed. A prompt leaves it
  or clears it, as it does one kind or another (`queue.ts:444-527`).
- LivePlane: the browser remembers every closed stream, not the last 256
  (`history.js:743`). `ActivityEnds` appends the terminal event in the step of the
  last idle snapshot; `finishTurn` before it gives the two apart, and a
  `WorkerCrashes` between them the missing event.

Two hazards have their behaviour in a model and no property of their own: a retry
that is carried after its prompt was dispatched (`lifecycle.ts:437`; `ran` is
recorded at the dispatch), and the record of a rebirth that fails
(`turn.ts:499`; `unrecorded` is the exemption of `NoFlipOverwritten`).

The frozen versions 1.0.26 to 1.0.78 are copies for replay. Stores, tools,
packages, user interfaces and deployment have no protocol of their own.
duroxide is external: its queues are reliable and ordered, an execution is the
only one of its session, an activity runs at least once.

The share of the repository that the map covers is small and will stay so: of
some 380,000 lines about 200,000 are the frozen copies, and most of the rest is
rendering, migrations that later ones replace, scripts, tools and prompts. Of
`queue.ts` and `turn.ts`, where a session decides what to do, the map covers
four lines in five.

## Plan

Models still worth writing: the sequence of SessionMessages refined by the
buckets of WorkFifo (the lemmas on `Taken` are what its proof would rest on), the
ledger base across restarts of a session, and the spawning of sub-agents.
