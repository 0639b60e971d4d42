# nanite: TLA+ specifications

nanite is a Go server that hosts agent sessions.  A session is driven by an HTTP
API provider or by a CLI runtime process.  Around the sessions sit schedulers,
workers, a mail bridge (tether), recovery, streams to browsers and a store.
This directory specifies the parts whose correctness depends on the order in
which goroutines, messages, timers and crashes happen.

## 1. The parts and who models them

| Part | State | What makes it hard | Module |
|---|---|---|---|
| Generation registry (`service/chat.go`, `cognitive_cancel.go`) with the runtime turn driver, event bridge and lifecycle manager as it uses them | `activeGen` slot per session, `inFlightGen` with predecessor link, boundary flags and channels, `runtimeTurnBinding`, router owner | queued takeovers, stale reads of the slot, bounded waits, tombstones, a send racing its cancellation | `GenerationQueue` |
| Runtime processes of a session (`runtime/agent`, `chat_boot_drive.go`, `chat_session_reboot.go`, `recovery/broker`) | binding, pending launches, recovery lease, run goroutines, observers, retry state | a crash, a retry, a reboot, an archive and a shutdown meeting in any order | `AgentSessions` |
| Stream of a message (`service/stream.go`, `api/messages.go`) | ring buffer, subscriber, SSE registration, handlers, tabs | slow subscribers, reconnects, takeovers, the end racing all of them | `MessageStreams` |
| Index of a session's streams (`service/stream.go`) | concurrent map from session to a locked set | eviction of an empty set racing an insertion | `SessionIndex` |
| Schedules (`scheduler`, `store/schedule_runs.go`, `service/schedules.go`) | fire rows with claim, attempts and acceptance | crash between dispatch and record, stale claims, edits | `ScheduleFires` |
| Tether bridge (`tetherbridge`, `service/tether_*.go`, `store/tether_deliveries.go`) with the wake reactor | delivery ledger, cursor, in-flight set, mailbox | redelivery, crash between stages, lost answers | `TetherDelivery` |
| Workers, background jobs, elicitation, orphan sweep, cognitive admission, workflow activations, loop engine, workflow host | tables and pending maps of their own | | not modelled, see section 5 |
| API, storage, tools, permissions, plugins, MCP, UI, context assembly | | little concurrency of their own, or strings and I/O | not modelled |

The parts meet as follows.  A turn registers with the registry, waits for its
predecessor, looks up or boots its process, sends its prompt and writes its events
into its message's stream, which the browser tabs of the session follow.  Mail and
schedules start turns of their own through the same registry.  A process that dies
is handed to the recovery broker.

`PROJECT.json` lists every part with its status, and every hazard with the line
where it bites.

## 2. Modules

### GenerationQueue: the generation registry of one session

`GenerationQueue.tla` models one session: the `activeGen` slot and up to `N`
generations, each with its goroutine (`pc`, from `runGeneration`), its
`inFlightGen` fields (`bnd`: predecessor, cancelAsked, cancelIssued, cancelSafe,
retainUnsafe, safeBoundary, unsafeRoot), its watchers (`obs`), its cancellation
worker (`cw`, from `finishClaimedCancellation`) and its runtime turn (`turn`, from
`runtimeTurnBinding` and the router).  The session wrapper (`live`, `stopping`,
`entry`), the router table (`router`), user stops (`stop`) and the life of the
process (`life`) complete the state.  `hit` and `Turn.cut` are history: the turns
interrupted on another's behalf, and whether a turn was cut off while open.

The actions follow the lock sections of the code: what happens under one hold of
`activeGenMu`/`turnMu` is one action, and every channel wait, unlock or call into
the runtime is a boundary between two.  `waitForPredecessor`, for example, is
`PredecessorDone`, `PredecessorIssued` and `ReadBoundary`, because the generation
may be cancelled, and its predecessor marked, between the three.

Data is left out: prompts, messages and events are not represented, a turn is open
or not.  A bounded wait may expire when the switch `SlowTurns` (waits on another
generation) or `SlowRuntime` (waits on the runtime) is set; without it the wait is
long enough.  `MayFailHistory` enables the error return of
`completeWorkingHistory`, `MayShutDown` the shutdown of the process.

`TurnQueue.tla` is the abstract specification: turns are queued, run one at a
time in the order they were queued, and end or withdraw.

### AgentSessions: the processes of one session

`AgentSessions.tla` models the `SessionManager`'s state for one session id (`bound`,
`pending`, `lease`, `closed`), each process's run goroutine and `Boot` call (`run`,
`boot`, `dismissed`), the turn that looks a process up or boots one (`turn`), the
observers that hand a crash to the broker (`obs`), the broker's `OnSessionExit` calls
with their retry count (`call`, `attempts`), and reboot, archive and shutdown.  A
process is a `*Session`; one that nothing refers to may be booted again under the
same name, so `Procs` bounds what exists at once and not how often a boot happens.
`evicted` is history: running processes whose binding a cold boot took.  `Scenarios`
says which of a broken stream, a turn that stops its process, a reboot, an archive and a
shutdown meet in one behaviour; crashes and retries happen in all of them.

Two kinds of stop are told apart.  A process is *dismissed* when its own `Boot`, an
adoption, a reboot, an archive or `Shutdown` tells it to stop; these leave a flag or a
binding by which its observer knows the exit is no crash.  A turn that is canceled, or
whose send failed, stops its process too (`TurnStops`, from `finishClaimedCancellation`
and `cleanupFailedRuntimeSend`), but flags nothing: the exit of that process is handed
to the broker like any other, and the model follows the recovery that comes of it.  A
reboot whose `Stop` fails takes its flag back (`RebootGivesUp`): from then on the
process is dismissed no longer, and an exit, be it for that `Stop`, is a crash.

### MessageStreams: the events of one message on their way to the tabs

`MessageStreams.tla` models `messageStream` (`produce`, `buf`, `nextID`, `closed`,
`subscriber`), the SSE registration (`sse`), the handlers of the connections (`conn`)
and the tabs (`tab`, with what they received and what they were told they will not
receive).  Event contents are left out; an event is its number and whether it is the
`stream_end`.  The code replays by filtering the ring for ids above the cursor.  The
ids in the ring rise by one (`RingOK`, proved), so the events that pass the filter are
a suffix, and `Replay` is written as that suffix.

### SessionIndex: which streams a session has

`SessionIndex.tla` models `sessionToMsgs`: each access to the concurrent map is a step
and each locked section of a `sessionStreams` set is a step, since a pointer loaded in
one may be stale in the next.  `cast` is a session broadcast that reads the index.

A turn that ends before it runs (`EndEarly`: its predecessor did not let it pass, or its
history could not be read) closes its channel, and nothing schedules the cleanup of its
stream.  If it did not queue, its id stays in the index for good (`Stranded`), and
`HasLiveStreamForSession` answers true although `service/stream.go:522` says that it
means a turn in flight or in its grace window.  Stranded turns are in the model, where
they keep the set from ever becoming empty; `IndexExact` says nothing of them.

### TetherDelivery: mail for one durable actor

`TetherDelivery.tla` models the bridge that carries mail from the Tether daemon to
an actor's session: the watch and the sweep goroutine of `tetherbridge.Loop` (`h`,
`stream`), the ledger `tether_deliveries` and the stored cursor (`ledger`,
`cursor`), the daemon's side (`sent`, `unread`, `receipt`), and the host: the
actor's bound session, turns in flight, the mailbox and the wake reactor (`bound`,
`started`, `ended`, `busy`, `inbox`, `react`).  `woken` is history.

`Handle` is one action per call it makes (resolve, start a session, claim, record,
inject, wake, receipt, close), because the other goroutine runs and the process may
die between any two.  A call to the daemon that fails may have been carried out.
Failed calls, crashes, archived sessions and turns of other origin all count
against `MaxFaults`.

### ScheduleFires: agent schedules and their durable fires

`ScheduleFires.tla` models the tables `actor_schedules` (`sched`) and
`actor_schedule_runs` (`fires`), the engines that drive them (`eng`), operators who
pause or patch a schedule (`edit`), and the terminal observations (`observed`,
history).  The engine is the library go-scheduler: the order of its calls is taken
from the interfaces this code implements for it, and the store's SQL updates, the
runner's receipt and the observer's policy are translated from the code.  Every
`UPDATE ... WHERE` is one action whose guard is the WHERE clause.  The engine disables a
one-time schedule after a successful dispatch, as `store_adapter.go:532` says of it.
`on_fail` is not part of the state: after an exhausted fire the observer disables the
schedule, or leaves it active as the policies retry and notify do.

Time is counted in occurrences.  A claim is named by its number, where the code has
the timestamp `fired_at`: two claims of one fire are taken to have different
timestamps.  A retry delay or a lease may run out at any time; a lease that runs out
while its owner is still at work counts as a fault.

### Models for TLC

`MCScheduleFires` and `MCSessions` run one specification.  The others run several side by
side, with a variable `part` that is chosen at the start and never changes, so a
behaviour is one of one scenario: `MCGenerationQueue` (a chain of three API turns, a
runtime turn with another), `MCGenerationTurns` (timeouts, shutdown), `MCGenerationLive` (three turns without timeouts, two with), `MCDelivery`
(mail, tabs) and `MCSettle` (mail, tabs, index, shutdown of processes).  Where fairness
is assumed, actions of different scenarios share one fairness condition; as only one
scenario is ever enabled, this is the fairness of each.

## 3. What TLC checks

| Run | Instance | Properties | Shows |
|---|---|---|---|
| `queue` | 3 API turns, or 2 turns with one on the runtime where history may fail; one user stop at a time, waits on turns may expire | `MutualExclusion`, `StopReachesAll`, `QueueInv`, `ImplementsTurnQueue` | one loop at a time, in order of registration; a stop reaches every unfinished generation |
| `turns` | 2 turns on the runtime with exact cancellation, every wait may expire; and two, one of them on the runtime, with a shutdown at any moment and no user stop | `TurnInv`, `TurnExclusive`, `IssuedBoundary`, `TombstoneLifts` | prompts never overlap in the runtime; a safe verdict comes only after the turn's terminal; a tombstone is lifted only then |
| `live` | 3 API turns, one stop, no expiry; and 2 turns, one on the runtime, with every expiry | `SlotFrees`, `EveryTurnEnds`, `CancelAnswered` | the slot is always released where no wait expires; `done` and `cancelIssued` always close |
| `sessions` | 3 processes, 1 retry, with a broken stream and turns that stop their process, or reboot and archive, or reboot and shutdown | `SessionTypeOK`, `NothingLeaks`, `RecoveryExclusive`, `DismissedIsNoCrash`, `ShutdownLeavesNone`, `SessionInv` | no process is lost track of but by a cold boot; a recovery excludes a binding; a dismissed process is no crash; shutdown leaves nothing |
| `delivery` | mail: 2 messages, 2 goroutines, a fault; tabs: 2 tabs, 2 connections, 3 events, a ring of 2, a drop | `NothingLost`, `ConsumedMeansDelivered`, `OneMailboxRow`, `StreamInv`, `NoSilentLoss`, `InOrderOnce`, `TakeoverTold`, `ReplayFits` | no mail is lost, no receipt runs ahead of the delivery, injection is idempotent; a tab misses nothing unawares, gets nothing twice, and a tab that is displaced is told so |
| `settle` | mail with a refused sender, tabs, an index of 3 turns with a broadcast, the shutdown of 2 processes | `BridgeInv`, `RejectedNeverWakes`, `IndexInv`, `IndexExact`, `BroadcastReachesTurn`, `Settled`, `TabsSettle`, `ShutdownEnds` | every message is consumed or closed, every tab is done in the end, Shutdown needs no deadline; a refused sender wakes nobody and is dead-lettered; the index is exact but for stranded turns |
| `fires` | 2 engines, a cron or one-shot schedule, 2 occurrences, 2 attempts, a fault, an edit | `TypeOK`, `OneOutcome`, `LeaseExclusive`, `ReceiptRespected`, `FireInv`, `PausedNeverFires`, `FireSettles` | claims are exclusive, a fire is decided once, receipts and pauses are respected, every fire settles |

Five runs show the code departing from what it says of itself (`findings` in
`PROJECT.json` quotes the lines):

| Run | Property | What happens |
|---|---|---|
| `slow_stop_wedge` | `SessionFrees` | a cancellation worker whose wait expires just before its predecessor becomes safe roots the tombstone in its own generation; no watcher lifts it and the slot is never released |
| `stale_stop` | `NoBystanderHit` | a user stop reads the slot, the generation finishes, and the stop then interrupts the successor's turn in the shared session |
| `one_turn` | `OneTurn` | the ledger write after a wake fails; the retry wakes the session again, so one message starts two turns |
| `stale_patch` | `DueFires` | a patch overlapping the creation of a fire writes the old `next_run` back; the fire of that time exists, so the schedule stays due and never fires again |
| `orphan` | `NoneUntracked` | the broker adopts a replacement between a turn's two looks at the binding; the turn unbinds it and boots another, and the replacement runs on with nobody to stop it |

### Bounds

* `N` generations.  Two suffice for what one turn does to the next; three are needed
  for a chain, where the one in the middle finishes, withdraws or is cancelled while
  its neighbours wait.
* `StopOps` selects the cancellation entry points: the user's stop, which reads the
  slot and claims the chain in two steps, and the exact cancellation of one turn.  One
  user stop is under way at a time, and the next may begin when it is over.
* `Procs`: three processes are the one that died, its replacement and the one a turn
  boots meanwhile.  `MaxRetries` 1 has a retry and an exhausted budget.  The scenarios
  pair the happenings that interfere; all of them at once are out of TLC's reach, and the
  proofs hold for any set of scenarios.
* `Ring`, `Headroom`, `ProduceCap` and `MaxEvents` stand for 128 or more in the code.
  Three events overrun a ring of two and a channel with room for one, so a replay with a
  gap, a slow subscriber and a full producer all happen; two tabs take the stream over
  from each other, and one lost connection brings one back.
* `MaxMessages` 3: one turn leaves the index empty, one enters, one watches.
* `MaxFaults` bounds everything that goes wrong outside the code, `MaxEdits` what
  operators do.  The proofs hold for every number of faults.
* `MaxAttempts` is 2, which has a retry and an exhausted budget; `GiveUpAfter` stands
  for `4 * MaxAttempts` and is lowered with it.
* `MaxTime` is 2: a second occurrence comes due while the fire of the first is in
  flight.
* Symmetry of messages, tabs and processes is used in the safety runs `delivery`,
  `sessions` and `orphan`, where no element is treated specially; the runs with liveness
  properties use none.

Deadlock is not checked: a session whose turns are over, a mailbox that is empty, a
message that has been read and a schedule that has expired are at rest.

### Fairness

* `GenerationQueue`: every goroutine that can take a step does (weak fairness per
  goroutine); a stopped process exits, since `Stop` kills after its grace period, and
  a send into a process that is gone returns.  Nothing is assumed of users, of a live
  runtime, or of shutdown.
* `TetherDelivery`: the goroutines run; deferrals run out; turns end.  `Resume(m)` has
  strong fairness: a sweep walks over all due rows, so a row that is due at one sweep
  after another is visited although others keep the goroutine busy between.
* `MessageStreams`: the generation ends and closes its channel in the end, the pump and
  the handlers run, and a tab that lost its connection tries again; a reconnect has
  strong fairness, as it is repeated while connections come and go.
* `AgentSessions` (in `settle`): the run goroutine of a process that was told to stop
  returns, and Shutdown's goroutines run.  Shutdown's deadline is not part of the
  fairness, so `ShutdownEnds` says that Shutdown does not depend on it.
* `ScheduleFires`: an engine that has begun something goes on (unless it crashes);
  listing a due schedule or fire has strong fairness for the same reason as `Resume`,
  every tick lists all of them; a patch that has read its row writes it.

## 4. What is proved

TLAPS checks the following for every value of the constants, from the assumptions named
in the modules, which only say of what kind the constants are.  Each invariant that is
proved inductive is also an invariant of a run.

**The registry** (`GenerationQueueTypes`, `GenerationQueueProofs`).

* `TypeCorrect`: `TypeOK`, with every failure and shutdown enabled.  It includes that no
  code path follows a nil predecessor.
* `QueueInvariant`, and from it `OneLoop`, `ChainHolds`, `StopReaches`, until the process
  is down (`Down`), so through the claims and stops of a shutdown as well.  Once it is
  down, the wait for the predecessor is cancelled on purpose, and mutual exclusion is
  given up.  `MutualExclusion` is not inductive: that a generation past its wait is alone
  holds because registration orders the generations, each waits for the one the slot
  named, and the slot is never released over an unfinished generation.  `QueueOrder` says
  this, and `QueueInv` that it holds until the process is down.  Most actions leave that
  state alone (`Frame`) or move one generation forward within its turn (`MovesOn`);
  launch, the end of the wait, the close of `done` and deregistration have a lemma each.
* `StopReaches` is about the recursive `ClaimChain`, and is proved by induction on the
  generations.  Links point to older generations, so the walk along them is defined
  (`WalkEnds`, `ChainUnfolds`) and goes on at an unfinished predecessor (`ChainClosed`).
  The newest generation the walk missed would be such a predecessor, by `ChainUnbroken`.
  The induction picks a least or a newest counterexample (`LeastNat`, `NewestGen`), from
  the library's `WFMin`, which needs no operator parameter.
* `Refinement`, for a process that is never shut down (`~MayShutDown`): the goroutine's
  phase is mapped to the turn's phase in `TurnQueue`.

**Turns in the runtime** (`GenerationTurnsProofs`): `TurnInvariant`, and from it
`TurnsExclude`, `IssuedStaysOver`, `TombstonesHold`, for every setting of the switches,
shutdown included.  The router alone does not keep two prompts apart, because the cleanup of
a failed send gives it up while the prompt may still be open; nor does the queue, because a
generation whose wait for its turn expired leaves the queue with the turn open.  What does
is that every party that lets a later generation pass has made sure of the earlier ones.
`Quiet(g)` says that `g` will not enter the runtime any more (`Barred`), and that if its turn
is open still, it is one that `SendInput` returned from, which holds the router.  `Over(g)`
says that the turn is not open and off the router.  Nothing takes either back (`Lasting`), so
it is safe to act on an old verdict.  `TurnInv` says which state vouches for what: a closed
boundary and an empty slot for everything up to the generation, a missing predecessor link
or a worker whose predecessor answered safe for everything before it, a retained root for
everything after the root, a safe issued boundary for `Over`.  The one step that opens a turn
finds everything before it quiet and the router its own, so no other turn is open.
A lemma per action shows `TurnInv` kept; `OneStep` reduces an action that touches one
generation to that generation, and the claims of a whole chain have lemmas of their own.

**Processes** (`AgentSessionsProofs`): `SessionInvariant`, and from it `SessionTypes`,
`ProcessesTracked`, `LeaseExcludesBinding`, `DismissalsAreNoCrashes`, `ShutdownIsComplete`.
`SessionInv` adds to the properties that every boot has one caller (`OneCaller`), so an
adoption cannot meet a second one of the same process; that a bound process that was
dismissed carries a flag its observer will see until admission closes
(`DismissalsFlagged`), which is why its exit is not taken for a crash; and that an observer past its wait has
seen its process reaped (`CoreInv`).

**Streams** (`MessageStreamsProofs`): `StreamInvariant`, and from it
`NothingLostSilently`, `OrderedOnce`, `TakeoverIsTold`, `ChannelsFit`, for any number of
tabs, connections, events, drops, and any capacities.  The step that matters is the
subscription: replay and live events are joined under one lock, so there is a number `b`
such that the tab has, or is being told to miss, everything up to `b`, and its channel
holds `b+1`, `b+2`, ... up to the last event there is, if it is fed (`Continues`).  Every
later step keeps this: the pump appends the next number or closes the channel, a
handler moves the head of the channel to the tab, and a dropped connection leaves the
tab with its cursor, which is all a new subscription needs.  The lemmas about `Chain` and
`Reach` at the start of the module say what an append and a removal do to such a channel,
and `ReplayIs` what the replay of a ring is.

**Index** (`SessionIndexProofs`): `IndexInvariant`, `IndexIsExact`, `BroadcastReaches`.
`IndexInv` says that every set but the mapped one is empty, so a message added through a
stale pointer would be lost: and that a message inside keeps its pointer current, so only
an insertion can hold a stale one, and an insertion looks at the map again under the lock.
A stranded turn may be inside still, so the sets are described by `Held`, which admits it.

**Mail** (`TetherDeliveryProofs`): `BridgeSafe`, and from it
`BridgeTypes`, `MailIsKept`, `ReceiptsAreTrue`, `InjectIdempotent`, `RefusedStaysOut`, for
any number of messages, faults and crashes.  The argument of `BridgeInv`: `begin` keeps the
two goroutines off each other's message, so what a goroutine read before a call (the row is
open, the mailbox has no row yet, the sender was accepted) still holds when it acts on it
(`HandlerOK`); each write to ledger, mailbox and receipt then keeps the three in agreement
(`MessageOK`).  A lemma per call of `Handle` says that it does.  That a refused message is
dead-lettered before its row is closed holds as long as no call fails (`Buried`): the code
closes the row whether or not the nack got through.

**Schedules** (`ScheduleFiresProofs`): `FireTypes`, `FireInvariant`, `ClaimsExclusive`,
`OutcomesOnce`, `ReceiptHonoured`, `PausedSilent`: all the safety properties of `fires`.  The
inductive invariant is `TypeOK` with `FireInv`.  A won claim is younger than every claim an
engine still has; so only one engine has the row's claim, the fences of receipt and
transition admit that one only, and a settled row matches no fence.  The types need the
claims too: the attempt count stays within bounds because a fire is retried under its own
claim, with an attempt left.

Every safety invariant, every action property and the refinement that the passing runs
check are proved.  Only model-checked:

* liveness, which needs fairness and `ENABLED`: `SlotFrees`, `EveryTurnEnds`,
  `CancelAnswered`, `Settled`, `TabsSettle`, `ShutdownEnds`, `FireSettles`.

## 5. Not modelled, and not claimed

* Text, prompts, events, files, SQL beyond the updates named, HTTP, the browser
  client and policies over strings: no concurrency of their own.
* The library engines (go-scheduler, the workflow engine), but for the order of the
  calls they make.
* Worker manager, background jobs and elicitation: tables and pending maps of their own,
  which no modelled part reads.  The loop engine and the workflow host drive an external
  engine.  Workflow activations repeat the updates of schedule fires on other tables.  The
  orphan sweep maintains a status column that no modelled part decides by.  Write claims
  are text detection without state.
* In the registry and the turn driver: slot assembly, payloads, the FIFO of turn owners
  inside the event sink, `ClearConversation`, the drain accounting inside the lifecycle
  manager's Shutdown.
* Of the processes: the `agent_runtime` row, the fresh or resume mode of a boot after a
  reboot, boot directories, owners that are not chat sessions
  (`ExternalLifecycleObserver` false), a deployment without a recovery broker, what the
  classifier and the remediations do inside, the retry of HTTP providers.
* Of the streams: presence clients, the plugin envelope counters, the request checks before
  a subscription.
* Of the bridge: several actors, the relay of answers and the quiet period for unknown
  addresses.  Of the schedules: the manual `RunDue` path, creation, deletion and pruning.
* `ShutdownBegins` in the registry takes several steps of the code at once: closing
  admission, claiming each chain under its lock and telling the runtimes to stop.  What
  other goroutines do between these is not explored; the order in which a shutdown takes
  admission, bindings and launches apart is, in `AgentSessions`.
* Whether a process that a turn stopped ought to be recovered: the broker is told of its
  exit, and no comment says whether that is meant.
* The comment at `tetherbridge/loop.go:192`, that the inbox read has already marked the
  envelope delivered and a failed ledger write loses mail, describes a read that the code
  no longer makes: list and watch leave the message unread, and `NothingLost` holds when
  the write fails.
* A shutdown that drains every goroutine is not claimed: `lifecycle.Go` drops a
  cancellation worker offered after the close, and the generation it served waits for
  `cancelIssued` without a bound.
* A job may be dispatched twice when its receipt is not written; the code narrows that
  window and cannot close it.
