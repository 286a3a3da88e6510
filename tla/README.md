# Verification of director

This directory holds TLA+ models of director, a Go library that keeps the
configuration of a fleet of service replicas in step with a Directus (or file)
data source, together with the TLC runs that model-check them and the TLAPS
proofs about them. Paths below are relative to `src/`.

    tlc -workers 4 -config es_faults.cfg MCEventualSync   # any of the .cfg files
    tlapm EventualSyncProofs.tla                          # any of the *Proofs modules, TLAPS

## 1. The system

Every replica of a service embeds one `Manager`. Replicas share a Postgres
database and, optionally, a notify channel and a cache. They have no other way
to talk: they agree by reading and writing rows, and by broadcasting events
that may be lost.

| Part | Code | State | Operations |
|---|---|---|---|
| snapshot store | `storage/postgres` | `config_snapshots` (status pending, active, inactive, failed per collection and version), `config_apply_log` (status per instance and version), the session-level advisory lock | save, activate (one transaction), read active version or snapshot, fail, prune, log an apply, acquire and release the lock |
| sync cycle | `manager/sync.go` | locals of a cycle | `leaderSync`: check version, fetch and stage, save, activate, apply, publish, cache, log, wait for confirmations |
| two-phase cycle | `manager/sync.go` | staged values, round IDs | `leaderSync2PC`: save, prepare, count votes, activate or abort |
| catch-up | `manager/sync.go` | - | `followerCatchUp`: probe the active version, read the snapshot, swap |
| event handlers | `manager/sync.go` | - | sync, rollback, prepare, commit, abort |
| startup and run loop | `manager/manager.go` | phase, run-loop channels | register, subscribe, load cache, load storage, bootstrap; poll, reconcile, heartbeat, WebSocket, event, `SyncNow`, stop |
| registrations | `manager/registration.go` | version and staged value of each config | `fetchAndStage`, `commitStaged`, `swapFromBytes`, `prepareFromBytes`, sweep |
| registry | `registry/postgres` | `config_instances` | register, heartbeat, deregister, collect stale |
| notify | `notify/postgres`, `notify/redis` | subscriptions with 16-slot buffers | publish to every subscription (the publisher's too), reconnect, close |
| cache | `cache/redis`, `cache/memory` | an entry per collection | get, set, under five strategies |
| config values | `config/` | current value, hooks, views, indexes | swap, read, subscribe, recompute |
| source | `source/`, `directus/` | last-modified time, items | last-modified, fetch, WebSocket change events |
| operator | `docs/rollback-runbook.md` | a psql session | freeze, flip, announce, verify, release |

How they interact. A cycle runs under the advisory lock; whoever holds it is
the leader, for one cycle. The leader *decides* by activating a snapshot row;
only then does it apply the value, broadcast a sync event, write the cache and
log. Followers act on the event, or notice the new active row at the next
reconcile tick. All the automatic paths are forward only. The operator moves
the fleet back by holding the lock, flipping the active row by hand and
broadcasting a rollback event, which the handlers apply in either direction.

What is hard:

- *Atomicity.* The source's time and its content are two requests
  (`sync.go:300`); catch-up probes, then reads (`sync.go:125`); an activation is
  a transaction of two statements under READ COMMITTED (`postgres.go:72`).
- *Failure.* A leader may die, or get an error from a call that did take
  effect, between any two of its writes. A panicking hook reports an error with
  the new value live.
- *Leadership.* The advisory lock belongs to a Postgres session. When the
  session drops, its holder is not told and goes on.
- *Delivery.* Events are dropped by full buffers and broken connections, and
  arrive long after what they announce was superseded.
- *Time.* Versions are timestamps. They come from the source, from the clock
  when a WebSocket event forces a cycle, and go back when items are deleted.
- *The operator* acts in the middle of it, on replicas that start, crash and
  miss events.

What makes each part correct:

- cycle and handlers: nothing is served, announced or cached before it is
  decided; replicas move forward only; all of them converge on the source;
- store: one active row, never pruned; a version names one payload;
- lock: cycles never overlap; the lock is always given back;
- rollback: the freeze keeps leaders out; a rollback the query shows as
  complete is complete;
- two-phase mode: no round is decided that a live target refuses; an aborted
  round leaves the active row alone and is retried; what a follower staged is
  what the store holds;
- lifecycle: what `Start` starts, ends, when `Stop`, the context or a closed
  channel says so; a running replica is listed in the registry, a stopped one
  is not; no accepted request and no received change is forgotten;
- views: a view never misses the last swap, and computes what it is meant to.

`PROJECT.json` lists the components with their state of coverage, and the
hazards at the lines where they bite.

## 2. The modules

    SnapshotStore <- Cluster <-+- EventualSync <- MCEventualSync
          ^                    |        | (INSTANCE)
          |                    |        v
          +----------------------- ConfigPropagation
                               |        ^
                               |        | (INSTANCE)
                               +- TwoPhaseSync <- MCTwoPhaseSync

    Lifecycle <- MCLifecycle          Queries <- ConfigViews <- MCConfigViews

    Cluster <- ClusterProofs <-+- EventualSyncProofs <- ActiveProofs
                               +- TwoPhaseSyncProofs <- RoundProofs

    Lifecycle <- LifecycleProofs

    Queries <- QueriesProofs <-+- ConfigViewsProofs
    ConfigViews <--------------+

An arrow points to the module that is extended or instantiated from.

- **SnapshotStore** - the versions (`config/version.go`) and the snapshot table.
  Every operator is one SQL statement or transaction of `storage/postgres`, as
  a function from table to table.
- **Cluster** - everything the two sync modes share: the variables, the
  environment (source edits and deletions, faults, the operator), startup, the
  run loop, the first steps of a cycle, catch-up, and the handlers of sync and
  rollback events.
- **EventualSync** - the default mode: the rest of `leaderSync`, `Next`, the
  fairness, and the properties.
- **TwoPhaseSync** - the strict mode (`RequireUnanimousApply`): the rest of
  `leaderSync2PC`, the vote, `abortRound`, the handlers of prepare, commit and
  abort, the staged values and their sweep, and who is alive in the registry.
- **ConfigPropagation** - the abstract specification: versions are decided one
  at a time, and a replica serves nothing or a decided version, advancing among
  them except when it reloads an active one. Both modes implement it; the
  strict one with `LateCommits`, since a commit event is obeyed in any order.
- **Lifecycle** - the shell of one manager: `Start` and its run loop, the
  heartbeat goroutine, `Stop` and `SyncNow` from other goroutines, the
  subscription, the WebSocket reader, and the registry row. A cycle or a handler
  is a stretch of time in which the run loop is busy; what it does is in the
  modules above.
- **Queries** - the pure functions: filter options, the projections of the view
  types, translation lookup, the merge of a composite view, the diff by key.
- **ConfigViews** - a collection or singleton, its hooks, the six types of views
  derived from it with their persistence, and a consumer that follows it by
  diffs.
- **MC...** - the values of the constants for TLC.
- **...Proofs** - the theorems, and the lemmas they rest on (section 4).

### State and actions of the sync modes

| Variable | In the code |
|---|---|
| `source` | what `source.LastModified` and `List` would return now |
| `now` | the clock that source edits and forced cycles stamp versions with |
| `rows` | `config_snapshots`, for the one collection followed |
| `applyLog` | `config_apply_log` |
| `lock` | the session that holds the advisory lock |
| `cache` | the cache entry |
| `inbox[r]` | the subscription buffer of replica r |
| `pc[r]` | where r's goroutine is; "down" when it does not run, "idle" when it waits in the `select` of the run loop |
| `mem[r]` | `reg.version()` and the value that readers get |
| `job[r]` | the locals of the cycle or handler in progress |
| `op` | how far the operator is in the runbook, the target, and the replicas that started since the announcement |
| `decided` | history variable: every version that was ever activated |
| `faults` | a bound: the faults so far |
| `alive` | `TwoPhaseSync`: the instances that `AliveInstances` would list |
| `staged[r]` | `TwoPhaseSync`: the stages of r's registration, by round ID. A leader's own stage is the payload in `job`: only its cycle commits or drops it |
| `ballot[r]` | `TwoPhaseSync`: the round that r leads, its target set, and who was alive at the latest count |

A replica runs one goroutine: `Start`, then the run loop. A handler is cut into
steps where it reads or writes something that another process can change - a
database statement, the cache, the channel - and between two such steps anything
else may happen, a crash included. What touches only the replica's own memory
belongs to the step before it. A few accesses that follow each other are one step
all the same:

- A swap with the read before it and the log write after it (`CatchUpApply`,
  `HandleSync`, `HandleCommit`). What was read was decided, and nobody but
  this goroutine changes what the replica serves or takes its events, so the swap does
  the same if others act in between; and this goroutine does nothing between
  the swap and the log write, so a late write shows no more than an event taken late.
  The rows that a decision rests on are written in steps of their own (`Answer`,
  `RecordRollback`).
- The cache write and the log write at the end of a cycle (`CacheAndLog`): the cycle
  is decided, and no reader of the one reads the other.
- The target set and the leader's own answer (`TakeTarget`), which only this leader
  counts.
- The refusals and the consents of one count (`Vote`). A row that changes between
  the two queries gives the outcome of a count made before or after the change, or
  one more round of counting.
- The two reads of `repairCacheEntry` (`RepairCache`): an entry that a rollback handler
  adds in between is overwritten, like one that it adds right after the second read.
  The write is a step of its own (`WarmEntry`).

| Action | Code |
|---|---|
| `Start`, `LoadFromCache`, `LoadFromStorage`, `Boot` | the startup sequence of `Manager.Start` |
| `ReconcileTick`, `SyncCycle`, `ForcedCycle` | the cases of the run loop's `select`: reconcile tick, poll tick or `SyncNow`, WebSocket event |
| `FetchVersion`, `FetchAndStage`, `Save`, `Begin`, `Decide`, `Apply`, `Publish`, `Record`, `Finish` | `leaderSync`, in order. `Reports` is `MaxDateUpdated`, which answers a failed query by the creation times or by the zero time, without an error |
| `ResetApplyLog`, `TakeTarget`, `PublishPrepare`, `ReadAlive`, `Vote`, `Begin`, `Decide`, `AnnounceCommit`, `Apply`, `Record`, `AnnounceSync` | `leaderSync2PC` after its save, in order. A count reads who is alive first and the answers next (`checkPrepares`), and is repeated until the round is carried, refused or out of time |
| `AnnounceAbort`, `CheckActive`, `FailRow` | `abortRound`, `failSnapshotUnlessActive` |
| `HandlePrepare`, `Answer`, `HandleCommit`, `HandleAbort`, `Tick` | the follower's side; `Tick` is a reconcile tick with `sweepExpiredStages` |
| `Register`, `Heartbeat`, `Expire` | the registry rows that make the target set |
| `RepairCache`, `WarmEntry` | `repairCacheEntry`, and `warmCacheIfMissing` in manual mode |
| `CycleFails`, and the `Fault("call")` branches | the error returns; a call that fails may have taken effect. A lock that cannot be asked for is one that was not acquired (`NotAcquired`); a log or cache write that fails is only logged (`TryLogApply`, `CacheAndLog`) |
| `CatchUpProbe`, `CatchUpApply` | `followerCatchUp` |
| `DropEcho`, `HandleSync`, `HandleRollback`, `RecordRollback` | `handleEvent` and its handlers |
| `Maintain` | `runMaintenance`: retention |
| `Freeze`, `Flip`, `Announce`, `Verify`, `Release` | the steps of `docs/rollback-runbook.md` |
| `Crash`, `Die`, `LoseEvent`, `LoseSession`, `EvictCache`, `SourceUpdate`, `SourceDelete` | the environment |

### Lifecycle

| Variables | In the code |
|---|---|
| `phase`, `ctx`, `canCancel`, `stop`, `once` | `m.lifecycle`, Start's context, `m.cancel`, the progress of `Stop`, `deregisterOnce` |
| `main`, `then` | where the goroutine of `Start` is, and where it goes on after the cycle or handler in progress |
| `beat`, `row` | the heartbeat goroutine; the instance's registry row |
| `slot` | `m.syncRequests` |
| `notifier`, `listener`, `queued` | the notify channel, the goroutine behind a subscription and its buffer |
| `client`, `reader`, `watching`, `wsQueue`, `poll`, `pending`, `timer` | the WebSocket client, its reading goroutine, `wsEvents`, the poll ticker's interval, `pendingCollections`, the debounce timer with its channel |
| `unserved`, `unsynced`, `upset` | history: a request without a cycle since, changes without a forced sync since, what may excuse a row that stays |
| `events`, `rare` | bounds |

`Enter` to `NoWatch` are `Start` in order; `Looping` has one action per case of
the `select`; `Leave` and `Unwind` are Start's deferred calls; `Announce`,
`StopDeregisters` and `StopCancels` are `Stop`; `Renew`, `CheckPhase`, `Rejoin`
and `BeatEnds` are the heartbeat. Each is a step of its own because the others
run between them.

### Views

A `Swap` publishes, captures the list of hooks, then calls them one by one
(`Publish`, `Capture`, `CallHook`). An entry that was unregistered is passed over,
and so is one that panics (`Passed`). Constructors are cut where they read the
config, compute and subscribe (`Steps` says in which order each type does);
`Close`, `Watch`, `Saved` and `Restart` may come between any two of these. A
hook recomputes its view under the view's own lock, so that is one step.
`Unread` is the one place where a goroutine reads what another has not
synchronised with: a `Close` that races the first hook call of a swap may be
seen by it or not.

A definition whose comment begins "Seeded bug" is never part of the
specification. It is a variant of a definition with a plausible mistake in it;
putting it in the place of the right one must make a property fail, and
`PROJECT.json` ("mutants") says which.

### Abstractions

Of the sync modes:

- One registered config. The code loops over its registrations, one after the
  other, and keeps nothing between two of them.
- A payload is a member of `Contents`; serialisation is left out. What a
  validator refuses is a set of payloads per replica (`Rejects`): replicas may
  run different builds.
- A version is a tick of a clock. Version 0 is the zero time, which a source
  without a last-modified signal reports; it is a real version whose time equals
  that of the empty one, as in the code. Each time has one spelling, so equal
  times are equal strings.
- One clock for the source and the replicas: no skew.
- A replica keeps its identity over a restart (`WithInstanceID`), which is the
  harder case: its apply-log rows outlive it.
- Retention deletes any subset of the rows that are not active: the ages of rows
  are not modelled, so any may be old.
- The read and write of one statement are one step. Only the activation is two,
  because its first statement decides what its second one leaves active.
- The synchronous cache strategies. `WriteBehind` is not modelled.
- Round IDs are a few numbers, taken again once nothing refers to them
  (`Referenced`): the code only compares them.
- A failed call in the middle of a count also stands for a deadline that comes
  early. A vote that has no answer yet and can still get one waits: it times out
  when no answer can come any more (`Hopeless`), the deadline being far longer
  than a handler.
- `Expire` takes the row of a running instance only as a fault ("stall"): its
  heartbeat did not get through for the registry's timeout.

Of the lifecycle: the tickers fire at any moment; what a cycle does is left out;
a failed call, a lost connection, a collection of the row by a peer, a close and
a cancelled context are rare events, bounded together by `MaxRare`; the WebSocket
handshake is one step, and its message formats are left out.

Of the views: user functions are fixed, one for each role (see `Queries`); items
have a key, a rank and translations; functions of `Panicky` views panic on the
items in `Poison`. What a diff adds, updates and removes are sets: the consumer,
who applies them by key, does not tell their order. A view store keeps the last save
that ended, and a save past `MaxSaves` in flight is skipped (the code allows two; the
instance one).

## 3. The runs

| Run | What varies | Properties | States |
|---|---|---|---|
| `es_faults` | one fault of any kind, forced cycles, write-through cache, retention | `TypeOK`, `DecidedFirst`, `ForwardOnly`, `ImplementsPropagation` | 991 000 |
| `es_forward` | two faults of any kind but a lost lock session and a source whose time goes back; cache read and written, retention | `NeverAhead`, `ActiveOnlyForward` | 599 000 |
| `es_operator` | manual mode, cache read and written, one rollback, one fault as above, one replica's validator refuses a payload | `OneLeader`, `ActiveNeverLost`, `FreezeHolds`, `RollbackVerified`, `ImplementsPropagation` | 1 784 000 |
| `es_liveness` | one crash, lost event or failed call | `Converges`, `LockReleased` | 79 000 |
| `tp_rounds` | strict mode, write-through cache, one crash, lost event, failed call, panicking hook or stalled heartbeat, one replica's validator refuses a payload | `TypeOK`, `DecidedFirst`, `ActiveNeverLost`, `StagedAsStored`, `Unanimous`, `BackOnlyWhenTold`, `ImplementsPropagation` | 1 405 000 |
| `tp_liveness` | strict mode, one such fault, no edit | `Converges` | 62 000 |
| `lifecycle` | one manager in three setups, one request or event, one rare event | `TypeOK`, `LeavesNoRow`, `RequestKept`, `ChangesKept`, `StopEndsStart`, `CloseEndsStart`, `Rejoins`, `Served`, `Flushed`, `Unwound` | 32 000 |
| `views` | two views in six combinations of types, two swaps, one restart | `TypeOK`, `Current`, `FilteredRight`, `IndexedRight`, `ValuesRight`, `RelatedRight`, `TranslatedRight`, `CompositeWhole`, `MirrorFollows` | 2 030 000 |

*Bounds of the sync modes.* Two replicas, two payloads, a clock of two ticks and
buffers of one slot. Two replicas are enough for a leader next to a follower, two
leaders, or a replica that starts in the middle of another's cycle; all
interaction goes through shared rows, so a third adds no new kind of step to the
eventual mode. In the strict mode a third would add a second voter; the count
treats each target alike. Two ticks give three versions, 0 to 2: something to be
behind, something to be ahead and one in between. `tp_liveness` has one tick and
no edit: it asks whether the rounds for one version are retried until one
succeeds, after any fault. A full buffer of one slot stands for a
full one of sixteen. `CheckVersion` ends a cycle whose minted version is past the
last tick. `MaxFaults` bounds the faults of a behaviour, each at any moment;
`MaxRollbacks` bounds how often the operator starts. Replicas and payloads are
symmetric in the runs that check neither liveness nor a replica-specific
validator.

The strict runs start from `UpInit`: both replicas up, registered and idle, and
serving nothing, as when the source did not answer while they started. Replicas
still crash, register and start again in them. `tp_liveness` is `Punctual`: a
round opens only once the other replica has taken the events of the one before,
because rounds are a poll interval apart and events are handled as they arrive.
Without that, late commits and late prepares of a one-slot buffer could follow
each other for ever. `tp_rounds` is not: events may be as late as they
like. It has no operator; that `BackOnlyWhenTold` and the refinement also hold over
rollbacks is proved (section 4).

*Bounds of the lifecycle.* One collection, a slot in each channel, one request,
notify event or change, and one rare event, at any moment. The three setups in
`MCLifecycle` separate what hardly interacts: one calls `Stop` and `SyncNow` in
manual mode over Redis; two have a WebSocket, over Postgres, with and without a
debounce.

*Bounds of the views.* Three inputs over four items, among them the same entity
before and after an edit and one on which the functions of a view panic; the six
combinations put each of the six types next to another one. A `View`, an
`IndexedViewT`, a `TranslatedView` and a `SingletonView` persist, another `View`, a
`RelatedView` and an `IndexedView` are watched, no two of them that persist
together: that would multiply the states without a new kind of step.

What the eventual mode is checked for:

- `DecidedFirst`: no replica serves, no event announces and no cache entry holds
  a version that was not activated first.
- `ForwardOnly`: what a running replica serves is replaced by a newer version,
  or by the active snapshot at startup or on a rollback.
- `ImplementsPropagation`: the refinement of `ConfigPropagation`, with the
  versions ever activated, the active ones and the ones served.
- `NeverAhead`: no replica is ahead of the active snapshot. One that is would
  never be repaired, catch-up being forward only.
- `ActiveOnlyForward`: no leader moves the active row back.
- `OneLeader`: cycles never overlap with one another or with the operator.
- `ActiveNeverLost`: there is exactly one active row from the first activation on.
- `FreezeHolds`: from the flip to the release, the target stays active and no
  replica leads.
- `RollbackVerified`: once the query of the runbook is satisfied, every alive
  replica that was up when the rollback was announced serves the target.
- `Converges`: once edits and faults stop, every replica serves the version and
  the content of the source.
- `LockReleased`: the lock is always given back.

The strict mode, besides:

- `ActiveNeverLost`: an aborted round never takes the active row with it, not
  even when the activation reported an error after it committed.
- `StagedAsStored`: what a follower holds for a round is what the store holds
  under the version, so a commit that finds the stage and one that reloads the
  row serve the same.
- `Unanimous`: a round goes on to its decision only if every other target that
  was alive when the count began accepts the payload of the row, even when an
  answer belongs to an earlier round of the same version.
- `BackOnlyWhenTold`: a running replica leaves a version for an older one on a
  late commit or a rollback, and in no other step.
- `Converges`: rounds that fail are retried until one succeeds.

The lifecycle:

- `LeavesNoRow`: when `Start` has returned, the registry row is gone, but for the
  exceptions below.
- `RequestKept`, `Served`: a request that `SyncNow` accepted waits for a cycle,
  and gets one.
- `ChangesKept`, `Flushed`: a change received over the WebSocket waits in a
  buffer or in the debounce until it is synced, though the connection broke.
- `StopEndsStart`, `CloseEndsStart`, `Unwound`: `Stop` and a closed channel end
  `Start`, and the goroutines with it.
- `Rejoins`: a running instance whose row was collected registers again.

The views:

- `Current`: when a `Swap` returns, every open view is computed from what it
  published, whoever panicked, opened or closed meanwhile; whoever watches a view
  was last told what it shows.
- `FilteredRight`, `IndexedRight`, `ValuesRight`, `RelatedRight`,
  `TranslatedRight`, `CompositeWhole`: what each type computes, against a
  definition that does not follow the code's loops.
- `MirrorFollows`: a consumer that applies each diff to its copy has the
  collection.

*Fairness of the sync modes* (`es_liveness`, `tp_liveness`). `WF` of `Midway(r)`: a goroutine in the middle of
a cycle, a handler or its startup goes on. Its loops are bounded (the wait for
confirmations by `WaitConfirmationsTimeout`), so this assumes only that a call to
Postgres, the source or the channel returns, perhaps with an error. The manager
sets no deadline on these calls; a client that hangs for ever is outside the
model. `SF` of the reconcile tick and of
the handling of an event: Go's `select` picks at random among the ready cases,
so one that is ready again and again is taken, and the ticker fires for ever.
The weaker `WF` would not do: other cases disable a tick by taking the
goroutine away from "idle". Poll ticks, `SyncNow`, WebSocket events and
maintenance get no fairness: convergence rests on reconciliation alone.
`Start` is fair because an orchestrator restarts a dead replica. `tp_liveness` adds
`WF` of the heartbeat of a running replica, and of the expiry of the row of one
that is down: without it a round would wait for a dead target.

*Fairness of the lifecycle.* `WF` of every goroutine that is not waiting; `SF` of
the cases of the `select` except the tickers, for the same reason as above. No
fairness of `Stop`, of a cancellation or of any event: nobody has to stop the
manager, and the properties that speak of an end begin with its cause.

### What does not hold

Four runs are expected to end in a violation. Each shows, step by step, that
the code does not do what one of its comments says.

- `es_rollback_twice` (no fault): the `rolled_back` rows of a rollback outlive
  it, so they answer the verification query of a second rollback to the same
  version, for a replica that has not applied it.
- `es_two_active` (one lost session): two activations overlap, each demotes only
  the rows that its first statement saw, and two rows are active.
- `es_same_version` (no fault): a leader reads the time of the source, an edit
  happens, and it reads the content. Another cycle derives the same version
  with other content; the store keeps the first row and the second leader
  serves the other content under it.
- `es_rolling_start` (one deletion at the source): a replica that found storage
  empty when it started compares with its own missing version when it leads,
  and may activate a version older than the active one.

These are also why `es_forward` and `es_operator` exclude lost sessions and
a source whose time goes back, and why `RollbackVerified` is checked with one rollback;
the theorems of section 4 make the same assumptions, and no others.
`Converges` compares contents, and
still holds after the race of `es_same_version`: a race needs an edit, and the
edit's own version replaces what the race left.

Some more that the models show, as exceptions stated in the properties:

- A late commit of the strict mode moves a replica back to an older decided
  version until its next catch-up (`BackOnlyWhenTold` and `LateCommits` allow it),
  while the comment at `manager/sync.go:633-634` calls the rollback handler the
  only path that does.
- `LeavesNoRow` excepts two sequences in which a row outlives its instance. The
  heartbeat found its row collected and checked the phase just before `Stop`
  announced that it leaves, and registers after `Stop` deregistered, against the
  comment at `manager/manager.go:323-324`. Or `Stop` ran before `Start` registered.
  Both use up `deregisterOnce`, so Start's own deregistration does nothing. (Its
  third exception is a registry call that failed.)
- A `Stop` before `Start` has set `m.cancel` cancels nothing, and `Start` does not
  return, against the comment at `manager/manager.go:229-230`. `StopEndsStart`
  speaks of those that found it set.
- A view whose constructor a swap overtakes, between its reading of the config
  and its subscription, misses that swap, against `docs/config-package.md:17`, and
  labels old items with the new version if the swap falls between its two reads
  (`config/view.go:85-89`). It is right again with the next swap (`late` in
  `Current`).
- When the query for the source's time fails, an older time or the zero time
  comes back without an error. A replica that holds nothing and leads with it
  activates a version older than the one its peers serve. Only a replica that is
  behind can then repair that, as a leader; if the others keep winning the lock
  it never does, and nothing in the code makes the lock fair. So `Converges` is
  checked without that fault, and the safety properties of `es_faults` with it.

## 4. The proofs

The theorems hold for any set of replicas, number of versions, rounds, faults and
views, any validators, buffers, inputs and options. What they take for granted are
the assumptions named in the modules (`SnapshotStoreAssumption`,
`ClusterAssumption`, `TwoPhaseAssumption`, `LifecycleAssumption`,
`QueriesAssumption`, `ViewsAssumption`), which say what kind of value each constant
is - that the items of an input have different keys, and that there are finitely
many views, included - and which TLC evaluates on every run, and, where the last
column says so, that something does not happen.

| Module | Theorem | Statement | Assuming |
|---|---|---|---|
| `EventualSyncProofs` | `TypesHold` | `Spec => []TypeOK` | |
| | `DecidedFirstHolds` | `Spec => []DecidedFirst` | |
| | `ForwardOnlyHolds` | `Spec => ForwardOnly` | |
| | `Propagation` | `Spec => ImplementsPropagation` | |
| | `OneLeaderHolds` | `Spec => []OneLeader` | no lost session |
| `ActiveProofs` | `ActiveNeverLostHolds` | `Spec => []ActiveNeverLost` | no lost session |
| | `FreezeHoldsHolds` | `Spec => []FreezeHolds` | no lost session |
| | `NeverAheadHolds` | `Spec => []NeverAhead` | no lost session, an honest source, no forced cycle, no rollback |
| | `ActiveOnlyForwardHolds` | `Spec => ActiveOnlyForward` | the same |
| | `RollbackVerifiedHolds` | `Spec => []RollbackVerified` | no lost session, at most one rollback |
| `TwoPhaseSyncProofs` | `TypesHold` | `Spec => []TypeOK` | |
| | `DecidedFirstHolds` | `Spec => []DecidedFirst` | |
| | `BackOnlyWhenToldHolds` | `Spec => BackOnlyWhenTold` | |
| `RoundProofs` | `ActiveNeverLostHolds` | `Spec => []ActiveNeverLost` | no lost session |
| | `Propagation` | `Spec => ImplementsPropagation` | no lost session |
| | `StagedAsStoredHolds` | `Spec => []StagedAsStored` | no retention |
| | `UnanimousHolds` | `Spec => Unanimous` | no retention, no lost session |
| `LifecycleProofs` | `TypesHold` | `Spec => []TypeOK` | |
| | `RequestKeptHolds` | `Spec => []RequestKept` | |
| | `ChangesKeptHolds` | `Spec => []ChangesKept` | |
| | `NeverBackHolds` | `Spec => NeverBack` | |
| | `LeavesNoRowHolds` | `Spec => []LeavesNoRow` | |
| `ConfigViewsProofs` | `TypesHold` | `Spec => []TypeOK` | |
| | `CurrentHolds` | `Spec => []Current` | |
| | `MirrorFollowsHolds` | `Spec => []MirrorFollows` | |
| | `ContentsRight` | `Spec => []` a current view shows a result of its type for the current items | |
| | `FilteredRightHolds` | `Spec => []FilteredRight` | |
| | `IndexedRightHolds` | `Spec => []IndexedRight` | |
| | `ValuesRightHolds` | `Spec => []ValuesRight` | |
| | `RelatedRightHolds` | `Spec => []RelatedRight` | |
| | `TranslatedRightHolds` | `Spec => []TranslatedRight` | |
| | `CompositeWholeHolds` | `Spec => []CompositeWhole` | |

"No lost session" is `"session" \notin FaultKinds`; "an honest source" leaves out
"delete" and "reading", after which the source's time goes back; "no forced cycle"
is `WebSocket = FALSE`, "no rollback" `MaxRollbacks = 0`, "no retention"
`Retention = FALSE`. All other kinds of fault stay in. The assumptions are needed:

- A lost session lets two leaders overlap: `es_two_active`. In the strict mode
  the second leader may fail the row that the first is activating, and clear or
  fill the log that the first one counts.
- A source whose time goes back lets a leader that holds nothing activate an older
  version: `es_rolling_start`. A forced cycle mints its version from the clock,
  ahead of the source's time, and the next poll of a replica that holds nothing
  derives an older one. A rollback moves the active version back by intent.
- A second rollback to one version is answered by the rows of the first:
  `es_rollback_twice`.
- Retention may delete the row of a stage that is still held, and a later cycle
  may save other content under the same version (the race of `es_same_version`);
  the answers to the first are then counted for the second. Rows that old are
  not met in practice, but the code does not exclude them.

Of the strict mode's theorems TLC was asked the converse too: without any one of
these assumptions it finds a counterexample to each theorem that makes it, on the
instance of `tp_rounds` with retention, or with two faults among which is a lost
session.

### The sync modes

`ClusterProofs` holds what both modes need of `Cluster`. The places of a mode's own
cycle are a parameter of its lemmas: `ClusterTypes(places)` are the types,
`SharedTypes`, `EnvironmentTypes` and `LeaderTypes` say which steps keep them,
`SharedGoes` and `SharedFrom` between which places the shared steps lead,
`SharedMoves` how a step may change what a replica serves.

*Types.* `TypeOK` is not inductive: that the table stays well typed when a leader
saves depends on what it carries in `job`. `LocalsOK` says at which places the
job holds a version and a payload, and that a row that exists has a payload.
`TypeInv` is both (in the strict mode, also that prepare events name their round);
`TypeStep` and `LocalsStep` go through the actions.

*Decisions.* `DecidedFirst` is about memory, events and the cache, but what
enters them comes from rows and from jobs. `Decided` adds that active and
inactive rows were decided (`ActiveDecided`), and so is what a cycle carries after
its activation (`Carried`). `RowsStep`, `CarriedStep`, `ServedStep`,
`AnnouncedStep` and `CachedStep` prove one conjunct each. `MoveCases` sums up once
how a step can change what replicas serve: nobody moves, one stops, or one moves
onto a decided version, forward or as it is told.

*Forward only.* A leader checks at the start of its cycle that the version is
ahead of its own and applies it several steps later, without checking again.
`Ahead` is the missing link: as long as the value is not applied, the version
in the job stays ahead of what the replica serves, because the goroutine that
could change that is the one in the cycle. In the eventual mode `SafeInv` is
`TypeInv /\ Decided /\ Ahead`; `MoveCases` under `SafeInv` gives both
`ForwardOnly` and, with `RowsCases` and `ActivateDecides` for the table, the
refinement.

*Rounds.* In the strict mode a commit is obeyed by the round it names, so that the
proof of `DecidedFirst` has to know that a stage of a round, its events and its
leader speak of one version. Round IDs are taken again once nothing refers to
them, and `OneName` is the invariant that makes this sound: `LeadsFrom`,
`StagesFrom` and `HearsFrom` trace who refers to an ID after a step to who did
before. `BallotInv` says when a leader has a round.

*The lock.* `LockInv` adds to `OneLeader` that the operator holds the lock while
a rollback is in progress. A replica takes the lock only when it is free
and releases only its own (`LockKept`), so no step takes it from a leader -
except the loss of a session.

*One active row.* An activation demotes the rows that its first statement read
(`job[r].demote`) and promotes its own at the commit. `Demotes` is what the lock is
for: between the two, the rows read are still the active ones. With it, exactly one
version is active once one was decided (`OneActive`), and the operator's target
from the flip to the release (`Frozen`). The strict mode's `FailSafe` adds that a
row about to be failed is not active: the check before it is not stale, because
nobody else decides meanwhile.

*Never ahead.* `InOrder`: versions are decided in the order in which the source
stamped them, and what a cycle carries before its activation is no older than
anything decided. A leader alone reads the time, and decides before the next one
reads it. The active version is then the newest decided one, and by `Decided` no
replica serves more.

*A rollback.* `RollbackInv` follows the announcement. Before it nobody has heard of
a rollback, in the log or in a buffer (`Untold`). After it, whoever ran the handler
or has a row that says so serves the target and has no sync event left that would
move it away (`Settled`): events that came before the rollback were taken before
it, and none can come after it while the operator holds the lock.

*The vote.* A row of the log names no round. `Answers` says what it may be taken
for all the same: a leader that asks finds "prepared" only from replicas whose
validator accepts the payload of the row. It holds because the log is cleared after
the row is saved (`Saved`), because who is about to answer accepted the payload of
the row (`Consents`), because the payload of a row that is there never changes, and
because no second leader asks meanwhile.

### Lifecycle

`RequestKept` and `ChangesKept` are inductive next to the types. `NeverBack` needs
`PhaseInv`: the phase is "new" exactly until `Start` is called. `LeavesNoRow` needs
`RowRules`, which relate the row, `deregisterOnce`, the heartbeat and the progress
of `Stop` to the place of `Start`, unless one of the exceptions that the property
names has occurred: a row is missing only if it was deregistered or collected, and
one that is there after `deregisterOnce` was put back by a heartbeat.

### Views

*Current.* `Hooked` relates the hooks to the state of the views: an open view's hook
is registered, and a swap in progress calls only views that are open or were.
`Building` bounds what a constructor has read and computed by the version of the
config. `Kept` is the core: an open view that no constructor's race excuses shows
the published config, or a swap that will call it is in progress, or its functions
panic on these items. `Heard` says that a watcher was last told what the view shows.

*MirrorFollows.* `Copied`: the consumer's copy has the items of before the swap
until its hook is called and the new ones from then on. `Patched` takes one to the
other because keys are unique in every input.

*ContentsRight.* What a view shows is in `Results(v, coll.items)`, what its type
computes of the items, once it is labelled with the config's version and was
computed of it. The invariant `Right` adds that a constructor which read the current
version read its items. `RightInv` is `Right` with the types and the invariant of
`Current`.

*What the types compute.* `RightInv` says that a current view shows a result of
`Queries`; the six properties of the types then follow from what `QueriesProofs`
shows of these results for every input. The loops of the code are folds, and what a
fold computes needs an induction. It is one over a set: the naturals are well
founded, so that a set of them that holds 0, and each number up to n whose
predecessor it holds, holds n (`Counting`), and `FoldExists` and `LoopExists` get
from it that a fold has a value at all, that of the loop's variable after its last
round. On top of them there is a lemma per loop (`PickedLoop`, `PipelineLoop`,
`JoinedLoop`, `AppendNewLoop`, `FlattenLoop`, `FallbackLoop`, `UniqueLoop`), which
names the variable before and after each round, and a lemma per function
(`PickedIs`, `SortedIs`, `BestIs`, `JoinedIs`, `ValuesSplit`, `RelatedIs`,
`TranslatedIs`, `CompositeIs`) which says what comes out:

- the items picked are those wanted, each once and in their order, because keys are
  unique in every input; any permutation that sorts them descending and is then cut
  leaves no better item out;
- the lengths of the values under a key add up to what the property sums over the
  set of the key's items in whatever order (`SumAnyOrder`, `TextsCount`);
- an entity is appended to the result exactly if no earlier one has its language, so
  the first item that has a language provides it;
- in the lookup with fallbacks, what was found first stays.

### Only model-checked

- Liveness: `Converges`, `LockReleased`, `StopEndsStart`, `CloseEndsStart`,
  `Rejoins`, `Served`, `Flushed`, `Unwound`. The prover does not reason about
  fairness and `ENABLED`.

Every invariant and every action property that a passing run checks is proved, under
the assumptions of the table; only the properties that need fairness are not.
`NeverBack`, that the phases never go back, is proved and not run.

## 5. Not modelled

- `WriteBehind`'s asynchronous cache writes; the in-memory cache of the tests.
- The wait for confirmations of the eventual mode: only a log line and a metric
  depend on its outcome.
- Clock skew between replicas, and two spellings of one instant, which are
  equal as times and not as strings.
- More than one registered config: a cycle takes them one after the other and
  keeps nothing between two of them.
- `singletonReg` apart from `collectionReg`: it does the same with one value. The
  deduplication of warnings in `registration.go` only affects the log.
- Status, metrics, schema check and logging: no other part reads them.
- The Directus HTTP client and its admin API (schema, flows, ACLs, dashboards):
  request building and decoding without state. Of the WebSocket client, the
  message formats and the handshake's messages.
- Of `config`: `TranslationMap`, readers that only index into a snapshot
  (`First`, `Find` of a view and the like), and the error callback of
  persistence.
- Parsing in the file source, payload encoding of the notify channels, schema
  migrations.
- The examples and the end-to-end tests.

- A second `Start` of one manager. `deregisterOnce` makes a manager single-use: its
  second life would leave its row behind.
- A registration that commits after its context was cancelled and after the row was
  deleted. `NotUpserted` and `Rejoin` let a cancelled registration take effect or not,
  up to that point; past it the outcome is the one of a failed call in `LeavesNoRow`.
- A mirror that is not the first hook, or that panics: `MirrorFollows` is about the
  diff. That the hooks after a panic are still called is `Current`.
- What a `CompositeView` mixes while a swap is in progress: it reads its views one after
  the other, and `CompositeWhole` is about views computed from the same items.

## 6. Plan

What is left, the most valuable first:

1. A cache module with the write-behind strategy.
2. A second clock, for replicas that disagree about the time of a forced cycle.
3. What holds of the active version under forced cycles and rollbacks, in place of
   `NeverAhead`.
4. A rollback next to the rounds of the strict mode: its query, and late commits that
   an operator meets.
