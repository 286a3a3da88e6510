------------------------------ MODULE Cluster ------------------------------
(***************************************************************************)
(* What both sync modes of the manager share, for one registered config:   *)
(* the data source, the Postgres state (snapshots, apply log, advisory     *)
(* lock), the cache, the notify channel, and of every replica the startup  *)
(* sequence, the run loop's choice of a cycle, the first steps of a leader *)
(* cycle, follower catch-up, the handlers of sync and rollback events, and *)
(* the operator who follows docs/rollback-runbook.md.                      *)
(*                                                                         *)
(* A replica runs one goroutine (Start, then run), so a handler is cut     *)
(* into steps only where it touches state that others can change: between  *)
(* two such steps anything may happen, including the replica's crash.      *)
(***************************************************************************)
EXTENDS Sequences, FiniteSets, SnapshotStore

CONSTANTS
    Replicas,        \* instances of the service
    Free,            \* the advisory lock when no session holds it
    Operator,        \* a psql session that follows the runbook
    NoEntry,         \* the cache when it has no entry for the collection
    Rejects,         \* [Replicas -> SUBSET Contents]: what each validator refuses
    QueueCap,        \* slots of a subscription buffer
    FaultKinds,      \* which faults and other rare events happen
    MaxFaults,       \* how many of them
    MaxRollbacks,    \* how many operator rollbacks
    ManualSyncOnly,  \* Options.ManualSyncOnly
    CacheStrategy,   \* "none" or a cache.Strategy
    Retention,       \* whether snapshots are pruned
    WebSocket        \* whether change events force cycles

ASSUME ClusterAssumption ==
    /\ IsFiniteSet(Replicas)
    /\ Free \notin Replicas /\ Operator \notin Replicas /\ Free # Operator
    /\ Rejects \in [Replicas -> SUBSET Contents]
    /\ QueueCap \in Nat /\ MaxFaults \in Nat /\ MaxRollbacks \in Nat
    /\ FaultKinds \subseteq {"crash", "lose", "call", "session", "evict",
                         "hook", "delete", "stall", "reading"}
    /\ ManualSyncOnly \in BOOLEAN /\ Retention \in BOOLEAN
    /\ WebSocket \in BOOLEAN
    /\ CacheStrategy \in {"none", "read_through", "write_through", "read_write_through"}
    /\ NoEntry \notin [version : Version, content : Contents]

VARIABLES
    source,    \* the collection at the data source: its last-modified time and content
    now,       \* the clock that source edits and forced cycles stamp versions from
    rows,      \* config_snapshots
    applyLog,  \* config_apply_log, by replica and version
    lock,      \* the session that holds the advisory lock
    cache,     \* the cache entry of the collection
    inbox,     \* each replica's subscription buffer
    pc,        \* where each replica's goroutine is
    mem,       \* the version and content each replica serves
    job,       \* the local variables of the handler in progress
    op,        \* the operator's progress through the runbook
    decided,   \* history: every version that was ever activated
    faults     \* faults so far

storeVars == <<rows, applyLog, decided>>
replicaVars == <<pc, mem, job>>
vars == <<source, now, rows, applyLog, lock, cache, inbox, pc, mem, job, op,
          decided, faults>>

Value == [version : AnyVersion, content : Contents \cup {NoContent}]
Nothing == [version |-> NoVersion, content |-> NoContent]
Entry == [version : Version, content : Contents]

ApplyStatus == {"none", "applied", "error", "validation_failed", "rolled_back",
                "prepared", "prepare_failed", "committed"}

\* force: a WebSocket event asked for the cycle.  demote: the rows that the
\* activation in progress saw active.  then: where the goroutine goes on when
\* the cycle ends.
Job == [version : AnyVersion, content : Contents \cup {NoContent},
        force : BOOLEAN, demote : SUBSET Version, then : {"idle", "probe"}]
NoJob == [version |-> NoVersion, content |-> NoContent,
          force |-> FALSE, demote |-> {}, then |-> "idle"]

\* A 2PC event also carries the round; 0 stands for no round.
Event == [action : {"sync", "rollback", "prepare", "commit", "abort"},
          version : AnyVersion, origin : Replicas \cup {Operator}, round : Nat]

ReadsFromCache == CacheStrategy \in {"read_through", "read_write_through"}
WritesToCache == CacheStrategy \in {"write_through", "read_write_through"}

Running(r) == pc[r] # "down"
Accepts(r, c) == c \notin Rejects[r]

Fault(kind) ==
    /\ kind \in FaultKinds
    /\ faults < MaxFaults
    /\ faults' = faults + 1

----------------------------------------------------------------------------
\* Effects that handlers share.

\* Publish broadcasts to every subscription, the publisher's own included; a
\* full buffer drops the event.
Deliver(boxes, e) ==
    [r \in Replicas |->
        IF Running(r) /\ Len(boxes[r]) < QueueCap
        THEN Append(boxes[r], e) ELSE boxes[r]]

CacheWrite(v, c) ==
    cache' = IF WritesToCache THEN [version |-> v, content |-> c] ELSE cache

LogApply(r, v, status) == applyLog' = [applyLog EXCEPT ![r][v] = status]

\* logApplyStatus: its error is only logged.
TryLogApply(r, v, status) ==
    \/ LogApply(r, v, status) /\ UNCHANGED faults
    \/ Fault("call") /\ UNCHANGED applyLog

\* cacheWrite, then logApplyStatus: an error of either is only logged.
CacheAndLog(r, v, c, status) ==
    \/ CacheWrite(v, c) /\ LogApply(r, v, status) /\ UNCHANGED faults
    \/ CacheWrite(v, c) /\ Fault("call") /\ UNCHANGED applyLog
    \/ LogApply(r, v, status) /\ Fault("call") /\ UNCHANGED cache

\* A snapshot that was read can be applied, and swapFromBytes applies it, of a
\* collection's registration as of a singleton's.
Loads(r, v) == v # NoVersion /\ Accepts(r, rows[v].content)
Swap(r, v) ==
    mem' = [mem EXCEPT ![r] = [version |-> v, content |-> rows[v].content]]

\* Seeded bug: allowForward is missing.
BehindOrAhead(r, v) == v # mem[r].version

\* The checks of both follower paths: Equal first, then allowForward.
Behind(r, v) == v # mem[r].version /\ Forward(v, mem[r].version)

Goto(r, place) == pc' = [pc EXCEPT ![r] = place]

\* pg_try_advisory_lock, on a session that stays open until the release.
AcquireLock(r) == lock = Free /\ lock' = r

\* Seeded bug: the lock is released whoever holds it.
UnlockAny(r) == lock' = Free

\* The deferred release of AcquireLock; unlocking a lost session does nothing.
Unlock(r) == lock' = IF lock = r THEN Free ELSE lock

EndCycle(r) ==
    /\ Unlock(r)
    /\ Goto(r, job[r].then)
    /\ job' = [job EXCEPT ![r] = NoJob]

\* Seeded bug: the cycle goes on when the lock was not acquired.
TryLeadAnyway(r, force, then, other) ==
    /\ lock' = IF lock = Free THEN r ELSE lock
    /\ Goto(r, "fetch")
    /\ job' = [job EXCEPT ![r] = [NoJob EXCEPT !.force = force, !.then = then]]
    /\ UNCHANGED faults

NotAcquired ==
    \/ lock # Free /\ UNCHANGED faults
    \/ Fault("call")

\* syncAll and syncOneForced: a cycle starts only if the lock is acquired; else
\* the goroutine goes on at place "other".
TryLead(r, force, then, other) ==
    \/ /\ AcquireLock(r)
       /\ Goto(r, "fetch")
       /\ job' = [job EXCEPT ![r] = [NoJob EXCEPT !.force = force, !.then = then]]
       /\ UNCHANGED faults
    \/ /\ NotAcquired
       /\ Goto(r, other)
       /\ UNCHANGED <<lock, job>>

----------------------------------------------------------------------------
\* The data source (external): an edit stamps a new time; deleting an item
\* can lower the maximum of the remaining items' times, or leave it alone.

SourceUpdate ==
    /\ now < MaxVersion
    /\ now' = now + 1
    /\ \E c \in Contents \ {source.content} :
          source' = [version |-> now + 1, content |-> c]
    /\ UNCHANGED <<rows, applyLog, lock, cache, inbox, pc, mem, job, op, decided, faults>>

SourceDelete ==
    /\ Fault("delete")
    /\ \E v \in 0 .. source.version, c \in Contents \ {source.content} :
          source' = [version |-> v, content |-> c]
    /\ UNCHANGED <<now, rows, applyLog, lock, cache, inbox, pc, mem, job, op, decided>>

----------------------------------------------------------------------------
\* Start: register, subscribe, load from the cache, load from storage, sync.

Start(r) ==
    /\ pc[r] = "down"
    /\ Goto(r, "load_cache")
    /\ op' = [op EXCEPT !.late = IF op.phase \in {"announced", "verified"}
                                 THEN @ \cup {r} ELSE @]
    /\ UNCHANGED <<source, now, rows, applyLog, lock, cache, inbox, mem, job, decided, faults>>

LoadFromCache(r) ==
    /\ pc[r] = "load_cache"
    /\ Goto(r, "load_storage")
    /\ \/ /\ ReadsFromCache /\ cache # NoEntry /\ Accepts(r, cache.content)
          /\ mem' = [mem EXCEPT ![r] = cache]
          /\ UNCHANGED faults
       \/ /\ ~(ReadsFromCache /\ cache # NoEntry /\ Accepts(r, cache.content))
          /\ UNCHANGED <<mem, faults>>
       \/ Fault("call") /\ UNCHANGED mem
    /\ UNCHANGED <<source, now, rows, applyLog, lock, cache, inbox, job, op, decided>>

\* Storage is canonical: it overrides the cache in either direction.
LoadFromStorage(r) ==
    /\ pc[r] = "load_storage"
    /\ Goto(r, "boot")
    /\ \/ \E v \in ActiveSnapshot(rows) :
             /\ UNCHANGED faults
             /\ \/ /\ v # mem[r].version /\ Loads(r, v)
                   /\ Swap(r, v)
                \/ /\ ~(v # mem[r].version /\ Loads(r, v))
                   /\ UNCHANGED mem
       \/ Fault("call") /\ UNCHANGED mem
    /\ UNCHANGED <<source, now, rows, applyLog, lock, cache, inbox, job, op, decided>>

\* warmCacheIfMissing, under the lock if it is free.
WarmCache(r) ==
    \/ /\ WritesToCache /\ AcquireLock(r)
       /\ Goto(r, "repair")
       /\ UNCHANGED <<job, faults>>
    \/ /\ (~WritesToCache /\ UNCHANGED faults) \/ NotAcquired
       /\ Goto(r, "idle")
       /\ UNCHANGED <<lock, job>>

hasEmptyConfigs(r) == mem[r].version = NoVersion

\* The bootstrap sync; manual mode syncs only a replica that holds nothing, and
\* warms a cold cache otherwise.
Boot(r) ==
    /\ pc[r] = "boot"
    /\ \/ /\ ~ManualSyncOnly \/ hasEmptyConfigs(r)
          /\ TryLead(r, FALSE, "idle", "idle")
       \/ /\ ManualSyncOnly /\ ~hasEmptyConfigs(r)
          /\ WarmCache(r)
    /\ UNCHANGED <<source, now, rows, applyLog, cache, inbox, mem, op, decided>>

----------------------------------------------------------------------------
\* The run loop of an idle replica: what starts a cycle.

\* The reconcile tick.  Outside manual mode a replica that cannot lead catches
\* up; in manual mode every replica does, after a bootstrap retry if empty.
ReconcileTick(r) ==
    /\ pc[r] = "idle"
    /\ \/ /\ ~ManualSyncOnly
          /\ TryLead(r, FALSE, "idle", "probe")
       \/ /\ ManualSyncOnly /\ hasEmptyConfigs(r)
          /\ TryLead(r, FALSE, "probe", "probe")
       \/ /\ ManualSyncOnly /\ ~hasEmptyConfigs(r)
          /\ Goto(r, "probe")
          /\ UNCHANGED <<lock, job, faults>>
    /\ UNCHANGED <<source, now, rows, applyLog, cache, inbox, mem, op, decided>>

\* A poll tick or a SyncNow request; the request is consumed even if a peer
\* holds the lock.
SyncCycle(r) ==
    /\ pc[r] = "idle"
    /\ TryLead(r, FALSE, "idle", "idle")
    /\ UNCHANGED <<source, now, rows, applyLog, cache, inbox, mem, op, decided>>

\* A WebSocket change event, possibly late: syncOneForced.
ForcedCycle(r) ==
    /\ WebSocket /\ ~ManualSyncOnly
    /\ pc[r] = "idle"
    /\ TryLead(r, TRUE, "idle", "idle")
    /\ UNCHANGED <<source, now, rows, applyLog, cache, inbox, mem, op, decided>>

----------------------------------------------------------------------------
\* The first steps of a leader cycle, the same in both sync modes.

\* LastModified, as MaxDateUpdated answers it: a query that fails is not an
\* error, the creation times stand in for it, or the zero time for both.
Reports(reported) ==
    \/ reported = source.version /\ UNCHANGED faults
    \/ reported \in 0 .. source.version - 1 /\ Fault("reading")

\* syncVersion: a forced cycle that would not move forward mints a version
\* from the clock, which a new reading always finds ahead of old stamps.
CycleVersion(r, reported) ==
    IF job[r].force /\ ~After(reported, mem[r].version)
    THEN now + 1 ELSE reported

\* A leader declines an older version, unless it holds nothing yet.
allowLeaderAdvance(r, v) == Forward(v, mem[r].version)

\* Skip an unchanged version, decline an older one.  A tick beyond MaxVersion is
\* beyond the bound of the model: the cycle ends there.
CheckVersion(r, v) ==
    LET local == mem[r].version
    IN  /\ now' = IF v \in Version /\ v > now THEN v ELSE now
        /\ \/ /\ ~job[r].force /\ local # NoVersion /\ v = local
              /\ Goto(r, "repair")
              /\ UNCHANGED <<job, lock>>
           \/ /\ job[r].force \/ local = NoVersion \/ v # local
              /\ v \in Version /\ allowLeaderAdvance(r, v)
              /\ Goto(r, "stage")
              /\ job' = [job EXCEPT ![r].version = v]
              /\ UNCHANGED lock
           \/ /\ job[r].force \/ v # local
              /\ v \notin Version \/ ~allowLeaderAdvance(r, v)
              /\ EndCycle(r)
        /\ UNCHANGED <<source, rows, applyLog, cache, inbox, mem, op, decided>>

FetchVersion(r) ==
    /\ pc[r] = "fetch"
    /\ \E reported \in Version :
          Reports(reported) /\ CheckVersion(r, CycleVersion(r, reported))

\* repairCacheEntry: for a cache without entry the active snapshot is read...
RepairCache(r) ==
    /\ pc[r] = "repair"
    /\ \/ /\ WritesToCache /\ cache = NoEntry
          /\ \E v \in ActiveVersions(rows) :
                job' = [job EXCEPT ![r].version = v, ![r].content = rows[v].content]
          /\ Goto(r, "warm")
          /\ UNCHANGED <<lock, faults>>
       \/ /\ \/ /\ ~(WritesToCache /\ cache = NoEntry /\ ActiveVersions(rows) # {})
                /\ UNCHANGED faults
             \/ Fault("call")
          /\ EndCycle(r)
    /\ UNCHANGED <<source, now, rows, applyLog, cache, inbox, mem, op, decided>>

\* ... and written.
WarmEntry(r) ==
    /\ pc[r] = "warm"
    /\ \/ CacheWrite(job[r].version, job[r].content) /\ UNCHANGED faults
       \/ Fault("call") /\ UNCHANGED cache
    /\ EndCycle(r)
    /\ UNCHANGED <<source, now, rows, applyLog, inbox, mem, op, decided>>

\* fetchAndStage: the content is read after the version, and held unapplied.
FetchAndStage(r) ==
    /\ pc[r] = "stage"
    /\ \/ /\ Accepts(r, source.content)
          /\ job' = [job EXCEPT ![r].content = source.content]
          /\ Goto(r, "save")
          /\ UNCHANGED lock
       \/ ~Accepts(r, source.content) /\ EndCycle(r)
    /\ UNCHANGED <<source, now, rows, applyLog, cache, inbox, mem, op, decided, faults>>

\* The insert of the snapshot; its error may also come after the row is there.
SavePending(r, next) ==
    /\ pc[r] = "save"
    /\ rows' = SaveSnapshot(rows, job[r].version, job[r].content)
    /\ \/ Goto(r, next) /\ UNCHANGED <<lock, job, faults>>
       \/ Fault("call") /\ EndCycle(r)
    /\ UNCHANGED <<source, now, applyLog, cache, inbox, mem, op, decided>>

\* A call to the source fails, or the insert before it is done: the cycle ends.
CycleFails(r) ==
    /\ pc[r] \in {"fetch", "stage", "save"}
    /\ Fault("call")
    /\ EndCycle(r)
    /\ UNCHANGED <<source, now, rows, applyLog, cache, inbox, mem, op, decided>>

\* ActivateSnapshot begins: its first statement sees the rows active now.
BeginActivate(r, failed) ==
    /\ pc[r] = "activate"
    /\ \/ /\ job' = [job EXCEPT ![r].demote = ActiveVersions(rows)]
          /\ Goto(r, "commit_activation")
          /\ UNCHANGED faults
       \/ Fault("call") /\ Goto(r, failed) /\ UNCHANGED job
    /\ UNCHANGED <<source, now, rows, applyLog, lock, cache, inbox, mem, op, decided>>

\* Seeded bug: only a pending row is promoted, not one that failed before.
CommitPending(r, next, failed) ==
    LET v == job[r].version
    IN  /\ pc[r] = "commit_activation"
        /\ IF rows[v].status = "pending"
           THEN /\ rows' = ActivateSnapshot(rows, job[r].demote, v)
                /\ decided' = decided \cup {v}
                /\ Goto(r, next)
           ELSE Goto(r, failed) /\ UNCHANGED <<rows, decided>>
        /\ UNCHANGED <<source, now, applyLog, lock, cache, inbox, mem, job, op, faults>>

\* It commits: the decision.  An absent row rolls it back instead, and an error
\* may come before the server commits or after.
CommitActivation(r, next, failed) ==
    LET v == job[r].version
    IN  /\ pc[r] = "commit_activation"
        /\ \/ /\ Exists(rows, v)
              /\ rows' = ActivateSnapshot(rows, job[r].demote, v)
              /\ decided' = decided \cup {v}
              /\ \/ Goto(r, next) /\ UNCHANGED faults
                 \/ Goto(r, failed) /\ Fault("call")
           \/ /\ ~Exists(rows, v)
              /\ Goto(r, failed)
              /\ UNCHANGED <<rows, decided, faults>>
        /\ UNCHANGED <<source, now, applyLog, lock, cache, inbox, mem, job, op>>

\* applyStaged: a hook that panics leaves the value live and counts as applied.
ApplyStaged(r, next) ==
    /\ pc[r] = "apply"
    /\ mem' = [mem EXCEPT ![r] = [version |-> job[r].version, content |-> job[r].content]]
    /\ Goto(r, next)
    /\ UNCHANGED <<source, now, rows, applyLog, lock, cache, inbox, job, op, decided, faults>>

----------------------------------------------------------------------------
\* followerCatchUp: the version probe, then the content of whatever is active
\* by then, which is checked again.

CatchUpProbe(r) ==
    /\ pc[r] = "probe"
    /\ \/ \E v \in ActiveSnapshot(rows) :
             /\ UNCHANGED faults
             /\ \/ Behind(r, v) /\ Goto(r, "catch_up")
                \/ ~Behind(r, v) /\ Goto(r, "idle")
       \/ Fault("call") /\ Goto(r, "idle")
    /\ UNCHANGED <<source, now, rows, applyLog, lock, cache, inbox, mem, job, op, decided>>

\* What a catch-up applies of what it reads: the forward rule holds again.
CatchUpAllowed(r, v) == Forward(v, mem[r].version) /\ Loads(r, v)

\* Only a swap without error is logged; a panicking hook is an error.
CatchUpApply(r) ==
    /\ pc[r] = "catch_up"
    /\ Goto(r, "idle")
    /\ \/ \E v \in ActiveSnapshot(rows) :
             \/ /\ CatchUpAllowed(r, v)
                /\ Swap(r, v)
                /\ \/ TryLogApply(r, v, "applied")
                   \/ Fault("hook") /\ UNCHANGED applyLog
             \/ /\ ~CatchUpAllowed(r, v)
                /\ UNCHANGED <<mem, applyLog, faults>>
       \/ Fault("call") /\ UNCHANGED <<mem, applyLog>>
    /\ UNCHANGED <<source, now, rows, lock, cache, inbox, job, op, decided>>

----------------------------------------------------------------------------
\* handleEvent on the run loop.

Receives(r, action) ==
    /\ pc[r] = "idle"
    /\ inbox[r] # <<>>
    /\ Head(inbox[r]).origin # r
    /\ Head(inbox[r]).action = action

Consume(r) == inbox' = [inbox EXCEPT ![r] = Tail(@)]

\* The transport echoes a replica's own events; they are dropped by origin.
DropEcho(r) ==
    /\ pc[r] = "idle"
    /\ inbox[r] # <<>>
    /\ Head(inbox[r]).origin = r
    /\ Consume(r)
    /\ UNCHANGED <<source, now, rows, applyLog, lock, cache, pc, mem, job, op, decided, faults>>

HandleSync(r) ==
    LET v == Head(inbox[r]).version
    IN  /\ Receives(r, "sync")
        /\ Consume(r)
        /\ \/ /\ ~Behind(r, v)
              /\ UNCHANGED <<mem, applyLog, faults>>
           \/ /\ Behind(r, v)
              /\ \/ ~Exists(rows, v) /\ TryLogApply(r, v, "error")
                 \/ Fault("call") /\ LogApply(r, v, "error")
              /\ UNCHANGED mem
           \/ /\ Behind(r, v) /\ Exists(rows, v) /\ ~Loads(r, v)
              /\ TryLogApply(r, v, "validation_failed")
              /\ UNCHANGED mem
           \/ /\ Behind(r, v) /\ Exists(rows, v) /\ Loads(r, v)
              /\ Swap(r, v)
              /\ \/ TryLogApply(r, v, "applied")
                 \/ LogApply(r, v, "error") /\ Fault("hook")
        /\ UNCHANGED <<source, now, rows, lock, cache, pc, job, op, decided>>

\* Seeded bug: the early return after a failed swap is missing.
HandleRollbackGoesOn(r) ==
    /\ Receives(r, "rollback")
    /\ Consume(r)
    /\ \E v \in ActiveVersions(rows) :
          /\ IF Loads(r, v) THEN Swap(r, v) ELSE UNCHANGED mem
          /\ job' = [job EXCEPT ![r].version = v, ![r].content = rows[v].content]
    /\ Goto(r, "rolled")
    /\ UNCHANGED <<source, now, rows, applyLog, lock, cache, op, decided, faults>>

\* The active snapshot is applied in either direction; the event's version is
\* not read.  A panicking hook skips the tail below.
HandleRollback(r) ==
    /\ Receives(r, "rollback")
    /\ Consume(r)
    /\ \/ \E v \in ActiveSnapshot(rows) :
             \/ /\ Loads(r, v)
                /\ Swap(r, v)
                /\ \/ /\ Goto(r, "rolled")
                      /\ job' = [job EXCEPT ![r].version = v,
                                           ![r].content = rows[v].content]
                      /\ UNCHANGED faults
                   \/ Fault("hook") /\ UNCHANGED <<pc, job>>
             \/ ~Loads(r, v) /\ UNCHANGED <<mem, pc, job, faults>>
       \/ Fault("call") /\ UNCHANGED <<mem, pc, job>>
    /\ UNCHANGED <<source, now, rows, applyLog, lock, cache, op, decided>>

\* The tail of the rollback handler, with what was read and without the lock.
RecordRollback(r) ==
    /\ pc[r] = "rolled"
    /\ CacheAndLog(r, job[r].version, job[r].content, "rolled_back")
    /\ Goto(r, "idle")
    /\ job' = [job EXCEPT ![r] = NoJob]
    /\ UNCHANGED <<source, now, rows, lock, inbox, mem, op, decided>>

----------------------------------------------------------------------------
\* docs/rollback-runbook.md, steps 1 to 5.

OpMove(phase) == op' = [op EXCEPT !.phase = phase]

Freeze ==
    /\ op.phase = "none" /\ op.count < MaxRollbacks
    /\ lock = Free
    /\ lock' = Operator
    /\ op' = [op EXCEPT !.phase = "frozen", !.count = @ + 1]
    /\ UNCHANGED <<source, now, rows, applyLog, cache, inbox, pc, mem, job, decided, faults>>

\* The operator picks a version that was live before.
Flip(v) ==
    /\ op.phase = "frozen"
    /\ rows[v].status = "inactive"
    /\ rows' = ActivateSnapshot(rows, ActiveVersions(rows), v)
    /\ op' = [op EXCEPT !.phase = "flipped", !.target = v]
    /\ UNCHANGED <<source, now, applyLog, lock, cache, inbox, pc, mem, job, decided, faults>>

\* Published without an instance ID, and again while the count is short.
Announce ==
    /\ op.phase \in {"flipped", "announced"}
    /\ inbox' = Deliver(inbox, [action |-> "rollback", version |-> NoVersion,
                               origin |-> Operator, round |-> 0])
    /\ OpMove("announced")
    /\ UNCHANGED <<source, now, rows, applyLog, lock, cache, pc, mem, job, decided, faults>>

\* Every alive instance has its row, those that started later excepted.
Verify ==
    /\ op.phase = "announced"
    /\ \A r \in Replicas \ op.late :
          Running(r) => applyLog[r][op.target] = "rolled_back"
    /\ OpMove("verified")
    /\ UNCHANGED <<source, now, rows, applyLog, lock, cache, inbox, pc, mem, job, decided, faults>>

\* The lock is released once the rollback is verified, or at once if there was
\* nothing to roll back to.
Release ==
    /\ \/ op.phase = "verified"
       \/ op.phase = "frozen" /\ \A v \in Version : rows[v].status # "inactive"
    /\ lock' = Free
    /\ op' = [op EXCEPT !.phase = "none", !.target = NoVersion, !.late = {}]
    /\ UNCHANGED <<source, now, rows, applyLog, cache, inbox, pc, mem, job, decided, faults>>

----------------------------------------------------------------------------
\* Maintenance and faults.

\* runMaintenance of a replica that gets the lock: retention deletes rows that
\* are not active, and their apply-log rows.
Maintain(r) ==
    /\ Retention
    /\ pc[r] = "idle" /\ lock = Free
    /\ \E old \in SUBSET Version :
          /\ Prunable(rows, old) # {}
          /\ rows' = DeleteOldSnapshots(rows, old)
          /\ applyLog' = [q \in Replicas |-> [v \in Version |->
                IF v \in Prunable(rows, old) THEN "none" ELSE applyLog[q][v]]]
    /\ UNCHANGED <<source, now, lock, cache, inbox, pc, mem, job, op, decided, faults>>

\* The process dies: memory and subscription are gone, Postgres frees the lock.
Crash(r) ==
    /\ Running(r)
    /\ Fault("crash")
    /\ Goto(r, "down")
    /\ mem' = [mem EXCEPT ![r] = Nothing]
    /\ inbox' = [inbox EXCEPT ![r] = <<>>]
    /\ job' = [job EXCEPT ![r] = NoJob]
    /\ Unlock(r)
    /\ UNCHANGED <<source, now, rows, applyLog, cache, op, decided>>

\* A dropped connection loses the oldest undelivered event.
LoseEvent(r) ==
    /\ inbox[r] # <<>>
    /\ Fault("lose")
    /\ Consume(r)
    /\ UNCHANGED <<source, now, rows, applyLog, lock, cache, pc, mem, job, op, decided>>

\* The lock's session drops while its holder goes on.
LoseSession(r) ==
    /\ lock = r
    /\ Fault("session")
    /\ lock' = Free
    /\ UNCHANGED <<source, now, rows, applyLog, cache, inbox, pc, mem, job, op, decided>>

\* The cache server drops the entry, whose TTL is over.
EvictCache ==
    /\ cache # NoEntry
    /\ Fault("evict")
    /\ cache' = NoEntry
    /\ UNCHANGED <<source, now, rows, applyLog, lock, inbox, pc, mem, job, op, decided>>

Init ==
    /\ now = 1
    /\ source \in [version : 0 .. 1, content : Contents]
    /\ rows = EmptyTable
    /\ applyLog = [r \in Replicas |-> [v \in Version |-> "none"]]
    /\ lock = Free
    /\ cache = NoEntry
    /\ inbox = [r \in Replicas |-> <<>>]
    /\ pc = [r \in Replicas |-> "down"]
    /\ mem = [r \in Replicas |-> Nothing]
    /\ job = [r \in Replicas |-> NoJob]
    /\ op = [phase |-> "none", target |-> NoVersion, late |-> {}, count |-> 0]
    /\ decided = {}
    /\ faults = 0

\* Everything but the leader cycle after its first steps, which is the sync
\* mode's own.
SharedStep(r) ==
    \/ Start(r) \/ LoadFromCache(r) \/ LoadFromStorage(r) \/ Boot(r)
    \/ ReconcileTick(r) \/ SyncCycle(r) \/ ForcedCycle(r)
    \/ FetchVersion(r) \/ RepairCache(r) \/ WarmEntry(r) \/ FetchAndStage(r)
    \/ CycleFails(r)
    \/ CatchUpProbe(r) \/ CatchUpApply(r)
    \/ DropEcho(r) \/ HandleSync(r) \/ HandleRollback(r) \/ RecordRollback(r)
    \/ Maintain(r)

Environment ==
    \/ SourceUpdate \/ SourceDelete
    \/ Freeze \/ (\E v \in Version : Flip(v)) \/ Announce \/ Verify \/ Release
    \/ (\E r \in Replicas : LoseEvent(r) \/ LoseSession(r))
    \/ EvictCache
=============================================================================
