---------------------------- MODULE EventualSync ----------------------------
(***************************************************************************)
(* The default, eventually-consistent mode of the manager: leaderSync of   *)
(* manager/sync.go on top of the shared steps of Cluster, and what the     *)
(* protocol promises.                                                      *)
(***************************************************************************)
EXTENDS Cluster

----------------------------------------------------------------------------
\* leaderSync after fetchAndStage: save, activate, apply, announce, record.

\* The event of leaderSync, stamped by publish; the seeded bug bypasses publish.
SyncEventUnstamped(r) ==
    [action |-> "sync", version |-> job[r].version, origin |-> Free, round |-> 0]
SyncEvent(r) ==
    [action |-> "sync", version |-> job[r].version, origin |-> r, round |-> 0]

\* Seeded bug: the value is applied before the snapshot is activated.
SaveThenApply(r) == SavePending(r, "apply")

\* Seeded bug: a row that is already there ends the cycle.
SaveNew(r) ==
    /\ pc[r] = "save"
    /\ \/ ~Exists(rows, job[r].version) /\ SavePending(r, "activate")
       \/ /\ Exists(rows, job[r].version)
          /\ EndCycle(r)
          /\ UNCHANGED <<source, now, rows, applyLog, cache, inbox, mem, op, decided, faults>>

Save(r) == SavePending(r, "activate")

\* Seeded bug: the announcement goes out before the snapshot is activated.
BeginAnnounced(r) ==
    /\ pc[r] = "activate"
    /\ job' = [job EXCEPT ![r].demote = ActiveVersions(rows)]
    /\ inbox' = Deliver(inbox, SyncEvent(r))
    /\ Goto(r, "commit_activation")
    /\ UNCHANGED <<source, now, rows, applyLog, lock, cache, mem, op, decided, faults>>
Begin(r) == BeginActivate(r, "end")

Decide(r) == CommitActivation(r, "apply", "end")
Apply(r) == ApplyStaged(r, "publish")

\* A failed publish ends the cycle, with the value live and maybe not announced.
Publish(r) ==
    /\ pc[r] = "publish"
    /\ \/ inbox' = Deliver(inbox, SyncEvent(r)) /\ Goto(r, "record") /\ UNCHANGED faults
       \/ /\ inbox' = Deliver(inbox, SyncEvent(r)) \/ UNCHANGED inbox
          /\ Fault("call") /\ Goto(r, "end")
    /\ UNCHANGED <<source, now, rows, applyLog, lock, cache, mem, job, op, decided>>

Record(r) ==
    /\ pc[r] = "record"
    /\ CacheAndLog(r, job[r].version, job[r].content, "applied")
    /\ Goto(r, "end")
    /\ UNCHANGED <<source, now, rows, lock, inbox, mem, job, op, decided>>

\* Seeded bug: the lock is not released at the end of the cycle.
FinishLocked(r) ==
    /\ pc[r] = "end"
    /\ Goto(r, job[r].then)
    /\ job' = [job EXCEPT ![r] = NoJob]
    /\ UNCHANGED <<source, now, rows, applyLog, lock, cache, inbox, mem, op, decided, faults>>

\* waitConfirmations, whose outcome is only logged, and the deferred release.
Finish(r) ==
    /\ pc[r] = "end"
    /\ EndCycle(r)
    /\ UNCHANGED <<source, now, rows, applyLog, cache, inbox, mem, op, decided, faults>>

LeaderStep(r) ==
    Save(r) \/ Begin(r) \/ Decide(r) \/ Apply(r) \/ Publish(r) \/ Record(r) \/ Finish(r)

Next ==
    \/ \E r \in Replicas : SharedStep(r) \/ LeaderStep(r) \/ Crash(r)
    \/ Environment

Spec == Init /\ [][Next]_vars

----------------------------------------------------------------------------
\* Types.

Place == {"down", "load_cache", "load_storage", "boot", "idle", "probe",
          "catch_up", "rolled", "fetch", "stage", "save", "activate",
          "commit_activation", "apply", "publish", "record", "end", "repair",
          "warm"}
Leading == {"fetch", "stage", "save", "activate", "commit_activation", "apply",
            "publish", "record", "end", "repair", "warm"}

\* Every variable holds what the Go types and the tables allow.
TypeOK ==
    /\ source \in Entry
    /\ now \in Version
    /\ rows \in Table
    /\ applyLog \in [Replicas -> [Version -> ApplyStatus]]
    /\ lock \in Replicas \cup {Free, Operator}
    /\ cache \in Entry \cup {NoEntry}
    /\ inbox \in [Replicas -> Seq(Event)]
    /\ pc \in [Replicas -> Place]
    /\ mem \in [Replicas -> Value]
    /\ job \in [Replicas -> Job]
    /\ op \in [phase : {"none", "frozen", "flipped", "announced", "verified"},
               target : AnyVersion, late : SUBSET Replicas, count : 0 .. MaxRollbacks]
    /\ decided \subseteq Version
    /\ faults \in 0 .. MaxFaults

----------------------------------------------------------------------------
\* Safety.

\* Decision ordering (manager/sync.go, steps 4 to 6 of leaderSync): no version
\* is served, announced or cached that was not activated first, whatever
\* crashes, fails or loses its lock in between.
DecidedFirst ==
    /\ \A r \in Replicas : mem[r].version \in decided \cup {NoVersion}
    /\ \A r \in Replicas : \A i \in 1 .. Len(inbox[r]) :
          inbox[r][i].action = "sync" => inbox[r][i].version \in decided
    /\ cache # NoEntry => cache.version \in decided

\* What every replica reconciles against is never lost: once a version was
\* activated there is exactly one active row, with a payload
\* (ActivateSnapshot, DeleteOldSnapshots).
ActiveNeverLost ==
    decided # {} => \E v \in decided :
        /\ ActiveVersions(rows) = {v}
        /\ rows[v].content \in Contents

\* Every automatic path is forward only: what a running replica serves is
\* replaced by a strictly newer version, or by the active snapshot when it
\* starts or when the operator announces a rollback.
ForwardOnly ==
    [][\A r \in Replicas :
          mem'[r] # mem[r] =>
             \/ Forward(mem'[r].version, mem[r].version)
             \/ pc[r] = "load_storage"
             \/ pc[r] = "idle" /\ Receives(r, "rollback")
             \/ pc'[r] = "down"]_vars

\* While the source's last-modified time only grows and one session at a time
\* leads, no replica is ahead of the active snapshot it reconciles against: a
\* failed activation leaves a leader able to retry (docs/sync-protocol.md,
\* Decision Ordering).
NeverAhead ==
    \A r \in Replicas : mem[r].version # NoVersion =>
        \E v \in ActiveVersions(rows) : ~After(mem[r].version, v)

\* A leader never moves the cluster to an older active version
\* (manager/sync.go, handleSyncEvent: "a leader cannot announce a regression").
ActiveOnlyForward ==
    [][\A v \in ActiveVersions(rows), w \in ActiveVersions(rows') :
          w # v /\ w \notin ActiveVersions(rows) => After(w, v)]_vars

\* The advisory lock keeps leader cycles apart, across replicas and from the
\* operator's session: two never overlap, from the version check to the
\* deferred release.
OneLeader ==
    \A r \in Replicas : pc[r] \in Leading => lock = r

\* The freeze of the runbook holds: from the flip to the release the target is
\* the one active version and no replica leads.
FreezeHolds ==
    op.phase \in {"flipped", "announced", "verified"} =>
        /\ ActiveVersions(rows) = {op.target}
        /\ \A r \in Replicas : pc[r] \notin Leading

\* Replicas on one version serve one payload: a version names its content
\* (storage/postgres/postgres.go, SaveSnapshot: "the row already there is the
\* row this would write").
SameVersionSameContent ==
    \A r, q \in Replicas :
        mem[r].version = mem[q].version => mem[r].content = mem[q].content

\* Once the runbook's query accounts for every alive replica that was up when
\* the rollback was announced, each of them serves the target until the lock is
\* released, whatever was lost, failed or evicted since.
RollbackVerified ==
    op.phase = "verified" =>
        \A r \in Replicas \ op.late :
            Running(r) => mem[r].version = op.target

----------------------------------------------------------------------------
\* Refinement: every step of the protocol is a step of ConfigPropagation or
\* leaves what it shows alone.

CP == INSTANCE ConfigPropagation WITH
        history <- decided,
        active <- ActiveVersions(rows),
        served <- [r \in Replicas |-> mem[r].version],
        LateCommits <- FALSE

\* Whatever crashes, is lost or loses its lock, the cluster behaves as
\* ConfigPropagation allows: a replica moves onto a version that is already
\* decided, forward unless it reloads an active one.
ImplementsPropagation == CP!Spec

----------------------------------------------------------------------------
\* Liveness.  A goroutine that is in the middle of something goes on, and the
\* select of the run loop, which picks at random among the ready cases, serves
\* a case that is ready again and again.

Midway(r) ==
    \/ Start(r) \/ LoadFromCache(r) \/ LoadFromStorage(r) \/ Boot(r)
    \/ FetchVersion(r) \/ RepairCache(r) \/ WarmEntry(r) \/ FetchAndStage(r) \/ LeaderStep(r)
    \/ CatchUpProbe(r) \/ CatchUpApply(r) \/ RecordRollback(r)

Fairness ==
    \A r \in Replicas :
        /\ WF_vars(Midway(r))
        /\ SF_vars(ReconcileTick(r))
        /\ SF_vars(DropEcho(r) \/ HandleSync(r) \/ HandleRollback(r))

FairSpec == Spec /\ Fairness

\* Once edits and faults stop, every replica ends up serving what the source
\* holds, its content included, whichever events were lost and whoever crashed
\* at which step.
Converges ==
    <>[](\A r \in Replicas : mem[r] = source)

\* Every cycle ends and gives the lock back, so leadership is never stuck.
LockReleased ==
    \A r \in Replicas : (lock = r) ~> (lock # r)

=============================================================================
