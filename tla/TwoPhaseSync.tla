---------------------------- MODULE TwoPhaseSync ----------------------------
(***************************************************************************)
(* The strict mode of the manager (RequireUnanimousApply): leaderSync2PC,  *)
(* abortRound, the vote over the apply log, and the handlers of prepare,   *)
(* commit and abort, on top of the shared steps of Cluster.                *)
(*                                                                         *)
(* A leader's own staged value is the payload in its job: only its cycle   *)
(* commits or drops it, and the sweep of expired stages runs on the same   *)
(* goroutine, never inside a cycle.                                        *)
(***************************************************************************)
EXTENDS Cluster, FiniteSetsExt

CONSTANTS
    MaxRounds,  \* round IDs in use at one time
    Punctual    \* whether events are handled well within a poll interval

ASSUME TwoPhaseAssumption == MaxRounds \in Nat /\ Punctual \in BOOLEAN

VARIABLES
    alive,   \* the instances whose registry row is fresh: AliveInstances
    staged,  \* each follower's staged values, by round
    ballot   \* the round that each leader runs, its target set, and who of it
             \* was alive when the votes were last counted

roundVars == <<alive, staged, ballot>>
allVars == <<vars, roundVars>>

Round == 1 .. MaxRounds
Stage == [round : Round, version : Version, content : Contents]
NoBallot == [round |-> 0, target |-> {}, live |-> {}]

\* uuid.NewString: IDs are only compared, so one that nothing refers to any
\* more, echoes aside, is as good as a new one.
Referenced(n) ==
    \E r \in Replicas :
        \/ ballot[r].round = n
        \/ \E s \in staged[r] : s.round = n
        \/ \E i \in 1 .. Len(inbox[r]) :
              inbox[r][i].origin # r /\ inbox[r][i].round = n
FreshRounds == {n \in Round : ~Referenced(n)}

\* Seeded bug: the event bypasses publish, which stamps it.
RoundEventUnstamped(r, action) ==
    [action |-> action, version |-> job[r].version, origin |-> Free,
     round |-> ballot[r].round]
RoundEvent(r, action) ==
    [action |-> action, version |-> job[r].version, origin |-> r,
     round |-> ballot[r].round]

\* A broadcast of the leader that it does not depend on: an error is logged.
Tell(r, event) ==
    \/ inbox' = Deliver(inbox, event) /\ UNCHANGED faults
    \/ Fault("call") /\ UNCHANGED inbox

EndRound(r) == EndCycle(r) /\ ballot' = [ballot EXCEPT ![r] = NoBallot]

----------------------------------------------------------------------------
\* leaderSync2PC after fetchAndStage.

Save(r) == SavePending(r, "reset") /\ UNCHANGED roundVars

Cleared(v) == [q \in Replicas |-> [applyLog[q] EXCEPT ![v] = "none"]]

\* ResetApplyLog; its error may come after the rows are gone.
ResetApplyLog(r) ==
    /\ pc[r] = "reset"
    /\ \/ /\ applyLog' = Cleared(job[r].version)
          /\ Goto(r, "target")
          /\ UNCHANGED <<lock, job, faults>>
       \/ /\ Fault("call")
          /\ applyLog' \in {applyLog, Cleared(job[r].version)}
          /\ EndCycle(r)
    /\ UNCHANGED <<source, now, rows, cache, inbox, mem, op, decided, roundVars>>

\* The target set is the instances alive now; the leader votes for itself.
TakeTarget(r) ==
    /\ pc[r] = "target"
    /\ \/ /\ ballot' = [ballot EXCEPT ![r].target = alive]
          /\ LogApply(r, job[r].version, "prepared")
          /\ Goto(r, "prepare")
          /\ UNCHANGED <<lock, job, faults>>
       \/ /\ Fault("call") /\ EndRound(r)
          /\ LogApply(r, job[r].version, "prepared") \/ UNCHANGED applyLog
    /\ UNCHANGED <<source, now, rows, cache, inbox, mem, op, decided, alive, staged>>

\* Cycles are a poll interval apart: the events of one are handled by the next.
RoomForRound(r) ==
    Punctual => \A q \in Replicas \ {r} : Len(inbox[q]) < QueueCap

\* The prepare event opens the round.  An error ends the cycle, with the event
\* perhaps out and no abort to follow it.
PublishPrepare(r) ==
    /\ pc[r] = "prepare"
    /\ FreshRounds # {} /\ RoomForRound(r)
    /\ LET n == Min(FreshRounds)
           open == Deliver(inbox, [RoundEvent(r, "prepare") EXCEPT !.round = n])
       IN  \/ /\ inbox' = open
              /\ ballot' = [ballot EXCEPT ![r].round = n]
              /\ Goto(r, "vote")
              /\ UNCHANGED <<lock, job, faults>>
           \/ Fault("call") /\ inbox' \in {inbox, open} /\ EndRound(r)
    /\ UNCHANGED <<source, now, rows, applyLog, cache, mem, op, decided, alive, staged>>

----------------------------------------------------------------------------
\* waitPreparesOrAbort and checkPrepares.  A target that is no longer alive
\* neither blocks the round nor fails it.

\* The count begins with the instances alive now; the answers are read later.
ReadAlive(r) ==
    /\ pc[r] = "vote"
    /\ ballot' = [ballot EXCEPT ![r].live = ballot[r].target \cap alive]
    /\ Goto(r, "count")
    /\ UNCHANGED <<source, now, rows, applyLog, lock, cache, inbox, mem, job, op,
                   decided, faults, alive, staged>>

Electorate(r) == ballot[r].live
Answered(r, q, status) == applyLog[q][job[r].version] = status
Refused(r) == \E q \in Electorate(r) : Answered(r, q, "prepare_failed")

\* Seeded bug: one prepared target is enough.
PreparedByAny(r) == \E q \in ballot[r].target : Answered(r, q, "prepared")

Prepared(r) == \A q \in Electorate(r) : Answered(r, q, "prepared")

\* An answer to the round can still come: its prepare event is undelivered, or
\* being handled.
StillAnswers(r, q) ==
    \/ \E i \in 1 .. Len(inbox[q]) :
          inbox[q][i].action = "prepare" /\ inbox[q][i].round = ballot[r].round
    \/ pc[q] \in {"vote_yes", "vote_no"}

\* Waiting is in vain: the deadline passes.
Hopeless(r) ==
    \E q \in Electorate(r) \cap alive :
        ~Answered(r, q, "prepared") /\ ~StillAnswers(r, q)

\* A query that fails aborts the round, and so does a deadline that passes while
\* an answer is on its way: either is one fault.
Vote(r) ==
    /\ pc[r] = "count"
    /\ \/ Refused(r) /\ Goto(r, "abort") /\ UNCHANGED faults
       \/ ~Refused(r) /\ Prepared(r) /\ Goto(r, "activate") /\ UNCHANGED faults
       \/ /\ ~Refused(r) /\ ~Prepared(r)
          /\ Goto(r, IF Hopeless(r) THEN "abort" ELSE "vote")
          /\ UNCHANGED faults
       \/ Fault("call") /\ Goto(r, "abort")
    /\ ballot' = [ballot EXCEPT ![r].live = {}]
    /\ UNCHANGED <<source, now, rows, applyLog, lock, cache, inbox, mem, job, op,
                   decided, alive, staged>>

\* Seeded bug: the commit goes out as soon as the votes are counted.
BeginAnnounced(r) ==
    /\ pc[r] = "activate"
    /\ job' = [job EXCEPT ![r].demote = ActiveVersions(rows)]
    /\ inbox' = Deliver(inbox, RoundEvent(r, "commit"))
    /\ Goto(r, "commit_activation")
    /\ UNCHANGED <<source, now, rows, applyLog, lock, cache, mem, op, decided,
                   faults, roundVars>>

\* The activation is the commit decision.
Begin(r) == BeginActivate(r, "abort") /\ UNCHANGED roundVars
Decide(r) == CommitActivation(r, "announce", "abort") /\ UNCHANGED roundVars

AnnounceCommit(r) ==
    /\ pc[r] = "announce"
    /\ Tell(r, RoundEvent(r, "commit"))
    /\ Goto(r, "apply")
    /\ UNCHANGED <<source, now, rows, applyLog, lock, cache, mem, job, op, decided, roundVars>>

Apply(r) == ApplyStaged(r, "record") /\ UNCHANGED roundVars

\* The outcome is logged, then the cache is written.
Record(r) ==
    /\ pc[r] = "record"
    /\ CacheAndLog(r, job[r].version, job[r].content, "committed")
    /\ Goto(r, "fallback")
    /\ UNCHANGED <<source, now, rows, lock, inbox, mem, job, op, decided, roundVars>>

\* The sync event for a follower that missed the commit ends the cycle.
AnnounceSync(r) ==
    /\ pc[r] = "fallback"
    /\ Tell(r, [RoundEvent(r, "sync") EXCEPT !.round = 0])
    /\ EndRound(r)
    /\ UNCHANGED <<source, now, rows, applyLog, cache, mem, op, decided, alive, staged>>

----------------------------------------------------------------------------
\* abortRound and failSnapshotUnlessActive.

AnnounceAbort(r) ==
    /\ pc[r] = "abort"
    /\ Tell(r, RoundEvent(r, "abort"))
    /\ Goto(r, "abort_check")
    /\ UNCHANGED <<source, now, rows, applyLog, lock, cache, mem, job, op, decided, roundVars>>

\* Seeded bug: the check of the active version is missing.
FailAnyway(r) ==
    /\ pc[r] = "abort_check"
    /\ Goto(r, "fail_row")
    /\ UNCHANGED <<source, now, rows, applyLog, lock, cache, inbox, mem, job, op,
                   decided, faults, roundVars>>

\* A version that is active after all, or an active version that cannot be
\* read, leaves the row alone.
CheckActive(r) ==
    /\ pc[r] = "abort_check"
    /\ \/ \E v \in ActiveSnapshot(rows) :
             /\ UNCHANGED faults
             /\ \/ /\ v # job[r].version
                   /\ Goto(r, "fail_row")
                   /\ UNCHANGED <<lock, job, ballot>>
                \/ v = job[r].version /\ EndRound(r)
       \/ Fault("call") /\ EndRound(r)
    /\ UNCHANGED <<source, now, rows, applyLog, cache, inbox, mem, op, decided, alive, staged>>

FailRow(r) ==
    /\ pc[r] = "fail_row"
    /\ \/ rows' = FailSnapshot(rows, job[r].version) /\ UNCHANGED faults
       \/ Fault("call") /\ UNCHANGED rows
    /\ EndRound(r)
    /\ UNCHANGED <<source, now, applyLog, cache, inbox, mem, op, decided, alive, staged>>

----------------------------------------------------------------------------
\* The follower's handlers.

Stash(r, n, v, c) ==
    staged' = [staged EXCEPT ![r] = {s \in @ : s.round # n} \cup
                  {[round |-> n, version |-> v, content |-> c]}]
\* stageFromBytes: what the validator refuses is not held.
stageFromBytes(r, n, v) == Loads(r, v) /\ Stash(r, n, v, rows[v].content)
DropStage(r, n) == staged' = [staged EXCEPT ![r] = {s \in @ : s.round # n}]

\* Seeded bug: the active snapshot is staged, not the one of the event.
HandlePrepareActive(r) ==
    LET e == Head(inbox[r])
    IN  /\ Receives(r, "prepare")
        /\ Consume(r)
        /\ job' = [job EXCEPT ![r].version = e.version]
        /\ \E v \in ActiveSnapshot(rows) :
              IF v # NoVersion /\ Loads(r, v)
              THEN Stash(r, e.round, e.version, rows[v].content) /\ Goto(r, "vote_yes")
              ELSE Goto(r, "vote_no") /\ UNCHANGED staged
        /\ UNCHANGED <<source, now, rows, applyLog, lock, cache, mem, op, decided,
                       faults, alive, ballot>>

\* handlePrepareEvent up to its answer: the snapshot is read and staged.
HandlePrepare(r) ==
    LET e == Head(inbox[r])
        v == e.version
    IN  /\ Receives(r, "prepare")
        /\ Consume(r)
        /\ job' = [job EXCEPT ![r].version = v]
        /\ \/ /\ Exists(rows, v) /\ stageFromBytes(r, e.round, v)
              /\ Goto(r, "vote_yes")
              /\ UNCHANGED faults
           \/ /\ \/ ~(Exists(rows, v) /\ Loads(r, v)) /\ UNCHANGED faults
                 \/ Fault("call")
              /\ Goto(r, "vote_no")
              /\ UNCHANGED staged
        /\ UNCHANGED <<source, now, rows, applyLog, lock, cache, mem, op, decided, alive, ballot>>

\* The answer, under the version: a row of the log does not name the round.
Answer(r) ==
    /\ pc[r] \in {"vote_yes", "vote_no"}
    /\ \/ /\ LogApply(r, job[r].version,
                      IF pc[r] = "vote_yes" THEN "prepared" ELSE "prepare_failed")
          /\ UNCHANGED faults
       \/ Fault("call") /\ UNCHANGED applyLog
    /\ Goto(r, "idle")
    /\ job' = [job EXCEPT ![r] = NoJob]
    /\ UNCHANGED <<source, now, rows, lock, cache, inbox, mem, op, decided, roundVars>>

\* commitByRoundID, in whatever direction; a panicking hook is an error with
\* the value live.
CommitStage(r, s) ==
    /\ mem' = [mem EXCEPT ![r] = [version |-> s.version, content |-> s.content]]
    /\ \/ TryLogApply(r, s.version, "committed")
       \/ LogApply(r, s.version, "error") /\ Fault("hook")

\* A commit whose stage is gone applies the stored snapshot.
CommitStored(r, v) ==
    \/ /\ Exists(rows, v) /\ Loads(r, v)
       /\ Swap(r, v)
       /\ \/ TryLogApply(r, v, "committed")
          \/ LogApply(r, v, "error") /\ Fault("hook")
    \/ /\ \/ ~(Exists(rows, v) /\ Loads(r, v)) /\ TryLogApply(r, v, "error")
          \/ LogApply(r, v, "error") /\ Fault("call")
       /\ UNCHANGED mem

HandleCommit(r) ==
    LET e == Head(inbox[r])
        held == {s \in staged[r] : s.round = e.round}
    IN  /\ Receives(r, "commit")
        /\ Consume(r)
        /\ \/ \E s \in held : CommitStage(r, s)
           \/ held = {} /\ CommitStored(r, e.version)
        /\ DropStage(r, e.round)
        /\ UNCHANGED <<source, now, rows, lock, cache, pc, job, op, decided, alive, ballot>>

HandleAbort(r) ==
    /\ Receives(r, "abort")
    /\ Consume(r)
    /\ DropStage(r, Head(inbox[r]).round)
    /\ UNCHANGED <<source, now, rows, applyLog, lock, cache, pc, mem, job, op,
                   decided, faults, alive, ballot>>

----------------------------------------------------------------------------
\* What the mode adds to the shared steps: the registry and the sweep.

\* The stages past their TTL, whichever they are.
dropExpiredStages(r) ==
    \E kept \in SUBSET staged[r] : staged' = [staged EXCEPT ![r] = kept]

\* A reconcile tick sweeps the stages first.
Tick(r) ==
    /\ ReconcileTick(r)
    /\ dropExpiredStages(r)
    /\ UNCHANGED <<alive, ballot>>

\* Start registers the instance before it subscribes.
Shared(r) ==
    /\ SharedStep(r)
    /\ alive' = IF Running(r) THEN alive ELSE alive \cup {r}
    /\ UNCHANGED <<staged, ballot>>

\* Registered, and not yet subscribed: a prepare event misses it.
Register(r) ==
    /\ ~Running(r)
    /\ alive' = alive \cup {r}
    /\ UNCHANGED <<vars, staged, ballot>>

\* A row goes stale once its instance is down for the heartbeat's timeout, or
\* while it runs and cannot reach the registry.
Expire(r) ==
    /\ r \in alive
    /\ alive' = alive \ {r}
    /\ \/ ~Running(r) /\ UNCHANGED faults
       \/ Running(r) /\ Fault("stall")
    /\ UNCHANGED <<source, now, rows, applyLog, lock, cache, inbox, pc, mem, job,
                   op, decided, staged, ballot>>

Heartbeat(r) ==
    /\ Running(r)
    /\ r \notin alive
    /\ alive' = alive \cup {r}
    /\ UNCHANGED <<vars, staged, ballot>>

\* The row of a dead process stays; what it staged is gone.
Die(r) ==
    /\ Crash(r)
    /\ staged' = [staged EXCEPT ![r] = {}]
    /\ ballot' = [ballot EXCEPT ![r] = NoBallot]
    /\ UNCHANGED alive

LeaderStep(r) ==
    \/ Save(r) \/ ResetApplyLog(r) \/ TakeTarget(r) \/ PublishPrepare(r)
    \/ ReadAlive(r) \/ Vote(r) \/ Begin(r) \/ Decide(r) \/ AnnounceCommit(r) \/ Apply(r)
    \/ Record(r) \/ AnnounceSync(r)
    \/ AnnounceAbort(r) \/ CheckActive(r) \/ FailRow(r)

FollowerStep(r) ==
    \/ HandlePrepare(r) \/ Answer(r) \/ HandleCommit(r) \/ HandleAbort(r)

RoundInit ==
    /\ alive = {}
    /\ staged = [r \in Replicas |-> {}]
    /\ ballot = [r \in Replicas |-> NoBallot]

Next ==
    \/ \E r \in Replicas :
          \/ Shared(r) \/ Tick(r) \/ LeaderStep(r) \/ FollowerStep(r)
          \/ Register(r) \/ Expire(r) \/ Heartbeat(r) \/ Die(r)
    \/ Environment /\ UNCHANGED roundVars

Spec == Init /\ RoundInit /\ [][Next]_allVars

----------------------------------------------------------------------------
\* Types.

Place == {"down", "load_cache", "load_storage", "boot", "idle", "probe",
          "catch_up", "rolled", "fetch", "stage", "save", "reset", "target",
          "prepare", "vote", "count", "activate", "commit_activation", "announce",
          "apply", "record", "fallback", "repair", "warm", "abort", "abort_check",
          "fail_row", "vote_yes", "vote_no"}

\* Every variable holds what the Go types and the tables allow.
TypeOK ==
    /\ source \in Entry
    /\ now \in Version
    /\ rows \in Table
    /\ applyLog \in [Replicas -> [Version -> ApplyStatus]]
    /\ lock \in Replicas \cup {Free, Operator}
    /\ cache \in Entry \cup {NoEntry}
    /\ inbox \in [Replicas -> Seq(Event)]
    /\ pc \in [Replicas -> Place]
    /\ mem \in [Replicas -> Value]
    /\ job \in [Replicas -> Job]
    /\ decided \subseteq Version
    /\ faults \in 0 .. MaxFaults
    /\ alive \subseteq Replicas
    /\ staged \in [Replicas -> SUBSET Stage]
    /\ ballot \in [Replicas ->
                     [round : 0 .. MaxRounds, target : SUBSET Replicas,
                      live : SUBSET Replicas]]

----------------------------------------------------------------------------
\* Safety.

\* The activation is the decision (manager/sync.go, step 7): whatever fails,
\* no replica serves, no commit or sync event announces and no cache entry
\* holds a version that was not activated first.
DecidedFirst ==
    /\ \A r \in Replicas : mem[r].version \in decided \cup {NoVersion}
    /\ \A r \in Replicas : \A i \in 1 .. Len(inbox[r]) :
          inbox[r][i].action \in {"sync", "commit"} => inbox[r][i].version \in decided
    /\ cache # NoEntry => cache.version \in decided

\* A round goes on to its decision only with the consent of every other target
\* that was alive when the count began: none of them refuses the payload of the
\* row to be activated, whichever round of the version their answers were given
\* in (waitPreparesOrAbort).
Unanimous ==
    [][\A r \in Replicas :
          pc[r] = "count" /\ pc'[r] = "activate" =>
             \A q \in Electorate(r) \ {r} : Accepts(q, rows[job[r].version].content)]_allVars

\* An aborted round never takes the active row with it, not even when the
\* activation reported an error after it committed
\* (failSnapshotUnlessActive: "demoting it strands restarts").
ActiveNeverLost ==
    decided # {} => \E v \in decided :
        /\ ActiveVersions(rows) = {v}
        /\ rows[v].content \in Contents

\* A staged value is what the store holds under its version, so a commit that
\* finds it and one that reloads it serve the same
\* (handleCommitEvent: "reload the payload from storage").
StagedAsStored ==
    \A r \in Replicas : \A s \in staged[r] : rows[s.version].content = s.content

\* Followers go back only where they are told to: a running replica leaves a
\* version for an older one on a commit event that comes late, which is obeyed
\* without a forward check (handleCommitEvent), or on a rollback event, and in
\* no other step, its own late rounds included.
BackOnlyWhenTold ==
    [][\A r \in Replicas :
          mem'[r] # mem[r] =>
             \/ Forward(mem'[r].version, mem[r].version)
             \/ pc[r] = "load_storage"
             \/ pc[r] = "idle" /\ (Receives(r, "commit") \/ Receives(r, "rollback"))
             \/ pc'[r] = "down"]_allVars

----------------------------------------------------------------------------
\* Refinement.

CP == INSTANCE ConfigPropagation WITH
        history <- decided,
        active <- ActiveVersions(rows),
        served <- [r \in Replicas |-> mem[r].version],
        LateCommits <- TRUE

\* The strict mode keeps the promise of the eventual one, but for commits that
\* arrive late.
ImplementsPropagation == CP!Spec

----------------------------------------------------------------------------
\* Liveness, with the fairness of the eventual mode, a restart that is not held
\* up by its registry row, and rows that do go stale.

Midway(r) ==
    \/ Shared(r) /\ pc[r] # "idle"
    \/ LeaderStep(r) \/ Answer(r)

Fairness ==
    \A r \in Replicas :
        /\ WF_allVars(Midway(r))
        /\ SF_allVars(Tick(r))
        /\ SF_allVars(/\ pc[r] = "idle"
                      /\ \/ Shared(r) /\ inbox'[r] # inbox[r]
                         \/ FollowerStep(r))
        /\ WF_allVars(Expire(r) /\ ~Running(r))
        /\ WF_allVars(Heartbeat(r))

\* Once edits and faults stop, a round succeeds and every replica serves what
\* the source holds, whoever crashed, whatever was lost and however many rounds
\* were aborted before (abortRound: "the leader retries the same version").
Converges ==
    <>[](\A r \in Replicas : mem[r] = source)
=============================================================================
