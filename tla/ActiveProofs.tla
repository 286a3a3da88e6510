---------------------------- MODULE ActiveProofs ----------------------------
(***************************************************************************)
(* What EventualSync promises while the advisory lock does its work, that  *)
(* is, while no session that holds it is lost: exactly one snapshot is     *)
(* active, the operator's freeze holds, and while the source's time is     *)
(* honest as well, the active version only moves forward and no replica    *)
(* is ahead of it.                                                         *)
(*                                                                         *)
(* Last, what the rollback runbook promises when its query accounts for    *)
(* every alive replica: each of them serves the target until the lock is   *)
(* released.  The rows that the query reads carry no round, so a second    *)
(* rollback to one version can be answered by the rows of the first: the   *)
(* proof is about the first rollback of a cluster.                         *)
(***************************************************************************)
EXTENDS EventualSyncProofs

----------------------------------------------------------------------------
\* One active row.  The rows that an activation demotes were read by a statement
\* before its commit: they are still the active ones, for nobody else decides.

OneActive == decided # {} => \E v \in decided : ActiveVersions(rows) = {v}

Demotes ==
    \A r \in Replicas :
        pc[r] = "commit_activation" => job[r].demote = ActiveVersions(rows)

Frozen == op.phase \in {"flipped", "announced", "verified"} => ActiveVersions(rows) = {op.target}

ActiveInv == OneActive /\ Demotes /\ Frozen

\* A leader holds the lock, so the operator is not at work.
LEMMA DecidesAlone ==
    ASSUME LockInv, NEW r \in Replicas, Decides(r)
    PROVE  op.phase = "none" /\ \A q \in Replicas : pc[q] \in Leading => q = r
BY ClusterAssumption DEF LockInv, OneLeader, Leading, Decides

\* While the operator is at work, nobody leads.
LEMMA FlipsAlone ==
    ASSUME LockInv, op.phase # "none", NEW q \in Replicas
    PROVE  pc[q] \notin Leading
BY ClusterAssumption DEF LockInv, OneLeader

\* An activation demotes all that is active, a flip too.
LEMMA OneActiveStep ==
    ASSUME SafeInv, ActiveInv, Next
    PROVE  OneActive'
<1>1. CASE Quiet
  BY <1>1 DEF Quiet, ActiveInv, OneActive
<1>2. ASSUME NEW r \in Replicas, Decides(r) PROVE OneActive'
  <2>1. ActiveVersions(rows') = {job[r].version}
    BY <1>2 DEF Decides, ActiveInv, Demotes
  <2> QED
    BY <1>2, <2>1 DEF Decides, OneActive
<1>3. ASSUME NEW v \in Version, Flips(v) PROVE OneActive'
  BY <1>3 DEF Flips, OneActive
<1> QED
  BY <1>1, <1>2, <1>3, ActiveCases

\* From the statement that reads the active rows to the commit that demotes
\* them, nothing else activates.
LEMMA DemotesStep ==
    ASSUME SafeInv, LockInv, ActiveInv, Next
    PROVE  Demotes'
<1> SUFFICES ASSUME NEW q \in Replicas, pc'[q] = "commit_activation"
             PROVE  job'[q].demote = ActiveVersions(rows')
  BY DEF Demotes
<1> USE DEF SafeInv, TypeInv, TypeOK
<1>1. ASSUME Decide(q) \/ FetchVersion(q) \/ FetchAndStage(q) \/ Save(q), ~EndCycle(q)
      PROVE  FALSE
  BY <1>1 DEF Decide, CommitActivation, FetchVersion, CheckVersion, FetchAndStage, Save,
     SavePending, Goto
<1>2. CASE Begin(q)
  <2>1. /\ UNCHANGED rows
        /\ job' = [job EXCEPT ![q] = [job[q] EXCEPT !.demote = ActiveVersions(rows)]]
    BY <1>2 DEF Begin, BeginActivate, Goto
  <2> QED
    BY <2>1 DEF Job
<1>3. CASE pc'[q] = pc[q] /\ job'[q] = job[q]
  <2>1. pc[q] \in Leading
    BY <1>3 DEF Leading
  <2>2. CASE Quiet
    BY <1>3, <2>2 DEF Quiet, ActiveInv, Demotes
  <2>3. ASSUME NEW r \in Replicas, Decides(r) PROVE FALSE
    <3>1. Decide(q)
      BY <2>1, <2>3, DecidesAlone DEF Decides
    <3> QED
      BY <3>1 DEF Decide, CommitActivation, Goto
  <2>4. ASSUME NEW v \in Version, Flips(v) PROVE FALSE
    BY <2>1, <2>4, FlipsAlone DEF Flips
  <2> QED
    BY <2>2, <2>3, <2>4, ActiveCases
<1> HIDE DEF SafeInv, TypeInv, TypeOK
<1> QED
  BY <1>1, <1>2, <1>3, UndecidedCases DEF Undecided, SafeInv, TypeInv

\* The operator's session keeps every leader out until it releases the lock.
LEMMA FrozenStep ==
    ASSUME SafeInv, LockInv, ActiveInv, Next
    PROVE  Frozen'
<1> USE DEF SafeInv, TypeInv
<1>1. ASSUME NEW r \in Replicas, SharedStep(r) \/ LeaderStep(r) \/ Crash(r)
      PROVE  op'.phase = op.phase /\ op'.target = op.target
  BY <1>1, OpKept
<1>2. CASE Quiet
  <2>1. ASSUME Environment, op'.phase \in {"flipped", "announced", "verified"}
        PROVE  \/ op.phase \in {"flipped", "announced", "verified"} /\ op'.target = op.target
               \/ \E v \in Version : Flip(v)
    BY <2>1 DEF Environment, SourceUpdate, SourceDelete, Freeze, Announce, Verify,
       Release, OpMove, LoseEvent, LoseSession, EvictCache, TypeOK
  <2>2. ASSUME NEW v \in Version, Flip(v) PROVE Frozen'
    <3>1. op'.target = v /\ ActiveVersions(rows') = {v}
      BY <2>2, ActivateDecides DEF Flip, TypeOK
    <3> QED
      BY <3>1 DEF Frozen
  <2> QED
    BY <1>1, <1>2, <2>1, <2>2 DEF Quiet, ActiveInv, Frozen, Next
<1>3. ASSUME NEW r \in Replicas, Decides(r) PROVE Frozen'
  <2>1. op.phase = "none"
    BY <1>3, DecidesAlone
  <2>2. op'.phase = op.phase
    BY <1>1, <1>3 DEF Decides, LeaderStep
  <2> QED
    BY <2>1, <2>2 DEF Frozen
<1>4. ASSUME NEW v \in Version, Flips(v) PROVE Frozen'
  <2>1. op'.target = v /\ ActiveVersions(rows') = {v}
    BY <1>4 DEF Flips, TypeOK
  <2> QED
    BY <2>1 DEF Frozen
<1> QED
  BY <1>2, <1>3, <1>4, ActiveCases

\* What is inductive while sessions hold.
HeldInv == SafeInv /\ LockInv /\ ActiveInv

\* It holds at the start.
LEMMA HeldInit == Init => HeldInv
<1>1. Init => LockInv /\ ActiveInv
  BY DEF Init, LockInv, OneLeader, Leading, ActiveInv, OneActive, Demotes, Frozen
<1> QED
  BY <1>1, SafeInit DEF HeldInv

\* And every step keeps it.
LEMMA HeldStep ==
    ASSUME "session" \notin FaultKinds
    PROVE  HeldInv /\ [Next]_vars => HeldInv'
<1>1. ASSUME HeldInv, Next PROVE HeldInv'
  <2>1. SafeInv' /\ LockInv'
    BY <1>1, SafeStep, LockStep DEF HeldInv, SafeInv, TypeInv
  <2>2. ActiveInv'
    BY <1>1, OneActiveStep, DemotesStep, FrozenStep DEF HeldInv, ActiveInv
  <2> QED
    BY <2>1, <2>2 DEF HeldInv
<1>2. ASSUME HeldInv, UNCHANGED vars PROVE HeldInv'
  <2>1. SafeInv'
    BY <1>2, SafeStep DEF HeldInv
  <2> QED
    BY <1>2, <2>1 DEF vars, HeldInv, LockInv, OneLeader, ActiveInv, OneActive, Demotes, Frozen
<1> QED
  BY <1>1, <1>2

\* What HeldInv says of the rows and the freeze, in the words of the properties.
LEMMA HeldImplies == HeldInv => ActiveNeverLost /\ FreezeHolds
<1> SUFFICES ASSUME HeldInv PROVE ActiveNeverLost /\ FreezeHolds
  OBVIOUS
<1>1. \A v \in Version : ActiveVersions(rows) = {v} => rows[v].content \in Contents
  BY DEF HeldInv, SafeInv, TypeInv, LocalsOK, Payloads, ActiveVersions, Exists
<1>2. decided \subseteq Version
  BY DEF HeldInv, SafeInv, TypeInv, TypeOK
<1>3. ActiveNeverLost
  BY <1>1, <1>2 DEF HeldInv, ActiveInv, OneActive, ActiveNeverLost
<1>4. FreezeHolds
  BY FlipsAlone DEF HeldInv, ActiveInv, Frozen, FreezeHolds
<1> QED
  BY <1>3, <1>4

\* Once a version was activated there is exactly one active row, and it has a
\* payload, as long as the lock session of a leader holds.
THEOREM ActiveNeverLostHolds ==
    ASSUME "session" \notin FaultKinds
    PROVE  Spec => []ActiveNeverLost
BY HeldInit, HeldStep, HeldImplies, PTL DEF Spec

\* From the operator's flip to the release, the target is the one active version
\* and no replica leads.
THEOREM FreezeHoldsHolds ==
    ASSUME "session" \notin FaultKinds
    PROVE  Spec => []FreezeHolds
BY HeldInit, HeldStep, HeldImplies, PTL DEF Spec

----------------------------------------------------------------------------
\* Forward only.  Without rollbacks, forced cycles and a source whose time goes
\* back, versions are decided in the order in which the source stamped them: a
\* leader alone reads the time, and decides, before anyone reads it again.

Fetched == Undecided \ {"apply"}

InOrder ==
    /\ \A v \in decided : v <= source.version
    /\ \A r \in Replicas : pc[r] \in Fetched =>
          /\ job[r].version <= source.version
          /\ \A v \in decided : v <= job[r].version
    /\ \A v \in ActiveVersions(rows), w \in decided : w <= v

ForwardInv ==
    /\ op.phase = "none"
    /\ source.version <= now
    /\ \A r \in Replicas : job[r].force = FALSE
    /\ InOrder

\* Without a delete the source's time only grows, up to the clock.
LEMMA SourceStep ==
    ASSUME "delete" \notin FaultKinds, TypeOK, source.version <= now, Next
    PROVE  source.version <= source'.version /\ source'.version <= now'
<1> DEFINE Grows == source.version <= source'.version /\ source'.version <= now'
<1>0. source.version \in Int /\ now \in Int
  BY DEF TypeOK, Entry, Version
<1>1. ASSUME SourceUpdate PROVE Grows
  BY <1>0, <1>1 DEF SourceUpdate
<1>2. ASSUME NEW r \in Replicas, FetchVersion(r) PROVE Grows
  <2>1. UNCHANGED source /\ now' \in Int /\ now <= now'
    BY <1>0, <1>2 DEF FetchVersion, CheckVersion, Version
  <2> QED
    BY <1>0, <2>1
<1>3. ASSUME NEW r \in Replicas, SharedStep(r) \/ LeaderStep(r) \/ Crash(r), ~FetchVersion(r)
      PROVE  UNCHANGED <<source, now>>
  BY <1>3 DEF SharedStep, LeaderStep, Start, LoadFromCache, LoadFromStorage, Boot, WarmCache,
     ReconcileTick, SyncCycle, ForcedCycle, RepairCache, WarmEntry, FetchAndStage, CycleFails,
     CatchUpProbe, CatchUpApply, DropEcho, HandleSync, HandleRollback, RecordRollback,
     Maintain, Save, SavePending, Begin, BeginActivate, Decide, CommitActivation, Apply,
     ApplyStaged, Publish, Record, Finish, Crash
<1>4. ASSUME Environment, ~SourceUpdate PROVE UNCHANGED <<source, now>>
  BY <1>4 DEF Environment, SourceDelete, Fault, Freeze, Flip, Announce, Verify, Release,
     LoseEvent, LoseSession, EvictCache
<1>5. ASSUME UNCHANGED <<source, now>> PROVE Grows
  BY <1>0, <1>5
<1> HIDE DEF Grows
<1>6. ASSUME NEW r \in Replicas, SharedStep(r) \/ LeaderStep(r) \/ Crash(r) PROVE Grows
  <2>1. CASE FetchVersion(r)
    BY <1>2, <2>1
  <2>2. CASE ~FetchVersion(r)
    BY <1>3, <1>5, <1>6, <2>2
  <2> QED
    BY <2>1, <2>2
<1>7. ASSUME Environment PROVE Grows
  BY <1>1, <1>4, <1>5, <1>7
<1>8. Grows
  BY <1>6, <1>7 DEF Next
<1> QED
  BY <1>8 DEF Grows

\* Without change events no cycle is forced.
LEMMA NeverForced ==
    ASSUME WebSocket = FALSE, TypeOK, Next, NEW q \in Replicas, job[q].force = FALSE
    PROVE  job'[q].force = FALSE
<1> USE DEF TypeOK
<1>1. job[q] \in Job
  OBVIOUS
<1>2. ASSUME NEW j, job' = [job EXCEPT ![q] = j], j.force = FALSE PROVE job'[q].force = FALSE
  BY <1>2
<1>3. ASSUME EndCycle(q) PROVE job'[q].force = FALSE
  BY <1>2, <1>3 DEF EndCycle, NoJob
<1>4. ASSUME NEW then, NEW other, TryLead(q, FALSE, then, other) PROVE job'[q].force = FALSE
  BY <1>4 DEF TryLead, AcquireLock, NoJob
<1>5. ASSUME Boot(q) \/ ReconcileTick(q) \/ SyncCycle(q) \/ ForcedCycle(q)
      PROVE  job'[q].force = FALSE
  BY <1>4, <1>5 DEF Boot, WarmCache, AcquireLock, ReconcileTick, SyncCycle, ForcedCycle
<1>6. ASSUME FetchVersion(q) PROVE job'[q].force = FALSE
  <2> PICK v : CheckVersion(q, v)
    BY <1>6 DEF FetchVersion
  <2>1. \/ UNCHANGED job \/ EndCycle(q)
        \/ job' = [job EXCEPT ![q] = [job[q] EXCEPT !.version = v]]
    BY DEF CheckVersion
  <2> QED
    BY <1>1, <1>3, <2>1, JobFields
<1>7. ASSUME FetchAndStage(q) PROVE job'[q].force = FALSE
  <2>1. \/ EndCycle(q)
        \/ job' = [job EXCEPT ![q] = [job[q] EXCEPT !.content = source.content]]
    BY <1>7 DEF FetchAndStage
  <2> QED
    BY <1>1, <1>3, <2>1, JobFields
<1>8. ASSUME Begin(q) PROVE job'[q].force = FALSE
  <2>1. \/ UNCHANGED job
        \/ job' = [job EXCEPT ![q] = [job[q] EXCEPT !.demote = ActiveVersions(rows)]]
    BY <1>8 DEF Begin, BeginActivate
  <2> QED
    BY <1>1, <2>1, JobFields
<1>9. ASSUME HandleRollback(q) PROVE job'[q].force = FALSE
  <2>1. CASE ~UNCHANGED job
    <3>1. PICK v \in ActiveSnapshot(rows) : job' = [job EXCEPT ![q] =
             [job[q] EXCEPT !.version = v, !.content = rows[v].content]]
      BY <1>9, <2>1 DEF HandleRollback
    <3> QED
      BY <3>1, JobFields
  <2> QED
    BY <2>1
<1>10. ASSUME RepairCache(q) PROVE job'[q].force = FALSE
  <2>1. CASE ~EndCycle(q)
    <3>1. PICK v \in ActiveVersions(rows) : job' = [job EXCEPT ![q] =
             [job[q] EXCEPT !.version = v, !.content = rows[v].content]]
      BY <1>10, <2>1 DEF RepairCache
    <3> QED
      BY <3>1, JobFields
  <2> QED
    BY <1>3, <2>1
<1>15. ASSUME WarmEntry(q) \/ CycleFails(q) \/ Finish(q) \/ Save(q)
       PROVE  job'[q].force = FALSE
  BY <1>3, <1>15 DEF WarmEntry, CycleFails, Finish, Save, SavePending
<1>11. ASSUME RecordRollback(q) \/ Crash(q) PROVE job'[q].force = FALSE
  BY <1>2, <1>11 DEF RecordRollback, Crash, NoJob
<1>12. ASSUME \/ Start(q) \/ LoadFromCache(q) \/ LoadFromStorage(q) \/ CatchUpProbe(q)
              \/ CatchUpApply(q) \/ DropEcho(q) \/ HandleSync(q) \/ Maintain(q)
              \/ Decide(q) \/ Apply(q) \/ Publish(q) \/ Record(q)
       PROVE  UNCHANGED job
  BY <1>12 DEF Start, LoadFromCache, LoadFromStorage, CatchUpProbe, CatchUpApply, DropEcho,
     HandleSync, Maintain, Decide, CommitActivation, Apply, ApplyStaged, Publish, Record
<1>13. ASSUME NEW r \in Replicas \ {q}, SharedStep(r) \/ LeaderStep(r) \/ Crash(r)
       PROVE  job'[q] = job[q]
  BY <1>13, OthersKept
<1>14. ASSUME Environment PROVE UNCHANGED job
  BY <1>14 DEF Environment, SourceUpdate, SourceDelete, Freeze, Flip, Announce, Verify,
     Release, LoseEvent, LoseSession, EvictCache
<1> HIDE DEF TypeOK
<1> QED
  BY <1>5, <1>6, <1>7, <1>8, <1>9, <1>10, <1>11, <1>12, <1>13, <1>14,
     <1>15
  DEF Next, SharedStep, LeaderStep

\* Without rollbacks the operator never starts.
LEMMA NeverFrozen ==
    ASSUME MaxRollbacks = 0, TypeOK, op.phase = "none", Next
    PROVE  op'.phase = "none"
<1>1. ASSUME Freeze PROVE FALSE
  BY <1>1 DEF Freeze, TypeOK
<1>2. ASSUME Environment, ~Freeze PROVE UNCHANGED op
  BY <1>2 DEF Environment, SourceUpdate, SourceDelete, Flip, Announce, Verify, Release,
     LoseEvent, LoseSession, EvictCache
<1> QED
  BY <1>1, <1>2, OpKept DEF Next

\* An unforced cycle takes the version that the source holds.
LEMMA FetchesSource ==
    ASSUME "reading" \notin FaultKinds, TypeOK, NEW q \in Replicas, FetchVersion(q),
           job[q].force = FALSE, ~EndCycle(q), pc'[q] \in Undecided
    PROVE  job'[q].version = source.version
<1>1. PICK reported \in Version :
         Reports(reported) /\ CheckVersion(q, CycleVersion(q, reported))
  BY DEF FetchVersion
<1>2. CycleVersion(q, reported) = source.version
  BY <1>1 DEF Reports, Fault, CycleVersion
<1> QED
  BY <1>1, <1>2, CheckJob

\* The order is kept: what a leader fetched is at least as new as all that was
\* decided, and until it decides nobody else does.
LEMMA InOrderStep ==
    ASSUME {"session", "delete", "reading"} \cap FaultKinds = {},
           HeldInv, ForwardInv, Next
    PROVE  InOrder'
<1> USE DEF HeldInv, SafeInv, TypeInv, ForwardInv
<1>1. /\ decided \subseteq Version /\ Version \subseteq Int
      /\ \A q \in Replicas : pc'[q] \in Fetched => job[q].version \in Int
      /\ source.version \in Int /\ source'.version \in Int /\ now \in Int
  <2>1. TypeOK'
    BY TypeStep
  <2>2. Version \subseteq Int /\ Fetched \subseteq HoldsVersion
    BY DEF Version, Fetched, Undecided, HoldsVersion
  <2>3. decided \subseteq Version /\ now \in Int
    BY <2>2 DEF TypeOK
  <2>4. source.version \in Int /\ source'.version \in Int
    BY <2>1, <2>2 DEF TypeOK, Entry
  <2>5. \A q \in Replicas : job[q].version \in Int
    <3>1. AnyVersion \subseteq Int
      BY <2>2 DEF AnyVersion, NoVersion
    <3>2. \A q \in Replicas : job[q].version \in AnyVersion
      BY DEF TypeOK, Job
    <3> QED
      BY <3>1, <3>2
  <2> QED
    BY <2>2, <2>3, <2>4, <2>5
<1>2. source.version <= source'.version
  BY SourceStep
<1>3. ~\E v \in Version : Flips(v)
  BY DEF Flips
\* A decision adds the version of the one leader.
<1>4. ASSUME NEW r \in Replicas, Decides(r)
      PROVE  /\ job[r].version \in Int /\ job[r].version <= source.version
             /\ \A v \in decided : v <= job[r].version
             /\ decided' = decided \cup {job[r].version}
             /\ ActiveVersions(rows') = {job[r].version}
  BY <1>1, <1>4 DEF Decides, InOrder, Fetched, Undecided, ActiveInv, Demotes
<1>5. /\ \A v \in decided' : v <= source'.version
      /\ \A v \in ActiveVersions(rows'), w \in decided' : w <= v
  <2>1. CASE Quiet
    BY <1>1, <1>2, <2>1 DEF Quiet, InOrder
  <2>2. ASSUME NEW r \in Replicas, Decides(r)
        PROVE  /\ \A v \in decided' : v <= source'.version
               /\ \A v \in ActiveVersions(rows'), w \in decided' : w <= v
    <3>1. /\ job[r].version \in Int /\ job[r].version <= source.version
          /\ \A v \in decided : v <= job[r].version
          /\ decided' = decided \cup {job[r].version}
          /\ ActiveVersions(rows') = {job[r].version}
      BY <1>4, <2>2, Zenon
    <3> QED
      BY <1>1, <1>2, <3>1 DEF InOrder
  <2> QED
    BY <1>3, <2>1, <2>2, ActiveCases
<1>6. ASSUME NEW q \in Replicas, pc'[q] \in Fetched
      PROVE  /\ job'[q].version <= source'.version
             /\ \A v \in decided' : v <= job'[q].version
  <2>0. pc'[q] \in Undecided
    BY <1>6 DEF Fetched
  <2>1. ~Decide(q)
    BY <1>6 DEF Decide, CommitActivation, Goto, Fetched, Undecided, TypeOK
  <2>2. CASE FetchVersion(q) /\ ~EndCycle(q)
    <3>1. job'[q].version = source.version
      BY <2>0, <2>2, FetchesSource
    <3>2. UNCHANGED <<decided, source>>
      BY <2>2 DEF FetchVersion, CheckVersion
    <3> QED
      BY <1>1, <3>1, <3>2 DEF InOrder
  <2>3. CASE pc[q] \in Fetched /\ job'[q].version = job[q].version
    <3>1. UNCHANGED decided
      <4>1. ASSUME NEW r \in Replicas, Decides(r) PROVE FALSE
        <5>1. pc[q] \in Leading
          BY <2>3 DEF Fetched, Undecided, Leading
        <5> QED
          BY <2>1, <4>1, <5>1, DecidesAlone DEF Decides
      <4> QED
        BY <1>3, <4>1, ActiveCases DEF Quiet
    <3> QED
      BY <1>1, <1>2, <1>6, <2>3, <3>1 DEF InOrder
  <2> QED
    BY <1>6, <2>0, <2>2, <2>3, UndecidedJob DEF Fetched
<1> QED
  BY <1>5, <1>6 DEF InOrder

\* ForwardInv next to HeldInv.
LEMMA ForwardInvInit == Init => ForwardInv
BY DEF Init, ForwardInv, InOrder, Fetched, Undecided, NoJob, ActiveVersions, EmptyTable, NoRow

\* Every step keeps it.
LEMMA ForwardInvStep ==
    ASSUME {"session", "delete", "reading"} \cap FaultKinds = {},
           WebSocket = FALSE, MaxRollbacks = 0
    PROVE  HeldInv /\ ForwardInv /\ [Next]_vars => ForwardInv'
<1>1. ASSUME HeldInv, ForwardInv, Next PROVE ForwardInv'
  <2>1. TypeOK
    BY <1>1 DEF HeldInv, SafeInv, TypeInv
  <2>2. op'.phase = "none"
    BY <1>1, <2>1, NeverFrozen DEF ForwardInv
  <2>3. source'.version <= now'
    BY <1>1, <2>1, SourceStep DEF ForwardInv
  <2>4. \A r \in Replicas : job'[r].force = FALSE
    BY <1>1, <2>1, NeverForced DEF ForwardInv
  <2>5. InOrder'
    BY <1>1, InOrderStep
  <2> QED
    BY <2>2, <2>3, <2>4, <2>5 DEF ForwardInv
<1>2. ASSUME HeldInv, ForwardInv, UNCHANGED vars PROVE ForwardInv'
  BY <1>2 DEF vars, ForwardInv, InOrder, ActiveVersions
<1> QED
  BY <1>1, <1>2

\* The active version is the newest of the decided ones, and what a replica
\* serves is one of those.
LEMMA NewestActive ==
    ASSUME HeldInv, ForwardInv
    PROVE  NeverAhead
<1> SUFFICES ASSUME NEW r \in Replicas, mem[r].version # NoVersion
             PROVE  \E v \in ActiveVersions(rows) : ~After(mem[r].version, v)
  BY DEF NeverAhead
<1>1. mem[r].version \in decided /\ decided \subseteq Version
  BY DEF HeldInv, SafeInv, TypeInv, TypeOK, Decided, ServedIn, DecidedFirst
<1>2. PICK v \in decided : ActiveVersions(rows) = {v}
  BY <1>1 DEF HeldInv, ActiveInv, OneActive
<1>3. mem[r].version <= v
  BY <1>1, <1>2 DEF ForwardInv, InOrder
<1>4. mem[r].version \in 0 .. MaxVersion /\ v \in 0 .. MaxVersion
  BY <1>1, <1>2 DEF Version
<1>5. ~After(mem[r].version, v)
  BY <1>3, <1>4 DEF After, Time, NoVersion
<1> QED
  BY <1>2, <1>5

\* A decision is at least as new as what it replaces.
LEMMA DecidesForward ==
    ASSUME HeldInv, ForwardInv, Next,
           NEW v \in ActiveVersions(rows), NEW w \in ActiveVersions(rows'),
           w # v, w \notin ActiveVersions(rows)
    PROVE  After(w, v)
<1>1. PICK r \in Replicas : Decides(r)
  BY ActiveCases DEF HeldInv, Quiet, Flips, ForwardInv
<1>2. w = job[r].version /\ w \in Version
  BY <1>1 DEF Decides
<1>3. v \in decided /\ v \in Version
  BY DEF HeldInv, SafeInv, Decided, ActiveDecided, ActiveVersions
<1>4. v <= w
  BY <1>1, <1>2, <1>3 DEF Decides, ForwardInv, InOrder, Fetched, Undecided
<1>5. v \in 0 .. MaxVersion /\ w \in 0 .. MaxVersion
  BY <1>2, <1>3 DEF Version
<1> QED
  BY <1>4, <1>5 DEF After, Time, NoVersion

\* No replica serves a version newer than the active one: a leader whose
\* activation failed can always retry.
THEOREM NeverAheadHolds ==
    ASSUME {"session", "delete", "reading"} \cap FaultKinds = {},
           WebSocket = FALSE, MaxRollbacks = 0
    PROVE  Spec => []NeverAhead
<1>1. "session" \notin FaultKinds
  OBVIOUS
<1>2. HeldInv /\ [Next]_vars => HeldInv'
  BY <1>1, HeldStep
<1> QED
  BY HeldInit, <1>2, ForwardInvInit, ForwardInvStep, NewestActive, PTL DEF Spec

\* The cluster's active version is only ever replaced by a newer one.
THEOREM ActiveOnlyForwardHolds ==
    ASSUME {"session", "delete", "reading"} \cap FaultKinds = {},
           WebSocket = FALSE, MaxRollbacks = 0
    PROVE  Spec => ActiveOnlyForward
<1>1. "session" \notin FaultKinds
  OBVIOUS
<1>2. HeldInv /\ [Next]_vars => HeldInv'
  BY <1>1, HeldStep
<1>3. HeldInv /\ ForwardInv /\ [Next]_vars =>
        [\A v \in ActiveVersions(rows), w \in ActiveVersions(rows') :
            w # v /\ w \notin ActiveVersions(rows) => After(w, v)]_vars
  BY DecidesForward
<1> QED
  BY HeldInit, <1>2, ForwardInvInit, ForwardInvStep, <1>3, PTL DEF Spec, ActiveOnlyForward

----------------------------------------------------------------------------
\* What is still in a replica's buffer.

NoRollback(b) == \A i \in 1 .. Len(b) : b[i].action # "rollback"
NoSync(b) == \A i \in 1 .. Len(b) : b[i].action # "sync"
NoSyncAfter(b) ==
    \A i, j \in 1 .. Len(b) : i < j /\ b[i].action = "rollback" => b[j].action # "sync"

\* Taking the first event leaves what was said of the others.
LEMMA TailBox ==
    ASSUME NEW b \in Seq(Event), b # <<>>
    PROVE  /\ Tail(b) \in Seq(Event)
           /\ NoRollback(b) => NoRollback(Tail(b)) /\ Head(b).action # "rollback"
           /\ NoSync(b) => NoSync(Tail(b)) /\ Head(b).action # "sync"
           /\ NoSyncAfter(b) => NoSyncAfter(Tail(b))
           /\ NoSyncAfter(b) /\ Head(b).action = "rollback" => NoSync(Tail(b))
<1>1. /\ Tail(b) \in Seq(Event) /\ Head(b) = b[1] /\ Len(b) \in Nat \ {0}
      /\ Len(Tail(b)) = Len(b) - 1
      /\ \A i \in 1 .. Len(Tail(b)) : Tail(b)[i] = b[i + 1]
  OBVIOUS
<1>2. \A i \in 1 .. Len(Tail(b)) : i + 1 \in 1 .. Len(b) /\ 1 < i + 1
  BY <1>1
<1>3. 1 \in 1 .. Len(b)
  BY <1>1
<1>4. NoRollback(b) => NoRollback(Tail(b)) /\ Head(b).action # "rollback"
  BY <1>1, <1>2, <1>3 DEF NoRollback
<1>5. NoSync(b) => NoSync(Tail(b)) /\ Head(b).action # "sync"
  BY <1>1, <1>2, <1>3 DEF NoSync
<1>6. NoSyncAfter(b) => NoSyncAfter(Tail(b))
  <2>1. \A i, j \in 1 .. Len(Tail(b)) : i < j => i + 1 < j + 1
    OBVIOUS
  <2> QED
    BY <1>1, <1>2, <2>1 DEF NoSyncAfter
<1>7. NoSyncAfter(b) /\ Head(b).action = "rollback" => NoSync(Tail(b))
  BY <1>1, <1>2, <1>3 DEF NoSyncAfter, NoSync
<1> QED
  BY <1>1, <1>4, <1>5, <1>6, <1>7

\* What a broadcast leaves in a buffer.
LEMMA AppendBox ==
    ASSUME NEW b \in Seq(Event), NEW e \in Event
    PROVE  /\ e.action # "rollback" /\ NoRollback(b) => NoRollback(Append(b, e))
           /\ e.action # "sync" /\ NoSync(b) => NoSync(Append(b, e))
           /\ e.action # "sync" /\ NoSyncAfter(b) => NoSyncAfter(Append(b, e))
<1>1. /\ Len(b) \in Nat /\ Len(Append(b, e)) = Len(b) + 1
      /\ \A i \in 1 .. Len(b) : Append(b, e)[i] = b[i]
      /\ Append(b, e)[Len(b) + 1] = e
  OBVIOUS
<1>2. \A i \in 1 .. Len(Append(b, e)) : i \in 1 .. Len(b) \/ i = Len(b) + 1
  BY <1>1
<1>3. e.action # "rollback" /\ NoRollback(b) => NoRollback(Append(b, e))
  BY <1>1, <1>2 DEF NoRollback
<1>4. e.action # "sync" /\ NoSync(b) => NoSync(Append(b, e))
  BY <1>1, <1>2 DEF NoSync
<1>5. ASSUME e.action # "sync", NoSyncAfter(b),
             NEW i \in 1 .. Len(Append(b, e)), NEW j \in 1 .. Len(Append(b, e)), i < j,
             Append(b, e)[i].action = "rollback"
      PROVE  Append(b, e)[j].action # "sync"
  <2>1. CASE j = Len(b) + 1
    BY <1>1, <1>5, <2>1
  <2>2. CASE j \in 1 .. Len(b)
    <3>1. i \in 1 .. Len(b)
      BY <1>1, <1>5, <2>2
    <3>2. b[i].action = "rollback" /\ Append(b, e)[j] = b[j]
      BY <1>1, <1>5, <2>2, <3>1
    <3> QED
      BY <1>5, <2>2, <3>1, <3>2 DEF NoSyncAfter
  <2> QED
    BY <1>2, <2>1, <2>2
<1> QED
  BY <1>3, <1>4, <1>5 DEF NoSyncAfter

----------------------------------------------------------------------------
\* Before the operator announces its first rollback nobody has heard of one;
\* once it has, a replica that ran the handler serves the target and has nothing
\* left to read that could move it away.

Told == op.phase \in {"announced", "verified"}

Unheard(r) ==
    /\ \A v \in Version : applyLog[r][v] # "rolled_back"
    /\ NoRollback(inbox[r])
    /\ pc[r] # "rolled"

Untold ==
    /\ op.count = 0 => op.phase = "none"
    /\ op.count = 0 \/ op.phase \in {"frozen", "flipped"} => \A r \in Replicas : Unheard(r)

Settled(r) ==
    /\ mem[r].version = op.target
    /\ pc[r] \notin {"load_cache", "load_storage"}
    /\ NoSync(inbox[r])

\* The replicas that the operator may count.
Counted(r) ==
    /\ r \notin op.late /\ Running(r)
    /\ \/ pc[r] = "rolled"
       \/ applyLog[r][op.target] = "rolled_back"
       \/ op.phase = "verified"

Heard(r) ==
    /\ pc[r] = "rolled" => job[r].version = op.target
    /\ NoSyncAfter(inbox[r])
    /\ Counted(r) => Settled(r)

RollbackInv == Untold /\ (Told => \A r \in Replicas : Heard(r))

\* Nobody has heard of a rollback when the cluster starts.
LEMMA RollbackInit == Init => RollbackInv
<1> SUFFICES ASSUME Init PROVE Untold /\ op.phase = "none"
  BY DEF RollbackInv, Told
<1>1. \A r \in Replicas : inbox[r] = <<>> /\ pc[r] = "down"
  BY DEF Init
<1>2. \A r \in Replicas, v \in Version : applyLog[r][v] = "none"
  BY DEF Init
<1>3. NoRollback(<<>>)
  BY DEF NoRollback
<1> QED
  BY <1>1, <1>2, <1>3 DEF Init, Untold, Unheard

----------------------------------------------------------------------------
\* The steps of a replica while the operator holds the lock: no cycle starts, and
\* nobody prunes.

Waits(r) ==
    /\ pc[r] \in {"boot", "idle", "probe"} /\ pc'[r] \in {"idle", "probe", "catch_up"}
    /\ UNCHANGED <<mem, inbox, job, applyLog>>

\* What a replica can do while the operator holds the lock.
LEMMA HeldCases ==
    ASSUME TypeOK, LockInv, op.phase # "none",
           NEW r \in Replicas, SharedStep(r) \/ LeaderStep(r) \/ Crash(r)
    PROVE  \/ Start(r) \/ LoadFromCache(r) \/ LoadFromStorage(r) \/ CatchUpApply(r)
           \/ DropEcho(r) \/ HandleSync(r) \/ HandleRollback(r) \/ RecordRollback(r)
           \/ Crash(r) \/ Waits(r)
<1>1. lock # Free /\ pc[r] \notin Leading
  BY FlipsAlone, ClusterAssumption DEF LockInv
<1>2. ASSUME NEW f, NEW t, NEW other \in {"idle", "probe"}, TryLead(r, f, t, other),
             pc[r] \in {"boot", "idle"}, UNCHANGED <<mem, inbox, applyLog>>
      PROVE  Waits(r)
  BY <1>1, <1>2 DEF TryLead, AcquireLock, Goto, Waits, TypeOK
<1>3. CASE Boot(r)
  <2>1. CASE TryLead(r, FALSE, "idle", "idle")
    BY <1>2, <1>3, <2>1 DEF Boot
  <2>2. CASE WarmCache(r)
    BY <1>1, <1>3, <2>2 DEF Boot, WarmCache, AcquireLock, Goto, Waits, TypeOK
  <2> QED
    BY <1>3, <2>1, <2>2 DEF Boot
<1>4. CASE ReconcileTick(r) \/ SyncCycle(r) \/ ForcedCycle(r)
  <2>1. CASE Goto(r, "probe") /\ UNCHANGED job /\ ReconcileTick(r)
    BY <2>1 DEF ReconcileTick, Goto, Waits, TypeOK
  <2> QED
    BY <1>2, <1>4, <2>1 DEF ReconcileTick, SyncCycle, ForcedCycle
<1>5. CASE CatchUpProbe(r)
  BY <1>5 DEF CatchUpProbe, Goto, Waits, TypeOK
<1>6. CASE \/ FetchVersion(r) \/ RepairCache(r) \/ WarmEntry(r) \/ FetchAndStage(r)
           \/ CycleFails(r) \/ Maintain(r)
  BY <1>1, <1>6 DEF FetchVersion, RepairCache, WarmEntry, FetchAndStage, CycleFails,
     Maintain, Leading
<1>7. CASE LeaderStep(r)
  BY <1>1, <1>7 DEF LeaderStep, Save, SavePending, Begin, BeginActivate, Decide,
     CommitActivation, Apply, ApplyStaged, Publish, Record, Finish, Leading
<1> QED
  BY <1>3, <1>4, <1>5, <1>6, <1>7 DEF SharedStep

\* Its buffer and its apply-log rows are its own.
LEMMA OthersHeard ==
    ASSUME TypeOK, LockInv, op.phase # "none",
           NEW r \in Replicas, SharedStep(r) \/ LeaderStep(r) \/ Crash(r),
           NEW q \in Replicas \ {r}
    PROVE  inbox'[q] = inbox[q] /\ applyLog'[q] = applyLog[q]
<1>1. ASSUME NEW v, NEW status, LogApply(r, v, status) PROVE applyLog'[q] = applyLog[q]
  BY <1>1 DEF LogApply, TypeOK
<1>2. ASSUME Consume(r) PROVE inbox'[q] = inbox[q]
  BY <1>2 DEF Consume, TypeOK
<1>3. CASE Start(r) \/ LoadFromCache(r) \/ LoadFromStorage(r) \/ Waits(r)
  BY <1>3 DEF Start, LoadFromCache, LoadFromStorage, Waits
<1>4. CASE CatchUpApply(r) \/ RecordRollback(r)
  BY <1>1, <1>4 DEF CatchUpApply, RecordRollback, CacheAndLog, TryLogApply
<1>5. CASE DropEcho(r) \/ HandleSync(r) \/ HandleRollback(r)
  BY <1>1, <1>2, <1>5 DEF DropEcho, HandleSync, HandleRollback, TryLogApply
<1>6. CASE Crash(r)
  BY <1>6 DEF Crash, TypeOK
<1> QED
  BY <1>3, <1>4, <1>5, <1>6, HeldCases

\* What the steps of a replica after the announcement do to what it has heard:
\* nothing, or a fresh start, or a move to the target by the handler.
LEMMA HeardStep ==
    ASSUME HeldInv, Told, NEW r \in Replicas, SharedStep(r) \/ LeaderStep(r) \/ Crash(r),
           Heard(r)
    PROVE  Heard(r)'
<1> USE DEF HeldInv, SafeInv, TypeInv
<1>0. /\ op.phase # "none" /\ op.phase \in {"announced", "verified"}
      /\ ActiveVersions(rows) = {op.target} /\ op.target \in Version
  <2>1. ActiveVersions(rows) = {op.target}
    BY DEF Told, ActiveInv, Frozen
  <2> QED
    BY <2>1 DEF Told, ActiveVersions
<1>1. op'.phase = op.phase /\ op'.target = op.target /\ op.late \subseteq op'.late
  BY OpKept
<1>2. ActiveSnapshot(rows) = {op.target}
  BY <1>0 DEF ActiveSnapshot
<1>3. /\ inbox[r] \in Seq(Event) /\ mem[r] \in Value /\ mem \in [Replicas -> Value]
      /\ pc \in [Replicas -> Place] /\ inbox \in [Replicas -> Seq(Event)]
      /\ applyLog \in [Replicas -> [Version -> ApplyStatus]]
  BY DEF TypeOK
<1>4. ASSUME NEW v, Swap(r, v) PROVE mem'[r].version = v
  BY <1>3, <1>4 DEF Swap
<1>5. ASSUME Consume(r) PROVE inbox'[r] = Tail(inbox[r])
  BY <1>3, <1>5 DEF Consume
<1>6. ASSUME NEW v, NEW status, LogApply(r, v, status), status # "rolled_back",
             applyLog'[r][op.target] = "rolled_back"
      PROVE  applyLog[r][op.target] = "rolled_back"
  BY <1>0, <1>3, <1>6 DEF LogApply
<1>7. ASSUME NEW place, Goto(r, place) PROVE pc'[r] = place
  BY <1>3, <1>7 DEF Goto
\* Who counts after a step that logs no rollback counted before it.
<1>8. ASSUME Counted(r)', pc'[r] # "rolled", Running(r),
             applyLog'[r][op.target] = "rolled_back" => applyLog[r][op.target] = "rolled_back"
      PROVE  Counted(r) /\ Settled(r)
  <2>1. Counted(r)
    BY <1>1, <1>8 DEF Counted
  <2> QED
    BY <2>1 DEF Heard
<1>9. CASE Start(r)
  <2>1. /\ r \in op'.late /\ pc'[r] = "load_cache" /\ UNCHANGED inbox
    BY <1>0, <1>7, <1>9 DEF Start, TypeOK
  <2> QED
    BY <2>1 DEF Heard, Counted
<1>10. CASE LoadFromCache(r) \/ LoadFromStorage(r)
  <2>1. /\ pc[r] \in {"load_cache", "load_storage"} /\ pc'[r] \in {"load_storage", "boot"}
        /\ UNCHANGED <<inbox, applyLog>>
    BY <1>7, <1>10 DEF LoadFromCache, LoadFromStorage
  <2>2. Counted(r)' => Counted(r) /\ Settled(r)
    BY <1>8, <2>1 DEF Running
  <2> QED
    BY <2>1, <2>2 DEF Heard, Settled
<1>11. CASE CatchUpApply(r)
  <2>1. pc[r] = "catch_up" /\ pc'[r] = "idle" /\ UNCHANGED inbox
    BY <1>7, <1>11 DEF CatchUpApply
  <2>2. applyLog'[r][op.target] = "rolled_back" => applyLog[r][op.target] = "rolled_back"
    BY <1>6, <1>11 DEF CatchUpApply, TryLogApply
  <2>3. UNCHANGED mem \/ mem'[r].version = op.target
    BY <1>2, <1>4, <1>11 DEF CatchUpApply
  <2>4. Counted(r)' => Counted(r) /\ Settled(r)
    BY <1>8, <2>1, <2>2 DEF Running
  <2> QED
    BY <1>1, <2>1, <2>3, <2>4 DEF Heard, Settled
<1>12. CASE DropEcho(r)
  <2>1. /\ pc[r] = "idle" /\ inbox[r] # <<>> /\ inbox'[r] = Tail(inbox[r])
        /\ UNCHANGED <<pc, mem, job, applyLog>>
    BY <1>5, <1>12 DEF DropEcho
  <2>2. Counted(r)' => Counted(r) /\ Settled(r)
    BY <1>8, <2>1 DEF Running
  <2> QED
    BY <1>1, <1>3, <2>1, <2>2, TailBox DEF Heard, Settled
<1>13. CASE HandleSync(r)
  <2>1. /\ pc[r] = "idle" /\ inbox[r] # <<>> /\ inbox'[r] = Tail(inbox[r])
        /\ Head(inbox[r]).action = "sync" /\ UNCHANGED <<pc, job>>
    BY <1>5, <1>13 DEF HandleSync, Receives
  <2>2. applyLog'[r][op.target] = "rolled_back" => applyLog[r][op.target] = "rolled_back"
    BY <1>6, <1>13 DEF HandleSync, TryLogApply
  <2>3. ~Settled(r)
    BY <1>3, <2>1, TailBox DEF Settled
  <2>4. ~Counted(r)'
    BY <1>8, <2>1, <2>2, <2>3 DEF Running
  <2> QED
    BY <1>3, <2>1, <2>4, TailBox DEF Heard
<1>14. CASE HandleRollback(r)
  <2>1. /\ pc[r] = "idle" /\ inbox[r] # <<>> /\ inbox'[r] = Tail(inbox[r])
        /\ Head(inbox[r]).action = "rollback" /\ UNCHANGED applyLog
    BY <1>5, <1>14 DEF HandleRollback, Receives
  <2>2. NoSyncAfter(inbox'[r]) /\ NoSync(inbox'[r])
    BY <1>3, <2>1, TailBox DEF Heard
  <2>3. CASE UNCHANGED pc
    <3>1. UNCHANGED mem \/ mem'[r].version = op.target
      BY <1>2, <1>4, <1>14 DEF HandleRollback
    <3>2. Counted(r)' => Counted(r) /\ Settled(r)
      BY <1>8, <2>1, <2>3 DEF Running
    <3> QED
      BY <1>1, <2>1, <2>2, <2>3, <3>1, <3>2 DEF Heard, Settled
  <2>4. CASE ~UNCHANGED pc
    <3>1. /\ Goto(r, "rolled") /\ Swap(r, op.target)
          /\ job' = [job EXCEPT ![r] =
                [job[r] EXCEPT !.version = op.target, !.content = rows[op.target].content]]
      BY <1>2, <1>14, <2>4 DEF HandleRollback
    <3>2. job'[r].version = op.target
      BY <3>1, JobFields DEF TypeOK
    <3>3. pc'[r] = "rolled" /\ mem'[r].version = op.target
      BY <1>4, <1>7, <3>1
    <3> QED
      BY <1>1, <2>2, <3>2, <3>3 DEF Heard, Settled
  <2> QED
    BY <2>3, <2>4
<1>15. CASE RecordRollback(r)
  <2>1. /\ pc[r] = "rolled" /\ pc'[r] = "idle" /\ UNCHANGED <<inbox, mem>>
    BY <1>7, <1>15 DEF RecordRollback
  <2>2. Counted(r)' => Settled(r)
    BY <1>1, <2>1 DEF Heard, Counted, Running
  <2> QED
    BY <1>1, <2>1, <2>2 DEF Heard, Settled
<1>16. CASE Crash(r)
  <2>1. pc'[r] = "down" /\ inbox'[r] = <<>>
    BY <1>3, <1>7, <1>16 DEF Crash
  <2> QED
    BY <2>1 DEF Heard, Counted, Running, NoSyncAfter
<1>17. CASE Waits(r)
  <2>1. Counted(r)' => Counted(r) /\ Settled(r)
    BY <1>8, <1>17 DEF Waits, Running
  <2> QED
    BY <1>1, <1>17, <2>1 DEF Heard, Settled, Waits
<1> QED
  BY <1>0, <1>9, <1>10, <1>11, <1>12, <1>13, <1>14, <1>15, <1>16, <1>17, HeldCases

\* What another replica has heard is left as it is.
LEMMA HeardOthers ==
    ASSUME HeldInv, Told, NEW r \in Replicas, SharedStep(r) \/ LeaderStep(r) \/ Crash(r),
           NEW q \in Replicas \ {r}, Heard(q)
    PROVE  Heard(q)'
<1>1. op.phase # "none" /\ TypeOK /\ LockInv
  BY DEF Told, HeldInv, SafeInv, TypeInv
<1>2. op'.phase = op.phase /\ op'.target = op.target /\ op.late \subseteq op'.late
  BY <1>1, OpKept
<1>3. pc'[q] = pc[q] /\ job'[q] = job[q] /\ mem'[q] = mem[q]
  BY <1>1, OthersKept
<1>4. inbox'[q] = inbox[q] /\ applyLog'[q] = applyLog[q]
  BY <1>1, OthersHeard
<1> QED
  BY <1>2, <1>3, <1>4 DEF Heard, Counted, Settled, Running

\* Only a replica that handles the event gets to the tail of the handler.
LEMMA RolledBy ==
    ASSUME TypeOK, NEW r \in Replicas, SharedStep(r) \/ LeaderStep(r) \/ Crash(r),
           ~HandleRollback(r), pc[r] # "rolled"
    PROVE  pc'[r] # "rolled"
<1>1. pc \in [Replicas -> Place] /\ job[r].then \in {"idle", "probe"}
  BY DEF TypeOK, Job
<1>2. ASSUME NEW place, Goto(r, place) PROVE pc'[r] = place
  BY <1>1, <1>2 DEF Goto
<1>3. ASSUME EndCycle(r) PROVE pc'[r] # "rolled"
  BY <1>1, <1>2, <1>3 DEF EndCycle
<1>4. ASSUME NEW f, NEW t, NEW other \in {"idle", "probe"}, TryLead(r, f, t, other)
      PROVE  pc'[r] # "rolled"
  BY <1>2, <1>4 DEF TryLead
<1>5. CASE Boot(r) \/ ReconcileTick(r) \/ SyncCycle(r) \/ ForcedCycle(r)
  BY <1>2, <1>4, <1>5 DEF Boot, WarmCache, ReconcileTick, SyncCycle, ForcedCycle
<1>6. CASE \/ FetchVersion(r) \/ RepairCache(r) \/ WarmEntry(r) \/ FetchAndStage(r)
           \/ CycleFails(r) \/ Finish(r)
  BY <1>2, <1>3, <1>6 DEF FetchVersion, CheckVersion, RepairCache, WarmEntry,
     FetchAndStage, CycleFails, Finish
<1>7. CASE Save(r) \/ Begin(r) \/ Decide(r) \/ Apply(r) \/ Publish(r) \/ Record(r) \/ Crash(r)
  BY <1>2, <1>3, <1>7 DEF Save, SavePending, Begin, BeginActivate, Decide, CommitActivation,
     Apply, ApplyStaged, Publish, Record, Crash
<1>8. CASE \/ Start(r) \/ LoadFromCache(r) \/ LoadFromStorage(r) \/ CatchUpProbe(r)
           \/ CatchUpApply(r) \/ RecordRollback(r)
  BY <1>2, <1>8 DEF Start, LoadFromCache, LoadFromStorage, CatchUpProbe, CatchUpApply,
     RecordRollback
<1>9. CASE DropEcho(r) \/ HandleSync(r) \/ Maintain(r)
  BY <1>9 DEF DropEcho, HandleSync, Maintain
<1> QED
  BY <1>5, <1>6, <1>7, <1>8, <1>9 DEF SharedStep, LeaderStep

\* Before the announcement a replica's step tells nobody of a rollback: only a
\* handler that got the event logs one.
LEMMA UnheardStep ==
    ASSUME TypeOK, NEW r \in Replicas, SharedStep(r) \/ LeaderStep(r) \/ Crash(r),
           \A q \in Replicas : Unheard(q)
    PROVE  \A q \in Replicas : Unheard(q)'
<1> USE DEF TypeOK
<1>0. /\ \A q \in Replicas : inbox[q] \in Seq(Event)
      /\ applyLog \in [Replicas -> [Version -> ApplyStatus]]
  OBVIOUS
<1>1. ASSUME UNCHANGED applyLog
      PROVE  \A q \in Replicas : \A v \in Version : applyLog'[q][v] # "rolled_back"
  BY <1>1 DEF Unheard
<1>2. ASSUME NEW w, NEW status, LogApply(r, w, status), status # "rolled_back"
      PROVE  \A q \in Replicas : \A v \in Version : applyLog'[q][v] # "rolled_back"
  BY <1>2 DEF Unheard, LogApply
<1>3. ASSUME inbox[r] # <<>>, Consume(r)
      PROVE  \A q \in Replicas : NoRollback(inbox'[q])
  <2>1. \A q \in Replicas : \/ inbox'[q] = inbox[q]
                            \/ inbox[q] # <<>> /\ inbox'[q] = Tail(inbox[q])
    BY <1>3 DEF Consume
  <2> QED
    BY <1>0, <2>1, TailBox DEF Unheard
<1>4. ASSUME UNCHANGED inbox PROVE \A q \in Replicas : NoRollback(inbox'[q])
  BY <1>4 DEF Unheard
<1>5. ~HandleRollback(r) /\ ~RecordRollback(r)
  BY <1>0, TailBox DEF HandleRollback, Receives, RecordRollback, Unheard
<1>6. \A q \in Replicas : NoRollback(inbox'[q])
  <2>1. CASE Publish(r)
    <3>1. ASSUME inbox' = Deliver(inbox, SyncEvent(r))
          PROVE  \A q \in Replicas : NoRollback(inbox'[q])
      <4>1. SyncEvent(r).action # "rollback" /\ SyncEvent(r) \in Event
        BY EventType DEF SyncEvent, Job
      <4>2. \A q \in Replicas : inbox'[q] = inbox[q] \/ inbox'[q] = Append(inbox[q], SyncEvent(r))
        BY <3>1 DEF Deliver
      <4>3. ASSUME NEW q \in Replicas PROVE NoRollback(Append(inbox[q], SyncEvent(r)))
        BY <1>0, <4>1, AppendBox, Zenon DEF Unheard
      <4> QED
        BY <4>2, <4>3 DEF Unheard
    <3> QED
      BY <1>4, <2>1, <3>1 DEF Publish
  <2>2. CASE DropEcho(r) \/ HandleSync(r)
    BY <1>3, <2>2 DEF DropEcho, HandleSync, Receives
  <2>3. CASE Crash(r)
    BY <2>3 DEF Crash, Unheard, NoRollback
  <2>4. CASE ~(Publish(r) \/ DropEcho(r) \/ HandleSync(r) \/ Crash(r))
    BY <1>4, <1>5, <2>4 DEF SharedStep, LeaderStep, Start, LoadFromCache, LoadFromStorage, Boot,
       WarmCache, ReconcileTick, SyncCycle, ForcedCycle, FetchVersion, CheckVersion,
       RepairCache, WarmEntry, FetchAndStage, CycleFails, CatchUpProbe, CatchUpApply,
       Maintain, Save, SavePending, Begin, BeginActivate, Decide, CommitActivation, Apply,
       ApplyStaged, Record, Finish
  <2> QED
    BY <2>1, <2>2, <2>3, <2>4
<1>7. \A q \in Replicas : \A v \in Version : applyLog'[q][v] # "rolled_back"
  <2>1. CASE CatchUpApply(r) \/ HandleSync(r) \/ Record(r)
    BY <1>1, <1>2, <2>1 DEF CatchUpApply, HandleSync, Record, CacheAndLog,
       TryLogApply
  <2>2. CASE Maintain(r)
    BY <2>2 DEF Maintain, Unheard
  <2>3. CASE ~(CatchUpApply(r) \/ HandleSync(r) \/ Record(r) \/ Maintain(r))
    BY <1>1, <1>5, <2>3 DEF SharedStep, LeaderStep, Start, LoadFromCache, LoadFromStorage, Boot,
       WarmCache, ReconcileTick, SyncCycle, ForcedCycle, FetchVersion, CheckVersion,
       RepairCache, WarmEntry, FetchAndStage, CycleFails, CatchUpProbe, DropEcho, Save,
       SavePending, Begin, BeginActivate, Decide, CommitActivation, Apply, ApplyStaged,
       Publish, Finish, Crash
  <2> QED
    BY <2>1, <2>2, <2>3
<1>8. \A q \in Replicas : pc'[q] # "rolled"
  <2>1. ASSUME NEW q \in Replicas \ {r} PROVE pc'[q] # "rolled"
    BY <2>1, OthersKept DEF Unheard
  <2>2. pc'[r] # "rolled"
    BY <1>5, RolledBy DEF Unheard
  <2> QED
    BY <2>1, <2>2
<1> QED
  BY <1>6, <1>7, <1>8 DEF Unheard

\* The operator's steps, and what the environment does next to it.
LEMMA RollbackEnvironment ==
    ASSUME HeldInv, MaxRollbacks \in {0, 1}, RollbackInv, Environment
    PROVE  RollbackInv'
<1> USE DEF HeldInv, SafeInv, TypeInv, TypeOK
<1>0. \A q \in Replicas : inbox[q] \in Seq(Event)
  OBVIOUS
<1>1. CASE SourceUpdate \/ SourceDelete \/ EvictCache \/ \E r \in Replicas : LoseSession(r)
  <2>1. UNCHANGED <<inbox, pc, mem, job, op, applyLog>>
    BY <1>1 DEF SourceUpdate, SourceDelete, EvictCache, LoseSession
  <2> QED
    BY <2>1 DEF RollbackInv, Untold, Unheard, Told, Heard, Counted, Settled, Running
<1>2. ASSUME NEW r \in Replicas, LoseEvent(r) PROVE RollbackInv'
  <2>1. \A q \in Replicas : \/ inbox'[q] = inbox[q]
                            \/ inbox[q] # <<>> /\ inbox'[q] = Tail(inbox[q])
    BY <1>2 DEF LoseEvent, Consume
  <2>2. \A q \in Replicas : /\ NoRollback(inbox[q]) => NoRollback(inbox'[q])
                            /\ NoSync(inbox[q]) => NoSync(inbox'[q])
                            /\ NoSyncAfter(inbox[q]) => NoSyncAfter(inbox'[q])
    BY <1>0, <2>1, TailBox
  <2>3. UNCHANGED <<pc, mem, job, op, applyLog>>
    BY <1>2 DEF LoseEvent
  <2> QED
    BY <2>2, <2>3 DEF RollbackInv, Untold, Unheard, Told, Heard, Counted, Settled, Running
<1>3. CASE Freeze
  <2>1. op.count = 0 /\ op'.count = 1 /\ op'.phase = "frozen"
    BY <1>3 DEF Freeze
  <2>2. UNCHANGED <<inbox, pc, applyLog>>
    BY <1>3 DEF Freeze
  <2> QED
    BY <2>1, <2>2 DEF RollbackInv, Untold, Unheard, Told
<1>4. ASSUME NEW v \in Version, Flip(v) PROVE RollbackInv'
  <2>1. /\ op.phase = "frozen" /\ op'.phase = "flipped" /\ op'.count = op.count
        /\ UNCHANGED <<inbox, pc, applyLog>>
    BY <1>4 DEF Flip
  <2> QED
    BY <2>1 DEF RollbackInv, Untold, Unheard, Told
<1>5. CASE Announce
  <2> DEFINE e == [action |-> "rollback", version |-> NoVersion, origin |-> Operator,
                   round |-> 0]
  <2>1. inbox' = Deliver(inbox, e)
    BY <1>5 DEF Announce
  <2>2. e \in Event /\ e.action # "sync"
    BY EventType DEF AnyVersion
  <2>3. /\ op.phase \in {"flipped", "announced"} /\ op'.phase = "announced"
        /\ op'.count = op.count /\ op'.target = op.target /\ op'.late = op.late
        /\ UNCHANGED <<pc, mem, job, applyLog>>
    BY <1>5 DEF Announce, OpMove
  <2> HIDE DEF e
  <2>4. \A q \in Replicas : /\ NoSync(inbox[q]) => NoSync(inbox'[q])
                            /\ NoSyncAfter(inbox[q]) => NoSyncAfter(inbox'[q])
    <3>1. \A q \in Replicas : inbox'[q] = inbox[q] \/ inbox'[q] = Append(inbox[q], e)
      BY <2>1 DEF Deliver
    <3>2. ASSUME NEW q \in Replicas
          PROVE  /\ NoSync(inbox[q]) => NoSync(Append(inbox[q], e))
                 /\ NoSyncAfter(inbox[q]) => NoSyncAfter(Append(inbox[q], e))
      BY <1>0, <2>2, AppendBox, Zenon
    <3> QED
      BY <3>1, <3>2
  <2>5. op.count # 0
    BY <2>3 DEF RollbackInv, Untold
  <2>6. Untold'
    BY <2>3, <2>5 DEF Untold
  <2>7. ASSUME NEW r \in Replicas, op.phase = "flipped" PROVE Heard(r)'
    <3>1. Unheard(r)
      BY <2>7 DEF RollbackInv, Untold
    <3>2. NoSyncAfter(inbox[r])
      BY <3>1 DEF Unheard, NoRollback, NoSyncAfter
    <3>3. op.target \in Version
      BY <2>7 DEF ActiveInv, Frozen, ActiveVersions
    <3> QED
      BY <2>3, <2>4, <3>1, <3>2, <3>3 DEF Heard, Counted, Unheard
  <2>8. ASSUME NEW r \in Replicas, op.phase = "announced" PROVE Heard(r)'
    BY <2>3, <2>4, <2>8 DEF RollbackInv, Told, Heard, Counted, Settled, Running
  <2> QED
    BY <2>3, <2>6, <2>7, <2>8 DEF RollbackInv
<1>6. CASE Verify
  <2>1. /\ op.phase = "announced" /\ op'.phase = "verified"
        /\ op'.count = op.count /\ op'.target = op.target /\ op'.late = op.late
        /\ UNCHANGED <<inbox, pc, mem, job, applyLog>>
        /\ \A r \in Replicas \ op.late : Running(r) => applyLog[r][op.target] = "rolled_back"
    BY <1>6 DEF Verify, OpMove
  <2>2. Untold'
    BY <2>1 DEF RollbackInv, Untold
  <2>3. ASSUME NEW r \in Replicas PROVE Heard(r)'
    <3>1. Heard(r)
      BY <2>1 DEF RollbackInv, Told
    <3>2. Counted(r)' => Settled(r)
      BY <2>1, <3>1 DEF Heard, Counted, Running
    <3> QED
      BY <2>1, <3>1, <3>2 DEF Heard, Settled
  <2> QED
    BY <2>2, <2>3 DEF RollbackInv
<1>7. CASE Release
  <2>1. op'.phase = "none" /\ op'.count = op.count /\ op.phase # "none"
    BY <1>7 DEF Release
  <2> QED
    BY <2>1 DEF RollbackInv, Untold, Told
<1> QED
  BY <1>1, <1>2, <1>3, <1>4, <1>5, <1>6, <1>7 DEF Environment

\* RollbackInv next to HeldInv.
LEMMA RollbackStep ==
    ASSUME MaxRollbacks \in {0, 1}
    PROVE  HeldInv /\ RollbackInv /\ [Next]_vars => RollbackInv'
<1>1. ASSUME HeldInv, RollbackInv, NEW r \in Replicas, SharedStep(r) \/ LeaderStep(r) \/ Crash(r)
      PROVE  RollbackInv'
  <2>0. TypeOK
    BY <1>1 DEF HeldInv, SafeInv, TypeInv
  <2>1. op'.phase = op.phase /\ op'.count = op.count
    BY <1>1, <2>0, OpKept
  <2>2. Untold'
    BY <1>1, <2>0, <2>1, UnheardStep DEF RollbackInv, Untold
  <2>3. ASSUME Told', NEW q \in Replicas PROVE Heard(q)'
    <3>1. Told /\ Heard(q)
      BY <1>1, <2>1, <2>3 DEF Told, RollbackInv
    <3>2. CASE q = r
      BY <1>1, <3>1, <3>2, HeardStep
    <3>3. CASE q # r
      BY <1>1, <3>1, <3>3, HeardOthers
    <3> QED
      BY <3>2, <3>3
  <2> QED
    BY <2>2, <2>3 DEF RollbackInv
<1>2. ASSUME HeldInv, RollbackInv, Environment PROVE RollbackInv'
  BY <1>2, RollbackEnvironment
<1>3. ASSUME RollbackInv, UNCHANGED vars PROVE RollbackInv'
  BY <1>3 DEF vars, RollbackInv, Untold, Unheard, Told, Heard, Counted, Settled, Running
<1> QED
  BY <1>1, <1>2, <1>3 DEF Next

\* The first rollback of a cluster that the operator verified is one that every
\* counted replica has carried out, and it stays so until the lock is released.
THEOREM RollbackVerifiedHolds ==
    ASSUME "session" \notin FaultKinds, MaxRollbacks \in {0, 1}
    PROVE  Spec => []RollbackVerified
<1>1. HeldInv /\ [Next]_vars => HeldInv'
  BY HeldStep
<1>2. RollbackInv => RollbackVerified
  BY DEF RollbackInv, Told, Heard, Counted, Settled, Running, RollbackVerified
<1> QED
  BY HeldInit, <1>1, RollbackInit, RollbackStep, <1>2, PTL DEF Spec
=============================================================================
