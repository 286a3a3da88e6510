---------------------------- MODULE ClusterProofs ----------------------------
(***************************************************************************)
(* What the proofs about both sync modes share: the types of the variables *)
(* of Cluster, and what its steps do to each of them, whatever the places  *)
(* of the mode's own leader cycle are called.                              *)
(***************************************************************************)
EXTENDS Cluster, TLAPS

----------------------------------------------------------------------------
\* The values of the variables, built and changed.

\* The empty values are values.
LEMMA NothingType == Nothing \in Value /\ NoJob \in Job /\ NoRow \in Row
BY DEF Nothing, Value, NoJob, Job, NoRow, Row, RowStatus, AnyVersion

\* A version and a payload make what a replica serves.
LEMMA ValueType ==
    ASSUME NEW v \in AnyVersion, NEW c \in Contents \cup {NoContent}
    PROVE  [version |-> v, content |-> c] \in Value
BY DEF Value

\* A cache entry is something that a replica can serve.
LEMMA EntryType ==
    /\ Entry \subseteq Value
    /\ \A v \in Version, c \in Contents : [version |-> v, content |-> c] \in Entry
BY DEF Entry, Value, AnyVersion

\* A job changed in any of its fields is a job.
LEMMA JobType ==
    ASSUME NEW j \in Job
    PROVE  /\ \A v \in AnyVersion : [j EXCEPT !.version = v] \in Job
           /\ \A c \in Contents : [j EXCEPT !.content = c] \in Job
           /\ \A v \in AnyVersion, c \in Contents :
                 [j EXCEPT !.version = v, !.content = c] \in Job
           /\ \A d \in SUBSET Version : [j EXCEPT !.demote = d] \in Job
           /\ \A f \in BOOLEAN, p \in {"idle", "probe"} :
                 [j EXCEPT !.force = f, !.then = p] \in Job
BY DEF Job

\* And keeps its other fields.
LEMMA JobFields ==
    ASSUME job \in [Replicas -> Job], NEW q \in Replicas
    PROVE  /\ \A v : job' = [job EXCEPT ![q] = [job[q] EXCEPT !.version = v]]
               => job'[q].version = v /\ job'[q].force = job[q].force
           /\ \A c : job' = [job EXCEPT ![q] = [job[q] EXCEPT !.content = c]]
               => job'[q].version = job[q].version /\ job'[q].force = job[q].force
           /\ \A d : job' = [job EXCEPT ![q] = [job[q] EXCEPT !.demote = d]]
               => job'[q].version = job[q].version /\ job'[q].force = job[q].force
           /\ \A v, c : job' = [job EXCEPT ![q] = [job[q] EXCEPT !.version = v, !.content = c]]
               => job'[q].version = v /\ job'[q].force = job[q].force
<1>1. job[q] \in Job /\ q \in DOMAIN job
  OBVIOUS
<1>2. \A j : job' = [job EXCEPT ![q] = j] => job'[q] = j
  BY <1>1
<1>3. ASSUME NEW v, job' = [job EXCEPT ![q] = [job[q] EXCEPT !.version = v]]
      PROVE  job'[q].version = v /\ job'[q].force = job[q].force
  BY <1>1, <1>3 DEF Job
<1>4. ASSUME NEW c, job' = [job EXCEPT ![q] = [job[q] EXCEPT !.content = c]]
      PROVE  job'[q].version = job[q].version /\ job'[q].force = job[q].force
  BY <1>1, <1>4 DEF Job
<1>5. ASSUME NEW d, job' = [job EXCEPT ![q] = [job[q] EXCEPT !.demote = d]]
      PROVE  job'[q].version = job[q].version /\ job'[q].force = job[q].force
  BY <1>1, <1>5 DEF Job
<1>6. ASSUME NEW v, NEW c,
             job' = [job EXCEPT ![q] = [job[q] EXCEPT !.version = v, !.content = c]]
      PROVE  job'[q].version = v /\ job'[q].force = job[q].force
  <2>1. job'[q] = [job[q] EXCEPT !.version = v, !.content = c]
    BY <1>2, <1>6
  <2> QED
    BY <1>1, <2>1 DEF Job
<1> QED
  BY <1>3, <1>4, <1>5, <1>6

\* Saving a snapshot keeps the table one.
LEMMA SaveType ==
    ASSUME NEW t \in Table, NEW v \in Version, NEW c \in Contents
    PROVE  SaveSnapshot(t, v, c) \in Table
<1>1. [status |-> "pending", content |-> c] \in Row
  BY DEF Row, RowStatus
<1> QED
  BY <1>1 DEF SaveSnapshot, Table

\* Activating a version keeps the table one.
LEMMA ActivateType ==
    ASSUME NEW t \in Table, NEW seen, NEW v \in Version
    PROVE  ActivateSnapshot(t, seen, v) \in Table
<1> SUFFICES ASSUME NEW w \in Version
             PROVE  ActivateSnapshot(t, seen, v)[w] \in Row
  BY DEF ActivateSnapshot, Table
<1>1. t[w] \in Row
  BY DEF Table
<1> QED
  BY <1>1 DEF ActivateSnapshot, Row, RowStatus

\* So does marking a version failed.
LEMMA FailType ==
    ASSUME NEW t \in Table, NEW v \in Version
    PROVE  FailSnapshot(t, v) \in Table
BY DEF FailSnapshot, Table, Row, RowStatus

\* So does pruning it.
LEMMA DeleteType ==
    ASSUME NEW t \in Table, NEW old
    PROVE  DeleteOldSnapshots(t, old) \in Table
BY NothingType DEF DeleteOldSnapshots, Table

\* Faults stay within their bound.
LEMMA FaultType ==
    ASSUME faults \in 0 .. MaxFaults, NEW kind, Fault(kind)
    PROVE  faults' \in 0 .. MaxFaults
BY ClusterAssumption DEF Fault

\* Logging a status keeps the apply log one.
LEMMA LogType ==
    ASSUME applyLog \in [Replicas -> [Version -> ApplyStatus]],
           NEW r \in Replicas, NEW v, NEW status \in ApplyStatus, LogApply(r, v, status)
    PROVE  applyLog' \in [Replicas -> [Version -> ApplyStatus]]
BY DEF LogApply

\* So does trying to.
LEMMA TryLogType ==
    ASSUME applyLog \in [Replicas -> [Version -> ApplyStatus]], faults \in 0 .. MaxFaults,
           NEW r \in Replicas, NEW v, NEW status \in ApplyStatus, TryLogApply(r, v, status)
    PROVE  /\ applyLog' \in [Replicas -> [Version -> ApplyStatus]]
           /\ faults' \in 0 .. MaxFaults
BY LogType, FaultType DEF TryLogApply

\* Swapping in a snapshot that loads keeps what replicas serve well typed.
LEMMA SwapType ==
    ASSUME mem \in [Replicas -> Value], rows \in Table,
           NEW r \in Replicas, NEW v \in AnyVersion, Loads(r, v), Swap(r, v)
    PROVE  mem' \in [Replicas -> Value]
<1>1. v \in Version /\ rows[v] \in Row
  BY DEF Loads, AnyVersion, Table
<1>2. [version |-> v, content |-> rows[v].content] \in Value
  BY <1>1, ValueType DEF Row
<1> QED
  BY <1>2 DEF Swap

\* Both reads of the active snapshot return a version or nothing.
LEMMA ActiveType ==
    /\ ActiveVersions(rows) \subseteq Version
    /\ ActiveSnapshot(rows) \subseteq AnyVersion
BY DEF ActiveVersions, ActiveSnapshot, AnyVersion

\* An event is one of the five, of a replica or of the operator.
LEMMA EventType ==
    ASSUME NEW a \in {"sync", "rollback", "prepare", "commit", "abort"},
           NEW v \in AnyVersion, NEW o \in Replicas \cup {Operator}, NEW n \in Nat
    PROVE  [action |-> a, version |-> v, origin |-> o, round |-> n] \in Event
BY DEF Event

\* Broadcasting keeps every buffer a sequence of events.
LEMMA DeliverType ==
    ASSUME NEW boxes \in [Replicas -> Seq(Event)], NEW e \in Event
    PROVE  Deliver(boxes, e) \in [Replicas -> Seq(Event)]
BY DEF Deliver

\* So does consuming the first event of a buffer that has one.
LEMMA ConsumeType ==
    ASSUME inbox \in [Replicas -> Seq(Event)], NEW r \in Replicas, inbox[r] # <<>>,
           Consume(r)
    PROVE  /\ inbox' \in [Replicas -> Seq(Event)]
           /\ Head(inbox[r]) \in Event
           /\ Head(inbox[r]).version \in AnyVersion
<1>1. Head(inbox[r]) \in Event /\ Tail(inbox[r]) \in Seq(Event)
  OBVIOUS
<1>2. \A e \in Event : e.version \in AnyVersion
  BY DEF Event
<1> QED
  BY <1>1, <1>2 DEF Consume

----------------------------------------------------------------------------
\* Types.  The places differ between the modes; those below are in both.

SharedPlace == {"down", "load_cache", "load_storage", "boot", "idle", "probe",
                "catch_up", "rolled", "fetch", "stage", "save", "repair", "warm"}

ClusterTypes(places) ==
    /\ source \in Entry
    /\ now \in Version
    /\ rows \in Table
    /\ applyLog \in [Replicas -> [Version -> ApplyStatus]]
    /\ lock \in Replicas \cup {Free, Operator}
    /\ cache \in Entry \cup {NoEntry}
    /\ inbox \in [Replicas -> Seq(Event)]
    /\ pc \in [Replicas -> places]
    /\ mem \in [Replicas -> Value]
    /\ job \in [Replicas -> Job]
    /\ op \in [phase : {"none", "frozen", "flipped", "announced", "verified"},
               target : AnyVersion, late : SUBSET Replicas, count : 0 .. MaxRollbacks]
    /\ decided \subseteq Version
    /\ faults \in 0 .. MaxFaults

\* A row that exists has a payload.
Payloads == \A v \in Version : Exists(rows, v) => rows[v].content \in Contents

\* What the local variables of r hold at a place where its cycle has both.
HasVersion(r) == job[r].version \in Version
HasContent(r) == job[r].content \in Contents

\* The places where what was read of the active snapshot is written elsewhere: the
\* tail of the rollback handler, and the repair of the cache.
Tails == {"rolled", "warm"}

\* What is written there is in the local variables.
TailHolds == \A r \in Replicas : pc[r] \in Tails => HasVersion(r) /\ HasContent(r)

\* The initial states have their types.
LEMMA ClusterInit ==
    ASSUME NEW places, SharedPlace \subseteq places, Init
    PROVE  ClusterTypes(places) /\ Payloads /\ TailHolds
<1>1. Payloads /\ TailHolds
  BY DEF Init, Payloads, TailHolds, Tails, EmptyTable, NoRow, Exists
<1>2. rows \in Table /\ mem \in [Replicas -> Value] /\ job \in [Replicas -> Job]
  BY NothingType DEF Init, EmptyTable, Table
<1>3. applyLog \in [Replicas -> [Version -> ApplyStatus]]
  BY DEF Init, ApplyStatus
<1>4. source \in Entry /\ now \in Version
  BY SnapshotStoreAssumption DEF Init, Entry, Version
<1>5. op \in [phase : {"none", "frozen", "flipped", "announced", "verified"},
              target : AnyVersion, late : SUBSET Replicas, count : 0 .. MaxRollbacks]
  BY ClusterAssumption DEF Init, AnyVersion
<1>6. inbox \in [Replicas -> Seq(Event)] /\ pc \in [Replicas -> places]
  BY DEF Init, SharedPlace
<1> QED
  BY <1>1, <1>2, <1>3, <1>4, <1>5, <1>6, ClusterAssumption DEF Init, ClusterTypes

\* What starting or ending a cycle changes has its types.
LeadTypes(places) ==
    /\ lock' \in Replicas \cup {Free, Operator}
    /\ pc' \in [Replicas -> places]
    /\ job' \in [Replicas -> Job]

\* Trying to start a cycle keeps the types.
LEMMA TryLeadType ==
    ASSUME NEW places, SharedPlace \subseteq places, ClusterTypes(places),
           NEW r \in Replicas, NEW force \in BOOLEAN,
           NEW then \in {"idle", "probe"}, NEW other \in places,
           TryLead(r, force, then, other)
    PROVE  LeadTypes(places) /\ faults' \in 0 .. MaxFaults
<1>1. [NoJob EXCEPT !.force = force, !.then = then] \in Job
  BY NothingType, JobType
<1>2. job' \in [Replicas -> Job]
  BY <1>1 DEF TryLead, AcquireLock, ClusterTypes
<1>3. pc' \in [Replicas -> places]
  BY DEF TryLead, AcquireLock, Goto, ClusterTypes, SharedPlace
<1>4. lock' \in Replicas \cup {Free, Operator} /\ faults' \in 0 .. MaxFaults
  BY FaultType DEF TryLead, AcquireLock, NotAcquired, ClusterTypes
<1> QED
  BY <1>2, <1>3, <1>4 DEF LeadTypes

\* Ending a cycle keeps the types.
LEMMA EndCycleType ==
    ASSUME NEW places, SharedPlace \subseteq places, ClusterTypes(places),
           NEW r \in Replicas, EndCycle(r)
    PROVE  LeadTypes(places)
<1>1. job[r].then \in places
  BY DEF ClusterTypes, Job, SharedPlace
<1> QED
  BY <1>1, NothingType DEF EndCycle, Unlock, Goto, LeadTypes, ClusterTypes

\* Writing the cache and the log keeps the types.
LEMMA CacheAndLogType ==
    ASSUME NEW places, ClusterTypes(places), NEW r \in Replicas, NEW v \in Version,
           NEW c \in Contents, NEW status \in ApplyStatus, CacheAndLog(r, v, c, status)
    PROVE  /\ cache' \in Entry \cup {NoEntry}
           /\ applyLog' \in [Replicas -> [Version -> ApplyStatus]]
           /\ faults' \in 0 .. MaxFaults
<1>1. cache' \in Entry \cup {NoEntry}
  BY EntryType DEF CacheAndLog, CacheWrite, ClusterTypes
<1>2. applyLog' \in [Replicas -> [Version -> ApplyStatus]]
  BY LogType DEF CacheAndLog, ClusterTypes
<1>3. faults' \in 0 .. MaxFaults
  BY FaultType DEF CacheAndLog, ClusterTypes
<1> QED
  BY <1>1, <1>2, <1>3

\* The shared steps of a replica keep the types.
LEMMA SharedTypes ==
    ASSUME NEW places, SharedPlace \subseteq places, ClusterTypes(places), Payloads,
           TailHolds, NEW r \in Replicas, SharedStep(r)
    PROVE  ClusterTypes(places)'
<1>1. ASSUME Start(r) PROVE ClusterTypes(places)'
  BY <1>1 DEF Start, Goto, ClusterTypes, SharedPlace
<1>2. ASSUME LoadFromCache(r) PROVE ClusterTypes(places)'
  <2>1. mem' \in [Replicas -> Value]
    BY <1>2, EntryType DEF LoadFromCache, ClusterTypes
  <2>2. faults' \in 0 .. MaxFaults
    BY <1>2, FaultType DEF LoadFromCache, ClusterTypes
  <2> QED
    BY <1>2, <2>1, <2>2 DEF LoadFromCache, Goto, ClusterTypes, SharedPlace
<1>3. ASSUME LoadFromStorage(r) PROVE ClusterTypes(places)'
  <2>1. mem' \in [Replicas -> Value]
    BY <1>3, SwapType, ActiveType DEF LoadFromStorage, ClusterTypes
  <2>2. faults' \in 0 .. MaxFaults
    BY <1>3, FaultType DEF LoadFromStorage, ClusterTypes
  <2> QED
    BY <1>3, <2>1, <2>2 DEF LoadFromStorage, Goto, ClusterTypes, SharedPlace
<1>4. ASSUME Boot(r) PROVE ClusterTypes(places)'
  <2>1. LeadTypes(places) /\ faults' \in 0 .. MaxFaults
    <3>1. CASE TryLead(r, FALSE, "idle", "idle")
      BY <3>1, TryLeadType DEF SharedPlace
    <3>2. CASE ~TryLead(r, FALSE, "idle", "idle")
      <4>1. WarmCache(r)
        BY <1>4, <3>2 DEF Boot
      <4>2. faults' \in 0 .. MaxFaults
        BY <4>1, FaultType DEF WarmCache, NotAcquired, ClusterTypes
      <4> QED
        BY <4>1, <4>2 DEF WarmCache, AcquireLock, Goto, LeadTypes, ClusterTypes, SharedPlace
    <3> QED
      BY <3>1, <3>2
  <2> QED
    BY <1>4, <2>1 DEF Boot, LeadTypes, ClusterTypes
<1>5. ASSUME ReconcileTick(r) PROVE ClusterTypes(places)'
  <2>1. LeadTypes(places) /\ faults' \in 0 .. MaxFaults
    <3>1. CASE TryLead(r, FALSE, "idle", "probe") \/ TryLead(r, FALSE, "probe", "probe")
      BY <3>1, TryLeadType DEF SharedPlace
    <3>2. CASE Goto(r, "probe") /\ UNCHANGED <<lock, job, faults>>
      BY <3>2 DEF Goto, LeadTypes, ClusterTypes, SharedPlace
    <3> QED
      BY <1>5, <3>1, <3>2 DEF ReconcileTick
  <2> QED
    BY <1>5, <2>1 DEF ReconcileTick, LeadTypes, ClusterTypes
<1>6. ASSUME SyncCycle(r) \/ ForcedCycle(r) PROVE ClusterTypes(places)'
  <2>1. LeadTypes(places) /\ faults' \in 0 .. MaxFaults
    BY <1>6, TryLeadType DEF SyncCycle, ForcedCycle, SharedPlace
  <2> QED
    BY <1>6, <2>1 DEF SyncCycle, ForcedCycle, LeadTypes, ClusterTypes
<1>7. ASSUME FetchVersion(r) PROVE ClusterTypes(places)'
  <2> PICK new : CheckVersion(r, new)
    BY <1>7 DEF FetchVersion
  <2>1. now' \in Version /\ faults' \in 0 .. MaxFaults
    <3>1. now' \in Version
      BY DEF CheckVersion, ClusterTypes
    <3> QED
      BY <1>7, <3>1, FaultType DEF FetchVersion, Reports, ClusterTypes
  <2>2. LeadTypes(places)
    <3>1. CASE EndCycle(r)
      BY <3>1, EndCycleType
    <3>2. CASE ~EndCycle(r)
      <4>1. ASSUME NEW v \in Version
            PROVE  [job[r] EXCEPT !.version = v] \in Job
        BY JobType DEF ClusterTypes, AnyVersion
      <4>2. job' \in [Replicas -> Job]
        BY <3>2, <4>1 DEF CheckVersion, ClusterTypes
      <4>3. (Goto(r, "repair") \/ Goto(r, "stage")) /\ UNCHANGED lock
        BY <3>2 DEF CheckVersion
      <4>4. pc' \in [Replicas -> places]
        BY <4>3 DEF Goto, ClusterTypes, SharedPlace
      <4> QED
        BY <4>2, <4>3, <4>4 DEF LeadTypes, ClusterTypes
    <3> QED
      BY <3>1, <3>2
  <2> QED
    BY <2>1, <2>2 DEF CheckVersion, LeadTypes, ClusterTypes
<1>8. ASSUME RepairCache(r) PROVE ClusterTypes(places)'
  <2>1. LeadTypes(places)
    <3>1. CASE EndCycle(r)
      BY <3>1, EndCycleType
    <3>2. CASE ~EndCycle(r)
      <4>1. PICK v \in ActiveVersions(rows) :
               job' = [job EXCEPT ![r].version = v, ![r].content = rows[v].content]
        BY <1>8, <3>2 DEF RepairCache
      <4>2. v \in AnyVersion /\ rows[v].content \in Contents
        BY DEF ActiveVersions, AnyVersion, Payloads, Exists
      <4>3. [job[r] EXCEPT !.version = v, !.content = rows[v].content] \in Job
        BY <4>2, JobType DEF ClusterTypes
      <4>4. job' = [job EXCEPT ![r] =
                      [job[r] EXCEPT !.version = v, !.content = rows[v].content]]
        BY <4>1 DEF ClusterTypes, Job
      <4>5. job' \in [Replicas -> Job]
        <5>1. job \in [Replicas -> Job]
          BY DEF ClusterTypes
        <5> QED
          BY ONLY <4>3, <4>4, <5>1
      <4>6. Goto(r, "warm") /\ UNCHANGED <<lock, faults>>
        BY <1>8, <3>2 DEF RepairCache
      <4> QED
        BY <4>5, <4>6 DEF Goto, LeadTypes, ClusterTypes, SharedPlace
    <3> QED
      BY <3>1, <3>2
  <2>2. faults' \in 0 .. MaxFaults
    BY <1>8, FaultType DEF RepairCache, ClusterTypes
  <2> QED
    BY <1>8, <2>1, <2>2 DEF RepairCache, LeadTypes, ClusterTypes
<1>9. ASSUME FetchAndStage(r) PROVE ClusterTypes(places)'
  <2>1. LeadTypes(places)
    <3>1. CASE EndCycle(r)
      BY <3>1, EndCycleType
    <3>2. CASE ~EndCycle(r)
      <4>1. [job[r] EXCEPT !.content = source.content] \in Job
        BY JobType DEF ClusterTypes, Entry
      <4>2. /\ UNCHANGED lock /\ Goto(r, "save")
            /\ job' = [job EXCEPT ![r] = [job[r] EXCEPT !.content = source.content]]
        BY <1>9, <3>2 DEF FetchAndStage
      <4>3. job' \in [Replicas -> Job]
        BY <4>1, <4>2 DEF ClusterTypes
      <4>4. pc' \in [Replicas -> places]
        BY <4>2 DEF Goto, ClusterTypes, SharedPlace
      <4> QED
        BY <4>2, <4>3, <4>4 DEF LeadTypes, ClusterTypes
    <3> QED
      BY <3>1, <3>2
  <2> QED
    BY <1>9, <2>1 DEF FetchAndStage, LeadTypes, ClusterTypes
<1>10. ASSUME CycleFails(r) PROVE ClusterTypes(places)'
  BY <1>10, EndCycleType, FaultType DEF CycleFails, LeadTypes, ClusterTypes
<1>11. ASSUME CatchUpProbe(r) PROVE ClusterTypes(places)'
  <2>1. faults' \in 0 .. MaxFaults
    BY <1>11, FaultType DEF CatchUpProbe, ClusterTypes
  <2> QED
    BY <1>11, <2>1 DEF CatchUpProbe, Goto, ClusterTypes, SharedPlace
<1>12. ASSUME CatchUpApply(r) PROVE ClusterTypes(places)'
  <2>1. mem' \in [Replicas -> Value]
    BY <1>12, SwapType, ActiveType DEF CatchUpApply, CatchUpAllowed, ClusterTypes
  <2>2. applyLog' \in [Replicas -> [Version -> ApplyStatus]]
    BY <1>12, TryLogType DEF CatchUpApply, ClusterTypes, ApplyStatus
  <2>3. faults' \in 0 .. MaxFaults
    BY <1>12, TryLogType, FaultType DEF CatchUpApply, ClusterTypes, ApplyStatus
  <2> QED
    BY <1>12, <2>1, <2>2, <2>3 DEF CatchUpApply, Goto, ClusterTypes, SharedPlace
<1>13. ASSUME DropEcho(r) PROVE ClusterTypes(places)'
  BY <1>13, ConsumeType DEF DropEcho, ClusterTypes
<1>14. ASSUME HandleSync(r) PROVE ClusterTypes(places)'
  <2> DEFINE v == Head(inbox[r]).version
  <2>1. inbox' \in [Replicas -> Seq(Event)] /\ v \in AnyVersion
    BY <1>14, ConsumeType DEF HandleSync, Receives, ClusterTypes
  <2>2. mem' \in [Replicas -> Value]
    BY <1>14, <2>1, SwapType DEF HandleSync, ClusterTypes
  <2>3. applyLog' \in [Replicas -> [Version -> ApplyStatus]]
    BY <1>14, TryLogType, LogType DEF HandleSync, ClusterTypes, ApplyStatus
  <2>4. faults' \in 0 .. MaxFaults
    BY <1>14, TryLogType, FaultType DEF HandleSync, ClusterTypes, ApplyStatus
  <2> QED
    BY <1>14, <2>1, <2>2, <2>3, <2>4 DEF HandleSync, ClusterTypes
<1>15. ASSUME HandleRollback(r) PROVE ClusterTypes(places)'
  <2>1. inbox' \in [Replicas -> Seq(Event)]
    BY <1>15, ConsumeType DEF HandleRollback, Receives, ClusterTypes
  <2>2. mem' \in [Replicas -> Value]
    BY <1>15, SwapType, ActiveType DEF HandleRollback, ClusterTypes
  <2>3. job' \in [Replicas -> Job] /\ pc' \in [Replicas -> places]
    <3>1. ASSUME NEW v \in ActiveSnapshot(rows), Loads(r, v)
          PROVE  [job[r] EXCEPT !.version = v, !.content = rows[v].content] \in Job
      <4>1. v \in Version /\ rows[v].content \in Contents
        BY <3>1
        DEF Loads, ActiveSnapshot, ActiveVersions, Payloads, Exists
      <4> QED
        BY <4>1, JobType DEF ClusterTypes, AnyVersion
    <3>2. CASE UNCHANGED <<pc, job>>
      BY <3>2 DEF ClusterTypes
    <3>3. CASE ~UNCHANGED <<pc, job>>
      <4>1. PICK v \in ActiveSnapshot(rows) :
               /\ Loads(r, v) /\ Goto(r, "rolled")
               /\ job' = [job EXCEPT ![r].version = v, ![r].content = rows[v].content]
        BY <1>15, <3>3 DEF HandleRollback
      <4>2. job' = [job EXCEPT ![r] =
                      [job[r] EXCEPT !.version = v, !.content = rows[v].content]]
        BY <4>1 DEF ClusterTypes, Job
      <4>3. job' \in [Replicas -> Job]
        <5>1. job \in [Replicas -> Job]
          BY DEF ClusterTypes
        <5> QED
          BY ONLY <3>1, <4>1, <4>2, <5>1
      <4>4. pc' \in [Replicas -> places]
        BY <4>1 DEF Goto, ClusterTypes, SharedPlace
      <4> QED
        BY <4>3, <4>4
    <3> QED
      BY <3>2, <3>3
  <2>4. faults' \in 0 .. MaxFaults
    BY <1>15, FaultType DEF HandleRollback, ClusterTypes
  <2> QED
    BY <1>15, <2>1, <2>2, <2>3, <2>4 DEF HandleRollback, ClusterTypes
<1>16. ASSUME RecordRollback(r) PROVE ClusterTypes(places)'
  <2>1. cache' \in Entry \cup {NoEntry}
    BY <1>16, EntryType
    DEF RecordRollback, CacheAndLog, CacheWrite, ClusterTypes, TailHolds, Tails, HasVersion,
        HasContent
  <2>2. applyLog' \in [Replicas -> [Version -> ApplyStatus]]
    BY <1>16, LogType DEF RecordRollback, CacheAndLog, ClusterTypes, ApplyStatus
  <2>3. faults' \in 0 .. MaxFaults
    BY <1>16, FaultType DEF RecordRollback, CacheAndLog, ClusterTypes
  <2> QED
    BY <1>16, <2>1, <2>2, <2>3, NothingType DEF RecordRollback, Goto, ClusterTypes, SharedPlace
<1>17. ASSUME Maintain(r) PROVE ClusterTypes(places)'
  <2>1. applyLog' \in [Replicas -> [Version -> ApplyStatus]]
    BY <1>17 DEF Maintain, ClusterTypes, ApplyStatus
  <2> QED
    BY <1>17, <2>1, DeleteType DEF Maintain, ClusterTypes
<1>18. ASSUME WarmEntry(r) PROVE ClusterTypes(places)'
  <2>1. cache' \in Entry \cup {NoEntry}
    BY <1>18, EntryType
    DEF WarmEntry, CacheWrite, ClusterTypes, TailHolds, Tails, HasVersion, HasContent
  <2>2. faults' \in 0 .. MaxFaults
    BY <1>18, FaultType DEF WarmEntry, ClusterTypes
  <2>3. LeadTypes(places)
    BY <1>18, EndCycleType DEF WarmEntry
  <2> QED
    BY <1>18, <2>1, <2>2, <2>3 DEF WarmEntry, LeadTypes, ClusterTypes
<1> QED
  BY <1>1, <1>2, <1>3, <1>4, <1>5, <1>6, <1>7, <1>8, <1>9, <1>10, <1>11, <1>12, <1>13,
     <1>14, <1>15, <1>16, <1>17, <1>18 DEF SharedStep

\* So do the steps of everybody else.
LEMMA EnvironmentTypes ==
    ASSUME NEW places, ClusterTypes(places), Environment
    PROVE  ClusterTypes(places)'
<1>1. ASSUME SourceUpdate PROVE ClusterTypes(places)'
  <2>1. source' \in Entry /\ now' \in Version
    BY <1>1, SnapshotStoreAssumption DEF SourceUpdate, ClusterTypes, Entry, Version
  <2> QED
    BY <1>1, <2>1 DEF SourceUpdate, ClusterTypes
<1>2. ASSUME SourceDelete PROVE ClusterTypes(places)'
  <2>1. source' \in Entry
    BY <1>2, SnapshotStoreAssumption DEF SourceDelete, ClusterTypes, Entry, Version
  <2> QED
    BY <1>2, <2>1, FaultType DEF SourceDelete, ClusterTypes
<1>3. ASSUME Freeze \/ Verify \/ Release PROVE ClusterTypes(places)'
  <2>1. lock' \in Replicas \cup {Free, Operator}
    BY <1>3 DEF Freeze, Verify, Release, ClusterTypes
  <2>2. CASE Freeze
    <3>1. op.count + 1 \in 0 .. MaxRollbacks
      BY <2>2, ClusterAssumption DEF Freeze, ClusterTypes
    <3> QED
      BY <2>1, <2>2, <3>1 DEF Freeze, ClusterTypes
  <2>3. CASE Verify \/ Release
    BY <2>1, <2>3 DEF Verify, Release, OpMove, ClusterTypes, AnyVersion
  <2> QED
    BY <1>3, <2>2, <2>3
<1>4. ASSUME NEW v \in Version, Flip(v) PROVE ClusterTypes(places)'
  <2>1. rows' \in Table
    BY <1>4, ActivateType DEF Flip, ClusterTypes
  <2> QED
    BY <1>4, <2>1 DEF Flip, ClusterTypes, AnyVersion
<1>5. ASSUME Announce PROVE ClusterTypes(places)'
  <2>1. inbox' \in [Replicas -> Seq(Event)]
    BY <1>5, EventType, DeliverType DEF Announce, ClusterTypes, AnyVersion
  <2> QED
    BY <1>5, <2>1 DEF Announce, OpMove, ClusterTypes
<1>6. ASSUME NEW r \in Replicas, LoseEvent(r) \/ LoseSession(r) PROVE ClusterTypes(places)'
  BY <1>6, ConsumeType, FaultType DEF LoseEvent, LoseSession, ClusterTypes
<1>7. ASSUME EvictCache PROVE ClusterTypes(places)'
  BY <1>7, FaultType DEF EvictCache, ClusterTypes
<1> QED
  BY <1>1, <1>2, <1>3, <1>4, <1>5, <1>6, <1>7 DEF Environment

\* So do the steps that the leader cycle of either mode is made of.
LEMMA LeaderTypes ==
    ASSUME NEW places, SharedPlace \cup {"commit_activation"} \subseteq places,
           ClusterTypes(places), NEW r \in Replicas, HasVersion(r), HasContent(r),
           NEW next \in places, NEW failed \in places,
           \/ SavePending(r, next) \/ BeginActivate(r, failed)
           \/ CommitActivation(r, next, failed) \/ ApplyStaged(r, next)
    PROVE  ClusterTypes(places)'
<1>1. CASE SavePending(r, next)
  <2>1. rows' \in Table
    BY <1>1, SaveType DEF SavePending, ClusterTypes, HasVersion, HasContent
  <2>2. LeadTypes(places)
    <3>1. CASE EndCycle(r)
      BY <3>1, EndCycleType
    <3>2. CASE ~EndCycle(r)
      BY <1>1, <3>2 DEF SavePending, Goto, LeadTypes, ClusterTypes
    <3> QED
      BY <3>1, <3>2
  <2>3. faults' \in 0 .. MaxFaults
    BY <1>1, FaultType DEF SavePending, ClusterTypes
  <2> QED
    BY <1>1, <2>1, <2>2, <2>3 DEF SavePending, LeadTypes, ClusterTypes
<1>2. CASE BeginActivate(r, failed)
  <2>1. [job[r] EXCEPT !.demote = ActiveVersions(rows)] \in Job
    BY JobType, ActiveType DEF ClusterTypes
  <2>2. job' \in [Replicas -> Job]
    BY <1>2, <2>1 DEF BeginActivate, ClusterTypes
  <2>3. faults' \in 0 .. MaxFaults
    BY <1>2, FaultType DEF BeginActivate, ClusterTypes
  <2> QED
    BY <1>2, <2>2, <2>3 DEF BeginActivate, Goto, ClusterTypes
<1>3. CASE CommitActivation(r, next, failed)
  <2>1. rows' \in Table
    BY <1>3, ActivateType DEF CommitActivation, ClusterTypes, HasVersion
  <2>2. faults' \in 0 .. MaxFaults
    BY <1>3, FaultType DEF CommitActivation, ClusterTypes
  <2> QED
    BY <1>3, <2>1, <2>2 DEF CommitActivation, Goto, ClusterTypes, HasVersion
<1>4. CASE ApplyStaged(r, next)
  <2>1. [version |-> job[r].version, content |-> job[r].content] \in Value
    BY ValueType DEF ClusterTypes, Job
  <2> QED
    BY <1>4, <2>1 DEF ApplyStaged, Goto, ClusterTypes
<1> QED
  BY <1>1, <1>2, <1>3, <1>4

\* So does a crash.
LEMMA CrashTypes ==
    ASSUME NEW places, SharedPlace \subseteq places, ClusterTypes(places),
           NEW r \in Replicas, Crash(r)
    PROVE  ClusterTypes(places)'
<1>1. lock' \in Replicas \cup {Free, Operator} /\ faults' \in 0 .. MaxFaults
  BY FaultType DEF Crash, Unlock, ClusterTypes
<1>2. mem' \in [Replicas -> Value] /\ job' \in [Replicas -> Job]
  BY NothingType DEF Crash, ClusterTypes
<1>3. inbox' \in [Replicas -> Seq(Event)] /\ pc' \in [Replicas -> places]
  BY DEF Crash, Goto, ClusterTypes, SharedPlace
<1> QED
  BY <1>1, <1>2, <1>3 DEF Crash, ClusterTypes

----------------------------------------------------------------------------
\* Where a step takes a goroutine.

Stays(r) == pc'[r] = pc[r] /\ job'[r] = job[r]

\* The places without a version of their own.
Resting == {"load_cache", "load_storage", "boot", "idle", "probe", "catch_up",
            "fetch", "repair"}

\* The version check lets the cycle go on: ahead of what r serves.
Picks(r) ==
    /\ pc[r] = "fetch" /\ pc'[r] = "stage"
    /\ job'[r].version \in Version /\ Forward(job'[r].version, mem[r].version)

\* The content is held.
Holds(r) ==
    /\ pc[r] = "stage" /\ pc'[r] = "save"
    /\ job'[r].version = job[r].version /\ job'[r].content \in Contents

\* The active snapshot was read, for a rollback or for the cache.
Rereads(r) ==
    /\ \/ pc[r] = "idle" /\ pc'[r] = "rolled"
       \/ pc[r] = "repair" /\ pc'[r] = "warm"
    /\ job'[r].version \in ActiveVersions(rows) /\ job'[r].content \in Contents

\* A cycle that starts or ends leads to a place without a version.
LEMMA CycleRests ==
    ASSUME NEW places, ClusterTypes(places), NEW r \in Replicas
    PROVE  /\ EndCycle(r) => pc'[r] \in {"idle", "probe"}
           /\ \A f, t : \A other \in {"idle", "probe"} :
                 TryLead(r, f, t, other) => pc'[r] \in {"fetch", "idle", "probe"}
<1>1. ASSUME EndCycle(r) PROVE pc'[r] \in {"idle", "probe"}
  BY <1>1 DEF EndCycle, Goto, ClusterTypes, Job
<1>2. ASSUME NEW f, NEW t, NEW other \in {"idle", "probe"}, TryLead(r, f, t, other)
      PROVE  pc'[r] \in {"fetch", "idle", "probe"}
  BY <1>2 DEF TryLead, AcquireLock, Goto, ClusterTypes
<1> QED
  BY <1>1, <1>2

\* The shared steps take the goroutine of r to one of these.
LEMMA SharedGoes ==
    ASSUME NEW places, ClusterTypes(places), Payloads, NEW r \in Replicas, SharedStep(r)
    PROVE  Stays(r) \/ pc'[r] \in Resting \/ Picks(r) \/ Holds(r) \/ Rereads(r)
<1> USE DEF Resting
<1>1. ASSUME NEW place, Goto(r, place) PROVE pc'[r] = place
  BY <1>1 DEF Goto, ClusterTypes
<1>2. ASSUME \/ Start(r) \/ LoadFromCache(r) \/ LoadFromStorage(r) \/ CatchUpProbe(r)
             \/ CatchUpApply(r) \/ RecordRollback(r)
      PROVE  pc'[r] \in Resting
  BY <1>1, <1>2 DEF Start, LoadFromCache, LoadFromStorage, CatchUpProbe, CatchUpApply,
     RecordRollback
<1>3. ASSUME Boot(r) \/ ReconcileTick(r) \/ SyncCycle(r) \/ ForcedCycle(r)
      PROVE  pc'[r] \in Resting
  BY <1>1, <1>3, CycleRests DEF Boot, WarmCache, ReconcileTick, SyncCycle, ForcedCycle
<1>4. ASSUME WarmEntry(r) \/ CycleFails(r) PROVE pc'[r] \in Resting
  BY <1>4, CycleRests DEF WarmEntry, CycleFails
<1>9. ASSUME RepairCache(r) PROVE pc'[r] \in Resting \/ Rereads(r)
  <2>1. CASE EndCycle(r)
    BY <2>1, CycleRests
  <2>2. CASE ~EndCycle(r)
    <3>1. PICK v \in ActiveVersions(rows) :
             job' = [job EXCEPT ![r].version = v, ![r].content = rows[v].content]
      BY <1>9, <2>2 DEF RepairCache
    <3>2. rows[v].content \in Contents
      BY DEF ActiveVersions, Payloads, Exists
    <3>3. job'[r].version = v /\ job'[r].content = rows[v].content
      BY <3>1 DEF ClusterTypes, Job
    <3>4. pc[r] = "repair" /\ pc'[r] = "warm"
      BY <1>1, <1>9, <2>2 DEF RepairCache
    <3> QED
      BY <3>2, <3>3, <3>4 DEF Rereads
  <2> QED
    BY <2>1, <2>2
<1>5. ASSUME FetchVersion(r) PROVE pc'[r] \in Resting \/ Picks(r)
  <2> PICK v : CheckVersion(r, v)
    BY <1>5 DEF FetchVersion
  <2>1. CASE EndCycle(r)
    BY <2>1, CycleRests
  <2>2. CASE Goto(r, "repair")
    BY <1>1, <2>2
  <2>3. CASE /\ v \in Version /\ allowLeaderAdvance(r, v) /\ Goto(r, "stage")
             /\ job' = [job EXCEPT ![r].version = v]
    <3>1. job' = [job EXCEPT ![r] = [job[r] EXCEPT !.version = v]]
      BY <2>3
    <3>2. job'[r].version = v
      BY <3>1, JobFields DEF ClusterTypes
    <3> QED
      BY <1>1, <1>5, <2>3, <3>2 DEF Picks, FetchVersion, allowLeaderAdvance
  <2> QED
    BY <2>1, <2>2, <2>3 DEF CheckVersion
<1>6. ASSUME FetchAndStage(r) PROVE pc'[r] \in Resting \/ Holds(r)
  <2>1. CASE EndCycle(r)
    BY <2>1, CycleRests
  <2>2. CASE Goto(r, "save") /\ job' = [job EXCEPT ![r].content = source.content]
    <3>1. job'[r].version = job[r].version /\ job'[r].content = source.content
      BY <2>2 DEF ClusterTypes, Job
    <3>2. source.content \in Contents
      BY DEF ClusterTypes, Entry
    <3> QED
      BY <1>1, <1>6, <2>2, <3>1, <3>2 DEF Holds, FetchAndStage
  <2> QED
    BY <1>6, <2>1, <2>2 DEF FetchAndStage
<1>7. ASSUME DropEcho(r) \/ HandleSync(r) \/ Maintain(r) PROVE Stays(r)
  BY <1>7 DEF DropEcho, HandleSync, Maintain, Stays
<1>8. ASSUME HandleRollback(r) PROVE Stays(r) \/ Rereads(r)
  <2>1. CASE UNCHANGED <<pc, job>>
    BY <2>1 DEF Stays
  <2>2. CASE ~UNCHANGED <<pc, job>>
    <3>1. PICK v \in ActiveSnapshot(rows) :
             /\ Loads(r, v) /\ Goto(r, "rolled")
             /\ job' = [job EXCEPT ![r].version = v, ![r].content = rows[v].content]
      BY <1>8, <2>2 DEF HandleRollback
    <3>2. v \in ActiveVersions(rows) /\ rows[v].content \in Contents
      BY <3>1 DEF Loads, ActiveSnapshot, ActiveVersions, Payloads, Exists
    <3>3. job'[r].version = v /\ job'[r].content = rows[v].content
      BY <3>1 DEF ClusterTypes, Job
    <3>4. pc[r] = "idle" /\ pc'[r] = "rolled"
      BY <1>1, <1>8, <3>1 DEF HandleRollback, Receives
    <3> QED
      BY <3>2, <3>3, <3>4 DEF Rereads
  <2> QED
    BY <2>1, <2>2
<1> QED
  BY <1>2, <1>3, <1>4, <1>5, <1>6, <1>7, <1>8, <1>9 DEF SharedStep

\* They are steps of a replica that is at one of their places.
LEMMA SharedFrom ==
    ASSUME NEW r \in Replicas, SharedStep(r)
    PROVE  pc[r] \in SharedPlace
BY DEF SharedStep, SharedPlace, Start, LoadFromCache, LoadFromStorage, Boot, ReconcileTick,
   SyncCycle, ForcedCycle, FetchVersion, RepairCache, WarmEntry, FetchAndStage, CycleFails,
   CatchUpProbe, CatchUpApply, DropEcho, HandleSync, HandleRollback, RecordRollback,
   Maintain, Receives

\* A step of one replica leaves the goroutine and the buffer of another alone.
LEMMA SharedOthers ==
    ASSUME NEW places, ClusterTypes(places), NEW r \in Replicas, NEW q \in Replicas \ {r},
           SharedStep(r) \/ Crash(r)
    PROVE  Stays(q) /\ mem'[q] = mem[q] /\ inbox'[q] = inbox[q]
<1> USE DEF ClusterTypes, Goto, Stays
<1>1. ASSUME NEW f, NEW t, NEW p, TryLead(r, f, t, p) PROVE Stays(q)
  BY <1>1 DEF TryLead, AcquireLock
<1>2. ASSUME EndCycle(r) PROVE Stays(q)
  BY <1>2 DEF EndCycle
<1>3. ASSUME NEW v, Swap(r, v) PROVE mem'[q] = mem[q]
  BY <1>3 DEF Swap
<1>4. ASSUME Consume(r) PROVE inbox'[q] = inbox[q]
  BY <1>4 DEF Consume
<1>5. CASE Start(r) \/ LoadFromCache(r) \/ LoadFromStorage(r) \/ CatchUpProbe(r)
           \/ CatchUpApply(r) \/ RecordRollback(r)
  BY <1>3, <1>5 DEF Start, LoadFromCache, LoadFromStorage, CatchUpProbe, CatchUpApply,
     RecordRollback
<1>6. CASE Boot(r) \/ ReconcileTick(r) \/ SyncCycle(r) \/ ForcedCycle(r)
  BY <1>1, <1>6 DEF Boot, WarmCache, ReconcileTick, SyncCycle, ForcedCycle
<1>7. CASE \/ FetchVersion(r) \/ RepairCache(r) \/ WarmEntry(r) \/ FetchAndStage(r)
           \/ CycleFails(r)
  BY <1>2, <1>7 DEF FetchVersion, CheckVersion, RepairCache, WarmEntry, FetchAndStage,
     CycleFails
<1>8. CASE DropEcho(r) \/ HandleSync(r) \/ Maintain(r)
  BY <1>3, <1>4, <1>8 DEF DropEcho, HandleSync, Maintain
<1>9. CASE HandleRollback(r)
  BY <1>3, <1>4, <1>9 DEF HandleRollback
<1>10. CASE Crash(r)
  BY <1>10 DEF Crash
<1> QED
  BY <1>5, <1>6, <1>7, <1>8, <1>9, <1>10 DEF SharedStep

\* What everybody else changes of the replicas: an event lost, or announced.
LEMMA EnvironmentKeeps ==
    ASSUME Environment
    PROVE  /\ UNCHANGED <<pc, job, mem, decided>>
           /\ UNCHANGED rows \/ \E v \in Version : Flip(v)
           /\ UNCHANGED inbox \/ Announce \/ \E r \in Replicas : LoseEvent(r)
           /\ UNCHANGED cache \/ cache' = NoEntry
           /\ UNCHANGED applyLog
BY DEF Environment, SourceUpdate, SourceDelete, Freeze, Flip, Announce, Verify, Release,
   LoseEvent, LoseSession, EvictCache

----------------------------------------------------------------------------
\* What was decided.

\* A row that is or was active was decided.
ActiveDecided ==
    \A v \in Version : rows[v].status \in {"active", "inactive"} => v \in decided

\* What buffers hold is among the events.
BoxesIn(boxes, events) ==
    \A r \in Replicas : \A i \in 1 .. Len(boxes[r]) : boxes[r][i] \in events

\* What replicas serve, what events of the given kinds announce and what the
\* cache holds is among the versions.
Announcing(actions, versions) ==
    {e \in Event : e.action \in actions => e.version \in versions}
ServedIn(versions) == \A r \in Replicas : mem[r].version \in versions \cup {NoVersion}
CachedIn(versions) == cache # NoEntry => cache.version \in versions

\* What the two tails write was decided.
TailDecided == \A r \in Replicas : pc[r] \in Tails => job[r].version \in decided

\* A replica that is not up serves nothing.
Cold == \A r \in Replicas : pc[r] \in {"down", "load_cache"} => mem[r] = Nothing

\* No shared step decides anything, and what is active stays so.
LEMMA SharedRows ==
    ASSUME rows \in Table, NEW r \in Replicas, SharedStep(r)
    PROVE  /\ UNCHANGED decided
           /\ \/ UNCHANGED rows
              \/ Retention /\ \E old : rows' = DeleteOldSnapshots(rows, old)
           /\ ActiveVersions(rows') = ActiveVersions(rows)
<1>1. CASE Maintain(r)
  <2>1. /\ Retention /\ UNCHANGED decided
        /\ \E old \in SUBSET Version : rows' = DeleteOldSnapshots(rows, old)
    BY <1>1 DEF Maintain
  <2>2. PICK old : rows' = DeleteOldSnapshots(rows, old)
    BY <2>1
  <2>3. \A v \in Version : rows'[v].status = "active" <=> rows[v].status = "active"
    BY <2>2 DEF DeleteOldSnapshots, Prunable, NoRow
  <2> QED
    BY <2>1, <2>3 DEF ActiveVersions
<1>2. CASE ~Maintain(r)
  <2>1. UNCHANGED <<rows, decided>>
    BY <1>2 DEF SharedStep, Start, LoadFromCache, LoadFromStorage, Boot, WarmCache,
       ReconcileTick, SyncCycle, ForcedCycle, FetchVersion, CheckVersion, RepairCache,
       WarmEntry, FetchAndStage, CycleFails, CatchUpProbe, CatchUpApply, DropEcho, HandleSync,
       HandleRollback, RecordRollback
  <2> QED
    BY <2>1 DEF ActiveVersions
<1> QED
  BY <1>1, <1>2

\* An activation leaves the activated version and some of the former ones.
LEMMA ActivateDecides ==
    ASSUME NEW v \in Version, NEW seen, rows \in Table,
           rows' = ActivateSnapshot(rows, seen, v)
    PROVE  ActiveVersions(rows') = (ActiveVersions(rows) \ seen) \cup {v}
<1>1. \A w \in Version : rows'[w].status =
         IF w = v THEN "active"
         ELSE IF w \in seen /\ rows[w].status = "active" THEN "inactive"
         ELSE rows[w].status
  BY DEF ActivateSnapshot
<1> QED
  BY <1>1 DEF ActiveVersions

\* A change of the table that is one of its statements keeps the payloads and
\* what is known to be decided.
LEMMA RowsKept ==
    ASSUME rows \in Table, Payloads, ActiveDecided, decided \subseteq decided',
           \/ UNCHANGED rows
           \/ \E v \in Version, c \in Contents : rows' = SaveSnapshot(rows, v, c)
           \/ \E v \in Version : rows' = FailSnapshot(rows, v)
           \/ \E old : rows' = DeleteOldSnapshots(rows, old)
           \/ \E v \in decided' \cap Version : \E seen :
                 rows' = ActivateSnapshot(rows, seen, v) /\ Exists(rows, v)
    PROVE  Payloads' /\ ActiveDecided'
<1>1. CASE UNCHANGED rows
  BY <1>1 DEF Payloads, ActiveDecided, Exists
<1>2. ASSUME NEW v \in Version, NEW c \in Contents, rows' = SaveSnapshot(rows, v, c)
      PROVE  Payloads' /\ ActiveDecided'
  BY <1>2 DEF Payloads, ActiveDecided, Exists, SaveSnapshot, Table
<1>3. ASSUME NEW v \in Version, rows' = FailSnapshot(rows, v)
      PROVE  Payloads' /\ ActiveDecided'
  <2>1. \A w \in Version : rows'[w] = rows[w]
           \/ /\ Exists(rows, w) /\ rows'[w].status = "failed"
              /\ rows'[w].content = rows[w].content
    BY <1>3 DEF Exists, FailSnapshot, Table, Row
  <2> QED
    BY <2>1 DEF Payloads, ActiveDecided, Exists
<1>4. ASSUME NEW old, rows' = DeleteOldSnapshots(rows, old)
      PROVE  Payloads' /\ ActiveDecided'
  BY <1>4 DEF Payloads, ActiveDecided, Exists, DeleteOldSnapshots, NoRow
<1>5. ASSUME NEW v \in decided' \cap Version, NEW seen, Exists(rows, v),
             rows' = ActivateSnapshot(rows, seen, v)
      PROVE  Payloads' /\ ActiveDecided'
  BY <1>5 DEF Payloads, ActiveDecided, Exists, ActivateSnapshot
<1> QED
  BY <1>1, <1>2, <1>3, <1>4, <1>5

\* The operator flips the active rows to one version that was decided.
Flips(v) ==
    /\ op.phase = "frozen" /\ op' = [op EXCEPT !.phase = "flipped", !.target = v]
    /\ v \in decided
    /\ ActiveVersions(rows') = {v}
    /\ UNCHANGED <<decided, pc, job, mem, inbox, applyLog>>

\* A flip is one.
LEMMA FlipDecides ==
    ASSUME rows \in Table, ActiveDecided, NEW v \in Version, Flip(v)
    PROVE  /\ Flips(v)
           /\ rows' = ActivateSnapshot(rows, ActiveVersions(rows), v)
           /\ Exists(rows, v) /\ v \in decided'
<1>1. ActiveVersions(rows') = {v}
  BY ActivateDecides DEF Flip
<1> QED
  BY <1>1 DEF Flip, Flips, ActiveDecided, Exists

\* The ways in which what replicas serve changes.
Stops(r) == mem' = [mem EXCEPT ![r] = Nothing] /\ pc'[r] = "down"
Moves(r, v) ==
    /\ \E c \in Contents : mem' = [mem EXCEPT ![r] = [version |-> v, content |-> c]]
    /\ \/ v \in decided /\ Forward(v, mem[r].version)
       \/ /\ v \in ActiveVersions(rows)
          /\ pc[r] = "load_storage" \/ (pc[r] = "idle" /\ Receives(r, "rollback"))
    /\ UNCHANGED <<rows, decided>>

\* An active version is decided, and its row has a payload.
LEMMA ActiveFacts ==
    ASSUME Payloads, ActiveDecided, NEW r \in Replicas, NEW v \in ActiveSnapshot(rows),
           Loads(r, v)
    PROVE  /\ v \in ActiveVersions(rows) /\ v \in Version /\ v \in decided
           /\ rows[v].content \in Contents
BY DEF ActiveSnapshot, ActiveVersions, Loads, ActiveDecided, Payloads, Exists

\* A shared step leaves what replicas serve alone, or moves its replica.
LEMMA SharedMoves ==
    ASSUME NEW places, ClusterTypes(places), Payloads, ActiveDecided, Cold,
           CachedIn(decided), BoxesIn(inbox, Announcing({"sync"}, decided)),
           NEW r \in Replicas, SharedStep(r)
    PROVE  UNCHANGED mem \/ \E v \in Version : Moves(r, v)
<1>1. ASSUME LoadFromCache(r), ~UNCHANGED mem PROVE \E v \in Version : Moves(r, v)
  <2>1. /\ mem' = [mem EXCEPT ![r] = cache] /\ cache # NoEntry /\ pc[r] = "load_cache"
        /\ UNCHANGED <<rows, decided>>
    BY <1>1 DEF LoadFromCache
  <2>2. cache \in Entry /\ cache.version \in decided
    BY <2>1 DEF ClusterTypes, CachedIn
  <2>3. /\ cache.version \in Version /\ cache.content \in Contents
        /\ cache = [version |-> cache.version, content |-> cache.content]
    BY <2>2 DEF Entry
  <2>4. Forward(cache.version, mem[r].version)
    BY <2>1 DEF Cold, Nothing, Forward
  <2> QED
    BY <2>1, <2>2, <2>3, <2>4 DEF Moves
<1>2. ASSUME LoadFromStorage(r), ~UNCHANGED mem PROVE \E v \in Version : Moves(r, v)
  <2>1. PICK v \in ActiveSnapshot(rows) : Loads(r, v) /\ Swap(r, v)
    BY <1>2 DEF LoadFromStorage
  <2> QED
    BY <1>2, <2>1, ActiveFacts DEF Moves, Swap, LoadFromStorage
<1>3. ASSUME CatchUpApply(r), ~UNCHANGED mem PROVE \E v \in Version : Moves(r, v)
  <2>1. PICK v \in ActiveSnapshot(rows) : CatchUpAllowed(r, v) /\ Swap(r, v)
    BY <1>3 DEF CatchUpApply
  <2> QED
    BY <1>3, <2>1, ActiveFacts DEF Moves, Swap, CatchUpApply, CatchUpAllowed
<1>4. ASSUME HandleSync(r), ~UNCHANGED mem PROVE \E v \in Version : Moves(r, v)
  <2> DEFINE v == Head(inbox[r]).version
  <2>1. /\ Receives(r, "sync") /\ Behind(r, v) /\ Exists(rows, v) /\ Loads(r, v)
        /\ Swap(r, v) /\ UNCHANGED <<rows, decided>>
    BY <1>4 DEF HandleSync
  <2>2. inbox[r] \in Seq(Event) /\ inbox[r] # <<>> /\ inbox[r][1].action = "sync"
    BY <2>1 DEF Receives, ClusterTypes
  <2>3. v = inbox[r][1].version /\ v \in decided
    BY <2>2 DEF BoxesIn, Announcing
  <2>4. v \in Version /\ rows[v].content \in Contents
    BY <2>1, <2>3 DEF ClusterTypes, Payloads
  <2> QED
    BY <2>1, <2>3, <2>4 DEF Moves, Swap, Behind
<1>5. ASSUME HandleRollback(r), ~UNCHANGED mem PROVE \E v \in Version : Moves(r, v)
  <2>1. PICK v \in ActiveSnapshot(rows) : Loads(r, v) /\ Swap(r, v)
    BY <1>5 DEF HandleRollback
  <2> QED
    BY <1>5, <2>1, ActiveFacts DEF Moves, Swap, HandleRollback, Receives
<1>6. ASSUME ~LoadFromCache(r), ~LoadFromStorage(r), ~CatchUpApply(r), ~HandleSync(r),
             ~HandleRollback(r)
      PROVE  UNCHANGED mem
  BY <1>6 DEF SharedStep, Start, Boot, WarmCache, ReconcileTick, SyncCycle, ForcedCycle,
     FetchVersion, CheckVersion, RepairCache, WarmEntry, FetchAndStage, CycleFails,
     CatchUpProbe, DropEcho, RecordRollback, Maintain
<1> QED
  BY <1>1, <1>2, <1>3, <1>4, <1>5, <1>6

\* Where a shared step leaves a replica that it made serve something else.
LEMMA SharedServes ==
    ASSUME NEW places, ClusterTypes(places), NEW r \in Replicas, SharedStep(r),
           mem'[r] # mem[r]
    PROVE  pc'[r] \in {"load_storage", "boot", "idle", "rolled"}
<1>1. ASSUME NEW place, Goto(r, place) PROVE pc'[r] = place
  BY <1>1 DEF Goto, ClusterTypes
<1>2. CASE LoadFromCache(r) \/ LoadFromStorage(r) \/ CatchUpApply(r)
  BY <1>1, <1>2 DEF LoadFromCache, LoadFromStorage, CatchUpApply
<1>3. CASE HandleSync(r) \/ HandleRollback(r)
  BY <1>1, <1>3 DEF HandleSync, HandleRollback, Receives
<1>4. ASSUME ~LoadFromCache(r), ~LoadFromStorage(r), ~CatchUpApply(r), ~HandleSync(r),
             ~HandleRollback(r)
      PROVE  UNCHANGED mem
  BY <1>4 DEF SharedStep, Start, Boot, WarmCache, ReconcileTick, SyncCycle, ForcedCycle,
     FetchVersion, CheckVersion, RepairCache, WarmEntry, FetchAndStage, CycleFails,
     CatchUpProbe, DropEcho, RecordRollback, Maintain
<1> QED
  BY <1>2, <1>3, <1>4

\* Serving, of what was decided.
Serves(r, v) == \E c \in Contents : mem' = [mem EXCEPT ![r] = [version |-> v, content |-> c]]

\* A replica that moves serves what was decided.
LEMMA MovesDecided ==
    ASSUME ActiveDecided, NEW r \in Replicas, NEW v \in Version, Moves(r, v)
    PROVE  Serves(r, v) /\ v \in decided
BY DEF Moves, Serves, ActiveVersions, ActiveDecided

\* What replicas serve stays decided.
LEMMA ServedKept ==
    ASSUME mem \in [Replicas -> Value], ServedIn(decided), decided \subseteq decided',
           \/ UNCHANGED mem
           \/ \E r \in Replicas : Stops(r)
           \/ \E r \in Replicas, v \in decided : Serves(r, v)
    PROVE  ServedIn(decided)'
<1>1. ASSUME NEW r \in Replicas, Stops(r) PROVE ServedIn(decided)'
  BY <1>1 DEF Stops, Nothing, ServedIn
<1>2. ASSUME NEW r \in Replicas, NEW v \in decided, Serves(r, v) PROVE ServedIn(decided)'
  <2>1. PICK c \in Contents : mem' = [mem EXCEPT ![r] = [version |-> v, content |-> c]]
    BY <1>2 DEF Serves
  <2> QED
    BY <2>1 DEF ServedIn
<1>3. CASE UNCHANGED mem
  BY <1>3 DEF ServedIn
<1> QED
  BY <1>1, <1>2, <1>3

\* An event is in the buffer of q.
Held(q, e) == \E j \in 1 .. Len(inbox[q]) : inbox[q][j] = e

\* Taking an event off a buffer adds none.
LEMMA ConsumeBox ==
    ASSUME inbox \in [Replicas -> Seq(Event)], NEW r \in Replicas, inbox[r] # <<>>,
           Consume(r), NEW q \in Replicas, NEW i \in 1 .. Len(inbox'[q])
    PROVE  Held(q, inbox'[q][i])
<1>1. CASE q # r
  BY <1>1 DEF Consume, Held
<1>2. CASE q = r
  <2>1. inbox'[q] = Tail(inbox[q]) /\ inbox[q] \in Seq(Event) /\ inbox[q] # <<>>
    BY <1>2 DEF Consume
  <2>2. i + 1 \in 1 .. Len(inbox[q]) /\ inbox'[q][i] = inbox[q][i + 1]
    BY <2>1
  <2> QED
    BY <2>2 DEF Held
<1> QED
  BY <1>1, <1>2

\* Delivering an event adds that event only.
LEMMA DeliverBox ==
    ASSUME inbox \in [Replicas -> Seq(Event)], NEW e \in Event, inbox' = Deliver(inbox, e),
           NEW q \in Replicas, NEW i \in 1 .. Len(inbox'[q])
    PROVE  Held(q, inbox'[q][i]) \/ inbox'[q][i] = e
<1>1. inbox[q] \in Seq(Event)
  OBVIOUS
<1>2. inbox'[q] = inbox[q] \/ inbox'[q] = Append(inbox[q], e)
  BY DEF Deliver
<1>3. CASE inbox'[q] = inbox[q]
  BY <1>3 DEF Held
<1>4. CASE inbox'[q] = Append(inbox[q], e)
  <2>1. (i \in 1 .. Len(inbox[q]) /\ inbox'[q][i] = inbox[q][i]) \/ inbox'[q][i] = e
    BY <1>1, <1>4
  <2> QED
    BY <2>1 DEF Held
<1> QED
  BY <1>2, <1>3, <1>4

\* A shared step takes an event off the buffer of its replica, or none.
LEMMA SharedConsumes ==
    ASSUME NEW r \in Replicas, SharedStep(r)
    PROVE  UNCHANGED inbox \/ (pc[r] = "idle" /\ inbox[r] # <<>> /\ Consume(r))
<1>1. CASE DropEcho(r) \/ HandleSync(r) \/ HandleRollback(r)
  BY <1>1 DEF DropEcho, HandleSync, HandleRollback, Receives
<1>2. CASE ~DropEcho(r) /\ ~HandleSync(r) /\ ~HandleRollback(r)
  BY <1>2 DEF SharedStep, Start, LoadFromCache, LoadFromStorage, Boot, WarmCache,
     ReconcileTick, SyncCycle, ForcedCycle, FetchVersion, CheckVersion, RepairCache, WarmEntry,
     FetchAndStage, CycleFails, CatchUpProbe, CatchUpApply, RecordRollback, Maintain
<1> QED
  BY <1>1, <1>2

\* The event that the operator publishes.
RollbackEvent ==
    [action |-> "rollback", version |-> NoVersion, origin |-> Operator, round |-> 0]

\* The shared steps, a crash and the operator add no other event than that.
LEMMA SharedBox ==
    ASSUME inbox \in [Replicas -> Seq(Event)],
           Environment \/ \E r \in Replicas : SharedStep(r) \/ Crash(r),
           NEW q \in Replicas, NEW i \in 1 .. Len(inbox'[q])
    PROVE  Held(q, inbox'[q][i]) \/ inbox'[q][i] = RollbackEvent
<1>1. CASE UNCHANGED inbox
  BY <1>1 DEF Held
<1>2. ASSUME NEW r \in Replicas, SharedStep(r), ~UNCHANGED inbox
      PROVE  Held(q, inbox'[q][i])
  BY <1>2, SharedConsumes, ConsumeBox
<1>3. ASSUME NEW r \in Replicas, Crash(r) PROVE Held(q, inbox'[q][i])
  <2>1. CASE q = r
    BY <1>3, <2>1 DEF Crash
  <2>2. CASE q # r
    BY <1>3, <2>2 DEF Crash, Held
  <2> QED
    BY <2>1, <2>2
<1>4. ASSUME NEW r \in Replicas, LoseEvent(r) PROVE Held(q, inbox'[q][i])
  BY <1>4, ConsumeBox DEF LoseEvent
<1>5. ASSUME Announce PROVE Held(q, inbox'[q][i]) \/ inbox'[q][i] = RollbackEvent
  <2>1. inbox' = Deliver(inbox, RollbackEvent)
    BY <1>5 DEF Announce, RollbackEvent
  <2>2. RollbackEvent \in Event
    BY EventType DEF AnyVersion, RollbackEvent
  <2> QED
    BY <2>1, <2>2, DeliverBox
<1> QED
  BY <1>1, <1>2, <1>3, <1>4, <1>5, EnvironmentKeeps

\* What the shared steps cache was decided.
LEMMA SharedCached ==
    ASSUME ActiveDecided, TailDecided, CachedIn(decided), NEW r \in Replicas, SharedStep(r)
    PROVE  cache' # NoEntry => cache'.version \in decided
<1>1. CASE UNCHANGED cache
  BY <1>1 DEF CachedIn
<1>2. ASSUME NEW v \in decided, NEW c, CacheWrite(v, c)
      PROVE  cache' # NoEntry => cache'.version \in decided
  BY <1>2 DEF CacheWrite, CachedIn
<1>3. ASSUME WarmEntry(r) \/ RecordRollback(r), ~UNCHANGED cache
      PROVE  cache' # NoEntry => cache'.version \in decided
  <2>1. pc[r] \in Tails /\ CacheWrite(job[r].version, job[r].content)
    BY <1>3 DEF RecordRollback, CacheAndLog, WarmEntry, Tails
  <2> QED
    BY <1>2, <2>1 DEF TailDecided
<1>4. ASSUME ~WarmEntry(r), ~RecordRollback(r) PROVE UNCHANGED cache
  BY <1>4 DEF SharedStep, Start, LoadFromCache, LoadFromStorage, Boot, WarmCache,
     ReconcileTick, SyncCycle, ForcedCycle, FetchVersion, CheckVersion, RepairCache,
     FetchAndStage, CycleFails, CatchUpProbe, CatchUpApply, DropEcho, HandleSync,
     HandleRollback, Maintain
<1> QED
  BY <1>1, <1>3, <1>4

\* A replica that is down starts without a value, and no shared step stops it.
LEMMA SharedCold ==
    ASSUME NEW places, ClusterTypes(places), Cold, NEW r \in Replicas, SharedStep(r),
           pc'[r] \in {"down", "load_cache"}
    PROVE  mem'[r] = Nothing
<1>1. ASSUME NEW place, Goto(r, place) PROVE pc'[r] = place
  BY <1>1 DEF Goto, ClusterTypes
<1>2. CASE Start(r)
  BY <1>2 DEF Start, Cold
<1>3. CASE pc[r] \in {"down", "load_cache"} /\ ~Start(r)
  <2>1. LoadFromCache(r) \/ CatchUpApply(r)
    BY <1>3 DEF SharedStep, LoadFromStorage, Boot, ReconcileTick, SyncCycle, ForcedCycle,
       FetchVersion, RepairCache, WarmEntry, FetchAndStage, CycleFails, CatchUpProbe, DropEcho,
       HandleSync, HandleRollback, RecordRollback, Maintain, Receives
  <2> QED
    BY <1>1, <1>3, <2>1 DEF LoadFromCache, CatchUpApply
<1>4. CASE pc[r] \notin {"down", "load_cache"}
  <2>1. ASSUME EndCycle(r) \/ \E f, t : \E p \in {"idle", "probe"} : TryLead(r, f, t, p)
        PROVE  FALSE
    BY <2>1, CycleRests
  <2>2. CASE \/ LoadFromStorage(r) \/ CatchUpProbe(r) \/ CatchUpApply(r) \/ RecordRollback(r)
             \/ LoadFromCache(r)
    BY <1>1, <2>2 DEF LoadFromStorage, CatchUpProbe, CatchUpApply, RecordRollback,
       LoadFromCache
  <2>3. CASE Boot(r) \/ ReconcileTick(r) \/ SyncCycle(r) \/ ForcedCycle(r)
    BY <1>1, <2>1, <2>3 DEF Boot, WarmCache, ReconcileTick, SyncCycle, ForcedCycle
  <2>4. CASE \/ FetchVersion(r) \/ RepairCache(r) \/ WarmEntry(r) \/ FetchAndStage(r)
           \/ CycleFails(r)
    BY <1>1, <2>1, <2>4 DEF FetchVersion, CheckVersion, RepairCache, WarmEntry, FetchAndStage,
       CycleFails
  <2>5. CASE DropEcho(r) \/ HandleSync(r) \/ HandleRollback(r) \/ Maintain(r)
    BY <1>1, <1>4, <2>5 DEF DropEcho, HandleSync, HandleRollback, Maintain
  <2> QED
    BY <1>2, <2>2, <2>3, <2>4, <2>5 DEF SharedStep
<1> QED
  BY <1>2, <1>3, <1>4

\* The initial states decided nothing.
LEMMA NothingDecided ==
    ASSUME Init
    PROVE  /\ ActiveDecided /\ ServedIn(decided) /\ CachedIn(decided) /\ TailDecided /\ Cold
           /\ \A events : BoxesIn(inbox, events)
BY DEF Init, ActiveDecided, ServedIn, CachedIn, TailDecided, Tails, Cold, BoxesIn, EmptyTable,
   NoRow, Nothing

----------------------------------------------------------------------------
\* The advisory lock.

\* The places of the shared steps where a replica leads.
Starting == {"fetch", "stage", "save", "repair", "warm"}

\* A replica takes the lock only when it is free and releases only its own.
LEMMA SharedLock ==
    ASSUME NEW r \in Replicas, SharedStep(r) \/ Crash(r) \/ EndCycle(r),
           lock # Free, lock # r
    PROVE  UNCHANGED lock
<1>1. ASSUME NEW f, NEW t, NEW p, TryLead(r, f, t, p) PROVE UNCHANGED lock
  BY <1>1 DEF TryLead, AcquireLock
<1>2. ASSUME Unlock(r) PROVE UNCHANGED lock
  BY <1>2 DEF Unlock
<1>3. CASE Boot(r) \/ ReconcileTick(r) \/ SyncCycle(r) \/ ForcedCycle(r)
  BY <1>1, <1>3 DEF Boot, WarmCache, AcquireLock, ReconcileTick, SyncCycle, ForcedCycle
<1>4. CASE \/ FetchVersion(r) \/ RepairCache(r) \/ WarmEntry(r) \/ FetchAndStage(r)
           \/ CycleFails(r)
  BY <1>2, <1>4 DEF FetchVersion, CheckVersion, RepairCache, WarmEntry, FetchAndStage,
     CycleFails, EndCycle
<1>5. CASE \/ Start(r) \/ LoadFromCache(r) \/ LoadFromStorage(r) \/ CatchUpProbe(r)
           \/ CatchUpApply(r) \/ DropEcho(r) \/ HandleSync(r) \/ HandleRollback(r)
           \/ RecordRollback(r) \/ Maintain(r)
  BY <1>5 DEF Start, LoadFromCache, LoadFromStorage, CatchUpProbe, CatchUpApply,
     DropEcho, HandleSync, HandleRollback, RecordRollback, Maintain
<1>6. CASE Crash(r) \/ EndCycle(r)
  BY <1>2, <1>6 DEF Crash, EndCycle
<1> QED
  BY <1>3, <1>4, <1>5, <1>6 DEF SharedStep

\* A shared step that leaves its replica leading leaves it the lock.
LEMMA SharedLeads ==
    ASSUME NEW places, ClusterTypes(places), NEW r \in Replicas, SharedStep(r),
           pc'[r] \in Starting
    PROVE  lock' = r \/ (pc[r] \in Starting /\ UNCHANGED lock)
<1> USE DEF Starting
<1>1. ASSUME NEW place, Goto(r, place) PROVE pc'[r] = place
  BY <1>1 DEF Goto, ClusterTypes
<1>2. ASSUME EndCycle(r) PROVE FALSE
  BY <1>2, CycleRests
<1>3. ASSUME NEW f, NEW t, NEW other \in {"idle", "probe"}, TryLead(r, f, t, other)
      PROVE  lock' = r
  BY <1>1, <1>3 DEF TryLead, AcquireLock
<1>4. CASE Boot(r) \/ ReconcileTick(r) \/ SyncCycle(r) \/ ForcedCycle(r)
  BY <1>1, <1>3, <1>4 DEF Boot, WarmCache, AcquireLock, ReconcileTick, SyncCycle, ForcedCycle
<1>5. CASE \/ FetchVersion(r) \/ RepairCache(r) \/ WarmEntry(r) \/ FetchAndStage(r)
           \/ CycleFails(r)
  BY <1>2, <1>5 DEF FetchVersion, CheckVersion, FetchAndStage, RepairCache, WarmEntry,
     CycleFails
<1>6. CASE \/ Start(r) \/ LoadFromCache(r) \/ LoadFromStorage(r) \/ CatchUpProbe(r)
           \/ CatchUpApply(r) \/ RecordRollback(r)
  BY <1>1, <1>6 DEF Start, LoadFromCache, LoadFromStorage, CatchUpProbe, CatchUpApply,
     RecordRollback
<1>7. CASE DropEcho(r) \/ HandleSync(r) \/ HandleRollback(r) \/ Maintain(r)
  <2>1. pc[r] = "idle" /\ (UNCHANGED pc \/ Goto(r, "rolled"))
    BY <1>7 DEF DropEcho, HandleSync, HandleRollback, Receives, Maintain
  <2> QED
    BY <1>1, <2>1
<1> QED
  BY <1>4, <1>5, <1>6, <1>7 DEF SharedStep

\* A replica leaves the operator's progress alone, but for being late.
LEMMA SharedOp ==
    ASSUME NEW places, ClusterTypes(places), NEW r \in Replicas, SharedStep(r)
    PROVE  /\ op'.phase = op.phase /\ op'.target = op.target /\ op'.count = op.count
           /\ op.late \subseteq op'.late
           /\ Start(r) \/ UNCHANGED op
<1>1. CASE Start(r)
  BY <1>1 DEF Start, ClusterTypes
<1>2. CASE ~Start(r)
  BY <1>2 DEF SharedStep, LoadFromCache, LoadFromStorage, Boot, WarmCache,
     ReconcileTick, SyncCycle, ForcedCycle, FetchVersion, CheckVersion, RepairCache, WarmEntry,
     FetchAndStage, CycleFails, CatchUpProbe, CatchUpApply, DropEcho, HandleSync,
     HandleRollback, RecordRollback, Maintain
<1> QED
  BY <1>1, <1>2

\* The operator takes a free lock and releases it when done; only a lost session
\* takes it from a replica.
LEMMA EnvironmentLock ==
    ASSUME NEW places, ClusterTypes(places), "session" \notin FaultKinds, Environment
    PROVE  \/ lock = Free /\ lock' = Operator
           \/ op.phase # "none" /\ lock' = Free /\ op'.phase = "none"
           \/ UNCHANGED lock /\ (op'.phase # "none" => op.phase # "none")
<1>1. CASE Freeze \/ Release
  BY <1>1 DEF Freeze, Release, ClusterTypes
<1>2. CASE \E v \in Version : Flip(v)
  BY <1>2 DEF Flip
<1>3. CASE Announce \/ Verify
  BY <1>3 DEF Announce, Verify
<1>4. CASE SourceUpdate \/ SourceDelete \/ EvictCache \/ \E r \in Replicas : LoseEvent(r)
  BY <1>4 DEF SourceUpdate, SourceDelete, EvictCache, LoseEvent
<1>5. CASE \E r \in Replicas : LoseSession(r)
  BY <1>5 DEF LoseSession, Fault
<1> QED
  BY <1>1, <1>2, <1>3, <1>4, <1>5 DEF Environment
=============================================================================
