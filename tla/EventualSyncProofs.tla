------------------------- MODULE EventualSyncProofs -------------------------
(***************************************************************************)
(* Proofs about EventualSync, for any number of replicas, versions, faults *)
(* and rollbacks, any validators and any options: types, DecidedFirst,     *)
(* ForwardOnly, the refinement of ConfigPropagation, and OneLeader while   *)
(* no lock session is lost.                                                *)
(***************************************************************************)
EXTENDS EventualSync, ClusterProofs

----------------------------------------------------------------------------
\* The invariant.  TypeOK alone is not inductive: what a leader saves, activates,
\* caches and logs is in its local variables, so their content at each place counts.

HoldsVersion == {"stage", "save", "activate", "commit_activation", "apply",
                 "publish", "record", "rolled", "warm"}
HoldsContent == HoldsVersion \ {"stage"}

LocalsOK ==
    /\ Payloads
    /\ \A r \in Replicas :
          /\ pc[r] \in HoldsVersion => HasVersion(r)
          /\ pc[r] \in HoldsContent => HasContent(r)

TypeInv == TypeOK /\ LocalsOK

\* What is active or once was, and what the tail of a cycle still applies,
\* announces and records, was decided.
Carried ==
    \A r \in Replicas :
        pc[r] \in {"apply", "publish", "record"} \cup Tails => job[r].version \in decided
Decided ==
    /\ ActiveDecided /\ Carried
    /\ ServedIn(decided) /\ CachedIn(decided)
    /\ BoxesIn(inbox, Announcing({"sync"}, decided))

Undecided == {"stage", "save", "activate", "commit_activation", "apply"}

\* Until its value is applied, a cycle's version stays ahead of what its replica
\* serves; a replica that is not up serves nothing.
Ahead ==
    /\ Cold
    /\ \A r \in Replicas :
          pc[r] \in Undecided => Forward(job[r].version, mem[r].version)

SafeInv == TypeInv /\ Decided /\ Ahead

\* The types are those that the shared lemmas speak of.
LEMMA TypesShared ==
    /\ TypeOK <=> ClusterTypes(Place)
    /\ SharedPlace \cup {"commit_activation"} \subseteq Place
BY DEF TypeOK, ClusterTypes, SharedPlace, Place

\* So is what the local variables hold at the places of the shared steps.
LEMMA LocalsShared ==
    ASSUME LocalsOK PROVE Payloads /\ TailHolds
BY DEF LocalsOK, TailHolds, Tails, HoldsVersion, HoldsContent

\* The initial states are safe.
LEMMA SafeInit == Init => SafeInv
<1> SUFFICES ASSUME Init PROVE SafeInv
  OBVIOUS
<1>1. TypeOK /\ Payloads
  BY TypesShared, ClusterInit
<1>2. \A r \in Replicas : pc[r] = "down"
  BY DEF Init
<1> QED
  BY <1>1, <1>2, NothingDecided
  DEF SafeInv, TypeInv, LocalsOK, HoldsVersion, HoldsContent, Decided, Carried, Tails,
      Ahead, Undecided

----------------------------------------------------------------------------
\* Where a step takes a goroutine.

\* A leader ends its cycle, or goes on with its version and its content.
LeaderMoves ==
    {<<"save", "activate">>, <<"activate", "commit_activation">>,
     <<"commit_activation", "apply">>, <<"apply", "publish">>, <<"publish", "record">>}
Proceeds(r) ==
    /\ <<pc[r], pc'[r]>> \in LeaderMoves
    /\ job'[r].version = job[r].version /\ job'[r].content = job[r].content
Ends(r) == pc'[r] \in {"idle", "probe", "end"}

\* A leader's step does one of them, and serves something else only by Apply.
LEMMA LeaderGoes ==
    ASSUME TypeOK, NEW r \in Replicas, LeaderStep(r)
    PROVE  /\ Ends(r) \/ Proceeds(r)
           /\ UNCHANGED mem \/ Apply(r)
<1>1. ASSUME NEW place, Goto(r, place) PROVE pc'[r] = place
  BY <1>1 DEF Goto, TypeOK
<1>2. EndCycle(r) => Ends(r)
  BY TypesShared, CycleRests DEF Ends
<1>3. CASE Save(r)
  BY <1>1, <1>2, <1>3 DEF Save, SavePending, Proceeds, LeaderMoves
<1>4. CASE Begin(r)
  <2>1. job'[r].version = job[r].version /\ job'[r].content = job[r].content
    BY <1>4 DEF Begin, BeginActivate, TypeOK, Job
  <2> QED
    BY <1>1, <1>4, <2>1 DEF Begin, BeginActivate, Proceeds, LeaderMoves, Ends
<1>5. CASE Decide(r)
  BY <1>1, <1>5 DEF Decide, CommitActivation, Proceeds, LeaderMoves, Ends
<1>6. CASE Apply(r)
  BY <1>1, <1>6 DEF Apply, ApplyStaged, Proceeds, LeaderMoves
<1>7. CASE Publish(r) \/ Record(r)
  BY <1>1, <1>7 DEF Publish, Record, Proceeds, LeaderMoves, Ends
<1>8. CASE Finish(r)
  BY <1>2, <1>8 DEF Finish
<1> QED
  BY <1>3, <1>4, <1>5, <1>6, <1>7, <1>8 DEF LeaderStep

\* A step of one replica leaves the goroutine of another alone.
LEMMA OthersKept ==
    ASSUME TypeOK, NEW r \in Replicas, NEW q \in Replicas \ {r},
           SharedStep(r) \/ LeaderStep(r) \/ Crash(r)
    PROVE  pc'[q] = pc[q] /\ job'[q] = job[q] /\ mem'[q] = mem[q]
<1>1. CASE SharedStep(r) \/ Crash(r)
  BY <1>1, TypesShared, SharedOthers DEF Stays
<1>2. CASE LeaderStep(r)
  BY <1>2 DEF LeaderStep, Save, SavePending, Begin, BeginActivate, Decide, CommitActivation,
     Apply, ApplyStaged, Publish, Record, Finish, EndCycle, TypeOK, Goto
<1> QED
  BY <1>1, <1>2

\* Where a step leaves the goroutine of q.
Goes(q) ==
    \/ Stays(q)
    \/ pc'[q] \in Resting \cup {"down", "end"}
    \/ Picks(q) \/ Holds(q) \/ Rereads(q) \/ Proceeds(q)

\* Every step leaves it in one of these ways.
LEMMA GoesCases ==
    ASSUME TypeInv, Next, NEW q \in Replicas
    PROVE  Goes(q)
<1> USE DEF TypeInv
<1>1. ASSUME SharedStep(q) PROVE Goes(q)
  BY <1>1, TypesShared, LocalsShared, SharedGoes DEF Goes
<1>2. ASSUME LeaderStep(q) PROVE Goes(q)
  BY <1>2, LeaderGoes DEF Goes, Ends, Resting
<1>3. ASSUME Crash(q) PROVE Goes(q)
  BY <1>3 DEF Crash, Goto, TypeOK, Goes
<1>4. ASSUME NEW r \in Replicas \ {q}, SharedStep(r) \/ LeaderStep(r) \/ Crash(r)
      PROVE  Goes(q)
  BY <1>4, OthersKept DEF Goes, Stays
<1>5. ASSUME Environment PROVE Goes(q)
  BY <1>5, EnvironmentKeeps DEF Goes, Stays
<1> QED
  BY <1>1, <1>2, <1>3, <1>4, <1>5 DEF Next

----------------------------------------------------------------------------
\* Types.

\* The events of this mode are events.
LEMMA SyncEventType ==
    ASSUME TypeOK, NEW r \in Replicas
    PROVE  SyncEvent(r) \in Event /\ SyncEvent(r).version = job[r].version
<1>1. job[r].version \in AnyVersion
  BY DEF TypeOK, Job
<1> QED
  BY <1>1, EventType DEF SyncEvent

\* A leader's step keeps the types.
LEMMA LeaderStepTypes ==
    ASSUME TypeInv, NEW r \in Replicas, LeaderStep(r)
    PROVE  TypeOK'
<1> USE DEF TypeInv
<1>1. CASE Save(r) \/ Begin(r) \/ Decide(r) \/ Apply(r)
  <2>1. HasVersion(r) /\ HasContent(r)
    BY <1>1 DEF Save, SavePending, Begin, BeginActivate, Decide, CommitActivation, Apply,
       ApplyStaged, LocalsOK, HoldsVersion, HoldsContent
  <2>2. "activate" \in Place /\ "apply" \in Place /\ "publish" \in Place /\ "end" \in Place
    BY DEF Place
  <2>3. ClusterTypes(Place) /\ SharedPlace \cup {"commit_activation"} \subseteq Place
    BY TypesShared
  <2>4. ASSUME Save(r) PROVE ClusterTypes(Place)'
    BY <2>1, <2>2, <2>3, <2>4, LeaderTypes DEF Save
  <2>5. ASSUME Begin(r) PROVE ClusterTypes(Place)'
    BY <2>1, <2>2, <2>3, <2>5, LeaderTypes DEF Begin
  <2>6. ASSUME Decide(r) PROVE ClusterTypes(Place)'
    BY <2>1, <2>2, <2>3, <2>6, LeaderTypes DEF Decide
  <2>7. ASSUME Apply(r) PROVE ClusterTypes(Place)'
    BY <2>1, <2>2, <2>3, <2>7, LeaderTypes DEF Apply
  <2> QED
    BY <1>1, <2>4, <2>5, <2>6, <2>7 DEF TypeOK, ClusterTypes
<1>2. CASE Publish(r)
  <2>1. inbox' = Deliver(inbox, SyncEvent(r)) \/ UNCHANGED inbox
    BY <1>2 DEF Publish
  <2>2. inbox \in [Replicas -> Seq(Event)]
    BY DEF TypeOK
  <2>3. Deliver(inbox, SyncEvent(r)) \in [Replicas -> Seq(Event)]
    BY <2>2, SyncEventType, DeliverType
  <2>4. faults' \in 0 .. MaxFaults
    BY <1>2, FaultType DEF Publish, TypeOK
  <2> QED
    BY <1>2, <2>1, <2>2, <2>3, <2>4 DEF Publish, Goto, TypeOK, Place
<1>3. CASE Record(r)
  <2>1. HasVersion(r) /\ HasContent(r)
    BY <1>3 DEF Record, LocalsOK, HoldsVersion, HoldsContent
  <2>2. CacheAndLog(r, job[r].version, job[r].content, "applied") /\ "applied" \in ApplyStatus
    BY <1>3 DEF Record, ApplyStatus
  <2>3. /\ cache' \in Entry \cup {NoEntry}
        /\ applyLog' \in [Replicas -> [Version -> ApplyStatus]]
        /\ faults' \in 0 .. MaxFaults
    BY <2>1, <2>2, TypesShared, CacheAndLogType DEF HasVersion, HasContent
  <2> QED
    BY <1>3, <2>3 DEF Record, Goto, TypeOK, Place
<1>4. CASE Finish(r)
  <2>1. LeadTypes(Place)
    BY <1>4, TypesShared, EndCycleType DEF Finish
  <2> QED
    BY <1>4, <2>1 DEF Finish, LeadTypes, TypeOK
<1> QED
  BY <1>1, <1>2, <1>3, <1>4 DEF LeaderStep

\* Every step keeps the types.
LEMMA TypeStep ==
    ASSUME TypeInv, Next
    PROVE  TypeOK'
<1>1. ClusterTypes(Place) /\ Payloads /\ TailHolds
  BY TypesShared, LocalsShared DEF TypeInv
<1>2. ASSUME NEW r \in Replicas, SharedStep(r) \/ Crash(r) PROVE ClusterTypes(Place)'
  BY <1>1, <1>2, TypesShared, SharedTypes, CrashTypes
<1>3. ASSUME Environment PROVE ClusterTypes(Place)'
  BY <1>1, <1>3, EnvironmentTypes
<1>4. ClusterTypes(Place)' => TypeOK'
  BY DEF ClusterTypes, TypeOK
<1> QED
  BY <1>2, <1>3, <1>4, LeaderStepTypes DEF Next

\* What the local variables hold at each place, after a step.
LEMMA LocalsStep ==
    ASSUME TypeInv, Next, Payloads'
    PROVE  LocalsOK'
<1> SUFFICES ASSUME NEW q \in Replicas
             PROVE  /\ pc'[q] \in HoldsVersion => job'[q].version \in Version
                    /\ pc'[q] \in HoldsContent => job'[q].content \in Contents
  BY DEF LocalsOK, HasVersion, HasContent
<1> USE DEF TypeInv, LocalsOK, HoldsVersion, HoldsContent
<1>1. CASE Stays(q)
  BY <1>1 DEF Stays, HasVersion, HasContent
<1>2. CASE pc'[q] \in Resting \cup {"down", "end"}
  BY <1>2 DEF Resting
<1>3. CASE Picks(q)
  BY <1>3 DEF Picks
<1>4. CASE Holds(q)
  BY <1>4 DEF Holds, HasVersion
<1>5. CASE Rereads(q)
  BY <1>5 DEF Rereads, ActiveVersions
<1>6. CASE Proceeds(q)
  BY <1>6 DEF Proceeds, LeaderMoves, HasVersion, HasContent
<1> QED
  BY <1>1, <1>2, <1>3, <1>4, <1>5, <1>6, GoesCases DEF Goes

----------------------------------------------------------------------------
\* The snapshot table.

\* A leader's activation commits.
Decides(r) ==
    /\ Decide(r) /\ pc[r] = "commit_activation" /\ job[r].version \in Version
    /\ ActiveVersions(rows') = (ActiveVersions(rows) \ job[r].demote) \cup {job[r].version}
    /\ decided' = decided \cup {job[r].version}
    /\ UNCHANGED mem

\* It is one that changes the table.
LEMMA DecideDecides ==
    ASSUME TypeInv, NEW r \in Replicas, Decide(r), ~UNCHANGED <<rows, decided>>
    PROVE  /\ Decides(r)
           /\ rows' = ActivateSnapshot(rows, job[r].demote, job[r].version)
           /\ Exists(rows, job[r].version)
<1>1. /\ rows' = ActivateSnapshot(rows, job[r].demote, job[r].version)
      /\ Exists(rows, job[r].version)
      /\ decided' = decided \cup {job[r].version}
      /\ pc[r] = "commit_activation" /\ UNCHANGED mem
  BY DEF Decide, CommitActivation
<1>2. job[r].version \in Version
  BY <1>1 DEF TypeInv, LocalsOK, HoldsVersion, HasVersion
<1> QED
  BY <1>1, <1>2, ActivateDecides DEF Decides, TypeInv, TypeOK

\* A goroutine that comes from the activation carries what it decided.
LEMMA CommitDecides ==
    ASSUME TypeInv, Next, NEW q \in Replicas, pc[q] = "commit_activation",
           pc'[q] = "apply"
    PROVE  Decides(q)
<1>1. ASSUME SharedStep(q) PROVE FALSE
  BY <1>1, SharedFrom DEF SharedPlace
<1>2. ASSUME Crash(q) PROVE FALSE
  BY <1>2 DEF Crash, Goto, TypeInv, TypeOK
<1>3. ASSUME LeaderStep(q) PROVE Decides(q)
  <2>1. Decide(q)
    BY <1>3 DEF LeaderStep, Save, SavePending, Begin, BeginActivate, Apply, ApplyStaged,
       Publish, Record, Finish
  <2>2. decided' = decided \cup {job[q].version}
    BY <2>1 DEF Decide, CommitActivation, Goto, TypeInv, TypeOK
  <2>3. rows' = ActivateSnapshot(rows, job[q].demote, job[q].version)
    BY <2>1 DEF Decide, CommitActivation, Goto, TypeInv, TypeOK
  <2>4. job[q].version \in Version
    BY DEF TypeInv, LocalsOK, HoldsVersion, HasVersion
  <2> QED
    BY <2>1, <2>2, <2>3, <2>4, ActivateDecides
    DEF Decides, Decide, CommitActivation, TypeInv, TypeOK
<1>4. ASSUME NEW r \in Replicas \ {q}, SharedStep(r) \/ LeaderStep(r) \/ Crash(r) PROVE FALSE
  BY <1>4, OthersKept DEF TypeInv
<1>5. ASSUME Environment PROVE FALSE
  BY <1>5, EnvironmentKeeps
<1> QED
  BY <1>1, <1>2, <1>3, <1>4, <1>5 DEF Next

\* A leader saves what it holds.
Saves(r) ==
    /\ Save(r) /\ UNCHANGED decided
    /\ \E v \in Version, c \in Contents : rows' = SaveSnapshot(rows, v, c)

\* Every step leaves the table alone, or is one of its statements.
LEMMA TableCases ==
    ASSUME TypeInv, Next
    PROVE  \/ UNCHANGED <<rows, decided>>
           \/ \E r \in Replicas : Saves(r)
           \/ \E r \in Replicas : Decide(r) /\ ~UNCHANGED <<rows, decided>>
           \/ /\ \E old : rows' = DeleteOldSnapshots(rows, old)
              /\ ActiveVersions(rows') = ActiveVersions(rows) /\ UNCHANGED decided
           \/ (\E v \in Version : Flip(v)) /\ UNCHANGED decided
<1>1. ASSUME NEW r \in Replicas, SharedStep(r)
      PROVE  /\ UNCHANGED decided /\ ActiveVersions(rows') = ActiveVersions(rows)
             /\ UNCHANGED rows \/ \E old : rows' = DeleteOldSnapshots(rows, old)
  BY <1>1, SharedRows DEF TypeInv, TypeOK
<1>2. ASSUME NEW r \in Replicas, Save(r) PROVE Saves(r)
  <2>1. SavePending(r, "activate") /\ HasVersion(r) /\ HasContent(r)
    BY <1>2 DEF Save, SavePending, TypeInv, LocalsOK, HoldsVersion, HoldsContent
  <2> QED
    BY <1>2, <2>1 DEF SavePending, HasVersion, HasContent, Saves
<1>3. ASSUME NEW r \in Replicas, (LeaderStep(r) /\ ~Save(r) /\ ~Decide(r)) \/ Crash(r)
      PROVE  UNCHANGED <<rows, decided>>
  BY <1>3 DEF LeaderStep, Begin, BeginActivate, Apply, ApplyStaged, Publish, Record, Finish,
     Crash
<1>4. ASSUME Environment
      PROVE  UNCHANGED <<rows, decided>> \/ ((\E v \in Version : Flip(v)) /\ UNCHANGED decided)
  BY <1>4, EnvironmentKeeps
<1> QED
  BY <1>1, <1>2, <1>3, <1>4 DEF Next

\* What was decided only grows, and the table keeps its payloads.
LEMMA RowsStep ==
    ASSUME TypeInv, ActiveDecided, Next
    PROVE  Payloads' /\ ActiveDecided' /\ decided \subseteq decided'
<1>1. rows \in Table /\ Payloads
  BY DEF TypeInv, TypeOK, LocalsOK
<1>2. CASE UNCHANGED <<rows, decided>>
  BY <1>1, <1>2, RowsKept
<1>3. ASSUME NEW r \in Replicas, Saves(r) PROVE Payloads' /\ ActiveDecided'
  BY <1>1, <1>3, RowsKept DEF Saves
<1>4. ASSUME NEW r \in Replicas, Decide(r), ~UNCHANGED <<rows, decided>>
      PROVE  Payloads' /\ ActiveDecided' /\ decided \subseteq decided'
  <2>1. job[r].version \in decided' /\ job[r].version \in Version /\ decided \subseteq decided'
    BY <1>4, DecideDecides DEF Decides
  <2> QED
    BY <1>1, <1>4, <2>1, DecideDecides, RowsKept
<1>5. ASSUME NEW old, rows' = DeleteOldSnapshots(rows, old), UNCHANGED decided
      PROVE  Payloads' /\ ActiveDecided'
  BY <1>1, <1>5, RowsKept
<1>6. ASSUME NEW v \in Version, Flip(v), UNCHANGED decided PROVE Payloads' /\ ActiveDecided'
  <2>1. /\ rows' = ActivateSnapshot(rows, ActiveVersions(rows), v)
        /\ Exists(rows, v) /\ v \in decided'
    BY <1>1, <1>6, FlipDecides
  <2> QED
    BY <1>1, <1>6, <2>1, RowsKept
<1> QED
  BY <1>2, <1>3, <1>4, <1>5, <1>6, TableCases DEF Saves

\* The two ways in which the active rows change: a leader's activation commits,
\* or the operator flips them.  Any other step leaves them alone.
Quiet == ActiveVersions(rows') = ActiveVersions(rows) /\ UNCHANGED decided

\* Every step is one of the three.
LEMMA ActiveCases ==
    ASSUME SafeInv, Next
    PROVE  \/ Quiet
           \/ \E r \in Replicas : Decides(r)
           \/ \E v \in Version : Flips(v)
<1>1. rows \in Table /\ ActiveDecided
  BY DEF SafeInv, TypeInv, TypeOK, Decided
<1>2. ASSUME NEW r \in Replicas, Saves(r) PROVE Quiet
  <2>1. \A v \in Version : rows'[v].status = "active" <=> rows[v].status = "active"
    BY <1>1, <1>2 DEF Saves, SaveSnapshot, Exists, Table
  <2> QED
    BY <1>2, <2>1 DEF ActiveVersions, Quiet, Saves
<1>3. ASSUME NEW r \in Replicas, Decide(r), ~UNCHANGED <<rows, decided>> PROVE Decides(r)
  BY <1>3, DecideDecides DEF SafeInv
<1>4. ASSUME NEW v \in Version, Flip(v) PROVE Flips(v)
  BY <1>1, <1>4, FlipDecides
<1>5. CASE UNCHANGED <<rows, decided>>
  BY <1>5 DEF Quiet
<1> QED
  BY <1>2, <1>3, <1>4, <1>5, TableCases DEF SafeInv, Quiet

----------------------------------------------------------------------------
\* Decisions.

\* A step leaves what replicas serve alone, stops one of them, or moves one.
LEMMA MoveCases ==
    ASSUME SafeInv, Next
    PROVE  \/ UNCHANGED mem
           \/ \E r \in Replicas : Stops(r) /\ UNCHANGED <<rows, decided>>
           \/ \E r \in Replicas, v \in Version : Moves(r, v)
<1> USE DEF SafeInv
<1>1. ASSUME NEW r \in Replicas, SharedStep(r)
      PROVE  UNCHANGED mem \/ \E v \in Version : Moves(r, v)
  <2>1. ClusterTypes(Place) /\ Payloads
    BY TypesShared, LocalsShared DEF TypeInv
  <2> QED
    BY <1>1, <2>1, SharedMoves DEF Decided, Ahead
<1>2. ASSUME NEW r \in Replicas, Apply(r) PROVE \E v \in Version : Moves(r, v)
  <2>1. job[r].version \in Version /\ job[r].content \in Contents
    BY <1>2 DEF Apply, ApplyStaged, TypeInv, LocalsOK, HoldsVersion, HoldsContent, HasVersion,
       HasContent
  <2>2. job[r].version \in decided /\ Forward(job[r].version, mem[r].version)
    BY <1>2 DEF Apply, ApplyStaged, Decided, Carried, Ahead, Undecided
  <2> QED
    BY <1>2, <2>1, <2>2 DEF Moves, Apply, ApplyStaged
<1>3. ASSUME NEW r \in Replicas, LeaderStep(r), ~Apply(r) PROVE UNCHANGED mem
  BY <1>3, LeaderGoes DEF TypeInv
<1>4. ASSUME NEW r \in Replicas, Crash(r)
      PROVE  Stops(r) /\ UNCHANGED <<rows, decided>>
  BY <1>4 DEF Crash, Stops, Goto, TypeInv, TypeOK
<1>5. ASSUME Environment PROVE UNCHANGED mem
  BY <1>5, EnvironmentKeeps
<1> QED
  BY <1>1, <1>2, <1>3, <1>4, <1>5 DEF Next

\* What a replica serves was decided.
LEMMA ServedStep ==
    ASSUME SafeInv, Next
    PROVE  ServedIn(decided)'
<1>1. mem \in [Replicas -> Value] /\ ServedIn(decided) /\ decided \subseteq decided'
  BY RowsStep DEF SafeInv, TypeInv, TypeOK, Decided
<1>2. ASSUME NEW r \in Replicas, NEW v \in Version, Moves(r, v)
      PROVE  Serves(r, v) /\ v \in decided
  BY <1>2, MovesDecided DEF SafeInv, Decided
<1> QED
  BY <1>1, <1>2, MoveCases, ServedKept

\* The version a cycle carries past its activation is decided.
LEMMA CarriedStep ==
    ASSUME SafeInv, Next
    PROVE  Carried'
<1> SUFFICES ASSUME NEW q \in Replicas, pc'[q] \in {"apply", "publish", "record"} \cup Tails
             PROVE  job'[q].version \in decided'
  BY DEF Carried
<1>1. decided \subseteq decided' /\ Carried /\ TypeInv
  BY RowsStep DEF SafeInv, Decided
<1>2. CASE Stays(q)
  BY <1>1, <1>2 DEF Stays, Carried
<1>3. CASE Rereads(q)
  BY <1>1, <1>3 DEF Rereads, SafeInv, Decided, ActiveDecided, ActiveVersions
<1>4. CASE Proceeds(q)
  <2>1. job'[q].version = job[q].version
    BY <1>4 DEF Proceeds
  <2>2. CASE pc[q] = "commit_activation" /\ pc'[q] = "apply"
    BY <1>1, <2>1, <2>2, CommitDecides DEF Decides
  <2>3. CASE pc[q] \in {"apply", "publish"}
    BY <1>1, <2>1, <2>3 DEF Carried
  <2> QED
    BY <1>4, <2>2, <2>3 DEF Proceeds, LeaderMoves, Tails
<1> QED
  BY <1>1, <1>2, <1>3, <1>4, GoesCases DEF Goes, Resting, Picks, Holds, Tails

\* What is announced was decided.
LEMMA AnnouncedStep ==
    ASSUME SafeInv, Next
    PROVE  BoxesIn(inbox, Announcing({"sync"}, decided))'
<1> DEFINE events == Announcing({"sync"}, decided')
<1> SUFFICES ASSUME NEW q \in Replicas, NEW i \in 1 .. Len(inbox'[q])
             PROVE  inbox'[q][i] \in events
  BY DEF BoxesIn
<1>1. decided \subseteq decided' /\ inbox \in [Replicas -> Seq(Event)]
  BY RowsStep DEF SafeInv, TypeInv, TypeOK, Decided
<1>2. \A e : Held(q, e) => e \in events
  BY <1>1 DEF SafeInv, Decided, BoxesIn, Announcing, Held
<1>3. RollbackEvent \in events
  BY EventType DEF RollbackEvent, Announcing, AnyVersion
<1>4. ASSUME NEW r \in Replicas, Publish(r) PROVE inbox'[q][i] \in events
  <2>1. job[r].version \in decided
    BY <1>4 DEF Publish, SafeInv, Decided, Carried
  <2>2. SyncEvent(r) \in Event /\ SyncEvent(r) \in events
    BY <1>1, <2>1, SyncEventType DEF Announcing, SafeInv, TypeInv
  <2>3. inbox' = Deliver(inbox, SyncEvent(r)) \/ UNCHANGED inbox
    BY <1>4 DEF Publish
  <2>4. Held(q, inbox'[q][i]) \/ inbox'[q][i] = SyncEvent(r)
    <3>1. CASE UNCHANGED inbox
      BY <3>1 DEF Held
    <3>2. CASE inbox' = Deliver(inbox, SyncEvent(r))
      BY <1>1, <2>2, <3>2, DeliverBox
    <3> QED
      BY <2>3, <3>1, <3>2
  <2> QED
    BY <1>2, <2>2, <2>4
<1>5. ASSUME NEW r \in Replicas, LeaderStep(r), ~Publish(r) PROVE Held(q, inbox'[q][i])
  <2>1. UNCHANGED inbox
    BY <1>5 DEF LeaderStep, Save, SavePending, Begin, BeginActivate, Decide,
       CommitActivation, Apply, ApplyStaged, Record, Finish
  <2> QED
    BY <2>1 DEF Held
<1>6. ASSUME Environment \/ \E r \in Replicas : SharedStep(r) \/ Crash(r)
      PROVE  Held(q, inbox'[q][i]) \/ inbox'[q][i] = RollbackEvent
  BY <1>1, <1>6, SharedBox
<1> HIDE DEF events
<1> QED
  BY <1>2, <1>3, <1>4, <1>5, <1>6 DEF Next

\* What is cached was decided.
LEMMA CachedStep ==
    ASSUME SafeInv, Next
    PROVE  CachedIn(decided)'
<1>1. decided \subseteq decided' /\ CachedIn(decided)
  BY RowsStep DEF SafeInv, Decided
<1> SUFFICES cache' # NoEntry => cache'.version \in decided
  BY <1>1 DEF CachedIn
<1>2. CASE UNCHANGED cache
  BY <1>1, <1>2 DEF CachedIn
<1>3. ASSUME NEW r \in Replicas, SharedStep(r)
      PROVE  cache' # NoEntry => cache'.version \in decided
  <2>1. TailDecided
    BY DEF SafeInv, Decided, Carried, TailDecided
  <2> QED
    BY <1>1, <1>3, <2>1, SharedCached DEF SafeInv, Decided
<1>4. ASSUME NEW r \in Replicas, Record(r)
      PROVE  cache' # NoEntry => cache'.version \in decided
  <2>1. job[r].version \in decided
    BY <1>4 DEF Record, SafeInv, Decided, Carried
  <2>2. UNCHANGED cache \/ CacheWrite(job[r].version, job[r].content)
    BY <1>4 DEF Record, CacheAndLog
  <2> QED
    BY <1>1, <2>1, <2>2 DEF CacheWrite, CachedIn
<1>5. ASSUME NEW r \in Replicas, (LeaderStep(r) /\ ~Record(r)) \/ Crash(r)
      PROVE  UNCHANGED cache
  BY <1>5 DEF LeaderStep, Save, SavePending, Begin, BeginActivate, Decide,
     CommitActivation, Apply, ApplyStaged, Publish, Finish, Crash
<1>6. ASSUME Environment PROVE UNCHANGED cache \/ cache' = NoEntry
  BY <1>6, EnvironmentKeeps
<1> QED
  BY <1>2, <1>3, <1>4, <1>5, <1>6 DEF Next

\* A replica that is down, or only starts, serves nothing.
LEMMA ColdStep ==
    ASSUME SafeInv, Next
    PROVE  Cold'
<1> SUFFICES ASSUME NEW q \in Replicas, pc'[q] \in {"down", "load_cache"}
             PROVE  mem'[q] = Nothing
  BY DEF Cold
<1>1. TypeOK /\ ClusterTypes(Place) /\ Cold
  BY TypesShared DEF SafeInv, TypeInv, Ahead
<1>2. ASSUME pc'[q] = pc[q], mem'[q] = mem[q] PROVE mem'[q] = Nothing
  BY <1>1, <1>2 DEF Cold
<1>3. ASSUME SharedStep(q) PROVE mem'[q] = Nothing
  BY <1>1, <1>3, SharedCold
<1>4. ASSUME LeaderStep(q) PROVE FALSE
  BY <1>1, <1>4, LeaderGoes DEF Ends, Proceeds, LeaderMoves
<1>5. ASSUME Crash(q) PROVE mem'[q] = Nothing
  BY <1>1, <1>5 DEF Crash, TypeOK
<1>6. ASSUME NEW r \in Replicas \ {q}, SharedStep(r) \/ LeaderStep(r) \/ Crash(r)
      PROVE  mem'[q] = Nothing
  BY <1>1, <1>2, <1>6, OthersKept
<1>7. ASSUME Environment PROVE mem'[q] = Nothing
  BY <1>2, <1>7, EnvironmentKeeps
<1> QED
  BY <1>3, <1>4, <1>5, <1>6, <1>7 DEF Next

\* The steps that leave a replica at an undecided place.
LEMMA UndecidedCases ==
    ASSUME TypeOK, Next, NEW q \in Replicas, pc'[q] \in Undecided
    PROVE  \/ /\ pc'[q] = pc[q] /\ job'[q] = job[q] /\ mem'[q] = mem[q]
           \/ /\ FetchVersion(q) \/ FetchAndStage(q) \/ Save(q) \/ Begin(q) \/ Decide(q)
              /\ ~EndCycle(q) /\ UNCHANGED mem
<1>1. ASSUME NEW place \in Place \ Undecided, Goto(q, place) PROVE FALSE
  BY <1>1 DEF Goto, TypeOK
<1>2. ASSUME EndCycle(q) PROVE FALSE
  BY <1>1, <1>2 DEF EndCycle, Place, Undecided, TypeOK, Job
<1>3. ASSUME NEW f, NEW t, NEW other \in {"idle", "probe"}, TryLead(q, f, t, other)
      PROVE  FALSE
  BY <1>1, <1>3 DEF TryLead, AcquireLock, Place, Undecided
<1>4. ASSUME Apply(q) \/ Publish(q) \/ Record(q) \/ Finish(q) \/ Crash(q) PROVE FALSE
  BY <1>1, <1>2, <1>4 DEF Apply, ApplyStaged, Publish, Record, Finish, Crash, Place, Undecided
<1>5. ASSUME SharedStep(q), ~FetchVersion(q), ~FetchAndStage(q)
      PROVE  pc'[q] = pc[q] /\ job'[q] = job[q] /\ mem'[q] = mem[q]
  <2>1. ASSUME \/ Start(q) \/ LoadFromCache(q) \/ LoadFromStorage(q) \/ CatchUpProbe(q)
               \/ CatchUpApply(q) \/ RecordRollback(q)
        PROVE  FALSE
    BY <1>1, <2>1 DEF Start, LoadFromCache, LoadFromStorage, CatchUpProbe, CatchUpApply,
       RecordRollback, Place, Undecided
  <2>2. ASSUME Boot(q) \/ ReconcileTick(q) \/ SyncCycle(q) \/ ForcedCycle(q) PROVE FALSE
    BY <1>1, <1>3, <2>2 DEF Boot, WarmCache, ReconcileTick, SyncCycle, ForcedCycle, Place,
       Undecided
  <2>3. ASSUME RepairCache(q) \/ WarmEntry(q) \/ CycleFails(q) PROVE FALSE
    BY <1>1, <1>2, <2>3 DEF RepairCache, WarmEntry, CycleFails, Place, Undecided
  <2>4. ASSUME DropEcho(q) \/ Maintain(q) PROVE UNCHANGED <<pc, job, mem>>
    BY <2>4 DEF DropEcho, Maintain
  <2>5. ASSUME HandleSync(q) \/ HandleRollback(q) PROVE FALSE
    BY <1>1, <2>5 DEF HandleSync, HandleRollback, Receives, Place, Undecided
  <2> QED
    BY <1>5, <2>1, <2>2, <2>3, <2>4, <2>5 DEF SharedStep
<1>6. ASSUME NEW r \in Replicas \ {q}, SharedStep(r) \/ LeaderStep(r) \/ Crash(r)
      PROVE  pc'[q] = pc[q] /\ job'[q] = job[q] /\ mem'[q] = mem[q]
  BY <1>6, OthersKept
<1>7. ASSUME Environment PROVE UNCHANGED <<pc, job, mem>>
  BY <1>7, EnvironmentKeeps
<1>8. ASSUME FetchVersion(q) \/ FetchAndStage(q) \/ Save(q) \/ Begin(q) \/ Decide(q)
      PROVE  UNCHANGED mem
  BY <1>8 DEF FetchVersion, CheckVersion, FetchAndStage, Save, SavePending, Begin,
     BeginActivate, Decide, CommitActivation
<1> QED
  BY <1>2, <1>4, <1>5, <1>6, <1>7, <1>8 DEF Next, LeaderStep

\* A version check that lets the cycle go on stages the version it was given.
LEMMA CheckJob ==
    ASSUME TypeOK, NEW q \in Replicas, NEW v, CheckVersion(q, v), ~EndCycle(q),
           pc'[q] \in Undecided
    PROVE  /\ v \in Version /\ Forward(v, mem[q].version)
           /\ job'[q] = [job[q] EXCEPT !.version = v]
           /\ job'[q].version = v /\ job'[q].force = job[q].force
<1> USE DEF TypeOK
<1>1. \/ pc' = [pc EXCEPT ![q] = "repair"]
      \/ /\ v \in Version /\ Forward(v, mem[q].version)
         /\ job' = [job EXCEPT ![q] = [job[q] EXCEPT !.version = v]]
  BY DEF CheckVersion, allowLeaderAdvance, Goto
<1>2. pc' # [pc EXCEPT ![q] = "repair"]
  BY DEF Undecided
<1> QED
  BY <1>1, <1>2, JobFields

\* What those steps do to the goroutine: it takes a version that is ahead of
\* what is served, or carries its version on.
LEMMA UndecidedJob ==
    ASSUME TypeOK, Next, NEW q \in Replicas, pc'[q] \in Undecided
    PROVE  \/ /\ pc'[q] = pc[q] /\ job'[q] = job[q] /\ mem'[q] = mem[q]
           \/ /\ FetchVersion(q) /\ ~EndCycle(q) /\ UNCHANGED mem
              /\ Forward(job'[q].version, mem[q].version)
           \/ /\ pc[q] \in Undecided \ {"apply"}
              /\ FetchAndStage(q) \/ Save(q) \/ Begin(q) \/ Decide(q)
              /\ job'[q].version = job[q].version /\ mem'[q] = mem[q]
<1> USE DEF TypeOK
<1>1. ASSUME FetchVersion(q), ~EndCycle(q)
      PROVE  Forward(job'[q].version, mem[q].version)
  <2> PICK v : CheckVersion(q, v)
    BY <1>1 DEF FetchVersion
  <2> HIDE DEF TypeOK
  <2> QED
    BY <1>1, CheckJob
<1>2. ASSUME FetchAndStage(q), ~EndCycle(q)
      PROVE  pc[q] \in Undecided \ {"apply"} /\ job'[q].version = job[q].version
  <2>1. /\ pc[q] = "stage"
        /\ job' = [job EXCEPT ![q] = [job[q] EXCEPT !.content = source.content]]
    BY <1>2 DEF FetchAndStage
  <2> QED
    BY <2>1 DEF Job, Undecided
<1>3. ASSUME Begin(q)
      PROVE  pc[q] \in Undecided \ {"apply"} /\ job'[q].version = job[q].version
  <2>1. /\ pc[q] \in Undecided \ {"apply"}
        /\ \/ UNCHANGED job
           \/ job' = [job EXCEPT ![q] = [job[q] EXCEPT !.demote = ActiveVersions(rows)]]
    BY <1>3 DEF Begin, BeginActivate, Undecided
  <2> QED
    BY <2>1 DEF Job
<1>4. ASSUME Save(q) \/ Decide(q), ~EndCycle(q)
      PROVE  pc[q] \in Undecided \ {"apply"} /\ job'[q] = job[q]
  BY <1>4 DEF Save, SavePending, Decide, CommitActivation, Undecided
<1> HIDE DEF TypeOK
<1> QED
  BY <1>1, <1>2, <1>3, <1>4, UndecidedCases

\* Nothing that a replica does between the version check and the swap changes
\* what it serves or the version that it carries.
LEMMA AheadStep ==
    ASSUME SafeInv, Next
    PROVE  (\A r \in Replicas : pc[r] \in Undecided
                => Forward(job[r].version, mem[r].version))'
<1> SUFFICES ASSUME NEW q \in Replicas, pc'[q] \in Undecided
             PROVE  Forward(job'[q].version, mem'[q].version)
  OBVIOUS
<1> QED
  BY UndecidedJob DEF SafeInv, TypeInv, Ahead

----------------------------------------------------------------------------
\* The theorems.

\* SafeInv is inductive.
LEMMA SafeStep == SafeInv /\ [Next]_vars => SafeInv'
<1>1. ASSUME SafeInv, Next PROVE SafeInv'
  <2>1. TypeInv /\ ActiveDecided
    BY <1>1 DEF SafeInv, Decided
  <2>2. Payloads' /\ ActiveDecided'
    BY <1>1, <2>1, RowsStep
  <2>3. TypeInv'
    BY <1>1, <2>1, <2>2, TypeStep, LocalsStep DEF TypeInv
  <2>4. Decided'
    BY <1>1, <2>2, ServedStep, CachedStep, AnnouncedStep, CarriedStep DEF Decided
  <2>5. Ahead'
    BY <1>1, ColdStep, AheadStep DEF Ahead
  <2> QED
    BY <2>3, <2>4, <2>5 DEF SafeInv
<1>2. ASSUME SafeInv, UNCHANGED vars PROVE SafeInv'
  <2>1. TypeInv'
    BY <1>2 DEF vars, SafeInv, TypeInv, TypeOK, LocalsOK, Payloads, Exists, HasVersion,
       HasContent
  <2>2. Decided'
    BY <1>2 DEF vars, SafeInv, Decided, ActiveDecided, Carried, ServedIn, CachedIn, BoxesIn
  <2>3. Ahead'
    BY <1>2 DEF vars, SafeInv, Ahead, Cold, Undecided
  <2> QED
    BY <2>1, <2>2, <2>3 DEF SafeInv
<1> QED
  BY <1>1, <1>2

\* Every variable holds what the Go types and the tables allow.
THEOREM TypesHold == Spec => []TypeOK
BY SafeInit, SafeStep, PTL DEF Spec, SafeInv, TypeInv

\* No replica serves, no event announces and no cache entry holds a version
\* that was not activated before, whatever fails.
THEOREM DecidedFirstHolds == Spec => []DecidedFirst
<1>1. ASSUME SafeInv PROVE DecidedFirst
  <2>1. ServedIn(decided) /\ CachedIn(decided)
    BY <1>1 DEF SafeInv, Decided
  <2>2. BoxesIn(inbox, Announcing({"sync"}, decided))
    BY <1>1 DEF SafeInv, Decided
  <2> QED
    BY <2>1, <2>2 DEF ServedIn, CachedIn, BoxesIn, Announcing, DecidedFirst
<1> QED
  BY SafeInit, SafeStep, <1>1, PTL DEF Spec

\* rollback or a crash does.
LEMMA ForwardStep ==
    ASSUME SafeInv, Next, NEW q \in Replicas, mem'[q] # mem[q]
    PROVE  \/ Forward(mem'[q].version, mem[q].version)
           \/ pc[q] = "load_storage"
           \/ pc[q] = "idle" /\ Receives(q, "rollback")
           \/ pc'[q] = "down"
<1>1. mem \in [Replicas -> Value]
  BY DEF SafeInv, TypeInv, TypeOK
<1>2. ASSUME NEW r \in Replicas, Stops(r) PROVE q = r /\ pc'[q] = "down"
  BY <1>1, <1>2 DEF Stops
<1>3. ASSUME NEW r \in Replicas, NEW v \in Version, Moves(r, v)
      PROVE  /\ q = r /\ mem'[q].version = v
             /\ \/ Forward(v, mem[r].version)
                \/ pc[r] = "load_storage"
                \/ pc[r] = "idle" /\ Receives(r, "rollback")
  <2>1. PICK c \in Contents : mem' = [mem EXCEPT ![r] = [version |-> v, content |-> c]]
    BY <1>3 DEF Moves
  <2>2. q = r /\ mem'[q].version = v
    BY <1>1, <2>1
  <2> QED
    BY <1>3, <2>2 DEF Moves
<1> QED
  BY <1>2, <1>3, MoveCases

\* What a running replica serves only moves forward, except where it starts or
\* is told of a rollback.
THEOREM ForwardOnlyHolds == Spec => ForwardOnly
<1>1. SafeInv /\ [Next]_vars =>
        [\A r \in Replicas :
            mem'[r] # mem[r] =>
               \/ Forward(mem'[r].version, mem[r].version)
               \/ pc[r] = "load_storage"
               \/ pc[r] = "idle" /\ Receives(r, "rollback")
               \/ pc'[r] = "down"]_vars
  BY ForwardStep
<1> QED
  BY SafeInit, SafeStep, <1>1, PTL DEF Spec, ForwardOnly

----------------------------------------------------------------------------
\* The refinement of ConfigPropagation.

Served == [r \in Replicas |-> mem[r].version]

\* The initial states map to the initial state of ConfigPropagation.
LEMMA PropagationInit == Init => CP!Init
<1> SUFFICES ASSUME Init PROVE CP!Init
  OBVIOUS
<1>1. ActiveVersions(rows) = {}
  BY DEF Init, ActiveVersions, EmptyTable, NoRow
<1>2. Served = [r \in Replicas |-> NoVersion]
  BY DEF Init, Served, Nothing
<1> QED
  BY <1>1, <1>2 DEF Init, CP!Init, Served, NoVersion, CP!NoVersion

\* A table step decides a version, which the history gains, or shows nothing.
LEMMA RowsCases ==
    ASSUME SafeInv, Next
    PROVE  \/ \E v \in Version : CP!Decide(v)
           \/ ActiveVersions(rows') = ActiveVersions(rows) /\ UNCHANGED decided
<1>1. ASSUME NEW v \in Version, NEW kept \in SUBSET ActiveVersions(rows),
             ActiveVersions(rows') = kept \cup {v},
             decided' = decided \cup {v}, UNCHANGED mem
      PROVE  CP!Decide(v)
  BY <1>1 DEF CP!Decide
<1>2. ASSUME NEW r \in Replicas, Decides(r) PROVE \E v \in Version : CP!Decide(v)
  <2>1. ActiveVersions(rows) \ job[r].demote \in SUBSET ActiveVersions(rows)
    OBVIOUS
  <2> QED
    BY <1>1, <1>2, <2>1 DEF Decides
<1>3. ASSUME NEW v \in Version, Flips(v) PROVE CP!Decide(v)
  <2>1. {} \in SUBSET ActiveVersions(rows) /\ {v} = {} \cup {v}
    OBVIOUS
  <2>2. decided' = decided \cup {v} /\ ActiveVersions(rows') = {v} /\ UNCHANGED mem
    BY <1>3 DEF Flips
  <2> QED
    BY ONLY <1>1, <2>1, <2>2
<1> QED
  BY <1>2, <1>3, ActiveCases DEF Quiet

\* A move of a replica is a move of the abstract one.
LEMMA MovesServe ==
    ASSUME SafeInv, NEW r \in Replicas, NEW v \in Version, Moves(r, v)
    PROVE  CP!Advance(r) \/ CP!Reload(r)
<1>1. PICK c \in Contents : mem' = [mem EXCEPT ![r] = [version |-> v, content |-> c]]
  BY DEF Moves
<1>2. Served' = [Served EXCEPT ![r] = v]
  BY <1>1 DEF SafeInv, TypeInv, TypeOK, Served
<1>3. UNCHANGED <<decided, ActiveVersions(rows)>>
  BY DEF Moves, ActiveVersions
<1>4. CP!Serve(r, v)
  BY <1>2, <1>3 DEF CP!Serve, Served
<1>5. CASE v \in decided /\ Forward(v, mem[r].version)
  BY <1>4, <1>5 DEF CP!Advance, CP!Forward, CP!After, CP!Time, CP!NoVersion,
     Forward, After, Time, NoVersion
<1>6. CASE v \in ActiveVersions(rows)
  BY <1>4, <1>6 DEF CP!Reload
<1> QED
  BY <1>5, <1>6 DEF Moves

\* A crash is a stop of the abstract replica.
LEMMA StopsServe ==
    ASSUME SafeInv, NEW r \in Replicas, Stops(r), UNCHANGED <<rows, decided>>
    PROVE  CP!Stop(r)
<1>1. Served' = [Served EXCEPT ![r] = NoVersion]
  BY DEF Stops, Nothing, SafeInv, TypeInv, TypeOK, Served
<1>2. UNCHANGED <<decided, ActiveVersions(rows)>>
  BY DEF ActiveVersions
<1> QED
  BY <1>1, <1>2 DEF CP!Stop, CP!Serve, Served, NoVersion, CP!NoVersion

\* The eventual mode implements ConfigPropagation.
THEOREM Propagation == Spec => ImplementsPropagation
<1>1. ASSUME SafeInv, Next PROVE CP!Next \/ UNCHANGED CP!vars
  <2>1. CASE UNCHANGED mem
    <3>1. Served' = Served
      BY <2>1 DEF Served
    <3> QED
      BY <1>1, <3>1, RowsCases DEF CP!Next, CP!vars, Served, Version, CP!Version
  <2>2. ASSUME NEW r \in Replicas, Stops(r), UNCHANGED <<rows, decided>> PROVE CP!Next
    BY <1>1, <2>2, StopsServe DEF CP!Next
  <2>3. ASSUME NEW r \in Replicas, NEW v \in Version, Moves(r, v) PROVE CP!Next
    BY <1>1, <2>3, MovesServe DEF CP!Next
  <2> QED
    BY <1>1, <2>1, <2>2, <2>3, MoveCases
<1>2. ASSUME SafeInv, UNCHANGED vars PROVE UNCHANGED CP!vars
  BY <1>2 DEF vars, CP!vars, ActiveVersions
<1> QED
  BY SafeInit, SafeStep, PropagationInit, <1>1, <1>2, PTL
  DEF Spec, ImplementsPropagation, CP!Spec

----------------------------------------------------------------------------
\* The advisory lock, while no session that holds it is lost.

LockInv ==
    /\ OneLeader
    /\ op.phase # "none" => lock = Operator

\* A replica takes the lock only when it is free and releases only its own.
LEMMA LockKept ==
    ASSUME NEW r \in Replicas, SharedStep(r) \/ LeaderStep(r) \/ Crash(r),
           lock # Free, lock # r
    PROVE  UNCHANGED lock
<1>1. UNCHANGED lock \/ EndCycle(r) \/ SharedStep(r) \/ Crash(r)
  BY DEF LeaderStep, Save, SavePending, Begin, BeginActivate, Decide, CommitActivation,
     Apply, ApplyStaged, Publish, Record, Finish
<1> QED
  BY <1>1, SharedLock

\* A replica that leads after a step holds the lock after it.
LEMMA LeadsWithLock ==
    ASSUME TypeInv, LockInv, NEW r \in Replicas, SharedStep(r) \/ LeaderStep(r) \/ Crash(r),
           pc'[r] \in Leading
    PROVE  lock' = r
<1> USE DEF TypeInv
<1>1. CASE pc[r] \in Leading /\ UNCHANGED lock
  BY <1>1 DEF LockInv, OneLeader
<1>2. CASE SharedStep(r)
  <2>1. Starting \subseteq Leading
    BY DEF Starting, Leading
  <2>2. pc[r] \in SharedPlace
    BY <1>2, SharedFrom
  <2>3. pc'[r] \in Starting
    BY <1>2, <2>2, TypesShared, LocalsShared, SharedGoes
    DEF Stays, Resting, Picks, Holds, Rereads, SharedPlace, Starting, Leading
  <2> QED
    BY <1>1, <1>2, <2>1, <2>3, TypesShared, SharedLeads
<1>3. CASE LeaderStep(r)
  <2>1. UNCHANGED lock \/ EndCycle(r)
    BY <1>3 DEF LeaderStep, Save, SavePending, Begin, BeginActivate, Decide,
       CommitActivation, Apply, ApplyStaged, Publish, Record, Finish
  <2>2. pc[r] \in Leading
    BY <1>3 DEF LeaderStep, Save, SavePending, Begin, BeginActivate, Decide,
       CommitActivation, Apply, ApplyStaged, Publish, Record, Finish, Leading
  <2>3. ASSUME EndCycle(r) PROVE FALSE
    BY <2>3, TypesShared, CycleRests DEF Leading
  <2> QED
    BY <1>1, <2>1, <2>2, <2>3
<1>4. CASE Crash(r)
  BY <1>4 DEF Crash, Goto, TypeOK, Leading
<1> QED
  BY <1>2, <1>3, <1>4

\* A replica leaves the operator's progress alone, but for being late.
LEMMA OpKept ==
    ASSUME NEW r \in Replicas, SharedStep(r) \/ LeaderStep(r) \/ Crash(r), TypeOK
    PROVE  /\ op'.phase = op.phase /\ op'.target = op.target /\ op'.count = op.count
           /\ op.late \subseteq op'.late
           /\ Start(r) \/ UNCHANGED op
<1>1. CASE SharedStep(r)
  BY <1>1, TypesShared, SharedOp
<1>2. CASE LeaderStep(r) \/ Crash(r)
  BY <1>2 DEF LeaderStep, Save, SavePending, Begin, BeginActivate, Decide,
     CommitActivation, Apply, ApplyStaged, Publish, Record, Finish, Crash
<1> QED
  BY <1>1, <1>2

\* LockInv is inductive next to the types.
LEMMA LockStep ==
    ASSUME "session" \notin FaultKinds, TypeInv, LockInv, Next
    PROVE  LockInv'
<1> USE DEF LockInv, OneLeader, TypeInv
<1>1. ASSUME NEW r \in Replicas, SharedStep(r) \/ LeaderStep(r) \/ Crash(r)
      PROVE  LockInv'
  <2>1. ASSUME NEW q \in Replicas, pc'[q] \in Leading PROVE lock' = q
    <3>1. CASE q = r
      BY <1>1, <2>1, <3>1, LeadsWithLock
    <3>2. CASE q # r
      BY <1>1, <2>1, <3>2, OthersKept, LockKept, ClusterAssumption
    <3> QED
      BY <3>1, <3>2
  <2>2. op'.phase = op.phase
    BY <1>1, OpKept
  <2>3. op.phase # "none" => lock' = Operator
    BY <1>1, LockKept, ClusterAssumption
  <2> QED
    BY <2>1, <2>2, <2>3
<1>2. ASSUME Environment PROVE LockInv'
  <2>1. \A r \in Replicas : pc'[r] \in Leading => lock = r
    BY <1>2, EnvironmentKeeps
  <2> QED
    BY <1>2, <2>1, TypesShared, EnvironmentLock, ClusterAssumption
<1> QED
  BY <1>1, <1>2 DEF Next

\* As long as the session that took the lock keeps it, leader cycles never
\* overlap, with one another or with an operator's rollback.
THEOREM OneLeaderHolds ==
    ASSUME "session" \notin FaultKinds
    PROVE  Spec => []OneLeader
<1>1. Init => LockInv
  BY DEF Init, LockInv, OneLeader, Leading
<1>2. SafeInv /\ LockInv /\ [Next]_vars => LockInv'
  BY LockStep DEF vars, LockInv, OneLeader, SafeInv
<1> QED
  BY <1>1, <1>2, SafeInit, SafeStep, PTL DEF Spec, LockInv
=============================================================================
