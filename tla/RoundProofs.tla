---------------------------- MODULE RoundProofs ----------------------------
(***************************************************************************)
(* What TwoPhaseSync promises while the advisory lock does its work, that  *)
(* is, while no session that holds it is lost: exactly one snapshot is     *)
(* active, whatever is aborted, and the mode implements ConfigPropagation; *)
(* and while no snapshot is pruned either, what a follower staged is what  *)
(* is stored, and a round is decided with the consent of all it asked.     *)
(***************************************************************************)
EXTENDS TwoPhaseSyncProofs

----------------------------------------------------------------------------
\* The advisory lock.

\* From the start of a cycle to its end, its leader holds the lock; so does the
\* operator during a rollback.
Leading == InRound \cup Preparing \cup Starting
LockInv ==
    /\ \A r \in Replicas : pc[r] \in Leading => lock = r
    /\ op.phase # "none" => lock = Operator

\* A leader's step releases its own lock, at the end of its cycle, or none.
LEMMA LeaderLock ==
    ASSUME ClusterTypes(Place), NEW r \in Replicas, LeaderStep(r)
    PROVE  UNCHANGED lock \/ (Ends(r) /\ EndCycle(r))
<1>1. EndRound(r) => EndCycle(r)
  BY DEF EndRound
<1>2. EndCycle(r) => Ends(r)
  BY CycleRests DEF Ends
<1>3. UNCHANGED lock \/ EndRound(r) \/ EndCycle(r)
  BY DEF LeaderStep, Save, SavePending, ResetApplyLog, TakeTarget, PublishPrepare, ReadAlive,
     Vote, Begin, BeginActivate, Decide, CommitActivation, AnnounceCommit, Apply, ApplyStaged,
     Record, AnnounceSync, AnnounceAbort, CheckActive, FailRow
<1> QED
  BY <1>1, <1>2, <1>3

\* A replica takes the lock only when it is free and releases only its own.
LEMMA LockKept ==
    ASSUME ClusterTypes(Place), NEW r \in Replicas, lock # Free, lock # r,
           Shared(r) \/ Tick(r) \/ LeaderStep(r) \/ FollowerStep(r) \/ Register(r)
              \/ Expire(r) \/ Heartbeat(r) \/ Die(r)
    PROVE  UNCHANGED lock
<1>1. CASE Shared(r) \/ Tick(r) \/ Die(r)
  BY <1>1, SharedLock DEF Shared, Tick, Die, SharedStep
<1>2. CASE LeaderStep(r)
  BY <1>2, LeaderLock, SharedLock
<1>3. CASE FollowerStep(r) \/ Register(r) \/ Expire(r) \/ Heartbeat(r)
  BY <1>3 DEF FollowerStep, HandlePrepare, Answer, HandleCommit, HandleAbort, Register,
     Expire, Heartbeat, vars
<1> QED
  BY <1>1, <1>2, <1>3

\* A replica that leads after a step of its own holds the lock after it.
LEMMA LeadsWithLock ==
    ASSUME TypeInv, LockInv, NEW r \in Replicas, pc'[r] \in Leading,
           Shared(r) \/ Tick(r) \/ LeaderStep(r) \/ FollowerStep(r) \/ Register(r)
              \/ Expire(r) \/ Heartbeat(r) \/ Die(r)
    PROVE  lock' = r
<1>1. ClusterTypes(Place) /\ Payloads
  BY DEF TypeInv, LocalsOK
<1>2. CASE Shared(r) \/ Tick(r)
  <2>1. SharedStep(r)
    BY <1>2 DEF Shared, Tick, SharedStep
  <2>2. pc[r] \in SharedPlace
    BY <2>1, SharedFrom
  <2>3. pc'[r] \in Starting
    BY <1>1, <2>1, <2>2, SharedGoes
    DEF Stays, Resting, Picks, Holds, Rereads, SharedPlace, Starting, Leading, InRound,
       Preparing
  <2>4. lock' = r \/ (pc[r] \in Starting /\ UNCHANGED lock)
    BY <1>1, <2>1, <2>3, SharedLeads
  <2> QED
    BY <2>4 DEF LockInv, Leading
<1>3. CASE LeaderStep(r)
  <2>1. pc[r] \in Leading /\ ~Ends(r)
    BY <1>1, <1>3, LeaderGoes DEF Leading, Ends, InRound, Preparing, Starting
  <2> QED
    BY <1>1, <1>3, <2>1, LeaderLock DEF LockInv
<1>4. CASE FollowerStep(r)
  <2>1. FALSE
    BY <1>4, FollowerGoes DEF Stays, Leading, InRound, Preparing, Starting
  <2> QED
    BY <2>1
<1>5. CASE Register(r) \/ Expire(r) \/ Heartbeat(r)
  BY <1>5 DEF Register, Expire, Heartbeat, vars, LockInv
<1>6. CASE Die(r)
  BY <1>1, <1>6 DEF Die, Crash, Goto, ClusterTypes, Leading, InRound, Preparing, Starting
<1> QED
  BY <1>2, <1>3, <1>4, <1>5, <1>6

\* A replica leaves the operator's progress alone, but for being late.
LEMMA OpKept ==
    ASSUME ClusterTypes(Place), NEW r \in Replicas,
           Shared(r) \/ Tick(r) \/ LeaderStep(r) \/ FollowerStep(r) \/ Register(r)
              \/ Expire(r) \/ Heartbeat(r) \/ Die(r)
    PROVE  op'.phase = op.phase
<1>1. CASE Shared(r) \/ Tick(r)
  BY <1>1, SharedOp DEF Shared, Tick, SharedStep
<1>2. CASE LeaderStep(r)
  BY <1>2 DEF LeaderStep, Save, SavePending, ResetApplyLog, TakeTarget, PublishPrepare,
     ReadAlive, Vote, Begin, BeginActivate, Decide, CommitActivation, AnnounceCommit,
     Apply, ApplyStaged, Record, AnnounceSync, AnnounceAbort, CheckActive, FailRow
<1>3. CASE FollowerStep(r) \/ Register(r) \/ Expire(r) \/ Heartbeat(r) \/ Die(r)
  BY <1>3 DEF FollowerStep, HandlePrepare, Answer, HandleCommit, HandleAbort, Register,
     Expire, Heartbeat, Die, Crash, vars
<1> QED
  BY <1>1, <1>2, <1>3

\* LockInv is inductive next to the types.
LEMMA LockStep ==
    ASSUME "session" \notin FaultKinds, TypeInv, LockInv, Next
    PROVE  LockInv'
<1>1. ClusterTypes(Place)
  BY DEF TypeInv
<1>2. ASSUME NEW r \in Replicas,
             Shared(r) \/ Tick(r) \/ LeaderStep(r) \/ FollowerStep(r) \/ Register(r)
                \/ Expire(r) \/ Heartbeat(r) \/ Die(r)
      PROVE  LockInv'
  <2>1. ASSUME NEW q \in Replicas, pc'[q] \in Leading PROVE lock' = q
    <3>1. CASE q = r
      BY <1>2, <2>1, <3>1, LeadsWithLock
    <3>2. CASE q # r
      <4>1. pc[q] \in Leading
        BY <1>2, <2>1, <3>2, OthersKept DEF TypeInv, Stays
      <4>2. lock = q /\ lock # Free /\ lock # r
        BY <3>2, <4>1, ClusterAssumption DEF LockInv
      <4> QED
        BY <1>1, <1>2, <4>2, LockKept
    <3> QED
      BY <3>1, <3>2
  <2>2. op'.phase = op.phase
    BY <1>1, <1>2, OpKept
  <2>3. op.phase # "none" => lock' = Operator
    BY <1>1, <1>2, LockKept, ClusterAssumption DEF LockInv
  <2> QED
    BY <2>1, <2>2, <2>3 DEF LockInv
<1>3. ASSUME Environment PROVE LockInv'
  <2>1. UNCHANGED pc
    BY <1>3, EnvironmentKeeps
  <2>2. CASE UNCHANGED lock /\ (op'.phase # "none" => op.phase # "none")
    BY <2>1, <2>2 DEF LockInv
  <2>3. CASE lock = Free /\ lock' = Operator
    BY <2>1, <2>3, ClusterAssumption DEF LockInv
  <2>4. CASE op.phase # "none" /\ lock' = Free /\ op'.phase = "none"
    BY <2>1, <2>4, ClusterAssumption DEF LockInv
  <2> QED
    BY <1>1, <1>3, <2>2, <2>3, <2>4, EnvironmentLock
<1> QED
  BY <1>2, <1>3 DEF Next

----------------------------------------------------------------------------
\* One active row.  The rows that an activation demotes were read by a statement
\* before its commit: they are still the active ones, for nobody else decides.
\* The row that an abort marks failed was not active when that was checked, and
\* is not since.

OneActive == decided # {} => \E v \in decided : ActiveVersions(rows) = {v}
Demotes ==
    \A r \in Replicas :
        pc[r] = "commit_activation" => job[r].demote = ActiveVersions(rows)
FailSafe ==
    \A r \in Replicas : pc[r] = "fail_row" => job[r].version \notin ActiveVersions(rows)
ActiveInv == OneActive /\ Demotes /\ FailSafe

HeldInv == SafeInv /\ LockInv /\ ActiveInv

Quiet == ActiveVersions(rows') = ActiveVersions(rows) /\ UNCHANGED decided

\* A row that is saved is not active, and none that is active is marked failed.
LEMMA SavesQuiet ==
    ASSUME rows \in Table, NEW v \in Version, NEW c \in Contents,
           rows' = SaveSnapshot(rows, v, c)
           \/ (rows' = FailSnapshot(rows, v) /\ v \notin ActiveVersions(rows))
    PROVE  ActiveVersions(rows') = ActiveVersions(rows)
<1>1. CASE rows' = SaveSnapshot(rows, v, c)
  <2>1. \A w \in Version : rows'[w].status = "active" <=> rows[w].status = "active"
    BY <1>1 DEF SaveSnapshot, Exists, Table
  <2> QED
    BY <2>1 DEF ActiveVersions
<1>2. CASE rows' = FailSnapshot(rows, v) /\ v \notin ActiveVersions(rows)
  <2>1. rows[v].status # "active" /\ rows[v] \in Row
    BY <1>2 DEF ActiveVersions, Table
  <2>2. \A w \in Version : rows'[w].status = "active" <=> rows[w].status = "active"
    BY <1>2, <2>1 DEF FailSnapshot, Table, Row
  <2> QED
    BY <2>2 DEF ActiveVersions
<1> QED
  BY <1>1, <1>2

\* The active rows change when an activation commits or the operator flips them,
\* and in no other step.
LEMMA ActiveCases ==
    ASSUME HeldInv, Next
    PROVE  Quiet \/ (\E r \in Replicas : Decides(r)) \/ (\E v \in Version : Flips(v))
<1>1. TypeInv /\ rows \in Table /\ ActiveDecided
  BY DEF HeldInv, SafeInv, TypeInv, ClusterTypes, Decided
<1>2. CASE UNCHANGED <<rows, decided>>
  BY <1>2 DEF Quiet
<1>3. ASSUME NEW r \in Replicas, Saves(r) PROVE Quiet
  BY <1>1, <1>3, SavesQuiet DEF Saves, Quiet
<1>4. ASSUME NEW r \in Replicas, Fails(r) PROVE Quiet
  <2>1. HasContent(r) /\ job[r].version \notin ActiveVersions(rows)
    BY <1>1, <1>4 DEF Fails, TypeInv, LocalsOK, InRound, HeldInv, ActiveInv, FailSafe
  <2> QED
    BY <1>1, <1>4, <2>1, SavesQuiet DEF Fails, Quiet, HasContent
<1>5. ASSUME NEW r \in Replicas, Prunes(r) PROVE Quiet
  BY <1>5 DEF Prunes, Quiet
<1>6. ASSUME NEW v \in Version, Flip(v) PROVE Flips(v)
  BY <1>1, <1>6, FlipDecides
<1> QED
  BY <1>1, <1>2, <1>3, <1>4, <1>5, <1>6, TableCases

\* A leader that has begun its activation, or checked it, is the only one to
\* change the active rows: the table stays as it saw it.
LEMMA LeadsAlone ==
    ASSUME HeldInv, Next, NEW q \in Replicas, pc[q] \in Leading, ~Decide(q)
    PROVE  Quiet
<1>1. ASSUME NEW r \in Replicas, Decides(r) PROVE FALSE
  <2>1. pc[r] \in Leading /\ Decide(r)
    BY <1>1 DEF Decides, Leading, InRound
  <2>2. r = q
    BY <2>1 DEF HeldInv, LockInv
  <2> QED
    BY <2>1, <2>2
<1>2. ASSUME NEW v \in Version, Flips(v) PROVE FALSE
  BY <1>2, ClusterAssumption DEF Flips, HeldInv, LockInv
<1> QED
  BY <1>1, <1>2, ActiveCases

\* An activation demotes all that is active, a flip too.
LEMMA OneActiveStep ==
    ASSUME HeldInv, Next
    PROVE  OneActive'
<1>1. CASE Quiet
  BY <1>1 DEF Quiet, HeldInv, ActiveInv, OneActive
<1>2. ASSUME NEW r \in Replicas, Decides(r) PROVE OneActive'
  <2>1. ActiveVersions(rows') = (ActiveVersions(rows) \ job[r].demote) \cup {job[r].version}
    BY <1>2, ActivateDecides DEF Decides, HeldInv, SafeInv, TypeInv, ClusterTypes
  <2>2. job[r].demote = ActiveVersions(rows)
    BY <1>2 DEF Decides, HeldInv, ActiveInv, Demotes
  <2>3. ActiveVersions(rows') = {job[r].version}
    BY <2>1, <2>2
  <2> QED
    BY <1>2, <2>3 DEF Decides, OneActive
<1>3. ASSUME NEW v \in Version, Flips(v) PROVE OneActive'
  BY <1>3 DEF Flips, OneActive
<1> QED
  BY <1>1, <1>2, <1>3, ActiveCases

\* What a leader does at its places of the activation and of the abort.
LEMMA LeaderAt ==
    ASSUME TypeInv, Next, NEW q \in Replicas, pc'[q] # pc[q], pc'[q] # "down"
    PROVE  /\ pc[q] = "reset" => ResetApplyLog(q)
           /\ pc[q] = "count" => Vote(q)
           /\ pc[q] = "activate" => Begin(q)
           /\ pc[q] = "commit_activation" => Decide(q)
           /\ pc[q] = "abort_check" => CheckActive(q)
<1> SUFFICES ASSUME pc[q] \in {"reset", "count", "activate", "commit_activation", "abort_check"}
             PROVE  /\ pc[q] = "reset" => ResetApplyLog(q)
                    /\ pc[q] = "count" => Vote(q)
                    /\ pc[q] = "activate" => Begin(q)
                    /\ pc[q] = "commit_activation" => Decide(q)
                    /\ pc[q] = "abort_check" => CheckActive(q)
  OBVIOUS
<1>1. LeaderStep(q) \/ Die(q)
  BY LeaderActs DEF SharedPlace
<1>2. ~Die(q)
  BY DEF Die, Crash, Goto, TypeInv, ClusterTypes
<1> QED
  BY <1>1, <1>2 DEF LeaderStep, Save, SavePending, ResetApplyLog, TakeTarget, PublishPrepare,
     ReadAlive, Vote, Begin, BeginActivate, Decide, CommitActivation, AnnounceCommit, Apply,
     ApplyStaged, Record, AnnounceSync, AnnounceAbort, CheckActive, FailRow

\* From the statement that reads the active rows to the commit that demotes
\* them, nothing else activates.
LEMMA DemotesStep ==
    ASSUME HeldInv, Next
    PROVE  Demotes'
<1> SUFFICES ASSUME NEW q \in Replicas, pc'[q] = "commit_activation"
             PROVE  job'[q].demote = ActiveVersions(rows')
  BY DEF Demotes
<1>1. TypeInv /\ job \in [Replicas -> Job]
  BY DEF HeldInv, SafeInv, TypeInv, ClusterTypes
<1>2. CASE Stays(q)
  <2>1. pc[q] \in Leading /\ pc[q] = "commit_activation"
    BY <1>2 DEF Stays, Leading, InRound
  <2>2. ASSUME Decide(q) PROVE FALSE
    BY <1>1, <2>2 DEF Decide, CommitActivation, Goto, TypeInv, ClusterTypes
  <2>3. Quiet
    BY <2>1, <2>2, LeadsAlone
  <2> QED
    BY <1>2, <2>1, <2>3 DEF Stays, Quiet, HeldInv, ActiveInv, Demotes
<1>3. CASE Proceeds(q)
  <2>1. pc[q] = "activate"
    BY <1>3 DEF Proceeds, LeaderMoves
  <2>2. BeginActivate(q, "abort")
    BY <1>1, <2>1, LeaderAt DEF Begin
  <2>3. ~Goto(q, "abort")
    BY <1>1 DEF Goto, TypeInv, ClusterTypes
  <2>4. /\ UNCHANGED rows
        /\ job' = [job EXCEPT ![q] = [job[q] EXCEPT !.demote = ActiveVersions(rows)]]
    BY <2>2, <2>3 DEF BeginActivate
  <2> QED
    BY <1>1, <2>4 DEF Job
<1> QED
  BY <1>1, <1>2, <1>3, GoesCases DEF Goes, Resting, Picks, Holds, Rereads

\* From the check of the active version to the mark, nothing activates.
LEMMA FailSafeStep ==
    ASSUME HeldInv, Next
    PROVE  FailSafe'
<1> SUFFICES ASSUME NEW q \in Replicas, pc'[q] = "fail_row"
             PROVE  job'[q].version \notin ActiveVersions(rows')
  BY DEF FailSafe
<1>1. TypeInv /\ ActiveDecided
  BY DEF HeldInv, SafeInv, Decided
<1>2. CASE Stays(q)
  <2>1. pc[q] \in Leading /\ pc[q] = "fail_row"
    BY <1>2 DEF Stays, Leading, InRound
  <2>2. Quiet
    BY <2>1, LeadsAlone DEF Decide, CommitActivation
  <2> QED
    BY <1>2, <2>1, <2>2 DEF Stays, Quiet, HeldInv, ActiveInv, FailSafe
<1>3. CASE Proceeds(q)
  <2>1. pc[q] = "abort_check" /\ job'[q].version = job[q].version
    BY <1>3 DEF Proceeds, LeaderMoves
  <2>2. CheckActive(q)
    BY <1>1, <2>1, LeaderAt
  <2>3. ASSUME EndRound(q) PROVE FALSE
    BY <1>1, <2>3, CycleRests DEF EndRound, TypeInv
  <2>4. PICK v \in ActiveSnapshot(rows) : v # job[q].version
    BY <2>2, <2>3 DEF CheckActive
  <2>5. UNCHANGED rows
    BY <2>2 DEF CheckActive
  <2>6. job[q].version \notin ActiveVersions(rows)
    BY <1>1, <2>4 DEF ActiveSnapshot, ActiveVersions, ActiveDecided, HeldInv, ActiveInv,
       OneActive
  <2> QED
    BY <2>1, <2>5, <2>6
<1> QED
  BY <1>1, <1>2, <1>3, GoesCases DEF Goes, Resting, Picks, Holds, Rereads

\* It holds at the start.
LEMMA HeldInit == Init /\ RoundInit => HeldInv
<1>1. Init => LockInv /\ ActiveInv
  BY DEF Init, LockInv, Leading, InRound, Preparing, Starting, ActiveInv, OneActive, Demotes,
     FailSafe
<1> QED
  BY <1>1, SafeInit DEF HeldInv

\* And every step keeps it.
LEMMA HeldStep ==
    ASSUME "session" \notin FaultKinds
    PROVE  HeldInv /\ [Next]_allVars => HeldInv'
<1>1. ASSUME HeldInv, Next PROVE HeldInv'
  <2>1. SafeInv' /\ LockInv'
    BY <1>1, SafeStep, LockStep DEF HeldInv, SafeInv
  <2>2. ActiveInv'
    BY <1>1, OneActiveStep, DemotesStep, FailSafeStep DEF ActiveInv
  <2> QED
    BY <2>1, <2>2 DEF HeldInv
<1>2. ASSUME HeldInv, UNCHANGED allVars PROVE HeldInv'
  <2>1. SafeInv'
    BY <1>2, SafeStep DEF HeldInv
  <2> QED
    BY <1>2, <2>1 DEF allVars, vars, HeldInv, LockInv, ActiveInv, OneActive, Demotes, FailSafe
<1> QED
  BY <1>1, <1>2

\* An aborted round never takes the active row with it: once a version was
\* activated exactly one is active, and it has a payload.
THEOREM ActiveNeverLostHolds ==
    ASSUME "session" \notin FaultKinds
    PROVE  Spec => []ActiveNeverLost
<1>1. ASSUME HeldInv PROVE ActiveNeverLost
  <2>1. \A v \in Version : ActiveVersions(rows) = {v} => rows[v].content \in Contents
    BY <1>1 DEF HeldInv, SafeInv, TypeInv, LocalsOK, Payloads, ActiveVersions, Exists
  <2>2. decided \subseteq Version
    BY <1>1 DEF HeldInv, SafeInv, TypeInv, ClusterTypes
  <2> QED
    BY <1>1, <2>1, <2>2 DEF HeldInv, ActiveInv, OneActive, ActiveNeverLost
<1> QED
  BY HeldInit, HeldStep, <1>1, PTL DEF Spec

----------------------------------------------------------------------------
\* The refinement of ConfigPropagation.

Served == [r \in Replicas |-> mem[r].version]

\* The initial states map to the initial state of ConfigPropagation.
LEMMA PropagationInit == Init => CP!Init
<1> SUFFICES ASSUME Init PROVE CP!Init
  OBVIOUS
<1>1. ActiveVersions(rows) = {}
  BY DEF Init, ActiveVersions, EmptyTable, NoRow
<1>2. Served = [r \in Replicas |-> NoVersion]
  BY DEF Init, Served, Nothing
<1> QED
  BY <1>1, <1>2 DEF Init, CP!Init, Served, NoVersion, CP!NoVersion

\* A table step decides a version, which the history gains, or shows nothing: a
\* round that aborts touches no active row.
LEMMA RowsDecide ==
    ASSUME HeldInv, Next
    PROVE  Quiet \/ \E v \in Version : CP!Decide(v)
<1>1. ASSUME NEW v \in Version, NEW kept \in SUBSET ActiveVersions(rows),
             ActiveVersions(rows') = kept \cup {v},
             decided' = decided \cup {v}, UNCHANGED mem
      PROVE  CP!Decide(v)
  BY <1>1 DEF CP!Decide
<1>2. ASSUME NEW r \in Replicas, Decides(r) PROVE \E v \in Version : CP!Decide(v)
  <2>1. /\ ActiveVersions(rows') = (ActiveVersions(rows) \ job[r].demote) \cup {job[r].version}
        /\ job[r].version \in Version /\ UNCHANGED mem
        /\ decided' = decided \cup {job[r].version}
    BY <1>2, ActivateDecides DEF Decides, HeldInv, SafeInv, TypeInv, ClusterTypes
  <2>2. ActiveVersions(rows) \ job[r].demote \in SUBSET ActiveVersions(rows)
    OBVIOUS
  <2> QED
    BY ONLY <1>1, <2>1, <2>2
<1>3. ASSUME NEW v \in Version, Flips(v) PROVE CP!Decide(v)
  <2>1. {} \in SUBSET ActiveVersions(rows) /\ {v} = {} \cup {v}
    OBVIOUS
  <2>2. decided' = decided \cup {v} /\ ActiveVersions(rows') = {v} /\ UNCHANGED mem
    BY <1>3 DEF Flips
  <2> QED
    BY ONLY <1>1, <2>1, <2>2
<1> QED
  BY <1>2, <1>3, ActiveCases

\* A replica that serves a decided version advances, reloads or obeys.
LEMMA ServesAs ==
    ASSUME SafeInv, NEW r \in Replicas, NEW v \in Version, Moves(r, v) \/ Obeys(r, v)
    PROVE  CP!Advance(r) \/ CP!Reload(r) \/ CP!Obey(r)
<1>1. Serves(r, v) /\ UNCHANGED <<rows, decided>>
  BY MovesDecided DEF SafeInv, Decided, Moves, Obeys
<1>2. PICK c \in Contents : mem' = [mem EXCEPT ![r] = [version |-> v, content |-> c]]
  BY <1>1 DEF Serves
<1>3. Served' = [Served EXCEPT ![r] = v]
  BY <1>2 DEF SafeInv, TypeInv, ClusterTypes, Served
<1>4. UNCHANGED <<decided, ActiveVersions(rows)>>
  BY <1>1 DEF ActiveVersions
<1>5. CP!Serve(r, v)
  BY <1>3, <1>4 DEF CP!Serve, Served
<1>6. CASE v \in decided /\ Forward(v, mem[r].version)
  BY <1>5, <1>6 DEF CP!Advance, CP!Forward, CP!After, CP!Time, CP!NoVersion,
     Forward, After, Time, NoVersion
<1>7. CASE v \in ActiveVersions(rows)
  BY <1>5, <1>7 DEF CP!Reload
<1>8. CASE v \in decided
  BY <1>5, <1>8 DEF CP!Obey
<1> QED
  BY <1>6, <1>7, <1>8 DEF Moves, Obeys

\* A crash is a stop of the abstract replica.
LEMMA StopsServe ==
    ASSUME SafeInv, NEW r \in Replicas, Stops(r), UNCHANGED <<rows, decided>>
    PROVE  CP!Stop(r)
<1>1. Served' = [Served EXCEPT ![r] = NoVersion]
  BY DEF Stops, Nothing, SafeInv, TypeInv, ClusterTypes, Served
<1>2. UNCHANGED <<decided, ActiveVersions(rows)>>
  BY DEF ActiveVersions
<1> QED
  BY <1>1, <1>2 DEF CP!Stop, CP!Serve, Served, NoVersion, CP!NoVersion

\* The strict mode implements ConfigPropagation with late commits.
THEOREM Propagation ==
    ASSUME "session" \notin FaultKinds
    PROVE  Spec => ImplementsPropagation
<1>1. ASSUME HeldInv, Next PROVE CP!Next \/ UNCHANGED CP!vars
  <2>1. CASE UNCHANGED mem
    <3>1. Served' = Served
      BY <2>1 DEF Served
    <3> QED
      BY <1>1, <3>1, RowsDecide DEF CP!Next, CP!vars, Served, Quiet, Version, CP!Version
  <2>2. ASSUME NEW r \in Replicas, Stops(r), UNCHANGED <<rows, decided>> PROVE CP!Next
    BY <1>1, <2>2, StopsServe DEF CP!Next, HeldInv
  <2>3. ASSUME NEW r \in Replicas, NEW v \in Version, Moves(r, v) \/ Obeys(r, v) PROVE CP!Next
    BY <1>1, <2>3, ServesAs DEF CP!Next, HeldInv
  <2> QED
    BY <1>1, <2>1, <2>2, <2>3, MoveCases DEF HeldInv
<1>2. ASSUME HeldInv, UNCHANGED allVars PROVE UNCHANGED CP!vars
  BY <1>2 DEF allVars, vars, CP!vars, ActiveVersions
<1> QED
  BY HeldInit, HeldStep, PropagationInit, <1>1, <1>2, PTL
  DEF Spec, ImplementsPropagation, CP!Spec

----------------------------------------------------------------------------
\* Staged values, where nothing is pruned.  Without that a stage outlives the
\* row that it was read from, and the row may be saved again with what the
\* source holds by then.

Stored ==
    \A r \in Replicas : \A s \in staged[r] :
        Exists(rows, s.version) /\ rows[s.version].content = s.content

\* A row that is there keeps its payload.
LEMMA RowsStay ==
    ASSUME Retention = FALSE, SafeInv, Next, NEW v \in Version, Exists(rows, v)
    PROVE  Exists(rows', v) /\ rows'[v].content = rows[v].content
<1>1. TypeInv /\ rows \in Table /\ ActiveDecided
  BY DEF SafeInv, TypeInv, ClusterTypes, Decided
<1>2. ASSUME NEW r \in Replicas, Saves(r)
      PROVE  Exists(rows', v) /\ rows'[v].content = rows[v].content
  BY <1>1, <1>2 DEF Saves, SaveSnapshot, Exists, Table
<1>3. ASSUME NEW seen, NEW w \in Version, rows' = ActivateSnapshot(rows, seen, w)
      PROVE  Exists(rows', v) /\ rows'[v].content = rows[v].content
  BY <1>1, <1>3 DEF ActivateSnapshot, Exists
<1>4. ASSUME NEW r \in Replicas, Fails(r)
      PROVE  Exists(rows', v) /\ rows'[v].content = rows[v].content
  BY <1>1, <1>4 DEF Fails, FailSnapshot, Exists, Table, Row
<1>5. ASSUME NEW w \in Version, Flip(w)
      PROVE  Exists(rows', v) /\ rows'[v].content = rows[v].content
  BY <1>1, <1>3, <1>5, FlipDecides
<1> QED
  BY <1>1, <1>2, <1>3, <1>4, <1>5, TableCases DEF Decides, Prunes

\* A stage is made from the row of its version.
LEMMA StoredStep ==
    ASSUME Retention = FALSE, SafeInv, Stored, Next
    PROVE  Stored'
<1> SUFFICES ASSUME NEW q \in Replicas, NEW s \in staged'[q]
             PROVE  Exists(rows', s.version) /\ rows'[s.version].content = s.content
  BY DEF Stored
<1>1. TypeInv /\ staged \in [Replicas -> SUBSET Stage]
  BY DEF SafeInv, TypeInv, RoundTypes
<1>2. CASE s \in staged[q]
  <2>1. s.version \in Version /\ Exists(rows, s.version) /\ rows[s.version].content = s.content
    BY <1>1, <1>2 DEF Stored, Stage
  <2> QED
    BY <2>1, RowsStay
<1>3. CASE Prepares(q) /\ s \notin staged[q]
  <2> DEFINE e == Head(inbox[q])
  <2>1. /\ e.version \in Version /\ Exists(rows, e.version) /\ HandlePrepare(q)
        /\ s = [round |-> e.round, version |-> e.version, content |-> rows[e.version].content]
    BY <1>3 DEF Prepares
  <2>2. UNCHANGED rows
    BY <2>1 DEF HandlePrepare
  <2> QED
    BY <2>1, <2>2
<1> QED
  BY <1>1, <1>2, <1>3, StageCases

\* Where nothing is pruned, a commit that finds its stage and one that reloads
\* the stored snapshot serve the same.
THEOREM StagedAsStoredHolds ==
    ASSUME Retention = FALSE
    PROVE  Spec => []StagedAsStored
<1>1. Init /\ RoundInit => Stored
  BY DEF RoundInit, Stored
<1>2. SafeInv /\ Stored /\ [Next]_allVars => Stored'
  <2>1. ASSUME Stored, UNCHANGED allVars PROVE Stored'
    BY <2>1 DEF allVars, vars, roundVars, Stored, Exists
  <2> QED
    BY <2>1, StoredStep
<1>3. Stored => StagedAsStored
  BY DEF Stored, StagedAsStored
<1> QED
  BY SafeInit, SafeStep, <1>1, <1>2, <1>3, PTL DEF Spec

----------------------------------------------------------------------------
\* The vote.  A row of the log names no round: an answer "prepared" stands for
\* the consent to a version.  It is about the payload to be activated, for the
\* log is cleared after the row is saved, the payload of a row that is kept
\* never changes, and no other leader answers meanwhile.

Asking == {"target", "prepare", "vote", "count"}
Saved == \A r \in Replicas : pc[r] \in Asking \cup {"reset"} => Exists(rows, job[r].version)
Consents ==
    \A q \in Replicas :
        pc[q] = "vote_yes" =>
           /\ Exists(rows, job[q].version)
           /\ Accepts(q, rows[job[q].version].content)
Answers ==
    \A r \in Replicas :
        pc[r] \in Asking =>
           \A q \in Replicas \ {r} :
              Answered(r, q, "prepared") => Accepts(q, rows[job[r].version].content)
VoteInv == Saved /\ Consents /\ Answers

\* A row of the log becomes "prepared" where that is what is logged.
LEMMA LogsPrepared ==
    ASSUME applyLog \in [Replicas -> [Version -> ApplyStatus]],
           NEW r \in Replicas, NEW w, NEW status, LogApply(r, w, status),
           NEW q \in Replicas, NEW v \in Version,
           applyLog'[q][v] = "prepared", applyLog[q][v] # "prepared"
    PROVE  r = q /\ w = v /\ status = "prepared"
BY DEF LogApply

\* That is where a follower consents, or a leader takes its target set.
LEMMA LogCases ==
    ASSUME TypeInv, Next, NEW q \in Replicas, NEW v \in Version,
           applyLog'[q][v] = "prepared", applyLog[q][v] # "prepared"
    PROVE  TakeTarget(q) \/ (pc[q] = "vote_yes" /\ job[q].version = v)
<1>1. applyLog \in [Replicas -> [Version -> ApplyStatus]]
  BY DEF TypeInv, ClusterTypes
<1>2. ~UNCHANGED applyLog
  OBVIOUS
<1>3. ASSUME NEW r \in Replicas, NEW w, NEW status \in ApplyStatus \ {"prepared"},
             LogApply(r, w, status)
      PROVE  FALSE
  BY <1>1, <1>3, LogsPrepared
<1>4. ASSUME NEW r \in Replicas, NEW w, NEW c, NEW status \in ApplyStatus \ {"prepared"},
             CacheAndLog(r, w, c, status)
      PROVE  FALSE
  BY <1>2, <1>3, <1>4 DEF CacheAndLog
<1>5. ASSUME NEW r \in Replicas, SharedStep(r) PROVE FALSE
  <2>1. ASSUME CatchUpApply(r) PROVE FALSE
    BY <1>2, <1>3, <2>1 DEF CatchUpApply, TryLogApply, ApplyStatus
  <2>2. ASSUME HandleSync(r) PROVE FALSE
    BY <1>2, <1>3, <2>2 DEF HandleSync, TryLogApply, ApplyStatus
  <2>3. ASSUME RecordRollback(r) PROVE FALSE
    BY <1>4, <2>3 DEF RecordRollback, ApplyStatus
  <2>4. ASSUME Maintain(r) PROVE FALSE
    BY <1>1, <2>4 DEF Maintain
  <2> QED
    BY <1>2, <1>5, <2>1, <2>2, <2>3, <2>4 DEF SharedStep, Start, LoadFromCache, LoadFromStorage,
       Boot, ReconcileTick, SyncCycle, ForcedCycle, FetchVersion, CheckVersion,
       RepairCache, WarmEntry, FetchAndStage, CycleFails, CatchUpProbe, DropEcho, HandleRollback
<1>6. ASSUME NEW r \in Replicas, Shared(r) \/ Tick(r) PROVE FALSE
  BY <1>5, <1>6 DEF Shared, Tick, SharedStep
<1>7. ASSUME NEW r \in Replicas, ResetApplyLog(r) PROVE FALSE
  BY <1>1, <1>7 DEF ResetApplyLog, Cleared
<1>8. ASSUME NEW r \in Replicas, TakeTarget(r) PROVE TakeTarget(q)
  BY <1>1, <1>2, <1>8, LogsPrepared DEF TakeTarget
<1>9. ASSUME NEW r \in Replicas, Record(r) PROVE FALSE
  BY <1>4, <1>9 DEF Record, ApplyStatus
<1>10. ASSUME NEW r \in Replicas, Answer(r) PROVE pc[q] = "vote_yes" /\ job[q].version = v
  <2>1. LogApply(r, job[r].version, IF pc[r] = "vote_yes" THEN "prepared" ELSE "prepare_failed")
    BY <1>2, <1>10 DEF Answer
  <2> QED
    BY <1>1, <2>1, LogsPrepared
<1>11. ASSUME NEW r \in Replicas, HandleCommit(r) PROVE FALSE
  BY <1>2, <1>3, <1>11 DEF HandleCommit, CommitStage, CommitStored, TryLogApply, ApplyStatus
<1>12. ASSUME NEW r \in Replicas, LeaderStep(r), ~ResetApplyLog(r), ~TakeTarget(r), ~Record(r)
       PROVE  FALSE
  BY <1>2, <1>12 DEF LeaderStep, Save, SavePending, PublishPrepare, ReadAlive, Vote, Begin,
     BeginActivate, Decide, CommitActivation, AnnounceCommit, Apply, ApplyStaged, AnnounceSync,
     AnnounceAbort, CheckActive, FailRow
<1>13. ASSUME NEW r \in Replicas,
              HandlePrepare(r) \/ HandleAbort(r) \/ Register(r) \/ Expire(r) \/ Heartbeat(r)
                 \/ Die(r)
       PROVE  FALSE
  BY <1>2, <1>13 DEF HandlePrepare, HandleAbort, Register, Expire, Heartbeat, Die, Crash, vars
<1>14. ASSUME Environment PROVE FALSE
  BY <1>2, <1>14, EnvironmentKeeps
<1> QED
  BY <1>6, <1>7, <1>8, <1>9, <1>10, <1>11, <1>12, <1>13, <1>14 DEF Next, FollowerStep

\* A follower consents from its handler of the prepare event.
LEMMA ConsentsFrom ==
    ASSUME TypeInv, Next, NEW q \in Replicas, pc'[q] = "vote_yes", ~Stays(q)
    PROVE  HandlePrepare(q)
<1> USE DEF TypeInv
<1>1. ASSUME Shared(q) \/ Tick(q) PROVE FALSE
  <2>1. SharedStep(q)
    BY <1>1 DEF Shared, Tick, SharedStep
  <2> QED
    BY <2>1, SharedGoes DEF Resting, Picks, Holds, Rereads, LocalsOK
<1>2. ASSUME LeaderStep(q) PROVE FALSE
  BY <1>2, LeaderGoes DEF Ends, Proceeds, LeaderMoves
<1>3. ASSUME Answer(q) \/ HandleCommit(q) \/ HandleAbort(q) PROVE FALSE
  BY <1>3 DEF Answer, HandleCommit, HandleAbort, Goto, Stays, ClusterTypes
<1>4. ASSUME Register(q) \/ Expire(q) \/ Heartbeat(q) PROVE FALSE
  BY <1>4 DEF Register, Expire, Heartbeat, vars, Stays
<1>5. ASSUME Die(q) PROVE FALSE
  BY <1>5 DEF Die, Crash, Goto, ClusterTypes
<1>6. ASSUME NEW r \in Replicas \ {q},
             Shared(r) \/ Tick(r) \/ LeaderStep(r) \/ FollowerStep(r) \/ Register(r)
                \/ Expire(r) \/ Heartbeat(r) \/ Die(r)
      PROVE  FALSE
  BY <1>6, OthersKept
<1>7. ASSUME Environment PROVE FALSE
  BY <1>7, EnvironmentKeeps DEF Stays
<1> QED
  BY <1>1, <1>2, <1>3, <1>4, <1>5, <1>6, <1>7 DEF Next, FollowerStep

\* A follower consents to a row that it has read.
LEMMA ConsentsStep ==
    ASSUME Retention = FALSE, SafeInv, Consents, Next
    PROVE  Consents'
<1> SUFFICES ASSUME NEW q \in Replicas, pc'[q] = "vote_yes"
             PROVE  /\ Exists(rows', job'[q].version)
                    /\ Accepts(q, rows'[job'[q].version].content)
  BY DEF Consents
<1>1. TypeInv
  BY DEF SafeInv
<1>2. CASE Stays(q)
  <2>1. pc[q] = "vote_yes" /\ job'[q].version = job[q].version
    BY <1>2 DEF Stays
  <2>2. job[q].version \in Version /\ Exists(rows, job[q].version)
    BY <1>1, <2>1 DEF TypeInv, LocalsOK, HasVersion, Consents
  <2> QED
    BY <2>1, <2>2, RowsStay DEF Consents
<1>3. CASE ~Stays(q)
  <2> DEFINE v == Head(inbox[q]).version
  <2>1. HandlePrepare(q) /\ UNCHANGED rows
    BY <1>1, <1>3, ConsentsFrom DEF HandlePrepare
  <2>2. ~Goto(q, "vote_no")
    BY <1>1 DEF Goto, TypeInv, ClusterTypes
  <2>3. /\ Exists(rows, v) /\ Loads(q, v)
        /\ job' = [job EXCEPT ![q] = [job[q] EXCEPT !.version = v]]
    BY <2>1, <2>2 DEF HandlePrepare, stageFromBytes
  <2>4. job'[q].version = v
    BY <1>1, <2>3, JobFields DEF TypeInv, ClusterTypes
  <2> QED
    BY <2>1, <2>3, <2>4 DEF Loads
<1> QED
  BY <1>2, <1>3

\* A leader that saved its row did so itself.
LEMMA SavesFrom ==
    ASSUME TypeInv, Next, NEW q \in Replicas, pc[q] = "save", pc'[q] = "reset"
    PROVE  LeaderStep(q) \/ Die(q)
<1> USE DEF TypeInv
<1>1. ASSUME Shared(q) \/ Tick(q) PROVE FALSE
  <2>1. SharedStep(q)
    BY <1>1 DEF Shared, Tick, SharedStep
  <2> QED
    BY <2>1, SharedGoes DEF Stays, Resting, Picks, Holds, Rereads, LocalsOK
<1>2. ASSUME FollowerStep(q) PROVE FALSE
  BY <1>2, FollowerGoes
<1>3. ASSUME Register(q) \/ Expire(q) \/ Heartbeat(q) PROVE FALSE
  BY <1>3 DEF Register, Expire, Heartbeat, vars
<1>4. ASSUME NEW r \in Replicas \ {q},
             Shared(r) \/ Tick(r) \/ LeaderStep(r) \/ FollowerStep(r) \/ Register(r)
                \/ Expire(r) \/ Heartbeat(r) \/ Die(r)
      PROVE  FALSE
  BY <1>4, OthersKept DEF Stays
<1>5. ASSUME Environment PROVE FALSE
  BY <1>5, EnvironmentKeeps
<1> QED
  BY <1>1, <1>2, <1>3, <1>4, <1>5 DEF Next

\* The places of a leader between the save of its row and its decision.
LEMMA AskingFrom ==
    ASSUME TypeInv, Next, NEW q \in Replicas, pc'[q] \in Asking \cup {"reset"}
    PROVE  /\ job'[q].version = job[q].version /\ job[q].version \in Version
           /\ \/ pc[q] \in Asking
              \/ pc[q] = "reset" /\ (pc'[q] = "reset" \/ ResetApplyLog(q))
              \/ pc'[q] = "reset" /\ SavePending(q, "reset")
<1>1. CASE Stays(q)
  BY <1>1 DEF Stays, Asking, TypeInv, LocalsOK, HasVersion, InRound, Preparing
<1>2. CASE Proceeds(q)
  <2>1. /\ pc[q] \in Asking \cup {"reset", "save"} /\ job'[q].version = job[q].version
        /\ pc[q] = "save" => pc'[q] = "reset"
    BY <1>2 DEF Proceeds, LeaderMoves, Asking
  <2>2. job[q].version \in Version
    BY <2>1 DEF Asking, TypeInv, LocalsOK, HasVersion, InRound, Preparing
  <2>3. CASE pc[q] = "save"
    <3>1. LeaderStep(q) \/ Die(q)
      BY <2>1, <2>3, SavesFrom
    <3>2. ~Die(q)
      BY <2>1, <2>3 DEF Die, Crash, Goto, TypeInv, ClusterTypes
    <3>3. Save(q)
      BY <2>3, <3>1, <3>2 DEF LeaderStep, Save, SavePending, ResetApplyLog, TakeTarget,
         PublishPrepare, ReadAlive, Vote, Begin, BeginActivate, Decide, CommitActivation,
         AnnounceCommit, Apply, ApplyStaged, Record, AnnounceSync, AnnounceAbort, CheckActive,
         FailRow
    <3> QED
      BY <2>1, <2>2, <2>3, <3>3 DEF Save
  <2>4. CASE pc[q] = "reset" /\ pc'[q] # "reset"
    BY <2>1, <2>2, <2>4, LeaderAt DEF Asking
  <2> QED
    BY <2>1, <2>2, <2>3, <2>4
<1> QED
  BY <1>1, <1>2, GoesCases DEF Goes, Resting, Picks, Holds, Rereads, Asking

\* What a leader saved stays there until its decision.
LEMMA SavedStep ==
    ASSUME Retention = FALSE, SafeInv, Saved, Next
    PROVE  Saved'
<1> SUFFICES ASSUME NEW q \in Replicas, pc'[q] \in Asking \cup {"reset"}
             PROVE  Exists(rows', job'[q].version)
  BY DEF Saved
<1> DEFINE v == job[q].version
<1>1. /\ job'[q].version = v /\ v \in Version
      /\ pc[q] \in Asking \cup {"reset"} \/ SavePending(q, "reset")
  BY AskingFrom DEF SafeInv
<1>2. CASE pc[q] \in Asking \cup {"reset"}
  BY <1>1, <1>2, RowsStay DEF Saved
<1>3. CASE SavePending(q, "reset")
  <2>1. rows \in Table /\ rows' = SaveSnapshot(rows, v, job[q].content)
    BY <1>3 DEF SavePending, SafeInv, TypeInv, ClusterTypes
  <2> QED
    BY <1>1, <2>1 DEF SaveSnapshot, Exists, Table
<1> QED
  BY <1>1, <1>2, <1>3

\* Answers to a leader's question are those given since it cleared the log.
LEMMA AnswersStep ==
    ASSUME Retention = FALSE, HeldInv, VoteInv, Next
    PROVE  Answers'
<1> SUFFICES ASSUME NEW r \in Replicas, pc'[r] \in Asking, NEW q \in Replicas \ {r},
                    applyLog'[q][job'[r].version] = "prepared"
             PROVE  Accepts(q, rows'[job'[r].version].content)
  BY DEF Answers, Answered
<1> DEFINE v == job[r].version
<1>1. TypeInv /\ SafeInv /\ LockInv
  BY DEF HeldInv, SafeInv
<1>2. /\ job'[r].version = v /\ v \in Version
      /\ pc[r] \in Asking \/ (pc[r] = "reset" /\ ResetApplyLog(r))
  BY <1>1, AskingFrom DEF Asking
<1>3. CASE pc[r] = "reset" /\ ResetApplyLog(r)
  <2>1. ~EndCycle(r)
    BY <1>1, CycleRests DEF Asking, TypeInv
  <2>2. applyLog' = Cleared(v) /\ applyLog \in [Replicas -> [Version -> ApplyStatus]]
    BY <1>1, <1>3, <2>1 DEF ResetApplyLog, TypeInv, ClusterTypes
  <2>3. applyLog'[q][v] = "none"
    BY <1>2, <2>2 DEF Cleared
  <2> QED
    BY <1>2, <2>3
<1>4. CASE pc[r] \in Asking
  <2>1. Exists(rows, v) /\ rows'[v].content = rows[v].content
    BY <1>1, <1>2, <1>4, RowsStay DEF VoteInv, Saved
  <2>2. CASE applyLog[q][v] = "prepared"
    BY <1>2, <1>4, <2>1, <2>2 DEF VoteInv, Answers, Answered
  <2>3. CASE applyLog[q][v] # "prepared"
    <3>1. ~TakeTarget(q)
      BY <1>1, <1>4 DEF TakeTarget, LockInv, Leading, Asking, InRound, Preparing
    <3>2. pc[q] = "vote_yes" /\ job[q].version = v
      BY <1>1, <1>2, <2>3, <3>1, LogCases
    <3> QED
      BY <1>2, <2>1, <3>2 DEF VoteInv, Consents
  <2> QED
    BY <2>2, <2>3
<1> QED
  BY <1>2, <1>3, <1>4

\* No round goes on to its decision past a target that refuses the payload.
LEMMA UnanimousStep ==
    ASSUME HeldInv, VoteInv, Next, NEW r \in Replicas, pc[r] = "count", pc'[r] = "activate",
           NEW q \in Electorate(r) \ {r}
    PROVE  Accepts(q, rows[job[r].version].content)
<1>1. TypeInv
  BY DEF HeldInv, SafeInv
<1>2. q \in Replicas
  BY <1>1 DEF Electorate, TypeInv, RoundTypes, Ballots
<1>3. Vote(r)
  BY <1>1, LeaderAt
<1>4. ~Goto(r, "abort") /\ ~Goto(r, "vote")
  BY <1>1 DEF Goto, TypeInv, ClusterTypes
<1>5. Prepared(r)
  BY <1>3, <1>4 DEF Vote
<1> QED
  BY <1>2, <1>5 DEF Prepared, VoteInv, Answers, Asking

\* Where nothing is pruned and the lock does its work, a round goes on to its
\* decision only with the consent of every other target that was alive when the
\* count began, whichever round of the version their answers were given in.
THEOREM UnanimousHolds ==
    ASSUME Retention = FALSE, "session" \notin FaultKinds
    PROVE  Spec => Unanimous
<1>1. Init /\ RoundInit => VoteInv
  BY DEF Init, VoteInv, Saved, Consents, Answers, Asking
<1>2. HeldInv /\ VoteInv /\ [Next]_allVars => VoteInv'
  <2>1. ASSUME HeldInv, VoteInv, Next PROVE VoteInv'
    BY <2>1, SavedStep, ConsentsStep, AnswersStep DEF VoteInv, HeldInv
  <2>2. ASSUME VoteInv, UNCHANGED allVars PROVE VoteInv'
    BY <2>2 DEF allVars, vars, VoteInv, Saved, Consents, Answers, Answered, Exists
  <2> QED
    BY <2>1, <2>2
<1>3. HeldInv /\ VoteInv /\ [Next]_allVars =>
        [\A r \in Replicas :
            pc[r] = "count" /\ pc'[r] = "activate" =>
               \A q \in Electorate(r) \ {r} : Accepts(q, rows[job[r].version].content)]_allVars
  BY UnanimousStep
<1> QED
  BY HeldInit, HeldStep, <1>1, <1>2, <1>3, PTL DEF Spec, Unanimous
=============================================================================
