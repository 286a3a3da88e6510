------------------------- MODULE TwoPhaseSyncProofs -------------------------
(***************************************************************************)
(* Proofs about TwoPhaseSync, for any number of replicas, versions, rounds *)
(* and faults, any validators and any options: types, DecidedFirst and     *)
(* BackOnlyWhenTold, whatever fails and whatever is lost.                  *)
(***************************************************************************)
EXTENDS TwoPhaseSync, ClusterProofs, WellFoundedInduction

----------------------------------------------------------------------------
\* Types.  What a leader saves, activates and announces, and what a follower
\* answers, is in its local variables, so their content at each place counts.

\* From the prepare event to the end of the cycle, a leader has a round.
InRound == {"vote", "count", "activate", "commit_activation", "announce", "apply",
            "record", "fallback", "abort", "abort_check", "fail_row"}
\* Before that, it has a version, and a content from "save" on.
Preparing == {"save", "reset", "target", "prepare"}

LocalsOK ==
    /\ Payloads
    /\ \A r \in Replicas :
          /\ pc[r] \in InRound \cup Preparing \cup Tails \cup {"stage", "vote_yes"}
                => HasVersion(r)
          /\ pc[r] \in InRound \cup Preparing \cup Tails => HasContent(r)

Ballots == [Replicas -> [round : 0 .. MaxRounds, target : SUBSET Replicas,
                         live : SUBSET Replicas]]
RoundTypes ==
    /\ alive \subseteq Replicas
    /\ staged \in [Replicas -> SUBSET Stage]
    /\ ballot \in Ballots

\* A prepare event names its round.
Numbered == {e \in Event : e.action = "prepare" => e.round \in Round}

TypeInv == ClusterTypes(Place) /\ RoundTypes /\ LocalsOK /\ BoxesIn(inbox, Numbered)

\* The places of the shared steps are places of this mode.
LEMMA Places ==
    /\ SharedPlace \cup {"commit_activation"} \subseteq Place
    /\ InRound \cup Preparing \cup {"vote_yes", "vote_no"} \subseteq Place
BY DEF SharedPlace, Place, InRound, Preparing

\* The initial states have their types.
LEMMA TypeInit == Init /\ RoundInit => TypeInv
<1> SUFFICES ASSUME Init, RoundInit PROVE TypeInv
  OBVIOUS
<1>1. ClusterTypes(Place) /\ Payloads
  BY Places, ClusterInit
<1>2. RoundTypes
  <2>1. NoBallot \in [round : 0 .. MaxRounds, target : SUBSET Replicas,
                      live : SUBSET Replicas]
    BY TwoPhaseAssumption DEF NoBallot
  <2> QED
    BY <2>1 DEF RoundInit, RoundTypes, Ballots
<1>3. \A r \in Replicas : pc[r] = "down"
  BY DEF Init
<1> QED
  BY <1>1, <1>2, <1>3, NothingDecided DEF TypeInv, LocalsOK, InRound, Preparing, Tails

\* A set of natural numbers has a least one.
LEMMA Smallest ==
    ASSUME NEW S \in SUBSET Nat, S # {}
    PROVE  Min(S) \in S
<1>1. IsWellFoundedOn({p \in Nat \X Nat : p[1] < p[2]}, Nat)
  BY NatLessThanWellFounded DEF OpToRel
<1>2. \E x \in S : \A y \in S : <<y, x>> \notin {p \in Nat \X Nat : p[1] < p[2]}
  BY <1>1, WFMin
<1>3. PICK x \in S : \A y \in S : ~(y < x)
  BY <1>2
<1>4. \A y \in S : x <= y
  BY <1>3
<1> QED
  BY <1>4 DEF Min

\* The round of a prepare event is one that nothing refers to.
LEMMA FreshRound ==
    ASSUME FreshRounds # {}
    PROVE  Min(FreshRounds) \in Round /\ ~Referenced(Min(FreshRounds))
<1>1. FreshRounds \in SUBSET Nat
  BY TwoPhaseAssumption DEF FreshRounds, Round
<1>2. Min(FreshRounds) \in FreshRounds
  BY <1>1, Smallest
<1> QED
  BY <1>2 DEF FreshRounds

\* What r broadcasts of the version in hand.
Message(r, a, n) == [action |-> a, version |-> job[r].version, origin |-> r, round |-> n]

\* The events of a round are events.
LEMMA RoundEventType ==
    ASSUME ClusterTypes(Place), RoundTypes, NEW r \in Replicas,
           NEW a \in {"sync", "prepare", "commit", "abort"}, NEW n \in 0 .. MaxRounds
    PROVE  /\ RoundEvent(r, a) \in Event
           /\ RoundEvent(r, a).version = job[r].version
           /\ RoundEvent(r, a).action = a /\ RoundEvent(r, a).origin = r
           /\ RoundEvent(r, a).round = ballot[r].round
           /\ [RoundEvent(r, a) EXCEPT !.round = n] = Message(r, a, n)
           /\ Message(r, a, n) \in Event
<1>1. job[r].version \in AnyVersion /\ ballot[r].round \in Nat /\ n \in Nat
  BY TwoPhaseAssumption DEF ClusterTypes, RoundTypes, Ballots, Job
<1>2. [RoundEvent(r, a) EXCEPT !.round = n] = Message(r, a, n)
  BY DEF RoundEvent, Message
<1>3. RoundEvent(r, a) \in Event /\ Message(r, a, n) \in Event
  BY <1>1, EventType DEF RoundEvent, Message
<1> QED
  BY <1>2, <1>3 DEF RoundEvent

\* 0 stands for no round.
LEMMA NoRound == 0 \in 0 .. MaxRounds /\ 0 \notin Round
BY TwoPhaseAssumption DEF Round

\* A stage of a snapshot that loads is one.
LEMMA StashType ==
    ASSUME rows \in Table, Payloads, staged \in [Replicas -> SUBSET Stage],
           NEW r \in Replicas, NEW n \in Round, NEW v \in AnyVersion, Exists(rows, v),
           stageFromBytes(r, n, v)
    PROVE  staged' \in [Replicas -> SUBSET Stage] /\ v \in Version
<1>1. v \in Version /\ rows[v].content \in Contents
  BY DEF stageFromBytes, Loads, AnyVersion, Payloads
<1>2. [round |-> n, version |-> v, content |-> rows[v].content] \in Stage
  BY <1>1 DEF Stage
<1>3. {s \in staged[r] : s.round # n} \cup
         {[round |-> n, version |-> v, content |-> rows[v].content]} \in SUBSET Stage
  BY <1>2
<1> QED
  BY <1>1, <1>3 DEF stageFromBytes, Stash

\* So is what remains of a set of stages.
LEMMA DropType ==
    ASSUME staged \in [Replicas -> SUBSET Stage], NEW r \in Replicas,
           dropExpiredStages(r) \/ \E n : DropStage(r, n)
    PROVE  staged' \in [Replicas -> SUBSET Stage]
BY DEF dropExpiredStages, DropStage

\* A broadcast keeps the types.
LEMMA TellType ==
    ASSUME ClusterTypes(Place), NEW r \in Replicas, NEW e \in Event, Tell(r, e)
    PROVE  inbox' \in [Replicas -> Seq(Event)] /\ faults' \in 0 .. MaxFaults
<1>1. inbox \in [Replicas -> Seq(Event)]
  BY DEF ClusterTypes
<1>2. Deliver(inbox, e) \in [Replicas -> Seq(Event)]
  BY <1>1, DeliverType
<1> QED
  BY <1>1, <1>2, FaultType DEF Tell, ClusterTypes

\* Ending a round keeps the types.
LEMMA EndRoundType ==
    ASSUME ClusterTypes(Place), RoundTypes, NEW r \in Replicas, EndRound(r)
    PROVE  LeadTypes(Place) /\ ballot' \in Ballots
<1>1. NoBallot \in [round : 0 .. MaxRounds, target : SUBSET Replicas,
                    live : SUBSET Replicas]
  BY TwoPhaseAssumption DEF NoBallot
<1> QED
  BY <1>1, EndCycleType, Places DEF EndRound, RoundTypes, Ballots

\* The leader's steps before the votes keep the types.
LEMMA PrepareTypes ==
    ASSUME TypeInv, NEW r \in Replicas,
           Save(r) \/ ResetApplyLog(r) \/ TakeTarget(r) \/ PublishPrepare(r)
    PROVE  ClusterTypes(Place)' /\ RoundTypes'
<1> USE DEF TypeInv
<1>1. CASE Save(r)
  <2>1. SavePending(r, "reset") /\ HasVersion(r) /\ HasContent(r)
    BY <1>1 DEF Save, SavePending, LocalsOK, Preparing
  <2>2. "reset" \in Place
    BY DEF Place
  <2>3. ClusterTypes(Place)'
    BY <2>1, <2>2, Places, LeaderTypes
  <2> QED
    BY <1>1, <2>3 DEF Save, roundVars, RoundTypes
<1>2. CASE ResetApplyLog(r)
  <2>1. Cleared(job[r].version) \in [Replicas -> [Version -> ApplyStatus]]
    BY DEF Cleared, ClusterTypes, ApplyStatus
  <2>2. applyLog' \in [Replicas -> [Version -> ApplyStatus]]
    BY <1>2, <2>1 DEF ResetApplyLog, ClusterTypes
  <2>3. LeadTypes(Place)
    <3>1. CASE EndCycle(r)
      BY <3>1, EndCycleType, Places
    <3>2. CASE ~EndCycle(r)
      BY <1>2, <3>2 DEF ResetApplyLog, Goto, LeadTypes, ClusterTypes, Place
    <3> QED
      BY <3>1, <3>2
  <2>4. faults' \in 0 .. MaxFaults
    BY <1>2, FaultType DEF ResetApplyLog, ClusterTypes
  <2> QED
    BY <1>2, <2>2, <2>3, <2>4
    DEF ResetApplyLog, LeadTypes, ClusterTypes, roundVars, RoundTypes
<1>5. CASE TakeTarget(r)
  <2>1. applyLog' \in [Replicas -> [Version -> ApplyStatus]]
    BY <1>5, LogType DEF TakeTarget, ClusterTypes, ApplyStatus
  <2>2. LeadTypes(Place)
    <3>1. CASE EndRound(r)
      BY <3>1, EndRoundType
    <3>2. CASE ~EndRound(r)
      BY <1>5, <3>2 DEF TakeTarget, Goto, LeadTypes, ClusterTypes, Place
    <3> QED
      BY <3>1, <3>2
  <2>3. faults' \in 0 .. MaxFaults
    BY <1>5, FaultType DEF TakeTarget, ClusterTypes
  <2>4. ballot' \in Ballots
    <3>1. CASE EndRound(r)
      BY <3>1, EndRoundType
    <3>2. CASE ballot' = [ballot EXCEPT ![r].target = alive]
      BY <3>2 DEF RoundTypes, Ballots
    <3> QED
      BY <1>5, <3>1, <3>2 DEF TakeTarget
  <2> QED
    BY <1>5, <2>1, <2>2, <2>3, <2>4 
    DEF TakeTarget, LeadTypes, ClusterTypes, RoundTypes, Ballots
<1>6. CASE PublishPrepare(r)
  <2> DEFINE n == Min(FreshRounds)
             e == [RoundEvent(r, "prepare") EXCEPT !.round = n]
  <2>1. n \in Round
    BY <1>6, FreshRound DEF PublishPrepare
  <2>2. n \in 0 .. MaxRounds
    BY <2>1, TwoPhaseAssumption DEF Round
  <2>3. e \in Event
    BY <2>2, RoundEventType
  <2>4. inbox' = Deliver(inbox, e) \/ UNCHANGED inbox
    BY <1>6 DEF PublishPrepare
  <2>5. inbox' \in [Replicas -> Seq(Event)]
    <3>1. inbox \in [Replicas -> Seq(Event)]
      BY DEF ClusterTypes
    <3> HIDE DEF e
    <3>2. Deliver(inbox, e) \in [Replicas -> Seq(Event)]
      BY <2>3, <3>1, DeliverType
    <3> QED
      BY <2>4, <3>1, <3>2
  <2>6. LeadTypes(Place)
    <3>1. CASE EndRound(r)
      BY <3>1, EndRoundType
    <3>2. CASE ~EndRound(r)
      BY <1>6, <3>2 DEF PublishPrepare, Goto, LeadTypes, ClusterTypes, Place
    <3> QED
      BY <3>1, <3>2
  <2>7. faults' \in 0 .. MaxFaults
    BY <1>6, FaultType DEF PublishPrepare, ClusterTypes
  <2>8. ballot' \in Ballots
    <3>1. CASE EndRound(r)
      BY <3>1, EndRoundType
    <3>2. CASE ballot' = [ballot EXCEPT ![r].round = n]
      BY <2>2, <3>2 DEF RoundTypes, Ballots
    <3> QED
      BY <1>6, <3>1, <3>2 DEF PublishPrepare
  <2> QED
    BY <1>6, <2>5, <2>6, <2>7, <2>8 
    DEF PublishPrepare, LeadTypes, ClusterTypes, RoundTypes, Ballots
<1> QED
  BY <1>1, <1>2, <1>5, <1>6

\* So do those of the vote and of the decision.
LEMMA VoteTypes ==
    ASSUME TypeInv, NEW r \in Replicas,
           ReadAlive(r) \/ Vote(r) \/ Begin(r) \/ Decide(r) \/ Apply(r)
    PROVE  ClusterTypes(Place)' /\ RoundTypes'
<1> USE DEF TypeInv
<1>1. CASE ReadAlive(r)
  <2>1. ballot' \in Ballots
    BY <1>1 DEF ReadAlive, RoundTypes, Ballots
  <2> QED
    BY <1>1, <2>1 DEF ReadAlive, Goto, ClusterTypes, RoundTypes, Place
<1>2. CASE Vote(r)
  <2>1. ballot' \in Ballots
    BY <1>2 DEF Vote, RoundTypes, Ballots
  <2>2. faults' \in 0 .. MaxFaults
    BY <1>2, FaultType DEF Vote, ClusterTypes
  <2>3. pc' \in [Replicas -> Place]
    <3>1. PICK p \in {"abort", "activate", "vote"} : Goto(r, p)
      BY <1>2 DEF Vote
    <3> QED
      BY <3>1 DEF Goto, ClusterTypes, Place
  <2> QED
    BY <1>2, <2>1, <2>2, <2>3 DEF Vote, ClusterTypes, RoundTypes
<1>3. CASE Begin(r) \/ Decide(r) \/ Apply(r)
  <2>1. HasVersion(r) /\ HasContent(r)
    BY <1>3 DEF Begin, BeginActivate, Decide, CommitActivation, Apply, ApplyStaged, LocalsOK,
       InRound
  <2>2. "abort" \in Place /\ "announce" \in Place /\ "record" \in Place
    BY DEF Place
  <2>3. ClusterTypes(Place)'
    <3>1. CASE Begin(r)
      BY <2>1, <2>2, <3>1, Places, LeaderTypes DEF Begin
    <3>2. CASE Decide(r)
      BY <2>1, <2>2, <3>2, Places, LeaderTypes DEF Decide
    <3>3. CASE Apply(r)
      BY <2>1, <2>2, <3>3, Places, LeaderTypes DEF Apply
    <3> QED
      BY <1>3, <3>1, <3>2, <3>3
  <2> QED
    BY <1>3, <2>3 DEF Begin, Decide, Apply, roundVars, RoundTypes
<1> QED
  BY <1>1, <1>2, <1>3

\* So do those that follow it, or the abort.
LEMMA EndTypes ==
    ASSUME TypeInv, NEW r \in Replicas,
           \/ AnnounceCommit(r) \/ Record(r) \/ AnnounceSync(r)
           \/ AnnounceAbort(r) \/ CheckActive(r) \/ FailRow(r)
    PROVE  ClusterTypes(Place)' /\ RoundTypes'
<1> USE DEF TypeInv
<1>1. CASE AnnounceCommit(r) \/ AnnounceAbort(r)
  <2>1. RoundEvent(r, "commit") \in Event /\ RoundEvent(r, "abort") \in Event
    BY NoRound, RoundEventType
  <2>2. inbox' \in [Replicas -> Seq(Event)] /\ faults' \in 0 .. MaxFaults
    BY <1>1, <2>1, TellType DEF AnnounceCommit, AnnounceAbort
  <2>3. pc' \in [Replicas -> Place]
    <3>1. \E p \in Place : pc' = [pc EXCEPT ![r] = p]
      BY <1>1 DEF AnnounceCommit, AnnounceAbort, Goto, Place
    <3> QED
      BY <3>1 DEF ClusterTypes
  <2> QED
    BY <1>1, <2>2, <2>3
    DEF AnnounceCommit, AnnounceAbort, ClusterTypes, roundVars, RoundTypes
<1>2. CASE Record(r)
  <2>1. HasVersion(r) /\ HasContent(r)
    BY <1>2 DEF Record, LocalsOK, InRound
  <2>2. CacheAndLog(r, job[r].version, job[r].content, "committed") /\ "committed" \in ApplyStatus
    BY <1>2 DEF Record, ApplyStatus
  <2>3. /\ cache' \in Entry \cup {NoEntry}
        /\ applyLog' \in [Replicas -> [Version -> ApplyStatus]]
        /\ faults' \in 0 .. MaxFaults
    BY <2>1, <2>2, CacheAndLogType DEF HasVersion, HasContent
  <2> QED
    BY <1>2, <2>3 DEF Record, Goto, Place, ClusterTypes, roundVars, RoundTypes
<1>3. CASE AnnounceSync(r)
  <2> DEFINE e == [RoundEvent(r, "sync") EXCEPT !.round = 0]
  <2>1. e \in Event /\ Tell(r, e)
    BY <1>3, NoRound, RoundEventType DEF AnnounceSync
  <2>2. LeadTypes(Place) /\ ballot' \in Ballots
    BY <1>3, EndRoundType DEF AnnounceSync
  <2> HIDE DEF e
  <2>3. inbox' \in [Replicas -> Seq(Event)] /\ faults' \in 0 .. MaxFaults
    BY <2>1, TellType
  <2> QED
    BY <1>3, <2>2, <2>3 DEF AnnounceSync, LeadTypes, ClusterTypes, RoundTypes
<1>4. CASE CheckActive(r)
  <2>1. LeadTypes(Place) /\ ballot' \in Ballots
    <3>1. CASE EndRound(r)
      BY <3>1, EndRoundType
    <3>2. CASE Goto(r, "fail_row") /\ UNCHANGED <<lock, job, ballot>>
      BY <3>2 DEF Goto, LeadTypes, ClusterTypes, RoundTypes, Place
    <3> QED
      BY <1>4, <3>1, <3>2 DEF CheckActive
  <2>2. faults' \in 0 .. MaxFaults
    BY <1>4, FaultType DEF CheckActive, ClusterTypes
  <2> QED
    BY <1>4, <2>1, <2>2 DEF CheckActive, LeadTypes, ClusterTypes, RoundTypes
<1>5. CASE FailRow(r)
  <2>1. LeadTypes(Place) /\ ballot' \in Ballots
    BY <1>5, EndRoundType DEF FailRow
  <2>2. rows' \in Table
    BY <1>5, FailType DEF FailRow, ClusterTypes, LocalsOK, InRound, HasVersion
  <2>3. faults' \in 0 .. MaxFaults
    BY <1>5, FaultType DEF FailRow, ClusterTypes
  <2> QED
    BY <1>5, <2>1, <2>2, <2>3 DEF FailRow, LeadTypes, ClusterTypes, RoundTypes
<1> QED
  BY <1>1, <1>2, <1>3, <1>4, <1>5

\* The follower's handlers keep the types.
LEMMA FollowerTypes ==
    ASSUME TypeInv, NEW r \in Replicas, FollowerStep(r)
    PROVE  ClusterTypes(Place)' /\ RoundTypes'
<1> USE DEF TypeInv
<1>1. CASE HandlePrepare(r)
  <2> DEFINE e == Head(inbox[r])
             v == e.version
  <2>1. inbox' \in [Replicas -> Seq(Event)] /\ e \in Event /\ v \in AnyVersion
    BY <1>1, ConsumeType DEF HandlePrepare, Receives, ClusterTypes
  <2>2. e.round \in Round
    <3>1. inbox[r] \in Seq(Event) /\ inbox[r] # <<>> /\ inbox[r][1].action = "prepare"
      BY <1>1 DEF HandlePrepare, Receives, ClusterTypes
    <3>2. inbox[r][1] \in Numbered /\ e = inbox[r][1]
      BY <3>1 DEF BoxesIn
    <3> QED
      BY <3>1, <3>2 DEF Numbered
  <2>3. staged' \in [Replicas -> SUBSET Stage]
    <3>1. CASE UNCHANGED staged
      BY <3>1 DEF RoundTypes
    <3>2. CASE Exists(rows, v) /\ stageFromBytes(r, e.round, v)
      <4> HIDE DEF v, e
      <4> QED
        BY <2>1, <2>2, <3>2, StashType DEF ClusterTypes, RoundTypes, LocalsOK
    <3> QED
      BY <1>1, <3>1, <3>2 DEF HandlePrepare
  <2>4. job' \in [Replicas -> Job]
    <3>1. [job[r] EXCEPT !.version = v] \in Job
      BY <2>1, JobType DEF ClusterTypes
    <3> QED
      BY <1>1, <3>1 DEF HandlePrepare, ClusterTypes
  <2>5. pc' \in [Replicas -> Place] /\ faults' \in 0 .. MaxFaults
    BY <1>1, FaultType DEF HandlePrepare, Goto, ClusterTypes, Place
  <2> QED
    BY <1>1, <2>1, <2>3, <2>4, <2>5 DEF HandlePrepare, ClusterTypes, RoundTypes
<1>2. CASE Answer(r)
  <2>1. applyLog' \in [Replicas -> [Version -> ApplyStatus]]
    BY <1>2, LogType DEF Answer, ClusterTypes, ApplyStatus
  <2>2. faults' \in 0 .. MaxFaults /\ job' \in [Replicas -> Job]
    BY <1>2, FaultType, NothingType DEF Answer, ClusterTypes
  <2> QED
    BY <1>2, <2>1, <2>2 DEF Answer, Goto, Place, ClusterTypes, roundVars, RoundTypes
<1>3. CASE HandleCommit(r)
  <2> DEFINE e == Head(inbox[r])
             v == e.version
  <2>1. inbox' \in [Replicas -> Seq(Event)] /\ v \in AnyVersion
    BY <1>3, ConsumeType DEF HandleCommit, Receives, ClusterTypes
  <2>2. /\ mem' \in [Replicas -> Value] /\ faults' \in 0 .. MaxFaults
        /\ applyLog' \in [Replicas -> [Version -> ApplyStatus]]
    <3>1. ASSUME NEW s \in staged[r], CommitStage(r, s)
          PROVE  /\ mem' \in [Replicas -> Value] /\ faults' \in 0 .. MaxFaults
                 /\ applyLog' \in [Replicas -> [Version -> ApplyStatus]]
      <4>1. s.version \in AnyVersion /\ s.content \in Contents \cup {NoContent}
        BY DEF RoundTypes, Stage, AnyVersion
      <4>2. [version |-> s.version, content |-> s.content] \in Value
        BY <4>1, ValueType
      <4>3. mem' \in [Replicas -> Value]
        BY <3>1, <4>2 DEF CommitStage, ClusterTypes
      <4> QED
        BY <3>1, <4>3, TryLogType, LogType, FaultType DEF CommitStage, ClusterTypes, ApplyStatus
    <3>2. ASSUME CommitStored(r, v)
          PROVE  /\ mem' \in [Replicas -> Value] /\ faults' \in 0 .. MaxFaults
                 /\ applyLog' \in [Replicas -> [Version -> ApplyStatus]]
      <4>1. mem' \in [Replicas -> Value]
        BY <2>1, <3>2, SwapType DEF CommitStored, ClusterTypes
      <4> QED
        BY <3>2, <4>1, TryLogType, LogType, FaultType DEF CommitStored, ClusterTypes, ApplyStatus
    <3> QED
      BY <1>3, <3>1, <3>2 DEF HandleCommit
  <2>3. staged' \in [Replicas -> SUBSET Stage]
    BY <1>3, DropType DEF HandleCommit, RoundTypes
  <2> QED
    BY <1>3, <2>1, <2>2, <2>3 DEF HandleCommit, ClusterTypes, RoundTypes
<1>4. CASE HandleAbort(r)
  <2>1. inbox' \in [Replicas -> Seq(Event)]
    BY <1>4, ConsumeType DEF HandleAbort, Receives, ClusterTypes
  <2>2. staged' \in [Replicas -> SUBSET Stage]
    BY <1>4, DropType DEF HandleAbort, RoundTypes
  <2> QED
    BY <1>4, <2>1, <2>2 DEF HandleAbort, ClusterTypes, RoundTypes
<1> QED
  BY <1>1, <1>2, <1>3, <1>4 DEF FollowerStep

\* Every step keeps the types of the variables.
LEMMA TypeStep ==
    ASSUME TypeInv, Next
    PROVE  ClusterTypes(Place)' /\ RoundTypes'
<1> USE DEF TypeInv
<1>1. TailHolds
  BY DEF LocalsOK, TailHolds
<1>2. ASSUME NEW r \in Replicas, Shared(r) PROVE ClusterTypes(Place)' /\ RoundTypes'
  <2>1. ClusterTypes(Place)'
    BY <1>1, <1>2, Places, SharedTypes DEF Shared, LocalsOK
  <2> QED
    BY <1>2, <2>1 DEF Shared, RoundTypes
<1>3. ASSUME NEW r \in Replicas, Tick(r) PROVE ClusterTypes(Place)' /\ RoundTypes'
  <2>1. SharedStep(r)
    BY <1>3 DEF Tick, SharedStep
  <2>2. ClusterTypes(Place)'
    BY <1>1, <2>1, Places, SharedTypes DEF LocalsOK
  <2> QED
    BY <1>3, <2>2, DropType DEF Tick, RoundTypes
<1>4. ASSUME NEW r \in Replicas, Register(r) \/ Heartbeat(r) \/ Expire(r)
      PROVE  ClusterTypes(Place)' /\ RoundTypes'
  <2>1. faults' \in 0 .. MaxFaults
    BY <1>4, FaultType DEF Register, Heartbeat, Expire, vars, ClusterTypes
  <2> QED
    BY <1>4, <2>1 DEF Register, Heartbeat, Expire, vars, ClusterTypes, RoundTypes
<1>5. ASSUME NEW r \in Replicas, Die(r) PROVE ClusterTypes(Place)' /\ RoundTypes'
  <2>1. ClusterTypes(Place)'
    BY <1>5, Places, CrashTypes DEF Die
  <2>2. NoBallot \in [round : 0 .. MaxRounds, target : SUBSET Replicas,
                      live : SUBSET Replicas]
    BY NoRound DEF NoBallot
  <2> QED
    BY <1>5, <2>1, <2>2 DEF Die, RoundTypes, Ballots
<1>6. ASSUME Environment, UNCHANGED roundVars PROVE ClusterTypes(Place)' /\ RoundTypes'
  BY <1>6, EnvironmentTypes DEF roundVars, RoundTypes
<1>7. ASSUME NEW r \in Replicas, LeaderStep(r) PROVE ClusterTypes(Place)' /\ RoundTypes'
  BY <1>7, PrepareTypes, VoteTypes, EndTypes DEF LeaderStep
<1> QED
  BY <1>2, <1>3, <1>4, <1>5, <1>6, <1>7, FollowerTypes DEF Next

----------------------------------------------------------------------------
\* Where a step of this mode takes a goroutine.

\* The leader cycle goes on with its version and its content.
LeaderMoves ==
    {<<"save", "reset">>, <<"reset", "target">>, <<"target", "prepare">>,
     <<"prepare", "vote">>, <<"vote", "count">>, <<"count", "vote">>,
     <<"count", "abort">>, <<"count", "activate">>,
     <<"activate", "commit_activation">>, <<"activate", "abort">>,
     <<"commit_activation", "announce">>, <<"commit_activation", "abort">>,
     <<"announce", "apply">>, <<"apply", "record">>, <<"record", "fallback">>,
     <<"abort", "abort_check">>, <<"abort_check", "fail_row">>}
Proceeds(r) ==
    /\ <<pc[r], pc'[r]>> \in LeaderMoves
    /\ job'[r].version = job[r].version /\ job'[r].content = job[r].content
Ends(r) == pc'[r] \in {"idle", "probe"}

\* A leader's step ends its cycle or goes on with it, and concerns only itself.
LEMMA LeaderGoes ==
    ASSUME ClusterTypes(Place), NEW r \in Replicas, LeaderStep(r)
    PROVE  /\ Ends(r) \/ Proceeds(r)
           /\ pc[r] \in InRound \cup Preparing
           /\ mem'[r] = mem[r] \/ Apply(r)
<1>1. ASSUME NEW place, Goto(r, place) PROVE pc'[r] = place
  BY <1>1 DEF Goto, ClusterTypes
<1>2. EndCycle(r) => Ends(r)
  BY CycleRests DEF Ends
<1>3. EndRound(r) => Ends(r)
  BY <1>2 DEF EndRound
<1>4. CASE Save(r) \/ ResetApplyLog(r) \/ TakeTarget(r) \/ PublishPrepare(r)
  BY <1>1, <1>2, <1>3, <1>4
  DEF Save, SavePending, ResetApplyLog, TakeTarget, PublishPrepare, Proceeds, LeaderMoves,
      InRound, Preparing
<1>5. CASE ReadAlive(r) \/ Vote(r)
  BY <1>1, <1>5 DEF ReadAlive, Vote, Proceeds, LeaderMoves, InRound
<1>6. CASE Begin(r)
  <2>1. job'[r].version = job[r].version /\ job'[r].content = job[r].content
    BY <1>6 DEF Begin, BeginActivate, ClusterTypes, Job
  <2> QED
    BY <1>1, <1>6, <2>1 DEF Begin, BeginActivate, Proceeds, LeaderMoves, InRound
<1>7. CASE Decide(r) \/ AnnounceCommit(r) \/ Record(r) \/ AnnounceAbort(r)
  BY <1>1, <1>7 DEF Decide, CommitActivation, AnnounceCommit, Record, AnnounceAbort,
     Proceeds, LeaderMoves, InRound
<1>8. CASE Apply(r)
  BY <1>1, <1>8 DEF Apply, ApplyStaged, Proceeds, LeaderMoves, InRound
<1>9. CASE AnnounceSync(r) \/ CheckActive(r) \/ FailRow(r)
  BY <1>1, <1>3, <1>9 DEF AnnounceSync, CheckActive, FailRow, Proceeds, LeaderMoves, InRound
<1> QED
  BY <1>4, <1>5, <1>6, <1>7, <1>8, <1>9 DEF LeaderStep

\* A step of one replica leaves the goroutine and the round of another alone.
LEMMA OthersKept ==
    ASSUME ClusterTypes(Place), RoundTypes, NEW r \in Replicas, NEW q \in Replicas \ {r},
           Shared(r) \/ Tick(r) \/ LeaderStep(r) \/ FollowerStep(r) \/ Register(r)
              \/ Expire(r) \/ Heartbeat(r) \/ Die(r)
    PROVE  /\ Stays(q) /\ mem'[q] = mem[q]
           /\ ballot'[q] = ballot[q] /\ staged'[q] = staged[q]
<1>1. CASE Shared(r)
  <2>1. SharedStep(r) /\ UNCHANGED <<staged, ballot>>
    BY <1>1 DEF Shared
  <2> QED
    BY <2>1, SharedOthers
<1>2. CASE Tick(r)
  <2>1. SharedStep(r)
    BY <1>2 DEF Tick, SharedStep
  <2>2. ballot'[q] = ballot[q] /\ staged'[q] = staged[q]
    BY <1>2 DEF Tick, dropExpiredStages, RoundTypes
  <2> QED
    BY <2>1, <2>2, SharedOthers
<1>3. CASE Die(r)
  <2>1. Crash(r) /\ ballot'[q] = ballot[q] /\ staged'[q] = staged[q]
    BY <1>3 DEF Die, RoundTypes, Ballots
  <2> QED
    BY <2>1, SharedOthers
<1>4. CASE Register(r) \/ Expire(r) \/ Heartbeat(r)
  BY <1>4 DEF Register, Expire, Heartbeat, vars, Stays
<1>5. CASE LeaderStep(r)
  <2> USE DEF ClusterTypes, RoundTypes, Ballots, Stays, Goto, EndCycle, EndRound, roundVars
  <2>1. CASE Save(r) \/ ResetApplyLog(r) \/ TakeTarget(r) \/ PublishPrepare(r)
    BY <2>1 DEF Save, SavePending, ResetApplyLog, TakeTarget, PublishPrepare
  <2>2. CASE ReadAlive(r) \/ Vote(r) \/ Begin(r) \/ Decide(r)
    BY <2>2 DEF ReadAlive, Vote, Begin, BeginActivate, Decide, CommitActivation
  <2>3. CASE AnnounceCommit(r) \/ Apply(r) \/ Record(r) \/ AnnounceSync(r)
    BY <2>3 DEF AnnounceCommit, Apply, ApplyStaged, Record, AnnounceSync
  <2>4. CASE AnnounceAbort(r) \/ CheckActive(r) \/ FailRow(r)
    BY <2>4 DEF AnnounceAbort, CheckActive, FailRow
  <2> QED
    BY <1>5, <2>1, <2>2, <2>3, <2>4 DEF LeaderStep
<1>6. CASE FollowerStep(r)
  <2> USE DEF ClusterTypes, RoundTypes, Stays, Goto
  <2>1. CASE HandlePrepare(r)
    BY <2>1 DEF HandlePrepare, stageFromBytes, Stash
  <2>2. CASE Answer(r)
    BY <2>2 DEF Answer, roundVars
  <2>3. CASE HandleCommit(r)
    BY <2>3 DEF HandleCommit, CommitStage, CommitStored, Swap, DropStage
  <2>4. CASE HandleAbort(r)
    BY <2>4 DEF HandleAbort, DropStage
  <2> QED
    BY <1>6, <2>1, <2>2, <2>3, <2>4 DEF FollowerStep
<1> QED
  BY <1>1, <1>2, <1>3, <1>4, <1>5, <1>6

\* A follower's handler answers next, has answered, or is done at once.
LEMMA FollowerGoes ==
    ASSUME TypeInv, NEW r \in Replicas, FollowerStep(r)
    PROVE  /\ \/ Stays(r) /\ pc[r] = "idle"
              \/ pc'[r] \in {"idle", "vote_no"}
              \/ pc'[r] = "vote_yes" /\ job'[r].version \in Version
           /\ pc[r] \in {"idle", "vote_yes", "vote_no"}
           /\ mem'[r] = mem[r] \/ HandleCommit(r)
<1>1. ASSUME NEW place, Goto(r, place) PROVE pc'[r] = place
  BY <1>1 DEF Goto, TypeInv, ClusterTypes
<1>2. CASE HandlePrepare(r)
  <2>1. pc[r] = "idle" /\ mem'[r] = mem[r]
    BY <1>2 DEF HandlePrepare, Receives
  <2>2. CASE Goto(r, "vote_no")
    BY <1>1, <2>1, <2>2
  <2>3. CASE ~Goto(r, "vote_no")
    <3> DEFINE v == Head(inbox[r]).version
    <3>1. /\ Exists(rows, v) /\ Loads(r, v) /\ Goto(r, "vote_yes")
          /\ job' = [job EXCEPT ![r] = [job[r] EXCEPT !.version = v]]
      BY <1>2, <2>3 DEF HandlePrepare, stageFromBytes
    <3>2. v \in AnyVersion
      BY <1>2, ConsumeType DEF HandlePrepare, Receives, TypeInv, ClusterTypes
    <3>3. job'[r].version = v
      BY <3>1, JobFields DEF TypeInv, ClusterTypes
    <3> QED
      BY <1>1, <2>1, <3>1, <3>2, <3>3 DEF Loads, AnyVersion
  <2> QED
    BY <2>2, <2>3
<1>3. CASE Answer(r)
  BY <1>1, <1>3 DEF Answer
<1>4. CASE HandleCommit(r) \/ HandleAbort(r)
  BY <1>4 DEF HandleCommit, HandleAbort, Receives, Stays
<1> QED
  BY <1>2, <1>3, <1>4 DEF FollowerStep

\* Where a step leaves the goroutine of q.
Goes(q) ==
    \/ Stays(q)
    \/ pc'[q] \in Resting \cup {"down", "vote_no"}
    \/ Picks(q) \/ Holds(q) \/ Rereads(q) \/ Proceeds(q)
    \/ pc'[q] = "vote_yes" /\ job'[q].version \in Version

\* Every step leaves it in one of these ways.
LEMMA GoesCases ==
    ASSUME TypeInv, Next, NEW q \in Replicas
    PROVE  Goes(q)
<1> USE DEF TypeInv
<1>1. ASSUME SharedStep(q) PROVE Goes(q)
  BY <1>1, SharedGoes DEF Goes, LocalsOK
<1>2. ASSUME Shared(q) \/ Tick(q) PROVE Goes(q)
  BY <1>1, <1>2 DEF Shared, Tick, SharedStep
<1>3. ASSUME LeaderStep(q) PROVE Goes(q)
  BY <1>3, LeaderGoes DEF Goes, Ends, Resting
<1>4. ASSUME FollowerStep(q) PROVE Goes(q)
  BY <1>4, FollowerGoes DEF Goes, Resting
<1>5. ASSUME Register(q) \/ Expire(q) \/ Heartbeat(q) PROVE Goes(q)
  BY <1>5 DEF Register, Expire, Heartbeat, vars, Goes, Stays
<1>6. ASSUME Die(q) PROVE Goes(q)
  BY <1>6 DEF Die, Crash, Goto, ClusterTypes, Goes
<1>7. ASSUME NEW r \in Replicas \ {q},
             Shared(r) \/ Tick(r) \/ LeaderStep(r) \/ FollowerStep(r) \/ Register(r)
                \/ Expire(r) \/ Heartbeat(r) \/ Die(r)
      PROVE  Goes(q)
  BY <1>7, OthersKept DEF Goes
<1>8. ASSUME Environment PROVE Goes(q)
  BY <1>8, EnvironmentKeeps DEF Goes, Stays
<1> QED
  BY <1>2, <1>3, <1>4, <1>5, <1>6, <1>7, <1>8 DEF Next

\* What the local variables hold at each place, after a step.
LEMMA LocalsStep ==
    ASSUME TypeInv, Next, Payloads'
    PROVE  LocalsOK'
<1> SUFFICES ASSUME NEW q \in Replicas
             PROVE  /\ pc'[q] \in InRound \cup Preparing \cup Tails \cup {"stage", "vote_yes"}
                          => job'[q].version \in Version
                    /\ pc'[q] \in InRound \cup Preparing \cup Tails
                          => job'[q].content \in Contents
  BY DEF LocalsOK, HasVersion, HasContent
<1> USE DEF TypeInv, LocalsOK, InRound, Preparing, Tails
<1>1. CASE Stays(q)
  BY <1>1 DEF Stays, HasVersion, HasContent
<1>2. CASE pc'[q] \in Resting \cup {"down", "vote_no"}
  BY <1>2 DEF Resting
<1>3. CASE Picks(q)
  BY <1>3 DEF Picks
<1>4. CASE Holds(q)
  BY <1>4 DEF Holds, HasVersion
<1>5. CASE Rereads(q)
  BY <1>5 DEF Rereads, ActiveVersions
<1>6. CASE Proceeds(q)
  BY <1>6 DEF Proceeds, LeaderMoves, HasVersion, HasContent
<1>7. CASE pc'[q] = "vote_yes" /\ job'[q].version \in Version
  BY <1>7
<1> QED
  BY <1>1, <1>2, <1>3, <1>4, <1>5, <1>6, <1>7, GoesCases DEF Goes

\* What a leader broadcasts at which place.
Tells(r, a, n) ==
    /\ inbox' = Deliver(inbox, Message(r, a, n))
    /\ \/ /\ a = "prepare" /\ PublishPrepare(r)
          /\ n = Min(FreshRounds) /\ n \in Round
       \/ a = "commit" /\ pc[r] = "announce" /\ n = ballot[r].round
       \/ a = "abort" /\ pc[r] = "abort" /\ n = ballot[r].round
       \/ a = "sync" /\ pc[r] = "fallback" /\ n = 0

\* A step of a leader broadcasts one of them, or nothing.
LEMMA LeaderTells ==
    ASSUME TypeInv, NEW r \in Replicas, LeaderStep(r)
    PROVE  UNCHANGED inbox \/ \E a \in {"prepare", "commit", "abort", "sync"},
                                 n \in 0 .. MaxRounds : Tells(r, a, n)
<1> USE DEF TypeInv
<1>1. CASE PublishPrepare(r)
  <2> DEFINE n == Min(FreshRounds)
  <2>1. n \in Round /\ n \in 0 .. MaxRounds
    BY <1>1, FreshRound, TwoPhaseAssumption DEF PublishPrepare, Round
  <2>2. UNCHANGED inbox \/ inbox' = Deliver(inbox, [RoundEvent(r, "prepare") EXCEPT !.round = n])
    BY <1>1 DEF PublishPrepare
  <2> HIDE DEF n
  <2>3. [RoundEvent(r, "prepare") EXCEPT !.round = n] = Message(r, "prepare", n)
    BY <2>1, RoundEventType
  <2> QED
    BY <1>1, <2>1, <2>2, <2>3 DEF Tells, n
<1>2. CASE AnnounceCommit(r)
  BY <1>2 DEF AnnounceCommit, Tell, RoundEvent, Message, Tells, RoundTypes, Ballots
<1>3. CASE AnnounceAbort(r)
  BY <1>3 DEF AnnounceAbort, Tell, RoundEvent, Message, Tells, RoundTypes, Ballots
<1>4. CASE AnnounceSync(r)
  <2>1. [RoundEvent(r, "sync") EXCEPT !.round = 0] = Message(r, "sync", 0)
    BY NoRound, RoundEventType
  <2> QED
    BY <1>4, <2>1, NoRound DEF AnnounceSync, Tell, Tells
<1>5. CASE \/ Save(r) \/ ResetApplyLog(r) \/ TakeTarget(r) \/ ReadAlive(r) \/ Vote(r)
           \/ Begin(r) \/ Decide(r) \/ Apply(r) \/ Record(r) \/ CheckActive(r) \/ FailRow(r)
  BY <1>5 DEF Save, SavePending, ResetApplyLog, TakeTarget, ReadAlive, Vote, Begin,
     BeginActivate, Decide, CommitActivation, Apply, ApplyStaged, Record, CheckActive, FailRow
<1> QED
  BY <1>1, <1>2, <1>3, <1>4, <1>5 DEF LeaderStep

\* A follower takes an event off its buffer, or none.
LEMMA FollowerConsumes ==
    ASSUME NEW r \in Replicas, FollowerStep(r)
    PROVE  UNCHANGED inbox \/ (inbox[r] # <<>> /\ Consume(r))
BY DEF FollowerStep, HandlePrepare, Answer, HandleCommit, HandleAbort, Receives

\* The events that a step may add: the operator's, and what a leader tells.
LEMMA BoxStep ==
    ASSUME TypeInv, Next, NEW q \in Replicas, NEW i \in 1 .. Len(inbox'[q])
    PROVE  \/ Held(q, inbox'[q][i])
           \/ inbox'[q][i] = RollbackEvent
           \/ \E r \in Replicas, a \in {"prepare", "commit", "abort", "sync"},
                 n \in 0 .. MaxRounds :
                    /\ Tells(r, a, n)
                    /\ inbox'[q][i] = Message(r, a, n)
<1>1. inbox \in [Replicas -> Seq(Event)]
  BY DEF TypeInv, ClusterTypes
<1>2. CASE UNCHANGED inbox
  BY <1>2 DEF Held
<1>3. CASE Environment \/ \E r \in Replicas : Shared(r) \/ Tick(r) \/ Die(r)
  BY <1>1, <1>3, SharedBox DEF Shared, Tick, Die, SharedStep
<1>4. ASSUME NEW r \in Replicas, FollowerStep(r), ~UNCHANGED inbox
      PROVE  Held(q, inbox'[q][i])
  BY <1>1, <1>4, FollowerConsumes, ConsumeBox
<1>5. ASSUME NEW r \in Replicas, NEW a \in {"prepare", "commit", "abort", "sync"},
             NEW n \in 0 .. MaxRounds, Tells(r, a, n)
      PROVE  \/ Held(q, inbox'[q][i])
             \/ inbox'[q][i] = Message(r, a, n)
  <2>1. inbox' = Deliver(inbox, Message(r, a, n))
    BY <1>5 DEF Tells
  <2>2. Message(r, a, n) \in Event
    BY RoundEventType DEF TypeInv
  <2> QED
    BY <1>1, <2>1, <2>2, DeliverBox
<1>6. ASSUME NEW r \in Replicas, Register(r) \/ Expire(r) \/ Heartbeat(r)
      PROVE  UNCHANGED inbox
  BY <1>6 DEF Register, Expire, Heartbeat, vars
<1>7. CASE \E r \in Replicas : LeaderStep(r)
  BY <1>2, <1>5, <1>7, LeaderTells
<1> QED
  BY <1>2, <1>3, <1>4, <1>6, <1>7 DEF Next

\* So what buffers hold stays among the events that these are.
LEMMA BoxesStep ==
    ASSUME TypeInv, Next, NEW events, BoxesIn(inbox, events), RollbackEvent \in events,
           \A r \in Replicas, a \in {"prepare", "commit", "abort", "sync"},
              n \in 0 .. MaxRounds :
                 Tells(r, a, n) => Message(r, a, n) \in events
    PROVE  BoxesIn(inbox', events)
<1> SUFFICES ASSUME NEW q \in Replicas, NEW i \in 1 .. Len(inbox'[q])
             PROVE  inbox'[q][i] \in events
  BY DEF BoxesIn
<1>1. Held(q, inbox'[q][i]) => inbox'[q][i] \in events
  BY DEF Held, BoxesIn
<1>2. ASSUME NEW r \in Replicas, NEW a \in {"prepare", "commit", "abort", "sync"},
             NEW n \in 0 .. MaxRounds, Tells(r, a, n),
             inbox'[q][i] = Message(r, a, n)
      PROVE  inbox'[q][i] \in events
  BY <1>2
<1> QED
  BY <1>1, <1>2, BoxStep

\* Prepare events name their round.
LEMMA NumberedStep ==
    ASSUME TypeInv, Next
    PROVE  BoxesIn(inbox', Numbered)
<1>1. RollbackEvent \in Numbered
  BY EventType DEF RollbackEvent, Numbered, AnyVersion
<1>2. ASSUME NEW r \in Replicas, NEW a \in {"prepare", "commit", "abort", "sync"},
             NEW n \in 0 .. MaxRounds, Tells(r, a, n)
      PROVE  Message(r, a, n) \in Numbered
  <2>1. job[r].version \in AnyVersion /\ n \in Nat
    BY TwoPhaseAssumption DEF TypeInv, ClusterTypes, Job
  <2> QED
    BY <1>2, <2>1, EventType DEF Numbered, Tells, Message
<1> QED
  BY <1>1, <1>2, BoxesStep DEF TypeInv

----------------------------------------------------------------------------
\* The table.

\* The ways in which it changes, beside a flip and what retention prunes: the
\* row is saved, its activation commits, or it is marked failed.
Saves(r) ==
    /\ pc[r] = "save" /\ Save(r) /\ job[r].version \in Version /\ job[r].content \in Contents
    /\ rows' = SaveSnapshot(rows, job[r].version, job[r].content)
    /\ UNCHANGED <<decided, mem>>
Decides(r) ==
    /\ pc[r] = "commit_activation" /\ Decide(r)
    /\ job[r].version \in Version /\ Exists(rows, job[r].version)
    /\ rows' = ActivateSnapshot(rows, job[r].demote, job[r].version)
    /\ decided' = decided \cup {job[r].version}
    /\ UNCHANGED mem
Fails(r) ==
    /\ pc[r] = "fail_row" /\ FailRow(r) /\ job[r].version \in Version
    /\ rows' = FailSnapshot(rows, job[r].version)
    /\ UNCHANGED <<decided, mem>>
Prunes(r) ==
    /\ Retention /\ SharedStep(r) /\ \E old : rows' = DeleteOldSnapshots(rows, old)
    /\ ActiveVersions(rows') = ActiveVersions(rows)
    /\ UNCHANGED decided

\* Every other step leaves the table alone.
LEMMA TableCases ==
    ASSUME TypeInv, Next
    PROVE  \/ UNCHANGED <<rows, decided>>
           \/ \E r \in Replicas : Saves(r) \/ Decides(r) \/ Fails(r) \/ Prunes(r)
           \/ (\E v \in Version : Flip(v)) /\ UNCHANGED decided
<1> USE DEF TypeInv
<1>1. ASSUME NEW r \in Replicas, Shared(r) \/ Tick(r)
      PROVE  UNCHANGED <<rows, decided>> \/ Prunes(r)
  <2>1. SharedStep(r)
    BY <1>1 DEF Shared, Tick, SharedStep
  <2> QED
    BY <2>1, SharedRows DEF Prunes, ClusterTypes
<1>2. ASSUME NEW r \in Replicas, Save(r) PROVE Saves(r)
  <2>1. SavePending(r, "reset")
    BY <1>2 DEF Save
  <2>2. HasVersion(r) /\ HasContent(r)
    BY <2>1 DEF SavePending, LocalsOK, Preparing
  <2> QED
    BY <1>2, <2>1, <2>2 DEF SavePending, HasVersion, HasContent, Saves
<1>3. ASSUME NEW r \in Replicas, Decide(r) PROVE UNCHANGED <<rows, decided>> \/ Decides(r)
  <2>1. CommitActivation(r, "announce", "abort")
    BY <1>3 DEF Decide
  <2>2. HasVersion(r)
    BY <2>1 DEF CommitActivation, LocalsOK, InRound
  <2> QED
    BY <1>3, <2>1, <2>2 DEF CommitActivation, HasVersion, Decides
<1>4. ASSUME NEW r \in Replicas, FailRow(r) PROVE UNCHANGED <<rows, decided>> \/ Fails(r)
  <2>1. HasVersion(r)
    BY <1>4 DEF FailRow, LocalsOK, InRound
  <2> QED
    BY <1>4, <2>1 DEF FailRow, HasVersion, Fails
<1>5. ASSUME NEW r \in Replicas, LeaderStep(r), ~Save(r), ~Decide(r), ~FailRow(r)
      PROVE  UNCHANGED <<rows, decided>>
  BY <1>5 DEF LeaderStep, ResetApplyLog, TakeTarget, PublishPrepare, ReadAlive, Vote,
     Begin, BeginActivate, AnnounceCommit, Apply, ApplyStaged, Record, AnnounceSync,
     AnnounceAbort, CheckActive
<1>6. ASSUME NEW r \in Replicas,
             FollowerStep(r) \/ Register(r) \/ Expire(r) \/ Heartbeat(r) \/ Die(r)
      PROVE  UNCHANGED <<rows, decided>>
  BY <1>6 DEF FollowerStep, HandlePrepare, Answer, HandleCommit, HandleAbort, Register,
     Expire, Heartbeat, Die, Crash, vars
<1>7. ASSUME Environment
      PROVE  UNCHANGED <<rows, decided>> \/ ((\E v \in Version : Flip(v)) /\ UNCHANGED decided)
  BY <1>7, EnvironmentKeeps
<1> QED
  BY <1>1, <1>2, <1>3, <1>4, <1>5, <1>6, <1>7 DEF Next

\* What was decided only grows, and the table keeps its payloads.
LEMMA RowsStep ==
    ASSUME TypeInv, ActiveDecided, Next
    PROVE  Payloads' /\ ActiveDecided' /\ decided \subseteq decided'
<1> USE DEF TypeInv
<1>1. rows \in Table /\ Payloads
  BY DEF ClusterTypes, LocalsOK
<1>2. decided \subseteq decided'
  BY TableCases DEF Saves, Decides, Fails, Prunes
<1>3. CASE UNCHANGED rows
  BY <1>2, <1>3 DEF LocalsOK, Payloads, ActiveDecided, Exists
<1>4. ASSUME NEW r \in Replicas, Saves(r) PROVE Payloads' /\ ActiveDecided'
  BY <1>1, <1>2, <1>4, RowsKept DEF Saves
<1>5. ASSUME NEW r \in Replicas, Decides(r) PROVE Payloads' /\ ActiveDecided'
  <2>1. job[r].version \in decided'
    BY <1>5 DEF Decides
  <2> QED
    BY <1>1, <1>2, <1>5, <2>1, RowsKept DEF Decides
<1>6. ASSUME NEW r \in Replicas, Fails(r) PROVE Payloads' /\ ActiveDecided'
  BY <1>1, <1>2, <1>6, RowsKept DEF Fails
<1>7. ASSUME NEW r \in Replicas, Prunes(r) PROVE Payloads' /\ ActiveDecided'
  BY <1>1, <1>2, <1>7, RowsKept DEF Prunes
<1>8. ASSUME NEW v \in Version, Flip(v), UNCHANGED decided PROVE Payloads' /\ ActiveDecided'
  <2>1. /\ rows' = ActivateSnapshot(rows, ActiveVersions(rows), v)
        /\ Exists(rows, v) /\ v \in decided'
    BY <1>1, <1>8, FlipDecides
  <2> QED
    BY <1>1, <1>2, <2>1, RowsKept
<1> QED
  BY <1>2, <1>3, <1>4, <1>5, <1>6, <1>7, <1>8, TableCases

----------------------------------------------------------------------------
\* Rounds.  An ID is used again once nothing refers to it, so that all who refer
\* to one mean the same version.

\* A leader has a round exactly while it is in one.
BallotInv ==
    \A r \in Replicas :
        /\ pc[r] \in InRound => ballot[r].round \in Round
        /\ pc[r] \notin InRound => ballot[r].round = 0

\* A step leaves q outside of a round, goes on with its round, or opens one.
Outside(q) == pc'[q] \notin InRound /\ ballot'[q].round = 0
Within(q) ==
    /\ pc[q] \in InRound /\ pc'[q] \in InRound
    /\ ballot'[q].round = ballot[q].round /\ job'[q].version = job[q].version
Opens(q) ==
    /\ PublishPrepare(q)
    /\ ballot'[q].round = Min(FreshRounds) /\ ballot'[q].round \in Round
    /\ pc'[q] = "vote" /\ job'[q].version = job[q].version

\* A leader's step does one of them.
LEMMA LeaderRound ==
    ASSUME TypeInv, BallotInv, NEW q \in Replicas, LeaderStep(q)
    PROVE  Outside(q) \/ Within(q) \/ Opens(q)
<1>1. ballot \in Ballots /\ ballot[q].round \in 0 .. MaxRounds
  BY DEF TypeInv, RoundTypes, Ballots
<1>2. /\ Ends(q) => pc'[q] \notin InRound
      /\ Proceeds(q) => job'[q].version = job[q].version
  BY DEF Ends, Proceeds, InRound
<1>3. ASSUME EndRound(q) PROVE Outside(q)
  <2>1. pc'[q] \in {"idle", "probe"}
    BY <1>3, CycleRests DEF EndRound, TypeInv
  <2>2. ballot'[q].round = 0
    BY <1>1, <1>3 DEF EndRound, NoBallot, Ballots
  <2> QED
    BY <2>1, <2>2 DEF Outside, InRound
<1>4. Ends(q) \/ Proceeds(q)
  BY LeaderGoes DEF TypeInv
<1>5. CASE Save(q) \/ ResetApplyLog(q)
  <2>1. pc[q] \in {"save", "reset"} /\ UNCHANGED ballot
    BY <1>5 DEF Save, SavePending, ResetApplyLog, roundVars
  <2>2. pc'[q] \notin InRound
    BY <1>2, <1>4, <2>1 DEF Proceeds, LeaderMoves, InRound
  <2> QED
    BY <2>1, <2>2 DEF Outside, BallotInv, InRound
<1>6. CASE TakeTarget(q)
  <2>1. CASE EndRound(q)
    BY <1>3, <2>1
  <2>2. CASE Goto(q, "prepare") /\ ballot' = [ballot EXCEPT ![q].target = alive]
    <3>1. ballot'[q].round = ballot[q].round /\ pc[q] = "target" /\ pc'[q] = "prepare"
      BY <1>1, <1>6, <2>2 DEF Ballots, TakeTarget, Goto, TypeInv, ClusterTypes
    <3> QED
      BY <3>1 DEF Outside, BallotInv, InRound
  <2> QED
    BY <1>6, <2>1, <2>2 DEF TakeTarget
<1>7. CASE PublishPrepare(q)
  <2>1. CASE EndRound(q)
    BY <1>3, <2>1
  <2>2. CASE ~EndRound(q)
    <3>1. ballot' = [ballot EXCEPT ![q].round = Min(FreshRounds)] /\ Goto(q, "vote")
      BY <1>7, <2>2 DEF PublishPrepare
    <3>2. ballot'[q].round = Min(FreshRounds) /\ pc'[q] = "vote"
      BY <1>1, <3>1 DEF Ballots, Goto, TypeInv, ClusterTypes
    <3>3. Min(FreshRounds) \in Round
      BY <1>7, FreshRound DEF PublishPrepare
    <3>4. UNCHANGED job
      BY <1>7, <2>2 DEF PublishPrepare
    <3> QED
      BY <1>7, <3>2, <3>3, <3>4 DEF Opens
  <2> QED
    BY <2>1, <2>2
<1>8. CASE ReadAlive(q) \/ Vote(q)
  <2>1. ballot'[q].round = ballot[q].round
    BY <1>1, <1>8 DEF ReadAlive, Vote, Ballots
  <2>2. pc[q] \in {"vote", "count"} /\ UNCHANGED job
    BY <1>8 DEF ReadAlive, Vote
  <2>3. pc'[q] \in {"vote", "count", "abort", "activate"}
    BY <1>8 DEF ReadAlive, Vote, Goto, TypeInv, ClusterTypes
  <2> QED
    BY <2>1, <2>2, <2>3 DEF Within, InRound
<1>9. CASE \/ Begin(q) \/ Decide(q) \/ AnnounceCommit(q) \/ Apply(q) \/ Record(q)
           \/ AnnounceAbort(q)
  <2>1. UNCHANGED ballot
    BY <1>9 DEF Begin, Decide, AnnounceCommit, Apply, Record, AnnounceAbort, roundVars
  <2>2. pc[q] \in {"activate", "commit_activation", "announce", "apply", "record", "abort"}
    BY <1>9 DEF Begin, BeginActivate, Decide, CommitActivation, AnnounceCommit, Apply,
       ApplyStaged, Record, AnnounceAbort
  <2>3. \E place \in InRound : Goto(q, place)
    BY <1>9 DEF Begin, BeginActivate, Decide, CommitActivation, AnnounceCommit, Apply,
       ApplyStaged, Record, AnnounceAbort, InRound
  <2>4. pc'[q] \in InRound
    BY <2>3 DEF Goto, TypeInv, ClusterTypes
  <2>5. Proceeds(q)
    BY <1>2, <1>4, <2>4
  <2> QED
    BY <1>2, <2>1, <2>2, <2>4, <2>5 DEF Within, InRound
<1>10. CASE AnnounceSync(q) \/ FailRow(q)
  BY <1>3, <1>10 DEF AnnounceSync, FailRow
<1>11. CASE CheckActive(q)
  <2>1. CASE EndRound(q)
    BY <1>3, <2>1
  <2>2. CASE Goto(q, "fail_row") /\ UNCHANGED <<job, ballot>>
    BY <1>11, <2>2 DEF CheckActive, Goto, TypeInv, ClusterTypes, Within, InRound
  <2> QED
    BY <1>11, <2>1, <2>2 DEF CheckActive
<1> QED
  BY <1>5, <1>6, <1>7, <1>8, <1>9, <1>10, <1>11 DEF LeaderStep

\* So does every step.
LEMMA RoundCases ==
    ASSUME TypeInv, BallotInv, Next, NEW q \in Replicas
    PROVE  Outside(q) \/ Within(q) \/ Opens(q)
<1>1. ASSUME Stays(q), ballot'[q] = ballot[q] PROVE Outside(q) \/ Within(q)
  BY <1>1 DEF Stays, BallotInv, Outside, Within
<1>2. ASSUME pc[q] \notin InRound, pc'[q] \notin InRound, ballot'[q] = ballot[q]
      PROVE  Outside(q)
  BY <1>2 DEF BallotInv, Outside
<1>3. ASSUME SharedStep(q), UNCHANGED ballot PROVE Outside(q)
  <2>1. pc[q] \notin InRound
    BY <1>3, SharedFrom DEF SharedPlace, InRound
  <2>2. pc'[q] \notin InRound
    BY <1>3, <2>1, SharedGoes
    DEF Stays, Resting, Picks, Holds, Rereads, InRound, TypeInv, LocalsOK
  <2> QED
    BY <1>2, <1>3, <2>1, <2>2
<1>4. ASSUME Shared(q) \/ Tick(q) PROVE Outside(q)
  BY <1>3, <1>4 DEF Shared, Tick, SharedStep
<1>5. ASSUME FollowerStep(q) PROVE Outside(q) \/ Within(q)
  <2>1. UNCHANGED ballot
    BY <1>5 DEF FollowerStep, HandlePrepare, Answer, HandleCommit, HandleAbort, roundVars
  <2>2. pc[q] \notin InRound /\ (Stays(q) \/ pc'[q] \notin InRound)
    BY <1>5, FollowerGoes DEF InRound
  <2> QED
    BY <1>1, <1>2, <2>1, <2>2
<1>6. ASSUME Register(q) \/ Expire(q) \/ Heartbeat(q) PROVE Outside(q) \/ Within(q)
  BY <1>1, <1>6 DEF Register, Expire, Heartbeat, vars, Stays
<1>7. ASSUME Die(q) PROVE Outside(q)
  <2>1. pc'[q] = "down" /\ ballot'[q].round = 0
    BY <1>7 DEF Die, Crash, Goto, NoBallot, TypeInv, ClusterTypes, RoundTypes, Ballots
  <2> QED
    BY <2>1 DEF Outside, InRound
<1>8. ASSUME NEW r \in Replicas \ {q},
             Shared(r) \/ Tick(r) \/ LeaderStep(r) \/ FollowerStep(r) \/ Register(r)
                \/ Expire(r) \/ Heartbeat(r) \/ Die(r)
      PROVE  Outside(q) \/ Within(q)
  BY <1>1, <1>8, OthersKept DEF TypeInv
<1>9. ASSUME Environment, UNCHANGED roundVars PROVE Outside(q) \/ Within(q)
  BY <1>1, <1>9, EnvironmentKeeps DEF roundVars, Stays
<1> QED
  BY <1>4, <1>5, <1>6, <1>7, <1>8, <1>9, LeaderRound DEF Next

\* BallotInv is inductive.
LEMMA BallotStep ==
    ASSUME TypeInv, BallotInv, Next
    PROVE  BallotInv'
<1> SUFFICES ASSUME NEW q \in Replicas
             PROVE  /\ pc'[q] \in InRound => ballot'[q].round \in Round
                    /\ pc'[q] \notin InRound => ballot'[q].round = 0
  BY DEF BallotInv
<1>1. CASE Outside(q)
  BY <1>1 DEF Outside
<1>2. CASE Within(q)
  BY <1>2 DEF Within, BallotInv
<1>3. CASE Opens(q)
  BY <1>3 DEF Opens, InRound
<1> QED
  BY <1>1, <1>2, <1>3, RoundCases

\* What refers to round n as one of version v: a leader in it, a stage, an event.
Leads(r, n, v) == ballot[r].round = n /\ job[r].version = v
Stages(r, n, v) == \E s \in staged[r] : s.round = n /\ s.version = v
Hears(r, n, v) ==
    \E i \in 1 .. Len(inbox[r]) :
        inbox[r][i].origin # r /\ inbox[r][i].round = n /\ inbox[r][i].version = v
Names(n, v) == \E r \in Replicas : Leads(r, n, v) \/ Stages(r, n, v) \/ Hears(r, n, v)
OneName == \A n \in Round : \A v, w \in AnyVersion : Names(n, v) /\ Names(n, w) => v = w

\* A leader gives a fresh ID to its version.
Mints(n, v) ==
    \E r \in Replicas : PublishPrepare(r) /\ n = Min(FreshRounds) /\ v = job[r].version

\* The leaders of a round led it before, or opened it.
LEMMA LeadsFrom ==
    ASSUME TypeInv, BallotInv, Next, NEW q \in Replicas, NEW n \in Round, NEW v, Leads(q, n, v)'
    PROVE  Names(n, v) \/ Mints(n, v)
<1>1. CASE Outside(q)
  BY <1>1, NoRound DEF Outside, Leads
<1>2. CASE Within(q)
  BY <1>2 DEF Within, Leads, Names
<1>3. CASE Opens(q)
  BY <1>3 DEF Opens, Leads, Mints
<1> QED
  BY <1>1, <1>2, <1>3, RoundCases

\* Stages are dropped, or one is added: that of the prepare event at hand.
Prepares(r) ==
    LET e == Head(inbox[r])
    IN  /\ HandlePrepare(r) /\ inbox[r] # <<>> /\ e.origin # r /\ e.action = "prepare"
        /\ e.version \in Version /\ Exists(rows, e.version) /\ Loads(r, e.version)
        /\ \A s \in staged'[r] :
              s \in staged[r] \/ s = [round |-> e.round, version |-> e.version,
                                      content |-> rows[e.version].content]

\* Every step that adds a stage is one of these.
LEMMA StageCases ==
    ASSUME TypeInv, Next, NEW q \in Replicas
    PROVE  staged'[q] \subseteq staged[q] \/ Prepares(q)
<1>1. staged \in [Replicas -> SUBSET Stage]
  BY DEF TypeInv, RoundTypes
<1>2. ASSUME dropExpiredStages(q) \/ \E n : DropStage(q, n)
      PROVE  staged'[q] \subseteq staged[q]
  BY <1>1, <1>2 DEF dropExpiredStages, DropStage
<1>3. ASSUME HandlePrepare(q), ~UNCHANGED staged PROVE Prepares(q)
  <2> DEFINE e == Head(inbox[q])
             v == e.version
  <2>1. Receives(q, "prepare") /\ Exists(rows, v) /\ stageFromBytes(q, e.round, v)
    BY <1>3 DEF HandlePrepare
  <2>2. v \in AnyVersion
    BY <2>1, <1>3, ConsumeType DEF HandlePrepare, Receives, TypeInv, ClusterTypes
  <2>3. v \in Version /\ Loads(q, v)
    BY <2>1, <2>2 DEF stageFromBytes, Loads, AnyVersion
  <2>4. staged' = [staged EXCEPT ![q] = {s \in staged[q] : s.round # e.round} \cup
                      {[round |-> e.round, version |-> v, content |-> rows[v].content]}]
    BY <2>1 DEF stageFromBytes, Stash
  <2>5. \A s \in staged'[q] :
           s \in staged[q] \/ s = [round |-> e.round, version |-> v,
                                   content |-> rows[v].content]
    BY <1>1, <2>4
  <2> QED
    BY <1>3, <2>1, <2>3, <2>5 DEF Prepares, Receives
<1>4. ASSUME Shared(q) \/ Tick(q) \/ Die(q) PROVE staged'[q] \subseteq staged[q]
  BY <1>1, <1>2, <1>4 DEF Shared, Tick, Die
<1>5. ASSUME Answer(q) \/ HandleCommit(q) \/ HandleAbort(q)
      PROVE  staged'[q] \subseteq staged[q]
  BY <1>2, <1>5 DEF Answer, HandleCommit, HandleAbort, roundVars
<1>6. ASSUME LeaderStep(q) \/ Register(q) \/ Expire(q) \/ Heartbeat(q) PROVE UNCHANGED staged
  BY <1>6 DEF LeaderStep, Save, ResetApplyLog, TakeTarget, PublishPrepare, ReadAlive, Vote,
     Begin, Decide, AnnounceCommit, Apply, Record, AnnounceSync, AnnounceAbort, CheckActive,
     FailRow, Register, Expire, Heartbeat, roundVars
<1>7. ASSUME NEW r \in Replicas \ {q},
             Shared(r) \/ Tick(r) \/ LeaderStep(r) \/ FollowerStep(r) \/ Register(r)
                \/ Expire(r) \/ Heartbeat(r) \/ Die(r)
      PROVE  staged'[q] = staged[q]
  BY <1>7, OthersKept DEF TypeInv
<1> QED
  BY <1>3, <1>4, <1>5, <1>6, <1>7 DEF Next, FollowerStep, roundVars

\* The stages of a round were there before, or come with its event.
LEMMA StagesFrom ==
    ASSUME TypeInv, Next, NEW q \in Replicas, NEW n \in Round, NEW v, Stages(q, n, v)'
    PROVE  Names(n, v)
<1>1. PICK s \in staged'[q] : s.round = n /\ s.version = v
  BY DEF Stages
<1>2. CASE s \in staged[q]
  BY <1>1, <1>2 DEF Stages, Names
<1>3. CASE Prepares(q) /\ s \notin staged[q]
  <2> DEFINE e == Head(inbox[q])
  <2>1. inbox[q] # <<>> /\ e.origin # q /\ e.round = n /\ e.version = v
    BY <1>1, <1>3 DEF Prepares
  <2>2. inbox[q] \in Seq(Event)
    BY DEF TypeInv, ClusterTypes
  <2>3. 1 \in 1 .. Len(inbox[q]) /\ e = inbox[q][1]
    BY <2>1, <2>2
  <2> QED
    BY <2>1, <2>3 DEF Hears, Names
<1> QED
  BY <1>2, <1>3, StageCases

\* The events of a round were there before, or its leader tells them.
LEMMA HearsFrom ==
    ASSUME TypeInv, Next, NEW q \in Replicas, NEW n \in Round, NEW v, Hears(q, n, v)'
    PROVE  Names(n, v) \/ Mints(n, v)
<1>1. PICK i \in 1 .. Len(inbox'[q]) :
         /\ inbox'[q][i].origin # q
         /\ inbox'[q][i].round = n /\ inbox'[q][i].version = v
  BY DEF Hears
<1>2. CASE Held(q, inbox'[q][i])
  BY <1>1, <1>2 DEF Held, Hears, Names
<1>3. CASE inbox'[q][i] = RollbackEvent
  BY <1>1, <1>3, NoRound DEF RollbackEvent
<1>4. ASSUME NEW r \in Replicas, NEW a \in {"prepare", "commit", "abort", "sync"},
             NEW m \in 0 .. MaxRounds, Tells(r, a, m), inbox'[q][i] = Message(r, a, m)
      PROVE  Names(n, v) \/ Mints(n, v)
  <2>1. m = n /\ job[r].version = v
    BY <1>1, <1>4 DEF Message
  <2> QED
    BY <1>4, <2>1, NoRound DEF Tells, Leads, Names, Mints
<1> QED
  BY <1>2, <1>3, <1>4, BoxStep

\* Only one replica opens a round at a time.
LEMMA OneMint ==
    ASSUME TypeInv, NEW r \in Replicas, NEW q \in Replicas, PublishPrepare(r), PublishPrepare(q)
    PROVE  r = q
<1> SUFFICES ASSUME r # q PROVE FALSE
  OBVIOUS
<1>1. LeaderStep(r) /\ LeaderStep(q) /\ pc[q] = "prepare"
  BY DEF LeaderStep, PublishPrepare
<1>2. pc'[q] = "prepare"
  BY <1>1, OthersKept DEF TypeInv, Stays
<1>3. Ends(q) \/ Proceeds(q)
  BY <1>1, LeaderGoes DEF TypeInv
<1> QED
  BY <1>1, <1>2, <1>3 DEF Ends, Proceeds, LeaderMoves

\* OneName is inductive.
LEMMA OneNameStep ==
    ASSUME TypeInv, BallotInv, OneName, Next
    PROVE  OneName'
<1> SUFFICES ASSUME NEW n \in Round, NEW v \in AnyVersion, NEW w \in AnyVersion,
                    Names(n, v)', Names(n, w)'
             PROVE  v = w
  BY DEF OneName
<1>1. ASSUME NEW u, Names(n, u)' PROVE Names(n, u) \/ Mints(n, u)
  BY <1>1, LeadsFrom, StagesFrom, HearsFrom DEF Names
<1>2. ASSUME NEW u, NEW x, Names(n, u), Mints(n, x) PROVE FALSE
  <2>1. Referenced(n)
    BY <1>2 DEF Names, Leads, Stages, Hears, Referenced
  <2>2. ~Referenced(n)
    BY <1>2, FreshRound DEF Mints, PublishPrepare
  <2> QED
    BY <2>1, <2>2
<1>3. CASE Names(n, v) /\ Names(n, w)
  BY <1>3 DEF OneName
<1>4. CASE Mints(n, v) /\ Mints(n, w)
  BY <1>4, OneMint DEF Mints
<1> QED
  BY <1>1, <1>2, <1>3, <1>4

----------------------------------------------------------------------------
\* DecidedFirst and what it rests on.

\* From the decision on, a leader carries what was decided, and so do the two tails.
Carried ==
    \A r \in Replicas :
        pc[r] \in {"announce", "apply", "record", "fallback"} \cup Tails
           => job[r].version \in decided

Decided ==
    /\ ActiveDecided
    /\ ServedIn(decided) /\ CachedIn(decided)
    /\ BoxesIn(inbox, Announcing({"sync", "commit"}, decided))
    /\ Carried

\* From the version check to its own swap, a leader's version is ahead of what
\* it serves: it handles no events in between.
Undecided == {"stage", "save", "reset", "target", "prepare", "vote", "count",
              "activate", "commit_activation", "announce", "apply"}
Ahead ==
    /\ Cold
    /\ \A r \in Replicas : pc[r] \in Undecided => Forward(job[r].version, mem[r].version)

SafeInv == TypeInv /\ BallotInv /\ OneName /\ Decided /\ Ahead

\* The initial states are safe.
LEMMA SafeInit == Init /\ RoundInit => SafeInv
<1> SUFFICES ASSUME Init, RoundInit PROVE SafeInv
  OBVIOUS
<1>1. TypeInv
  BY TypeInit
<1>2. \A r \in Replicas :
         pc[r] = "down" /\ ballot[r].round = 0 /\ staged[r] = {} /\ inbox[r] = <<>>
  BY DEF Init, RoundInit, NoBallot
<1>3. BallotInv
  BY <1>2 DEF BallotInv, InRound
<1>4. ASSUME NEW n \in Round, NEW v, Names(n, v) PROVE FALSE
  <2>1. n # 0
    BY NoRound
  <2> QED
    BY <1>2, <1>4, <2>1 DEF Names, Leads, Stages, Hears
<1>5. OneName
  BY <1>4 DEF OneName
<1>6. Carried /\ \A r \in Replicas : pc[r] \notin Undecided
  BY <1>2 DEF Carried, Undecided, Tails
<1> QED
  BY <1>1, <1>3, <1>5, <1>6, NothingDecided DEF SafeInv, Decided, Ahead

\* A leader in its cycle moves by its own steps, or dies.
LEMMA LeaderActs ==
    ASSUME TypeInv, Next, NEW q \in Replicas, pc'[q] # pc[q],
           pc[q] \notin SharedPlace \cup {"vote_yes", "vote_no"}
    PROVE  LeaderStep(q) \/ Die(q)
<1>1. ASSUME Shared(q) \/ Tick(q) PROVE FALSE
  BY <1>1, SharedFrom DEF Shared, Tick, SharedStep
<1>2. ASSUME FollowerStep(q) PROVE FALSE
  BY <1>2, FollowerGoes DEF SharedPlace
<1>3. ASSUME Register(q) \/ Expire(q) \/ Heartbeat(q) PROVE FALSE
  BY <1>3 DEF Register, Expire, Heartbeat, vars
<1>4. ASSUME NEW r \in Replicas \ {q},
             Shared(r) \/ Tick(r) \/ LeaderStep(r) \/ FollowerStep(r) \/ Register(r)
                \/ Expire(r) \/ Heartbeat(r) \/ Die(r)
      PROVE  FALSE
  BY <1>4, OthersKept DEF TypeInv, Stays
<1>5. ASSUME Environment PROVE FALSE
  BY <1>5, EnvironmentKeeps
<1> QED
  BY <1>1, <1>2, <1>3, <1>4, <1>5 DEF Next

\* It announces only what its activation decided.
LEMMA AnnouncesDecided ==
    ASSUME TypeInv, Next, NEW q \in Replicas, pc[q] = "commit_activation", pc'[q] = "announce"
    PROVE  Decides(q)
<1>1. LeaderStep(q) \/ Die(q)
  BY LeaderActs DEF SharedPlace
<1>2. ASSUME Die(q) PROVE FALSE
  BY <1>2 DEF Die, Crash, Goto, TypeInv, ClusterTypes
<1>3. Decide(q)
  BY <1>1, <1>2 DEF LeaderStep, Save, SavePending, ResetApplyLog, TakeTarget, PublishPrepare,
     ReadAlive, Vote, Begin, BeginActivate, AnnounceCommit, Apply, ApplyStaged, Record,
     AnnounceSync, AnnounceAbort, CheckActive, FailRow
<1>4. CommitActivation(q, "announce", "abort")
  BY <1>3 DEF Decide
<1>5. HasVersion(q)
  BY DEF TypeInv, LocalsOK, InRound
<1>6. ~Goto(q, "abort")
  BY DEF Goto, TypeInv, ClusterTypes
<1> QED
  BY <1>3, <1>4, <1>5, <1>6 DEF CommitActivation, HasVersion, Decides

\* A commit event makes its receiver serve a decided version, in any direction.
Obeys(r, v) ==
    /\ Serves(r, v) /\ v \in decided
    /\ pc[r] = "idle" /\ Receives(r, "commit")
    /\ UNCHANGED <<rows, decided>>

\* What the stages of its round hold is what it announces.
LEMMA CommitObeys ==
    ASSUME SafeInv, NEW r \in Replicas, HandleCommit(r), ~UNCHANGED mem
    PROVE  \E v \in Version : Obeys(r, v)
<1> DEFINE e == Head(inbox[r])
           w == e.version
<1>1. /\ inbox[r] \in Seq(Event) /\ inbox[r] # <<>> /\ e.origin # r /\ e.action = "commit"
      /\ pc[r] = "idle" /\ Receives(r, "commit") /\ UNCHANGED <<rows, decided>>
  BY DEF HandleCommit, Receives, SafeInv, TypeInv, ClusterTypes
<1>2. e = inbox[r][1] /\ 1 \in 1 .. Len(inbox[r]) /\ e \in Event
  BY <1>1
<1>3. w \in decided /\ w \in Version
  BY <1>1, <1>2 DEF SafeInv, Decided, BoxesIn, Announcing, TypeInv, ClusterTypes
<1>4. ASSUME NEW s \in staged[r], s.round = e.round, CommitStage(r, s)
      PROVE  Obeys(r, w)
  <2>1. s \in Stage
    BY DEF SafeInv, TypeInv, RoundTypes
  <2>2. s.round \in Round /\ s.version \in Version /\ s.content \in Contents
    BY <2>1 DEF Stage
  <2>3. Names(s.round, s.version) /\ Names(s.round, w)
    BY <1>1, <1>2, <1>4 DEF Names, Stages, Hears
  <2>4. s.version = w
    BY <1>3, <2>2, <2>3 DEF SafeInv, OneName, AnyVersion
  <2>5. Serves(r, w)
    BY <1>4, <2>2, <2>4 DEF CommitStage, Serves
  <2> QED
    BY <1>1, <1>3, <2>5 DEF Obeys
<1>5. ASSUME CommitStored(r, w) PROVE Obeys(r, w)
  <2>1. Exists(rows, w) /\ Swap(r, w)
    BY <1>5 DEF CommitStored
  <2>2. Serves(r, w)
    BY <1>3, <2>1 DEF Swap, Serves, SafeInv, TypeInv, LocalsOK, Payloads
  <2> QED
    BY <1>1, <1>3, <2>2 DEF Obeys
<1> QED
  BY <1>3, <1>4, <1>5 DEF HandleCommit

\* What replicas serve changes in these ways only.
LEMMA MoveCases ==
    ASSUME SafeInv, Next
    PROVE  \/ UNCHANGED mem
           \/ \E r \in Replicas : Stops(r) /\ UNCHANGED <<rows, decided>>
           \/ \E r \in Replicas, v \in Version : Moves(r, v) \/ Obeys(r, v)
<1>1. ASSUME NEW r \in Replicas, Shared(r) \/ Tick(r)
      PROVE  UNCHANGED mem \/ \E v \in Version : Moves(r, v)
  <2>1. BoxesIn(inbox, Announcing({"sync"}, decided))
    BY DEF SafeInv, Decided, BoxesIn, Announcing
  <2> QED
    BY <1>1, <2>1, SharedMoves
    DEF Shared, Tick, SharedStep, SafeInv, Decided, Ahead, TypeInv, LocalsOK
<1>2. ASSUME NEW r \in Replicas, Apply(r) PROVE \E v \in Version : Moves(r, v)
  <2> DEFINE v == job[r].version
             c == job[r].content
  <2>1. /\ pc[r] = "apply" /\ UNCHANGED <<rows, decided>>
        /\ mem' = [mem EXCEPT ![r] = [version |-> v, content |-> c]]
    BY <1>2 DEF Apply, ApplyStaged
  <2>2. v \in Version /\ c \in Contents
    BY <2>1 DEF SafeInv, TypeInv, LocalsOK, InRound, HasVersion, HasContent
  <2>3. v \in decided /\ Forward(v, mem[r].version)
    BY <2>1 DEF SafeInv, Decided, Carried, Ahead, Undecided
  <2> QED
    BY <2>1, <2>2, <2>3 DEF Moves
<1>3. ASSUME NEW r \in Replicas, LeaderStep(r), ~Apply(r) PROVE UNCHANGED mem
  BY <1>3 DEF LeaderStep, Save, SavePending, ResetApplyLog, TakeTarget, PublishPrepare,
     ReadAlive, Vote, Begin, BeginActivate, Decide, CommitActivation, AnnounceCommit, Record,
     AnnounceSync, AnnounceAbort, CheckActive, FailRow
<1>4. ASSUME NEW r \in Replicas, FollowerStep(r)
      PROVE  UNCHANGED mem \/ \E v \in Version : Obeys(r, v)
  BY <1>4, CommitObeys DEF FollowerStep, HandlePrepare, Answer, HandleAbort
<1>5. ASSUME NEW r \in Replicas, Register(r) \/ Expire(r) \/ Heartbeat(r)
      PROVE  UNCHANGED mem
  BY <1>5 DEF Register, Expire, Heartbeat, vars
<1>6. ASSUME NEW r \in Replicas, Die(r) PROVE Stops(r) /\ UNCHANGED <<rows, decided>>
  BY <1>6 DEF Die, Crash, Goto, Stops, SafeInv, TypeInv, ClusterTypes
<1>7. ASSUME Environment PROVE UNCHANGED mem
  BY <1>7, EnvironmentKeeps
<1> QED
  BY <1>1, <1>2, <1>3, <1>4, <1>5, <1>6, <1>7 DEF Next

\* What replicas serve was decided, after a step.
LEMMA ServedStep ==
    ASSUME SafeInv, Next
    PROVE  ServedIn(decided)'
<1>1. mem \in [Replicas -> Value] /\ ServedIn(decided) /\ decided \subseteq decided'
  BY RowsStep DEF SafeInv, TypeInv, ClusterTypes, Decided
<1>2. ASSUME NEW r \in Replicas, NEW v \in Version, Moves(r, v) \/ Obeys(r, v)
      PROVE  Serves(r, v) /\ v \in decided
  BY <1>2, MovesDecided DEF SafeInv, Decided, Obeys
<1> QED
  BY <1>1, <1>2, MoveCases, ServedKept

\* What is carried was decided.
LEMMA CarriedStep ==
    ASSUME SafeInv, Next
    PROVE  Carried'
<1> SUFFICES ASSUME NEW q \in Replicas,
                    pc'[q] \in {"announce", "apply", "record", "fallback"} \cup Tails
             PROVE  job'[q].version \in decided'
  BY DEF Carried
<1>1. decided \subseteq decided' /\ Carried
  BY RowsStep DEF SafeInv, Decided
<1>2. CASE Stays(q)
  BY <1>1, <1>2 DEF Stays, Carried
<1>3. CASE Rereads(q)
  BY <1>1, <1>3 DEF Rereads, SafeInv, Decided, ActiveDecided, ActiveVersions
<1>4. CASE Proceeds(q)
  <2>1. job'[q].version = job[q].version
    BY <1>4 DEF Proceeds
  <2>2. CASE pc[q] = "commit_activation" /\ pc'[q] = "announce"
    BY <2>1, <2>2, AnnouncesDecided DEF SafeInv, Decides
  <2>3. CASE pc[q] \in {"announce", "apply", "record"}
    BY <1>1, <2>1, <2>3 DEF Carried
  <2> QED
    BY <1>4, <2>2, <2>3 DEF Proceeds, LeaderMoves, Tails
<1> QED
  BY <1>2, <1>3, <1>4, GoesCases DEF Goes, Resting, Picks, Holds, SafeInv, Tails

\* Sync and commit events announce what was decided.
LEMMA AnnouncedStep ==
    ASSUME SafeInv, Next
    PROVE  BoxesIn(inbox, Announcing({"sync", "commit"}, decided))'
<1> DEFINE events == Announcing({"sync", "commit"}, decided')
<1>1. decided \subseteq decided'
  BY RowsStep DEF SafeInv, Decided
<1>2. BoxesIn(inbox, events)
  BY <1>1 DEF SafeInv, Decided, BoxesIn, Announcing
<1>3. RollbackEvent \in events
  BY EventType DEF RollbackEvent, Announcing, AnyVersion
<1>4. ASSUME NEW r \in Replicas, NEW a \in {"prepare", "commit", "abort", "sync"},
             NEW n \in 0 .. MaxRounds, Tells(r, a, n)
      PROVE  Message(r, a, n) \in events
  <2>1. Message(r, a, n) \in Event
    BY RoundEventType DEF SafeInv, TypeInv
  <2>2. a \in {"sync", "commit"} => job[r].version \in decided
    BY <1>4 DEF Tells, SafeInv, Decided, Carried
  <2> QED
    BY <1>1, <2>1, <2>2 DEF Announcing, Message
<1> HIDE DEF events
<1>5. BoxesIn(inbox', events)
  BY <1>2, <1>3, <1>4, BoxesStep DEF SafeInv
<1> QED
  BY <1>5 DEF BoxesIn, events

\* The cache holds what was decided.
LEMMA CachedStep ==
    ASSUME SafeInv, Next
    PROVE  CachedIn(decided)'
<1>1. decided \subseteq decided' /\ CachedIn(decided)
  BY RowsStep DEF SafeInv, Decided
<1> SUFFICES cache' # NoEntry => cache'.version \in decided
  BY <1>1 DEF CachedIn
<1>2. CASE UNCHANGED cache
  BY <1>1, <1>2 DEF CachedIn
<1>3. ASSUME NEW r \in Replicas, Shared(r) \/ Tick(r)
      PROVE  cache' # NoEntry => cache'.version \in decided
  <2>1. TailDecided
    BY DEF SafeInv, Decided, Carried, TailDecided
  <2> QED
    BY <1>1, <1>3, <2>1, SharedCached DEF Shared, Tick, SharedStep, SafeInv, Decided
<1>4. ASSUME NEW r \in Replicas, Record(r)
      PROVE  cache' # NoEntry => cache'.version \in decided
  <2>1. job[r].version \in decided
    BY <1>4 DEF Record, SafeInv, Decided, Carried
  <2>2. UNCHANGED cache \/ CacheWrite(job[r].version, job[r].content)
    BY <1>4 DEF Record, CacheAndLog
  <2> QED
    BY <1>1, <2>1, <2>2 DEF CacheWrite, CachedIn
<1>5. ASSUME NEW r \in Replicas, LeaderStep(r), ~Record(r) PROVE UNCHANGED cache
  BY <1>5 DEF LeaderStep, Save, SavePending, ResetApplyLog, TakeTarget, PublishPrepare,
     ReadAlive, Vote, Begin, BeginActivate, Decide, CommitActivation, AnnounceCommit, Apply,
     ApplyStaged, AnnounceSync, AnnounceAbort, CheckActive, FailRow
<1>6. ASSUME NEW r \in Replicas,
             FollowerStep(r) \/ Register(r) \/ Expire(r) \/ Heartbeat(r) \/ Die(r)
      PROVE  UNCHANGED cache
  BY <1>6 DEF FollowerStep, HandlePrepare, Answer, HandleCommit, HandleAbort, Register,
     Expire, Heartbeat, Die, Crash, vars
<1>7. ASSUME Environment PROVE UNCHANGED cache \/ cache' = NoEntry
  BY <1>7, EnvironmentKeeps
<1> QED
  BY <1>2, <1>3, <1>4, <1>5, <1>6, <1>7 DEF Next

\* A replica that is not up serves nothing.
LEMMA ColdStep ==
    ASSUME SafeInv, Next
    PROVE  Cold'
<1> SUFFICES ASSUME NEW q \in Replicas, pc'[q] \in {"down", "load_cache"}
             PROVE  mem'[q] = Nothing
  BY DEF Cold
<1>1. ClusterTypes(Place) /\ Cold
  BY DEF SafeInv, TypeInv, Ahead
<1>2. ASSUME Stays(q), mem'[q] = mem[q] PROVE mem'[q] = Nothing
  BY <1>1, <1>2 DEF Stays, Cold
<1>3. ASSUME Shared(q) \/ Tick(q) PROVE mem'[q] = Nothing
  BY <1>1, <1>3, SharedCold DEF Shared, Tick, SharedStep
<1>4. ASSUME LeaderStep(q) PROVE FALSE
  BY <1>1, <1>4, LeaderGoes DEF Ends, Proceeds, LeaderMoves
<1>5. ASSUME FollowerStep(q) PROVE FALSE
  BY <1>5, FollowerGoes DEF Stays, SafeInv
<1>6. ASSUME Register(q) \/ Expire(q) \/ Heartbeat(q) PROVE mem'[q] = Nothing
  BY <1>2, <1>6 DEF Register, Expire, Heartbeat, vars, Stays
<1>7. ASSUME Die(q) PROVE mem'[q] = Nothing
  BY <1>1, <1>7 DEF Die, Crash, ClusterTypes
<1>8. ASSUME NEW r \in Replicas \ {q},
             Shared(r) \/ Tick(r) \/ LeaderStep(r) \/ FollowerStep(r) \/ Register(r)
                \/ Expire(r) \/ Heartbeat(r) \/ Die(r)
      PROVE  mem'[q] = Nothing
  BY <1>2, <1>8, OthersKept DEF SafeInv, TypeInv
<1>9. ASSUME Environment PROVE mem'[q] = Nothing
  BY <1>2, <1>9, EnvironmentKeeps DEF Stays
<1> QED
  BY <1>3, <1>4, <1>5, <1>6, <1>7, <1>8, <1>9 DEF Next

\* Where a step leaves a replica that it made serve something else.
LEMMA ServesAt ==
    ASSUME TypeInv, Next, NEW q \in Replicas, mem'[q] # mem[q]
    PROVE  pc'[q] \in {"load_storage", "boot", "idle", "rolled", "record", "down"}
<1>1. ClusterTypes(Place)
  BY DEF TypeInv
<1>2. ASSUME Shared(q) \/ Tick(q) PROVE pc'[q] \in {"load_storage", "boot", "idle", "rolled"}
  BY <1>1, <1>2, SharedServes DEF Shared, Tick, SharedStep
<1>3. ASSUME LeaderStep(q) PROVE pc'[q] = "record"
  BY <1>1, <1>3, LeaderGoes DEF Apply, ApplyStaged, Goto, ClusterTypes
<1>4. ASSUME FollowerStep(q) PROVE pc'[q] = "idle"
  BY <1>4, FollowerGoes DEF HandleCommit, Receives
<1>5. ASSUME Register(q) \/ Expire(q) \/ Heartbeat(q) PROVE FALSE
  BY <1>5 DEF Register, Expire, Heartbeat, vars
<1>6. ASSUME Die(q) PROVE pc'[q] = "down"
  BY <1>1, <1>6 DEF Die, Crash, Goto, ClusterTypes
<1>7. ASSUME NEW r \in Replicas \ {q},
             Shared(r) \/ Tick(r) \/ LeaderStep(r) \/ FollowerStep(r) \/ Register(r)
                \/ Expire(r) \/ Heartbeat(r) \/ Die(r)
      PROVE  FALSE
  BY <1>7, OthersKept DEF TypeInv
<1>8. ASSUME Environment PROVE FALSE
  BY <1>8, EnvironmentKeeps
<1> QED
  BY <1>2, <1>3, <1>4, <1>5, <1>6, <1>7, <1>8 DEF Next

\* Nothing that a replica does between the version check and the swap changes
\* what it serves or the version that it carries.
LEMMA AheadStep ==
    ASSUME SafeInv, Next
    PROVE  Ahead'
<1> SUFFICES ASSUME NEW q \in Replicas, pc'[q] \in Undecided
             PROVE  Forward(job'[q].version, mem'[q].version)
  BY ColdStep DEF Ahead
<1>1. mem'[q] = mem[q]
  BY ServesAt DEF SafeInv, Undecided
<1>2. CASE Stays(q)
  BY <1>1, <1>2 DEF Stays, SafeInv, Ahead
<1>3. CASE Picks(q)
  BY <1>1, <1>3 DEF Picks
<1>4. CASE Holds(q)
  BY <1>1, <1>4 DEF Holds, SafeInv, Ahead, Undecided
<1>5. CASE Proceeds(q)
  <2>1. pc[q] \in Undecided /\ job'[q].version = job[q].version
    BY <1>5 DEF Proceeds, LeaderMoves, Undecided
  <2> QED
    BY <1>1, <2>1 DEF SafeInv, Ahead
<1> QED
  BY <1>2, <1>3, <1>4, <1>5, GoesCases DEF Goes, Resting, Rereads, Undecided, SafeInv

\* SafeInv is inductive.
LEMMA SafeStep == SafeInv /\ [Next]_allVars => SafeInv'
<1>1. ASSUME SafeInv, Next PROVE SafeInv'
  <2>1. TypeInv /\ BallotInv /\ OneName /\ ActiveDecided
    BY <1>1 DEF SafeInv, Decided
  <2>2. Payloads' /\ ActiveDecided'
    BY <1>1, <2>1, RowsStep
  <2>3. TypeInv'
    BY <1>1, <2>1, <2>2, TypeStep, LocalsStep, NumberedStep DEF TypeInv, BoxesIn
  <2>4. BallotInv' /\ OneName'
    BY <1>1, <2>1, BallotStep, OneNameStep
  <2>5. Decided'
    BY <1>1, <2>2, ServedStep, CachedStep, AnnouncedStep, CarriedStep DEF Decided
  <2> QED
    BY <1>1, <2>3, <2>4, <2>5, AheadStep DEF SafeInv
<1>2. ASSUME SafeInv, UNCHANGED allVars PROVE SafeInv'
  <2>1. UNCHANGED vars /\ UNCHANGED roundVars
    BY <1>2 DEF allVars
  <2>2. ClusterTypes(Place)' /\ RoundTypes'
    BY <1>2, <2>1 DEF vars, roundVars, SafeInv, TypeInv, ClusterTypes, RoundTypes
  <2>3. LocalsOK' /\ BoxesIn(inbox, Numbered)'
    BY <1>2, <2>1 DEF vars, SafeInv, TypeInv, LocalsOK, Payloads, Exists, HasVersion,
       HasContent, BoxesIn
  <2>4. BallotInv' /\ OneName'
    BY <1>2, <2>1 DEF vars, roundVars, SafeInv, BallotInv, OneName, Names, Leads, Stages, Hears
  <2>5. Decided'
    BY <1>2, <2>1 DEF vars, SafeInv, Decided, ActiveDecided, ServedIn, CachedIn, BoxesIn,
       Carried
  <2>6. Ahead'
    BY <1>2, <2>1 DEF vars, SafeInv, Ahead, Cold
  <2> QED
    BY <2>2, <2>3, <2>4, <2>5, <2>6 DEF SafeInv, TypeInv
<1> QED
  BY <1>1, <1>2

----------------------------------------------------------------------------
\* The theorems.

\* Every variable holds what the Go types and the tables allow.
THEOREM TypesHold == Spec => []TypeOK
<1>1. SafeInv => TypeOK
  BY DEF SafeInv, TypeInv, ClusterTypes, RoundTypes, Ballots, TypeOK
<1> QED
  BY SafeInit, SafeStep, <1>1, PTL DEF Spec

\* The activation is the decision: no replica serves, no commit or sync event
\* announces and no cache entry holds a version that was not activated first.
THEOREM DecidedFirstHolds == Spec => []DecidedFirst
<1>1. ASSUME SafeInv PROVE DecidedFirst
  <2>1. ServedIn(decided) /\ CachedIn(decided)
    BY <1>1 DEF SafeInv, Decided
  <2>2. BoxesIn(inbox, Announcing({"sync", "commit"}, decided))
    BY <1>1 DEF SafeInv, Decided
  <2> QED
    BY <2>1, <2>2 DEF ServedIn, CachedIn, BoxesIn, Announcing, DecidedFirst
<1> QED
  BY SafeInit, SafeStep, <1>1, PTL DEF Spec

\* What one replica serves changes forward, or where it is told to go back.
LEMMA BackStep ==
    ASSUME SafeInv, Next, NEW q \in Replicas, mem'[q] # mem[q]
    PROVE  \/ Forward(mem'[q].version, mem[q].version)
           \/ pc[q] = "load_storage"
           \/ pc[q] = "idle" /\ (Receives(q, "commit") \/ Receives(q, "rollback"))
           \/ pc'[q] = "down"
<1>1. mem \in [Replicas -> Value]
  BY DEF SafeInv, TypeInv, ClusterTypes
<1>2. ASSUME NEW r \in Replicas, Stops(r) PROVE pc'[q] = "down"
  BY <1>1, <1>2 DEF Stops
<1>3. ASSUME NEW r \in Replicas, NEW v \in Version, Serves(r, v)
      PROVE  q = r /\ mem'[q].version = v
  <2>1. PICK c \in Contents : mem' = [mem EXCEPT ![r] = [version |-> v, content |-> c]]
    BY <1>3 DEF Serves
  <2> QED
    BY <1>1, <2>1
<1>4. ASSUME NEW r \in Replicas, NEW v \in Version, Moves(r, v)
      PROVE  \/ Forward(mem'[q].version, mem[q].version)
             \/ pc[q] = "load_storage"
             \/ pc[q] = "idle" /\ Receives(q, "rollback")
  <2>1. q = r /\ mem'[q].version = v
    BY <1>3, <1>4, MovesDecided DEF SafeInv, Decided
  <2> QED
    BY <1>4, <2>1 DEF Moves
<1>5. ASSUME NEW r \in Replicas, NEW v \in Version, Obeys(r, v)
      PROVE  pc[q] = "idle" /\ Receives(q, "commit")
  BY <1>3, <1>5 DEF Obeys
<1> QED
  BY <1>2, <1>4, <1>5, MoveCases

\* Followers go back only where they are told to: on a commit event that comes
\* late, on a rollback event, or when they start.
THEOREM BackOnlyWhenToldHolds == Spec => BackOnlyWhenTold
<1>1. SafeInv /\ [Next]_allVars =>
        [\A r \in Replicas :
            mem'[r] # mem[r] =>
               \/ Forward(mem'[r].version, mem[r].version)
               \/ pc[r] = "load_storage"
               \/ pc[r] = "idle" /\ (Receives(r, "commit") \/ Receives(r, "rollback"))
               \/ pc'[r] = "down"]_allVars
  BY BackStep
<1> QED
  BY SafeInit, SafeStep, <1>1, PTL DEF Spec, BackOnlyWhenTold
=============================================================================
