--------------------------- MODULE LifecycleProofs ---------------------------
(***************************************************************************)
(* Proofs about Lifecycle, for any collections, setups, buffers and bounds *)
(* on what may happen: types, that no accepted request and no change event *)
(* is dropped, that the phase never goes back, and that Start leaves no    *)
(* row behind.                                                             *)
(***************************************************************************)
EXTENDS Lifecycle, TLAPS

----------------------------------------------------------------------------
\* The buffer of change events.

Buffers == BoundedSeq(Collections, BufferCap)

\* A bounded buffer is a sequence that is not too long.
LEMMA BufferSeq ==
    \A b : b \in Buffers <=> (b \in Seq(Collections) /\ Len(b) <= BufferCap)
<1>1. BufferCap \in Nat
  BY LifecycleAssumption
<1>2. ASSUME NEW b \in Buffers PROVE b \in Seq(Collections) /\ Len(b) <= BufferCap
  <2>1. PICK m \in 0 .. BufferCap : b \in [1 .. m -> Collections]
    BY <1>2 DEF Buffers, BoundedSeq, SeqOf
  <2> QED
    BY <1>1, <2>1
<1>3. ASSUME NEW b \in Seq(Collections), Len(b) <= BufferCap PROVE b \in Buffers
  <2>1. b \in [1 .. Len(b) -> Collections] /\ Len(b) \in 0 .. BufferCap
    BY <1>1, <1>3
  <2> QED
    BY <2>1 DEF Buffers, BoundedSeq, SeqOf
<1> QED
  BY <1>2, <1>3

\* A change event that comes in is in the buffer, next to the others.
LEMMA BufferAppend ==
    ASSUME NEW b \in Buffers, NEW c \in Collections, Len(b) < BufferCap
    PROVE  Append(b, c) \in Buffers /\ ToSet(Append(b, c)) = ToSet(b) \cup {c}
<1>1. b \in Seq(Collections) /\ BufferCap \in Nat
  BY BufferSeq, LifecycleAssumption
<1>2. Append(b, c) \in Seq(Collections) /\ Len(Append(b, c)) <= BufferCap
  BY <1>1
<1>3. ToSet(Append(b, c)) = ToSet(b) \cup {c}
  <2>1. /\ DOMAIN Append(b, c) = 1 .. (Len(b) + 1) /\ DOMAIN b = 1 .. Len(b)
        /\ \A i \in 1 .. Len(b) : Append(b, c)[i] = b[i]
        /\ Append(b, c)[Len(b) + 1] = c
        /\ Len(b) \in Nat
    BY <1>1
  <2>2. 1 .. (Len(b) + 1) = (1 .. Len(b)) \cup {Len(b) + 1}
    BY <2>1
  <2> QED
    BY <2>1, <2>2 DEF ToSet
<1> QED
  BY <1>2, <1>3, BufferSeq

\* Taking the first leaves the others.
LEMMA BufferTail ==
    ASSUME NEW b \in Buffers, b # <<>>
    PROVE  /\ Tail(b) \in Buffers /\ Head(b) \in Collections
           /\ ToSet(b) = ToSet(Tail(b)) \cup {Head(b)}
<1>1. b \in Seq(Collections) /\ Len(b) <= BufferCap /\ BufferCap \in Nat
  BY BufferSeq, LifecycleAssumption
<1>2. /\ Tail(b) \in Seq(Collections) /\ Head(b) \in Collections /\ Head(b) = b[1]
      /\ Len(b) \in Nat \ {0} /\ Len(Tail(b)) = Len(b) - 1
      /\ DOMAIN b = 1 .. Len(b) /\ DOMAIN Tail(b) = 1 .. (Len(b) - 1)
      /\ \A i \in 1 .. (Len(b) - 1) : Tail(b)[i] = b[i + 1]
  BY <1>1
<1>3. ToSet(b) = ToSet(Tail(b)) \cup {Head(b)}
  <2>1. \A i \in 1 .. Len(b) :
           i = 1 \/ (i - 1 \in 1 .. (Len(b) - 1) /\ (i - 1) + 1 = i)
    BY <1>2
  <2>2. \A i \in 1 .. (Len(b) - 1) : i + 1 \in 1 .. Len(b)
    BY <1>2
  <2>3. 1 \in 1 .. Len(b)
    BY <1>2
  <2>4. ASSUME NEW x \in ToSet(b) PROVE x \in ToSet(Tail(b)) \cup {Head(b)}
    <3>1. PICK i \in 1 .. Len(b) : x = b[i]
      BY <1>2 DEF ToSet
    <3>2. CASE i = 1
      BY <1>2, <3>1, <3>2
    <3>3. CASE i # 1
      <4>1. i - 1 \in DOMAIN Tail(b) /\ Tail(b)[i - 1] = x
        BY <1>2, <2>1, <3>1, <3>3
      <4> QED
        BY <4>1 DEF ToSet
    <3> QED
      BY <3>2, <3>3
  <2>5. ASSUME NEW x \in ToSet(Tail(b)) \cup {Head(b)} PROVE x \in ToSet(b)
    BY <1>2, <2>2, <2>3 DEF ToSet
  <2> QED
    BY <2>4, <2>5
<1>4. Len(Tail(b)) <= BufferCap
  BY <1>1, <1>2
<1>5. Tail(b) \in Buffers
  BY <1>2, <1>4, BufferSeq, Zenon
<1> QED
  BY <1>2, <1>3, <1>5

----------------------------------------------------------------------------
\* Types.

\* The phases and their order.
LEMMA Phases ==
    /\ DOMAIN PhaseRank = {"new", "running", "leaving", "stopped"}
    /\ PhaseRank["new"] = 0 /\ PhaseRank["running"] = 1
    /\ PhaseRank["leaving"] = 2 /\ PhaseRank["stopped"] = 3
BY DEF PhaseRank

\* The yes-or-no part of the state.
Flags ==
    /\ canCancel \in BOOLEAN /\ once \in BOOLEAN /\ row \in BOOLEAN
    /\ slot \in BOOLEAN /\ unserved \in BOOLEAN
    /\ notifier \in BOOLEAN /\ client \in BOOLEAN /\ watching \in BOOLEAN

\* The initial states have their types.
LEMMA TypeInit == Init => TypeOK
<1> SUFFICES ASSUME Init PROVE TypeOK
  OBVIOUS
<1>1. <<>> \in Buffers
  <2>1. <<>> \in Seq(Collections) /\ Len(<<>>) <= BufferCap
    BY LifecycleAssumption
  <2> QED
    BY <2>1, BufferSeq, Zenon
<1>2. Flags
  BY Zenon DEF Init, Flags
<1> QED
  BY <1>1, <1>2, Phases, LifecycleAssumption DEF Init, TypeOK, Buffers, Flags

\* Every step keeps the flags.
LEMMA FlagsStep == ASSUME TypeOK, Next PROVE Flags'
<1> SUFFICES ASSUME Flags, Next PROVE Flags'
  BY DEF TypeOK, Flags
<1> USE DEF Flags, rowVars, requestVars, notifyVars, wsVars, startVars
<1>1. CASE Starting
  <2>1. CASE Enter \/ KeepCancel \/ Dial
    BY <2>1, ZenonT(30) DEF Enter, KeepCancel, Dial
  <2>2. CASE Register
    BY <2>2, ZenonT(30) DEF Register, Upserted, NotUpserted
  <2>3. CASE Subscribe
    BY <2>3, ZenonT(30) DEF Subscribe, Subscribed, NotSubscribed
  <2>4. CASE Watch
    BY <2>4, ZenonT(30) DEF Watch, EnterLoop
  <2>5. CASE NoWatch
    BY <2>5, ZenonT(30) DEF NoWatch, EnterLoop
  <2>6. CASE Load
    BY <2>6, ZenonT(30) DEF Load, BeginCycle
  <2> QED
    BY <1>1, <2>1, <2>2, <2>3, <2>4, <2>5, <2>6 DEF Starting
<1>2. CASE CtxDone \/ Tick \/ Reconcile
  <2>1. CASE CtxDone
    BY <2>1, ZenonT(30) DEF CtxDone
  <2>2. CASE Tick \/ Reconcile
    BY <2>2, ZenonT(30) DEF Tick, Reconcile, BeginCycle
  <2> QED
    BY <1>2, <2>1, <2>2
<1>3. CASE TakeRequest \/ Finish \/ SyncNow
  BY <1>3, ZenonT(30) DEF TakeRequest, BeginCycle, Finish, SyncNow
<1>4. CASE HandleEvent \/ EventsClosed \/ WSEvent
  <2>1. CASE HandleEvent
    BY <2>1, ZenonT(30) DEF HandleEvent
  <2>2. CASE EventsClosed \/ WSEvent
    BY <2>2, ZenonT(30) DEF EventsClosed, WSEvent
  <2> QED
    BY <1>4, <2>1, <2>2
<1>5. CASE WSClosed \/ DebounceFired \/ TimerFires
  BY <1>5, ZenonT(30) DEF WSClosed, DebounceFired, TimerFires
<1>6. CASE Leave \/ Unwind
  BY <1>6, ZenonT(30) DEF Leave, Deregister, Unwind
<1>7. CASE Announce \/ CallerCancels
  BY <1>7, ZenonT(30) DEF Announce, BeginStop, CallerCancels
<1>8. CASE StopDeregisters \/ StopCancels
  BY <1>8, ZenonT(30) DEF StopDeregisters, Deregister, StopCancels
<1>9. CASE Beating
  <2>1. CASE Rejoin
    BY <2>1, ZenonT(30) DEF Rejoin, Upserted, NotUpserted
  <2>2. CASE Renew \/ CheckPhase
    BY <2>2, ZenonT(30) DEF Renew, CheckPhase
  <2>3. CASE BeatEnds \/ Collect
    BY <2>3, ZenonT(30) DEF BeatEnds, Collect
  <2> QED
    BY <1>9, <2>1, <2>2, <2>3 DEF Beating
<1>10. CASE Notifying
  <2>1. CASE Listen \/ Receive
    BY <2>1, ZenonT(30) DEF Listen, Receive
  <2>2. CASE Disconnect \/ ListenerEnds \/ CloseNotifier
    BY <2>2, ZenonT(30) DEF Disconnect, ListenerEnds, CloseNotifier
  <2> QED
    BY <1>10, <2>1, <2>2 DEF Notifying
<1>11. CASE Observing
  <2>1. CASE \E c \in Collections : Change(c)
    BY <2>1, ZenonT(30) DEF Change
  <2>2. CASE ReaderEnds \/ ReaderFails
    BY <2>2, ZenonT(30) DEF ReaderEnds, ReaderFails, ReaderGone
  <2>3. CASE CloseClient
    BY <2>3, ZenonT(30) DEF CloseClient
  <2> QED
    BY <1>11, <2>1, <2>2, <2>3 DEF Observing
<1>12. CASE Over
  BY <1>12, ZenonT(30) DEF Over, vars
<1> QED
  BY <1>1, <1>2, <1>3, <1>4, <1>5, <1>6, <1>7, <1>8, <1>9, <1>10, <1>11, <1>12
  DEF Next, Looping, Stopping

\* The counters stay within their bounds.
LEMMA RareType == ASSUME rare \in 0 .. MaxRare, Rare PROVE rare' \in 0 .. MaxRare
BY LifecycleAssumption DEF Rare

\* So does that of the events that happen.
LEMMA EventsType == ASSUME events \in 0 .. MaxEvents, Occurs PROVE events' \in 0 .. MaxEvents
BY LifecycleAssumption DEF Occurs

\* Start keeps the types.
LEMMA StartingType == ASSUME TypeOK, Flags', Starting PROVE TypeOK'
<1> USE Phases DEF TypeOK, Flags, rowVars, requestVars, notifyVars, wsVars
<1>1. CASE Enter
  BY <1>1 DEF Enter
<1>2. CASE KeepCancel
  BY <1>2 DEF KeepCancel
<1>3. CASE Register
  <2>1. rare' \in 0 .. MaxRare
    BY <1>3, RareType DEF Register, Upserted, NotUpserted
  <2>2. upset' \subseteq {"call", "early", "collected"}
    BY <1>3 DEF Register, Upserted, NotUpserted, Upset
  <2> QED
    BY <1>3, <2>1, <2>2 DEF Register
<1>4. CASE Subscribe
  <2>1. rare' \in 0 .. MaxRare
    BY <1>4, RareType DEF Subscribe, Subscribed, NotSubscribed
  <2>2. /\ listener' \in {"none", "connecting", "listening", "closed"}
        /\ queued' \in 0 .. BufferCap
    BY <1>4, LifecycleAssumption DEF Subscribe, Subscribed, NotSubscribed
  <2> QED
    BY <1>4, <2>1, <2>2 DEF Subscribe
<1>5. CASE Load
  BY <1>5 DEF Load, BeginCycle
<1>6. CASE Dial
  BY <1>6 DEF Dial
<1>7. CASE Watch
  BY <1>7 DEF Watch, EnterLoop
<1>8. CASE NoWatch
  <2>1. rare' \in 0 .. MaxRare
    BY <1>8, RareType DEF NoWatch
  <2> QED
    BY <1>8, <2>1 DEF NoWatch, EnterLoop
<1> QED
  BY <1>1, <1>2, <1>3, <1>4, <1>5, <1>6, <1>7, <1>8 DEF Starting

\* So does the run loop.
LEMMA LoopingType ==
    ASSUME TypeOK, Flags', Looping \/ Finish \/ TimerFires \/ SyncNow
    PROVE  TypeOK'
<1> USE Phases DEF TypeOK, Flags, rowVars, requestVars, notifyVars, wsVars, startVars
<1>1. CASE CtxDone
  BY <1>1 DEF CtxDone
<1>2. CASE Tick
  BY <1>2 DEF Tick, BeginCycle
<1>3. CASE Reconcile
  BY <1>3 DEF Reconcile, BeginCycle
<1>4. CASE TakeRequest
  BY <1>4 DEF TakeRequest, BeginCycle
<1>5. CASE HandleEvent
  BY <1>5, LifecycleAssumption DEF HandleEvent
<1>6. CASE EventsClosed
  BY <1>6 DEF EventsClosed
<1>7. CASE WSEvent
  <2>1. wsQueue' \in Buffers /\ Head(wsQueue) \in Collections
    BY <1>7, BufferTail DEF WSEvent, Buffers
  <2> QED
    BY <1>7, <2>1 DEF WSEvent, SyncForced, Buffers
<1>8. CASE WSClosed
  BY <1>8 DEF WSClosed
<1>9. CASE DebounceFired
  BY <1>9 DEF DebounceFired, SyncForced
<1>10. CASE Finish
  BY <1>10 DEF Finish
<1>11. CASE TimerFires
  BY <1>11 DEF TimerFires
<1>12. CASE SyncNow
  BY <1>12, EventsType DEF SyncNow
<1> QED
  BY <1>1, <1>2, <1>3, <1>4, <1>5, <1>6, <1>7, <1>8, <1>9, <1>10, <1>11, <1>12 DEF Looping

\* So do the end of Start, Stop, and the heartbeat.
LEMMA StoppingType ==
    ASSUME TypeOK, Flags', Leave \/ Unwind \/ Stopping \/ Beating
    PROVE  TypeOK'
<1> USE Phases DEF TypeOK, Flags, rowVars, requestVars, notifyVars, wsVars, startVars
<1>1. ASSUME Deregister
      PROVE  rare' \in 0 .. MaxRare /\ upset' \subseteq {"call", "early", "collected"}
  <2>1. rare' \in 0 .. MaxRare
    BY <1>1, RareType DEF Deregister
  <2>2. upset' \subseteq {"call", "early", "collected"}
    BY <1>1 DEF Deregister, Upset
  <2> QED
    BY <2>1, <2>2
<1>2. CASE Leave
  BY <1>1, <1>2 DEF Leave
<1>3. CASE StopDeregisters
  BY <1>1, <1>3 DEF StopDeregisters
<1>4. CASE Unwind
  BY <1>4 DEF Unwind
<1>5. CASE StopCancels
  BY <1>5 DEF StopCancels
<1>6. CASE CallerCancels
  BY <1>6 DEF CallerCancels
<1>7. CASE Announce
  <2>1. phase' \in DOMAIN PhaseRank
    BY <1>7 DEF Announce
  <2>2. upset' \subseteq {"call", "early", "collected"}
    BY <1>7 DEF Announce, BeginStop, Upset
  <2> QED
    BY <1>7, <2>1, <2>2 DEF Announce, BeginStop
<1>8. CASE Renew
  BY <1>8 DEF Renew
<1>9. CASE CheckPhase
  BY <1>9 DEF CheckPhase
<1>10. CASE BeatEnds
  BY <1>10 DEF BeatEnds
<1>11. CASE Rejoin
  <2>1. rare' \in 0 .. MaxRare
    BY <1>11, RareType DEF Rejoin, Upserted, NotUpserted
  <2>2. upset' \subseteq {"call", "early", "collected"}
    BY <1>11 DEF Rejoin, Upserted, NotUpserted, Upset
  <2> QED
    BY <1>11, <2>1, <2>2 DEF Rejoin
<1>12. CASE Collect
  BY <1>12, RareType DEF Collect, Upset
<1> QED
  BY <1>2, <1>3, <1>4, <1>5, <1>6, <1>7, <1>8, <1>9, <1>10, <1>11, <1>12 DEF Stopping, Beating

\* So do the goroutines that receive.
LEMMA ReceivingType ==
    ASSUME TypeOK, Flags', Notifying \/ Observing
    PROVE  TypeOK'
<1> USE Phases DEF TypeOK, Flags, rowVars, requestVars, notifyVars, wsVars, startVars
<1>1. CASE Listen
  BY <1>1 DEF Listen
<1>2. CASE Receive
  BY <1>2, EventsType, LifecycleAssumption DEF Receive
<1>3. CASE Disconnect
  BY <1>3, RareType DEF Disconnect
<1>4. CASE ListenerEnds
  BY <1>4 DEF ListenerEnds
<1>5. CASE CloseNotifier
  BY <1>5, RareType DEF CloseNotifier
<1>6. ASSUME NEW c \in Collections, Change(c) PROVE TypeOK'
  <2>1. wsQueue' \in Buffers
    BY <1>6, BufferAppend DEF Change, Buffers
  <2> QED
    BY <1>6, <2>1, EventsType DEF Change, Buffers
<1>7. CASE ReaderEnds
  BY <1>7 DEF ReaderEnds, ReaderGone
<1>8. CASE ReaderFails
  BY <1>8, RareType DEF ReaderFails, ReaderGone
<1>9. CASE CloseClient
  BY <1>9, RareType DEF CloseClient
<1> QED
  BY <1>1, <1>2, <1>3, <1>4, <1>5, <1>6, <1>7, <1>8, <1>9 DEF Notifying, Observing

\* Every step keeps the types.
LEMMA TypeStep == TypeOK /\ [Next]_vars => TypeOK'
<1>1. ASSUME TypeOK, UNCHANGED vars PROVE TypeOK'
  BY <1>1 DEF vars, startVars, rowVars, requestVars, notifyVars, wsVars, TypeOK
<1>2. ASSUME TypeOK, Next PROVE TypeOK'
  <2>1. Flags'
    BY <1>2, FlagsStep
  <2>2. CASE Over
    BY <1>1, <1>2, <2>2 DEF Over
  <2> QED
    BY <1>2, <2>1, <2>2, StartingType, LoopingType, StoppingType, ReceivingType DEF Next
<1> QED
  BY <1>1, <1>2

\* Every reachable state has its types.
THEOREM TypesHold == Spec => []TypeOK
BY TypeInit, TypeStep, PTL DEF Spec

----------------------------------------------------------------------------
\* Requests and changes.

\* Only a cycle that begins empties the request channel.
LEMMA RequestStep == RequestKept /\ [Next]_vars => RequestKept'
<1> SUFFICES ASSUME RequestKept, [Next]_vars PROVE RequestKept'
  OBVIOUS
<1> USE DEF RequestKept
<1>1. ASSUME UNCHANGED requestVars PROVE RequestKept'
  BY <1>1, Zenon DEF requestVars
<1>2. ASSUME NEW next, BeginCycle(next) PROVE RequestKept'
  BY <1>2, Zenon DEF BeginCycle
<1>3. CASE Load \/ Tick \/ Reconcile \/ TakeRequest
  <2>1. (\E next : BeginCycle(next)) \/ UNCHANGED requestVars
    BY <1>3, Zenon DEF Load, Tick, Reconcile, TakeRequest, requestVars
  <2> QED
    BY <1>1, <1>2, <2>1
<1>4. CASE SyncNow
  BY <1>4, Zenon DEF SyncNow
<1>5. CASE Starting /\ ~Load
  BY <1>1, <1>5, Zenon DEF Starting, Enter, KeepCancel, Register, Subscribe, Dial, Watch, NoWatch
<1>6. CASE \/ CtxDone \/ HandleEvent \/ EventsClosed \/ WSEvent \/ WSClosed \/ DebounceFired
           \/ Finish \/ TimerFires
  BY <1>1, <1>6, Zenon DEF CtxDone, HandleEvent, EventsClosed, WSEvent, WSClosed, DebounceFired,
     Finish, TimerFires
<1>7. CASE Leave \/ Unwind \/ Stopping \/ Beating
  BY <1>1, <1>7, Zenon DEF Leave, Unwind, Stopping, Announce, BeginStop, StopDeregisters,
     StopCancels, CallerCancels, Beating, Renew, CheckPhase, Rejoin, BeatEnds, Collect
<1>8. CASE Notifying \/ Observing
  BY <1>1, <1>8, Zenon DEF Notifying, Listen, Receive, Disconnect, ListenerEnds, CloseNotifier,
     Observing, Change, ReaderEnds, ReaderFails, ReaderGone, CloseClient
<1>9. CASE Over \/ UNCHANGED vars
  BY <1>1, <1>9, Zenon DEF Over, vars
<1> QED
  BY <1>3, <1>4, <1>5, <1>6, <1>7, <1>8, <1>9 DEF Next, Looping

\* A request that SyncNow accepted waits in the channel until a cycle begins.
THEOREM RequestKeptHolds == Spec => []RequestKept
<1>1. Init => RequestKept
  BY Zenon DEF Init, RequestKept
<1> QED
  BY <1>1, RequestStep, PTL DEF Spec

\* A change leaves the buffer for pendingCollections or for a forced cycle.
LEMMA ChangesStep == TypeOK /\ ChangesKept /\ [Next]_vars => ChangesKept'
<1> SUFFICES ASSUME TypeOK, ChangesKept, [Next]_vars PROVE ChangesKept'
  OBVIOUS
<1> USE DEF ChangesKept
<1>1. ASSUME UNCHANGED <<wsQueue, pending, unsynced>> PROVE ChangesKept'
  BY <1>1
<1>2. ASSUME NEW c \in Collections, Change(c) PROVE ChangesKept'
  <2>1. ToSet(wsQueue') = ToSet(wsQueue) \cup {c}
    BY <1>2, BufferAppend DEF Change, TypeOK, Buffers
  <2> QED
    BY <1>2, <2>1 DEF Change
<1>3. CASE WSEvent
  <2>1. ToSet(wsQueue) = ToSet(wsQueue') \cup {Head(wsQueue)}
    BY <1>3, BufferTail DEF WSEvent, TypeOK, Buffers
  <2>2. \/ pending' = pending \cup {Head(wsQueue)} /\ UNCHANGED unsynced
        \/ unsynced' = unsynced \ {Head(wsQueue)} /\ UNCHANGED pending
    BY <1>3, Zenon DEF WSEvent, SyncForced
  <2> QED
    BY <2>1, <2>2
<1>4. CASE DebounceFired
  <2>1. unsynced' = unsynced \ pending /\ pending' = {} /\ UNCHANGED wsQueue
    BY <1>4, Zenon DEF DebounceFired, SyncForced
  <2> QED
    BY <2>1
<1>5. CASE Starting
  BY <1>1, <1>5, Zenon DEF Starting, Enter, KeepCancel, Register, Subscribe, Load, Dial, Watch,
     NoWatch, wsVars
<1>6. CASE \/ CtxDone \/ Tick \/ Reconcile \/ TakeRequest \/ HandleEvent \/ EventsClosed
           \/ WSClosed \/ Finish \/ TimerFires \/ SyncNow
  BY <1>1, <1>6, Zenon DEF CtxDone, Tick, Reconcile, TakeRequest, HandleEvent, EventsClosed,
     WSClosed, Finish, TimerFires, SyncNow, wsVars
<1>7. CASE Leave \/ Unwind \/ Stopping \/ Beating
  BY <1>1, <1>7, Zenon DEF Leave, Unwind, Stopping, Announce, BeginStop, StopDeregisters,
     StopCancels, CallerCancels, Beating, Renew, CheckPhase, Rejoin, BeatEnds, Collect, wsVars
<1>8. CASE Notifying \/ ReaderEnds \/ ReaderFails \/ CloseClient
  BY <1>1, <1>8, Zenon DEF Notifying, Listen, Receive, Disconnect, ListenerEnds, CloseNotifier,
     ReaderEnds, ReaderFails, ReaderGone, CloseClient, wsVars
<1>9. CASE Over \/ UNCHANGED vars
  BY <1>1, <1>9, Zenon DEF Over, vars, wsVars
<1> QED
  BY <1>2, <1>3, <1>4, <1>5, <1>6, <1>7, <1>8, <1>9 DEF Next, Looping, Observing

\* A change event that was received is synced by force, or still waits.
THEOREM ChangesKeptHolds == Spec => []ChangesKept
<1>1. Init => ChangesKept
  BY DEF Init, ChangesKept
<1> QED
  BY TypeInit, TypeStep, <1>1, ChangesStep, PTL DEF Spec

----------------------------------------------------------------------------
\* Phases.  The phase is new exactly until Start is called, and every move of
\* it is up.

PhaseInv == main = "idle" <=> phase = "new"

\* The four ways in which the phase moves.
LEMMA PhaseCases ==
    ASSUME TypeOK, PhaseInv, [Next]_vars
    PROVE  \/ UNCHANGED phase /\ (main' = "idle" <=> main = "idle")
           \/ phase = "new" /\ phase' = "running" /\ main' # "idle" /\ Enter
           \/ phase = "running" /\ phase' = "leaving" /\ UNCHANGED main /\ Announce
           \/ phase' = "stopped" /\ main' # "idle" /\ Unwind
<1> USE DEF TypeOK, startVars
<1>1. CASE Starting
  BY <1>1 DEF Starting, Enter, KeepCancel, Register, Subscribe, Load, BeginCycle, Dial, Watch,
     NoWatch, EnterLoop, PhaseInv
<1>2. CASE Looping \/ Finish \/ TimerFires \/ SyncNow
  BY <1>2 DEF Looping, CtxDone, Tick, Reconcile, TakeRequest, BeginCycle, HandleEvent,
     EventsClosed, WSEvent, SyncForced, WSClosed, DebounceFired, Finish, TimerFires, SyncNow
<1>3. CASE Leave \/ Unwind \/ Stopping
  BY <1>3 DEF Leave, Unwind, Stopping, Announce, BeginStop, StopDeregisters, StopCancels,
     CallerCancels
<1>4. CASE Beating \/ Notifying \/ Observing
  BY <1>4, Zenon DEF Beating, Renew, CheckPhase, Rejoin, BeatEnds, Collect, Notifying, Listen,
     Receive, Disconnect, ListenerEnds, CloseNotifier, Observing, Change, ReaderEnds, ReaderFails,
     ReaderGone, CloseClient
<1>5. CASE Over \/ UNCHANGED vars
  BY <1>5, Zenon DEF Over, vars
<1> QED
  BY <1>1, <1>2, <1>3, <1>4, <1>5 DEF Next

\* PhaseInv next to the types.
LEMMA PhaseStep == TypeOK /\ PhaseInv /\ [Next]_vars => PhaseInv'
BY PhaseCases DEF PhaseInv

\* Phases never go back, whoever of Stop and the end of Start comes first.
THEOREM NeverBackHolds == Spec => NeverBack
<1>1. Init => PhaseInv
  BY DEF Init, PhaseInv
<1>2. TypeOK /\ PhaseInv /\ [Next]_vars => [PhaseRank[phase] <= PhaseRank[phase']]_vars
  BY PhaseCases, Phases DEF TypeOK
<1> QED
  BY TypeInit, TypeStep, <1>1, PhaseStep, <1>2, PTL DEF Spec, NeverBack

----------------------------------------------------------------------------
\* The registry row.  Once the instance is registered only a collection takes the
\* row away before the deregistration does, and after it only a heartbeat that
\* had passed its look at the phase, for a collected row, can put it back.

Excused == "call" \in upset \/ "early" \in upset
Collected == "collected" \in upset
NotUp == {"idle", "entered", "register"}
Done == {"unwind", "returned"}

RowRules ==
    /\ main \in NotUp => ~row /\ beat = "none" /\ stop = "no" /\ ~once
    /\ beat = "none" => ~row
    /\ stop # "no" => Leaving
    /\ once => stop \in {"deregistered", "done"} \/ main \in Done
    /\ ~row /\ beat # "none" => once \/ Collected
    /\ beat = "missed" => Leaving \/ Collected
    /\ beat = "rejoining" => Collected
    /\ main \in Done => beat = "none" \/ (beat = "done" /\ once)
    /\ once /\ row => Collected /\ stop # "no"

RowInv == Excused \/ RowRules

\* A manager that leaves goes on leaving.
LEMMA LeavingStays == ASSUME TypeOK, PhaseInv, [Next]_vars, Leaving PROVE Leaving'
BY PhaseCases, Phases DEF Leaving, TypeOK

\* Only these steps concern the row; any other takes the goroutine of Start from
\* one place between its registration and its end to another, or ends Start.
RowSteps ==
    \/ Register \/ Leave \/ Announce \/ StopDeregisters \/ StopCancels
    \/ Renew \/ CheckPhase \/ Rejoin \/ BeatEnds \/ Collect

\* Every step is one of them or leaves the row and its owner's place alone.
LEMMA RowCases ==
    ASSUME TypeOK, [Next]_vars
    PROVE  \/ RowSteps
           \/ /\ UNCHANGED rowVars
              /\ main' \in NotUp => main \in NotUp
              /\ main' \in Done <=> main \in Done
<1> USE DEF TypeOK, NotUp, Done, startVars
<1>1. CASE Starting /\ ~Register
  BY <1>1 DEF Starting, Enter, KeepCancel, Subscribe, Load, BeginCycle, Dial, Watch,
     NoWatch, EnterLoop
<1>2. CASE Looping \/ Finish \/ TimerFires \/ SyncNow
  BY <1>2 DEF Looping, CtxDone, Tick, Reconcile, TakeRequest, BeginCycle, HandleEvent,
     EventsClosed, WSEvent, SyncForced, WSClosed, DebounceFired, Finish, TimerFires, SyncNow
<1>3. CASE Unwind \/ CallerCancels
  BY <1>3 DEF Unwind, CallerCancels
<1>4. CASE Notifying \/ Observing
  BY <1>4, Zenon DEF Notifying, Listen, Receive, Disconnect, ListenerEnds, CloseNotifier,
     Observing, Change, ReaderEnds, ReaderFails, ReaderGone, CloseClient
<1>5. CASE Over \/ UNCHANGED vars
  BY <1>5, Zenon DEF Over, vars
<1> QED
  BY <1>1, <1>2, <1>3, <1>4, <1>5 DEF Next, Stopping, Beating, RowSteps

\* Excuses add up.
LEMMA ExcusedStays ==
    ASSUME TypeOK, [Next]_vars
    PROVE  (Excused => Excused') /\ (Collected => Collected')
<1>1. upset \subseteq upset'
  <2>1. CASE UNCHANGED rowVars
    BY <2>1 DEF rowVars
  <2>2. CASE Register \/ Rejoin
    BY <2>2 DEF Register, Rejoin, Upserted, NotUpserted, Upset
  <2>3. CASE Leave \/ StopDeregisters
    BY <2>3 DEF Leave, StopDeregisters, Deregister, Upset
  <2>4. CASE Announce \/ Collect
    BY <2>4 DEF Announce, BeginStop, Collect, Upset
  <2>5. CASE StopCancels \/ Renew \/ CheckPhase \/ BeatEnds
    BY <2>5 DEF StopCancels, Renew, CheckPhase, BeatEnds
  <2> QED
    BY <2>1, <2>2, <2>3, <2>4, <2>5, RowCases DEF RowSteps
<1> QED
  BY <1>1 DEF Excused, Collected

\* RowInv next to the types and the phases.
LEMMA RowStep == TypeOK /\ PhaseInv /\ RowInv /\ [Next]_vars => RowInv'
<1> SUFFICES ASSUME TypeOK, PhaseInv, RowRules, [Next]_vars, ~Excused' PROVE RowRules'
  BY ExcusedStays DEF RowInv
<1>1. /\ Leaving => Leaving'
      /\ Collected => Collected'
      /\ "call" \notin upset' /\ "early" \notin upset'
  BY LeavingStays, ExcusedStays DEF Excused
<1>2. CASE /\ UNCHANGED rowVars
           /\ main' \in NotUp => main \in NotUp
           /\ main' \in Done <=> main \in Done
  <2>1. UNCHANGED <<stop, once, row, beat>>
    BY <1>2, Zenon DEF rowVars
  <2>2. /\ main' \in NotUp => ~row' /\ beat' = "none" /\ stop' = "no" /\ ~once'
        /\ once' => stop' \in {"deregistered", "done"} \/ main' \in Done
        /\ main' \in Done => beat' = "none" \/ (beat' = "done" /\ once')
    BY <1>2, <2>1, Zenon DEF RowRules
  <2> QED
    BY <1>1, <2>1, <2>2, Zenon DEF RowRules
<1>3. CASE Register
  <2>1. stop = "no" /\ ~once /\ ~row /\ beat = "none" /\ UNCHANGED <<stop, once>>
    BY <1>3, Zenon DEF RowRules, Register, NotUp
  <2>2. CASE Upserted /\ main' = "subscribe" /\ beat' = "waiting"
    <3>1. row' = TRUE /\ beat' = "waiting" /\ main' = "subscribe"
      BY <2>2, Zenon DEF Upserted
    <3> QED
      BY <2>1, <3>1, Zenon DEF RowRules, NotUp, Done
  <2>3. CASE NotUpserted /\ main' = "unwind" /\ UNCHANGED beat
    <3>1. UNCHANGED <<row, beat>>
      BY <1>1, <2>3, Zenon DEF NotUpserted, Upset
    <3> QED
      BY <2>1, <2>3, <3>1, Zenon DEF RowRules, NotUp, Done
  <2> QED
    BY <1>3, <2>2, <2>3, Zenon DEF Register
<1>4. CASE Leave
  BY <1>1, <1>4, Zenon DEF RowRules, Leave, Deregister, Upset, NotUp, Done
<1>5. CASE Announce
  <2>1. main \notin NotUp
    BY <1>1, <1>5, Zenon DEF Announce, BeginStop, Upset, NotUp
  <2>2. Leaving'
    <3>1. phase \in {"running", "leaving", "stopped"}
      BY <2>1, Phases DEF PhaseInv, TypeOK, NotUp
    <3> QED
      BY <1>5, <3>1, Phases DEF Announce, Leaving
  <2>3. stop = "no" /\ UNCHANGED <<main, once, row, beat>>
    BY <1>5, Zenon DEF Announce, BeginStop
  <2> QED
    BY <1>1, <2>1, <2>2, <2>3, Zenon DEF RowRules
<1>6. CASE StopDeregisters
  BY <1>1, <1>6, Zenon DEF RowRules, StopDeregisters, Deregister, Upset, startVars
<1>7. CASE StopCancels
  BY <1>1, <1>7, Zenon DEF RowRules, StopCancels
<1>8. CASE Renew
  BY <1>1, <1>8, Zenon DEF RowRules, Renew, startVars
<1>9. CASE CheckPhase
  BY <1>1, <1>9, Zenon DEF RowRules, CheckPhase, startVars
<1>10. CASE Rejoin
  BY <1>1, <1>10, Zenon DEF RowRules, Rejoin, Upserted, NotUpserted, Upset, startVars
<1>11. CASE BeatEnds
  BY <1>1, <1>11, Zenon DEF RowRules, BeatEnds, startVars
<1>12. CASE Collect
  BY <1>1, <1>12, Zenon DEF RowRules, Collect, Collected, Upset, startVars
<1> QED
  BY <1>2, <1>3, <1>4, <1>5, <1>6, <1>7, <1>8, <1>9, <1>10, <1>11, <1>12, RowCases
  DEF RowSteps

\* Once Start has returned the instance's row is gone, save for a failed call, a
\* Stop before the row was written, or a Stop that met a heartbeat putting back a
\* row that a peer had collected.
THEOREM LeavesNoRowHolds == Spec => []LeavesNoRow
<1>1. Init => PhaseInv /\ RowInv
  BY Zenon DEF Init, PhaseInv, RowInv, RowRules, NotUp, Done
<1>2. RowInv => LeavesNoRow
  BY Zenon DEF RowInv, RowRules, Excused, Collected, Done, LeavesNoRow
<1> QED
  BY TypeInit, TypeStep, <1>1, PhaseStep, RowStep, <1>2, PTL DEF Spec
=============================================================================
