----------------------------- MODULE Lifecycle -----------------------------
(***************************************************************************)
(* The shell of one manager: Start and its run loop, the heartbeat that    *)
(* runs beside it, Stop and SyncNow called from other goroutines, the      *)
(* subscription to the notify channel, the WebSocket reader, and the       *)
(* instance's row in the registry, which peers may garbage-collect.        *)
(*                                                                         *)
(* What a sync cycle or an event handler does is the matter of             *)
(* EventualSync and TwoPhaseSync; here each is a stretch of time in which  *)
(* the run loop is busy and the other goroutines are not.                  *)
(***************************************************************************)
EXTENDS Sequences, FiniteSets, Integers, SequencesExt

CONSTANTS
    Collections,  \* the registered configs
    Options,      \* the ways the manager may be set up
    BufferCap,    \* slots of the notify and WebSocket channels
    MaxEvents,    \* SyncNow calls, notify events and change events, together
    MaxRare       \* failed calls, lost connections, collections, closes, cancellations

\* transport: the notify implementation.  manual: ManualSyncOnly.  debounce:
\* WSDebounce is not zero.  uses: whether the service gives a WebSocket client,
\* and whether it calls Stop and SyncNow.
Setup == [transport : {"postgres", "redis"}, manual : BOOLEAN, debounce : BOOLEAN,
          uses : SUBSET {"websocket", "Stop", "SyncNow"}]

ASSUME LifecycleAssumption ==
    /\ IsFiniteSet(Collections) /\ Options \subseteq Setup
    /\ BufferCap \in Nat \ {0} /\ MaxEvents \in Nat /\ MaxRare \in Nat

\* The phases are ordered: callers ask by one comparison.
PhaseRank == [p \in {"new", "running", "leaving", "stopped"} |->
                 CASE p = "new" -> 0 [] p = "running" -> 1
                   [] p = "leaving" -> 2 [] p = "stopped" -> 3]

VARIABLES
    opts,      \* the setup, fixed
    phase,     \* m.lifecycle
    main,      \* where the goroutine that called Start is
    then,      \* where it goes on when the cycle or handler in progress ends
    ctx,       \* whether Start's context is live
    canCancel, \* m.cancel is set
    stop,      \* where the call of Stop is
    once,      \* deregisterOnce has fired
    row,       \* the instance's registry row exists
    beat,      \* where the heartbeat goroutine is
    slot,      \* m.syncRequests holds a request
    unserved,  \* history: a request was accepted and no cycle began since
    notifier,  \* the notify channel is open
    listener,  \* the goroutine behind the subscription
    queued,    \* events in the subscription's buffer
    client,    \* the WebSocket client is open
    reader,    \* the goroutine that reads the WebSocket
    watching,  \* wsEvents is not nil
    wsQueue,   \* change events in its buffer
    poll,      \* the interval of the poll ticker
    pending,   \* pendingCollections
    timer,     \* debounceTimer and debounceCh
    unsynced,  \* history: changes received and not synced by force since
    events,    \* requests and events so far
    rare,      \* rare events so far
    upset      \* history: what may excuse a row that outlives the instance

startVars == <<phase, main, then, ctx, canCancel>>
rowVars == <<stop, once, row, beat, upset>>
requestVars == <<slot, unserved>>
notifyVars == <<notifier, listener, queued>>
wsVars == <<client, reader, watching, wsQueue, poll, pending, timer, unsynced>>
vars == <<opts, startVars, rowVars, requestVars, notifyVars, wsVars, events, rare>>

Leaving == PhaseRank[phase] >= PhaseRank["leaving"]

Rare ==
    /\ rare < MaxRare
    /\ rare' = rare + 1

Upset(what) == upset' = upset \cup {what}

Occurs ==
    /\ events < MaxEvents
    /\ events' = events + 1

Live == ctx = "live"
Watches == "websocket" \in opts.uses /\ ~opts.manual

Init ==
    /\ opts \in Options
    /\ phase = "new" /\ main = "idle" /\ then = "loop"
    /\ ctx = "live" /\ canCancel = FALSE
    /\ stop = "no" /\ once = FALSE /\ row = FALSE /\ beat = "none" /\ upset = {}
    /\ slot = FALSE /\ unserved = FALSE
    /\ notifier = TRUE /\ listener = "none" /\ queued = 0
    /\ client = TRUE /\ reader = "none" /\ watching = FALSE
    /\ wsQueue = <<>> /\ poll = "off" /\ pending = {} /\ timer = "none"
    /\ unsynced = {} /\ events = 0 /\ rare = 0

----------------------------------------------------------------------------
\* Start.

Enter ==
    /\ main = "idle"
    /\ phase' = "running" /\ main' = "entered"
    /\ UNCHANGED <<opts, then, ctx, canCancel, rowVars, requestVars, notifyVars,
                   wsVars, events, rare>>

KeepCancel ==
    /\ main = "entered"
    /\ canCancel' = TRUE /\ main' = "register"
    /\ UNCHANGED <<opts, phase, then, ctx, rowVars, requestVars, notifyVars,
                   wsVars, events, rare>>

\* The registry's upsert; under a cancelled context it does nothing, and one
\* that fails, or is cancelled on its way, may have taken effect.
Upserted == Live /\ row' = TRUE /\ UNCHANGED <<rare, upset>>
NotUpserted ==
    \/ ~Live /\ UNCHANGED <<row, rare, upset>>
    \/ Rare /\ row' \in {row, TRUE} /\ Upset("call")

\* A failed Register ends Start before the heartbeat and its deferred
\* deregistration exist.
Register ==
    /\ main = "register"
    /\ \/ Upserted /\ main' = "subscribe" /\ beat' = "waiting"
       \/ NotUpserted /\ main' = "unwind" /\ UNCHANGED beat
    /\ UNCHANGED <<opts, phase, then, ctx, canCancel, stop, once, requestVars,
                   notifyVars, wsVars, events>>

\* notify.Channel.Subscribe.  Redis waits for the confirmation; Postgres
\* issues LISTEN in the listener.
Subscribed ==
    /\ notifier
    /\ opts.transport = "redis" => Live
    /\ listener' = IF opts.transport = "redis" THEN "listening" ELSE "connecting"
    /\ queued' = 0
    /\ UNCHANGED <<notifier, rare>>
NotSubscribed ==
    /\ \/ ~notifier /\ UNCHANGED rare
       \/ opts.transport = "redis" /\ ~Live /\ UNCHANGED rare
       \/ opts.transport = "redis" /\ Rare
    /\ UNCHANGED notifyVars

Subscribe ==
    /\ main \in {"subscribe", "resubscribe"}
    /\ \/ Subscribed /\ main' = IF main = "subscribe" THEN "load" ELSE "loop"
       \/ NotSubscribed /\ main' = "leave"
    /\ UNCHANGED <<opts, phase, then, ctx, canCancel, rowVars, requestVars, wsVars, events>>

\* A cycle over every config begins: requests made so far are served by it.
BeginCycle(next) == main' = "busy" /\ then' = next /\ unserved' = FALSE

\* The loads, then the startup sync; in manual mode only where a config is
\* still empty.
Load ==
    /\ main = "load"
    /\ \/ BeginCycle("dial")
       \/ opts.manual /\ main' = "dial" /\ UNCHANGED <<then, unserved>>
    /\ UNCHANGED <<opts, phase, ctx, canCancel, rowVars, slot, notifyVars,
                   wsVars, events, rare>>

\* SubscribeWith of the WebSocket client looks at closed before it dials and
\* stores its cancel function after, without looking again.
Dial ==
    /\ main = "dial" /\ Watches /\ client
    /\ main' = "dialled"
    /\ UNCHANGED <<opts, phase, then, ctx, canCancel, rowVars, requestVars,
                   notifyVars, wsVars, events, rare>>

EnterLoop(watch) ==
    /\ main' = "loop"
    /\ watching' = watch
    /\ poll' = IF opts.manual THEN "off" ELSE IF watch THEN "safety" ELSE "poll"

Watch ==
    /\ main = "dialled" /\ Live
    /\ EnterLoop(TRUE)
    /\ reader' = "live"
    /\ UNCHANGED <<opts, phase, then, ctx, canCancel, rowVars, requestVars, notifyVars,
                   client, wsQueue, pending, timer, unsynced, events, rare>>

NoWatch ==
    /\ \/ main = "dial" /\ ~(Watches /\ client) /\ UNCHANGED rare
       \/ main = "dialled" /\ ~Live /\ UNCHANGED rare
       \/ main = "dialled" /\ Rare
    /\ EnterLoop(FALSE)
    /\ UNCHANGED <<opts, phase, then, ctx, canCancel, rowVars, requestVars, notifyVars,
                   client, reader, wsQueue, pending, timer, unsynced, events>>

----------------------------------------------------------------------------
\* run: the cases of its select, and the end of the cycle or handler.

Finish ==
    /\ main = "busy"
    /\ main' = then
    /\ UNCHANGED <<opts, phase, then, ctx, canCancel, rowVars, requestVars,
                   notifyVars, wsVars, events, rare>>

CtxDone ==
    /\ main = "loop" /\ ~Live
    /\ main' = "leave"
    /\ UNCHANGED <<opts, phase, then, ctx, canCancel, rowVars, requestVars,
                   notifyVars, wsVars, events, rare>>

\* The poll ticker, and the reconcile ticker outside manual mode.
Tick ==
    /\ main = "loop" /\ ~opts.manual
    /\ BeginCycle("loop")
    /\ UNCHANGED <<opts, phase, ctx, canCancel, rowVars, slot, notifyVars,
                   wsVars, events, rare>>

\* The reconcile ticker in manual mode: the bootstrap while a config is empty,
\* then or otherwise a catch-up only.
Reconcile ==
    /\ main = "loop" /\ opts.manual
    /\ \/ BeginCycle("loop")
       \/ main' = "busy" /\ then' = "loop" /\ UNCHANGED unserved
    /\ UNCHANGED <<opts, phase, ctx, canCancel, rowVars, slot, notifyVars,
                   wsVars, events, rare>>

\* Seeded bug: the request channel is not served in manual mode.
TakeRequestAutomatic ==
    /\ main = "loop" /\ slot /\ ~opts.manual
    /\ slot' = FALSE
    /\ BeginCycle("loop")
    /\ UNCHANGED <<opts, phase, ctx, canCancel, rowVars, notifyVars,
                   wsVars, events, rare>>
TakeRequest ==
    /\ main = "loop" /\ slot
    /\ slot' = FALSE
    /\ BeginCycle("loop")
    /\ UNCHANGED <<opts, phase, ctx, canCancel, rowVars, notifyVars,
                   wsVars, events, rare>>

\* Seeded bug: what a closed channel yields is taken for an event.
HandleEventOrZero ==
    /\ main = "loop" /\ (queued > 0 \/ listener = "closed")
    /\ queued' = queued - 1
    /\ main' = "busy" /\ then' = "loop"
    /\ UNCHANGED <<opts, phase, ctx, canCancel, rowVars, requestVars, notifier,
                   listener, wsVars, events, rare>>
\* handleEvent; what is buffered is received before the close is seen.
HandleEvent ==
    /\ main = "loop" /\ queued > 0
    /\ queued' = queued - 1
    /\ main' = "busy" /\ then' = "loop"
    /\ UNCHANGED <<opts, phase, ctx, canCancel, rowVars, requestVars, notifier,
                   listener, wsVars, events, rare>>

EventsClosed ==
    /\ main = "loop" /\ queued = 0 /\ listener = "closed"
    /\ main' = "resubscribe"
    /\ UNCHANGED <<opts, phase, then, ctx, canCancel, rowVars, requestVars,
                   notifyVars, wsVars, events, rare>>

\* syncOneForced of each collection: it skips the version check.
SyncForced(collections) ==
    /\ main' = "busy" /\ then' = "loop"
    /\ unsynced' = unsynced \ collections

\* A change event waits in pendingCollections for a quiet WSDebounce: each
\* one resets the timer.
WSEvent ==
    /\ main = "loop" /\ watching /\ wsQueue # <<>>
    /\ wsQueue' = Tail(wsQueue)
    /\ IF opts.debounce
       THEN /\ pending' = pending \cup {Head(wsQueue)}
            /\ timer' = "armed"
            /\ UNCHANGED <<main, then, unsynced>>
       ELSE SyncForced({Head(wsQueue)}) /\ UNCHANGED <<pending, timer>>
    /\ UNCHANGED <<opts, phase, ctx, canCancel, rowVars, requestVars, notifyVars,
                   client, reader, watching, poll, events, rare>>

\* Seeded bug: what waits for the timer is given up with the connection.
WSClosedForgetting ==
    /\ main = "loop" /\ watching /\ wsQueue = <<>> /\ reader = "gone"
    /\ watching' = FALSE
    /\ poll' = "poll"
    /\ pending' = {} /\ timer' = "none"
    /\ UNCHANGED <<opts, startVars, rowVars, requestVars, notifyVars, client, reader,
                   wsQueue, unsynced, events, rare>>
WSClosed ==
    /\ main = "loop" /\ watching /\ wsQueue = <<>> /\ reader = "gone"
    /\ watching' = FALSE
    /\ poll' = "poll"
    /\ UNCHANGED <<opts, startVars, rowVars, requestVars, notifyVars, client, reader,
                   wsQueue, pending, timer, unsynced, events, rare>>

\* Seeded bug: the timer is reset and the collections are not.
DebounceFiredKeeping ==
    /\ main = "loop" /\ timer = "fired"
    /\ SyncForced(pending)
    /\ timer' = "none"
    /\ UNCHANGED <<opts, phase, ctx, canCancel, rowVars, requestVars, notifyVars,
                   client, reader, watching, wsQueue, poll, pending, events, rare>>
DebounceFired ==
    /\ main = "loop" /\ timer = "fired"
    /\ SyncForced(pending)
    /\ pending' = {} /\ timer' = "none"
    /\ UNCHANGED <<opts, phase, ctx, canCancel, rowVars, requestVars, notifyVars,
                   client, reader, watching, wsQueue, poll, events, rare>>

TimerFires ==
    /\ timer = "armed"
    /\ timer' = "fired"
    /\ UNCHANGED <<opts, startVars, rowVars, requestVars, notifyVars, client, reader,
                   watching, wsQueue, poll, pending, unsynced, events, rare>>

----------------------------------------------------------------------------
\* The end of Start, and Stop.

\* deregister, at most once per manager.
Deregister ==
    IF once THEN UNCHANGED <<once, row, upset, rare>>
    ELSE /\ once' = TRUE
         /\ \/ row' = FALSE /\ UNCHANGED <<upset, rare>>
            \/ Rare /\ Upset("call") /\ row' \in {row, FALSE}

\* The deferred stopHeartbeat, wait and deregister.
Leave ==
    /\ main = "leave" /\ beat = "done"
    /\ Deregister
    /\ main' = "unwind"
    /\ UNCHANGED <<opts, phase, then, ctx, canCancel, stop, beat, requestVars,
                   notifyVars, wsVars, events>>

\* Seeded bug: the deferred cancel is missing.
UnwindAlive ==
    /\ main = "unwind"
    /\ phase' = "stopped" /\ main' = "returned"
    /\ UNCHANGED <<opts, then, ctx, canCancel, rowVars, requestVars, notifyVars,
                   wsVars, events, rare>>
\* The deferred cancel, then phaseStopped.
Unwind ==
    /\ main = "unwind"
    /\ ctx' = "cancelled" /\ phase' = "stopped" /\ main' = "returned"
    /\ UNCHANGED <<opts, then, canCancel, rowVars, requestVars, notifyVars,
                   wsVars, events, rare>>

\* Stop: the compare-and-swap, deregister, cancel.
BeginStop ==
    /\ stop = "no" /\ "Stop" \in opts.uses
    /\ stop' = "announced"
    /\ IF main \in {"idle", "entered", "register"} THEN Upset("early") ELSE UNCHANGED upset
    /\ UNCHANGED <<opts, main, then, ctx, canCancel, once, row, beat, requestVars,
                   notifyVars, wsVars, events, rare>>

Announce == BeginStop /\ phase' = IF phase = "running" THEN "leaving" ELSE phase

StopDeregisters ==
    /\ stop = "announced"
    /\ stop' = "deregistered"
    /\ Deregister
    /\ UNCHANGED <<opts, startVars, beat, requestVars, notifyVars, wsVars, events>>

\* Seeded bug: a signal that only a waiting run loop receives.
StopSignals ==
    /\ stop = "deregistered"
    /\ stop' = "done"
    /\ ctx' = IF canCancel /\ main = "loop" THEN "cancelled" ELSE ctx
    /\ UNCHANGED <<opts, phase, main, then, canCancel, once, row, beat, upset,
                   requestVars, notifyVars, wsVars, events, rare>>
StopCancels ==
    /\ stop = "deregistered"
    /\ stop' = "done"
    /\ ctx' = IF canCancel THEN "cancelled" ELSE ctx
    /\ UNCHANGED <<opts, phase, main, then, canCancel, once, row, beat, upset,
                   requestVars, notifyVars, wsVars, events, rare>>

\* The caller of Start cancels the context it passed.
CallerCancels ==
    /\ main # "idle" /\ Live
    /\ ctx' = "cancelled"
    /\ UNCHANGED <<opts, phase, main, then, canCancel, rowVars, requestVars,
                   notifyVars, wsVars, events, rare>>

----------------------------------------------------------------------------
\* The heartbeat goroutine, and the peers that collect stale rows.

BeatCancelled == ~Live \/ main = "leave"

\* Seeded bug: an UPDATE that hits no row is an error like any other.
RenewBlindly ==
    /\ beat = "waiting"
    /\ ~BeatCancelled /\ ~row
    /\ beat' = "waiting"
    /\ UNCHANGED <<opts, startVars, stop, once, row, upset, requestVars, notifyVars,
                   wsVars, events, rare>>
\* registry.Heartbeat found no row; a failed call is only logged.
Renew ==
    /\ beat = "waiting"
    /\ ~BeatCancelled /\ ~row
    /\ beat' = "missed"
    /\ UNCHANGED <<opts, startVars, stop, once, row, upset, requestVars, notifyVars,
                   wsVars, events, rare>>

\* Seeded bug: the phase is not looked at.
CheckPhaseNever ==
    /\ beat = "missed"
    /\ beat' = "rejoining"
    /\ UNCHANGED <<opts, startVars, stop, once, row, upset, requestVars, notifyVars,
                   wsVars, events, rare>>
CheckPhase ==
    /\ beat = "missed"
    /\ beat' = IF Leaving THEN "waiting" ELSE "rejoining"
    /\ UNCHANGED <<opts, startVars, stop, once, row, upset, requestVars, notifyVars,
                   wsVars, events, rare>>

\* A Register of the heartbeat, whose context may be cancelled by then.
Rejoin ==
    /\ beat = "rejoining"
    /\ \/ ~BeatCancelled /\ Upserted
       \/ NotUpserted
       \/ BeatCancelled /\ UNCHANGED <<row, rare, upset>>
    /\ beat' = "waiting"
    /\ UNCHANGED <<opts, startVars, stop, once, requestVars, notifyVars, wsVars, events>>

\* Seeded bug: the heartbeat runs under Start's context.
BeatEndsWithContext ==
    /\ beat = "waiting" /\ ~Live
    /\ beat' = "done"
    /\ UNCHANGED <<opts, startVars, stop, once, row, upset, requestVars, notifyVars,
                   wsVars, events, rare>>
BeatEnds ==
    /\ beat = "waiting" /\ BeatCancelled
    /\ beat' = "done"
    /\ UNCHANGED <<opts, startVars, stop, once, row, upset, requestVars, notifyVars,
                   wsVars, events, rare>>

\* DeleteStaleInstances of a peer: the heartbeats were late, or failed.
Collect ==
    /\ row /\ Rare
    /\ row' = FALSE /\ Upset("collected")
    /\ UNCHANGED <<opts, startVars, stop, once, beat, requestVars, notifyVars, wsVars, events>>

----------------------------------------------------------------------------
\* SyncNow: dropped from Stop on, else sent without blocking: a full channel
\* means a request that no cycle has taken.  A phase that moves between its
\* check and the send leaves a request that nobody serves, as before it.

\* Seeded bug: a request made during a cycle is coalesced with that cycle.
SyncNowUnlessBusy ==
    /\ "SyncNow" \in opts.uses /\ ~Leaving /\ Occurs
    /\ slot' = (slot \/ main # "busy") /\ unserved' = TRUE
    /\ UNCHANGED <<opts, startVars, rowVars, notifyVars, wsVars, rare>>
SyncNow ==
    /\ "SyncNow" \in opts.uses /\ ~Leaving /\ Occurs
    /\ slot' = TRUE /\ unserved' = TRUE
    /\ UNCHANGED <<opts, startVars, rowVars, notifyVars, wsVars, rare>>

----------------------------------------------------------------------------
\* The goroutine behind the subscription: listenLoop of Postgres, the
\* anonymous one of Redis.  Its context ends with Start's or with Close.

ListenerCancelled == ~Live \/ ~notifier
Listening == listener \in {"connecting", "listening"}

Listen ==
    /\ listener = "connecting" /\ ~ListenerCancelled
    /\ listener' = "listening"
    /\ UNCHANGED <<opts, startVars, rowVars, requestVars, notifier, queued, wsVars, events, rare>>

\* An event comes in.  With the buffer full, Postgres drops it and Redis
\* waits: one state either way.
Receive ==
    /\ listener = "listening" /\ queued < BufferCap /\ Occurs
    /\ queued' = queued + 1
    /\ UNCHANGED <<opts, startVars, rowVars, requestVars, notifier, listener, wsVars, rare>>

\* Postgres backs off and connects again, under the same subscription; Redis
\* closes it.
Disconnect ==
    /\ Listening /\ Rare
    /\ listener' = IF opts.transport = "postgres" THEN "connecting" ELSE "closed"
    /\ UNCHANGED <<opts, startVars, rowVars, requestVars, notifier, queued, wsVars, events>>

ListenerEnds ==
    /\ Listening /\ ListenerCancelled
    /\ listener' = "closed"
    /\ UNCHANGED <<opts, startVars, rowVars, requestVars, notifier, queued, wsVars, events, rare>>

CloseNotifier ==
    /\ notifier /\ Rare
    /\ notifier' = FALSE
    /\ UNCHANGED <<opts, startVars, rowVars, requestVars, listener, queued, wsVars, events>>

----------------------------------------------------------------------------
\* readLoop of the WebSocket client: it sends with back-pressure.

Change(c) ==
    /\ reader = "live" /\ Len(wsQueue) < BufferCap /\ Occurs
    /\ wsQueue' = Append(wsQueue, c)
    /\ unsynced' = unsynced \cup {c}
    /\ UNCHANGED <<opts, startVars, rowVars, requestVars, notifyVars, client, reader,
                   watching, poll, pending, timer, rare>>

\* A cancelled context or a failed read ends the reader for good.
ReaderGone ==
    /\ reader = "live"
    /\ reader' = "gone"
    /\ UNCHANGED <<opts, startVars, rowVars, requestVars, notifyVars, client, watching,
                   wsQueue, poll, pending, timer, unsynced, events>>
ReaderEnds == ~Live /\ ReaderGone /\ UNCHANGED rare
ReaderFails == Rare /\ ReaderGone

\* Close cancels the reader that is there; one that is still being dialled
\* is not.
CloseClient ==
    /\ client /\ Watches /\ Rare
    /\ client' = FALSE
    /\ reader' = IF reader = "live" THEN "gone" ELSE reader
    /\ UNCHANGED <<opts, startVars, rowVars, requestVars, notifyVars, watching, wsQueue,
                   poll, pending, timer, unsynced, events>>

----------------------------------------------------------------------------
Starting == Enter \/ KeepCancel \/ Register \/ Subscribe \/ Load \/ Dial \/ Watch \/ NoWatch
Looping ==
    \/ CtxDone \/ Tick \/ Reconcile \/ TakeRequest \/ HandleEvent \/ EventsClosed
    \/ WSEvent \/ WSClosed \/ DebounceFired
Stopping == Announce \/ StopDeregisters \/ StopCancels \/ CallerCancels
Beating == Renew \/ CheckPhase \/ Rejoin \/ BeatEnds \/ Collect
Notifying == Listen \/ Receive \/ Disconnect \/ ListenerEnds \/ CloseNotifier
Observing == (\E c \in Collections : Change(c)) \/ ReaderEnds \/ ReaderFails \/ CloseClient

\* Start has returned and nothing it started is left: the rest is silence.
Over == main = "returned" /\ UNCHANGED vars

Next ==
    \/ Starting \/ Looping \/ Finish \/ TimerFires \/ Leave \/ Unwind
    \/ Stopping \/ Beating \/ SyncNow \/ Notifying \/ Observing \/ Over

Spec == Init /\ [][Next]_vars

\* Goroutines run and calls return; Start is called, but nobody has to stop it.
\* A ready case of the select is chosen in the end, for Go picks among the
\* ready ones at random.
Fairness ==
    /\ WF_vars(Starting \/ Finish \/ Leave \/ Unwind)
    /\ WF_vars(StopDeregisters \/ StopCancels)
    /\ WF_vars(Renew \/ CheckPhase \/ Rejoin \/ BeatEnds)
    /\ WF_vars(ListenerEnds) /\ WF_vars(ReaderEnds) /\ WF_vars(TimerFires)
    /\ SF_vars(CtxDone) /\ SF_vars(TakeRequest) /\ SF_vars(HandleEvent)
    /\ SF_vars(EventsClosed) /\ SF_vars(WSEvent) /\ SF_vars(WSClosed)
    /\ SF_vars(DebounceFired)

LiveSpec == Spec /\ Fairness

----------------------------------------------------------------------------
\* The types of the variables.
TypeOK ==
    /\ opts \in Options
    /\ phase \in DOMAIN PhaseRank
    /\ main \in {"idle", "entered", "register", "subscribe", "load", "dial", "dialled",
                 "loop", "busy", "resubscribe", "leave", "unwind", "returned"}
    /\ then \in {"loop", "dial"}
    /\ ctx \in {"live", "cancelled"} /\ canCancel \in BOOLEAN
    /\ stop \in {"no", "announced", "deregistered", "done"}
    /\ once \in BOOLEAN /\ row \in BOOLEAN
    /\ beat \in {"none", "waiting", "missed", "rejoining", "done"}
    /\ upset \subseteq {"call", "early", "collected"}
    /\ slot \in BOOLEAN /\ unserved \in BOOLEAN
    /\ notifier \in BOOLEAN /\ queued \in 0 .. BufferCap
    /\ listener \in {"none", "connecting", "listening", "closed"}
    /\ client \in BOOLEAN /\ reader \in {"none", "live", "gone"}
    /\ watching \in BOOLEAN /\ wsQueue \in BoundedSeq(Collections, BufferCap)
    /\ poll \in {"off", "poll", "safety"}
    /\ pending \subseteq Collections /\ unsynced \subseteq Collections
    /\ timer \in {"none", "armed", "fired"}
    /\ events \in 0 .. MaxEvents /\ rare \in 0 .. MaxRare

\* Once Start has returned, the instance's row is gone (manager.go 263-269),
\* whoever of Stop and Start deletes it, and whatever the heartbeat was doing.
\* The exceptions are a failed registry call, a Stop that began before the
\* row was written, and a Stop that met a heartbeat putting back a collected row.
LeavesNoRow ==
    main = "returned" /\ row =>
        \/ "call" \in upset \/ "early" \in upset
        \/ "collected" \in upset /\ stop # "no"

\* A request that SyncNow accepted, before Start or during a cycle, is still
\* in the channel until a cycle begins (manager.go 367-381).
RequestKept == unserved => slot

\* A change event that was received is synced by force, or still waits in the
\* buffer or in pendingCollections, even after the connection broke.
ChangesKept == unsynced \subseteq pending \cup ToSet(wsQueue)

\* The phases are ordered and never go back, with Stop and the end of Start
\* in a race (manager.go 22-41).
NeverBack == [][PhaseRank[phase] <= PhaseRank[phase']]_vars

\* A Stop that found the cancel function set ends Start, whatever the run loop
\* and the heartbeat are doing.
StopEndsStart == (stop = "announced" /\ canCancel) ~> main = "returned"

\* Closing the notify channel ends Start too: the closed subscription is
\* opened again, which fails.
CloseEndsStart == (~notifier /\ main # "idle") ~> main = "returned"

\* A collected row comes back as long as the instance runs: it does not drop
\* out of its peers' target sets for good (manager.go 400-401).
Rejoins ==
    (phase = "running" /\ main = "loop" /\ ~row)
        ~> (row \/ phase # "running" \/ ~Live \/ main = "leave")

\* Every accepted request is followed by a cycle, unless the manager leaves.
Served == unserved ~> (~unserved \/ Leaving \/ ~Live)

\* Changes that wait for the quiet of WSDebounce are synced in the end, when
\* the stream pauses.
Flushed == pending # {} ~> (pending = {} \/ main = "returned")

\* When Start has returned, the goroutines it started end.
Unwound ==
    main = "returned" ~> (~Listening /\ reader # "live" /\ beat \in {"none", "done"})
=============================================================================
