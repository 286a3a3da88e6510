------------------------- MODULE ConfigViewsProofs -------------------------
(***************************************************************************)
(* What ConfigViews promises for any number of views of any kind, inputs   *)
(* and interleaving of swaps, constructors, closes and saves: a view that  *)
(* is open shows the config when Swap returns, what it shows is what its   *)
(* type computes of the items and what the users of the type expect, and   *)
(* the consumer's copy follows.                                            *)
(***************************************************************************)
EXTENDS ConfigViews, QueriesProofs

----------------------------------------------------------------------------
\* Types.

Known == Inputs \cup {<<>>} \cup {<<item>> : item \in Items}
Snapshot == [version : 0 .. MaxVersion, items : Known]
Hook == Views \cup {NoHook, Mirror}
Built == {"computed", "open", "closed"}
Constructor == {"absent", "warm", "cold", "reading", "read"} \cup Built

OfViews(f) == f = [v \in Views |-> f[v]]
Shown(s) ==
    \E n, m \in 0 .. MaxVersion : \E c : s = [version |-> n, basis |-> m, content |-> c]
Queue(s) == Len(s) <= MaxSaves /\ \E S : s \in Seq(S)

TypeInv ==
    /\ kind \in KindsOfViews
    /\ coll \in Snapshot
    /\ hooks \in Seq(Hook) /\ hooks # <<>>
    /\ swap \in [at : {"idle", "published", "calling"}, old : Known, calls : Seq(Hook)]
    /\ swap.at = "calling" => swap.calls # <<>>
    /\ at \in [Views -> Constructor]
    /\ read \in [Views -> Snapshot]
    /\ OfViews(snap) /\ \A v \in Views : Shown(snap[v])
    /\ late \in [Views -> BOOLEAN]
    /\ OfViews(heard)
    /\ OfViews(store)
    /\ OfViews(saving) /\ \A v \in Views : Queue(saving[v])
    /\ restarts \in 0 .. MaxRestarts

\* A view is of one of the six types; those without hooks are not watched.
LEMMA Kinds ==
    ASSUME kind \in KindsOfViews, NEW v \in Views
    PROVE  /\ kind[v].of \in ViewTypes /\ kind[v].persistent \in BOOLEAN
           /\ kind[v].of \in {"indexedT", "singleton"} => ~kind[v].watched
BY ViewsAssumption

\* The names in a list of hooks are those of different things.
LEMMA HookNames ==
    /\ NoHook \notin Views /\ Mirror \notin Views /\ NoHook # Mirror
    /\ Mirror \notin Panicky
BY ViewsAssumption

\* The initial snapshot is one, and so is each that a constructor starts from.
LEMMA UnloadedType ==
    /\ Unloaded \in Snapshot /\ Shown(NoSnap) /\ NoSwap.at = "idle"
    /\ NoSwap \in [at : {"idle", "published", "calling"}, old : Known, calls : Seq(Hook)]
    /\ \A n \in 0 .. MaxVersion : [Unloaded EXCEPT !.version = n] \in Snapshot
<1>1. 0 \in 0 .. MaxVersion /\ <<>> \in Known /\ <<>> \in Seq(Hook)
  BY ViewsAssumption DEF Known
<1> QED
  BY <1>1 DEF Unloaded, NoSnap, NoSwap, Shown, Snapshot

\* A queue of saves with room for one more.
LEMMA QueueAppend ==
    ASSUME NEW s, Queue(s), Len(s) < MaxSaves, NEW c
    PROVE  Queue(Append(s, c))
<1>1. PICK S : s \in Seq(S)
  BY DEF Queue
<1>2. s \in Seq(S \cup {c}) /\ Len(s) \in Nat
  BY <1>1
<1>3. Append(s, c) \in Seq(S \cup {c}) /\ Len(Append(s, c)) = Len(s) + 1
  BY <1>2
<1> QED
  BY <1>2, <1>3, ViewsAssumption DEF Queue

\* A queue that a save has left.
LEMMA QueueRemove ==
    ASSUME NEW s, Queue(s), NEW i \in DOMAIN s
    PROVE  Queue(RemoveAt(s, i))
<1>1. PICK S : s \in Seq(S)
  BY DEF Queue
<1>2. i \in 1 .. Len(s) /\ Len(s) \in Nat
  BY <1>1
<1> DEFINE before == SubSeq(s, 1, i - 1)
           after == SubSeq(s, i + 1, Len(s))
<1>3. /\ before \in Seq(S) /\ Len(before) = i - 1
      /\ after \in Seq(S) /\ Len(after) = Len(s) - i
  BY <1>1, <1>2
<1> HIDE DEF before, after
<1>4. before \o after \in Seq(S) /\ Len(before \o after) = Len(s) - 1
  <2>1. before \o after \in Seq(S) /\ Len(before \o after) = Len(before) + Len(after)
    BY <1>3, ConcatProperties
  <2> QED
    BY <1>2, <1>3, <2>1
<1>5. RemoveAt(s, i) = before \o after
  BY DEF RemoveAt, before, after
<1> QED
  BY <1>2, <1>4, <1>5, ViewsAssumption DEF Queue

\* A list of hooks stays one when an entry is cleared.
LEMMA WithoutType ==
    ASSUME NEW list \in Seq(Hook), NEW h
    PROVE  /\ Without(list, h) \in Seq(Hook) /\ DOMAIN Without(list, h) = DOMAIN list
           /\ list # <<>> => Without(list, h) # <<>>
<1>1. DOMAIN list = 1 .. Len(list) /\ Len(list) \in Nat
  OBVIOUS
<1>2. \A i \in 1 .. Len(list) : Without(list, h)[i] \in Hook
  BY <1>1 DEF Without, Hook
<1>3. Without(list, h) \in [1 .. Len(list) -> Hook]
  BY <1>1, <1>2 DEF Without
<1>4. Without(list, h) \in Seq(Hook) /\ DOMAIN Without(list, h) = 1 .. Len(list)
  BY <1>1, <1>3, SeqDef
<1> QED
  BY <1>1, <1>4

----------------------------------------------------------------------------
\* What a computation does, whatever the type of the view.

\* The contents that a view may show of given items.
Results(v, items) ==
    CASE kind[v].of = "view" -> applyFilters(items, kind[v].stages)
      [] kind[v].of = "indexed" -> {Group(items)}
      [] kind[v].of = "indexedT" -> {GroupValues(items)}
      [] kind[v].of = "related" -> {Flatten(items)}
      [] kind[v].of \in {"translated", "singleton"} -> {Translated(items)}
Computes(v, from, content) ==
    /\ content \in Results(v, from.items)
    /\ Install(v, from, content)
    /\ \/ UNCHANGED saving
       \/ /\ Len(saving[v]) < MaxSaves
          /\ saving' = [saving EXCEPT ![v] = Append(saving[v], content)]
    /\ Tell(v, content) \/ (UNCHANGED heard /\ ~kind[v].watched)

\* It installs a result, queues at most one save of it, and tells its hooks if
\* its type has any.
LEMMA Recomputes ==
    ASSUME kind \in KindsOfViews, NEW v \in Views, NEW from, recompute(v, from)
    PROVE  \E content : Computes(v, from, content)
<1> USE Kinds DEF ViewTypes
<1>1. ASSUME NEW content, Persist(v, content)
      PROVE  \/ UNCHANGED saving
             \/ /\ Len(saving[v]) < MaxSaves
                /\ saving' = [saving EXCEPT ![v] = Append(saving[v], content)]
  BY <1>1 DEF Persist
<1>2. CASE kind[v].of = "view"
  <2>1. recomputeView(v, from)
    BY <1>2 DEF recompute
  <2>2. PICK content \in applyFilters(from.items, kind[v].stages) :
          Install(v, from, content) /\ Persist(v, content) /\ Tell(v, content)
    BY <2>1 DEF recomputeView
  <2>3. content \in Results(v, from.items)
    BY <1>2 DEF Results
  <2> QED
    BY <1>1, <2>2, <2>3 DEF Computes
<1>3. CASE kind[v].of = "indexed"
  <2> DEFINE content == Group(from.items)
  <2>1. Install(v, from, content) /\ Persist(v, content) /\ Tell(v, content)
    BY <1>3 DEF recompute, recomputeIndex
  <2>2. content \in Results(v, from.items)
    BY <1>3 DEF Results
  <2> QED
    BY <1>1, <2>1, <2>2 DEF Computes
<1>4. CASE kind[v].of = "indexedT"
  <2> DEFINE content == GroupValues(from.items)
  <2>1. Install(v, from, content) /\ Persist(v, content) /\ UNCHANGED heard
    BY <1>4 DEF recompute, recomputeIndexT
  <2>2. content \in Results(v, from.items) /\ ~kind[v].watched
    BY <1>4 DEF Results
  <2> QED
    BY <1>1, <2>1, <2>2 DEF Computes
<1>5. CASE kind[v].of = "related"
  <2> DEFINE content == Flatten(from.items)
  <2>1. Install(v, from, content) /\ Tell(v, content) /\ UNCHANGED saving
    BY <1>5 DEF recompute, recomputeRelated
  <2>2. content \in Results(v, from.items)
    BY <1>5 DEF Results
  <2> QED
    BY <2>1, <2>2 DEF Computes
<1>6. CASE kind[v].of = "translated"
  <2> DEFINE content == Translated(from.items)
  <2>1. Install(v, from, content) /\ Persist(v, content) /\ Tell(v, content)
    BY <1>6 DEF recompute, retranslate
  <2>2. content \in Results(v, from.items)
    BY <1>6 DEF Results
  <2> QED
    BY <1>1, <2>1, <2>2 DEF Computes
<1>7. CASE kind[v].of = "singleton"
  <2> DEFINE content == Translated(from.items)
  <2>1. Install(v, from, content) /\ Persist(v, content) /\ UNCHANGED heard
    BY <1>7 DEF recompute, recomputeSingleton
  <2>2. content \in Results(v, from.items) /\ ~kind[v].watched
    BY <1>7 DEF Results
  <2> QED
    BY <1>1, <2>1, <2>2 DEF Computes
<1> QED
  BY <1>2, <1>3, <1>4, <1>5, <1>6, <1>7

\* The variables that it changes keep their types.
LEMMA ComputeTypes ==
    ASSUME TypeInv, NEW v \in Views, NEW from, from.version \in 0 .. MaxVersion,
           from.basis \in 0 .. MaxVersion, recompute(v, from)
    PROVE  /\ OfViews(snap)' /\ \A w \in Views : Shown(snap'[w])
           /\ OfViews(saving)' /\ \A w \in Views : Queue(saving'[w])
           /\ OfViews(heard)'
<1>1. PICK content : Computes(v, from, content)
  BY Recomputes DEF TypeInv
<1> DEFINE shown == [version |-> from.version, basis |-> from.basis, content |-> content]
<1>2. Shown(shown)
  BY DEF Shown
<1>3. snap' = [snap EXCEPT ![v] = shown]
  BY <1>1 DEF Computes, Install
<1> HIDE DEF shown
<1>4. OfViews(snap)' /\ \A w \in Views : Shown(snap'[w])
  BY <1>2, <1>3 DEF TypeInv, OfViews
<1>5. OfViews(saving)' /\ \A w \in Views : Queue(saving'[w])
  <2>1. CASE UNCHANGED saving
    BY <2>1 DEF TypeInv, OfViews
  <2>2. CASE /\ Len(saving[v]) < MaxSaves
             /\ saving' = [saving EXCEPT ![v] = Append(saving[v], content)]
    <3>1. Queue(Append(saving[v], content))
      BY <2>2, QueueAppend DEF TypeInv
    <3> QED
      BY <2>2, <3>1 DEF TypeInv, OfViews
  <2> QED
    BY <1>1, <2>1, <2>2 DEF Computes
<1>6. OfViews(heard)'
  BY <1>1 DEF Computes, Tell, TypeInv, OfViews
<1> QED
  BY <1>4, <1>5, <1>6

----------------------------------------------------------------------------
\* The types are inductive.

\* The initial states are typed.
LEMMA TypeInit == Init => TypeInv
<1> SUFFICES ASSUME Init PROVE TypeInv
  OBVIOUS
<1>1. hooks \in Seq(Hook) /\ hooks = <<Mirror>>
  BY DEF Init, Hook
<1>2. \A v \in Views : Queue(saving[v])
  <2>1. Queue(<<>>)
    BY ViewsAssumption DEF Queue
  <2> QED
    BY <2>1 DEF Init
<1> QED
  BY <1>1, <1>2, UnloadedType, ViewsAssumption DEF Init, TypeInv, OfViews, Constructor

\* A swap that publishes and takes the hooks keeps the types.
LEMMA SwapTypes ==
    ASSUME TypeInv, (\E items \in Known : Publish(items)) \/ Capture
    PROVE  TypeInv'
<1> USE DEF TypeInv
<1>1. ASSUME NEW items \in Known, Publish(items) PROVE TypeInv'
  <2>1. coll' \in Snapshot
    BY <1>1, ViewsAssumption DEF Publish, Snapshot
  <2>2. <<>> \in Seq(Hook) /\ coll.items \in Known
    BY DEF Snapshot
  <2> QED
    BY <1>1, <2>1, <2>2 DEF Publish, viewVars, OfViews
<1>2. ASSUME Capture PROVE TypeInv'
  BY <1>2 DEF Capture, viewVars, OfViews
<1> QED
  BY <1>1, <1>2

\* So does one that calls a hook.
LEMMA CallTypes ==
    ASSUME TypeInv, CallHook
    PROVE  TypeInv'
<1> DEFINE h == Head(swap.calls)
<1> USE DEF TypeInv
<1>1. swap.at = "calling" /\ (Called(h) \/ Passed(h))
  BY DEF CallHook
<1>2. swap' \in [at : {"idle", "published", "calling"}, old : Known, calls : Seq(Hook)]
  <2>1. Tail(swap.calls) \in Seq(Hook)
    BY <1>1 DEF CallHook
  <2> QED
    BY <2>1, UnloadedType DEF CallHook, After
<1>3. swap'.at = "calling" => swap'.calls # <<>>
  BY UnloadedType DEF CallHook, After
<1>4. UNCHANGED <<kind, coll, hooks, at, read, store, restarts>>
  BY DEF CallHook
<1>5. CASE UNCHANGED <<snap, late, heard, saving>>
  BY <1>2, <1>3, <1>4, <1>5 DEF OfViews
<1>6. CASE /\ h \in Views /\ late' = [late EXCEPT ![h] = FALSE]
           /\ recompute(h, [version |-> coll.version, basis |-> coll.version,
                            items |-> coll.items])
  <2>1. coll.version \in 0 .. MaxVersion
    BY DEF Snapshot
  <2>2. /\ OfViews(snap)' /\ \A w \in Views : Shown(snap'[w])
        /\ OfViews(saving)' /\ \A w \in Views : Queue(saving'[w])
        /\ OfViews(heard)'
    BY <1>6, <2>1, ComputeTypes
  <2> QED
    BY <1>2, <1>3, <1>4, <1>6, <2>2 DEF OfViews
<1> QED
  BY <1>1, <1>5, <1>6 DEF Called, Passed

\* A step of a constructor keeps them.
LEMMA BuildTypes ==
    ASSUME TypeInv, NEW v \in Views,
           \/ loadFromPersistence(v) \/ Keep(v) \/ ReadAll(v) \/ NewRelatedView(v)
           \/ NewSingletonView(v) \/ ComputeFirst(v) \/ ReadVersion(v) \/ TranslateFirst(v)
    PROVE  TypeInv'
<1> USE DEF TypeInv
<1>1. coll.version \in 0 .. MaxVersion /\ read[v].version \in 0 .. MaxVersion
  BY DEF Snapshot
<1>2. at' \in [Views -> Constructor]
  BY DEF loadFromPersistence, Keep, ReadAll, NewRelatedView, NewSingletonView, ComputeFirst,
     ReadVersion, TranslateFirst, Steps, Constructor, Built
<1>3. CASE loadFromPersistence(v)
  <2>1. OfViews(snap)' /\ \A w \in Views : Shown(snap'[w])
    <3>1. CASE UNCHANGED snap
      BY <3>1 DEF OfViews
    <3>2. CASE snap' = [snap EXCEPT ![v].content = store[v]]
      <4>1. PICK n \in 0 .. MaxVersion, m \in 0 .. MaxVersion :
               \E c : snap[v] = [version |-> n, basis |-> m, content |-> c]
        BY DEF Shown
      <4>2. snap' = [snap EXCEPT ![v] = [version |-> n, basis |-> m, content |-> store[v]]]
        <5>1. snap' = [snap EXCEPT ![v] = [snap[v] EXCEPT !.content = store[v]]]
          BY <3>2
        <5>2. [snap[v] EXCEPT !.content = store[v]] =
                [version |-> n, basis |-> m, content |-> store[v]]
          BY <4>1
        <5> QED
          BY <5>1, <5>2
      <4>3. Shown([version |-> n, basis |-> m, content |-> store[v]])
        BY DEF Shown
      <4> HIDE DEF Shown
      <4> QED
        BY <4>2, <4>3 DEF OfViews
    <3> QED
      BY <1>3, <3>1, <3>2 DEF loadFromPersistence
  <2> QED
    BY <1>2, <1>3, <2>1 DEF loadFromPersistence, OfViews
<1>4. CASE Keep(v) \/ ReadAll(v) \/ NewRelatedView(v) \/ NewSingletonView(v) \/ ReadVersion(v)
  <2>1. read' \in [Views -> Snapshot]
    BY <1>1, <1>4, UnloadedType
    DEF Keep, ReadAll, NewRelatedView, NewSingletonView, ReadVersion, Reads
  <2> QED
    BY <1>2, <1>4, <2>1
    DEF Keep, ReadAll, NewRelatedView, NewSingletonView, ReadVersion, OfViews
<1>5. CASE ComputeFirst(v)
  <2>1. recompute(v, [version |-> coll.version, basis |-> read[v].version,
                      items |-> read[v].items])
    BY <1>5 DEF ComputeFirst
  <2>2. /\ OfViews(snap)' /\ \A w \in Views : Shown(snap'[w])
        /\ OfViews(saving)' /\ \A w \in Views : Queue(saving'[w])
        /\ OfViews(heard)'
    BY <1>1, <2>1, ComputeTypes
  <2> QED
    BY <1>2, <1>5, <2>2 DEF ComputeFirst, OfViews
<1>6. CASE TranslateFirst(v)
  <2>1. recompute(v, [version |-> read[v].version, basis |-> coll.version,
                      items |-> coll.items])
    BY <1>6 DEF TranslateFirst, recompute
  <2>2. /\ OfViews(snap)' /\ \A w \in Views : Shown(snap'[w])
        /\ OfViews(saving)' /\ \A w \in Views : Queue(saving'[w])
        /\ OfViews(heard)'
    BY <1>1, <2>1, ComputeTypes
  <2> QED
    BY <1>2, <1>6, <2>2 DEF TranslateFirst, OfViews
<1> QED
  BY <1>3, <1>4, <1>5, <1>6

\* So does every other step.
LEMMA OtherTypes ==
    ASSUME TypeInv,
           \/ Restart
           \/ \E v \in Views : \/ Subscribe(v) \/ Watch(v) \/ Close(v)
                               \/ \E i \in DOMAIN saving[v] : Saved(v, i)
    PROVE  TypeInv'
<1> USE DEF TypeInv
<1>1. CASE Restart
  <2>1. <<Mirror>> \in Seq(Hook) /\ <<Mirror>> # <<>> /\ Queue(<<>>)
    BY ViewsAssumption DEF Hook, Queue
  <2>2. restarts' \in 0 .. MaxRestarts
    BY <1>1, ViewsAssumption DEF Restart
  <2> QED
    BY <1>1, <2>1, <2>2, UnloadedType DEF Restart, OfViews, Constructor
<1>2. ASSUME NEW v \in Views, Subscribe(v) PROVE TypeInv'
  <2>1. at' \in [Views -> Constructor] /\ hooks' \in Seq(Hook) /\ hooks' # <<>>
    BY <1>2 DEF Subscribe, Steps, OnChange, Constructor, Built, Hook
  <2>2. read' \in [Views -> Snapshot] /\ late' \in [Views -> BOOLEAN]
    BY <1>2, UnloadedType DEF Subscribe, Reads
  <2> QED
    BY <1>2, <2>1, <2>2 DEF Subscribe, OfViews
<1>3. ASSUME NEW v \in Views, Watch(v) PROVE TypeInv'
  BY <1>3 DEF Watch, OfViews
<1>4. ASSUME NEW v \in Views, Close(v) PROVE TypeInv'
  <2>1. at' \in [Views -> Constructor] /\ hooks' \in Seq(Hook) /\ hooks' # <<>>
    BY <1>4, WithoutType DEF Close, Steps, Unregister, Constructor, Built
  <2>2. /\ swap' \in [at : {"idle", "published", "calling"}, old : Known, calls : Seq(Hook)]
        /\ swap'.at = "calling" => swap'.calls # <<>>
    BY <1>4, WithoutType DEF Close, Unread
  <2> QED
    BY <1>4, <2>1, <2>2 DEF Close, OfViews
<1>5. ASSUME NEW v \in Views, NEW i \in DOMAIN saving[v], Saved(v, i) PROVE TypeInv'
  <2>1. Queue(RemoveAt(saving[v], i))
    BY QueueRemove
  <2> HIDE DEF Queue
  <2>2. OfViews(saving)' /\ \A w \in Views : Queue(saving'[w])
    BY <1>5, <2>1 DEF Saved, OfViews
  <2>3. OfViews(store)'
    BY <1>5 DEF Saved, OfViews
  <2> QED
    BY <1>5, <2>2, <2>3 DEF Saved, viewVars, OfViews
<1> QED
  BY <1>1, <1>2, <1>3, <1>4, <1>5

\* What a swap may publish.
LEMMA NextCases ==
    ASSUME Next
    PROVE  \/ \E items \in Known : Publish(items)
           \/ Capture \/ CallHook \/ Restart
           \/ \E v \in Views :
                \/ loadFromPersistence(v) \/ Keep(v) \/ ReadAll(v) \/ NewRelatedView(v)
                \/ NewSingletonView(v) \/ ComputeFirst(v) \/ ReadVersion(v)
                \/ TranslateFirst(v) \/ Subscribe(v) \/ Watch(v) \/ Close(v)
                \/ \E i \in DOMAIN saving[v] : Saved(v, i)
<1>1. ASSUME NEW items \in Inputs, SwapItems(items) PROVE \E i \in Known : Publish(i)
  BY <1>1 DEF SwapItems, Known
<1>2. ASSUME NEW item \in Items, SwapValue(item) PROVE \E i \in Known : Publish(i)
  BY <1>2 DEF SwapValue, Known
<1> QED
  BY <1>1, <1>2 DEF Next

\* Every step keeps the types.
LEMMA TypeStep ==
    ASSUME TypeInv, Next
    PROVE  TypeInv'
BY NextCases, SwapTypes, CallTypes, BuildTypes, OtherTypes

\* Every variable has its type, and no more saves of a view are in flight than
\* the semaphore allows: TypeOK, for every value of the constants.
THEOREM TypesHold == Spec => []TypeOK
<1>1. TypeInv /\ [Next]_vars => TypeInv'
  <2>1. TypeInv /\ UNCHANGED vars => TypeInv'
    BY DEF TypeInv, vars, viewVars, OfViews
  <2> QED
    BY <2>1, TypeStep
<1>2. TypeInv => TypeOK
  <2> SUFFICES ASSUME TypeInv PROVE TypeOK
    OBVIOUS
  <2>1. ASSUME NEW v \in Views
        PROVE  snap[v].version \in 0 .. MaxVersion /\ snap[v].basis \in 0 .. MaxVersion
    <3>1. Shown(snap[v])
      BY DEF TypeInv
    <3>2. PICK n \in 0 .. MaxVersion, m \in 0 .. MaxVersion :
             \E c : snap[v] = [version |-> n, basis |-> m, content |-> c]
      BY <3>1 DEF Shown
    <3> QED
      BY <3>2
  <2>2. coll.version \in 0 .. MaxVersion /\ coll.items \in Known
    BY DEF TypeInv, Snapshot
  <2>3. \A i \in DOMAIN hooks : hooks[i] \in Views \cup {NoHook, Mirror}
    BY DEF TypeInv, Hook
  <2>4. \A v \in Views : at[v] \in Constructor /\ late[v] \in BOOLEAN /\ Len(saving[v]) <= MaxSaves
    BY DEF TypeInv, Queue
  <2>5. swap.at \in {"idle", "published", "calling"} /\ (swap.at = "calling" => swap.calls # <<>>)
    BY DEF TypeInv
  <2>6. kind \in KindsOfViews /\ restarts \in 0 .. MaxRestarts
    BY DEF TypeInv
  <2> QED
    BY <2>1, <2>2, <2>3, <2>4, <2>5, <2>6 DEF TypeOK, Constructor, Built, Known
<1> QED
  BY TypeInit, <1>1, <1>2, PTL DEF Spec

----------------------------------------------------------------------------
\* Which hooks a swap calls.

In(list, h) == \E i \in DOMAIN list : list[i] = h
First(list) == \A i \in DOMAIN list : list[i] = Mirror => i = 1

\* The consumer's hook is the first, and there once; a view's hook is there
\* while the view is open.  A swap in progress calls the hooks of views that
\* are open, or were when it took them.
Hooked ==
    /\ First(hooks) /\ hooks[1] = Mirror /\ First(swap.calls)
    /\ \A v \in Views : at[v] = "open" <=> In(hooks, v)
    /\ \A v \in Views : In(swap.calls, v) => at[v] \in {"open", "closed"}

\* What is in a list after an entry was cleared.
LEMMA InWithout ==
    ASSUME NEW list, NEW h, NEW other, other # NoHook
    PROVE  In(Without(list, h), other) <=> (In(list, other) /\ other # h)
BY DEF In, Without

\* What is in a list that has one more.
LEMMA InAppend ==
    ASSUME NEW list \in Seq(Hook), NEW h \in Hook, NEW other
    PROVE  In(Append(list, h), other) <=> (In(list, other) \/ other = h)
<1>1. Len(list) \in Nat /\ DOMAIN list = 1 .. Len(list)
  OBVIOUS
<1>2. DOMAIN Append(list, h) = 1 .. Len(list) + 1
  BY <1>1
<1>3. /\ \A i \in 1 .. Len(list) : Append(list, h)[i] = list[i]
      /\ Append(list, h)[Len(list) + 1] = h
  BY <1>1
<1>4. Len(list) + 1 \in 1 .. Len(list) + 1 /\ 1 .. Len(list) \subseteq 1 .. Len(list) + 1
  BY <1>1
<1>5. \A i \in 1 .. Len(list) + 1 : i \in 1 .. Len(list) \/ i = Len(list) + 1
  BY <1>1
<1> QED
  BY <1>1, <1>2, <1>3, <1>4, <1>5 DEF In

\* What is in a list without its first.
LEMMA InTail ==
    ASSUME NEW list \in Seq(Hook), list # <<>>, NEW other
    PROVE  /\ In(Tail(list), other) => In(list, other)
           /\ In(list, other) => (In(Tail(list), other) \/ other = Head(list))
           /\ First(list) => ~In(Tail(list), Mirror)
           /\ Head(list) = list[1]
<1>1. /\ Len(list) \in Nat /\ DOMAIN list = 1 .. Len(list) /\ Len(list) > 0
      /\ DOMAIN Tail(list) = 1 .. Len(list) - 1
      /\ \A i \in 1 .. Len(list) - 1 : Tail(list)[i] = list[i + 1]
      /\ Head(list) = list[1]
  OBVIOUS
<1>2. ASSUME NEW i \in 1 .. Len(list) - 1
      PROVE  i + 1 \in 1 .. Len(list) /\ i + 1 # 1
  BY <1>1
<1>3. ASSUME NEW i \in 1 .. Len(list), i # 1
      PROVE  /\ i - 1 \in 1 .. Len(list) - 1
             /\ Tail(list)[i - 1] = list[i]
  <2>1. i - 1 \in 1 .. Len(list) - 1
    BY <1>1, <1>3
  <2>2. Tail(list)[i - 1] = list[(i - 1) + 1] /\ (i - 1) + 1 = i
    BY <1>1, <2>1
  <2> QED
    BY <2>1, <2>2
<1>4. In(Tail(list), other) => In(list, other)
  BY <1>1, <1>2 DEF In
<1>5. In(list, other) => (In(Tail(list), other) \/ other = Head(list))
  BY <1>1, <1>3 DEF In
<1>6. First(list) => ~In(Tail(list), Mirror)
  BY <1>1, <1>2 DEF In, First
<1> QED
  BY <1>1, <1>4, <1>5, <1>6

\* A list with the consumer's hook alone.
LEMMA OnlyMirror ==
    /\ First(<<Mirror>>) /\ <<Mirror>>[1] = Mirror /\ First(<<>>)
    /\ \A v \in Views : ~In(<<Mirror>>, v) /\ ~In(<<>>, v)
    /\ NoSwap.calls = <<>> /\ NoSwap.at = "idle" /\ NoSwap.old = <<>>
<1>1. DOMAIN <<Mirror>> = {1} /\ <<Mirror>>[1] = Mirror /\ DOMAIN <<>> = {}
  OBVIOUS
<1> QED
  BY <1>1, HookNames DEF First, In, NoSwap

\* A list of hooks after one of them was cleared, or another one added.
LEMMA FirstKept ==
    ASSUME NEW list \in Seq(Hook), list # <<>>, First(list), NEW v \in Views
    PROVE  /\ First(Without(list, v)) /\ First(Append(list, v))
           /\ list[1] = Mirror => Without(list, v)[1] = Mirror /\ Append(list, v)[1] = Mirror
<1>1. /\ Len(list) \in Nat /\ DOMAIN list = 1 .. Len(list) /\ 1 \in DOMAIN list
      /\ DOMAIN Append(list, v) = 1 .. Len(list) + 1
      /\ \A i \in 1 .. Len(list) + 1 :
            Append(list, v)[i] = list[i] \/ (i = Len(list) + 1 /\ Append(list, v)[i] = v)
      /\ Append(list, v)[1] = list[1]
  BY DEF Hook
<1>2. First(Append(list, v))
  <2> SUFFICES ASSUME NEW i \in 1 .. Len(list) + 1, Append(list, v)[i] = Mirror
               PROVE  i = 1
    BY <1>1 DEF First
  <2>1. i # Len(list) + 1
    BY HookNames
  <2> QED
    BY <1>1, <2>1 DEF First
<1>3. First(Without(list, v)) /\ (list[1] = Mirror => Without(list, v)[1] = Mirror)
  BY <1>1, HookNames DEF First, Without
<1> QED
  BY <1>1, <1>2, <1>3

\* No view is open at first.
LEMMA HookedInit == Init => Hooked
BY OnlyMirror DEF Init, Hooked

\* Swap takes the hooks as they are, and calls each once.
LEMMA SwapHooked ==
    ASSUME TypeInv, Hooked, (\E items \in Known : Publish(items)) \/ Capture \/ CallHook
    PROVE  Hooked'
<1>1. UNCHANGED <<hooks, at>>
  BY DEF Publish, Capture, CallHook, viewVars
<1>2. /\ First(swap'.calls)
      /\ \A v \in Views : In(swap'.calls, v) => at[v] \in {"open", "closed"}
  <2>1. CASE \E items \in Known : Publish(items)
    BY <2>1, OnlyMirror DEF Publish
  <2>2. CASE Capture
    <3>1. swap'.calls = hooks
      BY <2>2 DEF Capture, TypeInv
    <3> QED
      BY <3>1 DEF Hooked
  <2>3. CASE CallHook
    <3>1. swap.calls \in Seq(Hook) /\ swap.calls # <<>>
      BY <2>3 DEF CallHook, TypeInv
    <3>2. swap'.calls \in {<<>>, Tail(swap.calls)}
      BY <2>3, OnlyMirror DEF CallHook, After, TypeInv
    <3>3. ~In(Tail(swap.calls), Mirror)
      BY <3>1, InTail DEF Hooked
    <3>4. First(Tail(swap.calls))
      BY <3>3 DEF First, In
    <3>5. \A v \in Views : In(Tail(swap.calls), v) => In(swap.calls, v)
      BY <3>1, InTail
    <3> QED
      BY <3>2, <3>4, <3>5, OnlyMirror DEF Hooked
  <2> QED
    BY <2>1, <2>2, <2>3
<1> QED
  BY <1>1, <1>2 DEF Hooked

\* A constructor before its last step has no hook, and is not called.
LEMMA BuildHooked ==
    ASSUME TypeInv, Hooked, NEW v \in Views,
           \/ loadFromPersistence(v) \/ Keep(v) \/ ReadAll(v) \/ NewRelatedView(v)
           \/ NewSingletonView(v) \/ ComputeFirst(v) \/ ReadVersion(v) \/ TranslateFirst(v)
    PROVE  Hooked'
<1>1. UNCHANGED <<hooks, swap>>
  BY DEF loadFromPersistence, Keep, ReadAll, NewRelatedView, NewSingletonView, ComputeFirst,
     ReadVersion, TranslateFirst
<1>2. /\ at[v] \notin {"open", "closed"} /\ at'[v] # "open"
      /\ \A w \in Views : w # v => at'[w] = at[w]
  BY DEF loadFromPersistence, Keep, ReadAll, NewRelatedView, NewSingletonView, ComputeFirst,
     ReadVersion, TranslateFirst, Steps, TypeInv
<1> QED
  BY <1>1, <1>2 DEF Hooked

\* Opening a view registers its hook and closing it clears the hook.
LEMMA OtherHooked ==
    ASSUME TypeInv, Hooked,
           \/ Restart
           \/ \E v \in Views : \/ Subscribe(v) \/ Watch(v) \/ Close(v)
                               \/ \E i \in DOMAIN saving[v] : Saved(v, i)
    PROVE  Hooked'
<1>1. CASE Restart
  <2>1. hooks' = <<Mirror>> /\ swap' = NoSwap /\ \A v \in Views : at'[v] = "absent"
    BY <1>1 DEF Restart
  <2> QED
    BY <2>1, OnlyMirror DEF Hooked
<1>2. ASSUME NEW v \in Views, Subscribe(v) PROVE Hooked'
  <2>1. /\ at[v] = "computed" /\ at'[v] = "open" /\ \A w \in Views : w # v => at'[w] = at[w]
        /\ UNCHANGED swap /\ hooks' = Append(hooks, v)
    BY <1>2 DEF Subscribe, Steps, OnChange, TypeInv
  <2>2. \A w \in Views : In(hooks', w) <=> (In(hooks, w) \/ w = v)
    BY <2>1, InAppend DEF TypeInv, Hook
  <2>3. First(hooks') /\ hooks'[1] = Mirror
    BY <2>1, FirstKept DEF TypeInv, Hooked
  <2> QED
    BY <2>1, <2>2, <2>3 DEF Hooked
<1>3. ASSUME NEW v \in Views, Close(v) PROVE Hooked'
  <2>1. /\ at[v] = "open" /\ at'[v] = "closed" /\ \A w \in Views : w # v => at'[w] = at[w]
        /\ hooks' = Without(hooks, v)
        /\ \/ swap'.calls = swap.calls
           \/ swap.calls # <<>> /\ swap'.calls = Without(swap.calls, v)
    BY <1>3 DEF Close, Steps, Unregister, Unread, TypeInv
  <2>2. \A w \in Views : In(hooks', w) <=> (In(hooks, w) /\ w # v)
    BY <2>1, InWithout, HookNames
  <2>3. \A w \in Views : In(swap'.calls, w) => In(swap.calls, w)
    BY <2>1, InWithout, HookNames
  <2>4. First(hooks') /\ hooks'[1] = Mirror
    BY <2>1, FirstKept DEF TypeInv, Hooked
  <2>5. First(swap'.calls)
    BY <2>1, FirstKept DEF TypeInv, Hooked
  <2> QED
    BY <2>1, <2>2, <2>3, <2>4, <2>5 DEF Hooked
<1>4. ASSUME NEW v \in Views, Watch(v) \/ \E i \in DOMAIN saving[v] : Saved(v, i)
      PROVE  Hooked'
  BY <1>4 DEF Watch, Saved, viewVars, Hooked
<1> QED
  BY <1>1, <1>2, <1>3, <1>4

----------------------------------------------------------------------------
\* An open view shows what was last published.

Fresh(v) == snap[v].basis = coll.version /\ snap[v].version = coll.version

\* Nothing is of a later version than the config, and what a constructor has
\* computed is no older than what it has read.
Building(v) ==
    /\ at[v] \in {"absent", "warm", "cold", "reading", "read"} =>
            snap[v].version = 0 /\ snap[v].basis = 0
    /\ read[v].version <= coll.version
    /\ snap[v].version <= coll.version /\ snap[v].basis <= coll.version
    /\ at[v] = "computed" => /\ read[v].version <= snap[v].version
                             /\ read[v].version <= snap[v].basis

\* A view that does not show it will yet be called.
Kept(v) ==
    at[v] = "open" /\ ~late[v] =>
        \/ swap.at = "published"
        \/ Fresh(v)
        \/ Panics(v, coll.items)
        \/ swap.at = "calling" /\ In(swap.calls, v)

\* A watched view was built, and its hooks were told what it shows.
Heard(v) ==
    /\ heard[v] # NoHook => at[v] \in {"open", "closed"} /\ kind[v].watched
    /\ heard[v] \in {NoHook, NoData, snap[v].content}

CurrentInv == Hooked /\ \A v \in Views : Building(v) /\ Kept(v) /\ Heard(v)

\* Versions are numbers.
LEMMA Numbers ==
    ASSUME TypeInv, NEW v \in Views
    PROVE  /\ coll.version \in Nat /\ read[v].version \in Nat
           /\ snap[v].version \in Nat /\ snap[v].basis \in Nat
<1>1. Shown(snap[v])
  BY DEF TypeInv
<1>2. PICK n \in 0 .. MaxVersion, m \in 0 .. MaxVersion :
         \E c : snap[v] = [version |-> n, basis |-> m, content |-> c]
  BY <1>1 DEF Shown
<1>3. coll.version \in Nat /\ read[v].version \in Nat
  BY DEF TypeInv, Snapshot
<1> QED
  BY <1>2, <1>3

\* What a computation leaves in the view and tells its hooks.
LEMMA ComputeShows ==
    ASSUME TypeInv, NEW v \in Views, NEW from, recompute(v, from)
    PROVE  /\ snap'[v].version = from.version /\ snap'[v].basis = from.basis
           /\ snap'[v].content \in Results(v, from.items)
           /\ \A w \in Views : w # v => snap'[w] = snap[w] /\ heard'[w] = heard[w]
           /\ heard[v] = NoHook => heard'[v] = NoHook
           /\ \/ heard'[v] \in {NoHook, snap'[v].content}
              \/ heard'[v] = heard[v] /\ ~kind[v].watched
<1>1. PICK content : Computes(v, from, content)
  BY Recomputes DEF TypeInv
<1> DEFINE shown == [version |-> from.version, basis |-> from.basis, content |-> content]
<1>2. /\ shown.version = from.version /\ shown.basis = from.basis /\ shown.content = content
  OBVIOUS
<1>3. snap' = [snap EXCEPT ![v] = shown]
  BY <1>1 DEF Computes, Install
<1> HIDE DEF shown
<1>4. snap'[v] = shown /\ \A w \in Views : w # v => snap'[w] = snap[w]
  BY <1>3 DEF TypeInv, OfViews
<1>5. Tell(v, content) \/ (UNCHANGED heard /\ ~kind[v].watched)
  BY <1>1 DEF Computes
<1>6. \A w \in Views : w # v => heard'[w] = heard[w]
  BY <1>5 DEF Tell, TypeInv, OfViews
<1>7. heard[v] = NoHook => heard'[v] = NoHook
  BY <1>5 DEF Tell
<1>8. \/ heard'[v] \in {NoHook, content}
      \/ heard'[v] = heard[v] /\ ~kind[v].watched
  BY <1>5 DEF Tell, TypeInv, OfViews
<1>9. content \in Results(v, from.items)
  BY <1>1 DEF Computes
<1> QED
  BY <1>2, <1>4, <1>6, <1>7, <1>8, <1>9

\* No view is built at first.
LEMMA CurrentInit == Init => CurrentInv
<1> SUFFICES ASSUME Init PROVE CurrentInv
  OBVIOUS
<1>1. Hooked
  BY HookedInit
<1>2. ASSUME NEW v \in Views PROVE Building(v) /\ Kept(v) /\ Heard(v)
  BY DEF Init, Building, Kept, Heard, Unloaded, NoSnap
<1> QED
  BY <1>1, <1>2 DEF CurrentInv

\* A step that leaves a view and the config as they are.
LEMMA Untouched ==
    ASSUME NEW v, Building(v), Kept(v), Heard(v), UNCHANGED <<kind, coll>>,
           snap'[v] = snap[v], at'[v] = at[v], read'[v] = read[v], late'[v] = late[v],
           heard'[v] = heard[v],
           \/ swap'.at = swap.at /\ (In(swap.calls, v) => In(swap'.calls, v))
           \/ at[v] # "open"
    PROVE  Building(v)' /\ Kept(v)' /\ Heard(v)'
<1>1. Building(v)' /\ Heard(v)'
  BY DEF Building, Heard
<1>2. Kept(v)'
  BY DEF Kept, Fresh, Panics
<1> QED
  BY <1>1, <1>2

\* What is published is of a later version than anything.
LEMMA PublishCurrent ==
    ASSUME TypeInv, CurrentInv, NEW items, Publish(items), NEW v \in Views
    PROVE  Building(v)' /\ Kept(v)' /\ Heard(v)'
<1>1. /\ coll'.version = coll.version + 1 /\ swap'.at = "published"
      /\ UNCHANGED <<kind, at, read, snap, late, heard>>
  BY DEF Publish, viewVars
<1>2. Heard(v)'
  BY <1>1 DEF CurrentInv, Heard
<1>3. Building(v)'
  <2>1. Building(v)
    BY DEF CurrentInv
  <2>2. /\ read[v].version <= coll'.version
        /\ snap[v].version <= coll'.version /\ snap[v].basis <= coll'.version
    BY <1>1, <2>1, Numbers DEF Building
  <2> QED
    BY <1>1, <2>1, <2>2 DEF Building
<1>4. Kept(v)'
  BY <1>1 DEF Kept
<1> QED
  BY <1>2, <1>3, <1>4

\* The hooks taken are those of the open views.
LEMMA CaptureCurrent ==
    ASSUME TypeInv, CurrentInv, Capture, NEW v \in Views
    PROVE  Building(v)' /\ Kept(v)' /\ Heard(v)'
<1>1. /\ swap'.at = "calling" /\ swap'.calls = hooks
      /\ UNCHANGED <<kind, coll, hooks, at, read, snap, late, heard>>
  BY DEF Capture, viewVars, TypeInv
<1>2. Building(v)' /\ Heard(v)'
  BY <1>1 DEF CurrentInv, Building, Heard
<1>3. at[v] = "open" => In(hooks, v)
  BY DEF CurrentInv, Hooked
<1>4. Kept(v)'
  BY <1>1, <1>3 DEF Kept
<1> QED
  BY <1>2, <1>4

\* A call computes one view of what was published, and leaves the others to be
\* called that were.
LEMMA CallCurrent ==
    ASSUME TypeInv, CurrentInv, CallHook, NEW v \in Views
    PROVE  Building(v)' /\ Kept(v)' /\ Heard(v)'
<1> DEFINE h == Head(swap.calls)
<1>1. /\ swap.at = "calling" /\ swap.calls \in Seq(Hook) /\ swap.calls # <<>>
      /\ UNCHANGED <<kind, coll, hooks, at, read>>
      /\ Called(h) \/ Passed(h)
  BY DEF CallHook, TypeInv
<1>2. In(swap.calls, v) /\ v # h => swap'.at = "calling" /\ In(swap'.calls, v)
  <2>1. In(swap.calls, v) /\ v # h => In(Tail(swap.calls), v)
    BY <1>1, InTail
  <2>2. In(Tail(swap.calls), v) =>
            ~ \A i \in DOMAIN Tail(swap.calls) : Tail(swap.calls)[i] = NoHook
    BY HookNames DEF In
  <2>3. In(Tail(swap.calls), v) => swap'.calls = Tail(swap.calls) /\ swap'.at = "calling"
    BY <1>1, <2>2 DEF CallHook, After, TypeInv
  <2> QED
    BY <2>1, <2>2, <2>3
<1>3. Building(v) /\ Kept(v) /\ Heard(v)
  BY DEF CurrentInv
<1>4. CASE v = h /\ ~Panics(v, coll.items)
  <2>1. /\ late' = [late EXCEPT ![v] = FALSE]
        /\ recompute(v, [version |-> coll.version, basis |-> coll.version,
                         items |-> coll.items])
    BY <1>1, <1>4, HookNames DEF Called, Passed
  <2>2. /\ snap'[v].version = coll.version /\ snap'[v].basis = coll.version
        /\ heard[v] = NoHook => heard'[v] = NoHook
        /\ \/ heard'[v] \in {NoHook, snap'[v].content}
           \/ heard'[v] = heard[v] /\ ~kind[v].watched
    BY <2>1, ComputeShows
  <2>3. Kept(v)'
    BY <1>1, <2>2 DEF Kept, Fresh
  <2>4. Heard(v)'
    BY <1>1, <1>3, <2>2 DEF Heard
  <2>5. Building(v)'
    <3>1. at[v] \in {"open", "closed"}
      <4>1. In(swap.calls, v)
        <5>1. h = swap.calls[1] /\ 1 \in DOMAIN swap.calls
          BY <1>1
        <5> QED
          BY <1>4, <5>1 DEF In
      <4> QED
        BY <4>1 DEF CurrentInv, Hooked
    <3>2. read[v].version <= coll.version /\ coll.version <= coll.version
      BY <1>3, Numbers DEF Building
    <3> QED
      BY <1>1, <2>2, <3>1, <3>2 DEF Building
  <2> QED
    BY <2>3, <2>4, <2>5
<1>5. CASE v # h \/ Panics(v, coll.items)
  <2>1. snap'[v] = snap[v] /\ late'[v] = late[v] /\ heard'[v] = heard[v]
    <3>1. CASE Passed(h) \/ h = Mirror
      BY <1>1, <3>1, HookNames DEF Called, Passed
    <3>2. CASE Called(h) /\ h # Mirror
      <4>1. h \in Views /\ v # h
        BY <1>5, <3>2 DEF Called
      <4>2. /\ late' = [late EXCEPT ![h] = FALSE]
            /\ recompute(h, [version |-> coll.version, basis |-> coll.version,
                             items |-> coll.items])
        BY <3>2 DEF Called
      <4>3. snap'[v] = snap[v] /\ heard'[v] = heard[v]
        BY <4>1, <4>2, ComputeShows
      <4> QED
        BY <4>1, <4>2, <4>3 DEF TypeInv
    <3> QED
      BY <1>1, <3>1, <3>2
  <2>2. Building(v)' /\ Heard(v)'
    BY <1>1, <1>3, <2>1 DEF Building, Heard
  <2>3. Kept(v)'
    BY <1>1, <1>2, <1>3, <1>5, <2>1 DEF Kept, Fresh, Panics
  <2> QED
    BY <2>2, <2>3
<1> QED
  BY <1>4, <1>5

\* A constructor reads no later than the config, and computes no older than it
\* has read.
LEMMA BuildCurrent ==
    ASSUME TypeInv, CurrentInv, NEW v \in Views,
           \/ loadFromPersistence(v) \/ Keep(v) \/ ReadAll(v) \/ NewRelatedView(v)
           \/ NewSingletonView(v) \/ ComputeFirst(v) \/ ReadVersion(v) \/ TranslateFirst(v)
    PROVE  Building(v)' /\ Kept(v)' /\ Heard(v)'
<1> DEFINE computes ==
             /\ at[v] = "read" /\ at'[v] = "computed" /\ read'[v] = read[v]
             /\ snap'[v].version \in {coll.version, read[v].version}
             /\ snap'[v].basis \in {coll.version, read[v].version}
           reads ==
             /\ at[v] # "computed" /\ at'[v] \in {"warm", "cold", "reading", "read", "computed"}
             /\ \/ read'[v] = read[v] /\ at'[v] # "computed"
                \/ read'[v].version = coll.version
             /\ at'[v] = "computed" => coll.version = 0
             /\ snap'[v].version = snap[v].version /\ snap'[v].basis = snap[v].basis
<1>1. UNCHANGED <<kind, coll>> /\ at[v] \notin {"open", "closed"}
      /\ at'[v] \notin {"open", "closed"}
  BY DEF loadFromPersistence, Keep, ReadAll, NewRelatedView, NewSingletonView, ComputeFirst,
     ReadVersion, TranslateFirst, Steps, TypeInv
<1>2. heard[v] = NoHook /\ Building(v)
  BY <1>1 DEF CurrentInv, Heard
<1>3. ASSUME loadFromPersistence(v)
      PROVE  reads /\ heard'[v] = NoHook
  <2>1. snap'[v].version = snap[v].version /\ snap'[v].basis = snap[v].basis
    <3>1. CASE UNCHANGED snap
      BY <3>1
    <3>2. CASE snap' = [snap EXCEPT ![v].content = store[v]]
      <4>1. snap' = [snap EXCEPT ![v] = [snap[v] EXCEPT !.content = store[v]]]
        BY <3>2
      <4>2. /\ [snap[v] EXCEPT !.content = store[v]].version = snap[v].version
            /\ [snap[v] EXCEPT !.content = store[v]].basis = snap[v].basis
        <5>1. Shown(snap[v])
          BY DEF TypeInv
        <5> QED
          BY <5>1 DEF Shown
      <4> QED
        BY <4>1, <4>2 DEF TypeInv, OfViews
    <3> QED
      BY <1>3, <3>1, <3>2 DEF loadFromPersistence
  <2> QED
    BY <1>2, <1>3, <2>1 DEF loadFromPersistence, Steps, TypeInv
<1>4. ASSUME \/ Keep(v) \/ ReadAll(v) \/ NewRelatedView(v)
             \/ NewSingletonView(v) \/ ReadVersion(v)
      PROVE  reads /\ heard'[v] = NoHook
  <2>1. \/ read' = [read EXCEPT ![v] = coll]
        \/ read' = [read EXCEPT ![v] = [Unloaded EXCEPT !.version = coll.version]]
    BY <1>4 DEF Keep, ReadAll, NewRelatedView, NewSingletonView, ReadVersion, Reads
  <2>2. [Unloaded EXCEPT !.version = coll.version].version = coll.version
    BY DEF Unloaded
  <2>3. read'[v].version = coll.version
    BY <2>1, <2>2 DEF TypeInv
  <2>4. /\ at[v] # "computed" /\ at'[v] \in {"reading", "read", "computed"}
        /\ at'[v] = "computed" => coll.version = 0
    BY <1>4 DEF Keep, ReadAll, NewRelatedView, NewSingletonView, ReadVersion, Steps, TypeInv,
       keepWarmStart, Loaded
  <2>5. UNCHANGED <<snap, heard>>
    BY <1>4 DEF Keep, ReadAll, NewRelatedView, NewSingletonView, ReadVersion
  <2> QED
    BY <1>2, <2>3, <2>4, <2>5
<1>5. ASSUME ComputeFirst(v)
      PROVE  computes /\ heard'[v] = NoHook
  <2>1. recompute(v, [version |-> coll.version, basis |-> read[v].version,
                      items |-> read[v].items])
    BY <1>5 DEF ComputeFirst
  <2>2. /\ snap'[v].version = coll.version /\ snap'[v].basis = read[v].version
        /\ heard[v] = NoHook => heard'[v] = NoHook
    BY <2>1, ComputeShows
  <2>3. computes
    BY <1>5, <2>2 DEF ComputeFirst, Steps, TypeInv
  <2> QED
    BY <1>2, <2>2, <2>3
<1>6. ASSUME TranslateFirst(v)
      PROVE  computes /\ heard'[v] = NoHook
  <2>1. recompute(v, [version |-> read[v].version, basis |-> coll.version,
                      items |-> coll.items])
    BY <1>6 DEF TranslateFirst, recompute
  <2>2. /\ snap'[v].version = read[v].version /\ snap'[v].basis = coll.version
        /\ heard[v] = NoHook => heard'[v] = NoHook
    BY <2>1, ComputeShows
  <2>3. computes
    BY <1>6, <2>2 DEF TranslateFirst, Steps, TypeInv
  <2> QED
    BY <1>2, <2>2, <2>3
<1>7. (computes \/ reads) /\ heard'[v] = NoHook
  BY <1>3, <1>4, <1>5, <1>6
<1>8. Kept(v)' /\ Heard(v)'
  BY <1>1, <1>7 DEF Kept, Heard
<1>9. CASE computes
  <2>1. snap'[v].version <= coll.version /\ snap'[v].basis <= coll.version
    BY <1>2, <1>9, Numbers DEF Building
  <2>2. read[v].version <= snap'[v].version /\ read[v].version <= snap'[v].basis
    BY <1>2, <1>9, Numbers DEF Building
  <2>3. Building(v)'
    BY <1>1, <1>2, <1>9, <2>1, <2>2 DEF Building
  <2> QED
    BY <1>8, <2>3
<1>10. CASE reads
  <2>1. /\ snap'[v].version = 0 /\ snap'[v].basis = 0
        /\ snap'[v].version <= coll.version /\ snap'[v].basis <= coll.version
    BY <1>1, <1>2, <1>10 DEF Building, TypeInv, Constructor, Built
  <2>2. read'[v].version <= coll.version
    BY <1>2, <1>10, Numbers DEF Building
  <2>3. at'[v] = "computed" => read'[v].version <= 0
    BY <1>10, Numbers
  <2>4. Building(v)'
    BY <1>1, <2>1, <2>2, <2>3 DEF Building
  <2> QED
    BY <1>8, <2>4
<1> QED
  BY <1>7, <1>9, <1>10

\* A step of one view leaves the others.
LEMMA OthersUntouched ==
    ASSUME TypeInv, NEW v \in Views, NEW w \in Views, v # w,
           \/ loadFromPersistence(v) \/ Keep(v) \/ ReadAll(v) \/ NewRelatedView(v)
           \/ NewSingletonView(v) \/ ComputeFirst(v) \/ ReadVersion(v) \/ TranslateFirst(v)
           \/ Subscribe(v) \/ Watch(v) \/ Close(v) \/ \E i \in DOMAIN saving[v] : Saved(v, i)
    PROVE  /\ UNCHANGED <<kind, coll>> /\ at'[w] = at[w] /\ read'[w] = read[w]
           /\ late'[w] = late[w] /\ snap'[w] = snap[w] /\ heard'[w] = heard[w]
<1>1. UNCHANGED <<kind, coll>> /\ at'[w] = at[w] /\ read'[w] = read[w] /\ late'[w] = late[w]
  BY DEF loadFromPersistence, Keep, ReadAll, NewRelatedView, NewSingletonView, ComputeFirst,
     ReadVersion, TranslateFirst, Subscribe, Watch, Close, Saved, Steps, Reads, viewVars, TypeInv
<1>2. snap'[w] = snap[w] /\ heard'[w] = heard[w]
  <2>1. CASE ComputeFirst(v) \/ TranslateFirst(v)
    <3>1. \E from : recompute(v, from)
      BY <2>1 DEF ComputeFirst, TranslateFirst, recompute
    <3> QED
      BY <3>1, ComputeShows
  <2>2. CASE loadFromPersistence(v)
    BY <2>2 DEF loadFromPersistence, TypeInv, OfViews
  <2>3. CASE Watch(v)
    BY <2>3 DEF Watch, TypeInv, OfViews
  <2> QED
    BY <2>1, <2>2, <2>3
    DEF Keep, ReadAll, NewRelatedView, NewSingletonView, ReadVersion, Subscribe, Close, Saved,
        viewVars
<1> QED
  BY <1>1, <1>2

\* It leaves what holds of them.
LEMMA OthersCurrent ==
    ASSUME TypeInv, CurrentInv, NEW v \in Views, NEW w \in Views, v # w,
           \/ loadFromPersistence(v) \/ Keep(v) \/ ReadAll(v) \/ NewRelatedView(v)
           \/ NewSingletonView(v) \/ ComputeFirst(v) \/ ReadVersion(v) \/ TranslateFirst(v)
           \/ Subscribe(v) \/ Watch(v) \/ Close(v) \/ \E i \in DOMAIN saving[v] : Saved(v, i)
    PROVE  Building(w)' /\ Kept(w)' /\ Heard(w)'
<1>1. swap'.at = swap.at /\ (In(swap.calls, w) => In(swap'.calls, w))
  <2>1. CASE Close(v)
    <3>1. \/ UNCHANGED swap
          \/ /\ swap'.at = swap.at
             /\ swap'.calls = Without(swap.calls, v)
      BY <2>1 DEF Close, TypeInv
    <3> QED
      BY <3>1, InWithout, HookNames
  <2>2. CASE ~Close(v)
    <3>1. UNCHANGED swap
      BY <2>2 DEF loadFromPersistence, Keep, ReadAll, NewRelatedView, NewSingletonView,
         ComputeFirst, ReadVersion, TranslateFirst, Subscribe, Watch, Saved
    <3> QED
      BY <3>1
  <2> QED
    BY <2>1, <2>2
<1> QED
  BY <1>1, OthersUntouched, Untouched DEF CurrentInv

\* A view that opens shows the config, will be called, or was overtaken by a
\* swap: then it is late.
LEMMA SubscribeCurrent ==
    ASSUME TypeInv, CurrentInv, NEW v \in Views, Subscribe(v)
    PROVE  Building(v)' /\ Kept(v)' /\ Heard(v)'
<1>1. /\ UNCHANGED <<kind, coll, swap, snap, heard>> /\ at[v] = "computed" /\ at'[v] = "open"
      /\ late'[v] = (read[v].version # coll.version /\ swap.at # "published")
      /\ read'[v].version = 0
  BY DEF Subscribe, Steps, Reads, Unloaded, TypeInv
<1>2. Building(v) /\ heard[v] = NoHook
  BY <1>1 DEF CurrentInv, Heard
<1>3. ASSUME read[v].version = coll.version PROVE Fresh(v)
  BY <1>1, <1>2, <1>3, Numbers DEF Building, Fresh
<1>4. Kept(v)'
  BY <1>1, <1>3 DEF Kept, Fresh
<1>5. Building(v)'
  <2>1. 0 <= coll.version
    BY Numbers
  <2> QED
    BY <1>1, <1>2, <2>1 DEF Building
<1>6. Heard(v)'
  BY <1>1, <1>2 DEF Heard
<1> QED
  BY <1>4, <1>5, <1>6

\* So does every step after which its constructor has ended.
LEMMA OpenCurrent ==
    ASSUME TypeInv, CurrentInv, NEW v \in Views,
           \/ Subscribe(v) \/ Watch(v) \/ Close(v) \/ \E i \in DOMAIN saving[v] : Saved(v, i)
    PROVE  Building(v)' /\ Kept(v)' /\ Heard(v)'
<1>1. Building(v) /\ Kept(v) /\ Heard(v)
  BY DEF CurrentInv
<1>2. CASE Watch(v)
  <2>1. /\ UNCHANGED <<kind, coll, swap, at, read, snap, late>> /\ at[v] = "open"
        /\ kind[v].watched /\ heard'[v] = NoData
    BY <1>2 DEF Watch, TypeInv, OfViews
  <2>2. Building(v)' /\ Kept(v)'
    BY <1>1, <2>1 DEF Building, Kept, Fresh, Panics
  <2>3. Heard(v)'
    BY <2>1 DEF Heard
  <2> QED
    BY <2>2, <2>3
<1>3. CASE Close(v)
  <2>1. /\ UNCHANGED <<kind, coll, read, snap, late, heard>>
        /\ at[v] = "open" /\ at'[v] = "closed"
    BY <1>3 DEF Close, Steps, TypeInv
  <2>2. Building(v)' /\ Kept(v)' /\ Heard(v)'
    BY <1>1, <2>1 DEF Building, Kept, Heard
  <2> QED
    BY <2>2
<1>4. CASE \E i \in DOMAIN saving[v] : Saved(v, i)
  BY <1>1, <1>4 DEF Saved, viewVars, Building, Kept, Heard, Fresh, Panics
<1> QED
  BY <1>2, <1>3, <1>4, SubscribeCurrent

\* CurrentInv is inductive.
LEMMA CurrentStep ==
    ASSUME TypeInv, CurrentInv, Next
    PROVE  CurrentInv'
<1>1. Hooked'
  BY NextCases, SwapHooked, BuildHooked, OtherHooked DEF CurrentInv
<1>2. ASSUME NEW v \in Views PROVE Building(v)' /\ Kept(v)' /\ Heard(v)'
  <2>1. CASE Restart
    BY <2>1 DEF Restart, Building, Kept, Heard, Unloaded, NoSnap
  <2>2. ASSUME NEW w \in Views,
               \/ loadFromPersistence(w) \/ Keep(w) \/ ReadAll(w) \/ NewRelatedView(w)
               \/ NewSingletonView(w) \/ ComputeFirst(w) \/ ReadVersion(w)
               \/ TranslateFirst(w) \/ Subscribe(w) \/ Watch(w) \/ Close(w)
               \/ \E i \in DOMAIN saving[w] : Saved(w, i)
        PROVE  Building(v)' /\ Kept(v)' /\ Heard(v)'
    BY <2>2, OthersCurrent, BuildCurrent, OpenCurrent
  <2> QED
    BY <2>1, <2>2, NextCases, PublishCurrent, CaptureCurrent, CallCurrent
<1> QED
  BY <1>1, <1>2 DEF CurrentInv

\* When Swap returns, every open view that no constructor's race and no panic
\* excuses is computed from what was published and labelled with its version,
\* and whoever watches a view was last told what it shows: Current, for every
\* number of views and every interleaving.
THEOREM CurrentHolds == Spec => []Current
<1>1. Init => TypeInv /\ CurrentInv
  BY TypeInit, CurrentInit
<1>2. TypeInv /\ CurrentInv /\ [Next]_vars => (TypeInv /\ CurrentInv)'
  <2>1. TypeInv /\ CurrentInv /\ UNCHANGED vars => (TypeInv /\ CurrentInv)'
    <3>1. TypeInv /\ UNCHANGED vars => TypeInv'
      BY DEF TypeInv, vars, viewVars, OfViews
    <3>2. CurrentInv /\ UNCHANGED vars => CurrentInv'
      BY DEF CurrentInv, Hooked, Building, Kept, Heard, Fresh, Panics, vars, viewVars
    <3> QED
      BY <3>1, <3>2
  <2> QED
    BY <2>1, TypeStep, CurrentStep
<1>3. TypeInv /\ CurrentInv => Current
  <2> SUFFICES ASSUME TypeInv, CurrentInv, NEW v \in Views
               PROVE  /\ swap.at = "idle" /\ at[v] = "open" /\ ~late[v]
                           /\ ~Panics(v, coll.items) =>
                         snap[v].basis = coll.version /\ snap[v].version = coll.version
                      /\ heard[v] \in {NoHook, NoData, snap[v].content}
    BY DEF Current
  <2> QED
    BY DEF CurrentInv, Kept, Heard, Fresh
<1> QED
  BY <1>1, <1>2, <1>3, PTL DEF Spec

----------------------------------------------------------------------------
\* The consumer's copy.

UniqueKeys(items) == \A i, j \in DOMAIN items : items[i].id = items[j].id => i = j

\* The copy has the items, by key.
Follows(copy, items) ==
    /\ DOMAIN copy = {items[i].id : i \in DOMAIN items}
    /\ \A i \in DOMAIN items : copy[items[i].id] = items[i]

\* What a config holds has each key once.
LEMMA KnownUnique ==
    ASSUME NEW items \in Known
    PROVE  items \in Seq(Items) /\ UniqueKeys(items)
<1>1. CASE items \in Inputs
  BY <1>1, ViewsAssumption DEF UniqueKeys
<1>2. CASE items = <<>>
  BY <1>2 DEF UniqueKeys
<1>3. ASSUME NEW item \in Items, items = <<item>>
      PROVE  items \in Seq(Items) /\ UniqueKeys(items)
  <2>1. DOMAIN items = {1}
    BY <1>3
  <2> QED
    BY <1>3, <2>1 DEF UniqueKeys
<1> QED
  BY <1>1, <1>2, <1>3 DEF Known

\* Has tells whether some item has the key, and Find gives its place.
LEMMA Finds ==
    ASSUME NEW items \in Seq(Items), NEW id
    PROVE  /\ Has(items, id) <=> \E i \in DOMAIN items : items[i].id = id
           /\ Has(items, id) => /\ Find(items, id) \in DOMAIN items
                                /\ items[Find(items, id)].id = id
<1> DEFINE places == {i \in 1 .. Len(items) : items[i].id = id}
<1>1. DOMAIN items = 1 .. Len(items) /\ Len(items) \in Nat
  OBVIOUS
<1>2. Find(items, id) = IF places # {} THEN Min(places) ELSE 0
  BY DEF Find, SelectInSeq
<1>3. places # {} => Min(places) \in places
  <2>1. places \in SUBSET Nat
    BY <1>1
  <2> HIDE DEF places
  <2> QED
    BY <2>1, Least
<1>4. 0 \notin places
  BY <1>1
<1>5. Has(items, id) <=> places # {}
  <2> HIDE DEF places
  <2> QED
    BY <1>2, <1>3, <1>4 DEF Has
<1>6. places # {} => Find(items, id) \in places
  BY <1>2, <1>3
<1> QED
  BY <1>1, <1>5, <1>6

\* The diff, applied to a copy of the old items, gives one of the new.
LEMMA PatchFollows ==
    ASSUME NEW old \in Known, NEW new \in Known, Follows(mirror, old)
    PROVE  Follows(Patched(old, new), new)
<1> DEFINE upserts == Added(old, new) \cup Updated(old, new)
           put == {u.id : u \in upserts}
           gone == {o.id : o \in Removed(old, new)}
           kept == (DOMAIN mirror \ gone) \cup put
           ids(items) == {items[i].id : i \in DOMAIN items}
<1>1. /\ old \in Seq(Items) /\ UniqueKeys(old) /\ new \in Seq(Items) /\ UniqueKeys(new)
      /\ ToSet(old) = {old[i] : i \in DOMAIN old} /\ ToSet(new) = {new[i] : i \in DOMAIN new}
  BY KnownUnique DEF ToSet
<1>2. \A u, w \in ToSet(new) : u.id = w.id => u = w
  BY <1>1 DEF UniqueKeys
<1>3. upserts \subseteq ToSet(new)
  BY DEF Added, Updated
<1>4. \A i \in DOMAIN new : new[i].id \in put => new[i] \in upserts
  BY <1>1, <1>2, <1>3
<1>5. ASSUME NEW i \in DOMAIN new, new[i] \notin upserts
      PROVE  /\ new[i].id \in DOMAIN mirror /\ new[i].id \notin gone
             /\ mirror[new[i].id] = new[i]
  <2>1. /\ Has(old, new[i].id) /\ old[Find(old, new[i].id)] = new[i]
    BY <1>1, <1>5 DEF Added, Updated
  <2>2. Find(old, new[i].id) \in DOMAIN old
    BY <1>1, <2>1, Finds
  <2>3. new[i].id \in DOMAIN mirror /\ mirror[new[i].id] = new[i]
    BY <2>1, <2>2 DEF Follows
  <2>4. ASSUME new[i].id \in gone PROVE FALSE
    <3>1. PICK o \in Removed(old, new) : o.id = new[i].id
      BY <2>4
    <3>2. ~Has(new, new[i].id)
      BY <3>1 DEF Removed
    <3> QED
      BY <1>1, <3>2, Finds
  <2> QED
    BY <2>3, <2>4
<1>6. ASSUME NEW id \in DOMAIN mirror, id \notin gone
      PROVE  id \in ids(new)
  <2>1. PICK i \in DOMAIN old : old[i].id = id
    BY DEF Follows
  <2>2. old[i] \notin Removed(old, new)
    BY <1>6, <2>1
  <2>3. Has(new, id)
    BY <1>1, <2>1, <2>2 DEF Removed
  <2> QED
    BY <1>1, <2>3, Finds
<1>7. put \subseteq ids(new)
  BY <1>1, <1>3
<1>8. kept = ids(new)
  BY <1>4, <1>5, <1>6, <1>7
<1>9. Patched(old, new) =
        [id \in kept |-> IF id \in put THEN CHOOSE u \in upserts : u.id = id ELSE mirror[id]]
  BY DEF Patched
<1>10. ASSUME NEW i \in DOMAIN new PROVE Patched(old, new)[new[i].id] = new[i]
  <2>1. new[i].id \in kept
    BY <1>8
  <2>2. CASE new[i].id \in put
    <3>1. \A u \in upserts : u.id = new[i].id => u = new[i]
      BY <1>1, <1>2, <1>3
    <3>2. new[i] \in upserts
      BY <1>4, <2>2
    <3>3. (CHOOSE u \in upserts : u.id = new[i].id) = new[i]
      BY <3>1, <3>2
    <3> HIDE DEF put, upserts, kept
    <3> QED
      BY <1>9, <2>1, <2>2, <3>3
  <2>3. CASE new[i].id \notin put
    <3>1. new[i] \notin upserts
      BY <2>3
    <3>2. mirror[new[i].id] = new[i]
      BY <1>5, <3>1
    <3> HIDE DEF put, upserts, kept
    <3> QED
      BY <1>9, <2>1, <2>3, <3>2
  <2> QED
    BY <2>2, <2>3
<1>11. DOMAIN Patched(old, new) = ids(new)
  <2> HIDE DEF put, upserts, kept
  <2> QED
    BY <1>8, <1>9
<1> QED
  BY <1>10, <1>11 DEF Follows

\* The copy has what the config last showed the consumer's hook.
Copied ==
    /\ swap.at = "idle" => Follows(mirror, coll.items)
    /\ swap.at = "published" => Follows(mirror, swap.old)
    /\ swap.at = "calling" => /\ Head(swap.calls) = Mirror => Follows(mirror, swap.old)
                              /\ Head(swap.calls) # Mirror => Follows(mirror, coll.items)

\* An empty copy has no items.
LEMMA EmptyFollows == Follows(<<>>, <<>>)
BY DEF Follows

\* Copied is inductive.
LEMMA CopiedStep ==
    ASSUME TypeInv, Hooked, Copied, Next
    PROVE  Copied'
<1>1. ASSUME NEW items \in Known, Publish(items) PROVE Copied'
  <2>1. /\ swap.at = "idle" /\ UNCHANGED mirror
        /\ swap'.at = "published" /\ swap'.old = coll.items
    BY <1>1 DEF Publish
  <2> QED
    BY <2>1 DEF Copied
<1>2. ASSUME Capture PROVE Copied'
  <2>1. /\ swap.at = "published" /\ swap'.at = "calling" /\ swap'.old = swap.old
        /\ swap'.calls = hooks /\ UNCHANGED <<mirror, coll>>
    BY <1>2 DEF Capture, TypeInv
  <2>2. Head(hooks) = Mirror
    BY InTail DEF TypeInv, Hooked
  <2> QED
    BY <2>1, <2>2 DEF Copied
<1>3. ASSUME CallHook PROVE Copied'
  <2> DEFINE h == Head(swap.calls)
  <2>1. /\ swap.at = "calling" /\ swap.calls \in Seq(Hook) /\ swap.calls # <<>>
        /\ swap.old \in Known /\ coll.items \in Known /\ UNCHANGED coll
        /\ Called(h) \/ Passed(h)
    BY <1>3 DEF CallHook, TypeInv, Snapshot
  <2>2. Follows(mirror', coll.items)
    <3>1. CASE h = Mirror
      <4>1. mirror' = Patched(swap.old, coll.items)
        BY <2>1, <3>1, HookNames DEF Called, Passed, Panics
      <4>2. Follows(mirror, swap.old)
        BY <2>1, <3>1 DEF Copied
      <4> QED
        BY <2>1, <4>1, <4>2, PatchFollows
    <3>2. CASE h # Mirror
      <4>1. UNCHANGED mirror
        BY <2>1, <3>2 DEF Called, Passed
      <4>2. Follows(mirror, coll.items)
        BY <2>1, <3>2 DEF Copied
      <4> QED
        BY <4>1, <4>2
    <3> QED
      BY <3>1, <3>2
  <2>3. \/ swap'.at = "idle"
        \/ swap'.at = "calling" /\ swap'.calls = Tail(swap.calls) /\ Tail(swap.calls) # <<>>
    BY <1>3, <2>1, OnlyMirror DEF CallHook, After, TypeInv
  <2>4. Tail(swap.calls) # <<>> => Head(Tail(swap.calls)) # Mirror
    <3>1. ~In(Tail(swap.calls), Mirror)
      BY <2>1, InTail DEF Hooked
    <3>2. Tail(swap.calls) # <<>> =>
            1 \in DOMAIN Tail(swap.calls) /\ Head(Tail(swap.calls)) = Tail(swap.calls)[1]
      BY <2>1
    <3> QED
      BY <3>1, <3>2 DEF In
  <2> QED
    BY <2>1, <2>2, <2>3, <2>4 DEF Copied
<1>4. ASSUME Restart PROVE Copied'
  <2>1. mirror' = <<>> /\ coll'.items = <<>> /\ swap'.at = "idle"
    BY <1>4, OnlyMirror DEF Restart, Unloaded
  <2> QED
    BY <2>1, EmptyFollows DEF Copied
<1>5. ASSUME NEW v \in Views, Close(v) PROVE Copied'
  <2>1. /\ UNCHANGED <<mirror, coll>> /\ swap'.at = swap.at /\ swap'.old = swap.old
        /\ \/ swap'.calls = swap.calls
           \/ Head(swap.calls) = Mirror /\ swap'.calls = Without(swap.calls, v)
              /\ swap.at = "calling"
    BY <1>5 DEF Close, Unread, TypeInv
  <2>2. ASSUME swap.at = "calling", Head(swap.calls) = Mirror
        PROVE  Head(Without(swap.calls, v)) = Mirror
    <3>1. swap.calls \in Seq(Hook) /\ swap.calls # <<>> /\ Without(swap.calls, v) # <<>>
          /\ Without(swap.calls, v) \in Seq(Hook)
      BY <2>2, WithoutType DEF TypeInv
    <3>2. swap.calls[1] = Mirror
      BY <2>2, <3>1, InTail
    <3>3. Without(swap.calls, v)[1] = Mirror
      BY <3>1, <3>2, FirstKept DEF Hooked
    <3> QED
      BY <3>1, <3>3, InTail
  <2> QED
    BY <2>1, <2>2 DEF Copied
<1>6. ASSUME NEW v \in Views,
             \/ loadFromPersistence(v) \/ Keep(v) \/ ReadAll(v) \/ NewRelatedView(v)
             \/ NewSingletonView(v) \/ ComputeFirst(v) \/ ReadVersion(v) \/ TranslateFirst(v)
             \/ Subscribe(v) \/ Watch(v) \/ \E i \in DOMAIN saving[v] : Saved(v, i)
      PROVE  Copied'
  BY <1>6 DEF loadFromPersistence, Keep, ReadAll, NewRelatedView, NewSingletonView,
     ComputeFirst, ReadVersion, TranslateFirst, Subscribe, Watch, Saved, Copied
<1> QED
  BY <1>1, <1>2, <1>3, <1>4, <1>5, <1>6, NextCases

\* A consumer that patches its copy with the diff of what each OnChange gives
\* it has the config's items, by key, when Swap returns: MirrorFollows, for any
\* inputs in which keys are unique.
THEOREM MirrorFollowsHolds == Spec => []MirrorFollows
<1>1. Init => TypeInv /\ Hooked /\ Copied
  <2> SUFFICES ASSUME Init PROVE TypeInv /\ Hooked /\ Copied
    OBVIOUS
  <2>1. mirror = <<>> /\ coll.items = <<>> /\ swap.at = "idle"
    BY OnlyMirror DEF Init, Unloaded
  <2> QED
    BY <2>1, TypeInit, HookedInit, EmptyFollows DEF Copied
<1>2. TypeInv /\ Hooked /\ Copied /\ [Next]_vars => (TypeInv /\ Hooked /\ Copied)'
  <2>1. TypeInv /\ Hooked /\ Copied /\ UNCHANGED vars => (TypeInv /\ Hooked /\ Copied)'
    BY DEF TypeInv, Hooked, Copied, vars, viewVars, OfViews
  <2>2. TypeInv /\ Hooked /\ Next => Hooked'
    BY NextCases, SwapHooked, BuildHooked, OtherHooked
  <2> QED
    BY <2>1, <2>2, TypeStep, CopiedStep
<1>3. Copied => MirrorFollows
  BY DEF Copied, Follows, MirrorFollows
<1> QED
  BY <1>1, <1>2, <1>3, PTL DEF Spec

----------------------------------------------------------------------------
\* What a view shows is what its type computes of the config's items.

Right(v) ==
    /\ at[v] \in Built /\ snap[v].basis = coll.version /\ coll.version # 0 =>
            snap[v].content \in Results(v, coll.items)
    /\ at[v] = "read" /\ kind[v].of # "translated" /\ read[v].version = coll.version =>
            read[v].items = coll.items

\* What may be shown depends on the items and the type.
LEMMA ResultsKept ==
    ASSUME UNCHANGED <<kind, coll>>, NEW v
    PROVE  Results(v, coll.items)' = Results(v, coll.items)
BY DEF Results

\* A swap makes whatever was computed or read too old, until a call computes it.
LEMMA SwapRight ==
    ASSUME TypeInv, CurrentInv, NEW v \in Views, Right(v),
           (\E items \in Known : Publish(items)) \/ Capture \/ CallHook
    PROVE  Right(v)'
<1>1. ASSUME NEW items \in Known, Publish(items) PROVE Right(v)'
  <2>1. coll'.version = coll.version + 1 /\ UNCHANGED <<snap, read>>
    BY <1>1 DEF Publish, viewVars
  <2>2. snap[v].basis # coll'.version /\ read[v].version # coll'.version
    BY <2>1, Numbers DEF CurrentInv, Building
  <2> QED
    BY <2>1, <2>2 DEF Right
<1>2. ASSUME Capture PROVE Right(v)'
  BY <1>2, ResultsKept DEF Capture, viewVars, Right
<1>3. ASSUME CallHook PROVE Right(v)'
  <2> DEFINE h == Head(swap.calls)
  <2>1. /\ UNCHANGED <<kind, coll, at, read>>
        /\ Called(h) \/ Passed(h)
    BY <1>3 DEF CallHook
  <2>2. snap'[v] = snap[v] \/ snap'[v].content \in Results(v, coll.items)
    <3>1. CASE UNCHANGED snap
      BY <3>1
    <3>2. CASE /\ h \in Views
               /\ recompute(h, [version |-> coll.version, basis |-> coll.version,
                                items |-> coll.items])
      BY <3>2, ComputeShows
    <3> QED
      BY <2>1, <3>1, <3>2 DEF Called, Passed
  <2> QED
    BY <2>1, <2>2, ResultsKept DEF Right
<1> QED
  BY <1>1, <1>2, <1>3

\* A constructor computes what it has read.
LEMMA BuildRight ==
    ASSUME TypeInv, CurrentInv, NEW v \in Views, Right(v),
           \/ loadFromPersistence(v) \/ Keep(v) \/ ReadAll(v) \/ NewRelatedView(v)
           \/ NewSingletonView(v) \/ ComputeFirst(v) \/ ReadVersion(v) \/ TranslateFirst(v)
    PROVE  Right(v)'
<1>1. UNCHANGED <<kind, coll>>
  BY DEF loadFromPersistence, Keep, ReadAll, NewRelatedView, NewSingletonView, ComputeFirst,
     ReadVersion, TranslateFirst
<1>2. CASE loadFromPersistence(v)
  <2>1. at'[v] \in {"warm", "cold"}
    BY <1>2 DEF loadFromPersistence, Steps, TypeInv
  <2> QED
    BY <2>1 DEF Right, Built
<1>3. CASE Keep(v)
  <2>1. at'[v] = "reading" \/ (at'[v] = "computed" /\ coll.version = 0)
    BY <1>3 DEF Keep, Steps, keepWarmStart, TypeInv
  <2> QED
    BY <1>1, <2>1 DEF Right, Built
<1>4. CASE ReadAll(v) \/ NewRelatedView(v) \/ NewSingletonView(v)
  <2>1. /\ at'[v] = "read" \/ (at'[v] = "computed" /\ coll.version = 0)
        /\ read'[v] = coll
    BY <1>4 DEF ReadAll, NewRelatedView, NewSingletonView, Steps, Reads, Loaded, TypeInv
  <2> QED
    BY <1>1, <2>1 DEF Right, Built
<1>5. CASE ReadVersion(v)
  <2>1. at'[v] = "read" /\ kind[v].of = "translated"
    BY <1>5 DEF ReadVersion, Steps, TypeInv
  <2> QED
    BY <1>1, <2>1 DEF Right, Built
<1>6. CASE ComputeFirst(v)
  <2>1. /\ at[v] = "read" /\ at'[v] = "computed" /\ kind[v].of # "translated"
        /\ recompute(v, [version |-> coll.version, basis |-> read[v].version,
                         items |-> read[v].items])
    BY <1>6 DEF ComputeFirst, Steps, TypeInv
  <2>2. /\ snap'[v].basis = read[v].version
        /\ snap'[v].content \in Results(v, read[v].items)
    BY <2>1, ComputeShows
  <2>3. snap'[v].basis = coll.version => snap'[v].content \in Results(v, coll.items)
    BY <2>1, <2>2 DEF Right
  <2> QED
    BY <1>1, <2>1, <2>3, ResultsKept DEF Right
<1>7. CASE TranslateFirst(v)
  <2>1. /\ at'[v] = "computed"
        /\ recompute(v, [version |-> read[v].version, basis |-> coll.version,
                         items |-> coll.items])
    BY <1>7 DEF TranslateFirst, recompute, Steps, TypeInv
  <2>2. snap'[v].content \in Results(v, coll.items)
    BY <2>1, ComputeShows
  <2> QED
    BY <1>1, <2>1, <2>2, ResultsKept DEF Right
<1> QED
  BY <1>2, <1>3, <1>4, <1>5, <1>6, <1>7

\* Right is inductive.
LEMMA RightStep ==
    ASSUME TypeInv, CurrentInv, NEW v \in Views, Right(v), Next
    PROVE  Right(v)'
<1>1. CASE Restart
  <2>1. at'[v] = "absent"
    BY <1>1 DEF Restart
  <2> QED
    BY <2>1 DEF Right, Built
<1>2. ASSUME NEW w \in Views,
             \/ Subscribe(w) \/ Watch(w) \/ Close(w)
             \/ \E i \in DOMAIN saving[w] : Saved(w, i)
      PROVE  Right(v)'
  <2>1. UNCHANGED <<kind, coll, snap>>
    BY <1>2 DEF Subscribe, Watch, Close, Saved, viewVars
  <2>2. /\ at'[v] = "read" => at[v] = "read" /\ read'[v] = read[v]
        /\ at'[v] \in Built => at[v] \in Built
    BY <1>2 DEF Subscribe, Watch, Close, Saved, Steps, Reads, TypeInv, Built, viewVars
  <2> QED
    BY <2>1, <2>2, ResultsKept DEF Right
<1>3. ASSUME NEW w \in Views, w # v,
             \/ loadFromPersistence(w) \/ Keep(w) \/ ReadAll(w) \/ NewRelatedView(w)
             \/ NewSingletonView(w) \/ ComputeFirst(w) \/ ReadVersion(w)
             \/ TranslateFirst(w)
      PROVE  Right(v)'
  <2>1. /\ UNCHANGED <<kind, coll>> /\ at'[v] = at[v] /\ read'[v] = read[v]
        /\ snap'[v] = snap[v]
    BY <1>3, OthersUntouched
  <2> QED
    BY <2>1, ResultsKept DEF Right
<1> QED
  BY <1>1, <1>2, <1>3, NextCases, SwapRight, BuildRight

RightInv == TypeInv /\ CurrentInv /\ \A v \in Views : Right(v)

\* It is an invariant.
LEMMA RightAlways == Spec => []RightInv
<1>1. Init => RightInv
  <2> SUFFICES ASSUME Init, NEW v \in Views PROVE Right(v)
    BY TypeInit, CurrentInit DEF RightInv
  <2> QED
    BY DEF Init, Right, Built
<1>2. RightInv /\ [Next]_vars => RightInv'
  <2>1. RightInv /\ UNCHANGED vars => RightInv'
    <3>1. TypeInv /\ UNCHANGED vars => TypeInv'
      BY DEF TypeInv, vars, viewVars, OfViews
    <3>2. CurrentInv /\ UNCHANGED vars => CurrentInv'
      BY DEF CurrentInv, Hooked, Building, Kept, Heard, Fresh, Panics, vars, viewVars
    <3>3. (\A v \in Views : Right(v)) /\ UNCHANGED vars => (\A v \in Views : Right(v))'
      BY ResultsKept DEF Right, vars, viewVars
    <3> QED
      BY <3>1, <3>2, <3>3 DEF RightInv
  <2> QED
    BY <2>1, TypeStep, CurrentStep, RightStep DEF RightInv
<1> QED
  BY <1>1, <1>2, PTL DEF Spec

\* A view that is labelled as current and was computed of the current items
\* shows a result that its type gives of them: never a warm start, and never
\* one of items that it read before the last swap.
THEOREM ContentsRight ==
    Spec => [](\A v \in Views, of \in ViewTypes :
                Computed(v, of) => snap[v].content \in Results(v, coll.items))
<1>1. RightInv => \A v \in Views, of \in ViewTypes :
                    Computed(v, of) => snap[v].content \in Results(v, coll.items)
  BY DEF RightInv, Right, Computed, Built
<1> QED
  BY <1>1, RightAlways, PTL

----------------------------------------------------------------------------
\* What the contents are worth to a reader: the properties of the views.

\* A view that shows what it computed shows a result of its type, and the
\* items that it is of have each key once.
LEMMA Shows ==
    ASSUME RightInv, NEW v \in Views, NEW of, Computed(v, of)
    PROVE  /\ kind[v].of = of /\ snap[v].content \in Results(v, coll.items)
           /\ coll.items \in Seq(Items) /\ UniqueKeys(coll.items) /\ Distinct(coll.items)
           /\ kind[v].stages \in Seq(Stages)
<1>1. kind[v].of = of /\ snap[v].content \in Results(v, coll.items)
  BY DEF RightInv, Right, Computed, Built
<1>2. coll.items \in Seq(Items) /\ UniqueKeys(coll.items)
  BY KnownUnique DEF RightInv, TypeInv, Snapshot
<1>3. Distinct(coll.items)
  BY <1>2 DEF Distinct, UniqueKeys
<1>4. kind[v].stages \in Seq(Stages)
  BY ViewsAssumption DEF RightInv, TypeInv
<1> QED
  BY <1>1, <1>2, <1>3, <1>4

\* The pipeline where, sort, limit of a View (config/view.go, query.go) shows
\* the best matching items: FilteredRight, for any items, ranks and options.
THEOREM FilteredRightHolds == Spec => []FilteredRight
<1>1. RightInv => FilteredRight
  <2> SUFFICES ASSUME RightInv, NEW v \in Views, Computed(v, "view"), BestFirst(kind[v].stages)
               PROVE  LET got == snap[v].content
                          least == kind[v].stages[1].n
                          limit == kind[v].stages[3].n
                          matching == {i \in ToSet(coll.items) : i.rank >= least}
                      IN  /\ ToSet(got) \subseteq matching
                          /\ Cardinality(ToSet(got)) = Len(got)
                          /\ Len(got) = Min({limit, Cardinality(matching)})
                          /\ \A i \in DOMAIN got : \A other \in matching :
                                other.rank > got[i].rank => \E j \in 1 .. i : got[j] = other
    BY DEF FilteredRight
  <2>1. /\ snap[v].content \in applyFilters(coll.items, kind[v].stages)
        /\ coll.items \in Seq(Items) /\ Distinct(coll.items)
        /\ kind[v].stages \in Seq(Stages)
    BY Shows DEF Results
  <2> QED
    BY <2>1, BestIs DEF BestFirst
<1> QED
  BY <1>1, RightAlways, PTL

\* An IndexedView (config/index.go) has under each key all items of the key, in
\* the config's order, and its readers agree: IndexedRight, for any key.
THEOREM IndexedRightHolds == Spec => []IndexedRight
<1>1. RightInv => IndexedRight
  <2> SUFFICES ASSUME RightInv, NEW v \in Views, Computed(v, "indexed"),
                      NEW k \in {item.rank : item \in Items}
               PROVE  LET got == Get(snap[v].content, k)
                          under == {item \in ToSet(coll.items) : item.rank = k}
                      IN  /\ HasKey(snap[v].content, k) = (under # {})
                          /\ CountFor(snap[v].content, k) = Cardinality(under)
                          /\ ToSet(got) = under
                          /\ \A i, j \in DOMAIN got : i < j =>
                                Find(coll.items, got[i].id) < Find(coll.items, got[j].id)
    BY DEF IndexedRight
  <2> DEFINE items == coll.items
             got == Get(Group(items), k)
             under == {item \in ToSet(items) : item.rank = k}
  <2>1. /\ snap[v].content = Group(items)
        /\ items \in Seq(Items) /\ UniqueKeys(items) /\ Distinct(items)
    BY Shows DEF Results
  <2>2. /\ HasKey(Group(items), k) <=> under # {}
        /\ CountFor(Group(items), k) = Cardinality(under)
        /\ got \in Seq(Items) /\ ToSet(got) = under
        /\ \A i, j \in DOMAIN got : \A n, m \in DOMAIN items :
             i < j /\ items[n] = got[i] /\ items[m] = got[j] => n < m
    <3> HIDE DEF items
    <3> QED
      BY <2>1, IndexSplits
  <2> HIDE DEF items
  <2>3. ASSUME NEW i \in DOMAIN got
        PROVE  /\ Find(items, got[i].id) \in DOMAIN items
               /\ items[Find(items, got[i].id)] = got[i]
    <3>1. PICK n \in DOMAIN items : items[n] = got[i]
      <4>1. got[i] \in ToSet(got)
        BY DEF ToSet
      <4>2. got[i] \in ToSet(items)
        BY <2>2, <4>1
      <4> QED
        BY <4>2 DEF ToSet
    <3>2. Has(items, got[i].id)
      BY <2>1, <3>1, Finds
    <3>3. /\ Find(items, got[i].id) \in DOMAIN items
          /\ items[Find(items, got[i].id)].id = items[n].id
      BY <2>1, <3>1, <3>2, Finds
    <3> QED
      BY <2>1, <3>1, <3>3 DEF UniqueKeys
  <2>4. \A i, j \in DOMAIN got : i < j => Find(items, got[i].id) < Find(items, got[j].id)
    <3> HIDE DEF got
    <3> QED
      BY <2>2, <2>3
  <2>5. HasKey(Group(items), k) \in BOOLEAN
    BY DEF HasKey
  <2> HIDE DEF got, under
  <2>6. /\ HasKey(Group(items), k) = (under # {})
        /\ CountFor(Group(items), k) = Cardinality(under)
        /\ ToSet(got) = under
        /\ \A i, j \in DOMAIN got : i < j => Find(items, got[i].id) < Find(items, got[j].id)
    BY <2>2, <2>4, <2>5
  <2> QED
    BY <2>1, <2>6 DEF got, under, items
<1> QED
  BY <1>1, RightAlways, PTL

\* An IndexedViewT (config/index.go) has under each key the values of all items
\* of the key and as many as they have together: ValuesRight.
THEOREM ValuesRightHolds == Spec => []ValuesRight
<1>1. RightInv => ValuesRight
  <2> SUFFICES ASSUME RightInv, NEW v \in Views, Computed(v, "indexedT")
               PROVE  LET index == snap[v].content
                          under == [k \in DOMAIN index |-> {i \in ToSet(coll.items) : i.rank = k}]
                      IN  /\ DOMAIN index = {i.rank : i \in ToSet(coll.items)}
                          /\ \A k \in DOMAIN index :
                              /\ ToSet(index[k]) = UNION {ToSet(i.translations) : i \in under[k]}
                              /\ Len(index[k]) =
                                  FoldSet(LAMBDA i, n : n + Len(i.translations), 0, under[k])
    BY DEF ValuesRight
  <2>1. /\ snap[v].content = GroupValues(coll.items)
        /\ coll.items \in Seq(Items) /\ Distinct(coll.items)
    BY Shows DEF Results
  <2> QED
    BY <2>1, ValuesSplit
<1> QED
  BY <1>1, RightAlways, PTL

\* A RelatedView (config/related.go) shows one entity of each language that
\* occurs, that of the first item which has it: RelatedRight.
THEOREM RelatedRightHolds == Spec => []RelatedRight
<1>1. RightInv => RelatedRight
  <2> SUFFICES ASSUME RightInv, NEW v \in Views, Computed(v, "related")
               PROVE  LET found == snap[v].content
                          languages == {t.lang : t \in UNION {ToSet(i.translations) :
                                                              i \in ToSet(coll.items)}}
                          FirstWith(t) ==
                              coll.items[Min({i \in DOMAIN coll.items :
                                                contains(coll.items[i].translations, t)})]
                      IN  /\ {found[i].lang : i \in DOMAIN found} = languages
                          /\ Len(found) = Cardinality(languages)
                          /\ \A i \in DOMAIN found :
                                found[i] \in ToSet(FirstWith(found[i]).translations)
    BY DEF RelatedRight
  <2>1. snap[v].content = Flatten(coll.items) /\ coll.items \in Seq(Items)
    BY Shows DEF Results
  <2> QED
    BY <2>1, RelatedIs
<1> QED
  BY <1>1, RightAlways, PTL

\* A TranslatedView and a SingletonView (config/translated.go, singleton.go)
\* translate every item in its place, to the first of the target and the
\* fallbacks that it has: TranslatedRight, for any number of fallbacks.
THEOREM TranslatedRightHolds == Spec => []TranslatedRight
<1>1. RightInv => TranslatedRight
  <2> SUFFICES ASSUME RightInv, NEW v \in Views,
                      Computed(v, "translated") \/ Computed(v, "singleton")
               PROVE  /\ DOMAIN snap[v].content = DOMAIN coll.items
                      /\ \A i \in DOMAIN coll.items :
                          LET wanted == <<Target>> \o Fallbacks
                              has == {n \in DOMAIN wanted :
                                        contains(coll.items[i].translations,
                                                 [lang |-> wanted[n]])}
                              text == snap[v].content[i].text
                          IN  /\ snap[v].content[i].id = coll.items[i].id
                              /\ (text = <<>>) = (has = {})
                              /\ has # {} => /\ text[1].lang = wanted[Min(has)]
                                             /\ text[1] \in ToSet(coll.items[i].translations)
    BY DEF TranslatedRight
  <2>1. snap[v].content = Translated(coll.items) /\ coll.items \in Seq(Items)
    BY Shows DEF Results
  <2> QED
    BY <2>1, TranslatedIs
<1> QED
  BY <1>1, RightAlways, PTL

\* A CompositeView (config/view.go) of views that show results of the same
\* items has each item that any of them has, once: CompositeWhole, for any
\* views, pipelines and order of the views.
THEOREM CompositeWholeHolds == Spec => []CompositeWhole
<1>1. RightInv => CompositeWhole
  <2> SUFFICES ASSUME RightInv, \A v \in Views : Computed(v, "view"),
                      NEW order \in SetToSeqs(Views)
               PROVE  LET all == Merge([i \in DOMAIN order |-> snap[order[i]].content])
                      IN  /\ ToSet(all) = UNION {ToSet(snap[v].content) : v \in Views}
                          /\ Len(all) = Cardinality(ToSet(all))
    BY DEF CompositeWhole
  <2> DEFINE n == Cardinality(Views)
             slices == [i \in DOMAIN order |-> snap[order[i]].content]
  <2>1. /\ n \in Nat /\ order \in [1 .. n -> Views]
        /\ \A i, j \in 1 .. n : i # j => order[i] # order[j]
    BY ViewsAssumption, FS_CardinalityType DEF SetToSeqs
  <2>2. \A v \in Views : \E i \in 1 .. n : order[i] = v
    <3>1. order \in Injection(1 .. n, Views)
      BY <2>1 DEF Injection, IsInjective
    <3>2. IsFiniteSet(1 .. n) /\ IsFiniteSet(Views) /\ Cardinality(1 .. n) = Cardinality(Views)
      BY <2>1, ViewsAssumption, FS_Interval
    <3>3. order \in Surjection(1 .. n, Views)
      BY <3>1, <3>2, FS_Injection
    <3> QED
      BY <3>3 DEF Surjection
  <2>3. ASSUME NEW v \in Views
        PROVE  snap[v].content \in Seq(Items) /\ ToSet(snap[v].content) \subseteq ToSet(coll.items)
    <3>1. /\ snap[v].content \in applyFilters(coll.items, kind[v].stages)
          /\ coll.items \in Seq(Items) /\ kind[v].stages \in Seq(Stages)
      BY Shows DEF Results
    <3> QED
      BY <3>1, PipelineIs
  <2>4. coll.items \in Seq(Items) /\ UniqueKeys(coll.items)
    BY KnownUnique DEF RightInv, TypeInv, Snapshot
  <2>5. slices \in Seq(Seq(Items)) /\ Len(slices) = n /\ DOMAIN slices = 1 .. n
    <3>1. slices \in [1 .. n -> Seq(Items)]
      BY <2>1, <2>3
    <3> QED
      BY <2>1, <3>1
  <2>6. \A i \in 1 .. n : slices[i] = snap[order[i]].content
    BY <2>1
  <2> HIDE DEF slices, n
  <2>7. \A i \in 1 .. Len(slices) : ToSet(slices[i]) \subseteq ToSet(coll.items)
    BY <2>1, <2>3, <2>5, <2>6
  <2>8. /\ ToSet(Merge(slices)) = UNION {ToSet(slices[i]) : i \in 1 .. Len(slices)}
        /\ Len(Merge(slices)) = Cardinality(ToSet(Merge(slices)))
    BY <2>4, <2>5, <2>7, CompositeIs DEF UniqueKeys
  <2>9. UNION {ToSet(slices[i]) : i \in 1 .. Len(slices)} =
            UNION {ToSet(snap[v].content) : v \in Views}
    <3>1. ASSUME NEW i \in 1 .. Len(slices)
          PROVE  order[i] \in Views /\ slices[i] = snap[order[i]].content
      BY <2>1, <2>5, <2>6
    <3>2. ASSUME NEW v \in Views
          PROVE  \E i \in 1 .. Len(slices) : slices[i] = snap[v].content
      BY <2>2, <2>5, <2>6
    <3> QED
      BY <3>1, <3>2
  <2> QED
    BY <2>8, <2>9 DEF slices
<1> QED
  BY <1>1, RightAlways, PTL
=============================================================================
