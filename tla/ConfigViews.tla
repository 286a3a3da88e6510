---------------------------- MODULE ConfigViews ----------------------------
(***************************************************************************)
(* A config, a Collection or a Singleton, the views derived from it and a  *)
(* consumer that keeps a mirror of it by the diff of what its OnChange     *)
(* hook is given.                                                          *)
(*                                                                         *)
(* One goroutine swaps (the manager's run loop); views are created and     *)
(* closed on any other, at any time; saves to the view store run on        *)
(* goroutines of their own.  The six types of views follow one protocol;   *)
(* they differ in what they compute (Queries), in what their constructor   *)
(* reads, and in whether they are persisted and have hooks of their own.   *)
(***************************************************************************)
EXTENDS Queries, FiniteSets, TLC

CONSTANTS
    Views,        \* view objects
    KindsOfViews, \* the kinds that they may have
    Inputs,       \* what a collection may be set to: sequences of Items, keys unique
    Poison,       \* items on which the user functions of Panicky views panic
    Panicky,
    NoHook,       \* an entry of hooks that was unregistered, a view without a hook
    Mirror,       \* the consumer's hook
    NoData,       \* the store of a view that was never saved, a hook never called
    MaxVersion, MaxRestarts, MaxSaves

ViewTypes == {"view", "indexed", "indexedT", "related", "translated", "singleton"}

\* A config is a Collection or a Singleton; a RelatedView has no persistence,
\* an IndexedViewT and a SingletonView no OnChange.
ASSUME ViewsAssumption ==
    /\ \A items \in Inputs :
        /\ items \in Seq(Items)
        /\ \A i, j \in DOMAIN items : items[i].id = items[j].id => i = j
    /\ IsFiniteSet(Views)
    /\ \A k \in KindsOfViews :
        /\ \A v \in Views :
            /\ k[v].of \in ViewTypes /\ k[v].persistent \in BOOLEAN
            /\ k[v].stages \in Seq(Stages)
        /\ (\A v \in Views : k[v].of = "singleton") \/ (\A v \in Views : k[v].of # "singleton")
        /\ \A v \in Views :
            /\ k[v].of = "related" => ~k[v].persistent
            /\ k[v].of \in {"indexedT", "singleton"} => ~k[v].watched
    /\ {NoHook, Mirror} \cap Views = {} /\ NoHook # Mirror /\ NoHook # NoData
    /\ Poison \subseteq Items /\ Panicky \subseteq Views
    /\ MaxVersion \in Nat /\ MaxRestarts \in Nat /\ MaxSaves \in Nat

VARIABLES
    kind,     \* of each view: its type; if it is a View, its pipeline; whether it
              \* is persistent, and whether a consumer calls its OnChange
    coll,     \* the config's published snapshot; a Singleton's has one item
    hooks,    \* its hooks, in the order of registration
    swap,     \* the Swap in progress: the old items and the hooks left to call
    at,       \* where each view's constructor is, then open or closed
    read,     \* the config as the constructor last read it
    snap,     \* each view's snapshot; basis: history, the version it is computed of
    late,     \* history: a swap fell between the view's reading and its hook
    heard,    \* what a hook of the view was last called with
    store,    \* the view store
    saving,   \* saves in flight
    mirror,   \* the consumer's copy, by key; its hook is the first
    restarts

viewVars == <<at, read, snap, late, heard>>
vars == <<kind, coll, hooks, swap, viewVars, store, saving, mirror, restarts>>

Unloaded == [version |-> 0, items |-> <<>>]
NoSwap == [at |-> "idle", old |-> <<>>, calls |-> <<>>]
NoSnap == [version |-> 0, basis |-> 0, content |-> <<>>]

Init ==
    /\ kind \in KindsOfViews
    /\ coll = Unloaded /\ hooks = <<Mirror>> /\ swap = NoSwap
    /\ at = [v \in Views |-> "absent"]
    /\ read = [v \in Views |-> Unloaded]
    /\ snap = [v \in Views |-> NoSnap]
    /\ late = [v \in Views |-> FALSE]
    /\ heard = [v \in Views |-> NoHook]
    /\ store = [v \in Views |-> NoData]
    /\ saving = [v \in Views |-> <<>>]
    /\ mirror = <<>>
    /\ restarts = 0

----------------------------------------------------------------------------
\* What each type computes of the items it is given, and how it installs it.

Panics(v, items) == v \in Panicky /\ Poison \cap ToSet(items) # {}

Install(v, from, content) ==
    snap' = [snap EXCEPT ![v] =
                [version |-> from.version, basis |-> from.basis, content |-> content]]

\* Seeded bug: saves are not limited.
PersistAlways(v, content) ==
    saving' = IF kind[v].persistent THEN [saving EXCEPT ![v] = Append(@, content)] ELSE saving
\* A save past the semaphore's limit is skipped.
Persist(v, content) ==
    saving' = IF kind[v].persistent /\ Len(saving[v]) < MaxSaves
              THEN [saving EXCEPT ![v] = Append(@, content)] ELSE saving

\* The view's own hooks.
Tell(v, content) ==
    heard' = IF heard[v] = NoHook THEN heard ELSE [heard EXCEPT ![v] = content]

recomputeView(v, from) ==
    \E content \in applyFilters(from.items, kind[v].stages) :
        Install(v, from, content) /\ Persist(v, content) /\ Tell(v, content)
recomputeIndex(v, from) ==
    LET index == Group(from.items)
    IN  Install(v, from, index) /\ Persist(v, index) /\ Tell(v, index)
recomputeIndexT(v, from) ==
    LET index == GroupValues(from.items)
    IN  Install(v, from, index) /\ Persist(v, index) /\ UNCHANGED heard
recomputeRelated(v, from) ==
    LET items == Flatten(from.items)
    IN  Install(v, from, items) /\ Tell(v, items) /\ UNCHANGED saving
recomputeSingleton(v, from) ==
    LET result == Translated(from.items)
    IN  Install(v, from, result) /\ Persist(v, result) /\ UNCHANGED heard
\* The swap of the derived collection, and persistAsync.
retranslate(v, from) ==
    LET items == Translated(from.items)
    IN  Install(v, from, items) /\ Tell(v, items) /\ Persist(v, items)

recompute(v, from) ==
    CASE kind[v].of = "view" -> recomputeView(v, from)
      [] kind[v].of = "indexed" -> recomputeIndex(v, from)
      [] kind[v].of = "indexedT" -> recomputeIndexT(v, from)
      [] kind[v].of = "related" -> recomputeRelated(v, from)
      [] kind[v].of = "translated" -> retranslate(v, from)
      [] kind[v].of = "singleton" -> recomputeSingleton(v, from)

----------------------------------------------------------------------------
\* Swap: publish, take the hooks, call those that are registered.

\* Singleton.Get: false before the first load.
Loaded == coll.version # 0

\* OnChange of either, and the function that it returns.
OnChange(h) == hooks' = Append(hooks, h)
Without(list, h) == [i \in DOMAIN list |-> IF list[i] = h THEN NoHook ELSE list[i]]
Unregister(h) == hooks' = Without(hooks, h)

OfSingleton == \A v \in Views : kind[v].of = "singleton"

Publish(items) ==
    /\ swap.at = "idle" /\ coll.version < MaxVersion
    /\ coll' = [version |-> coll.version + 1, items |-> items]
    /\ swap' = [at |-> "published", old |-> coll.items, calls |-> <<>>]
    /\ UNCHANGED <<kind, hooks, viewVars, store, saving, mirror, restarts>>

SwapItems(items) == ~OfSingleton /\ Publish(items)
SwapValue(item) == OfSingleton /\ Publish(<<item>>)

Capture ==
    /\ swap.at = "published"
    /\ swap' = [swap EXCEPT !.at = "calling", !.calls = hooks]
    /\ UNCHANGED <<kind, coll, hooks, viewVars, store, saving, mirror, restarts>>

\* The consumer applies diff.By to its copy.
Patched(old, new) ==
    LET upserts == Added(old, new) \cup Updated(old, new)
        put == {u.id : u \in upserts}
        gone == {o.id : o \in Removed(old, new)}
    IN  [id \in (DOMAIN mirror \ gone) \cup put |->
            IF id \in put THEN CHOOSE u \in upserts : u.id = id ELSE mirror[id]]

Called(h) ==
    \/ /\ h = Mirror
       /\ mirror' = Patched(swap.old, coll.items)
       /\ UNCHANGED <<snap, late, heard, saving>>
    \/ /\ h \in Views /\ ~Panics(h, coll.items)
       /\ recompute(h, [version |-> coll.version, basis |-> coll.version,
                        items |-> coll.items])
       /\ late' = [late EXCEPT ![h] = FALSE]
       /\ UNCHANGED mirror

\* An entry that was unregistered, or a hook that panics.
Passed(h) ==
    /\ h = NoHook \/ Panics(h, coll.items)
    /\ UNCHANGED <<snap, late, heard, saving, mirror>>

\* With no hook left to call, the swap returns.
After(calls) ==
    IF \A i \in DOMAIN calls : calls[i] = NoHook THEN NoSwap ELSE [swap EXCEPT !.calls = calls]

\* Seeded bug: the first panic ends the fan-out.
CallHookUnsafely ==
    /\ swap.at = "calling"
    /\ LET h == Head(swap.calls)
       IN  \/ Called(h) /\ swap' = After(Tail(swap.calls))
           \/ Passed(h) /\ swap' = IF h = NoHook THEN After(Tail(swap.calls)) ELSE NoSwap
    /\ UNCHANGED <<kind, coll, hooks, at, read, store, restarts>>
\* A hook that panics is recovered, and the next one is called.
CallHook ==
    /\ swap.at = "calling"
    /\ Called(Head(swap.calls)) \/ Passed(Head(swap.calls))
    /\ swap' = After(Tail(swap.calls))
    /\ UNCHANGED <<kind, coll, hooks, at, read, store, restarts>>

----------------------------------------------------------------------------
\* The constructors, and Close.

Steps(v, from, to) == at[v] \in from /\ at' = [at EXCEPT ![v] = to]
Reads(v, what) == read' = [read EXCEPT ![v] = what]

\* A stored snapshot is installed; a read that fails is as good as no data.
loadFromPersistence(v) ==
    /\ kind[v].of # "related"
    /\ \/ /\ kind[v].persistent /\ store[v] # NoData
          /\ snap' = [snap EXCEPT ![v].content = store[v]]
          /\ Steps(v, {"absent"}, "warm")
       \/ Steps(v, {"absent"}, "cold") /\ UNCHANGED snap
    /\ UNCHANGED <<kind, coll, hooks, swap, read, late, heard, store, saving, mirror, restarts>>

\* Seeded bug: a stored snapshot stands whatever the source holds.
keepWarmStartAlways(v) == at[v] = "warm"
keepWarmStart(v) == at[v] = "warm" /\ coll.version = 0

Keep(v) ==
    /\ kind[v].of # "singleton"
    /\ Steps(v, {"warm", "cold"}, IF keepWarmStart(v) THEN "computed" ELSE "reading")
    /\ Reads(v, [Unloaded EXCEPT !.version = coll.version])
    /\ UNCHANGED <<kind, coll, hooks, swap, snap, late, heard, store, saving, mirror, restarts>>

\* NewView, NewIndexedView and NewIndexedViewT read source.All(), and then
\* source.Version(): a swap may fall in between.
ReadAll(v) ==
    /\ kind[v].of \in {"view", "indexed", "indexedT"}
    /\ Steps(v, {"reading"}, "read")
    /\ Reads(v, coll)
    /\ UNCHANGED <<kind, coll, hooks, swap, snap, late, heard, store, saving, mirror, restarts>>

\* NewRelatedView does so at once.
NewRelatedView(v) ==
    /\ kind[v].of = "related"
    /\ Steps(v, {"absent"}, "read")
    /\ Reads(v, coll)
    /\ UNCHANGED <<kind, coll, hooks, swap, snap, late, heard, store, saving, mirror, restarts>>

\* NewSingletonView asks source.Get(): unloaded, it leaves what was stored.
NewSingletonView(v) ==
    /\ kind[v].of = "singleton"
    /\ Steps(v, {"warm", "cold"}, IF Loaded THEN "read" ELSE "computed")
    /\ Reads(v, coll)
    /\ UNCHANGED <<kind, coll, hooks, swap, snap, late, heard, store, saving, mirror, restarts>>

\* A panic here is the caller's, who has no view then.
ComputeFirst(v) ==
    /\ kind[v].of # "translated"
    /\ Steps(v, {"read"}, "computed") /\ ~Panics(v, read[v].items)
    /\ recompute(v, [version |-> coll.version, basis |-> read[v].version,
                     items |-> read[v].items])
    /\ UNCHANGED <<kind, coll, hooks, swap, read, late, store, mirror, restarts>>

\* NewTranslatedView reads in the other order: source.Version(), then
\* source.All().
ReadVersion(v) ==
    /\ kind[v].of = "translated"
    /\ Steps(v, {"reading"}, "read")
    /\ Reads(v, [Unloaded EXCEPT !.version = coll.version])
    /\ UNCHANGED <<kind, coll, hooks, swap, snap, late, heard, store, saving, mirror, restarts>>
TranslateFirst(v) ==
    /\ kind[v].of = "translated"
    /\ Steps(v, {"read"}, "computed") /\ ~Panics(v, coll.items)
    /\ retranslate(v, [version |-> read[v].version, basis |-> coll.version,
                       items |-> coll.items])
    /\ UNCHANGED <<kind, coll, hooks, swap, read, late, store, mirror, restarts>>

\* OnChange.  A swap that has published and not yet taken the hooks will call
\* this one.
Subscribe(v) ==
    /\ Steps(v, {"computed"}, "open")
    /\ OnChange(v)
    /\ late' = [late EXCEPT ![v] = read[v].version # coll.version /\ swap.at # "published"]
    /\ Reads(v, Unloaded)
    /\ UNCHANGED <<kind, coll, swap, snap, heard, store, saving, mirror, restarts>>

\* A consumer's OnChange on the view.
Watch(v) ==
    /\ kind[v].watched /\ at[v] = "open" /\ heard[v] = NoHook
    /\ heard' = [heard EXCEPT ![v] = NoData]
    /\ UNCHANGED <<kind, coll, hooks, swap, at, read, snap, late, store, saving, mirror, restarts>>

\* A swap that has taken its hooks may still call this one; it reads the list
\* without the lock, so until its first call it may also miss it.
Unread == swap.at = "calling" /\ Head(swap.calls) = Mirror
Close(v) ==
    /\ Steps(v, {"open"}, "closed")
    /\ Unregister(v)
    /\ \/ UNCHANGED swap
       \/ Unread /\ swap' = [swap EXCEPT !.calls = Without(@, v)]
    /\ UNCHANGED <<kind, coll, read, snap, late, heard, store, saving, mirror, restarts>>

\* saveToPersistence; saves end in any order, and one may fail.
Saved(v, i) ==
    /\ store' \in {store, [store EXCEPT ![v] = saving[v][i]]}
    /\ saving' = [saving EXCEPT ![v] = RemoveAt(@, i)]
    /\ UNCHANGED <<kind, coll, hooks, swap, viewVars, mirror, restarts>>

\* The process starts again with what the store holds.
Restart ==
    /\ restarts < MaxRestarts
    /\ restarts' = restarts + 1
    /\ coll' = Unloaded /\ hooks' = <<Mirror>> /\ swap' = NoSwap
    /\ at' = [v \in Views |-> "absent"] /\ read' = [v \in Views |-> Unloaded]
    /\ snap' = [v \in Views |-> NoSnap] /\ late' = [v \in Views |-> FALSE]
    /\ heard' = [v \in Views |-> NoHook]
    /\ saving' = [v \in Views |-> <<>>] /\ mirror' = <<>>
    /\ UNCHANGED <<kind, store>>

Next ==
    \/ \E items \in Inputs : SwapItems(items)
    \/ \E item \in Items : SwapValue(item)
    \/ Capture \/ CallHook \/ Restart
    \/ \E v \in Views :
        \/ loadFromPersistence(v) \/ Keep(v) \/ ReadAll(v) \/ NewRelatedView(v)
        \/ NewSingletonView(v) \/ ComputeFirst(v) \/ ReadVersion(v) \/ TranslateFirst(v)
        \/ Subscribe(v) \/ Watch(v) \/ Close(v)
        \/ \E i \in DOMAIN saving[v] : Saved(v, i)

Spec == Init /\ [][Next]_vars

----------------------------------------------------------------------------
\* The types of the variables, and the limit on the saves.
TypeOK ==
    /\ kind \in KindsOfViews
    /\ coll.version \in 0 .. MaxVersion
    /\ coll.items \in Inputs \cup {<<>>} \cup {<<item>> : item \in Items}
    /\ \A i \in DOMAIN hooks : hooks[i] \in Views \cup {NoHook, Mirror}
    /\ swap.at \in {"idle", "published", "calling"}
    /\ swap.at = "calling" => swap.calls # <<>>
    /\ \A v \in Views :
        /\ at[v] \in {"absent", "warm", "cold", "reading", "read", "computed",
                      "open", "closed"}
        /\ snap[v].version \in 0 .. MaxVersion /\ snap[v].basis \in 0 .. MaxVersion
        /\ late[v] \in BOOLEAN
        /\ Len(saving[v]) <= MaxSaves
    /\ restarts \in 0 .. MaxRestarts

\* When a Swap returns, every open view is computed from what it published and
\* labelled with its version, whichever other hook panicked and whoever opened
\* or closed another view meanwhile; a warm start is gone.  The exceptions are
\* the view that panics on these very items, and one whose constructor the
\* swap overtook (config-package.md:17, 139).  Whoever watches a view has last
\* been told what it shows.
Current ==
    \A v \in Views :
        /\ swap.at = "idle" /\ at[v] = "open" /\ ~late[v] /\ ~Panics(v, coll.items) =>
                snap[v].basis = coll.version /\ snap[v].version = coll.version
        /\ heard[v] \in {NoHook, NoData, snap[v].content}

\* The view is one of its kind, and holds what it computed of the collection's
\* present items, not a warm start.
Computed(v, of) ==
    /\ kind[v].of = of /\ at[v] \in {"computed", "open", "closed"}
    /\ snap[v].version = snap[v].basis /\ snap[v].basis = coll.version
    /\ coll.version # 0

BestFirst(stages) ==
    Len(stages) = 3 /\ stages[1].op = "where" /\ stages[2].op = "sort" /\ stages[3].op = "limit"

\* The pipeline where, sort, limit gives the best matching items: as many as
\* the limit allows, in order, with no better one left out.
FilteredRight ==
    \A v \in Views : Computed(v, "view") /\ BestFirst(kind[v].stages) =>
        LET got == snap[v].content
            least == kind[v].stages[1].n
            limit == kind[v].stages[3].n
            matching == {i \in ToSet(coll.items) : i.rank >= least}
        IN  /\ ToSet(got) \subseteq matching
            /\ Cardinality(ToSet(got)) = Len(got)
            /\ Len(got) = Min({limit, Cardinality(matching)})
            /\ \A i \in DOMAIN got : \A other \in matching :
                    other.rank > got[i].rank => \E j \in 1 .. i : got[j] = other

\* An index splits the items by key: for every key, also one that no item has,
\* its readers agree on the items of that key, all of them and in the
\* collection's order.
IndexedRight ==
    \A v \in Views : Computed(v, "indexed") =>
        \A k \in {item.rank : item \in Items} :
            LET got == Get(snap[v].content, k)
                under == {item \in ToSet(coll.items) : item.rank = k}
            IN  /\ HasKey(snap[v].content, k) = (under # {})
                /\ CountFor(snap[v].content, k) = Cardinality(under)
                /\ ToSet(got) = under
                /\ \A i, j \in DOMAIN got : i < j =>
                        Find(coll.items, got[i].id) < Find(coll.items, got[j].id)

\* The values of an index by value: all those of the key's items, and so many.
ValuesRight ==
    \A v \in Views : Computed(v, "indexedT") =>
        LET index == snap[v].content
            under == [k \in DOMAIN index |-> {i \in ToSet(coll.items) : i.rank = k}]
        IN  /\ DOMAIN index = {i.rank : i \in ToSet(coll.items)}
            /\ \A k \in DOMAIN index :
                /\ ToSet(index[k]) = UNION {ToSet(i.translations) : i \in under[k]}
                /\ Len(index[k]) =
                    FoldSet(LAMBDA i, n : n + Len(i.translations), 0, under[k])

\* The related entities: one of each language that occurs in any item, and it
\* is that of the first item that has the language.
RelatedRight ==
    \A v \in Views : Computed(v, "related") =>
        LET found == snap[v].content
            languages == {t.lang : t \in UNION {ToSet(i.translations) : i \in ToSet(coll.items)}}
            FirstWith(t) ==
                coll.items[Min({i \in DOMAIN coll.items :
                                  contains(coll.items[i].translations, t)})]
        IN  /\ {found[i].lang : i \in DOMAIN found} = languages
            /\ Len(found) = Cardinality(languages)
            /\ \A i \in DOMAIN found :
                    found[i] \in ToSet(FirstWith(found[i]).translations)

\* Every item is translated in its place, by a TranslatedView and by a
\* SingletonView that does the same: to the target if it has it, else to the
\* first fallback that it has.
TranslatedRight ==
    \A v \in Views : Computed(v, "translated") \/ Computed(v, "singleton") =>
        /\ DOMAIN snap[v].content = DOMAIN coll.items
        /\ \A i \in DOMAIN coll.items :
            LET wanted == <<Target>> \o Fallbacks
                has == {n \in DOMAIN wanted :
                          contains(coll.items[i].translations, [lang |-> wanted[n]])}
                text == snap[v].content[i].text
            IN  /\ snap[v].content[i].id = coll.items[i].id
                /\ (text = <<>>) = (has = {})
                /\ has # {} => /\ text[1].lang = wanted[Min(has)]
                               /\ text[1] \in ToSet(coll.items[i].translations)

\* A CompositeView of views that are all computed from the same items has each
\* item that any of them has, once.
CompositeWhole ==
    (\A v \in Views : Computed(v, "view")) =>
        \A order \in SetToSeqs(Views) :
            LET all == Merge([i \in DOMAIN order |-> snap[order[i]].content])
            IN  /\ ToSet(all) = UNION {ToSet(snap[v].content) : v \in Views}
                /\ Len(all) = Cardinality(ToSet(all))

\* A consumer that applies each diff to its copy has the collection, by key,
\* when Swap returns.
MirrorFollows ==
    swap.at = "idle" =>
        /\ DOMAIN mirror = {coll.items[i].id : i \in DOMAIN coll.items}
        /\ \A i \in DOMAIN coll.items : mirror[coll.items[i].id] = coll.items[i]
=============================================================================
