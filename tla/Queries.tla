------------------------------ MODULE Queries ------------------------------
(***************************************************************************)
(* The pure functions over items: the filter options and their pipeline,   *)
(* the projections of the view types, the lookup of translations, and the  *)
(* diff of two slices by key.                                              *)
(*                                                                         *)
(* An item has a key (id), what filters and indexes look at (rank), and    *)
(* related entities: translations, each of a language.  User functions are *)
(* fixed: the key function is id, the index key is rank, the predicate of  *)
(* Where is a least rank, the comparison of SortBy is descending rank, two *)
(* related entities are the same when their language is.                   *)
(***************************************************************************)
EXTENDS Naturals, SequencesExt

CONSTANTS
    Items,   \* records [id, rank, translations]
    Target,  \* the language TranslatedView looks for
    Fallbacks  \* the languages it falls back to, in order

Texts == UNION {ToSet(item.translations) : item \in Items}

ASSUME QueriesAssumption ==
    /\ \A item \in Items : item.rank \in Nat /\ item.translations \in Seq(Texts)
    /\ Fallbacks \in Seq(ToSet(Fallbacks))

\* The loop that appends the items it wants to a new slice.
Picked(items, wanted) ==
    FoldLeft(LAMBDA result, item : IF item \in wanted THEN Append(result, item) ELSE result,
             <<>>, items)

Where(least, items) == Picked(items, {i \in ToSet(items) : i.rank >= least})

\* sort.Slice is not stable: every order that cmp allows.
SortBy(items) ==
    {sorted \in {[i \in DOMAIN items |-> items[p[i]]] :
                    p \in {q \in [DOMAIN items -> DOMAIN items] : IsInjective(q)}} :
        \A i, j \in DOMAIN items : i < j => sorted[i].rank >= sorted[j].rank}

\* Seeded bug: one item too many.
LimitOneMore(n, items) == IF n >= Len(items) THEN items ELSE SubSeq(items, 1, n + 1)
Limit(n, items) == IF n >= Len(items) THEN items ELSE SubSeq(items, 1, n)
Offset(n, items) == IF n >= Len(items) THEN <<>> ELSE SubSeq(items, n + 1, Len(items))

Stages == [op : {"where", "sort", "limit", "offset"}, n : Nat]

\* The results that one option may give.
Option(stage, items) ==
    CASE stage.op = "where" -> {Where(stage.n, items)}
      [] stage.op = "sort" -> SortBy(items)
      [] stage.op = "limit" -> {Limit(stage.n, items)}
      [] stage.op = "offset" -> {Offset(stage.n, items)}

\* Seeded bug: the options run in the reverse order.
applyFiltersReversed(items, stages) ==
    FoldRight(LAMBDA stage, results : UNION {Option(stage, r) : r \in results},
              stages, {items})
applyFilters(items, stages) ==
    FoldLeft(LAMBDA results, stage : UNION {Option(stage, r) : r \in results},
             {items}, stages)

----------------------------------------------------------------------------
\* IndexedView: the items of each key, in order.

Keys(items) == {items[i].rank : i \in DOMAIN items}

\* Seeded bug: a later item of a key takes the place of the earlier ones.
GroupLast(items) ==
    [k \in Keys(items) |-> <<items[SelectLastInSeq(items, LAMBDA i : i.rank = k)]>>]
Group(items) ==
    [k \in Keys(items) |-> Picked(items, {i \in ToSet(items) : i.rank = k})]

\* Its readers; a key that it does not have is not an error.
Get(index, k) == IF k \in DOMAIN index THEN index[k] ELSE <<>>
CountFor(index, k) == Len(Get(index, k))
HasKey(index, k) == k \in DOMAIN index

\* RelatedView: the related entities of all items, the first of its kind kept.
contains(found, t) == \E i \in DOMAIN found : found[i].lang = t.lang
AppendNew(found, related) ==
    FoldLeft(LAMBDA all, t : IF contains(all, t) THEN all ELSE Append(all, t), found, related)

\* Seeded bug: only the entities of one item are compared with each other.
FlattenPerItem(items) ==
    FoldLeft(LAMBDA found, item : found \o AppendNew(<<>>, item.translations), <<>>, items)
Flatten(items) ==
    FoldLeft(LAMBDA found, item : AppendNew(found, item.translations), <<>>, items)

\* IndexedViewT: the values of each key's items, concatenated.
GroupValues(items) ==
    [k \in Keys(items) |->
        FlattenSeq([i \in DOMAIN Group(items)[k] |-> Group(items)[k][i].translations])]

\* FindTranslation: the first of the language, as a sequence of at most one.
FindTranslation(translations, lang) ==
    LET first == SelectInSeq(translations, LAMBDA t : t.lang = lang)
    IN  IF first = 0 THEN <<>> ELSE <<translations[first]>>

\* Seeded bug: the last fallback that is found, not the first.
FindTranslationWithLastFallback(translations) ==
    LET target == FindTranslation(translations, Target)
    IN  IF target # <<>> THEN target
        ELSE FoldLeft(LAMBDA found, lang :
                        IF FindTranslation(translations, lang) # <<>>
                        THEN FindTranslation(translations, lang) ELSE found,
                      <<>>, Fallbacks)
FindTranslationWithFallback(translations) ==
    FoldLeft(LAMBDA found, lang :
                IF found = <<>> THEN FindTranslation(translations, lang) ELSE found,
             FindTranslation(translations, Target), Fallbacks)

\* transformSlice with a transform that picks a translation.
Translated(items) ==
    [i \in DOMAIN items |->
        [id |-> items[i].id, text |-> FindTranslationWithFallback(items[i].translations)]]

\* Seeded bug: concatenation only.
MergeAll(slices) == FlattenSeq(slices)
\* CompositeView.All: the views' items, the first of each id kept.
listed(all, item) == \E i \in DOMAIN all : all[i].id = item.id
Unique(items) ==
    FoldLeft(LAMBDA all, item : IF listed(all, item) THEN all ELSE Append(all, item),
             <<>>, items)
Merge(slices) == Unique(FlattenSeq(slices))

----------------------------------------------------------------------------
\* diff.ByEqual, for slices whose keys are unique, up to the order of its
\* results.

Find(items, id) == SelectInSeq(items, LAMBDA i : i.id = id)
Has(items, id) == Find(items, id) # 0

Added(old, new) == {n \in ToSet(new) : ~Has(old, n.id)}

\* Seeded bug: an item that is there on both sides is taken as unchanged.
UpdatedNever(old, new) == {}
Updated(old, new) ==
    {n \in ToSet(new) : Has(old, n.id) /\ old[Find(old, n.id)] # n}

Removed(old, new) == {o \in ToSet(old) : ~Has(new, o.id)}
=============================================================================
