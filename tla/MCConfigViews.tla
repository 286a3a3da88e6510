--------------------------- MODULE MCConfigViews ---------------------------
(***************************************************************************)
(* ConfigViews with two views in six combinations, which cover every type  *)
(* and have for every property a view that does not panic, and four items: *)
(* a, the same entity after an edit (a2), one of its lower rank (b), and one *)
(* without the target language, on which the first view's functions panic  *)
(* (c).                                                                    *)
(***************************************************************************)
EXTENDS ConfigViews

CONSTANTS v1, v2, one, two, three, de, en, fr

Text(lang, of) == [lang |-> lang, of |-> of]
a == [id |-> one, rank |-> 1, translations |-> <<Text(en, one), Text(de, one)>>]
a2 == [id |-> one, rank |-> 2, translations |-> <<Text(de, two)>>]
b == [id |-> two, rank |-> 1, translations |-> <<Text(de, two), Text(de, one)>>]
c == [id |-> three, rank |-> 2, translations |-> <<Text(fr, three), Text(en, three)>>]

AllItems == {a, a2, b, c}
SomeInputs == {<<b, a2>>, <<b, c, a>>, <<c, a2>>}
OnC == {c}
TwoViews == {v1, v2}
First == {v1}
FrenchThenEnglish == <<fr, en>>

Of(type, stages, persistent, watched) ==
    [of |-> type, stages |-> stages, persistent |-> persistent, watched |-> watched]
Best(least, limit, watched) ==
    Of("view", <<[op |-> "where", n |-> least], [op |-> "sort", n |-> 0],
                 [op |-> "limit", n |-> limit]>>, FALSE, watched)
Rest == Of("view", <<[op |-> "offset", n |-> 1]>>, TRUE, FALSE)
Plain(type) == Of(type, <<>>, FALSE, FALSE)
Stored(type) == Of(type, <<>>, TRUE, FALSE)
Watched(type) == Of(type, <<>>, FALSE, TRUE)

AllKinds ==
    {(v1 :> Best(1, 3, TRUE) @@ v2 :> Best(2, 1, FALSE)),
     (v1 :> Rest @@ v2 :> Plain("related")),
     (v1 :> Watched("related") @@ v2 :> Watched("indexed")),
     (v1 :> Stored("translated") @@ v2 :> Plain("indexedT")),
     (v1 :> Stored("indexedT") @@ v2 :> Plain("translated")),
     (v1 :> Stored("singleton") @@ v2 :> Plain("singleton"))}
=============================================================================
