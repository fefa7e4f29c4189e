---------------------------- MODULE MCMemPlan ----------------------------
(* Recipes of five slots: X, the stream HC of a model with hyper            *)
(* connections, and three work slots.                                       *)
EXTENDS MemPlan

Five == {"X", "HC", "a", "b", "c"}
BySize == <<"HC", "X", "a", "b", "c">>
XAndHC == {"X", "HC"}
TwoDevices == {"cpu", "gpu"}
SecondOnGpu == <<"cpu", "gpu">>

Plain(in, out) ==
    [reads |-> in, writes |-> out, hidden |-> {}, local |-> FALSE, swaps |-> FALSE]
With(op, slots) == [op EXCEPT !.hidden = slots]
Alone(op) == [op EXCEPT !.local = TRUE]

Embed == Plain({}, {"X"})
HcInit == Plain({"X"}, {"HC"})
HcFinal == Plain({"HC"}, {"X"})

Work == {"a", "b", "c"}
Common ==
    {Plain({s}, {t}) : s \in {"X"} \cup Work, t \in Work}                   \* norms, projections
    \cup {Plain({"X", s}, {"X"}) : s \in Work}                              \* add
    \cup {With(Plain({"a"}, {"b"}), {"c"}), With(Plain({"b"}, {"a"}), {"c"}),
          Alone(With(Plain({"a"}, {"b"}), {"c"})), Alone(With(Plain({"a"}, {"a"}), {"b"}))}
Swaps == {[Plain({"X", "b"}, {"X", "b"}) EXCEPT !.swaps = TRUE]}
Hyper == {Plain({"HC"}, {"X", "c"}), Plain({"HC", "a", "c"}, {"HC"})}

Mixes == {Plain({"X"}, {s}) : s \in Work} \cup {Plain({s}, {t}) : s, t \in Work}
         \cup {Plain({"HC", s}, {"HC"}) : s \in Work}

Has(layer, from) == from \cup UNION {layer[i].writes : i \in DOMAIN layer}
Grow(lists, from, ops) ==
    {Append(layer, op) : layer \in lists, op \in ops}
    \ {q \in {Append(layer, op) : layer \in lists, op \in ops} :
         ~(q[Len(q)].reads \subseteq Has(SubSeq(q, 1, Len(q) - 1), from))}

One(from, ops) == Grow({<<>>}, from, ops)
Two(from, ops) == Grow(One(from, ops), from, ops)
Three(from, ops) == Grow(Two(from, ops), from, ops)

Recipe(pre, layers, post) == [t \in Stages |-> IF t = Pre THEN pre ELSE IF t = Post THEN post ELSE layers[t]]

OfX(lists) == {Recipe(<<Embed>>, <<p[1], p[2]>>, <<Plain({"X"}, {"a"}), Plain({"a"}, {"b"})>>) : p \in lists}
OfHC(lists) == {Recipe(<<Embed, HcInit>>, <<p[1], p[2]>>, <<HcFinal, Plain({"X"}, {"a"})>>) : p \in lists}

Same(lists) == {<<l, l>> : l \in lists}
SmallRecipes ==
    {r \in OfX(Same(Three({"X"}, Common \cup Swaps)) \cup Two({"X"}, Common \cup Swaps) \X Two({"X"}, Common))
           \cup OfHC(Same(Three({"HC"}, Common \cup Hyper)))
           \cup OfHC(Same(Three({"X", "HC"}, Mixes))) : WellFormed(r)}
=============================================================================
