------------------------------ MODULE CacheLists ------------------------------
(***************************************************************************)
(* What the three caches (internal/parser/cache.go,                         *)
(* internal/api/analysis_cache.go, src/cache/ttl-lru.ts) do to a recency    *)
(* list and to a byte count, as operators that can be proved about.         *)
(***************************************************************************)
EXTENDS Integers, Sequences, FiniteSetsExt, SequencesExt

\* The sum of the weights of a set of keys; weight is a function on them.
Total(weight, ks) == MapThenSumSet(LAMBDA k : weight[k], ks)

\* The elements of a list at some places, in their order: element n is the one at the
\* place that n of the places, itself included, are not behind.
PartAt(list, places) ==
  [n \in 1 .. Cardinality(places) |->
     list[CHOOSE i \in places : Cardinality({j \in places : j <= i}) = n]]

\* The list without the elements of a set, the others in their order.
Without(list, gone) == PartAt(list, {i \in DOMAIN list : list[i] \notin gone})

=============================================================================
