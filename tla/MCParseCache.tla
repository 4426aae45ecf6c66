---------------------------- MODULE MCParseCache ----------------------------
EXTENDS ParseCache

S(capacity, ttl, maxBytes) ==
  [capacity |-> capacity, ttl |-> ttl, maxBytes |-> maxBytes]

\* Three keys; the values of the second one are of three sizes, one of them oversized.
MCWeight == [k \in Keys |->
               CASE k = "k1" -> [v \in {"small"} |-> 3]
                 [] k = "k2" -> [v \in {"small", "large", "big"} |->
                                   CASE v = "small" -> 2 [] v = "large" -> 4 [] v = "big" -> 5]
                 [] k = "k3" -> [v \in {"small"} |-> 1]]

MCDefault == [kind \in Kinds |-> S(1, 1, 4)]
MCLimit == S(3, 2, 4)

\* A cache of diagrams alone, at the upper limits (the byte limit of zero
\* disables the syntax errors), and two caches, one with the defaults.
MCConfigs == {[success |-> S(5, 9, 9), syntax |-> S(2, 1, 0)],
              [success |-> S(2, 1, 4), syntax |-> S(-1, -1, -1)]}

\* Two entries of syntax errors fit.
MCTwoErrors == {[success |-> S(1, 1, 4), syntax |-> S(2, 1, 4)]}
=============================================================================
