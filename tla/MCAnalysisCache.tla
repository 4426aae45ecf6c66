--------------------------- MODULE MCAnalysisCache ---------------------------
EXTENDS AnalysisCache

\* With four bytes: two results that fit together, one that needs all of them,
\* and one that is too large.
MCSize == [k \in Keys |-> CASE k = "k1" -> 1
                            [] k = "k2" -> 2
                            [] k = "k3" -> 4
                            [] k = "k4" -> 5]
=============================================================================
