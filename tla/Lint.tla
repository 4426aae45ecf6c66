--------------------------------- MODULE Lint ---------------------------------
(***************************************************************************)
(* The lint engine (internal/engine/engine.go) and its rules                *)
(* (internal/rules): one run over the diagram of one request (LintRequest). *)
(*                                                                          *)
(* The message of an issue is the sequence of what it names.  Where the     *)
(* code ranges over a Go map, whose order is unspecified, the operators     *)
(* take that order as a parameter.                                          *)
(***************************************************************************)
EXTENDS LintRequest, TLC

Orders == SetToSeqs(Ids)

Warnings == {"max-depth", "max-fanout", "max-inheritance-depth", "max-nesting-depth",
             "max-transitions", "no-self-referential"}

DefaultLimits == ("max-fanout" :> 5) @@ ("max-depth" :> 8)
                 @@ ("max-inheritance-depth" :> 5) @@ ("max-transitions" :> 10)

-----------------------------------------------------------------------------
(* What the rules have in common.                                            *)

EffectiveSeverity(d, r) ==
  LET s == OptionsOf(d, r).severity
  IN  IF s \in {"error", "warning", "info"} THEN s
      ELSE IF r \in Warnings THEN "warning" ELSE "error"

Limit(d, r) ==
  LET n == OptionsOf(d, r).limit
  IN  IF n >= 1 THEN n ELSE DefaultLimits[r]

\* An issue at the place of a node, or at none.
Issue(d, r, place, context, message) ==
  [rule |-> r, severity |-> EffectiveSeverity(d, r), line |-> place.line,
   column |-> place.column, context |-> context, message |-> message]

\* The last, or the first, node with an ID, whose place an issue takes.
Nowhere == [line |-> 0, column |-> 0]
NodesOf(d, n) == {i \in DOMAIN d.nodes : d.nodes[i].id = n}
LastOf(d, n) == IF NodesOf(d, n) = {} THEN Nowhere ELSE d.nodes[Max(NodesOf(d, n))]
FirstOf(d, n) == IF NodesOf(d, n) = {} THEN Nowhere ELSE d.nodes[Min(NodesOf(d, n))]

NodeSubgraphContext(d, n) == IF n \in d.subgraph THEN 1 ELSE 0

NodeIds(d) == {d.nodes[i].id : i \in DOMAIN d.nodes}
EdgeNodes(d) == {n \in Ids : d.succ[n] # <<>>} \cup UNION {ToSet(d.succ[n]) : n \in Ids}

\* One issue for each element of a sequence.
ForEach(s, F(_)) == [i \in DOMAIN s |-> F(s[i])]

-----------------------------------------------------------------------------
(* Flowcharts.                                                               *)

NoDuplicateNodeIDs(d) ==
  ForEach(Sorted({n \in Ids : Cardinality(NodesOf(d, n)) > 1} \cup d.duplicates),
          LAMBDA n : Issue(d, "no-duplicate-node-ids", LastOf(d, n), 0, <<n>>))

NoDisconnectedNodes(d) ==
  LET exempt == Len(d.nodes) = 1 /\ EdgeNodes(d) = {}
      found == IF exempt THEN {} ELSE (NodeIds(d) \ EdgeNodes(d)) \cup d.isolated
  IN  ForEach(Sorted(found),
              LAMBDA n : Issue(d, "no-disconnected-nodes", FirstOf(d, n), 0, <<n>>))

MaxFanout(d, order) ==
  ForEach(SelectSeq(order, LAMBDA n : Len(d.succ[n]) > Limit(d, "max-fanout")),
          LAMBDA n : Issue(d, "max-fanout", LastOf(d, n), NodeSubgraphContext(d, n),
                           <<n, Len(d.succ[n]), Limit(d, "max-fanout")>>))

\* normalizedCycleKey: the ring turned so that its least ID comes first.
NormalizedCycleKey(cycle) ==
  LET ring == Front(cycle)
      least == CHOOSE i \in DOMAIN ring : \A j \in DOMAIN ring : ring[i] <= ring[j]
  IN  SubSeq(ring, least, Len(ring)) \o SubSeq(ring, 1, least - 1)

\* The cycle that an edge to m closes with the stack, unless it was seen.
CloseCycle(s, m) ==
  LET start == Max({i \in DOMAIN s.stack : s.stack[i] = m})
      cycle == Append(SubSeq(s.stack, start, Len(s.stack)), m)
  IN  IF NormalizedCycleKey(cycle) \in s.seen THEN s
      ELSE [s EXCEPT !.seen = @ \cup {NormalizedCycleKey(cycle)},
                     !.cycles = Append(@, cycle)]

RECURSIVE Dfs(_, _, _)

\* dfs of NoCycles, from node n; onStack are the nodes of the stack.
Dfs(succ, s, n) ==
  LET follow(t, m) == IF m \notin t.visited THEN Dfs(succ, t, m)
                      ELSE IF m \in ToSet(t.stack) THEN CloseCycle(t, m)
                      ELSE t
      entered == [s EXCEPT !.visited = @ \cup {n}, !.stack = Append(@, n)]
      left == FoldLeft(follow, entered, succ[n])
  IN  [left EXCEPT !.stack = Front(@)]

NoCycles(d, order) ==
  LET follows(n) == SelectSeq(d.succ[n], LAMBDA m :
                      ~(OptionsOf(d, "no-cycles").allowSelfLoop /\ m = n))
      succ == [n \in Ids |-> follows(n)]
      visit(s, n) == IF n \in s.visited THEN s ELSE Dfs(succ, s, n)
      search == FoldLeft(visit, [visited |-> {}, stack |-> <<>>, seen |-> {},
                                 cycles |-> <<>>],
                         ForEach(d.nodes, LAMBDA n : n.id) \o order)
  IN  ForEach(search.cycles,
              LAMBDA c : Issue(d, "no-cycles", LastOf(d, Last(c)),
                               NodeSubgraphContext(d, Last(c)), c))

RECURSIVE Longest(_, _, _, _)

\* longestPathFromWithCycleInfo: the path, whether it met a cycle, and the memo
\* of the paths that did not.
Longest(succ, n, visited, memo) ==
  IF n \in visited THEN [path |-> <<n>>, cycle |-> TRUE, memo |-> memo]
  ELSE IF n \in DOMAIN memo THEN [path |-> memo[n], cycle |-> FALSE, memo |-> memo]
  ELSE
    LET follow(b, m) ==
          LET r == Longest(succ, m, visited \cup {n}, b.memo)
          IN  [path |-> IF Len(r.path) + 1 > Len(b.path) THEN <<n>> \o r.path ELSE b.path,
               cycle |-> b.cycle \/ r.cycle,
               memo |-> r.memo]
        best == FoldLeft(follow, [path |-> <<n>>, cycle |-> FALSE, memo |-> memo], succ[n])
    IN  IF best.cycle \/ succ[n] = <<>> THEN best
        ELSE [best EXCEPT !.memo = (n :> best.path) @@ @]

RECURSIVE StrongConnect(_, _, _)

\* strongConnect: Tarjan's algorithm, keeping the least ID of each component.
StrongConnect(succ, s, v) ==
  LET entered == [s EXCEPT !.indices = (v :> Cardinality(DOMAIN @)) @@ @,
                           !.lowlink = (v :> Cardinality(DOMAIN @)) @@ @,
                           !.stack = Append(@, v)]
      lower(t, x) == [t EXCEPT !.lowlink[v] = Min({@, x})]
      follow(t, w) ==
        IF w \notin DOMAIN t.indices
        THEN LET u == StrongConnect(succ, t, w) IN lower(u, u.lowlink[w])
        ELSE IF w \in ToSet(t.stack) THEN lower(t, t.indices[w]) ELSE t
      left == FoldLeft(follow, entered, succ[v])
      base == CHOOSE i \in DOMAIN left.stack : left.stack[i] = v
  IN  IF left.lowlink[v] # left.indices[v] THEN left
      ELSE [left EXCEPT !.stack = SubSeq(@, 1, base - 1),
                        !.found = @ \cup {Min(ToSet(SubSeq(left.stack, base, Len(left.stack))))}]

\* sccRepresentatives, for the nodes of a set.
SccRepresentatives(succ, nodes) ==
  LET visit(s, n) == IF n \in DOMAIN s.indices THEN s ELSE StrongConnect(succ, s, n)
  IN  FoldLeft(visit, [indices |-> <<>>, lowlink |-> <<>>, stack |-> <<>>, found |-> {}],
               Sorted(nodes)).found

\* The paths from the nodes that no edge enters, or from one of each component.
MaxDepth(d) ==
  LET nodes == NodeIds(d) \cup EdgeNodes(d)
      sources == {n \in nodes : \A m \in Ids : n \notin ToSet(d.succ[m])}
      starts == IF sources # {} THEN sources ELSE SccRepresentatives(d.succ, nodes)
      walk(s, n) == LET r == Longest(d.succ, n, {}, s.memo)
                    IN  [memo |-> r.memo, paths |-> Append(s.paths, r.path)]
      walked == FoldLeft(walk, [memo |-> <<>>, paths |-> <<>>], Sorted(starts))
  IN  ForEach(SelectSeq(walked.paths, LAMBDA p : Len(p) - 1 > Limit(d, "max-depth")),
              LAMBDA p : Issue(d, "max-depth", LastOf(d, p[1]),
                               NodeSubgraphContext(d, p[1]),
                               <<Len(p) - 1, Limit(d, "max-depth")>> \o p))

-----------------------------------------------------------------------------
(* Sequence diagrams.                                                        *)

NoUndefinedActors(d, order) ==
  ForEach(SelectSeq(order, LAMBDA n : n \in EdgeNodes(d) \ NodeIds(d)),
          LAMBDA n : Issue(d, "no-undefined-actors", Nowhere, 0, <<n>>))

\* What no-duplicate-actors and no-duplicate-classes find.
Duplicates(d, r, order) ==
  ForEach(SelectSeq(order, LAMBDA n : Cardinality(NodesOf(d, n)) > 1),
          LAMBDA n : Issue(d, r, FirstOf(d, n), 0, <<n>>))

NoDuplicateActors(d, order) == Duplicates(d, "no-duplicate-actors", order)

\* A placeholder: the parser does not tell how blocks are nested.
MaxNestingDepth(d) == <<>>

-----------------------------------------------------------------------------
(* Class and ER diagrams.                                                    *)

RECURSIVE ChainDfs(_, _, _, _)

\* Faulty variant: a node that was visited need not be on the path.
ChainDfsVisited(succ, s, n, path) ==
  LET here == Append(path, n)
      follow(t, m) ==
        IF t.stop THEN t
        ELSE IF m \notin t.visited THEN ChainDfs(succ, t, m, here)
        ELSE [t EXCEPT !.stop = TRUE, !.cycles = Append(@, Append(here, m))]
      entered == [s EXCEPT !.visited = @ \cup {n}, !.recStack = @ \cup {n}]
      left == FoldLeft(follow, entered, succ[n])
  IN  IF left.stop THEN left ELSE [left EXCEPT !.recStack = @ \ {n}]

\* dfs of both rules.  It stops at the first cycle, and what is on the way stays
\* in recStack; a later search that comes there stops as well, without a cycle.
ChainDfs(succ, s, n, path) ==
  LET here == Append(path, n)
      follow(t, m) ==
        IF t.stop THEN t
        ELSE IF m \notin t.visited THEN ChainDfs(succ, t, m, here)
        ELSE IF m \notin t.recStack THEN t
        ELSE [t EXCEPT !.stop = TRUE,
                       !.cycles = IF m \notin ToSet(here) THEN @
                                  ELSE Append(@, Append(SubSeq(here, Min({i \in DOMAIN here : here[i] = m}),
                                                               Len(here)), m))]
      entered == [s EXCEPT !.visited = @ \cup {n}, !.recStack = @ \cup {n}]
      left == FoldLeft(follow, entered, succ[n])
  IN  IF left.stop THEN left ELSE [left EXCEPT !.recStack = @ \ {n}]

\* The searches from every node with successors.
Chains(succ, order) ==
  LET visit(s, n) == IF n \in s.visited \/ succ[n] = <<>> THEN s
                     ELSE ChainDfs(succ, [s EXCEPT !.stop = FALSE], n, <<>>)
  IN  FoldLeft(visit, [visited |-> {}, recStack |-> {}, cycles |-> <<>>, stop |-> FALSE],
               order).cycles

NoDuplicateClasses(d, order) == Duplicates(d, "no-duplicate-classes", order)

NoCircularInheritance(d, order) ==
  ForEach(Chains(d.succ, order), LAMBDA c : Issue(d, "no-circular-inheritance", Nowhere, 0, c))

\* Relationships of an entity with itself are left to no-self-referential.
NoCircularChain(d, order) ==
  ForEach(Chains([n \in Ids |-> SelectSeq(d.succ[n], LAMBDA m : m # n)], order),
          LAMBDA c : Issue(d, "no-circular-chain", Nowhere, 0, c))

RECURSIVE InheritanceDepth(_, _, _)

\* calculateInheritanceDepth: the subclasses below n.
InheritanceDepth(succ, n, visited) ==
  IF n \in visited THEN 0
  ELSE LET children == {m \in Ids : n \in ToSet(succ[m])}
       IN  1 + Max({0} \cup {InheritanceDepth(succ, m, visited \cup {n}) : m \in children})

MaxInheritanceDepth(d, order) ==
  LET roots == {n \in NodeIds(d) \cup EdgeNodes(d) : d.succ[n] = <<>>}
      depth(n) == InheritanceDepth(d.succ, n, {})
  IN  ForEach(SelectSeq(order, LAMBDA n :
                n \in roots /\ depth(n) > Limit(d, "max-inheritance-depth")),
              LAMBDA n : Issue(d, "max-inheritance-depth", LastOf(d, n), 0,
                               <<depth(n), n, Limit(d, "max-inheritance-depth")>>))

\* What no-self-referential and no-circular-transitions find: every edge of a
\* node with itself.
SelfLoops(d, r) ==
  FlattenSeq(ForEach(Sorted(Ids), LAMBDA n :
    ForEach(SelectSeq(d.succ[n], LAMBDA m : m = n), LAMBDA m : Issue(d, r, Nowhere, 0, <<m>>))))

NoSelfReferential(d) == SelfLoops(d, "no-self-referential")

-----------------------------------------------------------------------------
(* State diagrams.                                                           *)

NoCircularTransitions(d) == SelfLoops(d, "no-circular-transitions")

RECURSIVE Search(_, _, _)

\* Faulty variant: the queue is the neighbours of the current state only.
SearchQueueReplaced(succ, queue, reachable) ==
  IF queue = <<>> THEN reachable
  ELSE LET new == {m \in ToSet(succ[Head(queue)]) : m \notin reachable}
       IN  Search(succ, Sorted(new), reachable \cup new)

\* The breadth-first loop of StateNoUnreachable.
Search(succ, queue, reachable) ==
  IF queue = <<>> THEN reachable
  ELSE LET new == {m \in ToSet(succ[Head(queue)]) : m \notin reachable}
       IN  Search(succ, Tail(queue) \o Sorted(new), reachable \cup new)

NoUnreachable(d) ==
  LET entries == {n \in NodeIds(d) : \A m \in Ids : n \notin ToSet(d.succ[m])}
      first == IF d.starts # <<>> THEN ToSet(d.starts) ELSE entries
      reachable == Search(d.succ, Sorted(first), first)
  IN  ForEach(SelectSeq(d.nodes, LAMBDA n : n.id \notin reachable),
              LAMBDA n : Issue(d, "no-unreachable-state", n, 0, <<n.id>>))

MaxTransitions(d, order) ==
  ForEach(SelectSeq(order, LAMBDA n : Len(d.succ[n]) > Limit(d, "max-transitions")),
          LAMBDA n : Issue(d, "max-transitions", LastOf(d, n), 0,
                           <<n, Len(d.succ[n]), Limit(d, "max-transitions")>>))

-----------------------------------------------------------------------------
(* The engine.                                                               *)

RunRule(d, r, order) ==
  CASE r = "no-duplicate-node-ids"   -> NoDuplicateNodeIDs(d)
    [] r = "no-disconnected-nodes"   -> NoDisconnectedNodes(d)
    [] r = "max-fanout"              -> MaxFanout(d, order)
    [] r = "no-cycles"               -> NoCycles(d, order)
    [] r = "max-depth"               -> MaxDepth(d)
    [] r = "no-undefined-actors"     -> NoUndefinedActors(d, order)
    [] r = "no-duplicate-actors"     -> NoDuplicateActors(d, order)
    [] r = "max-nesting-depth"       -> MaxNestingDepth(d)
    [] r = "no-circular-inheritance" -> NoCircularInheritance(d, order)
    [] r = "no-duplicate-classes"    -> NoDuplicateClasses(d, order)
    [] r = "max-inheritance-depth"   -> MaxInheritanceDepth(d, order)
    [] r = "no-circular-chain"       -> NoCircularChain(d, order)
    [] r = "no-self-referential"     -> NoSelfReferential(d)
    [] r = "no-circular-transitions" -> NoCircularTransitions(d)
    [] r = "no-unreachable-state"    -> NoUnreachable(d)
    [] r = "max-transitions"         -> MaxTransitions(d, order)

\* The issues of the rules that are enabled, in the order of registration.
Found(d, order) ==
  IF d.family = "unknown" THEN <<>>
  ELSE FlattenSeq(ForEach(SelectSeq(Rules[d.family], LAMBDA r : OptionsOf(d, r).enabled),
                          LAMBDA r : RunRule(d, r, order)))

\* One order stands for the orders of all maps of a run: at most one rule of a
\* family reports different issues under different orders.
Run == \E order \in Orders : Answer(Found(diagram, order))

Next == Configure \/ Parse \/ Run

Spec == Receive /\ [][Next]_requestVars

-----------------------------------------------------------------------------
(* Properties                                                                *)

Edge(a, b) == b \in ToSet(diagram.succ[a])

\* The walks along edges whose nodes but the last are different.
Walks ==
  {w \in UNION {[1 .. k -> Ids] : k \in 1 .. Cardinality(Ids) + 1} :
     /\ \A i \in 1 .. Len(w) - 1 : Edge(w[i], w[i + 1])
     /\ \A i, j \in 1 .. Len(w) - 1 : i # j => w[i] # w[j]}

Cycles == {w \in Walks : Len(w) > 1 /\ w[1] = w[Len(w)]}

\* The cycles each of the three searches is for.
CyclesOf(r) ==
  CASE r = "no-cycles" ->
         {w \in Cycles : Len(w) > 2 \/ ~OptionsOf(diagram, r).allowSelfLoop}
    [] r = "no-circular-inheritance" -> Cycles
    [] r = "no-circular-chain" -> {w \in Cycles : Len(w) > 2}

\* The issues of a rule for the diagram, before any is hidden.
Raw(r, order) == ToSet(RunRule(diagram, r, order))

Has(r) == diagram.family \in DOMAIN Rules /\ r \in ToSet(Rules[diagram.family])

\* Every cycle reported is a cycle of the diagram, and a diagram that has one is
\* never reported without, for the searches that share visited and stack over
\* all their starts.
CyclesGenuine ==
  \A r \in {"no-cycles", "no-circular-inheritance", "no-circular-chain"}, order \in Orders :
    phase = "parsed" /\ Has(r) =>
      LET messages == {i.message : i \in Raw(r, order)}
      IN  /\ messages \subseteq CyclesOf(r)
          /\ CyclesOf(r) # {} => messages # {}

\* The depth of a start of max-depth is that of its longest walk, the starts are
\* the sources or the least nodes of the strong components, the depth of a base
\* class that of its longest line of descent, and the states that are reported
\* are those no walk comes to.
FindingsExact ==
  LET nodes == NodeIds(diagram)
      order == Sorted(Ids)
      reach(a, b) == \E w \in Walks : w[1] = a /\ w[Len(w)] = b
      sources == {n \in nodes : \A m \in nodes : ~Edge(m, n)}
  IN
  /\ phase = "parsed" /\ Has("max-depth") =>
       LET starts == IF sources # {} THEN sources
                     ELSE {n \in nodes : \A m \in nodes : reach(n, m) /\ reach(m, n) => n <= m}
           depth(n) == Max({Len(w) - 1 : w \in {v \in Walks : v[1] = n}})
       IN  {<<i.message[3], i.message[1]>> : i \in Raw("max-depth", order)}
           = {<<n, depth(n)>> : n \in {m \in starts : depth(m) > Limit(diagram, "max-depth")}}
  /\ phase = "parsed" /\ Has("max-inheritance-depth") =>
       LET bases == {n \in Ids : diagram.succ[n] = <<>>}
           depth(n) == Max({Len(w) : w \in {v \in Walks : v[Len(v)] = n}})
       IN  {<<i.message[2], i.message[1]>> : i \in Raw("max-inheritance-depth", order)}
           = {<<n, depth(n)>> : n \in {m \in bases : depth(m) > Limit(diagram, "max-inheritance-depth")}}
  /\ phase = "parsed" /\ Has("no-unreachable-state") =>
       LET first == IF diagram.starts # <<>> THEN ToSet(diagram.starts) ELSE sources
       IN  {i.message[1] : i \in Raw("no-unreachable-state", order)}
           = {n \in nodes : ~ \E m \in first : reach(m, n)}
=============================================================================
