----------------------------- MODULE LintRequest -----------------------------
(***************************************************************************)
(* A request to lint one diagram, from the configuration it comes with to   *)
(* the engine's answer: the configuration is read (RuleConfig), the engine  *)
(* normalizes it again, the diagram is parsed, and of what the rules report *)
(* (Lint) some is hidden and the rest sorted (internal/engine/engine.go).   *)
(*                                                                          *)
(* Node IDs are numbers, ordered as their names are.  The edges of a        *)
(* diagram are kept by their source, in the order of the document, which is *)
(* the only order of edges a rule can tell; they carry no position, and of  *)
(* a class diagram they are the extensions, the others being ignored.       *)
(* Nodes carry the place where the parser found them, if it did.            *)
(***************************************************************************)
EXTENDS RuleConfig, CacheLists

CONSTANTS
  Ids,         \* the node IDs
  MaxDegree,   \* bound: the edges that leave a node
  Declared,    \* the sets of nodes a document may declare besides its edges
  Layouts,     \* the ways the IDs may stand in a document: the line of each, 0 for none
  Families,    \* the diagram families, a subset of DOMAIN Rules or "unknown"
  Submissions, \* what a diagram comes with: see SubmissionType
  Explored     \* bound: the submissions that go on to all diagrams

\* The rule IDs as strings are ordered.
Alphabet ==
  <<"max-depth", "max-fanout", "max-inheritance-depth", "max-nesting-depth",
    "max-transitions", "no-circular-chain", "no-circular-inheritance",
    "no-circular-transitions", "no-cycles", "no-disconnected-nodes",
    "no-duplicate-actors", "no-duplicate-classes", "no-duplicate-node-ids",
    "no-self-referential", "no-undefined-actors", "no-unreachable-state",
    "unsupported-diagram-type">>
RuleIDs == ToSet(Alphabet)

\* An issue; 0 stands for no line, no column and no subgraph, and the message is the
\* sequence of what it names.
IssueType == [rule : RuleIDs, severity : Severities, line : Nat, column : Nat,
              context : {0, 1}, message : Seq(Nat)]

\* A selector that has the form of one: what is of another form is kept as a string.
SelectorType(s) ==
  /\ s.negated \in BOOLEAN /\ s.prefix \in {"rule", "subgraph", "node"}
  /\ s.prefix = "subgraph" => s.value # 0
SelectorsOf(v) ==
  IF v[1] = "array" THEN {x[2] : x \in {y \in ToSet(v[2]) : y[1] = "selector"}} ELSE {}

\* door: who reads the configuration, a handler, strict or not about its form, or
\* the client; document: the configuration; directives: the suppression comments;
\* subgraph: the nodes of subgraph 1; duplicates and isolated: the findings of
\* the analysis of the source; starts: the initial states.
SubmissionType(q) ==
  /\ q.door \in {"server", "strict server", "client"}
  /\ DocumentType(q.document)
  /\ q.document.rules[1] \in {"absent", "object"} =>
       LET entries == Entries(q.document) IN
       /\ IsFiniteSet(DOMAIN entries) /\ DOMAIN entries \subseteq RuleKeys
       /\ \A key \in DOMAIN entries :
            /\ entries[key][1] = "null" => entries[key] = Null
            /\ entries[key][1] = "object" =>
                 \A k \in DOMAIN entries[key][2] :
                   \A s \in SelectorsOf(entries[key][2][k]) : SelectorType(s)
  /\ q.directives \in Seq([rule : RuleIDs \cup {"all"}, scope : {"file", "next-line"},
                           targetLine : Nat, subgraph : {0, 1}])
  /\ \A k \in DOMAIN q.directives :
       q.directives[k].scope = "next-line" => q.directives[k].targetLine > 0
  /\ q.subgraph \subseteq Ids /\ q.duplicates \subseteq Ids
  /\ q.isolated \subseteq Ids /\ q.starts \in Seq(Ids)

ASSUME IdsArePositive == Ids \subseteq Nat \ {0} /\ IsFiniteSet(Ids)
ASSUME DeclaredType == Declared \subseteq SUBSET Ids
ASSUME LayoutsType == Layouts \subseteq [Ids -> Nat]
ASSUME FamiliesKnown == Families \subseteq DOMAIN Rules \cup {"unknown"}
ASSUME SubmissionsTyped == \A q \in Submissions : SubmissionType(q)
ASSUME ExploredSubmitted == Explored \subseteq Submissions

VARIABLES
  diagram,   \* the diagram, with its request
  phase,     \* "received", "refused", "ignored", "configured", "parsed" or "linted"
  returned,  \* the issues returned
  reported   \* history: the issues that the rules reported

requestVars == <<diagram, phase, returned, reported>>

Sorted(S) == SetToSortSeq(S, <)

\* Every endpoint of an edge is a node, but for class diagrams, whose nodes are
\* the classes declared, and states only may be nodes without an edge.  Classes and
\* participants may be declared twice.
NodeIDs(family, succ, declared) ==
  LET ends == {n \in Ids : succ[n] # <<>>} \cup UNION {ToSet(succ[n]) : n \in Ids}
      definitions == Sorted(declared) \o Sorted(declared \cap ends)
  IN  CASE family = "class"    -> definitions
        [] family = "sequence" -> definitions \o Sorted(ends \ declared)
        [] family = "state"    -> Sorted(declared \cup ends)
        [] OTHER               -> Sorted(ends)

\* A class or a participant has the line of its declaration, and the other actors
\* none.  In the other families an ID is looked for in the document; several may be
\* found on one line, and some nowhere.
Nodes(family, succ, declared, layout) ==
  LET ids == NodeIDs(family, succ, declared)
      line(i) == IF family \notin {"class", "sequence"} THEN layout[ids[i]]
                 ELSE IF ids[i] \in declared THEN i ELSE 0
      column(i) == IF line(i) = 0 THEN 0 ELSE ids[i]
  IN  [i \in DOMAIN ids |-> [id |-> ids[i], line |-> line(i), column |-> column(i)]]

\* The options of a rule as the rules and the engine read them, what is of the
\* wrong kind being absent; severity "" and limit 0 stand for absent ones.
NoOptions == [enabled |-> TRUE, severity |-> "", limit |-> 0,
              allowSelfLoop |-> FALSE, selectors |-> <<>>]
ReadOptions(options) ==
  LET read(k, kind, default) ==
        IF k \in DOMAIN options /\ options[k][1] = kind THEN options[k][2] ELSE default
      selectors == read("suppression-selectors", "array", <<>>)
  IN  [enabled |-> read("enabled", "bool", TRUE),
       severity |-> LowerTrimmed(read("severity", "string", "")),
       limit |-> read("limit", "number", 0),
       allowSelfLoop |-> read("allow-self-loop", "bool", FALSE),
       selectors |-> [i \in DOMAIN selectors |-> selectors[i][2]]]

\* Submissions that are not explored come with a document of one family only.
Receive ==
  /\ \E q \in Submissions : \E f \in IF q \in Explored THEN Families ELSE {"unknown"} :
       diagram = [family |-> f, request |-> q, nodes |-> <<>>, succ |-> <<>>,
                  directives |-> q.directives, subgraph |-> q.subgraph,
                  duplicates |-> q.duplicates, isolated |-> q.isolated,
                  starts |-> q.starts, error |-> "", warnings |-> {},
                  options |-> <<>>, config |-> <<>>]
  /\ phase = "received"
  /\ returned = <<>> /\ reported = {}

\* The configuration is read, before the document is parsed, and the engine
\* normalizes what it is given, before it looks at the diagram; it returns no
\* issues if that fails.
Configure ==
  LET q == diagram.request
      read == CASE q.door = "server"        -> ServerConfig(q.document, FALSE)
                [] q.door = "strict server" -> ServerConfig(q.document, TRUE)
                [] q.door = "client"        -> ClientConfig(q.document)
  IN
  /\ phase = "received"
  /\ \E o \in read : \E n \in NormalizeConfig(o.config) :
       /\ diagram' = [diagram EXCEPT !.error = o.error, !.warnings = o.warnings,
                                     !.options = n.config,
                                     !.config = [r \in DOMAIN n.config |-> ReadOptions(n.config[r])]]
       /\ phase' = IF o.error # "" THEN "refused"
                   ELSE IF n.error # "" THEN "ignored" ELSE "configured"
  /\ UNCHANGED <<returned, reported>>

\* The parser's answer: a diagram of the family.
Parse ==
  /\ phase = "configured" /\ diagram.request \in Explored
  /\ \E g \in [Ids -> BoundedSeq(Ids, MaxDegree)], e \in Declared, l \in Layouts :
       diagram' = [diagram EXCEPT !.nodes = Nodes(diagram.family, g, e, l), !.succ = g]
  /\ phase' = "parsed"
  /\ UNCHANGED <<returned, reported>>

-----------------------------------------------------------------------------
(* The engine.                                                               *)

OptionsOf(d, r) == IF r \in DOMAIN d.config THEN d.config[r] ELSE NoOptions

\* isSuppressed: a comment of the source covers the issue.
IsSuppressed(d, i) ==
  \E k \in DOMAIN d.directives :
    LET s == d.directives[k] IN
    /\ s.rule \in {"all", i.rule}
    /\ s.scope = "next-line" => i.line # 0 /\ i.line = s.targetLine
    /\ s.subgraph # 0 => i.context = s.subgraph

\* The rules whose message tells the node.
NodeRules == {"max-fanout", "no-disconnected-nodes", "no-duplicate-node-ids"}

\* linkedNodeIDs: all nodes on the line of the issue, or else the one its message
\* tells.
LinkedNodeIDs(d, i) ==
  LET onLine == {k \in DOMAIN d.nodes : d.nodes[k].line # 0 /\ d.nodes[k].line = i.line}
  IN  IF onLine # {} THEN {d.nodes[k].id : k \in onLine}
      ELSE IF i.rule \in NodeRules THEN {i.message[1]} ELSE {}

Matches(d, i, s) ==
  \/ s.prefix = "rule" /\ s.value = i.rule
  \/ s.prefix = "subgraph" /\ i.context # 0 /\ s.value = i.context
  \/ s.prefix = "node" /\ s.value \in LinkedNodeIDs(d, i)

\* Faulty variant: the last selector that matches decides.
IssueMatchesAnySelectorLast(d, i) ==
  LET selectors == OptionsOf(d, i.rule).selectors
      matching == {k \in DOMAIN selectors : Matches(d, i, selectors[k])}
  IN  matching # {} /\ ~selectors[Max(matching)].negated

\* issueMatchesAnySelector: a selector matches, and no negated one does.
IssueMatchesAnySelector(d, i) ==
  LET selectors == OptionsOf(d, i.rule).selectors
      matching == {selectors[k] : k \in {j \in DOMAIN selectors : Matches(d, i, selectors[j])}}
  IN  /\ \E s \in matching : ~s.negated
      /\ ~ \E s \in matching : s.negated

\* sortIssues: by severity, rule, line, column and context, absent ones last, and
\* message.
Priority == [error |-> 0, warning |-> 1, info |-> 2]
SortKey(i) ==
  LET absent(x) == IF x = 0 THEN 1 ELSE 0
      rank == CHOOSE k \in DOMAIN Alphabet : Alphabet[k] = i.rule
  IN  <<Priority[i.severity], rank, absent(i.line), i.line, absent(i.column), i.column,
        absent(i.context), i.context>> \o i.message

\* The order of strings, on sequences of numbers.
Precedes(s, t) ==
  \E k \in DOMAIN t : /\ k = Len(s) + 1 \/ (k \in DOMAIN s /\ s[k] < t[k])
                     /\ \A j \in 1 .. k - 1 : s[j] = t[j]

\* Equal ones stay in their order.
SortIssues(issues) ==
  LET keys == [i \in DOMAIN issues |-> SortKey(issues[i])]
      before(j, i) == Precedes(keys[j], keys[i]) \/ (keys[j] = keys[i] /\ j <= i)
      rank == [i \in DOMAIN issues |-> Cardinality({j \in DOMAIN issues : before(j, i)})]
  IN  [n \in DOMAIN issues |-> issues[CHOOSE i \in DOMAIN issues : rank[i] = n]]

\* Faulty variant: an issue is compared with the first one only.
DedupeIssuesFirstOnly(issues) ==
  PartAt(issues, {k \in DOMAIN issues : k = 1 \/ issues[1] # issues[k]})

\* dedupeIssues: what equals the issue before it is dropped.
DedupeIssues(issues) ==
  PartAt(issues, {k \in DOMAIN issues : k = 1 \/ issues[k - 1] # issues[k]})

\* RunWithInstrumentation, for what the enabled rules report.
Returned(d, issues) ==
  IF d.family = "unknown"
  THEN <<[rule |-> "unsupported-diagram-type", severity |-> "info", line |-> 0,
          column |-> 0, context |-> 0, message |-> <<>>]>>
  ELSE DedupeIssues(SortIssues(PartAt(issues,
         {k \in DOMAIN issues : /\ ~IsSuppressed(d, issues[k])
                               /\ ~IssueMatchesAnySelector(d, issues[k])})))

Answer(issues) ==
  /\ phase = "parsed"
  /\ phase' = "linted"
  /\ reported' = ToSet(issues)
  /\ returned' = Returned(diagram, issues)
  /\ UNCHANGED diagram

\* Whatever the rules report.
RequestSpec ==
  Receive /\ [][Configure \/ Parse \/ \E issues \in Seq(IssueType) : Answer(issues)]_requestVars

-----------------------------------------------------------------------------
(* Properties                                                                *)

\* A configuration that a handler accepts is one the engine runs with: neither its
\* own call of NormalizeConfig nor the engine's refuses what parseConfig let pass,
\* under whatever spelling, which would be a lint without issues.  And what the
\* published schema allows is accepted, no rule of it ignored, by the strict
\* handlers too if it is versioned.
AcceptedConfigRuns ==
  LET q == diagram.request IN
  /\ q.door # "client" => phase # "ignored" /\ diagram.error # "invalid_config"
  /\ /\ phase # "received" /\ Conforms(q.document)
     /\ q.door = "strict server" => q.document.version # Absent
     => diagram.error = "" /\ \A key \in DOMAIN Entries(q.document) :
                               <<"ignored", key>> \notin diagram.warnings

\* What an entry states, under the names of the options; the entries that name a
\* rule; and what all of them state, under whatever spelling.
StatedBy(entry) ==
  IF entry[1] = "object" THEN {<<NormalizeMetaKey(k), entry[2][k]>> : k \in DOMAIN entry[2]}
  ELSE {}
Naming(entries, r) == {key \in DOMAIN entries : key.id = r}
Stated(entries, r) == UNION {StatedBy(entries[key]) : key \in Naming(entries, r)}

\* The options state everything of a set of statements, and nothing else; of two
\* statements on one option they hold one.
AreThose(options, statements) ==
  /\ DOMAIN options = {o[1] : o \in statements}
  /\ \A k \in DOMAIN options : <<k, options[k]>> \in statements

\* The options in force for a rule are those that the document states for it, through
\* parseConfig or the client, and NormalizeConfig twice or once: with the client of
\* all entries for the rule, with the handlers of a single one, all of it and nothing
\* of another, since of several the one read last replaces the others
\* (handler.go:326).  And a handler names every entry that it ignores.
ConfigMeansDocument ==
  LET q == diagram.request
      entries == Entries(q.document)
      inForce == diagram.options
  IN
  phase = "configured" =>
    /\ \A r \in DOMAIN inForce :
         IF q.door = "client" THEN AreThose(inForce[r], Stated(entries, r))
         ELSE \E key \in Naming(entries, r) : AreThose(inForce[r], StatedBy(entries[key]))
    /\ \A key \in DOMAIN entries :
         \/ key.id \in DOMAIN inForce
         \/ q.door # "client" /\ <<"ignored", key>> \in diagram.warnings

\* What the guide says of several entries for a rule: "Mixed alias usage for the same
\* built-in rule is merged onto one canonical config entry before validation"
\* (API_GUIDE.md:281), so that no option stated for a rule in force is lost.  The
\* handlers keep one entry only.
EntriesMerged ==
  LET entries == Entries(diagram.request.document) IN
  phase = "configured" =>
    \A r \in DOMAIN diagram.options : \A o \in Stated(entries, r) :
      o[1] \in DOMAIN diagram.options[r]

Done == phase = "linted"

SelectorsFor(i) == ToSet(OptionsOf(diagram, i.rule).selectors)

\* What hides an issue: a comment for its rule or for all, of the file, the line or
\* the subgraph; or a selector, for its rule, its subgraph or a node, none of whose
\* exceptions applies.  A node is the issue's if it stands on the same line, or, where
\* no node does, if the message tells it.  The guides say otherwise of two selectors:
\* "rule:*" should "suppress all issues" (docs/error-responses.md:179) and hides none, its
\* value being no rule's (engine.go:310); "node:<id>" should "suppress issues associated
\* with node <id>" (API_GUIDE.md:786), and with A --> B on one line node:A hides what was
\* found about B (engine.go:357-373).
Hidden(i) ==
  \/ \E k \in DOMAIN diagram.directives :
       LET s == diagram.directives[k] IN
       /\ s.rule = "all" \/ s.rule = i.rule
       /\ s.scope = "file" \/ s.targetLine = i.line
       /\ s.subgraph = 0 \/ s.subgraph = i.context
  \/ LET beside(n) == i.line # 0 /\ n.line = i.line
         nodes == ToSet(diagram.nodes)
         isNode(v) == \/ \E n \in nodes : beside(n) /\ n.id = v
                      \/ /\ i.rule \in NodeRules /\ i.message[1] = v
                         /\ \A n \in nodes : ~beside(n)
         covers(s) == CASE s.prefix = "rule"     -> s.value = i.rule
                        [] s.prefix = "subgraph" -> s.value = i.context
                        [] s.prefix = "node"     -> isNode(s.value)
     IN  /\ \E s \in SelectorsFor(i) : ~s.negated /\ covers(s)
         /\ \A s \in SelectorsFor(i) : s.negated => ~covers(s)

\* "Issues are deterministically sorted before returning ... duplicates are
\* removed": every two neighbours are in strict order, so that a set of issues
\* is returned in one way only.  The guide's list of keys (API_GUIDE.md:602) has no
\* context; the code compares it before the message.
OrderedOnce ==
  Done =>
    /\ reported \subseteq IssueType
    /\ \A k \in 1 .. Len(returned) - 1 :
         Precedes(SortKey(returned[k]), SortKey(returned[k + 1]))

\* What is returned is what the enabled rules found, without what is hidden: no issue
\* is lost to a selector or a comment for another, to the sorting or to the search for
\* duplicates, and none escapes (engine.go:133-145).
HiddenExactly ==
  Done /\ diagram.family # "unknown" =>
    ToSet(returned) = {i \in reported : ~Hidden(i)}

=============================================================================
