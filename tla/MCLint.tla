-------------------------------- MODULE MCLint --------------------------------
(* Diagrams of three nodes with up to two edges from each, for a few requests, *)
(* and configurations with one or two entries in every form.                   *)
EXTENDS Lint

MCSpellings == ("LIMIT" :> "limit") @@ ("Severity " :> "severity") @@ ("Error " :> "error")

NoDocument == [shape |-> "absent", allowUnknown |-> Absent, version |-> Absent,
               legacyVersion |-> Absent, rules |-> Absent, others |-> <<>>]
Versioned(entries) == [NoDocument EXCEPT !.shape = "object", !.version = Str("v1"),
                                         !.rules = Obj(entries)]
Flat(entries) == [NoDocument EXCEPT !.shape = "object", !.others = entries]

Plain == [door |-> "server", document |-> NoDocument, directives |-> <<>>, subgraph |-> {},
          duplicates |-> {}, isolated |-> {}, starts |-> <<>>]

\* Every limit as low as it can be, and self loops allowed: a file of the client,
\* since handlers have no limits for classes and states.
Strict == [Plain EXCEPT
  !.door = "client",
  !.document = Flat([key \in {Bare(r) : r \in DOMAIN DefaultLimits} |->
                       Obj("limit" :> Num(1))]
                    @@ (Bare("no-cycles") :> Obj("allow-self-loop" :> Bool(TRUE)))),
  !.starts = <<2>>]

Sel(neg, p, v) == Selector([negated |-> neg, prefix |-> p, value |-> v])

\* A subgraph, findings of the source analysis, a comment for the next line and
\* one for the subgraph, and selectors that contradict each other.
Hiding == [Plain EXCEPT
  !.document = Versioned(
    (Bare("max-fanout") :> Obj(("limit" :> Num(1)) @@ ("suppression-selectors" :>
        Arr(<<Sel(TRUE, "node", 1), Sel(FALSE, "subgraph", 1),
              Sel(FALSE, "rule", "max-fanout")>>))))
    @@ (RuleKey(FALSE, TRUE, "max-depth") :> Obj(("limit" :> Num(1)) @@ ("severity" :> Str("info"))))
    @@ (Bare("no-duplicate-node-ids") :> Obj("suppress" :> Arr(<<Sel(FALSE, "node", 3)>>)))
    @@ (Bare("no-disconnected-nodes") :> Obj("enabled" :> Bool(FALSE)))),
  !.directives = <<[rule |-> "all", scope |-> "next-line", targetLine |-> 2, subgraph |-> 0],
                   [rule |-> "no-cycles", scope |-> "file", targetLine |-> 0, subgraph |-> 1]>>,
  !.subgraph = {1, 2}, !.duplicates = {2, 3}, !.isolated = {3}]

MCExplored == {Plain, Strict, Hiding}

\* Options of max-fanout, valid and not.
SomeOptions ==
  {<<>>, "limit" :> Num(2), "limit" :> Num(0), "limit" :> Fraction, "LIMIT" :> Str("2"),
   ("limit" :> Num(1)) @@ ("LIMIT" :> Num(3)), "Severity " :> Str("Error "),
   ("severity" :> Str("info")) @@ ("Severity " :> Str("fatal")), "severity" :> Str("fatal"), "Severity " :> Num(1), "enabled" :> Str("no"),
   ("enabled" :> Bool(FALSE)) @@ ("severity" :> Str("info")), "unknown" :> Num(1),
   "suppress" :> Arr(<<Sel(FALSE, "rule", "*")>>), "suppressions" :> Str("node:1"),
   "suppression-selectors" :> Arr(<<Sel(FALSE, "rule", "no-such-rule"), Sel(TRUE, "node", 1)>>),
   "suppression-selectors" :> Arr(<<Str("node:")>>), "severity" :> Arr(<<Obj(<<>>)>>)}

SomeValues == {Obj(o) : o \in SomeOptions} \cup {Null, Num(1)}

\* The keys of max-fanout, and those of a rule that has no metadata, of one that
\* is only planned, and of none.
FanoutKeys == {RuleKey(p, c, "max-fanout") : p, c \in BOOLEAN}
OtherKeys == {Bare("max-transitions"), RuleKey(FALSE, TRUE, "max-transitions"),
              RuleKey(FALSE, TRUE, "class-no-orphan-classes"), Bare("no-such-rule")}

OneEntry == {key :> v : key \in FanoutKeys \cup OtherKeys, v \in SomeValues}
TwoEntries == {(Bare("max-fanout") :> v) @@ (key :> w) :
                 key \in FanoutKeys \ {Bare("max-fanout")},
                 v, w \in {Null, Obj("limit" :> Num(2)), Obj("LIMIT" :> Num(3)),
                           Obj("enabled" :> Bool(FALSE))}}
SomeEntries == {<<>>} \cup OneEntry \cup TwoEntries

\* The four forms of a document, and documents of the wrong form.
Documents ==
  UNION {{Flat(e), Versioned(e), [Versioned(e) EXCEPT !.version = Absent],
          [Versioned(e) EXCEPT !.version = Absent, !.legacyVersion = Str("v1")]} :
           e \in SomeEntries}
  \cup {[NoDocument EXCEPT !.shape = s] : s \in {"absent", "null", "array"}}
  \cup {[Versioned(<<>>) EXCEPT !.version = v] : v \in {Str("v2"), Num(1), Null}}
  \cup {[Versioned(<<>>) EXCEPT !.rules = v] : v \in {Absent, Num(1)}}
  \cup {[Versioned(<<>>) EXCEPT !.others = Bare("max-fanout") :> Obj(<<>>)]}

MCSubmissions ==
  MCExplored
  \cup {[Plain EXCEPT !.door = door,
                      !.document = IF d.shape = "object" THEN [d EXCEPT !.allowUnknown = a] ELSE d] :
          door \in {"server", "strict server", "client"},
          a \in {Absent, Bool(FALSE)}, d \in Documents}

\* For each a line of its own, or two on one line and the third found nowhere, as in
\* "3 & 1 --> 2".  Lines are counted without the header and the comments.
MCLayouts == {<<1, 2, 3>>, <<2, 2, 0>>}

MCFamilies == DOMAIN Rules \cup {"unknown"}
=============================================================================
