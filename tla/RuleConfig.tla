------------------------------ MODULE RuleConfig ------------------------------
(***************************************************************************)
(* The configuration of the rules, from a JSON document to the options the  *)
(* engine runs with: parseConfig of the analyze handlers                    *)
(* (internal/api/handler.go), the configuration file of the command line    *)
(* client (cmd/merm8-cli/main.go), and NormalizeConfig (internal/rules),    *)
(* which both lead to.                                                      *)
(*                                                                          *)
(* A JSON value is a pair of its kind and its content.  A string that       *)
(* parses as a selector has the parsed selector for its content.  The key   *)
(* of a rule is an ID with or without spaces around it and the prefix       *)
(* core/.  Where the code ranges over a Go map an operator gives the set of *)
(* the outcomes of all orders: of several faults any may be met first.      *)
(***************************************************************************)
EXTENDS Integers, Sequences, FiniteSets, FiniteSetsExt, SequencesExt

CONSTANTS
  Spellings,   \* strings that are not trimmed or in lower case, with those that are
  MaxNesting   \* encoding/json decodes no value that is nested deeper

\* The rule groups, in the order of registration.
Rules ==
  [flowchart |-> <<"no-duplicate-node-ids", "no-disconnected-nodes", "max-fanout",
                   "no-cycles", "max-depth">>,
   sequence  |-> <<"no-undefined-actors", "no-duplicate-actors", "max-nesting-depth">>,
   class     |-> <<"no-circular-inheritance", "no-duplicate-classes",
                   "max-inheritance-depth">>,
   er        |-> <<"no-circular-chain", "no-self-referential">>,
   state     |-> <<"no-circular-transitions", "no-unreachable-state",
                   "max-transitions">>]

KnownRuleIDs == UNION {ToSet(Rules[f]) : f \in DOMAIN Rules}

\* builtInRuleMetadata: the options that the metadata of a rule describes; the
\* last four rules are only planned.
ConfigurableOptions ==
  [r \in {"no-duplicate-node-ids", "no-disconnected-nodes", "max-fanout", "no-cycles",
          "max-depth", "class-no-orphan-classes", "er-no-isolated-entities",
          "sequence-max-participants", "state-no-unreachable-states"} |->
     {"enabled", "severity", "suppression-selectors"}
     \cup CASE r \in {"max-fanout", "max-depth"} -> {"limit"}
            [] r = "no-cycles"                   -> {"allow-self-loop"}
            [] OTHER                             -> {}]

BuiltInRules == DOMAIN ConfigurableOptions

\* ruleSpecificConstraints.
RuleSpecificOptions ==
  [r \in {"max-fanout", "max-depth", "no-cycles"} |->
     IF r = "no-cycles" THEN {"allow-self-loop"} ELSE {"limit"}]

\* ConfigRegistryForRuleIDs: the options that are accepted for each rule.
ConfigRegistry ==
  [r \in BuiltInRules \cap KnownRuleIDs |->
     {"enabled", "severity", "suppression-selectors"}
     \cup (IF r \in DOMAIN RuleSpecificOptions THEN RuleSpecificOptions[r] ELSE {})]

\* The names that the code has for options and severities are trimmed and in lower
\* case.
Severities == {"error", "warning", "info"}
OptionNames == {"enabled", "severity", "suppression-selectors", "limit", "allow-self-loop"}
ASSUME NamesAreTrimmed == DOMAIN Spellings \cap (Severities \cup OptionNames) = {}
ASSUME NestingBounded == MaxNesting \in Nat

-----------------------------------------------------------------------------
(* Documents.                                                                *)

Absent == <<"absent">>
Null == <<"null">>
Fraction == <<"fraction">>
Bool(b) == <<"bool", b>>
Str(s) == <<"string", s>>
Num(n) == <<"number", n>>
Selector(s) == <<"selector", s>>
Arr(s) == <<"array", s>>
Obj(f) == <<"object", f>>

RuleKey(padded, core, id) == [padded |-> padded, core |-> core, id |-> id]
RuleKeys == [padded : BOOLEAN, core : BOOLEAN, id : STRING]
Bare(id) == RuleKey(FALSE, FALSE, id)

\* The keys of a document that are not names of rules are fields, which are
\* Absent in a document that is no object; others are the remaining keys.
DocumentType(p) ==
  /\ p.shape \in {"absent", "null", "array", "object"}
  /\ DOMAIN p = {"shape", "allowUnknown", "version", "legacyVersion", "rules", "others"}
  /\ p.shape # "object" => /\ p.others = <<>>
                           /\ \A f \in DOMAIN p \ {"shape", "others"} : p[f] = Absent

Accepted(config, warnings) == [error |-> "", config |-> config, warnings |-> warnings]
Refused(code) == [error |-> code, config |-> <<>>, warnings |-> {}]

\* The functions that take each element of a domain to one of its choices.
Picks(choices) ==
  {f \in [DOMAIN choices -> UNION {choices[x] : x \in DOMAIN choices}] :
     \A x \in DOMAIN choices : f[x] \in choices[x]}

-----------------------------------------------------------------------------
(* Names and values.                                                         *)

\* strings.ToLower(strings.TrimSpace(s)).
LowerTrimmed(s) == IF s \in DOMAIN Spellings THEN Spellings[s] ELSE s

NormalizeMetaKey(key) ==
  LET k == LowerTrimmed(key)
  IN  IF k \in {"suppression", "suppress", "suppressions", "suppression_selectors"}
      THEN "suppression-selectors" ELSE k

\* NormalizeConfigRuleID: the ID of a known rule, or "".
NormalizeConfigRuleID(key) ==
  IF key.id \in KnownRuleIDs /\ (key.core => key.id \in BuiltInRules) THEN key.id ELSE ""

ValidSeverity(v) == v[1] = "string" /\ LowerTrimmed(v[2]) \in Severities

ValidSelectors(v) == v[1] = "array" /\ \A i \in DOMAIN v[2] : v[2][i][1] = "selector"

\* ValidateOption, of an option that the rule has.
ValidateOption(option, v) ==
  CASE option = "severity"                         -> ValidSeverity(v)
    [] option = "suppression-selectors"            -> ValidSelectors(v)
    [] option = "limit"                            -> v[1] = "number" /\ v[2] >= 1
    [] option \in {"enabled", "allow-self-loop"}   -> v[1] = "bool"

-----------------------------------------------------------------------------
(* What leads to the engine.                                                 *)

\* The options of one entry under their normalized names: of two spellings of
\* one name either may be read last.
NormalizedOptions(options) ==
  LET names == {NormalizeMetaKey(key) : key \in DOMAIN options}
      spelled == [k \in names |-> {key \in DOMAIN options : NormalizeMetaKey(key) = k}]
  IN  {[k \in names |-> options[pick[k]]] : pick \in Picks(spelled)}

\* ValidateConfig, of one rule.
ValidOptions(options) ==
  /\ "severity" \in DOMAIN options => ValidSeverity(options["severity"])
  /\ "enabled" \in DOMAIN options => options["enabled"][1] = "bool"
  /\ "suppression-selectors" \in DOMAIN options =>
       ValidSelectors(options["suppression-selectors"])

\* The entries for a rule, or for no rule.
EntriesFor(cfg, r) == {key \in DOMAIN cfg : NormalizeConfigRuleID(key) = r}

\* NormalizeConfig: the entries of a rule are merged in some order, the first to
\* state an option being the one that counts.
Merge(order, read) ==
  LET stating(k) == {i \in DOMAIN order : k \in DOMAIN read[order[i]]}
  IN  [k \in UNION {DOMAIN read[order[i]] : i \in DOMAIN order} |-> read[order[Min(stating(k))]][k]]

Merged(cfg, r) ==
  LET of == EntriesFor(cfg, r)
  IN  {Merge(order, read) :
         order \in SetToSeqs(of), read \in Picks([key \in of |-> NormalizedOptions(cfg[key])])}

NormalizeConfig(cfg) ==
  LET rules == {NormalizeConfigRuleID(key) : key \in DOMAIN cfg}
  IN  IF "" \in rules THEN {Refused("invalid_config")}
      ELSE {IF \A r \in rules : ValidOptions(n[r]) THEN Accepted(n, {})
            ELSE Refused("invalid_config") : n \in Picks([r \in rules |-> Merged(cfg, r)])}

\* A normalized configuration, given to NormalizeConfig again.
AsGiven(config) == [key \in {Bare(r) : r \in DOMAIN config} |-> config[key.id]]

-----------------------------------------------------------------------------
(* The handlers.                                                             *)

Lenient(p) == p.allowUnknown # Bool(FALSE)

SchemaVersion(p) == IF p.legacyVersion # Absent THEN p.legacyVersion ELSE p.version

\* The checks of parseConfig on the document as a whole, in their order: the codes
\* that they answer, and those that fail.
FormCodes ==
  <<"invalid_option", "deprecated_config_format", "deprecated_config_format",
    "invalid_option", "unsupported_schema_version", "invalid_option", "unknown_option">>

FormFaults(p, strict) ==
  LET version == SchemaVersion(p) IN
  {i \in DOMAIN FormCodes :
     CASE i = 1 -> p.shape # "object"
       [] i = 2 -> strict /\ p.legacyVersion # Absent
       [] i = 3 -> strict /\ version = Absent
       [] i = 4 -> version[1] \notin {"absent", "string"}
       [] i = 5 -> version[1] = "string" /\ version # Str("v1")
       [] i = 6 -> p.rules[1] \notin {"absent", "object"}
       [] i = 7 -> version # Absent /\ p.others # <<>>}

FormWarnings(p) ==
  (IF p.legacyVersion # Absent THEN {<<"form", "schema_version">>} ELSE {})
  \cup (IF SchemaVersion(p) # Absent THEN {}
        ELSE IF p.rules # Absent THEN {<<"form", "unversioned">>} ELSE {<<"form", "flat">>})

\* Where the entries of the rules are.
Entries(p) ==
  IF p.rules # Absent THEN p.rules[2]
  ELSE IF SchemaVersion(p) # Absent THEN <<>>
  ELSE p.others

Recognized(key) == NormalizeConfigRuleID(key) \in DOMAIN ConfigRegistry

\* Faulty variant: the options are looked up as they are spelled.
EntryErrorsAsSpelled(key, v, lenient) ==
  IF v[1] # "object" THEN {"invalid_option"}
  ELSE IF ~Recognized(key) THEN IF lenient THEN {} ELSE {"unknown_rule"}
  ELSE LET known == {k \in DOMAIN v[2] : k \in ConfigRegistry[NormalizeConfigRuleID(key)]}
       IN  {"invalid_option" : k \in {x \in known : ~ValidateOption(x, v[2][x])}}

\* The faults parseConfig may find in an entry.
EntryErrors(key, v, lenient) ==
  IF v[1] # "object" THEN {"invalid_option"}
  ELSE IF ~Recognized(key) THEN IF lenient THEN {} ELSE {"unknown_rule"}
  ELSE LET known == {k \in DOMAIN v[2] :
                       NormalizeMetaKey(k) \in ConfigRegistry[NormalizeConfigRuleID(key)]}
       IN  {"unknown_option" : k \in DOMAIN v[2] \ known}
           \cup {"invalid_option" :
                   k \in {x \in known : ~ValidateOption(NormalizeMetaKey(x), v[2][x])}}

EntryWarnings(key, v) ==
  IF ~Recognized(key) THEN {<<"ignored", key>>}
  ELSE {<<"spelling", k>> : k \in {x \in DOMAIN v[2] : NormalizeMetaKey(x) # x}}

\* The elements of the selectors that stand under their own name.
SelectorsIn(cfg) ==
  UNION {IF /\ "suppression-selectors" \in DOMAIN cfg[key]
            /\ cfg[key]["suppression-selectors"][1] = "array"
         THEN ToSet(cfg[key]["suppression-selectors"][2]) ELSE {} : key \in DOMAIN cfg}

SelectorWarnings(cfg) ==
  {<<"unknown rule", s[2].value>> :
     s \in {t \in SelectorsIn(cfg) : /\ t[1] = "selector"
                                     /\ t[2].prefix = "rule"
                                     /\ t[2].value \notin KnownRuleIDs \cup {"*"}}}

ConfigWarnings(p, cfg) ==
  FormWarnings(p) \cup SelectorWarnings(cfg)
  \cup UNION {EntryWarnings(key, Entries(p)[key]) : key \in DOMAIN Entries(p)}

\* parseConfig: of the entries of one rule the last one is kept.
ParseConfig(p, strict) ==
  LET faults == FormFaults(p, strict)
      entries == Entries(p)
      errors == UNION {EntryErrors(key, entries[key], Lenient(p)) : key \in DOMAIN entries}
      kept == {key \in DOMAIN entries : Recognized(key)}
      of == [r \in {NormalizeConfigRuleID(key) : key \in kept} |-> EntriesFor(entries, r)]
      finish(cfg) == IF \E s \in SelectorsIn(cfg) : s[1] = "string"
                     THEN Refused("invalid_suppression_selector")
                     ELSE Accepted(cfg, ConfigWarnings(p, cfg))
  IN  IF p.shape = "absent" THEN {Accepted(<<>>, {})}
      ELSE IF faults # {} THEN {Refused(FormCodes[Min(faults)])}
      ELSE IF errors # {} THEN {Refused(c) : c \in errors}
      ELSE {finish([key \in {Bare(r) : r \in DOMAIN w} |-> entries[w[key.id]][2]]) :
              w \in Picks(of)}

\* What an analyze handler passes on, or the code it answers.
ServerConfig(p, strict) ==
  UNION {IF o.error # "" THEN {o}
         ELSE {IF n.error # "" THEN n ELSE Accepted(AsGiven(n.config), o.warnings) :
                 n \in NormalizeConfig(o.config)} : o \in ParseConfig(p, strict)}

-----------------------------------------------------------------------------
(* The command line client.                                                  *)

\* hasNestedStructure: the value is an object, or an array with one at some depth.
HasNestedStructure(v) ==
  LET within[n \in Nat] ==
        IF n = 0 THEN {v}
        ELSE UNION {ToSet(array[2]) : array \in {x \in within[n - 1] : x[1] = "array"}}
  IN  \E n \in 0 .. MaxNesting : \E x \in within[n] : x[1] = "object"

\* A map with the entries of another one that it does not have.
Filled(map, other) ==
  [k \in DOMAIN map \cup DOMAIN other |-> IF k \in DOMAIN map THEN map[k] ELSE other[k]]

\* Faulty variant: an entry under core/ is dropped when the rule has one.
CanonicalizeWithoutBackfill(cfg) ==
  LET plain == {key \in DOMAIN cfg : ~(key.core /\ ~key.padded)}
      targets == {Bare(key.id) : key \in DOMAIN cfg \ plain}
      options(key) == IF cfg[key] = Null THEN <<>> ELSE cfg[key][2]
  IN  Accepted([key \in plain \cup targets |->
                  options(IF key \in plain THEN key ELSE RuleKey(FALSE, TRUE, key.id))], {})

\* canonicalizeConfigRuleKeys: an entry under core/ fills in the options that the
\* entry of the rule does not have.  An entry that is null is a nil map, to which
\* Go cannot assign.
Canonicalize(cfg) ==
  LET isAlias(key) == key.core /\ ~key.padded
      plain == {key \in DOMAIN cfg : ~isAlias(key)}
      aliases == DOMAIN cfg \ plain
      options(key) == IF cfg[key] = Null THEN <<>> ELSE cfg[key][2]
      filled(key) == LET alias == RuleKey(FALSE, TRUE, key.id)
                     IN  Filled(IF key \in plain THEN options(key) ELSE <<>>,
                                IF key = Bare(key.id) /\ alias \in aliases
                                THEN options(alias) ELSE <<>>)
  IN  IF \E a \in aliases : /\ Bare(a.id) \in plain /\ cfg[Bare(a.id)] = Null
                            /\ options(a) # <<>>
      THEN Refused("panic")
      ELSE Accepted([key \in plain \cup {Bare(a.id) : a \in aliases} |-> filled(key)], {})

\* decodeRulesObject, and the end of parseConfigFile: entries are objects or null,
\* and no option is nested.
DecodeRules(v) ==
  IF \/ v[1] # "object"
     \/ \E key \in DOMAIN v[2] : v[2][key][1] \notin {"object", "null"}
     \/ \E key \in DOMAIN v[2] : /\ v[2][key][1] = "object"
                                 /\ \E k \in DOMAIN v[2][key][2] :
                                      HasNestedStructure(v[2][key][2][k])
  THEN Refused("config error")
  ELSE Canonicalize(v[2])

\* parseConfigFile.  In a flat file the other two fields are entries as well: no
\* objects, or rules that do not exist.
ParseConfigFile(p) ==
  IF p.shape \in {"absent", "null"} THEN Accepted(<<>>, {})
  ELSE IF p.shape # "object" \/ (p.version # Absent /\ (p.version # Str("v1") \/ p.rules = Absent))
  THEN Refused("config error")
  ELSE IF p.rules # Absent THEN DecodeRules(p.rules)
  ELSE IF p.allowUnknown # Absent \/ p.legacyVersion # Absent THEN Refused("config error")
  ELSE DecodeRules(Obj(p.others))

\* What run passes on to the engine: the configuration as it was read, once it has
\* been normalized without error.
ClientConfig(p) ==
  LET o == ParseConfigFile(p)
  IN  IF o.error # "" THEN {o}
      ELSE {IF n.error # "" THEN n ELSE o : n \in NormalizeConfig(o.config)}

-----------------------------------------------------------------------------
(* The JSON schema that is published for a document.                         *)

\* optionSchema.
OptionConforms(option, v) ==
  CASE option = "severity"                       -> v[1] = "string" /\ v[2] \in Severities
    [] option = "suppression-selectors"          -> v[1] = "array" /\ \A i \in DOMAIN v[2] : v[2][i][1] = "selector"
    [] option = "limit"                          -> v[1] = "number" /\ v[2] >= 1
    [] option \in {"enabled", "allow-self-loop"} -> v[1] = "bool"

\* flatConfigSchemaForRuleIDs with ruleOptionsSchema: no further keys.
RulesConform(entries) ==
  \A key \in DOMAIN entries :
    /\ key \in {Bare(r) : r \in DOMAIN ConfigRegistry}
    /\ entries[key][1] = "object"
    /\ \A k \in DOMAIN entries[key][2] :
         k \in ConfigurableOptions[key.id] /\ OptionConforms(k, entries[key][2][k])

\* ConfigJSONSchemaForRuleIDs: the flat form or the versioned one.
Conforms(p) ==
  /\ p.shape = "object" /\ p.allowUnknown = Absent /\ p.legacyVersion = Absent
  /\ \/ p.version = Absent /\ p.rules = Absent /\ RulesConform(p.others)
     \/ /\ p.version = Str("v1") /\ p.others = <<>>
        /\ p.rules[1] = "object" /\ RulesConform(p.rules[2])
=============================================================================
