---------------------------- MODULE MCParseFlight ----------------------------
EXTENDS ConfiguredParse, TLC

CONSTANTS r1, r2, r3

\* A timeout out of range, the heap's default, the pool under its other name.
MCEnvironment ==
  [timeout |-> {90}, memory |-> {}, enhancement |-> {}, mode |-> {"auto"},
   poolSize |-> {0}]

Ask(door, timeout, memory, enabled) ==
  [door |-> door, code |-> "document", timeout |-> timeout, memory |-> memory,
   enabled |-> enabled]

\* One document.  A call of Parse and a request that states what is configured have
\* one key, in the pool; a request with a limit of its own and none of the rules that
\* need the source has another, in a process of its own.
MCAsked ==
  r1 :> Ask("Parse", {}, {}, {})
  @@ r2 :> Ask("request", {5}, {512}, {"no-duplicate-node-ids", "max-fanout"})
  @@ r3 :> Ask("request", {}, {128}, {"max-fanout"})

\* Tables, which TLC evaluates once.
SettingsTable == [r \in Requests |-> SettingsOf(r)]
KeyTable == [r \in Requests |-> CacheKeyForVersion(Asked[r].code, SettingsTable[r])]

MCKeyOf == KeyTable
MCKeys == {KeyTable[r] : r \in Requests}
MCPooledKeys ==
  {KeyTable[r] : r \in {s \in Requests : UsesPool(ParserOfServer, SettingsTable[s])}}
=============================================================================
