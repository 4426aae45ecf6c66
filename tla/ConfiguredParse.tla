---------------------------- MODULE ConfiguredParse ----------------------------
(***************************************************************************)
(* ParseFlight with the keys that the settings of the requests give         *)
(* (ParserSettings): requests of the API, which may override the limits and *)
(* enable different rules, and calls of Parse, on one Parser.               *)
(***************************************************************************)
EXTENDS ParseFlight, ParserSettings

CONSTANTS
  Environment,   \* the variables the Parser was configured with
  Asked          \* what each request asks for: [door, code, timeout, memory,
                 \* enabled], its door being "request" or "Parse"

ASSUME EnvironmentKnown ==
  Environment.timeout \subseteq Int /\ Environment.memory \subseteq Int

\* Parse takes no limits.
ASSUME AskedKnown ==
  \A r \in Requests :
    /\ Asked[r].timeout \subseteq Int /\ Asked[r].memory \subseteq Int
    /\ Asked[r].door = "Parse" => Asked[r].timeout = {} /\ Asked[r].memory = {}
    /\ Asked[r].door \in {"request", "Parse"}

ParserOfServer == NewParser(Environment)

SettingsOf(r) ==
  IF Asked[r].door = "request" THEN RequestSettings(ParserOfServer, Asked[r])
  ELSE DirectSettings(ParserOfServer)

\* A request with a refused override does not reach the parser.
ASSUME OverridesAccepted == \A r \in Requests : ~RefusesOverride(Asked[r])

\* The keys of ParseFlight are those of the code, as are the ones parsed in the pool.
ASSUME KeysFromSettings ==
  /\ \A r \in Requests : KeyOf[r] = CacheKeyForVersion(Asked[r].code, SettingsOf(r))
  /\ PooledKeys =
       {KeyOf[r] : r \in {s \in Requests : UsesPool(ParserOfServer, SettingsOf(s))}}

-----------------------------------------------------------------------------
\* What a request returns was parsed from its own document under the limits it
\* asked for, or else the configured ones, and was enhanced exactly if its own
\* settings want that, whichever request's parse it shares through the cache or the
\* flight (cacheKeyForVersion): a parse for other rules would lack nodes that the
\* rules of this request report.  Unless the environment disables the enhancement, it
\* is wanted exactly if the rules of the request need it.  (Of an environment that does,
\* nothing is said: API_GUIDE.md:47 promises that nothing is enhanced then, but
\* ParserConfig drops the setting, parser.go:290.)
ParsedAsConfigured ==
  \A r \in Requests :
    result[r] # None /\ result[r].raw # "closed" =>
      LET leader == result[r].by
          used == SettingsOf(leader)
          asked == Asked[r]
      IN  /\ Asked[leader].code = asked.code
          /\ used.timeout = Override(ParserOfServer.timeout, asked.timeout)
          /\ used.memory = Override(ParserOfServer.memory, asked.memory)
          /\ ShouldEnhance(used) <=> ShouldEnhance(SettingsOf(r))
          /\ Environment.enhancement # {FALSE} =>
               (ShouldEnhance(used) <=>
                  asked.door = "Parse" \/ RequiresSourceEnhancement(asked.enabled))
=============================================================================
