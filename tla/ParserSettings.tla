---------------------------- MODULE ParserSettings ----------------------------
(***************************************************************************)
(* The settings a document is parsed with (internal/parser/parser.go): read *)
(* from the environment, kept by the Parser, overridden by a request        *)
(* (parseWithRequestSettings of internal/api/handler.go), and made part of  *)
(* the key under which results are shared and cached.                       *)
(*                                                                          *)
(* A value that may be missing is a set with at most one element: a         *)
(* variable of the environment that is blank or malformed, a nil pointer, a *)
(* field that a request leaves out.  A configuration is a record of         *)
(* timeout, memory, enhancement (a pointer) and need.                       *)
(***************************************************************************)
EXTENDS Integers

\* The value that is there.
The(s) == CHOOSE x \in s : TRUE

minTimeout == 1
maxTimeout == 60
defaultTimeout == 5
minNodeMaxOldSpaceSizeMB == 128
maxNodeMaxOldSpaceSizeMB == 4096
defaultNodeMaxOldSpaceSizeMB == 512

\* LimitBounds: the timeout in seconds, the heap in MiB.
LimitBounds ==
  [timeout |-> [min |-> minTimeout, max |-> maxTimeout],
   memory |-> [min |-> minNodeMaxOldSpaceSizeMB, max |-> maxNodeMaxOldSpaceSizeMB]]

Within(given, bounds) == \A v \in given : bounds.min <= v /\ v <= bounds.max

DefaultConfig ==
  [timeout |-> defaultTimeout, memory |-> defaultNodeMaxOldSpaceSizeMB,
   enhancement |-> {TRUE}, need |-> FALSE]

Clamp(value, bounds) ==
  IF value < bounds.min THEN bounds.min
  ELSE IF value > bounds.max THEN bounds.max
  ELSE value

\* EffectiveConfig of one limit: not positive means the default.
EffectiveLimit(value, bounds, default) ==
  IF value > 0 THEN Clamp(value, bounds) ELSE default

EffectiveConfig(c) ==
  [timeout |-> EffectiveLimit(c.timeout, LimitBounds.timeout, DefaultConfig.timeout),
   memory |-> EffectiveLimit(c.memory, LimitBounds.memory, DefaultConfig.memory),
   enhancement |-> IF c.enhancement = {} THEN DefaultConfig.enhancement
                   ELSE c.enhancement,
   need |-> c.need]

\* readTimeoutSeconds and readMaxOldSpaceMB: out of bounds means the default.
ReadLimit(raw, bounds, default) ==
  IF raw # {} /\ Within(raw, bounds) THEN The(raw) ELSE default

\* readSourceEnhancementEnabled.
ReadSourceEnhancement(raw) == IF raw = {} THEN DefaultConfig.enhancement ELSE raw

ConfigFromEnv(env) ==
  [timeout |-> ReadLimit(env.timeout, LimitBounds.timeout, DefaultConfig.timeout),
   memory |-> ReadLimit(env.memory, LimitBounds.memory, DefaultConfig.memory),
   enhancement |-> ReadSourceEnhancement(env.enhancement),
   need |-> FALSE]

\* readParserMode: everything but the name of the other mode means the pool.
ReadParserMode(raw) == IF raw = {"subprocess"} THEN "subprocess" ELSE "pool"

\* readWorkerPoolSize.
ReadWorkerPoolSize(raw) ==
  IF raw = {} THEN 4 ELSE Clamp(The(raw), [min |-> 1, max |-> 64])

\* New: of the configuration the Parser keeps the limits only.
NewParser(env) ==
  LET effective == EffectiveConfig(ConfigFromEnv(env))
  IN  [timeout |-> effective.timeout, memory |-> effective.memory,
       mode |-> ReadParserMode(env.mode),
       poolSize |-> ReadWorkerPoolSize(env.poolSize)]

\* ParserConfig.
ParserConfig(p) ==
  [timeout |-> p.timeout, memory |-> p.memory, enhancement |-> {}, need |-> FALSE]

\* requiresSourceEnhancement, from the rules that are enabled.
RequiresSourceEnhancement(enabled) ==
  enabled \cap {"no-disconnected-nodes", "no-duplicate-node-ids"} # {}

\* parseWithRequestSettings: an override out of bounds is refused.
RefusesOverride(asked) ==
  ~(/\ Within(asked.timeout, LimitBounds.timeout)
    /\ Within(asked.memory, LimitBounds.memory))

Override(value, given) == IF given = {} THEN value ELSE The(given)

\* parseWithRequestSettings and ParseWithConfig.
RequestSettings(p, asked) ==
  LET cfg == EffectiveConfig(ParserConfig(p))
  IN  EffectiveConfig([timeout |-> Override(cfg.timeout, asked.timeout),
                       memory |-> Override(cfg.memory, asked.memory),
                       enhancement |-> cfg.enhancement,
                       need |-> RequiresSourceEnhancement(asked.enabled)])

\* Parse, which the command line client calls.
DirectSettings(p) ==
  EffectiveConfig([timeout |-> p.timeout, memory |-> p.memory,
                   enhancement |-> DefaultConfig.enhancement, need |-> TRUE])

\* shouldEnhanceSourceAnalysis, for a flowchart.
ShouldEnhance(cfg) == cfg.enhancement = {TRUE} /\ cfg.need

\* Faulty variant: results are shared whatever limits and rules they are for.
CacheKeyForCode(code, cfg) == <<code>>

\* cacheKeyForVersion; the version is the same as long as the Parser lives.
CacheKeyForVersion(code, cfg) ==
  <<code, cfg.timeout, cfg.memory, The(cfg.enhancement), cfg.need>>

\* parseWithConfig: other memory limits than the configured one go to a process of
\* their own.
UsesPool(p, cfg) == p.mode = "pool" /\ cfg.memory = p.memory

=============================================================================
