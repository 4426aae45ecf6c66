----------------------------- MODULE RequestProofs -----------------------------
(***************************************************************************)
(* What a request to lint comes with and leads to: how its document is      *)
(* parsed, how its rules are configured, and what of their findings the     *)
(* engine returns.                                                          *)
(*                                                                          *)
(* The single flight of the parser, for every set of requests and keys      *)
(* (ParseFlight), and for every environment and all requests with accepted  *)
(* overrides when the keys are those of the settings (ConfiguredParse).     *)
(* That no two requests parse one key at a time, that nobody waits for a    *)
(* flight that has landed and that an answer travels by its key only hold   *)
(* together: a leader is registered until it publishes (LeaderRegistered),  *)
(* its control state tells what it has (Progress), and whatever the cache,  *)
(* the flight or a request keeps is an answer to its key                    *)
(* (AnswersTravelByKey).                                                    *)
(*                                                                          *)
(* The configuration, for all documents and every order of map iteration    *)
(* (LintRequest): what a handler has built is valid in the sense of         *)
(* ValidConfig, which NormalizeConfig accepts and does not add to           *)
(* (HandlerConfig, ValidNormalizes); what the schema allows, the handlers   *)
(* and the client take (ConformingParsed, ClientConforming); and each step  *)
(* on the way to the engine keeps the options of the document               *)
(* (HandlerMeans, ClientMeans).                                             *)
(*                                                                          *)
(* What is returned, whatever the rules report: keys are totally ordered    *)
(* (PrecedesTransitive, PrecedesTotal) and tell issues apart (KeyOfIssue),  *)
(* so that sorting by ranks puts equal issues side by side (IssuesSorted)   *)
(* and dropping neighbours leaves each once (IssuesOnce); and selectors of  *)
(* the document are in force as such (SelectorsInForce), so that what is    *)
(* hidden is what is said to be (HiddenAsSaid).                             *)
(***************************************************************************)
EXTENDS ConfiguredParse, LintRequest, CacheListsProofs

\* The control state of a request tells which of its fields are set.
Progress ==
  \A r \in Requests :
    /\ pc[r] \in {"lookup", "join", "wait", "publish"} => keyed[r]
    /\ pc[r] \in {"wait", "versionWait"} => follows[r] \in Requests
    /\ pc[r] = "wait" => keyed[follows[r]]
    /\ pc[r] \in {"store", "publish"} => answer[r] # None
    /\ pc[r] # "returned" => published[r] = None

\* A leader is registered under its key until it publishes.
LeaderRegistered ==
  \A r \in Requests :
    keyed[r] /\ pc[r] \in LeaderPCs => inflight[KeyOf[r]] = r

\* Wherever an answer is kept, it is an answer to that key.
AnswersTravelByKey ==
  /\ \A k \in Keys : cache[k] # None => KeyOf[cache[k].by] = k
  /\ \A r \in Requests : answer[r] # None => KeyOf[answer[r].by] = KeyOf[r]
  /\ \A r \in Requests : published[r] # None => KeyOf[published[r].by] = KeyOf[r]
  /\ AnswersOwnKey

\* An answer that is no error may be kept.
AnswersLast ==
  \A r \in Requests :
    answer[r] # None /\ answer[r].kind # "error" => Lasting(KeyOf[r], answer[r].raw)

IInv ==
  /\ TypeOK
  /\ Progress
  /\ LeaderRegistered
  /\ InflightHasLeader
  /\ WaiterHasLeader
  /\ AnswersTravelByKey
  /\ AnswersLast

\* The inductive invariant holds initially.
LEMMA InitIInv == Init => IInv
  <1> SUFFICES ASSUME Init PROVE IInv
    OBVIOUS
  <1>1. TypeOK
    <2>1. closed \in BOOLEAN /\ versionKnown \in BOOLEAN
      BY Zenon DEF Init
    <2>2. keyed \in [Requests -> BOOLEAN]
      BY DEF Init
    <2>3. pc \in [Requests -> PCs]
      BY DEF Init, PCs
    <2> QED BY <2>1, <2>2, <2>3 DEF Init, TypeOK
  <1>2. Progress /\ LeaderRegistered
    BY DEF Init, Progress, LeaderRegistered, LeaderPCs
  <1>3. InflightHasLeader /\ WaiterHasLeader
    BY DEF Init, InflightHasLeader, WaiterHasLeader
  <1>4. AnswersTravelByKey /\ AnswersLast
    BY DEF Init, AnswersTravelByKey, AnswersOwnKey, AnswersLast
  <1> QED BY <1>1, <1>2, <1>3, <1>4 DEF IInv

\* Every step preserves the inductive invariant.
LEMMA NextIInv == IInv /\ [Next]_vars => IInv'
  <1> SUFFICES ASSUME IInv, [Next]_vars PROVE IInv'
    OBVIOUS
  <1> USE KeyOfType, NoneIsNil
  <1> USE DEF IInv, TypeOK, Progress, LeaderRegistered, InflightHasLeader,
              WaiterHasLeader, AnswersTravelByKey, AnswersOwnKey, AnswersLast, LeaderPCs,
              PCs, Goto, Return
  <1>1. ASSUME NEW r \in Requests, Begin(r) PROVE IInv'
    <2>1. ClosedError(r) \in Answers /\ ClosedError(r).by = r /\ ClosedError(r).kind = "error"
      BY DEF ClosedError, Answers, Kinds, AllRaws
    <2> QED BY <1>1, <2>1, SMTT(40) DEF Begin
  <1>2. ASSUME NEW r \in Requests, RequestStep(r) PROVE IInv'
    <2>1. CASE VersionReady(r)
      BY <2>1 DEF VersionReady
    <2>2. CASE VersionJoin(r)
      BY <2>2 DEF VersionJoin
    <2>3. CASE VersionLead(r)
      BY <2>3 DEF VersionLead
    <2>4. ASSUME NEW ok \in BOOLEAN, VersionFound(r, ok) PROVE IInv'
      <3>1. versionKnown' \in BOOLEAN
        BY <2>4, Zenon DEF VersionFound
      <3>2. keyed' \in [Requests -> BOOLEAN]
        BY <2>4 DEF VersionFound, AfterVersion
      <3>3. CASE ok
        BY <2>4, <3>1, <3>2, <3>3 DEF VersionFound, AfterVersion
      <3>4. CASE ~ok
        <4>1. /\ pc[r] = "versionLead" /\ pc' = [pc EXCEPT ![r] = "parse"]
              /\ keyed'[r] = FALSE
              /\ \A q \in Requests : q # r => keyed'[q] = keyed[q]
              /\ versionFlight' = None
              /\ versionAnswer' = [versionAnswer EXCEPT ![r] = "error"]
              /\ UNCHANGED <<closed, cache, inflight, published, follows, answer,
                             result>>
          BY <2>4, <3>4 DEF VersionFound, AfterVersion
        <4> QED BY <3>1, <3>2, <4>1
      <3> QED BY <3>3, <3>4
    <2>5. CASE VersionShared(r)
      <3>1. CASE versionAnswer[follows[r]] = "ok"
        <4>1. AfterVersion(r, TRUE)
          BY <2>5, <3>1, Zenon DEF VersionShared
        <4> QED BY <2>5, <4>1 DEF VersionShared, AfterVersion
      <3>2. CASE versionAnswer[follows[r]] # "ok"
        <4>1. AfterVersion(r, FALSE)
          BY <2>5, <3>2, Zenon DEF VersionShared
        <4> QED BY <2>5, <4>1 DEF VersionShared, AfterVersion
      <3> QED BY <3>1, <3>2
    <2>6. CASE CacheHit(r)
      BY <2>6 DEF CacheHit
    <2>7. CASE CacheMiss(r)
      BY <2>7 DEF CacheMiss
    <2>8. CASE JoinFlight(r)
      BY <2>8 DEF JoinFlight
    <2>9. CASE LeadFlight(r)
      BY <2>9 DEF LeadFlight
    <2>10. CASE ShareResult(r)
      BY <2>10 DEF ShareResult
    <2>11. CASE ParseRefused(r)
      <3>1. ClosedError(r) \in Answers /\ ClosedError(r).by = r /\ ClosedError(r).kind = "error"
        BY DEF ClosedError, Answers, Kinds, AllRaws
      <3> QED BY <2>11, <3>1 DEF ParseRefused
    <2>12. CASE ParseBegins(r)
      BY <2>12 DEF ParseBegins
    <2>13. ASSUME NEW raw \in Raws, ParseEnds(r, raw) PROVE IInv'
      <3> DEFINE a == [kind |-> Classify(KeyOf[r], raw), raw |-> raw, by |-> r]
      <3>1. /\ a \in Answers /\ a.by = r
            /\ a.kind # "error" => Lasting(KeyOf[r], a.raw)
        BY RawsKnown DEF Classify, Answers, Kinds, AllRaws, Lasting
      <3> HIDE DEF a
      <3>2. /\ pc[r] = "parsing" /\ pc' = [pc EXCEPT ![r] = "store"]
            /\ answer' = [answer EXCEPT ![r] = a]
            /\ UNCHANGED <<closed, versionKnown, versionFlight, versionAnswer,
                           cache, inflight, published, follows, keyed, result>>
        BY <2>13 DEF ParseEnds, a
      <3> QED BY <3>1, <3>2
    <2>14. CASE StoreAnswer(r)
      <3>1. /\ answer[r] \in Answers /\ KeyOf[answer[r].by] = KeyOf[r]
            /\ answer[r].kind # "error" => Lasting(KeyOf[r], answer[r].raw)
        BY <2>14 DEF StoreAnswer
      <3>2. CASE keyed[r]
        <4>1. CASE answer[r].kind # "error"
          <5>1. /\ pc[r] = "store" /\ pc' = [pc EXCEPT ![r] = "publish"]
                /\ cache' = [cache EXCEPT ![KeyOf[r]] = answer[r]]
                /\ UNCHANGED <<closed, versionKnown, versionFlight, versionAnswer,
                               inflight, published, follows, keyed, answer, result>>
            BY <2>14, <3>2, <4>1 DEF StoreAnswer
          <5>2. /\ cache' \in [Keys -> Answers \cup {None}]
                /\ \A k \in Keys : cache'[k] # None => Lasting(k, cache'[k].raw)
                /\ \A k \in Keys : cache'[k] # None => KeyOf[cache'[k].by] = k
            BY <3>1, <4>1, <5>1
          <5>3. AnswersTravelByKey' /\ AnswersLast'
            BY <5>1, <5>2
          <5> QED BY <3>2, <5>1, <5>2, <5>3
        <4>2. CASE answer[r].kind = "error"
          <5>1. /\ pc[r] = "store" /\ pc' = [pc EXCEPT ![r] = "publish"]
                /\ cache' = cache
                /\ UNCHANGED <<closed, versionKnown, versionFlight, versionAnswer,
                               inflight, published, follows, keyed, answer, result>>
            BY <2>14, <3>2, <4>2 DEF StoreAnswer
          <5> QED BY <3>1, <3>2, <5>1
        <4> QED BY <4>1, <4>2
      <3>3. CASE ~keyed[r]
        <4>1. /\ pc[r] = "store" /\ pc' = [pc EXCEPT ![r] = "returned"]
              /\ result' = [result EXCEPT ![r] = answer[r]]
              /\ UNCHANGED <<closed, versionKnown, versionFlight, versionAnswer,
                             cache, inflight, published, follows, keyed, answer>>
          BY <2>14, <3>3 DEF StoreAnswer
        <4> QED BY <3>1, <3>3, <4>1
      <3> QED BY <3>2, <3>3
    <2>15. CASE Publish(r)
      BY <2>15 DEF Publish
    <2> HIDE DEF IInv
    <2> QED BY <1>2, <2>1, <2>2, <2>3, <2>4, <2>5, <2>6, <2>7, <2>8, <2>9,
               <2>10, <2>11, <2>12, <2>13, <2>14, <2>15 DEF RequestStep
  <1>3. ASSUME NEW k \in Keys, CacheEvicts(k) PROVE IInv'
    BY <1>3 DEF CacheEvicts
  <1>4. CASE Close
    BY <1>4 DEF Close
  <1>5. CASE UNCHANGED vars
    BY <1>5 DEF vars
  <1> QED BY <1>1, <1>2, <1>3, <1>4, <1>5 DEF Next

\* Type correctness.
THEOREM TypeCorrect == Spec => []TypeOK
  <1>1. IInv => TypeOK
    BY DEF IInv
  <1> QED BY <1>1, InitIInv, NextIInv, PTL DEF Spec

\* Two requests with a cache key never run the Node parser for the same key at
\* the same time: the registration in inflightParses covers the whole parse.
THEOREM SingleFlight == Spec => []OneParsePerKey
  <1>1. IInv => OneParsePerKey
    BY DEF IInv, LeaderRegistered, OneParsePerKey
  <1> QED BY <1>1, InitIInv, NextIInv, PTL DEF Spec

\* Nobody waits for a flight that has landed: an entry of inflightParses and
\* the flight a request waits for have a leader that will publish or has.
THEOREM FlightsHaveLeaders == Spec => []NobodyWaitsInVain
  <1>1. IInv => NobodyWaitsInVain
    BY DEF IInv, NobodyWaitsInVain
  <1> QED BY <1>1, InitIInv, NextIInv, PTL DEF Spec

\* No request is answered with the diagram or the error of another key, by
\* whatever chain of cache entries and shared flights the answer came, and no failure
\* is kept for later requests, but an internal one of a pooled worker.
THEOREM OwnKeyAnswered == Spec => []AnswersOwnKey
  <1>1. IInv => AnswersOwnKey
    BY DEF IInv, AnswersTravelByKey
  <1> QED BY <1>1, InitIInv, NextIInv, PTL DEF Spec

-----------------------------------------------------------------------------
(* The settings of a request.                                                *)

\* The limits within the bounds.
Timeouts == minTimeout .. maxTimeout
Memories == minNodeMaxOldSpaceSizeMB .. maxNodeMaxOldSpaceSizeMB

\* A value that is there is one of the values.
LEMMA TheIsMember == ASSUME NEW S, S # {} PROVE The(S) \in S
  BY DEF The

\* Bounds and defaults, as the proofs use them.
LEMMA Bounds ==
  /\ LimitBounds.timeout = [min |-> minTimeout, max |-> maxTimeout]
  /\ LimitBounds.memory = [min |-> minNodeMaxOldSpaceSizeMB, max |-> maxNodeMaxOldSpaceSizeMB]
  /\ DefaultConfig.timeout = defaultTimeout
  /\ DefaultConfig.memory = defaultNodeMaxOldSpaceSizeMB
  /\ DefaultConfig.enhancement = {TRUE}
  BY DEF LimitBounds, DefaultConfig

\* The bounds are positive and the defaults within them.
LEMMA BoundsOrdered ==
  /\ minTimeout \in Int /\ maxTimeout \in Int
  /\ minTimeout > 0
  /\ defaultTimeout \in minTimeout .. maxTimeout
  /\ minNodeMaxOldSpaceSizeMB \in Int /\ maxNodeMaxOldSpaceSizeMB \in Int
  /\ minNodeMaxOldSpaceSizeMB > 0
  /\ defaultNodeMaxOldSpaceSizeMB \in minNodeMaxOldSpaceSizeMB .. maxNodeMaxOldSpaceSizeMB
  BY DEF minTimeout, maxTimeout, defaultTimeout, minNodeMaxOldSpaceSizeMB,
         maxNodeMaxOldSpaceSizeMB, defaultNodeMaxOldSpaceSizeMB

\* A value that is there and within the bounds is in the interval.
LEMMA TheWithin ==
  ASSUME NEW given \in SUBSET Int, given # {}, NEW lo \in Int, NEW hi \in Int,
         Within(given, [min |-> lo, max |-> hi])
  PROVE  The(given) \in lo .. hi
  <1>1. The(given) \in given
    BY TheIsMember
  <1>2. lo <= The(given) /\ The(given) <= hi
    BY <1>1 DEF Within
  <1>3. The(given) \in Int
    BY <1>1
  <1> QED BY <1>2, <1>3

\* What readTimeoutSeconds and readMaxOldSpaceMB return is in the interval.
LEMMA ReadLimitWithin ==
  ASSUME NEW raw \in SUBSET Int, NEW lo \in Int, NEW hi \in Int, NEW default \in lo .. hi
  PROVE  ReadLimit(raw, [min |-> lo, max |-> hi], default) \in lo .. hi
  BY TheWithin DEF ReadLimit

\* A positive limit within the bounds goes through EffectiveConfig unchanged.
LEMMA EffectiveLimitKept ==
  ASSUME NEW lo \in Int, NEW hi \in Int, lo > 0, NEW v \in lo .. hi, NEW default
  PROVE  EffectiveLimit(v, [min |-> lo, max |-> hi], default) = v
  BY DEF EffectiveLimit, Clamp

\* So does a timeout.
LEMMA EffectiveTimeoutKept ==
  ASSUME NEW v \in Timeouts
  PROVE  EffectiveLimit(v, LimitBounds.timeout, DefaultConfig.timeout) = v
  BY EffectiveLimitKept, Bounds, BoundsOrdered DEF Timeouts

\* So does a memory limit.
LEMMA EffectiveMemoryKept ==
  ASSUME NEW v \in Memories
  PROVE  EffectiveLimit(v, LimitBounds.memory, DefaultConfig.memory) = v
  BY EffectiveLimitKept, Bounds, BoundsOrdered DEF Memories

\* The limits the Parser keeps are within the bounds, whatever the environment
\* holds (readTimeoutSeconds, readMaxOldSpaceMB, EffectiveConfig).
LEMMA ParserWithinBounds ==
  /\ ParserOfServer.timeout \in Timeouts
  /\ ParserOfServer.memory \in Memories
  <1>1. ConfigFromEnv(Environment).timeout \in Timeouts
    <2>1. ReadLimit(Environment.timeout, [min |-> minTimeout, max |-> maxTimeout], defaultTimeout) \in Timeouts
      BY EnvironmentKnown, ReadLimitWithin, BoundsOrdered DEF Timeouts
    <2> QED BY <2>1, Bounds DEF ConfigFromEnv
  <1>2. ConfigFromEnv(Environment).memory \in Memories
    <2>1. ReadLimit(Environment.memory, [min |-> minNodeMaxOldSpaceSizeMB, max |-> maxNodeMaxOldSpaceSizeMB],
                    defaultNodeMaxOldSpaceSizeMB) \in Memories
      BY EnvironmentKnown, ReadLimitWithin, BoundsOrdered DEF Memories
    <2> QED BY <2>1, Bounds DEF ConfigFromEnv
  <1>3. /\ ParserOfServer.timeout
             = EffectiveLimit(ConfigFromEnv(Environment).timeout,
                              LimitBounds.timeout, DefaultConfig.timeout)
        /\ ParserOfServer.memory
             = EffectiveLimit(ConfigFromEnv(Environment).memory,
                              LimitBounds.memory, DefaultConfig.memory)
    BY DEF ParserOfServer, NewParser, EffectiveConfig
  <1> QED BY <1>1, <1>2, <1>3, EffectiveTimeoutKept, EffectiveMemoryKept

\* An override that is accepted is within the bounds.
LEMMA OverrideWithinBounds ==
  ASSUME NEW r \in Requests
  PROVE  /\ Override(ParserOfServer.timeout, Asked[r].timeout) \in Timeouts
         /\ Override(ParserOfServer.memory, Asked[r].memory) \in Memories
  <1>1. /\ Within(Asked[r].timeout, [min |-> minTimeout, max |-> maxTimeout])
        /\ Within(Asked[r].memory, [min |-> minNodeMaxOldSpaceSizeMB, max |-> maxNodeMaxOldSpaceSizeMB])
    BY OverridesAccepted, Bounds DEF RefusesOverride
  <1>2. Override(ParserOfServer.timeout, Asked[r].timeout) \in Timeouts
    <2>1. CASE Asked[r].timeout = {}
      BY <2>1, ParserWithinBounds DEF Override
    <2>2. CASE Asked[r].timeout # {}
      <3>1. The(Asked[r].timeout) \in Timeouts
        BY <1>1, <2>2, AskedKnown, TheWithin, BoundsOrdered DEF Timeouts
      <3> QED BY <2>2, <3>1 DEF Override
    <2> QED BY <2>1, <2>2
  <1>3. Override(ParserOfServer.memory, Asked[r].memory) \in Memories
    <2>1. CASE Asked[r].memory = {}
      BY <2>1, ParserWithinBounds DEF Override
    <2>2. CASE Asked[r].memory # {}
      <3>1. The(Asked[r].memory) \in Memories
        BY <1>1, <2>2, AskedKnown, TheWithin, BoundsOrdered DEF Memories
      <3> QED BY <2>2, <3>1 DEF Override
    <2> QED BY <2>1, <2>2
  <1> QED BY <1>2, <1>3

\* A configuration with its limits within the bounds is its own effective one.
LEMMA EffectiveConfigKept ==
  ASSUME NEW t \in Timeouts, NEW m \in Memories, NEW e, e # {}, NEW n
  PROVE  EffectiveConfig([timeout |-> t, memory |-> m, enhancement |-> e, need |-> n])
           = [timeout |-> t, memory |-> m, enhancement |-> e, need |-> n]
  BY EffectiveTimeoutKept, EffectiveMemoryKept DEF EffectiveConfig

\* The settings of a request are those it asked for, or else the configured ones.
LEMMA SettingsAsAsked ==
  ASSUME NEW r \in Requests
  PROVE  /\ SettingsOf(r).timeout = Override(ParserOfServer.timeout, Asked[r].timeout)
         /\ SettingsOf(r).memory = Override(ParserOfServer.memory, Asked[r].memory)
         /\ SettingsOf(r).enhancement = DefaultConfig.enhancement
         /\ SettingsOf(r).need
              = (Asked[r].door = "Parse" \/ RequiresSourceEnhancement(Asked[r].enabled))
  <1> DEFINE p == ParserOfServer
             timeout == Override(p.timeout, Asked[r].timeout)
             memory == Override(p.memory, Asked[r].memory)
             enhancement == DefaultConfig.enhancement
             need == RequiresSourceEnhancement(Asked[r].enabled)
  <1>1. /\ p.timeout \in Timeouts /\ p.memory \in Memories
        /\ timeout \in Timeouts /\ memory \in Memories
    BY ParserWithinBounds, OverrideWithinBounds
  <1>2. enhancement # {}
    BY Bounds
  <1>3. CASE Asked[r].door = "request"
    <2> DEFINE cfg == EffectiveConfig(ParserConfig(p))
    <2>1. cfg.timeout = p.timeout /\ cfg.memory = p.memory /\ cfg.enhancement = enhancement
      <3> HIDE DEF p
      <3> QED BY <1>1, EffectiveTimeoutKept, EffectiveMemoryKept
              DEF EffectiveConfig, ParserConfig
    <2>2. SettingsOf(r) = EffectiveConfig([timeout |-> timeout, memory |-> memory,
                                           enhancement |-> enhancement, need |-> need])
      <3>1. SettingsOf(r) = RequestSettings(p, Asked[r])
        BY <1>3 DEF SettingsOf
      <3>2. RequestSettings(p, Asked[r]) =
              EffectiveConfig([timeout |-> Override(cfg.timeout, Asked[r].timeout),
                               memory |-> Override(cfg.memory, Asked[r].memory),
                               enhancement |-> cfg.enhancement, need |-> need])
        BY DEF RequestSettings
      <3> HIDE DEF cfg
      <3> QED BY <2>1, <3>1, <3>2
    <2> HIDE DEF p, timeout, memory, enhancement, need
    <2>3. SettingsOf(r) = [timeout |-> timeout, memory |-> memory,
                           enhancement |-> enhancement, need |-> need]
      BY <1>1, <1>2, <2>2, EffectiveConfigKept
    <2>4. need = (Asked[r].door = "Parse" \/ need)
      BY <1>3 DEF need, RequiresSourceEnhancement
    <2>5. /\ SettingsOf(r).timeout = timeout /\ SettingsOf(r).memory = memory
          /\ SettingsOf(r).enhancement = enhancement /\ SettingsOf(r).need = need
      BY <2>3
    <2> QED BY <2>4, <2>5 DEF p, timeout, memory, enhancement, need
  <1>4. CASE Asked[r].door = "Parse"
    <2>1. timeout = p.timeout /\ memory = p.memory
      BY <1>4, AskedKnown DEF Override
    <2>2. SettingsOf(r) = EffectiveConfig([timeout |-> p.timeout, memory |-> p.memory,
                                           enhancement |-> enhancement, need |-> TRUE])
      BY <1>4 DEF SettingsOf, DirectSettings
    <2> HIDE DEF p, timeout, memory, enhancement, need
    <2>3. SettingsOf(r) = [timeout |-> timeout, memory |-> memory,
                           enhancement |-> enhancement, need |-> TRUE]
      BY <1>1, <1>2, <2>1, <2>2, EffectiveConfigKept
    <2>4. /\ SettingsOf(r).timeout = timeout /\ SettingsOf(r).memory = memory
          /\ SettingsOf(r).enhancement = enhancement /\ SettingsOf(r).need = TRUE
      BY <2>3
    <2>5. (Asked[r].door = "Parse" \/ need) = TRUE
      BY <1>4
    <2> QED BY <2>4, <2>5 DEF p, timeout, memory, enhancement, need
  <1> QED BY <1>3, <1>4, AskedKnown

\* Whatever the environment, the overrides and the rules of the requests are, what a
\* request gets through the cache or the flight was parsed as it asked
\* (cacheKeyForVersion).
THEOREM SettingsHonoured == Spec => []ParsedAsConfigured
  <1>1. IInv => ParsedAsConfigured
    <2> SUFFICES ASSUME IInv, NEW r \in Requests, result[r] # None
                 PROVE  LET leader == result[r].by
                            used == SettingsOf(leader)
                            asked == Asked[r]
                        IN  /\ Asked[leader].code = asked.code
                            /\ used.timeout = Override(ParserOfServer.timeout, asked.timeout)
                            /\ used.memory = Override(ParserOfServer.memory, asked.memory)
                            /\ ShouldEnhance(used) <=> ShouldEnhance(SettingsOf(r))
                            /\ ShouldEnhance(used) <=>
                                 \/ asked.door = "Parse"
                                 \/ RequiresSourceEnhancement(asked.enabled)
      BY DEF ParsedAsConfigured
    <2> DEFINE leader == result[r].by
    <2>1. leader \in Requests
      BY DEF IInv, TypeOK, Answers
    <2>2. CacheKeyForVersion(Asked[leader].code, SettingsOf(leader))
            = CacheKeyForVersion(Asked[r].code, SettingsOf(r))
      BY <2>1, KeysFromSettings DEF IInv, AnswersTravelByKey, AnswersOwnKey
    <2>3. /\ Asked[leader].code = Asked[r].code
          /\ SettingsOf(leader).timeout = SettingsOf(r).timeout
          /\ SettingsOf(leader).memory = SettingsOf(r).memory
          /\ SettingsOf(leader).need = SettingsOf(r).need
      BY <2>2 DEF CacheKeyForVersion
    <2> DEFINE asks == Asked[r].door = "Parse" \/ RequiresSourceEnhancement(Asked[r].enabled)
    <2>4. SettingsOf(leader).enhancement = {TRUE} /\ SettingsOf(r).enhancement = {TRUE}
      BY <2>1, SettingsAsAsked, Bounds
    <2>5. SettingsOf(r).need = asks
      BY SettingsAsAsked
    <2>6. /\ ShouldEnhance(SettingsOf(leader)) <=> asks
          /\ ShouldEnhance(SettingsOf(leader)) <=> ShouldEnhance(SettingsOf(r))
      <3> HIDE DEF leader, asks
      <3> QED BY <2>3, <2>4, <2>5 DEF ShouldEnhance
    <2>7. /\ SettingsOf(r).timeout = Override(ParserOfServer.timeout, Asked[r].timeout)
          /\ SettingsOf(r).memory = Override(ParserOfServer.memory, Asked[r].memory)
      BY SettingsAsAsked
    <2> QED BY <2>3, <2>6, <2>7
  <1> QED BY <1>1, InitIInv, NextIInv, PTL DEF Spec

-----------------------------------------------------------------------------
(* NormalizeConfig.                                                          *)

\* The least element of a set of natural numbers is one of them.
LEMMA MinIsIn ==
  ASSUME NEW T, T \subseteq Nat, T # {}
  PROVE  Min(T) \in T
  <1>1. \E x \in T : \A y \in T : x <= y
    BY Least
  <1> QED BY <1>1 DEF Min

\* An order of a finite set leaves nobody out.
LEMMA OrderIsOnto ==
  ASSUME NEW S, IsFiniteSet(S), NEW order \in SetToSeqs(S)
  PROVE  /\ DOMAIN order \subseteq Nat
         /\ \A i \in DOMAIN order : order[i] \in S
         /\ \A x \in S : \E i \in DOMAIN order : order[i] = x
  <1>1. Cardinality(S) \in Nat
    BY FS_CardinalityType
  <1>2. order \in Injection(1 .. Cardinality(S), S)
    BY DEF SetToSeqs, Injection, IsInjective
  <1>3. IsFiniteSet(1 .. Cardinality(S)) /\ Cardinality(1 .. Cardinality(S)) = Cardinality(S)
    BY <1>1, FS_Interval
  <1>4. order \in Surjection(1 .. Cardinality(S), S)
    BY <1>2, <1>3, FS_Injection
  <1> QED BY <1>1, <1>4 DEF Surjection

\* What one reading of an entry may give.
LEMMA OptionsRead ==
  ASSUME NEW options, NEW n \in NormalizedOptions(options)
  PROVE  /\ \A x \in DOMAIN options : NormalizeMetaKey(x) \in DOMAIN n
         /\ \A k \in DOMAIN n :
              \E x \in DOMAIN options : NormalizeMetaKey(x) = k /\ n[k] = options[x]
  <1> DEFINE names == {NormalizeMetaKey(x) : x \in DOMAIN options}
             spelled == [k \in names |-> {x \in DOMAIN options : NormalizeMetaKey(x) = k}]
  <1>1. PICK pick \in Picks(spelled) : n = [k \in names |-> options[pick[k]]]
    BY DEF NormalizedOptions
  <1>2. \A k \in names : pick[k] \in spelled[k]
    BY DEF Picks
  <1> QED BY <1>1, <1>2

\* The options m of a rule are those of its entries, each as some entry states it.
Merges(cfg, r, m) ==
  /\ \A key \in EntriesFor(cfg, r) : \A x \in DOMAIN cfg[key] :
       NormalizeMetaKey(x) \in DOMAIN m
  /\ \A k \in DOMAIN m : \E key \in EntriesFor(cfg, r) : \E x \in DOMAIN cfg[key] :
       NormalizeMetaKey(x) = k /\ m[k] = cfg[key][x]

\* Whatever the order of the entries, and of the options in them.
LEMMA MergedMerges ==
  ASSUME NEW cfg, IsFiniteSet(DOMAIN cfg), NEW r, NEW m \in Merged(cfg, r)
  PROVE  Merges(cfg, r, m)
  <1> DEFINE of == EntriesFor(cfg, r)
             choices == [key \in of |-> NormalizedOptions(cfg[key])]
  <1>1. PICK order \in SetToSeqs(of), read \in Picks(choices) : m = Merge(order, read)
    BY DEF Merged
  <1>2. IsFiniteSet(of)
    BY FS_Subset DEF EntriesFor
  <1>3. \A key \in of : read[key] \in NormalizedOptions(cfg[key])
    BY DEF Picks
  <1> HIDE DEF of, choices
  <1>4. /\ DOMAIN order \subseteq Nat
        /\ \A i \in DOMAIN order : order[i] \in of
        /\ \A x \in of : \E i \in DOMAIN order : order[i] = x
    BY <1>1, <1>2, OrderIsOnto
  <1>5. DOMAIN m = UNION {DOMAIN read[order[i]] : i \in DOMAIN order}
    BY <1>1 DEF Merge
  <1>6. ASSUME NEW key \in of, NEW x \in DOMAIN cfg[key] PROVE NormalizeMetaKey(x) \in DOMAIN m
    <2>1. NormalizeMetaKey(x) \in DOMAIN read[key]
      BY <1>3, OptionsRead
    <2>2. PICK i \in DOMAIN order : order[i] = key
      BY <1>4
    <2> QED BY <1>5, <2>1, <2>2
  <1>7. ASSUME NEW k \in DOMAIN m
        PROVE  \E key \in of : \E x \in DOMAIN cfg[key] :
                 NormalizeMetaKey(x) = k /\ m[k] = cfg[key][x]
    <2> DEFINE T == {i \in DOMAIN order : k \in DOMAIN read[order[i]]}
               key == order[Min(T)]
    <2>1. T # {} /\ T \subseteq Nat
      BY <1>4, <1>5, <1>7
    <2>2. Min(T) \in T
      <3> HIDE DEF T
      <3> QED BY <2>1, MinIsIn
    <2>3. key \in of /\ k \in DOMAIN read[key]
      BY <1>4, <2>2
    <2>4. m[k] = read[key][k]
      BY <1>1, <1>5, <1>7 DEF Merge
    <2> HIDE DEF key, T
    <2>5. read[key] \in NormalizedOptions(cfg[key])
      BY <1>3, <2>3
    <2>6. \A y \in DOMAIN read[key] :
            \E x \in DOMAIN cfg[key] : NormalizeMetaKey(x) = y /\ read[key][y] = cfg[key][x]
      BY <2>5, OptionsRead
    <2> QED BY <2>3, <2>4, <2>6
  <1> QED BY <1>6, <1>7 DEF Merges, of

\* NormalizeConfig merges the entries of each rule, or refuses them for a reason.
RulesOf(cfg) == {NormalizeConfigRuleID(key) : key \in DOMAIN cfg}

\* What NormalizeConfig gives: it refuses, with a reason in the configuration, or merges.
LEMMA NormalizedConfig ==
  ASSUME NEW cfg, IsFiniteSet(DOMAIN cfg), NEW n \in NormalizeConfig(cfg)
  PROVE  \/ /\ n = Refused("invalid_config")
            /\ \/ "" \in RulesOf(cfg)
               \/ \E r \in RulesOf(cfg) : \E m : Merges(cfg, r, m) /\ ~ValidOptions(m)
         \/ /\ "" \notin RulesOf(cfg)
            /\ n.error = "" /\ DOMAIN n.config = RulesOf(cfg)
            /\ \A r \in RulesOf(cfg) : Merges(cfg, r, n.config[r]) /\ ValidOptions(n.config[r])
  <1> DEFINE rules == RulesOf(cfg)
             choices == [r \in rules |-> Merged(cfg, r)]
  <1>1. n \in IF "" \in rules THEN {Refused("invalid_config")}
              ELSE {IF \A r \in rules : ValidOptions(f[r]) THEN Accepted(f, {})
                    ELSE Refused("invalid_config") : f \in Picks(choices)}
    BY DEF NormalizeConfig, RulesOf
  <1> HIDE DEF rules
  <1>2. CASE "" \in rules
    BY <1>1, <1>2 DEF rules
  <1>3. CASE "" \notin rules
    <2>1. PICK f \in Picks(choices) :
            n = IF \A r \in rules : ValidOptions(f[r]) THEN Accepted(f, {})
                ELSE Refused("invalid_config")
      <3> HIDE DEF choices
      <3> QED BY <1>1, <1>3
    <2>2. DOMAIN f = rules /\ \A r \in rules : f[r] \in Merged(cfg, r)
      BY DEF Picks
    <2>3. \A r \in rules : Merges(cfg, r, f[r])
      BY <2>2, MergedMerges
    <2>4. CASE \A r \in rules : ValidOptions(f[r])
      <3>1. n.error = "" /\ n.config = f
        BY <2>1, <2>4 DEF Accepted
      <3> QED BY <1>3, <2>2, <2>3, <2>4, <3>1 DEF rules
    <2>5. CASE ~\A r \in rules : ValidOptions(f[r])
      BY <2>1, <2>3, <2>5 DEF rules
    <2> QED BY <2>4, <2>5
  <1> QED BY <1>2, <1>3

-----------------------------------------------------------------------------
(* Names and tables.                                                         *)

\* The names of the code are their own normalized names.
LEMMA NamesKept ==
  /\ \A s \in Severities : LowerTrimmed(s) = s
  /\ \A k \in OptionNames : NormalizeMetaKey(k) = k
  <1>1. \A s \in Severities \cup OptionNames : LowerTrimmed(s) = s
    BY NamesAreTrimmed DEF LowerTrimmed
  <1> QED BY <1>1 DEF NormalizeMetaKey, OptionNames

\* No rule has a blank ID, which stands for none.
LEMMA NoBlankRule == "" \notin KnownRuleIDs
  <1>1. DOMAIN Rules = {"flowchart", "sequence", "class", "er", "state"}
    BY DEF Rules
  <1>2. "" \notin ToSet(Rules["flowchart"])
    <2> DEFINE s == <<"no-duplicate-node-ids", "no-disconnected-nodes", "max-fanout", "no-cycles",
                  "max-depth">>
    <2>1. Rules["flowchart"] = s
      BY DEF Rules
    <2>2. DOMAIN s = {1, 2, 3, 4, 5}
      OBVIOUS
    <2>3. s[1] # "" /\ s[2] # "" /\ s[3] # "" /\ s[4] # "" /\ s[5] # ""
      OBVIOUS
    <2> HIDE DEF s
    <2> QED BY <2>1, <2>2, <2>3 DEF ToSet
  <1>3. "" \notin ToSet(Rules["sequence"])
    <2> DEFINE s == <<"no-undefined-actors", "no-duplicate-actors", "max-nesting-depth">>
    <2>1. Rules["sequence"] = s
      BY DEF Rules
    <2>2. DOMAIN s = {1, 2, 3}
      OBVIOUS
    <2>3. s[1] # "" /\ s[2] # "" /\ s[3] # ""
      OBVIOUS
    <2> HIDE DEF s
    <2> QED BY <2>1, <2>2, <2>3 DEF ToSet
  <1>4. "" \notin ToSet(Rules["class"])
    <2> DEFINE s == <<"no-circular-inheritance", "no-duplicate-classes", "max-inheritance-depth">>
    <2>1. Rules["class"] = s
      BY DEF Rules
    <2>2. DOMAIN s = {1, 2, 3}
      OBVIOUS
    <2>3. s[1] # "" /\ s[2] # "" /\ s[3] # ""
      OBVIOUS
    <2> HIDE DEF s
    <2> QED BY <2>1, <2>2, <2>3 DEF ToSet
  <1>5. "" \notin ToSet(Rules["er"])
    <2> DEFINE s == <<"no-circular-chain", "no-self-referential">>
    <2>1. Rules["er"] = s
      BY DEF Rules
    <2>2. DOMAIN s = {1, 2}
      OBVIOUS
    <2>3. s[1] # "" /\ s[2] # ""
      OBVIOUS
    <2> HIDE DEF s
    <2> QED BY <2>1, <2>2, <2>3 DEF ToSet
  <1>6. "" \notin ToSet(Rules["state"])
    <2> DEFINE s == <<"no-circular-transitions", "no-unreachable-state", "max-transitions">>
    <2>1. Rules["state"] = s
      BY DEF Rules
    <2>2. DOMAIN s = {1, 2, 3}
      OBVIOUS
    <2>3. s[1] # "" /\ s[2] # "" /\ s[3] # ""
      OBVIOUS
    <2> HIDE DEF s
    <2> QED BY <2>1, <2>2, <2>3 DEF ToSet
  <1> QED BY <1>1, <1>2, <1>3, <1>4, <1>5, <1>6 DEF KnownRuleIDs

\* The table of the metadata, which the schema is made from, and the table that
\* configurations are validated with, which the code keeps apart, agree.
LEMMA TablesAgree ==
  /\ DOMAIN ConfigRegistry \subseteq KnownRuleIDs
  /\ \A r \in DOMAIN ConfigRegistry :
       ConfigRegistry[r] \subseteq OptionNames /\ ConfigurableOptions[r] = ConfigRegistry[r]
  <1>1. DOMAIN ConfigRegistry = BuiltInRules \cap KnownRuleIDs
    BY DEF ConfigRegistry
  <1>2. ASSUME NEW r \in DOMAIN ConfigRegistry
        PROVE  ConfigRegistry[r] \subseteq OptionNames /\ ConfigurableOptions[r] = ConfigRegistry[r]
    <2> DEFINE S == {"enabled", "severity", "suppression-selectors"}
    <2>1. ConfigRegistry[r] =
            S \cup IF r \in DOMAIN RuleSpecificOptions THEN RuleSpecificOptions[r] ELSE {}
      BY <1>1 DEF ConfigRegistry
    <2>2. r \in BuiltInRules
      BY <1>1
    <2>3. ConfigurableOptions[r] =
            S \cup CASE r \in {"max-fanout", "max-depth"} -> {"limit"}
                     [] r = "no-cycles"                   -> {"allow-self-loop"}
                     [] OTHER                             -> {}
      BY <2>2 DEF ConfigurableOptions, BuiltInRules
    <2>4. CASE r \in {"max-fanout", "max-depth"}
      BY <2>1, <2>3, <2>4 DEF RuleSpecificOptions, OptionNames
    <2>5. CASE r = "no-cycles"
      BY <2>1, <2>3, <2>5 DEF RuleSpecificOptions, OptionNames
    <2>6. CASE r \notin {"max-fanout", "max-depth", "no-cycles"}
      BY <2>1, <2>3, <2>6 DEF RuleSpecificOptions, OptionNames
    <2> QED BY <2>4, <2>5, <2>6
  <1> QED BY <1>1, <1>2

\* The rule that a key names, if it names one.
LEMMA RuleOfKey ==
  /\ \A key : NormalizeConfigRuleID(key) # "" => NormalizeConfigRuleID(key) = key.id
  /\ \A r : Bare(r).id = r
  /\ \A r \in KnownRuleIDs : NormalizeConfigRuleID(Bare(r)) = r
  /\ \A key : Recognized(key) => /\ NormalizeConfigRuleID(key) = key.id
                                 /\ key.id \in DOMAIN ConfigRegistry
  <1>1. \A r : Bare(r).id = r /\ Bare(r).core = FALSE
    BY DEF Bare, RuleKey
  <1>2. \A r \in KnownRuleIDs : NormalizeConfigRuleID(Bare(r)) = r
    BY <1>1 DEF NormalizeConfigRuleID
  <1>3. "" \notin DOMAIN ConfigRegistry
    BY NoBlankRule, TablesAgree
  <1> QED BY <1>1, <1>2, <1>3 DEF NormalizeConfigRuleID, Recognized

-----------------------------------------------------------------------------
(* A configuration as a handler makes it.                                    *)

\* Every entry has a rule's own ID, and its options are valid ones of the rule, under
\* whatever spelling.
Validated(options, r) ==
  \A x \in DOMAIN options : /\ NormalizeMetaKey(x) \in ConfigRegistry[r]
                            /\ ValidateOption(NormalizeMetaKey(x), options[x])

ValidConfig(cfg) ==
  /\ IsFiniteSet(DOMAIN cfg)
  /\ \A key \in DOMAIN cfg : \E r \in DOMAIN ConfigRegistry :
       key = Bare(r) /\ Validated(cfg[key], r)

\* The one entry for a rule.
LEMMA EntryOfRule ==
  ASSUME NEW cfg, ValidConfig(cfg)
  PROVE  /\ \A key \in DOMAIN cfg : /\ NormalizeConfigRuleID(key) = key.id /\ key.id # ""
                                    /\ key = Bare(key.id) /\ key.id \in DOMAIN ConfigRegistry
                                    /\ Validated(cfg[key], key.id)
         /\ \A r : \A key \in EntriesFor(cfg, r) : key = Bare(r) /\ key \in DOMAIN cfg
         /\ \A r \in RulesOf(cfg) : Bare(r) \in EntriesFor(cfg, r) /\ r \in DOMAIN ConfigRegistry
  <1>1. \A key \in DOMAIN cfg : /\ NormalizeConfigRuleID(key) = key.id /\ key.id # ""
                                /\ key = Bare(key.id) /\ key.id \in DOMAIN ConfigRegistry
                                /\ Validated(cfg[key], key.id)
    BY RuleOfKey, TablesAgree, NoBlankRule DEF ValidConfig
  <1> QED BY <1>1 DEF EntriesFor, RulesOf

\* The options m are the ones stated, all of them, under their names.
UnderNames(stated, m) ==
  /\ \A k \in DOMAIN m : /\ k \in OptionNames
                         /\ \E x \in DOMAIN stated : NormalizeMetaKey(x) = k /\ m[k] = stated[x]
  /\ \A x \in DOMAIN stated : NormalizeMetaKey(x) \in DOMAIN m

\* A second normalization changes no name.
LEMMA UnderNamesTwice ==
  ASSUME NEW stated, NEW m, NEW again, UnderNames(stated, m), UnderNames(m, again)
  PROVE  UnderNames(stated, again)
  <1>1. \A x \in DOMAIN m : NormalizeMetaKey(x) = x
    BY NamesKept DEF UnderNames
  <1> QED BY <1>1 DEF UnderNames

\* Options that are valid under their spellings are valid under their names.
LEMMA MergedValid ==
  ASSUME NEW cfg, ValidConfig(cfg), NEW r \in RulesOf(cfg), NEW m, Merges(cfg, r, m)
  PROVE  Validated(m, r) /\ ValidOptions(m) /\ UnderNames(cfg[Bare(r)], m)
  <1>1. /\ r \in DOMAIN ConfigRegistry /\ Bare(r) \in EntriesFor(cfg, r)
        /\ \A key \in EntriesFor(cfg, r) : key = Bare(r)
        /\ Bare(r) \in DOMAIN cfg
    BY EntryOfRule
  <1>2. Validated(cfg[Bare(r)], r)
    <2>1. Bare(r).id = r
      BY RuleOfKey
    <2>2. Validated(cfg[Bare(r)], Bare(r).id)
      BY <1>1, EntryOfRule
    <2> QED BY <2>1, <2>2
  <1>3. /\ \A k \in DOMAIN m : \E x \in DOMAIN cfg[Bare(r)] :
             NormalizeMetaKey(x) = k /\ m[k] = cfg[Bare(r)][x]
        /\ \A x \in DOMAIN cfg[Bare(r)] : NormalizeMetaKey(x) \in DOMAIN m
    BY <1>1 DEF Merges
  <1>4. \A k \in DOMAIN m : k \in ConfigRegistry[r] /\ ValidateOption(k, m[k])
    BY <1>2, <1>3 DEF Validated
  <1>5. \A k \in DOMAIN m : k \in OptionNames /\ NormalizeMetaKey(k) = k
    BY <1>1, <1>4, TablesAgree, NamesKept
  <1>6. Validated(m, r)
    BY <1>4, <1>5 DEF Validated
  <1>7. ValidOptions(m)
    BY <1>4 DEF ValidOptions, ValidateOption
  <1> QED BY <1>3, <1>5, <1>6, <1>7 DEF UnderNames

\* NormalizeConfig accepts it, and what it gives is again such a configuration, with
\* the same options under their names.
LEMMA ValidNormalizes ==
  ASSUME NEW cfg, ValidConfig(cfg), NEW n \in NormalizeConfig(cfg)
  PROVE  /\ n.error = "" /\ DOMAIN n.config = RulesOf(cfg) /\ ValidConfig(AsGiven(n.config))
         /\ \A r \in RulesOf(cfg) : UnderNames(cfg[Bare(r)], n.config[r])
  <1>1. IsFiniteSet(DOMAIN cfg)
    BY DEF ValidConfig
  <1>2. "" \notin RulesOf(cfg)
    BY EntryOfRule, TablesAgree, NoBlankRule
  <1>3. \A r \in RulesOf(cfg) : \A m : Merges(cfg, r, m) => ValidOptions(m)
    BY MergedValid
  <1>4. /\ n.error = "" /\ DOMAIN n.config = RulesOf(cfg)
        /\ \A r \in RulesOf(cfg) : Merges(cfg, r, n.config[r])
    BY <1>1, <1>2, <1>3, NormalizedConfig
  <1>5. \A r \in RulesOf(cfg) : Validated(n.config[r], r) /\ UnderNames(cfg[Bare(r)], n.config[r])
    BY <1>4, MergedValid
  <1>6. ValidConfig(AsGiven(n.config))
    <2> DEFINE given == AsGiven(n.config)
    <2>1. /\ DOMAIN given = {Bare(r) : r \in RulesOf(cfg)}
          /\ \A key \in DOMAIN given : given[key] = n.config[key.id]
      BY <1>4 DEF AsGiven
    <2>2. DOMAIN given \subseteq DOMAIN cfg
      <3>1. \A r \in RulesOf(cfg) : Bare(r) \in EntriesFor(cfg, r)
        BY EntryOfRule
      <3> QED BY <2>1, <3>1 DEF EntriesFor
    <2>3. IsFiniteSet(DOMAIN given)
      BY <1>1, <2>2, FS_Subset
    <2>4. ASSUME NEW key \in DOMAIN given
          PROVE  \E r \in DOMAIN ConfigRegistry : key = Bare(r) /\ Validated(given[key], r)
      <3>1. PICK r \in RulesOf(cfg) : key = Bare(r)
        BY <2>1, <2>4
      <3>2. key.id = r /\ r \in DOMAIN ConfigRegistry
        BY <3>1, RuleOfKey, EntryOfRule
      <3> QED BY <1>5, <2>1, <3>1, <3>2
    <2> HIDE DEF given
    <2> QED BY <2>3, <2>4 DEF ValidConfig, given
  <1> QED BY <1>4, <1>5, <1>6

-----------------------------------------------------------------------------
(* The handlers' parseConfig.                                                *)

\* The codes that it answers.
ParseCodes == {"invalid_option", "deprecated_config_format", "unsupported_schema_version",
               "unknown_option", "unknown_rule", "invalid_suppression_selector"}

\* What the checks on the document as a whole leave, and what passes them.
LEMMA FormChecked ==
  ASSUME NEW p, NEW strict \in BOOLEAN
  PROVE  /\ \A i \in FormFaults(p, strict) : FormCodes[i] \in ParseCodes
         /\ FormFaults(p, strict) \subseteq Nat
         /\ FormFaults(p, strict) = {} => p.shape = "object" /\ p.rules[1] \in {"absent", "object"}
         /\ Conforms(p) /\ (strict => p.version # Absent) => FormFaults(p, strict) = {}
  <1> DEFINE faults == FormFaults(p, strict)
             version == SchemaVersion(p)
  <1>1. DOMAIN FormCodes = {1, 2, 3, 4, 5, 6, 7}
    BY DEF FormCodes
  <1>2. /\ 1 \in faults <=> p.shape # "object"
        /\ 2 \in faults <=> strict /\ p.legacyVersion # Absent
        /\ 3 \in faults <=> strict /\ version = Absent
        /\ 4 \in faults <=> version[1] \notin {"absent", "string"}
        /\ 5 \in faults <=> version[1] = "string" /\ version # Str("v1")
        /\ 6 \in faults <=> p.rules[1] \notin {"absent", "object"}
        /\ 7 \in faults <=> version # Absent /\ p.others # <<>>
    BY <1>1 DEF FormFaults
  <1>3. faults \subseteq {1, 2, 3, 4, 5, 6, 7}
    BY <1>1 DEF FormFaults
  <1> HIDE DEF faults
  <1>4. faults \subseteq Nat
    BY <1>3
  <1>5. \A i \in faults : FormCodes[i] \in ParseCodes
    BY <1>3 DEF FormCodes, ParseCodes
  <1>6. faults = {} => p.shape = "object" /\ p.rules[1] \in {"absent", "object"}
    BY <1>2
  <1>7. ASSUME Conforms(p), strict => p.version # Absent
        PROVE  faults = {}
    <2>1. /\ p.shape = "object" /\ version = p.version
          /\ \/ version = Absent /\ p.rules = Absent
             \/ version = Str("v1") /\ p.others = <<>> /\ p.rules[1] = "object"
          /\ p.legacyVersion = Absent
      BY <1>7 DEF Conforms, SchemaVersion
    <2>2. Absent[1] = "absent" /\ Str("v1")[1] = "string"
      BY DEF Absent, Str
    <2> HIDE DEF version
    <2> QED BY <1>2, <1>3, <1>7, <2>1, <2>2
  <1> QED BY <1>4, <1>5, <1>6, <1>7 DEF faults

\* An entry without a fault has options that are valid for its rule, if it has one.
LEMMA EntryChecked ==
  ASSUME NEW key, NEW v, NEW lenient \in BOOLEAN
  PROVE  /\ EntryErrors(key, v, lenient) \subseteq ParseCodes
         /\ EntryErrors(key, v, lenient) = {} =>
              v[1] = "object" /\ (Recognized(key) => Validated(v[2], key.id))
         /\ v[1] = "object" /\ Recognized(key) /\ Validated(v[2], key.id) =>
              EntryErrors(key, v, lenient) = {}
  <1> DEFINE known == {k \in DOMAIN v[2] :
                         NormalizeMetaKey(k) \in ConfigRegistry[NormalizeConfigRuleID(key)]}
             bad == {x \in known : ~ValidateOption(NormalizeMetaKey(x), v[2][x])}
             errors == {"unknown_option" : k \in DOMAIN v[2] \ known} \cup {"invalid_option" : k \in bad}
  <1>1. EntryErrors(key, v, lenient) =
          IF v[1] # "object" THEN {"invalid_option"}
          ELSE IF ~Recognized(key) THEN IF lenient THEN {} ELSE {"unknown_rule"}
          ELSE errors
    BY DEF EntryErrors
  <1>2. errors \subseteq ParseCodes
    BY DEF ParseCodes
  <1>3. errors = {} <=> DOMAIN v[2] \subseteq known /\ bad = {}
    <2> HIDE DEF known, bad
    <2> QED OBVIOUS
  <1>4. ASSUME Recognized(key)
        PROVE  DOMAIN v[2] \subseteq known /\ bad = {} <=> Validated(v[2], key.id)
    <2>1. NormalizeConfigRuleID(key) = key.id
      BY <1>4, RuleOfKey
    <2> QED BY <2>1 DEF Validated
  <1> HIDE DEF errors, known, bad
  <1>5. EntryErrors(key, v, lenient) \subseteq ParseCodes
    BY <1>1, <1>2 DEF ParseCodes
  <1> QED BY <1>1, <1>3, <1>4, <1>5

\* A document with the forms of the code's types: null has no content, and what has
\* been parsed as a selector has the fields of one.
SelectorsTyped(p) ==
  \A e \in DOMAIN Entries(p) : Entries(p)[e][1] = "object" =>
    \A x \in DOMAIN Entries(p)[e][2] :
      \A s \in SelectorsOf(Entries(p)[e][2][x]) : SelectorType(s)
EntriesTyped(p) ==
  /\ DocumentType(p)
  /\ p.rules[1] \in {"absent", "object"} =>
       /\ IsFiniteSet(DOMAIN Entries(p)) /\ DOMAIN Entries(p) \subseteq RuleKeys
       /\ \A e \in DOMAIN Entries(p) : Entries(p)[e][1] = "null" => Entries(p)[e] = Null
       /\ SelectorsTyped(p)

\* What a handler makes of a document: of each entry the options under the rule's
\* own ID, or a warning that it is ignored.
ReadFrom(p, o) ==
  /\ o.error = "" /\ ValidConfig(o.config)
  /\ IsFiniteSet(DOMAIN Entries(p)) /\ SelectorsTyped(p)
  /\ \A key \in DOMAIN o.config : \E e \in DOMAIN Entries(p) :
       /\ e.id = key.id /\ NormalizeConfigRuleID(e) = key.id
       /\ Entries(p)[e][1] = "object" /\ o.config[key] = Entries(p)[e][2]
  /\ \A e \in DOMAIN Entries(p) :
       Bare(e.id) \in DOMAIN o.config \/ <<"ignored", e>> \in o.warnings
  /\ \A e \in DOMAIN Entries(p) : Recognized(e) => <<"ignored", e>> \notin o.warnings

\* A document that is no object has no entries.
LEMMA NoEntries ==
  ASSUME NEW p, DocumentType(p), p.shape # "object"
  PROVE  Entries(p) = <<>> /\ DOMAIN Entries(p) = {}
  <1>1. /\ p.others = <<>> /\ p.rules = Absent /\ p.version = Absent /\ p.legacyVersion = Absent
    BY DEF DocumentType
  <1>2. SchemaVersion(p) = Absent
    BY <1>1 DEF SchemaVersion
  <1> QED BY <1>1, <1>2 DEF Entries

\* Which entries the warnings name.
LEMMA IgnoredEntries ==
  ASSUME NEW p, NEW cfg, NEW e \in DOMAIN Entries(p)
  PROVE  <<"ignored", e>> \in ConfigWarnings(p, cfg) <=> ~Recognized(e)
  <1>1. \A key, v : EntryWarnings(key, v) =
                      IF ~Recognized(key) THEN {<<"ignored", key>>}
                      ELSE {<<"spelling", k>> : k \in {x \in DOMAIN v[2] : NormalizeMetaKey(x) # x}}
    BY DEF EntryWarnings
  <1>2. <<"ignored", e>> \notin FormWarnings(p)
    BY DEF FormWarnings
  <1>3. <<"ignored", e>> \notin SelectorWarnings(cfg)
    BY DEF SelectorWarnings
  <1>4. \A key, v : <<"ignored", e>> \in EntryWarnings(key, v) <=> ~Recognized(key) /\ key = e
    BY <1>1
  <1>5. <<"ignored", e>> \in ConfigWarnings(p, cfg) <=>
          \E key \in DOMAIN Entries(p) : <<"ignored", e>> \in EntryWarnings(key, Entries(p)[key])
    BY <1>2, <1>3 DEF ConfigWarnings
  <1> QED BY <1>4, <1>5

\* parseConfig refuses a document with a code of its own, or reads it.
LEMMA ParsedConfig ==
  ASSUME NEW p, EntriesTyped(p), NEW strict \in BOOLEAN, NEW o \in ParseConfig(p, strict)
  PROVE  o.error \in ParseCodes \/ ReadFrom(p, o)
  <1> DEFINE entries == Entries(p)
             faults == FormFaults(p, strict)
             errors == UNION {EntryErrors(key, entries[key], Lenient(p)) : key \in DOMAIN entries}
             kept == {key \in DOMAIN entries : Recognized(key)}
             of == [r \in {NormalizeConfigRuleID(key) : key \in kept} |-> EntriesFor(entries, r)]
             made(w) == [key \in {Bare(r) : r \in DOMAIN w} |-> entries[w[key.id]][2]]
             finish(cfg) == IF \E s \in SelectorsIn(cfg) : s[1] = "string"
                            THEN Refused("invalid_suppression_selector")
                            ELSE Accepted(cfg, ConfigWarnings(p, cfg))
  <1>0. Lenient(p) \in BOOLEAN
    BY DEF Lenient
  <1>1. o \in IF p.shape = "absent" THEN {Accepted(<<>>, {})}
              ELSE IF faults # {} THEN {Refused(FormCodes[Min(faults)])}
              ELSE IF errors # {} THEN {Refused(c) : c \in errors}
              ELSE {finish(made(w)) : w \in Picks(of)}
    BY DEF ParseConfig
  <1>2. CASE p.shape = "absent"
    <2>1. o = Accepted(<<>>, {})
      <3> HIDE DEF faults, errors, finish, made, of
      <3> QED BY <1>1, <1>2
    <2>2. o.error = "" /\ DOMAIN o.config = {} /\ o.warnings = {}
      <3>1. o.error = "" /\ o.config = <<>> /\ o.warnings = {}
        BY <2>1 DEF Accepted
      <3>2. \A s : s = <<>> => DOMAIN s = {}
        OBVIOUS
      <3> QED BY <3>1, <3>2
    <2>3. DOMAIN Entries(p) = {}
      BY <1>2, NoEntries DEF EntriesTyped
    <2>4. ValidConfig(o.config) /\ IsFiniteSet({}) /\ SelectorsTyped(p)
      BY <2>2, <2>3, FS_EmptySet DEF ValidConfig, SelectorsTyped
    <2> QED BY <2>2, <2>3, <2>4 DEF ReadFrom
  <1>3. CASE p.shape # "absent" /\ faults # {}
    <2>1. Min(faults) \in faults
      BY <1>3, FormChecked, MinIsIn
    <2>2. FormCodes[Min(faults)] \in ParseCodes
      BY <2>1, FormChecked
    <2>3. o = Refused(FormCodes[Min(faults)])
      <3> HIDE DEF faults, errors, finish, made, of
      <3> QED BY <1>1, <1>3
    <2> QED BY <2>2, <2>3 DEF Refused
  <1>4. CASE p.shape # "absent" /\ faults = {} /\ errors # {}
    <2>1. errors \subseteq ParseCodes
      BY <1>0, EntryChecked
    <2>2. PICK c \in errors : o = Refused(c)
      <3> HIDE DEF faults, errors, finish, made, of
      <3> QED BY <1>1, <1>4
    <2> QED BY <2>1, <2>2 DEF Refused
  <1>5. CASE p.shape # "absent" /\ faults = {} /\ errors = {}
    <2>1. PICK w \in Picks(of) : o = finish(made(w))
      <3> HIDE DEF faults, errors, finish, made, of
      <3> QED BY <1>1, <1>5
    <2> DEFINE cfg == made(w)
    <2>2. CASE \E s \in SelectorsIn(cfg) : s[1] = "string"
      BY <2>1, <2>2 DEF Refused, ParseCodes
    <2>3. CASE ~\E s \in SelectorsIn(cfg) : s[1] = "string"
      <3>1. o.error = "" /\ o.config = cfg /\ o.warnings = ConfigWarnings(p, cfg)
        <4>1. o = Accepted(cfg, ConfigWarnings(p, cfg))
          BY <2>1, <2>3
        <4> HIDE DEF cfg
        <4> QED BY <4>1 DEF Accepted
      <3> HIDE DEF cfg
      <3>2. \A e \in DOMAIN Entries(p) : <<"ignored", e>> \in o.warnings <=> ~Recognized(e)
        BY <3>1, IgnoredEntries, ZenonT(60)
      <3>3. IsFiniteSet(DOMAIN entries) /\ SelectorsTyped(p)
        BY <1>5, FormChecked DEF EntriesTyped
      <3>4. DOMAIN w = {NormalizeConfigRuleID(key) : key \in kept}
        BY DEF Picks
      <3>5. \A r \in DOMAIN w : w[r] \in EntriesFor(entries, r)
        BY <3>4 DEF Picks
      <3>6. \A r \in DOMAIN w : /\ w[r] \in DOMAIN entries /\ Recognized(w[r])
                                /\ NormalizeConfigRuleID(w[r]) = r /\ w[r].id = r
                                /\ r \in DOMAIN ConfigRegistry
        <4>1. \A r \in DOMAIN w : r \in DOMAIN ConfigRegistry
          BY <3>4, RuleOfKey DEF Recognized
        <4>2. \A r \in DOMAIN w : w[r] \in DOMAIN entries /\ NormalizeConfigRuleID(w[r]) = r
          BY <3>5 DEF EntriesFor
        <4> QED BY <4>1, <4>2, RuleOfKey DEF Recognized
      <3>7. /\ DOMAIN cfg = {Bare(r) : r \in DOMAIN w}
            /\ \A r \in DOMAIN w : cfg[Bare(r)] = entries[w[r]][2]
        <4>1. \A r : Bare(r).id = r
          BY RuleOfKey
        <4> QED BY <4>1 DEF cfg
      <3>8. \A key \in DOMAIN entries : /\ entries[key][1] = "object"
                                        /\ Recognized(key) => Validated(entries[key][2], key.id)
        <4>1. \A key \in DOMAIN entries : EntryErrors(key, entries[key], Lenient(p)) = {}
          BY <1>5
        <4> QED BY <1>0, <4>1, EntryChecked
      <3>9. IsFiniteSet(DOMAIN cfg)
        <4> DEFINE f == [key \in kept |-> Bare(NormalizeConfigRuleID(key))]
        <4>1. f \in Surjection(kept, DOMAIN cfg)
          BY <3>4, <3>7 DEF Surjection
        <4>2. IsFiniteSet(kept)
          BY <3>3, FS_Subset
        <4> QED BY <4>1, <4>2, FS_Surjection
      <3>10. ValidConfig(cfg)
        <4> SUFFICES ASSUME NEW key \in DOMAIN cfg
                     PROVE  \E r \in DOMAIN ConfigRegistry : key = Bare(r) /\ Validated(cfg[key], r)
          BY <3>9 DEF ValidConfig
        <4>1. PICK r \in DOMAIN w : key = Bare(r)
          BY <3>7
        <4>2. Validated(cfg[key], r)
          BY <3>6, <3>7, <3>8, <4>1
        <4> QED BY <3>6, <4>1, <4>2
      <3>11. ASSUME NEW key \in DOMAIN cfg
             PROVE  \E e \in DOMAIN Entries(p) :
                      /\ e.id = key.id /\ NormalizeConfigRuleID(e) = key.id
                      /\ Entries(p)[e][1] = "object" /\ cfg[key] = Entries(p)[e][2]
        <4>1. PICK r \in DOMAIN w : key = Bare(r)
          BY <3>7, <3>11
        <4>2. key.id = r
          BY <4>1, RuleOfKey
        <4> QED BY <3>6, <3>7, <3>8, <4>1, <4>2
      <3>12. ASSUME NEW e \in DOMAIN Entries(p)
             PROVE  Bare(e.id) \in DOMAIN cfg \/ ~Recognized(e)
        BY <3>4, <3>7, RuleOfKey
      <3> QED BY <3>1, <3>2, <3>3, <3>10, <3>11, <3>12 DEF ReadFrom
    <2> QED BY <2>2, <2>3
  <1> QED BY <1>2, <1>3, <1>4, <1>5

\* The options of every rule are those of an entry for it, all of them under their
\* names.
FromEntries(p, config) ==
  \A r \in DOMAIN config : \E e \in DOMAIN Entries(p) :
    e.id = r /\ Entries(p)[e][1] = "object" /\ UnderNames(Entries(p)[e][2], config[r])

\* What a handler passes on the engine runs with, as it stands in the document.
LEMMA HandlerConfig ==
  ASSUME NEW p, EntriesTyped(p), NEW strict \in BOOLEAN, NEW s \in ServerConfig(p, strict)
  PROVE  \/ s \in ParseConfig(p, strict) /\ s.error \in ParseCodes
         \/ \E o \in ParseConfig(p, strict) :
              /\ s.error = "" /\ s.warnings = o.warnings /\ ReadFrom(p, o)
              /\ \A n \in NormalizeConfig(s.config) :
                   n.error = "" /\ DOMAIN n.config = RulesOf(o.config) /\ FromEntries(p, n.config)
  <1>1. PICK o \in ParseConfig(p, strict) :
          s \in IF o.error # "" THEN {o}
                ELSE {IF n.error # "" THEN n ELSE Accepted(AsGiven(n.config), o.warnings) :
                        n \in NormalizeConfig(o.config)}
    BY DEF ServerConfig
  <1>2. CASE o.error \in ParseCodes
    BY <1>1, <1>2 DEF ParseCodes
  <1>3. CASE o.error \notin ParseCodes
    <2>1. ReadFrom(p, o)
      BY <1>3, ParsedConfig
    <2>2. o.error = "" /\ ValidConfig(o.config)
      BY <2>1 DEF ReadFrom
    <2>3. PICK n1 \in NormalizeConfig(o.config) :
            s = IF n1.error # "" THEN n1 ELSE Accepted(AsGiven(n1.config), o.warnings)
      BY <1>1, <2>2
    <2>4. /\ n1.error = "" /\ DOMAIN n1.config = RulesOf(o.config) /\ ValidConfig(AsGiven(n1.config))
          /\ \A r \in RulesOf(o.config) : UnderNames(o.config[Bare(r)], n1.config[r])
      BY <2>2, ValidNormalizes
    <2> DEFINE given == AsGiven(n1.config)
    <2>5. s.error = "" /\ s.warnings = o.warnings /\ s.config = given
      BY <2>3, <2>4 DEF Accepted
    <2>6. /\ DOMAIN given = {Bare(r) : r \in RulesOf(o.config)}
          /\ \A r \in RulesOf(o.config) : given[Bare(r)] = n1.config[r]
      <3>1. \A r : Bare(r).id = r
        BY RuleOfKey
      <3> QED BY <2>4, <3>1 DEF AsGiven
    <2>7. ValidConfig(given)
      BY <2>4
    <2> HIDE DEF given
    <2>8. RulesOf(given) = RulesOf(o.config)
      <3>1. \A r \in RulesOf(o.config) : r \in KnownRuleIDs
        BY <2>2, EntryOfRule, TablesAgree
      <3>2. \A r \in RulesOf(o.config) : NormalizeConfigRuleID(Bare(r)) = r
        BY <3>1, RuleOfKey
      <3> QED BY <2>6, <3>2 DEF RulesOf
    <2>9. ASSUME NEW n \in NormalizeConfig(given)
          PROVE  n.error = "" /\ DOMAIN n.config = RulesOf(o.config) /\ FromEntries(p, n.config)
      <3>1. /\ n.error = "" /\ DOMAIN n.config = RulesOf(o.config)
            /\ \A r \in RulesOf(o.config) : UnderNames(given[Bare(r)], n.config[r])
        BY <2>7, <2>8, <2>9, ValidNormalizes
      <3>2. ASSUME NEW r \in RulesOf(o.config)
            PROVE  \E e \in DOMAIN Entries(p) :
                     /\ e.id = r /\ Entries(p)[e][1] = "object"
                     /\ UnderNames(Entries(p)[e][2], n.config[r])
        <4>1. Bare(r) \in DOMAIN o.config /\ Bare(r).id = r
          BY <2>2, <3>2, EntryOfRule, RuleOfKey DEF EntriesFor
        <4>2. PICK e \in DOMAIN Entries(p) :
                e.id = r /\ Entries(p)[e][1] = "object" /\ o.config[Bare(r)] = Entries(p)[e][2]
          BY <2>1, <4>1, ZenonT(60) DEF ReadFrom
        <4>3. UnderNames(Entries(p)[e][2], n1.config[r])
          BY <2>4, <3>2, <4>2
        <4>4. UnderNames(n1.config[r], n.config[r])
          BY <2>6, <3>1, <3>2
        <4> QED BY <4>2, <4>3, <4>4, UnderNamesTwice
      <3> QED BY <3>1, <3>2 DEF FromEntries
    <2> QED BY <2>1, <2>5, <2>9
  <1> QED BY <1>2, <1>3

-----------------------------------------------------------------------------
(* Documents that conform to the published schema.                           *)

\* Every entry of one is for a rule with metadata, and its options are valid.
LEMMA ConformingEntries ==
  ASSUME NEW p, Conforms(p)
  PROVE  /\ p.shape = "object" /\ p.rules[1] \in {"absent", "object"}
         /\ RulesConform(Entries(p))
         /\ \A e \in DOMAIN Entries(p) :
              /\ Entries(p)[e][1] = "object"
              /\ e.id \in DOMAIN ConfigRegistry /\ e = Bare(e.id) /\ Recognized(e)
              /\ Validated(Entries(p)[e][2], e.id)
              /\ \A k \in DOMAIN Entries(p)[e][2] : OptionConforms(k, Entries(p)[e][2][k])
  <1>1. /\ p.shape = "object" /\ SchemaVersion(p) = p.version
        /\ \/ p.version = Absent /\ p.rules = Absent /\ RulesConform(p.others)
           \/ p.version # Absent /\ p.rules[1] = "object" /\ RulesConform(p.rules[2])
    BY DEF Conforms, SchemaVersion, Absent, Str
  <1>2. Absent[1] = "absent"
    BY DEF Absent
  <1>3. RulesConform(Entries(p))
    BY <1>1, <1>2 DEF Entries
  <1>4. ASSUME NEW e \in DOMAIN Entries(p)
        PROVE  /\ Entries(p)[e][1] = "object"
               /\ e.id \in DOMAIN ConfigRegistry /\ e = Bare(e.id) /\ Recognized(e)
               /\ Validated(Entries(p)[e][2], e.id)
               /\ \A k \in DOMAIN Entries(p)[e][2] : OptionConforms(k, Entries(p)[e][2][k])
    <2> DEFINE options == Entries(p)[e][2]
    <2>1. PICK r \in DOMAIN ConfigRegistry : e = Bare(r)
      BY <1>3 DEF RulesConform
    <2>2. e.id = r /\ NormalizeConfigRuleID(e) = r
      BY <2>1, RuleOfKey, TablesAgree
    <2>3. \A k \in DOMAIN options : k \in ConfigurableOptions[e.id] /\ OptionConforms(k, options[k])
      BY <1>3 DEF RulesConform
    <2>4. \A k \in DOMAIN options : k \in ConfigRegistry[r] /\ k \in OptionNames
      BY <2>2, <2>3, TablesAgree
    <2> HIDE DEF options
    <2>5. ASSUME NEW k \in DOMAIN options
          PROVE  /\ NormalizeMetaKey(k) \in ConfigRegistry[e.id]
                 /\ ValidateOption(NormalizeMetaKey(k), options[k])
      <3>1. NormalizeMetaKey(k) = k
        BY <2>4, NamesKept
      <3>2. OptionConforms(k, options[k]) /\ k \in OptionNames
        BY <2>3, <2>4
      <3>3. ValidateOption(k, options[k])
        BY <3>2, NamesKept DEF OptionConforms, ValidateOption, ValidSeverity, ValidSelectors, OptionNames
      <3> QED BY <2>2, <2>4, <3>1, <3>3
    <2>6. Entries(p)[e][1] = "object"
      BY <1>3 DEF RulesConform
    <2> QED BY <2>1, <2>2, <2>3, <2>5, <2>6 DEF Recognized, Validated, options
  <1> QED BY <1>1, <1>2, <1>3, <1>4

\* parseConfig accepts it.
LEMMA ConformingParsed ==
  ASSUME NEW p, EntriesTyped(p), Conforms(p), NEW strict \in BOOLEAN, strict => p.version # Absent,
         NEW o \in ParseConfig(p, strict)
  PROVE  ReadFrom(p, o)
  <1> DEFINE entries == Entries(p)
             errors == UNION {EntryErrors(key, entries[key], Lenient(p)) : key \in DOMAIN entries}
             kept == {key \in DOMAIN entries : Recognized(key)}
             of == [r \in {NormalizeConfigRuleID(key) : key \in kept} |-> EntriesFor(entries, r)]
             made(w) == [key \in {Bare(r) : r \in DOMAIN w} |-> entries[w[key.id]][2]]
             finish(cfg) == IF \E s \in SelectorsIn(cfg) : s[1] = "string"
                            THEN Refused("invalid_suppression_selector")
                            ELSE Accepted(cfg, ConfigWarnings(p, cfg))
  <1>1. p.shape # "absent" /\ FormFaults(p, strict) = {}
    BY ConformingEntries, FormChecked
  <1>2. errors = {}
    <2>1. Lenient(p) \in BOOLEAN
      BY DEF Lenient
    <2>2. \A key \in DOMAIN entries : EntryErrors(key, entries[key], Lenient(p)) = {}
      BY <2>1, ConformingEntries, EntryChecked
    <2> QED BY <2>2
  <1>3. o \in {finish(made(w)) : w \in Picks(of)}
    BY <1>1, <1>2 DEF ParseConfig
  <1>4. PICK w \in Picks(of) : o = finish(made(w))
    BY <1>3
  <1> DEFINE cfg == made(w)
  <1>5. \A key \in DOMAIN cfg : \E e \in DOMAIN entries : cfg[key] = entries[e][2]
    <2>1. \A r \in DOMAIN w : w[r] \in DOMAIN entries
      BY DEF Picks, EntriesFor
    <2>2. \A r : Bare(r).id = r
      BY RuleOfKey
    <2> QED BY <2>1, <2>2
  <1>6. o = finish(cfg)
    BY <1>4
  <1> HIDE DEF cfg
  <1>7. \A s \in SelectorsIn(cfg) : s[1] = "selector"
    <2> SUFFICES ASSUME NEW key \in DOMAIN cfg, "suppression-selectors" \in DOMAIN cfg[key],
                        NEW s \in ToSet(cfg[key]["suppression-selectors"][2])
                 PROVE  s[1] = "selector"
      BY DEF SelectorsIn
    <2>1. OptionConforms("suppression-selectors", cfg[key]["suppression-selectors"])
      BY <1>5, ConformingEntries
    <2> QED BY <2>1 DEF OptionConforms, ToSet
  <1>8. o.error = ""
    BY <1>6, <1>7 DEF Accepted
  <1> QED BY <1>8, ParsedConfig DEF ParseCodes

-----------------------------------------------------------------------------
(* The command line client.                                                  *)

\* A value without objects in it, or arrays in arrays, is not nested.
LEMMA NotNested ==
  ASSUME NEW v, v[1] # "object", v[1] = "array" => \A i \in DOMAIN v[2] : v[2][i][1] = "selector"
  PROVE  ~HasNestedStructure(v)
  <1> DEFINE Inside(S) == UNION {ToSet(array[2]) : array \in {x \in S : x[1] = "array"}}
             Levels(f) == f = [n \in Nat |-> IF n = 0 THEN {v} ELSE Inside(f[n - 1])]
             within == CHOOSE f : Levels(f)
             g == [n \in Nat |-> IF n = 0 THEN {v} ELSE IF n = 1 THEN Inside({v}) ELSE {}]
  <1>1. Inside({}) = {}
    OBVIOUS
  <1>2. \A x \in Inside({v}) : x[1] = "selector"
    BY DEF ToSet
  <1>3. Inside(Inside({v})) = {}
    BY <1>2
  <1> HIDE DEF Inside
  <1>4. \A n \in Nat : g[n] = IF n = 0 THEN {v} ELSE Inside(g[n - 1])
    <2> SUFFICES ASSUME NEW n \in Nat PROVE g[n] = IF n = 0 THEN {v} ELSE Inside(g[n - 1])
      OBVIOUS
    <2>1. CASE n = 0
      BY <2>1
    <2>2. CASE n = 1
      BY <2>2
    <2>3. CASE n > 1
      <3>1. n - 1 \in Nat /\ n - 1 # 0 /\ n # 0 /\ n # 1
        BY <2>3
      <3>2. g[n] = {}
        BY <3>1
      <3>3. g[n - 1] = IF n - 1 = 1 THEN Inside({v}) ELSE {}
        BY <3>1
      <3> HIDE DEF g
      <3> QED BY <1>1, <1>3, <3>1, <3>2, <3>3
    <2> QED BY <2>1, <2>2, <2>3
  <1>5. Levels(g)
    BY <1>4
  <1>6. Levels(within)
    BY <1>5
  <1> HIDE DEF within, g
  <1>7. /\ within[0] = {v}
        /\ \A n \in Nat : n # 0 => within[n] = Inside(within[n - 1])
    BY <1>6
  <1> HIDE DEF Levels
  <1>8. \A n \in Nat : \A x \in within[n] : x[1] # "object"
    <2> DEFINE Flat(n) == IF n = 0 THEN within[n] = {v} ELSE \A x \in within[n] : x[1] = "selector"
               bad == {n \in Nat : ~Flat(n)}
    <2>1. CASE bad # {}
      <3>1. PICK n \in bad : \A m \in bad : n <= m
        BY <2>1, Least
      <3>2. n \in Nat /\ n # 0
        BY <1>7, <3>1
      <3>3. n - 1 \in Nat /\ n - 1 \notin bad
        BY <3>1, <3>2
      <3>4. Flat(n - 1)
        BY <3>3
      <3>5. \A x \in Inside(within[n - 1]) : x[1] = "selector"
        BY <1>2, <3>4 DEF Inside
      <3>6. Flat(n)
        BY <1>7, <3>2, <3>5
      <3> QED BY <3>1, <3>6
    <2>2. CASE bad = {}
      BY <2>2
    <2> QED BY <2>1, <2>2
  <1>9. HasNestedStructure(v) <=> \E n \in 0 .. MaxNesting : \E x \in within[n] : x[1] = "object"
    BY DEF HasNestedStructure, within, Levels, Inside
  <1> QED BY <1>8, <1>9, NestingBounded

\* No options.
LEMMA EmptyMap == \A s : s = <<>> => DOMAIN s = {}
  OBVIOUS

\* What the file states, and nothing else, is in what the client makes of it: that
\* of an entry under core/ with the rule's own ID.
SameOptions(cfg, config) ==
  /\ IsFiniteSet(DOMAIN config)
  /\ \A key \in DOMAIN config : \A x \in DOMAIN config[key] :
       \E e \in DOMAIN cfg : /\ e.id = key.id /\ cfg[e][1] = "object"
                             /\ x \in DOMAIN cfg[e][2] /\ config[key][x] = cfg[e][2][x]
  /\ \A e \in DOMAIN cfg : \E key \in DOMAIN config :
       key.id = e.id /\ (cfg[e][1] = "object" => DOMAIN cfg[e][2] \subseteq DOMAIN config[key])

\* Canonicalize, where it does not panic: the options of the rule, and all of them.
LEMMA Canonicalized ==
  ASSUME NEW cfg, IsFiniteSet(DOMAIN cfg), DOMAIN cfg \subseteq RuleKeys,
         \A e \in DOMAIN cfg : cfg[e][1] = "object" \/ cfg[e] = Null,
         Canonicalize(cfg).error = ""
  PROVE  Canonicalize(cfg).warnings = {} /\ SameOptions(cfg, Canonicalize(cfg).config)
  <1> DEFINE isAlias(key) == key.core /\ ~key.padded
             plain == {key \in DOMAIN cfg : ~isAlias(key)}
             aliases == DOMAIN cfg \ plain
             options(key) == IF cfg[key] = Null THEN <<>> ELSE cfg[key][2]
             alias(key) == RuleKey(FALSE, TRUE, key.id)
             own(key) == IF key \in plain THEN options(key) ELSE <<>>
             other(key) == IF key = Bare(key.id) /\ alias(key) \in aliases
                           THEN options(alias(key)) ELSE <<>>
             keys == plain \cup {Bare(a.id) : a \in aliases}
             config == Canonicalize(cfg).config
  <1>1. /\ Canonicalize(cfg).warnings = {}
        /\ config = [key \in keys |-> Filled(own(key), other(key))]
    BY DEF Canonicalize, Accepted, Refused
  <1>2. DOMAIN config = keys /\ \A key \in keys : config[key] = Filled(own(key), other(key))
    BY <1>1
  <1>3. ASSUME NEW key \in keys
        PROVE  /\ DOMAIN own(key) \subseteq DOMAIN config[key]
               /\ DOMAIN other(key) \subseteq DOMAIN config[key]
               /\ \A x \in DOMAIN config[key] :
                    \/ x \in DOMAIN own(key) /\ config[key][x] = own(key)[x]
                    \/ x \in DOMAIN other(key) /\ config[key][x] = other(key)[x]
    <2> DEFINE f == own(key)
               g == other(key)
               m == config[key]
    <2>1. m = Filled(f, g)
      BY <1>2
    <2> HIDE DEF f, g, m
    <2>2. /\ DOMAIN f \subseteq DOMAIN m /\ DOMAIN g \subseteq DOMAIN m
          /\ \A x \in DOMAIN m : \/ x \in DOMAIN f /\ m[x] = f[x]
                                 \/ x \in DOMAIN g /\ m[x] = g[x]
      BY <2>1 DEF Filled
    <2> QED BY <2>2 DEF f, g, m
  <1>4. \A s : s = <<>> => DOMAIN s = {}
    BY EmptyMap
  <1>5. \A e \in aliases : e = alias(e)
    <2> SUFFICES ASSUME NEW e \in aliases PROVE e = alias(e)
      OBVIOUS
    <2>1. e \in RuleKeys /\ isAlias(e)
      OBVIOUS
    <2>2. e.core = TRUE /\ e.padded = FALSE
      BY <2>1 DEF RuleKeys
    <2>3. e = [padded |-> e.padded, core |-> e.core, id |-> e.id]
      BY <2>1 DEF RuleKeys
    <2> QED BY <2>2, <2>3 DEF RuleKey
  <1>6. \A r : Bare(r).id = r /\ RuleKey(FALSE, TRUE, r).id = r
    BY DEF Bare, RuleKey
  <1> HIDE DEF config
  <1>7. ASSUME NEW key \in keys, NEW x \in DOMAIN config[key]
        PROVE  \E e \in DOMAIN cfg : /\ e.id = key.id /\ cfg[e][1] = "object"
                                     /\ x \in DOMAIN cfg[e][2] /\ config[key][x] = cfg[e][2][x]
    <2>1. \/ x \in DOMAIN own(key) /\ config[key][x] = own(key)[x]
          \/ x \in DOMAIN other(key) /\ config[key][x] = other(key)[x]
      <3> HIDE DEF own, other, keys
      <3> QED BY <1>3, <1>7
    <2>2. CASE x \in DOMAIN own(key) /\ config[key][x] = own(key)[x]
      <3>1. key \in plain /\ own(key) = options(key)
        BY <1>4, <2>2
      <3>2. cfg[key][1] = "object" /\ options(key) = cfg[key][2]
        BY <1>4, <2>2, <3>1
      <3> QED BY <2>2, <3>1, <3>2
    <2>3. CASE x \in DOMAIN other(key) /\ config[key][x] = other(key)[x]
      <3>1. alias(key) \in aliases /\ other(key) = options(alias(key))
        BY <1>4, <2>3
      <3>2. cfg[alias(key)][1] = "object" /\ options(alias(key)) = cfg[alias(key)][2]
        BY <1>4, <2>3, <3>1
      <3>3. alias(key).id = key.id
        BY <1>6
      <3> QED BY <2>3, <3>1, <3>2, <3>3
    <2> QED BY <2>1, <2>2, <2>3
  <1>8. ASSUME NEW e \in DOMAIN cfg
        PROVE  \E key \in keys :
                 key.id = e.id /\ (cfg[e][1] = "object" => DOMAIN cfg[e][2] \subseteq DOMAIN config[key])
    <2>0. cfg[e][1] = "object" => options(e) = cfg[e][2]
      <3>1. Null[1] = "null"
        BY DEF Null
      <3> QED BY <3>1
    <2>1. CASE e \in plain
      <3>1. own(e) = options(e) /\ e \in keys
        BY <2>1
      <3>2. DOMAIN own(e) \subseteq DOMAIN config[e]
        BY <1>3, <3>1
      <3> QED BY <2>0, <3>1, <3>2
    <2>2. CASE e \in aliases
      <3> DEFINE key == Bare(e.id)
      <3>1. key \in keys /\ key.id = e.id /\ key = Bare(key.id) /\ alias(key) = e
        BY <1>5, <1>6, <2>2
      <3>2. other(key) = options(e)
        BY <2>2, <3>1
      <3>3. DOMAIN other(key) \subseteq DOMAIN config[key]
        BY <1>3, <3>1
      <3> QED BY <2>0, <3>1, <3>2, <3>3
    <2> QED BY <2>1, <2>2
  <1>9. IsFiniteSet(keys)
    <2> DEFINE f == [key \in DOMAIN cfg |-> IF key \in plain THEN key ELSE Bare(key.id)]
    <2>1. f \in Surjection(DOMAIN cfg, keys)
      BY DEF Surjection
    <2> QED BY <2>1, FS_Surjection
  <1> HIDE DEF keys
  <1> QED BY <1>1, <1>2, <1>7, <1>8, <1>9 DEF SameOptions, config

\* What the client reads from a file.
LEMMA ClientRead ==
  ASSUME NEW p, EntriesTyped(p), ParseConfigFile(p).error = ""
  PROVE  /\ ParseConfigFile(p).warnings = {} /\ SelectorsTyped(p)
         /\ SameOptions(Entries(p), ParseConfigFile(p).config)
  <1> DEFINE o == ParseConfigFile(p)
  <1>1. Refused("config error").error # "" /\ Accepted(<<>>, {}).error = ""
        /\ Accepted(<<>>, {}).config = <<>> /\ Accepted(<<>>, {}).warnings = {}
    BY DEF Refused, Accepted
  <1>2. o = IF p.shape \in {"absent", "null"} THEN Accepted(<<>>, {})
            ELSE IF \/ p.shape # "object"
                    \/ p.version # Absent /\ (p.version # Str("v1") \/ p.rules = Absent)
            THEN Refused("config error")
            ELSE IF p.rules # Absent THEN DecodeRules(p.rules)
            ELSE IF p.allowUnknown # Absent \/ p.legacyVersion # Absent THEN Refused("config error")
            ELSE DecodeRules(Obj(p.others))
    BY DEF ParseConfigFile
  <1>3. o.error = ""
    OBVIOUS
  <1> HIDE DEF o
  <1>4. CASE p.shape \in {"absent", "null"}
    <2>1. o.warnings = {} /\ o.config = <<>>
      BY <1>1, <1>2, <1>4
    <2>2. DOMAIN o.config = {} /\ IsFiniteSet(DOMAIN o.config)
      BY <2>1, EmptyMap, FS_EmptySet
    <2>3. DOMAIN Entries(p) = {}
      BY <1>4, NoEntries DEF EntriesTyped
    <2> QED BY <2>1, <2>2, <2>3 DEF SameOptions, SelectorsTyped, o
  <1>5. CASE p.shape \notin {"absent", "null"}
    <2>1. \E v : /\ v[2] = Entries(p) /\ p.rules[1] \in {"absent", "object"}
                 /\ \A key \in DOMAIN v[2] : v[2][key][1] \in {"object", "null"}
                 /\ o = Canonicalize(v[2])
      <3>1. CASE p.rules # Absent
        <4>1. o = DecodeRules(p.rules)
          BY <1>1, <1>2, <1>3, <1>5, <3>1
        <4>2. /\ p.rules[1] = "object" /\ o = Canonicalize(p.rules[2])
              /\ \A key \in DOMAIN p.rules[2] : p.rules[2][key][1] \in {"object", "null"}
          BY <1>1, <1>3, <4>1 DEF DecodeRules
        <4>3. Entries(p) = p.rules[2]
          BY <3>1 DEF Entries
        <4> QED BY <4>2, <4>3
      <3>2. CASE p.rules = Absent
        <4>1. p.version = Absent /\ p.legacyVersion = Absent /\ o = DecodeRules(Obj(p.others))
          BY <1>1, <1>2, <1>3, <1>5, <3>2
        <4>2. Obj(p.others)[2] = p.others
          BY DEF Obj
        <4>3. /\ o = Canonicalize(Obj(p.others)[2])
              /\ \A key \in DOMAIN Obj(p.others)[2] : Obj(p.others)[2][key][1] \in {"object", "null"}
          BY <1>1, <1>3, <4>1 DEF DecodeRules
        <4>4. Entries(p) = p.others /\ p.rules[1] = "absent"
          <5>1. SchemaVersion(p) = Absent /\ Absent[1] = "absent"
            BY <4>1 DEF SchemaVersion, Absent
          <5> QED BY <3>2, <5>1 DEF Entries
        <4> QED BY <4>2, <4>3, <4>4
      <3> QED BY <3>1, <3>2
    <2>2. /\ o = Canonicalize(Entries(p)) /\ p.rules[1] \in {"absent", "object"}
          /\ \A e \in DOMAIN Entries(p) : Entries(p)[e][1] \in {"object", "null"}
      BY <2>1
    <2>3. \A e \in DOMAIN Entries(p) : Entries(p)[e][1] = "object" \/ Entries(p)[e] = Null
      BY <2>2 DEF EntriesTyped
    <2> QED BY <1>3, <2>2, <2>3, Canonicalized DEF EntriesTyped, o
  <1> QED BY <1>4, <1>5

\* A file that conforms to the schema is read, and is one that NormalizeConfig
\* accepts.
LEMMA ClientConforming ==
  ASSUME NEW p, EntriesTyped(p), Conforms(p)
  PROVE  ParseConfigFile(p).error = "" /\ ValidConfig(ParseConfigFile(p).config)
  <1> DEFINE cfg == Entries(p)
             o == Canonicalize(cfg)
  <1>1. /\ \A e \in DOMAIN cfg : /\ cfg[e][1] = "object" /\ Validated(cfg[e][2], e.id)
                                 /\ e.id \in DOMAIN ConfigRegistry /\ e = Bare(e.id)
        /\ IsFiniteSet(DOMAIN cfg)
    BY ConformingEntries DEF EntriesTyped
  <1>2. \A e \in DOMAIN cfg : \A k \in DOMAIN cfg[e][2] : ~HasNestedStructure(cfg[e][2][k])
    <2> SUFFICES ASSUME NEW e \in DOMAIN cfg, NEW k \in DOMAIN cfg[e][2]
                 PROVE  ~HasNestedStructure(cfg[e][2][k])
      OBVIOUS
    <2> DEFINE v == cfg[e][2][k]
    <2>1. OptionConforms(k, v) /\ k \in ConfigurableOptions[e.id]
      BY ConformingEntries DEF RulesConform
    <2>2. k \in OptionNames
      BY <1>1, <2>1, TablesAgree
    <2> HIDE DEF v
    <2>3. v[1] # "object" /\ (v[1] = "array" => \A i \in DOMAIN v[2] : v[2][i][1] = "selector")
      BY <2>1, <2>2 DEF OptionConforms, OptionNames
    <2>4. ~HasNestedStructure(v)
      BY <2>3, NotNested
    <2> QED BY <2>4 DEF v
  <1>3. ParseConfigFile(p) = o
    <2>1. \A v : v[1] = "object" /\ v[2] = cfg => DecodeRules(v) = o
      BY <1>1, <1>2 DEF DecodeRules
    <2>2. Absent[1] = "absent" /\ Absent # Str("v1")
      BY DEF Absent, Str
    <2>3. /\ p.shape = "object" /\ p.allowUnknown = Absent /\ p.legacyVersion = Absent
          /\ \/ p.version = Absent /\ p.rules = Absent
             \/ p.version = Str("v1") /\ p.rules[1] = "object"
      BY DEF Conforms
    <2>4. CASE p.rules = Absent
      <3>1. p.version = Absent /\ cfg = p.others
        BY <2>2, <2>3, <2>4 DEF Entries, SchemaVersion
      <3>2. Obj(p.others)[1] = "object" /\ Obj(p.others)[2] = p.others
        BY DEF Obj
      <3>3. ParseConfigFile(p) = DecodeRules(Obj(p.others))
        BY <2>3, <2>4, <3>1 DEF ParseConfigFile
      <3> QED BY <2>1, <3>1, <3>2, <3>3
    <2>5. CASE p.rules # Absent
      <3>1. p.version = Str("v1") /\ p.rules[1] = "object" /\ cfg = p.rules[2]
        BY <2>3, <2>5 DEF Entries
      <3>2. ParseConfigFile(p) = DecodeRules(p.rules)
        BY <2>3, <2>5, <3>1 DEF ParseConfigFile
      <3> QED BY <2>1, <3>1, <3>2
    <2> QED BY <2>4, <2>5
  <1>4. /\ o.error = "" /\ DOMAIN o.config = DOMAIN cfg
        /\ \A e \in DOMAIN cfg : o.config[e] = Filled(cfg[e][2], <<>>)
    <2>1. \A e \in DOMAIN cfg : ~(e.core /\ ~e.padded) /\ cfg[e] # Null
      <3>1. \A r : Bare(r).core = FALSE
        BY DEF Bare, RuleKey
      <3>2. Null[1] = "null"
        BY DEF Null
      <3> QED BY <1>1, <3>1, <3>2
    <2> DEFINE plain == {key \in DOMAIN cfg : ~(key.core /\ ~key.padded)}
    <2>2. plain = DOMAIN cfg /\ DOMAIN cfg \ plain = {}
      BY <2>1
    <2> DEFINE g == [key \in DOMAIN cfg |-> Filled(cfg[key][2], <<>>)]
    <2>3. o = Accepted(g, {})
      BY <2>1, <2>2 DEF Canonicalize
    <2>4. \A m : Accepted(m, {}).error = "" /\ Accepted(m, {}).config = m
      BY DEF Accepted
    <2>5. o.error = "" /\ o.config = g
      <3> HIDE DEF g, o
      <3> QED BY <2>3, <2>4
    <2> QED BY <2>5
  <1>5. \A e \in DOMAIN cfg : Validated(o.config[e], e.id)
    <2> SUFFICES ASSUME NEW e \in DOMAIN cfg PROVE Validated(o.config[e], e.id)
      OBVIOUS
    <2> DEFINE f == cfg[e][2]
               m == o.config[e]
    <2>1. m = Filled(f, <<>>) /\ Validated(f, e.id)
      BY <1>1, <1>4
    <2> HIDE DEF f, m
    <2>2. DOMAIN m = DOMAIN f /\ \A x \in DOMAIN f : m[x] = f[x]
      BY <2>1, EmptyMap DEF Filled
    <2>3. Validated(m, e.id)
      BY <2>1, <2>2 DEF Validated
    <2> QED BY <2>3 DEF m
  <1>6. ValidConfig(o.config)
    <2> HIDE DEF cfg, o
    <2> QED BY <1>1, <1>4, <1>5 DEF ValidConfig
  <1> QED BY <1>3, <1>4, <1>6

-----------------------------------------------------------------------------
(* What is in force.                                                         *)

\* The members of what is stated.
LEMMA StatedOptions ==
  ASSUME NEW entries, NEW r
  PROVE  \A pair : pair \in Stated(entries, r) <=>
           \E e \in DOMAIN entries : \E x \in DOMAIN entries[e][2] :
             e.id = r /\ entries[e][1] = "object" /\ pair = <<NormalizeMetaKey(x), entries[e][2][x]>>
  <1> DEFINE of == Naming(entries, r)
             pairs(e) == StatedBy(entries[e])
  <1>1. \A pair : pair \in Stated(entries, r) <=> \E e \in of : pair \in pairs(e)
    BY DEF Stated
  <1>2. \A pair, e : pair \in pairs(e) <=>
          entries[e][1] = "object" /\ \E x \in DOMAIN entries[e][2] :
                                 pair = <<NormalizeMetaKey(x), entries[e][2][x]>>
    BY DEF StatedBy
  <1>3. \A e : e \in of <=> e \in DOMAIN entries /\ e.id = r
    BY DEF Naming
  <1> HIDE DEF pairs, of
  <1> QED BY <1>1, <1>2, <1>3

\* What is in force for a rule is what some entries for it state.
ReadFromEntries(entries, r, m, door) ==
  IF door = "client" THEN AreThose(m, Stated(entries, r))
  ELSE \E key \in Naming(entries, r) : AreThose(m, StatedBy(entries[key]))

\* Of whichever entries, it is stated for the rule.
LEMMA StatedForRule ==
  ASSUME NEW entries, NEW r, NEW m, NEW door, ReadFromEntries(entries, r, m, door)
  PROVE  \A k \in DOMAIN m : <<k, m[k]>> \in Stated(entries, r)
  BY DEF ReadFromEntries, AreThose, Stated

\* With a handler the options of one entry for each rule.
LEMMA HandlerMeans ==
  ASSUME NEW p, NEW config, FromEntries(p, config), NEW r \in DOMAIN config, NEW door,
         door # "client"
  PROVE  ReadFromEntries(Entries(p), r, config[r], door)
  <1> DEFINE entries == Entries(p)
             m == config[r]
  <1>1. PICK e \in DOMAIN entries :
          e.id = r /\ entries[e][1] = "object" /\ UnderNames(entries[e][2], m)
    BY DEF FromEntries
  <1> HIDE DEF entries, m
  <1> DEFINE pairs == StatedBy(entries[e])
  <1>2. \A o : o \in pairs <=> \E x \in DOMAIN entries[e][2] :
                                o = <<NormalizeMetaKey(x), entries[e][2][x]>>
    BY <1>1 DEF StatedBy
  <1> HIDE DEF pairs
  <1>3. ASSUME NEW k \in DOMAIN m PROVE <<k, m[k]>> \in pairs
    <2>1. PICK x \in DOMAIN entries[e][2] : NormalizeMetaKey(x) = k /\ m[k] = entries[e][2][x]
      BY <1>1 DEF UnderNames
    <2> QED BY <1>2, <2>1
  <1>4. ASSUME NEW o \in pairs PROVE o[1] \in DOMAIN m
    <2>1. PICK x \in DOMAIN entries[e][2] : o = <<NormalizeMetaKey(x), entries[e][2][x]>>
      BY <1>2
    <2>2. o[1] = NormalizeMetaKey(x)
      BY <2>1
    <2> QED BY <1>1, <2>2 DEF UnderNames
  <1>5. \A k \in DOMAIN m : \E o \in pairs : o[1] = k
    <2> SUFFICES ASSUME NEW k \in DOMAIN m PROVE \E o \in pairs : o[1] = k
      OBVIOUS
    <2>1. <<k, m[k]>> \in pairs /\ <<k, m[k]>>[1] = k
      BY <1>3
    <2> QED BY <2>1
  <1>6. AreThose(m, pairs)
    BY <1>3, <1>4, <1>5 DEF AreThose
  <1>7. e \in Naming(entries, r)
    BY <1>1 DEF Naming
  <1> QED BY <1>6, <1>7 DEF ReadFromEntries, entries, m, pairs

\* With the client those of all entries for the rule.
LEMMA MergedMeans ==
  ASSUME NEW entries, NEW cfg, SameOptions(entries, cfg), NEW r, NEW m, Merges(cfg, r, m),
         EntriesFor(cfg, r) = {key \in DOMAIN cfg : key.id = r}
  PROVE  AreThose(m, Stated(entries, r))
  <1>1. \A pair : pair \in Stated(entries, r) <=>
          \E e \in DOMAIN entries : \E x \in DOMAIN entries[e][2] :
            e.id = r /\ entries[e][1] = "object" /\ pair = <<NormalizeMetaKey(x), entries[e][2][x]>>
    BY StatedOptions
  <1>2. ASSUME NEW k \in DOMAIN m PROVE <<k, m[k]>> \in Stated(entries, r)
    <2>1. PICK key \in EntriesFor(cfg, r) : \E x \in DOMAIN cfg[key] :
            NormalizeMetaKey(x) = k /\ m[k] = cfg[key][x]
      BY <1>2 DEF Merges
    <2>2. PICK x \in DOMAIN cfg[key] : NormalizeMetaKey(x) = k /\ m[k] = cfg[key][x]
      BY <2>1
    <2>3. key \in DOMAIN cfg /\ key.id = r
      OBVIOUS
    <2>4. PICK e \in DOMAIN entries : /\ e.id = r /\ entries[e][1] = "object"
                                      /\ x \in DOMAIN entries[e][2] /\ cfg[key][x] = entries[e][2][x]
      BY <2>3 DEF SameOptions
    <2>5. <<k, m[k]>> = <<NormalizeMetaKey(x), entries[e][2][x]>>
      BY <2>2, <2>4
    <2> QED BY <1>1, <2>4, <2>5
  <1>3. ASSUME NEW o \in Stated(entries, r) PROVE o[1] \in DOMAIN m
    <2>1. PICK e \in DOMAIN entries : \E x \in DOMAIN entries[e][2] :
            e.id = r /\ entries[e][1] = "object" /\ o = <<NormalizeMetaKey(x), entries[e][2][x]>>
      BY <1>1, <1>3
    <2>2. PICK x \in DOMAIN entries[e][2] :
            e.id = r /\ entries[e][1] = "object" /\ o = <<NormalizeMetaKey(x), entries[e][2][x]>>
      BY <2>1
    <2>3. PICK key \in DOMAIN cfg : key.id = r /\ x \in DOMAIN cfg[key]
      BY <2>2 DEF SameOptions
    <2>4. NormalizeMetaKey(x) \in DOMAIN m
      BY <2>3 DEF Merges
    <2> QED BY <2>2, <2>4
  <1>4. ASSUME NEW k \in DOMAIN m PROVE \E o \in Stated(entries, r) : o[1] = k
    <2>1. <<k, m[k]>> \in Stated(entries, r) /\ <<k, m[k]>>[1] = k
      BY <1>2
    <2> QED BY <2>1
  <1> QED BY <1>2, <1>3, <1>4 DEF AreThose

\* After the engine's normalization, what the client reads is what the document states.
LEMMA ClientMeans ==
  ASSUME NEW entries, NEW cfg, SameOptions(entries, cfg), NEW n \in NormalizeConfig(cfg), n.error = ""
  PROVE  /\ \A r \in DOMAIN n.config : ReadFromEntries(entries, r, n.config[r], "client")
         /\ \A e \in DOMAIN entries : e.id \in DOMAIN n.config
  <1>1. /\ "" \notin RulesOf(cfg) /\ DOMAIN n.config = RulesOf(cfg)
        /\ \A r \in RulesOf(cfg) : Merges(cfg, r, n.config[r])
    <2>1. Refused("invalid_config").error # "" /\ IsFiniteSet(DOMAIN cfg)
      BY DEF Refused, SameOptions
    <2> QED BY <2>1, NormalizedConfig
  <1>2. \A key \in DOMAIN cfg : NormalizeConfigRuleID(key) = key.id
    BY <1>1, RuleOfKey DEF RulesOf
  <1>3. \A r : EntriesFor(cfg, r) = {key \in DOMAIN cfg : key.id = r}
    BY <1>2 DEF EntriesFor
  <1>4. ASSUME NEW r \in DOMAIN n.config
        PROVE  ReadFromEntries(entries, r, n.config[r], "client")
    <2> DEFINE m == n.config[r]
    <2>1. Merges(cfg, r, m)
      BY <1>1, <1>4
    <2> HIDE DEF m
    <2>2. AreThose(m, Stated(entries, r))
      BY <1>3, <2>1, MergedMeans
    <2> QED BY <2>2 DEF m, ReadFromEntries
  <1>5. ASSUME NEW e \in DOMAIN entries PROVE e.id \in DOMAIN n.config
    <2>1. PICK key \in DOMAIN cfg : key.id = e.id
      BY <1>5 DEF SameOptions
    <2>2. e.id \in RulesOf(cfg)
      BY <1>2, <2>1 DEF RulesOf
    <2> QED BY <1>1, <2>2
  <1> QED BY <1>4, <1>5

\* The options are those of the document, for one who reads at some door.
Means(p, config, warnings, door) ==
  /\ \A r \in DOMAIN config : ReadFromEntries(Entries(p), r, config[r], door)
  /\ \A key \in DOMAIN Entries(p) :
       \/ key.id \in DOMAIN config
       \/ door # "client" /\ <<"ignored", key>> \in warnings
  /\ SelectorsTyped(p)

\* A handler's answer.
LEMMA HandlerReads ==
  ASSUME NEW p, EntriesTyped(p), NEW strict \in BOOLEAN, NEW s \in ServerConfig(p, strict),
         NEW n \in NormalizeConfig(s.config), NEW door, door # "client"
  PROVE  /\ s.error # "invalid_config" /\ (s.error = "" => n.error = "")
         /\ Conforms(p) /\ (strict => p.version # Absent) =>
              s.error = "" /\ \A key \in DOMAIN Entries(p) : <<"ignored", key>> \notin s.warnings
         /\ s.error = "" => Means(p, n.config, s.warnings, door)
  <1>1. CASE s \in ParseConfig(p, strict) /\ s.error \in ParseCodes
    <2>1. s.error # "" /\ s.error # "invalid_config"
      BY <1>1 DEF ParseCodes
    <2>2. ~(Conforms(p) /\ (strict => p.version # Absent))
      BY <1>1, <2>1, ConformingParsed DEF ReadFrom
    <2> QED BY <2>1, <2>2
  <1>2. ASSUME NEW d \in ParseConfig(p, strict), s.error = "", s.warnings = d.warnings, ReadFrom(p, d),
               n.error = "", DOMAIN n.config = RulesOf(d.config), FromEntries(p, n.config)
        PROVE  /\ Conforms(p) => \A key \in DOMAIN Entries(p) : <<"ignored", key>> \notin s.warnings
               /\ Means(p, n.config, s.warnings, door)
    <2>1. ASSUME Conforms(p), NEW key \in DOMAIN Entries(p) PROVE <<"ignored", key>> \notin s.warnings
      BY <1>2, <2>1, ConformingEntries DEF ReadFrom
    <2>2. ASSUME NEW key \in DOMAIN Entries(p)
          PROVE  key.id \in DOMAIN n.config \/ <<"ignored", key>> \in s.warnings
      <3>1. CASE Bare(key.id) \in DOMAIN d.config
        <4>1. NormalizeConfigRuleID(Bare(key.id)) = Bare(key.id).id
          BY <1>2, <3>1, EntryOfRule DEF ReadFrom
        <4>2. Bare(key.id).id = key.id
          BY RuleOfKey
        <4> QED BY <1>2, <3>1, <4>1, <4>2 DEF RulesOf
      <3>2. CASE <<"ignored", key>> \in d.warnings
        BY <1>2, <3>2
      <3> QED BY <1>2, <2>2, <3>1, <3>2 DEF ReadFrom
    <2>3. \A r \in DOMAIN n.config : ReadFromEntries(Entries(p), r, n.config[r], door)
      BY <1>2, HandlerMeans
    <2> QED BY <1>2, <2>1, <2>2, <2>3 DEF Means, ReadFrom
  <1> QED BY <1>1, <1>2, HandlerConfig

\* The client's.
LEMMA ClientReads ==
  ASSUME NEW p, EntriesTyped(p), NEW s \in ClientConfig(p), NEW n \in NormalizeConfig(s.config)
  PROVE  /\ Conforms(p) => s.error = "" /\ s.warnings = {}
         /\ s.error = "" /\ n.error = "" => Means(p, n.config, s.warnings, "client")
  <1> DEFINE file == ParseConfigFile(p)
  <1>1. s \in IF file.error # "" THEN {file}
              ELSE {IF m.error # "" THEN m ELSE file : m \in NormalizeConfig(file.config)}
    BY DEF ClientConfig
  <1> HIDE DEF file
  <1>2. s = file \/ s.error # ""
    BY <1>1
  <1>3. ASSUME Conforms(p) PROVE s.error = "" /\ s.warnings = {}
    <2>1. file.error = "" /\ ValidConfig(file.config)
      BY <1>3, ClientConforming DEF file
    <2>2. file.warnings = {}
      BY <2>1, ClientRead DEF file
    <2>3. \A m \in NormalizeConfig(file.config) : m.error = ""
      BY <2>1, ValidNormalizes
    <2> QED BY <1>1, <2>1, <2>2, <2>3
  <1>4. ASSUME s.error = "", n.error = "" PROVE Means(p, n.config, s.warnings, "client")
    <2>1. s = file
      BY <1>2, <1>4
    <2>2. SameOptions(Entries(p), s.config) /\ SelectorsTyped(p)
      BY <1>4, <2>1, ClientRead DEF file
    <2>3. /\ \A r \in DOMAIN n.config : ReadFromEntries(Entries(p), r, n.config[r], "client")
          /\ \A e \in DOMAIN Entries(p) : e.id \in DOMAIN n.config
      BY <1>4, <2>2, ClientMeans
    <2> QED BY <2>2, <2>3 DEF Means
  <1> QED BY <1>3, <1>4

-----------------------------------------------------------------------------
(* The order of issues.                                                      *)

\* A list and what is in it.
LEMMA ListFacts ==
  ASSUME NEW S, NEW s \in Seq(S)
  PROVE  Len(s) \in Nat /\ DOMAIN s = 1 .. Len(s) /\ \A k \in DOMAIN s : s[k] \in S
  BY LenProperties

\* No key precedes itself.
LEMMA PrecedesIrreflexive ==
  ASSUME NEW s \in Seq(Int)
  PROVE  ~Precedes(s, s)
  <1>1. Len(s) \in Nat /\ DOMAIN s = 1 .. Len(s) /\ \A k \in DOMAIN s : s[k] \in Int
    BY ListFacts
  <1> QED BY <1>1 DEF Precedes

\* What precedes something precedes what comes after it.
LEMMA PrecedesTransitive ==
  ASSUME NEW s \in Seq(Int), NEW t \in Seq(Int), NEW u \in Seq(Int),
         Precedes(s, t), Precedes(t, u)
  PROVE  Precedes(s, u)
  <1>1. /\ Len(s) \in Nat /\ DOMAIN s = 1 .. Len(s) /\ \A k \in DOMAIN s : s[k] \in Int
        /\ Len(t) \in Nat /\ DOMAIN t = 1 .. Len(t) /\ \A k \in DOMAIN t : t[k] \in Int
        /\ Len(u) \in Nat /\ DOMAIN u = 1 .. Len(u) /\ \A k \in DOMAIN u : u[k] \in Int
    BY ListFacts
  <1>2. PICK k \in DOMAIN t : /\ k = Len(s) + 1 \/ (k \in DOMAIN s /\ s[k] < t[k])
                              /\ \A j \in 1 .. k - 1 : s[j] = t[j]
    BY DEF Precedes
  <1>3. PICK l \in DOMAIN u : /\ l = Len(t) + 1 \/ (l \in DOMAIN t /\ t[l] < u[l])
                              /\ \A j \in 1 .. l - 1 : t[j] = u[j]
    BY DEF Precedes
  <1>4. /\ k \in Nat /\ l \in Nat /\ k >= 1 /\ l >= 1
        /\ Len(s) \in Nat /\ Len(u) \in Nat /\ l <= Len(u)
    BY <1>1
  <1>5. CASE k < l
    <2>1. k \in DOMAIN u /\ k \in 1 .. l - 1 /\ \A j \in 1 .. k - 1 : j \in 1 .. l - 1
      <3>1. k \in 1 .. Len(u) /\ k \in 1 .. l - 1 /\ \A j \in 1 .. k - 1 : j \in 1 .. l - 1
        BY <1>4, <1>5
      <3> QED BY <1>1, <3>1
    <2>2. t[k] = u[k] /\ \A j \in 1 .. k - 1 : s[j] = u[j]
      BY <1>2, <1>3, <2>1
    <2> QED BY <1>2, <2>1, <2>2 DEF Precedes
  <1>6. CASE k = l
    <2>1. t[k] < u[k] /\ k \in DOMAIN u
      BY <1>1, <1>3, <1>6
    <2>2. k \in DOMAIN s /\ s[k] < t[k] => s[k] < u[k]
      BY <1>1, <2>1
    <2>3. \A j \in 1 .. k - 1 : s[j] = u[j]
      BY <1>2, <1>3, <1>6
    <2> QED BY <1>2, <2>1, <2>2, <2>3 DEF Precedes
  <1>7. CASE l < k
    <2>1. l \in DOMAIN t /\ t[l] < u[l]
      BY <1>1, <1>3, <1>4, <1>7
    <2>2. l \in DOMAIN s /\ l \in 1 .. k - 1 /\ \A j \in 1 .. l - 1 : j \in 1 .. k - 1
      <3>1. k <= Len(s) + 1
        BY <1>1, <1>2
      <3>2. l \in 1 .. Len(s) /\ l \in 1 .. k - 1
        BY <1>4, <1>7, <3>1
      <3>3. \A j \in 1 .. l - 1 : j \in 1 .. k - 1
        BY <1>4, <1>7
      <3> QED BY <1>1, <3>2, <3>3
    <2>3. s[l] = t[l] /\ \A j \in 1 .. l - 1 : s[j] = u[j]
      BY <1>2, <1>3, <2>2
    <2>4. s[l] < u[l]
      BY <2>1, <2>3
    <2> QED BY <2>2, <2>3, <2>4 DEF Precedes
  <1> QED BY <1>4, <1>5, <1>6, <1>7

\* Of two keys one precedes the other: the one that is less, or has ended, at the
\* first place where they differ.
LEMMA PrecedesTotal ==
  ASSUME NEW s \in Seq(Int), NEW t \in Seq(Int), s # t
  PROVE  Precedes(s, t) \/ Precedes(t, s)
  <1>1. /\ Len(s) \in Nat /\ DOMAIN s = 1 .. Len(s) /\ \A k \in DOMAIN s : s[k] \in Int
        /\ Len(t) \in Nat /\ DOMAIN t = 1 .. Len(t) /\ \A k \in DOMAIN t : t[k] \in Int
    BY ListFacts
  <1> DEFINE differ == {k \in DOMAIN s \cup DOMAIN t : ~(k \in DOMAIN s \cap DOMAIN t /\ s[k] = t[k])}
  <1>2. differ # {}
    <2> SUFFICES ASSUME differ = {} PROVE FALSE
      OBVIOUS
    <2>1. \A k \in DOMAIN s \cup DOMAIN t : k \in DOMAIN s \cap DOMAIN t /\ s[k] = t[k]
      OBVIOUS
    <2>2. DOMAIN s = DOMAIN t /\ \A k \in DOMAIN s : s[k] = t[k]
      BY <2>1
    <2>3. Len(s) = Len(t)
      <3>1. \A k \in Nat : k \in 1 .. Len(s) <=> k \in 1 .. Len(t)
        BY <1>1, <2>2
      <3>2. Len(s) <= Len(t)
        BY <1>1, <3>1
      <3>3. Len(t) <= Len(s)
        BY <1>1, <3>1
      <3>4. Len(s) \in Nat /\ Len(t) \in Nat
        BY <1>1
      <3> QED BY <3>2, <3>3, <3>4
    <2>4. \A k \in 1 .. Len(s) : s[k] = t[k]
      BY <1>1, <2>2
    <2>5. s = t
      BY <2>3, <2>4, SeqEqual, SMTT(30)
    <2> QED BY <2>5
  <1>3. differ \subseteq Nat
    BY <1>1
  <1>4. PICK k \in differ : \A j \in differ : k <= j
    BY <1>2, <1>3, Least
  <1>5. k \in Nat /\ k >= 1 /\ (k \in DOMAIN s \/ k \in DOMAIN t)
    BY <1>1
  <1>6. \A j \in 1 .. k - 1 : j \in DOMAIN s \cup DOMAIN t
    BY <1>1, <1>5
  <1>7. \A j \in 1 .. k - 1 : j \notin differ
    <2>1. \A j \in 1 .. k - 1 : ~(k <= j)
      BY <1>5
    <2> QED BY <1>4, <2>1
  <1>8. \A j \in 1 .. k - 1 : j \in DOMAIN s /\ j \in DOMAIN t /\ s[j] = t[j]
    BY <1>6, <1>7
  <1>9. ~(k \in DOMAIN s /\ k \in DOMAIN t /\ s[k] = t[k])
    OBVIOUS
  <1> HIDE DEF differ
  <1>10. CASE k \notin DOMAIN s
    <2>1. k = Len(s) + 1
      <3>1. CASE k = 1
        BY <1>1, <1>10, <3>1
      <3>2. CASE k # 1
        <4>1. k - 1 \in 1 .. k - 1
          BY <1>5, <3>2
        <4>2. k - 1 \in DOMAIN s
          BY <1>8, <4>1
        <4> QED BY <1>1, <1>5, <1>10, <4>2
      <3> QED BY <3>1, <3>2
    <2> QED BY <1>5, <1>8, <1>10, <2>1 DEF Precedes
  <1>11. CASE k \notin DOMAIN t
    <2>1. k = Len(t) + 1
      <3>1. CASE k = 1
        BY <1>1, <1>11, <3>1
      <3>2. CASE k # 1
        <4>1. k - 1 \in 1 .. k - 1
          BY <1>5, <3>2
        <4>2. k - 1 \in DOMAIN t
          BY <1>8, <4>1
        <4> QED BY <1>1, <1>5, <1>11, <4>2
      <3> QED BY <3>1, <3>2
    <2> QED BY <1>5, <1>8, <1>11, <2>1 DEF Precedes
  <1>12. CASE k \in DOMAIN s /\ k \in DOMAIN t
    <2>1. s[k] < t[k] \/ t[k] < s[k]
      BY <1>1, <1>9, <1>12
    <2> QED BY <1>8, <1>12, <2>1 DEF Precedes
  <1> QED BY <1>10, <1>11, <1>12

\* A rule's place in the order of their IDs.
LEMMA Alphabetical ==
  ASSUME NEW r \in RuleIDs
  PROVE  LET k == CHOOSE k \in DOMAIN Alphabet : Alphabet[k] = r
         IN  k \in Nat /\ Alphabet[k] = r
  <1>1. \E k \in DOMAIN Alphabet : Alphabet[k] = r
    BY DEF RuleIDs, ToSet
  <1>2. DOMAIN Alphabet \subseteq Nat
    <2>1. DOMAIN Alphabet = 1 .. 17
      BY DEF Alphabet
    <2> QED BY <2>1
  <1> HIDE DEF Alphabet
  <1> QED BY <1>1, <1>2

\* The key of an issue tells all of it.
LEMMA KeyOfIssue ==
  /\ \A i \in IssueType : SortKey(i) \in Seq(Int)
  /\ \A i, j \in IssueType : SortKey(i) = SortKey(j) => i = j
  <1> DEFINE absent(x) == IF x = 0 THEN 1 ELSE 0
             rank(i) == CHOOSE k \in DOMAIN Alphabet : Alphabet[k] = i.rule
             head(i) == <<Priority[i.severity], rank(i), absent(i.line), i.line,
                          absent(i.column), i.column, absent(i.context), i.context>>
  <1>1. ASSUME NEW i \in IssueType
        PROVE  /\ head(i) \in Seq(Int) /\ Len(head(i)) = 8 /\ i.message \in Seq(Int)
               /\ SortKey(i) = head(i) \o i.message
    <2>1. /\ i.rule \in RuleIDs /\ i.severity \in Severities
          /\ i.line \in Nat /\ i.column \in Nat /\ i.context \in {0, 1}
      BY DEF IssueType
    <2>2. rank(i) \in Int
      <3> HIDE DEF rank
      <3> QED BY <2>1, Alphabetical DEF rank
    <2>3. Priority[i.severity] \in Int
      BY <2>1 DEF Priority, Severities
    <2>4. /\ absent(i.line) \in Int /\ absent(i.column) \in Int /\ absent(i.context) \in Int
          /\ i.line \in Int /\ i.column \in Int /\ i.context \in Int
      BY <2>1
    <2>5. i.message \in Seq(Int)
      BY DEF IssueType
    <2>6. SortKey(i) = head(i) \o i.message
      BY DEF SortKey
    <2> HIDE DEF rank, absent
    <2> QED BY <2>2, <2>3, <2>4, <2>5, <2>6
  <1>2. ASSUME NEW i \in IssueType, NEW j \in IssueType, SortKey(i) = SortKey(j)
        PROVE  i = j
    <2> DEFINE a == head(i)
               b == head(j)
               m == i.message
               n == j.message
    <2>1. /\ a \in Seq(Int) /\ Len(a) = 8 /\ b \in Seq(Int) /\ Len(b) = 8
          /\ m \in Seq(Int) /\ n \in Seq(Int) /\ a \o m = b \o n
      BY <1>1, <1>2
    <2>2. ASSUME \A k \in 1 .. 8 : a[k] = b[k], m = n
          PROVE  i = j
      <3>1. /\ a[1] = Priority[i.severity] /\ b[1] = Priority[j.severity]
            /\ a[2] = rank(i) /\ b[2] = rank(j)
            /\ a[4] = i.line /\ b[4] = j.line
            /\ a[6] = i.column /\ b[6] = j.column
            /\ a[8] = i.context /\ b[8] = j.context
        OBVIOUS
      <3> HIDE DEF a, b
      <3>2. /\ Priority[i.severity] = Priority[j.severity] /\ i.line = j.line
            /\ i.column = j.column /\ i.context = j.context
        BY <2>2, <3>1
      <3>3. rank(i) = rank(j)
        <4> HIDE DEF rank
        <4> QED BY <2>2, <3>1
      <3>4. i.rule = j.rule
        <4>1. i.rule \in RuleIDs /\ j.rule \in RuleIDs
          BY DEF IssueType
        <4>2. Alphabet[rank(i)] = i.rule /\ Alphabet[rank(j)] = j.rule
          BY <4>1, Alphabetical
        <4> QED BY <3>3, <4>2
      <3>5. i.severity = j.severity
        <4>1. i.severity \in Severities /\ j.severity \in Severities
          BY DEF IssueType
        <4> QED BY <3>2, <4>1 DEF Priority, Severities
      <3>6. i.message = j.message
        BY <2>2
      <3>7. /\ i = [rule |-> i.rule, severity |-> i.severity, line |-> i.line,
                    column |-> i.column, context |-> i.context, message |-> i.message]
            /\ j = [rule |-> j.rule, severity |-> j.severity, line |-> j.line,
                    column |-> j.column, context |-> j.context, message |-> j.message]
        BY DEF IssueType
      <3> QED BY <3>2, <3>4, <3>5, <3>6, <3>7
    <2> HIDE DEF a, b, m, n
    <2> DEFINE c == a \o m
               d == b \o n
    <2>3. /\ Len(m) \in Nat /\ Len(n) \in Nat
          /\ Len(c) = 8 + Len(m) /\ Len(d) = 8 + Len(n)
          /\ \A k \in 1 .. 8 + Len(m) : c[k] = IF k <= 8 THEN a[k] ELSE m[k - 8]
          /\ \A k \in 1 .. 8 + Len(n) : d[k] = IF k <= 8 THEN b[k] ELSE n[k - 8]
      <3>1. Len(m) \in Nat /\ Len(n) \in Nat
        BY <2>1, LenProperties
      <3>2. /\ Len(c) = Len(a) + Len(m)
            /\ \A k \in 1 .. Len(a) + Len(m) : c[k] = IF k <= Len(a) THEN a[k] ELSE m[k - Len(a)]
        BY <2>1, ConcatProperties
      <3>3. /\ Len(d) = Len(b) + Len(n)
            /\ \A k \in 1 .. Len(b) + Len(n) : d[k] = IF k <= Len(b) THEN b[k] ELSE n[k - Len(b)]
        BY <2>1, ConcatProperties
      <3> HIDE DEF c, d
      <3> QED BY <2>1, <3>1, <3>2, <3>3
    <2>4. c = d
      BY <2>1
    <2> HIDE DEF c, d
    <2>5. Len(m) = Len(n) /\ \A k \in 1 .. 8 : a[k] = b[k]
      BY <2>3, <2>4
    <2>6. ASSUME NEW k \in 1 .. Len(m) PROVE m[k] = n[k]
      <3>1. k + 8 \in 1 .. 8 + Len(m) /\ ~(k + 8 <= 8) /\ (k + 8) - 8 = k
        BY <2>3
      <3>2. c[k + 8] = m[k]
        BY <2>3, <3>1
      <3>3. k + 8 \in 1 .. 8 + Len(n)
        BY <2>5, <3>1
      <3>4. d[k + 8] = n[k]
        BY <2>3, <3>1, <3>3
      <3> QED BY <2>4, <3>2, <3>4
    <2>7. m = n
      BY <2>1, <2>5, <2>6, SeqEqual
    <2> QED BY <2>2, <2>5, <2>7
  <1>3. ASSUME NEW i \in IssueType PROVE SortKey(i) \in Seq(Int)
    <2> HIDE DEF head
    <2> QED BY <1>1, ConcatProperties
  <1> QED BY <1>2, <1>3

\* A total order, as a set of pairs, and what comes up to an element.
TotalOrder(K, order) ==
  /\ \A i \in K : <<i, i>> \in order
  /\ \A i, j \in K : <<i, j>> \in order /\ <<j, i>> \in order => i = j
  /\ \A i, j, l \in K : <<i, j>> \in order /\ <<j, l>> \in order => <<i, l>> \in order
  /\ \A i, j \in K : <<i, j>> \in order \/ <<j, i>> \in order
UpTo(K, order, i) == {j \in K : <<j, i>> \in order}

\* The elements of a finite set that is totally ordered have the ranks from 1 on, in
\* their order.
LEMMA OrderRanks ==
  ASSUME NEW K, IsFiniteSet(K), NEW order, TotalOrder(K, order),
         NEW rank, \A i \in K : rank[i] = Cardinality(UpTo(K, order, i))
  PROVE  /\ \A i \in K : rank[i] \in 1 .. Cardinality(K)
         /\ \A i, j \in K : <<i, j>> \in order /\ i # j => rank[i] < rank[j]
         /\ \A i, j \in K : rank[i] = rank[j] => i = j
         /\ \A m \in 1 .. Cardinality(K) : \E i \in K : rank[i] = m
  <1>1. Cardinality(K) \in Nat
    BY FS_CardinalityType
  <1>2. ASSUME NEW i \in K
        PROVE  /\ UpTo(K, order, i) \in SUBSET K /\ i \in UpTo(K, order, i)
               /\ IsFiniteSet(UpTo(K, order, i)) /\ rank[i] \in Nat
    <2>1. UpTo(K, order, i) \in SUBSET K /\ i \in UpTo(K, order, i)
      BY DEF UpTo, TotalOrder
    <2>2. IsFiniteSet(UpTo(K, order, i)) /\ Cardinality(UpTo(K, order, i)) \in Nat
      BY <2>1, FS_Subset, FS_CardinalityType
    <2> QED BY <2>1, <2>2
  <1>3. ASSUME NEW i \in K PROVE rank[i] \in 1 .. Cardinality(K)
    <2>1. Cardinality(UpTo(K, order, i)) # 0
      BY <1>2, FS_EmptySet
    <2>2. Cardinality(UpTo(K, order, i)) <= Cardinality(K)
      BY <1>2, FS_Subset
    <2>3. rank[i] \in Nat /\ rank[i] # 0 /\ rank[i] <= Cardinality(K)
      BY <1>2, <2>1, <2>2
    <2> QED BY <1>1, <2>3
  <1>4. ASSUME NEW i \in K, NEW j \in K, <<i, j>> \in order, i # j PROVE rank[i] < rank[j]
    <2>1. /\ UpTo(K, order, i) \in SUBSET UpTo(K, order, j)
          /\ j \in UpTo(K, order, j) /\ j \notin UpTo(K, order, i)
      BY <1>4 DEF UpTo, TotalOrder
    <2>2. /\ Cardinality(UpTo(K, order, i)) <= Cardinality(UpTo(K, order, j))
          /\ Cardinality(UpTo(K, order, i)) # Cardinality(UpTo(K, order, j))
      BY <1>2, <2>1, FS_Subset
    <2>3. rank[i] \in Nat /\ rank[j] \in Nat /\ rank[i] <= rank[j] /\ rank[i] # rank[j]
      BY <1>2, <2>2
    <2> QED BY <2>3
  <1>5. ASSUME NEW i \in K, NEW j \in K, rank[i] = rank[j] PROVE i = j
    <2>1. ~(rank[i] < rank[j]) /\ ~(rank[j] < rank[i])
      BY <1>2, <1>5
    <2>2. <<i, j>> \in order \/ <<j, i>> \in order
      BY DEF TotalOrder
    <2> QED BY <1>4, <2>1, <2>2
  <1> DEFINE f == [i \in K |-> rank[i]]
  <1>6. f \in Injection(K, 1 .. Cardinality(K))
    BY <1>3, <1>5 DEF Injection, IsInjective
  <1>7. IsFiniteSet(1 .. Cardinality(K)) /\ Cardinality(1 .. Cardinality(K)) = Cardinality(K)
    BY <1>1, FS_Interval, SMTT(30)
  <1>8. f \in Surjection(K, 1 .. Cardinality(K))
    BY <1>6, <1>7, FS_Injection
  <1>9. \A m \in 1 .. Cardinality(K) : \E i \in K : rank[i] = m
    BY <1>8 DEF Surjection
  <1> QED BY <1>3, <1>4, <1>5, <1>9

\* sortIssues returns the same issues, each before those that its key precedes and
\* those that equal it.
LEMMA IssuesSorted ==
  ASSUME NEW issues \in Seq(IssueType)
  PROVE  LET sorted == SortIssues(issues) IN
         /\ sorted \in Seq(IssueType) /\ ToSet(sorted) = ToSet(issues)
         /\ \A m, n \in DOMAIN sorted :
              m < n => sorted[m] = sorted[n] \/ Precedes(SortKey(sorted[m]), SortKey(sorted[n]))
  <1> DEFINE K == DOMAIN issues
             keys == [i \in K |-> SortKey(issues[i])]
             before(j, i) == Precedes(keys[j], keys[i]) \/ (keys[j] = keys[i] /\ j <= i)
             order == {p \in K \X K : before(p[1], p[2])}
             rank == [i \in K |-> Cardinality({j \in K : before(j, i)})]
             place == [n \in K |-> CHOOSE i \in K : rank[i] = n]
             sorted == SortIssues(issues)
  <1>1. Len(issues) \in Nat /\ K = 1 .. Len(issues) /\ \A i \in K : issues[i] \in IssueType /\ i \in Nat
    BY ListFacts
  <1>2. IsFiniteSet(K) /\ Cardinality(K) = Len(issues)
    BY <1>1, FS_Interval, SMTT(30)
  <1>3. \A i \in K : keys[i] \in Seq(Int)
    BY <1>1, KeyOfIssue
  <1>4. \A i, j \in K : keys[i] = keys[j] => issues[i] = issues[j]
    BY <1>1, KeyOfIssue
  <1>5. sorted = [n \in K |-> issues[place[n]]]
    BY DEF SortIssues
  <1>6. \A i, j \in K : <<i, j>> \in order <=> before(i, j)
    OBVIOUS
  <1> HIDE DEF K, keys, sorted
  <1>7. \A i \in K : before(i, i)
    BY <1>1
  <1>8. ASSUME NEW i \in K, NEW j \in K, before(i, j), before(j, i) PROVE i = j
    <2>1. keys[i] \in Seq(Int) /\ keys[j] \in Seq(Int) /\ i \in Nat /\ j \in Nat
      BY <1>1, <1>3
    <2>2. ~(Precedes(keys[i], keys[j]) /\ Precedes(keys[j], keys[i]))
      BY <2>1, PrecedesTransitive, PrecedesIrreflexive
    <2>3. keys[i] = keys[j] => ~Precedes(keys[i], keys[j]) /\ ~Precedes(keys[j], keys[i])
      BY <2>1, PrecedesIrreflexive
    <2>4. i <= j /\ j <= i
      BY <1>8, <2>2, <2>3
    <2> QED BY <2>1, <2>4
  <1>9. ASSUME NEW i \in K, NEW j \in K, NEW l \in K, before(i, j), before(j, l) PROVE before(i, l)
    <2>1. /\ keys[i] \in Seq(Int) /\ keys[j] \in Seq(Int) /\ keys[l] \in Seq(Int)
          /\ i \in Nat /\ j \in Nat /\ l \in Nat
      BY <1>1, <1>3
    <2>2. Precedes(keys[i], keys[j]) /\ Precedes(keys[j], keys[l]) => Precedes(keys[i], keys[l])
      BY <2>1, PrecedesTransitive
    <2>3. i <= j /\ j <= l => i <= l
      BY <2>1
    <2> QED BY <1>9, <2>2, <2>3
  <1>10. ASSUME NEW i \in K, NEW j \in K PROVE before(i, j) \/ before(j, i)
    <2>1. keys[i] \in Seq(Int) /\ keys[j] \in Seq(Int) /\ i \in Nat /\ j \in Nat
      BY <1>1, <1>3
    <2>2. i <= j \/ j <= i
      BY <2>1
    <2>3. keys[i] # keys[j] => Precedes(keys[i], keys[j]) \/ Precedes(keys[j], keys[i])
      BY <2>1, PrecedesTotal
    <2> QED BY <2>2, <2>3
  <1>11. \A i \in K : rank[i] = Cardinality(UpTo(K, order, i))
    <2>1. \A i \in K : {j \in K : before(j, i)} = UpTo(K, order, i)
      BY <1>6 DEF UpTo
    <2> QED BY <2>1
  <1> HIDE DEF order, rank
  <1>12. /\ \A i \in K : rank[i] \in 1 .. Len(issues)
         /\ \A i, j \in K : before(i, j) /\ i # j => rank[i] < rank[j]
         /\ \A i, j \in K : rank[i] = rank[j] => i = j
         /\ \A m \in 1 .. Len(issues) : \E i \in K : rank[i] = m
    <2>1. TotalOrder(K, order)
      <3> HIDE DEF before
      <3> QED BY <1>6, <1>7, <1>8, <1>9, <1>10 DEF TotalOrder
    <2> HIDE DEF before
    <2>2. /\ \A i \in K : rank[i] \in 1 .. Cardinality(K)
          /\ \A i, j \in K : <<i, j>> \in order /\ i # j => rank[i] < rank[j]
          /\ \A i, j \in K : rank[i] = rank[j] => i = j
          /\ \A m \in 1 .. Cardinality(K) : \E i \in K : rank[i] = m
      BY <1>2, <1>11, <2>1, OrderRanks
    <2> QED BY <1>2, <1>6, <2>2
  <1>13. \A n \in K : place[n] \in K /\ rank[place[n]] = n
    BY <1>1, <1>12
  <1>14. \A i \in K : rank[i] \in K /\ place[rank[i]] = i
    BY <1>1, <1>12, <1>13
  <1> HIDE DEF place
  <1>15. DOMAIN sorted = K /\ \A n \in K : sorted[n] = issues[place[n]]
    BY <1>5
  <1>16. sorted \in Seq(IssueType)
    BY <1>1, <1>5, <1>13
  <1>17. ToSet(sorted) = ToSet(issues)
    <2>1. ASSUME NEW x \in ToSet(sorted) PROVE x \in ToSet(issues)
      <3>1. PICK n \in K : sorted[n] = x
        BY <1>15 DEF ToSet
      <3> QED BY <1>13, <1>15, <3>1 DEF ToSet, K
    <2>2. ASSUME NEW x \in ToSet(issues) PROVE x \in ToSet(sorted)
      <3>1. PICK i \in K : issues[i] = x
        BY DEF ToSet, K
      <3>2. sorted[rank[i]] = x /\ rank[i] \in DOMAIN sorted
        BY <1>14, <1>15, <3>1
      <3> QED BY <3>2 DEF ToSet
    <2> QED BY <2>1, <2>2
  <1>18. ASSUME NEW m \in K, NEW n \in K, m < n
         PROVE  sorted[m] = sorted[n] \/ Precedes(SortKey(sorted[m]), SortKey(sorted[n]))
    <2> DEFINE i == place[m]
               j == place[n]
    <2>1. i \in K /\ j \in K /\ rank[i] = m /\ rank[j] = n /\ m \in Nat /\ n \in Nat
      BY <1>1, <1>13
    <2> HIDE DEF i, j
    <2>2. ~before(j, i)
      <3> HIDE DEF before
      <3>1. i # j /\ ~(rank[j] < rank[i])
        BY <1>18, <2>1
      <3> QED BY <1>12, <2>1, <3>1
    <2>3. before(i, j)
      BY <1>10, <2>1, <2>2
    <2>4. keys[i] = keys[j] \/ Precedes(keys[i], keys[j])
      BY <2>3
    <2>5. keys[i] = SortKey(issues[i]) /\ keys[j] = SortKey(issues[j])
      BY <2>1 DEF keys
    <2>6. sorted[m] = issues[i] /\ sorted[n] = issues[j]
      BY <1>15 DEF i, j
    <2> QED BY <1>4, <2>1, <2>4, <2>5, <2>6
  <1> QED BY <1>15, <1>16, <1>17, <1>18 DEF sorted

\* In a sorted list dedupeIssues leaves every issue once.
LEMMA IssuesOnce ==
  ASSUME NEW list \in Seq(IssueType),
         \A m, n \in DOMAIN list :
           m < n => list[m] = list[n] \/ Precedes(SortKey(list[m]), SortKey(list[n]))
  PROVE  LET new == DedupeIssues(list) IN
         /\ new \in Seq(IssueType) /\ ToSet(new) = ToSet(list)
         /\ \A m, n \in DOMAIN new : m < n => Precedes(SortKey(new[m]), SortKey(new[n]))
  <1> DEFINE new == DedupeIssues(list)
             firsts == {k \in DOMAIN list : k = 1 \/ list[k - 1] # list[k]}
  <1>1. Len(list) \in Nat /\ DOMAIN list = 1 .. Len(list) /\ \A k \in DOMAIN list : list[k] \in IssueType
    BY ListFacts
  <1>2. new = PartAt(list, firsts) /\ firsts \in SUBSET (DOMAIN list)
    BY DEF DedupeIssues
  <1>3. \A k \in DOMAIN list : k \in firsts <=> k = 1 \/ list[k - 1] # list[k]
    OBVIOUS
  <1> HIDE DEF new, firsts
  <1>4. new \in Seq(IssueType)
    BY <1>2, PartPlaces
  <1>5. PICK place \in [DOMAIN new -> DOMAIN list] :
          /\ \A n \in DOMAIN new : new[n] = list[place[n]] /\ place[n] \in firsts
          /\ \A i \in firsts : \E n \in DOMAIN new : place[n] = i
          /\ \A m, n \in DOMAIN new : m < n => place[m] < place[n]
    BY <1>2, PartPlaces, SMTT(60)
  <1>6. ToSet(new) \subseteq ToSet(list)
    BY <1>5 DEF ToSet
  <1>7. ASSUME NEW x \in ToSet(list) PROVE x \in ToSet(new)
    <2> DEFINE at == {k \in DOMAIN list : list[k] = x}
    <2>1. at # {} /\ at \subseteq Nat
      BY <1>1 DEF ToSet
    <2>2. PICK k \in at : \A l \in at : k <= l
      BY <2>1, Least
    <2>3. k \in firsts
      <3>1. CASE k = 1
        BY <1>3, <3>1
      <3>2. CASE k # 1
        <4>1. k - 1 \in DOMAIN list /\ ~(k <= k - 1)
          BY <1>1, <3>2
        <4>2. list[k - 1] # x
          BY <2>2, <4>1
        <4> QED BY <1>3, <4>2
      <3> QED BY <3>1, <3>2
    <2>4. PICK n \in DOMAIN new : place[n] = k
      BY <1>5, <2>3
    <2>5. new[n] = x
      BY <1>5, <2>4
    <2> QED BY <2>5 DEF ToSet
  <1>8. ASSUME NEW m \in DOMAIN new, NEW n \in DOMAIN new, m < n
        PROVE  Precedes(SortKey(new[m]), SortKey(new[n]))
    <2> DEFINE p == place[m]
               q == place[n]
    <2>1. p \in DOMAIN list /\ q \in firsts /\ q \in DOMAIN list /\ p < q
      BY <1>2, <1>5, <1>8
    <2>2. new[m] = list[p] /\ new[n] = list[q]
      BY <1>5
    <2> HIDE DEF p, q
    <2>3. q - 1 \in DOMAIN list /\ p <= q - 1 /\ q - 1 < q /\ q # 1 /\ (p = q - 1 \/ p < q - 1)
      BY <1>1, <2>1
    <2>4. list[q - 1] # list[q]
      BY <1>3, <2>1, <2>3
    <2>5. Precedes(SortKey(list[q - 1]), SortKey(list[q]))
      BY <2>1, <2>3, <2>4
    <2>6. list[p] = list[q - 1] \/ Precedes(SortKey(list[p]), SortKey(list[q - 1]))
      BY <2>1, <2>3
    <2>7. /\ SortKey(list[p]) \in Seq(Int) /\ SortKey(list[q]) \in Seq(Int)
          /\ SortKey(list[q - 1]) \in Seq(Int)
      BY <1>1, <2>1, <2>3, KeyOfIssue
    <2>8. Precedes(SortKey(list[p]), SortKey(list[q]))
      BY <2>5, <2>6, <2>7, PrecedesTransitive
    <2> QED BY <2>2, <2>8
  <1> QED BY <1>4, <1>6, <1>7, <1>8 DEF new

\* What is hidden is not returned, and all else is.
LEMMA IssuesReturned ==
  ASSUME NEW d, NEW issues \in Seq(IssueType)
  PROVE  LET new == Returned(d, issues) IN
         /\ new \in Seq(IssueType)
         /\ \A m, n \in DOMAIN new : m < n => Precedes(SortKey(new[m]), SortKey(new[n]))
         /\ d.family # "unknown" =>
              ToSet(new) = {i \in ToSet(issues) : ~IsSuppressed(d, i) /\ ~IssueMatchesAnySelector(d, i)}
  <1> DEFINE new == Returned(d, issues)
             shown == {k \in DOMAIN issues : /\ ~IsSuppressed(d, issues[k])
                                             /\ ~IssueMatchesAnySelector(d, issues[k])}
             kept == PartAt(issues, shown)
  <1>1. CASE d.family = "unknown"
    <2> DEFINE i == [rule |-> "unsupported-diagram-type", severity |-> "info", line |-> 0,
                     column |-> 0, context |-> 0, message |-> <<>>]
    <2>1. new = <<i>>
      BY <1>1 DEF Returned
    <2>2. i \in IssueType
      <3>1. "unsupported-diagram-type" \in RuleIDs
        <4>1. 17 \in DOMAIN Alphabet /\ Alphabet[17] = "unsupported-diagram-type"
          BY DEF Alphabet
        <4> HIDE DEF Alphabet
        <4> QED BY <4>1 DEF RuleIDs, ToSet
      <3> QED BY <3>1 DEF IssueType, Severities
    <2> HIDE DEF i, new
    <2>3. new \in Seq(IssueType) /\ DOMAIN new = {1}
      BY <2>1, <2>2
    <2> QED BY <1>1, <2>3 DEF new
  <1>2. CASE d.family # "unknown"
    <2>1. new = DedupeIssues(SortIssues(kept)) /\ shown \in SUBSET (DOMAIN issues)
      BY <1>2 DEF Returned
    <2>2. \A k \in DOMAIN issues : k \in shown <=>
            ~IsSuppressed(d, issues[k]) /\ ~IssueMatchesAnySelector(d, issues[k])
      OBVIOUS
    <2> HIDE DEF shown
    <2>3. kept \in Seq(IssueType)
      BY <2>1, PartPlaces
    <2>4. PICK place \in [DOMAIN kept -> DOMAIN issues] :
            /\ \A n \in DOMAIN kept : kept[n] = issues[place[n]] /\ place[n] \in shown
            /\ \A i \in shown : \E n \in DOMAIN kept : place[n] = i
            /\ \A m, n \in DOMAIN kept : m < n => place[m] < place[n]
      BY <2>1, PartPlaces, SMTT(60)
    <2> HIDE DEF kept, new
    <2>5. ToSet(kept) = {i \in ToSet(issues) : ~IsSuppressed(d, i) /\ ~IssueMatchesAnySelector(d, i)}
      <3>1. ASSUME NEW x \in ToSet(kept)
            PROVE  x \in ToSet(issues) /\ ~IsSuppressed(d, x) /\ ~IssueMatchesAnySelector(d, x)
        BY <2>1, <2>2, <2>4 DEF ToSet
      <3>2. ASSUME NEW x \in ToSet(issues), ~IsSuppressed(d, x), ~IssueMatchesAnySelector(d, x)
            PROVE  x \in ToSet(kept)
        <4>1. PICK k \in DOMAIN issues : issues[k] = x
          BY DEF ToSet
        <4>2. k \in shown
          BY <2>2, <3>2, <4>1
        <4>3. PICK n \in DOMAIN kept : place[n] = k
          BY <2>4, <4>2
        <4> QED BY <2>4, <4>1, <4>3 DEF ToSet
      <3> QED BY <3>1, <3>2
    <2> DEFINE sorted == SortIssues(kept)
    <2>6. /\ sorted \in Seq(IssueType) /\ ToSet(sorted) = ToSet(kept)
          /\ \A m, n \in DOMAIN sorted :
               m < n => sorted[m] = sorted[n] \/ Precedes(SortKey(sorted[m]), SortKey(sorted[n]))
      BY <2>3, IssuesSorted
    <2> HIDE DEF sorted
    <2>7. new = DedupeIssues(sorted)
      BY <2>1 DEF sorted
    <2>8. /\ new \in Seq(IssueType) /\ ToSet(new) = ToSet(sorted)
          /\ \A m, n \in DOMAIN new : m < n => Precedes(SortKey(new[m]), SortKey(new[n]))
      BY <2>6, <2>7, IssuesOnce
    <2> QED BY <2>5, <2>6, <2>8 DEF new
  <1> QED BY <1>1, <1>2

-----------------------------------------------------------------------------
(* What is hidden.                                                           *)

\* What NormalizeConfig accepts is valid.
LEMMA NormalizedValid ==
  ASSUME NEW cfg, NEW n \in NormalizeConfig(cfg), n.error = "", NEW r \in DOMAIN n.config
  PROVE  ValidOptions(n.config[r])
  <1> DEFINE rules == RulesOf(cfg)
             choices == [q \in rules |-> Merged(cfg, q)]
  <1>1. n \in IF "" \in rules THEN {Refused("invalid_config")}
              ELSE {IF \A q \in rules : ValidOptions(f[q]) THEN Accepted(f, {})
                    ELSE Refused("invalid_config") : f \in Picks(choices)}
    BY DEF NormalizeConfig, RulesOf
  <1> HIDE DEF rules
  <1>2. Refused("invalid_config").error # "" /\ \A f : Accepted(f, {}).config = f
    BY DEF Refused, Accepted
  <1>3. PICK f \in Picks(choices) : n = Accepted(f, {}) /\ \A q \in rules : ValidOptions(f[q])
    <2> HIDE DEF choices
    <2> QED BY <1>1, <1>2
  <1>4. DOMAIN f = rules
    BY DEF Picks
  <1> QED BY <1>2, <1>3, <1>4

SelectorsRead(options) == \A k \in DOMAIN options.selectors : SelectorType(options.selectors[k])

\* The selectors in force are typed, since they are of the document and all of them
\* parsed as selectors.
LEMMA SelectorsInForce ==
  ASSUME NEW p, SelectorsTyped(p), NEW r, NEW options, ValidOptions(options),
         \A k \in DOMAIN options : <<k, options[k]>> \in Stated(Entries(p), r)
  PROVE  SelectorsRead(ReadOptions(options))
  <1> DEFINE name == "suppression-selectors"
             v == options[name]
             present == name \in DOMAIN options /\ v[1] = "array"
             selectors == IF present THEN v[2] ELSE <<>>
             mine == ReadOptions(options).selectors
  <1>1. mine = [i \in DOMAIN selectors |-> selectors[i][2]]
    BY DEF ReadOptions
  <1>2. CASE present
    <2>0. <<name, v>> \in Stated(Entries(p), r)
      BY <1>2
    <2>1. PICK e \in DOMAIN Entries(p) : \E x \in DOMAIN Entries(p)[e][2] :
            Entries(p)[e][1] = "object" /\ <<name, v>> = <<NormalizeMetaKey(x), Entries(p)[e][2][x]>>
      <3> HIDE DEF name, v
      <3> QED BY <2>0, StatedOptions
    <2>2. PICK x \in DOMAIN Entries(p)[e][2] :
            Entries(p)[e][1] = "object" /\ <<name, v>> = <<NormalizeMetaKey(x), Entries(p)[e][2][x]>>
      BY <2>1
    <2>3. \A s \in SelectorsOf(v) : SelectorType(s)
      BY <2>2 DEF SelectorsTyped
    <2>4. \A i \in DOMAIN v[2] : v[2][i][1] = "selector"
      BY <1>2 DEF ValidOptions, ValidSelectors
    <2>5. v[1] = "array" /\ selectors = v[2]
      BY <1>2
    <2> HIDE DEF mine, selectors, v
    <2>6. \A i \in DOMAIN v[2] : v[2][i][2] \in SelectorsOf(v)
      BY <2>4, <2>5 DEF SelectorsOf, ToSet
    <2>7. \A i \in DOMAIN mine : SelectorType(mine[i])
      BY <1>1, <2>3, <2>5, <2>6
    <2> QED BY <2>7 DEF SelectorsRead, mine
  <1>3. CASE ~present
    <2>1. selectors = <<>>
      BY <1>3
    <2>2. DOMAIN selectors = {}
      BY <2>1, EmptyMap
    <2> HIDE DEF mine, selectors
    <2>3. DOMAIN mine = {}
      BY <1>1, <2>2
    <2> QED BY <2>3 DEF SelectorsRead, mine
  <1> QED BY <1>2, <1>3

DirectivesTyped ==
  \A k \in DOMAIN diagram.directives :
    LET s == diagram.directives[k] IN
    /\ s.scope \in {"file", "next-line"} /\ (s.scope = "next-line" => s.targetLine > 0)

\* The nodes that are an issue's.
IsNodeOf(i, v) ==
  LET beside(n) == i.line # 0 /\ n.line = i.line IN
  \/ \E n \in ToSet(diagram.nodes) : beside(n) /\ n.id = v
  \/ /\ i.rule \in NodeRules /\ i.message[1] = v
     /\ \A n \in ToSet(diagram.nodes) : ~beside(n)

\* linkedNodeIDs finds them by the line, or else by the message.
LEMMA LinkedNodes ==
  ASSUME NEW i, NEW v
  PROVE  IsNodeOf(i, v) <=> v \in LinkedNodeIDs(diagram, i)
  <1> DEFINE nodes == diagram.nodes
             onLine == {k \in DOMAIN nodes : nodes[k].line # 0 /\ nodes[k].line = i.line}
             found == {nodes[k].id : k \in onLine}
             told == IF i.rule \in NodeRules THEN {i.message[1]} ELSE {}
  <1>1. v \in LinkedNodeIDs(diagram, i) <=> IF onLine # {} THEN v \in found ELSE v \in told
    BY DEF LinkedNodeIDs
  <1>2. v \in told <=> i.rule \in NodeRules /\ i.message[1] = v
    OBVIOUS
  <1>3. v \in found <=> \E n \in ToSet(nodes) : i.line # 0 /\ n.line = i.line /\ n.id = v
    BY DEF ToSet
  <1>4. onLine = {} <=> \A n \in ToSet(nodes) : ~(i.line # 0 /\ n.line = i.line)
    BY DEF ToSet
  <1>5. IsNodeOf(i, v) <=>
          \/ \E n \in ToSet(nodes) : i.line # 0 /\ n.line = i.line /\ n.id = v
          \/ /\ i.rule \in NodeRules /\ i.message[1] = v
             /\ \A n \in ToSet(nodes) : ~(i.line # 0 /\ n.line = i.line)
    BY DEF IsNodeOf
  <1>6. v \in found => onLine # {}
    OBVIOUS
  <1> HIDE DEF found, told, onLine, nodes
  <1> QED BY <1>1, <1>2, <1>3, <1>4, <1>5, <1>6

\* What the engine hides is what the comments and selectors cover.
LEMMA HiddenAsSaid ==
  ASSUME DirectivesTyped, \A r \in DOMAIN diagram.config : SelectorsRead(diagram.config[r]),
         NEW i \in IssueType
  PROVE  Hidden(i) <=> IsSuppressed(diagram, i) \/ IssueMatchesAnySelector(diagram, i)
  <1> DEFINE comment(s) == /\ s.rule = "all" \/ s.rule = i.rule
                           /\ s.scope = "file" \/ s.targetLine = i.line
                           /\ s.subgraph = 0 \/ s.subgraph = i.context
             suppresses(s) == /\ s.rule \in {"all", i.rule}
                              /\ s.scope = "next-line" => i.line # 0 /\ i.line = s.targetLine
                              /\ s.subgraph # 0 => i.context = s.subgraph
             selectors == OptionsOf(diagram, i.rule).selectors
             covers(s) == CASE s.prefix = "rule"     -> s.value = i.rule
                            [] s.prefix = "subgraph" -> s.value = i.context
                            [] s.prefix = "node"     -> IsNodeOf(i, s.value)
             exposed == /\ \E s \in ToSet(selectors) : ~s.negated /\ covers(s)
                        /\ \A s \in ToSet(selectors) : s.negated => ~covers(s)
             matching == {selectors[k] : k \in {j \in DOMAIN selectors : Matches(diagram, i, selectors[j])}}
  <1>1. ASSUME NEW k \in DOMAIN diagram.directives
        PROVE  comment(diagram.directives[k]) <=> suppresses(diagram.directives[k])
    <2> DEFINE s == diagram.directives[k]
    <2>1. /\ s.scope \in {"file", "next-line"} /\ (s.scope = "next-line" => s.targetLine # 0)
      BY DEF DirectivesTyped
    <2> HIDE DEF s
    <2>2. comment(s) <=> suppresses(s)
      BY <2>1
    <2> QED BY <2>2 DEF s
  <1>2. ASSUME NEW k \in DOMAIN selectors PROVE SelectorType(selectors[k])
    <2>1. CASE i.rule \in DOMAIN diagram.config
      BY <1>2, <2>1 DEF OptionsOf, SelectorsRead
    <2>2. CASE i.rule \notin DOMAIN diagram.config
      <3>1. selectors = <<>>
        BY <2>2 DEF OptionsOf, NoOptions
      <3> HIDE DEF selectors
      <3>2. DOMAIN selectors = {}
        BY <3>1, EmptyMap
      <3> QED BY <1>2, <3>2
    <2> QED BY <2>1, <2>2
  <1> HIDE DEF selectors
  <1>3. ASSUME NEW k \in DOMAIN selectors
        PROVE  /\ Matches(diagram, i, selectors[k]) <=> covers(selectors[k])
               /\ selectors[k].negated \in BOOLEAN
    <2> DEFINE s == selectors[k]
    <2>1. /\ s.negated \in BOOLEAN /\ s.prefix \in {"rule", "subgraph", "node"}
          /\ s.prefix = "subgraph" => s.value # 0
      BY <1>2 DEF SelectorType
    <2> HIDE DEF s
    <2>2. Matches(diagram, i, s) <=> covers(s)
      BY <2>1, LinkedNodes DEF Matches
    <2> QED BY <2>1, <2>2 DEF s
  <1>4. IssueMatchesAnySelector(diagram, i) <=>
          (\E s \in matching : ~s.negated) /\ ~ \E s \in matching : s.negated
    BY DEF IssueMatchesAnySelector, selectors
  <1>5. \A s : s \in matching <=> s \in ToSet(selectors) /\ covers(s)
    <2> HIDE DEF covers
    <2> QED BY <1>3 DEF ToSet
  <1>6. exposed <=> IssueMatchesAnySelector(diagram, i)
    <2> HIDE DEF covers, matching
    <2> QED BY <1>4, <1>5
  <1>7. IsSuppressed(diagram, i) <=> \E k \in DOMAIN diagram.directives : suppresses(diagram.directives[k])
    BY DEF IsSuppressed
  <1>8. Hidden(i) <=> (\E k \in DOMAIN diagram.directives : comment(diagram.directives[k])) \/ exposed
    BY DEF Hidden, SelectorsFor, IsNodeOf, selectors
  <1> HIDE DEF comment, suppresses, exposed
  <1> QED BY <1>1, <1>6, <1>7, <1>8

-----------------------------------------------------------------------------
(* The request.                                                              *)

\* A request is refused or ignored for good, or it is linted under the options that
\* it was configured with, whose selectors and comments hide issues.
RequestInv ==
  /\ diagram.request \in Submissions
  /\ {"request", "error", "warnings", "options", "config", "nodes", "succ", "directives"}
       \subseteq DOMAIN diagram
  /\ phase \in {"received", "refused", "ignored", "configured", "parsed", "linted"}
  /\ phase = "received" => diagram.error = ""
  /\ DirectivesTyped
  /\ phase \in {"configured", "parsed"} =>
       \A r \in DOMAIN diagram.config : SelectorsRead(diagram.config[r])
  /\ AcceptedConfigRuns
  /\ ConfigMeansDocument
  /\ OrderedOnce
  /\ HiddenExactly

\* It holds initially, since nothing has been read.
LEMMA ReceiveEstablishes == Receive => RequestInv
  <1> SUFFICES ASSUME Receive PROVE RequestInv
    OBVIOUS
  <1>1. PICK q \in Submissions, f \in Families \cup {"unknown"} :
          diagram = [family |-> f, request |-> q, nodes |-> <<>>, succ |-> <<>>,
                     directives |-> q.directives, subgraph |-> q.subgraph,
                     duplicates |-> q.duplicates, isolated |-> q.isolated,
                     starts |-> q.starts, error |-> "", warnings |-> {},
                     options |-> <<>>, config |-> <<>>]
    BY DEF Receive
  <1>2. /\ diagram.request = q /\ diagram.error = "" /\ diagram.directives = q.directives
        /\ {"request", "error", "warnings", "options", "config", "nodes", "succ", "directives"}
             \subseteq DOMAIN diagram
    BY <1>1
  <1>3. phase = "received"
    BY DEF Receive
  <1>4. AcceptedConfigRuns /\ ConfigMeansDocument
    BY <1>2, <1>3 DEF AcceptedConfigRuns, ConfigMeansDocument
  <1>5. DirectivesTyped
    <2>1. SubmissionType(q)
      BY SubmissionsTyped
    <2> DEFINE Directives == [rule : RuleIDs \cup {"all"}, scope : {"file", "next-line"},
                              targetLine : Nat, subgraph : {0, 1}]
    <2>2. /\ q.directives \in Seq(Directives)
          /\ \A k \in DOMAIN q.directives :
               q.directives[k].scope = "next-line" => q.directives[k].targetLine > 0
      BY <2>1 DEF SubmissionType
    <2>3. \A k \in DOMAIN q.directives : q.directives[k].scope \in {"file", "next-line"}
      <3>1. \A s \in Directives : s.scope \in {"file", "next-line"}
        OBVIOUS
      <3> HIDE DEF Directives
      <3> QED BY <2>2, <3>1, ListFacts
    <2> QED BY <1>2, <2>2, <2>3 DEF DirectivesTyped
  <1>6. OrderedOnce /\ HiddenExactly
    BY <1>3 DEF OrderedOnce, HiddenExactly, Done
  <1> QED BY <1>2, <1>3, <1>4, <1>5, <1>6 DEF RequestInv

\* The reader at the door, then the engine.
LEMMA ConfigureKeeps == RequestInv /\ Configure => RequestInv'
  <1> SUFFICES ASSUME RequestInv, Configure PROVE RequestInv'
    OBVIOUS
  <1> DEFINE q == diagram.request
             p == q.document
  <1>1. q \in Submissions /\ q.door \in {"server", "strict server", "client"} /\ EntriesTyped(p)
    BY SubmissionsTyped DEF RequestInv, SubmissionType, EntriesTyped, SelectorsTyped
  <1> DEFINE read == CASE q.door = "server"        -> ServerConfig(p, FALSE)
                       [] q.door = "strict server" -> ServerConfig(p, TRUE)
                       [] q.door = "client"        -> ClientConfig(p)
  <1>2. PICK o \in read : \E n \in NormalizeConfig(o.config) :
          /\ diagram' = [diagram EXCEPT !.error = o.error, !.warnings = o.warnings,
                                        !.options = n.config,
                                        !.config = [r \in DOMAIN n.config |-> ReadOptions(n.config[r])]]
          /\ phase' = IF o.error # "" THEN "refused"
                      ELSE IF n.error # "" THEN "ignored" ELSE "configured"
    BY DEF Configure
  <1>3. PICK n \in NormalizeConfig(o.config) :
          /\ diagram' = [diagram EXCEPT !.error = o.error, !.warnings = o.warnings,
                                        !.options = n.config,
                                        !.config = [r \in DOMAIN n.config |-> ReadOptions(n.config[r])]]
          /\ phase' = IF o.error # "" THEN "refused"
                      ELSE IF n.error # "" THEN "ignored" ELSE "configured"
    BY <1>2
  <1>4. /\ diagram'.request = q /\ diagram'.error = o.error /\ diagram'.warnings = o.warnings
        /\ diagram'.options = n.config /\ DOMAIN diagram' = DOMAIN diagram
        /\ diagram'.directives = diagram.directives
        /\ diagram'.config = [r \in DOMAIN n.config |-> ReadOptions(n.config[r])]
    BY <1>3 DEF RequestInv
  <1>5. /\ q.door # "client" => o.error # "invalid_config" /\ (o.error = "" => n.error = "")
        /\ Conforms(p) /\ (q.door = "strict server" => p.version # Absent) =>
             o.error = "" /\ \A key \in DOMAIN Entries(p) : <<"ignored", key>> \notin o.warnings
        /\ o.error = "" /\ n.error = "" => Means(p, n.config, o.warnings, q.door)
    <2>1. CASE q.door = "server"
      <3>1. o \in ServerConfig(p, FALSE)
        BY <1>2, <2>1
      <3>2. /\ o.error # "invalid_config" /\ (o.error = "" => n.error = "")
            /\ Conforms(p) =>
                 o.error = "" /\ \A key \in DOMAIN Entries(p) : <<"ignored", key>> \notin o.warnings
            /\ o.error = "" => Means(p, n.config, o.warnings, q.door)
        BY <1>1, <1>3, <2>1, <3>1, HandlerReads
      <3> QED BY <2>1, <3>2
    <2>2. CASE q.door = "strict server"
      <3>1. o \in ServerConfig(p, TRUE)
        BY <1>2, <2>2
      <3>2. /\ o.error # "invalid_config" /\ (o.error = "" => n.error = "")
            /\ Conforms(p) /\ p.version # Absent =>
                 o.error = "" /\ \A key \in DOMAIN Entries(p) : <<"ignored", key>> \notin o.warnings
            /\ o.error = "" => Means(p, n.config, o.warnings, q.door)
        BY <1>1, <1>3, <2>2, <3>1, HandlerReads
      <3> QED BY <2>2, <3>2
    <2>3. CASE q.door = "client"
      <3>1. o \in ClientConfig(p)
        BY <1>2, <2>3
      <3>2. /\ Conforms(p) => o.error = "" /\ o.warnings = {}
            /\ o.error = "" /\ n.error = "" => Means(p, n.config, o.warnings, "client")
        BY <1>1, <1>3, <3>1, ClientReads
      <3> QED BY <2>3, <3>2
    <2> QED BY <1>1, <2>1, <2>2, <2>3
  <1>6. AcceptedConfigRuns'
    BY <1>3, <1>4, <1>5 DEF AcceptedConfigRuns
  <1>7. ConfigMeansDocument'
    <2> SUFFICES ASSUME phase' = "configured"
                 PROVE  Means(p, n.config, o.warnings, q.door)
      BY <1>4 DEF ConfigMeansDocument, Means, ReadFromEntries
    <2> QED BY <1>3, <1>5
  <1>8. phase' \in {"refused", "ignored", "configured"}
    BY <1>3
  <1>9. phase' = "configured" =>
          \A r \in DOMAIN diagram'.config : SelectorsRead(diagram'.config[r])
    <2> SUFFICES ASSUME phase' = "configured", NEW r \in DOMAIN n.config
                 PROVE  SelectorsRead(ReadOptions(n.config[r]))
      BY <1>4
    <2> DEFINE options == n.config[r]
    <2>1. o.error = "" /\ n.error = ""
      BY <1>3
    <2>2. /\ SelectorsTyped(p)
          /\ \A k \in DOMAIN options : <<k, options[k]>> \in Stated(Entries(p), r)
      BY <1>5, <2>1, StatedForRule DEF Means
    <2>3. ValidOptions(options)
      BY <1>3, <2>1, NormalizedValid
    <2> HIDE DEF options
    <2>4. SelectorsRead(ReadOptions(options))
      BY <2>2, <2>3, SelectorsInForce
    <2> QED BY <2>4 DEF options
  <1>10. DirectivesTyped' /\ OrderedOnce' /\ HiddenExactly'
    BY <1>4, <1>8 DEF RequestInv, DirectivesTyped, OrderedOnce, HiddenExactly, Done
  <1> QED BY <1>1, <1>4, <1>6, <1>7, <1>8, <1>9, <1>10 DEF RequestInv

\* The parser leaves what the configuration was read into.
LEMMA ParseKeeps == RequestInv /\ Parse => RequestInv'
  <1> SUFFICES ASSUME RequestInv, Parse PROVE RequestInv'
    OBVIOUS
  <1>1. PICK g, e, l :
          diagram' = [diagram EXCEPT !.nodes = Nodes(diagram.family, g, e, l), !.succ = g]
    BY DEF Parse
  <1>2. /\ diagram'.request = diagram.request /\ diagram'.error = diagram.error
        /\ diagram'.warnings = diagram.warnings /\ DOMAIN diagram' = DOMAIN diagram
        /\ diagram'.directives = diagram.directives /\ diagram'.config = diagram.config
    BY <1>1 DEF RequestInv
  <1>3. phase = "configured" /\ phase' = "parsed"
    BY DEF Parse
  <1>4. AcceptedConfigRuns' /\ ConfigMeansDocument'
    BY <1>2, <1>3 DEF RequestInv, AcceptedConfigRuns, ConfigMeansDocument
  <1>5. DirectivesTyped' /\ OrderedOnce' /\ HiddenExactly'
    BY <1>2, <1>3 DEF RequestInv, DirectivesTyped, OrderedOnce, HiddenExactly, Done
  <1> QED BY <1>2, <1>3, <1>4, <1>5 DEF RequestInv

\* The engine answers with what is not hidden, sorted and once each.
LEMMA AnswerKeeps ==
  ASSUME RequestInv, NEW issues \in Seq(IssueType), Answer(issues)
  PROVE  RequestInv'
  <1>1. /\ phase = "parsed" /\ phase' = "linted" /\ diagram' = diagram
        /\ reported' = ToSet(issues) /\ returned' = Returned(diagram, issues)
    BY DEF Answer
  <1>2. AcceptedConfigRuns' /\ ConfigMeansDocument' /\ DirectivesTyped'
    BY <1>1 DEF RequestInv, AcceptedConfigRuns, ConfigMeansDocument, DirectivesTyped
  <1>3. /\ returned' \in Seq(IssueType)
        /\ \A m, n \in DOMAIN returned' : m < n => Precedes(SortKey(returned'[m]), SortKey(returned'[n]))
        /\ diagram.family # "unknown" =>
             ToSet(returned') = {i \in reported' : /\ ~IsSuppressed(diagram, i)
                                                   /\ ~IssueMatchesAnySelector(diagram, i)}
    BY <1>1, IssuesReturned
  <1>4. reported' \subseteq IssueType
    BY <1>1, ListFacts DEF ToSet
  <1>5. \A k \in 1 .. Len(returned') - 1 :
          Precedes(SortKey(returned'[k]), SortKey(returned'[k + 1]))
    <2>1. Len(returned') \in Nat /\ DOMAIN returned' = 1 .. Len(returned')
      BY <1>3, ListFacts
    <2>2. \A k \in 1 .. Len(returned') - 1 : k \in DOMAIN returned' /\ k + 1 \in DOMAIN returned' /\ k < k + 1
      BY <2>1
    <2> QED BY <1>3, <2>2
  <1>6. \A i \in IssueType :
          Hidden(i) <=> IsSuppressed(diagram, i) \/ IssueMatchesAnySelector(diagram, i)
    BY <1>1, HiddenAsSaid DEF RequestInv
  <1>7. \A i : Hidden(i)' <=> Hidden(i)
    BY <1>1 DEF Hidden, SelectorsFor
  <1>8. diagram.family # "unknown" => ToSet(returned') = {i \in reported' : ~Hidden(i)}
    BY <1>3, <1>4, <1>6
  <1>9. OrderedOnce' /\ HiddenExactly'
    BY <1>1, <1>4, <1>5, <1>7, <1>8 DEF OrderedOnce, HiddenExactly, Done
  <1> QED BY <1>1, <1>2, <1>9 DEF RequestInv

\* The inductive invariant of requests.
LEMMA RequestInductive == RequestSpec => []RequestInv
  <1> DEFINE step == Configure \/ Parse \/ \E issues \in Seq(IssueType) : Answer(issues)
  <1>1. RequestInv /\ UNCHANGED requestVars => RequestInv'
    <2> SUFFICES ASSUME RequestInv, UNCHANGED requestVars PROVE RequestInv'
      OBVIOUS
    <2>1. diagram' = diagram /\ phase' = phase /\ returned' = returned /\ reported' = reported
      BY DEF requestVars
    <2>2. AcceptedConfigRuns' /\ ConfigMeansDocument' /\ DirectivesTyped'
      BY <2>1 DEF RequestInv, AcceptedConfigRuns, ConfigMeansDocument, DirectivesTyped
    <2>3. \A i : Hidden(i)' <=> Hidden(i)
      BY <2>1 DEF Hidden, SelectorsFor
    <2>4. HiddenExactly'
      BY <2>1, <2>3 DEF RequestInv, HiddenExactly, Done
    <2>5. OrderedOnce'
      BY <2>1 DEF RequestInv, OrderedOnce, Done
    <2> QED BY <2>1, <2>2, <2>4, <2>5 DEF RequestInv
  <1>2. RequestInv /\ [step]_requestVars => RequestInv'
    BY <1>1, ConfigureKeeps, ParseKeeps, AnswerKeeps
  <1> QED BY ReceiveEstablishes, <1>2, PTL DEF RequestSpec

\* A configuration that a handler has accepted is never refused by the engine, and
\* whatever the published schema allows is accepted with all its rules: parseConfig,
\* NormalizeConfig, the client and the schema, with tables of their own, agree.
THEOREM ConfigurationsRun == RequestSpec => []AcceptedConfigRuns
  <1>1. RequestInv => AcceptedConfigRuns
    BY DEF RequestInv
  <1> QED BY RequestInductive, <1>1, PTL

\* The options that the engine lints with are those that the document states, through
\* either reader, its aliases and prefixes, and the normalization before the run.
THEOREM ConfigurationsMeanDocuments == RequestSpec => []ConfigMeansDocument
  <1>1. RequestInv => ConfigMeansDocument
    BY DEF RequestInv
  <1> QED BY RequestInductive, <1>1, PTL

\* Whatever the rules report, the engine returns it in an order that does not depend
\* on theirs, by severity, rule, line, column, context and message, with none twice:
\* sortIssues orders by all that dedupeIssues compares, so that equal issues are
\* neighbours when it looks.
THEOREM ReturnedInOrder == RequestSpec => []OrderedOnce
  <1>1. RequestInv => OrderedOnce
    BY DEF RequestInv
  <1> QED BY RequestInductive, <1>1, PTL

\* Whatever the rules report, what is returned is all of it but what a comment of the
\* source covers or a selector of the configuration in force, none of whose
\* exceptions applies.
THEOREM NothingElseHidden == RequestSpec => []HiddenExactly
  <1>1. RequestInv => HiddenExactly
    BY DEF RequestInv
  <1> QED BY RequestInductive, <1>1, PTL

================================================================================
