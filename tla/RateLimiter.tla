------------------------------ MODULE RateLimiter ------------------------------
(***************************************************************************)
(* The per-client fixed-window limiter of the analyze routes                *)
(* (internal/api/middleware.go): RateLimiter.Check and the middleware that  *)
(* calls it.  Check reads the clock BEFORE it takes the mutex, so a request *)
(* may decide with a reading that is older than the state it finds.         *)
(*                                                                          *)
(* A client is known by the address its request is attributed to            *)
(* (ClientIdentity), which comes with the connection or with a header that  *)
(* the client began and the proxies on the way continued.                   *)
(*                                                                          *)
(* Time is counted in ticks, Second of them to a Unix second.               *)
(***************************************************************************)
EXTENDS Integers, FiniteSetsExt, SequencesExt, ClientIdentity

CONSTANTS
  Requests,
  Clients,         \* the addresses that requests come from
  Limit, Window,   \* the quota of a client, and the length of a window
  Second,          \* ticks to the second
  MaxClients,      \* the number of windows remembered
  CleanupBatch,    \* the number of stale windows one cleanup deletes
  None,
  Claims,          \* the headers a client may send with its request
  MaxProxies,      \* bound: the proxies on the way that write a hop
  MaxDelay,        \* bound: ticks between reading the clock and deciding
  MaxTime          \* bound: the clock of the instance stops here

ASSUME QuotaPositive == Limit \in Nat \ {0} /\ Window \in Nat \ {0}
ASSUME SecondPositive == Second \in Nat \ {0}
ASSUME CapacityIsNat == MaxClients \in Nat /\ CleanupBatch \in Int
ASSUME BoundsAreNat == MaxDelay \in Nat /\ MaxTime \in Nat /\ MaxProxies \in Nat
ASSUME ClaimsAreHeaders ==
  Claims \subseteq Seq(UNION {ToSet(claim) : claim \in Claims})
ASSUME NoneIsNil == None \notin Clients
ASSUME ClientsAreAddresses ==
  Clients \subseteq Addresses /\ \A c \in Clients : ~IsTrustedProxy(c)

VARIABLES
  clock,      \* the time
  clients,    \* the windows remembered: client -> [windowStart, count]
  check,      \* the Check each request is in: the client it is attributed to and
              \* its clock reading
  granted,    \* history: requests counted for each client and granted at each time
  promise     \* history: the reset time given with the last refusal of each
              \* client, and the requests granted to it since

vars == <<clock, clients, check, granted, promise>>

Times == 0 .. MaxTime
Idle == [client |-> None, now |-> 0]
Checking == [client : Addresses, now : Times]
NoPromise == [reset |-> None, since |-> 0]

Init ==
  /\ clock = 0
  /\ clients = <<>>
  /\ check = [q \in Requests |-> Idle]
  /\ granted = [c \in Addresses |-> [t \in Times |-> 0]]
  /\ promise = [c \in Addresses |-> NoPromise]

\* How a request of a client arrives, as its peer and its X-Forwarded-For: directly,
\* or through trusted proxies, of which each appends the address it was called
\* from to the header and the last is the peer.
Proxies == {a \in Addresses : IsTrustedProxy(a)}
Arrivals(o) ==
  [peer : {o}, header : Claims]
    \cup [peer : Proxies,
          header : {claim \o <<o>> \o via :
                      claim \in Claims, via \in SeqOf(Proxies, MaxProxies)}]

\* The clients that AnalyzeRateLimitMiddleware takes a request of o to be from.
Attributed ==
  [o \in Clients |-> {ClientIdentifier(r.peer, r.header) : r \in Arrivals(o)}]

\* The middleware attributes the request to a client; Check up to rl.mu.Lock().
ReadClock(q, o) ==
  /\ check[q] = Idle
  /\ \E c \in Attributed[o] : check' = [check EXCEPT ![q] = [client |-> c, now |-> clock]]
  /\ UNCHANGED <<clock, clients, granted, promise>>

\* time.Unix() drops the fraction of the second; this is the instant that a
\* reader of the header takes the reset to be.
Unix(t) == (t \div Second) * Second

\* deleteExpiredEntries: up to a batch of the windows older than two windows,
\* in the unspecified order of a map iteration.
Cleaned(now) ==
  LET expired == {c \in DOMAIN clients : now - clients[c].windowStart > Window * 2}
      batch == Max({CleanupBatch, 1})
      deleted == Min({batch, Cardinality(expired)})
  IN  {[c \in DOMAIN clients \ gone |-> clients[c]] : gone \in kSubset(deleted, expired)}

\* The map as it is when Check looks for room: cleaned when an unknown client
\* finds it full.
Roomy(q) ==
  IF check[q].client \notin DOMAIN clients /\ Cardinality(DOMAIN clients) >= MaxClients
  THEN Cleaned(check[q].now)
  ELSE {clients}

\* The client has a window or one can be added.
HasRoom(c, map) == c \in DOMAIN map \/ Cardinality(DOMAIN map) < MaxClients

\* Faulty variant: the count of an old window is reset, its start is not.
WindowForUnmoved(q, map) ==
  LET c == check[q].client
      now == check[q].now
  IN  IF c \in DOMAIN map
      THEN IF now - map[c].windowStart < Window THEN map[c]
           ELSE [map[c] EXCEPT !.count = 0]
      ELSE [windowStart |-> now, count |-> 0]

\* Faulty variant: a window lasts as long as cleanup keeps it.
WindowForTooLong(q, map) ==
  LET c == check[q].client
      now == check[q].now
  IN  IF c \in DOMAIN map /\ now - map[c].windowStart < Window * 2
      THEN map[c]
      ELSE [windowStart |-> now, count |-> 0]

\* The window the request falls in: its client's, or a new one.
WindowFor(q, map) ==
  LET c == check[q].client
      now == check[q].now
  IN  IF c \in DOMAIN map /\ now - map[c].windowStart < Window
      THEN map[c]
      ELSE [windowStart |-> now, count |-> 0]

Answered(q) ==
  /\ check' = [check EXCEPT ![q] = Idle]
  /\ UNCHANGED clock

Refused(q, reset) ==
  /\ promise' = [promise EXCEPT ![check[q].client] =
                   [reset |-> Unix(reset), since |-> 0]]
  /\ UNCHANGED granted

\* Check after the lock: the map is full and no window could be deleted.
RefusedAtCapacity(q) ==
  /\ check[q] # Idle
  /\ \E map \in Roomy(q) :
       /\ ~HasRoom(check[q].client, map)
       /\ clients' = map
  /\ Refused(q, check[q].now + Window)
  /\ Answered(q)

\* Check after the lock: the request is counted in its window, or refused when
\* the window has no quota left.
Decide(q) ==
  /\ check[q] # Idle
  /\ \E map \in Roomy(q) :
       LET c == check[q].client
           w == WindowFor(q, map)
           allowed == w.count < Limit
           n == IF allowed THEN w.count + 1 ELSE w.count
       IN  /\ HasRoom(c, map)
           /\ clients' = [d \in DOMAIN map \cup {c} |->
                            IF d = c THEN [w EXCEPT !.count = n] ELSE map[d]]
           /\ \/ /\ allowed
                 /\ granted' = [granted EXCEPT ![c][clock] = @ + 1]
                 /\ promise' = [promise EXCEPT ![c].since = Min({@ + 1, Limit})]
              \/ ~allowed /\ Refused(q, w.windowStart + Window)
  /\ Answered(q)

\* Time passes, but no request stays longer than MaxDelay between its reading
\* of the clock and its decision.
Tick ==
  /\ clock < MaxTime
  /\ \A q \in Requests : check[q] # Idle => clock - check[q].now < MaxDelay
  /\ clock' = clock + 1
  /\ UNCHANGED <<clients, check, granted, promise>>

Next ==
  \/ \E q \in Requests, o \in Clients : ReadClock(q, o)
  \/ \E q \in Requests : RefusedAtCapacity(q) \/ Decide(q)
  \/ Tick

Spec == Init /\ [][Next]_vars

-----------------------------------------------------------------------------
(* Properties                                                                *)

\* The type of the state; and however many clients come, the limiter remembers at
\* most maxClients of them.
TypeOK ==
  /\ clock \in Times
  /\ DOMAIN clients \subseteq Addresses
  /\ Cardinality(DOMAIN clients) <= MaxClients
  /\ \A c \in DOMAIN clients : clients[c] \in [windowStart : Times, count : 0 .. Limit]
  /\ check \in [Requests -> {Idle} \cup Checking]
  /\ granted \in [Addresses -> [Times -> Nat]]
  /\ promise \in [Addresses -> [reset : Nat \cup {None}, since : 0 .. Limit]]

\* Whom a request is counted for: the client it comes from, whatever that claims and
\* however many proxies the request passed.  There is one exception, which the search
\* for a public hop makes (forwardedClientIP): a client without a public address that
\* calls over a proxy is counted under the public address its own header names.  So
\* nobody with a public address gets the budget of another, no proxy is taken for its
\* clients, and who calls directly is not believed at all ("prevents simple spoofing
\* with attacker-controlled left-most entries while preserving multi-hop proxy
\* attribution").  A private client is not counted under its proxy, although
\* API_GUIDE.md:64 says "If no untrusted/public hop is available, the middleware falls
\* back to RemoteAddr".
CountedAsOrigin ==
  \A o \in Clients : \A r \in Arrivals(o) :
    LET c == ClientIdentifier(r.peer, r.header)
    IN  \/ c = o
        \/ /\ o \notin PublicAddresses /\ r.peer # o
           /\ c \in PublicAddresses /\ ~IsTrustedProxy(c)

\* In any span shorter than a window less the delay, at most twice the quota is
\* granted under one identity (the end of one fixed window and the beginning of the
\* next), although requests decide with old clock readings, windows are deleted and
\* recreated, and a window may begin in the past.  A client has one identity, but for
\* the exception of CountedAsOrigin, and the table of clients stays within its bound
\* meanwhile (TypeOK).
BurstBounded ==
  /\ TypeOK
  /\ CountedAsOrigin
  /\ \A c \in Addresses, t \in Times :
       MapThenSumSet(LAMBDA u : granted[c][u],
                     {u \in Times : t <= u /\ u < t + Window - MaxDelay})
         <= 2 * Limit

\* What a refusal says of the reset time is true to the second: a request under the
\* same identity whose clock reading is after the announced second is granted, unless
\* the quota has been used up again since or the limiter is full of other clients.
ResetHonoured ==
  [][\A q \in Requests :
       LET c == check[q].client
       IN  /\ check[q] # Idle /\ check'[q] = Idle
           /\ promise[c].reset # None
           /\ promise[c].reset + Second <= check[q].now
           /\ promise[c].since < Limit
           /\ HasRoom(c, clients)
           => granted'[c] # granted[c]]_vars

=============================================================================
