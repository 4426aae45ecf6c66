--------------------------- MODULE RateLimiterProofs ---------------------------
(***************************************************************************)
(* Proofs about RateLimiter, for any clients, quota, window, capacity,      *)
(* headers, proxies and delay.                                              *)
(*                                                                          *)
(* The bound on bursts is not inductive: that a span has been granted too   *)
(* much can only be seen from the windows the grants were made in, and of a *)
(* client the limiter remembers one window, or none.  Spent says what that  *)
(* window tells of the past: which grants are its own, which can be of the  *)
(* window before, and that there are none later.  WindowInv keeps it for    *)
(* the windows that were deleted as well: these are so old that no request  *)
(* can still fall in them, unless requests are delayed by more than a       *)
(* window, when there is no span that the bound speaks of.  PromiseInv is   *)
(* what a refusal has announced.                                            *)
(***************************************************************************)
EXTENDS RateLimiter, CacheListsProofs

\* What was granted from a time on; g is what was granted at each time.
Since(g, t) == Total(g, {u \in Times : t <= u})

\* What was granted in a span of time that begins at t.
Span(t) == {u \in Times : t <= u /\ u < t + Window - MaxDelay}

\* What the grants of a client say of its latest window, which began at s and has
\* granted n: the windows before it, and those before the last of these, ended too
\* early for their requests to be granted later than this.
Spent(g, s, n) ==
  /\ Since(g, s + MaxDelay) <= n
  /\ Since(g, s + MaxDelay - Window) <= n + Limit
  /\ Since(g, s + MaxDelay + Window) = 0

\* A window that is forgotten is so old that every request to come, and every one
\* that has read the clock, is after its end.
WindowInv(c) ==
  IF c \in DOMAIN clients
  THEN /\ clients[c].windowStart <= clock
       /\ Spent(granted[c], clients[c].windowStart, clients[c].count)
  ELSE \E s \in -Window .. MaxTime :
         /\ Spent(granted[c], s, Limit)
         /\ s + Window <= clock
         /\ \A q \in Requests : check[q] # Idle => s + Window <= check[q].now

\* The clock readings that requests decide with.
Readings ==
  \A q \in Requests :
    check[q] # Idle => check[q].now <= clock /\ clock <= check[q].now + MaxDelay

\* A window that has granted more than was granted since the last refusal had ended
\* by the second that was announced.
PromiseInv ==
  \A c \in Addresses :
    c \in DOMAIN clients /\ promise[c].reset # None =>
      \/ clients[c].windowStart + Window < promise[c].reset + Second
      \/ clients[c].count <= promise[c].since

\* The bound for one client, with the sums as CacheLists writes them.
Burst(c) == \A t \in Times : Total(granted[c], Span(t)) <= 2 * Limit

\* The inductive invariant.
LInv ==
  /\ TypeOK /\ IsFiniteSet(DOMAIN clients)
  /\ Readings /\ PromiseInv
  /\ MaxDelay <= Window => \A c \in Addresses : WindowInv(c) /\ Burst(c)

-----------------------------------------------------------------------------
(* The client a request is counted for.                                      *)

\* The greatest element of a set of numbers, once one is known.
LEMMA MaxIs ==
  ASSUME NEW T, NEW x \in T, T \subseteq Int, \A y \in T : y <= x
  PROVE  Max(T) = x
  <1>1. x \in T /\ \A y \in T : x >= y
    OBVIOUS
  <1>2. Max(T) \in T /\ \A y \in T : Max(T) >= y
    BY <1>1 DEF Max
  <1>3. Max(T) \in Int /\ Max(T) >= x /\ x >= Max(T)
    BY <1>1, <1>2
  <1> HIDE DEF Max
  <1> QED BY <1>3

\* forwardedClientIP of a header that a client has begun and trusted proxies have
\* continued: the client, or a public hop that a private client has put before itself.
LEMMA ForwardedFrom ==
  ASSUME NEW o \in Clients, NEW claim \in Claims, NEW via \in SeqOf(Proxies, MaxProxies)
  PROVE  LET c == ForwardedClientIP(claim \o <<o>> \o via)
         IN  \/ c = o
             \/ /\ o \notin PublicAddresses
                /\ c \in PublicAddresses /\ ~IsTrustedProxy(c)
  <1> DEFINE H == UNION {ToSet(c) : c \in Claims}
             header == claim \o <<o>> \o via
             n == Len(claim) + 1
             untrusted == {i \in ParseForwardedForChain(header) : ~IsTrustedProxy(header[i])}
             public == {i \in untrusted : IsPublicClientIP(header[i])}
  <1>1. claim \in Seq(H) /\ Len(claim) \in Nat
    BY ClaimsAreHeaders
  <1>2. PICK m \in 0 .. MaxProxies : via \in [1 .. m -> Proxies]
    BY DEF SeqOf
  <1>3. via \in Seq(Proxies) /\ Len(via) = m
    BY <1>2, BoundsAreNat
  <1>4. o \in Addresses /\ ~IsTrustedProxy(o)
    BY ClientsAreAddresses
  <1>5. /\ DOMAIN header = 1 .. n + m
        /\ header[n] = o
        /\ \A i \in n + 1 .. n + m : header[i] \in Proxies
    <2> HIDE DEF H
    <2> DEFINE S == H \cup {o} \cup Proxies
    <2>1. claim \in Seq(S) /\ <<o>> \in Seq(S) /\ via \in Seq(S)
      BY <1>1, <1>3
    <2> HIDE DEF S
    <2> QED BY <1>1, <1>2, <1>3, <2>1
  <1> HIDE DEF header
  <1>6. n \in untrusted /\ \A i \in untrusted : i \in Int /\ i <= n
    <2>1. \A i \in n + 1 .. n + m : IsTrustedProxy(header[i])
      BY <1>5 DEF Proxies
    <2> QED BY <1>1, <1>2, <1>4, <1>5, <2>1 DEF ParseForwardedForChain
  <1>7. /\ public # {} => ForwardedClientIP(header) = header[Max(public)]
        /\ public = {} /\ untrusted # {} => ForwardedClientIP(header) = header[Max(untrusted)]
    BY DEF ForwardedClientIP
  <1> SUFFICES \/ ForwardedClientIP(header) = o
               \/ /\ o \notin PublicAddresses
                  /\ ForwardedClientIP(header) \in PublicAddresses
                  /\ ~IsTrustedProxy(ForwardedClientIP(header))
    BY DEF header
  <1>8. CASE o \in PublicAddresses
    <2>1. n \in public /\ \A i \in public : i \in Int /\ i <= n
      BY <1>5, <1>6, <1>8 DEF IsPublicClientIP
    <2>2. Max(public) = n
      <3> HIDE DEF public, n
      <3> QED BY <2>1, MaxIs
    <2> HIDE DEF untrusted, public, n
    <2> QED BY <1>5, <1>7, <2>1, <2>2
  <1>9. CASE o \notin PublicAddresses /\ public # {}
    <2>1. public \subseteq 0 .. n + m /\ n + m \in Nat
      BY <1>1, <1>2, <1>5, BoundsAreNat DEF ParseForwardedForChain
    <2>2. Max(public) \in public
      <3> HIDE DEF public, n
      <3> QED BY <1>9, <2>1, GreatestIsMax
    <2>3. header[Max(public)] \in PublicAddresses /\ ~IsTrustedProxy(header[Max(public)])
      BY <2>2 DEF IsPublicClientIP
    <2> HIDE DEF public
    <2> QED BY <1>7, <1>9, <2>3
  <1>10. CASE o \notin PublicAddresses /\ public = {}
    <2>1. Max(untrusted) = n
      <3> HIDE DEF untrusted, n
      <3> QED BY <1>6, MaxIs
    <2> HIDE DEF untrusted, public, n
    <2> QED BY <1>5, <1>6, <1>7, <1>10, <2>1
  <1> QED BY <1>8, <1>9, <1>10

\* For all headers and proxies, a request is attributed to the client it comes from,
\* or over a proxy to a public address that a private client has named.
THEOREM ClientsCountedAsOrigin == CountedAsOrigin
  <1> SUFFICES ASSUME NEW o \in Clients, NEW r \in Arrivals(o)
               PROVE  LET c == ClientIdentifier(r.peer, r.header)
                      IN  \/ c = o
                          \/ /\ o \notin PublicAddresses /\ r.peer # o
                             /\ c \in PublicAddresses /\ ~IsTrustedProxy(c)
    BY DEF CountedAsOrigin
  <1>1. o \in Addresses /\ ~IsTrustedProxy(o) /\ o # Blank /\ o # NoAddress
    BY ClientsAreAddresses, NoAddressIsNil
  <1>2. CASE r \in [peer : {o}, header : Claims]
    <2>1. r.peer = o /\ RemoteIPFromAddr(r.peer) = o
      BY <1>1, <1>2 DEF RemoteIPFromAddr
    <2> QED BY <1>1, <2>1 DEF ClientIdentifier
  <1>3. CASE r \notin [peer : {o}, header : Claims]
    <2>1. PICK claim \in Claims, via \in SeqOf(Proxies, MaxProxies) :
            r.peer \in Proxies /\ r.header = claim \o <<o>> \o via
      BY <1>3 DEF Arrivals
    <2> DEFINE c == ForwardedClientIP(r.header)
    <2>2. \/ c = o
          \/ /\ o \notin PublicAddresses
             /\ c \in PublicAddresses /\ ~IsTrustedProxy(c)
      BY <2>1, ForwardedFrom
    <2>3. /\ r.peer \in Addresses /\ IsTrustedProxy(r.peer)
          /\ r.peer # NoAddress /\ r.peer # Blank /\ r.peer # o
      BY <1>1, <2>1, NoAddressIsNil DEF Proxies
    <2> HIDE DEF c
    <2>4. c \in Addresses /\ c # NoAddress
      BY <1>1, <2>2, PublicAreAddresses, NoAddressIsNil
    <2>5. RemoteIPFromAddr(r.peer) = r.peer
      BY <2>3 DEF RemoteIPFromAddr
    <2>6. ClientIdentifier(r.peer, r.header) = c
      BY <2>3, <2>4, <2>5 DEF ClientIdentifier, c
    <2> QED BY <2>2, <2>3, <2>6
  <1> QED BY <1>2, <1>3

\* A request is attributed to an address.
LEMMA AttributedToAddress ==
  ASSUME NEW o \in Clients, NEW c \in Attributed[o]
  PROVE  c \in Addresses
  <1>1. PICK r \in Arrivals(o) : c = ClientIdentifier(r.peer, r.header)
    BY DEF Attributed
  <1>2. c = o \/ c \in PublicAddresses
    BY <1>1, ClientsCountedAsOrigin DEF CountedAsOrigin
  <1> QED BY <1>2, ClientsAreAddresses, PublicAreAddresses

-----------------------------------------------------------------------------
(* What is granted, from a time on and in a span.                            *)

\* The grants of one client.
Grants == [Times -> Nat]

\* The sum over any times, and over fewer.
LEMMA GrantSums ==
  ASSUME NEW g \in Grants, NEW S, S \subseteq Times
  PROVE  /\ IsFiniteSet(S) /\ Total(g, S) \in Nat
         /\ \A T \in SUBSET S : Total(g, T) <= Total(g, S)
  <1>1. IsFiniteSet(Times)
    BY FS_Interval, BoundsAreNat DEF Times
  <1>2. IsFiniteSet(S)
    BY <1>1, FS_Subset
  <1>3. \A k \in S : g[k] \in Nat
    BY DEF Grants
  <1> QED BY <1>2, <1>3, TotalNat, TotalMonotone

\* One request more is granted.
LEMMA GrantAdds ==
  ASSUME NEW g \in Grants, NEW T \in Times, NEW S, S \subseteq Times
  PROVE  LET h == [g EXCEPT ![T] = @ + 1] IN
         /\ h \in Grants /\ h # g
         /\ Total(h, S) = Total(g, S) + (IF T \in S THEN 1 ELSE 0)
  <1> DEFINE h == [g EXCEPT ![T] = @ + 1]
  <1>1. /\ h \in Grants /\ h[T] = g[T] + 1 /\ g[T] \in Nat /\ h[T] \in Nat
        /\ \A k \in Times \ {T} : h[k] = g[k]
        /\ \A k \in S : g[k] \in Nat
    BY DEF Grants
  <1>2. IsFiniteSet(S) /\ Total(g, S) \in Nat
    BY GrantSums
  <1> HIDE DEF h
  <1>3. CASE T \in S
    <2>1. S \cup {T} = S /\ \A k \in S \ {T} : h[k] = g[k]
      BY <1>1, <1>3
    <2>2. Total(h, S \cup {T}) = Total(g, S) - (IF T \in S THEN g[T] ELSE 0) + h[T]
      BY <1>1, <1>2, <2>1, TotalReplace
    <2>3. Total(h, S) = Total(g, S) - g[T] + h[T]
      BY <1>3, <2>1, <2>2
    <2> QED BY <1>1, <1>2, <1>3, <2>3 DEF h
  <1>4. CASE T \notin S
    <2>1. \A k \in S : g[k] \in Nat /\ h[k] = g[k]
      BY <1>1, <1>4
    <2>2. Total(h, S) = Total(g, S)
      BY <1>2, <2>1, TotalAgrees
    <2> QED BY <1>1, <1>2, <1>4, <2>2 DEF h
  <1> QED BY <1>3, <1>4

\* The same for the sums from a time on, which grow with the time they begin at.
LEMMA SinceFacts ==
  ASSUME NEW g \in Grants, NEW T \in Times, NEW t \in Int
  PROVE  LET h == [g EXCEPT ![T] = @ + 1] IN
         /\ Since(g, t) \in Nat
         /\ Since(h, t) = Since(g, t) + (IF t <= T THEN 1 ELSE 0)
         /\ \A u \in Int : t <= u => Since(g, u) <= Since(g, t)
  <1> DEFINE F(u) == {v \in Times : u <= v}
  <1>1. Times \subseteq Int
    BY BoundsAreNat DEF Times
  <1>2. \A u : F(u) \subseteq Times
    OBVIOUS
  <1>3. T \in F(t) <=> t <= T
    OBVIOUS
  <1>4. ASSUME NEW u \in Int, t <= u PROVE F(u) \in SUBSET F(t)
    <2>1. ASSUME NEW v \in F(u) PROVE v \in F(t)
      <3>1. v \in Times /\ v \in Int /\ u <= v
        BY <1>1
      <3>2. t <= v
        BY <1>4, <3>1
      <3> QED BY <3>1, <3>2
    <2> QED BY <2>1
  <1> HIDE DEF F
  <1>5. \A u : Since(g, u) = Total(g, F(u))
    BY DEF Since, F
  <1>6. Since([g EXCEPT ![T] = @ + 1], t) = Total([g EXCEPT ![T] = @ + 1], F(t))
    BY DEF Since, F
  <1>7. Since(g, t) \in Nat
    BY <1>2, <1>5, GrantSums
  <1>8. Since([g EXCEPT ![T] = @ + 1], t) = Since(g, t) + (IF T \in F(t) THEN 1 ELSE 0)
    <2>1. F(t) \subseteq Times
      BY <1>2
    <2>2. Total([g EXCEPT ![T] = @ + 1], F(t)) = Total(g, F(t)) + (IF T \in F(t) THEN 1 ELSE 0)
      BY <2>1, GrantAdds
    <2> QED BY <1>5, <1>6, <2>2
  <1>9. ASSUME NEW u \in Int, t <= u PROVE Since(g, u) <= Since(g, t)
    BY <1>2, <1>4, <1>5, <1>9, GrantSums
  <1> QED BY <1>3, <1>7, <1>8, <1>9

\* A window may have granted more than is known.
LEMMA SpentWeaker ==
  ASSUME NEW g \in Grants, NEW s \in Int, NEW n \in Nat, NEW m \in Nat, n <= m, Spent(g, s, n)
  PROVE  Spent(g, s, m)
  <1>1. /\ Since(g, s + MaxDelay) \in Nat
        /\ Since(g, s + MaxDelay - Window) \in Nat
    <2>1. 0 \in Times /\ s + MaxDelay \in Int /\ s + MaxDelay - Window \in Int
      BY BoundsAreNat, QuotaPositive DEF Times
    <2> QED BY <2>1, SinceFacts
  <1> QED BY <1>1, QuotaPositive DEF Spent

\* A grant in the window it finds.
LEMMA GrantInWindow ==
  ASSUME NEW g \in Grants, NEW T \in Times, NEW now \in Times, NEW s \in Times, NEW n \in Nat,
         Spent(g, s, n), now - s < Window, T <= now + MaxDelay
  PROVE  Spent([g EXCEPT ![T] = @ + 1], s, n + 1)
  <1> DEFINE h == [g EXCEPT ![T] = @ + 1]
             a == s + MaxDelay
             b == s + MaxDelay - Window
             e == s + MaxDelay + Window
  <1>1. /\ a \in Int /\ b \in Int /\ e \in Int /\ ~(e <= T)
        /\ T \in Int /\ Limit \in Nat
    BY BoundsAreNat, QuotaPositive DEF Times
  <1>2. /\ Since(g, a) <= n /\ Since(g, b) <= n + Limit /\ Since(g, e) = 0
    BY DEF Spent
  <1> HIDE DEF a, b, e
  <1>3. /\ Since(g, a) \in Nat /\ Since(h, a) <= Since(g, a) + 1
        /\ Since(h, a) \in Nat
    BY <1>1, SinceFacts
  <1>4. /\ Since(g, b) \in Nat /\ Since(h, b) <= Since(g, b) + 1
        /\ Since(h, b) \in Nat
    BY <1>1, SinceFacts
  <1>5. Since(h, e) = 0
    <2>1. Since(h, e) = Since(g, e) + (IF e <= T THEN 1 ELSE 0)
      BY <1>1, SinceFacts
    <2> HIDE DEF h
    <2> QED BY <1>1, <1>2, <2>1
  <1> HIDE DEF h
  <1>6. Since(h, a) <= n + 1 /\ Since(h, b) <= n + 1 + Limit
    BY <1>1, <1>2, <1>3, <1>4
  <1> QED BY <1>5, <1>6 DEF Spent, a, b, e, h

\* A grant in a new window, after the end of the last.
LEMMA GrantInNewWindow ==
  ASSUME NEW g \in Grants, NEW T \in Times, NEW now \in Times, NEW s \in Int, NEW n \in Nat,
         n <= Limit, Spent(g, s, n), s + Window <= now, T <= now + MaxDelay
  PROVE  Spent([g EXCEPT ![T] = @ + 1], now, 1)
  <1> DEFINE h == [g EXCEPT ![T] = @ + 1]
             a == now + MaxDelay
             b == now + MaxDelay - Window
             e == now + MaxDelay + Window
             x == s + MaxDelay
             y == s + MaxDelay + Window
  <1>1. /\ a \in Int /\ b \in Int /\ e \in Int /\ x \in Int /\ y \in Int /\ ~(e <= T)
        /\ y <= a /\ x <= b /\ y <= e /\ T \in Int /\ Limit \in Nat
    BY BoundsAreNat, QuotaPositive DEF Times
  <1>2. Since(g, x) <= n /\ Since(g, y) = 0
    BY DEF Spent
  <1> HIDE DEF a, b, e, x, y
  <1>3. /\ Since(g, a) \in Nat /\ Since(g, a) <= Since(g, y)
        /\ Since(h, a) \in Nat /\ Since(h, a) <= Since(g, a) + 1
    BY <1>1, SinceFacts
  <1>4. /\ Since(g, b) \in Nat /\ Since(g, b) <= Since(g, x)
        /\ Since(h, b) \in Nat /\ Since(h, b) <= Since(g, b) + 1
    BY <1>1, SinceFacts
  <1>5. /\ Since(g, e) \in Nat /\ Since(g, e) <= Since(g, y)
        /\ Since(h, e) = Since(g, e)
    BY <1>1, SinceFacts
  <1>6. Since(g, x) \in Nat
    BY <1>1, SinceFacts
  <1> HIDE DEF h
  <1>7. Since(h, a) <= 1 /\ Since(h, b) <= 1 + Limit /\ Since(h, e) = 0
    BY <1>1, <1>2, <1>3, <1>4, <1>5, <1>6
  <1> QED BY <1>7 DEF Spent, a, b, e, h

\* No span is granted too much by a grant in a window that has quota.
LEMMA GrantInSpan ==
  ASSUME NEW g \in Grants, NEW T \in Times, NEW s \in Times, s <= T, NEW n \in 0 .. Limit,
         \A t \in Times : Total(g, Span(t)) <= 2 * Limit,
         Spent([g EXCEPT ![T] = @ + 1], s, n)
  PROVE  \A t \in Times : Total([g EXCEPT ![T] = @ + 1], Span(t)) <= 2 * Limit
  <1> DEFINE h == [g EXCEPT ![T] = @ + 1]
             b == s + MaxDelay - Window
             F == {u \in Times : b <= u}
  <1> SUFFICES ASSUME NEW t \in Times PROVE Total(h, Span(t)) <= 2 * Limit
    OBVIOUS
  <1>1. /\ h \in Grants
        /\ Total(h, Span(t)) = Total(g, Span(t)) + (IF T \in Span(t) THEN 1 ELSE 0)
    BY GrantAdds DEF Span
  <1>2. Limit \in Nat /\ Total(g, Span(t)) <= 2 * Limit /\ Total(g, Span(t)) \in Nat
    BY QuotaPositive, GrantSums DEF Span
  <1>3. CASE T \notin Span(t)
    <2> HIDE DEF h
    <2> QED BY <1>1, <1>2, <1>3
  <1>4. CASE T \in Span(t)
    <2>1. Span(t) \in SUBSET F
      BY <1>4, BoundsAreNat, QuotaPositive DEF Span, Times
    <2>2. Total(h, F) <= n + Limit
      BY DEF Spent, Since
    <2> HIDE DEF h, F
    <2>3. Total(h, Span(t)) <= Total(h, F) /\ Total(h, F) \in Nat /\ Total(h, Span(t)) \in Nat
      <3>1. F \subseteq Times /\ Span(t) \subseteq Times
        BY DEF F, Span
      <3> QED BY <1>1, <2>1, <3>1, GrantSums
    <2> QED BY <1>2, <2>2, <2>3
  <1> QED BY <1>3, <1>4

-----------------------------------------------------------------------------
(* Check under the lock.                                                     *)

\* What is known of a request that has read the clock.
LEMMA Pending ==
  ASSUME LInv, NEW q \in Requests, check[q] # Idle
  PROVE  /\ check[q].client \in Addresses /\ check[q].now \in Times
         /\ check[q].now <= clock /\ clock <= check[q].now + MaxDelay
  <1>1. check[q].client \in Addresses /\ check[q].now \in Times
    BY DEF LInv, TypeOK, Checking
  <1>2. check[q].now <= clock /\ clock <= check[q].now + MaxDelay
    BY DEF LInv, Readings
  <1> QED BY <1>1, <1>2

\* The map that Check finds or has cleaned: windows are only deleted, only for lack
\* of room, and only when they are older than two windows.
LEMMA CleanedMap ==
  ASSUME LInv, NEW q \in Requests, check[q] # Idle, NEW map \in Roomy(q)
  PROVE  /\ DOMAIN map \subseteq DOMAIN clients /\ IsFiniteSet(DOMAIN map)
         /\ Cardinality(DOMAIN map) \in Nat /\ Cardinality(DOMAIN map) <= MaxClients
         /\ \A d \in DOMAIN map : map[d] = clients[d]
         /\ \A d \in DOMAIN clients \ DOMAIN map :
              check[q].now - clients[d].windowStart > Window * 2
         /\ HasRoom(check[q].client, clients) => map = clients
         /\ check[q].client \in DOMAIN clients => map = clients
  <1>1. /\ IsFiniteSet(DOMAIN clients) /\ Cardinality(DOMAIN clients) <= MaxClients
        /\ Cardinality(DOMAIN clients) \in Nat
    BY FS_CardinalityType DEF LInv, TypeOK
  <1>2. CASE map = clients
    BY <1>1, <1>2
  <1>3. CASE map # clients
    <2>1. /\ check[q].client \notin DOMAIN clients
          /\ Cardinality(DOMAIN clients) >= MaxClients
          /\ map \in Cleaned(check[q].now)
      BY <1>3 DEF Roomy
    <2>2. PICK gone \in SUBSET {c \in DOMAIN clients :
                                  check[q].now - clients[c].windowStart > Window * 2} :
            map = [c \in DOMAIN clients \ gone |-> clients[c]]
      BY <2>1 DEF Cleaned, kSubset
    <2>3. DOMAIN map = DOMAIN clients \ gone /\ \A d \in DOMAIN map : map[d] = clients[d]
      BY <2>2
    <2>4. IsFiniteSet(DOMAIN map) /\ Cardinality(DOMAIN map) <= Cardinality(DOMAIN clients)
      BY <1>1, <2>3, FS_Subset
    <2>5. Cardinality(DOMAIN map) \in Nat
      BY <2>4, FS_CardinalityType
    <2>6. ~HasRoom(check[q].client, clients)
      BY <1>1, <2>1, CapacityIsNat DEF HasRoom
    <2> QED BY <1>1, <2>1, <2>2, <2>3, <2>4, <2>5, <2>6, CapacityIsNat
  <1> QED BY <1>2, <1>3

\* A client that Check leaves without a window, and whose grants it leaves alone, had
\* none or one that was too old to matter.
LEMMA WindowForgotten ==
  ASSUME LInv, MaxDelay <= Window, NEW q \in Requests, check[q] # Idle, NEW map \in Roomy(q),
         Answered(q), NEW d \in Addresses, WindowInv(d), granted'[d] = granted[d],
         d \notin DOMAIN map, d \notin DOMAIN clients'
  PROVE  WindowInv(d)'
  <1>1. \A p \in Requests : check'[p] # Idle => check'[p] = check[p] /\ check[p] # Idle
    BY DEF Answered, LInv, TypeOK
  <1>2. clock' = clock
    BY DEF Answered
  <1>3. CASE d \notin DOMAIN clients
    <2>1. PICK s \in -Window .. MaxTime :
            /\ Spent(granted[d], s, Limit)
            /\ s + Window <= clock
            /\ \A p \in Requests : check[p] # Idle => s + Window <= check[p].now
      BY <1>3 DEF WindowInv
    <2>2. \A p \in Requests : check'[p] # Idle => s + Window <= check'[p].now
      BY <1>1, <2>1
    <2> QED BY <1>2, <2>1, <2>2 DEF WindowInv
  <1>4. CASE d \in DOMAIN clients
    <2> DEFINE s == clients[d].windowStart
               n == clients[d].count
    <2>1. check[q].now - s > Window * 2
      BY <1>4, CleanedMap
    <2>2. s \in Times /\ n \in 0 .. Limit /\ clock \in Times /\ granted[d] \in Grants
      BY <1>4 DEF LInv, TypeOK, Grants
    <2>3. Spent(granted[d], s, n)
      BY <1>4 DEF WindowInv
    <2> HIDE DEF s, n
    <2>4. Spent(granted[d], s, Limit)
      <3>1. s \in Int /\ n \in Nat /\ Limit \in Nat /\ n <= Limit
        BY <2>2, BoundsAreNat, QuotaPositive DEF Times
      <3> QED BY <2>2, <2>3, <3>1, SpentWeaker
    <2>5. check[q].now \in Times /\ check[q].now <= clock
      BY Pending
    <2>6. s \in -Window .. MaxTime /\ s + Window <= clock
      BY <2>1, <2>2, <2>5, BoundsAreNat, QuotaPositive DEF Times
    <2>7. ASSUME NEW p \in Requests, check'[p] # Idle PROVE s + Window <= check'[p].now
      <3>1. check'[p] = check[p] /\ check[p] # Idle
        BY <1>1, <2>7
      <3>2. check[p].now \in Times /\ clock <= check[p].now + MaxDelay
        BY <3>1, Pending
      <3> QED BY <2>1, <2>2, <2>5, <3>1, <3>2, BoundsAreNat, QuotaPositive DEF Times
    <2> QED BY <1>2, <2>4, <2>6, <2>7 DEF WindowInv
  <1> QED BY <1>3, <1>4

\* time.Unix drops less than a second.
LEMMA UnixDrops ==
  ASSUME NEW t \in Nat
  PROVE  Unix(t) \in Nat /\ Unix(t) <= t /\ t < Unix(t) + Second
  <1> DEFINE k == t \div Second
  <1>1. k \in Nat /\ k * Second <= t /\ t < k * Second + Second
    BY SecondPositive
  <1> HIDE DEF k
  <1>2. k * Second \in Nat
    BY <1>1, SecondPositive
  <1> QED BY <1>1, <1>2 DEF Unix, k

-----------------------------------------------------------------------------
(* The invariant.                                                            *)

\* The invariant holds initially.
LEMMA LInvInit == Init => LInv
  <1> SUFFICES ASSUME Init PROVE LInv
    OBVIOUS
  <1>1. /\ clock \in Times /\ 0 \in Times /\ DOMAIN clients = {}
        /\ granted \in [Addresses -> Grants]
        /\ \A c \in Addresses, t \in Times : granted[c][t] = 0
    BY BoundsAreNat DEF Init, Times, Grants
  <1>2. IsFiniteSet(DOMAIN clients) /\ Cardinality(DOMAIN clients) = 0
    BY <1>1, FS_EmptySet
  <1>3. TypeOK
    BY <1>1, <1>2, QuotaPositive, CapacityIsNat DEF Init, TypeOK, Idle, NoPromise, Grants
  <1>4. Readings /\ PromiseInv
    BY DEF Init, Readings, PromiseInv, Idle
  <1>5. ASSUME NEW c \in Addresses, NEW S, S \subseteq Times PROVE Total(granted[c], S) = 0
    <2>1. IsFiniteSet(S) /\ \A k \in S : granted[c][k] = 0 /\ granted[c][k] \in Nat
      BY <1>1, <1>5, GrantSums
    <2>2. Units(granted[c], S) = {}
      <3>1. \A u : u \in Units(granted[c], S) =>
                     \E k \in S : \E i \in 1 .. granted[c][k] : u = <<k, i>>
        BY UnitsArePairs
      <3> QED BY <2>1, <3>1
    <2> QED BY <2>1, <2>2, TotalIsUnits, FS_EmptySet
  <1>6. ASSUME NEW c \in Addresses PROVE WindowInv(c) /\ Burst(c)
    <2>1. \A t : Since(granted[c], t) = 0
      BY <1>5 DEF Since
    <2>2. Spent(granted[c], -Window, Limit)
      BY <2>1, QuotaPositive DEF Spent
    <2>3. -Window \in -Window .. MaxTime /\ -Window + Window <= clock
      BY <1>1, BoundsAreNat, QuotaPositive DEF Times
    <2>4. WindowInv(c)
      BY <1>1, <2>2, <2>3 DEF WindowInv, Init
    <2>5. \A t \in Times : Total(granted[c], Span(t)) = 0
      BY <1>5 DEF Span
    <2> QED BY <2>4, <2>5, QuotaPositive DEF Burst
  <1> QED BY <1>2, <1>3, <1>4, <1>6 DEF LInv

\* A request reads the clock.
LEMMA ReadClockKeeps ==
  ASSUME LInv, NEW q \in Requests, NEW o \in Clients, ReadClock(q, o)
  PROVE  LInv'
  <1> USE DEF LInv
  <1>1. PICK c \in Attributed[o] :
          check' = [check EXCEPT ![q] = [client |-> c, now |-> clock]]
    BY DEF ReadClock
  <1>2. c \in Addresses
    BY AttributedToAddress
  <1>3. UNCHANGED <<clock, clients, granted, promise>> /\ clock \in Times
    BY DEF ReadClock, TypeOK
  <1>4. /\ check'[q] = [client |-> c, now |-> clock]
        /\ \A p \in Requests \ {q} : check'[p] = check[p]
        /\ check' \in [Requests -> {Idle} \cup Checking]
    BY <1>1, <1>2, <1>3 DEF TypeOK, Checking
  <1>5. TypeOK'
    BY <1>3, <1>4 DEF TypeOK
  <1>6. Readings'
    BY <1>3, <1>4, BoundsAreNat DEF Readings, Times
  <1>7. PromiseInv' /\ IsFiniteSet(DOMAIN clients')
    BY <1>3 DEF PromiseInv
  <1>8. ASSUME NEW d \in Addresses, WindowInv(d) /\ Burst(d) PROVE WindowInv(d)' /\ Burst(d)'
    <2>1. CASE d \in DOMAIN clients
      BY <1>3, <1>8, <2>1 DEF WindowInv, Burst
    <2>2. CASE d \notin DOMAIN clients
      <3>1. PICK s \in -Window .. MaxTime :
              /\ Spent(granted[d], s, Limit)
              /\ s + Window <= clock
              /\ \A p \in Requests : check[p] # Idle => s + Window <= check[p].now
        BY <1>8, <2>2 DEF WindowInv
      <3>2. \A p \in Requests : check'[p] # Idle => s + Window <= check'[p].now
        BY <1>4, <3>1
      <3> QED BY <1>3, <1>8, <2>2, <3>1, <3>2 DEF WindowInv, Burst
    <2> QED BY <2>1, <2>2
  <1> QED BY <1>5, <1>6, <1>7, <1>8

\* Time passes.
LEMMA TickKeeps ==
  ASSUME LInv, Tick PROVE LInv'
  <1> USE DEF LInv
  <1>1. /\ UNCHANGED <<clients, check, granted, promise>>
        /\ clock' = clock + 1 /\ clock \in Times /\ clock' \in Times
        /\ \A q \in Requests : check[q] # Idle => clock - check[q].now < MaxDelay
    BY BoundsAreNat DEF Tick, TypeOK, Times
  <1>2. TypeOK' /\ IsFiniteSet(DOMAIN clients') /\ PromiseInv'
    BY <1>1 DEF TypeOK, PromiseInv
  <1>3. Readings'
    <2> SUFFICES ASSUME NEW q \in Requests, check'[q] # Idle
                 PROVE  check'[q].now <= clock' /\ clock' <= check'[q].now + MaxDelay
      BY DEF Readings
    <2>1. check'[q] = check[q] /\ check[q].now \in Times /\ check[q].now <= clock
      BY <1>1, Pending
    <2> QED BY <1>1, <2>1, BoundsAreNat DEF Times
  <1>4. ASSUME NEW d \in Addresses, WindowInv(d) /\ Burst(d) PROVE WindowInv(d)' /\ Burst(d)'
    <2>1. CASE d \in DOMAIN clients
      <3>1. clients[d].windowStart \in Times
        BY <2>1 DEF TypeOK
      <3>2. clients[d].windowStart <= clock'
        BY <1>1, <1>4, <2>1, <3>1, BoundsAreNat DEF WindowInv, Times
      <3> QED BY <1>1, <1>4, <2>1, <3>2 DEF WindowInv, Burst
    <2>2. CASE d \notin DOMAIN clients
      <3>1. PICK s \in -Window .. MaxTime :
              /\ Spent(granted[d], s, Limit)
              /\ s + Window <= clock
              /\ \A p \in Requests : check[p] # Idle => s + Window <= check[p].now
        BY <1>4, <2>2 DEF WindowInv
      <3>2. s + Window <= clock'
        BY <1>1, <3>1, BoundsAreNat, QuotaPositive DEF Times
      <3> QED BY <1>1, <1>4, <2>2, <3>1, <3>2 DEF WindowInv, Burst
    <2> QED BY <2>1, <2>2
  <1> QED BY <1>2, <1>3, <1>4

\* The requests in flight that a decision leaves alone.
LEMMA AnsweredKeeps ==
  ASSUME LInv, NEW q \in Requests, Answered(q)
  PROVE  /\ clock' = clock /\ clock \in Times
         /\ check' \in [Requests -> {Idle} \cup Checking]
         /\ Readings'
  <1>1. /\ clock' = clock /\ clock \in Times /\ check'[q] = Idle
        /\ \A p \in Requests \ {q} : check'[p] = check[p]
        /\ check' \in [Requests -> {Idle} \cup Checking]
    BY DEF Answered, LInv, TypeOK
  <1>2. Readings'
    BY <1>1 DEF LInv, Readings
  <1> QED BY <1>1, <1>2

\* The clients that a decision is not about lose at most a window that is too old to
\* matter.
LEMMA OthersKeep ==
  ASSUME LInv, MaxDelay <= Window, NEW q \in Requests, check[q] # Idle, NEW map \in Roomy(q),
         Answered(q), NEW d \in Addresses, granted'[d] = granted[d],
         d \in DOMAIN clients' <=> d \in DOMAIN map,
         d \in DOMAIN map => clients'[d] = map[d]
  PROVE  WindowInv(d)' /\ Burst(d)'
  <1>1. WindowInv(d) /\ Burst(d)
    BY DEF LInv
  <1>2. clock' = clock
    BY DEF Answered
  <1>3. Burst(d)'
    BY <1>1 DEF Burst
  <1>4. CASE d \in DOMAIN map
    <2>1. d \in DOMAIN clients /\ clients'[d] = clients[d] /\ d \in DOMAIN clients'
      BY <1>4, CleanedMap
    <2> QED BY <1>1, <1>2, <1>3, <2>1 DEF WindowInv
  <1>5. CASE d \notin DOMAIN map
    BY <1>1, <1>3, <1>5, WindowForgotten
  <1> QED BY <1>4, <1>5

\* A request is refused for want of room.
LEMMA RefusedAtCapacityKeeps ==
  ASSUME LInv, NEW q \in Requests, RefusedAtCapacity(q)
  PROVE  LInv'
  <1> DEFINE c == check[q].client
             r == Unix(check[q].now + Window)
  <1>1. check[q] # Idle /\ Answered(q) /\ granted' = granted
    BY DEF RefusedAtCapacity, Refused
  <1>2. PICK map \in Roomy(q) : ~HasRoom(c, map) /\ clients' = map
    BY DEF RefusedAtCapacity
  <1>3. /\ c \in Addresses /\ check[q].now \in Times
    BY <1>1, Pending
  <1>4. promise' = [promise EXCEPT ![c] = [reset |-> r, since |-> 0]]
    BY <1>3 DEF RefusedAtCapacity, Refused
  <1>5. r \in Nat
    <2>1. check[q].now + Window \in Nat
      BY <1>3, BoundsAreNat, QuotaPositive DEF Times
    <2> QED BY <2>1, UnixDrops
  <1>6. /\ DOMAIN map \subseteq DOMAIN clients /\ IsFiniteSet(DOMAIN map)
        /\ Cardinality(DOMAIN map) <= MaxClients
        /\ \A d \in DOMAIN map : map[d] = clients[d]
    BY <1>1, CleanedMap
  <1>7. c \notin DOMAIN map
    BY <1>2 DEF HasRoom
  <1> HIDE DEF c, r
  <1>8. /\ promise' \in [Addresses -> [reset : Nat \cup {None}, since : 0 .. Limit]]
        /\ \A d \in Addresses \ {c} : promise'[d] = promise[d]
    BY <1>3, <1>4, <1>5, QuotaPositive DEF LInv, TypeOK
  <1>9. TypeOK'
    <2>1. clock' \in Times
      BY <1>1, AnsweredKeeps
    <2>2. check' \in [Requests -> {Idle} \cup Checking]
      BY <1>1, AnsweredKeeps
    <2> QED BY <1>1, <1>2, <1>6, <1>8, <2>1, <2>2 DEF LInv, TypeOK
  <1>10. PromiseInv'
    BY <1>2, <1>6, <1>7, <1>8 DEF LInv, PromiseInv
  <1>11. ASSUME MaxDelay <= Window, NEW d \in Addresses PROVE WindowInv(d)' /\ Burst(d)'
    BY <1>1, <1>2, <1>11, OthersKeep
  <1>12. Readings'
    BY <1>1, AnsweredKeeps
  <1> QED BY <1>2, <1>6, <1>9, <1>10, <1>11, <1>12 DEF LInv

\* What Decide does, in terms of the window that the request falls in.
LEMMA DecideIs ==
  ASSUME LInv, NEW q \in Requests, Decide(q)
  PROVE  \E map \in Roomy(q), w \in [windowStart : Times, count : 0 .. Limit] :
           LET c == check[q].client
               v == [windowStart |-> w.windowStart,
                     count |-> IF w.count < Limit THEN w.count + 1 ELSE w.count]
               h == [granted[c] EXCEPT ![clock] = @ + 1]
           IN  /\ check[q] # Idle /\ Answered(q) /\ HasRoom(c, map)
               /\ \/ c \in DOMAIN map /\ w = map[c]
                       /\ check[q].now - w.windowStart < Window
                  \/ /\ w = [windowStart |-> check[q].now, count |-> 0]
                     /\ c \in DOMAIN map => check[q].now - map[c].windowStart >= Window
               /\ clients' = [d \in DOMAIN map \cup {c} |-> IF d = c THEN v ELSE map[d]]
               /\ \/ /\ w.count < Limit
                     /\ granted' = [granted EXCEPT ![c] = h]
                     /\ promise' = [promise EXCEPT ![c] =
                                      [reset |-> promise[c].reset,
                                       since |-> Min({promise[c].since + 1, Limit})]]
                  \/ /\ w.count >= Limit /\ granted' = granted
                     /\ promise' = [promise EXCEPT ![c] =
                                      [reset |-> Unix(w.windowStart + Window), since |-> 0]]
  <1> DEFINE c == check[q].client
             h == [granted[c] EXCEPT ![clock] = @ + 1]
  <1>1. check[q] # Idle /\ Answered(q)
    BY DEF Decide
  <1>2. /\ c \in Addresses /\ check[q].now \in Times
    BY <1>1, Pending
  <1>3. PICK map \in Roomy(q) :
          LET w == WindowFor(q, map)
              n == IF w.count < Limit THEN w.count + 1 ELSE w.count
          IN  /\ HasRoom(c, map)
              /\ clients' = [d \in DOMAIN map \cup {c} |->
                               IF d = c THEN [w EXCEPT !.count = n] ELSE map[d]]
              /\ \/ /\ w.count < Limit
                    /\ granted' = [granted EXCEPT ![c][clock] = @ + 1]
                    /\ promise' = [promise EXCEPT ![c].since = Min({@ + 1, Limit})]
                 \/ ~(w.count < Limit) /\ Refused(q, w.windowStart + Window)
    BY <1>2 DEF Decide
  <1> DEFINE w == WindowFor(q, map)
             v == [windowStart |-> w.windowStart,
                   count |-> IF w.count < Limit THEN w.count + 1 ELSE w.count]
  <1>4. /\ DOMAIN map \subseteq DOMAIN clients
        /\ \A d \in DOMAIN map : map[d] = clients[d]
    BY <1>1, CleanedMap
  <1>5. \A d \in DOMAIN map : map[d] \in [windowStart : Times, count : 0 .. Limit]
    BY <1>4 DEF LInv, TypeOK
  <1>6. \/ c \in DOMAIN map /\ w = map[c] /\ check[q].now - w.windowStart < Window
        \/ /\ w = [windowStart |-> check[q].now, count |-> 0]
           /\ c \in DOMAIN map => ~(check[q].now - map[c].windowStart < Window)
    BY DEF WindowFor
  <1>7. w \in [windowStart : Times, count : 0 .. Limit]
    BY <1>2, <1>5, <1>6, QuotaPositive
  <1>8. c \in DOMAIN map => check[q].now - map[c].windowStart < Window
                              \/ check[q].now - map[c].windowStart >= Window
    BY <1>2, <1>5, BoundsAreNat, QuotaPositive DEF Times
  <1> HIDE DEF c, w
  <1>9. [w EXCEPT !.count = IF w.count < Limit THEN w.count + 1 ELSE w.count] = v
    BY <1>7
  <1>10. /\ promise \in [Addresses -> [reset : Nat \cup {None}, since : 0 .. Limit]]
         /\ granted \in [Addresses -> Grants]
    BY DEF LInv, TypeOK, Grants
  <1>11. [promise EXCEPT ![c].since = Min({@ + 1, Limit})] =
           [promise EXCEPT ![c] = [reset |-> promise[c].reset,
                                   since |-> Min({promise[c].since + 1, Limit})]]
    <2> DEFINE m == Min({promise[c].since + 1, Limit})
    <2> HIDE DEF m
    <2>1. c \in Addresses /\ promise[c] \in [reset : Nat \cup {None}, since : 0 .. Limit]
      BY <1>2, <1>10 DEF c
    <2>2. [promise[c] EXCEPT !.since = m] = [reset |-> promise[c].reset, since |-> m]
      BY <2>1
    <2>3. [promise EXCEPT ![c].since = m] = [promise EXCEPT ![c] = [promise[c] EXCEPT !.since = m]]
      OBVIOUS
    <2> QED BY <2>2, <2>3 DEF m
  <1>12. [granted EXCEPT ![c][clock] = @ + 1] =
           [granted EXCEPT ![c] = h]
    OBVIOUS
  <1>13. w.count \in Nat /\ Limit \in Nat
    BY <1>7, QuotaPositive
  <1>14. clients' = [d \in DOMAIN map \cup {c} |-> IF d = c THEN v ELSE map[d]]
    BY <1>3, <1>9 DEF w, c
  <1>15. \/ /\ w.count < Limit
            /\ granted' = [granted EXCEPT ![c] = h]
            /\ promise' = [promise EXCEPT ![c] =
                             [reset |-> promise[c].reset,
                              since |-> Min({promise[c].since + 1, Limit})]]
         \/ /\ w.count >= Limit /\ granted' = granted
            /\ promise' = [promise EXCEPT ![c] =
                             [reset |-> Unix(w.windowStart + Window), since |-> 0]]
    <2>1. CASE w.count < Limit
      BY <1>3, <1>11, <1>12, <2>1 DEF w, c
    <2>2. CASE ~(w.count < Limit)
      <3>1. Refused(q, w.windowStart + Window) /\ w.count >= Limit
        BY <1>3, <1>13, <2>2 DEF w, c
      <3> QED BY <1>2, <3>1 DEF Refused, c
    <2> QED BY <2>1, <2>2
  <1>16. HasRoom(c, map)
    BY <1>3 DEF c
  <1>17. \/ c \in DOMAIN map /\ w = map[c] /\ check[q].now - w.windowStart < Window
         \/ /\ w = [windowStart |-> check[q].now, count |-> 0]
            /\ c \in DOMAIN map => check[q].now - map[c].windowStart >= Window
    BY <1>6, <1>8
  <1> QED BY <1>1, <1>7, <1>14, <1>15, <1>16, <1>17 DEF c

\* A request is decided: granted in its window or in a new one, or refused.
LEMMA DecideKeeps ==
  ASSUME LInv, NEW q \in Requests, Decide(q)
  PROVE  LInv'
  <1> DEFINE c == check[q].client
             now == check[q].now
             h == [granted[c] EXCEPT ![clock] = @ + 1]
             V(w) == [windowStart |-> w.windowStart,
                      count |-> IF w.count < Limit THEN w.count + 1 ELSE w.count]
  <1>1. PICK map \in Roomy(q), w \in [windowStart : Times, count : 0 .. Limit] :
          /\ check[q] # Idle /\ Answered(q) /\ HasRoom(c, map)
          /\ \/ c \in DOMAIN map /\ w = map[c] /\ now - w.windowStart < Window
             \/ /\ w = [windowStart |-> now, count |-> 0]
                /\ c \in DOMAIN map => now - map[c].windowStart >= Window
          /\ clients' = [d \in DOMAIN map \cup {c} |-> IF d = c THEN V(w) ELSE map[d]]
          /\ \/ /\ w.count < Limit
                /\ granted' = [granted EXCEPT ![c] = h]
                /\ promise' = [promise EXCEPT ![c] =
                                 [reset |-> promise[c].reset,
                                  since |-> Min({promise[c].since + 1, Limit})]]
             \/ /\ w.count >= Limit /\ granted' = granted
                /\ promise' = [promise EXCEPT ![c] =
                                 [reset |-> Unix(w.windowStart + Window), since |-> 0]]
    BY DecideIs
  <1> DEFINE s == w.windowStart
             n == w.count
             m == V(w).count
             least == Min({promise[c].since + 1, Limit})
             reset == Unix(s + Window)
  <1>2. /\ c \in Addresses /\ now \in Times /\ now <= clock /\ clock <= now + MaxDelay
    BY <1>1, Pending
  <1>3. /\ DOMAIN map \subseteq DOMAIN clients /\ IsFiniteSet(DOMAIN map)
        /\ Cardinality(DOMAIN map) \in Nat /\ Cardinality(DOMAIN map) <= MaxClients
        /\ \A d \in DOMAIN map : map[d] = clients[d]
        /\ c \in DOMAIN clients => map = clients
    BY <1>1, CleanedMap
  <1>4. /\ clock' = clock /\ clock \in Times /\ Readings'
        /\ check' \in [Requests -> {Idle} \cup Checking]
    BY <1>1, AnsweredKeeps
  <1>5. /\ s \in Times /\ n \in 0 .. Limit /\ m \in 0 .. Limit /\ Limit \in Nat \ {0}
        /\ m = IF n < Limit THEN n + 1 ELSE n
        /\ V(w) = [windowStart |-> s, count |-> m]
        /\ V(w) \in [windowStart : Times, count : 0 .. Limit]
    BY <1>1, QuotaPositive
  <1>6. /\ granted \in [Addresses -> Grants] /\ h \in Grants /\ h # granted[c]
        /\ promise \in [Addresses -> [reset : Nat \cup {None}, since : 0 .. Limit]]
    <2>1. /\ granted \in [Addresses -> Grants]
          /\ promise \in [Addresses -> [reset : Nat \cup {None}, since : 0 .. Limit]]
      BY DEF LInv, TypeOK, Grants
    <2>2. granted[c] \in Grants /\ Times \subseteq Times
      BY <1>2, <2>1
    <2> QED BY <1>4, <2>1, <2>2, GrantAdds
  <1>7. /\ reset \in Nat /\ s + Window < reset + Second
    <2>1. s + Window \in Nat
      BY <1>5, BoundsAreNat, QuotaPositive DEF Times
    <2> QED BY <2>1, UnixDrops
  <1>8. /\ least \in 0 .. Limit /\ promise[c].since \in 0 .. Limit
        /\ least = IF promise[c].since + 1 <= Limit THEN promise[c].since + 1 ELSE Limit
    <2>1. promise[c].since \in 0 .. Limit /\ promise[c].since + 1 \in Int /\ Limit \in Int
      BY <1>2, <1>5, <1>6
    <2> HIDE DEF least
    <2>2. least = IF promise[c].since + 1 <= Limit THEN promise[c].since + 1 ELSE Limit
      BY <2>1, MinOfTwo DEF least
    <2> QED BY <1>5, <2>1, <2>2
  <1>9. /\ c \in DOMAIN clients' /\ clients'[c] = [windowStart |-> s, count |-> m]
        /\ DOMAIN clients' = DOMAIN map \cup {c}
        /\ \A d \in DOMAIN map \ {c} : clients'[d] = map[d]
    BY <1>1, <1>5
  <1>10. c \in DOMAIN clients => c \in DOMAIN map
    BY <1>3
  <1>11. \/ c \in DOMAIN clients /\ w = clients[c] /\ now - s < Window
         \/ /\ w = [windowStart |-> now, count |-> 0]
            /\ c \in DOMAIN clients => now - clients[c].windowStart >= Window
    BY <1>1, <1>3, <1>10
  <1>12. \/ n < Limit /\ granted' = [granted EXCEPT ![c] = h]
              /\ promise' = [promise EXCEPT ![c] = [reset |-> promise[c].reset, since |-> least]]
         \/ n >= Limit /\ granted' = granted
              /\ promise' = [promise EXCEPT ![c] = [reset |-> reset, since |-> 0]]
    BY <1>1
  <1> HIDE DEF c, h, V, now, s, n, m, least, reset
  <1>13. TypeOK' /\ IsFiniteSet(DOMAIN clients')
    <2>1. /\ IsFiniteSet(DOMAIN clients')
          /\ Cardinality(DOMAIN clients') <= MaxClients
      <3>1. /\ IsFiniteSet(DOMAIN map \cup {c})
            /\ Cardinality(DOMAIN map \cup {c}) =
                 IF c \in DOMAIN map THEN Cardinality(DOMAIN map) ELSE Cardinality(DOMAIN map) + 1
        BY <1>3, FS_AddElement
      <3>2. c \in DOMAIN map \/ Cardinality(DOMAIN map) < MaxClients
        BY <1>1 DEF HasRoom
      <3> QED BY <1>3, <1>9, <3>1, <3>2, CapacityIsNat
    <2>2. /\ DOMAIN clients' \subseteq Addresses
          /\ \A d \in DOMAIN clients' : clients'[d] \in [windowStart : Times, count : 0 .. Limit]
      BY <1>2, <1>3, <1>5, <1>9 DEF LInv, TypeOK
    <2>3. granted' \in [Addresses -> [Times -> Nat]]
      BY <1>6, <1>12 DEF Grants
    <2>4. promise' \in [Addresses -> [reset : Nat \cup {None}, since : 0 .. Limit]]
      BY <1>2, <1>5, <1>6, <1>7, <1>8, <1>12
    <2> QED BY <1>4, <2>1, <2>2, <2>3, <2>4 DEF TypeOK
  <1>14. PromiseInv'
    <2> SUFFICES ASSUME NEW d \in Addresses, d \in DOMAIN clients', promise'[d].reset # None
                 PROVE  \/ clients'[d].windowStart + Window < promise'[d].reset + Second
                        \/ clients'[d].count <= promise'[d].since
      BY DEF PromiseInv
    <2>1. CASE d # c
      <3>1. d \in DOMAIN map /\ clients'[d] = clients[d] /\ d \in DOMAIN clients
        BY <1>3, <1>9, <2>1
      <3>2. promise'[d] = promise[d]
        BY <1>2, <1>6, <1>12, <2>1
      <3> QED BY <3>1, <3>2 DEF LInv, PromiseInv
    <2>2. CASE d = c /\ n >= Limit
      <3>1. promise'[c].reset = reset /\ clients'[c].windowStart = s
        BY <1>2, <1>5, <1>6, <1>9, <1>12, <2>2
      <3> QED BY <1>7, <2>2, <3>1
    <2>3. CASE d = c /\ n < Limit
      <3>1. /\ promise'[c].reset = promise[c].reset /\ promise'[c].since = least
            /\ clients'[c].windowStart = s /\ clients'[c].count = n + 1
        BY <1>2, <1>5, <1>6, <1>9, <1>12, <2>3
      <3>2. CASE n <= promise[c].since
        BY <1>5, <1>8, <2>3, <3>1, <3>2
      <3>3. CASE ~(n <= promise[c].since)
        <4>1. n # 0
          BY <1>8, <3>3
        <4>2. c \in DOMAIN clients /\ w = clients[c]
          BY <1>11, <4>1 DEF n
        <4>3. clients[c].windowStart = s /\ clients[c].count = n
          BY <4>2 DEF s, n
        <4> QED BY <1>2, <2>3, <3>1, <3>3, <4>2, <4>3 DEF LInv, PromiseInv
      <3> QED BY <3>2, <3>3
    <2> QED BY <1>5, <2>1, <2>2, <2>3
  <1>15. ASSUME MaxDelay <= Window, NEW d \in Addresses \ {c} PROVE WindowInv(d)' /\ Burst(d)'
    <2>1. granted'[d] = granted[d]
      BY <1>2, <1>6, <1>12
    <2>2. /\ d \in DOMAIN clients' <=> d \in DOMAIN map
          /\ d \in DOMAIN map => clients'[d] = map[d]
      BY <1>9
    <2> QED BY <1>1, <1>15, <2>1, <2>2, OthersKeep
  <1>16. ASSUME MaxDelay <= Window, NEW d \in Addresses, d = c PROVE WindowInv(d)' /\ Burst(d)'
    <2>1. WindowInv(c) /\ Burst(c)
      BY <1>2, <1>16 DEF LInv
    <2>2. clients'[c].windowStart = s /\ clients'[c].count = m
      BY <1>9
    <2>3. CASE n >= Limit
      <3>1. granted'[c] = granted[c] /\ m = n
        BY <1>5, <1>12, <2>3
      <3>2. n # 0
        BY <1>5, <2>3
      <3>3. c \in DOMAIN clients /\ w = clients[c]
        BY <1>11, <3>2 DEF n
      <3>4. s <= clock /\ Spent(granted[c], s, n)
        BY <2>1, <3>3 DEF WindowInv, s, n
      <3> QED BY <1>4, <1>9, <1>16, <2>1, <2>2, <3>1, <3>4 DEF WindowInv, Burst
    <2>4. CASE n < Limit
      <3>1. granted'[c] = h /\ m = n + 1 /\ granted[c] \in Grants
        BY <1>2, <1>5, <1>6, <1>12, <2>4
      <3>2. s <= clock /\ Spent(h, s, m)
        <4>1. CASE c \in DOMAIN clients /\ w = clients[c] /\ now - s < Window
          <5>1. s <= clock /\ Spent(granted[c], s, n)
            BY <2>1, <4>1 DEF WindowInv, s, n
          <5>2. n \in Nat
            BY <1>5
          <5>3. Spent(h, s, n + 1)
            BY <1>2, <1>4, <1>5, <3>1, <4>1, <5>1, <5>2, GrantInWindow DEF h
          <5> QED BY <3>1, <5>1, <5>3
        <4>2. CASE /\ w = [windowStart |-> now, count |-> 0]
                   /\ c \in DOMAIN clients => now - clients[c].windowStart >= Window
          <5>1. s = now /\ n = 0 /\ m = 1
            BY <3>1, <4>2 DEF s, n
          <5>2. PICK b \in Int, k \in Nat :
                  k <= Limit /\ Spent(granted[c], b, k) /\ b + Window <= now
            <6>1. CASE c \in DOMAIN clients
              <7> DEFINE b == clients[c].windowStart
                         k == clients[c].count
              <7>1. b \in Times /\ k \in 0 .. Limit
                BY <6>1 DEF LInv, TypeOK
              <7>2. Spent(granted[c], b, k) /\ now - b >= Window
                BY <2>1, <4>2, <6>1 DEF WindowInv
              <7> HIDE DEF b, k
              <7>3. b \in Int /\ k \in Nat /\ k <= Limit /\ b + Window <= now
                BY <1>2, <1>5, <7>1, <7>2, BoundsAreNat, QuotaPositive DEF Times
              <7> QED BY <7>2, <7>3
            <6>2. CASE c \notin DOMAIN clients
              <7>1. PICK b \in -Window .. MaxTime :
                      /\ Spent(granted[c], b, Limit)
                      /\ \A p \in Requests : check[p] # Idle => b + Window <= check[p].now
                BY <2>1, <6>2 DEF WindowInv
              <7>2. b + Window <= now
                BY <1>1, <7>1 DEF now
              <7>3. b \in Int /\ Limit \in Nat /\ Limit <= Limit
                BY <1>5, BoundsAreNat, QuotaPositive
              <7> QED BY <7>1, <7>2, <7>3
            <6> QED BY <6>1, <6>2
          <5>3. Spent(h, now, 1)
            BY <1>2, <1>4, <3>1, <5>2, GrantInNewWindow DEF h
          <5> QED BY <1>2, <5>1, <5>3
        <4> QED BY <1>11, <4>1, <4>2
      <3>3. \A t \in Times : Total(granted[c], Span(t)) <= 2 * Limit
        BY <2>1 DEF Burst
      <3>4. \A t \in Times : Total(h, Span(t)) <= 2 * Limit
        BY <1>4, <1>5, <3>1, <3>2, <3>3, GrantInSpan DEF h
      <3>5. Burst(d)'
        BY <1>16, <3>1, <3>4 DEF Burst
      <3> QED BY <1>4, <1>9, <1>16, <2>2, <3>1, <3>2, <3>5 DEF WindowInv
    <2> QED BY <1>5, <2>3, <2>4
  <1> QED BY <1>4, <1>13, <1>14, <1>15, <1>16 DEF LInv

\* Every step keeps the invariant.
LEMMA LInvNext == LInv /\ [Next]_vars => LInv'
  <1> SUFFICES ASSUME LInv, [Next]_vars PROVE LInv'
    OBVIOUS
  <1>1. ASSUME NEW q \in Requests, NEW o \in Clients, ReadClock(q, o) PROVE LInv'
    BY <1>1, ReadClockKeeps
  <1>2. ASSUME NEW q \in Requests, RefusedAtCapacity(q) PROVE LInv'
    BY <1>2, RefusedAtCapacityKeeps
  <1>3. ASSUME NEW q \in Requests, Decide(q) PROVE LInv'
    BY <1>3, DecideKeeps
  <1>4. CASE Tick
    BY <1>4, TickKeeps
  <1>5. CASE UNCHANGED vars
    BY <1>5 DEF vars, LInv, TypeOK, Readings, PromiseInv, WindowInv, Burst
  <1> QED BY <1>1, <1>2, <1>3, <1>4, <1>5 DEF Next

-----------------------------------------------------------------------------
(* The theorems.                                                             *)

\* However the requests counted under one identity interleave and however late they
\* decide, no span shorter than a window less the delay is granted more than twice the
\* quota, and the table of clients stays within its bound.
THEOREM BurstsBounded == Spec => []BurstBounded
  <1>1. LInv => BurstBounded
    <2> SUFFICES ASSUME LInv PROVE BurstBounded
      OBVIOUS
    <2> SUFFICES ASSUME NEW c \in Addresses, NEW t \in Times
                 PROVE  Total(granted[c], Span(t)) <= 2 * Limit
      BY ClientsCountedAsOrigin DEF LInv, BurstBounded, Total, Span
    <2>1. CASE MaxDelay <= Window
      BY <2>1 DEF LInv, Burst
    <2>2. CASE ~(MaxDelay <= Window)
      <3>1. Span(t) = {}
        BY <2>2, BoundsAreNat, QuotaPositive DEF Span, Times
      <3>2. Total(granted[c], Span(t)) = 0
        BY <3>1, TotalEmpty
      <3> QED BY <3>2, QuotaPositive
    <2> QED BY <2>1, <2>2
  <1> QED BY LInvInit, LInvNext, <1>1, PTL DEF Spec

\* Check grants a request that read its clock after the second that the last refusal
\* of its client announced, unless the quota was used up again or the table is full.
THEOREM ResetsHonoured == Spec => ResetHonoured
  <1> DEFINE Honoured(q) ==
               LET c == check[q].client
               IN  /\ check[q] # Idle /\ check'[q] = Idle
                   /\ promise[c].reset # None
                   /\ promise[c].reset + Second <= check[q].now
                   /\ promise[c].since < Limit
                   /\ HasRoom(c, clients)
                   => granted'[c] # granted[c]
  <1>1. LInv /\ [Next]_vars => [\A q \in Requests : Honoured(q)]_vars
    <2> SUFFICES ASSUME LInv, Next, NEW q \in Requests,
                        check[q] # Idle, check'[q] = Idle,
                        promise[check[q].client].reset # None,
                        promise[check[q].client].reset + Second <= check[q].now,
                        promise[check[q].client].since < Limit,
                        HasRoom(check[q].client, clients)
                 PROVE  granted'[check[q].client] # granted[check[q].client]
      OBVIOUS
    <2> DEFINE c == check[q].client
    <2>1. c \in Addresses /\ check[q].now \in Times
      BY Pending
    <2>2. ASSUME NEW p \in Requests, Answered(p) PROVE p = q
      BY <2>2 DEF LInv, TypeOK, Answered
    <2>3. ASSUME NEW p \in Requests, NEW o \in Clients, ReadClock(p, o) PROVE FALSE
      <3>1. p = q
        BY <2>3 DEF LInv, TypeOK, ReadClock
      <3> QED BY <2>3, <3>1 DEF ReadClock
    <2>4. ~Tick
      BY DEF Tick
    <2>5. ASSUME NEW p \in Requests, RefusedAtCapacity(p) PROVE FALSE
      <3>1. p = q
        BY <2>2, <2>5 DEF RefusedAtCapacity
      <3>2. PICK map \in Roomy(q) : ~HasRoom(c, map)
        BY <2>5, <3>1 DEF RefusedAtCapacity
      <3> QED BY <3>2, CleanedMap
    <2>6. CASE Decide(q)
      <3> DEFINE h == [granted[c] EXCEPT ![clock] = @ + 1]
      <3>1. PICK map \in Roomy(q), w \in [windowStart : Times, count : 0 .. Limit] :
              /\ \/ c \in DOMAIN map /\ w = map[c] /\ check[q].now - w.windowStart < Window
                 \/ w = [windowStart |-> check[q].now, count |-> 0]
              /\ \/ granted' = [granted EXCEPT ![c] = h]
                 \/ w.count >= Limit
        BY <2>6, DecideIs
      <3>2. CASE w.count >= Limit
        <4>1. w.windowStart \in Times /\ w.count = Limit /\ w.count # 0
          BY <3>2, QuotaPositive
        <4>2. c \in DOMAIN map /\ w = map[c] /\ check[q].now - w.windowStart < Window
          BY <3>1, <4>1
        <4>3. c \in DOMAIN clients /\ w = clients[c]
          BY <4>2, CleanedMap
        <4>4. promise[c].since \in 0 .. Limit /\ promise[c].reset \in Nat
          BY <2>1 DEF LInv, TypeOK
        <4>5. w.windowStart + Window < promise[c].reset + Second
          <5>1. \/ w.windowStart + Window < promise[c].reset + Second
                \/ w.count <= promise[c].since
            BY <2>1, <4>3 DEF LInv, PromiseInv
          <5>2. ~(w.count <= promise[c].since)
            BY <2>1, <4>1, <4>4, QuotaPositive
          <5> QED BY <5>1, <5>2
        <4>6. promise[c].reset + Second <= check[q].now
          BY <2>1
        <4> HIDE DEF c
        <4> QED BY <2>1, <4>1, <4>2, <4>4, <4>5, <4>6, BoundsAreNat, QuotaPositive, SecondPositive
              DEF Times
      <3>3. CASE granted' = [granted EXCEPT ![c] = h]
        <4>1. granted \in [Addresses -> Grants] /\ clock \in Times
          BY DEF LInv, TypeOK, Grants
        <4>2. granted[c] \in Grants /\ Times \subseteq Times
          BY <2>1, <4>1
        <4>3. h # granted[c]
          BY <4>1, <4>2, GrantAdds
        <4> HIDE DEF h
        <4> QED BY <2>1, <3>3, <4>1, <4>3
      <3> QED BY <3>1, <3>2, <3>3
    <2>7. ASSUME NEW p \in Requests, Decide(p) PROVE p = q
      BY <2>2, <2>7 DEF Decide
    <2> QED BY <2>3, <2>4, <2>5, <2>6, <2>7 DEF Next
  <1>2. Spec => []LInv
    BY LInvInit, LInvNext, PTL DEF Spec
  <1>3. Spec => [][\A q \in Requests : Honoured(q)]_vars
    BY <1>1, <1>2, PTL DEF Spec
  <1> QED BY <1>3 DEF ResetHonoured

=============================================================================
