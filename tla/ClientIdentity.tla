---------------------------- MODULE ClientIdentity ----------------------------
(***************************************************************************)
(* The identity a request is counted under (internal/api/middleware.go):    *)
(* clientIdentifier, which believes X-Forwarded-For from a trusted proxy    *)
(* only.                                                                    *)
(*                                                                          *)
(* An IP address is a member of Addresses.  Whatever else may stand for a   *)
(* host or a hop (a blank, a name, a malformed address) is a string outside *)
(* Addresses.  A header is the sequence of its comma-separated parts.       *)
(***************************************************************************)
EXTENDS Integers, Sequences, FiniteSetsExt

CONSTANTS
  Addresses,
  PublicAddresses,    \* the ones that are not private, loopback, multicast, ...
  TrustedProxyCIDRs,  \* ANALYZE_TRUSTED_PROXY_CIDRS: the addresses that each
                      \* token matches, none for a malformed token
  Blank,              \* an empty host
  NoAddress

ASSUME PublicAreAddresses == PublicAddresses \subseteq Addresses
ASSUME NoAddressIsNil == NoAddress \notin Addresses /\ Blank \notin Addresses

IsTrustedProxy(a) == \E token \in TrustedProxyCIDRs : a \in token

IsPublicClientIP(a) == a \in PublicAddresses

\* parseForwardedForChain: the places of the header that are hops, what is no
\* address being skipped.
ParseForwardedForChain(header) == {i \in DOMAIN header : header[i] \in Addresses}

\* Faulty variant: the chain is read from the left.
ForwardedClientIPLeftmost(header) ==
  LET untrusted == {i \in ParseForwardedForChain(header) : ~IsTrustedProxy(header[i])}
      public == {i \in untrusted : IsPublicClientIP(header[i])}
  IN  CASE public # {}                      -> header[Min(public)]
        [] public = {} /\ untrusted # {}    -> header[Min(untrusted)]
        [] untrusted = {}                   -> NoAddress

\* forwardedClientIP, from right to left: the first public hop that is not a
\* trusted proxy, or else the first hop that is none.
ForwardedClientIP(header) ==
  LET untrusted == {i \in ParseForwardedForChain(header) : ~IsTrustedProxy(header[i])}
      public == {i \in untrusted : IsPublicClientIP(header[i])}
  IN  CASE public # {}                      -> header[Max(public)]
        [] public = {} /\ untrusted # {}    -> header[Max(untrusted)]
        [] untrusted = {}                   -> NoAddress

\* remoteIPFromAddr: the host of the peer, if it is an address.
RemoteIPFromAddr(peer) == IF peer \in Addresses THEN peer ELSE NoAddress

\* clientIdentifier of a request from the peer with the given header.
ClientIdentifier(peer, header) ==
  LET remote == RemoteIPFromAddr(peer)
      forwarded == ForwardedClientIP(header)
  IN  CASE remote # NoAddress /\ IsTrustedProxy(remote) /\ forwarded # NoAddress
             -> forwarded
        [] peer = Blank -> "unknown"
        [] OTHER -> peer

=============================================================================
