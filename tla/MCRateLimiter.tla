---------------------------- MODULE MCRateLimiter ----------------------------
EXTENDS RateLimiter, TLC

\* A proxy known by a range of addresses and one by its own; a token is malformed.
MCTrustedProxyCIDRs == {{"proxy1"}, {"proxy2"}, {}}

\* Headers of up to two parts, malformed ones among them.
MCClaims == SeqOf(Addresses \cup {"malformed"}, 2)

MCSymmetry == Permutations(Requests)
=============================================================================
