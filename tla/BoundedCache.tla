----------------------------- MODULE BoundedCache -----------------------------
(***************************************************************************)
(* What the service expects of a cache, whatever it is made of: under a key *)
(* there is the value that is current for the key or nothing, the cache     *)
(* accounts for exactly what it holds, and that is within its limits.  It   *)
(* may forget anything at any time.                                         *)
(*                                                                          *)
(* Spec keeps the byte limit whatever is stored; EdgeWorker implements it.  *)
(* SpecByAdding enforces it only when a key is added, so that a value that  *)
(* replaces a smaller one may exceed it; ParseCache implements that.        *)
(***************************************************************************)
EXTENDS CacheLists

CONSTANTS
  Keys, Values,
  Size(_, _),   \* what a value takes up under a key
  Nil           \* no value

VARIABLES
  limits,    \* [entries, bytes], fixed when the cache is made
  contents,  \* the value kept under each key, or Nil
  used,      \* [entries, bytes], what the cache accounts for
  current    \* the value that is current under each key, or Nil

vars == <<limits, contents, used, current>>

Occupancy(c) ==
  LET kept == {k \in Keys : c[k] # Nil}
  IN  [entries |-> Cardinality(kept),
       bytes |-> Total([k \in kept |-> Size(k, c[k])], kept)]

\* An empty cache.
Init ==
  /\ contents = [k \in Keys |-> Nil]
  /\ used = Occupancy(contents)
  /\ current \in [Keys -> Values \cup {Nil}]

\* The cache keeps no more than given, accounts for it, and keeps the entry limit.
KeepsOnly(given) ==
  /\ DOMAIN contents' = Keys
  /\ \A k \in Keys : contents'[k] \in {given[k], Nil}
  /\ used' = Occupancy(contents')
  /\ used'.entries <= limits.entries
  /\ UNCHANGED limits

\* A value becomes current, or the current one is withdrawn (v = Nil); the former
\* value goes, whether there is room for the new one or not.
Renew(k, v) ==
  /\ current' = [current EXCEPT ![k] = v]
  /\ KeepsOnly([contents EXCEPT ![k] = v])

\* Values are forgotten.
Forget ==
  /\ KeepsOnly(contents)
  /\ UNCHANGED current

Change ==
  \/ \E k \in Keys, v \in Values \cup {Nil} : Renew(k, v)
  \/ Forget

Next == Change /\ used'.bytes <= limits.bytes

Spec == Init /\ [][Next]_vars

\* The byte limit holds for each value, and for all of them when a key is added.
AddsWithinBytes ==
  /\ \A k \in Keys : contents'[k] # Nil => Size(k, contents'[k]) <= limits.bytes
  /\ (\E k \in Keys : contents[k] = Nil /\ contents'[k] # Nil) => used'.bytes <= limits.bytes

NextByAdding == Change /\ AddsWithinBytes

SpecByAdding == Init /\ [][NextByAdding]_vars

=============================================================================
