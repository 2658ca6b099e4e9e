-------------------------- MODULE TranslationCache ---------------------------
(***************************************************************************)
(* TranslationCache over a TimestampLruCache, as both cores have one for   *)
(* data and one for instructions (liborbum/src/Common/Types/               *)
(* TranslationCache/TranslationCache.hpp, utilities/src/Caches.hpp).  Only *)
(* the order of the time stamps matters, ties included, so each operation  *)
(* replaces them by their ranks.                                           *)
(***************************************************************************)
EXTENDS Integers, Sequences, FiniteSets

CONSTANT Size           \* of each cache

Flushed == [total_cache_access |-> 0, entries |-> <<>>]

Ranked(cache) ==
  LET stamps == {cache.entries[i].stamp : i \in 1..Len(cache.entries)} \cup {cache.total_cache_access}
      rank(stamp) == Cardinality({s \in stamps : s < stamp})
  IN  [total_cache_access |-> rank(cache.total_cache_access),
       entries |-> [i \in 1..Len(cache.entries) |->
                      [cache.entries[i] EXCEPT !.stamp = rank(cache.entries[i].stamp)]]]

\* The places of a key: find_if takes the first.
Places(cache, key) == {i \in 1..Len(cache.entries) : cache.entries[i].key = key}
First(places) == CHOOSE i \in places : \A j \in places : i <= j
Hit(cache, key) == Places(cache, key) # {}
Cached(cache, key) == cache.entries[First(Places(cache, key))].value

\* get, of a key that is there
Touched(cache, key) ==
  LET now == cache.total_cache_access + 1
  IN  Ranked([total_cache_access |-> now,
              entries |-> [cache.entries EXCEPT ![First(Places(cache, key))].stamp = now]])

\* find_eviction_entry: the first of those with the lowest stamp
Eviction(cache) ==
  First({i \in 1..Len(cache.entries) :
           \A j \in 1..Len(cache.entries) : cache.entries[i].stamp <= cache.entries[j].stamp})

Inserted(cache, key, value) ==
  LET entry == [key |-> key, value |-> value, stamp |-> cache.total_cache_access]
  IN  Ranked([cache EXCEPT !.entries = IF Len(@) < Size THEN Append(@, entry)
                                       ELSE [@ EXCEPT ![Eviction(cache)] = entry]])

\* What holds of a cache of some keys.
CacheTyped(cache, keys) ==
  /\ cache \in [total_cache_access : Nat, entries : Seq([key : keys, value : Nat, stamp : Nat])]
  /\ Len(cache.entries) <= Size
=============================================================================
