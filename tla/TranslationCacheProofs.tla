----------------------- MODULE TranslationCacheProofs ------------------------
(***************************************************************************)
(* What a translation cache has kept, whatever its size and its keys are.  *)
(***************************************************************************)
EXTENDS TranslationCache, TLAPS, WellFoundedInduction, FiniteSetTheorems

(* First finds the lowest place, if there is one.                          *)
LEMMA FirstOf ==
  ASSUME NEW places, places \subseteq Nat, places # {}
  PROVE  First(places) \in places
<1>1. \E x \in places : \A y \in places : ~(<<y, x>> \in OpToRel(<, Nat))
  BY NatLessThanWellFounded, WFMin
<1>2. PICK x \in places : \A y \in places : x <= y
  <2>1. PICK x \in places : \A y \in places : ~(<<y, x>> \in OpToRel(<, Nat))
    BY <1>1
  <2>2. \A y \in places : ~(y < x)
    BY <2>1 DEF OpToRel
  <2>3. \A y \in places : x <= y
    BY <2>2
  <2> QED
    BY <2>3
<1> QED
  BY <1>2 DEF First
-----------------------------------------------------------------------------
(* The cache of translations.                                              *)
CacheEntries(keys) == [key : keys, value : Nat, stamp : Nat]

(* What a cache has kept of another one.                                   *)
Kept(new, old) ==
  \A i \in 1..Len(new.entries) :
    \E j \in 1..Len(old.entries) :
      new.entries[i].key = old.entries[j].key /\ new.entries[i].value = old.entries[j].value

(* The ranks of the time stamps are numbers.                               *)
LEMMA RankedKeeps ==
  ASSUME NEW keys,
         NEW cache \in [total_cache_access : Nat, entries : Seq(CacheEntries(keys))]
  PROVE  /\ Ranked(cache) \in [total_cache_access : Nat, entries : Seq(CacheEntries(keys))]
         /\ Len(Ranked(cache).entries) = Len(cache.entries)
         /\ \A i \in 1..Len(cache.entries) :
              /\ Ranked(cache).entries[i].key = cache.entries[i].key
              /\ Ranked(cache).entries[i].value = cache.entries[i].value
<1> DEFINE stamps == {cache.entries[i].stamp : i \in 1..Len(cache.entries)}
                       \cup {cache.total_cache_access}
           rank(stamp) == Cardinality({s \in stamps : s < stamp})
           n == Len(cache.entries)
<1>1. n \in Nat /\ \A i \in 1..n : cache.entries[i] \in CacheEntries(keys)
  OBVIOUS
<1>2. stamps \subseteq Nat /\ \A i \in 1..n : cache.entries[i].stamp \in stamps
  BY <1>1 DEF CacheEntries
<1>3. ASSUME NEW stamp \in Nat PROVE rank(stamp) \in Nat
  <2>1. IsFiniteSet(0..stamp)
    BY FS_Interval
  <2>2. {s \in stamps : s < stamp} \in SUBSET (0..stamp)
    <3> HIDE DEF stamps
    <3>1. \A s \in {x \in stamps : x < stamp} : s \in 0..stamp
      BY <1>2
    <3> QED
      BY <3>1
  <2>3. IsFiniteSet({s \in stamps : s < stamp})
    BY <2>1, <2>2, FS_Subset
  <2> QED
    BY <2>3, FS_CardinalityType
<1>4. Ranked(cache) =
        [total_cache_access |-> rank(cache.total_cache_access),
         entries |-> [i \in 1..n |->
                        [cache.entries[i] EXCEPT !.stamp = rank(cache.entries[i].stamp)]]]
  BY DEF Ranked
<1> HIDE DEF rank
<1>5. \A i \in 1..n :
        LET new == [cache.entries[i] EXCEPT !.stamp = rank(cache.entries[i].stamp)]
        IN  /\ new \in CacheEntries(keys)
            /\ new.key = cache.entries[i].key /\ new.value = cache.entries[i].value
  <2> TAKE i \in 1..n
  <2>1. cache.entries[i] \in CacheEntries(keys) /\ rank(cache.entries[i].stamp) \in Nat
    BY <1>1, <1>2, <1>3
  <2> HIDE DEF n
  <2> QED
    BY <2>1 DEF CacheEntries
<1>6. rank(cache.total_cache_access) \in Nat
  BY <1>3
<1> DEFINE ranks == [i \in 1..n |->
                       [cache.entries[i] EXCEPT !.stamp = rank(cache.entries[i].stamp)]]
<1> HIDE DEF n
<1>7. ranks \in [1..n -> CacheEntries(keys)] /\ \A i \in 1..n : /\ ranks[i].key = cache.entries[i].key
                                                       /\ ranks[i].value = cache.entries[i].value
  BY <1>5
<1>8. Ranked(cache) = [total_cache_access |-> rank(cache.total_cache_access), entries |-> ranks]
  BY <1>4
<1> HIDE DEF ranks
<1>9. ranks \in Seq(CacheEntries(keys)) /\ Len(ranks) = n
  BY <1>1, <1>7
<1> QED
  BY <1>6, <1>7, <1>8, <1>9 DEF n

(* A cache after a hit holds what it held.                                 *)
LEMMA TouchedKeeps ==
  ASSUME NEW keys, NEW cache, CacheTyped(cache, keys), NEW page, Hit(cache, page)
  PROVE  /\ CacheTyped(Touched(cache, page), keys) /\ Kept(Touched(cache, page), cache)
         /\ \E j \in 1..Len(cache.entries) : /\ cache.entries[j].key = page
                                             /\ cache.entries[j].value = Cached(cache, page)
<1> DEFINE place == First(Places(cache, page))
           now == cache.total_cache_access + 1
           touched == [total_cache_access |-> now,
                       entries |-> [cache.entries EXCEPT ![place].stamp = now]]
<1>1. cache \in [total_cache_access : Nat, entries : Seq(CacheEntries(keys))] /\ Len(cache.entries) <= Size
  BY DEF CacheTyped, CacheEntries
<1>2. Places(cache, page) \subseteq 1..Len(cache.entries) /\ Len(cache.entries) \in Nat
  BY <1>1 DEF Places
<1>3. place \in Places(cache, page)
  BY <1>2, FirstOf DEF Hit
<1>4. place \in 1..Len(cache.entries) /\ cache.entries[place].key = page
  BY <1>3 DEF Places
<1>5. now \in Nat
  BY <1>1
<1> HIDE DEF place, now
<1>6. /\ touched \in [total_cache_access : Nat, entries : Seq(CacheEntries(keys))]
      /\ Len(touched.entries) = Len(cache.entries)
      /\ \A i \in 1..Len(cache.entries) : /\ touched.entries[i].key = cache.entries[i].key
                                          /\ touched.entries[i].value = cache.entries[i].value
  <2>1. cache.entries[place] \in CacheEntries(keys)
    BY <1>1, <1>4
  <2>2. [cache.entries[place] EXCEPT !.stamp = now] \in CacheEntries(keys)
    BY <1>5, <2>1 DEF CacheEntries
  <2> QED
    BY <1>1, <1>4, <1>5, <2>1, <2>2 DEF CacheEntries
<1>7. Touched(cache, page) = Ranked(touched)
  BY DEF Touched, place, now
<1> HIDE DEF touched
<1>8. /\ Ranked(touched) \in [total_cache_access : Nat, entries : Seq(CacheEntries(keys))]
      /\ Len(Ranked(touched).entries) = Len(touched.entries)
      /\ \A i \in 1..Len(touched.entries) :
           /\ Ranked(touched).entries[i].key = touched.entries[i].key
           /\ Ranked(touched).entries[i].value = touched.entries[i].value
  BY <1>6, RankedKeeps
<1>9. CacheTyped(Ranked(touched), keys) /\ Kept(Ranked(touched), cache)
  BY <1>1, <1>6, <1>8 DEF CacheTyped, CacheEntries, Kept
<1> QED
  BY <1>4, <1>7, <1>9 DEF Cached, place

(* A cache after an insertion holds nothing but what it held and the new   *)
(* entry, and not more than its size.                                      *)
LEMMA InsertedKeeps ==
  ASSUME NEW keys, NEW cache, CacheTyped(cache, keys), NEW page \in keys, NEW frame \in Nat,
         Size \in Nat
  PROVE  /\ CacheTyped(Inserted(cache, page, frame), keys)
         /\ \A i \in 1..Len(Inserted(cache, page, frame).entries) :
              LET entry == Inserted(cache, page, frame).entries[i]
              IN  \/ entry.key = page /\ entry.value = frame
                  \/ \E j \in 1..Len(cache.entries) :
                       entry.key = cache.entries[j].key /\ entry.value = cache.entries[j].value
<1> DEFINE entry == [key |-> page, value |-> frame, stamp |-> cache.total_cache_access]
           entries == IF Len(cache.entries) < Size THEN Append(cache.entries, entry)
                      ELSE [cache.entries EXCEPT ![Eviction(cache)] = entry]
           inserted == [cache EXCEPT !.entries = entries]
<1>1. cache \in [total_cache_access : Nat, entries : Seq(CacheEntries(keys))] /\ Len(cache.entries) <= Size
      /\ Size \in Nat
  BY DEF CacheTyped, CacheEntries
<1>2. entry \in CacheEntries(keys) /\ entry.key = page /\ entry.value = frame
  BY <1>1 DEF CacheEntries
<1> HIDE DEF entry
<1>3. /\ entries \in Seq(CacheEntries(keys)) /\ Len(entries) <= Size
      /\ \A i \in 1..Len(entries) :
           entries[i] = entry \/ \E j \in 1..Len(cache.entries) : entries[i] = cache.entries[j]
  <2>1. CASE Len(cache.entries) < Size
    <3> DEFINE old == cache.entries
    <3>1. old \in Seq(CacheEntries(keys)) /\ entries = Append(old, entry) /\ Len(old) < Size
      BY <1>1, <2>1
    <3> HIDE DEF old, entries
    <3> QED
      BY <1>1, <1>2, <3>1 DEF old
  <2>2. CASE ~(Len(cache.entries) < Size)
    <3> DEFINE old == cache.entries
               place == Eviction(cache)
    <3>1. old \in Seq(CacheEntries(keys)) /\ entries = [old EXCEPT ![place] = entry]
      BY <1>1, <2>2
    <3> HIDE DEF old, entries, place
    <3>2. entries \in Seq(CacheEntries(keys)) /\ Len(entries) = Len(old)
      <4>1. old \in [1..Len(old) -> CacheEntries(keys)] /\ Len(old) \in Nat
        BY <3>1
      <4>2. entries \in [1..Len(old) -> CacheEntries(keys)]
        BY <1>2, <3>1, <4>1
      <4> QED
        BY <4>1, <4>2
    <3>3. \A i \in 1..Len(entries) : entries[i] = entry \/ entries[i] = old[i]
      BY <3>1, <3>2
    <3> QED
      BY <1>1, <3>2, <3>3 DEF old
  <2> QED
    BY <2>1, <2>2
<1>4. Inserted(cache, page, frame) = Ranked(inserted)
  BY DEF Inserted, entry
<1> HIDE DEF entries
<1>5. /\ inserted \in [total_cache_access : Nat, entries : Seq(CacheEntries(keys))]
      /\ inserted.entries = entries
  BY <1>1, <1>3
<1> HIDE DEF inserted
<1>6. /\ Ranked(inserted) \in [total_cache_access : Nat, entries : Seq(CacheEntries(keys))]
      /\ Len(Ranked(inserted).entries) = Len(entries)
      /\ \A i \in 1..Len(entries) : /\ Ranked(inserted).entries[i].key = entries[i].key
                                    /\ Ranked(inserted).entries[i].value = entries[i].value
  BY <1>5, RankedKeeps
<1>7. CacheTyped(Ranked(inserted), keys)
  BY <1>3, <1>6 DEF CacheTyped, CacheEntries
<1>8. ASSUME NEW i \in 1..Len(entries)
      PROVE  LET new == Ranked(inserted).entries[i]
             IN  \/ new.key = page /\ new.value = frame
                 \/ \E j \in 1..Len(cache.entries) :
                      new.key = cache.entries[j].key /\ new.value = cache.entries[j].value
  BY <1>2, <1>3, <1>6
<1> QED
  BY <1>4, <1>6, <1>7, <1>8

LEMMA FlushedTyped ==
  ASSUME NEW keys, Size \in Nat
  PROVE  CacheTyped(Flushed, keys) /\ Len(Flushed.entries) = 0
BY DEF CacheTyped, Flushed
=============================================================================
