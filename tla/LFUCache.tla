------------------------------ MODULE LFUCache ------------------------------
(***************************************************************************)
(* fixed_sized_cache (cache.hpp) with LFUCachePolicy, the type of          *)
(* TaskFuncs' fileCache.  Each public method holds safe_op from its first  *)
(* to its last statement, and is one step.  Two containers have to agree:  *)
(* the items, and the policy's multimap of use counts with an iterator     *)
(* into it for each key.                                                   *)
(***************************************************************************)
EXTENDS Integers, Sequences, FiniteSets

SX == INSTANCE SequencesExt

CONSTANTS
  Keys, Values,
  Absent,           \* no value, or no iterator
  MaxSize,          \* max_cache_size
  MaxCount          \* bound: Next uses no key more often

ASSUME CacheAssumption ==
  /\ MaxSize \in Nat \ {0}
  /\ MaxCount \in Nat
  /\ Absent \notin Values
  /\ Absent \notin [count : Nat \ {0}, key : Keys]

VARIABLES
  cache_items_map,
  frequency_storage,    \* the multimap in its order: the least count first
  lfu_storage           \* the node of frequency_storage each key's iterator is at

vars == <<cache_items_map, frequency_storage, lfu_storage>>

Nodes == [count : Nat \ {0}, key : Keys]

Cached == {k \in Keys : cache_items_map[k] # Absent}

TypeOK ==
  /\ cache_items_map \in [Keys -> Values \cup {Absent}]
  /\ frequency_storage \in Seq(Nodes)
  /\ lfu_storage \in [Keys -> Nodes \cup {Absent}]

Init ==
  /\ cache_items_map = [k \in Keys |-> Absent]
  /\ frequency_storage = <<>>
  /\ lfu_storage = [k \in Keys |-> Absent]

-----------------------------------------------------------------------------
(* The multimap.  emplace_hint keeps it in order, and puts the node as near *)
(* to the hint as the order allows.                                         *)

WithoutNode(node) ==
  SX!RemoveAt(frequency_storage, CHOOSE i \in DOMAIN frequency_storage : frequency_storage[i] = node)

(* emplace_hint(cbegin(), node) into `storage` *)
EmplaceFirst(storage, node) ==
  \E i \in 1..Len(storage) + 1 :
    /\ \A j \in 1..i - 1 : storage[j].count < node.count
    /\ \A j \in i..Len(storage) : storage[j].count >= node.count
    /\ frequency_storage' = SX!InsertAt(storage, i, node)

(* emplace_hint(cend(), node) into `storage` *)
EmplaceLast(storage, node) ==
  \E i \in 1..Len(storage) + 1 :
    /\ \A j \in 1..i - 1 : storage[j].count <= node.count
    /\ \A j \in i..Len(storage) : storage[j].count > node.count
    /\ frequency_storage' = SX!InsertAt(storage, i, node)

-----------------------------------------------------------------------------
(* LFUCachePolicy *)

FirstUse(k) == [count |-> 1, key |-> k]

Touch(k) ==
  LET updated == [lfu_storage[k] EXCEPT !.count = @ + 1]
  IN  /\ EmplaceLast(WithoutNode(lfu_storage[k]), updated)
      /\ lfu_storage' = [lfu_storage EXCEPT ![k] = updated]

(* Mutant: the last key of the storage is the candidate. *)
MostUsed == SX!Last(frequency_storage).key

ReplCandidate == Head(frequency_storage).key

-----------------------------------------------------------------------------
(* fixed_sized_cache *)

PutNew(k, v) ==
  /\ k \notin Cached
  /\ Cardinality(Cached) + 1 <= MaxSize
  /\ EmplaceFirst(frequency_storage, FirstUse(k))
  /\ lfu_storage' = [lfu_storage EXCEPT ![k] = FirstUse(k)]
  /\ cache_items_map' = [cache_items_map EXCEPT ![k] = v]

(* Erase(ReplCandidate()), then Insert *)
PutReplacing(k, v) ==
  LET victim == ReplCandidate
  IN  /\ k \notin Cached
      /\ Cardinality(Cached) + 1 > MaxSize
      /\ EmplaceFirst(WithoutNode(lfu_storage[victim]), FirstUse(k))
      /\ lfu_storage' = [lfu_storage EXCEPT ![victim] = Absent, ![k] = FirstUse(k)]
      /\ cache_items_map' = [cache_items_map EXCEPT ![victim] = Absent, ![k] = v]

(* Update *)
PutCached(k, v) ==
  /\ k \in Cached
  /\ Touch(k)
  /\ cache_items_map' = [cache_items_map EXCEPT ![k] = v]

Put(k, v) ==
  \/ PutNew(k, v)
  \/ PutReplacing(k, v)
  \/ PutCached(k, v)

(* Get of a cached key; otherwise it throws std::range_error and changes    *)
(* nothing.                                                                 *)
Get(k) ==
  /\ k \in Cached
  /\ Touch(k)
  /\ UNCHANGED cache_items_map

(* Mutant: Remove forgets the policy. *)
RemoveItemOnly(k) ==
  /\ k \in Cached
  /\ cache_items_map' = [cache_items_map EXCEPT ![k] = Absent]
  /\ UNCHANGED <<frequency_storage, lfu_storage>>

Remove(k) ==
  /\ k \in Cached
  /\ frequency_storage' = WithoutNode(lfu_storage[k])
  /\ lfu_storage' = [lfu_storage EXCEPT ![k] = Absent]
  /\ cache_items_map' = [cache_items_map EXCEPT ![k] = Absent]

BelowBound(k) == lfu_storage[k] # Absent => lfu_storage[k].count < MaxCount

Next ==
  \E k \in Keys :
    \/ BelowBound(k) /\ Get(k)
    \/ BelowBound(k) /\ \E v \in Values : Put(k, v)
    \/ Remove(k)

Spec == Init /\ [][Next]_vars

-----------------------------------------------------------------------------
(* The items and the policy agree: every cached key has an iterator, at a   *)
(* node of its own that is in the multimap, and there is nothing else.  So  *)
(* Touch and Erase never use an iterator whose node is gone, and the key    *)
(* Put replaces is there.                                                   *)
PolicyAgrees ==
  /\ \A k \in Keys : k \in Cached <=> lfu_storage[k] # Absent
  /\ \A k \in Cached : lfu_storage[k] \in {frequency_storage[i] : i \in DOMAIN frequency_storage}
  /\ \A i \in DOMAIN frequency_storage : lfu_storage[frequency_storage[i].key] = frequency_storage[i]
  /\ \A i, j \in DOMAIN frequency_storage :
       frequency_storage[i].key = frequency_storage[j].key => i = j

Abstract == INSTANCE LFU WITH
  items <- cache_items_map,
  count <- [k \in Keys |-> IF lfu_storage[k] = Absent THEN 0 ELSE lfu_storage[k].count]

(* The cache is an LFU cache. *)
ImplementsLFU == Abstract!Spec
=============================================================================
