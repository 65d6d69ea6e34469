-------------------------------- MODULE LFU --------------------------------
(***************************************************************************)
(* What fixed_sized_cache with LFUCachePolicy promises its callers: at     *)
(* most MaxSize values, each under the key it was put for, with a count of *)
(* the times it was put or got; a new key that finds the cache full        *)
(* replaces one of those used least.  Which of them is not promised.       *)
(***************************************************************************)
EXTENDS Integers, FiniteSets

CONSTANTS Keys, Values, Absent, MaxSize

VARIABLES
  items,        \* the value of each key, or Absent
  count         \* how often each cached key was used

vars == <<items, count>>

CachedKeys == {k \in Keys : items[k] # Absent}

Init ==
  /\ items = [k \in Keys |-> Absent]
  /\ count = [k \in Keys |-> 0]

Get(k) ==
  /\ k \in CachedKeys
  /\ count' = [count EXCEPT ![k] = @ + 1]
  /\ UNCHANGED items

PutCached(k, v) ==
  /\ k \in CachedKeys
  /\ items' = [items EXCEPT ![k] = v]
  /\ count' = [count EXCEPT ![k] = @ + 1]

PutNew(k, v) ==
  /\ k \notin CachedKeys
  /\ Cardinality(CachedKeys) < MaxSize
  /\ items' = [items EXCEPT ![k] = v]
  /\ count' = [count EXCEPT ![k] = 1]

LeastUsed(victim) ==
  /\ victim \in CachedKeys
  /\ \A k \in CachedKeys : count[victim] <= count[k]

PutReplacing(k, v, victim) ==
  /\ k \notin CachedKeys
  /\ Cardinality(CachedKeys) = MaxSize
  /\ LeastUsed(victim)
  /\ items' = [items EXCEPT ![victim] = Absent, ![k] = v]
  /\ count' = [count EXCEPT ![victim] = 0, ![k] = 1]

Remove(k) ==
  /\ k \in CachedKeys
  /\ items' = [items EXCEPT ![k] = Absent]
  /\ count' = [count EXCEPT ![k] = 0]

Next ==
  \E k \in Keys :
    \/ Get(k)
    \/ Remove(k)
    \/ \E v \in Values :
         \/ PutCached(k, v)
         \/ PutNew(k, v)
         \/ \E victim \in Keys : PutReplacing(k, v, victim)

Spec == Init /\ [][Next]_vars
=============================================================================
