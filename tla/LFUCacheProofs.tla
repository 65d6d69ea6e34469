--------------------------- MODULE LFUCacheProofs ---------------------------
(***************************************************************************)
(* LFUCache for every set of keys and values, every size of the cache and  *)
(* no limit on the counts but the one of Next: the items and the policy's  *)
(* two containers agree, the multimap is in order, and every step of the   *)
(* cache is a step of LFU.                                                 *)
(***************************************************************************)
EXTENDS LFUCache, FiniteSetTheorems, SequenceTheorems, TLAPS

Content(storage) == {storage[i] : i \in DOMAIN storage}

Distinct(storage) ==
  \A i, j \in DOMAIN storage : storage[i] = storage[j] => i = j

InOrder(storage) ==
  \A i, j \in DOMAIN storage : i <= j => storage[i].count <= storage[j].count

OwnNodes ==
  \A k \in Keys :
    /\ k \in Cached <=> lfu_storage[k] # Absent
    /\ k \in Cached => lfu_storage[k].key = k

(* The inductive invariant: the iterators are at the nodes of the multimap,  *)
(* one each, and the multimap is in order.                                   *)
IndInv ==
  /\ TypeOK
  /\ IsFiniteSet(Cached) /\ Cardinality(Cached) <= MaxSize
  /\ OwnNodes
  /\ Content(frequency_storage) = {lfu_storage[k] : k \in Cached}
  /\ Distinct(frequency_storage)
  /\ InOrder(frequency_storage)

-----------------------------------------------------------------------------
(* The multimap *)

(* Erasing a node leaves the others, in order. *)
LEMMA Erased ==
  ASSUME NEW s \in Seq(Nodes), Distinct(s), InOrder(s), NEW node \in Content(s)
  PROVE  LET t == SX!RemoveAt(s, CHOOSE i \in DOMAIN s : s[i] = node)
         IN  /\ t \in Seq(Nodes) /\ Distinct(t) /\ InOrder(t)
             /\ Content(t) = Content(s) \ {node}
<1>. DEFINE at == CHOOSE i \in DOMAIN s : s[i] = node
            t == SX!RemoveAt(s, at)
<1>1. at \in DOMAIN s /\ s[at] = node
  BY DEF Content
<1>2. DOMAIN s = 1 .. Len(s) /\ Len(s) \in Nat /\ \A i \in 1 .. Len(s) : s[i] \in Nodes
  BY LenProperties, ElementOfSeq
<1>. HIDE DEF at
<1>. DEFINE left == SubSeq(s, 1, at - 1)
            right == SubSeq(s, at + 1, Len(s))
<1>3. left \in Seq(Nodes) /\ Len(left) = at - 1 /\ \A i \in 1 .. at - 1 : left[i] = s[i]
  <2>1. at - 1 \in Int /\ \A i \in 1 .. at - 1 : s[i] \in Nodes
    BY <1>1, <1>2
  <2>. QED
    BY <2>1, <1>1, <1>2, SubSeqProperties
<1>4. /\ right \in Seq(Nodes) /\ Len(right) = Len(s) - at
      /\ \A i \in 1 .. Len(s) - at : right[i] = s[at + i]
  <2>1. at + 1 \in Int /\ Len(s) \in Int /\ \A i \in at + 1 .. Len(s) : s[i] \in Nodes
    BY <1>1, <1>2
  <2>. QED
    BY <2>1, <1>1, <1>2, SubSeqProperties
<1>5. /\ t \in Seq(Nodes)
      /\ Len(t) = Len(s) - 1
      /\ \A i \in 1 .. Len(s) - 1 : t[i] = IF i < at THEN s[i] ELSE s[i + 1]
  <2>1. t = left \o right
    BY DEF SX!RemoveAt
  <2>. HIDE DEF t, left, right
  <2>2. /\ left \o right \in Seq(Nodes) /\ Len(left \o right) = Len(left) + Len(right)
        /\ \A i \in 1 .. Len(left) + Len(right) :
             (left \o right)[i] = IF i <= Len(left) THEN left[i] ELSE right[i - Len(left)]
    BY <1>3, <1>4, ConcatProperties
  <2>3. Len(left) + Len(right) = Len(s) - 1
    BY <1>1, <1>2, <1>3, <1>4
  <2>4. ASSUME NEW i \in 1 .. Len(s) - 1
        PROVE  t[i] = IF i < at THEN s[i] ELSE s[i + 1]
    <3>1. CASE i < at
      <4>1. i \in 1 .. at - 1 /\ i <= Len(left)
        BY <3>1, <1>1, <1>2, <1>3
      <4>. QED
        BY <4>1, <3>1, <2>1, <2>2, <2>3, <1>3
    <3>2. CASE ~(i < at)
      <4>1. /\ i - Len(left) \in 1 .. Len(s) - at /\ ~(i <= Len(left))
            /\ at + (i - Len(left)) = i + 1
        BY <3>2, <1>1, <1>2, <1>3
      <4>2. right[i - Len(left)] = s[i + 1]
        BY <4>1, <1>4
      <4>. QED
        BY <4>1, <4>2, <3>2, <2>1, <2>2, <2>3
    <3>. QED
      BY <3>1, <3>2
  <2>. QED
    BY <2>1, <2>2, <2>3, <2>4
<1>6. DOMAIN t = 1 .. Len(s) - 1
  BY <1>5, LenProperties
<1>. HIDE DEF t
<1>. DEFINE place(n) == IF n < at THEN n ELSE n + 1
<1>7. ASSUME NEW n \in 1 .. Len(s) - 1
       PROVE  place(n) \in 1 .. Len(s) /\ t[n] = s[place(n)]
  <2>1. CASE n < at
    BY <2>1, <1>1, <1>2, <1>5
  <2>2. CASE ~(n < at)
    BY <2>2, <1>1, <1>2, <1>5
  <2>. QED
    BY <2>1, <2>2
<1>8. \A i, j \in 1 .. Len(s) - 1 : (i <= j => place(i) <= place(j)) /\ (place(i) = place(j) => i = j)
  BY <1>1, <1>2
<1>. HIDE DEF place
<1>9. Distinct(t)
  <2>. SUFFICES ASSUME NEW i \in 1 .. Len(s) - 1, NEW j \in 1 .. Len(s) - 1, t[i] = t[j]
                PROVE  i = j
    BY <1>6 DEF Distinct
  <2>1. place(i) = place(j)
    BY <1>7, <1>2 DEF Distinct
  <2>. QED
    BY <2>1, <1>8
<1>10. InOrder(t)
  <2>. SUFFICES ASSUME NEW i \in 1 .. Len(s) - 1, NEW j \in 1 .. Len(s) - 1, i <= j
                PROVE  t[i].count <= t[j].count
    BY <1>6 DEF InOrder
  <2>. QED
    BY <1>7, <1>8, <1>2 DEF InOrder
<1>11. Content(t) \subseteq Content(s) \ {node}
  BY <1>1, <1>2, <1>5, <1>6 DEF Content, Distinct
<1>12. ASSUME NEW x \in Content(s), x # node
       PROVE  x \in Content(t)
  <2>1. PICK j \in 1 .. Len(s) : s[j] = x
    BY <1>2 DEF Content
  <2>2. CASE j < at
    BY <2>1, <2>2, <1>1, <1>2, <1>5, <1>6 DEF Content
  <2>3. CASE j > at
    <3>1. j - 1 \in 1 .. Len(s) - 1 /\ t[j - 1] = x
      BY <2>1, <2>3, <1>1, <1>2, <1>5
    <3>. QED
      BY <3>1, <1>6 DEF Content
  <2>. QED
    BY <2>1, <2>2, <2>3, <1>12, <1>1, <1>2
<1>. QED
  BY <1>5, <1>9, <1>10, <1>11, <1>12 DEF t, at

(* A new node between lower and higher counts leaves the multimap in order. *)
LEMMA Inserted ==
  ASSUME NEW s \in Seq(Nodes), Distinct(s), InOrder(s),
         NEW node \in Nodes, node \notin Content(s),
         NEW at \in 1 .. Len(s) + 1,
         \A j \in 1 .. at - 1 : s[j].count <= node.count,
         \A j \in at .. Len(s) : s[j].count >= node.count
  PROVE  LET t == SX!InsertAt(s, at, node)
         IN  /\ t \in Seq(Nodes) /\ Distinct(t) /\ InOrder(t)
             /\ Content(t) = Content(s) \cup {node}
<1>. DEFINE t == SX!InsertAt(s, at, node)
            left == SubSeq(s, 1, at - 1)
            right == SubSeq(s, at, Len(s))
<1>1. DOMAIN s = 1 .. Len(s) /\ Len(s) \in Nat /\ \A i \in 1 .. Len(s) : s[i] \in Nodes
  BY LenProperties, ElementOfSeq
<1>2. left \in Seq(Nodes) /\ Len(left) = at - 1 /\ \A i \in 1 .. at - 1 : left[i] = s[i]
  <2>1. at - 1 \in Int /\ \A i \in 1 .. at - 1 : s[i] \in Nodes
    BY <1>1
  <2>. QED
    BY <2>1, <1>1, SubSeqProperties
<1>3. /\ right \in Seq(Nodes) /\ Len(right) = Len(s) - at + 1
      /\ \A i \in 1 .. Len(s) - at + 1 : right[i] = s[at + i - 1]
  <2>1. at \in Int /\ Len(s) \in Int /\ \A i \in at .. Len(s) : s[i] \in Nodes
    BY <1>1
  <2>. QED
    BY <2>1, <1>1, SubSeqProperties
<1>. HIDE DEF left, right
<1>4. /\ left \o <<node>> \in Seq(Nodes) /\ Len(left \o <<node>>) = at
      /\ \A i \in 1 .. at : (left \o <<node>>)[i] = IF i < at THEN s[i] ELSE node
  <2>1. <<node>> \in Seq(Nodes) /\ Len(<<node>>) = 1 /\ <<node>>[1] = node
    OBVIOUS
  <2>. QED
    BY <2>1, <1>1, <1>2, ConcatProperties
<1>5. /\ t \in Seq(Nodes) /\ Len(t) = Len(s) + 1
      /\ \A i \in 1 .. Len(s) + 1 :
           t[i] = IF i < at THEN s[i] ELSE IF i = at THEN node ELSE s[i - 1]
  <2>. DEFINE front == left \o <<node>>
  <2>1. t = front \o right
    BY DEF SX!InsertAt, left, right
  <2>2. front \in Seq(Nodes) /\ Len(front) = at
        /\ \A i \in 1 .. at : front[i] = IF i < at THEN s[i] ELSE node
    BY <1>4
  <2>. HIDE DEF front, t
  <2>3. /\ front \o right \in Seq(Nodes) /\ Len(front \o right) = Len(front) + Len(right)
        /\ \A i \in 1 .. Len(front) + Len(right) :
             (front \o right)[i] = IF i <= Len(front) THEN front[i] ELSE right[i - Len(front)]
    BY <2>2, <1>3, ConcatProperties
  <2>4. Len(front) + Len(right) = Len(s) + 1
    BY <2>2, <1>1, <1>3
  <2>5. ASSUME NEW i \in 1 .. Len(s) + 1
        PROVE  t[i] = IF i < at THEN s[i] ELSE IF i = at THEN node ELSE s[i - 1]
    <3>1. CASE i <= at
      BY <3>1, <2>1, <2>2, <2>3, <2>4
    <3>2. CASE i > at
      <4>1. /\ i - Len(front) \in 1 .. Len(s) - at + 1 /\ ~(i <= Len(front))
            /\ at + (i - Len(front)) - 1 = i - 1
        BY <3>2, <2>2, <1>1
      <4>2. right[i - Len(front)] = s[i - 1]
        BY <4>1, <1>3
      <4>. QED
        BY <4>1, <4>2, <3>2, <2>1, <2>2, <2>3, <2>4
    <3>. QED
      BY <3>1, <3>2, <1>1
  <2>. QED
    BY <2>1, <2>3, <2>4, <2>5
<1>6. DOMAIN t = 1 .. Len(s) + 1
  BY <1>5, LenProperties
<1>. HIDE DEF t
<1>. DEFINE place(n) == IF n < at THEN n ELSE n - 1
<1>7. ASSUME NEW n \in 1 .. Len(s) + 1, n # at
       PROVE  place(n) \in 1 .. Len(s) /\ t[n] = s[place(n)]
  <2>1. CASE n < at
    BY <2>1, <1>1, <1>5
  <2>2. CASE n > at
    BY <2>2, <1>1, <1>5
  <2>. QED
    BY <1>7, <2>1, <2>2, <1>1
<1>8. ASSUME NEW i \in 1 .. Len(s) + 1, i # at, NEW j \in 1 .. Len(s) + 1, j # at
       PROVE  (i <= j => place(i) <= place(j)) /\ (place(i) = place(j) => i = j)
  BY <1>8, <1>1
<1>9. t[at] = node
  BY <1>1, <1>5
<1>. HIDE DEF place
<1>10. Distinct(t)
  <2>1. ASSUME NEW n \in 1 .. Len(s) + 1, n # at
        PROVE  t[n] # t[at]
    <3>1. s[place(n)] \in Content(s)
      BY <1>7, <2>1, <1>1 DEF Content
    <3>. QED
      BY <1>7, <1>9, <2>1, <3>1
  <2>. SUFFICES ASSUME NEW i \in 1 .. Len(s) + 1, NEW j \in 1 .. Len(s) + 1, t[i] = t[j]
                PROVE  i = j
    BY <1>6 DEF Distinct
  <2>2. CASE i # at /\ j # at
    <3>1. place(i) = place(j)
      BY <1>7, <2>2, <1>1 DEF Distinct
    <3>. QED
      BY <2>2, <3>1, <1>8
  <2>. QED
    BY <2>1, <2>2
<1>11. InOrder(t)
  <2>. SUFFICES ASSUME NEW i \in 1 .. Len(s) + 1, NEW j \in 1 .. Len(s) + 1, i <= j
                PROVE  t[i].count <= t[j].count
    BY <1>6 DEF InOrder
  <2>1. CASE i = at /\ j = at
    <3>1. node.count \in Nat
      BY DEF Nodes
    <3>. QED
      BY <2>1, <3>1, <1>5
  <2>2. CASE i # at /\ j = at
    <3>1. i \in 1 .. at - 1 /\ t[i] = s[i] /\ t[j] = node
      BY <2>2, <1>1, <1>5
    <3>. QED
      BY <3>1
  <2>3. CASE i = at /\ j # at
    <3>1. j - 1 \in at .. Len(s) /\ t[i] = node /\ t[j] = s[j - 1]
      BY <2>3, <1>1, <1>5
    <3>2. s[j - 1].count \in Nat /\ node.count \in Nat
      BY <3>1, <1>1 DEF Nodes
    <3>. QED
      BY <3>1, <3>2
  <2>4. CASE i # at /\ j # at
    <3>1. /\ place(i) \in 1 .. Len(s) /\ t[i] = s[place(i)]
          /\ place(j) \in 1 .. Len(s) /\ t[j] = s[place(j)]
          /\ place(i) <= place(j)
      BY <2>4, <1>7, <1>8
    <3>. QED
      BY <3>1, <1>1 DEF InOrder
  <2>. QED
    BY <2>1, <2>2, <2>3, <2>4
<1>12. Content(t) \subseteq Content(s) \cup {node}
  <2>. SUFFICES ASSUME NEW i \in 1 .. Len(s) + 1
                PROVE  t[i] \in Content(s) \cup {node}
    BY <1>6 DEF Content
  <2>1. CASE i < at
    <3>1. i \in 1 .. Len(s) /\ t[i] = s[i]
      BY <2>1, <1>1, <1>5
    <3>. QED
      BY <3>1, <1>1 DEF Content
  <2>2. CASE i = at
    BY <2>2, <1>5
  <2>3. CASE i > at
    <3>1. i - 1 \in 1 .. Len(s) /\ t[i] = s[i - 1]
      BY <2>3, <1>1, <1>5
    <3>. QED
      BY <3>1, <1>1 DEF Content
  <2>. QED
    BY <2>1, <2>2, <2>3, <1>1
<1>13. ASSUME NEW x \in Content(s) \cup {node}
       PROVE  x \in Content(t)
  <2>1. CASE x = node
    BY <2>1, <1>1, <1>5, <1>6 DEF Content
  <2>2. ASSUME NEW j \in 1 .. Len(s), s[j] = x
        PROVE  x \in Content(t)
    <3>1. CASE j < at
      BY <2>2, <3>1, <1>1, <1>5, <1>6 DEF Content
    <3>2. CASE j >= at
      <4>1. j + 1 \in 1 .. Len(s) + 1 /\ t[j + 1] = x
        BY <2>2, <3>2, <1>1, <1>5
      <4>. QED
        BY <4>1, <1>6 DEF Content
    <3>. QED
      BY <3>1, <3>2, <1>1
  <2>. QED
    BY <2>1, <2>2, <1>1 DEF Content
<1>. QED
  BY <1>5, <1>10, <1>11, <1>12, <1>13 DEF t

-----------------------------------------------------------------------------
(* Invariance *)

(* Each cached key has its node in the multimap, which has no other; so the *)
(* key at its head is cached.                                               *)
LEMMA CachedNodes ==
  ASSUME IndInv
  PROVE  /\ \A k \in Cached : lfu_storage[k] \in Nodes /\ lfu_storage[k].key = k
         /\ \A k \in Cached : lfu_storage[k] \in Content(frequency_storage)
         /\ \A n \in Content(frequency_storage) : n.key \in Cached /\ lfu_storage[n.key] = n
BY DEF IndInv, TypeOK, OwnNodes, Cached

LEMMA CandidateIsCached ==
  ASSUME IndInv, Cached # {}
  PROVE  /\ ReplCandidate \in Cached
         /\ \A k \in Cached : lfu_storage[ReplCandidate].count <= lfu_storage[k].count
<1>1. /\ DOMAIN frequency_storage = 1 .. Len(frequency_storage)
      /\ Len(frequency_storage) \in Nat
  BY LenProperties DEF IndInv, TypeOK
<1>2. frequency_storage # <<>>
  <2>1. PICK k \in Cached : TRUE
    OBVIOUS
  <2>2. PICK i \in DOMAIN frequency_storage : frequency_storage[i] = lfu_storage[k]
    BY CachedNodes DEF Content
  <2>. QED
    BY <2>2
<1>3. /\ 1 \in DOMAIN frequency_storage
      /\ Head(frequency_storage) = frequency_storage[1]
  BY <1>1, <1>2, EmptySeq DEF IndInv, TypeOK
<1>4. /\ ReplCandidate \in Cached
      /\ lfu_storage[ReplCandidate] = frequency_storage[1]
  BY <1>3, CachedNodes DEF ReplCandidate, Content
<1>5. ASSUME NEW k \in Cached
      PROVE  frequency_storage[1].count <= lfu_storage[k].count
  <2>1. PICK i \in DOMAIN frequency_storage : frequency_storage[i] = lfu_storage[k]
    BY CachedNodes DEF Content
  <2>2. 1 <= i
    BY <1>1
  <2>. QED
    BY <2>1, <2>2, <1>3 DEF IndInv, InOrder
<1>. QED
  BY <1>4, <1>5

(* Erase of the policy: the multimap without the node of a key. *)
LEMMA WithoutKey ==
  ASSUME IndInv, NEW k \in Cached
  PROVE  LET rest == WithoutNode(lfu_storage[k])
         IN  /\ rest \in Seq(Nodes) /\ Distinct(rest) /\ InOrder(rest)
             /\ Content(rest) = {lfu_storage[j] : j \in Cached \ {k}}
<1>. DEFINE rest == WithoutNode(lfu_storage[k])
<1>1. /\ frequency_storage \in Seq(Nodes) /\ Distinct(frequency_storage) /\ InOrder(frequency_storage)
      /\ lfu_storage[k] \in Content(frequency_storage)
  BY CachedNodes DEF IndInv, TypeOK
<1>2. /\ rest \in Seq(Nodes) /\ Distinct(rest) /\ InOrder(rest)
      /\ Content(rest) = Content(frequency_storage) \ {lfu_storage[k]}
  BY <1>1, Erased DEF WithoutNode
<1>. HIDE DEF rest
<1>3. {lfu_storage[j] : j \in Cached} \ {lfu_storage[k]} = {lfu_storage[j] : j \in Cached \ {k}}
  BY CachedNodes
<1>. QED
  BY <1>2, <1>3 DEF IndInv, rest

(* emplace_hint at either end puts a new node in its place. *)
LEMMA Emplaced ==
  ASSUME NEW s \in Seq(Nodes), Distinct(s), InOrder(s),
         NEW node \in Nodes, node \notin Content(s),
         EmplaceFirst(s, node) \/ EmplaceLast(s, node)
  PROVE  /\ frequency_storage' \in Seq(Nodes)
         /\ Distinct(frequency_storage') /\ InOrder(frequency_storage')
         /\ Content(frequency_storage') = Content(s) \cup {node}
<1>1. /\ Len(s) \in Nat /\ node.count \in Nat
      /\ \A i \in 1 .. Len(s) : s[i].count \in Nat
  <2>1. Len(s) \in Nat /\ \A i \in 1 .. Len(s) : s[i] \in Nodes
    BY LenProperties, ElementOfSeq
  <2>. QED
    BY <2>1 DEF Nodes
<1>2. PICK i \in 1 .. Len(s) + 1 :
        /\ \A j \in 1 .. i - 1 : s[j].count <= node.count
        /\ \A j \in i .. Len(s) : s[j].count >= node.count
        /\ frequency_storage' = SX!InsertAt(s, i, node)
  <2>1. CASE EmplaceFirst(s, node)
    <3>1. PICK i \in 1 .. Len(s) + 1 :
            /\ \A j \in 1 .. i - 1 : s[j].count < node.count
            /\ \A j \in i .. Len(s) : s[j].count >= node.count
            /\ frequency_storage' = SX!InsertAt(s, i, node)
      BY <2>1 DEF EmplaceFirst
    <3>2. \A j \in 1 .. i - 1 : s[j].count <= node.count
      BY <3>1, <1>1
    <3>. QED
      BY <3>1, <3>2
  <2>2. CASE EmplaceLast(s, node)
    <3>1. PICK i \in 1 .. Len(s) + 1 :
            /\ \A j \in 1 .. i - 1 : s[j].count <= node.count
            /\ \A j \in i .. Len(s) : s[j].count > node.count
            /\ frequency_storage' = SX!InsertAt(s, i, node)
      BY <2>2 DEF EmplaceLast
    <3>2. \A j \in i .. Len(s) : s[j].count >= node.count
      BY <3>1, <1>1
    <3>. QED
      BY <3>1, <3>2
  <2>. QED
    BY <2>1, <2>2
<1>. QED
  BY <1>2, Inserted

(* The policy's bookkeeping for one key: some of the other keys keep their   *)
(* nodes, and it gets a new one.                                             *)
LEMMA Rebooked ==
  ASSUME IndInv, NEW k \in Keys, NEW C \in SUBSET Cached, k \notin C,
         NEW s \in Seq(Nodes), Distinct(s), InOrder(s),
         Content(s) = {lfu_storage[j] : j \in C},
         NEW node \in Nodes, node.key = k,
         EmplaceFirst(s, node) \/ EmplaceLast(s, node),
         lfu_storage' \in [Keys -> Nodes \cup {Absent}],
         lfu_storage'[k] = node,
         \A j \in C : lfu_storage'[j] = lfu_storage[j],
         \A j \in Keys \ (C \cup {k}) : lfu_storage'[j] = Absent,
         cache_items_map' \in [Keys -> Values \cup {Absent}],
         Cached' = C \cup {k},
         Cardinality(C \cup {k}) <= MaxSize
  PROVE  IndInv'
<1>1. node \notin Content(s)
  BY CachedNodes
<1>2. /\ frequency_storage' \in Seq(Nodes)
      /\ Distinct(frequency_storage') /\ InOrder(frequency_storage')
      /\ Content(frequency_storage') = Content(s) \cup {node}
  BY <1>1, Emplaced
<1>3. TypeOK'
  BY <1>2 DEF TypeOK
<1>4. IsFiniteSet(Cached') /\ Cardinality(Cached') <= MaxSize
  BY FS_Subset, FS_AddElement DEF IndInv
<1>5. OwnNodes'
  <2>1. node # Absent /\ \A j \in C : lfu_storage[j] # Absent /\ lfu_storage[j].key = j
    BY CachedNodes, CacheAssumption DEF Nodes
  <2>2. Cached' \subseteq Keys
    BY DEF Cached
  <2>. QED
    BY <2>1, <2>2 DEF OwnNodes
<1>6. Content(frequency_storage') = {lfu_storage'[j] : j \in Cached'}
  <2>1. C \subseteq Keys
    BY DEF Cached
  <2>. QED
    BY <1>2, <2>1
<1>7. {lfu_storage'[j] : j \in Cached'} = {lfu_storage[j] : j \in Cached}'
  OBVIOUS
<1>. QED
  BY <1>2, <1>3, <1>4, <1>5, <1>6 DEF IndInv, Distinct, InOrder, Content

LEMMA TouchInv ==
  ASSUME IndInv, NEW k \in Cached, Touch(k),
         cache_items_map' \in [Keys -> Values \cup {Absent}], Cached' = Cached
  PROVE  IndInv'
<1>. DEFINE updated == [lfu_storage[k] EXCEPT !.count = @ + 1]
            rest == WithoutNode(lfu_storage[k])
            C == Cached \ {k}
<1>1. k \in Keys /\ lfu_storage[k] \in Nodes /\ lfu_storage[k].key = k
  BY CachedNodes DEF Cached
<1>2. updated \in Nodes /\ updated.key = k
  BY <1>1 DEF Nodes
<1>3. /\ rest \in Seq(Nodes) /\ Distinct(rest) /\ InOrder(rest)
      /\ Content(rest) = {lfu_storage[j] : j \in C}
  BY WithoutKey
<1>4. EmplaceLast(rest, updated) /\ lfu_storage' = [lfu_storage EXCEPT ![k] = updated]
  BY DEF Touch
<1>. HIDE DEF updated, rest
<1>5. /\ lfu_storage' \in [Keys -> Nodes \cup {Absent}]
      /\ lfu_storage'[k] = updated
      /\ \A j \in C : lfu_storage'[j] = lfu_storage[j]
      /\ \A j \in Keys \ (C \cup {k}) : lfu_storage'[j] = Absent
  BY <1>1, <1>2, <1>4 DEF IndInv, TypeOK, OwnNodes
<1>6. C \cup {k} = Cached /\ Cached' = C \cup {k} /\ k \notin C /\ C \in SUBSET Cached
  OBVIOUS
<1>7. Cardinality(C \cup {k}) <= MaxSize
  BY <1>6 DEF IndInv
<1>. HIDE DEF C
<1>. QED
  BY <1>1, <1>2, <1>3, <1>4, <1>5, <1>6, <1>7, Rebooked

(* What a step does to the cached keys. *)
LEMMA CachedAfterPut ==
  ASSUME TypeOK, NEW k \in Keys, NEW v \in Values,
         cache_items_map' = [cache_items_map EXCEPT ![k] = v]
  PROVE  /\ cache_items_map' \in [Keys -> Values \cup {Absent}]
         /\ Cached' = Cached \cup {k}
BY CacheAssumption DEF TypeOK, Cached

LEMMA CachedAfterReplacing ==
  ASSUME TypeOK, NEW k \in Keys, NEW v \in Values, NEW victim \in Keys, victim # k,
         cache_items_map' = [cache_items_map EXCEPT ![victim] = Absent, ![k] = v]
  PROVE  /\ cache_items_map' \in [Keys -> Values \cup {Absent}]
         /\ Cached' = (Cached \ {victim}) \cup {k}
BY CacheAssumption DEF TypeOK, Cached

LEMMA CachedAfterRemove ==
  ASSUME TypeOK, NEW k \in Keys,
         cache_items_map' = [cache_items_map EXCEPT ![k] = Absent]
  PROVE  /\ cache_items_map' \in [Keys -> Values \cup {Absent}]
         /\ Cached' = Cached \ {k}
BY DEF TypeOK, Cached

LEMMA PutNewInv ==
  ASSUME IndInv, NEW k \in Keys, NEW v \in Values, PutNew(k, v)
  PROVE  IndInv'
<1>1. /\ cache_items_map' \in [Keys -> Values \cup {Absent}]
      /\ Cached' = Cached \cup {k}
      /\ k \notin Cached
  BY CachedAfterPut DEF PutNew, IndInv
<1>2. Cardinality(Cached \cup {k}) <= MaxSize
  BY <1>1, FS_AddElement DEF PutNew, IndInv
<1>3. FirstUse(k) \in Nodes /\ FirstUse(k).key = k
  BY DEF FirstUse, Nodes
<1>4. /\ frequency_storage \in Seq(Nodes)
      /\ Distinct(frequency_storage) /\ InOrder(frequency_storage)
      /\ Content(frequency_storage) = {lfu_storage[j] : j \in Cached}
  BY DEF IndInv, TypeOK
<1>5. /\ lfu_storage' \in [Keys -> Nodes \cup {Absent}]
      /\ lfu_storage'[k] = FirstUse(k)
      /\ \A j \in Cached : lfu_storage'[j] = lfu_storage[j]
      /\ \A j \in Keys \ (Cached \cup {k}) : lfu_storage'[j] = Absent
  BY <1>1, <1>3 DEF PutNew, IndInv, TypeOK, OwnNodes
<1>6. EmplaceFirst(frequency_storage, FirstUse(k))
  BY DEF PutNew
<1>. QED
  BY <1>1, <1>2, <1>3, <1>4, <1>5, <1>6, Rebooked

(* A cache that has no place left has a key to replace. *)
LEMMA FullCache ==
  ASSUME IndInv, Cardinality(Cached) + 1 > MaxSize
  PROVE  Cached # {} /\ Cardinality(Cached) = MaxSize
<1>1. Cardinality(Cached) \in Nat
  BY FS_CardinalityType DEF IndInv
<1>2. Cardinality(Cached) = MaxSize /\ MaxSize # 0
  BY <1>1, CacheAssumption DEF IndInv
<1>. QED
  BY <1>2, FS_EmptySet

LEMMA PutReplacingInv ==
  ASSUME IndInv, NEW k \in Keys, NEW v \in Values, PutReplacing(k, v)
  PROVE  IndInv'
<1>. DEFINE victim == ReplCandidate
            C == Cached \ {victim}
            rest == WithoutNode(lfu_storage[victim])
<1>1. victim \in Cached /\ victim \in Keys /\ k \notin Cached /\ victim # k
  BY FullCache, CandidateIsCached DEF PutReplacing, Cached
<1>2. /\ EmplaceFirst(rest, FirstUse(k))
      /\ lfu_storage' = [lfu_storage EXCEPT ![victim] = Absent, ![k] = FirstUse(k)]
      /\ cache_items_map' = [cache_items_map EXCEPT ![victim] = Absent, ![k] = v]
  BY DEF PutReplacing
<1>. HIDE DEF victim
<1>3. /\ rest \in Seq(Nodes) /\ Distinct(rest) /\ InOrder(rest)
      /\ Content(rest) = {lfu_storage[j] : j \in C}
  BY <1>1, WithoutKey
<1>. HIDE DEF rest
<1>4. /\ cache_items_map' \in [Keys -> Values \cup {Absent}]
      /\ Cached' = C \cup {k}
  BY <1>1, <1>2, CachedAfterReplacing DEF IndInv
<1>5. Cardinality(C \cup {k}) <= MaxSize
  <2>1. /\ IsFiniteSet(C) /\ Cardinality(C) = Cardinality(Cached) - 1
        /\ Cardinality(C \cup {k}) = Cardinality(C) + 1
    BY <1>1, FS_RemoveElement, FS_AddElement DEF IndInv
  <2>2. Cardinality(Cached) \in Nat
    BY FS_CardinalityType DEF IndInv
  <2>. QED
    BY <2>1, <2>2 DEF IndInv
<1>6. FirstUse(k) \in Nodes /\ FirstUse(k).key = k
  BY DEF FirstUse, Nodes
<1>7. /\ lfu_storage' \in [Keys -> Nodes \cup {Absent}]
      /\ lfu_storage'[k] = FirstUse(k)
      /\ \A j \in C : lfu_storage'[j] = lfu_storage[j]
      /\ \A j \in Keys \ (C \cup {k}) : lfu_storage'[j] = Absent
  <2>1. lfu_storage \in [Keys -> Nodes \cup {Absent}]
    BY DEF IndInv, TypeOK
  <2>2. \A j \in Keys \ Cached : lfu_storage[j] = Absent
    BY DEF IndInv, OwnNodes
  <2>3. lfu_storage' = [lfu_storage EXCEPT ![victim] = Absent, ![k] = FirstUse(k)]
    BY <1>2
  <2>4. \A j \in Keys : lfu_storage'[j] = IF j = k THEN FirstUse(k)
                                         ELSE IF j = victim THEN Absent ELSE lfu_storage[j]
    BY <2>1, <2>3, <1>1
  <2>5. lfu_storage' \in [Keys -> Nodes \cup {Absent}]
    BY <2>1, <2>3, <1>1, <1>6
  <2>6. C \subseteq Keys
    BY DEF Cached
  <2>. QED
    BY <2>2, <2>4, <2>5, <2>6, <1>1
<1>8. C \in SUBSET Cached /\ k \notin C
  BY <1>1
<1>9. EmplaceFirst(rest, FirstUse(k))
  BY <1>2
<1>. HIDE DEF C
<1>. QED
  BY <1>3, <1>9, <1>4, <1>5, <1>6, <1>7, <1>8, Rebooked

LEMMA RemoveInv ==
  ASSUME IndInv, NEW k \in Keys, Remove(k)
  PROVE  IndInv'
<1>1. /\ k \in Cached
      /\ cache_items_map' \in [Keys -> Values \cup {Absent}]
      /\ Cached' = Cached \ {k}
      /\ lfu_storage' = [lfu_storage EXCEPT ![k] = Absent]
  BY CachedAfterRemove DEF Remove, IndInv
<1>2. /\ frequency_storage' \in Seq(Nodes)
      /\ Distinct(frequency_storage') /\ InOrder(frequency_storage')
      /\ Content(frequency_storage') = {lfu_storage[j] : j \in Cached \ {k}}
  BY <1>1, WithoutKey DEF Remove
<1>3. TypeOK'
  BY <1>1, <1>2 DEF TypeOK, IndInv
<1>4. IsFiniteSet(Cached') /\ Cardinality(Cached') <= MaxSize
  <2>1. /\ IsFiniteSet(Cached \ {k})
        /\ Cardinality(Cached \ {k}) = Cardinality(Cached) - 1
        /\ Cardinality(Cached) \in Nat
    BY <1>1, FS_RemoveElement, FS_CardinalityType DEF IndInv
  <2>. QED
    BY <2>1, <1>1, CacheAssumption DEF IndInv
<1>5. OwnNodes'
  BY <1>1 DEF OwnNodes, IndInv, TypeOK
<1>6. Content(frequency_storage') = {lfu_storage'[j] : j \in Cached'}
  BY <1>1, <1>2 DEF IndInv, TypeOK, Cached
<1>. QED
  BY <1>2, <1>3, <1>4, <1>5, <1>6 DEF IndInv, Distinct, InOrder, Content

LEMMA InitInv == Init => IndInv
<1>. SUFFICES ASSUME Init
              PROVE  IndInv
  OBVIOUS
<1>1. Cached = {} /\ frequency_storage = <<>> /\ DOMAIN frequency_storage = {}
  BY DEF Init, Cached
<1>2. TypeOK
  BY <1>1, EmptySeq DEF Init, TypeOK
<1>3. IsFiniteSet(Cached) /\ Cardinality(Cached) <= MaxSize
  BY <1>1, FS_EmptySet, CacheAssumption
<1>4. OwnNodes
  BY <1>1 DEF Init, OwnNodes
<1>. QED
  BY <1>1, <1>2, <1>3, <1>4 DEF IndInv, Content, Distinct, InOrder

(* The operations of the cache, as its users call them. *)
LEMMA GetInv ==
  ASSUME IndInv, NEW k \in Keys, Get(k)
  PROVE  IndInv'
<1>1. k \in Cached /\ Touch(k) /\ UNCHANGED cache_items_map
  BY DEF Get
<1>2. Cached' = Cached /\ cache_items_map' \in [Keys -> Values \cup {Absent}]
  BY <1>1 DEF Cached, IndInv, TypeOK
<1>. QED
  BY <1>1, <1>2, TouchInv

LEMMA PutInv ==
  ASSUME IndInv, NEW k \in Keys, NEW v \in Values, Put(k, v)
  PROVE  IndInv'
<1>1. CASE PutCached(k, v)
  <2>1. k \in Cached /\ Touch(k) /\ cache_items_map' = [cache_items_map EXCEPT ![k] = v]
    BY <1>1 DEF PutCached
  <2>2. /\ cache_items_map' \in [Keys -> Values \cup {Absent}]
        /\ Cached' = Cached \cup {k}
    BY <2>1, CachedAfterPut DEF IndInv
  <2>3. Cached' = Cached
    BY <2>1, <2>2
  <2>. QED
    BY <2>1, <2>2, <2>3, TouchInv
<1>. QED
  BY <1>1, PutNewInv, PutReplacingInv DEF Put

LEMMA StutterInv ==
  ASSUME IndInv, UNCHANGED vars
  PROVE  IndInv'
<1>1. /\ frequency_storage' = frequency_storage /\ lfu_storage' = lfu_storage
      /\ cache_items_map' = cache_items_map /\ Cached' = Cached
  BY DEF vars, Cached
<1>2. TypeOK' /\ OwnNodes'
  BY <1>1 DEF IndInv, TypeOK, OwnNodes
<1>. QED
  BY <1>1, <1>2 DEF IndInv, Content, Distinct, InOrder

LEMMA NextInv == IndInv /\ [Next]_vars => IndInv'
BY GetInv, PutInv, RemoveInv, StutterInv DEF Next

(* The invariant holds in every reachable state, for every set of keys and   *)
(* values and every size of the cache.                                       *)
THEOREM Invariance == Spec => []IndInv
BY InitInv, NextInv, PTL DEF Spec

(* Type correctness of the cache and of the policy's containers.             *)
THEOREM TypeCorrect == Spec => []TypeOK
<1>1. IndInv => TypeOK
  BY DEF IndInv
<1>. QED
  BY <1>1, Invariance, PTL

LEMMA PolicyFollows == IndInv => PolicyAgrees
<1>. SUFFICES ASSUME IndInv
              PROVE  PolicyAgrees
  OBVIOUS
<1>1. \A i \in DOMAIN frequency_storage :
        lfu_storage[frequency_storage[i].key] = frequency_storage[i]
  BY CachedNodes DEF Content
<1>2. ASSUME NEW i \in DOMAIN frequency_storage, NEW j \in DOMAIN frequency_storage,
             frequency_storage[i].key = frequency_storage[j].key
      PROVE  i = j
  BY <1>1, <1>2 DEF IndInv, Distinct
<1>. QED
  BY <1>1, <1>2, CachedNodes DEF IndInv, OwnNodes, Content, PolicyAgrees

(* Items and policy agree: Touch and Erase never use an iterator whose node  *)
(* is gone, however Put, Get and Remove follow each other.                   *)
THEOREM ContainersAgree == Spec => []PolicyAgrees
BY PolicyFollows, Invariance, PTL

-----------------------------------------------------------------------------
(* Refinement *)

Count == [k \in Keys |-> IF lfu_storage[k] = Absent THEN 0 ELSE lfu_storage[k].count]

LEMMA TouchCounts ==
  ASSUME IndInv, NEW k \in Cached, Touch(k)
  PROVE  Count' = [Count EXCEPT ![k] = @ + 1]
<1>1. /\ k \in Keys /\ lfu_storage[k] \in Nodes /\ lfu_storage[k] # Absent
      /\ lfu_storage \in [Keys -> Nodes \cup {Absent}]
  BY CachedNodes, CacheAssumption DEF Cached, Nodes, IndInv, TypeOK
<1>2. [lfu_storage[k] EXCEPT !.count = @ + 1] \in Nodes
  BY <1>1 DEF Nodes
<1>3. [lfu_storage[k] EXCEPT !.count = @ + 1] # Absent
  BY <1>2, CacheAssumption DEF Nodes
<1>4. [lfu_storage[k] EXCEPT !.count = @ + 1].count = lfu_storage[k].count + 1
  BY <1>1 DEF Nodes
<1>. QED
  BY <1>1, <1>3, <1>4 DEF Touch, Count

LEMMA CountOfCached ==
  ASSUME IndInv, NEW k \in Cached
  PROVE  Count[k] = lfu_storage[k].count
BY CachedNodes, CacheAssumption DEF Cached, Nodes, Count

LEMMA PutRefines ==
  ASSUME IndInv, NEW k \in Keys, NEW v \in Values, Put(k, v)
  PROVE  Abstract!Next
<1>. Abstract!CachedKeys = Cached /\ Abstract!Cardinality(Cached) = Cardinality(Cached)
  BY DEF Abstract!CachedKeys, Cached, Abstract!Cardinality, Cardinality
<1>1. FirstUse(k).count = 1 /\ FirstUse(k) # Absent
  <2>1. FirstUse(k) \in [count : Nat \ {0}, key : Keys]
    BY DEF FirstUse
  <2>. QED
    BY <2>1, CacheAssumption DEF FirstUse
<1>2. lfu_storage \in [Keys -> Nodes \cup {Absent}]
  BY DEF IndInv, TypeOK
<1>3. CASE PutCached(k, v)
  <2>1. Abstract!PutCached(k, v)
    BY <1>3, TouchCounts DEF PutCached, Count, Abstract!PutCached
  <2>. QED
    BY <2>1 DEF Abstract!Next
<1>4. CASE PutNew(k, v)
  <2>1. Count' = [Count EXCEPT ![k] = 1]
    BY <1>1, <1>2, <1>4 DEF PutNew, Count
  <2>2. Cardinality(Cached) < MaxSize
    BY <1>4, FS_CardinalityType, CacheAssumption DEF PutNew, IndInv
  <2>3. Abstract!PutNew(k, v)
    BY <2>1, <2>2, <1>4 DEF PutNew, Count, Abstract!PutNew
  <2>. QED
    BY <2>3 DEF Abstract!Next
<1>5. CASE PutReplacing(k, v)
  <2>. PICK victim \in Keys : victim = ReplCandidate
    BY <1>5, FullCache, CandidateIsCached DEF PutReplacing, Cached
  <2>1. /\ victim \in Cached /\ victim \in Keys /\ k \notin Cached /\ victim # k
        /\ Cardinality(Cached) = MaxSize
        /\ \A j \in Cached : lfu_storage[victim].count <= lfu_storage[j].count
    BY <1>5, FullCache, CandidateIsCached DEF PutReplacing, Cached
  <2>2. /\ lfu_storage' = [lfu_storage EXCEPT ![victim] = Absent, ![k] = FirstUse(k)]
        /\ cache_items_map' = [cache_items_map EXCEPT ![victim] = Absent, ![k] = v]
    BY <1>5 DEF PutReplacing
  <2>3. Count' = [Count EXCEPT ![victim] = 0, ![k] = 1]
    BY <1>1, <1>2, <2>1, <2>2 DEF Count
  <2>4. \A j \in Cached : Count[victim] <= Count[j]
    BY <2>1, CountOfCached
  <2>5. Abstract!PutReplacing(k, v, victim)
    BY <2>1, <2>2, <2>3, <2>4 DEF Count, Abstract!PutReplacing, Abstract!LeastUsed
  <2>. QED
    BY <2>5 DEF Abstract!Next
<1>. QED
  BY <1>3, <1>4, <1>5 DEF Put

LEMMA GetRefines ==
  ASSUME IndInv, NEW k \in Keys, Get(k)
  PROVE  Abstract!Next
<1>1. Abstract!Get(k)
  BY TouchCounts DEF Get, Cached, Count, Abstract!Get, Abstract!CachedKeys
<1>. QED
  BY <1>1 DEF Abstract!Next

(* The cache is an LFU cache: at most MaxSize values, each under its key,    *)
(* and the key a new one replaces is one of those used least.                *)
THEOREM CacheIsLFU == Spec => ImplementsLFU
<1>1. Init => Abstract!Init
  BY DEF Init, Abstract!Init
<1>2. IndInv /\ [Next]_vars => [Abstract!Next]_(Abstract!vars)
  <2>. SUFFICES ASSUME IndInv, [Next]_vars
                PROVE  [Abstract!Next]_(Abstract!vars)
    OBVIOUS
  <2>1. ASSUME NEW k \in Keys, Get(k)
        PROVE  Abstract!Next
    BY <2>1, GetRefines
  <2>2. ASSUME NEW k \in Keys, NEW v \in Values, Put(k, v)
        PROVE  Abstract!Next
    BY <2>2, PutRefines
  <2>3. ASSUME NEW k \in Keys, Remove(k)
        PROVE  Abstract!Next
    <3>1. Count' = [Count EXCEPT ![k] = 0]
      BY <2>3 DEF Remove, Count, IndInv, TypeOK
    <3>2. Abstract!Remove(k)
      BY <2>3, <3>1 DEF Remove, Cached, Count, Abstract!Remove, Abstract!CachedKeys
    <3>. QED
      BY <3>2 DEF Abstract!Next
  <2>4. CASE UNCHANGED vars
    BY <2>4 DEF vars, Abstract!vars
  <2>. QED
    BY <2>1, <2>2, <2>3, <2>4 DEF Next
<1>. QED
  BY <1>1, <1>2, Invariance, PTL DEF Spec, ImplementsLFU, Abstract!Spec
=============================================================================
