---------------------------- MODULE ProducerBase ----------------------------
(***************************************************************************)
(* What the producers of concurrentqueue.hpp share: the indices of each    *)
(* producer, the blocks its elements are in, where blocks come from, and   *)
(* how a consumer gets the right to take elements.                         *)
(*                                                                         *)
(* A producer writes at tailIndex.  A consumer makes a claim on            *)
(* dequeueOptimisticCount, looks at tailIndex again, gives back in         *)
(* dequeueOvercommit what it claimed too many, and takes places by         *)
(* headIndex.                                                              *)
(*                                                                         *)
(* A step is one operation on an atomic variable, with the thread's own    *)
(* work up to the next.  Memory is sequentially consistent.  enqueue and   *)
(* dequeue are the bulk forms for one element.                             *)
(*                                                                         *)
(* tailIndex and headIndex are kept unbounded, so that an element can be   *)
(* named by its number; the code sees them modulo 2^w, and so do Less and  *)
(* Signed.  The two counters of claims wrap around.                        *)
(***************************************************************************)
EXTENDS Integers, Sequences, FiniteSets

CONSTANTS
  ProducerList,       \* the producers, from producerListTail on
  Consumers,
  NumBlocks,          \* bound: the blocks there is memory for
  PoolSize,           \* initialBlockPoolSize
  BLOCK_SIZE,
  IndexValues         \* 2^w, the number of values of index_t

ASSUME QueueAssumption ==
  /\ BLOCK_SIZE > 1 /\ IndexValues % (2 * BLOCK_SIZE) = 0
  /\ PoolSize \in 0 .. NumBlocks

VARIABLES
  tailIndex, headIndex, dequeueOptimisticCount, dequeueOvercommit,
  tailBlock,
  nextBlock,                    \* Block::next
  emptyFlags,                   \* explicit producers: the places whose flag is set
  elementsCompletelyDequeued,   \* implicit producers: how many are empty
  elements,                     \* per block and place, the element or Raw memory
  initialBlockPoolIndex,
  created,                      \* how many blocks create<Block>() has made
  freeListHead, freeListRefs, freeListNext, lister,
  enq,                          \* the call of each producer
  deq                           \* the call of each consumer

indices == <<tailIndex, headIndex, dequeueOptimisticCount, dequeueOvercommit>>
blockVars == <<nextBlock, emptyFlags, elementsCompletelyDequeued, elements>>
listVars == <<freeListHead, freeListRefs, freeListNext, lister>>
poolVars == <<initialBlockPoolIndex, created, listVars>>

Producers == {ProducerList[i] : i \in DOMAIN ProducerList}
Blocks == 1 .. NumBlocks
NoBlock == 0
Raw == "raw"

List == INSTANCE FreeList WITH
  Nodes <- Blocks, NoNode <- NoBlock, Threads <- Producers \cup Consumers

-----------------------------------------------------------------------------
(* Arithmetic on index_t. *)

(* circular_less_than *)
Less(a, b) == (a - b) % IndexValues > IndexValues \div 2

Signed(d) ==
  LET m == d % IndexValues IN IF m < IndexValues \div 2 THEN m ELSE m - IndexValues

Base(i) == i - (i % BLOCK_SIZE)

Min2(a, b) == IF a < b THEN a ELSE b

(* The blocks that n elements need besides the one the tail is in. *)
NeededBlocks(tail, n) == (Base(tail + n - 1) - Base(tail - 1)) \div BLOCK_SIZE

(* No room for the block at `base`: the tail could pass the head. *)
NoLeeway(p, base) == ~Less(headIndex[p], base + BLOCK_SIZE)

-----------------------------------------------------------------------------
(* requisition_block: the initial pool, then the free list, then new memory, *)
(* or NoBlock.  try_get is done in the free list's steps.                    *)

PoolIsEmpty == initialBlockPoolIndex >= PoolSize

LooksInFreeList(p) ==
  /\ PoolIsEmpty
  /\ List!TryGet(p)

Requisitions(p, b) ==
  \/ /\ ~PoolIsEmpty
     /\ List!Listing(p, "away")
     /\ b = initialBlockPoolIndex + 1
     /\ initialBlockPoolIndex' = initialBlockPoolIndex + 1
     /\ UNCHANGED <<created, listVars>>
  \/ /\ List!Listing(p, "got") /\ lister[p].node # NoBlock
     /\ b = lister[p].node
     /\ List!Takes(p)
     /\ UNCHANGED <<initialBlockPoolIndex, created>>
  \/ /\ List!Listing(p, "got") /\ lister[p].node = NoBlock
     /\ PoolSize + created < NumBlocks
     /\ b = PoolSize + created + 1
     /\ created' = created + 1
     /\ List!Takes(p)
     /\ UNCHANGED initialBlockPoolIndex

FindsNoBlock(p) ==
  /\ List!Listing(p, "got") /\ lister[p].node = NoBlock
  /\ PoolSize + created = NumBlocks
  /\ List!Takes(p)
  /\ UNCHANGED <<initialBlockPoolIndex, created>>

-----------------------------------------------------------------------------
(* A consumer's call.  It wants `max` elements more, from the producer `at`  *)
(* and then from those of `rest`; it has moved `got` out.                    *)

NoCall ==
  [pc |-> "idle", kind |-> "none", max |-> 0, at |-> "none", rest |-> <<>>, got |-> <<>>,
   best |-> 0, nonEmpty |-> 0, tail |-> 0, over |-> 0, want |-> 0, mine |-> 0, give |-> 0,
   first |-> 0, last |-> 0, header |-> 0, slot |-> 0, block |-> NoBlock]

Dequeues(c, pc) == deq[c].pc = pc /\ List!Listing(c, "away")

Goes(c, d) == deq' = [deq EXCEPT ![c] = d]

At(c) == deq[c].at

(* The call d goes on to the next producer, or returns. *)
NextProducer(d) ==
  IF d.rest = <<>> THEN NoCall
  ELSE [NoCall EXCEPT !.pc = "tail", !.kind = d.kind, !.max = d.max, !.got = d.got,
                      !.at = Head(d.rest), !.rest = Tail(d.rest)]

(* The call d has moved out its share of the producer's elements. *)
Served(d) ==
  LET n == d.max - d.want
  IN  IF n = 0 THEN NoCall ELSE NextProducer([d EXCEPT !.max = n])

(* try_dequeue_bulk *)
CallsBulk(c, max) ==
  /\ Dequeues(c, "idle")
  /\ Goes(c, NextProducer([NoCall EXCEPT !.kind = "bulk", !.max = max, !.rest = ProducerList]))

(* try_dequeue: of the first three producers that are not empty the one with *)
(* most elements is tried first, then all others.                            *)
CallsSingle(c) ==
  /\ Dequeues(c, "idle")
  /\ Goes(c, [NoCall EXCEPT !.pc = "survey", !.kind = "single", !.max = 1, !.rest = ProducerList])

(* ProducerBase::size_approx *)
SizeApprox(p) ==
  IF Less(headIndex[p], tailIndex[p]) THEN (tailIndex[p] - headIndex[p]) % IndexValues ELSE 0

AllFrom(p) ==
  LET i == CHOOSE j \in DOMAIN ProducerList : ProducerList[j] = p
  IN  <<p>> \o SubSeq(ProducerList, 1, i - 1) \o SubSeq(ProducerList, i + 1, Len(ProducerList))

SurveyEnds(d) ==
  IF d.rest # <<>> /\ d.nonEmpty < 3 THEN d
  ELSE IF d.nonEmpty = 0 THEN NoCall
  ELSE NextProducer([d EXCEPT !.rest = AllFrom(d.at)])

Surveys(c) ==
  LET d == deq[c]
      p == Head(d.rest)
      size == SizeApprox(p)
      better == size > d.best
  IN  /\ Dequeues(c, "survey")
      /\ Goes(c, SurveyEnds(
           [d EXCEPT !.rest = Tail(@),
                     !.nonEmpty = IF size > 0 THEN @ + 1 ELSE @,
                     !.best = IF better THEN size ELSE @,
                     !.at = IF better THEN p ELSE @]))

-----------------------------------------------------------------------------
(* dequeue_bulk, up to the place of the first element. *)

LoadsTail(c) ==
  /\ Dequeues(c, "tail")
  /\ Goes(c, [deq[c] EXCEPT !.pc = "overcommit", !.tail = tailIndex[At(c)]])
  /\ UNCHANGED indices

LoadsOvercommit(c) ==
  /\ Dequeues(c, "overcommit")
  /\ Goes(c, [deq[c] EXCEPT !.pc = "optimistic", !.over = dequeueOvercommit[At(c)]])
  /\ UNCHANGED indices

LoadsOptimistic(c) ==
  LET d == deq[c]
      desired == (d.tail - (dequeueOptimisticCount[d.at] - d.over)) % IndexValues
  IN  /\ Dequeues(c, "optimistic")
      /\ Goes(c, IF Less(0, desired)
                 THEN [d EXCEPT !.pc = "claim", !.tail = 0, !.want = Min2(desired, d.max)]
                 ELSE NextProducer(d))
      /\ UNCHANGED indices

Claims(c) ==
  LET d == deq[c]
  IN  /\ Dequeues(c, "claim")
      /\ dequeueOptimisticCount' = [dequeueOptimisticCount EXCEPT ![d.at] = (@ + d.want) % IndexValues]
      /\ Goes(c, [d EXCEPT !.pc = "check", !.mine = dequeueOptimisticCount[d.at]])
      /\ UNCHANGED <<tailIndex, headIndex, dequeueOvercommit>>

(* What the tail the consumer sees now leaves of its claim. *)
Checks(c) ==
  LET d == deq[c]
      actual == (tailIndex[d.at] - (d.mine - d.over)) % IndexValues
      n == IF Less(0, actual) THEN Min2(actual, d.want) ELSE 0
  IN  /\ Dequeues(c, "check")
      /\ Goes(c, [d EXCEPT !.pc = IF n < d.want THEN "give" ELSE "take",
                           !.want = n, !.give = d.want - n, !.mine = 0, !.over = 0])
      /\ UNCHANGED indices

(* Mutant: one is given back, whatever was claimed. *)
GivesBackOne(c) ==
  LET d == deq[c]
  IN  /\ Dequeues(c, "give")
      /\ dequeueOvercommit' = [dequeueOvercommit EXCEPT ![d.at] = (@ + 1) % IndexValues]
      /\ Goes(c, IF d.want > 0 THEN [d EXCEPT !.pc = "take", !.give = 0] ELSE NextProducer(d))
      /\ UNCHANGED <<tailIndex, headIndex, dequeueOptimisticCount>>

GivesBack(c) ==
  LET d == deq[c]
  IN  /\ Dequeues(c, "give")
      /\ dequeueOvercommit' = [dequeueOvercommit EXCEPT ![d.at] = (@ + d.give) % IndexValues]
      /\ Goes(c, IF d.want > 0 THEN [d EXCEPT !.pc = "take", !.give = 0] ELSE NextProducer(d))
      /\ UNCHANGED <<tailIndex, headIndex, dequeueOptimisticCount>>

Takes(c) ==
  LET d == deq[c]
  IN  /\ Dequeues(c, "take")
      /\ headIndex' = [headIndex EXCEPT ![d.at] = @ + d.want]
      /\ Goes(c, [d EXCEPT !.pc = "index", !.first = headIndex[d.at],
                           !.last = headIndex[d.at] + d.want])
      /\ UNCHANGED <<tailIndex, dequeueOptimisticCount, dequeueOvercommit>>

ClaimStep(c) ==
  \/ LoadsTail(c) \/ LoadsOvercommit(c) \/ LoadsOptimistic(c)
  \/ Claims(c) \/ Checks(c) \/ GivesBack(c) \/ Takes(c)

-----------------------------------------------------------------------------
(* The elements of one block. *)

EndOfBlock(d) == Min2(d.last, Base(d.first) + BLOCK_SIZE)

Places(d) == {i % BLOCK_SIZE : i \in d.first .. EndOfBlock(d) - 1}

MovesOut(c, b) ==
  LET d == deq[c]
      n == EndOfBlock(d) - d.first
  IN  /\ Goes(c, [d EXCEPT !.pc = "empty", !.block = b,
                           !.got = @ \o [i \in 1 .. n |-> elements[b][(d.first + i - 1) % BLOCK_SIZE]]])
      /\ elements' = [elements EXCEPT ![b] =
           [i \in DOMAIN @ |-> IF i \in Places(d) THEN Raw ELSE @[i]]]
      /\ UNCHANGED <<nextBlock, emptyFlags, elementsCompletelyDequeued>>

(* On to the next block, which is in the next slot of the index. *)
AfterBlock(d, capacity) ==
  IF EndOfBlock(d) = d.last THEN Served(d)
  ELSE [d EXCEPT !.pc = "read", !.block = NoBlock, !.first = EndOfBlock(d),
                 !.slot = (@ + 1) % capacity]

(* The k-th of a call's new blocks. *)
NewBlock(p, n) ==
  LET chain[k \in 1 .. n] == IF k = 1 THEN enq[p].first ELSE nextBlock[chain[k - 1]]
  IN  chain[n]

(* A producer writes the elements of its call: first into what is left of   *)
(* the block the tail is in, then into the new blocks.                       *)
Constructs(p) ==
  LET t == tailIndex[p]
      written(b) ==
        {i \in t .. t + enq[p].n - 1 :
          LET k == (Base(i) - Base(t - 1)) \div BLOCK_SIZE
          IN  b = IF k = 0 THEN enq[p].start ELSE NewBlock(p, k)}
  IN  elements' = [b \in DOMAIN elements |->
        [j \in DOMAIN elements[b] |->
          IF \E i \in written(b) : i % BLOCK_SIZE = j
          THEN <<p, 1 + CHOOSE i \in written(b) : i % BLOCK_SIZE = j>>
          ELSE elements[b][j]]]

NoEnqueue == [pc |-> "idle", n |-> 0, need |-> 0, base |-> 0, first |-> NoBlock,
              start |-> NoBlock, slots |-> 0, front |-> 0]

Enqueues(p, pc) == enq[p].pc = pc

Proceeds(p, e) == enq' = [enq EXCEPT ![p] = e]

(* The start of enqueue_bulk. *)
StartOf(p, n) ==
  LET t == tailIndex[p]
  IN  [NoEnqueue EXCEPT !.n = n, !.need = NeededBlocks(t, n), !.base = Base(t - 1), !.start = tailBlock[p],
                        !.pc = IF NeededBlocks(t, n) = 0 THEN "construct" ELSE "blocks"]

StoresTail(p) ==
  /\ Enqueues(p, "store")
  /\ tailIndex' = [tailIndex EXCEPT ![p] = @ + enq[p].n]
  /\ Proceeds(p, NoEnqueue)
  /\ UNCHANGED <<headIndex, dequeueOptimisticCount, dequeueOvercommit, tailBlock>>

-----------------------------------------------------------------------------
BaseInit ==
  /\ tailIndex = [p \in Producers |-> 0]
  /\ headIndex = tailIndex /\ dequeueOptimisticCount = tailIndex /\ dequeueOvercommit = tailIndex
  /\ tailBlock = [p \in Producers |-> NoBlock]
  /\ nextBlock = [b \in {NoBlock} \cup Blocks |-> NoBlock]
  /\ emptyFlags = [b \in Blocks |-> {}]
  /\ elementsCompletelyDequeued = [b \in Blocks |-> 0]
  /\ elements = [b \in {NoBlock} \cup Blocks |-> [i \in 0 .. BLOCK_SIZE - 1 |-> Raw]]
  /\ initialBlockPoolIndex = 0
  /\ created = 0
  /\ List!ListInit
  /\ enq = [p \in Producers |-> NoEnqueue]
  /\ deq = [c \in Consumers |-> NoCall]
=============================================================================
