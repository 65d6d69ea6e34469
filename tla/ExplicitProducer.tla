-------------------------- MODULE ExplicitProducer --------------------------
(***************************************************************************)
(* ExplicitProducer: the queue behind a ProducerToken.  Its blocks are in  *)
(* a ring and stay there; when the block ahead of tailBlock is empty it is *)
(* used again.  blockIndex, a ring too, says in which block a place is;    *)
(* when it is full it is copied to one of twice the size, and consumers    *)
(* may still be reading the old one.                                       *)
(*                                                                         *)
(* Allocating an index never fails here: pr_blockIndexRaw is never null.   *)
(***************************************************************************)
EXTENDS ProducerBase

CONSTANTS
  EXPLICIT_INITIAL_INDEX_SIZE

VARIABLES
  blockIndex,               \* per producer, its BlockIndexHeaders, the last one in use
  pr_blockIndexSlotsUsed,
  pr_blockIndexFront,       \* the next slot
  undone                    \* history: who has undone a call that had taken a block

explicitVars == <<blockIndex, pr_blockIndexSlotsUsed, pr_blockIndexFront, undone>>

NoEntry == [base |-> 0, block |-> NoBlock]

ExplicitInit(explicit) ==
  /\ blockIndex = [p \in explicit |->
       <<[size |-> EXPLICIT_INITIAL_INDEX_SIZE, front |-> 0,
          entries |-> [i \in 0 .. EXPLICIT_INITIAL_INDEX_SIZE - 1 |-> NoEntry]]>>]
  /\ pr_blockIndexSlotsUsed = [p \in explicit |-> 0]
  /\ pr_blockIndexFront = [p \in explicit |-> 0]
  /\ undone = {}

Current(p) == Len(blockIndex[p])

IndexSize(p) == blockIndex[p][Current(p)].size

-----------------------------------------------------------------------------
(* enqueue_bulk *)

ExplicitEnqueues(p, n) ==
  /\ Enqueues(p, "idle") /\ List!Listing(p, "away")
  /\ Proceeds(p, [StartOf(p, n) EXCEPT !.slots = pr_blockIndexSlotsUsed[p],
                                       !.front = pr_blockIndexFront[p]])
  /\ UNCHANGED <<indices, tailBlock, blockVars, poolVars, explicitVars>>

(* Block b becomes the tail block, and the index entry at the front.  If the *)
(* call needs more blocks, it goes on at pc.                                 *)
Appends(p, b, pc) ==
  LET e == enq[p]
      base == e.base + BLOCK_SIZE
  IN  /\ tailBlock' = [tailBlock EXCEPT ![p] = b]
      /\ blockIndex' = [blockIndex EXCEPT
           ![p][Current(p)].entries[pr_blockIndexFront[p]] = [base |-> base, block |-> b]]
      /\ pr_blockIndexFront' = [pr_blockIndexFront EXCEPT ![p] = (@ + 1) % IndexSize(p)]
      /\ Proceeds(p, [e EXCEPT !.need = @ - 1, !.base = base,
                               !.first = IF @ = NoBlock THEN b ELSE @,
                               !.pc = IF e.need = 1 THEN "construct" ELSE pc])

(* Block::is_empty<explicit_context> *)
IsEmpty(b) == emptyFlags[b] = 0 .. BLOCK_SIZE - 1

(* Mutant: the block ahead is used whether it is empty or not. *)
AnyBlockAhead(p) ==
  /\ tailBlock[p] # NoBlock
  /\ nextBlock[tailBlock[p]] # enq[p].first

BlockAhead(p) ==
  /\ tailBlock[p] # NoBlock
  /\ nextBlock[tailBlock[p]] # enq[p].first
  /\ IsEmpty(nextBlock[tailBlock[p]])

TakesBlockAhead(p) ==
  /\ Enqueues(p, "blocks")
  /\ BlockAhead(p)
  /\ Appends(p, nextBlock[tailBlock[p]], "blocks")
  /\ UNCHANGED <<indices, blockVars, poolVars, pr_blockIndexSlotsUsed, undone>>

FindsNoneAhead(p) ==
  /\ Enqueues(p, "blocks")
  /\ ~BlockAhead(p)
  /\ Proceeds(p, [enq[p] EXCEPT !.pc = "room"])
  /\ UNCHANGED <<indices, tailBlock, blockVars, poolVars, explicitVars>>

(* Everything is as before the call, except that new blocks stay in the ring *)
(* and a new index in use.  (The index then counts fewer blocks than there   *)
(* are, or goes on behind entries of the blocks the call had taken: `undone` *)
(* remembers it.)                                                            *)
Reverts(p) ==
  LET e == enq[p]
  IN  /\ pr_blockIndexFront' = [pr_blockIndexFront EXCEPT ![p] = e.front]
      /\ pr_blockIndexSlotsUsed' = [pr_blockIndexSlotsUsed EXCEPT ![p] = e.slots]
      /\ tailBlock' = [tailBlock EXCEPT ![p] = IF e.start = NoBlock THEN e.first ELSE e.start]
      /\ undone' = IF e.first = NoBlock THEN undone ELSE undone \cup {p}
      /\ Proceeds(p, NoEnqueue)
      /\ UNCHANGED <<indices, blockVars, blockIndex>>

ExplicitHasNoRoom(p) ==
  /\ Enqueues(p, "room")
  /\ NoLeeway(p, enq[p].base + BLOCK_SIZE)
  /\ Reverts(p)
  /\ UNCHANGED poolVars

(* new_block_index(originalBlockIndexSlotsUsed) *)
NewBlockIndex(p) ==
  LET size == IndexSize(p)
      used == pr_blockIndexSlotsUsed[p]
      oldest == (pr_blockIndexFront[p] - used) % size
      old == blockIndex[p][Current(p)].entries
  IN  /\ Enqueues(p, "room")
      /\ ~NoLeeway(p, enq[p].base + BLOCK_SIZE)
      /\ used = size
      /\ blockIndex' = [blockIndex EXCEPT ![p] = Append(@,
           [size |-> 2 * size, front |-> enq[p].slots - 1,
            entries |-> [i \in 0 .. 2 * size - 1 |->
                          IF i < used THEN old[(oldest + i) % size] ELSE NoEntry]])]
      /\ pr_blockIndexFront' = [pr_blockIndexFront EXCEPT ![p] = used]
      /\ Proceeds(p, [enq[p] EXCEPT !.pc = "get", !.front = enq[p].slots])
      /\ UNCHANGED <<indices, tailBlock, blockVars, poolVars, pr_blockIndexSlotsUsed,
                     undone>>

HasRoom(p) ==
  /\ Enqueues(p, "room")
  /\ ~NoLeeway(p, enq[p].base + BLOCK_SIZE)
  /\ pr_blockIndexSlotsUsed[p] < IndexSize(p)
  /\ Proceeds(p, [enq[p] EXCEPT !.pc = "get"])
  /\ UNCHANGED <<indices, tailBlock, blockVars, poolVars, explicitVars>>

ExplicitLooksInFreeList(p) ==
  /\ Enqueues(p, "get")
  /\ LooksInFreeList(p)
  /\ UNCHANGED <<indices, tailBlock, blockVars, initialBlockPoolIndex, created, enq, explicitVars>>

(* The new block goes into the ring, empty. *)
ExplicitGetsBlock(p) ==
  \E b \in Blocks :
    LET t == tailBlock[p]
    IN  /\ Enqueues(p, "get")
        /\ Requisitions(p, b)
        /\ Appends(p, b, "room")
        /\ nextBlock' = IF t = NoBlock THEN [nextBlock EXCEPT ![b] = b]
                        ELSE [nextBlock EXCEPT ![b] = nextBlock[t], ![t] = b]
        /\ emptyFlags' = [emptyFlags EXCEPT ![b] = 0 .. BLOCK_SIZE - 1]
        /\ pr_blockIndexSlotsUsed' = [pr_blockIndexSlotsUsed EXCEPT ![p] = @ + 1]
        /\ UNCHANGED <<indices, elementsCompletelyDequeued, elements, undone>>

ExplicitGetsNoBlock(p) ==
  /\ Enqueues(p, "get")
  /\ FindsNoBlock(p)
  /\ Reverts(p)

(* reset_empty of the new blocks, the store of the index's front, and the    *)
(* elements, which nobody may read before the store of tailIndex.            *)
ExplicitConstructs(p) ==
  LET e == enq[p]
      added == NeededBlocks(tailIndex[p], e.n)
  IN  /\ Enqueues(p, "construct")
      /\ emptyFlags' = [b \in Blocks |->
           IF \E k \in 1 .. added : b = NewBlock(p, k) THEN {} ELSE emptyFlags[b]]
      /\ IF added = 0 THEN UNCHANGED blockIndex
         ELSE blockIndex' = [blockIndex EXCEPT
                ![p][Current(p)].front = (pr_blockIndexFront[p] - 1) % IndexSize(p)]
      /\ Constructs(p)
      /\ Proceeds(p, [e EXCEPT !.pc = "store"])
      /\ UNCHANGED <<indices, tailBlock, nextBlock, elementsCompletelyDequeued, poolVars,
                     pr_blockIndexSlotsUsed, pr_blockIndexFront, undone>>

ExplicitStores(p) ==
  /\ StoresTail(p)
  /\ UNCHANGED <<blockVars, poolVars, explicitVars>>

ExplicitEnqueueStep(p) ==
  \/ TakesBlockAhead(p) \/ FindsNoneAhead(p) \/ ExplicitHasNoRoom(p) \/ NewBlockIndex(p)
  \/ HasRoom(p) \/ ExplicitLooksInFreeList(p) \/ ExplicitGetsBlock(p) \/ ExplicitGetsNoBlock(p)
  \/ ExplicitConstructs(p) \/ ExplicitStores(p)

-----------------------------------------------------------------------------
(* dequeue_bulk, from the place to the block and its elements. *)

LoadsBlockIndex(c) ==
  /\ Dequeues(c, "index")
  /\ Goes(c, [deq[c] EXCEPT !.pc = "front", !.header = Current(At(c))])
  /\ UNCHANGED blockVars

LoadsFront(c) ==
  LET d == deq[c]
      header == blockIndex[d.at][d.header]
      offset == Signed(Base(d.first) - header.entries[header.front].base) \div BLOCK_SIZE
  IN  /\ Dequeues(c, "front")
      /\ Goes(c, [d EXCEPT !.pc = "read", !.slot = (header.front + offset) % header.size])
      /\ UNCHANGED blockVars

ExplicitMovesOut(c) ==
  LET d == deq[c]
  IN  /\ Dequeues(c, "read")
      /\ MovesOut(c, blockIndex[d.at][d.header].entries[d.slot].block)

(* set_many_empty<explicit_context> *)
SetsFlags(c) ==
  LET d == deq[c]
  IN  /\ Dequeues(c, "empty")
      /\ emptyFlags' = [emptyFlags EXCEPT ![d.block] = @ \cup Places(d)]
      /\ Goes(c, AfterBlock(d, blockIndex[d.at][d.header].size))
      /\ UNCHANGED <<nextBlock, elementsCompletelyDequeued, elements>>

ExplicitDequeueStep(c) ==
  LoadsBlockIndex(c) \/ LoadsFront(c) \/ ExplicitMovesOut(c) \/ SetsFlags(c)
=============================================================================
