-------------------------- MODULE ImplicitProducer --------------------------
(***************************************************************************)
(* ImplicitProducer: the queue behind a thread without a token.  The       *)
(* consumer that empties a block takes it out of the index and puts it on  *)
(* the free list, from where any producer may take it.  An index entry may *)
(* be used again when its value is null; entries are shared between the    *)
(* index and the larger one that replaces it.                              *)
(***************************************************************************)
EXTENDS ProducerBase

CONSTANTS
  IMPLICIT_INITIAL_INDEX_SIZE

VARIABLES
  implicitIndex,    \* per producer, its BlockIndexHeaders, the last one in use
  entries           \* per producer, all its BlockIndexEntries

implicitVars == <<implicitIndex, entries>>

INVALID_BLOCK_BASE == 1

NewEntries(n) == [i \in 1 .. n |-> [key |-> INVALID_BLOCK_BASE, value |-> NoBlock]]

ImplicitInit(implicit) ==
  LET n == IMPLICIT_INITIAL_INDEX_SIZE
  IN  /\ implicitIndex = [p \in implicit |->
           <<[capacity |-> n, tail |-> n - 1, index |-> [i \in 0 .. n - 1 |-> i + 1]]>>]
      /\ entries = [p \in implicit |-> NewEntries(n)]

Latest(p) == Len(implicitIndex[p])

Header(p) == implicitIndex[p][Latest(p)]

(* get_block_index_index_for_index *)
SlotOf(p, header, i) ==
  LET tailBase == entries[p][header.index[header.tail]].key
  IN  (header.tail + (Signed(Base(i) - tailBase) \div BLOCK_SIZE)) % header.capacity

EntryFor(p, i) == Header(p).index[SlotOf(p, Header(p), i)]

-----------------------------------------------------------------------------
(* enqueue_bulk *)

ImplicitEnqueues(p, n) ==
  /\ Enqueues(p, "idle") /\ List!Listing(p, "away")
  /\ Proceeds(p, StartOf(p, n))
  /\ UNCHANGED <<indices, tailBlock, blockVars, poolVars, implicitVars>>

ImplicitHasNoRoom(p) ==
  /\ Enqueues(p, "blocks")
  /\ NoLeeway(p, enq[p].base + BLOCK_SIZE)
  /\ Proceeds(p, [enq[p] EXCEPT !.pc = "undo", !.base = Base(tailIndex[p] - 1)])
  /\ UNCHANGED <<indices, tailBlock, blockVars, poolVars, implicitVars>>

NextSlot(p) == (Header(p).tail + 1) % Header(p).capacity

SlotIsFree(p) ==
  LET entry == entries[p][Header(p).index[NextSlot(p)]]
  IN  entry.key = INVALID_BLOCK_BASE \/ entry.value = NoBlock

(* insert_block_index_entry *)
InsertsEntry(p) ==
  /\ Enqueues(p, "blocks")
  /\ ~NoLeeway(p, enq[p].base + BLOCK_SIZE)
  /\ SlotIsFree(p)
  /\ entries' = [entries EXCEPT
       ![p][Header(p).index[NextSlot(p)]].key = enq[p].base + BLOCK_SIZE]
  /\ implicitIndex' = [implicitIndex EXCEPT ![p][Latest(p)].tail = NextSlot(p)]
  /\ Proceeds(p, [enq[p] EXCEPT !.pc = "get", !.base = @ + BLOCK_SIZE])
  /\ UNCHANGED <<indices, tailBlock, blockVars, poolVars>>

(* new_block_index: the old entries in their order, then as many new ones.   *)
EnlargesIndex(p) ==
  LET old == Header(p)
      n == old.capacity
  IN  /\ Enqueues(p, "blocks")
      /\ ~NoLeeway(p, enq[p].base + BLOCK_SIZE)
      /\ ~SlotIsFree(p)
      /\ entries' = [entries EXCEPT ![p] = @ \o NewEntries(n)]
      /\ implicitIndex' = [implicitIndex EXCEPT ![p] = Append(@,
           [capacity |-> 2 * n, tail |-> n - 1,
            index |-> [i \in 0 .. 2 * n - 1 |->
              IF i < n THEN old.index[(old.tail + 1 + i) % n] ELSE Len(entries[p]) + 1 + i - n]])]
      /\ UNCHANGED <<indices, tailBlock, blockVars, poolVars, enq>>

ImplicitLooksInFreeList(p) ==
  /\ Enqueues(p, "get")
  /\ LooksInFreeList(p)
  /\ UNCHANGED <<indices, tailBlock, blockVars, initialBlockPoolIndex, created, enq, implicitVars>>

ImplicitGetsBlock(p) ==
  \E b \in Blocks :
    LET e == enq[p]
        linked == tailIndex[p] % BLOCK_SIZE # 0 \/ e.first # NoBlock
    IN  /\ Enqueues(p, "get")
        /\ Requisitions(p, b)
        /\ elementsCompletelyDequeued' = [elementsCompletelyDequeued EXCEPT ![b] = 0]
        /\ entries' = [entries EXCEPT ![p][Header(p).index[Header(p).tail]].value = b]
        /\ nextBlock' = [nextBlock EXCEPT
             ![b] = NoBlock, ![IF linked THEN tailBlock[p] ELSE b] = IF linked THEN b ELSE NoBlock]
        /\ tailBlock' = [tailBlock EXCEPT ![p] = b]
        /\ Proceeds(p, [e EXCEPT !.need = @ - 1, !.first = IF @ = NoBlock THEN b ELSE @,
                                 !.pc = IF e.need = 1 THEN "construct" ELSE "blocks"])
        /\ UNCHANGED <<indices, emptyFlags, elements, implicitIndex>>

Rewound(header) == [header EXCEPT !.tail = (@ - 1) % header.capacity]

(* The entry just inserted is taken back: rewind_block_index_tail. *)
ImplicitGetsNoBlock(p) ==
  /\ Enqueues(p, "get")
  /\ FindsNoBlock(p)
  /\ implicitIndex' = [implicitIndex EXCEPT ![p][Latest(p)] = Rewound(@)]
  /\ entries' = [entries EXCEPT ![p][Header(p).index[Header(p).tail]].value = NoBlock]
  /\ Proceeds(p, [enq[p] EXCEPT !.pc = "undo", !.base = Base(tailIndex[p] - 1)])
  /\ UNCHANGED <<indices, tailBlock, blockVars>>

(* The blocks the failed call has got lose their index entries, oldest       *)
(* first, and when all have, go to the free list.                            *)
Unindexed(p) == (enq[p].base - Base(tailIndex[p] - 1)) \div BLOCK_SIZE

Gotten(p) == NeededBlocks(tailIndex[p], enq[p].n) - enq[p].need

(* Mutant: the entry keeps its value. *)
UndoesTailOnly(p) ==
  /\ Enqueues(p, "undo")
  /\ Unindexed(p) < Gotten(p)
  /\ implicitIndex' = [implicitIndex EXCEPT ![p][Latest(p)] = Rewound(@)]
  /\ Proceeds(p, [enq[p] EXCEPT !.base = @ + BLOCK_SIZE])
  /\ UNCHANGED <<indices, tailBlock, blockVars, poolVars, entries>>

UndoesEntry(p) ==
  LET i == enq[p].base + BLOCK_SIZE
  IN  /\ Enqueues(p, "undo")
      /\ Unindexed(p) < Gotten(p)
      /\ entries' = [entries EXCEPT ![p][EntryFor(p, i)].value = NoBlock]
      /\ implicitIndex' = [implicitIndex EXCEPT ![p][Latest(p)] = Rewound(@)]
      /\ Proceeds(p, [enq[p] EXCEPT !.base = i])
      /\ UNCHANGED <<indices, tailBlock, blockVars, poolVars>>

(* add_blocks_to_free_list, one by one. *)
FreesNewBlock(p) ==
  LET b == enq[p].first
  IN  /\ Enqueues(p, "undo")
      /\ Unindexed(p) = Gotten(p) /\ b # NoBlock
      /\ List!Add(p, b)
      /\ Proceeds(p, [enq[p] EXCEPT !.first = nextBlock[b]])
      /\ UNCHANGED <<indices, tailBlock, blockVars, initialBlockPoolIndex, created, implicitVars>>

ImplicitFails(p) ==
  /\ Enqueues(p, "undo") /\ List!Listing(p, "away")
  /\ Unindexed(p) = Gotten(p) /\ enq[p].first = NoBlock
  /\ tailBlock' = [tailBlock EXCEPT ![p] = enq[p].start]
  /\ Proceeds(p, NoEnqueue)
  /\ UNCHANGED <<indices, blockVars, poolVars, implicitVars>>

ImplicitConstructs(p) ==
  /\ Enqueues(p, "construct")
  /\ Constructs(p)
  /\ Proceeds(p, [enq[p] EXCEPT !.pc = "store"])
  /\ UNCHANGED <<indices, tailBlock, nextBlock, emptyFlags, elementsCompletelyDequeued, poolVars,
                 implicitVars>>

ImplicitStores(p) ==
  /\ StoresTail(p)
  /\ UNCHANGED <<blockVars, poolVars, implicitVars>>

ImplicitEnqueueStep(p) ==
  \/ ImplicitHasNoRoom(p) \/ InsertsEntry(p) \/ EnlargesIndex(p) \/ ImplicitLooksInFreeList(p)
  \/ ImplicitGetsBlock(p) \/ ImplicitGetsNoBlock(p) \/ UndoesEntry(p) \/ FreesNewBlock(p)
  \/ ImplicitFails(p) \/ ImplicitConstructs(p) \/ ImplicitStores(p)

-----------------------------------------------------------------------------
(* dequeue_bulk, from the place to the block, its elements and the free list *)

LoadsImplicitIndex(c) ==
  /\ Dequeues(c, "index")
  /\ Goes(c, [deq[c] EXCEPT !.pc = "slot", !.header = Latest(At(c))])
  /\ UNCHANGED <<blockVars, poolVars, implicitVars>>

FindsSlot(c) ==
  LET d == deq[c]
  IN  /\ Dequeues(c, "slot")
      /\ Goes(c, [d EXCEPT !.pc = "read", !.slot = SlotOf(d.at, implicitIndex[d.at][d.header], d.first)])
      /\ UNCHANGED <<blockVars, poolVars, implicitVars>>

EntryAt(d) == implicitIndex[d.at][d.header].index[d.slot]

ImplicitMovesOut(c) ==
  LET d == deq[c]
  IN  /\ Dequeues(c, "read")
      /\ MovesOut(c, entries[d.at][EntryAt(d)].value)
      /\ UNCHANGED <<poolVars, implicitVars>>

(* set_many_empty<implicit_context> *)
Counts(c) ==
  LET d == deq[c]
      count == elementsCompletelyDequeued[d.block] + EndOfBlock(d) - d.first
  IN  /\ Dequeues(c, "empty")
      /\ elementsCompletelyDequeued' = [elementsCompletelyDequeued EXCEPT ![d.block] = count]
      /\ Goes(c, IF count = BLOCK_SIZE THEN [d EXCEPT !.pc = "unindex"]
                 ELSE AfterBlock(d, implicitIndex[d.at][d.header].capacity))
      /\ UNCHANGED <<nextBlock, emptyFlags, elements, poolVars, implicitVars>>

TakesOutOfIndex(c) ==
  LET d == deq[c]
  IN  /\ Dequeues(c, "unindex")
      /\ entries' = [entries EXCEPT ![d.at][EntryAt(d)].value = NoBlock]
      /\ Goes(c, [d EXCEPT !.pc = "free"])
      /\ UNCHANGED <<blockVars, poolVars, implicitIndex>>

FreesBlock(c) ==
  LET d == deq[c]
  IN  /\ Dequeues(c, "free")
      /\ List!Add(c, d.block)
      /\ Goes(c, AfterBlock(d, implicitIndex[d.at][d.header].capacity))
      /\ UNCHANGED <<blockVars, initialBlockPoolIndex, created, implicitVars>>

ImplicitDequeueStep(c) ==
  \/ LoadsImplicitIndex(c) \/ FindsSlot(c) \/ ImplicitMovesOut(c) \/ Counts(c)
  \/ TakesOutOfIndex(c) \/ FreesBlock(c)
=============================================================================
