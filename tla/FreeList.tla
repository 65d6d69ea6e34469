------------------------------ MODULE FreeList ------------------------------
(***************************************************************************)
(* FreeList of concurrentqueue.hpp: a stack of nodes without locks.  The   *)
(* reference count of a node keeps threads that look at the head from      *)
(* being misled when it is taken and put back meanwhile.                   *)
(*                                                                         *)
(* A step is one atomic operation.  freeListRefs is a count and a bit in   *)
(* one word; the sum of the two never overflows into the bit.              *)
(***************************************************************************)
EXTENDS Integers, FiniteSets

CONSTANTS
  Nodes,
  Threads,
  NoNode    \* nullptr, not a node

VARIABLES
  freeListHead,
  freeListRefs,   \* per node [count, should]: REFS_MASK and SHOULD_BE_ON_FREELIST
  freeListNext,
  lister          \* what each thread does in the free list

listVars == <<freeListHead, freeListRefs, freeListNext, lister>>

Away == [pc |-> "away", node |-> NoNode, head |-> NoNode, next |-> NoNode, getting |-> FALSE]

ListInit ==
  /\ freeListHead = NoNode
  /\ freeListRefs = [b \in Nodes |-> [count |-> 0, should |-> FALSE]]
  /\ freeListNext = [b \in Nodes |-> NoNode]
  /\ lister = [t \in Threads |-> Away]

Listing(t, pc) == lister[t].pc = pc

Moves(t, l) == lister' = [lister EXCEPT ![t] = l]

(* add has ended; try_get goes on with the head it has. *)
Leaves(t) ==
  Moves(t, IF lister[t].getting
           THEN [Away EXCEPT !.pc = "loop", !.head = lister[t].head, !.getting = TRUE]
           ELSE Away)

-----------------------------------------------------------------------------
(* add: the thread that finds no reference links the node. *)
Add(t, b) ==
  /\ Listing(t, "away")
  /\ freeListRefs' = [freeListRefs EXCEPT ![b].should = TRUE]
  /\ Moves(t, IF freeListRefs[b].count = 0
              THEN [Away EXCEPT !.pc = "load", !.node = b] ELSE Away)
  /\ UNCHANGED <<freeListHead, freeListNext>>

(* add_knowing_refcount_is_zero. *)
LoadsHead(t) ==
  /\ Listing(t, "load")
  /\ Moves(t, [lister[t] EXCEPT !.pc = "link", !.next = freeListHead])
  /\ UNCHANGED <<freeListHead, freeListRefs, freeListNext>>

Links(t) ==
  LET b == lister[t].node
  IN  /\ Listing(t, "link")
      /\ freeListNext' = [freeListNext EXCEPT ![b] = lister[t].next]
      /\ freeListRefs' = [freeListRefs EXCEPT ![b] = [count |-> 1, should |-> FALSE]]
      /\ Moves(t, [lister[t] EXCEPT !.pc = "swap"])
      /\ UNCHANGED freeListHead

SwapsHead(t) ==
  /\ Listing(t, "swap")
  /\ IF freeListHead = lister[t].next
     THEN freeListHead' = lister[t].node /\ Leaves(t)
     ELSE /\ Moves(t, [lister[t] EXCEPT !.pc = "unlink", !.next = freeListHead])
          /\ UNCHANGED freeListHead
  /\ UNCHANGED <<freeListRefs, freeListNext>>

(* Adding SHOULD_BE_ON_FREELIST - 1: the reference is given back, and who    *)
(* gives back the last one links the node.                                   *)
Unlinks(t) ==
  LET b == lister[t].node
  IN  /\ Listing(t, "unlink")
      /\ freeListRefs' = [freeListRefs EXCEPT ![b] = [count |-> @.count - 1, should |-> TRUE]]
      /\ IF freeListRefs[b] = [count |-> 1, should |-> FALSE]
         THEN Moves(t, [lister[t] EXCEPT !.pc = "link"])
         ELSE Leaves(t)
      /\ UNCHANGED <<freeListHead, freeListNext>>

-----------------------------------------------------------------------------
(* try_get.  It ends in "got", with NoNode when the list was empty. *)
TryGet(t) ==
  /\ Listing(t, "away")
  /\ Moves(t, [Away EXCEPT !.pc = IF freeListHead = NoNode THEN "got" ELSE "loop",
                           !.head = freeListHead, !.getting = TRUE])
  /\ UNCHANGED <<freeListHead, freeListRefs, freeListNext>>

(* Mutant: a node with no reference can be looked at. *)
RefersToAnyHead(t) ==
  LET h == lister[t].head
  IN  /\ Listing(t, "loop")
      /\ IF h = NoNode
         THEN /\ Moves(t, [lister[t] EXCEPT !.pc = "got", !.node = NoNode])
              /\ UNCHANGED freeListRefs
         ELSE /\ freeListRefs' = [freeListRefs EXCEPT ![h].count = @ + 1]
              /\ Moves(t, [lister[t] EXCEPT !.pc = "next"])
      /\ UNCHANGED <<freeListHead, freeListNext>>

(* The head the thread has, which may be an old one, gets a reference. *)
RefersToHead(t) ==
  LET h == lister[t].head
  IN  /\ Listing(t, "loop")
      /\ IF h = NoNode
         THEN /\ Moves(t, [lister[t] EXCEPT !.pc = "got", !.node = NoNode])
              /\ UNCHANGED freeListRefs
         ELSE IF freeListRefs[h].count = 0
         THEN /\ Moves(t, [lister[t] EXCEPT !.head = freeListHead])
              /\ UNCHANGED freeListRefs
         ELSE /\ freeListRefs' = [freeListRefs EXCEPT ![h].count = @ + 1]
              /\ Moves(t, [lister[t] EXCEPT !.pc = "next"])
      /\ UNCHANGED <<freeListHead, freeListNext>>

ReadsNext(t) ==
  /\ Listing(t, "next")
  /\ Moves(t, [lister[t] EXCEPT !.pc = "take", !.next = freeListNext[lister[t].head]])
  /\ UNCHANGED <<freeListHead, freeListRefs, freeListNext>>

TakesHead(t) ==
  LET h == lister[t].head
  IN  /\ Listing(t, "take")
      /\ IF freeListHead = h
         THEN /\ freeListHead' = lister[t].next
              /\ Moves(t, [lister[t] EXCEPT !.pc = "drop", !.node = h, !.next = NoNode])
         ELSE /\ Moves(t, [lister[t] EXCEPT !.pc = "release", !.node = h,
                             !.head = freeListHead, !.next = NoNode])
              /\ UNCHANGED freeListHead
      /\ UNCHANGED <<freeListRefs, freeListNext>>

(* The thread has the node: its own reference goes, and the list's. *)
Drops(t) ==
  /\ Listing(t, "drop")
  /\ freeListRefs' = [freeListRefs EXCEPT ![lister[t].node].count = @ - 2]
  /\ Moves(t, [lister[t] EXCEPT !.pc = "got", !.head = NoNode])
  /\ UNCHANGED <<freeListHead, freeListNext>>

(* The head had changed: the reference goes, and with it, perhaps, the node  *)
(* to the list, if it was added while this thread had the last reference.    *)
Releases(t) ==
  LET b == lister[t].node
  IN  /\ Listing(t, "release")
      /\ freeListRefs' = [freeListRefs EXCEPT ![b].count = @ - 1]
      /\ IF freeListRefs[b] = [count |-> 1, should |-> TRUE]
         THEN Moves(t, [lister[t] EXCEPT !.pc = "load"])
         ELSE Leaves(t)
      /\ UNCHANGED <<freeListHead, freeListNext>>

(* The caller has taken the node. *)
Takes(t) ==
  /\ Listing(t, "got")
  /\ Moves(t, Away)
  /\ UNCHANGED <<freeListHead, freeListRefs, freeListNext>>

ListStep(t) ==
  \/ LoadsHead(t) \/ Links(t) \/ SwapsHead(t) \/ Unlinks(t)
  \/ RefersToHead(t) \/ ReadsNext(t) \/ TakesHead(t) \/ Drops(t) \/ Releases(t)

-----------------------------------------------------------------------------
(* The nodes that can be reached from the head, in order or cut off where a  *)
(* node would come twice.                                                    *)
OnList ==
  LET reach[n \in 0 .. Cardinality(Nodes)] ==
        IF n = 0 THEN {freeListHead} \ {NoNode}
        ELSE reach[n - 1] \cup ({freeListNext[b] : b \in reach[n - 1]} \ {NoNode})
  IN  reach[Cardinality(Nodes)]

(* Nodes that a thread is about to link. *)
BeingLinked == {lister[t].node : t \in {u \in Threads : lister[u].pc \in {"load", "link"}}}

(* Threads that have a reference to a node: try_get's, and the list's own,   *)
(* which a thread has in its hand before and after the swap of the head.     *)
Referrers(b) ==
  {t \in Threads : lister[t].head = b /\ lister[t].pc \in {"next", "take"}}
    \cup {t \in Threads : lister[t].node = b /\ lister[t].pc \in {"swap", "unlink", "release", "drop"}}

References(b) ==
  Cardinality(Referrers(b)) + (IF b \in OnList THEN 1 ELSE 0)
    + Cardinality({t \in Threads : lister[t].node = b /\ lister[t].pc = "drop"})
=============================================================================
