-------------------------- MODULE ConcurrentQueue --------------------------
(***************************************************************************)
(* moodycamel::ConcurrentQueue, the queue behind unprocessedClients and    *)
(* haveData: explicit and implicit producers, and consumers that call      *)
(* try_dequeue, try_dequeue with a ConsumerToken, or try_dequeue_bulk.     *)
(* The server uses the tokens' calls.                                      *)
(*                                                                         *)
(* The producers are there from the start: tokens are made before the      *)
(* server's threads start.  Constructors that throw are left out.          *)
(***************************************************************************)
EXTENDS ExplicitProducer, ImplicitProducer, FiniteSetsExt

CONSTANTS
  Explicit,         \* the producers with a token
  FirstOffset,      \* the initialOffset of each consumer's token
  Quota,            \* EXPLICIT_CONSUMER_CONSUMPTION_QUOTA_BEFORE_ROTATE
  MaxBulk,          \* bound: the most elements of a call
  MaxOvercommit,    \* bound: no new calls when this many claims have been given back
  Scenarios         \* bound: how many elements each producer sends, and which calls each consumer makes

(* Elements are claimed and given back modulo 2^w: what can be given back    *)
(* and claimed between two loads of one consumer stays below half of it.     *)
ASSUME ClaimAssumption ==
  /\ IsFiniteSet(Consumers)
  /\ IndexValues \in Nat \ {0} /\ BLOCK_SIZE \in Nat
  /\ MaxBulk \in Nat \ {0} /\ MaxOvercommit \in Nat \ {0}
  /\ MaxOvercommit - 1 + MaxBulk * Cardinality(Consumers) <= IndexValues \div 2

ASSUME CallAssumption ==
  /\ ProducerList \in Seq(Producers) \ {<<>>} /\ IsInjective(ProducerList)
  /\ FirstOffset \in [Consumers -> Int]
  /\ \A s \in Scenarios : s.sends \in [Producers -> Nat]

VARIABLES
  token,                            \* of each consumer; producers by their place in ProducerList
  globalExplicitConsumerOffset,
  scenario                          \* one of Scenarios, and never changed

tokenVars == <<token, globalExplicitConsumerOffset>>

vars == <<indices, tailBlock, blockVars, poolVars, enq, deq, explicitVars, implicitVars, tokenVars, scenario>>

Implicit == Producers \ Explicit

Init ==
  /\ BaseInit
  /\ ExplicitInit(Explicit)
  /\ ImplicitInit(Implicit)
  /\ token = [c \in Consumers |-> [desired |-> 0, current |-> 0, known |-> -1, consumed |-> 0]]
  /\ globalExplicitConsumerOffset = 0
  /\ scenario \in Scenarios

-----------------------------------------------------------------------------
(* update_current_producer_after_rotation *)
Rotated(c) ==
  LET t == token[c]
      n == Len(ProducerList)
      desired == IF t.desired = 0 THEN n - (FirstOffset[c] % n) ELSE t.desired
      delta == globalExplicitConsumerOffset - t.known
      place == 1 + ((desired - 1 + delta) % n)
  IN  [desired |-> place, current |-> place, known |-> globalExplicitConsumerOffset, consumed |-> 0]

(* try_dequeue with a token: its own producer first, then once round all.    *)
CallsWithToken(c) ==
  LET t == IF token[c].desired = 0 \/ token[c].known # globalExplicitConsumerOffset
           THEN Rotated(c) ELSE token[c]
      n == Len(ProducerList)
  IN  /\ Dequeues(c, "idle")
      /\ token' = [token EXCEPT ![c] = t]
      /\ Goes(c, NextProducer([NoCall EXCEPT !.kind = "token", !.max = 1,
           !.rest = [i \in 1 .. n |-> ProducerList[1 + ((t.current - 1 + i - 1) % n)]]]))
      /\ UNCHANGED globalExplicitConsumerOffset

(* What a call with a token has got is counted when it returns. *)
CountsForToken(c) ==
  LET t == token[c]
      own == At(c) = ProducerList[t.current]
  IN  IF deq[c].kind = "token" /\ deq'[c] = NoCall
      THEN /\ token' = [token EXCEPT ![c] =
                IF own THEN [t EXCEPT !.consumed = @ + 1]
                ELSE [t EXCEPT !.consumed = 1,
                               !.current = CHOOSE i \in DOMAIN ProducerList : ProducerList[i] = At(c)]]
           /\ globalExplicitConsumerOffset' =
                IF own /\ t.consumed + 1 = Quota THEN globalExplicitConsumerOffset + 1
                ELSE globalExplicitConsumerOffset
      ELSE UNCHANGED tokenVars

-----------------------------------------------------------------------------
EnqueueStep(p) ==
  \/ /\ p \in Explicit
     /\ \/ \E n \in 1 .. Min2(MaxBulk, scenario.sends[p] - tailIndex[p]) : ExplicitEnqueues(p, n)
        \/ ExplicitEnqueueStep(p)
     /\ UNCHANGED <<implicitVars, deq, tokenVars, scenario>>
  \/ /\ p \in Implicit
     /\ \/ \E n \in 1 .. Min2(MaxBulk, scenario.sends[p] - tailIndex[p]) : ImplicitEnqueues(p, n)
        \/ ImplicitEnqueueStep(p)
     /\ UNCHANGED <<explicitVars, deq, tokenVars, scenario>>

MayCall == \A p \in Producers : dequeueOvercommit[p] < MaxOvercommit

CallStep(c) ==
  /\ MayCall \/ deq[c].pc = "survey"
  /\ \/ "bulk" \in scenario.calls[c] /\ \E max \in 2 .. MaxBulk : CallsBulk(c, max) /\ UNCHANGED tokenVars
     \/ "single" \in scenario.calls[c] /\ CallsSingle(c) /\ UNCHANGED tokenVars
     \/ "token" \in scenario.calls[c] /\ CallsWithToken(c)
     \/ Surveys(c) /\ UNCHANGED tokenVars
  /\ UNCHANGED <<indices, blockVars, poolVars, implicitVars>>

DequeueStep(c) ==
  /\ \/ CallStep(c)
     \/ ClaimStep(c) /\ UNCHANGED <<blockVars, poolVars, implicitVars, tokenVars>>
     \/ /\ At(c) \in Explicit
        /\ ExplicitDequeueStep(c)
        /\ CountsForToken(c)
        /\ UNCHANGED <<indices, poolVars, implicitVars>>
     \/ /\ At(c) \in Implicit
        /\ ImplicitDequeueStep(c)
        /\ CountsForToken(c)
        /\ UNCHANGED indices
  /\ UNCHANGED <<tailBlock, enq, explicitVars, scenario>>

FreeListStep(t) ==
  /\ List!ListStep(t)
  /\ UNCHANGED <<indices, tailBlock, blockVars, initialBlockPoolIndex, created, enq, deq,
                 explicitVars, implicitVars, tokenVars, scenario>>

Next ==
  \/ \E p \in Producers : EnqueueStep(p)
  \/ \E c \in Consumers : DequeueStep(c)
  \/ \E t \in Producers \cup Consumers : FreeListStep(t)

Spec == Init /\ [][Next]_vars

-----------------------------------------------------------------------------
(* What a consumer has taken by headIndex and not moved out yet. *)
Untouched(d) ==
  LET from == IF d.pc \in {"empty", "unindex", "free"} THEN EndOfBlock(d) ELSE d.first
  IN  [i \in 1 .. d.last - from |-> <<d.at, from + i>>]

Abstract == INSTANCE ProducerQueues WITH
  queue <- [p \in Producers |-> [i \in 1 .. tailIndex[p] - headIndex[p] |-> <<p, headIndex[p] + i>>]],
  sent <- tailIndex,
  hand <- [c \in Consumers |-> deq[c].got \o Untouched(deq[c])]

(* Every element that is enqueued is moved out once, whole, in its           *)
(* producer's order of places, by the consumer that took its place, however  *)
(* calls interleave: the queue takes the steps of ProducerQueues, until an   *)
(* explicit producer runs out of memory in a call that had taken a block     *)
(* already and undoes it (concurrentqueue.hpp:2089 and 2104); what its       *)
(* consumers get after that may be anything.                                 *)
ImplementsQueues ==
  /\ Abstract!Init
  /\ [][undone = {} => Abstract!Next]_(Abstract!vars)

(* What a call has claimed of the producer and found good, and not taken by  *)
(* headIndex yet; and what it has claimed and not checked, or has to give    *)
(* back.                                                                     *)
GrantedTo(d, p) == IF d.at = p /\ d.pc \in {"give", "take"} THEN d.want ELSE 0

UndecidedOf(d, p) ==
  IF d.at = p /\ d.pc = "check" THEN d.want ELSE IF d.at = p /\ d.pc = "give" THEN d.give ELSE 0

Granted(p) == SumFunction([c \in Consumers |-> GrantedTo(deq[c], p)])

Undecided(p) == SumFunction([c \in Consumers |-> UndecidedOf(deq[c], p)])

(* Claims that were found good are backed by elements, and no claim is lost: *)
(* what is claimed and not given back is what has been or will be taken.     *)
(* (The comment at concurrentqueue.hpp:1977 says that an index never exceeds *)
(* the tail; a claim lost would leave elements in the queue for ever.)       *)
ClaimsAreBacked ==
  \A p \in Producers :
    /\ headIndex[p] + Granted(p) <= tailIndex[p]
    /\ (dequeueOptimisticCount[p] - dequeueOvercommit[p]) % IndexValues
          = (headIndex[p] + Granted(p) + Undecided(p)) % IndexValues

-----------------------------------------------------------------------------
(* Where a block can be. *)

Ring(p) ==
  LET ring[n \in 0 .. NumBlocks] ==
        IF n = 0 THEN {tailBlock[p]} ELSE ring[n - 1] \cup {nextBlock[b] : b \in ring[n - 1]}
  IN  ring[NumBlocks] \ {NoBlock}

Indexed(p) == {entries[p][i].value : i \in DOMAIN entries[p]} \ {NoBlock}

(* In the free list's care: on it, or added and waiting to be linked. *)
Listed ==
  List!OnList \cup {b \in Blocks : freeListRefs[b].should}
    \cup {lister[t].node : t \in {u \in Producers \cup Consumers : lister[u].pc \in {"swap", "unlink"}}}

Requested == {lister[t].node : t \in {u \in Producers : lister[u].pc \in {"drop", "got"}}} \ {NoBlock}

ToBeFreed == {deq[c].block : c \in {d \in Consumers : deq[d].pc = "free"}}

(* What a failed call has still to free. *)
Undone(p) ==
  LET chain[n \in 0 .. NumBlocks] ==
        IF n = 0 THEN {enq[p].first} ELSE chain[n - 1] \cup {nextBlock[b] : b \in chain[n - 1]}
  IN  IF enq[p].pc = "undo" THEN chain[NumBlocks] \ (Indexed(p) \cup {NoBlock}) ELSE {}

Unused == {b \in Blocks : b > initialBlockPoolIndex /\ (b <= PoolSize \/ b > PoolSize + created)}

(* Every block is in one place: no two producers write into it, none writes  *)
(* into one that another thread can get from the free list, and none is      *)
(* lost.                                                                     *)
EveryBlockHasOnePlace ==
  \A b \in Blocks :
    Cardinality({p \in Explicit : b \in Ring(p)})
      + Cardinality({p \in Implicit : b \in Indexed(p)})
      + Cardinality({p \in Implicit : b \in Undone(p)})
      + Cardinality({S \in {<<1, Listed>>, <<2, Requested>>, <<3, ToBeFreed>>, <<4, Unused>>} : b \in S[2]})
    = 1

(* The reference count of a block is the number of threads that may look at  *)
(* its freeListNext, and one for the list: so nobody links a block that      *)
(* another thread is looking at (concurrentqueue.hpp:1504).                  *)
RefsAreCounted ==
  \A b \in Blocks : freeListRefs[b].count = List!References(b)
=============================================================================
