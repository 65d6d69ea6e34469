--------------------------- MODULE BlockingQueue ---------------------------
(***************************************************************************)
(* blockingconcurrentqueue.hpp: the inner queue, and a semaphore with a    *)
(* permit for every element.  Enqueue, then signal; wait, then dequeue     *)
(* until the inner queue has given as many elements as there were permits. *)
(*                                                                         *)
(* What the inner queue gives to whom is ProducerQueues, which             *)
(* ConcurrentQueue implements; here an element is just counted.  The inner *)
(* try_dequeue may fail although there are elements, which the loops       *)
(* around it hide: a failure changes nothing.                              *)
(***************************************************************************)
EXTENDS LightweightSemaphore

CONSTANTS
  Senders,      \* threads that enqueue
  Takers,       \* threads that dequeue
  MaxBulk,      \* the most elements of one call
  MaxSent       \* bound: the elements enqueued in all

ASSUME QueueThreads ==
  /\ Senders \cap Takers = {}
  /\ Threads = Senders \cup Takers
  /\ IsFiniteSet(Threads)

VARIABLES
  elements,     \* the elements in the inner queue
  sent,         \* the elements enqueued so far
  unsignalled   \* what each sender has enqueued and not signalled yet

vars == <<m_count, m_sema, caller, elements, sent, unsignalled>>

Init ==
  /\ SemInit
  /\ elements = 0
  /\ sent = 0
  /\ unsignalled = [t \in Threads |-> 0]

(* enqueue, enqueue_bulk and their variants: first the inner queue... *)
Enqueues(t, n) ==
  /\ At(t, "out")
  /\ unsignalled[t] = 0
  /\ sent + n <= MaxSent
  /\ sent' = sent + n
  /\ elements' = elements + n
  /\ unsignalled' = [unsignalled EXCEPT ![t] = n]
  /\ UNCHANGED semVars

(* ... then the semaphore.  An enqueue that fails does not signal. *)
SignalsEnqueued(t) ==
  /\ unsignalled[t] > 0
  /\ Signals(t, unsignalled[t])
  /\ unsignalled' = [unsignalled EXCEPT ![t] = 0]
  /\ UNCHANGED <<elements, sent>>

(* try_dequeue, wait_dequeue, wait_dequeue_timed and their bulk forms. *)
Dequeues(t, max, timeout) ==
  /\ Waits(t, max, timeout)
  /\ UNCHANGED <<elements, sent, unsignalled>>

(* One turn of the loop: the inner queue gives some of what is missing. *)
TakesElements(t) ==
  /\ At(t, "granted")
  /\ LET self == caller[t]
     IN  \E n \in 1 .. Minimum(elements, self.taken) :
           /\ elements' = elements - n
           /\ caller' = [caller EXCEPT ![t] = IF n = self.taken THEN Outside
                                              ELSE [self EXCEPT !.taken = self.taken - n]]
  /\ UNCHANGED <<m_count, m_sema, sent, unsignalled>>

ReturnsNothing(t) ==
  /\ At(t, "refused")
  /\ caller' = [caller EXCEPT ![t] = Outside]
  /\ UNCHANGED <<m_count, m_sema, elements, sent, unsignalled>>

size_approx == availableApprox

SenderStep(t) ==
  \/ SignalsEnqueued(t)
  \/ Posts(t) /\ UNCHANGED <<elements, sent, unsignalled>>

(* A thread like TaskBuilder and Worker, that calls again and again. *)
TakerStep(t) ==
  \/ \E max \in 1 .. MaxBulk, timeout \in Timeouts : Dequeues(t, max, timeout)
  \/ SemStep(t) /\ UNCHANGED <<elements, sent, unsignalled>>
  \/ TakesElements(t)
  \/ ReturnsNothing(t)

Next ==
  \/ \E t \in Senders :
       \/ \E n \in 1 .. MaxBulk : Enqueues(t, n)
       \/ SenderStep(t)
  \/ \E t \in Takers : TakerStep(t)

Spec == Init /\ [][Next]_vars

(* Threads run; nothing makes a sender enqueue. *)
FairSpec ==
  /\ Spec
  /\ \A t \in Senders : WF_vars(SenderStep(t))
  /\ \A t \in Takers : WF_vars(TakerStep(t))

-----------------------------------------------------------------------------
(* A post is there, or on its way, for each sleeper that a signal has        *)
(* counted in and for no other, although a sleeper whose time is over may    *)
(* leave just when the signal comes: no wake-up is lost, and none is left    *)
(* over for a later sleeper to take without a permit.                        *)
WakeupsMatchSleepers == m_sema + Posting = CountedIn

(* Permits that threads have got and not yet used. *)
InHand == Total([t \in Takers |-> caller[t].taken], Takers)

(* Whoever has a permit has an element to find in the loop around the inner  *)
(* try_dequeue, and every element has a permit, a sleeper that is sure to    *)
(* get it or a signal on its way.  It is also what Master::Stop needs of     *)
(* size_approx: when it is 0 and no enqueue is under way, a thread is about  *)
(* to take whatever element is left.                                         *)
PermitsHaveElements ==
  /\ InHand <= elements
  /\ elements = size_approx + InHand + CountedIn + Total(unsignalled, Senders)

(* What is enqueued is dequeued, however waits end and are repeated: the     *)
(* wait for size_approx to be 0 in Master::Stop ends once nothing comes.     *)
(* Not if threads poll with a timeout of 0 for ever: two of them may lower   *)
(* and raise the count in turns, each keeping the other from the post that   *)
(* is there.  The server's threads wait for 100 ms.                          *)
ElementsAreTaken ==
  <>[](\A t \in Takers : caller[t].timeout # "zero") => (sent = MaxSent ~> elements = 0)
=============================================================================
