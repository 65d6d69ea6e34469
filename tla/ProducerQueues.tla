--------------------------- MODULE ProducerQueues ---------------------------
(***************************************************************************)
(* What moodycamel::ConcurrentQueue promises: each producer's elements     *)
(* leave in the order in which they came, every one once; between          *)
(* producers there is no order.  A consumer has in its hand what it was    *)
(* given, from when nobody else can get it until its call returns it.      *)
(***************************************************************************)
EXTENDS Naturals, Sequences

CONSTANTS Producers, Consumers, MaxBulk

VARIABLES
  queue,      \* per producer, the elements enqueued and not given out
  sent,       \* per producer, how many elements it has enqueued
  hand        \* per consumer, what its call has been given

vars == <<queue, sent, hand>>

Init ==
  /\ queue = [p \in Producers |-> <<>>]
  /\ sent \in [Producers -> Nat]
  /\ hand = [c \in Consumers |-> <<>>]

(* An element is its producer and its number. *)
Enqueue(p, n) ==
  /\ queue' = [queue EXCEPT ![p] = @ \o [i \in 1 .. n |-> <<p, sent[p] + i>>]]
  /\ sent' = [sent EXCEPT ![p] = @ + n]
  /\ UNCHANGED hand

Give(c, p, n) ==
  /\ hand' = [hand EXCEPT ![c] = @ \o SubSeq(queue[p], 1, n)]
  /\ queue' = [queue EXCEPT ![p] = SubSeq(@, n + 1, Len(@))]
  /\ UNCHANGED sent

Return(c) ==
  /\ hand' = [hand EXCEPT ![c] = <<>>]
  /\ UNCHANGED <<queue, sent>>

Next ==
  \/ \E p \in Producers, n \in 1 .. MaxBulk : Enqueue(p, n)
  \/ \E c \in Consumers, p \in Producers : \E n \in 1 .. Len(queue[p]) : Give(c, p, n)
  \/ \E c \in Consumers : Return(c)

Spec == Init /\ [][Next]_vars
=============================================================================
