------------------------- MODULE MCConcurrentQueue -------------------------
(* Blocks of two elements, indices that start with two entries. *)
EXTENDS ConcurrentQueue, TLC

CONSTANTS c1, c2

TwoConsumers == {c1, c2}
TwoProducers == <<"e", "i">>
OneExplicit == {"e"}
Offsets == (c1 :> 0) @@ (c2 :> 1)

Sends(e, i) == [p \in {"e", "i"} |-> IF p = "e" THEN e ELSE i]

Calls(one, other) == [c \in TwoConsumers |-> IF c = c1 THEN one ELSE other]

Both(calls) == Calls(calls, calls)
One(calls) == Calls(calls, {})

(* A bulk of one producer runs out of memory, a block of which the other has. *)
Turns == [sends |-> Sends(7, 1), calls |-> One({"bulk"})]

(* Two consumers race for few elements; one sees longer histories, in which  *)
(* blocks are used again, indices grow and memory and index values run out.  *)
AllScenarios ==
  {[sends |-> Sends(3, 0), calls |-> Both({"token"})],
   [sends |-> Sends(2, 2), calls |-> One({"token"})],
   [sends |-> Sends(3, 0), calls |-> Both({"bulk"})],
   [sends |-> Sends(0, 3), calls |-> Both({"bulk"})],
   [sends |-> Sends(8, 0), calls |-> One({"bulk"})],
   [sends |-> Sends(0, 7), calls |-> One({"bulk"})],
   [sends |-> Sends(1, 4), calls |-> One({"single"})],
   Turns}

Calling ==
  {p \in Producers : enq[p].pc # "idle"} \cup {c \in Consumers : deq[c].pc # "idle"}
    \cup {t \in Producers \cup Consumers : lister[t].pc # "away"}

(* Bound: in the scenario Turns a call ends before another starts. *)
CallsTakeTurns == scenario = Turns => Cardinality(Calling) <= 1
=============================================================================
