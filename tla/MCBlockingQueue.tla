-------------------------- MODULE MCBlockingQueue --------------------------
(* Two senders and two takers, with calls for one element and for two. *)
EXTENDS BlockingQueue

CONSTANTS s1, s2, t1, t2

AllThreads == {s1, s2, t1, t2}
TwoSenders == {s1, s2}
TwoTakers == {t1, t2}
=============================================================================
