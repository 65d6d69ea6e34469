------------------------------ MODULE MCServer ------------------------------
(* Server with a few clients: descriptors are reused when there are more     *)
(* clients than descriptors.                                                 *)
EXTENDS Server, TLC

CONSTANTS c1, c2, f1, f2, external, w1

TwoClients == {c1, c2}
OneReader == {c1}
OneFd == {f1}
TwoFds == {f1, f2}
OneListener == {external}
OneWorker == {w1}

(* Any two clients, and any two descriptors, are alike. *)
Symmetry == Permutations(TwoClients) \cup Permutations(TwoFds)

(* The end of the header may be cut in two, or come after a first part and  *)
(* in one chunk with the NUL of a body that has not come yet.               *)
LongRequests ==
  {[header |-> 3, body |-> 2, nuls |-> {4}, outcome |-> "answered"],
   [header |-> 2, body |-> 0, nuls |-> {}, outcome |-> "malformed"]}

(* A client whose request makes the worker throw. *)
AbortingRequests ==
  {[header |-> 2, body |-> 1, nuls |-> {}, outcome |-> "answered"],
   [header |-> 2, body |-> 0, nuls |-> {}, outcome |-> "aborts"]}
=============================================================================
