-------------------------- MODULE HttpResponseReader --------------------------
(***************************************************************************)
(* HttpResponseReader: what a client of this code base reads from the      *)
(* header of a response.                                                   *)
(***************************************************************************)
EXTENDS Text

(* A header that comes twice has its last value. *)
ExtractHeaders(message) ==
  LET start == Find(message, <<"CR">>, 1) + 2
  IN  [key \in Keys(message, start) |-> Value(message, Max(ColonsOf(message, start, key)))]
=============================================================================
