------------------------------ MODULE EventSet ------------------------------
(***************************************************************************)
(* What the rest of the server may assume of EventLoop (EventLoop.hpp):    *)
(* a set of registered events, changed only between two dispatch passes,   *)
(* and a thread that runs the callbacks of registered events one by one.   *)
(* A callback either keeps its event (EV_PERSIST) or frees it.             *)
(*                                                                         *)
(* EventLoop implements this specification with two mutexes and libevent's *)
(* loopexit; Server uses an EventLoop by these steps.                      *)
(***************************************************************************)
EXTENDS FiniteSets

CONSTANT Events         \* the addresses event_new can return

VARIABLES
  requested,            \* events of AddEvent calls that have not registered them yet
  registered,           \* events of the event_base
  dispatching           \* the loop thread is inside event_base_loop

vars == <<requested, registered, dispatching>>

Init ==
  /\ requested = {}
  /\ registered = {}
  /\ dispatching = FALSE

(* A thread calls AddEvent: event_new returns an address that is not in use. *)
Request(e) ==
  /\ e \notin requested \cup registered
  /\ requested' = requested \cup {e}
  /\ UNCHANGED <<registered, dispatching>>

(* The event joins the base, and never while callbacks may be running. *)
Register(e) ==
  /\ e \in requested
  /\ ~dispatching
  /\ requested' = requested \ {e}
  /\ registered' = registered \cup {e}
  /\ UNCHANGED dispatching

StartDispatch ==
  /\ ~dispatching
  /\ dispatching' = TRUE
  /\ UNCHANGED <<requested, registered>>

(* The callback of a registered event frees it; one that keeps it changes  *)
(* nothing here.                                                           *)
CallbackFrees(e) ==
  /\ dispatching
  /\ e \in registered
  /\ registered' = registered \ {e}
  /\ UNCHANGED <<requested, dispatching>>

EndDispatch ==
  /\ dispatching
  /\ dispatching' = FALSE
  /\ UNCHANGED <<requested, registered>>

Next ==
  \/ \E e \in Events : Request(e) \/ Register(e) \/ CallbackFrees(e)
  \/ StartDispatch
  \/ EndDispatch

SafeSpec == Init /\ [][Next]_vars

(* Every AddEvent ends: the loop is made to leave its dispatch for it, and   *)
(* cannot enter it again for ever before the event is registered.          *)
Fairness ==
  /\ WF_vars(requested # {} /\ EndDispatch)
  /\ \A e \in Events : SF_vars(Register(e))

Spec == SafeSpec /\ Fairness
=============================================================================
