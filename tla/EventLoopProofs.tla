--------------------------- MODULE EventLoopProofs ---------------------------
(***************************************************************************)
(* EventLoop for every set of adders and events: the mutexes keep          *)
(* event_add out of a running event_base_loop, a waiting AddEvent keeps    *)
(* its wake-up, and every step is a step of EventSet.                      *)
(***************************************************************************)
EXTENDS EventLoop, TLAPS

(* The invariant holds before StartLoop. *)
LEMMA InitInv == Init => IndInv
BY ThreadsAssumption
   DEF Init, IndInv, TypeOK, AddMutexOwner, LoopMutexOwner, AddingInHand, ExitReachesLoop,
       LiveEvents, Dispatching, LoopPcs, AdderPcs

(* Each step of a thread in AddEvent preserves the invariant. *)
LEMMA AdderInv ==
  ASSUME IndInv, NEW a \in Adders, Adder(a)
  PROVE  IndInv'
<1>. USE ThreadsAssumption
     DEF IndInv, TypeOK, AddMutexOwner, LoopMutexOwner, AddingInHand, ExitReachesLoop,
         LiveEvents, Dispatching, LoopPcs, AdderPcs, AdderGoes, baseVars
<1>1. ASSUME NEW e \in Events, CallAddEvent(a, e)
      PROVE  IndInv'
  BY <1>1 DEF CallAddEvent
<1>2. CASE AdderLocksAdd(a)
  BY <1>2 DEF AdderLocksAdd
<1>3. CASE AdderPostsExit(a)
  BY <1>3 DEF AdderPostsExit
<1>4. CASE AdderLocksLoop(a)
  BY <1>4 DEF AdderLocksLoop
<1>5. CASE AdderAdds(a)
  BY <1>5 DEF AdderAdds
<1>6. CASE AdderUnlocksAdd(a)
  BY <1>6 DEF AdderUnlocksAdd
<1>7. CASE AdderUnlocksLoop(a)
  BY <1>7 DEF AdderUnlocksLoop
<1>. QED
  BY <1>1, <1>2, <1>3, <1>4, <1>5, <1>6, <1>7 DEF Adder

(* Each step of the loop thread preserves the invariant. *)
LEMMA RunLoopInv ==
  ASSUME IndInv, RunLoop
  PROVE  IndInv'
<1>. USE ThreadsAssumption
     DEF IndInv, TypeOK, AddMutexOwner, LoopMutexOwner, AddingInHand, ExitReachesLoop,
         LiveEvents, Dispatching, LoopPcs, AdderPcs, LoopGoes, baseVars
<1>1. ASSUME NEW e \in Events, NEW freed \in BOOLEAN, LoopRunsCallback(e, freed)
      PROVE  IndInv'
  BY <1>1 DEF LoopRunsCallback
<1>2. CASE LoopContinues
  BY <1>2 DEF LoopContinues
<1>3. CASE LoopEnds
  BY <1>3 DEF LoopEnds
<1>4. CASE LoopLocksLoop
  BY <1>4 DEF LoopLocksLoop
<1>5. CASE LoopEnters
  BY <1>5 DEF LoopEnters
<1>6. CASE LoopPolls
  BY <1>6 DEF LoopPolls
<1>7. CASE LoopRunsExit
  BY <1>7 DEF LoopRunsExit
<1>8. CASE LoopEndsPass
  BY <1>8 DEF LoopEndsPass
<1>9. CASE LoopLeaves
  BY <1>9 DEF LoopLeaves
<1>10. CASE LoopUnlocksLoop
  BY <1>10 DEF LoopUnlocksLoop
<1>11. CASE LoopLocksAdd
  BY <1>11 DEF LoopLocksAdd
<1>12. CASE LoopUnlocksAdd
  BY <1>12 DEF LoopUnlocksAdd
<1>. QED
  BY <1>1, <1>2, <1>3, <1>4, <1>5, <1>6, <1>7, <1>8, <1>9, <1>10, <1>11, <1>12 DEF RunLoop, RunCallback


(* So does every step. *)
LEMMA NextInv ==
  ASSUME IndInv, [Next]_vars
  PROVE  IndInv'
<1>. USE ThreadsAssumption
     DEF IndInv, TypeOK, AddMutexOwner, LoopMutexOwner, AddingInHand, ExitReachesLoop,
         LiveEvents, Dispatching, LoopPcs, AdderPcs, LoopGoes, baseVars, threadVars
<1>1. ASSUME NEW a \in Adders, Adder(a)
      PROVE  IndInv'
  BY <1>1, AdderInv
<1>2. CASE RunLoop
  BY <1>2, RunLoopInv
<1>3. CASE StartLoop
  BY <1>3 DEF StartLoop
<1>4. CASE StopLoop
  BY <1>4 DEF StopLoop
<1>5. CASE StopLoopReturns
  BY <1>5 DEF StopLoopReturns
<1>6. ASSUME NEW e \in Events, BecomesDue(e)
      PROVE  IndInv'
  BY <1>6 DEF BecomesDue
<1>7. CASE UNCHANGED vars
  BY <1>7 DEF vars
<1>. QED
  BY <1>1, <1>2, <1>3, <1>4, <1>5, <1>6, <1>7 DEF Next

(* The mutex owners, the event in hand and the pending loopexit agree with  *)
(* the program counters in every reachable state.                           *)
THEOREM Invariance == Spec => []IndInv
<1>1. Init => IndInv
  BY InitInv
<1>2. IndInv /\ [Next]_vars => IndInv'
  BY NextInv
<1>. QED
  BY <1>1, <1>2, PTL DEF Spec

(* Every variable keeps its type. *)
THEOREM TypeCorrect == Spec => []TypeOK
<1>1. IndInv => TypeOK
  BY DEF IndInv
<1>. QED
  BY <1>1, Invariance, PTL

(* What the invariant says of event_add and of a waiting AddEvent. *)
LEMMA AloneFollows == IndInv => AddOutsideDispatch
BY ThreadsAssumption DEF IndInv, TypeOK, AddOutsideDispatch, LoopMutexOwner, Dispatching

LEMMA WakeupFollows == IndInv => WakeupNotLost
BY ThreadsAssumption
   DEF IndInv, TypeOK, WakeupNotLost, AddMutexOwner, LoopMutexOwner, ExitReachesLoop,
       Dispatching, LoopPcs

(* event_add runs in one thread at a time and never inside event_base_loop. *)
THEOREM EventAddIsAlone == Spec => []AddOutsideDispatch
BY AloneFollows, Invariance, PTL

(* The thread that waits in AddEvent still has its loopexit before it. *)
THEOREM NoLostWakeup == Spec => []WakeupNotLost
BY WakeupFollows, Invariance, PTL

(* No event is run after it is freed or registered while it is live. *)
THEOREM EventsAreLive == Spec => []LiveEvents
<1>1. IndInv => LiveEvents
  BY DEF IndInv
<1>. QED
  BY <1>1, Invariance, PTL


-----------------------------------------------------------------------------
(* The refinement *)

(* A step that leaves `adding`, `registered` and the loop's being inside    *)
(* event_base_loop alone is a stutter of EventSet.                          *)
LEMMA Stutter ==
  ASSUME UNCHANGED <<adding, registered>>, Dispatching' = Dispatching
  PROVE  UNCHANGED Abstract!vars
BY DEF Abstract!vars

(* A step of a thread in AddEvent is Request, Register or a stutter. *)
LEMMA AdderRefines ==
  ASSUME IndInv, NEW a \in Adders, Adder(a)
  PROVE  [Abstract!Next]_(Abstract!vars)
<1>1. ASSUME NEW e \in Events, CallAddEvent(a, e)
      PROVE  Abstract!Request(e)
  <2>1. e \notin {adding[b] : b \in Adders} \cup registered
    BY <1>1 DEF CallAddEvent
  <2>2. {adding'[b] : b \in Adders} \ {NoEvent} = ({adding[b] : b \in Adders} \ {NoEvent}) \cup {e}
    BY <1>1, ThreadsAssumption DEF CallAddEvent, AdderGoes, IndInv, TypeOK, AddingInHand
  <2>3. UNCHANGED <<registered, Dispatching>>
    BY <1>1 DEF CallAddEvent, baseVars, Dispatching
  <2>. QED
    BY <2>1, <2>2, <2>3 DEF Abstract!Request
<1>2. CASE AdderAdds(a)
  <2>1. PICK e \in Events : adding[a] = e
    BY <1>2 DEF AdderAdds, AdderGoes, IndInv, TypeOK, AddingInHand
  <2>2. {adding'[b] : b \in Adders} \ {NoEvent} = ({adding[b] : b \in Adders} \ {NoEvent}) \ {e}
    BY <1>2, <2>1, ThreadsAssumption DEF AdderAdds, IndInv, TypeOK, LiveEvents
  <2>3. registered' = registered \cup {e} /\ UNCHANGED Dispatching
    BY <1>2, <2>1 DEF AdderAdds, Dispatching
  <2>4. ~Dispatching
    BY <1>2, ThreadsAssumption DEF AdderAdds, AdderGoes, IndInv, TypeOK, LoopMutexOwner, Dispatching
  <2>5. Abstract!Register(e)
    BY <2>1, <2>2, <2>3, <2>4, ThreadsAssumption DEF Abstract!Register
  <2>. QED
    BY <2>5 DEF Abstract!Next
<1>3. CASE \/ AdderLocksAdd(a) \/ AdderPostsExit(a) \/ AdderLocksLoop(a)
           \/ AdderUnlocksAdd(a) \/ AdderUnlocksLoop(a)
  BY <1>3, Stutter
     DEF AdderLocksAdd, AdderPostsExit, AdderLocksLoop, AdderUnlocksAdd, AdderUnlocksLoop,
         baseVars, Dispatching
<1>. QED
  BY <1>1, <1>2, <1>3 DEF Adder, Abstract!Next

(* A step of the loop thread is StartDispatch, CallbackFrees, EndDispatch   *)
(* or a stutter.                                                            *)
LEMMA RunLoopRefines ==
  ASSUME IndInv, RunLoop
  PROVE  [Abstract!Next]_(Abstract!vars)
<1>1. ASSUME NEW e \in Events, NEW freed \in BOOLEAN, LoopRunsCallback(e, freed)
      PROVE  [Abstract!Next]_(Abstract!vars)
  <2>1. /\ UNCHANGED <<adding, Dispatching>>
        /\ Dispatching
        /\ e \in registered
        /\ registered' \in {registered, registered \ {e}}
    BY <1>1 DEF LoopRunsCallback, LoopGoes, Dispatching, IndInv, LiveEvents
  <2>2. CASE UNCHANGED registered
    BY <2>1, <2>2, Stutter
  <2>3. CASE registered' = registered \ {e}
    <3>1. Abstract!CallbackFrees(e)
      BY <2>1, <2>3 DEF Abstract!CallbackFrees
    <3>. QED
      BY <3>1 DEF Abstract!Next
  <2>. QED
    BY <2>1, <2>2, <2>3
<1>2. CASE LoopEnters
  <2>1. Abstract!StartDispatch
    BY <1>2 DEF LoopEnters, LoopGoes, Dispatching, Abstract!StartDispatch
  <2>. QED
    BY <2>1 DEF Abstract!Next
<1>3. CASE LoopLeaves
  <2>1. Abstract!EndDispatch
    BY <1>3 DEF LoopLeaves, LoopGoes, baseVars, Dispatching, Abstract!EndDispatch
  <2>. QED
    BY <2>1 DEF Abstract!Next
<1>4. CASE \/ LoopContinues \/ LoopEnds \/ LoopLocksLoop \/ LoopPolls \/ LoopRunsExit
           \/ LoopEndsPass \/ LoopUnlocksLoop \/ LoopLocksAdd \/ LoopUnlocksAdd
  BY <1>4, Stutter
     DEF LoopContinues, LoopEnds, LoopLocksLoop, LoopPolls, LoopRunsExit, LoopEndsPass,
         LoopUnlocksLoop, LoopLocksAdd, LoopUnlocksAdd, LoopGoes, baseVars, Dispatching
<1>. QED
  BY <1>1, <1>2, <1>3, <1>4 DEF RunLoop, RunCallback

(* Every step is a step of EventSet or a stutter. *)
LEMMA NextRefines ==
  ASSUME IndInv, [Next]_vars
  PROVE  [Abstract!Next]_(Abstract!vars)
<1>1. ASSUME NEW a \in Adders, Adder(a)
      PROVE  [Abstract!Next]_(Abstract!vars)
  BY <1>1, AdderRefines
<1>2. CASE RunLoop
  BY <1>2, RunLoopRefines
<1>3. CASE StartLoop \/ StopLoop \/ StopLoopReturns
  BY <1>3, Stutter DEF StartLoop, StopLoop, StopLoopReturns, LoopGoes, baseVars, Dispatching
<1>4. ASSUME NEW e \in Events, BecomesDue(e)
      PROVE  UNCHANGED Abstract!vars
  BY <1>4, Stutter DEF BecomesDue, threadVars, Dispatching
<1>5. CASE UNCHANGED vars
  BY <1>5, Stutter DEF vars, threadVars, baseVars, Dispatching
<1>. QED
  BY <1>1, <1>2, <1>3, <1>4, <1>5 DEF Next

(* EventLoop implements the safety part of EventSet: AddEvent registers     *)
(* between two dispatches, and only callbacks free events.                  *)
THEOREM ImplementsEventSetSafely == Spec => Abstract!SafeSpec
<1>1. Init => Abstract!Init
  BY DEF Init, Abstract!Init, Dispatching
<1>2. IndInv /\ [Next]_vars => [Abstract!Next]_(Abstract!vars)
  BY NextRefines
<1>. QED
  BY <1>1, <1>2, Invariance, PTL DEF Spec, Abstract!SafeSpec
=============================================================================
