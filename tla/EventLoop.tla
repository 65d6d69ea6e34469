----------------------------- MODULE EventLoop -----------------------------
(***************************************************************************)
(* EventLoop.hpp: one thread runs libevent's event_base_loop under         *)
(* eventLoopRunningMutex; AddEvent, called by other threads, makes it      *)
(* leave the loop with event_base_loopexit, takes the same mutex and calls *)
(* event_add.  addEventRunningMutex keeps the loop thread from taking      *)
(* eventLoopRunningMutex again before the AddEvent that stopped it is      *)
(* done.  Each lock, unlock and libevent call is a step.                   *)
(*                                                                         *)
(* libevent is external.  event_base_loopexit(base, NULL) queues a         *)
(* one-time callback that sets gotterm when the loop runs it; entering     *)
(* event_base_loop clears gotterm but not the queue; a pass over the       *)
(* active queue runs it until it is empty, and gotterm is looked at        *)
(* between passes.  Queued exits are idempotent, so one flag stands for    *)
(* any number of them.                                                     *)
(***************************************************************************)
EXTENDS FiniteSets

CONSTANTS
  Adders,       \* the threads that call AddEvent: the server has one, the TaskBuilder's
  Events,       \* the addresses event_new can return, reused after event_free
  Loop,         \* the thread of RunLoop
  NoThread,     \* the owner of a mutex that is free
  NoEvent

ASSUME ThreadsAssumption ==
  /\ Loop \notin Adders
  /\ NoThread \notin Adders \cup {Loop}
  /\ NoEvent \notin Events

VARIABLES
  stop,                     \* EventLoop::stop
  eventLoopRunningMutex,
  addEventRunningMutex,
  loopPc,                   \* where RunLoop is
  adderPc,                  \* where each thread is in AddEvent
  adding,                   \* `ev` of each AddEvent that runs
  masterPc,                 \* the thread calling StartLoop and StopLoop
  exitPosted,               \* a loopexit callback is in the base's active queue
  gotterm,                  \* event_base.event_gotterm
  registered,               \* events added to the base
  due,                      \* registered events whose socket is readable or timer expired
  active                    \* events activated by this pass, callback not run yet

threadVars == <<stop, eventLoopRunningMutex, addEventRunningMutex, loopPc, adderPc, adding, masterPc>>
baseVars == <<exitPosted, gotterm, registered, due, active>>
vars == <<threadVars, baseVars>>

LoopPcs == {"none", "check", "lockLoop", "enter", "poll", "process",
            "unlockLoop", "lockAdd", "unlockAdd", "ended"}
AdderPcs == {"idle", "lockAdd", "loopexit", "lockLoop", "eventAdd", "unlockAdd", "unlockLoop"}

TypeOK ==
  /\ stop \in BOOLEAN
  /\ eventLoopRunningMutex \in Adders \cup {Loop, NoThread}
  /\ addEventRunningMutex \in Adders \cup {Loop, NoThread}
  /\ loopPc \in LoopPcs
  /\ adderPc \in [Adders -> AdderPcs]
  /\ adding \in [Adders -> Events \cup {NoEvent}]
  /\ masterPc \in {"idle", "joining"}
  /\ exitPosted \in BOOLEAN
  /\ gotterm \in BOOLEAN
  /\ registered \in SUBSET Events
  /\ due \in SUBSET Events
  /\ active \in SUBSET Events

Init ==
  /\ stop = TRUE
  /\ eventLoopRunningMutex = NoThread
  /\ addEventRunningMutex = NoThread
  /\ loopPc = "none"
  /\ adderPc = [a \in Adders |-> "idle"]
  /\ adding = [a \in Adders |-> NoEvent]
  /\ masterPc = "idle"
  /\ exitPosted = FALSE
  /\ gotterm = FALSE
  /\ registered = {}
  /\ due = {}
  /\ active = {}

-----------------------------------------------------------------------------
(* AddEvent *)

AdderGoes(a, from, to) ==
  /\ adderPc[a] = from
  /\ adderPc' = [adderPc EXCEPT ![a] = to]

(* event_new returns an address no live event has. *)
CallAddEvent(a, e) ==
  /\ AdderGoes(a, "idle", "lockAdd")
  /\ e \notin registered
  /\ \A b \in Adders : adding[b] # e
  /\ adding' = [adding EXCEPT ![a] = e]
  /\ UNCHANGED <<stop, eventLoopRunningMutex, addEventRunningMutex, loopPc, masterPc, baseVars>>

AdderLocksAdd(a) ==
  /\ AdderGoes(a, "lockAdd", "loopexit")
  /\ addEventRunningMutex = NoThread
  /\ addEventRunningMutex' = a
  /\ UNCHANGED <<stop, eventLoopRunningMutex, loopPc, adding, masterPc, baseVars>>

(* Mutant: AddEvent does not make the loop leave. *)
AdderPostsNoExit(a) ==
  /\ AdderGoes(a, "loopexit", "lockLoop")
  /\ UNCHANGED <<stop, eventLoopRunningMutex, addEventRunningMutex, loopPc, adding, masterPc, baseVars>>

AdderPostsExit(a) ==
  /\ AdderGoes(a, "loopexit", "lockLoop")
  /\ exitPosted' = TRUE
  /\ UNCHANGED <<stop, eventLoopRunningMutex, addEventRunningMutex, loopPc, adding, masterPc,
                 gotterm, registered, due, active>>

(* Mutant: AddEvent does not take eventLoopRunningMutex. *)
AdderSkipsLoopMutex(a) ==
  /\ AdderGoes(a, "lockLoop", "eventAdd")
  /\ UNCHANGED <<stop, eventLoopRunningMutex, addEventRunningMutex, loopPc, adding, masterPc, baseVars>>

AdderLocksLoop(a) ==
  /\ AdderGoes(a, "lockLoop", "eventAdd")
  /\ eventLoopRunningMutex = NoThread
  /\ eventLoopRunningMutex' = a
  /\ UNCHANGED <<stop, addEventRunningMutex, loopPc, adding, masterPc, baseVars>>

AdderAdds(a) ==
  /\ AdderGoes(a, "eventAdd", "unlockAdd")
  /\ registered' = registered \cup {adding[a]}
  /\ adding' = [adding EXCEPT ![a] = NoEvent]
  /\ UNCHANGED <<stop, eventLoopRunningMutex, addEventRunningMutex, loopPc, masterPc,
                 exitPosted, gotterm, due, active>>

AdderUnlocksAdd(a) ==
  /\ AdderGoes(a, "unlockAdd", "unlockLoop")
  /\ addEventRunningMutex' = NoThread
  /\ UNCHANGED <<stop, eventLoopRunningMutex, loopPc, adding, masterPc, baseVars>>

(* Mutant: AddEvent keeps eventLoopRunningMutex. *)
AdderKeepsLoopMutex(a) ==
  /\ AdderGoes(a, "unlockLoop", "idle")
  /\ UNCHANGED <<stop, eventLoopRunningMutex, addEventRunningMutex, loopPc, adding, masterPc,
                 baseVars>>

AdderUnlocksLoop(a) ==
  /\ AdderGoes(a, "unlockLoop", "idle")
  /\ eventLoopRunningMutex' = NoThread
  /\ UNCHANGED <<stop, addEventRunningMutex, loopPc, adding, masterPc, baseVars>>

-----------------------------------------------------------------------------
(* RunLoop *)

LoopGoes(from, to) ==
  /\ loopPc = from
  /\ loopPc' = to

LoopContinues ==
  /\ LoopGoes("check", "lockLoop")
  /\ ~stop
  /\ UNCHANGED <<stop, eventLoopRunningMutex, addEventRunningMutex, adderPc, adding, masterPc, baseVars>>

LoopEnds ==
  /\ LoopGoes("check", "ended")
  /\ stop
  /\ UNCHANGED <<stop, eventLoopRunningMutex, addEventRunningMutex, adderPc, adding, masterPc, baseVars>>

LoopLocksLoop ==
  /\ LoopGoes("lockLoop", "enter")
  /\ eventLoopRunningMutex = NoThread
  /\ eventLoopRunningMutex' = Loop
  /\ UNCHANGED <<stop, addEventRunningMutex, adderPc, adding, masterPc, baseVars>>

LoopEnters ==
  /\ LoopGoes("enter", "poll")
  /\ gotterm' = FALSE
  /\ UNCHANGED <<stop, eventLoopRunningMutex, addEventRunningMutex, adderPc, adding, masterPc,
                 exitPosted, registered, due, active>>

(* The back end waits until something is active: EVLOOP_NO_EXIT_ON_EMPTY    *)
(* makes it wait even when the base has no events.                          *)
LoopPolls ==
  /\ LoopGoes("poll", "process")
  /\ ~gotterm
  /\ exitPosted \/ due # {}
  /\ active' = due
  /\ UNCHANGED <<stop, eventLoopRunningMutex, addEventRunningMutex, adderPc, adding, masterPc,
                 exitPosted, gotterm, registered, due>>

LoopRunsExit ==
  /\ LoopGoes("process", "process")
  /\ exitPosted
  /\ exitPosted' = FALSE
  /\ gotterm' = TRUE
  /\ UNCHANGED <<stop, eventLoopRunningMutex, addEventRunningMutex, adderPc, adding, masterPc,
                 registered, due, active>>

(* Mutant: the callback's event is freed without being deleted from the base. *)
LoopRunsCallbackKeepsDue(e, freed) ==
  /\ LoopGoes("process", "process")
  /\ e \in active
  /\ active' = active \ {e}
  /\ registered' = IF freed THEN registered \ {e} ELSE registered
  /\ UNCHANGED <<stop, eventLoopRunningMutex, addEventRunningMutex, adderPc, adding, masterPc,
                 exitPosted, gotterm, due>>

(* The callback of e: `freed` when it called FreeEvent. *)
LoopRunsCallback(e, freed) ==
  /\ LoopGoes("process", "process")
  /\ e \in active
  /\ active' = active \ {e}
  /\ due' = due \ {e}
  /\ registered' = IF freed THEN registered \ {e} ELSE registered
  /\ UNCHANGED <<stop, eventLoopRunningMutex, addEventRunningMutex, adderPc, adding, masterPc,
                 exitPosted, gotterm>>

LoopEndsPass ==
  /\ LoopGoes("process", "poll")
  /\ active = {}
  /\ ~exitPosted
  /\ UNCHANGED <<stop, eventLoopRunningMutex, addEventRunningMutex, adderPc, adding, masterPc, baseVars>>

LoopLeaves ==
  /\ LoopGoes("poll", "unlockLoop")
  /\ gotterm
  /\ UNCHANGED <<stop, eventLoopRunningMutex, addEventRunningMutex, adderPc, adding, masterPc, baseVars>>

(* Mutant: RunLoop without addEventRunningMutex. *)
LoopSkipsAddMutex ==
  /\ LoopGoes("unlockLoop", "check")
  /\ eventLoopRunningMutex' = NoThread
  /\ UNCHANGED <<stop, addEventRunningMutex, adderPc, adding, masterPc, baseVars>>

LoopUnlocksLoop ==
  /\ LoopGoes("unlockLoop", "lockAdd")
  /\ eventLoopRunningMutex' = NoThread
  /\ UNCHANGED <<stop, addEventRunningMutex, adderPc, adding, masterPc, baseVars>>

LoopLocksAdd ==
  /\ LoopGoes("lockAdd", "unlockAdd")
  /\ addEventRunningMutex = NoThread
  /\ addEventRunningMutex' = Loop
  /\ UNCHANGED <<stop, eventLoopRunningMutex, adderPc, adding, masterPc, baseVars>>

LoopUnlocksAdd ==
  /\ LoopGoes("unlockAdd", "check")
  /\ addEventRunningMutex' = NoThread
  /\ UNCHANGED <<stop, eventLoopRunningMutex, adderPc, adding, masterPc, baseVars>>

-----------------------------------------------------------------------------
(* StartLoop, StopLoop, and the environment of the base *)

StartLoop ==
  /\ masterPc = "idle"
  /\ stop
  /\ stop' = FALSE
  /\ LoopGoes("none", "check")
  /\ UNCHANGED <<eventLoopRunningMutex, addEventRunningMutex, adderPc, adding, masterPc, baseVars>>

StopLoop ==
  /\ masterPc = "idle"
  /\ ~stop
  /\ stop' = TRUE
  /\ masterPc' = "joining"
  /\ UNCHANGED <<eventLoopRunningMutex, addEventRunningMutex, loopPc, adderPc, adding, baseVars>>

(* loopThread.join() returns. *)
StopLoopReturns ==
  /\ masterPc = "joining"
  /\ masterPc' = "idle"
  /\ LoopGoes("ended", "none")
  /\ UNCHANGED <<stop, eventLoopRunningMutex, addEventRunningMutex, adderPc, adding, baseVars>>

(* The socket of a registered event becomes readable or its timer expires. *)
BecomesDue(e) ==
  /\ e \in registered \ due
  /\ due' = due \cup {e}
  /\ UNCHANGED <<threadVars, exitPosted, gotterm, registered, active>>

-----------------------------------------------------------------------------
Adder(a) ==
  \/ \E e \in Events : CallAddEvent(a, e)
  \/ AdderLocksAdd(a)
  \/ AdderPostsExit(a)
  \/ AdderLocksLoop(a)
  \/ AdderAdds(a)
  \/ AdderUnlocksAdd(a)
  \/ AdderUnlocksLoop(a)

RunCallback == \E e \in Events, freed \in BOOLEAN : LoopRunsCallback(e, freed)

RunLoop ==
  \/ LoopContinues
  \/ LoopEnds
  \/ LoopLocksLoop
  \/ LoopEnters
  \/ LoopPolls
  \/ LoopRunsExit
  \/ RunCallback
  \/ LoopEndsPass
  \/ LoopLeaves
  \/ LoopUnlocksLoop
  \/ LoopLocksAdd
  \/ LoopUnlocksAdd

Next ==
  \/ \E a \in Adders : Adder(a)
  \/ RunLoop
  \/ StartLoop
  \/ StopLoop
  \/ StopLoopReturns
  \/ \E e \in Events : BecomesDue(e)

(* Threads that can run do run, and the timer of EV_TIMEOUT makes every     *)
(* registered event due in the end.  Nothing makes a thread call AddEvent,  *)
(* StartLoop or StopLoop.                                                   *)
ThreadFairness ==
  /\ WF_vars(RunLoop)
  /\ \A a \in Adders :
       WF_vars(AdderLocksAdd(a) \/ AdderPostsExit(a) \/ AdderLocksLoop(a) \/ AdderAdds(a)
               \/ AdderUnlocksAdd(a) \/ AdderUnlocksLoop(a))
  /\ WF_vars(StopLoopReturns)
  /\ \A e \in Events : WF_vars(BecomesDue(e))

Spec == Init /\ [][Next]_vars

FairSpec == Spec /\ ThreadFairness

-----------------------------------------------------------------------------
(* The loop thread is inside event_base_loop. *)
Dispatching == loopPc \in {"poll", "process"}

(* The comment at EventLoop.hpp:85 and the two mutexes rest on this: no     *)
(* thread is inside event_add while the loop thread is inside               *)
(* event_base_loop, and no two threads are inside event_add.                *)
AddOutsideDispatch ==
  \A a \in Adders : adderPc[a] = "eventAdd" =>
    /\ ~Dispatching
    /\ \A b \in Adders : adderPc[b] = "eventAdd" => b = a

(* The thread that waits in AddEvent for eventLoopRunningMutex never waits  *)
(* for a loop that has no reason to leave: its event_base_loopexit is still *)
(* queued or was seen by this run of the loop, and is not wiped by the      *)
(* reset at the next entry.  This is what the comment at EventLoop.hpp:30   *)
(* claims for addEventRunningMutex.                                         *)
WakeupNotLost ==
  \A a \in Adders : adderPc[a] = "lockLoop" =>
    \/ exitPosted
    \/ gotterm /\ Dispatching
    \/ loopPc \in {"unlockLoop", "lockAdd"}

(* An event is never registered twice, freed while another thread adds it,  *)
(* or run after it was freed: callbacks still to run belong to registered   *)
(* events, and the address AddEvent is about to register is not one.        *)
LiveEvents ==
  /\ active \subseteq registered
  /\ due \subseteq registered
  /\ \A a, b \in Adders : adding[a] # NoEvent =>
       /\ adding[a] \notin registered
       /\ adding[a] = adding[b] => a = b

(* AddEvent returns, whatever the loop does, and even when nothing is       *)
(* registered and no socket is ever readable.                               *)
AddEventReturns ==
  \A a \in Adders : adderPc[a] # "idle" ~> adderPc[a] = "idle"

(* A due event gets its callback although AddEvent interrupts the loop      *)
(* again and again, unless the loop is stopped.                             *)
DueIsServed ==
  \A e \in Events : (e \in due /\ ~stop) ~> (e \notin due \/ stop)

-----------------------------------------------------------------------------
(* The invariant EventLoopProofs shows to be inductive: who owns each       *)
(* mutex, which AddEvent has an event in hand, and why a thread that waits  *)
(* for eventLoopRunningMutex can count on its loopexit.                     *)
AddMutexOwner ==
  /\ \A a \in Adders :
       addEventRunningMutex = a <=> adderPc[a] \in {"loopexit", "lockLoop", "eventAdd", "unlockAdd"}
  /\ addEventRunningMutex = Loop <=> loopPc = "unlockAdd"

LoopMutexOwner ==
  /\ \A a \in Adders :
       eventLoopRunningMutex = a <=> adderPc[a] \in {"eventAdd", "unlockAdd", "unlockLoop"}
  /\ eventLoopRunningMutex = Loop <=> loopPc \in {"enter", "poll", "process", "unlockLoop"}

AddingInHand ==
  \A a \in Adders :
    adding[a] = NoEvent <=> adderPc[a] \in {"idle", "unlockAdd", "unlockLoop"}

ExitReachesLoop ==
  \A a \in Adders : adderPc[a] = "lockLoop" =>
    /\ loopPc \in {"none", "ended", "check", "lockLoop", "enter"} => exitPosted
    /\ Dispatching => exitPosted \/ gotterm

IndInv ==
  /\ TypeOK
  /\ AddMutexOwner
  /\ LoopMutexOwner
  /\ AddingInHand
  /\ ExitReachesLoop
  /\ LiveEvents

(* EventLoop implements EventSet. *)
Abstract == INSTANCE EventSet WITH
  requested <- {adding[a] : a \in Adders} \ {NoEvent},
  dispatching <- Dispatching

ImplementsEventSet == Abstract!Spec
=============================================================================
