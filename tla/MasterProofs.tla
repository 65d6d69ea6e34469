---------------------------- MODULE MasterProofs ----------------------------
(***************************************************************************)
(* Master for any number of listeners, clients and workers: what Stop may  *)
(* rely on when each join returns, and EventLoop's guarantees as the       *)
(* TaskBuilder, the callbacks and Stop use it.                             *)
(***************************************************************************)
EXTENDS Master, TLAPS

LoopProofs == INSTANCE EventLoopProofs WITH
  Adders <- {Builder}, Events <- Clients, NoEvent <- NoClient

-----------------------------------------------------------------------------
(* The inductive invariant *)

Types ==
  /\ stopPc \in StopPcs
  /\ joining \in Listeners \cup Workers \cup {NoThread}
  /\ listenerStop \in [Listeners -> BOOLEAN]
  /\ listenerPc \in [Listeners -> {"check", "accept", "enqueue", "ended"}]
  /\ listenerClient \in [Listeners -> Clients \cup {NoClient}]
  /\ unprocessedClients \in SUBSET Clients
  /\ builderStop \in BOOLEAN
  /\ builderPc \in {"check", "dequeue", "emplace", "addEvent", "adding", "ended"}
  /\ newClient \in Clients \cup {NoClient}
  /\ haveNoData \in SUBSET Clients
  /\ moving \in Clients \cup {NoClient}
  /\ haveData \in SUBSET Clients
  /\ workerStop \in [Workers -> BOOLEAN]
  /\ workerPc \in [Workers -> {"check", "take", "run", "failed", "ended"}]
  /\ currentTask \in [Workers -> Clients \cup {NoClient}]
  /\ \A w \in Workers : workerPc[w] = "run" => currentTask[w] # NoClient
  /\ answered \in SUBSET Clients
  /\ dropped \in SUBSET Clients
  /\ failed \in SUBSET Clients
  /\ hungUpInBody \in SUBSET Clients

(* A client is in one place from accept to the map. *)
ClientsApart ==
  /\ \A l \in Listeners : listenerClient[l] # NoClient <=> listenerPc[l] = "enqueue"
  /\ \A l, m \in Listeners :
       listenerClient[l] = listenerClient[m] /\ listenerClient[l] # NoClient => l = m
  /\ \A l \in Listeners : listenerClient[l] \notin unprocessedClients \cup haveNoData \cup registered
  /\ \A l \in Listeners : newClient # NoClient => listenerClient[l] # newClient
  /\ unprocessedClients \cap (haveNoData \cup registered) = {}
  /\ newClient \notin unprocessedClients

(* Where the builder is decides what it holds, and what of it has its event. *)
BuilderInHand ==
  /\ newClient # NoClient <=> builderPc \in {"emplace", "addEvent", "adding"}
  /\ adderPc[Builder] # "idle" => builderPc = "adding"
  /\ adding[Builder] \in {newClient, NoClient}
  /\ builderPc = "emplace" => newClient \notin haveNoData \cup registered
  /\ builderPc = "addEvent" => newClient \in (haveNoData \cup failed) \ registered
  /\ adding[Builder] # NoClient => newClient \in haveNoData \cup failed
  /\ builderPc = "adding" /\ adding[Builder] = NoClient /\ newClient \in haveNoData
       => newClient \in registered

(* A client without a socket may have an event after it has left the map,   *)
(* or without having been in it.                                            *)
MapHasEvents ==
  /\ registered \subseteq haveNoData \cup (failed \cap (dropped \cup {newClient}))
  /\ haveNoData \subseteq registered \cup {newClient}

(* What Stop has reached so far. *)
ListenersJoined ==
  /\ \A l \in Listeners : listenerStop[l] /\ joining # l => listenerPc[l] = "ended"
  /\ stopPc \notin {"running", "listeners"} => \A l \in Listeners : listenerPc[l] = "ended"

BuilderJoined ==
  /\ stopPc \notin {"running", "listeners", "drainUnprocessed"} => unprocessedClients = {}
  /\ stopPc \in {"drainWaiting", "joinLoop", "drainAgain", "workers", "stopped"} =>
       builderPc = "ended"

LoopJoined ==
  /\ stop <=> stopPc \in {"joinLoop", "drainAgain", "workers", "stopped"}
  /\ masterPc = "joining" <=> stopPc = "joinLoop"
  /\ loopPc = "ended" => stopPc = "joinLoop"
  /\ loopPc = "none" <=> stopPc \in {"drainAgain", "workers", "stopped"}
  /\ moving # NoClient => loopPc = "process"
  /\ stopPc \in {"joinLoop", "drainAgain", "workers", "stopped"} => haveNoData = {}

IndInv ==
  /\ Types
  /\ ClientsApart
  /\ BuilderInHand
  /\ MapHasEvents
  /\ ListenersJoined
  /\ BuilderJoined
  /\ LoopJoined

-----------------------------------------------------------------------------
(* The event loop in Master's hands *)

LEMMA LoopIsUsable == LoopProofs!ThreadsAssumption
BY MasterAssumption DEF LoopProofs!ThreadsAssumption

(* EL and LoopProofs are instances of one module. *)
LEMMA SameLoop ==
  ASSUME NEW e, NEW freed
  PROVE  /\ EL!CallAddEvent(Builder, e) => LoopProofs!CallAddEvent(Builder, e)
         /\ EL!AdderLocksAdd(Builder) => LoopProofs!AdderLocksAdd(Builder)
         /\ EL!AdderPostsExit(Builder) => LoopProofs!AdderPostsExit(Builder)
         /\ EL!AdderLocksLoop(Builder) => LoopProofs!AdderLocksLoop(Builder)
         /\ EL!AdderAdds(Builder) => LoopProofs!AdderAdds(Builder)
         /\ EL!AdderUnlocksAdd(Builder) => LoopProofs!AdderUnlocksAdd(Builder)
         /\ EL!AdderUnlocksLoop(Builder) => LoopProofs!AdderUnlocksLoop(Builder)
         /\ EL!LoopContinues => LoopProofs!LoopContinues
         /\ EL!LoopEnds => LoopProofs!LoopEnds
         /\ EL!LoopLocksLoop => LoopProofs!LoopLocksLoop
         /\ EL!LoopEnters => LoopProofs!LoopEnters
         /\ EL!LoopPolls => LoopProofs!LoopPolls
         /\ EL!LoopRunsExit => LoopProofs!LoopRunsExit
         /\ EL!LoopEndsPass => LoopProofs!LoopEndsPass
         /\ EL!LoopLeaves => LoopProofs!LoopLeaves
         /\ EL!LoopUnlocksLoop => LoopProofs!LoopUnlocksLoop
         /\ EL!LoopLocksAdd => LoopProofs!LoopLocksAdd
         /\ EL!LoopUnlocksAdd => LoopProofs!LoopUnlocksAdd
         /\ EL!StopLoop => LoopProofs!StopLoop
         /\ EL!StopLoopReturns => LoopProofs!StopLoopReturns
         /\ EL!LoopRunsCallback(e, freed) => LoopProofs!LoopRunsCallback(e, freed)
         /\ EL!BecomesDue(e) => LoopProofs!BecomesDue(e)
<1>. USE DEF EL!baseVars, LoopProofs!baseVars, EL!threadVars, LoopProofs!threadVars, EL!AdderGoes,
         LoopProofs!AdderGoes, EL!LoopGoes, LoopProofs!LoopGoes
<1>1. EL!CallAddEvent(Builder, e) => LoopProofs!CallAddEvent(Builder, e)
  BY DEF EL!CallAddEvent, LoopProofs!CallAddEvent
<1>2. EL!AdderLocksAdd(Builder) => LoopProofs!AdderLocksAdd(Builder)
  BY DEF EL!AdderLocksAdd, LoopProofs!AdderLocksAdd
<1>3. EL!AdderPostsExit(Builder) => LoopProofs!AdderPostsExit(Builder)
  BY DEF EL!AdderPostsExit, LoopProofs!AdderPostsExit
<1>4. EL!AdderLocksLoop(Builder) => LoopProofs!AdderLocksLoop(Builder)
  BY DEF EL!AdderLocksLoop, LoopProofs!AdderLocksLoop
<1>5. EL!AdderAdds(Builder) => LoopProofs!AdderAdds(Builder)
  BY DEF EL!AdderAdds, LoopProofs!AdderAdds
<1>6. EL!AdderUnlocksAdd(Builder) => LoopProofs!AdderUnlocksAdd(Builder)
  BY DEF EL!AdderUnlocksAdd, LoopProofs!AdderUnlocksAdd
<1>7. EL!AdderUnlocksLoop(Builder) => LoopProofs!AdderUnlocksLoop(Builder)
  BY DEF EL!AdderUnlocksLoop, LoopProofs!AdderUnlocksLoop
<1>8. EL!LoopContinues => LoopProofs!LoopContinues
  BY DEF EL!LoopContinues, LoopProofs!LoopContinues
<1>9. EL!LoopEnds => LoopProofs!LoopEnds
  BY DEF EL!LoopEnds, LoopProofs!LoopEnds
<1>10. EL!LoopLocksLoop => LoopProofs!LoopLocksLoop
  BY DEF EL!LoopLocksLoop, LoopProofs!LoopLocksLoop
<1>11. EL!LoopEnters => LoopProofs!LoopEnters
  BY DEF EL!LoopEnters, LoopProofs!LoopEnters
<1>12. EL!LoopPolls => LoopProofs!LoopPolls
  BY DEF EL!LoopPolls, LoopProofs!LoopPolls
<1>13. EL!LoopRunsExit => LoopProofs!LoopRunsExit
  BY DEF EL!LoopRunsExit, LoopProofs!LoopRunsExit
<1>14. EL!LoopEndsPass => LoopProofs!LoopEndsPass
  BY DEF EL!LoopEndsPass, LoopProofs!LoopEndsPass
<1>15. EL!LoopLeaves => LoopProofs!LoopLeaves
  BY DEF EL!LoopLeaves, LoopProofs!LoopLeaves
<1>16. EL!LoopUnlocksLoop => LoopProofs!LoopUnlocksLoop
  BY DEF EL!LoopUnlocksLoop, LoopProofs!LoopUnlocksLoop
<1>17. EL!LoopLocksAdd => LoopProofs!LoopLocksAdd
  BY DEF EL!LoopLocksAdd, LoopProofs!LoopLocksAdd
<1>18. EL!LoopUnlocksAdd => LoopProofs!LoopUnlocksAdd
  BY DEF EL!LoopUnlocksAdd, LoopProofs!LoopUnlocksAdd
<1>19. EL!StopLoop => LoopProofs!StopLoop
  BY DEF EL!StopLoop, LoopProofs!StopLoop
<1>20. EL!StopLoopReturns => LoopProofs!StopLoopReturns
  BY DEF EL!StopLoopReturns, LoopProofs!StopLoopReturns
<1>21. EL!LoopRunsCallback(e, freed) => LoopProofs!LoopRunsCallback(e, freed)
  BY DEF EL!LoopRunsCallback, LoopProofs!LoopRunsCallback
<1>22. EL!BecomesDue(e) => LoopProofs!BecomesDue(e)
  BY DEF EL!BecomesDue, LoopProofs!BecomesDue
<1>. QED
  BY <1>1, <1>2, <1>3, <1>4, <1>5, <1>6, <1>7, <1>8, <1>9, <1>10, <1>11, <1>12, <1>13, <1>14, <1>15,
     <1>16, <1>17, <1>18, <1>19, <1>20, <1>21, <1>22

(* Every step of Master is a step of its event loop or leaves it alone. *)
LEMMA LoopTakesSteps ==
  ASSUME IndInv, [Next]_vars
  PROVE  [LoopProofs!Next]_(LoopProofs!vars)
<1>1. ASSUME BuilderCallsAddEvent
      PROVE  LoopProofs!Next
  <2>1. newClient \in Clients
    BY <1>1 DEF BuilderCallsAddEvent, BuilderGoes, IndInv, Types, BuilderInHand
  <2>. QED
    BY <1>1, <2>1, SameLoop DEF BuilderCallsAddEvent, LoopProofs!Next, LoopProofs!Adder
<1>2. ASSUME BuilderInAddEvent
      PROVE  LoopProofs!Next
  BY <1>2, SameLoop DEF BuilderInAddEvent, LoopProofs!Next, LoopProofs!Adder
<1>3. ASSUME LoopSteps
      PROVE  LoopProofs!Next
  BY <1>3, SameLoop DEF LoopSteps, LoopProofs!Next, LoopProofs!RunLoop
<1>4. ASSUME NEW e \in Clients, CallbackKeeps(e) \/ CallbackTakes(e) \/ CallbackRemoves(e)
      PROVE  LoopProofs!Next
  <2>1. \E freed \in BOOLEAN : LoopProofs!LoopRunsCallback(e, freed)
    BY <1>4, SameLoop DEF CallbackKeeps, CallbackTakes, CallbackRemoves
  <2>. QED
    BY <2>1 DEF LoopProofs!Next, LoopProofs!RunLoop, LoopProofs!RunCallback
<1>5. ASSUME NEW e \in Clients, BecomesDue(e)
      PROVE  LoopProofs!Next
  BY <1>5, SameLoop DEF BecomesDue, LoopProofs!Next
<1>6. ASSUME StopLoop \/ JoinLoop
      PROVE  LoopProofs!Next
  BY <1>6, SameLoop DEF StopLoop, JoinLoop, LoopProofs!Next
<1>7. UNCHANGED loopVars => UNCHANGED LoopProofs!vars
  BY DEF loopVars, LoopProofs!vars, LoopProofs!threadVars, LoopProofs!baseVars
<1>. QED
  BY <1>1, <1>2, <1>3, <1>4, <1>5, <1>6, <1>7
     DEF Next, vars, Listener, ListenerChecks, ListenerAccepts, ListenerEnqueues, CreateTasks,
         BuilderChecks, BuilderTimesOut, BuilderDequeues, BuilderEmplaces,
         BuilderReturnsFromAddEvent, RunLoop, CallbackEnqueues, WorkerLoop, WorkerChecks,
         WorkerTakes, WorkerTakesNothing, WorkerRuns, CallStop, Stop, StopListener, JoinListener,
         ListenersStopped, StopBuilder, JoinBuilder, DrainAgain, StopWorker, JoinWorker,
         WorkersStopped, HangsUpInBody

LEMMA LoopInitInv ==
  ASSUME Init
  PROVE  LoopProofs!IndInv
<1>1. LoopProofs!TypeOK
  BY DEF Init, LoopProofs!TypeOK, LoopProofs!LoopPcs, LoopProofs!AdderPcs
<1>2. LoopProofs!AddMutexOwner /\ LoopProofs!LoopMutexOwner
  BY MasterAssumption DEF Init, LoopProofs!AddMutexOwner, LoopProofs!LoopMutexOwner
<1>3. LoopProofs!AddingInHand /\ LoopProofs!ExitReachesLoop /\ LoopProofs!LiveEvents
  BY DEF Init, LoopProofs!AddingInHand, LoopProofs!ExitReachesLoop, LoopProofs!LiveEvents
<1>. QED
  BY <1>1, <1>2, <1>3 DEF LoopProofs!IndInv

(* What the proofs below use of the loop's invariant. *)
LEMMA LoopGives ==
  ASSUME LoopProofs!IndInv
  PROVE  /\ adderPc \in [{Builder} -> EL!AdderPcs]
         /\ adding \in [{Builder} -> Clients \cup {NoClient}]
         /\ adding[Builder] = NoClient <=> adderPc[Builder] \in {"idle", "unlockAdd", "unlockLoop"}
         /\ adding[Builder] # NoClient => adding[Builder] \notin registered
         /\ registered \subseteq Clients
         /\ active \subseteq registered
BY DEF LoopProofs!IndInv, LoopProofs!TypeOK, LoopProofs!AddingInHand, LoopProofs!LiveEvents,
       LoopProofs!AdderPcs, EL!AdderPcs

-----------------------------------------------------------------------------
(* The invariant is inductive *)

LEMMA InitInv ==
  ASSUME Init
  PROVE  IndInv
<1>1. Types
  BY DEF Init, Types, StopPcs
<1>2. ClientsApart
  BY MasterAssumption DEF Init, ClientsApart
<1>3. BuilderInHand /\ MapHasEvents
  BY DEF Init, BuilderInHand, MapHasEvents
<1>4. ListenersJoined /\ BuilderJoined /\ LoopJoined
  BY DEF Init, ListenersJoined, BuilderJoined, LoopJoined
<1>. QED
  BY <1>1, <1>2, <1>3, <1>4 DEF IndInv

(* Listener::Loop *)
LEMMA ListenerInv ==
  ASSUME IndInv, LoopProofs!IndInv, NEW l \in Listeners, Listener(l)
  PROVE  IndInv'
<1>. USE MasterAssumption, LoopGives DEF IndInv, Types, ClientsApart, BuilderInHand, MapHasEvents,
   ListenersJoined, BuilderJoined, LoopJoined, StopPcs, loopVars, stopVars, listenerVars,
   builderVars, taskVars, workerVars, doneVars, ListenerGoes, Arrived
<1>1. CASE ListenerChecks(l)
  BY <1>1 DEF ListenerChecks
<1>2. ASSUME NEW c \in Clients, ListenerAccepts(l, c)
      PROVE  IndInv'
  BY <1>2 DEF ListenerAccepts
<1>3. CASE ListenerEnqueues(l)
  BY <1>3 DEF ListenerEnqueues
<1>. QED
  BY <1>1, <1>2, <1>3 DEF Listener

(* TaskBuilder::CreateTasks *)
LEMMA BuilderInv ==
  ASSUME IndInv, LoopProofs!IndInv, CreateTasks
  PROVE  IndInv'
<1>. USE MasterAssumption, LoopGives DEF IndInv, Types, ClientsApart, BuilderInHand, MapHasEvents,
   ListenersJoined, BuilderJoined, LoopJoined, StopPcs, loopVars, stopVars, listenerVars,
   builderVars, taskVars, workerVars, doneVars, SameKey, BuilderGoes, EL!AdderGoes, EL!AdderPcs, EL!baseVars
<1>1. CASE BuilderChecks
  BY <1>1 DEF BuilderChecks
<1>2. CASE BuilderTimesOut
  BY <1>2 DEF BuilderTimesOut
<1>3. ASSUME NEW c \in Clients, BuilderDequeues(c)
      PROVE  IndInv'
  BY <1>3 DEF BuilderDequeues
<1>4. CASE BuilderEmplaces
  BY <1>4 DEF BuilderEmplaces
<1>5. CASE BuilderCallsAddEvent
  BY <1>5 DEF BuilderCallsAddEvent, EL!CallAddEvent
<1>6. CASE BuilderInAddEvent /\ EL!AdderLocksAdd(Builder)
  BY <1>6 DEF BuilderInAddEvent, EL!AdderLocksAdd
<1>7. CASE BuilderInAddEvent /\ EL!AdderPostsExit(Builder)
  BY <1>7 DEF BuilderInAddEvent, EL!AdderPostsExit
<1>8. CASE BuilderInAddEvent /\ EL!AdderLocksLoop(Builder)
  BY <1>8 DEF BuilderInAddEvent, EL!AdderLocksLoop
<1>9. CASE BuilderInAddEvent /\ EL!AdderAdds(Builder)
  BY <1>9 DEF BuilderInAddEvent, EL!AdderAdds
<1>10. CASE BuilderInAddEvent /\ EL!AdderUnlocksAdd(Builder)
  BY <1>10 DEF BuilderInAddEvent, EL!AdderUnlocksAdd
<1>11. CASE BuilderInAddEvent /\ EL!AdderUnlocksLoop(Builder)
  BY <1>11 DEF BuilderInAddEvent, EL!AdderUnlocksLoop
<1>12. CASE BuilderReturnsFromAddEvent
  BY <1>12 DEF BuilderReturnsFromAddEvent
<1>. QED
  BY <1>1, <1>2, <1>3, <1>4, <1>5, <1>6, <1>7, <1>8, <1>9, <1>10, <1>11, <1>12 DEF CreateTasks,
     BuilderInAddEvent

(* EventLoop::RunLoop and the callbacks *)
LEMMA RunLoopInv ==
  ASSUME IndInv, LoopProofs!IndInv, RunLoop
  PROVE  IndInv'
<1>. USE MasterAssumption, LoopGives DEF IndInv, Types, ClientsApart, BuilderInHand, MapHasEvents,
   ListenersJoined, BuilderJoined, LoopJoined, StopPcs, loopVars, stopVars, listenerVars,
   builderVars, taskVars, workerVars, doneVars, SameKey, EL!LoopGoes, EL!baseVars
<1>1. CASE LoopSteps /\ EL!LoopContinues
  BY <1>1 DEF LoopSteps, EL!LoopContinues
<1>2. CASE LoopSteps /\ EL!LoopEnds
  BY <1>2 DEF LoopSteps, EL!LoopEnds
<1>3. CASE LoopSteps /\ EL!LoopLocksLoop
  BY <1>3 DEF LoopSteps, EL!LoopLocksLoop
<1>4. CASE LoopSteps /\ EL!LoopEnters
  BY <1>4 DEF LoopSteps, EL!LoopEnters
<1>5. CASE LoopSteps /\ EL!LoopPolls
  BY <1>5 DEF LoopSteps, EL!LoopPolls
<1>6. CASE LoopSteps /\ EL!LoopRunsExit
  BY <1>6 DEF LoopSteps, EL!LoopRunsExit
<1>7. CASE LoopSteps /\ EL!LoopEndsPass
  BY <1>7 DEF LoopSteps, EL!LoopEndsPass
<1>8. CASE LoopSteps /\ EL!LoopLeaves
  BY <1>8 DEF LoopSteps, EL!LoopLeaves
<1>9. CASE LoopSteps /\ EL!LoopUnlocksLoop
  BY <1>9 DEF LoopSteps, EL!LoopUnlocksLoop
<1>10. CASE LoopSteps /\ EL!LoopLocksAdd
  BY <1>10 DEF LoopSteps, EL!LoopLocksAdd
<1>11. CASE LoopSteps /\ EL!LoopUnlocksAdd
  BY <1>11 DEF LoopSteps, EL!LoopUnlocksAdd
<1>12. CASE CallbackEnqueues
  BY <1>12 DEF CallbackEnqueues
<1>13. ASSUME NEW e \in Clients, CallbackKeeps(e)
      PROVE  IndInv'
  BY <1>13 DEF CallbackKeeps, EL!LoopRunsCallback
<1>14. ASSUME NEW e \in Clients, CallbackTakes(e)
      PROVE  IndInv'
  BY <1>14 DEF CallbackTakes, EL!LoopRunsCallback
<1>15. ASSUME NEW e \in Clients, CallbackRemoves(e)
      PROVE  IndInv'
  BY <1>15 DEF CallbackRemoves, EL!LoopRunsCallback
<1>. QED
  BY <1>1, <1>2, <1>3, <1>4, <1>5, <1>6, <1>7, <1>8, <1>9, <1>10, <1>11, <1>12, <1>13, <1>14, <1>15
     DEF RunLoop, LoopSteps

(* Worker::Loop *)
LEMMA WorkerInv ==
  ASSUME IndInv, LoopProofs!IndInv, NEW w \in Workers, WorkerLoop(w)
  PROVE  IndInv'
<1>. USE MasterAssumption, LoopGives DEF IndInv, Types, ClientsApart, BuilderInHand, MapHasEvents,
   ListenersJoined, BuilderJoined, LoopJoined, StopPcs, loopVars, stopVars, listenerVars,
   builderVars, taskVars, workerVars, doneVars, WorkerGoes
<1>1. CASE WorkerChecks(w)
  BY <1>1 DEF WorkerChecks
<1>2. ASSUME NEW c \in Clients, WorkerTakes(w, c)
      PROVE  IndInv'
  BY <1>2 DEF WorkerTakes
<1>3. CASE WorkerTakesNothing(w)
  BY <1>3 DEF WorkerTakesNothing
<1>4. CASE WorkerRuns(w)
  BY <1>4 DEF WorkerRuns
<1>. QED
  BY <1>1, <1>2, <1>3, <1>4 DEF WorkerLoop

(* Master::Stop *)
LEMMA StopInv ==
  ASSUME IndInv, LoopProofs!IndInv, CallStop \/ Stop
  PROVE  IndInv'
<1>. USE MasterAssumption, LoopGives DEF IndInv, Types, ClientsApart, BuilderInHand, MapHasEvents,
   ListenersJoined, BuilderJoined, LoopJoined, StopPcs, loopVars, stopVars, listenerVars,
   builderVars, taskVars, workerVars, doneVars, StopGoes, EL!LoopGoes, EL!baseVars
<1>1. CASE CallStop
  BY <1>1 DEF CallStop
<1>2. ASSUME NEW l \in Listeners, StopListener(l)
      PROVE  IndInv'
  BY <1>2 DEF StopListener
<1>3. ASSUME NEW l \in Listeners, JoinListener(l)
      PROVE  IndInv'
  BY <1>3 DEF JoinListener
<1>4. CASE ListenersStopped
  BY <1>4 DEF ListenersStopped
<1>5. CASE StopBuilder
  BY <1>5 DEF StopBuilder
<1>6. CASE JoinBuilder
  BY <1>6 DEF JoinBuilder
<1>7. CASE StopLoop
  BY <1>7 DEF StopLoop, EL!StopLoop
<1>8. CASE JoinLoop
  BY <1>8 DEF JoinLoop, EL!StopLoopReturns
<1>9. CASE DrainAgain
  BY <1>9 DEF DrainAgain
<1>10. ASSUME NEW w \in Workers, StopWorker(w)
      PROVE  IndInv'
  BY <1>10 DEF StopWorker
<1>11. ASSUME NEW w \in Workers, JoinWorker(w)
      PROVE  IndInv'
  BY <1>11 DEF JoinWorker
<1>12. CASE WorkersStopped
  BY <1>12 DEF WorkersStopped
<1>. QED
  BY <1>1, <1>2, <1>3, <1>4, <1>5, <1>6, <1>7, <1>8, <1>9, <1>10, <1>11, <1>12 DEF Stop

LEMMA NextInv ==
  ASSUME IndInv, LoopProofs!IndInv, [Next]_vars
  PROVE  IndInv'
<1>1. ASSUME NEW e \in Clients, BecomesDue(e)
      PROVE  IndInv'
  BY <1>1 DEF BecomesDue, EL!BecomesDue, EL!threadVars, IndInv, Types, ClientsApart, BuilderInHand,
     MapHasEvents, ListenersJoined, BuilderJoined, LoopJoined, StopPcs, loopVars, stopVars,
     listenerVars, builderVars, taskVars, workerVars, doneVars
<1>2. ASSUME NEW e \in Clients, HangsUpInBody(e)
      PROVE  IndInv'
  BY <1>2 DEF HangsUpInBody, IndInv, Types, ClientsApart, BuilderInHand, MapHasEvents,
     ListenersJoined, BuilderJoined, LoopJoined, StopPcs, loopVars, stopVars, listenerVars,
     builderVars, taskVars, workerVars
<1>3. CASE UNCHANGED vars
  BY <1>3 DEF vars, IndInv, Types, ClientsApart, BuilderInHand, MapHasEvents, ListenersJoined,
     BuilderJoined, LoopJoined, StopPcs, loopVars, stopVars, listenerVars, builderVars, taskVars,
     workerVars, doneVars
<1>. QED
  BY <1>1, <1>2, <1>3, ListenerInv, BuilderInv, RunLoopInv, WorkerInv, StopInv DEF Next

-----------------------------------------------------------------------------
(* Theorems *)

(* The inductive invariants of Master and of its event loop hold together,  *)
(* for any number of listeners, clients and workers.                        *)
THEOREM Invariance == Spec => [](IndInv /\ LoopProofs!IndInv)
<1>1. Init => IndInv /\ LoopProofs!IndInv
  BY InitInv, LoopInitInv
<1>2. IndInv /\ LoopProofs!IndInv /\ [Next]_vars => IndInv' /\ LoopProofs!IndInv'
  BY NextInv, LoopTakesSteps, LoopIsUsable, LoopProofs!NextInv
<1>. QED
  BY <1>1, <1>2, PTL DEF Spec

(* Type correctness. *)
THEOREM TypeCorrect == Spec => []TypeOK
<1>1. LoopProofs!IndInv => EL!TypeOK
  BY DEF LoopProofs!IndInv, LoopProofs!TypeOK, LoopProofs!LoopPcs, LoopProofs!AdderPcs,
     EL!TypeOK, EL!LoopPcs, EL!AdderPcs
<1>2. IndInv /\ LoopProofs!IndInv => TypeOK
  BY <1>1 DEF IndInv, Types, TypeOK
<1>. QED
  BY <1>2, Invariance, PTL

(* Whatever Stop overtakes, the joined TaskBuilder leaves no client before  *)
(* the map.                                                                 *)
THEOREM BuilderIsDrained == Spec => []BuilderLeavesNothing
<1>1. IndInv => BuilderLeavesNothing
  BY DEF IndInv, Types, ClientsApart, BuilderInHand, ListenersJoined, BuilderJoined,
     BuilderLeavesNothing
<1>. QED
  BY <1>1, Invariance, PTL

(* Each client in the map has its event or the AddEvent that runs, and the  *)
(* joined event loop leaves none.                                           *)
THEOREM LoopIsDrained == Spec => []LoopLeavesNothing
<1>1. IndInv => LoopLeavesNothing
  BY DEF IndInv, MapHasEvents, LoopJoined, BuilderJoined, BuilderInHand, LoopLeavesNothing
<1>. QED
  BY <1>1, Invariance, PTL

(* EventLoop keeps its guarantees in Master: event_add stays out of a       *)
(* running event_base_loop, AddEvent keeps its wake-up, and no event is run *)
(* after it is freed, also while Stop stops the loop.                       *)
THEOREM LoopIsSafe == Spec => [](EL!AddOutsideDispatch /\ EL!WakeupNotLost /\ EL!LiveEvents)
<1>1. LoopProofs!IndInv => EL!AddOutsideDispatch
  BY LoopIsUsable, LoopProofs!AloneFollows
     DEF LoopProofs!AddOutsideDispatch, LoopProofs!Dispatching, EL!AddOutsideDispatch, EL!Dispatching
<1>2. LoopProofs!IndInv => EL!WakeupNotLost
  BY LoopIsUsable, LoopProofs!WakeupFollows
     DEF LoopProofs!WakeupNotLost, LoopProofs!Dispatching, EL!WakeupNotLost, EL!Dispatching
<1>3. LoopProofs!IndInv => EL!LiveEvents
  BY DEF LoopProofs!IndInv, LoopProofs!LiveEvents, EL!LiveEvents
<1>. QED
  BY <1>1, <1>2, <1>3, Invariance, PTL

(* As Master uses it, the event loop is an EventSet.                        *)
THEOREM LoopIsEventSet == Spec => EL!Abstract!SafeSpec
<1>1. Init => EL!Abstract!Init
  BY DEF Init, EL!Abstract!Init, EL!Dispatching
<1>2. LoopProofs!Abstract!Next => EL!Abstract!Next
  BY DEF LoopProofs!Abstract!Next, LoopProofs!Abstract!Request, LoopProofs!Abstract!Register,
     LoopProofs!Abstract!CallbackFrees, LoopProofs!Abstract!StartDispatch,
     LoopProofs!Abstract!EndDispatch, LoopProofs!Dispatching, EL!Abstract!Next,
     EL!Abstract!Request, EL!Abstract!Register, EL!Abstract!CallbackFrees,
     EL!Abstract!StartDispatch, EL!Abstract!EndDispatch, EL!Dispatching
<1>3. LoopProofs!Abstract!vars = EL!Abstract!vars /\ LoopProofs!Abstract!vars' = EL!Abstract!vars'
  BY DEF LoopProofs!Abstract!vars, LoopProofs!Dispatching, EL!Abstract!vars, EL!Dispatching
<1>4. IndInv /\ LoopProofs!IndInv /\ [Next]_vars => [EL!Abstract!Next]_(EL!Abstract!vars)
  BY <1>2, <1>3, LoopTakesSteps, LoopIsUsable, LoopProofs!NextRefines
<1>. QED
  BY <1>1, <1>4, Invariance, PTL DEF Spec, EL!Abstract!SafeSpec
=============================================================================
