------------------------------- MODULE Master -------------------------------
(***************************************************************************)
(* Master::Stop against the threads it stops: listeners, the TaskBuilder,  *)
(* the event loop and the workers, each with its `stop` flag and its loop. *)
(* The event loop is EventLoop with the TaskBuilder as its adder; clients  *)
(* are followed from queue to queue without what they send, which Server   *)
(* models: only that a client may hang up inside its body, which keeps it  *)
(* in the map.  A failed accept makes a client without a socket, whose     *)
(* descriptor and key in the map is -1.                                    *)
(***************************************************************************)
EXTENDS FiniteSets

CONSTANTS
  Clients, NoClient,
  Listeners, Workers, Builder, Loop, NoThread

ASSUME MasterAssumption ==
  /\ NoClient \notin Clients
  /\ Builder # Loop
  /\ NoThread \notin Listeners \cup Workers \cup {Builder, Loop}

VARIABLES
  stop, eventLoopRunningMutex, addEventRunningMutex, loopPc, adderPc, adding, masterPc,
  exitPosted, gotterm, registered, due, active,     \* of EventLoop
  stopPc,               \* where Master::Stop is
  joining,              \* the listener or worker it joins
  listenerStop, listenerPc, listenerClient,
  failed,               \* clients without a socket
  unprocessedClients,
  builderStop, builderPc, newClient,
  haveNoData,           \* the clients in the map
  moving,               \* taken from the map and not yet enqueued
  haveData,
  workerStop, workerPc, currentTask,
  answered, dropped,
  hungUpInBody          \* clients that hung up after their header

EL == INSTANCE EventLoop WITH
  Adders <- {Builder}, Events <- Clients, NoEvent <- NoClient

loopVars == <<stop, eventLoopRunningMutex, addEventRunningMutex, loopPc, adderPc, adding, masterPc,
              exitPosted, gotterm, registered, due, active>>
stopVars == <<stopPc, joining>>
listenerVars == <<listenerStop, listenerPc, listenerClient, failed>>
builderVars == <<builderStop, builderPc, newClient>>
taskVars == <<haveNoData, moving>>
workerVars == <<workerStop, workerPc, currentTask>>
doneVars == <<answered, dropped, hungUpInBody>>
vars == <<loopVars, stopVars, listenerVars, unprocessedClients, builderVars, taskVars,
          haveData, workerVars, doneVars>>

StopPcs == {"running", "listeners", "drainUnprocessed", "joinBuilder", "drainWaiting",
            "joinLoop", "drainAgain", "workers", "stopped"}

TypeOK ==
  /\ EL!TypeOK
  /\ stopPc \in StopPcs
  /\ joining \in Listeners \cup Workers \cup {NoThread}
  /\ listenerStop \in [Listeners -> BOOLEAN]
  /\ listenerPc \in [Listeners -> {"check", "accept", "enqueue", "ended"}]
  /\ listenerClient \in [Listeners -> Clients \cup {NoClient}]
  /\ unprocessedClients \in SUBSET Clients
  /\ builderStop \in BOOLEAN
  /\ builderPc \in {"check", "dequeue", "emplace", "addEvent", "adding", "ended"}
  /\ newClient \in Clients \cup {NoClient}
  /\ haveNoData \in SUBSET Clients
  /\ moving \in Clients \cup {NoClient}
  /\ haveData \in SUBSET Clients
  /\ workerStop \in [Workers -> BOOLEAN]
  /\ workerPc \in [Workers -> {"check", "take", "run", "failed", "ended"}]
  /\ currentTask \in [Workers -> Clients \cup {NoClient}]
  /\ answered \in SUBSET Clients
  /\ dropped \in SUBSET Clients
  /\ failed \in SUBSET Clients
  /\ hungUpInBody \in SUBSET Clients

(* Master::Start has returned. *)
Init ==
  /\ stop = FALSE
  /\ eventLoopRunningMutex = NoThread
  /\ addEventRunningMutex = NoThread
  /\ loopPc = "check"
  /\ adderPc = [a \in {Builder} |-> "idle"]
  /\ adding = [a \in {Builder} |-> NoClient]
  /\ masterPc = "idle"
  /\ exitPosted = FALSE
  /\ gotterm = FALSE
  /\ registered = {}
  /\ due = {}
  /\ active = {}
  /\ stopPc = "running"
  /\ joining = NoThread
  /\ listenerStop = [l \in Listeners |-> FALSE]
  /\ listenerPc = [l \in Listeners |-> "check"]
  /\ listenerClient = [l \in Listeners |-> NoClient]
  /\ unprocessedClients = {}
  /\ builderStop = FALSE
  /\ builderPc = "check"
  /\ newClient = NoClient
  /\ haveNoData = {}
  /\ moving = NoClient
  /\ haveData = {}
  /\ workerStop = [w \in Workers |-> FALSE]
  /\ workerPc = [w \in Workers |-> "check"]
  /\ currentTask = [w \in Workers |-> NoClient]
  /\ answered = {}
  /\ dropped = {}
  /\ failed = {}
  /\ hungUpInBody = {}

Arrived ==
  {c \in Clients :
     \/ \E l \in Listeners : listenerClient[l] = c
     \/ c \in unprocessedClients \cup haveNoData \cup haveData \cup answered \cup dropped
     \/ c \in {newClient, moving}
     \/ \E w \in Workers : currentTask[w] = c}

-----------------------------------------------------------------------------
(* Listener::Loop: only a connection makes accept return, or an error. *)

ListenerGoes(l, from, to) ==
  /\ listenerPc[l] = from
  /\ listenerPc' = [listenerPc EXCEPT ![l] = to]

ListenerChecks(l) ==
  /\ ListenerGoes(l, "check", IF listenerStop[l] THEN "ended" ELSE "accept")
  /\ UNCHANGED <<loopVars, stopVars, listenerStop, listenerClient, failed, unprocessedClients,
                 builderVars, taskVars, haveData, workerVars, doneVars>>

ListenerAccepts(l, c) ==
  /\ ListenerGoes(l, "accept", "enqueue")
  /\ c \notin Arrived
  /\ failed' \in {failed, failed \cup {c}}
  /\ listenerClient' = [listenerClient EXCEPT ![l] = c]
  /\ UNCHANGED <<loopVars, stopVars, listenerStop, unprocessedClients,
                 builderVars, taskVars, haveData, workerVars, doneVars>>

ListenerEnqueues(l) ==
  /\ ListenerGoes(l, "enqueue", "check")
  /\ unprocessedClients' = unprocessedClients \cup {listenerClient[l]}
  /\ listenerClient' = [listenerClient EXCEPT ![l] = NoClient]
  /\ UNCHANGED <<loopVars, stopVars, listenerStop, failed, builderVars, taskVars, haveData,
                 workerVars, doneVars>>

-----------------------------------------------------------------------------
(* TaskBuilder::CreateTasks *)

BuilderGoes(from, to) ==
  /\ builderPc = from
  /\ builderPc' = to

BuilderChecks ==
  /\ BuilderGoes("check", IF builderStop THEN "ended" ELSE "dequeue")
  /\ UNCHANGED <<loopVars, stopVars, listenerVars, unprocessedClients, builderStop, newClient,
                 taskVars, haveData, workerVars, doneVars>>

(* 100 ms without a client. *)
BuilderTimesOut ==
  /\ BuilderGoes("dequeue", "check")
  /\ unprocessedClients = {}
  /\ UNCHANGED <<loopVars, stopVars, listenerVars, unprocessedClients, builderStop, newClient,
                 taskVars, haveData, workerVars, doneVars>>

BuilderDequeues(c) ==
  /\ BuilderGoes("dequeue", "emplace")
  /\ c \in unprocessedClients
  /\ unprocessedClients' = unprocessedClients \ {c}
  /\ newClient' = c
  /\ UNCHANGED <<loopVars, stopVars, listenerVars, builderStop, taskVars, haveData,
                 workerVars, doneVars>>

(* The clients under the same key as c: all that have no socket, or itself. *)
SameKey(c) == IF c \in failed THEN failed ELSE {c}

(* emplace does nothing when the key is there. *)
BuilderEmplaces ==
  /\ BuilderGoes("emplace", "addEvent")
  /\ haveNoData' = IF haveNoData \cap SameKey(newClient) = {}
                   THEN haveNoData \cup {newClient} ELSE haveNoData
  /\ UNCHANGED <<loopVars, stopVars, listenerVars, unprocessedClients, builderStop, newClient,
                 moving, haveData, workerVars, doneVars>>

BuilderCallsAddEvent ==
  /\ BuilderGoes("addEvent", "adding")
  /\ EL!CallAddEvent(Builder, newClient)
  /\ UNCHANGED <<stopVars, listenerVars, unprocessedClients, builderStop, newClient,
                 taskVars, haveData, workerVars, doneVars>>

(* The steps of AddEvent after the call. *)
BuilderInAddEvent ==
  /\ \/ EL!AdderLocksAdd(Builder)
     \/ EL!AdderPostsExit(Builder)
     \/ EL!AdderLocksLoop(Builder)
     \/ EL!AdderAdds(Builder)
     \/ EL!AdderUnlocksAdd(Builder)
     \/ EL!AdderUnlocksLoop(Builder)
  /\ UNCHANGED <<stopVars, listenerVars, unprocessedClients, builderVars, taskVars, haveData,
                 workerVars, doneVars>>

(* The end of the iteration destroys a client that was not emplaced. *)
BuilderReturnsFromAddEvent ==
  /\ BuilderGoes("adding", "check")
  /\ adderPc[Builder] = "idle"
  /\ newClient' = NoClient
  /\ dropped' = dropped \cup ({newClient} \cap (failed \ haveNoData))
  /\ UNCHANGED <<loopVars, stopVars, listenerVars, unprocessedClients, builderStop,
                 taskVars, haveData, workerVars, answered, hungUpInBody>>

-----------------------------------------------------------------------------
(* The event loop's thread *)

LoopSteps ==
  /\ moving = NoClient
  /\ \/ EL!LoopContinues \/ EL!LoopEnds \/ EL!LoopLocksLoop \/ EL!LoopEnters
     \/ EL!LoopPolls \/ EL!LoopRunsExit \/ EL!LoopEndsPass \/ EL!LoopLeaves
     \/ EL!LoopUnlocksLoop \/ EL!LoopLocksAdd \/ EL!LoopUnlocksAdd
  /\ UNCHANGED <<stopVars, listenerVars, unprocessedClients, builderVars, taskVars, haveData,
                 workerVars, doneVars>>

(* The callback reads a part of the request, or nothing after a hang-up     *)
(* inside the body.  Without a socket only the timer makes an event due.    *)
CallbackKeeps(e) ==
  /\ moving = NoClient
  /\ e \notin failed
  /\ EL!LoopRunsCallback(e, FALSE)
  /\ UNCHANGED <<stopVars, listenerVars, unprocessedClients, builderVars, taskVars, haveData,
                 workerVars, doneVars>>

(* The request is complete: the task leaves the map ... *)
CallbackTakes(e) ==
  /\ moving = NoClient
  /\ e \notin failed \cup hungUpInBody
  /\ EL!LoopRunsCallback(e, TRUE)
  /\ haveNoData' = haveNoData \ {e}
  /\ moving' = e
  /\ UNCHANGED <<stopVars, listenerVars, unprocessedClients, builderVars, haveData,
                 workerVars, doneVars>>

(* ... and is enqueued. *)
CallbackEnqueues ==
  /\ moving # NoClient
  /\ haveData' = haveData \cup {moving}
  /\ moving' = NoClient
  /\ UNCHANGED <<loopVars, stopVars, listenerVars, unprocessedClients, builderVars, haveNoData,
                 workerVars, doneVars>>

(* An error or the timeout: what is under the key is erased. *)
CallbackRemoves(e) ==
  /\ moving = NoClient
  /\ EL!LoopRunsCallback(e, TRUE)
  /\ haveNoData' = haveNoData \ SameKey(e)
  /\ dropped' = dropped \cup (haveNoData \cap SameKey(e))
  /\ UNCHANGED <<stopVars, listenerVars, unprocessedClients, builderVars, moving, haveData,
                 workerVars, answered, hungUpInBody>>

(* The peer's side: its event is readable from now on, and re-armed. *)
HangsUpInBody(c) ==
  /\ c \in haveNoData \ (failed \cup hungUpInBody)
  /\ hungUpInBody' = hungUpInBody \cup {c}
  /\ UNCHANGED <<loopVars, stopVars, listenerVars, unprocessedClients, builderVars, taskVars,
                 haveData, workerVars, answered, dropped>>

BecomesDue(e) ==
  /\ EL!BecomesDue(e)
  /\ UNCHANGED <<stopVars, listenerVars, unprocessedClients, builderVars, taskVars, haveData,
                 workerVars, doneVars>>

-----------------------------------------------------------------------------
(* Worker::Loop *)

WorkerGoes(w, from, to) ==
  /\ workerPc[w] = from
  /\ workerPc' = [workerPc EXCEPT ![w] = to]

WorkerChecks(w) ==
  /\ WorkerGoes(w, "check", IF workerStop[w] THEN "ended" ELSE "take")
  /\ UNCHANGED <<loopVars, stopVars, listenerVars, unprocessedClients, builderVars, taskVars,
                 haveData, workerStop, currentTask, doneVars>>

WorkerTakes(w, c) ==
  /\ WorkerGoes(w, "take", "run")
  /\ c \in haveData
  /\ haveData' = haveData \ {c}
  /\ currentTask' = [currentTask EXCEPT ![w] = c]
  /\ UNCHANGED <<loopVars, stopVars, listenerVars, unprocessedClients, builderVars, taskVars,
                 workerStop, doneVars>>

(* TakeNewTask sees `stop` and returns without a task; RunPreFunc, called   *)
(* next, throws because the state is not TaskReceived, and nothing catches. *)
WorkerTakesNothing(w) ==
  /\ WorkerGoes(w, "take", "failed")
  /\ workerStop[w]
  /\ UNCHANGED <<loopVars, stopVars, listenerVars, unprocessedClients, builderVars, taskVars,
                 haveData, workerStop, currentTask, doneVars>>

WorkerRuns(w) ==
  /\ WorkerGoes(w, "run", "check")
  /\ answered' = answered \cup {currentTask[w]}
  /\ currentTask' = [currentTask EXCEPT ![w] = NoClient]
  /\ UNCHANGED <<loopVars, stopVars, listenerVars, unprocessedClients, builderVars, taskVars,
                 haveData, workerStop, dropped, hungUpInBody>>

-----------------------------------------------------------------------------
(* Master::Stop *)

StopGoes(from, to) ==
  /\ stopPc = from
  /\ stopPc' = to

CallStop ==
  /\ StopGoes("running", "listeners")
  /\ UNCHANGED <<loopVars, joining, listenerVars, unprocessedClients, builderVars, taskVars,
                 haveData, workerVars, doneVars>>

StopListener(l) ==
  /\ stopPc = "listeners"
  /\ joining = NoThread
  /\ ~listenerStop[l]
  /\ listenerStop' = [listenerStop EXCEPT ![l] = TRUE]
  /\ joining' = l
  /\ UNCHANGED <<loopVars, stopPc, listenerPc, listenerClient, failed, unprocessedClients,
                 builderVars, taskVars, haveData, workerVars, doneVars>>

JoinListener(l) ==
  /\ stopPc = "listeners"
  /\ joining = l
  /\ listenerPc[l] = "ended"
  /\ joining' = NoThread
  /\ UNCHANGED <<loopVars, stopPc, listenerVars, unprocessedClients, builderVars, taskVars,
                 haveData, workerVars, doneVars>>

ListenersStopped ==
  /\ StopGoes("listeners", "drainUnprocessed")
  /\ joining = NoThread
  /\ \A l \in Listeners : listenerStop[l]
  /\ UNCHANGED <<loopVars, joining, listenerVars, unprocessedClients, builderVars, taskVars,
                 haveData, workerVars, doneVars>>

StopBuilder ==
  /\ StopGoes("drainUnprocessed", "joinBuilder")
  /\ unprocessedClients = {}
  /\ builderStop' = TRUE
  /\ UNCHANGED <<loopVars, joining, listenerVars, unprocessedClients, builderPc, newClient,
                 taskVars, haveData, workerVars, doneVars>>

(* Mutant: TaskBuilder::Stop sets the flag and does not join. *)
ForgetBuilder ==
  /\ StopGoes("joinBuilder", "drainWaiting")
  /\ UNCHANGED <<loopVars, joining, listenerVars, unprocessedClients, builderVars, taskVars,
                 haveData, workerVars, doneVars>>

JoinBuilder ==
  /\ StopGoes("joinBuilder", "drainWaiting")
  /\ builderPc = "ended"
  /\ UNCHANGED <<loopVars, joining, listenerVars, unprocessedClients, builderVars, taskVars,
                 haveData, workerVars, doneVars>>

(* Mutant: Stop does not wait for haveNoData. *)
StopLoopAtOnce ==
  /\ StopGoes("drainWaiting", "joinLoop")
  /\ EL!StopLoop
  /\ UNCHANGED <<joining, listenerVars, unprocessedClients, builderVars, taskVars, haveData,
                 workerVars, doneVars>>

(* haveNoData.empty() is read without the mutex. *)
StopLoop ==
  /\ StopGoes("drainWaiting", "joinLoop")
  /\ haveNoData = {}
  /\ EL!StopLoop
  /\ UNCHANGED <<joining, listenerVars, unprocessedClients, builderVars, taskVars, haveData,
                 workerVars, doneVars>>

JoinLoop ==
  /\ StopGoes("joinLoop", "drainAgain")
  /\ EL!StopLoopReturns
  /\ UNCHANGED <<joining, listenerVars, unprocessedClients, builderVars, taskVars, haveData,
                 workerVars, doneVars>>

(* The queue it waits for is unprocessedClients again. *)
DrainAgain ==
  /\ StopGoes("drainAgain", "workers")
  /\ unprocessedClients = {}
  /\ UNCHANGED <<loopVars, joining, listenerVars, unprocessedClients, builderVars, taskVars,
                 haveData, workerVars, doneVars>>

StopWorker(w) ==
  /\ stopPc = "workers"
  /\ joining = NoThread
  /\ ~workerStop[w]
  /\ workerStop' = [workerStop EXCEPT ![w] = TRUE]
  /\ joining' = w
  /\ UNCHANGED <<loopVars, stopPc, listenerVars, unprocessedClients, builderVars, taskVars,
                 haveData, workerPc, currentTask, doneVars>>

JoinWorker(w) ==
  /\ stopPc = "workers"
  /\ joining = w
  /\ workerPc[w] = "ended"
  /\ joining' = NoThread
  /\ UNCHANGED <<loopVars, stopPc, listenerVars, unprocessedClients, builderVars, taskVars,
                 haveData, workerVars, doneVars>>

WorkersStopped ==
  /\ StopGoes("workers", "stopped")
  /\ joining = NoThread
  /\ \A w \in Workers : workerStop[w]
  /\ UNCHANGED <<loopVars, joining, listenerVars, unprocessedClients, builderVars, taskVars,
                 haveData, workerVars, doneVars>>
-----------------------------------------------------------------------------
Listener(l) ==
  \/ ListenerChecks(l)
  \/ \E c \in Clients : ListenerAccepts(l, c)
  \/ ListenerEnqueues(l)

CreateTasks ==
  \/ BuilderChecks
  \/ BuilderTimesOut
  \/ \E c \in Clients : BuilderDequeues(c)
  \/ BuilderEmplaces
  \/ BuilderCallsAddEvent
  \/ BuilderInAddEvent
  \/ BuilderReturnsFromAddEvent

RunLoop ==
  \/ LoopSteps
  \/ CallbackEnqueues
  \/ \E e \in Clients : CallbackKeeps(e) \/ CallbackTakes(e) \/ CallbackRemoves(e)

WorkerLoop(w) ==
  \/ WorkerChecks(w)
  \/ \E c \in Clients : WorkerTakes(w, c)
  \/ WorkerTakesNothing(w)
  \/ WorkerRuns(w)

Stop ==
  \/ \E l \in Listeners : StopListener(l) \/ JoinListener(l)
  \/ ListenersStopped
  \/ StopBuilder
  \/ JoinBuilder
  \/ StopLoop
  \/ JoinLoop
  \/ DrainAgain
  \/ \E w \in Workers : StopWorker(w) \/ JoinWorker(w)
  \/ WorkersStopped

(* std::terminate ends the process. *)
Running == \A w \in Workers : workerPc[w] # "failed"

Next ==
  /\ Running
  /\ \/ \E l \in Listeners : Listener(l)
     \/ CreateTasks
     \/ RunLoop
     \/ \E e \in Clients : BecomesDue(e) \/ HangsUpInBody(e)
     \/ \E w \in Workers : WorkerLoop(w)
     \/ CallStop
     \/ Stop

Spec == Init /\ [][Next]_vars

(* Threads that can run do run, timers make every event due, and a client   *)
(* is completed or removed in the end (Server's ClientsLeave), but for one  *)
(* that hung up inside its body.  Nothing makes another client connect or   *)
(* Stop be called, and a worker's ::send need not return.                   *)
Fairness ==
  /\ \A l \in Listeners : WF_vars(Running /\ (ListenerChecks(l) \/ ListenerEnqueues(l)))
  /\ WF_vars(Running /\ CreateTasks)
  /\ WF_vars(Running /\ RunLoop)
  /\ \A e \in Clients :
       /\ WF_vars(Running /\ BecomesDue(e))
       /\ SF_vars(Running /\ e \notin hungUpInBody /\ (CallbackTakes(e) \/ CallbackRemoves(e)))
  /\ WF_vars(Running /\ Stop)

FairSpec == Spec /\ Fairness

-----------------------------------------------------------------------------
(* When the builder is joined, no client is left before the map: none comes *)
(* from a listener any more, and the one the builder had taken from the     *)
(* queue when it looked empty has its event.                                *)
BuilderLeavesNothing ==
  stopPc \in {"drainWaiting", "joinLoop", "drainAgain", "workers", "stopped"} =>
    /\ unprocessedClients = {}
    /\ newClient = NoClient
    /\ adderPc[Builder] = "idle"
    /\ \A l \in Listeners : listenerClient[l] = NoClient

(* A client in the map has an event, or is the one whose AddEvent runs; so  *)
(* when the event loop is joined, its thread has left no client in the map  *)
(* or between the map and haveData, although Stop reads haveNoData without  *)
(* its mutex.  Only clients without a socket, which share one key, may have *)
(* an event and no place in the map, and leave it behind.                   *)
LoopLeavesNothing ==
  /\ registered \subseteq haveNoData \cup failed
  /\ haveNoData \subseteq registered \cup {newClient}
  /\ stopPc \in {"drainAgain", "workers", "stopped"} =>
       /\ haveNoData = {}
       /\ moving = NoClient
       /\ registered \subseteq failed

(* Once the listeners are joined, Stop gets as far as stopping the event    *)
(* loop: the queue, AddEvent and the map drain behind it.  A client that    *)
(* hangs up inside its body stays in the map and keeps Stop there.          *)
StopReachesLoop ==
  ([]<>(haveNoData \cap hungUpInBody = {})) =>
    (stopPc = "drainUnprocessed" ~> stopPc = "joinLoop")

(* Master.cpp:79 and Master.hpp:46 say of Stop: "Processes all existing     *)
(* connections".                                                            *)
StopProcessesConnections ==
  stopPc = "stopped" => Arrived \subseteq answered \cup dropped

(* Worker.cpp:52-58 checks that RunPreFunc is called with a task received.  *)
WorkersHaveATask ==
  \A w \in Workers : workerPc[w] # "failed"
=============================================================================
