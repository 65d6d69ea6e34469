---------------------------- MODULE ServerProofs ----------------------------
(***************************************************************************)
(* Server for every number of clients, descriptors, listeners and workers: *)
(* events always find the task they were registered for, emplace always    *)
(* inserts, the callbacks' recv never blocks, and a worker gets a whole    *)
(* request that nobody else holds.                                         *)
(***************************************************************************)
EXTENDS Server, TLAPS

(* The names that stand for nobody are apart from the others. *)
LEMMA NamesApart ==
  /\ NoClient \notin Clients
  /\ NoFd \notin Fds
  /\ Builder # Loop
  /\ NoThread \notin {Builder, Loop}
BY ServerAssumption

(* The sizes of what a client sends. *)
LEMMA SizesAreNat ==
  ASSUME request \in [Clients -> Requests], NEW c \in Clients
  PROVE  request[c].header \in Nat /\ request[c].body \in Nat
BY ServerAssumption

(* The invariant holds when the threads start. *)
LEMMA InitInv == Init => IndInv
<1>. SUFFICES ASSUME Init PROVE IndInv
  OBVIOUS
<1>. USE ServerAssumption DEF Init, Keys
<1>1. TypeOK
  BY DEF TypeOK, BuilderPcs, CallbackPcs
<1>2. \A c \in Clients : ~Held(c) /\ ~Waiting(c) /\ ~InMap(c) /\ ~Passed(c)
  BY DEF Held, Waiting, InMap, Passed
<1>3. PlacesApart /\ DescriptorsNotShared
  BY <1>2 DEF PlacesApart, DescriptorsNotShared
<1>4. Locals /\ EventToAdd /\ CallbacksPending /\ EventsHaveTheirTask
  BY DEF Locals, EventToAdd, CallbacksPending, EventsHaveTheirTask
<1>5. \A c \in Clients : 0 <= Total(c)
  BY DEF Total
<1>6. StreamsRead /\ WorkersGetWholeRequests
  BY <1>5 DEF StreamsRead, WorkersGetWholeRequests, Complete
<1>. QED
  BY <1>1, <1>3, <1>4, <1>6 DEF IndInv

(* Peers only add to what was sent. *)
LEMMA PeerInv ==
  ASSUME IndInv, NEW c \in Clients, Peer(c)
  PROVE  IndInv'
<1>. USE NamesApart, SizesAreNat
     DEF IndInv, TypeOK, PlacesApart, DescriptorsNotShared, Locals, EventToAdd,
         CallbacksPending, EventsHaveTheirTask, StreamsRead, WorkersGetWholeRequests,
         Waiting, InMap, Passed, Held, Keys, BuilderPcs, CallbackPcs, Total, Complete,
         peerVars, clientVars, acceptVars, builderVars, mapVars, eventVars,
         callbackVars, workerVars
<1>1. CASE PeerSends(c)
  BY <1>1, SizesAreNat DEF PeerSends
<1>2. CASE PeerHangsUp(c)
  BY <1>2 DEF PeerHangsUp
<1>. QED
  BY <1>1, <1>2 DEF Peer

(* A listener gives a client a descriptor nobody holds. *)
LEMMA ListenerInv ==
  ASSUME IndInv, NEW l \in Listeners, Listener(l)
  PROVE  IndInv'
<1>. USE NamesApart, SizesAreNat
     DEF IndInv, TypeOK, PlacesApart, DescriptorsNotShared, Locals, EventToAdd,
         CallbacksPending, EventsHaveTheirTask, StreamsRead, WorkersGetWholeRequests,
         Waiting, InMap, Passed, Held, Keys, BuilderPcs, CallbackPcs, Total, Complete,
         peerVars, clientVars, acceptVars, builderVars, mapVars, eventVars,
         callbackVars, workerVars
<1>1. ASSUME NEW c \in Clients, NEW f \in Keys, Accept(l, c, f)
      PROVE  IndInv'
  BY <1>1 DEF Accept
<1>2. CASE ListenerEnqueues(l)
  BY <1>2 DEF ListenerEnqueues
<1>. QED
  BY <1>1, <1>2 DEF Listener

(* The builder puts the client in the map before its event. *)
LEMMA CreateTasksInv ==
  ASSUME IndInv, CreateTasks
  PROVE  IndInv'
<1>. USE NamesApart, SizesAreNat
     DEF IndInv, TypeOK, PlacesApart, DescriptorsNotShared, Locals, EventToAdd,
         CallbacksPending, EventsHaveTheirTask, StreamsRead, WorkersGetWholeRequests,
         Waiting, InMap, Passed, Held, Keys, BuilderPcs, CallbackPcs, Total, Complete,
         peerVars, clientVars, acceptVars, builderVars, mapVars, eventVars,
         callbackVars, workerVars, BuilderGoes
<1>1. ASSUME NEW c \in Clients, BuilderDequeues(c)
      PROVE  IndInv'
  BY <1>1 DEF BuilderDequeues
<1>2. CASE BuilderLocks
  BY <1>2 DEF BuilderLocks
<1>3. CASE BuilderEmplaces
  BY <1>3 DEF BuilderEmplaces
<1>4. CASE BuilderAddsEvent
  BY <1>4 DEF BuilderAddsEvent
<1>5. CASE BuilderDrops
  BY <1>5 DEF BuilderDrops
<1>. QED
  BY <1>1, <1>2, <1>3, <1>4, <1>5 DEF CreateTasks

(* RecvBodyAsync takes the units it misses, or all that has come. *)
LEMMA BodyIsRead ==
  ASSUME NEW c \in Clients, NEW place \in Nat, NEW had \in Nat,
         received \in [Clients -> Nat], sent[c] \in Nat, Total(c) \in Nat,
         place <= sent[c], sent[c] <= Total(c),
         RecvBodyAsync(c, place, had)
  PROVE  /\ received' \in [Clients -> Nat]
         /\ received'[c] <= sent[c]
         /\ \A d \in Clients \ {c} : received'[d] = received[d]
         /\ \/ /\ callbackPc' = "freeMove" /\ callbackEvent' = callbackEvent
               /\ received'[c] = Total(c) \/ had > 0
            \/ callbackPc' = "idle" /\ callbackEvent' = NoClient
BY DEF RecvBodyAsync, CallbackGoes, KeepsEvent

(* A reference to a client that a callback serves. *)
LEMMA InputIsServed ==
  ASSUME IndInv, callbackPc = "receive"
  PROVE  /\ input \in Clients /\ input = callbackEvent
         /\ input \in registered \ (active \cup expired)
         /\ input \notin haveData
         /\ \A w \in Workers : currentTask[w] # input
         /\ haveNoDataMutex # Loop /\ moving = NoClient /\ dispatching
<1>. USE NamesApart DEF IndInv
<1>1. input \in Clients /\ input = callbackEvent
  BY DEF TypeOK, Locals, EventsHaveTheirTask
<1>2. input \in registered \ (active \cup expired) /\ dispatching /\ fd[input] # NoFd
  BY <1>1 DEF CallbacksPending
<1>3. InMap(input) /\ ~Passed(input)
  BY <1>1, <1>2 DEF TypeOK, EventsHaveTheirTask, PlacesApart, InMap
<1>. QED
  BY <1>1, <1>2, <1>3 DEF Locals, Passed

(* A step of ReceiveInput changes its client's stream and the callback. *)
LEMMA ReceiveKeeps ==
  ASSUME IndInv, Receive
  PROVE  /\ callbackPc = "receive" /\ input' = NoClient
         /\ UNCHANGED <<peerVars, acceptVars, unprocessedClients, builderVars, mapVars,
                        eventVars, moving, haveData, workerVars>>
         /\ \/ callbackPc' = "idle" /\ callbackEvent' = NoClient
            \/ callbackPc' \in {"freeMove", "freeRemove"} /\ callbackEvent' = callbackEvent
BY DEF Receive, ReceiveFails, ReceivesPartOfHeader, ReceivesBadHeader, ReceivesBody,
       RecvBodyAsync, KeepsEvent, CallbackGoes

(* What ReceiveInput leaves of its client's stream. *)
LEMMA ReceiveReads ==
  ASSUME IndInv, Receive
  PROVE  /\ received' \in [Clients -> Nat] /\ stale' \in [Clients -> Nat]
         /\ receivedHeader' \subseteq Clients
         /\ received'[input] <= sent[input]
         /\ \A c \in Clients \ {input} :
              /\ received'[c] = received[c] /\ stale'[c] = stale[c]
              /\ c \in receivedHeader' <=> c \in receivedHeader
         /\ input \in receivedHeader' /\ stale'[input] > 0 => request[input].nuls # {}
         /\ callbackPc' = "freeMove" => \A c \in Clients : c = input => Complete(c)'
<1>. USE DEF peerVars, clientVars, CallbackGoes
<1>1. /\ input \in Clients
      /\ received \in [Clients -> Nat] /\ stale \in [Clients -> Nat]
      /\ receivedHeader \subseteq Clients
      /\ received[input] \in Nat /\ stale[input] \in Nat /\ sent[input] \in Nat
  BY ReceiveKeeps, InputIsServed DEF IndInv, TypeOK
<1>2. received[input] <= sent[input] /\ sent[input] <= Total(input) /\ Total(input) \in Nat
  BY <1>1, SizesAreNat DEF IndInv, TypeOK, StreamsRead, Total
<1>3. /\ ChunkEnd(input) \in Nat /\ received[input] <= ChunkEnd(input)
      /\ ChunkEnd(input) <= sent[input]
  BY <1>1, <1>2, ServerAssumption DEF ChunkEnd
<1>4. Keeps(input) \in Nat /\ (Keeps(input) > 0 => request[input].nuls # {})
  BY <1>1 DEF Keeps
<1>5. input \in receivedHeader /\ stale[input] > 0 => request[input].nuls # {}
  BY DEF IndInv, StreamsRead
<1>6. CASE ReceiveFails
  BY <1>1, <1>2, <1>6 DEF ReceiveFails
<1>7. CASE ReceivesPartOfHeader
  <2>1. 1 + ChunkEnd(input) - received[input] + Keeps(input) \in Nat
    BY <1>1, <1>3, <1>4
  <2>. QED
    BY <1>1, <1>3, <1>7, <2>1 DEF ReceivesPartOfHeader, KeepsEvent
<1>8. CASE ReceivesBadHeader
  BY <1>1, <1>3, <1>4, <1>8 DEF ReceivesBadHeader
<1>9. CASE ReceivesBody /\ input \in receivedHeader
  <2>1. /\ RecvBodyAsync(input, received[input], stale[input])
        /\ UNCHANGED <<stale, receivedHeader, request, sent>>
    BY <1>9 DEF ReceivesBody
  <2>. QED
    BY <1>1, <1>2, <1>5, <1>9, <2>1, BodyIsRead DEF Complete, Total
<1>10. CASE ReceivesBody /\ input \notin receivedHeader
  <2>1. /\ RecvBodyAsync(input, ChunkEnd(input), Keeps(input))
        /\ stale' = [stale EXCEPT ![input] = Keeps(input)]
        /\ receivedHeader' = receivedHeader \cup {input}
        /\ UNCHANGED <<request, sent>>
    BY <1>10 DEF ReceivesBody
  <2>. QED
    BY <1>1, <1>2, <1>3, <1>4, <2>1, BodyIsRead DEF Complete, Total
<1>. QED
  BY <1>6, <1>7, <1>8, <1>9, <1>10 DEF Receive

(* ReceiveInput reads from the socket of the client the event is for. *)
LEMMA ReceiveInv ==
  ASSUME IndInv, Receive
  PROVE  IndInv'
<1>. USE ReceiveKeeps DEF peerVars, acceptVars, builderVars, mapVars, eventVars, workerVars
<1>1. TypeOK'
  BY NamesApart, ReceiveReads DEF IndInv, TypeOK, CallbackPcs
<1>2. PlacesApart'
  <2>1. \A c \in Clients : (Waiting(c)' <=> Waiting(c)) /\ (InMap(c)' <=> InMap(c))
                         /\ (Passed(c)' <=> Passed(c)) /\ (Held(c)' <=> Held(c))
    BY DEF Waiting, InMap, Passed, Held
  <2>. QED
    BY <2>1, NamesApart DEF IndInv, TypeOK, PlacesApart
<1>3. DescriptorsNotShared'
  BY DEF IndInv, DescriptorsNotShared, Held
<1>4. Locals' /\ EventToAdd' /\ EventsHaveTheirTask'
  BY InputIsServed, NamesApart
     DEF IndInv, TypeOK, Locals, EventToAdd, EventsHaveTheirTask, CallbacksPending
<1>5. CallbacksPending'
  BY InputIsServed, NamesApart DEF IndInv, TypeOK, CallbacksPending
<1>6. StreamsRead'
  <2>. USE InputIsServed, ReceiveReads DEF IndInv
  <2>1. (\A c \in Clients : received[c] <= sent[c] /\ sent[c] <= Total(c))'
    BY DEF StreamsRead, Total
  <2>2. (\A e \in active \ timedOut :
           e \in receivedHeader \/ e \in hungUp \/ sent[e] > received[e])'
    BY DEF StreamsRead, TypeOK
  <2>3. (\A c \in receivedHeader : stale[c] > 0 => request[c].nuls # {})'
    BY DEF StreamsRead, TypeOK
  <2>4. (callbackPc = "freeMove" => Complete(callbackEvent))'
    OBVIOUS
  <2>. QED
    BY <2>1, <2>2, <2>3, <2>4 DEF StreamsRead
<1>7. WorkersGetWholeRequests'
  <2>. SUFFICES ASSUME NEW c \in haveData \cup ({currentTask[w] : w \in Workers} \ {NoClient})
                PROVE  Complete(c)'
    BY DEF WorkersGetWholeRequests
  <2>1. c \in Clients \ {input} /\ Complete(c)
    BY InputIsServed DEF IndInv, TypeOK, WorkersGetWholeRequests
  <2>. QED
    BY <2>1, ReceiveReads DEF Complete, Total
<1>. QED
  BY <1>1, <1>2, <1>3, <1>4, <1>5, <1>6, <1>7 DEF IndInv

(* A callback frees its event before it takes its task from the map. *)
LEMMA CallbackInv ==
  ASSUME IndInv, Callback
  PROVE  IndInv'
<1>. USE NamesApart, SizesAreNat
     DEF IndInv, TypeOK, PlacesApart, DescriptorsNotShared, Locals, EventToAdd,
         CallbacksPending, EventsHaveTheirTask, StreamsRead, WorkersGetWholeRequests,
         Waiting, InMap, Passed, Held, Keys, BuilderPcs, CallbackPcs, Total, Complete,
         peerVars, clientVars, acceptVars, builderVars, mapVars, eventVars,
         callbackVars, workerVars, CallbackGoes
<1>1. ASSUME NEW e \in Clients, CallbackStarts(e)
      PROVE  IndInv'
  BY <1>1 DEF CallbackStarts
<1>2. CASE ReceiveLocks
  BY <1>2 DEF ReceiveLocks, CallbackLocks
<1>3. CASE ReceiveFinds
  BY <1>3 DEF ReceiveFinds
<1>4. CASE Receive
  BY <1>4, ReceiveInv
<1>5. CASE MoveFrees
  BY <1>5 DEF MoveFrees, CallbackFrees
<1>6. CASE MoveLocks
  BY <1>6 DEF MoveLocks, CallbackLocks
<1>7. CASE MoveTakes
  BY <1>7 DEF MoveTakes
<1>8. CASE MoveEnqueues
  BY <1>8 DEF MoveEnqueues
<1>9. CASE RemoveFrees
  BY <1>9 DEF RemoveFrees, CallbackFrees
<1>10. CASE RemoveLocks
  BY <1>10 DEF RemoveLocks, CallbackLocks
<1>11. CASE RemoveErases
  BY <1>11 DEF RemoveErases
<1>. QED
  BY <1>1, <1>2, <1>3, <1>4, <1>5, <1>6, <1>7, <1>8, <1>9, <1>10, <1>11 DEF Callback

(* Entering and polling, and the timers. *)
LEMMA LoopInv ==
  ASSUME IndInv, \/ LoopEnters \/ LoopPolls \/ (\E e \in Clients : Expire(e))
  PROVE  IndInv'
<1>. USE NamesApart, SizesAreNat
     DEF IndInv, TypeOK, PlacesApart, DescriptorsNotShared, Locals, EventToAdd,
         CallbacksPending, EventsHaveTheirTask, StreamsRead, WorkersGetWholeRequests,
         Waiting, InMap, Passed, Held, Keys, BuilderPcs, CallbackPcs, Total, Complete,
         peerVars, clientVars, acceptVars, builderVars, mapVars, eventVars,
         callbackVars, workerVars
<1>1. CASE LoopEnters
  BY <1>1 DEF LoopEnters
<1>2. CASE LoopPolls
  BY <1>2 DEF LoopPolls, Readable
<1>3. ASSUME NEW e \in Clients, Expire(e)
      PROVE  IndInv'
  BY <1>3 DEF Expire, Readable
<1>. QED
  BY <1>1, <1>2, <1>3

(* A worker takes a client from haveData and drops it. *)
LEMMA WorkerInv ==
  ASSUME IndInv, NEW w \in Workers, WorkerLoop(w)
  PROVE  IndInv'
<1>. USE NamesApart, SizesAreNat
     DEF IndInv, TypeOK, PlacesApart, DescriptorsNotShared, Locals, EventToAdd,
         CallbacksPending, EventsHaveTheirTask, StreamsRead, WorkersGetWholeRequests,
         Waiting, InMap, Passed, Held, Keys, BuilderPcs, CallbackPcs, Total, Complete,
         peerVars, clientVars, acceptVars, builderVars, mapVars, eventVars,
         callbackVars, workerVars
<1>1. ASSUME NEW c \in Clients, WorkerTakes(w, c)
      PROVE  IndInv'
  BY <1>1 DEF WorkerTakes
<1>2. CASE WorkerAnswers(w)
  BY <1>2 DEF WorkerAnswers
<1>3. CASE WorkerAborts(w)
  BY <1>3 DEF WorkerAborts
<1>. QED
  BY <1>1, <1>2, <1>3 DEF WorkerLoop

(* Leaving the dispatch, with no callback running or to run. *)
LEMMA LeaveInv ==
  ASSUME IndInv, LoopLeaves
  PROVE  IndInv'
<1>. USE DEF LoopLeaves, peerVars, clientVars, acceptVars, builderVars, mapVars, callbackVars,
             workerVars
<1>1. TypeOK'
  BY DEF IndInv, TypeOK
<1>2. PlacesApart' /\ DescriptorsNotShared' /\ EventToAdd' /\ EventsHaveTheirTask'
  BY DEF IndInv, PlacesApart, DescriptorsNotShared, EventToAdd, EventsHaveTheirTask, Waiting,
         InMap, Passed, Held
<1>3. Locals' /\ CallbacksPending' /\ StreamsRead' /\ WorkersGetWholeRequests'
  BY DEF IndInv, Locals, CallbacksPending, StreamsRead, WorkersGetWholeRequests, Total,
         Complete
<1>. QED
  BY <1>1, <1>2, <1>3 DEF IndInv

(* So does every step. *)
LEMMA NextInv ==
  ASSUME IndInv, [Next]_vars
  PROVE  IndInv'
<1>1. ASSUME NEW c \in Clients, Peer(c)
      PROVE  IndInv'
  BY <1>1, PeerInv
<1>2. ASSUME NEW l \in Listeners, Listener(l)
      PROVE  IndInv'
  BY <1>2, ListenerInv
<1>3. CASE CreateTasks
  BY <1>3, CreateTasksInv
<1>4. CASE Callback
  BY <1>4, CallbackInv
<1>5. CASE LoopEnters \/ LoopPolls \/ LoopLeaves \/ \E e \in Clients : Expire(e)
  BY <1>5, LoopInv, LeaveInv
<1>6. ASSUME NEW w \in Workers, WorkerLoop(w)
      PROVE  IndInv'
  BY <1>6, WorkerInv
<1>7. CASE UNCHANGED vars
  BY <1>7
     DEF vars, peerVars, clientVars, acceptVars, builderVars, mapVars, eventVars,
         callbackVars, workerVars, IndInv, TypeOK, PlacesApart, DescriptorsNotShared, Locals,
         EventToAdd, CallbacksPending, EventsHaveTheirTask, StreamsRead,
         WorkersGetWholeRequests, Waiting, InMap, Passed, Held, Total, Complete
<1>. QED
  BY <1>1, <1>2, <1>3, <1>4, <1>5, <1>6, <1>7 DEF Next, RunLoop

(* Places, descriptors, locals, events and streams agree in every reachable *)
(* state.                                                                   *)
THEOREM Invariance == Spec => []IndInv
<1>1. Init => IndInv
  BY InitInv
<1>2. IndInv /\ [Next]_vars => IndInv'
  BY NextInv
<1>. QED
  BY <1>1, <1>2, PTL DEF Spec

(* Every variable keeps its type. *)
THEOREM TypeCorrect == Spec => []TypeOK
<1>1. IndInv => TypeOK
  BY DEF IndInv
<1>. QED
  BY <1>1, Invariance, PTL

(* An event that can fire finds, under its descriptor, the task of the      *)
(* client it was registered for.                                            *)
THEOREM CallbacksServeTheirClient == Spec => []EventsHaveTheirTask
<1>1. IndInv => EventsHaveTheirTask
  BY DEF IndInv
<1>. QED
  BY <1>1, Invariance, PTL

(* The builder never finds a task under the descriptor of a new client. *)
THEOREM NoTaskIsLost == Spec => []EmplaceInserts
<1>1. IndInv => EmplaceInserts
  <2>. SUFFICES ASSUME IndInv, builderPc = "emplace", fd[newClient] # NoFd,
                       haveNoData[fd[newClient]] # NoClient
                PROVE  FALSE
    BY DEF EmplaceInserts
  <2>. DEFINE old == haveNoData[fd[newClient]]
  <2>1. newClient \in Clients /\ old \in Clients
    BY DEF IndInv, TypeOK, Locals, Keys
  <2>2. fd[newClient] \in Keys /\ fd[old] = fd[newClient]
    BY <2>1 DEF IndInv, TypeOK, PlacesApart
  <2>3. Held(newClient) /\ Held(old)
    BY <2>2 DEF Held
  <2>4. old = newClient
    BY <2>1, <2>2, <2>3 DEF IndInv, DescriptorsNotShared
  <2>5. Waiting(newClient) /\ InMap(newClient)
    BY <2>2, <2>4 DEF Waiting, InMap
  <2>. QED
    BY <2>1, <2>5 DEF IndInv, PlacesApart
<1>. QED
  BY <1>1, Invariance, PTL

(* haveNoDataMutex keeps the builder and the callbacks apart. *)
THEOREM MapIsLocked == Spec => []MapExclusion
<1>1. IndInv => MapExclusion
  BY ServerAssumption DEF IndInv, Locals, MapExclusion
<1>. QED
  BY <1>1, Invariance, PTL

(* The event loop's thread never waits in recv for one client. *)
THEOREM EventLoopNeverWaits == Spec => []RecvNeverBlocks
<1>1. IndInv => RecvNeverBlocks
  BY DEF IndInv, Locals, EventsHaveTheirTask, StreamsRead, RecvNeverBlocks
<1>. QED
  BY <1>1, Invariance, PTL

(* A request reaches the workers whole. *)
THEOREM RequestsAreWhole == Spec => []WorkersGetWholeRequests
<1>1. IndInv => WorkersGetWholeRequests
  BY DEF IndInv
<1>. QED
  BY <1>1, Invariance, PTL

(* A client is served by one worker, once, and by nothing else. *)
THEOREM ClientsAreServedOnce == Spec => []ServedOnce
<1>1. IndInv => ServedOnce
  <2>. SUFFICES ASSUME IndInv, NEW w \in Workers, currentTask[w] # NoClient
                PROVE  /\ currentTask[w] \notin unprocessedClients \cup haveData \cup answered
                       /\ currentTask[w] # moving
                       /\ \A k \in Keys : haveNoData[k] # currentTask[w]
                       /\ \A v \in Workers : currentTask[v] = currentTask[w] => v = w
    BY DEF ServedOnce
  <2>1. currentTask[w] \in Clients /\ Passed(currentTask[w])
    BY DEF IndInv, TypeOK, Passed
  <2>2. ~Waiting(currentTask[w]) /\ ~InMap(currentTask[w])
    BY <2>1 DEF IndInv, PlacesApart
  <2>. QED
    BY <2>2 DEF IndInv, PlacesApart, Waiting, InMap
<1>. QED
  BY <1>1, Invariance, PTL
-----------------------------------------------------------------------------
(* The use of EventSet *)

(* A step that leaves registered, dispatching and the builder alone is a    *)
(* stutter of EventSet.                                                     *)
LEMMA Stutter ==
  ASSUME UNCHANGED <<registered, dispatching, builderPc, newClient>>
  PROVE  UNCHANGED Abstract!vars
BY DEF Abstract!vars

(* The builder requests an event for a client that has none, and registers  *)
(* it when no callback runs.                                                *)
LEMMA CreateTasksUses ==
  ASSUME IndInv, CreateTasks
  PROVE  [Abstract!Next]_(Abstract!vars)
<1>1. CASE BuilderEmplaces
  <2>1. PICK e \in Clients : newClient = e
    BY <1>1 DEF BuilderEmplaces, BuilderGoes, IndInv, TypeOK, Locals
  <2>2. e \notin registered
    BY <1>1, <2>1 DEF BuilderEmplaces, BuilderGoes, IndInv, PlacesApart, Waiting
  <2>3. Abstract!Request(e)
    BY <1>1, <2>1, <2>2 DEF BuilderEmplaces, BuilderGoes, eventVars, Abstract!Request
  <2>. QED
    BY <2>3 DEF Abstract!Next
<1>2. CASE BuilderAddsEvent
  <2>1. PICK e \in Clients : newClient = e
    BY <1>2 DEF BuilderAddsEvent, BuilderGoes, IndInv, TypeOK, Locals
  <2>2. Abstract!Register(e)
    BY <1>2, <2>1 DEF BuilderAddsEvent, BuilderGoes, Abstract!Register
  <2>. QED
    BY <2>2 DEF Abstract!Next
<1>3. CASE \/ \E c \in Clients : BuilderDequeues(c)
           \/ BuilderLocks \/ BuilderDrops
  BY <1>3 DEF BuilderDequeues, BuilderLocks, BuilderDrops, BuilderGoes, eventVars, Abstract!vars
<1>. QED
  BY <1>1, <1>2, <1>3 DEF CreateTasks

(* Callbacks free their own event, inside the dispatch. *)
LEMMA CallbackUses ==
  ASSUME IndInv, Callback
  PROVE  [Abstract!Next]_(Abstract!vars)
<1>1. CASE MoveFrees \/ RemoveFrees
  <2>1. PICK e \in Clients : callbackEvent = e
    BY <1>1 DEF MoveFrees, RemoveFrees, CallbackFrees, CallbackGoes, IndInv, TypeOK, Locals
  <2>2. e \in registered /\ dispatching
    BY <1>1, <2>1
       DEF MoveFrees, RemoveFrees, CallbackFrees, CallbackGoes, IndInv, CallbacksPending
  <2>3. Abstract!CallbackFrees(e)
    BY <1>1, <2>1, <2>2
       DEF MoveFrees, RemoveFrees, CallbackFrees, builderVars, Abstract!CallbackFrees
  <2>. QED
    BY <2>3 DEF Abstract!Next
<1>2. CASE Receive
  BY <1>2, Stutter
     DEF Receive, ReceiveFails, ReceivesPartOfHeader, ReceivesBadHeader, ReceivesBody,
         RecvBodyAsync, KeepsEvent, eventVars, builderVars
<1>3. CASE \/ \E e \in Clients : CallbackStarts(e)
           \/ ReceiveLocks \/ ReceiveFinds \/ MoveLocks \/ MoveTakes \/ MoveEnqueues
           \/ RemoveLocks \/ RemoveErases
  BY <1>3, Stutter
     DEF CallbackStarts, ReceiveLocks, ReceiveFinds, MoveLocks, MoveTakes, MoveEnqueues,
         RemoveLocks, RemoveErases, CallbackLocks, eventVars, builderVars
<1>. QED
  BY <1>1, <1>2, <1>3 DEF Callback

(* The server's threads use the event loop as EventSet allows. *)
THEOREM EventLoopIsUsedSafely == Spec => UsesEventSet
<1>1. Init => Abstract!Init
  BY DEF Init, Abstract!Init
<1>2. IndInv /\ [Next]_vars => [Abstract!Next]_(Abstract!vars)
  <2>. SUFFICES ASSUME IndInv, [Next]_vars
                PROVE  [Abstract!Next]_(Abstract!vars)
    OBVIOUS
  <2>1. CASE \/ \E c \in Clients : Peer(c) \/ Expire(c)
             \/ \E l \in Listeners : Listener(l)
             \/ \E w \in Workers : WorkerLoop(w)
             \/ LoopPolls
    BY <2>1, Stutter
       DEF Peer, PeerSends, PeerHangsUp, Expire, Listener, Accept, ListenerEnqueues,
           WorkerLoop, WorkerTakes, WorkerAnswers, WorkerAborts, LoopPolls,
           eventVars, builderVars
  <2>2. CASE CreateTasks
    BY <2>2, CreateTasksUses
  <2>3. CASE Callback
    BY <2>3, CallbackUses
  <2>4. CASE LoopEnters
    <3>1. Abstract!StartDispatch
      BY <2>4 DEF LoopEnters, builderVars, Abstract!StartDispatch
    <3>. QED
      BY <3>1 DEF Abstract!Next
  <2>5. CASE LoopLeaves
    <3>1. Abstract!EndDispatch
      BY <2>5 DEF LoopLeaves, builderVars, Abstract!EndDispatch
    <3>. QED
      BY <3>1 DEF Abstract!Next
  <2>6. CASE UNCHANGED vars
    BY <2>6, Stutter DEF vars, eventVars, builderVars
  <2>. QED
    BY <2>1, <2>2, <2>3, <2>4, <2>5, <2>6 DEF Next, RunLoop
<1>. QED
  BY <1>1, <1>2, Invariance, PTL DEF Spec, UsesEventSet, Abstract!SafeSpec
=============================================================================
