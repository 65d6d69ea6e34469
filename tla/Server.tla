------------------------------- MODULE Server -------------------------------
(***************************************************************************)
(* The running server, from accept to the answer: listeners hand clients   *)
(* to the TaskBuilder, which stores them in haveNoData and registers an    *)
(* event for their descriptor; the event loop's callbacks (TasksController)*)
(* read the request and move the client to haveData, or drop it on an      *)
(* error or a timeout; workers answer and close.                           *)
(*                                                                         *)
(* A client is one HTTPClient that a listener created.  Its socket is a    *)
(* shared_ptr: the descriptor stays open while some thread or container    *)
(* holds the client, and its number is reused afterwards.                  *)
(*                                                                         *)
(* The event loop is used by the steps of EventSet, which EventLoop        *)
(* implements.  The queues are ConcurrentQueues: they keep no order        *)
(* between producers, and are sets here.                                   *)
(***************************************************************************)
EXTENDS Integers, FiniteSets

CONSTANTS
  Clients,      \* every connection that will ever be made, each accepted once
  NoClient,
  Fds,          \* the descriptor numbers the kernel can return for connections
  NoFd,         \* HTTPClient::GetSd() of a client whose accept failed: -1
  Listeners,    \* one thread per port
  Workers,
  Builder,      \* the TaskBuilder's thread
  Loop,         \* the event loop's thread
  NoThread,
  Requests,     \* what clients may send: sizes in units, and what becomes of it
  Readers,      \* clients that read their response; ::send to others may not return
  Chunk         \* units one recvVector() takes at most: its buf[256]

Outcomes == {"answered", "malformed", "aborts"}

(* A request has its sizes in units, the places of the NULs in its body (a  *)
(* NUL before the end of the header is left out), and what becomes of it.   *)
ASSUME ServerAssumption ==
  /\ NoClient \notin Clients
  /\ NoFd \notin Fds
  /\ Builder # Loop
  /\ NoThread \notin {Builder, Loop}
  /\ Requests \subseteq [header : Nat \ {0, 1}, body : Nat, nuls : SUBSET Nat, outcome : Outcomes]
  /\ \A r \in Requests : \A n \in r.nuls : n > r.header
  /\ Chunk \in Nat \ {0}
  /\ Readers \subseteq Clients

VARIABLES
  request,              \* what each client sends
  arrived,              \* clients whose accept has returned
  fd,                   \* HTTPClient::GetSd() of each arrived client
  sent,                 \* units of it that reached the server's kernel
  hungUp,               \* clients that closed or shut down their side
  received,             \* units recv took
  stale,                \* characters of HTTPClient::body that are not of the body
  receivedHeader,       \* clients with HTTPClient::receivedHeader
  accepted,             \* `client` in each Listener::Loop
  unprocessedClients,
  builderPc,
  newClient,            \* `newClient` in CreateTasks
  haveNoData,           \* the map from descriptors to tasks
  haveNoDataMutex,
  registered,           \* events, each named by the client AddEvent was called for
  expired,              \* events whose timer ran out, not polled yet
  dispatching,          \* the loop thread is in event_base_loop
  active,               \* events this pass still has to run
  timedOut,             \* those of them that carry EV_TIMEOUT
  callbackPc,
  callbackEvent,        \* `ev` of the callback that runs
  input,                \* the reference ReceiveInput takes
  moving,               \* `task` in MoveTask(sd)
  haveData,
  currentTask,          \* Worker::currentTask while its socket is open
  answered,             \* clients a response was sent to
  aborted               \* std::terminate was called

peerVars == <<request, sent, hungUp>>
clientVars == <<received, stale, receivedHeader>>
acceptVars == <<arrived, fd, accepted>>
builderVars == <<builderPc, newClient>>
mapVars == <<haveNoData, haveNoDataMutex>>
eventVars == <<registered, expired, dispatching, active, timedOut>>
callbackVars == <<callbackPc, callbackEvent, input, moving>>
workerVars == <<currentTask, answered, aborted>>
vars == <<peerVars, clientVars, acceptVars, unprocessedClients, builderVars, mapVars,
          eventVars, callbackVars, haveData, workerVars>>

Keys == Fds \cup {NoFd}
BuilderPcs == {"dequeue", "lock", "emplace", "addEvent", "drop"}
CallbackPcs == {"idle", "lockFind", "find", "receive",
                "freeMove", "lockMove", "move", "enqueue",
                "freeRemove", "lockRemove", "remove"}

TypeOK ==
  /\ request \in [Clients -> Requests]
  /\ arrived \in SUBSET Clients
  /\ fd \in [Clients -> Keys]
  /\ sent \in [Clients -> Nat]
  /\ hungUp \in SUBSET Clients
  /\ received \in [Clients -> Nat]
  /\ stale \in [Clients -> Nat]
  /\ receivedHeader \in SUBSET Clients
  /\ accepted \in [Listeners -> Clients \cup {NoClient}]
  /\ unprocessedClients \in SUBSET Clients
  /\ builderPc \in BuilderPcs
  /\ newClient \in Clients \cup {NoClient}
  /\ haveNoData \in [Keys -> Clients \cup {NoClient}]
  /\ haveNoDataMutex \in {Builder, Loop, NoThread}
  /\ registered \in SUBSET Clients
  /\ expired \in SUBSET Clients
  /\ dispatching \in BOOLEAN
  /\ active \in SUBSET Clients
  /\ timedOut \in SUBSET Clients
  /\ callbackPc \in CallbackPcs
  /\ callbackEvent \in Clients \cup {NoClient}
  /\ input \in Clients \cup {NoClient}
  /\ moving \in Clients \cup {NoClient}
  /\ haveData \in SUBSET Clients
  /\ currentTask \in [Workers -> Clients \cup {NoClient}]
  /\ answered \in SUBSET Clients
  /\ aborted \in BOOLEAN

(* Master::Start has started every thread. *)
Init ==
  /\ request \in [Clients -> Requests]
  /\ arrived = {}
  /\ fd = [c \in Clients |-> NoFd]
  /\ sent = [c \in Clients |-> 0]
  /\ hungUp = {}
  /\ received = [c \in Clients |-> 0]
  /\ stale = [c \in Clients |-> 0]
  /\ receivedHeader = {}
  /\ accepted = [l \in Listeners |-> NoClient]
  /\ unprocessedClients = {}
  /\ builderPc = "dequeue"
  /\ newClient = NoClient
  /\ haveNoData = [k \in Keys |-> NoClient]
  /\ haveNoDataMutex = NoThread
  /\ registered = {}
  /\ expired = {}
  /\ dispatching = FALSE
  /\ active = {}
  /\ timedOut = {}
  /\ callbackPc = "idle"
  /\ callbackEvent = NoClient
  /\ input = NoClient
  /\ moving = NoClient
  /\ haveData = {}
  /\ currentTask = [w \in Workers |-> NoClient]
  /\ answered = {}
  /\ aborted = FALSE

-----------------------------------------------------------------------------
(* The places that share a client's socket, and so keep its descriptor open. *)
Held(c) ==
  \/ \E l \in Listeners : accepted[l] = c
  \/ c \in unprocessedClients
  \/ c = newClient
  \/ \E k \in Keys : haveNoData[k] = c
  \/ c = moving
  \/ c \in haveData
  \/ \E w \in Workers : currentTask[w] = c

Total(c) == request[c].header + request[c].body

(* epoll reports a descriptor, whichever client has it open. *)
Readable(e) ==
  \E c \in arrived :
    /\ Held(c)
    /\ fd[c] = fd[e]
    /\ fd[c] # NoFd
    /\ c \in hungUp \/ sent[c] > received[c]

PeerSends(c) ==
  /\ Held(c)
  /\ fd[c] # NoFd
  /\ c \notin hungUp
  /\ sent[c] < Total(c)
  /\ sent' = [sent EXCEPT ![c] = @ + 1]
  /\ UNCHANGED <<request, hungUp, clientVars, acceptVars, unprocessedClients, builderVars, mapVars,
                 eventVars, callbackVars, haveData, workerVars>>

PeerHangsUp(c) ==
  /\ Held(c)
  /\ fd[c] # NoFd
  /\ c \notin hungUp
  /\ hungUp' = hungUp \cup {c}
  /\ UNCHANGED <<request, sent, clientVars, acceptVars, unprocessedClients, builderVars, mapVars,
                 eventVars, callbackVars, haveData, workerVars>>

-----------------------------------------------------------------------------
(* Listener::Loop *)

(* accept returns a descriptor that is not open, or fails: the client then  *)
(* has no socket and goes through the same queue.                           *)
Accept(l, c, f) ==
  /\ accepted[l] = NoClient
  /\ c \notin arrived
  /\ \A d \in Clients : Held(d) /\ fd[d] = f => f = NoFd
  /\ arrived' = arrived \cup {c}
  /\ fd' = [fd EXCEPT ![c] = f]
  /\ accepted' = [accepted EXCEPT ![l] = c]
  /\ UNCHANGED <<peerVars, clientVars, unprocessedClients, builderVars, mapVars,
                 eventVars, callbackVars, haveData, workerVars>>

(* Mutant: the listener keeps the client it has enqueued. *)
ListenerEnqueuesCopy(l) ==
  /\ accepted[l] # NoClient
  /\ unprocessedClients' = unprocessedClients \cup {accepted[l]}
  /\ UNCHANGED <<peerVars, clientVars, arrived, fd, accepted, builderVars, mapVars,
                 eventVars, callbackVars, haveData, workerVars>>

ListenerEnqueues(l) ==
  /\ accepted[l] # NoClient
  /\ unprocessedClients' = unprocessedClients \cup {accepted[l]}
  /\ accepted' = [accepted EXCEPT ![l] = NoClient]
  /\ UNCHANGED <<peerVars, clientVars, arrived, fd, builderVars, mapVars,
                 eventVars, callbackVars, haveData, workerVars>>

-----------------------------------------------------------------------------
(* TaskBuilder::CreateTasks *)

BuilderGoes(from, to) ==
  /\ builderPc = from
  /\ builderPc' = to

BuilderDequeues(c) ==
  /\ BuilderGoes("dequeue", "lock")
  /\ c \in unprocessedClients
  /\ unprocessedClients' = unprocessedClients \ {c}
  /\ newClient' = c
  /\ UNCHANGED <<peerVars, clientVars, acceptVars, mapVars, eventVars, callbackVars,
                 haveData, workerVars>>

BuilderLocks ==
  /\ BuilderGoes("lock", "emplace")
  /\ haveNoDataMutex = NoThread
  /\ haveNoDataMutex' = Builder
  /\ UNCHANGED <<peerVars, clientVars, acceptVars, unprocessedClients, newClient, haveNoData,
                 eventVars, callbackVars, haveData, workerVars>>

(* emplace leaves a task that is there alone. *)
BuilderEmplaces ==
  /\ BuilderGoes("emplace", "addEvent")
  /\ haveNoData' = [haveNoData EXCEPT ![fd[newClient]] = IF @ = NoClient THEN newClient ELSE @]
  /\ haveNoDataMutex' = NoThread
  /\ UNCHANGED <<peerVars, clientVars, acceptVars, unprocessedClients, newClient,
                 eventVars, callbackVars, haveData, workerVars>>

(* Mutant: event_add while callbacks may run. *)
BuilderAddsEventAnytime ==
  /\ BuilderGoes("addEvent", "drop")
  /\ registered' = registered \cup {newClient}
  /\ UNCHANGED <<peerVars, clientVars, acceptVars, unprocessedClients, newClient, mapVars,
                 expired, dispatching, active, timedOut, callbackVars, haveData, workerVars>>

BuilderAddsEvent ==
  /\ BuilderGoes("addEvent", "drop")
  /\ ~dispatching
  /\ registered' = registered \cup {newClient}
  /\ UNCHANGED <<peerVars, clientVars, acceptVars, unprocessedClients, newClient, mapVars,
                 expired, dispatching, active, timedOut, callbackVars, haveData, workerVars>>

(* The end of the iteration destroys newClient. *)
BuilderDrops ==
  /\ BuilderGoes("drop", "dequeue")
  /\ newClient' = NoClient
  /\ UNCHANGED <<peerVars, clientVars, acceptVars, unprocessedClients, mapVars,
                 eventVars, callbackVars, haveData, workerVars>>

-----------------------------------------------------------------------------
(* The event loop (EventLoop.hpp, libevent) *)

LoopEnters ==
  /\ ~dispatching
  /\ dispatching' = TRUE
  /\ UNCHANGED <<peerVars, clientVars, acceptVars, unprocessedClients, builderVars, mapVars,
                 registered, expired, active, timedOut, callbackVars, haveData, workerVars>>

(* 120 seconds without an activation.  A readable descriptor activates its  *)
(* event at each pass, which re-arms the timer.                             *)
Expire(e) ==
  /\ e \in registered \ (expired \cup active)
  /\ e # callbackEvent
  /\ ~Readable(e)
  /\ expired' = expired \cup {e}
  /\ UNCHANGED <<peerVars, clientVars, acceptVars, unprocessedClients, builderVars, mapVars,
                 registered, dispatching, active, timedOut, callbackVars, haveData, workerVars>>

(* The back end waits until an event is readable or expired. *)
LoopPolls ==
  /\ dispatching
  /\ callbackPc = "idle"
  /\ active = {}
  /\ active' = {e \in registered : Readable(e)} \cup expired
  /\ active' # {}
  /\ timedOut' = expired
  /\ expired' = {}
  /\ UNCHANGED <<peerVars, clientVars, acceptVars, unprocessedClients, builderVars, mapVars,
                 registered, dispatching, callbackVars, haveData, workerVars>>

LoopLeaves ==
  /\ dispatching
  /\ callbackPc = "idle"
  /\ active = {}
  /\ dispatching' = FALSE
  /\ UNCHANGED <<peerVars, clientVars, acceptVars, unprocessedClients, builderVars, mapVars,
                 registered, expired, active, timedOut, callbackVars, haveData, workerVars>>
-----------------------------------------------------------------------------
(* TasksController: the callbacks *)

CallbackGoes(from, to) ==
  /\ callbackPc = from
  /\ callbackPc' = to

CallbackLocks(from, to) ==
  /\ CallbackGoes(from, to)
  /\ haveNoDataMutex = NoThread
  /\ haveNoDataMutex' = Loop
  /\ UNCHANGED <<peerVars, clientVars, acceptVars, unprocessedClients, builderVars, haveNoData,
                 eventVars, callbackEvent, input, moving, haveData, workerVars>>

(* Mutant: MoveTask does not look at EV_TIMEOUT. *)
CallbackIgnoresTimeout(e) ==
  /\ e \in active
  /\ CallbackGoes("idle", "lockFind")
  /\ active' = active \ {e}
  /\ timedOut' = timedOut \ {e}
  /\ callbackEvent' = e
  /\ UNCHANGED <<peerVars, clientVars, acceptVars, unprocessedClients, builderVars, mapVars,
                 registered, expired, dispatching, input, moving, haveData, workerVars>>

(* libevent re-arms the timer and calls MoveTaskWrapper: EV_TIMEOUT drops   *)
(* the task even when data came too.                                        *)
CallbackStarts(e) ==
  /\ e \in active
  /\ \/ e \in timedOut /\ CallbackGoes("idle", "freeRemove")
     \/ e \notin timedOut /\ CallbackGoes("idle", "lockFind")
  /\ active' = active \ {e}
  /\ timedOut' = timedOut \ {e}
  /\ callbackEvent' = e
  /\ UNCHANGED <<peerVars, clientVars, acceptVars, unprocessedClients, builderVars, mapVars,
                 registered, expired, dispatching, input, moving, haveData, workerVars>>

ReceiveLocks == CallbackLocks("lockFind", "find")

(* haveNoData.at(sd) of ReceiveInput. *)
ReceiveFinds ==
  /\ CallbackGoes("find", "receive")
  /\ haveNoData[fd[callbackEvent]] # NoClient
  /\ input' = haveNoData[fd[callbackEvent]]
  /\ haveNoDataMutex' = NoThread
  /\ UNCHANGED <<peerVars, clientVars, acceptVars, unprocessedClients, builderVars, haveNoData,
                 eventVars, callbackEvent, moving, haveData, workerVars>>

(* The callback returns false: the event stays. *)
KeepsEvent ==
  /\ CallbackGoes("receive", "idle")
  /\ callbackEvent' = NoClient

(* The end of the chunk that recvVector() takes. *)
ChunkEnd(c) ==
  IF sent[c] - received[c] > Chunk THEN received[c] + Chunk ELSE sent[c]

(* RecvHeaderAsync looks for the end of the header, the header's last two   *)
(* units, in the chunk it has just received and not across two chunks.      *)
FindsHeader(c) ==
  /\ received[c] + 2 <= request[c].header
  /\ request[c].header <= ChunkEnd(c)

(* What RecvHeaderAsync keeps in front of the new `body`: only a NUL in the *)
(* chunk makes it append what `body` was before.                            *)
Keeps(c) ==
  IF \E n \in request[c].nuls : received[c] < n /\ n <= ChunkEnd(c) THEN stale[c] ELSE 0

(* recv returns 0: RecvHeaderAsync throws. *)
ReceiveFails ==
  /\ CallbackGoes("receive", "freeRemove")
  /\ input \notin receivedHeader
  /\ sent[input] = received[input]
  /\ input \in hungUp
  /\ input' = NoClient
  /\ UNCHANGED <<peerVars, clientVars, acceptVars, unprocessedClients, builderVars, mapVars,
                 eventVars, callbackEvent, moving, haveData, workerVars>>

(* Without the mark `body` becomes the chunk, and one character: the copy   *)
(* starts at begin() + npos.                                                *)
ReceivesPartOfHeader ==
  /\ KeepsEvent
  /\ input \notin receivedHeader
  /\ sent[input] > received[input]
  /\ ~FindsHeader(input)
  /\ received' = [received EXCEPT ![input] = ChunkEnd(input)]
  /\ stale' = [stale EXCEPT ![input] = 1 + ChunkEnd(input) - received[input] + Keeps(input)]
  /\ input' = NoClient
  /\ UNCHANGED <<peerVars, receivedHeader, acceptVars, unprocessedClients, builderVars, mapVars,
                 eventVars, moving, haveData, workerVars>>

(* HttpRequest cannot parse the header and throws. *)
ReceivesBadHeader ==
  /\ CallbackGoes("receive", "freeRemove")
  /\ input \notin receivedHeader
  /\ FindsHeader(input)
  /\ request[input].outcome = "malformed"
  /\ received' = [received EXCEPT ![input] = ChunkEnd(input)]
  /\ stale' = [stale EXCEPT ![input] = Keeps(input)]
  /\ receivedHeader' = receivedHeader \cup {input}
  /\ input' = NoClient
  /\ UNCHANGED <<peerVars, acceptVars, unprocessedClients, builderVars, mapVars,
                 eventVars, callbackEvent, moving, haveData, workerVars>>

(* Mutant: RecvBodyAsync returns true whatever it received. *)
BodyIsThere(c, place, had) ==
  /\ received' = [received EXCEPT ![c] = sent[c]]
  /\ CallbackGoes("receive", "freeMove")
  /\ UNCHANGED callbackEvent

(* RecvBodyAsync, with the units up to `place` received and `had` stale     *)
(* characters in `body`, takes what has come of the rest.  At the end of    *)
(* the stream that is nothing, and no error.                                *)
RecvBodyAsync(c, place, had) ==
  LET missing == Total(c) - place - had
  IN  \/ /\ missing <= sent[c] - place
         /\ received' = [received EXCEPT ![c] = IF missing > 0 THEN place + missing ELSE place]
         /\ CallbackGoes("receive", "freeMove")
         /\ UNCHANGED callbackEvent
      \/ /\ missing > sent[c] - place
         /\ received' = [received EXCEPT ![c] = sent[c]]
         /\ KeepsEvent

(* The header is there, from this chunk or an earlier callback. *)
ReceivesBody ==
  /\ callbackPc = "receive"
  /\ \/ /\ input \in receivedHeader
        /\ RecvBodyAsync(input, received[input], stale[input])
        /\ UNCHANGED <<stale, receivedHeader>>
     \/ /\ input \notin receivedHeader
        /\ FindsHeader(input)
        /\ request[input].outcome # "malformed"
        /\ stale' = [stale EXCEPT ![input] = Keeps(input)]
        /\ RecvBodyAsync(input, ChunkEnd(input), Keeps(input))
        /\ receivedHeader' = receivedHeader \cup {input}
  /\ input' = NoClient
  /\ UNCHANGED <<peerVars, acceptVars, unprocessedClients, builderVars, mapVars,
                 eventVars, moving, haveData, workerVars>>

Receive ==
  \/ ReceiveFails
  \/ ReceivesPartOfHeader
  \/ ReceivesBadHeader
  \/ ReceivesBody

(* FreeEvent, before the task leaves haveNoData. *)
CallbackFrees(from, to) ==
  /\ CallbackGoes(from, to)
  /\ registered' = registered \ {callbackEvent}
  /\ UNCHANGED <<peerVars, clientVars, acceptVars, unprocessedClients, builderVars, mapVars,
                 expired, dispatching, active, timedOut, callbackEvent, input, moving,
                 haveData, workerVars>>

(* Mutant: MoveTask forgets FreeEvent. *)
MoveForgetsEvent ==
  /\ CallbackGoes("freeMove", "lockMove")
  /\ UNCHANGED <<peerVars, clientVars, acceptVars, unprocessedClients, builderVars, mapVars,
                 eventVars, callbackEvent, input, moving, haveData, workerVars>>

MoveFrees == CallbackFrees("freeMove", "lockMove")

MoveLocks == CallbackLocks("lockMove", "move")

(* Mutant: MoveTask(sd) does not erase the task. *)
MoveCopies ==
  /\ CallbackGoes("move", "enqueue")
  /\ haveNoData[fd[callbackEvent]] # NoClient
  /\ moving' = haveNoData[fd[callbackEvent]]
  /\ haveNoDataMutex' = NoThread
  /\ UNCHANGED <<peerVars, clientVars, acceptVars, unprocessedClients, builderVars, haveNoData,
                 eventVars, callbackEvent, input, haveData, workerVars>>

(* haveNoData.at(sd), moved from, and erase. *)
MoveTakes ==
  /\ CallbackGoes("move", "enqueue")
  /\ haveNoData[fd[callbackEvent]] # NoClient
  /\ moving' = haveNoData[fd[callbackEvent]]
  /\ haveNoData' = [haveNoData EXCEPT ![fd[callbackEvent]] = NoClient]
  /\ haveNoDataMutex' = NoThread
  /\ UNCHANGED <<peerVars, clientVars, acceptVars, unprocessedClients, builderVars,
                 eventVars, callbackEvent, input, haveData, workerVars>>

MoveEnqueues ==
  /\ CallbackGoes("enqueue", "idle")
  /\ haveData' = haveData \cup {moving}
  /\ moving' = NoClient
  /\ callbackEvent' = NoClient
  /\ UNCHANGED <<peerVars, clientVars, acceptVars, unprocessedClients, builderVars, mapVars,
                 eventVars, input, workerVars>>

RemoveFrees == CallbackFrees("freeRemove", "lockRemove")

RemoveLocks == CallbackLocks("lockRemove", "remove")

(* Mutant: TimeoutTaskRemove leaves the task in the map. *)
RemoveDoesNotErase ==
  /\ CallbackGoes("remove", "idle")
  /\ haveNoDataMutex' = NoThread
  /\ callbackEvent' = NoClient
  /\ UNCHANGED <<peerVars, clientVars, acceptVars, unprocessedClients, builderVars, haveNoData,
                 eventVars, input, moving, haveData, workerVars>>

(* TimeoutTaskRemove: erase destroys the task, if there is one. *)
RemoveErases ==
  /\ CallbackGoes("remove", "idle")
  /\ haveNoData' = [haveNoData EXCEPT ![fd[callbackEvent]] = NoClient]
  /\ haveNoDataMutex' = NoThread
  /\ callbackEvent' = NoClient
  /\ UNCHANGED <<peerVars, clientVars, acceptVars, unprocessedClients, builderVars,
                 eventVars, input, moving, haveData, workerVars>>

-----------------------------------------------------------------------------
(* Worker::Loop *)

WorkerTakes(w, c) ==
  /\ currentTask[w] = NoClient
  /\ c \in haveData
  /\ haveData' = haveData \ {c}
  /\ currentTask' = [currentTask EXCEPT ![w] = c]
  /\ UNCHANGED <<peerVars, clientVars, acceptVars, unprocessedClients, builderVars, mapVars,
                 eventVars, callbackVars, answered, aborted>>

(* PreProcess, MainProcessBasic and PostProcess, whose Send closes the      *)
(* socket whether the response could be sent or not, when ::send returns.   *)
WorkerAnswers(w) ==
  /\ currentTask[w] # NoClient
  /\ request[currentTask[w]].outcome = "answered"
  /\ answered' = answered \cup {currentTask[w]}
  /\ currentTask' = [currentTask EXCEPT ![w] = NoClient]
  /\ UNCHANGED <<peerVars, clientVars, acceptVars, unprocessedClients, builderVars, mapVars,
                 eventVars, callbackVars, haveData, aborted>>

(* HttpResponse throws, nothing in Worker::Loop catches it: std::terminate. *)
WorkerAborts(w) ==
  /\ currentTask[w] # NoClient
  /\ request[currentTask[w]].outcome = "aborts"
  /\ aborted' = TRUE
  /\ UNCHANGED <<peerVars, clientVars, acceptVars, unprocessedClients, builderVars, mapVars,
                 eventVars, callbackVars, haveData, currentTask, answered>>

-----------------------------------------------------------------------------
Peer(c) == PeerSends(c) \/ PeerHangsUp(c)

Listener(l) ==
  \/ \E c \in Clients, f \in Keys : Accept(l, c, f)
  \/ ListenerEnqueues(l)

CreateTasks ==
  \/ \E c \in Clients : BuilderDequeues(c)
  \/ BuilderLocks
  \/ BuilderEmplaces
  \/ BuilderAddsEvent
  \/ BuilderDrops

Callback ==
  \/ \E e \in Clients : CallbackStarts(e)
  \/ ReceiveLocks
  \/ ReceiveFinds
  \/ Receive
  \/ MoveFrees
  \/ MoveLocks
  \/ MoveTakes
  \/ MoveEnqueues
  \/ RemoveFrees
  \/ RemoveLocks
  \/ RemoveErases

RunLoop == LoopEnters \/ LoopPolls \/ Callback

WorkerLoop(w) ==
  \/ \E c \in Clients : WorkerTakes(w, c)
  \/ WorkerAnswers(w)
  \/ WorkerAborts(w)

Next ==
  /\ ~aborted
  /\ \/ \E c \in Clients : Peer(c) \/ Expire(c)
     \/ \E l \in Listeners : Listener(l)
     \/ CreateTasks
     \/ RunLoop
     \/ LoopLeaves
     \/ \E w \in Workers : WorkerLoop(w)

Spec == Init /\ [][Next]_vars

(* The worker sends to a client that does not read. *)
Writing(w) ==
  /\ currentTask[w] # NoClient
  /\ request[currentTask[w]].outcome = "answered"
  /\ currentTask[w] \notin Readers

(* Threads that can run do run; a thread waiting for haveNoDataMutex gets   *)
(* it when it is freed again and again; AddEvent and the callbacks of due   *)
(* events are not starved (EventLoop's AddEventReturns and DueIsServed);    *)
(* timers run out.  No peer has to send or hang up, and the sockets block:  *)
(* ::send returns in the end only when the client reads.                    *)
Fairness ==
  /\ \A l \in Listeners : WF_vars(~aborted /\ ListenerEnqueues(l))
  /\ WF_vars(~aborted /\ CreateTasks)
  /\ SF_vars(~aborted /\ BuilderLocks)
  /\ SF_vars(~aborted /\ BuilderAddsEvent)
  /\ SF_vars(~aborted /\ builderPc = "addEvent" /\ LoopLeaves)
  /\ WF_vars(~aborted /\ RunLoop)
  /\ SF_vars(~aborted /\ LoopPolls)
  /\ SF_vars(~aborted /\ (ReceiveLocks \/ MoveLocks \/ RemoveLocks))
  /\ \A c \in Clients : WF_vars(~aborted /\ Expire(c))
  /\ \A w \in Workers : WF_vars(~aborted /\ ~Writing(w) /\ WorkerLoop(w))

FairSpec == Spec /\ Fairness
-----------------------------------------------------------------------------
(* The callback finds the task it was registered for: as long as an event   *)
(* can fire, its descriptor is open, belongs to the client that AddEvent    *)
(* was called for, and is that client's key in haveNoData.  So at(sd) in    *)
(* ReceiveInput and MoveTask never throws with the mutex locked, no         *)
(* callback serves another client that got the same descriptor number, and  *)
(* the reference ReceiveInput keeps after unlocking stays in the map.       *)
EventsHaveTheirTask ==
  /\ \A e \in registered : fd[e] # NoFd => haveNoData[fd[e]] = e
  /\ callbackPc \notin {"idle", "enqueue"} /\ fd[callbackEvent] # NoFd =>
       haveNoData[fd[callbackEvent]] = callbackEvent
  /\ input # NoClient => input = callbackEvent /\ fd[input] # NoFd

(* emplace always inserts: a new client never finds a task, its own or an   *)
(* old one's, under its descriptor, which would leave it unserved.          *)
EmplaceInserts ==
  builderPc = "emplace" /\ fd[newClient] # NoFd => haveNoData[fd[newClient]] = NoClient

(* Builder and callbacks are never in haveNoData at the same time.          *)
MapExclusion ==
  ~ /\ builderPc = "emplace"
    /\ callbackPc \in {"find", "move", "remove"}

(* The sockets are blocking: the event loop's thread would stop serving     *)
(* everyone in a recv with nothing to take.  A callback that has yet to     *)
(* read the header always finds data or the end of the stream.              *)
RecvNeverBlocks ==
  input # NoClient /\ input \notin receivedHeader =>
    input \in hungUp \/ sent[input] > received[input]

(* All of the request was received.  RecvBodyAsync is content with less     *)
(* when the header came in parts and the chunk with its end has a NUL: then *)
(* RecvHeaderAsync leaves the parts in `body` and they count.               *)
Complete(c) ==
  /\ c \in receivedHeader
  /\ received[c] = Total(c) \/ (stale[c] > 0 /\ request[c].nuls # {})

(* A worker gets a request when all of it has come, but for the clients     *)
(* whose `body` has parts of the header.                                    *)
WorkersGetWholeRequests ==
  \A c \in haveData \cup ({currentTask[w] : w \in Workers} \ {NoClient}) : Complete(c)

(* A client is served by one worker, once, and is nowhere else then: no     *)
(* callback can read from a socket a worker writes to.                      *)
ServedOnce ==
  \A w \in Workers : currentTask[w] # NoClient =>
    /\ currentTask[w] \notin unprocessedClients \cup haveData \cup answered
    /\ currentTask[w] # moving
    /\ \A k \in Keys : haveNoData[k] # currentTask[w]
    /\ \A v \in Workers : currentTask[v] = currentTask[w] => v = w

(* The client hung up inside its body: its event is readable for ever and   *)
(* its callback neither fails nor ends.                                     *)
HungUpInBody(c) ==
  /\ c \in hungUp \cap receivedHeader
  /\ sent[c] < Total(c)

(* Every client is answered, fails or times out in the end, and its         *)
(* descriptor is closed; but for those that hang up inside their body or do *)
(* not read their response.  Those that do not read must leave a worker to  *)
(* the others again and again.                                              *)
ClientsLeave ==
  ([]<>(\E w \in Workers : ~Writing(w))) =>
    \A c \in Clients : Held(c) ~>
      \/ ~Held(c)
      \/ HungUpInBody(c)
      \/ \E w \in Workers : currentTask[w] = c /\ Writing(w)
      \/ aborted

(* The events are used as EventSet allows. *)
Abstract == INSTANCE EventSet WITH
  Events <- Clients,
  requested <- IF builderPc = "addEvent" THEN {newClient} ELSE {}

UsesEventSet == Abstract!SafeSpec

-----------------------------------------------------------------------------
(* The invariant ServerProofs shows to be inductive.  A client moves from   *)
(* Waiting through the map to Passed, and is in one of the three at a time. *)
Waiting(c) ==
  \/ \E l \in Listeners : accepted[l] = c
  \/ c \in unprocessedClients
  \/ c = newClient /\ builderPc \in {"lock", "emplace"}

InMap(c) == \E k \in Keys : haveNoData[k] = c

Passed(c) ==
  \/ c = moving
  \/ c \in haveData
  \/ \E w \in Workers : currentTask[w] = c
  \/ c \in answered

(* Each place holds a client of its own. *)
PlacesApart ==
  /\ \A l \in Listeners : accepted[l] # NoClient =>
       /\ accepted[l] # newClient
       /\ accepted[l] \notin unprocessedClients
       /\ \A m \in Listeners : accepted[m] = accepted[l] => m = l
  /\ newClient \notin unprocessedClients
  /\ moving \notin haveData \cup answered
  /\ haveData \cap answered = {}
  /\ \A w \in Workers : currentTask[w] # NoClient =>
       /\ currentTask[w] # moving
       /\ currentTask[w] \notin haveData \cup answered
       /\ \A v \in Workers : currentTask[v] = currentTask[w] => v = w
  /\ \A k \in Keys : haveNoData[k] # NoClient => fd[haveNoData[k]] = k
  /\ \A c \in Clients :
       /\ Waiting(c) => ~InMap(c) /\ ~Passed(c) /\ c \notin registered /\ c # callbackEvent
       /\ InMap(c) => ~Passed(c)
       /\ Held(c) \/ c \in registered \/ c = callbackEvent \/ c \in answered => c \in arrived

(* A client that holds a descriptor holds it alone. *)
DescriptorsNotShared ==
  \A c, d \in Clients : Held(c) /\ Held(d) /\ fd[c] = fd[d] /\ fd[c] # NoFd => c = d

(* Where a thread is, and what its local variables hold there. *)
Locals ==
  /\ newClient = NoClient <=> builderPc = "dequeue"
  /\ callbackEvent = NoClient <=> callbackPc = "idle"
  /\ input = NoClient <=> callbackPc # "receive"
  /\ moving = NoClient <=> callbackPc # "enqueue"
  /\ haveNoDataMutex = Builder <=> builderPc = "emplace"
  /\ haveNoDataMutex = Loop <=> callbackPc \in {"find", "move", "remove"}

(* The client whose AddEvent runs is in the map and has no event yet. *)
EventToAdd ==
  builderPc = "addEvent" =>
    /\ newClient \notin registered \cup {callbackEvent}
    /\ fd[newClient] # NoFd => haveNoData[fd[newClient]] = newClient

(* Callbacks run, and are still to run, for registered events, inside the   *)
(* dispatch; only a timer fires for an event without a descriptor.          *)
CallbacksPending ==
  /\ active \cup expired \subseteq registered
  /\ active \cap expired = {}
  /\ timedOut \subseteq active
  /\ active # {} \/ callbackPc # "idle" => dispatching
  /\ callbackEvent \notin active \cup expired
  /\ callbackPc \in {"lockFind", "find", "receive", "freeMove", "freeRemove"} =>
       callbackEvent \in registered
  /\ callbackPc \in {"lockMove", "move", "enqueue", "lockRemove", "remove"} =>
       callbackEvent \notin registered
  /\ \A e \in active \ timedOut : fd[e] # NoFd
  /\ callbackPc \in {"lockFind", "find", "receive", "freeMove", "lockMove", "move", "enqueue"} =>
       fd[callbackEvent] # NoFd

(* What was received of a request came, and only from clients that          *)
(* callbacks served; a request leaves the map for haveData when complete.   *)
(* With the header received, `body` has stale characters only after a NUL.  *)
StreamsRead ==
  /\ \A c \in Clients : received[c] <= sent[c] /\ sent[c] <= Total(c)
  /\ \A e \in active \ timedOut :
       e \in receivedHeader \/ e \in hungUp \/ sent[e] > received[e]
  /\ callbackPc \in {"lockFind", "find", "receive"} =>
       \/ callbackEvent \in receivedHeader \cup hungUp
       \/ sent[callbackEvent] > received[callbackEvent]
  /\ callbackPc \in {"freeMove", "lockMove", "move", "enqueue"} =>
       Complete(callbackEvent)
  /\ \A c \in receivedHeader : stale[c] > 0 => request[c].nuls # {}
  /\ moving # NoClient => moving = callbackEvent

IndInv ==
  /\ TypeOK
  /\ PlacesApart
  /\ DescriptorsNotShared
  /\ Locals
  /\ EventToAdd
  /\ CallbacksPending
  /\ EventsHaveTheirTask
  /\ StreamsRead
  /\ WorkersGetWholeRequests

=============================================================================
