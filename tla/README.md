# A verification development of the HTTP server

`src/http_server` is a multithreaded static-file HTTP server. This directory
models it in TLA+, checks the models with TLC on small instances, and proves
the main results for every instance with TLAPS.

Contents: [the system](#1-the-system) ·
[the modules](#2-the-modules-and-the-code-they-model) ·
[the runs](#3-the-runs) · [the proofs](#4-the-proofs) ·
[findings](#5-what-the-models-show-against-the-comments) ·
[limits](#6-what-is-not-modelled) · [plan](#7-plan)

## 1. The system

```
             accept                 queue                  map + libevent           queue
 clients --> Listener::Loop --> unprocessedClients --> TaskBuilder::CreateTasks
                                                            |  emplace, AddEvent
                                                            v
                                                        haveNoData <-- EventLoop thread: TasksController
                                                            |             (receive, time out, remove)
                                                            v
                                                         haveData --> Worker::Loop --> response, close
                                                                         |
                                                                      fileCache
```

| component | state it keeps | operations | who else touches the state |
|---|---|---|---|
| `Listener` (one thread per port) | its socket, `stop` | `Loop`: accept, enqueue; `Start`, `Stop` | `Master` sets `stop` |
| `TaskBuilder` (one thread) | `newClient`, `stop` | `CreateTasks`: dequeue, emplace under `haveNoDataMutex`, `AddEvent` | shares `haveNoData` with the callbacks |
| `EventLoop` (one thread) | libevent's base, two mutexes, `stop` | `RunLoop`, `AddEvent`, `FreeEvent`, `StartLoop`, `StopLoop` | `AddEvent` runs in the builder's thread |
| `TasksController` (callbacks, in the event loop's thread) | none of its own | `MoveTaskWrapper`, `MoveTask`, `ReceiveInput`, `TimeoutTaskRemove` | `haveNoData`, `haveData`, the events |
| `HTTPClient` | socket (shared), header, body, `receivedHeader`, `contentLength` | `RecvHeaderAsync`, `RecvBodyAsync`, `Send` | copied from queue to map to task: the socket is a `shared_ptr` |
| `Socket` | descriptor | accept, `recvVector`, `recvVectorMax`, `send`; the destructor closes | the kernel reuses the number |
| `Worker` (several threads) | `state`, `currentTask`, `headers`, `body`, `stop` | `Loop`: take a task, pre-, main and post-function; `Start`, `Stop` | `haveData`, `fileCache` |
| `TaskFuncs` | the global `fileCache` | `PreProcess`, `MainProcessBasic`, `ReadFile`, `PostProcess` | all workers |
| `fixed_sized_cache`, `LFUCachePolicy` | items; a multimap of counts and an iterator per key | `Put`, `Get`, `Remove` under one mutex | all workers |
| `HttpRequest`, `HttpResponse` | one request or response | parse; form | none |
| `BlockingConcurrentQueue`: `unprocessedClients`, `haveData` | a queue and a semaphore | `enqueue`, `wait_dequeue_timed`, `size_approx` | listeners, builder, callbacks, workers, `Master` |
| `LightweightSemaphore` | an atomic count, a kernel semaphore | `waitMany`, `tryWaitMany`, `signal` | the same |
| `ConcurrentQueue` | per producer: head, tail, two counters of claims, a ring or an index of blocks; a pool and a free list of blocks | `enqueue`, `enqueue_bulk`, `try_dequeue`, `try_dequeue_bulk` | the same |
| `date.h` | none | dates, weekdays, weeks, times, their text | none: `HttpResponse` calls `date::format` for its Date |
| `HttpRequestCreator`, `HttpResponseReader`, `HTTPClient::RecvHeader`, `RecvBody` | the same as theirs, on a client's side | form a request; read a response | none: the server includes them and does not call them |
| `Master` | all of the above | `Start`, `Stop` | joins every thread |
| `main` | configuration | parses `httpd.conf`, starts, sleeps for ever | none |

What is hard, and what makes each component correct:

* **EventLoop.** libevent's base is shared by two threads. `AddEvent` must not
  run `event_add` while the loop dispatches, must get the loop to leave its
  dispatch, and the loop must not come back before the event is added. The
  `loopexit` is posted *before* `AddEvent` has the loop's mutex, and entering
  `event_base_loop` clears `event_gotterm`: whether a wake-up can be lost is
  the question `addEventRunningMutex` answers. Correct means: no `event_add`
  in a dispatch, no lost wake-up, no event used after it is freed, due events
  are served although `AddEvent` interrupts the loop.
* **Builder and callbacks.** The task is in the map before its event is
  registered; `newClient` still holds the socket after it; a reference into
  the map is used after the mutex is released; descriptor numbers are reused.
  Correct means: a callback always finds the task of *its* client, a new client
  always gets a place in the map, and every client leaves in the end.
* **Receiving.** Sockets are blocking, so a callback that receives without
  data stops everybody; headers and bodies come in pieces of any size, may end
  early, and race with a 120-second timer. Correct means: `recv` never blocks
  the event loop, workers only get whole requests, and header and body are what
  the client wrote, wherever the chunks ended. The code has exceptions to the
  second and third (section 5).
* **Sending.** `::send` may take a part, and `Socket::send` keeps two numbers
  for what is left and where it goes on. The socket is blocking and `::send`
  has no timeout, so a client that does not read keeps its worker. Correct
  means: the client can read the response back from what it got, and the other
  clients are answered as long as a worker is free again and again.
* **Workers.** `headers` and `body` outlive the task; the cache hands out
  references that another worker's `Put` may free. Correct means: each client
  gets the status, length and bytes of its own request.
* **Queues.** Every hand-over between threads goes through a lock-free queue
  with a semaphore around it. A consumer takes a permit, then claims an element
  by an atomic count, looks whether there is one, and gives back what it claimed
  too many, while others do the same; blocks of elements are emptied by several
  consumers and used again; a wait that times out races with the signal that
  wakes it. Correct means: every element leaves once, whole, in its producer's
  order; every permit has its element; no wake-up is lost or left over.
* **Dates.** The Date header comes from arithmetic on days and eras, with
  casts that go toward zero. Correct means: days follow each other as in the
  calendar, all the types of `date.h` agree, and texts are ordered as times.
* **Cache.** Two containers and iterators from one into the other. Correct
  means: they agree, and the key that is replaced is one of the least used.
* **Master::Stop.** It polls sizes without locks and joins threads one after
  the other, while clients are between two containers. Correct means: each
  join leaves nothing behind it that only the joined thread would have moved.

There is no persistence and no protocol between processes, so there is no
crash recovery and no message loss inside the server. A peer can stop sending,
hang up or send a bad request at any time, and the models let it.

`PROJECT.json` lists every hazard at its line, with the properties that cover it.

## 2. The modules and the code they model

| module | models | checked by | proved in |
|---|---|---|---|
| `EventSet` | what users of `EventLoop` may assume (abstract) | | |
| `EventLoop` | `EventLoop.hpp`, one step per lock, unlock and libevent call | `MCEventLoop` | `EventLoopProofs` |
| `Server` | listener, builder, callbacks, receiving, hand-over to workers | `MCServer` | `ServerProofs` |
| `Master` | `Master::Stop` against all threads; instantiates `EventLoop` | `MCMaster` | `MasterProofs` |
| `LFU` | what the cache promises (abstract) | | |
| `LFUCache` | `cache.hpp`, `lfu_cache_policy.hpp` | `MCLFUCache` | `LFUCacheProofs` |
| `Worker` | `Worker::Loop`, `TaskFuncs`, when `HttpResponse` throws; instantiates `LFUCache` | `MCWorker` | `WorkerProofs` |
| `Text` | what writers and parsers share: finding, cutting out, header lines | `MCHTTPClient` | `MessageProofs` |
| `HttpRequest`, `HttpRequestCreator`, `HttpResponse`, `HttpResponseReader` | the four classes' texts, as operators | `MCHTTPClient` | `MessageProofs` |
| `HTTPClient` | one connection: receiving in chunks, sending in parts; extends the five above | `MCHTTPClient` | `MessageProofs` |
| `Peer` | the client at its other end: `RecvHeader`, `HttpResponseReader`, `RecvBody`; extends `HTTPClient` | `MCHTTPClient` | `MessageProofs` |
| `LightweightSemaphore` | `lightweightsemaphore.hpp` | `MCBlockingQueue` | `BlockingQueueProofs` |
| `BlockingQueue` | `blockingconcurrentqueue.hpp` over it | `MCBlockingQueue` | `BlockingQueueProofs` |
| `ProducerQueues` | what the inner queue promises: one FIFO queue for each producer (abstract) | | |
| `FreeList` | `FreeList` of `concurrentqueue.hpp` | `MCConcurrentQueue` | |
| `ProducerBase` | what its producers share: indices, claims, blocks and where they come from | `MCConcurrentQueue` | `ConcurrentQueueProofs`: the claims |
| `ExplicitProducer`, `ImplicitProducer` | enqueue and dequeue of the producers with and without a token | `MCConcurrentQueue` | |
| `ConcurrentQueue` | the queue's own operations, with tokens, over these | `MCConcurrentQueue` | `ConcurrentQueueProofs`: the claims |
| `Gregorian` | the calendar, day by day (abstract) | | |
| `Calendar` | the date types of `date.h` and their arithmetic | `MCSystemClock` | |
| `TimeText` | time of day, and `to_stream` | `MCSystemClock` | |
| `SystemClock` | a clock that is read every day, and set back | `MCSystemClock` | `MessageProofs`: the dates |

```
        EventSet <---implements--- EventLoop          LFU <--implements-- LFUCache
           ^                          ^                                      ^
           | uses by its steps        | INSTANCE                             | INSTANCE
         Server                     Master                                 Worker

   ProducerQueues <--implements-- ConcurrentQueue        Gregorian <--implements-- SystemClock
                        | EXTENDS                                        | EXTENDS
      ExplicitProducer, ImplicitProducer                       TimeText, Calendar
                        | EXTENDS
                  ProducerBase -- INSTANCE --> FreeList
```

`Server` uses the event loop through `EventSet` (`UsesEventSet`), and
`EventLoop` is shown to implement `EventSet` (`ImplementsEventSet`): the two
together say that the whole may be studied without the two mutexes. `Master`
needs the mutexes, because `StopLoop` sets `stop` in the middle of them, and
has `EventLoop`'s own actions as its event loop.

### EventLoop

`loopPc` and `adderPc` are the program counters of `RunLoop` and of each
`AddEvent`. A step is a statement: the locks of `RunLoop` are `LoopLocksLoop`,
`LoopLocksAdd` and so on, those of `AddEvent` are `AdderLocksAdd`,
`AdderLocksLoop`. libevent is external and modelled from its documented
behaviour: `event_base_loopexit(base, nullptr)` queues a callback that sets
`event_gotterm` (`exitPosted`, `LoopRunsExit`), `event_base_loop` clears
`gotterm` on entry (`LoopEnters`), waits (`LoopPolls`), runs the active
callbacks (`LoopRunsCallback`) and looks at `gotterm` between two passes
(`LoopLeaves`). `FreeEvent` is called by callbacks and is the `freed` of
`LoopRunsCallback`. Any number of threads may call `AddEvent`; the server has
one.

### Server

A client is one `HTTPClient` made by `accept`. Its descriptor is open as long
as some place holds the client (`Held`): `shared_ptr<Socket>` is copied when
the task is made and dropped with the last copy. `Accept` may return any number
not in use, or fail with `NoFd` (-1): the code sends such a client down the
same path. Events are named by the client for which `AddEvent` was called, so a
callback that serves another client that got the same number would be visible.

* `CreateTasks`: `BuilderDequeues`, `BuilderLocks`, `BuilderEmplaces` (which
  also unlocks), `BuilderAddsEvent`, `BuilderDrops` (`newClient`'s end of
  scope).
* `MoveTask`: `CallbackStarts` chooses between the timeout and `ReceiveInput`;
  `ReceiveLocks`, `ReceiveFinds` (the reference is in `input` after the
  unlock), `Receive` in four outcomes; then `MoveFrees`, `MoveLocks`,
  `MoveTakes`, `MoveEnqueues`, or `RemoveFrees`, `RemoveLocks`, `RemoveErases`.
* What a peer sends is counted in units. A request is a header, whose last two
  units are its end, a body, and an outcome. `RecvHeaderAsync` takes at most
  `Chunk` units (the code's 256 bytes) and looks for the end of the header in
  that chunk *alone*; `FindsHeader` keeps this. When it does not find it, the
  code leaves a vector in `body` that starts one byte before its buffer
  (`HTTPClient.cpp:230`): `stale` counts its characters. The chunk with the end
  overwrites it, unless that chunk has a NUL: then what came behind the end is
  appended (`Keeps`), and `RecvBodyAsync` compares a length that counts stale
  characters. `nuls` are the places of a request's NULs, all of them behind the
  header: `HTTPClient`, which has the symbols themselves, has no others either.
* `::send` to a client that is not in `Readers` may never return: no fairness
  is assumed of a worker that is `Writing` to one.
* A worker's work is one step here, `WorkerAnswers` or `WorkerAborts`; module
  `Worker` opens it, and its property `OutcomeIsTheRequests` shows that whether
  a worker throws is decided by the request, as `outcome` assumes; a crash on
  an erased cache item is the only other end.

Queues are sets: moodycamel's queues keep no order between producers, and no
property depends on the order of one producer. That an enqueued client comes out
once, and that a thread that waits gets it, is what the queue modules show.

### Master

`stopPc` follows `Master::Stop` statement by statement: stop and join each
listener, wait for `unprocessedClients` to look empty, stop the builder, wait
for `haveNoData` to look empty, stop the event loop, wait for
`unprocessedClients` again, stop and join each worker. Each thread has its
`stop` flag, read by a step of its own. What clients send is reduced to: a
callback keeps, takes or removes its client, and a client that hung up inside its
body is kept (`HangsUpInBody`). A failed accept makes a client without a socket
(`failed`). All of these have key -1: `emplace` inserts the first one only
(`SameKey`), each gets an event all the same, and the first timer to fire erases
the one entry.

### LFUCache, Worker

Every public method of the cache holds its mutex for its whole body and is one
step. `frequency_storage` is the multimap as a sequence in its order, with
`emplace_hint` as the insertion the C++ standard gives it (as close to the hint
as the order allows); `lfu_storage` is the node each key's iterator points to.

`Worker` has the steps between which another worker can come: taking a task,
`PreProcess`, `fileCache.Get`, using the reference it returned, opening and
reading the file with the `Put` at its end, `PostProcess`. A worker whose item
another worker's `Put` erased is in `dangling`; what it reads then is the old
bytes, other bytes, or a crash (`ReadsFreed`, `CrashesOnFreed`). `PostProcess` may
never return for a task that is not in `Readers`, as in `Server`. `headers` and
`body` are the worker's and survive the task, as in the code. A file's bytes
are its name; files do not change, and a name in `OnDisk` is a regular file.

### HTTPClient and the message texts

A text is a sequence of symbols: the characters the code looks for (`CR`, `LF`,
blank, NUL, `.`), the two strings it looks for as a whole (`": "`, written `":"`,
and `"HTTP/"`), and any other run of characters as one symbol; the symbol of a
number is `Decimal(n)`, of which nothing is assumed but that numbers have different
ones, none of them a mark. A symbol counts as one character wherever the code counts:
Content-Length, chunks, parts.
`HttpRequestCreator` and `HttpResponse` form texts, `HttpRequest` and
`HttpResponseReader` read them, with the same order of searches and the same
`std::map`: `Colons` are the places of `": "` that their loops find, `Key` what is
between the end of the line before and such a place, and of the lines with one key
`insert` keeps the first value (`Headers`) and `[]` the last (`ExtractHeaders`).

`HTTPClient` follows one connection. `ReceiveInput` is one callback: a part of
the header (`ReceivesPartOfHeader`), its last part with what
`RecvBodyAsync` finds readable at once (`ReceivesHeader`, `ReceivesBadHeader`),
or more of the body (`ReceivesBody`). `BodyAfter` is line by line what
`RecvHeaderAsync` leaves in `body`. `split` and `cut` only record where chunks
ended, for the properties. Then `PostProcess` chooses an answer, and `SendPart`
is one turn of `Socket::send`'s loop with its `left`, unsigned, and its `sent`,
which is the size of the last part and not the sum.

Requests are those that `HttpRequestCreator` writes. Its request line ends in a
blank, so `HttpRequest` reads the version as `"1.1 "`, blank included; its
HTTP/0.9 request has no empty line, so the server never sees its end.

`Peer` is a client of the same code base that reads what `HTTPClient` sent, when
the server has closed the connection: `ReceivesPiece` is a turn of `RecvHeader`'s
loop, which looks for the header's end in everything that came, unlike
`RecvHeaderAsync`; `RecvBody` asks for the difference of two unsigned sizes.

### The queues

The server enqueues with producer tokens (`Listener.cpp:51`,
`TasksController.cpp:94`), dequeues with consumer tokens and a timeout of 100 ms
(`TaskBuilder.cpp:32`, `Worker.cpp:40`) and looks at `size_approx`
(`Master.cpp:87`, `:97`). The modules have more than that: bulk operations,
calls without tokens, implicit producers.

A step of `LightweightSemaphore` is one atomic operation or one call of the
kernel semaphore. A caller's record has its place in the function (`pc`), what it
asked for (`max`), what it has (`taken`) and the value its compare-exchange
expects (`old`). `TimesOut`, `LooksAgain`, `TriesPost`, `Adjusts` are the end of
a wait that times out, where the code takes its place in the count back or, when
a signal has counted it in, the post that was made for it. `BlockingQueue` adds
what the blocking queue does before and after: enqueue, then signal; wait, then
dequeue until it succeeds. Its inner queue is a number of elements, and may fail
to find one.

A step of `ConcurrentQueue` is one operation on an atomic variable with the
thread's own work up to the next. `ProducerBase` has `dequeue`'s claim
(`Claims`, `Checks`, `GivesBack`, `Takes`: `dequeueOptimisticCount`, a second
look at `tailIndex`, `dequeueOvercommit`, `headIndex`) and
`requisition_block` (the pool, then the free list, then memory). `ExplicitProducer`
has the ring of blocks, its circular index and the flags of empty places;
`ImplicitProducer` the index whose entries are claimed and given back, and the
count of empty places. `FreeList` is Cameron's free list, reference counts and
flag in one word, as the code keeps them. An element is its producer and its
number, and a place whose element was not yet written or is already destroyed
is `Raw`: an element read from there would show in the consumer's hand.
`enqueue` and `try_dequeue` are the bulk forms for one element where the code
differs in nothing else.

### The dates

`Calendar` has the types as records and numbers and `date.h`'s own formulas on them
(eras of 400 years that begin in March, `weekday_from_days`, ISO years that begin by
their first Thursday, months that carry into years), with quotients toward zero where
the code casts. `TimeText` has `hh_mm_ss` with its computed number of digits,
`to_stream`'s loop over the format and its commands, and `operator<<` of a time, which
writes a year without a width (`StreamedDate`) where `%F` pads it to four digits
(`DateDigits`). Texts are sequences of characters' codes, so that they have the
characters' order. `SystemClock` shows one day after another; `Gregorian` knows only how
long months are and counts.

## 3. The runs

| run | instance | question |
|---|---|---|
| `event_loop_server` | the builder as only adder, 2 events, fair | lost wake-ups, `event_add` alone, events alive, `AddEvent` returns, due events served, `EventSet` implemented with its fairness |
| `server_requests` | 2 clients, 2 descriptors, 1 worker, `Chunk` = 3, header 3 with body 2 and a NUL in it, or a malformed header | what callbacks and workers receive; whose event, entry and descriptor it is |
| `server_liveness` | 2 clients of which one reads its response, 1 descriptor, 1 worker, `Chunk` = 2, fair | every client leaves, but for two kinds |
| `master_stop` | 2 clients, each of which `accept` may have failed for, 1 listener, 1 worker, fair | what each join leaves behind; `Stop` reaches the event loop |
| `master_loses_tasks`, `master_idle_worker` | the same | violated: see section 5 |
| `lfu_cache` | 3 places, 4 keys, 2 values, counts up to 3 | policy and items agree, least used key replaced |
| `worker` | 2 workers, 3 requests of 10 kinds, one from a client that reads its response, cache of 1 for 2 files, fair | right answers although items are erased while they are read; tasks end while a worker is free again and again |
| `http_client` | 7 requests of 7 to 25 symbols, chunks of at most 20 that end anywhere, 4 answers, up to 4 parts, read back in pieces of 8 | request and response are read as they were written |
| `blocking_queue` | 2 senders, 2 takers, 3 elements, calls for 1 and 2, every kind of timeout, fair | wake-ups match sleepers, permits have elements, elements are taken |
| `concurrent_queue` | an explicit and an implicit producer, 2 consumers, 3 blocks of 2 places, 8 scenarios | FIFO queues are implemented until a bulk that had taken a block fails, claims are backed, blocks are in one place, reference counts are right |
| `system_clock` | every day of 1900 to 2000, half seconds | dates follow the calendar, the types agree, months are counted, texts are ordered and agree |

**Bounds, and why they are enough.** Nothing in the models is cut off but the number
of clients, tasks, descriptors, elements, blocks, days and threads, `MaxCount` in
`LFUCache`, and in `HTTPClient` and `Peer` the calls of `::send` (`MaxParts`) and the
sizes of parts and pieces (`Parts`, `Pieces`). The questions are about pairs: an adder
and the loop; an old and a new client on one descriptor number; a header in one chunk,
in two chunks, or with its end cut in two; a body that comes with its header, later,
or never. With a header of 3, a NUL as the first unit of the body and chunks of 3, the
header's end can come after a first part and in one chunk with the NUL, before the
rest of the body: the case that `WorkersGetWholeRequests` excepts, which the run
reaches. Any two clients and any two descriptors are alike there, and the run uses
that symmetry. One worker is enough where workers do not meet. In `server_liveness`
the second client may find no free descriptor, so its accept fails: one descriptor
gives the reuse and the failure, and two would put the temporal check beyond a few
minutes. One of its clients reads and the other need not. Three tasks are the least
with which one worker puts a file, another hits it, and a third request evicts it in
between. With three places and four keys, the key that is replaced can be first, last
or between in the multimap, and tie with others; a count of 3 lets keys overtake each
other. `MaxCount` is a guard in `LFUCache`'s `Next` only and does not bound `Worker`,
whose tasks do. In `http_client` a chunk can hold the whole of a request without a
body, and the header and the beginning of the body of a short one with a body, while
the longest headers take two chunks at least; chunks can be as small as one symbol, so
a mark can be cut at each of its three places. Four parts are enough for `left` to go
below zero, at 64 values of `size_t`. Pieces of 8 end inside the mark of some
response, which `RecvHeader` then finds across two pieces.

In `blocking_queue` two takers can sleep, time out and be counted in by one
signal, and three elements let a third call come while two are under way.
`MaxSpins` is 1 and not 10000: a turn of the spin reads and tries once, and so
does every other. In `concurrent_queue` a scenario says how many elements each
producer sends and which calls each consumer makes. Races are between two
consumers on two or three elements; one consumer sees the longer histories in
which rings come round, indices double and memory runs out. A bulk that runs out
of memory *after* it has taken a block, as the other producer has the last one, needs
seven elements of one producer; in that scenario, `Turns`, a call ends before another
starts (`CallsTakeTurns`, a constraint that leaves the other scenarios alone). Blocks have two
places, indices begin with two entries, and index numbers wrap at 16, so each
boundary is crossed in both phases of a block. Nothing new is called when a
claim has been given back (`MaxOvercommit`), or claims and returns could go on
for ever. `Quota`, after which consumers change their producer, is 2 and not
256. In `system_clock` the twentieth century has a first year without and a last
year with a leap day, the end of an era of 400 years, both sides of the epoch, and
years that begin on every day of the week; texts are compared in the year on either
side of the epoch (`StampDays`), at times on both sides of seconds, minutes, noon
and midnight (`Times`).

One adder is what the server has. A second one is covered by the proofs for the
safety properties; `AddEventReturns` would not hold with two under weak
fairness, since a thread that calls `AddEvent` again and again may always be the
one to get `addEventRunningMutex`.

**Fairness.** Threads that can run do run: weak fairness of each thread's steps (a
thread's steps are sequential, so this is fairness of its next statement). Strong
fairness stands for three things: a `std::mutex` that is freed again and again is got
by a waiting thread (`BuilderLocks`, the callbacks' locks); and, in `Server`, whose
event loop is abstract, that `AddEvent` gets its turn (`BuilderAddsEvent`, with the
loop leaving for it) and that polling is not kept off for ever (`LoopPolls`). The last
two are not assumed of the code: they are `AddEventReturns`, `ImplementsEventSet` and
`DueIsServed`, which `event_loop_server` checks of `EventLoop` under weak fairness of
its two threads and timers. In `Master` strong fairness of `CallbackTakes` and
`CallbackRemoves` is `Server`'s `ClientsLeave`, for clients that have not hung up
inside their body; of workers it assumes nothing, since `Stop` joins them last and
`StopReachesLoop` ends before. A worker goes on but while it is `Writing` to a client
that is not in `Readers`: `::send` (`socket.cpp:175`) returns when it has sent or
failed, and without a reader it need not do either. Timers expire, 120 s without an
activation. In `BlockingQueue` each taker and each sender that has begun a call goes
on; `ElementsAreTaken` is stated of threads that do not poll with a timeout of 0 for
ever, since two of those can keep each other from the post that is there, by lowering
and raising the count in turns. The server's threads wait for 100 ms. No fairness for
peers, for connections or for the call of `Stop`: nothing makes them happen.

**Deadlock** is checked in `server_requests`, `lfu_cache` and `system_clock`.
The other runs may stop: `EventLoop` when `StopLoop` waits for a loop that
nothing makes leave, `Master` when `Stop` has ended or the process was
terminated, `Worker` when the tasks are done, `HTTPClient` when the response is
read, the queues when everything was sent and taken.

**Liveness excepted.** `ClientsLeave` excepts a client that hangs up inside its
body: its descriptor stays readable, `RecvBodyAsync` takes nothing and reports
neither failure nor end, and each activation re-arms the timer. The client
keeps its place for ever, and the loop spins on it. `StopReachesLoop` has such
clients in its premise: `Stop` waits for `haveNoData` to be empty again and again
of them, and with one that stays it waits for ever. `ClientsLeave` and
`TasksAreAnswered` except a client that does not read its response and is with a
worker, and have as premise that again and again some worker is not writing to
such a client: when every worker is, nobody else is answered.

Each property of a passing run has a mutant in `PROJECT.json`: an operator
beside the definition it replaces (marked *Mutant* in the module) that changes
it as a plausible mistake in the code would, and makes TLC find that property
violated.

## 4. The proofs

The theorems hold for every value of the constants that satisfies the assumptions
of the module:

| proofs | assumptions | what they ask for |
|---|---|---|
| `EventLoopProofs` | `ThreadsAssumption` | the loop is no adder, `NoEvent` no event |
| `ServerProofs` | `ServerAssumption` | clients, descriptors and threads are distinct from what stands for none; a header has at least the two units of its end; `Chunk` is positive |
| `LFUCacheProofs` | `CacheAssumption` | a place at least; `Absent` is no value and no node |
| `WorkerProofs` | `WorkerAssumption` | the same of the tasks, codes and contents; every content has a length, and an empty body has none; a place in the cache |
| `MasterProofs` | `MasterAssumption` | threads and clients are distinct from what stands for none |
| `BlockingQueueProofs` | `QueueThreads` | finitely many threads, each sender or taker |
| `ConcurrentQueueProofs` | `ClaimAssumption`, `CallAssumption` | see below |
| `MessageProofs` | `BoundsAreDays` | the days the clock shows include the epoch and are in the years -32766 to 32766 |
| | `SpansFit` | `Spans` are numbers of months that leave the years of those days in their type |
| | `TimesAreShown` | `Times` are ticks of a day; the years of the days up to `StampDays` from the epoch are 1000 to 9998, so that `operator<<` writes four digits as `%F` does, of the next day and the ISO week as well |
| | `TicksAreDecimal` | a tick is a decimal fraction of a second, of at most nine digits |
| | `DecimalAssumption`, `BodiesAssumption` | bodies have at most `MaxLength` symbols, and the numbers up to it have symbols of their own |
| | `RequestsAssumption` | what the client gives to `HttpRequestCreator`: a URL without blanks, line ends and NUL, a version without line ends and NUL, any body; the versions and methods it refuses are not asked for |
| | `NumbersAreNat`, `PiecesAreChunks`, `ResponsesFit` | chunks, parts and pieces have at least one symbol, a piece at most a chunk; no response is as long as `size_t` can count |

Only the two queues need finite sets, since they count over their threads.

**EventLoop.** `IndInv` says who owns each mutex at each place in the code
(`AddMutexOwner`, `LoopMutexOwner`), which `AddEvent` has an event in hand
(`AddingInHand`), that callbacks to run are for registered events
(`LiveEvents`), and the key fact, `ExitReachesLoop`: when a thread waits for
`eventLoopRunningMutex` and the loop has *not* entered yet, its `loopexit` is
still queued, so the reset on entry cannot lose it; when the loop dispatches,
the exit is queued or seen. The loop cannot consume the exit and come round
again, since `addEventRunningMutex` is held: that is `AddMutexOwner`. From it
follow `EventAddIsAlone`, `NoLostWakeup`, `EventsAreLive` and
`ImplementsEventSetSafely`, the step simulation of `EventSet` with
`requested` as the events in hand and `dispatching` as the loop's place.

**Server.** The goal is `EventsHaveTheirTask`: descriptors are reused, so it
needs to know that a client with an event is in the map, that a client in the
map holds its descriptor open, and that an open descriptor belongs to one client
(`DescriptorsNotShared`). That is inductive only with the route of a
client through the places that hold it: waiting, in the map, passed on, one at a
time (`PlacesApart`), with what each thread's locals hold at each place
(`Locals`, `EventToAdd`, `CallbacksPending`). `StreamsRead` adds that what was
received had come, and that a callback that is to read has something to read;
it gives `RecvNeverBlocks` and `WorkersGetWholeRequests`: with the header received,
`body` has stale characters only after a NUL, and without them it is as long as what
came behind the header. The failed accepts, with key -1, are the exception all
through: they share one key, and only their timers run.

`InitInv`, one lemma per thread and `NextInv` are the induction; the theorems
listed in `PROJECT.json` follow. `EventLoopIsUsedSafely` shows that `Server`'s
steps are `EventSet` steps, which closes the chain Server – EventSet –
EventLoop on the safety side.

**LFUCache.** The goals are `ContainersAgree` (`PolicyAgrees`) and `CacheIsLFU`, that
the cache implements `LFU`. `IndInv` says that the cached keys are finite and at most
`MaxSize`, that a key has an iterator exactly when it is cached, at a node of its own
(`OwnNodes`), that the multimap's nodes are those of the cached keys (`Content`), each
once (`Distinct`), and that its counts do not fall (`InOrder`). The order is what the
refinement needs and agreement does not: by it the first node has the least count, so
the key that `ReplCandidate` names is `LFU`'s `LeastUsed` (`CandidateIsCached`,
`PutRefines`). `Erased` and `Inserted` say of any sequence which nodes it has, and in
which order, when one leaves or one comes; `Emplaced` applies them to the two hints;
`Rebooked` is the bookkeeping of both containers that `Touch`, `Put` and `Remove`
share. `MaxCount` bounds `Next` only, and the proof does not use it: counts are any
naturals.

**Worker.** All four invariants of the run, and type correctness. `IndInv` adds to
them that a task is waiting, with one worker, or answered (`TasksApart`); that from
`PreProcess` on `headers` has the fields of the worker's own request, whatever
the task before left there (`HeadersAreOwn`); that a file is read for GET and HEAD
only and that a reference into the cache is to an item that is there, or is known to
dangle (`ReadersHaveFiles`); and what `MainProcessBasic` leaves for
`PostProcess` (`OutcomeIsReady`): the request's status, and a length that is the
length of the body, where the body is the file or the bytes of a freed item. That
the last is the only exception rests on `CacheHoldsFiles`, which holds because a
worker only puts what it has read from the file itself. The cache inside `Worker` is
`LFUCache` by INSTANCE. `CacheSteps` shows that each step of a worker is a step of
`LFUCache`, whose bound `MaxCount` plays no part, so
`LFUCacheProofs`, instantiated too, gives `FileCacheAgrees` and `FileCacheIsLFU`
without a second proof.

**Master.** `BuilderIsDrained` and `LoopIsDrained` are about what `Stop` may conclude
from a queue or map that only *looked* empty. `IndInv` follows a client from `accept` to
the map (`ClientsApart`) and says what the builder holds at each of its steps
and what of it already has its event (`BuilderInHand`); a client in the map has
an event or is the one whose `AddEvent` runs, and the client of an event is in the
map or has no socket (`MapHasEvents`); and what is over
and empty at each place of `Stop` (`ListenersJoined`, `BuilderJoined`,
`LoopJoined`). A queue found empty stays empty because the joined thread was the
only one that filled it: that is the argument, one conjunct per join. The event loop's
mutexes come by `LoopProofs == INSTANCE EventLoopProofs`: every step of `Master`
is a step of `EventLoop` or leaves it alone, so its `IndInv` is carried along, and
`LoopIsSafe` and `LoopIsEventSet` follow.

**BlockingQueue.** `WakeupsMatchSleepers` and `PermitsHaveElements` equate sums over
all threads. `IndInv` says what a caller can hold at each place (`IsCaller`) and
adds `Balance`, which counts every element once: in the queue, behind a permit in a
hand, or enqueued and not yet signalled. `Fits` states for one step of one
thread what it does to the shared counters and to that thread's share of each sum;
each action is shown to fit, and a fitting step keeps both equations. A total over
threads is the size of a set of pairs (`Total`), so the library's theorems on
cardinality give how it changes when one thread's part does (`TotalChanges`).

**ConcurrentQueue.** `ClaimsAreSound`: whatever consumers do, what they claimed and
found good has its elements (`headIndex` and what is granted never exceed
`tailIndex`), and no claim is lost. A consumer checks its claim against a tail and a
count of returns it loaded some time ago, in arithmetic modulo 2^w. The invariant puts
all claims of a producer on a line: consumer c's is `want` places from `m[c]`, and
`mine` is `m[c]` modulo 2^w (`ClaimsAreSafe`); the line has no place in the program,
so `m` is quantified. The key fact, the last conjunct of `ClaimIsSafe`, is about what
happens *if* all claims up to c's own are granted: then the elements are there, or the
consumer's own loads will not let it have more than there are. It is kept when another
consumer gets part of its claim, because a claim that fails in part has seen the tail.
`OvercommitIsBounded` keeps what is compared within half of the range, so that
`circular_less_than` decides as on the line. `ClaimAssumption` has this bound on the
constants: `MaxOvercommit` is the model's bound on returned claims after which no new
call begins, and with 64-bit indices the bound says that fewer than 2^63 claims are
returned. `CallAssumption` says that producers are listed once and that scenarios send
numbers of elements. What consumers hold is summed with `SumFunctionOnSet` of the
community modules, a fold over a recursive function on subsets: the lemmas at the
start show that the fold exists, and how it changes when one summand does, by
induction on the size of a set, made from `WFMin` of the library in the form that a
non-empty set of numbers has a least element. The whole `Next` is in the induction,
with blocks, index and free list, most of which `Quiet` and `Proceeds` show to leave
the claims alone.

**Dates.** `date.h` computes a date from the number of days and back by divisions that
come without explanation; `Gregorian` says how the calendar goes on from one day to the
next. `Implementation` shows that the divisions are right for every day, forward and
back, and `Agreement` that what is computed in one date type is so in all of them
(`RepresentationsAgree`). The induction is easy (`IndInv`: what is shown is computed
from the day); the arithmetic is not. It goes by years that begin in March, as the
code's does: the days before such a year and before a month are the sums `Before` and
`MonthStart`, a leap day is the last of its year, and an era of 400 years is added as a
whole (`EraBefore`). `IsDay` says that a number of days *is* a date, without saying how to
find it. Every number is that of exactly one date (`DayExists`, `DayIsUnique`), so it is
enough to know that `from_days` finds *a* date (`YearOfEraIs`, `MonthIs`), and the rest
is about `IsDay`: the next day (`NextDayIs`), the first of January (`NewYearIs`), the ISO
year, which begins with the one Monday at most three days from it (`IsoMondayIs`), and
the weekdays of a month (`WeekdayRoundTrip`, `LastWeekdays`). `year` is a 16-bit
number, and `iso_week` looks at the years beside a day's own: that is what
`BoundsAreDays` leaves room for. A clock of 64-bit nanoseconds has some 300 years on
each side of 1970.

**Months and texts of times.** `MonthsCount` is about the operators that add months
and years: what `date.h` does with quotients that round towards zero is the year and
the month so many months later (`YearAfter`, `MonthAfter`), which add up (`MonthsAdd`)
and come back with the other sign (`MonthsSubtract`). A day that a month does not have
counts into the next month; the date is itself again exactly when the month has it.
For weekdays the weeks of the month are added to its first such day. The proof of the
texts begins with what `FoldLeft` returns: a function on the sets of the first n
places, each of which adds one character's step to the one before, exists for every n
and is what `FoldLeft` computes (`IsWriting`, `WritingExists`). `Digits` writes
numbers of equal width so that the lesser number has the earlier text, since the first
digit in which they differ decides; texts that are joined are ordered by the first
part that differs. So `StampsOrder` is about dates, hours, minutes, seconds and
fractions one after another, and the order of dates is `Agreement`'s.
`CommandsAgreement` writes each format letter by letter. Its arithmetic is the 12-hour
clock and the rule for ISO weeks from the day of the year and the weekday: the year of
the week begins on a Monday, the one at most three days from the first of January, and
the rule's three cases are the days before it, those from it on (`WeekInYear`), and
the last days of the year, which belong to the next one's first week (`WeekAfter`).
`%Y` and `%F` print four digits from 0 to 9999, `operator<<` as many as the year has
(`DatesAreStreamed` shows that these are four), and these properties look at the next
day's and the week's year too: hence `TimesAreShown`.

**The connection and its client.** The three invariants of `http_client`, for any
requests, files, sizes of chunks, parts and pieces. The proof is in three layers.
The first is about scans: what `Find` returns (`FirstSymbol`, `FindIsPlace`), and
that a text in which line ends stand only where lines end (`Framed`) has the mark at
its place and at no other, in the text as in every part of it (`MarkInPart`,
`NulInPart`). The second is that writers and parsers agree: each header adds a line of
five symbols to what was written (`WrittenLine`), so `HttpRequestCreator` and
`HttpResponse` write framed texts (`RequestShape`, `ResponseShape`), and in a framed
text the colons that a parser's loop stops at are those of the lines (`ParsedColons`),
hence its keys and values are those written, whether the first or the last line of a
key counts (`ParsedHeaders`). A header's value may have any symbol but those the
parsers look for; a body may have all of them. The third is the induction, `PeerInv`.
What the server has received as a header is the text as far as it came, or the header
that `RecvHeader` would have read, unless a chunk was cut inside the mark
(`HeaderReceived`); that no chunk so far had the mark is what lets a chunk that has it
stand for the whole text. The body is at least as long as what came behind the mark, and
exactly that unless a NUL met a header in parts (`BodyReceived`): the stale character
and text that `RecvHeaderAsync` leaves in `body` are overwritten by the chunk with
the mark. What was sent is the beginning of the response that `left` and `sent` say is
gone, for two parts (`ResponseSent`): after those `sent` is no longer where the rest
begins, and the invariant claims nothing. What the client has read is the part of the
response up to `consumed`, and when it looks for the body, what it misses is what is
left to read (`ResponseReading`, `MissingIs`). TLC checked each conjunct in all states
of `http_client` before it was proved. `RequestsAreRead`, `RequestsAreRecognised` and
`ResponsesAreRead` follow. In the induction over lines, as over days and over sums, a
least counterexample takes the place of the induction theorem (`LeastNumber`).

**Model-checked only.** Liveness (`AddEventReturns`, `DueIsServed`,
`ClientsLeave`, `StopReachesLoop`, `TasksAreAnswered`, `ElementsAreTaken`) and the
fairness part of `ImplementsEventSet`: the prover does not handle `ENABLED`. In
`ConcurrentQueue`, `EveryBlockHasOnePlace`, `RefsAreCounted` and `ImplementsQueues`,
which need an invariant of rings, index and list together. What a fold or a recursive
function computes is an induction over data, and the library's induction theorems
cannot be instantiated here, since they take an operator: where a proof needs one
(`ConcurrentQueueProofs`, `MessageProofs`) it is made by hand from a least
counterexample.

## 5. What the models show against the comments

* `StopProcessesConnections` (`master_loses_tasks`). `Master::Stop` "Processes
  all existing connections" (`Master.cpp:79`, `Master.hpp:46`). The wait before
  the workers are stopped tests `unprocessedClients`, which has been empty
  since the first wait, and not `haveData`: complete requests can be left
  there.
* `WorkersHaveATask` (`master_idle_worker`). `RunPreFunc` checks that there is
  a task. A worker that is stopped while it waits leaves `TakeNewTask` without
  one and calls `RunPreFunc` all the same; the exception leaves the thread.

Two comments hold except in cases that a passing property names:

* `main` says it runs until a signal (`main.cpp:72`). A request that is neither
  GET nor HEAD and has no Content-Length makes `HttpResponse` throw
  (`HttpResponse.cpp:42`) in a worker's thread, where nothing catches it.
  `OutcomeIsTheRequests` says for exactly which requests the process ends.
* `RecvBodyAsync` "Returns true if body is read successfully"
  (`HTTPClient.cpp:241`). A chunk without the header's end leaves itself in
  `body`; when the chunk that has the end also has a NUL, `RecvHeaderAsync`
  appends that to the body it received (`HTTPClient.cpp:234`), and
  `RecvBodyAsync` returns true because the body is long enough. `RequestIsRead`
  shows that this is the only case, besides a cut mark, in which the body is not
  the client's, and `WorkersGetWholeRequests` that it is the only case in which a
  worker gets a request before all of it has come.

Two things about the vendored queues, beyond the server's use of them. A bulk
enqueue of an explicit producer that gets a block and then runs out of memory goes
back to the index's front it had; but when it has made a new index on the way, that
front is the number of slots used (`concurrentqueue.hpp:2097`), which counts the
blocks it took from ahead. The next calls put their blocks too late into the index,
and consumers look for elements in the wrong blocks. The number of slots goes back
too while the blocks it got stay in the ring, so later entries may overwrite some
in use. `ImplementsQueues` therefore says FIFO as long as no call has been undone
after it took a block (`undone`, a history variable of `ExplicitProducer`); without
that premise the scenario `Turns` violates it with one call at a time. And two
consumers can alternately fail to dequeue while an element is there, each seeing the other's
claim before it is given back. The loops of the blocking queue try again.

Met while modelling, and not claimed as findings because no comment, test or document
says otherwise: `StopLoop` does not make the loop leave, so its `join` may wait until
the next `AddEvent` or for ever; a header whose end lies across two chunks is not
recognised; after two partial sends the third repeats or skips what was sent, since the
offset is the last part's size; `GetReturnCode` of `HttpResponseReader` leaves out the
last character of the text; a worker may use a cache item that is being erased; the
response to a HEAD carries the worker's last body; the controller, a member of `Master`,
is also owned by a `shared_ptr` and destroyed twice.

## 6. What is not modelled

* Characters: a method, a word of the URL or a number is one symbol. A header
  line without CR, beyond which `HttpRequest` would read, does not occur.
* In `Socket`: `connect`, the timed variants and `httpQuery`, in `HTTPClient`:
  `SetBody` and the Split and Merge helpers, in `HttpRequestCreator`: the query
  string, in `cache.hpp`: `NoCachePolicy`. Nothing calls any of them.
* In `concurrentqueue.hpp`: memory orders (memory is sequentially consistent
  here), the hash that finds a thread's implicit producer and the recycling of
  producers, dequeues in bulk with a token or from one named producer, and
  element constructors that throw. The server's clients and tasks are moved with
  tokens, one by one. In `lightweightsemaphore.hpp`: the semaphores of other
  systems.
* In `date.h`: parsing, time zones, names of months and weekdays, the modifiers
  `E` and `O`, and the text of years before 0 or after 9999. `HttpResponse` formats
  `"%F %T"` of the system's clock. `floor` is `std::chrono`'s where the library
  has it, and is the floor here.
* `Server` and `Master` have queues as sets, not `ConcurrentQueue`: the
  product is out of TLC's reach. `BlockingQueue` counts elements for the same
  reason.
* A NUL before the end of a request's header, which a client can send, in
  `Server` and in `HTTPClient`.
* `Server`, `Worker` and `HTTPClient` are not composed into one module: `Server`
  has units and outcomes where `HTTPClient` has texts, and `Worker` has the
  fields of a request where `HttpRequest` reads them.
* `Master::Start` and the constructors: they run in one thread before the
  others. `Init` is the state they leave.
* Parsing `httpd.conf`, vendored headers, tests without content, build files.
* Directories whose name has a dot, and a `DOCUMENT_ROOT` that changes.

## 7. Plan

Done, in this order: `EventSet`, `EventLoop` and its proofs; `Server` and its
proofs; `Master`; `LFU`, `LFUCache` and its proofs; `Worker`; the message texts and
`HTTPClient`; the semaphore and the queues; the dates; `Peer`; the proofs of `Worker`,
`Master`, `BlockingQueue`, of `ConcurrentQueue`'s claims, of the dates and of the
connection with its client.

Next, models:

1. `Master::Start` and the constructors, with a descriptor or a thread that
   cannot be created.
2. The end of the process: the order in which the members of `Master` are
   destroyed.
3. What `main` reads from `httpd.conf`.
4. The hash of implicit producers.

Next, proofs:

1. `FreeList`: `RefsAreCounted`, for threads that add only nodes they have.
2. `ConcurrentQueue`: `EveryBlockHasOnePlace`.
