------------------------------- MODULE Worker -------------------------------
(***************************************************************************)
(* The workers: Worker::Loop with TaskFuncs' PreProcess, MainProcessBasic, *)
(* ReadFile and PostProcess, and HttpResponse.  Workers share the queue of *)
(* complete requests and fileCache; each keeps its `headers` and `body`    *)
(* from one task to the next.                                              *)
(*                                                                         *)
(* fileCache.Get returns a reference into the cache after it has released  *)
(* the cache's mutex: what a worker does with it is a step of its own, and *)
(* another worker's Put may have erased the item by then.                  *)
(*                                                                         *)
(* A file's bytes are abstracted to the file's name.  Files do not change. *)
(***************************************************************************)
EXTENDS Integers, Sequences, FiniteSets

CONSTANTS
  Workers,
  Tasks,
  None,
  Readers,          \* tasks whose client reads its response; ::send to others
                    \* may not return
  Requests,         \* what the tasks may ask for
  Files,            \* path + filename of every URL without "/../"
  Dotted,           \* a URL with "/../"
  OnDisk,           \* the files that can be opened
  IndexFiles,       \* the files whose filename is "index.html"
  Size,             \* bytes of each file, and of Garbage
  Empty, Garbage,   \* what `body` holds at first, and after a read of freed memory
  NoLength,         \* a Content-Length that std::stoi rejects, or none; others are
                    \* what std::stoi makes of them, as a size_t
  MaxSize           \* places in fileCache

Contents == Files \cup {Empty, Garbage}
Lengths == Nat \cup {NoLength}
Methods == {"GET", "HEAD", "other"}
Codes == {"200 OK", "403 Forbidden", "404 Not_Found", "405 Method Not Allowed"}

ASSUME WorkerAssumption ==
  /\ Readers \subseteq Tasks
  /\ OnDisk \cup IndexFiles \subseteq Files
  /\ Size \in [Contents -> Nat]
  /\ Size[Empty] = 0
  /\ {Empty, Garbage, Dotted} \cap Files = {}
  /\ Empty # Garbage
  /\ None \notin Tasks \cup Codes \cup Contents
  /\ None \notin [count : Nat \ {0}, key : Files]
  /\ MaxSize \in Nat \ {0}
  /\ NoLength \notin Nat
  /\ Requests \subseteq [method : Methods, url : Files \cup {Dotted},
                         hasVersion : BOOLEAN, length : Lengths]

VARIABLES
  request,          \* the parsed header of each task's input
  tasks,            \* haveData
  state,            \* Worker::state, "reading" and "opening" being parts of MainFuncRunning
  currentTask,
  headers,
  body,             \* *Worker::body
  dangling,         \* workers whose reference into the cache is to an erased item
  cache_items_map, frequency_storage, lfu_storage,      \* fileCache
  sent,             \* the response to each task
  aborted           \* std::terminate was called

Cache == INSTANCE LFUCache WITH
  Keys <- Files, Values <- Contents, Absent <- None, MaxCount <- 0

cacheVars == <<cache_items_map, frequency_storage, lfu_storage>>
vars == <<request, tasks, state, currentTask, headers, body, dangling, cacheVars, sent, aborted>>

Headers == [method : Methods, url : Files \cup {Dotted}, hasVersion : BOOLEAN, length : Lengths,
            code : Codes \cup {None}]

Responses == [code : Codes \cup {None}, length : Lengths, body : Contents]

States == {"NoTask", "TaskReceived", "PreFuncRan", "reading", "opening", "MainFuncRan"}

TypeOK ==
  /\ request \in [Tasks -> Requests]
  /\ tasks \in SUBSET Tasks
  /\ state \in [Workers -> States]
  /\ currentTask \in [Workers -> Tasks \cup {None}]
  /\ headers \in [Workers -> Headers \cup {None}]
  /\ body \in [Workers -> Contents]
  /\ dangling \in SUBSET Workers
  /\ Cache!TypeOK
  /\ sent \in [Tasks -> Responses \cup {None}]
  /\ aborted \in BOOLEAN

(* Worker::Start, with requests complete and waiting. *)
Init ==
  /\ request \in [Tasks -> Requests]
  /\ tasks = Tasks
  /\ state = [w \in Workers |-> "NoTask"]
  /\ currentTask = [w \in Workers |-> None]
  /\ headers = [w \in Workers |-> None]
  /\ body = [w \in Workers |-> Empty]
  /\ dangling = {}
  /\ Cache!Init
  /\ sent = [t \in Tasks |-> None]
  /\ aborted = FALSE

-----------------------------------------------------------------------------
WorkerGoes(w, from, to) ==
  /\ state[w] = from
  /\ state' = [state EXCEPT ![w] = to]

TakeNewTask(w, t) ==
  /\ WorkerGoes(w, "NoTask", "TaskReceived")
  /\ t \in tasks
  /\ tasks' = tasks \ {t}
  /\ currentTask' = [currentTask EXCEPT ![w] = t]
  /\ UNCHANGED <<request, headers, body, dangling, cacheVars, sent, aborted>>

(* The headers that the request brings, Content-Length among them. *)
RequestHeaders(r) ==
  [method |-> r.method, url |-> r.url, hasVersion |-> r.hasVersion, length |-> r.length,
   code |-> None]

(* Mutant: `url` is inserted into headers that have one, and is not replaced. *)
PreProcessInsertsUrl(w) ==
  LET new == RequestHeaders(request[currentTask[w]])
  IN  /\ WorkerGoes(w, "TaskReceived", "PreFuncRan")
      /\ headers' = [headers EXCEPT ![w] = IF @ = None THEN new ELSE [new EXCEPT !.url = headers[w].url]]
      /\ UNCHANGED <<request, tasks, currentTask, body, dangling, cacheVars, sent, aborted>>

(* PreProcess assigns the request's body to its own parameter: the worker's *)
(* is what the last task left.                                              *)
PreProcess(w) ==
  /\ WorkerGoes(w, "TaskReceived", "PreFuncRan")
  /\ headers' = [headers EXCEPT ![w] = RequestHeaders(request[currentTask[w]])]
  /\ UNCHANGED <<request, tasks, currentTask, body, dangling, cacheVars, sent, aborted>>

-----------------------------------------------------------------------------
(* MainProcessBasic *)

(* The rest of MainProcessBasic after ReadFile has returned `bytes`. *)
Found(w, bytes) ==
  headers' = [headers EXCEPT ![w].code = "200 OK", ![w].length = bytes]

NotFound(w) ==
  headers' = [headers EXCEPT
    ![w].code = IF headers[w].url \in IndexFiles THEN "403 Forbidden" ELSE "404 Not_Found",
    ![w].length = 0]

(* The method is neither GET nor HEAD: Content-Length is left as it came. *)
NotAllowed(w) ==
  /\ WorkerGoes(w, "PreFuncRan", "MainFuncRan")
  /\ headers[w].method = "other"
  /\ headers' = [headers EXCEPT ![w].code = "405 Method Not Allowed"]
  /\ UNCHANGED <<request, tasks, currentTask, body, dangling, cacheVars, sent, aborted>>

Forbidden(w) ==
  /\ WorkerGoes(w, "PreFuncRan", "MainFuncRan")
  /\ headers[w].method # "other"
  /\ headers[w].url = Dotted
  /\ headers' = [headers EXCEPT ![w].code = "403 Forbidden", ![w].length = 0]
  /\ UNCHANGED <<request, tasks, currentTask, body, dangling, cacheVars, sent, aborted>>

CacheHits(w) ==
  /\ WorkerGoes(w, "PreFuncRan", "reading")
  /\ headers[w].method # "other"
  /\ headers[w].url # Dotted
  /\ Cache!Get(headers[w].url)
  /\ UNCHANGED <<request, tasks, currentTask, headers, body, dangling, sent, aborted>>

CacheMisses(w) ==
  /\ WorkerGoes(w, "PreFuncRan", "opening")
  /\ headers[w].method # "other"
  /\ headers[w].url \in Files \ Cache!Cached
  /\ UNCHANGED <<request, tasks, currentTask, headers, body, dangling, cacheVars, sent, aborted>>

(* Mutant: GET is answered without copying the item. *)
ReadsOnlySize(w) ==
  /\ WorkerGoes(w, "reading", "MainFuncRan")
  /\ w \notin dangling
  /\ Found(w, Size[cache_items_map[headers[w].url]])
  /\ UNCHANGED <<request, tasks, currentTask, body, dangling, cacheVars, sent, aborted>>

(* The referred item is there: GET copies it, HEAD asks for its size.  An   *)
(* Update meanwhile assigned the same bytes in place.                       *)
ReadsCached(w) ==
  /\ WorkerGoes(w, "reading", "MainFuncRan")
  /\ w \notin dangling
  /\ LET content == cache_items_map[headers[w].url]
     IN  /\ Found(w, Size[content])
         /\ body' = IF headers[w].method = "GET" THEN [body EXCEPT ![w] = content] ELSE body
  /\ UNCHANGED <<request, tasks, currentTask, dangling, cacheVars, sent, aborted>>

(* The item was erased: its memory still holds the file, or something else. *)
ReadsFreed(w, content) ==
  /\ WorkerGoes(w, "reading", "MainFuncRan")
  /\ w \in dangling
  /\ content \in {headers[w].url, Garbage}
  /\ Found(w, Size[content])
  /\ body' = IF headers[w].method = "GET" THEN [body EXCEPT ![w] = content] ELSE body
  /\ dangling' = dangling \ {w}
  /\ UNCHANGED <<request, tasks, currentTask, cacheVars, sent, aborted>>

(* Or it is not mapped any more. *)
CrashesOnFreed(w) ==
  /\ state[w] = "reading"
  /\ w \in dangling
  /\ aborted' = TRUE
  /\ UNCHANGED <<request, tasks, state, currentTask, headers, body, dangling, cacheVars, sent>>

CannotOpen(w) ==
  /\ WorkerGoes(w, "opening", "MainFuncRan")
  /\ headers[w].url \notin OnDisk
  /\ NotFound(w)
  /\ UNCHANGED <<request, tasks, currentTask, body, dangling, cacheVars, sent, aborted>>

TellsSize(w) ==
  /\ WorkerGoes(w, "opening", "MainFuncRan")
  /\ headers[w].url \in OnDisk
  /\ headers[w].method = "HEAD"
  /\ Found(w, Size[headers[w].url])
  /\ UNCHANGED <<request, tasks, currentTask, body, dangling, cacheVars, sent, aborted>>

(* References to an item that this Put erased. *)
LeavesDangling ==
  dangling' = dangling \cup
    {v \in Workers : state[v] = "reading" /\ cache_items_map'[headers[v].url] = None}

(* Mutant: *body is put into the cache before the file is read into it. *)
PutsBeforeReading(w) ==
  /\ WorkerGoes(w, "opening", "MainFuncRan")
  /\ headers[w].url \in OnDisk
  /\ headers[w].method = "GET"
  /\ Cache!Put(headers[w].url, body[w])
  /\ LeavesDangling
  /\ body' = [body EXCEPT ![w] = headers[w].url]
  /\ Found(w, Size[headers[w].url])
  /\ UNCHANGED <<request, tasks, currentTask, sent, aborted>>

ReadsFile(w) ==
  /\ WorkerGoes(w, "opening", "MainFuncRan")
  /\ headers[w].url \in OnDisk
  /\ headers[w].method = "GET"
  /\ body' = [body EXCEPT ![w] = headers[w].url]
  /\ Cache!Put(headers[w].url, body'[w])
  /\ LeavesDangling
  /\ Found(w, Size[headers[w].url])
  /\ UNCHANGED <<request, tasks, currentTask, sent, aborted>>

ReadFile(w) ==
  \/ CacheHits(w)
  \/ CacheMisses(w)
  \/ ReadsCached(w)
  \/ \E content \in Contents : ReadsFreed(w, content)
  \/ CrashesOnFreed(w)
  \/ CannotOpen(w)
  \/ TellsSize(w)
  \/ ReadsFile(w)

-----------------------------------------------------------------------------
(* PostProcess: HttpResponse, and HTTPClient::Send, which closes the socket  *)
(* when ::send returns.                                                      *)

(* Mutant: only the Content-Length is checked. *)
StoiThrows(h) == h.length = NoLength

(* std::stoi throws, or OldVersionException is thrown. *)
HttpResponseThrows(h) ==
  \/ h.length = NoLength
  \/ ~h.hasVersion /\ h.method # "GET"

(* Without an HTTP version the response has no header.  The size of a body  *)
(* that is not empty is inserted first, and wins.                           *)
HttpResponse(h, content) ==
  IF h.hasVersion
  THEN [code |-> h.code,
        length |-> IF Size[content] > 0 THEN Size[content] ELSE h.length,
        body |-> content]
  ELSE [code |-> None, length |-> NoLength, body |-> content]

(* Mutant: the state after PostProcess is not NoTask. *)
PostProcessKeepsState(w) ==
  /\ state[w] = "MainFuncRan"
  /\ ~HttpResponseThrows(headers[w])
  /\ sent' = [sent EXCEPT ![currentTask[w]] = HttpResponse(headers[w], body[w])]
  /\ UNCHANGED <<request, tasks, state, currentTask, headers, body, dangling, cacheVars, aborted>>

PostProcess(w) ==
  /\ WorkerGoes(w, "MainFuncRan", "NoTask")
  /\ ~HttpResponseThrows(headers[w])
  /\ sent' = [sent EXCEPT ![currentTask[w]] = HttpResponse(headers[w], body[w])]
  /\ currentTask' = [currentTask EXCEPT ![w] = None]
  /\ UNCHANGED <<request, tasks, headers, body, dangling, cacheVars, aborted>>

(* Nothing catches what HttpResponse throws. *)
PostProcessThrows(w) ==
  /\ state[w] = "MainFuncRan"
  /\ HttpResponseThrows(headers[w])
  /\ aborted' = TRUE
  /\ UNCHANGED <<request, tasks, state, currentTask, headers, body, dangling, cacheVars, sent>>

WorkerLoop(w) ==
  \/ \E t \in Tasks : TakeNewTask(w, t)
  \/ PreProcess(w)
  \/ NotAllowed(w)
  \/ Forbidden(w)
  \/ ReadFile(w)
  \/ PostProcess(w)
  \/ PostProcessThrows(w)

Next ==
  /\ ~aborted
  /\ \E w \in Workers : WorkerLoop(w)

Spec == Init /\ [][Next]_vars

(* The worker sends to a client that does not read. *)
Writing(w) ==
  /\ state[w] = "MainFuncRan"
  /\ ~HttpResponseThrows(headers[w])
  /\ currentTask[w] \notin Readers

(* A worker's thread runs as long as it can.  The sockets block: ::send     *)
(* returns in the end only when the client reads.                           *)
FairSpec == Spec /\ \A w \in Workers : WF_vars(~aborted /\ ~Writing(w) /\ WorkerLoop(w))

-----------------------------------------------------------------------------
Answered == {t \in Tasks : sent[t] # None}

(* What a request should be answered with. *)
Status(r) ==
  CASE r.method = "other" -> "405 Method Not Allowed"
    [] r.method # "other" /\ r.url \in OnDisk -> "200 OK"
    [] r.method # "other" /\ r.url \in {Dotted} \cup (IndexFiles \ OnDisk) -> "403 Forbidden"
    [] OTHER -> "404 Not_Found"

(* The status is that of the client's own request, whatever the worker and  *)
(* the cache hold of other tasks.                                           *)
OwnStatus ==
  \A t \in Answered : request[t].hasVersion => sent[t].code = Status(request[t])

(* A successful GET is answered with the bytes of its own file and their    *)
(* number, although headers, body and cache outlive tasks, or with what is  *)
(* in the memory of an item that another worker's Put erased meanwhile      *)
(* (TaskFuncs.cpp:46) and its number: never with an earlier task's file.    *)
WholeFiles ==
  \A t \in Answered : request[t].method = "GET" /\ request[t].url \in OnDisk =>
    /\ sent[t].body \in {request[t].url, Garbage}
    /\ request[t].hasVersion => sent[t].length = Size[sent[t].body]

(* What the cache holds for a file is the file, even when a worker has got  *)
(* freed memory from it.                                                    *)
CacheHoldsFiles ==
  \A f \in Cache!Cached : f \in OnDisk /\ cache_items_map[f] = f

(* The requests that make HttpResponse throw, as Server's `outcome` has it: *)
(* it is a matter of the request alone.  Only an erased item can end the    *)
(* process as well.                                                         *)
Aborts(r) ==
  /\ r.method # "GET"
  /\ ~r.hasVersion \/ (r.method = "other" /\ r.length = NoLength)

OutcomeIsTheRequests ==
  /\ \A t \in Answered : ~Aborts(request[t])
  /\ aborted => \/ dangling # {}
                \/ \E t \in Tasks \ (tasks \cup Answered) : Aborts(request[t])

(* Every complete request is answered, unless some worker brings the        *)
(* process down or its client does not read the response.  Clients that do  *)
(* not read must leave a worker to the others again and again.              *)
TasksAreAnswered ==
  ([]<>(\E w \in Workers : ~Writing(w))) =>
    \A t \in Tasks : t \in tasks ~>
      \/ t \in Answered
      \/ \E w \in Workers : currentTask[w] = t /\ Writing(w)
      \/ aborted
=============================================================================
