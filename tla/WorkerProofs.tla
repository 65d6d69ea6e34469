---------------------------- MODULE WorkerProofs ----------------------------
(***************************************************************************)
(* What clients are sent, for any number of workers and tasks, any files   *)
(* and any size of the cache.                                              *)
(***************************************************************************)
EXTENDS Worker, TLAPS

-----------------------------------------------------------------------------
(* A task that is not waiting any more and not answered yet is one worker's. *)
TasksApart ==
  /\ tasks \cap Answered = {}
  /\ \A w \in Workers :
       /\ state[w] = "NoTask" <=> currentTask[w] = None
       /\ currentTask[w] # None => currentTask[w] \notin tasks \cup Answered
       /\ \A v \in Workers : currentTask[w] # None /\ currentTask[v] = currentTask[w] => v = w

(* The request that a worker is busy with. *)
Request(w) == request[currentTask[w]]

(* From PreProcess on, `headers` has the fields of the worker's own request. *)
HeadersAreOwn ==
  \A w \in Workers : state[w] \in {"PreFuncRan", "reading", "opening", "MainFuncRan"} =>
    /\ headers[w] \in Headers
    /\ headers[w].method = Request(w).method
    /\ headers[w].url = Request(w).url
    /\ headers[w].hasVersion = Request(w).hasVersion
    /\ state[w] # "MainFuncRan" \/ headers[w].method = "other" =>
         headers[w].length = Request(w).length

(* A file is only read for GET and HEAD, and a reference into the cache is  *)
(* to an item that is there or is known to dangle.                          *)
ReadersHaveFiles ==
  /\ \A w \in Workers : state[w] \in {"reading", "opening"} =>
       headers[w].method # "other" /\ headers[w].url \in Files
  /\ \A w \in Workers : state[w] = "reading" =>
       headers[w].url \in OnDisk /\ (w \in dangling \/ headers[w].url \in Cache!Cached)
  /\ \A w \in dangling : state[w] = "reading"

(* What MainProcessBasic leaves for PostProcess. *)
OutcomeIsReady ==
  \A w \in Workers : state[w] = "MainFuncRan" =>
    /\ headers[w].code = Status(Request(w))
    /\ headers[w].method # "other" => headers[w].length \in Nat
    /\ headers[w].method = "GET" /\ headers[w].url \in OnDisk =>
         body[w] \in {headers[w].url, Garbage} /\ headers[w].length = Size[body[w]]

(* The types that the steps need, without the policy's containers. *)
Types ==
  /\ request \in [Tasks -> Requests]
  /\ tasks \in SUBSET Tasks
  /\ state \in [Workers -> States]
  /\ currentTask \in [Workers -> Tasks \cup {None}]
  /\ headers \in [Workers -> Headers \cup {None}]
  /\ body \in [Workers -> Contents]
  /\ dangling \in SUBSET Workers
  /\ cache_items_map \in [Files -> Contents \cup {None}]
  /\ sent \in [Tasks -> Responses \cup {None}]
  /\ aborted \in BOOLEAN

IndInv ==
  /\ Types
  /\ TasksApart
  /\ HeadersAreOwn
  /\ ReadersHaveFiles
  /\ OutcomeIsReady
  /\ CacheHoldsFiles
  /\ OwnStatus /\ WholeFiles /\ OutcomeIsTheRequests

-----------------------------------------------------------------------------
(* Invariance *)

LEMMA InitInv == Init => IndInv
<1>. SUFFICES ASSUME Init
              PROVE  IndInv
  OBVIOUS
<1>1. None \notin Tasks /\ Empty \in Contents
  BY WorkerAssumption DEF Contents
<1>2. cache_items_map = [f \in Files |-> None]
  BY DEF Init, Cache!Init
<1>3. Types
  BY <1>1, <1>2 DEF Init, Types, States
<1>4. Answered = {}
  BY DEF Init, Answered
<1>5. TasksApart
  BY <1>4 DEF Init, TasksApart
<1>6. HeadersAreOwn /\ ReadersHaveFiles /\ OutcomeIsReady
  BY DEF Init, HeadersAreOwn, ReadersHaveFiles, OutcomeIsReady
<1>7. CacheHoldsFiles
  BY <1>2 DEF CacheHoldsFiles, Cache!Cached
<1>. QED
  BY <1>3, <1>4, <1>5, <1>6, <1>7 DEF IndInv, OwnStatus, WholeFiles, OutcomeIsTheRequests, Init

(* A worker between two of its tasks' steps: what it has been sent to do is  *)
(* its own request, of these types.                                          *)
LEMMA OwnRequest ==
  ASSUME IndInv, NEW w \in Workers, state[w] # "NoTask"
  PROVE  /\ currentTask[w] \in Tasks /\ Request(w) \in Requests
         /\ Request(w).method \in Methods /\ Request(w).url \in Files \cup {Dotted}
         /\ Request(w).hasVersion \in BOOLEAN /\ Request(w).length \in Lengths
<1>1. currentTask[w] \in Tasks
  BY DEF IndInv, Types, TasksApart
<1>2. Request(w) \in Requests
  BY <1>1 DEF IndInv, Types, Request
<1>. QED
  BY <1>1, <1>2, WorkerAssumption

(* A step within a task disturbs no other task and nothing that was sent.    *)
LEMMA WithinTask ==
  ASSUME IndInv, ~aborted, NEW w \in Workers, state[w] # "NoTask",
         NEW to \in States \ {"NoTask"}, state' = [state EXCEPT ![w] = to],
         UNCHANGED <<request, tasks, currentTask, sent, aborted>>
  PROVE  /\ TasksApart' /\ OwnStatus' /\ WholeFiles' /\ OutcomeIsTheRequests'
         /\ \A v \in Workers : Request(v)' = Request(v)
         /\ state' \in [Workers -> States]
<1>. USE DEF IndInv
<1>1. Answered' = Answered
  BY DEF Answered
<1>2. TasksApart'
  BY <1>1 DEF TasksApart, Types
<1>3. OwnStatus' /\ WholeFiles' /\ OutcomeIsTheRequests'
  BY <1>1 DEF OwnStatus, WholeFiles, OutcomeIsTheRequests
<1>. QED
  BY <1>2, <1>3 DEF Request, Types

LEMMA TakeNewTaskInv ==
  ASSUME IndInv, ~aborted, NEW w \in Workers, NEW t \in Tasks, TakeNewTask(w, t)
  PROVE  IndInv'
<1>. USE DEF IndInv, TakeNewTask, WorkerGoes
<1>1. Answered' = Answered /\ None \notin Tasks
  BY WorkerAssumption DEF Answered
<1>2. Types'
  BY DEF Types, States, cacheVars
<1>3. TasksApart'
  BY <1>1 DEF TasksApart, Types
<1>4. \A v \in Workers : v # w => Request(v)' = Request(v)
  BY DEF Request, Types
<1>5. HeadersAreOwn' /\ ReadersHaveFiles' /\ OutcomeIsReady' /\ CacheHoldsFiles'
  BY <1>4 DEF HeadersAreOwn, ReadersHaveFiles, OutcomeIsReady, Types, CacheHoldsFiles, cacheVars, Cache!Cached
<1>6. OwnStatus' /\ WholeFiles' /\ OutcomeIsTheRequests'
  BY <1>1 DEF OwnStatus, WholeFiles, OutcomeIsTheRequests
<1>. QED
  BY <1>2, <1>3, <1>5, <1>6

LEMMA PreProcessInv ==
  ASSUME IndInv, ~aborted, NEW w \in Workers, PreProcess(w)
  PROVE  IndInv'
<1>. USE DEF IndInv, PreProcess, WorkerGoes
<1>1. /\ TasksApart' /\ OwnStatus' /\ WholeFiles' /\ OutcomeIsTheRequests'
      /\ \A v \in Workers : Request(v)' = Request(v)
      /\ state' \in [Workers -> States]
  BY WithinTask DEF States
<1>2. RequestHeaders(Request(w)) \in Headers
  BY OwnRequest DEF RequestHeaders, Headers
<1>3. headers' = [headers EXCEPT ![w] = RequestHeaders(Request(w))]
  BY DEF Request
<1>4. Types'
  BY <1>1, <1>2, <1>3 DEF Types, cacheVars
<1>5. HeadersAreOwn'
  BY <1>1, <1>2, <1>3 DEF HeadersAreOwn, RequestHeaders, Types
<1>6. ReadersHaveFiles' /\ OutcomeIsReady' /\ CacheHoldsFiles'
  BY <1>1, <1>3 DEF ReadersHaveFiles, OutcomeIsReady, Types, CacheHoldsFiles, cacheVars, Cache!Cached
<1>. QED
  BY <1>1, <1>4, <1>5, <1>6

(* A step that ends MainProcessBasic with a code, a length and bytes for the *)
(* worker's request. *)
EndsWith(w, code, length, bytes) ==
  /\ state[w] \in {"PreFuncRan", "reading", "opening"}
  /\ state' = [state EXCEPT ![w] = "MainFuncRan"]
  /\ UNCHANGED <<request, tasks, currentTask, sent, aborted>>
  /\ code \in Codes /\ code = Status(Request(w))
  /\ length \in Lengths
  /\ headers[w].method = "other" => length = headers[w].length
  /\ headers[w].method # "other" => length \in Nat
  /\ headers' = [headers EXCEPT ![w] = [@ EXCEPT !.code = code, !.length = length]]
  /\ bytes \in Contents /\ body' = [body EXCEPT ![w] = bytes]
  /\ headers[w].method = "GET" /\ headers[w].url \in OnDisk =>
       bytes \in {headers[w].url, Garbage} /\ length = Size[bytes]

(* What the step of one worker must leave to the others: the cache holds     *)
(* files, and a reader has an item or is known to dangle.                    *)
LeavesReaders(w) ==
  /\ cache_items_map' \in [Files -> Contents \cup {None}]
  /\ CacheHoldsFiles'
  /\ dangling' \in SUBSET (Workers \ {w})
  /\ \A v \in dangling' : state[v] = "reading"
  /\ \A v \in Workers \ {w} : state[v] = "reading" =>
       v \in dangling' \/ headers[v].url \in Cache!Cached'

LEMMA EndsMain ==
  ASSUME IndInv, ~aborted, NEW w \in Workers,
         NEW code, NEW length, NEW bytes, EndsWith(w, code, length, bytes), LeavesReaders(w)
  PROVE  IndInv'
<1>. USE DEF IndInv, EndsWith, LeavesReaders
<1>1. /\ TasksApart' /\ OwnStatus' /\ WholeFiles' /\ OutcomeIsTheRequests'
      /\ \A v \in Workers : Request(v)' = Request(v)
      /\ state' \in [Workers -> States]
  BY WithinTask DEF States
<1>2. /\ headers[w] \in Headers /\ headers[w].method = Request(w).method
      /\ headers[w].url = Request(w).url /\ headers[w].hasVersion = Request(w).hasVersion
      /\ headers[w].length = Request(w).length
  BY DEF HeadersAreOwn
<1>. DEFINE after == [headers[w] EXCEPT !.code = code, !.length = length]
<1>3. /\ after \in Headers /\ after.method = Request(w).method
      /\ after.url = Request(w).url /\ after.hasVersion = Request(w).hasVersion
      /\ after.code = code /\ after.length = length
  BY <1>2 DEF Headers
<1>4. headers' = [headers EXCEPT ![w] = after]
  OBVIOUS
<1>. HIDE DEF after
<1>5. Types'
  BY <1>1, <1>3, <1>4 DEF Types
<1>6. HeadersAreOwn'
  BY <1>1, <1>2, <1>3, <1>4 DEF HeadersAreOwn, Types
<1>7. ReadersHaveFiles'
  BY <1>4 DEF ReadersHaveFiles, Types
<1>8. OutcomeIsReady'
  <2>. SUFFICES ASSUME NEW v \in Workers, state'[v] = "MainFuncRan"
                PROVE  /\ headers'[v].code = Status(Request(v))'
                       /\ headers'[v].method # "other" => headers'[v].length \in Nat
                       /\ headers'[v].method = "GET" /\ headers'[v].url \in OnDisk =>
                            body'[v] \in {headers'[v].url, Garbage} /\ headers'[v].length = Size[body'[v]]
    BY DEF OutcomeIsReady
  <2>1. Status(Request(v))' = Status(Request(v))
    BY <1>1 DEF Status
  <2>2. CASE v = w
    BY <2>1, <2>2, <1>2, <1>3, <1>4 DEF Types
  <2>3. CASE v # w
    BY <2>1, <2>3, <1>4 DEF Types, OutcomeIsReady
  <2>. QED
    BY <2>2, <2>3
<1>. QED
  BY <1>1, <1>5, <1>6, <1>7, <1>8

(* What the worker knows when it looks at its headers. *)
LEMMA OwnHeaders ==
  ASSUME IndInv, NEW w \in Workers, state[w] \in {"PreFuncRan", "reading", "opening", "MainFuncRan"}
  PROVE  /\ headers[w] \in Headers
         /\ headers[w].method \in Methods /\ headers[w].url \in Files \cup {Dotted}
         /\ headers[w].length \in Lengths /\ body[w] \in Contents
         /\ headers[w].method = Request(w).method /\ headers[w].url = Request(w).url
         /\ headers[w].hasVersion = Request(w).hasVersion
BY DEF IndInv, HeadersAreOwn, Headers, Types

(* A step that leaves cache and references alone leaves the other readers   *)
(* as they were.                                                            *)
LEMMA OtherReaders ==
  ASSUME IndInv, NEW w \in Workers, UNCHANGED cache_items_map, dangling' = dangling \ {w}
  PROVE  LeavesReaders(w)
BY DEF IndInv, Types, CacheHoldsFiles, Cache!Cached, ReadersHaveFiles, LeavesReaders

(* A worker that is not reading has no reference. *)
LEMMA NotDangling ==
  ASSUME IndInv, NEW w \in Workers, state[w] # "reading"
  PROVE  dangling = dangling \ {w}
BY DEF IndInv, ReadersHaveFiles

LEMMA NotAllowedInv ==
  ASSUME IndInv, ~aborted, NEW w \in Workers, NotAllowed(w)
  PROVE  IndInv'
<1>. DEFINE code == "405 Method Not Allowed"
<1>1. LeavesReaders(w)
  BY NotDangling, OtherReaders DEF NotAllowed, WorkerGoes, cacheVars
<1>2. headers' = [headers EXCEPT ![w] = [@ EXCEPT !.code = code, !.length = headers[w].length]]
  BY OwnHeaders DEF Headers, NotAllowed, WorkerGoes
<1>3. code = Status(Request(w)) /\ code \in Codes
  BY OwnHeaders DEF Status, Codes, NotAllowed, WorkerGoes
<1>4. body' = [body EXCEPT ![w] = body[w]]
  BY DEF IndInv, Types, NotAllowed
<1>5. EndsWith(w, code, headers[w].length, body[w])
  BY <1>2, <1>3, <1>4, OwnHeaders DEF NotAllowed, WorkerGoes, EndsWith
<1>. QED
  BY <1>1, <1>5, EndsMain

LEMMA ForbiddenInv ==
  ASSUME IndInv, ~aborted, NEW w \in Workers, Forbidden(w)
  PROVE  IndInv'
<1>. DEFINE code == "403 Forbidden"
<1>1. LeavesReaders(w)
  BY NotDangling, OtherReaders DEF Forbidden, WorkerGoes, cacheVars
<1>2. headers' = [headers EXCEPT ![w] = [@ EXCEPT !.code = code, !.length = 0]]
  BY OwnHeaders DEF Headers, Forbidden, WorkerGoes
<1>3. Dotted \notin OnDisk /\ 0 \in Lengths
  BY WorkerAssumption DEF Lengths
<1>4. code = Status(Request(w)) /\ code \in Codes
  BY <1>3, OwnHeaders DEF Status, Codes, Forbidden, WorkerGoes
<1>5. body' = [body EXCEPT ![w] = body[w]]
  BY DEF IndInv, Types, Forbidden
<1>6. EndsWith(w, code, 0, body[w])
  BY <1>2, <1>3, <1>4, <1>5, OwnHeaders DEF Forbidden, WorkerGoes, EndsWith
<1>. QED
  BY <1>1, <1>6, EndsMain

LEMMA CannotOpenInv ==
  ASSUME IndInv, ~aborted, NEW w \in Workers, CannotOpen(w)
  PROVE  IndInv'
<1>. DEFINE code == IF headers[w].url \in IndexFiles THEN "403 Forbidden" ELSE "404 Not_Found"
<1>1. LeavesReaders(w)
  BY NotDangling, OtherReaders DEF CannotOpen, WorkerGoes, cacheVars
<1>2. headers' = [headers EXCEPT ![w] = [@ EXCEPT !.code = code, !.length = 0]]
  BY OwnHeaders DEF Headers, NotFound, CannotOpen, WorkerGoes
<1>3. /\ headers[w].method # "other" /\ headers[w].url \in Files
      /\ Dotted \notin Files /\ 0 \in Lengths
  BY WorkerAssumption DEF Lengths, IndInv, ReadersHaveFiles, CannotOpen, WorkerGoes
<1>4. code = Status(Request(w)) /\ code \in Codes
  BY <1>3, OwnHeaders DEF Status, Codes, CannotOpen, WorkerGoes
<1>5. body' = [body EXCEPT ![w] = body[w]]
  BY DEF IndInv, Types, CannotOpen
<1>. HIDE DEF code
<1>6. EndsWith(w, code, 0, body[w])
  BY <1>2, <1>3, <1>4, <1>5, OwnHeaders DEF CannotOpen, WorkerGoes, EndsWith
<1>. QED
  BY <1>1, <1>6, EndsMain

(* MainProcessBasic answers 200 with the size of what it has read. *)
LEMMA FoundEnds ==
  ASSUME IndInv, ~aborted, NEW w \in Workers, state[w] \in {"reading", "opening"},
         headers[w].url \in OnDisk,
         state' = [state EXCEPT ![w] = "MainFuncRan"],
         UNCHANGED <<request, tasks, currentTask, sent, aborted>>,
         NEW content \in {headers[w].url, Garbage}, Found(w, Size[content]),
         body' = IF headers[w].method = "GET" THEN [body EXCEPT ![w] = content] ELSE body,
         LeavesReaders(w)
  PROVE  IndInv'
<1>1. /\ headers[w].method # "other" /\ headers[w].url \in Files /\ Dotted \notin Files
      /\ content \in Contents
  BY WorkerAssumption DEF IndInv, ReadersHaveFiles, Contents
<1>2. Size[content] \in Nat /\ Size[content] \in Lengths
  BY <1>1, WorkerAssumption DEF Lengths
<1>3. headers' = [headers EXCEPT ![w] = [@ EXCEPT !.code = "200 OK", !.length = Size[content]]]
  BY OwnHeaders DEF Headers, Found
<1>4. "200 OK" = Status(Request(w)) /\ "200 OK" \in Codes
  BY <1>1, OwnHeaders DEF Status, Codes
<1>. DEFINE bytes == IF headers[w].method = "GET" THEN content ELSE body[w]
<1>5. /\ body' = [body EXCEPT ![w] = bytes] /\ bytes \in Contents
      /\ headers[w].method = "GET" => bytes = content
  BY <1>1 DEF IndInv, Types
<1>. HIDE DEF bytes
<1>6. EndsWith(w, "200 OK", Size[content], bytes)
  BY <1>1, <1>2, <1>3, <1>4, <1>5 DEF EndsWith
<1>. QED
  BY <1>6, EndsMain

LEMMA TellsSizeInv ==
  ASSUME IndInv, ~aborted, NEW w \in Workers, TellsSize(w)
  PROVE  IndInv'
<1>1. LeavesReaders(w)
  BY NotDangling, OtherReaders DEF TellsSize, WorkerGoes, cacheVars
<1>. QED
  BY <1>1, FoundEnds DEF TellsSize, WorkerGoes

LEMMA ReadsCachedInv ==
  ASSUME IndInv, ~aborted, NEW w \in Workers, ReadsCached(w)
  PROVE  IndInv'
<1>1. LeavesReaders(w)
  BY OtherReaders DEF ReadsCached, cacheVars
<1>2. headers[w].url \in OnDisk /\ cache_items_map[headers[w].url] = headers[w].url
  BY DEF ReadsCached, WorkerGoes, IndInv, ReadersHaveFiles, CacheHoldsFiles
<1>. QED
  BY <1>1, <1>2, FoundEnds DEF ReadsCached, WorkerGoes

LEMMA ReadsFreedInv ==
  ASSUME IndInv, ~aborted, NEW w \in Workers, NEW content \in Contents, ReadsFreed(w, content)
  PROVE  IndInv'
<1>1. LeavesReaders(w)
  BY OtherReaders DEF ReadsFreed, cacheVars
<1>2. headers[w].url \in OnDisk
  BY DEF ReadsFreed, WorkerGoes, IndInv, ReadersHaveFiles
<1>. QED
  BY <1>1, <1>2, FoundEnds DEF ReadsFreed, WorkerGoes

(* Put changes the items of the key and of at most one victim. *)
LEMMA PutItems ==
  ASSUME IndInv, NEW f \in OnDisk, Cache!Put(f, f)
  PROVE  cache_items_map' \in [Files -> Contents \cup {None}] /\ CacheHoldsFiles'
<1>1. f \in Files /\ f \in Contents
  BY WorkerAssumption DEF Contents
<1>2. PICK victim : \/ cache_items_map' = [cache_items_map EXCEPT ![f] = f]
                    \/ cache_items_map' = [cache_items_map EXCEPT ![victim] = None, ![f] = f]
  BY DEF Cache!Put, Cache!PutNew, Cache!PutReplacing, Cache!PutCached
<1>. QED
  BY <1>1, <1>2 DEF IndInv, Types, CacheHoldsFiles, Cache!Cached

LEMMA ReadsFileInv ==
  ASSUME IndInv, ~aborted, NEW w \in Workers, ReadsFile(w)
  PROVE  IndInv'
<1>1. /\ state[w] = "opening" /\ headers[w].url \in OnDisk
      /\ body' = [body EXCEPT ![w] = headers[w].url] /\ body'[w] = headers[w].url
      /\ Cache!Put(headers[w].url, body'[w])
  BY DEF ReadsFile, WorkerGoes, IndInv, Types
<1>2. cache_items_map' \in [Files -> Contents \cup {None}] /\ CacheHoldsFiles'
  BY <1>1, PutItems
<1>3. /\ dangling' \in SUBSET (Workers \ {w})
      /\ \A v \in dangling' : state[v] = "reading"
      /\ \A v \in Workers \ {w} : state[v] = "reading" =>
           v \in dangling' \/ headers[v].url \in Cache!Cached'
  <2>1. dangling' = dangling \cup
          {v \in Workers : state[v] = "reading" /\ cache_items_map'[headers[v].url] = None}
    BY DEF ReadsFile, LeavesDangling
  <2>. QED
    BY <2>1, <1>1, NotDangling DEF IndInv, Types, ReadersHaveFiles, Cache!Cached
<1>4. LeavesReaders(w)
  BY <1>2, <1>3 DEF LeavesReaders
<1>. QED
  BY <1>1, <1>4, FoundEnds DEF ReadsFile, WorkerGoes

(* A worker that starts to read is at its place; nothing else changes. *)
LEMMA StartsToRead ==
  ASSUME IndInv, ~aborted, NEW w \in Workers, state[w] = "PreFuncRan",
         headers[w].method # "other", headers[w].url \in Files,
         NEW to \in {"reading", "opening"}, state' = [state EXCEPT ![w] = to],
         to = "reading" => headers[w].url \in Cache!Cached,
         UNCHANGED <<request, tasks, currentTask, headers, body, dangling, cache_items_map, sent, aborted>>
  PROVE  IndInv'
<1>1. /\ TasksApart' /\ OwnStatus' /\ WholeFiles' /\ OutcomeIsTheRequests'
      /\ \A v \in Workers : Request(v)' = Request(v)
      /\ state' \in [Workers -> States]
  BY WithinTask DEF States
<1>2. Types'
  BY <1>1 DEF IndInv, Types
<1>3. CacheHoldsFiles' /\ (to = "reading" => headers[w].url \in OnDisk)
  BY DEF IndInv, CacheHoldsFiles, Cache!Cached
<1>4. ReadersHaveFiles'
  BY <1>3 DEF IndInv, Types, ReadersHaveFiles, Cache!Cached
<1>5. HeadersAreOwn'
  BY <1>1 DEF IndInv, Types, HeadersAreOwn
<1>6. OutcomeIsReady'
  BY DEF IndInv, Types, OutcomeIsReady, Status, Request
<1>. QED
  BY <1>1, <1>2, <1>3, <1>4, <1>5, <1>6 DEF IndInv

LEMMA CacheHitsInv ==
  ASSUME IndInv, ~aborted, NEW w \in Workers, CacheHits(w)
  PROVE  IndInv'
<1>1. headers[w].url \in Files /\ headers[w].url \in Cache!Cached
  BY DEF CacheHits, Cache!Get, Cache!Cached
<1>. QED
  BY <1>1, StartsToRead DEF CacheHits, WorkerGoes, Cache!Get

LEMMA CacheMissesInv ==
  ASSUME IndInv, ~aborted, NEW w \in Workers, CacheMisses(w)
  PROVE  IndInv'
BY StartsToRead DEF CacheMisses, WorkerGoes, cacheVars

(* The process ends with a worker between taking its task and answering it.  *)
LEMMA AbortInv ==
  ASSUME IndInv, ~aborted, NEW w \in Workers, aborted' = TRUE,
         w \in dangling \/ (state[w] # "NoTask" /\ Aborts(Request(w))),
         UNCHANGED <<request, tasks, state, currentTask, headers, body, dangling, cacheVars, sent>>
  PROVE  IndInv'
<1>1. /\ Types' /\ TasksApart' /\ HeadersAreOwn' /\ ReadersHaveFiles' /\ CacheHoldsFiles'
      /\ OwnStatus' /\ WholeFiles'
  BY DEF IndInv, Types, TasksApart, HeadersAreOwn, ReadersHaveFiles, CacheHoldsFiles, OwnStatus,
         WholeFiles, Answered, Request, cacheVars, Cache!Cached
<1>2. OutcomeIsReady'
  BY DEF IndInv, OutcomeIsReady, Status, Request
<1>3. dangling # {} \/ \E t \in Tasks \ (tasks \cup Answered) : Aborts(request[t])
  <2>1. CASE w \in dangling
    BY <2>1
  <2>2. CASE state[w] # "NoTask" /\ Aborts(Request(w))
    <3>1. currentTask[w] \in Tasks \ (tasks \cup Answered)
      BY <2>2 DEF IndInv, Types, TasksApart
    <3>. QED
      BY <3>1, <2>2 DEF Request
  <2>. QED
    BY <2>1, <2>2
<1>4. OutcomeIsTheRequests'
  BY <1>3 DEF IndInv, OutcomeIsTheRequests, Answered, Aborts
<1>. QED
  BY <1>1, <1>2, <1>4 DEF IndInv

LEMMA CrashesOnFreedInv ==
  ASSUME IndInv, ~aborted, NEW w \in Workers, CrashesOnFreed(w)
  PROVE  IndInv'
BY AbortInv DEF CrashesOnFreed

(* HttpResponse throws for the requests of Aborts, and for no other. *)
LEMMA ThrowsAsAborts ==
  ASSUME IndInv, NEW w \in Workers, state[w] = "MainFuncRan"
  PROVE  HttpResponseThrows(headers[w]) <=> Aborts(Request(w))
<1>1. /\ headers[w].method = Request(w).method /\ headers[w].hasVersion = Request(w).hasVersion
      /\ headers[w].method # "other" => headers[w].length \in Nat
      /\ headers[w].method = "other" => headers[w].length = Request(w).length
  BY DEF IndInv, HeadersAreOwn, OutcomeIsReady
<1>2. Request(w).method = "GET" => Request(w).method # "other"
  OBVIOUS
<1>3. NoLength \notin Nat
  BY WorkerAssumption
<1>. QED
  BY <1>1, <1>2, <1>3 DEF HttpResponseThrows, Aborts

LEMMA PostProcessThrowsInv ==
  ASSUME IndInv, ~aborted, NEW w \in Workers, PostProcessThrows(w)
  PROVE  IndInv'
<1>1. state[w] # "NoTask" /\ Aborts(Request(w))
  BY ThrowsAsAborts DEF PostProcessThrows
<1>. QED
  BY <1>1, AbortInv DEF PostProcessThrows

LEMMA PostProcessInv ==
  ASSUME IndInv, ~aborted, NEW w \in Workers, PostProcess(w)
  PROVE  IndInv'
<1>. DEFINE t == currentTask[w]
            response == HttpResponse(headers[w], body[w])
<1>1. state[w] = "MainFuncRan" /\ state' = [state EXCEPT ![w] = "NoTask"]
  BY DEF PostProcess, WorkerGoes
<1>2. t \in Tasks /\ t \notin tasks /\ Request(w) = request[t] /\ None \notin Tasks
  BY <1>1, WorkerAssumption DEF IndInv, Types, TasksApart, Request
<1>3. /\ sent' = [sent EXCEPT ![t] = response]
      /\ currentTask' = [currentTask EXCEPT ![w] = None]
      /\ UNCHANGED <<request, tasks, headers, body, dangling, cacheVars, aborted>>
  BY DEF PostProcess
<1>4. Answered' \subseteq Answered \cup {t} /\ \A u \in Tasks : u # t => sent'[u] = sent[u]
  BY <1>3 DEF Answered, IndInv, Types
<1>5. sent'[t] = response
  BY <1>2, <1>3 DEF IndInv, Types
<1>6. body[w] \in Contents /\ Size[body[w]] \in Nat /\ headers[w] \in Headers
  BY <1>1, OwnHeaders, WorkerAssumption
<1>7. response \in Responses
  <2>1. headers[w].code \in Codes \cup {None} /\ headers[w].length \in Lengths /\ NoLength \in Lengths
    BY <1>6 DEF Headers, Lengths
  <2>2. Size[body[w]] \in Lengths
    BY <1>6 DEF Lengths
  <2>. QED
    BY <2>1, <2>2, <1>6 DEF HttpResponse, Responses
<1>8. /\ Request(w).hasVersion => response.code = Status(Request(w))
      /\ response.body = body[w]
      /\ Request(w).hasVersion =>
           response.length = IF Size[body[w]] > 0 THEN Size[body[w]] ELSE headers[w].length
  BY <1>1, OwnHeaders DEF HttpResponse, IndInv, OutcomeIsReady
<1>9. /\ Request(w).method = "GET" /\ Request(w).url \in OnDisk =>
           body[w] \in {Request(w).url, Garbage} /\ headers[w].length = Size[body[w]]
      /\ ~Aborts(Request(w))
  BY <1>1, OwnHeaders, ThrowsAsAborts DEF IndInv, OutcomeIsReady, PostProcess
<1>. HIDE DEF t, response
<1>10. Types'
  BY <1>1, <1>2, <1>3, <1>7 DEF IndInv, Types, States, cacheVars
<1>11. TasksApart'
  BY <1>1, <1>2, <1>3, <1>4 DEF IndInv, Types, TasksApart, t
<1>12. HeadersAreOwn' /\ ReadersHaveFiles' /\ OutcomeIsReady' /\ CacheHoldsFiles'
  <2>1. \A v \in Workers : v # w => Request(v)' = Request(v)
    BY <1>3 DEF Request, IndInv, Types
  <2>2. HeadersAreOwn'
    BY <2>1, <1>1, <1>3 DEF IndInv, Types, HeadersAreOwn
  <2>3. ReadersHaveFiles' /\ CacheHoldsFiles'
    BY <1>1, <1>3 DEF IndInv, Types, ReadersHaveFiles, CacheHoldsFiles, cacheVars, Cache!Cached
  <2>4. \A v \in Workers : v # w => Status(Request(v))' = Status(Request(v))
    BY <2>1 DEF Status
  <2>5. OutcomeIsReady'
    BY <2>4, <1>1, <1>3 DEF IndInv, Types, OutcomeIsReady
  <2>. QED
    BY <2>2, <2>3, <2>5
<1>13. OwnStatus'
  <2>1. \A u \in Tasks : Status(request[u])' = Status(request[u])
    BY <1>3 DEF Status
  <2>. QED
    BY <2>1, <1>2, <1>3, <1>4, <1>5, <1>8 DEF IndInv, OwnStatus
<1>14. WholeFiles'
  BY <1>2, <1>3, <1>4, <1>5, <1>8, <1>9 DEF IndInv, WholeFiles
<1>15. OutcomeIsTheRequests'
  BY <1>2, <1>3, <1>4, <1>9 DEF IndInv, OutcomeIsTheRequests, Aborts
<1>. QED
  BY <1>10, <1>11, <1>12, <1>13, <1>14, <1>15 DEF IndInv

LEMMA NextInv == IndInv /\ [Next]_vars => IndInv'
<1>. SUFFICES ASSUME IndInv, [Next]_vars
              PROVE  IndInv'
  OBVIOUS
<1>1. ASSUME ~aborted, NEW w \in Workers, WorkerLoop(w)
      PROVE  IndInv'
  <2>1. ASSUME NEW t \in Tasks, TakeNewTask(w, t)
        PROVE  IndInv'
    BY <1>1, <2>1, TakeNewTaskInv
  <2>2. CASE PreProcess(w)
    BY <1>1, <2>2, PreProcessInv
  <2>3. CASE NotAllowed(w)
    BY <1>1, <2>3, NotAllowedInv
  <2>4. CASE Forbidden(w)
    BY <1>1, <2>4, ForbiddenInv
  <2>5. CASE ReadFile(w)
    BY <1>1, <2>5, CacheHitsInv, CacheMissesInv, ReadsCachedInv, ReadsFreedInv, CrashesOnFreedInv,
       CannotOpenInv, TellsSizeInv, ReadsFileInv DEF ReadFile
  <2>6. CASE PostProcess(w)
    BY <1>1, <2>6, PostProcessInv
  <2>7. CASE PostProcessThrows(w)
    BY <1>1, <2>7, PostProcessThrowsInv
  <2>. QED
    BY <1>1, <2>1, <2>2, <2>3, <2>4, <2>5, <2>6, <2>7 DEF WorkerLoop
<1>2. CASE UNCHANGED vars
  <2>1. /\ Types' /\ TasksApart' /\ HeadersAreOwn' /\ ReadersHaveFiles' /\ CacheHoldsFiles'
        /\ WholeFiles'
    BY <1>2 DEF vars, cacheVars, IndInv, Types, TasksApart, HeadersAreOwn, ReadersHaveFiles,
       CacheHoldsFiles, WholeFiles, Answered, Request, Cache!Cached
  <2>2. OutcomeIsReady' /\ OwnStatus'
    BY <1>2 DEF vars, IndInv, OutcomeIsReady, OwnStatus, Answered, Request, Status
  <2>3. OutcomeIsTheRequests'
    BY <1>2 DEF vars, IndInv, OutcomeIsTheRequests, Answered, Aborts
  <2>. QED
    BY <2>1, <2>2, <2>3 DEF IndInv
<1>. QED
  BY <1>1, <1>2 DEF Next

-----------------------------------------------------------------------------
(* Theorems *)

(* The inductive invariant of the workers holds, for any number of workers  *)
(* and tasks, any files and any size of the cache.                          *)
THEOREM Invariance == Spec => []IndInv
BY InitInv, NextInv, PTL DEF Spec

(* A client gets the status of its own request, whatever its worker and the *)
(* cache hold of other tasks.                                               *)
THEOREM StatusIsOwn == Spec => []OwnStatus
<1>1. IndInv => OwnStatus
  BY DEF IndInv
<1>. QED
  BY <1>1, Invariance, PTL

(* A successful GET brings its own file, or what is in the memory of an     *)
(* erased item, and the number of bytes it brings.                          *)
THEOREM FilesAreWhole == Spec => []WholeFiles
<1>1. IndInv => WholeFiles
  BY DEF IndInv
<1>. QED
  BY <1>1, Invariance, PTL

(* freed memory from it.                                                    *)
THEOREM CacheIsClean == Spec => []CacheHoldsFiles
<1>1. IndInv => CacheHoldsFiles
  BY DEF IndInv
<1>. QED
  BY <1>1, Invariance, PTL

(* Whether HttpResponse throws is decided by the request; besides, only an  *)
(* erased cache item can end the process.                                   *)
THEOREM OutcomeIsDecided == Spec => []OutcomeIsTheRequests
<1>1. IndInv => OutcomeIsTheRequests
  BY DEF IndInv
<1>. QED
  BY <1>1, Invariance, PTL

-----------------------------------------------------------------------------
(* The cache in the workers' hands *)

CacheProofs == INSTANCE LFUCacheProofs WITH
  Keys <- Files, Values <- Contents, Absent <- None, MaxCount <- 0

LEMMA CacheIsUsable == CacheProofs!CacheAssumption
BY WorkerAssumption DEF CacheProofs!CacheAssumption, Contents

(* Both instances are of one module. *)
LEMMA SameCache ==
  ASSUME NEW f, NEW v
  PROVE  (Cache!Get(f) => CacheProofs!Get(f)) /\ (Cache!Put(f, v) => CacheProofs!Put(f, v))
<1>1. Cache!Cached = CacheProofs!Cached
  BY DEF Cache!Cached, CacheProofs!Cached
<1>2. Cache!Touch(f) => CacheProofs!Touch(f)
  BY DEF Cache!Touch, Cache!EmplaceLast, Cache!WithoutNode, Cache!SX!InsertAt, Cache!SX!RemoveAt,
     CacheProofs!Touch, CacheProofs!EmplaceLast, CacheProofs!WithoutNode,
     CacheProofs!SX!InsertAt, CacheProofs!SX!RemoveAt
<1>3. Cache!Cardinality(Cache!Cached) = CacheProofs!Cardinality(CacheProofs!Cached)
  BY <1>1 DEF Cache!Cardinality, CacheProofs!Cardinality
<1>4. ASSUME NEW s, NEW n
      PROVE  Cache!EmplaceFirst(s, n) => CacheProofs!EmplaceFirst(s, n)
  BY DEF Cache!EmplaceFirst, Cache!SX!InsertAt, CacheProofs!EmplaceFirst, CacheProofs!SX!InsertAt
<1>5. ASSUME NEW n
      PROVE  Cache!WithoutNode(n) = CacheProofs!WithoutNode(n)
  BY DEF Cache!WithoutNode, Cache!SX!RemoveAt, CacheProofs!WithoutNode, CacheProofs!SX!RemoveAt
<1>6. /\ Cache!FirstUse(f) = CacheProofs!FirstUse(f)
      /\ Cache!ReplCandidate = CacheProofs!ReplCandidate
  BY DEF Cache!FirstUse, CacheProofs!FirstUse, Cache!ReplCandidate, CacheProofs!ReplCandidate
<1>7. Cache!PutNew(f, v) => CacheProofs!PutNew(f, v)
  BY <1>1, <1>3, <1>4, <1>6 DEF Cache!PutNew, CacheProofs!PutNew
<1>8. Cache!PutReplacing(f, v) => CacheProofs!PutReplacing(f, v)
  BY <1>1, <1>3, <1>4, <1>5, <1>6 DEF Cache!PutReplacing, CacheProofs!PutReplacing
<1>. QED
  BY <1>1, <1>2, <1>7, <1>8 DEF Cache!Get, Cache!Put, Cache!PutCached,
     CacheProofs!Get, CacheProofs!Put, CacheProofs!PutCached

(* A step of a worker gets or puts one file, or leaves the cache alone. *)
LEMMA CacheSteps ==
  ASSUME IndInv, [Next]_vars
  PROVE  \/ \E f \in Files : CacheProofs!Get(f)
         \/ \E f \in Files, v \in Contents : CacheProofs!Put(f, v)
         \/ UNCHANGED cacheVars
<1>1. ASSUME NEW w \in Workers, CacheHits(w)
      PROVE  \E f \in Files : CacheProofs!Get(f)
  <2>1. Cache!Get(headers[w].url) /\ headers[w].url \in Files
    BY <1>1 DEF CacheHits, Cache!Get, Cache!Cached
  <2>. QED
    BY <2>1, SameCache
<1>2. ASSUME NEW w \in Workers, ReadsFile(w)
      PROVE  \E f \in Files, v \in Contents : CacheProofs!Put(f, v)
  <2>1. Cache!Put(headers[w].url, body'[w]) /\ headers[w].url \in Files /\ body'[w] \in Contents
    BY <1>2, WorkerAssumption DEF ReadsFile, IndInv, Types, Contents
  <2>. QED
    BY <2>1, SameCache
<1>. QED
  BY <1>1, <1>2 DEF Next, vars, cacheVars, WorkerLoop, TakeNewTask, PreProcess, NotAllowed, Forbidden,
     ReadFile, CacheMisses, ReadsCached, ReadsFreed, CrashesOnFreed, CannotOpen, TellsSize,
     PostProcess, PostProcessThrows

LEMMA CacheInvariance == Spec => []CacheProofs!IndInv
<1>1. Init => CacheProofs!IndInv
  <2>1. Init => CacheProofs!Init
    BY DEF Init, Cache!Init, CacheProofs!Init
  <2>. QED
    BY <2>1, CacheIsUsable, CacheProofs!InitInv
<1>2. IndInv /\ CacheProofs!IndInv /\ [Next]_vars => CacheProofs!IndInv'
  BY CacheSteps, CacheIsUsable, CacheProofs!GetInv, CacheProofs!PutInv, CacheProofs!StutterInv
     DEF cacheVars, CacheProofs!vars
<1>. QED
  BY <1>1, <1>2, Invariance, PTL DEF Spec

(* Type correctness of the workers and their cache.                         *)
THEOREM TypeCorrect == Spec => []TypeOK
<1>1. CacheProofs!IndInv => Cache!TypeOK
  BY DEF CacheProofs!IndInv, CacheProofs!TypeOK, CacheProofs!Nodes, Cache!TypeOK, Cache!Nodes
<1>2. IndInv /\ CacheProofs!IndInv => TypeOK
  BY <1>1 DEF IndInv, Types, TypeOK
<1>. QED
  BY <1>2, Invariance, CacheInvariance, PTL

(* As the workers use it, the cache's items and its policy agree: Touch and *)
(* Erase never use an iterator whose node is gone.                          *)
THEOREM FileCacheAgrees == Spec => []Cache!PolicyAgrees
<1>1. CacheProofs!IndInv => Cache!PolicyAgrees
  BY CacheIsUsable, CacheProofs!PolicyFollows
     DEF Cache!PolicyAgrees, CacheProofs!PolicyAgrees, Cache!Cached, CacheProofs!Cached
<1>. QED
  BY <1>1, CacheInvariance, PTL

(* As the workers use it, fileCache is an LFU cache: what ReadFile evicts   *)
(* is one of the files got least.                                           *)
THEOREM FileCacheIsLFU == Spec => Cache!ImplementsLFU
<1>1. Init => Cache!Abstract!Init
  BY DEF Init, Cache!Init, Cache!Abstract!Init
<1>2. IndInv /\ CacheProofs!IndInv /\ [Next]_vars => [CacheProofs!Abstract!Next]_cacheVars
  BY CacheSteps, CacheIsUsable, CacheProofs!GetRefines, CacheProofs!PutRefines
<1>3. CacheProofs!Abstract!Next => Cache!Abstract!Next
  <2>1. CacheProofs!Abstract!CachedKeys = Cache!Abstract!CachedKeys
    BY DEF CacheProofs!Abstract!CachedKeys, Cache!Abstract!CachedKeys
  <2>2. CacheProofs!Abstract!Cardinality(CacheProofs!Abstract!CachedKeys)
          = Cache!Abstract!Cardinality(Cache!Abstract!CachedKeys)
    BY <2>1 DEF CacheProofs!Abstract!Cardinality, Cache!Abstract!Cardinality
  <2>3. ASSUME NEW k, NEW v, NEW victim
        PROVE  /\ CacheProofs!Abstract!Get(k) => Cache!Abstract!Get(k)
               /\ CacheProofs!Abstract!Remove(k) => Cache!Abstract!Remove(k)
               /\ CacheProofs!Abstract!PutCached(k, v) => Cache!Abstract!PutCached(k, v)
               /\ CacheProofs!Abstract!PutNew(k, v) => Cache!Abstract!PutNew(k, v)
               /\ CacheProofs!Abstract!PutReplacing(k, v, victim)
                    => Cache!Abstract!PutReplacing(k, v, victim)
    BY <2>1, <2>2 DEF CacheProofs!Abstract!Get, CacheProofs!Abstract!Remove,
       CacheProofs!Abstract!PutCached, CacheProofs!Abstract!PutNew,
       CacheProofs!Abstract!PutReplacing, CacheProofs!Abstract!LeastUsed,
       Cache!Abstract!Get, Cache!Abstract!Remove, Cache!Abstract!PutCached,
       Cache!Abstract!PutNew, Cache!Abstract!PutReplacing, Cache!Abstract!LeastUsed
  <2>. QED
    BY <2>3 DEF CacheProofs!Abstract!Next, Cache!Abstract!Next
<1>4. UNCHANGED cacheVars => UNCHANGED Cache!Abstract!vars
  BY DEF cacheVars, Cache!Abstract!vars
<1>5. IndInv /\ CacheProofs!IndInv /\ [Next]_vars => [Cache!Abstract!Next]_(Cache!Abstract!vars)
  BY <1>2, <1>3, <1>4
<1>. QED
  BY <1>1, <1>5, Invariance, CacheInvariance, PTL DEF Spec, Cache!ImplementsLFU, Cache!Abstract!Spec
=============================================================================
