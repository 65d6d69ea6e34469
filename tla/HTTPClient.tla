------------------------------ MODULE HTTPClient ------------------------------
(***************************************************************************)
(* One connection, symbol by symbol: a request that HttpRequestCreator     *)
(* wrote arrives in chunks, HTTPClient collects its header and body, and a *)
(* worker's response is sent back in as many parts as the socket takes.    *)
(***************************************************************************)
EXTENDS HttpRequest, HttpRequestCreator, HttpResponse, HttpResponseReader

CONSTANTS
  Requests,   \* what clients ask for: [method, url, version, keepAlive, body]
  Bodies,     \* contents of files, and of Worker::body
  Chunk,      \* most symbols that recvVector receives (256 characters)
  Parts,      \* numbers of symbols a partial ::send may take
  MaxParts,   \* bound: calls of ::send for one response
  SizeT       \* values of size_t

(* HttpRequestCreator takes any URL and version; these are on one line, and  *)
(* the URL is one word.                                                      *)
ASSUME RequestsAssumption ==
  \A r \in Requests :
    /\ CanCreate(r)
    /\ r.url \in Seq(STRING \ {"CR", "LF", "NUL", "SP"})
    /\ r.version \in Seq(STRING \ {"CR", "LF", "NUL"})
    /\ r.body \in Seq(STRING) /\ Len(r.body) <= MaxLength

ASSUME BodiesAssumption == \A bytes \in Bodies : bytes \in Seq(STRING) /\ Len(bytes) <= MaxLength

ASSUME NumbersAreNat == /\ Chunk \in Nat \ {0}
                        /\ Parts \subseteq Nat \ {0}
                        /\ MaxParts \in Nat
                        /\ SizeT \in Nat \ {0}

(* No response is as long as size_t: its header has 33 symbols besides the   *)
(* request's version.                                                        *)
ASSUME ResponsesFit == \A r \in Requests : Len(r.version) + 33 + MaxLength < SizeT

VARIABLES
  request,          \* what the peer asks for
  taken,            \* symbols of it received
  header, body, receivedHeader, contentLength,
  split,            \* the header came in more than one chunk
  cut,              \* and one of them ended inside the mark after the header
  state,
  answer,           \* what the worker responds: [version, url, code, ...]
  left, sent, parts,\* Socket::send: its two variables, and the calls it made
  delivered         \* what the peer received

receiving == <<taken, header, body, receivedHeader, contentLength, split, cut>>
sending == <<answer, left, sent, parts, delivered>>
connectionVars == <<request, receiving, state, sending>>

NoAnswer == [version |-> <<>>, url |-> <<>>, code |-> <<>>, keepAlive |-> FALSE,
             length |-> 0, body |-> <<>>]

ConnectionInit ==
  /\ request \in Requests
  /\ taken = 0
  /\ header = <<>> /\ body = <<>> /\ receivedHeader = FALSE
  /\ contentLength = 0 /\ split = FALSE /\ cut = FALSE
  /\ state = "receiving"
  /\ answer = NoAnswer /\ left = 0 /\ sent = 0 /\ parts = 0 /\ delivered = <<>>

EmptyLine == NewLine \o NewLine

(* The place and size of the mark that ends a header; 0 when there is none. *)
EndMark(text) ==
  IF Find(text, EmptyLine, 1) # 0
  THEN [at |-> Find(text, EmptyLine, 1), size |-> 4]
  ELSE [at |-> Find(text, <<"LF", "LF">>, 1), size |-> 2]

(* The header with the CR LF (or LF) of its last line. *)
UpToMark(text) ==
  SubSeq(text, 1, EndMark(text).at - 1 + EndMark(text).size \div 2)

(* Mutant: the second half of the mark stays in the body. *)
AfterHalfMark(text) == From(text, EndMark(text).at + EndMark(text).size \div 2)

AfterMark(text) == From(text, EndMark(text).at + EndMark(text).size)

(* ParseBuffer: the buffer before and from its first NUL. *)
BeforeNul(buffer) ==
  IF Find(buffer, <<"NUL">>, 1) = 0
  THEN buffer ELSE SubSeq(buffer, 1, Find(buffer, <<"NUL">>, 1) - 1)

FromNul(buffer) ==
  IF Find(buffer, <<"NUL">>, 1) = 0
  THEN <<>> ELSE From(buffer, Find(buffer, <<"NUL">>, 1))

Message == RequestText(request)

Received(n) == SubSeq(Message, taken + 1, taken + n)

HasMark(buffer) == EndMark(BeforeNul(buffer)).at # 0

(* Mutant: what follows a NUL in the buffer is dropped. *)
BodyAfterWithoutNul(buffer) ==
  LET result == BeforeNul(buffer)
  IN  IF HasMark(buffer) THEN AfterMark(result) ELSE <<"any">> \o result

(* `body` after RecvHeaderAsync.  Without a mark its iterator is begin() +  *)
(* npos, the character before the string: "any" stands for whatever is      *)
(* there, which no property looks at.                                       *)
(* Only a NUL in the buffer keeps what `body` was before.                   *)
BodyAfter(buffer) ==
  LET result == BeforeNul(buffer)
      temp == IF HasMark(buffer) THEN AfterMark(result) ELSE <<"any">> \o result
  IN  IF FromNul(buffer) = <<>> THEN temp ELSE temp \o FromNul(buffer) \o body

ChunkSizes == 1..(IF Len(Message) - taken < Chunk THEN Len(Message) - taken ELSE Chunk)

(* A chunk that ends inside the mark leaves it to be found in neither part. *)
CutsMark(place) ==
  place \in EndMark(Message).at .. EndMark(Message).at + EndMark(Message).size - 2

ReceivesPartOfHeader(n) ==
  /\ ~HasMark(Received(n))
  /\ header' = header \o BeforeNul(Received(n))
  /\ body' = BodyAfter(Received(n))
  /\ taken' = taken + n
  /\ split' = TRUE
  /\ cut' = (cut \/ CutsMark(taken + n))
  /\ UNCHANGED <<receivedHeader, contentLength, state>>

(* The last part of the header; HttpRequest and RecvBodyAsync follow in the *)
(* same callback.                                                           *)
ReadsHeader(n) ==
  /\ HasMark(Received(n))
  /\ header' = header \o UpToMark(BeforeNul(Received(n)))
  /\ receivedHeader' = TRUE
  /\ UNCHANGED <<split, cut>>

ReceivesBadHeader(n) ==
  /\ ReadsHeader(n)
  /\ BadFormat(header')
  /\ body' = BodyAfter(Received(n))
  /\ taken' = taken + n
  /\ state' = "failed"
  /\ UNCHANGED contentLength

(* RecvBodyAsync with `have` in the body and `readable` symbols that        *)
(* recvVectorMax finds after the first `place` of the text.                 *)
RecvBodyAsync(have, length, place, readable) ==
  LET missing == IF Len(have) >= length THEN 0 ELSE length - Len(have)
      count == IF readable >= missing THEN missing ELSE readable
  IN  /\ body' = have \o SubSeq(Message, place + 1, place + count)
      /\ taken' = place + count
      /\ state' = IF Len(have) >= length \/ Len(body') = length THEN "complete" ELSE state

ReceivesHeader(n, readable) ==
  /\ ReadsHeader(n)
  /\ ~BadFormat(header')
  /\ contentLength' = ContentLength(Headers(header'))
  /\ RecvBodyAsync(BodyAfter(Received(n)), contentLength', taken + n, readable)

ReceivesBody(readable) ==
  /\ RecvBodyAsync(body, contentLength, taken, readable)
  /\ UNCHANGED <<header, receivedHeader, contentLength, split, cut>>

(* ReceiveInput, called when there is something to receive. *)
ReceiveInput ==
  /\ state = "receiving"
  /\ \/ /\ ~receivedHeader
        /\ \E n \in ChunkSizes :
             \/ ReceivesPartOfHeader(n)
             \/ ReceivesBadHeader(n)
             \/ \E readable \in 0..(Len(Message) - taken - n) : ReceivesHeader(n, readable)
     \/ /\ receivedHeader
        /\ \E readable \in 1..(Len(Message) - taken) : ReceivesBody(readable)
  /\ UNCHANGED <<request, sending>>

(* recv fails, or the timer expires: the client is removed. *)
Dropped ==
  /\ state = "receiving"
  /\ state' = "failed"
  /\ UNCHANGED <<request, receiving, sending>>

KeepAlive(headers) ==
  <<"Connection">> \in DOMAIN headers /\ headers[<<"Connection">>] = <<"Keep-Alive">>

(* PostProcess: what the worker knows of the request, the status it chose,  *)
(* the length it was told and the bytes its `body` has, which after a HEAD  *)
(* or an error are those of an earlier task.                                *)
PostProcess ==
  /\ state = "complete"
  /\ \E told, bytes \in Bodies :
       answer' = [version |-> Version(header), url |-> Url(header), code |-> <<"code">>,
                  keepAlive |-> KeepAlive(Headers(header)),
                  length |-> Len(told), body |-> bytes]
  /\ state' = "sending"
  /\ left' = Len(ResponseText(answer'))
  /\ sent' = 0 /\ parts' = 0
  /\ UNCHANGED <<request, receiving, delivered>>

PartSizes ==
  LET rest == Len(ResponseText(answer)) - sent
  IN  {n \in Parts : n < rest} \cup {rest}

(* One ::send.  `sent` is the number of symbols this call took, not the sum *)
(* of them all, and `left` can become less than 0.                          *)
SendPart(n) ==
  /\ delivered' = delivered \o SubSeq(ResponseText(answer), sent + 1, sent + n)
  /\ sent' = n
  /\ left' = (left - n) % SizeT
  /\ parts' = parts + 1

SendSome ==
  /\ state = "sending" /\ left > 0 /\ parts < MaxParts
  /\ \E n \in PartSizes : SendPart(n)
  /\ UNCHANGED <<request, receiving, state, answer>>

SendReturns ==
  /\ state = "sending" /\ left = 0
  /\ state' = "sent"
  /\ UNCHANGED <<request, receiving, sending>>

(* Send swallows the exception. *)
SendThrows ==
  /\ state = "sending" /\ left > 0
  /\ state' = "failed"
  /\ UNCHANGED <<request, receiving, sending>>

ConnectionNext ==
  ReceiveInput \/ Dropped \/ PostProcess \/ SendSome \/ SendReturns \/ SendThrows

-----------------------------------------------------------------------------

(* RecvHeader, which waits for the mark over all chunks: the reference for  *)
(* RecvHeaderAsync, which looks for it in each of them.                     *)
RecvHeader(text) == [header |-> UpToMark(BeforeNul(text)), body |-> AfterMark(text)]

CreatedHeaders ==
  LET keepAlive == request.version = <<"1.0">> /\ request.keepAlive
  IN  [key \in (IF keepAlive THEN {<<"Connection">>} ELSE {})
                \cup (IF request.body # <<>> THEN {<<"Content-Length">>} ELSE {})
         |-> IF key = <<"Connection">> THEN <<"Keep-Alive">> ELSE <<Decimal(Len(request.body))>>]

(* RequestIsRead: however the request was cut into chunks (except inside    *)
(* the mark), HTTPClient has the header that RecvHeader would have read,    *)
(* HttpRequest finds in it the method, URL and headers that                 *)
(* HttpRequestCreator wrote, and when RecvBodyAsync returns true the body   *)
(* is the client's; but for a body with a NUL whose header came in several  *)
(* chunks.                                                                  *)
RequestIsRead ==
  ~cut =>
    /\ receivedHeader =>
         /\ header = RecvHeader(Message).header
         /\ ~BadFormat(header) =>
              /\ Method(header) = <<request.method>>
              /\ Url(header) = request.url
              /\ Headers(header) = CreatedHeaders
    /\ (state = "complete" /\ ~(split /\ Find(request.body, <<"NUL">>, 1) # 0))
         => body = request.body

(* WholeRequestIsRecognised: a client that has sent all its request is not  *)
(* left waiting for its timeout, unless the mark was cut; an HTTP/0.9       *)
(* request, as HttpRequestCreator writes it, has none.                      *)
WholeRequestIsRecognised ==
  (state = "receiving" /\ taken = Len(Message)) => (cut \/ request.version = <<>>)
=============================================================================
