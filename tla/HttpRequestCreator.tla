-------------------------- MODULE HttpRequestCreator --------------------------
(***************************************************************************)
(* HttpRequestCreator: the request a client of this code base sends.       *)
(***************************************************************************)
EXTENDS HttpRequest

(* A version that is empty stands for HTTP/0.9, which knows only GET;       *)
(* OldVersionException otherwise.                                           *)
CanCreate(r) == r.version # <<>> \/ r.method = "GET"

(* RequestMethodToString; the enumeration has UNKNOWN besides the methods. *)
MethodName(method) == IF method \in Methods THEN method ELSE "UNKNOWN"

RequestLine(r) ==
  <<MethodName(r.method), "SP">> \o r.url \o <<"SP", "HTTP/">> \o r.version \o <<"SP">> \o NewLine

(* The std::map of headers, in the order of its keys. *)
RequestHeaderLines(r) ==
  (IF r.version = <<"1.0">> /\ r.keepAlive THEN Line("Connection", "Keep-Alive") ELSE <<>>)
  \o (IF r.body # <<>> THEN Line("Content-Length", Decimal(Len(r.body))) ELSE <<>>)

(* An HTTP/0.9 request is one line, with no empty line after it. *)
RequestText(r) ==
  IF r.version = <<>>
  THEN <<"GET", "SP">> \o r.url \o NewLine
  ELSE RequestLine(r) \o RequestHeaderLines(r) \o NewLine \o r.body
=============================================================================
