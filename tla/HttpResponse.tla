----------------------------- MODULE HttpResponse -----------------------------
(***************************************************************************)
(* HttpResponse: the text that a worker sends, for the cases in which the  *)
(* constructor does not throw (Worker has those in which it does).         *)
(***************************************************************************)
EXTENDS Text

(* What follows the last '.', or all of a URL that has none. *)
Extension(url) ==
  LET dots == {i \in DOMAIN url : url[i] = "."}
  IN  IF dots = {} THEN url ELSE From(url, Max(dots) + 1)

ContentType(url) ==
  CASE Extension(url) \in {<<"/">>, <<"html">>} -> "text/html"
    [] Extension(url) \in {<<"jpg">>, <<"JPG">>, <<"jpeg">>, <<"JPEG">>} -> "image/jpeg"
    [] Extension(url) \in {<<"png">>, <<"PNG">>} -> "image/png"
    [] Extension(url) = <<"gif">> -> "image/gif"
    [] Extension(url) = <<"swf">> -> "application/x-shockwave-flash"
    [] Extension(url) \in {<<"txt">>, <<"TXT">>} -> "text/plain"
    [] Extension(url) = <<"css">> -> "text/css"
    [] Extension(url) = <<"js">> -> "text/javascript"
    [] OTHER -> "undefined"

(* The size of a body that is not empty is inserted first, and stays. *)
SentLength(a) == IF a.body # <<>> THEN Len(a.body) ELSE a.length

(* The std::map of headers, in the order of its keys. *)
ResponseHeaderLines(a) ==
  Line("Connection", IF a.version = <<"1.0">> /\ a.keepAlive THEN "Keep-Alive" ELSE "close")
    \o Line("Content-Length", Decimal(SentLength(a)))
    \o Line("Content-type", ContentType(a.url))
    \o Line("Date", "now")
    \o Line("Server", "ServerName")

ResponseHeaderText(a) ==
  <<"HTTP/">> \o a.version \o <<"SP">> \o a.code \o NewLine \o ResponseHeaderLines(a) \o NewLine

(* FormResponseData; only the body for HTTP/0.9. *)
ResponseText(a) ==
  IF a.version = <<>> THEN a.body ELSE ResponseHeaderText(a) \o a.body
=============================================================================
