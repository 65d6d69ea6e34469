----------------------------- MODULE MCHTTPClient -----------------------------
(* Requests with and without a body, and with a NUL in it; and two that      *)
(* are malformed.  A chunk takes a request without a body as a whole; the    *)
(* longest needs two.                                                        *)
EXTENDS Peer, TLC

Page == <<"/a", ".", "html">>

Get == [method |-> "GET", url |-> Page, version |-> <<"1.1">>, keepAlive |-> FALSE,
        body |-> <<>>]
Post(bytes) == [Get EXCEPT !.method = "POST", !.version = <<"1.0">>, !.body = bytes]

SomeRequests ==
  {Get, [Get EXCEPT !.version = <<>>], [Get EXCEPT !.url = <<>>],
   [Get EXCEPT !.method = "UNKNOWN"],
   [Post(<<"b", "c">>) EXCEPT !.keepAlive = TRUE],
   Post(<<"b", "NUL", "c">>), [Post(<<"NUL">>) EXCEPT !.url = <<"/">>]}

SomeBodies == {<<>>, <<"NUL", "CR", "LF">>}

DecimalSymbol(n) == ToString(n)

SomeParts == {1, 20}

SomePieces == {8}
=============================================================================
