-------------------------------- MODULE Text --------------------------------
(***************************************************************************)
(* HTTP messages as sequences of symbols.  A symbol is a character that    *)
(* the code looks for ("CR", "LF", "SP", "NUL", "."), a fixed text that it *)
(* looks for as a whole ("HTTP/", and ":" for ": "), or any other run of    *)
(* characters.                                                             *)
(***************************************************************************)
EXTENDS Integers, Sequences, FiniteSetsExt

CONSTANTS
  Decimal(_),   \* std::to_string of a number, as a symbol
  MaxLength     \* bound: the most symbols that a body has

Marks == {"CR", "LF", "SP", "NUL", ".", ":", "HTTP/"}

ASSUME DecimalAssumption ==
  /\ MaxLength \in Nat
  /\ \A n \in 0 .. MaxLength :
       /\ Decimal(n) \in STRING \ Marks
       /\ \A m \in 0 .. MaxLength : Decimal(m) = Decimal(n) => m = n

NewLine == <<"CR", "LF">>

(* A header, as both writers of messages write it. *)
Line(key, value) == <<key, ":", value>> \o NewLine

(* std::string::find: the first place of `pattern` at or after `from`, or 0. *)
Find(text, pattern, from) ==
  LET places == {i \in from .. Len(text) - Len(pattern) + 1 :
                   SubSeq(text, i, i + Len(pattern) - 1) = pattern}
  IN  IF places = {} THEN 0 ELSE Min(places)

From(text, place) == SubSeq(text, place, Len(text))

Value(text, colon) == SubSeq(text, colon + 1, Find(text, <<"CR">>, colon) - 1)

(* The places of the ":" that both parsers find from `start` on: after each  *)
(* they go to the end of its line.                                           *)
Colons(text, start) ==
  {c \in start .. Len(text) :
     /\ text[c] = ":"
     /\ \A d \in start .. c - 1 : text[d] = ":" => \E r \in d .. c : text[r] = "CR"}

(* A key is all there is between the line of the last ":" and this one.      *)
Key(text, start, colon) ==
  LET before == {c \in Colons(text, start) : c < colon}
  IN  SubSeq(text, IF before = {} THEN start ELSE Find(text, <<"CR">>, Max(before)) + 2,
             colon - 1)

Keys(text, start) == {Key(text, start, c) : c \in Colons(text, start)}

(* The places from which `key` is given a value. *)
ColonsOf(text, start, key) == {c \in Colons(text, start) : Key(text, start, c) = key}

(* GetContentLength of both parsers: std::stoi of the value, 0 when there   *)
(* is none or it is no number.                                              *)
ContentLength(headers) ==
  LET lengths == {n \in 0 .. MaxLength : /\ <<"Content-Length">> \in DOMAIN headers
                                         /\ headers[<<"Content-Length">>] = <<Decimal(n)>>}
  IN  IF lengths = {} THEN 0 ELSE CHOOSE n \in lengths : TRUE
=============================================================================
