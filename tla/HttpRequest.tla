----------------------------- MODULE HttpRequest -----------------------------
(***************************************************************************)
(* HttpRequest's constructor: what it reads from the header of a request.  *)
(* It is defined for texts whose lines end in CR LF; without a CR the code *)
(* would look for it beyond the text.                                      *)
(***************************************************************************)
EXTENDS Text

Methods == {"GET", "POST", "OPTIONS", "HEAD", "PUT", "PATCH", "DELETE", "CONNECT"}

(* Everything before the first blank has to be the name of a method. *)
Method(message) == SubSeq(message, 1, Find(message, <<"SP">>, 1) - 1)

(* The URL ends at a blank or at the end of the line. *)
UrlStart(message) == Find(message, <<"SP">>, 1) + 1

UrlEnd(message) ==
  LET blank == Find(message, <<"SP">>, UrlStart(message))
      line == Find(message, <<"CR">>, UrlStart(message))
  IN  IF blank # 0 /\ blank < line THEN blank ELSE line

Url(message) == SubSeq(message, UrlStart(message), UrlEnd(message) - 1)

BadFormat(message) ==
  \/ Method(message) \notin {<<m>> : m \in Methods}
  \/ Url(message) = <<>>

(* "HTTP/" may stand anywhere after the URL; the version is the rest of its *)
(* line.                                                                    *)
VersionStart(message) == Find(message, <<"HTTP/">>, UrlEnd(message))

Version(message) ==
  IF VersionStart(message) = 0
  THEN <<>>
  ELSE SubSeq(message, VersionStart(message) + 1,
              Find(message, <<"CR">>, VersionStart(message)) - 1)

(* Without a version the code skips two characters too many, which only a   *)
(* version-less request with headers would show.                            *)
HeadersStart(message) ==
  IF VersionStart(message) = 0
  THEN UrlEnd(message) + 3
  ELSE Find(message, <<"CR">>, VersionStart(message)) + 2

(* std::map::insert: a key that comes twice has its first value. *)
Headers(message) ==
  LET start == HeadersStart(message)
  IN  [key \in Keys(message, start) |-> Value(message, Min(ColonsOf(message, start, key)))]
=============================================================================
