-------------------------------- MODULE Peer --------------------------------
(***************************************************************************)
(* The other end of HTTPClient's connection: a client of this code base    *)
(* that has sent its request and reads the response with RecvHeader,       *)
(* HttpResponseReader and RecvBody.                                        *)
(*                                                                         *)
(* It reads when the server has sent the response and closed the           *)
(* connection.  The kernel keeps what was sent, so reading earlier only    *)
(* makes shorter pieces, and the pieces here have every length in Pieces.  *)
(***************************************************************************)
EXTENDS HTTPClient

CONSTANT Pieces   \* bound: numbers of symbols that recv gives, but for the last piece

ASSUME PiecesAreChunks == Pieces \subseteq 1..Chunk

VARIABLES
  peerPc,       \* "header", "found", "body", "done" or "failed"
  consumed,     \* symbols of the response that recv has given
  result,       \* RecvHeader's text so far
  peerHeader, peerBody, peerLength

reading == <<peerPc, consumed, result, peerHeader, peerBody, peerLength>>
peerVars == <<connectionVars, reading>>

PeerInit ==
  /\ ConnectionInit
  /\ peerPc = "header" /\ consumed = 0 /\ result = <<>>
  /\ peerHeader = <<>> /\ peerBody = <<>> /\ peerLength = 0

Unread == Len(delivered) - consumed

PieceSizes == {n \in Pieces : n < Unread} \cup (1..Chunk \cap {Unread})

(* Mutant: the mark is looked for in the last piece alone. *)
SearchesInPiece(text, buffer) == EndMark(BeforeNul(buffer)).at # 0

(* The condition of RecvHeader's loop, over all that has come. *)
Searches(text, buffer) == EndMark(text).at # 0

(* A turn of RecvHeader's loop.  It ends at the mark or at a NUL. *)
ReceivesPiece(n) ==
  LET buffer == SubSeq(delivered, consumed + 1, consumed + n)
  IN  /\ peerPc = "header"
      /\ consumed' = consumed + n
      /\ result' = result \o BeforeNul(buffer)
      /\ peerBody' = FromNul(buffer)
      /\ peerPc' = IF FromNul(buffer) # <<>> \/ Searches(result', buffer) THEN "found" ELSE "header"
      /\ UNCHANGED <<peerHeader, peerLength>>

(* The rest of RecvHeader, and HttpResponseReader. *)
FindsHeader ==
  /\ peerPc = "found" /\ EndMark(result).at # 0
  /\ peerHeader' = UpToMark(result)
  /\ peerBody' = AfterMark(result) \o peerBody
  /\ peerLength' = ContentLength(ExtractHeaders(peerHeader'))
  /\ peerPc' = "body"
  /\ UNCHANGED <<consumed, result>>

FindsNulInHeader ==
  /\ peerPc = "found" /\ EndMark(result).at = 0
  /\ peerPc' = "failed"
  /\ UNCHANGED <<consumed, result, peerHeader, peerBody, peerLength>>

(* RecvBody: recvVector receives until it has the difference of two sizes,  *)
(* which is as good as infinite when it is negative.                        *)
Missing == (peerLength - Len(peerBody)) % SizeT

RecvBody ==
  /\ peerPc = "body" /\ Missing <= Unread
  /\ peerBody' = peerBody \o SubSeq(delivered, consumed + 1, consumed + Missing)
  /\ consumed' = consumed + Missing
  /\ peerPc' = "done"
  /\ UNCHANGED <<result, peerHeader, peerLength>>

(* recv returns 0 at the end of the stream: recvVector throws. *)
RecvFails ==
  /\ (peerPc = "header" /\ Unread = 0) \/ (peerPc = "body" /\ Missing > Unread)
  /\ peerPc' = "failed"
  /\ UNCHANGED <<consumed, result, peerHeader, peerBody, peerLength>>

PeerReads ==
  /\ state = "sent"
  /\ (\E n \in PieceSizes : ReceivesPiece(n)) \/ FindsHeader \/ FindsNulInHeader \/ RecvBody \/ RecvFails
  /\ UNCHANGED connectionVars

PeerNext == (ConnectionNext /\ UNCHANGED reading) \/ PeerReads

PeerSpec == PeerInit /\ [][PeerNext]_peerVars

-----------------------------------------------------------------------------
(* ResponseIsRead: if the socket took the response in one or two parts, the *)
(* client that reads it, in pieces of any size, gets its body, and finds    *)
(* the body's length and type in the header.  It only fails on an HTTP/0.9  *)
(* response, which has no header, and on one that announces a length and    *)
(* has no body, as those to HEAD.                                           *)
ResponseIsRead ==
  (state = "sent" /\ parts <= 2) =>
    /\ delivered = ResponseText(answer)
    /\ peerPc = "done" =>
         /\ peerBody = answer.body
         /\ peerLength = Len(answer.body)
         /\ ExtractHeaders(peerHeader)[<<"Content-type">>] = <<ContentType(answer.url)>>
         /\ Unread = 0
    /\ peerPc = "failed" =>
         answer.version = <<>> \/ (answer.body = <<>> /\ answer.length > 0)
=============================================================================
