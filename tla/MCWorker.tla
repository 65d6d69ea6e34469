------------------------------ MODULE MCWorker ------------------------------
(* Two workers and three tasks, the fewest for an item to be erased while it *)
(* is read, on a directory with two files of different sizes, an index file  *)
(* that is missing and another file that is missing.                         *)
EXTENDS Worker

CONSTANTS w1, w2, t1, t2, t3, page, note, index, missing

TwoWorkers == {w1, w2}
ThreeTasks == {t1, t2, t3}
OneReader == {t3}
AllFiles == {page, note, index, missing}
DiskFiles == {page, note}
OneIndexFile == {index}
Sizes == [c \in Contents |->
  CASE c = page -> 2 [] c = note -> 1 [] c = Garbage -> 3 [] OTHER -> 0]

GetOf(url) == [method |-> "GET", url |-> url, hasVersion |-> TRUE, length |-> NoLength]
HeadOf(url) == [GetOf(url) EXCEPT !.method = "HEAD"]
NoVersion(r) == [r EXCEPT !.hasVersion = FALSE]
Other(length) == [GetOf(page) EXCEPT !.method = "other", !.length = length]

(* Every path through the task functions. *)
AllRequests ==
  {GetOf(page), GetOf(note), HeadOf(page), GetOf(index), HeadOf(missing), GetOf(Dotted),
   NoVersion(GetOf(note)), NoVersion(HeadOf(page)), Other(NoLength), Other(1)}
=============================================================================
