---------------------------- MODULE MCEventLoop ----------------------------
(* EventLoop as the server uses it, with the TaskBuilder as the only adder.  *)
EXTENDS EventLoop

CONSTANTS builder, e1, e2

OneAdder == {builder}
TwoEvents == {e1, e2}
=============================================================================
