------------------------------ MODULE MCMaster ------------------------------
(* Master::Stop with two clients, one of which may connect while it runs. *)
EXTENDS Master

CONSTANTS c1, c2, external, w1

TwoClients == {c1, c2}
OneListener == {external}
OneWorker == {w1}
=============================================================================
