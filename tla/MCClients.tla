----------------------------- MODULE MCClients -----------------------------
(* Every kind of object with the calls of two lives and two faults.        *)
EXTENDS Clients
=============================================================================
