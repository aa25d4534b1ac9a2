---------------------------- MODULE MCRunRecords ----------------------------
(* One run of a server, one of the command line and a request; a pool of   *)
(* one connection, so that the two threads of the server meet its limit.   *)
EXTENDS RunRecords

CONSTANTS s1, l1
=============================================================================
