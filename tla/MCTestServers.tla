---------------------------- MODULE MCTestServers ----------------------------
(* An instance of TestServers for TLC. *)
EXTENDS TestServers

MCConn == 1..6
==============================================================================
