---------------------------- MODULE MCFramework ------------------------------
(* An instance of Framework for TLC. *)
EXTENDS Framework
==============================================================================
