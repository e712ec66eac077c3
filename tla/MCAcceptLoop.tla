---------------------------- MODULE MCAcceptLoop -----------------------------
(* Instances of AcceptLoop for TLC. *)
EXTENDS AcceptLoop, TLC

\* The connections differ in nothing but their name.
ConnSymmetry == Permutations(Conn)
==============================================================================
