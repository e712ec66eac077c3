-------------------------- MODULE MCCallUserFunction -------------------------
(* Instances of CallUserFunction for TLC. *)
EXTENDS CallUserFunction

\* An event of the batch either parses or does not.
MCBatches == UNION {[1..n -> {"good", "bad"}] : n \in 0..2}
==============================================================================
