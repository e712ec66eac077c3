-------------------------- MODULE MCUserFunctions ----------------------------
(* An instance of UserFunctions for TLC: the functions of the repository. *)
EXTENDS UserFunctions, Examples

MCValue == MakesLazily \cup {NoValue}
==============================================================================
