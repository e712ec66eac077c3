----------------------------- MODULE MCStartup -------------------------------
(* An instance of Startup for TLC. *)
EXTENDS Startup, TLC

\* Two plain functions, a map of them, and a map that leads to the first map.
MCFunction == {"f", "g", "map", "nested"}
MCMapping == "map" :> ("" :> "f" @@ "b" :> "g") @@ "nested" :> ("b" :> "map" @@ "c" :> "f")
MCTarget == {"", "b", "c"}

\* The limits of the range, either side of each, and a port of each source.
MCPort == {-1, 0, 7070, 8080, 65535, 65536}
==============================================================================
