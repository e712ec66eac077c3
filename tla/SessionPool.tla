----------------------------- MODULE SessionPool -----------------------------
(***************************************************************************)
(* What the accept loop of the framework promises to the clients that      *)
(* connect to it, with no vector of futures, no cleanup passes and no      *)
(* blocking calls: a connection arrives once, is started at most once, at  *)
(* most kMaximumSessions sessions are active at a time, a session that     *)
(* started is never abandoned, and the server is gone only when no session *)
(* is active.                                                              *)
(*                                                                         *)
(* AcceptLoop implements this module.                                      *)
(***************************************************************************)
EXTENDS Naturals, FiniteSets

CONSTANTS Conn,               \* the connections clients may make
          kMaximumSessions    \* the sessions that may be active together

VARIABLES waiting,   \* connected, no session yet
          active,    \* served by a session
          over,      \* their session ended
          refused,   \* closed without ever having had a session
          stopped    \* the server is gone

poolVars == <<waiting, active, over, refused, stopped>>

Known == waiting \cup active \cup over \cup refused

PoolInit ==
  /\ waiting = {} /\ active = {} /\ over = {} /\ refused = {}
  /\ stopped = FALSE

Arrive(c) ==
  /\ ~stopped
  /\ c \notin Known
  /\ waiting' = waiting \cup {c}
  /\ UNCHANGED <<active, over, refused, stopped>>

Start(c) ==
  /\ c \in waiting
  /\ Cardinality(active) < kMaximumSessions
  /\ waiting' = waiting \ {c}
  /\ active' = active \cup {c}
  /\ UNCHANGED <<over, refused, stopped>>

Finish(c) ==
  /\ c \in active
  /\ active' = active \ {c}
  /\ over' = over \cup {c}
  /\ UNCHANGED <<waiting, refused, stopped>>

\* The server could not start a session for a connection it accepted.
Refuse(c) ==
  /\ c \in waiting
  /\ waiting' = waiting \ {c}
  /\ refused' = refused \cup {c}
  /\ UNCHANGED <<active, over, stopped>>

Stop ==
  /\ ~stopped
  /\ active = {}
  /\ stopped' = TRUE
  /\ waiting' = {}
  /\ refused' = refused \cup waiting
  /\ UNCHANGED <<active, over>>

PoolNext ==
  \/ \E c \in Conn : Arrive(c) \/ Start(c) \/ Finish(c) \/ Refuse(c)
  \/ Stop

PoolSpec == PoolInit /\ [][PoolNext]_poolVars
==============================================================================
