---------------------------- MODULE MCRateLimiter ----------------------------
(***************************************************************************)
(* Three requests of one client, two of them at the same process; a minute *)
(* is two ticks.                                                           *)
(***************************************************************************)
EXTENDS RateLimiter

CONSTANTS p1, q1, a, b, c

MCCallers == {a, b, c}
MCProcesses == {p1, q1}
MCHome == (a :> p1) @@ (b :> p1) @@ (c :> q1)
=============================================================================
