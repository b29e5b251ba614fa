--------------------------- MODULE MCUserSessions ---------------------------
(* UserSessions on small instances: the accounts, the requests handled at  *)
(* the same time and the sockets are model values.                         *)
EXTENDS UserSessions

CONSTANTS u, v, r1, r2, w1, w2, sweeper

\* Requests differ only in what they are asked to do.
TaskSymmetry == Permutations(Requests) \cup Permutations(Sockets)
=============================================================================
