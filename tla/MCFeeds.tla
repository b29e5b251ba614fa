------------------------------ MODULE MCFeeds ------------------------------
(* Small instances of Feeds for TLC. *)
EXTENDS Feeds

Warnings(s) == "warning"
Alike == Permutations(LogSockets)
Halves == {<<1, 3>>}
(* Feeds that do not touch each other are taken apart. *)
Apart == {{"event sockets", "events", "audit"}, {"log sockets", "logs"},
          {"reader", "logs"}, {"reader", "audit"}}
=============================================================================
