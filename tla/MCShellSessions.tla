--------------------------- MODULE MCShellSessions ---------------------------
(* The host configurations the runs of ShellSessions draw from. *)
EXTENDS ShellSessions

Options(p, t, f, a) == [provider |-> p, token |-> t, authorize |-> f, anonymous |-> a]

EveryMode == {Options(TRUE, TRUE, FALSE, TRUE), Options(FALSE, TRUE, FALSE, FALSE),
              Options(FALSE, FALSE, TRUE, TRUE),
              Options(FALSE, FALSE, FALSE, TRUE), Options(FALSE, FALSE, FALSE, FALSE)}
==============================================================================
