---------------------------- MODULE ShellSessions ----------------------------
(***************************************************************************)
(* CliShellSessionManager: PTY shells over WebSocket, with the access that *)
(* shell_security and UsersShellAccess give them.                          *)
(*                                                                         *)
(* Everything runs on one event loop.  A connection is refused or          *)
(* registered, checked once more, opened, run by four tasks until one of   *)
(* them ends, and then terminated with every process it started.  Meanwhile*)
(* its login session may end, its permission be removed, a timeout pass,   *)
(* the client leave, the process exit or the server shut down.             *)
(***************************************************************************)
EXTENDS FiniteSets, Naturals, Sequences

CONSTANTS
    Conns,       \* connections, each made once
    Callers,     \* login sessions (or tokens, or adapter identities)
    Configs,     \* CliShellOptions and whether a provider is registered
    MaxSessions, \* max_sessions
    MaxPerUser,  \* max_sessions_per_user
    Started,     \* kinds of processes a shell starts: "job", "daemon", "stray"
    EnvSet,      \* names the host sets in the shell's environment
    Hops,        \* trust_proxy: the reverse proxies in front of the server
    Nobody       \* the caller of a connection that is not open

ASSUME ShellAssumption ==
    /\ MaxSessions \in Nat /\ MaxPerUser \in Nat /\ Hops \in Nat
    /\ Nobody \notin Callers /\ Started \subseteq {"job", "daemon", "stray"}
    /\ \A o \in Configs : o \in [provider : BOOLEAN, token : BOOLEAN,
                                 authorize : BOOLEAN, anonymous : BOOLEAN]

VARIABLES
    config,    \* the options in force
    cred,      \* what the users plugin says of each caller
    note,      \* a change listener is still to be called
    pc,        \* where the handler of a connection is
    who,       \* the caller of a connection
    key,       \* whom the limit per user or address counts it for
    sessions,  \* _sessions: the connections that count
    asked,     \* close_event and what it was set for: "no", "set" or a reason
    ended,     \* end_reason
    due,       \* connections with a check asked for and not made
    fin,       \* finished tasks among read, input and watch
    exit,      \* the task that waits for the process to exit
    procs,     \* processes of a connection that are alive
    hit,       \* targets: the processes that were found
    late,      \* processes started since they were last looked for
    alone      \* shells that exited although nothing was signalled

access == <<config, cred, note>>
child == <<exit, procs, hit, late, alone>>
vars == <<access, pc, who, key, sessions, asked, ended, due, fin, child>>

-----------------------------------------------------------------------------
(* Access *)

\* resolve_mode.
Mode == IF config.provider THEN "users" ELSE
        IF config.token THEN "token" ELSE
        IF config.authorize THEN "custom" ELSE
        IF config.anonymous THEN "anonymous" ELSE "locked"

\* is_active of a session, an API token or an adapter identity, when it
\* answers; without a provider nothing is asked.
EndReason(u) ==
    IF config.provider /\ cred[u] = "denied" THEN "permission removed" ELSE
    IF config.provider /\ cred[u] \in {"ended", "expired"} THEN "session ended" ELSE "none"

\* Mutant of ForwardedClientIp: the leftmost entry, as often seen.
LeftmostEntry(entries) == IF Hops = 0 \/ entries = <<>> THEN "peer" ELSE Head(entries)

\* forwarded_client_ip: the entry the outermost trusted proxy wrote, and the
\* leftmost when there are fewer; "peer" is the socket's own address.
ForwardedClientIp(entries) ==
    IF Hops = 0 \/ entries = <<>> THEN "peer"
    ELSE entries[1 + IF Len(entries) > Hops THEN Len(entries) - Hops ELSE 0]

\* remote_address of a caller behind Hops proxies who sends forged entries of
\* its own: each proxy appends the address it sees, the first one the caller's.
RemoteAddress(u, forged) ==
    LET added == IF Hops = 0 THEN <<>> ELSE <<u>> \o [i \in 1..(Hops - 1) |-> "proxy"]
        found == ForwardedClientIp(forged \o added)
    IN  IF found = "peer" THEN u ELSE found

\* check_token, when a token is configured.
TokenPasses(token) == config.token => token = "right"

\* Whether _authorize gets as far as the host's callback: the ticket or
\* context, can_open, then the token.
Authorized(u, token) ==
    /\ Mode # "locked"
    /\ Mode = "users" => cred[u] = "live"
    /\ Mode # "anonymous" => TokenPasses(token)

\* request_close: only the first reason counts.
RequestClose(c, reason) ==
    /\ asked' = [asked EXCEPT ![c] = IF @ = "no" THEN reason ELSE @]
    /\ ended' = [ended EXCEPT ![c] = IF asked[c] = "no" THEN reason ELSE @]

\* The environment of the process: the host's variables, then the marker.
BuildEnv(c) == [n \in EnvSet \cup {"QCLI_SHELL_ID"} |->
                   IF n = "QCLI_SHELL_ID" THEN c ELSE "host"]

-----------------------------------------------------------------------------
(* Connecting *)

\* _close and return: the session object, if there was one, is gone.
Refuse(c) ==
    /\ pc' = [pc EXCEPT ![c] = "refused"]
    /\ sessions' = sessions \ {c} /\ due' = due \ {c}
    /\ who' = [who EXCEPT ![c] = Nobody] /\ key' = [key EXCEPT ![c] = Nobody]
    /\ asked' = [asked EXCEPT ![c] = "no"] /\ ended' = [ended EXCEPT ![c] = "exited"]

\* The server accepts the socket and resolves the caller, who may have sent
\* X-Forwarded-For entries of its own.
Connect(c, u, token, forged) ==
    /\ pc[c] = "none"
    /\ IF Authorized(u, token)
       THEN /\ pc' = [pc EXCEPT ![c] = "authorizing"]
            /\ who' = [who EXCEPT ![c] = u]
            /\ key' = [key EXCEPT ![c] = IF config.provider THEN u ELSE RemoteAddress(u, forged)]
            /\ UNCHANGED <<sessions, asked, ended, due>>
       ELSE Refuse(c)
    /\ UNCHANGED <<access, fin, child>>

\* The host's callback denies or raises.
Deny(c) ==
    /\ pc[c] = "authorizing" /\ config.authorize /\ Mode # "anonymous"
    /\ Refuse(c)
    /\ UNCHANGED <<access, fin, child>>

\* The limits of _register; 0 is no limit.
Full(k) ==
    \/ MaxSessions > 0 /\ Cardinality(sessions) >= MaxSessions
    \/ MaxPerUser > 0 /\ Cardinality({d \in sessions : key[d] = k}) >= MaxPerUser

\* _register: count and insert, in one stretch.
Register(c) ==
    /\ pc[c] = "authorizing"
    /\ IF Full(key[c])
       THEN Refuse(c)
       ELSE /\ pc' = [pc EXCEPT ![c] = "registered"] /\ sessions' = sessions \cup {c}
            /\ UNCHANGED <<who, key, asked, ended, due>>
    /\ UNCHANGED <<access, fin, child>>

\* Mutant of FirstCheck: the session is not looked at again.
FirstCheckOmitted(c) ==
    /\ pc[c] = "registered"
    /\ IF asked[c] = "no"
       THEN pc' = [pc EXCEPT ![c] = "opening"] /\ UNCHANGED <<who, key, sessions, asked, ended, due>>
       ELSE Refuse(c)
    /\ UNCHANGED <<access, fin, child>>

\* The check after the registration; a shell that is still wanted is opened.
FirstCheck(c) ==
    /\ pc[c] = "registered"
    /\ IF EndReason(who[c]) = "none" /\ asked[c] = "no"
       THEN pc' = [pc EXCEPT ![c] = "opening"] /\ UNCHANGED <<who, key, sessions, asked, ended, due>>
       ELSE Refuse(c)
    /\ UNCHANGED <<access, fin, child>>

\* is_active raises at the check after the registration.
FirstCheckRaises(c) ==
    /\ pc[c] = "registered" /\ config.provider
    /\ Refuse(c)
    /\ UNCHANGED <<access, fin, child>>

-----------------------------------------------------------------------------
(* The session and its processes *)

\* The shell's process group.  A "daemon" left it (a job of its own, nohup,
\* setsid, double fork) and is found by its session, its parent or its marker.
\* A "stray" is out of all of them and without a marker that can be read, or
\* may not be signalled: it changed its environment or its user.
Group == {"shell", "job"}

\* pty.fork, once shell_opened is audited.
Fork(c) ==
    /\ pc[c] = "opening"
    /\ pc' = [pc EXCEPT ![c] = "forked"]
    /\ procs' = [procs EXCEPT ![c] = {"shell"}]
    /\ UNCHANGED <<access, who, key, sessions, asked, ended, due, fin, exit, hit, late, alone>>

\* "ready" was sent: the four tasks start.
Ready(c) ==
    /\ pc[c] = "forked"
    /\ pc' = [pc EXCEPT ![c] = "running"]
    /\ exit' = [exit EXCEPT ![c] = "polling"]
    /\ UNCHANGED <<access, who, key, sessions, asked, ended, due, fin, procs, hit, late, alone>>

\* _marked_pids: the processes whose environment carries the marker; they
\* inherit the shell's environment, which a stray has changed.
Marked(c) == {p \in procs[c] \ {"stray"} : BuildEnv(c)["QCLI_SHELL_ID"] = c}

\* _collect_targets: the shell and its tree while it has not exited, its group
\* and session, and whoever carries the marker.
Targets(c, tree) ==
    {p \in procs[c] : (p = "shell" /\ tree) \/ p = "job" \/ p \in Marked(c) \ {"shell"}}

\* Mutant of EndRun: a client that is gone counts before what was asked for.
EndRunClientFirst(c) ==
    /\ ended' = [ended EXCEPT ![c] = IF "input" \in fin[c] /\ exit[c] # "done" THEN "closed" ELSE @]
    /\ asked' = [asked EXCEPT ![c] = IF @ = "no" THEN "set" ELSE @]
    /\ hit' = [hit EXCEPT ![c] = Targets(c, exit[c] # "done")]
    /\ fin' = [fin EXCEPT ![c] = {}]
    /\ pc' = [pc EXCEPT ![c] = "terminating"]

\* The end of handle_session's try block and the start of _terminate, in one
\* stretch: the reason, the event, the first collection, HUP and TERM.  Which
\* tasks are over does not matter any more.
EndRun(c) ==
    LET left == "input" \in fin[c] /\ exit[c] # "done" /\ asked[c] = "no"
    IN  /\ ended' = [ended EXCEPT ![c] = IF left THEN "closed" ELSE @]
        /\ asked' = [asked EXCEPT ![c] = IF @ = "no" THEN "set" ELSE @]
        /\ hit' = [hit EXCEPT ![c] = Targets(c, exit[c] # "done")]
        /\ fin' = [fin EXCEPT ![c] = {}]
        /\ pc' = [pc EXCEPT ![c] = "terminating"]

\* A task ended.  After the end of the output the exit is awaited a moment.
Wake(c) ==
    /\ pc[c] = "running"
    /\ fin[c] # {} \/ exit[c] = "done"
    /\ IF "read" \in fin[c] /\ exit[c] # "done" /\ asked[c] = "no"
       THEN pc' = [pc EXCEPT ![c] = "lingering"] /\ UNCHANGED <<asked, ended, fin, hit>>
       ELSE EndRun(c)
    /\ UNCHANGED <<access, who, key, sessions, due, exit, procs, late, alone>>

\* The exit, a request to close or the two seconds are over.
LingerEnds(c) ==
    /\ pc[c] = "lingering" /\ EndRun(c)
    /\ UNCHANGED <<access, who, key, sessions, due, exit, procs, late, alone>>

\* The fork or sending "ready" fails: no task was started.
Fails(c) ==
    /\ pc[c] \in {"opening", "forked"}
    /\ ended' = [ended EXCEPT ![c] = "error"]
    /\ pc' = [pc EXCEPT ![c] = "failing"]
    /\ UNCHANGED <<access, who, key, sessions, asked, due, fin, child>>

\* The client was told of the error, or could not be.
FailEnds(c) ==
    /\ pc[c] = "failing"
    /\ asked' = [asked EXCEPT ![c] = IF @ = "no" THEN "set" ELSE @]
    /\ hit' = [hit EXCEPT ![c] = Targets(c, TRUE)]
    /\ pc' = [pc EXCEPT ![c] = "terminating"]
    /\ UNCHANGED <<access, who, key, sessions, ended, due, fin, exit, procs, late, alone>>

\* Mutant of CollectAgain: what was started since the first signal is not
\* looked for.
CollectNothing(c) ==
    /\ pc[c] = "terminating"
    /\ pc' = [pc EXCEPT ![c] = "killing"]
    /\ UNCHANGED <<access, who, key, sessions, asked, ended, due, fin, child>>

\* The grace period is over: collect again.
CollectAgain(c) ==
    /\ pc[c] = "terminating"
    /\ hit' = [hit EXCEPT ![c] = @ \cup Targets(c, exit[c] # "done")]
    /\ pc' = [pc EXCEPT ![c] = "killing"]
    /\ UNCHANGED <<access, who, key, sessions, asked, ended, due, fin, exit, procs, late, alone>>

\* The rest of that stretch of _terminate: KILL the group and whatever was
\* found, unless the shell was reaped and the others are gone.  Processes start
\* and end between the two, the shell's tasks do not run.
Kill(c) ==
    /\ pc[c] = "killing"
    /\ procs' = [procs EXCEPT ![c] =
                   IF exit[c] # "done" \/ (@ \cap hit[c]) \ {"shell"} # {}
                   THEN @ \ (hit[c] \cup Group) ELSE @]
    /\ pc' = [pc EXCEPT ![c] = "reaping"]
    /\ UNCHANGED <<access, who, key, sessions, asked, ended, due, fin, exit, hit, late, alone>>

\* Whether shell_closed has an exit code: no other reason ended the shell.
ExitCode(c) == ended[c] = "exited" /\ exit[c] = "done"

\* The shell was reaped, or the wait for it is over: the tasks are cancelled,
\* the session is removed and shell_closed is audited with end_reason, and
\* with ExitCode.  What the session held is gone, and nobody
\* follows the processes that are left.
Finish(c) ==
    /\ pc[c] = "reaping"
    /\ pc' = [pc EXCEPT ![c] = "closed"]
    /\ sessions' = sessions \ {c} /\ due' = due \ {c}
    /\ asked' = [asked EXCEPT ![c] = "no"] /\ ended' = [ended EXCEPT ![c] = "exited"]
    /\ exit' = [exit EXCEPT ![c] = "none"]
    /\ hit' = [hit EXCEPT ![c] = {}]
    /\ who' = [who EXCEPT ![c] = Nobody] /\ key' = [key EXCEPT ![c] = Nobody]
    /\ alone' = alone \ {c}
    /\ procs' = [procs EXCEPT ![c] = {}] /\ late' = [late EXCEPT ![c] = {}]
    /\ UNCHANGED <<access, fin>>

\* _wait_for_exit finds the shell gone; it tells the client unless the server
\* is closing the shell.
Reap(c) ==
    /\ exit[c] = "polling" /\ "shell" \notin procs[c] /\ pc[c] # "killing"
    /\ exit' = [exit EXCEPT ![c] = IF asked[c] = "no" THEN "sending" ELSE "done"]
    /\ UNCHANGED <<access, pc, who, key, sessions, asked, ended, due, fin, procs, hit, late, alone>>

\* The exit message is sent, or cannot be.
ExitSent(c) ==
    /\ exit[c] = "sending" /\ pc[c] # "killing"
    /\ exit' = [exit EXCEPT ![c] = "done"]
    /\ UNCHANGED <<access, pc, who, key, sessions, asked, ended, due, fin, procs, hit, late, alone>>

\* _read_pty_output meets the end of the output or cannot send it.
OutputEnds(c) ==
    /\ pc[c] \in {"running", "lingering"}
    /\ fin' = [fin EXCEPT ![c] = @ \cup {"read"}]
    /\ UNCHANGED <<access, pc, who, key, sessions, asked, ended, due, child>>

\* _read_websocket_input: the client left, or the PTY cannot be written.
ClientLeaves(c) ==
    /\ pc[c] \in {"running", "lingering"}
    /\ fin' = [fin EXCEPT ![c] = @ \cup {"input"}]
    /\ UNCHANGED <<access, pc, who, key, sessions, asked, ended, due, child>>

\* _watch returns once the event is set.
WatchEnds(c) ==
    /\ pc[c] \in {"running", "lingering"} /\ asked[c] # "no"
    /\ fin' = [fin EXCEPT ![c] = @ \cup {"watch"}]
    /\ UNCHANGED <<access, pc, who, key, sessions, asked, ended, due, child>>

\* _watch: the idle timeout or the maximum duration is over.
TimesOut(c) ==
    /\ pc[c] \in {"running", "lingering"} /\ "watch" \notin fin[c]
    /\ asked[c] = "no" /\ RequestClose(c, "shell timed out")
    /\ UNCHANGED <<access, pc, who, key, sessions, due, fin, child>>

\* _check, as it is asked for by a change.
Check(c) ==
    /\ c \in due
    /\ due' = due \ {c}
    /\ IF EndReason(who[c]) = "none"
       THEN UNCHANGED <<asked, ended>>
       ELSE RequestClose(c, EndReason(who[c]))
    /\ UNCHANGED <<access, pc, who, key, sessions, fin, child>>

\* Mutant of PeriodicCheck: made for shells without a principal instead.
PeriodicCheckOfNobody(c) ==
    /\ pc[c] \in {"running", "lingering"} /\ "watch" \notin fin[c]
    /\ asked[c] = "no" /\ ~config.provider /\ EndReason(who[c]) # "none"
    /\ RequestClose(c, EndReason(who[c]))
    /\ UNCHANGED <<access, pc, who, key, sessions, due, fin, child>>

\* _watch: the periodic check; one that finds nothing changes nothing.
PeriodicCheck(c) ==
    /\ pc[c] \in {"running", "lingering"} /\ "watch" \notin fin[c]
    /\ asked[c] = "no" /\ EndReason(who[c]) # "none"
    /\ RequestClose(c, EndReason(who[c]))
    /\ UNCHANGED <<access, pc, who, key, sessions, due, fin, child>>

\* is_active raises at a check that was asked for or at the periodic one: the
\* shell is closed.
CheckRaises(c) ==
    /\ config.provider /\ RequestClose(c, "error")
    /\ \/ c \in due /\ due' = due \ {c}
       \/ /\ pc[c] \in {"running", "lingering"} /\ "watch" \notin fin[c]
          /\ asked[c] = "no" /\ UNCHANGED due
    /\ UNCHANGED <<access, pc, who, key, sessions, fin, child>>

\* close_all.
CloseAll ==
    /\ sessions # {}
    /\ asked' = [c \in Conns |-> IF c \in sessions /\ asked[c] = "no" THEN "server shutdown" ELSE asked[c]]
    /\ ended' = [c \in Conns |-> IF c \in sessions /\ asked[c] = "no" THEN "server shutdown" ELSE ended[c]]
    /\ UNCHANGED <<access, pc, who, key, sessions, due, fin, child>>

-----------------------------------------------------------------------------
(* The users plugin and the processes *)

\* A session is signed out, revoked, or its user disabled or deleted
\* ("ended"), or a group loses shell:execute ("denied"); listeners are called
\* afterwards.  A permission may come back, a session does not.
Change(u, state) ==
    /\ Mode = "users" /\ cred[u] \in {"live", "denied"} /\ cred[u] # state
    /\ cred' = [cred EXCEPT ![u] = state]
    /\ note' = TRUE
    /\ UNCHANGED <<config, pc, who, key, sessions, asked, ended, due, fin, child>>

\* A session expires, which nobody is told.
Expire(u) ==
    /\ Mode = "users" /\ cred[u] \in {"live", "denied"}
    /\ cred' = [cred EXCEPT ![u] = "expired"]
    /\ UNCHANGED <<config, note, pc, who, key, sessions, asked, ended, due, fin, child>>

\* request_recheck, called on every change of sessions, users and groups.
RequestRecheck ==
    /\ note /\ note' = FALSE
    /\ due' = due \cup {c \in sessions : config.provider /\ asked[c] = "no"}
    /\ UNCHANGED <<config, cred, pc, who, key, sessions, asked, ended, fin, child>>

\* A process of the shell starts another; one that gave up the group or the
\* marker does not come back.
Spawn(c, p) ==
    LET parents == procs[c] \ IF p = "job" THEN {"daemon", "stray"}
                              ELSE IF p = "daemon" THEN {"stray"} ELSE {}
    IN  /\ parents # {} /\ p \notin procs[c]
        /\ procs' = [procs EXCEPT ![c] = @ \cup {p}]
        /\ hit' = [hit EXCEPT ![c] = @ \ {p}]
        /\ late' = [late EXCEPT ![c] = IF pc[c] \in {"killing", "reaping"} THEN @ \cup {p} ELSE @]
        /\ UNCHANGED <<access, pc, who, key, sessions, asked, ended, due, fin, exit, alone>>

\* A process ends, by itself or by the signals it does not ignore.
Dies(c, p) ==
    /\ p \in procs[c]
    /\ procs' = [procs EXCEPT ![c] = @ \ {p}]
    /\ alone' = IF p = "shell" /\ p \notin hit[c] THEN alone \cup {c} ELSE alone
    /\ UNCHANGED <<access, pc, who, key, sessions, asked, ended, due, fin, exit, hit, late>>

-----------------------------------------------------------------------------
Init ==
    /\ config \in Configs
    /\ cred = [u \in Callers |-> "live"] /\ note = FALSE
    /\ pc = [c \in Conns |-> "none"] /\ who = [c \in Conns |-> Nobody]
    /\ key = [c \in Conns |-> Nobody]
    /\ sessions = {} /\ due = {} /\ alone = {}
    /\ asked = [c \in Conns |-> "no"] /\ ended = [c \in Conns |-> "exited"]
    /\ fin = [c \in Conns |-> {}] /\ exit = [c \in Conns |-> "none"]
    /\ procs = [c \in Conns |-> {}] /\ hit = [c \in Conns |-> {}]
    /\ late = [c \in Conns |-> {}]

\* What the event loop runs for a connection.
Handler(c) ==
    \/ Register(c) \/ FirstCheck(c) \/ Fork(c) \/ Ready(c) \/ Wake(c)
    \/ LingerEnds(c) \/ FailEnds(c) \/ CollectAgain(c) \/ Kill(c) \/ Finish(c)

Tasks(c) == Reap(c) \/ ExitSent(c) \/ WatchEnds(c) \/ Check(c) \/ PeriodicCheck(c)

Next ==
    \/ \E c \in Conns :
        \/ \E u \in Callers, token \in {"none", "wrong", "right"},
              forged \in {<<>>, <<"forged">>} : Connect(c, u, token, forged)
        \/ Deny(c) \/ Handler(c) \/ Tasks(c) \/ FirstCheckRaises(c) \/ CheckRaises(c)
        \/ Fails(c) \/ OutputEnds(c) \/ ClientLeaves(c) \/ TimesOut(c)
        \/ \E p \in Started : Spawn(c, p)
        \/ \E p \in Started \cup {"shell"} : Dies(c, p)
    \/ \E u \in Callers : Expire(u) \/ \E state \in {"live", "ended", "denied"} : Change(u, state)
    \/ RequestRecheck
    \/ CloseAll

Spec == Init /\ [][Next]_vars

\* The loop runs every ready task, the listeners are called; clients,
\* administrators, processes and the clock do as they like.
FairSpec ==
    /\ Spec
    /\ WF_vars(RequestRecheck)
    /\ \A c \in Conns : /\ WF_vars(Handler(c)) /\ WF_vars(ExitSent(c))
                        /\ WF_vars(Reap(c)) /\ WF_vars(WatchEnds(c))
                        /\ WF_vars(Check(c)) /\ WF_vars(PeriodicCheck(c))

-----------------------------------------------------------------------------
Processes == {"shell", "job", "daemon", "stray"}
Reasons == {"exited", "closed", "session ended", "permission removed",
            "shell timed out", "server shutdown", "error"}

\* Every variable has its type: the stages of handle_session and its reasons.
TypeOK ==
    /\ config \in Configs /\ note \in BOOLEAN
    /\ cred \in [Callers -> {"live", "denied", "ended", "expired"}]
    /\ pc \in [Conns -> {"none", "authorizing", "refused", "registered", "opening", "forked",
                         "failing", "running", "lingering", "terminating", "killing", "reaping",
                         "closed"}]
    /\ who \in [Conns -> Callers \cup {Nobody}]
    /\ key \in [Conns -> Callers \cup {Nobody, "forged", "proxy"}]
    /\ sessions \subseteq Conns /\ due \subseteq Conns
    /\ alone \subseteq Conns
    /\ asked \in [Conns -> Reasons \cup {"no", "set"}] /\ ended \in [Conns -> Reasons]
    /\ fin \in [Conns -> SUBSET {"read", "input", "watch"}]
    /\ exit \in [Conns -> {"none", "polling", "sending", "done"}]
    /\ procs \in [Conns -> SUBSET Processes] /\ hit \in [Conns -> SUBSET Processes]
    /\ late \in [Conns -> SUBSET Processes]

\* The processes of a shell that _terminate answers for: neither strays nor
\* started since it looked for the last time.
Held(c) == procs[c] \ (late[c] \cup {"stray"})

\* max_sessions and max_sessions_per_user hold for whatever has processes that
\* can be found, although callers are authorised long before they are counted and may write
\* forwarding headers of their own.
ShellLimits ==
    LET open == {c \in Conns : Held(c) # {}}
    IN  /\ MaxSessions > 0 => Cardinality(open) <= MaxSessions
        /\ MaxPerUser > 0 =>
             \A u \in Callers : Cardinality({c \in open : who[c] = u}) <= MaxPerUser

\* A shell whose session was ended or lost its permission, at any moment since
\* its ticket was consumed, is closing or has a check coming: the periodic
\* check is not needed for it.
EndReachesShell ==
    \A c \in sessions :
        /\ config.provider /\ pc[c] \in {"opening", "forked", "failing", "running", "lingering"}
        /\ cred[who[c]] \in {"ended", "denied"}
        => asked[c] # "no" \/ c \in due \/ note

\* What _terminate leaves behind gave up group, parent and marker (or may not
\* be signalled), or was started after the second collection: whatever the shell
\* had by then is gone, however it ended, also what was started while the first
\* signals took effect, and although nothing is sent once the known ones are gone.
NoOrphans == \A c \in Conns : pc[c] = "reaping" => Held(c) = {}

\* "a process escapes only by deliberately unsetting or changing QCLI_SHELL_ID
\* before detaching, or by running as another user".
OnlyStraysEscape ==
    \A c \in Conns : pc[c] = "reaping" => procs[c] \subseteq {"stray"}

\* The first request to close is the reason shell_closed tells, unless the
\* shell could not be started, whichever tasks end meanwhile.
FirstReasonIsAudited ==
    \A c \in Conns :
        pc[c] = "reaping" /\ asked[c] # "set" => ended[c] \in {asked[c], "error"}

\* shell_closed has an exit code only when the process exited by itself
\* ("exitCode only when the process exited by itself").
ExitCodeMeansExit == \A c \in Conns : pc[c] = "reaping" /\ ExitCode(c) => c \in alone

\* _terminate signals the pid of the shell until the exit task is done; no
\* signal may go to a pid that has been reaped ("Once the shell is reaped its
\* pid may be reused").
NeverSignalsReaped ==
    [][\A c \in Conns :
        pc'[c] # pc[c] /\ pc'[c] \in {"terminating", "reaping"} => exit[c] # "sending"]_vars

\* A shell does not outlive its session: also an expiry, which nobody is told
\* of, ends it.
ShellFollowsSession ==
    \A c \in Conns :
        (/\ pc[c] = "running" /\ config.provider
         /\ cred[who[c]] \in {"ended", "expired"}) ~> pc[c] = "closed"
=============================================================================
