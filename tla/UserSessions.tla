---------------------------- MODULE UserSessions ----------------------------
(***************************************************************************)
(* Sessions of the users plugin and the event sockets bound to them:       *)
(* AuthService and UsersService (plugins/users/qodalis_cli_users/services) *)
(* with SessionBoundSockets and CliEventSocketManager                      *)
(* (src/qodalis_cli/services).                                             *)
(*                                                                         *)
(* Every request, the session sweep and every connecting socket is a task  *)
(* on one asyncio event loop.  A task is the list of steps it still has to *)
(* take (its script): one step per call of a store and per stretch of code *)
(* between two such calls.  loop is the task that runs: with the in-memory *)
(* stores, whose coroutines never suspend, a task keeps the loop until it  *)
(* really waits, for the thread that hashes a password, for a socket to be *)
(* accepted or for a message to be sent.  With a host's own stores         *)
(* (SlowStores) it may lose the loop at every call.                        *)
(*                                                                         *)
(* Time is abstracted: a session, a ticket or a lock may expire whenever   *)
(* no task runs.  A password is right or wrong.                            *)
(***************************************************************************)
EXTENDS Integers, FiniteSets, Sequences, SequencesExt

CONSTANTS
    Users,        \* the accounts
    Requests,     \* bound: requests handled at the same time
    Sockets,      \* bound: event sockets opened over the whole history
    Sweeper,      \* the background task of _cleanup_loop
    MaxSessions,  \* bound: sessions opened over the whole history
    MaxTickets,   \* bound: tickets issued over the whole history
    MaxAttempts,  \* max_login_attempts
    SlowStores,   \* every call of a store or an event handler may suspend
    Operations    \* bound: the requests made

Session == 1..MaxSessions
Ticket == 1..MaxTickets
Tasks == Requests \cup Sockets \cup {Sweeper}
Free == "free"

ASSUME UsersAssumption == Users # {}
ASSUME TasksAssumption ==
    /\ Requests \cap Sockets = {} /\ IsFiniteSet(Sockets)
    /\ Sweeper \notin Requests \cup Sockets
    /\ Free \notin Tasks
ASSUME SessionBoundsAssumption ==
    MaxSessions \in Nat /\ MaxTickets \in Nat /\ MaxAttempts \in Nat \ {0}
ASSUME SessionFlagsAssumption == SlowStores \in BOOLEAN
ASSUME OperationsAssumption ==
    Operations \subseteq {"login", "verify", "own password", "reset", "disable", "enable",
                          "delete", "logout", "revoke", "ticket", "list"}

\* An account that was never created or has been deleted is "gone".
Accounts == {"enabled", "disabled", "gone"}

\* What reserve_attempt counts: <<u, TRUE>> is the key of user u's id,
\* <<u, FALSE>> the key "unknown:name" of an attempt that found no user.
Keys == Users \X BOOLEAN

VARIABLES
    user,      \* user store: the state of each account
    creds,     \* credential store: the users that have a password
    owner,     \* user_id of each session opened so far
    live,      \* session store: the sessions it holds
    expired,   \* the sessions whose expires_at has passed
    lock,      \* _lockouts: failures and whether locked; and, for the
               \* properties, the attempts since the entry was last dropped
    issued,    \* tickets issued so far
    tickets,   \* _tickets: ticket id and session id
    task,      \* the tasks
    loop,      \* the task that runs, or Free
    sock,      \* state of each event socket
    sockSess,  \* the session of its identity (0: none)
    due,       \* bound sockets with a requested check that has not begun
    half,      \* bound sockets whose check has seen the session, not the user
    announced, \* sessions whose session:closed was published
    owed       \* sockets that a revocation owes a session-kicked

vars == <<user, creds, owner, live, expired, lock, issued, tickets, task,
          loop, sock, sockSess, due, half, announced, owed>>

accounts == <<user, creds>>
sessions == <<owner, live, expired>>
doors == <<issued, tickets, lock>>
sockets == <<sock, sockSess, due, half>>

-----------------------------------------------------------------------------
(* Tasks.                                                                  *)

StepNames == {"reserve", "credentials", "verify", "stamp", "open", "session", "user",
              "touch", "issue", "lookup", "logout", "expire", "scan", "revoke",
              "announce", "kick", "send", "notify", "list", "password", "flag",
              "disable", "enable", "delete", "forget", "all", "before", "purge",
              "compare", "clear", "bind"}

Step(d) == [do |-> d, arg |-> 0]
StepOn(d, x) == [do |-> d, arg |-> x]

Idle == [script |-> <<>>, user |-> Free, snap |-> "gone", keep |-> 0, found |-> FALSE,
         before |-> {}]

At(p, d) ==
    /\ loop \in {Free, p}
    /\ task[p].script # <<>>
    /\ Head(task[p].script).do = d

Arg(p) == Head(task[p].script).arg

Rest(p) == Tail(task[p].script)

\* The steps a task reaches only after a real wait: for the password thread
\* (verify_password_async, hash_password_async) or for websocket.accept().
Waits == {"verify", "password", "bind"}

\* The task goes on as t, and keeps the loop unless it ends or waits.
Resume(p, t) ==
    /\ task' = [task EXCEPT ![p] = IF t.script = <<>> THEN Idle ELSE t]
    /\ loop' = IF t.script = <<>> \/ SlowStores \/ Head(t.script).do \in Waits
               THEN Free ELSE p

GoOn(p, script) == Resume(p, [task[p] EXCEPT !.script = script])

\* An exception or an early return: the rest of the handler is skipped.
Abort(p) == GoOn(p, <<>>)

Start(p, u, snap, keep, script) ==
    /\ task[p] = Idle
    /\ loop = Free
    /\ Resume(p, [Idle EXCEPT !.script = script, !.user = u, !.snap = snap, !.keep = keep])
    /\ UNCHANGED <<accounts, sessions, doors, sockets, announced, owed>>

\* The members of a set of numbers, the smallest first.
InOrder(S) ==
    [i \in 1..Cardinality(S) |-> CHOOSE x \in S : Cardinality({y \in S : y <= x}) = i]

-----------------------------------------------------------------------------
(* The requests: what each handler does, as a script.                      *)

\* authenticate_token: the session, its user, then update_last_activity.
Authenticate(s) == <<StepOn("session", s), StepOn("user", s), StepOn("touch", s)>>

\* verify_password behind reserve_attempt, as login and check_password_attempt.
PasswordCheck == <<Step("reserve"), Step("credentials"), Step("verify")>>

\* revoke_session: delete the session and its tickets, publish
\* session:closed, send session-kicked, then audit, which notifies.
Revocation(s) ==
    <<StepOn("revoke", s), StepOn("announce", s), StepOn("kick", s), Step("notify")>>

\* The loop of revoke_user_sessions: a revocation for each session, in turn.
RevokeEach(order) ==
    LET n == Len(Revocation(0)) IN
    [i \in 1..(Len(order) * n) |->
        Revocation(order[((i - 1) \div n) + 1])[((i - 1) % n) + 1]]

\* The tasks that still have to take a step d.
Pending(d) == {p \in Tasks : \E i \in DOMAIN task[p].script : task[p].script[i].do = d}

\* POST /sessions.  The user is read here and used until the session exists.
Login(p, u) ==
    /\ "login" \in Operations
    /\ Len(owner) + Cardinality(Pending("open")) < MaxSessions
    /\ Start(p, u, user[u], 0, PasswordCheck \o <<Step("stamp"), Step("open")>>)

\* POST /users/{id}/verify-password.
VerifyPassword(p, u) ==
    /\ "verify" \in Operations
    /\ user[u] # "gone"
    /\ Start(p, u, user[u], 0, PasswordCheck)

\* PUT /users/{id}/password by the user itself, from session s: the current
\* password is asked for unless the user may update users, and a pending
\* change is cleared when there is one.
OwnPassword(p, s, asked, pending) ==
    /\ "own password" \in Operations
    /\ Start(p, owner[s], "enabled", s,
             Authenticate(s)
             \o (IF asked THEN PasswordCheck ELSE <<>>)
             \o <<Step("password")>>
             \o (IF pending THEN <<Step("clear")>> ELSE <<>>)
             \o <<Step("notify"), Step("list")>>)

\* PUT /users/{id}/password by an administrator.
ResetPassword(p, u) ==
    /\ "reset" \in Operations
    /\ user[u] # "gone"
    /\ Start(p, u, user[u], 0,
             <<Step("password"), Step("flag"), Step("notify"), Step("list")>>)

\* PUT /users/{id} with disabled: sessions are revoked when the account that
\* was read was enabled.
DisableUser(p, u) ==
    /\ "disable" \in Operations
    /\ user[u] # "gone"
    /\ Start(p, u, user[u], 0,
             <<Step("disable"), Step("notify")>>
             \o (IF user[u] = "enabled" THEN <<Step("notify"), Step("list")>> ELSE <<>>))

EnableUser(p, u) ==
    /\ "enable" \in Operations
    /\ user[u] # "gone"
    /\ Start(p, u, user[u], 0,
             <<Step("enable"), Step("notify")>>
             \o (IF user[u] = "disabled" THEN <<Step("notify")>> ELSE <<>>))

\* DELETE /users/{id}.
DeleteUser(p, u) ==
    /\ "delete" \in Operations
    /\ user[u] # "gone"
    /\ Start(p, u, user[u], 0,
             <<Step("delete"), Step("forget"), Step("list"), Step("notify"), Step("notify")>>)

\* DELETE /sessions/current.
Logout(p, s) ==
    /\ "logout" \in Operations
    /\ Start(p, owner[s], "enabled", 0,
             Authenticate(s)
             \o <<StepOn("lookup", s), StepOn("logout", s), Step("notify"), StepOn("announce", s)>>)

\* DELETE /sessions/{id}: 404 unless the session is stored.
RevokeSession(p, s) ==
    /\ "revoke" \in Operations
    /\ s \in live
    /\ Start(p, owner[s], "enabled", 0, Revocation(s))

\* POST /sessions/ws-ticket.
IssueTicket(p, s) ==
    /\ "ticket" \in Operations
    /\ issued + Cardinality(Pending("issue")) < MaxTickets
    /\ Start(p, owner[s], "enabled", 0, Authenticate(s) \o <<StepOn("issue", s)>>)

\* GET /sessions, which deletes the expired sessions it meets.
ListSessions(p) ==
    /\ "list" \in Operations
    /\ Start(p, Free, "gone", 0, <<Step("all")>>)

\* cleanup_sessions, from the loop of the background task.
Sweep == Start(Sweeper, Free, "gone", 0, <<Step("before"), Step("purge"), Step("compare")>>)

\* A WebSocket request: consume_ticket pops the ticket, then resolves its
\* session and user as a request does (without touching the session).
Connect(w) ==
    /\ sock[w] = "new"
    /\ task[w] = Idle
    /\ loop = Free
    /\ \E t \in tickets :
        /\ tickets' = tickets \ {t}
        /\ Resume(w, [Idle EXCEPT !.user = owner[t.s], !.snap = "enabled",
                      !.script = <<StepOn("session", t.s), StepOn("user", t.s),
                                   StepOn("bind", t.s)>>])
    /\ UNCHANGED <<accounts, sessions, issued, lock, sockets, announced, owed>>

-----------------------------------------------------------------------------
(* Passwords.                                                              *)

NoLock == [failures |-> 0, locked |-> FALSE, tried |-> 0]

Key(p) == <<task[p].user, task[p].snap # "gone">>

\* Mutant of CountAttempt: the count restarts at the limit, nothing locks.
CountAttemptUnlocked(l) ==
    [failures |-> (l.failures + 1) % MaxAttempts, locked |-> FALSE, tried |-> l.tried + 1]

\* reserve_attempt: refuse when locked, else count the attempt before it is
\* verified, and lock at the limit.
CountAttempt(l) ==
    LET n == l.failures + 1 IN
    IF n >= MaxAttempts
    THEN [failures |-> 0, locked |-> TRUE, tried |-> l.tried + 1]
    ELSE [failures |-> n, locked |-> FALSE, tried |-> l.tried + 1]

Reserve(p) ==
    /\ At(p, "reserve")
    /\ IF lock[Key(p)].locked
       THEN Abort(p) /\ UNCHANGED lock
       ELSE /\ lock' = [lock EXCEPT ![Key(p)] = CountAttempt(@)]
            /\ IF task[p].snap = "gone" THEN Abort(p) ELSE GoOn(p, Rest(p))
    /\ UNCHANGED <<accounts, sessions, issued, tickets, sockets, announced, owed>>

\* get_credentials; the hash is then computed in the password thread.
ReadCredentials(p) ==
    /\ At(p, "credentials")
    /\ Resume(p, [task[p] EXCEPT !.script = Rest(p), !.found = task[p].user \in creds])
    /\ UNCHANGED <<accounts, sessions, doors, sockets, announced, owed>>

\* The hash is known.  A right password drops the lockout entry; a login then
\* looks at the account it read before.
Verify(p) ==
    /\ At(p, "verify")
    /\ \/ Abort(p) /\ UNCHANGED lock
       \/ /\ task[p].found
          /\ lock' = [lock EXCEPT ![Key(p)] = NoLock]
          /\ IF Rest(p) # <<>> /\ Head(Rest(p)).do = "stamp" /\ task[p].snap = "disabled"
             THEN Abort(p)
             ELSE GoOn(p, Rest(p))
    /\ UNCHANGED <<accounts, sessions, issued, tickets, sockets, announced, owed>>

\* Mutant of UpdateAccount: no KeyError for an account that is gone.
UpdateAnyAccount(p, d) ==
    /\ At(p, d)
    /\ GoOn(p, Rest(p))

\* update_user(last_login_at), and update_user(must_change_password) after a
\* password change: KeyError when the account is gone.
UpdateAccount(p, d) ==
    /\ At(p, d)
    /\ IF user[task[p].user] = "gone" THEN Abort(p) ELSE GoOn(p, Rest(p))

StampLogin(p) ==
    /\ UpdateAccount(p, "stamp")
    /\ UNCHANGED <<accounts, sessions, doors, sockets, announced, owed>>

ClearPending(p) ==
    /\ UpdateAccount(p, "clear")
    /\ UNCHANGED <<accounts, sessions, doors, sockets, announced, owed>>

\* An administrator's reset first clears the lockout.
FlagPending(p) ==
    /\ UpdateAccount(p, "flag")
    /\ lock' = [lock EXCEPT ![<<task[p].user, TRUE>>] = NoLock]
    /\ UNCHANGED <<accounts, sessions, issued, tickets, sockets, announced, owed>>

SetPassword(p) ==
    /\ At(p, "password")
    /\ creds' = creds \cup {task[p].user}
    /\ GoOn(p, Rest(p))
    /\ UNCHANGED <<user, sessions, doors, sockets, announced, owed>>

-----------------------------------------------------------------------------
(* Sessions.                                                               *)

OpenSession(p) ==
    /\ At(p, "open")
    /\ owner' = Append(owner, task[p].user)
    /\ live' = live \cup {Len(owner) + 1}
    /\ GoOn(p, Rest(p))
    /\ UNCHANGED <<accounts, expired, doors, sockets, announced, owed>>

\* Mutant of FindSession: an expired session is only deleted.
FindSessionSilently(p) ==
    /\ At(p, "session")
    /\ LET s == Arg(p) IN
       IF s \notin live THEN Abort(p)
       ELSE IF s \in expired THEN GoOn(p, <<StepOn("expire", s)>>)
       ELSE GoOn(p, Rest(p))
    /\ UNCHANGED <<accounts, sessions, doors, sockets, announced, owed>>

\* get_session and _context_for_session: an expired session is deleted and
\* announced, and the request fails.
FindSession(p) ==
    /\ At(p, "session")
    /\ LET s == Arg(p) IN
       IF s \notin live THEN Abort(p)
       ELSE IF s \in expired THEN GoOn(p, <<StepOn("expire", s), StepOn("announce", s)>>)
       ELSE GoOn(p, Rest(p))
    /\ UNCHANGED <<accounts, sessions, doors, sockets, announced, owed>>

FindUser(p) ==
    /\ At(p, "user")
    /\ IF user[owner[Arg(p)]] # "enabled" THEN Abort(p) ELSE GoOn(p, Rest(p))
    /\ UNCHANGED <<accounts, sessions, doors, sockets, announced, owed>>

\* update_last_activity moves the idle timeout, not the maximum lifetime.
TouchSession(p) ==
    /\ At(p, "touch")
    /\ expired' \in {expired, expired \ {Arg(p)}}
    /\ GoOn(p, Rest(p))
    /\ UNCHANGED <<accounts, owner, live, doors, sockets, announced, owed>>

IssueTicketStep(p) ==
    /\ At(p, "issue")
    /\ issued' = issued + 1
    /\ tickets' = tickets \cup {[id |-> issued + 1, s |-> Arg(p)]}
    /\ GoOn(p, Rest(p))
    /\ UNCHANGED <<accounts, sessions, lock, sockets, announced, owed>>

\* logout reads the session first: without it there is nothing to audit.
LookUp(p) ==
    /\ At(p, "lookup")
    /\ IF Arg(p) \in live THEN GoOn(p, Rest(p)) ELSE Abort(p)
    /\ UNCHANGED <<accounts, sessions, doors, sockets, announced, owed>>

\* delete_session and _drop_tickets.
EndSession(p, d) ==
    /\ At(p, d)
    /\ live' = live \ {Arg(p)}
    /\ tickets' = {t \in tickets : t.s # Arg(p)}
    /\ GoOn(p, Rest(p))
    /\ UNCHANGED <<accounts, owner, expired, issued, lock, sockets, announced>>

LogoutStep(p) == EndSession(p, "logout") /\ UNCHANGED owed

RevokeStep(p) ==
    /\ EndSession(p, "revoke")
    /\ owed' = IF Arg(p) \in live
               THEN owed \cup {w \in Sockets : sock[w] = "open" /\ sockSess[w] = Arg(p)}
               ELSE owed

\* The deletion of an expired session leaves its tickets.
ExpireStep(p) ==
    /\ At(p, "expire")
    /\ live' = live \ {Arg(p)}
    /\ GoOn(p, Rest(p))
    /\ UNCHANGED <<accounts, owner, expired, doors, sockets, announced, owed>>

\* publish_session_closed.
Announce(p) ==
    /\ At(p, "announce")
    /\ announced' = announced \cup {Arg(p)}
    /\ GoOn(p, Rest(p))
    /\ UNCHANGED <<accounts, sessions, doors, sockets, owed>>

\* notify_user and send_to_user: session-kicked to each of the user's event
\* sockets, one after the other.
SocketsOf(u) == {w \in Sockets : sock[w] = "open" /\ owner[sockSess[w]] = u}

Kick(p) ==
    /\ At(p, "kick")
    /\ \E q \in SetToSeqs(SocketsOf(owner[Arg(p)])) :
        GoOn(p, [i \in DOMAIN q |-> StepOn("send", q[i])] \o Rest(p))
    /\ UNCHANGED <<accounts, sessions, doors, sockets, announced, owed>>

\* Mutant of SendKick: the first socket that is gone ends the sends.
SendKickOrStop(p) ==
    /\ At(p, "send")
    /\ owed' = IF sock[Arg(p)] = "open" THEN owed \ {Arg(p)} ELSE owed
    /\ task' = [task EXCEPT ![p].script = IF sock[Arg(p)] = "open" THEN Rest(p) ELSE <<>>]
    /\ loop' = Free
    /\ UNCHANGED <<accounts, sessions, doors, sockets, announced>>

\* send_text reaches a socket that is still open, then the task waits.
SendKick(p) ==
    /\ At(p, "send")
    /\ owed' = IF sock[Arg(p)] = "open" THEN owed \ {Arg(p)} ELSE owed
    /\ task' = [task EXCEPT ![p].script = Rest(p)]
    /\ loop' = Free
    /\ UNCHANGED <<accounts, sessions, doors, sockets, announced>>

\* audit, then notify_change: request_recheck asks for a check of every bound
\* socket.
Notify(p) ==
    /\ At(p, "notify")
    /\ due' = due \cup {w \in Sockets : sock[w] = "open"}
    /\ GoOn(p, Rest(p))
    /\ UNCHANGED <<accounts, sessions, doors, sock, sockSess, half, announced, owed>>

\* revoke_user_sessions, with the sessions listed here.
ListToRevoke(p) ==
    /\ At(p, "list")
    /\ LET mine == {s \in live : owner[s] = task[p].user /\ s # task[p].keep}
       IN GoOn(p, RevokeEach(InOrder(mine)) \o Rest(p))
    /\ UNCHANGED <<accounts, sessions, doors, sockets, announced, owed>>

ListAll(p) ==
    /\ At(p, "all")
    /\ LET order == InOrder(live)
       IN GoOn(p, [i \in DOMAIN order |-> StepOn("scan", order[i])])
    /\ UNCHANGED <<accounts, sessions, doors, sockets, announced, owed>>

ScanSession(p) ==
    /\ At(p, "scan")
    /\ GoOn(p, IF Arg(p) \in expired
               THEN <<StepOn("expire", Arg(p)), StepOn("announce", Arg(p))>> \o Rest(p)
               ELSE Rest(p))
    /\ UNCHANGED <<accounts, sessions, doors, sockets, announced, owed>>

-----------------------------------------------------------------------------
(* Accounts.                                                               *)

\* update_user(disabled): 404 when the account is gone.
SetDisabled(p, d, value) ==
    /\ At(p, d)
    /\ IF user[task[p].user] = "gone"
       THEN Abort(p) /\ UNCHANGED user
       ELSE GoOn(p, Rest(p)) /\ user' = [user EXCEPT ![task[p].user] = value]
    /\ UNCHANGED <<creds, sessions, doors, sockets, announced, owed>>

RemoveUser(p) ==
    /\ At(p, "delete")
    /\ user' = [user EXCEPT ![task[p].user] = "gone"]
    /\ GoOn(p, Rest(p))
    /\ UNCHANGED <<creds, sessions, doors, sockets, announced, owed>>

\* delete_credentials and reset_failures.
Forget(p) ==
    /\ At(p, "forget")
    /\ creds' = creds \ {task[p].user}
    /\ lock' = [lock EXCEPT ![<<task[p].user, TRUE>>] = NoLock]
    /\ GoOn(p, Rest(p))
    /\ UNCHANGED <<user, sessions, issued, tickets, sockets, announced, owed>>

-----------------------------------------------------------------------------
(* The sweep: list, delete what has expired, announce what is missing.     *)

SweepBefore ==
    /\ At(Sweeper, "before")
    /\ Resume(Sweeper, [task[Sweeper] EXCEPT !.script = Rest(Sweeper), !.before = live])
    /\ UNCHANGED <<accounts, sessions, doors, sockets, announced, owed>>

SweepPurge ==
    /\ At(Sweeper, "purge")
    /\ live' = live \ expired
    /\ GoOn(Sweeper, Rest(Sweeper))
    /\ UNCHANGED <<accounts, owner, expired, doors, sockets, announced, owed>>

\* Mutant of SweepCompare: no notify_change.
SweepQuietly ==
    /\ At(Sweeper, "compare")
    /\ LET order == InOrder(task[Sweeper].before \ live)
       IN GoOn(Sweeper, [i \in DOMAIN order |-> StepOn("announce", order[i])])
    /\ UNCHANGED <<accounts, sessions, doors, sockets, announced, owed>>

SweepCompare ==
    /\ At(Sweeper, "compare")
    /\ LET order == InOrder(task[Sweeper].before \ live)
       IN GoOn(Sweeper, [i \in DOMAIN order |-> StepOn("announce", order[i])]
                        \o <<Step("notify")>>)
    /\ UNCHANGED <<accounts, sessions, doors, sockets, announced, owed>>

-----------------------------------------------------------------------------
(* Event sockets.                                                          *)

\* handle_connection, from the return of websocket.accept().
Bind(w) ==
    /\ At(w, "bind")
    /\ sock' = [sock EXCEPT ![w] = "open"]
    /\ sockSess' = [sockSess EXCEPT ![w] = Arg(w)]
    /\ GoOn(w, Rest(w))
    /\ UNCHANGED <<accounts, sessions, doors, due, half, announced, owed>>

\* The client goes away: unbind and the rest of the finally block, or
\* accept() raises.
Leave(w) ==
    /\ loop = Free
    /\ sock[w] = "open"
    /\ sock' = [sock EXCEPT ![w] = "left"]
    /\ due' = due \ {w}
    /\ half' = half \ {w}
    /\ owed' = owed \ {w}
    /\ UNCHANGED <<accounts, sessions, doors, sockSess, task, loop, announced>>

AcceptFails(w) ==
    /\ At(w, "bind")
    /\ Abort(w)
    /\ UNCHANGED <<accounts, sessions, doors, sockets, announced, owed>>

\* A check that fails: unbind, _on_session_ended, close with 4401.
CloseEnded(w) ==
    /\ sock' = [sock EXCEPT ![w] = "ended"]
    /\ due' = due \ {w}
    /\ half' = half \ {w}

\* is_context_active: the session, ...
CheckSession(w) ==
    /\ loop = Free
    /\ w \in due
    /\ IF sockSess[w] \notin live \/ sockSess[w] \in expired
       THEN CloseEnded(w) /\ UNCHANGED loop
       ELSE /\ due' = due \ {w} /\ half' = half \cup {w} /\ UNCHANGED sock
            /\ loop' = IF SlowStores THEN Free ELSE w
    /\ UNCHANGED <<accounts, sessions, doors, sockSess, task, announced, owed>>

\* ... then its user.
CheckUser(w) ==
    /\ loop \in {Free, w}
    /\ loop' = Free
    /\ w \in half
    /\ IF user[owner[sockSess[w]]] # "enabled"
       THEN CloseEnded(w)
       ELSE half' = half \ {w} /\ UNCHANGED <<sock, due>>
    /\ UNCHANGED <<accounts, sessions, doors, sockSess, task, announced, owed>>

-----------------------------------------------------------------------------
(* Time.                                                                   *)

SessionExpires(s) ==
    /\ loop = Free
    /\ s \in live \ expired
    /\ expired' = expired \cup {s}
    /\ UNCHANGED <<accounts, owner, live, doors, task, loop, sockets, announced, owed>>

TicketExpires(t) ==
    /\ loop = Free
    /\ tickets' = tickets \ {t}
    /\ UNCHANGED <<accounts, sessions, issued, lock, task, loop, sockets, announced, owed>>

LockExpires(k) ==
    /\ loop = Free
    /\ lock[k].locked
    /\ lock' = [lock EXCEPT ![k] = NoLock]
    /\ UNCHANGED <<accounts, sessions, issued, tickets, task, loop, sockets, announced, owed>>

-----------------------------------------------------------------------------

Init ==
    /\ user = [u \in Users |-> "enabled"]
    /\ creds = Users
    /\ owner = <<>>
    /\ live = {} /\ expired = {}
    /\ lock = [k \in Keys |-> NoLock]
    /\ issued = 0 /\ tickets = {}
    /\ task = [p \in Tasks |-> Idle]
    /\ loop = Free
    /\ sock = [w \in Sockets |-> "new"]
    /\ sockSess = [w \in Sockets |-> 0]
    /\ due = {} /\ half = {}
    /\ announced = {} /\ owed = {}

Request(p) ==
    \/ \E u \in Users :
        \/ Login(p, u) \/ VerifyPassword(p, u) \/ ResetPassword(p, u)
        \/ DisableUser(p, u) \/ EnableUser(p, u) \/ DeleteUser(p, u)
    \/ \E s \in DOMAIN owner :
        \/ Logout(p, s) \/ RevokeSession(p, s) \/ IssueTicket(p, s)
        \/ \E asked, pending \in BOOLEAN : OwnPassword(p, s, asked, pending)
    \/ ListSessions(p)

PasswordStep(p) ==
    \/ Reserve(p) \/ ReadCredentials(p) \/ Verify(p) \/ StampLogin(p)
    \/ SetPassword(p) \/ ClearPending(p) \/ FlagPending(p)

SessionStep(p) ==
    \/ OpenSession(p) \/ FindSession(p) \/ FindUser(p) \/ TouchSession(p)
    \/ IssueTicketStep(p) \/ LookUp(p) \/ LogoutStep(p) \/ RevokeStep(p)
    \/ ExpireStep(p) \/ Announce(p) \/ Kick(p) \/ SendKick(p) \/ Notify(p)
    \/ ListToRevoke(p) \/ ListAll(p) \/ ScanSession(p)

AccountStep(p) ==
    \/ SetDisabled(p, "disable", "disabled") \/ SetDisabled(p, "enable", "enabled")
    \/ RemoveUser(p) \/ Forget(p)

SweepStep == SweepBefore \/ SweepPurge \/ SweepCompare

TaskStep(p) == PasswordStep(p) \/ SessionStep(p) \/ AccountStep(p)

SocketStep(w) == Connect(w) \/ Bind(w) \/ Leave(w) \/ AcceptFails(w)

CheckStep(w) == CheckSession(w) \/ CheckUser(w)

Passing ==
    \/ \E s \in live : SessionExpires(s)
    \/ \E t \in tickets : TicketExpires(t)
    \/ \E k \in Keys : LockExpires(k)

Next ==
    \/ \E p \in Requests : Request(p)
    \/ Sweep \/ SweepStep
    \/ \E p \in Tasks : TaskStep(p)
    \/ \E w \in Sockets : SocketStep(w) \/ CheckStep(w)
    \/ Passing

Spec == Init /\ [][Next]_vars

\* The event loop runs every task that can run and every requested check, the
\* password thread and accept() answer, and the sweep recurs; requests,
\* clients and the clock owe nothing.
FairSpec ==
    /\ Spec
    /\ \A p \in Tasks : WF_vars(TaskStep(p))
    /\ \A w \in Sockets : WF_vars(Bind(w) \/ AcceptFails(w)) /\ WF_vars(CheckStep(w))
    /\ WF_vars(Sweep) /\ WF_vars(SweepStep)

-----------------------------------------------------------------------------
(* Properties.                                                             *)

TaskTypeOK ==
    \A p \in Tasks :
        /\ task[p].script \in Seq([do: StepNames, arg: {0} \cup DOMAIN owner \cup Sockets])
        /\ task[p].user \in Users \cup {Free}
        /\ task[p].snap \in Accounts
        /\ task[p].keep \in {0} \cup DOMAIN owner
        /\ task[p].found \in BOOLEAN
        /\ task[p].before \subseteq DOMAIN owner

\* Every variable has its type: sessions, tickets and sockets name sessions
\* that were opened, and only bound sockets await a check.
TypeOK ==
    /\ user \in [Users -> Accounts] /\ creds \subseteq Users
    /\ owner \in Seq(Users) /\ Len(owner) <= MaxSessions
    /\ live \subseteq DOMAIN owner /\ expired \subseteq DOMAIN owner
    /\ lock \in [Keys -> [failures: 0..(MaxAttempts - 1), locked: BOOLEAN, tried: Nat]]
    /\ issued \in 0..MaxTickets /\ tickets \subseteq [id: Ticket, s: DOMAIN owner]
    /\ TaskTypeOK
    /\ loop \in Tasks \cup {Free}
    /\ sock \in [Sockets -> {"new", "open", "ended", "left"}]
    /\ sockSess \in [Sockets -> {0} \cup DOMAIN owner]
    /\ \A w \in Sockets : w \in due \cup half => sock[w] = "open"
    /\ due \subseteq Sockets /\ half \subseteq Sockets /\ owed \subseteq Sockets
    /\ announced \subseteq DOMAIN owner

\* reserve_attempt counts an attempt before its password is verified, so that
\* requests that verify at the same time cannot pass the limit together: since
\* the entry was last dropped (success, expiry, reset) at most
\* max_login_attempts attempts were let through.
AttemptsAreBounded == \A k \in Keys : lock[k].tried <= MaxAttempts

\* Some task is still going to publish session:closed for s.
WillAnnounce(s) ==
    \E p \in Tasks : \E i \in DOMAIN task[p].script :
        \/ task[p].script[i] = StepOn("announce", s)
        \/ task[p].script[i].do = "compare" /\ s \in task[p].before

\* Whatever ended a session (sign-out, revocation, deletion of the user, the
\* sweep, a request that met it expired), session:closed has been published
\* for it or is about to be.
EndIsAnnounced ==
    \A s \in DOMAIN owner : s \notin live => s \in announced \/ WillAnnounce(s)

\* Some task is still going to revoke s.
WillRevoke(s) ==
    \E p \in Tasks : \E i \in DOMAIN task[p].script :
        \/ task[p].script[i] = StepOn("revoke", s)
        \/ /\ task[p].script[i].do = "list"
           /\ task[p].user = owner[s] /\ task[p].keep # s

\* delete_user leaves no session of the user behind, although a login may be
\* verifying the user's password while it runs.
DeletedUserLosesSessions ==
    \A s \in live : user[owner[s]] = "gone" => WillRevoke(s)

\* update_user(disabled) leaves no session of the user behind ("Disabling a
\* user revokes its sessions").
DisabledUserLosesSessions ==
    \A s \in live : user[owner[s]] = "disabled" => WillRevoke(s)

\* The next steps of a script publish the end of session s and kick it, or are
\* sends, the one to socket w among them.
Kicking(sc, s) ==
    \/ Len(sc) >= 2 /\ sc[1] = StepOn("announce", s) /\ sc[2] = StepOn("kick", s)
    \/ sc # <<>> /\ sc[1] = StepOn("kick", s)
WillKick(sc, w, s) ==
    \/ Kicking(sc, s)
    \/ \E i \in DOMAIN sc : sc[i] = StepOn("send", w) /\ \A j \in 1..i : sc[j].do = "send"

\* "Revocations first send session-kicked to the user's event sockets"
\* (plugins/users/README.md): a socket that was open when its session was
\* revoked and is open still has been sent it or will be by the very next
\* steps of a task, none of which returns early, however the sends to other
\* sockets, checks, closures and connections interleave.
KickIsComing ==
    \A w \in owed : sock[w] = "open" => \E p \in Tasks : WillKick(task[p].script, w, sockSess[w])

\* The stronger reading of the same sentence, which the code does not keep: a
\* socket is sent session-kicked before the check closes it.  While one is
\* written to another socket, the check that the disabled account asked for
\* may close this one.
KickedBeforeClosed == \A w \in Sockets : sock[w] = "ended" => w \notin owed

\* A socket does not outlive its session for ever, even when the session ended
\* between the ticket's check and the binding of the socket, or by expiry,
\* which notifies nobody: the sweep asks for the check that closes it.
SocketFollowsSession ==
    \A w \in Sockets :
        (sock[w] = "open" /\ sockSess[w] \notin live) ~> (sock[w] # "open")
=============================================================================
