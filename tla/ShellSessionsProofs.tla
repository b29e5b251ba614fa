------------------------- MODULE ShellSessionsProofs -------------------------
(***************************************************************************)
(* Theorems about ShellSessions, for every number of connections, callers  *)
(* and proxies, every limit and every configuration of the host.           *)
(***************************************************************************)
EXTENDS ShellSessions, FiniteSetTheorems, TLAPS

-----------------------------------------------------------------------------
(* Type correctness.                                                       *)

\* However many proxies are trusted and whatever entries the caller forged,
\* remote_address finds the caller's own address: the entry the outermost
\* proxy wrote.
LEMMA RemoteAddressIsCaller ==
    ASSUME NEW u, NEW forged \in {<<>>, <<"forged">>}
    PROVE  RemoteAddress(u, forged) = u
  <1> DEFINE added == IF Hops = 0 THEN <<>> ELSE <<u>> \o [i \in 1..(Hops - 1) |-> "proxy"]
  <1>1. Hops \in Nat
    BY ShellAssumption
  <1>2. CASE Hops = 0
    BY <1>2 DEF RemoteAddress, ForwardedClientIp
  <1>3. CASE Hops # 0
    <2> DEFINE S == {u, "proxy", "forged"}
    <2>1. [i \in 1..(Hops - 1) |-> "proxy"] \in Seq(S) /\ Len([i \in 1..(Hops - 1) |-> "proxy"]) = Hops - 1
      BY <1>1, <1>3
    <2>2. <<u>> \in Seq(S) /\ Len(<<u>>) = 1
      OBVIOUS
    <2>3. added \in Seq(S) /\ Len(added) = Hops /\ added[1] = u
      <3> HIDE DEF S
      <3> QED BY <1>1, <1>3, <2>1, <2>2
    <2>4. forged \in Seq(S)
      <3>1. CASE forged = <<>>
        BY <3>1
      <3>2. CASE forged = <<"forged">>
        BY <3>2
      <3> QED BY <3>1, <3>2
    <2> HIDE DEF added, S
    <2>5. /\ forged \o added \in Seq(S)
          /\ Len(forged \o added) = Len(forged) + Hops
          /\ (forged \o added)[1 + Len(forged)] = u
      BY <1>1, <1>3, <2>3, <2>4
    <2>6. forged \o added # <<>>
      BY <1>1, <1>3, <2>4, <2>5
    <2>7. Len(forged) \in Nat
      BY <2>4
    <2>8. ForwardedClientIp(forged \o added) = u
      BY <1>1, <1>3, <2>5, <2>6, <2>7 DEF ForwardedClientIp
    <2> QED BY <2>8 DEF RemoteAddress, added
  <1> QED BY <1>2, <1>3

\* is_active answers with a reason, or with none.
LEMMA EndReasonType ==
    ASSUME NEW u
    PROVE  EndReason(u) = "none" \/ EndReason(u) \in Reasons
  BY DEF EndReason, Reasons

\* The reasons and the processes by name.
LEMMA Names ==
    /\ "exited" \in Reasons /\ "closed" \in Reasons /\ "shell timed out" \in Reasons
    /\ "server shutdown" \in Reasons /\ "error" \in Reasons
    /\ "no" \notin Reasons /\ "set" \notin Reasons
    /\ "shell" \in Processes /\ Started \subseteq Processes
  BY ShellAssumption DEF Reasons, Processes

LEMMA InitType == Init => TypeOK
  <1>1. Init => note \in BOOLEAN
    BY DEF Init
  <1>2. Init => asked \in [Conns -> Reasons \cup {"no", "set"}] /\ ended \in [Conns -> Reasons]
    <2>1. [c \in Conns |-> "no"] \in [Conns -> Reasons \cup {"no", "set"}]
      OBVIOUS
    <2>2. [c \in Conns |-> "exited"] \in [Conns -> Reasons]
      BY Names
    <2> QED BY <2>1, <2>2 DEF Init
  <1>3. Init => /\ procs \in [Conns -> SUBSET Processes] /\ hit \in [Conns -> SUBSET Processes]
                /\ late \in [Conns -> SUBSET Processes]
    BY DEF Init
  <1> QED BY <1>1, <1>2, <1>3 DEF Init, TypeOK

\* What is sent a signal is a process of the shell.
LEMMA TargetsType ==
    ASSUME TypeOK, NEW c \in Conns, NEW tree
    PROVE  Targets(c, tree) \in SUBSET Processes
  BY DEF TypeOK, Targets

\* request_close leaves a reason.
LEMMA RequestCloseType ==
    ASSUME TypeOK, NEW c \in Conns, NEW reason \in Reasons, RequestClose(c, reason)
    PROVE  asked' \in [Conns -> Reasons \cup {"no", "set"}] /\ ended' \in [Conns -> Reasons]
  BY DEF TypeOK, RequestClose

LEMMA EndRunType ==
    ASSUME TypeOK, NEW c \in Conns, EndRun(c)
    PROVE  /\ asked' \in [Conns -> Reasons \cup {"no", "set"}] /\ ended' \in [Conns -> Reasons]
           /\ hit' \in [Conns -> SUBSET Processes]
           /\ fin' \in [Conns -> SUBSET {"read", "input", "watch"}]
           /\ pc' \in [Conns -> {"none", "authorizing", "refused", "registered", "opening",
                                 "forked", "failing", "running", "lingering", "terminating",
                                 "killing", "reaping", "closed"}]
  BY Names, TargetsType DEF TypeOK, EndRun

\* A refused connection has no session.
LEMMA RefuseType ==
    ASSUME TypeOK, NEW c \in Conns, Refuse(c), UNCHANGED <<access, fin, child>>
    PROVE  TypeOK'
  BY Names DEF TypeOK, Refuse, access, child

\* The stages of handle_session from the registration to the end.
LEMMA HandlerType ==
    ASSUME TypeOK, NEW c \in Conns, Handler(c)
    PROVE  TypeOK'
  <1> USE DEF TypeOK, access, child
  <1>1. CASE Register(c)
    BY <1>1, RefuseType DEF Register
  <1>2. CASE FirstCheck(c)
    BY <1>2, RefuseType DEF FirstCheck
  <1>3. CASE Fork(c)
    BY <1>3, Names DEF Fork
  <1>4. CASE Ready(c)
    BY <1>4 DEF Ready
  <1>5. CASE Wake(c)
    <2>1. CASE EndRun(c)
      BY <1>5, <2>1, EndRunType DEF Wake
    <2>2. CASE UNCHANGED <<asked, ended, fin, hit>>
      BY <1>5, <2>1, <2>2 DEF Wake
    <2> QED BY <1>5, <2>1, <2>2 DEF Wake
  <1>6. CASE LingerEnds(c)
    BY <1>6, EndRunType DEF LingerEnds
  <1>7. CASE FailEnds(c)
    BY <1>7, TargetsType DEF FailEnds
  <1>8. CASE CollectAgain(c) \/ Kill(c)
    BY <1>8, TargetsType DEF CollectAgain, Kill
  <1>9. CASE Finish(c)
    BY <1>9, Names DEF Finish
  <1> QED BY <1>1, <1>2, <1>3, <1>4, <1>5, <1>6, <1>7, <1>8, <1>9 DEF Handler

LEMMA NextType ==
    ASSUME TypeOK, [Next]_vars
    PROVE  TypeOK'
  <1> USE DEF TypeOK, access, child
  <1>1. CASE UNCHANGED vars
    BY <1>1 DEF vars
  <1>2. ASSUME NEW c \in Conns, NEW u \in Callers, NEW token,
               NEW forged \in {<<>>, <<"forged">>}, Connect(c, u, token, forged)
        PROVE  TypeOK'
    <2>1. RemoteAddress(u, forged) = u
      BY RemoteAddressIsCaller
    <2> QED BY <1>2, <2>1, RefuseType DEF Connect
  <1>3. ASSUME NEW c \in Conns, Tasks(c)
        PROVE  TypeOK'
    <2>1. CASE Reap(c) \/ ExitSent(c)
      BY <2>1 DEF Reap, ExitSent
    <2>2. CASE WatchEnds(c)
      BY <2>2 DEF WatchEnds
    <2>3. CASE Check(c) \/ PeriodicCheck(c)
      <3>1. asked' \in [Conns -> Reasons \cup {"no", "set"}] /\ ended' \in [Conns -> Reasons]
        BY <2>3, EndReasonType, RequestCloseType DEF Check, PeriodicCheck
      <3> QED BY <2>3, <3>1 DEF Check, PeriodicCheck
    <2> QED BY <1>3, <2>1, <2>2, <2>3 DEF Tasks
  <1>4. ASSUME NEW c \in Conns, Deny(c) \/ Fails(c) \/ OutputEnds(c) \/ ClientLeaves(c)
        PROVE  TypeOK'
    <2>1. CASE Deny(c)
      BY <2>1, RefuseType DEF Deny
    <2>2. CASE Fails(c)
      BY <2>2, Names DEF Fails
    <2>3. CASE OutputEnds(c) \/ ClientLeaves(c)
      BY <2>3 DEF OutputEnds, ClientLeaves
    <2> QED BY <1>4, <2>1, <2>2, <2>3
  <1>5. ASSUME NEW c \in Conns, TimesOut(c)
        PROVE  TypeOK'
    BY <1>5, Names, RequestCloseType DEF TimesOut
  <1>6. ASSUME NEW c \in Conns, NEW p \in Processes, Dies(c, p) \/ Spawn(c, p)
        PROVE  TypeOK'
    BY <1>6 DEF Dies, Spawn
  <1>7. ASSUME NEW u \in Callers, Expire(u)
        PROVE  TypeOK'
    BY <1>7 DEF Expire
  <1>8. ASSUME NEW u \in Callers, NEW state \in {"live", "ended", "denied"}, Change(u, state)
        PROVE  TypeOK'
    <2>1. note' \in BOOLEAN
      BY <1>8 DEF Change
    <2> QED BY <1>8, <2>1 DEF Change
  <1>9. CASE RequestRecheck
    <2>1. note' \in BOOLEAN
      BY <1>9 DEF RequestRecheck
    <2> QED BY <1>9, <2>1 DEF RequestRecheck
  <1>10. CASE CloseAll
    BY <1>10, Names DEF CloseAll
  <1>11. ASSUME NEW c \in Conns, FirstCheckRaises(c) \/ CheckRaises(c)
         PROVE  TypeOK'
    <2>1. CASE FirstCheckRaises(c)
      BY <2>1, RefuseType DEF FirstCheckRaises
    <2>2. CASE CheckRaises(c)
      BY <2>2, Names, RequestCloseType DEF CheckRaises
    <2> QED BY <1>11, <2>1, <2>2
  <1> HIDE DEF TypeOK, access, child
  <1> QED
    BY <1>1, <1>2, <1>3, <1>4, <1>5, <1>6, <1>7, <1>8, <1>9, <1>10, <1>11, HandlerType, Names
    DEF Next

\* Every variable keeps its type, and no stage or reason is met that
\* handle_session does not know.
THEOREM TypeCorrect == Spec => []TypeOK
  BY InitType, NextType, PTL DEF Spec
-----------------------------------------------------------------------------
(* The books the manager keeps: _sessions, the caller counted, the tasks.  *)

\* The stages in which a connection is in _sessions, and in which it may have
\* processes.
Counts == {"registered", "opening", "forked", "failing", "running", "lingering", "terminating",
           "killing", "reaping"}
Lives == {"forked", "failing", "running", "lingering", "terminating", "killing"}

\* _sessions holds the connections between _register and the end; they are
\* counted for their caller, whatever headers it sent; only they have processes,
\* and only until KILL such as can be found, all of which the last collection has
\* found; the exit task leaves its polling after the shell is gone.
Books ==
    \A c \in Conns :
        /\ c \in sessions <=> pc[c] \in Counts
        /\ pc[c] \in Counts \cup {"authorizing"} => who[c] \in Callers /\ key[c] = who[c]
        /\ procs[c] # {} => pc[c] \in Lives \cup {"reaping"}
        /\ Held(c) # {} => pc[c] \in Lives
        /\ pc[c] = "killing" => Held(c) \subseteq hit[c]
        /\ exit[c] # "none" =>
             pc[c] \in {"running", "lingering", "terminating", "killing", "reaping"}
        /\ exit[c] \in {"sending", "done"} => "shell" \notin procs[c]

\* The first reason stays, unless the shell fails, and a shell that is being
\* terminated has its close event set.
Asked ==
    \A c \in Conns :
        /\ asked[c] \in {"no", "set"} \/ ended[c] \in {asked[c], "error"}
        /\ pc[c] \in {"terminating", "killing", "reaping"} => asked[c] # "no"

\* What _register counts stays within the limits.
Counted ==
    /\ IsFiniteSet(sessions)
    /\ MaxSessions > 0 => Cardinality(sessions) <= MaxSessions
    /\ MaxPerUser > 0 =>
         \A u \in Callers : Cardinality({d \in sessions : key[d] = u}) <= MaxPerUser

\* _collect_targets finds every process of a shell that has not been reaped,
\* and every process but the shell of one that has: all but strays inherit the
\* marker.
LEMMA TargetsCover ==
    ASSUME Books, NEW c \in Conns
    PROVE  Held(c) \subseteq Targets(c, exit[c] # "done")
  <1>1. BuildEnv(c)["QCLI_SHELL_ID"] = c
    BY DEF BuildEnv
  <1>2. exit[c] = "done" => "shell" \notin procs[c]
    BY DEF Books
  <1> QED BY <1>1, <1>2 DEF Targets, Marked, Held

\* A refused connection has left the books.
LEMMA RefuseBooks ==
    ASSUME TypeOK, Books, NEW c \in Conns, pc[c] \in {"none", "authorizing", "registered"},
           Refuse(c), UNCHANGED child
    PROVE  Books'
  BY DEF TypeOK, Books, Counts, Lives, Held, Refuse, child

\* KILL reaches whatever the last collection found.
LEMMA KillLeaves ==
    ASSUME TypeOK, Books, NEW c \in Conns, Kill(c)
    PROVE  Held(c)' = {}
  <1>1. Held(c) \subseteq hit[c] /\ late' = late
    BY DEF Kill, Books
  <1>2. CASE exit[c] # "done" \/ (procs[c] \cap hit[c]) \ {"shell"} # {}
    <2>1. procs'[c] = procs[c] \ (hit[c] \cup Group)
      BY <1>2 DEF Kill, TypeOK
    <2> QED BY <1>1, <2>1 DEF Held
  <1>3. CASE exit[c] = "done" /\ (procs[c] \cap hit[c]) \ {"shell"} = {}
    <2>1. procs'[c] = procs[c] /\ "shell" \notin procs[c]
      BY <1>3 DEF Kill, TypeOK, Books
    <2> QED BY <1>1, <1>3, <2>1 DEF Held
  <1> QED BY <1>2, <1>3

\* The stages of handle_session keep the books.
LEMMA HandlerBooks ==
    ASSUME TypeOK, Books, NEW c \in Conns, Handler(c)
    PROVE  Books'
  <1> USE DEF TypeOK, Books, Counts, Lives, Held, access, child
  <1>1. CASE Register(c)
    BY <1>1, RefuseBooks DEF Register
  <1>2. CASE FirstCheck(c)
    BY <1>2, RefuseBooks DEF FirstCheck
  <1>3. CASE Fork(c)
    BY <1>3 DEF Fork
  <1>4. CASE Ready(c)
    BY <1>4 DEF Ready
  <1>5. CASE Wake(c) \/ LingerEnds(c)
    BY <1>5 DEF Wake, LingerEnds, EndRun
  <1>6. CASE FailEnds(c)
    BY <1>6 DEF FailEnds
  <1>7. CASE CollectAgain(c)
    <2>1. Held(c)' \subseteq hit'[c]
      BY <1>7, TargetsCover DEF CollectAgain
    <2> QED BY <1>7, <2>1 DEF CollectAgain
  <1>8. CASE Kill(c)
    BY <1>8, KillLeaves DEF Kill
  <1>9. CASE Finish(c)
    BY <1>9 DEF Finish
  <1> QED BY <1>1, <1>2, <1>3, <1>4, <1>5, <1>6, <1>7, <1>8, <1>9 DEF Handler

LEMMA NextBooks ==
    ASSUME TypeOK, Books, [Next]_vars
    PROVE  Books'
  <1> USE DEF TypeOK, Books, Counts, Lives, Held, access, child
  <1>1. CASE UNCHANGED vars
    BY <1>1 DEF vars
  <1>2. ASSUME NEW c \in Conns, NEW u \in Callers, NEW token,
               NEW forged \in {<<>>, <<"forged">>}, Connect(c, u, token, forged)
        PROVE  Books'
    <2>1. RemoteAddress(u, forged) = u
      BY RemoteAddressIsCaller
    <2> QED BY <1>2, <2>1, RefuseBooks DEF Connect
  <1>3. ASSUME NEW c \in Conns, Tasks(c)
        PROVE  Books'
    <2>1. CASE Reap(c) \/ ExitSent(c)
      BY <2>1 DEF Reap, ExitSent
    <2>2. CASE WatchEnds(c) \/ Check(c) \/ PeriodicCheck(c)
      BY <2>2 DEF WatchEnds, Check, PeriodicCheck
    <2> QED BY <1>3, <2>1, <2>2 DEF Tasks
  <1>4. ASSUME NEW c \in Conns, Deny(c)
        PROVE  Books'
    BY <1>4, RefuseBooks DEF Deny
  <1>5. ASSUME NEW c \in Conns, Fails(c)
        PROVE  Books'
    BY <1>5 DEF Fails
  <1>6. ASSUME NEW c \in Conns, OutputEnds(c) \/ ClientLeaves(c) \/ TimesOut(c)
        PROVE  Books'
    BY <1>6 DEF OutputEnds, ClientLeaves, TimesOut
  <1>7. ASSUME NEW c \in Conns, NEW p \in Started, Spawn(c, p)
        PROVE  Books'
    <2>1. p # "shell"
      BY ShellAssumption
    <2>2. /\ procs'[c] = procs[c] \cup {p} /\ hit'[c] = hit[c] \ {p} /\ procs[c] # {}
          /\ late'[c] = IF pc[c] \in {"killing", "reaping"} THEN late[c] \cup {p} ELSE late[c]
      BY <1>7 DEF Spawn
    <2>3. \A d \in Conns \ {c} : UNCHANGED <<procs[d], hit[d], late[d]>>
      BY <1>7 DEF Spawn
    <2>4. UNCHANGED <<pc, sessions, who, key, exit>>
      BY <1>7 DEF Spawn
    <2>5. pc[c] \in Lives \cup {"reaping"}
      BY <2>2
    <2>6. /\ Held(c)' # {} => pc[c] \in Lives
          /\ pc[c] = "killing" => Held(c)' \subseteq hit'[c]
      BY <2>2, <2>5
    <2>7. \A d \in Conns \ {c} : Held(d)' = Held(d)
      BY <2>3
    <2> QED BY <2>1, <2>2, <2>3, <2>4, <2>6, <2>7
  <1>8. ASSUME NEW c \in Conns, NEW p, Dies(c, p)
        PROVE  Books'
    BY <1>8 DEF Dies
  <1>9. ASSUME NEW u \in Callers, NEW state, Expire(u) \/ Change(u, state)
        PROVE  Books'
    BY <1>9 DEF Expire, Change
  <1>10. CASE RequestRecheck \/ CloseAll
    BY <1>10 DEF RequestRecheck, CloseAll
  <1>11. ASSUME NEW c \in Conns, FirstCheckRaises(c)
         PROVE  Books'
    BY <1>11, RefuseBooks DEF FirstCheckRaises
  <1>12. ASSUME NEW c \in Conns, CheckRaises(c)
         PROVE  Books'
    BY <1>12 DEF CheckRaises
  <1> HIDE DEF TypeOK, Books, access, child
  <1> QED
    BY <1>1, <1>2, <1>3, <1>4, <1>5, <1>6, <1>7, <1>8, <1>9, <1>10, <1>11, <1>12, HandlerBooks
    DEF Next

LEMMA BooksInvariance == Spec => [](TypeOK /\ Books)
  <1>1. Init => TypeOK /\ Books
    BY InitType DEF Init, Books, Counts, Lives, Held
  <1>2. TypeOK /\ Books /\ [Next]_vars => (TypeOK /\ Books)'
    BY NextType, NextBooks
  <1> QED BY <1>1, <1>2, PTL DEF Spec

\* What _terminate leaves behind of a shell are strays and processes started
\* after its second collection, however many the shell starts while the signals
\* take effect and whichever way it ended.
THEOREM NothingIsOrphaned == Spec => []NoOrphans
  <1>1. Books => NoOrphans
    BY DEF Books, NoOrphans, Lives
  <1> QED BY <1>1, BooksInvariance, PTL

-----------------------------------------------------------------------------
(* The reason.                                                             *)

\* request_close sets the event of one shell and keeps the first reason.
LEMMA RequestCloseSets ==
    ASSUME TypeOK, NEW c \in Conns, NEW reason \in Reasons, RequestClose(c, reason)
    PROVE  /\ asked'[c] # "no"
           /\ (asked'[c] = asked[c] /\ ended'[c] = ended[c]) \/ asked'[c] = ended'[c]
           /\ \A d \in Conns \ {c} : asked'[d] = asked[d] /\ ended'[d] = ended[d]
  BY Names DEF TypeOK, RequestClose

LEMMA RequestCloseKeeps ==
    ASSUME TypeOK, Asked, NEW c \in Conns, NEW reason \in Reasons, RequestClose(c, reason),
           UNCHANGED pc
    PROVE  Asked'
  BY RequestCloseSets DEF Asked

LEMMA HandlerAsked ==
    ASSUME TypeOK, Asked, NEW c \in Conns, Handler(c)
    PROVE  Asked'
  <1> USE DEF TypeOK, Asked
  <1>1. CASE Register(c) \/ Fork(c) \/ Ready(c)
    BY <1>1 DEF Register, Refuse, Fork, Ready
  <1>2. CASE FirstCheck(c)
    BY <1>2 DEF FirstCheck, Refuse
  <1>3. CASE EndRun(c)
    <2>1. asked[c] = "no" => asked'[c] = "set"
      BY <1>3 DEF EndRun
    <2>2. asked[c] # "no" => asked'[c] = asked[c] /\ ended'[c] = ended[c]
      BY <1>3 DEF EndRun
    <2>3. \A d \in Conns \ {c} : UNCHANGED <<asked[d], ended[d], pc[d]>>
      BY <1>3 DEF EndRun
    <2> QED BY <2>1, <2>2, <2>3
  <1>4. CASE FailEnds(c)
    BY <1>4 DEF FailEnds
  <1>5. CASE CollectAgain(c) \/ Kill(c)
    BY <1>5 DEF CollectAgain, Kill
  <1>6. CASE Finish(c)
    BY <1>6 DEF Finish
  <1>7. CASE Wake(c)
    BY <1>3, <1>7 DEF Wake
  <1> HIDE DEF TypeOK, Asked
  <1> QED BY <1>1, <1>2, <1>3, <1>4, <1>5, <1>6, <1>7 DEF Handler, LingerEnds

LEMMA NextAsked ==
    ASSUME TypeOK, Asked, [Next]_vars
    PROVE  Asked'
  <1>1. CASE UNCHANGED vars
    BY <1>1 DEF vars, Asked
  <1>2. ASSUME NEW c \in Conns, NEW u \in Callers, NEW token, NEW forged,
               Connect(c, u, token, forged)
        PROVE  Asked'
    BY <1>2 DEF Connect, Refuse, TypeOK, Asked
  <1>3. ASSUME NEW c \in Conns, Tasks(c)
        PROVE  Asked'
    <2>1. CASE Reap(c) \/ ExitSent(c) \/ WatchEnds(c)
      BY <2>1 DEF Reap, ExitSent, WatchEnds, Asked
    <2>2. CASE Check(c) \/ PeriodicCheck(c)
      <3>1. CASE UNCHANGED <<asked, ended>>
        BY <2>2, <3>1 DEF Check, PeriodicCheck, Asked
      <3>2. CASE EndReason(who[c]) # "none"
        BY <2>2, <3>2, EndReasonType, RequestCloseKeeps DEF Check, PeriodicCheck
      <3> QED BY <2>2, <3>1, <3>2 DEF Check, PeriodicCheck
    <2> QED BY <1>3, <2>1, <2>2 DEF Tasks
  <1>4. ASSUME NEW c \in Conns, Deny(c) \/ OutputEnds(c) \/ ClientLeaves(c)
        PROVE  Asked'
    BY <1>4 DEF Deny, Refuse, OutputEnds, ClientLeaves, TypeOK, Asked
  <1>5. ASSUME NEW c \in Conns, Fails(c)
        PROVE  Asked'
    BY <1>5 DEF Fails, TypeOK, Asked
  <1>6. ASSUME NEW c \in Conns, TimesOut(c)
        PROVE  Asked'
    BY <1>6, Names, RequestCloseKeeps DEF TimesOut
  <1>7. ASSUME NEW c \in Conns, NEW p, Spawn(c, p) \/ Dies(c, p)
        PROVE  Asked'
    BY <1>7 DEF Spawn, Dies, Asked
  <1>8. ASSUME NEW u \in Callers, NEW state, Expire(u) \/ Change(u, state)
        PROVE  Asked'
    BY <1>8 DEF Expire, Change, Asked
  <1>9. CASE RequestRecheck
    BY <1>9 DEF RequestRecheck, Asked
  <1>10. CASE CloseAll
    BY <1>10 DEF CloseAll, Asked
  <1>11. ASSUME NEW c \in Conns, FirstCheckRaises(c)
         PROVE  Asked'
    BY <1>11 DEF FirstCheckRaises, Refuse, TypeOK, Asked
  <1>12. ASSUME NEW c \in Conns, CheckRaises(c)
         PROVE  Asked'
    BY <1>12, Names, RequestCloseKeeps DEF CheckRaises
  <1> QED
    BY <1>1, <1>2, <1>3, <1>4, <1>5, <1>6, <1>7, <1>8, <1>9, <1>10, <1>11, <1>12, HandlerAsked
    DEF Next

\* The reason shell_closed tells is the first one request_close was called
\* with, unless the shell could not be started, whichever of the four tasks
\* end before or after.
THEOREM FirstReasonStays == Spec => []FirstReasonIsAudited
  <1>1. Init => TypeOK /\ Asked
    BY InitType DEF Init, Asked
  <1>2. TypeOK /\ Asked /\ [Next]_vars => (TypeOK /\ Asked)'
    BY NextType, NextAsked
  <1>3. TypeOK /\ Asked => FirstReasonIsAudited
    BY DEF Asked, FirstReasonIsAudited
  <1> QED BY <1>1, <1>2, <1>3, PTL DEF Spec

-----------------------------------------------------------------------------
(* The end of a login session.                                             *)

\* A refused connection needs no check.
LEMMA RefuseReaches ==
    ASSUME TypeOK, EndReachesShell, NEW c \in Conns, Refuse(c), UNCHANGED access
    PROVE  EndReachesShell'
  BY DEF TypeOK, EndReachesShell, Refuse, access

LEMMA HandlerReaches ==
    ASSUME TypeOK, Books, EndReachesShell, NEW c \in Conns, Handler(c)
    PROVE  EndReachesShell'
  <1> USE DEF TypeOK, Books, Counts, EndReachesShell, access
  <1>1. CASE Register(c) \/ Fork(c) \/ Ready(c)
    BY <1>1, RefuseReaches DEF Register, Fork, Ready
  <1>2. CASE FirstCheck(c)
    <2>1. CASE EndReason(who[c]) = "none"
      <3>1. config.provider => cred[who[c]] \notin {"ended", "denied"}
        BY <2>1 DEF EndReason
      <3> QED BY <1>2, <2>1, <3>1, RefuseReaches DEF FirstCheck
    <2>2. CASE EndReason(who[c]) # "none"
      BY <1>2, <2>2, RefuseReaches DEF FirstCheck
    <2> QED BY <2>1, <2>2
  <1>3. CASE Wake(c) \/ LingerEnds(c)
    BY <1>3 DEF Wake, LingerEnds, EndRun
  <1>4. CASE FailEnds(c)
    BY <1>4 DEF FailEnds
  <1>5. CASE CollectAgain(c) \/ Kill(c)
    BY <1>5 DEF CollectAgain, Kill
  <1>6. CASE Finish(c)
    BY <1>6 DEF Finish
  <1> QED BY <1>1, <1>2, <1>3, <1>4, <1>5, <1>6 DEF Handler

LEMMA NextReaches ==
    ASSUME TypeOK, Books, EndReachesShell, [Next]_vars
    PROVE  EndReachesShell'
  <1> USE DEF TypeOK, Books, Counts, EndReachesShell, access
  <1>1. CASE UNCHANGED vars
    BY <1>1 DEF vars
  <1>2. ASSUME NEW c \in Conns, NEW u \in Callers, NEW token, NEW forged,
               Connect(c, u, token, forged)
        PROVE  EndReachesShell'
    BY <1>2, RefuseReaches DEF Connect
  <1>3. ASSUME NEW c \in Conns, Tasks(c)
        PROVE  EndReachesShell'
    <2>1. CASE Reap(c) \/ ExitSent(c) \/ WatchEnds(c)
      BY <2>1 DEF Reap, ExitSent, WatchEnds
    <2>2. CASE EndReason(who[c]) # "none" /\ (Check(c) \/ PeriodicCheck(c))
      <3>1. RequestClose(c, EndReason(who[c])) /\ EndReason(who[c]) \in Reasons
        BY <2>2, EndReasonType DEF Check, PeriodicCheck
      <3> QED BY <2>2, <3>1, RequestCloseSets DEF Check, PeriodicCheck
    <2>3. CASE EndReason(who[c]) = "none" /\ Check(c)
      <3>1. config.provider => cred[who[c]] \notin {"ended", "denied"}
        BY <2>3 DEF EndReason
      <3> QED BY <2>3, <3>1 DEF Check
    <2> QED BY <1>3, <2>1, <2>2, <2>3 DEF Tasks, PeriodicCheck
  <1>4. ASSUME NEW c \in Conns, Deny(c)
        PROVE  EndReachesShell'
    BY <1>4, RefuseReaches DEF Deny
  <1>5. ASSUME NEW c \in Conns, Fails(c) \/ OutputEnds(c) \/ ClientLeaves(c)
        PROVE  EndReachesShell'
    BY <1>5 DEF Fails, OutputEnds, ClientLeaves
  <1>6. ASSUME NEW c \in Conns, TimesOut(c)
        PROVE  EndReachesShell'
    <2>1. RequestClose(c, "shell timed out") /\ "shell timed out" \in Reasons
      BY <1>6, Names DEF TimesOut
    <2>2. UNCHANGED <<access, pc, who, sessions, due>>
      BY <1>6 DEF TimesOut
    <2>3. asked'[c] # "no" /\ \A d \in Conns \ {c} : asked'[d] = asked[d]
      BY <2>1, RequestCloseSets
    <2> QED BY <2>2, <2>3
  <1>7. ASSUME NEW c \in Conns, NEW p, Spawn(c, p) \/ Dies(c, p)
        PROVE  EndReachesShell'
    BY <1>7 DEF Spawn, Dies
  <1>8. ASSUME NEW u \in Callers, Expire(u)
        PROVE  EndReachesShell'
    BY <1>8 DEF Expire
  <1>9. ASSUME NEW u \in Callers, NEW state, Change(u, state)
        PROVE  EndReachesShell'
    BY <1>9 DEF Change
  <1>10. CASE RequestRecheck
    BY <1>10 DEF RequestRecheck
  <1>11. CASE CloseAll
    BY <1>11 DEF CloseAll
  <1>12. ASSUME NEW c \in Conns, FirstCheckRaises(c)
         PROVE  EndReachesShell'
    BY <1>12, RefuseReaches DEF FirstCheckRaises
  <1>13. ASSUME NEW c \in Conns, CheckRaises(c)
         PROVE  EndReachesShell'
    <2>1. asked'[c] # "no" /\ \A d \in Conns \ {c} : asked'[d] = asked[d]
      BY <1>13, Names, RequestCloseSets DEF CheckRaises
    <2>2. UNCHANGED <<access, pc, who, sessions>> /\ due \subseteq due' \cup {c}
      BY <1>13 DEF CheckRaises
    <2> QED BY <2>1, <2>2
  <1> HIDE DEF TypeOK, Books, EndReachesShell, access
  <1> QED
    BY <1>1, <1>2, <1>3, <1>4, <1>5, <1>6, <1>7, <1>8, <1>9, <1>10, <1>11, <1>12, <1>13,
       HandlerReaches DEF Next

\* A shell whose login session was ended or whose caller lost the permission
\* is closing or has a check coming, at whatever moment of its opening that
\* happened (_check after _register, request_recheck).
THEOREM EndReaches == Spec => []EndReachesShell
  <1>1. Init => EndReachesShell
    BY DEF Init, EndReachesShell
  <1>2. TypeOK /\ Books /\ EndReachesShell /\ [Next]_vars => EndReachesShell'
    BY NextReaches
  <1> QED BY <1>1, <1>2, BooksInvariance, PTL DEF Spec

-----------------------------------------------------------------------------
(* The limits of _register.                                                *)

\* Whoever is refused is not counted.
LEMMA RefuseFewer ==
    ASSUME TypeOK, NEW c \in Conns, Refuse(c)
    PROVE  sessions' \subseteq sessions /\ \A d \in sessions' : key'[d] = key[d]
  BY DEF TypeOK, Refuse

\* Seen from _register's counts, a step registers a connection that is not
\* counted and finds no limit reached, or counts no more than before.
LEMMA CountSteps ==
    ASSUME TypeOK, Books, [Next]_vars
    PROVE  \/ \E c \in Conns \ sessions :
                /\ ~Full(key[c]) /\ sessions' = sessions \cup {c} /\ UNCHANGED key
           \/ sessions' \subseteq sessions /\ \A d \in sessions' : key'[d] = key[d]
  <1> DEFINE Fewer == sessions' \subseteq sessions /\ \A d \in sessions' : key'[d] = key[d]
  <1>1. CASE UNCHANGED <<sessions, key>>
    BY <1>1
  <1>2. ASSUME NEW c \in Conns, NEW u \in Callers, NEW token, NEW forged,
               Connect(c, u, token, forged)
        PROVE  Fewer
    BY <1>2, RefuseFewer DEF Connect, TypeOK, Books, Counts
  <1>3. ASSUME NEW c \in Conns, Register(c), ~Full(key[c])
        PROVE  c \notin sessions /\ sessions' = sessions \cup {c} /\ UNCHANGED key
    BY <1>3 DEF Register, Books, Counts
  <1>4. ASSUME NEW c \in Conns, Register(c), Full(key[c])
        PROVE  Fewer
    BY <1>4, RefuseFewer DEF Register
  <1>5. ASSUME NEW c \in Conns, FirstCheck(c) \/ FirstCheckRaises(c) \/ Deny(c)
        PROVE  Fewer
    <2>1. CASE Refuse(c)
      BY <2>1, RefuseFewer
    <2>2. CASE UNCHANGED <<sessions, key>>
      BY <2>2
    <2> QED BY <1>5, <2>1, <2>2 DEF FirstCheck, FirstCheckRaises, Deny
  <1>6. ASSUME NEW c \in Conns, Finish(c)
        PROVE  Fewer
    BY <1>6 DEF Finish, TypeOK
  <1>7. ASSUME NEW c \in Conns,
               Fork(c) \/ Ready(c) \/ Wake(c) \/ LingerEnds(c) \/ FailEnds(c)
               \/ CollectAgain(c) \/ Kill(c)
        PROVE  UNCHANGED <<sessions, key>>
    BY <1>7 DEF Fork, Ready, Wake, LingerEnds, FailEnds, CollectAgain, Kill
  <1>8. ASSUME NEW c \in Conns, Tasks(c)
        PROVE  UNCHANGED <<sessions, key>>
    BY <1>8 DEF Tasks, Reap, ExitSent, WatchEnds, Check, PeriodicCheck
  <1>9. ASSUME NEW c \in Conns,
               Fails(c) \/ OutputEnds(c) \/ ClientLeaves(c) \/ TimesOut(c) \/ CheckRaises(c)
        PROVE  UNCHANGED <<sessions, key>>
    BY <1>9 DEF Fails, OutputEnds, ClientLeaves, TimesOut, CheckRaises
  <1>10. ASSUME NEW c \in Conns, NEW p, Spawn(c, p) \/ Dies(c, p)
         PROVE  UNCHANGED <<sessions, key>>
    BY <1>10 DEF Spawn, Dies
  <1>11. ASSUME NEW u \in Callers, NEW state, Expire(u) \/ Change(u, state)
         PROVE  UNCHANGED <<sessions, key>>
    BY <1>11 DEF Expire, Change
  <1>12. ASSUME RequestRecheck \/ CloseAll \/ UNCHANGED vars
         PROVE  UNCHANGED <<sessions, key>>
    BY <1>12 DEF RequestRecheck, CloseAll, vars
  <1> HIDE DEF Fewer
  <1>13. ASSUME NEW c \in Conns, Handler(c)
         PROVE  Register(c) \/ Fewer \/ UNCHANGED <<sessions, key>>
    BY <1>5, <1>6, <1>7, <1>13 DEF Handler
  <1>14. \/ \E c \in Conns : Register(c)
         \/ Fewer
         \/ UNCHANGED <<sessions, key>>
    BY <1>2, <1>5, <1>8, <1>9, <1>10, <1>11, <1>12, <1>13 DEF Next
  <1> QED BY <1>1, <1>3, <1>4, <1>14 DEF Fewer

LEMMA NextCounted ==
    ASSUME TypeOK, Books, Counted, [Next]_vars
    PROVE  Counted'
  <1> DEFINE Of(u) == {d \in sessions : key[d] = u}
  <1>1. IsFiniteSet(sessions) /\ \A u : IsFiniteSet(Of(u))
    BY FS_Subset DEF Counted
  <1>2. Cardinality(sessions) \in Nat /\ \A u : Cardinality(Of(u)) \in Nat
    BY <1>1, FS_CardinalityType
  <1>3. MaxSessions \in Nat /\ MaxPerUser \in Nat
    BY ShellAssumption
  <1>4. CASE \E c \in Conns \ sessions :
                /\ ~Full(key[c]) /\ sessions' = sessions \cup {c} /\ UNCHANGED key
    <2>1. PICK c \in Conns \ sessions :
                /\ ~Full(key[c]) /\ sessions' = sessions \cup {c} /\ UNCHANGED key
      BY <1>4
    <2>2. IsFiniteSet(sessions') /\ Cardinality(sessions') = Cardinality(sessions) + 1
      BY <1>1, <2>1, FS_AddElement
    <2>3. MaxSessions > 0 => Cardinality(sessions') <= MaxSessions
      BY <1>2, <1>3, <2>1, <2>2 DEF Full
    <2>4. ASSUME MaxPerUser > 0, NEW u \in Callers
          PROVE  Cardinality(Of(u)') <= MaxPerUser
      <3>1. CASE key[c] # u
        <4>1. Of(u)' = Of(u)
          BY <2>1, <3>1
        <4> QED BY <2>4, <4>1 DEF Counted
      <3>2. CASE key[c] = u
        <4>1. Of(u)' = Of(u) \cup {c} /\ c \notin Of(u)
          BY <2>1, <3>2
        <4>2. Cardinality(Of(u)) < MaxPerUser
          BY <1>2, <1>3, <2>1, <2>4, <3>2 DEF Full
        <4>3. IsFiniteSet(Of(u)) /\ Cardinality(Of(u)) \in Nat
          BY <1>1, <1>2
        <4> HIDE DEF Of
        <4>4. Cardinality(Of(u) \cup {c}) = Cardinality(Of(u)) + 1
          BY <4>1, <4>3, FS_AddElement
        <4> QED BY <1>3, <4>1, <4>2, <4>3, <4>4
      <3> QED BY <3>1, <3>2
    <2> QED BY <2>2, <2>3, <2>4 DEF Counted
  <1>5. CASE sessions' \subseteq sessions /\ \A d \in sessions' : key'[d] = key[d]
    <2>1. IsFiniteSet(sessions') /\ Cardinality(sessions') <= Cardinality(sessions)
          /\ Cardinality(sessions') \in Nat
      BY <1>1, <1>5, FS_Subset, FS_CardinalityType
    <2>2. ASSUME NEW u \in Callers
          PROVE  Cardinality(Of(u)') <= Cardinality(Of(u)) /\ Cardinality(Of(u)') \in Nat
      <3>1. Of(u)' \subseteq Of(u)
        BY <1>5
      <3> QED BY <1>1, <3>1, FS_Subset, FS_CardinalityType
    <2>3. MaxSessions > 0 => Cardinality(sessions') <= MaxSessions
      BY <1>2, <1>3, <2>1 DEF Counted
    <2>4. ASSUME MaxPerUser > 0, NEW u \in Callers
          PROVE  Cardinality(Of(u)') <= MaxPerUser
      <3>1. Cardinality(Of(u)) <= MaxPerUser
        BY <2>4 DEF Counted
      <3> QED BY <1>2, <1>3, <2>2, <3>1
    <2> QED BY <2>1, <2>3, <2>4 DEF Counted
  <1> QED BY <1>4, <1>5, CountSteps

LEMMA CountedInvariance == Spec => [](TypeOK /\ Books /\ Counted)
  <1>1. Init => Counted
    <2> SUFFICES ASSUME Init PROVE Counted
      OBVIOUS
    <2>1. sessions = {} /\ \A u : {d \in sessions : key[d] = u} = {}
      BY DEF Init
    <2>2. IsFiniteSet({}) /\ Cardinality({}) = 0
      BY FS_EmptySet
    <2>3. MaxSessions \in Nat /\ MaxPerUser \in Nat
      BY ShellAssumption
    <2> QED BY <2>1, <2>2, <2>3 DEF Counted
  <1>2. TypeOK /\ Books /\ Counted /\ [Next]_vars => Counted'
    BY NextCounted
  <1> QED BY <1>1, <1>2, BooksInvariance, PTL DEF Spec

\* max_sessions and max_sessions_per_user bound the shells that have
\* processes that can be found, in all and for every caller, although a caller is authorised
\* before it is counted and writes forwarding headers of its own (_register,
\* remote_address).
THEOREM LimitsHold == Spec => []ShellLimits
  <1>1. ASSUME TypeOK, Books, Counted
        PROVE  ShellLimits
    <2> DEFINE open == {c \in Conns : Held(c) # {}}
               Of(u) == {d \in sessions : key[d] = u}
    <2>1. open \subseteq sessions /\ \A u \in Callers : {c \in open : who[c] = u} \subseteq Of(u)
      BY <1>1 DEF Books, Counts, Lives
    <2>2. IsFiniteSet(sessions) /\ \A u : IsFiniteSet(Of(u))
      BY <1>1, FS_Subset DEF Counted
    <2>3. /\ Cardinality(open) <= Cardinality(sessions)
          /\ Cardinality(open) \in Nat /\ Cardinality(sessions) \in Nat
      BY <2>1, <2>2, FS_Subset, FS_CardinalityType
    <2>4. ASSUME NEW u \in Callers
          PROVE  /\ Cardinality({c \in open : who[c] = u}) <= Cardinality(Of(u))
                 /\ Cardinality({c \in open : who[c] = u}) \in Nat /\ Cardinality(Of(u)) \in Nat
      <3>1. {c \in open : who[c] = u} \subseteq Of(u) /\ IsFiniteSet(Of(u))
        BY <2>1, <2>2
      <3> HIDE DEF Of, open
      <3> QED BY <3>1, FS_Subset, FS_CardinalityType
    <2>5. MaxSessions > 0 => Cardinality(open) <= MaxSessions
      BY <1>1, <2>3, ShellAssumption DEF Counted
    <2>6. ASSUME MaxPerUser > 0, NEW u \in Callers
          PROVE  Cardinality({c \in open : who[c] = u}) <= MaxPerUser
      <3>1. Cardinality(Of(u)) <= MaxPerUser
        BY <1>1, <2>6 DEF Counted
      <3> HIDE DEF Of, open
      <3> QED BY <2>4, <3>1, ShellAssumption
    <2> QED BY <2>5, <2>6 DEF ShellLimits
  <1> QED BY <1>1, CountedInvariance, PTL

=============================================================================
