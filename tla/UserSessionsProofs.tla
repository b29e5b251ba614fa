------------------------- MODULE UserSessionsProofs -------------------------
(* What holds of UserSessions for every set of users, requests and sockets *)
(* and every limit of attempts.                                            *)
EXTENDS UserSessions, SequenceTheorems, FiniteSetTheorems, TLAPS

\* What makes AttemptsAreBounded inductive: an entry of the lockout table knows
\* how many attempts it has let through, its failures while it is open and the
\* limit once it is locked.
Counted(l) ==
    /\ l \in [failures: 0..(MaxAttempts - 1), locked: BOOLEAN, tried: Nat]
    /\ l.tried = IF l.locked THEN MaxAttempts ELSE l.failures

LockInv == lock \in [Keys -> {l \in [failures: 0..(MaxAttempts - 1), locked: BOOLEAN, tried: Nat] :
                                Counted(l)}]

\* A dropped entry has let nothing through.
LEMMA NoLockCounted == Counted(NoLock)
BY SessionBoundsAssumption DEF Counted, NoLock

\* reserve_attempt keeps the account: an open entry that counts one more
\* attempt is either still open or locked by the attempt that was the last.
LEMMA CountAttemptCounted ==
    ASSUME NEW l, Counted(l), ~l.locked
    PROVE  Counted(CountAttempt(l))
BY SessionBoundsAssumption DEF Counted, CountAttempt

\* Seen from the lockout table a step leaves it alone, drops an entry, or
\* counts an attempt of an entry that is not locked.
LEMMA LockSteps ==
    ASSUME [Next]_vars
    PROVE  \/ lock' = lock
           \/ \E k : lock' = [lock EXCEPT ![k] = NoLock]
           \/ \E k : ~lock[k].locked /\ lock' = [lock EXCEPT ![k] = CountAttempt(@)]
<1>1. CASE UNCHANGED vars
  BY <1>1 DEF vars
<1>2. ASSUME NEW p \in Requests, Request(p) PROVE lock' = lock
  BY <1>2 DEF Request, Login, VerifyPassword, ResetPassword, DisableUser, EnableUser,
     DeleteUser, Logout, RevokeSession, IssueTicket, OwnPassword, ListSessions, Start, doors
<1>3. ASSUME Sweep \/ SweepStep PROVE lock' = lock
  BY <1>3 DEF Sweep, SweepStep, SweepBefore, SweepPurge, SweepCompare, Start, doors
<1>4. ASSUME NEW p \in Tasks, TaskStep(p)
      PROVE  \/ lock' = lock
             \/ \E k : lock' = [lock EXCEPT ![k] = NoLock]
             \/ \E k : ~lock[k].locked /\ lock' = [lock EXCEPT ![k] = CountAttempt(@)]
  <2>1. CASE Reserve(p)
    BY <2>1 DEF Reserve
  <2>2. CASE Verify(p)
    BY <2>2 DEF Verify
  <2>3. CASE FlagPending(p) \/ Forget(p)
    BY <2>3 DEF FlagPending, Forget
  <2>4. CASE ReadCredentials(p) \/ StampLogin(p) \/ SetPassword(p) \/ ClearPending(p)
    BY <2>4 DEF ReadCredentials, StampLogin, SetPassword, ClearPending, doors
  <2>5. CASE SessionStep(p)
    BY <2>5 DEF SessionStep, OpenSession, FindSession, FindUser, TouchSession,
       IssueTicketStep, LookUp, LogoutStep, RevokeStep, EndSession, ExpireStep, Announce,
       Kick, SendKick, Notify, ListToRevoke, ListAll, ScanSession, doors
  <2>6. CASE SetDisabled(p, "disable", "disabled") \/ SetDisabled(p, "enable", "enabled")
             \/ RemoveUser(p)
    BY <2>6 DEF SetDisabled, RemoveUser, doors
  <2>7. QED
    BY <1>4, <2>1, <2>2, <2>3, <2>4, <2>5, <2>6 DEF TaskStep, PasswordStep, AccountStep
<1>5. ASSUME NEW w \in Sockets, SocketStep(w) \/ CheckStep(w) PROVE lock' = lock
  BY <1>5 DEF SocketStep, CheckStep, Connect, Bind, Leave, AcceptFails, CheckSession,
     CheckUser, doors
<1>6. ASSUME Passing
      PROVE  lock' = lock \/ \E k : lock' = [lock EXCEPT ![k] = NoLock]
  BY <1>6 DEF Passing, SessionExpires, TicketExpires, LockExpires, doors
<1>7. QED
  BY <1>1, <1>2, <1>3, <1>4, <1>5, <1>6 DEF Next

LEMMA LockStep ==
    ASSUME LockInv, [Next]_vars
    PROVE  LockInv'
<1> DEFINE Entry == {l \in [failures: 0..(MaxAttempts - 1), locked: BOOLEAN, tried: Nat] :
                        Counted(l)}
<1>1. NoLock \in Entry
  BY NoLockCounted DEF Counted
<1>2. CASE \E k : lock' = [lock EXCEPT ![k] = NoLock]
  BY <1>1, <1>2 DEF LockInv
<1>3. CASE \E k : ~lock[k].locked /\ lock' = [lock EXCEPT ![k] = CountAttempt(@)]
  <2>1. PICK k : ~lock[k].locked /\ lock' = [lock EXCEPT ![k] = CountAttempt(@)]
    BY <1>3
  <2>2. k \in Keys => CountAttempt(lock[k]) \in Entry
    BY <2>1, CountAttemptCounted DEF LockInv, Counted
  <2>3. QED
    BY <2>1, <2>2 DEF LockInv
<1>4. QED
  BY <1>2, <1>3, LockSteps DEF LockInv

\* Since an entry of the lockout table was last dropped, at most
\* max_login_attempts attempts have been let through, however many requests
\* verify passwords at the same time (reserve_attempt).
THEOREM AttemptLimit == Spec => []AttemptsAreBounded
<1>1. Init => LockInv
  BY NoLockCounted DEF Init, LockInv, Counted
<1>2. LockInv /\ [Next]_vars => LockInv'
  BY LockStep
<1>3. LockInv => AttemptsAreBounded
  BY SessionBoundsAssumption DEF LockInv, Counted, AttemptsAreBounded
<1>4. QED
  BY <1>1, <1>2, <1>3, PTL DEF Spec

-----------------------------------------------------------------------------
(* The scripts of the tasks *)

Steps == [do : StepNames, arg : Nat \cup Sockets]

\* Steps that end a session, and steps after which a task always goes on.
Enders == {"revoke", "expire", "logout"}
Steady == Enders \cup {"announce", "kick", "send", "notify", "list", "scan", "forget"}

\* Step i of a script is sure to be taken: nothing before it can fail.
Sure(sc, i) == i \in DOMAIN sc /\ \A k \in 1..i : sc[k].do \in Steady
AllSteady(sc) == \A k \in DOMAIN sc : sc[k].do \in Steady
Says(sc, d, s) == \E i \in DOMAIN sc : Sure(sc, i) /\ sc[i] = StepOn(d, s)
Lists(sc) == \E i \in DOMAIN sc : Sure(sc, i) /\ sc[i].do = "list"

\* Whoever ends a session is then sure to announce its end, ...
Tells(sc) ==
    \A i \in DOMAIN sc : sc[i].do \in Enders =>
        \E j \in DOMAIN sc :
            /\ j > i /\ sc[j] = StepOn("announce", sc[i].arg)
            /\ \A k \in i..j : sc[k].do \in Steady
\* ... and whoever revokes one announces its end and kicks its sockets at once.
Kicks(sc) ==
    \A i \in DOMAIN sc : sc[i].do = "revoke" =>
        /\ i + 1 \in DOMAIN sc /\ sc[i + 1] = StepOn("announce", sc[i].arg)
        /\ i + 2 \in DOMAIN sc /\ sc[i + 2] = StepOn("kick", sc[i].arg)
Followed(sc) == Tells(sc) /\ Kicks(sc)
\* A session is opened right after the account has been stamped.
Stamped(sc) == \A i \in DOMAIN sc : sc[i].do = "open" => i = 1 \/ sc[i - 1].do = "stamp"

Scripts == {sc \in Seq(Steps) : Followed(sc) /\ Stamped(sc)}
First(sc, d) == sc # <<>> /\ Head(sc).do = d
Has(sc, d) == \E i \in DOMAIN sc : sc[i].do = d

TaskShape(t) ==
    t = [script |-> t.script, user |-> t.user, snap |-> t.snap, keep |-> t.keep,
         found |-> t.found, before |-> t.before]
\* DELETE /users/{id}, not yet begun.
Deletion == <<Step("delete"), Step("forget"), Step("list"), Step("notify"), Step("notify")>>
TaskOK(t) ==
    /\ TaskShape(t) /\ t.script \in Scripts
    /\ Has(t.script, "open") => t.user \in Users
    /\ Has(t.script, "delete") => t.script = Deletion /\ t.keep = 0

\* The sweep keeps the loop from its listing to its comparison.
SweepOK(sc) ==
    \/ sc = <<Step("before"), Step("purge"), Step("compare")>>
    \/ sc = <<Step("purge"), Step("compare")>>
    \/ sc = <<Step("compare")>>
    \/ \A i \in DOMAIN sc : sc[i].do \in {"announce", "notify"}

DataOK ==
    /\ user \in [Users -> Accounts]
    /\ owner \in Seq(Users) /\ live \subseteq DOMAIN owner
    /\ \A t \in tickets : t.s \in Nat \cup Sockets
    /\ task[Sweeper].before \subseteq DOMAIN owner

ScriptsOK ==
    /\ task = [p \in Tasks |-> task[p]] /\ \A p \in Tasks : TaskOK(task[p])
    /\ SweepOK(task[Sweeper].script)
    /\ \A w \in Sockets : ~Has(task[w].script, "open")

\* With stores that do not suspend the loop is kept from a sweep's listing to its
\* purge, and from the stamp of a login to its session.
LoopOK == ~SlowStores =>
    /\ First(task[Sweeper].script, "purge") => loop = Sweeper /\ live \subseteq task[Sweeper].before
    /\ \A p \in Tasks : First(task[p].script, "open") => loop = p /\ user[task[p].user] # "gone"

ScriptsInv == DataOK /\ ScriptsOK /\ LoopOK

\* The end of session s has been announced, or some task is sure to announce it.
Told(s) ==
    \/ s \in announced
    \/ \E p \in Tasks : Says(task[p].script, "announce", s)
    \/ First(task[Sweeper].script, "compare") /\ s \in task[Sweeper].before

\* Some task is sure to revoke session s.
Doomed(s) ==
    \E p \in Tasks :
        \/ Says(task[p].script, "revoke", s)
        \/ Lists(task[p].script) /\ task[p].user = owner[s] /\ task[p].keep # s

\* EndIsAnnounced and DeletedUserLosesSessions, by tasks that are sure to get there.
AnnounceInv == \A s \in DOMAIN owner \ live : Told(s)
RevokeInv == \A s \in live : user[owner[s]] = "gone" => Doomed(s)

-----------------------------------------------------------------------------
(* What becomes of a script when its first step is taken: the steps X are   *)
(* put in its place.                                                        *)

LEMMA Spliced ==
    ASSUME NEW sc \in Seq(Steps), sc # <<>>, NEW X \in Seq(Steps), NEW new, new = X \o Tail(sc)
    PROVE /\ new \in Seq(Steps) /\ Len(X) \in Nat /\ Len(sc) \in Nat \ {0}
          /\ DOMAIN X = 1..Len(X) /\ DOMAIN sc = 1..Len(sc) /\ Head(sc) = sc[1]
          /\ DOMAIN new = 1..((Len(X) + Len(sc)) - 1)
          /\ \A i \in 1..Len(X) : new[i] = X[i]
          /\ \A i \in 2..Len(sc) : new[(Len(X) + i) - 1] = sc[i]
          /\ \A i \in DOMAIN new : i \notin 1..Len(X) =>
                (i - Len(X)) + 1 \in 2..Len(sc) /\ new[i] = sc[(i - Len(X)) + 1]
<1> DEFINE t == Tail(sc)
<1>1. t \in Seq(Steps) /\ Len(t) = Len(sc) - 1 /\ \A i \in 1..Len(t) : t[i] = sc[i + 1]
    BY HeadTailProperties
<1>2. Len(X) \in Nat /\ Len(sc) \in Nat \ {0} /\ DOMAIN X = 1..Len(X) /\ DOMAIN sc = 1..Len(sc)
      /\ Head(sc) = sc[1]
    OBVIOUS
<1> HIDE DEF t
<1>3. /\ new \in Seq(Steps) /\ Len(new) = Len(X) + Len(t)
      /\ \A i \in 1..(Len(X) + Len(t)) : new[i] = IF i <= Len(X) THEN X[i] ELSE t[i - Len(X)]
    BY <1>1, ConcatProperties DEF t
<1>4. DOMAIN new = 1..((Len(X) + Len(sc)) - 1)
    BY <1>1, <1>2, <1>3
<1>5. \A i \in 1..Len(X) : new[i] = X[i]
    BY <1>1, <1>2, <1>3
<1>6. ASSUME NEW i \in DOMAIN new, i \notin 1..Len(X)
      PROVE (i - Len(X)) + 1 \in 2..Len(sc) /\ new[i] = sc[(i - Len(X)) + 1]
    <2>1. i - Len(X) \in 1..Len(t) /\ ~(i <= Len(X)) /\ i \in 1..(Len(X) + Len(t))
        BY <1>1, <1>2, <1>4, <1>6
    <2>2. new[i] = t[i - Len(X)]
        BY <1>3, <2>1
    <2> QED
        BY <1>1, <1>2, <2>1, <2>2
<1>7. ASSUME NEW i \in 2..Len(sc) PROVE new[(Len(X) + i) - 1] = sc[i]
    <2>1. PICK j : j = (Len(X) + i) - 1
        OBVIOUS
    <2>2. j \in DOMAIN new /\ j \notin 1..Len(X) /\ (j - Len(X)) + 1 = i
        BY <1>2, <1>4, <2>1
    <2> QED
        BY <1>6, <2>1, <2>2
<1> QED
    BY <1>2, <1>3, <1>4, <1>5, <1>6, <1>7

\* A sure step stays sure when a step before it is taken.
LEMMA SureShift ==
    ASSUME NEW sc \in Seq(Steps), sc # <<>>, NEW X \in Seq(Steps), AllSteady(X),
           NEW new, new = X \o Tail(sc)
    PROVE /\ \A d, s : Says(sc, d, s) /\ Head(sc) # StepOn(d, s) => Says(new, d, s)
          /\ Lists(sc) /\ Head(sc).do # "list" => Lists(new)
          /\ \A i \in DOMAIN X : X[i] = StepOn(X[i].do, X[i].arg) => Says(new, X[i].do, X[i].arg)
<1>0. /\ Len(X) \in Nat /\ Len(sc) \in Nat \ {0} /\ DOMAIN X = 1..Len(X) /\ DOMAIN sc = 1..Len(sc)
      /\ Head(sc) = sc[1]
      /\ DOMAIN new = 1..((Len(X) + Len(sc)) - 1)
      /\ \A k \in 1..Len(X) : new[k] = X[k]
      /\ \A k \in DOMAIN new : k \notin 1..Len(X) =>
            (k - Len(X)) + 1 \in 2..Len(sc) /\ new[k] = sc[(k - Len(X)) + 1]
    BY Spliced
<1>1. ASSUME NEW i \in DOMAIN sc, Sure(sc, i), i # 1
      PROVE \E j \in DOMAIN new : Sure(new, j) /\ new[j] = sc[i]
    <2>1. PICK j : j = (Len(X) + i) - 1
        OBVIOUS
    <2>3. j \in DOMAIN new /\ j \notin 1..Len(X) /\ (j - Len(X)) + 1 = i
        <3>1. i \in 2..Len(sc)
            BY <1>0, <1>1
        <3> QED
            BY <1>0, <2>1, <3>1
    <2>4. new[j] = sc[i]
        BY <1>0, <2>3
    <2>5. ASSUME NEW k \in 1..j PROVE new[k].do \in Steady
        <3>1. k \in DOMAIN new
            BY <1>0, <2>3
        <3>2. CASE k \in 1..Len(X)
            BY <1>0, <3>2 DEF AllSteady
        <3>3. CASE k \notin 1..Len(X)
            <4>1. new[k] = sc[(k - Len(X)) + 1] /\ (k - Len(X)) + 1 \in 1..i
                BY <1>0, <2>3, <3>1, <3>3
            <4> QED
                BY <1>1, <4>1 DEF Sure
        <3> QED
            BY <3>2, <3>3
    <2> QED
        BY <2>3, <2>4, <2>5 DEF Sure
<1>2. ASSUME NEW d, NEW s, Says(sc, d, s), Head(sc) # StepOn(d, s) PROVE Says(new, d, s)
    <2>1. PICK i \in DOMAIN sc : Sure(sc, i) /\ sc[i] = StepOn(d, s)
        BY <1>2 DEF Says
    <2>2. i # 1
        BY <1>0, <1>2, <2>1
    <2> QED
        BY <1>1, <2>1, <2>2 DEF Says
<1>3. ASSUME Lists(sc), Head(sc).do # "list" PROVE Lists(new)
    <2>1. PICK i \in DOMAIN sc : Sure(sc, i) /\ sc[i].do = "list"
        BY <1>3 DEF Lists
    <2>2. i # 1
        BY <1>0, <1>3, <2>1
    <2> QED
        BY <1>1, <2>1, <2>2 DEF Lists
<1>4. ASSUME NEW i \in DOMAIN X, X[i] = StepOn(X[i].do, X[i].arg)
      PROVE Says(new, X[i].do, X[i].arg)
    <2>1. i \in DOMAIN new /\ new[i] = X[i] /\ \A k \in 1..i : new[k] = X[k] /\ k \in DOMAIN X
        BY <1>0
    <2>2. Sure(new, i)
        BY <2>1 DEF Sure, AllSteady
    <2> QED
        BY <1>4, <2>1, <2>2 DEF Says
<1> QED
    BY <1>2, <1>3, <1>4

\* Nothing is sure in a script that begins with a step that may fail.
LEMMA NothingSure ==
    ASSUME NEW sc \in Seq(Steps), sc = <<>> \/ Head(sc).do \notin Steady
    PROVE ~Lists(sc) /\ \A d, s : ~Says(sc, d, s)
<1>1. ASSUME NEW i \in DOMAIN sc PROVE ~Sure(sc, i)
    <2>1. sc # <<>> /\ Head(sc) = sc[1] /\ 1 \in 1..i
        BY <1>1
    <2> QED
        BY <2>1 DEF Sure
<1> QED
    BY <1>1 DEF Lists, Says

\* X is put before the rest of a script, whose first step was steady or X is empty.
LEMMA SplicedScript ==
    ASSUME NEW sc \in Scripts, sc # <<>>, NEW X \in Seq(Steps), AllSteady(X),
           Followed(X), NEW new, new = X \o Tail(sc),
           Head(sc).do # "stamp" \/ X = <<>>
    PROVE /\ new \in Scripts
          /\ Has(new, "open") => Has(sc, "open")
          /\ Has(new, "delete") => \E i \in 2..Len(sc) : sc[i].do = "delete"
          /\ First(new, "open") => Head(sc).do = "stamp"
<1>0. sc \in Seq(Steps) /\ Followed(sc) /\ Stamped(sc)
    BY DEF Scripts
<1>1. /\ new \in Seq(Steps) /\ Len(X) \in Nat /\ Len(sc) \in Nat \ {0}
      /\ DOMAIN X = 1..Len(X) /\ DOMAIN sc = 1..Len(sc) /\ Head(sc) = sc[1]
      /\ DOMAIN new = 1..((Len(X) + Len(sc)) - 1)
    BY <1>0, Spliced
<1>2. \A i \in 1..Len(X) : new[i] = X[i]
    BY <1>0, Spliced
<1>3. \A i \in 2..Len(sc) : new[(Len(X) + i) - 1] = sc[i]
    BY <1>0, Spliced
<1>4. \A i \in DOMAIN new : i \notin 1..Len(X) =>
                (i - Len(X)) + 1 \in 2..Len(sc) /\ new[i] = sc[(i - Len(X)) + 1]
    BY <1>0, Spliced
<1>5. Tells(new)
    <2> SUFFICES ASSUME NEW i \in DOMAIN new, new[i].do \in Enders
                 PROVE \E j \in DOMAIN new :
                          /\ j > i /\ new[j] = StepOn("announce", new[i].arg)
                          /\ \A k \in i..j : new[k].do \in Steady
        BY DEF Tells
    <2>1. CASE i \in 1..Len(X)
        <3>1. PICK j \in DOMAIN X : /\ j > i /\ X[j] = StepOn("announce", X[i].arg)
                                    /\ \A k \in i..j : X[k].do \in Steady
            BY <1>1, <1>2, <2>1 DEF Followed, Tells
        <3>2. j \in DOMAIN new /\ new[j] = X[j] /\ new[i] = X[i] /\ \A k \in i..j : new[k] = X[k]
            BY <1>1, <1>2, <2>1
        <3> QED
            BY <3>1, <3>2
    <2>2. CASE i \notin 1..Len(X)
        <3>0. PICK a, b \in Nat : a = Len(X) /\ b = Len(sc)
            BY <1>1
        <3>1. PICK m : m = (i - a) + 1
            OBVIOUS
        <3>2. m \in 2..b /\ new[i] = sc[m]
            BY <1>4, <2>2, <3>0, <3>1
        <3>8. i \in Int /\ i = (a + m) - 1 /\ m \in DOMAIN sc
            BY <1>1, <3>0, <3>1, <3>2
        <3>3. PICK n \in DOMAIN sc : /\ n > m /\ sc[n] = StepOn("announce", sc[m].arg)
                                     /\ \A k \in m..n : sc[k].do \in Steady
            BY <1>0, <3>2, <3>8 DEF Followed, Tells
        <3>4. PICK j : j = (a + n) - 1
            OBVIOUS
        <3>9. n \in 2..b /\ n > m
            BY <1>1, <3>0, <3>2, <3>3
        <3>10. DOMAIN new = 1..((a + b) - 1)
            BY <1>1, <3>0
        <3>5. j \in 1..((a + b) - 1) /\ j > i /\ i > a
            BY <3>2, <3>4, <3>8, <3>9
        <3>6. new[j] = sc[n]
            BY <1>3, <3>0, <3>4, <3>9
        <3>7. ASSUME NEW k \in i..j PROVE new[k].do \in Steady
            <4>1. k \in 1..((a + b) - 1) /\ k \notin 1..a /\ (k - a) + 1 \in m..n
                BY <3>2, <3>4, <3>5, <3>8, <3>9
            <4>2. new[k] = sc[(k - a) + 1]
                BY <1>4, <3>0, <3>10, <4>1
            <4> QED
                BY <3>3, <4>1, <4>2
        <3> QED
            BY <3>2, <3>3, <3>5, <3>6, <3>7, <3>10
    <2> QED
        BY <2>1, <2>2
<1>13. Kicks(new)
    <2> SUFFICES ASSUME NEW i \in DOMAIN new, new[i].do = "revoke"
                 PROVE /\ i + 1 \in DOMAIN new /\ new[i + 1] = StepOn("announce", new[i].arg)
                       /\ i + 2 \in DOMAIN new /\ new[i + 2] = StepOn("kick", new[i].arg)
        BY DEF Kicks
    <2>1. PICK a, b \in Nat : a = Len(X) /\ b = Len(sc)
        BY <1>1
    <2>2. DOMAIN new = 1..((a + b) - 1) /\ DOMAIN X = 1..a /\ DOMAIN sc = 1..b /\ i \in Int
        BY <1>1, <2>1
    <2>3. CASE i \in 1..a
        <3>1. /\ i + 1 \in 1..a /\ X[i + 1] = StepOn("announce", X[i].arg)
              /\ i + 2 \in 1..a /\ X[i + 2] = StepOn("kick", X[i].arg)
            BY <1>2, <2>1, <2>2, <2>3 DEF Followed, Kicks
        <3>2. new[i] = X[i] /\ new[i + 1] = X[i + 1] /\ new[i + 2] = X[i + 2]
            BY <1>2, <2>1, <2>3, <3>1
        <3>3. i + 1 \in 1..((a + b) - 1) /\ i + 2 \in 1..((a + b) - 1)
            BY <1>1, <2>1, <3>1
        <3> QED
            BY <2>2, <3>1, <3>2, <3>3
    <2>4. CASE i \notin 1..a
        <3>1. PICK m : m = (i - a) + 1
            OBVIOUS
        <3>2. m \in 2..b /\ new[i] = sc[m]
            BY <1>4, <2>1, <2>4, <3>1
        <3>3. m \in DOMAIN sc /\ sc[m].do = "revoke"
            BY <2>2, <3>2
        <3>4. /\ m + 1 \in 1..b /\ sc[m + 1] = StepOn("announce", sc[m].arg)
              /\ m + 2 \in 1..b /\ sc[m + 2] = StepOn("kick", sc[m].arg)
            BY <1>0, <2>2, <3>3 DEF Followed, Kicks
        <3>7. i = (a + m) - 1
            BY <2>2, <3>1
        <3>5. /\ m + 1 \in 2..b /\ (a + (m + 1)) - 1 = i + 1 /\ i + 1 \in 1..((a + b) - 1)
              /\ m + 2 \in 2..b /\ (a + (m + 2)) - 1 = i + 2 /\ i + 2 \in 1..((a + b) - 1)
            BY <3>2, <3>4, <3>7
        <3>6. new[i + 1] = sc[m + 1] /\ new[i + 2] = sc[m + 2]
            BY <1>3, <2>1, <3>5
        <3> QED
            BY <2>2, <3>2, <3>4, <3>5, <3>6
    <2> QED
        BY <2>3, <2>4
<1>6. "open" \notin Steady
    BY DEF Steady, Enders
<1>7. ASSUME NEW i \in DOMAIN new, new[i].do = "open"
      PROVE /\ (i - Len(X)) + 1 \in 2..Len(sc) /\ sc[(i - Len(X)) + 1].do = "open"
            /\ sc[i - Len(X)].do = "stamp"
    <2>1. i \notin 1..Len(X)
        BY <1>1, <1>2, <1>6, <1>7 DEF AllSteady
    <2>2. (i - Len(X)) + 1 \in 2..Len(sc) /\ sc[(i - Len(X)) + 1].do = "open"
        BY <1>4, <1>7, <2>1
    <2>3. PICK m \in 2..Len(sc) : m = (i - Len(X)) + 1
        BY <2>2
    <2>4. sc[m - 1].do = "stamp" /\ m - 1 = i - Len(X)
        BY <1>0, <1>1, <2>2, <2>3 DEF Stamped
    <2> QED
        BY <2>2, <2>4
<1>8. Stamped(new)
    <2> SUFFICES ASSUME NEW i \in DOMAIN new, new[i].do = "open", i # 1 PROVE new[i - 1].do = "stamp"
        BY DEF Stamped
    <2>1. PICK m \in 2..Len(sc) : m = (i - Len(X)) + 1
        BY <1>7
    <2>2. sc[m - 1].do = "stamp" /\ m - 1 = i - Len(X)
        BY <1>1, <1>7, <2>1
    <2>3. CASE m = 2
        <3>1. sc[1].do = "stamp"
            BY <2>2, <2>3
        <3>2. X = <<>> /\ Len(X) = 0
            BY <1>1, <3>1
        <3> QED
            BY <1>1, <2>1, <2>3, <3>2
    <2>4. CASE m # 2
        <3>0. i \in Int
            BY <1>1
        <3>1. m - 1 \in 2..Len(sc) /\ (Len(X) + (m - 1)) - 1 = i - 1
            BY <1>1, <2>1, <2>4, <3>0
        <3>2. new[i - 1] = sc[m - 1]
            BY <1>3, <3>1
        <3> QED
            BY <2>2, <3>2
    <2> QED
        BY <2>3, <2>4
<1>9. Has(new, "open") => Has(sc, "open")
    <2> SUFFICES ASSUME NEW i \in DOMAIN new, new[i].do = "open" PROVE Has(sc, "open")
        BY DEF Has
    <2>1. (i - Len(X)) + 1 \in DOMAIN sc /\ sc[(i - Len(X)) + 1].do = "open"
        BY <1>1, <1>7
    <2> QED
        BY <2>1 DEF Has
<1>10. First(new, "open") => Head(sc).do = "stamp"
    <2> SUFFICES ASSUME new # <<>>, Head(new).do = "open" PROVE Head(sc).do = "stamp"
        BY DEF First
    <2>1. 1 \in DOMAIN new /\ new[1].do = "open"
        BY <1>1
    <2>2. 1 \notin 1..Len(X)
        BY <1>1, <1>2, <1>6, <2>1 DEF AllSteady
    <2>3. Len(X) = 0
        BY <1>1, <2>2
    <2>4. sc[1 - Len(X)].do = "stamp"
        BY <1>7, <2>1
    <2> QED
        BY <1>1, <2>3, <2>4
<1>11. ASSUME NEW i \in DOMAIN new, new[i].do = "delete" PROVE \E m \in 2..Len(sc) : sc[m].do = "delete"
    <2>0. "delete" \notin Steady
        BY DEF Steady, Enders
    <2>1. i \notin 1..Len(X)
        BY <1>1, <1>2, <1>11, <2>0 DEF AllSteady
    <2> QED
        BY <1>4, <1>11, <2>1
<1>12. Has(new, "delete") => \E i \in 2..Len(sc) : sc[i].do = "delete"
    BY <1>11 DEF Has
<1> QED
    BY <1>1, <1>5, <1>8, <1>9, <1>10, <1>12, <1>13 DEF Scripts, Followed

-----------------------------------------------------------------------------
(* The loops over a list of sessions.                                       *)

\* InOrder lists every member of the set.
LEMMA InOrderLists ==
    ASSUME NEW S \in SUBSET Nat, IsFiniteSet(S)
    PROVE /\ InOrder(S) \in Seq(Nat) /\ InOrder(S) \in Seq(Nat \cup Sockets)
          /\ \A i \in DOMAIN InOrder(S) : InOrder(S)[i] \in S
          /\ \A x \in S : \E i \in DOMAIN InOrder(S) : InOrder(S)[i] = x
<1> DEFINE Below(x) == {y \in S : y <= x}
           rank == [x \in S |-> Cardinality(Below(x))]
           n == Cardinality(S)
<1>1. n \in Nat
    BY FS_CardinalityType
<1>2. ASSUME NEW x \in S
      PROVE IsFiniteSet(Below(x)) /\ Cardinality(Below(x)) \in 1..n
    <2>1. IsFiniteSet(Below(x)) /\ Cardinality(Below(x)) <= n
        BY FS_Subset
    <2>2. x \in Below(x)
        OBVIOUS
    <2>3. Cardinality(Below(x)) \in Nat /\ Cardinality(Below(x)) # 0
        BY <2>1, <2>2, FS_CardinalityType, FS_EmptySet
    <2> QED
        BY <1>1, <2>1, <2>3
<1>3. ASSUME NEW x \in S, NEW y \in S, x < y
      PROVE Cardinality(Below(x)) # Cardinality(Below(y))
    <2>1. Below(x) \in SUBSET Below(y) /\ y \in Below(y) /\ y \notin Below(x)
        <3>1. x \in Nat /\ y \in Nat /\ \A z \in S : z \in Nat
            OBVIOUS
        <3>2. \A z \in S : z <= x => z <= y
            BY <1>3, <3>1
        <3>3. ~(y <= x) /\ y <= y
            BY <1>3, <3>1
        <3> QED
            BY <3>2, <3>3
    <2>2. IsFiniteSet(Below(y))
        BY <1>2
    <2> HIDE DEF Below
    <2> QED
        BY <2>1, <2>2, FS_Subset
<1>4. \A x, y \in S : Cardinality(Below(x)) = Cardinality(Below(y)) => x = y
    <2> SUFFICES ASSUME NEW x \in S, NEW y \in S, x # y
                 PROVE Cardinality(Below(x)) # Cardinality(Below(y))
        OBVIOUS
    <2>1. x < y \/ y < x
        OBVIOUS
    <2> HIDE DEF Below
    <2> QED
        BY <1>3, <2>1
<1> HIDE DEF Below
<1>5. rank \in Injection(S, 1..n)
    BY <1>2, <1>4 DEF Injection, IsInjective
<1>6. IsFiniteSet(1..n) /\ Cardinality(1..n) = n
    BY <1>1, FS_Interval
<1>7. rank \in Surjection(S, 1..n)
    <2> HIDE DEF rank
    <2> QED
        BY <1>5, <1>6, FS_Injection
<1>8. ASSUME NEW i \in 1..n PROVE \E x \in S : Cardinality(Below(x)) = i
    BY <1>7 DEF Surjection
<1>9. InOrder(S) = [i \in 1..n |-> CHOOSE x \in S : Cardinality(Below(x)) = i]
    BY DEF InOrder, Below
<1>10. ASSUME NEW i \in 1..n PROVE InOrder(S)[i] \in S /\ Cardinality(Below(InOrder(S)[i])) = i
    BY <1>8, <1>9
<1>11. InOrder(S) \in [1..n -> S]
    BY <1>9, <1>10
<1>12. ASSUME NEW x \in S PROVE \E i \in DOMAIN InOrder(S) : InOrder(S)[i] = x
    <2>1. PICK i \in 1..n : i = Cardinality(Below(x))
        BY <1>2
    <2> QED
        BY <1>4, <1>10, <1>11, <2>1
<1>13. InOrder(S) \in [1..n -> Nat] /\ InOrder(S) \in [1..n -> Nat \cup Sockets]
    BY <1>11
<1> QED
    BY <1>1, <1>10, <1>11, <1>12, <1>13

\* The steps that follow each other in a revocation.
LEMMA StepOnOK ==
    /\ \A d \in StepNames, x \in Nat \cup Sockets :
         StepOn(d, x) \in Steps /\ StepOn(d, x).do = d /\ StepOn(d, x).arg = x
    /\ \A d \in StepNames : Step(d) \in Steps /\ Step(d).do = d
    /\ {"revoke", "announce", "kick", "notify"} \subseteq StepNames \cap Steady
    /\ {"announce", "kick", "notify"} \cap Enders = {}
BY DEF StepOn, Step, Steps, Steady, Enders, StepNames

LEMMA RevokeEachOK ==
    ASSUME NEW order \in Seq(Nat), NEW X, X = RevokeEach(order)
    PROVE /\ X \in Seq(Steps) /\ AllSteady(X) /\ Followed(X)
          /\ \A a \in DOMAIN order : \E i \in DOMAIN X : X[i] = StepOn("revoke", order[a])
<1> DEFINE R(a) == Revocation(order[a])
<1>1. PICK L \in Nat : L = Len(order) /\ DOMAIN order = 1..L
    OBVIOUS
<1>2. Len(Revocation(0)) = 4
    BY DEF Revocation
<1>3. X = [i \in 1..(L * 4) |-> R(((i - 1) \div 4) + 1)[((i - 1) % 4) + 1]]
    BY <1>1, <1>2 DEF RevokeEach
<1>4. DOMAIN X = 1..(L * 4)
    BY <1>3
<1>5. ASSUME NEW a \in 1..L
      PROVE /\ R(a)[1] = StepOn("revoke", order[a]) /\ R(a)[2] = StepOn("announce", order[a])
            /\ R(a)[3] = StepOn("kick", order[a]) /\ R(a)[4] = Step("notify")
            /\ order[a] \in Nat
    BY <1>1 DEF Revocation
<1>6. ASSUME NEW i \in 1..(L * 4)
      PROVE \E a \in 1..L, b \in 1..4 : i = 4 * (a - 1) + b
    <2>1. PICK q \in Int, r \in 0..3 : i - 1 = 4 * q + r
        <3>1. i - 1 = 4 * ((i - 1) \div 4) + ((i - 1) % 4) /\ (i - 1) % 4 \in 0..3 /\ (i - 1) \div 4 \in Int
            OBVIOUS
        <3> QED
            BY <3>1
    <2>2. q + 1 \in 1..L /\ r + 1 \in 1..4 /\ i = 4 * ((q + 1) - 1) + (r + 1)
        BY <2>1
    <2> QED
        BY <2>2
<1>7. ASSUME NEW a \in 1..L, NEW b \in 1..4
      PROVE 4 * (a - 1) + b \in 1..(L * 4) /\ X[4 * (a - 1) + b] = R(a)[b]
    <2>1. PICK i \in Int : i = 4 * (a - 1) + b
        OBVIOUS
    <2>2. i \in 1..(L * 4)
        BY <2>1
    <2>3. ((i - 1) \div 4) + 1 = a /\ ((i - 1) % 4) + 1 = b
        BY <2>1
    <2> HIDE DEF R
    <2> QED
        BY <1>3, <2>1, <2>2, <2>3
<1> HIDE DEF R
<1>8. ASSUME NEW i \in DOMAIN X
      PROVE /\ X[i] \in Steps /\ X[i].do \in Steady
            /\ X[i].do \in Enders =>
                 i + 1 \in DOMAIN X /\ X[i + 1] = StepOn("announce", X[i].arg)
    <2>1. PICK a \in 1..L, b \in 1..4 : i = 4 * (a - 1) + b
        BY <1>4, <1>6
    <2>2. X[i] = R(a)[b]
        BY <1>7, <2>1
    <2>3. CASE b = 1
        <3>1. X[i] = StepOn("revoke", order[a]) /\ order[a] \in Nat
            BY <1>5, <2>2, <2>3
        <3>2. i + 1 = 4 * (a - 1) + 2
            BY <2>1, <2>3
        <3>3. i + 1 \in DOMAIN X /\ X[i + 1] = R(a)[2]
            BY <1>4, <1>7, <3>2
        <3> QED
            BY <1>5, <3>1, <3>3, StepOnOK
    <2>4. CASE b # 1
        <3>1. X[i] \in {StepOn("announce", order[a]), StepOn("kick", order[a]), Step("notify")}
              /\ order[a] \in Nat
            BY <1>5, <2>2, <2>4
        <3> QED
            BY <3>1, StepOnOK
    <2> QED
        BY <2>3, <2>4
<1>9. X \in Seq(Steps)
    BY <1>1, <1>3, <1>4, <1>8
<1>10. Tells(X)
    <2> SUFFICES ASSUME NEW i \in DOMAIN X, X[i].do \in Enders
                 PROVE \E j \in DOMAIN X : /\ j > i /\ X[j] = StepOn("announce", X[i].arg)
                                           /\ \A k \in i..j : X[k].do \in Steady
        BY DEF Tells
    <2>1. i + 1 \in DOMAIN X /\ X[i + 1] = StepOn("announce", X[i].arg) /\ i + 1 > i
        BY <1>4, <1>8
    <2>2. \A k \in i..(i + 1) : k \in DOMAIN X
        BY <1>4, <2>1
    <2> QED
        BY <1>8, <2>1, <2>2
<1>12. Kicks(X)
    <2> SUFFICES ASSUME NEW i \in DOMAIN X, X[i].do = "revoke"
                 PROVE /\ i + 1 \in DOMAIN X /\ X[i + 1] = StepOn("announce", X[i].arg)
                       /\ i + 2 \in DOMAIN X /\ X[i + 2] = StepOn("kick", X[i].arg)
        BY DEF Kicks
    <2>1. PICK a \in 1..L, b \in 1..4 : i = 4 * (a - 1) + b
        BY <1>4, <1>6
    <2>2. X[i] = R(a)[b]
        BY <1>7, <2>1
    <2>3. b = 1
        <3>1. b # 1 => X[i].do \in {"announce", "kick", "notify"}
            BY <1>5, <2>2, StepOnOK
        <3> QED
            BY <3>1
    <2>4. X[i] = StepOn("revoke", order[a]) /\ X[i].arg = order[a]
        BY <1>5, <2>2, <2>3, StepOnOK
    <2>5. i + 1 = 4 * (a - 1) + 2 /\ i + 2 = 4 * (a - 1) + 3
        BY <2>1, <2>3
    <2>6. i + 1 \in DOMAIN X /\ X[i + 1] = R(a)[2]
        BY <1>4, <1>7, <2>5
    <2>7. i + 2 \in DOMAIN X /\ X[i + 2] = R(a)[3]
        BY <1>4, <1>7, <2>5
    <2> QED
        BY <1>5, <2>4, <2>6, <2>7
<1>11. ASSUME NEW a \in DOMAIN order PROVE \E i \in DOMAIN X : X[i] = StepOn("revoke", order[a])
    <2>1. 4 * (a - 1) + 1 \in DOMAIN X /\ X[4 * (a - 1) + 1] = R(a)[1]
        BY <1>1, <1>4, <1>7
    <2> QED
        BY <1>1, <1>5, <2>1
<1> QED
    BY <1>8, <1>9, <1>10, <1>11, <1>12 DEF AllSteady, Followed

-----------------------------------------------------------------------------
(* What a task may become.                                                  *)

\* The new state n of task p respects the scripts and does not need the loop.
Fits(p, n) ==
    /\ TaskOK(n) /\ ~First(n.script, "open")
    /\ p \in Sockets => ~Has(n.script, "open")
    /\ p = Sweeper => SweepOK(n.script) /\ ~First(n.script, "purge")

\* Task p takes its first step and becomes n, with the steps X in its place.
Went(p, n, X) ==
    /\ X \in Seq(Steps) /\ AllSteady(X) /\ Followed(X)
    /\ task' = [task EXCEPT ![p] = n]
    /\ TaskShape(n) /\ n.script = X \o Tail(task[p].script)
    /\ n.script = <<>> \/ (n.user = task[p].user /\ n.keep = task[p].keep)

\* Steps of scripts that neither end nor open a session nor delete a user.
PlainSteps == {x \in Steps : x.do \notin Enders \cup {"open", "delete"}}

LEMMA PlainScript ==
    ASSUME NEW sc \in Seq(PlainSteps)
    PROVE sc \in Scripts /\ ~Has(sc, "open") /\ ~Has(sc, "delete") /\ ~First(sc, "open")
<1>1. \A i \in DOMAIN sc : sc[i] \in Steps /\ sc[i].do \notin Enders \cup {"open", "delete"}
    BY DEF PlainSteps
<1>2. sc \in Seq(Steps)
    BY DEF PlainSteps
<1>3. sc # <<>> => Head(sc) = sc[1] /\ 1 \in DOMAIN sc
    OBVIOUS
<1> QED
    BY <1>1, <1>2, <1>3 DEF Scripts, Followed, Tells, Kicks, Enders, Stamped, Has, First

LEMMA EmptyPlain == <<>> \in Seq(PlainSteps) /\ <<>> \in Seq(Steps) /\ AllSteady(<<>>) /\ Followed(<<>>)
BY DEF AllSteady, Followed, Tells, Kicks

LEMMA IdleFits == \A p : Fits(p, Idle) /\ Idle.script = <<>> /\ Idle.before = {}
<1>1. Idle.script = <<>> /\ TaskShape(Idle) /\ Idle.before = {}
    BY DEF Idle, TaskShape
<1>2. <<>> \in Scripts /\ ~Has(<<>>, "open") /\ ~Has(<<>>, "delete") /\ ~First(<<>>, "open")
    BY PlainScript, EmptyPlain
<1>3. SweepOK(<<>>) /\ ~First(<<>>, "purge")
    BY DEF SweepOK, First
<1> QED
    BY <1>1, <1>2, <1>3 DEF Fits, TaskOK

\* A task whose first step was not an account's stamp.
LEMMA WentOK ==
    ASSUME NEW t, TaskOK(t), t.script # <<>>, NEW X \in Seq(Steps), AllSteady(X), Followed(X),
           NEW n, TaskShape(n), n.script = X \o Tail(t.script), n.script = <<>> \/ n.user = t.user,
           Head(t.script).do # "stamp" \/ X = <<>>
    PROVE /\ TaskOK(n)
          /\ Has(n.script, "open") => Has(t.script, "open")
          /\ First(n.script, "open") => Head(t.script).do = "stamp"
<1>1. PICK sc : sc = t.script
    OBVIOUS
<1>2. PICK new : new = n.script
    OBVIOUS
<1>3. sc \in Scripts /\ new = X \o Tail(sc) /\ sc # <<>> /\ (Head(sc).do # "stamp" \/ X = <<>>)
    BY <1>1, <1>2 DEF TaskOK
<1>4. /\ new \in Scripts
      /\ Has(new, "open") => Has(sc, "open")
      /\ Has(new, "delete") => \E i \in 2..Len(sc) : sc[i].do = "delete"
      /\ First(new, "open") => Head(sc).do = "stamp"
    BY <1>3, SplicedScript
<1>5. ~Has(new, "delete")
    <2> SUFFICES ASSUME NEW i \in 2..Len(sc), sc[i].do = "delete" PROVE FALSE
        BY <1>4
    <2>1. Has(sc, "delete")
        BY <1>3 DEF Has, Scripts
    <2>2. sc = Deletion
        BY <1>1, <2>1 DEF TaskOK
    <2>3. i \in 2..5
        BY <2>2 DEF Deletion
    <2> QED
        BY <2>2, <2>3 DEF Deletion, Step
<1>6. Has(new, "open") => n.user \in Users
    <2> SUFFICES ASSUME Has(new, "open") PROVE n.user \in Users
        OBVIOUS
    <2>1. new # <<>>
        BY DEF Has
    <2> QED
        BY <1>1, <1>2, <1>4, <2>1 DEF TaskOK
<1> QED
    BY <1>1, <1>2, <1>4, <1>5, <1>6 DEF TaskOK

\* Outside its three own steps the sweep announces and notifies.
LEMMA SweepTail ==
    ASSUME NEW sc \in Seq(Steps), SweepOK(sc), sc # <<>>, Head(sc).do \notin {"before", "purge", "compare"}
    PROVE /\ Head(sc).do \in {"announce", "notify"}
          /\ SweepOK(Tail(sc)) /\ ~First(Tail(sc), "purge")
<1>1. Head(sc) = sc[1] /\ 1 \in DOMAIN sc
    OBVIOUS
<1>2. \A i \in DOMAIN sc : sc[i].do \in {"announce", "notify"}
    BY DEF SweepOK, Step
<1>3. /\ Tail(sc) \in Seq(Steps) /\ \A i \in DOMAIN Tail(sc) : Tail(sc)[i] = sc[i + 1] /\ i + 1 \in DOMAIN sc
    BY HeadTailProperties
<1>4. \A i \in DOMAIN Tail(sc) : Tail(sc)[i].do \in {"announce", "notify"}
    BY <1>2, <1>3
<1>5. Tail(sc) # <<>> => 1 \in DOMAIN Tail(sc) /\ Head(Tail(sc)) = Tail(sc)[1]
    BY <1>3
<1> QED
    BY <1>1, <1>2, <1>4, <1>5 DEF SweepOK, First

\* A step of a task that keeps the scripts in shape.
LEMMA ScriptsKept ==
    ASSUME ScriptsInv, NEW p \in Tasks, loop \in {Free, p}, NEW n, task' = [task EXCEPT ![p] = n],
           TaskOK(n), p \in Sockets => ~Has(n.script, "open"),
           ~SlowStores /\ First(n.script, "open") => loop' = p /\ user'[n.user] # "gone",
           p = Sweeper =>
              /\ SweepOK(n.script) /\ n.before \subseteq DOMAIN owner'
              /\ ~SlowStores /\ First(n.script, "purge") => loop' = p /\ live' \subseteq n.before,
           user' \in [Users -> Accounts], owner' \in Seq(Users), DOMAIN owner \subseteq DOMAIN owner',
           live' \subseteq DOMAIN owner', \A t \in tickets' : t.s \in Nat \cup Sockets
    PROVE ScriptsInv'
<1>0. /\ task = [q \in Tasks |-> task[q]] /\ \A q \in Tasks : TaskOK(task[q])
      /\ SweepOK(task[Sweeper].script) /\ \A w \in Sockets : ~Has(task[w].script, "open")
    BY DEF ScriptsInv, ScriptsOK
<1>1. task' = [q \in Tasks |-> task'[q]] /\ task'[p] = n /\ \A q \in Tasks : q # p => task'[q] = task[q]
    BY <1>0
<1>2. Sweeper \in Tasks /\ Sockets \subseteq Tasks /\ Free \notin Tasks
    BY TasksAssumption DEF Tasks
<1>3. ScriptsOK'
    BY <1>0, <1>1, <1>2 DEF ScriptsOK
<1>4. DataOK'
    <2>1. task'[Sweeper].before \subseteq DOMAIN owner'
        BY <1>1, <1>2 DEF ScriptsInv, DataOK
    <2> QED
        BY <2>1 DEF DataOK
<1>5. ASSUME ~SlowStores, NEW q \in Tasks, q # p PROVE ~First(task[q].script, "open")
    BY <1>2, <1>5 DEF ScriptsInv, LoopOK
<1>6. ~SlowStores /\ p # Sweeper => ~First(task[Sweeper].script, "purge")
    BY <1>2 DEF ScriptsInv, LoopOK
<1>7. LoopOK'
    BY <1>1, <1>2, <1>5, <1>6 DEF LoopOK
<1> QED
    BY <1>3, <1>4, <1>7 DEF ScriptsInv

\* What GoOn makes of a task.
LEMMA GoOnNew ==
    ASSUME ScriptsInv, NEW p \in Tasks, NEW sc, GoOn(p, sc)
    PROVE \E n : /\ task' = [task EXCEPT ![p] = n] /\ TaskShape(n) /\ n.script = sc
                 /\ n.script = <<>> \/ (n.user = task[p].user /\ n.keep = task[p].keep)
                 /\ n.before \in {task[p].before, {}}
                 /\ sc # <<>> => n.before = task[p].before
                 /\ loop' = IF sc = <<>> \/ SlowStores \/ Head(sc).do \in Waits THEN Free ELSE p
<1>1. TaskShape(task[p])
    BY DEF ScriptsInv, ScriptsOK, TaskOK
<1>2. PICK t : t = [task[p] EXCEPT !.script = sc]
    OBVIOUS
<1>3. /\ t.script = sc /\ t.user = task[p].user /\ t.keep = task[p].keep /\ t.before = task[p].before
      /\ TaskShape(t)
    BY <1>1, <1>2 DEF TaskShape
<1>4. /\ task' = [task EXCEPT ![p] = IF t.script = <<>> THEN Idle ELSE t]
      /\ loop' = IF t.script = <<>> \/ SlowStores \/ Head(t.script).do \in Waits THEN Free ELSE p
    BY <1>2 DEF GoOn, Resume
<1>5. PICK n : n = IF t.script = <<>> THEN Idle ELSE t
    OBVIOUS
<1>6. Idle.script = <<>> /\ TaskShape(Idle) /\ Idle.before = {}
    BY DEF Idle, TaskShape
<1>7. /\ n.script = sc /\ TaskShape(n) /\ n.before \in {task[p].before, {}}
      /\ sc # <<>> => n.before = task[p].before
      /\ n.script = <<>> \/ (n.user = task[p].user /\ n.keep = task[p].keep)
    BY <1>3, <1>5, <1>6
<1> QED
    BY <1>3, <1>4, <1>5, <1>7

LEMMA GoOnWent ==
    ASSUME ScriptsInv, NEW p \in Tasks, task[p].script # <<>>,
           NEW X \in Seq(Steps), AllSteady(X), Followed(X), GoOn(p, X \o Rest(p))
    PROVE \E n : Went(p, n, X) /\ n.before \subseteq task[p].before
<1>1. PICK sc : sc = X \o Rest(p)
    OBVIOUS
<1>2. GoOn(p, sc)
    BY <1>1
<1>3. PICK n : /\ task' = [task EXCEPT ![p] = n] /\ TaskShape(n) /\ n.script = sc
               /\ n.script = <<>> \/ (n.user = task[p].user /\ n.keep = task[p].keep)
               /\ n.before \in {task[p].before, {}}
               /\ sc # <<>> => n.before = task[p].before
               /\ loop' = IF sc = <<>> \/ SlowStores \/ Head(sc).do \in Waits THEN Free ELSE p
    BY <1>2, GoOnNew
<1> QED
    BY <1>1, <1>3 DEF Went, Rest

LEMMA GoOnRest ==
    ASSUME ScriptsInv, NEW p \in Tasks, task[p].script # <<>>, GoOn(p, Rest(p))
    PROVE \E n : /\ Went(p, n, <<>>) /\ n.script = Rest(p)
                 /\ n.before \subseteq task[p].before
                 /\ Rest(p) # <<>> => n.before = task[p].before
                 /\ loop' = IF Rest(p) = <<>> \/ SlowStores \/ Head(Rest(p)).do \in Waits THEN Free ELSE p
<1>1. task[p].script \in Seq(Steps)
    BY DEF ScriptsInv, ScriptsOK, TaskOK, Scripts
<1>2. PICK sc : sc = Rest(p)
    OBVIOUS
<1>3. sc = <<>> \o Tail(task[p].script)
    BY <1>1, <1>2 DEF Rest
<1>4. GoOn(p, sc)
    BY <1>2
<1>5. PICK n : /\ task' = [task EXCEPT ![p] = n] /\ TaskShape(n) /\ n.script = sc
               /\ n.script = <<>> \/ (n.user = task[p].user /\ n.keep = task[p].keep)
               /\ n.before \in {task[p].before, {}}
               /\ sc # <<>> => n.before = task[p].before
               /\ loop' = IF sc = <<>> \/ SlowStores \/ Head(sc).do \in Waits THEN Free ELSE p
    BY <1>4, GoOnNew
<1>6. Went(p, n, <<>>)
    BY <1>3, <1>5, EmptyPlain DEF Went
<1> QED
    BY <1>2, <1>5, <1>6

LEMMA WentFits ==
    ASSUME ScriptsInv, NEW p \in Tasks, task[p].script # <<>>, NEW n, NEW X, Went(p, n, X),
           Head(task[p].script).do \notin {"stamp", "before", "purge", "compare"},
           Head(task[p].script).do \in {"announce", "notify"} => X = <<>>
    PROVE Fits(p, n)
<1>0. TaskOK(task[p]) /\ SweepOK(task[Sweeper].script) /\ task[p].script \in Seq(Steps)
      /\ \A w \in Sockets : ~Has(task[w].script, "open")
    BY DEF ScriptsInv, ScriptsOK, TaskOK, Scripts
<1>1. PICK t : t = task[p]
    OBVIOUS
<1>2. /\ X \in Seq(Steps) /\ AllSteady(X) /\ Followed(X) /\ TaskShape(n)
      /\ n.script = X \o Tail(t.script) /\ (n.script = <<>> \/ n.user = t.user)
      /\ TaskOK(t) /\ t.script # <<>> /\ Head(t.script).do # "stamp"
    BY <1>0, <1>1 DEF Went
<1>3. /\ TaskOK(n)
      /\ Has(n.script, "open") => Has(t.script, "open")
      /\ First(n.script, "open") => Head(t.script).do = "stamp"
    BY <1>2, WentOK
<1>4. p = Sweeper => SweepOK(n.script) /\ ~First(n.script, "purge")
    <2> SUFFICES ASSUME p = Sweeper PROVE SweepOK(n.script) /\ ~First(n.script, "purge")
        OBVIOUS
    <2>1. PICK sc : sc = task[p].script
        OBVIOUS
    <2>2. sc \in Seq(Steps) /\ SweepOK(sc) /\ sc # <<>> /\ Head(sc).do \notin {"before", "purge", "compare"}
        BY <1>0, <2>1
    <2>3. /\ Head(sc).do \in {"announce", "notify"} /\ SweepOK(Tail(sc)) /\ ~First(Tail(sc), "purge")
        BY <2>2, SweepTail
    <2>4. X = <<>> /\ n.script = X \o Tail(sc)
        BY <1>1, <1>2, <2>1, <2>3
    <2>5. n.script = Tail(sc)
        BY <2>2, <2>4
    <2> QED
        BY <2>3, <2>5
<1> QED
    BY <1>0, <1>1, <1>2, <1>3, <1>4 DEF Fits

-----------------------------------------------------------------------------
(* The kinds of steps.                                                      *)

\* Nothing of task p is sure yet.
Unsure(p) == task[p].script = <<>> \/ Head(task[p].script).do \notin Steady
Calm ==
    /\ UNCHANGED <<owner, live, announced>>
    /\ \A x \in Users : user'[x] = "gone" => user[x] = "gone"

StillMove == UNCHANGED task /\ Calm
FreshMove(p, n) ==
    /\ task' = [task EXCEPT ![p] = n] /\ Unsure(p) /\ ~First(task[p].script, "compare")
    /\ Calm
OtherMove(p, n) ==
    /\ task[p].script # <<>>
    /\ Head(task[p].script).do \in Steady \ (Enders \cup {"announce", "list"})
    /\ \E X : Went(p, n, X)
    /\ Calm
AnnounceMove(p, n) ==
    /\ task[p].script # <<>> /\ Head(task[p].script).do = "announce" /\ Went(p, n, <<>>)
    /\ announced' = announced \cup {Head(task[p].script).arg}
    /\ UNCHANGED <<user, owner, live>>
EndMove(p, n) ==
    /\ task[p].script # <<>> /\ Head(task[p].script).do \in Enders /\ Went(p, n, <<>>)
    /\ live' = live \ {Head(task[p].script).arg}
    /\ UNCHANGED <<user, owner, announced>>
ListMove(p, n) ==
    /\ task[p].script # <<>> /\ Head(task[p].script).do = "list"
    /\ \E X : /\ Went(p, n, X)
              /\ \A s \in live : owner[s] = task[p].user /\ s # task[p].keep =>
                    \E i \in DOMAIN X : X[i] = StepOn("revoke", s)
    /\ Calm
OpenMove(p, n) ==
    /\ task' = [task EXCEPT ![p] = n] /\ Unsure(p) /\ ~First(task[p].script, "compare")
    /\ \E u \in Users : owner' = Append(owner, u) /\ user[u] # "gone"
    /\ live' = live \cup {Len(owner) + 1}
    /\ UNCHANGED <<user, announced>>
DeleteMove(p, n) ==
    /\ task' = [task EXCEPT ![p] = n] /\ Unsure(p) /\ ~First(task[p].script, "compare")
    /\ Lists(n.script) /\ n.keep = 0
    /\ user' = [user EXCEPT ![n.user] = "gone"]
    /\ UNCHANGED <<owner, live, announced>>
PurgeMove(n) ==
    /\ task' = [task EXCEPT ![Sweeper] = n] /\ Unsure(Sweeper)
    /\ ~First(task[Sweeper].script, "compare")
    /\ First(n.script, "compare") /\ live \subseteq n.before /\ live' \subseteq live
    /\ UNCHANGED <<user, owner, announced>>
CompareMove(n) ==
    /\ task' = [task EXCEPT ![Sweeper] = n] /\ Unsure(Sweeper)
    /\ \A s \in task[Sweeper].before \ live : Says(n.script, "announce", s)
    /\ UNCHANGED <<user, owner, live, announced>>

Moved ==
    \/ StillMove \/ \E n : PurgeMove(n) \/ CompareMove(n)
    \/ \E p \in Tasks : \E n :
          \/ FreshMove(p, n) \/ OtherMove(p, n) \/ AnnounceMove(p, n) \/ EndMove(p, n)
          \/ ListMove(p, n) \/ OpenMove(p, n) \/ DeleteMove(p, n)

\* A step of a task that leaves the sessions and the loop to the others.
LEMMA FitsKeeps ==
    ASSUME ScriptsInv, NEW p \in Tasks, loop \in {Free, p}, NEW n, task' = [task EXCEPT ![p] = n],
           Fits(p, n), n.before \subseteq task[p].before, owner' = owner, live' \subseteq live,
           user' \in [Users -> Accounts], \A t \in tickets' : t.s \in Nat \cup Sockets
    PROVE ScriptsInv'
<1>1. owner \in Seq(Users) /\ live \subseteq DOMAIN owner /\ task[Sweeper].before \subseteq DOMAIN owner
    BY DEF ScriptsInv, DataOK
<1>2. /\ TaskOK(n) /\ (p \in Sockets => ~Has(n.script, "open")) /\ ~First(n.script, "open")
      /\ p = Sweeper => SweepOK(n.script) /\ ~First(n.script, "purge")
    BY DEF Fits
<1>3. /\ DOMAIN owner \subseteq DOMAIN owner' /\ owner' \in Seq(Users) /\ live' \subseteq DOMAIN owner'
      /\ p = Sweeper => n.before \subseteq DOMAIN owner'
    BY <1>1
<1> QED
    BY <1>2, <1>3, ScriptsKept

-----------------------------------------------------------------------------
(* Requests begin.                                                          *)

LEMMA StartMoves ==
    ASSUME ScriptsInv, NEW p \in Tasks, p # Sweeper, NEW u, NEW snap, NEW keep, NEW sc,
           Start(p, u, snap, keep, sc), sc \in Scripts, ~First(sc, "open"),
           p \in Sockets => ~Has(sc, "open"), Has(sc, "open") => u \in Users,
           Has(sc, "delete") => sc = Deletion /\ keep = 0
    PROVE ScriptsInv' /\ Moved
<1>1. PICK t : t = [Idle EXCEPT !.script = sc, !.user = u, !.snap = snap, !.keep = keep]
    OBVIOUS
<1>2. t.script = sc /\ t.user = u /\ t.keep = keep /\ t.before = {} /\ TaskShape(t)
    BY <1>1 DEF Idle, TaskShape
<1>3. PICK n : n = IF t.script = <<>> THEN Idle ELSE t
    OBVIOUS
<1>4. /\ task[p] = Idle /\ loop = Free /\ task' = [task EXCEPT ![p] = n]
      /\ UNCHANGED <<user, owner, live, tickets, announced>>
    BY <1>1, <1>3 DEF Start, Resume, accounts, sessions, doors
<1>5. Fits(p, n) /\ n.before = {}
    <2>1. CASE sc = <<>>
        BY <1>2, <1>3, <2>1, IdleFits
    <2>2. CASE sc # <<>>
        BY <1>2, <1>3, <2>2 DEF Fits, TaskOK
    <2> QED
        BY <2>1, <2>2
<1>6. user \in [Users -> Accounts] /\ \A k \in tickets : k.s \in Nat \cup Sockets
    BY DEF ScriptsInv, DataOK
<1>7. n.before \subseteq task[p].before /\ loop \in {Free, p} /\ owner' = owner /\ live' \subseteq live
      /\ user' \in [Users -> Accounts] /\ \A k \in tickets' : k.s \in Nat \cup Sockets
    BY <1>4, <1>5, <1>6
<1>8. ScriptsInv'
    BY <1>4, <1>5, <1>7, FitsKeeps
<1>9. FreshMove(p, n)
    BY <1>4, IdleFits DEF FreshMove, Unsure, First, Calm
<1> QED
    BY <1>8, <1>9 DEF Moved

LEMMA PlainStart ==
    ASSUME ScriptsInv, NEW p \in Tasks, p # Sweeper, NEW u, NEW snap, NEW keep,
           NEW sc \in Seq(PlainSteps), Start(p, u, snap, keep, sc)
    PROVE ScriptsInv' /\ Moved
<1>1. sc \in Scripts /\ ~Has(sc, "open") /\ ~Has(sc, "delete") /\ ~First(sc, "open")
    BY PlainScript
<1> QED
    BY <1>1, StartMoves

\* The scripts that open or end a session or delete a user.
LEMMA LoginScript ==
    \E sc \in Scripts : /\ sc = PasswordCheck \o <<Step("stamp"), Step("open")>>
                       /\ ~First(sc, "open") /\ ~Has(sc, "delete")
<1>0. PICK a, b, c, d, e :
          /\ a = Step("reserve") /\ b = Step("credentials") /\ c = Step("verify")
          /\ d = Step("stamp") /\ e = Step("open")
    OBVIOUS
<1>9. a \in Steps /\ b \in Steps /\ c \in Steps /\ d \in Steps /\ e \in Steps
    BY <1>0 DEF Step, StepOn, Steps, StepNames
<1>1. a.do = "reserve" /\ b.do = "credentials" /\ c.do = "verify" /\ d.do = "stamp" /\ e.do = "open"
    BY <1>0 DEF Step
<1>2. PICK sc : sc = <<a, b, c>> \o <<d, e>>
    OBVIOUS
<1>8. /\ sc \in Seq(Steps) /\ Len(sc) = 5
      /\ sc[1] = a /\ sc[2] = b /\ sc[3] = c /\ sc[4] = d /\ sc[5] = e
    BY <1>2, <1>9
<1>3. /\ sc \in Seq(Steps) /\ DOMAIN sc = 1..5 /\ Head(sc) = sc[1]
      /\ sc[1] = a /\ sc[2] = b /\ sc[3] = c /\ sc[4] = d /\ sc[5] = e
    BY <1>8
<1>4. \A i \in DOMAIN sc : i = 1 \/ i = 2 \/ i = 3 \/ i = 4 \/ i = 5
    BY <1>3
<1>5. Stamped(sc)
    <2> SUFFICES ASSUME NEW i \in DOMAIN sc, sc[i].do = "open" PROVE sc[i - 1].do = "stamp"
        BY DEF Stamped
    <2>1. i = 5
        BY <1>1, <1>3, <1>4
    <2>2. i - 1 = 4
        BY <2>1
    <2> QED
        BY <1>1, <1>3, <2>2
<1>6. Followed(sc)
    BY <1>1, <1>3, <1>4 DEF Followed, Tells, Kicks, Enders
<1>7. ~Has(sc, "delete") /\ ~First(sc, "open")
    BY <1>1, <1>3, <1>4 DEF Has, First
<1>10. sc = PasswordCheck \o <<Step("stamp"), Step("open")>>
    BY <1>0, <1>2 DEF PasswordCheck
<1> QED
    BY <1>3, <1>5, <1>6, <1>7, <1>10 DEF Scripts

LEMMA DeletionScript == Deletion \in Scripts /\ ~First(Deletion, "open") /\ ~Has(Deletion, "open")
<1>0. PICK a, b, c, d :
          a = Step("delete") /\ b = Step("forget") /\ c = Step("list") /\ d = Step("notify")
    OBVIOUS
<1>9. a \in Steps /\ b \in Steps /\ c \in Steps /\ d \in Steps
    BY <1>0 DEF Step, StepOn, Steps, StepNames
<1>1. a.do = "delete" /\ b.do = "forget" /\ c.do = "list" /\ d.do = "notify"
    BY <1>0 DEF Step
<1>2. PICK sc : sc = <<a, b, c, d, d>> /\ sc = Deletion
    BY <1>0 DEF Deletion
<1>3. /\ sc \in Seq(Steps) /\ DOMAIN sc = 1..5 /\ Head(sc) = sc[1]
      /\ sc[1] = a /\ sc[2] = b /\ sc[3] = c /\ sc[4] = d /\ sc[5] = d
    BY <1>2, <1>9
<1>4. \A i \in DOMAIN sc : i = 1 \/ i = 2 \/ i = 3 \/ i = 4 \/ i = 5
    BY <1>3
<1>5. Stamped(sc) /\ ~Has(sc, "open") /\ ~First(sc, "open")
    BY <1>1, <1>3, <1>4 DEF Stamped, Has, First
<1>6. Followed(sc)
    BY <1>1, <1>3, <1>4 DEF Followed, Tells, Kicks, Enders
<1> QED
    BY <1>2, <1>3, <1>5, <1>6 DEF Scripts

LEMMA LogoutScript ==
    ASSUME NEW s \in Nat
    PROVE \E sc \in Scripts :
              /\ sc = Authenticate(s) \o <<StepOn("lookup", s), StepOn("logout", s), Step("notify"),
                                          StepOn("announce", s)>>
              /\ ~First(sc, "open") /\ ~Has(sc, "delete") /\ ~Has(sc, "open")
<1>0. PICK a, b, c, d, e, f, g :
          /\ a = StepOn("session", s) /\ b = StepOn("user", s) /\ c = StepOn("touch", s)
          /\ d = StepOn("lookup", s) /\ e = StepOn("logout", s) /\ f = Step("notify")
          /\ g = StepOn("announce", s)
    OBVIOUS
<1>9. a \in Steps /\ b \in Steps /\ c \in Steps /\ d \in Steps /\ e \in Steps /\ f \in Steps /\ g \in Steps
    BY <1>0 DEF Step, StepOn, Steps, StepNames
<1>1. /\ a.do = "session" /\ b.do = "user" /\ c.do = "touch" /\ d.do = "lookup"
      /\ e.do = "logout" /\ e.arg = s /\ f.do = "notify" /\ g.do = "announce"
    BY <1>0 DEF Step, StepOn
<1>2. PICK sc : sc = <<a, b, c>> \o <<d, e, f, g>>
    OBVIOUS
<1>8. /\ sc \in Seq(Steps) /\ Len(sc) = 7
      /\ sc[1] = a /\ sc[2] = b /\ sc[3] = c /\ sc[4] = d /\ sc[5] = e /\ sc[6] = f /\ sc[7] = g
    BY <1>2, <1>9
<1>3. /\ sc \in Seq(Steps) /\ DOMAIN sc = 1..7 /\ Head(sc) = sc[1]
      /\ sc[1] = a /\ sc[2] = b /\ sc[3] = c /\ sc[4] = d /\ sc[5] = e /\ sc[6] = f /\ sc[7] = g
    BY <1>8
<1>4. \A i \in DOMAIN sc : i = 1 \/ i = 2 \/ i = 3 \/ i = 4 \/ i = 5 \/ i = 6 \/ i = 7
    BY <1>3
<1>5. Stamped(sc) /\ ~Has(sc, "delete") /\ ~Has(sc, "open") /\ ~First(sc, "open")
    BY <1>1, <1>3, <1>4 DEF Stamped, Has, First
<1>6. Tells(sc)
    <2> SUFFICES ASSUME NEW i \in DOMAIN sc, sc[i].do \in Enders
                 PROVE \E j \in DOMAIN sc : /\ j > i /\ sc[j] = StepOn("announce", sc[i].arg)
                                            /\ \A k \in i..j : sc[k].do \in Steady
        BY DEF Tells
    <2>1. i = 5
        BY <1>1, <1>3, <1>4 DEF Enders
    <2>2. \A k \in i..7 : k = 5 \/ k = 6 \/ k = 7
        BY <2>1
    <2>3. \A k \in i..7 : sc[k].do \in Steady
        BY <1>1, <1>3, <2>2 DEF Steady, Enders
    <2>4. 7 \in DOMAIN sc /\ 7 > i
        BY <1>3, <2>1
    <2>5. sc[7] = StepOn("announce", sc[i].arg)
        BY <1>0, <1>1, <1>3, <2>1
    <2> QED
        BY <2>3, <2>4, <2>5
<1>11. Kicks(sc)
    BY <1>1, <1>3, <1>4 DEF Kicks
<1>10. sc = Authenticate(s) \o <<StepOn("lookup", s), StepOn("logout", s), Step("notify"),
                                  StepOn("announce", s)>>
    BY <1>0, <1>2 DEF Authenticate
<1> QED
    BY <1>3, <1>5, <1>6, <1>10, <1>11 DEF Scripts, Followed

\* A session is ended, then its end announced: as a script and as steps put
\* before the rest of one.
LEMMA EndScripts ==
    ASSUME NEW s \in Nat \cup Sockets, NEW sc,
           sc \in {Revocation(s), <<StepOn("expire", s), StepOn("announce", s)>>}
    PROVE /\ sc \in Scripts /\ ~First(sc, "open") /\ ~Has(sc, "delete") /\ ~Has(sc, "open")
          /\ AllSteady(sc) /\ Followed(sc) /\ sc \in Seq(Steps)
<1>0. PICK a, b, c, d, e :
          /\ a = StepOn("revoke", s) /\ b = StepOn("announce", s) /\ c = StepOn("kick", s)
          /\ d = Step("notify") /\ e = StepOn("expire", s)
    OBVIOUS
<1>9. a \in Steps /\ b \in Steps /\ c \in Steps /\ d \in Steps /\ e \in Steps
    BY <1>0 DEF Step, StepOn, Steps, StepNames
<1>1. sc \in Seq(Steps) /\ DOMAIN sc \in {1..4, 1..2}
    <2>1. sc = <<a, b, c, d>> \/ sc = <<e, b>>
        BY <1>0 DEF Revocation
    <2>2. CASE sc = <<a, b, c, d>>
        <3>1. <<a, b, c, d>> \in Seq(Steps) /\ DOMAIN <<a, b, c, d>> = 1..4
            BY <1>9
        <3> QED
            BY <2>2, <3>1
    <2>3. CASE sc = <<e, b>>
        <3>1. <<e, b>> \in Seq(Steps) /\ DOMAIN <<e, b>> = 1..2
            BY <1>9
        <3> QED
            BY <2>3, <3>1
    <2> QED
        BY <2>1, <2>2, <2>3
<1>2. /\ sc[1].do \in {"revoke", "expire"} /\ sc[1].arg = s /\ sc[2] = StepOn("announce", s)
      /\ sc[2].do = "announce" /\ Head(sc) = sc[1]
      /\ \A i \in DOMAIN sc : i > 2 => sc[i].do \in {"kick", "notify"}
    BY DEF Revocation, Step, StepOn
<1>3. \A i \in DOMAIN sc : i = 1 \/ i = 2 \/ i > 2
    BY <1>1
<1>4. Stamped(sc) /\ ~Has(sc, "delete") /\ ~Has(sc, "open") /\ ~First(sc, "open")
    BY <1>2, <1>3 DEF Stamped, Has, First
<1>5. AllSteady(sc)
    BY <1>2, <1>3 DEF AllSteady, Steady, Enders
<1>6. Tells(sc)
    <2> SUFFICES ASSUME NEW i \in DOMAIN sc, sc[i].do \in Enders
                 PROVE \E j \in DOMAIN sc : /\ j > i /\ sc[j] = StepOn("announce", sc[i].arg)
                                            /\ \A k \in i..j : sc[k].do \in Steady
        BY DEF Tells
    <2>1. i = 1
        BY <1>2, <1>3 DEF Enders
    <2>2. 2 \in DOMAIN sc /\ \A k \in 1..2 : k \in DOMAIN sc
        BY <1>1
    <2> QED
        BY <1>2, <1>5, <2>1, <2>2 DEF AllSteady
<1>7. Kicks(sc)
    <2> SUFFICES ASSUME NEW i \in DOMAIN sc, sc[i].do = "revoke"
                 PROVE /\ i + 1 \in DOMAIN sc /\ sc[i + 1] = StepOn("announce", sc[i].arg)
                       /\ i + 2 \in DOMAIN sc /\ sc[i + 2] = StepOn("kick", sc[i].arg)
        BY DEF Kicks
    <2>1. i = 1
        BY <1>2, <1>3
    <2>2. sc = Revocation(s)
        BY <2>1 DEF StepOn
    <2>3. sc = <<a, b, c, d>>
        BY <1>0, <2>2 DEF Revocation
    <2>4. sc[2] = b /\ sc[3] = c /\ 2 \in DOMAIN sc /\ 3 \in DOMAIN sc
        BY <2>3
    <2> QED
        BY <1>0, <1>2, <2>1, <2>4
<1> QED
    BY <1>1, <1>4, <1>5, <1>6, <1>7 DEF Scripts, Followed

\* The steps and the parts of the other scripts.
LEMMA PlainOnes ==
    /\ \A x \in Nat \cup Sockets : \A d \in {"session", "user", "touch", "bind", "issue", "scan", "send"} :
          StepOn(d, x) \in PlainSteps
    /\ \A d \in {"reserve", "credentials", "verify", "password", "clear", "notify", "list",
                 "disable", "enable", "flag", "all", "before", "purge", "compare"} : Step(d) \in PlainSteps
<1>1. ASSUME NEW x \in Nat \cup Sockets, NEW d \in StepNames, d \notin Enders \cup {"open", "delete"}
      PROVE StepOn(d, x) \in PlainSteps /\ Step(d) \in PlainSteps
    BY <1>1 DEF PlainSteps, Steps, StepOn, Step
<1>2. ASSUME NEW d \in {"session", "user", "touch", "bind", "issue", "scan", "send"}
      PROVE d \in StepNames /\ d \notin Enders \cup {"open", "delete"}
    BY DEF StepNames, Enders
<1>3. ASSUME NEW d \in {"reserve", "credentials", "verify", "password", "clear", "notify", "list",
                        "disable", "enable", "flag", "all", "before", "purge", "compare"}
      PROVE d \in StepNames /\ d \notin Enders \cup {"open", "delete"}
    BY DEF StepNames, Enders
<1>4. 0 \in Nat \cup Sockets
    OBVIOUS
<1> QED
    BY <1>1, <1>2, <1>3, <1>4

LEMMA PlainCheck == PasswordCheck \in Seq(PlainSteps)
<1>1. PICK a, b, c : a = Step("reserve") /\ b = Step("credentials") /\ c = Step("verify")
    OBVIOUS
<1>2. a \in PlainSteps /\ b \in PlainSteps /\ c \in PlainSteps
    BY <1>1, PlainOnes
<1> QED
    BY <1>1, <1>2 DEF PasswordCheck

LEMMA PlainAuthenticate ==
    ASSUME NEW s \in Nat \cup Sockets
    PROVE Authenticate(s) \in Seq(PlainSteps)
<1>1. PICK a, b, c : a = StepOn("session", s) /\ b = StepOn("user", s) /\ c = StepOn("touch", s)
    OBVIOUS
<1>2. a \in PlainSteps /\ b \in PlainSteps /\ c \in PlainSteps
    BY <1>1, PlainOnes
<1> QED
    BY <1>1, <1>2 DEF Authenticate

LEMMA PlainJoin ==
    ASSUME NEW a \in Seq(PlainSteps), NEW b \in Seq(PlainSteps)
    PROVE a \o b \in Seq(PlainSteps)
OBVIOUS

LEMMA PlainTuples ==
    /\ \A a \in PlainSteps : <<a>> \in Seq(PlainSteps)
    /\ \A a, b \in PlainSteps : <<a, b>> \in Seq(PlainSteps)
    /\ \A a, b, c \in PlainSteps : <<a, b, c>> \in Seq(PlainSteps)
    /\ \A a, b, c, d \in PlainSteps : <<a, b, c, d>> \in Seq(PlainSteps)
OBVIOUS

LEMMA PlainParts ==
    /\ PasswordCheck \in Seq(PlainSteps)
    /\ \A s \in Nat \cup Sockets :
          /\ Authenticate(s) \in Seq(PlainSteps)
          /\ <<StepOn("session", s), StepOn("user", s), StepOn("bind", s)>> \in Seq(PlainSteps)
          /\ <<StepOn("issue", s)>> \in Seq(PlainSteps)
    /\ <<Step("password")>> \in Seq(PlainSteps) /\ <<Step("clear")>> \in Seq(PlainSteps)
    /\ <<Step("notify"), Step("list")>> \in Seq(PlainSteps) /\ <<Step("notify")>> \in Seq(PlainSteps)
    /\ <<Step("disable"), Step("notify")>> \in Seq(PlainSteps)
    /\ <<Step("enable"), Step("notify")>> \in Seq(PlainSteps) /\ <<Step("all")>> \in Seq(PlainSteps)
    /\ <<Step("password"), Step("flag"), Step("notify"), Step("list")>> \in Seq(PlainSteps)
    /\ <<Step("before"), Step("purge"), Step("compare")>> \in Seq(PlainSteps)
<1>1. /\ Step("password") \in PlainSteps /\ Step("clear") \in PlainSteps /\ Step("notify") \in PlainSteps
      /\ Step("list") \in PlainSteps /\ Step("disable") \in PlainSteps /\ Step("enable") \in PlainSteps
      /\ Step("all") \in PlainSteps /\ Step("flag") \in PlainSteps
    BY PlainOnes
<1>2. Step("before") \in PlainSteps /\ Step("purge") \in PlainSteps /\ Step("compare") \in PlainSteps
    BY PlainOnes
<1>3. \A s \in Nat \cup Sockets : /\ StepOn("session", s) \in PlainSteps /\ StepOn("user", s) \in PlainSteps
                                  /\ StepOn("bind", s) \in PlainSteps /\ StepOn("issue", s) \in PlainSteps
    BY PlainOnes
<1> QED
    BY <1>1, <1>2, <1>3, PlainCheck, PlainAuthenticate, PlainTuples

LEMMA RequestMoves ==
    ASSUME ScriptsInv, NEW p \in Requests, Request(p)
    PROVE ScriptsInv' /\ Moved
<1>0. p \in Tasks /\ p # Sweeper /\ p \notin Sockets
    BY TasksAssumption DEF Tasks
<1>1. \A s \in DOMAIN owner : s \in Nat \cup Sockets /\ s \in Nat
    BY DEF ScriptsInv, DataOK
<1>2. ASSUME NEW u, NEW snap, NEW keep, NEW sc \in Seq(PlainSteps), Start(p, u, snap, keep, sc)
      PROVE ScriptsInv' /\ Moved
    BY <1>0, <1>2, PlainStart
<1>3. CASE \E u \in Users : Login(p, u)
    <2>1. PICK u \in Users : Login(p, u)
        BY <1>3
    <2>2. PICK sc \in Scripts : /\ sc = PasswordCheck \o <<Step("stamp"), Step("open")>>
                                /\ ~First(sc, "open") /\ ~Has(sc, "delete")
        BY LoginScript
    <2>3. PICK snap : snap = user[u]
        OBVIOUS
    <2>4. Start(p, u, snap, 0, sc)
        BY <2>1, <2>2, <2>3 DEF Login
    <2> QED
        BY <1>0, <2>2, <2>4, StartMoves
<1>4. CASE \E u \in Users : VerifyPassword(p, u) \/ ResetPassword(p, u)
    <2>1. PICK u \in Users : VerifyPassword(p, u) \/ ResetPassword(p, u)
        BY <1>4
    <2>2. PICK sc \in Seq(PlainSteps) : Start(p, u, user[u], 0, sc)
        BY <2>1, PlainParts DEF VerifyPassword, ResetPassword
    <2> QED
        BY <1>2, <2>2
<1>5. CASE \E u \in Users : DisableUser(p, u) \/ EnableUser(p, u)
    <2>1. PICK u \in Users : DisableUser(p, u) \/ EnableUser(p, u)
        BY <1>5
    <2>2. PICK sc \in Seq(PlainSteps) : Start(p, u, user[u], 0, sc)
        <3>1. CASE DisableUser(p, u)
            <4>1. PICK b : b = IF user[u] = "enabled" THEN <<Step("notify"), Step("list")>> ELSE <<>>
                OBVIOUS
            <4>2. b \in Seq(PlainSteps)
                BY <4>1, PlainParts, EmptyPlain
            <4>3. <<Step("disable"), Step("notify")>> \o b \in Seq(PlainSteps)
                BY <4>2, PlainParts, PlainJoin
            <4> QED
                BY <3>1, <4>1, <4>3 DEF DisableUser
        <3>2. CASE EnableUser(p, u)
            <4>1. PICK b : b = IF user[u] = "disabled" THEN <<Step("notify")>> ELSE <<>>
                OBVIOUS
            <4>2. b \in Seq(PlainSteps)
                BY <4>1, PlainParts, EmptyPlain
            <4>3. <<Step("enable"), Step("notify")>> \o b \in Seq(PlainSteps)
                BY <4>2, PlainParts, PlainJoin
            <4> QED
                BY <3>2, <4>1, <4>3 DEF EnableUser
        <3> QED
            BY <2>1, <3>1, <3>2
    <2> QED
        BY <1>2, <2>2
<1>6. CASE \E u \in Users : DeleteUser(p, u)
    <2>1. PICK u \in Users : DeleteUser(p, u)
        BY <1>6
    <2>2. PICK snap, keep, sc : snap = user[u] /\ keep = 0 /\ sc = Deletion
        OBVIOUS
    <2>3. Start(p, u, snap, keep, sc)
        BY <2>1, <2>2 DEF DeleteUser, Deletion
    <2>4. sc \in Scripts /\ ~First(sc, "open") /\ ~Has(sc, "open")
        BY <2>2, DeletionScript
    <2> QED
        BY <1>0, <2>2, <2>3, <2>4, StartMoves
<1>7. ASSUME NEW s \in DOMAIN owner, Logout(p, s) PROVE ScriptsInv' /\ Moved
    <2>2. PICK sc \in Scripts :
              /\ sc = Authenticate(s) \o <<StepOn("lookup", s), StepOn("logout", s), Step("notify"),
                                          StepOn("announce", s)>>
              /\ ~First(sc, "open") /\ ~Has(sc, "delete") /\ ~Has(sc, "open")
        BY <1>1, LogoutScript
    <2>3. PICK u : u = owner[s]
        OBVIOUS
    <2>4. Start(p, u, "enabled", 0, sc)
        BY <1>7, <2>2, <2>3 DEF Logout
    <2> QED
        BY <1>0, <2>2, <2>4, StartMoves
<1>8. ASSUME NEW s \in DOMAIN owner, RevokeSession(p, s) PROVE ScriptsInv' /\ Moved
    <2>1. PICK u, sc : u = owner[s] /\ sc = Revocation(s)
        OBVIOUS
    <2>2. sc \in Scripts /\ ~First(sc, "open") /\ ~Has(sc, "delete") /\ ~Has(sc, "open")
        BY <1>1, <2>1, EndScripts
    <2>3. Start(p, u, "enabled", 0, sc)
        BY <1>8, <2>1 DEF RevokeSession
    <2> QED
        BY <1>0, <2>2, <2>3, StartMoves
<1>9. ASSUME NEW s \in DOMAIN owner, IssueTicket(p, s) PROVE ScriptsInv' /\ Moved
    <2>1. Authenticate(s) \o <<StepOn("issue", s)>> \in Seq(PlainSteps)
        BY <1>1, PlainParts, PlainJoin
    <2> QED
        BY <1>2, <1>9, <2>1 DEF IssueTicket
<1>10. ASSUME NEW s \in DOMAIN owner, NEW asked, NEW pending, OwnPassword(p, s, asked, pending)
       PROVE ScriptsInv' /\ Moved
    <2>1. PICK a, b : /\ a = IF asked THEN PasswordCheck ELSE <<>>
                      /\ b = IF pending THEN <<Step("clear")>> ELSE <<>>
        OBVIOUS
    <2>2. a \in Seq(PlainSteps) /\ b \in Seq(PlainSteps)
        BY <2>1, PlainParts, EmptyPlain
    <2>3. Authenticate(s) \o a \in Seq(PlainSteps)
        BY <1>1, <2>2, PlainParts, PlainJoin
    <2>4. (Authenticate(s) \o a) \o <<Step("password")>> \in Seq(PlainSteps)
        BY <2>3, PlainParts, PlainJoin
    <2>5. ((Authenticate(s) \o a) \o <<Step("password")>>) \o b \in Seq(PlainSteps)
        BY <2>2, <2>4, PlainJoin
    <2>6. (((Authenticate(s) \o a) \o <<Step("password")>>) \o b) \o <<Step("notify"), Step("list")>>
             \in Seq(PlainSteps)
        BY <2>5, PlainParts, PlainJoin
    <2>7. Start(p, owner[s], "enabled", s,
                (((Authenticate(s) \o a) \o <<Step("password")>>) \o b) \o <<Step("notify"), Step("list")>>)
        BY <1>10, <2>1, Zenon DEF OwnPassword
    <2> QED
        BY <1>2, <2>6, <2>7
<1>11. CASE ListSessions(p)
    BY <1>2, <1>11, PlainParts DEF ListSessions
<1> QED
    BY <1>3, <1>4, <1>5, <1>6, <1>7, <1>8, <1>9, <1>10, <1>11 DEF Request

-----------------------------------------------------------------------------
(* Tasks go on.                                                             *)

\* What a step leaves alone, or keeps in type.
Mild ==
    /\ Calm /\ user' \in [Users -> Accounts]
    /\ \A t \in tickets' : t.s \in Nat \cup Sockets

LEMMA MildSteps ==
    ASSUME ScriptsInv, UNCHANGED <<owner, live, announced>>,
           user' = user \/ \E x, v : v \in {"enabled", "disabled"} /\ user' = [user EXCEPT ![x] = v],
           tickets' \subseteq tickets
    PROVE Mild
<1>1. user \in [Users -> Accounts] /\ \A t \in tickets : t.s \in Nat \cup Sockets
    BY DEF ScriptsInv, DataOK
<1>2. user' \in [Users -> Accounts] /\ \A x \in Users : user'[x] = "gone" => user[x] = "gone"
    BY <1>1 DEF Accounts
<1> QED
    BY <1>1, <1>2 DEF Mild, Calm

LEMMA ReplaceMoves ==
    ASSUME ScriptsInv, NEW p \in Tasks, loop \in {Free, p}, task[p].script # <<>>,
           Head(task[p].script).do \notin Steady \cup {"before", "purge", "compare"},
           NEW sc \in Scripts, ~Has(sc, "open"), ~Has(sc, "delete"), GoOn(p, sc), Mild
    PROVE ScriptsInv' /\ Moved
<1>1. PICK n : /\ task' = [task EXCEPT ![p] = n] /\ TaskShape(n) /\ n.script = sc
               /\ n.script = <<>> \/ (n.user = task[p].user /\ n.keep = task[p].keep)
               /\ n.before \in {task[p].before, {}}
               /\ sc # <<>> => n.before = task[p].before
               /\ loop' = IF sc = <<>> \/ SlowStores \/ Head(sc).do \in Waits THEN Free ELSE p
    BY GoOnNew
<1>2. p # Sweeper
    <2>1. SweepOK(task[Sweeper].script) /\ task[p].script \in Seq(Steps)
        BY DEF ScriptsInv, ScriptsOK, TaskOK, Scripts
    <2>2. PICK old : old = task[p].script
        OBVIOUS
    <2>3. p = Sweeper => SweepOK(old)
        BY <2>1, <2>2
    <2>4. p = Sweeper => Head(old).do \in {"announce", "notify"}
        BY <2>1, <2>2, <2>3, SweepTail
    <2> QED
        BY <2>2, <2>4 DEF Steady
<1>3. ~First(sc, "open")
    <2>1. sc \in Seq(Steps)
        BY DEF Scripts
    <2>2. sc # <<>> => Head(sc) = sc[1] /\ 1 \in DOMAIN sc
        BY <2>1
    <2> QED
        BY <2>2 DEF First, Has
<1>4. Fits(p, n)
    BY <1>1, <1>2, <1>3 DEF Fits, TaskOK
<1>5. /\ n.before \subseteq task[p].before /\ owner' = owner /\ live' \subseteq live
      /\ user' \in [Users -> Accounts] /\ \A t \in tickets' : t.s \in Nat \cup Sockets
    BY <1>1 DEF Mild, Calm
<1>6. ScriptsInv'
    BY <1>1, <1>4, <1>5, FitsKeeps
<1>7. FreshMove(p, n)
    BY <1>1 DEF FreshMove, Unsure, First, Mild
<1> QED
    BY <1>6, <1>7 DEF Moved

LEMMA AbortMoves ==
    ASSUME ScriptsInv, NEW p \in Tasks, loop \in {Free, p}, task[p].script # <<>>,
           Head(task[p].script).do \notin Steady \cup {"before", "purge", "compare"}, Abort(p), Mild
    PROVE ScriptsInv' /\ Moved
<1>1. PICK sc : sc = <<>>
    OBVIOUS
<1>2. sc \in Scripts /\ ~Has(sc, "open") /\ ~Has(sc, "delete")
    BY <1>1, PlainScript, EmptyPlain
<1>3. GoOn(p, sc)
    BY <1>1 DEF Abort
<1> QED
    BY <1>2, <1>3, ReplaceMoves

LEMMA RestMoves ==
    ASSUME ScriptsInv, NEW p \in Tasks, loop \in {Free, p}, task[p].script # <<>>,
           Head(task[p].script).do \notin Steady \cup {"stamp", "before", "purge", "compare"},
           GoOn(p, Rest(p)), Mild
    PROVE ScriptsInv' /\ Moved
<1>1. PICK n : Went(p, n, <<>>) /\ n.before \subseteq task[p].before
    BY GoOnRest
<1>2. Fits(p, n)
    BY <1>1, WentFits
<1>3. /\ task' = [task EXCEPT ![p] = n] /\ owner' = owner /\ live' \subseteq live
      /\ user' \in [Users -> Accounts] /\ \A t \in tickets' : t.s \in Nat \cup Sockets
    BY <1>1 DEF Mild, Calm, Went
<1>4. ScriptsInv'
    BY <1>1, <1>2, <1>3, FitsKeeps
<1>5. FreshMove(p, n)
    BY <1>3 DEF FreshMove, Unsure, First, Mild
<1> QED
    BY <1>4, <1>5 DEF Moved

\* Steps after which the task always goes on.
LEMMA OtherMoves ==
    ASSUME ScriptsInv, NEW p \in Tasks, loop \in {Free, p}, task[p].script # <<>>,
           Head(task[p].script).do \in {"kick", "send", "notify", "scan", "forget"},
           NEW n, NEW X, Went(p, n, X), Head(task[p].script).do = "notify" => X = <<>>,
           n.before \subseteq task[p].before, Mild
    PROVE ScriptsInv' /\ Moved
<1>2. Fits(p, n)
    BY WentFits
<1>3. /\ task' = [task EXCEPT ![p] = n] /\ owner' = owner /\ live' \subseteq live
      /\ user' \in [Users -> Accounts] /\ \A t \in tickets' : t.s \in Nat \cup Sockets
    BY DEF Mild, Calm, Went
<1>4. ScriptsInv'
    BY <1>2, <1>3, FitsKeeps
<1>5. Head(task[p].script).do \in Steady \ (Enders \cup {"announce", "list"})
    BY DEF Steady, Enders
<1>6. OtherMove(p, n)
    BY <1>5 DEF OtherMove, Mild
<1> QED
    BY <1>4, <1>6 DEF Moved

LEMMA PasswordMoves ==
    ASSUME ScriptsInv, NEW p \in Tasks, PasswordStep(p)
    PROVE ScriptsInv' /\ Moved
<1> DEFINE d == Head(task[p].script).do
<1>0. \A x : x \in {"reserve", "credentials", "verify", "clear", "flag", "password"} =>
          x \notin Steady \cup {"stamp", "before", "purge", "compare"}
    BY DEF Steady, Enders
<1>1. ASSUME d \in {"reserve", "credentials", "verify", "clear", "flag", "password"},
             task[p].script # <<>>, loop \in {Free, p},
             Abort(p) \/ GoOn(p, Rest(p)), UNCHANGED <<owner, live, announced, user, tickets>>
      PROVE ScriptsInv' /\ Moved
    <2>1. Mild
        BY <1>1, MildSteps
    <2>2. d \notin Steady \cup {"stamp", "before", "purge", "compare"}
        BY <1>0, <1>1
    <2> QED
        BY <1>1, <2>1, <2>2, AbortMoves, RestMoves
<1>2. CASE Reserve(p)
    BY <1>1, <1>2 DEF Reserve, At, accounts, sessions
<1>3. CASE Verify(p)
    BY <1>1, <1>3 DEF Verify, At, accounts, sessions
<1>4. CASE ClearPending(p) \/ FlagPending(p)
    BY <1>1, <1>4 DEF ClearPending, FlagPending, UpdateAccount, At, accounts, sessions, doors
<1>5. CASE SetPassword(p)
    BY <1>1, <1>5 DEF SetPassword, At, sessions, doors
<1>6. CASE ReadCredentials(p)
    <2>0. TaskShape(task[p]) /\ task[p].script \in Seq(Steps)
        BY DEF ScriptsInv, ScriptsOK, TaskOK, Scripts
    <2>1. PICK t : t = [task[p] EXCEPT !.script = Rest(p), !.found = task[p].user \in creds]
        OBVIOUS
    <2>2. /\ t.script = Rest(p) /\ t.user = task[p].user /\ t.keep = task[p].keep
          /\ t.before = task[p].before /\ TaskShape(t)
        BY <2>0, <2>1 DEF TaskShape
    <2>3. PICK n : n = IF t.script = <<>> THEN Idle ELSE t
        OBVIOUS
    <2>4. /\ task[p].script # <<>> /\ loop \in {Free, p} /\ d = "credentials"
          /\ task' = [task EXCEPT ![p] = n]
          /\ UNCHANGED <<owner, live, announced, user, tickets>>
        BY <1>6, <2>1, <2>3 DEF ReadCredentials, At, Resume, accounts, sessions, doors
    <2>5. /\ n.script = Rest(p) /\ TaskShape(n) /\ n.before \subseteq task[p].before
          /\ n.script = <<>> \/ (n.user = task[p].user /\ n.keep = task[p].keep)
        BY <2>2, <2>3, IdleFits DEF Fits, TaskOK
    <2>6. Rest(p) = <<>> \o Tail(task[p].script)
        BY <2>0, <2>4 DEF Rest
    <2>7. Went(p, n, <<>>)
        BY <2>4, <2>5, <2>6, EmptyPlain DEF Went
    <2>8. Fits(p, n)
        BY <2>4, <2>7, WentFits
    <2>9. Mild
        BY <2>4, MildSteps
    <2>10. ScriptsInv'
        BY <2>4, <2>5, <2>8, <2>9, FitsKeeps DEF Mild
    <2>11. FreshMove(p, n)
        BY <1>0, <2>4, <2>9 DEF FreshMove, Unsure, First, Mild
    <2> QED
        BY <2>10, <2>11 DEF Moved
<1>7. CASE StampLogin(p)
    <2>1. /\ loop \in {Free, p} /\ task[p].script # <<>> /\ Head(task[p].script).do = "stamp"
          /\ UNCHANGED <<owner, live, announced, user, tickets>>
          /\ IF user[task[p].user] = "gone" THEN Abort(p) ELSE GoOn(p, Rest(p))
        BY <1>7 DEF StampLogin, UpdateAccount, At, accounts, sessions, doors
    <2>2. Mild
        BY <2>1, MildSteps
    <2>3. "stamp" \notin Steady \cup {"before", "purge", "compare"}
        BY DEF Steady, Enders
    <2>4. CASE Abort(p)
        BY <2>1, <2>2, <2>3, <2>4, AbortMoves
    <2>5. CASE ~(user[task[p].user] = "gone") /\ GoOn(p, Rest(p))
        <3>1. PICK n : /\ Went(p, n, <<>>) /\ n.script = Rest(p)
                       /\ n.before \subseteq task[p].before
                       /\ Rest(p) # <<>> => n.before = task[p].before
                       /\ loop' = IF Rest(p) = <<>> \/ SlowStores \/ Head(Rest(p)).do \in Waits THEN Free ELSE p
            BY <2>1, <2>5, GoOnRest
        <3>10. Went(p, n, <<>>)
            BY <3>1
        <3>11. /\ task' = [task EXCEPT ![p] = n] /\ TaskShape(n)
               /\ n.script = <<>> \o Tail(task[p].script)
               /\ n.script = <<>> \/ n.user = task[p].user
            BY <3>10 DEF Went
        <3>12. n.script = Rest(p) /\ (Rest(p) # <<>> => n.user = task[p].user)
            BY <3>1, <3>11
        <3>2. TaskOK(task[p]) /\ task[p].script \in Seq(Steps) /\ (p \in Sockets => ~Has(task[p].script, "open"))
              /\ SweepOK(task[Sweeper].script)
            BY DEF ScriptsInv, ScriptsOK, TaskOK, Scripts
        <3>3. PICK t : t = task[p]
            OBVIOUS
        <3>4. TaskOK(n) /\ (Has(n.script, "open") => Has(t.script, "open"))
            <4>1. PICK X : X = <<>>
                OBVIOUS
            <4>2. /\ TaskOK(t) /\ t.script # <<>> /\ X \in Seq(Steps) /\ AllSteady(X) /\ Followed(X)
                  /\ TaskShape(n) /\ n.script = X \o Tail(t.script) /\ (n.script = <<>> \/ n.user = t.user)
                BY <2>1, <3>2, <3>3, <3>11, <4>1, EmptyPlain
            <4> QED
                BY <4>1, <4>2, WentOK
        <3>5. p # Sweeper
            <4>1. PICK old : old = task[p].script
                OBVIOUS
            <4>2. p = Sweeper => SweepOK(old)
                BY <3>2, <4>1
            <4>3. p = Sweeper => Head(old).do \in {"announce", "notify"}
                BY <2>1, <3>2, <4>1, <4>2, SweepTail
            <4> QED
                BY <2>1, <4>1, <4>3
        <3>6. ~SlowStores /\ First(n.script, "open") => loop' = p /\ user'[n.user] # "gone"
            <4> SUFFICES ASSUME ~SlowStores, First(n.script, "open") PROVE loop' = p /\ user'[n.user] # "gone"
                OBVIOUS
            <4>1. Rest(p) # <<>> /\ Head(Rest(p)).do = "open" /\ n.user = task[p].user
                BY <3>12 DEF First
            <4>2. "open" \notin Waits
                BY DEF Waits
            <4>3. loop' = p
                BY <3>1, <4>1, <4>2
            <4>4. user' = user
                BY <2>1
            <4> QED
                BY <2>5, <4>1, <4>3, <4>4
        <3>7. /\ task' = [task EXCEPT ![p] = n] /\ owner' = owner
              /\ user' \in [Users -> Accounts] /\ \A k \in tickets' : k.s \in Nat \cup Sockets
              /\ owner' \in Seq(Users) /\ DOMAIN owner \subseteq DOMAIN owner' /\ live' \subseteq DOMAIN owner'
            <4>1. owner \in Seq(Users) /\ live \subseteq DOMAIN owner
                BY DEF ScriptsInv, DataOK
            <4> QED
                BY <2>1, <2>2, <3>11, <4>1 DEF Mild
        <3>8. ScriptsInv'
            BY <2>1, <3>2, <3>3, <3>4, <3>5, <3>6, <3>7, ScriptsKept
        <3>9. FreshMove(p, n)
            BY <2>1, <2>2, <2>3, <3>7 DEF FreshMove, Unsure, First, Mild
        <3> QED
            BY <3>8, <3>9 DEF Moved
    <2> QED
        BY <2>1, <2>4, <2>5
<1> QED
    BY <1>2, <1>3, <1>4, <1>5, <1>6, <1>7 DEF PasswordStep

\* Requests that look a session up, touch it or issue a ticket for it.
LEMMA LookMoves ==
    ASSUME ScriptsInv, NEW p \in Tasks,
           FindSession(p) \/ FindUser(p) \/ TouchSession(p) \/ IssueTicketStep(p) \/ LookUp(p)
    PROVE ScriptsInv' /\ Moved
<1> DEFINE d == Head(task[p].script).do
<1>0. \A x : x \in {"session", "user", "touch", "issue", "lookup"} =>
          x \notin Steady \cup {"stamp", "before", "purge", "compare"}
    BY DEF Steady, Enders
<1>1. ASSUME d \in {"session", "user", "touch", "issue", "lookup"},
             task[p].script # <<>>, loop \in {Free, p}, Abort(p) \/ GoOn(p, Rest(p)), Mild
      PROVE ScriptsInv' /\ Moved
    <2>2. d \notin Steady \cup {"stamp", "before", "purge", "compare"}
        BY <1>0, <1>1
    <2> QED
        BY <1>1, <2>2, AbortMoves, RestMoves
<1>2. CASE FindUser(p) \/ TouchSession(p) \/ LookUp(p)
    <2>1. UNCHANGED <<owner, live, announced, user, tickets>>
        BY <1>2 DEF FindUser, TouchSession, LookUp, accounts, sessions, doors
    <2>2. Mild
        BY <2>1, MildSteps
    <2> QED
        BY <1>1, <1>2, <2>2 DEF FindUser, TouchSession, LookUp, At
<1>3. CASE IssueTicketStep(p)
    <2>1. /\ loop \in {Free, p} /\ task[p].script # <<>> /\ d = "issue" /\ GoOn(p, Rest(p))
          /\ UNCHANGED <<owner, live, announced, user>>
          /\ tickets' = tickets \cup {[id |-> issued + 1, s |-> Arg(p)]}
        BY <1>3 DEF IssueTicketStep, At, accounts, sessions
    <2>2. task[p].script \in Seq(Steps) /\ user \in [Users -> Accounts] /\ \A t \in tickets : t.s \in Nat \cup Sockets
        BY DEF ScriptsInv, ScriptsOK, TaskOK, Scripts, DataOK
    <2>3. Head(task[p].script) \in Steps
        BY <2>1, <2>2
    <2>4. Arg(p) \in Nat \cup Sockets
        BY <2>3 DEF Arg, Steps
    <2>5. \A t \in tickets' : t.s \in Nat \cup Sockets
        BY <2>1, <2>2, <2>4
    <2>6. Mild
        BY <2>1, <2>2, <2>5 DEF Mild, Calm
    <2> QED
        BY <1>1, <2>1, <2>6
<1>4. CASE FindSession(p)
    <2>1. /\ loop \in {Free, p} /\ task[p].script # <<>> /\ d = "session"
          /\ UNCHANGED <<owner, live, announced, user, tickets>>
          /\ \/ Abort(p) \/ GoOn(p, Rest(p))
             \/ GoOn(p, <<StepOn("expire", Arg(p)), StepOn("announce", Arg(p))>>)
        BY <1>4 DEF FindSession, At, accounts, sessions, doors
    <2>2. Mild
        BY <2>1, MildSteps
    <2>3. CASE Abort(p) \/ GoOn(p, Rest(p))
        BY <1>1, <2>1, <2>2, <2>3
    <2>4. CASE GoOn(p, <<StepOn("expire", Arg(p)), StepOn("announce", Arg(p))>>)
        <3>1. task[p].script \in Seq(Steps)
            BY DEF ScriptsInv, ScriptsOK, TaskOK, Scripts
        <3>2. Head(task[p].script) \in Steps
            BY <2>1, <3>1
        <3>3. PICK s \in Nat \cup Sockets : s = Arg(p)
            BY <3>2 DEF Arg, Steps
        <3>4. PICK sc : sc = <<StepOn("expire", s), StepOn("announce", s)>>
            OBVIOUS
        <3>5. sc \in Scripts /\ ~Has(sc, "open") /\ ~Has(sc, "delete")
            BY <3>4, EndScripts
        <3>6. GoOn(p, sc)
            BY <2>4, <3>3, <3>4
        <3>7. d \notin Steady \cup {"before", "purge", "compare"}
            BY <1>0, <2>1
        <3> QED
            BY <2>1, <2>2, <3>5, <3>6, <3>7, ReplaceMoves
    <2> QED
        BY <2>1, <2>3, <2>4
<1> QED
    BY <1>2, <1>3, <1>4

LEMMA OpenMoves ==
    ASSUME ScriptsInv, NEW p \in Tasks, OpenSession(p)
    PROVE ScriptsInv' /\ (~SlowStores => Moved)
<1>1. /\ loop \in {Free, p} /\ task[p].script # <<>> /\ Head(task[p].script).do = "open"
      /\ owner' = Append(owner, task[p].user) /\ live' = live \cup {Len(owner) + 1}
      /\ GoOn(p, Rest(p)) /\ UNCHANGED <<user, announced, tickets>>
    BY DEF OpenSession, At, accounts, doors
<1>2. /\ user \in [Users -> Accounts] /\ owner \in Seq(Users) /\ live \subseteq DOMAIN owner
      /\ \A t \in tickets : t.s \in Nat \cup Sockets
      /\ task[Sweeper].before \subseteq DOMAIN owner
    BY DEF ScriptsInv, DataOK
<1>3. task[p].user \in Users /\ (~SlowStores => user[task[p].user] # "gone")
    <2>1. TaskOK(task[p]) /\ task[p].script \in Seq(Steps) /\ First(task[p].script, "open")
        BY <1>1 DEF ScriptsInv, ScriptsOK, TaskOK, Scripts, First
    <2>2. Head(task[p].script) = task[p].script[1] /\ 1 \in DOMAIN task[p].script
        BY <1>1, <2>1
    <2>3. Has(task[p].script, "open")
        BY <1>1, <2>2 DEF Has
    <2> QED
        BY <2>1, <2>3 DEF TaskOK, ScriptsInv, LoopOK
<1>4. PICK n : Went(p, n, <<>>) /\ n.before \subseteq task[p].before
    BY <1>1, GoOnRest
<1>5. Fits(p, n)
    BY <1>1, <1>4, WentFits
<1>6. task' = [task EXCEPT ![p] = n]
    BY <1>4 DEF Went
<1>7. PICK u \in Users : u = task[p].user
    BY <1>3
<1>8. /\ owner' \in Seq(Users) /\ DOMAIN owner' = 1..(Len(owner) + 1) /\ DOMAIN owner = 1..Len(owner)
      /\ Len(owner) \in Nat
    BY <1>1, <1>2, <1>7
<1>9. DOMAIN owner \subseteq DOMAIN owner' /\ live' \subseteq DOMAIN owner'
    BY <1>1, <1>2, <1>8
<1>10. /\ user' \in [Users -> Accounts] /\ \A t \in tickets' : t.s \in Nat \cup Sockets
       /\ p = Sweeper => n.before \subseteq DOMAIN owner'
    BY <1>1, <1>2, <1>4, <1>9
<1>11. /\ TaskOK(n) /\ (p \in Sockets => ~Has(n.script, "open")) /\ ~First(n.script, "open")
       /\ p = Sweeper => SweepOK(n.script) /\ ~First(n.script, "purge")
    BY <1>5 DEF Fits
<1>12. ScriptsInv'
    BY <1>1, <1>6, <1>8, <1>9, <1>10, <1>11, ScriptsKept
<1>13. ~SlowStores => OpenMove(p, n)
    <2>1. "open" \notin Steady
        BY DEF Steady, Enders
    <2> QED
        BY <1>1, <1>3, <1>6, <1>7, <2>1 DEF OpenMove, Unsure, First
<1> QED
    BY <1>12, <1>13 DEF Moved

LEMMA EndMoves ==
    ASSUME ScriptsInv, NEW p \in Tasks, LogoutStep(p) \/ RevokeStep(p) \/ ExpireStep(p)
    PROVE ScriptsInv' /\ Moved
<1>1. /\ loop \in {Free, p} /\ task[p].script # <<>> /\ Head(task[p].script).do \in {"logout", "revoke", "expire"}
      /\ live' = live \ {Head(task[p].script).arg} /\ tickets' \subseteq tickets
      /\ GoOn(p, Rest(p)) /\ UNCHANGED <<user, owner, announced>>
    BY DEF LogoutStep, RevokeStep, ExpireStep, EndSession, At, Arg, accounts, doors
<1>2. PICK n : Went(p, n, <<>>) /\ n.before \subseteq task[p].before
    BY <1>1, GoOnRest
<1>3. Fits(p, n)
    BY <1>1, <1>2, WentFits
<1>4. user \in [Users -> Accounts] /\ \A t \in tickets : t.s \in Nat \cup Sockets
    BY DEF ScriptsInv, DataOK
<1>5. /\ task' = [task EXCEPT ![p] = n] /\ owner' = owner /\ live' \subseteq live
      /\ user' \in [Users -> Accounts] /\ \A t \in tickets' : t.s \in Nat \cup Sockets
    BY <1>1, <1>2, <1>4 DEF Went
<1>6. ScriptsInv'
    BY <1>1, <1>2, <1>3, <1>5, FitsKeeps
<1>7. EndMove(p, n)
    BY <1>1, <1>2 DEF EndMove, Enders
<1> QED
    BY <1>6, <1>7 DEF Moved

LEMMA AnnounceMoves ==
    ASSUME ScriptsInv, NEW p \in Tasks, Announce(p)
    PROVE ScriptsInv' /\ Moved
<1>1. /\ loop \in {Free, p} /\ task[p].script # <<>> /\ Head(task[p].script).do = "announce"
      /\ announced' = announced \cup {Head(task[p].script).arg}
      /\ GoOn(p, Rest(p)) /\ UNCHANGED <<user, owner, live, tickets>>
    BY DEF Announce, At, Arg, accounts, sessions, doors
<1>2. PICK n : Went(p, n, <<>>) /\ n.before \subseteq task[p].before
    BY <1>1, GoOnRest
<1>3. Fits(p, n)
    BY <1>1, <1>2, WentFits
<1>4. user \in [Users -> Accounts] /\ \A t \in tickets : t.s \in Nat \cup Sockets
    BY DEF ScriptsInv, DataOK
<1>5. /\ task' = [task EXCEPT ![p] = n] /\ owner' = owner /\ live' \subseteq live
      /\ user' \in [Users -> Accounts] /\ \A t \in tickets' : t.s \in Nat \cup Sockets
    BY <1>1, <1>2, <1>4 DEF Went
<1>6. ScriptsInv'
    BY <1>1, <1>2, <1>3, <1>5, FitsKeeps
<1>7. AnnounceMove(p, n)
    BY <1>1, <1>2 DEF AnnounceMove
<1> QED
    BY <1>6, <1>7 DEF Moved

\* One step for each member of a list.
LEMMA EachOK ==
    ASSUME NEW d \in {"send", "scan", "announce"}, NEW q \in Seq(Nat \cup Sockets), NEW X,
           X = [i \in DOMAIN q |-> StepOn(d, q[i])]
    PROVE /\ X \in Seq(Steps) /\ X \in Seq(PlainSteps) /\ AllSteady(X) /\ Followed(X)
          /\ DOMAIN X = DOMAIN q /\ \A i \in DOMAIN q : X[i] = StepOn(d, q[i]) /\ X[i].do = d
<1>1. d \in StepNames /\ d \in Steady /\ d \notin Enders \cup {"open", "delete"}
    BY DEF StepNames, Steady, Enders
<1>2. Len(q) \in Nat /\ DOMAIN q = 1..Len(q) /\ \A i \in DOMAIN q : q[i] \in Nat \cup Sockets
    OBVIOUS
<1>3. \A x \in Nat \cup Sockets : StepOn(d, x) \in PlainSteps /\ StepOn(d, x).do = d
    BY <1>1 DEF PlainSteps, Steps, StepOn
<1>4. DOMAIN X = DOMAIN q
    OBVIOUS
<1>5. \A i \in DOMAIN q : X[i] = StepOn(d, q[i]) /\ X[i] \in PlainSteps /\ X[i].do = d
    BY <1>2, <1>3
<1>6. X \in Seq(PlainSteps)
    BY <1>2, <1>4, <1>5
<1>7. X \in Seq(Steps)
    BY <1>6 DEF PlainSteps
<1>8. AllSteady(X) /\ Followed(X)
    BY <1>1, <1>4, <1>5 DEF AllSteady, Followed, Tells, Kicks
<1> QED
    BY <1>4, <1>5, <1>6, <1>7, <1>8

LEMMA FiniteSessions ==
    ASSUME ScriptsInv, NEW S, S \subseteq DOMAIN owner
    PROVE S \in SUBSET Nat /\ IsFiniteSet(S)
<1>1. PICK N \in Nat : DOMAIN owner = 1..N
    BY DEF ScriptsInv, DataOK
<1>2. IsFiniteSet(1..N)
    BY FS_Interval
<1>3. S \in SUBSET (1..N)
    BY <1>1
<1> QED
    BY <1>2, <1>3, FS_Subset

LEMMA KickMoves ==
    ASSUME ScriptsInv, NEW p \in Tasks, Kick(p)
    PROVE ScriptsInv' /\ Moved
<1>1. /\ loop \in {Free, p} /\ task[p].script # <<>> /\ Head(task[p].script).do = "kick"
      /\ UNCHANGED <<owner, live, announced, user, tickets>>
    BY DEF Kick, At, accounts, sessions, doors
<1>2. PICK q \in SetToSeqs(SocketsOf(owner[Arg(p)])) :
          GoOn(p, [i \in DOMAIN q |-> StepOn("send", q[i])] \o Rest(p))
    BY DEF Kick
<1>3. PICK S : S = SocketsOf(owner[Arg(p)])
    OBVIOUS
<1>4. S \in SUBSET Sockets /\ IsFiniteSet(Sockets)
    BY <1>3, TasksAssumption DEF SocketsOf
<1>5. Cardinality(S) \in Nat
    BY <1>4, FS_Subset, FS_CardinalityType
<1>6. q \in [1..Cardinality(S) -> S]
    BY <1>2, <1>3 DEF SetToSeqs
<1>7. q \in Seq(Nat \cup Sockets)
    BY <1>4, <1>5, <1>6
<1>8. PICK X : X = [i \in DOMAIN q |-> StepOn("send", q[i])]
    OBVIOUS
<1>9. X \in Seq(Steps) /\ AllSteady(X) /\ Followed(X)
    BY <1>7, <1>8, EachOK
<1>10. GoOn(p, X \o Rest(p))
    BY <1>2, <1>8
<1>11. PICK n : Went(p, n, X) /\ n.before \subseteq task[p].before
    BY <1>1, <1>9, <1>10, GoOnWent
<1>12. Mild
    BY <1>1, MildSteps
<1> QED
    BY <1>1, <1>11, <1>12, OtherMoves

LEMMA SendMoves ==
    ASSUME ScriptsInv, NEW p \in Tasks, SendKick(p)
    PROVE ScriptsInv' /\ Moved
<1>1. /\ loop \in {Free, p} /\ task[p].script # <<>> /\ Head(task[p].script).do = "send"
      /\ task' = [task EXCEPT ![p].script = Rest(p)]
      /\ UNCHANGED <<owner, live, announced, user, tickets>>
    BY DEF SendKick, At, accounts, sessions, doors
<1>2. TaskShape(task[p]) /\ task[p].script \in Seq(Steps)
    BY DEF ScriptsInv, ScriptsOK, TaskOK, Scripts
<1>3. PICK n : n = [task[p] EXCEPT !.script = Rest(p)]
    OBVIOUS
<1>4. /\ n.script = Rest(p) /\ n.user = task[p].user /\ n.keep = task[p].keep
      /\ n.before = task[p].before /\ TaskShape(n)
    BY <1>2, <1>3 DEF TaskShape
<1>5. task' = [task EXCEPT ![p] = n]
    BY <1>1, <1>3
<1>6. Rest(p) = <<>> \o Tail(task[p].script)
    BY <1>1, <1>2 DEF Rest
<1>7. Went(p, n, <<>>) /\ n.before \subseteq task[p].before
    BY <1>4, <1>5, <1>6, EmptyPlain DEF Went
<1>8. Mild
    BY <1>1, MildSteps
<1> QED
    BY <1>1, <1>7, <1>8, OtherMoves

LEMMA NotifyMoves ==
    ASSUME ScriptsInv, NEW p \in Tasks, Notify(p) \/ Forget(p)
    PROVE ScriptsInv' /\ Moved
<1>1. /\ loop \in {Free, p} /\ task[p].script # <<>> /\ Head(task[p].script).do \in {"notify", "forget"}
      /\ GoOn(p, Rest(p)) /\ UNCHANGED <<owner, live, announced, user, tickets>>
    BY DEF Notify, Forget, At, accounts, sessions, doors
<1>2. PICK n : Went(p, n, <<>>) /\ n.before \subseteq task[p].before
    BY <1>1, GoOnRest
<1>3. Mild
    BY <1>1, MildSteps
<1> QED
    BY <1>1, <1>2, <1>3, OtherMoves

LEMMA ListMoves ==
    ASSUME ScriptsInv, NEW p \in Tasks, ListToRevoke(p)
    PROVE ScriptsInv' /\ Moved
<1> DEFINE mine == {s \in live : owner[s] = task[p].user /\ s # task[p].keep}
<1>1. /\ loop \in {Free, p} /\ task[p].script # <<>> /\ Head(task[p].script).do = "list"
      /\ UNCHANGED <<owner, live, announced, user, tickets>>
      /\ GoOn(p, RevokeEach(InOrder(mine)) \o Rest(p))
    BY DEF ListToRevoke, At, accounts, sessions, doors
<1>2. PICK S : S = mine
    OBVIOUS
<1>3. S \subseteq DOMAIN owner
    BY <1>2 DEF ScriptsInv, DataOK
<1>4. S \in SUBSET Nat /\ IsFiniteSet(S)
    BY <1>3, FiniteSessions
<1>5. PICK order : order = InOrder(S)
    OBVIOUS
<1>6. \A x \in S : \E i \in DOMAIN order : order[i] = x
    BY <1>4, <1>5, InOrderLists
<1>7. order \in Seq(Nat)
    BY <1>4, <1>5, InOrderLists
<1>8. PICK X : X = RevokeEach(order)
    OBVIOUS
<1>9. /\ X \in Seq(Steps) /\ AllSteady(X) /\ Followed(X)
      /\ \A a \in DOMAIN order : \E i \in DOMAIN X : X[i] = StepOn("revoke", order[a])
    BY <1>7, <1>8, RevokeEachOK
<1>10. GoOn(p, X \o Rest(p))
    BY <1>1, <1>2, <1>5, <1>8
<1>11. PICK n : Went(p, n, X) /\ n.before \subseteq task[p].before
    BY <1>1, <1>9, <1>10, GoOnWent
<1>12. Mild
    BY <1>1, MildSteps
<1>13. Fits(p, n)
    BY <1>1, <1>11, WentFits
<1>14. task' = [task EXCEPT ![p] = n]
    BY <1>11 DEF Went
<1>15. ScriptsInv'
    BY <1>1, <1>11, <1>12, <1>13, <1>14, FitsKeeps DEF Mild, Calm
<1>16. \A s \in S : \E i \in DOMAIN X : X[i] = StepOn("revoke", s)
    BY <1>6, <1>9
<1>17. \A s \in live : owner[s] = task[p].user /\ s # task[p].keep =>
          \E i \in DOMAIN X : X[i] = StepOn("revoke", s)
    BY <1>2, <1>16
<1>18. ListMove(p, n)
    BY <1>1, <1>11, <1>12, <1>17 DEF ListMove, Mild
<1> QED
    BY <1>15, <1>18 DEF Moved

LEMMA ScanMoves ==
    ASSUME ScriptsInv, NEW p \in Tasks, ListAll(p) \/ ScanSession(p)
    PROVE ScriptsInv' /\ Moved
<1>1. CASE ListAll(p)
    <2>1. /\ loop \in {Free, p} /\ task[p].script # <<>> /\ Head(task[p].script).do = "all"
          /\ UNCHANGED <<owner, live, announced, user, tickets>>
          /\ GoOn(p, [i \in DOMAIN InOrder(live) |-> StepOn("scan", InOrder(live)[i])])
        BY <1>1 DEF ListAll, At, accounts, sessions, doors
    <2>2. PICK S : S = live
        OBVIOUS
    <2>3. S \in SUBSET Nat /\ IsFiniteSet(S)
        BY <2>2, FiniteSessions DEF ScriptsInv, DataOK
    <2>4. PICK order : order = InOrder(S)
        OBVIOUS
    <2>6. order \in Seq(Nat \cup Sockets)
        BY <2>3, <2>4, InOrderLists
    <2>7. PICK sc : sc = [i \in DOMAIN order |-> StepOn("scan", order[i])]
        OBVIOUS
    <2>8. sc \in Seq(PlainSteps)
        BY <2>6, <2>7, EachOK
    <2>9. sc \in Scripts /\ ~Has(sc, "open") /\ ~Has(sc, "delete")
        BY <2>8, PlainScript
    <2>10. GoOn(p, sc)
        BY <2>1, <2>2, <2>4, <2>7
    <2>11. Mild
        BY <2>1, MildSteps
    <2>12. "all" \notin Steady \cup {"before", "purge", "compare"}
        BY DEF Steady, Enders
    <2> QED
        BY <2>1, <2>9, <2>10, <2>11, <2>12, ReplaceMoves
<1>2. CASE ScanSession(p)
    <2>1. /\ loop \in {Free, p} /\ task[p].script # <<>> /\ Head(task[p].script).do = "scan"
          /\ UNCHANGED <<owner, live, announced, user, tickets>>
          /\ \/ GoOn(p, Rest(p))
             \/ GoOn(p, <<StepOn("expire", Arg(p)), StepOn("announce", Arg(p))>> \o Rest(p))
        BY <1>2 DEF ScanSession, At, accounts, sessions, doors
    <2>2. Mild
        BY <2>1, MildSteps
    <2>3. CASE GoOn(p, Rest(p))
        <3>1. PICK n : Went(p, n, <<>>) /\ n.before \subseteq task[p].before
            BY <2>1, <2>3, GoOnRest
        <3> QED
            BY <2>1, <2>2, <3>1, OtherMoves
    <2>4. CASE GoOn(p, <<StepOn("expire", Arg(p)), StepOn("announce", Arg(p))>> \o Rest(p))
        <3>1. task[p].script \in Seq(Steps)
            BY DEF ScriptsInv, ScriptsOK, TaskOK, Scripts
        <3>2. Head(task[p].script) \in Steps
            BY <2>1, <3>1
        <3>3. PICK s \in Nat \cup Sockets : s = Arg(p)
            BY <3>2 DEF Arg, Steps
        <3>4. PICK X : X = <<StepOn("expire", s), StepOn("announce", s)>>
            OBVIOUS
        <3>5. X \in Seq(Steps) /\ AllSteady(X) /\ Followed(X)
            BY <3>4, EndScripts
        <3>6. GoOn(p, X \o Rest(p))
            BY <2>4, <3>3, <3>4
        <3>7. PICK n : Went(p, n, X) /\ n.before \subseteq task[p].before
            BY <2>1, <3>5, <3>6, GoOnWent
        <3> QED
            BY <2>1, <2>2, <3>7, OtherMoves
    <2> QED
        BY <2>1, <2>3, <2>4
<1> QED
    BY <1>1, <1>2

LEMMA AccountMoves ==
    ASSUME ScriptsInv, NEW p \in Tasks,
           SetDisabled(p, "disable", "disabled") \/ SetDisabled(p, "enable", "enabled")
    PROVE ScriptsInv' /\ Moved
<1>1. /\ loop \in {Free, p} /\ task[p].script # <<>> /\ Head(task[p].script).do \in {"disable", "enable"}
      /\ UNCHANGED <<owner, live, announced, tickets>>
      /\ Abort(p) \/ GoOn(p, Rest(p))
      /\ user' = user \/ \E x, v : v \in {"enabled", "disabled"} /\ user' = [user EXCEPT ![x] = v]
    BY DEF SetDisabled, At, sessions, doors
<1>2. Mild
    BY <1>1, MildSteps
<1>3. Head(task[p].script).do \notin Steady \cup {"stamp", "before", "purge", "compare"}
    BY <1>1 DEF Steady, Enders
<1> QED
    BY <1>1, <1>2, <1>3, AbortMoves, RestMoves

LEMMA DeleteMoves ==
    ASSUME ScriptsInv, NEW p \in Tasks, RemoveUser(p)
    PROVE ScriptsInv' /\ Moved
<1>1. /\ loop \in {Free, p} /\ task[p].script # <<>> /\ Head(task[p].script).do = "delete"
      /\ user' = [user EXCEPT ![task[p].user] = "gone"] /\ GoOn(p, Rest(p))
      /\ UNCHANGED <<owner, live, announced, tickets>>
    BY DEF RemoveUser, At, sessions, doors
<1>2. PICK n : Went(p, n, <<>>) /\ n.before \subseteq task[p].before
    BY <1>1, GoOnRest
<1>3. Fits(p, n)
    BY <1>1, <1>2, WentFits
<1>4. TaskOK(task[p]) /\ task[p].script \in Seq(Steps)
    BY DEF ScriptsInv, ScriptsOK, TaskOK, Scripts
<1>5. Head(task[p].script) = task[p].script[1] /\ 1 \in DOMAIN task[p].script
    BY <1>1, <1>4
<1>6. task[p].script = Deletion /\ task[p].keep = 0
    BY <1>1, <1>4, <1>5 DEF TaskOK, Has
<1>7. /\ task' = [task EXCEPT ![p] = n] /\ n.script = <<>> \o Tail(task[p].script)
      /\ n.script = <<>> \/ (n.user = task[p].user /\ n.keep = task[p].keep)
    BY <1>2 DEF Went
<1>8. PICK f, l, m : f = Step("forget") /\ l = Step("list") /\ m = Step("notify")
    OBVIOUS
<1>9. f \in Steps /\ l \in Steps /\ m \in Steps /\ f.do = "forget" /\ l.do = "list"
    BY <1>8 DEF Step, Steps, StepNames
<1>10. PICK sc : sc = <<f, l, m, m>>
    OBVIOUS
<1>11. n.script = sc
    BY <1>6, <1>7, <1>8, <1>10 DEF Deletion
<1>12. DOMAIN sc = 1..4 /\ sc[1] = f /\ sc[2] = l /\ sc # <<>>
    BY <1>10
<1>13. Lists(sc)
    <2>1. Sure(sc, 2)
        BY <1>9, <1>12 DEF Sure, Steady
    <2> QED
        BY <1>9, <1>12, <2>1 DEF Lists
<1>14. /\ user' \in [Users -> Accounts] /\ \A t \in tickets' : t.s \in Nat \cup Sockets
       /\ owner' = owner /\ live' \subseteq live
    BY <1>1 DEF ScriptsInv, DataOK, Accounts
<1>15. ScriptsInv'
    BY <1>1, <1>2, <1>3, <1>7, <1>14, FitsKeeps
<1>16. n.keep = 0 /\ n.user = task[p].user
    BY <1>6, <1>7, <1>11, <1>12
<1>17. DeleteMove(p, n)
    <2>1. "delete" \notin Steady
        BY DEF Steady, Enders
    <2> QED
        BY <1>1, <1>7, <1>11, <1>13, <1>16, <2>1 DEF DeleteMove, Unsure, First
<1> QED
    BY <1>15, <1>17 DEF Moved

\* The scripts of the sweep's own three steps.
LEMMA SweepScripts ==
    ASSUME NEW sc \in Seq(Steps), SweepOK(sc), sc # <<>>
    PROVE /\ Head(sc).do = "before" => sc = <<Step("before"), Step("purge"), Step("compare")>>
          /\ Head(sc).do = "purge" => sc = <<Step("purge"), Step("compare")>>
          /\ Head(sc).do = "compare" => sc = <<Step("compare")>>
<1>1. Head(sc) = sc[1] /\ 1 \in DOMAIN sc
    OBVIOUS
<1>2. CASE sc = <<Step("before"), Step("purge"), Step("compare")>>
    BY <1>2 DEF Step
<1>3. CASE sc = <<Step("purge"), Step("compare")>>
    BY <1>3 DEF Step
<1>4. CASE sc = <<Step("compare")>>
    BY <1>4 DEF Step
<1>5. CASE \A i \in DOMAIN sc : sc[i].do \in {"announce", "notify"}
    BY <1>1, <1>5
<1> QED
    BY <1>2, <1>3, <1>4, <1>5 DEF SweepOK

LEMMA SweepParts ==
    /\ \A sc \in {<<Step("before"), Step("purge"), Step("compare")>>, <<Step("purge"), Step("compare")>>,
                  <<Step("compare")>>} :
           sc \in Seq(PlainSteps) /\ SweepOK(sc) /\ sc # <<>>
    /\ ~First(<<Step("before"), Step("purge"), Step("compare")>>, "purge")
    /\ ~First(<<Step("compare")>>, "purge") /\ First(<<Step("compare")>>, "compare")
    /\ First(<<Step("purge"), Step("compare")>>, "purge")
    /\ Tail(<<Step("before"), Step("purge"), Step("compare")>>) = <<Step("purge"), Step("compare")>>
    /\ Tail(<<Step("purge"), Step("compare")>>) = <<Step("compare")>>
<1>1. Step("before") \in PlainSteps /\ Step("purge") \in PlainSteps /\ Step("compare") \in PlainSteps
    BY PlainOnes
<1>2. Step("before").do = "before" /\ Step("purge").do = "purge" /\ Step("compare").do = "compare"
    BY DEF Step
<1>3. PICK a, b, c : a = Step("before") /\ b = Step("purge") /\ c = Step("compare")
    OBVIOUS
<1>4. \A sc \in {<<a, b, c>>, <<b, c>>, <<c>>} : sc \in Seq(PlainSteps) /\ sc # <<>>
    <2>1. <<a, b, c>> \in Seq(PlainSteps) /\ <<b, c>> \in Seq(PlainSteps) /\ <<c>> \in Seq(PlainSteps)
        BY <1>1, <1>3, PlainTuples
    <2>2. <<a, b, c>> # <<>> /\ <<b, c>> # <<>> /\ <<c>> # <<>>
        OBVIOUS
    <2> QED
        BY <2>1, <2>2, Zenon
<1>5. \A sc \in {<<a, b, c>>, <<b, c>>, <<c>>} : SweepOK(sc)
    BY <1>3 DEF SweepOK
<1>6. Head(<<a, b, c>>) = a /\ Head(<<b, c>>) = b /\ Head(<<c>>) = c
    OBVIOUS
<1>7. Tail(<<a, b, c>>) = <<b, c>> /\ Tail(<<b, c>>) = <<c>>
    OBVIOUS
<1>8. ~First(<<a, b, c>>, "purge") /\ ~First(<<c>>, "purge") /\ First(<<c>>, "compare") /\ First(<<b, c>>, "purge")
    BY <1>2, <1>3, <1>4, <1>6 DEF First
<1> QED
    BY <1>3, <1>4, <1>5, <1>7, <1>8

LEMMA SweepStarts ==
    ASSUME ScriptsInv, Sweep
    PROVE ScriptsInv' /\ Moved
<1>0. Sweeper \in Tasks /\ Sweeper \notin Sockets
    BY TasksAssumption DEF Tasks
<1>1. PICK sc : sc = <<Step("before"), Step("purge"), Step("compare")>>
    OBVIOUS
<1>2. sc \in Seq(PlainSteps) /\ SweepOK(sc) /\ sc # <<>> /\ ~First(sc, "purge")
    BY <1>1, SweepParts
<1>3. sc \in Scripts /\ ~Has(sc, "open") /\ ~Has(sc, "delete") /\ ~First(sc, "open")
    BY <1>2, PlainScript
<1>4. PICK n : n = [Idle EXCEPT !.script = sc, !.user = Free, !.snap = "gone", !.keep = 0]
    OBVIOUS
<1>5. n.script = sc /\ n.before = {} /\ TaskShape(n)
    BY <1>4 DEF Idle, TaskShape
<1>6. /\ task[Sweeper] = Idle /\ loop = Free /\ task' = [task EXCEPT ![Sweeper] = n]
      /\ UNCHANGED <<user, owner, live, tickets, announced>>
    BY <1>1, <1>2, <1>4, <1>5 DEF Sweep, Start, Resume, accounts, sessions, doors
<1>7. Fits(Sweeper, n)
    BY <1>0, <1>2, <1>3, <1>5 DEF Fits, TaskOK
<1>8. Mild
    BY <1>6, MildSteps
<1>9. PICK p \in Tasks : p = Sweeper
    BY <1>0
<1>10. /\ task' = [task EXCEPT ![p] = n] /\ Fits(p, n) /\ n.before \subseteq task[p].before
       /\ loop \in {Free, p} /\ owner' = owner /\ live' \subseteq live
       /\ user' \in [Users -> Accounts] /\ \A t \in tickets' : t.s \in Nat \cup Sockets
    BY <1>5, <1>6, <1>7, <1>8, <1>9 DEF Mild
<1>11. ScriptsInv'
    BY <1>10, FitsKeeps
<1>12. FreshMove(p, n)
    BY <1>6, <1>8, <1>9, IdleFits DEF FreshMove, Unsure, First, Mild
<1> QED
    BY <1>11, <1>12 DEF Moved

LEMMA BeforeMoves ==
    ASSUME ScriptsInv, SweepBefore
    PROVE ScriptsInv' /\ Moved
<1>0. PICK p \in Tasks : p = Sweeper /\ p \notin Sockets
    BY TasksAssumption DEF Tasks
<1>1. /\ loop \in {Free, p} /\ task[p].script # <<>> /\ Head(task[p].script).do = "before"
      /\ UNCHANGED <<owner, live, announced, user, tickets>>
    BY <1>0 DEF SweepBefore, At, accounts, sessions, doors
<1>2. TaskShape(task[p]) /\ task[p].script \in Seq(Steps) /\ SweepOK(task[p].script)
    BY <1>0 DEF ScriptsInv, ScriptsOK, TaskOK, Scripts
<1>3. PICK old : old = task[p].script
    OBVIOUS
<1>4. old = <<Step("before"), Step("purge"), Step("compare")>>
    BY <1>1, <1>2, <1>3, SweepScripts
<1>5. PICK sc : sc = <<Step("purge"), Step("compare")>>
    OBVIOUS
<1>6. /\ Rest(p) = sc /\ sc \in Seq(PlainSteps) /\ SweepOK(sc) /\ sc # <<>> /\ First(sc, "purge")
    BY <1>3, <1>4, <1>5, SweepParts DEF Rest
<1>7. sc \in Scripts /\ ~Has(sc, "open") /\ ~Has(sc, "delete") /\ ~First(sc, "open")
    BY <1>6, PlainScript
<1>8. PICK n : n = [task[p] EXCEPT !.script = Rest(p), !.before = live]
    OBVIOUS
<1>9. n.script = sc /\ n.before = live /\ TaskShape(n)
    BY <1>2, <1>6, <1>8 DEF TaskShape
<1>10. task' = [task EXCEPT ![p] = n] /\ (~SlowStores => loop' = p)
    <2>1. Resume(p, n)
        BY <1>0, <1>8 DEF SweepBefore
    <2>2. Head(n.script).do = "purge" /\ n.script # <<>>
        BY <1>6, <1>9 DEF First
    <2>3. "purge" \notin Waits
        BY DEF Waits
    <2> QED
        BY <2>1, <2>2, <2>3 DEF Resume
<1>11. TaskOK(n) /\ ~First(n.script, "open") /\ SweepOK(n.script)
    BY <1>6, <1>7, <1>9 DEF TaskOK
<1>12. Mild
    BY <1>1, MildSteps
<1>13. /\ owner' \in Seq(Users) /\ DOMAIN owner \subseteq DOMAIN owner' /\ live' \subseteq DOMAIN owner'
       /\ n.before \subseteq DOMAIN owner' /\ live' \subseteq n.before
    BY <1>1, <1>9 DEF ScriptsInv, DataOK
<1>14. user' \in [Users -> Accounts] /\ \A t \in tickets' : t.s \in Nat \cup Sockets
    BY <1>12 DEF Mild
<1>15. ScriptsInv'
    BY <1>0, <1>1, <1>10, <1>11, <1>13, <1>14, ScriptsKept
<1>16. FreshMove(p, n)
    <2>1. "before" \notin Steady
        BY DEF Steady, Enders
    <2> QED
        BY <1>1, <1>10, <1>12, <2>1 DEF FreshMove, Unsure, First, Mild
<1> QED
    BY <1>15, <1>16 DEF Moved

LEMMA PurgeMoves ==
    ASSUME ScriptsInv, SweepPurge
    PROVE ScriptsInv' /\ (~SlowStores => Moved)
<1>0. PICK p \in Tasks : p = Sweeper /\ p \notin Sockets
    BY TasksAssumption DEF Tasks
<1>1. /\ loop \in {Free, p} /\ task[p].script # <<>> /\ Head(task[p].script).do = "purge"
      /\ live' \subseteq live /\ GoOn(p, Rest(p))
      /\ UNCHANGED <<owner, announced, user, tickets>>
    BY <1>0 DEF SweepPurge, At, accounts, sessions, doors
<1>2. task[p].script \in Seq(Steps) /\ SweepOK(task[p].script)
    BY <1>0 DEF ScriptsInv, ScriptsOK, TaskOK, Scripts
<1>3. PICK old : old = task[p].script
    OBVIOUS
<1>4. old = <<Step("purge"), Step("compare")>>
    BY <1>1, <1>2, <1>3, SweepScripts
<1>5. PICK sc : sc = <<Step("compare")>>
    OBVIOUS
<1>6. /\ Rest(p) = sc /\ sc \in Seq(PlainSteps) /\ SweepOK(sc) /\ sc # <<>>
      /\ First(sc, "compare") /\ ~First(sc, "purge")
    BY <1>3, <1>4, <1>5, SweepParts DEF Rest
<1>7. sc \in Scripts /\ ~Has(sc, "open") /\ ~Has(sc, "delete") /\ ~First(sc, "open")
    BY <1>6, PlainScript
<1>8. PICK n : /\ Went(p, n, <<>>) /\ n.script = Rest(p)
               /\ n.before \subseteq task[p].before
               /\ Rest(p) # <<>> => n.before = task[p].before
               /\ loop' = IF Rest(p) = <<>> \/ SlowStores \/ Head(Rest(p)).do \in Waits THEN Free ELSE p
    BY <1>1, GoOnRest
<1>9. n.script = sc /\ n.before = task[p].before /\ Went(p, n, <<>>)
    BY <1>6, <1>8
<1>10. task' = [task EXCEPT ![p] = n] /\ TaskShape(n)
    BY <1>9 DEF Went
<1>11. Fits(p, n)
    BY <1>0, <1>6, <1>7, <1>9, <1>10 DEF Fits, TaskOK
<1>12. /\ user' \in [Users -> Accounts] /\ \A t \in tickets' : t.s \in Nat \cup Sockets
       /\ owner' = owner /\ n.before \subseteq task[p].before
    BY <1>1, <1>9 DEF ScriptsInv, DataOK
<1>13. ScriptsInv'
    BY <1>1, <1>10, <1>11, <1>12, FitsKeeps
<1>14. ~SlowStores => live \subseteq n.before
    <2>1. First(task[Sweeper].script, "purge")
        BY <1>0, <1>1 DEF First
    <2> QED
        BY <1>0, <1>9, <2>1 DEF ScriptsInv, LoopOK
<1>15. ~SlowStores => PurgeMove(n)
    <2>1. "purge" \notin Steady
        BY DEF Steady, Enders
    <2>2. Unsure(p) /\ ~First(task[p].script, "compare")
        BY <1>1, <2>1 DEF Unsure, First
    <2> QED
        BY <1>0, <1>1, <1>6, <1>9, <1>10, <1>14, <2>2 DEF PurgeMove
<1> QED
    BY <1>13, <1>15 DEF Moved

LEMMA CompareMoves ==
    ASSUME ScriptsInv, SweepCompare
    PROVE ScriptsInv' /\ Moved
<1>0. PICK p \in Tasks : p = Sweeper /\ p \notin Sockets
    BY TasksAssumption DEF Tasks
<1>1. /\ loop \in {Free, p} /\ task[p].script # <<>> /\ Head(task[p].script).do = "compare"
      /\ GoOn(p, [i \in DOMAIN InOrder(task[p].before \ live) |->
                      StepOn("announce", InOrder(task[p].before \ live)[i])] \o <<Step("notify")>>)
      /\ UNCHANGED <<owner, live, announced, user, tickets>>
    BY <1>0 DEF SweepCompare, At, accounts, sessions, doors
<1>2. PICK S : S = task[p].before \ live
    OBVIOUS
<1>3. S \subseteq DOMAIN owner
    BY <1>0, <1>2 DEF ScriptsInv, DataOK
<1>4. S \in SUBSET Nat /\ IsFiniteSet(S)
    BY <1>3, FiniteSessions
<1>5. PICK order : order = InOrder(S)
    OBVIOUS
<1>6. /\ order \in Seq(Nat \cup Sockets)
      /\ \A x \in S : \E i \in DOMAIN order : order[i] = x
    BY <1>4, <1>5, InOrderLists
<1>7. PICK X : X = [i \in DOMAIN order |-> StepOn("announce", order[i])]
    OBVIOUS
<1>8. /\ X \in Seq(PlainSteps) /\ DOMAIN X = DOMAIN order
      /\ \A i \in DOMAIN order : X[i] = StepOn("announce", order[i]) /\ X[i].do = "announce"
    BY <1>6, <1>7, EachOK
<1>9. PICK m : m = Step("notify")
    OBVIOUS
<1>10. m \in PlainSteps /\ m.do = "notify"
    BY <1>9, PlainOnes DEF Step
<1>11. PICK sc : sc = X \o <<m>>
    OBVIOUS
<1>12. /\ sc \in Seq(PlainSteps) /\ Len(X) \in Nat /\ DOMAIN X = 1..Len(X) /\ DOMAIN sc = 1..(Len(X) + 1)
       /\ \A i \in 1..Len(X) : sc[i] = X[i]
       /\ sc[Len(X) + 1] = m
    BY <1>8, <1>10, <1>11
<1>13. \A i \in DOMAIN sc : sc[i].do \in {"announce", "notify"}
    <2>1. \A i \in DOMAIN sc : i \in 1..Len(X) \/ i = Len(X) + 1
        BY <1>12
    <2> QED
        BY <1>8, <1>10, <1>12, <2>1
<1>14. SweepOK(sc) /\ ~First(sc, "purge")
    <2>1. sc # <<>> => Head(sc) = sc[1] /\ 1 \in DOMAIN sc
        BY <1>12
    <2> QED
        BY <1>13, <2>1 DEF SweepOK, First
<1>15. sc \in Scripts /\ ~Has(sc, "open") /\ ~Has(sc, "delete") /\ ~First(sc, "open")
    BY <1>12, PlainScript
<1>16. GoOn(p, sc)
    BY <1>1, <1>2, <1>5, <1>7, <1>9, <1>11
<1>17. PICK n : /\ task' = [task EXCEPT ![p] = n] /\ TaskShape(n) /\ n.script = sc
                /\ n.script = <<>> \/ (n.user = task[p].user /\ n.keep = task[p].keep)
                /\ n.before \in {task[p].before, {}}
                /\ sc # <<>> => n.before = task[p].before
                /\ loop' = IF sc = <<>> \/ SlowStores \/ Head(sc).do \in Waits THEN Free ELSE p
    BY <1>16, GoOnNew
<1>18. Fits(p, n)
    BY <1>0, <1>14, <1>15, <1>17 DEF Fits, TaskOK
<1>19. /\ user' \in [Users -> Accounts] /\ \A t \in tickets' : t.s \in Nat \cup Sockets
       /\ owner' = owner /\ live' \subseteq live /\ n.before \subseteq task[p].before
    BY <1>1, <1>17 DEF ScriptsInv, DataOK
<1>20. ScriptsInv'
    BY <1>1, <1>17, <1>18, <1>19, FitsKeeps
<1>21. ASSUME NEW s \in S PROVE Says(sc, "announce", s)
    <2>1. PICK i \in DOMAIN order : order[i] = s
        BY <1>6
    <2>2. i \in DOMAIN sc /\ sc[i] = StepOn("announce", s)
        BY <1>8, <1>12, <2>1
    <2>3. \A k \in 1..i : k \in DOMAIN sc
        BY <1>12, <2>2
    <2>4. Sure(sc, i)
        BY <1>13, <2>2, <2>3 DEF Sure, Steady
    <2> QED
        BY <2>2, <2>4 DEF Says
<1>22. CompareMove(n)
    <2>1. "compare" \notin Steady
        BY DEF Steady, Enders
    <2>2. Unsure(p)
        BY <1>1, <2>1 DEF Unsure
    <2> QED
        BY <1>0, <1>1, <1>2, <1>17, <1>21, <2>2 DEF CompareMove
<1> QED
    BY <1>20, <1>22 DEF Moved

LEMMA SocketMoves ==
    ASSUME ScriptsInv, NEW w \in Sockets, Connect(w) \/ Bind(w) \/ AcceptFails(w)
    PROVE ScriptsInv' /\ Moved
<1>0. w \in Tasks /\ w # Sweeper
    BY TasksAssumption DEF Tasks
<1>1. CASE Connect(w)
    <2>1. PICK k \in tickets : /\ tickets' = tickets \ {k}
                               /\ Resume(w, [Idle EXCEPT !.user = owner[k.s], !.snap = "enabled",
                                             !.script = <<StepOn("session", k.s), StepOn("user", k.s),
                                                          StepOn("bind", k.s)>>])
        BY <1>1, Zenon DEF Connect
    <2>17. /\ task[w] = Idle /\ loop = Free
           /\ UNCHANGED <<accounts, sessions, issued, lock, sockets, announced, owed>>
        BY <1>1, Zenon DEF Connect
    <2>2. task[w] = Idle /\ loop = Free /\ UNCHANGED <<user, owner, live, announced>>
        BY <2>17 DEF accounts, sessions
    <2>3. PICK s \in Nat \cup Sockets : s = k.s
        BY DEF ScriptsInv, DataOK
    <2>4. PICK sc : sc = <<StepOn("session", s), StepOn("user", s), StepOn("bind", s)>>
        OBVIOUS
    <2>5. sc \in Seq(PlainSteps)
        BY <2>4, PlainParts
    <2>6. sc # <<>>
        BY <2>4
    <2>7. sc \in Scripts /\ ~Has(sc, "open") /\ ~Has(sc, "delete") /\ ~First(sc, "open")
        BY <2>5, PlainScript
    <2>8. PICK n : n = [Idle EXCEPT !.user = owner[s], !.snap = "enabled", !.script = sc]
        OBVIOUS
    <2>9. n.script = sc /\ n.before = {} /\ TaskShape(n)
        BY <2>8 DEF Idle, TaskShape
    <2>10. Resume(w, n)
        BY <2>1, <2>3, <2>4, <2>8
    <2>11. task' = [task EXCEPT ![w] = n]
        BY <2>6, <2>9, <2>10 DEF Resume
    <2>12. Fits(w, n)
        BY <1>0, <2>7, <2>9 DEF Fits, TaskOK
    <2>13. Mild
        BY <2>1, <2>2, MildSteps
    <2>14. /\ n.before \subseteq task[w].before /\ loop \in {Free, w} /\ owner' = owner /\ live' \subseteq live
           /\ user' \in [Users -> Accounts] /\ \A t \in tickets' : t.s \in Nat \cup Sockets
        BY <2>2, <2>9, <2>13 DEF Mild
    <2>15. ScriptsInv'
        BY <1>0, <2>11, <2>12, <2>14, FitsKeeps
    <2>16. FreshMove(w, n)
        BY <2>2, <2>11, <2>13, IdleFits DEF FreshMove, Unsure, First, Mild
    <2> QED
        BY <1>0, <2>15, <2>16 DEF Moved
<1>2. CASE Bind(w) \/ AcceptFails(w)
    <2>1. /\ loop \in {Free, w} /\ task[w].script # <<>> /\ Head(task[w].script).do = "bind"
          /\ UNCHANGED <<owner, live, announced, user, tickets>>
          /\ Abort(w) \/ GoOn(w, Rest(w))
        BY <1>2 DEF Bind, AcceptFails, At, accounts, sessions, doors
    <2>2. Mild
        BY <2>1, MildSteps
    <2>3. Head(task[w].script).do \notin Steady \cup {"stamp", "before", "purge", "compare"}
        BY <2>1 DEF Steady, Enders
    <2> QED
        BY <1>0, <2>1, <2>2, <2>3, AbortMoves, RestMoves
<1> QED
    BY <1>1, <1>2

\* Clients that leave, checks of the sockets and the passing of time touch no task.
LEMMA StillMoves ==
    ASSUME ScriptsInv,
           \/ \E w \in Sockets : Leave(w) \/ CheckStep(w)
           \/ Passing
           \/ UNCHANGED vars
    PROVE ScriptsInv' /\ Moved
<1>1. /\ UNCHANGED <<task, owner, live, announced, user>> /\ tickets' \subseteq tickets
      /\ loop' = loop \/ loop = Free \/ \E w \in Sockets : loop = w
    BY DEF Leave, CheckStep, CheckSession, CheckUser, Passing, SessionExpires, TicketExpires,
       LockExpires, vars, accounts, sessions, doors
<1>2. Mild
    BY <1>1, MildSteps
<1>3. DataOK' /\ ScriptsOK'
    BY <1>1 DEF ScriptsInv, DataOK, ScriptsOK
<1>4. Sweeper \notin Sockets /\ Sweeper # Free /\ \A p \in Tasks : p # Free
    BY TasksAssumption DEF Tasks
<1>5. ASSUME ~SlowStores, NEW p \in Tasks, First(task[p].script, "open") PROVE loop' = p /\ user[task[p].user] # "gone"
    <2>1. loop = p /\ user[task[p].user] # "gone"
        BY <1>5 DEF ScriptsInv, LoopOK
    <2>2. p \notin Sockets
        <3>1. task[p].script \in Seq(Steps) /\ \A w \in Sockets : ~Has(task[w].script, "open")
            BY DEF ScriptsInv, ScriptsOK, TaskOK, Scripts
        <3>2. Head(task[p].script) = task[p].script[1] /\ 1 \in DOMAIN task[p].script
            BY <1>5, <3>1 DEF First
        <3> QED
            BY <1>5, <3>1, <3>2 DEF First, Has
    <2> QED
        BY <1>1, <1>4, <2>1, <2>2
<1>6. ~SlowStores /\ First(task[Sweeper].script, "purge") => loop' = Sweeper /\ live \subseteq task[Sweeper].before
    BY <1>1, <1>4 DEF ScriptsInv, LoopOK
<1>7. LoopOK'
    BY <1>1, <1>5, <1>6 DEF LoopOK
<1>8. StillMove
    BY <1>1, <1>2 DEF StillMove, Mild
<1> QED
    BY <1>3, <1>7, <1>8 DEF ScriptsInv, Moved

\* Every step is of one of the kinds and keeps the scripts in shape.
LEMMA ScriptsStep ==
    ASSUME ScriptsInv, [Next]_vars
    PROVE ScriptsInv' /\ (~SlowStores => Moved)
<1>1. ASSUME NEW p \in Tasks, TaskStep(p) PROVE ScriptsInv' /\ (~SlowStores => Moved)
    <2>1. CASE PasswordStep(p)
        BY <2>1, PasswordMoves
    <2>2. CASE SessionStep(p)
        <3>1. CASE FindSession(p) \/ FindUser(p) \/ TouchSession(p) \/ IssueTicketStep(p) \/ LookUp(p)
            BY <3>1, LookMoves
        <3>2. CASE LogoutStep(p) \/ RevokeStep(p) \/ ExpireStep(p)
            BY <3>2, EndMoves
        <3> QED
            BY <2>2, <3>1, <3>2, OpenMoves, AnnounceMoves, KickMoves, SendMoves, NotifyMoves, ListMoves,
               ScanMoves DEF SessionStep
    <2>3. CASE AccountStep(p)
        BY <2>3, AccountMoves, DeleteMoves, NotifyMoves DEF AccountStep
    <2> QED
        BY <1>1, <2>1, <2>2, <2>3 DEF TaskStep
<1>2. CASE Sweep \/ SweepStep
    BY <1>2, SweepStarts, BeforeMoves, PurgeMoves, CompareMoves DEF SweepStep
<1>3. CASE \E w \in Sockets : SocketStep(w) \/ CheckStep(w)
    BY <1>3, SocketMoves, StillMoves DEF SocketStep
<1>4. CASE Passing \/ UNCHANGED vars
    BY <1>4, StillMoves
<1>5. CASE \E p \in Requests : Request(p)
    BY <1>5, RequestMoves
<1> QED
    BY <1>1, <1>2, <1>3, <1>4, <1>5 DEF Next

-----------------------------------------------------------------------------
(* Ends are announced, and deleted users lose their sessions.               *)

LEMMA TaskFunction ==
    ASSUME ScriptsInv, NEW p \in Tasks, NEW n, task' = [task EXCEPT ![p] = n]
    PROVE task'[p] = n /\ \A q \in Tasks : q # p => task'[q] = task[q]
<1>1. task = [q \in Tasks |-> task[q]]
    BY DEF ScriptsInv, ScriptsOK
<1> QED
    BY <1>1

\* A task of which nothing is sure takes nothing sure away.
LEMMA UnsureTask ==
    ASSUME ScriptsInv, NEW p \in Tasks, Unsure(p)
    PROVE ~Lists(task[p].script) /\ \A d, s : ~Says(task[p].script, d, s)
<1>1. PICK sc : sc = task[p].script
    OBVIOUS
<1>2. sc \in Seq(Steps) /\ (sc = <<>> \/ Head(sc).do \notin Steady)
    BY <1>1 DEF ScriptsInv, ScriptsOK, TaskOK, Scripts, Unsure
<1>3. ~Lists(sc) /\ \A d, s : ~Says(sc, d, s)
    BY <1>2, NothingSure
<1> QED
    BY <1>1, <1>3

LEMMA UnsureKeeps ==
    ASSUME ScriptsInv, NEW p \in Tasks, NEW n, task' = [task EXCEPT ![p] = n], Unsure(p)
    PROVE /\ \A s : Told(s) /\ announced' = announced /\ ~First(task[p].script, "compare") => Told(s)'
          /\ \A s : Doomed(s) /\ owner'[s] = owner[s] => Doomed(s)'
<1>1. task'[p] = n /\ \A q \in Tasks : q # p => task'[q] = task[q]
    BY TaskFunction
<1>2. ~Lists(task[p].script) /\ \A d, s : ~Says(task[p].script, d, s)
    BY UnsureTask
<1>3. Sweeper \in Tasks
    BY DEF Tasks
<1>4. ASSUME NEW s, Told(s), announced' = announced, ~First(task[p].script, "compare") PROVE Told(s)'
    BY <1>1, <1>2, <1>3, <1>4 DEF Told
<1>5. ASSUME NEW s, Doomed(s), owner'[s] = owner[s] PROVE Doomed(s)'
    BY <1>1, <1>2, <1>5 DEF Doomed
<1> QED
    BY <1>4, <1>5

LEMMA WentTask ==
    ASSUME ScriptsInv, NEW p \in Tasks, task[p].script # <<>>, NEW n, NEW X, Went(p, n, X)
    PROVE /\ \A d, s : Says(task[p].script, d, s) /\ Head(task[p].script) # StepOn(d, s) =>
                Says(n.script, d, s)
          /\ Lists(task[p].script) /\ Head(task[p].script).do # "list" => Lists(n.script)
          /\ \A i \in DOMAIN X : X[i] = StepOn(X[i].do, X[i].arg) => Says(n.script, X[i].do, X[i].arg)
<1>1. PICK sc : sc = task[p].script
    OBVIOUS
<1>2. PICK new : new = n.script
    OBVIOUS
<1>3. /\ sc \in Seq(Steps) /\ sc # <<>> /\ X \in Seq(Steps) /\ AllSteady(X) /\ new = X \o Tail(sc)
    BY <1>1, <1>2 DEF ScriptsInv, ScriptsOK, TaskOK, Scripts, Went
<1>4. /\ \A d, s : Says(sc, d, s) /\ Head(sc) # StepOn(d, s) => Says(new, d, s)
      /\ Lists(sc) /\ Head(sc).do # "list" => Lists(new)
      /\ \A i \in DOMAIN X : X[i] = StepOn(X[i].do, X[i].arg) => Says(new, X[i].do, X[i].arg)
    BY <1>3, SureShift
<1> QED
    BY <1>1, <1>2, <1>4

LEMMA WentKeeps ==
    ASSUME ScriptsInv, NEW p \in Tasks, task[p].script # <<>>, Head(task[p].script).do \in Steady,
           NEW n, NEW X, Went(p, n, X)
    PROVE /\ \A s : /\ Told(s) /\ announced \subseteq announced'
                    /\ Head(task[p].script) = StepOn("announce", s) => s \in announced'
                    => Told(s)'
          /\ \A s : /\ Doomed(s) /\ owner'[s] = owner[s] /\ Head(task[p].script) # StepOn("revoke", s)
                    /\ Head(task[p].script).do # "list"
                    => Doomed(s)'
<1>0. task' = [task EXCEPT ![p] = n] /\ (n.script = <<>> \/ (n.user = task[p].user /\ n.keep = task[p].keep))
    BY DEF Went
<1>1. task'[p] = n /\ \A q \in Tasks : q # p => task'[q] = task[q]
    BY <1>0, TaskFunction
<1>2. Sweeper \in Tasks
    BY DEF Tasks
<1>3. ~First(task[p].script, "compare")
    BY DEF First, Steady, Enders
<1>4. /\ \A d, s : Says(task[p].script, d, s) /\ Head(task[p].script) # StepOn(d, s) => Says(n.script, d, s)
      /\ Lists(task[p].script) /\ Head(task[p].script).do # "list" => Lists(n.script)
    BY WentTask
<1>5. ASSUME NEW s, Told(s), announced \subseteq announced',
             Head(task[p].script) = StepOn("announce", s) => s \in announced'
      PROVE Told(s)'
    <2>1. CASE s \in announced
        BY <1>5, <2>1 DEF Told
    <2>2. CASE First(task[Sweeper].script, "compare") /\ s \in task[Sweeper].before
        BY <1>1, <1>2, <1>3, <2>2 DEF Told
    <2>3. CASE \E q \in Tasks : Says(task[q].script, "announce", s)
        BY <1>1, <1>4, <1>5, <2>3 DEF Told
    <2> QED
        BY <1>5, <2>1, <2>2, <2>3 DEF Told
<1>6. ASSUME NEW s, Doomed(s), owner'[s] = owner[s], Head(task[p].script) # StepOn("revoke", s),
             Head(task[p].script).do # "list"
      PROVE Doomed(s)'
    <2>1. CASE \E q \in Tasks : Says(task[q].script, "revoke", s)
        BY <1>1, <1>4, <1>6, <2>1 DEF Doomed
    <2>2. CASE \E q \in Tasks : Lists(task[q].script) /\ task[q].user = owner[s] /\ task[q].keep # s
        <3>1. Lists(n.script) => n.script # <<>>
            BY DEF Lists
        <3> QED
            BY <1>0, <1>1, <1>4, <1>6, <2>2, <3>1 DEF Doomed
    <2> QED
        BY <1>6, <2>1, <2>2 DEF Doomed
<1> QED
    BY <1>5, <1>6

LEMMA HeadStep ==
    ASSUME ScriptsInv, NEW p \in Tasks, task[p].script # <<>>, NEW d, NEW s
    PROVE Head(task[p].script) = StepOn(d, s) <=>
              Head(task[p].script).do = d /\ Head(task[p].script).arg = s
<1>1. task[p].script \in Seq(Steps)
    BY DEF ScriptsInv, ScriptsOK, TaskOK, Scripts
<1>2. Head(task[p].script) \in Steps
    BY <1>1
<1> QED
    BY <1>2 DEF Steps, StepOn

\* What ends a session is then sure to announce its end.
LEMMA EnderTells ==
    ASSUME ScriptsInv, NEW p \in Tasks, NEW n, EndMove(p, n)
    PROVE Says(n.script, "announce", Head(task[p].script).arg)
<1>1. PICK sc : sc = task[p].script
    OBVIOUS
<1>2. PICK new : new = n.script
    OBVIOUS
<1>3. /\ sc \in Seq(Steps) /\ Followed(sc) /\ sc # <<>> /\ Head(sc).do \in Enders
      /\ Went(p, n, <<>>)
    BY <1>1 DEF ScriptsInv, ScriptsOK, TaskOK, Scripts, EndMove
<1>4. PICK s : s = Head(sc).arg
    OBVIOUS
<1>5. Head(sc) = sc[1] /\ 1 \in DOMAIN sc
    BY <1>3
<1>6. PICK j \in DOMAIN sc : /\ j > 1 /\ sc[j] = StepOn("announce", sc[1].arg)
                             /\ \A k \in 1..j : sc[k].do \in Steady
    BY <1>3, <1>5 DEF Followed, Tells
<1>7. Says(sc, "announce", s)
    BY <1>4, <1>5, <1>6 DEF Says, Sure
<1>8. Head(sc) # StepOn("announce", s)
    BY <1>3 DEF StepOn, Enders
<1>9. Says(n.script, "announce", s)
    BY <1>1, <1>3, <1>7, <1>8, WentTask
<1> QED
    BY <1>1, <1>4, <1>9

LEMMA AnnounceStep ==
    ASSUME ScriptsInv, AnnounceInv, Moved
    PROVE AnnounceInv'
<1>1. ASSUME NEW p \in Tasks, NEW n,
             FreshMove(p, n) \/ DeleteMove(p, n)
      PROVE AnnounceInv'
    <2>1. /\ task' = [task EXCEPT ![p] = n] /\ Unsure(p) /\ ~First(task[p].script, "compare")
          /\ UNCHANGED <<owner, live, announced>>
        BY <1>1 DEF FreshMove, DeleteMove, Calm
    <2>2. \A s : Told(s) => Told(s)'
        BY <2>1, UnsureKeeps
    <2> QED
        BY <2>1, <2>2 DEF AnnounceInv
<1>2. ASSUME NEW p \in Tasks, NEW n, OpenMove(p, n) PROVE AnnounceInv'
    <2>1. /\ task' = [task EXCEPT ![p] = n] /\ Unsure(p) /\ ~First(task[p].script, "compare")
          /\ live' = live \cup {Len(owner) + 1} /\ announced' = announced
        BY <1>2 DEF OpenMove
    <2>2. PICK u \in Users : owner' = Append(owner, u)
        BY <1>2 DEF OpenMove
    <2>3. owner \in Seq(Users)
        BY DEF ScriptsInv, DataOK
    <2>4. DOMAIN owner' \ live' \subseteq DOMAIN owner \ live
        <3>1. DOMAIN owner' = 1..(Len(owner) + 1) /\ DOMAIN owner = 1..Len(owner) /\ Len(owner) \in Nat
            BY <2>2, <2>3
        <3> QED
            BY <2>1, <3>1
    <2>5. \A s : Told(s) => Told(s)'
        BY <2>1, UnsureKeeps
    <2> QED
        BY <2>4, <2>5 DEF AnnounceInv
<1>3. ASSUME NEW p \in Tasks, NEW n, OtherMove(p, n) \/ ListMove(p, n) PROVE AnnounceInv'
    <2>1. PICK X : Went(p, n, X)
        BY <1>3 DEF OtherMove, ListMove
    <2>2. /\ task[p].script # <<>> /\ Head(task[p].script).do \in Steady
          /\ Head(task[p].script).do # "announce" /\ UNCHANGED <<owner, live, announced>>
        BY <1>3 DEF OtherMove, ListMove, Calm, Steady
    <2>3. \A s : Head(task[p].script) # StepOn("announce", s)
        BY <2>2, HeadStep
    <2>4. \A s : Told(s) => Told(s)'
        BY <2>1, <2>2, <2>3, WentKeeps
    <2> QED
        BY <2>2, <2>4 DEF AnnounceInv
<1>4. ASSUME NEW p \in Tasks, NEW n, AnnounceMove(p, n) PROVE AnnounceInv'
    <2>1. /\ task[p].script # <<>> /\ Head(task[p].script).do \in Steady /\ Went(p, n, <<>>)
          /\ announced' = announced \cup {Head(task[p].script).arg} /\ UNCHANGED <<owner, live>>
        BY <1>4 DEF AnnounceMove, Steady
    <2>3. \A s : Head(task[p].script) = StepOn("announce", s) => s \in announced'
        BY <2>1, HeadStep
    <2>4. \A s : Told(s) => Told(s)'
        BY <2>1, <2>3, WentKeeps
    <2> QED
        BY <2>1, <2>4 DEF AnnounceInv
<1>5. ASSUME NEW p \in Tasks, NEW n, EndMove(p, n) PROVE AnnounceInv'
    <2>1. /\ task[p].script # <<>> /\ Head(task[p].script).do \in Steady /\ Went(p, n, <<>>)
          /\ Head(task[p].script).do # "announce"
          /\ live' = live \ {Head(task[p].script).arg} /\ UNCHANGED <<owner, announced>>
        BY <1>5 DEF EndMove, Steady, Enders
    <2>3. \A s : Head(task[p].script) # StepOn("announce", s)
        BY <2>1, HeadStep
    <2>4. \A s : Told(s) => Told(s)'
        BY <2>1, <2>3, WentKeeps
    <2>5. PICK s : s = Head(task[p].script).arg
        OBVIOUS
    <2>6. Says(n.script, "announce", s)
        BY <1>5, <2>5, EnderTells
    <2>7. task'[p] = n
        BY <2>1, TaskFunction DEF Went
    <2>8. Told(s)'
        BY <2>6, <2>7 DEF Told
    <2> QED
        BY <2>1, <2>4, <2>5, <2>8 DEF AnnounceInv
<1>6. ASSUME NEW n, PurgeMove(n) PROVE AnnounceInv'
    <2>0. PICK p \in Tasks : p = Sweeper
        BY DEF Tasks
    <2>1. /\ task' = [task EXCEPT ![p] = n] /\ Unsure(p) /\ ~First(task[p].script, "compare")
          /\ First(n.script, "compare") /\ live \subseteq n.before /\ UNCHANGED <<owner, announced>>
        BY <1>6, <2>0 DEF PurgeMove
    <2>2. \A s : Told(s) => Told(s)'
        BY <2>1, UnsureKeeps
    <2>3. task'[Sweeper] = n
        BY <2>0, <2>1, TaskFunction
    <2>4. \A s \in live : Told(s)'
        BY <2>1, <2>3 DEF Told
    <2> QED
        BY <2>1, <2>2, <2>4 DEF AnnounceInv
<1>7. ASSUME NEW n, CompareMove(n) PROVE AnnounceInv'
    <2>0. PICK p \in Tasks : p = Sweeper
        BY DEF Tasks
    <2>1. /\ task' = [task EXCEPT ![p] = n] /\ Unsure(p)
          /\ \A s \in task[p].before \ live : Says(n.script, "announce", s)
          /\ UNCHANGED <<owner, live, announced>>
        BY <1>7, <2>0 DEF CompareMove
    <2>2. task'[p] = n /\ \A q \in Tasks : q # p => task'[q] = task[q]
        BY <2>1, TaskFunction
    <2>3. \A d, s : ~Says(task[p].script, d, s)
        BY <2>1, UnsureTask
    <2>4. ASSUME NEW s, s \notin live, Told(s) PROVE Told(s)'
        BY <2>0, <2>1, <2>2, <2>3, <2>4 DEF Told
    <2> QED
        BY <2>1, <2>4 DEF AnnounceInv
<1>8. CASE StillMove
    BY <1>8 DEF StillMove, Calm, AnnounceInv, Told
<1> QED
    BY <1>1, <1>2, <1>3, <1>4, <1>5, <1>6, <1>7, <1>8 DEF Moved

LEMMA RevokeStepInv ==
    ASSUME ScriptsInv, RevokeInv, Moved
    PROVE RevokeInv'
<1>0. /\ owner \in Seq(Users) /\ live \subseteq DOMAIN owner /\ user \in [Users -> Accounts]
      /\ \A s \in live : owner[s] \in Users
    BY DEF ScriptsInv, DataOK
<1>1. ASSUME NEW p \in Tasks, NEW n, FreshMove(p, n) PROVE RevokeInv'
    <2>1. task' = [task EXCEPT ![p] = n] /\ Unsure(p) /\ Calm
        BY <1>1 DEF FreshMove
    <2>2. \A s : Doomed(s) /\ owner'[s] = owner[s] => Doomed(s)'
        BY <2>1, UnsureKeeps
    <2> QED
        BY <1>0, <2>1, <2>2 DEF RevokeInv, Calm
<1>2. ASSUME NEW p \in Tasks, NEW n, DeleteMove(p, n) PROVE RevokeInv'
    <2>1. /\ task' = [task EXCEPT ![p] = n] /\ Unsure(p) /\ Lists(n.script) /\ n.keep = 0
          /\ user' = [user EXCEPT ![n.user] = "gone"] /\ UNCHANGED <<owner, live>>
        BY <1>2 DEF DeleteMove
    <2>2. \A s : Doomed(s) /\ owner'[s] = owner[s] => Doomed(s)'
        BY <2>1, UnsureKeeps
    <2>3. task'[p] = n
        BY <2>1, TaskFunction
    <2>4. ASSUME NEW s \in live, owner[s] = n.user PROVE Doomed(s)'
        <3>1. s # 0
            BY <1>0
        <3> QED
            BY <2>1, <2>3, <2>4, <3>1 DEF Doomed
    <2>5. ASSUME NEW s \in live, owner[s] # n.user, user'[owner[s]] = "gone" PROVE user[owner[s]] = "gone"
        BY <1>0, <2>1, <2>5
    <2> QED
        BY <2>1, <2>2, <2>4, <2>5 DEF RevokeInv
<1>3. ASSUME NEW p \in Tasks, NEW n, OpenMove(p, n) PROVE RevokeInv'
    <2>1. /\ task' = [task EXCEPT ![p] = n] /\ Unsure(p) /\ user' = user
          /\ live' = live \cup {Len(owner) + 1}
        BY <1>3 DEF OpenMove
    <2>2. PICK u \in Users : owner' = Append(owner, u) /\ user[u] # "gone"
        BY <1>3 DEF OpenMove
    <2>3. /\ \A s \in live : owner'[s] = owner[s]
          /\ owner'[Len(owner) + 1] = u
        BY <1>0, <2>2
    <2>4. \A s : Doomed(s) /\ owner'[s] = owner[s] => Doomed(s)'
        BY <2>1, UnsureKeeps
    <2>5. ASSUME NEW s \in live', user'[owner'[s]] = "gone" PROVE Doomed(s)'
        <3>1. s \in live
            BY <2>1, <2>2, <2>3, <2>5
        <3> QED
            BY <2>1, <2>3, <2>4, <2>5, <3>1 DEF RevokeInv
    <2> QED
        BY <2>5 DEF RevokeInv
<1>4. ASSUME NEW p \in Tasks, NEW n, OtherMove(p, n) \/ AnnounceMove(p, n) PROVE RevokeInv'
    <2>1. PICK X : Went(p, n, X)
        BY <1>4 DEF OtherMove, AnnounceMove
    <2>2. /\ task[p].script # <<>> /\ Head(task[p].script).do \in Steady
          /\ Head(task[p].script).do # "revoke" /\ Head(task[p].script).do # "list"
          /\ UNCHANGED <<owner, live>> /\ \A x \in Users : user'[x] = "gone" => user[x] = "gone"
        BY <1>4 DEF OtherMove, AnnounceMove, Calm, Steady, Enders
    <2>3. \A s : Head(task[p].script) # StepOn("revoke", s)
        BY <2>2, HeadStep
    <2>4. \A s : Doomed(s) => Doomed(s)'
        BY <2>1, <2>2, <2>3, WentKeeps
    <2> QED
        BY <1>0, <2>2, <2>4 DEF RevokeInv
<1>5. ASSUME NEW p \in Tasks, NEW n, EndMove(p, n) PROVE RevokeInv'
    <2>1. /\ task[p].script # <<>> /\ Head(task[p].script).do \in Steady /\ Went(p, n, <<>>)
          /\ Head(task[p].script).do # "list"
          /\ live' = live \ {Head(task[p].script).arg} /\ UNCHANGED <<owner, user>>
        BY <1>5 DEF EndMove, Steady, Enders
    <2>2. \A s \in live' : Head(task[p].script) # StepOn("revoke", s)
        BY <2>1, HeadStep
    <2>3. \A s \in live' : Doomed(s) => Doomed(s)'
        BY <2>1, <2>2, WentKeeps
    <2> QED
        BY <2>1, <2>3 DEF RevokeInv
<1>6. ASSUME NEW p \in Tasks, NEW n, ListMove(p, n) PROVE RevokeInv'
    <2>1. PICK X : /\ Went(p, n, X)
                   /\ \A s \in live : owner[s] = task[p].user /\ s # task[p].keep =>
                          \E i \in DOMAIN X : X[i] = StepOn("revoke", s)
        BY <1>6 DEF ListMove
    <2>2. task[p].script # <<>> /\ Head(task[p].script).do = "list" /\ Calm
        BY <1>6 DEF ListMove
    <2>3. task'[p] = n /\ \A q \in Tasks : q # p => task'[q] = task[q]
        BY <2>1, TaskFunction DEF Went
    <2>4. \A d, s : Says(task[p].script, d, s) /\ Head(task[p].script) # StepOn(d, s) => Says(n.script, d, s)
        BY <2>1, <2>2, WentTask
    <2>5. \A i \in DOMAIN X : X[i] = StepOn(X[i].do, X[i].arg) => Says(n.script, X[i].do, X[i].arg)
        BY <2>1, <2>2, WentTask
    <2>6. ASSUME NEW s \in live, Doomed(s) PROVE Doomed(s)'
        <3>1. CASE \E q \in Tasks : q # p /\ (\/ Says(task[q].script, "revoke", s)
                                              \/ Lists(task[q].script) /\ task[q].user = owner[s]
                                                 /\ task[q].keep # s)
            BY <2>2, <2>3, <3>1 DEF Doomed, Calm
        <3>2. CASE Says(task[p].script, "revoke", s)
            <4>1. Head(task[p].script) # StepOn("revoke", s)
                BY <2>2, HeadStep
            <4>2. Says(n.script, "revoke", s)
                BY <2>4, <3>2, <4>1
            <4> QED
                BY <2>3, <4>2 DEF Doomed
        <3>3. CASE task[p].user = owner[s] /\ task[p].keep # s
            <4>1. PICK i \in DOMAIN X : X[i] = StepOn("revoke", s)
                BY <2>1, <3>3
            <4>2. X[i].do = "revoke" /\ X[i].arg = s
                BY <4>1 DEF StepOn
            <4>3. Says(n.script, "revoke", s)
                BY <2>5, <4>1, <4>2
            <4> QED
                BY <2>3, <4>3 DEF Doomed
        <3> QED
            BY <2>6, <3>1, <3>2, <3>3 DEF Doomed
    <2> QED
        BY <1>0, <2>2, <2>6 DEF RevokeInv, Calm
<1>7. ASSUME NEW n, PurgeMove(n) \/ CompareMove(n) PROVE RevokeInv'
    <2>0. PICK p \in Tasks : p = Sweeper
        BY DEF Tasks
    <2>1. task' = [task EXCEPT ![p] = n] /\ Unsure(p) /\ live' \subseteq live /\ UNCHANGED <<user, owner>>
        BY <1>7, <2>0 DEF PurgeMove, CompareMove
    <2>2. \A s : Doomed(s) /\ owner'[s] = owner[s] => Doomed(s)'
        BY <2>1, UnsureKeeps
    <2> QED
        BY <2>1, <2>2 DEF RevokeInv
<1>8. CASE StillMove
    BY <1>0, <1>8 DEF StillMove, Calm, RevokeInv, Doomed
<1> QED
    BY <1>1, <1>2, <1>3, <1>4, <1>5, <1>6, <1>7, <1>8 DEF Moved

LEMMA ScriptsInit ==
    ASSUME Init
    PROVE ScriptsInv /\ AnnounceInv /\ RevokeInv
<1>1. /\ user = [u \in Users |-> "enabled"] /\ owner = <<>> /\ live = {} /\ tickets = {}
      /\ task = [p \in Tasks |-> Idle]
    BY DEF Init
<1>2. Sweeper \in Tasks /\ Sockets \subseteq Tasks
    BY DEF Tasks
<1>3. \A p \in Tasks : task[p] = Idle
    BY <1>1
<1>4. \A p : Fits(p, Idle) /\ Idle.script = <<>> /\ Idle.before = {}
    BY IdleFits
<1>5. TaskOK(Idle) /\ SweepOK(<<>>) /\ \A d : ~First(<<>>, d)
    BY <1>4 DEF Fits, First
<1>6. ~Has(<<>>, "open")
    BY DEF Has
<1>7. ScriptsOK
    BY <1>1, <1>2, <1>3, <1>4, <1>5, <1>6 DEF ScriptsOK
<1>8. DataOK
    BY <1>1, <1>2, <1>3, <1>4 DEF DataOK, Accounts
<1>9. LoopOK
    BY <1>2, <1>3, <1>4, <1>5 DEF LoopOK
<1> QED
    BY <1>1, <1>7, <1>8, <1>9 DEF ScriptsInv, AnnounceInv, RevokeInv

\* With the in-memory stores, whatever ended a session (sign-out, revocation,
\* deletion of the user, the sweep, a request that met it expired), session:closed
\* has been published for it or a task is about to publish it.
THEOREM EndsAreAnnounced == ASSUME ~SlowStores PROVE Spec => []EndIsAnnounced
<1> DEFINE Inv == ScriptsInv /\ AnnounceInv
<1>1. Init => Inv
    BY ScriptsInit
<1>2. Inv /\ [Next]_vars => Inv'
    BY ScriptsStep, AnnounceStep
<1>3. Inv => EndIsAnnounced
    <2> SUFFICES ASSUME Inv, NEW s \in DOMAIN owner, s \notin live
                 PROVE s \in announced \/ WillAnnounce(s)
        BY DEF EndIsAnnounced
    <2>1. Told(s)
        BY DEF AnnounceInv
    <2>2. CASE \E p \in Tasks : Says(task[p].script, "announce", s)
        BY <2>2 DEF Says, WillAnnounce
    <2>3. CASE First(task[Sweeper].script, "compare") /\ s \in task[Sweeper].before
        <3>1. Sweeper \in Tasks
            BY DEF Tasks
        <3>2. task[Sweeper].script \in Seq(Steps) /\ task[Sweeper].script # <<>>
            BY <2>3, <3>1 DEF ScriptsInv, ScriptsOK, TaskOK, Scripts, First
        <3>3. Head(task[Sweeper].script) = task[Sweeper].script[1] /\ 1 \in DOMAIN task[Sweeper].script
            BY <3>2
        <3> QED
            BY <2>3, <3>1, <3>3 DEF First, WillAnnounce
    <2> QED
        BY <2>1, <2>2, <2>3 DEF Told
<1>4. QED
    BY <1>1, <1>2, <1>3, PTL DEF Spec

\* With the in-memory stores, delete_user leaves no session of the user behind,
\* although logins may be verifying the user's password while it runs: a session
\* of a deleted user is about to be revoked.
THEOREM DeletionRevokes == ASSUME ~SlowStores PROVE Spec => []DeletedUserLosesSessions
<1> DEFINE Inv == ScriptsInv /\ RevokeInv
<1>1. Init => Inv
    BY ScriptsInit
<1>2. Inv /\ [Next]_vars => Inv'
    BY ScriptsStep, RevokeStepInv
<1>3. Inv => DeletedUserLosesSessions
    BY DEF RevokeInv, Doomed, Says, Lists, DeletedUserLosesSessions, WillRevoke
<1>4. QED
    BY <1>1, <1>2, <1>3, PTL DEF Spec

-----------------------------------------------------------------------------
(* No socket is forgotten, however many there are and however slow the      *)
(* stores.                                                                  *)

\* The task of a connecting socket never revokes, and ends by binding the socket.
SocketSteps == {"session", "user", "bind", "expire", "announce"}
SocketScript(sc) ==
    \A i \in DOMAIN sc : sc[i].do \in SocketSteps /\ (sc[i].do = "bind" => i = Len(sc))
SocketTasks == \A w \in Sockets : SocketScript(task[w].script)

Kickers == {"announce", "kick", "send"}

\* A step of a task that is neither a revocation nor part of a kick.
Aside(p) ==
    /\ owed' = owed /\ loop \in {Free, p}
    /\ task[p].script # <<>> /\ Head(task[p].script).do \notin Kickers

LEMMA QuietTasks ==
    ASSUME NEW p \in Tasks, TaskStep(p)
    PROVE Aside(p) \/ RevokeStep(p) \/ Announce(p) \/ Kick(p) \/ SendKick(p)
<1>1. ASSUME NEW d, d \notin Kickers, At(p, d), owed' = owed PROVE Aside(p)
    BY <1>1 DEF At, Aside
<1>2. CASE PasswordStep(p)
    <2>1. /\ owed' = owed
          /\ \E d \in {"reserve", "credentials", "verify", "stamp", "password", "clear", "flag"} : At(p, d)
        BY <1>2 DEF PasswordStep, Reserve, ReadCredentials, Verify, StampLogin, SetPassword,
                    ClearPending, FlagPending, UpdateAccount
    <2> QED
        BY <1>1, <2>1 DEF Kickers
<1>3. CASE SessionStep(p)
    <2>1. CASE RevokeStep(p) \/ Announce(p) \/ Kick(p) \/ SendKick(p)
        BY <2>1
    <2>2. CASE ~(RevokeStep(p) \/ Announce(p) \/ Kick(p) \/ SendKick(p))
        <3>1. /\ owed' = owed
              /\ \E d \in {"open", "session", "user", "touch", "issue", "lookup", "logout", "expire",
                           "notify", "list", "all", "scan"} : At(p, d)
            BY <1>3, <2>2 DEF SessionStep, OpenSession, FindSession, FindUser, TouchSession,
                        IssueTicketStep, LookUp, LogoutStep, EndSession, ExpireStep, Notify,
                        ListToRevoke, ListAll, ScanSession
        <3> QED
            BY <1>1, <3>1 DEF Kickers
    <2> QED
        BY <2>1, <2>2
<1>4. CASE AccountStep(p)
    <2>1. owed' = owed /\ \E d \in {"disable", "enable", "delete", "forget"} : At(p, d)
        BY <1>4 DEF AccountStep, SetDisabled, RemoveUser, Forget
    <2> QED
        BY <1>1, <2>1 DEF Kickers
<1> QED
    BY <1>2, <1>3, <1>4 DEF TaskStep

LEMMA HeadOf ==
    ASSUME NEW sc \in Seq(Steps), Len(sc) >= 1
    PROVE sc # <<>> /\ Head(sc) = sc[1]
OBVIOUS

LEMMA KickingSteps ==
    ASSUME NEW sc \in Seq(Steps), NEW s, Kicking(sc, s)
    PROVE /\ sc # <<>> /\ sc[1].do \in {"announce", "kick"}
          /\ \E i \in DOMAIN sc : sc[i].do = "kick"
          /\ sc[1].do = "announce" => 2 \in DOMAIN sc /\ sc[2] = StepOn("kick", s)
          /\ sc[1].do = "kick" => sc[1].arg = s
<1>1. StepOn("announce", s).do = "announce" /\ StepOn("kick", s).do = "kick" /\ StepOn("kick", s).arg = s
    BY DEF StepOn
<1>2. CASE Len(sc) >= 2 /\ sc[1] = StepOn("announce", s) /\ sc[2] = StepOn("kick", s)
    <2>1. 2 \in DOMAIN sc /\ sc # <<>>
        BY <1>2
    <2> QED
        BY <1>1, <1>2, <2>1
<1>3. CASE sc # <<>> /\ sc[1] = StepOn("kick", s)
    <2>1. 1 \in DOMAIN sc
        BY <1>3
    <2> QED
        BY <1>1, <1>3, <2>1
<1> QED
    BY <1>2, <1>3 DEF Kicking

\* A step of task p leaves the other tasks alone.
LEMMA OthersKept ==
    ASSUME ScriptsInv, NEW p \in Tasks, TaskStep(p)
    PROVE \A q \in Tasks : q # p => task'[q] = task[q]
<1>0. task = [q \in Tasks |-> task[q]]
    BY DEF ScriptsInv, ScriptsOK
<1>1. ASSUME NEW n, task' = [task EXCEPT ![p] = n] PROVE \A q \in Tasks : q # p => task'[q] = task[q]
    BY <1>0, <1>1
<1>2. ASSUME NEW t, Resume(p, t) PROVE \A q \in Tasks : q # p => task'[q] = task[q]
    BY <1>0, <1>2 DEF Resume
<1>3. ASSUME NEW sc, GoOn(p, sc) PROVE \A q \in Tasks : q # p => task'[q] = task[q]
    BY <1>0, <1>3 DEF GoOn, Resume
<1>4. CASE PasswordStep(p)
    BY <1>0, <1>4 DEF PasswordStep, Reserve, ReadCredentials, Verify, StampLogin, SetPassword,
                ClearPending, FlagPending, UpdateAccount, Abort, GoOn, Resume
<1>5. CASE SessionStep(p)
    <2>1. CASE SendKick(p)
        BY <1>0, <2>1 DEF SendKick
    <2>2. CASE ListToRevoke(p)
        <3>1. \E sc : GoOn(p, sc)
            BY <2>2 DEF ListToRevoke
        <3> QED
            BY <1>3, <3>1, HeadOf
    <2>3. CASE ListAll(p)
        <3>1. \E sc : GoOn(p, sc)
            BY <2>3 DEF ListAll
        <3> QED
            BY <1>3, <3>1, HeadOf
    <2>4. CASE Kick(p)
        <3>1. \E sc : GoOn(p, sc)
            BY <2>4 DEF Kick
        <3> QED
            BY <1>3, <3>1, HeadOf
    <2>5. CASE OpenSession(p) \/ FindSession(p) \/ FindUser(p) \/ TouchSession(p)
        BY <1>0, <2>5 DEF OpenSession, FindSession, FindUser, TouchSession, Abort, GoOn, Resume
    <2>6. CASE IssueTicketStep(p) \/ LookUp(p) \/ LogoutStep(p) \/ RevokeStep(p)
        BY <1>0, <2>6 DEF IssueTicketStep, LookUp, LogoutStep, RevokeStep, EndSession, Abort, GoOn, Resume
    <2>7. CASE ExpireStep(p) \/ Announce(p) \/ Notify(p) \/ ScanSession(p)
        BY <1>0, <2>7 DEF ExpireStep, Announce, Notify, ScanSession, GoOn, Resume
    <2> QED
        BY <1>5, <2>1, <2>2, <2>3, <2>4, <2>5, <2>6, <2>7 DEF SessionStep
<1>6. CASE AccountStep(p)
    BY <1>0, <1>6 DEF AccountStep, SetDisabled, RemoveUser, Forget, Abort, GoOn, Resume
<1> QED
    BY <1>4, <1>5, <1>6 DEF TaskStep

\* The script of a socket when its first step is taken or the session it names
\* turns out to have expired.
LEMMA SocketScripts ==
    /\ SocketScript(<<>>)
    /\ \A s : SocketScript(<<StepOn("expire", s), StepOn("announce", s)>>)
    /\ \A s : SocketScript(<<StepOn("session", s), StepOn("user", s), StepOn("bind", s)>>)
    /\ \A sc \in Seq(Steps) : sc # <<>> /\ SocketScript(sc) => SocketScript(Tail(sc))
<1>1. ASSUME NEW sc \in Seq(Steps), sc # <<>>, SocketScript(sc) PROVE SocketScript(Tail(sc))
    <2>1. /\ Tail(sc) \in Seq(Steps) /\ Len(Tail(sc)) = Len(sc) - 1 /\ Len(sc) \in Nat \ {0}
          /\ \A i \in DOMAIN Tail(sc) : Tail(sc)[i] = sc[i + 1] /\ i + 1 \in DOMAIN sc /\ i \in Nat
        BY <1>1, HeadTailProperties
    <2> QED
        BY <1>1, <2>1 DEF SocketScript
<1>2. \A s : SocketScript(<<StepOn("expire", s), StepOn("announce", s)>>)
    BY DEF SocketScript, SocketSteps, StepOn
<1>3. \A s : SocketScript(<<StepOn("session", s), StepOn("user", s), StepOn("bind", s)>>)
    BY DEF SocketScript, SocketSteps, StepOn
<1>4. SocketScript(<<>>)
    BY DEF SocketScript
<1> QED
    BY <1>1, <1>2, <1>3, <1>4

\* What becomes of the script of a socket.
LEMMA SocketTaskKinds ==
    ASSUME ScriptsInv, SocketTasks, NEW w \in Sockets, TaskStep(w)
    PROVE /\ task[w].script # <<>>
          /\ \E sc : /\ GoOn(w, sc)
                     /\ \/ sc = <<>> \/ sc = Rest(w)
                        \/ \E s : sc = <<StepOn("expire", s), StepOn("announce", s)>>
<1>1. task[w].script \in Seq(Steps) /\ SocketScript(task[w].script)
    BY DEF ScriptsInv, ScriptsOK, TaskOK, Scripts, Tasks, SocketTasks
<1>2. task[w].script # <<>> => 1 \in DOMAIN task[w].script /\ Head(task[w].script) = task[w].script[1]
    BY <1>1
<1>3. task[w].script # <<>> => Head(task[w].script).do \in SocketSteps
    BY <1>1, <1>2 DEF SocketScript
<1>4. \A d \in {"reserve", "credentials", "verify", "stamp", "password", "clear", "flag",
                "disable", "enable", "delete", "forget"} : ~At(w, d)
    BY <1>3 DEF At, SocketSteps
<1>5. \A d \in {"open", "touch", "issue", "lookup", "logout", "revoke", "kick", "send", "notify",
                "list", "all", "scan"} : ~At(w, d)
    BY <1>3 DEF At, SocketSteps
<1>6. ~PasswordStep(w)
    BY <1>4 DEF PasswordStep, Reserve, ReadCredentials, Verify, StampLogin, SetPassword,
                ClearPending, FlagPending, UpdateAccount
<1>7. ~AccountStep(w)
    BY <1>4 DEF AccountStep, SetDisabled, RemoveUser, Forget
<1>8. FindSession(w) \/ FindUser(w) \/ ExpireStep(w) \/ Announce(w)
    BY <1>5, <1>6, <1>7 DEF TaskStep, SessionStep, OpenSession, TouchSession, IssueTicketStep,
       LookUp, LogoutStep, RevokeStep, EndSession, Kick, SendKick, Notify, ListToRevoke, ListAll,
       ScanSession
<1> QED
    BY <1>8 DEF FindSession, FindUser, ExpireStep, Announce, At, Abort

LEMMA SocketTaskStep ==
    ASSUME ScriptsInv, SocketTasks, NEW w \in Sockets, TaskStep(w) \/ SocketStep(w)
    PROVE SocketTasks'
<1>0. /\ task = [q \in Tasks |-> task[q]] /\ task[w].script \in Seq(Steps) /\ w \in Tasks
      /\ Sockets \subseteq Tasks /\ TaskShape(task[w])
    BY DEF ScriptsInv, ScriptsOK, TaskOK, Scripts, Tasks
<1>1. SocketScript(task[w].script) /\ \A v \in Sockets : SocketScript(task[v].script)
    BY DEF SocketTasks
<1>2. ASSUME NEW n, task' = [task EXCEPT ![w] = n], SocketScript(n.script) PROVE SocketTasks'
    <2>1. \A v \in Sockets : task'[v] = IF v = w THEN n ELSE task[v]
        BY <1>0, <1>2
    <2> QED
        BY <1>1, <1>2, <2>1 DEF SocketTasks
<1>3. ASSUME NEW sc, SocketScript(sc), GoOn(w, sc) PROVE SocketTasks'
    <2>1. PICK n : task' = [task EXCEPT ![w] = n] /\ n.script = sc
        BY <1>0, <1>3, GoOnNew
    <2> QED
        BY <1>2, <1>3, <2>1
<1>4. task[w].script # <<>> => SocketScript(Rest(w)) /\ Head(task[w].script).do \in SocketSteps
    <2>1. task[w].script # <<>> => 1 \in DOMAIN task[w].script /\ Head(task[w].script) = task[w].script[1]
        BY <1>0
    <2> QED
        BY <1>0, <1>1, <2>1, SocketScripts DEF Rest, SocketScript
<1>5. ASSUME TaskStep(w) PROVE SocketTasks'
    BY <1>3, <1>4, <1>5, SocketTaskKinds, SocketScripts
<1>6. CASE Connect(w)
    <2>1. PICK t \in tickets :
            Resume(w, [Idle EXCEPT !.user = owner[t.s], !.snap = "enabled",
                      !.script = <<StepOn("session", t.s), StepOn("user", t.s), StepOn("bind", t.s)>>])
        BY <1>6 DEF Connect
    <2>2. PICK m : m = [Idle EXCEPT !.user = owner[t.s], !.snap = "enabled",
                      !.script = <<StepOn("session", t.s), StepOn("user", t.s), StepOn("bind", t.s)>>]
        OBVIOUS
    <2>3. m.script = <<StepOn("session", t.s), StepOn("user", t.s), StepOn("bind", t.s)>>
        BY <2>2 DEF Idle
    <2>4. SocketScript(m.script) /\ m.script # <<>>
        BY <2>3, SocketScripts
    <2>5. task' = [task EXCEPT ![w] = m]
        BY <2>1, <2>2, <2>4 DEF Resume
    <2> QED
        BY <1>2, <2>4, <2>5
<1>7. CASE Bind(w)
    BY <1>3, <1>4, <1>7 DEF Bind, At
<1>8. CASE Leave(w)
    BY <1>8 DEF Leave, SocketTasks
<1>9. CASE AcceptFails(w)
    BY <1>3, <1>9, SocketScripts DEF AcceptFails, Abort
<1> QED
    BY <1>5, <1>6, <1>7, <1>8, <1>9 DEF SocketStep

LEMMA SocketTasksStep ==
    ASSUME ScriptsInv, SocketTasks, [Next]_vars
    PROVE SocketTasks'
<1>0. /\ task = [q \in Tasks |-> task[q]] /\ Requests \subseteq Tasks /\ Sockets \subseteq Tasks
      /\ Sweeper \in Tasks /\ Sweeper \notin Sockets /\ Requests \cap Sockets = {}
    BY TasksAssumption DEF ScriptsInv, ScriptsOK, Tasks
<1>1. ASSUME \A w \in Sockets : task'[w] = task[w] PROVE SocketTasks'
    BY <1>1 DEF SocketTasks
<1>2. ASSUME NEW p \in Tasks, p \notin Sockets, NEW n, task' = [task EXCEPT ![p] = n] PROVE SocketTasks'
    BY <1>0, <1>1, <1>2
<1>3. ASSUME NEW p \in Requests, Request(p) PROVE SocketTasks'
    <2>1. \E x, snap, keep, sc : Start(p, x, snap, keep, sc)
        BY <1>3 DEF Request, Login, VerifyPassword, ResetPassword, DisableUser, EnableUser,
                    DeleteUser, Logout, RevokeSession, IssueTicket, OwnPassword, ListSessions
    <2>2. \E n : task' = [task EXCEPT ![p] = n]
        BY <2>1 DEF Start, Resume
    <2> QED
        BY <1>0, <1>2, <2>2
<1>4. CASE Sweep \/ SweepStep
    <2>1. \E n : task' = [task EXCEPT ![Sweeper] = n]
        BY <1>4 DEF Sweep, Start, SweepStep, SweepBefore, SweepPurge, SweepCompare, GoOn, Resume
    <2> QED
        BY <1>0, <1>2, <2>1
<1>5. ASSUME NEW p \in Tasks, TaskStep(p) PROVE SocketTasks'
    <2>1. CASE p \in Sockets
        BY <1>5, <2>1, SocketTaskStep
    <2>2. CASE p \notin Sockets
        BY <1>0, <1>1, <1>5, <2>2, OthersKept
    <2> QED
        BY <2>1, <2>2
<1>6. ASSUME NEW w \in Sockets, SocketStep(w) PROVE SocketTasks'
    BY <1>6, SocketTaskStep
<1>7. ASSUME NEW w \in Sockets, CheckStep(w) PROVE SocketTasks'
    BY <1>1, <1>7 DEF CheckStep, CheckSession, CheckUser
<1>8. CASE Passing
    BY <1>1, <1>8 DEF Passing, SessionExpires, TicketExpires, LockExpires
<1>9. CASE UNCHANGED vars
    BY <1>1, <1>9 DEF vars
<1> QED
    BY <1>3, <1>4, <1>5, <1>6, <1>7, <1>8, <1>9 DEF Next

\* Checks are asked for open sockets only, and a socket is bound once.
SocketsInv ==
    /\ owed \subseteq Sockets
    /\ sock = [w \in Sockets |-> sock[w]] /\ sockSess = [w \in Sockets |-> sockSess[w]]
    /\ \A w \in Sockets :
          /\ w \in due \cup half => sock[w] = "open"
          /\ w \in owed => sock[w] # "new"
          /\ Has(task[w].script, "bind") => sock[w] = "new"

Open == {w \in Sockets : sock[w] = "open"}

LEMMA SocketsKept ==
    ASSUME SocketsInv, sock' = sock, sockSess' = sockSess,
           due' \cup half' \subseteq due \cup half \cup Open, owed' \subseteq owed \cup Open,
           \A w \in Sockets : Has(task'[w].script, "bind") => Has(task[w].script, "bind")
    PROVE SocketsInv'
BY DEF SocketsInv, Open, Has

\* No step of a request, of the sweep or of the task of a socket but Bind touches
\* a socket.
LEMMA TaskSockets ==
    ASSUME NEW p, TaskStep(p)
    PROVE /\ UNCHANGED <<sock, sockSess, half>>
          /\ due' \subseteq due \cup Open /\ owed' \subseteq owed \cup Open
<1>1. CASE PasswordStep(p)
    BY <1>1 DEF PasswordStep, Reserve, ReadCredentials, Verify, StampLogin, SetPassword,
                ClearPending, FlagPending, UpdateAccount, sockets
<1>2. CASE SessionStep(p)
    <2>1. CASE OpenSession(p) \/ FindSession(p) \/ FindUser(p) \/ TouchSession(p) \/ IssueTicketStep(p)
               \/ LookUp(p) \/ LogoutStep(p)
        BY <2>1 DEF OpenSession, FindSession, FindUser, TouchSession, IssueTicketStep, LookUp,
                    LogoutStep, EndSession, sockets
    <2>2. CASE RevokeStep(p)
        BY <2>2 DEF RevokeStep, EndSession, sockets, Open
    <2>3. CASE ExpireStep(p) \/ Announce(p) \/ Kick(p) \/ SendKick(p) \/ Notify(p)
        BY <2>3 DEF ExpireStep, Announce, Kick, SendKick, Notify, sockets, Open
    <2>4. CASE ListToRevoke(p) \/ ListAll(p) \/ ScanSession(p)
        BY <2>4 DEF ListToRevoke, ListAll, ScanSession, sockets
    <2> QED
        BY <1>2, <2>1, <2>2, <2>3, <2>4 DEF SessionStep
<1>3. CASE AccountStep(p)
    BY <1>3 DEF AccountStep, SetDisabled, RemoveUser, Forget, sockets
<1> QED
    BY <1>1, <1>2, <1>3 DEF TaskStep

LEMMA BindsKept ==
    ASSUME ScriptsInv, SocketTasks, NEW p \in Tasks, TaskStep(p)
    PROVE \A w \in Sockets : Has(task'[w].script, "bind") => Has(task[w].script, "bind")
<1>0. Sockets \subseteq Tasks
    BY DEF Tasks
<1>1. CASE p \notin Sockets
    BY <1>0, <1>1, OthersKept
<1>2. CASE p \in Sockets
    <2>1. PICK old : old = task[p].script
        OBVIOUS
    <2>2. old \in Seq(Steps)
        BY <1>2, <2>1 DEF ScriptsInv, ScriptsOK, TaskOK, Scripts
    <2>3. PICK sc : /\ GoOn(p, sc) /\ old # <<>>
                    /\ \/ sc = <<>> \/ sc = Tail(old)
                       \/ \E s : sc = <<StepOn("expire", s), StepOn("announce", s)>>
        BY <1>2, <2>1, SocketTaskKinds DEF Rest
    <2>4. Has(sc, "bind") => Has(old, "bind")
        <3>1. CASE sc = Tail(old)
            <4>1. \A i \in DOMAIN sc : sc[i] = old[i + 1] /\ i + 1 \in DOMAIN old
                BY <2>2, <2>3, <3>1, HeadTailProperties
            <4> QED
                BY <4>1 DEF Has
        <3>2. CASE sc = <<>>
            BY <3>2 DEF Has
        <3>3. ASSUME NEW s, sc = <<StepOn("expire", s), StepOn("announce", s)>> PROVE ~Has(sc, "bind")
            BY <3>3 DEF Has, StepOn
        <3> QED
            BY <2>3, <3>1, <3>2, <3>3
    <2>5. TaskShape(task[p]) /\ task = [q \in Tasks |-> task[q]]
        BY DEF ScriptsInv, ScriptsOK, TaskOK
    <2>6. PICK n : task' = [task EXCEPT ![p] = n] /\ n.script = sc
        BY <2>3, <2>5, GoOnNew
    <2>7. \A w \in Sockets : task'[w] = IF w = p THEN n ELSE task[w]
        BY <1>0, <2>5, <2>6
    <2> QED
        BY <2>1, <2>4, <2>6, <2>7
<1> QED
    BY <1>1, <1>2

LEMMA SocketsStep ==
    ASSUME ScriptsInv, SocketTasks, SocketsInv, [Next]_vars
    PROVE SocketsInv'
<1>0. /\ task = [q \in Tasks |-> task[q]] /\ Requests \subseteq Tasks /\ Sockets \subseteq Tasks
      /\ Sweeper \in Tasks /\ Sweeper \notin Sockets /\ Requests \cap Sockets = {}
    BY TasksAssumption DEF ScriptsInv, ScriptsOK, Tasks
<1>1. ASSUME NEW p \in Tasks, p \notin Sockets, NEW n, task' = [task EXCEPT ![p] = n],
             UNCHANGED <<sock, sockSess, due, half, owed>>
      PROVE SocketsInv'
    <2>1. \A w \in Sockets : task'[w] = task[w]
        BY <1>0, <1>1
    <2> QED
        BY <1>1, <2>1, SocketsKept
<1>2. ASSUME NEW p \in Requests, Request(p) PROVE SocketsInv'
    <2>1. \E x, snap, keep, sc : Start(p, x, snap, keep, sc)
        BY <1>2 DEF Request, Login, VerifyPassword, ResetPassword, DisableUser, EnableUser,
                    DeleteUser, Logout, RevokeSession, IssueTicket, OwnPassword, ListSessions
    <2>2. UNCHANGED <<sock, sockSess, due, half, owed>> /\ \E n : task' = [task EXCEPT ![p] = n]
        BY <2>1 DEF Start, Resume, sockets
    <2> QED
        BY <1>0, <1>1, <2>2
<1>3. CASE Sweep \/ SweepStep
    <2>1. UNCHANGED <<sock, sockSess, due, half, owed>> /\ \E n : task' = [task EXCEPT ![Sweeper] = n]
        BY <1>3 DEF Sweep, Start, SweepStep, SweepBefore, SweepPurge, SweepCompare, GoOn, Resume, sockets
    <2> QED
        BY <1>0, <1>1, <2>1
<1>4. ASSUME NEW p \in Tasks, TaskStep(p) PROVE SocketsInv'
    <2>1. /\ sock' = sock /\ sockSess' = sockSess /\ owed' \subseteq owed \cup Open
          /\ due' \cup half' \subseteq due \cup half \cup Open
        BY <1>4, TaskSockets
    <2> QED
        BY <1>4, <2>1, BindsKept, SocketsKept
<1>5. ASSUME NEW w \in Sockets, NEW n, task' = [task EXCEPT ![w] = n]
      PROVE task'[w] = n /\ \A v \in Sockets : v # w => task'[v] = task[v]
    BY <1>0, <1>5
<1>6. ASSUME NEW w \in Sockets, Connect(w) PROVE SocketsInv'
    <2>1. sock[w] = "new" /\ UNCHANGED <<sock, sockSess, due, half, owed>> /\ \E n : task' = [task EXCEPT ![w] = n]
        BY <1>6 DEF Connect, Resume, sockets
    <2>2. \A v \in Sockets : v # w => task'[v] = task[v]
        BY <1>5, <2>1
    <2> QED
        BY <2>1, <2>2 DEF SocketsInv, Has
<1>7. ASSUME NEW w \in Sockets, NEW sc, GoOn(w, sc)
      PROVE task'[w].script = sc /\ \A v \in Sockets : v # w => task'[v] = task[v]
    <2>1. TaskShape(task[w])
        BY <1>0 DEF ScriptsInv, ScriptsOK, TaskOK
    <2>2. PICK n : task' = [task EXCEPT ![w] = n] /\ n.script = sc
        BY <1>0, <1>7, <2>1, GoOnNew
    <2> QED
        BY <1>5, <2>2
<1>8. ASSUME NEW w \in Sockets, At(w, "bind") PROVE Rest(w) = <<>> /\ Has(task[w].script, "bind")
    <2>1. PICK sc : sc = task[w].script
        OBVIOUS
    <2>2. sc \in Seq(Steps) /\ SocketScript(sc) /\ sc # <<>> /\ Head(sc).do = "bind"
        BY <1>0, <1>8, <2>1 DEF ScriptsInv, ScriptsOK, TaskOK, Scripts, SocketTasks, At
    <2>3. 1 \in DOMAIN sc /\ Head(sc) = sc[1]
        BY <2>2
    <2>4. Len(sc) = 1
        BY <2>2, <2>3 DEF SocketScript
    <2>5. Tail(sc) \in Seq(Steps) /\ Len(Tail(sc)) = 0
        BY <2>2, <2>4, HeadTailProperties
    <2>6. Tail(sc) = <<>>
        BY <2>5, EmptySeq
    <2> QED
        BY <2>1, <2>2, <2>3, <2>6 DEF Rest, Has
<1>9. ASSUME NEW w \in Sockets, Bind(w) PROVE SocketsInv'
    <2>1. /\ GoOn(w, Rest(w)) /\ UNCHANGED <<due, half, owed>>
          /\ sock' = [sock EXCEPT ![w] = "open"] /\ sockSess' = [sockSess EXCEPT ![w] = Arg(w)]
          /\ At(w, "bind")
        BY <1>9 DEF Bind
    <2>2. ~Has(task'[w].script, "bind") /\ \A v \in Sockets : v # w => task'[v] = task[v]
        BY <1>7, <1>8, <2>1 DEF Has
    <2>3. /\ sock'[w] = "open" /\ \A v \in Sockets : v # w => sock'[v] = sock[v]
          /\ sock' = [v \in Sockets |-> sock'[v]] /\ sockSess' = [v \in Sockets |-> sockSess'[v]]
        BY <2>1 DEF SocketsInv
    <2> QED
        BY <2>1, <2>2, <2>3 DEF SocketsInv, Has
<1>10. ASSUME NEW w \in Sockets, AcceptFails(w) PROVE SocketsInv'
    <2>1. GoOn(w, <<>>) /\ UNCHANGED <<sock, sockSess, due, half, owed>>
        BY <1>10 DEF AcceptFails, Abort, sockets
    <2>2. ~Has(task'[w].script, "bind") /\ \A v \in Sockets : v # w => task'[v] = task[v]
        BY <1>7, <2>1 DEF Has
    <2> QED
        BY <2>1, <2>2, SocketsKept
<1>11. ASSUME NEW w \in Sockets, NEW st \in {"left", "ended"}, sock[w] = "open",
              sock' = [sock EXCEPT ![w] = st], due' = due \ {w}, half' = half \ {w},
              owed' \subseteq owed, UNCHANGED <<task, sockSess>>
       PROVE SocketsInv'
    <2>1. /\ sock'[w] = st /\ \A v \in Sockets : v # w => sock'[v] = sock[v]
          /\ sock' = [v \in Sockets |-> sock'[v]]
        BY <1>11 DEF SocketsInv
    <2> QED
        BY <1>11, <2>1 DEF SocketsInv
<1>12. ASSUME NEW w \in Sockets, Leave(w) PROVE SocketsInv'
    BY <1>11, <1>12 DEF Leave
<1>13. ASSUME NEW w \in Sockets, CheckStep(w) PROVE SocketsInv'
    <2>1. sock[w] = "open"
        BY <1>13 DEF CheckStep, CheckSession, CheckUser, SocketsInv
    <2>2. CASE CloseEnded(w)
        BY <1>11, <1>13, <2>1, <2>2 DEF CheckStep, CheckSession, CheckUser, CloseEnded
    <2>3. CASE ~CloseEnded(w)
        <3>1. UNCHANGED <<sock, sockSess, task, owed>> /\ due' \cup half' \subseteq due \cup half
            BY <1>13, <2>3 DEF CheckStep, CheckSession, CheckUser
        <3> QED
            BY <3>1 DEF SocketsInv
    <2> QED
        BY <2>2, <2>3
<1>14. CASE Passing \/ UNCHANGED vars
    <2>1. UNCHANGED <<sock, sockSess, due, half, owed, task>>
        BY <1>14 DEF Passing, SessionExpires, TicketExpires, LockExpires, vars, sockets
    <2> QED
        BY <2>1, SocketsKept
<1>15. ASSUME NEW w \in Sockets, SocketStep(w) PROVE SocketsInv'
    BY <1>6, <1>9, <1>10, <1>12, <1>15 DEF SocketStep
<1> QED
    BY <1>2, <1>3, <1>4, <1>13, <1>14, <1>15 DEF Next

\* A step that leaves alone every task that is announcing, kicking or sending, and
\* neither owes anything nor opens a socket that is owed.
Elsewhere ==
    /\ owed' \subseteq owed
    /\ \A p \in Tasks :
          task[p].script # <<>> /\ Head(task[p].script).do \in Kickers => task'[p] = task[p]
    /\ \A w \in owed : sock'[w] = "open" => sock[w] = "open" /\ sockSess'[w] = sockSess[w]

LEMMA ElsewhereSteps ==
    ASSUME ScriptsInv, SocketTasks, SocketsInv, [Next]_vars
    PROVE Elsewhere \/ \E p \in Tasks : RevokeStep(p) \/ Announce(p) \/ Kick(p) \/ SendKick(p)
<1>0. /\ task = [q \in Tasks |-> task[q]] /\ Requests \subseteq Tasks /\ Sockets \subseteq Tasks
      /\ Sweeper \in Tasks
    BY DEF ScriptsInv, ScriptsOK, Tasks
<1>1. ASSUME NEW p \in Tasks, NEW n, task' = [task EXCEPT ![p] = n],
             task[p].script = <<>> \/ Head(task[p].script).do \notin Kickers,
             UNCHANGED <<sock, sockSess, owed>>
      PROVE Elsewhere
    BY <1>0, <1>1 DEF Elsewhere
<1>2. ASSUME NEW p \in Requests, Request(p) PROVE Elsewhere
    <2>1. \E x, snap, keep, sc : Start(p, x, snap, keep, sc)
        BY <1>2 DEF Request, Login, VerifyPassword, ResetPassword, DisableUser, EnableUser,
                    DeleteUser, Logout, RevokeSession, IssueTicket, OwnPassword, ListSessions
    <2>2. /\ UNCHANGED <<sock, sockSess, owed>> /\ \E n : task' = [task EXCEPT ![p] = n]
          /\ task[p] = Idle
        BY <2>1 DEF Start, Resume, sockets
    <2> QED
        BY <1>0, <1>1, <2>2, IdleFits
<1>3. CASE Sweep
    <2>1. /\ UNCHANGED <<sock, sockSess, owed>> /\ \E n : task' = [task EXCEPT ![Sweeper] = n]
          /\ task[Sweeper] = Idle
        BY <1>3 DEF Sweep, Start, Resume, sockets
    <2> QED
        BY <1>0, <1>1, <2>1, IdleFits
<1>4. CASE SweepStep
    <2>1. /\ UNCHANGED <<sock, sockSess, owed>> /\ \E n : task' = [task EXCEPT ![Sweeper] = n]
          /\ \E d \in {"before", "purge", "compare"} : At(Sweeper, d)
        BY <1>4 DEF SweepStep, SweepBefore, SweepPurge, SweepCompare, GoOn, Resume, sockets
    <2>2. Head(task[Sweeper].script).do \notin Kickers
        BY <2>1 DEF At, Kickers
    <2> QED
        BY <1>0, <1>1, <2>1, <2>2
<1>5. ASSUME NEW p \in Tasks, TaskStep(p), Aside(p) PROVE Elsewhere
    <2>1. UNCHANGED <<sock, sockSess, owed>> /\ Head(task[p].script).do \notin Kickers
        BY <1>5, TaskSockets DEF Aside
    <2>2. \A q \in Tasks : q # p => task'[q] = task[q]
        BY <1>5, OthersKept
    <2> QED
        BY <2>1, <2>2 DEF Elsewhere
<1>6. ASSUME NEW w \in Sockets, SocketStep(w) PROVE Elsewhere
    <2>1. CASE Connect(w)
        <3>1. /\ UNCHANGED <<sock, sockSess, owed>> /\ \E n : task' = [task EXCEPT ![w] = n]
              /\ task[w] = Idle
            BY <2>1 DEF Connect, Resume, sockets
        <3> QED
            BY <1>0, <1>1, <3>1, IdleFits
    <2>2. CASE AcceptFails(w)
        <3>1. /\ UNCHANGED <<sock, sockSess, owed>> /\ \E n : task' = [task EXCEPT ![w] = n]
              /\ At(w, "bind")
            BY <2>2 DEF AcceptFails, Abort, GoOn, Resume, sockets
        <3>2. Head(task[w].script).do \notin Kickers
            BY <3>1 DEF At, Kickers
        <3> QED
            BY <1>0, <1>1, <3>1, <3>2
    <2>3. CASE Bind(w)
        <3>1. /\ owed' = owed /\ At(w, "bind") /\ \E n : task' = [task EXCEPT ![w] = n]
              /\ sock' = [sock EXCEPT ![w] = "open"] /\ sockSess' = [sockSess EXCEPT ![w] = Arg(w)]
            BY <2>3 DEF Bind, GoOn, Resume
        <3>2. task[w].script \in Seq(Steps)
            BY <1>0 DEF ScriptsInv, ScriptsOK, TaskOK, Scripts
        <3>3. /\ task[w].script # <<>> /\ Head(task[w].script) = task[w].script[1]
              /\ 1 \in DOMAIN task[w].script /\ Head(task[w].script).do = "bind"
            BY <3>1, <3>2 DEF At
        <3>4. Has(task[w].script, "bind")
            BY <3>3 DEF Has
        <3>5. w \notin owed
            BY <3>4 DEF SocketsInv
        <3>6. \A v \in owed : sock'[v] = sock[v] /\ sockSess'[v] = sockSess[v]
            BY <3>1, <3>5 DEF SocketsInv
        <3>7. "bind" \notin Kickers
            BY DEF Kickers
        <3>8. \A p \in Tasks : p # w => task'[p] = task[p]
            BY <1>0, <3>1
        <3> QED
            BY <3>1, <3>3, <3>6, <3>7, <3>8 DEF Elsewhere
    <2>4. CASE Leave(w)
        <3>1. UNCHANGED <<task, sockSess>> /\ sock' = [sock EXCEPT ![w] = "left"] /\ owed' = owed \ {w}
            BY <2>4 DEF Leave
        <3>2. \A v \in owed : sock'[v] = "open" => sock[v] = "open"
            BY <3>1 DEF SocketsInv
        <3> QED
            BY <3>1, <3>2 DEF Elsewhere
    <2> QED
        BY <1>6, <2>1, <2>2, <2>3, <2>4 DEF SocketStep
<1>7. ASSUME NEW w \in Sockets, CheckStep(w) PROVE Elsewhere
    <2>1. UNCHANGED <<task, sockSess, owed>> /\ (sock' = sock \/ sock' = [sock EXCEPT ![w] = "ended"])
        BY <1>7 DEF CheckStep, CheckSession, CheckUser, CloseEnded
    <2>2. \A v \in owed : sock'[v] = "open" => sock[v] = "open"
        BY <2>1 DEF SocketsInv
    <2> QED
        BY <2>1, <2>2 DEF Elsewhere
<1>8. CASE Passing \/ UNCHANGED vars
    <2>1. UNCHANGED <<sock, sockSess, owed, task>>
        BY <1>8 DEF Passing, SessionExpires, TicketExpires, LockExpires, vars, sockets
    <2> QED
        BY <2>1 DEF Elsewhere
<1> QED
    BY <1>2, <1>3, <1>4, <1>5, <1>6, <1>7, <1>8, QuietTasks DEF Next

\* SetToSeqs lists every member.
LEMMA EveryMember ==
    ASSUME NEW S, IsFiniteSet(S), NEW q \in SetToSeqs(S), NEW w \in S
    PROVE \E i \in DOMAIN q : q[i] = w
<1>1. PICK n \in Nat : n = Cardinality(S)
    BY FS_CardinalityType
<1>2. q \in [1..n -> S] /\ \A i, j \in 1..n : i # j => q[i] # q[j]
    BY <1>1 DEF SetToSeqs
<1>3. q \in Injection(1..n, S)
    BY <1>2 DEF Injection, IsInjective
<1>4. Cardinality(1..n) = n
    <2>1. 1 \in Int /\ n \in Int
        OBVIOUS
    <2>2. Cardinality(1..n) = IF 1 > n THEN 0 ELSE n - 1 + 1
        BY <2>1, FS_Interval
    <2> QED
        BY <2>2
<1>5. q \in Surjection(1..n, S)
    BY <1>1, <1>3, <1>4, FS_Injection
<1> QED
    BY <1>2, <1>5 DEF Surjection

\* The steps on the way to a kick.
LEMMA KickAdvances ==
    ASSUME NEW sc \in Seq(Steps), NEW w, NEW s, WillKick(sc, w, s)
    PROVE /\ sc # <<>> /\ Head(sc) = sc[1] /\ sc[1].do \in Kickers
          /\ sc[1].do = "announce" => WillKick(Tail(sc), w, s)
          /\ sc[1].do = "kick" => sc[1].arg = s
          /\ sc[1].do = "send" => sc[1].arg = w \/ WillKick(Tail(sc), w, s)
<1>1. PICK m \in Nat : m = Len(sc) /\ DOMAIN sc = 1..m
    OBVIOUS
<1>2. CASE Kicking(sc, s)
    <2>1. /\ sc # <<>> /\ sc[1].do \in {"announce", "kick"}
          /\ sc[1].do = "announce" => 2 \in DOMAIN sc /\ sc[2] = StepOn("kick", s)
          /\ sc[1].do = "kick" => sc[1].arg = s
        BY <1>2, KickingSteps
    <2>2. ASSUME sc[1].do = "announce" PROVE Kicking(Tail(sc), s)
        <3>1. 2 \in DOMAIN sc /\ sc[2] = StepOn("kick", s)
            BY <2>1, <2>2
        <3>2. /\ Tail(sc) \in Seq(Steps) /\ Len(Tail(sc)) = m - 1
              /\ \A i \in 1..Len(Tail(sc)) : Tail(sc)[i] = sc[i + 1]
            BY <1>1, <2>1, HeadTailProperties
        <3>3. Len(Tail(sc)) >= 1 /\ Tail(sc)[1] = sc[1 + 1] /\ 1 + 1 = 2
            BY <1>1, <3>1, <3>2
        <3>4. Tail(sc) # <<>>
            BY <3>2, <3>3, HeadOf
        <3> QED
            BY <3>1, <3>3, <3>4 DEF Kicking
    <2>3. Head(sc) = sc[1]
        BY <2>1
    <2> QED
        BY <2>1, <2>2, <2>3 DEF WillKick, Kickers
<1>3. ASSUME NEW i \in DOMAIN sc, sc[i] = StepOn("send", w), \A j \in 1..i : sc[j].do = "send"
      PROVE /\ sc # <<>> /\ Head(sc) = sc[1] /\ sc[1].do = "send"
            /\ sc[1].arg = w \/ WillKick(Tail(sc), w, s)
    <2>1. i \in Nat \ {0} /\ i <= m /\ 1 \in 1..i
        BY <1>1
    <2>2. sc # <<>> /\ Head(sc) = sc[1] /\ sc[1].do = "send"
        BY <1>1, <1>3, <2>1
    <2>3. CASE i = 1
        BY <1>3, <2>2, <2>3 DEF StepOn
    <2>4. CASE i # 1
        <3>1. PICK t : t = Tail(sc)
            OBVIOUS
        <3>2. t \in Seq(Steps) /\ Len(t) = m - 1 /\ \A j \in 1..Len(t) : t[j] = sc[j + 1]
            BY <1>1, <2>2, <3>1, HeadTailProperties
        <3>3. DOMAIN t = 1..(m - 1) /\ \A j \in 1..(m - 1) : t[j] = sc[j + 1]
            BY <3>2
        <3>4. PICK k \in Nat : k + 1 = i
            BY <2>1
        <3>5. k \in DOMAIN t /\ t[k] = StepOn("send", w)
            BY <1>3, <2>1, <2>4, <3>3, <3>4
        <3>6. \A j \in 1..k : t[j].do = "send"
            <4>1. \A j \in 1..k : j \in 1..(m - 1) /\ j + 1 \in 1..i
                BY <2>1, <3>4
            <4> QED
                BY <1>3, <3>3, <4>1
        <3>7. WillKick(t, w, s)
            BY <3>5, <3>6 DEF WillKick
        <3> QED
            BY <2>2, <3>1, <3>7
    <2> QED
        BY <2>2, <2>3, <2>4
<1> QED
    BY <1>2, <1>3 DEF WillKick, Kickers

LEMMA KickComingStep ==
    ASSUME ScriptsInv, SocketTasks, SocketsInv, KickIsComing, [Next]_vars
    PROVE KickIsComing'
<1>0. \A p \in Tasks : task[p].script \in Seq(Steps)
    BY DEF ScriptsInv, ScriptsOK, TaskOK, Scripts
<1>1. CASE Elsewhere
    <2> SUFFICES ASSUME NEW w \in owed', sock'[w] = "open"
                 PROVE \E p \in Tasks : WillKick(task'[p].script, w, sockSess'[w])
        BY DEF KickIsComing
    <2>1. w \in owed /\ sock[w] = "open" /\ sockSess'[w] = sockSess[w]
        BY <1>1 DEF Elsewhere
    <2>2. PICK s : s = sockSess[w]
        OBVIOUS
    <2>3. PICK p \in Tasks : WillKick(task[p].script, w, s)
        BY <2>1, <2>2 DEF KickIsComing
    <2>4. task[p].script # <<>> /\ Head(task[p].script).do \in Kickers
        BY <1>0, <2>3, KickAdvances
    <2>5. task'[p] = task[p]
        BY <1>1, <2>4 DEF Elsewhere
    <2> QED
        BY <2>1, <2>2, <2>3, <2>5
<1>2. ASSUME NEW p \in Tasks, RevokeStep(p) \/ Announce(p) \/ Kick(p) \/ SendKick(p)
      PROVE KickIsComing'
    <2>1. TaskStep(p)
        BY <1>2 DEF TaskStep, SessionStep
    <2>2. (\A q \in Tasks : q # p => task'[q] = task[q]) /\ sock' = sock /\ sockSess' = sockSess
        BY <2>1, OthersKept, TaskSockets
    <2>3. PICK sc : sc = task[p].script
        OBVIOUS
    <2>4. sc \in Seq(Steps) /\ sc # <<>> /\ Head(sc) = sc[1] /\ Rest(p) = Tail(sc) /\ Arg(p) = sc[1].arg
        <3>1. sc \in Seq(Steps) /\ sc # <<>>
            BY <1>0, <1>2, <2>3 DEF RevokeStep, EndSession, Announce, Kick, SendKick, At
        <3> QED
            BY <2>3, <3>1 DEF Rest, Arg
    <2>5. ASSUME NEW new, GoOn(p, new) PROVE task'[p].script = new
        <3>1. PICK n : task' = [task EXCEPT ![p] = n] /\ n.script = new
            BY <2>5, GoOnNew
        <3>2. task = [q \in Tasks |-> task[q]]
            BY DEF ScriptsInv, ScriptsOK
        <3> QED
            BY <3>1, <3>2
    <2>6. ASSUME NEW w \in owed', sock[w] = "open", w \in owed,
                 WillKick(sc, w, sockSess[w]) => WillKick(task'[p].script, w, sockSess[w])
          PROVE \E q \in Tasks : WillKick(task'[q].script, w, sockSess[w])
        <3>1. PICK q \in Tasks : WillKick(task[q].script, w, sockSess[w])
            BY <2>6 DEF KickIsComing
        <3> QED
            BY <2>2, <2>3, <2>6, <3>1
    <2>7. SUFFICES ASSUME NEW w \in owed', sock[w] = "open"
                   PROVE \E q \in Tasks : WillKick(task'[q].script, w, sockSess[w])
        BY <2>2 DEF KickIsComing
    <2>8. PICK s : s = sockSess[w]
        OBVIOUS
    <2>9. WillKick(sc, w, s) =>
            /\ sc[1].do \in Kickers
            /\ sc[1].do = "announce" => WillKick(Tail(sc), w, s)
            /\ sc[1].do = "kick" => sc[1].arg = s
            /\ sc[1].do = "send" => sc[1].arg = w \/ WillKick(Tail(sc), w, s)
        BY <2>4, KickAdvances
    <2>10. CASE RevokeStep(p)
        <3>1. /\ sc[1].do = "revoke" /\ task'[p].script = Tail(sc)
              /\ w \in owed \/ sockSess[w] = sc[1].arg
            BY <2>3, <2>4, <2>5, <2>10 DEF RevokeStep, EndSession, At
        <3>2. CASE w \in owed
            BY <2>6, <2>7, <2>8, <2>9, <3>1, <3>2 DEF Kickers
        <3>3. CASE s = sc[1].arg
            <4>1. Kicks(sc) /\ 1 \in DOMAIN sc
                BY <2>3, <2>4 DEF ScriptsInv, ScriptsOK, TaskOK, Scripts, Followed
            <4>2. /\ 2 \in DOMAIN sc /\ sc[2] = StepOn("announce", s)
                  /\ 3 \in DOMAIN sc /\ sc[3] = StepOn("kick", s)
                <5>1. 1 + 1 = 2 /\ 1 + 2 = 3
                    OBVIOUS
                <5> QED
                    BY <3>1, <3>3, <4>1, <5>1 DEF Kicks
            <4>3. /\ Len(Tail(sc)) = Len(sc) - 1 /\ Len(sc) \in Nat /\ DOMAIN sc = 1..Len(sc)
                  /\ \A i \in 1..Len(Tail(sc)) : Tail(sc)[i] = sc[i + 1]
                BY <2>4, HeadTailProperties
            <4>4. Len(Tail(sc)) >= 2 /\ Tail(sc)[1] = sc[2] /\ Tail(sc)[2] = sc[3]
                BY <4>2, <4>3
            <4>5. WillKick(Tail(sc), w, s)
                BY <4>2, <4>4 DEF Kicking, WillKick
            <4> QED
                BY <2>8, <3>1, <4>5
        <3> QED
            BY <2>8, <3>1, <3>2, <3>3
    <2>11. CASE Announce(p)
        <3>1. sc[1].do = "announce" /\ task'[p].script = Tail(sc) /\ w \in owed
            BY <2>3, <2>4, <2>5, <2>7, <2>11 DEF Announce, At
        <3> QED
            BY <2>6, <2>7, <2>8, <2>9, <3>1
    <2>12. CASE Kick(p)
        <3>1. sc[1].do = "kick" /\ w \in owed
            BY <2>3, <2>4, <2>7, <2>12 DEF Kick, At
        <3>2. PICK S : S = SocketsOf(owner[sc[1].arg])
            OBVIOUS
        <3>3. PICK q \in SetToSeqs(S) : GoOn(p, [i \in DOMAIN q |-> StepOn("send", q[i])] \o Tail(sc))
            BY <2>4, <2>12, <3>2 DEF Kick
        <3>4. S \subseteq Sockets /\ IsFiniteSet(S)
            BY <3>2, TasksAssumption, FS_Subset DEF SocketsOf
        <3>5. PICK X : X = [i \in DOMAIN q |-> StepOn("send", q[i])]
            OBVIOUS
        <3>6. PICK n \in Nat : q \in [1..n -> S]
            BY <3>3, <3>4, FS_CardinalityType DEF SetToSeqs
        <3>7. X \in Seq(Steps) /\ DOMAIN X = 1..n /\ \A i \in 1..n : X[i] = StepOn("send", q[i])
            <4>1. \A i \in 1..n : StepOn("send", q[i]) \in Steps
                BY <3>4, <3>6 DEF StepOn, Steps, StepNames
            <4>2. X = [i \in 1..n |-> StepOn("send", q[i])]
                BY <3>5, <3>6
            <4> QED
                BY <4>1, <4>2
        <3>8. PICK new : new = X \o Tail(sc)
            OBVIOUS
        <3>9. task'[p].script = new
            BY <2>5, <3>3, <3>5, <3>8
        <3>10. ASSUME WillKick(sc, w, s) PROVE WillKick(new, w, s)
            <4>1. w \in S
                BY <2>7, <2>8, <2>9, <3>1, <3>2, <3>10 DEF SocketsOf, SocketsInv
            <4>2. PICK i \in DOMAIN q : q[i] = w
                BY <3>4, <4>1, EveryMember
            <4>3. i \in 1..n
                BY <3>6
            <4>4. DOMAIN new = 1..((n + Len(sc)) - 1) /\ (\A j \in 1..n : new[j] = X[j]) /\ Len(sc) \in Nat \ {0}
                <5>1. Len(X) = n
                    BY <3>7
                <5> QED
                    BY <2>4, <3>7, <3>8, <5>1, Spliced
            <4>5. i \in DOMAIN new /\ new[i] = StepOn("send", w)
                BY <3>7, <4>2, <4>3, <4>4
            <4>6. \A j \in 1..i : j \in 1..n /\ new[j].do = "send"
                BY <3>7, <4>3, <4>4 DEF StepOn
            <4> QED
                BY <4>5, <4>6 DEF WillKick
        <3> QED
            BY <2>6, <2>7, <2>8, <3>1, <3>9, <3>10
    <2>13. CASE SendKick(p)
        <3>1. /\ sc[1].do = "send" /\ w \in owed
              /\ sock[sc[1].arg] = "open" => w # sc[1].arg
            BY <2>3, <2>4, <2>7, <2>13 DEF SendKick, At
        <3>2. task'[p].script = Tail(sc)
            <4>1. task = [q \in Tasks |-> task[q]] /\ TaskShape(task[p])
                BY DEF ScriptsInv, ScriptsOK, TaskOK
            <4>2. task'[p] = [task[p] EXCEPT !.script = Tail(sc)]
                BY <2>4, <2>13, <4>1 DEF SendKick
            <4> QED
                BY <4>1, <4>2 DEF TaskShape
        <3> QED
            BY <2>6, <2>7, <2>8, <2>9, <3>1, <3>2
    <2> QED
        BY <1>2, <2>10, <2>11, <2>12, <2>13
<1> QED
    BY <1>1, <1>2, ElsewhereSteps

\* revoke_session, for any number of event sockets per user and any stores, whatever
\* connects, leaves, is checked or is revoked meanwhile: a socket that was
\* open when its session was revoked has been sent session-kicked, has been
\* closed, or is about to be sent it by a task that cannot return early.
THEOREM NoKickForgotten == Spec => []KickIsComing
<1> DEFINE Inv == ScriptsInv /\ SocketTasks /\ SocketsInv /\ KickIsComing
<1>1. Init => Inv
    <2> SUFFICES ASSUME Init PROVE SocketTasks /\ SocketsInv /\ KickIsComing
        BY ScriptsInit
    <2>1. owed = {} /\ due = {} /\ half = {}
        BY DEF Init
    <2>2. \A w \in Sockets : task[w].script = <<>>
        BY IdleFits DEF Init, Tasks
    <2>3. sock = [w \in Sockets |-> "new"] /\ sockSess = [w \in Sockets |-> 0]
        BY DEF Init
    <2>4. SocketTasks
        BY <2>2 DEF SocketTasks, SocketScript
    <2>5. SocketsInv
        BY <2>1, <2>2, <2>3 DEF SocketsInv, Has
    <2> QED
        BY <2>1, <2>4, <2>5 DEF KickIsComing
<1>2. Inv /\ [Next]_vars => Inv'
    BY ScriptsStep, SocketTasksStep, SocketsStep, KickComingStep
<1>3. Inv => KickIsComing
    OBVIOUS
<1> QED
    BY <1>1, <1>2, <1>3, PTL DEF Spec

-----------------------------------------------------------------------------
(* Types and bounds.                                                        *)

\* The steps that are about a session, and the sessions they may be about (D).
OnSession == {"session", "user", "touch", "issue", "lookup", "logout", "expire", "scan",
              "revoke", "announce", "kick", "bind"}
TypedSteps(D) ==
    {x \in [do : StepNames, arg : {0} \cup D \cup Sockets] :
        /\ x.do \in OnSession => x.arg \in D
        /\ x.do = "send" => x.arg \in Sockets}

\* What opens a session or issues a ticket is the last step of its script.
Makers == {"open", "issue"}
Ends(sc) == \A i \in DOMAIN sc : sc[i].do \in Makers => i = Len(sc)

TaskTyped(t, D) ==
    /\ t.script \in Seq(TypedSteps(D)) /\ Ends(t.script)
    /\ t.user \in Users \cup {Free} /\ (Has(t.script, "password") => t.user \in Users)
    /\ t.snap \in Accounts /\ t.keep \in {0} \cup D
    /\ t.found \in BOOLEAN /\ t.before \subseteq D

TasksInv == \A p \in Tasks : TaskTyped(task[p], DOMAIN owner)

\* What is made so far leaves room for what tasks are still going to make.
RoomInv ==
    /\ IsFiniteSet(Pending("open")) /\ Len(owner) + Cardinality(Pending("open")) <= MaxSessions
    /\ IsFiniteSet(Pending("issue")) /\ issued \in Nat
    /\ issued + Cardinality(Pending("issue")) <= MaxTickets

RecordsInv ==
    /\ creds \subseteq Users /\ expired \subseteq DOMAIN owner /\ announced \subseteq DOMAIN owner
    /\ tickets \subseteq [id : Ticket, s : DOMAIN owner]
    /\ loop \in Tasks \cup {Free}
    /\ sock \in [Sockets -> {"new", "open", "ended", "left"}]
    /\ sockSess \in [Sockets -> {0} \cup DOMAIN owner]
    /\ due \subseteq Sockets /\ half \subseteq Sockets

\* The steps that need more of their task or of the model than a session.
Harmless(D) == {x \in TypedSteps(D) : x.do \notin Makers \cup {"password"}}

LEMMA IdleTyped == \A D : TaskTyped(Idle, D)
BY DEF Idle, TaskTyped, Ends, Has, Accounts

LEMMA TypedGrows ==
    ASSUME NEW D, NEW E, D \subseteq E, NEW t, TaskTyped(t, D)
    PROVE TaskTyped(t, E)
<1>1. TypedSteps(D) \subseteq TypedSteps(E)
    BY DEF TypedSteps
<1>2. t.script \in Seq(TypedSteps(E))
    BY <1>1 DEF TaskTyped
<1> QED
    BY <1>2 DEF TaskTyped

LEMMA TaskChanged ==
    ASSUME ScriptsInv, NEW p \in Tasks, NEW n, task' = [task EXCEPT ![p] = n]
    PROVE task'[p] = n /\ \A q \in Tasks : q # p => task'[q] = task[q]
BY DEF ScriptsInv, ScriptsOK

LEMMA TasksKept ==
    ASSUME ScriptsInv, TasksInv, NEW p \in Tasks, NEW n, task' = [task EXCEPT ![p] = n],
           DOMAIN owner \subseteq DOMAIN owner', TaskTyped(n, DOMAIN owner')
    PROVE TasksInv'
<1>1. ASSUME NEW q \in Tasks PROVE TaskTyped(task'[q], DOMAIN owner')
    <2>1. CASE q = p
        BY <2>1, TaskChanged
    <2>2. CASE q # p
        BY <2>2, TaskChanged, TypedGrows DEF TasksInv
    <2> QED
        BY <2>1, <2>2
<1>2. Tasks' = Tasks /\ (DOMAIN owner)' = DOMAIN owner'
    BY DEF Tasks
<1> QED
    BY <1>1, <1>2 DEF TasksInv, TaskTyped, TypedSteps, Ends, Has, Accounts

\* A task that does not come to a step d adds nobody to those who still have to take it.
LEMMA PendingKept ==
    ASSUME ScriptsInv, NEW p \in Tasks, NEW n, task' = [task EXCEPT ![p] = n], NEW d
    PROVE /\ Has(n.script, d) => Pending(d)' = Pending(d) \cup {p}
          /\ ~Has(n.script, d) => Pending(d)' = Pending(d) \ {p}
<1>1. Pending(d) = {q \in Tasks : Has(task[q].script, d)}
    BY DEF Pending, Has
<1>2. Pending(d)' = {q \in Tasks : Has(task'[q].script, d)}
    BY DEF Pending, Has, Tasks
<1>3. task'[p] = n /\ \A q \in Tasks : q # p => task'[q] = task[q]
    BY TaskChanged
<1>4. ASSUME NEW q \in Tasks
      PROVE q \in Pending(d)' <=> IF q = p THEN Has(n.script, d) ELSE q \in Pending(d)
    BY <1>1, <1>2, <1>3
<1>5. Pending(d) \subseteq Tasks /\ Pending(d)' \subseteq Tasks
    BY <1>1, <1>2
<1> QED
    BY <1>4, <1>5

LEMMA RoomKept ==
    ASSUME ScriptsInv, RoomInv, NEW p \in Tasks, NEW n, task' = [task EXCEPT ![p] = n],
           \A d \in Makers : Has(n.script, d) => Has(task[p].script, d),
           UNCHANGED <<owner, issued>>
    PROVE RoomInv'
<1>1. ASSUME NEW d \in Makers PROVE Pending(d)' \in SUBSET Pending(d)
    <2>1. Has(task[p].script, d) => p \in Pending(d)
        BY DEF Has, Pending
    <2> QED
        <3>1. /\ Has(n.script, d) => Pending(d)' = Pending(d) \cup {p}
              /\ ~Has(n.script, d) => Pending(d)' = Pending(d) \ {p}
            BY PendingKept
        <3> QED
            BY <2>1, <3>1
<1>2. ASSUME NEW d \in Makers, IsFiniteSet(Pending(d))
      PROVE /\ IsFiniteSet(Pending(d)') /\ Cardinality(Pending(d)') <= Cardinality(Pending(d))
            /\ Cardinality(Pending(d)') \in Nat /\ Cardinality(Pending(d)) \in Nat
    BY <1>1, <1>2, FS_Subset, FS_CardinalityType
<1>3. "open" \in Makers /\ "issue" \in Makers
    BY DEF Makers
<1>4. Len(owner) \in Nat /\ Len(owner)' = Len(owner) /\ issued' = issued
    BY DEF ScriptsInv, DataOK
<1>5. IsFiniteSet(Pending("open")') /\ Len(owner)' + Cardinality(Pending("open")') <= MaxSessions
    BY <1>2, <1>3, <1>4, SessionBoundsAssumption DEF RoomInv
<1>6. IsFiniteSet(Pending("issue")') /\ issued' \in Nat /\ issued' + Cardinality(Pending("issue")') <= MaxTickets
    BY <1>2, <1>3, <1>4, SessionBoundsAssumption DEF RoomInv
<1> QED
    BY <1>5, <1>6 DEF RoomInv

LEMMA TaskGoesOn ==
    ASSUME ScriptsInv, TasksInv, RoomInv, NEW p \in Tasks, NEW n, task' = [task EXCEPT ![p] = n],
           TaskTyped(n, DOMAIN owner), \A d \in Makers : Has(n.script, d) => Has(task[p].script, d),
           UNCHANGED <<owner, issued>>
    PROVE TasksInv' /\ RoomInv'
<1>1. RoomInv'
    BY RoomKept
<1>2. DOMAIN owner' = DOMAIN owner
    OBVIOUS
<1> QED
    BY <1>1, <1>2, TasksKept

\* Scripts made of harmless steps and of the rest of the old one.
LEMMA JoinedTyped ==
    ASSUME NEW D, NEW X \in Seq(Harmless(D)), NEW Y \in Seq(TypedSteps(D)), Ends(Y)
    PROVE /\ X \o Y \in Seq(TypedSteps(D)) /\ Ends(X \o Y)
          /\ \A d \in Makers \cup {"password"} : Has(X \o Y, d) => Has(Y, d)
<1>1. PICK m \in Nat, k \in Nat : /\ m = Len(X) /\ DOMAIN X = 1..m
                                  /\ k = Len(Y) /\ DOMAIN Y = 1..k
    OBVIOUS
<1>2. \A i \in 1..m : X[i] \in TypedSteps(D) /\ X[i].do \notin Makers \cup {"password"}
    BY <1>1 DEF Harmless
<1>3. X \in Seq(TypedSteps(D))
    BY <1>1, <1>2
<1>4. PICK sc : sc = X \o Y
    OBVIOUS
<1>5. /\ sc \in Seq(TypedSteps(D)) /\ Len(sc) = m + k /\ DOMAIN sc = 1..(m + k)
      /\ \A i \in 1..(m + k) : sc[i] = IF i <= m THEN X[i] ELSE Y[i - m]
    BY <1>1, <1>3, <1>4, ConcatProperties
<1>6. ASSUME NEW i \in DOMAIN sc, sc[i].do \in Makers \cup {"password"}
      PROVE i - m \in DOMAIN Y /\ sc[i] = Y[i - m]
    <2>1. i > m
        BY <1>1, <1>2, <1>5, <1>6
    <2> QED
        BY <1>1, <1>5, <2>1
<1>7. Ends(sc)
    BY <1>1, <1>5, <1>6 DEF Ends
<1> QED
    BY <1>4, <1>5, <1>6, <1>7 DEF Has

LEMMA SplicedTyped ==
    ASSUME NEW D, NEW old \in Seq(TypedSteps(D)), old # <<>>, Ends(old), NEW X \in Seq(Harmless(D)),
           NEW sc \in {X, X \o Tail(old)}
    PROVE /\ sc \in Seq(TypedSteps(D)) /\ Ends(sc)
          /\ \A d \in Makers \cup {"password"} : Has(sc, d) => Has(old, d)
<1>1. PICK Y \in Seq(TypedSteps(D)) : /\ Ends(Y) /\ sc = X \o Y
                                      /\ \A d : Has(Y, d) => Has(old, d)
    <2>1. CASE sc = X
        <3>1. <<>> \in Seq(TypedSteps(D)) /\ Ends(<<>>) /\ \A d : ~Has(<<>>, d)
            BY DEF Ends, Has
        <3>2. X = X \o <<>>
            OBVIOUS
        <3> QED
            BY <2>1, <3>1, <3>2
    <2>2. CASE sc = X \o Tail(old)
        <3>0. PICK k \in Nat : k = Len(old) /\ DOMAIN old = 1..k /\ k > 0
            OBVIOUS
        <3>1. PICK Y : k = Len(old) /\ DOMAIN old = 1..k /\ k > 0 /\ Y = Tail(old)
            BY <3>0
        <3>2. /\ Y \in Seq(TypedSteps(D)) /\ Len(Y) = k - 1 /\ DOMAIN Y = 1..(k - 1)
              /\ \A i \in 1..(k - 1) : Y[i] = old[i + 1]
            BY <3>1, HeadTailProperties
        <3>3. Ends(Y)
            BY <3>1, <3>2 DEF Ends
        <3>4. \A d : Has(Y, d) => Has(old, d)
            BY <3>1, <3>2 DEF Has
        <3> QED
            BY <2>2, <3>1, <3>2, <3>3, <3>4
    <2> QED
        BY <2>1, <2>2
<1> QED
    BY <1>1, JoinedTyped

-----------------------------------------------------------------------------
(* Tasks keep their types.                                                  *)

LEMMA ResumeTyped ==
    ASSUME ScriptsInv, TasksInv, RoomInv, NEW p \in Tasks, NEW t, TaskTyped(t, DOMAIN owner),
           \A d \in Makers : Has(t.script, d) => Has(task[p].script, d),
           Resume(p, t), UNCHANGED <<owner, issued>>
    PROVE TasksInv' /\ RoomInv' /\ loop' \in Tasks \cup {Free}
<1>1. PICK n : n = IF t.script = <<>> THEN Idle ELSE t
    OBVIOUS
<1>2. task' = [task EXCEPT ![p] = n] /\ loop' \in {Free, p}
    BY <1>1 DEF Resume
<1>3. TaskTyped(n, DOMAIN owner)
    BY <1>1, IdleTyped
<1>4. n.script = t.script
    BY <1>1 DEF Idle
<1>5. \A d \in Makers : Has(n.script, d) => Has(task[p].script, d)
    BY <1>4
<1>6. TasksInv' /\ RoomInv'
    BY <1>2, <1>3, <1>5, TaskGoesOn
<1> QED
    BY <1>2, <1>6

\* A task with another script.
LEMMA NewScript ==
    ASSUME ScriptsInv, TasksInv, NEW p \in Tasks, NEW sc \in Seq(TypedSteps(DOMAIN owner)), Ends(sc),
           Has(sc, "password") => Has(task[p].script, "password"), NEW f \in BOOLEAN,
           NEW t \in {[task[p] EXCEPT !.script = sc], [task[p] EXCEPT !.script = sc, !.found = f]}
    PROVE TaskTyped(t, DOMAIN owner) /\ t.script = sc
<1>1. TaskShape(task[p])
    BY DEF ScriptsInv, ScriptsOK, TaskOK
<1>2. /\ t.script = sc /\ t.user = task[p].user /\ t.snap = task[p].snap /\ t.keep = task[p].keep
      /\ t.before = task[p].before /\ t.found \in {task[p].found, f}
    BY <1>1 DEF TaskShape
<1>3. TaskTyped(task[p], DOMAIN owner)
    BY DEF TasksInv
<1> QED
    BY <1>2, <1>3 DEF TaskTyped

LEMMA GoOnTyped ==
    ASSUME ScriptsInv, TasksInv, RoomInv, NEW p \in Tasks, task[p].script # <<>>,
           NEW X \in Seq(Harmless(DOMAIN owner)), NEW sc \in {X, X \o Rest(p)}, GoOn(p, sc),
           UNCHANGED <<owner, issued>>
    PROVE TasksInv' /\ RoomInv' /\ loop' \in Tasks \cup {Free}
<1>1. task[p].script \in Seq(TypedSteps(DOMAIN owner)) /\ Ends(task[p].script)
    BY DEF TasksInv, TaskTyped
<1>2. sc \in {X, X \o Tail(task[p].script)}
    BY DEF Rest
<1>3. /\ sc \in Seq(TypedSteps(DOMAIN owner)) /\ Ends(sc)
      /\ \A d \in Makers \cup {"password"} : Has(sc, d) => Has(task[p].script, d)
    BY <1>1, <1>2, SplicedTyped
<1>4. PICK t : t = [task[p] EXCEPT !.script = sc]
    OBVIOUS
<1>5. TaskTyped(t, DOMAIN owner) /\ t.script = sc
    BY <1>3, <1>4, NewScript
<1>6. Resume(p, t)
    BY <1>4 DEF GoOn
<1> QED
    BY <1>3, <1>5, <1>6, ResumeTyped

LEMMA RestTyped ==
    ASSUME ScriptsInv, TasksInv, RoomInv, NEW p \in Tasks, task[p].script # <<>>,
           GoOn(p, Rest(p)) \/ Abort(p), UNCHANGED <<owner, issued>>
    PROVE TasksInv' /\ RoomInv' /\ loop' \in Tasks \cup {Free}
<1>1. <<>> \in Seq(Harmless(DOMAIN owner))
    OBVIOUS
<1>2. Rest(p) = <<>> \o Rest(p)
    <2>1. task[p].script \in Seq(Steps)
        BY DEF ScriptsInv, ScriptsOK, TaskOK, Scripts
    <2>2. Rest(p) \in Seq(Steps)
        BY <2>1, HeadTailProperties DEF Rest
    <2> QED
        BY <2>2
<1>3. PICK X, sc : X = <<>> /\ sc \in {X, X \o Rest(p)} /\ GoOn(p, sc)
    BY <1>2 DEF Abort
<1> QED
    BY <1>1, <1>3, GoOnTyped

LEMMA RestOfScript ==
    ASSUME TasksInv, NEW p \in Tasks, task[p].script # <<>>
    PROVE /\ Rest(p) \in Seq(TypedSteps(DOMAIN owner)) /\ Ends(Rest(p))
          /\ \A d \in Makers \cup {"password"} : Has(Rest(p), d) => Has(task[p].script, d)
<1>1. PICK old, X, sc : old = task[p].script /\ X = <<>> /\ sc = X \o Tail(old)
    OBVIOUS
<1>2. old \in Seq(TypedSteps(DOMAIN owner)) /\ old # <<>> /\ Ends(old)
    BY <1>1 DEF TasksInv, TaskTyped
<1>3. X \in Seq(Harmless(DOMAIN owner)) /\ sc = Rest(p)
    BY <1>1, <1>2, HeadTailProperties DEF Rest
<1>4. /\ sc \in Seq(TypedSteps(DOMAIN owner)) /\ Ends(sc)
      /\ \A d \in Makers \cup {"password"} : Has(sc, d) => Has(old, d)
    <2>1. sc \in {X, X \o Tail(old)}
        BY <1>1
    <2> QED
        BY <1>2, <1>3, <2>1, SplicedTyped
<1> QED
    BY <1>1, <1>3, <1>4

\* The steps of all scripts.
LEMMA TypedOnes ==
    ASSUME NEW D
    PROVE /\ \A d \in {"session", "user", "touch", "lookup", "logout", "expire", "scan", "revoke",
                       "announce", "kick", "bind"}, s \in D : StepOn(d, s) \in Harmless(D)
          /\ \A w \in Sockets : StepOn("send", w) \in Harmless(D)
          /\ \A d \in {"reserve", "credentials", "verify", "stamp", "notify", "list", "flag", "disable",
                       "enable", "delete", "forget", "all", "before", "purge", "compare", "clear"} :
                Step(d) \in Harmless(D)
          /\ \A s \in D : StepOn("issue", s) \in TypedSteps(D)
          /\ Step("open") \in TypedSteps(D) /\ Step("password") \in TypedSteps(D)
<1>1. ASSUME NEW d \in StepNames, NEW x \in {0} \cup D \cup Sockets,
             d \in OnSession => x \in D, d = "send" => x \in Sockets
      PROVE StepOn(d, x) \in TypedSteps(D) /\ StepOn(d, x).do = d
    BY <1>1 DEF StepOn, TypedSteps
<1>2. ASSUME NEW d \in StepNames \ OnSession, d # "send"
      PROVE Step(d) \in TypedSteps(D) /\ Step(d).do = d
    BY <1>2 DEF Step, TypedSteps
<1>3. ASSUME NEW d \in {"session", "user", "touch", "lookup", "logout", "expire", "scan", "revoke",
                       "announce", "kick", "bind"}
      PROVE d \in StepNames /\ d \notin Makers \cup {"password"} /\ d # "send"
    BY DEF StepNames, Makers
<1>4. ASSUME NEW d \in {"reserve", "credentials", "verify", "stamp", "notify", "list", "flag", "disable",
                       "enable", "delete", "forget", "all", "before", "purge", "compare", "clear"}
      PROVE d \in StepNames \ OnSession /\ d # "send" /\ d \notin Makers \cup {"password"}
    BY DEF StepNames, OnSession, Makers
<1>5. /\ "send" \in StepNames \ OnSession /\ "send" \notin Makers \cup {"password"}
      /\ "issue" \in StepNames /\ {"open", "password"} \subseteq StepNames \ OnSession
    BY DEF StepNames, OnSession, Makers
<1>6. ASSUME NEW d \in {"session", "user", "touch", "lookup", "logout", "expire", "scan", "revoke",
                       "announce", "kick", "bind"}, NEW s \in D
      PROVE StepOn(d, s) \in Harmless(D)
    <2>1. d \in StepNames /\ d \notin Makers \cup {"password"} /\ d # "send"
        BY <1>3
    <2>2. StepOn(d, s) \in TypedSteps(D) /\ StepOn(d, s).do = d
        BY <1>1, <2>1
    <2> QED
        BY <2>1, <2>2 DEF Harmless
<1>7. ASSUME NEW w \in Sockets PROVE StepOn("send", w) \in Harmless(D)
    BY <1>1, <1>5 DEF Harmless
<1>8. ASSUME NEW d \in {"reserve", "credentials", "verify", "stamp", "notify", "list", "flag", "disable",
                       "enable", "delete", "forget", "all", "before", "purge", "compare", "clear"}
      PROVE Step(d) \in Harmless(D)
    BY <1>2, <1>4 DEF Harmless
<1>9. ASSUME NEW s \in D PROVE StepOn("issue", s) \in TypedSteps(D)
    <2>1. "issue" # "send"
        OBVIOUS
    <2> QED
        BY <1>1, <1>5, <2>1
<1>10. Step("open") \in TypedSteps(D) /\ Step("password") \in TypedSteps(D)
    BY <1>2, <1>5
<1> QED
    BY <1>6, <1>7, <1>8, <1>9, <1>10

LEMMA HarmlessTuples ==
    ASSUME NEW D
    PROVE /\ \A a \in Harmless(D) : <<a>> \in Seq(Harmless(D))
          /\ \A a, b \in Harmless(D) : <<a, b>> \in Seq(Harmless(D))
          /\ \A a, b, c \in Harmless(D) : <<a, b, c>> \in Seq(Harmless(D))
          /\ \A a, b, c, d \in Harmless(D) : <<a, b, c, d>> \in Seq(Harmless(D))
          /\ <<>> \in Seq(Harmless(D))
          /\ \A a, b \in Seq(Harmless(D)) : a \o b \in Seq(Harmless(D))
OBVIOUS

\* One step for each session of a list, and the revocations of revoke_user_sessions.
LEMMA HarmlessEach ==
    ASSUME NEW D \in SUBSET Nat, IsFiniteSet(D), NEW S, S \subseteq D
    PROVE /\ InOrder(S) \in Seq(D)
          /\ \A d \in {"scan", "announce"} :
                [i \in DOMAIN InOrder(S) |-> StepOn(d, InOrder(S)[i])] \in Seq(Harmless(D))
          /\ RevokeEach(InOrder(S)) \in Seq(Harmless(D))
<1>1. S \in SUBSET Nat /\ IsFiniteSet(S)
    BY FS_Subset
<1>2. PICK order : order = InOrder(S)
    OBVIOUS
<1>3. order \in Seq(Nat) /\ \A i \in DOMAIN order : order[i] \in S
    BY <1>1, <1>2, InOrderLists
<1>4. PICK L \in Nat : L = Len(order) /\ DOMAIN order = 1..L
    BY <1>3
<1>5. order \in Seq(D)
    BY <1>3, <1>4
<1>6. ASSUME NEW d \in {"scan", "announce"}
      PROVE [i \in DOMAIN order |-> StepOn(d, order[i])] \in Seq(Harmless(D))
    <2>1. \A i \in 1..L : StepOn(d, order[i]) \in Harmless(D)
        BY <1>3, <1>4, TypedOnes
    <2> QED
        BY <1>4, <2>1
<1>7. RevokeEach(order) \in Seq(Harmless(D))
    <2>1. \A s \in D, b \in 1..4 : Revocation(s)[b] \in Harmless(D)
        <3> SUFFICES ASSUME NEW s \in D PROVE \A b \in 1..4 : Revocation(s)[b] \in Harmless(D)
            OBVIOUS
        <3>1. /\ StepOn("revoke", s) \in Harmless(D) /\ StepOn("announce", s) \in Harmless(D)
              /\ StepOn("kick", s) \in Harmless(D) /\ Step("notify") \in Harmless(D)
            BY TypedOnes
        <3> QED
            BY <3>1 DEF Revocation
    <2>2. Len(Revocation(0)) = 4
        BY DEF Revocation
    <2>3. RevokeEach(order) = [i \in 1..(L * 4) |-> Revocation(order[((i - 1) \div 4) + 1])[((i - 1) % 4) + 1]]
        BY <1>4, <2>2 DEF RevokeEach
    <2>4. ASSUME NEW i \in 1..(L * 4)
          PROVE ((i - 1) \div 4) + 1 \in 1..L /\ ((i - 1) % 4) + 1 \in 1..4
        <3>1. PICK q \in Int, r \in 0..3 : q = (i - 1) \div 4 /\ r = (i - 1) % 4
            OBVIOUS
        <3>2. i - 1 = 4 * q + r
            BY <3>1
        <3>3. q + 1 \in 1..L /\ r + 1 \in 1..4
            BY <3>2
        <3> QED
            BY <3>1, <3>3
    <2>5. \A i \in 1..(L * 4) : Revocation(order[((i - 1) \div 4) + 1])[((i - 1) % 4) + 1] \in Harmless(D)
        <3> SUFFICES ASSUME NEW i \in 1..(L * 4)
                     PROVE Revocation(order[((i - 1) \div 4) + 1])[((i - 1) % 4) + 1] \in Harmless(D)
            OBVIOUS
        <3>1. PICK a \in 1..L, b \in 1..4 : a = ((i - 1) \div 4) + 1 /\ b = ((i - 1) % 4) + 1
            BY <2>4
        <3>2. order[a] \in D
            BY <1>3, <1>4
        <3>3. Revocation(order[a])[b] \in Harmless(D)
            BY <2>1, <3>2
        <3> QED
            BY <3>1, <3>3
    <2>6. L * 4 \in Nat
        OBVIOUS
    <2> QED
        BY <2>3, <2>5, <2>6
<1> QED
    BY <1>2, <1>5, <1>6, <1>7

\* The session that a step is about has been opened.
LEMMA ArgTyped ==
    ASSUME TasksInv, NEW p \in Tasks, NEW d, At(p, d)
    PROVE /\ task[p].script # <<>> /\ Has(task[p].script, d)
          /\ d \in OnSession => Arg(p) \in DOMAIN owner
          /\ d \in Makers => Rest(p) = <<>>
          /\ d = "password" => task[p].user \in Users
<1>1. PICK sc : sc = task[p].script
    OBVIOUS
<1>2. sc \in Seq(TypedSteps(DOMAIN owner)) /\ sc # <<>> /\ Head(sc).do = d /\ Ends(sc)
    BY <1>1 DEF TasksInv, TaskTyped, At
<1>3. 1 \in DOMAIN sc /\ Head(sc) = sc[1] /\ sc[1] \in TypedSteps(DOMAIN owner)
    BY <1>2
<1>4. Has(sc, d)
    BY <1>2, <1>3 DEF Has
<1>5. d \in OnSession => Arg(p) \in DOMAIN owner
    BY <1>1, <1>2, <1>3 DEF Arg, TypedSteps
<1>6. ASSUME d \in Makers PROVE Rest(p) = <<>>
    <2>1. Len(sc) = 1
        BY <1>2, <1>3, <1>6 DEF Ends
    <2>2. Tail(sc) \in Seq(TypedSteps(DOMAIN owner)) /\ Len(Tail(sc)) = 0
        BY <1>2, <2>1, HeadTailProperties
    <2>3. Tail(sc) = <<>>
        BY <2>2, EmptySeq
    <2> QED
        BY <1>1, <2>3 DEF Rest
<1> QED
    BY <1>1, <1>2, <1>4, <1>5, <1>6 DEF TasksInv, TaskTyped

TypesInv == TasksInv /\ RoomInv /\ RecordsInv

LEMMA RecordsKept ==
    ASSUME RecordsInv, loop' \in Tasks \cup {Free}, UNCHANGED <<owner, sock, sockSess, half>>,
           creds' \subseteq Users, expired' \subseteq DOMAIN owner, announced' \subseteq DOMAIN owner,
           tickets' \subseteq tickets, due' \subseteq Sockets
    PROVE RecordsInv'
BY DEF RecordsInv, Ticket, Tasks

LEMMA PasswordTyped ==
    ASSUME ScriptsInv, TypesInv, NEW p \in Tasks, PasswordStep(p)
    PROVE TypesInv'
<1>1. TasksInv /\ RoomInv /\ RecordsInv
    BY DEF TypesInv
<1>2. /\ UNCHANGED <<owner, issued, sock, sockSess, half, due, tickets, expired, announced>>
      /\ task[p].script # <<>>
    BY DEF PasswordStep, Reserve, ReadCredentials, Verify, StampLogin, SetPassword, ClearPending,
           FlagPending, UpdateAccount, At, sessions, sockets, doors
<1>3. creds' \subseteq Users
    <2>1. creds' = creds \/ SetPassword(p)
        BY DEF PasswordStep, Reserve, ReadCredentials, Verify, StampLogin, ClearPending, FlagPending, accounts
    <2>2. ASSUME SetPassword(p) PROVE task[p].user \in Users /\ creds' = creds \cup {task[p].user}
        <3>1. At(p, "password")
            BY <2>2 DEF SetPassword
        <3> QED
            BY <1>1, <2>2, <3>1, ArgTyped DEF SetPassword
    <2> QED
        BY <1>1, <2>1, <2>2 DEF RecordsInv
<1>4. CASE ReadCredentials(p)
    <2>1. PICK f \in BOOLEAN : f = (task[p].user \in creds)
        <3>1. (task[p].user \in creds) \in BOOLEAN
            OBVIOUS
        <3> QED
            BY <3>1, Zenon
    <2>2. PICK t : t = [task[p] EXCEPT !.script = Rest(p), !.found = f]
        OBVIOUS
    <2>3. Resume(p, t)
        BY <1>4, <2>1, <2>2 DEF ReadCredentials
    <2>4. /\ Rest(p) \in Seq(TypedSteps(DOMAIN owner)) /\ Ends(Rest(p))
          /\ \A d \in Makers \cup {"password"} : Has(Rest(p), d) => Has(task[p].script, d)
        BY <1>1, <1>2, RestOfScript
    <2>5. TaskTyped(t, DOMAIN owner) /\ t.script = Rest(p)
        BY <1>1, <2>1, <2>2, <2>4, NewScript
    <2>6. TasksInv' /\ RoomInv' /\ loop' \in Tasks \cup {Free}
        BY <1>1, <1>2, <2>3, <2>4, <2>5, ResumeTyped
    <2> QED
        BY <1>1, <1>2, <1>3, <2>6, RecordsKept DEF TypesInv, RecordsInv
<1>5. CASE GoOn(p, Rest(p)) \/ Abort(p)
    <2>1. TasksInv' /\ RoomInv' /\ loop' \in Tasks \cup {Free}
        BY <1>1, <1>2, <1>5, RestTyped
    <2> QED
        BY <1>1, <1>2, <1>3, <2>1, RecordsKept DEF TypesInv, RecordsInv
<1> QED
    BY <1>4, <1>5 DEF PasswordStep, Reserve, Verify, StampLogin, SetPassword, ClearPending,
                      FlagPending, UpdateAccount

LEMMA AccountTyped ==
    ASSUME ScriptsInv, TypesInv, NEW p \in Tasks, AccountStep(p)
    PROVE TypesInv'
<1>1. TasksInv /\ RoomInv /\ RecordsInv
    BY DEF TypesInv
<1>2. /\ UNCHANGED <<owner, issued, sock, sockSess, half, due, tickets, expired, announced>>
      /\ task[p].script # <<>> /\ (GoOn(p, Rest(p)) \/ Abort(p)) /\ creds' \subseteq creds
    BY DEF AccountStep, SetDisabled, RemoveUser, Forget, At, sessions, sockets, doors
<1>3. TasksInv' /\ RoomInv' /\ loop' \in Tasks \cup {Free}
    BY <1>1, <1>2, RestTyped
<1> QED
    BY <1>1, <1>2, <1>3, RecordsKept DEF TypesInv, RecordsInv

\* The steps that go on with the rest of their script or return early.
LEMMA SessionRestTyped ==
    ASSUME ScriptsInv, TypesInv, NEW p \in Tasks,
           \/ FindUser(p) \/ TouchSession(p) \/ LookUp(p) \/ LogoutStep(p) \/ RevokeStep(p)
           \/ ExpireStep(p) \/ Announce(p) \/ Notify(p)
    PROVE TypesInv'
<1>1. TasksInv /\ RoomInv /\ RecordsInv
    BY DEF TypesInv
<1>2. /\ UNCHANGED <<owner, issued, sock, sockSess, half, creds>>
      /\ task[p].script # <<>> /\ (GoOn(p, Rest(p)) \/ Abort(p))
      /\ tickets' \subseteq tickets /\ expired' \subseteq expired /\ due' \subseteq due \cup Sockets
    BY DEF FindUser, TouchSession, LookUp, LogoutStep, RevokeStep, EndSession, ExpireStep, Announce,
           Notify, At, accounts, sessions, sockets, doors
<1>3. announced' \subseteq DOMAIN owner
    <2>1. announced' = announced \/ Announce(p)
        BY DEF FindUser, TouchSession, LookUp, LogoutStep, RevokeStep, EndSession, ExpireStep, Notify
    <2>2. ASSUME Announce(p) PROVE announced' = announced \cup {Arg(p)} /\ Arg(p) \in DOMAIN owner
        <3>1. At(p, "announce") /\ "announce" \in OnSession
            BY <2>2 DEF Announce, OnSession
        <3> QED
            BY <1>1, <2>2, <3>1, ArgTyped DEF Announce
    <2> QED
        BY <1>1, <2>1, <2>2 DEF RecordsInv
<1>4. TasksInv' /\ RoomInv' /\ loop' \in Tasks \cup {Free}
    BY <1>1, <1>2, RestTyped
<1> QED
    BY <1>1, <1>2, <1>3, <1>4, RecordsKept DEF TypesInv, RecordsInv

\* The steps that put other steps in front.
LEMMA SessionListsTyped ==
    ASSUME ScriptsInv, TypesInv, NEW p \in Tasks,
           FindSession(p) \/ Kick(p) \/ ListToRevoke(p) \/ ListAll(p) \/ ScanSession(p)
    PROVE TypesInv'
<1> DEFINE D == DOMAIN owner
<1>1. TasksInv /\ RoomInv /\ RecordsInv
    BY DEF TypesInv
<1>2. /\ UNCHANGED <<owner, issued, sock, sockSess, half, due, creds, tickets, expired, announced>>
      /\ task[p].script # <<>>
    BY DEF FindSession, Kick, ListToRevoke, ListAll, ScanSession, At, accounts, sessions, sockets, doors
<1>3. D \in SUBSET Nat /\ IsFiniteSet(D) /\ live \subseteq D
    BY FiniteSessions DEF ScriptsInv, DataOK
<1>4. ASSUME NEW X \in Seq(Harmless(D)), NEW sc \in {X, X \o Rest(p)}, GoOn(p, sc)
      PROVE TypesInv'
    <2>1. TasksInv' /\ RoomInv' /\ loop' \in Tasks \cup {Free}
        BY <1>1, <1>2, <1>4, GoOnTyped
    <2> QED
        BY <1>1, <1>2, <2>1, RecordsKept DEF TypesInv, RecordsInv
<1>5. ASSUME GoOn(p, Rest(p)) \/ Abort(p) PROVE TypesInv'
    <2>1. TasksInv' /\ RoomInv' /\ loop' \in Tasks \cup {Free}
        BY <1>1, <1>2, <1>5, RestTyped
    <2> QED
        BY <1>1, <1>2, <2>1, RecordsKept DEF TypesInv, RecordsInv
<1>6. ASSUME NEW s \in D PROVE <<StepOn("expire", s), StepOn("announce", s)>> \in Seq(Harmless(D))
    BY TypedOnes, HarmlessTuples
<1> HIDE DEF D
<1>7. CASE FindSession(p)
    <2>1. At(p, "session") /\ "session" \in OnSession
        BY <1>7 DEF FindSession, OnSession
    <2>2. PICK s \in D : s = Arg(p)
        BY <1>1, <2>1, ArgTyped DEF D
    <2>3. \/ Abort(p) \/ GoOn(p, Rest(p)) \/ GoOn(p, <<StepOn("expire", s), StepOn("announce", s)>>)
        BY <1>7, <2>2 DEF FindSession
    <2> QED
        BY <1>4, <1>5, <1>6, <2>3
<1>8. CASE ScanSession(p)
    <2>1. At(p, "scan") /\ "scan" \in OnSession
        BY <1>8 DEF ScanSession, OnSession
    <2>2. PICK s \in D : s = Arg(p)
        BY <1>1, <2>1, ArgTyped DEF D
    <2>3. \/ GoOn(p, Rest(p)) \/ GoOn(p, <<StepOn("expire", s), StepOn("announce", s)>> \o Rest(p))
        BY <1>8, <2>2 DEF ScanSession
    <2> QED
        BY <1>4, <1>5, <1>6, <2>3
<1>9. CASE ListToRevoke(p)
    <2>1. PICK S : S \subseteq live /\ GoOn(p, RevokeEach(InOrder(S)) \o Rest(p))
        BY <1>9 DEF ListToRevoke
    <2>2. RevokeEach(InOrder(S)) \in Seq(Harmless(D))
        BY <1>3, <2>1, HarmlessEach
    <2> QED
        BY <1>4, <2>1, <2>2
<1>10. CASE ListAll(p)
    <2>1. PICK X : X = [i \in DOMAIN InOrder(live) |-> StepOn("scan", InOrder(live)[i])]
        OBVIOUS
    <2>2. X \in Seq(Harmless(D))
        BY <1>3, <2>1, HarmlessEach
    <2>3. GoOn(p, X)
        BY <1>10, <2>1 DEF ListAll
    <2> QED
        BY <1>4, <2>2, <2>3
<1>11. CASE Kick(p)
    <2>1. PICK S, q : /\ S = SocketsOf(owner[Arg(p)]) /\ q \in SetToSeqs(S)
                      /\ GoOn(p, [i \in DOMAIN q |-> StepOn("send", q[i])] \o Rest(p))
        BY <1>11 DEF Kick
    <2>2. S \in SUBSET Sockets /\ IsFiniteSet(Sockets)
        BY <2>1, TasksAssumption DEF SocketsOf
    <2>3. PICK m \in Nat : m = Cardinality(S)
        BY <2>2, FS_Subset, FS_CardinalityType
    <2>4. q \in [1..m -> S]
        BY <2>1, <2>3 DEF SetToSeqs
    <2>5. PICK X : X = [i \in DOMAIN q |-> StepOn("send", q[i])]
        OBVIOUS
    <2>6. \A i \in 1..m : StepOn("send", q[i]) \in Harmless(D)
        BY <2>2, <2>4, TypedOnes
    <2>7. X \in Seq(Harmless(D))
        BY <2>4, <2>5, <2>6
    <2> QED
        BY <1>4, <2>1, <2>5, <2>7
<1> QED
    BY <1>7, <1>8, <1>9, <1>10, <1>11

LEMMA SendTyped ==
    ASSUME ScriptsInv, TypesInv, NEW p \in Tasks, SendKick(p)
    PROVE TypesInv'
<1>1. TasksInv /\ RoomInv /\ RecordsInv
    BY DEF TypesInv
<1>2. PICK n : n = [task[p] EXCEPT !.script = Rest(p)]
    OBVIOUS
<1>3. /\ UNCHANGED <<owner, issued, sock, sockSess, half, due, creds, tickets, expired, announced>>
      /\ task[p].script # <<>> /\ task' = [task EXCEPT ![p] = n] /\ loop' = Free
    BY <1>2 DEF SendKick, At, accounts, sessions, sockets, doors
<1>4. /\ Rest(p) \in Seq(TypedSteps(DOMAIN owner)) /\ Ends(Rest(p))
      /\ \A d \in Makers \cup {"password"} : Has(Rest(p), d) => Has(task[p].script, d)
    BY <1>1, <1>3, RestOfScript
<1>5. TaskTyped(n, DOMAIN owner) /\ n.script = Rest(p)
    BY <1>1, <1>2, <1>4, NewScript
<1>6. TasksInv' /\ RoomInv'
    BY <1>1, <1>3, <1>4, <1>5, TaskGoesOn
<1> QED
    BY <1>1, <1>3, <1>6, RecordsKept DEF TypesInv, RecordsInv

\* A task that ends leaves the room it may have held.
LEMMA PendingEnds ==
    ASSUME ScriptsInv, RoomInv, NEW p \in Tasks, task' = [task EXCEPT ![p] = Idle], NEW d \in Makers
    PROVE /\ IsFiniteSet(Pending(d)') /\ Cardinality(Pending(d)') \in Nat /\ Cardinality(Pending(d)) \in Nat
          /\ Cardinality(Pending(d)') <= Cardinality(Pending(d))
          /\ Has(task[p].script, d) => Cardinality(Pending(d)') = Cardinality(Pending(d)) - 1
<1>1. ~Has(Idle.script, d)
    BY DEF Has, Idle
<1>2. Pending(d)' = Pending(d) \ {p}
    BY <1>1, PendingKept
<1>3. IsFiniteSet(Pending(d))
    BY DEF RoomInv, Makers
<1>4. Has(task[p].script, d) => p \in Pending(d)
    BY DEF Has, Pending
<1>5. /\ IsFiniteSet(Pending(d) \ {p}) /\ Cardinality(Pending(d)) \in Nat
      /\ Cardinality(Pending(d) \ {p}) = IF p \in Pending(d) THEN Cardinality(Pending(d)) - 1 ELSE Cardinality(Pending(d))
    BY <1>3, FS_RemoveElement, FS_CardinalityType
<1>6. Cardinality(Pending(d) \ {p}) \in Nat
    BY <1>5, FS_CardinalityType
<1> QED
    BY <1>2, <1>4, <1>5, <1>6

LEMMA MakerEnds ==
    ASSUME ScriptsInv, TasksInv, NEW p \in Tasks, NEW d \in Makers, At(p, d), GoOn(p, Rest(p))
    PROVE task' = [task EXCEPT ![p] = Idle] /\ loop' = Free /\ Has(task[p].script, d)
<1>1. Rest(p) = <<>> /\ Has(task[p].script, d)
    BY ArgTyped
<1>2. PICK t : t = [task[p] EXCEPT !.script = <<>>] /\ Resume(p, t)
    BY <1>1 DEF GoOn
<1>3. t.script = <<>>
    BY <1>2 DEF ScriptsInv, ScriptsOK, TaskOK, TaskShape
<1> QED
    BY <1>1, <1>2, <1>3 DEF Resume

LEMMA OpenTyped ==
    ASSUME ScriptsInv, TypesInv, NEW p \in Tasks, OpenSession(p)
    PROVE TypesInv'
<1>1. TasksInv /\ RoomInv /\ RecordsInv /\ "open" \in Makers /\ "issue" \in Makers
    BY DEF TypesInv, Makers
<1>2. /\ At(p, "open") /\ GoOn(p, Rest(p)) /\ owner' = Append(owner, task[p].user)
      /\ UNCHANGED <<issued, sock, sockSess, half, due, creds, tickets, expired, announced>>
    BY DEF OpenSession, accounts, sockets, doors
<1>3. task' = [task EXCEPT ![p] = Idle] /\ loop' = Free /\ Has(task[p].script, "open")
    BY <1>1, <1>2, MakerEnds
<1>4. owner \in Seq(Users) /\ task[p].user \in Users
    BY <1>3 DEF ScriptsInv, ScriptsOK, TaskOK, DataOK
<1>5. /\ DOMAIN owner \subseteq DOMAIN owner' /\ Len(owner') = Len(owner) + 1 /\ Len(owner) \in Nat
    BY <1>2, <1>4
<1>6. TasksInv'
    BY <1>1, <1>3, <1>5, IdleTyped, TasksKept
<1>7. /\ IsFiniteSet(Pending("open")') /\ Len(owner') + Cardinality(Pending("open")') <= MaxSessions
    <2>1. /\ IsFiniteSet(Pending("open")') /\ Cardinality(Pending("open")) \in Nat
          /\ Cardinality(Pending("open")') = Cardinality(Pending("open")) - 1
        BY <1>1, <1>3, PendingEnds
    <2> QED
        BY <1>1, <1>5, <2>1, SessionBoundsAssumption DEF RoomInv
<1>8. /\ IsFiniteSet(Pending("issue")') /\ issued' \in Nat /\ issued' + Cardinality(Pending("issue")') <= MaxTickets
    <2>1. /\ IsFiniteSet(Pending("issue")') /\ Cardinality(Pending("issue")) \in Nat
          /\ Cardinality(Pending("issue")') \in Nat
          /\ Cardinality(Pending("issue")') <= Cardinality(Pending("issue"))
        BY <1>1, <1>3, PendingEnds
    <2> QED
        BY <1>1, <1>2, <2>1, SessionBoundsAssumption DEF RoomInv
<1>9. RoomInv'
    BY <1>7, <1>8 DEF RoomInv
<1>10. RecordsInv'
    <2>1. [id : Ticket, s : DOMAIN owner] \subseteq [id : Ticket, s : DOMAIN owner']
        BY <1>5
    <2>2. sockSess' \in [Sockets -> {0} \cup DOMAIN owner']
        BY <1>1, <1>2, <1>5 DEF RecordsInv
    <2> QED
        BY <1>1, <1>2, <1>3, <1>5, <2>1, <2>2 DEF RecordsInv, Ticket, Tasks
<1> QED
    BY <1>6, <1>9, <1>10 DEF TypesInv

LEMMA IssueTyped ==
    ASSUME ScriptsInv, TypesInv, NEW p \in Tasks, IssueTicketStep(p)
    PROVE TypesInv'
<1>1. TasksInv /\ RoomInv /\ RecordsInv /\ "open" \in Makers /\ "issue" \in Makers
    BY DEF TypesInv, Makers
<1>2. /\ At(p, "issue") /\ GoOn(p, Rest(p)) /\ issued' = issued + 1
      /\ tickets' = tickets \cup {[id |-> issued + 1, s |-> Arg(p)]}
      /\ UNCHANGED <<owner, sock, sockSess, half, due, creds, expired, announced>>
    BY DEF IssueTicketStep, accounts, sessions, sockets
<1>3. task' = [task EXCEPT ![p] = Idle] /\ loop' = Free /\ Has(task[p].script, "issue")
    BY <1>1, <1>2, MakerEnds
<1>4. Arg(p) \in DOMAIN owner
    BY <1>1, <1>2, ArgTyped DEF OnSession
<1>5. TasksInv'
    BY <1>1, <1>2, <1>3, IdleTyped, TasksKept
<1>6. /\ IsFiniteSet(Pending("issue")') /\ issued' \in Nat /\ issued' + Cardinality(Pending("issue")') <= MaxTickets
      /\ issued' <= MaxTickets
    <2>1. /\ IsFiniteSet(Pending("issue")') /\ Cardinality(Pending("issue")) \in Nat
          /\ Cardinality(Pending("issue")') \in Nat
          /\ Cardinality(Pending("issue")') = Cardinality(Pending("issue")) - 1
        BY <1>1, <1>3, PendingEnds
    <2> QED
        BY <1>1, <1>2, <2>1, SessionBoundsAssumption DEF RoomInv
<1>7. IsFiniteSet(Pending("open")') /\ Len(owner') + Cardinality(Pending("open")') <= MaxSessions
    <2>1. /\ IsFiniteSet(Pending("open")') /\ Cardinality(Pending("open")) \in Nat
          /\ Cardinality(Pending("open")') \in Nat
          /\ Cardinality(Pending("open")') <= Cardinality(Pending("open"))
        BY <1>1, <1>3, PendingEnds
    <2>2. Len(owner) \in Nat
        BY DEF ScriptsInv, DataOK
    <2> QED
        BY <1>1, <1>2, <2>1, <2>2, SessionBoundsAssumption DEF RoomInv
<1>8. RoomInv'
    BY <1>6, <1>7 DEF RoomInv
<1>9. RecordsInv'
    <2>1. issued + 1 \in Ticket
        BY <1>1, <1>2, <1>6, SessionBoundsAssumption DEF Ticket, RoomInv
    <2>2. [id |-> issued + 1, s |-> Arg(p)] \in [id : Ticket, s : DOMAIN owner]
        BY <1>4, <2>1
    <2> QED
        BY <1>1, <1>2, <1>3, <2>2 DEF RecordsInv, Ticket, Tasks
<1> QED
    BY <1>5, <1>8, <1>9 DEF TypesInv

LEMMA TaskStepTyped ==
    ASSUME ScriptsInv, TypesInv, NEW p \in Tasks, TaskStep(p)
    PROVE TypesInv'
BY PasswordTyped, AccountTyped, SessionRestTyped, SessionListsTyped, SendTyped, OpenTyped, IssueTyped
   DEF TaskStep, SessionStep

-----------------------------------------------------------------------------
(* Requests start with types, and only where there is room.                 *)

LEMMA RoomAdded ==
    ASSUME ScriptsInv, RoomInv, NEW p \in Tasks, NEW n, task' = [task EXCEPT ![p] = n], NEW d \in Makers,
           NEW made \in Nat, NEW max \in Nat, made + Cardinality(Pending(d)) <= max,
           Has(n.script, d) => made + Cardinality(Pending(d)) < max
    PROVE IsFiniteSet(Pending(d)') /\ made + Cardinality(Pending(d)') <= max
<1>1. IsFiniteSet(Pending(d)) /\ Cardinality(Pending(d)) \in Nat
    BY FS_CardinalityType DEF RoomInv, Makers
<1>2. CASE Has(n.script, d)
    <2>1. Pending(d)' = Pending(d) \cup {p}
        BY <1>2, PendingKept
    <2>2. /\ IsFiniteSet(Pending(d) \cup {p})
          /\ Cardinality(Pending(d) \cup {p}) = IF p \in Pending(d) THEN Cardinality(Pending(d)) ELSE Cardinality(Pending(d)) + 1
        BY <1>1, FS_AddElement
    <2> QED
        BY <1>1, <1>2, <2>1, <2>2
<1>3. CASE ~Has(n.script, d)
    <2>1. Pending(d)' = Pending(d) \ {p}
        BY <1>3, PendingKept
    <2>2. /\ IsFiniteSet(Pending(d) \ {p})
          /\ Cardinality(Pending(d) \ {p}) = IF p \in Pending(d) THEN Cardinality(Pending(d)) - 1 ELSE Cardinality(Pending(d))
        BY <1>1, FS_RemoveElement
    <2> QED
        BY <1>1, <2>1, <2>2
<1> QED
    BY <1>2, <1>3

LEMMA StartTyped ==
    ASSUME ScriptsInv, TypesInv, NEW p \in Tasks, NEW u \in Users \cup {Free}, NEW snap \in Accounts,
           NEW keep \in {0} \cup DOMAIN owner, NEW sc \in Seq(TypedSteps(DOMAIN owner)), Ends(sc),
           Has(sc, "password") => u \in Users,
           Has(sc, "open") => Len(owner) + Cardinality(Pending("open")) < MaxSessions,
           Has(sc, "issue") => issued + Cardinality(Pending("issue")) < MaxTickets,
           Start(p, u, snap, keep, sc)
    PROVE TypesInv'
<1>1. TasksInv /\ RoomInv /\ RecordsInv /\ "open" \in Makers /\ "issue" \in Makers
    BY DEF TypesInv, Makers
<1>2. PICK t : t = [Idle EXCEPT !.script = sc, !.user = u, !.snap = snap, !.keep = keep]
    OBVIOUS
<1>3. /\ t.script = sc /\ t.user = u /\ t.snap = snap /\ t.keep = keep /\ t.found = FALSE
      /\ t.before = {}
    BY <1>2 DEF Idle
<1>4. PICK n : n = IF t.script = <<>> THEN Idle ELSE t
    OBVIOUS
<1>5. /\ task' = [task EXCEPT ![p] = n] /\ loop' \in {Free, p}
      /\ UNCHANGED <<owner, issued, sock, sockSess, half, due, creds, tickets, expired, announced>>
    BY <1>2, <1>4 DEF Start, Resume, accounts, sessions, sockets, doors
<1>6. TaskTyped(n, DOMAIN owner) /\ n.script = sc
    <2>1. TaskTyped(t, DOMAIN owner)
        BY <1>3 DEF TaskTyped
    <2>2. Idle.script = <<>>
        BY DEF Idle
    <2> QED
        BY <1>3, <1>4, <2>1, <2>2, IdleTyped
<1>7. TasksInv'
    BY <1>1, <1>5, <1>6, TasksKept
<1>8. /\ Len(owner) \in Nat /\ issued \in Nat /\ MaxSessions \in Nat /\ MaxTickets \in Nat
      /\ Len(owner) + Cardinality(Pending("open")) <= MaxSessions
      /\ issued + Cardinality(Pending("issue")) <= MaxTickets
    BY <1>1, SessionBoundsAssumption DEF ScriptsInv, DataOK, RoomInv
<1>9. IsFiniteSet(Pending("open")') /\ Len(owner) + Cardinality(Pending("open")') <= MaxSessions
    BY <1>1, <1>5, <1>6, <1>8, RoomAdded
<1>10. IsFiniteSet(Pending("issue")') /\ issued + Cardinality(Pending("issue")') <= MaxTickets
    BY <1>1, <1>5, <1>6, <1>8, RoomAdded
<1>11. RoomInv'
    BY <1>5, <1>8, <1>9, <1>10 DEF RoomInv
<1> QED
    BY <1>1, <1>5, <1>7, <1>11, RecordsKept DEF TypesInv, RecordsInv

\* Scripts that make nothing.
MakesNothing(D) == {x \in TypedSteps(D) : x.do \notin Makers}

LEMMA StartPlain ==
    ASSUME ScriptsInv, TypesInv, NEW p \in Tasks, NEW u \in Users \cup {Free}, NEW snap \in Accounts,
           NEW keep \in {0} \cup DOMAIN owner, NEW sc, Start(p, u, snap, keep, sc),
           \/ sc \in Seq(Harmless(DOMAIN owner))
           \/ sc \in Seq(MakesNothing(DOMAIN owner)) /\ u \in Users
    PROVE TypesInv'
<1>1. PICK S : sc \in Seq(S) /\ S \subseteq MakesNothing(DOMAIN owner)
               /\ (u \notin Users => S = Harmless(DOMAIN owner))
    BY DEF Harmless, MakesNothing
<1>2. PICK m \in Nat : m = Len(sc) /\ DOMAIN sc = 1..m
    BY <1>1
<1>3. \A i \in 1..m : sc[i] \in S /\ sc[i] \in TypedSteps(DOMAIN owner) /\ sc[i].do \notin Makers
    BY <1>1, <1>2 DEF MakesNothing
<1>4. sc \in Seq(TypedSteps(DOMAIN owner))
    BY <1>1, <1>2, <1>3
<1>5. Ends(sc) /\ ~Has(sc, "open") /\ ~Has(sc, "issue")
    BY <1>2, <1>3 DEF Ends, Has, Makers
<1>6. Has(sc, "password") => u \in Users
    BY <1>1, <1>2, <1>3 DEF Has, Harmless
<1> QED
    BY <1>4, <1>5, <1>6, StartTyped

LEMMA NothingParts ==
    ASSUME NEW D
    PROVE /\ Step("password") \in MakesNothing(D) /\ Harmless(D) \subseteq MakesNothing(D)
          /\ Seq(Harmless(D)) \subseteq Seq(MakesNothing(D))
          /\ \A a \in MakesNothing(D) : <<a>> \in Seq(MakesNothing(D))
          /\ \A a, b, c, d \in MakesNothing(D) : <<a, b, c, d>> \in Seq(MakesNothing(D))
          /\ \A a, b \in Seq(MakesNothing(D)) : a \o b \in Seq(MakesNothing(D))
<1>1. Step("password") \in MakesNothing(D)
    <2>1. Step("password") \in TypedSteps(D)
        BY TypedOnes
    <2> QED
        BY <2>1 DEF MakesNothing, Step, Makers
<1>2. Harmless(D) \subseteq MakesNothing(D)
    BY DEF Harmless, MakesNothing
<1> QED
    BY <1>1, <1>2

LEMMA RequestTyped ==
    ASSUME ScriptsInv, TypesInv, NEW p \in Requests, Request(p)
    PROVE TypesInv'
<1> DEFINE D == DOMAIN owner
<1>0. p \in Tasks /\ Users \subseteq Users \cup {Free} /\ 0 \in {0} \cup D
    BY DEF Tasks
<1>1. /\ \A u \in Users : user[u] \in Accounts
      /\ \A s \in D : owner[s] \in Users
      /\ "enabled" \in Accounts /\ "gone" \in Accounts
    BY DEF ScriptsInv, DataOK, Accounts
<1>2. ASSUME NEW u \in Users, NEW snap \in Accounts, NEW keep \in {0} \cup D,
             NEW sc \in Seq(MakesNothing(D)), Start(p, u, snap, keep, sc)
      PROVE TypesInv'
    BY <1>0, <1>2, StartPlain
<1>3. /\ PasswordCheck \in Seq(Harmless(D))
      /\ \A s \in D : Authenticate(s) \in Seq(Harmless(D)) /\ Revocation(s) \in Seq(Harmless(D))
    <2>1. PasswordCheck \in Seq(Harmless(D))
        BY TypedOnes, HarmlessTuples DEF PasswordCheck
    <2>2. ASSUME NEW s \in D PROVE Authenticate(s) \in Seq(Harmless(D))
        BY TypedOnes, HarmlessTuples DEF Authenticate
    <2>3. ASSUME NEW s \in D PROVE Revocation(s) \in Seq(Harmless(D))
        BY TypedOnes, HarmlessTuples DEF Revocation
    <2> QED
        BY <2>1, <2>2, <2>3
<1>4. /\ <<Step("password")>> \in Seq(MakesNothing(D)) /\ <<Step("clear")>> \in Seq(MakesNothing(D))
      /\ <<Step("notify")>> \in Seq(MakesNothing(D)) /\ <<>> \in Seq(MakesNothing(D))
      /\ <<Step("notify"), Step("list")>> \in Seq(MakesNothing(D))
      /\ <<Step("disable"), Step("notify")>> \in Seq(MakesNothing(D))
      /\ <<Step("enable"), Step("notify")>> \in Seq(MakesNothing(D))
      /\ <<Step("delete"), Step("forget"), Step("list"), Step("notify"), Step("notify")>> \in Seq(MakesNothing(D))
      /\ <<Step("password"), Step("flag"), Step("notify"), Step("list")>> \in Seq(MakesNothing(D))
    <2>1. /\ Step("clear") \in Harmless(D) /\ Step("notify") \in Harmless(D) /\ Step("list") \in Harmless(D)
          /\ Step("disable") \in Harmless(D) /\ Step("enable") \in Harmless(D) /\ Step("flag") \in Harmless(D)
          /\ Step("delete") \in Harmless(D) /\ Step("forget") \in Harmless(D)
        BY TypedOnes
    <2>2. \A a, b, c, d, e \in Harmless(D) : <<a, b, c, d, e>> \in Seq(Harmless(D))
        OBVIOUS
    <2>3. /\ <<Step("clear")>> \in Seq(Harmless(D)) /\ <<Step("notify")>> \in Seq(Harmless(D))
          /\ <<>> \in Seq(Harmless(D)) /\ <<Step("notify"), Step("list")>> \in Seq(Harmless(D))
          /\ <<Step("disable"), Step("notify")>> \in Seq(Harmless(D))
          /\ <<Step("enable"), Step("notify")>> \in Seq(Harmless(D))
        BY <2>1, HarmlessTuples
    <2>4. <<Step("delete"), Step("forget"), Step("list"), Step("notify"), Step("notify")>> \in Seq(Harmless(D))
        BY <2>1, <2>2
    <2> QED
        BY <2>1, <2>3, <2>4, NothingParts
<1>5. \A a, b \in Seq(MakesNothing(D)) : a \o b \in Seq(MakesNothing(D))
    BY NothingParts
<1>6. PasswordCheck \in Seq(MakesNothing(D)) /\ \A s \in D : /\ Authenticate(s) \in Seq(MakesNothing(D))
                                                             /\ Revocation(s) \in Seq(MakesNothing(D))
    BY <1>3, NothingParts
<1> HIDE DEF D
<1>7. ASSUME NEW u \in Users, Login(p, u) PROVE TypesInv'
    <2>1. PICK Y : Y = <<Step("stamp"), Step("open")>>
        OBVIOUS
    <2>2. Step("stamp") \in TypedSteps(D) /\ Step("open") \in TypedSteps(D)
        BY TypedOnes DEF Harmless
    <2>3. Y \in Seq(TypedSteps(D)) /\ Len(Y) = 2 /\ Y[1] = Step("stamp") /\ Y[2] = Step("open")
        BY <2>1, <2>2
    <2>4. Ends(Y) /\ ~Has(Y, "password") /\ ~Has(Y, "issue")
        <3>1. Step("stamp").do = "stamp" /\ Step("open").do = "open"
            BY DEF Step
        <3>2. DOMAIN Y = 1..2
            BY <2>3
        <3> QED
            BY <2>3, <3>1, <3>2 DEF Ends, Has, Makers
    <2>5. PICK sc : sc = PasswordCheck \o Y
        OBVIOUS
    <2>6. /\ sc \in Seq(TypedSteps(D)) /\ Ends(sc)
          /\ \A d \in Makers \cup {"password"} : Has(sc, d) => Has(Y, d)
        BY <1>3, <2>3, <2>4, <2>5, JoinedTyped
    <2>7. ~Has(sc, "password") /\ ~Has(sc, "issue")
        BY <2>4, <2>6 DEF Makers
    <2>8. Start(p, u, user[u], 0, sc) /\ Len(owner) + Cardinality(Pending("open")) < MaxSessions
        BY <1>7, <2>1, <2>5 DEF Login
    <2> QED
        BY <1>0, <1>1, <2>6, <2>7, <2>8, StartTyped DEF D
<1>8. ASSUME NEW s \in D, IssueTicket(p, s) PROVE TypesInv'
    <2>1. PICK Y : Y = <<StepOn("issue", s)>>
        OBVIOUS
    <2>2. StepOn("issue", s) \in TypedSteps(D)
        BY TypedOnes
    <2>3. Y \in Seq(TypedSteps(D)) /\ Len(Y) = 1 /\ Y[1] = StepOn("issue", s)
        BY <2>1, <2>2
    <2>4. Ends(Y) /\ ~Has(Y, "password") /\ ~Has(Y, "open")
        <3>1. StepOn("issue", s).do = "issue"
            BY DEF StepOn
        <3>2. DOMAIN Y = 1..1
            BY <2>3
        <3> QED
            BY <2>3, <3>1, <3>2 DEF Ends, Has, Makers
    <2>5. PICK sc, u : sc = Authenticate(s) \o Y /\ u = owner[s]
        OBVIOUS
    <2>6. /\ sc \in Seq(TypedSteps(D)) /\ Ends(sc)
          /\ \A d \in Makers \cup {"password"} : Has(sc, d) => Has(Y, d)
        BY <1>3, <2>3, <2>4, <2>5, JoinedTyped
    <2>7. ~Has(sc, "password") /\ ~Has(sc, "open")
        BY <2>4, <2>6 DEF Makers
    <2>8. Start(p, u, "enabled", 0, sc) /\ issued + Cardinality(Pending("issue")) < MaxTickets
        BY <1>8, <2>1, <2>5 DEF IssueTicket
    <2> QED
        BY <1>0, <1>1, <2>5, <2>6, <2>7, <2>8, StartTyped DEF D
<1>9. ASSUME NEW u \in Users, VerifyPassword(p, u) \/ ResetPassword(p, u) \/ DeleteUser(p, u)
      PROVE TypesInv'
    <2>1. \E sc \in Seq(MakesNothing(D)) : Start(p, u, user[u], 0, sc)
        BY <1>4, <1>6, <1>9 DEF VerifyPassword, ResetPassword, DeleteUser
    <2> QED
        BY <1>0, <1>1, <1>2, <2>1
<1>10. ASSUME NEW u \in Users, DisableUser(p, u) \/ EnableUser(p, u) PROVE TypesInv'
    <2>1. PICK a, b : /\ a = IF user[u] = "enabled" THEN <<Step("notify"), Step("list")>> ELSE <<>>
                      /\ b = IF user[u] = "disabled" THEN <<Step("notify")>> ELSE <<>>
        OBVIOUS
    <2>2. a \in Seq(MakesNothing(D)) /\ b \in Seq(MakesNothing(D))
        BY <1>4, <2>1
    <2>3. /\ <<Step("disable"), Step("notify")>> \o a \in Seq(MakesNothing(D))
          /\ <<Step("enable"), Step("notify")>> \o b \in Seq(MakesNothing(D))
        BY <1>4, <1>5, <2>2
    <2>4. \E sc \in Seq(MakesNothing(D)) : Start(p, u, user[u], 0, sc)
        BY <1>10, <2>1, <2>3 DEF DisableUser, EnableUser
    <2> QED
        BY <1>0, <1>1, <1>2, <2>4
<1>11. ASSUME NEW s \in D, RevokeSession(p, s) \/ Logout(p, s) PROVE TypesInv'
    <2>1. <<StepOn("lookup", s), StepOn("logout", s), Step("notify"), StepOn("announce", s)>> \in Seq(Harmless(D))
        BY TypedOnes, HarmlessTuples
    <2>2. Authenticate(s) \o <<StepOn("lookup", s), StepOn("logout", s), Step("notify"), StepOn("announce", s)>>
             \in Seq(MakesNothing(D))
        BY <1>5, <1>6, <2>1, NothingParts
    <2>3. \E sc \in Seq(MakesNothing(D)) : Start(p, owner[s], "enabled", 0, sc)
        BY <1>6, <1>11, <2>2 DEF RevokeSession, Logout
    <2> QED
        BY <1>0, <1>1, <1>2, <2>3
<1>12. ASSUME NEW s \in D, NEW asked, NEW pending, OwnPassword(p, s, asked, pending)
       PROVE TypesInv'
    <2>1. PICK a, b : /\ a = IF asked THEN PasswordCheck ELSE <<>>
                      /\ b = IF pending THEN <<Step("clear")>> ELSE <<>>
        OBVIOUS
    <2>2. a \in Seq(MakesNothing(D)) /\ b \in Seq(MakesNothing(D))
        BY <1>4, <1>6, <2>1
    <2>3. (Authenticate(s) \o a) \o <<Step("password")>> \in Seq(MakesNothing(D))
        BY <1>4, <1>5, <1>6, <2>2
    <2>4. (((Authenticate(s) \o a) \o <<Step("password")>>) \o b) \o <<Step("notify"), Step("list")>>
             \in Seq(MakesNothing(D))
        BY <1>4, <1>5, <2>2, <2>3
    <2>5. Start(p, owner[s], "enabled", s,
                (((Authenticate(s) \o a) \o <<Step("password")>>) \o b) \o <<Step("notify"), Step("list")>>)
        BY <1>12, <2>1, Zenon DEF OwnPassword
    <2> QED
        BY <1>1, <1>2, <2>4, <2>5
<1>13. ASSUME ListSessions(p) PROVE TypesInv'
    <2>1. <<Step("all")>> \in Seq(Harmless(D))
        BY TypedOnes, HarmlessTuples
    <2>2. Start(p, Free, "gone", 0, <<Step("all")>>)
        BY <1>13 DEF ListSessions
    <2> QED
        BY <1>0, <1>1, <2>1, <2>2, StartPlain DEF D
<1> QED
    BY <1>7, <1>8, <1>9, <1>10, <1>11, <1>12, <1>13 DEF Request, D

LEMMA SweepTyped ==
    ASSUME ScriptsInv, TypesInv, Sweep \/ SweepStep
    PROVE TypesInv'
<1> DEFINE D == DOMAIN owner
<1>1. TasksInv /\ RoomInv /\ RecordsInv /\ Sweeper \in Tasks
    BY DEF TypesInv, Tasks
<1>2. D \in SUBSET Nat /\ IsFiniteSet(D) /\ live \subseteq D
    BY FiniteSessions DEF ScriptsInv, DataOK
<1>3. CASE Sweep
    <2>1. <<Step("before"), Step("purge"), Step("compare")>> \in Seq(Harmless(D))
        BY TypedOnes, HarmlessTuples
    <2>2. Start(Sweeper, Free, "gone", 0, <<Step("before"), Step("purge"), Step("compare")>>)
        BY <1>3 DEF Sweep
    <2>3. "gone" \in Accounts /\ Free \in Users \cup {Free} /\ 0 \in {0} \cup DOMAIN owner
        BY DEF Accounts
    <2> QED
        BY <1>1, <2>1, <2>2, <2>3, StartPlain
<1>4. CASE SweepStep
    <2>1. /\ UNCHANGED <<owner, issued, sock, sockSess, half, due, creds, tickets, expired, announced>>
          /\ task[Sweeper].script # <<>>
        BY <1>4 DEF SweepStep, SweepBefore, SweepPurge, SweepCompare, At, accounts, sessions, sockets, doors
    <2>2. TasksInv' /\ RoomInv' /\ loop' \in Tasks \cup {Free}
        <3>1. CASE SweepBefore
            <4>1. PICK t : t = [task[Sweeper] EXCEPT !.script = Rest(Sweeper), !.before = live]
                OBVIOUS
            <4>2. Resume(Sweeper, t)
                BY <3>1, <4>1 DEF SweepBefore
            <4>3. /\ Rest(Sweeper) \in Seq(TypedSteps(D)) /\ Ends(Rest(Sweeper))
                  /\ \A d \in Makers \cup {"password"} : Has(Rest(Sweeper), d) => Has(task[Sweeper].script, d)
                BY <1>1, <2>1, RestOfScript
            <4>4. TaskShape(task[Sweeper]) /\ TaskTyped(task[Sweeper], D)
                BY <1>1 DEF ScriptsInv, ScriptsOK, TaskOK, TasksInv
            <4>5. /\ t.script = Rest(Sweeper) /\ t.user = task[Sweeper].user /\ t.snap = task[Sweeper].snap
                  /\ t.keep = task[Sweeper].keep /\ t.found = task[Sweeper].found /\ t.before = live
                BY <4>1, <4>4 DEF TaskShape
            <4>6. TaskTyped(t, D)
                BY <1>2, <4>3, <4>4, <4>5 DEF TaskTyped
            <4> QED
                BY <1>1, <2>1, <4>2, <4>3, <4>5, <4>6, ResumeTyped
        <3>2. CASE SweepPurge
            BY <1>1, <2>1, <3>2, RestTyped DEF SweepPurge
        <3>3. CASE SweepCompare
            <4>1. PICK S : S = task[Sweeper].before \ live
                OBVIOUS
            <4>2. S \subseteq D
                BY <1>1, <4>1 DEF TasksInv, TaskTyped
            <4>3. PICK X : X = [i \in DOMAIN InOrder(S) |-> StepOn("announce", InOrder(S)[i])]
                OBVIOUS
            <4>4. X \in Seq(Harmless(D))
                BY <1>2, <4>2, <4>3, HarmlessEach
            <4>5. <<Step("notify")>> \in Seq(Harmless(D))
                BY TypedOnes, HarmlessTuples
            <4>6. X \o <<Step("notify")>> \in Seq(Harmless(D))
                BY <4>4, <4>5, HarmlessTuples
            <4>7. GoOn(Sweeper, X \o <<Step("notify")>>)
                BY <3>3, <4>1, <4>3 DEF SweepCompare
            <4> QED
                BY <1>1, <2>1, <4>6, <4>7, GoOnTyped
        <3> QED
            BY <1>4, <3>1, <3>2, <3>3 DEF SweepStep
    <2> QED
        BY <1>1, <2>1, <2>2, RecordsKept DEF TypesInv, RecordsInv
<1> QED
    BY <1>3, <1>4

\* What leaves the tasks alone.
LEMMA StillTyped ==
    ASSUME TasksInv, RoomInv, UNCHANGED <<task, owner, issued>>
    PROVE TasksInv' /\ RoomInv'
<1>1. TasksInv'
    BY DEF TasksInv, TaskTyped, TypedSteps, Ends, Has, Accounts, Tasks
<1>2. Pending("open")' = Pending("open") /\ Pending("issue")' = Pending("issue")
    BY DEF Pending, Tasks
<1> QED
    BY <1>1, <1>2 DEF RoomInv

LEMMA SocketTyped ==
    ASSUME ScriptsInv, TypesInv, NEW w \in Sockets, SocketStep(w) \/ CheckStep(w)
    PROVE TypesInv'
<1> DEFINE D == DOMAIN owner
<1>1. TasksInv /\ RoomInv /\ RecordsInv /\ w \in Tasks
    BY DEF TypesInv, Tasks
<1>2. CASE Connect(w)
    <2>1. PICK k \in tickets : \E t :
              /\ tickets' = tickets \ {k} /\ Resume(w, t)
              /\ t = [Idle EXCEPT !.user = owner[k.s], !.snap = "enabled",
                      !.script = <<StepOn("session", k.s), StepOn("user", k.s), StepOn("bind", k.s)>>]
        BY <1>2 DEF Connect
    <2>11. PICK t :
              /\ tickets' = tickets \ {k} /\ Resume(w, t)
              /\ t = [Idle EXCEPT !.user = owner[k.s], !.snap = "enabled",
                      !.script = <<StepOn("session", k.s), StepOn("user", k.s), StepOn("bind", k.s)>>]
        BY <2>1
    <2>2. UNCHANGED <<owner, issued, sock, sockSess, half, due, creds, expired, announced>>
        BY <1>2 DEF Connect, accounts, sessions, sockets
    <2>3. k.s \in D /\ owner[k.s] \in Users
        BY <1>1 DEF RecordsInv, ScriptsInv, DataOK
    <2>4. PICK sc : sc = <<StepOn("session", k.s), StepOn("user", k.s), StepOn("bind", k.s)>>
        OBVIOUS
    <2>5. sc \in Seq(Harmless(D))
        BY <2>3, <2>4, TypedOnes, HarmlessTuples
    <2>6. sc \in Seq(TypedSteps(D)) /\ Ends(sc) /\ \A d \in Makers \cup {"password"} : ~Has(sc, d)
        <3>1. PICK m \in Nat : m = Len(sc) /\ DOMAIN sc = 1..m
            BY <2>5
        <3>2. \A i \in 1..m : sc[i] \in TypedSteps(D) /\ sc[i].do \notin Makers \cup {"password"}
            BY <2>5, <3>1 DEF Harmless
        <3>3. sc \in Seq(TypedSteps(D))
            BY <2>5, <3>1, <3>2
        <3> QED
            BY <3>1, <3>2, <3>3 DEF Ends, Has
    <2>7. /\ t.script = sc /\ t.user = owner[k.s] /\ t.snap = "enabled" /\ t.keep = 0
          /\ t.found = FALSE /\ t.before = {}
        BY <2>11, <2>4 DEF Idle
    <2>8. TaskTyped(t, D)
        BY <2>3, <2>6, <2>7 DEF TaskTyped, Accounts
    <2>9. TasksInv' /\ RoomInv' /\ loop' \in Tasks \cup {Free}
        BY <1>1, <2>11, <2>2, <2>6, <2>7, <2>8, ResumeTyped
    <2>10. tickets' \subseteq tickets
        BY <2>11
    <2> QED
        BY <1>1, <2>2, <2>9, <2>10, RecordsKept DEF TypesInv, RecordsInv
<1>3. CASE Bind(w) \/ AcceptFails(w)
    <2>1. /\ UNCHANGED <<owner, issued, half, due, creds, tickets, expired, announced>> /\ At(w, "bind")
          /\ task[w].script # <<>> /\ (GoOn(w, Rest(w)) \/ Abort(w))
          /\ \/ UNCHANGED <<sock, sockSess>>
             \/ /\ sock' = [sock EXCEPT ![w] = "open"]
                /\ sockSess' = [sockSess EXCEPT ![w] = Arg(w)]
        BY <1>3 DEF Bind, AcceptFails, At, accounts, sessions, sockets, doors
    <2>2. Arg(w) \in D
        BY <1>1, <2>1, ArgTyped DEF OnSession
    <2>3. TasksInv' /\ RoomInv' /\ loop' \in Tasks \cup {Free}
        BY <1>1, <2>1, RestTyped
    <2>4. /\ sock' \in [Sockets -> {"new", "open", "ended", "left"}]
          /\ sockSess' \in [Sockets -> {0} \cup D]
        BY <1>1, <2>1, <2>2 DEF RecordsInv
    <2>5. RecordsInv'
        BY <1>1, <2>1, <2>3, <2>4 DEF RecordsInv, Ticket, Tasks
    <2> QED
        BY <2>3, <2>5 DEF TypesInv
<1>4. CASE Leave(w) \/ CheckStep(w)
    <2>1. /\ UNCHANGED <<task, owner, issued, sockSess, creds, tickets, expired, announced>>
          /\ \E st \in {"ended", "left"} : sock' \in {sock, [sock EXCEPT ![w] = st]}
          /\ due' \subseteq due /\ half' \subseteq half \cup {w} /\ loop' \in {loop, Free, w}
        BY <1>4 DEF Leave, CheckStep, CheckSession, CheckUser, CloseEnded, accounts, sessions, doors
    <2>2. sock' \in [Sockets -> {"new", "open", "ended", "left"}]
        BY <1>1, <2>1 DEF RecordsInv
    <2>3. TasksInv' /\ RoomInv'
        BY <1>1, <2>1, StillTyped
    <2>4. RecordsInv'
        BY <1>1, <2>1, <2>2 DEF RecordsInv, Ticket, Tasks
    <2> QED
        BY <2>3, <2>4 DEF TypesInv
<1> QED
    BY <1>2, <1>3, <1>4 DEF SocketStep

LEMMA TypesStep ==
    ASSUME ScriptsInv, TypesInv, [Next]_vars
    PROVE TypesInv'
<1>1. TasksInv /\ RoomInv /\ RecordsInv
    BY DEF TypesInv
<1>2. CASE Passing \/ UNCHANGED vars
    <2>1. /\ UNCHANGED <<task, owner, issued, loop, sock, sockSess, half, due, creds, announced>>
          /\ tickets' \subseteq tickets /\ expired' \subseteq expired \cup live
        BY <1>2 DEF Passing, SessionExpires, TicketExpires, LockExpires, vars, accounts, sessions, sockets, doors
    <2>2. TasksInv' /\ RoomInv'
        BY <1>1, <2>1, StillTyped
    <2>3. expired' \subseteq DOMAIN owner
        BY <1>1, <2>1 DEF RecordsInv, ScriptsInv, DataOK
    <2> QED
        BY <1>1, <2>1, <2>2, <2>3, RecordsKept DEF TypesInv, RecordsInv
<1> QED
    BY <1>2, RequestTyped, SweepTyped, TaskStepTyped, SocketTyped DEF Next

\* Sessions, tickets, lockout entries, tasks and sockets keep their types, for any
\* users, requests, sockets, limits and stores: every session that a task, a ticket,
\* a socket or an announcement names was opened, and the requests that are allowed
\* to start never open or issue more than the bounds of the model.
THEOREM TypeCorrect == Spec => []TypeOK
<1> DEFINE Inv == ScriptsInv /\ TypesInv /\ SocketTasks /\ SocketsInv /\ LockInv
<1>1. Init => Inv
    <2> SUFFICES ASSUME Init PROVE Inv
        OBVIOUS
    <2>1. /\ owed = {} /\ due = {} /\ half = {} /\ creds = Users /\ expired = {} /\ announced = {}
          /\ tickets = {} /\ issued = 0 /\ loop = Free /\ owner = <<>> /\ task = [p \in Tasks |-> Idle]
          /\ sock = [w \in Sockets |-> "new"] /\ sockSess = [w \in Sockets |-> 0]
          /\ lock = [k \in Keys |-> NoLock]
        BY DEF Init
    <2>2. \A p \in Tasks : task[p] = Idle /\ task[p].script = <<>>
        BY <2>1, IdleFits
    <2>3. SocketTasks /\ SocketsInv
        BY <2>1, <2>2 DEF SocketTasks, SocketScript, SocketsInv, Has, Tasks
    <2>4. TasksInv
        BY <2>2, IdleTyped DEF TasksInv
    <2>5. Pending("open") = {} /\ Pending("issue") = {}
        BY <2>2 DEF Pending
    <2>6. RoomInv
        <3>1. Len(owner) = 0 /\ issued = 0
            BY <2>1
        <3>2. /\ IsFiniteSet(Pending("open")) /\ Cardinality(Pending("open")) = 0
              /\ IsFiniteSet(Pending("issue")) /\ Cardinality(Pending("issue")) = 0
            BY <2>5, FS_EmptySet
        <3> QED
            BY <3>1, <3>2, SessionBoundsAssumption DEF RoomInv
    <2>7. RecordsInv
        BY <2>1 DEF RecordsInv
    <2>8. LockInv
        BY <2>1, NoLockCounted, SessionBoundsAssumption DEF LockInv, NoLock
    <2> QED
        BY <2>3, <2>4, <2>6, <2>7, <2>8, ScriptsInit DEF TypesInv
<1>2. Inv /\ [Next]_vars => Inv'
    BY ScriptsStep, TypesStep, SocketTasksStep, SocketsStep, LockStep
<1>3. Inv => TypeOK
    <2> SUFFICES ASSUME Inv PROVE TypeOK
        OBVIOUS
    <2>1. TaskTypeOK
        <3> SUFFICES ASSUME NEW p \in Tasks
                     PROVE task[p].script \in Seq([do: StepNames, arg: {0} \cup DOMAIN owner \cup Sockets])
            BY DEF TaskTypeOK, TypesInv, TasksInv, TaskTyped
        <3>1. task[p].script \in Seq(TypedSteps(DOMAIN owner))
            BY DEF TypesInv, TasksInv, TaskTyped
        <3>2. TypedSteps(DOMAIN owner) \subseteq [do: StepNames, arg: {0} \cup DOMAIN owner \cup Sockets]
            BY DEF TypedSteps
        <3>3. PICK B : B = [do: StepNames, arg: {0} \cup DOMAIN owner \cup Sockets]
            OBVIOUS
        <3>4. TypedSteps(DOMAIN owner) \subseteq B
            BY <3>2, <3>3
        <3>5. task[p].script \in Seq(B)
            BY <3>1, <3>4
        <3> QED
            BY <3>3, <3>5
    <2>2. Len(owner) <= MaxSessions /\ issued \in 0..MaxTickets
        <3>1. /\ Cardinality(Pending("open")) \in Nat /\ Cardinality(Pending("issue")) \in Nat
              /\ Len(owner) \in Nat
            BY FS_CardinalityType DEF TypesInv, RoomInv, ScriptsInv, DataOK
        <3> QED
            BY <3>1, SessionBoundsAssumption DEF TypesInv, RoomInv
    <2>3. lock \in [Keys -> [failures: 0..(MaxAttempts - 1), locked: BOOLEAN, tried: Nat]]
        BY DEF LockInv
    <2> QED
        BY <2>1, <2>2, <2>3 DEF TypeOK, ScriptsInv, DataOK, TypesInv, RecordsInv, SocketsInv
<1> QED
    BY <1>1, <1>2, <1>3, PTL DEF Spec
=============================================================================
