--------------------------- MODULE CommandsProofs ---------------------------
(***************************************************************************)
(* Theorems about Commands, for every tree of processors, every set of     *)
(* callers, permissions, modules and tools, and any number of requests.    *)
(***************************************************************************)
EXTENDS Commands, FiniteSetTheorems, WellFoundedInduction, TLAPS

-----------------------------------------------------------------------------
(* The registry.                                                           *)

Paths == Requested \cup Nodes
KnownPrefixes(path) == {i \in DOMAIN path : SubSeq(path, 1, i) \in Nodes}

\* A set of numbers that is not empty has a least member.
LEMMA LeastNumber ==
    ASSUME NEW T, T \subseteq Nat, T # {}
    PROVE  \E x \in T : \A y \in T : x <= y
  <1>1. PICK x \in T : \A y \in T : ~(<<y, x>> \in OpToRel(<, Nat))
    BY NatLessThanWellFounded, WFMin
  <1>2. \A y \in T : ~(y < x)
    BY <1>1 DEF OpToRel
  <1> QED BY <1>2

\* Where find_processor knows a prefix of a path it knows every shorter one:
\* a sub-command hangs below its parent.
LEMMA PrefixesAreClosed ==
    ASSUME NEW path \in Paths, NEW i \in KnownPrefixes(path)
    PROVE  \A j \in 1..i : j \in KnownPrefixes(path)
  <1> DEFINE Gaps == {k \in 0..(i - 1) : i - k \notin KnownPrefixes(path)}
  <1>1. path \in Seq(STRING) /\ DOMAIN path = 1..Len(path) /\ Len(path) \in Nat /\ i \in 1..Len(path)
    BY CommandsAssumption DEF Paths, KnownPrefixes
  <1>2. SUFFICES ASSUME Gaps # {}
                 PROVE  FALSE
    <2>1. ASSUME NEW j \in 1..i, j \notin KnownPrefixes(path)
          PROVE  i - j \in Gaps
      BY <1>1, <2>1
    <2> QED BY <1>2, <2>1
  <1>3. PICK k \in Gaps : \A y \in Gaps : k <= y
    <2>1. Gaps \subseteq Nat
      BY <1>1
    <2> HIDE DEF Gaps
    <2> QED BY <1>2, <2>1, LeastNumber
  <1>4. k # 0 /\ k \in 1..(i - 1)
    BY <1>1, <1>3
  <1>5. i - (k - 1) \in KnownPrefixes(path)
    BY <1>1, <1>3, <1>4
  <1> DEFINE j == i - (k - 1)
  <1>6. j \in 2..Len(path) /\ SubSeq(path, 1, j) \in Nodes
    BY <1>1, <1>4, <1>5 DEF KnownPrefixes
  <1>7. Len(SubSeq(path, 1, j)) = j /\ Front(SubSeq(path, 1, j)) = SubSeq(path, 1, j - 1)
    BY <1>1, <1>6 DEF Front
  <1>8. SubSeq(path, 1, j - 1) \in Nodes
    <2>1. \A n \in Nodes : Len(n) > 1 => Front(n) \in Nodes
      BY CommandsAssumption
    <2>2. Len(SubSeq(path, 1, j)) > 1
      BY <1>6, <1>7
    <2> HIDE DEF j
    <2> QED BY <1>6, <1>7, <2>1, <2>2
  <1>9. j - 1 \in KnownPrefixes(path)
    BY <1>1, <1>6, <1>8 DEF KnownPrefixes
  <1> QED BY <1>1, <1>3, <1>4, <1>9

\* So the depth that is known is the length of the longest known prefix, and
\* the permissions collected on the way down are those of every processor
\* the path passes.
LEMMA DepthCoversPrefixes ==
    ASSUME NEW path \in Paths, NEW i \in KnownPrefixes(path)
    PROVE  i \in 1..KnownDepth(path)
  <1>1. path \in Seq(STRING) /\ DOMAIN path = 1..Len(path) /\ Len(path) \in Nat /\ i \in 1..Len(path)
    BY CommandsAssumption DEF Paths, KnownPrefixes
  <1>2. IsFiniteSet(1..Len(path)) /\ IsFiniteSet(1..i) /\ Cardinality(1..i) = i
    BY <1>1, FS_Interval
  <1>3. KnownPrefixes(path) \subseteq 1..Len(path)
    BY <1>1 DEF KnownPrefixes
  <1>4. IsFiniteSet(KnownPrefixes(path))
    BY <1>2, <1>3, FS_Subset
  <1>5. 1..i \subseteq KnownPrefixes(path)
    BY PrefixesAreClosed
  <1>6. Cardinality(1..i) <= Cardinality(KnownPrefixes(path)) /\ Cardinality(KnownPrefixes(path)) \in Nat
    BY <1>4, <1>5, FS_Subset, FS_CardinalityType
  <1> QED BY <1>1, <1>2, <1>6 DEF KnownDepth, KnownPrefixes

LEMMA RequiredAlongCovers ==
    ASSUME NEW path \in Paths, NEW i \in DOMAIN path, SubSeq(path, 1, i) \in Nodes
    PROVE  Required(SubSeq(path, 1, i)) \subseteq RequiredAlong(path)
  <1>1. i \in 1..KnownDepth(path)
    BY DepthCoversPrefixes DEF KnownPrefixes
  <1> QED BY <1>1 DEF RequiredAlong

\* A name of an MCP tool leads to a processor of the registry, or to none.
LEMMA CommandToolIsNode ==
    ASSUME NEW name
    PROVE  CommandTool(name) = NoNode \/ CommandTool(name) \in Nodes
  <1> DEFINE same == {i \in DOMAIN NodeOrder : IsTool(NodeOrder[i]) /\ ToolName(NodeOrder[i]) = name}
  <1>1. same \subseteq Nat /\ same \subseteq DOMAIN NodeOrder
    BY CommandsAssumption
  <1>2. CASE same = {}
    BY <1>2 DEF CommandTool
  <1>3. CASE same # {}
    <2>1. Min(same) \in same
      <3> HIDE DEF same
      <3>1. \E x \in same : \A y \in same : x <= y
        BY <1>1, <1>3, LeastNumber
      <3> QED BY <3>1 DEF Min
    <2>2. NodeOrder[Min(same)] \in Nodes
      <3> HIDE DEF same
      <3> QED BY <1>1, <2>1 DEF Nodes
    <2> QED BY <1>3, <2>2 DEF CommandTool
  <1> QED BY <1>2, <1>3

\* What a caller sees of the commands, it may run.
LEMMA VisibleIsPermitted ==
    ASSUME NEW perms, NEW name, VisibleCommand(perms, name) # NoNode
    PROVE  /\ VisibleCommand(perms, name) \in Nodes
           /\ RequiredAlong(VisibleCommand(perms, name)) \subseteq perms
           /\ "commands:execute" \in perms
  BY CommandToolIsNode DEF VisibleCommand

-----------------------------------------------------------------------------
(* The inductive invariant: what holds of each request, and what the       *)
(* counters and the events say of the ones that ended.                     *)

States == {"idle", "refused", "answered", "gated", "running", "streaming", "done"}
Ends == {"ok", "failed", "gone", "cut"}
Bad(exit) == exit \in {"failed", "cut"}

(* A request in a state of its own, with the task that streams for it. *)
Sound(q, t) ==
    /\ q.st \in States
    /\ q.st \in {"gated", "running", "streaming", "done"} => q.path \in Paths
    /\ q.st \in {"gated", "running", "streaming"} => "commands:execute" \in q.perms
    /\ q.st \in {"running", "streaming"} =>
           FindProcessor(q.path) # NoNode /\ RequiredAlong(q.path) \subseteq q.perms
    /\ q.st = "streaming" => t # "none" /\ Streams(FindProcessor(q.path))
    /\ q.st = "done" => q.exit \in Ends
Requests ==
    /\ req = [r \in Reqs |-> req[r]]
    /\ task \in [Reqs -> {"none", "running", "ok", "failed"}]
    /\ \A r \in Reqs : Sound(req[r], task[r])
Settings ==
    /\ server \in Servers
    /\ held \in [Callers -> SUBSET Permissions]
    /\ standing \in [Callers -> {"ok", "pending", "out"}]
    /\ disabled \subseteq Modules

Failed(root) == {r \in Executed(root) : Bad(req[r].exit)}
(* Finitely many requests have ended, each counted once under its root. *)
Counts ==
    /\ usage \in [Roots -> [executions : Nat, failures : Nat]]
    /\ \A root \in Roots :
          /\ IsFiniteSet(Executed(root)) /\ IsFiniteSet(Failed(root))
          /\ usage[root].executions = Cardinality(Executed(root))
          /\ usage[root].failures = Cardinality(Failed(root))
Events ==
    /\ event \in [Reqs -> {"none", "ok", "failed"}]
    /\ \A r \in Reqs :
          /\ event[r] # "none" => req[r].st = "done" /\ NameOf(req[r].path) \in Nodes
                                  /\ event[r] = IF Bad(req[r].exit) THEN "failed" ELSE "ok"
          /\ req[r].st = "done" /\ NameOf(req[r].path) \in Nodes /\ event[r] = "none" =>
                 req[r].exit \in {"gone", "cut"}

(* What a step does to the requests, the counters and the events: nothing; *)
(* one request, not over, goes on; or one request ends, is counted, and is *)
(* announced unless its client left.                                       *)
Untouched == UNCHANGED <<req, usage, event>>
GoesOn(r, q) ==
    /\ req[r].st # "done" /\ q.st # "done" /\ Sound(q, task'[r])
    /\ req' = [req EXCEPT ![r] = q]
    /\ UNCHANGED <<usage, event>>
EndsWith(r, path, exit) ==
    /\ req[r].st # "done" /\ path \in Paths /\ exit \in Ends
    /\ Ended(r, path, exit)
    /\ RecordUsage(path, Bad(exit))
    /\ \/ NotifyExecuted(r, path, Bad(exit))
       \/ exit \in {"gone", "cut"} /\ event' = event
RequestStep ==
    \/ Untouched
    \/ \E r \in Reqs : \E q : GoesOn(r, q)
    \/ \E r \in Reqs : \E path, exit : EndsWith(r, path, exit)
(* The task of a request, once there, does not go away. *)
TaskStep ==
    /\ task' \in [Reqs -> {"none", "running", "ok", "failed"}]
    /\ \A r \in Reqs : task[r] # "none" => task'[r] # "none"

\* An outcome that is "ok" or "failed" is counted as it is announced.
LEMMA CountedEnds ==
    ASSUME NEW r \in Reqs, NEW path \in Paths, NEW exit \in {"ok", "failed"},
           req[r].st # "done", Counted(r, path, exit)
    PROVE  EndsWith(r, path, exit)
  <1>1. exit \in Ends /\ (exit = "failed") = Bad(exit)
    BY DEF Ends, Bad
  <1> QED BY <1>1 DEF Counted, EndsWith

\* The executor, for a path that the caller may run, refuses it or starts it.
LEMMA ExecuteStep ==
    ASSUME Requests, NEW r \in Reqs, NEW path \in Paths, Execute(r, path),
           req[r].st = "gated", RequiredAlong(path) \subseteq req[r].perms,
           "commands:execute" \in req[r].perms
    PROVE  RequestStep
  <1>1. CASE Counted(r, path, "failed")
    BY <1>1, CountedEnds DEF RequestStep
  <1>2. CASE Runs(r, "running", path) /\ FindProcessor(path) # NoNode
    <2> DEFINE q == [st |-> "running", kind |-> req[r].kind, path |-> path, perms |-> req[r].perms]
    <2>1. Sound(q, task'[r])
      BY <1>2 DEF Sound, States
    <2>2. GoesOn(r, q)
      BY <1>2, <2>1 DEF GoesOn, Runs
    <2> QED BY <2>2 DEF RequestStep
  <1> QED BY <1>1, <1>2 DEF Execute

LEMMA AnsweredStep ==
    ASSUME NEW r \in Reqs, req[r].st = "gated", Answered(r)
    PROVE  RequestStep
  <1> DEFINE q == [st |-> "answered"]
  <1>1. Sound(q, task'[r])
    BY DEF Sound, States
  <1>2. GoesOn(r, q)
    BY <1>1 DEF GoesOn, Answered
  <1> QED BY <1>2 DEF RequestStep

\* Every step of the system is one of the three, and keeps the tasks.
LEMMA StepKinds ==
    ASSUME Requests, Settings, Next
    PROVE  RequestStep /\ TaskStep
  <1>0. /\ task \in [Reqs -> {"none", "running", "ok", "failed"}]
        /\ \A r \in Reqs : Sound(req[r], task[r])
    BY DEF Requests
  <1>s. task' = task => TaskStep
    BY <1>0 DEF TaskStep
  <1>1. CASE \E r \in Reqs : req[r].st = "idle" /\ \E a \in Arrivals : Arrive(r, a)
    <2>1. PICK r \in Reqs, a \in Arrivals : Arrive(r, a)
      BY <1>1
    <2> DEFINE q == req'[r]
    <2>2. CASE Gate(a)
      <3> DEFINE g == [st |-> "gated", kind |-> a.kind, path |-> a.path, caller |-> a.caller,
                       perms |-> ContextPermissions(a)]
      <3>1. a.path \in Paths /\ a.caller \in Callers /\ a.kind \in {"execute", "stream", "mcp"}
        BY DEF Arrivals, Paths
      <3>2. "commands:execute" \in ContextPermissions(a)
        BY <2>2, <3>1, CommandsAssumption DEF Gate, ContextPermissions, HttpPermission
      <3>3. Sound(g, task'[r])
        BY <3>1, <3>2 DEF Sound, States
      <3>4. GoesOn(r, g)
        BY <2>1, <2>2, <3>3 DEF Arrive, GoesOn
      <3> QED BY <2>1, <3>4, <1>s DEF RequestStep, Arrive
    <2>3. CASE ~Gate(a)
      <3> DEFINE g == [st |-> "refused"]
      <3>1. Sound(g, task'[r])
        BY DEF Sound, States
      <3>2. GoesOn(r, g)
        BY <2>1, <2>3, <3>1 DEF Arrive, GoesOn
      <3> QED BY <2>1, <3>2, <1>s DEF RequestStep, Arrive
    <2> QED BY <2>2, <2>3
  <1>2. CASE \E r \in Reqs : ExecuteCommand(r)
    <2>1. PICK r \in Reqs : ExecuteCommand(r)
      BY <1>2
    <2>2. req[r].st = "gated" /\ req[r].path \in Paths /\ "commands:execute" \in req[r].perms
      BY <2>1, <1>0 DEF ExecuteCommand, Sound
    <2>3. CASE PermissionDenied(req[r].perms, req[r].path)
      BY <2>1, <2>2, <2>3, <1>s, AnsweredStep DEF ExecuteCommand
    <2>4. CASE ~PermissionDenied(req[r].perms, req[r].path)
      <3>1. RequiredAlong(req[r].path) \subseteq req[r].perms
        BY <2>4 DEF PermissionDenied
      <3>2. Execute(r, req[r].path)
        BY <2>1, <2>4 DEF ExecuteCommand
      <3>3. RequestStep
        BY <2>2, <3>1, <3>2, ExecuteStep
      <3> QED BY <2>1, <3>3, <1>s DEF ExecuteCommand
    <2> QED BY <2>3, <2>4
  <1>3. CASE \E r \in Reqs : ExecuteStream(r)
    <2>1. PICK r \in Reqs : ExecuteStream(r)
      BY <1>3
    <2> DEFINE path == req[r].path
               node == FindProcessor(path)
    <2>2. req[r].st = "gated" /\ path \in Paths /\ "commands:execute" \in req[r].perms
      BY <2>1, <1>0 DEF ExecuteStream, Sound
    <2>3. CASE PermissionDenied(req[r].perms, path)
      BY <2>1, <2>2, <2>3, <1>s, AnsweredStep DEF ExecuteStream
    <2>4. CASE ~PermissionDenied(req[r].perms, path)
      <3>1. RequiredAlong(path) \subseteq req[r].perms
        BY <2>4 DEF PermissionDenied
      <3>2. CASE node = NoNode \/ IsBlocked(node)
        <4>1. Counted(r, path, "failed") /\ task' = task
          BY <2>1, <2>4, <3>2 DEF ExecuteStream
        <4> QED BY <2>2, <4>1, <1>s, CountedEnds DEF RequestStep
      <3>3. CASE ~(node = NoNode \/ IsBlocked(node)) /\ Streams(node)
        <4>1. Runs(r, "streaming", path) /\ task' = [task EXCEPT ![r] = "running"]
          BY <2>1, <2>4, <3>3 DEF ExecuteStream
        <4> DEFINE q == [st |-> "streaming", kind |-> req[r].kind, path |-> path,
                         perms |-> req[r].perms]
        <4>2. task'[r] = "running" /\ TaskStep
          BY <4>1, <1>0 DEF TaskStep
        <4>3. Sound(q, task'[r])
          BY <2>2, <3>1, <3>3, <4>2 DEF Sound, States
        <4>4. GoesOn(r, q)
          BY <2>2, <4>1, <4>3 DEF GoesOn, Runs
        <4> QED BY <4>2, <4>4 DEF RequestStep
      <3>4. CASE ~(node = NoNode \/ IsBlocked(node)) /\ ~Streams(node)
        <4>1. Execute(r, path) /\ task' = task
          BY <2>1, <2>4, <3>4 DEF ExecuteStream
        <4>2. RequestStep
          BY <2>2, <3>1, <4>1, ExecuteStep
        <4> QED BY <4>1, <4>2, <1>s
      <3> QED BY <3>2, <3>3, <3>4
    <2> QED BY <2>3, <2>4
  <1>4. CASE \E r \in Reqs, m \in McpMessages, args \in Arguments : McpPost(r, m, args)
    <2>1. PICK r \in Reqs, m \in McpMessages, args \in Arguments : McpPost(r, m, args)
      BY <1>4
    <2> DEFINE node == VisibleCommand(req[r].perms, ToolName(req[r].path))
    <2>2. req[r].st = "gated" /\ task' = task
      BY <2>1 DEF McpPost
    <2>3. CASE Answered(r)
      BY <2>2, <2>3, <1>s, AnsweredStep
    <2>4. CASE node # NoNode /\ Execute(r, node)
      <3>1. /\ node \in Paths
            /\ RequiredAlong(node) \subseteq req[r].perms
            /\ "commands:execute" \in req[r].perms
        BY <2>4, VisibleIsPermitted DEF Paths
      <3>2. RequestStep
        BY <2>2, <2>4, <3>1, ExecuteStep
      <3> QED BY <2>2, <3>2, <1>s
    <2> QED BY <2>1, <2>3, <2>4 DEF McpPost
  <1>5. CASE \E r \in Reqs : Finish(r)
    <2>1. PICK r \in Reqs, exit \in {"ok", "failed"} :
             req[r].st = "running" /\ Counted(r, req[r].path, exit) /\ task' = task
      BY <1>5 DEF Finish, Exits
    <2>2. req[r].path \in Paths
      BY <2>1, <1>0 DEF Sound
    <2>3. EndsWith(r, req[r].path, exit)
      BY <2>1, <2>2, CountedEnds
    <2> QED BY <2>1, <2>3, <1>s DEF RequestStep
  <1>6. CASE \E r \in Reqs : TaskEnds(r)
    <2>1. PICK r \in Reqs, exit \in {"ok", "failed"} :
             Untouched /\ task' = [task EXCEPT ![r] = exit]
      BY <1>6 DEF TaskEnds, Exits, Untouched
    <2>2. TaskStep
      BY <2>1, <1>0 DEF TaskStep
    <2> QED BY <2>1, <2>2 DEF RequestStep
  <1>7. CASE \E r \in Reqs : StreamEnd(r)
    <2>1. PICK r \in Reqs : StreamEnd(r)
      BY <1>7
    <2>2. req[r].st = "streaming" /\ req[r].path \in Paths /\ task' = task
      BY <2>1, <1>0 DEF StreamEnd, Sound
    <2>3. task[r] \in {"ok", "failed"}
      BY <2>1, <2>2, <1>0 DEF StreamEnd, Sound
    <2>4. EndsWith(r, req[r].path, task[r])
      BY <2>1, <2>2, <2>3, CountedEnds DEF StreamEnd
    <2> QED BY <2>2, <2>4, <1>s DEF RequestStep
  <1>8. CASE \E r \in Reqs : StreamGone(r)
    <2>1. PICK r \in Reqs : StreamGone(r)
      BY <1>8
    <2>2. req[r].st = "streaming" /\ req[r].path \in Paths /\ task' = task
      BY <2>1, <1>0 DEF StreamGone, Sound
    <2>3. "gone" \in Ends /\ Bad("gone") = FALSE
      BY DEF Ends, Bad
    <2>4. EndsWith(r, req[r].path, "gone")
      BY <2>1, <2>2, <2>3 DEF StreamGone, EndsWith, MayNotify
    <2> QED BY <2>2, <2>4, <1>s DEF RequestStep
  <1>9. CASE \E r \in Reqs : ExecutorGone(r)
    <2>1. PICK r \in Reqs : ExecutorGone(r)
      BY <1>9
    <2>2. req[r].st = "running" /\ req[r].path \in Paths /\ task' = task
      BY <2>1, <1>0 DEF ExecutorGone, Sound
    <2>3. "cut" \in Ends /\ Bad("cut") = TRUE
      BY DEF Ends, Bad
    <2>4. EndsWith(r, req[r].path, "cut")
      BY <2>1, <2>2, <2>3 DEF ExecutorGone, EndsWith, MayNotify
    <2> QED BY <2>2, <2>4, <1>s DEF RequestStep
  <1>10. CASE (\E m \in Modules : Toggle(m)) \/ (\E c \in Callers : Revise(c))
    BY <1>10, <1>s DEF Toggle, Revise, RequestStep, Untouched
  <1> QED BY <1>1, <1>2, <1>3, <1>4, <1>5, <1>6, <1>7, <1>8, <1>9, <1>10 DEF Next

-----------------------------------------------------------------------------
(* The invariant holds.                                                    *)

\* Requests and accounts as they are at the start.
LEMMA InitSound == Init => Requests /\ Settings
  <1> SUFFICES ASSUME Init PROVE Requests /\ Settings
    OBVIOUS
  <1>1. Requests
    BY DEF Init, Requests, Sound, States, Idle
  <1>2. Settings
    BY DEF Init, Settings
  <1> QED BY <1>1, <1>2

\* The configuration and the accounts keep their types.
LEMMA SettingsStep ==
    ASSUME Settings, [Next]_vars
    PROVE  Settings'
  <1>1. CASE \E m \in Modules : Toggle(m)
    BY <1>1 DEF Toggle, Settings
  <1>2. CASE \E c \in Callers : Revise(c)
    BY <1>2 DEF Revise, Settings
  <1>3. CASE UNCHANGED <<server, held, standing, disabled>>
    BY <1>3 DEF Settings
  <1> QED BY <1>1, <1>2, <1>3 DEF Next, vars, Arrive, ExecuteCommand, ExecuteStream, McpPost,
             Finish, TaskEnds, StreamEnd, StreamGone, ExecutorGone

\* A request that ends has run on a path the registry was asked for.
LEMMA EndIsSound ==
    ASSUME NEW path \in Paths, NEW exit \in Ends, NEW t
    PROVE  Sound([st |-> "done", path |-> path, exit |-> exit], t)
  BY DEF Sound, States

\* A step keeps every request sound.
LEMMA RequestsStep ==
    ASSUME Requests, Settings, [Next]_vars
    PROVE  Requests'
  <1>0. /\ req = [r \in Reqs |-> req[r]]
        /\ task \in [Reqs -> {"none", "running", "ok", "failed"}]
        /\ \A r \in Reqs : Sound(req[r], task[r])
    BY DEF Requests
  <1>1. CASE UNCHANGED vars
    BY <1>0, <1>1 DEF Requests, vars
  <1>2. CASE Next
    <2>1. RequestStep /\ TaskStep
      BY <1>2, StepKinds
    <2>2. \A r \in Reqs : Sound(req[r], task'[r])
      BY <1>0, <2>1 DEF Sound, TaskStep
    <2>3. CASE Untouched
      BY <1>0, <2>1, <2>2, <2>3 DEF Requests, Untouched, TaskStep
    <2>4. CASE \E r \in Reqs : \E q : GoesOn(r, q)
      <3>0. PICK r \in Reqs : \E q : GoesOn(r, q)
        BY <2>4
      <3>1. PICK q : GoesOn(r, q)
        BY <3>0
      <3>2. req' = [req EXCEPT ![r] = q] /\ Sound(q, task'[r])
        BY <3>1 DEF GoesOn
      <3>3. req' = [x \in Reqs |-> req'[x]] /\ \A x \in Reqs : Sound(req'[x], task'[x])
        BY <1>0, <2>2, <3>2
      <3> QED BY <2>1, <3>3 DEF Requests, TaskStep
    <2>5. CASE \E r \in Reqs : \E path, exit : EndsWith(r, path, exit)
      <3>0. PICK r \in Reqs : \E path, exit : EndsWith(r, path, exit)
        BY <2>5
      <3>1. PICK path, exit : EndsWith(r, path, exit)
        BY <3>0
      <3> DEFINE q == [st |-> "done", path |-> path, exit |-> exit]
      <3>2. req' = [req EXCEPT ![r] = q] /\ Sound(q, task'[r])
        BY <3>1, EndIsSound DEF EndsWith, Ended
      <3> HIDE DEF q
      <3>3. req' = [x \in Reqs |-> req'[x]] /\ \A x \in Reqs : Sound(req'[x], task'[x])
        BY <1>0, <2>2, <3>2
      <3> QED BY <2>1, <3>3 DEF Requests, TaskStep
    <2> QED BY <2>1, <2>3, <2>4, <2>5 DEF RequestStep
  <1> QED BY <1>1, <1>2

\* Whatever the requests do, their states and the accounts stay sound.
THEOREM RequestsSound == Spec => [](Requests /\ Settings)
  <1>1. Requests /\ Settings /\ [Next]_vars => (Requests /\ Settings)'
    BY RequestsStep, SettingsStep
  <1> QED BY <1>1, InitSound, PTL DEF Spec

\* No processor runs for a caller that the gate did not let in with
\* commands:execute and with the permissions of every processor on the way
\* down: for every registry, by /execute, /execute/stream and MCP, whatever
\* tool names collide and whatever changes while the request is on its way.
THEOREM OnlyPermittedRun == Spec => []RunsPermitted
  <1>1. Requests => RunsPermitted
    <2> SUFFICES ASSUME Requests, NEW r \in Reqs, req[r].st \in {"running", "streaming"}
                 PROVE  /\ FindProcessor(req[r].path) # NoNode
                        /\ "commands:execute" \in req[r].perms
                        /\ \A i \in DOMAIN req[r].path :
                               SubSeq(req[r].path, 1, i) \in Nodes =>
                                   Required(SubSeq(req[r].path, 1, i)) \subseteq req[r].perms
      BY DEF RunsPermitted
    <2>1. Sound(req[r], task[r])
      BY DEF Requests
    <2>2. /\ FindProcessor(req[r].path) # NoNode /\ "commands:execute" \in req[r].perms
          /\ req[r].path \in Paths /\ RequiredAlong(req[r].path) \subseteq req[r].perms
      BY <2>1 DEF Sound
    <2> QED BY <2>2, RequiredAlongCovers
  <1> QED BY <1>1, RequestsSound, PTL

\* Every path that names a command has a counter.
LEMMA RootHasCounter ==
    ASSUME NEW path \in Paths, NameOf(path) # NoNode
    PROVE  CountedAs(path) \in Roots
  BY DEF Roots, Paths

\* A request that names no command is counted under none.
LEMMA BlankHasNoCounter ==
    ASSUME NEW path \in Paths, NameOf(path) = NoNode
    PROVE  CountedAs(path) \notin Roots
  <1>1. CountedAs(path) = NoNode
    BY DEF CountedAs
  <1>2. ASSUME NEW q \in Requested \cup Nodes, NameOf(q) # NoNode
        PROVE  CountedAs(q) # NoNode
    <2>1. FirstWord(NameOf(q)) # NoNode
      BY <1>2, CommandsAssumption DEF NameOf, Root
    <2> QED BY <1>2, <2>1 DEF CountedAs
  <1> QED BY <1>1, <1>2 DEF Roots

\* A request that has not ended and goes on elsewhere leaves the ended ones
\* as they were.
LEMMA GoesOnKeepsEnded ==
    ASSUME Requests, NEW r \in Reqs, NEW q, GoesOn(r, q), NEW root
    PROVE  Executed(root)' = Executed(root) /\ Failed(root)' = Failed(root)
  <1>1. /\ req = [x \in Reqs |-> req[x]] /\ req' = [req EXCEPT ![r] = q]
        /\ req[r].st # "done" /\ q.st # "done"
    BY DEF Requests, GoesOn
  <1>2. req'[r].st # "done" /\ \A x \in Reqs : x # r => req'[x] = req[x]
    BY <1>1
  <1> QED BY <1>1, <1>2 DEF Executed, Failed, Bad

\* A request that ends is new among the ended ones of its root, and among the
\* failed ones when it failed; other roots keep theirs.
LEMMA EndsWithAdds ==
    ASSUME Requests, NEW r \in Reqs, NEW path, NEW exit, EndsWith(r, path, exit), NEW root
    PROVE  /\ r \notin Executed(root) /\ r \notin Failed(root)
           /\ Executed(root)' = IF CountedAs(path) = root THEN Executed(root) \cup {r} ELSE Executed(root)
           /\ Failed(root)' = IF CountedAs(path) = root /\ Bad(exit) THEN Failed(root) \cup {r}
                              ELSE Failed(root)
  <1> DEFINE q == [st |-> "done", path |-> path, exit |-> exit]
  <1>1. req = [x \in Reqs |-> req[x]] /\ req' = [req EXCEPT ![r] = q] /\ req[r].st # "done"
    BY DEF Requests, EndsWith, Ended
  <1>2. q.st = "done" /\ q.path = path /\ q.exit = exit
    OBVIOUS
  <1> HIDE DEF q
  <1>3. req'[r] = q /\ \A x \in Reqs : x # r => req'[x] = req[x]
    BY <1>1
  <1>4. r \notin Executed(root) /\ r \notin Failed(root)
    BY <1>1 DEF Executed, Failed
  <1>5. Executed(root)' = IF CountedAs(path) = root THEN Executed(root) \cup {r} ELSE Executed(root)
    BY <1>1, <1>2, <1>3 DEF Executed
  <1>6. Failed(root)' = IF CountedAs(path) = root /\ Bad(exit) THEN Failed(root) \cup {r}
                        ELSE Failed(root)
    BY <1>1, <1>2, <1>3, <1>4, <1>5 DEF Failed, Executed
  <1> QED BY <1>4, <1>5, <1>6

\* One more end, one more count.
LEMMA CountsStep ==
    ASSUME Requests, Settings, Counts, [Next]_vars
    PROVE  Counts'
  <1>0. /\ usage \in [Roots -> [executions : Nat, failures : Nat]]
        /\ \A root \in Roots :
              /\ IsFiniteSet(Executed(root)) /\ IsFiniteSet(Failed(root))
              /\ usage[root].executions = Cardinality(Executed(root))
              /\ usage[root].failures = Cardinality(Failed(root))
    BY DEF Counts
  <1>1. CASE req' = req /\ usage' = usage
    BY <1>0, <1>1 DEF Counts, Executed, Failed
  <1>2. ASSUME NEW r \in Reqs, NEW q, GoesOn(r, q)
        PROVE  Counts'
    <2>1. usage' = usage
      BY <1>2 DEF GoesOn
    <2>2. \A root \in Roots : Executed(root)' = Executed(root) /\ Failed(root)' = Failed(root)
      BY <1>2, GoesOnKeepsEnded
    <2> QED BY <1>0, <2>1, <2>2 DEF Counts
  <1>3. ASSUME NEW r \in Reqs, NEW path, NEW exit, EndsWith(r, path, exit)
        PROVE  Counts'
    <2>0. CASE NameOf(path) = NoNode
      <3>1. usage' = usage /\ CountedAs(path) \notin Roots
        BY <1>3, <2>0, BlankHasNoCounter DEF EndsWith, RecordUsage
      <3>2. \A root \in Roots : Executed(root)' = Executed(root) /\ Failed(root)' = Failed(root)
        BY <1>3, <3>1, EndsWithAdds
      <3> QED BY <1>0, <3>1, <3>2 DEF Counts
    <2> SUFFICES ASSUME NameOf(path) # NoNode
                 PROVE  Counts'
      BY <2>0
    <2>1. CountedAs(path) \in Roots
      BY <1>3, RootHasCounter DEF EndsWith
    <2> DEFINE was == usage[CountedAs(path)]
               now == [executions |-> was.executions + 1,
                       failures |-> IF Bad(exit) THEN was.failures + 1 ELSE was.failures]
    <2>2. usage' = [usage EXCEPT ![CountedAs(path)] = now]
      BY <1>3 DEF EndsWith, RecordUsage
    <2>3. was \in [executions : Nat, failures : Nat]
      BY <1>0, <2>1
    <2>4. now \in [executions : Nat, failures : Nat]
      BY <2>3
    <2>5. usage' \in [Roots -> [executions : Nat, failures : Nat]]
      <3> HIDE DEF now
      <3> QED BY <1>0, <2>2, <2>4
    <2>6. ASSUME NEW root \in Roots
          PROVE  /\ IsFiniteSet(Executed(root)') /\ IsFiniteSet(Failed(root)')
                 /\ usage'[root].executions = Cardinality(Executed(root)')
                 /\ usage'[root].failures = Cardinality(Failed(root)')
      <3> DEFINE E == Executed(root)
                 F == Failed(root)
      <3>1. /\ r \notin E /\ r \notin F
            /\ E' = IF CountedAs(path) = root THEN E \cup {r} ELSE E
            /\ F' = IF CountedAs(path) = root /\ Bad(exit) THEN F \cup {r} ELSE F
        BY <1>3, EndsWithAdds
      <3>2. /\ IsFiniteSet(E) /\ IsFiniteSet(F)
            /\ usage[root].executions = Cardinality(E) /\ usage[root].failures = Cardinality(F)
        BY <1>0
      <3> HIDE DEF E, F
      <3>3. /\ IsFiniteSet(E \cup {r}) /\ Cardinality(E \cup {r}) = Cardinality(E) + 1
            /\ IsFiniteSet(F \cup {r}) /\ Cardinality(F \cup {r}) = Cardinality(F) + 1
        BY <3>1, <3>2, FS_AddElement
      <3>4. CASE root # CountedAs(path)
        <4>1. usage'[root] = usage[root]
          <5> HIDE DEF now
          <5> QED BY <1>0, <2>2, <3>4
        <4>2. E' = E /\ F' = F
          BY <3>1, <3>4
        <4> QED BY <3>2, <4>1, <4>2 DEF E, F
      <3>5. CASE root = CountedAs(path)
        <4>1. usage'[root] = now
          <5> HIDE DEF now
          <5> QED BY <1>0, <2>1, <2>2, <3>5
        <4>2. CASE Bad(exit)
          <5>1. E' = E \cup {r} /\ F' = F \cup {r}
            BY <3>1, <3>5, <4>2
          <5>2. usage'[root].executions = Cardinality(E) + 1 /\ usage'[root].failures = Cardinality(F) + 1
            BY <3>2, <3>5, <4>1, <4>2
          <5> QED BY <3>3, <5>1, <5>2 DEF E, F
        <4>3. CASE ~Bad(exit)
          <5>1. E' = E \cup {r} /\ F' = F
            BY <3>1, <3>5, <4>3
          <5>2. usage'[root].executions = Cardinality(E) + 1 /\ usage'[root].failures = Cardinality(F)
            BY <3>2, <3>5, <4>1, <4>3
          <5> QED BY <3>2, <3>3, <5>1, <5>2 DEF E, F
        <4> QED BY <4>2, <4>3
      <3> QED BY <3>4, <3>5
    <2> QED BY <2>5, <2>6 DEF Counts
  <1>4. CASE Next
    <2>1. RequestStep
      BY <1>4, StepKinds
    <2> QED BY <2>1, <1>1, <1>2, <1>3 DEF RequestStep, Untouched
  <1> QED BY <1>1, <1>4 DEF vars

\* An event follows the end of its request and tells its outcome.
LEMMA EventsStep ==
    ASSUME Requests, Settings, Events, [Next]_vars
    PROVE  Events'
  <1>0. req = [x \in Reqs |-> req[x]]
    BY DEF Requests
  <1>1. CASE req' = req /\ event' = event
    BY <1>1 DEF Events
  <1>2. ASSUME NEW r \in Reqs, NEW q, GoesOn(r, q)
        PROVE  Events'
    <2>1. /\ req' = [req EXCEPT ![r] = q] /\ event' = event
          /\ req[r].st # "done" /\ q.st # "done"
      BY <1>2 DEF GoesOn
    <2>2. req'[r] = q /\ \A x \in Reqs : x # r => req'[x] = req[x]
      BY <1>0, <2>1
    <2> QED BY <2>1, <2>2 DEF Events
  <1>3. ASSUME NEW r \in Reqs, NEW path, NEW exit, EndsWith(r, path, exit)
        PROVE  Events'
    <2> DEFINE q == [st |-> "done", path |-> path, exit |-> exit]
               result == IF Bad(exit) THEN "failed" ELSE "ok"
    <2>1. req' = [req EXCEPT ![r] = q] /\ req[r].st # "done"
      BY <1>3 DEF EndsWith, Ended
    <2>2. q.st = "done" /\ q.path = path /\ q.exit = exit
      OBVIOUS
    <2> HIDE DEF q
    <2>3. req'[r] = q /\ \A x \in Reqs : x # r => req'[x] = req[x]
      BY <1>0, <2>1
    <2>4. event \in [Reqs -> {"none", "ok", "failed"}] /\ event[r] = "none"
      BY <2>1 DEF Events
    <2>5. CASE event' = [event EXCEPT ![r] = result] /\ NameOf(path) \in Nodes
      BY <2>2, <2>3, <2>4, <2>5 DEF Events
    <2>6. CASE event' = event /\ (NameOf(path) \in Nodes => exit \in {"gone", "cut"})
      BY <2>2, <2>3, <2>4, <2>6 DEF Events
    <2> QED BY <1>3, <2>5, <2>6 DEF EndsWith, NotifyExecuted
  <1>4. CASE Next
    <2>1. RequestStep
      BY <1>4, StepKinds
    <2> QED BY <2>1, <1>1, <1>2, <1>3 DEF RequestStep, Untouched
  <1> QED BY <1>1, <1>4 DEF vars

\* Nothing is counted and nothing announced at the start.
LEMMA InitCounts == Init => Counts /\ Events
  <1> SUFFICES ASSUME Init PROVE Counts /\ Events
    OBVIOUS
  <1>1. \A root \in Roots : Executed(root) = {} /\ Failed(root) = {}
    BY DEF Init, Executed, Failed, Idle
  <1>2. IsFiniteSet({}) /\ Cardinality({}) = 0
    BY FS_EmptySet
  <1>3. Counts
    BY <1>1, <1>2 DEF Init, Counts
  <1>4. Events
    BY DEF Init, Events, Idle
  <1> QED BY <1>3, <1>4

\* The counters of GET /commands/stats are exact for every registry and any
\* number of requests: each execution is counted once, under its root, and
\* as a failure exactly when it failed.
THEOREM UsageCountsExecutions == Spec => []UsageIsExact
  <1>1. Requests /\ Settings /\ Counts /\ [Next]_vars => Counts'
    BY CountsStep
  <1>2. Counts => UsageIsExact
    BY DEF Counts, UsageIsExact, Failed, Bad
  <1> QED BY <1>1, <1>2, InitCounts, RequestsSound, PTL DEF Spec

\* command:executed is published after the end of an execution with the
\* result that was counted, and only a client that left can lose it.
THEOREM EventsTellOutcome == Spec => []EventMatchesCount
  <1>1. Requests /\ Settings /\ Events /\ [Next]_vars => Events'
    BY EventsStep
  <1>2. Events => EventMatchesCount
    BY DEF Events, EventMatchesCount, Bad
  <1> QED BY <1>1, <1>2, InitCounts, RequestsSound, PTL DEF Spec

\* Every variable keeps its type; in particular no counter ever shows more
\* failures than executions.
THEOREM TypeCorrect == Spec => []TypeOK
  <1>1. Requests /\ Settings /\ Counts /\ [Next]_vars => Counts'
    BY CountsStep
  <1>2. Requests /\ Settings /\ Events /\ [Next]_vars => Events'
    BY EventsStep
  <1>3. Requests /\ Settings /\ Counts /\ Events => TypeOK
    <2> SUFFICES ASSUME Requests, Settings, Counts, Events PROVE TypeOK
      OBVIOUS
    <2>1. \A root \in Roots : usage[root].failures <= usage[root].executions
      <3> SUFFICES ASSUME NEW root \in Roots
                   PROVE  usage[root].failures <= usage[root].executions
        OBVIOUS
      <3>1. IsFiniteSet(Executed(root)) /\ Failed(root) \subseteq Executed(root)
        BY DEF Counts, Failed
      <3> QED BY <3>1, FS_Subset DEF Counts
    <2>2. \A r \in Reqs :
            /\ req[r].st \in States
            /\ req[r].st = "streaming" => task[r] # "none" /\ Streams(FindProcessor(req[r].path))
      BY DEF Requests, Sound
    <2> QED BY <2>1, <2>2 DEF TypeOK, Requests, Settings, Counts, Events, States
  <1> QED BY <1>1, <1>2, <1>3, InitCounts, RequestsSound, PTL DEF Spec
=============================================================================
