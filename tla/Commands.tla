------------------------------ MODULE Commands ------------------------------
(***************************************************************************)
(* Running a command: the protection middleware of the users plugin        *)
(* (server_protection.py), the routes /execute and /execute/stream         *)
(* (cli_controller.py), the MCP endpoint (mcp/), the executor with its     *)
(* usage counters and its command:executed event, and the filter of the    *)
(* admin plugin that disables modules (module_registry.py).                *)
(*                                                                         *)
(* A command processor is a node of a tree, named by its path.  A request  *)
(* passes the gate, is handled with the permissions it was let in with,    *)
(* and ends once; in between other requests run, callers lose permissions  *)
(* and modules are switched on and off.                                    *)
(***************************************************************************)
EXTENDS Naturals, FiniteSets, Sequences, SequencesExt

CONSTANTS Reqs,          \* request ids
          Callers,       \* who sends requests
          Permissions,   \* permissions commands declare; "commands:execute"
          NodeOrder,     \* the processors' paths, in the order of the registry
          Required(_),   \* required_permissions of a processor
          Unlisted(_),   \* allow_unlisted_commands
          Streams(_),    \* implements ICliStreamCommandProcessor
          TakesInput(_), \* declares parameters or takes a value
          InputRequired(_), \* and the parameter or the value is required
          ToolName(_),   \* command_tool_name
          IsHttp(_),     \* one of the built-in commands http get, http post
          OtherTools,    \* tools of earlier providers: name -> permissions
          Exposed(_),    \* tool names the MCP options let through
          Requested,     \* paths that requests name, known or not
          Stripped(_),   \* a root name without the blanks around it, NoNode if blank
          FirstWord(_),  \* the first word of a stripped root name
          ModuleOf       \* the module of each root command that has one

Nodes == {NodeOrder[i] : i \in DOMAIN NodeOrder}
NoNode == <<>>

ASSUME CommandsAssumption ==
    /\ "commands:execute" \in Permissions
    /\ NodeOrder \in Seq(Nodes)
    /\ \A p \in Nodes \cup Requested : p \in Seq(STRING)
    /\ \A n \in Nodes : n # NoNode /\ (Len(n) > 1 => Front(n) \in Nodes)
    /\ \A n \in Nodes : Required(n) \subseteq Permissions
    /\ \A n \in Nodes : Len(n) = 1 => Stripped(n) = n
    /\ \A p \in Nodes \cup Requested :
           Stripped(SubSeq(p, 1, 1)) # NoNode => FirstWord(Stripped(SubSeq(p, 1, 1))) # NoNode
    /\ DOMAIN ModuleOf \subseteq {n \in Nodes : Len(n) = 1}

VARIABLES
    server,    \* configuration: users plugin, external adapter, static MCP token
    held,      \* the permissions of each caller
    standing,  \* "ok", "pending" (must change its password) or "out" (401)
    disabled,  \* modules that the administrator has switched off
    req,       \* the state of each request
    task,      \* the processor task of a streamed command
    usage,     \* executions and failures per root command
    event      \* the outcome that a request's command:executed event gives

vars == <<server, held, standing, disabled, req, task, usage, event>>

Idle == [st |-> "idle"]
Root(path) == SubSeq(path, 1, 1)
(* The name that counters and events go by: the stripped one if the        *)
(* registry knows it, its first word otherwise, none if it is blank.       *)
NameOf(path) == Stripped(Root(path))
CountedAs(path) ==
    IF NameOf(path) \in Nodes \cup {NoNode} THEN NameOf(path) ELSE FirstWord(NameOf(path))
Roots == {CountedAs(p) : p \in {q \in Requested \cup Nodes : NameOf(q) # NoNode}}

-----------------------------------------------------------------------------
(* The gate *)

Origins == {"none", "same", "allowed", "foreign"}
OriginAllowed(origin) == origin \in {"same", "allowed"}
(* A request as it arrives; the bearer is a session or API token of its    *)
(* caller, or the static token of an unprotected MCP endpoint.             *)
Arrivals == [kind : {"execute", "stream", "mcp"}, caller : Callers, path : Requested,
             origin : Origins, bearer : BOOLEAN]

(* An origin that is sent must be allowed. *)
McpGate(a) == a.kind = "mcp" => a.origin = "none" \/ OriginAllowed(a.origin)
(* Ambient credentials of an external adapter: no bearer, no foreign       *)
(* origin; the users plugin has its own copy of the origin check.          *)
AdapterOriginAllowed(origin) == origin \in {"same", "allowed"}
CsrfGate(a) == a.bearer \/ AdapterOriginAllowed(a.origin)
AuthenticateExternal(a) == standing[a.caller] # "out"
AuthenticateRequest(a) ==
    IF server.external THEN CsrfGate(a) /\ AuthenticateExternal(a)
    ELSE a.bearer /\ standing[a.caller] # "out"
StaticToken(a) == a.kind = "mcp" /\ server.mcpToken => a.bearer
(* The rule table: every route here needs commands:execute. *)
HttpPermission(kind) ==
    IF kind \in {"execute", "stream", "mcp"} THEN {"commands:execute"} ELSE {}
Gate(a) ==
    /\ McpGate(a)
    /\ IF server.protected
       THEN /\ AuthenticateRequest(a)
            /\ standing[a.caller] = "ok"
            /\ HttpPermission(a.kind) \subseteq held[a.caller]
       ELSE StaticToken(a)
(* Without the users plugin there is no auth context: everything is allowed. *)
ContextPermissions(a) == IF server.protected THEN held[a.caller] ELSE Permissions

Arrive(r, a) ==
    /\ req[r].st = "idle"
    /\ req' = [req EXCEPT ![r] =
           IF Gate(a)
           THEN [st |-> "gated", kind |-> a.kind, path |-> a.path, caller |-> a.caller,
                 perms |-> ContextPermissions(a)]
           ELSE [st |-> "refused"]]
    /\ UNCHANGED <<server, held, standing, disabled, task, usage, event>>

-----------------------------------------------------------------------------
(* The registry *)

KnownDepth(path) == Cardinality({i \in DOMAIN path : SubSeq(path, 1, i) \in Nodes})
Known(path) == SubSeq(path, 1, KnownDepth(path))
FindProcessor(path) ==
    IF Known(path) = path THEN path
    ELSE IF Known(path) # NoNode /\ Unlisted(Known(path)) THEN Known(path)
    ELSE NoNode
(* Each processor's permissions apply to everything beneath it. *)
RequiredAlong(path) == UNION {Required(SubSeq(path, 1, i)) : i \in 1..KnownDepth(path)}
(* Mutant: only the permissions of the processor found. *)
PermissionDeniedAtLeaf(perms, path) ==
    FindProcessor(path) # NoNode /\ ~(Required(FindProcessor(path)) \subseteq perms)
PermissionDenied(perms, path) == ~(RequiredAlong(path) \subseteq perms)
(* Only the processors that a module lists are known to the filter. *)
IsAllowed(node) == node \in DOMAIN ModuleOf => ModuleOf[node] \notin disabled
IsBlocked(node) == ~IsAllowed(node)

(* MCP tools: built-in and plugin tools come before commands; a name goes  *)
(* to the first tool that the caller may see.                              *)
IsTool(node) == TakesInput(node) \/ ~\E m \in Nodes : Len(m) > 1 /\ Front(m) = node
CommandTool(name) ==
    LET same == {i \in DOMAIN NodeOrder : IsTool(NodeOrder[i]) /\ ToolName(NodeOrder[i]) = name}
    IN  IF same = {} THEN NoNode ELSE NodeOrder[Min(same)]
OtherTool(perms, name) ==
    name \in DOMAIN OtherTools /\ Exposed(name) /\ OtherTools[name] \subseteq perms
VisibleCommand(perms, name) ==
    LET n == CommandTool(name)
    IN  IF /\ ~OtherTool(perms, name) /\ Exposed(name) /\ n # NoNode
           /\ RequiredAlong(n) \cup {"commands:execute"} \subseteq perms
        THEN n ELSE NoNode

-----------------------------------------------------------------------------
(* Execution *)

RecordUsage(path, failed) ==
    usage' = IF NameOf(path) = NoNode THEN usage
             ELSE [usage EXCEPT ![CountedAs(path)] =
                      [executions |-> @.executions + 1,
                       failures   |-> IF failed THEN @.failures + 1 ELSE @.failures]]
(* Published when the registry knows the stripped name. *)
NotifyExecuted(r, path, failed) ==
    event' = IF NameOf(path) \in Nodes
             THEN [event EXCEPT ![r] = IF failed THEN "failed" ELSE "ok"]
             ELSE event
(* A client that leaves may cancel the publication. *)
MayNotify(r, path, failed) == NotifyExecuted(r, path, failed) \/ UNCHANGED event

(* How an execution ended for the caller: "ok", "failed", "gone" when the  *)
(* caller left a streaming processor, "cut" when it left the executor.     *)
Ended(r, path, exit) == req' = [req EXCEPT ![r] = [st |-> "done", path |-> path, exit |-> exit]]
Counted(r, path, exit) ==
    /\ Ended(r, path, exit)
    /\ RecordUsage(path, exit = "failed")
    /\ NotifyExecuted(r, path, exit = "failed")
(* Answered before any command was executed: 202, 403, an RPC error. *)
Answered(r) ==
    /\ req' = [req EXCEPT ![r] = [st |-> "answered"]]
    /\ UNCHANGED <<usage, event>>
Runs(r, st, path) ==
    /\ req' = [req EXCEPT ![r] = [st |-> st, kind |-> req[r].kind, path |-> path,
                                  perms |-> req[r].perms]]
    /\ UNCHANGED <<usage, event>>

(* CliCommandExecutorService._execute, up to the processor. *)
Execute(r, path) ==
    LET node == FindProcessor(path)
    IN  IF node = NoNode \/ IsBlocked(node) THEN Counted(r, path, "failed")
        ELSE Runs(r, "running", path)

(* POST /execute *)
ExecuteCommand(r) ==
    /\ req[r].st = "gated" /\ req[r].kind = "execute"
    /\ IF PermissionDenied(req[r].perms, req[r].path) THEN Answered(r)
       ELSE Execute(r, req[r].path)
    /\ UNCHANGED <<server, held, standing, disabled, task>>

(* POST /execute/stream: the route counts what it does not hand to the     *)
(* executor.                                                               *)
ExecuteStream(r) ==
    LET path == req[r].path
        node == FindProcessor(path)
    IN  /\ req[r].st = "gated" /\ req[r].kind = "stream"
        /\ IF PermissionDenied(req[r].perms, path) THEN Answered(r) /\ UNCHANGED task
           ELSE IF node = NoNode \/ IsBlocked(node)
           THEN Counted(r, path, "failed") /\ UNCHANGED task
           ELSE IF Streams(node)
           THEN Runs(r, "streaming", path) /\ task' = [task EXCEPT ![r] = "running"]
           ELSE Execute(r, path) /\ UNCHANGED task
        /\ UNCHANGED <<server, held, standing, disabled>>

(* The arguments of a call, one that the tool may declare and one it does  *)
(* not; null counts as absent.                                             *)
Arguments == [{"input", "other"} -> {"absent", "null", "right type", "wrong type"}]
Declared(node) == IF TakesInput(node) THEN {"input"} ELSE {}
ValidArguments(node, args) ==
    /\ \A k \in DOMAIN args : args[k] # "absent" => k \in Declared(node) /\ args[k] # "wrong type"
    /\ InputRequired(node) => \A k \in Declared(node) : args[k] = "right type"

(* POST /api/qcli/mcp: only a tools/call with an id runs anything. *)
McpMessages == {"call", "notification", "otherMethod", "malformed"}
McpPost(r, message, args) ==
    LET perms == req[r].perms
        name == ToolName(req[r].path)
        node == VisibleCommand(perms, name)
    IN  /\ req[r].st = "gated" /\ req[r].kind = "mcp"
        /\ IF message = "call" /\ node # NoNode /\ ValidArguments(node, args)
           THEN Execute(r, node) ELSE Answered(r)
        /\ UNCHANGED <<server, held, standing, disabled, task>>

(* The http commands report every error as text of exit code 0, except     *)
(* when they stream.                                                       *)
Exits(node, streamed) == IF IsHttp(node) /\ ~streamed THEN {"ok"} ELSE {"ok", "failed"}

(* Mutant: the stream route counts what the executor has counted. *)
FinishCountedTwice(r) ==
    /\ req[r].st = "running"
    /\ \E exit \in Exits(FindProcessor(req[r].path), FALSE) :
           /\ Ended(r, req[r].path, exit)
           /\ NotifyExecuted(r, req[r].path, exit = "failed")
           /\ usage' = [usage EXCEPT ![CountedAs(req[r].path)] =
                  [executions |-> @.executions + (IF req[r].kind = "stream" THEN 2 ELSE 1),
                   failures |-> @.failures + (IF exit = "failed" THEN 1 ELSE 0)]]
    /\ UNCHANGED <<server, held, standing, disabled, task>>
(* The processor returns or raises in the executor. *)
Finish(r) ==
    /\ req[r].st = "running"
    /\ \E exit \in Exits(FindProcessor(req[r].path), FALSE) : Counted(r, req[r].path, exit)
    /\ UNCHANGED <<server, held, standing, disabled, task>>

(* The task of a streaming processor ends ... *)
TaskEnds(r) ==
    /\ task[r] = "running"
    /\ \E exit \in Exits(FindProcessor(req[r].path), TRUE) :
           task' = [task EXCEPT ![r] = exit]
    /\ UNCHANGED <<server, held, standing, disabled, req, usage, event>>
(* Mutant: the event does not tell a failure. *)
StreamEndAnnouncedOk(r) ==
    /\ req[r].st = "streaming" /\ task[r] # "running"
    /\ Ended(r, req[r].path, task[r])
    /\ RecordUsage(req[r].path, task[r] = "failed")
    /\ NotifyExecuted(r, req[r].path, FALSE)
    /\ UNCHANGED <<server, held, standing, disabled, task>>
(* ... and the stream, its queue emptied, gives the exit code. *)
StreamEnd(r) ==
    /\ req[r].st = "streaming" /\ task[r] # "running"
    /\ Counted(r, req[r].path, task[r])
    /\ UNCHANGED <<server, held, standing, disabled, task>>
(* The client leaves: cancellation_event is not set, so the task goes on. *)
StreamGone(r) ==
    /\ req[r].st = "streaming"
    /\ Ended(r, req[r].path, "gone")
    /\ RecordUsage(req[r].path, FALSE)
    /\ MayNotify(r, req[r].path, FALSE)
    /\ UNCHANGED <<server, held, standing, disabled, task>>
(* The client leaves while the executor runs: the execution is cancelled. *)
ExecutorGone(r) ==
    /\ req[r].st = "running" /\ req[r].kind = "stream"
    /\ Ended(r, req[r].path, "cut")
    /\ RecordUsage(req[r].path, TRUE)
    /\ MayNotify(r, req[r].path, TRUE)
    /\ UNCHANGED <<server, held, standing, disabled, task>>

(* The administrator switches a module; an account changes. *)
Toggle(module) ==
    /\ disabled' = IF module \in disabled THEN disabled \ {module} ELSE disabled \cup {module}
    /\ UNCHANGED <<server, held, standing, req, task, usage, event>>
Revise(c) ==
    /\ server.protected
    /\ \E perms \in SUBSET Permissions, s \in {"ok", "pending", "out"} :
           /\ held' = [held EXCEPT ![c] = perms]
           /\ standing' = [standing EXCEPT ![c] = s]
    /\ UNCHANGED <<server, disabled, req, task, usage, event>>

-----------------------------------------------------------------------------
Modules == {ModuleOf[n] : n \in DOMAIN ModuleOf}
(* An external adapter belongs to the users plugin; with the plugin the    *)
(* static MCP token is not consulted.                                      *)
Servers == {s \in [protected : BOOLEAN, external : BOOLEAN, mcpToken : BOOLEAN] :
               (s.external => s.protected) /\ (s.mcpToken => ~s.protected)}

Init ==
    /\ server \in Servers
    /\ held = [c \in Callers |-> Permissions]
    /\ standing = [c \in Callers |-> "ok"]
    /\ disabled = {}
    /\ req = [r \in Reqs |-> Idle]
    /\ task = [r \in Reqs |-> "none"]
    /\ usage = [root \in Roots |-> [executions |-> 0, failures |-> 0]]
    /\ event = [r \in Reqs |-> "none"]

Next ==
    \/ \E r \in Reqs : req[r].st = "idle" /\ \E a \in Arrivals : Arrive(r, a)
    \/ \E r \in Reqs : ExecuteCommand(r)
    \/ \E r \in Reqs : ExecuteStream(r)
    \/ \E r \in Reqs, m \in McpMessages, args \in Arguments : McpPost(r, m, args)
    \/ \E r \in Reqs : Finish(r)
    \/ \E r \in Reqs : TaskEnds(r)
    \/ \E r \in Reqs : StreamEnd(r)
    \/ \E r \in Reqs : StreamGone(r)
    \/ \E r \in Reqs : ExecutorGone(r)
    \/ \E m \in Modules : Toggle(m)
    \/ \E c \in Callers : Revise(c)

Spec == Init /\ [][Next]_vars

-----------------------------------------------------------------------------
(* Every variable has its type: a streamed task exists only for a request  *)
(* that was let through the stream route, and no counter counts more       *)
(* failures than executions (the rows of GET /commands/stats).             *)
TypeOK ==
    /\ server \in Servers
    /\ held \in [Callers -> SUBSET Permissions]
    /\ standing \in [Callers -> {"ok", "pending", "out"}]
    /\ disabled \subseteq Modules
    /\ \A r \in Reqs :
          /\ req[r].st \in {"idle", "refused", "answered", "gated", "running", "streaming", "done"}
          /\ req[r].st = "streaming" => task[r] # "none" /\ Streams(FindProcessor(req[r].path))
    /\ task \in [Reqs -> {"none", "running", "ok", "failed"}]
    /\ DOMAIN usage = Roots
    /\ \A root \in Roots : usage[root].failures <= usage[root].executions
    /\ event \in [Reqs -> {"none", "ok", "failed"}]

Executed(root) == {r \in Reqs : req[r].st = "done" /\ CountedAs(req[r].path) = root}
(* The counters of GET /commands/stats are exact: each execution through   *)
(* /execute, /execute/stream or MCP is counted once under the name of its  *)
(* root command whatever way it ends (a request that names no command      *)
(* under none), and as a failure exactly when its exit code was            *)
(* not 0, it raised, was unknown, was blocked or was cancelled inside the  *)
(* executor; a client that leaves a streaming processor is no failure.     *)
UsageIsExact ==
    \A root \in Roots :
        /\ usage[root].executions = Cardinality(Executed(root))
        /\ usage[root].failures =
               Cardinality({r \in Executed(root) : req[r].exit \in {"failed", "cut"}})

(* command:executed tells of an execution what the counters do: no event   *)
(* before the end or for an unknown root; after it one with the same       *)
(* result, which only the cancellation by a client that left can lose.     *)
EventMatchesCount ==
    \A r \in Reqs :
        LET due == req[r].st = "done" /\ NameOf(req[r].path) \in Nodes
            result == IF req[r].exit \in {"failed", "cut"} THEN "failed" ELSE "ok"
        IN  /\ event[r] # "none" => due /\ event[r] = result
            /\ due /\ event[r] = "none" => req[r].exit \in {"gone", "cut"}

(* A processor runs only for a caller that the gate let in with            *)
(* commands:execute and with the permissions of every processor on the way *)
(* down, by REST and by MCP alike, whatever name the request used and      *)
(* whatever the account or the modules became in between.                  *)
RunsPermitted ==
    \A r \in Reqs : req[r].st \in {"running", "streaming"} =>
        /\ FindProcessor(req[r].path) # NoNode
        /\ "commands:execute" \in req[r].perms
        /\ \A i \in DOMAIN req[r].path :
               SubSeq(req[r].path, 1, i) \in Nodes =>
                   Required(SubSeq(req[r].path, 1, i)) \subseteq req[r].perms

(* module_registry.py: "processors belonging to disabled modules are       *)
(* blocked at execution time": no processor starts below a root whose      *)
(* module is switched off.                                                 *)
DisabledModuleBlocked ==
    [][\A r \in Reqs :
          (req[r].st = "gated" /\ req'[r].st \in {"running", "streaming"}
             /\ Root(req'[r].path) \in DOMAIN ModuleOf)
          => ModuleOf[Root(req'[r].path)] \notin disabled]_vars
=============================================================================
