---------------------------- MODULE DataExplorer ----------------------------
(***************************************************************************)
(* The data explorer: the registry of sources, the executor with its       *)
(* timeout and row limit, and the seven providers.  A provider opens a     *)
(* connection per request, sends a statement, reads the reply, commits     *)
(* where its database wants that, and closes the connection on every way   *)
(* out.  The databases themselves are external: a statement that was sent  *)
(* may be performed at any later time, or never, and a connection may fail *)
(* at any point.                                                           *)
(*                                                                         *)
(* A schema is read table by table, while other clients of the database    *)
(* create and drop tables.                                                 *)
(***************************************************************************)
EXTENDS Naturals, FiniteSets, FiniteSetsExt

CONSTANTS Queries,     \* POST /execute requests
          Schemas,     \* GET /schema requests
          Registry,    \* the sources: their provider and max_rows
          Tables,
          SystemIndices, \* elasticsearch's own indices: the name starts with a dot
          MaxReply,    \* bound: the rows of one reply
          MaxAlters,   \* bound: tables created or dropped meanwhile
          DEFAULT_ROWS,\* mongo's limit when max_rows is 0
          MAX_KEYS     \* the keys redis looks at for a schema

ASSUME DataExplorerAssumption ==
    /\ {MaxReply, DEFAULT_ROWS, MAX_KEYS} \subseteq Nat \ {0}
    /\ IsFiniteSet(Tables) /\ SystemIndices \subseteq Tables
    /\ \A s \in DOMAIN Registry :
          /\ Registry[s].max_rows \in Nat
          /\ Registry[s].provider \in {"sqlite", "postgres", "mysql", "mssql", "mongo", "redis",
                                       "elasticsearch"}

VARIABLES
    pc,      \* where a query's provider is
    source,  \* the source a query names
    stmt,    \* the statement of a query
    conn,    \* a query's connection: none, open or closed
    db,      \* what the database did with the statement
    thread,  \* a query's provider runs on in its thread after the timeout
    result,  \* what the provider returns once its connection is closed
    answer,  \* what the client was answered
    tables,  \* the tables of every source
    altered, \* how often other clients created or dropped one
    schema,  \* the schema requests
    held     \* their connections

schemaVars == <<tables, altered, schema, held>>
vars == <<pc, source, stmt, conn, db, thread, result, answer, schemaVars>>

Sources == DOMAIN Registry
ProviderOf(q) == Registry[source[q]].provider
(* How execute_async of each provider goes about a statement: where it     *)
(* runs, whether a change waits for commit(), whether it waits for its     *)
(* connection to close.                                                    *)
Trait(runs, commits, awaits) == [runs |-> runs, commits |-> commits, awaits |-> awaits]
Sqlite == Trait("at once", TRUE, FALSE)    \* on the event loop, without an await
Postgres == Trait("in steps", FALSE, TRUE)
Mysql == Trait("in steps", TRUE, FALSE)
Mssql == Trait("in a thread", TRUE, FALSE)  \* asyncio.to_thread
Mongo == Trait("in steps", FALSE, FALSE)
Redis == Trait("in steps", FALSE, TRUE)
Elastic == Trait("in steps", FALSE, TRUE)
Traits == [sqlite |-> Sqlite, postgres |-> Postgres, mysql |-> Mysql, mssql |-> Mssql,
           mongo |-> Mongo, redis |-> Redis, elasticsearch |-> Elastic]
TraitsOf(q) == Traits[ProviderOf(q)]

NoAnswer == [kind |-> "none", rows |-> 0, truncated |-> FALSE]
Error(kind) == [kind |-> kind, rows |-> 0, truncated |-> FALSE]

-----------------------------------------------------------------------------
(* Statements and their replies *)

SqlStatements ==
    [does : {"read", "returning"}, shape : {"rows"}, n : 0..MaxReply]
        \cup [does : {"write", "fails"}, shape : {"rows"}, n : {0}]
MongoStatements ==
    [does : {"read"}, shape : {"find", "findone", "aggregate", "count"}, n : 0..MaxReply]
        \cup [does : {"write", "refused", "fails"}, shape : {"count"}, n : {0}]
RedisStatements ==
    [does : {"read"}, shape : {"dict", "pairs", "list", "scalar"}, n : 0..MaxReply]
        \cup [does : {"write", "refused", "fails"}, shape : {"scalar"}, n : {0}]
ElasticStatements ==
    [does : {"read"}, shape : {"hits", "list", "object"}, n : 0..MaxReply]
        \cup [does : {"write", "refused", "fails"}, shape : {"object"}, n : {0}]
Statements(provider) ==
    IF provider = "mongo" THEN MongoStatements
    ELSE IF provider = "redis" THEN RedisStatements
    ELSE IF provider = "elasticsearch" THEN ElasticStatements ELSE SqlStatements

NoStatement == [does |-> "none", shape |-> "none", n |-> 0]

Changes(s) == s.does \in {"write", "returning"}
Rows(n) == [kind |-> "rows", rows |-> n, truncated |-> FALSE]
(* Mutant: find reads only what it returns. *)
MongoRowsToTheLimit(s, max) ==
    LET limit == IF max = 0 THEN DEFAULT_ROWS ELSE max
    IN  Rows(IF s.shape \in {"find", "aggregate"} THEN Min({s.n, limit})
             ELSE IF s.shape = "findone" THEN Min({s.n, 1}) ELSE 1)
(* find reads one document more than it returns, to know there are more. *)
MongoRows(s, max) ==
    LET limit == IF max = 0 THEN DEFAULT_ROWS ELSE max
        docs == Min({s.n, limit + 1})
    IN  IF s.shape = "find"
        THEN [Rows(Min({docs, limit})) EXCEPT !.truncated = docs > limit]
        ELSE Rows(IF s.shape = "findone" THEN Min({s.n, 1})
                  ELSE IF s.shape = "count" THEN 1 ELSE s.n)
(* A flat list of pairs makes half as many rows; a dict of fields is one   *)
(* row each, other values are one row.                                     *)
RedisRows(s) ==
    Rows(IF s.shape = "pairs" THEN s.n \div 2
         ELSE IF s.shape = "scalar" THEN 1 ELSE s.n)
(* Without hits the whole reply is one row. *)
ElasticRows(s) ==
    Rows(IF s.shape = "object" \/ (s.shape = "hits" /\ s.n = 0) THEN 1 ELSE s.n)
SqlRows(s) == Rows(s.n)
ProviderResult(provider, s, max) ==
    IF s.does = "write" THEN [kind |-> "changes", rows |-> 1, truncated |-> FALSE]
    ELSE IF provider = "mongo" THEN MongoRows(s, max)
    ELSE IF provider = "redis" THEN RedisRows(s)
    ELSE IF provider = "elasticsearch" THEN ElasticRows(s) ELSE SqlRows(s)

(* The executor cuts what the provider returned to max_rows. *)
Truncate(res, max) ==
    IF res.rows > max THEN [res EXCEPT !.rows = max, !.truncated = TRUE] ELSE res

-----------------------------------------------------------------------------
(* POST /execute *)

(* The connection is closed: what was not committed is rolled back, and    *)
(* the client is answered unless the timeout was quicker.                  *)
Closed(q, res) ==
    /\ conn' = [conn EXCEPT ![q] = IF @ = "open" THEN "closed" ELSE @]
    /\ db' = [db EXCEPT ![q] =
          IF TraitsOf(q).commits /\ @ \in {"queued", "ran"} THEN "rolled back" ELSE @]
    /\ pc' = [pc EXCEPT ![q] = "answered"]
    /\ answer' = [answer EXCEPT ![q] =
          IF thread[q] THEN @ ELSE Truncate(res, Registry[source[q]].max_rows)]
    /\ thread' = [thread EXCEPT ![q] = FALSE]
    /\ UNCHANGED <<source, stmt, result, schemaVars>>
(* Mutant: the connection is closed after the statement, not in a finally block. *)
LeaveWithoutFinally(q, res) ==
    IF res.kind \in {"rows", "changes"} THEN Closed(q, res)
    ELSE /\ pc' = [pc EXCEPT ![q] = "answered"]
         /\ answer' = [answer EXCEPT ![q] = res]
         /\ UNCHANGED <<source, stmt, conn, db, thread, result, schemaVars>>
(* The finally block: some drivers wait for the connection to close. *)
Leave(q, res) ==
    IF TraitsOf(q).awaits /\ conn[q] = "open"
    THEN /\ pc' = [pc EXCEPT ![q] = "closing"]
         /\ result' = [result EXCEPT ![q] = res]
         /\ UNCHANGED <<source, stmt, conn, db, thread, answer, schemaVars>>
    ELSE Closed(q, res)

ExecuteUnknown(q) ==
    /\ pc[q] = "idle"
    /\ pc' = [pc EXCEPT ![q] = "answered"]
    /\ answer' = [answer EXCEPT ![q] = Error("unknown")]
    /\ UNCHANGED <<source, stmt, conn, db, thread, result, schemaVars>>
(* A statement the provider does not accept never reaches the database. *)
ExecuteRefused(q, s, st) ==
    /\ pc[q] = "idle" /\ st.does = "refused"
    /\ source' = [source EXCEPT ![q] = s]
    /\ stmt' = [stmt EXCEPT ![q] = st]
    /\ pc' = [pc EXCEPT ![q] = "answered"]
    /\ answer' = [answer EXCEPT ![q] = Error("error")]
    /\ UNCHANGED <<conn, db, thread, result, schemaVars>>
ExecuteStarts(q, s, st) ==
    /\ pc[q] = "idle" /\ st.does # "refused" /\ Traits[Registry[s].provider].runs # "at once"
    /\ source' = [source EXCEPT ![q] = s]
    /\ stmt' = [stmt EXCEPT ![q] = st]
    /\ pc' = [pc EXCEPT ![q] = "connecting"]
    /\ UNCHANGED <<conn, db, thread, result, answer, schemaVars>>
(* sqlite: connect, execute, fetch or commit, close, without an await. *)
SqliteExecute(q, s, st) ==
    /\ pc[q] = "idle" /\ Traits[Registry[s].provider].runs = "at once"
    /\ source' = [source EXCEPT ![q] = s]
    /\ stmt' = [stmt EXCEPT ![q] = st]
    /\ pc' = [pc EXCEPT ![q] = "answered"]
    /\ conn' = [conn EXCEPT ![q] = "closed"]
    /\ answer' = [answer EXCEPT ![q] =
          IF st.does = "fails" THEN Error("error")
          ELSE Truncate(ProviderResult("sqlite", st, 0), Registry[s].max_rows)]
    /\ db' = [db EXCEPT ![q] =
          IF st.does = "write" THEN "applied" ELSE IF st.does = "read" THEN "ran" ELSE "rolled back"]
    /\ UNCHANGED <<thread, result, schemaVars>>

Connect(q) ==
    /\ pc[q] = "connecting"
    /\ pc' = [pc EXCEPT ![q] = "sent"]
    /\ conn' = [conn EXCEPT ![q] = "open"]
    /\ db' = [db EXCEPT ![q] = "queued"]
    /\ UNCHANGED <<source, stmt, thread, result, answer, schemaVars>>
(* The database performs what it was sent, also after the client left. *)
DbRuns(q) ==
    /\ db[q] = "queued"
    /\ db' = [db EXCEPT ![q] =
          IF stmt[q].does = "fails" THEN "failed"
          ELSE IF Changes(stmt[q]) /\ ~TraitsOf(q).commits THEN "applied" ELSE "ran"]
    /\ UNCHANGED <<pc, source, stmt, conn, thread, result, answer, schemaVars>>
DbCommits(q) ==
    /\ db[q] = "commit queued"
    /\ db' = [db EXCEPT ![q] = "applied"]
    /\ UNCHANGED <<pc, source, stmt, conn, thread, result, answer, schemaVars>>
(* Rows are returned at once; a change without rows is committed first. *)
Receive(q) ==
    /\ pc[q] = "sent" /\ db[q] \in {"ran", "applied", "failed"}
    /\ IF stmt[q].does = "write" /\ db[q] = "ran"
       THEN /\ pc' = [pc EXCEPT ![q] = "committing"]
            /\ db' = [db EXCEPT ![q] = "commit queued"]
            /\ UNCHANGED <<source, stmt, conn, thread, result, answer, schemaVars>>
       ELSE Leave(q, IF db[q] = "failed" THEN Error("error")
                     ELSE ProviderResult(ProviderOf(q), stmt[q], Registry[source[q]].max_rows))
ReceiveCommit(q) ==
    /\ pc[q] = "committing" /\ db[q] = "applied"
    /\ Leave(q, ProviderResult(ProviderOf(q), stmt[q], Registry[source[q]].max_rows))
(* An exception becomes an answer. *)
ConnectionFails(q) ==
    /\ pc[q] \in {"connecting", "sent", "committing"}
    /\ Leave(q, Error("error"))
CloseDone(q) ==
    /\ pc[q] = "closing"
    /\ Closed(q, result[q])
(* Mutant: the timeout covers the statement only. *)
TimesOutInStatement(q) ==
    /\ pc[q] = "sent" /\ ~thread[q]
    /\ IF TraitsOf(q).runs = "in a thread"
       THEN /\ thread' = [thread EXCEPT ![q] = TRUE]
            /\ answer' = [answer EXCEPT ![q] = Error("timeout")]
            /\ UNCHANGED <<pc, source, stmt, conn, db, result, schemaVars>>
       ELSE Leave(q, Error("timeout"))
(* wait_for: the coroutine is cancelled and runs its finally block; a      *)
(* thread cannot be cancelled and goes on without anyone waiting.          *)
TimesOut(q) ==
    /\ pc[q] \in {"connecting", "sent", "committing", "closing"} /\ ~thread[q]
    /\ result[q].kind # "timeout"
    /\ IF TraitsOf(q).runs = "in a thread"
       THEN /\ thread' = [thread EXCEPT ![q] = TRUE]
            /\ answer' = [answer EXCEPT ![q] = Error("timeout")]
            /\ UNCHANGED <<pc, source, stmt, conn, db, result, schemaVars>>
       ELSE IF pc[q] = "closing" THEN Closed(q, Error("timeout")) ELSE Leave(q, Error("timeout"))

-----------------------------------------------------------------------------
(* GET /schema, which has no timeout *)

NoSchema == [pc |-> "idle", source |-> "none", scanned |-> 0, todo |-> {}, out |-> {},
             stable |-> {}, ever |-> {}]
(* Other clients; only where someone is looking. *)
Alter(s, t) ==
    /\ \E g \in Schemas : schema[g].source = s
    /\ altered' = altered + 1
    /\ tables' = [tables EXCEPT ![s] = IF t \in @ THEN @ \ {t} ELSE @ \cup {t}]
    /\ schema' = [g \in Schemas |->
          IF schema[g].pc \in {"listing", "reading"} /\ schema[g].source = s
          THEN [schema[g] EXCEPT !.stable = @ \cap tables'[s], !.ever = @ \cup tables'[s]]
          ELSE schema[g]]
    /\ UNCHANGED <<pc, source, stmt, conn, db, thread, result, answer, held>>
GetSchema(g, s) ==
    /\ schema[g].pc = "idle"
    /\ schema' = [schema EXCEPT ![g] = [NoSchema EXCEPT !.pc = "listing", !.source = s,
                                            !.stable = tables[s], !.ever = tables[s]]]
    /\ held' = [held EXCEPT ![g] = TRUE]
    /\ UNCHANGED <<pc, source, stmt, conn, db, thread, result, answer, tables, altered>>
(* The tables there are; of elasticsearch not its own indices. *)
Visible(s, found) ==
    IF Registry[s].provider = "elasticsearch" THEN found \ SystemIndices ELSE found
ListTables(g) ==
    /\ schema[g].pc = "listing" /\ Registry[schema[g].source].provider # "redis"
    /\ schema' = [schema EXCEPT ![g].pc = "reading",
                                ![g].todo = Visible(schema[g].source, tables[schema[g].source])]
    /\ UNCHANGED <<pc, source, stmt, conn, db, thread, result, answer, tables, altered, held>>
(* redis is scanned in batches, until the cursor is back at 0 or MAX_KEYS   *)
(* keys have come.  A SCAN may give a key twice, and one that comes or goes *)
(* meanwhile or not; a complete one has given every key there all through. *)
ScanKeys(g) ==
    LET r == schema[g] IN
    /\ r.pc = "listing" /\ Registry[r.source].provider = "redis"
    /\ \E batch \in SUBSET tables[r.source], over \in BOOLEAN :
          /\ over => r.stable \subseteq r.todo \cup batch
          /\ \E kept \in SUBSET batch :
                /\ Cardinality(kept) = Min({Cardinality(batch), MAX_KEYS - r.scanned})
                /\ schema' = [schema EXCEPT ![g] = [r EXCEPT
                      !.scanned = @ + Cardinality(batch), !.todo = @ \cup kept,
                      !.pc = IF over \/ r.scanned + Cardinality(batch) >= MAX_KEYS
                             THEN "reading" ELSE "listing"]]
    /\ UNCHANGED <<pc, source, stmt, conn, db, thread, result, answer, tables, altered, held>>
(* What each provider says of a table it listed and now looks at: there    *)
(* are no columns of a table that has gone.  Postgres and SQL Server look  *)
(* up the primary key in a query of its own; a redis key that has gone has *)
(* the type "none", which makes it a table of that name; an index whose    *)
(* mapping cannot be had, be it gone or not, has no columns.               *)
Entry(t, there, keys) == [table |-> t, columns |-> IF there THEN "known" ELSE "empty", keys |-> keys]
Keys(there) == IF there THEN "known" ELSE "empty"
SqliteTable(t, there) == Entry(t, there, Keys(there))
PostgresTable(t, there) == Entry(t, there, "unread")
MysqlTable(t, there) == Entry(t, there, Keys(there))
MssqlTable(t, there) == Entry(t, there, "unread")
MongoTable(t, there) == Entry(t, there, Keys(there))
RedisTable(t, there) == Entry(IF there THEN t ELSE "none", TRUE, "known")
ElasticTable(t, there, fails) == Entry(t, there /\ ~fails, Keys(there /\ ~fails))
Described(s, t, fails) ==
    LET there == t \in tables[s]
        p == Registry[s].provider
    IN  IF p = "sqlite" THEN SqliteTable(t, there) ELSE IF p = "postgres" THEN PostgresTable(t, there)
        ELSE IF p = "mysql" THEN MysqlTable(t, there) ELSE IF p = "mssql" THEN MssqlTable(t, there)
        ELSE IF p = "mongo" THEN MongoTable(t, there) ELSE IF p = "redis" THEN RedisTable(t, there)
        ELSE ElasticTable(t, there, fails)
Unread(g) == {d \in schema[g].out : d.keys = "unread"}
(* Mutant: the reading ends at a table that has gone. *)
ReadTableOrStop(g) ==
    /\ schema[g].pc = "reading" /\ Unread(g) = {}
    /\ \E t \in schema[g].todo :
          schema' = IF t \in tables[schema[g].source]
                    THEN [schema EXCEPT ![g].todo = @ \ {t},
                                        ![g].out = @ \cup {Described(schema[g].source, t, FALSE)}]
                    ELSE [schema EXCEPT ![g].todo = {}]
    /\ UNCHANGED <<pc, source, stmt, conn, db, thread, result, answer, tables, altered, held>>
ReadTable(g) ==
    /\ schema[g].pc = "reading" /\ Unread(g) = {}
    /\ \E t \in schema[g].todo, fails \in BOOLEAN :
          schema' = [schema EXCEPT ![g].todo = @ \ {t},
                                   ![g].out = @ \cup {Described(schema[g].source, t, fails)}]
    /\ UNCHANGED <<pc, source, stmt, conn, db, thread, result, answer, tables, altered, held>>
ReadKeys(g) ==
    /\ schema[g].pc = "reading"
    /\ \E d \in Unread(g) :
          schema' = [schema EXCEPT ![g].out = (@ \ {d}) \cup
                        {[d EXCEPT !.keys = Keys(d.table \in tables[schema[g].source])]}]
    /\ UNCHANGED <<pc, source, stmt, conn, db, thread, result, answer, tables, altered, held>>
SchemaDone(g) ==
    /\ schema[g].pc = "reading" /\ schema[g].todo = {} /\ Unread(g) = {}
    /\ schema' = [schema EXCEPT ![g].pc = "answered"]
    /\ held' = [held EXCEPT ![g] = FALSE]
    /\ UNCHANGED <<pc, source, stmt, conn, db, thread, result, answer, tables, altered>>
(* An exception closes the connection and leaves no answer but a 500. *)
SchemaFails(g) ==
    /\ schema[g].pc \in {"listing", "reading"}
    /\ schema' = [schema EXCEPT ![g].pc = "failed"]
    /\ held' = [held EXCEPT ![g] = FALSE]
    /\ UNCHANGED <<pc, source, stmt, conn, db, thread, result, answer, tables, altered>>

-----------------------------------------------------------------------------
Init ==
    /\ pc = [q \in Queries |-> "idle"]
    /\ source = [q \in Queries |-> "none"]
    /\ stmt = [q \in Queries |-> NoStatement]
    /\ conn = [q \in Queries |-> "none"]
    /\ db = [q \in Queries |-> "none"]
    /\ thread = [q \in Queries |-> FALSE]
    /\ result = [q \in Queries |-> NoAnswer]
    /\ answer = [q \in Queries |-> NoAnswer]
    /\ \E start \in SUBSET Tables : tables = [s \in Sources |-> start]
    /\ altered = 0
    /\ schema = [g \in Schemas |-> NoSchema]
    /\ held = [g \in Schemas |-> FALSE]

NextQuery(q) ==
    \/ ExecuteUnknown(q)
    \/ \E s \in Sources : \E st \in Statements(Registry[s].provider) :
          \/ ExecuteRefused(q, s, st)
          \/ ExecuteStarts(q, s, st)
          \/ SqliteExecute(q, s, st)
    \/ Connect(q)
    \/ DbRuns(q)
    \/ DbCommits(q)
    \/ Receive(q)
    \/ ReceiveCommit(q)
    \/ ConnectionFails(q)
    \/ CloseDone(q)
    \/ TimesOut(q)
NextSchema ==
    \/ altered < MaxAlters /\ \E s \in Sources, t \in Tables : Alter(s, t)
    \/ \E g \in Schemas, s \in Sources : GetSchema(g, s)
    \/ \E g \in Schemas : ListTables(g)
    \/ \E g \in Schemas : ScanKeys(g)
    \/ \E g \in Schemas : ReadTable(g)
    \/ \E g \in Schemas : ReadKeys(g)
    \/ \E g \in Schemas : SchemaDone(g)
    \/ \E g \in Schemas : SchemaFails(g)
(* Queries and schema requests share nothing: one kind per behaviour. *)
Next ==
    \/ (\A g \in Schemas : schema[g].pc = "idle") /\ \E q \in Queries : NextQuery(q)
    \/ (\A q \in Queries : pc[q] = "idle") /\ NextSchema

Spec == Init /\ [][Next]_vars
(* The event loop's timers fire; nothing is assumed of the databases, nor  *)
(* of the drivers that wait for them when they close a connection.         *)
FairSpec == Spec /\ \A q \in Queries : WF_vars(TimesOut(q))

-----------------------------------------------------------------------------
(* The rows of a complete reply. *)
Total(q) ==
    IF stmt[q].shape = "find" THEN stmt[q].n
    ELSE ProviderResult(ProviderOf(q), stmt[q], Registry[source[q]].max_rows).rows

(* What a client is told is so: a number of changes means the database has *)
(* them, and rows are the first max_rows of the reply, marked truncated    *)
(* exactly when there were more - also where the provider has cut them     *)
(* already (execute_async of the executor and of every provider).          *)
AnswersAreTrue ==
    \A q \in Queries :
        /\ answer[q].kind = "changes" => db[q] = "applied"
        /\ answer[q].kind = "rows" =>
              /\ answer[q].rows = Min({Total(q), Registry[source[q]].max_rows})
              /\ answer[q].truncated <=> Total(q) > Registry[source[q]].max_rows

(* No request leaves a connection behind, however it ends: only a thread   *)
(* that outlived its timeout still has one (the finally blocks).           *)
NoConnectionLeft ==
    /\ \A q \in Queries : conn[q] = "open" => pc[q] # "answered" /\ (answer[q].kind # "none" => thread[q])
    /\ \A g \in Schemas : schema[g].pc \in {"answered", "failed"} => ~held[g]

(* A schema has every table that was there all through the request, with   *)
(* its columns and keys, whatever was created and dropped beside it, and   *)
(* no table that never was but redis's "none".  Of elasticsearch it has    *)
(* the index, though without columns if the mapping could not be had; of   *)
(* redis it promises this only if SCAN gave fewer than MAX_KEYS keys,      *)
(* those it gave twice counted twice (get_schema_async).                   *)
SchemaMissesNothing ==
    \A g \in Schemas : schema[g].pc = "answered" =>
        LET provider == Registry[schema[g].source].provider
        IN  /\ \/ provider = "redis" /\ schema[g].scanned >= MAX_KEYS
               \/ \A t \in Visible(schema[g].source, schema[g].stable) :
                     \E d \in schema[g].out :
                         /\ d.table = t
                         /\ provider = "elasticsearch" \/ (d.columns = "known" /\ d.keys = "known")
            /\ \A d \in schema[g].out :
                  d.columns = "known" => d.table \in schema[g].ever \cup {"none"}

(* The timeout has cancelled the query, and its driver waits in the finally *)
(* block for the connection to close, which has no timeout of its own.     *)
HangsInClose(q) == pc[q] = "closing" /\ TraitsOf(q).awaits /\ result[q].kind = "timeout"
(* Every query is answered, also when its database never is, at whichever  *)
(* point of the connecting, the statement, the commit or the closing the   *)
(* database stops answering - but for the drivers that wait for it once    *)
(* more after the timeout (wait_for, the finally blocks).                  *)
QueryIsAnswered ==
    \A q \in Queries : pc[q] # "idle" ~> answer[q].kind # "none" \/ HangsInClose(q)
=============================================================================
