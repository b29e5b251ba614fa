------------------------- MODULE DataExplorerProofs -------------------------
(***************************************************************************)
(* Theorems about DataExplorer, for every registry of sources, any number  *)
(* of queries and schema requests, any tables, any limit of rows and       *)
(* replies of any length.                                                  *)
(***************************************************************************)
EXTENDS DataExplorer, FiniteSetTheorems, TLAPS

-----------------------------------------------------------------------------
(* Replies.                                                                *)

\* The smaller of two numbers.
LEMMA MinOfTwo ==
    ASSUME NEW a \in Nat, NEW b \in Nat
    PROVE  Min({a, b}) = IF a <= b THEN a ELSE b
  <1>1. \E x \in {a, b} : \A y \in {a, b} : x <= y
    OBVIOUS
  <1>2. Min({a, b}) \in {a, b} /\ \A y \in {a, b} : Min({a, b}) <= y
    BY <1>1 DEF Min
  <1> QED BY <1>2

\* What a statement is, whichever provider takes it.
LEMMA StatementTypes ==
    ASSUME NEW p, NEW st \in Statements(p)
    PROVE  /\ st.n \in Nat /\ (st.shape = "find" => p = "mongo")
           /\ st.does \in {"read", "returning", "write", "refused", "fails"}
           /\ st.does = "write" => st.shape # "find"
  <1>1. MaxReply \in Nat
    BY DataExplorerAssumption
  <1>2. CASE p = "mongo"
    BY <1>1, <1>2 DEF Statements, MongoStatements
  <1>3. CASE p = "redis"
    BY <1>1, <1>3 DEF Statements, RedisStatements
  <1>4. CASE p = "elasticsearch"
    BY <1>1, <1>4 DEF Statements, ElasticStatements
  <1>5. CASE p \notin {"mongo", "redis", "elasticsearch"}
    BY <1>1, <1>5 DEF Statements, SqlStatements
  <1> QED BY <1>2, <1>3, <1>4, <1>5

(* The rows of a complete reply to st. *)
Whole(p, st, max) == IF st.shape = "find" THEN st.n ELSE ProviderResult(p, st, max).rows
(* An answer that tells max_rows rows, and truncated when there are more. *)
Cuts(a, whole, max) ==
    /\ a.kind = "rows" => /\ a.rows = Min({whole, max})
                          /\ a.truncated <=> whole > max
    /\ a.kind \in {"rows", "changes"}

\* The second cut of a result that was cut to a limit before.
LEMMA CutTwice ==
    ASSUME NEW n \in Nat, NEW max \in Nat, NEW limit \in Nat \ {0}, max # 0 => limit = max
    PROVE  LET found(rows, more) == [kind |-> "rows", rows |-> rows, truncated |-> more]
               a == Truncate(IF n <= limit THEN found(n, FALSE) ELSE found(limit, TRUE), max)
           IN  a.kind = "rows" /\ a.rows = Min({n, max}) /\ (a.truncated <=> n > max)
  <1>1. Min({n, max}) = IF n <= max THEN n ELSE max
    BY MinOfTwo
  <1>2. CASE n <= limit
    BY <1>1, <1>2 DEF Truncate
  <1>3. CASE ~(n <= limit)
    BY <1>1, <1>3 DEF Truncate
  <1> QED BY <1>2, <1>3

\* The executor's cut is right for a reply that is complete ...
LEMMA CutWhole ==
    ASSUME NEW n \in Nat, NEW max \in Nat
    PROVE  LET a == Truncate(Rows(n), max)
           IN  a.kind = "rows" /\ a.rows = Min({n, max}) /\ (a.truncated <=> n > max)
  BY MinOfTwo DEF Truncate, Rows

\* ... and for mongo's find, which has cut it before and read one document
\* more to know that there are more; also when max_rows is 0.
LEMMA CutFind ==
    ASSUME NEW st, st.n \in Nat, st.shape = "find", NEW max \in Nat
    PROVE  LET a == Truncate(MongoRows(st, max), max)
           IN  a.kind = "rows" /\ a.rows = Min({st.n, max}) /\ (a.truncated <=> st.n > max)
  <1> DEFINE limit == IF max = 0 THEN DEFAULT_ROWS ELSE max
             docs == Min({st.n, limit + 1})
             rows == Min({docs, limit})
  <1>1. limit \in Nat \ {0} /\ (max # 0 => limit = max)
    BY DataExplorerAssumption
  <1>2. docs = (IF st.n <= limit + 1 THEN st.n ELSE limit + 1) /\ docs \in Nat
    <2> HIDE DEF limit
    <2> QED BY <1>1, MinOfTwo
  <1>3. rows = (IF docs <= limit THEN docs ELSE limit) /\ rows \in Nat
    <2> HIDE DEF limit, docs
    <2> QED BY <1>1, <1>2, MinOfTwo
  <1> DEFINE found(r, more) == [kind |-> "rows", rows |-> r, truncated |-> more]
  <1>4. MongoRows(st, max) = found(rows, docs > limit)
    BY DEF MongoRows, Rows
  <1> HIDE DEF limit, docs, rows
  <1>5. MongoRows(st, max) = IF st.n <= limit THEN found(st.n, FALSE) ELSE found(limit, TRUE)
    <2>1. CASE st.n <= limit
      <3>1. rows = st.n /\ (docs > limit) = FALSE
        BY <1>1, <1>2, <1>3, <2>1
      <3> QED BY <1>4, <2>1, <3>1
    <2>2. CASE ~(st.n <= limit)
      <3>1. rows = limit /\ (docs > limit) = TRUE
        BY <1>1, <1>2, <1>3, <2>2
      <3> QED BY <1>4, <2>2, <3>1
    <2> QED BY <2>1, <2>2
  <1> QED BY <1>1, <1>5, CutTwice

\* Whatever the provider, the executor's answer is a true cut of the reply.
LEMMA CutIsTrue ==
    ASSUME NEW p, NEW st \in Statements(p), NEW max \in Nat
    PROVE  LET a == Truncate(ProviderResult(p, st, max), max)
           IN  /\ Cuts(a, Whole(p, st, max), max)
               /\ a.kind = "changes" <=> st.does = "write"
               /\ a.kind = ProviderResult(p, st, max).kind
  <1>0. /\ st.n \in Nat /\ (st.shape = "find" => p = "mongo")
        /\ st.does = "write" => st.shape # "find"
    BY StatementTypes
  <1>1. CASE st.does = "write"
    BY <1>1 DEF ProviderResult, Cuts, Truncate
  <1>2. CASE st.does # "write" /\ st.shape = "find"
    <2>1. ProviderResult(p, st, max) = MongoRows(st, max) /\ Whole(p, st, max) = st.n
      BY <1>0, <1>2 DEF ProviderResult, Whole
    <2>2. MongoRows(st, max).kind = "rows"
      BY <1>2 DEF MongoRows, Rows
    <2> QED BY <1>0, <1>2, <2>1, <2>2, CutFind DEF Cuts
  <1>3. CASE st.does # "write" /\ st.shape # "find"
    <2>1. PICK n \in Nat : ProviderResult(p, st, max) = Rows(n)
      <3>1. CASE p = "mongo"
        <4>1. st.n \in Nat /\ 1 \in Nat /\ Min({st.n, 1}) \in Nat
          BY <1>0, MinOfTwo
        <4> QED BY <1>3, <3>1, <4>1 DEF ProviderResult, MongoRows
      <3>2. CASE p = "redis"
        BY <1>0, <1>3, <3>2 DEF ProviderResult, RedisRows
      <3>3. CASE p = "elasticsearch"
        BY <1>0, <1>3, <3>3 DEF ProviderResult, ElasticRows
      <3>4. CASE p \notin {"mongo", "redis", "elasticsearch"}
        BY <1>0, <1>3, <3>4 DEF ProviderResult, SqlRows
      <3> QED BY <3>1, <3>2, <3>3, <3>4
    <2>2. Whole(p, st, max) = n /\ ProviderResult(p, st, max).kind = "rows"
      BY <1>3, <2>1 DEF Whole, Rows
    <2> QED BY <1>3, <2>1, <2>2, CutWhole DEF Cuts
  <1> QED BY <1>1, <1>2, <1>3

-----------------------------------------------------------------------------
(* Queries.                                                                *)

Working == {"connecting", "sent", "committing", "closing"}
Asked(s, st) == s \in Sources /\ st \in Statements(Registry[s].provider)
Full(s, st) == ProviderResult(Registry[s].provider, st, Registry[s].max_rows)
(* What a provider may return while the database stands at d. *)
Promised(s, st, d, res) ==
    \/ \E k \in {"error", "timeout"} : res = Error(k)
    \/ res = Full(s, st) /\ (res.kind = "changes" => d = "applied")
(* What a client may have been told. *)
Honest(s, st, d, a) ==
    a.kind \in {"rows", "changes"} =>
        /\ Asked(s, st)
        /\ a = Truncate(Full(s, st), Registry[s].max_rows)
        /\ a.kind = "changes" => d = "applied"
(* The invariant of one query: its connection is open only while it works, *)
(* it is answered when it ends or by the timeout of a thread that goes on, *)
(* and it returns and tells what the database did.                         *)
Fine(p, s, st, c, d, th, res, a) ==
    /\ p = "idle" => c = "none" /\ ~th
    /\ c = "open" => p \in {"sent", "committing", "closing"}
    /\ p \in Working => Asked(s, st)
    /\ p # "answered" => a = IF th THEN Error("timeout") ELSE NoAnswer
    /\ p = "closing" => Promised(s, st, d, res)
    /\ Honest(s, st, d, a)
FineQuery(q) == Fine(pc[q], source[q], stmt[q], conn[q], db[q], thread[q], result[q], answer[q])
(* Each variable of the queries is a function of them. *)
Shape ==
    /\ pc = [q \in Queries |-> pc[q]] /\ source = [q \in Queries |-> source[q]]
    /\ stmt = [q \in Queries |-> stmt[q]] /\ conn = [q \in Queries |-> conn[q]]
    /\ db = [q \in Queries |-> db[q]] /\ thread \in [Queries -> BOOLEAN]
    /\ result = [q \in Queries |-> result[q]] /\ answer = [q \in Queries |-> answer[q]]
QueriesInv == Shape /\ \A q \in Queries : FineQuery(q)
(* A step of q alone. *)
Alone(q) ==
    /\ Shape'
    /\ \A x \in Queries \ {q} :
          /\ pc'[x] = pc[x] /\ source'[x] = source[x] /\ stmt'[x] = stmt[x] /\ conn'[x] = conn[x]
          /\ db'[x] = db[x] /\ thread'[x] = thread[x] /\ result'[x] = result[x]
          /\ answer'[x] = answer[x]

\* A query is worked on alone: no step of one touches another.
LEMMA StepsAlone ==
    ASSUME Shape, NEW q \in Queries, NextQuery(q)
    PROVE  Alone(q)
  <1> USE DEF Shape, Alone
  <1>1. CASE ExecuteUnknown(q)
    BY <1>1 DEF ExecuteUnknown
  <1>2. ASSUME NEW s \in Sources, NEW st, ExecuteRefused(q, s, st)
        PROVE  Alone(q)
    BY <1>2 DEF ExecuteRefused
  <1>3. ASSUME NEW s \in Sources, NEW st, ExecuteStarts(q, s, st)
        PROVE  Alone(q)
    BY <1>3 DEF ExecuteStarts
  <1>4. ASSUME NEW s \in Sources, NEW st, SqliteExecute(q, s, st)
        PROVE  Alone(q)
    BY <1>4 DEF SqliteExecute
  <1>5. CASE Connect(q) \/ DbRuns(q) \/ DbCommits(q)
    BY <1>5 DEF Connect, DbRuns, DbCommits
  <1>6. ASSUME NEW res, Closed(q, res)
        PROVE  Alone(q)
    BY <1>6 DEF Closed
  <1>7. ASSUME NEW res, Leave(q, res)
        PROVE  Alone(q)
    BY <1>6, <1>7 DEF Leave
  <1>8. CASE Receive(q)
    <2>1. CASE stmt[q].does = "write" /\ db[q] = "ran"
      BY <1>8, <2>1 DEF Receive
    <2>2. CASE ~(stmt[q].does = "write" /\ db[q] = "ran")
      <3> HIDE DEF Shape, Alone
      <3> QED BY <1>7, <1>8, <2>2 DEF Receive
    <2> QED BY <2>1, <2>2
  <1>9. CASE TimesOut(q)
    <2>1. CASE TraitsOf(q).runs = "in a thread"
      BY <1>9, <2>1 DEF TimesOut
    <2>2. CASE TraitsOf(q).runs # "in a thread"
      <3> HIDE DEF Shape, Alone
      <3> QED BY <1>6, <1>7, <1>9, <2>2 DEF TimesOut
    <2> QED BY <2>1, <2>2
  <1>10. CASE ReceiveCommit(q) \/ ConnectionFails(q) \/ CloseDone(q)
    <2> HIDE DEF Shape, Alone
    <2> QED BY <1>6, <1>7, <1>10 DEF ReceiveCommit, ConnectionFails, CloseDone
  <1> HIDE DEF Shape, Alone
  <1> QED BY <1>1, <1>2, <1>3, <1>4, <1>5, <1>8, <1>9, <1>10 DEF NextQuery

\* The executor passes an error on as it is.
LEMMA TruncateError ==
    ASSUME NEW k \in {"error", "timeout"}, NEW max \in Nat
    PROVE  Truncate(Error(k), max) = Error(k) /\ Error(k).kind \notin {"rows", "changes"}
  BY DEF Truncate, Error

\* An answer that follows from what the provider returned is honest.
LEMMA PromiseKept ==
    ASSUME NEW s, NEW st, Asked(s, st), NEW d, NEW res, Promised(s, st, d, res)
    PROVE  Honest(s, st, d, Truncate(res, Registry[s].max_rows))
  <1> DEFINE max == Registry[s].max_rows
  <1>1. max \in Nat /\ st \in Statements(Registry[s].provider)
    BY DataExplorerAssumption DEF Asked, Sources
  <1>2. CASE \E k \in {"error", "timeout"} : res = Error(k)
    <2>1. PICK k \in {"error", "timeout"} : res = Error(k)
      BY <1>2
    <2>2. Truncate(res, max).kind \notin {"rows", "changes"}
      <3> HIDE DEF max
      <3> QED BY <1>1, <2>1, TruncateError
    <2> QED BY <2>2 DEF Honest
  <1>3. CASE res = Full(s, st) /\ (res.kind = "changes" => d = "applied")
    <2>1. Truncate(res, max).kind = res.kind
      BY <1>1, <1>3, CutIsTrue DEF Full
    <2> QED BY <1>3, <2>1 DEF Honest
  <1> QED BY <1>2, <1>3 DEF Promised

\* Closing the connection rolls back nothing that was promised.
LEMMA ClosedIsFine ==
    ASSUME Shape, NEW q \in Queries, FineQuery(q), pc[q] \in Working, NEW res,
           Promised(source[q], stmt[q], db[q], res), Closed(q, res)
    PROVE  FineQuery(q)'
  <1>1. /\ pc'[q] = "answered" /\ source'[q] = source[q] /\ stmt'[q] = stmt[q]
        /\ answer'[q] = IF thread[q] THEN answer[q]
                        ELSE Truncate(res, Registry[source[q]].max_rows)
        /\ conn'[q] # "open"
        /\ db[q] = "applied" => db'[q] = "applied"
    BY DEF Closed, Shape
  <1>2. Asked(source[q], stmt[q])
    BY DEF FineQuery, Fine
  <1>3. Honest(source[q], stmt[q], db'[q], answer'[q])
    <2>1. CASE thread[q]
      <3>1. answer'[q] = Error("timeout")
        BY <1>1, <2>1 DEF FineQuery, Fine, Working
      <3>2. Error("timeout").kind \notin {"rows", "changes"}
        BY DEF Error
      <3> QED BY <3>1, <3>2 DEF Honest
    <2>2. CASE ~thread[q]
      <3>1. Honest(source[q], stmt[q], db[q], answer'[q])
        BY <1>1, <1>2, <2>2, PromiseKept
      <3> QED BY <1>1, <3>1 DEF Honest
    <2> QED BY <2>1, <2>2
  <1> QED BY <1>1, <1>3 DEF FineQuery, Fine, Working

\* The finally block, at once or after an await.
LEMMA LeaveIsFine ==
    ASSUME Shape, NEW q \in Queries, FineQuery(q), pc[q] \in Working, NEW res,
           Promised(source[q], stmt[q], db[q], res), Leave(q, res)
    PROVE  FineQuery(q)'
  <1>1. CASE Closed(q, res)
    BY <1>1, ClosedIsFine
  <1>2. CASE ~Closed(q, res)
    <2>1. /\ pc'[q] = "closing" /\ result'[q] = res /\ source'[q] = source[q] /\ stmt'[q] = stmt[q]
          /\ conn'[q] = conn[q] /\ db'[q] = db[q] /\ thread'[q] = thread[q] /\ answer'[q] = answer[q]
      BY <1>2 DEF Leave, Shape
    <2> QED BY <2>1 DEF FineQuery, Fine, Working
  <1> QED BY <1>1, <1>2

\* A query that begins has said nothing yet.
LEMMA FreshIsHonest ==
    ASSUME NEW s, NEW st, NEW d
    PROVE  /\ Honest(s, st, d, NoAnswer)
           /\ \A k \in {"error", "timeout", "unknown"} : Honest(s, st, d, Error(k))
  BY DEF Honest, NoAnswer, Error

\* sqlite answers at once with what the others would answer.
LEMMA SqliteIsFine ==
    ASSUME Shape, NEW q \in Queries, FineQuery(q), NEW s \in Sources,
           NEW st \in Statements(Registry[s].provider), SqliteExecute(q, s, st)
    PROVE  FineQuery(q)'
  <1> DEFINE max == Registry[s].max_rows
  <1>1. Registry[s].provider = "sqlite"
    <2>1. /\ Traits["postgres"].runs = "in steps" /\ Traits["mysql"].runs = "in steps"
          /\ Traits["mssql"].runs = "in a thread" /\ Traits["mongo"].runs = "in steps"
          /\ Traits["redis"].runs = "in steps" /\ Traits["elasticsearch"].runs = "in steps"
      BY DEF Traits, Trait, Sqlite, Postgres, Mysql, Mssql, Mongo, Redis, Elastic
    <2>2. Registry[s].provider \in {"sqlite", "postgres", "mysql", "mssql", "mongo", "redis",
                                    "elasticsearch"}
      BY DataExplorerAssumption DEF Sources
    <2>3. Traits[Registry[s].provider].runs = "at once"
      BY DEF SqliteExecute
    <2> QED BY <2>1, <2>2, <2>3
  <1>2. /\ pc'[q] = "answered" /\ source'[q] = s /\ stmt'[q] = st /\ conn'[q] = "closed"
        /\ db'[q] = (IF st.does = "write" THEN "applied"
                     ELSE IF st.does = "read" THEN "ran" ELSE "rolled back")
        /\ answer'[q] = IF st.does = "fails" THEN Error("error")
                        ELSE Truncate(ProviderResult("sqlite", st, 0), max)
    BY DEF SqliteExecute, Shape
  <1>3. ProviderResult("sqlite", st, 0) = Full(s, st)
    BY <1>1 DEF ProviderResult, Full
  <1>4. Full(s, st).kind = "changes" => st.does = "write"
    BY <1>1, StatementTypes DEF Full, ProviderResult, SqlRows, Rows
  <1>5. CASE st.does = "fails"
    BY <1>2, <1>5, FreshIsHonest DEF FineQuery, Fine, Working
  <1>6. CASE st.does # "fails"
    <2>1. Promised(s, st, db'[q], Full(s, st))
      BY <1>2, <1>4 DEF Promised
    <2>2. Honest(s, st, db'[q], Truncate(Full(s, st), max))
      BY <2>1, PromiseKept DEF Asked
    <2> QED BY <1>2, <1>3, <1>6, <2>2 DEF FineQuery, Fine, Working
  <1> QED BY <1>5, <1>6

\* Every step of a query keeps it fine.
LEMMA QueryStep ==
    ASSUME Shape, NEW q \in Queries, FineQuery(q), NextQuery(q)
    PROVE  FineQuery(q)'
  <1>1. CASE ExecuteUnknown(q)
    <2>1. /\ pc'[q] = "answered" /\ answer'[q] = Error("unknown")
          /\ conn'[q] = conn[q] /\ conn[q] = "none"
      BY <1>1 DEF ExecuteUnknown, Shape, FineQuery, Fine
    <2> QED BY <2>1, FreshIsHonest DEF FineQuery, Fine, Working
  <1>2. ASSUME NEW s \in Sources, NEW st \in Statements(Registry[s].provider), ExecuteRefused(q, s, st)
        PROVE  FineQuery(q)'
    <2>1. /\ pc'[q] = "answered" /\ answer'[q] = Error("error")
          /\ conn'[q] = conn[q] /\ conn[q] = "none"
      BY <1>2 DEF ExecuteRefused, Shape, FineQuery, Fine
    <2> QED BY <2>1, FreshIsHonest DEF FineQuery, Fine, Working
  <1>3. ASSUME NEW s \in Sources, NEW st \in Statements(Registry[s].provider), ExecuteStarts(q, s, st)
        PROVE  FineQuery(q)'
    <2>1. /\ pc[q] = "idle" /\ pc'[q] = "connecting" /\ source'[q] = s /\ stmt'[q] = st
          /\ conn'[q] = conn[q] /\ thread'[q] = thread[q] /\ answer'[q] = answer[q] /\ db'[q] = db[q]
      BY <1>3 DEF ExecuteStarts, Shape
    <2>2. conn[q] = "none" /\ ~thread[q] /\ answer[q] = NoAnswer
      BY <2>1 DEF FineQuery, Fine
    <2> QED BY <1>3, <2>1, <2>2, FreshIsHonest DEF FineQuery, Fine, Working, Asked
  <1>4. ASSUME NEW s \in Sources, NEW st \in Statements(Registry[s].provider), SqliteExecute(q, s, st)
        PROVE  FineQuery(q)'
    BY <1>4, SqliteIsFine
  <1>5. CASE Connect(q)
    <2>1. /\ pc[q] = "connecting" /\ pc'[q] = "sent" /\ source'[q] = source[q] /\ stmt'[q] = stmt[q]
          /\ thread'[q] = thread[q] /\ answer'[q] = answer[q]
      BY <1>5 DEF Connect, Shape
    <2>2. answer[q] = (IF thread[q] THEN Error("timeout") ELSE NoAnswer) /\ Asked(source[q], stmt[q])
      BY <2>1 DEF FineQuery, Fine, Working
    <2>3. Honest(source[q], stmt[q], db'[q], answer[q])
      BY <2>2, FreshIsHonest
    <2> QED BY <2>1, <2>2, <2>3 DEF FineQuery, Fine, Working
  <1>6. CASE DbRuns(q) \/ DbCommits(q)
    <2>1. /\ pc' = pc /\ source' = source /\ stmt' = stmt /\ conn' = conn
          /\ thread' = thread /\ result' = result /\ answer' = answer
          /\ db[q] # "applied"
      BY <1>6 DEF DbRuns, DbCommits
    <2>2. Honest(source[q], stmt[q], db'[q], answer[q])
      BY <2>1 DEF FineQuery, Fine, Honest
    <2>3. pc[q] = "closing" => Promised(source[q], stmt[q], db'[q], result[q])
      BY <2>1 DEF FineQuery, Fine, Promised
    <2> QED BY <2>1, <2>2, <2>3 DEF FineQuery, Fine
  <1>7. CASE Receive(q)
    <2>1. pc[q] = "sent" /\ db[q] \in {"ran", "applied", "failed"}
      BY <1>7 DEF Receive
    <2>2. Asked(source[q], stmt[q]) /\ pc[q] \in Working
      BY <2>1 DEF FineQuery, Fine, Working
    <2>3. CASE stmt[q].does = "write" /\ db[q] = "ran"
      <3>1. /\ pc'[q] = "committing" /\ source' = source /\ stmt' = stmt /\ conn' = conn
            /\ thread' = thread /\ result' = result /\ answer' = answer
        BY <1>7, <2>3 DEF Receive, Shape
      <3>2. Honest(source[q], stmt[q], db'[q], answer[q])
        BY <2>1, <2>3 DEF FineQuery, Fine, Honest
      <3> QED BY <2>1, <2>2, <3>1, <3>2 DEF FineQuery, Fine, Working
    <2>4. CASE ~(stmt[q].does = "write" /\ db[q] = "ran")
      <3> DEFINE res == IF db[q] = "failed" THEN Error("error") ELSE Full(source[q], stmt[q])
      <3>1. Leave(q, res)
        BY <1>7, <2>4 DEF Receive, Full, ProviderOf
      <3>2. Full(source[q], stmt[q]).kind = "changes" => stmt[q].does = "write"
        <4>1. Registry[source[q]].max_rows \in Nat
          BY <2>2, DataExplorerAssumption DEF Asked, Sources
        <4> QED BY <2>2, <4>1, CutIsTrue DEF Asked, Full
      <3>3. Promised(source[q], stmt[q], db[q], res)
        BY <2>1, <2>4, <3>2 DEF Promised
      <3> HIDE DEF res
      <3> QED BY <2>2, <3>1, <3>3, LeaveIsFine
    <2> QED BY <2>3, <2>4
  <1>8. CASE ReceiveCommit(q)
    <2>1. pc[q] \in Working /\ db[q] = "applied" /\ Leave(q, Full(source[q], stmt[q]))
      BY <1>8 DEF ReceiveCommit, Working, Full, ProviderOf
    <2>2. Promised(source[q], stmt[q], db[q], Full(source[q], stmt[q]))
      BY <2>1 DEF Promised
    <2> QED BY <2>1, <2>2, LeaveIsFine
  <1>9. CASE ConnectionFails(q)
    <2>1. pc[q] \in Working /\ Leave(q, Error("error"))
      BY <1>9 DEF ConnectionFails, Working
    <2>2. Promised(source[q], stmt[q], db[q], Error("error"))
      BY DEF Promised
    <2> QED BY <2>1, <2>2, LeaveIsFine
  <1>10. CASE CloseDone(q)
    <2>1. pc[q] \in Working /\ Closed(q, result[q]) /\ Promised(source[q], stmt[q], db[q], result[q])
      BY <1>10 DEF CloseDone, Working, FineQuery, Fine
    <2> QED BY <2>1, ClosedIsFine
  <1>11. CASE TimesOut(q)
    <2>1. pc[q] \in Working /\ Promised(source[q], stmt[q], db[q], Error("timeout"))
      BY <1>11 DEF TimesOut, Working, Promised
    <2>2. CASE TraitsOf(q).runs = "in a thread"
      <3>1. /\ pc' = pc /\ source' = source /\ stmt' = stmt /\ conn' = conn /\ db' = db
            /\ thread'[q] = TRUE /\ result' = result /\ answer'[q] = Error("timeout")
        BY <1>11, <2>2 DEF TimesOut, Shape
      <3> QED BY <2>1, <3>1, FreshIsHonest DEF FineQuery, Fine, Working
    <2>3. CASE TraitsOf(q).runs # "in a thread"
      BY <1>11, <2>1, <2>3, ClosedIsFine, LeaveIsFine DEF TimesOut
    <2> QED BY <2>2, <2>3
  <1> QED BY <1>1, <1>2, <1>3, <1>4, <1>5, <1>6, <1>7, <1>8, <1>9, <1>10, <1>11 DEF NextQuery

\* A step of the system keeps every query fine.
LEMMA QueriesStep ==
    ASSUME QueriesInv, [Next]_vars
    PROVE  QueriesInv'
  <1>0. Shape /\ \A x \in Queries : FineQuery(x)
    BY DEF QueriesInv
  <1>1. ASSUME NEW q \in Queries, NextQuery(q)
        PROVE  QueriesInv'
    <2>1. Alone(q) /\ FineQuery(q)'
      BY <1>0, <1>1, StepsAlone, QueryStep
    <2>2. \A x \in Queries \ {q} : FineQuery(x)'
      BY <1>0, <2>1 DEF Alone, FineQuery
    <2> QED BY <2>1, <2>2 DEF QueriesInv, Alone
  <1>2. CASE UNCHANGED <<pc, source, stmt, conn, db, thread, result, answer>>
    BY <1>0, <1>2 DEF QueriesInv, Shape, FineQuery
  <1>3. CASE NextSchema
    BY <1>2, <1>3 DEF NextSchema, Alter, GetSchema, ListTables, ScanKeys, ReadTable, ReadKeys, SchemaDone,
          SchemaFails
  <1> QED BY <1>1, <1>2, <1>3 DEF Next, vars

LEMMA QueriesInit == Init => QueriesInv
  <1> SUFFICES ASSUME Init PROVE QueriesInv
    OBVIOUS
  <1>1. Shape
    BY DEF Init, Shape
  <1>2. \A q \in Queries : FineQuery(q)
    BY FreshIsHonest DEF Init, FineQuery, Fine, Working
  <1> QED BY <1>1, <1>2 DEF QueriesInv

\* The queries' invariant holds of every behaviour.
LEMMA QueriesStayFine == Spec => []QueriesInv
  <1>1. QueriesInv /\ [Next]_vars => QueriesInv'
    BY QueriesStep
  <1> QED BY <1>1, QueriesInit, PTL DEF Spec

\* What a client is told is so, for every provider, every limit of rows (zero
\* too) and replies of any length, at whichever point a connection fails or
\* the timeout cuts in: changes that are reported are in the database, and
\* rows are the first max_rows, marked truncated exactly when there are more.
THEOREM AnswersStayTrue == Spec => []AnswersAreTrue
  <1>1. QueriesInv => AnswersAreTrue
    <2> SUFFICES ASSUME QueriesInv, NEW q \in Queries, answer[q].kind \in {"rows", "changes"}
                 PROVE  /\ answer[q].kind = "changes" => db[q] = "applied"
                        /\ answer[q].kind = "rows" =>
                              /\ answer[q].rows = Min({Total(q), Registry[source[q]].max_rows})
                              /\ answer[q].truncated <=> Total(q) > Registry[source[q]].max_rows
      BY DEF AnswersAreTrue
    <2> DEFINE p == Registry[source[q]].provider
               max == Registry[source[q]].max_rows
    <2>1. Honest(source[q], stmt[q], db[q], answer[q])
      BY DEF QueriesInv, FineQuery, Fine
    <2>2. /\ stmt[q] \in Statements(p) /\ max \in Nat
          /\ answer[q] = Truncate(ProviderResult(p, stmt[q], max), max)
          /\ answer[q].kind = "changes" => db[q] = "applied"
      BY <2>1, DataExplorerAssumption DEF Honest, Asked, Full, Sources
    <2>3. Cuts(answer[q], Whole(p, stmt[q], max), max)
      BY <2>2, CutIsTrue
    <2>4. Whole(p, stmt[q], max) = Total(q)
      BY DEF Whole, Total, ProviderOf
    <2> QED BY <2>2, <2>3, <2>4 DEF Cuts
  <1> QED BY <1>1, QueriesStayFine, PTL

-----------------------------------------------------------------------------
(* Schemas.                                                                *)

Entries == [table : Tables \cup {"none"}, columns : {"known", "empty"},
            keys : {"known", "empty", "unread"}]
SchemaStates == {"idle", "listing", "reading", "answered", "failed"}
SchemaRecords == [pc : SchemaStates, source : Sources \cup {"none"}, scanned : Nat, todo : SUBSET Tables,
                  out : SUBSET Entries, stable : SUBSET Tables, ever : SUBSET Tables]
Looking(r) == r.pc \in {"listing", "reading"}
(* Of a redis that gave as many keys as are looked at nothing is promised. *)
TooMany(r) == Registry[r.source].provider = "redis" /\ r.scanned >= MAX_KEYS
(* What tells that a table has been read: of an index its name suffices. *)
Tells(r, d, t) ==
    /\ d.table = t
    /\ \/ Registry[r.source].provider = "elasticsearch"
       \/ d.columns = "known" /\ d.keys \in {"known", "unread"}
(* A table that was there all along is still to be read, or was read and   *)
(* found, its keys perhaps not yet.                                        *)
ToCome(r, t) ==
    \/ t \in r.todo
    \/ \E d \in r.out : Tells(r, d, t)
(* The invariant of one schema request, which tbs are the tables of. *)
FineSchema(r, tbs, h) ==
    /\ Looking(r) => r.source \in Sources /\ r.stable \subseteq tbs[r.source]
                     /\ tbs[r.source] \subseteq r.ever
    /\ r.pc = "idle" => ~h
    /\ r.pc \in {"answered", "failed"} => ~h
    /\ r.pc = "listing" => r.out = {} /\ r.scanned < MAX_KEYS
    /\ r.pc \in {"reading", "answered"} =>
          /\ TooMany(r) \/ \A t \in Visible(r.source, r.stable) : ToCome(r, t)
          /\ \A d \in r.out : d.columns = "known" => d.table \in r.ever \cup {"none"}
    /\ r.pc = "answered" => r.todo = {} /\ {d \in r.out : d.keys = "unread"} = {}
SchemasInv ==
    /\ tables \in [Sources -> SUBSET Tables]
    /\ schema \in [Schemas -> SchemaRecords]
    /\ held \in [Schemas -> BOOLEAN]
    /\ \A g \in Schemas : FineSchema(schema[g], tables, held[g])

\* A table is described by an entry that tells whether it is there; of a key
\* of redis that has gone, by a table of the name "none".
LEMMA DescribedEntry ==
    ASSUME NEW s \in Sources, NEW t \in Tables, NEW fails \in BOOLEAN
    PROVE  /\ Described(s, t, fails) \in Entries
           /\ Described(s, t, fails).columns = "known" =>
                 Described(s, t, fails).table \in tables[s] \cup {"none"}
           /\ t \in tables[s] =>
                 /\ Described(s, t, fails).table = t
                 /\ \/ Registry[s].provider = "elasticsearch"
                    \/ Described(s, t, fails).columns = "known" /\ Described(s, t, fails).keys \in {"known", "unread"}
  <1>0. Registry[s].provider \in {"sqlite", "postgres", "mysql", "mssql", "mongo", "redis", "elasticsearch"}
    BY DataExplorerAssumption DEF Sources
  <1>1. CASE t \in tables[s]
    BY <1>0, <1>1 DEF Described, SqliteTable, PostgresTable, MysqlTable, MssqlTable, MongoTable, RedisTable,
          ElasticTable, Entry, Keys, Entries
  <1>2. CASE t \notin tables[s]
    BY <1>0, <1>2 DEF Described, SqliteTable, PostgresTable, MysqlTable, MssqlTable, MongoTable, RedisTable,
          ElasticTable, Entry, Keys, Entries
  <1> QED BY <1>1, <1>2

\* Tables are finitely many, so more tables are no fewer.
LEMMA MoreTables ==
    ASSUME NEW S \in SUBSET Tables, NEW T \in SUBSET Tables, S \subseteq T
    PROVE  /\ IsFiniteSet(S) /\ IsFiniteSet(T)
           /\ Cardinality(S) \in Nat /\ Cardinality(T) \in Nat
           /\ Cardinality(S) <= Cardinality(T)
           /\ Cardinality(S) = Cardinality(T) => S = T
  <1>1. IsFiniteSet(Tables)
    BY DataExplorerAssumption
  <1>2. IsFiniteSet(S) /\ IsFiniteSet(T)
    BY <1>1, FS_Subset
  <1> QED BY <1>2, FS_Subset, FS_CardinalityType

\* A batch of keys of which none is cut off, for want of reaching the limit, is
\* kept whole.
LEMMA KeptWhole ==
    ASSUME NEW batch \in SUBSET Tables, NEW kept \in SUBSET batch, NEW n \in Nat,
           Cardinality(kept) = Min({Cardinality(batch), MAX_KEYS - n}),
           n + Cardinality(batch) < MAX_KEYS
    PROVE  kept = batch
  <1>1. PICK N : N = Cardinality(batch)
    OBVIOUS
  <1>2. N \in Nat /\ kept \in SUBSET Tables /\ MAX_KEYS \in Nat
    BY <1>1, MoreTables, DataExplorerAssumption
  <1>3. N <= MAX_KEYS - n /\ MAX_KEYS - n \in Nat
    BY <1>1, <1>2
  <1>4. Min({N, MAX_KEYS - n}) = N
    BY <1>2, <1>3, MinOfTwo
  <1>5. Cardinality(kept) = Cardinality(batch)
    BY <1>1, <1>4
  <1> QED BY <1>2, <1>5, MoreTables

\* A step of one schema request leaves the others alone.
LEMMA OneSchema ==
    ASSUME SchemasInv, NEW g \in Schemas, NEW r \in SchemaRecords, NEW h \in BOOLEAN,
           schema' = [schema EXCEPT ![g] = r], held' = [held EXCEPT ![g] = h], tables' = tables,
           FineSchema(r, tables, h)
    PROVE  SchemasInv'
  <1>1. \A x \in Schemas : FineSchema(schema'[x], tables', held'[x])
    BY DEF SchemasInv
  <1> QED BY <1>1 DEF SchemasInv

\* What a record of a schema request holds.
LEMMA RecordFields ==
    ASSUME SchemasInv, NEW g \in Schemas
    PROVE  /\ schema[g] \in SchemaRecords /\ schema[g].pc \in SchemaStates
           /\ schema[g].scanned \in Nat
           /\ schema[g].todo \in SUBSET Tables /\ schema[g].out \in SUBSET Entries
           /\ schema[g].stable \in SUBSET Tables /\ schema[g].ever \in SUBSET Tables
           /\ held = [held EXCEPT ![g] = held[g]] /\ held[g] \in BOOLEAN
           /\ FineSchema(schema[g], tables, held[g])
  BY DEF SchemasInv, SchemaRecords

\* The request begins: nothing has been read, and every table is there.
LEMMA GetSchemaStep ==
    ASSUME SchemasInv, NEW g \in Schemas, NEW s \in Sources, GetSchema(g, s)
    PROVE  SchemasInv'
  <1> DEFINE r == [NoSchema EXCEPT !.pc = "listing", !.source = s,
                                  !.stable = tables[s], !.ever = tables[s]]
  <1>1. tables[s] \in SUBSET Tables
    BY DEF SchemasInv
  <1>2. NoSchema \in SchemaRecords /\ NoSchema.out = {} /\ NoSchema.scanned = 0
    BY DEF NoSchema, SchemaRecords, SchemaStates
  <1>3. r \in SchemaRecords
    BY <1>1, <1>2 DEF SchemaRecords, SchemaStates
  <1>4. /\ r.pc = "listing" /\ r.source = s /\ r.out = {} /\ r.scanned < MAX_KEYS
        /\ r.stable = tables[s] /\ r.ever = tables[s]
    <2>1. MAX_KEYS \in Nat \ {0}
      BY DataExplorerAssumption
    <2> QED BY <1>2, <2>1 DEF SchemaRecords
  <1>5. schema' = [schema EXCEPT ![g] = r] /\ held' = [held EXCEPT ![g] = TRUE] /\ tables' = tables
    BY DEF GetSchema
  <1> HIDE DEF r
  <1>6. FineSchema(r, tables, TRUE)
    BY <1>4 DEF FineSchema, Looking
  <1> QED BY <1>3, <1>5, <1>6, OneSchema

\* The list of tables has every table there is.
LEMMA ListTablesStep ==
    ASSUME SchemasInv, NEW g \in Schemas, ListTables(g)
    PROVE  SchemasInv'
  <1>0. PICK src, found : src = schema[g].source /\ found = Visible(src, tables[src])
    OBVIOUS
  <1>1. /\ schema[g].pc = "listing" /\ tables' = tables /\ held' = held
        /\ schema[g] \in SchemaRecords /\ FineSchema(schema[g], tables, held[g])
        /\ held = [held EXCEPT ![g] = held[g]] /\ held[g] \in BOOLEAN
        /\ schema[g].ever \in SUBSET Tables /\ tables \in [Sources -> SUBSET Tables]
        /\ schema' = [schema EXCEPT ![g].pc = "reading", ![g].todo = found]
    BY <1>0, RecordFields DEF ListTables, SchemasInv
  <1> DEFINE r == [schema[g] EXCEPT !.pc = "reading", !.todo = found]
  <1>2. schema' = [schema EXCEPT ![g] = r]
    BY <1>1 DEF SchemasInv
  <1>3. /\ src \in Sources /\ schema[g].stable \subseteq tables[src] /\ tables[src] \subseteq schema[g].ever
        /\ schema[g].out = {}
    BY <1>1, <1>0 DEF FineSchema, Looking
  <1>4. found \in SUBSET Tables
    BY <1>1, <1>0, <1>3 DEF Visible
  <1>5. r \in SchemaRecords
    BY <1>1, <1>4 DEF SchemaRecords, SchemaStates
  <1>6. /\ r.pc = "reading" /\ r.source = src /\ r.todo = found /\ r.out = {}
        /\ r.stable = schema[g].stable /\ r.ever = schema[g].ever
    BY <1>1, <1>0, <1>3 DEF SchemaRecords
  <1> HIDE DEF r
  <1>7. Visible(src, r.stable) \subseteq found
    BY <1>0, <1>3, <1>6 DEF Visible
  <1>8. FineSchema(r, tables, held[g])
    BY <1>3, <1>6, <1>7 DEF FineSchema, Looking, ToCome
  <1>9. tables' = tables /\ held' = [held EXCEPT ![g] = held[g]] /\ held[g] \in BOOLEAN
    BY <1>1
  <1> QED BY <1>2, <1>5, <1>8, <1>9, OneSchema

\* A scan that ends without having given too many keys has given all that were
\* there all along.
LEMMA ScanKeysStep ==
    ASSUME SchemasInv, NEW g \in Schemas, ScanKeys(g)
    PROVE  SchemasInv'
  <1>0. PICK old, src : old = schema[g] /\ src = old.source
    OBVIOUS
  <1>1. /\ old.pc = "listing" /\ Registry[src].provider = "redis" /\ tables' = tables /\ held' = held
        /\ old \in SchemaRecords /\ FineSchema(old, tables, held[g])
        /\ held = [held EXCEPT ![g] = held[g]] /\ held[g] \in BOOLEAN
        /\ old.scanned \in Nat /\ old.todo \in SUBSET Tables /\ tables \in [Sources -> SUBSET Tables]
        /\ MAX_KEYS \in Nat
    BY <1>0, RecordFields, DataExplorerAssumption DEF ScanKeys, SchemasInv
  <1>2. PICK batch \in SUBSET tables[src], over \in BOOLEAN :
          /\ over => old.stable \subseteq old.todo \cup batch
          /\ \E kept \in SUBSET batch :
                /\ Cardinality(kept) = Min({Cardinality(batch), MAX_KEYS - old.scanned})
                /\ schema' = [schema EXCEPT ![g] = [old EXCEPT
                      !.scanned = @ + Cardinality(batch), !.todo = @ \cup kept,
                      !.pc = IF over \/ old.scanned + Cardinality(batch) >= MAX_KEYS
                             THEN "reading" ELSE "listing"]]
    BY <1>0 DEF ScanKeys
  <1>3. PICK kept \in SUBSET batch :
                /\ Cardinality(kept) = Min({Cardinality(batch), MAX_KEYS - old.scanned})
                /\ schema' = [schema EXCEPT ![g] = [old EXCEPT
                      !.scanned = @ + Cardinality(batch), !.todo = @ \cup kept,
                      !.pc = IF over \/ old.scanned + Cardinality(batch) >= MAX_KEYS
                             THEN "reading" ELSE "listing"]]
    BY <1>2
  <1>4. PICK N, state : /\ N = old.scanned + Cardinality(batch)
                        /\ state = IF over \/ N >= MAX_KEYS THEN "reading" ELSE "listing"
    OBVIOUS
  <1> DEFINE r == [old EXCEPT !.scanned = N, !.todo = @ \cup kept, !.pc = state]
  <1>5. schema' = [schema EXCEPT ![g] = r]
    BY <1>1, <1>3, <1>4
  <1>6. /\ src \in Sources /\ old.stable \subseteq tables[src] /\ tables[src] \subseteq old.ever
        /\ old.out = {} /\ old.scanned < MAX_KEYS
    BY <1>1, <1>0 DEF FineSchema, Looking
  <1>7. batch \in SUBSET Tables /\ kept \in SUBSET Tables /\ N \in Nat
    <2>1. batch \in SUBSET Tables
      BY <1>1, <1>6
    <2>2. Cardinality(batch) \in Nat
      BY <2>1, MoreTables
    <2> QED BY <1>1, <1>4, <2>1, <2>2
  <1>8. r \in SchemaRecords
    BY <1>1, <1>4, <1>7 DEF SchemaRecords, SchemaStates
  <1>9. /\ r.pc = state /\ r.source = src /\ r.scanned = N /\ r.todo = old.todo \cup kept /\ r.out = {}
        /\ r.stable = old.stable /\ r.ever = old.ever
    BY <1>1, <1>0, <1>6 DEF SchemaRecords
  <1> HIDE DEF r
  <1>10. state \in {"reading", "listing"} /\ (state = "listing" => N < MAX_KEYS)
         /\ (state = "reading" => over \/ N >= MAX_KEYS)
    BY <1>1, <1>4, <1>7
  <1>11. ASSUME state = "reading", ~ (N >= MAX_KEYS) PROVE \A t \in Visible(src, r.stable) : ToCome(r, t)
    <2>1. over /\ N < MAX_KEYS
      BY <1>1, <1>7, <1>10, <1>11
    <2>2. kept = batch
      BY <1>1, <1>3, <1>4, <1>7, <2>1, KeptWhole
    <2>3. Visible(src, r.stable) = r.stable
      BY <1>1 DEF Visible
    <2> QED BY <1>2, <1>9, <2>1, <2>2, <2>3 DEF ToCome
  <1>12. FineSchema(r, tables, held[g])
    BY <1>1, <1>6, <1>9, <1>10, <1>11 DEF FineSchema, Looking, TooMany
  <1> QED BY <1>1, <1>5, <1>8, <1>12, OneSchema

\* Reading a table that was there all along finds it.
LEMMA ReadTableStep ==
    ASSUME SchemasInv, NEW g \in Schemas, ReadTable(g)
    PROVE  SchemasInv'
  <1> DEFINE src == schema[g].source
  <1>0. /\ schema[g].pc = "reading" /\ tables' = tables /\ held' = held
        /\ schema[g] \in SchemaRecords /\ FineSchema(schema[g], tables, held[g])
        /\ held = [held EXCEPT ![g] = held[g]] /\ held[g] \in BOOLEAN
        /\ schema[g].todo \in SUBSET Tables /\ schema[g].out \in SUBSET Entries
    BY RecordFields DEF ReadTable
  <1>1. PICK t \in schema[g].todo, fails \in BOOLEAN :
           schema' = [schema EXCEPT ![g].todo = @ \ {t}, ![g].out = @ \cup {Described(src, t, fails)}]
    BY DEF ReadTable
  <1> DEFINE e == Described(src, t, fails)
             r == [schema[g] EXCEPT !.todo = @ \ {t}, !.out = @ \cup {e}]
  <1>2. schema' = [schema EXCEPT ![g] = r]
    BY <1>0, <1>1 DEF SchemasInv
  <1>3. src \in Sources /\ schema[g].stable \subseteq tables[src] /\ tables[src] \subseteq schema[g].ever
    BY <1>0 DEF FineSchema, Looking
  <1>4. /\ e \in Entries
        /\ e.columns = "known" => e.table \in tables[src] \cup {"none"}
        /\ t \in tables[src] =>
              /\ e.table = t
              /\ \/ Registry[src].provider = "elasticsearch"
                 \/ e.columns = "known" /\ e.keys \in {"known", "unread"}
    BY <1>0, <1>3, DescribedEntry
  <1> HIDE DEF e
  <1>5. r \in SchemaRecords
    BY <1>0, <1>4 DEF SchemaRecords
  <1>6. /\ r.pc = "reading" /\ r.source = src /\ r.todo = schema[g].todo \ {t}
        /\ r.out = schema[g].out \cup {e}
        /\ r.stable = schema[g].stable /\ r.ever = schema[g].ever /\ r.scanned = schema[g].scanned
    BY <1>0 DEF SchemaRecords
  <1> HIDE DEF r
  <1>7. \A x \in r.stable : ToCome(schema[g], x) => ToCome(r, x)
    BY <1>3, <1>4, <1>6 DEF ToCome, Tells
  <1>8. TooMany(schema[g]) => TooMany(r)
    BY <1>6 DEF TooMany
  <1>9. FineSchema(r, tables, held[g])
    BY <1>0, <1>3, <1>4, <1>6, <1>7, <1>8 DEF FineSchema, Looking, Visible
  <1> QED BY <1>0, <1>2, <1>5, <1>9, OneSchema

\* Looking up the keys of such a table finds them.
LEMMA ReadKeysStep ==
    ASSUME SchemasInv, NEW g \in Schemas, ReadKeys(g)
    PROVE  SchemasInv'
  <1> DEFINE src == schema[g].source
  <1>0. /\ schema[g].pc = "reading" /\ tables' = tables /\ held' = held
        /\ schema[g] \in SchemaRecords /\ FineSchema(schema[g], tables, held[g])
        /\ held = [held EXCEPT ![g] = held[g]] /\ held[g] \in BOOLEAN
        /\ schema[g].out \in SUBSET Entries
    BY RecordFields DEF ReadKeys
  <1>1. PICK d \in Unread(g) :
           schema' = [schema EXCEPT ![g].out = (@ \ {d}) \cup
                         {[d EXCEPT !.keys = Keys(d.table \in tables[schema[g].source])]}]
    BY DEF ReadKeys
  <1> DEFINE e == [d EXCEPT !.keys = Keys(d.table \in tables[src])]
             r == [schema[g] EXCEPT !.out = (@ \ {d}) \cup {e}]
  <1>2. schema' = [schema EXCEPT ![g] = r]
    BY <1>0, <1>1 DEF SchemasInv
  <1>3. src \in Sources /\ schema[g].stable \subseteq tables[src] /\ tables[src] \subseteq schema[g].ever
    BY <1>0 DEF FineSchema, Looking
  <1>4. /\ d \in Entries /\ d \in schema[g].out
        /\ e \in Entries /\ e.table = d.table /\ e.columns = d.columns
        /\ d.table \in tables[src] => e.keys = "known"
    BY <1>0 DEF Unread, Entries, Keys
  <1>5. \A t \in tables[src] : Tells(schema[g], d, t) => Tells(schema[g], e, t)
    BY <1>4 DEF Tells
  <1> HIDE DEF e
  <1>6. r \in SchemaRecords
    BY <1>0, <1>4 DEF SchemaRecords
  <1>7. /\ r.pc = "reading" /\ r.source = src /\ r.todo = schema[g].todo
        /\ r.out = (schema[g].out \ {d}) \cup {e}
        /\ r.stable = schema[g].stable /\ r.ever = schema[g].ever /\ r.scanned = schema[g].scanned
    BY <1>0 DEF SchemaRecords
  <1> HIDE DEF r
  <1>8. \A x \in r.stable : ToCome(schema[g], x) => ToCome(r, x)
    <2>1. \A x, y : Tells(r, x, y) <=> Tells(schema[g], x, y)
      BY <1>7 DEF Tells
    <2> QED BY <1>3, <1>5, <1>7, <2>1 DEF ToCome
  <1>9. TooMany(schema[g]) => TooMany(r)
    BY <1>7 DEF TooMany
  <1>10. FineSchema(r, tables, held[g])
    BY <1>0, <1>3, <1>4, <1>7, <1>8, <1>9 DEF FineSchema, Looking, Visible
  <1> QED BY <1>0, <1>2, <1>6, <1>10, OneSchema

\* Other clients drop and create tables: what was there all along shrinks,
\* what there ever was grows.
LEMMA AlterStep ==
    ASSUME SchemasInv, NEW s \in Sources, NEW t \in Tables, Alter(s, t)
    PROVE  SchemasInv'
  <1>1. tables' \in [Sources -> SUBSET Tables] /\ \A x \in Sources : x # s => tables'[x] = tables[x]
    BY DEF Alter, SchemasInv
  <1>2. ASSUME NEW g \in Schemas
        PROVE  schema'[g] \in SchemaRecords /\ FineSchema(schema'[g], tables', held[g])
    <2> DEFINE r == schema[g]
               n == [r EXCEPT !.stable = @ \cap tables'[s], !.ever = @ \cup tables'[s]]
    <2>0. /\ r \in SchemaRecords /\ FineSchema(r, tables, held[g])
          /\ r.stable \in SUBSET Tables /\ r.ever \in SUBSET Tables
      BY RecordFields
    <2>1. schema'[g] = IF Looking(r) /\ r.source = s THEN n ELSE r
      BY DEF Alter, Looking
    <2>2. CASE Looking(r) /\ r.source = s
      <3>1. n \in SchemaRecords
        BY <1>1, <2>0 DEF SchemaRecords
      <3>2. /\ n.pc = r.pc /\ n.source = s /\ n.todo = r.todo /\ n.out = r.out
            /\ n.stable = r.stable \cap tables'[s] /\ n.ever = r.ever \cup tables'[s]
            /\ n.scanned = r.scanned
        BY <2>0, <2>2 DEF SchemaRecords
      <3> HIDE DEF n
      <3>3. TooMany(r) => TooMany(n)
        BY <2>2, <3>2 DEF TooMany
      <3>4. \A x \in n.stable : x \in r.stable /\ (ToCome(r, x) => ToCome(n, x))
        BY <2>2, <3>2 DEF ToCome, Tells
      <3>5. FineSchema(n, tables', held[g])
        BY <2>0, <2>2, <3>2, <3>3, <3>4 DEF FineSchema, Looking, Visible
      <3> QED BY <2>1, <2>2, <3>1, <3>5
    <2>3. CASE ~(Looking(r) /\ r.source = s)
      <3>1. FineSchema(r, tables', held[g])
        BY <1>1, <2>0, <2>3 DEF FineSchema, Looking
      <3> QED BY <2>0, <2>1, <2>3, <3>1
    <2> QED BY <2>2, <2>3
  <1>3. held' = held /\ schema' = [g \in Schemas |-> schema'[g]]
    BY DEF Alter
  <1>4. schema' \in [Schemas -> SchemaRecords]
    BY <1>2, <1>3
  <1> QED BY <1>1, <1>2, <1>3, <1>4 DEF SchemasInv

\* The request ends when nothing is left to read, or with an exception.
LEMMA SchemaEndStep ==
    ASSUME SchemasInv, NEW g \in Schemas, SchemaDone(g) \/ SchemaFails(g)
    PROVE  SchemasInv'
  <1>0. /\ tables' = tables /\ held' = [held EXCEPT ![g] = FALSE]
        /\ schema[g] \in SchemaRecords /\ FineSchema(schema[g], tables, held[g])
    BY RecordFields DEF SchemaDone, SchemaFails
  <1>1. ASSUME NEW st \in {"answered", "failed"}, schema' = [schema EXCEPT ![g].pc = st],
               FineSchema([schema[g] EXCEPT !.pc = st], tables, FALSE)
        PROVE  SchemasInv'
    <2> DEFINE r == [schema[g] EXCEPT !.pc = st]
    <2>1. r \in SchemaRecords
      BY <1>0 DEF SchemaRecords, SchemaStates
    <2>2. schema' = [schema EXCEPT ![g] = r]
      BY <1>1 DEF SchemasInv
    <2> HIDE DEF r
    <2> QED BY <1>0, <1>1, <2>1, <2>2, OneSchema DEF r
  <1>2. ASSUME NEW st \in {"answered", "failed"}
        PROVE  LET r == [schema[g] EXCEPT !.pc = st]
               IN  /\ r.pc = st /\ r.source = schema[g].source /\ r.todo = schema[g].todo
                   /\ r.out = schema[g].out /\ r.stable = schema[g].stable /\ r.ever = schema[g].ever
                   /\ r.scanned = schema[g].scanned
    BY <1>0 DEF SchemaRecords
  <1>3. CASE SchemaDone(g)
    <2> DEFINE r == [schema[g] EXCEPT !.pc = "answered"]
    <2>1. /\ r.pc = "answered" /\ r.source = schema[g].source /\ r.todo = schema[g].todo
          /\ r.out = schema[g].out /\ r.stable = schema[g].stable /\ r.ever = schema[g].ever
          /\ r.scanned = schema[g].scanned
      BY <1>2
    <2> HIDE DEF r
    <2>2. (TooMany(schema[g]) => TooMany(r)) /\ \A t : ToCome(schema[g], t) => ToCome(r, t)
      BY <2>1 DEF TooMany, ToCome, Tells
    <2>3. FineSchema(r, tables, FALSE)
      BY <1>0, <1>3, <2>1, <2>2 DEF SchemaDone, FineSchema, Looking, Unread, Visible
    <2> QED BY <1>1, <1>3, <2>3 DEF SchemaDone, r
  <1>4. CASE SchemaFails(g)
    <2> DEFINE r == [schema[g] EXCEPT !.pc = "failed"]
    <2>1. r.pc = "failed"
      BY <1>2
    <2> HIDE DEF r
    <2>2. FineSchema(r, tables, FALSE)
      BY <2>1 DEF FineSchema, Looking
    <2> QED BY <1>1, <1>4, <2>2 DEF SchemaFails, r
  <1> QED BY <1>3, <1>4

LEMMA SchemasInit == Init => SchemasInv
  <1> SUFFICES ASSUME Init PROVE SchemasInv
    OBVIOUS
  <1>1. NoSchema \in SchemaRecords /\ NoSchema.pc = "idle"
    BY DEF NoSchema, SchemaRecords, SchemaStates
  <1>2. FineSchema(NoSchema, tables, FALSE)
    BY <1>1 DEF FineSchema, Looking
  <1> QED BY <1>1, <1>2 DEF Init, SchemasInv

\* The schema requests' invariant holds of every behaviour.
LEMMA SchemasStayFine == Spec => []SchemasInv
  <1>1. SchemasInv /\ [Next]_vars => SchemasInv'
    <2> SUFFICES ASSUME SchemasInv, [Next]_vars PROVE SchemasInv'
      OBVIOUS
    <2>1. CASE UNCHANGED schemaVars
      BY <2>1 DEF SchemasInv, schemaVars
    <2>2. ASSUME NEW q \in Queries, NextQuery(q)
          PROVE  UNCHANGED schemaVars
      BY <2>2 DEF NextQuery, ExecuteUnknown, ExecuteRefused, ExecuteStarts, SqliteExecute, Connect,
            DbRuns, DbCommits, Receive, ReceiveCommit, ConnectionFails, CloseDone, TimesOut, Leave,
            Closed
    <2>3. CASE NextSchema
      BY <2>3, AlterStep, GetSchemaStep, ListTablesStep, ScanKeysStep, ReadTableStep, ReadKeysStep, SchemaEndStep
         DEF NextSchema
    <2> QED BY <2>1, <2>2, <2>3 DEF Next, vars
  <1> QED BY <1>1, SchemasInit, PTL DEF Spec

\* A schema that is answered has every table that was there all through the
\* request, with its columns and keys, and none that never was, for every
\* provider and whatever other clients create and drop meanwhile; of an index
\* of elasticsearch the name, of a redis this only if it gave fewer than MAX_KEYS
\* keys.
THEOREM SchemaIsComplete == Spec => []SchemaMissesNothing
  <1>1. SchemasInv => SchemaMissesNothing
    <2> SUFFICES ASSUME SchemasInv, NEW g \in Schemas, schema[g].pc = "answered"
                 PROVE  /\ \/ Registry[schema[g].source].provider = "redis"
                              /\ schema[g].scanned >= MAX_KEYS
                           \/ \A t \in Visible(schema[g].source, schema[g].stable) :
                                 \E d \in schema[g].out :
                                    /\ d.table = t
                                    /\ \/ Registry[schema[g].source].provider = "elasticsearch"
                                       \/ d.columns = "known" /\ d.keys = "known"
                        /\ \A d \in schema[g].out :
                              d.columns = "known" => d.table \in schema[g].ever \cup {"none"}
      BY DEF SchemaMissesNothing
    <2>1. FineSchema(schema[g], tables, held[g])
      BY DEF SchemasInv
    <2>2. /\ TooMany(schema[g]) \/ \A t \in Visible(schema[g].source, schema[g].stable) : ToCome(schema[g], t)
          /\ \A d \in schema[g].out : d.columns = "known" => d.table \in schema[g].ever \cup {"none"}
          /\ schema[g].todo = {} /\ \A d \in schema[g].out : d.keys # "unread"
      BY <2>1 DEF FineSchema
    <2>3. \A t : ToCome(schema[g], t) => \E d \in schema[g].out :
                     /\ d.table = t
                     /\ \/ Registry[schema[g].source].provider = "elasticsearch"
                        \/ d.columns = "known" /\ d.keys = "known"
      BY <2>2 DEF ToCome, Tells
    <2> QED BY <2>2, <2>3 DEF TooMany
  <1> QED BY <1>1, SchemasStayFine, PTL

\* No request leaves a connection behind, whichever step fails or is cut off:
\* only a thread that outlived its timeout still has one.
THEOREM ConnectionsClosed == Spec => []NoConnectionLeft
  <1>1. QueriesInv /\ SchemasInv => NoConnectionLeft
    <2> SUFFICES ASSUME QueriesInv, SchemasInv PROVE NoConnectionLeft
      OBVIOUS
    <2>1. ASSUME NEW q \in Queries, conn[q] = "open"
          PROVE  pc[q] # "answered" /\ (answer[q].kind # "none" => thread[q])
      <3>1. pc[q] \in {"sent", "committing", "closing"}
            /\ answer[q] = IF thread[q] THEN Error("timeout") ELSE NoAnswer
        BY <2>1 DEF QueriesInv, FineQuery, Fine
      <3> QED BY <3>1 DEF NoAnswer
    <2>2. ASSUME NEW g \in Schemas, schema[g].pc \in {"answered", "failed"}
          PROVE  ~held[g]
      BY <2>2 DEF SchemasInv, FineSchema
    <2> QED BY <2>1, <2>2 DEF NoConnectionLeft
  <1> QED BY <1>1, QueriesStayFine, SchemasStayFine, PTL
=============================================================================
