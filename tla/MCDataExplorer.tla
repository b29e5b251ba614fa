--------------------------- MODULE MCDataExplorer ---------------------------
(* Small instances of DataExplorer for TLC: a source of every provider. *)
EXTENDS DataExplorer

OneOfEach ==
    [s \in {"sqlite", "postgres", "mysql", "mssql", "mongo", "redis", "elasticsearch", "mongo0"} |->
        IF s = "mongo0" THEN [provider |-> "mongo", max_rows |-> 0]
        ELSE [provider |-> s, max_rows |-> 1]]
=============================================================================
