----------------------------- MODULE MCCommands -----------------------------
(* A module with a root command, a guarded sub-command that streams and an  *)
(* open one; the http command; a root whose MCP name collides with a        *)
(* sub-command's, and a command whose MCP name a plugin's tool takes.       *)
(* Requests also name the root with a blank after it, and only a blank.     *)
EXTENDS Commands, TLC

Admin == "admin:run"
MCPermissions == {"commands:execute", Admin}
MCNodeOrder == << <<"db">>, <<"db", "drop">>, <<"db", "tail">>, <<"db_tail">>, <<"http">>, <<"http", "get">> >>
MCRequired(n) == IF n \in {<<"db", "drop">>, <<"http">>} THEN {Admin} ELSE {}
MCUnlisted(n) == n = <<"db", "tail">>
MCStreams(n) == n \in {<<"db", "tail">>, <<"http", "get">>}
MCTakesInput(n) == n \in {<<"db">>, <<"http", "get">>}
MCInputRequired(n) == n = <<"db">>
MCToolName(n) ==
    IF n = <<"db">> THEN "jobs" ELSE IF n \in {<<"db", "tail">>, <<"db_tail">>} THEN "db_tail"
    ELSE IF n = <<"db", "drop">> THEN "db_drop" ELSE IF n = <<"http", "get">> THEN "http_get" ELSE "none"
MCIsHttp(n) == n = <<"http", "get">>
MCOtherTools == "jobs" :> {Admin}
MCExposed(name) == name # "db_drop"
MCRequested == { <<"db">>, <<"db", "drop">>, <<"db", "tail", "x">>, <<"http", "get">>,
                 <<"no">>, <<"db ">>, <<" ">>, <<"no way">> }
MCStripped(n) == IF n = <<"db ">> THEN <<"db">> ELSE IF n = <<" ">> THEN NoNode ELSE n
MCFirstWord(n) == IF n = <<"no way">> THEN <<"no">> ELSE n
MCModuleOf == <<"db">> :> "dbmod"
Symmetry == Permutations(Reqs)
=============================================================================
