----------------------------- MODULE MCAccounts -----------------------------
(* Small instances of Accounts: the root account, two more, one group      *)
(* beside the built-in ones, one token.                                    *)
EXTENDS Accounts

SmallPermissionSets ==
    {{}, {<<"users", "*">>, <<"groups", "*">>}, {<<"users", "update">>, <<"jobs", "*">>}}
SmallGroupLists == {{}, {"team"}, {"admin"}}
SmallDefault == {<<"commands", "execute">>}
AUserOrAToken == {{"ann"}, {"t1"}}
NoCoalition == {{}}
=============================================================================
