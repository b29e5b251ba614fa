------------------------------ MODULE Accounts ------------------------------
(***************************************************************************)
(* Accounts, groups and API tokens of the users plugin: the requests of    *)
(* controllers/{users,groups,tokens}_controller.py as                      *)
(* services/users_service.py carries them out, and the permissions         *)
(* (permissions.py) that decide which of them a caller may make.           *)
(*                                                                         *)
(* A request is DECIDED (authentication, permission, protections) on the   *)
(* state it reads and then WRITES what it decided.  With the stores of     *)
(* this repository no coroutine is suspended in between, except while a    *)
(* password is hashed in a thread; a store of the host application         *)
(* (stores/interfaces.py) may suspend on every call (StoresSuspend).       *)
(* Sessions, lockouts and sockets are the subject of UserSessions.         *)
(***************************************************************************)
EXTENDS Naturals, FiniteSets, Sequences

CONSTANTS Users,            \* user ids; a deleted id is never used again
          Root,             \* the account that seed() creates
          Groups,           \* group names, "admin" and "users" among them
          Tokens,           \* API token ids
          PermissionSets,   \* the permission lists a request may carry
          GroupLists,       \* the group lists a request may carry
          DefaultPermissions,  \* what the "users" group is seeded with
          MaxTokens,        \* MAX_TOKENS_PER_USER
          Member, Team,     \* an account and a group that root has set up
          MaxRequests,      \* bound on the requests of a behaviour
          InFlight,         \* slots for requests suspended before their write
          StoresSuspend,    \* whether the stores may suspend a request
          ReadOnlyUsers, ReadOnlyGroups,  \* the host owns the store
          Coalitions,       \* who is watched by NoEscalation (see there)
          NoRow, NoToken, NoWrite, Keep, Unscoped

ASSUME AccountsAssumption ==
    /\ Root \in Users /\ Member \in Users \ {Root}
    /\ {"admin", "users"} \subseteq Groups /\ Team \in Groups \ {"admin", "users"}
    /\ Users \cap Tokens = {}
    /\ {StoresSuspend, ReadOnlyUsers, ReadOnlyGroups} \subseteq BOOLEAN
    /\ MaxTokens \in Nat /\ MaxRequests \in Nat
    /\ GroupLists \subseteq SUBSET Groups /\ Coalitions \subseteq SUBSET ((Users \cup Tokens) \ {Root})
    /\ \A d \in BOOLEAN, groups \in SUBSET Groups : NoRow # [disabled |-> d, groups |-> groups]
    /\ \A p \in UNION (PermissionSets \cup {DefaultPermissions}) : Len(p) \in Nat \ {0}

VARIABLES
    row,        \* the user store: disabled flag and groups of each user
    fresh,      \* user ids not handed out yet
    permissions,\* the group store: the permissions of each existing group
    token,      \* the token store: owner and scope
    left,       \* requests still to come (the bound of the exploration)
    writes,     \* requests decided and suspended before their write
    theirs,     \* history: users and tokens the coalition acts as
    given       \* history: permissions the others let the coalition have

vars == <<row, fresh, permissions, token, left, writes, theirs, given>>

-----------------------------------------------------------------------------
(* Permissions are sequences of segments: users:* is <<"users", "*">>.     *)

(* The last segment "*" grants everything below; "*" elsewhere is one segment. *)
PermissionMatches(g, r) ==
    LET Agrees(n) == n <= Len(r) /\ \A i \in 1..n : g[i] \in {"*", r[i]}
    IN  IF g[Len(g)] = "*" THEN Agrees(Len(g) - 1)
        ELSE Len(g) = Len(r) /\ Agrees(Len(g))

HasPermission(granted, required) == \E p \in granted : PermissionMatches(p, required)
Covers(granted, required) == \A p \in required : HasPermission(granted, p)

ExistingGroups == DOMAIN permissions
EffectivePermissions(groups) ==
    UNION {permissions[g] : g \in groups \cap ExistingGroups}
UserPermissions(u) == EffectivePermissions(row[u].groups)
Exists(u) == row[u] # NoRow
Enabled(u) == Exists(u) /\ ~row[u].disabled
EnabledAdmins == {u \in Users : Enabled(u) /\ "admin" \in row[u].groups}
(* Mutant: disabled administrators count. *)
IsLastAdminCountingDisabled(u) ==
    u \in EnabledAdmins
    /\ Cardinality({v \in Users : Exists(v) /\ "admin" \in row[v].groups}) <= 1
IsLastEnabledAdmin(u) == u \in EnabledAdmins /\ Cardinality(EnabledAdmins) <= 1

(* A principal is a user's session or an API token. *)
Principals == Users \cup Tokens
Caller(p) == IF p \in Tokens THEN token[p].owner ELSE p
Authenticated(p) == (p \in Tokens => token[p] # NoToken) /\ Enabled(Caller(p))
(* A scoped token keeps the entries of its scope that its user still holds. *)
Held(p) ==
    LET all == UserPermissions(Caller(p))
    IN  IF p \in Users THEN all
        ELSE IF token[p].scope = Unscoped THEN all
        ELSE {s \in token[p].scope : HasPermission(all, s)}
Can(p, resource, action) == HasPermission(Held(p), <<resource, action>>)

EnsureCoversUser(p, u) == Caller(p) = u \/ Covers(Held(p), UserPermissions(u))
EnsureCanGrantGroups(p, groups) == Covers(Held(p), EffectivePermissions(groups))
(* Mutant: a token grants whatever its owner could. *)
OwnerCanGrantPermissions(p, perms) == Covers(UserPermissions(Caller(p)), perms)
EnsureCanGrantPermissions(p, perms) == Covers(Held(p), perms)

-----------------------------------------------------------------------------
(* The record of a user, as far as the requests below depend on it. *)
Rows == [disabled : BOOLEAN, groups : SUBSET Groups]

(* What the stores do with a write; one that no longer finds its row or    *)
(* its group answers an error and changes nothing.                         *)

PutUser(w) ==
    IF Exists(w.user)
    THEN row' = [row EXCEPT ![w.user] =
             [disabled |-> IF w.disabled = Keep THEN @.disabled ELSE w.disabled,
              groups   |-> IF w.groups = Keep THEN @.groups ELSE w.groups]]
    ELSE UNCHANGED row
AddUser(w) == row' = [row EXCEPT ![w.user] = [disabled |-> w.disabled, groups |-> w.groups]]
(* The row, then (after the sessions) the tokens of the user. *)
DropUser(w) ==
    /\ row' = [row EXCEPT ![w.user] = NoRow]
    /\ token' = [t \in Tokens |->
           IF token[t] # NoToken /\ token[t].owner = w.user THEN NoToken ELSE token[t]]
    /\ UNCHANGED permissions
PutGroup(w) ==
    permissions' = IF (w.op = "createGroup") # (w.group \in ExistingGroups)
                   THEN [g \in ExistingGroups \cup {w.group} |->
                            IF g = w.group THEN w.perms ELSE permissions[g]]
                   ELSE permissions
(* Mutant: the memberships stay. *)
DropGroupOnly(w) ==
    /\ permissions' = [g \in ExistingGroups \ {w.group} |-> permissions[g]]
    /\ UNCHANGED row
(* Memberships are rewritten from the users that were read. *)
DropGroup(w) ==
    /\ row' = [u \in Users |->
           IF u \in DOMAIN w.members /\ Exists(u)
           THEN [row[u] EXCEPT !.groups = w.members[u] \ {w.group}] ELSE row[u]]
    /\ permissions' = [g \in ExistingGroups \ {w.group} |-> permissions[g]]
AddToken(w) == token' = [token EXCEPT ![w.token] = [owner |-> w.owner, scope |-> w.scope]]
DropToken(w) == token' = [token EXCEPT ![w.token] = NoToken]

Write(w) ==
    \/ w.op = "password" /\ UNCHANGED <<row, permissions, token>>
    \/ w.op = "putUser" /\ PutUser(w) /\ UNCHANGED <<permissions, token>>
    \/ w.op = "addUser" /\ AddUser(w) /\ UNCHANGED <<permissions, token>>
    \/ w.op = "dropUser" /\ DropUser(w)
    \/ w.op \in {"createGroup", "updateGroup"} /\ PutGroup(w) /\ UNCHANGED <<row, token>>
    \/ w.op = "dropGroup" /\ DropGroup(w) /\ UNCHANGED token
    \/ w.op = "addToken" /\ AddToken(w) /\ UNCHANGED <<row, permissions>>
    \/ w.op = "dropToken" /\ DropToken(w) /\ UNCHANGED <<row, permissions>>

(* History.  What the coalition does gives it the accounts and tokens it   *)
(* gets the secrets of; what the others do may give it permissions.        *)
Obtained(w) ==
    IF w.op = "password" \/ (w.op = "addUser" /\ w.password) THEN {w.user}
    ELSE IF w.op = "addToken" THEN {w.token} ELSE {}
TheirPermissions == UNION {Held(p) : p \in {q \in theirs : Authenticated(q)}}
(* A write of `by` is carried out. *)
Credit(by) ==
    given' = IF by \in theirs THEN given
             ELSE given \cup TheirPermissions' \cup permissions'["users"]

(* A created account gets its password, if one was sent, by a write of its own. *)
Suspended(p, w) == [by |-> p, what |-> w]
Rest(p, w) ==
    IF w.op = "addUser" /\ w.password
    THEN Suspended(p, [op |-> "password", user |-> w.user]) ELSE NoWrite

(* The decision of p is carried out at once, or suspended: before its      *)
(* write where the stores suspend, and while a password is hashed.         *)
Decide(p, w) ==
    /\ left' = left - 1
    /\ theirs' = IF p \in theirs THEN theirs \cup Obtained(w) ELSE theirs
    /\ \E r \in {i \in InFlight : writes[i] = NoWrite} :
          IF StoresSuspend \/ w.op = "password"
          THEN /\ writes' = [writes EXCEPT ![r] = Suspended(p, w)]
               /\ UNCHANGED <<row, permissions, token>>
          ELSE Write(w) /\ writes' = [writes EXCEPT ![r] = Rest(p, w)]
    /\ Credit(p)

Resume(r) ==
    /\ writes[r] # NoWrite
    /\ UNCHANGED <<fresh, left, theirs>>
    /\ Write(writes[r].what)
    /\ writes' = [writes EXCEPT ![r] = Rest(writes[r].by, writes[r].what)]
    /\ Credit(writes[r].by)

-----------------------------------------------------------------------------
(* What the routes check before they call the service: the store may be    *)
(* written, the caller is authenticated and holds the permission.          *)

UserWrite(p) == ~ReadOnlyUsers /\ Authenticated(p)
GroupWrite(p) == ~ReadOnlyGroups /\ Authenticated(p)
CreateUserRoute(p) == UserWrite(p) /\ Can(p, "users", "create")
(* Without users:update one may change one's own e-mail and data only. *)
UpdateUserRoute(p, u) == UserWrite(p) /\ Exists(u) /\ Can(p, "users", "update")
DeleteUserRoute(p, u) == UserWrite(p) /\ Exists(u) /\ Can(p, "users", "delete")
PasswordRoute(p, u) ==
    /\ UserWrite(p) /\ p \notin Tokens /\ Exists(u)
    /\ p = u \/ Can(p, "users", "update")
CreateGroupRoute(p) == GroupWrite(p) /\ Can(p, "groups", "create")
UpdateGroupRoute(p, g) == GroupWrite(p) /\ Can(p, "groups", "update") /\ g \in ExistingGroups
DeleteGroupRoute(p, g) == GroupWrite(p) /\ Can(p, "groups", "delete") /\ g \in ExistingGroups
AddMemberRoute(p, g, u) ==
    UserWrite(p) /\ Can(p, "groups", "update") /\ g \in ExistingGroups /\ Exists(u)
RemoveMemberRoute(p, g, u) ==
    UserWrite(p) /\ Can(p, "groups", "update") /\ g \in ExistingGroups /\ Exists(u)

-----------------------------------------------------------------------------
(* Requests: each conjunct is a check whose failure answers an error.      *)

CreateUser(p, u, groups, disabled, password) ==
    /\ CreateUserRoute(p)
    /\ groups \subseteq ExistingGroups
    /\ groups # {} => EnsureCanGrantGroups(p, groups)
    /\ u \in fresh
    /\ fresh' = fresh \ {u}
    /\ Decide(p, [op |-> "addUser", user |-> u, disabled |-> disabled, password |-> password,
                  groups |-> IF groups = {} THEN {"users"} ELSE groups])

UpdateUser(p, u, groups, disabled) ==
    /\ UpdateUserRoute(p, u)
    /\ groups # Keep => groups \subseteq ExistingGroups
    /\ EnsureCoversUser(p, u)
    /\ groups # Keep => EnsureCanGrantGroups(p, groups \ row[u].groups)
    /\ (groups # Keep /\ "admin" \notin groups) \/ disabled = TRUE => ~IsLastEnabledAdmin(u)
    /\ Decide(p, [op |-> "putUser", user |-> u, groups |-> groups, disabled |-> disabled])
    /\ UNCHANGED fresh

DeleteUser(p, u) ==
    /\ DeleteUserRoute(p, u)
    /\ Caller(p) # u
    /\ EnsureCoversUser(p, u)
    /\ ~IsLastEnabledAdmin(u)
    /\ Decide(p, [op |-> "dropUser", user |-> u])
    /\ UNCHANGED fresh

(* One's own password needs the current one; the others' need users:update. *)
ChangePassword(p, u) ==
    /\ PasswordRoute(p, u)
    /\ EnsureCoversUser(p, u)
    /\ Decide(p, [op |-> "password", user |-> u])
    /\ UNCHANGED fresh

CreateGroup(p, g, perms) ==
    /\ CreateGroupRoute(p)
    /\ EnsureCanGrantPermissions(p, perms)
    /\ g \notin ExistingGroups
    /\ Decide(p, [op |-> "createGroup", group |-> g, perms |-> perms])
    /\ UNCHANGED fresh

UpdateGroup(p, g, perms) ==
    /\ UpdateGroupRoute(p, g)
    /\ g # "admin"
    /\ EnsureCanGrantPermissions(p, perms)
    /\ Decide(p, [op |-> "updateGroup", group |-> g, perms |-> perms])
    /\ UNCHANGED fresh

(* A read-only user store keeps its memberships. *)
DeleteGroup(p, g) ==
    /\ DeleteGroupRoute(p, g)
    /\ g \notin {"admin", "users"}
    /\ LET members == IF ReadOnlyUsers THEN {}
                      ELSE {u \in Users : Exists(u) /\ g \in row[u].groups}
       IN  Decide(p, [op |-> "dropGroup", group |-> g,
                      members |-> [u \in members |-> row[u].groups]])
    /\ UNCHANGED fresh

AddMember(p, g, u) ==
    /\ AddMemberRoute(p, g, u)
    /\ EnsureCoversUser(p, u)
    /\ EnsureCanGrantGroups(p, {g})
    /\ g \notin row[u].groups
    /\ Decide(p, [op |-> "putUser", user |-> u, disabled |-> Keep,
                  groups |-> row[u].groups \cup {g}])
    /\ UNCHANGED fresh

RemoveMember(p, g, u) ==
    /\ RemoveMemberRoute(p, g, u)
    /\ EnsureCoversUser(p, u)
    /\ g \in row[u].groups
    /\ g = "admin" => ~IsLastEnabledAdmin(u)
    /\ Decide(p, [op |-> "putUser", user |-> u, disabled |-> Keep,
                  groups |-> row[u].groups \ {g}])
    /\ UNCHANGED fresh

ScopeAllowed(p, scope) == scope # Unscoped => Covers(Held(p), scope)
(* A token must not be able to mint more tokens; ids are never reused. *)
CreateToken(p, t, scope) ==
    /\ Authenticated(p) /\ p \notin Tokens
    /\ ScopeAllowed(p, scope)
    /\ Cardinality({s \in Tokens : token[s] # NoToken /\ token[s].owner = p}) < MaxTokens
    /\ t \in fresh
    /\ fresh' = fresh \ {t}
    /\ Decide(p, [op |-> "addToken", token |-> t, owner |-> p, scope |-> scope])

RevokeToken(p, t) ==
    /\ Authenticated(p)
    /\ token[t] # NoToken
    /\ token[t].owner = Caller(p) \/ Can(p, "tokens", "revoke")
    /\ Decide(p, [op |-> "dropToken", token |-> t])
    /\ UNCHANGED fresh
-----------------------------------------------------------------------------
(* seed() creates the built-in groups and root, which has then set up an   *)
(* account in a group of its own.                                          *)
Init ==
    /\ row = [u \in Users |->
           IF u = Root THEN [disabled |-> FALSE, groups |-> {"admin"}]
           ELSE IF u = Member THEN [disabled |-> FALSE, groups |-> {Team}]
           ELSE NoRow]
    /\ fresh = (Users \ {Root, Member}) \cup Tokens
    /\ \E perms \in PermissionSets :
         /\ permissions = [g \in {"admin", "users", Team} |->
                IF g = "admin" THEN {<<"*">>}
                ELSE IF g = "users" THEN DefaultPermissions ELSE perms]
         /\ given = DefaultPermissions \cup perms
    /\ token = [t \in Tokens |-> NoToken]
    /\ left = MaxRequests
    /\ writes = [r \in InFlight |-> NoWrite]
    /\ theirs \in Coalitions

Request(p) ==
    \/ \E u \in Users :
         \/ \E groups \in GroupLists, pw \in BOOLEAN : CreateUser(p, u, groups, FALSE, pw)
         \/ \E groups \in GroupLists \cup {Keep}, d \in BOOLEAN \cup {Keep} :
                UpdateUser(p, u, groups, d)
         \/ DeleteUser(p, u)
         \/ ChangePassword(p, u)
         \/ \E g \in Groups : AddMember(p, g, u) \/ RemoveMember(p, g, u)
    \/ \E g \in Groups :
         \/ \E perms \in PermissionSets : CreateGroup(p, g, perms) \/ UpdateGroup(p, g, perms)
         \/ DeleteGroup(p, g)
    \/ \E t \in Tokens :
         \/ \E scope \in PermissionSets \cup {Unscoped} : CreateToken(p, t, scope)
         \/ RevokeToken(p, t)

Next ==
    \/ left > 0 /\ \E p \in Principals : Request(p)
    \/ \E r \in InFlight : Resume(r)

Spec == Init /\ [][Next]_vars

-----------------------------------------------------------------------------
(* Properties *)

(* Every store holds what the requests put there, and an id that is still  *)
(* to be handed out is in none of them.                                    *)
TypeOK ==
    /\ row \in [Users -> Rows \cup {NoRow}]
    /\ \A i \in fresh \cap Users : row[i] = NoRow
    /\ \A i \in fresh \cap Tokens : token[i] = NoToken
    /\ {"admin", "users"} \subseteq ExistingGroups /\ ExistingGroups \subseteq Groups
    /\ \A t \in Tokens : token[t] # NoToken => token[t].owner \in Users \ fresh
    /\ theirs \subseteq Principals

(* "the last enabled member of admin cannot be deleted, disabled or        *)
(* removed from admin" (plugins/users/README.md): whatever requests are    *)
(* made, somebody is left who can administer the server.                   *)
AdminRemains ==
    \E u \in EnabledAdmins : HasPermission(UserPermissions(u), <<"any", "thing">>)

(* Deleting a group takes it from its members, so that a group created     *)
(* later under the same name starts empty.                                 *)
MembersOfExistingGroups ==
    \A u \in Users : Exists(u) => row[u].groups \subseteq ExistingGroups

(* The coalition (a user or a token, then every account and token whose    *)
(* secret its requests set) never holds a permission that the others did   *)
(* not let it have, whatever it does to groups, accounts, passwords and    *)
(* tokens: ensure_covers_user and ensure_can_grant_* of auth_service.py    *)
(* compose over any sequence of requests.                                  *)
NoEscalation ==
    \A p \in theirs : Authenticated(p) => Covers(given, Held(p))

(* "a caller may only act on users whose permissions it holds"             *)
(* (auth_service.py, ensure_covers_user), at the moment it acts on them.   *)
ActsOnCovered ==
    [][\A r \in InFlight :
          LET s == writes[r]
          IN  (s # NoWrite /\ s.what.op = "password" /\ writes'[r] = NoWrite
               /\ Exists(s.what.user) /\ Authenticated(s.by))
              => EnsureCoversUser(s.by, s.what.user)]_vars
=============================================================================
