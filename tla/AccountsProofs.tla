--------------------------- MODULE AccountsProofs ---------------------------
(***************************************************************************)
(* Theorems about Accounts, for every set of users, groups and tokens,     *)
(* every list of permissions and any number of requests.                   *)
(***************************************************************************)
EXTENDS Accounts, FiniteSetTheorems, TLAPS

-----------------------------------------------------------------------------
(* What a request decides.                                                 *)

\* The permissions there are.
Perm == (UNION (PermissionSets \cup {DefaultPermissions})) \cup {<<"*">>}

\* What a write carries, whenever it is carried out.
WriteOK(w) ==
    /\ w.op \in {"password", "putUser", "addUser", "dropUser", "createGroup", "updateGroup",
                 "dropGroup", "addToken", "dropToken"}
    /\ w.op \in {"password", "putUser", "addUser", "dropUser"} => w.user \in Users
    /\ w.op = "putUser" => /\ w.groups = Keep \/ w.groups \in SUBSET Groups
                           /\ w.disabled = Keep \/ w.disabled \in BOOLEAN
    /\ w.op = "addUser" => /\ w.groups \in SUBSET Groups /\ w.disabled \in BOOLEAN
                           /\ w.password \in BOOLEAN
    /\ w.op \in {"createGroup", "updateGroup"} => w.group \in Groups /\ w.perms \in SUBSET Perm
    /\ w.op = "dropGroup" => /\ w.group \in Groups \ {"admin", "users"}
                             /\ \A u \in DOMAIN w.members : w.members[u] \in SUBSET Groups
    /\ w.op \in {"addToken", "dropToken"} => w.token \in Tokens
    /\ w.op = "addToken" => w.owner \in Users /\ w.scope \in (SUBSET Perm) \cup {Unscoped}

\* What the routes and the service have checked when p's request decides w.
Allowed(p, w) ==
    /\ w.op = "password" => EnsureCoversUser(p, w.user) /\ p \in Users
    /\ w.op = "putUser" =>
         /\ Exists(w.user) /\ EnsureCoversUser(p, w.user)
         /\ w.groups # Keep =>
              /\ w.groups \subseteq ExistingGroups \cup row[w.user].groups
              /\ EnsureCanGrantGroups(p, w.groups \ row[w.user].groups)
         /\ IsLastEnabledAdmin(w.user) =>
              (w.groups = Keep \/ "admin" \in w.groups) /\ w.disabled \in {Keep, FALSE}
    /\ w.op = "addUser" =>
         /\ w.user \in fresh /\ w.groups \subseteq ExistingGroups
         /\ w.groups = {"users"} \/ EnsureCanGrantGroups(p, w.groups)
    /\ w.op = "dropUser" => ~IsLastEnabledAdmin(w.user)
    /\ w.op \in {"createGroup", "updateGroup"} => /\ EnsureCanGrantPermissions(p, w.perms)
                                                  /\ ~ReadOnlyGroups
    /\ w.op = "createGroup" => w.group \notin ExistingGroups
    /\ w.op = "updateGroup" => w.group # "admin" /\ w.group \in ExistingGroups
    /\ w.op = "dropGroup" =>
         /\ ~ReadOnlyGroups
         /\ w.members = [u \in (IF ReadOnlyUsers THEN {}
                                ELSE {v \in Users : Exists(v) /\ w.group \in row[v].groups})
                            |-> row[u].groups]
    /\ w.op = "addToken" => /\ w.owner = p /\ p \in Users /\ w.token \in fresh
                            /\ ScopeAllowed(p, w.scope)

\* The ids a write takes are no longer handed out.
Takes(w) ==
    fresh' = fresh \ (IF w.op = "addUser" THEN {w.user}
                      ELSE IF w.op = "addToken" THEN {w.token} ELSE {})

\* The stores, with what is in them, and the writes still to come.
Types ==
    /\ TypeOK
    /\ permissions \in [ExistingGroups -> SUBSET Perm] /\ given \in SUBSET Perm
    /\ token \in [Tokens -> [owner : Users, scope : (SUBSET Perm) \cup {Unscoped}] \cup {NoToken}]
    /\ writes = [r \in InFlight |-> writes[r]]
    /\ \A r \in InFlight : writes[r] # NoWrite =>
         LET w == writes[r].what
         IN  /\ WriteOK(w) /\ writes[r].by \in Principals
             /\ w.op = "addUser" => w.user \notin fresh
             /\ w.op = "addToken" => w.owner \notin fresh /\ w.token \notin fresh

\* The lists a request may carry hold permissions.
LEMMA CarriedPermissions == PermissionSets \cup {DefaultPermissions} \subseteq SUBSET Perm
  BY DEF Perm

\* Every request ends in one decision, made by a caller that is authenticated,
\* of a write that the routes and the service allow it.
LEMMA RequestDecides ==
    ASSUME Types, NEW p \in Principals, Request(p)
    PROVE  /\ Authenticated(p)
           /\ \E w : Decide(p, w) /\ WriteOK(w) /\ Allowed(p, w) /\ Takes(w)
  <1> DEFINE Decided == /\ Authenticated(p)
                        /\ \E w : Decide(p, w) /\ WriteOK(w) /\ Allowed(p, w) /\ Takes(w)
  <1> USE DEF WriteOK, Allowed, Takes
  <1>1. ASSUME NEW u \in Users, NEW groups \in GroupLists, NEW pw \in BOOLEAN,
               CreateUser(p, u, groups, FALSE, pw)
        PROVE  Decided
    <2> DEFINE w == [op |-> "addUser", user |-> u, disabled |-> FALSE, password |-> pw,
                     groups |-> IF groups = {} THEN {"users"} ELSE groups]
    <2>1. Decide(p, w) /\ Authenticated(p) /\ fresh' = fresh \ {u} /\ u \in fresh
      BY <1>1 DEF CreateUser, CreateUserRoute, UserWrite
    <2>2. "users" \in ExistingGroups /\ w.groups \subseteq ExistingGroups
      BY <1>1 DEF CreateUser, Types, TypeOK
    <2>3. w.groups = {"users"} \/ EnsureCanGrantGroups(p, w.groups)
      BY <1>1 DEF CreateUser
    <2>4. w.groups \in SUBSET Groups
      BY <2>2 DEF Types, TypeOK
    <2>5. WriteOK(w) /\ Allowed(p, w) /\ Takes(w)
      BY <2>1, <2>2, <2>3, <2>4
    <2> QED BY <2>1, <2>5
  <1>2. ASSUME NEW u \in Users, NEW groups \in GroupLists \cup {Keep},
               NEW d \in BOOLEAN \cup {Keep}, UpdateUser(p, u, groups, d)
        PROVE  Decided
    <2> DEFINE w == [op |-> "putUser", user |-> u, groups |-> groups, disabled |-> d]
    <2>1. Decide(p, w) /\ Authenticated(p) /\ fresh' = fresh /\ Exists(u) /\ EnsureCoversUser(p, u)
      BY <1>2 DEF UpdateUser, UpdateUserRoute, UserWrite
    <2>2. groups # Keep => /\ groups \subseteq ExistingGroups
                           /\ EnsureCanGrantGroups(p, groups \ row[u].groups)
      BY <1>2 DEF UpdateUser
    <2>3. groups = Keep \/ groups \in SUBSET Groups
      BY <2>2 DEF Types, TypeOK
    <2>4. IsLastEnabledAdmin(u) => (groups = Keep \/ "admin" \in groups) /\ d \in {Keep, FALSE}
      BY <1>2 DEF UpdateUser
    <2>5. WriteOK(w) /\ Allowed(p, w) /\ Takes(w)
      BY <2>1, <2>2, <2>3, <2>4
    <2> QED BY <2>1, <2>5
  <1>3. ASSUME NEW u \in Users, DeleteUser(p, u)
        PROVE  Decided
    <2> DEFINE w == [op |-> "dropUser", user |-> u]
    <2>1. Decide(p, w) /\ Authenticated(p) /\ fresh' = fresh /\ ~IsLastEnabledAdmin(u)
      BY <1>3 DEF DeleteUser, DeleteUserRoute, UserWrite
    <2>2. WriteOK(w) /\ Allowed(p, w) /\ Takes(w)
      BY <2>1
    <2> QED BY <2>1, <2>2
  <1>4. ASSUME NEW u \in Users, ChangePassword(p, u)
        PROVE  Decided
    <2> DEFINE w == [op |-> "password", user |-> u]
    <2>1. Decide(p, w) /\ Authenticated(p) /\ fresh' = fresh /\ EnsureCoversUser(p, u) /\ p \in Users
      BY <1>4 DEF ChangePassword, PasswordRoute, UserWrite, Principals
    <2>2. WriteOK(w) /\ Allowed(p, w) /\ Takes(w)
      BY <2>1
    <2> QED BY <2>1, <2>2
  <1>5. ASSUME NEW u \in Users, NEW g \in Groups, AddMember(p, g, u)
        PROVE  Decided
    <2> DEFINE w == [op |-> "putUser", user |-> u, disabled |-> Keep,
                     groups |-> row[u].groups \cup {g}]
    <2>1. Decide(p, w) /\ Authenticated(p) /\ fresh' = fresh /\ Exists(u) /\ EnsureCoversUser(p, u)
      BY <1>5 DEF AddMember, AddMemberRoute, UserWrite
    <2>2. g \in ExistingGroups /\ g \notin row[u].groups /\ EnsureCanGrantGroups(p, {g})
      BY <1>5 DEF AddMember, AddMemberRoute
    <2>3. row[u].groups \in SUBSET Groups
      BY <2>1 DEF Types, TypeOK, Rows, Exists
    <2>4. w.groups \ row[u].groups = {g}
      BY <2>2
    <2>5. IsLastEnabledAdmin(u) => "admin" \in w.groups
      BY DEF IsLastEnabledAdmin, EnabledAdmins
    <2>6. WriteOK(w) /\ Allowed(p, w) /\ Takes(w)
      BY <2>1, <2>2, <2>3, <2>4, <2>5
    <2> QED BY <2>1, <2>6
  <1>6. ASSUME NEW u \in Users, NEW g \in Groups, RemoveMember(p, g, u)
        PROVE  Decided
    <2> DEFINE w == [op |-> "putUser", user |-> u, disabled |-> Keep,
                     groups |-> row[u].groups \ {g}]
    <2>1. Decide(p, w) /\ Authenticated(p) /\ fresh' = fresh /\ Exists(u) /\ EnsureCoversUser(p, u)
      BY <1>6 DEF RemoveMember, RemoveMemberRoute, UserWrite
    <2>2. row[u].groups \in SUBSET Groups
      BY <2>1 DEF Types, TypeOK, Rows, Exists
    <2>3. EnsureCanGrantGroups(p, w.groups \ row[u].groups)
      BY DEF EnsureCanGrantGroups, Covers, EffectivePermissions
    <2>4. IsLastEnabledAdmin(u) => "admin" \in w.groups
      BY <1>6 DEF RemoveMember, IsLastEnabledAdmin, EnabledAdmins
    <2>5. WriteOK(w) /\ Allowed(p, w) /\ Takes(w)
      BY <2>1, <2>2, <2>3, <2>4
    <2> QED BY <2>1, <2>5
  <1>7. ASSUME NEW g \in Groups, NEW perms \in PermissionSets, CreateGroup(p, g, perms)
        PROVE  Decided
    <2> DEFINE w == [op |-> "createGroup", group |-> g, perms |-> perms]
    <2>1. /\ Decide(p, w) /\ Authenticated(p) /\ fresh' = fresh /\ ~ReadOnlyGroups
          /\ EnsureCanGrantPermissions(p, perms) /\ g \notin ExistingGroups
      BY <1>7 DEF CreateGroup, CreateGroupRoute, GroupWrite
    <2>2. WriteOK(w) /\ Allowed(p, w) /\ Takes(w)
      BY <2>1, CarriedPermissions
    <2> QED BY <2>1, <2>2
  <1>8. ASSUME NEW g \in Groups, NEW perms \in PermissionSets, UpdateGroup(p, g, perms)
        PROVE  Decided
    <2> DEFINE w == [op |-> "updateGroup", group |-> g, perms |-> perms]
    <2>1. /\ Decide(p, w) /\ Authenticated(p) /\ fresh' = fresh /\ ~ReadOnlyGroups
          /\ EnsureCanGrantPermissions(p, perms) /\ g # "admin" /\ g \in ExistingGroups
      BY <1>8 DEF UpdateGroup, UpdateGroupRoute, GroupWrite
    <2>2. WriteOK(w) /\ Allowed(p, w) /\ Takes(w)
      BY <2>1, CarriedPermissions
    <2> QED BY <2>1, <2>2
  <1>9. ASSUME NEW g \in Groups, DeleteGroup(p, g)
        PROVE  Decided
    <2> DEFINE members == IF ReadOnlyUsers THEN {}
                          ELSE {u \in Users : Exists(u) /\ g \in row[u].groups}
               w == [op |-> "dropGroup", group |-> g,
                     members |-> [u \in members |-> row[u].groups]]
    <2>1. /\ Decide(p, w) /\ Authenticated(p) /\ fresh' = fresh /\ ~ReadOnlyGroups
          /\ g \notin {"admin", "users"}
      BY <1>9 DEF DeleteGroup, DeleteGroupRoute, GroupWrite
    <2>2. \A u \in members : row[u].groups \in SUBSET Groups
      BY DEF Types, TypeOK, Rows, Exists
    <2>3. w.group = g /\ w.members = [u \in members |-> row[u].groups] /\ w.op = "dropGroup"
      OBVIOUS
    <2>4. WriteOK(w)
      <3> HIDE DEF members
      <3> QED BY <2>1, <2>2
    <2>5. Allowed(p, w)
      BY <2>1, <2>3
    <2>6. Takes(w)
      BY <2>1
    <2> HIDE DEF w
    <2> QED BY <2>1, <2>4, <2>5, <2>6
  <1>10. ASSUME NEW t \in Tokens, NEW scope \in PermissionSets \cup {Unscoped},
                CreateToken(p, t, scope)
         PROVE  Decided
    <2> DEFINE w == [op |-> "addToken", token |-> t, owner |-> p, scope |-> scope]
    <2>1. /\ Decide(p, w) /\ Authenticated(p) /\ fresh' = fresh \ {t} /\ t \in fresh
          /\ p \in Users /\ ScopeAllowed(p, scope)
      BY <1>10 DEF CreateToken, Principals
    <2>2. scope \in (SUBSET Perm) \cup {Unscoped}
      <3>1. CASE scope \in PermissionSets
        BY <3>1, CarriedPermissions
      <3>2. CASE scope = Unscoped
        BY <3>2
      <3> QED BY <3>1, <3>2
    <2>3. WriteOK(w) /\ Allowed(p, w) /\ Takes(w)
      BY <2>1, <2>2
    <2> QED BY <2>1, <2>3
  <1>11. ASSUME NEW t \in Tokens, RevokeToken(p, t)
         PROVE  Decided
    <2> DEFINE w == [op |-> "dropToken", token |-> t]
    <2>1. Decide(p, w) /\ Authenticated(p) /\ fresh' = fresh
      BY <1>11 DEF RevokeToken
    <2>2. WriteOK(w) /\ Allowed(p, w) /\ Takes(w)
      BY <2>1
    <2> QED BY <2>1, <2>2
  <1> HIDE DEF Decided
  <1>12. Decided
    BY <1>1, <1>2, <1>3, <1>4, <1>5, <1>6, <1>7, <1>8, <1>9, <1>10, <1>11 DEF Request
  <1> QED BY <1>12 DEF Decided
-----------------------------------------------------------------------------
(* Type correctness.                                                       *)

\* The stores after a write, whatever the requests since its decision did.
StoresOK ==
    /\ row \in [Users -> Rows \cup {NoRow}]
    /\ \A i \in fresh \cap Users : row[i] = NoRow
    /\ \A i \in fresh \cap Tokens : token[i] = NoToken
    /\ {"admin", "users"} \subseteq ExistingGroups /\ ExistingGroups \subseteq Groups
    /\ \A t \in Tokens : token[t] # NoToken => token[t].owner \in Users \ fresh
    /\ permissions \in [ExistingGroups -> SUBSET Perm]
    /\ token \in [Tokens -> [owner : Users, scope : (SUBSET Perm) \cup {Unscoped}] \cup {NoToken}]

LEMMA WriteTypes ==
    ASSUME StoresOK, NEW w, WriteOK(w), Write(w), fresh' \subseteq fresh,
           w.op = "addUser" => w.user \notin fresh',
           w.op = "addToken" => w.owner \notin fresh' /\ w.token \notin fresh'
    PROVE  StoresOK'
  <1>1. CASE w.op = "password"
    BY <1>1 DEF Write, StoresOK, ExistingGroups
  <1>2. CASE w.op = "putUser"
    <2>1. w.user \in Users /\ UNCHANGED <<permissions, token>> /\ PutUser(w)
      BY <1>2 DEF Write, WriteOK
    <2>2. CASE Exists(w.user)
      <3> DEFINE new == [disabled |-> IF w.disabled = Keep THEN row[w.user].disabled ELSE w.disabled,
                         groups   |-> IF w.groups = Keep THEN row[w.user].groups ELSE w.groups]
      <3>1. row[w.user] \in Rows /\ w.user \notin fresh
        BY <2>1, <2>2 DEF StoresOK, Exists
      <3>2. new \in Rows
        BY <1>2, <3>1 DEF WriteOK, Rows
      <3>3. row' = [row EXCEPT ![w.user] = new]
        BY <2>1, <2>2 DEF PutUser
      <3> HIDE DEF new
      <3> QED BY <2>1, <3>1, <3>2, <3>3 DEF StoresOK, ExistingGroups
    <2>3. CASE ~Exists(w.user)
      BY <2>1, <2>3 DEF PutUser, StoresOK, ExistingGroups
    <2> QED BY <2>2, <2>3
  <1>3. CASE w.op = "addUser"
    <2>1. w.user \in Users /\ UNCHANGED <<permissions, token>> /\ AddUser(w)
      BY <1>3 DEF Write, WriteOK
    <2>2. [disabled |-> w.disabled, groups |-> w.groups] \in Rows
      BY <1>3 DEF WriteOK, Rows
    <2> QED BY <1>3, <2>1, <2>2 DEF AddUser, StoresOK, ExistingGroups
  <1>4. CASE w.op = "dropUser"
    <2>1. w.user \in Users /\ DropUser(w)
      BY <1>4 DEF Write, WriteOK
    <2> QED BY <2>1 DEF DropUser, StoresOK, ExistingGroups
  <1>5. CASE w.op \in {"createGroup", "updateGroup"}
    <2>1. w.group \in Groups /\ w.perms \in SUBSET Perm /\ UNCHANGED <<row, token>> /\ PutGroup(w)
      BY <1>5 DEF Write, WriteOK
    <2>2. CASE permissions' = permissions
      BY <2>1, <2>2 DEF StoresOK, ExistingGroups
    <2>3. CASE permissions' = [g \in ExistingGroups \cup {w.group} |->
                                  IF g = w.group THEN w.perms ELSE permissions[g]]
      <3>1. ExistingGroups' = ExistingGroups \cup {w.group}
        BY <2>3 DEF ExistingGroups
      <3>2. permissions' \in [ExistingGroups' -> SUBSET Perm]
        BY <2>1, <2>3, <3>1 DEF StoresOK
      <3> QED BY <2>1, <3>1, <3>2 DEF StoresOK
    <2> QED BY <2>1, <2>2, <2>3 DEF PutGroup
  <1>6. CASE w.op = "dropGroup"
    <2>1. DropGroup(w) /\ UNCHANGED token /\ w.group \notin {"admin", "users"}
      BY <1>6 DEF Write, WriteOK
    <2>2. ExistingGroups' = ExistingGroups \ {w.group}
      BY <2>1 DEF DropGroup, ExistingGroups
    <2>3. permissions' \in [ExistingGroups' -> SUBSET Perm]
      BY <2>1, <2>2 DEF DropGroup, StoresOK
    <2>4. ASSUME NEW u \in Users
          PROVE  row'[u] \in Rows \cup {NoRow} /\ (row[u] = NoRow => row'[u] = NoRow)
      <3>1. CASE u \in DOMAIN w.members /\ Exists(u)
        <4>1. w.members[u] \ {w.group} \in SUBSET Groups /\ row[u] \in Rows
          BY <1>6, <3>1 DEF WriteOK, StoresOK, Exists
        <4>2. row'[u] = [row[u] EXCEPT !.groups = w.members[u] \ {w.group}]
          BY <2>1, <3>1 DEF DropGroup
        <4> QED BY <3>1, <4>1, <4>2 DEF Rows, Exists
      <3>2. CASE ~(u \in DOMAIN w.members /\ Exists(u))
        BY <2>1, <3>2 DEF DropGroup, StoresOK
      <3> QED BY <3>1, <3>2
    <2>5. row' \in [Users -> Rows \cup {NoRow}]
      BY <2>1, <2>4 DEF DropGroup
    <2> QED BY <2>1, <2>2, <2>3, <2>4, <2>5 DEF StoresOK
  <1>7. CASE w.op = "addToken"
    <2>1. w.token \in Tokens /\ w.owner \in Users /\ UNCHANGED <<row, permissions>> /\ AddToken(w)
      BY <1>7 DEF Write, WriteOK
    <2>2. [owner |-> w.owner, scope |-> w.scope]
              \in [owner : Users, scope : (SUBSET Perm) \cup {Unscoped}]
      BY <1>7 DEF WriteOK
    <2> QED BY <1>7, <2>1, <2>2 DEF AddToken, StoresOK, ExistingGroups
  <1>8. CASE w.op = "dropToken"
    <2>1. w.token \in Tokens /\ UNCHANGED <<row, permissions>> /\ DropToken(w)
      BY <1>8 DEF Write, WriteOK
    <2> QED BY <2>1 DEF DropToken, StoresOK, ExistingGroups
  <1> QED BY <1>1, <1>2, <1>3, <1>4, <1>5, <1>6, <1>7, <1>8 DEF WriteOK

\* What a principal holds are permissions.
LEMMA HeldPerm ==
    StoresOK => \A p \in Principals : Authenticated(p) => Held(p) \in SUBSET Perm
  <1> SUFFICES ASSUME StoresOK, NEW p \in Principals, Authenticated(p)
               PROVE  Held(p) \in SUBSET Perm
    OBVIOUS
  <1>1. \A u : UserPermissions(u) \in SUBSET Perm
    BY DEF UserPermissions, EffectivePermissions, StoresOK
  <1>2. p \notin Users /\ token[p].scope # Unscoped => token[p].scope \in SUBSET Perm
    <2> SUFFICES ASSUME p \notin Users, token[p].scope # Unscoped
                 PROVE  token[p].scope \in SUBSET Perm
      OBVIOUS
    <2>1. token[p] \in [owner : Users, scope : (SUBSET Perm) \cup {Unscoped}]
      BY DEF Principals, Authenticated, StoresOK
    <2>2. token[p].scope \in (SUBSET Perm) \cup {Unscoped}
      BY <2>1
    <2> QED BY <2>2
  <1> QED BY <1>1, <1>2 DEF Held

LEMMA HeldPermNext ==
    (StoresOK => \A p \in Principals : Authenticated(p) => Held(p) \in SUBSET Perm)'
  BY HeldPerm, PTL

LEMMA CreditType ==
    ASSUME given \in SUBSET Perm, NEW p, Credit(p), StoresOK', theirs' \subseteq Principals
    PROVE  given' \in SUBSET Perm
  <1>1. (\A q \in Principals : Authenticated(q) => Held(q) \in SUBSET Perm)'
    BY HeldPermNext
  <1>2. TheirPermissions' \in SUBSET Perm
    BY <1>1 DEF TheirPermissions
  <1>3. permissions'["users"] \in SUBSET Perm
    BY DEF StoresOK
  <1> QED BY <1>2, <1>3 DEF Credit

\* What is left to do of a write.
LEMMA RestType ==
    ASSUME NEW p \in Principals, NEW w, WriteOK(w), Rest(p, w) # NoWrite
    PROVE  /\ WriteOK(Rest(p, w).what) /\ Rest(p, w).what.op = "password"
           /\ Rest(p, w).by \in Principals
  BY DEF Rest, WriteOK, Suspended

LEMMA DecideTypes ==
    ASSUME Types, NEW p \in Principals, NEW w, Authenticated(p), Decide(p, w), WriteOK(w),
           Allowed(p, w), Takes(w)
    PROVE  Types'
  <1>1. StoresOK /\ given \in SUBSET Perm /\ theirs \subseteq Principals
    BY DEF Types, TypeOK, StoresOK
  <1>2. fresh' \subseteq fresh
    BY DEF Takes
  <1>3. w.op = "addUser" => w.user \notin fresh'
    BY DEF Takes
  <1>4. w.op = "addToken" => w.owner \notin fresh' /\ w.token \notin fresh'
    <2>1. w.op = "addToken" => w.owner = p /\ p \in Users /\ row[p] # NoRow
      BY AccountsAssumption DEF Allowed, Authenticated, Caller, Enabled, Exists
    <2>2. w.op = "addToken" => w.owner \notin fresh
      BY <2>1 DEF Types, TypeOK
    <2> QED BY <1>2, <2>2 DEF Takes
  <1>5. PICK r \in InFlight :
          IF StoresSuspend \/ w.op = "password"
          THEN /\ writes' = [writes EXCEPT ![r] = Suspended(p, w)]
               /\ UNCHANGED <<row, permissions, token>>
          ELSE Write(w) /\ writes' = [writes EXCEPT ![r] = Rest(p, w)]
    BY DEF Decide
  <1>6. StoresOK'
    <2>1. CASE UNCHANGED <<row, permissions, token>>
      BY <1>1, <1>2, <2>1 DEF StoresOK, ExistingGroups
    <2>2. CASE Write(w)
      BY <1>1, <1>2, <1>3, <1>4, <2>2, WriteTypes
    <2> QED BY <1>5, <2>1, <2>2
  <1>7. theirs' \subseteq Principals
    BY <1>1 DEF Decide, Obtained, WriteOK, Principals
  <1>8. given' \in SUBSET Perm
    BY <1>1, <1>6, <1>7, CreditType DEF Decide
  <1>9. \A q \in InFlight : q # r => writes'[q] = writes[q]
    BY <1>5 DEF Types
  <1>10. writes' = [q \in InFlight |-> writes'[q]]
    BY <1>5 DEF Types
  <1>11. ASSUME writes'[r] # NoWrite
         PROVE  LET v == writes'[r].what
                IN  /\ WriteOK(v) /\ writes'[r].by \in Principals
                    /\ v.op = "addUser" => v.user \notin fresh'
                    /\ v.op = "addToken" => v.owner \notin fresh' /\ v.token \notin fresh'
    <2>1. writes'[r] = Suspended(p, w) \/ writes'[r] = Rest(p, w)
      BY <1>5 DEF Types
    <2>2. CASE writes'[r] = Suspended(p, w)
      BY <1>3, <1>4, <2>2 DEF Suspended
    <2>3. CASE writes'[r] = Rest(p, w)
      BY <1>11, <2>3, RestType
    <2> QED BY <2>1, <2>2, <2>3
  <1>12. \A q \in InFlight : writes'[q] # NoWrite =>
           LET v == writes'[q].what
           IN  /\ WriteOK(v) /\ writes'[q].by \in Principals
               /\ v.op = "addUser" => v.user \notin fresh'
               /\ v.op = "addToken" => v.owner \notin fresh' /\ v.token \notin fresh'
    <2> SUFFICES ASSUME NEW q \in InFlight, q # r, writes'[q] # NoWrite
                 PROVE  LET v == writes'[q].what
                        IN  /\ WriteOK(v) /\ writes'[q].by \in Principals
                            /\ v.op = "addUser" => v.user \notin fresh'
                            /\ v.op = "addToken" => v.owner \notin fresh' /\ v.token \notin fresh'
      BY <1>11
    <2> QED BY <1>2, <1>9 DEF Types
  <1> QED BY <1>6, <1>7, <1>8, <1>10, <1>12 DEF Types, TypeOK, StoresOK, WriteOK

LEMMA ResumeTypes ==
    ASSUME Types, NEW r \in InFlight, Resume(r)
    PROVE  Types'
  <1> DEFINE w == writes[r].what
             p == writes[r].by
  <1>1. StoresOK /\ given \in SUBSET Perm /\ theirs \subseteq Principals
    BY DEF Types, TypeOK, StoresOK
  <1>2. /\ WriteOK(w) /\ p \in Principals
        /\ w.op = "addUser" => w.user \notin fresh
        /\ w.op = "addToken" => w.owner \notin fresh /\ w.token \notin fresh
    BY DEF Resume, Types
  <1>3. /\ Write(w) /\ writes' = [writes EXCEPT ![r] = Rest(p, w)] /\ Credit(p)
        /\ UNCHANGED <<fresh, theirs>>
    BY DEF Resume
  <1> HIDE DEF w, p
  <1>4. StoresOK'
    BY <1>1, <1>2, <1>3, WriteTypes
  <1>5. given' \in SUBSET Perm
    BY <1>1, <1>3, <1>4, CreditType
  <1>6. \A q \in InFlight : q # r => writes'[q] = writes[q]
    BY <1>3 DEF Types
  <1>7. writes'[r] # NoWrite =>
          /\ WriteOK(writes'[r].what) /\ writes'[r].what.op = "password"
          /\ writes'[r].by \in Principals
    BY <1>2, <1>3, RestType DEF Types
  <1>8. writes' = [q \in InFlight |-> writes'[q]]
    BY <1>3 DEF Types
  <1> QED BY <1>1, <1>3, <1>4, <1>5, <1>6, <1>7, <1>8 DEF Types, TypeOK, StoresOK, WriteOK

LEMMA NextTypes ==
    ASSUME Types, [Next]_vars
    PROVE  Types'
  <1>1. CASE UNCHANGED vars
    BY <1>1 DEF vars, Types, TypeOK, ExistingGroups, WriteOK
  <1>2. ASSUME NEW p \in Principals, Request(p)
        PROVE  Types'
    BY <1>2, RequestDecides, DecideTypes
  <1> QED BY <1>1, <1>2, ResumeTypes DEF Next

LEMMA InitTypes == Init => Types
  <1> SUFFICES ASSUME Init PROVE Types
    OBVIOUS
  <1>1. row \in [Users -> Rows \cup {NoRow}]
    BY AccountsAssumption DEF Init, Rows
  <1>2. PICK perms \in PermissionSets :
          /\ permissions = [g \in {"admin", "users", Team} |->
                 IF g = "admin" THEN {<<"*">>}
                 ELSE IF g = "users" THEN DefaultPermissions ELSE perms]
          /\ given = DefaultPermissions \cup perms
    BY DEF Init
  <1>3. <<"*">> \in Perm
    BY DEF Perm
  <1>4. perms \in SUBSET Perm /\ DefaultPermissions \in SUBSET Perm
    BY CarriedPermissions
  <1>5. ExistingGroups = {"admin", "users", Team} /\ permissions \in [ExistingGroups -> SUBSET Perm]
    BY <1>2, <1>3, <1>4 DEF ExistingGroups
  <1>6. given \in SUBSET Perm
    BY <1>2, <1>4
  <1>7. \A i \in fresh \cap Users : row[i] = NoRow
    BY AccountsAssumption DEF Init
  <1>8. theirs \subseteq Principals
    BY AccountsAssumption DEF Init, Principals
  <1> QED BY <1>1, <1>5, <1>6, <1>7, <1>8, AccountsAssumption DEF Types, TypeOK, Init

LEMMA TypesInvariance == Spec => []Types
  BY InitTypes, NextTypes, PTL DEF Spec

\* The stores hold what the requests put there, and an id that is still to be
\* handed out is in none of them, also with stores that suspend every request
\* between its decision and its write.
THEOREM TypeCorrect == Spec => []TypeOK
  <1>1. Types => TypeOK
    BY DEF Types
  <1> QED BY <1>1, TypesInvariance, PTL

-----------------------------------------------------------------------------
(* The stores of the repository: only a password is written later.         *)

AtOnce == \A r \in InFlight : writes[r] # NoWrite => writes[r].what.op = "password"

\* A step of those stores carries out, at once, what was decided, or changes
\* no account, group or token.
LEMMA StepAtOnce ==
    ASSUME ~StoresSuspend, Types, AtOnce, [Next]_vars
    PROVE  /\ AtOnce'
           /\ \/ UNCHANGED <<row, permissions, token>>
              \/ \E p \in Principals : \E w :
                   Write(w) /\ WriteOK(w) /\ Authenticated(p) /\ Allowed(p, w) /\ Takes(w)
  <1>1. CASE UNCHANGED vars
    BY <1>1 DEF vars, AtOnce
  <1>2. ASSUME NEW p \in Principals, Request(p)
        PROVE  /\ AtOnce'
               /\ \/ UNCHANGED <<row, permissions, token>>
                  \/ \E w : Write(w) /\ WriteOK(w) /\ Authenticated(p) /\ Allowed(p, w) /\ Takes(w)
    <2>1. PICK w : Decide(p, w) /\ WriteOK(w) /\ Allowed(p, w) /\ Takes(w)
      BY <1>2, RequestDecides
    <2>2. Authenticated(p)
      BY <1>2, RequestDecides
    <2>3. PICK r \in InFlight :
            IF StoresSuspend \/ w.op = "password"
            THEN /\ writes' = [writes EXCEPT ![r] = Suspended(p, w)]
                 /\ UNCHANGED <<row, permissions, token>>
            ELSE Write(w) /\ writes' = [writes EXCEPT ![r] = Rest(p, w)]
      BY <2>1 DEF Decide
    <2>4. CASE w.op = "password"
      <3>1. writes'[r].what = w /\ \A q \in InFlight : q # r => writes'[q] = writes[q]
        BY <2>3, <2>4 DEF Types, Suspended
      <3> QED BY <2>3, <2>4, <3>1 DEF AtOnce
    <2>5. CASE w.op # "password"
      <3>1. writes'[r] = Rest(p, w) /\ \A q \in InFlight : q # r => writes'[q] = writes[q]
        BY <2>3, <2>5 DEF Types
      <3>2. AtOnce'
        BY <2>1, <3>1, RestType DEF AtOnce
      <3> QED BY <2>1, <2>2, <2>3, <2>5, <3>2
    <2> QED BY <2>4, <2>5
  <1>3. ASSUME NEW r \in InFlight, Resume(r)
        PROVE  AtOnce' /\ UNCHANGED <<row, permissions, token>>
    <2>1. writes[r] # NoWrite /\ writes[r].what.op = "password"
      BY <1>3 DEF Resume, AtOnce
    <2>2. UNCHANGED <<row, permissions, token>>
      BY <1>3, <2>1 DEF Resume, Write
    <2>3. writes'[r] = NoWrite /\ \A q \in InFlight : q # r => writes'[q] = writes[q]
      BY <1>3, <2>1 DEF Resume, Rest, Types
    <2> QED BY <2>2, <2>3 DEF AtOnce
  <1> QED BY <1>1, <1>2, <1>3 DEF Next

\* An account that is not the last enabled administrator leaves another one.
LEMMA AnotherAdmin ==
    ASSUME NEW u, ~IsLastEnabledAdmin(u), EnabledAdmins # {}
    PROVE  \E v \in EnabledAdmins : v # u
  <1> SUFFICES ASSUME \A v \in EnabledAdmins : v = u
               PROVE  FALSE
    OBVIOUS
  <1>1. EnabledAdmins = {u}
    OBVIOUS
  <1>2. Cardinality(EnabledAdmins) = 1
    BY <1>1, FS_Singleton
  <1> QED BY <1>1, <1>2 DEF IsLastEnabledAdmin

\* Somebody is an enabled administrator, and admin holds everything.
AdminInv == permissions["admin"] = {<<"*">>} /\ EnabledAdmins # {}

\* No write takes the last enabled administrator away.
LEMMA AdminStep ==
    ASSUME Types, AdminInv, NEW p, NEW w, Write(w), WriteOK(w), Allowed(p, w)
    PROVE  AdminInv'
  <1> USE DEF AdminInv
  <1>1. {"admin", "users"} \subseteq ExistingGroups /\ row \in [Users -> Rows \cup {NoRow}]
    BY DEF Types, TypeOK
  <1>2. \A x \in Rows : x # NoRow
    BY AccountsAssumption DEF Rows
  <1>3. ASSUME NEW v \in EnabledAdmins, row'[v] = row[v]
        PROVE  v \in EnabledAdmins'
    BY <1>3 DEF EnabledAdmins, Enabled, Exists
  <1>4. CASE w.op = "password"
    BY <1>4 DEF Write, EnabledAdmins, Enabled, Exists
  <1>5. CASE w.op = "putUser"
    <2>1. w.user \in Users /\ UNCHANGED permissions /\ PutUser(w) /\ Exists(w.user)
      BY <1>5 DEF Write, WriteOK, Allowed
    <2>2. CASE IsLastEnabledAdmin(w.user)
      <3> DEFINE new == [disabled |-> IF w.disabled = Keep THEN row[w.user].disabled ELSE w.disabled,
                         groups   |-> IF w.groups = Keep THEN row[w.user].groups ELSE w.groups]
      <3>1. row'[w.user] = new
        BY <1>1, <2>1 DEF PutUser
      <3>2. ~row[w.user].disabled /\ "admin" \in row[w.user].groups /\ row[w.user] \in Rows
        BY <1>1, <2>1, <2>2 DEF IsLastEnabledAdmin, EnabledAdmins, Enabled, Exists
      <3>3. (w.groups = Keep \/ "admin" \in w.groups) /\ w.disabled \in {Keep, FALSE}
        BY <1>5, <2>2 DEF Allowed
      <3>4. ~new.disabled /\ "admin" \in new.groups
        BY <3>2, <3>3
      <3>5. new \in Rows
        BY <1>5, <3>2 DEF WriteOK, Rows
      <3> HIDE DEF new
      <3>6. w.user \in EnabledAdmins'
        BY <1>2, <2>1, <3>1, <3>4, <3>5 DEF EnabledAdmins, Enabled, Exists
      <3> QED BY <2>1, <3>6
    <2>3. CASE ~IsLastEnabledAdmin(w.user)
      <3>1. PICK v \in EnabledAdmins : v # w.user
        BY <2>3, AnotherAdmin
      <3>2. row'[v] = row[v]
        BY <1>1, <2>1, <3>1 DEF PutUser, EnabledAdmins
      <3> QED BY <1>3, <2>1, <3>2
    <2> QED BY <2>2, <2>3
  <1>6. CASE w.op = "addUser"
    <2>1. w.user \in Users /\ w.user \in fresh /\ UNCHANGED permissions /\ AddUser(w)
      BY <1>6 DEF Write, WriteOK, Allowed
    <2>2. PICK v \in EnabledAdmins : TRUE
      OBVIOUS
    <2>3. v # w.user
      BY <2>1 DEF EnabledAdmins, Enabled, Exists, Types, TypeOK
    <2>4. row'[v] = row[v]
      BY <1>1, <2>1, <2>3 DEF AddUser
    <2> QED BY <1>3, <2>1, <2>4
  <1>7. CASE w.op = "dropUser"
    <2>1. UNCHANGED permissions /\ DropUser(w) /\ ~IsLastEnabledAdmin(w.user)
      BY <1>7 DEF Write, DropUser, Allowed
    <2>2. PICK v \in EnabledAdmins : v # w.user
      BY <2>1, AnotherAdmin
    <2>3. row'[v] = row[v]
      BY <1>1, <2>1, <2>2 DEF DropUser
    <2> QED BY <1>3, <2>1, <2>3
  <1>8. CASE w.op \in {"createGroup", "updateGroup"}
    <2>1. UNCHANGED row /\ PutGroup(w) /\ w.group # "admin"
      BY <1>1, <1>8 DEF Write, Allowed
    <2>2. permissions'["admin"] = permissions["admin"]
      BY <1>1, <2>1 DEF PutGroup
    <2> QED BY <2>1, <2>2 DEF EnabledAdmins, Enabled, Exists
  <1>9. CASE w.op = "dropGroup"
    <2>1. DropGroup(w) /\ w.group # "admin"
      BY <1>9 DEF Write, WriteOK
    <2>2. permissions'["admin"] = permissions["admin"]
      BY <1>1, <2>1 DEF DropGroup
    <2>3. PICK v \in EnabledAdmins : TRUE
      OBVIOUS
    <2>4. v \in Users /\ row[v] \in Rows /\ ~row[v].disabled /\ "admin" \in row[v].groups
      BY <1>1 DEF EnabledAdmins, Enabled, Exists
    <2>5. CASE v \in DOMAIN w.members
      <3>1. w.members[v] = row[v].groups
        BY <1>9, <2>5 DEF Allowed
      <3>2. row'[v] = [row[v] EXCEPT !.groups = row[v].groups \ {w.group}]
        BY <1>2, <2>1, <2>4, <2>5, <3>1 DEF DropGroup, Exists
      <3>3. row'[v] \in Rows /\ ~row'[v].disabled /\ "admin" \in row'[v].groups
        BY <2>1, <2>4, <3>2 DEF Rows
      <3>4. v \in EnabledAdmins'
        BY <1>2, <2>4, <3>3 DEF EnabledAdmins, Enabled, Exists
      <3> QED BY <2>2, <3>4
    <2>6. CASE v \notin DOMAIN w.members
      <3>1. row'[v] = row[v]
        BY <2>1, <2>4, <2>6 DEF DropGroup
      <3> QED BY <1>3, <2>2, <3>1
    <2> QED BY <2>5, <2>6
  <1>10. CASE w.op \in {"addToken", "dropToken"}
    BY <1>10 DEF Write, EnabledAdmins, Enabled, Exists
  <1> QED BY <1>4, <1>5, <1>6, <1>7, <1>8, <1>9, <1>10 DEF WriteOK

\* Everything can be done by a member of admin.
LEMMA AdminCan ==
    ASSUME Types, AdminInv
    PROVE  AdminRemains
  <1>1. PICK u \in EnabledAdmins : TRUE
    BY DEF AdminInv
  <1>2. <<"*">> \in UserPermissions(u)
    BY <1>1 DEF AdminInv, EnabledAdmins, UserPermissions, EffectivePermissions, Types, TypeOK
  <1>3. PermissionMatches(<<"*">>, <<"any", "thing">>)
    BY DEF PermissionMatches
  <1> QED BY <1>1, <1>2, <1>3 DEF AdminRemains, HasPermission

\* With the stores of this repository an enabled administrator who may do
\* everything remains, whatever is asked of whom and in any order (the
\* protection of the last enabled member of admin in users_service.py).
THEOREM AdminStays ==
    ASSUME ~StoresSuspend
    PROVE  Spec => []AdminRemains
  <1>1. Init => AtOnce /\ AdminInv
    <2> SUFFICES ASSUME Init PROVE AtOnce /\ AdminInv
      OBVIOUS
    <2>1. AtOnce
      BY DEF Init, AtOnce
    <2>2. permissions["admin"] = {<<"*">>}
      BY DEF Init
    <2>3. row[Root] = [disabled |-> FALSE, groups |-> {"admin"}] /\ Root \in Users
      BY AccountsAssumption DEF Init
    <2>4. row[Root] # NoRow
      <3>1. {"admin"} \in SUBSET Groups /\ FALSE \in BOOLEAN
        BY AccountsAssumption
      <3>2. NoRow # [disabled |-> FALSE, groups |-> {"admin"}]
        BY <3>1, AccountsAssumption
      <3> QED BY <2>3, <3>2
    <2>5. Root \in EnabledAdmins
      BY <2>3, <2>4 DEF EnabledAdmins, Enabled, Exists
    <2> QED BY <2>1, <2>2, <2>5 DEF AdminInv
  <1>2. Types /\ AtOnce /\ AdminInv /\ [Next]_vars => (AtOnce /\ AdminInv)'
    <2> SUFFICES ASSUME Types, AtOnce, AdminInv, [Next]_vars PROVE (AtOnce /\ AdminInv)'
      OBVIOUS
    <2>1. CASE UNCHANGED <<row, permissions, token>>
      BY <2>1, StepAtOnce DEF AdminInv, EnabledAdmins, Enabled, Exists
    <2> QED BY <2>1, StepAtOnce, AdminStep
  <1>3. Types /\ AdminInv => AdminRemains
    BY AdminCan
  <1> QED BY <1>1, <1>2, <1>3, TypesInvariance, PTL DEF Spec

-----------------------------------------------------------------------------
(* Memberships.                                                            *)

LEMMA MembersStep ==
    ASSUME Types, MembersOfExistingGroups, ReadOnlyUsers => ReadOnlyGroups,
           NEW p, NEW w, Write(w), WriteOK(w), Allowed(p, w)
    PROVE  MembersOfExistingGroups'
  <1> USE DEF MembersOfExistingGroups
  <1>1. {"admin", "users"} \subseteq ExistingGroups /\ row \in [Users -> Rows \cup {NoRow}]
    BY DEF Types, TypeOK
  <1>2. CASE w.op \in {"password", "addToken", "dropToken"}
    BY <1>2 DEF Write, Exists, ExistingGroups
  <1>3. CASE w.op = "putUser"
    <2>1. w.user \in Users /\ UNCHANGED permissions /\ PutUser(w) /\ Exists(w.user)
      BY <1>3 DEF Write, WriteOK, Allowed
    <2>2. ExistingGroups' = ExistingGroups /\ row[w.user].groups \subseteq ExistingGroups
      BY <2>1 DEF ExistingGroups
    <2>3. w.groups # Keep => w.groups \subseteq ExistingGroups
      BY <1>3, <2>2 DEF Allowed
    <2>4. row'[w.user].groups \subseteq ExistingGroups
      BY <1>1, <2>1, <2>2, <2>3 DEF PutUser
    <2>5. \A u \in Users \ {w.user} : row'[u] = row[u]
      BY <1>1, <2>1 DEF PutUser
    <2> QED BY <2>2, <2>4, <2>5 DEF Exists
  <1>4. CASE w.op = "addUser"
    <2>1. w.user \in Users /\ UNCHANGED permissions /\ AddUser(w) /\ w.groups \subseteq ExistingGroups
      BY <1>4 DEF Write, WriteOK, Allowed
    <2>2. ExistingGroups' = ExistingGroups
      BY <2>1 DEF ExistingGroups
    <2>3. row'[w.user].groups = w.groups /\ \A u \in Users \ {w.user} : row'[u] = row[u]
      BY <1>1, <2>1 DEF AddUser
    <2> QED BY <2>1, <2>2, <2>3 DEF Exists
  <1>5. CASE w.op = "dropUser"
    <2>1. DropUser(w)
      BY <1>5 DEF Write
    <2> QED BY <1>1, <2>1 DEF DropUser, Exists, ExistingGroups
  <1>6. CASE w.op \in {"createGroup", "updateGroup"}
    <2>1. UNCHANGED row /\ PutGroup(w)
      BY <1>6 DEF Write
    <2>2. ExistingGroups \subseteq ExistingGroups'
      BY <2>1 DEF PutGroup, ExistingGroups
    <2> QED BY <2>1, <2>2 DEF Exists
  <1>7. CASE w.op = "dropGroup"
    <2>1. DropGroup(w) /\ ~ReadOnlyUsers
      BY <1>7 DEF Write, Allowed
    <2>2. ExistingGroups' = ExistingGroups \ {w.group}
      BY <2>1 DEF DropGroup, ExistingGroups
    <2>3. w.members = [u \in {v \in Users : Exists(v) /\ w.group \in row[v].groups}
                          |-> row[u].groups]
      BY <1>7, <2>1 DEF Allowed
    <2>4. ASSUME NEW u \in Users, Exists(u)'
          PROVE  row'[u].groups \subseteq ExistingGroups'
      <3>1. Exists(u) /\ row[u] \in Rows
        BY <1>1, <2>1, <2>4 DEF DropGroup, Exists
      <3>2. CASE w.group \in row[u].groups
        <4>1. row'[u] = [row[u] EXCEPT !.groups = row[u].groups \ {w.group}]
          BY <2>1, <2>3, <3>1, <3>2 DEF DropGroup
        <4>2. row'[u].groups = row[u].groups \ {w.group}
          BY <3>1, <4>1 DEF Rows
        <4> QED BY <2>2, <3>1, <4>2
      <3>3. CASE w.group \notin row[u].groups
        <4>1. row'[u] = row[u]
          BY <2>1, <2>3, <3>3 DEF DropGroup
        <4> QED BY <2>2, <3>1, <3>3, <4>1
      <3> QED BY <3>2, <3>3
    <2> QED BY <2>4
  <1> QED BY <1>2, <1>3, <1>4, <1>5, <1>6, <1>7 DEF WriteOK

\* With the stores of this repository no account is in a group that does not
\* exist: deleting a group takes it from all its members.  A user store that
\* is read-only beside a group store that is not keeps memberships of deleted
\* groups, as delete_group leaves it alone.
THEOREM NoGhostMembers ==
    ASSUME ~StoresSuspend, ReadOnlyUsers => ReadOnlyGroups
    PROVE  Spec => []MembersOfExistingGroups
  <1>1. Init => AtOnce /\ MembersOfExistingGroups
    <2> SUFFICES ASSUME Init PROVE AtOnce /\ MembersOfExistingGroups
      OBVIOUS
    <2>1. AtOnce
      BY DEF Init, AtOnce
    <2>2. ExistingGroups = {"admin", "users", Team}
      BY DEF Init, ExistingGroups
    <2> QED BY <2>1, <2>2 DEF Init, MembersOfExistingGroups, Exists
  <1>2. Types /\ AtOnce /\ MembersOfExistingGroups /\ [Next]_vars
            => (AtOnce /\ MembersOfExistingGroups)'
    <2> SUFFICES ASSUME Types, AtOnce, MembersOfExistingGroups, [Next]_vars
                 PROVE  (AtOnce /\ MembersOfExistingGroups)'
      OBVIOUS
    <2>1. CASE UNCHANGED <<row, permissions, token>>
      BY <2>1, StepAtOnce DEF MembersOfExistingGroups, Exists, ExistingGroups
    <2> QED BY <2>1, StepAtOnce, MembersStep
  <1> QED BY <1>1, <1>2, TypesInvariance, PTL DEF Spec

-----------------------------------------------------------------------------
(* Permissions compose.                                                    *)

\* A permission of three or more segments does not end in two wildcards.
\* a:*:* covers a:*, which covers a, and yet does not cover a.
OneTail(p) == Len(p) > 2 /\ p[Len(p)] = "*" => p[Len(p) - 1] # "*"

\* permission_matches is reflexive and, on such permissions, transitive: who
\* covers a permission covers what it grants.
LEMMA MatchesItself ==
    ASSUME NEW a, Len(a) \in Nat \ {0}
    PROVE  PermissionMatches(a, a)
  BY DEF PermissionMatches

LEMMA MatchesTransitive ==
    ASSUME NEW a, NEW b, NEW c, Len(a) \in Nat \ {0}, Len(b) \in Nat \ {0}, Len(c) \in Nat \ {0},
           OneTail(a), PermissionMatches(a, b), PermissionMatches(b, c)
    PROVE  PermissionMatches(a, c)
  <1>1. CASE a[Len(a)] = "*" /\ b[Len(b)] = "*"
    <2>1. Len(a) - 1 <= Len(b) /\ \A i \in 1..(Len(a) - 1) : a[i] \in {"*", b[i]}
      BY <1>1 DEF PermissionMatches
    <2>2. Len(b) - 1 <= Len(c) /\ \A i \in 1..(Len(b) - 1) : b[i] \in {"*", c[i]}
      BY <1>1 DEF PermissionMatches
    <2>3. Len(a) - 1 <= Len(c)
      BY <1>1, <2>1, <2>2 DEF OneTail
    <2>4. \A i \in 1..(Len(a) - 1) : a[i] \in {"*", c[i]}
      BY <1>1, <2>1, <2>2
    <2> QED BY <1>1, <2>3, <2>4 DEF PermissionMatches
  <1>2. CASE a[Len(a)] = "*" /\ b[Len(b)] # "*"
    BY <1>2 DEF PermissionMatches
  <1>3. CASE a[Len(a)] # "*" /\ b[Len(b)] = "*"
    BY <1>3 DEF PermissionMatches
  <1>4. CASE a[Len(a)] # "*" /\ b[Len(b)] # "*"
    BY <1>4 DEF PermissionMatches
  <1> QED BY <1>1, <1>2, <1>3, <1>4

\* What the permissions of a server look like: resource:action, and wildcards.
Documented == \A p \in UNION (PermissionSets \cup {DefaultPermissions}) : OneTail(p)

LEMMA PermFacts ==
    ASSUME Documented
    PROVE  \A p \in Perm : Len(p) \in Nat \ {0} /\ OneTail(p)
  BY AccountsAssumption DEF Documented, Perm, OneTail

\* Who covers a set of permissions has whatever the set grants.
LEMMA CoversTransitive ==
    ASSUME Documented, NEW A \in SUBSET Perm, NEW B \in SUBSET Perm, NEW r \in Perm,
           Covers(A, B), HasPermission(B, r)
    PROVE  HasPermission(A, r)
  <1>1. PICK b \in B : PermissionMatches(b, r)
    BY DEF HasPermission
  <1>2. PICK a \in A : PermissionMatches(a, b)
    BY DEF Covers, HasPermission
  <1> QED BY <1>1, <1>2, PermFacts, MatchesTransitive DEF HasPermission

LEMMA CoversItself ==
    ASSUME Documented, NEW A \in SUBSET Perm, NEW r \in A
    PROVE  HasPermission(A, r)
  BY PermFacts, MatchesItself DEF HasPermission

-----------------------------------------------------------------------------
(* The coalition.                                                          *)

\* What the coalition may come to by itself: what it holds, and the users
\* group, in which an account without groups is created.
CoalitionInv == NoEscalation /\ Covers(given, permissions["users"])

LEMMA UserPerm == \A u : StoresOK => UserPermissions(u) \in SUBSET Perm
  BY DEF UserPermissions, EffectivePermissions, StoresOK

LEMMA UserPermNext == \A u : StoresOK' => UserPermissions(u)' \in SUBSET Perm
  BY DEF UserPermissions, EffectivePermissions, StoresOK, ExistingGroups

\* What an enabled account has after a write of the coalition it had while it
\* was enabled, or the others have let the coalition have it.
LEMMA UserStep ==
    ASSUME Documented, Types, CoalitionInv, NEW p \in theirs, Authenticated(p), NEW w, Write(w),
           WriteOK(w), Allowed(p, w), StoresOK', NEW u \in Users, Enabled(u)',
           NEW r \in UserPermissions(u)'
    PROVE  HasPermission(given, r) \/ (Enabled(u) /\ r \in UserPermissions(u))
  <1>1. StoresOK /\ given \in SUBSET Perm /\ p \in Principals /\ Held(p) \in SUBSET Perm
    <2>1. StoresOK /\ given \in SUBSET Perm /\ p \in Principals
      BY DEF Types, TypeOK, StoresOK
    <2> QED BY <2>1, HeldPerm
  <1>2. r \in Perm
    BY UserPermNext
  <1>3. HasPermission(Held(p), r) => HasPermission(given, r)
    BY <1>1, <1>2, CoversTransitive DEF CoalitionInv, NoEscalation
  <1>4. r \in permissions["users"] => HasPermission(given, r)
    BY DEF CoalitionInv, Covers
  <1>5. PICK g \in row'[u].groups \cap ExistingGroups' : r \in permissions'[g]
    BY DEF UserPermissions, EffectivePermissions
  <1>6. CASE w.op \in {"password", "addToken", "dropToken"}
    BY <1>6 DEF Write, Enabled, Exists, UserPermissions, EffectivePermissions, ExistingGroups
  <1>7. CASE w.op = "putUser"
    <2>1. w.user \in Users /\ UNCHANGED permissions /\ PutUser(w) /\ Exists(w.user)
      BY <1>7 DEF Write, WriteOK, Allowed
    <2>2. g \in ExistingGroups /\ r \in permissions[g]
      BY <1>5, <2>1 DEF ExistingGroups
    <2>3. CASE u # w.user
      <3>1. row'[u] = row[u]
        BY <1>1, <2>1, <2>3 DEF PutUser, StoresOK
      <3> QED BY <1>5, <2>2, <3>1 DEF Enabled, Exists, UserPermissions, EffectivePermissions
    <2>4. CASE u = w.user /\ g \in row[u].groups
      <3>1. r \in UserPermissions(u)
        BY <2>2, <2>4 DEF UserPermissions, EffectivePermissions
      <3>2. CASE Caller(p) = u
        BY <3>1, <3>2 DEF Authenticated
      <3>3. CASE Caller(p) # u
        <4>1. Covers(Held(p), UserPermissions(u))
          BY <1>7, <2>4, <3>3 DEF Allowed, EnsureCoversUser
        <4> QED BY <1>3, <3>1, <4>1 DEF Covers
      <3> QED BY <3>2, <3>3
    <2>5. CASE u = w.user /\ g \notin row[u].groups
      <3>1. w.groups # Keep /\ g \in w.groups
        BY <1>1, <1>5, <2>1, <2>5 DEF PutUser, StoresOK
      <3>2. EnsureCanGrantGroups(p, w.groups \ row[u].groups)
        BY <1>7, <2>5, <3>1 DEF Allowed
      <3>3. HasPermission(Held(p), r)
        BY <2>2, <2>5, <3>1, <3>2 DEF EnsureCanGrantGroups, Covers, EffectivePermissions
      <3> QED BY <1>3, <3>3
    <2> QED BY <2>3, <2>4, <2>5
  <1>8. CASE w.op = "addUser"
    <2>1. w.user \in Users /\ UNCHANGED permissions /\ AddUser(w)
      BY <1>8 DEF Write, WriteOK
    <2>2. g \in ExistingGroups /\ r \in permissions[g]
      BY <1>5, <2>1 DEF ExistingGroups
    <2>3. CASE u # w.user
      <3>1. row'[u] = row[u]
        BY <1>1, <2>1, <2>3 DEF AddUser, StoresOK
      <3> QED BY <1>5, <2>2, <3>1 DEF Enabled, Exists, UserPermissions, EffectivePermissions
    <2>4. CASE u = w.user
      <3>1. g \in w.groups
        BY <1>1, <1>5, <2>1, <2>4 DEF AddUser, StoresOK
      <3>2. CASE w.groups = {"users"}
        BY <1>4, <2>2, <3>1, <3>2
      <3>3. CASE EnsureCanGrantGroups(p, w.groups)
        BY <1>3, <2>2, <3>1, <3>3 DEF EnsureCanGrantGroups, Covers, EffectivePermissions
      <3> QED BY <1>8, <3>2, <3>3 DEF Allowed
    <2> QED BY <2>3, <2>4
  <1>9. CASE w.op = "dropUser"
    <2>1. w.user \in Users /\ DropUser(w)
      BY <1>9 DEF Write, WriteOK
    <2>2. u # w.user
      BY <1>1, <2>1 DEF DropUser, Enabled, Exists, StoresOK
    <2>3. row'[u] = row[u] /\ UNCHANGED permissions
      BY <1>1, <2>1, <2>2 DEF DropUser, StoresOK
    <2> QED BY <1>5, <2>3 DEF Enabled, Exists, UserPermissions, EffectivePermissions, ExistingGroups
  <1>10. CASE w.op \in {"createGroup", "updateGroup"}
    <2>1. UNCHANGED row /\ PutGroup(w) /\ EnsureCanGrantPermissions(p, w.perms)
      BY <1>10 DEF Write, Allowed
    <2>2. CASE r \in w.perms
      BY <1>3, <2>1, <2>2 DEF EnsureCanGrantPermissions, Covers
    <2>3. CASE g \in ExistingGroups /\ r \in permissions[g]
      BY <1>5, <2>1, <2>3 DEF Enabled, Exists, UserPermissions, EffectivePermissions
    <2> QED BY <1>5, <2>1, <2>2, <2>3 DEF PutGroup, ExistingGroups
  <1>11. CASE w.op = "dropGroup"
    <2>1. DropGroup(w)
      BY <1>11 DEF Write
    <2>2. g \in ExistingGroups /\ r \in permissions[g]
      BY <1>5, <2>1 DEF DropGroup, ExistingGroups
    <2>3. CASE u \in DOMAIN w.members /\ Exists(u)
      <3>1. w.members[u] = row[u].groups /\ row[u] \in Rows
        BY <1>1, <1>11, <2>3 DEF Allowed, StoresOK, Exists
      <3>2. row'[u] = [row[u] EXCEPT !.groups = row[u].groups \ {w.group}]
        BY <2>1, <2>3, <3>1 DEF DropGroup
      <3>3. row'[u].groups \subseteq row[u].groups /\ row'[u].disabled = row[u].disabled
        BY <3>1, <3>2 DEF Rows
      <3> QED BY <1>5, <2>2, <2>3, <3>3 DEF Enabled, UserPermissions, EffectivePermissions
    <2>4. CASE ~(u \in DOMAIN w.members /\ Exists(u))
      <3>1. row'[u] = row[u]
        BY <2>1, <2>4 DEF DropGroup
      <3> QED BY <1>5, <2>2, <3>1 DEF Enabled, Exists, UserPermissions, EffectivePermissions
    <2> QED BY <2>3, <2>4
  <1> QED BY <1>6, <1>7, <1>8, <1>9, <1>10, <1>11 DEF WriteOK

\* What the coalition holds after a write of its own, through any account or
\* token it has or comes to, the others have let it have.
LEMMA PrincipalStep ==
    ASSUME Documented, Types, CoalitionInv, NEW p \in theirs, Authenticated(p), NEW w, Write(w),
           WriteOK(w), Allowed(p, w), StoresOK', NEW q \in theirs \cup Obtained(w),
           Authenticated(q)', NEW s \in Held(q)'
    PROVE  HasPermission(given, s)
  <1>1. StoresOK /\ given \in SUBSET Perm /\ theirs \subseteq Principals
    BY DEF Types, TypeOK, StoresOK
  <1>2. q \in Principals
    BY <1>1 DEF Obtained, WriteOK, Principals
  <1>3. s \in Perm
    BY <1>2, HeldPermNext
  <1>4. \A t \in theirs : Authenticated(t) => Covers(given, Held(t))
    BY DEF CoalitionInv, NoEscalation
  <1>5. p \in Principals /\ Held(p) \in SUBSET Perm
    BY <1>1, HeldPerm
  <1>6. HasPermission(Held(p), s) => HasPermission(given, s)
    BY <1>1, <1>3, <1>4, <1>5, CoversTransitive
  <1>7. CASE q \in Users
    <2>1. q \notin Tokens
      BY <1>7, AccountsAssumption
    <2>2. Enabled(q)' /\ s \in UserPermissions(q)'
      BY <1>7, <2>1 DEF Authenticated, Held, Caller
    <2>3. HasPermission(given, s) \/ (Enabled(q) /\ s \in UserPermissions(q))
      BY <1>7, <2>2, UserStep
    <2>4. CASE q \in theirs
      <3>1. Enabled(q) => Authenticated(q) /\ Held(q) = UserPermissions(q)
        BY <1>7, <2>1 DEF Authenticated, Held, Caller
      <3> QED BY <1>4, <2>3, <2>4, <3>1 DEF Covers
    <2>5. CASE q \notin theirs
      <3>1. q = w.user /\ w.op \in {"addUser", "password"}
        BY <1>7, <2>1, <2>5 DEF Obtained, WriteOK
      <3>2. CASE w.op = "addUser"
        <4>1. ~Enabled(q)
          BY <1>7, <3>1, <3>2 DEF Allowed, Types, TypeOK, Enabled, Exists
        <4> QED BY <2>3, <4>1
      <3>3. CASE w.op = "password"
        <4>1. p # q /\ Caller(p) = p /\ EnsureCoversUser(p, q)
          BY <2>5, <3>1, <3>3, AccountsAssumption DEF Allowed, Caller
        <4>2. Covers(Held(p), UserPermissions(q))
          BY <4>1 DEF EnsureCoversUser
        <4> QED BY <1>6, <2>3, <4>2 DEF Covers
      <3> QED BY <3>1, <3>2, <3>3
    <2> QED BY <2>4, <2>5
  <1>8. CASE q \in Tokens /\ w.op = "addToken" /\ q = w.token
    <2>1. q \notin Users
      BY <1>8, AccountsAssumption
    <2>2. UNCHANGED <<row, permissions>> /\ w.owner = p /\ p \in Users /\ ScopeAllowed(p, w.scope)
      BY <1>8 DEF Write, Allowed
    <2>3. token'[q].owner = p /\ token'[q].scope = w.scope
      BY <1>1, <1>8, <2>2 DEF Write, AddToken, StoresOK
    <2>4. UserPermissions(p)' = UserPermissions(p) /\ Held(p) = UserPermissions(p)
      BY <2>2, AccountsAssumption
      DEF UserPermissions, EffectivePermissions, ExistingGroups, Held, Caller
    <2>5. CASE w.scope = Unscoped
      <3>1. s \in Held(p)
        BY <1>8, <2>1, <2>3, <2>4, <2>5 DEF Held, Caller
      <3> QED BY <1>4, <3>1 DEF Covers
    <2>6. CASE w.scope # Unscoped
      <3>1. s \in w.scope
        BY <1>8, <2>1, <2>3, <2>6 DEF Held, Caller
      <3> QED BY <1>6, <2>2, <2>6, <3>1 DEF ScopeAllowed, Covers
    <2> QED BY <2>5, <2>6
  <1>9. CASE q \in Tokens /\ ~(w.op = "addToken" /\ q = w.token)
    <2>1. q \notin Users /\ q \in theirs
      BY <1>9, AccountsAssumption DEF Obtained, WriteOK
    <2>2. token'[q] # NoToken
      BY <1>9 DEF Authenticated
    <2>3. token'[q] = token[q]
      BY <1>1, <1>9, <2>2
      DEF Write, WriteOK, PutGroup, DropGroup, DropUser, AddToken, DropToken, StoresOK
    <2>4. PICK o \in Users : token[q].owner = o
      BY <1>1, <1>9, <2>2, <2>3 DEF StoresOK
    <2>5. Enabled(o)'
      BY <1>9, <2>3, <2>4 DEF Authenticated, Caller
    <2>6. Enabled(o) => Authenticated(q)
      BY <1>9, <2>2, <2>3, <2>4 DEF Authenticated, Caller
    <2>7. \A r \in UserPermissions(o)' :
            HasPermission(given, r) \/ (Enabled(o) /\ r \in UserPermissions(o))
      BY <2>4, <2>5, UserStep
    <2>8. CASE token[q].scope = Unscoped
      <3>1. s \in UserPermissions(o)'
        BY <1>9, <2>1, <2>3, <2>4, <2>8 DEF Held, Caller
      <3>2. Held(q) = UserPermissions(o)
        BY <1>9, <2>1, <2>4, <2>8 DEF Held, Caller
      <3> QED BY <1>4, <2>1, <2>6, <2>7, <3>1, <3>2 DEF Covers
    <2>9. CASE token[q].scope # Unscoped
      <3>1. s \in token[q].scope /\ HasPermission(UserPermissions(o)', s)
        BY <1>9, <2>1, <2>3, <2>4, <2>9 DEF Held, Caller
      <3>2. PICK r \in UserPermissions(o)' : PermissionMatches(r, s)
        BY <3>1 DEF HasPermission
      <3>3. CASE HasPermission(given, r)
        <4>1. r \in Perm
          BY UserPermNext
        <4>2. Covers(given, {r}) /\ HasPermission({r}, s)
          BY <3>2, <3>3 DEF Covers, HasPermission
        <4> QED BY <1>1, <1>3, <4>1, <4>2, CoversTransitive
      <3>4. CASE Enabled(o) /\ r \in UserPermissions(o)
        <4>1. s \in Held(q)
          BY <1>9, <2>1, <2>4, <2>9, <3>1, <3>2, <3>4 DEF Held, Caller, HasPermission
        <4> QED BY <1>4, <2>1, <2>6, <3>4, <4>1 DEF Covers
      <3> QED BY <2>7, <3>2, <3>3, <3>4
    <2> QED BY <2>8, <2>9
  <1> QED BY <1>2, <1>7, <1>8, <1>9 DEF Principals

\* A request of the coalition.
LEMMA CoalitionStep ==
    ASSUME Documented, Types, CoalitionInv, NEW p \in theirs, Authenticated(p), NEW w, Write(w),
           WriteOK(w), Allowed(p, w), Types', theirs' = theirs \cup Obtained(w), given' = given
    PROVE  CoalitionInv'
  <1>1. StoresOK' /\ StoresOK /\ given \in SUBSET Perm /\ theirs \subseteq Principals
    BY DEF Types, TypeOK, StoresOK
  <1>2. NoEscalation'
    BY <1>1, PrincipalStep DEF NoEscalation, Covers
  <1>3. ASSUME NEW r \in permissions'["users"]
        PROVE  HasPermission(given, r)
    <2>1. CASE r \in permissions["users"]
      BY <2>1 DEF CoalitionInv, Covers
    <2>2. CASE r \notin permissions["users"]
      <3>1. w.op \in {"createGroup", "updateGroup"} /\ r \in w.perms
        BY <1>1, <1>3, <2>2 DEF Write, WriteOK, PutGroup, DropGroup, DropUser, StoresOK
      <3>2. HasPermission(Held(p), r)
        BY <3>1 DEF Allowed, EnsureCanGrantPermissions, Covers
      <3>3. r \in Perm /\ Held(p) \in SUBSET Perm
        BY <1>1, <3>1, HeldPerm DEF WriteOK
      <3> QED BY <1>1, <3>2, <3>3, CoversTransitive DEF CoalitionInv, NoEscalation
    <2> QED BY <2>1, <2>2
  <1> QED BY <1>2, <1>3 DEF CoalitionInv, Covers

LEMMA NextCoalition ==
    ASSUME ~StoresSuspend, Documented, Types, AtOnce, CoalitionInv, [Next]_vars
    PROVE  CoalitionInv'
  <1>1. Types' /\ StoresOK'
    BY NextTypes DEF Types, TypeOK, StoresOK
  <1>2. CASE UNCHANGED vars
    <2>1. \A q : Authenticated(q)' = Authenticated(q) /\ Held(q)' = Held(q)
      BY <1>2 DEF vars, Authenticated, Caller, Held, UserPermissions, EffectivePermissions,
         ExistingGroups, Enabled, Exists
    <2> QED BY <1>2, <2>1 DEF vars, CoalitionInv, NoEscalation, Covers
  <1>3. ASSUME NEW p \in Principals, Request(p)
        PROVE  CoalitionInv'
    <2>1. PICK w : Decide(p, w) /\ WriteOK(w) /\ Allowed(p, w) /\ Takes(w)
      BY <1>3, RequestDecides
    <2>2. Authenticated(p)
      BY <1>3, RequestDecides
    <2>3. Write(w)
      BY <2>1 DEF Decide, Write
    <2>4. CASE p \in theirs
      <3>1. theirs' = theirs \cup Obtained(w) /\ given' = given
        BY <2>1, <2>4 DEF Decide, Credit
      <3> QED BY <1>1, <2>1, <2>2, <2>3, <2>4, <3>1, CoalitionStep
    <2>5. CASE p \notin theirs
      <3>1. theirs' = theirs /\ given' = given \cup TheirPermissions' \cup permissions'["users"]
        BY <2>1, <2>5 DEF Decide, Credit
      <3>2. given' \in SUBSET Perm
        BY <1>1 DEF Types
      <3>3. \A r \in given' : HasPermission(given', r)
        BY <3>2, CoversItself
      <3>4. \A q \in theirs' : Authenticated(q)' => Held(q)' \subseteq given'
        BY <3>1 DEF TheirPermissions
      <3> QED BY <3>1, <3>3, <3>4 DEF CoalitionInv, NoEscalation, Covers
    <2> QED BY <2>4, <2>5
  <1>4. ASSUME NEW r \in InFlight, Resume(r)
        PROVE  CoalitionInv'
    <2>1. UNCHANGED <<row, permissions, token, theirs>> /\ given \subseteq given'
      <3>1. writes[r].what.op = "password"
        BY <1>4 DEF Resume, AtOnce
      <3> QED BY <1>4, <3>1 DEF Resume, Write, Credit
    <2>2. \A q : Authenticated(q)' = Authenticated(q) /\ Held(q)' = Held(q)
      BY <2>1 DEF Authenticated, Caller, Held, UserPermissions, EffectivePermissions,
         ExistingGroups, Enabled, Exists
    <2>3. \A x : HasPermission(given, x) => HasPermission(given', x)
      BY <2>1 DEF HasPermission
    <2> QED BY <2>1, <2>2, <2>3 DEF CoalitionInv, NoEscalation, Covers
  <1> QED BY <1>2, <1>3, <1>4 DEF Next

LEMMA InitCoalition ==
    ASSUME Documented, Init
    PROVE  CoalitionInv
  <1>1. Types
    BY InitTypes
  <1>2. PICK perms \in PermissionSets :
          /\ permissions = [g \in {"admin", "users", Team} |->
                 IF g = "admin" THEN {<<"*">>}
                 ELSE IF g = "users" THEN DefaultPermissions ELSE perms]
          /\ given = DefaultPermissions \cup perms
    BY DEF Init
  <1>3. given \in SUBSET Perm /\ permissions["users"] \subseteq given
    BY <1>1, <1>2 DEF Types
  <1>4. \A r \in given : HasPermission(given, r)
    BY <1>3, CoversItself
  <1>5. ASSUME NEW q \in theirs, Authenticated(q)
        PROVE  Held(q) \subseteq given
    <2>1. token = [t \in Tokens |-> NoToken]
      BY DEF Init
    <2>2. q \in Users /\ q \notin Tokens
      BY <1>1, <1>5, <2>1 DEF Types, TypeOK, Authenticated, Principals
    <2>3. Held(q) = UserPermissions(q) /\ Exists(q)
      BY <1>5, <2>2 DEF Held, Caller, Authenticated, Enabled
    <2>4. q = Member /\ row[q].groups = {Team}
      BY <1>5, <2>2, <2>3, AccountsAssumption DEF Init, Exists
    <2>5. UserPermissions(q) \subseteq perms
      BY <1>2, <2>4, AccountsAssumption DEF UserPermissions, EffectivePermissions, ExistingGroups
    <2> QED BY <1>2, <2>3, <2>5
  <1> QED BY <1>3, <1>4, <1>5 DEF CoalitionInv, NoEscalation, Covers

\* With the stores of this repository and permissions of the documented form,
\* no set of accounts and tokens comes, by any requests of its own, to a
\* permission that the others did not let it have: the checks of
\* ensure_covers_user and ensure_can_grant_* compose.
THEOREM NoEscalationEver ==
    ASSUME ~StoresSuspend, Documented
    PROVE  Spec => []NoEscalation
  <1>1. Init => AtOnce /\ CoalitionInv
    BY InitCoalition DEF Init, AtOnce
  <1>2. Types /\ AtOnce /\ CoalitionInv /\ [Next]_vars => (AtOnce /\ CoalitionInv)'
    BY StepAtOnce, NextCoalition
  <1>3. CoalitionInv => NoEscalation
    BY DEF CoalitionInv
  <1> QED BY <1>1, <1>2, <1>3, TypesInvariance, PTL DEF Spec

=============================================================================
