---------------------------- MODULE FileProviders ----------------------------
(***************************************************************************)
(* The file storage providers behind /api/qcli/fs and the fs_* MCP tools,  *)
(* with the router in front and the event-publishing wrapper around them.  *)
(*                                                                         *)
(* The five providers keep the same tree in five ways: nodes in memory,    *)
(* nodes saved as one JSON file, rows of a table, objects and markers of a *)
(* bucket, and the operating system's files below allowed roots.  `kind'   *)
(* says which one a behaviour is about; "legacy" is the router that works  *)
(* on the operating system's files without a provider.                     *)
(*                                                                         *)
(* What lies below may break a request off at each write, commit or call   *)
(* of the bucket, and so may the end of the process.  Times, sizes,        *)
(* permissions and listings' order are left out.  Requests do not overlap: *)
(* only the S3 provider can be interrupted by another request, and it is   *)
(* modelled for one client at a time.                                      *)
(***************************************************************************)
EXTENDS Naturals, FiniteSets, Sequences, SequencesExt

CONSTANTS
    Kinds,     \* the providers looked at
    Paths,     \* the paths looked at (a bound), closed under prefixes
    RawPaths,  \* what clients write: sequences of names, "." and ".."
    Contents,  \* what clients store
    Replaced,  \* the contents that are no UTF-8, each with its replacement
    Oversize,  \* contents larger than max_upload_bytes
    Roots,     \* allowed_paths
    Links,     \* symbolic links of the operating system, each with its target
    Alike,     \* pairs of names the first of which, as a LIKE pattern, matches the second
    Page,      \* entries in one answer of list_objects_v2
    FreeOnly,  \* copies and moves go only where nothing is, outside their source
    FailAgain, \* JSON: a save may also fail while the file is behind (a bound)
    WholeBatches \* S3: a directory that is removed fits one answer, and
                 \* delete_objects deletes all it is given

\* What a file may hold, one whose writing was broken off among them.
Cut == "cut"
Stored == Contents \cup {Replaced[c] : c \in DOMAIN Replaced} \cup {Cut}

ASSUME FilesAssumption ==
    /\ Kinds \subseteq {"memory", "json", "sqlite", "s3", "os", "legacy"}
    /\ Paths \subseteq Seq(STRING) /\ IsFiniteSet(Paths) /\ <<>> \in Paths
    /\ \A p \in Paths : \A i \in 0..Len(p) : SubSeq(p, 1, i) \in Paths
    /\ Roots \subseteq Paths \ {<<>>} /\ Page \in Nat \ {0}
    /\ {FreeOnly, FailAgain, WholeBatches} \subseteq BOOLEAN
    /\ Oversize \subseteq Contents /\ DOMAIN Replaced \subseteq Contents
    /\ {"none", "dir"} \cap Stored = {} /\ \A l \in DOMAIN Links : Links[l] \in Paths

VARIABLES
    kind,     \* the provider
    tree,     \* nodes, rows, files or (for S3) objects at each path
    markers,  \* S3: the paths with a directory marker
    disk,     \* JSON: the tree in the file, T!Lost when the file is no JSON
    up,       \* the server runs
    reply     \* the last request, with its status and its event

vars == <<kind, tree, markers, disk, up, reply>>

\* The provider as one tree; a bucket has a directory where it has a marker
\* or an object below.
S3Node(p) ==
    IF p = <<>> THEN "dir" ELSE
    IF tree[p] # "none" THEN tree[p] ELSE
    IF p \in markers THEN "dir" ELSE
    IF \E q \in Paths : IsStrictPrefix(p, q) /\ (tree[q] # "none" \/ q \in markers) THEN "dir" ELSE "none"
View == [p \in Paths |-> IF kind = "s3" THEN S3Node(p) ELSE tree[p]]

\* What the next start serves, and where that is kept.
Kept == IF kind \in {"memory", "json"} THEN disk ELSE View
Store == IF kind = "memory" THEN "process" ELSE IF kind = "json" THEN "file" ELSE "entries"

T == INSTANCE FileTree WITH tree <- View, kept <- Kept, asked <- reply.op, told <- reply.event,
                           store <- Store, Contents <- Stored

IsFile(n) == n \notin {"none", "dir"}
Above(p) == T!Above(p)
Children(t, p) == {q \in Paths : q # <<>> /\ Front(q) = p /\ t[q] # "none"}

\* Every variable has its type.
TypeOK ==
    /\ kind \in Kinds /\ up \in BOOLEAN /\ markers \subseteq Paths
    /\ tree \in [Paths -> {"none", "dir"} \cup Stored] /\ disk \in [Paths -> {"none", "dir"} \cup Stored]
    /\ {reply.op, reply.event} \subseteq {"none", "write", "upload", "mkdir", "delete", "copy", "move"}
    /\ reply.status \in {"200", "400", "403", "404", "409", "413", "500", "isError", "raised", "none"}

-----------------------------------------------------------------------------
(* Paths *)

\* _normalize_path: "." and empty segments are dropped, ".." never leaves the root.
Normalize(raw) ==
    FoldLeft(LAMBDA acc, s : IF s = "." THEN acc ELSE
                             IF s = ".." THEN (IF acc = <<>> THEN acc ELSE Front(acc))
                             ELSE Append(acc, s), <<>>, raw)

\* os.path.realpath: as above, links followed on the way.
Realpath(raw) ==
    FoldLeft(LAMBDA acc, s : IF s = "." THEN acc ELSE
                             IF s = ".." THEN (IF acc = <<>> THEN acc ELSE Front(acc))
                             ELSE LET p == Append(acc, s) IN IF p \in DOMAIN Links THEN Links[p] ELSE p, <<>>, raw)

\* _validate, FileSystemPathValidator.validate.
Allowed(p) == \E r \in Roots : p = r \/ IsStrictPrefix(r, p)

Resolve(raw) == IF kind \in {"os", "legacy"} THEN Realpath(raw) ELSE Normalize(raw)

-----------------------------------------------------------------------------
(* What a provider's method does while the store below works: the error it *)
(* raises, the tree it leaves, for S3 the markers it leaves, and for JSON  *)
(* whether it calls _save.                                                 *)

Outcome(e, t, m) == [err |-> e, tree |-> t, markers |-> m, save |-> TRUE]
Fail(e) == Outcome(e, tree, markers)
Leave(t) == Outcome("ok", t, markers)

\* _ensure_parents over the nodes or rows above p.
ParentsError(S, create) ==
    IF \E q \in S : IsFile(tree[q]) THEN "NotADirectory" ELSE
    IF ~ create /\ \E q \in S : tree[q] = "none" THEN "NotFound" ELSE "ok"

\* Nodes in memory.
MemWrite(p, c) ==
    LET e == ParentsError(Above(p), TRUE) IN
    IF p = <<>> THEN Fail("IsADirectory") ELSE
    IF e # "ok" THEN Fail(e) ELSE
    IF tree[p] = "dir" THEN Fail("IsADirectory")
    ELSE Leave([T!WithDirs(tree, Above(p)) EXCEPT ![p] = c])

MemMkdir(p, recursive) ==
    LET e == ParentsError(IF recursive THEN Above(p) \cup {p} ELSE Above(p), recursive) IN
    IF p = <<>> THEN Leave(tree) ELSE
    IF e # "ok" THEN Fail(e) ELSE
    IF IsFile(tree[p]) THEN Fail("Exists")
    ELSE Leave(T!WithDirs(tree, Above(p) \cup {p}))

\* Of the root: FileStoragePermissionError is not imported there (a NameError).
MemRemove(p, recursive) ==
    IF p = <<>> THEN Fail("Uncaught") ELSE
    IF tree[p] = "none" THEN Fail("NotFound") ELSE
    IF Children(tree, p) # {} /\ ~ recursive THEN Fail("NotADirectory")
    ELSE Leave(T!Without(tree, p))

MemCopy(s, d) ==
    LET e == ParentsError(Above(d), TRUE) IN
    IF tree[s] = "none" THEN Fail("NotFound") ELSE
    IF d = <<>> THEN Fail("IsADirectory") ELSE
    IF e # "ok" THEN Fail(e)
    ELSE Leave(T!Graft(T!WithDirs(tree, Above(d)), s, d))

\* The source's parent is looked up again after the copy took its place.
MemMove(s, d) ==
    LET r == MemCopy(s, d) IN
    IF s = <<>> THEN Fail("Uncaught") ELSE
    IF r.err # "ok" THEN r ELSE
    IF r.tree[Front(s)] # "none" /\ r.tree[s] = "none" THEN Outcome("Uncaught", r.tree, markers)
    ELSE Leave(T!Without(r.tree, s))

\* Nodes in a JSON file: contents are text, the root is protected, and
\* remove_child of a child that is gone does nothing.
AsText(c) == IF c \in DOMAIN Replaced THEN Replaced[c] ELSE c
JsonWrite(p, c) == MemWrite(p, AsText(c))
JsonMkdir(p, recursive) ==
    [MemMkdir(p, recursive) EXCEPT !.save = p # <<>> /\ (recursive \/ tree[p] = "none")]
JsonRemove(p, recursive) == IF p = <<>> THEN Fail("Permission") ELSE MemRemove(p, recursive)
JsonCopy(s, d) == MemCopy(s, d)
JsonMove(s, d) ==
    LET r == MemCopy(s, d) IN
    IF s = <<>> THEN Fail("Permission") ELSE
    IF r.err # "ok" THEN r ELSE Leave(T!Without(r.tree, s))

\* Rows of a table: descendants are found with LIKE.
LikeBelow(p, q) ==
    /\ p # <<>> /\ Len(q) > Len(p)
    /\ \A i \in 1..Len(p) : p[i] = q[i] \/ <<p[i], q[i]>> \in Alike

SqliteWrite(p, c) == MemWrite(p, AsText(c))

\* Without recursive only the row of the parent is looked at.
SqliteMkdir(p, recursive) ==
    IF recursive \/ p = <<>> THEN MemMkdir(p, recursive) ELSE
    IF tree[Front(p)] = "none" THEN Fail("NotFound") ELSE
    IF tree[Front(p)] # "dir" THEN Fail("NotADirectory") ELSE
    IF IsFile(tree[p]) THEN Fail("Exists") ELSE Leave([tree EXCEPT ![p] = "dir"])

SqliteDelete(t, p) == [q \in Paths |-> IF q = p \/ LikeBelow(p, q) THEN "none" ELSE t[q]]

SqliteRemove(p, recursive) ==
    IF p = <<>> THEN Fail("Permission") ELSE
    IF tree[p] = "none" THEN Fail("NotFound") ELSE
    IF ~ recursive /\ tree[p] = "dir" /\ Children(tree, p) # {} THEN Fail("NotADirectory") ELSE
    IF recursive THEN Leave(SqliteDelete(tree, p)) ELSE Leave([tree EXCEPT ![p] = "none"])

\* Only the row of the destination is replaced, then the rows below are
\* copied one by one over what is there.
SqliteCopy(s, d) ==
    LET e == ParentsError(Above(d), TRUE)
        t == [T!WithDirs(tree, Above(d)) EXCEPT ![d] = tree[s]]
        rows == {q \in Paths : LikeBelow(s, q) /\ t[q] # "none" /\ tree[s] = "dir"}
        From(q) == {r \in rows : T!Rebase(r, s, d) = q}
    IN  IF d = <<>> THEN Fail("IsADirectory") ELSE
        IF tree[s] = "none" THEN Fail("NotFound") ELSE
        IF e # "ok" THEN Fail(e)
        ELSE Leave([q \in Paths |-> IF From(q) = {} THEN t[q] ELSE t[CHOOSE r \in From(q) : TRUE]])

SqliteMove(s, d) ==
    LET r == SqliteCopy(s, d) IN
    IF s = <<>> THEN Fail("Permission") ELSE
    IF r.err # "ok" THEN r ELSE Leave(SqliteDelete(r.tree, s))

\* Objects and markers of a bucket.
S3Keys(p) ==
    {<<"file", q>> : q \in {q \in Paths : IsStrictPrefix(p, q) /\ tree[q] # "none"}}
      \cup {<<"marker", q>> : q \in {q \in markers : IsPrefix(p, q)}}

S3Write(p, c) == IF p = <<>> THEN Fail("IsADirectory") ELSE Leave([tree EXCEPT ![p] = c])

S3Mkdir(p, recursive) == IF p = <<>> THEN Leave(tree) ELSE Outcome("ok", tree, markers \cup {p})

\* One answer of list_objects_v2 out of the entries E: the first n of them;
\* which these are is left open.
Listing(E, n) == CHOOSE S \in SUBSET E : Cardinality(S) = IF Cardinality(E) > n THEN n ELSE Cardinality(E)

S3Without(S) ==
    Outcome("ok", [q \in Paths |-> IF <<"file", q>> \in S THEN "none" ELSE tree[q]],
            {q \in markers : <<"marker", q>> \notin S})

S3Remove(p, recursive) ==
    LET listed == Listing(S3Keys(p), Page)
    IN  IF p = <<>> THEN Fail("NotFound") ELSE
        IF tree[p] # "none" THEN Leave([tree EXCEPT ![p] = "none"]) ELSE
        IF listed = {} THEN Fail("NotFound") ELSE
        IF ~ recursive /\ Cardinality(listed) > 1 THEN Fail("NotADirectory") ELSE
        IF ~ recursive /\ \E k \in listed : k[1] = "file" THEN Fail("NotADirectory")
        ELSE S3Without(listed)

S3Copy(s, d) ==
    IF s = <<>> THEN Fail("NotFound") ELSE
    IF d = <<>> THEN Fail("IsADirectory") ELSE
    IF tree[s] = "none" THEN Fail("NotFound") ELSE Leave([tree EXCEPT ![d] = tree[s]])

S3Move(s, d) ==
    LET r == S3Copy(s, d) IN
    IF r.err # "ok" THEN r ELSE Leave([r.tree EXCEPT ![s] = "none"])

\* Files of the operating system (p and d are resolved and checked first).
OsWrite(p, c) ==
    IF ~ Allowed(p) THEN Fail("Permission") ELSE
    IF tree[p] = "dir" THEN Fail("IsADirectory") ELSE
    IF tree[Front(p)] # "dir" THEN Fail("NotFound") ELSE Leave([tree EXCEPT ![p] = c])

\* os.makedirs
Makedirs(p) ==
    IF \E q \in Above(p) \cup {p} : IsFile(tree[q]) THEN Fail("Uncaught")
    ELSE Leave(T!WithDirs(tree, Above(p) \cup {p}))

OsMkdir(p, recursive) ==
    IF ~ Allowed(p) THEN Fail("Permission") ELSE
    IF recursive THEN Makedirs(p) ELSE
    IF tree[Front(p)] # "dir" THEN Fail("NotFound") ELSE
    IF tree[p] # "none" THEN Leave(tree) ELSE Leave([tree EXCEPT ![p] = "dir"])

\* Mutant: a root is removed like any directory.
OsRemoveAnything(p, recursive) ==
    IF ~ Allowed(p) THEN Fail("Permission") ELSE
    IF tree[p] = "none" THEN Fail("NotFound") ELSE Leave(T!Without(tree, p))

OsRemove(p, recursive) ==
    IF ~ Allowed(p) \/ p \in Roots THEN Fail("Permission") ELSE
    IF tree[p] = "none" THEN Fail("NotFound") ELSE
    IF tree[p] = "dir" /\ ~ recursive /\ Children(tree, p) # {} THEN Fail("Uncaught")
    ELSE Leave(T!Without(tree, p))

\* shutil.copytree makes missing parents, shutil.copy2 does not.
OsCopyTo(s, d) ==
    IF \E q \in Above(d) : IsFile(tree[q]) THEN Fail("Uncaught") ELSE
    IF IsFile(tree[s]) /\ tree[Front(d)] # "dir" THEN Fail("Uncaught")
    ELSE Leave(T!Graft(T!WithDirs(tree, Above(d)), s, d))

OsCopy(s, d) ==
    IF ~ Allowed(s) \/ ~ Allowed(d) THEN Fail("Permission") ELSE
    IF tree[s] = "none" THEN Fail("NotFound") ELSE OsCopyTo(s, d)

\* shutil.move renames, or copies and removes when it cannot.
OsMove(s, d) ==
    LET r == OsCopyTo(s, d) IN
    IF ~ Allowed(s) \/ ~ Allowed(d) \/ s \in Roots \/ d \in Roots THEN Fail("Permission") ELSE
    IF tree[s] = "none" THEN Fail("NotFound") ELSE
    IF r.err # "ok" THEN r ELSE Leave(T!Without(r.tree, s))

\* The router without a provider.
LegacyUpload(p, c) ==
    IF ~ Allowed(p) THEN Fail("Permission") ELSE
    IF tree[Front(p)] # "dir" THEN Fail("IsADirectory") ELSE  \* answered with 400
    IF tree[p] = "dir" THEN Fail("Uncaught") ELSE Leave([tree EXCEPT ![p] = c])

LegacyMkdir(p) == IF ~ Allowed(p) THEN Fail("Permission") ELSE Makedirs(p)

LegacyRemove(p) ==
    IF ~ Allowed(p) \/ p \in Roots THEN Fail("Permission") ELSE
    IF tree[p] = "none" THEN Fail("NotFound") ELSE Leave(T!Without(tree, p))

-----------------------------------------------------------------------------
(* Reading: what list, read_file and stat find at a path. *)

Found(e, x) == [err |-> e, value |-> x]

NodeList(p) ==
    IF tree[p] = "none" THEN Found("NotFound", {}) ELSE
    IF tree[p] # "dir" THEN Found("NotADirectory", {}) ELSE Found("ok", Children(tree, p))
NodeContent(p) ==
    IF tree[p] = "none" THEN Found("NotFound", "none") ELSE
    IF tree[p] = "dir" THEN Found("IsADirectory", "none") ELSE Found("ok", tree[p])
NodeStat(p) == IF tree[p] = "none" THEN Found("NotFound", "none") ELSE Found("ok", tree[p])

MemList(p) == NodeList(p)
MemContent(p) == NodeContent(p)
MemStat(p) == NodeStat(p)
JsonList(p) == NodeList(p)
JsonContent(p) == NodeContent(p)
JsonStat(p) == NodeStat(p)
SqliteList(p) == NodeList(p)
SqliteContent(p) == NodeContent(p)
SqliteStat(p) == NodeStat(p)
OsList(p) == IF ~ Allowed(p) THEN Found("Permission", {}) ELSE NodeList(p)
OsContent(p) == IF ~ Allowed(p) THEN Found("Permission", "none") ELSE NodeContent(p)
OsStat(p) == IF ~ Allowed(p) THEN Found("Permission", "none") ELSE NodeStat(p)
LegacyList(p) == OsList(p)
LegacyContent(p) == OsContent(p)
LegacyStat(p) == OsStat(p)

\* `bad' are the calls of the bucket that fail with anything but "no such
\* key": the HEAD of the object, that of the marker, the listing, the GET.
Calls == {"head", "marker", "list", "get"}

S3Stat(p, bad) ==
    IF p = <<>> THEN Found("ok", "dir") ELSE
    IF "head" \in bad THEN Found("Uncaught", "none") ELSE
    IF tree[p] # "none" THEN Found("ok", tree[p]) ELSE
    IF "marker" \in bad THEN Found("Uncaught", "none") ELSE
    IF p \in markers THEN Found("ok", "dir") ELSE
    IF "list" \in bad THEN Found("Uncaught", "none") ELSE
    IF S3Keys(p) # {} THEN Found("ok", "dir") ELSE Found("NotFound", "none")

\* The common prefixes and the objects of the level below, as far as one
\* answer goes; the directory's own marker is its first entry.
S3Level(p) ==
    {q \in Paths : /\ q # <<>> /\ Front(q) = p
                   /\ \/ tree[q] # "none"
                      \/ \E k \in S3Keys(p) : IsStrictPrefix(q, k[2]) \/ k = <<"marker", q>>}
S3List(p, bad) ==
    IF "list" \in bad THEN Found("Uncaught", {}) ELSE
    IF p = <<>> \/ S3Keys(p) # {}
    THEN Found("ok", Listing(S3Level(p), IF p \in markers THEN Page - 1 ELSE Page))
    ELSE Found(IF tree[p] # "none" /\ "head" \notin bad THEN "NotADirectory" ELSE "NotFound", {})

\* S3 knows no directory when it reads: there is no such key.
S3Content(p, bad) ==
    IF p = <<>> THEN Found("IsADirectory", "none") ELSE
    IF "get" \in bad THEN Found("Uncaught", "none") ELSE
    IF tree[p] = "none" THEN Found("NotFound", "none") ELSE Found("ok", tree[p])

\* Mutant: directories without a marker are not looked for.
S3ExistsByKey(p, bad) == Found("ok", p = <<>> \/ tree[p] # "none" \/ p \in markers)

\* exists: a file, a marker, or any object with the prefix; a HEAD that fails
\* counts as no answer, and so the next thing is asked.
S3Exists(p, bad) ==
    IF \/ p = <<>>
       \/ tree[p] # "none" /\ "head" \notin bad
       \/ p \in markers /\ "marker" \notin bad
    THEN Found("ok", TRUE) ELSE
    IF "list" \in bad THEN Found("Uncaught", FALSE) ELSE Found("ok", S3Keys(p) # {})

OsExists(p) == IF ~ Allowed(p) THEN Found("Permission", FALSE) ELSE Found("ok", tree[p] # "none")

\* No route asks exists; the provider's own callers do.
Exists(p, bad) ==
    IF kind = "s3" THEN S3Exists(p, bad) ELSE
    IF kind \in {"os", "legacy"} THEN OsExists(p) ELSE Found("ok", tree[p] # "none")

List(p, bad) ==
    IF kind = "memory" THEN MemList(p) ELSE IF kind = "json" THEN JsonList(p) ELSE
    IF kind = "sqlite" THEN SqliteList(p) ELSE IF kind = "s3" THEN S3List(p, bad) ELSE
    IF kind = "os" THEN OsList(p) ELSE LegacyList(p)
Content(p, bad) ==
    IF kind = "memory" THEN MemContent(p) ELSE IF kind = "json" THEN JsonContent(p) ELSE
    IF kind = "sqlite" THEN SqliteContent(p) ELSE IF kind = "s3" THEN S3Content(p, bad) ELSE
    IF kind = "os" THEN OsContent(p) ELSE LegacyContent(p)
Stat(p, bad) ==
    IF kind = "memory" THEN MemStat(p) ELSE IF kind = "json" THEN JsonStat(p) ELSE
    IF kind = "sqlite" THEN SqliteStat(p) ELSE
    IF kind = "s3" THEN S3Stat(p, bad) ELSE
    IF kind = "os" THEN OsStat(p) ELSE LegacyStat(p)

-----------------------------------------------------------------------------
(* Requests *)

WriteFile(p, c) ==
    IF kind = "memory" THEN MemWrite(p, c) ELSE
    IF kind = "json" THEN JsonWrite(p, c) ELSE
    IF kind = "sqlite" THEN SqliteWrite(p, c) ELSE
    IF kind = "s3" THEN S3Write(p, c) ELSE
    IF kind = "os" THEN OsWrite(p, c) ELSE LegacyUpload(p, c)

Mkdir(p, recursive) ==
    IF kind = "memory" THEN MemMkdir(p, recursive) ELSE
    IF kind = "json" THEN JsonMkdir(p, recursive) ELSE
    IF kind = "sqlite" THEN SqliteMkdir(p, recursive) ELSE
    IF kind = "s3" THEN S3Mkdir(p, recursive) ELSE
    IF kind = "os" THEN OsMkdir(p, recursive) ELSE LegacyMkdir(p)

Delete(p, recursive) ==
    IF kind = "memory" THEN MemRemove(p, recursive) ELSE
    IF kind = "json" THEN JsonRemove(p, recursive) ELSE
    IF kind = "sqlite" THEN SqliteRemove(p, recursive) ELSE
    IF kind = "s3" THEN S3Remove(p, recursive) ELSE
    IF kind = "os" THEN OsRemove(p, recursive) ELSE LegacyRemove(p)

CopyFile(s, d) ==
    IF kind = "memory" THEN MemCopy(s, d) ELSE
    IF kind = "json" THEN JsonCopy(s, d) ELSE
    IF kind = "sqlite" THEN SqliteCopy(s, d) ELSE
    IF kind = "s3" THEN S3Copy(s, d) ELSE OsCopy(s, d)

MoveFile(s, d) ==
    IF kind = "memory" THEN MemMove(s, d) ELSE
    IF kind = "json" THEN JsonMove(s, d) ELSE
    IF kind = "sqlite" THEN SqliteMove(s, d) ELSE
    IF kind = "s3" THEN S3Move(s, d) ELSE OsMove(s, d)

\* _map_provider_error, and the errors each route catches: any other one is
\* the framework's 500.
Mapped(e) ==
    IF e = "NotFound" THEN "404" ELSE IF e = "Permission" THEN "403" ELSE
    IF e \in {"NotADirectory", "IsADirectory"} THEN "400" ELSE IF e = "Exists" THEN "409" ELSE "500"
Caught(op) ==
    {"NotFound", "Permission"} \cup
    (IF op = "upload" THEN {"IsADirectory"} ELSE IF op = "mkdir" THEN {"Exists"} ELSE {})
ReadCaught(op) ==
    {"NotFound", "Permission"} \cup
    (IF op = "ls" THEN {"NotADirectory"} ELSE IF op = "cat" THEN {"IsADirectory"} ELSE {})
Status(via, op, e) ==
    IF e = "ok" THEN "200" ELSE
    IF via = "mcp" THEN "isError" ELSE IF via = "host" THEN "raised" ELSE
    IF e \in Caught(op) THEN Mapped(e) ELSE "500"

\* The provider's method, the JSON file's save, and the wrapper's event.  The
\* router without a provider sends no event, and is held to the rest of the
\* contract: its `event' is what it acknowledges.
Answer(via, op, r) ==
    /\ tree' = r.tree /\ markers' = r.markers
    /\ disk' = IF kind = "json" /\ r.err = "ok" /\ r.save THEN r.tree ELSE disk
    /\ reply' = [op |-> op, status |-> Status(via, op, r.err), event |-> IF r.err = "ok" THEN op ELSE "none"]
    /\ UNCHANGED <<kind, up>>

\* The trees part way from t to u: a directory is there before what is in it
\* and goes after it, and one file may be cut short.
PartWay(t, u) ==
    LET new == {q \in Paths : t[q] # u[q]}
        mixed == {[q \in Paths |-> IF q \in S THEN u[q] ELSE t[q]] : S \in SUBSET new}
        short == UNION {{[v EXCEPT ![f] = Cut] : v \in mixed} : f \in {q \in new : IsFile(u[q])}}
    IN  {v \in mixed \cup short : \A q \in Paths : v[q] # "none" => \A a \in Above(q) : v[a] = "dir"}

\* How far a request that ends in r, and is at `midway' on the way there, may
\* have come when it is broken off.  In memory nothing breaks off.
Stages(r, midway) ==
    IF kind = "memory" \/ r.err # "ok" \/ ~ r.save THEN {} ELSE
    IF kind = "json" THEN {r} ELSE {Leave(tree), r} \cup midway

\* write_file and copy: SQLite commits the parents first.
FileStages(r, p) ==
    Stages(r, IF kind = "sqlite" THEN {Leave(T!WithDirs(tree, Above(p)))} ELSE
              IF kind \in {"os", "legacy"} THEN {Leave(t) : t \in PartWay(tree, r.tree)} ELSE {})

MkdirStages(r) ==
    Stages(r, IF kind \in {"os", "legacy"} THEN {Leave(t) : t \in PartWay(tree, r.tree)} ELSE {})

RemoveStages(r, p) ==
    Stages(r, IF kind = "s3" THEN {S3Without(S) : S \in SUBSET S3Keys(p)} ELSE
              IF kind \in {"os", "legacy"} THEN {Leave(t) : t \in PartWay(tree, r.tree)} ELSE {})

\* Mutant: the source goes before the copy is there.
MoveStagesAtOnce(r, s, d) == Stages(r, {Leave([q \in Paths |-> IF IsPrefix(s, q) THEN "none" ELSE tree[q]])})

\* A copy, a commit or call of its own where it is one, and then the removal.
MoveStages(r, s, d) ==
    Stages(r, IF kind = "sqlite" THEN {Leave(T!WithDirs(tree, Above(d))), SqliteCopy(s, d)} ELSE
              IF kind = "s3" THEN {S3Copy(s, d)} ELSE
              IF kind = "os" THEN {Leave(t) : t \in PartWay(tree, OsCopyTo(s, d).tree)
                                                  \cup PartWay(OsCopyTo(s, d).tree, r.tree)} ELSE {})

\* The store below raises, or the process dies, at stage o: no event, and an
\* error or no answer at all.  JSON's _save comes after the change of the
\* nodes; open() empties the file before json.dump fills it.  _is_file takes
\* every error of S3 for "no such file", so rm may answer 404.
Breaks(via, op, o) ==
    /\ kind = "json" => disk = tree \/ FailAgain
    /\ tree' = o.tree /\ markers' = o.markers
    /\ disk' \in IF kind = "json" THEN {disk, o.tree, T!Lost} ELSE {disk}
    /\ \E e \in {"Uncaught"} \cup (IF kind = "s3" /\ op = "delete" THEN {"NotFound"} ELSE {}) :
          reply' = [op |-> op, status |-> Status(via, op, e), event |-> "none"]
    /\ UNCHANGED <<kind, up>>

Carry(via, op, r, stages) ==
    \/ Answer(via, op, r)
    \/ \E o \in stages : Breaks(via, op, o)

\* Environment: the S3 provider lets a path be a file and a directory at once;
\* its clients are taken to keep the two apart.
S3Apart(p, dir) ==
    kind = "s3" => /\ \A q \in Above(p) \ {<<>>} : ~ IsFile(View[q])
                   /\ IF dir THEN ~ IsFile(View[p]) ELSE View[p] # "dir"

\* POST /upload (an oversize file is refused while it is read) and fs_write.
Upload(raw, c, via) ==
    LET p == Resolve(raw) IN
    /\ up /\ p \in Paths /\ S3Apart(p, FALSE)
    /\ via = "mcp" => kind # "legacy" /\ c \notin DOMAIN Replaced
    /\ IF via = "rest" /\ c \in Oversize
       THEN /\ reply' = [op |-> "upload", status |-> "413", event |-> "none"]
            /\ UNCHANGED <<kind, tree, markers, disk, up>>
       ELSE Carry(via, IF via = "rest" THEN "upload" ELSE "write", WriteFile(p, c), FileStages(WriteFile(p, c), p))

\* POST /mkdir and fs_mkdir.
MakeDirectory(raw, recursive, via) ==
    LET p == Resolve(raw) IN
    /\ up /\ p \in Paths /\ S3Apart(p, TRUE)
    /\ via = "mcp" => kind # "legacy" /\ recursive
    /\ Carry(via, "mkdir", Mkdir(p, recursive), MkdirStages(Mkdir(p, recursive)))

\* DELETE /rm and fs_delete.
RemovePath(raw, recursive, via) ==
    LET p == Resolve(raw) IN
    /\ up /\ p \in Paths
    /\ via = "mcp" => kind # "legacy"
    /\ kind = "s3" /\ WholeBatches => Cardinality(S3Keys(p)) <= Page
    /\ \/ Carry(via, "delete", Delete(p, recursive), RemoveStages(Delete(p, recursive), p))
       \/ /\ kind = "s3" /\ ~ WholeBatches /\ Delete(p, recursive).err = "ok"
          /\ \E S \in SUBSET S3Keys(p) : Answer(via, "delete", S3Without(S))

\* The host's copies and moves: no route and no tool makes one.
MayCopy(s, d) ==
    /\ up /\ {s, d} \subseteq Paths /\ kind # "legacy" /\ S3Apart(d, FALSE)
    /\ FreeOnly => View[d] = "none" /\ ~ IsPrefix(s, d)
    /\ \A q \in T!Below(s) : View[q] # "none" => T!Rebase(q, s, d) \in Paths  \* stays in the bound
Copy(s, d) ==
    LET p == Resolve(s)  q == Resolve(d) IN
    MayCopy(p, q) /\ Carry("host", "copy", CopyFile(p, q), FileStages(CopyFile(p, q), q))
Move(s, d) ==
    LET p == Resolve(s)  q == Resolve(d) IN
    MayCopy(p, q) /\ Carry("host", "move", MoveFile(p, q), MoveStages(MoveFile(p, q), p, q))

\* The process ends and is started again.  _load fails on a JSON file that was
\* cut short, and then nothing is served.
Restart ==
    /\ up
    /\ tree' = IF kind \in {"memory", "json"} THEN disk ELSE tree
    /\ up' = (tree' # T!Lost)
    /\ reply' = [op |-> "none", status |-> "none", event |-> "none"]
    /\ UNCHANGED <<kind, markers, disk>>

\* A store is new; the operating system's has the allowed roots, what the
\* links point to, and the directories above.
Init ==
    /\ kind \in Kinds /\ up = TRUE /\ markers = {}
    /\ tree = IF kind = "s3" THEN [p \in Paths |-> "none"] ELSE
              IF kind \in {"os", "legacy"}
              THEN T!WithDirs(T!Empty, UNION {Above(p) \cup {p} : p \in Roots \cup {Links[l] : l \in DOMAIN Links}})
              ELSE T!Empty
    /\ disk = T!Empty
    /\ reply = [op |-> "none", status |-> "none", event |-> "none"]

Next ==
    \/ \E raw \in RawPaths, via \in {"rest", "mcp"} :
          \/ \E c \in Contents : Upload(raw, c, via)
          \/ \E recursive \in BOOLEAN : MakeDirectory(raw, recursive, via) \/ RemovePath(raw, recursive, via)
    \/ \E s, d \in Paths : Copy(s, d) \/ Move(s, d)
    \/ Restart

Spec == Init /\ [][Next]_vars

-----------------------------------------------------------------------------
(* Properties *)

\* Every provider with the wrapper around it keeps the promises of FileTree:
\* a request that succeeds does to the tree what its name says and nothing
\* else, announces it, and a restart serves it; one that is refused changes
\* nothing; one that a failing store or the end of the process breaks off is
\* not announced, and if it is a move every file is still at its place or at
\* the new one (move: copy, then remove).
ImplementsTree == T!Spec

\* exists, stat, list and read tell the truth about what is where, also for
\* S3, which finds out in a different way for each of them, and whatever
\* calls of the bucket fail meanwhile.  Two errors are swallowed: while the
\* HEAD of a file fails, exists denies it and list does not find it.  A
\* listing is whole when the level fits one answer.  While nothing fails, the
\* reading routes answer with a status of their own, not the framework's 500.
ReadsAgree ==
    \A p \in Paths, bad \in IF kind = "s3" THEN SUBSET Calls ELSE {{}} :
        LET e == Exists(p, bad)  s == Stat(p, bad)  l == List(p, bad)  c == Content(p, bad)
            seen == ~ (kind \in {"os", "legacy"}) \/ Allowed(p)
            hidden == IsFile(View[p]) /\ "head" \in bad
        IN  up =>
            /\ \A r \in {e.err, s.err, l.err, c.err} : r = "Permission" <=> ~ seen
            /\ e.err = "ok" => IF e.value THEN View[p] # "none" ELSE View[p] = "none" \/ hidden
            /\ s.err = "ok" => View[p] # "none" /\ s.value = View[p]
            /\ s.err = "NotFound" => View[p] = "none"
            /\ l.err = "ok" => /\ View[p] = "dir" /\ l.value \subseteq Children(View, p)
                               /\ Cardinality(Children(View, p)) < Page => l.value = Children(View, p)
            /\ l.err = "NotADirectory" => IsFile(View[p])
            /\ l.err = "NotFound" => View[p] = "none" \/ hidden
            /\ c.err = "ok" => IsFile(View[p]) /\ c.value = View[p]
            /\ c.err = "IsADirectory" => View[p] = "dir"
            /\ c.err = "NotFound" => ~ IsFile(View[p])
            /\ bad = {} => /\ e.err \in {"ok", "Permission"}
                           /\ s.err \in ReadCaught("stat") \cup {"ok"}
                           /\ l.err \in ReadCaught("ls") \cup {"ok"}
                           /\ c.err \in ReadCaught("cat") \cup {"ok"}

\* Nothing outside the allowed roots changes and no root disappears,
\* whatever "..", link or root a request names (_validate,
\* _ensure_not_root, _safe_validate).
ConfinedToRoots ==
    [][(kind \in {"os", "legacy"}) =>
         \A p \in Paths : (~ Allowed(p) \/ p \in Roots) => tree'[p] = tree[p]]_vars

\* "Delete the entry and all descendants (path starts with norm/)"
\* (SqliteFileStorageProvider.remove, and move): rows of a path that does not
\* start with the removed one stay.
RemovesOnlyBelow ==
    [][kind = "sqlite" /\ reply'.event = "delete" =>
         \E p \in Paths : \A q \in Paths : tree'[q] # tree[q] => IsPrefix(p, q) /\ tree[p] # "none"
                                                                   /\ tree'[p] = "none"]_vars

\* "Batch delete all objects under the prefix" (S3FileStorageProvider.remove):
\* once rm succeeded nothing is left at its path.
RemovesAll ==
    [][\A raw \in RawPaths : RemovePath(raw, TRUE, "rest") /\ reply'.status = "200" =>
         View'[Resolve(raw)] = "none"]_vars

=============================================================================
