------------------------- MODULE FileProvidersProofs -------------------------
(***************************************************************************)
(* Theorems about FileProviders, for every set of paths and contents.      *)
(***************************************************************************)
EXTENDS FileProviders, SequenceTheorems, FunctionTheorems, FiniteSetTheorems, TLAPS

Nodes == {"none", "dir"} \cup Stored
Trees == [Paths -> Nodes]

\* The state without the last reply.
Types ==
    /\ kind \in Kinds /\ up \in BOOLEAN
    /\ tree \in Trees /\ disk \in Trees /\ markers \subseteq Paths

\* What a provider's method leaves is a tree.
Sane(r) == r.tree \in Trees /\ r.markers \subseteq Paths

LEMMA SaneFail == ASSUME NEW e, Types PROVE Sane(Fail(e))
BY DEF Types, Sane, Fail, Outcome

LEMMA SaneLeave == ASSUME NEW t \in Trees, Types PROVE Sane(Leave(t))
BY DEF Types, Sane, Leave, Outcome

LEMMA WithDirsType == ASSUME NEW t \in Trees, NEW S PROVE T!WithDirs(t, S) \in Trees
BY DEF Trees, Nodes, T!WithDirs

LEMMA WithoutType == ASSUME NEW t \in Trees, NEW p PROVE T!Without(t, p) \in Trees
BY DEF Trees, Nodes, T!Without

LEMMA GraftType == ASSUME NEW t \in Trees, NEW s, NEW d PROVE T!Graft(t, s, d) \in Trees
BY DEF Trees, Nodes, T!Graft

LEMMA EmptyType == T!Empty \in Trees
BY DEF Trees, Nodes, T!Empty

LEMMA LostType == T!Lost \in Trees
BY DEF Trees, Nodes, T!Lost

LEMMA SetType == ASSUME NEW t \in Trees, NEW p \in Paths, NEW n \in Nodes
                 PROVE [t EXCEPT ![p] = n] \in Trees
BY DEF Trees

LEMMA StoredText == ASSUME NEW c \in Contents PROVE c \in Nodes /\ AsText(c) \in Nodes
BY DEF AsText, Nodes, Stored

LEMMA SaneMemWrite == ASSUME NEW p \in Paths, NEW c \in Nodes, Types PROVE Sane(MemWrite(p, c))
<1> tree \in Trees
    BY DEF Types
<1>1. [T!WithDirs(tree, Above(p)) EXCEPT ![p] = c] \in Trees
    BY WithDirsType, SetType
<1> QED
    BY <1>1, SaneFail, SaneLeave DEF MemWrite

LEMMA SaneMemMkdir == ASSUME NEW p \in Paths, NEW b \in BOOLEAN, Types PROVE Sane(MemMkdir(p, b))
<1> tree \in Trees
    BY DEF Types
<1> QED
    BY WithDirsType, SaneFail, SaneLeave DEF MemMkdir

LEMMA SaneMemRemove == ASSUME NEW p \in Paths, NEW b \in BOOLEAN, Types PROVE Sane(MemRemove(p, b))
<1> tree \in Trees
    BY DEF Types
<1> QED
    BY WithoutType, SaneFail, SaneLeave DEF MemRemove

LEMMA SaneMemCopy == ASSUME NEW s \in Paths, NEW d \in Paths, Types PROVE Sane(MemCopy(s, d))
<1> tree \in Trees
    BY DEF Types
<1>1. T!Graft(T!WithDirs(tree, Above(d)), s, d) \in Trees
    BY WithDirsType, GraftType
<1> QED
    BY <1>1, SaneFail, SaneLeave DEF MemCopy

LEMMA SaneWrite == ASSUME NEW p \in Paths, NEW c \in Contents, Types PROVE Sane(WriteFile(p, c))
<1> tree \in Trees
    BY DEF Types
<1> c \in Nodes /\ AsText(c) \in Nodes
    BY StoredText
<1>1. Sane(MemWrite(p, c)) /\ Sane(JsonWrite(p, c)) /\ Sane(SqliteWrite(p, c))
    BY SaneMemWrite DEF JsonWrite, SqliteWrite
<1>2. Sane(S3Write(p, c)) /\ Sane(OsWrite(p, c)) /\ Sane(LegacyUpload(p, c))
    BY SetType, SaneFail, SaneLeave DEF S3Write, OsWrite, LegacyUpload
<1> QED
    BY <1>1, <1>2 DEF WriteFile

LEMMA SaneMkdir == ASSUME NEW p \in Paths, NEW b \in BOOLEAN, Types PROVE Sane(Mkdir(p, b))
<1> tree \in Trees /\ "dir" \in Nodes
    BY DEF Types, Nodes
<1>1. Sane(MemMkdir(p, b)) /\ Sane(JsonMkdir(p, b)) /\ Sane(SqliteMkdir(p, b))
    <2>1. Sane(MemMkdir(p, b))
        BY SaneMemMkdir
    <2>2. JsonMkdir(p, b).tree = MemMkdir(p, b).tree /\ JsonMkdir(p, b).markers = MemMkdir(p, b).markers
        BY DEF JsonMkdir, MemMkdir, Leave, Fail, Outcome
    <2>3. Sane(SqliteMkdir(p, b))
        BY <2>1, SetType, SaneFail, SaneLeave DEF SqliteMkdir
    <2> QED
        BY <2>1, <2>2, <2>3 DEF Sane
<1>2. Sane(S3Mkdir(p, b))
    BY SaneLeave DEF S3Mkdir, Sane, Outcome, Types
<1>3. Sane(Makedirs(p))
    BY WithDirsType, SaneFail, SaneLeave DEF Makedirs
<1>4. Sane(OsMkdir(p, b)) /\ Sane(LegacyMkdir(p))
    BY <1>3, SetType, SaneFail, SaneLeave DEF OsMkdir, LegacyMkdir
<1> QED
    BY <1>1, <1>2, <1>4 DEF Mkdir

LEMMA SaneWithout == ASSUME NEW S, Types PROVE Sane(S3Without(S))
BY DEF S3Without, Sane, Outcome, Types, Trees, Nodes

LEMMA SaneDelete == ASSUME NEW p \in Paths, NEW b \in BOOLEAN, Types PROVE Sane(Delete(p, b))
<1> tree \in Trees /\ "none" \in Nodes
    BY DEF Types, Nodes
<1>1. Sane(MemRemove(p, b)) /\ Sane(JsonRemove(p, b))
    BY SaneMemRemove, SaneFail DEF JsonRemove
<1>2. Sane(SqliteRemove(p, b))
    <2>1. SqliteDelete(tree, p) \in Trees
        BY DEF SqliteDelete, Trees, Nodes
    <2> QED
        BY <2>1, SetType, SaneFail, SaneLeave DEF SqliteRemove
<1>3. Sane(S3Remove(p, b))
    BY SaneWithout, SetType, SaneFail, SaneLeave DEF S3Remove
<1>4. Sane(OsRemove(p, b)) /\ Sane(LegacyRemove(p))
    BY WithoutType, SaneFail, SaneLeave DEF OsRemove, LegacyRemove
<1> QED
    BY <1>1, <1>2, <1>3, <1>4 DEF Delete

LEMMA SaneSqliteCopy == ASSUME NEW s \in Paths, NEW d \in Paths, Types PROVE Sane(SqliteCopy(s, d))
<1> DEFINE t == [T!WithDirs(tree, Above(d)) EXCEPT ![d] = tree[s]]
           rows == {q \in Paths : LikeBelow(s, q) /\ t[q] # "none" /\ tree[s] = "dir"}
           From(q) == {r \in rows : T!Rebase(r, s, d) = q}
           u == [q \in Paths |-> IF From(q) = {} THEN t[q] ELSE t[CHOOSE r \in From(q) : TRUE]]
<1>1. t \in Trees
    BY WithDirsType DEF Types, Trees
<1>2. \A q \in Paths : From(q) # {} => (CHOOSE r \in From(q) : TRUE) \in Paths
    OBVIOUS
<1>3. u \in Trees
    <2> HIDE DEF t, From
    <2> QED
        BY <1>1, <1>2 DEF Trees
<1>4. Sane(Leave(u))
    BY <1>3, SaneLeave
<1>5. \/ \E e : SqliteCopy(s, d) = Fail(e)
      \/ SqliteCopy(s, d) = Leave(u)
    BY DEF SqliteCopy
<1> QED
    BY <1>4, <1>5, SaneFail

LEMMA SaneCopy == ASSUME NEW s \in Paths, NEW d \in Paths, Types PROVE Sane(CopyFile(s, d)) /\ Sane(OsCopyTo(s, d))
<1> tree \in Trees
    BY DEF Types
<1>1. Sane(MemCopy(s, d)) /\ Sane(JsonCopy(s, d)) /\ Sane(SqliteCopy(s, d))
    BY SaneMemCopy, SaneSqliteCopy DEF JsonCopy
<1>2. Sane(S3Copy(s, d))
    <2>1. tree[s] \in Nodes
        BY DEF Trees
    <2> QED
        BY <2>1, SetType, SaneFail, SaneLeave DEF S3Copy
<1>3. Sane(OsCopyTo(s, d))
    <2>1. T!Graft(T!WithDirs(tree, Above(d)), s, d) \in Trees
        BY WithDirsType, GraftType
    <2> QED
        BY <2>1, SaneFail, SaneLeave DEF OsCopyTo
<1>4. Sane(OsCopy(s, d))
    BY <1>3, SaneFail DEF OsCopy
<1> QED
    BY <1>1, <1>2, <1>3, <1>4 DEF CopyFile

LEMMA SaneMove == ASSUME NEW s \in Paths, NEW d \in Paths, Types PROVE Sane(MoveFile(s, d))
<1> tree \in Trees /\ "none" \in Nodes
    BY DEF Types, Nodes
<1>1. ASSUME NEW r, Sane(r) PROVE r.tree \in Trees /\ Sane(Leave(T!Without(r.tree, s))) /\ r.markers \subseteq Paths
    BY <1>1, WithoutType, SaneLeave DEF Sane
<1>2. Sane(MemCopy(s, d)) /\ Sane(SqliteCopy(s, d)) /\ Sane(OsCopyTo(s, d))
    BY SaneMemCopy, SaneSqliteCopy, SaneCopy
<1>3. kind = "memory" => Sane(MemMove(s, d))
    <2>1. kind = "memory" => Sane(Outcome("Uncaught", MemCopy(s, d).tree, markers))
        BY <1>2 DEF Sane, Outcome, Types
    <2> QED
        BY <1>1, <1>2, <2>1, SaneFail DEF MemMove
<1>4. Sane(JsonMove(s, d))
    BY <1>1, <1>2, SaneFail DEF JsonMove
<1>5. Sane(SqliteMove(s, d))
    <2>1. ASSUME NEW t \in Trees PROVE SqliteDelete(t, s) \in Trees
        BY DEF SqliteDelete, Trees, Nodes
    <2>2. Sane(Leave(SqliteDelete(SqliteCopy(s, d).tree, s)))
        BY <1>1, <1>2, <2>1, SaneLeave
    <2> QED
        BY <1>2, <2>2, SaneFail DEF SqliteMove
<1>6. Sane(S3Move(s, d))
    <2>1. Sane(S3Copy(s, d))
        <3>1. tree[s] \in Nodes
            BY DEF Trees
        <3> QED
            BY <3>1, SetType, SaneFail, SaneLeave DEF S3Copy
    <2>2. Sane(Leave([S3Copy(s, d).tree EXCEPT ![s] = "none"]))
        BY <1>1, <2>1, SetType, SaneLeave
    <2> QED
        BY <2>1, <2>2 DEF S3Move
<1>7. Sane(OsMove(s, d))
    BY <1>1, <1>2, SaneFail DEF OsMove
<1> QED
    BY <1>3, <1>4, <1>5, <1>6, <1>7 DEF MoveFile

-----------------------------------------------------------------------------
(* The steps, without what they reply. *)

Answered(r) ==
    /\ tree' = r.tree /\ markers' = r.markers
    /\ disk' = IF kind = "json" /\ r.err = "ok" /\ r.save THEN r.tree ELSE disk
    /\ UNCHANGED <<kind, up>>

Broken(stages) ==
    \E o \in stages :
        /\ tree' = o.tree /\ markers' = o.markers
        /\ disk' \in IF kind = "json" THEN {disk, o.tree, T!Lost} ELSE {disk}
        /\ UNCHANGED <<kind, up>>

Carried(r, stages) == Answered(r) \/ Broken(stages)

Fits(p) == kind = "s3" /\ WholeBatches => Cardinality(S3Keys(p)) <= Page

Uploaded ==
    \E p \in Paths, c \in Contents : S3Apart(p, FALSE) /\ Carried(WriteFile(p, c), FileStages(WriteFile(p, c), p))
Made == \E p \in Paths, b \in BOOLEAN : S3Apart(p, TRUE) /\ Carried(Mkdir(p, b), MkdirStages(Mkdir(p, b)))
Removed == \E p \in Paths, b \in BOOLEAN : Fits(p) /\ Carried(Delete(p, b), RemoveStages(Delete(p, b), p))
RemovedSome == kind = "s3" /\ ~ WholeBatches /\ \E S : Answered(S3Without(S))
Copied == \E s, d \in Paths : MayCopy(s, d) /\ Carried(CopyFile(s, d), FileStages(CopyFile(s, d), d))
Moved == \E s, d \in Paths : MayCopy(s, d) /\ Carried(MoveFile(s, d), MoveStages(MoveFile(s, d), s, d))
Nothing == UNCHANGED <<kind, tree, markers, disk, up>>

LEMMA CarryCarried ==
    ASSUME NEW via, NEW op, NEW r, NEW stages, Carry(via, op, r, stages)
    PROVE Carried(r, stages)
<1>1. CASE Answer(via, op, r)
    BY <1>1 DEF Answer, Answered, Carried
<1>2. ASSUME NEW o \in stages, Breaks(via, op, o)
      PROVE Carried(r, stages)
    BY <1>2 DEF Breaks, Broken, Carried
<1> QED
    BY <1>1, <1>2 DEF Carry

\* Next as these steps: a client's path is any of Paths once it is resolved.
LEMMA StepKinds ==
    Next => Uploaded \/ Made \/ Removed \/ RemovedSome \/ Copied \/ Moved \/ Nothing \/ Restart
<1> SUFFICES ASSUME Next
             PROVE Uploaded \/ Made \/ Removed \/ RemovedSome \/ Copied \/ Moved \/ Nothing \/ Restart
    OBVIOUS
<1>1. ASSUME NEW raw \in RawPaths, NEW via \in {"rest", "mcp"}, NEW c \in Contents, Upload(raw, c, via)
      PROVE Uploaded \/ Nothing
    <2> DEFINE p == Resolve(raw)
    <2>1. p \in Paths /\ S3Apart(p, FALSE)
        BY <1>1 DEF Upload
    <2>2. Carried(WriteFile(p, c), FileStages(WriteFile(p, c), p)) \/ Nothing
        <3>1. CASE via = "rest" /\ c \in Oversize
            BY <1>1, <3>1 DEF Upload, Nothing
        <3>2. CASE ~ (via = "rest" /\ c \in Oversize)
            BY <1>1, <3>2, CarryCarried DEF Upload
        <3> QED
            BY <3>1, <3>2
    <2> HIDE DEF p
    <2> QED
        BY <2>1, <2>2 DEF Uploaded
<1>2. ASSUME NEW raw \in RawPaths, NEW via \in {"rest", "mcp"}, NEW b \in BOOLEAN, MakeDirectory(raw, b, via)
      PROVE Made
    <2> DEFINE p == Resolve(raw)
    <2>1. p \in Paths /\ S3Apart(p, TRUE) /\ Carried(Mkdir(p, b), MkdirStages(Mkdir(p, b)))
        BY <1>2, CarryCarried DEF MakeDirectory
    <2> HIDE DEF p
    <2> QED
        BY <2>1 DEF Made
<1>3. ASSUME NEW raw \in RawPaths, NEW via \in {"rest", "mcp"}, NEW b \in BOOLEAN, RemovePath(raw, b, via)
      PROVE Removed \/ RemovedSome
    <2> DEFINE p == Resolve(raw)
    <2>1. p \in Paths /\ Fits(p)
        BY <1>3 DEF RemovePath, Fits
    <2>2. Carried(Delete(p, b), RemoveStages(Delete(p, b), p)) \/ RemovedSome
        <3>1. CASE Carry(via, "delete", Delete(p, b), RemoveStages(Delete(p, b), p))
            BY <3>1, CarryCarried
        <3>2. ASSUME kind = "s3", ~ WholeBatches, NEW S \in SUBSET S3Keys(p), Answer(via, "delete", S3Without(S))
              PROVE RemovedSome
            BY <3>2 DEF RemovedSome, Answer, Answered
        <3> QED
            BY <1>3, <3>1, <3>2 DEF RemovePath
    <2> HIDE DEF p
    <2> QED
        BY <2>1, <2>2 DEF Removed
<1>4. ASSUME NEW s \in Paths, NEW d \in Paths, Copy(s, d) \/ Move(s, d)
      PROVE Copied \/ Moved
    <2> DEFINE a == Resolve(s)
               b == Resolve(d)
    <2>1. a \in Paths /\ b \in Paths /\ MayCopy(a, b)
        BY <1>4 DEF Copy, Move, MayCopy
    <2>2. \/ Carried(CopyFile(a, b), FileStages(CopyFile(a, b), b))
          \/ Carried(MoveFile(a, b), MoveStages(MoveFile(a, b), a, b))
        BY <1>4, CarryCarried DEF Copy, Move
    <2> HIDE DEF a, b
    <2> QED
        BY <2>1, <2>2 DEF Copied, Moved
<1> QED
    BY <1>1, <1>2, <1>3, <1>4 DEF Next

\* What a request that is broken off may leave.
LEMMA PartWayMeans ==
    ASSUME NEW t \in Trees, NEW u \in Trees, NEW v \in PartWay(t, u)
    PROVE /\ v \in Trees
          /\ \A q \in Paths : \/ v[q] = t[q] \/ v[q] = u[q]
                              \/ v[q] = Cut /\ IsFile(u[q]) /\ t[q] # u[q]
          /\ \A q \in Paths : v[q] # "none" => \A a \in Above(q) : v[a] = "dir"
<1> DEFINE new == {q \in Paths : t[q] # u[q]}
           mixed == {[q \in Paths |-> IF q \in S THEN u[q] ELSE t[q]] : S \in SUBSET new}
           short == UNION {{[w EXCEPT ![f] = Cut] : w \in mixed} : f \in {q \in new : IsFile(u[q])}}
<1>1. v \in mixed \cup short /\ \A q \in Paths : v[q] # "none" => \A a \in Above(q) : v[a] = "dir"
    <2> DEFINE Whole(w) == \A q \in Paths : w[q] # "none" => \A a \in Above(q) : w[a] = "dir"
    <2>1. PartWay(t, u) = {w \in mixed \cup short : Whole(w)}
        BY DEF PartWay
    <2> HIDE DEF mixed, short, Whole
    <2>2. v \in mixed \cup short /\ Whole(v)
        BY <2>1
    <2> QED
        BY <2>2 DEF Whole
<1>2. ASSUME NEW w \in mixed
      PROVE w \in Trees /\ \A q \in Paths : w[q] = t[q] \/ w[q] = u[q]
    <2>1. PICK S \in SUBSET new : w = [q \in Paths |-> IF q \in S THEN u[q] ELSE t[q]]
        OBVIOUS
    <2> QED
        BY <2>1 DEF Trees
<1>3. Cut \in Nodes
    BY DEF Nodes, Stored
<1>4. CASE v \in short
    <2>1. PICK w \in mixed, q \in {q \in new : IsFile(u[q])} : v = [w EXCEPT ![q] = Cut]
        BY <1>4
    <2>2. w \in Trees /\ q \in Paths /\ IsFile(u[q]) /\ t[q] # u[q]
        BY <2>1, <1>2
    <2> HIDE DEF mixed, new
    <2>3. v \in Trees
        BY <2>1, <2>2, <1>3 DEF Trees
    <2>4. \A x \in Paths : v[x] = IF x = q THEN Cut ELSE w[x]
        BY <2>1, <2>2 DEF Trees
    <2> QED
        BY <1>1, <1>2, <2>2, <2>3, <2>4
<1> HIDE DEF mixed, short
<1> QED
    BY <1>1, <1>2, <1>4

LEMMA SaneStages ==
    ASSUME Types, NEW r, Sane(r), NEW midway, \A o \in midway : Sane(o), NEW o \in Stages(r, midway)
    PROVE Sane(o)
<1>1. Sane(Leave(tree))
    BY SaneLeave DEF Types
<1> QED
    BY <1>1 DEF Stages

LEMMA SanePartWay ==
    ASSUME Types, NEW t \in Trees, NEW u \in Trees, NEW v \in PartWay(t, u)
    PROVE Sane(Leave(v))
BY PartWayMeans, SaneLeave

LEMMA SaneFileStages ==
    ASSUME Types, NEW r, Sane(r), NEW p \in Paths, NEW o \in FileStages(r, p)
    PROVE Sane(o)
<1> tree \in Trees /\ r.tree \in Trees
    BY DEF Types, Sane
<1>1. Sane(Leave(T!WithDirs(tree, Above(p))))
    BY WithDirsType, SaneLeave
<1>2. \A v \in PartWay(tree, r.tree) : Sane(Leave(v))
    BY SanePartWay
<1> QED
    BY <1>1, <1>2, SaneStages DEF FileStages

LEMMA SaneMkdirStages ==
    ASSUME Types, NEW r, Sane(r), NEW o \in MkdirStages(r)
    PROVE Sane(o)
<1> tree \in Trees /\ r.tree \in Trees
    BY DEF Types, Sane
<1>2. \A v \in PartWay(tree, r.tree) : Sane(Leave(v))
    BY SanePartWay
<1> QED
    BY <1>2, SaneStages DEF MkdirStages

LEMMA SaneRemoveStages ==
    ASSUME Types, NEW r, Sane(r), NEW p \in Paths, NEW o \in RemoveStages(r, p)
    PROVE Sane(o)
<1> tree \in Trees /\ r.tree \in Trees
    BY DEF Types, Sane
<1>1. \A S : Sane(S3Without(S))
    BY SaneWithout
<1>2. \A v \in PartWay(tree, r.tree) : Sane(Leave(v))
    BY SanePartWay
<1> QED
    BY <1>1, <1>2, SaneStages DEF RemoveStages

LEMMA SaneMoveStages ==
    ASSUME Types, NEW r, Sane(r), NEW s \in Paths, NEW d \in Paths, NEW o \in MoveStages(r, s, d)
    PROVE Sane(o)
<1> tree \in Trees /\ r.tree \in Trees
    BY DEF Types, Sane
<1>1. Sane(Leave(T!WithDirs(tree, Above(d)))) /\ Sane(SqliteCopy(s, d)) /\ Sane(OsCopyTo(s, d))
    BY WithDirsType, SaneLeave, SaneSqliteCopy, SaneCopy
<1>2. Sane(S3Copy(s, d))
    <2>1. tree[s] \in Nodes
        BY DEF Trees
    <2> QED
        BY <2>1, SetType, SaneFail, SaneLeave DEF S3Copy
<1>3. \A v \in PartWay(tree, OsCopyTo(s, d).tree) \cup PartWay(OsCopyTo(s, d).tree, r.tree) : Sane(Leave(v))
    BY <1>1, SanePartWay DEF Sane
<1> QED
    BY <1>1, <1>2, <1>3, SaneStages DEF MoveStages

\* The steps that answer with what a method did, or break off on the way.
LEMMA SaneStep ==
    ASSUME Types, Uploaded \/ Made \/ Removed \/ RemovedSome \/ Copied \/ Moved
    PROVE \E r, stages : Sane(r) /\ (\A o \in stages : Sane(o)) /\ Carried(r, stages)
<1>1. CASE Uploaded
    BY <1>1, SaneWrite, SaneFileStages DEF Uploaded
<1>2. CASE Made
    BY <1>2, SaneMkdir, SaneMkdirStages DEF Made
<1>3. CASE Removed
    BY <1>3, SaneDelete, SaneRemoveStages DEF Removed
<1>4. CASE RemovedSome
    <2>1. PICK S : Answered(S3Without(S))
        BY <1>4 DEF RemovedSome
    <2>2. Carried(S3Without(S), {})
        BY <2>1 DEF Carried
    <2> QED
        BY <2>2, SaneWithout
<1>5. CASE Copied
    BY <1>5, SaneCopy, SaneFileStages DEF Copied
<1>6. CASE Moved
    BY <1>6, SaneMove, SaneMoveStages DEF Moved
<1> QED
    BY <1>1, <1>2, <1>3, <1>4, <1>5, <1>6

-----------------------------------------------------------------------------
(* Types *)

LEMMA InitTypes == Init => Types
<1> SUFFICES ASSUME Init PROVE Types
    OBVIOUS
<1>1. [p \in Paths |-> "none"] \in Trees
    BY DEF Trees, Nodes
<1>2. tree \in Trees
    BY <1>1, EmptyType, WithDirsType DEF Init
<1>3. disk \in Trees
    BY EmptyType DEF Init
<1> QED
    BY <1>2, <1>3 DEF Init, Types

LEMMA NextTypes == Types /\ [Next]_vars => Types'
<1> SUFFICES ASSUME Types, [Next]_vars PROVE Types'
    OBVIOUS
<1>1. CASE Uploaded \/ Made \/ Removed \/ RemovedSome \/ Copied \/ Moved
    <2>1. PICK r, stages : Sane(r) /\ (\A o \in stages : Sane(o)) /\ Carried(r, stages)
        BY <1>1, SaneStep
    <2>2. CASE Answered(r)
        BY <2>1, <2>2 DEF Types, Sane, Answered
    <2>3. CASE Broken(stages)
        BY <2>1, <2>3, LostType DEF Types, Sane, Broken
    <2> QED
        BY <2>1, <2>2, <2>3 DEF Carried
<1>3. CASE Nothing
    BY <1>3 DEF Nothing, Types
<1>4. CASE Restart
    BY <1>4 DEF Restart, Types
<1>6. CASE UNCHANGED vars
    BY <1>6 DEF vars, Types
<1> QED
    BY <1>1, <1>3, <1>4, <1>6, StepKinds

ReplyOK ==
    /\ {reply.op, reply.event} \subseteq {"none", "write", "upload", "mkdir", "delete", "copy", "move"}
    /\ reply.status \in {"200", "400", "403", "404", "409", "413", "500", "isError", "raised", "none"}

LEMMA StatusOK ==
    ASSUME NEW via, NEW op, NEW e
    PROVE Status(via, op, e) \in {"200", "400", "403", "404", "409", "413", "500", "isError", "raised", "none"}
BY DEF Status, Mapped

LEMMA AnswerReply ==
    ASSUME NEW via, NEW op \in {"write", "upload", "mkdir", "delete", "copy", "move"}, NEW r, Answer(via, op, r)
    PROVE ReplyOK'
BY StatusOK DEF Answer, ReplyOK

LEMMA CarryReply ==
    ASSUME NEW via, NEW op \in {"write", "upload", "mkdir", "delete", "copy", "move"}, NEW r, NEW stages,
           Carry(via, op, r, stages)
    PROVE ReplyOK'
<1>1. ASSUME NEW o, Breaks(via, op, o) PROVE ReplyOK'
    <2>1. PICK e : reply' = [op |-> op, status |-> Status(via, op, e), event |-> "none"]
        BY <1>1 DEF Breaks
    <2> QED
        BY <2>1, StatusOK DEF ReplyOK
<1> QED
    BY <1>1, AnswerReply DEF Carry

LEMMA NextReply == ReplyOK /\ [Next]_vars => ReplyOK'
<1> SUFFICES ASSUME ReplyOK, [Next]_vars PROVE ReplyOK'
    OBVIOUS
<1>1. ASSUME NEW raw \in RawPaths, NEW via \in {"rest", "mcp"}, NEW c \in Contents, Upload(raw, c, via)
      PROVE ReplyOK'
    <2>1. CASE via = "rest" /\ c \in Oversize
        BY <1>1, <2>1 DEF Upload, ReplyOK
    <2>2. CASE ~ (via = "rest" /\ c \in Oversize)
        BY <1>1, <2>2, CarryReply DEF Upload
    <2> QED
        BY <2>1, <2>2
<1>2. ASSUME NEW raw \in RawPaths, NEW via \in {"rest", "mcp"}, NEW b \in BOOLEAN,
             MakeDirectory(raw, b, via) \/ RemovePath(raw, b, via)
      PROVE ReplyOK'
    BY <1>2, AnswerReply, CarryReply DEF MakeDirectory, RemovePath
<1>3. ASSUME NEW s \in Paths, NEW d \in Paths, Copy(s, d) \/ Move(s, d)
      PROVE ReplyOK'
    BY <1>3, CarryReply DEF Copy, Move
<1>4. CASE Restart
    BY <1>4 DEF Restart, ReplyOK
<1>5. CASE UNCHANGED vars
    BY <1>5 DEF vars, ReplyOK
<1> QED
    BY <1>1, <1>2, <1>3, <1>4, <1>5 DEF Next

\* Every variable keeps its type (the providers' nodes, rows and objects, and
\* the replies of the routes).
THEOREM TypeCorrect == Spec => []TypeOK
<1>1. Init => ReplyOK
    BY DEF Init, ReplyOK
<1>2. Types /\ ReplyOK => TypeOK
    BY DEF Types, ReplyOK, TypeOK, Trees, Nodes
<1> QED
    BY <1>1, <1>2, InitTypes, NextTypes, NextReply, PTL DEF Spec

-----------------------------------------------------------------------------
(* Prefixes *)

LEMMA PathIsSeq == ASSUME NEW p \in Paths PROVE p \in Seq(STRING) /\ Len(p) \in Nat /\ DOMAIN p = 1..Len(p)
BY FilesAssumption

LEMMA PrefixMeans ==
    ASSUME NEW p \in Paths, NEW q \in Paths
    PROVE IsPrefix(p, q) <=> Len(p) <= Len(q) /\ \A i \in 1..Len(p) : p[i] = q[i]
<1> p \in Seq(STRING) /\ q \in Seq(STRING) /\ Len(p) \in Nat /\ Len(q) \in Nat
    BY PathIsSeq
<1>1. CASE Len(p) <= Len(q)
    <2> DEFINE a == SubSeq(p, 1, Len(p))
               b == SubSeq(q, 1, Len(p))
    <2>1. a = [i \in 1..Len(p) |-> p[i]]
        BY DEF a
    <2>2. b = [i \in 1..Len(p) |-> q[i]]
        BY <1>1
    <2>3. a = b <=> \A i \in 1..Len(p) : p[i] = q[i]
        BY <2>1, <2>2
    <2> QED
        BY <1>1, <2>3 DEF IsPrefix
<1>2. CASE ~ (Len(p) <= Len(q))
    BY <1>2 DEF IsPrefix
<1> QED
    BY <1>1, <1>2

LEMMA SamePath ==
    ASSUME NEW p \in Paths, NEW q \in Paths, Len(p) = Len(q), \A i \in 1..Len(p) : p[i] = q[i]
    PROVE p = q
BY PathIsSeq

LEMMA StrictMeans ==
    ASSUME NEW p \in Paths, NEW q \in Paths
    PROVE IsStrictPrefix(p, q) <=> Len(p) < Len(q) /\ \A i \in 1..Len(p) : p[i] = q[i]
BY PrefixMeans, SamePath, PathIsSeq DEF IsStrictPrefix

LEMMA PrefixTransitive ==
    ASSUME NEW p \in Paths, NEW q \in Paths, NEW r \in Paths, IsPrefix(p, q), IsPrefix(q, r)
    PROVE IsPrefix(p, r)
<1> Len(p) \in Nat /\ Len(q) \in Nat /\ Len(r) \in Nat
    BY PathIsSeq
<1> QED
    BY PrefixMeans

LEMMA PrefixAntisymmetric ==
    ASSUME NEW p \in Paths, NEW q \in Paths, IsPrefix(p, q), IsPrefix(q, p)
    PROVE p = q
<1> Len(p) \in Nat /\ Len(q) \in Nat
    BY PathIsSeq
<1> QED
    BY PrefixMeans, SamePath

LEMMA PrefixReflexive == ASSUME NEW p \in Paths PROVE IsPrefix(p, p)
BY PathIsSeq, PrefixMeans

\* Two prefixes of one path: one of them is a prefix of the other.
LEMMA PrefixesComparable ==
    ASSUME NEW p \in Paths, NEW q \in Paths, NEW r \in Paths, IsPrefix(p, r), IsPrefix(q, r)
    PROVE IsPrefix(p, q) \/ IsPrefix(q, p)
<1> Len(p) \in Nat /\ Len(q) \in Nat /\ Len(r) \in Nat
    BY PathIsSeq
<1> QED
    BY PrefixMeans

\* FileTree's operators, path by path.
LEMMA SamePrefix == \A p, q : /\ T!IsPrefix(p, q) <=> IsPrefix(p, q)
                              /\ T!IsStrictPrefix(p, q) <=> IsStrictPrefix(p, q)
BY DEF T!IsPrefix, IsPrefix, T!IsStrictPrefix, IsStrictPrefix

LEMMA AboveMeans == \A p, q : q \in Above(p) <=> q \in Paths /\ IsStrictPrefix(q, p)
BY SamePrefix DEF Above, T!Above

LEMMA WithoutAt == \A t, p : \A q \in Paths : T!Without(t, p)[q] = IF IsPrefix(p, q) THEN "none" ELSE t[q]
BY SamePrefix DEF T!Without

LEMMA GraftAt ==
    \A t, s, d : \A q \in Paths :
        T!Graft(t, s, d)[q] = IF ~ IsPrefix(d, q) THEN t[q]
                              ELSE IF T!Rebase(q, d, s) \in Paths THEN t[T!Rebase(q, d, s)] ELSE "none"
BY SamePrefix DEF T!Graft

LEMMA WithDirsAt ==
    \A t, S : \A q \in Paths : T!WithDirs(t, S)[q] = IF q \in S /\ t[q] = "none" THEN "dir" ELSE t[q]
BY DEF T!WithDirs

-----------------------------------------------------------------------------
(* The operating system's files stay below the allowed roots *)

\* Every root and everything above it is a directory.
RootsStand ==
    kind \in {"os", "legacy"} =>
        \A r \in Roots, q \in Paths : IsPrefix(q, r) => tree[q] = "dir"

\* The step of ConfinedToRoots.
Confined ==
    kind \in {"os", "legacy"} =>
        \A p \in Paths : (~ Allowed(p) \/ p \in Roots) => tree'[p] = tree[p]

\* No allowed root lies below another: removing a directory between the two
\* would take the lower one with it.
Separate == \A r, q \in Roots : ~ IsStrictPrefix(r, q)

LEMMA AllowedMeans == ASSUME NEW p \in Paths PROVE Allowed(p) <=> \E r \in Roots : IsPrefix(r, p)
BY PrefixReflexive, FilesAssumption DEF Allowed, IsStrictPrefix

\* What is above an allowed path is a directory or allowed and no root.
LEMMA AboveAllowed ==
    ASSUME RootsStand, kind \in {"os", "legacy"}, NEW p \in Paths, Allowed(p),
           NEW q \in Paths, IsPrefix(q, p), ~ Allowed(q) \/ q \in Roots
    PROVE tree[q] = "dir"
<1>1. PICK r \in Roots : IsPrefix(r, p)
    BY AllowedMeans
<1> r \in Paths
    BY FilesAssumption
<1>2. CASE IsPrefix(q, r)
    BY <1>2 DEF RootsStand
<1>3. CASE IsPrefix(r, q)
    <2>1. Allowed(q)
        BY <1>3, AllowedMeans
    <2> QED
        BY <2>1, PrefixReflexive DEF RootsStand
<1> QED
    BY <1>1, <1>2, <1>3, PrefixesComparable

\* What is below an allowed path is allowed.
LEMMA BelowAllowed ==
    ASSUME NEW p \in Paths, Allowed(p), NEW q \in Paths, IsPrefix(p, q)
    PROVE Allowed(q)
BY AllowedMeans, PrefixTransitive, FilesAssumption

\* What a method that leaves the tree t did is confined.
Inside(t) == \A p \in Paths : (~ Allowed(p) \/ p \in Roots) => t[p] = tree[p]

LEMMA InsideDirs ==
    ASSUME RootsStand, kind \in {"os", "legacy"}, NEW p \in Paths, Allowed(p), NEW S,
           \A q \in S \cap Paths : IsPrefix(q, p)
    PROVE Inside(T!WithDirs(tree, S))
BY AboveAllowed DEF Inside, T!WithDirs

LEMMA InsideWithout ==
    ASSUME Separate, NEW t, Inside(t), NEW p \in Paths, Allowed(p), p \notin Roots
    PROVE Inside(T!Without(t, p))
<1> SUFFICES ASSUME NEW q \in Paths, ~ Allowed(q) \/ q \in Roots, IsPrefix(p, q) PROVE FALSE
    BY WithoutAt DEF Inside
<1>1. q \in Roots
    BY BelowAllowed
<1>2. PICK r \in Roots : IsPrefix(r, p)
    BY AllowedMeans
<1> r \in Paths
    BY FilesAssumption
<1>3. IsPrefix(r, q)
    BY <1>2, PrefixTransitive
<1>4. r = q
    BY <1>1, <1>3 DEF Separate, IsStrictPrefix
<1>5. p = q
    BY <1>2, <1>4, PrefixAntisymmetric
<1> QED
    BY <1>1, <1>5

LEMMA InsideGraft ==
    ASSUME RootsStand, kind \in {"os", "legacy"}, NEW s \in Paths, NEW d \in Paths, Allowed(d), tree[d] = "none"
    PROVE Inside(T!Graft(T!WithDirs(tree, Above(d)), s, d))
<1>1. Inside(T!WithDirs(tree, Above(d)))
    BY InsideDirs, AboveMeans DEF IsStrictPrefix
<1>2. ASSUME NEW q \in Paths, ~ Allowed(q) \/ q \in Roots PROVE ~ IsPrefix(d, q)
    <2> SUFFICES ASSUME IsPrefix(d, q) PROVE FALSE
        OBVIOUS
    <2>1. q \in Roots
        BY <1>2, BelowAllowed
    <2>2. tree[d] = "dir"
        BY <2>1 DEF RootsStand
    <2> QED
        BY <2>2
<1> QED
    BY <1>1, <1>2, GraftAt DEF Inside

LEMMA InsideSame == Inside(tree)
BY DEF Inside

LEMMA InsideOutcome ==
    /\ \A e : Fail(e).tree = tree /\ Fail(e).err = e /\ Fail(e).markers = markers
    /\ \A t : Leave(t).tree = t /\ Leave(t).err = "ok" /\ Leave(t).markers = markers
BY DEF Fail, Leave, Outcome

\* One path below a root, and no root itself, changes.
LEMMA InsideSet ==
    ASSUME Types, RootsStand, kind \in {"os", "legacy"}, NEW p \in Paths, NEW n, Allowed(p), tree[p] # "dir"
    PROVE Inside([tree EXCEPT ![p] = n])
<1>1. p \notin Roots
    BY PrefixReflexive DEF RootsStand
<1> QED
    BY <1>1 DEF Inside, Types, Trees

LEMMA InsideWrite ==
    ASSUME Types, RootsStand, kind \in {"os", "legacy"}, NEW p \in Paths, NEW c
    PROVE Inside(WriteFile(p, c).tree)
BY InsideSet, InsideSame, InsideOutcome DEF WriteFile, OsWrite, LegacyUpload

LEMMA InsideMkdir ==
    ASSUME Types, RootsStand, kind \in {"os", "legacy"}, NEW p \in Paths, NEW b \in BOOLEAN
    PROVE Inside(Mkdir(p, b).tree)
<1>1. Allowed(p) => Inside(Makedirs(p).tree)
    <2>1. \A q \in (Above(p) \cup {p}) \cap Paths : IsPrefix(q, p)
        BY AboveMeans, PrefixReflexive DEF IsStrictPrefix
    <2>2. Allowed(p) => Inside(T!WithDirs(tree, Above(p) \cup {p}))
        BY <2>1, InsideDirs
    <2> QED
        BY <2>2, InsideSame, InsideOutcome DEF Makedirs
<1>2. Allowed(p) /\ tree[p] = "none" => Inside([tree EXCEPT ![p] = "dir"])
    BY InsideSet
<1> QED
    BY <1>1, <1>2, InsideSame, InsideOutcome DEF Mkdir, OsMkdir, LegacyMkdir

LEMMA InsideDelete ==
    ASSUME Separate, kind \in {"os", "legacy"}, NEW p \in Paths, NEW b \in BOOLEAN
    PROVE Inside(Delete(p, b).tree)
BY InsideWithout, InsideSame, InsideOutcome DEF Delete, OsRemove, LegacyRemove

LEMMA InsideCopy ==
    ASSUME RootsStand, kind \in {"os", "legacy"}, NEW s \in Paths, NEW d \in Paths, tree[d] = "none"
    PROVE /\ Allowed(d) => Inside(OsCopyTo(s, d).tree)
          /\ Inside(CopyFile(s, d).tree)
<1>1. Allowed(d) => Inside(OsCopyTo(s, d).tree)
    BY InsideGraft, InsideSame, InsideOutcome DEF OsCopyTo
<1> QED
    BY <1>1, InsideSame, InsideOutcome DEF CopyFile, OsCopy

LEMMA InsideMove ==
    ASSUME Separate, RootsStand, kind \in {"os", "legacy"}, NEW s \in Paths, NEW d \in Paths, tree[d] = "none"
    PROVE Inside(MoveFile(s, d).tree)
<1>1. Allowed(d) => Inside(OsCopyTo(s, d).tree)
    BY InsideCopy
<1>2. Allowed(d) /\ Allowed(s) /\ s \notin Roots => Inside(T!Without(OsCopyTo(s, d).tree, s))
    BY <1>1, InsideWithout
<1> QED
    BY <1>1, <1>2, InsideSame, InsideOutcome DEF MoveFile, OsMove

LEMMA FreeDestination ==
    ASSUME FreeOnly, kind # "s3", NEW s \in Paths, NEW d \in Paths, MayCopy(s, d)
    PROVE tree[d] = "none"
BY DEF MayCopy, View

\* A tree part way between two that are confined is confined.
LEMMA InsidePartWay ==
    ASSUME NEW t \in Trees, NEW u \in Trees, Inside(t), Inside(u), NEW v \in PartWay(t, u)
    PROVE Inside(v)
BY PartWayMeans DEF Inside

LEMMA InsideStages ==
    ASSUME Types, kind \in {"os", "legacy"}, NEW r, Sane(r), Inside(r.tree), NEW p,
           NEW o \in FileStages(r, p) \cup MkdirStages(r) \cup RemoveStages(r, p)
    PROVE Inside(o.tree)
<1> tree \in Trees /\ r.tree \in Trees
    BY DEF Types, Sane
<1>1. \A v \in PartWay(tree, r.tree) : Inside(v)
    BY InsidePartWay, InsideSame
<1>2. o \in {Leave(tree), r} \cup {Leave(v) : v \in PartWay(tree, r.tree)}
    BY DEF FileStages, MkdirStages, RemoveStages, Stages
<1> QED
    BY <1>1, <1>2, InsideSame, InsideOutcome

LEMMA InsideMoveStages ==
    ASSUME Types, Separate, RootsStand, kind \in {"os", "legacy"}, NEW s \in Paths, NEW d \in Paths,
           tree[d] = "none", NEW o \in MoveStages(MoveFile(s, d), s, d)
    PROVE Inside(o.tree)
<1> DEFINE r == MoveFile(s, d)
           c == OsCopyTo(s, d)
<1> tree \in Trees /\ r.tree \in Trees /\ c.tree \in Trees
    BY SaneMove, SaneCopy DEF Types, Sane
<1>1. Inside(r.tree)
    BY InsideMove
<1>2. r.err = "ok" /\ o \in {Leave(tree), r} \cup {Leave(v) : v \in PartWay(tree, c.tree) \cup PartWay(c.tree, r.tree)}
    <2> HIDE DEF r, c
    <2>1. o \in MoveStages(r, s, d)
        BY DEF r
    <2> QED
        BY <2>1 DEF MoveStages, Stages, c
<1>3. Inside(c.tree)
    <2>1. Allowed(d)
        BY <1>2, InsideOutcome DEF MoveFile, OsMove
    <2> QED
        BY <2>1, InsideCopy
<1> HIDE DEF r, c
<1>4. \A v \in PartWay(tree, c.tree) \cup PartWay(c.tree, r.tree) : Inside(v)
    BY <1>1, <1>3, InsidePartWay, InsideSame
<1> QED
    BY <1>1, <1>2, <1>4, InsideSame, InsideOutcome

LEMMA StepConfined ==
    ASSUME FreeOnly, Separate, Types, RootsStand, [Next]_vars
    PROVE Confined
<1> SUFFICES ASSUME kind \in {"os", "legacy"} PROVE Inside(tree')
    BY DEF Confined, Inside
<1>0. ASSUME NEW r, NEW stages, Carried(r, stages), Inside(r.tree), \A o \in stages : Inside(o.tree)
      PROVE Inside(tree')
    BY <1>0 DEF Carried, Answered, Broken
<1>1. CASE Uploaded
    <2>1. PICK p \in Paths, c \in Contents : Carried(WriteFile(p, c), FileStages(WriteFile(p, c), p))
        BY <1>1 DEF Uploaded
    <2>2. Inside(WriteFile(p, c).tree) /\ Sane(WriteFile(p, c))
        BY InsideWrite, SaneWrite
    <2>3. \A o \in FileStages(WriteFile(p, c), p) : Inside(o.tree)
        BY <2>2, InsideStages
    <2> QED
        BY <1>0, <2>1, <2>2, <2>3
<1>2. CASE Made
    <2>1. PICK p \in Paths, b \in BOOLEAN : Carried(Mkdir(p, b), MkdirStages(Mkdir(p, b)))
        BY <1>2 DEF Made
    <2>2. Inside(Mkdir(p, b).tree) /\ Sane(Mkdir(p, b))
        BY InsideMkdir, SaneMkdir
    <2>3. \A o \in MkdirStages(Mkdir(p, b)) : Inside(o.tree)
        BY <2>2, InsideStages
    <2> QED
        BY <1>0, <2>1, <2>2, <2>3
<1>3. CASE Removed
    <2>1. PICK p \in Paths, b \in BOOLEAN : Carried(Delete(p, b), RemoveStages(Delete(p, b), p))
        BY <1>3 DEF Removed
    <2>2. Inside(Delete(p, b).tree) /\ Sane(Delete(p, b))
        BY InsideDelete, SaneDelete
    <2>3. \A o \in RemoveStages(Delete(p, b), p) : Inside(o.tree)
        BY <2>2, InsideStages
    <2> QED
        BY <1>0, <2>1, <2>2, <2>3
<1>4. CASE Copied
    <2>1. PICK s \in Paths, d \in Paths :
              MayCopy(s, d) /\ Carried(CopyFile(s, d), FileStages(CopyFile(s, d), d))
        BY <1>4 DEF Copied
    <2>2. Inside(CopyFile(s, d).tree) /\ Sane(CopyFile(s, d))
        BY <2>1, InsideCopy, FreeDestination, SaneCopy
    <2>3. \A o \in FileStages(CopyFile(s, d), d) : Inside(o.tree)
        BY <2>2, InsideStages
    <2> QED
        BY <1>0, <2>1, <2>2, <2>3
<1>5. CASE Moved
    <2>1. PICK s \in Paths, d \in Paths :
              MayCopy(s, d) /\ Carried(MoveFile(s, d), MoveStages(MoveFile(s, d), s, d))
        BY <1>5 DEF Moved
    <2>2. tree[d] = "none"
        BY <2>1, FreeDestination
    <2>3. Inside(MoveFile(s, d).tree) /\ \A o \in MoveStages(MoveFile(s, d), s, d) : Inside(o.tree)
        BY <2>2, InsideMove, InsideMoveStages
    <2> QED
        BY <1>0, <2>1, <2>3
<1>6. CASE Nothing \/ Restart \/ UNCHANGED vars
    BY <1>6, InsideSame DEF Nothing, Restart, vars
<1> QED
    BY <1>1, <1>2, <1>3, <1>4, <1>5, <1>6, StepKinds DEF RemovedSome

\* What is above a root is no more than a root itself allowed.
LEMMA RootsKeep ==
    ASSUME Separate, RootsStand, Confined, kind' = kind
    PROVE RootsStand'
<1> SUFFICES ASSUME kind \in {"os", "legacy"}, NEW r \in Roots, NEW q \in Paths, IsPrefix(q, r)
             PROVE tree'[q] = "dir"
    BY DEF RootsStand
<1> r \in Paths
    BY FilesAssumption
<1>1. tree[q] = "dir"
    BY DEF RootsStand
<1>2. Allowed(q) => q \in Roots
    <2> SUFFICES ASSUME Allowed(q) PROVE q \in Roots
        OBVIOUS
    <2>1. PICK a \in Roots : IsPrefix(a, q)
        BY AllowedMeans
    <2> a \in Paths
        BY FilesAssumption
    <2>2. IsPrefix(a, r)
        BY <2>1, PrefixTransitive
    <2>3. a = r
        BY <2>2 DEF Separate, IsStrictPrefix
    <2> QED
        BY <2>1, <2>3, PrefixAntisymmetric
<1> QED
    BY <1>1, <1>2 DEF Confined

LEMMA KindStays == [Next]_vars => kind' = kind
<1>1. ASSUME NEW r, NEW stages, Carried(r, stages) PROVE kind' = kind
    BY <1>1 DEF Carried, Answered, Broken
<1>2. CASE Uploaded \/ Made \/ Removed \/ Copied \/ Moved
    BY <1>1, <1>2 DEF Uploaded, Made, Removed, Copied, Moved
<1>3. CASE RemovedSome \/ Nothing \/ Restart \/ UNCHANGED vars
    BY <1>3 DEF RemovedSome, Answered, Nothing, Restart, vars
<1> QED
    BY <1>2, <1>3, StepKinds

LEMMA InitRoots == Init => RootsStand
<1> SUFFICES ASSUME Init, kind \in {"os", "legacy"}, NEW r \in Roots, NEW q \in Paths, IsPrefix(q, r)
             PROVE tree[q] = "dir"
    BY DEF RootsStand
<1> DEFINE S == UNION {Above(p) \cup {p} : p \in Roots \cup {Links[l] : l \in DOMAIN Links}}
<1>1. q \in Above(r) \cup {r}
    BY AboveMeans DEF IsStrictPrefix
<1>2. q \in S
    BY <1>1
<1>3. tree = T!WithDirs(T!Empty, S)
    BY DEF Init
<1>4. T!Empty[q] \in {"none", "dir"}
    BY DEF T!Empty
<1> HIDE DEF S
<1> QED
    BY <1>2, <1>3, <1>4, WithDirsAt

\* Nothing outside the allowed roots changes and no root disappears, when no
\* root lies below another and the host copies and moves only to where
\* nothing is (no route and no tool copies or moves at all).
THEOREM StaysInRoots ==
    ASSUME FreeOnly, Separate PROVE Spec => ConfinedToRoots
<1>1. Types /\ RootsStand /\ [Next]_vars => (Types /\ RootsStand)' /\ Confined
    BY NextTypes, StepConfined, RootsKeep, KindStays
<1>2. Init => Types /\ RootsStand
    BY InitTypes, InitRoots
<1>3. Confined => (kind \in {"os", "legacy"} => \A p \in Paths : (~ Allowed(p) \/ p \in Roots) => tree'[p] = tree[p])
    BY DEF Confined
<1> QED
    BY <1>1, <1>2, <1>3, PTL DEF Spec, ConfinedToRoots

-----------------------------------------------------------------------------
(* What the ways of reading find *)

\* In the bucket a path is a file or a directory, never both: nothing lies
\* below a file, no marker is at one, and the root is none.
Apart ==
    kind = "s3" =>
        /\ tree[<<>>] = "none"
        /\ \A p \in Paths : /\ tree[p] # "dir"
                            /\ tree[p] # "none" => p \notin markers
                            /\ \A q \in Paths : tree[p] # "none" /\ IsStrictPrefix(p, q) =>
                                                    tree[q] = "none" /\ q \notin markers

LEMMA NotReserved == \A c \in Contents : c \notin {"none", "dir"} /\ AsText(c) \notin {"none", "dir"}
<1> SUFFICES ASSUME NEW c \in Contents PROVE c \notin {"none", "dir"} /\ AsText(c) \notin {"none", "dir"}
    OBVIOUS
<1>1. c \in Stored /\ AsText(c) \in Stored
    BY DEF Stored, AsText
<1>2. {"none", "dir"} \cap Stored = {}
    BY FilesAssumption
<1> QED
    BY <1>1, <1>2

\* S3Apart says that what is above p is no file and that nothing is below.
LEMMA ApartMeans ==
    ASSUME Types, kind = "s3", NEW p \in Paths, NEW b \in BOOLEAN, S3Apart(p, b), Apart
    PROVE /\ \A q \in Paths : IsStrictPrefix(q, p) => tree[q] = "none"
          /\ b /\ p # <<>> => tree[p] = "none"
          /\ ~ b /\ p # <<>> => /\ p \notin markers
                                /\ \A q \in Paths : IsStrictPrefix(p, q) => tree[q] = "none" /\ q \notin markers
<1>1. ASSUME NEW q \in Paths, q # <<>> PROVE ~ IsFile(View[q]) => tree[q] = "none"
    BY <1>1 DEF View, S3Node, IsFile, Apart
<1>2. \A q \in Paths : IsStrictPrefix(q, p) => tree[q] = "none"
    BY <1>1, AboveMeans DEF S3Apart, Apart
<1>3. b /\ p # <<>> => tree[p] = "none"
    BY <1>1 DEF S3Apart
<1>4. ~ b /\ p # <<>> => /\ p \notin markers
                         /\ \A q \in Paths : IsStrictPrefix(p, q) => tree[q] = "none" /\ q \notin markers
    <2>1. ~ b => S3Node(p) # "dir"
        BY DEF S3Apart, View
    <2> QED
        BY <2>1 DEF S3Node, Apart
<1> QED
    BY <1>2, <1>3, <1>4

LEMMA StrictIsOneWay ==
    ASSUME NEW p \in Paths, NEW q \in Paths, IsStrictPrefix(p, q)
    PROVE p # q /\ q # <<>> /\ ~ IsStrictPrefix(q, p)
BY StrictMeans, PathIsSeq

\* A file comes to a path of which S3Apart holds.
LEMMA ApartPut ==
    ASSUME Types, Apart, kind = "s3", kind' = "s3", NEW p \in Paths, p # <<>>, S3Apart(p, FALSE), NEW c, c # "dir",
           tree' = [tree EXCEPT ![p] = c], markers' = markers
    PROVE Apart'
<1>1. \A q \in Paths : tree'[q] = IF q = p THEN c ELSE tree[q]
    BY DEF Types, Trees
<1>2. /\ \A q \in Paths : IsStrictPrefix(q, p) => tree[q] = "none"
      /\ p \notin markers
      /\ \A q \in Paths : IsStrictPrefix(p, q) => tree[q] = "none" /\ q \notin markers
    BY ApartMeans
<1>3. tree'[<<>>] = "none"
    BY <1>1, FilesAssumption DEF Apart
<1> SUFFICES ASSUME NEW a \in Paths
             PROVE /\ tree'[a] # "dir"
                   /\ tree'[a] # "none" => a \notin markers
                   /\ \A q \in Paths : tree'[a] # "none" /\ IsStrictPrefix(a, q) =>
                                           tree'[q] = "none" /\ q \notin markers
    BY <1>3 DEF Apart
<1>4. tree'[a] # "dir" /\ (tree'[a] # "none" => a \notin markers)
    BY <1>1, <1>2 DEF Apart
<1>5. ASSUME NEW q \in Paths, tree'[a] # "none", IsStrictPrefix(a, q)
      PROVE tree'[q] = "none" /\ q \notin markers
    BY <1>1, <1>2, <1>5, StrictIsOneWay DEF Apart
<1> QED
    BY <1>4, <1>5

LEMMA ApartMark ==
    ASSUME Types, Apart, kind = "s3", kind' = "s3", NEW p \in Paths, p # <<>>, S3Apart(p, TRUE),
           tree' = tree, markers' = markers \cup {p}
    PROVE Apart'
<1>1. /\ \A q \in Paths : IsStrictPrefix(q, p) => tree[q] = "none"
      /\ tree[p] = "none"
    BY ApartMeans
<1> QED
    BY <1>1 DEF Apart

\* Less is in the bucket.
LEMMA ApartLess ==
    ASSUME Types, Apart, kind = "s3", kind' = "s3",
           \A q \in Paths : tree'[q] \in {"none", tree[q]}, markers' \subseteq markers
    PROVE Apart'
BY FilesAssumption DEF Apart

\* What a step of the bucket leaves.
Left(o) == tree' = o.tree /\ markers' = o.markers

\* In the bucket most requests are one call.
LEMMA BucketStages ==
    ASSUME kind = "s3"
    PROVE /\ \A r, p : FileStages(r, p) \subseteq {Leave(tree), r}
          /\ \A r : MkdirStages(r) \subseteq {Leave(tree), r}
          /\ \A r, p : RemoveStages(r, p) \subseteq {Leave(tree), r} \cup {S3Without(S) : S \in SUBSET S3Keys(p)}
          /\ \A r, s, d : MoveStages(r, s, d) \subseteq {Leave(tree), r, S3Copy(s, d)}
BY DEF FileStages, MkdirStages, RemoveStages, MoveStages, Stages

LEMMA CarriedLeft ==
    ASSUME kind = "s3"
    PROVE /\ \A r, p : Carried(r, FileStages(r, p)) => Left(r) \/ UNCHANGED <<tree, markers>>
          /\ \A r : Carried(r, MkdirStages(r)) => Left(r) \/ UNCHANGED <<tree, markers>>
          /\ \A r, p : Carried(r, RemoveStages(r, p)) =>
                  Left(r) \/ UNCHANGED <<tree, markers>> \/ \E S \in SUBSET S3Keys(p) : Left(S3Without(S))
          /\ \A r, s, d : Carried(r, MoveStages(r, s, d)) =>
                  Left(r) \/ UNCHANGED <<tree, markers>> \/ Left(S3Copy(s, d))
<1>1. \A r, stages : Carried(r, stages) => Left(r) \/ \E o \in stages : Left(o)
    BY DEF Carried, Answered, Broken, Left
<1>2. Left(Leave(tree)) => UNCHANGED <<tree, markers>>
    BY InsideOutcome DEF Left
<1> QED
    BY <1>1, <1>2, BucketStages

LEMMA StepApart ==
    ASSUME Types, Apart, [Next]_vars
    PROVE Apart'
<1> SUFFICES ASSUME kind = "s3", kind' = "s3" PROVE Apart'
    BY KindStays DEF Apart
<1> tree \in Trees
    BY DEF Types
<1>0. CASE UNCHANGED <<tree, markers>>
    BY <1>0, ApartLess
<1>1. ASSUME NEW p \in Paths, NEW c \in Contents, S3Apart(p, FALSE), Left(S3Write(p, c))
      PROVE Apart'
    <2>2. CASE p = <<>>
        BY <1>1, <2>2, <1>0, InsideOutcome DEF S3Write, Left
    <2>3. CASE p # <<>>
        <3>1. tree' = [tree EXCEPT ![p] = c] /\ markers' = markers
            BY <1>1, <2>3, InsideOutcome DEF S3Write, Left
        <3> QED
            BY <1>1, <2>3, <3>1, ApartPut, NotReserved
    <2> QED
        BY <2>2, <2>3
<1>2. ASSUME NEW p \in Paths, NEW b \in BOOLEAN, S3Apart(p, TRUE), Left(S3Mkdir(p, b))
      PROVE Apart'
    <2>2. CASE p = <<>>
        BY <1>2, <2>2, <1>0, InsideOutcome DEF S3Mkdir, Left
    <2>3. CASE p # <<>>
        BY <1>2, <2>3, ApartMark DEF S3Mkdir, Left, Outcome
    <2> QED
        BY <2>2, <2>3
<1>3. ASSUME NEW S, Left(S3Without(S)) PROVE Apart'
    BY <1>3, ApartLess DEF Left, S3Without, Outcome
<1>7. ASSUME NEW p \in Paths, NEW b \in BOOLEAN, Left(S3Remove(p, b)) PROVE Apart'
    <2>1. \/ \E e : S3Remove(p, b) = Fail(e)
          \/ S3Remove(p, b) = Leave([tree EXCEPT ![p] = "none"])
          \/ \E S : S3Remove(p, b) = S3Without(S)
        BY DEF S3Remove
    <2>2. CASE \E e : S3Remove(p, b) = Fail(e)
        BY <1>0, <1>7, <2>2, InsideOutcome DEF Left
    <2>3. CASE S3Remove(p, b) = Leave([tree EXCEPT ![p] = "none"])
        <3>1. tree' = [tree EXCEPT ![p] = "none"] /\ markers' = markers
            BY <1>7, <2>3, InsideOutcome DEF Left
        <3>2. \A q \in Paths : tree'[q] \in {"none", tree[q]}
            BY <3>1 DEF Trees
        <3> QED
            BY <3>1, <3>2, ApartLess
    <2> QED
        BY <1>3, <1>7, <2>1, <2>2, <2>3
<1>4. ASSUME NEW s \in Paths, NEW d \in Paths, MayCopy(s, d), Left(S3Copy(s, d)) \/ Left(S3Move(s, d))
      PROVE Apart'
    <2>1. CASE S3Copy(s, d).err # "ok"
        BY <1>4, <2>1, <1>0, InsideOutcome DEF S3Copy, S3Move, Left
    <2>2. CASE S3Copy(s, d).err = "ok"
        <3>1. /\ d # <<>> /\ s # <<>> /\ tree[s] # "none" /\ tree[s] # "dir"
              /\ S3Copy(s, d) = Leave([tree EXCEPT ![d] = tree[s]])
            BY <2>2, InsideOutcome DEF S3Copy, Apart
        <3>2. S3Apart(d, FALSE)
            BY <1>4 DEF MayCopy
        <3>3. CASE Left(S3Copy(s, d))
            <4>1. PICK n \in Nodes : n = tree[s]
                BY DEF Trees
            <4>2. tree' = [tree EXCEPT ![d] = n] /\ markers' = markers
                BY <3>1, <3>3, <4>1, InsideOutcome DEF Left
            <4> QED
                BY <3>1, <3>2, <4>1, <4>2, ApartPut
        <3>4. CASE Left(S3Move(s, d))
            <4>1. tree' = [[tree EXCEPT ![d] = tree[s]] EXCEPT ![s] = "none"] /\ markers' = markers
                <5>1. S3Copy(s, d).tree = [tree EXCEPT ![d] = tree[s]]
                    BY <3>1, InsideOutcome
                <5>2. S3Move(s, d) = Leave([[tree EXCEPT ![d] = tree[s]] EXCEPT ![s] = "none"])
                    BY <2>2, <5>1 DEF S3Move
                <5> QED
                    BY <3>4, <5>2, InsideOutcome DEF Left
            <4>2. \A q \in Paths : tree'[q] = IF q = s THEN "none" ELSE IF q = d THEN tree[s] ELSE tree[q]
                BY <4>1 DEF Trees
            <4>3. /\ \A q \in Paths : IsStrictPrefix(q, d) => tree[q] = "none"
                  /\ d \notin markers
                  /\ \A q \in Paths : IsStrictPrefix(d, q) => tree[q] = "none" /\ q \notin markers
                BY <3>1, <3>2, ApartMeans
            <4>4. tree'[<<>>] = "none"
                BY <3>1, <4>2, FilesAssumption DEF Apart
            <4>5. ASSUME NEW a \in Paths
                  PROVE /\ tree'[a] # "dir"
                        /\ tree'[a] # "none" => a \notin markers
                        /\ \A q \in Paths : tree'[a] # "none" /\ IsStrictPrefix(a, q) =>
                                                tree'[q] = "none" /\ q \notin markers
                <5>1. tree'[a] # "dir" /\ (tree'[a] # "none" => a \notin markers)
                    BY <3>1, <4>2, <4>3 DEF Apart
                <5>2. ASSUME NEW q \in Paths, tree'[a] # "none", IsStrictPrefix(a, q)
                      PROVE tree'[q] = "none" /\ q \notin markers
                    BY <3>1, <4>2, <4>3, <5>2, StrictIsOneWay DEF Apart
                <5> QED
                    BY <5>1, <5>2
            <4> QED
                BY <4>1, <4>4, <4>5 DEF Apart
        <3> QED
            BY <1>4, <3>3, <3>4
    <2> QED
        BY <2>1, <2>2
<1>a. CASE Uploaded
    BY <1>0, <1>1, <1>a, CarriedLeft DEF Uploaded, WriteFile
<1>b. CASE Made
    BY <1>0, <1>2, <1>b, CarriedLeft DEF Made, Mkdir
<1>c. CASE Removed
    BY <1>0, <1>3, <1>7, <1>c, CarriedLeft DEF Removed, Delete
<1>d. CASE RemovedSome
    BY <1>3, <1>d DEF RemovedSome, Answered, Left
<1>5. CASE Copied \/ Moved
    BY <1>0, <1>4, <1>5, CarriedLeft DEF Copied, Moved, CopyFile, MoveFile
<1>6. CASE Nothing \/ Restart \/ UNCHANGED vars
    BY <1>6, <1>0 DEF Nothing, Restart, vars
<1> QED
    BY <1>a, <1>b, <1>c, <1>d, <1>5, <1>6, StepKinds

LEMMA InitApart == Init => Apart
BY FilesAssumption DEF Init, Apart

\* What the listing of p has.
LEMMA KeysMean ==
    ASSUME Types, NEW p \in Paths
    PROVE /\ \A k \in S3Keys(p) : \E q \in Paths :
                \/ k = <<"file", q>> /\ IsStrictPrefix(p, q) /\ tree[q] # "none"
                \/ k = <<"marker", q>> /\ IsPrefix(p, q) /\ q \in markers \cap Paths
          /\ \A q \in Paths : IsStrictPrefix(p, q) /\ tree[q] # "none" => <<"file", q>> \in S3Keys(p)
          /\ \A q \in markers : IsPrefix(p, q) => <<"marker", q>> \in S3Keys(p)
BY DEF S3Keys, Types

LEMMA FrontIsPrefix ==
    ASSUME NEW q \in Paths, q # <<>>
    PROVE IsStrictPrefix(Front(q), q) /\ Front(q) \in Paths /\ Len(Front(q)) = Len(q) - 1
<1> q \in Seq(STRING) /\ Len(q) \in Nat /\ Len(q) # 0
    BY PathIsSeq
<1>1. Len(q) - 1 \in 0..Len(q)
    OBVIOUS
<1>2. Front(q) \in Paths
    BY <1>1, FilesAssumption DEF Front
<1>3. Front(q) = [i \in 1..(Len(q) - 1) |-> q[i]]
    BY DEF Front
<1>4. Len(Front(q)) = Len(q) - 1 /\ \A i \in 1..(Len(q) - 1) : Front(q)[i] = q[i]
    BY <1>3
<1> QED
    BY <1>2, <1>4, StrictMeans

\* Something lies below p.
Under(p) == \E q \in Paths : IsStrictPrefix(p, q) /\ (tree[q] # "none" \/ q \in markers)

LEMMA KeysExist ==
    ASSUME Types, NEW p \in Paths
    PROVE S3Keys(p) # {} <=> p \in markers \/ Under(p)
<1>1. S3Keys(p) # {} => p \in markers \/ Under(p)
    BY KeysMean DEF Under, IsStrictPrefix
<1>2. p \in markers => S3Keys(p) # {}
    BY KeysMean, PrefixReflexive
<1>3. Under(p) => S3Keys(p) # {}
    BY KeysMean DEF Under, IsStrictPrefix
<1> QED
    BY <1>1, <1>2, <1>3

\* stat, as the three places it looks at.
LEMMA StatMeans ==
    ASSUME Types, Apart, kind = "s3", NEW p \in Paths
    PROVE /\ View[p] = S3Node(p)
          /\ S3Node(p) = "dir" <=> p = <<>> \/ p \in markers \/ Under(p)
          /\ IsFile(S3Node(p)) <=> p # <<>> /\ tree[p] # "none"
          /\ IsFile(S3Node(p)) => S3Node(p) = tree[p]
<1>1. View[p] = S3Node(p)
    BY DEF View
<1>2. tree[p] # "none" => p # <<>> /\ p \notin markers /\ ~ Under(p) /\ tree[p] # "dir"
    BY DEF Apart, Under
<1>3. S3Node(p) = IF p = <<>> THEN "dir" ELSE
                  IF tree[p] # "none" THEN tree[p] ELSE
                  IF p \in markers THEN "dir" ELSE
                  IF Under(p) THEN "dir" ELSE "none"
    BY DEF S3Node, Under
<1> QED
    BY <1>1, <1>2, <1>3 DEF IsFile

\* A listing shows the children that stat finds.
LEMMA LevelMeans ==
    ASSUME Types, Apart, kind = "s3", NEW p \in Paths
    PROVE S3Level(p) = Children(View, p)
<1> DEFINE Shown(q) == \/ tree[q] # "none"
                       \/ \E k \in S3Keys(p) : IsStrictPrefix(q, k[2]) \/ k = <<"marker", q>>
<1>1. S3Level(p) = {q \in Paths : q # <<>> /\ Front(q) = p /\ Shown(q)}
    BY DEF S3Level
<1>2. ASSUME NEW q \in Paths, q # <<>>, Front(q) = p
      PROVE Shown(q) <=> View[q] # "none"
    <2>1. IsStrictPrefix(p, q)
        BY <1>2, FrontIsPrefix
    <2>2. View[q] # "none" <=> tree[q] # "none" \/ q \in markers \/ Under(q)
        BY <1>2, StatMeans DEF IsFile
    <2>3. q \in markers => <<"marker", q>> \in S3Keys(p)
        BY <2>1, KeysMean DEF IsStrictPrefix
    <2>4. ASSUME Under(q) PROVE \E k \in S3Keys(p) : IsStrictPrefix(q, k[2])
        <3>1. PICK a \in Paths : IsStrictPrefix(q, a) /\ (tree[a] # "none" \/ a \in markers)
            BY <2>4 DEF Under
        <3>2. IsStrictPrefix(p, a)
            BY <2>1, <3>1, PrefixTransitive, PrefixAntisymmetric DEF IsStrictPrefix
        <3>3. <<"file", a>> \in S3Keys(p) \/ <<"marker", a>> \in S3Keys(p)
            BY <3>1, <3>2, KeysMean DEF IsStrictPrefix
        <3> QED
            BY <3>1, <3>3
    <2>5. ASSUME NEW k \in S3Keys(p), IsStrictPrefix(q, k[2]) PROVE Under(q)
        BY <2>5, KeysMean DEF Under
    <2>6. ASSUME NEW k \in S3Keys(p), k = <<"marker", q>> PROVE q \in markers
        BY <2>6, KeysMean
    <2> QED
        BY <2>2, <2>3, <2>4, <2>5, <2>6
<1> HIDE DEF Shown
<1> QED
    BY <1>1, <1>2 DEF Children

\* One answer of the bucket shows some of the entries, and all if they fit.
LEMMA SubsetOfSize ==
    ASSUME NEW E, IsFiniteSet(E), NEW n \in Nat, n < Cardinality(E)
    PROVE \E S \in SUBSET E : Cardinality(S) = n
<1> DEFINE c == Cardinality(E)
<1>1. c \in Nat /\ ExistsBijection(1..c, E)
    BY FS_CardinalityType
<1>2. PICK f : f \in Bijection(1..c, E)
    BY <1>1 DEF ExistsBijection
<1> DEFINE S == {f[i] : i \in 1..n}
           g == [i \in 1..n |-> f[i]]
<1>3. f \in [1..c -> E] /\ \A i, j \in 1..c : f[i] = f[j] => i = j
    BY <1>2, Fun_BijectionProperties
<1>4. 1..n \subseteq 1..c
    BY <1>1
<1>5. S \subseteq E
    BY <1>3, <1>4
<1>6. g \in Bijection(1..n, S)
    <2>1. g \in [1..n -> S] /\ \A i, j \in 1..n : g[i] = g[j] => i = j
        BY <1>3, <1>4
    <2>2. \A x \in S : \E i \in 1..n : g[i] = x
        OBVIOUS
    <2> HIDE DEF g, S
    <2> QED
        BY <2>1, <2>2, Fun_IsBij
<1>7. ExistsBijection(1..n, S)
    BY <1>6 DEF ExistsBijection
<1>8. IsFiniteSet(1..n) /\ Cardinality(1..n) = n
    BY FS_Interval
<1>9. Cardinality(S) = n
    BY <1>7, <1>8, FS_Bijection
<1> QED
    BY <1>5, <1>9

LEMMA ListingMeans ==
    ASSUME NEW E, IsFiniteSet(E), NEW n \in Nat
    PROVE Listing(E, n) \subseteq E /\ (Cardinality(E) <= n => Listing(E, n) = E)
<1> DEFINE size == IF Cardinality(E) > n THEN n ELSE Cardinality(E)
<1>1. Cardinality(E) \in Nat
    BY FS_CardinalityType
<1>2. \E S \in SUBSET E : Cardinality(S) = size
    <2>1. CASE Cardinality(E) <= n
        BY <1>1, <2>1
    <2>2. CASE Cardinality(E) > n
        BY <1>1, <2>2, SubsetOfSize
    <2> QED
        BY <1>1, <2>1, <2>2
<1>3. Listing(E, n) \in SUBSET E /\ Cardinality(Listing(E, n)) = size
    BY <1>2 DEF Listing
<1>4. Cardinality(E) <= n => Listing(E, n) = E
    BY <1>1, <1>3, FS_Subset
<1> QED
    BY <1>3, <1>4

LEMMA ListMeans ==
    ASSUME Types, Apart, kind = "s3", NEW p \in Paths, NEW bad, S3List(p, bad).err = "ok"
    PROVE /\ S3List(p, bad).value \subseteq Children(View, p)
          /\ Cardinality(Children(View, p)) < Page => S3List(p, bad).value = Children(View, p)
<1> DEFINE C == Children(View, p)
           n == IF p \in markers THEN Page - 1 ELSE Page
<1>1. S3List(p, bad).value = Listing(C, n)
    BY LevelMeans DEF S3List, Found
<1>2. IsFiniteSet(C)
    BY FilesAssumption, FS_Subset DEF Children
<1>3. n \in Nat /\ Page \in Nat \ {0} /\ n >= Page - 1
    BY FilesAssumption
<1>4. Cardinality(C) \in Nat
    BY <1>2, FS_CardinalityType
<1> HIDE DEF C, n
<1>5. Listing(C, n) \subseteq C /\ (Cardinality(C) <= n => Listing(C, n) = C)
    BY <1>2, <1>3, ListingMeans
<1> QED
    BY <1>1, <1>3, <1>4, <1>5 DEF C

\* What ReadsAgree says of one path, while some calls of the bucket fail.
AgreeAt(p, bad) ==
    LET e == Exists(p, bad)  s == Stat(p, bad)  l == List(p, bad)  c == Content(p, bad)
        seen == ~ (kind \in {"os", "legacy"}) \/ Allowed(p)
        hidden == IsFile(View[p]) /\ "head" \in bad
    IN  /\ \A r \in {e.err, s.err, l.err, c.err} : r = "Permission" <=> ~ seen
        /\ e.err = "ok" => IF e.value THEN View[p] # "none" ELSE View[p] = "none" \/ hidden
        /\ s.err = "ok" => View[p] # "none" /\ s.value = View[p]
        /\ s.err = "NotFound" => View[p] = "none"
        /\ l.err = "ok" => /\ View[p] = "dir" /\ l.value \subseteq Children(View, p)
                           /\ Cardinality(Children(View, p)) < Page => l.value = Children(View, p)
        /\ l.err = "NotADirectory" => IsFile(View[p])
        /\ l.err = "NotFound" => View[p] = "none" \/ hidden
        /\ c.err = "ok" => IsFile(View[p]) /\ c.value = View[p]
        /\ c.err = "IsADirectory" => View[p] = "dir"
        /\ c.err = "NotFound" => ~ IsFile(View[p])
        /\ bad = {} => /\ e.err \in {"ok", "Permission"}
                       /\ s.err \in ReadCaught("stat") \cup {"ok"}
                       /\ l.err \in ReadCaught("ls") \cup {"ok"}
                       /\ c.err \in ReadCaught("cat") \cup {"ok"}

LEMMA CaughtMeans ==
    /\ ReadCaught("ls") = {"NotFound", "Permission", "NotADirectory"}
    /\ ReadCaught("cat") = {"NotFound", "Permission", "IsADirectory"}
    /\ ReadCaught("stat") = {"NotFound", "Permission"}
BY DEF ReadCaught

LEMMA AgreeS3 ==
    ASSUME Types, Apart, kind = "s3", NEW p \in Paths, NEW bad
    PROVE AgreeAt(p, bad)
<1> DEFINE hidden == IsFile(View[p]) /\ "head" \in bad
<1>0. /\ View[p] = "dir" <=> p = <<>> \/ p \in markers \/ Under(p)
      /\ IsFile(View[p]) <=> p # <<>> /\ tree[p] # "none"
      /\ IsFile(View[p]) => View[p] = tree[p]
      /\ S3Keys(p) # {} <=> p \in markers \/ Under(p)
      /\ IsFile(View[p]) <=> View[p] \notin {"none", "dir"}
    BY StatMeans, KeysExist DEF IsFile
<1>1. /\ Exists(p, bad).err \in {"ok", "Uncaught"} /\ (bad = {} => Exists(p, bad).err = "ok")
      /\ Exists(p, bad).err = "ok" =>
             IF Exists(p, bad).value THEN View[p] # "none" ELSE View[p] = "none" \/ hidden
    BY <1>0 DEF Exists, S3Exists, Found
<1>2. /\ Stat(p, bad).err \in {"ok", "NotFound", "Uncaught"} /\ (bad = {} => Stat(p, bad).err # "Uncaught")
      /\ Stat(p, bad).err = "ok" => View[p] # "none" /\ Stat(p, bad).value = View[p]
      /\ Stat(p, bad).err = "NotFound" => View[p] = "none"
    <2>1. Stat(p, bad) = S3Stat(p, bad)
        BY DEF Stat
    <2>2. tree[<<>>] = "none"
        BY DEF Apart
    <2> QED
        BY <1>0, <2>1, <2>2 DEF S3Stat, Found
<1>3. /\ List(p, bad).err \in {"ok", "NotADirectory", "NotFound", "Uncaught"}
      /\ bad = {} => List(p, bad).err # "Uncaught"
      /\ List(p, bad).err = "ok" =>
             /\ View[p] = "dir" /\ List(p, bad).value \subseteq Children(View, p)
             /\ Cardinality(Children(View, p)) < Page => List(p, bad).value = Children(View, p)
      /\ List(p, bad).err = "NotADirectory" => IsFile(View[p])
      /\ List(p, bad).err = "NotFound" => View[p] = "none" \/ hidden
    <2>1. List(p, bad) = S3List(p, bad)
        BY DEF List
    <2>2. /\ S3List(p, bad).err = "ok" => p = <<>> \/ S3Keys(p) # {}
          /\ S3List(p, bad).err \in {"ok", "NotADirectory", "NotFound", "Uncaught"}
          /\ bad = {} => S3List(p, bad).err # "Uncaught"
          /\ S3List(p, bad).err = "NotADirectory" => p # <<>> /\ S3Keys(p) = {} /\ tree[p] # "none"
          /\ S3List(p, bad).err = "NotFound" =>
                 p # <<>> /\ S3Keys(p) = {} /\ (tree[p] = "none" \/ "head" \in bad)
        BY DEF S3List, Found
    <2> QED
        BY <1>0, <2>1, <2>2, ListMeans
<1>4. /\ Content(p, bad).err \in {"ok", "IsADirectory", "NotFound", "Uncaught"}
      /\ bad = {} => Content(p, bad).err # "Uncaught"
      /\ Content(p, bad).err = "ok" => IsFile(View[p]) /\ Content(p, bad).value = View[p]
      /\ Content(p, bad).err = "IsADirectory" => View[p] = "dir"
      /\ Content(p, bad).err = "NotFound" => ~ IsFile(View[p])
    <2>1. Content(p, bad) = S3Content(p, bad)
        BY DEF Content
    <2> QED
        BY <1>0, <2>1 DEF S3Content, Found
<1> QED
    BY <1>1, <1>2, <1>3, <1>4, CaughtMeans DEF AgreeAt

LEMMA AgreeNodes ==
    ASSUME Types, kind # "s3", NEW p \in Paths
    PROVE AgreeAt(p, {})
<1>1. View[p] = tree[p] /\ Children(View, p) = Children(tree, p)
    BY DEF View, Children
<1>2. kind \in {"memory", "json", "sqlite", "os", "legacy"}
    BY FilesAssumption DEF Types
<1> DEFINE seen == ~ (kind \in {"os", "legacy"}) \/ Allowed(p)
<1>3. /\ Stat(p, {}) = IF seen THEN NodeStat(p) ELSE Found("Permission", "none")
      /\ List(p, {}) = IF seen THEN NodeList(p) ELSE Found("Permission", {})
      /\ Content(p, {}) = IF seen THEN NodeContent(p) ELSE Found("Permission", "none")
    BY <1>2 DEF Stat, List, Content, MemStat, MemList, MemContent, JsonStat, JsonList, JsonContent, SqliteStat,
                SqliteList, SqliteContent, OsStat, OsList, OsContent, LegacyStat, LegacyList, LegacyContent
<1>5. /\ Stat(p, {}).err \in {"ok", "NotFound", "Permission"}
      /\ Stat(p, {}).err = "Permission" <=> ~ seen
      /\ Stat(p, {}).err = "ok" => View[p] # "none" /\ Stat(p, {}).value = View[p]
      /\ Stat(p, {}).err = "NotFound" => View[p] = "none"
    BY <1>1, <1>3 DEF NodeStat, Found
<1>6. /\ List(p, {}).err \in {"ok", "NotFound", "Permission", "NotADirectory"}
      /\ List(p, {}).err = "Permission" <=> ~ seen
      /\ List(p, {}).err = "ok" => View[p] = "dir" /\ List(p, {}).value = Children(View, p)
      /\ List(p, {}).err = "NotADirectory" => IsFile(View[p])
      /\ List(p, {}).err = "NotFound" => View[p] = "none"
    BY <1>1, <1>3 DEF NodeList, Found, IsFile
<1>7. /\ Content(p, {}).err \in {"ok", "NotFound", "Permission", "IsADirectory"}
      /\ Content(p, {}).err = "Permission" <=> ~ seen
      /\ Content(p, {}).err = "ok" => IsFile(View[p]) /\ Content(p, {}).value = View[p]
      /\ Content(p, {}).err = "IsADirectory" => View[p] = "dir"
      /\ Content(p, {}).err = "NotFound" => ~ IsFile(View[p])
    BY <1>1, <1>3 DEF NodeContent, Found, IsFile
<1>8. /\ Exists(p, {}).err \in {"ok", "Permission"}
      /\ Exists(p, {}).err = "Permission" <=> ~ seen
      /\ Exists(p, {}).err = "ok" => (Exists(p, {}).value <=> View[p] # "none")
    BY <1>1, <1>2 DEF Exists, OsExists, Found
<1> QED
    BY <1>5, <1>6, <1>7, <1>8, CaughtMeans DEF AgreeAt

\* exists, stat, list and read tell the truth about what is where, whatever
\* calls of the bucket fail, and while none fails every way of reading ends
\* in an error its route knows.
THEOREM ReadingAgrees == Spec => []ReadsAgree
<1>1. Types /\ Apart /\ [Next]_vars => (Types /\ Apart)'
    BY NextTypes, StepApart
<1>2. Init => Types /\ Apart
    BY InitTypes, InitApart
<1>3. Types /\ Apart => ReadsAgree
    <2> SUFFICES ASSUME Types, Apart, NEW p \in Paths, NEW bad \in IF kind = "s3" THEN SUBSET Calls ELSE {{}}
                 PROVE AgreeAt(p, bad)
        BY DEF AgreeAt, ReadsAgree
    <2>1. kind # "s3" => bad = {}
        OBVIOUS
    <2> QED
        BY <2>1, AgreeS3, AgreeNodes
<1> QED
    BY <1>1, <1>2, <1>3, PTL DEF Spec

-----------------------------------------------------------------------------
(* Moving paths from below one path to below another *)

LEMMA RebaseShape ==
    ASSUME NEW q \in Paths, NEW s \in Paths, NEW d \in Paths, IsPrefix(s, q)
    PROVE /\ T!Rebase(q, s, d) \in Seq(STRING)
          /\ Len(T!Rebase(q, s, d)) = Len(d) + Len(q) - Len(s)
          /\ \A i \in 1..Len(d) : T!Rebase(q, s, d)[i] = d[i]
          /\ \A i \in 1..(Len(q) - Len(s)) : T!Rebase(q, s, d)[Len(d) + i] = q[Len(s) + i]
<1> q \in Seq(STRING) /\ s \in Seq(STRING) /\ d \in Seq(STRING)
    BY PathIsSeq
<1> DEFINE u == SubSeq(q, Len(s) + 1, Len(q))
<1>1. Len(s) <= Len(q) /\ Len(s) \in Nat /\ Len(q) \in Nat /\ Len(d) \in Nat
    BY PrefixMeans, PathIsSeq
<1>2. u = [i \in 1..(Len(q) - Len(s)) |-> q[Len(s) + i]]
    BY <1>1
<1>3. u \in Seq(STRING) /\ Len(u) = Len(q) - Len(s) /\ \A i \in 1..(Len(q) - Len(s)) : u[i] = q[Len(s) + i]
    BY <1>1, <1>2
<1>4. T!Rebase(q, s, d) = d \o u
    BY DEF T!Rebase
<1> HIDE DEF u
<1>5. Len(d \o u) = Len(d) + Len(u) /\ d \o u \in Seq(STRING)
    BY <1>3, ConcatProperties
<1>6. \A i \in 1..Len(d) : (d \o u)[i] = d[i]
    BY <1>1, <1>3
<1>7. \A i \in 1..Len(u) : (d \o u)[Len(d) + i] = u[i]
    BY <1>1, <1>3
<1> QED
    BY <1>1, <1>3, <1>4, <1>5, <1>6, <1>7

LEMMA SameSeq ==
    ASSUME NEW a \in Seq(STRING), NEW b \in Seq(STRING), Len(a) = Len(b), \A i \in 1..Len(a) : a[i] = b[i]
    PROVE a = b
OBVIOUS

\* A path moved there lies there; moved back it is itself.
LEMMA RebaseBelow ==
    ASSUME NEW q \in Paths, NEW s \in Paths, NEW d \in Paths, IsPrefix(s, q), T!Rebase(q, s, d) \in Paths
    PROVE /\ IsPrefix(d, T!Rebase(q, s, d))
          /\ T!Rebase(T!Rebase(q, s, d), d, s) = q
          /\ IsStrictPrefix(s, q) <=> IsStrictPrefix(d, T!Rebase(q, s, d))
<1> DEFINE y == T!Rebase(q, s, d)
<1>1. /\ Len(y) = Len(d) + Len(q) - Len(s)
      /\ \A i \in 1..Len(d) : y[i] = d[i]
      /\ \A i \in 1..(Len(q) - Len(s)) : y[Len(d) + i] = q[Len(s) + i]
    BY RebaseShape
<1> y \in Paths
    OBVIOUS
<1> HIDE DEF y
<1>2. Len(s) <= Len(q) /\ Len(s) \in Nat /\ Len(q) \in Nat /\ Len(d) \in Nat /\ Len(y) \in Nat
    BY PrefixMeans, PathIsSeq
<1>3. IsPrefix(d, y)
    BY <1>1, <1>2, PrefixMeans
<1>4. T!Rebase(y, d, s) = q
    <2> DEFINE z == T!Rebase(y, d, s)
    <2>1. /\ z \in Seq(STRING) /\ Len(z) = Len(s) + Len(y) - Len(d)
          /\ \A i \in 1..Len(s) : z[i] = s[i]
          /\ \A i \in 1..(Len(y) - Len(d)) : z[Len(s) + i] = y[Len(d) + i]
        BY <1>3, RebaseShape
    <2> HIDE DEF z
    <2>2. Len(z) = Len(q)
        BY <1>1, <1>2, <2>1
    <2>3. ASSUME NEW i \in 1..Len(q) PROVE z[i] = q[i]
        <3>1. CASE i <= Len(s)
            <4>1. s[i] = q[i]
                BY <1>2, <3>1, PrefixMeans
            <4> QED
                BY <1>2, <2>1, <3>1, <4>1
        <3>2. CASE i > Len(s)
            <4>1. PICK j \in 1..(Len(q) - Len(s)) : i = Len(s) + j
                <5>1. i - Len(s) \in 1..(Len(q) - Len(s)) /\ i = Len(s) + (i - Len(s))
                    BY <1>2, <3>2
                <5> QED
                    BY <5>1
            <4>2. Len(y) - Len(d) = Len(q) - Len(s)
                BY <1>1, <1>2
            <4>3. z[Len(s) + j] = y[Len(d) + j]
                BY <2>1, <4>2
            <4> QED
                BY <1>1, <4>1, <4>3
        <3> QED
            BY <1>2, <3>1, <3>2
    <2>4. q \in Seq(STRING)
        BY PathIsSeq
    <2> QED
        BY <2>1, <2>2, <2>3, <2>4, SameSeq DEF z
<1>5. IsStrictPrefix(s, q) <=> IsStrictPrefix(d, y)
    <2>1. IsStrictPrefix(s, q) <=> Len(s) < Len(q)
        BY StrictMeans, PrefixMeans
    <2>2. IsStrictPrefix(d, y) <=> Len(d) < Len(y)
        BY <1>3, StrictMeans, PrefixMeans
    <2> QED
        BY <1>1, <1>2, <2>1, <2>2
<1> QED
    BY <1>3, <1>4, <1>5 DEF y

LEMMA RebaseSelf == ASSUME NEW s \in Paths, NEW d \in Paths PROVE T!Rebase(s, s, d) = d
<1>1. /\ T!Rebase(s, s, d) \in Seq(STRING)
      /\ Len(T!Rebase(s, s, d)) = Len(d) + Len(s) - Len(s)
      /\ \A i \in 1..Len(d) : T!Rebase(s, s, d)[i] = d[i]
    BY RebaseShape, PrefixReflexive
<1>2. Len(T!Rebase(s, s, d)) = Len(d) /\ d \in Seq(STRING)
    BY <1>1, PathIsSeq
<1> QED
    BY <1>1, <1>2, SameSeq

\* What is between moves to between.
LEMMA RebaseKeepsOrder ==
    ASSUME NEW q \in Paths, NEW x \in Paths, NEW s \in Paths, NEW d \in Paths,
           IsPrefix(s, x), IsStrictPrefix(x, q), T!Rebase(q, s, d) \in Paths
    PROVE T!Rebase(x, s, d) \in Paths /\ IsStrictPrefix(T!Rebase(x, s, d), T!Rebase(q, s, d))
<1>0. IsPrefix(x, q) /\ IsPrefix(s, q) /\ Len(x) < Len(q)
    BY PrefixTransitive, StrictMeans DEF IsStrictPrefix
<1>a. ASSUME NEW a \in Paths, IsPrefix(s, a)
      PROVE /\ T!Rebase(a, s, d) \in Seq(STRING)
            /\ Len(T!Rebase(a, s, d)) = Len(d) + Len(a) - Len(s)
            /\ \A i \in 1..Len(d) : T!Rebase(a, s, d)[i] = d[i]
            /\ \A i \in 1..(Len(a) - Len(s)) : T!Rebase(a, s, d)[Len(d) + i] = a[Len(s) + i]
    BY <1>a, RebaseShape
<1> DEFINE y == T!Rebase(q, s, d)
           z == T!Rebase(x, s, d)
           m == Len(d) + Len(x) - Len(s)
<1> HIDE DEF m
<1>1. /\ Len(y) = Len(d) + Len(q) - Len(s)
      /\ \A i \in 1..Len(d) : y[i] = d[i]
      /\ \A i \in 1..(Len(q) - Len(s)) : y[Len(d) + i] = q[Len(s) + i]
    BY <1>0, <1>a
<1>2. /\ z \in Seq(STRING) /\ Len(z) = Len(d) + Len(x) - Len(s)
      /\ \A i \in 1..Len(d) : z[i] = d[i]
      /\ \A i \in 1..(Len(x) - Len(s)) : z[Len(d) + i] = x[Len(s) + i]
    BY <1>a
<1> y \in Paths
    OBVIOUS
<1> HIDE DEF y, z
<1>3. Len(s) <= Len(x) /\ Len(s) \in Nat /\ Len(x) \in Nat /\ Len(q) \in Nat /\ Len(d) \in Nat /\ Len(y) \in Nat
    BY PrefixMeans, PathIsSeq
<1>4. m \in 0..Len(y) /\ m < Len(y)
    BY <1>0, <1>1, <1>3 DEF m
<1>5. ASSUME NEW i \in 1..m PROVE z[i] = y[i]
    <2>1. CASE i <= Len(d)
        BY <1>1, <1>2, <1>3, <1>5, <2>1 DEF m
    <2>2. CASE i > Len(d)
        <3>1. PICK j \in 1..(Len(x) - Len(s)) : i = Len(d) + j
            <4>1. i - Len(d) \in 1..(Len(x) - Len(s)) /\ i = Len(d) + (i - Len(d))
                BY <1>3, <1>5, <2>2 DEF m
            <4> QED
                BY <4>1
        <3>2. j \in 1..(Len(q) - Len(s)) /\ Len(s) + j \in 1..Len(x)
            BY <1>0, <1>3
        <3>3. x[Len(s) + j] = q[Len(s) + j]
            BY <1>0, <3>2, PrefixMeans
        <3> QED
            BY <1>1, <1>2, <3>1, <3>2, <3>3
    <2> QED
        BY <1>3, <1>5, <2>1, <2>2 DEF m
<1>6. SubSeq(y, 1, m) \in Paths
    BY <1>4, FilesAssumption
<1>7. y \in Seq(STRING)
    BY PathIsSeq
<1>8. /\ SubSeq(y, 1, m) = [i \in 1..m |-> y[i]]
    BY <1>4, <1>7, <1>3
<1>9. Len(SubSeq(y, 1, m)) = m /\ SubSeq(y, 1, m) \in Seq(STRING) /\ \A i \in 1..m : SubSeq(y, 1, m)[i] = y[i]
    <2>1. Len(SubSeq(y, 1, m)) = m
        BY <1>4, <1>7, <1>3
    <2> QED
        BY <2>1, <1>6, <1>8, PathIsSeq
<1>10. z = SubSeq(y, 1, m)
    <2>1. Len(z) = m
        BY <1>2 DEF m
    <2> QED
        BY <1>2, <1>5, <1>9, <2>1, SameSeq
<1>11. z \in Paths
    BY <1>6, <1>10
<1>12. IsStrictPrefix(z, y)
    <2>1. Len(z) = m
        BY <1>2 DEF m
    <2> QED
        BY <1>4, <1>5, <1>11, <2>1, StrictMeans
<1> QED
    BY <1>11, <1>12 DEF y, z

-----------------------------------------------------------------------------
(* FileTree's steps, as relations between trees: t before, u after, and w  *)
(* what the whole request makes of t.                                      *)

\* All of it, but directories above p that are gone; a part of it.
Forgotten(t, w, u, p) ==
    \A q \in Paths : u[q] = w[q] \/ (q \in Above(p) \ {<<>>} /\ t[q] = "dir" /\ u[q] = "none")
PartOf(t, w, u, p) ==
    \A q \in Paths : \/ u[q] = w[q]
                     \/ q \in Above(p) \ {<<>>} /\ t[q] = "dir" /\ u[q] = "none"
                     \/ u[q] \in {t[q], Cut}

\* Files below s stay, or are where a move to d puts them.
KeepsFiles(t, s, d, u) ==
    \A q \in Paths : IsPrefix(s, q) /\ IsFile(t[q]) =>
        \E r \in {q, T!Rebase(q, s, d)} \cap Paths : u[r] = t[q]

PutTo(t, p, c, w) ==
    /\ t[p] # "dir" /\ \A q \in Above(p) : ~ IsFile(t[q])
    /\ w = [T!WithDirs(t, Above(p)) EXCEPT ![p] = c]
MakeTo(t, p, w) ==
    /\ \A q \in Above(p) : ~ IsFile(t[q])
    /\ w = T!WithDirs(t, Above(p) \cup {p})
EraseTo(t, p, w) == p # <<>> /\ t[p] # "none" /\ w = T!Without(t, p)
CopyTo(t, s, d, w) ==
    /\ t[s] # "none" /\ d # <<>>
    /\ w = T!Graft(T!WithDirs(t, Above(d)), s, d)
MoveTo(t, s, d, w, u) ==
    /\ s # <<>> /\ t[s] # "none" /\ d # <<>>
    /\ w = T!Without(T!Graft(T!WithDirs(t, Above(d)), s, d), s)
    /\ KeepsFiles(t, s, d, u)

\* The request's whole effect is w; what is above p may be gone with it.
Effect(op, t, w, u, p) ==
    \/ op \in {"write", "upload"} /\ p = <<>> /\ \E q \in Paths, c \in Stored : PutTo(t, q, c, w)
    \/ op = "mkdir" /\ p = <<>> /\ \E q \in Paths : MakeTo(t, q, w)
    \/ op = "delete" /\ EraseTo(t, p, w)
    \/ op = "copy" /\ p = <<>> /\ \E s, d \in Paths : CopyTo(t, s, d, w)
    \/ op = "move" /\ \E d \in Paths : MoveTo(t, p, d, w, u)

Does(op, t, u) == \E p \in Paths, w \in Trees : Effect(op, t, w, u, p) /\ Forgotten(t, w, u, p)
Begins(op, t, u) == \E p \in Paths, w \in Trees : Effect(op, t, w, u, p) /\ PartOf(t, w, u, p)

LEMMA LeavesMeans ==
    ASSUME NEW w, NEW p
    PROVE /\ Forgotten(View, w, View', p) => T!Leaves(w, p, TRUE) /\ T!Leaves(w, p, FALSE)
          /\ PartOf(View, w, View', p) /\ Store = "entries" => T!Leaves(w, p, FALSE)
BY DEF Forgotten, PartOf, T!Leaves, T!Forgets, Above

LEMMA EffectMeans ==
    ASSUME NEW op, NEW p \in Paths, NEW w, NEW whole, Effect(op, View, w, View', p), T!Leaves(w, p, whole)
    PROVE T!Does(op, whole)
<1>1. ASSUME NEW q \in Paths, NEW c \in Stored, PutTo(View, q, c, w), p = <<>>
      PROVE T!Put(q, c, whole)
    BY <1>1 DEF PutTo, T!Put, Above, IsFile, T!IsFile
<1>2. ASSUME NEW q \in Paths, MakeTo(View, q, w), p = <<>>
      PROVE T!Make(q, whole)
    BY <1>2 DEF MakeTo, T!Make, Above, IsFile, T!IsFile
<1>3. EraseTo(View, p, w) => T!Erase(p, whole)
    BY DEF EraseTo, T!Erase
<1>4. ASSUME NEW s \in Paths, NEW d \in Paths, CopyTo(View, s, d, w), p = <<>>
      PROVE T!Copy(s, d, whole)
    BY <1>4 DEF CopyTo, T!Copy, Above
<1>5. ASSUME NEW d \in Paths, MoveTo(View, p, d, w, View')
      PROVE T!Move(p, d, whole)
    <2>1. ~ T!Misses(p, d)
        BY <1>5, SamePrefix DEF MoveTo, KeepsFiles, T!Misses, T!Below, IsFile, T!IsFile
    <2> QED
        BY <1>5, <2>1 DEF MoveTo, T!Move, Above
<1> QED
    BY <1>1, <1>2, <1>3, <1>4, <1>5 DEF Effect, T!Does

LEMMA DoesMeans == ASSUME NEW op, Does(op, View, View') PROVE T!Does(op, TRUE) /\ T!Does(op, FALSE)
BY LeavesMeans, EffectMeans DEF Does

LEMMA BeginsMeans ==
    ASSUME NEW op, Begins(op, View, View'), Store = "entries"
    PROVE T!Does(op, FALSE)
BY LeavesMeans, EffectMeans DEF Begins

LEMMA ForgetsNothing == \A t, w, p : Forgotten(t, w, w, p)
BY DEF Forgotten

\* A request that has done nothing yet has done a part.
LEMMA NothingIsPart == \A t, w, p : PartOf(t, w, t, p)
BY DEF PartOf

\* The root is a directory, and so is what has something below it.
Grown(t) ==
    /\ t[<<>>] = "dir"
    /\ \A p, q \in Paths : t[p] # "none" /\ IsStrictPrefix(q, p) => t[q] = "dir"

LEMMA RootBelowNothing == \A q \in Paths : ~ IsStrictPrefix(q, <<>>) /\ IsPrefix(<<>>, q)
BY StrictMeans, PrefixMeans, FilesAssumption, PathIsSeq

LEMMA StrictTransitive ==
    ASSUME NEW p \in Paths, NEW q \in Paths, NEW r \in Paths, IsStrictPrefix(p, q), IsStrictPrefix(q, r)
    PROVE IsStrictPrefix(p, r)
BY PrefixTransitive, PrefixAntisymmetric DEF IsStrictPrefix

LEMMA GrownDirs ==
    ASSUME NEW t, Grown(t), NEW p \in Paths, NEW S, S = Above(p) \/ S = Above(p) \cup {p},
           \A q \in Above(p) : ~ IsFile(t[q])
    PROVE Grown(T!WithDirs(t, S))
<1> DEFINE u == T!WithDirs(t, S)
<1>1. \A q \in Paths : u[q] = IF q \in S /\ t[q] = "none" THEN "dir" ELSE t[q]
    BY WithDirsAt
<1>2. u[<<>>] = "dir"
    BY <1>1, FilesAssumption DEF Grown
<1>3. ASSUME NEW a \in Paths, NEW q \in Paths, u[a] # "none", IsStrictPrefix(q, a)
      PROVE u[q] = "dir"
    <2>1. CASE t[a] # "none"
        BY <1>1, <1>3, <2>1 DEF Grown
    <2>2. CASE a \in S
        <3>1. IsStrictPrefix(q, p)
            BY <1>3, <2>2, AboveMeans, StrictTransitive
        <3>2. q \in Above(p) /\ q \in S /\ ~ IsFile(t[q])
            BY <3>1, AboveMeans
        <3> QED
            BY <1>1, <3>2 DEF IsFile
    <2> QED
        BY <1>1, <1>3, <2>1, <2>2
<1> QED
    BY <1>2, <1>3 DEF Grown

LEMMA GrownPut ==
    ASSUME NEW t \in Trees, Grown(t), NEW p \in Paths, NEW c, c # "none", NEW u, PutTo(t, p, c, u)
    PROVE Grown(u)
<1> DEFINE w == T!WithDirs(t, Above(p))
<1>1. Grown(w) /\ w \in Trees
    BY GrownDirs, WithDirsType DEF PutTo
<1>2. w[p] = t[p] /\ t[p] # "dir"
    BY WithDirsAt, AboveMeans DEF PutTo, IsStrictPrefix
<1>3. u = [w EXCEPT ![p] = c]
    BY DEF PutTo
<1> HIDE DEF w
<1>4. \A q \in Paths : u[q] = IF q = p THEN c ELSE w[q]
    BY <1>1, <1>3 DEF Trees
<1>5. u[<<>>] = "dir"
    BY <1>1, <1>2, <1>4, FilesAssumption DEF Grown
<1>6. \A q \in Paths : IsStrictPrefix(q, p) => w[q] = "dir"
    BY WithDirsAt, AboveMeans DEF PutTo, IsFile, w
<1>7. ASSUME NEW a \in Paths, NEW q \in Paths, u[a] # "none", IsStrictPrefix(q, a)
      PROVE u[q] = "dir"
    <2>1. CASE a = p
        BY <1>4, <1>6, <1>7, <2>1, StrictIsOneWay
    <2>2. CASE a # p
        <3>1. w[q] = "dir"
            BY <1>1, <1>4, <1>7, <2>2 DEF Grown
        <3> QED
            BY <1>2, <1>4, <3>1
    <2> QED
        BY <2>1, <2>2
<1> QED
    BY <1>5, <1>7 DEF Grown

LEMMA GrownWithout ==
    ASSUME NEW t, Grown(t), NEW p \in Paths, p # <<>>
    PROVE Grown(T!Without(t, p))
<1> DEFINE u == T!Without(t, p)
<1>1. \A q \in Paths : u[q] = IF IsPrefix(p, q) THEN "none" ELSE t[q]
    BY WithoutAt
<1>2. ~ IsPrefix(p, <<>>)
    BY RootBelowNothing, FilesAssumption DEF IsStrictPrefix
<1>3. u[<<>>] = "dir"
    BY <1>1, <1>2, FilesAssumption DEF Grown
<1>4. ASSUME NEW a \in Paths, NEW q \in Paths, u[a] # "none", IsStrictPrefix(q, a)
      PROVE u[q] = "dir"
    BY <1>1, <1>4, PrefixTransitive DEF Grown, IsStrictPrefix
<1> QED
    BY <1>3, <1>4 DEF Grown

LEMMA GrownGraft ==
    ASSUME NEW t, Grown(t), NEW s \in Paths, NEW d \in Paths, d # <<>>, \A q \in Above(d) : ~ IsFile(t[q])
    PROVE Grown(T!Graft(T!WithDirs(t, Above(d)), s, d))
<1> DEFINE w == T!WithDirs(t, Above(d))
           u == T!Graft(w, s, d)
<1>1. Grown(w)
    BY GrownDirs
<1>2. \A q \in Paths : IsStrictPrefix(q, d) => w[q] = "dir"
    BY WithDirsAt, AboveMeans DEF IsFile
<1> HIDE DEF w
<1>3. \A q \in Paths : u[q] = IF ~ IsPrefix(d, q) THEN w[q]
                              ELSE IF T!Rebase(q, d, s) \in Paths THEN w[T!Rebase(q, d, s)] ELSE "none"
    BY GraftAt
<1> HIDE DEF u
<1>4. u[<<>>] = "dir"
    <2>1. ~ IsPrefix(d, <<>>)
        BY RootBelowNothing, FilesAssumption DEF IsStrictPrefix
    <2> QED
        BY <1>1, <1>3, <2>1, FilesAssumption DEF Grown
<1>5. ASSUME NEW a \in Paths, NEW q \in Paths, u[a] # "none", IsStrictPrefix(q, a)
      PROVE u[q] = "dir"
    <2>1. CASE ~ IsPrefix(d, a)
        <3>1. ~ IsPrefix(d, q)
            BY <1>5, <2>1, PrefixTransitive DEF IsStrictPrefix
        <3> QED
            BY <1>1, <1>3, <1>5, <2>1, <3>1 DEF Grown
    <2>2. CASE IsPrefix(d, a) /\ IsPrefix(d, q)
        <3>1. T!Rebase(a, d, s) \in Paths /\ w[T!Rebase(a, d, s)] # "none"
            BY <1>3, <1>5, <2>2
        <3>2. T!Rebase(q, d, s) \in Paths /\ IsStrictPrefix(T!Rebase(q, d, s), T!Rebase(a, d, s))
            BY <1>5, <2>2, <3>1, RebaseKeepsOrder
        <3>3. w[T!Rebase(q, d, s)] = "dir"
            BY <1>1, <3>1, <3>2 DEF Grown
        <3> QED
            BY <1>3, <2>2, <3>2, <3>3
    <2>3. CASE IsPrefix(d, a) /\ ~ IsPrefix(d, q)
        <3>1. IsStrictPrefix(q, d)
            BY <1>5, <2>3, PrefixesComparable, PrefixReflexive DEF IsStrictPrefix
        <3> QED
            BY <1>2, <1>3, <2>3, <3>1
    <2> QED
        BY <2>1, <2>2, <2>3
<1> QED
    BY <1>4, <1>5 DEF Grown, u, w

-----------------------------------------------------------------------------
(* The providers that keep nodes do what FileTree says *)

LEMMA AllowedIsNotTop == ASSUME NEW p \in Paths, Allowed(p) PROVE p # <<>>
<1> SUFFICES ASSUME p = <<>> PROVE FALSE
    OBVIOUS
<1>1. PICK r \in Roots : IsPrefix(r, p)
    BY AllowedMeans
<1>2. r \in Paths /\ r # <<>>
    BY FilesAssumption
<1> QED
    BY <1>1, <1>2, RootBelowNothing DEF IsStrictPrefix

LEMMA AboveFront ==
    ASSUME Grown(tree), NEW p \in Paths, p # <<>>, tree[Front(p)] = "dir"
    PROVE \A q \in Above(p) : tree[q] = "dir"
<1> SUFFICES ASSUME NEW q \in Paths, IsStrictPrefix(q, p) PROVE tree[q] = "dir"
    BY AboveMeans
<1>1. IsStrictPrefix(Front(p), p) /\ Front(p) \in Paths
    BY FrontIsPrefix
<1>2. p \in Seq(STRING) /\ Len(p) \in Nat /\ Len(p) # 0
    BY PathIsSeq
<1>3. Len(Front(p)) = Len(p) - 1
    BY FrontIsPrefix
<1>4. Len(q) <= Len(Front(p))
    BY <1>2, <1>3, StrictMeans, PathIsSeq
<1>5. IsPrefix(q, Front(p))
    <2>1. Len(q) \in Nat
        BY PathIsSeq
    <2>2. ASSUME NEW i \in 1..Len(q) PROVE q[i] = Front(p)[i]
        BY <1>1, <1>2, <1>3, <1>4, <2>1, StrictMeans
    <2> QED
        BY <1>1, <1>4, <2>2, PrefixMeans
<1>6. CASE q = Front(p)
    BY <1>6
<1>7. CASE q # Front(p)
    <2>1. IsStrictPrefix(q, Front(p))
        BY <1>5, <1>7 DEF IsStrictPrefix
    <2> QED
        BY <1>1, <2>1 DEF Grown
<1> QED
    BY <1>6, <1>7

LEMMA DirsThere ==
    ASSUME NEW t \in Trees, NEW S, \A q \in S \cap Paths : t[q] # "none"
    PROVE T!WithDirs(t, S) = t
BY DEF Trees, T!WithDirs

LEMMA ParentsMean ==
    ASSUME NEW S, NEW b \in BOOLEAN, ParentsError(S, b) = "ok"
    PROVE \A q \in S : ~ IsFile(tree[q])
BY DEF ParentsError

LEMMA NodeWrite ==
    ASSUME Types, Grown(tree), kind # "s3", NEW p \in Paths, NEW c \in Contents
    PROVE \/ WriteFile(p, c).err # "ok" /\ WriteFile(p, c).tree = tree
          \/ WriteFile(p, c).err = "ok" /\ \E n \in Stored : PutTo(tree, p, n, WriteFile(p, c).tree)
<1> DEFINE Right(r) == \/ r.err # "ok" /\ r.tree = tree
                       \/ r.err = "ok" /\ \E n \in Stored : PutTo(tree, p, n, r.tree)
<1> tree \in Trees
    BY DEF Types
<1>1. \A e : e # "ok" => Right(Fail(e))
    BY InsideOutcome
<1>2. \A t : (\E n \in Stored : PutTo(tree, p, n, t)) => Right(Leave(t))
    BY InsideOutcome
<1> HIDE DEF Right
<1>3. ASSUME NEW n \in Stored PROVE Right(MemWrite(p, n))
    <2>1. ParentsError(Above(p), TRUE) = "ok" /\ tree[p] # "dir" =>
              PutTo(tree, p, n, [T!WithDirs(tree, Above(p)) EXCEPT ![p] = n])
        BY ParentsMean DEF PutTo
    <2> QED
        BY <1>1, <1>2, <2>1 DEF MemWrite
<1>4. c \in Stored /\ AsText(c) \in Stored
    BY DEF Stored, AsText
<1>5. Right(MemWrite(p, c)) /\ Right(JsonWrite(p, c)) /\ Right(SqliteWrite(p, c))
    BY <1>3, <1>4 DEF JsonWrite, SqliteWrite
<1>6. Allowed(p) /\ tree[p] # "dir" /\ tree[Front(p)] = "dir" => Right(Leave([tree EXCEPT ![p] = c]))
    <2> SUFFICES ASSUME Allowed(p), tree[p] # "dir", tree[Front(p)] = "dir"
                 PROVE PutTo(tree, p, c, [tree EXCEPT ![p] = c])
        BY <1>2, <1>4
    <2>1. \A q \in Above(p) : tree[q] = "dir"
        BY AllowedIsNotTop, AboveFront
    <2>2. T!WithDirs(tree, Above(p)) = tree
        BY <2>1, DirsThere
    <2> QED
        BY <2>1, <2>2 DEF PutTo, IsFile
<1>7. Right(OsWrite(p, c)) /\ Right(LegacyUpload(p, c))
    BY <1>1, <1>6 DEF OsWrite, LegacyUpload
<1>8. Right(WriteFile(p, c))
    BY <1>5, <1>7 DEF WriteFile
<1> QED
    BY <1>8 DEF Right

LEMMA NodeMkdir ==
    ASSUME Types, Grown(tree), kind # "s3", NEW p \in Paths, NEW b \in BOOLEAN
    PROVE \/ Mkdir(p, b).err # "ok" /\ Mkdir(p, b).tree = tree
          \/ Mkdir(p, b).err = "ok" /\ MakeTo(tree, p, Mkdir(p, b).tree)
<1> DEFINE Right(r) == \/ r.err # "ok" /\ r.tree = tree
                       \/ r.err = "ok" /\ MakeTo(tree, p, r.tree)
<1> tree \in Trees
    BY DEF Types
<1>1. \A e : e # "ok" => Right(Fail(e))
    BY InsideOutcome
<1>2. \A t : MakeTo(tree, p, t) => Right(Leave(t))
    BY InsideOutcome
<1> HIDE DEF Right
<1>3. (\A q \in Above(p) : ~ IsFile(tree[q])) => Right(Leave(T!WithDirs(tree, Above(p) \cup {p})))
    BY <1>2 DEF MakeTo
<1>4. p = <<>> => Right(Leave(tree))
    <2>1. p = <<>> => Above(p) = {}
        BY AboveMeans, RootBelowNothing
    <2>2. p = <<>> => T!WithDirs(tree, Above(p) \cup {p}) = tree
        BY <2>1, DirsThere DEF Grown
    <2> QED
        BY <1>2, <2>1, <2>2 DEF MakeTo
<1>5. Right(MemMkdir(p, b))
    <2> DEFINE S == IF b THEN Above(p) \cup {p} ELSE Above(p)
    <2>1. ParentsError(S, b) = "ok" => \A q \in Above(p) : ~ IsFile(tree[q])
        <3> SUFFICES ASSUME ParentsError(S, b) = "ok" PROVE \A q \in S : ~ IsFile(tree[q])
            OBVIOUS
        <3> HIDE DEF S
        <3> QED
            BY ParentsMean
    <2> QED
        BY <1>1, <1>3, <1>4, <2>1 DEF MemMkdir
<1>6. Right(Makedirs(p))
    BY <1>1, <1>3 DEF Makedirs
<1>7. p # <<>> /\ tree[Front(p)] = "dir" =>
          /\ tree[p] # "none" => Right(Leave(tree))
          /\ tree[p] = "none" => Right(Leave([tree EXCEPT ![p] = "dir"]))
    <2> SUFFICES ASSUME p # <<>>, tree[Front(p)] = "dir"
                 PROVE /\ tree[p] # "none" => Right(Leave(tree))
                       /\ tree[p] = "none" => Right(Leave([tree EXCEPT ![p] = "dir"]))
        OBVIOUS
    <2>1. \A q \in Above(p) : tree[q] = "dir"
        BY AboveFront
    <2>2. tree[p] # "none" => T!WithDirs(tree, Above(p) \cup {p}) = tree
        BY <2>1, DirsThere
    <2>3. tree[p] = "none" => T!WithDirs(tree, Above(p) \cup {p}) = [tree EXCEPT ![p] = "dir"]
        <3> SUFFICES ASSUME tree[p] = "none"
                     PROVE T!WithDirs(tree, Above(p) \cup {p}) = [tree EXCEPT ![p] = "dir"]
            OBVIOUS
        <3>1. T!WithDirs(tree, Above(p) \cup {p}) \in Trees /\ [tree EXCEPT ![p] = "dir"] \in Trees
            BY WithDirsType, SetType DEF Nodes
        <3>2. ASSUME NEW q \in Paths PROVE T!WithDirs(tree, Above(p) \cup {p})[q] = [tree EXCEPT ![p] = "dir"][q]
            BY <2>1, WithDirsAt DEF Trees
        <3> HIDE DEF Trees
        <3> QED
            BY <3>1, <3>2 DEF Trees
    <2> QED
        BY <1>3, <2>1, <2>2, <2>3 DEF IsFile
<1>8. Right(OsMkdir(p, b)) /\ Right(LegacyMkdir(p))
    BY <1>1, <1>6, <1>7, AllowedIsNotTop DEF OsMkdir, LegacyMkdir
<1>9. Right(SqliteMkdir(p, b))
    <2>1. CASE b \/ p = <<>>
        BY <1>5, <2>1 DEF SqliteMkdir
    <2>2. CASE ~ (b \/ p = <<>>)
        <3>1. tree[p] # "none" /\ ~ IsFile(tree[p]) => [tree EXCEPT ![p] = "dir"] = tree
            BY DEF Trees, IsFile
        <3> QED
            BY <1>1, <1>7, <2>2, <3>1 DEF SqliteMkdir
    <2> QED
        BY <2>1, <2>2
<1>10. Right(JsonMkdir(p, b))
    <2>1. JsonMkdir(p, b).err = MemMkdir(p, b).err /\ JsonMkdir(p, b).tree = MemMkdir(p, b).tree
        BY DEF JsonMkdir, MemMkdir, Leave, Fail, Outcome
    <2> QED
        BY <1>5, <2>1 DEF Right
<1>11. Right(Mkdir(p, b))
    BY <1>5, <1>8, <1>9, <1>10 DEF Mkdir
<1> QED
    BY <1>11 DEF Right

LEMMA LikeIsBelow ==
    ASSUME Alike = {}, NEW p \in Paths, p # <<>>, NEW q \in Paths
    PROVE LikeBelow(p, q) <=> IsStrictPrefix(p, q)
BY StrictMeans, PathIsSeq DEF LikeBelow

LEMMA SqliteDeletes ==
    ASSUME Alike = {}, NEW t, NEW p \in Paths, p # <<>>
    PROVE SqliteDelete(t, p) = T!Without(t, p)
<1>1. \A q \in Paths : IsPrefix(p, q) <=> q = p \/ LikeBelow(p, q)
    BY LikeIsBelow, PrefixReflexive DEF IsStrictPrefix
<1> QED
    BY <1>1, SamePrefix DEF SqliteDelete, T!Without

\* Without children there is nothing below.
LEMMA NoChildren ==
    ASSUME Types, Grown(tree), NEW p \in Paths, tree[p] # "dir" \/ Children(tree, p) = {}
    PROVE \A q \in Paths : IsStrictPrefix(p, q) => tree[q] = "none"
<1> SUFFICES ASSUME NEW q \in Paths, IsStrictPrefix(p, q), tree[q] # "none" PROVE FALSE
    OBVIOUS
<1>1. tree[p] = "dir" /\ Children(tree, p) = {}
    BY DEF Grown
<1>2. Len(p) \in Nat /\ Len(q) \in Nat /\ Len(p) < Len(q) /\ p \in Seq(STRING) /\ q \in Seq(STRING)
    BY StrictMeans, PathIsSeq
<1> DEFINE m == Len(p) + 1
           a == SubSeq(q, 1, m)
<1>3. a \in Paths
    BY <1>2, FilesAssumption
<1>4. Len(a) = m /\ \A i \in 1..m : a[i] = q[i]
    BY <1>2, SubSeqProperties
<1> HIDE DEF a
<1>5. a # <<>> /\ m \in Nat /\ m <= Len(q)
    BY <1>2, <1>4
<1>6. IsPrefix(a, q)
    BY <1>3, <1>4, <1>5, PrefixMeans
<1>7. tree[a] # "none"
    BY <1>3, <1>6 DEF Grown, IsStrictPrefix
<1>8. Front(a) = p
    <2>1. IsStrictPrefix(Front(a), a) /\ Front(a) \in Paths /\ Len(Front(a)) = Len(p)
        BY <1>2, <1>3, <1>4, <1>5, FrontIsPrefix
    <2>2. ASSUME NEW i \in 1..Len(p) PROVE Front(a)[i] = p[i]
        <3>1. Front(a)[i] = a[i]
            BY <1>3, <2>1, StrictMeans
        <3>2. a[i] = q[i] /\ p[i] = q[i]
            BY <1>2, <1>4, StrictMeans
        <3> QED
            BY <3>1, <3>2
    <2> QED
        BY <2>1, <2>2, SamePath
<1>9. a \in Children(tree, p)
    BY <1>3, <1>5, <1>7, <1>8 DEF Children
<1> QED
    BY <1>1, <1>9

LEMMA NodeDelete ==
    ASSUME Types, Grown(tree), Alike = {}, kind # "s3", NEW p \in Paths, NEW b \in BOOLEAN
    PROVE \/ Delete(p, b).err # "ok" /\ Delete(p, b).tree = tree
          \/ /\ Delete(p, b).err = "ok" /\ p # <<>> /\ tree[p] # "none"
             /\ Delete(p, b).tree = T!Without(tree, p)
<1> DEFINE Right(r) == \/ r.err # "ok" /\ r.tree = tree
                       \/ r.err = "ok" /\ p # <<>> /\ tree[p] # "none" /\ r.tree = T!Without(tree, p)
<1> tree \in Trees
    BY DEF Types
<1>1. \A e : e # "ok" => Right(Fail(e))
    BY InsideOutcome
<1>2. p # <<>> /\ tree[p] # "none" => Right(Leave(T!Without(tree, p)))
    BY InsideOutcome
<1> HIDE DEF Right
<1>3. Right(MemRemove(p, b)) /\ Right(JsonRemove(p, b))
    BY <1>1, <1>2 DEF MemRemove, JsonRemove
<1>4. tree[p] # "dir" \/ Children(tree, p) = {} => [tree EXCEPT ![p] = "none"] = T!Without(tree, p)
    <2> SUFFICES ASSUME tree[p] # "dir" \/ Children(tree, p) = {}
                 PROVE [tree EXCEPT ![p] = "none"] = T!Without(tree, p)
        OBVIOUS
    <2>1. T!Without(tree, p) \in Trees /\ [tree EXCEPT ![p] = "none"] \in Trees
        BY WithoutType, SetType DEF Nodes
    <2>2. ASSUME NEW q \in Paths PROVE T!Without(tree, p)[q] = [tree EXCEPT ![p] = "none"][q]
        <3>1. IsStrictPrefix(p, q) => tree[q] = "none"
            BY NoChildren
        <3> QED
            BY <3>1, WithoutAt, PrefixReflexive DEF Trees, IsStrictPrefix
    <2> QED
        BY <2>1, <2>2 DEF Trees
<1>5. Right(SqliteRemove(p, b))
    BY <1>1, <1>2, <1>4, SqliteDeletes DEF SqliteRemove
<1>6. Right(OsRemove(p, b)) /\ Right(LegacyRemove(p))
    BY <1>1, <1>2, AllowedIsNotTop DEF OsRemove, LegacyRemove
<1>7. Right(Delete(p, b))
    BY <1>3, <1>5, <1>6 DEF Delete
<1> QED
    BY <1>7 DEF Right

\* Rows copied one by one to where nothing is make the copy of the tree.
LEMMA SqliteCopies ==
    ASSUME Types, Grown(tree), Alike = {}, NEW s \in Paths, NEW d \in Paths, tree[s] # "none",
           tree[d] = "none", ~ IsPrefix(s, d), SqliteCopy(s, d).err = "ok"
    PROVE SqliteCopy(s, d).tree = T!Graft(T!WithDirs(tree, Above(d)), s, d)
<1> DEFINE w == T!WithDirs(tree, Above(d))
           t == [w EXCEPT ![d] = tree[s]]
           rows == {q \in Paths : LikeBelow(s, q) /\ t[q] # "none" /\ tree[s] = "dir"}
           From(q) == {r \in rows : T!Rebase(r, s, d) = q}
           u == [q \in Paths |-> IF From(q) = {} THEN t[q] ELSE t[CHOOSE r \in From(q) : TRUE]]
           g == T!Graft(w, s, d)
<1>1. SqliteCopy(s, d).tree = u
    BY InsideOutcome DEF SqliteCopy
<1>2. w \in Trees /\ tree \in Trees
    BY WithDirsType DEF Types
<1>3. s # <<>>
    BY RootBelowNothing
<1>4. \A q \in Paths : w[q] = IF q \in Above(d) /\ tree[q] = "none" THEN "dir" ELSE tree[q]
    BY WithDirsAt
<1>5. \A q \in Paths : IsPrefix(s, q) => w[q] = tree[q] /\ q # d
    BY <1>4, AboveMeans, PrefixTransitive DEF IsStrictPrefix
<1>6. \A q \in Paths : g[q] = IF ~ IsPrefix(d, q) THEN w[q]
                              ELSE IF T!Rebase(q, d, s) \in Paths THEN w[T!Rebase(q, d, s)] ELSE "none"
    BY GraftAt
<1>7. g \in Trees
    BY <1>2, GraftType
<1> HIDE DEF w, g
<1>8. \A q \in Paths : t[q] = IF q = d THEN tree[s] ELSE w[q]
    BY <1>2 DEF Trees
<1> HIDE DEF t
<1>9. \A q \in Paths : q \in rows <=> IsStrictPrefix(s, q) /\ w[q] # "none" /\ tree[s] = "dir"
    BY <1>3, <1>5, <1>8, LikeIsBelow DEF IsStrictPrefix
<1>10. rows \subseteq Paths
    OBVIOUS
<1> HIDE DEF rows
<1>11. ASSUME NEW q \in Paths PROVE u[q] = g[q]
    <2>0. u[q] = IF From(q) = {} THEN t[q] ELSE t[CHOOSE r \in From(q) : TRUE]
        OBVIOUS
    <2>1. ASSUME NEW r \in From(q)
          PROVE r \in rows /\ r \in Paths /\ T!Rebase(r, s, d) = q /\ IsPrefix(d, q) /\ q # d /\ T!Rebase(q, d, s) = r
        <3>1. r \in rows /\ r \in Paths /\ T!Rebase(r, s, d) = q /\ IsStrictPrefix(s, r)
            BY <1>9, <1>10
        <3>2. IsPrefix(d, q) /\ T!Rebase(q, d, s) = r /\ IsStrictPrefix(d, q)
            BY <3>1, RebaseBelow DEF IsStrictPrefix
        <3> QED
            BY <3>1, <3>2 DEF IsStrictPrefix
    <2>2. CASE ~ IsPrefix(d, q)
        <3>1. From(q) = {}
            BY <2>1, <2>2
        <3>2. q # d
            BY <2>2, PrefixReflexive
        <3> HIDE DEF From
        <3> QED
            BY <1>6, <1>8, <2>0, <2>2, <3>1, <3>2
    <2>3. CASE q = d
        <3>1. From(q) = {}
            BY <2>1, <2>3
        <3>2. T!Rebase(q, d, s) = s /\ IsPrefix(d, q) /\ IsPrefix(s, s)
            BY <2>3, RebaseSelf, PrefixReflexive
        <3> HIDE DEF From
        <3> QED
            BY <1>5, <1>6, <1>8, <2>0, <2>3, <3>1, <3>2
    <2>4. CASE IsStrictPrefix(d, q) /\ From(q) # {}
        <3> DEFINE r == CHOOSE r \in From(q) : TRUE
        <3>1. r \in From(q)
            BY <2>4
        <3>2. r \in rows /\ r \in Paths /\ IsPrefix(d, q) /\ T!Rebase(q, d, s) = r
            BY <2>1, <3>1
        <3>3. u[q] = t[r]
            BY <2>0, <2>4
        <3> HIDE DEF r, From, u
        <3>4. IsPrefix(s, r)
            BY <1>9, <3>2 DEF IsStrictPrefix
        <3>5. t[r] = w[r]
            BY <1>5, <1>8, <3>2, <3>4
        <3> QED
            BY <1>6, <3>2, <3>3, <3>5
    <2>5. CASE IsStrictPrefix(d, q) /\ From(q) = {}
        <3>1. u[q] = t[q] /\ q # d /\ IsPrefix(d, q)
            BY <2>0, <2>5 DEF IsStrictPrefix
        <3>2. tree[q] = "none"
            BY <2>5 DEF Grown
        <3>3. q \notin Above(d)
            BY <2>5, AboveMeans, StrictIsOneWay
        <3>4. u[q] = "none"
            BY <1>4, <1>8, <3>1, <3>2, <3>3
        <3>5. ASSUME T!Rebase(q, d, s) \in Paths PROVE w[T!Rebase(q, d, s)] = "none"
            <4> DEFINE x == T!Rebase(q, d, s)
            <4>1. x \in Paths /\ IsStrictPrefix(s, x) /\ IsPrefix(s, x) /\ T!Rebase(x, s, d) = q
                BY <2>5, <3>1, <3>5, RebaseBelow DEF IsStrictPrefix
            <4> HIDE DEF x
            <4>2. x \notin rows
                BY <2>5, <4>1
            <4>3. CASE tree[s] = "dir"
                BY <1>9, <4>1, <4>2, <4>3 DEF x
            <4>4. CASE tree[s] # "dir"
                <5>1. tree[x] = "none"
                    BY <4>1, <4>4 DEF Grown
                <5> QED
                    BY <1>5, <4>1, <5>1 DEF x
            <4> QED
                BY <4>3, <4>4
        <3> QED
            BY <1>6, <3>1, <3>4, <3>5
    <2> QED
        BY <2>2, <2>3, <2>4, <2>5 DEF IsStrictPrefix
<1>12. u = g
    <2> HIDE DEF From
    <2>1. u \in [Paths -> {u[q] : q \in Paths}]
        OBVIOUS
    <2>2. DOMAIN u = Paths /\ DOMAIN g = Paths /\ u = [q \in Paths |-> u[q]] /\ g = [q \in Paths |-> g[q]]
        BY <1>7 DEF Trees
    <2> HIDE DEF u
    <2> QED
        BY <1>11, <2>2
<1> QED
    BY <1>1, <1>12 DEF g, w

LEMMA NodeCopy ==
    ASSUME Types, Grown(tree), Alike = {}, kind \notin {"s3", "legacy"}, NEW s \in Paths, NEW d \in Paths,
           tree[d] = "none", ~ IsPrefix(s, d)
    PROVE \/ CopyFile(s, d).err # "ok" /\ CopyFile(s, d).tree = tree
          \/ /\ CopyFile(s, d).err = "ok" /\ CopyTo(tree, s, d, CopyFile(s, d).tree)
             /\ \A q \in Above(d) : ~ IsFile(tree[q])
<1> DEFINE Right(r) == \/ r.err # "ok" /\ r.tree = tree
                       \/ r.err = "ok" /\ CopyTo(tree, s, d, r.tree) /\ \A q \in Above(d) : ~ IsFile(tree[q])
           g == T!Graft(T!WithDirs(tree, Above(d)), s, d)
<1>1. \A e : e # "ok" => Right(Fail(e))
    BY InsideOutcome
<1>2. tree[s] # "none" /\ d # <<>> /\ (\A q \in Above(d) : ~ IsFile(tree[q])) => Right(Leave(g))
    BY InsideOutcome DEF CopyTo
<1>3. ParentsError(Above(d), TRUE) = "ok" => \A q \in Above(d) : ~ IsFile(tree[q])
    BY ParentsMean
<1>4. Right(MemCopy(s, d)) /\ Right(JsonCopy(s, d))
    <2> HIDE DEF Right
    <2> QED
        BY <1>1, <1>2, <1>3 DEF MemCopy, JsonCopy
<1>5. Right(SqliteCopy(s, d))
    <2>1. \/ \E e : e # "ok" /\ SqliteCopy(s, d) = Fail(e)
          \/ /\ SqliteCopy(s, d).err = "ok" /\ d # <<>> /\ tree[s] # "none"
             /\ ParentsError(Above(d), TRUE) = "ok"
        BY InsideOutcome DEF SqliteCopy
    <2> QED
        BY <1>1, <1>3, <2>1, SqliteCopies DEF CopyTo
<1>6. Right(OsCopy(s, d))
    <2> HIDE DEF Right
    <2> QED
        BY <1>1, <1>2, AllowedIsNotTop DEF OsCopy, OsCopyTo
<1>7. Right(CopyFile(s, d))
    <2> HIDE DEF Right
    <2> QED
        BY <1>4, <1>5, <1>6 DEF CopyFile
<1> QED
    BY <1>7

LEMMA NodeMove ==
    ASSUME Types, Grown(tree), Alike = {}, kind \notin {"s3", "legacy"}, NEW s \in Paths, NEW d \in Paths,
           tree[d] = "none", ~ IsPrefix(s, d)
    PROVE \/ MoveFile(s, d).err # "ok" /\ MoveFile(s, d).tree = tree
          \/ /\ MoveFile(s, d).err = "ok" /\ tree[s] # "none"
             /\ MoveFile(s, d).tree = T!Without(T!Graft(T!WithDirs(tree, Above(d)), s, d), s)
             /\ s # <<>> /\ d # <<>> /\ \A q \in Above(d) : ~ IsFile(tree[q])
<1> DEFINE g == T!Graft(T!WithDirs(tree, Above(d)), s, d)
           Right(r) == \/ r.err # "ok" /\ r.tree = tree
                       \/ /\ r.err = "ok" /\ tree[s] # "none" /\ r.tree = T!Without(g, s)
                          /\ s # <<>> /\ d # <<>> /\ \A q \in Above(d) : ~ IsFile(tree[q])
           Copying(r) == \/ r.err # "ok" /\ r.tree = tree
                         \/ /\ r.err = "ok" /\ CopyTo(tree, s, d, r.tree) /\ tree[s] # "none" /\ d # <<>>
                            /\ r.tree = g /\ \A q \in Above(d) : ~ IsFile(tree[q])
<1>1. \A e : e # "ok" => Right(Fail(e)) /\ Copying(Fail(e))
    BY InsideOutcome
<1>2. tree[s] # "none" /\ d # <<>> /\ (\A q \in Above(d) : ~ IsFile(tree[q])) => Copying(Leave(g))
    BY InsideOutcome DEF CopyTo
<1>3. s # <<>> /\ tree[s] # "none" /\ d # <<>> /\ (\A q \in Above(d) : ~ IsFile(tree[q]))
          => Right(Leave(T!Without(g, s)))
    BY InsideOutcome
<1>4. ParentsError(Above(d), TRUE) = "ok" => \A q \in Above(d) : ~ IsFile(tree[q])
    BY ParentsMean
<1>5. Copying(MemCopy(s, d))
    <2> HIDE DEF Copying
    <2> QED
        BY <1>1, <1>2, <1>4 DEF MemCopy
<1>6. Copying(SqliteCopy(s, d))
    <2>1. \/ \E e : e # "ok" /\ SqliteCopy(s, d) = Fail(e)
          \/ /\ SqliteCopy(s, d).err = "ok" /\ d # <<>> /\ tree[s] # "none"
             /\ ParentsError(Above(d), TRUE) = "ok"
        BY InsideOutcome DEF SqliteCopy
    <2> QED
        BY <1>1, <1>4, <2>1, SqliteCopies DEF CopyTo
<1>7. d # <<>> /\ tree[s] # "none" => Copying(OsCopyTo(s, d))
    <2> HIDE DEF Copying
    <2> QED
        BY <1>1, <1>2 DEF OsCopyTo
<1>8. tree[s] # "none" => g[s] # "none"
    <2>1. ~ IsPrefix(d, s) \/ tree[s] = "none"
        BY DEF Grown, IsStrictPrefix
    <2> QED
        BY <2>1, GraftAt, WithDirsAt
<1> HIDE DEF g
<1>9. Right(MemMove(s, d))
    BY <1>1, <1>3, <1>5, <1>8 DEF MemMove
<1>10. Right(JsonMove(s, d))
    BY <1>1, <1>3, <1>5 DEF JsonMove
<1>11. Right(SqliteMove(s, d))
    BY <1>1, <1>3, <1>6, SqliteDeletes DEF SqliteMove
<1>12. Right(OsMove(s, d))
    BY <1>1, <1>3, <1>7, AllowedIsNotTop DEF OsMove
<1>13. Right(MoveFile(s, d))
    <2> HIDE DEF Right
    <2> QED
        BY <1>9, <1>10, <1>11, <1>12 DEF MoveFile
<1> QED
    BY <1>13 DEF g

-----------------------------------------------------------------------------
(* A request that is broken off has done a part of its work *)

\* What a step of these providers leaves.
Entries == kind \notin {"memory", "json"}

LEMMA StagesMean ==
    ASSUME NEW r, NEW midway, NEW o \in Stages(r, midway)
    PROVE /\ kind # "memory" /\ r.err = "ok" /\ r.save
          /\ o = r \/ (Entries /\ (o = Leave(tree) \/ o \in midway))
BY DEF Stages, Entries

LEMMA PartWayPart ==
    ASSUME NEW t \in Trees, NEW u \in Trees, Grown(t), Grown(u), NEW v \in PartWay(t, u)
    PROVE /\ Grown(v) /\ v \in Trees
          /\ \A q \in Paths : \/ v[q] = t[q] \/ v[q] = u[q]
                              \/ v[q] = Cut /\ IsFile(u[q]) /\ t[q] # u[q]
<1>1. /\ v \in Trees
      /\ \A q \in Paths : \/ v[q] = t[q] \/ v[q] = u[q]
                          \/ v[q] = Cut /\ IsFile(u[q]) /\ t[q] # u[q]
      /\ \A q \in Paths : v[q] # "none" => \A a \in Above(q) : v[a] = "dir"
    BY PartWayMeans
<1>2. v[<<>>] = "dir"
    BY <1>1, FilesAssumption DEF Grown
<1> QED
    BY <1>1, <1>2, AboveMeans DEF Grown

\* write_file and copy make what is missing above p, and then what is at p
\* and below.
LEMMA FileStagesPart ==
    ASSUME Types, Grown(tree), NEW r, Sane(r), Grown(r.tree), NEW p \in Paths,
           \A q \in Above(p) : ~ IsFile(tree[q]), kind # "s3",
           \A q \in Paths : ~ IsPrefix(p, q) => r.tree[q] = T!WithDirs(tree, Above(p))[q],
           NEW o \in FileStages(r, p)
    PROVE Grown(o.tree) /\ (o = r \/ (Entries /\ PartOf(tree, r.tree, o.tree, <<>>)))
<1> tree \in Trees /\ r.tree \in Trees
    BY DEF Types, Sane
<1> DEFINE w == T!WithDirs(tree, Above(p))
           midway == IF kind = "sqlite" THEN {Leave(w)} ELSE
                     IF kind \in {"os", "legacy"} THEN {Leave(t) : t \in PartWay(tree, r.tree)} ELSE {}
<1>1. o = r \/ (Entries /\ (o = Leave(tree) \/ o \in midway))
    BY StagesMean DEF FileStages
<1>2. CASE o = r
    BY <1>2
<1>3. CASE Entries /\ o = Leave(tree)
    BY <1>3, InsideOutcome, NothingIsPart
<1>4. ASSUME Entries, o = Leave(w)
      PROVE Grown(o.tree) /\ PartOf(tree, r.tree, o.tree, <<>>)
    <2>1. Grown(w)
        BY GrownDirs
    <2>2. \A q \in Paths : IsPrefix(p, q) => w[q] = tree[q]
        BY WithDirsAt, AboveMeans, PrefixAntisymmetric DEF IsStrictPrefix
    <2>3. o.tree = w
        BY <1>4, InsideOutcome
    <2> QED
        BY <2>1, <2>2, <2>3 DEF PartOf
<1>5. ASSUME NEW v \in PartWay(tree, r.tree), Entries, o = Leave(v)
      PROVE Grown(o.tree) /\ PartOf(tree, r.tree, o.tree, <<>>)
    BY <1>5, PartWayPart, InsideOutcome DEF PartOf
<1> QED
    BY <1>1, <1>2, <1>3, <1>4, <1>5

LEMMA OtherStagesPart ==
    ASSUME Types, Grown(tree), NEW r, Sane(r), Grown(r.tree), NEW p \in Paths, kind # "s3",
           NEW o \in MkdirStages(r) \cup RemoveStages(r, p)
    PROVE Grown(o.tree) /\ (o = r \/ (Entries /\ \A a : PartOf(tree, r.tree, o.tree, a)))
<1> tree \in Trees /\ r.tree \in Trees
    BY DEF Types, Sane
<1>1. o = r \/ (Entries /\ (o = Leave(tree) \/ \E v \in PartWay(tree, r.tree) : o = Leave(v)))
    BY StagesMean DEF MkdirStages, RemoveStages
<1>2. CASE o = r
    BY <1>2
<1>3. CASE Entries /\ o = Leave(tree)
    BY <1>3, InsideOutcome, NothingIsPart
<1>4. ASSUME NEW v \in PartWay(tree, r.tree), Entries, o = Leave(v)
      PROVE Grown(o.tree) /\ \A a : PartOf(tree, r.tree, o.tree, a)
    BY <1>4, PartWayPart, InsideOutcome DEF PartOf
<1> QED
    BY <1>1, <1>2, <1>3, <1>4

\* Where a move to a free place puts things: the source is copied as it is,
\* and its files are found at the destination, outside the source.
LEMMA MoveFacts ==
    ASSUME NEW t \in Trees, Grown(t), NEW s \in Paths, NEW d \in Paths, t[s] # "none", t[d] = "none",
           ~ IsPrefix(s, d), \A q \in Paths : IsPrefix(s, q) /\ t[q] # "none" => T!Rebase(q, s, d) \in Paths,
           NEW g, g = T!Graft(T!WithDirs(t, Above(d)), s, d)
    PROVE /\ \A q \in Paths : IsPrefix(s, q) => ~ IsPrefix(d, q) /\ g[q] = t[q]
          /\ \A q \in Paths : IsPrefix(s, q) /\ IsFile(t[q]) =>
                /\ T!Rebase(q, s, d) \in Paths /\ g[T!Rebase(q, s, d)] = t[q]
                /\ IsPrefix(d, T!Rebase(q, s, d)) /\ ~ IsPrefix(s, T!Rebase(q, s, d))
<1> DEFINE w == T!WithDirs(t, Above(d))
<1>1. ~ IsPrefix(d, s)
    BY DEF Grown, IsStrictPrefix
<1>2. \A q \in Paths : IsPrefix(s, q) => ~ IsPrefix(d, q)
    BY <1>1, PrefixesComparable
<1>3. \A q \in Paths : w[q] = IF q \in Above(d) /\ t[q] = "none" THEN "dir" ELSE t[q]
    BY WithDirsAt
<1>4. \A q \in Paths : g[q] = IF ~ IsPrefix(d, q) THEN w[q]
                              ELSE IF T!Rebase(q, d, s) \in Paths THEN w[T!Rebase(q, d, s)] ELSE "none"
    BY GraftAt
<1> HIDE DEF w
<1>5. \A q \in Paths : IsPrefix(s, q) => w[q] = t[q]
    BY <1>3, AboveMeans, PrefixTransitive DEF IsStrictPrefix
<1>6. \A q \in Paths : IsPrefix(s, q) => g[q] = t[q]
    BY <1>2, <1>4, <1>5
<1>7. ASSUME NEW q \in Paths, IsPrefix(s, q), IsFile(t[q])
      PROVE /\ T!Rebase(q, s, d) \in Paths /\ g[T!Rebase(q, s, d)] = t[q]
            /\ IsPrefix(d, T!Rebase(q, s, d)) /\ ~ IsPrefix(s, T!Rebase(q, s, d))
    <2>1. PICK y : y = T!Rebase(q, s, d)
        OBVIOUS
    <2>2. y \in Paths
        BY <1>7, <2>1 DEF IsFile
    <2>3. IsPrefix(d, y) /\ T!Rebase(y, d, s) = q
        BY <1>7, <2>1, <2>2, RebaseBelow
    <2>4. ~ IsPrefix(s, y)
        BY <1>2, <2>2, <2>3
    <2>5. g[y] = t[q]
        BY <1>4, <1>5, <1>7, <2>2, <2>3
    <2> QED
        BY <2>1, <2>2, <2>3, <2>4, <2>5
<1> QED
    BY <1>2, <1>6, <1>7

\* A tree that has the source as it was, or the destination as it is to be,
\* misses no file.
LEMMA NoFileMissing ==
    ASSUME NEW t \in Trees, Grown(t), NEW s \in Paths, NEW d \in Paths, t[s] # "none", t[d] = "none",
           ~ IsPrefix(s, d), \A q \in Paths : IsPrefix(s, q) /\ t[q] # "none" => T!Rebase(q, s, d) \in Paths,
           NEW u,
           \/ \A q \in Paths : IsPrefix(s, q) => u[q] = t[q]
           \/ \A q \in Paths : IsPrefix(d, q) /\ ~ IsPrefix(s, q) =>
                                   u[q] = T!Graft(T!WithDirs(t, Above(d)), s, d)[q]
    PROVE KeepsFiles(t, s, d, u)
<1>1. PICK g : g = T!Graft(T!WithDirs(t, Above(d)), s, d)
    OBVIOUS
<1>2. \A q \in Paths : IsPrefix(s, q) /\ IsFile(t[q]) =>
                /\ T!Rebase(q, s, d) \in Paths /\ g[T!Rebase(q, s, d)] = t[q]
                /\ IsPrefix(d, T!Rebase(q, s, d)) /\ ~ IsPrefix(s, T!Rebase(q, s, d))
    BY <1>1, MoveFacts
<1> QED
    BY <1>1, <1>2 DEF KeepsFiles

\* move copies, and then removes: the copy is whole before anything goes.
LEMMA MoveStagesPart ==
    ASSUME Types, Grown(tree), kind \notin {"s3", "legacy"}, Alike = {}, NEW s \in Paths, NEW d \in Paths,
           tree[d] = "none", ~ IsPrefix(s, d),
           \A q \in Paths : IsPrefix(s, q) /\ tree[q] # "none" => T!Rebase(q, s, d) \in Paths,
           NEW o \in MoveStages(MoveFile(s, d), s, d), NEW r, r = MoveFile(s, d)
    PROVE /\ Grown(o.tree) /\ KeepsFiles(tree, s, d, o.tree)
          /\ o = r \/ (Entries /\ PartOf(tree, r.tree, o.tree, s))
<1> DEFINE w == T!WithDirs(tree, Above(d))
           g == T!Graft(w, s, d)
           midway == IF kind = "sqlite" THEN {Leave(w), SqliteCopy(s, d)} ELSE
                     IF kind = "os" THEN {Leave(t) : t \in PartWay(tree, OsCopyTo(s, d).tree)
                                                              \cup PartWay(OsCopyTo(s, d).tree, r.tree)} ELSE {}
<1> tree \in Trees
    BY DEF Types
<1>1. r.err = "ok" /\ (o = r \/ (Entries /\ (o = Leave(tree) \/ o \in midway)))
    BY StagesMean DEF MoveStages
<1>2. /\ tree[s] # "none" /\ s # <<>> /\ d # <<>> /\ \A q \in Above(d) : ~ IsFile(tree[q])
      /\ r.tree = T!Without(g, s)
    BY <1>1, NodeMove
<1>3. w \in Trees /\ g \in Trees /\ Grown(w) /\ Grown(g)
    BY <1>2, WithDirsType, GraftType, GrownDirs, GrownGraft
<1>4. r.tree \in Trees /\ Grown(r.tree)
    BY <1>2, <1>3, WithoutType, GrownWithout
<1>5. \A q \in Paths : r.tree[q] = IF IsPrefix(s, q) THEN "none" ELSE g[q]
    BY <1>2, WithoutAt
<1>6. \A q \in Paths : IsPrefix(s, q) => ~ IsPrefix(d, q) /\ g[q] = tree[q]
    BY <1>2, MoveFacts
<1>7. /\ kind = "sqlite" => SqliteCopy(s, d).tree = g
      /\ kind = "os" => OsCopyTo(s, d).tree = g
    <2>1. kind = "sqlite" => SqliteCopy(s, d).err = "ok"
        BY <1>1, <1>2 DEF MoveFile, SqliteMove
    <2>2. kind = "sqlite" => SqliteCopy(s, d).tree = g
        BY <1>2, <2>1, SqliteCopies
    <2>3. OsCopyTo(s, d) = Leave(g) \/ OsCopyTo(s, d) = Fail("Uncaught")
        BY DEF OsCopyTo
    <2>4. kind = "os" => OsCopyTo(s, d).err = "ok"
        BY <1>1, <1>2, InsideOutcome DEF MoveFile, OsMove
    <2> QED
        BY <2>2, <2>3, <2>4, InsideOutcome
<1>8. \A q \in Paths : w[q] = IF q \in Above(d) /\ tree[q] = "none" THEN "dir" ELSE tree[q]
    BY WithDirsAt
<1>9. \A q \in Paths : ~ IsPrefix(d, q) => g[q] = w[q]
    BY GraftAt
<1>10. \A q \in Paths : IsPrefix(d, q) \/ IsPrefix(s, q) => w[q] = tree[q]
    BY <1>8, AboveMeans, PrefixTransitive, PrefixAntisymmetric DEF IsStrictPrefix
<1> DEFINE Good(u) == Grown(u) /\ KeepsFiles(tree, s, d, u) /\ PartOf(tree, r.tree, u, s)
<1>11. KeepsFiles(tree, s, d, r.tree)
    BY <1>2, <1>5, NoFileMissing
<1>12. Good(tree)
    BY <1>2, NothingIsPart, NoFileMissing
<1> HIDE DEF w, g
<1>13. Good(w)
    <2>1. KeepsFiles(tree, s, d, w)
        BY <1>2, <1>10, NoFileMissing
    <2>2. PartOf(tree, r.tree, w, s)
        BY <1>5, <1>9, <1>10 DEF PartOf
    <2> QED
        BY <1>3, <2>1, <2>2
<1>14. Good(g)
    <2>1. KeepsFiles(tree, s, d, g)
        BY <1>2, <1>6, NoFileMissing
    <2>2. PartOf(tree, r.tree, g, s)
        BY <1>5, <1>6 DEF PartOf
    <2> QED
        BY <1>3, <2>1, <2>2
<1>15. ASSUME NEW v \in PartWay(tree, g) PROVE Good(v)
    <2>1. /\ Grown(v)
          /\ \A q \in Paths : \/ v[q] = tree[q] \/ v[q] = g[q]
                              \/ v[q] = Cut /\ IsFile(g[q]) /\ tree[q] # g[q]
        BY <1>3, PartWayPart
    <2>2. KeepsFiles(tree, s, d, v)
        BY <1>2, <1>6, <2>1, NoFileMissing
    <2>3. PartOf(tree, r.tree, v, s)
        BY <1>5, <1>6, <2>1 DEF PartOf
    <2> QED
        BY <2>1, <2>2, <2>3
<1>16. ASSUME NEW v \in PartWay(g, r.tree) PROVE Good(v)
    <2>1. /\ Grown(v)
          /\ \A q \in Paths : \/ v[q] = g[q] \/ v[q] = r.tree[q]
                              \/ v[q] = Cut /\ IsFile(r.tree[q]) /\ g[q] # r.tree[q]
        BY <1>3, <1>4, PartWayPart
    <2>2. \A q \in Paths : v[q] = g[q] \/ (IsPrefix(s, q) /\ v[q] = "none")
        BY <1>5, <2>1 DEF IsFile
    <2>3. KeepsFiles(tree, s, d, v)
        BY <1>2, <2>2, NoFileMissing DEF g, w
    <2>4. PartOf(tree, r.tree, v, s)
        BY <1>5, <1>6, <2>2 DEF PartOf
    <2> QED
        BY <2>1, <2>3, <2>4
<1>17. CASE o = r
    BY <1>4, <1>11, <1>17
<1>18. CASE Entries /\ o = Leave(tree)
    BY <1>12, <1>18, InsideOutcome
<1>19. CASE Entries /\ o \in midway
    <2>1. Good(o.tree)
        <3> HIDE DEF Good
        <3>1. CASE kind = "sqlite"
            BY <1>7, <1>13, <1>14, <1>19, <3>1, InsideOutcome
        <3>2. CASE kind = "os"
            BY <1>7, <1>15, <1>16, <1>19, <3>2, InsideOutcome
        <3> QED
            BY <1>19, <3>1, <3>2
    <2> QED
        BY <1>19, <2>1
<1> QED
    BY <1>1, <1>17, <1>18, <1>19

-----------------------------------------------------------------------------
(* And so does the bucket *)

\* What stat sees of the objects t and the markers m, and Apart of them.
UnderOf(t, m, p) == \E q \in Paths : IsStrictPrefix(p, q) /\ (t[q] # "none" \/ q \in m)
Seen(t, m) ==
    [p \in Paths |-> IF p = <<>> THEN "dir" ELSE
                     IF t[p] # "none" THEN t[p] ELSE
                     IF p \in m \/ UnderOf(t, m, p) THEN "dir" ELSE "none"]
ApartOf(t, m) ==
    /\ t[<<>>] = "none"
    /\ \A p \in Paths : /\ t[p] # "dir"
                        /\ t[p] # "none" => p \notin m
                        /\ \A q \in Paths : t[p] # "none" /\ IsStrictPrefix(p, q) => t[q] = "none" /\ q \notin m

LEMMA SeenType == ASSUME NEW t \in Trees, NEW m PROVE Seen(t, m) \in Trees
BY DEF Seen, Trees, Nodes

LEMMA SeenAt ==
    \A t, m : \A p \in Paths :
        Seen(t, m)[p] = IF p = <<>> THEN "dir" ELSE
                        IF t[p] # "none" THEN t[p] ELSE
                        IF p \in m \/ UnderOf(t, m, p) THEN "dir" ELSE "none"
BY DEF Seen

LEMMA SameTree ==
    ASSUME NEW t \in Trees, NEW u \in Trees, \A q \in Paths : t[q] = u[q]
    PROVE t = u
BY DEF Trees

\* Nothing is, and nothing can be, in the way of a file at p.
Clear(t, m, p) ==
    /\ p # <<>> /\ p \notin m
    /\ \A q \in Paths : /\ IsStrictPrefix(q, p) => t[q] = "none"
                        /\ IsStrictPrefix(p, q) => t[q] = "none" /\ q \notin m

LEMMA BucketPut ==
    ASSUME NEW t \in Trees, NEW m \in SUBSET Paths, ApartOf(t, m), NEW p \in Paths, Clear(t, m, p),
           NEW c \in Nodes, c \notin {"none", "dir"}
    PROVE /\ PutTo(Seen(t, m), p, c, Seen([t EXCEPT ![p] = c], m))
          /\ ApartOf([t EXCEPT ![p] = c], m)
<1> DEFINE u == [t EXCEPT ![p] = c]
           v == Seen(t, m)
           w == Seen(u, m)
           x == [T!WithDirs(v, Above(p)) EXCEPT ![p] = c]
<1>1. u \in Trees /\ v \in Trees
    BY SetType, SeenType
<1>2. w \in Trees /\ T!WithDirs(v, Above(p)) \in Trees
    BY <1>1, SeenType, WithDirsType
<1>3. \A q \in Paths : u[q] = IF q = p THEN c ELSE t[q]
    BY DEF Trees
<1>4. \A q \in Paths : x[q] = IF q = p THEN c ELSE IF q \in Above(p) /\ v[q] = "none" THEN "dir" ELSE v[q]
    BY <1>2, WithDirsAt DEF Trees
<1>5. \A q \in Paths : v[q] = IF q = <<>> THEN "dir" ELSE IF t[q] # "none" THEN t[q] ELSE
                              IF q \in m \/ UnderOf(t, m, q) THEN "dir" ELSE "none"
    BY SeenAt
<1>6. x \in Trees
    BY <1>2, SetType
<1> HIDE DEF u, v, x
<1>7. \A q \in Paths : w[q] = IF q = <<>> THEN "dir" ELSE IF u[q] # "none" THEN u[q] ELSE
                              IF q \in m \/ UnderOf(u, m, q) THEN "dir" ELSE "none"
    BY SeenAt
<1> HIDE DEF w
<1>8. ASSUME NEW q \in Paths PROVE w[q] = x[q]
    <2>1. CASE q = p
        BY <1>3, <1>4, <1>7, <2>1 DEF Clear
    <2>2. CASE IsStrictPrefix(q, p)
        <3>1. UnderOf(u, m, q)
            BY <1>3, <2>2 DEF UnderOf
        <3>2. t[q] = "none" /\ q # p
            BY <2>2 DEF Clear, IsStrictPrefix
        <3>3. w[q] = "dir"
            BY <1>3, <1>7, <3>1, <3>2
        <3>4. v[q] \in {"dir", "none"}
            BY <1>5, <3>2
        <3> QED
            BY <1>4, <2>2, <3>2, <3>3, <3>4, AboveMeans
    <2>3. CASE q # p /\ ~ IsStrictPrefix(q, p)
        <3>1. UnderOf(u, m, q) <=> UnderOf(t, m, q)
            BY <1>3, <2>3 DEF UnderOf
        <3>2. w[q] = v[q]
            BY <1>3, <1>5, <1>7, <2>3, <3>1
        <3> QED
            BY <1>4, <2>3, <3>2, AboveMeans
    <2> QED
        BY <2>1, <2>2, <2>3
<1>9. w = x
    BY <1>2, <1>6, <1>8, SameTree
<1>10. v[p] # "dir"
    <2>1. ~ UnderOf(t, m, p)
        BY DEF Clear, UnderOf
    <2> QED
        BY <1>5, <2>1 DEF Clear, ApartOf
<1>11. \A q \in Above(p) : ~ IsFile(v[q])
    BY <1>5, AboveMeans DEF Clear, IsFile
<1>12. PutTo(v, p, c, w)
    BY <1>9, <1>10, <1>11 DEF PutTo, x
<1>13. ApartOf(u, m)
    <2>1. u[<<>>] = "none"
        BY <1>3, FilesAssumption DEF ApartOf, Clear
    <2> SUFFICES ASSUME NEW a \in Paths
                 PROVE /\ u[a] # "dir"
                       /\ u[a] # "none" => a \notin m
                       /\ \A q \in Paths : u[a] # "none" /\ IsStrictPrefix(a, q) => u[q] = "none" /\ q \notin m
        BY <2>1 DEF ApartOf
    <2>2. u[a] # "dir" /\ (u[a] # "none" => a \notin m)
        BY <1>3 DEF ApartOf, Clear
    <2>3. ASSUME NEW q \in Paths, u[a] # "none", IsStrictPrefix(a, q) PROVE u[q] = "none" /\ q \notin m
        BY <1>3, <2>3, StrictIsOneWay DEF ApartOf, Clear
    <2> QED
        BY <2>2, <2>3
<1> QED
    BY <1>12, <1>13 DEF u, v, w

LEMMA BucketMake ==
    ASSUME NEW t \in Trees, NEW m \in SUBSET Paths, ApartOf(t, m), NEW p \in Paths, p # <<>>, t[p] = "none",
           \A q \in Paths : IsStrictPrefix(q, p) => t[q] = "none"
    PROVE MakeTo(Seen(t, m), p, Seen(t, m \cup {p}))
<1> DEFINE v == Seen(t, m)
           w == Seen(t, m \cup {p})
           x == T!WithDirs(v, Above(p) \cup {p})
<1>1. v \in Trees /\ w \in Trees
    BY SeenType
<1>2. x \in Trees
    BY <1>1, WithDirsType
<1>3. \A q \in Paths : x[q] = IF q \in Above(p) \cup {p} /\ v[q] = "none" THEN "dir" ELSE v[q]
    BY WithDirsAt
<1>4. \A q \in Paths : v[q] = IF q = <<>> THEN "dir" ELSE IF t[q] # "none" THEN t[q] ELSE
                              IF q \in m \/ UnderOf(t, m, q) THEN "dir" ELSE "none"
    BY SeenAt
<1>5. \A q \in Paths : w[q] = IF q = <<>> THEN "dir" ELSE IF t[q] # "none" THEN t[q] ELSE
                              IF q \in m \cup {p} \/ UnderOf(t, m \cup {p}, q) THEN "dir" ELSE "none"
    BY SeenAt
<1> HIDE DEF v, w, x
<1>6. ASSUME NEW q \in Paths PROVE w[q] = x[q]
    <2>1. UnderOf(t, m \cup {p}, q) <=> UnderOf(t, m, q) \/ IsStrictPrefix(q, p)
        BY DEF UnderOf
    <2>2. q \in Above(p) <=> IsStrictPrefix(q, p)
        BY AboveMeans
    <2> QED
        BY <1>3, <1>4, <1>5, <2>1, <2>2
<1>7. w = x
    BY <1>1, <1>2, <1>6, SameTree
<1>8. \A q \in Above(p) : ~ IsFile(v[q])
    BY <1>4, AboveMeans DEF IsFile
<1> QED
    BY <1>7, <1>8 DEF MakeTo, v, w, x

\* What is at p and below goes; directories above may go with it.
LEMMA BucketErase ==
    ASSUME NEW t \in Trees, NEW m \in SUBSET Paths, NEW p \in Paths, p # <<>>,
           NEW u \in Trees, \A q \in Paths : u[q] = IF IsPrefix(p, q) THEN "none" ELSE t[q],
           NEW n \in SUBSET Paths, \A q \in Paths : q \in n <=> q \in m /\ ~ IsPrefix(p, q)
    PROVE Forgotten(Seen(t, m), T!Without(Seen(t, m), p), Seen(u, n), p)
<1> DEFINE v == Seen(t, m)
           w == Seen(u, n)
           x == T!Without(v, p)
<1>1. \A q \in Paths : x[q] = IF IsPrefix(p, q) THEN "none" ELSE v[q]
    BY WithoutAt
<1>2. \A q \in Paths : v[q] = IF q = <<>> THEN "dir" ELSE IF t[q] # "none" THEN t[q] ELSE
                              IF q \in m \/ UnderOf(t, m, q) THEN "dir" ELSE "none"
    BY SeenAt
<1>3. \A q \in Paths : w[q] = IF q = <<>> THEN "dir" ELSE IF u[q] # "none" THEN u[q] ELSE
                              IF q \in n \/ UnderOf(u, n, q) THEN "dir" ELSE "none"
    BY SeenAt
<1>4. ~ IsPrefix(p, <<>>)
    BY RootBelowNothing, FilesAssumption DEF IsStrictPrefix
<1> HIDE DEF v, w, x
<1>5. ASSUME NEW q \in Paths, w[q] # x[q]
      PROVE q \in Above(p) \ {<<>>} /\ v[q] = "dir" /\ w[q] = "none"
    <2>1. CASE IsPrefix(p, q)
        <3>1. ~ UnderOf(u, n, q)
            BY <2>1, PrefixTransitive DEF UnderOf, IsStrictPrefix
        <3>2. w[q] = "none"
            BY <1>3, <1>4, <2>1, <3>1
        <3> QED
            BY <1>1, <1>5, <2>1, <3>2
    <2>2. CASE ~ IsPrefix(p, q) /\ ~ IsStrictPrefix(q, p)
        <3>1. \A a \in Paths : IsStrictPrefix(q, a) => ~ IsPrefix(p, a)
            BY <2>2, PrefixesComparable, PrefixReflexive DEF IsStrictPrefix
        <3>2. UnderOf(u, n, q) <=> UnderOf(t, m, q)
            BY <3>1 DEF UnderOf
        <3>3. w[q] = v[q]
            BY <1>2, <1>3, <2>2, <3>2
        <3> QED
            BY <1>1, <1>5, <2>2, <3>3
    <2>3. CASE ~ IsPrefix(p, q) /\ IsStrictPrefix(q, p)
        <3>1. q \in Above(p)
            BY <2>3, AboveMeans
        <3>2. u[q] = t[q] /\ (q \in n <=> q \in m) /\ x[q] = v[q]
            BY <1>1, <2>3
        <3>3. UnderOf(u, n, q) => UnderOf(t, m, q)
            BY DEF UnderOf
        <3>4. q # <<>> /\ t[q] = "none" /\ v[q] = "dir" /\ w[q] = "none"
            BY <1>2, <1>3, <1>5, <3>2, <3>3
        <3> QED
            BY <3>1, <3>2, <3>4
    <2> QED
        BY <2>1, <2>2, <2>3
<1> QED
    BY <1>5 DEF Forgotten, v, w, x

\* Some of the objects and markers at p and below are gone.
LEMMA BucketErasePart ==
    ASSUME NEW t \in Trees, NEW m \in SUBSET Paths, ApartOf(t, m), NEW p \in Paths, p # <<>>,
           NEW u \in Trees, \A q \in Paths : u[q] = t[q] \/ (IsPrefix(p, q) /\ u[q] = "none"),
           NEW n \in SUBSET m, \A q \in m : ~ IsPrefix(p, q) => q \in n
    PROVE PartOf(Seen(t, m), T!Without(Seen(t, m), p), Seen(u, n), p)
<1> DEFINE v == Seen(t, m)
           w == Seen(u, n)
           x == T!Without(v, p)
<1>1. \A q \in Paths : x[q] = IF IsPrefix(p, q) THEN "none" ELSE v[q]
    BY WithoutAt
<1>2. \A q \in Paths : v[q] = IF q = <<>> THEN "dir" ELSE IF t[q] # "none" THEN t[q] ELSE
                              IF q \in m \/ UnderOf(t, m, q) THEN "dir" ELSE "none"
    BY SeenAt
<1>3. \A q \in Paths : w[q] = IF q = <<>> THEN "dir" ELSE IF u[q] # "none" THEN u[q] ELSE
                              IF q \in n \/ UnderOf(u, n, q) THEN "dir" ELSE "none"
    BY SeenAt
<1>4. ~ IsPrefix(p, <<>>)
    BY RootBelowNothing, FilesAssumption DEF IsStrictPrefix
<1>5. \A q \in Paths : UnderOf(u, n, q) => UnderOf(t, m, q)
    BY DEF UnderOf
<1> HIDE DEF v, w, x
<1>6. ASSUME NEW q \in Paths
      PROVE w[q] \in {x[q], v[q]} \/ (q \in Above(p) \ {<<>>} /\ v[q] = "dir" /\ w[q] = "none")
    <2>1. CASE IsPrefix(p, q) /\ t[q] # "none"
        <3>1. ~ (q \in n \/ UnderOf(u, n, q))
            BY <1>5, <2>1 DEF ApartOf, UnderOf
        <3> QED
            BY <1>1, <1>2, <1>3, <1>4, <2>1, <3>1
    <2>2. CASE IsPrefix(p, q) /\ t[q] = "none"
        <3>1. u[q] = "none" /\ q # <<>>
            BY <1>4, <2>2
        <3> QED
            BY <1>1, <1>2, <1>3, <1>5, <2>2, <3>1
    <2>3. CASE ~ IsPrefix(p, q) /\ ~ IsStrictPrefix(q, p)
        <3>1. \A a \in Paths : IsStrictPrefix(q, a) => ~ IsPrefix(p, a)
            BY <2>3, PrefixesComparable, PrefixReflexive DEF IsStrictPrefix
        <3>2. UnderOf(u, n, q) <=> UnderOf(t, m, q)
            BY <3>1 DEF UnderOf
        <3>3. u[q] = t[q] /\ (q \in n <=> q \in m)
            BY <2>3
        <3> QED
            BY <1>2, <1>3, <3>2, <3>3
    <2>4. CASE ~ IsPrefix(p, q) /\ IsStrictPrefix(q, p)
        <3>1. q \in Above(p)
            BY <2>4, AboveMeans
        <3>2. u[q] = t[q] /\ (q \in n <=> q \in m)
            BY <2>4
        <3> QED
            BY <1>2, <1>3, <1>5, <3>1, <3>2
    <2> QED
        BY <2>1, <2>2, <2>3, <2>4
<1> QED
    BY <1>6 DEF PartOf, v, w, x

\* What a bucket shows is a tree.
LEMMA GrownSeen ==
    ASSUME NEW t, NEW m, ApartOf(t, m)
    PROVE Grown(Seen(t, m))
<1> DEFINE v == Seen(t, m)
<1>1. \A q \in Paths : v[q] = IF q = <<>> THEN "dir" ELSE IF t[q] # "none" THEN t[q] ELSE
                              IF q \in m \/ UnderOf(t, m, q) THEN "dir" ELSE "none"
    BY SeenAt
<1> HIDE DEF v
<1>2. v[<<>>] = "dir"
    BY <1>1, FilesAssumption
<1>3. ASSUME NEW p \in Paths, NEW q \in Paths, v[p] # "none", IsStrictPrefix(q, p)
      PROVE v[q] = "dir"
    <2>1. UnderOf(t, m, q)
        BY <1>1, <1>3, StrictIsOneWay, StrictTransitive DEF UnderOf
    <2>2. t[q] = "none"
        BY <2>1 DEF ApartOf, UnderOf
    <2> QED
        BY <1>1, <2>1, <2>2
<1> QED
    BY <1>2, <1>3 DEF Grown, v

LEMMA BucketCopy ==
    ASSUME NEW t \in Trees, NEW m \in SUBSET Paths, ApartOf(t, m), NEW s \in Paths, NEW d \in Paths,
           t[s] # "none", Clear(t, m, d), ~ IsPrefix(s, d)
    PROVE Seen([t EXCEPT ![d] = t[s]], m) = T!Graft(T!WithDirs(Seen(t, m), Above(d)), s, d)
<1> DEFINE v == Seen(t, m)
           w == T!WithDirs(v, Above(d))
           x == [w EXCEPT ![d] = t[s]]
           g == T!Graft(w, s, d)
<1>1. v \in Trees
    BY SeenType
<1>2. w \in Trees
    BY <1>1, WithDirsType
<1>3. t[s] \in Nodes /\ t[s] \notin {"none", "dir"} /\ s # <<>>
    BY DEF Trees, ApartOf
<1>4. x \in Trees /\ g \in Trees
    BY <1>2, <1>3, SetType, GraftType
<1>5. Seen([t EXCEPT ![d] = t[s]], m) = x
    BY <1>3, BucketPut DEF PutTo
<1>6. \A q \in Paths : v[q] = IF q = <<>> THEN "dir" ELSE IF t[q] # "none" THEN t[q] ELSE
                              IF q \in m \/ UnderOf(t, m, q) THEN "dir" ELSE "none"
    BY SeenAt
<1> HIDE DEF v
<1>7. \A q \in Paths : w[q] = IF q \in Above(d) /\ v[q] = "none" THEN "dir" ELSE v[q]
    BY WithDirsAt
<1> HIDE DEF w
<1>8. \A q \in Paths : g[q] = IF ~ IsPrefix(d, q) THEN w[q]
                              ELSE IF T!Rebase(q, d, s) \in Paths THEN w[T!Rebase(q, d, s)] ELSE "none"
    BY GraftAt
<1>9. \A q \in Paths : x[q] = IF q = d THEN t[s] ELSE w[q]
    BY <1>2 DEF Trees
<1> HIDE DEF x, g
<1>10. ASSUME NEW q \in Paths, IsStrictPrefix(s, q) PROVE w[q] = "none"
    <2>1. q \notin Above(d) /\ q # <<>>
        BY <1>10, AboveMeans, PrefixTransitive, StrictIsOneWay DEF IsStrictPrefix
    <2>2. t[q] = "none" /\ q \notin m
        BY <1>10 DEF ApartOf
    <2>3. ~ UnderOf(t, m, q)
        BY <1>10, StrictTransitive DEF UnderOf, ApartOf
    <2> QED
        BY <1>6, <1>7, <2>1, <2>2, <2>3
<1>11. ASSUME NEW q \in Paths PROVE x[q] = g[q]
    <2>1. CASE ~ IsPrefix(d, q)
        BY <1>8, <1>9, <2>1, PrefixReflexive
    <2>2. CASE q = d
        <3>1. T!Rebase(q, d, s) = s /\ IsPrefix(d, q) /\ s \notin Above(d)
            BY <2>2, RebaseSelf, PrefixReflexive, AboveMeans DEF IsStrictPrefix
        <3>2. w[s] = t[s]
            BY <1>3, <1>6, <1>7, <3>1
        <3> QED
            BY <1>8, <1>9, <2>2, <3>1, <3>2
    <2>3. CASE IsStrictPrefix(d, q)
        <3>1. q # d /\ IsPrefix(d, q) /\ q \notin Above(d) /\ q # <<>>
            BY <2>3, AboveMeans, StrictIsOneWay DEF IsStrictPrefix
        <3>2. t[q] = "none" /\ q \notin m
            BY <2>3 DEF Clear
        <3>3. ~ UnderOf(t, m, q)
            BY <2>3, StrictTransitive DEF UnderOf, Clear
        <3>4. x[q] = "none"
            BY <1>6, <1>7, <1>9, <3>1, <3>2, <3>3
        <3>5. ASSUME T!Rebase(q, d, s) \in Paths PROVE w[T!Rebase(q, d, s)] = "none"
            BY <1>10, <2>3, <3>1, <3>5, RebaseBelow
        <3> QED
            BY <1>8, <3>1, <3>4, <3>5
    <2> QED
        BY <2>1, <2>2, <2>3 DEF IsStrictPrefix
<1>12. x = g
    BY <1>4, <1>11, SameTree
<1> QED
    BY <1>5, <1>12 DEF g, w, v

\* A listing that fits one answer is complete.
LEMMA KeysFinite == ASSUME Types, NEW p \in Paths PROVE IsFiniteSet(S3Keys(p))
<1> DEFINE every == {"file", "marker"} \X Paths
<1>1. IsFiniteSet({"file", "marker"})
    <2>1. IsFiniteSet({} \cup {"file"})
        BY FS_EmptySet, FS_AddElement
    <2>2. IsFiniteSet(({} \cup {"file"}) \cup {"marker"})
        BY <2>1, FS_AddElement
    <2>3. ({} \cup {"file"}) \cup {"marker"} = {"file", "marker"}
        OBVIOUS
    <2> QED
        BY <2>2, <2>3
<1>2. IsFiniteSet(every)
    BY <1>1, FilesAssumption, FS_Product
<1>3. S3Keys(p) \subseteq every
    BY KeysMean
<1> QED
    BY <1>2, <1>3, FS_Subset

LEMMA ListedIsAll ==
    ASSUME WholeBatches, kind = "s3", Types, NEW p \in Paths, Fits(p)
    PROVE Listing(S3Keys(p), Page) = S3Keys(p)
BY KeysFinite, ListingMeans, FilesAssumption DEF Fits

LEMMA ViewSeen ==
    ASSUME kind = "s3" PROVE View = Seen(tree, markers)
<1>1. \A p \in Paths : S3Node(p) = Seen(tree, markers)[p]
    BY SeenAt DEF S3Node, UnderOf
<1> QED
    BY <1>1 DEF View, Seen

LEMMA ViewSeenNext ==
    ASSUME kind' = "s3" PROVE View' = Seen(tree', markers')
<1>1. \A p \in Paths : S3Node(p)' = Seen(tree', markers')[p]
    BY SeenAt DEF S3Node, UnderOf
<1> QED
    BY <1>1 DEF View, Seen

LEMMA ApartIs == ASSUME kind = "s3" PROVE Apart <=> ApartOf(tree, markers)
BY DEF Apart, ApartOf

LEMMA ClearMeans ==
    ASSUME Types, Apart, kind = "s3", NEW p \in Paths, p # <<>>, S3Apart(p, FALSE)
    PROVE Clear(tree, markers, p)
BY ApartMeans DEF Clear

LEMMA BucketWrites ==
    ASSUME Types, Apart, kind = "s3", kind' = "s3", NEW p \in Paths, NEW c \in Contents, S3Apart(p, FALSE),
           Left(S3Write(p, c))
    PROVE \/ S3Write(p, c).err # "ok" /\ View' = View
          \/ S3Write(p, c).err = "ok" /\ PutTo(View, p, c, View')
<1>1. CASE p = <<>>
    BY <1>1, InsideOutcome, ViewSeen, ViewSeenNext DEF S3Write, Left
<1>2. CASE p # <<>>
    <2>1. S3Write(p, c).err = "ok" /\ tree' = [tree EXCEPT ![p] = c] /\ markers' = markers
        BY <1>2, InsideOutcome DEF S3Write, Left
    <2>2. c \in Nodes /\ c \notin {"none", "dir"}
        BY StoredText, NotReserved
    <2>3. PutTo(Seen(tree, markers), p, c, Seen([tree EXCEPT ![p] = c], markers))
        BY <1>2, <2>2, BucketPut, ClearMeans, ApartIs DEF Types
    <2> QED
        BY <2>1, <2>3, ViewSeen, ViewSeenNext
<1> QED
    BY <1>1, <1>2

LEMMA BucketMakes ==
    ASSUME Types, Apart, kind = "s3", kind' = "s3", NEW p \in Paths, NEW b \in BOOLEAN, S3Apart(p, TRUE),
           Left(S3Mkdir(p, b))
    PROVE S3Mkdir(p, b).err = "ok" /\ MakeTo(View, p, View')
<1>1. CASE p = <<>>
    <2>1. View' = View /\ S3Mkdir(p, b).err = "ok"
        BY <1>1, InsideOutcome, ViewSeen, ViewSeenNext DEF S3Mkdir, Left
    <2>2. View \in Trees /\ View[<<>>] = "dir"
        BY ViewSeen, SeenType, SeenAt, FilesAssumption DEF Types
    <2>3. Above(p) = {}
        BY <1>1, AboveMeans, RootBelowNothing
    <2>4. T!WithDirs(View, Above(p) \cup {p}) = View
        BY <1>1, <2>2, <2>3, DirsThere
    <2> QED
        BY <2>1, <2>3, <2>4 DEF MakeTo
<1>2. CASE p # <<>>
    <2>1. S3Mkdir(p, b).err = "ok" /\ tree' = tree /\ markers' = markers \cup {p}
        BY <1>2 DEF S3Mkdir, Left, Outcome
    <2>2. tree[p] = "none" /\ \A q \in Paths : IsStrictPrefix(q, p) => tree[q] = "none"
        BY <1>2, ApartMeans
    <2>3. MakeTo(Seen(tree, markers), p, Seen(tree, markers \cup {p}))
        BY <1>2, <2>2, BucketMake, ApartIs DEF Types
    <2> QED
        BY <2>1, <2>3, ViewSeen, ViewSeenNext
<1> QED
    BY <1>1, <1>2

LEMMA BucketErases ==
    ASSUME WholeBatches, Types, Apart, kind = "s3", kind' = "s3", NEW p \in Paths, NEW b \in BOOLEAN, Fits(p),
           Left(S3Remove(p, b))
    PROVE \/ S3Remove(p, b).err # "ok" /\ View' = View
          \/ /\ S3Remove(p, b).err = "ok" /\ p # <<>> /\ View[p] # "none"
             /\ Forgotten(View, T!Without(View, p), View', p)
<1>0. tree \in Trees /\ markers \in SUBSET Paths
    BY DEF Types
<1>1. \/ \E e : e # "ok" /\ S3Remove(p, b) = Fail(e)
      \/ /\ p # <<>> /\ tree[p] # "none"
         /\ S3Remove(p, b) = Leave([tree EXCEPT ![p] = "none"])
      \/ /\ p # <<>> /\ tree[p] = "none" /\ S3Keys(p) # {}
         /\ S3Remove(p, b) = S3Without(S3Keys(p))
    BY ListedIsAll DEF S3Remove
<1>2. ASSUME NEW e, e # "ok", S3Remove(p, b) = Fail(e) PROVE S3Remove(p, b).err # "ok" /\ View' = View
    BY <1>2, InsideOutcome, ViewSeen, ViewSeenNext DEF Left
<1>3. ASSUME p # <<>>, View[p] # "none",
             \A q \in Paths : tree'[q] = IF IsPrefix(p, q) THEN "none" ELSE tree[q],
             \A q \in Paths : q \in markers' <=> q \in markers /\ ~ IsPrefix(p, q),
             tree' \in Trees, markers' \in SUBSET Paths
      PROVE Forgotten(View, T!Without(View, p), View', p)
    <2>1. PICK u : u = tree'
        OBVIOUS
    <2>2. PICK n : n = markers'
        OBVIOUS
    <2>3. Forgotten(Seen(tree, markers), T!Without(Seen(tree, markers), p), Seen(u, n), p)
        BY <1>0, <1>3, <2>1, <2>2, BucketErase
    <2> QED
        BY <1>3, <2>1, <2>2, <2>3, ViewSeen, ViewSeenNext
<1>4. CASE /\ p # <<>> /\ tree[p] # "none"
           /\ S3Remove(p, b) = Leave([tree EXCEPT ![p] = "none"])
    <2>1. S3Remove(p, b).err = "ok" /\ tree' = [tree EXCEPT ![p] = "none"] /\ markers' = markers
        BY <1>4, InsideOutcome DEF Left
    <2>2. View[p] # "none"
        BY <1>4, ViewSeen, SeenAt
    <2>3. \A q \in Paths : IsPrefix(p, q) => q \notin markers /\ (q = p \/ tree[q] = "none")
        BY <1>4 DEF Apart, IsStrictPrefix
    <2>4. tree' \in Trees /\ markers' \in SUBSET Paths
        BY <1>0, <2>1, SetType DEF Nodes
    <2>5. \A q \in Paths : tree'[q] = IF IsPrefix(p, q) THEN "none" ELSE tree[q]
        BY <1>0, <2>1, <2>3, PrefixReflexive DEF Trees
    <2>6. \A q \in Paths : q \in markers' <=> q \in markers /\ ~ IsPrefix(p, q)
        BY <2>1, <2>3
    <2> QED
        BY <1>3, <1>4, <2>1, <2>2, <2>4, <2>5, <2>6
<1>5. CASE /\ p # <<>> /\ tree[p] = "none" /\ S3Keys(p) # {}
           /\ S3Remove(p, b) = S3Without(S3Keys(p))
    <2>1. /\ S3Remove(p, b).err = "ok"
          /\ tree' = [q \in Paths |-> IF <<"file", q>> \in S3Keys(p) THEN "none" ELSE tree[q]]
          /\ markers' = {q \in markers : <<"marker", q>> \notin S3Keys(p)}
        BY <1>5 DEF S3Without, Outcome, Left
    <2>2. View[p] # "none"
        BY <1>5, StatMeans, KeysExist DEF Under
    <2>3. tree' \in Trees /\ markers' \in SUBSET Paths
        BY <1>0, <2>1 DEF Trees, Nodes
    <2>4. ASSUME NEW q \in Paths PROVE tree'[q] = IF IsPrefix(p, q) THEN "none" ELSE tree[q]
        <3>1. <<"file", q>> \in S3Keys(p) <=> IsStrictPrefix(p, q) /\ tree[q] # "none"
            BY KeysMean
        <3> QED
            BY <1>5, <2>1, <3>1 DEF IsStrictPrefix
    <2>5. ASSUME NEW q \in Paths PROVE q \in markers' <=> q \in markers /\ ~ IsPrefix(p, q)
        <3>1. q \in markers => (<<"marker", q>> \in S3Keys(p) <=> IsPrefix(p, q))
            BY KeysMean
        <3> QED
            BY <2>1, <3>1
    <2> QED
        BY <1>3, <1>5, <2>1, <2>2, <2>3, <2>4, <2>5
<1> QED
    BY <1>1, <1>2, <1>4, <1>5

LEMMA BucketCopies ==
    ASSUME Types, Apart, kind = "s3", kind' = "s3", NEW s \in Paths, NEW d \in Paths, S3Apart(d, FALSE),
           ~ IsPrefix(s, d), Left(S3Copy(s, d))
    PROVE \/ S3Copy(s, d).err # "ok" /\ View' = View
          \/ S3Copy(s, d).err = "ok" /\ CopyTo(View, s, d, View')
<1>1. CASE S3Copy(s, d).err # "ok"
    BY <1>1, InsideOutcome, ViewSeen, ViewSeenNext DEF S3Copy, Left
<1>2. CASE S3Copy(s, d).err = "ok"
    <2>1. /\ d # <<>> /\ s # <<>> /\ tree[s] # "none"
          /\ tree' = [tree EXCEPT ![d] = tree[s]] /\ markers' = markers
        BY <1>2, InsideOutcome DEF S3Copy, Left
    <2>2. Seen([tree EXCEPT ![d] = tree[s]], markers) = T!Graft(T!WithDirs(Seen(tree, markers), Above(d)), s, d)
        BY <2>1, BucketCopy, ClearMeans, ApartIs DEF Types
    <2>3. View[s] # "none"
        BY <2>1, ViewSeen, SeenAt
    <2> QED
        BY <1>2, <2>1, <2>2, <2>3, ViewSeen, ViewSeenNext DEF CopyTo
<1> QED
    BY <1>1, <1>2

\* Before the source goes the copy is whole.
LEMMA BucketMoves ==
    ASSUME Types, Apart, kind = "s3", kind' = "s3", NEW s \in Paths, NEW d \in Paths, S3Apart(d, FALSE),
           View[d] = "none", ~ IsPrefix(s, d),
           \A q \in Paths : IsPrefix(s, q) /\ View[q] # "none" => T!Rebase(q, s, d) \in Paths,
           NEW w, w = T!Without(T!Graft(T!WithDirs(View, Above(d)), s, d), s)
    PROVE /\ Left(S3Move(s, d)) /\ S3Move(s, d).err # "ok" => View' = View
          /\ S3Move(s, d).err = "ok" => View[s] # "none" /\ s # <<>> /\ d # <<>>
          /\ Left(S3Move(s, d)) /\ S3Move(s, d).err = "ok" =>
                Forgotten(View, w, View', s) /\ KeepsFiles(View, s, d, View')
          /\ Left(S3Copy(s, d)) /\ S3Move(s, d).err = "ok" =>
                PartOf(View, w, View', s) /\ KeepsFiles(View, s, d, View')
<1>1. CASE S3Copy(s, d).err # "ok"
    BY <1>1, InsideOutcome, ViewSeen, ViewSeenNext DEF S3Copy, S3Move, Left
<1>2. CASE S3Copy(s, d).err = "ok"
    <2>0. tree \in Trees /\ markers \in SUBSET Paths
        BY DEF Types
    <2> DEFINE t == [tree EXCEPT ![d] = tree[s]]
               u == [t EXCEPT ![s] = "none"]
               g == T!Graft(T!WithDirs(View, Above(d)), s, d)
    <2>1. /\ d # <<>> /\ s # <<>> /\ tree[s] # "none" /\ S3Copy(s, d) = Leave(t) /\ S3Move(s, d) = Leave(u)
        BY <1>2, InsideOutcome DEF S3Copy, S3Move
    <2>2. S3Move(s, d).err = "ok"
        BY <2>1, InsideOutcome
    <2>3. Seen(t, markers) = g
        <3>1. Clear(tree, markers, d) /\ ApartOf(tree, markers)
            BY <2>1, ClearMeans, ApartIs
        <3> HIDE DEF u, g
        <3>2. Seen([tree EXCEPT ![d] = tree[s]], markers) = T!Graft(T!WithDirs(Seen(tree, markers), Above(d)), s, d)
            <4>1. tree[s] # "none"
                BY <2>1
            <4> QED
                BY <2>0, <3>1, <4>1, BucketCopy
        <3> HIDE DEF t
        <3> QED
            BY <3>2, ViewSeen DEF g, t
    <2>4. tree[s] \in Nodes /\ tree[s] \notin {"none", "dir"}
        BY <2>0, <2>1 DEF Trees, Apart
    <2>5. t \in Trees /\ ApartOf(t, markers)
        BY <2>0, <2>1, <2>4, BucketPut, ClearMeans, ApartIs, SetType
    <2>6. u \in Trees
        BY <2>5, SetType DEF Nodes
    <2>7. t[s] # "none"
        BY <2>0, <2>1 DEF Trees
    <2>8. View[s] # "none" /\ Grown(View) /\ View \in Trees
        BY <2>0, <2>1, ViewSeen, SeenAt, SeenType, GrownSeen, ApartIs
    <2>9. Left(S3Move(s, d)) => View' = Seen(u, markers)
        BY <2>1, InsideOutcome, ViewSeenNext DEF Left
    <2>10. Left(S3Copy(s, d)) => View' = g
        BY <2>1, <2>3, InsideOutcome, ViewSeenNext DEF Left
    <2>11. Forgotten(Seen(t, markers), T!Without(Seen(t, markers), s), Seen(u, markers), s)
        <3> HIDE DEF t
        <3>1. \A q \in Paths : IsPrefix(s, q) => q \notin markers /\ (q = s \/ t[q] = "none")
            BY <2>5, <2>7 DEF ApartOf, IsStrictPrefix
        <3>2. \A q \in Paths : u[q] = IF IsPrefix(s, q) THEN "none" ELSE t[q]
            BY <2>5, <3>1, PrefixReflexive DEF Trees
        <3>3. \A q \in Paths : q \in markers <=> q \in markers /\ ~ IsPrefix(s, q)
            BY <3>1
        <3> HIDE DEF u
        <3> QED
            BY <2>0, <2>1, <2>5, <2>6, <3>2, <3>3, BucketErase
    <2> HIDE DEF t, u
    <2>12. /\ \A q \in Paths : IsPrefix(s, q) => ~ IsPrefix(d, q) /\ g[q] = View[q]
           /\ \A q \in Paths : w[q] = IF IsPrefix(s, q) THEN "none" ELSE g[q]
        BY <2>8, MoveFacts, WithoutAt
    <2>13. Forgotten(View, w, Seen(u, markers), s)
        <3>1. \A q \in Above(s) : View[q] = "dir"
            BY <2>8, AboveMeans DEF Grown
        <3> HIDE DEF g
        <3> QED
            BY <2>3, <2>11, <3>1 DEF Forgotten, g
    <2>14. KeepsFiles(View, s, d, Seen(u, markers))
        <3>1. \A q \in Paths : IsPrefix(d, q) /\ ~ IsPrefix(s, q) => Seen(u, markers)[q] = g[q]
            <4>1. \A q \in Paths : IsPrefix(d, q) => q \notin Above(s)
                BY <2>12, AboveMeans, PrefixTransitive, PrefixReflexive DEF IsStrictPrefix
            <4> QED
                BY <2>12, <2>13, <4>1 DEF Forgotten
        <3> QED
            BY <2>8, <3>1, NoFileMissing
    <2>15. PartOf(View, w, g, s) /\ KeepsFiles(View, s, d, g)
        BY <2>8, <2>12, NoFileMissing DEF PartOf
    <2> QED
        BY <2>1, <2>2, <2>8, <2>9, <2>10, <2>13, <2>14, <2>15
<1> QED
    BY <1>1, <1>2

\* A removal that is broken off has deleted some of what is at p and below.
LEMMA BucketErasesSome ==
    ASSUME Types, Apart, kind = "s3", kind' = "s3", NEW p \in Paths, p # <<>>,
           NEW S \in SUBSET S3Keys(p), Left(S3Without(S))
    PROVE PartOf(View, T!Without(View, p), View', p)
<1>0. tree \in Trees /\ markers \in SUBSET Paths
    BY DEF Types
<1>1. PICK u : u = [q \in Paths |-> IF <<"file", q>> \in S THEN "none" ELSE tree[q]]
    OBVIOUS
<1>2. PICK n : n = {q \in markers : <<"marker", q>> \notin S}
    OBVIOUS
<1>3. tree' = u /\ markers' = n
    BY <1>1, <1>2 DEF Left, S3Without, Outcome
<1>4. u \in Trees
    BY <1>0, <1>1 DEF Trees, Nodes
<1>5. \A q \in Paths : u[q] = tree[q] \/ (IsPrefix(p, q) /\ u[q] = "none")
    BY <1>1, KeysMean DEF IsStrictPrefix
<1>6. \A q \in markers : ~ IsPrefix(p, q) => q \in n
    BY <1>0, <1>2, KeysMean
<1>7. PartOf(Seen(tree, markers), T!Without(Seen(tree, markers), p), Seen(u, n), p)
    BY <1>0, <1>2, <1>4, <1>5, <1>6, BucketErasePart, ApartIs
<1> QED
    BY <1>3, <1>7, ViewSeen, ViewSeenNext

-----------------------------------------------------------------------------
(* Every provider implements FileTree *)

\* Nodes, rows and files are a tree, and so is what the next start serves.
NodesGrown == kind # "s3" /\ up => Grown(tree)
DiskGrown == kind \in {"memory", "json"} => Grown(disk) \/ disk = T!Lost

TreeInv == Types /\ Apart /\ NodesGrown /\ DiskGrown

\* The names do not match each other as LIKE patterns, S3 removes a directory
\* whole, and copies and moves go to where nothing is.
Fitting == Alike = {} /\ WholeBatches /\ FreeOnly

LEMMA ViewIsTree == ASSUME Types, kind # "s3" PROVE View = tree
BY DEF View, Types, Trees

LEMMA ViewIsTreeNext == ASSUME Types', kind' # "s3" PROVE View' = tree'
BY DEF View, Types, Trees

LEMMA MayCopyMeans ==
    ASSUME FreeOnly, Types, NEW s \in Paths, NEW d \in Paths, MayCopy(s, d)
    PROVE /\ View[d] = "none" /\ ~ IsPrefix(s, d) /\ S3Apart(d, FALSE)
          /\ \A q \in Paths : IsPrefix(s, q) /\ View[q] # "none" => T!Rebase(q, s, d) \in Paths
          /\ kind # "s3" => View = tree /\ kind \notin {"s3", "legacy"}
BY ViewIsTree, SamePrefix DEF MayCopy, T!Below

\* What a method and its stages make of the tree that clients see.
Running == up /\ up' = up /\ kind' = kind
Serves(op, r, stages) ==
    /\ Left(r) => /\ kind # "s3" => Grown(tree')
                  /\ r.err # "ok" => View' = View
                  /\ r.err = "ok" => Does(op, View, View')
                  /\ r.err = "ok" /\ ~ r.save /\ kind = "json" => tree' = tree
    /\ \A o \in stages : Left(o) => /\ r.err = "ok" /\ r.save /\ kind # "memory"
                                    /\ kind # "s3" => Grown(tree')
                                    /\ o = r \/ (Entries /\ Begins(op, View, View'))

\* The providers that keep the tree as it is: there r.tree is the whole effect.
LEMMA ServesTree ==
    ASSUME Types, Types', Running, kind # "s3", NEW op, NEW r, NEW stages, NEW p \in Paths, Sane(r),
           Grown(tree), Grown(r.tree), r.err # "ok" => r.tree = tree,
           r.err = "ok" => Effect(op, tree, r.tree, r.tree, p),
           r.err = "ok" /\ ~ r.save /\ kind = "json" => r.tree = tree,
           \A o \in stages : /\ r.err = "ok" /\ r.save /\ kind # "memory" /\ Grown(o.tree)
                             /\ o = r \/ (Entries /\ PartOf(tree, r.tree, o.tree, p)
                                                  /\ Effect(op, tree, r.tree, o.tree, p))
    PROVE Serves(op, r, stages)
<1>1. View = tree /\ View' = tree'
    BY ViewIsTree, ViewIsTreeNext DEF Running
<1>2. r.tree \in Trees
    BY DEF Sane
<1>3. r.err = "ok" => Does(op, tree, r.tree)
    BY <1>2, ForgetsNothing DEF Does
<1>4. ASSUME NEW o \in stages
      PROVE o = r \/ (Entries /\ Begins(op, tree, o.tree))
    BY <1>2 DEF Begins
<1> QED
    BY <1>1, <1>3, <1>4 DEF Serves, Left

LEMMA OkStages ==
    /\ \A r, p : \A o \in FileStages(r, p) : r.err = "ok" /\ r.save /\ kind # "memory"
    /\ \A r : \A o \in MkdirStages(r) : r.err = "ok" /\ r.save /\ kind # "memory"
    /\ \A r, p : \A o \in RemoveStages(r, p) : r.err = "ok" /\ r.save /\ kind # "memory"
    /\ \A r, s, d : \A o \in MoveStages(r, s, d) : r.err = "ok" /\ r.save /\ kind # "memory"
BY StagesMean DEF FileStages, MkdirStages, RemoveStages, MoveStages

LEMMA NothingLeft ==
    ASSUME kind = "s3", kind' = "s3", Left(Leave(tree)) PROVE View' = View
BY InsideOutcome, ViewSeen, ViewSeenNext DEF Left

LEMMA BucketTree == ASSUME Types, Apart, kind = "s3" PROVE View \in Trees /\ Grown(View)
BY ViewSeen, SeenType, GrownSeen, ApartIs DEF Types

LEMMA ServesWrite ==
    ASSUME TreeInv, Types', Running, NEW p \in Paths, NEW c \in Contents, S3Apart(p, FALSE),
           NEW op \in {"write", "upload"}, NEW r, r = WriteFile(p, c)
    PROVE Serves(op, r, FileStages(r, p))
<1> Types /\ Apart /\ Sane(r)
    BY SaneWrite DEF TreeInv
<1>0. <<>> \in Paths
    BY FilesAssumption
<1>1. CASE kind = "s3"
    <2>1. r = S3Write(p, c) /\ kind' = "s3"
        BY <1>1 DEF WriteFile, Running
    <2>2. c \in Stored /\ c \in Nodes
        BY StoredText DEF Stored
    <2>3. ASSUME r.err = "ok" PROVE \E w \in Trees : PutTo(View, p, c, w)
        <3>1. View \in Trees
            BY <1>1, BucketTree
        <3>2. [T!WithDirs(View, Above(p)) EXCEPT ![p] = c] \in Trees
            BY <2>2, <3>1, WithDirsType, SetType
        <3>3. p # <<>>
            BY <2>1, <2>3, InsideOutcome DEF S3Write
        <3>4. PutTo(Seen(tree, markers), p, c, Seen([tree EXCEPT ![p] = c], markers))
            <4>1. tree \in Trees /\ markers \in SUBSET Paths /\ c \notin {"none", "dir"}
                BY NotReserved DEF Types
            <4>2. ApartOf(tree, markers) /\ Clear(tree, markers, p)
                BY <1>1, <3>3, ApartIs, ClearMeans
            <4> QED
                BY <2>2, <4>1, <4>2, BucketPut
        <3> QED
            BY <1>1, <3>2, <3>4, ViewSeen DEF PutTo
    <2>4. ASSUME Left(r)
          PROVE (r.err # "ok" => View' = View) /\ (r.err = "ok" => Does(op, View, View'))
        <3>1. \/ r.err # "ok" /\ View' = View
              \/ r.err = "ok" /\ PutTo(View, p, c, View')
            BY <1>1, <2>1, <2>4, BucketWrites
        <3>2. r.err = "ok" => View' \in Trees
            BY <2>3, <3>1 DEF PutTo
        <3> QED
            BY <1>0, <2>2, <3>1, <3>2, ForgetsNothing DEF Does, Effect
    <2>5. ASSUME r.err = "ok", Left(Leave(tree)) PROVE Begins(op, View, View')
        BY <1>0, <1>1, <2>1, <2>2, <2>3, <2>5, NothingLeft, NothingIsPart DEF Begins, Effect
    <2>6. \A o \in FileStages(r, p) : o = r \/ o = Leave(tree)
        BY <1>1, BucketStages
    <2> QED
        BY <1>1, <2>4, <2>5, <2>6, OkStages DEF Serves, Entries
<1>2. CASE kind # "s3"
    <2>1. Grown(tree) /\ tree \in Trees
        BY <1>2 DEF TreeInv, NodesGrown, Types, Running
    <2>2. \/ r.err # "ok" /\ r.tree = tree
          \/ r.err = "ok" /\ \E n \in Stored : PutTo(tree, p, n, r.tree)
        BY <1>2, <2>1, NodeWrite
    <2>3. Grown(r.tree)
        BY <2>1, <2>2, GrownPut, FilesAssumption
    <2>4. r.err = "ok" => \A u : Effect(op, tree, r.tree, u, <<>>)
        BY <2>2 DEF Effect
    <2>5. r.save
        BY <1>2 DEF WriteFile, MemWrite, JsonWrite, SqliteWrite, OsWrite, LegacyUpload, Leave, Fail, Outcome
    <2>6. ASSUME NEW o \in FileStages(r, p)
          PROVE /\ r.err = "ok" /\ r.save /\ kind # "memory" /\ Grown(o.tree)
                /\ o = r \/ (Entries /\ PartOf(tree, r.tree, o.tree, <<>>))
        <3>1. r.err = "ok" /\ r.save /\ kind # "memory"
            BY OkStages
        <3>2. PICK n \in Stored : PutTo(tree, p, n, r.tree)
            BY <2>2, <3>1
        <3>3. \A q \in Paths : ~ IsPrefix(p, q) => r.tree[q] = T!WithDirs(tree, Above(p))[q]
            <4>1. T!WithDirs(tree, Above(p)) \in Trees
                BY <2>1, WithDirsType
            <4> QED
                BY <3>2, <4>1, PrefixReflexive DEF PutTo, Trees
        <3> QED
            BY <1>2, <2>1, <2>3, <3>1, <3>2, <3>3, FileStagesPart DEF PutTo
    <2> QED
        BY <1>0, <1>2, <2>1, <2>2, <2>3, <2>4, <2>5, <2>6, ServesTree
<1> QED
    BY <1>1, <1>2

LEMMA ServesMkdir ==
    ASSUME TreeInv, Types', Running, NEW p \in Paths, NEW b \in BOOLEAN, S3Apart(p, TRUE),
           NEW r, r = Mkdir(p, b)
    PROVE Serves("mkdir", r, MkdirStages(r))
<1> Types /\ Apart /\ Sane(r)
    BY SaneMkdir DEF TreeInv
<1>0. <<>> \in Paths
    BY FilesAssumption
<1>1. CASE kind = "s3"
    <2>1. r = S3Mkdir(p, b) /\ kind' = "s3"
        BY <1>1 DEF Mkdir, Running
    <2>2. View \in Trees /\ T!WithDirs(View, Above(p) \cup {p}) \in Trees
        BY <1>1, BucketTree, WithDirsType
    <2>3. \A q \in Above(p) : ~ IsFile(View[q])
        <3>1. IsFile(View[<<>>]) = FALSE
            BY <1>1, ViewSeen, SeenAt, FilesAssumption DEF IsFile
        <3> QED
            BY <1>1, <3>1 DEF S3Apart
    <2>4. MakeTo(View, p, T!WithDirs(View, Above(p) \cup {p}))
        BY <2>3 DEF MakeTo
    <2>5. ASSUME Left(r)
          PROVE r.err = "ok" /\ Does("mkdir", View, View')
        <3>1. r.err = "ok" /\ MakeTo(View, p, View')
            BY <1>1, <2>1, <2>5, BucketMakes
        <3>2. View' \in Trees
            BY <2>2, <3>1 DEF MakeTo
        <3> QED
            BY <1>0, <3>1, <3>2, ForgetsNothing DEF Does, Effect
    <2>6. ASSUME Left(Leave(tree)) PROVE Begins("mkdir", View, View')
        BY <1>0, <1>1, <2>1, <2>2, <2>4, <2>6, NothingLeft, NothingIsPart DEF Begins, Effect
    <2>7. \A o \in MkdirStages(r) : o = r \/ o = Leave(tree)
        BY <1>1, BucketStages
    <2> QED
        BY <1>1, <2>5, <2>6, <2>7, OkStages DEF Serves, Entries
<1>2. CASE kind # "s3"
    <2>1. Grown(tree) /\ tree \in Trees
        BY <1>2 DEF TreeInv, NodesGrown, Types, Running
    <2>2. \/ r.err # "ok" /\ r.tree = tree
          \/ r.err = "ok" /\ MakeTo(tree, p, r.tree)
        BY <1>2, <2>1, NodeMkdir
    <2>3. Grown(r.tree)
        BY <2>1, <2>2, GrownDirs DEF MakeTo
    <2>4. r.err = "ok" => \A u : Effect("mkdir", tree, r.tree, u, <<>>)
        BY <2>2 DEF Effect
    <2>5. ASSUME r.err = "ok", ~ r.save, kind = "json" PROVE r.tree = tree
        <3>1. r = JsonMkdir(p, b)
            BY <2>5 DEF Mkdir
        <3>2. r.save = (p # <<>> /\ (b \/ tree[p] = "none"))
            BY <3>1 DEF JsonMkdir, MemMkdir, Leave, Fail, Outcome
        <3>3. r.err = MemMkdir(p, b).err /\ r.tree = MemMkdir(p, b).tree
            BY <3>1 DEF JsonMkdir, MemMkdir, Leave, Fail, Outcome
        <3>4. CASE p = <<>>
            BY <3>3, <3>4, InsideOutcome DEF MemMkdir
        <3>5. CASE p # <<>> /\ ~ b /\ tree[p] # "none"
            <4>1. ParentsError(Above(p), b) = "ok" /\ r.tree = T!WithDirs(tree, Above(p) \cup {p})
                BY <2>5, <3>3, <3>5, InsideOutcome DEF MemMkdir
            <4>2. \A q \in Above(p) : tree[q] # "none"
                BY <3>5, <4>1 DEF ParentsError
            <4> QED
                BY <2>1, <3>5, <4>1, <4>2, DirsThere
        <3> QED
            BY <2>5, <3>2, <3>4, <3>5
    <2>6. ASSUME NEW o \in MkdirStages(r)
          PROVE /\ r.err = "ok" /\ r.save /\ kind # "memory" /\ Grown(o.tree)
                /\ o = r \/ (Entries /\ PartOf(tree, r.tree, o.tree, <<>>))
        BY <1>0, <1>2, <2>1, <2>3, OkStages, OtherStagesPart
    <2> QED
        BY <1>0, <1>2, <2>1, <2>2, <2>3, <2>4, <2>5, <2>6, ServesTree
<1> QED
    BY <1>1, <1>2

LEMMA ServesDelete ==
    ASSUME Fitting, TreeInv, Types', Running, NEW p \in Paths, NEW b \in BOOLEAN, Fits(p),
           NEW r, r = Delete(p, b)
    PROVE Serves("delete", r, RemoveStages(r, p))
<1> Types /\ Apart /\ Sane(r)
    BY SaneDelete DEF TreeInv
<1>1. CASE kind = "s3"
    <2>1. r = S3Remove(p, b) /\ kind' = "s3"
        BY <1>1 DEF Delete, Running
    <2>2. View \in Trees /\ T!Without(View, p) \in Trees
        BY <1>1, BucketTree, WithoutType
    <2>3. r.err = "ok" => p # <<>> /\ View[p] # "none"
        <3>1. r.err = "ok" => p # <<>> /\ (tree[p] # "none" \/ S3Keys(p) # {})
            BY <1>1, <2>1, InsideOutcome, ListedIsAll DEF S3Remove, Fitting
        <3> QED
            BY <1>1, <3>1, StatMeans, KeysExist DEF IsFile
    <2>4. r.err = "ok" => \A u : Effect("delete", View, T!Without(View, p), u, p)
        BY <2>3 DEF Effect, EraseTo
    <2>5. ASSUME Left(r)
          PROVE (r.err # "ok" => View' = View) /\ (r.err = "ok" => Does("delete", View, View'))
        <3>1. \/ r.err # "ok" /\ View' = View
              \/ r.err = "ok" /\ Forgotten(View, T!Without(View, p), View', p)
            BY <1>1, <2>1, <2>5, BucketErases DEF Fitting
        <3> QED
            BY <2>2, <2>4, <3>1 DEF Does
    <2>6. ASSUME r.err = "ok", Left(Leave(tree)) PROVE Begins("delete", View, View')
        BY <1>1, <2>1, <2>2, <2>4, <2>6, NothingLeft, NothingIsPart DEF Begins
    <2>7. ASSUME r.err = "ok", NEW S \in SUBSET S3Keys(p), Left(S3Without(S)) PROVE Begins("delete", View, View')
        <3>1. PartOf(View, T!Without(View, p), View', p)
            BY <1>1, <2>1, <2>3, <2>7, BucketErasesSome
        <3> QED
            BY <2>2, <2>4, <2>7, <3>1 DEF Begins
    <2>8. \A o \in RemoveStages(r, p) : o = r \/ o = Leave(tree) \/ \E S \in SUBSET S3Keys(p) : o = S3Without(S)
        BY <1>1, BucketStages
    <2> QED
        BY <1>1, <2>5, <2>6, <2>7, <2>8, OkStages DEF Serves, Entries
<1>2. CASE kind # "s3"
    <2>1. Grown(tree) /\ tree \in Trees
        BY <1>2 DEF TreeInv, NodesGrown, Types, Running
    <2>2. \/ r.err # "ok" /\ r.tree = tree
          \/ /\ r.err = "ok" /\ p # <<>> /\ tree[p] # "none"
             /\ r.tree = T!Without(tree, p)
        BY <1>2, <2>1, NodeDelete DEF Fitting
    <2>3. Grown(r.tree)
        BY <2>1, <2>2, GrownWithout
    <2>4. r.err = "ok" => \A u : Effect("delete", tree, r.tree, u, p)
        BY <2>2 DEF Effect, EraseTo
    <2>5. kind = "json" => r.save
        BY DEF Delete, JsonRemove, MemRemove, Leave, Fail, Outcome
    <2>6. ASSUME NEW o \in RemoveStages(r, p)
          PROVE /\ r.err = "ok" /\ r.save /\ kind # "memory" /\ Grown(o.tree)
                /\ o = r \/ (Entries /\ PartOf(tree, r.tree, o.tree, p))
        BY <1>2, <2>1, <2>3, OkStages, OtherStagesPart
    <2> QED
        BY <1>2, <2>1, <2>2, <2>3, <2>4, <2>5, <2>6, ServesTree
<1> QED
    BY <1>1, <1>2

LEMMA ServesCopy ==
    ASSUME Fitting, TreeInv, Types', Running, NEW s \in Paths, NEW d \in Paths, MayCopy(s, d),
           NEW r, r = CopyFile(s, d)
    PROVE Serves("copy", r, FileStages(r, d))
<1> Types /\ Apart /\ Sane(r)
    BY SaneCopy DEF TreeInv
<1>0. /\ <<>> \in Paths /\ View[d] = "none" /\ ~ IsPrefix(s, d) /\ S3Apart(d, FALSE)
      /\ kind # "s3" => View = tree /\ kind \notin {"s3", "legacy"}
    BY FilesAssumption, MayCopyMeans DEF Fitting
<1>1. CASE kind = "s3"
    <2> DEFINE g == T!Graft(T!WithDirs(View, Above(d)), s, d)
    <2>1. r = S3Copy(s, d) /\ kind' = "s3"
        BY <1>1 DEF CopyFile, Running
    <2>2. View \in Trees /\ g \in Trees
        BY <1>1, BucketTree, WithDirsType, GraftType
    <2>3. r.err = "ok" => CopyTo(View, s, d, g)
        <3>1. r.err = "ok" => d # <<>> /\ s # <<>> /\ tree[s] # "none"
            BY <2>1, InsideOutcome DEF S3Copy
        <3>2. r.err = "ok" => View[s] # "none"
            BY <1>1, <3>1, ViewSeen, SeenAt
        <3> QED
            BY <3>1, <3>2 DEF CopyTo
    <2>4. ASSUME Left(r)
          PROVE (r.err # "ok" => View' = View) /\ (r.err = "ok" => Does("copy", View, View'))
        <3>1. \/ r.err # "ok" /\ View' = View
              \/ r.err = "ok" /\ CopyTo(View, s, d, View')
            BY <1>0, <1>1, <2>1, <2>4, BucketCopies
        <3>2. r.err = "ok" => View' \in Trees
            BY <2>2, <3>1 DEF CopyTo
        <3> QED
            BY <1>0, <3>1, <3>2, ForgetsNothing DEF Does, Effect
    <2> HIDE DEF g
    <2>5. ASSUME r.err = "ok", Left(Leave(tree)) PROVE Begins("copy", View, View')
        BY <1>0, <1>1, <2>1, <2>2, <2>3, <2>5, NothingLeft, NothingIsPart DEF Begins, Effect
    <2>6. \A o \in FileStages(r, d) : o = r \/ o = Leave(tree)
        BY <1>1, BucketStages
    <2> QED
        BY <1>1, <2>4, <2>5, <2>6, OkStages DEF Serves, Entries
<1>2. CASE kind # "s3"
    <2>1. Grown(tree) /\ tree \in Trees /\ tree[d] = "none" /\ kind \notin {"s3", "legacy"}
        BY <1>0, <1>2 DEF TreeInv, NodesGrown, Types, Running
    <2>2. \/ r.err # "ok" /\ r.tree = tree
          \/ r.err = "ok" /\ CopyTo(tree, s, d, r.tree) /\ \A q \in Above(d) : ~ IsFile(tree[q])
        BY <1>0, <2>1, NodeCopy DEF Fitting
    <2>3. Grown(r.tree)
        BY <2>1, <2>2, GrownGraft DEF CopyTo
    <2>4. r.err = "ok" => \A u : Effect("copy", tree, r.tree, u, <<>>)
        BY <2>2 DEF Effect
    <2>5. kind = "json" => r.save
        BY DEF CopyFile, JsonCopy, MemCopy, Leave, Fail, Outcome
    <2>6. ASSUME NEW o \in FileStages(r, d)
          PROVE /\ r.err = "ok" /\ r.save /\ kind # "memory" /\ Grown(o.tree)
                /\ o = r \/ (Entries /\ PartOf(tree, r.tree, o.tree, <<>>))
        <3>1. r.err = "ok" /\ r.save /\ kind # "memory"
            BY OkStages
        <3>2. \A q \in Paths : ~ IsPrefix(d, q) => r.tree[q] = T!WithDirs(tree, Above(d))[q]
            BY <2>2, <3>1, GraftAt DEF CopyTo
        <3> QED
            BY <1>2, <2>1, <2>2, <2>3, <3>1, <3>2, FileStagesPart
    <2> QED
        BY <1>0, <1>2, <2>1, <2>2, <2>3, <2>4, <2>5, <2>6, ServesTree
<1> QED
    BY <1>1, <1>2

LEMMA ServesMove ==
    ASSUME Fitting, TreeInv, Types', Running, NEW s \in Paths, NEW d \in Paths, MayCopy(s, d),
           NEW r, r = MoveFile(s, d)
    PROVE Serves("move", r, MoveStages(r, s, d))
<1> Types /\ Apart /\ Sane(r)
    BY SaneMove DEF TreeInv
<1>0. /\ View[d] = "none" /\ ~ IsPrefix(s, d) /\ S3Apart(d, FALSE)
      /\ \A q \in Paths : IsPrefix(s, q) /\ View[q] # "none" => T!Rebase(q, s, d) \in Paths
      /\ kind # "s3" => View = tree /\ kind \notin {"s3", "legacy"}
    BY MayCopyMeans DEF Fitting
<1>1. CASE kind = "s3"
    <2>1. PICK w : w = T!Without(T!Graft(T!WithDirs(View, Above(d)), s, d), s)
        OBVIOUS
    <2>2. r = S3Move(s, d) /\ kind' = "s3"
        BY <1>1 DEF MoveFile, Running
    <2>3. View \in Trees /\ Grown(View) /\ w \in Trees
        BY <1>1, <2>1, BucketTree, WithDirsType, GraftType, WithoutType
    <2>4. /\ Left(r) /\ r.err # "ok" => View' = View
          /\ r.err = "ok" => View[s] # "none" /\ s # <<>> /\ d # <<>>
          /\ Left(r) /\ r.err = "ok" => Forgotten(View, w, View', s) /\ KeepsFiles(View, s, d, View')
          /\ Left(S3Copy(s, d)) /\ r.err = "ok" => PartOf(View, w, View', s) /\ KeepsFiles(View, s, d, View')
        BY <1>0, <1>1, <2>1, <2>2, BucketMoves
    <2>5. ASSUME r.err = "ok" PROVE \A u : KeepsFiles(View, s, d, u) => Effect("move", View, w, u, s)
        BY <2>1, <2>4, <2>5 DEF Effect, MoveTo
    <2>6. r.err = "ok" => KeepsFiles(View, s, d, View)
        BY <1>0, <2>3, <2>4, NoFileMissing
    <2>7. Left(r) /\ r.err = "ok" => Does("move", View, View')
        BY <2>3, <2>4, <2>5 DEF Does
    <2>8. ASSUME r.err = "ok", Left(Leave(tree)) PROVE Begins("move", View, View')
        BY <1>1, <2>2, <2>3, <2>5, <2>6, <2>8, NothingLeft, NothingIsPart DEF Begins
    <2>9. ASSUME r.err = "ok", Left(S3Copy(s, d)) PROVE Begins("move", View, View')
        BY <2>3, <2>4, <2>5, <2>9 DEF Begins
    <2>10. \A o \in MoveStages(r, s, d) : o = r \/ o = Leave(tree) \/ o = S3Copy(s, d)
        BY <1>1, BucketStages
    <2> QED
        BY <1>1, <2>4, <2>7, <2>8, <2>9, <2>10, OkStages DEF Serves, Entries
<1>2. CASE kind # "s3"
    <2>1. Grown(tree) /\ tree \in Trees /\ tree[d] = "none" /\ kind \notin {"s3", "legacy"}
        BY <1>0, <1>2 DEF TreeInv, NodesGrown, Types, Running
    <2>2. \/ r.err # "ok" /\ r.tree = tree
          \/ /\ r.err = "ok" /\ tree[s] # "none" /\ s # <<>> /\ d # <<>>
             /\ r.tree = T!Without(T!Graft(T!WithDirs(tree, Above(d)), s, d), s)
             /\ \A q \in Above(d) : ~ IsFile(tree[q])
        BY <1>0, <2>1, NodeMove DEF Fitting
    <2>3. Grown(r.tree)
        BY <2>1, <2>2, GrownGraft, GrownWithout
    <2>4. r.err = "ok" => \A u : KeepsFiles(tree, s, d, u) => Effect("move", tree, r.tree, u, s)
        BY <2>2 DEF Effect, MoveTo
    <2>5. r.err = "ok" => KeepsFiles(tree, s, d, r.tree)
        BY <1>0, <1>2, <2>1, <2>2, WithoutAt, NoFileMissing
    <2>6. kind = "json" => r.save
        BY DEF MoveFile, JsonMove, MemCopy, Leave, Fail, Outcome
    <2>7. ASSUME NEW o \in MoveStages(r, s, d)
          PROVE /\ r.err = "ok" /\ r.save /\ kind # "memory" /\ Grown(o.tree)
                /\ KeepsFiles(tree, s, d, o.tree)
                /\ o = r \/ (Entries /\ PartOf(tree, r.tree, o.tree, s))
        BY <1>0, <1>2, <2>1, OkStages, MoveStagesPart DEF Fitting
    <2> QED
        BY <1>2, <2>1, <2>2, <2>3, <2>4, <2>5, <2>6, <2>7, ServesTree
<1> QED
    BY <1>1, <1>2

\* A request that is answered or broken off is a step of FileTree.
LEMMA CarryStep ==
    ASSUME TreeInv, up, Types', Apart', NEW via, NEW op \in T!Operations, NEW r, NEW stages,
           Carry(via, op, r, stages), Serves(op, r, stages)
    PROVE TreeInv' /\ T!Next
<1>1. kind' = kind /\ up' = up
    BY DEF Carry, Answer, Breaks
<1>2. UNCHANGED Store
    BY <1>1 DEF Store
<1>3. Store = IF kind = "memory" THEN "process" ELSE IF kind = "json" THEN "file" ELSE "entries"
    BY DEF Store
<1>4. /\ kind \in {"memory", "json"} => Kept = disk /\ Kept' = disk'
      /\ kind \notin {"memory", "json"} => Kept = View /\ Kept' = View'
    BY <1>1 DEF Kept
<1>5. kind = "json" => View = tree /\ View' = tree'
    BY <1>1, ViewIsTree, ViewIsTreeNext DEF TreeInv
<1>6. CASE Answer(via, op, r)
    <2>1. /\ Left(r) /\ reply'.op = op /\ reply'.event = (IF r.err = "ok" THEN op ELSE "none")
          /\ disk' = IF kind = "json" /\ r.err = "ok" /\ r.save THEN r.tree ELSE disk
        BY <1>6 DEF Answer, Left
    <2>2. /\ kind # "s3" => Grown(tree')
          /\ r.err # "ok" => View' = View
          /\ r.err = "ok" => Does(op, View, View')
          /\ r.err = "ok" /\ ~ r.save /\ kind = "json" => tree' = tree
        BY <2>1 DEF Serves
    <2>3. TreeInv'
        <3>1. NodesGrown'
            BY <1>1, <2>2 DEF NodesGrown
        <3>2. DiskGrown'
            BY <1>1, <2>1, <2>2 DEF DiskGrown, TreeInv, Left
        <3> QED
            BY <3>1, <3>2 DEF TreeInv
    <2>4. CASE r.err # "ok"
        <3>1. T!Refused
            BY <1>4, <2>1, <2>2, <2>4 DEF T!Refused
        <3> QED
            BY <1>2, <2>3, <3>1 DEF T!Next
    <2>5. CASE r.err = "ok"
        <3>1. T!Does(op, TRUE)
            BY <2>2, <2>5, DoesMeans
        <3>2. Kept' \in IF Store = "process" THEN {Kept} ELSE
                        IF Store = "file" /\ View' = View THEN {View, Kept} ELSE {View'}
            BY <1>3, <1>4, <1>5, <2>1, <2>2, <2>5 DEF Left
        <3>3. T!Done(op)
            BY <2>1, <2>5, <3>1, <3>2 DEF T!Done
        <3> QED
            BY <1>2, <2>3, <3>3 DEF T!Next
    <2> QED
        BY <2>4, <2>5
<1>7. ASSUME NEW o \in stages, Breaks(via, op, o)
      PROVE TreeInv' /\ T!Next
    <2>1. /\ Left(o) /\ reply'.op = op /\ reply'.event = "none"
          /\ disk' \in IF kind = "json" THEN {disk, o.tree, T!Lost} ELSE {disk}
        BY <1>7 DEF Breaks, Left
    <2>2. /\ r.err = "ok" /\ kind # "memory"
          /\ kind # "s3" => Grown(tree')
          /\ o = r \/ (Entries /\ Begins(op, View, View'))
        BY <2>1 DEF Serves
    <2>3. TreeInv'
        <3>1. NodesGrown'
            BY <1>1, <2>2 DEF NodesGrown
        <3>2. DiskGrown'
            BY <1>1, <2>1, <2>2 DEF DiskGrown, TreeInv, Left
        <3> QED
            BY <3>1, <3>2 DEF TreeInv
    <2>4. T!Does(op, FALSE)
        <3>1. CASE o = r
            BY <2>1, <2>2, <3>1, DoesMeans DEF Serves
        <3>2. CASE Entries /\ Begins(op, View, View')
            BY <1>3, <3>2, BeginsMeans DEF Entries
        <3> QED
            BY <2>2, <3>1, <3>2
    <2>5. Kept' \in IF Store = "process" THEN {Kept} ELSE
                    IF Store = "file" THEN {Kept, View', T!Lost} ELSE {View'}
        BY <1>3, <1>4, <1>5, <2>1, <2>2 DEF Left
    <2>6. T!Stopped(op)
        BY <2>1, <2>4, <2>5 DEF T!Stopped
    <2> QED
        BY <1>2, <2>3, <2>6 DEF T!Next
<1> QED
    BY <1>6, <1>7 DEF Carry

LEMMA GrownEmpty == Grown(T!Empty)
BY StrictIsOneWay, FilesAssumption, RootBelowNothing DEF Grown, T!Empty

LEMMA CarryRuns ==
    ASSUME NEW via, NEW op, NEW r, NEW stages, Carry(via, op, r, stages), up
    PROVE Running
BY DEF Carry, Answer, Breaks, Running

LEMMA TreeStep ==
    ASSUME Fitting, TreeInv, [Next]_vars
    PROVE TreeInv' /\ [T!Next]_(T!tvars)
<1> Types /\ Apart /\ NodesGrown
    BY DEF TreeInv
<1>0. Types' /\ Apart' /\ kind' = kind
    BY NextTypes, StepApart, KindStays
<1>1. ASSUME NEW raw \in RawPaths, NEW via \in {"rest", "mcp"}, NEW c \in Contents, Upload(raw, c, via)
      PROVE TreeInv' /\ T!Next
    <2>1. CASE via = "rest" /\ c \in Oversize
        <3>1. UNCHANGED <<kind, tree, markers, disk, up>> /\ reply'.op = "upload" /\ reply'.event = "none"
            BY <1>1, <2>1 DEF Upload
        <3>2. View' = View /\ Kept' = Kept /\ Store' = Store
            BY <3>1 DEF Kept, Store, View, S3Node
        <3>3. TreeInv'
            BY <1>0, <3>1 DEF TreeInv, NodesGrown, DiskGrown
        <3> QED
            BY <3>1, <3>2, <3>3 DEF T!Next, T!Refused, T!Operations
    <2>2. CASE ~ (via = "rest" /\ c \in Oversize)
        <3>1. PICK p \in Paths : p = Resolve(raw)
            BY <1>1 DEF Upload
        <3>2. PICK op \in {"write", "upload"} : Carry(via, op, WriteFile(p, c), FileStages(WriteFile(p, c), p))
            BY <1>1, <2>2, <3>1 DEF Upload
        <3>3. up /\ S3Apart(p, FALSE) /\ op \in T!Operations
            BY <1>1, <3>1 DEF Upload, T!Operations
        <3>4. Serves(op, WriteFile(p, c), FileStages(WriteFile(p, c), p))
            BY <1>0, <3>2, <3>3, CarryRuns, ServesWrite
        <3> QED
            BY <1>0, <3>2, <3>3, <3>4, CarryStep
    <2> QED
        BY <2>1, <2>2
<1>2. ASSUME NEW raw \in RawPaths, NEW via \in {"rest", "mcp"}, NEW b \in BOOLEAN, MakeDirectory(raw, b, via)
      PROVE TreeInv' /\ T!Next
    <2>1. PICK p \in Paths : p = Resolve(raw)
        BY <1>2 DEF MakeDirectory
    <2>2. up /\ S3Apart(p, TRUE) /\ Carry(via, "mkdir", Mkdir(p, b), MkdirStages(Mkdir(p, b)))
        BY <1>2, <2>1 DEF MakeDirectory
    <2>3. Serves("mkdir", Mkdir(p, b), MkdirStages(Mkdir(p, b)))
        BY <1>0, <2>2, CarryRuns, ServesMkdir
    <2>4. "mkdir" \in T!Operations
        BY DEF T!Operations
    <2> QED
        BY <1>0, <2>2, <2>3, <2>4, CarryStep
<1>3. ASSUME NEW raw \in RawPaths, NEW via \in {"rest", "mcp"}, NEW b \in BOOLEAN, RemovePath(raw, b, via)
      PROVE TreeInv' /\ T!Next
    <2>1. PICK p \in Paths : p = Resolve(raw)
        BY <1>3 DEF RemovePath
    <2>2. up /\ Fits(p) /\ Carry(via, "delete", Delete(p, b), RemoveStages(Delete(p, b), p))
        BY <1>3, <2>1 DEF RemovePath, Fits, Fitting
    <2>3. Serves("delete", Delete(p, b), RemoveStages(Delete(p, b), p))
        BY <1>0, <2>2, CarryRuns, ServesDelete
    <2>4. "delete" \in T!Operations
        BY DEF T!Operations
    <2> QED
        BY <1>0, <2>2, <2>3, <2>4, CarryStep
<1>4. ASSUME NEW x \in Paths, NEW y \in Paths, Copy(x, y)
      PROVE TreeInv' /\ T!Next
    <2>1. PICK s \in Paths : s = Resolve(x)
        BY <1>4 DEF Copy, MayCopy
    <2>2. PICK d \in Paths : d = Resolve(y)
        BY <1>4 DEF Copy, MayCopy
    <2>3. up /\ MayCopy(s, d) /\ Carry("host", "copy", CopyFile(s, d), FileStages(CopyFile(s, d), d))
        BY <1>4, <2>1, <2>2 DEF Copy, MayCopy
    <2>4. Serves("copy", CopyFile(s, d), FileStages(CopyFile(s, d), d))
        BY <1>0, <2>3, CarryRuns, ServesCopy
    <2>5. "copy" \in T!Operations
        BY DEF T!Operations
    <2> QED
        BY <1>0, <2>3, <2>4, <2>5, CarryStep
<1>5. ASSUME NEW x \in Paths, NEW y \in Paths, Move(x, y)
      PROVE TreeInv' /\ T!Next
    <2>1. PICK s \in Paths : s = Resolve(x)
        BY <1>5 DEF Move, MayCopy
    <2>2. PICK d \in Paths : d = Resolve(y)
        BY <1>5 DEF Move, MayCopy
    <2>3. up /\ MayCopy(s, d) /\ Carry("host", "move", MoveFile(s, d), MoveStages(MoveFile(s, d), s, d))
        BY <1>5, <2>1, <2>2 DEF Move, MayCopy
    <2>4. Serves("move", MoveFile(s, d), MoveStages(MoveFile(s, d), s, d))
        BY <1>0, <2>3, CarryRuns, ServesMove
    <2>5. "move" \in T!Operations
        BY DEF T!Operations
    <2> QED
        BY <1>0, <2>3, <2>4, <2>5, CarryStep
<1>6. CASE Restart
    <2>1. /\ tree' = (IF kind \in {"memory", "json"} THEN disk ELSE tree) /\ markers' = markers /\ disk' = disk
          /\ up /\ up' = (tree' # T!Lost) /\ reply'.op = "none" /\ reply'.event = "none"
        BY <1>6 DEF Restart
    <2>2. NodesGrown' /\ DiskGrown'
        BY <1>0, <2>1 DEF NodesGrown, DiskGrown, TreeInv
    <2>3. Store' = Store
        BY <1>0 DEF Store
    <2>4. View' = Kept /\ Kept' = Kept
        <3>1. CASE kind = "s3"
            BY <1>0, <2>1, <3>1, ViewSeen, ViewSeenNext DEF Kept
        <3>2. CASE kind # "s3"
            BY <1>0, <2>1, <3>2, ViewIsTree, ViewIsTreeNext DEF Kept
        <3> QED
            BY <3>1, <3>2
    <2> QED
        BY <1>0, <2>1, <2>2, <2>3, <2>4 DEF T!Next, T!Restart, TreeInv
<1>7. CASE UNCHANGED vars
    <2>1. View' = View /\ Kept' = Kept /\ Store' = Store /\ reply' = reply
        BY <1>7 DEF vars, View, S3Node, Kept, Store
    <2>2. TreeInv'
        BY <1>0, <1>7 DEF vars, TreeInv, NodesGrown, DiskGrown
    <2> QED
        BY <2>1, <2>2 DEF T!tvars
<1> QED
    BY <1>1, <1>2, <1>3, <1>4, <1>5, <1>6, <1>7 DEF Next

LEMMA TreeInit == Init => TreeInv /\ T!Init
<1> SUFFICES ASSUME Init PROVE TreeInv /\ T!Init
    OBVIOUS
<1>1. Types /\ Apart
    BY InitTypes, InitApart
<1>2. NodesGrown
    <2> SUFFICES ASSUME kind # "s3" PROVE Grown(tree)
        BY DEF NodesGrown
    <2> DEFINE S == UNION {Above(p) \cup {p} : p \in Roots \cup {Links[l] : l \in DOMAIN Links}}
    <2>1. Grown(T!WithDirs(T!Empty, S))
        <3>1. \A q \in Paths : T!Empty[q] = IF q = <<>> THEN "dir" ELSE "none"
            BY DEF T!Empty
        <3>2. \A q \in Paths : T!WithDirs(T!Empty, S)[q] = IF q \in S \/ q = <<>> THEN "dir" ELSE "none"
            BY <3>1, WithDirsAt
        <3>3. ASSUME NEW a \in S, NEW q \in Paths, a \in Paths, IsStrictPrefix(q, a) PROVE q \in S
            <4>1. PICK p \in Roots \cup {Links[l] : l \in DOMAIN Links} : a \in Above(p) \cup {p}
                OBVIOUS
            <4>2. p \in Paths
                BY FilesAssumption
            <4>3. q \in Above(p)
                BY <3>3, <4>1, <4>2, AboveMeans, StrictTransitive
            <4> QED
                BY <4>1, <4>3
        <3> HIDE DEF S
        <3> QED
            BY <3>2, <3>3, RootBelowNothing, FilesAssumption DEF Grown
    <2> QED
        BY <2>1, GrownEmpty DEF Init
<1>3. DiskGrown
    BY GrownEmpty DEF Init, DiskGrown
<1>4. View \in Trees
    <2>1. CASE kind = "s3"
        BY <1>1, <2>1, ViewSeen, SeenType DEF Types
    <2>2. CASE kind # "s3"
        BY <1>1, <2>2, ViewIsTree DEF Types
    <2> QED
        BY <2>1, <2>2
<1>5. Kept = View
    <2>1. kind \in {"memory", "json"} => tree = disk /\ View = tree
        BY <1>1, ViewIsTree DEF Init
    <2> QED
        BY <2>1 DEF Kept
<1>6. reply.op = "none" /\ reply.event = "none" /\ Store \in {"process", "file", "entries"}
    BY DEF Init, Store
<1> QED
    BY <1>1, <1>2, <1>3, <1>4, <1>5, <1>6 DEF TreeInv, T!Init, Trees, Nodes

\* Whatever the provider, what clients see of it is FileTree: a request that
\* succeeds does to the tree what its name says, is announced and survives a
\* restart of every provider but the one in memory; one that is refused
\* changes nothing; one that is broken off is not announced and has done a
\* part of its work, and a move among these has lost no file.
THEOREM ProvidersImplementTree ==
    ASSUME Fitting PROVE Spec => ImplementsTree
<1>1. TreeInv /\ [Next]_vars => TreeInv' /\ [T!Next]_(T!tvars)
    BY TreeStep
<1> QED
    BY <1>1, TreeInit, PTL DEF Spec, ImplementsTree, T!Spec
=============================================================================
