------------------------------ MODULE FileTree ------------------------------
(***************************************************************************)
(* What IFileStorageProvider promises its callers: one tree of files and   *)
(* directories.  A request that is acknowledged has done exactly what it   *)
(* says to the paths it names, one fs:changed event with its name follows, *)
(* and a restart serves the result.  A request that is refused changes     *)
(* nothing; one that the store below breaks off has done a part of its     *)
(* work, without an event, and a move among these has lost no file.        *)
(***************************************************************************)
EXTENDS Naturals, Sequences, SequencesExt

CONSTANTS Paths,    \* sequences of names, <<>> the root; closed under prefixes
          Contents, \* what a file may hold
          Cut       \* what a file holds whose writing was broken off

VARIABLES tree,     \* what is at each path: "none", "dir" or a content
          kept,     \* what the next start serves; Lost when it cannot start
          asked,    \* the last request, "none" before the first
          told,     \* its event, "none" without one
          store     \* what outlives the process: nothing ("process"), one file
                    \* written as a whole ("file"), or the tree itself ("entries")

tvars == <<tree, kept, asked, told, store>>

IsFile(n) == n \notin {"none", "dir"}
Below(p) == {q \in Paths : IsPrefix(p, q)}
Above(p) == {q \in Paths : IsStrictPrefix(q, p)}
Rebase(q, s, d) == d \o SubSeq(q, Len(s) + 1, Len(q))

\* A tree with the directories of S made where nothing is.
WithDirs(t, S) == [q \in Paths |-> IF q \in S /\ t[q] = "none" THEN "dir" ELSE t[q]]

\* A tree without what is at p and below.
Without(t, p) == [q \in Paths |-> IF IsPrefix(p, q) THEN "none" ELSE t[q]]

\* A tree in which what is at d and below is what was at s and below.
Graft(t, s, d) ==
    [q \in Paths |-> IF ~ IsPrefix(d, q) THEN t[q]
                     ELSE IF Rebase(q, d, s) \in Paths THEN t[Rebase(q, d, s)] ELSE "none"]

Empty == [p \in Paths |-> IF p = <<>> THEN "dir" ELSE "none"]
Lost == [p \in Paths |-> "none"]

\* Directories above p that are gone: a store without directories of its own
\* forgets the empty ones.
Forgets(q, p) == q \in Above(p) \ {<<>>} /\ tree[q] = "dir" /\ tree'[q] = "none"

\* The new tree is t, or, when a request is broken off, part way from the old
\* one to t.  A store that is one file is written from a tree in memory, which
\* is never part way.
Leaves(t, p, whole) ==
    \A q \in Paths : \/ tree'[q] = t[q]
                     \/ Forgets(q, p)
                     \/ ~ whole /\ store = "entries" /\ tree'[q] \in {tree[q], Cut}

\* A file below s that is neither there any more nor where a move to d puts it.
Misses(s, d) ==
    \E q \in Below(s) : IsFile(tree[q]) /\ \A r \in {q, Rebase(q, s, d)} \cap Paths : tree'[r] # tree[q]

Put(p, c, whole) ==
    /\ tree[p] # "dir" /\ \A q \in Above(p) : ~ IsFile(tree[q])
    /\ Leaves([WithDirs(tree, Above(p)) EXCEPT ![p] = c], <<>>, whole)

Make(p, whole) ==
    /\ \A q \in Above(p) : ~ IsFile(tree[q])
    /\ Leaves(WithDirs(tree, Above(p) \cup {p}), <<>>, whole)

Erase(p, whole) ==
    /\ p # <<>> /\ tree[p] # "none"
    /\ Leaves(Without(tree, p), p, whole)

Copy(s, d, whole) ==
    /\ tree[s] # "none" /\ d # <<>>
    /\ Leaves(Graft(WithDirs(tree, Above(d)), s, d), <<>>, whole)

Move(s, d, whole) ==
    /\ s # <<>> /\ tree[s] # "none" /\ d # <<>>
    /\ Leaves(Without(Graft(WithDirs(tree, Above(d)), s, d), s), s, whole)
    /\ ~ Misses(s, d)

Does(op, whole) ==
    \/ op \in {"write", "upload"} /\ \E p \in Paths, c \in Contents : Put(p, c, whole)
    \/ op = "mkdir" /\ \E p \in Paths : Make(p, whole)
    \/ op = "delete" /\ \E p \in Paths : Erase(p, whole)
    \/ op = "copy" /\ \E s, d \in Paths : Copy(s, d, whole)
    \/ op = "move" /\ \E s, d \in Paths : Move(s, d, whole)

Operations == {"write", "upload", "mkdir", "delete", "copy", "move"}

\* A request that does what it says, announced.  One that finds nothing to do
\* may leave the file as it is.
Done(op) ==
    /\ asked' = op /\ told' = op /\ Does(op, TRUE)
    /\ kept' \in IF store = "process" THEN {kept} ELSE
                 IF store = "file" /\ tree' = tree THEN {tree, kept} ELSE {tree'}

\* A request that is broken off, or whose answer is lost.
Stopped(op) ==
    /\ asked' = op /\ told' = "none" /\ Does(op, FALSE)
    /\ kept' \in IF store = "process" THEN {kept} ELSE
                 IF store = "file" THEN {kept, tree', Lost} ELSE {tree'}

\* A request that is refused, or only reads.
Refused == tree' = tree /\ kept' = kept /\ asked' \in Operations /\ told' = "none"

\* The process ends and starts again.
Restart == tree' = kept /\ kept' = kept /\ asked' = "none" /\ told' = "none"

Init ==
    /\ tree \in [Paths -> {"none", "dir"} \cup Contents] /\ kept = tree
    /\ asked = "none" /\ told = "none" /\ store \in {"process", "file", "entries"}

Next ==
    /\ UNCHANGED store
    /\ \/ Refused \/ Restart
       \/ \E op \in Operations : Done(op) \/ Stopped(op)

Spec == Init /\ [][Next]_tvars
=============================================================================
