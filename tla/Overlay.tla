------------------------------- MODULE Overlay --------------------------------
(* The transfer of one worktree by one "trie-run run": the commit and a sparse *)
(* overlay of what differs from it (repository.py, overlay.py), made from      *)
(* three answers of Git while the developer may go on working, and the server  *)
(* worktree put together from them (server_workspace.py, transport.py).        *)
EXTENDS Naturals, FiniteSets

CONSTANTS
    Path,      \* the files of the worktree
    Content,   \* what a file may contain
    Absent,    \* the content of a file that does not exist
    Rules,     \* the kinds of paths there are: see Rule
    During,    \* what the developer does during the run: see Work
    MaxEdits   \* bound: how often

(* What sync-excludes.txt and .gitignore say of a path.  A "lookalike" is a    *)
(* file that has the name of an excluded directory, such as scripts/build.     *)
Rule == {"plain", "excluded", "ignored", "lookalike"}

ASSUME OverlayAssumption ==
    /\ Absent \notin Content
    /\ Rules \subseteq Rule
    /\ During \subseteq {"save", "delete", "stage", "untrack", "commit"}
    /\ MaxEdits \in Nat

VARIABLES
    head,      \* the tree of the commit HEAD names
    index,     \* the tree of Git's index
    work,      \* the files of the worktree
    rule,      \* rule[p]: what is said of the path p
    protocol,  \* what the server announces: 1 or 2
    at,        \* how far the run is
    commit,    \* the tree of the commit to transfer
    transfer,  \* the overlay: the paths to copy,
    delete,    \*   and to delete
    remote,    \* the server worktree
    shown,     \* shown[p]: the contents p has had in the worktree since the run began
    tracked,   \* the paths that have been tracked since then
    edits      \* how often the developer changed something meanwhile

repository == <<head, index, work>>
run == <<at, commit, transfer, delete, remote>>
vars == <<repository, rule, protocol, run, shown, tracked, edits>>

Tree == [Path -> Content \cup {Absent}]
Over == {"done", "failed"}

OverlayTypeOK ==
    /\ {head, index, work, commit, remote} \subseteq Tree
    /\ rule \in [Path -> Rules]
    /\ protocol \in 1..2
    /\ at \in {"head", "diff", "others", "prepare", "sync"} \cup Over
    /\ transfer \subseteq Path /\ delete \subseteq Path
    /\ shown \in [Path -> SUBSET (Content \cup {Absent})]
    /\ tracked \subseteq Path
    /\ edits \in 0..MaxEdits

(* Any commit, index and worktree. *)
Init ==
    /\ head \in Tree /\ index \in Tree /\ work \in Tree
    /\ rule \in [Path -> Rules]
    /\ protocol \in 1..2
    /\ at = "head"
    /\ commit = [p \in Path |-> Absent]
    /\ transfer = {} /\ delete = {}
    /\ remote = [p \in Path |-> Absent]
    /\ shown = [p \in Path |-> {work[p]}]
    /\ tracked = {p \in Path : head[p] # Absent \/ index[p] # Absent}
    /\ edits = 0

-------------------------------------------------------------------------------
(* What Git answers *)

In(p, tree) == tree[p] # Absent

(* git diff --name-status HEAD, before renames are looked for. *)
Deleted == {p \in Path : In(p, head) /\ ~(In(p, index) /\ In(p, work))}
Added == {p \in Path : ~In(p, head) /\ In(p, index) /\ In(p, work)}
Modified == {p \in Path : In(p, head) /\ In(p, index) /\ In(p, work) /\ work[p] # head[p]}

(* Pairs of a deleted and an added path may be reported as renames: which of   *)
(* them depends on how similar they are.                                       *)
Pairings ==
    {pairs \in SUBSET (Deleted \X Added) :
        \A x, y \in pairs : (x[1] = y[1] \/ x[2] = y[2]) => x = y}

(* git ls-files --others --exclude-standard *)
Others == {p \in Path : In(p, work) /\ ~In(p, index) /\ rule[p] # "ignored"}

-------------------------------------------------------------------------------
(* The run *)

(* Mutation: nothing is excluded. *)
IsExcludedNever(p) == FALSE

(* _is_excluded compares the names in a path with the patterns, of which those *)
(* that end with "/" are meant for directories only.                           *)
IsExcluded(p) == rule[p] \in {"excluded", "lookalike"}

(* How rsync reads the same patterns. *)
RsyncExcludes(p) == rule[p] = "excluded"

(* Mutation: git may fail, and its empty answer is taken for the commit. *)
DiscoverUnchecked ==
    /\ at = "head"
    /\ at' = "diff"
    /\ commit' \in {head, <<>>}
    /\ UNCHANGED <<transfer, delete, remote>>

(* RepositoryState.discover: git rev-parse HEAD. *)
Discover ==
    /\ at = "head"
    /\ at' = "diff"
    /\ commit' = head
    /\ UNCHANGED <<transfer, delete, remote>>

(* Mutation: the old name of a renamed file is forgotten. *)
DiffForgetful ==
    /\ at = "diff"
    /\ at' = "others"
    /\ \E pairs \in Pairings :
         LET old == {pair[1] : pair \in pairs}
         IN  /\ delete' = {p \in Deleted \ old : ~IsExcluded(p)}
             /\ transfer' = {p \in Added \cup Modified : ~IsExcluded(p)}
    /\ UNCHANGED <<commit, remote>>

(* The entries of the diff: both paths of a rename, and one of all others. *)
Diff ==
    /\ at = "diff"
    /\ at' = "others"
    /\ \E pairs \in Pairings :
         LET old == {pair[1] : pair \in pairs}
             new == {pair[2] : pair \in pairs}
         IN  /\ delete' = {p \in old \cup (Deleted \ old) : ~IsExcluded(p)}
             /\ transfer' = {p \in new \cup (Added \ new) \cup Modified : ~IsExcluded(p)}
    /\ UNCHANGED <<commit, remote>>

AddUntracked ==
    /\ at = "others"
    /\ at' = "prepare"
    /\ transfer' = transfer \cup {p \in Others : ~IsExcluded(p)}
    /\ UNCHANGED <<commit, delete, remote>>

(* The commit is pushed and checked out; protocol 2 applies the deletions.     *)
Prepare ==
    /\ at = "prepare"
    /\ at' = "sync"
    /\ remote' = [p \in Path |-> IF protocol = 2 /\ p \in delete THEN Absent ELSE commit[p]]
    /\ UNCHANGED <<commit, transfer, delete>>

(* rsync --files-from: it fails if a file of the list is gone by now, and the  *)
(* run with it.                                                                *)
SyncOverlay ==
    /\ at = "sync" /\ protocol = 2
    /\ IF \A p \in transfer : In(p, work)
       THEN /\ at' = "done"
            /\ remote' = [p \in Path |-> IF p \in transfer /\ ~RsyncExcludes(p)
                                         THEN work[p] ELSE remote[p]]
       ELSE at' = "failed" /\ UNCHANGED remote
    /\ UNCHANGED <<commit, transfer, delete>>

(* rsync --delete of the whole tree, which leaves excluded files alone on both *)
(* sides.                                                                      *)
SyncFullOverlay ==
    /\ at = "sync" /\ protocol = 1
    /\ at' = "done"
    /\ remote' = [p \in Path |-> IF RsyncExcludes(p) THEN remote[p] ELSE work[p]]
    /\ UNCHANGED <<commit, transfer, delete>>

-------------------------------------------------------------------------------
(* The developer: files are saved and deleted, "git add", "git rm --cached",   *)
(* "git commit".                                                               *)
Edit(kind) == kind \in During /\ at \notin Over /\ edits < MaxEdits /\ edits' = edits + 1

Work ==
    /\ \/ \E p \in Path :
            \/ /\ Edit("save")
               /\ \E c \in Content : work' = [work EXCEPT ![p] = c]
               /\ UNCHANGED <<head, index>>
            \/ /\ Edit("delete")
               /\ work' = [work EXCEPT ![p] = Absent]
               /\ UNCHANGED <<head, index>>
            \/ /\ Edit("stage")
               /\ index' = [index EXCEPT ![p] = work[p]]
               /\ UNCHANGED <<head, work>>
            \/ /\ Edit("untrack")
               /\ index' = [index EXCEPT ![p] = Absent]
               /\ UNCHANGED <<head, work>>
       \/ /\ Edit("commit")
          /\ head' = index
          /\ UNCHANGED <<index, work>>
    /\ shown' = [p \in Path |-> shown[p] \cup {work'[p]}]
    /\ tracked' = tracked \cup {p \in Path : index'[p] # Absent}
    /\ UNCHANGED <<rule, protocol, run>>

RunStep ==
    /\ Discover \/ Diff \/ AddUntracked \/ Prepare \/ SyncOverlay \/ SyncFullOverlay
    /\ UNCHANGED <<repository, rule, protocol, shown, tracked, edits>>

Next == RunStep \/ Work

Spec == Init /\ [][Next]_vars

-------------------------------------------------------------------------------
(* Properties *)

(* What Git does not ignore. *)
Concerned(p) == rule[p] \in {"plain", "lookalike"} \/ (rule[p] = "ignored" /\ In(p, index))

(* The command sees no file in a state it did not have while the run went on,  *)
(* neither the committed one of a file that was changed before nor a file that *)
(* was deleted: the three answers of Git, the checkout and the copy fit        *)
(* together, whatever the developer does in between.                           *)
NothingStale ==
    at = "done" => \A p \in Path : Concerned(p) => remote[p] \in shown[p]

(* What is excluded is as committed, and with protocol 2 nothing of the        *)
(* worktree that Git ignores reaches the server.                               *)
NothingPrivate ==
    at = "done" => \A p \in Path :
        /\ rule[p] = "excluded" => remote[p] = commit[p]
        /\ rule[p] = "ignored" /\ p \notin tracked /\ protocol = 2 => remote[p] = Absent
===============================================================================
