----------------------------- MODULE Overlay_proofs ----------------------------
(* Theorems about Overlay.  They assume a developer who neither stages nor     *)
(* commits during the transfer, and no files that are named like excluded      *)
(* directories: Overlay says what happens otherwise.                           *)
EXTENDS Overlay, TLAPS

Leisurely == During \subseteq {"save", "delete", "untrack"}
Unambiguous == "lookalike" \notin Rules

(* shown has what the worktree has. *)
Watched == \A p \in Path : work[p] \in shown[p]

(* tracked has what Git tracks. *)
Listed == \A p \in Path : In(p, head) \/ In(p, index) => p \in tracked

(* The commit to transfer is still HEAD. *)
Current == at # "head" => commit = head

(* What has been found out about p after the first answer: it will be copied,  *)
(* or the state it will be in has been seen, or the second answer will have it *)
(* unless Git ignores it.                                                      *)
Outcome(p) == IF p \in delete THEN Absent ELSE commit[p]

Diffed ==
    at = "others" =>
        \A p \in Path : ~IsExcluded(p) =>
            \/ p \in transfer
            \/ Outcome(p) \in shown[p]
            \/ Outcome(p) = Absent /\ ~In(p, index)

(* After both answers it will be copied, or its state has been seen. *)
Found ==
    at \in {"prepare", "sync"} =>
        \A p \in Path : Concerned(p) => p \in transfer \/ Outcome(p) \in shown[p]

(* The lists have neither excluded files nor untracked files that Git ignores. *)
Public ==
    at \in {"others", "prepare", "sync"} =>
        \A p \in transfer \cup delete :
            ~IsExcluded(p) /\ (rule[p] = "ignored" => p \in tracked)

(* The worktree on the server before the copy. *)
Prepared ==
    at = "sync" =>
        remote = [p \in Path |-> IF protocol = 2 /\ p \in delete THEN Absent ELSE commit[p]]

OverlayInv ==
    /\ Watched /\ Listed /\ Current /\ Diffed /\ Found /\ Public /\ Prepared
    /\ NothingStale /\ NothingPrivate

-------------------------------------------------------------------------------
(* The developer *)

(* What the developer does adds to what has been shown, and takes from what is *)
(* tracked.                                                                    *)
LEMMA WorkFrame ==
    ASSUME Leisurely, OverlayTypeOK, Work
    PROVE  /\ work' \in Tree /\ index' \in Tree
           /\ UNCHANGED <<head, rule, protocol, at, commit, transfer, delete, remote>>
           /\ shown' = [p \in Path |-> shown[p] \cup {work'[p]}]
           /\ tracked' = tracked \cup {p \in Path : index'[p] # Absent}
           /\ \A p \in Path : In(p, index') => In(p, index)
<1>1. /\ shown' = [p \in Path |-> shown[p] \cup {work'[p]}]
      /\ tracked' = tracked \cup {p \in Path : index'[p] # Absent}
      /\ UNCHANGED <<rule, protocol, at, commit, transfer, delete, remote>>
  BY DEF Work, run
<1>2. /\ work' \in Tree /\ index' \in Tree /\ UNCHANGED head
      /\ \A p \in Path : In(p, index') => In(p, index)
  <2>1. ~Edit("stage") /\ ~Edit("commit")
    BY DEF Leisurely, Edit
  <2>2. PICK p \in Path :
          \/ \E c \in Content : work' = [work EXCEPT ![p] = c] /\ UNCHANGED <<head, index>>
          \/ work' = [work EXCEPT ![p] = Absent] /\ UNCHANGED <<head, index>>
          \/ index' = [index EXCEPT ![p] = Absent] /\ UNCHANGED <<head, work>>
    BY <2>1, Zenon DEF Work
  <2> QED
    BY <2>2 DEF OverlayTypeOK, Tree, In
<1> QED
  BY <1>1, <1>2

LEMMA WorkStep ==
    ASSUME Leisurely, OverlayTypeOK, OverlayInv, Work
    PROVE  OverlayInv'
<1> USE DEF OverlayTypeOK
<1>0. /\ work' \in Tree /\ index' \in Tree
      /\ UNCHANGED <<head, rule, protocol, at, commit, transfer, delete, remote>>
      /\ shown' = [p \in Path |-> shown[p] \cup {work'[p]}]
      /\ tracked' = tracked \cup {p \in Path : index'[p] # Absent}
      /\ \A p \in Path : In(p, index') => In(p, index)
  BY WorkFrame
<1>1. \A p \in Path : shown[p] \subseteq shown'[p] /\ work'[p] \in shown'[p]
  BY <1>0
<1>2. \A p \in Path : Concerned(p)' => Concerned(p)
  BY <1>0 DEF Concerned
<1>3. Watched'
  BY <1>1 DEF Watched
<1>4. Listed'
  BY <1>0 DEF OverlayInv, Listed, In
<1>5. Current' /\ Prepared'
  BY <1>0 DEF OverlayInv, Current, Prepared
<1>6. Diffed'
  BY <1>0, <1>1 DEF OverlayInv, Diffed, Outcome, IsExcluded
<1>7. Found'
  BY <1>0, <1>1, <1>2 DEF OverlayInv, Found, Outcome
<1>8. Public'
  BY <1>0 DEF OverlayInv, Public, IsExcluded
<1>9. NothingStale'
  BY <1>0, <1>1, <1>2 DEF OverlayInv, NothingStale
<1>10. NothingPrivate'
  BY <1>0 DEF OverlayInv, NothingPrivate
<1> QED
  BY <1>3, <1>4, <1>5, <1>6, <1>7, <1>8, <1>9, <1>10 DEF OverlayInv

-------------------------------------------------------------------------------
(* The run *)

(* The paths of renames are among those that were deleted and added.           *)
LEMMA Renames ==
    ASSUME NEW pairs \in Pairings
    PROVE  {pair[1] : pair \in pairs} \subseteq Deleted /\ {pair[2] : pair \in pairs} \subseteq Added
BY DEF Pairings

(* So that the lists do not depend on what Git takes for a rename.             *)
LEMMA DiffLists ==
    ASSUME Diff
    PROVE  /\ delete' = {p \in Deleted : ~IsExcluded(p)}
           /\ transfer' = {p \in Added \cup Modified : ~IsExcluded(p)}
<1>1. PICK pairs \in Pairings :
        /\ delete' = {p \in {pair[1] : pair \in pairs} \cup (Deleted \ {pair[1] : pair \in pairs}) :
                        ~IsExcluded(p)}
        /\ transfer' = {p \in {pair[2] : pair \in pairs} \cup (Added \ {pair[2] : pair \in pairs})
                              \cup Modified : ~IsExcluded(p)}
  BY DEF Diff
<1> DEFINE old == {pair[1] : pair \in pairs}
           new == {pair[2] : pair \in pairs}
<1>2. old \subseteq Deleted /\ new \subseteq Added
  BY Renames
<1> HIDE DEF old, new
<1> QED
  BY <1>1, <1>2 DEF old, new


(* What a step of the run leaves alone. *)
Frame == UNCHANGED <<head, index, work, rule, protocol, shown, tracked, edits>>

LEMMA DiscoverStep ==
    ASSUME OverlayTypeOK, OverlayInv, Discover, Frame
    PROVE  OverlayTypeOK' /\ OverlayInv'
<1>1. OverlayTypeOK'
  BY DEF OverlayTypeOK, Discover, Frame
<1>2. Watched' /\ Listed' /\ Current'
  BY DEF OverlayInv, Watched, Listed, Current, Discover, Frame, In
<1>3. Diffed' /\ Found' /\ Public' /\ Prepared' /\ NothingStale' /\ NothingPrivate'
  BY DEF Diffed, Found, Public, Prepared, NothingStale, NothingPrivate, Discover
<1> QED
  BY <1>1, <1>2, <1>3 DEF OverlayInv

LEMMA DiffStep ==
    ASSUME OverlayTypeOK, OverlayInv, Diff, Frame
    PROVE  OverlayTypeOK' /\ OverlayInv'
<1>1. /\ delete' = {p \in Deleted : ~IsExcluded(p)}
      /\ transfer' = {p \in Added \cup Modified : ~IsExcluded(p)}
      /\ at = "diff" /\ at' = "others" /\ UNCHANGED <<commit, remote>>
  BY DiffLists DEF Diff
<1>2. delete' \subseteq Path /\ transfer' \subseteq Path
  BY <1>1 DEF Deleted, Added, Modified
<1>3. OverlayTypeOK'
  BY <1>1, <1>2 DEF OverlayTypeOK, Frame
<1>4. Watched' /\ Listed' /\ Current'
  BY <1>1 DEF OverlayInv, Watched, Listed, Current, Frame, In
<1>5. ASSUME NEW p \in Path, ~IsExcluded(p)', p \notin transfer'
      PROVE  Outcome(p)' \in shown[p] \/ (Outcome(p)' = Absent /\ ~In(p, index))
  <2>1. ~IsExcluded(p)
    BY <1>5 DEF IsExcluded, Frame
  <2>2. commit[p] = head[p] /\ work[p] \in shown[p]
    BY <1>1 DEF OverlayInv, Current, Watched
  <2>3. CASE p \in Deleted
    <3>1. Outcome(p)' = Absent
      BY <1>1, <2>1, <2>3 DEF Outcome
    <3> QED
      BY <2>2, <2>3, <3>1 DEF Deleted, In
  <2>4. CASE p \notin Deleted
    <3>1. Outcome(p)' = head[p]
      BY <1>1, <2>2, <2>4 DEF Outcome
    <3>2. p \notin Added \cup Modified
      BY <1>1, <1>5, <2>1
    <3> QED
      BY <2>2, <2>4, <3>1, <3>2 DEF Deleted, Added, Modified, In
  <2> QED
    BY <2>3, <2>4
<1>6. Diffed'
  BY <1>5 DEF Diffed, Frame
<1>7. Public'
  BY <1>1 DEF OverlayInv, Listed, Public, Deleted, Added, Modified, IsExcluded, Frame
<1>8. Found' /\ Prepared' /\ NothingStale' /\ NothingPrivate'
  BY <1>1 DEF Found, Prepared, NothingStale, NothingPrivate
<1> QED
  BY <1>3, <1>4, <1>6, <1>7, <1>8 DEF OverlayInv

LEMMA AddUntrackedStep ==
    ASSUME Unambiguous, OverlayTypeOK, OverlayInv, AddUntracked, Frame
    PROVE  OverlayTypeOK' /\ OverlayInv'
<1>1. OverlayTypeOK'
  BY DEF OverlayTypeOK, AddUntracked, Others, Frame
<1>2. Watched' /\ Listed' /\ Current'
  BY DEF OverlayInv, Watched, Listed, Current, AddUntracked, Frame, In
<1>3. ASSUME NEW p \in Path, Concerned(p)', p \notin transfer' PROVE Outcome(p)' \in shown[p]
  <2>1. ~IsExcluded(p) /\ rule[p] \in {"plain", "ignored"}
    BY <1>3 DEF Concerned, IsExcluded, Frame, Unambiguous, OverlayTypeOK
  <2>2. Outcome(p)' = Outcome(p)
    BY DEF Outcome, AddUntracked
  <2>3. Outcome(p) \in shown[p] \/ (Outcome(p) = Absent /\ ~In(p, index))
    BY <1>3, <2>1 DEF OverlayInv, Diffed, AddUntracked
  <2>4. ~In(p, index) => ~In(p, work)
    BY <1>3, <2>1 DEF Concerned, AddUntracked, Others, Frame, In
  <2> QED
    BY <2>2, <2>3, <2>4 DEF In, OverlayInv, Watched
<1>4. Found'
  BY <1>3 DEF Found, Frame
<1>5. Public'
  BY DEF OverlayInv, Public, AddUntracked, Others, IsExcluded, Frame
<1>6. Diffed' /\ Prepared' /\ NothingStale' /\ NothingPrivate'
  BY DEF Diffed, Prepared, NothingStale, NothingPrivate, AddUntracked
<1> QED
  BY <1>1, <1>2, <1>4, <1>5, <1>6 DEF OverlayInv

LEMMA PrepareStep ==
    ASSUME OverlayTypeOK, OverlayInv, Prepare, Frame
    PROVE  OverlayTypeOK' /\ OverlayInv'
<1>1. remote' \in Tree
  BY DEF OverlayTypeOK, Prepare, Tree
<1>2. OverlayTypeOK'
  BY <1>1 DEF OverlayTypeOK, Prepare, Frame
<1>3. Watched' /\ Listed' /\ Current'
  BY DEF OverlayInv, Watched, Listed, Current, Prepare, Frame, In
<1>4. Found' /\ Public'
  BY DEF OverlayInv, Found, Public, Concerned, Outcome, IsExcluded, In, Prepare, Frame
<1>5. Diffed' /\ Prepared' /\ NothingStale' /\ NothingPrivate'
  BY DEF Diffed, Prepared, NothingStale, NothingPrivate, Prepare, Frame
<1> QED
  BY <1>2, <1>3, <1>4, <1>5 DEF OverlayInv

LEMMA SyncStep ==
    ASSUME Unambiguous, OverlayTypeOK, OverlayInv, SyncOverlay \/ SyncFullOverlay, Frame
    PROVE  OverlayTypeOK' /\ OverlayInv'
<1>1. /\ at = "sync" /\ at' \in Over
      /\ UNCHANGED <<commit, transfer, delete>>
      /\ remote = [p \in Path |-> IF protocol = 2 /\ p \in delete THEN Absent ELSE commit[p]]
  BY DEF SyncOverlay, SyncFullOverlay, Over, OverlayInv, Prepared
<1>2. ASSUME at' = "done", protocol = 2
      PROVE  remote' = [p \in Path |-> IF p \in transfer /\ ~RsyncExcludes(p)
                                      THEN work[p] ELSE remote[p]]
  BY <1>2 DEF SyncOverlay, SyncFullOverlay
<1>3. ASSUME protocol = 1
      PROVE  remote' = [p \in Path |-> IF RsyncExcludes(p) THEN remote[p] ELSE work[p]]
  BY <1>3 DEF SyncOverlay, SyncFullOverlay
<1>4. remote' \in Tree
  BY DEF OverlayTypeOK, SyncOverlay, SyncFullOverlay, Tree
<1>5. OverlayTypeOK'
  BY <1>1, <1>4 DEF OverlayTypeOK, Frame
<1>6. Watched' /\ Listed' /\ Current'
  BY <1>1 DEF OverlayInv, Watched, Listed, Current, Frame, In
<1>7. ASSUME at' = "done", NEW p \in Path, Concerned(p)' PROVE remote'[p] \in shown[p]
  <2>1. Concerned(p) /\ ~RsyncExcludes(p)
    BY <1>7 DEF Concerned, RsyncExcludes, Frame, In
  <2>2. work[p] \in shown[p] /\ (p \in transfer \/ Outcome(p) \in shown[p])
    BY <1>1, <2>1 DEF OverlayInv, Watched, Found
  <2>3. CASE protocol = 2
    BY <1>1, <1>2, <1>7, <2>1, <2>2, <2>3 DEF Outcome
  <2>4. CASE protocol = 1
    BY <1>3, <2>1, <2>2, <2>4
  <2> QED
    BY <2>3, <2>4 DEF OverlayTypeOK
<1>8. NothingStale'
  BY <1>7 DEF NothingStale, Frame
<1>9. ASSUME at' = "done", NEW p \in Path, rule[p] = "excluded" PROVE remote'[p] = commit[p]
  <2>1. p \notin transfer \cup delete /\ RsyncExcludes(p)
    BY <1>1, <1>9 DEF OverlayInv, Public, IsExcluded, RsyncExcludes
  <2> QED
    BY <1>1, <1>2, <1>3, <1>9, <2>1 DEF OverlayTypeOK
<1>10. ASSUME at' = "done", NEW p \in Path, rule[p] = "ignored", p \notin tracked, protocol = 2
       PROVE  remote'[p] = Absent
  <2>1. p \notin transfer \cup delete
    BY <1>1, <1>10 DEF OverlayInv, Public
  <2>2. commit[p] = Absent
    BY <1>1, <1>10 DEF OverlayInv, Current, Listed, In
  <2> QED
    BY <1>1, <1>2, <1>10, <2>1, <2>2
<1>11. NothingPrivate'
  BY <1>1, <1>9, <1>10 DEF NothingPrivate, Frame
<1>12. Diffed' /\ Found' /\ Public' /\ Prepared'
  BY <1>1 DEF Diffed, Found, Public, Prepared, Over
<1> QED
  BY <1>5, <1>6, <1>8, <1>11, <1>12 DEF OverlayInv

-------------------------------------------------------------------------------
(* Theorems *)

LEMMA OverlayStep ==
    ASSUME Leisurely, Unambiguous, OverlayTypeOK, OverlayInv, [Next]_vars
    PROVE  OverlayTypeOK' /\ OverlayInv'
<1>1. CASE UNCHANGED vars
  <2>1. OverlayTypeOK'
    BY <1>1 DEF vars, repository, run, OverlayTypeOK
  <2> QED
    BY <1>1, <2>1 DEF vars, repository, run, OverlayInv, Watched, Listed, Current, Diffed, Found,
                      Public, Prepared, NothingStale, NothingPrivate, Outcome, Concerned,
                      IsExcluded, In
<1>2. CASE RunStep
  <2>1. Frame
    BY <1>2 DEF RunStep, Frame, repository
  <2> QED
    BY <1>2, <2>1, DiscoverStep, DiffStep, AddUntrackedStep, PrepareStep, SyncStep DEF RunStep
<1>3. CASE Work
  <2>1. OverlayTypeOK'
    <3>1. edits' \in 0..MaxEdits
      <4>1. \/ Edit("save") \/ Edit("delete") \/ Edit("stage") \/ Edit("untrack")
            \/ Edit("commit")
        BY <1>3, Zenon DEF Work
      <4> QED
        BY <4>1, OverlayAssumption DEF Edit, OverlayTypeOK
    <3>2. shown' \in [Path -> SUBSET (Content \cup {Absent})]
      BY <1>3, WorkFrame DEF OverlayTypeOK, Tree
    <3> QED
      BY <1>3, <3>1, <3>2, WorkFrame DEF OverlayTypeOK
  <2> QED
    BY <1>3, <2>1, WorkStep
<1> QED
  BY <1>1, <1>2, <1>3 DEF Next

(* Lists, trees and histories keep their types. *)
THEOREM OverlayHolds ==
    Leisurely /\ Unambiguous => (Spec => []OverlayTypeOK /\ []OverlayInv)
<1> SUFFICES ASSUME Leisurely, Unambiguous PROVE Spec => []OverlayTypeOK /\ []OverlayInv
  OBVIOUS
<1>1. Init => OverlayTypeOK /\ OverlayInv
  <2> SUFFICES ASSUME Init PROVE OverlayTypeOK /\ OverlayInv
    OBVIOUS
  <2>1. OverlayTypeOK
    BY OverlayAssumption DEF Init, OverlayTypeOK, Tree
  <2> QED
    BY <2>1 DEF Init, OverlayInv, Watched, Listed, Current, Diffed, Found, Public, Prepared,
                NothingStale, NothingPrivate, In
<1> QED
  BY <1>1, OverlayStep, PTL DEF Spec

(* For any files, and any saving, deleting and untracking during the transfer, *)
(* the command sees each file in a state it had meanwhile.                     *)
THEOREM TransferIsFresh == Leisurely /\ Unambiguous => (Spec => []NothingStale)
BY OverlayHolds, PTL DEF OverlayInv

(* Nothing that Git ignores and never tracked reaches the server, and excluded *)
(* files stay as committed.                                                    *)
THEOREM TransferIsDiscreet == Leisurely /\ Unambiguous => (Spec => []NothingPrivate)
BY OverlayHolds, PTL DEF OverlayInv
===============================================================================
