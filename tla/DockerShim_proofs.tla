--------------------------- MODULE DockerShim_proofs ---------------------------
(* Theorems about DockerShim: what the containers of jobs have to do with the  *)
(* records cleanup works from.                                                 *)
EXTENDS DockerShim, WellFoundedInduction, SequenceTheorems, TLAPS

(* The shim reads the same project from the arguments as Compose does. *)
ReadsAlike ==
    \A c \in Shim : \A argv \in Argv[c] :
        Starts(argv) /\ Project(argv, Default(c)) \in Name
            => ComposeProject(argv, Default(c)) = Project(argv, Default(c))

(* A command runs one docker command at a time, and none when it has ended.    *)
OneShimAtATime ==
    \A c, d \in Shim : Of(c) = Of(d) /\ shim[c].at \in Working /\ shim[d].at \in Working => c = d

NoShimLeft == \A c \in Shim : shim[c].at \in Working => job[Of(c)] = "running"

(* What a shim has found out of its arguments ...                              *)
Invoked(c) ==
    /\ shim[c].argv \in Argv[c]
    /\ ~Blocked(shim[c].argv, Default(c))
    /\ shim[c].at # "exec" => Starts(shim[c].argv)
    /\ Starts(shim[c].argv) => Effective(c) \in Name

ShimsInvoked == \A c \in Shim : shim[c].at \in Working => Invoked(c)

(* ... and of the record of its job, up to the project recorded at its end.    *)
Known(c) ==
    /\ shim[c].at \in {"truncate", "write"} => shim[c].copy = recorded[Of(c)]
    /\ shim[c].at = "exec" /\ Starts(shim[c].argv) => Effective(c) \in recorded[Of(c)]

ShimsKnow == \A c \in Shim : shim[c].at \in Working => Known(c)

(* Containers have a record, and a worktree that goes after them.              *)
Recorded == \A p \in Name : \A j \in made[p] : p \in recorded[j]

Housed == \A p \in Name : \A j \in made[p] : workspace[j]

Standing == \A j \in Job : job[j] = "running" => workspace[j]

(* A cleanup at work has all there is still before it.                         *)
CleanersKnow ==
    \A k \in Cleanup : cleaner[k].at = "down" =>
        /\ job[cleaner[k].job] # "running"
        /\ \A p \in Name : cleaner[k].job \in made[p] => p \in cleaner[k].left

(* Cleanups work for jobs that are over. *)
CleanersLate == \A k \in Cleanup : cleaner[k].at = "down" => job[cleaner[k].job] # "running"

(* The projects a job may use: its own, and those its commands name.           *)
Uses(j) ==
    {Resource[j]} \cup
    {p \in Name : \E c \in Shim : \E argv \in Argv[c] :
        Caller[c] = j /\ Starts(argv) /\ p = Project(argv, Resource[j])}

(* No project is used by two jobs. *)
NamesApart == \A i, j \in Job : i # j => Uses(i) \cap Uses(j) = {}

(* What is recorded for a job, made by it or about to be taken down for it is  *)
(* in projects it uses.                                                        *)
OwnInv ==
    /\ \A j \in Job : recorded[j] \subseteq Uses(j)
    /\ \A c \in Shim : shim[c].copy \subseteq Uses(Of(c))
    /\ \A p \in Name : \A j \in made[p] : p \in Uses(j)
    /\ \A k \in Cleanup : cleaner[k].at = "down" => cleaner[k].left \subseteq Uses(cleaner[k].job)
    /\ CleanersLate

ShimInv ==
    /\ ShimsInvoked /\ OneShimAtATime /\ NoShimLeft /\ ShimsKnow
    /\ Recorded /\ Housed /\ Standing /\ CleanersKnow

-------------------------------------------------------------------------------
(* Types *)

(* A step of a shim changes its own record only. *)
LEMMA ShimPut ==
    ASSUME shim \in [Shim -> ShimState], NEW c \in Shim, NEW s \in ShimState,
           shim' = [shim EXCEPT ![c] = s]
    PROVE  shim' \in [Shim -> ShimState]
OBVIOUS

LEMMA CleanerPut ==
    ASSUME cleaner \in [Cleanup -> CleanerState], NEW k \in Cleanup, NEW s \in CleanerState,
           cleaner' = [cleaner EXCEPT ![k] = s]
    PROVE  cleaner' \in [Cleanup -> CleanerState]
OBVIOUS

(* It goes to a place there is. *)
LEMMA ShimGoto ==
    ASSUME shim \in [Shim -> ShimState], NEW c \in Shim, NEW place \in Working \cup Over,
           Goto(c, place)
    PROVE  shim' \in [Shim -> ShimState]
<1> DEFINE s == [shim[c] EXCEPT !.at = place]
<1>1. s \in ShimState
  <2>1. shim[c] \in ShimState
    OBVIOUS
  <2> QED
    BY <2>1 DEF ShimState
<1>2. shim' = [shim EXCEPT ![c] = s]
  BY DEF Goto
<1> HIDE DEF s
<1> QED
  BY <1>1, <1>2, ShimPut

LEMMA CleanerGoto ==
    ASSUME cleaner \in [Cleanup -> CleanerState], NEW k \in Cleanup, NEW place \in Over,
           cleaner' = [cleaner EXCEPT ![k].at = place]
    PROVE  cleaner' \in [Cleanup -> CleanerState]
<1> DEFINE s == [cleaner[k] EXCEPT !.at = place]
<1>1. s \in CleanerState
  <2>1. cleaner[k] \in CleanerState
    OBVIOUS
  <2> QED
    BY <2>1 DEF CleanerState
<1>2. cleaner' = [cleaner EXCEPT ![k] = s]
  OBVIOUS
<1> HIDE DEF s
<1> QED
  BY <1>1, <1>2, CleanerPut

(* A step changes at most one record, and puts it at a place there is. *)
LEMMA StepTyped == DockerTypeOK /\ ShimsInvoked /\ [Next]_vars => DockerTypeOK'
<1> SUFFICES ASSUME DockerTypeOK, ShimsInvoked, [Next]_vars PROVE DockerTypeOK'
  OBVIOUS
<1> USE ShimAssumption
<1>0. shim \in [Shim -> ShimState] /\ cleaner \in [Cleanup -> CleanerState]
  BY DEF DockerTypeOK
<1>1. ASSUME NEW c \in Shim, Invoke(c) PROVE DockerTypeOK'
  <2>1. PICK argv \in Argv[c], place \in {"refused", "exec", "ps"} :
               shim' = [shim EXCEPT ![c].at = place, ![c].argv = argv]
    BY <1>1, Zenon DEF Invoke
  <2> DEFINE s == [[shim[c] EXCEPT !.at = place] EXCEPT !.argv = argv]
  <2>2. s \in ShimState
    <3>1. argv \in UNION {Argv[d] : d \in Shim}
      OBVIOUS
    <3>2. shim[c] \in ShimState
      BY <1>0
    <3> QED
      BY <3>1, <3>2 DEF ShimState, Working, Over
  <2>3. shim' = [shim EXCEPT ![c] = s]
    BY <2>1, <1>0
  <2>4. shim' \in [Shim -> ShimState]
    <3> HIDE DEF s
    <3> QED
      BY <1>0, <2>2, <2>3, ShimPut
  <2> QED
    BY <1>1, <2>4 DEF DockerTypeOK, Invoke, docker
<1>2. ASSUME NEW c \in Shim, ListContainers(c) PROVE DockerTypeOK'
  <2> DEFINE s == [[shim[c] EXCEPT !.at = "inspect"] EXCEPT !.listed = Present]
  <2>1. s \in ShimState
    BY <1>0 DEF ShimState, Working, Present
  <2>2. shim' = [shim EXCEPT ![c] = s]
    BY <1>0, <1>2 DEF ListContainers
  <2>3. shim' \in [Shim -> ShimState]
    <3> HIDE DEF s
    <3> QED
      BY <1>0, <2>1, <2>2, ShimPut
  <2> QED
    BY <1>2, <2>3 DEF DockerTypeOK, ListContainers, docker
<1>3. ASSUME NEW c \in Shim, Inspect(c) PROVE DockerTypeOK'
  <2>1. PICK place \in {"failed", "refused", "read"} : Goto(c, place)
    BY <1>3, Zenon DEF Inspect
  <2>2. shim' \in [Shim -> ShimState]
    BY <1>0, <2>1, ShimGoto DEF Working, Over
  <2> QED
    BY <1>3, <2>2 DEF DockerTypeOK, Inspect, docker
<1>4. ASSUME NEW c \in Shim, Read(c) PROVE DockerTypeOK'
  <2>1. recorded[Of(c)] \subseteq Name
    BY DEF DockerTypeOK, Of
  <2>2. CASE torn[Of(c)]
    <3>1. Goto(c, "failed")
      BY <1>4, <2>2 DEF Read, Goto
    <3>2. shim' \in [Shim -> ShimState]
      BY <1>0, <3>1, ShimGoto DEF Over
    <3> QED
      BY <1>4, <3>2 DEF DockerTypeOK, Read, docker
  <2>3. CASE ~torn[Of(c)]
    <3>1. PICK place \in {"exec", "truncate"} :
                 shim' = [shim EXCEPT ![c].at = place, ![c].copy = recorded[Of(c)]]
      BY <1>4, <2>3 DEF Read
    <3> DEFINE s == [[shim[c] EXCEPT !.at = place] EXCEPT !.copy = recorded[Of(c)]]
    <3>2. s \in ShimState
      BY <1>0, <2>1 DEF ShimState, Working
    <3>3. shim' = [shim EXCEPT ![c] = s]
      BY <1>0, <3>1
    <3>4. shim' \in [Shim -> ShimState]
      <4> HIDE DEF s
      <4> QED
        BY <1>0, <3>2, <3>3, ShimPut
    <3> QED
      BY <1>4, <3>4 DEF DockerTypeOK, Read, docker
  <2> QED
    BY <2>2, <2>3
<1>5. ASSUME NEW c \in Shim, Truncate(c) PROVE DockerTypeOK'
  <2>1. shim' \in [Shim -> ShimState]
    BY <1>0, <1>5, ShimGoto DEF Truncate, Working
  <2> QED
    BY <1>5, <2>1 DEF DockerTypeOK, Truncate
<1>6. ASSUME NEW c \in Shim, Write(c) PROVE DockerTypeOK'
  <2>1. Effective(c) \in Name
    BY <1>6 DEF ShimsInvoked, Invoked, Write, Working
  <2>2. shim[c].copy \subseteq Name
    BY <1>0 DEF ShimState
  <2>3. shim' \in [Shim -> ShimState]
    BY <1>0, <1>6, ShimGoto DEF Write, Working
  <2>4. torn' \in [Job -> BOOLEAN]
    BY <1>6 DEF Write, DockerTypeOK
  <2>5. recorded' \in [Job -> SUBSET Name]
    BY <1>6, <2>1, <2>2 DEF Write, DockerTypeOK
  <2> QED
    BY <1>6, <2>3, <2>4, <2>5 DEF DockerTypeOK, Write
<1>7. ASSUME NEW c \in Shim, Exec(c) PROVE DockerTypeOK'
  <2>1. shim' \in [Shim -> ShimState]
    BY <1>0, <1>7, ShimGoto DEF Exec, Over
  <2>2. Of(c) \in Job
    BY DEF Of
  <2>3. made' \in [Name -> SUBSET Job]
    BY <1>7, <2>2 DEF Exec, DockerTypeOK
  <2> QED
    BY <1>7, <2>1, <2>3 DEF DockerTypeOK, Exec
<1>8. ASSUME NEW c \in Shim, KillShim(c) PROVE DockerTypeOK'
  <2>1. shim' \in [Shim -> ShimState]
    BY <1>0, <1>8, ShimGoto DEF KillShim, Over
  <2> QED
    BY <1>8, <2>1 DEF DockerTypeOK, KillShim, docker
<1>9. ASSUME NEW j \in Job, EndJob(j) PROVE DockerTypeOK'
  BY <1>9 DEF DockerTypeOK, EndJob
<1>10. ASSUME NEW k \in Cleanup, BeginCleanup(k) PROVE DockerTypeOK'
  <2>1. PICK j \in Job :
               cleaner' = [cleaner EXCEPT ![k] =
                             [at   |-> IF torn[j] THEN "failed" ELSE "down", job |-> j,
                              left |-> IF workspace[j] THEN Projects(j) ELSE {}]]
    BY <1>10 DEF BeginCleanup
  <2> DEFINE s == [at   |-> IF torn[j] THEN "failed" ELSE "down", job |-> j,
                   left |-> IF workspace[j] THEN Projects(j) ELSE {}]
  <2>2. Projects(j) \subseteq Name
    BY DEF DockerTypeOK, Projects
  <2>3. s \in CleanerState
    BY <2>2 DEF CleanerState, Over
  <2>4. cleaner' \in [Cleanup -> CleanerState]
    <3> HIDE DEF s
    <3> QED
      BY <1>0, <2>1, <2>3, CleanerPut DEF s
  <2> QED
    BY <1>10, <2>4 DEF DockerTypeOK, BeginCleanup, docker
<1>11. ASSUME NEW k \in Cleanup, Down(k) PROVE DockerTypeOK'
  <2>1. PICK p \in cleaner[k].left :
               /\ made' = [made EXCEPT ![p] = {}] \/ (~Reliable /\ UNCHANGED made)
               /\ cleaner' = [cleaner EXCEPT ![k].left = @ \ {p}]
    BY <1>11 DEF Down
  <2> DEFINE s == [cleaner[k] EXCEPT !.left = @ \ {p}]
  <2>2. s \in CleanerState
    BY <1>0 DEF CleanerState
  <2>3. cleaner' = [cleaner EXCEPT ![k] = s]
    BY <1>0, <2>1
  <2>4. cleaner' \in [Cleanup -> CleanerState]
    <3> HIDE DEF s
    <3> QED
      BY <1>0, <2>2, <2>3, CleanerPut
  <2>5. made' \in [Name -> SUBSET Job]
    BY <2>1 DEF DockerTypeOK
  <2> QED
    BY <1>11, <2>4, <2>5 DEF DockerTypeOK, Down
<1>12. ASSUME NEW k \in Cleanup, RemoveWorktrees(k) PROVE DockerTypeOK'
  <2>1. cleaner' \in [Cleanup -> CleanerState]
    BY <1>0, <1>12, CleanerGoto DEF RemoveWorktrees, Over
  <2> QED
    BY <1>12, <2>1 DEF DockerTypeOK, RemoveWorktrees
<1>13. ASSUME NEW k \in Cleanup, KillCleanup(k) PROVE DockerTypeOK'
  <2>1. cleaner' \in [Cleanup -> CleanerState]
    BY <1>0, <1>13, CleanerGoto DEF KillCleanup, Over
  <2> QED
    BY <1>13, <2>1 DEF DockerTypeOK, KillCleanup, docker
<1>14. CASE UNCHANGED vars
  BY <1>14 DEF DockerTypeOK, vars
<1> QED
  BY <1>1, <1>2, <1>3, <1>4, <1>5, <1>6, <1>7, <1>8, <1>9, <1>10, <1>11, <1>12, <1>13, <1>14
     DEF Next, ShimStep, CleanupStep

-------------------------------------------------------------------------------
(* Shims *)

(* A step of a shim leaves the records of all others alone, and begins only    *)
(* for a running job.                                                          *)
LEMMA ShimFrame ==
    ASSUME DockerTypeOK, NEW c \in Shim, ShimStep(c)
    PROVE  /\ \A d \in Shim \ {c} : shim'[d] = shim[d]
           /\ UNCHANGED <<job, workspace, cleaner>>
           /\ \/ shim[c].at \in Working
              \/ Parallel
              \/ job[Of(c)] = "running" /\ ~Busy(Of(c))
<1>1. CASE Invoke(c)
  <2>1. \A d \in Shim \ {c} : shim'[d] = shim[d]
    BY <1>1 DEF Invoke, DockerTypeOK
  <2> QED
    BY <1>1, <2>1 DEF Invoke, docker
<1>2. CASE ListContainers(c)
  BY <1>2 DEF DockerTypeOK, ListContainers, docker, Working
<1>3. CASE Inspect(c)
  <2>1. PICK place \in {"failed", "refused", "read"} : Goto(c, place)
    BY <1>3, Zenon DEF Inspect
  <2> QED
    BY <1>3, <2>1 DEF DockerTypeOK, Inspect, Goto, docker, Working
<1>4. CASE Read(c)
  BY <1>4 DEF DockerTypeOK, Read, docker, Working
<1>5. CASE Truncate(c)
  BY <1>5 DEF DockerTypeOK, Truncate, Goto, Working
<1>6. CASE Write(c)
  BY <1>6 DEF DockerTypeOK, Write, Goto, Working
<1>7. CASE Exec(c)
  <2>1. Goto(c, "done") /\ shim[c].at = "exec" /\ UNCHANGED <<job, workspace, cleaner>>
    BY <1>7 DEF Exec
  <2> QED
    BY <2>1 DEF DockerTypeOK, Goto, Working
<1>8. CASE KillShim(c)
  BY <1>8 DEF DockerTypeOK, KillShim, Goto, docker
<1> QED
  BY <1>1, <1>2, <1>3, <1>4, <1>5, <1>6, <1>7, <1>8 DEF ShimStep

(* Arguments do not change, and what a shim has found out of them stays so.    *)
LEMMA InvokedStep == DockerTypeOK /\ ShimsInvoked /\ [Next]_vars => ShimsInvoked'
<1> SUFFICES ASSUME DockerTypeOK, ShimsInvoked, [Next]_vars PROVE ShimsInvoked'
  OBVIOUS
<1>1. ASSUME UNCHANGED shim PROVE ShimsInvoked'
  BY <1>1 DEF ShimsInvoked, Invoked, Effective, Default, Of
<1>2. ASSUME NEW c \in Shim, ShimStep(c) PROVE ShimsInvoked'
  <2>1. shim \in [Shim -> ShimState] /\ \A d \in Shim \ {c} : shim'[d] = shim[d]
    BY <1>2, ShimFrame DEF DockerTypeOK
  <2>2. shim'[c].at \in Working => Invoked(c)'
    <3>1. CASE Invoke(c)
      <4>1. PICK argv \in Argv[c], place \in {"refused", "exec", "ps"} :
              /\ shim' = [shim EXCEPT ![c].at = place, ![c].argv = argv]
              /\ place # "refused" =>
                   /\ ~Blocked(argv, Default(c))
                   /\ place = "ps" <=> Starts(argv)
                   /\ place = "ps" => Project(argv, Default(c)) \in Name
        BY <3>1, Zenon DEF Invoke
      <4>2. shim'[c].argv = argv /\ shim'[c].at = place
        BY <2>1, <4>1 DEF ShimState
      <4>3. place \in Working =>
              /\ ~Blocked(argv, Default(c))
              /\ place # "exec" => Starts(argv)
              /\ Starts(argv) => Project(argv, Default(c)) \in Name
        BY <4>1 DEF Working
      <4> QED
        BY <4>2, <4>3, Zenon DEF Invoked, Effective, Default, Of
    <3>2. CASE ~Invoke(c)
      <4>1. /\ shim[c].at \in Working
            /\ shim'[c].argv = shim[c].argv
            /\ shim'[c].at \in Working => shim[c].at # "exec"
        <5>1. CASE ListContainers(c)
          BY <2>1, <5>1 DEF ListContainers, ShimState, Working
        <5>2. CASE Inspect(c)
          <6>1. PICK place : Goto(c, place)
            BY <5>2, Zenon DEF Inspect
          <6> QED
            BY <2>1, <5>2, <6>1 DEF Inspect, Goto, ShimState, Working
        <5>3. CASE Read(c)
          BY <2>1, <5>3 DEF Read, ShimState, Working
        <5>4. CASE Truncate(c) \/ Write(c)
          BY <2>1, <5>4 DEF Truncate, Write, Goto, ShimState, Working
        <5>5. CASE Exec(c) \/ KillShim(c)
          <6>1. shim[c].at \in Working /\ \E place \in {"done", "failed"} : Goto(c, place)
            BY <5>5, Zenon DEF Exec, KillShim, Working
          <6> QED
            BY <2>1, <6>1 DEF Goto, ShimState, Working
        <5> QED
          BY <1>2, <3>2, <5>1, <5>2, <5>3, <5>4, <5>5 DEF ShimStep
      <4> QED
        BY <4>1, Zenon DEF ShimsInvoked, Invoked, Effective, Default, Of
    <3> QED
      BY <3>1, <3>2
  <2> QED
    BY <2>1, <2>2 DEF ShimsInvoked, Invoked, Effective, Default, Of
<1>3. ASSUME NEW k \in Cleanup, CleanupStep(k) PROVE UNCHANGED shim
  BY <1>3 DEF CleanupStep, BeginCleanup, Down, RemoveWorktrees, KillCleanup
<1> QED
  BY <1>1, <1>2, <1>3 DEF Next, EndJob, vars

(* A step of a cleanup leaves the shims alone, and makes no job running. *)
LEMMA CleanupFrame ==
    ASSUME DockerTypeOK, CleanersLate, NEW k \in Cleanup, CleanupStep(k)
    PROVE  /\ UNCHANGED <<shim, recorded, torn>>
           /\ \A j \in Job : job[j] = "running" <=> job'[j] = "running"
<1>1. CASE BeginCleanup(k)
  BY <1>1 DEF BeginCleanup, docker
<1>2. CASE Down(k)
  BY <1>2 DEF Down
<1>3. CASE RemoveWorktrees(k)
  <2>1. job[cleaner[k].job] # "running"
    BY <1>3 DEF RemoveWorktrees, CleanersLate
  <2> QED
    BY <1>3, <2>1 DEF RemoveWorktrees, DockerTypeOK
<1>4. CASE KillCleanup(k)
  BY <1>4 DEF KillCleanup, docker
<1> QED
  BY <1>1, <1>2, <1>3, <1>4 DEF CleanupStep

(* The docker commands of a command follow each other, within its time. *)
LEMMA TurnsStep ==
    ASSUME ~Parallel, DockerTypeOK, ShimInv, [Next]_vars
    PROVE  OneShimAtATime' /\ NoShimLeft'
<1>1. ASSUME NEW c \in Shim, ShimStep(c) PROVE OneShimAtATime' /\ NoShimLeft'
  <2>1. /\ \A d \in Shim \ {c} : shim'[d] = shim[d]
        /\ UNCHANGED job
        /\ shim[c].at \in Working \/ (job[Of(c)] = "running" /\ ~Busy(Of(c)))
    BY <1>1, ShimFrame
  <2>2. job[Of(c)] = "running"
    BY <2>1 DEF ShimInv, NoShimLeft
  <2>3. \A d \in Shim : Of(d) = Of(c) /\ shim[d].at \in Working => d = c
    BY <2>1 DEF ShimInv, OneShimAtATime, Busy, Of
  <2>4. OneShimAtATime'
    BY <2>1, <2>3 DEF ShimInv, OneShimAtATime, Of
  <2> QED
    BY <2>1, <2>2, <2>4 DEF ShimInv, NoShimLeft, Of
<1>2. ASSUME NEW k \in Cleanup, CleanupStep(k) PROVE OneShimAtATime' /\ NoShimLeft'
  <2>1. UNCHANGED shim /\ \A j \in Job : job[j] = "running" <=> job'[j] = "running"
    BY <1>2, CleanupFrame DEF ShimInv, CleanersKnow, CleanersLate
  <2> QED
    BY <2>1, ShimAssumption DEF ShimInv, OneShimAtATime, NoShimLeft, Of
<1>3. ASSUME NEW j \in Job, EndJob(j) PROVE OneShimAtATime' /\ NoShimLeft'
  BY <1>3 DEF EndJob, Busy, ShimInv, OneShimAtATime, NoShimLeft, Of, DockerTypeOK
<1>4. CASE UNCHANGED vars
  BY <1>4 DEF vars, ShimInv, OneShimAtATime, NoShimLeft, Of
<1> QED
  BY <1>1, <1>2, <1>3, <1>4 DEF Next

(* A project is checked before it is looked up, and recorded before docker     *)
(* runs: nobody else writes the record of the job meanwhile.                   *)
LEMMA KnowledgeStep ==
    ASSUME DockerTypeOK, ShimInv, [Next]_vars
    PROVE  ShimsKnow'
<1>1. ASSUME NEW c \in Shim, ShimStep(c), NEW d \in Shim, d # c, shim'[d].at \in Working
      PROVE  Known(d)'
  <2>1. shim'[d] = shim[d] /\ Known(d)
    BY <1>1, ShimFrame DEF ShimInv, ShimsKnow
  <2>2. CASE Write(c)
    <3>1. Of(d) # Of(c)
      BY <2>1, <2>2, <1>1 DEF ShimInv, OneShimAtATime, Write, Working
    <3>2. recorded'[Of(d)] = recorded[Of(d)]
      BY <2>2, <3>1 DEF Write, DockerTypeOK
    <3> QED
      BY <2>1, <3>2 DEF Known, Effective, Default, Of
  <2>3. CASE ~Write(c)
    <3>1. UNCHANGED recorded
      BY <1>1, <2>3 DEF ShimStep, Invoke, ListContainers, Inspect, Read, Truncate, Exec,
                        KillShim, docker
    <3> QED
      BY <2>1, <3>1 DEF Known, Effective, Default, Of
  <2> QED
    BY <2>2, <2>3
<1>2. ASSUME NEW c \in Shim, ShimStep(c), shim'[c].at \in Working PROVE Known(c)'
  <2>0. shim \in [Shim -> ShimState]
    BY DEF DockerTypeOK
  <2>1. CASE Invoke(c)
    <3>1. PICK place \in {"refused", "exec", "ps"}, argv \in Argv[c] :
               shim' = [shim EXCEPT ![c].at = place, ![c].argv = argv]
      BY <2>1, Zenon DEF Invoke
    <3>2. shim'[c].at = "exec" => ~Starts(shim'[c].argv)
      BY <2>0, <2>1 DEF Invoke, ShimState
    <3>3. shim'[c].at = place
      BY <2>0, <3>1 DEF ShimState
    <3> QED
      BY <3>1, <3>2, <3>3 DEF Known
  <2>2. CASE ListContainers(c)
    BY <2>0, <2>2 DEF ListContainers, ShimInv, ShimsKnow, Known, Working, Effective, Default, Of
  <2>3. CASE Inspect(c)
    <3>1. PICK place \in {"failed", "refused", "read"} : Goto(c, place)
      BY <2>3, Zenon DEF Inspect
    <3> QED
      BY <2>0, <1>2, <2>3, <3>1
         DEF Inspect, Goto, ShimInv, ShimsKnow, Known, Working, Effective, Default, Of
  <2>4. CASE Read(c)
    BY <2>0, <1>2, <2>4
       DEF Read, docker, ShimInv, ShimsKnow, Known, Working, Effective, Default, Of
  <2>5. CASE Truncate(c)
    BY <2>0, <2>5 DEF Truncate, Goto, ShimInv, ShimsKnow, Known, Working, Effective, Default, Of
  <2>6. CASE Write(c)
    <3>1. Effective(c) \in recorded'[Of(c)]
      BY <2>6, ShimAssumption DEF Write, DockerTypeOK, Of
    <3> QED
      BY <2>0, <2>6, <3>1
         DEF Write, Goto, ShimInv, ShimsKnow, Known, Working, Effective, Default, Of
  <2>7. CASE Exec(c) \/ KillShim(c)
    <3>1. Goto(c, "done") \/ Goto(c, "failed")
      BY <2>7, Zenon DEF Exec, KillShim
    <3> QED
      BY <2>0, <1>2, <3>1 DEF Goto, Working, ShimState
  <2> QED
    BY <1>2, <2>1, <2>2, <2>3, <2>4, <2>5, <2>6, <2>7 DEF ShimStep
<1>3. ASSUME NEW k \in Cleanup, CleanupStep(k) PROVE ShimsKnow'
  BY <1>3, CleanupFrame DEF CleanersKnow, CleanersLate, ShimInv, ShimsKnow, Known, Effective, Default, Of
<1>4. ASSUME NEW j \in Job, EndJob(j) PROVE ShimsKnow'
  BY <1>4 DEF EndJob, ShimInv, ShimsKnow, Known, Effective, Default, Of
<1>5. CASE UNCHANGED vars
  BY <1>5 DEF vars, ShimInv, ShimsKnow, Known, Effective, Default, Of
<1> QED
  BY <1>1, <1>2, <1>3, <1>4, <1>5 DEF Next, ShimsKnow

-------------------------------------------------------------------------------
(* Containers *)

(* Containers are made by docker, in the project the shim has found.           *)
LEMMA ExecMakes ==
    ASSUME ReadsAlike, DockerTypeOK, ShimsInvoked, Next,
           NEW p \in Name, NEW j \in made'[p], j \notin made[p]
    PROVE  \E c \in Shim : Exec(c) /\ Starts(shim[c].argv) /\ j = Of(c) /\ p = Effective(c)
<1>1. ASSUME NEW c \in Shim, ShimStep(c), ~Exec(c) PROVE UNCHANGED made
  BY <1>1 DEF ShimStep, Invoke, ListContainers, Inspect, Read, Truncate, Write, KillShim, docker
<1>2. ASSUME NEW c \in Shim, Exec(c)
      PROVE  Starts(shim[c].argv) /\ j = Of(c) /\ p = Effective(c)
  <2> DEFINE argv == shim[c].argv
             q    == ComposeProject(argv, Default(c))
  <2>1. Starts(argv) /\ made' = [made EXCEPT ![q] = @ \cup {Of(c)}]
    <3>1. \/ Starts(argv) /\ made' = [made EXCEPT ![q] = @ \cup {Of(c)}]
          \/ made' = [made EXCEPT ![q] = {}]
          \/ made' = made
      BY <1>2, Zenon DEF Exec
    <3> HIDE DEF argv, q
    <3> QED
      BY <3>1 DEF DockerTypeOK
  <2>2. p = q /\ j = Of(c)
    <3> HIDE DEF q
    <3> QED
      BY <2>1 DEF DockerTypeOK
  <2>3. Invoked(c)
    BY <1>2 DEF Exec, ShimsInvoked, Working
  <2> QED
    BY <2>1, <2>2, <2>3 DEF Invoked, ReadsAlike, Effective
<1>3. ASSUME NEW k \in Cleanup, CleanupStep(k) PROVE made'[p] \subseteq made[p]
  BY <1>3 DEF CleanupStep, BeginCleanup, Down, RemoveWorktrees, KillCleanup, docker, DockerTypeOK
<1>4. ASSUME NEW i \in Job, EndJob(i) PROVE UNCHANGED made
  BY <1>4 DEF EndJob
<1> QED
  BY <1>1, <1>2, <1>3, <1>4, Zenon DEF Next, ShimStep

(* Containers are made only by running jobs, in projects they have recorded.   *)
LEMMA MadeAsRecorded ==
    ASSUME ReadsAlike, DockerTypeOK, ShimInv, Next
    PROVE  \A p \in Name : \A j \in made'[p] :
               j \in made[p] \/ (job[j] = "running" /\ p \in recorded[j])
<1> SUFFICES ASSUME NEW p \in Name, NEW j \in made'[p], j \notin made[p]
             PROVE  job[j] = "running" /\ p \in recorded[j]
  OBVIOUS
<1>1. PICK c \in Shim : Exec(c) /\ Starts(shim[c].argv) /\ j = Of(c) /\ p = Effective(c)
  BY ExecMakes DEF ShimInv
<1>2. shim[c].at = "exec"
  BY <1>1 DEF Exec
<1> QED
  BY <1>1, <1>2 DEF ShimInv, ShimsKnow, Known, NoShimLeft, Working

(* A record is never shortened: the copy it is written from is not stale. *)
LEMMA RecordsGrow ==
    ASSUME DockerTypeOK, ShimInv, [Next]_vars, NEW j \in Job
    PROVE  recorded[j] \subseteq recorded'[j]
<1>1. ASSUME NEW c \in Shim, Write(c) PROVE recorded[j] \subseteq recorded'[j]
  <2>1. shim[c].copy = recorded[Of(c)]
    BY <1>1 DEF Write, ShimInv, ShimsKnow, Known, Working
  <2> QED
    BY <1>1, <2>1 DEF Write, DockerTypeOK
<1>2. ASSUME NEW c \in Shim, ShimStep(c), ~Write(c) PROVE UNCHANGED recorded
  BY <1>2 DEF ShimStep, Invoke, ListContainers, Inspect, Read, Truncate, Exec, KillShim, docker
<1>3. ASSUME NEW k \in Cleanup, CleanupStep(k) PROVE UNCHANGED recorded
  BY <1>3, CleanupFrame DEF ShimInv, CleanersKnow, CleanersLate
<1>4. ASSUME NEW i \in Job, EndJob(i) PROVE UNCHANGED recorded
  BY <1>4 DEF EndJob
<1> QED
  BY <1>1, <1>2, <1>3, <1>4 DEF Next, vars

(* A worktree is removed by a cleanup that has nothing left to take down. *)
LEMMA WorktreesStand ==
    ASSUME DockerTypeOK, ShimInv, [Next]_vars, NEW j \in Job, workspace[j]
    PROVE  workspace'[j] \/ (job[j] # "running" /\ \A p \in Name : j \notin made[p])
<1>1. ASSUME NEW c \in Shim, ShimStep(c) PROVE UNCHANGED workspace
  BY <1>1, ShimFrame
<1>2. ASSUME NEW k \in Cleanup, RemoveWorktrees(k), cleaner[k].job = j
      PROVE  job[j] # "running" /\ \A p \in Name : j \notin made[p]
  BY <1>2 DEF RemoveWorktrees, ShimInv, CleanersKnow
<1>3. ASSUME NEW k \in Cleanup, RemoveWorktrees(k), cleaner[k].job # j PROVE workspace'[j]
  BY <1>3 DEF RemoveWorktrees, DockerTypeOK
<1>4. ASSUME NEW k \in Cleanup, CleanupStep(k), ~RemoveWorktrees(k) PROVE UNCHANGED workspace
  BY <1>4 DEF CleanupStep, BeginCleanup, Down, KillCleanup, docker
<1>5. ASSUME NEW i \in Job, EndJob(i) PROVE UNCHANGED workspace
  BY <1>5 DEF EndJob
<1> QED
  BY <1>1, <1>2, <1>3, <1>4, <1>5 DEF Next, vars

LEMMA ContainersStep ==
    ASSUME ReadsAlike, DockerTypeOK, ShimInv, [Next]_vars
    PROVE  Recorded' /\ Housed' /\ Standing'
<1>1. CASE UNCHANGED vars
  BY <1>1 DEF vars, ShimInv, Recorded, Housed, Standing
<1>2. CASE Next
  <2>1. \A p \in Name : \A j \in made'[p] :
            j \in made[p] \/ (job[j] = "running" /\ p \in recorded[j])
    BY <1>2, MadeAsRecorded
  <2>2. DockerTypeOK'
    BY StepTyped DEF ShimInv
  <2>3. \A p \in Name : \A j \in made'[p] : j \in Job
    BY <2>2 DEF DockerTypeOK
  <2>4. Recorded'
    BY <2>1, <2>3, RecordsGrow DEF ShimInv, Recorded
  <2>5. ASSUME NEW p \in Name, NEW j \in made'[p] PROVE workspace'[j]
    <3>1. workspace[j]
      BY <2>1, <2>3, <2>5 DEF ShimInv, Housed, Standing
    <3>2. j \in made[p] \/ job[j] = "running"
      BY <2>1, <2>5
    <3> QED
      BY <2>3, <2>5, <3>1, <3>2, WorktreesStand
  <2>6. Housed'
    BY <2>5 DEF Housed
  <2>7. \A j \in Job : job'[j] = "running" => job[j] = "running"
    <3>1. ASSUME NEW c \in Shim, ShimStep(c) PROVE UNCHANGED job
      BY <3>1, ShimFrame
    <3>2. ASSUME NEW i \in Job, EndJob(i), NEW j \in Job, job'[j] = "running"
          PROVE  job[j] = "running"
      BY <3>2 DEF EndJob, DockerTypeOK
    <3> QED
      BY <1>2, <3>1, <3>2, CleanupFrame DEF Next, ShimInv, CleanersKnow, CleanersLate
  <2>8. Standing'
    BY <2>7, WorktreesStand DEF ShimInv, Standing
  <2> QED
    BY <2>4, <2>6, <2>8
<1> QED
  BY <1>1, <1>2

(* What a cleanup has not taken down yet is on its list, and nothing is added: *)
(* the job is over.                                                            *)
LEMMA CleanersStep ==
    ASSUME ReadsAlike, Reliable, DockerTypeOK, ShimInv, [Next]_vars
    PROVE  CleanersKnow'
<1> USE DEF DockerTypeOK
<1>1. CASE UNCHANGED vars
  BY <1>1 DEF vars, ShimInv, CleanersKnow
<1>2. ASSUME NEW c \in Shim, ShimStep(c) PROVE CleanersKnow'
  <2>1. UNCHANGED <<job, cleaner>>
    BY <1>2, ShimFrame
  <2>2. Next
    BY <1>2 DEF Next
  <2>3. \A p \in Name : \A j \in made'[p] : j \in made[p] \/ job[j] = "running"
    BY <2>2, MadeAsRecorded
  <2> QED
    BY <2>1, <2>3 DEF ShimInv, CleanersKnow
<1>3. ASSUME NEW j \in Job, EndJob(j) PROVE CleanersKnow'
  BY <1>3 DEF EndJob, ShimInv, CleanersKnow
<1>4. ASSUME NEW k \in Cleanup, BeginCleanup(k) PROVE CleanersKnow'
  <2>1. PICK j \in Job :
               /\ job[j] # "running"
               /\ cleaner' = [cleaner EXCEPT ![k] =
                                [at   |-> IF torn[j] THEN "failed" ELSE "down", job |-> j,
                                 left |-> IF workspace[j] THEN Projects(j) ELSE {}]]
    BY <1>4 DEF BeginCleanup
  <2>2. \A p \in Name : j \in made[p] => workspace[j] /\ p \in Projects(j)
    BY DEF ShimInv, Housed, Recorded, Projects
  <2>3. UNCHANGED <<job, made>>
    BY <1>4 DEF BeginCleanup, docker
  <2>4. cleaner'[k].job = j /\ cleaner'[k].left = IF workspace[j] THEN Projects(j) ELSE {}
    BY <2>1
  <2>5. \A other \in Cleanup \ {k} : cleaner'[other] = cleaner[other]
    BY <2>1
  <2> QED
    BY <2>1, <2>2, <2>3, <2>4, <2>5 DEF ShimInv, CleanersKnow
<1>5. ASSUME NEW k \in Cleanup, Down(k) PROVE CleanersKnow'
  <2>1. PICK q \in cleaner[k].left :
               /\ made' = [made EXCEPT ![q] = {}]
               /\ cleaner' = [cleaner EXCEPT ![k].left = @ \ {q}]
    BY <1>5 DEF Down
  <2>2. cleaner'[k].left = cleaner[k].left \ {q} /\ cleaner'[k].job = cleaner[k].job
    BY <2>1 DEF CleanerState
  <2>3. \A other \in Cleanup \ {k} : cleaner'[other] = cleaner[other]
    BY <2>1
  <2>4. UNCHANGED job /\ cleaner[k].at = "down"
    BY <1>5 DEF Down
  <2>5. \A p \in Name : made'[p] = IF p = q THEN {} ELSE made[p]
    BY <2>1
  <2> QED
    BY <2>2, <2>3, <2>4, <2>5 DEF ShimInv, CleanersKnow
<1>6. ASSUME NEW k \in Cleanup, RemoveWorktrees(k) \/ KillCleanup(k) PROVE CleanersKnow'
  <2>1. /\ \A other \in Cleanup \ {k} : cleaner'[other] = cleaner[other]
        /\ cleaner'[k].at # "down"
        /\ UNCHANGED made
    BY <1>6 DEF RemoveWorktrees, KillCleanup, docker, CleanerState
  <2>2. \A j \in Job : job[j] = "running" <=> job'[j] = "running"
    BY <1>6, CleanupFrame DEF ShimInv, CleanupStep, CleanersKnow, CleanersLate
  <2>3. \A other \in Cleanup : cleaner[other].job \in Job
    BY DEF CleanerState
  <2> QED
    BY <2>1, <2>2, <2>3 DEF ShimInv, CleanersKnow
<1> QED
  BY <1>1, <1>2, <1>3, <1>4, <1>5, <1>6 DEF Next, CleanupStep

(* What a cleanup takes down, and what it is recorded for, is the job's own.   *)
LEMMA OwnStep ==
    ASSUME ReadsAlike, DockerTypeOK, ShimsInvoked, OwnInv, [Next]_vars
    PROVE  OwnInv'
<1> USE DEF DockerTypeOK, OwnInv, CleanersLate
<1>1. ASSUME NEW c \in Shim, shim[c].at \in Working, Starts(shim[c].argv)
      PROVE  Effective(c) \in Uses(Of(c))
  BY <1>1 DEF ShimsInvoked, Invoked, Uses, Effective, Default, Of
<1>2. CASE Next
  <2>1. ASSUME NEW p \in Name, NEW j \in made'[p] PROVE p \in Uses(j)
    <3>1. CASE j \in made[p]
      BY <3>1
    <3>2. CASE j \notin made[p]
      <4>1. PICK c \in Shim : Exec(c) /\ Starts(shim[c].argv) /\ j = Of(c) /\ p = Effective(c)
        BY <1>2, <2>1, <3>2, ExecMakes
      <4>2. shim[c].at \in Working
        BY <4>1 DEF Exec, Working
      <4> QED
        BY <1>1, <4>1, <4>2
    <3> QED
      BY <3>1, <3>2
  <2>2. ASSUME NEW c \in Shim, ShimStep(c) PROVE OwnInv'
    <3>1. \A d \in Shim \ {c} : shim'[d] = shim[d]
      BY <2>2, ShimFrame
    <3>2. UNCHANGED <<job, cleaner>>
      BY <2>2, ShimFrame
    <3>3. shim'[c].copy = shim[c].copy \/ shim'[c].copy = recorded[Of(c)]
      <4>1. CASE Invoke(c)
        <5>1. PICK argv, place : shim' = [shim EXCEPT ![c].at = place, ![c].argv = argv]
          BY <4>1, Zenon DEF Invoke
        <5> QED
          BY <5>1 DEF ShimState
      <4>2. CASE ListContainers(c) \/ Read(c)
        BY <4>2 DEF ListContainers, Read, ShimState
      <4>3. CASE \E place : Goto(c, place)
        BY <4>3 DEF Goto, ShimState
      <4> QED
        BY <2>2, <4>1, <4>2, <4>3, Zenon
           DEF ShimStep, Inspect, Truncate, Write, Exec, KillShim
    <3>4. \A j \in Job : recorded'[j] \subseteq Uses(j)
      <4>1. CASE Write(c)
        <5>1. Starts(shim[c].argv) /\ shim[c].at \in Working
          BY <4>1 DEF Write, ShimsInvoked, Invoked, Working
        <5> QED
          BY <1>1, <4>1, <5>1 DEF Write
      <4>2. CASE ~Write(c)
        BY <2>2, <4>2 DEF ShimStep, Invoke, ListContainers, Inspect, Read, Truncate, Exec,
                          KillShim, docker
      <4> QED
        BY <4>1, <4>2
    <3>5. \A d \in Shim : shim'[d].copy \subseteq Uses(Of(d))
      <4>1. Of(c) \in Job
        BY ShimAssumption DEF Of
      <4> QED
        BY <3>1, <3>3, <4>1
    <3> QED
      BY <2>1, <3>2, <3>4, <3>5 DEF Of
  <2>3. ASSUME NEW k \in Cleanup, CleanupStep(k) PROVE OwnInv'
    <3>1. UNCHANGED <<shim, recorded>> /\ \A j \in Job : job[j] = "running" <=> job'[j] = "running"
      BY <2>3, CleanupFrame
    <3>2. \A other \in Cleanup \ {k} : cleaner'[other] = cleaner[other]
      BY <2>3 DEF CleanupStep, BeginCleanup, Down, RemoveWorktrees, KillCleanup
    <3>3. cleaner'[k].at = "down" =>
            /\ job[cleaner'[k].job] # "running"
            /\ cleaner'[k].left \subseteq Uses(cleaner'[k].job)
            /\ cleaner'[k].job \in Job
      <4>1. CASE BeginCleanup(k)
        BY <4>1 DEF BeginCleanup, Projects, Uses
      <4>2. CASE Down(k)
        BY <4>2 DEF Down, CleanerState
      <4>3. CASE RemoveWorktrees(k) \/ KillCleanup(k)
        BY <4>3 DEF RemoveWorktrees, KillCleanup, CleanerState
      <4> QED
        BY <2>3, <4>1, <4>2, <4>3 DEF CleanupStep
    <3>4. \A other \in Cleanup : cleaner[other].job \in Job
      BY DEF CleanerState
    <3> QED
      BY <2>1, <3>1, <3>2, <3>3, <3>4 DEF Of
  <2>4. ASSUME NEW j \in Job, EndJob(j) PROVE OwnInv'
    BY <2>1, <2>4 DEF EndJob, Of
  <2> QED
    BY <1>2, <2>2, <2>3, <2>4 DEF Next
<1>3. CASE UNCHANGED vars
  BY <1>3 DEF vars, Of
<1> QED
  BY <1>2, <1>3

-------------------------------------------------------------------------------
(* Arguments *)

(* The least element of a set of numbers, by which inductions go here. *)
LEMMA LeastElement ==
    ASSUME NEW S, S \subseteq Nat, S # {}
    PROVE  Least(S) \in S /\ \A k \in S : Least(S) <= k
<1>1. \E R : (\A m, n \in Nat : m < n => <<m, n>> \in R) /\ IsWellFoundedOn(R, Nat)
  <2>1. IsWellFoundedOn(OpToRel(<, Nat), Nat)
    BY NatLessThanWellFounded
  <2>2. \A m, n \in Nat : m < n => <<m, n>> \in OpToRel(<, Nat)
    BY DEF OpToRel
  <2> QED
    BY <2>1, <2>2
<1>2. PICK R : (\A m, n \in Nat : m < n => <<m, n>> \in R) /\ IsWellFoundedOn(R, Nat)
  BY <1>1
<1>3. IsWellFoundedOn(R, Nat)
  BY <1>2
<1>4. PICK m \in S : \A n \in S : ~(<<n, m>> \in R)
  BY <1>3, WFMin, Zenon
<1>5. \A n \in S : m <= n
  <2>1. \A n \in S : ~(n < m)
    BY <1>2, <1>4
  <2> QED
    BY <2>1
<1> QED
  BY <1>5 DEF Least

(* Skip is what its recursion says. *)
LEMMA SkipEquation ==
    ASSUME NEW argv, NEW valued, Len(argv) \in Nat
    PROVE  \A i \in Nat : Skip(argv, i, valued) =
             IF i > Len(argv) \/ argv[i].kind = "word" THEN i
             ELSE IF argv[i].kind \in valued THEN Skip(argv, i + 2, valued)
             ELSE Skip(argv, i + 1, valued)
<1> DEFINE n == Len(argv)
           turn(g, i) == IF i > n \/ argv[i].kind = "word" THEN i
                         ELSE IF argv[i].kind \in valued THEN g[i + 2] ELSE g[i + 1]
           RightFrom(g, d) == g = [i \in Nat |-> g[i]]
                              /\ \A i \in Nat : i + d > n => g[i] = turn(g, i)
           Missing == {d \in Nat : ~ \E g : RightFrom(g, d)}
<1>1. Missing = {}
  <2> SUFFICES ASSUME Missing # {} PROVE FALSE
    OBVIOUS
  <2> DEFINE d == Least(Missing)
  <2>1. d \in Missing /\ \A e \in Missing : d <= e
    <3> HIDE DEF RightFrom
    <3> QED
      BY LeastElement
  <2> HIDE DEF d
  <2>2. d # 0
    <3>1. RightFrom([i \in Nat |-> i], 0)
      OBVIOUS
    <3> HIDE DEF RightFrom
    <3> QED
      BY <2>1, <3>1
  <2>3. PICK g : RightFrom(g, d - 1)
    <3> HIDE DEF RightFrom
    <3> QED
      BY <2>1, <2>2
  <2> DEFINE m == n - (d - 1)
             h == [i \in Nat |-> IF i = m THEN turn(g, m) ELSE g[i]]
  <2>4. d \in Nat
    BY <2>1
  <2>5. \A i \in Nat : i # m => h[i] = g[i]
    OBVIOUS
  <2>6. ASSUME NEW i \in Nat, i + d > n PROVE h[i] = turn(h, i)
    <3>1. turn(h, i) = turn(g, i)
      <4>1. i + 1 # m /\ i + 2 # m /\ i + 1 \in Nat /\ i + 2 \in Nat
        BY <2>4, <2>6
      <4>2. h[i + 1] = g[i + 1] /\ h[i + 2] = g[i + 2]
        BY <2>5, <4>1
      <4> HIDE DEF h
      <4> QED
        BY <4>2
    <3>2. CASE i = m
      <4>1. h[i] = turn(g, m)
        BY <3>2
      <4> HIDE DEF h, turn
      <4> QED
        BY <3>1, <3>2, <4>1
    <3>3. CASE i # m
      <4>1. i + (d - 1) > n
        BY <2>4, <2>6, <3>3
      <4>2. g[i] = turn(g, i)
        BY <2>3, <4>1
      <4>3. h[i] = g[i]
        BY <2>5, <3>3
      <4> HIDE DEF h, turn
      <4> QED
        BY <3>1, <4>2, <4>3
    <3> QED
      BY <3>2, <3>3
  <2>7. h = [i \in Nat |-> h[i]]
    OBVIOUS
  <2>8. RightFrom(h, d)
    <3> HIDE DEF h, turn
    <3> QED
      BY <2>6, <2>7
  <2> HIDE DEF RightFrom, h
  <2> QED
    BY <2>1, <2>8
<1>2. \E g : RightFrom(g, n + 1)
  <2>1. n + 1 \in Nat
    OBVIOUS
  <2> HIDE DEF RightFrom, n
  <2> QED
    BY <1>1, <2>1, Zenon
<1>3. \E g : g = [i \in Nat |-> turn(g, i)]
  <2>1. PICK g : RightFrom(g, n + 1)
    BY <1>2
  <2>2. \A i \in Nat : g[i] = turn(g, i)
    <3>1. \A i \in Nat : i + (n + 1) > n
      OBVIOUS
    <3> HIDE DEF turn
    <3> QED
      BY <2>1, <3>1
  <2>3. g = [i \in Nat |-> turn(g, i)]
    <3> HIDE DEF turn
    <3> QED
      BY <2>1, <2>2
  <2> QED
    BY <2>3
<1> DEFINE next == CHOOSE g : g = [i \in Nat |-> turn(g, i)]
<1>4. next = [i \in Nat |-> turn(next, i)]
  <2> HIDE DEF turn
  <2> QED
    BY <1>3
<1>5. \A i \in Nat : Skip(argv, i, valued) = next[i]
  BY DEF Skip
<1> HIDE DEF next
<1> QED
  BY <1>4, <1>5

(* Tokens, and arguments in which what follows a flag of docker with a value   *)
(* does not look like a flag.                                                  *)
Token == [kind : STRING, text : STRING]

ValuesAreWords ==
    \A c \in Shim : \A argv \in Argv[c] :
        /\ argv \in Seq(Token)
        /\ \A i \in 1..(Len(argv) - 1) : argv[i].kind = "docker" => argv[i + 1].kind = "word"

(* The words of the arguments of docker that are no values of its own flags. *)
WordsOf(argv) ==
    {i \in 1..Len(argv) : argv[i].kind = "word" /\ (i > 1 => argv[i - 1].kind # "docker")}

(* The shim skips from any token that is no such value to the next of them. *)
LEMMA SkipFinds ==
    ASSUME NEW argv \in Seq(Token),
           \A i \in 1..(Len(argv) - 1) : argv[i].kind = "docker" => argv[i + 1].kind = "word"
    PROVE  LET s == Skip(argv, 1, {"docker"})
           IN  /\ s \in Nat \ {0}
               /\ s <= Len(argv) => s \in WordsOf(argv)
               /\ \A k \in WordsOf(argv) : s <= k
<1> DEFINE n == Len(argv)
           skip(i) == Skip(argv, i, {"docker"})
           Free(i) == i > n \/ i = 1 \/ argv[i - 1].kind # "docker"
           Found(i) == /\ skip(i) \in Nat /\ skip(i) >= i
                       /\ skip(i) <= n => skip(i) \in WordsOf(argv)
                       /\ \A k \in WordsOf(argv) : k >= i => skip(i) <= k
           Missed == {d \in Nat : \E i \in Nat \ {0} : i + d > n /\ Free(i) /\ ~Found(i)}
<1>1. n \in Nat /\ \A i \in 1..n : argv[i] \in Token
  OBVIOUS
<1>2. \A i \in Nat : skip(i) = IF i > n \/ argv[i].kind = "word" THEN i
                               ELSE IF argv[i].kind = "docker" THEN skip(i + 2) ELSE skip(i + 1)
  BY <1>1, SkipEquation
<1> HIDE DEF skip
<1>3. Missed = {}
  <2> SUFFICES ASSUME Missed # {} PROVE FALSE
    OBVIOUS
  <2> DEFINE d == Least(Missed)
  <2>1. d \in Missed /\ \A e \in Missed : d <= e
    <3> HIDE DEF Found, Free
    <3> QED
      BY LeastElement
  <2> HIDE DEF d
  <2>2. PICK i \in Nat \ {0} : i + d > n /\ Free(i) /\ ~Found(i)
    BY <2>1
  <2>3. d \in Nat
    BY <2>1
  <2>4. \A m \in Nat \ {0} : m > i /\ Free(m) => Found(m)
    <3> SUFFICES ASSUME NEW m \in Nat \ {0}, m > i, Free(m), ~Found(m) PROVE FALSE
      OBVIOUS
    <3>1. CASE d = 0
      <4>1. m + 0 > n
        BY <1>1, <2>2, <3>1
      <4>2. i > n
        BY <1>1, <2>2, <3>1
      <4>3. skip(m) = m
        BY <1>2, <4>1
      <4> QED
        BY <1>1, <4>1, <4>3 DEF WordsOf
    <3>2. CASE d # 0
      <4>1. d - 1 \in Nat /\ m + (d - 1) > n
        BY <1>1, <2>2, <2>3, <3>2
      <4>2. d - 1 \in Missed
        <5> HIDE DEF Found, Free
        <5> QED
          BY <4>1
      <4> HIDE DEF Missed
      <4> QED
        BY <2>1, <2>3, <4>2
    <3> QED
      BY <3>1, <3>2
  <2>5. CASE i > n
    <3>1. skip(i) = i
      BY <1>2, <2>5
    <3> QED
      BY <1>1, <2>2, <2>5, <3>1 DEF WordsOf
  <2>6. CASE i <= n /\ argv[i].kind = "word"
    <3>1. skip(i) = i
      BY <1>2, <2>6
    <3>2. i \in WordsOf(argv)
      BY <1>1, <2>2, <2>6 DEF WordsOf
    <3> QED
      BY <1>1, <2>2, <3>1, <3>2
  <2>7. CASE i <= n /\ argv[i].kind = "docker"
    <3>1. skip(i) = skip(i + 2)
      BY <1>1, <1>2, <2>7
    <3>2. Free(i + 2)
      BY <1>1, <2>7
    <3>3. Found(i + 2)
      BY <2>4, <3>2
    <3>4. \A k \in WordsOf(argv) : k >= i => k >= i + 2
      BY <1>1, <2>7 DEF WordsOf
    <3> QED
      BY <1>1, <2>2, <3>1, <3>3, <3>4
  <2>8. CASE i <= n /\ argv[i].kind \notin {"word", "docker"}
    <3>1. skip(i) = skip(i + 1)
      BY <1>1, <1>2, <2>8
    <3>2. Free(i + 1)
      BY <1>1, <2>8
    <3>3. Found(i + 1)
      BY <2>4, <3>2
    <3>4. \A k \in WordsOf(argv) : k >= i => k >= i + 1
      BY <1>1, <2>8 DEF WordsOf
    <3> QED
      BY <1>1, <2>2, <3>1, <3>3, <3>4
  <2> QED
    BY <1>1, <2>5, <2>6, <2>7, <2>8
<1>4. Found(1)
  <2>1. n \in Missed \/ ~(1 + n > n /\ Free(1) /\ ~Found(1))
    <3> HIDE DEF Found, Free, n
    <3> QED
      BY <1>1
  <2> QED
    BY <1>1, <1>3, <2>1
<1>5. \A k \in WordsOf(argv) : k >= 1
  BY DEF WordsOf
<1> QED
  BY <1>4, <1>5 DEF skip

(* So docker gets for its command what the shim has checked, unless a value of *)
(* a flag that the shim does not know stands before it.                        *)
LEMMA CommandIsChecked ==
    ASSUME NEW argv \in Seq(Token), NEW resource,
           \A i \in 1..(Len(argv) - 1) : argv[i].kind = "docker" => argv[i + 1].kind = "word",
           ~Blocked(argv, resource), ~Overlooked(argv)
    PROVE  DockerCommand(argv) \notin DaemonWide
<1> DEFINE s == Skip(argv, 1, {"docker"})
           words == WordsOf(argv)
           command == CommandTokens(argv)
<1>1. /\ s \in Nat \ {0}
      /\ s <= Len(argv) => s \in words
      /\ \A k \in words : s <= k
  BY SkipFinds
<1>2. command = SubSeq(argv, s, Len(argv)) /\ command # <<>>
  BY DEF CommandTokens, Blocked
<1> HIDE DEF s
<1>3. s <= Len(argv)
  BY <1>1, <1>2, SubSeqEmpty
<1>4. Len(command) = Len(argv) - s + 1 /\ \A i \in 1..(Len(argv) - s + 1) : command[i] = argv[s + i - 1]
  BY <1>1, <1>2, <1>3, SubSeqProperties
<1> HIDE DEF command
<1>5. Text(command, 1) = Text(argv, s) /\ Text(command, 2) = Text(argv, s + 1)
  <2>1. Len(argv) \in Nat
    OBVIOUS
  <2>2. command[1] = argv[s] /\ 1 <= Len(command)
    BY <1>1, <1>3, <1>4, <2>1
  <2>3. s + 1 <= Len(argv) => command[2] = argv[s + 1]
    BY <1>1, <1>4, <2>1
  <2>4. 2 <= Len(command) <=> s + 1 <= Len(argv)
    BY <1>1, <1>4, <2>1
  <2> QED
    BY <1>3, <2>2, <2>3, <2>4 DEF Text
<1>6. words \subseteq Nat /\ words # {}
  BY <1>1, <1>3 DEF WordsOf
<1>7. Least(words) = s
  <2>1. Least(words) \in words /\ \A k \in words : Least(words) <= k
    BY <1>6, LeastElement
  <2> QED
    BY <1>1, <1>3, <1>6, <2>1
<1>8. CommandAt(argv) = s
  <2>1. Len(argv) \in Nat
    OBVIOUS
  <2>2. \A i \in 1..Len(argv) : i > 1 => argv[i - 1].kind # "unlisted"
    BY <2>1 DEF Overlooked
  <2>3. words = {i \in 1..Len(argv) :
                   /\ argv[i].kind = "word"
                   /\ i > 1 => argv[i - 1].kind \notin {"docker", "unlisted"}}
    BY <2>2 DEF WordsOf
  <2> HIDE DEF words
  <2> QED
    BY <1>6, <1>7, <2>3 DEF CommandAt
<1>9. <<Text(argv, s), Text(argv, s + 1)>> = <<Text(command, 1), Text(command, 2)>>
  BY <1>5
<1>10. ASSUME DockerCommand(argv) = <<"image", "prune">> PROVE FALSE
  <2>1. PICK i \in (s + 2)..Len(argv) : argv[i].text \in {"-a", "--all"}
    BY <1>8, <1>10 DEF Overlooked
  <2>2. /\ i - s + 1 \in 3..Len(command)
        /\ command[i - s + 1] = argv[i]
    <3>1. Len(argv) \in Nat
      OBVIOUS
    <3>2. i - s + 1 \in 1..(Len(argv) - s + 1) /\ i - s + 1 >= 3 /\ s + (i - s + 1) - 1 = i
      BY <1>1, <3>1
    <3> DEFINE m == i - s + 1
    <3>3. m \in Nat /\ m >= 3 /\ m <= Len(command)
      BY <1>1, <1>4, <3>1, <3>2
    <3>4. command[m] = argv[s + m - 1]
      BY <1>4, <3>2
    <3>5. s + m - 1 = i
      BY <3>2
    <3>6. Len(command) \in Nat
      BY <1>1, <1>3, <1>4, <3>1
    <3> HIDE DEF m
    <3>7. m \in 3..Len(command) /\ command[m] = argv[i]
      BY <3>3, <3>4, <3>5, <3>6
    <3> QED
      BY <3>7 DEF m
  <2>3. <<Text(command, 1), Text(command, 2)>> = <<"image", "prune">>
    BY <1>8, <1>9, <1>10 DEF DockerCommand
  <2> QED
    BY <2>1, <2>2, <2>3 DEF Blocked, command
<1>11. <<Text(command, 1), Text(command, 2)>>
          \notin {<<what, "prune">> : what \in {"system", "volume", "builder"}}
  BY DEF Blocked, command
<1>12. DockerCommand(argv) \notin {<<"container", "prune">>, <<"network", "prune">>}
  BY DEF Overlooked
<1> QED
  BY <1>8, <1>9, <1>10, <1>11, <1>12 DEF DockerCommand, DaemonWide

(* A Compose command with one project flag at most, before its action, is for  *)
(* the project the shim reads.                                                 *)
LEMMA ReadOnce ==
    (\A c \in Shim : \A argv \in Argv[c] :
        LET flags == Flags(argv, "project", "projectIs")
        IN  /\ \A i, k \in flags : i = k
            /\ \A i \in flags : i < ActionIndex(argv))
    => ReadsAlike
<1> SUFFICES ASSUME NEW argv, NEW default,
                    \A i, k \in Flags(argv, "project", "projectIs") : i = k,
                    \A i \in Flags(argv, "project", "projectIs") : i < ActionIndex(argv)
             PROVE  ComposeProject(argv, default) = Project(argv, default)
  BY DEF ReadsAlike
<1> DEFINE flags == Flags(argv, "project", "projectIs")
<1>1. {i \in flags : i < ActionIndex(argv)} = flags
  OBVIOUS
<1>2. CASE flags = {}
  BY <1>1, <1>2 DEF ComposeProject, Project
<1>3. CASE flags # {}
  <2>1. PICK i : flags = {i} /\ i <= i
    <3>1. flags \subseteq Nat
      BY DEF Flags
    <3> QED
      BY <1>3, <3>1
  <2>2. Least(flags) = i /\ (CHOOSE m \in flags : \A k \in flags : k <= m) = i
    <3> HIDE DEF flags
    <3> QED
      BY <2>1 DEF Least
  <2>3. Project(argv, default) = ValueAt(argv, Least(flags), "project")
    BY <1>3 DEF Project
  <2> DEFINE early == {m \in flags : m < ActionIndex(argv)}
  <2>4. early # {} => ComposeProject(argv, default)
                        = ValueAt(argv, CHOOSE m \in early : \A k \in early : k <= m, "project")
    BY Zenon DEF ComposeProject
  <2>5. early = flags
    BY <1>1
  <2> HIDE DEF early, flags
  <2> QED
    BY <1>3, <2>2, <2>3, <2>4, <2>5
<1> QED
  BY <1>2, <1>3

-------------------------------------------------------------------------------
(* Theorems *)

LEMMA Beginning == Init => DockerTypeOK /\ ShimInv /\ OwnInv
<1> SUFFICES ASSUME Init PROVE DockerTypeOK /\ ShimInv /\ OwnInv
  OBVIOUS
<1>1. (CHOOSE j \in Job : TRUE) \in Job
  BY ShimAssumption
<1>2. DockerTypeOK
  <2>1. [at |-> "idle", argv |-> <<>>, listed |-> {}, copy |-> {}] \in ShimState
    BY DEF ShimState
  <2>2. [at |-> "idle", job |-> CHOOSE j \in Job : TRUE, left |-> {}] \in CleanerState
    BY <1>1 DEF CleanerState
  <2>3. /\ shim \in [Shim -> ShimState]
        /\ cleaner \in [Cleanup -> CleanerState]
    BY <2>1, <2>2 DEF Init
  <2> QED
    BY <2>3 DEF Init, DockerTypeOK
<1>3. ShimInv
  BY <1>2 DEF Init, ShimInv, ShimsInvoked, OneShimAtATime, NoShimLeft, ShimsKnow, Recorded,
              Housed, Standing, CleanersKnow, Working
<1> QED
  BY <1>2, <1>3 DEF Init, OwnInv, CleanersLate

(* Shims and cleanups are of the types described, whatever arguments they get, *)
(* and a shim goes on only with arguments that pass the checks.                *)
THEOREM ShimsTyped == Spec => []DockerTypeOK /\ []ShimsInvoked
<1>1. DockerTypeOK /\ ShimsInvoked /\ [Next]_vars => DockerTypeOK' /\ ShimsInvoked'
  BY StepTyped, InvokedStep
<1>2. Init => DockerTypeOK /\ ShimsInvoked
  BY Beginning DEF ShimInv
<1> QED
  BY <1>1, <1>2, PTL DEF Spec

(* docker is run for a prune of the whole daemon only by arguments the policy  *)
(* does not look for: with a value of a flag missing in its table, or for one  *)
(* of the prunes of Overlooked.  Wherever the flags of docker stand that it    *)
(* knows, with values or without, all other arguments are refused.             *)
THEOREM PrunesAreOverlooked == ValuesAreWords => (Spec => []OnlyOverlookedPrune)
<1> SUFFICES ASSUME ValuesAreWords PROVE Spec => []OnlyOverlookedPrune
  OBVIOUS
<1>1. ShimsInvoked => OnlyOverlookedPrune
  <2> SUFFICES ASSUME ShimsInvoked, NEW c \in Shim, shim[c].at = "exec",
                      DockerCommand(shim[c].argv) \in DaemonWide
               PROVE  Overlooked(shim[c].argv)
    BY DEF OnlyOverlookedPrune
  <2>1. shim[c].argv \in Argv[c] /\ ~Blocked(shim[c].argv, Default(c))
    BY DEF ShimsInvoked, Invoked, Working
  <2> QED
    BY <2>1, CommandIsChecked DEF ValuesAreWords
<1> QED
  BY <1>1, ShimsTyped, PTL

(* A Compose command is refused for ports of other projects only, if its       *)
(* arguments are read alike by the shim and by Compose.                        *)
THEOREM OwnPortsAreAllowed == ReadsAlike => (Spec => OwnPortsAllowed)
<1> SUFFICES ASSUME ReadsAlike PROVE Spec => OwnPortsAllowed
  OBVIOUS
<1> DEFINE Rightly(c) == shim[c].at = "inspect" /\ shim'[c].at = "refused" =>
             \E p \in Present \ {ComposeProject(shim[c].argv, Default(c))} :
                Bound(p) \cap PortsOf[Of(c)] # {}
<1>1. ASSUME DockerTypeOK, ShimsInvoked, [Next]_vars, NEW c \in Shim PROVE Rightly(c)
  <2> SUFFICES ASSUME shim[c].at = "inspect", shim'[c].at = "refused"
               PROVE  \E p \in Present \ {ComposeProject(shim[c].argv, Default(c))} :
                         Bound(p) \cap PortsOf[Of(c)] # {}
    OBVIOUS
  <2>1. Inspect(c)
    <3>1. ASSUME NEW d \in Shim, ShimStep(d) PROVE d = c
      BY <1>1, <3>1, ShimFrame
    <3>2. CASE ShimStep(c)
      <4>1. CASE KillShim(c)
        BY <1>1, <4>1 DEF KillShim, Goto, DockerTypeOK, ShimState
      <4> QED
        BY <3>2, <4>1 DEF ShimStep, Invoke, ListContainers, Read, Truncate, Write, Exec
    <3>3. ASSUME NEW k \in Cleanup, CleanupStep(k) PROVE FALSE
      BY <3>3 DEF CleanupStep, BeginCleanup, Down, RemoveWorktrees, KillCleanup
    <3> QED
      BY <1>1, <3>1, <3>2, <3>3 DEF Next, vars, EndJob
  <2>2. ComposeProject(shim[c].argv, Default(c)) = Effective(c)
    BY <1>1 DEF ShimsInvoked, Invoked, Working, ReadsAlike, Effective
  <2>3. /\ shim[c].listed \subseteq Present
        /\ \E p \in shim[c].listed \ {Effective(c)} : Bound(p) \cap PortsOf[Of(c)] # {}
    <3>1. CASE ~(shim[c].listed \subseteq Present)
      BY <1>1, <2>1, <3>1 DEF Inspect, Goto, DockerTypeOK, ShimState
    <3>2. CASE ~(\E p \in shim[c].listed \ {Effective(c)} : Bound(p) \cap PortsOf[Of(c)] # {})
      <4>1. Goto(c, "failed") \/ Goto(c, "read")
        BY <2>1, <3>2, Zenon DEF Inspect
      <4> QED
        BY <1>1, <4>1 DEF Goto, DockerTypeOK, ShimState
    <3> QED
      BY <3>1, <3>2
  <2> QED
    BY <2>2, <2>3
<1>2. DockerTypeOK /\ ShimsInvoked /\ [Next]_vars => [\A c \in Shim : Rightly(c)]_vars
  BY <1>1
<1> QED
  BY <1>2, ShimsTyped, PTL DEF Spec, OwnPortsAllowed

(* A cleanup never takes down containers of a job that is still running, if no *)
(* two jobs use the same project, however many docker commands run at once.    *)
THEOREM RunningIsSpared == ReadsAlike /\ NamesApart => (Spec => CleanupSparesRunning)
<1> SUFFICES ASSUME ReadsAlike, NamesApart PROVE Spec => CleanupSparesRunning
  OBVIOUS
<1> DEFINE Spares(k) == cleaner'[k] # cleaner[k] =>
             \A p \in Name : \A j \in made[p] \ made'[p] : job[j] # "running"
<1>1. ASSUME DockerTypeOK, OwnInv, [Next]_vars, NEW k \in Cleanup PROVE Spares(k)
  <2> SUFFICES ASSUME cleaner'[k] # cleaner[k], NEW p \in Name, NEW j \in made[p] \ made'[p]
               PROVE  job[j] # "running"
    OBVIOUS
  <2>1. CleanupStep(k)
    <3>1. ASSUME NEW c \in Shim, ShimStep(c) PROVE FALSE
      BY <1>1, <3>1, ShimFrame
    <3>2. ASSUME NEW other \in Cleanup, CleanupStep(other) PROVE other = k
      BY <1>1, <3>2
         DEF CleanupStep, BeginCleanup, Down, RemoveWorktrees, KillCleanup, DockerTypeOK
    <3> QED
      BY <1>1, <3>1, <3>2 DEF Next, vars, EndJob
  <2>2. Down(k)
    BY <2>1 DEF CleanupStep, BeginCleanup, RemoveWorktrees, KillCleanup, docker
  <2>3. p \in cleaner[k].left /\ cleaner[k].at = "down"
    BY <1>1, <2>2 DEF Down, DockerTypeOK
  <2>4. p \in Uses(cleaner[k].job) /\ p \in Uses(j)
    BY <1>1, <2>3 DEF OwnInv
  <2>5. j \in Job /\ cleaner[k].job \in Job
    BY <1>1 DEF DockerTypeOK, CleanerState
  <2>6. j = cleaner[k].job
    BY <2>4, <2>5 DEF NamesApart
  <2> QED
    BY <1>1, <2>3, <2>6 DEF OwnInv, CleanersLate
<1>2. DockerTypeOK /\ OwnInv /\ [Next]_vars => [\A k \in Cleanup : Spares(k)]_vars
  BY <1>1
<1>3. DockerTypeOK /\ ShimsInvoked /\ OwnInv /\ [Next]_vars => OwnInv'
  BY OwnStep
<1> QED
  BY <1>2, <1>3, Beginning, ShimsTyped, PTL DEF Spec, CleanupSparesRunning

(* Whatever containers a job has made, in whatever projects, however often     *)
(* shims and cleanups were killed: when the job is over, all of them can be    *)
(* found and taken down by a cleanup, as long as the record is readable.  It   *)
(* is assumed that a command waits for each docker command, that "compose      *)
(* down" succeeds, and that no arguments are read otherwise by Compose than by *)
(* the shim.                                                                   *)
THEOREM NoContainerIsLost ==
    ~Parallel /\ Reliable /\ ReadsAlike => (Spec => []CleanupFindsAll)
<1> SUFFICES ASSUME ~Parallel, Reliable, ReadsAlike PROVE Spec => []CleanupFindsAll
  OBVIOUS
<1>1. DockerTypeOK /\ ShimInv /\ [Next]_vars => ShimInv'
  <2> SUFFICES ASSUME DockerTypeOK, ShimInv, [Next]_vars PROVE ShimInv'
    OBVIOUS
  <2>1. ShimsInvoked'
    BY InvokedStep DEF ShimInv
  <2>2. OneShimAtATime' /\ NoShimLeft'
    BY TurnsStep
  <2>3. ShimsKnow'
    BY KnowledgeStep
  <2>4. Recorded' /\ Housed' /\ Standing'
    BY ContainersStep
  <2>5. CleanersKnow'
    BY CleanersStep
  <2> QED
    BY <2>1, <2>2, <2>3, <2>4, <2>5 DEF ShimInv
<1>2. DockerTypeOK /\ ShimInv => CleanupFindsAll
  BY DEF ShimInv, Recorded, Housed, CleanupFindsAll
<1> QED
  BY <1>1, <1>2, Beginning, ShimsTyped, PTL DEF Spec
===============================================================================
