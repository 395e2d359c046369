------------------------------ MODULE DockerShim ------------------------------
(* What the commands of jobs do with Docker, and how cleanup undoes it.  Every *)
(* "docker" of a job's command is the shim of that job, which runs "trie-runner *)
(* docker" (server_cli.py): the policy of docker_policy.py, the check of        *)
(* published ports of port_policy.py, an entry in compose-projects.json, and    *)
(* then docker itself.  Cleanup takes down the projects of that file.           *)
EXTENDS Naturals, Sequences

CONSTANTS
    Job,       \* jobs whose commands use Docker
    Shim,      \* invocations of docker by their commands
    Cleanup,   \* invocations of "cleanup"
    Caller,    \* Caller[c]: the job whose command invokes the shim c
    Argv,      \* Argv[c]: the argument lists c may be given
    Resource,  \* Resource[j]: job_resource_name, the project and builder of j
    Name,      \* the project names the shim accepts
    PortsOf,   \* PortsOf[j]: the host ports the Compose files of j publish
    Parallel,  \* whether a command runs docker in the background: several at once,
               \* and some still when its own process has ended
    Reliable,  \* whether "docker compose down" always succeeds
    Mortal     \* the shims and cleanups that may be killed

ASSUME ShimAssumption ==
    /\ Job # {}
    /\ Caller \in [Shim -> Job]
    /\ Resource \in [Job -> Name]
    /\ {Parallel, Reliable} \subseteq BOOLEAN
    /\ Mortal \subseteq Shim \cup Cleanup

VARIABLES
    job,        \* job[j]: running, final, or cleaned
    recorded,   \* recorded[j]: the projects in compose-projects.json of j
    torn,       \* torn[j]: that file is no JSON
    workspace,  \* workspace[j]: the primary worktree of j exists
    made,       \* made[p]: the jobs that made the containers project p has now
    shim,       \* shim[c]: where c is, and its local variables
    cleaner     \* cleaner[k]: likewise for the cleanup k

vars == <<job, recorded, torn, workspace, made, shim, cleaner>>
docker == <<job, recorded, torn, workspace, made>>

-------------------------------------------------------------------------------
(* Arguments.  A token has a text and a kind: "word", or the kind of flag it   *)
(* is.  The value of a flag is its text, if it is written "--flag=value", and  *)
(* otherwise the next token.                                                   *)
(*   project, projectIs   -p and --project-name, --project-name=value          *)
(*   builder, builderIs   --builder, --builder=value                           *)
(*   compose              other flags of Compose that have a value             *)
(*   docker, unlisted     flags of docker that have a value, in the shim's table *)
(*                        GLOBAL_FLAGS_WITH_VALUE and missing there             *)
(*   switch               all others                                           *)

(* Mutation: a flag and its value are not told apart. *)
SkipFlags(argv, from, valued) ==
    LET next[i \in Nat] == IF i <= Len(argv) /\ argv[i].kind # "word" THEN next[i + 1] ELSE i
    IN  next[from]

(* The index of the first word that is not the value of a flag. *)
Skip(argv, from, valued) ==
    LET next[i \in Nat] ==
          IF i > Len(argv) \/ argv[i].kind = "word" THEN i
          ELSE IF argv[i].kind \in valued THEN next[i + 2] ELSE next[i + 1]
    IN  next[from]

Text(argv, i) == IF i <= Len(argv) THEN argv[i].text ELSE ""

(* The arguments without the flags of docker itself. *)
CommandTokens(argv) == SubSeq(argv, Skip(argv, 1, {"docker"}), Len(argv))

(* The indices of flags of a kind in two spellings, and the value of one. *)
Flags(argv, spaced, joined) ==
    {i \in 1..Len(argv) : \/ argv[i].kind = spaced /\ i < Len(argv)
                          \/ argv[i].kind = joined}

ValueAt(argv, i, spaced) == IF argv[i].kind = spaced THEN argv[i + 1].text ELSE argv[i].text

Least(S) == CHOOSE i \in S : \A k \in S : i <= k

(* validate_docker_arguments raises. *)
Blocked(argv, resource) ==
    LET command == CommandTokens(argv)
        path    == <<Text(command, 1), Text(command, 2)>>
        builder == Flags(command, "builder", "builderIs")
    IN  \/ command = <<>>
        \/ path \in {<<"system", "prune">>, <<"volume", "prune">>, <<"builder", "prune">>,
                     <<"context", "rm">>, <<"swarm", "leave">>}
        \/ path = <<"image", "prune">> /\ \E i \in 3..Len(command) : command[i].text \in {"-a", "--all"}
        \/ path = <<"buildx", "prune">>
           /\ \/ builder = {}
              \/ ValueAt(command, Least(builder), "builder") # resource

(* The index of the action of a Compose command: nothing, if there is none.    *)
ActionIndex(argv) ==
    LET composes == {i \in 1..Len(argv) : argv[i].text = "compose" /\ argv[i].kind = "word"}
    IN  IF composes = {} THEN Len(argv) + 1
        ELSE Skip(argv, Least(composes) + 1, {"project", "compose"})

Starts(argv) == Text(argv, ActionIndex(argv)) \in {"up", "run", "start"}

(* Mutation: the short flag is not known. *)
ProjectLongOnly(argv, default) ==
    LET flags == {i \in 1..Len(argv) : argv[i].kind = "projectIs"}
    IN  IF flags = {} THEN default ELSE argv[Least(flags)].text

(* compose_project_name: the first flag wherever it stands, or the default.    *)
Project(argv, default) ==
    LET flags == Flags(argv, "project", "projectIs")
    IN  IF flags = {} THEN default ELSE ValueAt(argv, Least(flags), "project")

(* What docker itself takes for its command: the first word that is no value   *)
(* of a flag, and what follows it.                                             *)
CommandAt(argv) ==
    LET words == {i \in 1..Len(argv) :
                    /\ argv[i].kind = "word"
                    /\ i > 1 => argv[i - 1].kind \notin {"docker", "unlisted"}}
    IN  IF words = {} THEN Len(argv) + 1 ELSE Least(words)

DockerCommand(argv) ==
    <<Text(argv, CommandAt(argv)), Text(argv, CommandAt(argv) + 1)>>

(* What Compose takes for its project: the last flag before the action, or     *)
(* else COMPOSE_PROJECT_NAME.                                                  *)
ComposeProject(argv, default) ==
    LET flags == {i \in Flags(argv, "project", "projectIs") : i < ActionIndex(argv)}
        last  == CHOOSE i \in flags : \A k \in flags : k <= i
    IN  IF flags = {} THEN default ELSE ValueAt(argv, last, "project")

(* The operations that reach what other jobs have in the same daemon. *)
DaemonWide ==
    {<<what, "prune">> : what \in {"system", "volume", "builder", "image", "container", "network"}}

(* What validate_docker_arguments does not look for: a value of a flag that is *)
(* not in its table, two kinds of prune, and prune of images unless it finds   *)
(* one of the two spellings of --all.                                          *)
Overlooked(argv) ==
    \/ \E i \in 1..Len(argv) : argv[i].kind = "unlisted"
    \/ DockerCommand(argv) \in {<<"container", "prune">>, <<"network", "prune">>}
    \/ /\ DockerCommand(argv) = <<"image", "prune">>
       /\ \A i \in (CommandAt(argv) + 2)..Len(argv) : argv[i].text \notin {"-a", "--all"}

-------------------------------------------------------------------------------
(* State *)

Of(c) == Caller[c]
Default(c) == Resource[Of(c)]
Effective(c) == Project(shim[c].argv, Default(c))

Working == {"ps", "inspect", "read", "truncate", "write", "exec"}
Over == {"done", "refused", "failed"}

ShimState ==
    [at : {"idle"} \cup Working \cup Over, argv : (UNION {Argv[c] : c \in Shim}) \cup {<<>>},
     listed : SUBSET Name, copy : SUBSET Name]

CleanerState == [at : {"idle", "down"} \cup Over, job : Job, left : SUBSET Name]

DockerTypeOK ==
    /\ job \in [Job -> {"running", "final", "cleaned"}]
    /\ recorded \in [Job -> SUBSET Name]
    /\ torn \in [Job -> BOOLEAN]
    /\ workspace \in [Job -> BOOLEAN]
    /\ made \in [Name -> SUBSET Job]
    /\ shim \in [Shim -> ShimState]
    /\ cleaner \in [Cleanup -> CleanerState]

Init ==
    /\ job = [j \in Job |-> "running"]
    /\ recorded = [j \in Job |-> {}]
    /\ torn = [j \in Job |-> FALSE]
    /\ workspace = [j \in Job |-> TRUE]
    /\ made = [p \in Name |-> {}]
    /\ shim = [c \in Shim |-> [at |-> "idle", argv |-> <<>>, listed |-> {}, copy |-> {}]]
    /\ cleaner = [k \in Cleanup |->
                    [at |-> "idle", job |-> CHOOSE j \in Job : TRUE, left |-> {}]]

Goto(c, place) == shim' = [shim EXCEPT ![c].at = place]

Present == {p \in Name : made[p] # {}}

Bound(p) == UNION {PortsOf[j] : j \in made[p]}

Busy(j) == \E c \in Shim : Caller[c] = j /\ shim[c].at \in Working

-------------------------------------------------------------------------------
(* The shim *)

(* Mutation: any text is a project name. *)
InvokeUnchecked(c) ==
    /\ shim[c].at = "idle"
    /\ Parallel \/ (job[Of(c)] = "running" /\ ~Busy(Of(c)))
    /\ \E argv \in Argv[c] :
         \E place \in IF Blocked(argv, Default(c)) THEN {"refused"}
                      ELSE IF ~Starts(argv) THEN {"exec"} ELSE {"ps", "refused"} :
           shim' = [shim EXCEPT ![c].at = place, ![c].argv = argv]
    /\ UNCHANGED <<docker, cleaner>>

(* The command of a job invokes docker.  What does not start a Compose project *)
(* goes to docker as it is.  "compose config" may refuse the Compose files.    *)
Invoke(c) ==
    /\ shim[c].at = "idle"
    /\ Parallel \/ (job[Of(c)] = "running" /\ ~Busy(Of(c)))
    /\ \E argv \in Argv[c] :
         \E place \in IF Blocked(argv, Default(c)) THEN {"refused"}
                      ELSE IF ~Starts(argv) THEN {"exec"}
                      ELSE IF Project(argv, Default(c)) \notin Name THEN {"refused"}
                      ELSE {"ps", "refused"} :
           shim' = [shim EXCEPT ![c].at = place, ![c].argv = argv]
    /\ UNCHANGED <<docker, cleaner>>

(* docker ps *)
ListContainers(c) ==
    /\ shim[c].at = "ps"
    /\ shim' = [shim EXCEPT ![c].at = "inspect", ![c].listed = Present]
    /\ UNCHANGED <<docker, cleaner>>

(* Mutation: the ports are checked for the default project. *)
InspectDefault(c) ==
    /\ shim[c].at = "inspect"
    /\ Goto(c, IF ~(shim[c].listed \subseteq Present) THEN "failed"
               ELSE IF \E p \in shim[c].listed \ {Default(c)} : Bound(p) \cap PortsOf[Of(c)] # {}
                    THEN "refused" ELSE "read")
    /\ UNCHANGED <<docker, cleaner>>

(* docker inspect fails when a container of the list is gone by now; a port of *)
(* another project refuses the command.                                        *)
Inspect(c) ==
    /\ shim[c].at = "inspect"
    /\ Goto(c, IF ~(shim[c].listed \subseteq Present) THEN "failed"
               ELSE IF \E p \in shim[c].listed \ {Effective(c)} : Bound(p) \cap PortsOf[Of(c)] # {}
                    THEN "refused" ELSE "read")
    /\ UNCHANGED <<docker, cleaner>>

(* compose-projects.json is read; the project is in it, or will be appended. *)
Read(c) ==
    /\ shim[c].at = "read"
    /\ shim' = IF torn[Of(c)] THEN [shim EXCEPT ![c].at = "failed"]
               ELSE [shim EXCEPT ![c].at = IF Effective(c) \in recorded[Of(c)]
                                           THEN "exec" ELSE "truncate",
                                 ![c].copy = recorded[Of(c)]]
    /\ UNCHANGED <<docker, cleaner>>

(* write_text opens the file, which empties it ... *)
Truncate(c) ==
    /\ shim[c].at = "truncate"
    /\ Goto(c, "write")
    /\ torn' = [torn EXCEPT ![Of(c)] = TRUE]
    /\ UNCHANGED <<job, recorded, workspace, made, cleaner>>

(* ... and writes it.  What another shim has written since then is written     *)
(* over, and if it was longer its end remains.                                 *)
Write(c) ==
    /\ shim[c].at = "write"
    /\ Goto(c, "exec")
    /\ recorded' = [recorded EXCEPT ![Of(c)] = shim[c].copy \cup {Effective(c)}]
    /\ \E garbled \in IF torn[Of(c)] THEN {FALSE} ELSE BOOLEAN :
         torn' = [torn EXCEPT ![Of(c)] = garbled]
    /\ UNCHANGED <<job, workspace, made, cleaner>>

(* docker runs: containers are made unless a port is taken; or they are        *)
(* removed, by "compose down"; or none is concerned.                           *)
Exec(c) ==
    /\ shim[c].at = "exec"
    /\ Goto(c, "done")
    /\ LET argv == shim[c].argv
           p    == ComposeProject(argv, Default(c))
           free == \A q \in Present \ {p} : Bound(q) \cap PortsOf[Of(c)] = {}
       IN  made' = IF Starts(argv) /\ free THEN [made EXCEPT ![p] = @ \cup {Of(c)}]
                   ELSE IF Text(argv, ActionIndex(argv)) = "down" THEN [made EXCEPT ![p] = {}]
                   ELSE made
    /\ UNCHANGED <<job, recorded, torn, workspace, cleaner>>

(* The signals of a cancellation reach the shim as well as the command. *)
KillShim(c) ==
    /\ c \in Mortal
    /\ shim[c].at \in Working
    /\ Goto(c, "failed")
    /\ UNCHANGED <<docker, cleaner>>

(* The command has ended, and with it the docker commands it waited for. *)
EndJob(j) ==
    /\ job[j] = "running"
    /\ Parallel \/ ~Busy(j)
    /\ job' = [job EXCEPT ![j] = "final"]
    /\ UNCHANGED <<recorded, torn, workspace, made, shim, cleaner>>

-------------------------------------------------------------------------------
(* Cleanup *)

(* The projects to take down. *)
Projects(j) == {Resource[j]} \cup recorded[j]

(* Mutation: the state of the job is not asked for. *)
BeginCleanupEarly(k) ==
    /\ cleaner[k].at = "idle"
    /\ \E j \in Job :
         cleaner' = [cleaner EXCEPT ![k] =
                       [at   |-> IF torn[j] THEN "failed" ELSE "down", job |-> j,
                        left |-> IF workspace[j] THEN Projects(j) ELSE {}]]
    /\ UNCHANGED <<docker, shim>>

(* Only a final job is cleaned, and only one whose file can be read.  Without  *)
(* its worktree nothing is taken down.                                         *)
BeginCleanup(k) ==
    /\ cleaner[k].at = "idle"
    /\ \E j \in Job :
         /\ job[j] # "running"
         /\ cleaner' = [cleaner EXCEPT ![k] =
                          [at   |-> IF torn[j] THEN "failed" ELSE "down", job |-> j,
                           left |-> IF workspace[j] THEN Projects(j) ELSE {}]]
    /\ UNCHANGED <<docker, shim>>

(* compose down: the containers of one project, whoever made them.  Whether it *)
(* succeeds is not looked at.                                                  *)
Down(k) ==
    /\ cleaner[k].at = "down"
    /\ \E p \in cleaner[k].left :
         /\ made' = [made EXCEPT ![p] = {}] \/ (~Reliable /\ UNCHANGED made)
         /\ cleaner' = [cleaner EXCEPT ![k].left = @ \ {p}]
    /\ UNCHANGED <<job, recorded, torn, workspace, shim>>

(* The builder and the worktrees are removed, the primary first. *)
RemoveWorktrees(k) ==
    /\ cleaner[k].at = "down" /\ cleaner[k].left = {}
    /\ workspace' = [workspace EXCEPT ![cleaner[k].job] = FALSE]
    /\ cleaner' = [cleaner EXCEPT ![k].at = "done"]
    /\ job' = [job EXCEPT ![cleaner[k].job] = "cleaned"]
    /\ UNCHANGED <<recorded, torn, made, shim>>

KillCleanup(k) ==
    /\ k \in Mortal
    /\ cleaner[k].at = "down"
    /\ cleaner' = [cleaner EXCEPT ![k].at = "failed"]
    /\ UNCHANGED <<docker, shim>>

-------------------------------------------------------------------------------
ShimStep(c) ==
    \/ Invoke(c) \/ ListContainers(c) \/ Inspect(c) \/ Read(c) \/ Truncate(c)
    \/ Write(c) \/ Exec(c) \/ KillShim(c)

CleanupStep(k) == BeginCleanup(k) \/ Down(k) \/ RemoveWorktrees(k) \/ KillCleanup(k)

Next ==
    \/ \E c \in Shim : ShimStep(c)
    \/ \E k \in Cleanup : CleanupStep(k)
    \/ \E j \in Job : EndJob(j)

Spec == Init /\ [][Next]_vars

-------------------------------------------------------------------------------
(* Properties *)

(* Whatever containers the commands of a job have left behind, a cleanup of    *)
(* that job will take down: they belong to its own project or to one in        *)
(* compose-projects.json, and its worktree is still there for docker compose   *)
(* to be run in.  If the file is no JSON, cleanup says so and removes nothing. *)
CleanupFindsAll ==
    \A p \in Name : \A j \in made[p] :
        job[j] # "running" => /\ workspace[j]
                              /\ torn[j] \/ p \in {Resource[j]} \cup recorded[j]

(* Cleanup never removes containers that a job made whose command is still     *)
(* running: their projects are in no other job's file.                         *)
CleanupSparesRunning ==
    [][\A k \in Cleanup : cleaner'[k] # cleaner[k] =>
         \A p \in Name : \A j \in made[p] \ made'[p] : job[j] # "running"]_vars

(* "Daemon-wide Docker prune and restart operations are rejected" (README.md). *)
DaemonIsSpared ==
    \A c \in Shim : shim[c].at = "exec" => DockerCommand(shim[c].argv) \notin DaemonWide

(* What the policy makes of that: docker prunes more than a job's own only     *)
(* where the policy does not look; no order of flags and values hides from it  *)
(* an operation that it does look for.                                         *)
OnlyOverlookedPrune ==
    \A c \in Shim :
        shim[c].at = "exec" /\ DockerCommand(shim[c].argv) \in DaemonWide
            => Overlooked(shim[c].argv)

(* A Compose command is never refused for the ports of the project it is for: *)
(* the shim reads the same project from the arguments as Compose does.         *)
OwnPortsAllowed ==
    [][\A c \in Shim : shim[c].at = "inspect" /\ shim'[c].at = "refused" =>
         \E p \in Present \ {ComposeProject(shim[c].argv, Default(c))} :
            Bound(p) \cap PortsOf[Of(c)] # {}]_vars
===============================================================================
