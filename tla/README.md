# Verification of remote-worktree-runner

The runner executes commands for a local Git worktree on a shared server: a
local client transfers the worktree, server commands keep a durable record of
each job, a systemd unit runs one worker per job, and a permit pool decides
which workers may run their command. This directory holds TLA+ models of it,
TLC instances and machine-checked proofs. Line numbers in `PROJECT.json` refer to
the files under `src/`.

## Inventory

| part | state | operations | interacts with |
|---|---|---|---|
| job store (`job_store.py`) | a directory per job: `metadata.json`, `command.json`, `status`, `output.log`, `cancel.requested` | `create`, `load`, `status`, `transition`, `finish`, `request_cancel` | every server command and the worker, with no lock |
| permit pool (`scheduler.py`) | tickets in `queue/`, `queue.lock`, `slots/<n>.lock` | `wait`, `release`, `snapshot` | reads the store and asks systemd about units; supersession requests cancellations |
| worker (`job_worker.py`) | one process per job in a transient unit, the command's process group, the lease | `run_job` | pool, store, the submitted command |
| server commands (`server_cli.py`) | one short process each | `reserve`, `start`, `execute`, `worker`, `status`, `logs`, `cancel`, `cleanup`, `doctor`, the docker shim, `workspace-path` | store, pool, systemd, Docker, preview registry |
| preview registry (`preview_registry.py`, `preview.py`) | route files, container networks, one lock | `publish`, `unpublish`, `assert_cleanup_allowed` | Docker, the gateway, the store |
| local client (`local_cli.py`, `transport.py`, `repository.py`) | none durable | `run`, `status`, `logs`, `cancel`, `cleanup` | server commands over SSH, rsync, git push |
| server workspaces (`server_workspace.py`) | bare mirrors and worktrees | `prepare_workspace`, `prepare_job_workspaces` | Git |
| overlay (`overlay.py`) | a manifest of changed files | create, apply | local client, worker workspaces |
| docker and port policy (`docker_policy.py`, `port_policy.py`) | none | decide a docker command, choose a port | docker shim |
| job environment, configuration, paths, installers, gateway assets | settings | parsing and deployment | all |

Hard behaviours: processes that share files without a lock (store), that share
them under advisory locks (pool, registry), that are killed at any point
(worker, SSH sessions), and that trust an answer of systemd or Docker which may
be late. The list of hazards, each at its line and with the property that
covers it, is in `PROJECT.json`.

What makes each part correct:

* store: a final state is true and stays; a record exists only when complete.
* pool: FIFO admission, exclusive jobs alone, no permit or ticket lost or left
  behind, running jobs never superseded, every waiter served.
* worker and commands: `passed` only after exit code zero, final only when the
  command's own process has ended, a worker that runs to its end settles its job, and
  so does a later cancel of what was killed; a cancellation is heeded, `execute` returns.
* preview registry: an active route points to an attached, verified container;
  a failed publish leaves the previous route; cleanup never removes a routed job.
* output: what a job writes reaches who follows it, and neither its worker nor its own
  process writes after its end.
* local client: one run owns a job, its command runs on whole worktrees, exit code
  zero is true.
* overlay: no file arrives in a state it never had during the run, nothing private arrives.
* docker shim: every container a job's commands made can be taken down later, no
  running job loses one, no command is run for the whole daemon past a check that
  looks for it, none is refused for the ports of its own project.

## Modules

* `JobStore` holds the states of a record and the changes `transition()` accepts.
* `FifoPool` is the abstract promise of the pool: a line of weighted jobs.
* `ResourcePool` is the pool itself. A worker is a program counter that follows
  `wait()`: `boot`, `enter`, `wait`, `poll`, `withdraw`, `scan`, `admitted`,
  `releasing`, `exited`. The section under `queue.lock` that writes a ticket is
  one step, since everything it touches is guarded by that lock; the section that
  tries the slots is one step per slot file, since slots are freed by workers that
  do not hold the lock. A ticket is a record of job and stamp; the directory
  sorted by file name is the order of stamps. Stamps count up, as `time_ns()` does.
  `Collides` says whose identifier ends with whose, which is all `_find_ticket` can
  confuse. The rest of the runner is an environment that starts units, kills
  workers, requests cancellations and makes records final.
* `JobLifecycle` instantiates `ResourcePool` and adds `run_job` and the commands
  `reserve`, `start`, `execute` and `cancel`. `transition()` is two steps, check and
  write. An exception that no handler of `run_job` catches, such as a full disk while
  the status is written, ends the worker as a kill does. `command[j]` is the process the
  worker started, which is all that `poll()` and `wait()` see: `running`, `stopping` after a
  signal, and then `ended`, or `left` if what it started in the background still runs. What is
  left ends by itself, or with the unit: systemd stops a unit whose worker is gone
  (`SweepUnit`) and kills what does not stop in time (`KillUnit`).
* `PreviewRegistry` is `publish`, `unpublish` and `cleanup`. A call is a place (`at`) and
  its local variables; the places between `connect` and `detach`, `remove` and `await`
  are inside the section under `preview.lock`, where each Docker call, HTTP check and
  file replacement is a step of its own, since containers and the gateway change
  meanwhile. The twenty polls of `_gateway_status` and `_wait_for_status` are one step
  that ends with any answer the gateway can give then: polls that are repeated change
  nothing. A container is `up` (running and healthy), `down` or `gone`; its
  `alias` is the slot in its alias on the edge network. `seen` is what Traefik has
  loaded, `Reload` its file watcher. A service answers `ok`, `bad` (an HTTP error, or an
  `OSError`) or `garbage` (no HTTP at all, which `http.client` reports by an
  `HTTPException`).
* `LocalRun` extends `JobLifecycle` by `trie-run run` on the developer's machine. A run
  is a place (`local`), the progress of its worktrees on the server (`source`) and the
  server's `prepare-all` for it; the commands it calls are clients of `JobLifecycle`,
  begun when their connection is up. `answer` is how a command ended. A run that loses
  the connection, or is interrupted, goes on by itself at any moment, and the command it
  called then dies or goes on unheard; so a broken connection, Ctrl-C and a refusal are
  the same step of the run (`ReserveFails`, `TransferFails`, `CancelFails`, `Detach`).
  How the worktrees are pushed, made and synchronised is one step per role.
* `LogStream` extends `JobLifecycle` by `output.log` and the loop in which `execute` and
  `logs -f` read it: `written` counts the lines of a log, `shown` is the position and
  output of a follower, `turn` says whether it reads the log next or the status. The
  step `Follow` of `JobLifecycle` is here the last of a loop (`Show`, `Check`).
  Lines are written by the command, by what it left running, or by the worker. `Endless` are
  jobs whose command does not end by itself (as a bound, it then leaves nothing running and
  has not succeeded: `Bounded`), `Obedient` those whose command ends after `SIGINT` or
  `SIGTERM`; `After` orders the commands.
* `DockerShim` is every `docker` call of a job's command, which runs `trie-runner docker`,
  and `cleanup`. An argument list is a sequence of tokens, each with a text and a kind: a
  word, or what kind of flag it is; the flags of docker that have a value are of one of two
  kinds, since the table of the shim (`docker_policy.py:12`) lacks `--tlscacert`, `--tlscert` and
  `--tlskey` (`"unlisted"`). `CommandAt` and `DockerCommand` are docker's own reading. `Skip`, `Project`, `ActionIndex`
  and `Starts` translate the loops of the two policy files; `ComposeProject` is how Compose
  itself reads a project. A shim goes through `ps`, `inspect`, `read`, `truncate`, `write`
  and `exec`, since the containers and `compose-projects.json` may change between any two;
  `torn` is that file between truncation and writing, or with the rest of a longer list
  behind it. `made[p]` are the jobs whose containers project `p` has. `cleanup` takes down
  one project per step, then removes the worktrees.
* `Overlay` is one transfer. A tree maps paths to contents; `HEAD`, index and worktree are
  three trees, and Git's answers (`Deleted`, `Added`, `Modified`, `Others`) are operators
  on them, each asked in a step of its own while `Work`, the developer, goes on. `rule`
  says whether a path is excluded, ignored, or a file named like an excluded directory.
  Renames pair any deleted with any added path. Protocol 2 applies the deletions and
  copies a list, protocol 1 copies the tree.
* `MCResourcePool`, `MCJobLifecycle`, `MCPreviewRegistry`, `MCLocalRun`, `MCLogStream`,
  `MCDockerShim`, `MCOverlay` give the constants values; each `.cfg` is a run.
* `ResourcePool_proofs`, `JobLifecycle_proofs`, `LogStream_proofs`, `LocalRun_proofs`,
  `PreviewRegistry_proofs`, `PreviewCommit_proofs`, `DockerShim_proofs` and
  `Overlay_proofs` hold the theorems.

Definitions whose comment starts with "Mutation" are variants of the definition
below them with one plausible bug; they are used by no specification, only to
confirm that each property can fail.

## Runs

| run | question | bounds |
|---|---|---|
| `pool_safety` | Do permits and tickets stay in order, and does the pool implement the abstract line `FifoPool`, with crashes, cancellations, foreign final states, inconclusive probes and a second start at any step? | 3 jobs (heavy, exclusive, heavy again in the session of the first), 2 permits; the first is started a second time only while fewer than `MaxStamp` = 2 tickets were written |
| `pool_liveness` | Is every waiter served in the end, and do permits keep their owners, while the installer changes the capacity? | a heavy and an exclusive job, capacities 1 and 2 |
| `job_safety` | Are final states true and final, does every worker settle its job, does a later `cancel` settle what was killed, is the pool used only as `ResourcePool` allows? | 2 jobs, 3 commands, each begun when those before have ended or only follow (`Serial`); the workers and the first two commands are mortal |
| `log_follow` | Does a cancellation end its worker, does the follower return, is all it should print printed, and what is written after the end only by what the command left running? | an exclusive, obedient job with one line of output reserved, executed and cancelled; a heavy one that may hold the permit for ever, ignore its signals, and be cancelled too; commands begin as in `job_safety`; the cancellers may be killed |
| `preview_safety` | Do routed containers stay attached, and does only the owner empty a slot, under every failure? | 3 calls, each anything, for 2 slots, 2 containers, 2 jobs |
| `preview_commit` | Does a failed call leave slot and network as they were, does every call return? | 3 calls, no kills, containers that stay |
| `docker_safety` | Does cleanup find every container of a job that is over and spare those of running jobs, is no prune let through that the policy looks for, are a project's own ports allowed? | 2 jobs that publish one port, 3 shims with 10 argument lists, 2 cleanups, everything mortal |
| `overlay_safety` | Does each file arrive in a state it had during the run, and nothing private? | 2 files of any kind with any commit, index and worktree over 2 contents, both protocols, 2 changes meanwhile |
| `local_safety` | Does one run own a job, does its command see whole worktrees, is a confirmed withdrawal final, is exit code zero true, although connections break and processes die at any step? | 2 runs naming one job, 2 worktrees, a `cancel` from elsewhere; the commands run at the same time |

The bounds are the smallest in which each hazard occurs: three jobs are needed
for a supersession across a foreign ticket, two permits for a partly taken
exclusive request, two slots and two containers for a shared container and for a
handoff, a third call for one that waits behind another, two runs of one identifier for a
repeated submission, two roles for a transfer that stops between them, one line of output
for a log that grows between two reads, two shims of a job for a list that is extended
twice, two files for a rename. Jobs beyond the third only
lengthen the queue, and the theorems cover any number. In
`job_safety` and `log_follow` a command begins only when those before have ended or
only follow a log (`Serial`), because the store has no lock, and two commands at once do
break it (`job_race`). A follower only reads, so `execute` may be cancelled while it
follows.

Runs that are expected to find a violation show where the program departs from
its own documents; each is a finding of `PROJECT.json`:

| run | what it shows |
|---|---|
| `job_race` | `start` and `cancel` of one job at the same time: `queued` is written over `cancelled` |
| `log_tail` | a follower that reads the log before the command's last line and the status after its end returns without printing that line |
| `overlay_lookalike` | a file that is named like an excluded directory (`scripts/build`) is modified, and the command runs on the committed content |

### Deviations without a run

The same models exhibit these, with the constants in brackets; a property that
excludes them is not listed for any run.

* `scheduler.py:319` An exclusive worker asks for the capacity it was started with; after
  the installer raised it, a heavy job runs beside it
  [`ExclusiveAlone`, `Capacities = {1, 2}`].
* `scheduler.py:198` `_find_ticket` compares the end of file names: a job `b` takes the
  ticket of a job `a-b` for its own and waits for ever
  [`EveryWaiterServed`, `Collides = {<<a, b>>}`].
* `server_cli.py:202` A killed worker leaves its job `queued` or `running`, and `execute` and
  `logs -f` follow it for ever [`FollowerReturns` without `phase = "over"`].
* `preview_registry.py:403` The success of the replaced container, which the gateway still
  serves, commits the new route [`HandoffVerified`].
* `server_cli.py:595` A publish between the check of `cleanup` and its work: the containers of a
  routed job are taken down [`CleanupSparesPreviews`].
* `server_cli.py:602` Jobs that choose the same project name share its containers, and the
  cleanup of one takes down those of the other, which may be running
  [`CleanupSparesRunning`, both jobs with `UpIn("x")`].
* `server_cli.py:384` Two docker commands of a job at once read and extend the same list, and one
  project is lost [`CleanupFindsAll`, `Parallel = TRUE`].
* `server_cli.py:393` A shim that is killed between truncating and writing
  `compose-projects.json` leaves no JSON: every later `docker compose` of the job and its
  cleanup fail [`torn` in `docker_safety`].
* `server_cli.py:614` `compose down` runs with `check=False`, and the worktrees are removed
  whatever it says: its containers cannot be found again
  [`CleanupFindsAll`, `Reliable = FALSE`].
* `port_policy.py:80` The project flag is looked for in all arguments, so
  `compose run -p 8080:80 web` is read as a project `8080:80` and refused
  (`RunPublished`); of two `-p` the shim takes the first, Compose the last
  [`OwnPortsAllowed`, `CleanupFindsAll`]. `COMPOSE_PROJECT_NAME`, and containers that
  `compose create` or `restart` make, are not recorded; both are not modelled.
* `overlay.py:121`, `repository.py:62` A `git add` between the two questions moves a file from
  the untracked to the changed ones, and neither answer has it [`NothingStale`, `"stage" \in
  During`]; a `git commit` after `rev-parse` makes the differences those to another commit
  [`NothingStale`, `"commit" \in During`].
* `local_cli.py:213` `reserve` is called outside the `try` block: a run that is interrupted there, or misses
  the answer, ends without a cancel and may leave a `preparing` job, while `main`
  (`local_cli.py:413`) prints that a cancellation was requested. The identifier is taken
  from then on [`LocalRun`: `local = "unreserved"` with `status = "preparing"`].
* `local_cli.py:257` A missing answer to `execute` is reported as "job continues on server", also when
  the connection never came up and the job stays `preparing`, or when `systemd-run`
  failed and it is `cancelled` [`LocalRun`: `local = "detached"` with these states].
* `job_worker.py:132` A command that handles `SIGINT` and exits with 0 makes a cancelled job with
  exit code 0, which `execute` and the local run return
  [`LocalRun`: `local = "zero"` with `status = "cancelled"`].
* `server_cli.py:72` `cancel` may probe the unit between `start`'s `queued` and its `systemd-run`,
  finalise the job, and the worker then queues for a job that is over
  [`NoOrphanWaiter`, `Serial = FALSE`].
* `job_worker.py:114` The permits of a killed worker are free at once, its command lives until systemd
  has stopped the unit; an exclusive command may start beside it.
* `job_worker.py:126`, `job_worker.py:147` The worker waits for the process it started only. What
  that process has left in the background may run, and write to `output.log`, after the final
  status and after the permits were released (`job_worker.py:151`), until systemd has stopped the
  unit; a follower has returned by then, and a cleanup may already remove the worktree
  [`command = "left"` with a final status; `FinalLogIsWhole` without `command = "left"`].
* `job_worker.py:128-133` The worker sends `SIGINT`, after 20 seconds `SIGTERM`, and then waits without
  a limit. A command that ignores both keeps its worker and its permits. A canceller that lives
  has systemd stop the unit, and systemd kills what remains; if the canceller was killed, the job
  stays so until somebody cancels it again [`CancelHeeded` without `Deserted`].
* `docker_policy.py:12-20` A value of a docker flag that is missing in the table is taken for the
  command, so `--tlskey k system prune` is run [`DaemonIsSpared`, `PruneWithKey`].
* `docker_policy.py:57-68` `container prune`, `network prune`, `image prune -af` and `buildx
  --builder other prune` are not looked for, although `README.md:229` says that daemon-wide prune is rejected
  [`DaemonIsSpared`, `PruneNetworks`, `PruneImages`; the last is not in the model].
* `preview_registry.py:430` A service that itself answers 404 on its check path is taken for the route
  being gone: `unpublish` detaches the container while the gateway still has the route.
* `preview_registry.py:414` Docker refuses to disconnect a container that was removed, so a committed
  publish is reported as failed [`FailedKeepsSlot`, `Ends = {"gone"}`].
* `preview_registry.py:406` An `HTTPException` of a check passes the rollback: the candidate stays
  attached [`OnlyRoutedAttached`, `Faults = {"garbage"}`]; so does one that stops between
  `network connect` and its inspection [`Ends = {"down"}`].

## Fairness

`ResourcePool` (`FairSpec`): a live worker goes on (weak fairness of its steps, among
them `Conclude`: its command ends), and systemd collects its unit (`Reap`).
`Enter`, `Withdraw` and `Poll` need `queue.lock`, which is free again and again but not
always, and `flock` wakes waiters in turn: strong fairness. Of `Enter` and `Poll` it is asked with the
answer (`Inactive`) in which `systemctl` confirms what is inactive, since an answer that never comes
would excuse a stale ticket for ever. Nobody is obliged to start, crash or cancel.

`LogStream` (`StreamFairSpec`): of all workers, units, server commands and commands that were sent a
signal, one that can go on does (`GoOn`), `AskPool` is strongly fair as above, and a follower goes on
with its loop. This is enough because each of them has finitely many steps before it ends or
waits; the followers' loop is the only one that repeats. A command need not end by itself. That
it ends after `SIGINT` or `SIGTERM` is assumed of `Obedient` jobs only, since the worker sends nothing
stronger; that systemd kills what is left in a unit it stops is `KillUnit`. `CancelHeeded` says
what is left to a command that ignores its signals: its worker is `Deserted` if the canceller is gone.

`PreviewRegistry`: a call in its section goes on, since all its polls are counted
and its HTTP requests have time limits; its docker commands have none, and that they return is an
assumption about Docker. A call waiting for the lock gets it
when it is free again and again. Gateway and containers are under no obligation.

## Proofs

All theorems hold for every value of the constants that satisfies the named
assumptions, and are checked by TLAPS to the last leaf.

`ResourcePool_proofs`. `PermitInv` says where permits are: a worker tries the slots
exactly while it holds `queue.lock` (`ScannerHasLock`), a taken slot has a file and a
worker that scans, is admitted or releases (`PermitHasOwner`), and an admitted worker
holds exactly what it asked for (`LeaseComplete`); the other parts bound the slot files
and the capacities workers have read. Exclusiveness alone is not inductive, since a
worker is admitted one slot at a time: the invariant has to speak of partial holders.
From it follow `PermitsOwned` (with any capacities) and `ExclusiveRunsAlone` (with one
configured capacity, without which it is false, see above). `TicketInv` says who has a
ticket: only jobs that queue, one each (`OneTicketEach`), nobody with a lease
(`HolderHasNoTicket`), every waiter that has no reason to go (`NoLostTicket`), one per
session; and a running worker is inside its unit, so that no prune takes its ticket.
It gives `TicketsOwned` and `RunningIsNotSuperseded`; they assume `Collides = {}`, that is, no identifier ends
with `-` and another, without which they are false (see above). TLC checks both
invariants in `pool_safety`, and `PermitInv` with two capacities in `pool_liveness`.

`PoolIsFifo`, in the same module, is the refinement: with one capacity and `Collides = {}`,
each step of the pool is one of `FifoPool` or leaves its line and its admitted jobs alone. A
ticket may join only at the end of the line and only its head be admitted, so `LineInv` adds
to the two invariants that the stamps of tickets differ and lie in the past
(`StampsDiffer`), that whoever tries the slots is still the head (`ScannerIsHead`), and that
a worker withdraws only when cancelled. That the admitted weights fit is counted: admitted
jobs hold different slots (`ActiveFits`).

`PreviewRegistry_proofs`. `RoutedIsAttached` is not inductive: a rollback writes the old
route back, whose container must still be attached then. The invariant `Inv` adds who
may be inside the lock (`Placed`), what a call knows about the route file of its slot
(`Informed`), and that the old route's container and, until it is written, the
candidate's are attached (`Prepared`). Every step but the last of a call is
`Harmless`: a container that still exists keeps its alias; the last detaches a
container that no route names. `RoutedStayAttached` and `SlotsAreKept` follow, with kills
at any step, any answers, and any removal of containers.

`PreviewCommit_proofs` builds on it. A failed call leaves its slot alone because it fails before
it writes a route or after it has put the old one back, or because what it should detach is
not attached, which must not happen: `CommitInv` adds to `Inv` that a rollback has restored
the route (`Settled`) and that what is to be detached is attached and exists. `FailureKeepsSlot`
assumes `Steady`: no container is removed, no answer is "garbage", no job is cleaned up; the first
two are needed (see the deviations above). `OnlyRoutedStayAttached` assumes `Calm`: also that
containers stay up and calls are not killed. In `CalmInv`, each attached container is routed or
the call at work still has to route or detach it (`Accounted`); that a rollback may leave a
container it did not attach needs that some route names it also after the rollback
(`Kept`), which is why the invariant is about all slots.

`DockerShim_proofs`. That cleanup finds all containers is not inductive: a shim that is about
to run docker has recorded its project, and must not be overtaken. `ShimInv` says that a
job whose shim works is running and its worktree there, that a shim before `write` knows
the whole list (`copy` equals what is recorded), that a shim at `exec` finds its project in
it, and that a cleanup has still to take down every project of its job that has
containers. `NoContainerIsLost` follows under three assumptions that the deviations
above show to be needed: one docker command at a time (`~Parallel`), `compose down` succeeds
(`Reliable`), and the shim reads the project as Compose does (`ReadsAlike`, which holds
where the project is named once at most, before the Compose operation: `ReadOnce`).
The other theorems allow several docker commands at once. `ShimsTyped` assumes nothing: besides
the types, a shim that works has arguments which pass the checks (`ShimsInvoked`).
`RunningIsSpared` adds that projects are recorded, made and taken down only for jobs that use them
(`OwnInv`); it assumes `ReadsAlike` and that no two jobs use one project (`NamesApart`), without
which it is false. `OwnPortsAreAllowed` assumes `ReadsAlike`. `PrunesAreOverlooked`
is about the two readers of a command line, the shim's `Skip` and docker's own (`CommandAt`): for
argument lists of any length both find the same command, unless a flag stands in them that the
shim's table lacks, if what follows a listed flag with a value does not itself look like a flag
(`ValuesAreWords`). So whatever prunes more than a job's own and passes is named by `Overlooked`:
such a flag, `container prune`, `network prune`, or `image prune` without `-a` or `--all` as a
token of its own. The proof is an induction over the list, which
the provers cannot take as such; it is told by the least index at which the claim fails
(`LeastElement`, `SkipEquation`, `SkipFinds`). TLC was used to confirm that the instance of
`docker_safety` satisfies `ReadsAlike`, `NamesApart` and `ValuesAreWords`.

`Overlay_proofs`. The outcome of a path without the copy is the committed content, or its
absence if it is in the list of deletions. `OverlayInv` says that after the three answers each
path that is neither ignored nor excluded is in the list to copy, or its outcome is among
the contents it has had since the run began (`Found`); between the second and the third
answer it may also be an untracked file, which the third will list (`Diffed`); and that the lists
hold nothing private (`Public`). From it follow
`TransferIsFresh` and `TransferIsDiscreet`; they assume that nobody stages or commits
during the run (`Leisurely`) and that no file is named like an excluded directory
(`Unambiguous`), without which `overlay_lookalike` refutes the first.

`JobLifecycle_proofs`. `ControlInv` ties the phases of `run_job` to the places of the worker in
the pool and to its unit, and holds for any commands at once. `PassedMeansExitZero` is not
inductive: `Passed` adds that `toPassed` is reached only after exit code zero, and that a
passed job has no worker that is about to start its command again, in particular none
whose check for `running` was made before. `PassedIsTrue` follows without further
assumptions. Nor do `RunnerTyped`, `RunnerKeepsPermits` and
`ExclusiveJobsWorkAlone` limit the commands. The others assume `Serial`, since the store has no
lock and `job_race` refutes `FinalStays` without it; commands that follow a log may run beside
others. `SerialInv` says which status a job has in each phase of its
worker (`Recorded`), that a command runs only for a `running` job in a unit that is not
inactive, and what it leaves behind only in such a unit (`Commanded`), and what the one server command at work knows (`ClientsKnow`):
what it read of the status is still so when it writes, and who calls a job gone has
seen its unit inactive and nobody starts it meanwhile. From it follow `FinalStays`,
`FinalIsStopped` (the process started for a final job has ended), `WorkersSettle`, `NoWaiterIsOrphaned`, and `PoolIsUsed`: the runner implements
`ResourcePool`, whose environment it replaces. `CancelsSettle` adds only the places a
cancel comes to (`CancelsGo`), since the rest is what `ClientsKnow` says of it: whatever a killed
start, worker or cancel left behind, a cancel that nobody kills leaves the job final or has
killed its worker.

What is proved of the pool is then carried over by instantiating the theorems
(`Permits == INSTANCE ResourcePool_proofs`). With `Serial` this is `PoolIsUsed` and the theorem of
the pool: `RunnerKeepsTickets` and `RunnerIsFifo`, which inherit the assumptions on
`Collides` and `Capacities`. Without it the runner is no `ResourcePool` (a start and a
cancellation that race make final a job whose worker still waits), but each step still keeps
`PermitInv`, since the invariant does not depend on what the store says: `RunnerKeepsPermits`.
With one capacity, `ExclusiveJobsWorkAlone` concludes from it what `run_job` relies on: while the
worker of an exclusive job sets up, runs or settles its command (`AtWork`), no other heavy or
exclusive worker does. It speaks of workers: the command of a killed one outlives its
permits until systemd stops the unit (see above).

`LogStream_proofs`. `StreamIsLifecycle`: the loop refines the runner, step by step, so all
of the above holds of followers. `FinalLogStays` (with `Serial`): the worker and the process
it started write while the job is not final, by `SerialInv`; only what that process left
running may write a line after the end.

`LocalRun_proofs`. `LocalUsesServer`: local runs are one more user of `JobLifecycle`, so its
theorems hold under them, with their assumptions; `LocalTyped` are the types of both sides.
`mkdir` of a job's directory lets one `reserve` through: `RunInv` says that a run which made the directory or was told so (`Won`) is the only one of its job, that the
directory stays, and that a run goes on with a good answer only; `OneRunReserves` follows for any
runs and any other commands at once. The other theorems assume `OnlyCancels`: other
terminals cancel jobs and read logs, as the local client's commands do. `ExecutionInv` adds
the places a command comes to (`InPlace`), that a worker was started by the `execute` command of
a run that is past its transfer (`WorkerHasRun`), whose worktrees are whole and which nobody
prepares again (`Transferred`), and that a command is started once, since its unit is launched
once (`SpawnedOnce`). It gives `CommandsSeeWorktrees` and, with `Passed`, `ZeroIsSuccess`.
`WithdrawnStaysOver` needs what a cancelling run cannot see: that no other command is about to fill
the directory or to start the job, so that its status is `preparing` or `cancelled` at most
(`Quiet`) and a good answer of the cancel command means a final state (`CancelBelieved`).

Only model-checked: all liveness (`EveryWaiterServed`, `CancelHeeded`, `FollowerReturns`,
`OutputArrives`, `EveryCallReturns`), which TLAPS does not reach together with fairness. Every
invariant, action property and refinement of the passing runs is a theorem.

## What the models leave out

* Text: log contents, messages, JSON layout, the bytes of a route file. Malformed files, which
  all readers refuse, do not occur.
* The wall clock stepping back: stamps of tickets grow.
* Exceptions that nobody catches, such as a full disk, are kills (`Crash`), since both end
  a process where it stands and release its locks. `PreviewRegistry` has no failing disk.
* A container that its own Compose file puts on the edge network (`publish` refuses
  it), and slots that are configured anew while routes exist (all calls refuse then).
* In `PreviewRegistry`, which job has a container is the constant `Owner`; how containers
  come to be a job's is `DockerShim`.
* In `Overlay`: directories that become files, symbolic links, submodules (which the code
  refuses), and rsync's comparison by size and time.
* In `DockerShim`: protocols and addresses of ports, containers that were created but could not
  bind, variables that change how docker reads its arguments, buildx.
* The order of characters on the stream of `LogStream`, and `logs` without `-f`.
* `HeavyJobLease`, which no command uses.
* The local client's control flow for protocol 1: this server announces 2 (`Overlay` has both).

Not modelled at all:

* mirrors and the Git metadata that concurrent jobs share (`server_workspace.py`): Git's own
  locks decide what happens, which the repository does not state;
* `doctor`, `status` beyond its pruning, `workspace-path`: they read and print;
* environment construction and buildx calls, settings, paths, installers and gateway
  assets: parsing and deployment without state that another part changes.

## Plan

Done, in this order: `JobStore`, `FifoPool`, `ResourcePool` (with proofs), `JobLifecycle`
over it, `PreviewRegistry` (with proofs), `LocalRun` over `JobLifecycle`, `LogStream` over
`JobLifecycle`, `DockerShim` (with proofs), `Overlay` (with proofs), proofs about `JobLifecycle`
and `LocalRun`, and about how preview calls end, the refinement of `FifoPool` and its transfer to
the runner, the remaining safety properties of `DockerShim` and `LogStream`. Left:

1. `LocalRun`: the fallback to protocol 1 (`start`, `logs -f`, `status`).
2. Cleanup as one transaction over `DockerShim` and `PreviewRegistry`.
3. Proofs: conditions on argument lists that imply `NamesApart`, as `ReadOnce` does for
   `ReadsAlike`; what of `SerialInv` survives a race of `start` and `cancel`.
