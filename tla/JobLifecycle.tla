----------------------------- MODULE JobLifecycle -----------------------------
(* A job from its reservation to its final state.  Clients are the server      *)
(* commands reserve, start, execute, logs and cancel (server_cli.py), each a   *)
(* process of its own; a worker is run_job (job_worker.py) inside the job's systemd    *)
(* unit; both change the job's status file (job_store.py) and meet in the      *)
(* permit pool (ResourcePool).  transition() reads the status, checks it and   *)
(* replaces the file without a lock, so check and write are two steps here.    *)
EXTENDS JobStore, FiniteSets, Naturals

CONSTANTS Job, Weight, Session, NoSession, NoOne, Collides,
          MaxCapacity, Capacities, Restartable, MaxStamp

CONSTANTS
    Client,  \* server commands that are ever run, each once (a bound)
    Ops,     \* Ops[c]: the <<command, job>> pairs c may be run for
    Serial,  \* whether a command starts only when those before have ended or only follow
    Mortal   \* the workers (by job) and commands that may be killed at any step

ASSUME PoolAssumption ==  \* what ResourcePool assumes of its constants
    /\ NoOne \notin Job
    /\ Weight \in [Job -> {"light", "heavy", "exclusive"}]
    /\ MaxCapacity \in Nat \ {0} /\ Capacities \subseteq 1..MaxCapacity
    /\ Collides \subseteq Job \X Job
ASSUME OpsAssumption ==
    Ops \in [Client -> SUBSET ({"reserve", "start", "execute", "logs", "cancel"} \X Job)]
ASSUME SerialAssumption == Serial \in BOOLEAN
ASSUME ClientAssumption == Client \cap Job = {}
ASSUME MortalAssumption == Mortal \subseteq Job \cup Client

VARIABLES queue, clock, queueLock, slots, slotFiles, installed, capacity, pc,
          untried, cancelled, live   \* the pool's, see ResourcePool

VARIABLES
    status,   \* status[j]: the state in the status file, or its absence
    phase,    \* phase[j]: where run_job is while the pool is not asked
    command,  \* command[j]: the command's own process, and what it leaves running
    result,   \* result[j]: how that process ended last
    checked,  \* checked[p]: p is inside transition(), between check and write
    client    \* client[c]: the command c was run for, and where it is

poolState == <<queue, clock, queueLock, slots, slotFiles, installed, capacity, pc,
               untried, cancelled, live>>
vars == <<poolState, status, phase, command, result, checked, client>>

Finished == {j \in Job : status[j] \in FinalStates}

Pool == INSTANCE ResourcePool WITH final <- Finished

-------------------------------------------------------------------------------
(* Phases of a worker and places of a client.  "to..." is inside transition(). *)

Target == [toRunning |-> "running", toPassed |-> "passed", toFailed |-> "failed",
           toCancelled |-> "cancelled", toQueued |-> "queued", toRejected |-> "failed",
           toAborted |-> "cancelled", toGone |-> "cancelled"]

Writing == {"toRunning", "toPassed", "toFailed", "toCancelled"}
Phase == {"-", "setup", "setupFailed", "spawn", "watch", "interrupt", "over"} \cup Writing

At == {"idle", "lookup", "decide", "mkdir", "fill", "admit", "launch", "look", "probe",
       "reconcile", "flag", "await", "reprobe", "kill", "follow", "done",
       "toQueued", "toRejected", "toAborted", "toCancelled", "toGone"}

(* The submitted command: "stopping" once a signal was sent to its group.  Its *)
(* own process has ended in the last two, and has "left" others of its group   *)
(* running in the first of them: poll() and wait() do not see those.           *)
Exited == {"left", "ended"}
CommandState == {"none", "running", "stopping"} \cup Exited

(* Where a command does nothing, or only reads what there is to stream.        *)
Resting == {"idle", "follow", "done"}

NoOp == <<"none", NoOne>>

TypeOK ==
    /\ Pool!TypeOK
    /\ status \in [Job -> States]
    /\ phase \in [Job -> Phase]
    /\ command \in [Job -> CommandState]
    /\ result \in [Job -> {"none", "zero", "nonzero"}]
    /\ checked \in [Job \cup Client -> BOOLEAN]
    /\ client \in [Client -> [op : (UNION {Ops[c] : c \in Client}) \cup {NoOp}, at : At]]

Init ==
    /\ queue = {} /\ clock = 0 /\ queueLock = NoOne
    /\ slots = [s \in Pool!Slot |-> NoOne] /\ slotFiles = 0
    /\ installed \in Capacities /\ capacity = [j \in Job |-> 0]
    /\ pc = [j \in Job |-> "off"] /\ untried = [j \in Job |-> {}]
    /\ cancelled = {} /\ live = {}
    /\ status = [j \in Job |-> "absent"]
    /\ phase = [j \in Job |-> "-"]
    /\ command = [j \in Job |-> "none"]
    /\ result = [j \in Job |-> "none"]
    /\ checked = [p \in Job \cup Client |-> FALSE]
    /\ client = [c \in Client |-> [op |-> NoOp, at |-> "idle"]]

-------------------------------------------------------------------------------
(* The worker: run_job *)

Phased(j, p) == phase' = [phase EXCEPT ![j] = p]

(* Mutation: SchedulerCancelled is not recorded. *)
AfterPoolSilent(j, place) ==
    CASE place = "admitted"  -> "setup"
      [] place = "releasing" -> "over"
      [] OTHER               -> phase[j]

(* Where run_job goes on when wait() comes back with a lease, or raises        *)
(* SchedulerCancelled.                                                         *)
AfterPool(j, place) ==
    CASE place = "admitted"  -> "setup"
      [] place = "releasing" -> "toCancelled"
      [] OTHER               -> phase[j]

(* pool.wait(). *)
AskPool(j) ==
    /\ UNCHANGED <<status, command, result, checked, client>>
    /\ Pool!OpenPool(j) \/ Pool!Waiting(j)
    /\ Phased(j, AfterPool(j, pc'[j]))

(* Environment and builder are ready, or an exception is caught and logged. *)
SetUp(j) ==
    /\ phase[j] = "setup"
    /\ Phased(j, "toRunning") \/ Phased(j, "setupFailed")
    /\ UNCHANGED <<poolState, status, command, result, checked, client>>

(* After a failed setup a job that is final already is left alone. *)
SetUpFailed(j) ==
    /\ phase[j] = "setupFailed"
    /\ Phased(j, IF j \in Finished THEN "over" ELSE "toFailed")
    /\ UNCHANGED <<poolState, status, command, result, checked, client>>

(* transition(), first half: read the status and check the change; a refused   *)
(* change is an exception that ends run_job through its finally clause.        *)
CheckChange(j) ==
    /\ phase[j] \in Writing /\ ~checked[j]
    /\ IF Allowed(status[j], Target[phase[j]])
       THEN checked' = [checked EXCEPT ![j] = TRUE] /\ UNCHANGED phase
       ELSE Phased(j, "over") /\ UNCHANGED checked
    /\ UNCHANGED <<poolState, status, command, result, client>>

(* transition(), second half: replace the status file. *)
WriteChange(j) ==
    /\ phase[j] \in Writing /\ checked[j]
    /\ status' = [status EXCEPT ![j] = Target[phase[j]]]
    /\ checked' = [checked EXCEPT ![j] = FALSE]
    /\ Phased(j, IF phase[j] = "toRunning" THEN "spawn" ELSE "over")
    /\ UNCHANGED <<poolState, command, result, client>>

(* Popen starts the command in a session of its own, or fails: finish(127). *)
Spawn(j) ==
    /\ phase[j] = "spawn"
    /\ \/ /\ Phased(j, "watch")
          /\ command' = [command EXCEPT ![j] = "running"]
       \/ Phased(j, "toFailed") /\ UNCHANGED command
    /\ UNCHANGED <<poolState, status, result, checked, client>>

(* Mutation: every exit code is a success. *)
VerdictPassed(code) == "toPassed"

(* finish(): which change an exit code asks for. *)
Verdict(code) == IF code = "zero" THEN "toPassed" ELSE "toFailed"

(* Mutation: a cancellation of a running command goes unseen. *)
WatchDeaf(j) ==
    /\ phase[j] = "watch" /\ command[j] \in Exited
    /\ Phased(j, Verdict(result[j]))
    /\ UNCHANGED <<poolState, status, command, result, checked, client>>

(* One turn of the watch loop: the command's own process has ended, or its     *)
(* group is interrupted for a cancellation or for disk pressure.               *)
Watch(j) ==
    /\ phase[j] = "watch"
    /\ IF command[j] \in Exited
       THEN Phased(j, Verdict(result[j])) /\ UNCHANGED command
       ELSE Phased(j, "interrupt") /\ command' = [command EXCEPT ![j] = "stopping"]
    /\ UNCHANGED <<poolState, status, result, checked, client>>

(* Mutation: the cancellation is recorded without waiting for the command. *)
InterruptedAtOnce(j) ==
    /\ phase[j] = "interrupt"
    /\ Phased(j, "toCancelled")
    /\ UNCHANGED <<poolState, status, command, result, checked, client>>

(* SIGINT to the group, SIGTERM after 20 s, and wait() without a limit until   *)
(* the command's own process has ended.                                        *)
Interrupted(j) ==
    /\ phase[j] = "interrupt" /\ command[j] \in Exited
    /\ Phased(j, "toCancelled")
    /\ UNCHANGED <<poolState, status, command, result, checked, client>>

(* lease.release() in the finally clause, and the end of the process. *)
LeavePool(j) ==
    /\ phase[j] = "over"
    /\ UNCHANGED <<status, phase, command, result, checked, client>>
    /\ Pool!Conclude(j) \/ Pool!Release(j) \/ Pool!Exit(j)

Worker(j) ==
    \/ AskPool(j) \/ SetUp(j) \/ SetUpFailed(j) \/ CheckChange(j) \/ WriteChange(j)
    \/ Spawn(j) \/ Watch(j) \/ Interrupted(j) \/ LeavePool(j)

-------------------------------------------------------------------------------
(* The submitted command and the unit around it *)

(* The command's own process ends, with an exit code of its own; what it has   *)
(* started in the background may run on.                                       *)
Ended(j) ==
    /\ \E e \in Exited : command' = [command EXCEPT ![j] = e]
    /\ \E r \in {"zero", "nonzero"} : result' = [result EXCEPT ![j] = r]
    /\ UNCHANGED <<poolState, status, phase, checked, client>>

EndCommand(j) == command[j] = "running" /\ Ended(j)

(* Not promised: a command may ignore SIGINT and SIGTERM. *)
ObeySignal(j) == command[j] = "stopping" /\ Ended(j)

(* What the command has left running ends too. *)
LeftEnds(j) ==
    /\ command[j] = "left"
    /\ command' = [command EXCEPT ![j] = "ended"]
    /\ UNCHANGED <<poolState, status, phase, result, checked, client>>

(* The worker is killed with its command left behind. *)
Crash(j) ==
    /\ j \in Mortal
    /\ UNCHANGED <<status, command, result, client>>
    /\ Pool!Crash(j)
    /\ Phased(j, "-")
    /\ checked' = [checked EXCEPT ![j] = FALSE]

(* systemd stops what is left in the unit of a worker that is gone, kills what *)
(* does not stop in time, and calls the unit inactive only when nothing is     *)
(* left.                                                                       *)
SweepUnit(j) ==
    /\ pc[j] = "exited" /\ command[j] = "running"
    /\ command' = [command EXCEPT ![j] = "stopping"]
    /\ UNCHANGED <<poolState, status, phase, result, checked, client>>

KillUnit(j) ==
    /\ pc[j] = "exited" /\ command[j] \in {"stopping", "left"}
    /\ command' = [command EXCEPT ![j] = "ended"]
    /\ result' = IF command[j] = "stopping" THEN [result EXCEPT ![j] = "nonzero"] ELSE result
    /\ UNCHANGED <<poolState, status, phase, checked, client>>

CollectUnit(j) ==
    /\ command[j] \in {"none", "ended"}
    /\ UNCHANGED <<status, phase, command, result, checked, client>>
    /\ Pool!Reap(j)

-------------------------------------------------------------------------------
(* Clients: one server command each *)

JobOf(c) == client[c].op[2]
Goes(c, p) == client' = [client EXCEPT ![c].at = p]

(* A command of c at place p that changes no file and no process. *)
Reads(c, p) ==
    client[c].at = p /\ UNCHANGED <<poolState, status, phase, command, result, checked>>

Begin(c) ==
    /\ client[c].at = "idle"
    /\ Serial => \A d \in Client : client[d].at \in Resting
    /\ \E op \in Ops[c] :
         client' = [client EXCEPT ![c] =
             [op |-> op,
              at |-> CASE op[1] = "reserve" -> "mkdir"
                       [] op[1] = "start"   -> "decide"
                       [] op[1] \in {"execute", "logs"} -> "lookup"
                       [] op[1] = "cancel"  -> "look"]]
    /\ UNCHANGED <<poolState, status, phase, command, result, checked>>

(* The process of a client dies wherever it is. *)
Drop(c) ==
    /\ c \in Mortal /\ client[c].at \notin {"idle", "done"}
    /\ Goes(c, "done")
    /\ checked' = [checked EXCEPT ![c] = FALSE]
    /\ UNCHANGED <<poolState, status, phase, command, result>>

(* Mutation: a directory that is there already is taken over. *)
MakeOrTake(c) ==
    /\ client[c].at = "mkdir"
    /\ status' = [status EXCEPT ![JobOf(c)] = "partial"]
    /\ Goes(c, "fill")
    /\ UNCHANGED <<poolState, phase, command, result, checked>>

(* create(): a directory that is there already is an error. *)
MakeDirectory(c) ==
    LET j == JobOf(c)
    IN /\ client[c].at = "mkdir"
       /\ IF status[j] = "absent"
          THEN status' = [status EXCEPT ![j] = "partial"] /\ Goes(c, "fill")
          ELSE Goes(c, "done") /\ UNCHANGED status
       /\ UNCHANGED <<poolState, phase, command, result, checked>>

(* Mutation: the first state is one the store does not know. *)
FillUnknown(c) ==
    /\ client[c].at = "fill"
    /\ status' = [status EXCEPT ![JobOf(c)] = "reserved"]
    /\ Goes(c, "done")
    /\ UNCHANGED <<poolState, phase, command, result, checked>>

(* create(): metadata.json, command.json, the status file and an empty log. *)
FillDirectory(c) ==
    /\ client[c].at = "fill"
    /\ status' = [status EXCEPT ![JobOf(c)] = "preparing"]
    /\ Goes(c, IF client[c].op[1] = "reserve" THEN "done" ELSE "admit")
    /\ UNCHANGED <<poolState, phase, command, result, checked>>

(* _execute_job: start what is still preparing, follow anything later.  "logs  *)
(* -f" follows whatever there is.                                              *)
Lookup(c) ==
    LET state == status[JobOf(c)]
    IN /\ Reads(c, "lookup")
       /\ Goes(c, IF ~Exists(state) THEN "done"
                  ELSE IF state = "preparing" /\ client[c].op[1] = "execute" THEN "decide"
                  ELSE "follow")

(* _start_job: only a new job or a preparing one is started. *)
Decide(c) ==
    LET state == status[JobOf(c)]
    IN /\ Reads(c, "decide")
       /\ Goes(c, IF ~Exists(state) THEN "mkdir"
                  ELSE IF state = "preparing" THEN "admit"
                  ELSE IF state \in FinalStates /\ client[c].op[1] = "execute" THEN "follow"
                  ELSE "done")

(* DiskGuard.admit: a light job always passes. *)
AdmitDisk(c) ==
    /\ Reads(c, "admit")
    /\ \/ Goes(c, "toQueued")
       \/ Weight[JobOf(c)] # "light" /\ Goes(c, "toRejected")

(* transition() called by a client; a refused change ends the command. *)
ClientCheck(c) ==
    /\ client[c].at \in DOMAIN Target /\ ~checked[c]
    /\ IF Allowed(status[JobOf(c)], Target[client[c].at])
       THEN checked' = [checked EXCEPT ![c] = TRUE] /\ UNCHANGED client
       ELSE Goes(c, "done") /\ UNCHANGED checked
    /\ UNCHANGED <<poolState, status, phase, command, result>>

ClientWrite(c) ==
    /\ client[c].at \in DOMAIN Target /\ checked[c]
    /\ status' = [status EXCEPT ![JobOf(c)] = Target[client[c].at]]
    /\ checked' = [checked EXCEPT ![c] = FALSE]
    /\ Goes(c, IF client[c].at = "toQueued" THEN "launch"
               ELSE IF client[c].at = "toRejected" /\ client[c].op[1] = "execute" THEN "follow"
               ELSE "done")
    /\ UNCHANGED <<poolState, phase, command, result>>

(* systemd-run starts the worker's unit; it fails when the unit is loaded, and *)
(* may fail otherwise.                                                         *)
LaunchUnit(c) ==
    LET j == JobOf(c)
    IN /\ client[c].at = "launch"
       /\ UNCHANGED <<status, command, result, checked>>
       /\ \/ /\ Pool!Launch(j)
             /\ Phased(j, "-")
             /\ Goes(c, IF client[c].op[1] = "execute" THEN "follow" ELSE "done")
          \/ Goes(c, "toAborted") /\ UNCHANGED <<poolState, phase>>

(* Mutation: a queued job is cancelled like a preparing one. *)
LookHasty(c) ==
    LET state == status[JobOf(c)]
    IN /\ Reads(c, "look")
       /\ Goes(c, IF ~Exists(state) \/ state \in FinalStates THEN "done"
                  ELSE IF state \in {"preparing", "queued"} THEN "toCancelled" ELSE "probe")

(* Mutation: cancel treats a preparing job like a queued one. *)
LookPatient(c) ==
    LET state == status[JobOf(c)]
    IN /\ Reads(c, "look")
       /\ Goes(c, IF ~Exists(state) \/ state \in FinalStates THEN "done" ELSE "flag")

(* cancel: what it finds decides how it stops the job. *)
Look(c) ==
    LET state == status[JobOf(c)]
    IN /\ Reads(c, "look")
       /\ Goes(c, IF ~Exists(state) \/ state \in FinalStates THEN "done"
                  ELSE IF state = "preparing" THEN "toCancelled" ELSE "probe")

(* Mutation: the unit is taken for gone whatever the probe says. *)
ProbeTrusting(c) ==
    /\ Reads(c, "probe")
    /\ Goes(c, "flag") \/ Goes(c, "reconcile")

(* unit_is_inactive: only a confirmed answer counts. *)
Probe(c) ==
    /\ Reads(c, "probe")
    /\ Goes(c, "flag") \/ (JobOf(c) \notin live /\ Goes(c, "reconcile"))

(* Mutation: only a job that was running is reconciled. *)
ReconcileRunning(c) ==
    /\ Reads(c, "reconcile")
    /\ Goes(c, IF status[JobOf(c)] # "running" THEN "done" ELSE "toGone")

(* _reconcile_inactive_unit, after the probe. *)
Reconcile(c) ==
    /\ Reads(c, "reconcile")
    /\ Goes(c, IF JobOf(c) \in Finished THEN "done" ELSE "toGone")

(* Mutation: cancel takes the ticket out of the queue itself. *)
FlagAndUnlink(c) ==
    /\ client[c].at = "flag"
    /\ cancelled' = cancelled \cup {JobOf(c)}
    /\ queue' = {t \in queue : t.job # JobOf(c)}
    /\ Goes(c, "await")
    /\ UNCHANGED <<clock, queueLock, slots, slotFiles, installed, capacity, pc,
                   untried, live, status, phase, command, result, checked>>

(* request_cancel. *)
Flag(c) ==
    /\ client[c].at = "flag"
    /\ cancelled' = cancelled \cup {JobOf(c)}
    /\ Goes(c, "await")
    /\ UNCHANGED <<queue, clock, queueLock, slots, slotFiles, installed, capacity, pc,
                   untried, live, status, phase, command, result, checked>>

(* Twenty seconds of polling, cut short by a final status. *)
Await(c) ==
    /\ Reads(c, "await")
    /\ Goes(c, IF JobOf(c) \in Finished THEN "done" ELSE "reprobe")

Reprobe(c) ==
    /\ Reads(c, "reprobe")
    /\ Goes(c, "kill") \/ (JobOf(c) \notin live /\ Goes(c, "reconcile"))

(* systemctl kill: SIGTERM to the worker and to its command. *)
Kill(c) ==
    LET j == JobOf(c)
    IN /\ client[c].at = "kill"
       /\ Goes(c, "done")
       /\ command' = IF command[j] = "running" THEN [command EXCEPT ![j] = "stopping"] ELSE command
       /\ UNCHANGED <<status, result>>
       /\ IF pc[j] \in {"off", "exited"}
          THEN UNCHANGED <<poolState, phase, checked>>
          ELSE /\ Pool!Crash(j)
               /\ Phased(j, "-")
               /\ checked' = [checked EXCEPT ![j] = FALSE]

(* execute and "logs -f" stream the log until the status is final: LogStream.  *)
Follow(c) ==
    /\ Reads(c, "follow")
    /\ JobOf(c) \in Finished
    /\ Goes(c, "done")

ClientStep(c) ==
    \/ MakeDirectory(c) \/ FillDirectory(c) \/ Lookup(c) \/ Decide(c) \/ AdmitDisk(c)
    \/ ClientCheck(c) \/ ClientWrite(c) \/ LaunchUnit(c)
    \/ Look(c) \/ Probe(c) \/ Reconcile(c) \/ Flag(c) \/ Await(c) \/ Reprobe(c) \/ Kill(c)
    \/ Follow(c)

(* status and doctor prune the queue; the installer changes the capacity. *)
Others ==
    /\ UNCHANGED <<status, phase, command, result, checked, client>>
    /\ Pool!Reinstall \/ \E dead \in Pool!Probes : Pool!Snapshot(dead)

-------------------------------------------------------------------------------
(* The worker of j, its command and its unit. *)
JobStep(j) ==
    \/ Worker(j) \/ EndCommand(j) \/ ObeySignal(j) \/ LeftEnds(j) \/ Crash(j)
    \/ SweepUnit(j) \/ KillUnit(j) \/ CollectUnit(j)

Next ==
    \/ \E j \in Job : JobStep(j)
    \/ \E c \in Client : Begin(c) \/ ClientStep(c) \/ Drop(c)
    \/ Others

Spec == Init /\ [][Next]_vars

-------------------------------------------------------------------------------
(* Properties *)

(* A final state is final: no process replaces it, although check and write    *)
(* of transition() are apart ("Apply one valid state transition atomically").  *)
FinalIsFinal == [][\A j \in Finished : status'[j] = status[j]]_vars

(* A job is called final only when its command's own process has ended, also   *)
(* when the worker was killed and a cancel command reconciles the record in    *)
(* its place.  What that process has left running then belongs to a unit that  *)
(* systemd has not let go of yet.                                              *)
FinalMeansStopped ==
    \A j \in Finished :
        /\ command[j] \notin {"running", "stopping"}
        /\ command[j] = "left" => j \in live

(* "passed" is said only of a command that ended with exit code zero.          *)
PassedMeansExitZero ==
    \A j \in Job : status[j] = "passed" => command[j] \in Exited /\ result[j] = "zero"

(* A worker that runs to its end leaves its job final, whichever way it took.  *)
WorkerSettlesJob ==
    \A j \in Job : pc[j] = "exited" /\ phase[j] = "over" => j \in Finished

(* The runner uses the pool as ResourcePool says it is used: a job's record    *)
(* becomes final and stays so, and cancellations are never taken back.         *)
UsesPool == Pool!Spec

(* A worker that asks for permits belongs to a job that is not final: nobody   *)
(* finalised it as "no longer active" while systemd was starting it.  Only so  *)
(* when commands run one after the other.                                      *)
NoOrphanWaiter == \A j \in Job : pc[j] \in Pool!Queueing => j \notin Finished

(* A cancel command that comes to its end has made the job final, whatever     *)
(* earlier commands and killed workers left of it, unless it never heard that  *)
(* the unit is gone; then it has killed the worker.  Only so when commands run *)
(* one after the other.                                                        *)
CancelSettles ==
    [][\A c \in Client \ Mortal :
        LET j == JobOf(c)
        IN (/\ client[c].op[1] = "cancel" /\ Exists(status[j])
            /\ client[c].at # "done" /\ client'[c].at = "done")
              => \/ j \in Finished'
                 \/ client[c].at = "kill" /\ pc'[j] \in {"off", "exited"}]_vars
===============================================================================
