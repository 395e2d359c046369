------------------------------- MODULE LogStream ------------------------------
(* The output of a job's command, and the server commands that stream it while *)
(* they follow the job: execute (_execute_job in server_cli.py) and "logs -f". *)
(* Both read the log from where they stopped, print what is new, and then read *)
(* the status.  The jobs, workers and all else are JobLifecycle's, where the   *)
(* stream is one step.                                                         *)
EXTENDS JobLifecycle

CONSTANTS
    MaxLines,  \* bound: MaxLines[j] is the number of lines the log of j may have
    Endless,   \* the jobs whose command ends only by a signal
    Obedient,  \* the jobs whose command ends some time after SIGINT or SIGTERM
    After      \* After[c]: the commands that have ended, or follow, when c begins

ASSUME StreamAssumption ==
    /\ MaxLines \in [Job -> Nat]
    /\ Endless \subseteq Job /\ Obedient \subseteq Job
    /\ After \in [Client -> SUBSET Client]

VARIABLES
    written,  \* written[j]: the lines in output.log of j
    shown,    \* shown[c]: the lines c has printed, and its position in the log
    turn      \* turn[c]: what c reads next, the "log" or the "status"

logVars == <<written, shown, turn>>
streamVars == <<vars, logVars>>

StreamInit ==
    /\ Init
    /\ written = [j \in Job |-> 0]
    /\ shown = [c \in Client |-> 0]
    /\ turn = [c \in Client |-> "log"]

Follows(c) == client[c].at = "follow"

(* The commands that may come to follow a job. *)
Streamers == {c \in Client : \E op \in Ops[c] : op[1] \in {"execute", "logs"}}

-------------------------------------------------------------------------------
(* A line is written by the command, by what it has left running, which keeps  *)
(* the log open, or by the worker: it could not start the command, or warns of *)
(* low disk space.                                                             *)
WriteLine(j) ==
    /\ \/ command[j] \in {"running", "stopping", "left"}
       \/ phase[j] \in {"setupFailed", "spawn", "watch"}
    /\ written[j] < MaxLines[j]
    /\ written' = [written EXCEPT ![j] = @ + 1]
    /\ UNCHANGED <<vars, shown, turn>>

(* The log is read from the position of c on, and printed. *)
Show(c) ==
    /\ Follows(c) /\ turn[c] = "log"
    /\ shown' = [shown EXCEPT ![c] = written[JobOf(c)]]
    /\ turn' = [turn EXCEPT ![c] = "status"]
    /\ UNCHANGED <<vars, written>>

(* Mutation: the loop ends when the status is not "running" any more. *)
CheckRunning(c) ==
    /\ Follows(c) /\ turn[c] = "status"
    /\ IF status[JobOf(c)] # "running" THEN Goes(c, "done") /\ UNCHANGED turn
       ELSE turn' = [turn EXCEPT ![c] = "log"] /\ UNCHANGED client
    /\ UNCHANGED <<poolState, status, phase, command, result, checked, written, shown>>

(* The loop ends when the status is final. *)
Check(c) ==
    /\ Follows(c) /\ turn[c] = "status"
    /\ IF JobOf(c) \in Finished THEN Follow(c) /\ UNCHANGED turn
       ELSE turn' = [turn EXCEPT ![c] = "log"] /\ UNCHANGED vars
    /\ UNCHANGED <<written, shown>>

Stream(c) == Show(c) \/ Check(c)

(* A server command begins. *)
BeginClient(c) ==
    /\ \A d \in After[c] : client[d].at \in {"done", "follow"}
    /\ Begin(c)

(* Bound: an endless command, once it is stopped, has not succeeded and leaves *)
(* nothing running.                                                            *)
Bounded(j) ==
    j \in Endless => ~EndCommand(j) /\ command'[j] # "left" /\ result'[j] # "zero"

StreamNext ==
    \/ \E j \in Job : WriteLine(j)
    \/ \E c \in Client : Stream(c)
    \/ /\ \/ \E j \in Job : JobStep(j) /\ Bounded(j)
          \/ \E c \in Client : BeginClient(c) \/ (~Follows(c) /\ ClientStep(c)) \/ Drop(c)
          \/ Others
       /\ UNCHANGED logVars

StreamSpec == StreamInit /\ [][StreamNext]_streamVars

(* What goes on in any case: the workers, the server commands and systemd, and *)
(* a command that was sent a signal if it is an obedient one.  That a command  *)
(* ends by itself is not assumed.                                              *)
GoOn ==
    /\ \/ \E j \in Job :
             \/ SetUp(j) \/ SetUpFailed(j) \/ CheckChange(j) \/ WriteChange(j)
             \/ Spawn(j) \/ Interrupted(j) \/ LeavePool(j)
             \/ Watch(j) /\ (command[j] \in Exited \/ j \in cancelled)
             \/ j \in Obedient /\ ObeySignal(j)
             \/ SweepUnit(j) \/ KillUnit(j) \/ CollectUnit(j)
       \/ \E c \in Client : ~Follows(c) /\ ClientStep(c)
    /\ UNCHANGED logVars

(* One of all those that can go on does; a worker that keeps asking for the    *)
(* queue lock gets it, and a follower goes on with its loop.                   *)
StreamFairness ==
    /\ WF_streamVars(GoOn)
    /\ \A j \in Job : SF_streamVars(AskPool(j) /\ UNCHANGED logVars)
    /\ \A c \in Streamers : WF_streamVars(Stream(c))

StreamFairSpec == StreamSpec /\ StreamFairness

-------------------------------------------------------------------------------
(* Properties *)

(* The log of a final job is whole: the command's own process and the worker   *)
(* write nothing after the status, so that who reads it later, after a lost    *)
(* connection, misses nothing but lines of what the command left running.      *)
FinalLogIsWhole ==
    [][\A j \in Finished : written'[j] # written[j] => command[j] = "left"]_streamVars

(* The worker has sent SIGINT and SIGTERM to a command that ignores them, and  *)
(* no cancel command is there any more to have systemd stop the worker.        *)
Deserted(j) ==
    /\ phase[j] = "interrupt" /\ j \notin Obedient
    /\ \A c \in Client : <<"cancel", j>> \in Ops[c] => client[c].at = "done"

(* A requested cancellation ends the worker, wherever it finds it and however  *)
(* long the command would have run, unless it is deserted: the canceller was   *)
(* killed, and the command ignores both signals.                               *)
CancelHeeded ==
    \A j \in Job :
        (j \in cancelled /\ pc[j] \notin {"off", "exited"})
            ~> (pc[j] = "exited" \/ Deserted(j))

(* What a job writes while it is followed is printed in the end, however long  *)
(* its command runs on.                                                        *)
OutputArrives ==
    \A c \in Streamers, j \in Job : \A n \in 1..MaxLines[j] :
        (Follows(c) /\ JobOf(c) = j /\ written[j] >= n) ~> (shown[c] >= n \/ j \in Finished)

(* A command that follows a job returns when the worker of the job has run to  *)
(* its end, whatever cancel commands have done to the job meanwhile.           *)
FollowerReturns ==
    \A c \in Streamers :
        (Follows(c) /\ pc[JobOf(c)] = "exited" /\ phase[JobOf(c)] = "over")
            ~> (client[c].at = "done")

(* Who has followed a job to its end has printed all of its log.               *)
AllOutputShown ==
    \A c \in Client :
        client[c].at = "done" /\ turn[c] = "status" => shown[c] = written[JobOf(c)]
===============================================================================
