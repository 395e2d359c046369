------------------------------- MODULE LocalRun -------------------------------
(* "trie-run run" on the developer's machine (run_worktrees in local_cli.py):  *)
(* it reserves a job, transfers the worktrees and executes the job, each by a  *)
(* command on the server over a connection of its own (transport.py).  A       *)
(* connection may break, and the user may interrupt, at any time; the server   *)
(* command of that connection then dies or goes on unheard.  The commands, the *)
(* worker and the pool are JobLifecycle's.  The protocol is version 2, the one *)
(* this server announces.                                                      *)
EXTENDS JobLifecycle

CONSTANTS
    Run,        \* invocations of "trie-run run"
    TargetJob,  \* the job each run names
    Role        \* the worktrees of a run: "primary" and its includes

Calls == {"reserve", "execute", "cancel"}

(* Run r calls the server by the commands <<r, call>>; other clients are       *)
(* "trie-run cancel" in another terminal.                                      *)
ASSUME RunAssumption ==
    /\ TargetJob \in [Run -> Job]
    /\ \A r \in Run : \A call \in Calls :
         <<r, call>> \in Client /\ Ops[<<r, call>>] = {<<call, TargetJob[r]>>}

VARIABLES
    local,    \* local[r]: what run r is doing, or how it ended
    source,   \* source[r]: how far each worktree of r has come on the server
    prepare,  \* prepare[r]: the server's prepare-all for run r
    answer    \* answer[c]: how the server command c ended

localVars == <<local, source, prepare>>
runVars == <<vars, localVars, answer>>

(* How a run ends: the reservation failed; a failed transfer was cancelled, or *)
(* nobody knows whether it was; the execution was left to the server; or its   *)
(* exit code was returned.                                                     *)
Ends == {"unreserved", "withdrawn", "stranded", "detached", "zero", "nonzero"}

LocalTypeOK ==
    /\ TypeOK
    /\ local \in [Run -> {"idle", "reserve", "push", "prepare", "sync", "cancel", "execute"}
                         \cup Ends]
    /\ source \in [Run -> [Role -> {"absent", "pushed", "clean", "whole"}]]
    /\ prepare \in [Run -> {"none", "working", "good", "bad"}]
    /\ answer \in [Client -> {"none", "good", "bad"}]

LocalInit ==
    /\ Init
    /\ local = [r \in Run |-> "idle"]
    /\ source = [r \in Run |-> [role \in Role |-> "absent"]]
    /\ prepare = [r \in Run |-> "none"]
    /\ answer = [c \in Client |-> "none"]

-------------------------------------------------------------------------------
(* The server's side *)

(* Whether command c, about to end, reports success: every end but an unknown  *)
(* job, a refused change, a failed start and a taken identifier.  (What        *)
(* execute returns then is the exit code of its job.)                          *)
EndsWell(c) ==
    \/ client[c].at \in {"fill", "follow", "await", "reconcile", "kill", "toGone"}
    \/ client[c].at = "look" /\ Exists(status[JobOf(c)])
    \/ checked[c] /\ client[c].at # "toAborted"

(* A command goes on, whether anybody listens or not. *)
Serve(c) ==
    /\ ClientStep(c)
    /\ answer' = IF client'[c].at # "done" THEN answer
                 ELSE [answer EXCEPT ![c] = IF EndsWell(c) THEN "good" ELSE "bad"]
    /\ UNCHANGED localVars

(* It dies, with its connection or without. *)
Perish(c) ==
    /\ Drop(c)
    /\ answer' = [answer EXCEPT ![c] = "bad"]
    /\ UNCHANGED localVars

(* prepare_workspace for one role: the worktree is made anew from the commit,  *)
(* and the deletions of its overlay are applied.  prepare-all ends with the    *)
(* last role; it does not ask for the state of the job.                        *)
PrepareRole(r) ==
    /\ prepare[r] = "working"
    /\ \E role \in Role :
         /\ source[r][role] = "pushed"
         /\ source' = [source EXCEPT ![r][role] = "clean"]
         /\ prepare' = IF \E other \in Role \ {role} : source[r][other] = "pushed"
                       THEN prepare ELSE [prepare EXCEPT ![r] = "good"]
    /\ UNCHANGED <<vars, local, answer>>

(* Git fails for some role, or the process dies. *)
PrepareBreaks(r) ==
    /\ prepare[r] = "working"
    /\ prepare' = [prepare EXCEPT ![r] = "bad"]
    /\ UNCHANGED <<vars, local, source, answer>>

-------------------------------------------------------------------------------
(* The local side *)

Continue(r, place) == local' = [local EXCEPT ![r] = place]

(* The connection for a call comes up, and its server command begins. *)
Call(r, call) ==
    /\ local[r] = call
    /\ Begin(<<r, call>>)
    /\ UNCHANGED <<localVars, answer>>

Submit(r) == local[r] = "idle" /\ Continue(r, "reserve")

(* reserve() comes back with the workspaces. *)
Reserved(r) ==
    /\ local[r] = "reserve" /\ answer[<<r, "reserve">>] = "good"
    /\ Continue(r, "push")

(* reserve() raises: it is outside the try block, so nothing is cancelled.     *)
ReserveFails(r) == local[r] = "reserve" /\ Continue(r, "unreserved")

(* push_commit for one role after the other. *)
Push(r) ==
    /\ local[r] = "push"
    /\ \E role \in Role :
         /\ source[r][role] = "absent"
         /\ source' = [source EXCEPT ![r][role] = "pushed"]
         /\ Continue(r, IF \E other \in Role \ {role} : source[r][other] = "absent"
                        THEN "push" ELSE "prepare")
    /\ UNCHANGED prepare

AskPrepare(r) ==
    /\ local[r] = "prepare" /\ prepare[r] = "none"
    /\ prepare' = [prepare EXCEPT ![r] = "working"]
    /\ UNCHANGED <<local, source>>

Prepared(r) ==
    /\ local[r] = "prepare" /\ prepare[r] = "good"
    /\ Continue(r, "sync")

(* Mutation: the return for a role without changes ends the loop over roles. *)
SyncFirst(r) ==
    /\ local[r] = "sync"
    /\ \E role \in Role :
         /\ source[r][role] = "clean"
         /\ source' = [source EXCEPT ![r][role] = "whole"]
    /\ Continue(r, "execute")
    /\ UNCHANGED prepare

(* sync_overlay for one role after the other. *)
Sync(r) ==
    /\ local[r] = "sync"
    /\ \E role \in Role :
         /\ source[r][role] = "clean"
         /\ source' = [source EXCEPT ![r][role] = "whole"]
         /\ Continue(r, IF \E other \in Role \ {role} : source[r][other] = "clean"
                        THEN "sync" ELSE "execute")
    /\ UNCHANGED prepare

(* Whatever goes wrong during the transfer, or Ctrl-C, leads to a cancel.      *)
TransferFails(r) ==
    /\ local[r] \in {"push", "prepare", "sync"}
    /\ Continue(r, "cancel")

(* The cancel command returns zero. *)
Withdrawn(r) ==
    /\ local[r] = "cancel" /\ answer[<<r, "cancel">>] = "good"
    /\ Continue(r, "withdrawn")

(* It returns another code, cannot be sent, is never answered, or Ctrl-C.      *)
CancelFails(r) == local[r] = "cancel" /\ Continue(r, "stranded")

(* Mutation: a status without an exit code counts as zero. *)
ExitCodesLenient(j) == {"zero"}

(* The exit code in a final status.  A cancelled job has the code of its       *)
(* command if the worker wrote the status, 127 or 130 if a cancel command did. *)
ExitCodes(j) ==
    CASE status[j] = "passed"                          -> {"zero"}
      [] status[j] = "cancelled" /\ result[j] = "zero" -> {"zero", "nonzero"}
      [] OTHER                                         -> {"nonzero"}

(* execute() comes back with the final status. *)
Executed(r) ==
    /\ local[r] = "execute" /\ answer[<<r, "execute">>] = "good"
    /\ \E code \in ExitCodes(TargetJob[r]) : Continue(r, code)

(* ExecutionStreamDetached, which stands for any missing answer, or Ctrl-C.    *)
Detach(r) == local[r] = "execute" /\ Continue(r, "detached")

LocalStep(r) ==
    /\ UNCHANGED <<vars, answer>>
    /\ \/ Push(r) \/ AskPrepare(r) \/ Sync(r)
       \/ /\ UNCHANGED <<source, prepare>>
          /\ \/ Submit(r) \/ Reserved(r) \/ ReserveFails(r) \/ Prepared(r) \/ TransferFails(r)
             \/ Withdrawn(r) \/ CancelFails(r) \/ Executed(r) \/ Detach(r)

(* "trie-run cancel" in another terminal. *)
Elsewhere(c) ==
    /\ c \notin Run \X Calls
    /\ Begin(c)
    /\ UNCHANGED <<localVars, answer>>

-------------------------------------------------------------------------------
LocalNext ==
    \/ \E r \in Run : \/ LocalStep(r) \/ PrepareRole(r) \/ PrepareBreaks(r)
                      \/ \E call \in Calls : Call(r, call)
    \/ \E c \in Client : Serve(c) \/ Perish(c) \/ Elsewhere(c)
    \/ UNCHANGED <<localVars, answer>> /\ (Others \/ \E j \in Job : JobStep(j))

LocalSpec == LocalInit /\ [][LocalNext]_runVars

-------------------------------------------------------------------------------
(* Properties *)

(* Of the runs that name the same job one gets past its reservation: no other  *)
(* run pushes into its worktrees, cancels it or starts it, whenever the answer *)
(* is lost and however often the user tries again.                             *)
OneRunPerJob ==
    \A q, r \in Run :
        /\ TargetJob[q] = TargetJob[r]
        /\ local[q] \notin {"idle", "reserve", "unreserved"}
        /\ local[r] \notin {"idle", "reserve", "unreserved"}
        => q = r

(* A command runs only on worktrees that are whole: transferred by the run     *)
(* that reserved the job, with no prepare-all of a lost connection at work.    *)
CommandSeesWorktrees ==
    \A j \in Job : command[j] # "none"
        => \E r \in Run :
             /\ TargetJob[r] = j
             /\ \A role \in Role : source[r][role] = "whole"
             /\ prepare[r] = "good"

(* A run that gave up and heard that its job is cancelled leaves nothing on    *)
(* the server that could still start: the job is final and never was started.  *)
WithdrawnIsOver ==
    \A r \in Run : local[r] = "withdrawn"
        => /\ TargetJob[r] \in Finished
           /\ pc[TargetJob[r]] = "off" /\ command[TargetJob[r]] = "none"

(* Exit code zero on the developer's machine means that the command has run to *)
(* its own exit code zero on the server, on exactly the worktrees transferred. *)
ZeroMeansSuccess ==
    \A r \in Run : local[r] = "zero"
        => /\ command[TargetJob[r]] \in Exited /\ result[TargetJob[r]] = "zero"
           /\ \A role \in Role : source[r][role] = "whole"
===============================================================================
