---------------------------- MODULE LocalRun_proofs ----------------------------
(* Theorems about LocalRun, for any runs, jobs, worktrees and other commands,  *)
(* with connections and processes that break at any step.                      *)
EXTENDS LocalRun, JobLifecycle_proofs

Reserver(r) == <<r, "reserve">>

(* The variables of the local side hold what the code puts there. *)
LocalShapes ==
    /\ local \in [Run -> {"idle", "reserve", "push", "prepare", "sync", "cancel", "execute"}
                         \cup Ends]
    /\ answer \in [Client -> {"none", "good", "bad"}]

(* Run r has made the directory of its job, or has been told that it has. *)
Won(r) == client[Reserver(r)].at = "fill" \/ answer[Reserver(r)] = "good"

(* Where the reserve command of a run is, and what its answer means. *)
Reserving ==
    \A r \in Run :
        /\ client[Reserver(r)].at \in {"idle", "mkdir", "fill", "done"}
        /\ client[Reserver(r)].at # "idle" =>
             client[Reserver(r)].op = <<"reserve", TargetJob[r]>>
        /\ ~checked[Reserver(r)]
        /\ answer[Reserver(r)] = "good" => client[Reserver(r)].at = "done"
        /\ Won(r) => status[TargetJob[r]] # "absent"

OneWinner == \A q, r \in Run : Won(q) /\ Won(r) /\ TargetJob[q] = TargetJob[r] => q = r

(* A run goes past its reservation with the answer only. *)
Pushing ==
    \A r \in Run :
        local[r] \notin {"idle", "reserve", "unreserved"} => answer[Reserver(r)] = "good"

RunInv == ControlInv /\ LocalShapes /\ Reserving /\ OneWinner /\ Pushing

(* Other terminals cancel jobs and read logs; only runs reserve and start them. *)
OnlyCancels ==
    \A c \in Client \ (Run \X Calls) : Ops[c] \subseteq {"cancel", "logs"} \X Job

ChangePlaces == {"toQueued", "toRejected", "toAborted", "toCancelled", "toGone"}
Starting == {"decide", "admit", "toQueued", "toRejected", "launch", "toAborted"}
Stopping == {"probe", "reconcile", "flag", "await", "reprobe", "kill", "toGone"}

(* The places a command of the given name comes to. *)
Belongs(name, place) ==
    \/ place = "done"
    \/ name = "reserve" /\ place \in {"mkdir", "fill"}
    \/ name = "logs" /\ place \in {"lookup", "follow"}
    \/ name = "cancel" /\ place \in {"look", "toCancelled"} \cup Stopping
    \/ /\ name \in {"start", "execute"}
       /\ place \in {"lookup", "mkdir", "fill", "follow"} \cup Starting

InPlace ==
    \A c \in Client :
        /\ client[c].at # "idle" =>
             client[c].op \in Ops[c] /\ Belongs(client[c].op[1], client[c].at)
        /\ checked[c] => client[c].at \in ChangePlaces

(* A command is started once, by a worker that has not started it. *)
SpawnedOnce ==
    \A j \in Job :
        /\ command[j] # "none" =>
             /\ pc[j] \notin Asking \cup {"off"}
             /\ phase[j] \notin {"setup", "setupFailed", "toRunning", "spawn"}
        /\ result[j] # "none" => command[j] \in Exited

Executor(r) == <<r, "execute">>
Canceller(r) == <<r, "cancel">>
Executing == {"execute", "detached", "zero", "nonzero"}
Cancelling == {"cancel", "withdrawn", "stranded"}

Whole(r) == prepare[r] = "good" /\ \A role \in Role : source[r][role] = "whole"

(* The worktrees of a run while it transfers them, and after it has given up.  *)
Transferred ==
    /\ source \in [Run -> [Role -> {"absent", "pushed", "clean", "whole"}]]
    /\ prepare \in [Run -> {"none", "working", "good", "bad"}]
    /\ \A r \in Run :
        /\ local[r] \in {"idle", "reserve", "push"} => prepare[r] = "none"
        /\ local[r] = "prepare" /\ prepare[r] = "none" =>
             \A role \in Role : source[r][role] = "pushed"
        /\ local[r] = "sync" => prepare[r] = "good"
        /\ prepare[r] = "none" => \A role \in Role : source[r][role] \in {"absent", "pushed"}
        /\ prepare[r] = "working" => \A role \in Role : source[r][role] \in {"pushed", "clean"}
        /\ prepare[r] = "good" => \A role \in Role : source[r][role] \in {"clean", "whole"}
        /\ local[r] \in Executing => Whole(r)

(* Which run has a command executed, and whose worker there is. *)
WorkerHasRun ==
    /\ \A r \in Run : client[Executor(r)].at # "idle" => local[r] \in Executing
    /\ \A j \in Job : pc[j] # "off" =>
         \E r \in Run : TargetJob[r] = j /\ client[Executor(r)].at \in {"follow", "done"}

(* Nobody is stopping a worker of a job that no run executes; its status says  *)
(* how far its reservation came, or that it is cancelled.                      *)
Unexecuted(j) == \A r \in Run : TargetJob[r] = j => local[r] \notin Executing

Quiet ==
    \A j \in Job : Unexecuted(j) =>
        /\ status[j] \in {"absent", "partial", "preparing", "cancelled"}
        /\ \A c \in Client : client[c].at \in Stopping => JobOf(c) # j

(* A good answer to the cancel of a run, which then is believed. *)
CancelBelieved ==
    \A r \in Run :
        /\ client[Canceller(r)].at # "idle" => local[r] \in Cancelling
        /\ answer[Canceller(r)] = "good" =>
             client[Canceller(r)].at = "done" /\ status[TargetJob[r]] \in FinalStates
        /\ local[r] = "withdrawn" => answer[Canceller(r)] = "good"

Returned ==
    \A r \in Run : local[r] = "zero" =>
        command[TargetJob[r]] \in Exited /\ result[TargetJob[r]] = "zero"

JobInv == Passed /\ InPlace /\ SpawnedOnce
CommandInv == Transferred /\ WorkerHasRun
CancelInv == Quiet /\ CancelBelieved

-------------------------------------------------------------------------------
(* What a step leaves alone *)

LEMMA ReserverIsClient ==
    ASSUME NEW r \in Run
    PROVE  /\ Reserver(r) \in Client /\ Reserver(r) \notin Job
           /\ Ops[Reserver(r)] = {<<"reserve", TargetJob[r]>>}
           /\ TargetJob[r] \in Job
BY RunAssumption, ClientAssumption DEF Reserver, Calls

(* Every step of LocalRun is one of JobLifecycle or none. *)
LEMMA LocalIsLifecycle == [LocalNext]_runVars => [Next]_vars
<1> SUFFICES ASSUME [LocalNext]_runVars PROVE [Next]_vars
  OBVIOUS
<1>1. ASSUME NEW r \in Run, LocalStep(r) \/ PrepareRole(r) \/ PrepareBreaks(r) PROVE UNCHANGED vars
  BY <1>1 DEF LocalStep, PrepareRole, PrepareBreaks
<1>2. ASSUME NEW r \in Run, NEW call \in Calls, Call(r, call) PROVE Next
  BY <1>2, RunAssumption DEF Call, Next
<1>3. ASSUME NEW c \in Client, Serve(c) \/ Perish(c) \/ Elsewhere(c) PROVE Next
  BY <1>3 DEF Serve, Perish, Elsewhere, Next
<1>4. CASE Others \/ \E j \in Job : JobStep(j)
  BY <1>4 DEF Next
<1>5. CASE UNCHANGED runVars
  BY <1>5 DEF runVars
<1> QED
  BY <1>1, <1>2, <1>3, <1>4, <1>5 DEF LocalNext

(* A worker, or the unit of one, leaves the server commands alone. *)
LEMMA JobStepsApart ==
    ASSUME ControlInv, NEW j \in Job, JobStep(j)
    PROVE  /\ client' = client
           /\ \A c \in Client : checked'[c] = checked[c]
<1>1. CASE CheckChange(j) \/ WriteChange(j) \/ Crash(j)
  BY <1>1, ClientAssumption DEF CheckChange, WriteChange, Crash, ControlInv, Shapes
<1> QED
  BY <1>1 DEF JobStep, Worker, AskPool, SetUp, SetUpFailed, Spawn, Watch, Interrupted, LeavePool,
              EndCommand, ObeySignal, Ended, LeftEnds, SweepUnit, KillUnit, CollectUnit

(* A server command leaves the places of the others alone, and a cancel's kill *)
(* the checks of all commands.                                                 *)
LEMMA CommandsApart ==
    ASSUME ControlInv, NEW c \in Client, NEW d \in Client, c # d,
           ClientStep(c) \/ Begin(c) \/ Drop(c)
    PROVE  client'[d] = client[d] /\ checked'[d] = checked[d]
<1>1. CASE Kill(c)
  <2>1. JobOf(c) \in Job
    BY <1>1 DEF Kill, ControlInv, Called, Invocations, JobOf
  <2> QED
    BY <1>1, <2>1, ClientAssumption DEF Kill, Goes, ControlInv, Shapes
<1> QED
  BY <1>1 DEF ClientStep, Begin, Drop, MakeDirectory, FillDirectory, Lookup, Decide, AdmitDisk,
              ClientCheck, ClientWrite, LaunchUnit, Look, Probe, Reconcile, Flag, Await, Reprobe,
              Follow, Reads, Goes, ControlInv, Shapes

(* A directory that is there is there for good: its status becomes another, or *)
(* is not there yet, but no step removes it.                                   *)
LEMMA DirectoriesStay ==
    ASSUME ControlInv, [Next]_vars, NEW j \in Job, status[j] # "absent"
    PROVE  status'[j] # "absent"
<1>1. ASSUME NEW k \in Job, JobStep(k) PROVE status'[j] # "absent"
  <2>1. CASE WriteChange(k)
    BY <2>1 DEF WriteChange, Writing, Target, ControlInv, Shapes
  <2> QED
    BY <1>1, <2>1
       DEF JobStep, Worker, AskPool, SetUp, SetUpFailed, CheckChange, Spawn, Watch, Interrupted,
           LeavePool, EndCommand, ObeySignal, Ended, LeftEnds, Crash, SweepUnit,
           KillUnit, CollectUnit
<1>2. ASSUME NEW c \in Client, ClientStep(c) PROVE status'[j] # "absent"
  <2>1. CASE MakeDirectory(c) \/ FillDirectory(c)
    BY <2>1 DEF MakeDirectory, FillDirectory, ControlInv, Shapes
  <2>2. CASE ClientWrite(c)
    BY <2>2 DEF ClientWrite, Target, ControlInv, Shapes
  <2> QED
    BY <1>2, <2>1, <2>2
       DEF ClientStep, Lookup, Decide, AdmitDisk, ClientCheck, LaunchUnit, Look, Probe,
           Reconcile, Flag, Await, Reprobe, Kill, Follow, Reads
<1>3. ASSUME NEW c \in Client, Begin(c) \/ Drop(c) PROVE status'[j] # "absent"
  BY <1>3 DEF Begin, Drop
<1>4. CASE Others \/ UNCHANGED vars
  BY <1>4 DEF Others, vars
<1> QED
  BY <1>1, <1>2, <1>3, <1>4 DEF Next

-------------------------------------------------------------------------------
(* A reservation *)

(* What a step of the reserve command of run r does. *)
LEMMA ReserverMoves ==
    ASSUME RunInv, NEW r \in Run, ClientStep(Reserver(r))
    PROVE  /\ ~checked'[Reserver(r)]
           /\ client'[Reserver(r)].op = <<"reserve", TargetJob[r]>>
           /\ \/ /\ client[Reserver(r)].at = "mkdir" /\ client'[Reserver(r)].at = "fill"
                 /\ status[TargetJob[r]] = "absent" /\ status'[TargetJob[r]] # "absent"
              \/ client[Reserver(r)].at = "mkdir" /\ client'[Reserver(r)].at = "done"
              \/ client[Reserver(r)].at = "fill" /\ client'[Reserver(r)].at = "done"
<1> DEFINE c == Reserver(r)
<1>1. c \in Client /\ c \notin Job /\ TargetJob[r] \in Job
  BY ReserverIsClient
<1>2. client[c].at \in {"idle", "mkdir", "fill", "done"} /\ ~checked[c]
  BY DEF RunInv, Reserving
<1>3. MakeDirectory(c) \/ FillDirectory(c)
  BY <1>2 DEF ClientStep, Lookup, Decide, AdmitDisk, ClientCheck, ClientWrite, LaunchUnit, Look,
              Probe, Reconcile, Flag, Await, Reprobe, Kill, Follow, Reads, Target
<1>4. client[c].op = <<"reserve", TargetJob[r]>> /\ JobOf(c) = TargetJob[r]
  BY <1>3 DEF RunInv, Reserving, MakeDirectory, FillDirectory, JobOf
<1>5. CASE MakeDirectory(c)
  BY <1>1, <1>2, <1>4, <1>5 DEF MakeDirectory, Goes, RunInv, ControlInv, Shapes
<1>6. CASE FillDirectory(c)
  BY <1>1, <1>2, <1>4, <1>6 DEF FillDirectory, Goes, RunInv, ControlInv, Shapes
<1> QED
  BY <1>3, <1>5, <1>6

(* The reserve commands of the other runs, and what they have been told, stay  *)
(* as they are.                                                                *)
ReserversStay(R) ==
    \A r \in R :
        /\ client'[Reserver(r)] = client[Reserver(r)]
        /\ checked'[Reserver(r)] = checked[Reserver(r)]
        /\ answer'[Reserver(r)] = answer[Reserver(r)]

LEMMA StillWon ==
    ASSUME RunInv, [Next]_vars, ReserversStay(Run)
    PROVE  Reserving' /\ OneWinner'
<1>1. \A r \in Run : Won(r)' <=> Won(r)
  BY DEF ReserversStay, Won
<1>2. \A r \in Run : Won(r) => status'[TargetJob[r]] # "absent"
  BY DirectoriesStay, ReserverIsClient DEF RunInv, Reserving
<1>3. Reserving'
  BY <1>1, <1>2 DEF RunInv, Reserving, ReserversStay
<1> QED
  BY <1>1, <1>3 DEF RunInv, OneWinner

(* The reserve command of one run moves. *)
LEMMA OneMoves ==
    ASSUME RunInv, [Next]_vars, NEW r \in Run, ReserversStay(Run \ {r}),
           /\ ~checked'[Reserver(r)]
           /\ client'[Reserver(r)].at \in {"idle", "mkdir", "fill", "done"}
           /\ client'[Reserver(r)].at # "idle" =>
                client'[Reserver(r)].op = <<"reserve", TargetJob[r]>>
           /\ answer'[Reserver(r)] = "good" => client'[Reserver(r)].at = "done",
           Won(r)' => \/ Won(r)
                      \/ status[TargetJob[r]] = "absent" /\ status'[TargetJob[r]] # "absent"
    PROVE  Reserving' /\ OneWinner'
<1>1. \A q \in Run \ {r} : Won(q)' <=> Won(q)
  BY DEF ReserversStay, Won
<1>2. \A q \in Run : Won(q) => status[TargetJob[q]] # "absent" /\ status'[TargetJob[q]] # "absent"
  BY DirectoriesStay, ReserverIsClient DEF RunInv, Reserving
<1>3. \A q \in Run : Won(q)' => status'[TargetJob[q]] # "absent"
  BY <1>1, <1>2
<1>4. Reserving'
  <2> SUFFICES ASSUME NEW q \in Run
               PROVE  /\ client'[Reserver(q)].at \in {"idle", "mkdir", "fill", "done"}
                      /\ client'[Reserver(q)].at # "idle" =>
                           client'[Reserver(q)].op = <<"reserve", TargetJob[q]>>
                      /\ ~checked'[Reserver(q)]
                      /\ answer'[Reserver(q)] = "good" => client'[Reserver(q)].at = "done"
    BY <1>3 DEF Reserving
  <2>1. CASE q = r
    BY <2>1
  <2>2. CASE q # r
    BY <2>2 DEF ReserversStay, RunInv, Reserving
  <2> QED
    BY <2>1, <2>2
<1>5. OneWinner'
  <2> SUFFICES ASSUME NEW p \in Run, NEW q \in Run, Won(p)', Won(q)',
                      TargetJob[p] = TargetJob[q]
               PROVE  p = q
    BY DEF OneWinner
  <2>1. CASE Won(p) /\ Won(q)
    BY <2>1 DEF RunInv, OneWinner
  <2>2. CASE ~Won(p)
    BY <1>1, <1>2, <2>2
  <2>3. CASE ~Won(q)
    BY <1>1, <1>2, <2>3
  <2> QED
    BY <2>1, <2>2, <2>3
<1> QED
  BY <1>4, <1>5

(* A command of the server goes on or dies. *)
LEMMA ServerKeepsRuns ==
    ASSUME RunInv, [Next]_vars, NEW c \in Client, Serve(c) \/ Perish(c)
    PROVE  LocalShapes' /\ Reserving' /\ OneWinner' /\ Pushing'
<1>1. /\ local' = local
      /\ \E a \in {"none", "good", "bad"} : answer' = [answer EXCEPT ![c] = a]
  BY DEF Serve, Perish, localVars, RunInv, LocalShapes
<1>2. LocalShapes'
  BY <1>1 DEF RunInv, LocalShapes
<1>3. \A d \in Client \ {c} :
        client'[d] = client[d] /\ checked'[d] = checked[d] /\ answer'[d] = answer[d]
  BY <1>1, CommandsApart DEF Serve, Perish, RunInv, LocalShapes
<1>4. CASE \A r \in Run : c # Reserver(r)
  <2>1. ReserversStay(Run)
    BY <1>3, <1>4, ReserverIsClient DEF ReserversStay
  <2>2. Reserving' /\ OneWinner'
    BY <2>1, StillWon
  <2> QED
    BY <1>1, <1>2, <2>1, <2>2 DEF ReserversStay, RunInv, Pushing
<1>5. CASE \E r \in Run : c = Reserver(r)
  <2>1. PICK r \in Run : c = Reserver(r)
    BY <1>5
  <2>2. \A q \in Run \ {r} : Reserver(q) # c
    BY <2>1 DEF Reserver
  <2>3. ReserversStay(Run \ {r})
    BY <1>3, <2>2, ReserverIsClient DEF ReserversStay
  <2>4. /\ client[c].at \in {"idle", "mkdir", "fill", "done"} /\ ~checked[c]
        /\ client[c].at # "idle" => client[c].op = <<"reserve", TargetJob[r]>>
        /\ answer[c] = "good" => client[c].at = "done"
    BY <2>1 DEF RunInv, Reserving
  <2>5. client[c].at \in {"mkdir", "fill"} /\ answer[c] # "good"
    <3>1. CASE Serve(c)
      BY <2>1, <2>4, <3>1, ReserverMoves DEF Serve
    <3>2. CASE Perish(c)
      BY <2>4, <3>2 DEF Perish, Drop
    <3> QED
      BY <3>1, <3>2
  <2>6. Pushing'
    BY <1>1, <2>1, <2>3, <2>5 DEF ReserversStay, RunInv, Pushing
  <2>7. Reserving' /\ OneWinner'
    <3>1. CASE Perish(c)
      <4>1. client'[c].at = "done" /\ client'[c].op = client[c].op /\ ~checked'[c]
        BY <3>1, ClientAssumption DEF Perish, Drop, Goes, RunInv, ControlInv, Shapes
      <4>2. answer'[c] = "bad"
        BY <3>1 DEF Perish, RunInv, LocalShapes
      <4> QED
        BY <2>1, <2>3, <2>4, <2>5, <4>1, <4>2, OneMoves DEF Won
    <3>2. CASE Serve(c)
      <4>1. /\ ~checked'[c] /\ client'[c].op = <<"reserve", TargetJob[r]>>
            /\ \/ /\ client[c].at = "mkdir" /\ client'[c].at = "fill"
                  /\ status[TargetJob[r]] = "absent" /\ status'[TargetJob[r]] # "absent"
               \/ client[c].at = "mkdir" /\ client'[c].at = "done"
               \/ client[c].at = "fill" /\ client'[c].at = "done"
        BY <2>1, <3>2, ReserverMoves DEF Serve
      <4>2. CASE client[c].at = "mkdir" /\ client'[c].at = "fill"
        <5>1. answer' = answer
          BY <3>2, <4>2 DEF Serve
        <5> QED
          BY <2>1, <2>3, <2>5, <4>1, <4>2, <5>1, OneMoves DEF Won
      <4>3. CASE client[c].at = "mkdir" /\ client'[c].at = "done"
        <5>1. answer'[c] = "bad"
          BY <2>4, <3>2, <4>3 DEF Serve, EndsWell, RunInv, LocalShapes
        <5> QED
          BY <2>1, <2>3, <4>1, <4>3, <5>1, OneMoves DEF Won
      <4>4. CASE client[c].at = "fill" /\ client'[c].at = "done"
        <5>1. Won(r)
          BY <2>1, <4>4 DEF Won
        <5> QED
          BY <2>1, <2>3, <4>1, <4>4, <5>1, OneMoves
      <4> QED
        BY <4>1, <4>2, <4>3, <4>4
    <3> QED
      BY <3>1, <3>2
  <2> QED
    BY <1>2, <2>6, <2>7
<1> QED
  BY <1>4, <1>5

(* A command begins, for a run or from another terminal. *)
LEMMA BeginKeepsRuns ==
    ASSUME RunInv, [Next]_vars, NEW c \in Client, Begin(c), local' = local, answer' = answer,
           \A r \in Run : c = Reserver(r) => local[r] = "reserve"
    PROVE  Reserving' /\ OneWinner' /\ Pushing'
<1>1. \A d \in Client \ {c} : client'[d] = client[d] /\ checked'[d] = checked[d]
  BY CommandsApart DEF RunInv
<1>2. Pushing'
  BY DEF RunInv, Pushing
<1>3. CASE \A r \in Run : c # Reserver(r)
  <2>1. ReserversStay(Run)
    BY <1>1, <1>3, ReserverIsClient DEF ReserversStay
  <2> QED
    BY <1>2, <2>1, StillWon
<1>4. CASE \E r \in Run : c = Reserver(r)
  <2>1. PICK r \in Run : c = Reserver(r)
    BY <1>4
  <2>2. \A q \in Run \ {r} : Reserver(q) # c
    BY <2>1 DEF Reserver
  <2>3. ReserversStay(Run \ {r})
    BY <1>1, <2>2, ReserverIsClient DEF ReserversStay
  <2>4. client[c].at = "idle" /\ ~checked[c] /\ answer[c] # "good"
    BY <2>1 DEF Begin, RunInv, Reserving
  <2>5. PICK op \in Ops[c] :
          client' = [client EXCEPT ![c] =
                       [op |-> op,
                        at |-> CASE op[1] = "reserve" -> "mkdir"
                                 [] op[1] = "start"   -> "decide"
                                 [] op[1] \in {"execute", "logs"} -> "lookup"
                                 [] op[1] = "cancel"  -> "look"]]
    BY DEF Begin
  <2>6. op = <<"reserve", TargetJob[r]>> /\ op[1] = "reserve"
    BY <2>1, ReserverIsClient
  <2>7. client'[c] = [op |-> <<"reserve", TargetJob[r]>>, at |-> "mkdir"]
    BY <2>5, <2>6 DEF RunInv, ControlInv, Shapes
  <2>8. checked' = checked
    BY DEF Begin
  <2> QED
    BY <1>2, <2>1, <2>3, <2>4, <2>7, <2>8, OneMoves DEF Won
<1> QED
  BY <1>3, <1>4

(* A step of run r on the developer's machine leaves the reservation with the  *)
(* answer of the server, or does not leave it.                                 *)
LEMMA LocalKeepsRuns ==
    ASSUME RunInv, NEW r \in Run, LocalStep(r)
    PROVE  LocalShapes' /\ Pushing'
<1>1. PICK place \in {"idle", "reserve", "push", "prepare", "sync", "cancel", "execute"} \cup Ends :
        /\ local' = [local EXCEPT ![r] = place]
        /\ place \notin {"idle", "reserve", "unreserved"} =>
             \/ local[r] \notin {"idle", "reserve", "unreserved"}
             \/ answer[Reserver(r)] = "good"
  <2>1. CASE Push(r)
    BY <2>1 DEF Push, Continue
  <2>2. CASE Sync(r)
    BY <2>2 DEF Sync, Continue
  <2>3. CASE AskPrepare(r)
    <3>1. local' = [local EXCEPT ![r] = "prepare"]
      BY <2>3 DEF AskPrepare, RunInv, LocalShapes
    <3> QED
      BY <2>3, <3>1 DEF AskPrepare
  <2>4. CASE Submit(r) \/ Reserved(r) \/ ReserveFails(r) \/ Prepared(r)
    BY <2>4 DEF Submit, Reserved, ReserveFails, Prepared, Continue, Reserver, Ends
  <2>5. CASE TransferFails(r) \/ Withdrawn(r) \/ CancelFails(r) \/ Detach(r)
    BY <2>5 DEF TransferFails, Withdrawn, CancelFails, Detach, Continue, Ends
  <2>6. CASE Executed(r)
    BY <2>6 DEF Executed, ExitCodes, Continue, Ends
  <2> QED
    BY <2>1, <2>2, <2>3, <2>4, <2>5, <2>6 DEF LocalStep
<1>2. answer' = answer
  BY DEF LocalStep
<1> QED
  BY <1>1, <1>2 DEF RunInv, LocalShapes, Pushing

LEMMA RunBegins == LocalInit => RunInv
BY ControlBegins, ReserverIsClient
   DEF LocalInit, Init, RunInv, LocalShapes, Reserving, OneWinner, Pushing, Won

LEMMA RunStep == RunInv /\ [LocalNext]_runVars => RunInv'
<1> SUFFICES ASSUME RunInv, [LocalNext]_runVars PROVE RunInv'
  OBVIOUS
<1>1. [Next]_vars
  BY LocalIsLifecycle
<1>2. ControlInv'
  BY <1>1, ControlStep DEF RunInv
<1>3. ASSUME client' = client, answer' = answer, \A c \in Client : checked'[c] = checked[c]
      PROVE  Reserving' /\ OneWinner'
  BY <1>1, <1>3, StillWon, ReserverIsClient DEF ReserversStay
<1>4. ASSUME NEW r \in Run, LocalStep(r) PROVE RunInv'
  <2>1. client' = client /\ answer' = answer /\ checked' = checked
    BY <1>4 DEF LocalStep, vars
  <2> QED
    BY <1>2, <1>3, <1>4, <2>1, LocalKeepsRuns DEF RunInv
<1>5. ASSUME NEW r \in Run, PrepareRole(r) \/ PrepareBreaks(r) PROVE RunInv'
  <2>1. client' = client /\ answer' = answer /\ checked' = checked /\ local' = local
    BY <1>5 DEF PrepareRole, PrepareBreaks, vars
  <2> QED
    BY <1>2, <1>3, <2>1 DEF RunInv, LocalShapes, Pushing
<1>6. ASSUME NEW r \in Run, NEW call \in Calls, Call(r, call) PROVE RunInv'
  <2>1. <<r, call>> \in Client
    BY RunAssumption
  <2>2. Begin(<<r, call>>) /\ local' = local /\ answer' = answer
    BY <1>6 DEF Call, localVars
  <2>3. \A q \in Run : <<r, call>> = Reserver(q) => local[q] = "reserve"
    BY <1>6 DEF Call, Reserver
  <2>4. Reserving' /\ OneWinner' /\ Pushing'
    BY <1>1, <2>1, <2>2, <2>3, BeginKeepsRuns
  <2> QED
    BY <1>2, <2>2, <2>4 DEF RunInv, LocalShapes
<1>7. ASSUME NEW c \in Client, Elsewhere(c) PROVE RunInv'
  <2>1. Begin(c) /\ local' = local /\ answer' = answer
    BY <1>7 DEF Elsewhere, localVars
  <2>2. \A q \in Run : c # Reserver(q)
    BY <1>7 DEF Elsewhere, Reserver, Calls
  <2>3. Reserving' /\ OneWinner' /\ Pushing'
    BY <1>1, <2>1, <2>2, BeginKeepsRuns
  <2> QED
    BY <1>2, <2>1, <2>3 DEF RunInv, LocalShapes
<1>8. ASSUME NEW c \in Client, Serve(c) \/ Perish(c) PROVE RunInv'
  BY <1>1, <1>2, <1>8, ServerKeepsRuns DEF RunInv
<1>9. CASE UNCHANGED <<localVars, answer>> /\ (Others \/ \E j \in Job : JobStep(j))
  <2>1. client' = client /\ \A c \in Client : checked'[c] = checked[c]
    BY <1>9, JobStepsApart, OthersMove DEF RunInv
  <2> QED
    BY <1>2, <1>3, <1>9, <2>1 DEF RunInv, LocalShapes, Pushing, localVars
<1>10. CASE UNCHANGED runVars
  BY <1>2, <1>3, <1>10 DEF runVars, vars, localVars, RunInv, LocalShapes, Pushing
<1> QED
  BY <1>4, <1>5, <1>6, <1>7, <1>8, <1>9, <1>10 DEF LocalNext

(* Of the runs that name a job one pushes into its worktrees, cancels it or    *)
(* starts it: mkdir of the job's directory lets one reserve command through,   *)
(* and a run goes on with a good answer only, which is never given twice.      *)
THEOREM OneRunReserves == LocalSpec => []OneRunPerJob
<1>1. RunInv => OneRunPerJob
  BY DEF RunInv, Pushing, OneWinner, Won, OneRunPerJob
<1> QED
  BY <1>1, RunBegins, RunStep, PTL DEF LocalSpec

-------------------------------------------------------------------------------
(* Places of server commands *)

LEMMA ClientKeepsPlaces ==
    ASSUME ControlInv, InPlace, NEW c \in Client, ClientStep(c) \/ Begin(c) \/ Drop(c)
    PROVE  InPlace'
<1>1. \A d \in Client \ {c} : client'[d] = client[d] /\ checked'[d] = checked[d]
  BY CommandsApart
<1>2. /\ client'[c].op \in Ops[c] /\ Belongs(client'[c].op[1], client'[c].at)
      /\ checked'[c] => client'[c].at \in ChangePlaces
  <2> USE DEF ControlInv, Shapes, InPlace, Belongs, Goes
  <2>1. CASE MakeDirectory(c) \/ FillDirectory(c)
    BY <2>1 DEF MakeDirectory, FillDirectory, Starting, Stopping, ChangePlaces
  <2>2. CASE Lookup(c) \/ Decide(c) \/ AdmitDisk(c) \/ Follow(c)
    BY <2>2 DEF Lookup, Decide, AdmitDisk, Follow, Reads, Starting, Stopping, ChangePlaces
  <2>3. CASE Look(c) \/ Probe(c) \/ Reconcile(c) \/ Await(c) \/ Reprobe(c)
    BY <2>3 DEF Look, Probe, Reconcile, Await, Reprobe, Reads, Starting, Stopping, ChangePlaces
  <2>4. CASE Flag(c)
    BY <2>4 DEF Flag, Starting, Stopping, ChangePlaces
  <2>5. CASE ClientCheck(c)
    BY <2>5, ClientAssumption DEF ClientCheck, Target, At, ChangePlaces
  <2>6. CASE ClientWrite(c)
    BY <2>6, ClientAssumption DEF ClientWrite, Target, Starting, Stopping, ChangePlaces
  <2>7. CASE LaunchUnit(c)
    BY <2>7 DEF LaunchUnit, Starting, Stopping, ChangePlaces
  <2>8. CASE Kill(c)
    <3>1. JobOf(c) \in Job
      BY <2>8 DEF Kill, Called, Invocations, JobOf
    <3>2. checked'[c] = checked[c] /\ ~checked[c]
      BY <2>8, <3>1, ClientAssumption DEF Kill, ChangePlaces
    <3> QED
      BY <2>8, <3>2 DEF Kill, Starting, Stopping, ChangePlaces
  <2>9. CASE Begin(c)
    <3>1. PICK op \in Ops[c] :
            client' = [client EXCEPT ![c] =
                         [op |-> op,
                          at |-> CASE op[1] = "reserve" -> "mkdir"
                                   [] op[1] = "start"   -> "decide"
                                   [] op[1] \in {"execute", "logs"} -> "lookup"
                                   [] op[1] = "cancel"  -> "look"]]
      BY <2>9 DEF Begin
    <3>2. op[1] \in {"reserve", "start", "execute", "logs", "cancel"}
      BY OpsAssumption
    <3>3. client'[c].op = op /\ Belongs(op[1], client'[c].at)
      BY <3>1, <3>2 DEF Starting, Stopping
    <3>4. ~checked'[c]
      BY <2>9 DEF Begin, ChangePlaces
    <3> QED
      BY <3>3, <3>4
  <2>10. CASE Drop(c)
    BY <2>10, ClientAssumption DEF Drop
  <2> QED
    BY <2>1, <2>2, <2>3, <2>4, <2>5, <2>6, <2>7, <2>8, <2>9, <2>10 DEF ClientStep
<1> QED
  BY <1>1, <1>2 DEF InPlace

LEMMA PlaceStep ==
    ASSUME ControlInv, InPlace, [Next]_vars
    PROVE  InPlace'
<1>1. CASE client' = client /\ \A c \in Client : checked'[c] = checked[c]
  BY <1>1 DEF InPlace
<1>2. ASSUME NEW j \in Job, JobStep(j) PROVE InPlace'
  BY <1>1, <1>2, JobStepsApart
<1>3. CASE Others \/ UNCHANGED vars
  BY <1>1, <1>3 DEF Others, vars
<1> QED
  BY <1>2, <1>3, ClientKeepsPlaces DEF Next

(* Only a run starts a job. *)
LEMMA StarterIsRun ==
    ASSUME OnlyCancels, InPlace, NEW c \in Client,
           \/ client[c].at \in Starting
           \/ client[c].at \in {"mkdir", "fill"} /\ client[c].op[1] # "reserve"
    PROVE  \E r \in Run : /\ c = Executor(r) /\ TargetJob[r] \in Job
                          /\ JobOf(c) = TargetJob[r] /\ client[c].op[1] = "execute"
<1>1. client[c].at # "idle"
  BY DEF Starting
<1>2. client[c].op \in Ops[c] /\ Belongs(client[c].op[1], client[c].at)
  BY <1>1 DEF InPlace
<1>3. client[c].op[1] \in {"start", "execute"}
  BY <1>2 DEF Belongs, Starting, Stopping
<1>4. c \in Run \X Calls
  <2> SUFFICES ASSUME c \notin Run \X Calls PROVE FALSE
    OBVIOUS
  <2>1. client[c].op \in {"cancel", "logs"} \X Job
    BY <1>2 DEF OnlyCancels
  <2> QED
    BY <1>3, <2>1
<1>5. PICK r \in Run, call \in Calls : c = <<r, call>>
  BY <1>4
<1>6. client[c].op = <<call, TargetJob[r]>> /\ TargetJob[r] \in Job
  BY <1>2, <1>5, RunAssumption
<1>7. call = "execute"
  BY <1>3, <1>6 DEF Calls
<1> QED
  BY <1>5, <1>6, <1>7 DEF Executor, JobOf

-------------------------------------------------------------------------------
(* One start of a command *)

LEMMA WorkerSpawnsOnce ==
    ASSUME ControlInv, SpawnedOnce, NEW j \in Job, JobStep(j)
    PROVE  SpawnedOnce'
<1> USE DEF ControlInv, Shapes, Placed, SpawnedOnce, Phased
<1>1. CASE AskPool(j)
  BY <1>1, AskMoves
<1>2. CASE SetUp(j) \/ SetUpFailed(j) \/ CheckChange(j) \/ WriteChange(j)
  BY <1>2 DEF SetUp, SetUpFailed, CheckChange, WriteChange, Writing, poolState
<1>3. CASE Spawn(j)
  BY <1>3 DEF Spawn, Exited, poolState
<1>4. CASE Watch(j) \/ Interrupted(j)
  <2>1. \/ UNCHANGED <<pc, command, result>> /\ phase[j] \in {"watch", "interrupt"}
             /\ \E p \in {"toPassed", "toFailed", "toCancelled"} : phase' = [phase EXCEPT ![j] = p]
        \/ /\ UNCHANGED <<pc, result>> /\ command[j] \notin Exited
           /\ phase[j] = "watch" /\ phase' = [phase EXCEPT ![j] = "interrupt"]
           /\ command' = [command EXCEPT ![j] = "stopping"]
    BY <1>4 DEF Watch, Interrupted, Verdict, poolState
  <2> QED
    BY <2>1 DEF Exited
<1>5. CASE LeavePool(j)
  BY <1>5, LeaveMoves DEF Asking, Pool!Queueing
<1>6. CASE EndCommand(j) \/ ObeySignal(j) \/ LeftEnds(j)
  BY <1>6 DEF EndCommand, ObeySignal, Ended, LeftEnds, Exited, poolState
<1>7. CASE Crash(j)
  BY <1>7, CrashMoves DEF Crash, Asking, Pool!Queueing
<1>8. CASE SweepUnit(j) \/ KillUnit(j)
  BY <1>8 DEF SweepUnit, KillUnit, Exited, poolState
<1>9. CASE CollectUnit(j)
  BY <1>9 DEF CollectUnit, Pool!Reap, Pool!poolVars
<1> QED
  BY <1>1, <1>2, <1>3, <1>4, <1>5, <1>6, <1>7, <1>8, <1>9 DEF JobStep, Worker

(* Pool!Launch, said of the places of workers. *)
LEMMA LaunchMoves ==
    ASSUME NEW j \in Job, Pool!Launch(j)
    PROVE  pc' = [pc EXCEPT ![j] = "boot"]
BY DEF Pool!Launch, Pool!Goto

LEMMA ClientSpawnsOnce ==
    ASSUME ControlInv, SpawnedOnce, NEW c \in Client, ClientStep(c) \/ Begin(c) \/ Drop(c),
           client[c].at = "launch" => pc[JobOf(c)] = "off"
    PROVE  SpawnedOnce'
<1> USE DEF ControlInv, Shapes, Placed, SpawnedOnce, Phased
<1>1. CASE LaunchUnit(c)
  <2>1. JobOf(c) \in Job /\ command[JobOf(c)] = "none"
    BY <1>1 DEF LaunchUnit, Called, Invocations, JobOf
  <2> QED
    BY <1>1, <2>1, LaunchMoves DEF LaunchUnit, poolState
<1>2. CASE Kill(c)
  <2>1. JobOf(c) \in Job
    BY <1>2 DEF Kill, Called, Invocations, JobOf
  <2>2. \/ UNCHANGED <<pc, phase>>
        \/ pc' = [pc EXCEPT ![JobOf(c)] = "exited"] /\ phase' = [phase EXCEPT ![JobOf(c)] = "-"]
    BY <1>2, <2>1, CrashMoves DEF Kill, poolState
  <2>3. result' = result /\ command \in [Job -> CommandState]
    BY <1>2 DEF Kill
  <2>4. \/ command' = command
        \/ command[JobOf(c)] = "running" /\ command' = [command EXCEPT ![JobOf(c)] = "stopping"]
    BY <1>2 DEF Kill
  <2>5. \A k \in Job : \/ command'[k] = command[k]
                       \/ command[k] = "running" /\ command'[k] = "stopping"
    BY <2>1, <2>3, <2>4
  <2> QED
    BY <2>1, <2>2, <2>3, <2>5 DEF Exited, Asking, Pool!Queueing
<1>3. CASE UNCHANGED <<pc, phase, command, result>>
  BY <1>3
<1> QED
  BY <1>1, <1>2, <1>3
     DEF ClientStep, Begin, Drop, MakeDirectory, FillDirectory, Lookup, Decide, AdmitDisk,
         ClientCheck, ClientWrite, Look, Probe, Reconcile, Flag, Await, Reprobe, Follow, Reads,
         poolState

LEMMA SpawnStep ==
    ASSUME ControlInv, SpawnedOnce, [Next]_vars,
           \A c \in Client : client[c].at = "launch" => pc[JobOf(c)] = "off"
    PROVE  SpawnedOnce'
<1>1. CASE UNCHANGED <<pc, phase, command, result>>
  BY <1>1 DEF SpawnedOnce
<1>2. CASE Others \/ UNCHANGED vars
  BY <1>1, <1>2, OthersMove DEF vars, poolState
<1> QED
  BY <1>2, WorkerSpawnsOnce, ClientSpawnsOnce DEF Next

-------------------------------------------------------------------------------
(* The transfer *)

(* A step of LocalRun is one of the local side or of prepare-all, or leaves    *)
(* the variables of the runs alone.                                            *)
LEMMA RunMoves ==
    ASSUME [LocalNext]_runVars
    PROVE  \/ \E r \in Run : LocalStep(r) \/ PrepareRole(r) \/ PrepareBreaks(r)
           \/ UNCHANGED localVars
<1>1. ASSUME NEW r \in Run, NEW call \in Calls, Call(r, call) PROVE UNCHANGED localVars
  BY <1>1 DEF Call
<1>2. ASSUME NEW c \in Client, Serve(c) \/ Perish(c) \/ Elsewhere(c) PROVE UNCHANGED localVars
  BY <1>2 DEF Serve, Perish, Elsewhere
<1> QED
  BY <1>1, <1>2 DEF LocalNext, runVars

(* What a step of run r changes of the run itself. *)
LEMMA PlaceMoves ==
    ASSUME LocalShapes, NEW r \in Run, LocalStep(r)
    PROVE  /\ \A q \in Run \ {r} : local'[q] = local[q]
           /\ local[r] \in Executing => local'[r] \in Executing
           /\ local[r] \in Cancelling => local'[r] \in Cancelling
<1> USE DEF LocalShapes, Executing, Cancelling, Continue
<1>1. CASE Push(r)
  BY <1>1 DEF Push
<1>2. CASE AskPrepare(r)
  BY <1>2 DEF AskPrepare
<1>3. CASE Sync(r)
  BY <1>3 DEF Sync
<1>4. CASE Submit(r) \/ Reserved(r) \/ ReserveFails(r) \/ Prepared(r)
  BY <1>4 DEF Submit, Reserved, ReserveFails, Prepared
<1>5. CASE TransferFails(r) \/ Withdrawn(r) \/ CancelFails(r) \/ Detach(r)
  BY <1>5 DEF TransferFails, Withdrawn, CancelFails, Detach
<1>6. CASE Executed(r)
  BY <1>6 DEF Executed, ExitCodes
<1> QED
  BY <1>1, <1>2, <1>3, <1>4, <1>5, <1>6 DEF LocalStep

LEMMA TransferStep ==
    ASSUME LocalShapes, Transferred, [LocalNext]_runVars
    PROVE  /\ Transferred'
           /\ \A r \in Run : Whole(r) => Whole(r)'
<1> USE DEF Transferred, Whole
<1>1. ASSUME NEW r \in Run, LocalStep(r)
      PROVE  Transferred' /\ \A q \in Run : Whole(q) => Whole(q)'
  <2>1. CASE Push(r)
    <3>1. PICK role \in Role :
            /\ source[r][role] = "absent"
            /\ source' = [source EXCEPT ![r][role] = "pushed"]
            /\ local' = [local EXCEPT ![r] =
                 IF \E other \in Role \ {role} : source[r][other] = "absent"
                 THEN "push" ELSE "prepare"]
      BY <2>1 DEF Push, Continue
    <3>2. local[r] = "push" /\ prepare[r] = "none" /\ prepare' = prepare
      BY <2>1 DEF Push
    <3> QED
      BY <3>1, <3>2 DEF LocalShapes, Executing
  <2>2. CASE AskPrepare(r)
    BY <2>2 DEF AskPrepare, LocalShapes, Executing
  <2>3. CASE Sync(r)
    <3>1. PICK role \in Role :
            /\ source[r][role] = "clean"
            /\ source' = [source EXCEPT ![r][role] = "whole"]
            /\ local' = [local EXCEPT ![r] =
                 IF \E other \in Role \ {role} : source[r][other] = "clean"
                 THEN "sync" ELSE "execute"]
      BY <2>3 DEF Sync, Continue
    <3>2. local[r] = "sync" /\ prepare[r] = "good" /\ prepare' = prepare
      BY <2>3 DEF Sync
    <3> QED
      BY <3>1, <3>2 DEF LocalShapes, Executing
  <2>4. CASE /\ UNCHANGED <<source, prepare>>
             /\ \/ Submit(r) \/ Reserved(r) \/ ReserveFails(r) \/ Prepared(r)
                \/ TransferFails(r) \/ Withdrawn(r) \/ CancelFails(r) \/ Executed(r) \/ Detach(r)
    <3>1. PICK place \in {"reserve", "push", "sync", "cancel"} \cup Ends :
            /\ local' = [local EXCEPT ![r] = place]
            /\ place = "reserve" => local[r] = "idle"
            /\ place = "push" => local[r] = "reserve"
            /\ place = "sync" => prepare[r] = "good"
            /\ place \in Executing => local[r] \in Executing
      <4>1. CASE Submit(r) \/ Reserved(r) \/ ReserveFails(r) \/ Prepared(r)
        BY <4>1 DEF Submit, Reserved, ReserveFails, Prepared, Continue, Ends, Executing
      <4>2. CASE TransferFails(r) \/ Withdrawn(r) \/ CancelFails(r) \/ Detach(r)
        BY <4>2 DEF TransferFails, Withdrawn, CancelFails, Detach, Continue, Ends, Executing
      <4>3. CASE Executed(r)
        BY <4>3 DEF Executed, ExitCodes, Continue, Ends, Executing
      <4> QED
        BY <2>4, <4>1, <4>2, <4>3
    <3> QED
      BY <2>4, <3>1 DEF LocalShapes, Ends, Executing
  <2> QED
    BY <1>1, <2>1, <2>2, <2>3, <2>4 DEF LocalStep
<1>2. ASSUME NEW r \in Run, PrepareRole(r)
      PROVE  Transferred' /\ \A q \in Run : Whole(q) => Whole(q)'
  <2>1. PICK role \in Role :
          /\ source[r][role] = "pushed"
          /\ source' = [source EXCEPT ![r][role] = "clean"]
          /\ prepare' = IF \E other \in Role \ {role} : source[r][other] = "pushed"
                        THEN prepare ELSE [prepare EXCEPT ![r] = "good"]
    BY <1>2 DEF PrepareRole
  <2>2. prepare[r] = "working" /\ local' = local
    BY <1>2 DEF PrepareRole
  <2> QED
    BY <2>1, <2>2
<1>3. ASSUME NEW r \in Run, PrepareBreaks(r)
      PROVE  Transferred' /\ \A q \in Run : Whole(q) => Whole(q)'
  BY <1>3 DEF PrepareBreaks
<1>4. CASE UNCHANGED localVars
  BY <1>4 DEF localVars
<1> QED
  BY <1>1, <1>2, <1>3, <1>4, RunMoves

(* A run that executes its job, or has cancelled it, stays with that. *)
LEMMA RunsStay ==
    ASSUME LocalShapes, [LocalNext]_runVars, NEW r \in Run
    PROVE  /\ local[r] \in Executing => local'[r] \in Executing
           /\ local[r] \in Cancelling => local'[r] \in Cancelling
<1>1. ASSUME NEW q \in Run, PrepareRole(q) \/ PrepareBreaks(q) PROVE local' = local
  BY <1>1 DEF PrepareRole, PrepareBreaks
<1>2. ASSUME NEW q \in Run, LocalStep(q)
      PROVE  /\ local[r] \in Executing => local'[r] \in Executing
             /\ local[r] \in Cancelling => local'[r] \in Cancelling
  BY <1>2, PlaceMoves
<1> QED
  BY <1>1, <1>2, RunMoves DEF localVars

-------------------------------------------------------------------------------
(* Executions *)

LEMMA RunCommands ==
    ASSUME NEW r \in Run
    PROVE  /\ Executor(r) \in Client /\ Ops[Executor(r)] = {<<"execute", TargetJob[r]>>}
           /\ Canceller(r) \in Client /\ Ops[Canceller(r)] = {<<"cancel", TargetJob[r]>>}
           /\ TargetJob[r] \in Job
BY RunAssumption DEF Executor, Canceller, Calls

(* A command that has ended, or follows, comes to nothing else. *)
LEMMA EndsStay ==
    ASSUME ControlInv, [Next]_vars, NEW c \in Client
    PROVE  /\ client[c].at = "done" => client'[c] = client[c]
           /\ client[c].at = "follow" => client'[c].at \in {"follow", "done"}
<1>1. CASE client' = client
  BY <1>1
<1>2. ASSUME NEW d \in Client, ClientStep(d) \/ Begin(d) \/ Drop(d), client[c].at \in {"follow", "done"}
      PROVE  /\ client[c].at = "done" => client'[c] = client[c]
             /\ client[c].at = "follow" => client'[c].at \in {"follow", "done"}
  <2>1. CASE d # c
    BY <1>2, <2>1, CommandsApart
  <2>2. CASE d = c
    BY <1>2, <2>2
       DEF ClientStep, Begin, Drop, MakeDirectory, FillDirectory, Lookup, Decide, AdmitDisk,
           ClientCheck, ClientWrite, LaunchUnit, Look, Probe, Reconcile, Flag, Await, Reprobe,
           Kill, Follow, Reads, Goes, Target, ControlInv, Shapes
  <2> QED
    BY <2>1, <2>2
<1> QED
  BY <1>1, <1>2, JobStepsApart, OthersMove DEF Next, vars

(* The commands of a run begin where the run calls them. *)
LEMMA CallsOnly ==
    ASSUME ControlInv, [LocalNext]_runVars, NEW r \in Run, NEW call \in Calls,
           client[<<r, call>>].at = "idle", client'[<<r, call>>].at # "idle"
    PROVE  local[r] = call /\ local' = local
<1> DEFINE c == <<r, call>>
<1>1. c \in Client
  BY RunAssumption
<1>2. client' # client
  OBVIOUS
<1>3. ASSUME NEW d \in Client, ClientStep(d) \/ Drop(d) PROVE FALSE
  <2>1. d = c
    BY <1>1, <1>3, CommandsApart
  <2> QED
    BY <1>3, <2>1
       DEF ClientStep, Drop, MakeDirectory, FillDirectory, Lookup, Decide, AdmitDisk,
           ClientCheck, ClientWrite, LaunchUnit, Look, Probe, Reconcile, Flag, Await, Reprobe,
           Kill, Follow, Reads, Target
<1>4. ASSUME NEW d \in Client, Begin(d) PROVE d = c
  BY <1>1, <1>4, CommandsApart
<1>5. ASSUME NEW q \in Run, NEW other \in Calls, Call(q, other) PROVE local[r] = call /\ local' = local
  <2>1. <<q, other>> = c
    BY <1>4, <1>5, RunAssumption DEF Call
  <2> QED
    BY <1>5, <2>1 DEF Call, localVars
<1>6. ASSUME NEW d \in Client, Elsewhere(d) PROVE FALSE
  BY <1>4, <1>6 DEF Elsewhere
<1>7. ASSUME NEW q \in Run, LocalStep(q) \/ PrepareRole(q) \/ PrepareBreaks(q) PROVE FALSE
  BY <1>2, <1>7 DEF LocalStep, PrepareRole, PrepareBreaks, vars
<1>8. ASSUME Others \/ \E j \in Job : JobStep(j) PROVE FALSE
  BY <1>2, <1>8, JobStepsApart, OthersMove
<1> QED
  BY <1>2, <1>3, <1>5, <1>6, <1>7, <1>8 DEF LocalNext, Serve, Perish, runVars, vars

(* A worker begins where a server command starts its unit. *)
LEMMA LaunchOnly ==
    ASSUME ControlInv, [Next]_vars, NEW j \in Job, pc[j] = "off", pc'[j] # "off"
    PROVE  \E c \in Client :
             /\ client[c].at = "launch" /\ JobOf(c) = j
             /\ client'[c].at = IF client[c].op[1] = "execute" THEN "follow" ELSE "done"
<1> USE DEF ControlInv, Shapes
<1>1. ASSUME NEW k \in Job, JobStep(k) PROVE FALSE
  <2>1. CASE AskPool(k)
    BY <2>1, AskMoves DEF Asking, Pool!Queueing
  <2>2. CASE LeavePool(k)
    BY <2>2, LeaveMoves
  <2>3. CASE Crash(k)
    BY <2>3, CrashMoves DEF Crash
  <2>4. CASE CollectUnit(k)
    BY <2>4 DEF CollectUnit, Pool!Reap, Pool!poolVars
  <2> QED
    BY <1>1, <2>1, <2>2, <2>3, <2>4
       DEF JobStep, Worker, SetUp, SetUpFailed, CheckChange, WriteChange, Spawn, Watch,
           Interrupted, EndCommand, ObeySignal, Ended, LeftEnds, SweepUnit, KillUnit,
           poolState
<1>2. ASSUME NEW c \in Client, ClientStep(c) PROVE LaunchUnit(c) /\ Pool!Launch(JobOf(c))
  <2>1. CASE Kill(c)
    BY <2>1, CrashMoves DEF Kill, Called, Invocations, JobOf, poolState
  <2>2. CASE LaunchUnit(c)
    BY <2>2 DEF LaunchUnit, poolState
  <2> QED
    BY <1>2, <2>1, <2>2
       DEF ClientStep, MakeDirectory, FillDirectory, Lookup, Decide, AdmitDisk, ClientCheck,
           ClientWrite, Look, Probe, Reconcile, Flag, Await, Reprobe, Follow, Reads, poolState
<1>3. ASSUME NEW c \in Client, Begin(c) \/ Drop(c) PROVE FALSE
  BY <1>3 DEF Begin, Drop, poolState
<1>4. PICK c \in Client : LaunchUnit(c) /\ Pool!Launch(JobOf(c))
  BY <1>1, <1>2, <1>3, OthersMove DEF Next, vars, poolState
<1>5. JobOf(c) \in Job
  BY <1>4 DEF LaunchUnit, Called, Invocations, JobOf
<1>6. JobOf(c) = j
  BY <1>4, <1>5, LaunchMoves
<1>7. client'[c].at = IF client[c].op[1] = "execute" THEN "follow" ELSE "done"
  <2>1. pc' # pc
    OBVIOUS
  <2> QED
    BY <1>4, <2>1 DEF LaunchUnit, Goes, poolState
<1> QED
  BY <1>4, <1>6, <1>7 DEF LaunchUnit

(* Runs of one job that go past the reservation are one. *)
LEMMA SameRun ==
    ASSUME RunInv, NEW q \in Run, NEW r \in Run, TargetJob[q] = TargetJob[r],
           local[q] \in Executing \cup Cancelling, local[r] \in Executing \cup Cancelling
    PROVE  q = r
BY DEF RunInv, Pushing, OneWinner, Won, Executing, Cancelling

(* When the unit is started no worker has been there. *)
LEMMA FirstLaunch ==
    ASSUME OnlyCancels, RunInv, InPlace, WorkerHasRun, NEW c \in Client, client[c].at = "launch"
    PROVE  pc[JobOf(c)] = "off"
<1>1. PICK r \in Run : c = Executor(r) /\ TargetJob[r] \in Job /\ JobOf(c) = TargetJob[r]
  BY StarterIsRun DEF Starting
<1>2. local[r] \in Executing
  BY <1>1 DEF WorkerHasRun
<1> SUFFICES ASSUME pc[TargetJob[r]] # "off" PROVE FALSE
  BY <1>1
<1>3. PICK q \in Run : TargetJob[q] = TargetJob[r] /\ client[Executor(q)].at \in {"follow", "done"}
  BY <1>1 DEF WorkerHasRun
<1>4. local[q] \in Executing
  BY <1>3 DEF WorkerHasRun
<1>5. q = r
  BY <1>2, <1>3, <1>4, SameRun
<1> QED
  BY <1>1, <1>3, <1>5

LEMMA ExecutorStep ==
    ASSUME OnlyCancels, RunInv, InPlace, WorkerHasRun, [LocalNext]_runVars
    PROVE  WorkerHasRun'
<1>1. ControlInv /\ LocalShapes /\ [Next]_vars
  BY LocalIsLifecycle DEF RunInv
<1>2. ASSUME NEW r \in Run, client'[Executor(r)].at # "idle" PROVE local'[r] \in Executing
  <2>1. CASE client[Executor(r)].at # "idle"
    BY <1>1, <2>1, RunsStay DEF WorkerHasRun
  <2>2. CASE client[Executor(r)].at = "idle"
    BY <1>1, <1>2, <2>2, CallsOnly DEF Executor, Calls, Executing
  <2> QED
    BY <2>1, <2>2
<1>3. ASSUME NEW j \in Job, pc'[j] # "off"
      PROVE  \E r \in Run : TargetJob[r] = j /\ client'[Executor(r)].at \in {"follow", "done"}
  <2>1. CASE pc[j] # "off"
    <3>1. PICK r \in Run : TargetJob[r] = j /\ client[Executor(r)].at \in {"follow", "done"}
      BY <2>1 DEF WorkerHasRun
    <3> QED
      BY <1>1, <3>1, EndsStay, RunCommands
  <2>2. CASE pc[j] = "off"
    <3>1. PICK c \in Client :
            /\ client[c].at = "launch" /\ JobOf(c) = j
            /\ client'[c].at = IF client[c].op[1] = "execute" THEN "follow" ELSE "done"
      BY <1>1, <1>3, <2>2, LaunchOnly
    <3>2. PICK r \in Run : c = Executor(r) /\ JobOf(c) = TargetJob[r] /\ client[c].op[1] = "execute"
      BY <3>1, StarterIsRun DEF Starting
    <3> QED
      BY <3>1, <3>2
  <2> QED
    BY <2>1, <2>2
<1> QED
  BY <1>2, <1>3 DEF WorkerHasRun

(* What JobInv and CommandInv need of each other. *)
ExecutionInv == RunInv /\ JobInv /\ CommandInv

LEMMA ExecutionStep ==
    ASSUME OnlyCancels, ExecutionInv, [LocalNext]_runVars
    PROVE  ExecutionInv'
<1> USE DEF ExecutionInv, JobInv, CommandInv
<1>1. [Next]_vars /\ ControlInv /\ LocalShapes
  BY LocalIsLifecycle DEF RunInv
<1>2. RunInv'
  BY RunStep
<1>3. Passed' /\ InPlace'
  BY <1>1, PassedStep, PlaceStep
<1>4. SpawnedOnce'
  BY <1>1, FirstLaunch, SpawnStep
<1>5. Transferred'
  BY <1>1, TransferStep
<1>6. WorkerHasRun'
  BY ExecutorStep
<1> QED
  BY <1>2, <1>3, <1>4, <1>5, <1>6

LEMMA ExecutionBegins == LocalInit => ExecutionInv
<1> SUFFICES ASSUME LocalInit PROVE ExecutionInv
  OBVIOUS
<1>1. RunInv
  BY RunBegins
<1>2. JobInv
  BY DEF LocalInit, Init, JobInv, Passed, InPlace, SpawnedOnce
<1>3. CommandInv
  BY RunCommands DEF LocalInit, Init, CommandInv, Transferred, WorkerHasRun, Executing
<1> QED
  BY <1>1, <1>2, <1>3 DEF ExecutionInv

(* A command runs only on the worktrees its run has transferred completely:    *)
(* the worker is started by the execute command of a run, which the run sends  *)
(* when its transfer is over, and nothing changes the worktrees of a run then. *)
THEOREM CommandsSeeWorktrees == OnlyCancels => (LocalSpec => []CommandSeesWorktrees)
<1> SUFFICES ASSUME OnlyCancels PROVE LocalSpec => []CommandSeesWorktrees
  OBVIOUS
<1>1. ExecutionInv => CommandSeesWorktrees
  <2> SUFFICES ASSUME ExecutionInv, NEW j \in Job, command[j] # "none"
               PROVE  \E r \in Run : TargetJob[r] = j /\ Whole(r)
    BY DEF CommandSeesWorktrees, Whole
  <2>1. pc[j] # "off"
    BY DEF ExecutionInv, JobInv, SpawnedOnce
  <2>2. PICK r \in Run : TargetJob[r] = j /\ local[r] \in Executing
    BY <2>1 DEF ExecutionInv, CommandInv, WorkerHasRun
  <2> QED
    BY <2>2 DEF ExecutionInv, CommandInv, Transferred
<1>2. ExecutionInv /\ [LocalNext]_runVars => ExecutionInv'
  BY ExecutionStep
<1> QED
  BY <1>1, <1>2, ExecutionBegins, PTL DEF LocalSpec

-------------------------------------------------------------------------------
(* Exit code zero *)

(* A command whose own process has ended is not started again. *)
LEMMA EndedStays ==
    ASSUME ControlInv, SpawnedOnce, [Next]_vars, NEW j \in Job, command[j] \in Exited
    PROVE  command'[j] \in Exited /\ result'[j] = result[j]
<1> USE DEF ControlInv, Shapes
<1>1. ASSUME NEW k \in Job, JobStep(k) PROVE command'[j] \in Exited /\ result'[j] = result[j]
  <2>1. CASE Spawn(k)
    BY <2>1 DEF Spawn, SpawnedOnce, Exited
  <2>2. CASE Watch(k) \/ EndCommand(k) \/ ObeySignal(k) \/ LeftEnds(k) \/ SweepUnit(k)
    <3>1. \/ UNCHANGED <<command, result>>
          \/ UNCHANGED result /\ command[k] \notin Exited /\ command' = [command EXCEPT ![k] = "stopping"]
          \/ UNCHANGED result /\ command' = [command EXCEPT ![k] = "ended"]
          \/ /\ command[k] \notin Exited
             /\ \E e : command' = [command EXCEPT ![k] = e]
             /\ \E x : result' = [result EXCEPT ![k] = x]
      BY <2>2 DEF Watch, EndCommand, ObeySignal, Ended, LeftEnds, SweepUnit, Exited
    <3> QED
      BY <3>1 DEF Exited
  <2>3. CASE KillUnit(k)
    <3>1. command'[j] \in Exited
      BY <2>3 DEF KillUnit, Exited
    <3>2. command[k] = "left" => result' = result
      BY <2>3 DEF KillUnit
    <3>3. k = j => command[k] = "left"
      BY <2>3 DEF KillUnit, Exited
    <3> QED
      BY <2>3, <3>1, <3>2, <3>3 DEF KillUnit
  <2> QED
    BY <1>1, <2>1, <2>2, <2>3
       DEF JobStep, Worker, AskPool, SetUp, SetUpFailed, CheckChange, WriteChange, Interrupted,
           LeavePool, Crash, CollectUnit
<1>2. ASSUME NEW c \in Client, ClientStep(c) \/ Begin(c) \/ Drop(c)
      PROVE  command'[j] \in Exited /\ result'[j] = result[j]
  BY <1>2 DEF ClientStep, Begin, Drop, MakeDirectory, FillDirectory, Lookup, Decide, AdmitDisk,
              ClientCheck, ClientWrite, LaunchUnit, Look, Probe, Reconcile, Flag, Await, Reprobe,
              Kill, Follow, Reads, Exited
<1> QED
  BY <1>1, <1>2, OthersMove DEF Next, vars

LEMMA ReturnStep ==
    ASSUME ExecutionInv, Returned, [LocalNext]_runVars
    PROVE  Returned'
<1> USE DEF ExecutionInv, JobInv
<1> SUFFICES ASSUME NEW r \in Run, local'[r] = "zero"
             PROVE  command'[TargetJob[r]] \in Exited /\ result'[TargetJob[r]] = "zero"
  BY DEF Returned
<1>1. [Next]_vars /\ ControlInv /\ LocalShapes /\ TargetJob[r] \in Job
  BY LocalIsLifecycle, RunCommands DEF RunInv
<1>2. CASE local[r] = "zero"
  BY <1>1, <1>2, EndedStays DEF Returned
<1>3. CASE local[r] # "zero"
  <2>1. ASSUME NEW q \in Run, PrepareRole(q) \/ PrepareBreaks(q) PROVE FALSE
    BY <1>3, <2>1 DEF PrepareRole, PrepareBreaks
  <2>2. PICK q \in Run : LocalStep(q)
    BY <1>3, <2>1, RunMoves DEF localVars
  <2>3. q = r
    BY <1>1, <1>3, <2>2, PlaceMoves
  <2>4. Executed(r)
    BY <1>1, <1>3, <2>2, <2>3
       DEF LocalStep, Push, AskPrepare, Sync, Submit, Reserved, ReserveFails, Prepared,
           TransferFails, Withdrawn, CancelFails, Detach, Continue, LocalShapes
  <2>5. "zero" \in ExitCodes(TargetJob[r])
    BY <1>1, <2>4 DEF Executed, Continue, LocalShapes
  <2>6. status[TargetJob[r]] = "passed" \/ result[TargetJob[r]] = "zero"
    BY <2>5 DEF ExitCodes
  <2>7. command[TargetJob[r]] \in Exited /\ result[TargetJob[r]] = "zero"
    BY <1>1, <2>6 DEF Passed, SpawnedOnce
  <2> QED
    BY <2>2, <2>7 DEF LocalStep, vars
<1> QED
  BY <1>2, <1>3

(* Exit code zero on the developer's machine is that of the command, which ran *)
(* to its end on the whole worktrees of this run.                              *)
THEOREM ZeroIsSuccess == OnlyCancels => (LocalSpec => []ZeroMeansSuccess)
<1> SUFFICES ASSUME OnlyCancels PROVE LocalSpec => []ZeroMeansSuccess
  OBVIOUS
<1>1. LocalInit => Returned
  BY DEF LocalInit, Returned
<1>2. ExecutionInv /\ Returned => ZeroMeansSuccess
  BY DEF ExecutionInv, CommandInv, Transferred, Whole, Executing, Returned, ZeroMeansSuccess
<1>3. ExecutionInv /\ [LocalNext]_runVars => ExecutionInv'
  BY ExecutionStep
<1>4. ExecutionInv /\ Returned /\ [LocalNext]_runVars => Returned'
  BY ReturnStep
<1> QED
  BY <1>1, <1>2, <1>3, <1>4, ExecutionBegins, PTL DEF LocalSpec

-------------------------------------------------------------------------------
(* Withdrawn jobs *)

LEMMA UnexecutedIsOff ==
    ASSUME WorkerHasRun, NEW j \in Job, Unexecuted(j)
    PROVE  pc[j] = "off"
BY DEF WorkerHasRun, Unexecuted

(* What a step does to the status of a job that no run executes. *)
LEMMA QuietStatus ==
    ASSUME OnlyCancels, ExecutionInv, Quiet, [Next]_vars, NEW j \in Job, Unexecuted(j)
    PROVE  \/ status'[j] = status[j]
           \/ status[j] = "absent" /\ status'[j] = "partial"
           \/ status'[j] = "cancelled"
           \/ /\ status'[j] = "preparing"
              /\ \E c \in Client : client[c].at = "fill" /\ JobOf(c) = j
<1> USE DEF ExecutionInv, JobInv, CommandInv, RunInv, ControlInv, Shapes
<1>1. ASSUME NEW k \in Job, JobStep(k) PROVE status'[j] = status[j]
  <2>1. CASE WriteChange(k)
    <3>1. phase[j] = "-"
      BY UnexecutedIsOff DEF Placed
    <3> QED
      BY <2>1, <3>1 DEF WriteChange, Writing
  <2> QED
    BY <1>1, <2>1
       DEF JobStep, Worker, AskPool, SetUp, SetUpFailed, CheckChange, Spawn, Watch, Interrupted,
           LeavePool, EndCommand, ObeySignal, Ended, LeftEnds, Crash, SweepUnit,
           KillUnit, CollectUnit
<1>2. ASSUME NEW c \in Client, MakeDirectory(c)
      PROVE  \/ status'[j] = status[j]
             \/ status[j] = "absent" /\ status'[j] = "partial"
  <2>1. CASE JobOf(c) = j
    BY <1>2, <2>1 DEF MakeDirectory
  <2>2. CASE JobOf(c) # j
    BY <1>2, <2>2 DEF MakeDirectory
  <2> QED
    BY <2>1, <2>2
<1>3. ASSUME NEW c \in Client, FillDirectory(c)
      PROVE  \/ status'[j] = status[j]
             \/ status'[j] = "preparing" /\ client[c].at = "fill" /\ JobOf(c) = j
  BY <1>3 DEF FillDirectory
<1>4. ASSUME NEW c \in Client, ClientWrite(c)
      PROVE  status'[j] = status[j] \/ status'[j] = "cancelled"
  <2>1. CASE JobOf(c) # j
    BY <1>4, <2>1 DEF ClientWrite
  <2>2. CASE JobOf(c) = j
    <3>1. client[c].at \in ChangePlaces
      BY <1>4 DEF ClientWrite, InPlace
    <3>2. client[c].at \notin {"toQueued", "toRejected", "toAborted"}
      <4> SUFFICES ASSUME client[c].at \in Starting PROVE FALSE
        BY DEF Starting
      <4>1. PICK r \in Run : c = Executor(r) /\ JobOf(c) = TargetJob[r]
        BY StarterIsRun
      <4> QED
        BY <2>2, <4>1 DEF WorkerHasRun, Unexecuted, Starting
    <3>3. client[c].at = "toCancelled"
      BY <2>2, <3>1, <3>2 DEF Quiet, ChangePlaces, Stopping
    <3> QED
      BY <1>4, <2>2, <3>3 DEF ClientWrite, Target
  <2> QED
    BY <2>1, <2>2
<1>5. CASE status' = status
  BY <1>5
<1>6. ASSUME NEW c \in Client, ClientStep(c)
      PROVE  MakeDirectory(c) \/ FillDirectory(c) \/ ClientWrite(c) \/ status' = status
  BY <1>6 DEF ClientStep, Lookup, Decide, AdmitDisk, ClientCheck, LaunchUnit, Look, Probe,
              Reconcile, Flag, Await, Reprobe, Kill, Follow, Reads
<1>7. ASSUME NEW c \in Client, Begin(c) \/ Drop(c) PROVE status' = status
  BY <1>7 DEF Begin, Drop
<1> QED
  BY <1>1, <1>2, <1>3, <1>4, <1>5, <1>6, <1>7, OthersMove DEF Next, vars

(* A cancel that finds a job preparing or cancelled does not stop a worker. *)
LEMMA QuietPlaces ==
    ASSUME ExecutionInv, Quiet, [Next]_vars, NEW j \in Job, Unexecuted(j),
           NEW c \in Client, client'[c].at \in Stopping
    PROVE  client'[c].op[2] # j
<1> USE DEF ExecutionInv, RunInv, ControlInv, Shapes
<1>1. CASE client'[c] = client[c]
  BY <1>1 DEF Quiet, JobOf
<1>2. ASSUME ClientStep(c) PROVE client'[c].op[2] # j
  <2>1. CASE Look(c)
    <3>1. client'[c].op = client[c].op
      BY <2>1 DEF Look, Goes
    <3>2. JobOf(c) = j => client'[c].at \in {"done", "toCancelled"}
      BY <2>1 DEF Look, Goes, Exists, FinalStates, Quiet
    <3> QED
      BY <3>1, <3>2 DEF JobOf, Stopping
  <2>2. client[c].at \in Stopping => JobOf(c) # j
    BY DEF Quiet
  <2>3. CASE client[c].at \in Stopping
    <3>1. client'[c].op = client[c].op
      BY <1>2 DEF ClientStep, MakeDirectory, FillDirectory, Lookup, Decide, AdmitDisk, ClientCheck,
                  ClientWrite, LaunchUnit, Look, Probe, Reconcile, Flag, Await, Reprobe, Kill,
                  Follow, Reads, Goes
    <3> QED
      BY <2>2, <2>3, <3>1 DEF JobOf
  <2>4. CASE client[c].at \notin Stopping /\ ~Look(c)
    BY <1>2, <2>4
       DEF ClientStep, MakeDirectory, FillDirectory, Lookup, Decide, AdmitDisk, ClientCheck,
           ClientWrite, LaunchUnit, Probe, Reconcile, Flag, Await, Reprobe, Kill, Follow, Reads,
           Goes, Stopping
  <2> QED
    BY <2>1, <2>3, <2>4
<1>3. ASSUME Begin(c) \/ Drop(c) PROVE FALSE
  <2>1. CASE Begin(c)
    <3>1. PICK op \in Ops[c] :
            client' = [client EXCEPT ![c] =
                         [op |-> op,
                          at |-> CASE op[1] = "reserve" -> "mkdir"
                                   [] op[1] = "start"   -> "decide"
                                   [] op[1] \in {"execute", "logs"} -> "lookup"
                                   [] op[1] = "cancel"  -> "look"]]
      BY <2>1 DEF Begin
    <3>2. op[1] \in {"reserve", "start", "execute", "logs", "cancel"}
      BY OpsAssumption
    <3> QED
      BY <3>1, <3>2 DEF Stopping
  <2>2. CASE Drop(c)
    BY <2>2 DEF Drop, Goes, Stopping
  <2> QED
    BY <1>3, <2>1, <2>2
<1>4. ASSUME NEW d \in Client \ {c}, ClientStep(d) \/ Begin(d) \/ Drop(d) PROVE client'[c] = client[c]
  BY <1>4, CommandsApart
<1> QED
  BY <1>1, <1>2, <1>3, <1>4, JobStepsApart, OthersMove DEF Next, vars

LEMMA QuietStep ==
    ASSUME OnlyCancels, ExecutionInv, Quiet, [LocalNext]_runVars
    PROVE  Quiet'
<1>1. [Next]_vars /\ LocalShapes
  BY LocalIsLifecycle DEF ExecutionInv, RunInv
<1> SUFFICES ASSUME NEW j \in Job, Unexecuted(j)'
             PROVE  /\ status'[j] \in {"absent", "partial", "preparing", "cancelled"}
                    /\ \A c \in Client : client'[c].at \in Stopping => client'[c].op[2] # j
  BY DEF Quiet, JobOf
<1>2. Unexecuted(j)
  BY <1>1, RunsStay DEF Unexecuted
<1>3. status'[j] \in {"absent", "partial", "preparing", "cancelled"}
  BY <1>1, <1>2, QuietStatus DEF Quiet
<1> QED
  BY <1>1, <1>2, <1>3, QuietPlaces

(* A run that cancels its job is the one that has reserved it: nobody executes *)
(* the job, and no command is about to fill its directory.                     *)
LEMMA CancellerAlone ==
    ASSUME OnlyCancels, ExecutionInv, NEW r \in Run, local[r] \in Cancelling
    PROVE  /\ Unexecuted(TargetJob[r])
           /\ \A c \in Client : client[c].at = "fill" => JobOf(c) # TargetJob[r]
<1> USE DEF ExecutionInv, JobInv, CommandInv
<1>1. Unexecuted(TargetJob[r])
  <2> SUFFICES ASSUME NEW q \in Run, TargetJob[q] = TargetJob[r], local[q] \in Executing PROVE FALSE
    BY DEF Unexecuted
  <2>1. q = r
    BY SameRun
  <2> QED
    BY <2>1 DEF Executing, Cancelling
<1>2. answer[Reserver(r)] = "good" /\ client[Reserver(r)].at = "done"
  BY DEF RunInv, Pushing, Reserving, Cancelling
<1>3. ASSUME NEW c \in Client, client[c].at = "fill", JobOf(c) = TargetJob[r] PROVE FALSE
  <2>1. CASE client[c].op[1] # "reserve"
    <3>1. PICK q \in Run : c = Executor(q) /\ JobOf(c) = TargetJob[q]
      BY <1>3, <2>1, StarterIsRun
    <3> QED
      BY <1>1, <1>3, <3>1 DEF WorkerHasRun, Unexecuted
  <2>2. CASE client[c].op[1] = "reserve"
    <3>1. client[c].op \in Ops[c]
      BY <1>3 DEF InPlace
    <3>2. c \in Run \X Calls
      <4> SUFFICES ASSUME c \notin Run \X Calls PROVE FALSE
        OBVIOUS
      <4>1. client[c].op \in {"cancel", "logs"} \X Job
        BY <3>1 DEF OnlyCancels
      <4> QED
        BY <2>2, <4>1
    <3>3. PICK q \in Run, call \in Calls : c = <<q, call>>
      BY <3>2
    <3>4. client[c].op = <<call, TargetJob[q]>>
      BY <3>1, <3>3, RunAssumption
    <3>5. c = Reserver(q) /\ TargetJob[q] = TargetJob[r]
      BY <1>3, <2>2, <3>3, <3>4 DEF Reserver, JobOf
    <3>6. q = r
      BY <1>2, <1>3, <3>5 DEF RunInv, OneWinner, Won
    <3> QED
      BY <1>2, <1>3, <3>5, <3>6
  <2> QED
    BY <2>1, <2>2
<1> QED
  BY <1>1, <1>3

(* The good answer of a cancel command of such a run. *)
LEMMA GoodCancel ==
    ASSUME OnlyCancels, ExecutionInv, Quiet, CancelBelieved, NEW r \in Run, Serve(Canceller(r)),
           answer[Canceller(r)] # "good", answer'[Canceller(r)] = "good"
    PROVE  client'[Canceller(r)].at = "done" /\ status'[TargetJob[r]] \in FinalStates
<1> DEFINE c == Canceller(r)
<1> USE DEF ExecutionInv, JobInv, CommandInv, RunInv, ControlInv, Shapes, LocalShapes
<1>1. c \in Client /\ Ops[c] = {<<"cancel", TargetJob[r]>>} /\ TargetJob[r] \in Job
  BY RunCommands
<1>2. ClientStep(c) /\ client'[c].at = "done" /\ EndsWell(c)
  BY <1>1 DEF Serve
<1>3. client[c].at # "idle"
  BY <1>2 DEF ClientStep, MakeDirectory, FillDirectory, Lookup, Decide, AdmitDisk, ClientCheck,
              ClientWrite, LaunchUnit, Look, Probe, Reconcile, Flag, Await, Reprobe, Kill, Follow,
              Reads, Target
<1>4. client[c].op = <<"cancel", TargetJob[r]>> /\ Belongs("cancel", client[c].at)
  <2>1. client[c].op = <<"cancel", TargetJob[r]>> /\ Belongs(client[c].op[1], client[c].at)
    BY <1>1, <1>3 DEF InPlace
  <2> QED
    BY <2>1
<1>5. local[r] \in Cancelling
  BY <1>3 DEF CancelBelieved
<1>6. JobOf(c) = TargetJob[r]
  BY <1>4 DEF JobOf
<1>7. client[c].at \notin Stopping
  BY <1>1, <1>5, <1>6, CancellerAlone DEF Quiet
<1>8. client[c].at # "done"
  BY <1>2 DEF ClientStep, MakeDirectory, FillDirectory, Lookup, Decide, AdmitDisk, ClientCheck,
              ClientWrite, LaunchUnit, Look, Probe, Reconcile, Flag, Await, Reprobe, Kill, Follow,
              Reads, Target
<1>9. client[c].at \in {"look", "toCancelled"}
  BY <1>4, <1>7, <1>8 DEF Belongs
<1>10. CASE client[c].at = "look"
  <2>1. ~checked[c]
    BY <1>1, <1>10 DEF InPlace, ChangePlaces
  <2>2. Exists(status[TargetJob[r]])
    BY <1>2, <1>6, <1>10, <2>1 DEF EndsWell
  <2>3. Look(c)
    BY <1>2, <1>10
       DEF ClientStep, MakeDirectory, FillDirectory, Lookup, Decide, AdmitDisk, ClientCheck,
           ClientWrite, LaunchUnit, Probe, Reconcile, Flag, Await, Reprobe, Kill, Follow, Reads,
           Target
  <2>4. status[TargetJob[r]] \in FinalStates /\ status' = status
    BY <1>1, <1>2, <1>6, <2>2, <2>3 DEF Look, Reads, Goes
  <2> QED
    BY <1>2, <2>4
<1>11. CASE client[c].at = "toCancelled"
  <2>1. checked[c]
    BY <1>2, <1>11 DEF EndsWell
  <2>2. ClientWrite(c)
    BY <1>2, <1>11, <2>1
       DEF ClientStep, MakeDirectory, FillDirectory, Lookup, Decide, AdmitDisk, ClientCheck,
           LaunchUnit, Look, Probe, Reconcile, Flag, Await, Reprobe, Kill, Follow, Reads, Target
  <2>3. status'[TargetJob[r]] = "cancelled"
    BY <1>1, <1>6, <1>11, <2>2 DEF ClientWrite, Target
  <2> QED
    BY <1>2, <2>3 DEF FinalStates
<1> QED
  BY <1>9, <1>10, <1>11

(* The answer of a command that has ended stays. *)
LEMMA AnswerStays ==
    ASSUME LocalShapes, [LocalNext]_runVars, NEW c \in Client, answer'[c] # answer[c]
    PROVE  (Serve(c) \/ Perish(c)) /\ client[c].at # "done"
<1>1. answer' # answer
  OBVIOUS
<1>2. PICK d \in Client : Serve(d) \/ Perish(d)
  BY <1>1 DEF LocalNext, LocalStep, PrepareRole, PrepareBreaks, Call, Elsewhere, runVars
<1>3. d = c
  BY <1>2 DEF Serve, Perish, LocalShapes
<1>4. client[c].at # "done"
  BY <1>2, <1>3
     DEF Serve, Perish, Drop, ClientStep, MakeDirectory, FillDirectory, Lookup, Decide, AdmitDisk,
         ClientCheck, ClientWrite, LaunchUnit, Look, Probe, Reconcile, Flag, Await, Reprobe, Kill,
         Follow, Reads, Target
<1> QED
  BY <1>2, <1>3, <1>4

LEMMA CancelStep ==
    ASSUME OnlyCancels, ExecutionInv, Quiet, CancelBelieved, [LocalNext]_runVars
    PROVE  CancelBelieved'
<1>1. [Next]_vars /\ LocalShapes /\ ControlInv
  BY LocalIsLifecycle DEF ExecutionInv, RunInv
<1> SUFFICES ASSUME NEW r \in Run
             PROVE  /\ client'[Canceller(r)].at # "idle" => local'[r] \in Cancelling
                    /\ answer'[Canceller(r)] = "good" =>
                         /\ client'[Canceller(r)].at = "done"
                         /\ status'[TargetJob[r]] \in FinalStates
                    /\ local'[r] = "withdrawn" => answer'[Canceller(r)] = "good"
  BY DEF CancelBelieved
<1>2. Canceller(r) \in Client /\ TargetJob[r] \in Job
  BY RunCommands
<1>3. client'[Canceller(r)].at # "idle" => local'[r] \in Cancelling
  <2>1. CASE client[Canceller(r)].at # "idle"
    BY <1>1, <2>1, RunsStay DEF CancelBelieved
  <2>2. CASE client[Canceller(r)].at = "idle"
    BY <1>1, <2>2, CallsOnly DEF Canceller, Calls, Cancelling
  <2> QED
    BY <2>1, <2>2
<1>4. ASSUME answer[Canceller(r)] = "good" PROVE answer'[Canceller(r)] = "good"
  BY <1>1, <1>2, <1>4, AnswerStays DEF CancelBelieved
<1>5. ASSUME answer'[Canceller(r)] = "good"
      PROVE  client'[Canceller(r)].at = "done" /\ status'[TargetJob[r]] \in FinalStates
  <2>1. CASE answer[Canceller(r)] = "good"
    <3>1. client[Canceller(r)].at = "done" /\ status[TargetJob[r]] \in FinalStates
      BY <2>1 DEF CancelBelieved
    <3>2. local[r] \in Cancelling
      BY <3>1 DEF CancelBelieved
    <3>3. status'[TargetJob[r]] \in {status[TargetJob[r]], "cancelled"}
      BY <1>1, <1>2, <3>1, <3>2, CancellerAlone, QuietStatus DEF FinalStates
    <3> QED
      BY <1>1, <1>2, <3>1, <3>3, EndsStay DEF FinalStates
  <2>2. CASE answer[Canceller(r)] # "good"
    <3>1. Serve(Canceller(r)) \/ Perish(Canceller(r))
      BY <1>1, <1>2, <1>5, <2>2, AnswerStays
    <3>2. ~Perish(Canceller(r))
      BY <1>1, <1>2, <1>5 DEF Perish, LocalShapes
    <3> QED
      BY <1>5, <2>2, <3>1, <3>2, GoodCancel
  <2> QED
    BY <2>1, <2>2
<1>6. ASSUME local'[r] = "withdrawn" PROVE answer'[Canceller(r)] = "good"
  <2>1. CASE local[r] = "withdrawn"
    BY <1>4, <2>1 DEF CancelBelieved
  <2>2. CASE local[r] # "withdrawn"
    <3>1. ASSUME NEW q \in Run, PrepareRole(q) \/ PrepareBreaks(q) PROVE FALSE
      BY <1>6, <2>2, <3>1 DEF PrepareRole, PrepareBreaks
    <3>2. PICK q \in Run : LocalStep(q)
      BY <1>6, <2>2, <3>1, RunMoves DEF localVars
    <3>3. q = r
      BY <1>1, <1>6, <2>2, <3>2, PlaceMoves
    <3>4. Withdrawn(r)
      BY <1>1, <1>6, <2>2, <3>2, <3>3
         DEF LocalStep, Push, AskPrepare, Sync, Submit, Reserved, ReserveFails, Prepared,
             TransferFails, CancelFails, Executed, ExitCodes, Detach, Continue, LocalShapes
    <3> QED
      BY <3>2, <3>4 DEF Withdrawn, Canceller, LocalStep
  <2> QED
    BY <2>1, <2>2
<1> QED
  BY <1>3, <1>5, <1>6

(* A run that heard that its job is cancelled leaves a final job that was      *)
(* never started: its own execute command was not sent, another run cannot     *)
(* have reserved the job, and the cancel command either made the state         *)
(* "cancelled" or found it.                                                    *)
THEOREM WithdrawnStaysOver == OnlyCancels => (LocalSpec => []WithdrawnIsOver)
<1> SUFFICES ASSUME OnlyCancels PROVE LocalSpec => []WithdrawnIsOver
  OBVIOUS
<1>1. LocalInit => CancelInv
  BY RunCommands DEF LocalInit, Init, CancelInv, Quiet, CancelBelieved, Stopping
<1>2. ExecutionInv /\ CancelInv => WithdrawnIsOver
  <2> SUFFICES ASSUME ExecutionInv, CancelInv, NEW r \in Run, local[r] = "withdrawn"
               PROVE  /\ TargetJob[r] \in Finished
                      /\ pc[TargetJob[r]] = "off" /\ command[TargetJob[r]] = "none"
    BY DEF WithdrawnIsOver
  <2>1. TargetJob[r] \in Job
    BY RunCommands
  <2>2. status[TargetJob[r]] \in FinalStates
    BY DEF CancelInv, CancelBelieved
  <2>3. pc[TargetJob[r]] = "off"
    BY <2>1, CancellerAlone, UnexecutedIsOff DEF Cancelling, ExecutionInv, CommandInv
  <2>4. command[TargetJob[r]] = "none"
    BY <2>1, <2>3 DEF ExecutionInv, JobInv, SpawnedOnce
  <2> QED
    BY <2>1, <2>2, <2>3, <2>4 DEF Finished
<1>3. ExecutionInv /\ [LocalNext]_runVars => ExecutionInv'
  BY ExecutionStep
<1>4. ExecutionInv /\ CancelInv /\ [LocalNext]_runVars => CancelInv'
  BY QuietStep, CancelStep DEF CancelInv
<1> QED
  BY <1>1, <1>2, <1>3, <1>4, ExecutionBegins, PTL DEF LocalSpec
-------------------------------------------------------------------------------
(* The runner and the types *)

(* "trie-run run" uses the server as JobLifecycle says it is used, with        *)
(* connections that break and answers that get lost: what is proved of Spec    *)
(* for any commands holds of every local run.                                  *)
THEOREM LocalUsesServer == LocalSpec => Spec
BY LocalIsLifecycle, PTL DEF LocalSpec, LocalInit, Spec

(* Each variable of both sides keeps its type.                                 *)
THEOREM LocalTyped == LocalSpec => []LocalTypeOK
<1>1. LocalInit => Transferred
  BY DEF LocalInit, Transferred, Executing
<1>2. RunInv /\ Transferred /\ [LocalNext]_runVars => Transferred'
  BY TransferStep DEF RunInv
<1>3. TypeOK /\ RunInv /\ Transferred => LocalTypeOK
  BY DEF RunInv, LocalShapes, Transferred, LocalTypeOK
<1> QED
  BY <1>1, <1>2, <1>3, RunBegins, RunStep, LocalUsesServer, RunnerTyped, PTL DEF LocalSpec
===============================================================================
