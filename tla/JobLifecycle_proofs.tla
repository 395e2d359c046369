------------------------- MODULE JobLifecycle_proofs --------------------------
(* Theorems about JobLifecycle: what the status file of a job says of its      *)
(* worker and command, for any jobs, commands and crashes.                     *)
EXTENDS JobLifecycle, TLAPS

Asking == {"boot", "enter", "withdraw"} \cup Pool!Queueing
Begun == {"queued", "running"} \cup FinalStates
Invocations == {"reserve", "start", "execute", "logs", "cancel"} \X Job

(* The variables of workers and commands hold what the code puts there. *)
Shapes ==
    /\ pc \in [Job -> Pool!Place]
    /\ live \subseteq Job
    /\ status \in [Job -> States]
    /\ phase \in [Job -> Phase]
    /\ command \in [Job -> CommandState]
    /\ result \in [Job -> {"none", "zero", "nonzero"}]
    /\ checked \in [Job \cup Client -> BOOLEAN]
    /\ client \in [Client -> [op : Invocations \cup {NoOp}, at : At]]

Called == \A c \in Client : client[c].at # "idle" => client[c].op \in Invocations

(* run_job is in a phase of its own while it has a lease, and its process in   *)
(* the unit.                                                                   *)
Placed ==
    \A j \in Job :
        /\ pc[j] \in Asking \cup {"off"} => phase[j] = "-"
        /\ pc[j] = "releasing" => phase[j] \in {"toCancelled", "over"}
        /\ pc[j] = "exited" => phase[j] \in {"-", "over"}
        /\ pc[j] = "off" => j \notin live
        /\ pc[j] \notin {"off", "exited"} => j \in live

ChecksInside == \A j \in Job : checked[j] => phase[j] \in Writing

ControlInv == Shapes /\ Called /\ Placed /\ ChecksInside

(* A passed job has a command that ended with zero, and no worker that could   *)
(* start another one.                                                          *)
Passed ==
    \A j \in Job :
        /\ phase[j] = "toPassed" => command[j] \in Exited /\ result[j] = "zero"
        /\ status[j] = "passed" =>
             /\ command[j] \in Exited /\ result[j] = "zero"
             /\ phase[j] \notin {"spawn", "watch", "interrupt"}
             /\ ~(phase[j] = "toRunning" /\ checked[j])

(* What the status of a job is while its worker is at work.                    *)
Recorded ==
    \A j \in Job :
        /\ j \in live => status[j] \in Begun
        /\ pc[j] \in Asking \/ phase[j] \in {"setup", "setupFailed", "toRunning"}
             => status[j] = "queued"
        /\ phase[j] \in {"spawn", "watch", "interrupt", "toPassed"} => status[j] = "running"
        /\ phase[j] \in {"toFailed", "toCancelled"} => status[j] \in {"queued", "running"}
        /\ phase[j] = "over" => status[j] \in FinalStates

(* A command runs in a unit that is not inactive, of a job that is "running";  *)
(* what it left running is in such a unit too.                                 *)
Commanded ==
    \A j \in Job :
        /\ command[j] \in {"running", "stopping"} =>
             /\ j \in live /\ status[j] = "running"
             /\ phase[j] \in {"-", "watch", "interrupt"}
        /\ command[j] = "left" => j \in live

(* One server command at a time, besides those that follow jobs.               *)
Alone ==
    \A c, d \in Client : client[c].at \notin Resting /\ client[d].at \notin Resting => c = d

(* What a server command knows of its job.                                     *)
Known(c) ==
    LET place == client[c].at
        state == status[JobOf(c)]
    IN  /\ place = "fill" => state = "partial"
        /\ place \in {"admit", "toQueued", "toRejected", "toCancelled"} => state = "preparing"
        /\ place \in {"launch", "toAborted"} => state = "queued"
        /\ place = "toGone" => state \in {"queued", "running"}
        /\ place \in {"probe", "flag", "await", "reprobe", "reconcile"} => state \in Begun
        /\ place \in {"launch", "toAborted", "toGone", "reconcile"} => JobOf(c) \notin live

ClientsKnow == \A c \in Client : Known(c)

SerialInv == Recorded /\ Commanded /\ Alone /\ ClientsKnow

-------------------------------------------------------------------------------
(* What the pool does to the worker that asks it. *)

LEMMA PoolMoves ==
    ASSUME pc \in [Job -> Pool!Place], NEW j \in Job, Pool!OpenPool(j) \/ Pool!Waiting(j)
    PROVE  /\ pc[j] \in Asking
           /\ \E q \in Asking \cup {"admitted", "releasing"} : pc' = [pc EXCEPT ![j] = q]
           /\ live' = live
<1> USE DEF Asking, Pool!Queueing, Pool!Goto
<1>1. CASE Pool!OpenPool(j)
  BY <1>1 DEF Pool!OpenPool
<1>2. CASE \E dead \in Pool!Probes : Pool!Enter(j, dead)
  BY <1>2 DEF Pool!Enter
<1>3. CASE \E dead \in Pool!Probes : Pool!Poll(j, dead)
  BY <1>3 DEF Pool!Poll
<1>4. CASE Pool!CheckCancel(j)
  BY <1>4 DEF Pool!CheckCancel
<1>5. CASE Pool!Withdraw(j)
  BY <1>5 DEF Pool!Withdraw
<1>6. CASE Pool!TrySlot(j)
  <2>1. pc' = [pc EXCEPT ![j] = "scan"]
    BY <1>6 DEF Pool!TrySlot
  <2> QED
    BY <1>6, <2>1 DEF Pool!TrySlot
<1>7. CASE Pool!Admit(j)
  BY <1>7 DEF Pool!Admit
<1>8. CASE Pool!GiveUp(j)
  BY <1>8 DEF Pool!GiveUp
<1> QED
  BY <1>1, <1>2, <1>3, <1>4, <1>5, <1>6, <1>7, <1>8 DEF Pool!Waiting

(* A worker that asks goes on asking, or gets a lease, or has to withdraw.     *)
LEMMA AskMoves ==
    ASSUME ControlInv, NEW j \in Job, AskPool(j)
    PROVE  \E q \in Asking \cup {"admitted", "releasing"} :
             /\ pc[j] \in Asking /\ phase[j] = "-"
             /\ pc' = [pc EXCEPT ![j] = q]
             /\ phase' = [phase EXCEPT ![j] = CASE q = "admitted" -> "setup"
                                                [] q = "releasing" -> "toCancelled"
                                                [] OTHER -> "-"]
             /\ UNCHANGED <<live, status, command, result, checked, client>>
<1> USE DEF ControlInv, Shapes
<1>1. PICK q \in Asking \cup {"admitted", "releasing"} : pc' = [pc EXCEPT ![j] = q]
  BY PoolMoves DEF AskPool
<1>2. pc[j] \in Asking /\ live' = live
  BY PoolMoves DEF AskPool
<1>3. pc'[j] = q
  BY <1>1
<1>4. phase[j] = "-"
  BY <1>2 DEF Placed
<1>5. phase' = [phase EXCEPT ![j] = AfterPool(j, q)]
  BY <1>3 DEF AskPool, Phased
<1> QED
  BY <1>1, <1>2, <1>4, <1>5 DEF AskPool, AfterPool

(* A worker whose run_job is over releases its permits and exits.              *)
LEMMA LeaveMoves ==
    ASSUME Shapes, NEW j \in Job, LeavePool(j)
    PROVE  /\ phase[j] = "over"
           /\ \E q \in {"releasing", "exited"} :
                /\ q = "exited" => pc[j] = "releasing"
                /\ pc[j] \in {"admitted", "releasing"}
                /\ pc' = [pc EXCEPT ![j] = q]
           /\ UNCHANGED <<live, status, phase, command, result, checked, client>>
<1> USE DEF LeavePool, Shapes
<1>1. CASE Pool!Conclude(j)
  BY <1>1 DEF Pool!Conclude, Pool!Goto
<1>2. CASE Pool!Release(j)
  <2>1. pc' = [pc EXCEPT ![j] = "releasing"]
    BY <1>2 DEF Pool!Release
  <2> QED
    BY <1>2, <2>1 DEF Pool!Release
<1>3. CASE Pool!Exit(j)
  BY <1>3 DEF Pool!Exit, Pool!Goto
<1> QED
  BY <1>1, <1>2, <1>3

(* A killed worker leaves its unit and its command. *)
LEMMA CrashMoves ==
    ASSUME NEW j \in Job, Pool!Crash(j)
    PROVE  pc[j] \notin {"off", "exited"} /\ pc' = [pc EXCEPT ![j] = "exited"] /\ live' = live
BY DEF Pool!Crash, Pool!Goto

-------------------------------------------------------------------------------
(* Control *)

(* A step of a server command that only changes its own place. *)
LEMMA ClientMoves ==
    ASSUME Shapes, Called, NEW c \in Client, client[c].at # "idle", NEW p \in At, Goes(c, p)
    PROVE  /\ client' \in [Client -> [op : Invocations \cup {NoOp}, at : At]]
           /\ Called'
BY DEF Shapes, Called, Goes

LEMMA WorkerKeepsControl ==
    ASSUME ControlInv, NEW j \in Job, Worker(j)
    PROVE  ControlInv'
<1> USE ClientAssumption DEF ControlInv, Shapes, Placed, ChecksInside, Phased
<1>0. UNCHANGED client => Called'
  BY DEF Called
<1>1. CASE AskPool(j)
  <2>1. PICK q \in Asking \cup {"admitted", "releasing"} :
             /\ pc[j] \in Asking /\ phase[j] = "-"
             /\ pc' = [pc EXCEPT ![j] = q]
             /\ phase' = [phase EXCEPT ![j] = CASE q = "admitted" -> "setup"
                                                [] q = "releasing" -> "toCancelled"
                                                [] OTHER -> "-"]
             /\ UNCHANGED <<live, status, command, result, checked, client>>
    BY <1>1, AskMoves
  <2> QED
    BY <1>0, <2>1 DEF Asking, Pool!Queueing, Pool!Place, Pool!Holding, Phase, Writing
<1>2. CASE SetUp(j) \/ SetUpFailed(j)
  BY <1>0, <1>2 DEF SetUp, SetUpFailed, poolState, Phase, Writing, Asking, Pool!Queueing
<1>3. CASE CheckChange(j)
  <2>1. CASE checked' = [checked EXCEPT ![j] = TRUE] /\ UNCHANGED phase
    BY <1>0, <1>3, <2>1 DEF CheckChange, poolState
  <2>2. CASE Phased(j, "over") /\ UNCHANGED checked
    BY <1>0, <1>3, <2>2 DEF CheckChange, poolState, Phase, Writing, Asking, Pool!Queueing
  <2> QED
    BY <1>3, <2>1, <2>2 DEF CheckChange
<1>4. CASE WriteChange(j)
  BY <1>0, <1>4 DEF WriteChange, poolState, Phase, Writing, Asking, Pool!Queueing, Target, States, FinalStates
<1>5. CASE Spawn(j)
  BY <1>0, <1>5 DEF Spawn, poolState, CommandState, Phase, Writing, Asking, Pool!Queueing
<1>6. CASE Watch(j) \/ Interrupted(j)
  BY <1>0, <1>6 DEF Watch, Interrupted, Verdict, poolState, CommandState, Phase, Writing, Asking, Pool!Queueing
<1>7. CASE LeavePool(j)
  <2>1. PICK q \in {"releasing", "exited"} :
             /\ q = "exited" => pc[j] = "releasing"
             /\ pc[j] \in {"admitted", "releasing"}
             /\ pc' = [pc EXCEPT ![j] = q]
    BY <1>7, LeaveMoves
  <2>2. phase[j] = "over" /\ UNCHANGED <<live, status, phase, command, result, checked, client>>
    BY <1>7, LeaveMoves
  <2> QED
    BY <1>0, <2>1, <2>2 DEF Asking, Pool!Queueing, Pool!Place, Pool!Holding, Phase, Writing
<1> QED
  BY <1>1, <1>2, <1>3, <1>4, <1>5, <1>6, <1>7 DEF Worker

LEMMA UnitKeepsControl ==
    ASSUME ControlInv, NEW j \in Job,
           EndCommand(j) \/ ObeySignal(j) \/ LeftEnds(j) \/ Crash(j)
             \/ SweepUnit(j) \/ KillUnit(j) \/ CollectUnit(j)
    PROVE  ControlInv'
<1> USE ClientAssumption DEF ControlInv, Shapes, Placed, ChecksInside, Phased
<1>0. UNCHANGED client => Called'
  BY DEF Called
<1>1. CASE EndCommand(j) \/ ObeySignal(j) \/ LeftEnds(j) \/ SweepUnit(j) \/ KillUnit(j)
  BY <1>0, <1>1 DEF EndCommand, ObeySignal, Ended, LeftEnds, SweepUnit, KillUnit, poolState,
                    CommandState, Exited
<1>2. CASE Crash(j)
  <2>1. pc[j] \notin {"off", "exited"} /\ pc' = [pc EXCEPT ![j] = "exited"] /\ live' = live
    BY <1>2, CrashMoves DEF Crash
  <2> QED
    BY <1>0, <1>2, <2>1 DEF Crash, Asking, Pool!Queueing, Pool!Place, Phase
<1>3. CASE CollectUnit(j)
  <2>1. pc[j] = "exited" /\ pc' = pc /\ live' = live \ {j}
    BY <1>3 DEF CollectUnit, Pool!Reap, Pool!poolVars
  <2> QED
    BY <1>0, <1>3, <2>1 DEF CollectUnit
<1> QED
  BY <1>1, <1>2, <1>3

LEMMA ClientKeepsControl ==
    ASSUME ControlInv, NEW c \in Client, ClientStep(c)
    PROVE  ControlInv'
<1> USE ClientAssumption DEF ControlInv, Placed, ChecksInside, Phased
<1>1. CASE MakeDirectory(c) \/ FillDirectory(c)
  <2>1. \E p \in At : client[c].at # "idle" /\ Goes(c, p)
    BY <1>1 DEF MakeDirectory, FillDirectory, Shapes, Goes, At
  <2>2. client' \in [Client -> [op : Invocations \cup {NoOp}, at : At]] /\ Called'
    BY <2>1, ClientMoves
  <2> QED
    BY <1>1, <2>2 DEF MakeDirectory, FillDirectory, Shapes, poolState, States
<1>2. CASE Lookup(c) \/ Decide(c) \/ AdmitDisk(c) \/ Look(c) \/ Probe(c) \/ Reconcile(c)
           \/ Await(c) \/ Reprobe(c) \/ Follow(c)
  <2>1. \E p \in At : client[c].at # "idle" /\ Goes(c, p)
    BY <1>2 DEF Lookup, Decide, AdmitDisk, Look, Probe, Reconcile, Await, Reprobe, Follow, Reads, At
  <2>2. client' \in [Client -> [op : Invocations \cup {NoOp}, at : At]] /\ Called'
    BY <2>1, ClientMoves
  <2>3. UNCHANGED <<poolState, status, phase, command, result, checked>>
    BY <1>2 DEF Lookup, Decide, AdmitDisk, Look, Probe, Reconcile, Await, Reprobe, Follow, Reads
  <2> QED
    BY <2>2, <2>3 DEF Shapes, poolState
<1>3. CASE ClientCheck(c)
  <2>1. client' \in [Client -> [op : Invocations \cup {NoOp}, at : At]] /\ Called'
    BY <1>3, ClientMoves DEF ClientCheck, At, Target, Shapes, Called
  <2>2. checked' = checked \/ checked' = [checked EXCEPT ![c] = TRUE]
    BY <1>3 DEF ClientCheck
  <2>3. UNCHANGED <<pc, live, status, phase, command, result>>
    BY <1>3 DEF ClientCheck, poolState
  <2> QED
    BY <2>1, <2>2, <2>3 DEF Shapes
<1>4. CASE ClientWrite(c)
  <2>1. \E p \in At : client[c].at # "idle" /\ Goes(c, p)
    BY <1>4 DEF ClientWrite, At, Target
  <2>2. client' \in [Client -> [op : Invocations \cup {NoOp}, at : At]] /\ Called'
    BY <2>1, ClientMoves
  <2>3. checked' = [checked EXCEPT ![c] = FALSE]
    BY <1>4 DEF ClientWrite
  <2>4. UNCHANGED <<pc, live, phase, command, result>>
    BY <1>4 DEF ClientWrite, poolState
  <2>5. status' \in [Job -> States]
    <3>1. Target[client[c].at] \in States
      BY <1>4 DEF ClientWrite, Target, States, FinalStates
    <3> QED
      BY <1>4, <3>1 DEF ClientWrite, Shapes
  <2> QED
    BY <2>2, <2>3, <2>4, <2>5 DEF Shapes
<1>5. CASE LaunchUnit(c)
  <2>1. \E p \in At : client[c].at # "idle" /\ Goes(c, p)
    BY <1>5 DEF LaunchUnit, At
  <2>2. client' \in [Client -> [op : Invocations \cup {NoOp}, at : At]] /\ Called'
    BY <2>1, ClientMoves
  <2>3. CASE UNCHANGED <<poolState, phase>>
    BY <1>5, <2>2, <2>3 DEF LaunchUnit, Shapes, poolState
  <2>4. CASE Pool!Launch(JobOf(c)) /\ Phased(JobOf(c), "-")
    <3>1. JobOf(c) \in Job
      BY <1>5 DEF LaunchUnit, Called, Invocations, JobOf
    <3>2. /\ pc[JobOf(c)] \in {"off", "exited"}
          /\ pc' = [pc EXCEPT ![JobOf(c)] = "boot"] /\ live' = live \cup {JobOf(c)}
      BY <2>4 DEF Pool!Launch, Pool!Goto
    <3> QED
      BY <1>5, <2>2, <2>4, <3>1, <3>2
         DEF LaunchUnit, Shapes, Asking, Pool!Queueing, Pool!Place, Phase, Writing
  <2> QED
    BY <1>5, <2>3, <2>4 DEF LaunchUnit
<1>6. CASE Flag(c)
  <2>1. client' \in [Client -> [op : Invocations \cup {NoOp}, at : At]] /\ Called'
    BY <1>6, ClientMoves DEF Flag, At
  <2> QED
    BY <1>6, <2>1 DEF Flag, Shapes
<1>7. CASE Kill(c)
  <2>1. client' \in [Client -> [op : Invocations \cup {NoOp}, at : At]] /\ Called'
    BY <1>7, ClientMoves DEF Kill, At
  <2>2. JobOf(c) \in Job
    BY <1>7 DEF Kill, Called, Invocations, JobOf
  <2>3. command' \in [Job -> CommandState]
    BY <1>7, <2>2 DEF Kill, Shapes, CommandState
  <2>4. CASE UNCHANGED <<poolState, phase, checked>>
    BY <1>7, <2>1, <2>3, <2>4 DEF Kill, Shapes, poolState
  <2>5. CASE pc[JobOf(c)] \notin {"off", "exited"}
    <3>1. /\ pc' = [pc EXCEPT ![JobOf(c)] = "exited"] /\ live' = live
          /\ phase' = [phase EXCEPT ![JobOf(c)] = "-"]
          /\ checked' = [checked EXCEPT ![JobOf(c)] = FALSE]
          /\ UNCHANGED <<status, result>>
      BY <1>7, <2>2, <2>5, CrashMoves DEF Kill
    <3> QED
      BY <2>1, <2>2, <2>3, <2>5, <3>1 DEF Shapes, Asking, Pool!Queueing, Pool!Place, Phase
  <2> QED
    BY <1>7, <2>4, <2>5 DEF Kill
<1> QED
  BY <1>1, <1>2, <1>3, <1>4, <1>5, <1>6, <1>7 DEF ClientStep

LEMMA BeginKeepsShape ==
    ASSUME Shapes, Called, NEW c \in Client, Begin(c) \/ Drop(c)
    PROVE  client' \in [Client -> [op : Invocations \cup {NoOp}, at : At]] /\ Called'
<1>1. CASE Begin(c)
  <2>1. PICK op \in Ops[c] : client' = [client EXCEPT ![c] =
             [op |-> op,
              at |-> CASE op[1] = "reserve" -> "mkdir"
                       [] op[1] = "start"   -> "decide"
                       [] op[1] \in {"execute", "logs"} -> "lookup"
                       [] op[1] = "cancel"  -> "look"]]
    BY <1>1 DEF Begin
  <2>2. op \in Invocations
    BY OpsAssumption DEF Invocations
  <2>3. op[1] \in {"reserve", "start", "execute", "logs", "cancel"}
    BY <2>2 DEF Invocations
  <2>4. \E p \in At \ {"idle"} : client' = [client EXCEPT ![c] = [op |-> op, at |-> p]]
    <3>1. CASE op[1] = "reserve"
      BY <2>1, <3>1 DEF At
    <3>2. CASE op[1] = "start"
      BY <2>1, <3>2 DEF At
    <3>3. CASE op[1] \in {"execute", "logs"}
      BY <2>1, <3>3 DEF At
    <3>4. CASE op[1] = "cancel"
      BY <2>1, <3>4 DEF At
    <3> QED
      BY <2>3, <3>1, <3>2, <3>3, <3>4
  <2> QED
    BY <2>2, <2>4 DEF Shapes, Called
<1>2. CASE Drop(c)
  BY <1>2, ClientMoves DEF Drop, At
<1> QED
  BY <1>1, <1>2

LEMMA OthersMove == Others => UNCHANGED <<pc, live, status, phase, command, result, checked, client>>
BY DEF Others, Pool!Reinstall, Pool!Snapshot, Pool!poolVars

LEMMA ControlStep ==
    ASSUME ControlInv, [Next]_vars
    PROVE  ControlInv'
<1>1. ASSUME NEW j \in Job, JobStep(j) PROVE ControlInv'
  BY <1>1, WorkerKeepsControl, UnitKeepsControl DEF JobStep
<1>2. ASSUME NEW c \in Client, ClientStep(c) PROVE ControlInv'
  BY <1>2, ClientKeepsControl
<1>3. ASSUME NEW c \in Client, Begin(c) \/ Drop(c) PROVE ControlInv'
  <2>1. client' \in [Client -> [op : Invocations \cup {NoOp}, at : At]] /\ Called'
    BY <1>3, BeginKeepsShape DEF ControlInv
  <2>2. UNCHANGED <<pc, live, status, phase, command, result>>
    BY <1>3 DEF Begin, Drop, poolState
  <2>3. checked' = checked \/ checked' = [checked EXCEPT ![c] = FALSE]
    BY <1>3 DEF Begin, Drop
  <2> QED
    BY <2>1, <2>2, <2>3 DEF ControlInv, Shapes, Placed, ChecksInside
<1>4. CASE UNCHANGED <<pc, live, status, phase, command, result, checked, client>>
  BY <1>4 DEF ControlInv, Shapes, Called, Placed, ChecksInside
<1>5. CASE UNCHANGED vars
  BY <1>4, <1>5 DEF vars, poolState
<1> QED
  BY <1>1, <1>2, <1>3, <1>4, <1>5, OthersMove DEF Next

LEMMA ControlBegins == Init => ControlInv
BY ClientAssumption DEF Init, ControlInv, Shapes, Called, Placed, ChecksInside, Asking,
   Pool!Queueing, Pool!Place, States, Phase, CommandState, At

-------------------------------------------------------------------------------
(* Exit codes *)

LEMMA WorkerKeepsPassed ==
    ASSUME ControlInv, Passed, NEW j \in Job, Worker(j)
    PROVE  Passed'
<1> USE DEF ControlInv, Shapes, ChecksInside, Passed, Phased
<1>1. CASE AskPool(j)
  <2>1. PICK q \in Asking \cup {"admitted", "releasing"} :
             /\ phase[j] = "-"
             /\ phase' = [phase EXCEPT ![j] = CASE q = "admitted" -> "setup"
                                                [] q = "releasing" -> "toCancelled"
                                                [] OTHER -> "-"]
             /\ UNCHANGED <<status, command, result, checked>>
    BY <1>1, AskMoves
  <2> QED
    BY <2>1
<1>2. CASE SetUp(j) \/ SetUpFailed(j)
  BY <1>2 DEF SetUp, SetUpFailed, Writing
<1>3. CASE CheckChange(j)
  <2>1. CASE checked' = [checked EXCEPT ![j] = TRUE] /\ UNCHANGED phase
    <3>1. status[j] = "passed" => ~Allowed(status[j], Target[phase[j]])
      BY DEF Allowed, Successors, FinalStates
    <3>2. ~checked[j]
      BY <1>3 DEF CheckChange
    <3>3. status[j] # "passed"
      BY <1>3, <2>1, <3>1, <3>2 DEF CheckChange
    <3> QED
      BY <1>3, <2>1, <3>3 DEF CheckChange
  <2>2. CASE Phased(j, "over") /\ UNCHANGED checked
    BY <1>3, <2>2 DEF CheckChange
  <2> QED
    BY <1>3, <2>1, <2>2 DEF CheckChange
<1>4. CASE WriteChange(j)
  <2>1. status'[j] = "passed" => phase[j] = "toPassed"
    BY <1>4 DEF WriteChange, Writing, Target
  <2> QED
    BY <1>4, <2>1 DEF WriteChange, Writing
<1>5. CASE Spawn(j)
  BY <1>5 DEF Spawn
<1>6. CASE Watch(j) \/ Interrupted(j)
  <2>1. CASE Watch(j) /\ command[j] \in Exited
    <3>1. result[j] # "zero" => phase'[j] = "toFailed"
      BY <2>1 DEF Watch, Verdict
    <3> QED
      BY <2>1, <3>1 DEF Watch, Verdict
  <2>2. CASE Watch(j) /\ command[j] \notin Exited
    BY <2>2 DEF Watch
  <2>3. CASE Interrupted(j)
    BY <2>3 DEF Interrupted
  <2> QED
    BY <1>6, <2>1, <2>2, <2>3
<1>7. CASE LeavePool(j)
  BY <1>7, LeaveMoves
<1> QED
  BY <1>1, <1>2, <1>3, <1>4, <1>5, <1>6, <1>7 DEF Worker

LEMMA UnitKeepsPassed ==
    ASSUME ControlInv, Passed, NEW j \in Job,
           EndCommand(j) \/ ObeySignal(j) \/ LeftEnds(j) \/ Crash(j)
             \/ SweepUnit(j) \/ KillUnit(j) \/ CollectUnit(j)
    PROVE  Passed'
<1> USE DEF ControlInv, Shapes, Passed, Phased
<1>1. CASE EndCommand(j) \/ ObeySignal(j)
  BY <1>1 DEF EndCommand, ObeySignal, Ended, Exited
<1>2. CASE LeftEnds(j) \/ SweepUnit(j) \/ KillUnit(j)
  BY <1>2 DEF LeftEnds, SweepUnit, KillUnit, Exited
<1>3. CASE Crash(j)
  BY <1>3 DEF Crash
<1>4. CASE CollectUnit(j)
  BY <1>4 DEF CollectUnit
<1> QED
  BY <1>1, <1>2, <1>3, <1>4

LEMMA ClientKeepsPassed ==
    ASSUME ControlInv, Passed, NEW c \in Client, ClientStep(c)
    PROVE  Passed'
<1> USE ClientAssumption DEF ControlInv, Shapes, Passed, Phased
<1>1. CASE MakeDirectory(c) \/ FillDirectory(c)
  BY <1>1 DEF MakeDirectory, FillDirectory
<1>2. CASE Lookup(c) \/ Decide(c) \/ AdmitDisk(c) \/ Look(c) \/ Probe(c) \/ Reconcile(c)
           \/ Await(c) \/ Reprobe(c) \/ Follow(c)
  <2>1. UNCHANGED <<status, phase, command, result, checked>>
    BY <1>2 DEF Lookup, Decide, AdmitDisk, Look, Probe, Reconcile, Await, Reprobe, Follow, Reads
  <2> QED
    BY <2>1
<1>3. CASE ClientCheck(c)
  <2>1. \A j \in Job : checked'[j] = checked[j]
    BY <1>3 DEF ClientCheck
  <2> QED
    BY <1>3, <2>1 DEF ClientCheck
<1>4. CASE ClientWrite(c)
  <2>1. Target[client[c].at] # "passed"
    BY <1>4 DEF ClientWrite, Target, At
  <2>2. \A j \in Job : /\ checked'[j] = checked[j]
                       /\ status'[j] = "passed" => status[j] = "passed"
    BY <1>4, <2>1 DEF ClientWrite
  <2> QED
    BY <1>4, <2>2 DEF ClientWrite
<1>5. CASE LaunchUnit(c)
  BY <1>5 DEF LaunchUnit
<1>6. CASE Flag(c)
  BY <1>6 DEF Flag
<1>7. CASE Kill(c)
  <2>1. \A j \in Job : command[j] \in Exited => command'[j] \in Exited
    BY <1>7 DEF Kill, Exited
  <2>2. \A j \in Job : /\ phase'[j] \in {phase[j], "-"}
                       /\ checked'[j] => checked[j]
    BY <1>7 DEF Kill
  <2> QED
    BY <1>7, <2>1, <2>2 DEF Kill
<1> QED
  BY <1>1, <1>2, <1>3, <1>4, <1>5, <1>6, <1>7 DEF ClientStep

LEMMA PassedStep ==
    ASSUME ControlInv, Passed, [Next]_vars
    PROVE  Passed'
<1>1. ASSUME NEW j \in Job, JobStep(j) PROVE Passed'
  BY <1>1, WorkerKeepsPassed, UnitKeepsPassed DEF JobStep
<1>2. ASSUME NEW c \in Client, ClientStep(c) PROVE Passed'
  BY <1>2, ClientKeepsPassed
<1>3. ASSUME NEW c \in Client, Begin(c) \/ Drop(c) PROVE Passed'
  <2>1. UNCHANGED <<status, phase, command, result>>
    BY <1>3 DEF Begin, Drop
  <2>2. \A j \in Job : checked'[j] = checked[j]
    BY <1>3, ClientAssumption DEF Begin, Drop, ControlInv, Shapes
  <2> QED
    BY <2>1, <2>2 DEF Passed
<1>4. CASE UNCHANGED <<status, phase, command, result, checked>>
  BY <1>4 DEF Passed
<1>5. CASE UNCHANGED vars
  BY <1>4, <1>5 DEF vars
<1> QED
  BY <1>1, <1>2, <1>3, <1>4, <1>5, OthersMove DEF Next

(* "passed" is said only of a command that ended with exit code zero, however  *)
(* many server commands act on the job at once, whatever is killed and however *)
(* often the unit is started again.                                            *)
THEOREM PassedIsTrue == Spec => []PassedMeansExitZero
<1>1. Init => Passed
  BY DEF Init, Passed
<1>2. ControlInv /\ Passed => PassedMeansExitZero
  BY DEF Passed, PassedMeansExitZero
<1> QED
  BY <1>1, <1>2, ControlBegins, ControlStep, PassedStep, PTL DEF Spec

-------------------------------------------------------------------------------
(* Final states, when server commands run one after the other *)

(* A worker in a phase of its own has a unit. *)
LEMMA BusyIsLive ==
    ASSUME ControlInv, NEW j \in Job, phase[j] \notin {"-", "over"}
    PROVE  j \in live
BY DEF ControlInv, Shapes, Placed, Asking, Pool!Place, Pool!Holding, Pool!Queueing

(* A job without a unit has no worker; one that is not final has left no       *)
(* worker either that ran to its end.                                          *)
LEMMA DeadIsQuiet ==
    ASSUME ControlInv, SerialInv, NEW j \in Job, j \notin live, status[j] \notin FinalStates
    PROVE  /\ pc[j] \in {"off", "exited"} /\ phase[j] = "-"
           /\ command[j] \notin {"running", "stopping"}
BY BusyIsLive DEF ControlInv, Placed, SerialInv, Recorded, Commanded

(* What a server command knows stays true when the status of a job with a unit *)
(* moves on, and when units go.                                                *)
LEMMA KnowledgeStays ==
    ASSUME Called, ClientsKnow, UNCHANGED client, live' \subseteq live,
           \A j \in Job : \/ status'[j] = status[j]
                          \/ j \in live /\ status[j] \in Begun /\ status'[j] \in Begun
    PROVE  ClientsKnow'
<1> SUFFICES ASSUME NEW c \in Client PROVE Known(c)'
  BY DEF ClientsKnow
<1>1. Known(c)
  BY DEF ClientsKnow
<1>2. CASE client[c].at = "idle"
  BY <1>2 DEF Known
<1>3. CASE JobOf(c) \in Job /\ status'[JobOf(c)] = status[JobOf(c)]
  BY <1>1, <1>3 DEF Known, JobOf
<1>4. CASE JobOf(c) \in live /\ status[JobOf(c)] \in Begun /\ status'[JobOf(c)] \in Begun
  BY <1>1, <1>4 DEF Known, JobOf, Begun, FinalStates
<1>5. client[c].at # "idle" => JobOf(c) \in Job
  BY DEF Called, Invocations, JobOf
<1> QED
  BY <1>2, <1>3, <1>4, <1>5

LEMMA WorkerKeepsSerial ==
    ASSUME ControlInv, SerialInv, NEW j \in Job, Worker(j)
    PROVE  SerialInv'
<1> USE DEF ControlInv, Shapes, Phased
<1>1. UNCHANGED <<client, live>>
  <2>1. CASE AskPool(j)
    BY <2>1, AskMoves
  <2>2. CASE LeavePool(j)
    BY <2>2, LeaveMoves
  <2> QED
    BY <2>1, <2>2 DEF Worker, SetUp, SetUpFailed, CheckChange, WriteChange, Spawn, Watch,
                      Interrupted, poolState
<1>2. Alone'
  BY <1>1 DEF SerialInv, Alone
<1>3. /\ \A k \in Job : \/ status'[k] = status[k]
                        \/ k \in live /\ status[k] \in Begun /\ status'[k] \in Begun
      /\ Recorded' /\ Commanded'
  <2> USE <1>1 DEF SerialInv, Recorded, Commanded
  <2>1. CASE AskPool(j)
    <3>1. PICK q \in Asking \cup {"admitted", "releasing"} :
             /\ pc[j] \in Asking /\ phase[j] = "-"
             /\ pc' = [pc EXCEPT ![j] = q]
             /\ phase' = [phase EXCEPT ![j] = CASE q = "admitted" -> "setup"
                                                [] q = "releasing" -> "toCancelled"
                                                [] OTHER -> "-"]
             /\ UNCHANGED <<live, status, command, result, checked, client>>
      BY <2>1, AskMoves
    <3> QED
      BY <3>1 DEF Asking, Pool!Queueing
  <2>2. CASE SetUp(j) \/ SetUpFailed(j)
    <3>1. j \notin Finished \/ phase[j] # "setupFailed"
      BY DEF Finished, FinalStates
    <3> QED
      BY <2>2, <3>1 DEF SetUp, SetUpFailed, poolState
  <2>3. CASE CheckChange(j)
    <3>1. Allowed(status[j], Target[phase[j]])
      BY <2>3 DEF CheckChange, Writing, Target, Allowed, Successors, FinalStates
    <3> QED
      BY <2>3, <3>1 DEF CheckChange, poolState
  <2>4. CASE WriteChange(j)
    <3>1. j \in live
      BY <2>4, BusyIsLive DEF WriteChange, Writing
    <3>2. pc' = pc /\ command' = command /\ status' = [status EXCEPT ![j] = Target[phase[j]]]
      BY <2>4 DEF WriteChange, poolState
    <3>3. phase[j] \in Writing /\ phase' = [phase EXCEPT ![j] = IF phase[j] = "toRunning" THEN "spawn" ELSE "over"]
      BY <2>4 DEF WriteChange
    <3>4. pc[j] \notin Asking
      BY <3>3 DEF Placed, Writing
    <3>5. command[j] \notin {"running", "stopping"}
      BY <3>3 DEF Writing
    <3>6. CASE phase[j] = "toRunning"
      BY <3>1, <3>2, <3>3, <3>4, <3>5, <3>6 DEF Target, Begun, FinalStates
    <3>7. CASE phase[j] # "toRunning"
      <4>1. status'[j] \in FinalStates /\ phase'[j] = "over"
        BY <3>2, <3>3, <3>7 DEF Target, Writing, FinalStates
      <4>2. status[j] \in Begun
        BY <3>1
      <4> QED
        BY <3>1, <3>2, <3>3, <3>4, <3>5, <4>1, <4>2 DEF Begun
    <3> QED
      BY <3>6, <3>7
  <2>5. CASE Spawn(j)
    <3>1. j \in live
      BY <2>5, BusyIsLive DEF Spawn
    <3> QED
      BY <2>5, <3>1 DEF Spawn, poolState
  <2>6. CASE Watch(j) \/ Interrupted(j)
    <3>1. j \in live
      BY <2>6, BusyIsLive DEF Watch, Interrupted
    <3> QED
      BY <2>6, <3>1 DEF Watch, Interrupted, Verdict, poolState, CommandState, Exited
  <2>7. CASE LeavePool(j)
    <3>1. PICK q \in {"releasing", "exited"} : pc' = [pc EXCEPT ![j] = q]
      BY <2>7, LeaveMoves
    <3>2. UNCHANGED <<live, status, phase, command, result, checked, client>>
      BY <2>7, LeaveMoves
    <3> QED
      BY <3>1, <3>2 DEF Asking, Pool!Queueing
  <2> QED
    BY <2>1, <2>2, <2>3, <2>4, <2>5, <2>6, <2>7 DEF Worker
<1>4. ClientsKnow'
  <2>1. Called /\ ClientsKnow
    BY DEF SerialInv
  <2>2. UNCHANGED client /\ live' \subseteq live
    BY <1>1
  <2> QED
    BY <1>3, <2>1, <2>2, KnowledgeStays
<1> QED
  BY <1>2, <1>3, <1>4 DEF SerialInv

LEMMA UnitKeepsSerial ==
    ASSUME ControlInv, SerialInv, NEW j \in Job,
           EndCommand(j) \/ ObeySignal(j) \/ LeftEnds(j) \/ Crash(j)
             \/ SweepUnit(j) \/ KillUnit(j) \/ CollectUnit(j)
    PROVE  SerialInv'
<1> USE DEF ControlInv, Shapes, Phased
<1>1. UNCHANGED <<client, status>> /\ live' \subseteq live
  BY CrashMoves DEF EndCommand, ObeySignal, Ended, LeftEnds, Crash, SweepUnit, KillUnit,
                    CollectUnit, Pool!Reap, poolState
<1>2. Alone'
  BY <1>1 DEF SerialInv, Alone
<1>3. Recorded' /\ Commanded'
  <2> USE <1>1 DEF SerialInv, Recorded, Commanded
  <2>1. CASE EndCommand(j) \/ ObeySignal(j) \/ LeftEnds(j) \/ SweepUnit(j) \/ KillUnit(j)
    BY <2>1 DEF EndCommand, ObeySignal, Ended, LeftEnds, SweepUnit, KillUnit, poolState,
                CommandState, Exited
  <2>2. CASE Crash(j)
    <3>1. pc' = [pc EXCEPT ![j] = "exited"] /\ live' = live
      BY <2>2, CrashMoves DEF Crash
    <3> QED
      BY <2>2, <3>1 DEF Crash, Asking, Pool!Queueing
  <2>3. CASE CollectUnit(j)
    <3>1. pc' = pc /\ live' = live \ {j}
      BY <2>3 DEF CollectUnit, Pool!Reap, Pool!poolVars
    <3> QED
      BY <2>3, <3>1 DEF CollectUnit
  <2> QED
    BY <2>1, <2>2, <2>3
<1>4. ClientsKnow'
  <2>1. Called /\ ClientsKnow
    BY DEF SerialInv
  <2>2. UNCHANGED client /\ \A k \in Job : status'[k] = status[k]
    BY <1>1
  <2> QED
    BY <1>1, <2>1, <2>2, KnowledgeStays
<1> QED
  BY <1>2, <1>3, <1>4 DEF SerialInv

(* The one server command at work goes on: what it knows is all there is to    *)
(* know.                                                                       *)
LEMMA LoneClient ==
    ASSUME Shapes, Alone, NEW c \in Client, client[c].at \notin Resting,
           NEW p \in At, Goes(c, p)
    PROVE  /\ Alone'
           /\ Known(c)' => ClientsKnow'
           /\ JobOf(c)' = JobOf(c) /\ client'[c].at = p
<1> USE DEF Shapes, Goes
<1>1. \A d \in Client \ {c} : client'[d] = client[d] /\ client[d].at \in Resting
  BY DEF Alone
<1>2. Alone'
  BY <1>1 DEF Alone
<1>3. \A d \in Client \ {c} : Known(d)'
  BY <1>1 DEF Known, Resting
<1>4. JobOf(c)' = JobOf(c) /\ client'[c].at = p
  BY DEF JobOf
<1> QED
  BY <1>2, <1>3, <1>4 DEF ClientsKnow

(* A command that ends, or stops to follow its job, leaves the others as they  *)
(* are, whether it was at work or followed a job beside them.                  *)
LEMMA DepartureKeepsSerial ==
    ASSUME Shapes, SerialInv, NEW c \in Client, Goes(c, "done"),
           UNCHANGED <<pc, live, status, phase, command>>
    PROVE  SerialInv'
<1> USE DEF Shapes, Goes
<1>1. Recorded' /\ Commanded'
  BY DEF SerialInv, Recorded, Commanded
<1>2. client'[c].at = "done" /\ \A d \in Client \ {c} : client'[d] = client[d]
  OBVIOUS
<1>3. Alone'
  BY <1>2 DEF SerialInv, Alone, Resting
<1>4. ASSUME NEW d \in Client PROVE Known(d)'
  <2>1. CASE d = c
    BY <1>2, <2>1 DEF Known
  <2>2. CASE d # c
    BY <1>2, <2>2 DEF SerialInv, ClientsKnow, Known, JobOf
  <2> QED
    BY <2>1, <2>2
<1> QED
  BY <1>1, <1>3, <1>4 DEF SerialInv, ClientsKnow

(* The steps of a command that only looks. *)
LEMMA LookKeepsSerial ==
    ASSUME ControlInv, SerialInv, NEW c \in Client,
           Lookup(c) \/ Decide(c) \/ AdmitDisk(c) \/ Look(c) \/ Probe(c) \/ Reconcile(c)
             \/ Await(c) \/ Reprobe(c) \/ ClientCheck(c)
    PROVE  SerialInv'
<1>1. UNCHANGED <<pc, live, status, phase, command>>
  BY DEF Lookup, Decide, AdmitDisk, Look, Probe, Reconcile, Await, Reprobe, Reads,
         ClientCheck, poolState
<1>2. Recorded' /\ Commanded'
  BY <1>1 DEF SerialInv, Recorded, Commanded
<1>3. Alone' /\ ClientsKnow'
  <2>1. CASE UNCHANGED client
    BY <1>1, <2>1 DEF SerialInv, Alone, ClientsKnow, Known, JobOf
  <2>2. CASE client' # client
    <3>1. client[c].at \notin Resting
      BY DEF Lookup, Decide, AdmitDisk, Look, Probe, Reconcile, Await, Reprobe, Reads,
             ClientCheck, Target, Resting
    <3>2. JobOf(c) \in Job
      BY <3>1 DEF ControlInv, Called, Invocations, JobOf, Resting
    <3>3. Known(c)
      BY DEF SerialInv, ClientsKnow
    <3>4. \/ Goes(c, "done") \/ Goes(c, "decide") \/ Goes(c, "follow") \/ Goes(c, "mkdir")
          \/ Goes(c, "kill")
          \/ /\ status[JobOf(c)] = "preparing"
             /\ Goes(c, "admit") \/ Goes(c, "toQueued") \/ Goes(c, "toRejected")
                  \/ Goes(c, "toCancelled")
          \/ /\ status[JobOf(c)] \in Begun
             /\ Goes(c, "probe") \/ Goes(c, "flag") \/ Goes(c, "await") \/ Goes(c, "reprobe")
          \/ status[JobOf(c)] \in Begun /\ JobOf(c) \notin live /\ Goes(c, "reconcile")
          \/ status[JobOf(c)] \in {"queued", "running"} /\ JobOf(c) \notin live /\ Goes(c, "toGone")
      <4>1. CASE Lookup(c)
        BY <4>1 DEF Lookup, Reads, At
      <4>2. CASE Decide(c)
        BY <4>2 DEF Decide, Reads, At
      <4>3. CASE AdmitDisk(c)
        BY <3>3, <4>3 DEF AdmitDisk, Reads, At, Known
      <4>4. CASE Look(c)
        <5>1. status[JobOf(c)] \in States
          BY <3>2 DEF ControlInv, Shapes
        <5>2. Exists(status[JobOf(c)]) /\ status[JobOf(c)] # "preparing"
                => status[JobOf(c)] \in Begun
          BY <5>1 DEF Exists, States, Begun
        <5> QED
          BY <4>4, <5>2 DEF Look, Reads, At
      <4>5. CASE Probe(c)
        BY <3>3, <4>5 DEF Probe, Reads, At, Known
      <4>6. CASE Reconcile(c)
        BY <3>2, <3>3, <4>6 DEF Reconcile, Reads, At, Known, Finished, Begun
      <4>7. CASE Await(c)
        BY <3>3, <4>7 DEF Await, Reads, At, Known
      <4>8. CASE Reprobe(c)
        BY <3>3, <4>8 DEF Reprobe, Reads, At, Known
      <4>9. CASE ClientCheck(c)
        BY <2>2, <4>9 DEF ClientCheck
      <4> QED
        BY <4>1, <4>2, <4>3, <4>4, <4>5, <4>6, <4>7, <4>8, <4>9
    <3>5. ASSUME NEW p \in At, Goes(c, p)
          PROVE Alone' /\ (Known(c)' => ClientsKnow') /\ JobOf(c)' = JobOf(c) /\ client'[c].at = p
      BY <3>1, <3>5, LoneClient DEF ControlInv, SerialInv
    <3>6. Known(c)'
      BY <1>1, <3>4, <3>5 DEF Known, At
    <3>7. \E p \in At : Goes(c, p)
      BY <3>4 DEF At
    <3> QED
      BY <3>5, <3>6, <3>7
  <2> QED
    BY <2>1, <2>2
<1> QED
  BY <1>2, <1>3 DEF SerialInv

(* A status written for a job that has no unit. *)
LEMMA QuietWrite ==
    ASSUME ControlInv, SerialInv, NEW j \in Job, j \notin live, status[j] \notin FinalStates,
           NEW s, status' = [status EXCEPT ![j] = s], UNCHANGED <<pc, live, phase, command>>
    PROVE  Recorded' /\ Commanded'
<1>1. pc[j] \in {"off", "exited"} /\ phase[j] = "-" /\ command[j] \notin {"running", "stopping"}
  BY DeadIsQuiet
<1> QED
  BY <1>1 DEF ControlInv, Shapes, SerialInv, Recorded, Commanded, Asking, Pool!Queueing

(* Who writes the status of a job from outside knows that it has no unit and   *)
(* no final state.                                                             *)
LEMMA WriterKnows ==
    ASSUME ControlInv, SerialInv, NEW c \in Client, JobOf(c) \in Job,
           \/ MakeDirectory(c) /\ status[JobOf(c)] = "absent"
           \/ FillDirectory(c)
           \/ ClientWrite(c)
    PROVE  JobOf(c) \notin live /\ status[JobOf(c)] \notin FinalStates
<1>1. Known(c)
  BY DEF SerialInv, ClientsKnow
<1>2. CASE MakeDirectory(c) /\ status[JobOf(c)] = "absent"
  BY <1>2 DEF SerialInv, Recorded, Begun, FinalStates
<1>3. CASE FillDirectory(c)
  BY <1>1, <1>3 DEF FillDirectory, Known, SerialInv, Recorded, Begun, FinalStates
<1>4. CASE ClientWrite(c)
  <2>1. client[c].at \in {"toQueued", "toRejected", "toAborted", "toCancelled", "toGone"}
    BY <1>4 DEF ClientWrite, Target, At, ControlInv, Shapes
  <2> QED
    BY <1>1, <2>1 DEF Known, SerialInv, Recorded, Begun, FinalStates
<1> QED
  BY <1>2, <1>3, <1>4

LEMMA ClientKeepsSerial ==
    ASSUME ControlInv, SerialInv, NEW c \in Client, ClientStep(c), ~Follow(c)
    PROVE  SerialInv'
<1>1. client[c].at \notin Resting
  BY DEF ClientStep, MakeDirectory, FillDirectory, Lookup, Decide, AdmitDisk, ClientCheck,
         ClientWrite, LaunchUnit, Look, Probe, Reconcile, Flag, Await, Reprobe, Kill,
         Reads, Target, Resting
<1>2. JobOf(c) \in Job
  BY <1>1 DEF ControlInv, Called, Invocations, JobOf, Resting
<1>3. Known(c)
  BY DEF SerialInv, ClientsKnow
<1>4. ASSUME NEW p \in At, Goes(c, p)
      PROVE Alone' /\ (Known(c)' => ClientsKnow') /\ JobOf(c)' = JobOf(c) /\ client'[c].at = p
  BY <1>1, <1>4, LoneClient DEF ControlInv, SerialInv
<1>5. CASE MakeDirectory(c)
  <2>1. CASE status[JobOf(c)] = "absent"
    <3>1. /\ status' = [status EXCEPT ![JobOf(c)] = "partial"]
          /\ UNCHANGED <<pc, live, phase, command>> /\ Goes(c, "fill") /\ "fill" \in At
      BY <1>5, <2>1 DEF MakeDirectory, poolState, At
    <3>2. Recorded' /\ Commanded'
      BY <1>2, <1>5, <2>1, <3>1, QuietWrite, WriterKnows
    <3>3. Known(c)'
      BY <1>2, <1>4, <3>1 DEF Known, ControlInv, Shapes
    <3> QED
      BY <1>4, <3>1, <3>2, <3>3 DEF SerialInv
  <2>2. CASE status[JobOf(c)] # "absent"
    <3>1. UNCHANGED <<pc, live, status, phase, command>> /\ Goes(c, "done") /\ "done" \in At
      BY <1>5, <2>2 DEF MakeDirectory, poolState, At
    <3>2. Recorded' /\ Commanded'
      BY <3>1 DEF SerialInv, Recorded, Commanded
    <3> QED
      BY <1>4, <3>1, <3>2 DEF SerialInv, Known
  <2> QED
    BY <2>1, <2>2
<1>6. CASE FillDirectory(c)
  <2>1. /\ status' = [status EXCEPT ![JobOf(c)] = "preparing"]
        /\ UNCHANGED <<pc, live, phase, command>>
    BY <1>6 DEF FillDirectory, poolState
  <2>2. PICK p \in {"done", "admit"} : Goes(c, p)
    BY <1>6 DEF FillDirectory
  <2>3. Recorded' /\ Commanded'
    BY <1>2, <1>6, <2>1, QuietWrite, WriterKnows
  <2>4. p \in At
    BY DEF At
  <2>5. Known(c)'
    BY <1>2, <1>4, <2>1, <2>2, <2>4 DEF Known, ControlInv, Shapes
  <2> QED
    BY <1>4, <2>2, <2>3, <2>4, <2>5 DEF SerialInv
<1>7. CASE ClientWrite(c)
  <2>1. /\ status' = [status EXCEPT ![JobOf(c)] = Target[client[c].at]]
        /\ UNCHANGED <<pc, live, phase, command>>
    BY <1>7 DEF ClientWrite, poolState
  <2>2. Recorded' /\ Commanded'
    BY <1>2, <1>7, <2>1, QuietWrite, WriterKnows
  <2>3. JobOf(c) \notin live
    BY <1>2, <1>7, WriterKnows
  <2>4. \/ Goes(c, "done") \/ Goes(c, "follow")
        \/ Goes(c, "launch") /\ client[c].at = "toQueued"
    BY <1>7 DEF ClientWrite
  <2>5. client[c].at = "toQueued" => status'[JobOf(c)] = "queued"
    BY <1>2, <2>1 DEF Target, ControlInv, Shapes
  <2>6. {"done", "follow", "launch"} \subseteq At
    BY DEF At
  <2>7. CASE Goes(c, "done") \/ Goes(c, "follow")
    <3>1. Known(c)'
      BY <1>4, <2>6, <2>7 DEF Known
    <3> QED
      BY <1>4, <2>2, <2>6, <2>7, <3>1 DEF SerialInv
  <2>8. CASE Goes(c, "launch") /\ client[c].at = "toQueued"
    <3>1. Known(c)'
      BY <1>4, <2>1, <2>3, <2>5, <2>6, <2>8 DEF Known
    <3> QED
      BY <1>4, <2>2, <2>6, <2>8, <3>1 DEF SerialInv
  <2> QED
    BY <2>4, <2>7, <2>8
<1>8. CASE LaunchUnit(c)
  <2>1. status[JobOf(c)] = "queued" /\ JobOf(c) \notin live
    BY <1>3, <1>8 DEF LaunchUnit, Known
  <2>2. CASE UNCHANGED <<poolState, phase>>
    <3>1. UNCHANGED <<pc, live, status, phase, command>>
      BY <1>8, <2>2 DEF LaunchUnit, poolState
    <3>2. Recorded' /\ Commanded'
      BY <3>1 DEF SerialInv, Recorded, Commanded
    <3>3. PICK p \in At \cap {"toAborted", "done", "follow"} : Goes(c, p)
      BY <1>8 DEF LaunchUnit, At
    <3>4. Known(c)'
      BY <1>4, <2>1, <3>1, <3>3 DEF Known
    <3> QED
      BY <1>4, <3>2, <3>3, <3>4 DEF SerialInv
  <2>3. CASE /\ Pool!Launch(JobOf(c)) /\ Phased(JobOf(c), "-")
             /\ \E p \in At \cap {"follow", "done"} : Goes(c, p)
    <3>1. /\ pc' = [pc EXCEPT ![JobOf(c)] = "boot"] /\ live' = live \cup {JobOf(c)}
          /\ phase' = [phase EXCEPT ![JobOf(c)] = "-"] /\ UNCHANGED <<status, command>>
      BY <1>8, <2>3 DEF LaunchUnit, Pool!Launch, Pool!Goto, Phased
    <3>2. PICK p \in At \cap {"follow", "done"} : Goes(c, p)
      BY <2>3
    <3>3. Known(c)'
      BY <1>4, <3>2 DEF Known
    <3>4. command[JobOf(c)] \notin {"running", "stopping"}
      BY <1>2, <2>1 DEF SerialInv, Commanded
    <3>5. Recorded' /\ Commanded'
      BY <1>2, <2>1, <3>1, <3>4
         DEF ControlInv, Shapes, SerialInv, Recorded, Commanded, Asking, Pool!Queueing, Begun
    <3> QED
      BY <1>4, <3>2, <3>3, <3>5 DEF SerialInv
  <2> QED
    BY <1>8, <2>2, <2>3 DEF LaunchUnit, At
<1>9. CASE Flag(c)
  <2>1. UNCHANGED <<pc, live, status, phase, command>> /\ Goes(c, "await") /\ "await" \in At
    BY <1>9 DEF Flag, At
  <2>2. Recorded' /\ Commanded'
    BY <2>1 DEF SerialInv, Recorded, Commanded
  <2>3. Known(c)'
    BY <1>3, <1>4, <1>9, <2>1 DEF Known, Flag
  <2> QED
    BY <1>4, <2>1, <2>2, <2>3 DEF SerialInv
<1>10. CASE Kill(c)
  <2>1. Goes(c, "done") /\ "done" \in At /\ UNCHANGED status
    BY <1>10 DEF Kill, At
  <2>2. Known(c)'
    BY <1>4, <2>1 DEF Known
  <2>3. \A j \in Job :
             /\ command'[j] \in {"running", "stopping"} => command[j] \in {"running", "stopping"}
             /\ command'[j] = "left" => command[j] = "left"
    BY <1>10 DEF Kill, ControlInv, Shapes
  <2>4. CASE UNCHANGED <<poolState, phase>>
    BY <1>4, <2>1, <2>2, <2>3, <2>4 DEF SerialInv, Recorded, Commanded, poolState
  <2>5. CASE Pool!Crash(JobOf(c)) /\ Phased(JobOf(c), "-")
    <3>1. pc' = [pc EXCEPT ![JobOf(c)] = "exited"] /\ live' = live
      BY <1>2, <2>5, CrashMoves
    <3>2. Recorded' /\ Commanded'
      BY <1>2, <2>1, <2>3, <2>5, <3>1
         DEF ControlInv, Shapes, SerialInv, Recorded, Commanded, Asking, Pool!Queueing, Phased
    <3> QED
      BY <1>4, <2>1, <2>2, <3>2 DEF SerialInv
  <2> QED
    BY <1>10, <2>4, <2>5 DEF Kill
<1> QED
  BY <1>5, <1>6, <1>7, <1>8, <1>9, <1>10, LookKeepsSerial DEF ClientStep

LEMMA SerialStep ==
    ASSUME Serial, ControlInv, SerialInv, [Next]_vars
    PROVE  SerialInv'
<1>1. ASSUME NEW j \in Job, JobStep(j) PROVE SerialInv'
  BY <1>1, WorkerKeepsSerial, UnitKeepsSerial DEF JobStep
<1>2. ASSUME NEW c \in Client, ClientStep(c) PROVE SerialInv'
  <2>1. CASE Follow(c)
    BY <2>1, DepartureKeepsSerial DEF Follow, Reads, poolState, ControlInv
  <2> QED
    BY <1>2, <2>1, ClientKeepsSerial
<1>3. ASSUME NEW c \in Client, Begin(c) \/ Drop(c) PROVE SerialInv'
  <2>1. UNCHANGED <<pc, live, status, phase, command>>
    BY <1>3 DEF Begin, Drop, poolState
  <2>2. Recorded' /\ Commanded'
    BY <2>1 DEF SerialInv, Recorded, Commanded
  <2>3. CASE Begin(c)
    <3>1. \A d \in Client : client[d].at \in Resting
      BY <2>3 DEF Begin
    <3>2. \A d \in Client \ {c} : client'[d] = client[d]
      BY <2>3 DEF Begin, ControlInv, Shapes
    <3>3. client'[c].at \in {"mkdir", "decide", "lookup", "look"}
      <4>1. PICK op \in Ops[c] : client' = [client EXCEPT ![c] =
                 [op |-> op,
                  at |-> CASE op[1] = "reserve" -> "mkdir"
                           [] op[1] = "start"   -> "decide"
                           [] op[1] \in {"execute", "logs"} -> "lookup"
                           [] op[1] = "cancel"  -> "look"]]
        BY <2>3 DEF Begin
      <4>2. op[1] \in {"reserve", "start", "execute", "logs", "cancel"}
        BY OpsAssumption
      <4>3. CASE op[1] = "reserve"
        BY <4>1, <4>3 DEF ControlInv, Shapes
      <4>4. CASE op[1] = "start"
        BY <4>1, <4>4 DEF ControlInv, Shapes
      <4>5. CASE op[1] \in {"execute", "logs"}
        BY <4>1, <4>5 DEF ControlInv, Shapes
      <4>6. CASE op[1] = "cancel"
        BY <4>1, <4>6 DEF ControlInv, Shapes
      <4> QED
        BY <4>2, <4>3, <4>4, <4>5, <4>6
    <3>4. Alone'
      BY <3>1, <3>2 DEF Alone
    <3>5. ClientsKnow'
      <4>1. \A d \in Client : Known(d)'
        BY <3>1, <3>2, <3>3 DEF Known, Resting
      <4> QED
        BY <4>1 DEF ClientsKnow
    <3> QED
      BY <2>2, <3>4, <3>5 DEF SerialInv
  <2>4. CASE Drop(c)
    BY <2>1, <2>4, DepartureKeepsSerial DEF Drop, ControlInv
  <2> QED
    BY <1>3, <2>3, <2>4
<1>4. CASE UNCHANGED <<pc, live, status, phase, command, client>>
  <2>1. Recorded' /\ Commanded' /\ Alone'
    BY <1>4 DEF SerialInv, Recorded, Commanded, Alone
  <2>2. ClientsKnow'
    BY <1>4 DEF SerialInv, ClientsKnow, Known, JobOf
  <2> QED
    BY <2>1, <2>2 DEF SerialInv
<1>5. CASE UNCHANGED vars
  BY <1>4, <1>5 DEF vars, poolState
<1> QED
  BY <1>1, <1>2, <1>3, <1>4, <1>5, OthersMove DEF Next

LEMMA SerialBegins == Init => SerialInv
BY DEF Init, SerialInv, Recorded, Commanded, Alone, Resting, ClientsKnow, Known, Asking, Pool!Queueing

(* A job that is final stays as it is. *)
LEMMA FinalStep ==
    ASSUME ControlInv, SerialInv, [Next]_vars
    PROVE  \A j \in Finished : status'[j] = status[j]
<1> SUFFICES ASSUME NEW j \in Job, status[j] \in FinalStates PROVE status'[j] = status[j]
  BY DEF Finished
<1>1. ASSUME NEW k \in Job, JobStep(k) PROVE status'[j] = status[j]
  <2>1. CASE WriteChange(k)
    <3>1. status[k] \notin FinalStates
      BY <2>1 DEF WriteChange, Writing, SerialInv, Recorded, FinalStates
    <3> QED
      BY <2>1, <3>1 DEF WriteChange, ControlInv, Shapes
  <2>2. CASE AskPool(k) \/ LeavePool(k)
    BY <2>2 DEF AskPool, LeavePool
  <2> QED
    BY <1>1, <2>1, <2>2
       DEF JobStep, Worker, SetUp, SetUpFailed, CheckChange, Spawn, Watch, Interrupted,
           EndCommand, ObeySignal, Ended, LeftEnds, Crash, SweepUnit, KillUnit, CollectUnit
<1>2. ASSUME NEW c \in Client, ClientStep(c) PROVE status'[j] = status[j]
  <2>1. CASE (MakeDirectory(c) /\ status[JobOf(c)] = "absent") \/ FillDirectory(c) \/ ClientWrite(c)
    <3>1. client[c].at # "idle"
      BY <2>1 DEF MakeDirectory, FillDirectory, ClientWrite, Target
    <3>2. JobOf(c) \in Job
      BY <3>1 DEF ControlInv, Called, Invocations, JobOf
    <3>3. JobOf(c) # j
      BY <2>1, <3>2, WriterKnows
    <3>4. \E s : status' = [status EXCEPT ![JobOf(c)] = s]
      BY <2>1 DEF MakeDirectory, FillDirectory, ClientWrite
    <3> QED
      BY <3>3, <3>4 DEF ControlInv, Shapes
  <2>2. CASE MakeDirectory(c) /\ status[JobOf(c)] # "absent"
    BY <2>2 DEF MakeDirectory
  <2> QED
    BY <1>2, <2>1, <2>2
       DEF ClientStep, Lookup, Decide, AdmitDisk, ClientCheck, LaunchUnit, Look, Probe,
           Reconcile, Flag, Await, Reprobe, Kill, Follow, Reads
<1>3. ASSUME NEW c \in Client, Begin(c) \/ Drop(c) PROVE status'[j] = status[j]
  BY <1>3 DEF Begin, Drop
<1>4. CASE Others
  BY <1>4, OthersMove
<1>5. CASE UNCHANGED vars
  BY <1>5 DEF vars
<1> QED
  BY <1>1, <1>2, <1>3, <1>4, <1>5 DEF Next

(* A final state is final, whatever is killed and however commands follow one  *)
(* another; two commands at once do break it.                                  *)
THEOREM FinalStays == Serial => (Spec => FinalIsFinal)
<1> SUFFICES ASSUME Serial PROVE Spec => FinalIsFinal
  OBVIOUS
<1>1. ControlInv /\ SerialInv /\ [Next]_vars => [\A j \in Finished : status'[j] = status[j]]_vars
  BY FinalStep
<1> QED
  BY <1>1, ControlBegins, ControlStep, SerialBegins, SerialStep, PTL DEF Spec, FinalIsFinal

(* What the status file says is true of the worker and of the command: the     *)
(* process started for a final job has ended, whoever made the job final, and  *)
(* what it left running is in a unit that systemd still has to stop.           *)
THEOREM FinalIsStopped == Serial => (Spec => []FinalMeansStopped)
<1> SUFFICES ASSUME Serial PROVE Spec => []FinalMeansStopped
  OBVIOUS
<1>1. ControlInv /\ SerialInv => FinalMeansStopped
  BY DEF SerialInv, Commanded, FinalMeansStopped, Finished, FinalStates
<1> QED
  BY <1>1, ControlBegins, ControlStep, SerialBegins, SerialStep, PTL DEF Spec

(* Where a cancel command can be. *)
CancelPlaces == {"look", "toCancelled", "probe", "reconcile", "toGone", "flag", "await",
               "reprobe", "kill", "done"}
CancelsGo == \A c \in Client : client[c].op[1] = "cancel" => client[c].at \in CancelPlaces

LEMMA CancelsGoStep ==
    ASSUME Shapes, CancelsGo, [Next]_vars
    PROVE  CancelsGo'
<1>1. CASE UNCHANGED client
  BY <1>1 DEF CancelsGo
<1>2. ASSUME NEW c \in Client, NEW p, Goes(c, p), p \in CancelPlaces PROVE CancelsGo'
  BY <1>2 DEF Goes, CancelsGo, Shapes
<1>3. ASSUME NEW c \in Client, Begin(c) PROVE CancelsGo'
  <2>1. PICK op \in Ops[c] : \E p :
             /\ client' = [client EXCEPT ![c] = [op |-> op, at |-> p]]
             /\ op[1] = "cancel" => p = "look"
    BY <1>3 DEF Begin
  <2> QED
    BY <2>1 DEF CancelsGo, CancelPlaces, Shapes
<1>4. ASSUME NEW c \in Client, ClientStep(c) PROVE CancelsGo'
  <2>1. ASSUME client[c].op[1] # "cancel", NEW p, Goes(c, p) PROVE CancelsGo'
    BY <2>1 DEF Goes, CancelsGo, Shapes
  <2>2. client' = client \/ \E p : Goes(c, p)
    BY <1>4 DEF ClientStep, MakeDirectory, FillDirectory, Lookup, Decide, AdmitDisk, ClientCheck,
                ClientWrite, LaunchUnit, Look, Probe, Reconcile, Flag, Await, Reprobe, Kill, Follow
  <2>3. CASE client[c].at \in CancelPlaces
    <3>1. client' = client \/ \E p \in CancelPlaces : Goes(c, p)
      BY <1>4, <2>3 DEF ClientStep, MakeDirectory, FillDirectory, Lookup, Decide, AdmitDisk,
           ClientCheck, ClientWrite, LaunchUnit, Look, Probe, Reconcile, Flag, Await, Reprobe,
           Kill, Follow, Reads, CancelPlaces
    <3> QED
      BY <1>1, <1>2, <3>1
  <2>4. CASE client[c].op[1] # "cancel"
    BY <1>1, <2>1, <2>2, <2>4
  <2> QED
    BY <2>3, <2>4 DEF CancelsGo
<1>5. ASSUME NEW c \in Client, Drop(c) PROVE CancelsGo'
  BY <1>2, <1>5 DEF Drop, CancelPlaces
<1>6. ASSUME NEW j \in Job, JobStep(j) PROVE UNCHANGED client
  BY <1>6 DEF JobStep, Worker, AskPool, SetUp, SetUpFailed, CheckChange, WriteChange, Spawn,
              Watch, Interrupted, LeavePool, EndCommand, ObeySignal, Ended, LeftEnds, Crash,
              SweepUnit, KillUnit, CollectUnit
<1> QED
  BY <1>1, <1>3, <1>4, <1>5, <1>6, OthersMove DEF Next, vars

LEMMA CancelsGoFirst == Init => CancelsGo
BY DEF Init, CancelsGo, NoOp

(* The last step of a cancel command that is not killed. *)
LEMMA CancelEnds ==
    ASSUME ControlInv, SerialInv, CancelsGo, NEW c \in Client, ClientStep(c),
           client[c].op[1] = "cancel", Exists(status[JobOf(c)]),
           client[c].at # "done", client'[c].at = "done"
    PROVE  \/ JobOf(c) \in Finished'
           \/ client[c].at = "kill" /\ pc'[JobOf(c)] \in {"off", "exited"}
<1>1. client[c].at \in CancelPlaces /\ Known(c)
  BY DEF CancelsGo, SerialInv, ClientsKnow
<1>2. JobOf(c) \in Job
  BY <1>1 DEF ControlInv, Called, Invocations, JobOf, CancelPlaces
<1>3. client'[c].at = "done" /\ \A p : Goes(c, p) => p = "done"
  BY DEF Goes, ControlInv, Shapes
<1>4. CASE Look(c) \/ Reconcile(c) \/ Await(c)
  <2>1. JobOf(c) \in Finished /\ UNCHANGED status
    BY <1>2, <1>3, <1>4 DEF Look, Reconcile, Await, Reads, Finished
  <2> QED
    BY <2>1 DEF Finished
<1>5. CASE ClientCheck(c)
  <2>1. client[c].at \in {"toCancelled", "toGone"}
    BY <1>1, <1>5 DEF ClientCheck, CancelPlaces, Target
  <2>2. Allowed(status[JobOf(c)], Target[client[c].at])
    BY <1>1, <2>1 DEF Known, Allowed, Successors, Target, FinalStates
  <2> QED
    BY <1>5, <2>2 DEF ClientCheck
<1>6. CASE ClientWrite(c)
  <2>1. client[c].at \in {"toCancelled", "toGone"}
    BY <1>1, <1>6 DEF ClientWrite, CancelPlaces, Target
  <2>2. Target[client[c].at] = "cancelled"
    BY <2>1 DEF Target
  <2>3. status' = [status EXCEPT ![JobOf(c)] = "cancelled"]
    BY <1>6, <2>2 DEF ClientWrite
  <2> QED
    BY <1>2, <2>3 DEF Finished, FinalStates, ControlInv, Shapes
<1>7. CASE Kill(c)
  <2>1. CASE pc[JobOf(c)] \in {"off", "exited"}
    BY <1>7, <2>1 DEF Kill, poolState
  <2>2. CASE pc[JobOf(c)] \notin {"off", "exited"}
    <3>1. pc' = [pc EXCEPT ![JobOf(c)] = "exited"]
      BY <1>2, <1>7, <2>2, CrashMoves DEF Kill
    <3> QED
      BY <1>2, <1>7, <3>1 DEF Kill, ControlInv, Shapes
  <2> QED
    BY <2>1, <2>2
<1>8. CASE Probe(c) \/ Flag(c) \/ Reprobe(c)
  BY <1>3, <1>8 DEF Probe, Flag, Reprobe
<1> QED
  BY <1>1, <1>4, <1>5, <1>6, <1>7, <1>8
     DEF ClientStep, MakeDirectory, FillDirectory, Lookup, Decide, AdmitDisk, LaunchUnit, Follow,
         Reads, CancelPlaces

(* A cancel that nobody kills settles its job: whatever a killed start, worker *)
(* or earlier cancel left behind, the record is final in the end, or the       *)
(* probes never confirmed that the unit is gone and the worker is killed.      *)
THEOREM CancelsSettle == Serial => (Spec => CancelSettles)
<1> SUFFICES ASSUME Serial PROVE Spec => CancelSettles
  OBVIOUS
<1> DEFINE Settles(c) ==
      LET j == JobOf(c)
      IN (/\ client[c].op[1] = "cancel" /\ Exists(status[j])
          /\ client[c].at # "done" /\ client'[c].at = "done")
            => \/ j \in Finished'
               \/ client[c].at = "kill" /\ pc'[j] \in {"off", "exited"}
<1>1. ControlInv /\ SerialInv /\ CancelsGo /\ [Next]_vars
        => [\A c \in Client \ Mortal : Settles(c)]_vars
  <2> SUFFICES ASSUME ControlInv, SerialInv, CancelsGo, [Next]_vars, NEW c \in Client, c \notin Mortal
               PROVE  Settles(c)
    OBVIOUS
  <2>1. ASSUME client'[c] = client[c] PROVE Settles(c)
    BY <2>1
  <2>2. CASE ClientStep(c)
    BY <2>2, CancelEnds
  <2>3. ASSUME NEW d \in Client, d # c, Begin(d) \/ ClientStep(d) \/ Drop(d) PROVE client'[c] = client[c]
    <3>1. client' = client \/ \E v : client' = [client EXCEPT ![d] = v]
      BY <2>3 DEF Begin, Drop, Goes, ClientStep, MakeDirectory, FillDirectory, Lookup, Decide,
           AdmitDisk, ClientCheck, ClientWrite, LaunchUnit, Look, Probe, Reconcile, Flag, Await,
           Reprobe, Kill, Follow
    <3> QED
      BY <2>3, <3>1 DEF ControlInv, Shapes
  <2>4. CASE Begin(c)
    <3>1. client[c].at = "idle"
      BY <2>4 DEF Begin
    <3>2. client[c].op[1] # "cancel"
      BY <3>1 DEF CancelsGo, CancelPlaces
    <3> QED
      BY <3>2
  <2>5. ~Drop(c)
    BY DEF Drop
  <2>6. ASSUME NEW j \in Job, JobStep(j) PROVE client' = client
    BY <2>6 DEF JobStep, Worker, AskPool, SetUp, SetUpFailed, CheckChange, WriteChange, Spawn,
              Watch, Interrupted, LeavePool, EndCommand, ObeySignal, Ended, LeftEnds, Crash,
              SweepUnit, KillUnit, CollectUnit
  <2> HIDE DEF Settles
  <2> QED
    BY <2>1, <2>2, <2>3, <2>4, <2>5, <2>6, OthersMove DEF Next, vars
<1> QED
  BY <1>1, ControlBegins, ControlStep, SerialBegins, SerialStep, CancelsGoFirst, CancelsGoStep, PTL
     DEF Spec, CancelSettles, ControlInv

(* A worker that ran to its end has made its job final.                        *)
THEOREM WorkersSettle == Serial => (Spec => []WorkerSettlesJob)
<1> SUFFICES ASSUME Serial PROVE Spec => []WorkerSettlesJob
  OBVIOUS
<1>1. ControlInv /\ SerialInv => WorkerSettlesJob
  BY DEF SerialInv, Recorded, WorkerSettlesJob, Finished
<1> QED
  BY <1>1, ControlBegins, ControlStep, SerialBegins, SerialStep, PTL DEF Spec

(* Nobody finalises a job while its worker waits for a permit.                 *)
THEOREM NoWaiterIsOrphaned == Serial => (Spec => []NoOrphanWaiter)
<1> SUFFICES ASSUME Serial PROVE Spec => []NoOrphanWaiter
  OBVIOUS
<1>1. ControlInv /\ SerialInv => NoOrphanWaiter
  BY DEF SerialInv, Recorded, NoOrphanWaiter, Finished, FinalStates, Asking
<1> QED
  BY <1>1, ControlBegins, ControlStep, SerialBegins, SerialStep, PTL DEF Spec

-------------------------------------------------------------------------------
(* The pool in the runner *)

(* One status file is written at a time, and never that of a final job: seen   *)
(* from the pool, nothing happens or a job becomes final.                      *)
LEMMA WriteIsRecord ==
    ASSUME status \in [Job -> States], NEW j \in Job, NEW s,
           status' = [status EXCEPT ![j] = s], UNCHANGED poolState,
           \A k \in Finished : status'[k] = status[k]
    PROVE  Pool!RecordFinal(j) \/ UNCHANGED Pool!vars
<1>1. UNCHANGED <<Pool!poolVars, installed, cancelled, live>>
  BY DEF poolState, Pool!poolVars
<1>2. CASE s \in FinalStates
  <2>1. Finished' = Finished \cup {j}
    BY <1>2 DEF Finished
  <2> QED
    BY <1>1, <2>1 DEF Pool!RecordFinal, Pool!poolVars
<1>3. CASE s \notin FinalStates
  <2>1. Finished' = Finished
    BY <1>3 DEF Finished
  <2> QED
    BY <1>1, <2>1 DEF Pool!vars
<1> QED
  BY <1>2, <1>3

LEMMA PoolStutters ==
    ASSUME UNCHANGED <<poolState, status>>
    PROVE  UNCHANGED Pool!vars
BY DEF poolState, Pool!vars, Pool!poolVars, Finished

(* One status file is replaced, whoever does it. *)
StatusWrite ==
    UNCHANGED poolState /\ \E j \in Job : \E s : status' = [status EXCEPT ![j] = s]

(* Whatever server commands run at once, a step of the runner is one of the    *)
(* pool or leaves the pool alone and replaces a status file.                   *)
LEMMA PoolUse ==
    ASSUME ControlInv, [Next]_vars
    PROVE  [Pool!Next]_(Pool!vars) \/ StatusWrite
<1>1. ASSUME NEW j \in Job, Worker(j) PROVE [Pool!Next]_(Pool!vars) \/ StatusWrite
  <2>1. CASE AskPool(j)
    BY <2>1 DEF AskPool, Pool!Next, Pool!Worker
  <2>2. CASE WriteChange(j)
    BY <2>2 DEF WriteChange, StatusWrite
  <2>3. CASE LeavePool(j)
    BY <2>3 DEF LeavePool, Pool!Next, Pool!Worker
  <2>4. CASE SetUp(j) \/ SetUpFailed(j) \/ CheckChange(j) \/ Spawn(j) \/ Watch(j) \/ Interrupted(j)
    BY <2>4, PoolStutters DEF SetUp, SetUpFailed, CheckChange, Spawn, Watch, Interrupted
  <2> QED
    BY <1>1, <2>1, <2>2, <2>3, <2>4 DEF Worker
<1>2. ASSUME NEW j \in Job,
             EndCommand(j) \/ ObeySignal(j) \/ LeftEnds(j) \/ Crash(j)
             \/ SweepUnit(j) \/ KillUnit(j) \/ CollectUnit(j)
      PROVE [Pool!Next]_(Pool!vars) \/ StatusWrite
  <2>1. CASE EndCommand(j) \/ ObeySignal(j) \/ LeftEnds(j) \/ SweepUnit(j) \/ KillUnit(j)
    BY <2>1, PoolStutters DEF EndCommand, ObeySignal, Ended, LeftEnds, SweepUnit, KillUnit
  <2>2. CASE Crash(j)
    BY <2>2 DEF Crash, Pool!Next, Pool!Environment
  <2>3. CASE CollectUnit(j)
    BY <2>3 DEF CollectUnit, Pool!Next, Pool!Environment
  <2> QED
    BY <1>2, <2>1, <2>2, <2>3
<1>3. ASSUME NEW c \in Client, ClientStep(c) PROVE [Pool!Next]_(Pool!vars) \/ StatusWrite
  <2>1. CASE MakeDirectory(c) \/ FillDirectory(c) \/ ClientWrite(c)
    <3>1. CASE UNCHANGED <<poolState, status>>
      BY <3>1, PoolStutters
    <3>2. CASE status' # status
      <4>1. client[c].at # "idle"
        BY <2>1 DEF MakeDirectory, FillDirectory, ClientWrite, Target
      <4>2. JobOf(c) \in Job
        BY <4>1 DEF ControlInv, Called, Invocations, JobOf
      <4> QED
        BY <2>1, <3>2, <4>2 DEF MakeDirectory, FillDirectory, ClientWrite, StatusWrite
    <3> QED
      BY <2>1, <3>1, <3>2 DEF MakeDirectory, FillDirectory, ClientWrite, poolState
  <2>2. CASE LaunchUnit(c) \/ Flag(c) \/ Kill(c)
    <3>1. client[c].at # "idle"
      BY <2>2 DEF LaunchUnit, Flag, Kill
    <3>2. JobOf(c) \in Job
      BY <3>1 DEF ControlInv, Called, Invocations, JobOf
    <3>3. CASE LaunchUnit(c)
      <4>1. CASE Pool!Launch(JobOf(c))
        BY <3>2, <4>1 DEF Pool!Next, Pool!Environment
      <4>2. CASE UNCHANGED poolState
        BY <3>3, <4>2, PoolStutters DEF LaunchUnit
      <4> QED
        BY <3>3, <4>1, <4>2 DEF LaunchUnit
    <3>4. CASE Flag(c)
      <4>1. Finished' = Finished
        BY <3>4 DEF Flag, Finished
      <4>2. Pool!RequestCancel(JobOf(c))
        BY <3>4, <4>1 DEF Flag, Pool!RequestCancel, Pool!poolVars
      <4> QED
        BY <3>2, <4>2 DEF Pool!Next, Pool!Environment
    <3>5. CASE Kill(c)
      <4>1. CASE Pool!Crash(JobOf(c))
        BY <3>2, <4>1 DEF Pool!Next, Pool!Environment
      <4>2. CASE UNCHANGED poolState
        BY <3>5, <4>2, PoolStutters DEF Kill
      <4> QED
        BY <3>5, <4>1, <4>2 DEF Kill
    <3> QED
      BY <2>2, <3>3, <3>4, <3>5
  <2>3. CASE ~(MakeDirectory(c) \/ FillDirectory(c) \/ ClientWrite(c) \/ LaunchUnit(c) \/ Flag(c) \/ Kill(c))
    <3>1. UNCHANGED <<poolState, status>>
      BY <1>3, <2>3
         DEF ClientStep, Lookup, Decide, AdmitDisk, ClientCheck, Look, Probe, Reconcile, Await,
             Reprobe, Follow, Reads
    <3> QED
      BY <3>1, PoolStutters
  <2> QED
    BY <2>1, <2>2, <2>3
<1>4. ASSUME NEW c \in Client, Begin(c) \/ Drop(c) PROVE [Pool!Next]_(Pool!vars) \/ StatusWrite
  BY <1>4, PoolStutters DEF Begin, Drop
<1>5. CASE Others
  BY <1>5 DEF Others, Pool!Next
<1>6. CASE UNCHANGED vars
  BY <1>6, PoolStutters DEF vars
<1> QED
  BY <1>1, <1>2, <1>3, <1>4, <1>5, <1>6 DEF Next, JobStep

LEMMA PoolStep ==
    ASSUME ControlInv, SerialInv, [Next]_vars
    PROVE  [Pool!Next]_(Pool!vars)
<1>1. \A j \in Finished : status'[j] = status[j]
  BY FinalStep
<1>2. CASE StatusWrite
  <2>1. PICK j \in Job : Pool!RecordFinal(j) \/ UNCHANGED Pool!vars
    BY <1>1, <1>2, WriteIsRecord DEF StatusWrite, ControlInv, Shapes
  <2> QED
    BY <2>1 DEF Pool!Next, Pool!Environment
<1> QED
  BY <1>2, PoolUse

(* The runner uses the pool as ResourcePool says it is used, and so all that   *)
(* is proved of the pool holds in the runner.                                  *)
THEOREM PoolIsUsed == Serial => (Spec => UsesPool)
<1> SUFFICES ASSUME Serial PROVE Spec => UsesPool
  OBVIOUS
<1>1. Init => Pool!Init
  BY DEF Init, Pool!Init, Finished, FinalStates
<1>2. ControlInv /\ SerialInv /\ [Next]_vars => [Pool!Next]_(Pool!vars)
  BY PoolStep
<1> QED
  BY <1>1, <1>2, ControlBegins, ControlStep, SerialBegins, SerialStep, PTL
     DEF Spec, UsesPool, Pool!Spec

-------------------------------------------------------------------------------
(* What is proved of the pool, in the runner *)

Permits == INSTANCE ResourcePool_proofs WITH final <- Finished

(* The pool of the model and the pool of the theorems are the same.            *)
LEMMA SameBegins == Pool!Init => Permits!Init
BY DEF Pool!Init, Permits!Init, Pool!Slot, Permits!Slot

LEMMA SameSteps == [Pool!Next]_(Pool!vars) => [Permits!Next]_(Permits!vars)
BY DEF
  Pool!Next, Pool!Worker, Pool!Waiting, Pool!Environment, Pool!OpenPool, Pool!TouchSlots,
  Pool!Enter, Pool!Fresh, Pool!Superseded, Pool!WriteTicket, Pool!FindTicket, Pool!First,
  Pool!JobsOf, Pool!CheckCancel, Pool!Withdraw, Pool!RemoveTicket, Pool!Poll, Pool!IsHead,
  Pool!TrySlot, Pool!Held, Pool!Requested, Pool!Slot, Pool!Freed, Pool!Admit, Pool!GiveUp,
  Pool!Conclude, Pool!Release, Pool!Exit, Pool!Crash, Pool!Reap, Pool!Launch, Pool!Snapshot,
  Pool!RequestCancel, Pool!RecordFinal, Pool!Reinstall, Pool!Goto, Pool!Probes,
  Pool!poolVars, Pool!vars, Pool!Cardinality,
  Permits!Next, Permits!Worker, Permits!Waiting, Permits!Environment, Permits!OpenPool,
  Permits!TouchSlots, Permits!Enter, Permits!Fresh, Permits!Superseded, Permits!WriteTicket,
  Permits!FindTicket, Permits!First, Permits!JobsOf, Permits!CheckCancel, Permits!Withdraw,
  Permits!RemoveTicket, Permits!Poll, Permits!IsHead, Permits!TrySlot, Permits!Held,
  Permits!Requested, Permits!Slot, Permits!Freed, Permits!Admit, Permits!GiveUp,
  Permits!Conclude, Permits!Release, Permits!Exit, Permits!Crash, Permits!Reap,
  Permits!Launch, Permits!Snapshot, Permits!RequestCancel, Permits!RecordFinal,
  Permits!Reinstall, Permits!Goto, Permits!Probes, Permits!poolVars, Permits!vars,
  Permits!Cardinality

LEMMA SameTypes == Pool!TypeOK <=> Permits!TypeOK
BY DEF Pool!TypeOK, Permits!TypeOK, Pool!Ticket, Permits!Ticket, Pool!Slot, Permits!Slot,
       Pool!Place, Permits!Place, Pool!Queueing, Permits!Queueing, Pool!Holding, Permits!Holding

LEMMA SamePermits == Pool!PermitInv <=> Permits!PermitInv
BY DEF Pool!PermitInv, Pool!ScannerHasLock, Pool!PermitHasOwner, Pool!ScanHasFiles,
       Pool!PoolOpened, Pool!LeaseComplete, Pool!FilesInstalled, Pool!Active, Pool!Pooled,
       Pool!Held, Pool!Requested, Pool!Slot, Pool!Queueing, Pool!Holding, Pool!Cardinality,
       Permits!PermitInv, Permits!ScannerHasLock, Permits!PermitHasOwner, Permits!ScanHasFiles,
       Permits!PoolOpened, Permits!LeaseComplete, Permits!FilesInstalled, Permits!Active,
       Permits!Pooled, Permits!Held, Permits!Requested, Permits!Slot, Permits!Queueing,
       Permits!Holding, Permits!Cardinality

LEMMA SameAlone == Pool!ExclusiveAlone <=> Permits!ExclusiveAlone
BY DEF Pool!ExclusiveAlone, Pool!Active, Pool!Pooled,
       Permits!ExclusiveAlone, Permits!Active, Permits!Pooled

LEMMA SameTickets == Pool!TicketInv <=> Permits!TicketInv
BY DEF Pool!TicketInv, Pool!WorkerHasUnit, Pool!OnlyPooledQueue, Pool!OneTicketEach,
       Pool!HolderHasNoTicket, Pool!NoLostTicket, Pool!OneWaiterPerSession, Pool!Pooled,
       Pool!JobsOf, Pool!Queueing, Pool!Holding,
       Permits!TicketInv, Permits!WorkerHasUnit, Permits!OnlyPooledQueue, Permits!OneTicketEach,
       Permits!HolderHasNoTicket, Permits!NoLostTicket, Permits!OneWaiterPerSession,
       Permits!Pooled, Permits!JobsOf, Permits!Queueing, Permits!Holding

LEMMA SamePool == Pool!Spec => Permits!Spec
BY SameBegins, SameSteps, PTL DEF Pool!Spec, Permits!Spec

LEMMA SameLineBegins == Permits!Fifo!FifoInit => Pool!Fifo!FifoInit
BY DEF
  Pool!Fifo!FifoInit, Pool!Fifo!FifoNext, Pool!Fifo!fifoVars,
  Pool!Fifo!Leave, Pool!Fifo!StepOut, Pool!Fifo!Join, Pool!Fifo!Admit,
  Pool!Fifo!Conclude, Pool!Fifo!Excuse, Pool!Fifo!Fits,
  Pool!Fifo!Cardinality, Pool!JobsOf, Pool!Older, Pool!Pooled, Pool!Active,
  Permits!Fifo!FifoInit, Permits!Fifo!FifoNext, Permits!Fifo!fifoVars,
  Permits!Fifo!Leave, Permits!Fifo!StepOut, Permits!Fifo!Join,
  Permits!Fifo!Admit, Permits!Fifo!Conclude, Permits!Fifo!Excuse,
  Permits!Fifo!Fits, Permits!Fifo!Cardinality, Permits!JobsOf,
  Permits!Older, Permits!Pooled, Permits!Active

LEMMA SameLineSteps ==
    [Permits!Fifo!FifoNext]_(Permits!Fifo!fifoVars) => [Pool!Fifo!FifoNext]_(Pool!Fifo!fifoVars)
BY DEF
  Pool!Fifo!FifoInit, Pool!Fifo!FifoNext, Pool!Fifo!fifoVars,
  Pool!Fifo!Leave, Pool!Fifo!StepOut, Pool!Fifo!Join, Pool!Fifo!Admit,
  Pool!Fifo!Conclude, Pool!Fifo!Excuse, Pool!Fifo!Fits,
  Pool!Fifo!Cardinality, Pool!JobsOf, Pool!Older, Pool!Pooled, Pool!Active,
  Permits!Fifo!FifoInit, Permits!Fifo!FifoNext, Permits!Fifo!fifoVars,
  Permits!Fifo!Leave, Permits!Fifo!StepOut, Permits!Fifo!Join,
  Permits!Fifo!Admit, Permits!Fifo!Conclude, Permits!Fifo!Excuse,
  Permits!Fifo!Fits, Permits!Fifo!Cardinality, Permits!JobsOf,
  Permits!Older, Permits!Pooled, Permits!Active

LEMMA SameLine == Permits!ImplementsFifo => Pool!ImplementsFifo
BY SameLineBegins, SameLineSteps, PTL
   DEF Pool!ImplementsFifo, Permits!ImplementsFifo, Pool!Fifo!FifoSpec, Permits!Fifo!FifoSpec

-------------------------------------------------------------------------------
(* The permits of the runner *)

(* A step of the runner is a step of the pool or changes nothing of it but     *)
(* which jobs are final, and who holds what does not depend on that.           *)
LEMMA RunnerPermitStep ==
    ControlInv /\ Pool!TypeOK /\ Pool!PermitInv /\ [Next]_vars
        => Pool!TypeOK' /\ Pool!PermitInv'
<1> SUFFICES ASSUME ControlInv, Pool!TypeOK, Pool!PermitInv, [Next]_vars
             PROVE  Pool!TypeOK' /\ Pool!PermitInv'
  OBVIOUS
<1>1. CASE [Pool!Next]_(Pool!vars)
  <2>1. [Permits!Next]_(Permits!vars)
    BY <1>1, SameSteps
  <2>2. Permits!TypeOK /\ Permits!PermitInv
    BY SameTypes, SamePermits
  <2>3. Permits!TypeOK'
    BY <2>1, <2>2, Permits!TypeStep, PoolAssumption
  <2>4. Permits!PermitInv'
    BY <2>1, <2>2, Permits!PermitStep, PoolAssumption
  <2>5. Pool!TypeOK'
    BY <2>3, SameTypes, PTL
  <2>6. Pool!PermitInv'
    BY <2>4, SamePermits, PTL
  <2> QED
    BY <2>5, <2>6
<1>2. CASE StatusWrite
  <2>1. UNCHANGED poolState
    BY <1>2 DEF StatusWrite
  <2>2. Finished' \subseteq Job
    BY DEF Finished
  <2>3. Pool!TypeOK'
    BY <2>1, <2>2 DEF poolState, Pool!TypeOK, Pool!Ticket, Pool!Slot, Pool!Place, Pool!Queueing,
                      Pool!Holding
  <2>4. Pool!PermitInv'
    BY <2>1 DEF poolState, Pool!PermitInv, Pool!ScannerHasLock, Pool!PermitHasOwner,
                Pool!ScanHasFiles, Pool!PoolOpened, Pool!LeaseComplete, Pool!FilesInstalled,
                Pool!Active, Pool!Pooled, Pool!Held, Pool!Requested, Pool!Slot, Pool!Queueing,
                Pool!Holding
  <2> QED
    BY <2>3, <2>4
<1> QED
  BY <1>1, <1>2, PoolUse

(* Type correctness of the runner: all that a status file, a worker, its       *)
(* command, a server command and the files of the pool may hold.               *)
Enlisted == \A c \in Client : client[c].op \in (UNION {Ops[d] : d \in Client}) \cup {NoOp}

LEMMA EnlistedStep ==
    ASSUME ControlInv, Enlisted, [Next]_vars
    PROVE  Enlisted'
<1>1. ASSUME NEW c \in Client, Begin(c) PROVE Enlisted'
  <2>1. PICK op \in Ops[c] : \E p : client' = [client EXCEPT ![c] = [op |-> op, at |-> p]]
    BY <1>1 DEF Begin
  <2> QED
    BY <2>1 DEF Enlisted, ControlInv, Shapes
<1>2. ASSUME NEW c \in Client, NEW p, Goes(c, p) PROVE Enlisted'
  BY <1>2 DEF Goes, Enlisted, ControlInv, Shapes
<1>3. ASSUME NEW c \in Client, ClientStep(c) PROVE client' = client \/ \E p : Goes(c, p)
  BY <1>3 DEF ClientStep, MakeDirectory, FillDirectory, Lookup, Decide, AdmitDisk, ClientCheck,
              ClientWrite, LaunchUnit, Look, Probe, Reconcile, Flag, Await, Reprobe, Kill, Follow
<1>4. ASSUME NEW j \in Job, JobStep(j) PROVE UNCHANGED client
  BY <1>4 DEF JobStep, Worker, AskPool, SetUp, SetUpFailed, CheckChange, WriteChange, Spawn,
              Watch, Interrupted, LeavePool, EndCommand, ObeySignal, Ended, LeftEnds, Crash,
              SweepUnit, KillUnit, CollectUnit
<1>5. CASE UNCHANGED client
  BY <1>5 DEF Enlisted
<1>6. ASSUME NEW c \in Client, Drop(c) PROVE Enlisted'
  BY <1>2, <1>6 DEF Drop
<1> QED
  BY <1>1, <1>2, <1>3, <1>4, <1>5, <1>6, OthersMove DEF Next, vars

LEMMA RunnerPermitBegins == Init => Pool!TypeOK /\ Pool!PermitInv
<1> SUFFICES ASSUME Init PROVE Pool!TypeOK /\ Pool!PermitInv
  OBVIOUS
<1>1. Pool!Init
  BY DEF Init, Pool!Init, Finished, FinalStates
<1>2. Permits!TypeOK /\ Permits!PermitInv
  BY <1>1, SameBegins, Permits!TypeBegins, Permits!PermitBegins, PoolAssumption
<1> QED
  BY <1>2, SameTypes, SamePermits

(* Whatever server commands run at once and whichever of them and of the       *)
(* workers are killed, a taken slot file has the worker that owns it and an    *)
(* admitted worker has exactly the permits of its job.                         *)
THEOREM RunnerKeepsPermits == Spec => [](Pool!TypeOK /\ Pool!PermitInv)
BY ControlBegins, ControlStep, RunnerPermitBegins, RunnerPermitStep, PTL DEF Spec

(* Each variable of the runner keeps its type.                                 *)
THEOREM RunnerTyped == Spec => []TypeOK
<1>1. Init => Enlisted
  BY DEF Init, Enlisted
<1>2. ControlInv /\ Enlisted /\ [Next]_vars => Enlisted'
  BY EnlistedStep
<1>3. ControlInv /\ Enlisted /\ Pool!TypeOK => TypeOK
  BY DEF ControlInv, Shapes, Enlisted, TypeOK
<1> QED
  BY <1>1, <1>2, <1>3, ControlBegins, ControlStep, RunnerKeepsPermits, PTL DEF Spec

(* The phases in which run_job has its lease, from the environment of the      *)
(* command to the record of how it ended.                                      *)
AtWork == {"setup", "setupFailed", "toRunning", "spawn", "watch", "interrupt",
           "toPassed", "toFailed"}

(* While the worker of an exclusive job prepares, runs or records its command, *)
(* the worker of no other heavy or exclusive job does (scheduler.py's          *)
(* "requested = capacity", seen from run_job).  A worker that is killed leaves *)
(* the phases, its command does so only when the unit is swept.                *)
ExclusiveWorksAlone ==
    \A j, k \in Pool!Pooled :
        Weight[j] = "exclusive" /\ phase[j] \in AtWork /\ phase[k] \in AtWork => k = j

THEOREM ExclusiveJobsWorkAlone ==
    ASSUME NEW C \in Nat, Capacities = {C}
    PROVE  Spec => []ExclusiveWorksAlone
<1>1. Permits!TypeOK /\ Permits!PermitInv => Permits!ExclusiveAlone
  BY Permits!ExclusiveHoldsAll, PoolAssumption
<1>2. Pool!TypeOK /\ Pool!PermitInv => Pool!ExclusiveAlone
  BY <1>1, SameTypes, SamePermits, SameAlone
<1>3. ControlInv => \A j \in Job : phase[j] \in AtWork => pc[j] = "admitted"
  <2> SUFFICES ASSUME ControlInv, NEW j \in Job, phase[j] \in AtWork PROVE pc[j] = "admitted"
    OBVIOUS
  <2>1. pc[j] \in Asking \cup {"off", "releasing", "exited", "admitted"}
    BY DEF ControlInv, Shapes, Asking, Pool!Place, Pool!Queueing, Pool!Holding
  <2> QED
    BY <2>1 DEF ControlInv, Placed, AtWork
<1>4. ControlInv /\ Pool!ExclusiveAlone => ExclusiveWorksAlone
  BY <1>3 DEF Pool!ExclusiveAlone, Pool!Active, Pool!Pooled, ExclusiveWorksAlone
<1> QED
  BY <1>2, <1>4, ControlBegins, ControlStep, RunnerKeepsPermits, PTL DEF Spec

-------------------------------------------------------------------------------
(* The line of the runner *)

(* With server commands that start one after the other and identifiers of      *)
(* which none ends with another, a waiting worker that nobody cancelled keeps  *)
(* its ticket and a session waits once.                                        *)
THEOREM RunnerKeepsTickets == Serial /\ Collides = {} => (Spec => []Pool!TicketInv)
<1> SUFFICES ASSUME Serial, Collides = {} PROVE Spec => []Pool!TicketInv
  OBVIOUS
<1>1. Spec => Pool!Spec
  BY PoolIsUsed DEF UsesPool
<1>2. Permits!Spec => []Permits!TicketInv
  BY Permits!TicketsOwned, PoolAssumption
<1> QED
  BY <1>1, <1>2, SamePool, SameTickets, PTL

(* With one capacity besides, the jobs of the runner are admitted first in,    *)
(* first out, and no more of them than fit.                                    *)
THEOREM RunnerIsFifo ==
    ASSUME Serial, Collides = {}, NEW C \in Nat, Capacities = {C}
    PROVE  Spec => Pool!ImplementsFifo
<1>1. Spec => Pool!Spec
  BY PoolIsUsed DEF UsesPool
<1>2. Permits!Spec => Permits!ImplementsFifo
  BY Permits!PoolIsFifo, PoolAssumption
<1> QED
  BY <1>1, <1>2, SamePool, SameLine, PTL
===============================================================================
