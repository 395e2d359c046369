----------------------------- MODULE ResourcePool -----------------------------
(* The FIFO permit pool of scheduler.py, one worker process per job.  The      *)
(* shared state is the directory locks/heavy-pool: the tickets in queue/, the  *)
(* advisory lock on queue.lock, and one advisory lock per slots/<n>.lock.      *)
(* A worker runs wait(), holds its lease while its command runs, and releases. *)
(* What the rest of the runner does to a job (its unit starts and stops, its   *)
(* record becomes final, its cancellation is requested) is an action of the    *)
(* environment here; JobLifecycle replaces those actions by the real ones.     *)
EXTENDS FiniteSets, Naturals

CONSTANTS
    Job,          \* job identifiers
    Weight,       \* Weight[j]: "light", "heavy" or "exclusive"
    Session,      \* Session[j]: the --session of j, or NoSession
    NoSession,
    NoOne,        \* the holder of a free lock
    Collides,     \* <<k, j>>: the identifier of k ends with "-" and that of j
    MaxCapacity,  \* bound on REMOTE_RUNNER_MAX_HEAVY_JOBS
    Capacities,   \* the values the installer ever gives it
    Restartable,  \* jobs whose unit may be started again after it is gone
    MaxStamp      \* no restart once this many tickets were written

ASSUME NoOneAssumption == NoOne \notin Job
ASSUME WeightAssumption == Weight \in [Job -> {"light", "heavy", "exclusive"}]
ASSUME CapacityAssumption == MaxCapacity \in Nat \ {0} /\ Capacities \subseteq 1..MaxCapacity
ASSUME CollidesAssumption == Collides \subseteq Job \X Job

VARIABLES
    queue,      \* the tickets: [job, stamp], in the order of their stamps
    clock,      \* the stamp of the next ticket
    queueLock,  \* the process that holds queue.lock while it tries the slots
    slots,      \* slots[s]: the process that holds slots/<s>.lock
    slotFiles,  \* slots/0.lock .. slots/<slotFiles - 1>.lock exist
    installed,  \* the configured capacity
    capacity,   \* capacity[j]: the capacity the worker of j was started with
    pc,         \* where the worker of j is
    untried,    \* untried[j]: slot files the scan of j has not tried yet
    cancelled,  \* jobs with a cancel.requested file
    final,      \* jobs whose status is final
    live        \* jobs whose unit systemd would not call inactive

poolVars == <<queue, clock, queueLock, slots, slotFiles, capacity, pc, untried>>
vars == <<poolVars, installed, cancelled, final, live>>

Slot == 0..(MaxCapacity - 1)
Ticket == [job : Job, stamp : Nat]

(* Places of a worker: "boot" before the pool object exists, "enter" before    *)
(* its ticket is written, "wait" at the top of the loop, "poll" after it saw   *)
(* no cancellation, "withdraw" after it saw one, "scan" inside _try_slots.     *)
Queueing == {"wait", "poll", "scan"}
Holding == {"admitted", "releasing"}
Place == {"off", "boot", "enter", "withdraw", "exited"} \cup Queueing \cup Holding

TypeOK ==
    /\ queue \subseteq Ticket
    /\ clock \in Nat
    /\ queueLock \in Job \cup {NoOne}
    /\ slots \in [Slot -> Job \cup {NoOne}]
    /\ slotFiles \in 0..MaxCapacity
    /\ installed \in Capacities
    /\ capacity \in [Job -> Capacities \cup {0}]
    /\ pc \in [Job -> Place]
    /\ untried \in [Job -> SUBSET Slot]
    /\ cancelled \subseteq Job
    /\ final \subseteq Job
    /\ live \subseteq Job

Init ==
    /\ queue = {}
    /\ clock = 0
    /\ queueLock = NoOne
    /\ slots = [s \in Slot |-> NoOne]
    /\ slotFiles = 0
    /\ installed \in Capacities
    /\ capacity = [j \in Job |-> 0]
    /\ pc = [j \in Job |-> "off"]
    /\ untried = [j \in Job |-> {}]
    /\ cancelled = {}
    /\ final = {}
    /\ live = {}

-------------------------------------------------------------------------------
(* Tickets *)

(* The first of the tickets in q, in the order _ticket_paths sorts them. *)
First(q) == {t \in q : \A u \in q : t.stamp <= u.stamp}

(* _find_ticket: the first ticket in q whose file name ends with "-<j>.json". *)
FindTicket(q, j) == First({t \in q : t.job = j \/ <<t.job, j>> \in Collides})

JobsOf(q) == {t.job : t \in q}

(* What systemctl may confirm at this moment: any part of the truth, since a   *)
(* failed or late answer counts as "not inactive".                             *)
Probes == SUBSET (JobsOf(queue) \ live)

(* Mutation: tickets of jobs whose unit is gone are kept. *)
FreshKeepsDead(dead) == {t \in queue : t.job \notin final}

(* _prune_stale_tickets, dead being the jobs found inactive. *)
Fresh(dead) == {t \in queue : t.job \notin final \cup dead}

(* The tickets _supersede_queued_session takes out of q for j. *)
Superseded(q, j) ==
    {t \in q : Session[j] # NoSession /\ t.job # j /\ Session[t.job] = Session[j]}

(* Mutation: a ticket of an earlier worker of the job is not noticed. *)
WriteTicketAlways(q, j) ==
    queue' = q \cup {[job |-> j, stamp |-> clock]} /\ clock' = clock + 1

(* _write_ticket, once q is what is left of the queue. *)
WriteTicket(q, j) ==
    IF FindTicket(q, j) = {}
    THEN queue' = q \cup {[job |-> j, stamp |-> clock]} /\ clock' = clock + 1
    ELSE queue' = q /\ UNCHANGED clock

(* Mutation: the ticket stays. *)
KeepTicket(j) == UNCHANGED queue

(* _remove_ticket. *)
RemoveTicket(j) == queue' = queue \ FindTicket(queue, j)

(* Mutation: a worker does not wait for its turn. *)
AnyTurn(q, j) == j \in JobsOf(q)

(* The head test of wait(). *)
IsHead(q, j) == j \in JobsOf(First(q))

-------------------------------------------------------------------------------
(* Permits *)

Held(j) == {s \in Slot : slots[s] = j}

(* Mutation: an exclusive job asks for one permit. *)
RequestedOne(j) == 1

Requested(j) == IF Weight[j] = "exclusive" THEN capacity[j] ELSE 1

(* Mutation: a partial acquisition is kept. *)
FreedNone(j) == slots

(* The slots once worker j has closed, or lost, all its streams. *)
Freed(j) == [s \in Slot |-> IF slots[s] = j THEN NoOne ELSE slots[s]]

Goto(j, place) == pc' = [pc EXCEPT ![j] = place]

-------------------------------------------------------------------------------
(* The worker *)

(* Mutation: range(capacity + 1). *)
TouchOneMore == slotFiles' = IF slotFiles < installed + 1 THEN installed + 1 ELSE slotFiles

(* Mutation: the files above the configured capacity are removed. *)
TouchExactly == slotFiles' = installed

(* ResourcePool.__init__ makes the missing slot files and removes none. *)
TouchSlots == slotFiles' = IF slotFiles < installed THEN installed ELSE slotFiles

(* ResourcePool.__init__, and the early return of wait() for a light job. *)
OpenPool(j) ==
    /\ pc[j] = "boot"
    /\ capacity' = [capacity EXCEPT ![j] = installed]
    /\ TouchSlots
    /\ Goto(j, IF Weight[j] = "light" THEN "admitted" ELSE "enter")
    /\ UNCHANGED <<queue, clock, queueLock, slots, untried, installed,
                   cancelled, final, live>>

(* The first locked section of wait(): prune, supersede, write the ticket. *)
Enter(j, dead) ==
    LET fresh == Fresh(dead)
        older == Superseded(fresh, j)
    IN /\ pc[j] = "enter" /\ queueLock = NoOne
       /\ WriteTicket(fresh \ older, j)
       /\ cancelled' = cancelled \cup JobsOf(older)
       /\ Goto(j, "wait")
       /\ UNCHANGED <<queueLock, slots, slotFiles, capacity, untried,
                      installed, final, live>>

(* cancelled() at the top of the loop: the answer may be old when the lock is  *)
(* taken.                                                                      *)
CheckCancel(j) ==
    /\ pc[j] = "wait"
    /\ Goto(j, IF j \in cancelled THEN "withdraw" ELSE "poll")
    /\ UNCHANGED <<queue, clock, queueLock, slots, slotFiles, capacity, untried,
                   installed, cancelled, final, live>>

(* _remove_ticket and SchedulerCancelled. *)
Withdraw(j) ==
    /\ pc[j] = "withdraw" /\ queueLock = NoOne
    /\ RemoveTicket(j)
    /\ Goto(j, "releasing")
    /\ UNCHANGED <<clock, queueLock, slots, slotFiles, capacity, untried,
                   installed, cancelled, final, live>>

(* The second locked section up to the head test; a head goes on with the      *)
(* lock to the slots that exist now, any other lets go and sleeps.             *)
Poll(j, dead) ==
    LET fresh == Fresh(dead)
        head == IsHead(fresh, j)
    IN /\ pc[j] = "poll" /\ queueLock = NoOne
       /\ queue' = fresh
       /\ queueLock' = IF head THEN j ELSE NoOne
       /\ untried' = [untried EXCEPT ![j] = IF head THEN {s \in Slot : s < slotFiles} ELSE {}]
       /\ Goto(j, IF head THEN "scan" ELSE "wait")
       /\ UNCHANGED <<clock, slots, slotFiles, capacity, installed, cancelled, final, live>>

(* One turn of the loop of _try_slots: a non-blocking flock on the next file. *)
TrySlot(j) ==
    /\ pc[j] = "scan" /\ Cardinality(Held(j)) < Requested(j)
    /\ \E s \in untried[j] :
         /\ \A r \in untried[j] : s <= r
         /\ slots' = IF slots[s] = NoOne THEN [slots EXCEPT ![s] = j] ELSE slots
         /\ untried' = [untried EXCEPT ![j] = @ \ {s}]
    /\ UNCHANGED <<queue, clock, queueLock, slotFiles, capacity, pc,
                   installed, cancelled, final, live>>

(* All requested permits are held: remove the ticket, unlock, return the lease. *)
Admit(j) ==
    /\ pc[j] = "scan" /\ Cardinality(Held(j)) = Requested(j)
    /\ RemoveTicket(j)
    /\ queueLock' = NoOne
    /\ untried' = [untried EXCEPT ![j] = {}]
    /\ Goto(j, "admitted")
    /\ UNCHANGED <<clock, slots, slotFiles, capacity, installed, cancelled, final, live>>

(* The scan ends short: give every permit back, unlock and sleep. *)
GiveUp(j) ==
    /\ pc[j] = "scan" /\ untried[j] = {} /\ Cardinality(Held(j)) < Requested(j)
    /\ slots' = Freed(j)
    /\ queueLock' = NoOne
    /\ Goto(j, "wait")
    /\ UNCHANGED <<queue, clock, slotFiles, capacity, untried,
                   installed, cancelled, final, live>>

(* The body of run_job is over and its finally clause begins. *)
Conclude(j) ==
    /\ pc[j] = "admitted"
    /\ Goto(j, "releasing")
    /\ UNCHANGED <<queue, clock, queueLock, slots, slotFiles, capacity, untried,
                   installed, cancelled, final, live>>

(* ResourceLease.release, one permit at a time, the last acquired first. *)
Release(j) ==
    /\ pc[j] = "releasing"
    /\ \E s \in Held(j) :
         /\ \A r \in Held(j) : r <= s
         /\ slots' = [slots EXCEPT ![s] = NoOne]
    /\ UNCHANGED <<queue, clock, queueLock, slotFiles, capacity, pc, untried,
                   installed, cancelled, final, live>>

Exit(j) ==
    /\ pc[j] = "releasing" /\ Held(j) = {}
    /\ Goto(j, "exited")
    /\ UNCHANGED <<queue, clock, queueLock, slots, slotFiles, capacity, untried,
                   installed, cancelled, final, live>>

-------------------------------------------------------------------------------
(* Failures, other processes and the rest of the runner *)

(* The worker is killed: the kernel drops its locks, its ticket stays. *)
Crash(j) ==
    /\ pc[j] \notin {"off", "exited"}
    /\ slots' = Freed(j)
    /\ queueLock' = IF queueLock = j THEN NoOne ELSE queueLock
    /\ untried' = [untried EXCEPT ![j] = {}]
    /\ Goto(j, "exited")
    /\ UNCHANGED <<queue, clock, slotFiles, capacity, installed, cancelled, final, live>>

(* systemd collects the unit of a worker that is gone. *)
Reap(j) ==
    /\ pc[j] = "exited" /\ j \in live
    /\ live' = live \ {j}
    /\ UNCHANGED <<poolVars, installed, cancelled, final>>

(* systemd-run starts the unit; Restartable jobs are started more than once. *)
Launch(j) ==
    /\ j \notin live
    /\ pc[j] = "off" \/ (pc[j] = "exited" /\ j \in Restartable /\ clock < MaxStamp)
    /\ live' = live \cup {j}
    /\ Goto(j, "boot")
    /\ UNCHANGED <<queue, clock, queueLock, slots, slotFiles, capacity, untried,
                   installed, cancelled, final>>

(* snapshot(), for status and doctor: a new pool object, and a prune. *)
Snapshot(dead) ==
    /\ queueLock = NoOne
    /\ TouchSlots
    /\ queue' = Fresh(dead)
    /\ UNCHANGED <<clock, queueLock, slots, capacity, pc, untried,
                   installed, cancelled, final, live>>

RequestCancel(j) ==
    /\ cancelled' = cancelled \cup {j}
    /\ UNCHANGED <<poolVars, installed, final, live>>

RecordFinal(j) ==
    /\ final' = final \cup {j}
    /\ UNCHANGED <<poolVars, installed, cancelled, live>>

(* The installer writes another capacity; running workers keep theirs. *)
Reinstall ==
    /\ installed' \in Capacities \ {installed}
    /\ UNCHANGED <<poolVars, cancelled, final, live>>

-------------------------------------------------------------------------------
Waiting(j) ==
    \/ \E dead \in Probes : Enter(j, dead) \/ Poll(j, dead)
    \/ CheckCancel(j) \/ Withdraw(j)
    \/ TrySlot(j) \/ Admit(j) \/ GiveUp(j)

Worker(j) == OpenPool(j) \/ Waiting(j) \/ Conclude(j) \/ Release(j) \/ Exit(j)

Environment(j) == Crash(j) \/ Reap(j) \/ Launch(j) \/ RequestCancel(j) \/ RecordFinal(j)

Next ==
    \/ \E j \in Job : Worker(j) \/ Environment(j)
    \/ \E dead \in Probes : Snapshot(dead)
    \/ Reinstall

Spec == Init /\ [][Next]_vars

(* A worker keeps running and its command ends (weak fairness); a worker that  *)
(* keeps asking for queue.lock gets it, and systemctl now and then confirms    *)
(* all it could (strong fairness).                                             *)
Inactive == JobsOf(queue) \ live

Fairness ==
    \A j \in Job :
        /\ WF_vars(OpenPool(j) \/ CheckCancel(j) \/ TrySlot(j) \/ Admit(j) \/ GiveUp(j)
                   \/ Conclude(j) \/ Release(j) \/ Exit(j))
        /\ WF_vars(Reap(j))
        /\ SF_vars(Enter(j, Inactive))
        /\ SF_vars(Withdraw(j))
        /\ SF_vars(Poll(j, Inactive))

FairSpec == Spec /\ Fairness

-------------------------------------------------------------------------------
(* Properties *)

Pooled == {j \in Job : Weight[j] # "light"}
Active == {j \in Pooled : pc[j] = "admitted"}

(* An exclusive job runs alone: while its lease stands no other heavy or       *)
(* exclusive job is admitted (_try_slots with requested = capacity).           *)
ExclusiveAlone ==
    \A j, k \in Active : Weight[j] = "exclusive" => k = j

(* "Running jobs are never superseded": the job that enters asks no admitted   *)
(* or releasing worker of its session to stop.                                 *)
SupersedesOnlyQueued ==
    [][\A j \in Job : pc[j] = "enter" /\ pc'[j] = "wait"
          => \A k \in cancelled' \ cancelled : pc[k] \notin Holding]_vars

(* The pool implements the line it promises: FIFO order kept by every step,    *)
(* admission from the front only and only where it fits, and nobody taken out  *)
(* of the line without a reason.                                               *)
Older(j) == {t.job : t \in {u \in queue : \E v \in queue : v.job = j /\ u.stamp < v.stamp}}

Fifo == INSTANCE FifoPool WITH
    Job <- Pooled,
    Exclusive <- {j \in Job : Weight[j] = "exclusive"},
    Capacity <- MaxCapacity,
    waiting <- JobsOf(queue),
    ahead <- [j \in Pooled |-> Older(j)],
    active <- Active,
    excused <- Pooled \cap (cancelled \cup final \cup (Job \ live))

ImplementsFifo == Fifo!FifoSpec

(* Every worker that enters the pool gets its permits in the end, unless it is *)
(* cancelled, finalised or killed first: no overtaking, no leaked permit, no   *)
(* hold-and-wait and no dead head blocks it for ever.                          *)
EveryWaiterServed ==
    \A j \in Job : pc[j] \in {"enter"} \cup Queueing
                     ~> (pc[j] \in Holding \cup {"exited"} \/ j \in cancelled \cup final)

-------------------------------------------------------------------------------
(* Inductive invariants, behind the theorems of ResourcePool_proofs *)

(* queue.lock is held across steps by the one worker that tries the slots. *)
ScannerHasLock == \A j \in Job : pc[j] = "scan" <=> queueLock = j

(* A taken slot has a file and a worker that scans or has a lease. *)
PermitHasOwner ==
    \A s \in Slot : slots[s] # NoOne
        => s < slotFiles /\ pc[slots[s]] \in Holding \cup {"scan"}

ScanHasFiles == \A j \in Job : \A s \in untried[j] : s < slotFiles

PoolOpened ==
    \A j \in Job : pc[j] \in {"enter", "admitted"} \cup Queueing => capacity[j] \in Capacities

(* An admitted worker holds exactly the permits it asked for. *)
LeaseComplete == \A j \in Active : Cardinality(Held(j)) = Requested(j)

FilesInstalled == slotFiles \in Capacities \cup {0}

(* Who holds what. *)
PermitInv ==
    /\ ScannerHasLock
    /\ PermitHasOwner
    /\ ScanHasFiles
    /\ PoolOpened
    /\ LeaseComplete
    /\ FilesInstalled

(* A worker runs inside its unit. *)
WorkerHasUnit == \A j \in Job : pc[j] \notin {"off", "exited"} => j \in live

(* Light jobs neither queue nor leave a ticket. *)
OnlyPooledQueue ==
    /\ \A j \in Job : pc[j] \in {"enter", "withdraw"} \cup Queueing => j \in Pooled
    /\ JobsOf(queue) \subseteq Pooled

OneTicketEach == \A t, u \in queue : t.job = u.job => t = u

(* Admission takes the ticket away, and so does a withdrawal. *)
HolderHasNoTicket == \A j \in Job : pc[j] \in Holding => j \notin JobsOf(queue)

(* A worker in the loop of wait() that nobody cancelled or finalised still has *)
(* its ticket: no prune, supersession or removal by another job took it.       *)
NoLostTicket ==
    \A j \in Job : pc[j] \in Queueing /\ j \notin cancelled \cup final
                     => j \in JobsOf(queue)

(* Supersession leaves one waiter per session: two tickets of one session are  *)
(* never both wanted (_supersede_queued_session runs before _write_ticket).    *)
OneWaiterPerSession ==
    \A t, u \in queue :
        Session[t.job] = Session[u.job] /\ Session[t.job] # NoSession => t = u

(* Who has a ticket. *)
TicketInv ==
    /\ WorkerHasUnit
    /\ OnlyPooledQueue
    /\ OneTicketEach
    /\ HolderHasNoTicket
    /\ NoLostTicket
    /\ OneWaiterPerSession
===============================================================================
