------------------------- MODULE ResourcePool_proofs --------------------------
(* Theorems about ResourcePool, for every set of jobs, every weight, session   *)
(* and capacity, with crashes, restarts and inconclusive probes at any step.   *)
EXTENDS ResourcePool, FiniteSetTheorems, TLAPS

-------------------------------------------------------------------------------
(* Permits *)

(* Freeing the permits of one worker changes those of no other. *)
LEMMA FreedKeepsOthers ==
    ASSUME NEW j \in Job, NEW k \in Job, k # j,
           slots \in [Slot -> Job \cup {NoOne}], slots' = Freed(j)
    PROVE  /\ slots' \in [Slot -> Job \cup {NoOne}]
           /\ Held(k)' = Held(k)
           /\ \A s \in Slot : slots'[s] # NoOne => slots'[s] = slots[s] /\ slots[s] # j
BY NoOneAssumption DEF Freed, Held

LEMMA TypeBegins == Init => TypeOK
BY CapacityAssumption DEF Init, TypeOK, Place

LEMMA TypeStep ==
    ASSUME TypeOK, [Next]_vars
    PROVE  TypeOK'
<1> USE DEF TypeOK, Goto
<1>1. ASSUME NEW j \in Job, OpenPool(j) PROVE TypeOK'
  BY <1>1, CapacityAssumption DEF OpenPool, TouchSlots, Place, Holding
<1>2. ASSUME NEW j \in Job, NEW dead \in Probes, Enter(j, dead) PROVE TypeOK'
  <2>1. queue' \subseteq Ticket /\ clock' \in Nat
    BY <1>2 DEF Enter, WriteTicket, Fresh, Superseded, Ticket
  <2>2. cancelled' \subseteq Job
    BY <1>2 DEF Enter, JobsOf, Superseded, Fresh, Ticket
  <2>3. pc' \in [Job -> Place]
    BY <1>2 DEF Enter, Place, Queueing
  <2> QED
    BY <1>2, <2>1, <2>2, <2>3 DEF Enter
<1>3. ASSUME NEW j \in Job, CheckCancel(j) PROVE TypeOK'
  BY <1>3 DEF CheckCancel, Place, Queueing
<1>4. ASSUME NEW j \in Job, Withdraw(j) PROVE TypeOK'
  BY <1>4 DEF Withdraw, RemoveTicket, Place, Holding
<1>5. ASSUME NEW j \in Job, NEW dead \in Probes, Poll(j, dead) PROVE TypeOK'
  BY <1>5 DEF Poll, Fresh, Place, Queueing
<1>6. ASSUME NEW j \in Job, TrySlot(j) PROVE TypeOK'
  BY <1>6 DEF TrySlot
<1>7. ASSUME NEW j \in Job, Admit(j) PROVE TypeOK'
  BY <1>7 DEF Admit, RemoveTicket, Place, Holding
<1>8. ASSUME NEW j \in Job, GiveUp(j) PROVE TypeOK'
  BY <1>8 DEF GiveUp, Freed, Place, Queueing
<1>9. ASSUME NEW j \in Job, Conclude(j) PROVE TypeOK'
  BY <1>9 DEF Conclude, Place, Holding
<1>10. ASSUME NEW j \in Job, Release(j) PROVE TypeOK'
  BY <1>10 DEF Release, Held
<1>11. ASSUME NEW j \in Job, Exit(j) PROVE TypeOK'
  BY <1>11 DEF Exit, Place
<1>12. ASSUME NEW j \in Job, Crash(j) PROVE TypeOK'
  BY <1>12 DEF Crash, Freed, Place
<1>13. ASSUME NEW j \in Job, Reap(j) \/ RequestCancel(j) \/ RecordFinal(j) PROVE TypeOK'
  BY <1>13 DEF Reap, RequestCancel, RecordFinal, poolVars
<1>14. ASSUME NEW j \in Job, Launch(j) PROVE TypeOK'
  BY <1>14 DEF Launch, Place
<1>15. ASSUME NEW dead \in Probes, Snapshot(dead) PROVE TypeOK'
  BY <1>15, CapacityAssumption DEF Snapshot, TouchSlots, Fresh
<1>16. CASE Reinstall
  BY <1>16 DEF Reinstall, poolVars
<1>17. CASE UNCHANGED vars
  BY <1>17 DEF vars, poolVars
<1> QED
  BY <1>1, <1>2, <1>3, <1>4, <1>5, <1>6, <1>7, <1>8, <1>9, <1>10, <1>11, <1>12,
     <1>13, <1>14, <1>15, <1>16, <1>17
     DEF Next, Worker, Waiting, Environment

(* The slots are a fixed-length array of owners, the lock and the queue are    *)
(* what the files hold, and every worker is at a place of run_job or wait().   *)
THEOREM Typed == Spec => []TypeOK
BY TypeBegins, TypeStep, PTL DEF Spec

(* A worker that moves on without touching a permit disturbs nobody's.         *)
LEMMA MoveKeepsPermits ==
    ASSUME TypeOK, PermitInv, NEW j \in Job, NEW p \in Place, Goto(j, p),
           UNCHANGED <<queueLock, slots, slotFiles, capacity, untried>>,
           pc[j] # "scan", p \notin {"scan", "enter", "admitted"},
           p \in Queueing => pc[j] \in {"enter"} \cup Queueing,
           p \in Holding \/ Held(j) = {}
    PROVE  PermitInv'
<1> USE DEF TypeOK, PermitInv, Goto
<1>1. ScannerHasLock' /\ ScanHasFiles' /\ FilesInstalled'
  BY DEF ScannerHasLock, ScanHasFiles, FilesInstalled
<1>2. PermitHasOwner'
  BY NoOneAssumption DEF PermitHasOwner, Held
<1>3. PoolOpened'
  BY DEF PoolOpened
<1>4. LeaseComplete'
  BY DEF LeaseComplete, Active, Held, Requested
<1> QED
  BY <1>1, <1>2, <1>3, <1>4

(* A worker that neither scans nor has a lease holds no permit. *)
LEMMA NoStrayPermit ==
    ASSUME TypeOK, PermitHasOwner, NEW j \in Job, pc[j] \notin Holding \cup {"scan"}
    PROVE  Held(j) = {}
BY NoOneAssumption DEF PermitHasOwner, TypeOK, Held

LEMMA ScanStepKeepsPermits ==
    ASSUME TypeOK, PermitInv, NEW j \in Job, TrySlot(j) \/ Admit(j) \/ GiveUp(j)
    PROVE  PermitInv'
<1> USE DEF TypeOK, PermitInv, Goto
<1>1. CASE TrySlot(j)
  <2> USE <1>1 DEF TrySlot
  <2>1. PICK s \in untried[j] : slots' = IF slots[s] = NoOne THEN [slots EXCEPT ![s] = j] ELSE slots
    OBVIOUS
  <2>2. ScannerHasLock' /\ ScanHasFiles' /\ FilesInstalled' /\ PoolOpened'
    BY DEF ScannerHasLock, ScanHasFiles, FilesInstalled, PoolOpened
  <2>3. PermitHasOwner'
    BY <2>1, NoOneAssumption DEF PermitHasOwner, ScanHasFiles
  <2>4. ASSUME NEW k \in Job, k # j PROVE Held(k)' = Held(k)
    BY <2>1, <2>4, NoOneAssumption DEF Held
  <2>5. LeaseComplete'
    <3> SUFFICES ASSUME NEW k \in Active' PROVE (Cardinality(Held(k)) = Requested(k))'
      BY DEF LeaseComplete
    <3>1. k \in Active /\ k \in Job /\ k # j
      BY DEF Active, Pooled
    <3>2. Held(k)' = Held(k) /\ Requested(k)' = Requested(k)
      BY <2>4, <3>1 DEF Requested
    <3> QED
      BY <3>1, <3>2 DEF LeaseComplete
  <2> QED
    BY <2>2, <2>3, <2>5
<1>2. CASE Admit(j)
  <2> USE <1>2 DEF Admit
  <2>1. ScannerHasLock'
    BY NoOneAssumption DEF ScannerHasLock
  <2>2. PermitHasOwner'
    BY NoOneAssumption DEF PermitHasOwner, Holding
  <2>3. ScanHasFiles' /\ FilesInstalled' /\ PoolOpened'
    BY DEF ScanHasFiles, FilesInstalled, PoolOpened, Queueing
  <2>4. LeaseComplete'
    <3> SUFFICES ASSUME NEW k \in Active' PROVE (Cardinality(Held(k)) = Requested(k))'
      BY DEF LeaseComplete
    <3>1. k = j \/ k \in Active
      BY DEF Active, Pooled
    <3>2. Held(k)' = Held(k) /\ Requested(k)' = Requested(k)
      BY DEF Held, Requested
    <3> QED
      BY <3>1, <3>2 DEF LeaseComplete
  <2> QED
    BY <2>1, <2>2, <2>3, <2>4
<1>3. CASE GiveUp(j)
  <2> USE <1>3 DEF GiveUp
  <2>1. ScannerHasLock'
    BY NoOneAssumption DEF ScannerHasLock
  <2>2. PermitHasOwner'
    BY NoOneAssumption DEF PermitHasOwner, Freed
  <2>3. ScanHasFiles' /\ FilesInstalled' /\ PoolOpened'
    BY DEF ScanHasFiles, FilesInstalled, PoolOpened, Queueing
  <2>4. LeaseComplete'
    <3> SUFFICES ASSUME NEW k \in Active' PROVE (Cardinality(Held(k)) = Requested(k))'
      BY DEF LeaseComplete
    <3>1. k \in Active /\ k \in Job /\ k # j
      BY DEF Active, Pooled
    <3>2. Held(k)' = Held(k) /\ Requested(k)' = Requested(k)
      BY <3>1, FreedKeepsOthers DEF Requested
    <3> QED
      BY <3>1, <3>2 DEF LeaseComplete
  <2> QED
    BY <2>1, <2>2, <2>3, <2>4
<1> QED
  BY <1>1, <1>2, <1>3

(* Release and Crash give permits of one worker back and admit nobody. *)
LEMMA LossKeepsPermits ==
    ASSUME TypeOK, PermitInv, NEW j \in Job, Release(j) \/ Crash(j)
    PROVE  PermitInv'
<1> USE DEF TypeOK, PermitInv, Goto
<1>1. ScannerHasLock' /\ ScanHasFiles' /\ FilesInstalled' /\ PoolOpened'
  BY NoOneAssumption
     DEF Release, Crash, ScannerHasLock, ScanHasFiles, FilesInstalled, PoolOpened, Queueing
<1>2. PermitHasOwner'
  BY NoOneAssumption DEF Release, Crash, Freed, PermitHasOwner, Held
<1>3. LeaseComplete'
  <2> SUFFICES ASSUME NEW k \in Active' PROVE (Cardinality(Held(k)) = Requested(k))'
    BY DEF LeaseComplete
  <2>1. k \in Active /\ k \in Job /\ k # j
    BY DEF Active, Pooled, Release, Crash
  <2>2. Held(k)' = Held(k)
    BY <2>1, NoOneAssumption DEF Release, Crash, Freed, Held
  <2>3. Requested(k)' = Requested(k)
    BY DEF Requested, Release, Crash
  <2> QED
    BY <2>1, <2>2, <2>3 DEF LeaseComplete
<1> QED
  BY <1>1, <1>2, <1>3

(* Every step keeps the permits in order. *)
LEMMA PermitStep == TypeOK /\ PermitInv /\ [Next]_vars => PermitInv'
<1> SUFFICES ASSUME TypeOK, PermitInv, [Next]_vars PROVE PermitInv'
  OBVIOUS
<1> USE DEF TypeOK, PermitInv, Goto
<1>1. ASSUME NEW j \in Job, OpenPool(j) PROVE PermitInv'
  <2> USE <1>1 DEF OpenPool, TouchSlots
  <2>1. Held(j) = {}
    BY NoStrayPermit DEF Holding
  <2>2. ScannerHasLock' /\ PoolOpened'
    BY DEF ScannerHasLock, PoolOpened, Queueing
  <2>6. ScanHasFiles'
    BY CapacityAssumption DEF ScanHasFiles, Slot
  <2>3. FilesInstalled'
    BY DEF FilesInstalled
  <2>4. PermitHasOwner'
    BY <2>1, NoOneAssumption, CapacityAssumption DEF PermitHasOwner, Held, Slot
  <2>5. LeaseComplete'
    <3> SUFFICES ASSUME NEW k \in Active' PROVE (Cardinality(Held(k)) = Requested(k))'
      BY DEF LeaseComplete
    <3>1. k \in Active /\ k \in Job /\ k # j
      BY WeightAssumption DEF Active, Pooled
    <3>2. Held(k)' = Held(k) /\ Requested(k)' = Requested(k)
      BY <3>1 DEF Held, Requested
    <3> QED
      BY <3>1, <3>2 DEF LeaseComplete
  <2> QED
    BY <2>2, <2>3, <2>4, <2>5, <2>6
<1>2. ASSUME NEW j \in Job, NEW dead \in Probes, Enter(j, dead) PROVE PermitInv'
  BY <1>2, MoveKeepsPermits, NoStrayPermit DEF Enter, Queueing, Holding, Place
<1>3. ASSUME NEW j \in Job, CheckCancel(j) PROVE PermitInv'
  BY <1>3, MoveKeepsPermits, NoStrayPermit DEF CheckCancel, Queueing, Holding, Place
<1>4. ASSUME NEW j \in Job, Withdraw(j) PROVE PermitInv'
  BY <1>4, MoveKeepsPermits DEF Withdraw, Queueing, Holding, Place
<1>5. ASSUME NEW j \in Job, NEW dead \in Probes, Poll(j, dead) PROVE PermitInv'
  <2> USE <1>5 DEF Poll
  <2>1. ScannerHasLock' /\ ScanHasFiles' /\ FilesInstalled' /\ PoolOpened'
    BY NoOneAssumption DEF ScannerHasLock, ScanHasFiles, FilesInstalled, PoolOpened, Queueing
  <2>2. PermitHasOwner'
    BY NoOneAssumption DEF PermitHasOwner, Holding
  <2>3. LeaseComplete'
    <3> SUFFICES ASSUME NEW k \in Active' PROVE (Cardinality(Held(k)) = Requested(k))'
      BY DEF LeaseComplete
    <3>1. k \in Active
      BY DEF Active, Pooled
    <3>2. Held(k)' = Held(k) /\ Requested(k)' = Requested(k)
      BY DEF Held, Requested
    <3> QED
      BY <3>1, <3>2 DEF LeaseComplete
  <2> QED
    BY <2>1, <2>2, <2>3
<1>6. ASSUME NEW j \in Job, TrySlot(j) \/ Admit(j) \/ GiveUp(j) PROVE PermitInv'
  BY <1>6, ScanStepKeepsPermits
<1>7. ASSUME NEW j \in Job, Conclude(j) \/ Exit(j) PROVE PermitInv'
  BY <1>7, MoveKeepsPermits DEF Conclude, Exit, Queueing, Holding, Place
<1>8. ASSUME NEW j \in Job, Release(j) \/ Crash(j) PROVE PermitInv'
  BY <1>8, LossKeepsPermits
<1>9. ASSUME NEW j \in Job, Launch(j) PROVE PermitInv'
  BY <1>9, MoveKeepsPermits, NoStrayPermit DEF Launch, Queueing, Holding, Place
<1>10. ASSUME NEW dead \in Probes, Snapshot(dead) PROVE PermitInv'
  <2> USE <1>10, CapacityAssumption DEF Snapshot, TouchSlots
  <2>1. ScannerHasLock' /\ ScanHasFiles' /\ FilesInstalled' /\ PoolOpened'
    BY DEF ScannerHasLock, ScanHasFiles, FilesInstalled, PoolOpened, Slot
  <2>2. PermitHasOwner'
    BY DEF PermitHasOwner, Slot
  <2>3. LeaseComplete'
    BY DEF LeaseComplete, Active, Held, Requested
  <2> QED
    BY <2>1, <2>2, <2>3
<1>11. CASE UNCHANGED poolVars
  <2> USE <1>11 DEF poolVars
  <2>1. ScannerHasLock' /\ PermitHasOwner' /\ ScanHasFiles' /\ FilesInstalled' /\ PoolOpened'
    BY DEF ScannerHasLock, PermitHasOwner, ScanHasFiles, FilesInstalled, PoolOpened
  <2>2. LeaseComplete'
    BY DEF LeaseComplete, Active, Held, Requested
  <2> QED
    BY <2>1, <2>2
<1>12. ASSUME NEW j \in Job, Reap(j) \/ RequestCancel(j) \/ RecordFinal(j)
       PROVE  UNCHANGED poolVars
  BY <1>12 DEF Reap, RequestCancel, RecordFinal
<1>13. Reinstall \/ UNCHANGED vars => UNCHANGED poolVars
  BY DEF Reinstall, vars
<1> QED
  BY <1>1, <1>2, <1>3, <1>4, <1>5, <1>6, <1>7, <1>8, <1>9, <1>10, <1>11, <1>12, <1>13
     DEF Next, Worker, Waiting, Environment

LEMMA PermitBegins == Init => PermitInv
BY CapacityAssumption, NoOneAssumption
   DEF Init, PermitInv, ScannerHasLock, PermitHasOwner, ScanHasFiles, PoolOpened,
       LeaseComplete, FilesInstalled, Active, Pooled, Queueing

(* Permits are owned: no slot is held by a job that is not scanning, admitted  *)
(* or releasing, and an admitted job holds all it asked for.                   *)
THEOREM PermitsOwned == Spec => []PermitInv
BY PermitBegins, Typed, PermitStep, PTL DEF Spec

(* An exclusive job that is admitted holds every slot file there is, so no     *)
(* other admitted job can hold its permit.                                     *)
LEMMA ExclusiveHoldsAll ==
    ASSUME TypeOK, PermitInv, NEW C \in Nat, Capacities = {C}
    PROVE  ExclusiveAlone
<1> SUFFICES ASSUME NEW j \in Active, NEW k \in Active,
                    Weight[j] = "exclusive", k # j
             PROVE  FALSE
  BY DEF ExclusiveAlone
<1> USE DEF Active, Pooled
<1>1. capacity[j] = C /\ capacity[k] = C /\ C \in Nat \ {0} /\ slotFiles \in {0, C}
  BY CapacityAssumption DEF PermitInv, PoolOpened, FilesInstalled
<1>2. Cardinality(Held(j)) = C /\ Cardinality(Held(k)) \in Nat \ {0}
  BY <1>1 DEF PermitInv, LeaseComplete, Requested
<1>3. Held(j) \subseteq 0..(C - 1) /\ Held(k) \subseteq 0..(C - 1)
  BY <1>1, NoOneAssumption, CapacityAssumption DEF PermitInv, PermitHasOwner, Held, Slot
<1>4. IsFiniteSet(0..(C - 1)) /\ Cardinality(0..(C - 1)) = C
  BY <1>1, FS_Interval
<1>5. Held(j) = 0..(C - 1)
  BY <1>2, <1>3, <1>4, FS_Subset
<1>6. Held(k) # {}
  BY <1>2, FS_EmptySet
<1> QED
  BY <1>3, <1>5, <1>6 DEF Held

(* With one configured capacity, an exclusive job runs alone.                  *)
THEOREM ExclusiveRunsAlone ==
    ASSUME NEW C \in Nat, Capacities = {C}
    PROVE  Spec => []ExclusiveAlone
<1>1. TypeOK /\ PermitInv => ExclusiveAlone
  BY ExclusiveHoldsAll
<1> QED
  BY <1>1, Typed, PermitsOwned, PTL

-------------------------------------------------------------------------------
(* Tickets *)

(* Where no identifier ends with another, _find_ticket finds the job's own.    *)
LEMMA FindTicketExact ==
    ASSUME Collides = {}, NEW q \in SUBSET Ticket, NEW j \in Job,
           \A t, u \in q : t.job = u.job => t = u
    PROVE  FindTicket(q, j) = {t \in q : t.job = j}
BY DEF FindTicket, First, Ticket

(* Taking tickets away breaks no rule on those that stay, so long as nobody    *)
(* who still wants a ticket loses it.                                          *)
LEMMA PruneKeepsTickets ==
    ASSUME TypeOK, TicketInv, NEW q \in SUBSET queue, queue' = q,
           UNCHANGED <<pc, live, cancelled, final>>,
           \A j \in Job : pc[j] \in Queueing /\ j \notin cancelled \cup final
                          /\ j \in JobsOf(queue) => j \in JobsOf(q)
    PROVE  TicketInv'
<1> USE DEF TypeOK, TicketInv
<1>1. WorkerHasUnit' /\ OnlyPooledQueue'
  BY DEF WorkerHasUnit, OnlyPooledQueue, JobsOf, Pooled
<1>2. OneTicketEach' /\ HolderHasNoTicket' /\ OneWaiterPerSession'
  BY DEF OneTicketEach, HolderHasNoTicket, OneWaiterPerSession, JobsOf
<1>3. NoLostTicket'
  BY DEF NoLostTicket
<1> QED
  BY <1>1, <1>2, <1>3

(* A prune takes no ticket from a worker that runs and is not over. *)
LEMMA FreshKeepsWaiters ==
    ASSUME TypeOK, TicketInv, NEW dead \in Probes, NEW j \in Job,
           pc[j] \in Queueing \cup {"enter"}, j \notin final, j \in JobsOf(queue)
    PROVE  j \in JobsOf(Fresh(dead))
BY DEF TypeOK, TicketInv, WorkerHasUnit, Probes, Fresh, JobsOf, Queueing

(* Steps that touch neither the queue nor a worker's place. *)
LEMMA SameTickets ==
    ASSUME TicketInv, UNCHANGED <<queue, pc, live, cancelled, final>>
    PROVE  TicketInv'
<1>1. WorkerHasUnit' /\ OnlyPooledQueue' /\ OneTicketEach'
  BY DEF TicketInv, WorkerHasUnit, OnlyPooledQueue, OneTicketEach, JobsOf, Pooled
<1>2. HolderHasNoTicket' /\ NoLostTicket' /\ OneWaiterPerSession'
  BY DEF TicketInv, HolderHasNoTicket, NoLostTicket, OneWaiterPerSession, JobsOf
<1> QED
  BY <1>1, <1>2 DEF TicketInv

(* A worker that goes from place to place, queue untouched. *)
LEMMA MoveKeepsTickets ==
    ASSUME TypeOK, TicketInv, NEW j \in Job, NEW p \in Place, Goto(j, p),
           UNCHANGED <<queue, live, cancelled, final>>,
           p \in {"enter", "withdraw"} \cup Queueing => j \in Pooled,
           p \notin {"off", "exited"} => j \in live,
           p \in Holding => j \notin JobsOf(queue),
           p \in Queueing => pc[j] \in Queueing
    PROVE  TicketInv'
<1> USE DEF TypeOK, TicketInv, Goto
<1>1. WorkerHasUnit' /\ OnlyPooledQueue' /\ OneTicketEach'
  BY DEF WorkerHasUnit, OnlyPooledQueue, OneTicketEach, JobsOf, Pooled
<1>2. HolderHasNoTicket' /\ OneWaiterPerSession' /\ NoLostTicket'
  BY DEF HolderHasNoTicket, OneWaiterPerSession, NoLostTicket, JobsOf
<1> QED
  BY <1>1, <1>2

(* The ticket of a worker that is admitted or withdraws goes with it. *)
LEMMA LeaveKeepsTickets ==
    ASSUME Collides = {}, TypeOK, TicketInv, NEW j \in Job, NEW p \in Holding,
           pc[j] \in {"withdraw"} \cup Queueing, Goto(j, p),
           queue' = queue \ FindTicket(queue, j),
           UNCHANGED <<live, cancelled, final>>
    PROVE  TicketInv'
<1> USE DEF TypeOK, TicketInv, Goto
<1>1. queue' = {t \in queue : t.job # j}
  BY FindTicketExact DEF OneTicketEach
<1>2. WorkerHasUnit' /\ OnlyPooledQueue'
  BY <1>1 DEF WorkerHasUnit, OnlyPooledQueue, JobsOf, Queueing, Holding, Pooled
<1>3. OneTicketEach' /\ OneWaiterPerSession'
  BY <1>1 DEF OneTicketEach, OneWaiterPerSession
<1>4. HolderHasNoTicket'
  BY <1>1 DEF HolderHasNoTicket, JobsOf
<1>5. NoLostTicket'
  BY <1>1 DEF NoLostTicket, JobsOf, Queueing, Holding
<1> QED
  BY <1>2, <1>3, <1>4, <1>5

(* The first locked section of wait(): the new job gets its place, those it    *)
(* supersedes lose theirs together with the wish to have one.                  *)
LEMMA EnterKeepsTickets ==
    ASSUME Collides = {}, TypeOK, TicketInv, NEW j \in Job, NEW dead \in Probes, Enter(j, dead)
    PROVE  TicketInv'
<1> USE DEF TypeOK, TicketInv, Goto
<1> DEFINE fresh == Fresh(dead)
           rest == fresh \ Superseded(fresh, j)
           own == [job |-> j, stamp |-> clock]
<1>1. /\ pc[j] = "enter" /\ pc' = [pc EXCEPT ![j] = "wait"]
      /\ cancelled' = cancelled \cup JobsOf(Superseded(fresh, j))
      /\ UNCHANGED <<live, final>>
  BY DEF Enter
<1>2. rest \in SUBSET queue /\ rest \in SUBSET Ticket
  BY DEF Fresh
<1>3. \/ (\A t \in rest : t.job # j) /\ queue' = rest \cup {own}
      \/ (\E t \in rest : t.job = j) /\ queue' = rest
  <2>1. FindTicket(rest, j) = {t \in rest : t.job = j}
    BY <1>2, FindTicketExact DEF OneTicketEach
  <2> QED
    BY <2>1 DEF Enter, WriteTicket
<1>4. own \in Ticket /\ own.job = j
  BY DEF Ticket
<1>5. OneTicketEach'
  BY <1>2, <1>3, <1>4 DEF OneTicketEach
<1>6. WorkerHasUnit' /\ OnlyPooledQueue'
  BY <1>1, <1>2, <1>3, <1>4 DEF WorkerHasUnit, OnlyPooledQueue, JobsOf, Queueing, Pooled
<1>7. HolderHasNoTicket'
  BY <1>1, <1>2, <1>3, <1>4 DEF HolderHasNoTicket, JobsOf, Holding
<1>8. OneWaiterPerSession'
  <2>1. \A t \in rest : Session[t.job] = Session[j] /\ Session[j] # NoSession => t.job = j
    BY DEF Superseded
  <2> QED
    BY <2>1, <1>2, <1>3, <1>4 DEF OneWaiterPerSession
<1>9. NoLostTicket'
  <2> SUFFICES ASSUME NEW k \in Job, pc'[k] \in Queueing, k \notin cancelled' \cup final'
               PROVE  \E t \in queue' : t.job = k
    BY DEF NoLostTicket, JobsOf
  <2>1. CASE k = j
    BY <2>1, <1>3, <1>4
  <2>2. CASE k # j
    <3>1. k \in JobsOf(fresh)
      BY <2>2, <1>1, FreshKeepsWaiters DEF NoLostTicket
    <3>2. \E t \in rest : t.job = k
      BY <3>1, <1>1 DEF JobsOf
    <3> QED
      BY <3>2, <1>3
  <2> QED
    BY <2>1, <2>2
<1> QED
  BY <1>5, <1>6, <1>7, <1>8, <1>9

LEMMA TicketStep == Collides = {} /\ TypeOK /\ TicketInv /\ [Next]_vars => TicketInv'
<1> SUFFICES ASSUME Collides = {}, TypeOK, TicketInv, [Next]_vars PROVE TicketInv'
  OBVIOUS
<1>1. ASSUME NEW j \in Job, OpenPool(j) PROVE TicketInv'
  <2>1. pc[j] = "boot" /\ j \in live
    BY <1>1 DEF OpenPool, TicketInv, WorkerHasUnit
  <2>2. Weight[j] = "light" => j \notin JobsOf(queue)
    BY DEF TicketInv, OnlyPooledQueue, Pooled
  <2> QED
    BY <1>1, <2>1, <2>2, MoveKeepsTickets DEF OpenPool, Place, Queueing, Holding, Pooled
<1>2. ASSUME NEW j \in Job, NEW dead \in Probes, Enter(j, dead) PROVE TicketInv'
  BY <1>2, EnterKeepsTickets
<1>3. ASSUME NEW j \in Job, CheckCancel(j) PROVE TicketInv'
  BY <1>3, MoveKeepsTickets
     DEF CheckCancel, Place, Queueing, Holding, TicketInv, WorkerHasUnit, OnlyPooledQueue
<1>4. ASSUME NEW j \in Job, Withdraw(j) \/ Admit(j) PROVE TicketInv'
  BY <1>4, LeaveKeepsTickets DEF Withdraw, Admit, RemoveTicket, Holding, Queueing
<1>5. ASSUME NEW j \in Job, NEW dead \in Probes, Poll(j, dead) PROVE TicketInv'
  <2> USE <1>5 DEF Poll, Goto, TypeOK
  <2>1. /\ queue' \subseteq queue /\ UNCHANGED <<live, cancelled, final>>
        /\ \A k \in Job : pc'[k] \in Queueing <=> pc[k] \in Queueing
        /\ \A k \in Job : pc[k] \notin Queueing => pc'[k] = pc[k]
    BY DEF Fresh, Queueing
  <2>2. NoLostTicket'
    BY <2>1, FreshKeepsWaiters DEF TicketInv, NoLostTicket
  <2>3. WorkerHasUnit' /\ OnlyPooledQueue'
    BY <2>1 DEF TicketInv, WorkerHasUnit, OnlyPooledQueue, Queueing, JobsOf
  <2>4. HolderHasNoTicket'
    BY <2>1 DEF TicketInv, HolderHasNoTicket, Queueing, Holding, JobsOf
  <2>5. OneTicketEach' /\ OneWaiterPerSession'
    BY <2>1 DEF TicketInv, OneTicketEach, OneWaiterPerSession
  <2> QED
    BY <2>2, <2>3, <2>4, <2>5 DEF TicketInv
<1>6. ASSUME NEW j \in Job, TrySlot(j) PROVE TicketInv'
  BY <1>6, SameTickets DEF TrySlot
<1>7. ASSUME NEW j \in Job, GiveUp(j) PROVE TicketInv'
  BY <1>7, MoveKeepsTickets
     DEF GiveUp, Place, Queueing, Holding, TicketInv, WorkerHasUnit, OnlyPooledQueue
<1>8. ASSUME NEW j \in Job, Conclude(j) PROVE TicketInv'
  BY <1>8, MoveKeepsTickets
     DEF Conclude, Place, Queueing, Holding, TicketInv, WorkerHasUnit, HolderHasNoTicket
<1>9. ASSUME NEW j \in Job, Release(j) PROVE TicketInv'
  BY <1>9, SameTickets DEF Release
<1>10. ASSUME NEW j \in Job, Exit(j) \/ Crash(j) PROVE TicketInv'
  BY <1>10, MoveKeepsTickets DEF Exit, Crash, Place, Queueing, Holding
<1>11. ASSUME NEW j \in Job, Reap(j) \/ RequestCancel(j) \/ RecordFinal(j) \/ Launch(j)
       PROVE  TicketInv'
  <2> USE <1>11 DEF Reap, RequestCancel, RecordFinal, Launch, poolVars, Goto, TypeOK, TicketInv
  <2>1. WorkerHasUnit' /\ OnlyPooledQueue'
    BY DEF WorkerHasUnit, OnlyPooledQueue, Queueing, JobsOf, Pooled
  <2>2. OneTicketEach' /\ OneWaiterPerSession'
    BY DEF OneTicketEach, OneWaiterPerSession
  <2>3. HolderHasNoTicket' /\ NoLostTicket'
    BY DEF HolderHasNoTicket, NoLostTicket, Queueing, Holding, JobsOf
  <2> QED
    BY <2>1, <2>2, <2>3
<1>12. ASSUME NEW dead \in Probes, Snapshot(dead) PROVE TicketInv'
  <2>1. Fresh(dead) \in SUBSET queue
    BY DEF Fresh
  <2> QED
    BY <1>12, <2>1, PruneKeepsTickets, FreshKeepsWaiters DEF Snapshot
<1>13. CASE Reinstall
  BY <1>13, SameTickets DEF Reinstall, poolVars
<1>14. CASE UNCHANGED vars
  BY <1>14, SameTickets DEF vars, poolVars
<1> QED
  BY <1>1, <1>2, <1>3, <1>4, <1>5, <1>6, <1>7, <1>8, <1>9, <1>10, <1>11, <1>12, <1>13, <1>14
     DEF Next, Worker, Waiting, Environment

(* Where no identifier ends with another, every ticket has its rightful owner: *)
(* no prune, supersession or removal by another job takes a waiter's place in  *)
(* the line, and a session waits once.                                         *)
THEOREM TicketsOwned == Collides = {} => (Spec => []TicketInv)
<1> SUFFICES ASSUME Collides = {} PROVE Spec => []TicketInv
  OBVIOUS
<1>1. Init => TicketInv
  BY DEF Init, TicketInv, WorkerHasUnit, OnlyPooledQueue, OneTicketEach, HolderHasNoTicket,
         NoLostTicket, OneWaiterPerSession, Queueing, Holding, JobsOf
<1> QED
  BY <1>1, Typed, TicketStep, PTL DEF Spec

(* A worker that enters supersedes waiting jobs only, never one with a lease. *)
THEOREM RunningIsNotSuperseded == Collides = {} => (Spec => SupersedesOnlyQueued)
<1> SUFFICES ASSUME Collides = {} PROVE Spec => SupersedesOnlyQueued
  OBVIOUS
<1> DEFINE Spared == \A j \in Job : pc[j] = "enter" /\ pc'[j] = "wait"
                       => \A k \in cancelled' \ cancelled : pc[k] \notin Holding
<1>1. TypeOK /\ TicketInv /\ [Next]_vars => [Spared]_vars
  <2> SUFFICES ASSUME TypeOK, TicketInv, Next,
                      NEW j \in Job, pc[j] = "enter", pc'[j] = "wait",
                      NEW k \in cancelled' \ cancelled
               PROVE  pc[k] \notin Holding
    OBVIOUS
  <2>1. PICK dead \in Probes : Enter(j, dead)
    BY DEF Next, Worker, Waiting, Environment, OpenPool, Enter, CheckCancel, Withdraw, Poll,
           TrySlot, Admit, GiveUp, Conclude, Release, Exit, Crash, Reap, Launch,
           RequestCancel, RecordFinal, Snapshot, Reinstall, Goto, poolVars, TypeOK
  <2>2. k \in JobsOf(queue)
    BY <2>1 DEF Enter, Superseded, Fresh, JobsOf
  <2>3. k \in Job
    BY <2>2 DEF TypeOK, JobsOf, Ticket
  <2> QED
    BY <2>2, <2>3 DEF TicketInv, HolderHasNoTicket
<1> QED
  BY <1>1, Typed, TicketsOwned, PTL DEF Spec, SupersedesOnlyQueued

-------------------------------------------------------------------------------
(* The line *)

(* Tickets are ordered by their stamps. *)
StampsDiffer ==
    /\ \A t \in queue : t.stamp < clock
    /\ \A t, u \in queue : t.stamp = u.stamp => t = u

(* Who tries the slots is at the head of the line. *)
ScannerIsHead == \A j \in Job : pc[j] = "scan" => IsHead(queue, j)

WithdrawnIsCancelled == \A j \in Job : pc[j] = "withdraw" => j \in cancelled

LineInv == StampsDiffer /\ ScannerIsHead /\ WithdrawnIsCancelled

(* Tickets that go leave the others in their order. *)
LEMMA FewerTickets ==
    ASSUME StampsDiffer, queue' \subseteq queue, UNCHANGED clock
    PROVE  StampsDiffer'
BY DEF StampsDiffer

(* While a worker has the lock nobody else changes the queue. *)
LEMMA NobodyScans ==
    ASSUME PermitInv, queueLock = NoOne
    PROVE  \A j \in Job : pc[j] # "scan"
BY NoOneAssumption DEF PermitInv, ScannerHasLock

LEMMA LineStep ==
    ASSUME TypeOK, PermitInv, LineInv, [Next]_vars
    PROVE  LineInv'
<1> USE DEF TypeOK, LineInv, Goto
<1>1. ASSUME NEW j \in Job, NEW dead \in Probes, Enter(j, dead) PROVE LineInv'
  <2> DEFINE rest == Fresh(dead) \ Superseded(Fresh(dead), j)
             own == [job |-> j, stamp |-> clock]
  <2>1. \/ queue' = rest /\ UNCHANGED clock
        \/ queue' = rest \cup {own} /\ clock' = clock + 1
    BY <1>1 DEF Enter, WriteTicket
  <2>2. rest \subseteq queue
    BY DEF Fresh
  <2>3. StampsDiffer'
    <3>1. \A t \in queue : t.stamp \in Nat
      BY DEF Ticket
    <3> QED
      BY <2>1, <2>2, <3>1 DEF StampsDiffer
  <2>4. ScannerIsHead' /\ WithdrawnIsCancelled'
    <3>1. \A k \in Job : pc'[k] # "scan"
      BY <1>1, NobodyScans DEF Enter
    <3> QED
      BY <1>1, <3>1 DEF Enter, ScannerIsHead, WithdrawnIsCancelled
  <2> QED
    BY <2>3, <2>4
<1>2. ASSUME NEW j \in Job, NEW dead \in Probes, Poll(j, dead) PROVE LineInv'
  <2>1. StampsDiffer'
    BY <1>2, FewerTickets DEF Poll, Fresh
  <2>2. ScannerIsHead'
    BY <1>2, NobodyScans DEF Poll, ScannerIsHead
  <2>3. WithdrawnIsCancelled'
    BY <1>2 DEF Poll, WithdrawnIsCancelled
  <2> QED
    BY <2>1, <2>2, <2>3
<1>3. ASSUME NEW dead \in Probes, Snapshot(dead) PROVE LineInv'
  <2>1. StampsDiffer'
    BY <1>3, FewerTickets DEF Snapshot, Fresh
  <2>2. ScannerIsHead' /\ WithdrawnIsCancelled'
    BY <1>3, NobodyScans DEF Snapshot, ScannerIsHead, WithdrawnIsCancelled
  <2> QED
    BY <2>1, <2>2
<1>4. ASSUME NEW j \in Job, Withdraw(j) PROVE LineInv'
  <2>1. StampsDiffer'
    BY <1>4, FewerTickets DEF Withdraw, RemoveTicket
  <2>2. ScannerIsHead' /\ WithdrawnIsCancelled'
    BY <1>4, NobodyScans DEF Withdraw, ScannerIsHead, WithdrawnIsCancelled
  <2> QED
    BY <2>1, <2>2
<1>5. ASSUME NEW j \in Job, Admit(j) PROVE LineInv'
  <2>1. StampsDiffer'
    BY <1>5, FewerTickets DEF Admit, RemoveTicket
  <2>2. \A k \in Job : pc'[k] # "scan"
    BY <1>5, NoOneAssumption DEF Admit, PermitInv, ScannerHasLock
  <2> QED
    BY <1>5, <2>1, <2>2 DEF Admit, ScannerIsHead, WithdrawnIsCancelled
<1>6. ASSUME UNCHANGED <<queue, clock>>, cancelled \subseteq cancelled',
             \A j \in Job : /\ pc'[j] = "scan" => pc[j] = "scan"
                            /\ pc'[j] = "withdraw" => pc[j] = "withdraw" \/ j \in cancelled
      PROVE  LineInv'
  BY <1>6 DEF StampsDiffer, ScannerIsHead, WithdrawnIsCancelled
<1>7. ASSUME NEW j \in Job, OpenPool(j) \/ CheckCancel(j) \/ TrySlot(j) \/ GiveUp(j)
                              \/ Conclude(j) \/ Release(j) \/ Exit(j)
      PROVE  LineInv'
  BY <1>6, <1>7 DEF OpenPool, CheckCancel, TrySlot, GiveUp, Conclude, Release, Exit
<1>8. ASSUME NEW j \in Job, Environment(j) PROVE LineInv'
  BY <1>6, <1>8 DEF Environment, Crash, Reap, Launch, RequestCancel, RecordFinal, poolVars
<1>9. CASE Reinstall \/ UNCHANGED vars
  BY <1>6, <1>9 DEF Reinstall, vars, poolVars
<1> QED
  BY <1>1, <1>2, <1>3, <1>4, <1>5, <1>7, <1>8, <1>9 DEF Next, Worker, Waiting

(* The admitted jobs hold different slots, and there are MaxCapacity of them.  *)
ActiveFits == IsFiniteSet(Active) /\ Cardinality(Active) <= MaxCapacity

LEMMA ActiveFit ==
    ASSUME TypeOK, PermitInv
    PROVE  ActiveFits
<1> DEFINE permit == [j \in Active |-> CHOOSE s \in Slot : slots[s] = j]
<1>1. ASSUME NEW j \in Active PROVE permit[j] \in Slot /\ slots[permit[j]] = j
  <2>1. j \in Job /\ Weight[j] \in {"heavy", "exclusive"}
    BY WeightAssumption DEF Active, Pooled
  <2>2. Requested(j) # 0
    <3>1. capacity[j] \in Capacities
      BY <2>1 DEF Active, PermitInv, PoolOpened
    <3> QED
      BY <3>1, CapacityAssumption DEF Requested
  <2>3. Held(j) # {}
    BY <2>2, FS_EmptySet DEF PermitInv, LeaseComplete
  <2> QED
    BY <2>3 DEF Held
<1>2. permit \in Injection(Active, Slot)
  BY <1>1 DEF Injection, IsInjective
<1>3. IsFiniteSet(Slot) /\ Cardinality(Slot) = MaxCapacity
  <2>1. MaxCapacity - 1 \in Int /\ 0 \in Int
    BY CapacityAssumption
  <2> QED
    BY <2>1, CapacityAssumption, FS_Interval DEF Slot
<1> QED
  BY <1>2, <1>3, FS_Injection DEF ActiveFits

(* The pool as the line sees it. *)
LEMMA LineUnchanged ==
    ASSUME UNCHANGED queue, Active' = Active
    PROVE  Fifo!FifoNext
<1>1. Fifo!Excuse
  BY DEF Fifo!Excuse, JobsOf, Older
<1> QED
  BY <1>1 DEF Fifo!FifoNext

(* Who stands before k in the queue q. *)
OlderIn(q, k) == {t.job : t \in {u \in q : \E v \in q : v.job = k /\ u.stamp < v.stamp}}

LEMMA OlderMember ==
    ASSUME NEW q, NEW k, NEW i
    PROVE  i \in OlderIn(q, k) <=> \E u, v \in q : u.job = i /\ v.job = k /\ u.stamp < v.stamp
BY DEF OlderIn

(* Those that leave are before nobody and behind nobody. *)
LEMMA OlderShrinks ==
    ASSUME NEW q, NEW S, NEW k
    PROVE  OlderIn({t \in q : t.job \notin S}, k) = IF k \in S THEN {} ELSE OlderIn(q, k) \ S
<1> DEFINE left == {t \in q : t.job \notin S}
<1>1. CASE k \in S
  BY <1>1, OlderMember
<1>2. CASE k \notin S
  <2>1. \A i : i \in OlderIn(left, k) <=> i \in OlderIn(q, k) /\ i \notin S
    BY <1>2, OlderMember
  <2> QED
    BY <1>2, <2>1
<1> QED
  BY <1>1, <1>2

(* A ticket with the largest stamp has all others before it, and is before none. *)
LEMMA OlderGrows ==
    ASSUME NEW q \in SUBSET Ticket, NEW own \in Ticket, own.job \notin JobsOf(q),
           \A t \in q : t.stamp < own.stamp
    PROVE  /\ OlderIn(q \cup {own}, own.job) = JobsOf(q)
           /\ \A k : k # own.job => OlderIn(q \cup {own}, k) = OlderIn(q, k)
<1>1. \A t \in q : t.job # own.job /\ ~(own.stamp < t.stamp)
  BY DEF JobsOf, Ticket
<1>2. ~(own.stamp < own.stamp)
  BY DEF Ticket
<1>3. \A i : i \in OlderIn(q \cup {own}, own.job) <=> i \in JobsOf(q)
  BY <1>1, <1>2, OlderMember DEF JobsOf
<1>4. ASSUME NEW k, k # own.job PROVE OlderIn(q \cup {own}, k) = OlderIn(q, k)
  <2>1. \A i : i \in OlderIn(q \cup {own}, k) <=> i \in OlderIn(q, k)
    BY <1>1, <1>4, OlderMember
  <2>2. /\ \A i \in OlderIn(q \cup {own}, k) : i \in OlderIn(q, k)
        /\ \A i \in OlderIn(q, k) : i \in OlderIn(q \cup {own}, k)
    BY <2>1
  <2> QED
    BY <2>2, Zenon
<1>5. OlderIn(q \cup {own}, own.job) = JobsOf(q)
  BY <1>3
<1> QED
  BY <1>4, <1>5

(* The tickets of the jobs in S are taken away, all others stay. *)
LEMMA LineShrinks ==
    ASSUME TypeOK, TicketInv, Active' = Active, NEW S \in SUBSET JobsOf(queue),
           queue' = {t \in queue : t.job \notin S},
           S \subseteq cancelled' \cup final' \cup (Job \ live')
    PROVE  Fifo!FifoNext
<1>1. CASE S = {}
  BY <1>1, LineUnchanged
<1>2. CASE S # {}
  <2>1. S \subseteq Pooled
    BY DEF TicketInv, OnlyPooledQueue
  <2>2. JobsOf(queue)' = JobsOf(queue) \ S
    BY DEF JobsOf
  <2>3. ASSUME NEW k \in Pooled PROVE Older(k)' = IF k \in S THEN {} ELSE Older(k) \ S
    <3>1. Older(k) = OlderIn(queue, k) /\ Older(k)' = OlderIn(queue', k)
      BY DEF Older, OlderIn
    <3>2. OlderIn({t \in queue : t.job \notin S}, k) = IF k \in S THEN {} ELSE OlderIn(queue, k) \ S
      BY OlderShrinks
    <3> QED
      BY <3>1, <3>2
  <2>4. Fifo!Leave(S)
    BY <1>2, <2>1, <2>2, <2>3 DEF Fifo!Leave, Fifo!StepOut
  <2> QED
    BY <2>4 DEF Fifo!FifoNext
<1> QED
  BY <1>1, <1>2

LEMMA PruneShrinks ==
    ASSUME TypeOK, TicketInv, Active' = Active, NEW dead \in Probes, queue' = Fresh(dead),
           UNCHANGED <<cancelled, final, live>>
    PROVE  Fifo!FifoNext
<1> DEFINE S == JobsOf(queue) \cap (final \cup dead)
<1>1. queue' = {t \in queue : t.job \notin S}
  BY DEF Fresh, JobsOf
<1>2. S \subseteq cancelled' \cup final' \cup (Job \ live')
  BY DEF Probes, JobsOf, TypeOK, Ticket
<1> QED
  BY <1>1, <1>2, LineShrinks

(* The line lets in who enters, and out who was pruned or superseded.          *)
LEMMA EnterJoins ==
    ASSUME Collides = {}, TypeOK, TicketInv, LineInv, NEW j \in Job, NEW dead \in Probes,
           Enter(j, dead)
    PROVE  Fifo!FifoNext
<1> DEFINE fresh == Fresh(dead)
           older == Superseded(fresh, j)
           rest == fresh \ older
           own == [job |-> j, stamp |-> clock]
           S == JobsOf(queue) \ JobsOf(rest)
<1> USE DEF TypeOK, TicketInv
<1>1. /\ pc[j] = "enter" /\ pc' = [pc EXCEPT ![j] = "wait"]
      /\ cancelled' = cancelled \cup JobsOf(older) /\ UNCHANGED <<live, final>>
  BY DEF Enter, Goto
<1>2. Active' = Active
  BY <1>1 DEF Active
<1>3. rest = {t \in queue : t.job \notin S}
  BY DEF OneTicketEach, JobsOf, Fresh
<1>4. S \subseteq cancelled' \cup final' \cup (Job \ live')
  BY <1>1 DEF Probes, Fresh, JobsOf, Ticket
<1>5. FindTicket(rest, j) = {t \in rest : t.job = j}
  <2>1. rest \in SUBSET Ticket /\ \A t, u \in rest : t.job = u.job => t = u
    BY DEF OneTicketEach, Fresh
  <2> QED
    BY <2>1, FindTicketExact
<1>6. CASE FindTicket(rest, j) # {}
  BY <1>2, <1>3, <1>4, <1>6, LineShrinks DEF Enter, WriteTicket
<1>7. CASE FindTicket(rest, j) = {}
  <2>1. queue' = rest \cup {own}
    BY <1>7 DEF Enter, WriteTicket
  <2>2. j \in Pooled /\ j \notin JobsOf(rest) /\ S \subseteq Pooled
    BY <1>1, <1>5, <1>7 DEF OnlyPooledQueue, JobsOf
  <2>3. JobsOf(rest) = JobsOf(queue) \ S
    BY <1>3 DEF JobsOf
  <2>4. own \in Ticket /\ own.job = j /\ own.stamp = clock
    BY DEF Ticket
  <2>5. \A t \in rest : t.stamp < own.stamp
    BY <1>3, <2>4 DEF LineInv, StampsDiffer
  <2>6. JobsOf(queue)' = JobsOf(rest) \cup {j}
    <3> HIDE DEF own, rest
    <3> QED
      BY <2>1, <2>4 DEF JobsOf
  <2>7. /\ Older(j)' = JobsOf(rest)
        /\ \A k : k # j => Older(k)' = IF k \in S THEN {} ELSE Older(k) \ S
    <3>1. rest \in SUBSET Ticket
      BY <1>3
    <3>2. \A k : Older(k)' = OlderIn(queue', k) /\ Older(k) = OlderIn(queue, k)
      BY DEF Older, OlderIn
    <3> HIDE DEF own, rest, S
    <3>3. ASSUME NEW k PROVE OlderIn(rest, k) = IF k \in S THEN {} ELSE OlderIn(queue, k) \ S
      <4>1. OlderIn({t \in queue : t.job \notin S}, k) = IF k \in S THEN {} ELSE OlderIn(queue, k) \ S
        BY OlderShrinks
      <4> QED
        BY <1>3, <4>1
    <3>4. /\ OlderIn(rest \cup {own}, j) = JobsOf(rest)
          /\ \A k : k # j => OlderIn(rest \cup {own}, k) = OlderIn(rest, k)
      BY <2>2, <2>4, <2>5, <3>1, OlderGrows
    <3> QED
      BY <2>1, <3>2, <3>3, <3>4
  <2>8. Fifo!Join(j, S)
    <3>1. j \notin (JobsOf(queue) \ S) \cup Active
      BY <1>1, <2>2, <2>3 DEF Active
    <3>2. [k \in Pooled |-> Older(k)]' =
             [k \in Pooled |-> IF k = j THEN JobsOf(queue) \ S
                               ELSE IF k \in S THEN {}
                               ELSE [i \in Pooled |-> Older(i)][k] \ S]
      BY <2>3, <2>7
    <3> QED
      BY <1>2, <1>4, <2>2, <2>3, <2>6, <3>1, <3>2 DEF Fifo!Join
  <2> QED
    BY <2>2, <2>8 DEF Fifo!FifoNext
<1> QED
  BY <1>6, <1>7

(* The head of the line is admitted, and fits. *)
LEMMA AdmitFits ==
    ASSUME Collides = {}, TypeOK, TicketInv, LineInv, ActiveFits', ExclusiveAlone',
           NEW j \in Job, Admit(j)
    PROVE  Fifo!FifoNext
<1> USE DEF TypeOK, TicketInv
<1>1. pc[j] = "scan" /\ pc' = [pc EXCEPT ![j] = "admitted"] /\ UNCHANGED <<cancelled, final, live>>
  BY DEF Admit, Goto
<1>2. j \in Pooled /\ Active' = Active \cup {j} /\ j \notin Active
  BY <1>1 DEF OnlyPooledQueue, Queueing, Active, Pooled
<1>3. queue' = {t \in queue : t.job # j}
  BY FindTicketExact DEF Admit, RemoveTicket, OneTicketEach
<1>4. PICK head \in queue : head.job = j /\ \A u \in queue : head.stamp <= u.stamp
  BY <1>1 DEF LineInv, ScannerIsHead, IsHead, First, JobsOf
<1>5. Older(j) = {}
  <2>1. \A v \in queue : v.job = j => v = head
    BY <1>4 DEF OneTicketEach
  <2>2. \A u \in queue : ~(u.stamp < head.stamp)
    BY <1>4 DEF Ticket
  <2> QED
    BY <2>1, <2>2 DEF Older
<1>6. JobsOf(queue)' = JobsOf(queue) \ {j} /\ j \in JobsOf(queue)
  BY <1>3, <1>4 DEF JobsOf
<1>7. ASSUME NEW k \in Pooled PROVE Older(k)' = Older(k) \ {j}
  <2>1. CASE k = j
    BY <1>3, <1>5, <2>1 DEF Older
  <2>2. CASE k # j
    BY <1>3, <2>2 DEF Older
  <2> QED
    BY <2>1, <2>2
<1>8. CASE Weight[j] = "exclusive"
  <2>1. Active = {}
    BY <1>2, <1>8 DEF ExclusiveAlone
  <2> QED
    BY <1>1, <1>2, <1>5, <1>6, <1>7, <1>8, <2>1 DEF Fifo!Admit, Fifo!Fits, Fifo!FifoNext
<1>9. CASE Weight[j] # "exclusive"
  <2>1. Active \cap {i \in Job : Weight[i] = "exclusive"} = {}
    BY <1>2 DEF ExclusiveAlone
  <2>2. Cardinality(Active) < MaxCapacity
    <3>1. IsFiniteSet(Active') /\ Cardinality(Active') <= MaxCapacity
      BY DEF ActiveFits
    <3>2. IsFiniteSet(Active)
      BY <1>2, <3>1, FS_Subset
    <3>3. Cardinality(Active') = Cardinality(Active) + 1
      BY <1>2, <3>2, FS_AddElement
    <3> QED
      BY <3>1, <3>2, <3>3, FS_CardinalityType, CapacityAssumption
  <2>3. Fifo!Cardinality(Active) = Cardinality(Active)
    BY DEF Fifo!Cardinality, Cardinality
  <2>4. Fifo!Fits(j)
    BY <1>9, <2>1, <2>2, <2>3 DEF Fifo!Fits
  <2> QED
    BY <1>1, <1>2, <1>5, <1>6, <1>7, <2>4 DEF Fifo!Admit, Fifo!FifoNext
<1> QED
  BY <1>8, <1>9

LEMMA FifoStep ==
    ASSUME Collides = {}, TypeOK, PermitInv, TicketInv, LineInv,
           ActiveFits', ExclusiveAlone', [Next]_vars
    PROVE  [Fifo!FifoNext]_(Fifo!fifoVars)
<1> USE DEF TypeOK, Goto
<1>1. ASSUME NEW j \in Job, OpenPool(j) PROVE Fifo!FifoNext
  BY <1>1, LineUnchanged DEF OpenPool, Active, Pooled
<1>2. ASSUME NEW j \in Job, NEW dead \in Probes, Enter(j, dead) PROVE Fifo!FifoNext
  BY <1>2, EnterJoins
<1>3. ASSUME NEW j \in Job, CheckCancel(j) \/ TrySlot(j) \/ GiveUp(j) \/ Release(j) \/ Exit(j)
      PROVE  Fifo!FifoNext
  <2>1. UNCHANGED queue
    BY <1>3 DEF CheckCancel, TrySlot, GiveUp, Release, Exit
  <2>2. ASSUME NEW k \in Job PROVE pc'[k] = "admitted" <=> pc[k] = "admitted"
    BY <1>3 DEF CheckCancel, TrySlot, GiveUp, Release, Exit
  <2>3. Active' = Active
    BY <2>2 DEF Active, Pooled
  <2> QED
    BY <2>1, <2>3, LineUnchanged
<1>4. ASSUME NEW j \in Job, Withdraw(j) PROVE Fifo!FifoNext
  <2> DEFINE S == JobsOf(queue) \cap {j}
  <2>1. queue' = {t \in queue : t.job # j}
    BY <1>4, FindTicketExact DEF Withdraw, RemoveTicket, TicketInv, OneTicketEach
  <2>2. queue' = {t \in queue : t.job \notin S}
    BY <2>1 DEF JobsOf
  <2>3. j \in cancelled' /\ Active' = Active
    BY <1>4 DEF Withdraw, LineInv, WithdrawnIsCancelled, Active
  <2> QED
    BY <2>2, <2>3, LineShrinks
<1>5. ASSUME NEW j \in Job, NEW dead \in Probes, Poll(j, dead) PROVE Fifo!FifoNext
  <2>1. Active' = Active
    BY <1>5 DEF Poll, Active
  <2> QED
    BY <1>5, <2>1, PruneShrinks DEF Poll
<1>6. ASSUME NEW j \in Job, Admit(j) PROVE Fifo!FifoNext
  BY <1>6, AdmitFits
<1>7. ASSUME NEW j \in Job, Conclude(j) \/ Crash(j) PROVE Fifo!FifoNext
  <2>1. Active' = Active \ {j} /\ UNCHANGED <<queue, cancelled, final, live>>
    <3>1. pc'[j] # "admitted" /\ \A k \in Job : k # j => pc'[k] = pc[k]
      BY <1>7 DEF Conclude, Crash
    <3>2. Active' = Active \ {j}
      BY <3>1 DEF Active, Pooled
    <3> QED
      BY <1>7, <3>2 DEF Conclude, Crash
  <2>2. CASE j \in Active
    <3>1. j \in Pooled
      BY <2>2 DEF Active
    <3> QED
      BY <2>1, <2>2, <3>1 DEF Fifo!Conclude, Fifo!FifoNext, JobsOf, Older
  <2>3. CASE j \notin Active
    BY <2>1, <2>3, LineUnchanged
  <2> QED
    BY <2>2, <2>3
<1>8. ASSUME NEW j \in Job, Reap(j) \/ Launch(j) \/ RequestCancel(j) \/ RecordFinal(j)
      PROVE  Fifo!FifoNext
  <2>1. UNCHANGED queue
    BY <1>8 DEF Reap, Launch, RequestCancel, RecordFinal, poolVars
  <2>2. ASSUME NEW k \in Job PROVE pc'[k] = "admitted" <=> pc[k] = "admitted"
    BY <1>8 DEF Reap, Launch, RequestCancel, RecordFinal, poolVars
  <2>3. Active' = Active
    BY <2>2 DEF Active, Pooled
  <2> QED
    BY <2>1, <2>3, LineUnchanged
<1>9. ASSUME NEW dead \in Probes, Snapshot(dead) PROVE Fifo!FifoNext
  <2>1. Active' = Active
    BY <1>9 DEF Snapshot, Active
  <2> QED
    BY <1>9, <2>1, PruneShrinks DEF Snapshot
<1>10. CASE Reinstall \/ UNCHANGED vars
  BY <1>10, LineUnchanged DEF Reinstall, vars, poolVars, Active
<1> QED
  BY <1>1, <1>2, <1>3, <1>4, <1>5, <1>6, <1>7, <1>8, <1>9, <1>10
     DEF Next, Worker, Waiting, Environment

(* The pool is the line it promises: tickets, locks and slot files implement   *)
(* first in, first out, with one configured capacity and identifiers of which  *)
(* none ends with another.                                                     *)
THEOREM PoolIsFifo ==
    ASSUME NEW C \in Nat, Capacities = {C}, Collides = {}
    PROVE  Spec => ImplementsFifo
<1>1. Init => Fifo!FifoInit /\ LineInv
  <2> SUFFICES ASSUME Init PROVE Fifo!FifoInit /\ LineInv
    OBVIOUS
  <2>1. Fifo!FifoInit
    <3>1. JobsOf(queue) = {} /\ \A k \in Pooled : Older(k) = {}
      BY DEF Init, JobsOf, Older
    <3>2. Active = {}
      BY DEF Init, Active, Pooled
    <3> QED
      BY <3>1, <3>2 DEF Fifo!FifoInit
  <2>2. LineInv
    BY DEF Init, LineInv, StampsDiffer, ScannerIsHead, WithdrawnIsCancelled
  <2> QED
    BY <2>1, <2>2
<1>2. TypeOK /\ PermitInv /\ LineInv /\ [Next]_vars => LineInv'
  BY LineStep
<1>3. /\ TypeOK /\ PermitInv /\ TicketInv /\ LineInv /\ [Next]_vars
      /\ ActiveFits' /\ ExclusiveAlone'
      => [Fifo!FifoNext]_(Fifo!fifoVars)
  BY FifoStep
<1>4. Spec => []TicketInv
  BY TicketsOwned
<1>5. Spec => []ExclusiveAlone
  BY ExclusiveRunsAlone
<1>6. TypeOK /\ PermitInv => ActiveFits
  BY ActiveFit
<1> QED
  BY <1>1, <1>2, <1>3, <1>4, <1>5, <1>6, Typed, PermitsOwned, PTL
     DEF Spec, ImplementsFifo, Fifo!FifoSpec
===============================================================================
