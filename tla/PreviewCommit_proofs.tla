------------------------- MODULE PreviewCommit_proofs --------------------------
(* Theorems of PreviewRegistry about how calls end while containers stay,      *)
(* services speak HTTP and nobody cleans up a job meanwhile; without this they *)
(* do not hold.                                                                *)
EXTENDS PreviewRegistry_proofs

NoCleanup == \A c \in Client : \A r \in Request[c] : r.op # "cleanup"

(* Containers may stop and calls may be killed, but no container is removed.   *)
Steady == "gone" \notin Ends /\ "garbage" \notin Faults /\ NoCleanup

(* Containers stay up and calls are not killed. *)
Calm == Ends = {} /\ "garbage" \notin Faults /\ Mortal = {} /\ NoCleanup

-------------------------------------------------------------------------------
(* The invariants. *)

(* Nobody takes containers down. *)
Downs == \A c \in Client : at[c] # "down"

Present == \A b \in Box : state[b] # "gone"

(* A rollback has restored the route; what a commit detaches is attached.      *)
SettledAt(c) ==
    /\ at[c] \in {"remove", "recover", "undo"} => route[call[c].slot] = old[c]
    /\ at[c] = "detach" => Attached(old[c])

Settled == \A c \in Client : SettledAt(c)

CommitInv == Inv /\ Downs /\ Present /\ Settled

Up == \A b \in Box : state[b] = "up"

(* The candidate is a route to the container to publish, and a commit leaves   *)
(* it in place.                                                                *)
CandidateAt(c) ==
    /\ at[c] \in {"direct", "write", "gateway", "restore"} =>
          new[c] # None /\ new[c].box = call[c].box
    /\ at[c] = "detach" /\ call[c].op = "publish" =>
          route[call[c].slot] # None /\ route[call[c].slot].box = call[c].box

(* A container that was attached before has a route that a rollback keeps.     *)
KeptAt(c) ==
    at[c] \in {"direct", "write", "gateway", "restore"} /\ ~fresh[c] =>
       \/ old[c] # None /\ old[c].box = call[c].box
       \/ \E s \in Slot \ {call[c].slot} : route[s] # None /\ route[s].box = call[c].box

(* The call c still has to route or to detach the container b.                 *)
AttachedBy(c, b) ==
    \/ /\ at[c] = "address" \/ (fresh[c] /\ at[c] \in {"direct", "write", "restore", "recover", "undo"})
       /\ b = call[c].box
    \/ /\ at[c] \in {"gateway", "restore", "await", "detach"}
       /\ old[c] # None /\ b = old[c].box

Accounted == \A b \in Box : alias[b] # None => Routed(b) \/ \E c \in Client : AttachedBy(c, b)

Candidates == \A c \in Client : CandidateAt(c)
Kept == \A c \in Client : KeptAt(c)

CalmInv == Inv /\ Downs /\ Settled /\ Up /\ Candidates /\ Kept /\ Accounted

-------------------------------------------------------------------------------
(* Containers that stay *)

LEMMA DownStep ==
    ASSUME Inv, Downs, NoCleanup, [Next]_vars
    PROVE  Downs'
<1> USE DEF Inv, TypeOK, Downs, Go, Move, local, Ended, Locked
<1>1. ASSUME NEW c \in Client, Begin(c) \/ EnterPublish(c) \/ EnterUnpublish(c) \/ Crash(c)
      PROVE  Downs'
    BY <1>1 DEF Begin, EnterPublish, EnterUnpublish, Crash, Return, End
<1>2. ASSUME NEW c \in Client, EnterCleanup(c) PROVE FALSE
    BY <1>2 DEF EnterCleanup, Placed, NoCleanup
<1>3. ASSUME NEW c \in Client, Connect(c) \/ Address(c) PROVE Downs'
    BY <1>3 DEF Connect, Address, Proceed, Return, End
<1>4. ASSUME NEW c \in Client, Direct(c) \/ CheckGateway(c) PROVE Downs'
    BY <1>4 DEF Direct, CheckGateway, Judge, Return, End
<1>5. ASSUME NEW c \in Client, WriteRoute(c) \/ Restore(c) \/ Recover(c) \/ Undo(c) PROVE Downs'
    BY <1>5 DEF WriteRoute, Restore, Recover, Undo, Return, End
<1>6. ASSUME NEW c \in Client, Detach(c) \/ RemoveRoute(c) \/ AwaitGone(c) \/ TakeDown(c)
      PROVE  Downs'
    BY <1>6 DEF Detach, RemoveRoute, AwaitGone, TakeDown, Return, End
<1>7. CASE UNCHANGED at
    BY <1>7
<1> QED
    BY <1>1, <1>2, <1>3, <1>4, <1>5, <1>6, <1>7
       DEF Next, Enter, Work, Reload, Stop, Restart, Remove, vars

(* What becomes of a container when nobody takes it down. *)
LEMMA StateStep ==
    ASSUME Downs, [Next]_vars
    PROVE  UNCHANGED state \/ \E b \in Box : Stop(b) \/ Restart(b) \/ Remove(b)
<1>1. ASSUME NEW c \in Client, TakeDown(c) PROVE FALSE
    BY <1>1 DEF TakeDown, Downs
<1> QED
    BY <1>1
       DEF Next, Enter, Work, Begin, EnterPublish, EnterUnpublish, EnterCleanup, Connect, Address,
           Direct, WriteRoute, CheckGateway, Restore, Recover, Undo, Detach, RemoveRoute, AwaitGone,
           Crash, Reload, vars

LEMMA PresentStep ==
    ASSUME TypeOK, Present, Downs, Steady, [Next]_vars
    PROVE  Present'
BY StateStep DEF Present, TypeOK, Stop, Restart, Remove, Steady

LEMMA UpStep ==
    ASSUME TypeOK, Up, Downs, Calm, [Next]_vars
    PROVE  Up'
BY StateStep DEF Up, TypeOK, Stop, Restart, Remove, Calm

-------------------------------------------------------------------------------
(* Where a failed call leaves its slot *)

(* Before a call enters or after it ends, nothing is asked of it.              *)
LEMMA OthersSettled ==
    ASSUME Inv, Settled, NEW c \in Client, at[c] \in Locked, Framed(c), SettledAt(c)'
    PROVE  Settled'
<1>1. ASSUME NEW d \in Client \ {c} PROVE at'[d] \notin {"remove", "recover", "undo", "detach"}
    BY Alone DEF Inv, Framed, Locked
<1> QED BY <1>1 DEF Settled, SettledAt

LEMMA SettledStep ==
    ASSUME Inv, Downs, Settled, [Next]_vars
    PROVE  Settled'
<1> USE NoneDiffers DEF Inv, TypeOK, Ended, Locked, Go, Move, local
<1>1. ASSUME NEW c \in Client, UNCHANGED <<route, alias, state>>, Framed(c),
             at'[c] \notin {"remove", "recover", "undo", "detach"}
      PROVE  Settled'
    BY <1>1 DEF Settled, SettledAt, Framed, Attached
<1>2. ASSUME NEW c \in Client, Begin(c) \/ EnterPublish(c) \/ EnterCleanup(c) \/ Crash(c)
      PROVE  Settled'
    <2>1. Framed(c)
        BY <1>2, FramedStep DEF Enter
    <2>2. at'[c] \notin {"remove", "recover", "undo", "detach"}
        BY <1>2 DEF Begin, EnterPublish, EnterCleanup, Crash, Return, End
    <2>3. UNCHANGED <<route, alias, state>>
        BY <1>2 DEF Begin, EnterPublish, EnterCleanup, Crash
    <2> QED BY <1>1, <2>1, <2>2, <2>3
<1>3. ASSUME NEW c \in Client, EnterUnpublish(c) PROVE Settled'
    <2>1. Framed(c)
        BY <1>3, FramedStep DEF Enter
    <2>2. SettledAt(c)'
        BY <1>3 DEF EnterUnpublish, SettledAt, Return, End
    <2>3. UNCHANGED <<route, alias, state>>
        BY <1>3 DEF EnterUnpublish
    <2> QED BY <2>1, <2>2, <2>3 DEF Settled, SettledAt, Framed, Attached
<1>4. ASSUME NEW c \in Client, at[c] \in Locked, Work(c), SettledAt(c)' PROVE Settled'
    BY <1>4, FramedStep, OthersSettled
<1>5. ASSUME NEW c \in Client, Connect(c) \/ Address(c) PROVE Settled'
    <2>1. at[c] \in Locked /\ at'[c] \notin {"remove", "recover", "undo", "detach"}
        BY <1>5 DEF Connect, Address, Proceed, Return, End
    <2> QED BY <1>4, <1>5, <2>1 DEF Work, SettledAt
<1>6. ASSUME NEW c \in Client,
             Direct(c) \/ WriteRoute(c) \/ Undo(c) \/ Detach(c) \/ RemoveRoute(c)
      PROVE  Settled'
    <2>1. at[c] \in Locked /\ at'[c] \notin {"remove", "recover", "undo", "detach"}
        BY <1>6 DEF Direct, Judge, WriteRoute, Undo, Detach, RemoveRoute, Return, End
    <2> QED BY <1>4, <1>6, <2>1 DEF Work, SettledAt
<1>7. ASSUME NEW c \in Client, CheckGateway(c) PROVE Settled'
    <2>1. Attached(old[c])
        BY <1>7 DEF CheckGateway, Prepared, PreparedAt
    <2>2. SettledAt(c)'
        BY <1>7, <2>1 DEF CheckGateway, Judge, SettledAt, Attached, Return, End
    <2> QED BY <1>4, <1>7, <2>2 DEF Work, CheckGateway
<1>8. ASSUME NEW c \in Client, Restore(c) PROVE Settled'
    <2>1. call[c].slot \in Slot
        BY <1>8, Called DEF Restore
    <2>2. SettledAt(c)'
        BY <1>8, <2>1 DEF Restore, SettledAt
    <2> QED BY <1>4, <1>8, <2>2 DEF Work, Restore
<1>9. ASSUME NEW c \in Client, Recover(c) PROVE Settled'
    <2>1. SettledAt(c)'
        BY <1>9 DEF Recover, Settled, SettledAt, Return, End
    <2> QED BY <1>4, <1>9, <2>1 DEF Work, Recover
<1>10. ASSUME NEW c \in Client, AwaitGone(c) PROVE Settled'
    <2>1. Attached(old[c])
        BY <1>10 DEF AwaitGone, Prepared, PreparedAt
    <2>2. SettledAt(c)'
        BY <1>10, <2>1 DEF AwaitGone, SettledAt, Attached, Return, End
    <2> QED BY <1>4, <1>10, <2>2 DEF Work, AwaitGone
<1>11. ASSUME NEW c \in Client, TakeDown(c) PROVE FALSE
    BY <1>11 DEF TakeDown, Downs
<1>12. CASE UNCHANGED <<route, at, call, old>> /\ ~\E c \in Client : Undo(c) \/ Detach(c)
    <2> SUFFICES ASSUME NEW c \in Client PROVE SettledAt(c)'
        BY DEF Settled
    <2>1. Harmless
        BY <1>12, HarmlessStep
    <2>2. Attached(old[c]) => Attached(old[c])'
        BY <1>12, <2>1, StaysAttached DEF Attached
    <2> QED BY <1>12, <2>2 DEF Settled, SettledAt
<1>13. ASSUME UNCHANGED at PROVE ~\E c \in Client : Undo(c) \/ Detach(c)
    BY <1>13 DEF Undo, Detach, Return, End
<1> QED
    BY <1>2, <1>3, <1>5, <1>6, <1>7, <1>8, <1>9, <1>10, <1>11, <1>12, <1>13
       DEF Next, Enter, Work, Reload, Stop, Restart, Remove, vars

LEMMA CommitStep ==
    ASSUME CommitInv, Steady, [Next]_vars
    PROVE  CommitInv'
BY InvStep, DownStep, PresentStep, SettledStep DEF CommitInv, Inv, Steady

LEMMA CommitInit == Init => CommitInv
BY InitInv DEF Init, CommitInv, Downs, Present, Settled, SettledAt

(* A call fails before it writes a route or after it has put the old one back. *)
LEMMA FailingStep ==
    ASSUME CommitInv, Steady, [Next]_vars, NEW c \in Client, at[c] \in Locked, at'[c] = "failed"
    PROVE  route'[call[c].slot] = old[c]
<1> USE DEF CommitInv, Inv, TypeOK
<1>1. Work(c)
    <2>1. ASSUME NEW d \in Client, Begin(d) \/ Enter(d) \/ Work(d) \/ Crash(d) PROVE d = c
        BY <2>1, FramedStep DEF Framed, Locked
    <2>2. ~Begin(c) /\ ~Enter(c)
        BY DEF Begin, Enter, EnterPublish, EnterUnpublish, EnterCleanup, Locked
    <2>3. ~Crash(c)
        BY DEF Crash, End, Move
    <2> QED BY <2>1, <2>2, <2>3 DEF Next, Reload, Stop, Restart, Remove, local, vars, Locked
<1>2. call[c].slot \in Slot
    BY Called DEF Locked, Ended
<1>3. CASE Connect(c) \/ Address(c)
    BY <1>3 DEF Connect, Address, Informed
<1>4. CASE Direct(c)
    BY <1>4 DEF Direct, Informed
<1>5. CASE CheckGateway(c)
    <2>1. PICK reply \in Served(call[c].slot) : Judge(c, reply, "detach")
        BY <1>5 DEF CheckGateway
    <2>2. reply # "garbage"
        BY <2>1 DEF Served, Replies, Steady
    <2> QED BY <2>1, <2>2 DEF Judge, Go, Move
<1>6. CASE WriteRoute(c) \/ Restore(c) \/ RemoveRoute(c)
    BY <1>6 DEF WriteRoute, Restore, RemoveRoute, Go, Move
<1>7. CASE Recover(c) \/ Undo(c)
    BY <1>7 DEF Recover, Undo, Settled, SettledAt
<1>8. CASE Detach(c)
    <2>1. old[c] # None => alias[old[c].box] # None
        <3>1. old[c] # None => old[c].box \in Box /\ old[c].alias \in Slot
            BY DEF Route
        <3> QED BY <1>8, <3>1, NoneDiffers DEF Detach, Settled, SettledAt, Attached, Present
    <2> QED BY <1>8, <2>1 DEF Detach, Return, End, Move
<1>9. CASE AwaitGone(c)
    <2>1. "garbage" \notin Served(call[c].slot)
        BY DEF Served, Replies, Steady
    <2> QED BY <1>2, <1>9, <2>1 DEF AwaitGone, Go, Move
<1>10. CASE TakeDown(c)
    BY <1>10 DEF TakeDown, Downs
<1> QED BY <1>1, <1>3, <1>4, <1>5, <1>6, <1>7, <1>8, <1>9, <1>10 DEF Work

(* While containers stay and services speak HTTP, a publish or unpublish that  *)
(* reports failure leaves the route file of its slot as it found it, whichever *)
(* other calls are killed and whichever containers stop.                       *)
THEOREM FailureKeepsSlot == ASSUME Steady PROVE Spec => FailedKeepsSlot
<1>1. CommitInv /\ [Next]_vars => CommitInv'
    BY CommitStep
<1>2. CommitInv /\ [Next]_vars =>
        [\A c \in Client : at[c] \in Locked /\ at'[c] = "failed" => route'[call[c].slot] = old[c]]_vars
    BY FailingStep
<1> QED BY CommitInit, <1>1, <1>2, PTL DEF Spec, FailedKeepsSlot

-------------------------------------------------------------------------------
(* What is attached between calls *)

(* The same of one call, which then is the only one to answer for containers.  *)
Answered(c) ==
    /\ CandidateAt(c)
    /\ KeptAt(c)
    /\ \A b \in Box : alias[b] # None => Routed(b) \/ AttachedBy(c, b)

LEMMA AnswersAlone ==
    ASSUME CalmInv, NEW c \in Client, at[c] \in Locked
    PROVE  Answered(c)
<1>1. \A d \in Client, b \in Box : AttachedBy(d, b) => at[d] \in Locked
    BY DEF AttachedBy, Locked
<1> QED BY <1>1, Alone DEF CalmInv, Inv, Answered, Candidates, Kept, Accounted

LEMMA AnsweredKept ==
    ASSUME Inv, NEW c \in Client, at[c] \in Locked, Framed(c), Answered(c)'
    PROVE  Candidates' /\ Kept' /\ Accounted'
<1>1. ASSUME NEW d \in Client \ {c} PROVE at'[d] \notin Locked
    BY Alone DEF Inv, Framed
<1> QED
    BY <1>1 DEF Answered, Candidates, CandidateAt, Kept, KeptAt, Accounted, Locked

(* The container of a call and the routes it knows. *)
LEMMA KnownBoxes ==
    ASSUME Inv, NEW c \in Client, at[c] \in Locked
    PROVE  /\ call[c].slot \in Slot
           /\ call[c].op = "publish" <=> call[c].box \in Box
           /\ old[c] # None => old[c].box \in Box
           /\ \A s \in Slot : route[s] # None => route[s].box \in Box
<1>1. at[c] \notin {"idle"} \cup Ended
    BY DEF Locked, Ended
<1>2. call[c].slot \in Slot /\ (call[c].op = "publish" <=> call[c].box \in Box)
    BY <1>1, Called DEF Inv
<1> QED BY <1>2 DEF Inv, TypeOK, Route

(* A call that goes on with the container it found or has just attached.       *)
LEMMA ProceedAnswered ==
    ASSUME CalmInv, NEW c \in Client, at[c] \in {"connect", "address"}, NEW f \in BOOLEAN,
           f <=> at[c] = "address",
           Proceed(c, alias[call[c].box], f), alias[call[c].box] # None, UNCHANGED <<route, alias>>
    PROVE  Answered(c)'
<1> USE DEF CalmInv, Inv, TypeOK, Locked, Ended, Move, Answered
<1>1. Answered(c)
    BY AnswersAlone
<1>2. call[c].box \in Box /\ call[c].slot \in Slot
    BY KnownBoxes DEF Placed, Publishing
<1>3. route[call[c].slot] = old[c]
    BY DEF Informed
<1>4. at'[c] \notin {"remove", "write", "gateway", "restore", "await", "detach", "address", "recover",
                     "undo"}
    BY DEF Proceed, Return, End
<1>5. CASE Candidate(call[c], alias[call[c].box]) = old[c]
    <2>1. at'[c] = "ok"
        BY <1>5 DEF Proceed, Return, End
    <2>2. Routed(call[c].box)
        <3>1. old[c] # None
            <4>1. Candidate(call[c], alias[call[c].box]) \in Route
                BY <1>2, Called DEF Placed, Candidate, Route
            <4> QED BY <1>5, <4>1, NoneDiffers
        <3> QED BY <1>2, <1>3, <1>5, <3>1 DEF Routed, Candidate
    <2>3. \A b \in Box : AttachedBy(c, b) => b = call[c].box
        BY DEF AttachedBy
    <2>4. \A b \in Box : alias'[b] # None => Routed(b)'
        BY <1>1, <2>2, <2>3 DEF Routed
    <2> QED BY <2>1, <2>4 DEF CandidateAt, KeptAt
<1>6. CASE Candidate(call[c], alias[call[c].box]) # old[c]
    <2>1. /\ at'[c] = "direct" /\ call' = call /\ old' = old /\ fresh'[c] = f
          /\ new'[c] = Candidate(call[c], alias[call[c].box])
        BY <1>6 DEF Proceed
    <2>2. Candidate(call[c], alias[call[c].box]) \in Route
        BY <1>2, Called DEF Placed, Candidate, Route
    <2>3. CandidateAt(c)'
        BY <2>1, <2>2, NoneDiffers DEF CandidateAt, Candidate
    <2>4. ~f => Routed(call[c].box)
        BY <1>1, <1>2 DEF AttachedBy
    <2>5. KeptAt(c)'
        <3> SUFFICES ASSUME ~f PROVE KeptAt(c)'
            BY <2>1 DEF KeptAt
        <3>1. PICK s \in Slot : route[s] # None /\ route[s].box = call[c].box
            BY <2>4 DEF Routed
        <3> QED BY <1>3, <2>1, <3>1 DEF KeptAt
    <2>6. \A b \in Box : AttachedBy(c, b) => AttachedBy(c, b)'
        BY <2>1 DEF AttachedBy
    <2> QED BY <1>1, <2>3, <2>5, <2>6 DEF Routed
<1> QED BY <1>5, <1>6

LEMMA PublishAnswered ==
    ASSUME CalmInv, Calm, NEW c \in Client,
           Connect(c) \/ Address(c) \/ Direct(c) \/ WriteRoute(c) \/ CheckGateway(c)
    PROVE  Answered(c)'
<1> USE DEF CalmInv, Inv, TypeOK, Locked, Ended, Go, Move, local
<1>1. Answered(c) /\ at[c] \in Locked
    BY AnswersAlone DEF Connect, Address, Direct, WriteRoute, CheckGateway
<1>2. call[c].box \in Box /\ call[c].slot \in Slot /\ (old[c] # None => old[c].box \in Box)
    BY <1>1, KnownBoxes DEF Placed, Publishing, Connect, Address, Direct, WriteRoute, CheckGateway
<1>3. CASE Connect(c)
    <2>1. state[call[c].box] = "up"
        BY <1>2 DEF Up
    <2>2. CASE alias[call[c].box] # None
        BY <1>3, <2>1, <2>2, ProceedAnswered DEF Connect
    <2>3. CASE alias[call[c].box] = None
        <3>1. at'[c] = "address" /\ UNCHANGED <<route, call>>
            BY <1>3, <2>1, <2>3 DEF Connect
        <3>2. \A b \in Box \ {call[c].box} : alias'[b] = alias[b]
            BY <1>2, <1>3, <2>1, <2>3 DEF Connect
        <3>3. \A b \in Box \ {call[c].box} : ~AttachedBy(c, b)
            BY <1>3 DEF Connect, AttachedBy
        <3> QED
            BY <1>1, <3>1, <3>2, <3>3 DEF Answered, CandidateAt, KeptAt, AttachedBy, Routed
    <2> QED BY <2>2, <2>3
<1>4. CASE Address(c)
    <2>1. state[call[c].box] = "up" /\ alias[call[c].box] # None
        BY <1>2, <1>4 DEF Up, Address, Prepared, PreparedAt
    <2> QED BY <1>4, <2>1, ProceedAnswered DEF Address
<1>5. CASE Direct(c)
    <2>1. UNCHANGED <<route, alias, local>> /\ at[c] = "direct" /\ at'[c] \in {"write", "restore"}
        <3>1. PICK reply \in Replies(call[c].box) : Judge(c, reply, "write")
            BY <1>5 DEF Direct
        <3>2. reply # "garbage"
            BY <3>1 DEF Replies, Calm
        <3> QED BY <1>5, <3>1, <3>2 DEF Direct, Judge
    <2> QED BY <1>1, <2>1 DEF Answered, CandidateAt, KeptAt, AttachedBy, Routed
<1>6. CASE WriteRoute(c)
    <2>1. /\ at[c] = "write" /\ at'[c] = "gateway" /\ UNCHANGED <<alias, local>>
          /\ route' = [route EXCEPT ![call[c].slot] = new[c]]
        BY <1>6 DEF WriteRoute
    <2>2. new[c] # None /\ new[c].box = call[c].box
        BY <1>1, <2>1 DEF Answered, CandidateAt
    <2>3. \A b \in Box : AttachedBy(c, b) => Routed(b)'
        BY <1>2, <2>1, <2>2 DEF AttachedBy, Routed
    <2>4. \A b \in Box : Routed(b) => Routed(b)' \/ AttachedBy(c, b)'
        <3> SUFFICES ASSUME NEW b \in Box, NEW s \in Slot, route[s] # None, route[s].box = b
                     PROVE  Routed(b)' \/ AttachedBy(c, b)'
            BY DEF Routed
        <3>1. s = call[c].slot => old[c] = route[s]
            BY <2>1 DEF Informed
        <3> QED BY <2>1, <3>1 DEF Routed, AttachedBy
    <2>5. CandidateAt(c)' /\ KeptAt(c)'
        <3>1. \A s \in Slot \ {call[c].slot} : route'[s] = route[s]
            BY <2>1
        <3> QED BY <1>1, <2>1, <2>2, <3>1 DEF Answered, CandidateAt, KeptAt
    <2> QED BY <1>1, <2>1, <2>3, <2>4, <2>5 DEF Answered
<1>7. CASE CheckGateway(c)
    <2>1. UNCHANGED <<route, alias, local>> /\ at[c] = "gateway" /\ at'[c] \in {"detach", "restore"}
        <3>1. PICK reply \in Served(call[c].slot) : Judge(c, reply, "detach")
            BY <1>7 DEF CheckGateway
        <3>2. reply # "garbage"
            BY <3>1 DEF Served, Replies, Calm
        <3> QED BY <1>7, <3>1, <3>2 DEF CheckGateway, Judge
    <2>2. route[call[c].slot] = new[c]
        BY <2>1 DEF Informed
    <2> QED BY <1>1, <2>1, <2>2 DEF Answered, CandidateAt, KeptAt, AttachedBy, Routed
<1> QED BY <1>3, <1>4, <1>5, <1>6, <1>7

LEMMA RollbackAnswered ==
    ASSUME CalmInv, Calm, NEW c \in Client, Restore(c) \/ Recover(c) \/ Undo(c)
    PROVE  Answered(c)'
<1> USE DEF CalmInv, Inv, TypeOK, Locked, Ended, Go, Move, local
<1>1. Answered(c) /\ at[c] \in Locked
    BY AnswersAlone DEF Restore, Recover, Undo
<1>2. call[c].box \in Box /\ call[c].slot \in Slot /\ (old[c] # None => old[c].box \in Box)
    BY <1>1, KnownBoxes DEF Placed, Publishing, Restore, Recover, Undo
<1>3. CASE Restore(c)
    <2>1. /\ at[c] = "restore" /\ at'[c] \in {"recover", "undo"} /\ UNCHANGED <<alias, local>>
          /\ route' = [route EXCEPT ![call[c].slot] = old[c]]
        BY <1>3 DEF Restore
    <2>2. \A b \in Box : AttachedBy(c, b) => Routed(b)' \/ AttachedBy(c, b)'
        BY <1>2, <2>1 DEF AttachedBy, Routed
    <2>3. Routed(call[c].box)' \/ AttachedBy(c, call[c].box)'
        <3>1. fresh[c] => AttachedBy(c, call[c].box)'
            BY <2>1 DEF AttachedBy
        <3>2. ~fresh[c] => Routed(call[c].box)'
            BY <1>1, <1>2, <2>1 DEF Answered, KeptAt, Routed
        <3> QED BY <3>1, <3>2
    <2>4. \A b \in Box : Routed(b) => b = call[c].box \/ Routed(b)'
        <3> SUFFICES ASSUME NEW b \in Box, NEW s \in Slot, route[s] # None, route[s].box = b,
                            b # call[c].box
                     PROVE  Routed(b)'
            BY DEF Routed
        <3>1. s = call[c].slot => route[s] = old[c]
            BY <1>1, <2>1 DEF Informed, Answered, CandidateAt
        <3> QED BY <2>1, <3>1 DEF Routed
    <2> QED BY <1>1, <2>1, <2>2, <2>3, <2>4 DEF Answered, CandidateAt, KeptAt
<1>4. CASE Recover(c)
    <2>1. UNCHANGED <<route, alias, local>> /\ at[c] = "recover" /\ at'[c] = "undo"
        <3>1. "garbage" \notin Served(call[c].slot)
            BY DEF Served, Replies, Calm
        <3> QED BY <1>4, <3>1 DEF Recover
    <2> QED BY <1>1, <2>1 DEF Answered, CandidateAt, KeptAt, AttachedBy, Routed
<1>5. CASE Undo(c)
    <2>1. at[c] = "undo" /\ at'[c] = "failed" /\ UNCHANGED route
        BY <1>5 DEF Undo, Return, End
    <2>2. \A b \in Box : AttachedBy(c, b) => fresh[c] /\ b = call[c].box
        BY <2>1 DEF AttachedBy
    <2>3. \A b \in Box : alias'[b] # None => Routed(b)
        BY <1>1, <1>2, <1>5, <2>2 DEF Answered, Undo
    <2> QED BY <2>1, <2>3 DEF Answered, CandidateAt, KeptAt, Routed
<1> QED BY <1>3, <1>4, <1>5

LEMMA WithdrawAnswered ==
    ASSUME CalmInv, Calm, NEW c \in Client, Detach(c) \/ RemoveRoute(c) \/ AwaitGone(c)
    PROVE  Answered(c)'
<1> USE DEF CalmInv, Inv, TypeOK, Locked, Ended, Go, Move, local
<1>1. Answered(c) /\ at[c] \in Locked
    BY AnswersAlone DEF Detach, RemoveRoute, AwaitGone
<1>2. call[c].slot \in Slot /\ (old[c] # None => old[c].box \in Box)
    BY <1>1, KnownBoxes
<1>3. CASE Detach(c)
    <2>1. at[c] = "detach" /\ at'[c] \in {"ok", "failed"} /\ UNCHANGED route
        BY <1>3 DEF Detach, Return, End
    <2>2. old[c] # None /\ old[c].box = call[c].box => Routed(old[c].box)
        <3>1. call[c].box \in Box => call[c].op = "publish"
            BY <1>1, KnownBoxes
        <3> QED BY <1>1, <1>2, <2>1, <3>1 DEF Answered, CandidateAt, Routed
    <2>3. \A b \in Box : AttachedBy(c, b) => old[c] # None /\ b = old[c].box
        BY <2>1 DEF AttachedBy
    <2>4. \A b \in Box : alias'[b] # None => Routed(b)
        BY <1>1, <1>2, <1>3, <2>2, <2>3 DEF Answered, Detach
    <2> QED BY <2>1, <2>4 DEF Answered, CandidateAt, KeptAt, Routed
<1>4. CASE RemoveRoute(c)
    <2>1. /\ at[c] = "remove" /\ at'[c] = "await" /\ UNCHANGED <<alias, local>>
          /\ route' = [route EXCEPT ![call[c].slot] = None]
        BY <1>4 DEF RemoveRoute
    <2>2. \A b \in Box : ~AttachedBy(c, b)
        BY <2>1 DEF AttachedBy
    <2>3. \A b \in Box : Routed(b) => Routed(b)' \/ AttachedBy(c, b)'
        <3> SUFFICES ASSUME NEW b \in Box, NEW s \in Slot, route[s] # None, route[s].box = b
                     PROVE  Routed(b)' \/ AttachedBy(c, b)'
            BY DEF Routed
        <3>1. s = call[c].slot => old[c] = route[s]
            BY <2>1 DEF Settled, SettledAt
        <3> QED BY <2>1, <3>1 DEF Routed, AttachedBy
    <2> QED BY <1>1, <2>1, <2>2, <2>3 DEF Answered, CandidateAt, KeptAt
<1>5. CASE AwaitGone(c)
    <2>1. "garbage" \notin Served(call[c].slot)
        BY DEF Served, Replies, Calm
    <2>2. at[c] = "await" /\ UNCHANGED alias /\ route[call[c].slot] = None
        BY <1>5 DEF AwaitGone, Informed
    <2>3. CASE at'[c] = "detach" /\ UNCHANGED <<route, local>>
        <3>1. call[c].op # "publish"
            BY <2>2 DEF Placed
        <3> QED BY <1>1, <2>2, <2>3, <3>1 DEF Answered, CandidateAt, KeptAt, AttachedBy, Routed
    <2>4. CASE at'[c] = "failed" /\ route' = [route EXCEPT ![call[c].slot] = old[c]]
        <3>1. \A b \in Box : Routed(b) => Routed(b)'
            BY <1>2, <2>2, <2>4 DEF Routed
        <3>2. \A b \in Box : AttachedBy(c, b) => Routed(b)'
            BY <1>2, <2>2, <2>4 DEF AttachedBy, Routed
        <3> QED BY <1>1, <2>2, <2>4, <3>1, <3>2 DEF Answered, CandidateAt, KeptAt
    <2> QED BY <1>5, <2>1, <2>3, <2>4 DEF AwaitGone, Return, End
<1> QED BY <1>3, <1>4, <1>5

(* Steps outside of the locked section leave the account as it is. *)
LEMMA EnteringStep ==
    ASSUME CalmInv, Calm, NEW c \in Client, Begin(c) \/ Enter(c) \/ Crash(c)
    PROVE  Candidates' /\ Kept' /\ Accounted'
<1> USE DEF CalmInv, Inv, TypeOK, Locked, Ended, Go, Move
<1>1. ~Crash(c)
    BY DEF Crash, Calm
<1>2. UNCHANGED <<route, alias>> /\ at'[c] \in {"enter", "connect", "remove", "failed", "down"}
    BY <1>1 DEF Begin, Enter, EnterPublish, EnterUnpublish, EnterCleanup, Return, End
<1>3. \A d \in Client : d # c => fresh'[d] = fresh[d]
    BY <1>1 DEF Begin, Enter, EnterPublish, EnterUnpublish, EnterCleanup, Return, End, local
<1>4. Framed(c)
    BY FramedStep
<1>5. Candidates'
    BY <1>2, <1>4 DEF Candidates, CandidateAt, Framed
<1>6. Kept'
    BY <1>2, <1>3, <1>4 DEF Kept, KeptAt, Framed
<1>7. \A b \in Box : ~AttachedBy(c, b)
    BY <1>1 DEF AttachedBy, Begin, Enter, EnterPublish, EnterUnpublish, EnterCleanup
<1>8. \A d \in Client, b \in Box : AttachedBy(d, b) => AttachedBy(d, b)'
    BY <1>3, <1>4, <1>7 DEF AttachedBy, Framed
<1>9. \A b \in Box : Routed(b) => Routed(b)'
    BY <1>2 DEF Routed
<1> QED BY <1>2, <1>5, <1>6, <1>8, <1>9 DEF Accounted

LEMMA AccountStep ==
    ASSUME CalmInv, Calm, [Next]_vars
    PROVE  Candidates' /\ Kept' /\ Accounted'
<1>1. ASSUME NEW c \in Client, Work(c) PROVE Candidates' /\ Kept' /\ Accounted'
    <2>1. ~TakeDown(c)
        BY DEF TakeDown, CalmInv, Downs
    <2>2. at[c] \in Locked
        BY <1>1, <2>1 DEF Work, Connect, Address, Direct, WriteRoute, CheckGateway, Restore, Recover,
           Undo, Detach, RemoveRoute, AwaitGone, Locked
    <2>3. Answered(c)'
        BY <1>1, <2>1, PublishAnswered, RollbackAnswered, WithdrawAnswered DEF Work
    <2> QED BY <1>1, <2>2, <2>3, FramedStep, AnsweredKept DEF CalmInv, Inv
<1>2. CASE UNCHANGED <<route, alias, at, local>>
    BY <1>2
       DEF CalmInv, Candidates, CandidateAt, Kept, KeptAt, Accounted, AttachedBy, Routed, local
<1>3. ASSUME NEW b \in Box, Stop(b) \/ Remove(b) PROVE FALSE
    BY <1>3 DEF Stop, Remove, Calm
<1> QED
    BY <1>1, <1>2, <1>3, EnteringStep DEF Next, Reload, Restart, vars

LEMMA CalmStep ==
    ASSUME CalmInv, Calm, [Next]_vars
    PROVE  CalmInv'
BY InvStep, DownStep, UpStep, SettledStep, AccountStep DEF CalmInv, Inv, Calm

LEMMA CalmInit == Init => CalmInv
BY InitInv
   DEF Init, CalmInv, Downs, Up, Settled, SettledAt, Candidates, CandidateAt, Kept, KeptAt, Accounted

(* While containers stay up, calls are not killed and services speak HTTP, no  *)
(* container is left on the edge network without a route when no call is at    *)
(* work, whatever checks fail and however slots share containers.              *)
THEOREM OnlyRoutedStayAttached == ASSUME Calm PROVE Spec => []OnlyRoutedAttached
<1>1. CalmInv /\ [Next]_vars => CalmInv'
    BY CalmStep
<1>2. CalmInv => OnlyRoutedAttached
    <2> SUFFICES ASSUME CalmInv, lock = None, NEW b \in Box, alias[b] # None PROVE Routed(b)
        BY DEF OnlyRoutedAttached
    <2>1. \A c \in Client : at[c] \notin Locked
        BY NoneDiffers DEF CalmInv, Inv, Placed
    <2> QED BY <2>1 DEF CalmInv, Accounted, AttachedBy, Locked
<1> QED BY CalmInit, <1>1, <1>2, PTL DEF Spec
===============================================================================
