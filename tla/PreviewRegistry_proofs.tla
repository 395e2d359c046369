------------------------ MODULE PreviewRegistry_proofs ------------------------
(* Theorems of PreviewRegistry, for any slots, containers, jobs and calls, and *)
(* any failures.                                                               *)
EXTENDS PreviewRegistry, TLAPS

-------------------------------------------------------------------------------
(* The inductive invariant. *)

Publishing == {"connect", "address", "direct", "write", "gateway", "restore",
               "recover", "undo"}

(* A call inside the locked section holds the lock and knows what it is. *)
Placed ==
    \A c \in Client :
       /\ at[c] \in Locked => lock = c
       /\ at[c] \notin {"idle"} \cup Ended => call[c] \in Request[c]
       /\ at[c] \in Publishing => call[c].op = "publish"
       /\ at[c] \in {"remove", "await"} => call[c].op = "unpublish"

(* What a publish or unpublish knows of the route file of its slot. *)
Informed ==
    \A c \in Client :
       /\ at[c] \in {"connect", "address", "direct", "write"} => route[call[c].slot] = old[c]
       /\ at[c] = "gateway" => route[call[c].slot] = new[c]
       /\ at[c] = "restore" => route[call[c].slot] \in {old[c], new[c]}
       /\ at[c] = "await" => route[call[c].slot] = None
       /\ at[c] = "remove" =>
             route[call[c].slot] # None /\ route[call[c].slot].job = call[c].job

Attached(r) == r # None /\ state[r.box] # "gone" => alias[r.box] = r.alias

(* The containers of the route to restore and of the candidate are attached.   *)
PreparedAt(c) ==
    /\ at[c] \in {"connect", "address", "direct", "write", "gateway", "restore",
                  "remove", "await"} => Attached(old[c])
    /\ at[c] = "address" => state[call[c].box] = "gone" \/ alias[call[c].box] # None
    /\ at[c] \in {"direct", "write"} => new[c] # None /\ Attached(new[c])

Prepared == \A c \in Client : PreparedAt(c)

Routes == \A s \in Slot : Attached(route[s])

Inv == TypeOK /\ Placed /\ Informed /\ Prepared /\ Routes

-------------------------------------------------------------------------------
(* None is no slot, so an alias is not None. *)
LEMMA NoneDiffers == None \notin Slot /\ None \notin Client /\ None \notin Route
BY NoneAssumption

(* What a call was made for, once it has begun. *)
LEMMA Called ==
    ASSUME NEW c \in Client, Placed, at[c] \notin {"idle"} \cup Ended
    PROVE  /\ call[c] \in Call /\ call[c].slot \in Slot /\ call[c].job \in Job
           /\ call[c].path \in Path
           /\ call[c].op = "publish" <=> call[c].box \in Box
<1>1. call[c] \in Request[c]
    BY DEF Placed
<1>2. call[c] \in Call
    BY <1>1, RequestAssumption
<1> QED BY <1>1, <1>2, PublishAssumption DEF Call

LEMMA InitInv == Init => Inv
BY NoneDiffers DEF Init, Inv, TypeOK, Place, Locked, Ended, Publishing, Placed, Informed, Prepared,
   PreparedAt, Attached, Routes

LEMMA TypeStep == Inv /\ [Next]_vars => TypeOK'
<1> SUFFICES ASSUME Inv, [Next]_vars PROVE TypeOK'
    OBVIOUS
<1> USE DEF Inv, Place, Locked, Ended, Go, Move, local
<1>1. ASSUME NEW c \in Client, Begin(c) PROVE TypeOK'
    <2>1. PICK r \in Request[c] : call' = [call EXCEPT ![c] = r]
        BY <1>1 DEF Begin
    <2>2. r \in Call
        BY RequestAssumption
    <2> QED BY <1>1, <2>1, <2>2 DEF TypeOK, Begin
<1>2. ASSUME NEW c \in Client, EnterPublish(c) PROVE TypeOK'
    <2>1. call[c] \in Call /\ call[c].slot \in Slot
        BY <1>2, Called DEF EnterPublish
    <2> QED BY <1>2, <2>1 DEF TypeOK, EnterPublish, Return, End
<1>3. ASSUME NEW c \in Client, EnterUnpublish(c) PROVE TypeOK'
    <2>1. call[c] \in Call /\ call[c].slot \in Slot
        BY <1>3, Called DEF EnterUnpublish
    <2> QED BY <1>3, <2>1 DEF TypeOK, EnterUnpublish, Return, End
<1>4. ASSUME NEW c \in Client, EnterCleanup(c) PROVE TypeOK'
    BY <1>4 DEF TypeOK, EnterCleanup, End
<1>5. ASSUME NEW c \in Client, NEW a \in Slot, NEW f \in BOOLEAN, Proceed(c, a, f),
             at[c] \in {"connect", "address"}
      PROVE  /\ at' \in [Client -> Place] /\ call' \in [Client -> Call \cup {None}]
             /\ old' \in [Client -> Route \cup {None}] /\ new' \in [Client -> Route \cup {None}]
             /\ fresh' \in [Client -> BOOLEAN] /\ lock' \in Client \cup {None}
    <2>1. Candidate(call[c], a) \in Route
        <3>1. call[c].op = "publish"
            BY <1>5 DEF Placed, Publishing
        <3> QED BY <1>5, <3>1, Called DEF Candidate, Route
    <2> QED BY <1>5, <2>1 DEF TypeOK, Proceed, Return, End
<1>6. ASSUME NEW c \in Client, Connect(c) PROVE TypeOK'
    <2>1. call[c].box \in Box /\ call[c].slot \in Slot
        BY <1>6, Called DEF Connect, Placed, Publishing
    <2>2. alias[call[c].box] # None => alias[call[c].box] \in Slot
        BY <2>1 DEF TypeOK
    <2>3. CASE Return(c, "failed") /\ UNCHANGED alias
        BY <1>6, <2>3 DEF TypeOK, Connect, Return, End
    <2>4. CASE Proceed(c, alias[call[c].box], FALSE) /\ alias[call[c].box] # None /\ UNCHANGED alias
        BY <1>5, <1>6, <2>2, <2>4 DEF TypeOK, Connect
    <2>5. CASE alias' = [alias EXCEPT ![call[c].box] = call[c].slot] /\ Go(c, "address") /\ UNCHANGED lock
        BY <1>6, <2>1, <2>5 DEF TypeOK, Connect
    <2> QED BY <1>6, <2>3, <2>4, <2>5 DEF Connect
<1>7. ASSUME NEW c \in Client, Address(c) PROVE TypeOK'
    <2>1. call[c].box \in Box
        BY <1>7, Called DEF Address, Placed, Publishing
    <2>2. CASE state[call[c].box] = "up"
        <3>1. alias[call[c].box] \in Slot
            BY <1>7, <2>1, <2>2 DEF TypeOK, Prepared, PreparedAt, Address
        <3> QED BY <1>5, <1>7, <2>2, <3>1 DEF TypeOK, Address
    <2>3. CASE Return(c, "failed")
        BY <1>7, <2>3 DEF TypeOK, Address, Return, End
    <2> QED BY <1>7, <2>2, <2>3 DEF Address
<1>8. ASSUME NEW c \in Client, Direct(c) PROVE TypeOK'
    BY <1>8 DEF TypeOK, Direct, Judge, Return, End
<1>9. ASSUME NEW c \in Client, WriteRoute(c) PROVE TypeOK'
    BY <1>9 DEF TypeOK, WriteRoute
<1>10. ASSUME NEW c \in Client, CheckGateway(c) PROVE TypeOK'
    <2>1. PICK reply \in Served(call[c].slot) : Judge(c, reply, "detach")
        BY <1>10 DEF CheckGateway
    <2> QED BY <1>10, <2>1 DEF TypeOK, CheckGateway, Judge, Return, End
<1>11. ASSUME NEW c \in Client, Restore(c) PROVE TypeOK'
    BY <1>11 DEF TypeOK, Restore
<1>12. ASSUME NEW c \in Client, Recover(c) PROVE TypeOK'
    BY <1>12 DEF TypeOK, Recover, Return, End
<1>13. ASSUME NEW c \in Client, Undo(c) PROVE TypeOK'
    BY <1>13 DEF TypeOK, Undo, Return, End
<1>14. ASSUME NEW c \in Client, Detach(c) PROVE TypeOK'
    BY <1>14 DEF TypeOK, Detach, Return, End
<1>15. ASSUME NEW c \in Client, RemoveRoute(c) PROVE TypeOK'
    BY <1>15 DEF TypeOK, RemoveRoute
<1>16. ASSUME NEW c \in Client, AwaitGone(c) PROVE TypeOK'
    BY <1>16 DEF TypeOK, AwaitGone, Return, End
<1>17. ASSUME NEW c \in Client, TakeDown(c) PROVE TypeOK'
    <2>1. call[c].job \in Job
        BY <1>17, Called DEF TakeDown
    <2> QED BY <1>17, <2>1 DEF TypeOK, TakeDown, End
<1>18. ASSUME NEW c \in Client, Crash(c) PROVE TypeOK'
    BY <1>18 DEF TypeOK, Crash, End
<1>19. ASSUME NEW s \in Slot, Reload(s) PROVE TypeOK'
    BY <1>19 DEF TypeOK, Reload
<1>20. ASSUME NEW b \in Box, Stop(b) \/ Restart(b) \/ Remove(b) PROVE TypeOK'
    BY <1>20 DEF TypeOK, Stop, Restart, Remove
<1>21. CASE UNCHANGED vars
    BY <1>21 DEF TypeOK, vars
<1> QED
    BY <1>1, <1>2, <1>3, <1>4, <1>6, <1>7, <1>8, <1>9, <1>10, <1>11, <1>12, <1>13, <1>14, <1>15,
       <1>16, <1>17, <1>18, <1>19, <1>20, <1>21 DEF Next, Enter, Work

LEMMA PlacedStep == Inv /\ [Next]_vars => Placed'
<1> SUFFICES ASSUME Inv, [Next]_vars PROVE Placed'
    OBVIOUS
<1> USE NoneDiffers DEF Inv, TypeOK, Placed, Publishing, Locked, Ended, Go, Move, local
<1>1. ASSUME NEW c \in Client, Begin(c) PROVE Placed'
    BY <1>1 DEF Begin
<1>2. ASSUME NEW c \in Client, EnterPublish(c) PROVE Placed'
    BY <1>2 DEF EnterPublish, Return, End
<1>3. ASSUME NEW c \in Client, EnterUnpublish(c) PROVE Placed'
    BY <1>3 DEF EnterUnpublish, Return, End
<1>4. ASSUME NEW c \in Client, EnterCleanup(c) PROVE Placed'
    BY <1>4 DEF EnterCleanup, End
<1>5. ASSUME NEW c \in Client, Connect(c) PROVE Placed'
    BY <1>5 DEF Connect, Proceed, Return, End
<1>6. ASSUME NEW c \in Client, Address(c) PROVE Placed'
    BY <1>6 DEF Address, Proceed, Return, End
<1>7. ASSUME NEW c \in Client, Direct(c) PROVE Placed'
    BY <1>7 DEF Direct, Judge, Return, End
<1>8. ASSUME NEW c \in Client, WriteRoute(c) PROVE Placed'
    BY <1>8 DEF WriteRoute
<1>9. ASSUME NEW c \in Client, CheckGateway(c) PROVE Placed'
    BY <1>9 DEF CheckGateway, Judge, Return, End
<1>10. ASSUME NEW c \in Client, Restore(c) PROVE Placed'
    BY <1>10 DEF Restore
<1>11. ASSUME NEW c \in Client, Recover(c) PROVE Placed'
    BY <1>11 DEF Recover, Return, End
<1>12. ASSUME NEW c \in Client, Undo(c) PROVE Placed'
    BY <1>12 DEF Undo, Return, End
<1>13. ASSUME NEW c \in Client, Detach(c) PROVE Placed'
    BY <1>13 DEF Detach, Return, End
<1>14. ASSUME NEW c \in Client, RemoveRoute(c) PROVE Placed'
    BY <1>14 DEF RemoveRoute
<1>15. ASSUME NEW c \in Client, AwaitGone(c) PROVE Placed'
    BY <1>15 DEF AwaitGone, Return, End
<1>16. ASSUME NEW c \in Client, TakeDown(c) PROVE Placed'
    BY <1>16 DEF TakeDown, End
<1>17. ASSUME NEW c \in Client, Crash(c) PROVE Placed'
    BY <1>17 DEF Crash, End
<1>18. ASSUME NEW s \in Slot, Reload(s) PROVE Placed'
    BY <1>18 DEF Reload
<1>19. ASSUME NEW b \in Box, Stop(b) \/ Restart(b) \/ Remove(b) PROVE Placed'
    BY <1>19 DEF Stop, Restart, Remove
<1>20. CASE UNCHANGED vars
    BY <1>20 DEF vars
<1> QED
    BY <1>1, <1>2, <1>3, <1>4, <1>5, <1>6, <1>7, <1>8, <1>9, <1>10, <1>11, <1>12, <1>13, <1>14, <1>15,
       <1>16, <1>17, <1>18, <1>19, <1>20 DEF Next, Enter, Work

(* While a call is in the locked section no other is. *)
LEMMA Alone ==
    ASSUME Placed, NEW c \in Client, NEW d \in Client, at[c] \in Locked, at[d] \in Locked
    PROVE  c = d
BY DEF Placed

(* Nobody else writes the route file of a call that holds the lock. *)
LEMMA InformedStep == Inv /\ [Next]_vars => Informed'
<1> SUFFICES ASSUME Inv, [Next]_vars PROVE Informed'
    OBVIOUS
<1> USE NoneDiffers DEF Inv, TypeOK, Informed, Locked, Ended, Go, Move, local
<1>1. ASSUME NEW c \in Client, Begin(c) PROVE Informed'
    BY <1>1, Alone DEF Begin
<1>2. ASSUME NEW c \in Client, EnterPublish(c) PROVE Informed'
    BY <1>2, Alone DEF EnterPublish, Return, End
<1>3. ASSUME NEW c \in Client, EnterUnpublish(c) PROVE Informed'
    BY <1>3, Alone DEF EnterUnpublish, Return, End
<1>4. ASSUME NEW c \in Client, EnterCleanup(c) PROVE Informed'
    BY <1>4, Alone DEF EnterCleanup, End
<1>5. ASSUME NEW c \in Client, Connect(c) PROVE Informed'
    BY <1>5, Alone DEF Connect, Proceed, Return, End
<1>6. ASSUME NEW c \in Client, Address(c) PROVE Informed'
    BY <1>6, Alone DEF Address, Proceed, Return, End
<1>7. ASSUME NEW c \in Client, Direct(c) PROVE Informed'
    BY <1>7, Alone DEF Direct, Judge, Return, End
<1>8. ASSUME NEW c \in Client, WriteRoute(c) PROVE Informed'
    <2>1. call[c].slot \in Slot
        BY <1>8, Called DEF WriteRoute
    <2>2. \A d \in Client : d # c => at[d] \notin Locked
        BY <1>8, Alone DEF WriteRoute
    <2> QED BY <1>8, <2>1, <2>2 DEF WriteRoute
<1>9. ASSUME NEW c \in Client, CheckGateway(c) PROVE Informed'
    BY <1>9, Alone DEF CheckGateway, Judge, Return, End
<1>10. ASSUME NEW c \in Client, Restore(c) PROVE Informed'
    BY <1>10, Alone DEF Restore
<1>11. ASSUME NEW c \in Client, Recover(c) PROVE Informed'
    BY <1>11, Alone DEF Recover, Return, End
<1>12. ASSUME NEW c \in Client, Undo(c) PROVE Informed'
    BY <1>12, Alone DEF Undo, Return, End
<1>13. ASSUME NEW c \in Client, Detach(c) PROVE Informed'
    BY <1>13, Alone DEF Detach, Return, End
<1>14. ASSUME NEW c \in Client, RemoveRoute(c) PROVE Informed'
    <2>1. call[c].slot \in Slot
        BY <1>14, Called DEF RemoveRoute
    <2> QED BY <1>14, <2>1, Alone DEF RemoveRoute
<1>15. ASSUME NEW c \in Client, AwaitGone(c) PROVE Informed'
    BY <1>15, Alone DEF AwaitGone, Return, End
<1>16. ASSUME NEW c \in Client, TakeDown(c) PROVE Informed'
    BY <1>16, Alone DEF TakeDown, End
<1>17. ASSUME NEW c \in Client, Crash(c) PROVE Informed'
    BY <1>17, Alone DEF Crash, End
<1>18. ASSUME NEW s \in Slot, Reload(s) PROVE Informed'
    BY <1>18 DEF Reload
<1>19. ASSUME NEW b \in Box, Stop(b) \/ Restart(b) \/ Remove(b) PROVE Informed'
    BY <1>19 DEF Stop, Restart, Remove
<1>20. CASE UNCHANGED vars
    BY <1>20 DEF vars
<1> QED
    BY <1>1, <1>2, <1>3, <1>4, <1>5, <1>6, <1>7, <1>8, <1>9, <1>10, <1>11, <1>12, <1>13, <1>14, <1>15, <1>16, <1>17, <1>18, <1>19, <1>20 DEF Next, Enter, Work


-------------------------------------------------------------------------------
(* A step is harmless when a container that still exists keeps its alias. *)
Harmless ==
    \A b \in Box : \/ state'[b] = "gone"
                   \/ state[b] # "gone" /\ (alias[b] = None \/ alias'[b] = alias[b])

LEMMA StaysAttached ==
    ASSUME TypeOK, Harmless, NEW r \in Route \cup {None}, Attached(r)
    PROVE  r # None /\ state'[r.box] # "gone" => alias'[r.box] = r.alias
<1> SUFFICES ASSUME r # None, state'[r.box] # "gone" PROVE alias'[r.box] = r.alias
    OBVIOUS
<1>1. r.box \in Box /\ r.alias \in Slot
    BY DEF Route
<1>2. state[r.box] # "gone" /\ (alias[r.box] = None \/ alias'[r.box] = alias[r.box])
    BY <1>1 DEF Harmless
<1> QED BY <1>1, <1>2, NoneDiffers DEF Attached

(* Nothing but the last step of a call detaches. *)
LEMMA HarmlessStep ==
    ASSUME Inv, [Next]_vars, ~\E c \in Client : Undo(c) \/ Detach(c)
    PROVE  Harmless
<1> USE DEF Inv, TypeOK, Harmless
<1>1. ASSUME NEW c \in Client, Connect(c) PROVE Harmless
    BY <1>1 DEF Connect
<1>2. ASSUME NEW c \in Client, TakeDown(c) PROVE Harmless
    BY <1>2 DEF TakeDown
<1>3. ASSUME NEW b \in Box, Stop(b) \/ Restart(b) \/ Remove(b) PROVE Harmless
    BY <1>3 DEF Stop, Restart, Remove
<1>4. CASE UNCHANGED <<alias, state>>
    BY <1>4
<1> QED
    BY <1>1, <1>2, <1>3, <1>4 DEF Next, Enter, Work, Begin, EnterPublish, EnterUnpublish, EnterCleanup,
       Address, Direct, WriteRoute, CheckGateway, Restore, Recover, RemoveRoute, AwaitGone, Crash,
       Reload, vars

Framed(c) ==
    \A d \in Client : d # c => /\ at'[d] = at[d] /\ call'[d] = call[d]
                             /\ old'[d] = old[d] /\ new'[d] = new[d]

(* A call leaves the others where they are. *)
LEMMA FramedStep ==
    ASSUME TypeOK, NEW c \in Client, Begin(c) \/ Enter(c) \/ Work(c) \/ Crash(c)
    PROVE  Framed(c)
<1> USE DEF TypeOK, Framed, Go, End, Move, local, Return
<1>1. CASE Begin(c) \/ Enter(c) \/ Crash(c)
    BY <1>1 DEF Begin, Enter, EnterPublish, EnterUnpublish, EnterCleanup, Crash
<1>2. CASE Connect(c) \/ Address(c)
    BY <1>2 DEF Connect, Address, Proceed
<1>3. CASE Direct(c) \/ WriteRoute(c) \/ CheckGateway(c) \/ Restore(c) \/ Recover(c)
    BY <1>3 DEF Direct, WriteRoute, CheckGateway, Restore, Recover, Judge
<1>4. CASE Undo(c) \/ Detach(c) \/ RemoveRoute(c) \/ AwaitGone(c) \/ TakeDown(c)
    BY <1>4 DEF Undo, Detach, RemoveRoute, AwaitGone, TakeDown
<1> QED BY <1>1, <1>2, <1>3, <1>4 DEF Work

LEMMA PreparedKept ==
    ASSUME Inv, Harmless, NEW c \in Client, Framed(c), PreparedAt(c)'
    PROVE  Prepared'
<1> SUFFICES ASSUME NEW d \in Client, d # c PROVE PreparedAt(d)'
    BY DEF Prepared
<1>1. /\ PreparedAt(d) /\ TypeOK /\ Placed
      /\ at'[d] = at[d] /\ call'[d] = call[d] /\ old'[d] = old[d] /\ new'[d] = new[d]
    BY DEF Inv, Prepared, Framed
<1>2. old[d] \in Route \cup {None} /\ new[d] \in Route \cup {None}
    BY <1>1 DEF TypeOK
<1>3. Attached(old[d]) => Attached(old[d])'
    BY <1>1, <1>2, StaysAttached DEF Attached
<1>4. Attached(new[d]) => Attached(new[d])'
    BY <1>1, <1>2, StaysAttached DEF Attached
<1>5. at[d] = "address" => call[d].box \in Box
    BY <1>1, Called DEF Placed, Publishing, Ended
<1> QED BY <1>1, <1>3, <1>4, <1>5, NoneDiffers DEF PreparedAt, Attached, Harmless

(* A published candidate names its container and the alias it has. *)
LEMMA CandidateAttached ==
    ASSUME Inv, NEW c \in Client, at[c] \in {"connect", "address"},
           alias[call[c].box] \in Slot
    PROVE  LET r == Candidate(call[c], alias[call[c].box])
           IN  /\ r \in Route /\ r # None
               /\ r.box = call[c].box /\ r.alias = alias[call[c].box]
<1>1. call[c].op = "publish"
    BY DEF Inv, Placed, Publishing
<1>2. call[c].box \in Box /\ call[c].job \in Job /\ call[c].path \in Path
    BY <1>1, Called DEF Inv, Ended
<1>3. Candidate(call[c], alias[call[c].box]) \in Route
    BY <1>2 DEF Candidate, Route
<1> QED BY <1>3, NoneDiffers DEF Candidate

LEMMA PreparedStep == Inv /\ [Next]_vars => Prepared'
<1> SUFFICES ASSUME Inv, [Next]_vars PROVE Prepared'
    OBVIOUS
<1> DEFINE Moves(c) == Begin(c) \/ Enter(c) \/ Work(c) \/ Crash(c)
<1>1. ASSUME NEW c \in Client, Undo(c) \/ Detach(c) PROVE Prepared'
    <2>1. at[c] \in Locked /\ at'[c] \in Ended /\ Framed(c)
        BY <1>1, FramedStep DEF Inv, TypeOK, Undo, Detach, Return, End, Move, Locked, Ended, Work
    <2>2. \A d \in Client : d # c => at[d] \notin Locked
        BY <2>1, Alone DEF Inv
    <2> QED BY <2>1, <2>2 DEF Prepared, PreparedAt, Framed, Locked, Ended
<1> SUFFICES ASSUME ~\E c \in Client : Undo(c) \/ Detach(c) PROVE Prepared'
    BY <1>1
<1>2. Harmless
    BY HarmlessStep
<1>3. ASSUME NEW c \in Client, Moves(c), PreparedAt(c)' PROVE Prepared'
    BY <1>2, <1>3, FramedStep, PreparedKept DEF Inv
<1>4. ASSUME NEW c \in Client, Attached(old[c]), old'[c] = old[c] PROVE Attached(old[c])'
    <2>1. old[c] \in Route \cup {None}
        BY DEF Inv, TypeOK
    <2> QED BY <1>2, <1>4, <2>1, StaysAttached DEF Inv, Attached
<1>5. ASSUME NEW c \in Client, Attached(new[c]), new'[c] = new[c] PROVE Attached(new[c])'
    <2>1. new[c] \in Route \cup {None}
        BY DEF Inv, TypeOK
    <2> QED BY <1>2, <1>5, <2>1, StaysAttached DEF Inv, Attached
<1> USE DEF Go, Move, local, Locked, Ended
<1>6. ASSUME NEW c \in Client, Moves(c), at'[c] \in {"idle", "enter", "down", "recover", "undo", "detach"} \cup Ended
      PROVE  Prepared'
    BY <1>3, <1>6 DEF PreparedAt
<1>7. ASSUME NEW c \in Client, Return(c, "ok") \/ Return(c, "failed") \/ End(c, "ok") \/ End(c, "failed")
                              \/ End(c, "killed")
      PROVE  at'[c] \in Ended
    BY <1>7 DEF Return, End, Inv, TypeOK
<1>8. ASSUME NEW c \in Client, Begin(c) \/ EnterCleanup(c) \/ Recover(c) \/ TakeDown(c) \/ Crash(c)
      PROVE  Prepared'
    <2>1. at'[c] \in {"enter", "down", "undo"} \cup Ended
        BY <1>7, <1>8 DEF Begin, EnterCleanup, Recover, TakeDown, Crash, Inv, TypeOK
    <2> QED BY <1>6, <1>8, <2>1 DEF Enter, Work
<1>9. ASSUME NEW c \in Client, EnterPublish(c) \/ EnterUnpublish(c) PROVE Prepared'
    <2>1. call[c].slot \in Slot
        BY <1>9, Called DEF EnterPublish, EnterUnpublish, Inv
    <2>2. Attached(route[call[c].slot])
        BY <2>1 DEF Inv, Routes
    <2>3. CASE at'[c] \in Ended
        BY <1>6, <1>9, <2>3 DEF Enter
    <2>4. CASE at'[c] \in {"connect", "remove"} /\ old'[c] = route[call[c].slot]
        <3>1. Attached(old[c])'
            BY <1>9, <2>2, <2>4 DEF EnterPublish, EnterUnpublish, Attached
        <3> QED BY <1>3, <1>9, <2>4, <3>1 DEF Enter, PreparedAt
    <2> QED BY <1>7, <1>9, <2>3, <2>4 DEF EnterPublish, EnterUnpublish, Inv, TypeOK
<1>10. ASSUME NEW c \in Client, at[c] \in {"connect", "address"}, Connect(c) \/ Address(c),
              NEW f \in BOOLEAN, Proceed(c, alias[call[c].box], f), alias[call[c].box] \in Slot,
              UNCHANGED <<alias, state>>
       PROVE  Prepared'
    <2>1. CASE at'[c] \in Ended
        BY <1>6, <1>10, <2>1 DEF Work
    <2>2. CASE /\ at'[c] = "direct" /\ old'[c] = old[c]
               /\ new'[c] = Candidate(call[c], alias[call[c].box])
        <3>1. new'[c] # None /\ Attached(new[c])'
            BY <1>10, <2>2, CandidateAttached DEF Attached
        <3>2. Attached(old[c])'
            BY <1>4, <1>10, <2>2 DEF Inv, Prepared, PreparedAt
        <3> QED BY <1>3, <1>10, <2>2, <3>1, <3>2 DEF Work, PreparedAt
    <2> QED BY <1>7, <1>10, <2>1, <2>2 DEF Proceed, Inv, TypeOK
<1>11. ASSUME NEW c \in Client, Connect(c) PROVE Prepared'
    <2>1. call[c].box \in Box /\ call[c].slot \in Slot
        BY <1>11, Called DEF Connect, Placed, Publishing, Inv
    <2>2. CASE Return(c, "failed")
        BY <1>6, <1>7, <1>11, <2>2 DEF Work
    <2>3. CASE Proceed(c, alias[call[c].box], FALSE) /\ alias[call[c].box] # None /\ UNCHANGED alias
        <3>1. alias[call[c].box] \in Slot
            BY <2>1, <2>3 DEF Inv, TypeOK
        <3> QED BY <1>10, <1>11, <2>3, <3>1 DEF Connect
    <2>4. CASE alias' = [alias EXCEPT ![call[c].box] = call[c].slot] /\ Go(c, "address")
        <3>1. at'[c] = "address" /\ alias'[call'[c].box] # None /\ old'[c] = old[c]
            BY <2>1, <2>4, NoneDiffers DEF Inv, TypeOK
        <3>2. Attached(old[c])'
            BY <1>4, <1>11, <3>1 DEF Inv, Prepared, PreparedAt, Connect
        <3> QED BY <1>3, <1>11, <3>1, <3>2 DEF Work, PreparedAt
    <2> QED BY <1>11, <2>2, <2>3, <2>4 DEF Connect
<1>12. ASSUME NEW c \in Client, Address(c) PROVE Prepared'
    <2>1. call[c].box \in Box
        BY <1>12, Called DEF Address, Placed, Publishing, Inv
    <2>2. CASE state[call[c].box] = "up" /\ Proceed(c, alias[call[c].box], TRUE)
        <3>1. alias[call[c].box] \in Slot
            BY <1>12, <2>1, <2>2 DEF Inv, TypeOK, Prepared, PreparedAt, Address
        <3> QED BY <1>10, <1>12, <2>2, <3>1 DEF Address
    <2>3. CASE Return(c, "failed")
        BY <1>6, <1>7, <1>12, <2>3 DEF Work
    <2> QED BY <1>12, <2>2, <2>3 DEF Address
<1>13. ASSUME NEW c \in Client,
              Direct(c) \/ WriteRoute(c) \/ CheckGateway(c) \/ Restore(c) \/ RemoveRoute(c) \/ AwaitGone(c)
       PROVE  Prepared'
    <2>1. CASE at'[c] \in {"recover", "undo", "detach"} \cup Ended
        BY <1>6, <1>13, <2>1 DEF Work
    <2>2. CASE /\ at'[c] \in {"write", "gateway", "restore", "await"}
               /\ old'[c] = old[c] /\ new'[c] = new[c]
               /\ at[c] \in {"direct", "write", "gateway", "restore", "remove", "await"}
               /\ at'[c] = "write" => at[c] = "direct"
        <3>1. Attached(old[c])'
            BY <1>4, <2>2 DEF Inv, Prepared, PreparedAt
        <3>2. at'[c] = "write" => new'[c] # None /\ Attached(new[c])'
            BY <1>5, <2>2 DEF Inv, Prepared, PreparedAt
        <3> QED BY <1>3, <1>13, <2>2, <3>1, <3>2 DEF Work, PreparedAt
    <2>3. CASE Direct(c)
        <3>1. PICK reply \in Replies(call[c].box) : Judge(c, reply, "write")
            BY <2>3 DEF Direct
        <3> QED BY <1>7, <2>1, <2>2, <2>3, <3>1 DEF Direct, Judge, Inv, TypeOK
    <2>4. CASE CheckGateway(c)
        <3>1. PICK reply \in Served(call[c].slot) : Judge(c, reply, "detach")
            BY <2>4 DEF CheckGateway
        <3> QED BY <1>7, <2>1, <2>2, <2>4, <3>1 DEF CheckGateway, Judge, Inv, TypeOK
    <2>5. CASE WriteRoute(c) \/ Restore(c) \/ RemoveRoute(c) \/ AwaitGone(c)
        BY <1>7, <2>1, <2>2, <2>5 DEF WriteRoute, Restore, RemoveRoute, AwaitGone, Inv, TypeOK
    <2> QED BY <1>13, <2>3, <2>4, <2>5
<1>14. CASE UNCHANGED <<at, call, old, new>>
    <2> SUFFICES ASSUME NEW c \in Client PROVE PreparedAt(c)'
        BY DEF Prepared
    <2>1. (Attached(old[c]) => Attached(old[c])') /\ (Attached(new[c]) => Attached(new[c])')
        BY <1>4, <1>5, <1>14
    <2>2. at[c] = "address" => call[c].box \in Box
        BY Called DEF Inv, Placed, Publishing
    <2> QED BY <1>2, <1>14, <2>1, <2>2, NoneDiffers DEF Inv, Prepared, PreparedAt, Harmless
<1> QED
    BY <1>8, <1>9, <1>11, <1>12, <1>13, <1>14 DEF Next, Enter, Work, Reload, Stop, Restart, Remove, vars

LEMMA RoutesStep == Inv /\ [Next]_vars => Routes'
<1> SUFFICES ASSUME Inv, [Next]_vars PROVE Routes'
    OBVIOUS
<1>1. ASSUME NEW c \in Client, Undo(c) \/ Detach(c) PROVE Routes'
    <2>1. UNCHANGED <<route, state>>
        BY <1>1 DEF Undo, Detach
    <2>2. PICK b : /\ ~Routed(b)
                   /\ alias' = alias \/ alias' = [alias EXCEPT ![b] = None]
        <3>1. CASE UNCHANGED alias /\ \E b : ~Routed(b)
            BY <3>1
        <3>2. CASE UNCHANGED alias /\ \A b : Routed(b)
            <4>1. Routed(None) => \E s \in Slot : route[s] \in Route /\ route[s].box = None
                BY DEF Routed, Inv, TypeOK
            <4> QED BY <3>2, <4>1, NoneAssumption DEF Route
        <3>3. CASE Undo(c) /\ alias' # alias
            BY <3>3 DEF Undo
        <3>4. CASE Detach(c) /\ alias' # alias
            BY <3>4 DEF Detach
        <3> QED BY <1>1, <3>1, <3>2, <3>3, <3>4
    <2> SUFFICES ASSUME NEW s \in Slot PROVE Attached(route[s])'
        BY DEF Routes
    <2>3. Attached(route[s]) /\ route[s] \in Route \cup {None}
        BY DEF Inv, TypeOK, Routes
    <2>4. route[s] # None => route[s].box \in Box /\ route[s].box # b
        BY <2>2, <2>3 DEF Routed, Route
    <2> QED BY <2>1, <2>2, <2>3, <2>4 DEF Attached, Inv, TypeOK
<1> SUFFICES ASSUME ~\E c \in Client : Undo(c) \/ Detach(c) PROVE Routes'
    BY <1>1
<1>2. Harmless
    BY HarmlessStep
<1>3. ASSUME NEW r \in Route \cup {None}, Attached(r), NEW s \in Slot, route'[s] = r
      PROVE  Attached(route[s])'
    BY <1>2, <1>3, StaysAttached DEF Inv, Attached
<1>4. CASE UNCHANGED route
    BY <1>3, <1>4 DEF Inv, TypeOK, Routes
<1>5. ASSUME NEW c \in Client, NEW r \in Route \cup {None}, Attached(r),
             route' = [route EXCEPT ![call[c].slot] = r]
      PROVE  Routes'
    BY <1>3, <1>5 DEF Inv, TypeOK, Routes
<1>6. ASSUME NEW c \in Client, WriteRoute(c) PROVE Routes'
    BY <1>5, <1>6 DEF WriteRoute, Inv, TypeOK, Prepared, PreparedAt
<1>7. ASSUME NEW c \in Client, Restore(c) PROVE Routes'
    BY <1>5, <1>7 DEF Restore, Inv, TypeOK, Prepared, PreparedAt
<1>8. ASSUME NEW c \in Client, RemoveRoute(c) PROVE Routes'
    BY <1>5, <1>8 DEF RemoveRoute, Attached
<1>9. ASSUME NEW c \in Client, AwaitGone(c) PROVE Routes'
    BY <1>4, <1>5, <1>9 DEF AwaitGone, Inv, TypeOK, Prepared, PreparedAt
<1> QED
    BY <1>4, <1>6, <1>7, <1>8, <1>9
    DEF Next, Enter, Work, Begin, EnterPublish, EnterUnpublish, EnterCleanup, Connect, Address,
        Direct, CheckGateway, Recover, TakeDown, Crash, Reload, Stop, Restart, Remove, vars

LEMMA InvStep == Inv /\ [Next]_vars => Inv'
BY TypeStep, PlacedStep, InformedStep, PreparedStep, RoutesStep DEF Inv

LEMMA Invariance == Spec => []Inv
<1>1. Inv /\ [Next]_vars => Inv'
    BY InvStep
<1> QED BY InitInv, <1>1, PTL DEF Spec

(* A route file disappears by Restore or RemoveRoute only. *)
LEMMA EmptyingStep ==
    ASSUME Inv, [Next]_vars, NEW s \in Slot, route[s] # None, route'[s] = None
    PROVE  \E c \in Client :
             /\ lock = c /\ call[c].slot = s
             /\ \/ call[c].op = "unpublish" /\ call[c].job = route[s].job
                \/ call[c].op = "publish" /\ new[c] = route[s] /\ old[c] = None
<1>1. PICK c \in Client : WriteRoute(c) \/ Restore(c) \/ RemoveRoute(c) \/ AwaitGone(c)
    BY DEF Next, Enter, Work, Begin, EnterPublish, EnterUnpublish, EnterCleanup, Connect, Address,
           Direct, CheckGateway, Recover, Undo, Detach, TakeDown, Crash, Reload, Stop, Restart,
           Remove, vars
<1>2. lock = c /\ call[c].slot = s
    BY <1>1 DEF Inv, TypeOK, Placed, Locked, WriteRoute, Restore, RemoveRoute, AwaitGone
<1>3. CASE WriteRoute(c)
    BY <1>2, <1>3 DEF WriteRoute, Inv, TypeOK, Prepared, PreparedAt
<1>4. CASE Restore(c)
    <2>1. old[c] = None
        BY <1>2, <1>4 DEF Restore, Inv, TypeOK
    <2> QED BY <1>2, <1>4, <2>1 DEF Restore, Inv, Placed, Publishing, Informed
<1>5. CASE RemoveRoute(c)
    BY <1>2, <1>5 DEF RemoveRoute, Inv, Placed, Informed
<1>6. CASE AwaitGone(c)
    BY <1>2, <1>6 DEF AwaitGone, Inv, Informed
<1> QED BY <1>1, <1>3, <1>4, <1>5, <1>6

-------------------------------------------------------------------------------
(* The registry's variables keep their types. *)
THEOREM RegistryTyped == Spec => []TypeOK
BY Invariance, PTL DEF Inv

(* Whatever publish, unpublish and cleanup do at the same time, wherever they  *)
(* are killed and however services answer, a container that a route names and  *)
(* that still exists is attached under the alias in the route.                 *)
THEOREM RoutedStayAttached == Spec => []RoutedIsAttached
<1>1. Inv => RoutedIsAttached
    BY DEF Inv, Routes, Attached, RoutedIsAttached
<1> QED BY Invariance, <1>1, PTL

(* A route file is removed by its owner's unpublish or by the rollback of the  *)
(* first publish of its slot, and by nothing else.                             *)
THEOREM SlotsAreKept == Spec => OnlyOwnerEmpties
<1>1. Inv /\ [Next]_vars =>
        [\A s \in Slot : route[s] # None /\ route'[s] = None =>
            \E c \in Client :
               /\ lock = c /\ call[c].slot = s
               /\ \/ call[c].op = "unpublish" /\ call[c].job = route[s].job
                  \/ call[c].op = "publish" /\ new[c] = route[s] /\ old[c] = None]_vars
    BY EmptyingStep
<1> QED BY Invariance, <1>1, PTL DEF Spec, OnlyOwnerEmpties
===============================================================================
