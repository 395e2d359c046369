------------------------------- MODULE FifoPool -------------------------------
(* What the resource pool promises, without tickets, locks or slot files:      *)
(* weighted jobs wait in one line, the line is left only by admission from its *)
(* front or by a job that has a reason to go, and the admitted jobs fit.       *)
EXTENDS FiniteSets, Naturals

CONSTANTS Job,        \* heavy and exclusive jobs
          Exclusive,  \* the jobs that must run alone
          Capacity    \* heavy jobs that may run together

VARIABLES waiting,    \* jobs in the line
          ahead,      \* ahead[j]: the jobs that were in the line before j
          active,     \* admitted jobs that have not concluded
          excused     \* jobs that may leave the line without being admitted

fifoVars == <<waiting, ahead, active, excused>>

FifoInit ==
    /\ waiting = {}
    /\ ahead = [j \in Job |-> {}]
    /\ active = {}
    /\ excused \in SUBSET Job

(* Whether j may run beside the jobs that are admitted already. *)
Fits(j) ==
    IF j \in Exclusive
    THEN active = {}
    ELSE active \cap Exclusive = {} /\ Cardinality(active) < Capacity

(* Some excused jobs step out; the order of the others is what it was. *)
StepOut(S) ==
    /\ excused' \in SUBSET Job /\ S \subseteq excused'
    /\ waiting' = waiting \ S
    /\ ahead' = [k \in Job |-> IF k \in S THEN {} ELSE ahead[k] \ S]

Leave(S) ==
    /\ S # {} /\ S \subseteq waiting
    /\ StepOut(S)
    /\ UNCHANGED active

(* j goes to the end of the line, once the jobs in S, perhaps j among them,    *)
(* have left it.                                                               *)
Join(j, S) ==
    LET rest == waiting \ S
    IN /\ j \notin rest \cup active
       /\ S \subseteq waiting
       /\ excused' \in SUBSET Job /\ S \subseteq excused'
       /\ waiting' = rest \cup {j}
       /\ ahead' = [k \in Job |-> IF k = j THEN rest
                                  ELSE IF k \in S THEN {} ELSE ahead[k] \ S]
       /\ UNCHANGED active

(* The front of the line is admitted. *)
Admit(j) ==
    /\ j \in waiting /\ ahead[j] = {} /\ Fits(j)
    /\ waiting' = waiting \ {j}
    /\ ahead' = [k \in Job |-> ahead[k] \ {j}]
    /\ active' = active \cup {j}
    /\ UNCHANGED excused

Conclude(j) ==
    /\ j \in active
    /\ active' = active \ {j}
    /\ UNCHANGED <<waiting, ahead, excused>>

(* A job gets, or loses, a reason to go. *)
Excuse == excused' \in SUBSET Job /\ UNCHANGED <<waiting, ahead, active>>

FifoNext ==
    \/ Excuse
    \/ \E S \in SUBSET waiting : Leave(S)
    \/ \E j \in Job : \/ \E S \in SUBSET waiting : Join(j, S)
                      \/ Admit(j)
                      \/ Conclude(j)

FifoSpec == FifoInit /\ [][FifoNext]_fifoVars
===============================================================================
