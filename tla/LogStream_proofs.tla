--------------------------- MODULE LogStream_proofs ---------------------------
(* Theorems about LogStream: the loop that reads log and status in turns is    *)
(* the one step in which a command of JobLifecycle follows its job, so that    *)
(* what is proved there holds of the streams, and of what is written to a log. *)
EXTENDS LogStream, JobLifecycle_proofs

(* A line, a reading of the log and one of a status that is not final are      *)
(* nothing to JobLifecycle; all other steps are its own.                       *)
LEMMA StreamStep ==
    ASSUME [StreamNext]_streamVars
    PROVE  [Next]_vars
<1>1. ASSUME NEW j \in Job, WriteLine(j) PROVE UNCHANGED vars
  BY <1>1 DEF WriteLine
<1>2. ASSUME NEW c \in Client, Show(c) PROVE UNCHANGED vars
  BY <1>2 DEF Show
<1>3. ASSUME NEW c \in Client, Check(c) PROVE [Next]_vars
  <2>1. CASE JobOf(c) \in Finished
    <3>1. ClientStep(c)
      BY <1>3, <2>1 DEF Check, ClientStep
    <3> QED
      BY <3>1 DEF Next
  <2>2. CASE JobOf(c) \notin Finished
    BY <1>3, <2>2 DEF Check
  <2> QED
    BY <2>1, <2>2
<1>4. ASSUME NEW j \in Job, JobStep(j) PROVE Next
  BY <1>4 DEF Next
<1>5. ASSUME NEW c \in Client, BeginClient(c) \/ ClientStep(c) \/ Drop(c) PROVE Next
  BY <1>5 DEF BeginClient, Next
<1>6. CASE Others
  BY <1>6 DEF Next
<1>7. CASE UNCHANGED streamVars
  BY <1>7 DEF streamVars
<1> QED
  BY <1>1, <1>2, <1>3, <1>4, <1>5, <1>6, <1>7 DEF StreamNext, Stream

(* Streaming is following: every behaviour of the detailed loop is one of the  *)
(* runner of JobLifecycle, whatever the order of the commands.                 *)
THEOREM StreamIsLifecycle == StreamSpec => Spec
<1>1. StreamInit => Init
  BY DEF StreamInit
<1> QED
  BY <1>1, StreamStep, PTL DEF StreamSpec, Spec

(* Who may write a line has a job that is not final, unless the command's own  *)
(* process has left it running.                                                *)
LEMMA WriterIsUnfinished ==
    ASSUME ControlInv, SerialInv, NEW j \in Job, WriteLine(j), command[j] # "left"
    PROVE  status[j] \notin FinalStates
<1>1. CASE command[j] \in {"running", "stopping"}
  BY <1>1 DEF SerialInv, Commanded, FinalStates
<1>2. CASE phase[j] \in {"setupFailed", "spawn", "watch"}
  BY <1>2 DEF SerialInv, Recorded, FinalStates
<1> QED
  BY <1>1, <1>2 DEF WriteLine

LEMMA LogStep ==
    ASSUME ControlInv, SerialInv, [StreamNext]_streamVars
    PROVE  [\A j \in Finished : written'[j] # written[j] => command[j] = "left"]_streamVars
<1>1. ASSUME NEW k \in Job, WriteLine(k)
      PROVE  \A j \in Finished : written'[j] # written[j] => command[j] = "left"
  <2>1. k \in Finished => command[k] = "left"
    BY <1>1, WriterIsUnfinished DEF Finished
  <2>2. \A j \in Job \ {k} : written'[j] = written[j]
    BY <1>1 DEF WriteLine
  <2> QED
    BY <2>1, <2>2 DEF Finished
<1>2. CASE UNCHANGED written
  BY <1>2
<1> QED
  BY <1>1, <1>2 DEF StreamNext, Stream, Show, Check, logVars, streamVars

(* However a job became final, neither its worker nor the process started for  *)
(* its command writes to the log any more, also when the worker was killed and *)
(* systemd had to stop the command: who reads the log of a final job misses    *)
(* only lines of what that process has left running.                           *)
THEOREM FinalLogStays == Serial => (StreamSpec => FinalLogIsWhole)
<1> SUFFICES ASSUME Serial PROVE StreamSpec => FinalLogIsWhole
  OBVIOUS
<1>1. StreamInit => ControlInv /\ SerialInv
  BY ControlBegins, SerialBegins DEF StreamInit
<1>2. ControlInv /\ SerialInv /\ [StreamNext]_streamVars => ControlInv' /\ SerialInv'
  BY StreamStep, ControlStep, SerialStep
<1>3. ControlInv /\ SerialInv /\ [StreamNext]_streamVars
        => [\A j \in Finished : written'[j] # written[j] => command[j] = "left"]_streamVars
  BY LogStep
<1> QED
  BY <1>1, <1>2, <1>3, PTL DEF StreamSpec, FinalLogIsWhole
===============================================================================
