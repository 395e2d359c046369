------------------------------- MODULE JobStore -------------------------------
(* The life of one job record below <remote-root>/jobs/<job>, as job_store.py  *)
(* keeps it: which states the "status" file can hold, which changes the store  *)
(* accepts, and when a record counts as existing.  "absent" is a job without   *)
(* a directory and "partial" one whose directory exists but whose "status"     *)
(* file is not written yet; both are seen only from outside the file.          *)

(* The states transition() never leaves. *)
FinalStates == {"passed", "failed", "cancelled"}

States == FinalStates \cup {"absent", "partial", "preparing", "queued", "running"}

(* TRANSITIONS.get(old, frozenset()): what may replace each state. *)
Successors(old) ==
    CASE old = "preparing" -> {"queued", "failed", "cancelled"}
      [] old = "queued"    -> {"running", "failed", "cancelled"}
      [] old = "running"   -> FinalStates
      [] OTHER             -> {}

(* The check in transition() between reading "status" and writing it. *)
Allowed(old, new) == new \in Successors(old)

(* exists(): both metadata.json and status are there. *)
Exists(state) == state \notin {"absent", "partial"}
===============================================================================
