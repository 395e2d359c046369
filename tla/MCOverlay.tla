------------------------------- MODULE MCOverlay ------------------------------
(* Instances of Overlay for TLC: two files with two contents each.             *)
EXTENDS Overlay, TLC

CONSTANTS p, q,   \* files
          v, w    \* contents

Alike == Permutations({p, q}) \cup Permutations({v, w})
===============================================================================
