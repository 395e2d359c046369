--------------------------- MODULE MCPreviewRegistry ---------------------------
(* Instances of PreviewRegistry for TLC.                                        *)
EXTENDS PreviewRegistry, TLC

CONSTANTS s1, s2, b1, b2, j1, j2, c1, c2, c3, p1, p2

OneEach == (b1 :> j1) @@ (b2 :> j2)
BothSlots == (j1 :> Slot) @@ (j2 :> Slot)

Of(op, boxes, slots, paths) ==
    {[op |-> op, job |-> Owner[b], slot |-> s, box |-> IF op = "publish" THEN b ELSE None,
      path |-> p] : b \in boxes, s \in slots, p \in paths}

Publishing == Of("publish", Box, Slot, {p1})
Withdrawing == Of("unpublish", Box, Slot, {p1})
Cleaning == Of("cleanup", Box, {s1}, {p1})

(* Every call may be anything. *)
Anything == [c \in Client |-> Publishing \cup Withdrawing \cup Cleaning]
CallSymmetry == Permutations(Client)
(* No cleanup; the last publisher may change the check path. *)
Handoffs == (c1 :> Publishing) @@ (c2 :> Publishing \cup Withdrawing)
              @@ (c3 :> Of("publish", Box, Slot, Path) \cup Withdrawing)
===============================================================================
