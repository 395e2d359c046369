---------------------------- MODULE MCResourcePool ----------------------------
(* Instances of ResourcePool for TLC.                                          *)
EXTENDS ResourcePool, TLC

CONSTANTS a, b, c,     \* jobs
          s1, s2       \* sessions

(* A heavy job, an exclusive one and a newer heavy one of the first's session. *)
MixedWeight == (a :> "heavy") @@ (b :> "exclusive") @@ (c :> "heavy")
MixedSession == (a :> s1) @@ (b :> s2) @@ (c :> s1)

(* A heavy and an exclusive job of two sessions. *)
PairWeight == (a :> "heavy") @@ (b :> "exclusive")
PairSession == (a :> s1) @@ (b :> s2)
===============================================================================
