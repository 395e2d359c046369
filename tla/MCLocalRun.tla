------------------------------ MODULE MCLocalRun ------------------------------
(* An instance of LocalRun for TLC: two runs for one job, and a user.          *)
EXTENDS LocalRun, TLC

CONSTANTS a,         \* the job
          r1, r2,    \* runs
          user       \* "trie-run cancel" in another terminal

OneHeavy == a :> "heavy"
NoSessionA == a :> NoSession
BothForA == (r1 :> a) @@ (r2 :> a)

Commands == ({r1, r2} \X Calls) \cup {user}
CommandOps == [c \in Commands |-> IF c = user THEN {<<"cancel", a>>} ELSE {<<c[2], a>>}]
AnyProcess == {a} \cup Commands
Twins == Permutations({r1, r2})
===============================================================================
