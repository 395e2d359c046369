------------------------------ MODULE MCLogStream -----------------------------
(* Instances of LogStream for TLC: a job that is reserved, executed, followed  *)
(* and cancelled, and another that holds the only permit.                      *)
EXTENDS LogStream, TLC

CONSTANTS a, b,             \* jobs
          c1, c2, c3, c4    \* server commands

HeavyAndExclusive == (a :> "exclusive") @@ (b :> "heavy")
OneHeavy == a :> "heavy"
NoSessionAB == (a :> NoSession) @@ (b :> NoSession)
NoSessionA == a :> NoSession
(* Only the log of a is looked at. *)
OneLine == a :> 1
OneLineAndNone == (a :> 1) @@ (b :> 0)
(* A job is started; it is cancelled, or another one is reserved, executed and *)
(* cancelled.                                                                  *)
StreamAndCancel == (c1 :> {<<"start", b>>})
                     @@ (c2 :> {<<"reserve", a>>, <<"cancel", b>>})
                     @@ (c3 :> {<<"execute", a>>}) @@ (c4 :> {<<"cancel", a>>})
InTurn == (c1 :> {}) @@ (c2 :> {c1}) @@ (c3 :> {c2}) @@ (c4 :> {c3})
FirstThenSecond == (c1 :> {}) @@ (c2 :> {c1})
ReserveAndExecute == (c1 :> {<<"reserve", a>>}) @@ (c2 :> {<<"execute", a>>})
===============================================================================
