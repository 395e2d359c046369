---------------------------- MODULE MCJobLifecycle ----------------------------
(* Instances of JobLifecycle for TLC.                                          *)
EXTENDS JobLifecycle, TLC

CONSTANTS a, b,          \* jobs
          c1, c2, c3     \* server commands

OneHeavy == a :> "heavy"
HeavyAndExclusive == (a :> "heavy") @@ (b :> "exclusive")
NoSessionA == a :> NoSession
OneSession == (a :> "work") @@ (b :> "work")
NoSessionAB == (a :> NoSession) @@ (b :> NoSession)

(* The first command may be anything for a; the second starts or follows a job; *)
(* the third cancels one or is a repeated start.                                *)
AnyThenCancel == (c1 :> {"reserve", "start", "execute", "cancel"} \X {a})
                   @@ (c2 :> {<<"start", b>>, <<"execute", a>>})
                   @@ (c3 :> {<<"cancel", a>>, <<"cancel", b>>, <<"start", a>>})
StartAndCancel == (c1 :> {<<"start", a>>}) @@ (c2 :> {<<"cancel", a>>})
===============================================================================
