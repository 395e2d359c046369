---------------------------- MODULE PreviewRegistry ----------------------------
(* Stable preview slots (preview_registry.py): publish, unpublish and the check *)
(* that cleanup makes (server_cli.py).  The route file of a slot says which     *)
(* container serves it; the gateway (Traefik) loads the file some time later;   *)
(* a routed container has to be attached to the edge network.  Calls hold one   *)
(* file lock, containers come and go without it.                                *)

CONSTANTS
    Slot, Box, Job, Path,  \* slots, containers, jobs, check paths (with the port)
    Client, None,          \* registry calls that are ever made, each once (a bound)
    Owner,                 \* Owner[b]: the job with b in a recorded Compose project
    Granted,               \* Granted[j]: the slots of the repositories j reserved
    Request,               \* Request[c]: the calls c may be; cleanup of final jobs only
    Mortal,                \* calls that may be killed at any step
    Ends,                  \* what may become of a container: "down", "gone"
    Faults                 \* how a service may answer: "bad" (an HTTP or socket
                           \* error), "garbage" (no HTTP: an uncaught HTTPException)

Call == [op : {"publish", "unpublish", "cleanup"}, job : Job, slot : Slot,
         box : Box \cup {None}, path : Path]

Route == [job : Job, box : Box, path : Path, alias : Slot]

ASSUME OwnerAssumption == Owner \in [Box -> Job]
ASSUME GrantedAssumption == Granted \in [Job -> SUBSET Slot]
ASSUME RequestAssumption == Request \in [Client -> SUBSET Call]
ASSUME PublishAssumption ==
    \A c \in Client : \A r \in Request[c] : r.op = "publish" <=> r.box \in Box
ASSUME MortalAssumption == Mortal \subseteq Client
ASSUME EndsAssumption == Ends \subseteq {"down", "gone"}
ASSUME FaultsAssumption == Faults \subseteq {"bad", "garbage"}
ASSUME NoneAssumption == None \notin Slot \cup Box \cup Client \cup Route

VARIABLES
    route,    \* route[s]: the route file of s
    seen,     \* seen[s]: the route of s the gateway has loaded
    alias,    \* alias[b]: the slot in b's network alias, None: b is not attached
    state,    \* state[b]: of the container b
    lock,     \* holder of preview.lock
    cleaned,  \* jobs whose workspace cleanup has removed
    at,       \* at[c]: where the call c is
    call,     \* call[c]: what it was made for
    old, new, \* its local variables: the route it found and its candidate,
    fresh     \* and whether it attached the container

local == <<call, old, new, fresh>>
vars == <<route, seen, alias, state, lock, cleaned, at, local>>

(* Mutation: the route names the container, not its alias. *)
CandidateNamed(r, a) ==
    [job |-> r.job, box |-> r.box, path |-> r.path, alias |-> r.box]

Candidate(r, a) == [job |-> r.job, box |-> r.box, path |-> r.path, alias |-> a]

Locked == {"connect", "address", "direct", "write", "gateway", "restore", "recover",
           "undo", "detach", "remove", "await"}
Ended == {"ok", "failed", "killed"}
Place == {"idle", "enter", "down"} \cup Locked \cup Ended

TypeOK ==
    /\ route \in [Slot -> Route \cup {None}]
    /\ seen \in [Slot -> Route \cup {None}]
    /\ alias \in [Box -> Slot \cup {None}]
    /\ state \in [Box -> {"up", "down", "gone"}]
    /\ lock \in Client \cup {None}
    /\ cleaned \subseteq Job
    /\ at \in [Client -> Place]
    /\ call \in [Client -> Call \cup {None}]
    /\ old \in [Client -> Route \cup {None}]
    /\ new \in [Client -> Route \cup {None}]
    /\ fresh \in [Client -> BOOLEAN]

Init ==
    /\ route = [s \in Slot |-> None]
    /\ seen = [s \in Slot |-> None]
    /\ alias = [b \in Box |-> None]
    /\ state = [b \in Box |-> "up"]
    /\ lock = None
    /\ cleaned = {}
    /\ at = [c \in Client |-> "idle"]
    /\ call = [c \in Client |-> None]
    /\ old = [c \in Client |-> None]
    /\ new = [c \in Client |-> None]
    /\ fresh = [c \in Client |-> FALSE]

-------------------------------------------------------------------------------

Move(c, place) == at' = [at EXCEPT ![c] = place]
Go(c, place) == Move(c, place) /\ UNCHANGED local

End(c, outcome) ==
    /\ Move(c, outcome)
    /\ call' = [call EXCEPT ![c] = None]
    /\ old' = [old EXCEPT ![c] = None]
    /\ new' = [new EXCEPT ![c] = None]
    /\ fresh' = [fresh EXCEPT ![c] = FALSE]

(* Mutation: the lock is not given back. *)
ReturnLocked(c, outcome) == End(c, outcome) /\ UNCHANGED lock

(* A result or an exception leaves the locked section. *)
Return(c, outcome) == End(c, outcome) /\ lock' = None

(* Mutation: other slots are not looked at. *)
RoutedNever(b) == FALSE

(* _disconnect_if_unused keeps a container that any route names. *)
Routed(b) == \E s \in Slot : route[s] # None /\ route[s].box = b

(* The answer of a container asked directly, and of the gateway asked for s:   *)
(* 404, "missing", is the gateway's own or the answer of the service itself.   *)
Replies(b) == IF state[b] = "up" THEN {"ok"} \cup Faults ELSE {"bad"}

Served(s) ==
    IF seen[s] = None THEN {"missing", "bad"}
    ELSE IF alias[seen[s].box] = seen[s].alias /\ state[seen[s].box] = "up"
         THEN {"missing"} \cup Replies(seen[s].box)
    ELSE {"bad"}

Begin(c) ==
    /\ at[c] = "idle"
    /\ Move(c, "enter")
    /\ \E r \in Request[c] : call' = [call EXCEPT ![c] = r]
    /\ UNCHANGED <<route, seen, alias, state, lock, cleaned, old, new, fresh>>

-------------------------------------------------------------------------------
(* publish *)

Publishable(r) ==
    r.slot \in Granted[r.job] /\ Owner[r.box] = r.job /\ state[r.box] = "up"

(* Take the lock, check the request, find the container, read the old route. *)
EnterPublish(c) ==
    /\ at[c] = "enter" /\ call[c].op = "publish" /\ lock = None
    /\ IF Publishable(call[c])
       THEN /\ lock' = c
            /\ Move(c, "connect")
            /\ old' = [old EXCEPT ![c] = route[call[c].slot]]
            /\ UNCHANGED <<call, new, fresh>>
       ELSE Return(c, "failed")
    /\ UNCHANGED <<route, seen, alias, state, cleaned>>

(* A route that is published already as it is asked for is the result. *)
Proceed(c, a, connected) ==
    IF Candidate(call[c], a) = old[c]
    THEN Return(c, "ok")
    ELSE /\ Move(c, "direct")
         /\ new' = [new EXCEPT ![c] = Candidate(call[c], a)]
         /\ fresh' = [fresh EXCEPT ![c] = connected]
         /\ UNCHANGED <<call, old, lock>>

(* _connect_candidate: keep an attachment with its alias, or make one. *)
Connect(c) ==
    LET b == call[c].box
    IN  /\ at[c] = "connect"
        /\ \/ /\ state[b] = "gone" \/ (state[b] = "down" /\ alias[b] # None)
              /\ Return(c, "failed")
              /\ UNCHANGED alias
           \/ /\ state[b] = "up" /\ alias[b] # None
              /\ Proceed(c, alias[b], FALSE)
              /\ UNCHANGED alias
           \/ /\ state[b] # "gone" /\ alias[b] = None
              /\ alias' = [alias EXCEPT ![b] = call[c].slot]
              /\ Go(c, "address")
              /\ UNCHANGED lock
        /\ UNCHANGED <<route, seen, state, cleaned>>

(* Its second half: a new attachment must have an address. *)
Address(c) ==
    /\ at[c] = "address"
    /\ IF state[call[c].box] = "up"
       THEN Proceed(c, alias[call[c].box], TRUE)
       ELSE Return(c, "failed")
    /\ UNCHANGED <<route, seen, alias, state, cleaned>>

(* Where a check leads: on, into the rollback, or past every handler. *)
Judge(c, reply, next) ==
    CASE reply = "ok"      -> Go(c, next) /\ UNCHANGED lock
      [] reply = "garbage" -> Return(c, "failed")
      [] OTHER             -> Go(c, "restore") /\ UNCHANGED lock

Direct(c) ==
    /\ at[c] = "direct"
    /\ \E reply \in Replies(call[c].box) : Judge(c, reply, "write")
    /\ UNCHANGED <<route, seen, alias, state, cleaned>>

WriteRoute(c) ==
    /\ at[c] = "write"
    /\ route' = [route EXCEPT ![call[c].slot] = new[c]]
    /\ Go(c, "gateway")
    /\ UNCHANGED <<seen, alias, state, lock, cleaned>>

(* _gateway_status: success and 5xx end the polling, so do 20 attempts. *)
CheckGateway(c) ==
    /\ at[c] = "gateway"
    /\ \E reply \in Served(call[c].slot) : Judge(c, reply, "detach")
    /\ UNCHANGED <<route, seen, alias, state, cleaned>>

(* Mutation: the rollback removes the route. *)
RestoreNothing(c) ==
    /\ at[c] = "restore"
    /\ route' = [route EXCEPT ![call[c].slot] = None]
    /\ Go(c, "undo")
    /\ UNCHANGED <<seen, alias, state, lock, cleaned>>

Restore(c) ==
    /\ at[c] = "restore"
    /\ route' = [route EXCEPT ![call[c].slot] = old[c]]
    /\ Go(c, IF old[c] = None THEN "undo" ELSE "recover")
    /\ UNCHANGED <<seen, alias, state, lock, cleaned>>

(* The wait for the old route; its result is not looked at. *)
Recover(c) ==
    /\ at[c] = "recover"
    /\ \E reply \in Served(call[c].slot) :
         IF reply = "garbage" THEN Return(c, "failed") ELSE Go(c, "undo") /\ UNCHANGED lock
    /\ UNCHANGED <<route, seen, alias, state, cleaned>>

(* Mutation: a failed candidate stays attached. *)
UndoNothing(c) ==
    /\ at[c] = "undo"
    /\ Return(c, "failed")
    /\ UNCHANGED <<route, seen, alias, state, cleaned>>

Undo(c) ==
    LET b == call[c].box
    IN  /\ at[c] = "undo"
        /\ alias' = IF fresh[c] /\ ~Routed(b) THEN [alias EXCEPT ![b] = None] ELSE alias
        /\ Return(c, "failed")
        /\ UNCHANGED <<route, seen, state, cleaned>>

(* The replaced or removed route's container, unless in use; docker refuses    *)
(* to disconnect what is gone or not attached.                                 *)
Detach(c) ==
    /\ at[c] = "detach"
    /\ IF old[c] # None /\ old[c].box # call[c].box /\ ~Routed(old[c].box)
       THEN /\ alias' = [alias EXCEPT ![old[c].box] = None]
            /\ Return(c, IF alias[old[c].box] = None THEN "failed" ELSE "ok")
       ELSE Return(c, "ok") /\ UNCHANGED alias
    /\ UNCHANGED <<route, seen, state, cleaned>>

-------------------------------------------------------------------------------
(* unpublish and cleanup *)

(* Mutation: anybody may unpublish. *)
EnterUnpublishAny(c) ==
    /\ at[c] = "enter" /\ call[c].op = "unpublish" /\ lock = None
    /\ IF route[call[c].slot] # None
       THEN /\ lock' = c
            /\ Move(c, "remove")
            /\ old' = [old EXCEPT ![c] = route[call[c].slot]]
            /\ UNCHANGED <<call, new, fresh>>
       ELSE Return(c, "failed")
    /\ UNCHANGED <<route, seen, alias, state, cleaned>>

EnterUnpublish(c) ==
    /\ at[c] = "enter" /\ call[c].op = "unpublish" /\ lock = None
    /\ IF route[call[c].slot] # None /\ route[call[c].slot].job = call[c].job
       THEN /\ lock' = c
            /\ Move(c, "remove")
            /\ old' = [old EXCEPT ![c] = route[call[c].slot]]
            /\ UNCHANGED <<call, new, fresh>>
       ELSE Return(c, "failed")
    /\ UNCHANGED <<route, seen, alias, state, cleaned>>

RemoveRoute(c) ==
    /\ at[c] = "remove"
    /\ route' = [route EXCEPT ![call[c].slot] = None]
    /\ Go(c, "await")
    /\ UNCHANGED <<seen, alias, state, lock, cleaned>>

(* The gateway must answer 404, or the route comes back.  That the 404 may be  *)
(* the service's, its route still loaded, is not noticed.                      *)
AwaitGone(c) ==
    /\ at[c] = "await"
    /\ \E reply \in Served(call[c].slot) :
         CASE reply = "missing" -> Go(c, "detach") /\ UNCHANGED <<route, lock>>
           [] reply = "garbage" -> Return(c, "failed") /\ UNCHANGED route
           [] OTHER             -> /\ Return(c, "failed")
                                   /\ route' = [route EXCEPT ![call[c].slot] = old[c]]
    /\ UNCHANGED <<seen, alias, state, cleaned>>

(* assert_cleanup_allowed takes the lock and gives it back. *)
EnterCleanup(c) ==
    /\ at[c] = "enter" /\ call[c].op = "cleanup" /\ lock = None
    /\ IF \E s \in Slot : route[s] # None /\ route[s].job = call[c].job
       THEN End(c, "failed")
       ELSE Go(c, "down")
    /\ UNCHANGED <<route, seen, alias, state, lock, cleaned>>

(* docker compose down of each recorded project, if there is a workspace to    *)
(* run it in, each of which may fail unnoticed; then the workspace goes.       *)
TakeDown(c) ==
    LET j == call[c].job
    IN  /\ at[c] = "down"
        /\ \E down \in SUBSET (IF j \in cleaned THEN {} ELSE {b \in Box : Owner[b] = j}) :
             /\ state' = [b \in Box |-> IF b \in down THEN "gone" ELSE state[b]]
             /\ alias' = [b \in Box |-> IF b \in down THEN None ELSE alias[b]]
        /\ cleaned' = cleaned \cup {j}
        /\ End(c, "ok")
        /\ UNCHANGED <<route, seen, lock>>

-------------------------------------------------------------------------------
(* Around the registry: the gateway, the containers, the kernel. *)

Reload(s) ==
    /\ seen[s] # route[s]
    /\ seen' = [seen EXCEPT ![s] = route[s]]
    /\ UNCHANGED <<route, alias, state, lock, cleaned, at, local>>

Stop(b) ==
    /\ "down" \in Ends /\ state[b] = "up"
    /\ state' = [state EXCEPT ![b] = "down"]
    /\ UNCHANGED <<route, seen, alias, lock, cleaned, at, local>>

Restart(b) ==
    /\ state[b] = "down"
    /\ state' = [state EXCEPT ![b] = "up"]
    /\ UNCHANGED <<route, seen, alias, lock, cleaned, at, local>>

Remove(b) ==
    /\ "gone" \in Ends /\ state[b] # "gone"
    /\ state' = [state EXCEPT ![b] = "gone"]
    /\ alias' = [alias EXCEPT ![b] = None]
    /\ UNCHANGED <<route, seen, lock, cleaned, at, local>>

Crash(c) ==
    /\ c \in Mortal /\ at[c] \notin {"idle"} \cup Ended
    /\ End(c, "killed")
    /\ lock' = IF lock = c THEN None ELSE lock
    /\ UNCHANGED <<route, seen, alias, state, cleaned>>

-------------------------------------------------------------------------------

Enter(c) == EnterPublish(c) \/ EnterUnpublish(c) \/ EnterCleanup(c)

Work(c) ==
    \/ Connect(c) \/ Address(c) \/ Direct(c) \/ WriteRoute(c) \/ CheckGateway(c)
    \/ Restore(c) \/ Recover(c) \/ Undo(c) \/ Detach(c)
    \/ RemoveRoute(c) \/ AwaitGone(c) \/ TakeDown(c)

Next ==
    \/ \E c \in Client : Begin(c) \/ Enter(c) \/ Work(c) \/ Crash(c)
    \/ \E s \in Slot : Reload(s)
    \/ \E b \in Box : Stop(b) \/ Restart(b) \/ Remove(b)

(* A call goes on: its polls are counted, and each HTTP request has a limit;   *)
(* docker commands have none, and are assumed to return.  flock() lets each    *)
(* waiter in.                                                                  *)
Fairness == \A c \in Client : WF_vars(Work(c)) /\ SF_vars(Enter(c))

Spec == Init /\ [][Next]_vars /\ Fairness

-------------------------------------------------------------------------------
(* What the registry promises. *)

(* A container that a route file names is attached to the edge network under   *)
(* the alias in the route for as long as it exists, also when slots share it,  *)
(* and whichever call is killed or fails between writing routes and            *)
(* disconnecting.                                                              *)
RoutedIsAttached ==
    \A s \in Slot : route[s] # None /\ state[route[s].box] # "gone"
                       => alias[route[s].box] = route[s].alias

(* A route file disappears only when its own job unpublishes it, or when the   *)
(* publish that put it there is undone: a handoff never leaves a gap.          *)
OnlyOwnerEmpties ==
    [][\A s \in Slot : route[s] # None /\ route'[s] = None =>
          \E c \in Client :
             /\ lock = c /\ call[c].slot = s
             /\ \/ call[c].op = "unpublish" /\ call[c].job = route[s].job
                \/ call[c].op = "publish" /\ new[c] = route[s] /\ old[c] = None
      ]_vars

(* A publish or unpublish that reports failure leaves the slot as it found it. *)
FailedKeepsSlot ==
    [][\A c \in Client : at[c] \in Locked /\ at'[c] = "failed"
          => route'[call[c].slot] = old[c]]_vars

(* When no call is at work, only routed containers are on the edge network.    *)
OnlyRoutedAttached ==
    lock = None => \A b \in Box : alias[b] # None => Routed(b)

(* When a publish takes the gateway's answer for success, the gateway has      *)
(* loaded the route that was to be checked.                                    *)
HandoffVerified ==
    [][\A c \in Client : at[c] = "gateway" /\ at'[c] = "detach"
          => seen[call[c].slot] = new[c]]_vars

(* Cleanup never takes down the containers of a job that owns a slot.          *)
CleanupSparesPreviews ==
    [][\A c \in Client : at[c] = "down" /\ at'[c] = "ok"
          => \A s \in Slot : route[s] # None => route[s].job # call[c].job]_vars

(* Every call that is not killed returns, whatever happens to the others.      *)
EveryCallReturns ==
    \A c \in Client \ Mortal : at[c] = "enter" ~> at[c] \in Ended
===============================================================================
