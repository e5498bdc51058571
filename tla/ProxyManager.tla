---------------------------- MODULE ProxyManager ----------------------------
(***************************************************************************)
(* internal/proxy/proxy.go: the proxy manager keeps a table of routes and  *)
(* after every change pushes the whole configuration to Caddy's admin API. *)
(* It has no mutex: workers, request handlers and main call it at once.    *)
(*                                                                         *)
(* Caddy is external.  It carries out the pushes it has received in their  *)
(* order, each as a whole or not at all, and answers; a caller may have    *)
(* stopped waiting by then.                                                *)
(***************************************************************************)
EXTENDS CaddyConfig

CONSTANTS
    Callers,    \* goroutines that call the manager
    Requested,  \* the routes they ask for, of each application: all pass ValidateRoute
    MaxCalls,   \* calls in all; a bound, the code has none
    MaxInbox,   \* pushes Caddy has not carried out; a bound, the code has none
    Unknown     \* no call about an owner was made since the start

ASSUME ManagerAssumption ==
    /\ Requested \in [Apps -> SUBSET Route]
    /\ {MaxCalls, MaxInbox} \subseteq Nat
    /\ None \notin Route
    /\ Unknown \notin Route \cup {None}
    /\ Callers \cap (Route \cup {None, Unknown}) = {}

VARIABLES
    routes,         \* the manager's table: routes, dashboardDomain, dashboardTarget
    lastKnownGood,  \* the last configuration Caddy accepted, or None
    callerPC,       \* where each caller is
    call,           \* the owner and route each caller's call is about, and the route before
    built,          \* the configuration a caller has built
    inbox,          \* pushes Caddy has received, and who waits for the answer
    served,         \* the configuration Caddy has
    calls,          \* how many calls were made
    confirmed       \* history: who made the last call about each owner or, once that call
                    \* has returned success, the route it asked for

managerVars == <<routes, lastKnownGood>>
callVars    == <<callerPC, call, built, calls>>
caddyVars   == <<inbox, served>>
vars == <<managerVars, callVars, caddyVars, confirmed>>

CallerPCs == {"idle", "validating", "applying", "building", "sending", "waiting",
              "accepted", "refused", "rollingBack"}
Call == [owner: Owners, route: Route \cup {None}, old: Route \cup {None}]
Push == [from: Callers \cup {None}, config: Table]

TypeOK ==
    /\ routes \in Table
    /\ lastKnownGood \in Table \cup {None}
    /\ callerPC \in [Callers -> CallerPCs]
    /\ call \in [Callers -> Call \cup {None}]
    /\ built \in [Callers -> Table]
    /\ inbox \in Seq(Push) /\ Len(inbox) <= MaxInbox
    /\ served \in Table
    /\ calls \in 0..MaxCalls
    /\ confirmed \in [Owners -> Route \cup {None, Unknown} \cup Callers]

-----------------------------------------------------------------------------
Moves(k, from, to) ==
    /\ callerPC[k] = from
    /\ callerPC' = [callerPC EXCEPT ![k] = to]

\* A call changes the table first.
Change(k, o, r, next) ==
    /\ calls < MaxCalls
    /\ calls' = calls + 1
    /\ Moves(k, "idle", next)
    /\ call' = [call EXCEPT ![k] = [owner |-> o, route |-> r, old |-> routes[o]]]
    /\ routes' = [routes EXCEPT ![o] = r]
    /\ confirmed' = [confirmed EXCEPT ![o] = k]
    /\ UNCHANGED <<lastKnownGood, built, caddyVars>>

UpsertRoute(k, a) == \E r \in Requested[a] : Change(k, a, r, "validating")
RemoveRoute(k, a) == Change(k, a, None, "applying")
SetDashboardRoute(k) == \E h \in Hosts : Change(k, Dashboard, DashboardRoute(h), "applying")
RemoveDashboardRoute(k) == Change(k, Dashboard, None, "applying")

\* Mutant of ValidateUpsert: the table keeps the conflict.
ValidateUpsertKeepsRoute(k) ==
    /\ Moves(k, "validating", IF ValidateRoutes(routes) THEN "applying" ELSE "idle")
    /\ UNCHANGED <<managerVars, call, built, calls, caddyVars, confirmed>>

\* A conflict puts the old route back, or none if there was none.
ValidateUpsert(k) ==
    /\ Moves(k, "validating", IF ValidateRoutes(routes) THEN "applying" ELSE "idle")
    /\ routes' = IF ValidateRoutes(routes) THEN routes
                 ELSE [routes EXCEPT ![call[k].owner] = call[k].old]
    /\ UNCHANGED <<lastKnownGood, call, built, calls, caddyVars, confirmed>>

\* apply validates again; its error leaves the table as it is.
ApplyValidate(k) ==
    /\ Moves(k, "applying", IF ValidateRoutes(routes) THEN "building" ELSE "idle")
    /\ UNCHANGED <<managerVars, call, built, calls, caddyVars, confirmed>>

\* Mutant of BuildConfig: it starts from what Caddy had last.
BuildConfigOnLastKnownGood(k) ==
    /\ Moves(k, "building", "sending")
    /\ built' = [built EXCEPT ![k] =
         IF lastKnownGood = None THEN routes
         ELSE [lastKnownGood EXCEPT ![call[k].owner] = routes[call[k].owner]]]
    /\ UNCHANGED <<managerVars, call, calls, caddyVars, confirmed>>

BuildConfig(k) ==
    /\ Moves(k, "building", "sending")
    /\ built' = [built EXCEPT ![k] = routes]
    /\ UNCHANGED <<managerVars, call, calls, caddyVars, confirmed>>

\* POST /load
Receives(k, config) ==
    /\ Len(inbox) < MaxInbox
    /\ inbox' = Append(inbox, [from |-> k, config |-> config])

PushConfig(k) ==
    /\ Moves(k, "sending", "waiting")
    /\ Receives(k, built[k])
    /\ UNCHANGED <<managerVars, call, built, calls, served, confirmed>>

\* The admin API cannot be reached: an error, and no rollback.
PushFails(k) ==
    /\ Moves(k, "sending", "idle")
    /\ UNCHANGED <<managerVars, call, built, calls, caddyVars, confirmed>>

\* Ten seconds have passed, or the request's context is done: the caller gives
\* up, without a rollback, and Caddy does not know.
GiveUp(k) ==
    /\ callerPC[k] \in {"waiting", "rollingBack"}
    /\ callerPC' = [callerPC EXCEPT ![k] = "idle"]
    /\ inbox' = [n \in DOMAIN inbox |->
                   IF inbox[n].from = k THEN [inbox[n] EXCEPT !.from = None] ELSE inbox[n]]
    /\ UNCHANGED <<managerVars, call, built, calls, served, confirmed>>

\* Mutant of Accepted: only the first configuration is remembered.
AcceptedKeepsFirst(k) ==
    /\ Moves(k, "accepted", "idle")
    /\ lastKnownGood' = IF lastKnownGood = None THEN built[k] ELSE lastKnownGood
    /\ confirmed' = [confirmed EXCEPT ![call[k].owner] = IF @ = k THEN call[k].route ELSE @]
    /\ UNCHANGED <<routes, call, built, calls, caddyVars>>

\* Status 200: the call returns success.
Accepted(k) ==
    /\ Moves(k, "accepted", "idle")
    /\ lastKnownGood' = built[k]
    /\ confirmed' = [confirmed EXCEPT ![call[k].owner] = IF @ = k THEN call[k].route ELSE @]
    /\ UNCHANGED <<routes, call, built, calls, caddyVars>>

\* Mutant of RollBack: whether there is something to go back to is not looked at.
RollBackUnchecked(k) ==
    /\ Moves(k, "refused", "rollingBack")
    /\ Receives(k, lastKnownGood)
    /\ UNCHANGED <<managerVars, call, built, calls, served, confirmed>>

\* Any other status: push the last configuration that Caddy accepted, and
\* return an error whatever becomes of it.  The table keeps the change.
RollBack(k) ==
    /\ lastKnownGood # None
    /\ Moves(k, "refused", "rollingBack")
    /\ Receives(k, lastKnownGood)
    /\ UNCHANGED <<managerVars, call, built, calls, served, confirmed>>

\* There is nothing to go back to, or the push cannot be sent.
RollBackFails(k) ==
    /\ Moves(k, "refused", "idle")
    /\ UNCHANGED <<managerVars, call, built, calls, caddyVars, confirmed>>

-----------------------------------------------------------------------------
(* Caddy, external *)

\* Caddy answers the first push it has; to a rollback the manager does not
\* listen.
Answer(waiting) ==
    /\ inbox # <<>>
    /\ inbox' = Tail(inbox)
    /\ LET k == Head(inbox).from IN
       callerPC' = IF k = None THEN callerPC
                   ELSE [callerPC EXCEPT ![k] = IF @ = "waiting" THEN waiting ELSE "idle"]
    /\ UNCHANGED <<managerVars, call, built, calls, confirmed>>

CaddyAccepts == Answer("accepted") /\ served' = Head(inbox).config
CaddyRefuses == Answer("refused") /\ UNCHANGED served

\* A push whose sender has gone may never be read.
CaddyDrops ==
    /\ inbox # <<>> /\ Head(inbox).from = None
    /\ inbox' = Tail(inbox)
    /\ UNCHANGED <<managerVars, callVars, served, confirmed>>

\* Liteploy starts again, after a crash too; Caddy keeps what it has.
Restart ==
    /\ calls < MaxCalls
    /\ calls' = calls + 1
    /\ routes' = EmptyTable
    /\ lastKnownGood' = None
    /\ callerPC' = [k \in Callers |-> "idle"]
    /\ call' = [k \in Callers |-> None]
    /\ built' = [k \in Callers |-> EmptyTable]
    /\ inbox' = [n \in DOMAIN inbox |-> [inbox[n] EXCEPT !.from = None]]
    /\ confirmed' = [o \in Owners |-> Unknown]
    /\ UNCHANGED served

-----------------------------------------------------------------------------
Init ==
    /\ routes = EmptyTable
    /\ lastKnownGood = None
    /\ callerPC = [k \in Callers |-> "idle"]
    /\ call = [k \in Callers |-> None]
    /\ built = [k \in Callers |-> EmptyTable]
    /\ inbox = <<>>
    /\ served = EmptyTable
    /\ calls = 0
    /\ confirmed = [o \in Owners |-> Unknown]

Next ==
    \/ \E k \in Callers :
          \/ \E a \in Apps : UpsertRoute(k, a) \/ RemoveRoute(k, a)
          \/ SetDashboardRoute(k)
          \/ RemoveDashboardRoute(k)
          \/ ValidateUpsert(k)
          \/ ApplyValidate(k)
          \/ BuildConfig(k)
          \/ PushConfig(k)
          \/ PushFails(k)
          \/ GiveUp(k)
          \/ Accepted(k)
          \/ RollBack(k)
          \/ RollBackFails(k)
    \/ CaddyAccepts
    \/ CaddyRefuses
    \/ CaddyDrops
    \/ Restart

Spec == Init /\ [][Next]_vars

-----------------------------------------------------------------------------
(* Properties *)

\* Whatever Caddy serves, a request is answered by the application whose
\* pattern fits it best, and by one only.
RequestsGoRight ==
    \A h \in Hosts, p \in Paths :
        ShouldAnswer(served, h, p) = {Answers(served, h, p)}

\* Once an upsert has been validated or undone, the table has no conflict: no
\* failed call leaves one behind, for apply would then fail for everybody.
TableStaysValid ==
    (\A k \in Callers : callerPC[k] # "validating") => ValidateRoutes(routes)

\* A call that was told success finds in Caddy all of the table, the changes of
\* earlier calls that failed included.
AcceptedIsCurrent ==
    \A k \in Callers : callerPC[k] = "accepted" => served = routes

\* What a call returned success for is served until another call about the same
\* application begins, whatever the calls about others do: a refused one rolls
\* back, one that was given up is carried out late ("adds or updates a route for
\* an application, then applies to Caddy").
ConfirmedIsServed ==
    \A o \in Owners : confirmed[o] \in Route \cup {None} => served[o] = confirmed[o]

=============================================================================
