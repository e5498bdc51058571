-------------------------- MODULE ProxyManagerProofs --------------------------
(***************************************************************************)
(* Theorems about ProxyManager: its types for any number of callers, what  *)
(* it promises as long as its calls do not overlap, and who answers a      *)
(* request.                                                                *)
(***************************************************************************)
EXTENDS ProxyManager, FiniteSetTheorems, TLAPS

\* A caller that is doing something is doing it for a call.
CallersHaveCalls == \A k \in Callers : callerPC[k] # "idle" => call[k] \in Call

Typed == TypeOK /\ CallersHaveCalls

\* The route of the dashboard is a route.
LEMMA DashboardIsRoute == ASSUME NEW h \in Hosts PROVE DashboardRoute(h) \in Route
<1> DEFINE all == <<>>
<1>0. all \in Paths
  BY ConfigAssumption
<1> HIDE DEF all
<1>1. <<h, all>> \in Hosts \X Paths
  BY <1>0
<1>2. {<<h, all>>} \in (SUBSET (Hosts \X Paths)) \ {{}}
  BY <1>1
<1>3. [domains |-> {<<h, all>>}, upstream |-> Dashboard] \in Route
  BY <1>2 DEF Route
<1> QED
  BY <1>3 DEF DashboardRoute, all

\* The manager starts typed.
LEMMA InitTyped == Init => Typed
BY ManagerAssumption
   DEF Init, Typed, TypeOK, CallersHaveCalls, Table, EmptyTable, CallerPCs, Push

\* A call that begins keeps the types.
LEMMA ChangeTyped ==
    ASSUME Typed, NEW k \in Callers, NEW o \in Owners, NEW r \in Route \cup {None},
           NEW next \in CallerPCs, Change(k, o, r, next)
    PROVE  Typed'
<1>1. [owner |-> o, route |-> r, old |-> routes[o]] \in Call
  BY DEF Typed, TypeOK, Table, Call
<1>2. call' \in [Callers -> Call \cup {None}]
  BY <1>1 DEF Typed, TypeOK, Change
<1>3. calls' \in 0..MaxCalls
  BY ManagerAssumption DEF Typed, TypeOK, Change
<1>4. routes' \in Table
  BY DEF Typed, TypeOK, Change, Table
<1>5. confirmed' \in [Owners -> Route \cup {None, Unknown} \cup Callers]
  BY DEF Typed, TypeOK, Change
<1>6. callerPC' \in [Callers -> CallerPCs]
  BY DEF Typed, TypeOK, Change, Moves
<1>7. CallersHaveCalls'
  BY <1>1 DEF Typed, TypeOK, CallersHaveCalls, Change, Moves
<1> QED
  BY <1>2, <1>3, <1>4, <1>5, <1>6, <1>7 DEF Typed, TypeOK, Change, caddyVars

\* What Caddy receives is a push.
LEMMA ReceivesTyped ==
    ASSUME Typed, NEW k \in Callers, NEW config \in Table, Receives(k, config)
    PROVE  inbox' \in Seq(Push) /\ Len(inbox') <= MaxInbox
<1>1. [from |-> k, config |-> config] \in Push
  BY DEF Push
<1> HIDE DEF Push
<1> QED
  BY <1>1, ManagerAssumption DEF Typed, TypeOK, Receives

\* A caller moves on.
LEMMA MovesTyped ==
    ASSUME Typed, NEW k \in Callers, NEW from, NEW to \in CallerPCs, from # "idle",
           Moves(k, from, to), UNCHANGED call
    PROVE  callerPC' \in [Callers -> CallerPCs] /\ CallersHaveCalls'
BY DEF Typed, TypeOK, CallersHaveCalls, Moves

\* Whoever waits for a push is a caller.
LEMMA PushersAreCallers ==
    ASSUME Typed
    PROVE  \A n \in 1..Len(inbox) :
              inbox[n].from \in Callers \cup {None} /\ inbox[n].config \in Table
<1>1. \A n \in 1..Len(inbox) : inbox[n] \in Push
  <2> HIDE DEF Push
  <2> QED
    BY DEF Typed, TypeOK
<1> QED
  BY <1>1 DEF Push

\* Nobody waits any more for the pushes of some callers.
LEMMA AbandonTyped ==
    ASSUME Typed, NEW S,
           inbox' = [n \in DOMAIN inbox |->
                       IF inbox[n].from \in S THEN [inbox[n] EXCEPT !.from = None]
                       ELSE inbox[n]]
    PROVE  inbox' \in Seq(Push) /\ Len(inbox') = Len(inbox)
<1>1. inbox \in Seq(Push)
  BY DEF Typed, TypeOK
<1>2. \A p \in Push : [p EXCEPT !.from = None] \in Push
  BY DEF Push
<1>3. \A n \in 1..Len(inbox) : inbox[n] \in Push
  BY <1>1
<1> HIDE DEF Push
<1>4. \A n \in 1..Len(inbox) :
        (IF inbox[n].from \in S THEN [inbox[n] EXCEPT !.from = None] ELSE inbox[n]) \in Push
  BY <1>2, <1>3
<1>5. inbox' \in [1..Len(inbox) -> Push]
  BY <1>1, <1>4
<1> QED
  BY <1>1, <1>5

\* The steps of a call keep the types.
LEMMA CallerTyped ==
    ASSUME Typed, NEW k \in Callers,
           \/ \E a \in Apps : UpsertRoute(k, a) \/ RemoveRoute(k, a)
           \/ SetDashboardRoute(k) \/ RemoveDashboardRoute(k)
           \/ ValidateUpsert(k) \/ ApplyValidate(k) \/ BuildConfig(k) \/ PushConfig(k)
           \/ PushFails(k) \/ GiveUp(k) \/ Accepted(k) \/ RollBack(k) \/ RollBackFails(k)
    PROVE  Typed'
<1>1. ASSUME NEW a \in Apps, UpsertRoute(k, a) PROVE Typed'
  <2>1. PICK r \in Requested[a] : Change(k, a, r, "validating")
    BY <1>1 DEF UpsertRoute
  <2>2. a \in Owners /\ r \in Route
    BY ManagerAssumption DEF Owners
  <2> QED
    BY <2>1, <2>2, ChangeTyped DEF CallerPCs
<1>2. ASSUME NEW a \in Apps, RemoveRoute(k, a) PROVE Typed'
  BY <1>2, ChangeTyped DEF RemoveRoute, Owners, CallerPCs
<1>3. CASE SetDashboardRoute(k)
  <2>1. PICK h \in Hosts : Change(k, Dashboard, DashboardRoute(h), "applying")
    BY <1>3 DEF SetDashboardRoute
  <2> QED
    BY <2>1, DashboardIsRoute, ChangeTyped DEF Owners, CallerPCs
<1>4. CASE RemoveDashboardRoute(k)
  BY <1>4, ChangeTyped DEF RemoveDashboardRoute, Owners, CallerPCs
<1>5. CASE ValidateUpsert(k)
  <2>1. callerPC' \in [Callers -> CallerPCs] /\ CallersHaveCalls'
    BY <1>5, MovesTyped DEF ValidateUpsert, CallerPCs
  <2>2. call[k] \in Call
    BY <1>5 DEF ValidateUpsert, Moves, Typed, CallersHaveCalls
  <2>3. routes' \in Table
    BY <1>5, <2>2 DEF ValidateUpsert, Typed, TypeOK, Table, Call
  <2> QED
    BY <1>5, <2>1, <2>3 DEF ValidateUpsert, Typed, TypeOK, caddyVars
<1>6. CASE ApplyValidate(k)
  BY <1>6, MovesTyped DEF ApplyValidate, CallerPCs, Typed, TypeOK, managerVars, caddyVars
<1>7. CASE BuildConfig(k)
  <2>1. callerPC' \in [Callers -> CallerPCs] /\ CallersHaveCalls'
    BY <1>7, MovesTyped DEF BuildConfig, CallerPCs
  <2>2. built' \in [Callers -> Table]
    BY <1>7 DEF BuildConfig, Typed, TypeOK
  <2> QED
    BY <1>7, <2>1, <2>2 DEF BuildConfig, Typed, TypeOK, managerVars, caddyVars
<1>8. CASE PushConfig(k)
  <2>1. callerPC' \in [Callers -> CallerPCs] /\ CallersHaveCalls'
    BY <1>8, MovesTyped DEF PushConfig, CallerPCs
  <2>2. built[k] \in Table
    BY DEF Typed, TypeOK
  <2>3. inbox' \in Seq(Push) /\ Len(inbox') <= MaxInbox
    BY <1>8, <2>2, ReceivesTyped DEF PushConfig
  <2> QED
    BY <1>8, <2>1, <2>3 DEF PushConfig, Typed, TypeOK, managerVars
<1>9. CASE PushFails(k)
  BY <1>9, MovesTyped DEF PushFails, CallerPCs, Typed, TypeOK, managerVars, caddyVars
<1>10. CASE GiveUp(k)
  <2>1. inbox' \in Seq(Push) /\ Len(inbox') = Len(inbox)
    <3>1. inbox' = [n \in DOMAIN inbox |->
                      IF inbox[n].from \in {k} THEN [inbox[n] EXCEPT !.from = None]
                      ELSE inbox[n]]
      BY <1>10 DEF GiveUp
    <3> QED
      BY <3>1, AbandonTyped
  <2>2. callerPC' \in [Callers -> CallerPCs] /\ CallersHaveCalls'
    BY <1>10 DEF GiveUp, CallerPCs, CallersHaveCalls, Typed, TypeOK
  <2> QED
    BY <1>10, <2>1, <2>2 DEF GiveUp, Typed, TypeOK, managerVars
<1>11. CASE Accepted(k)
  <2>1. callerPC' \in [Callers -> CallerPCs] /\ CallersHaveCalls'
    BY <1>11, MovesTyped DEF Accepted, CallerPCs
  <2>2. call[k] \in Call
    BY <1>11 DEF Accepted, Moves, Typed, CallersHaveCalls
  <2>3. confirmed' \in [Owners -> Route \cup {None, Unknown} \cup Callers]
    BY <1>11, <2>2 DEF Accepted, Typed, TypeOK, Call
  <2>4. lastKnownGood' \in Table
    BY <1>11 DEF Accepted, Typed, TypeOK
  <2> QED
    BY <1>11, <2>1, <2>3, <2>4 DEF Accepted, Typed, TypeOK, caddyVars
<1>12. CASE RollBack(k)
  <2>1. callerPC' \in [Callers -> CallerPCs] /\ CallersHaveCalls'
    BY <1>12, MovesTyped DEF RollBack, CallerPCs
  <2>2. lastKnownGood \in Table
    BY <1>12 DEF RollBack, Typed, TypeOK
  <2>3. inbox' \in Seq(Push) /\ Len(inbox') <= MaxInbox
    BY <1>12, <2>2, ReceivesTyped DEF RollBack
  <2> QED
    BY <1>12, <2>1, <2>3 DEF RollBack, Typed, TypeOK, managerVars
<1>13. CASE RollBackFails(k)
  BY <1>13, MovesTyped DEF RollBackFails, CallerPCs, Typed, TypeOK, managerVars, caddyVars
<1> QED
  BY <1>1, <1>2, <1>3, <1>4, <1>5, <1>6, <1>7, <1>8, <1>9, <1>10, <1>11, <1>12, <1>13

\* What Caddy does keeps the types.
LEMMA AnswerTyped ==
    ASSUME Typed, NEW waiting \in {"accepted", "refused"}, Answer(waiting)
    PROVE  /\ Head(inbox) \in Push
           /\ inbox' \in Seq(Push) /\ Len(inbox') <= MaxInbox
           /\ callerPC' \in [Callers -> CallerPCs]
           /\ CallersHaveCalls'
<1>1. inbox \in Seq(Push) /\ inbox # <<>> /\ Len(inbox) <= MaxInbox
  BY DEF Typed, TypeOK, Answer
<1>2. Head(inbox) \in Push
  <2> HIDE DEF Push
  <2> QED
    BY <1>1
<1>3. inbox' \in Seq(Push) /\ Len(inbox') <= MaxInbox
  <2> HIDE DEF Push
  <2> QED
    BY <1>1, ManagerAssumption DEF Answer
<1>4. callerPC' \in [Callers -> CallerPCs]
  BY <1>2 DEF Answer, Typed, TypeOK, CallerPCs
<1> QED
  <2> SUFFICES CallersHaveCalls'
    BY <1>2, <1>3, <1>4
  <2> SUFFICES ASSUME NEW j \in Callers, callerPC'[j] # "idle" PROVE call'[j] \in Call
    BY DEF CallersHaveCalls
  <2>1. call' = call
    BY DEF Answer
  <2>2. PICK k : k = Head(inbox).from
    OBVIOUS
  <2>3. CASE k = j
    <3>1. k # None
      BY <2>3, ManagerAssumption
    <3>2. callerPC'[j] = IF callerPC[j] = "waiting" THEN waiting ELSE "idle"
      BY <2>2, <2>3, <3>1 DEF Answer, Typed, TypeOK
    <3>3. callerPC[j] = "waiting"
      BY <3>2
    <3> QED
      BY <2>1, <3>3 DEF Typed, CallersHaveCalls
  <2>4. CASE k # j
    BY <2>1, <2>2, <2>4 DEF Answer, Typed, TypeOK, CallersHaveCalls
  <2> QED
    BY <2>3, <2>4

\* Every step keeps the types.
LEMMA NextTyped == Typed /\ [Next]_vars => Typed'
<1> SUFFICES ASSUME Typed, [Next]_vars PROVE Typed'
  OBVIOUS
<1>1. CASE CaddyAccepts
  <2>1. Head(inbox) \in Push /\ served' \in Table
    BY <1>1, AnswerTyped DEF CaddyAccepts, Push
  <2> QED
    BY <1>1, <2>1, AnswerTyped DEF CaddyAccepts, Answer, Typed, TypeOK, managerVars
<1>2. CASE CaddyRefuses
  BY <1>2, AnswerTyped DEF CaddyRefuses, Answer, Typed, TypeOK, managerVars
<1>3. CASE CaddyDrops
  <2>1. inbox \in Seq(Push) /\ inbox # <<>> /\ Len(inbox) <= MaxInbox
    BY <1>3 DEF CaddyDrops, Typed, TypeOK
  <2>2. inbox' \in Seq(Push) /\ Len(inbox') <= MaxInbox
    <3> HIDE DEF Push
    <3> QED
      BY <1>3, <2>1, ManagerAssumption DEF CaddyDrops
  <2> QED
    BY <1>3, <2>2 DEF CaddyDrops, Typed, TypeOK, CallersHaveCalls, managerVars, callVars
<1>4. CASE Restart
  <2>1. \A n \in 1..Len(inbox) : inbox[n].from \in Callers \cup {None}
    BY PushersAreCallers
  <2>2. inbox' = [n \in DOMAIN inbox |->
                    IF inbox[n].from \in Callers \cup {None}
                    THEN [inbox[n] EXCEPT !.from = None] ELSE inbox[n]]
    BY SMTT(30), <1>4, <2>1 DEF Restart, Typed, TypeOK
  <2>3. inbox' \in Seq(Push) /\ Len(inbox') = Len(inbox)
    BY <2>2, AbandonTyped
  <2>4. calls' \in 0..MaxCalls
    BY <1>4, ManagerAssumption DEF Restart, Typed, TypeOK
  <2> QED
    BY <1>4, <2>3, <2>4
       DEF Restart, Typed, TypeOK, CallersHaveCalls, Table, EmptyTable, CallerPCs
<1>5. CASE UNCHANGED vars
  BY <1>5 DEF Typed, TypeOK, CallersHaveCalls, vars, managerVars, callVars, caddyVars
<1> QED
  BY <1>1, <1>2, <1>3, <1>4, <1>5, CallerTyped DEF Next

\* TypeOK: in every reachable state each variable has its type: what Caddy is
\* sent, a rollback included, is always a whole configuration.
THEOREM TypeCorrect == Spec => []TypeOK
<1>1. Typed => TypeOK
  BY DEF Typed
<1> QED
  BY <1>1, InitTyped, NextTyped, PTL DEF Spec

-----------------------------------------------------------------------------
(* Calls that do not overlap.  ConfirmedIsServed says nothing of the         *)
(* configurations that may yet be served: the last known good one, and those *)
(* that callers who gave up have left with Caddy.  All of them must agree    *)
(* with what was confirmed; and success may be reported only when none of    *)
(* the latter is left.                                                       *)

OneCaller == \A j, k \in Callers : j = k

\* A table has what was confirmed.
Agrees(table) ==
    \A o \in Owners : confirmed[o] \in Route \cup {None} => table[o] = confirmed[o]

TablesAgree ==
    /\ Agrees(routes)
    /\ Agrees(served)
    /\ lastKnownGood # None => Agrees(lastKnownGood)
    /\ \A n \in 1..Len(inbox) : Agrees(inbox[n].config)

\* The table has the change of the call under way, what is built is the table,
\* and it is served when the call is told success.
CallsOK ==
    \A k \in Callers :
        /\ callerPC[k] # "idle" => confirmed[call[k].owner] = k
        /\ callerPC[k] \in {"validating", "applying", "building", "sending", "waiting",
                            "accepted"} => routes[call[k].owner] = call[k].route
        /\ callerPC[k] \in {"sending", "waiting", "accepted"} => built[k] = routes
        /\ callerPC[k] = "accepted" => inbox = <<>> /\ served = routes

\* Only the last push is waited for.
AwaitedOK ==
    \A n \in 1..Len(inbox) :
        inbox[n].from # None =>
            /\ n = Len(inbox)
            /\ \/ callerPC[inbox[n].from] = "waiting" /\ inbox[n].config = routes
               \/ callerPC[inbox[n].from] = "rollingBack"

\* The table has no conflict, once an upsert is undone.
ValidOK ==
    /\ (\A k \in Callers : callerPC[k] # "validating") => ValidateRoutes(routes)
    /\ \A k \in Callers :
          callerPC[k] = "validating" =>
              ValidateRoutes([routes EXCEPT ![call[k].owner] = call[k].old])

IInv == Typed /\ TablesAgree /\ CallsOK /\ AwaitedOK /\ ValidOK

\* An empty table has no conflict, and nothing is confirmed.
LEMMA InitInv == Init => IInv
<1> SUFFICES ASSUME Init PROVE IInv
  OBVIOUS
<1>1. TablesAgree
  BY ManagerAssumption DEF Init, TablesAgree, Agrees
<1>2. CallsOK /\ AwaitedOK
  BY DEF Init, CallsOK, AwaitedOK
<1>3. ValidOK
  BY DEF Init, ValidOK, ValidateRoutes, EmptyTable, Owners
<1> QED
  BY <1>1, <1>2, <1>3, InitTyped DEF IInv

\* A call that begins: what was confirmed of its owner is so no more.
LEMMA ChangeInv ==
    ASSUME IInv, OneCaller, NEW k \in Callers, NEW o \in Owners, NEW r \in Route \cup {None},
           NEW next \in {"validating", "applying"}, Change(k, o, r, next),
           next = "applying" => r = None \/ o = Dashboard
    PROVE  TablesAgree' /\ CallsOK' /\ AwaitedOK' /\ ValidOK'
<1> USE DEF IInv, Typed, TypeOK
<1>1. callerPC[k] = "idle" /\ callerPC'[k] = next /\ \A j \in Callers : j = k
  BY DEF Change, Moves, OneCaller
<1>2. call'[k] = [owner |-> o, route |-> r, old |-> routes[o]]
  BY DEF Change
<1>3. routes' = [routes EXCEPT ![o] = r] /\ routes' \in Table /\ routes \in Table
  BY DEF Change, Table
<1>4. confirmed' = [confirmed EXCEPT ![o] = k] /\ k \notin Route \cup {None}
  BY ManagerAssumption DEF Change
<1>5. UNCHANGED <<lastKnownGood, built, inbox, served>>
  BY DEF Change, caddyVars
<1>6. \A t \in Table : Agrees(t) =>
        \A q \in Owners : confirmed'[q] \in Route \cup {None} => t[q] = confirmed'[q]
  BY <1>4 DEF Agrees
<1>7. TablesAgree'
  <2>1. Agrees(routes)'
    BY <1>3, <1>4 DEF TablesAgree, Agrees, Table
  <2>2. Agrees(served)' /\ (lastKnownGood # None => Agrees(lastKnownGood))'
    BY <1>4, <1>5 DEF TablesAgree, Agrees
  <2>3. \A n \in 1..Len(inbox) : Agrees(inbox[n].config)'
    BY <1>4, <1>5 DEF TablesAgree, Agrees
  <2> QED
    BY <1>5, <2>1, <2>2, <2>3 DEF TablesAgree
<1>8. CallsOK'
  BY <1>1, <1>2, <1>3, <1>4 DEF CallsOK, Table
<1>9. \A n \in 1..Len(inbox) : inbox[n].from = None
  BY <1>1, PushersAreCallers DEF AwaitedOK
<1>10. AwaitedOK'
  BY <1>5, <1>9 DEF AwaitedOK
<1>11. ValidateRoutes(routes)
  BY <1>1 DEF ValidOK
<1>12. ValidOK'
  <2>1. CASE next = "validating"
    <3>1. [routes' EXCEPT ![o] = routes[o]] = routes
      BY <1>3 DEF Table
    <3>2. \A j \in Callers :
            [routes' EXCEPT ![call'[j].owner] = call'[j].old] = routes
      BY <1>1, <1>2, <3>1
    <3> QED
      BY <1>1, <1>11, <2>1, <3>2 DEF ValidOK
  <2>2. CASE next = "applying"
    <3>1. ValidateRoutes(routes')
      BY <1>3, <1>11, <2>2, ConfigAssumption DEF ValidateRoutes, Table, Owners
    <3> QED
      BY <1>1, <2>2, <3>1 DEF ValidOK
  <2> QED
    BY <2>1, <2>2
<1> QED
  BY <1>7, <1>8, <1>10, <1>12

\* A conflict is undone; without one the table is valid.
LEMMA ValidateUpsertInv ==
    ASSUME IInv, OneCaller, NEW k \in Callers, ValidateUpsert(k)
    PROVE  TablesAgree' /\ CallsOK' /\ AwaitedOK' /\ ValidOK'
<1> USE DEF IInv, Typed, TypeOK
<1>1. callerPC[k] = "validating" /\ \A j \in Callers : j = k
  BY DEF ValidateUpsert, Moves, OneCaller
<1>2. UNCHANGED <<lastKnownGood, call, built, inbox, served, confirmed>>
  BY DEF ValidateUpsert, caddyVars
<1>3. \A n \in 1..Len(inbox) : inbox[n].from = None
  BY <1>1, PushersAreCallers DEF AwaitedOK
<1>4. AwaitedOK'
  BY <1>2, <1>3 DEF AwaitedOK
<1>5. CASE ValidateRoutes(routes)
  <2>1. routes' = routes /\ callerPC'[k] = "applying"
    BY <1>5 DEF ValidateUpsert, Moves
  <2>2. TablesAgree'
    BY <1>2, <2>1 DEF TablesAgree, Agrees
  <2>3. CallsOK'
    BY <1>1, <1>2, <2>1 DEF CallsOK
  <2>4. ValidOK'
    BY <1>1, <1>5, <2>1 DEF ValidOK, ValidateRoutes
  <2> QED
    BY <1>4, <2>2, <2>3, <2>4
<1>6. CASE ~ValidateRoutes(routes)
  <2>1. callerPC'[k] = "idle" /\ routes' = [routes EXCEPT ![call[k].owner] = call[k].old]
    BY <1>6 DEF ValidateUpsert, Moves
  <2>2. confirmed[call[k].owner] \notin Route \cup {None}
    BY <1>1, ManagerAssumption DEF CallsOK
  <2>3. Agrees(routes)'
    BY <1>2, <2>1, <2>2 DEF TablesAgree, Agrees, Table
  <2>4. TablesAgree'
    BY <1>2, <2>3 DEF TablesAgree, Agrees
  <2>5. CallsOK'
    BY <1>1, <1>2, <2>1 DEF CallsOK
  <2>6. ValidateRoutes(routes')
    BY <1>1, <2>1 DEF ValidOK
  <2>7. ValidOK'
    BY <1>1, <2>1, <2>6 DEF ValidOK, ValidateRoutes
  <2> QED
    BY <1>4, <2>4, <2>5, <2>7
<1> QED
  BY <1>5, <1>6

\* The steps of apply before the push, and the ends that change no table.
LEMMA QuietInv ==
    ASSUME IInv, OneCaller, NEW k \in Callers,
           ApplyValidate(k) \/ BuildConfig(k) \/ PushFails(k) \/ RollBackFails(k)
    PROVE  TablesAgree' /\ CallsOK' /\ AwaitedOK' /\ ValidOK'
<1> USE DEF IInv, Typed, TypeOK
<1>1. /\ callerPC[k] \in {"applying", "building", "sending", "refused"}
      /\ callerPC'[k] \in {"building", "sending", "idle"}
      /\ callerPC'[k] = "building" => callerPC[k] = "applying"
      /\ callerPC'[k] = "sending" => callerPC[k] = "building" /\ built'[k] = routes
      /\ \A j \in Callers : j = k
  BY DEF ApplyValidate, BuildConfig, PushFails, RollBackFails, Moves, OneCaller
<1>2. UNCHANGED <<routes, lastKnownGood, call, inbox, served, confirmed>>
  BY DEF ApplyValidate, BuildConfig, PushFails, RollBackFails, managerVars, caddyVars
<1>3. \A n \in 1..Len(inbox) : inbox[n].from = None
  BY <1>1, PushersAreCallers DEF AwaitedOK
<1>4. AwaitedOK'
  BY <1>2, <1>3 DEF AwaitedOK
<1>5. TablesAgree'
  BY <1>2 DEF TablesAgree, Agrees
<1>6. CallsOK'
  BY <1>1, <1>2 DEF CallsOK
<1>7. ValidOK'
  BY <1>1, <1>2 DEF ValidOK, ValidateRoutes
<1> QED
  BY <1>4, <1>5, <1>6, <1>7

\* A push goes behind those of callers that gave up.
LEMMA ReceivesInv ==
    ASSUME IInv, OneCaller, NEW k \in Callers, NEW config \in Table, Receives(k, config),
           UNCHANGED <<managerVars, call, built, served, confirmed>>,
           \/ Moves(k, "sending", "waiting") /\ config = routes
           \/ /\ Moves(k, "refused", "rollingBack")
              /\ config = lastKnownGood /\ lastKnownGood # None
    PROVE  TablesAgree' /\ CallsOK' /\ AwaitedOK' /\ ValidOK'
<1> USE DEF IInv, Typed, TypeOK
<1>1. /\ callerPC[k] \in {"sending", "refused"}
      /\ callerPC'[k] = IF callerPC[k] = "sending" THEN "waiting" ELSE "rollingBack"
      /\ \A j \in Callers : j = k
  BY DEF Moves, OneCaller
<1>2. \A n \in 1..Len(inbox) : inbox[n].from = None
  BY <1>1, PushersAreCallers DEF AwaitedOK
<1>3. /\ Len(inbox') = Len(inbox) + 1
      /\ inbox'[Len(inbox')] = [from |-> k, config |-> config]
      /\ \A n \in 1..Len(inbox) : inbox'[n] = inbox[n]
  <2>1. inbox \in Seq(Push)
    OBVIOUS
  <2> HIDE DEF Push
  <2> QED
    BY <2>1 DEF Receives
<1>4. Len(inbox) \in Nat
  OBVIOUS
<1>5. AwaitedOK'
  <2> SUFFICES ASSUME NEW n \in 1..Len(inbox'), inbox'[n].from # None
               PROVE  /\ n = Len(inbox')
                      /\ \/ callerPC'[inbox'[n].from] = "waiting" /\ inbox'[n].config = routes'
                         \/ callerPC'[inbox'[n].from] = "rollingBack"
    BY DEF AwaitedOK
  <2>1. n = Len(inbox')
    BY <1>2, <1>3, <1>4
  <2> QED
    BY <1>1, <1>3, <2>1 DEF managerVars, Moves
<1>6. Agrees(config)
  BY DEF TablesAgree
<1>7. TablesAgree'
  <2>1. \A n \in 1..Len(inbox') : Agrees(inbox'[n].config)
    BY <1>3, <1>4, <1>6 DEF TablesAgree
  <2> QED
    BY <2>1 DEF TablesAgree, Agrees, managerVars
<1>8. CallsOK'
  BY <1>1 DEF CallsOK, managerVars
<1>9. ValidOK'
  BY <1>1 DEF ValidOK, ValidateRoutes, managerVars
<1> QED
  BY <1>5, <1>7, <1>8, <1>9

\* Success confirms the call's route: all tables have it, and no other push is
\* left with Caddy.
LEMMA AcceptedInv ==
    ASSUME IInv, OneCaller, NEW k \in Callers, Accepted(k)
    PROVE  TablesAgree' /\ CallsOK' /\ AwaitedOK' /\ ValidOK'
<1> USE DEF IInv, Typed, TypeOK
<1>1. callerPC[k] = "accepted" /\ callerPC'[k] = "idle" /\ \A j \in Callers : j = k
  BY DEF Accepted, Moves, OneCaller
<1>2. inbox = <<>> /\ served = routes /\ built[k] = routes
  BY <1>1 DEF CallsOK
<1>3. lastKnownGood' = routes /\ UNCHANGED <<routes, call, built, inbox, served>>
  BY <1>2 DEF Accepted, caddyVars
<1>4. confirmed' = [confirmed EXCEPT ![call[k].owner] = routes[call[k].owner]]
  BY <1>1 DEF Accepted, CallsOK
<1>5. Agrees(routes)'
  BY <1>3, <1>4 DEF TablesAgree, Agrees
<1>6. TablesAgree'
  BY <1>2, <1>3, <1>5 DEF TablesAgree, Agrees
<1>7. CallsOK' /\ AwaitedOK'
  BY <1>1, <1>2, <1>3 DEF CallsOK, AwaitedOK
<1>8. ValidOK'
  BY <1>1, <1>3 DEF ValidOK, ValidateRoutes
<1> QED
  BY <1>6, <1>7, <1>8

\* A caller that gives up leaves its push with Caddy.
LEMMA GiveUpInv ==
    ASSUME IInv, OneCaller, NEW k \in Callers, GiveUp(k)
    PROVE  TablesAgree' /\ CallsOK' /\ AwaitedOK' /\ ValidOK'
<1> USE DEF IInv, Typed, TypeOK
<1>1. callerPC[k] \in {"waiting", "rollingBack"} /\ callerPC'[k] = "idle"
      /\ \A j \in Callers : j = k
  BY DEF GiveUp, OneCaller
<1>2. UNCHANGED <<routes, lastKnownGood, call, built, served, confirmed>>
  BY DEF GiveUp, managerVars
<1>3. Len(inbox') = Len(inbox)
  <2>1. inbox' = [n \in DOMAIN inbox |->
                    IF inbox[n].from \in {k} THEN [inbox[n] EXCEPT !.from = None]
                    ELSE inbox[n]]
    BY DEF GiveUp
  <2> QED
    BY <2>1, AbandonTyped
<1>4. \A n \in 1..Len(inbox) :
        inbox'[n] = IF inbox[n].from = k THEN [inbox[n] EXCEPT !.from = None] ELSE inbox[n]
  BY DEF GiveUp
<1>5. \A n \in 1..Len(inbox) : inbox[n] \in Push
  <2> HIDE DEF Push
  <2> QED
    OBVIOUS
<1>6. \A n \in 1..Len(inbox) : inbox'[n].from = None /\ inbox'[n].config = inbox[n].config
  BY ZenonT(60), <1>1, <1>4, <1>5 DEF Push
<1>7. AwaitedOK'
  BY <1>3, <1>6 DEF AwaitedOK
<1>8. TablesAgree'
  <2>1. \A n \in 1..Len(inbox') : Agrees(inbox[n].config)
    BY <1>3 DEF TablesAgree
  <2> QED
    BY <1>2, <1>3, <1>6, <2>1 DEF TablesAgree, Agrees
<1>9. CallsOK'
  BY <1>1, <1>2 DEF CallsOK
<1>10. ValidOK'
  BY <1>1, <1>2 DEF ValidOK, ValidateRoutes
<1> QED
  BY <1>7, <1>8, <1>9, <1>10

\* Caddy takes the first push: what remains still agrees, and success is told
\* when nothing remains.
LEMMA AnswerInv ==
    ASSUME IInv, OneCaller, NEW waiting \in {"accepted", "refused"}, Answer(waiting),
           \/ waiting = "accepted" /\ served' = Head(inbox).config
           \/ waiting = "refused" /\ UNCHANGED served
    PROVE  TablesAgree' /\ CallsOK' /\ AwaitedOK' /\ ValidOK'
<1> USE DEF IInv, Typed, TypeOK
<1>1. UNCHANGED <<routes, lastKnownGood, call, built, confirmed>>
  BY DEF Answer, managerVars
<1>2. inbox \in Seq(Push) /\ inbox # <<>>
  BY DEF Answer
<1>3. /\ Len(inbox) \in Nat \ {0} /\ Len(inbox') = Len(inbox) - 1
      /\ Head(inbox) = inbox[1]
      /\ \A n \in 1..Len(inbox') : inbox'[n] = inbox[n + 1]
  <2> HIDE DEF Push
  <2> QED
    BY <1>2 DEF Answer
<1> DEFINE f == inbox[1].from
<1>4. f \in Callers \cup {None}
  BY <1>3, PushersAreCallers
<1>5. \A n \in 1..Len(inbox') : n + 1 \in 1..Len(inbox) /\ n + 1 # 1
  BY <1>3
<1>6. \A n \in 1..Len(inbox') : Agrees(inbox'[n].config)
  BY <1>3, <1>5 DEF TablesAgree
<1>7. 1 \in 1..Len(inbox)
  BY <1>3
<1>8. Agrees(inbox[1].config)
  BY <1>7 DEF TablesAgree
<1>9. served' = served \/ served' = inbox[1].config
  BY <1>3
<1>10. TablesAgree'
  BY <1>1, <1>6, <1>8, <1>9 DEF TablesAgree, Agrees
<1>11. ASSUME f = None PROVE callerPC' = callerPC
  BY <1>3, <1>11 DEF Answer
<1>12. ASSUME f # None
       PROVE  /\ f \in Callers /\ \A j \in Callers : j = f
              /\ inbox' = <<>>
              /\ \/ callerPC[f] = "waiting" /\ inbox[1].config = routes /\ callerPC'[f] = waiting
                 \/ callerPC[f] = "rollingBack" /\ callerPC'[f] = "idle"
  <2>1. f \in Callers /\ \A j \in Callers : j = f
    BY <1>4, <1>12 DEF OneCaller
  <2>2. /\ Len(inbox) = 1
        /\ \/ callerPC[f] = "waiting" /\ inbox[1].config = routes
           \/ callerPC[f] = "rollingBack"
    BY <1>7, <1>12 DEF AwaitedOK
  <2>3. inbox' = <<>>
    <3> HIDE DEF Push
    <3> QED
      BY <1>2, <1>3, <2>2, AnswerTyped
  <2>4. callerPC'[f] = IF callerPC[f] = "waiting" THEN waiting ELSE "idle"
    BY <1>3, <1>12, <2>1 DEF Answer
  <2> QED
    BY <2>1, <2>2, <2>3, <2>4
<1> HIDE DEF f
<1>13. CallsOK'
  <2>1. CASE f = None
    <3>1. \A k \in Callers : callerPC[k] # "accepted"
      BY <1>2 DEF CallsOK
    <3> QED
      BY <1>1, <1>11, <2>1, <3>1 DEF CallsOK
  <2>2. CASE f # None
    <3>1. callerPC'[f] = "accepted" => served' = routes
      BY <1>3, <1>12, <2>2
    <3> QED
      BY <1>1, <1>12, <2>2, <3>1 DEF CallsOK
  <2> QED
    BY <2>1, <2>2
<1>14. AwaitedOK'
  <2>1. CASE f = None
    <3> SUFFICES ASSUME NEW n \in 1..Len(inbox'), inbox'[n].from # None
                 PROVE  /\ n = Len(inbox')
                        /\ \/ /\ callerPC'[inbox'[n].from] = "waiting"
                              /\ inbox'[n].config = routes'
                           \/ callerPC'[inbox'[n].from] = "rollingBack"
      BY DEF AwaitedOK
    <3>1. n + 1 \in 1..Len(inbox) /\ inbox'[n] = inbox[n + 1]
      BY <1>3, <1>5
    <3>2. /\ n + 1 = Len(inbox)
          /\ \/ callerPC[inbox[n + 1].from] = "waiting" /\ inbox[n + 1].config = routes
             \/ callerPC[inbox[n + 1].from] = "rollingBack"
      BY <3>1 DEF AwaitedOK
    <3>3. n = Len(inbox')
      BY <1>3, <3>2
    <3> QED
      BY <1>1, <1>11, <2>1, <3>1, <3>2, <3>3
  <2>2. CASE f # None
    BY <1>12, <2>2 DEF AwaitedOK
  <2> QED
    BY <2>1, <2>2
<1>15. ValidOK'
  <2>1. \A k \in Callers : callerPC'[k] = "validating" <=> callerPC[k] = "validating"
    BY <1>11, <1>12
  <2> QED
    BY <1>1, <2>1 DEF ValidOK, ValidateRoutes
<1> QED
  BY <1>10, <1>13, <1>14, <1>15

\* A push that nobody waits for is dropped.
LEMMA DropInv ==
    ASSUME IInv, OneCaller, CaddyDrops
    PROVE  TablesAgree' /\ CallsOK' /\ AwaitedOK' /\ ValidOK'
<1> USE DEF IInv, Typed, TypeOK
<1>1. UNCHANGED <<managerVars, callVars, served, confirmed>>
  BY DEF CaddyDrops
<1>2. inbox \in Seq(Push) /\ inbox # <<>>
  BY DEF CaddyDrops
<1>3. /\ Len(inbox) \in Nat \ {0} /\ Len(inbox') = Len(inbox) - 1
      /\ \A n \in 1..Len(inbox') : inbox'[n] = inbox[n + 1]
  <2> HIDE DEF Push
  <2> QED
    BY <1>2 DEF CaddyDrops
<1>4. \A n \in 1..Len(inbox') : n + 1 \in 1..Len(inbox)
  BY <1>3
<1>5. \A n \in 1..Len(inbox') : Agrees(inbox'[n].config)
  BY <1>3, <1>4 DEF TablesAgree
<1>6. TablesAgree'
  BY <1>1, <1>5 DEF TablesAgree, Agrees, managerVars
<1>7. CallsOK'
  BY <1>1, <1>2 DEF CallsOK, managerVars, callVars
<1>8. AwaitedOK'
  BY <1>1, <1>3, <1>4 DEF AwaitedOK, managerVars, callVars
<1>9. ValidOK'
  BY <1>1 DEF ValidOK, ValidateRoutes, managerVars, callVars
<1> QED
  BY <1>6, <1>7, <1>8, <1>9

\* A manager that starts has confirmed nothing, and waits for nothing.
LEMMA RestartInv ==
    ASSUME IInv, Restart
    PROVE  TablesAgree' /\ CallsOK' /\ AwaitedOK' /\ ValidOK'
<1> USE DEF IInv, Typed, TypeOK
<1>1. TablesAgree'
  BY ManagerAssumption DEF Restart, TablesAgree, Agrees
<1>2. CallsOK'
  BY DEF Restart, CallsOK
<1>3. \A n \in 1..Len(inbox) : inbox[n] \in Push
  <2> HIDE DEF Push
  <2> QED
    OBVIOUS
<1>4. \A n \in 1..Len(inbox) : inbox'[n].from = None
  BY <1>3 DEF Restart, Push
<1>5. inbox' \in [1..Len(inbox) -> Push] /\ Len(inbox') = Len(inbox)
  <2>1. \A n \in 1..Len(inbox) : [inbox[n] EXCEPT !.from = None] \in Push
    BY <1>3 DEF Push
  <2> HIDE DEF Push
  <2>2. inbox' \in [1..Len(inbox) -> Push]
    BY <2>1 DEF Restart
  <2> QED
    BY <2>2
<1>6. AwaitedOK'
  BY <1>4, <1>5 DEF AwaitedOK
<1>7. ValidOK'
  BY DEF Restart, ValidOK, ValidateRoutes, EmptyTable, Owners
<1> QED
  BY <1>1, <1>2, <1>6, <1>7

\* Every step keeps the invariant, as long as there is one caller.
LEMMA NextInv ==
    ASSUME OneCaller
    PROVE  IInv /\ [Next]_vars => IInv'
<1> SUFFICES ASSUME IInv, [Next]_vars PROVE IInv'
  OBVIOUS
<1>1. Typed'
  BY NextTyped DEF IInv
<1>2. ASSUME NEW k \in Callers, NEW a \in Apps, UpsertRoute(k, a) \/ RemoveRoute(k, a)
      PROVE  IInv'
  <2>1. a \in Owners /\ Requested[a] \subseteq Route
    BY ManagerAssumption DEF Owners
  <2>2. CASE UpsertRoute(k, a)
    <3>1. PICK r \in Requested[a] : Change(k, a, r, "validating")
      BY <2>2 DEF UpsertRoute
    <3> QED
      BY <1>1, <2>1, <3>1, ChangeInv DEF IInv
  <2>3. CASE RemoveRoute(k, a)
    BY <1>1, <2>1, <2>3, ChangeInv DEF IInv, RemoveRoute
  <2> QED
    BY <1>2, <2>2, <2>3
<1>3. ASSUME NEW k \in Callers, SetDashboardRoute(k) \/ RemoveDashboardRoute(k)
      PROVE  IInv'
  <2>1. Dashboard \in Owners
    BY DEF Owners
  <2>2. CASE SetDashboardRoute(k)
    <3>1. PICK h \in Hosts : Change(k, Dashboard, DashboardRoute(h), "applying")
      BY <2>2 DEF SetDashboardRoute
    <3> QED
      BY <1>1, <2>1, <3>1, DashboardIsRoute, ChangeInv DEF IInv
  <2>3. CASE RemoveDashboardRoute(k)
    BY <1>1, <2>1, <2>3, ChangeInv DEF IInv, RemoveDashboardRoute
  <2> QED
    BY <1>3, <2>2, <2>3
<1>4. ASSUME NEW k \in Callers, ValidateUpsert(k) PROVE IInv'
  BY <1>1, <1>4, ValidateUpsertInv DEF IInv
<1>5. ASSUME NEW k \in Callers,
             ApplyValidate(k) \/ BuildConfig(k) \/ PushFails(k) \/ RollBackFails(k)
      PROVE  IInv'
  BY <1>1, <1>5, QuietInv DEF IInv
<1>6. ASSUME NEW k \in Callers, PushConfig(k) PROVE IInv'
  <2>1. built[k] = routes
    BY <1>6 DEF IInv, CallsOK, PushConfig, Moves
  <2>2. routes \in Table
    BY DEF IInv, Typed, TypeOK
  <2> QED
    BY <1>1, <1>6, <2>1, <2>2, ReceivesInv DEF IInv, PushConfig
<1>7. ASSUME NEW k \in Callers, GiveUp(k) PROVE IInv'
  BY <1>1, <1>7, GiveUpInv DEF IInv
<1>8. ASSUME NEW k \in Callers, Accepted(k) PROVE IInv'
  BY <1>1, <1>8, AcceptedInv DEF IInv
<1>9. ASSUME NEW k \in Callers, RollBack(k) PROVE IInv'
  <2>1. lastKnownGood \in Table
    BY <1>9 DEF IInv, Typed, TypeOK, RollBack
  <2> QED
    BY <1>1, <1>9, <2>1, ReceivesInv DEF IInv, RollBack
<1>10. CASE CaddyAccepts
  BY <1>1, <1>10, AnswerInv DEF IInv, CaddyAccepts
<1>11. CASE CaddyRefuses
  BY <1>1, <1>11, AnswerInv DEF IInv, CaddyRefuses
<1>12. CASE CaddyDrops
  BY <1>1, <1>12, DropInv DEF IInv
<1>13. CASE Restart
  BY <1>1, <1>13, RestartInv DEF IInv
<1>14. CASE UNCHANGED vars
  BY <1>1, <1>14 DEF IInv, TablesAgree, Agrees, CallsOK, AwaitedOK, ValidOK, ValidateRoutes,
                     vars, managerVars, callVars, caddyVars
<1> QED
  BY <1>2, <1>3, <1>4, <1>5, <1>6, <1>7, <1>8, <1>9, <1>10, <1>11, <1>12, <1>13, <1>14
     DEF Next

\* ConfirmedIsServed, AcceptedIsCurrent and TableStaysValid hold whatever Caddy
\* refuses, drops or carries out late, for any routes and any number of calls,
\* as long as no two calls overlap.
THEOREM SerialCalls ==
    ASSUME OneCaller
    PROVE  Spec => [](ConfirmedIsServed /\ AcceptedIsCurrent /\ TableStaysValid)
<1>1. IInv => ConfirmedIsServed /\ AcceptedIsCurrent /\ TableStaysValid
  BY DEF IInv, TablesAgree, Agrees, CallsOK, ValidOK, ConfirmedIsServed,
         AcceptedIsCurrent, TableStaysValid
<1>2. IInv /\ [Next]_vars => IInv'
  BY NextInv
<1> QED
  BY <1>1, <1>2, InitInv, PTL DEF Spec

\* AcceptedIsCurrent: success means that Caddy serves the whole table.
THEOREM SuccessMeansServed ==
    ASSUME OneCaller
    PROVE  Spec => []AcceptedIsCurrent
BY SerialCalls, PTL

\* TableStaysValid: no call, refused or not, leaves a conflict in the table.
THEOREM NoConflictStays ==
    ASSUME OneCaller
    PROVE  Spec => []TableStaysValid
BY SerialCalls, PTL

-----------------------------------------------------------------------------
(* Who answers.  The first matcher of the list that fits a request is the    *)
(* most specific one: of two patterns that fit one path, the longer one in   *)
(* segments begins with the other, and is the longer one in bytes.           *)

\* A prefix has the elements of the whole.
LEMMA PrefixElements ==
    ASSUME NEW q \in Seq(Segments), NEW p \in Seq(Segments)
    PROVE  IsPrefix(q, p) <=> Len(q) <= Len(p) /\ \A i \in 1..Len(q) : q[i] = p[i]
<1>1. Len(q) \in Nat /\ Len(p) \in Nat
  OBVIOUS
<1>2. SubSeq(q, 1, Len(q)) = q
  BY <1>1
<1>3. ASSUME Len(q) <= Len(p)
      PROVE  /\ SubSeq(p, 1, Len(q)) \in Seq(Segments)
             /\ Len(SubSeq(p, 1, Len(q))) = Len(q)
             /\ \A i \in 1..Len(q) : SubSeq(p, 1, Len(q))[i] = p[i]
  BY <1>1, <1>3
<1>4. ASSUME Len(q) <= Len(p), \A i \in 1..Len(q) : q[i] = p[i]
      PROVE  q = SubSeq(p, 1, Len(q))
  BY <1>1, <1>3, <1>4
<1> QED
  BY <1>2, <1>3, <1>4 DEF IsPrefix

\* The shorter of two prefixes of a path is a prefix of the longer one.
LEMMA PrefixesNest ==
    ASSUME NEW q \in Seq(Segments), NEW r \in Seq(Segments), NEW p \in Seq(Segments),
           IsPrefix(q, p), IsPrefix(r, p), Len(q) <= Len(r)
    PROVE  IsPrefix(q, r) /\ (Len(q) = Len(r) => q = r)
<1>1. Len(q) \in Nat /\ Len(r) \in Nat /\ Len(p) \in Nat
  OBVIOUS
<1>2. \A i \in 1..Len(q) : q[i] = p[i] /\ r[i] = p[i]
  BY <1>1, PrefixElements
<1> QED
  BY <1>1, <1>2, PrefixElements

\* A pattern that fits a path is the better one of two just when it is the
\* longer one in bytes.
LEMMA BytesGrow ==
    ASSUME NEW q \in Paths, NEW r \in Paths, NEW p \in Paths,
           IsPrefix(q, p), IsPrefix(r, p), Len(q) <= Len(r)
    PROVE  IF q = r THEN Len(q) = Len(r) ELSE Len(q) < Len(r) /\ PathBytes[q] < PathBytes[r]
<1>1. q \in Seq(Segments) /\ r \in Seq(Segments) /\ p \in Seq(Segments)
  BY ConfigAssumption
<1>2. Len(q) \in Nat /\ Len(r) \in Nat
  BY <1>1
<1>3. IsPrefix(q, r) /\ (Len(q) = Len(r) => q = r)
  BY <1>1, PrefixesNest
<1>4. q # r => PathBytes[q] < PathBytes[r]
  BY <1>3, ConfigAssumption
<1> QED
  BY <1>2, <1>3, <1>4

\* A set of numbers with a bound has a largest one: among its subsets without
\* one there would be a smallest.
LEMMA LargestNumber ==
    ASSUME NEW L \in SUBSET Nat, L # {}, NEW m \in Nat, \A i \in L : i <= m
    PROVE  \E n \in L : \A i \in L : i <= n
<1> DEFINE Bad == {A \in FiniteSubsetsOf(Nat) : A # {} /\ \A x \in A : \E y \in A : y > x}
<1>1. IsFiniteSet(L)
  <2>1. IsFiniteSet(0..m)
    BY FS_Interval
  <2>2. L \subseteq 0..m
    OBVIOUS
  <2> QED
    BY <2>1, <2>2, FS_Subset
<1> SUFFICES ASSUME \A n \in L : \E i \in L : i > n
             PROVE  FALSE
  OBVIOUS
<1>2. L \in Bad /\ Bad \subseteq FiniteSubsetsOf(Nat)
  BY <1>1 DEF FiniteSubsetsOf
<1>3. IsWellFoundedOn(StrictSubsetOrdering(Nat), FiniteSubsetsOf(Nat))
  BY FS_StrictSubsetOrderingWellFounded
<1> HIDE DEF Bad
<1>4. PICK A \in Bad : \A B \in Bad : ~ (<<B, A>> \in StrictSubsetOrdering(Nat))
  BY <1>2, <1>3, WFMin
<1>5. A \in SUBSET Nat /\ IsFiniteSet(A) /\ A # {} /\ \A x \in A : \E y \in A : y > x
  BY DEF Bad, FiniteSubsetsOf
<1>6. PICK x \in A, y \in A : y > x
  BY <1>5
<1> DEFINE B == A \ {x}
<1>7. B \in SUBSET Nat /\ y \in B /\ IsFiniteSet(B) /\ x \notin B
  BY <1>5, <1>6, FS_RemoveElement
<1>8. <<B, A>> \in StrictSubsetOrdering(Nat)
  BY <1>5, <1>7 DEF StrictSubsetOrdering
<1>9. B \notin Bad
  BY <1>4, <1>8
<1>10. PICK b \in B : \A z \in B : ~ (z > b)
  BY <1>7, <1>9 DEF Bad, FiniteSubsetsOf
<1>11. PICK z \in A : z > b
  BY <1>5, <1>10
<1>12. z = x
  BY <1>10, <1>11
<1> QED
  BY <1>5, <1>6, <1>7, <1>10, <1>11, <1>12

\* The dashboard's route, if there is one, is for all of a host.
DashboardIsWhole(table) ==
    table[Dashboard] = None \/ \E h \in Hosts : table[Dashboard] = DashboardRoute(h)

\* A table that requests can be answered by.
Servable == {t \in Table : DashboardIsWhole(t) /\ ValidateRoutes(t)}

\* What the matchers of a table are.
LEMMA ItemsAre ==
    ASSUME NEW t \in Servable
    PROVE  /\ \A x \in AppItems(t) :
                 /\ x.owner \in Apps /\ t[x.owner] # None
                 /\ x.host \in Hosts /\ x.path \in Paths
                 /\ <<x.host, x.path>> \in t[x.owner].domains
                 /\ x = [owner |-> x.owner, host |-> x.host, path |-> x.path]
           /\ \A x \in DashboardItems(t) :
                 /\ x.owner = Dashboard /\ t[Dashboard] # None /\ x.path = <<>>
                 /\ <<x.host, <<>>>> \in t[Dashboard].domains
           /\ \A h \in Hosts :
                 t[Dashboard] # None /\ <<h, <<>>>> \in t[Dashboard].domains =>
                     [owner |-> Dashboard, host |-> h, path |-> <<>>] \in DashboardItems(t)
<1>1. t \in Table /\ DashboardIsWhole(t)
  BY DEF Servable
<1>2. ASSUME NEW x \in AppItems(t)
      PROVE  /\ x.owner \in Apps /\ t[x.owner] # None
             /\ x.host \in Hosts /\ x.path \in Paths
             /\ <<x.host, x.path>> \in t[x.owner].domains
             /\ x = [owner |-> x.owner, host |-> x.host, path |-> x.path]
  <2>1. PICK a \in Apps : t[a] # None /\ \E d \in t[a].domains :
                            x = [owner |-> a, host |-> d[1], path |-> d[2]]
    BY <1>2 DEF AppItems
  <2>2. PICK d \in t[a].domains : x = [owner |-> a, host |-> d[1], path |-> d[2]]
    BY <2>1
  <2>3. t[a] \in Route
    BY <1>1, <2>1 DEF Table, Owners
  <2>4. d \in Hosts \X Paths
    BY <2>3 DEF Route
  <2>5. d = <<d[1], d[2]>> /\ d[1] \in Hosts /\ d[2] \in Paths
    BY <2>4
  <2> QED
    BY <2>1, <2>2, <2>5
<1>3. ASSUME NEW x \in DashboardItems(t)
      PROVE  /\ x.owner = Dashboard /\ t[Dashboard] # None /\ x.path = <<>>
             /\ <<x.host, <<>>>> \in t[Dashboard].domains
  <2>1. PICK d \in t[Dashboard].domains :
               t[Dashboard] # None /\ x = [owner |-> Dashboard, host |-> d[1], path |-> <<>>]
    BY <1>3 DEF DashboardItems
  <2>2. PICK h \in Hosts : t[Dashboard] = DashboardRoute(h)
    BY <1>1, <2>1 DEF DashboardIsWhole
  <2>3. d = <<h, <<>>>>
    BY <2>2 DEF DashboardRoute
  <2> QED
    BY <2>1, <2>3
<1>4. ASSUME NEW h \in Hosts, t[Dashboard] # None, <<h, <<>>>> \in t[Dashboard].domains
      PROVE  [owner |-> Dashboard, host |-> h, path |-> <<>>] \in DashboardItems(t)
  BY <1>4 DEF DashboardItems
<1> QED
  BY <1>2, <1>3, <1>4

\* Of the applications' matchers that fit a request, the one that comes first is
\* the most specific one, and no two come first.
LEMMA FirstIsBest ==
    ASSUME NEW t \in Servable, NEW h \in Hosts, NEW p \in Paths,
           NEW x \in Fitting(t, h, p), NEW y \in Fitting(t, h, p),
           Len(x.path) <= Len(y.path)
    PROVE  /\ ~ComesBefore(x, y)
           /\ x # y => ComesBefore(y, x) /\ Len(x.path) < Len(y.path)
<1>1. x.owner # Dashboard /\ y.owner # Dashboard /\ x.host = y.host /\ x.host \in Nat
  BY ItemsAre, ConfigAssumption DEF Fitting, Fits
<1>2. x.path \in Paths /\ y.path \in Paths /\ IsPrefix(x.path, p) /\ IsPrefix(y.path, p)
  BY ItemsAre DEF Fitting, Fits
<1>3. PathBytes[x.path] \in Nat /\ PathBytes[y.path] \in Nat
      /\ Len(x.path) \in Nat /\ Len(y.path) \in Nat
  BY <1>2, ConfigAssumption
<1>4. IF x.path = y.path THEN Len(x.path) = Len(y.path)
      ELSE Len(x.path) < Len(y.path) /\ PathBytes[x.path] < PathBytes[y.path]
  BY <1>2, BytesGrow
<1>5. x.path # y.path => y.path # <<>>
  BY <1>3, <1>4
<1>6. x.path = y.path => x = y
  <2> SUFFICES ASSUME x.path = y.path, x.owner # y.owner PROVE FALSE
    BY <1>1, ItemsAre DEF Fitting
  <2>1. x.owner \in Apps /\ y.owner \in Apps /\ t[x.owner] # None /\ t[y.owner] # None
    BY ItemsAre DEF Fitting
  <2>2. <<x.host, x.path>> \in t[x.owner].domains \cap t[y.owner].domains
    BY <1>1, ItemsAre DEF Fitting
  <2> QED
    BY <2>1, <2>2 DEF Servable, ValidateRoutes
<1>7. ~ComesBefore(x, y)
  BY <1>1, <1>3, <1>4, <1>5 DEF ComesBefore, Rank, SpecificBefore, CatchAllBefore
<1>8. x # y => ComesBefore(y, x)
  BY <1>1, <1>3, <1>4, <1>5, <1>6 DEF ComesBefore, Rank, SpecificBefore
<1> QED
  BY <1>4, <1>6, <1>7, <1>8

\* A table that can be served sends each request where it should go.
LEMMA FirstAnswers ==
    ASSUME NEW t \in Servable, NEW h \in Hosts, NEW p \in Paths
    PROVE  ShouldAnswer(t, h, p) = {Answers(t, h, p)}
<1> DEFINE all == {x \in BuildCaddyConfig(t) : Fits(x, h, p)}
           first == CHOOSE x \in all : \A y \in all : ~ComesBefore(y, x)
<1>1. Answers(t, h, p) = IF all = {} THEN None ELSE first.owner
  BY DEF Answers
<1>2. <<>> \in Paths /\ p \in Seq(Segments) /\ IsPrefix(<<>>, p)
  <2>1. p \in Seq(Segments) /\ <<>> \in Seq(Segments) /\ Len(<<>>) = 0 /\ Len(p) \in Nat
    BY ConfigAssumption
  <2> QED
    BY <2>1, ConfigAssumption, PrefixElements
<1>3. CASE t[Dashboard] # None /\ <<h, <<>>>> \in t[Dashboard].domains
  <2> DEFINE d == [owner |-> Dashboard, host |-> h, path |-> <<>>]
  <2>1. d \in all
    BY <1>2, <1>3, ItemsAre DEF BuildCaddyConfig, Fits
  <2>2. \A x \in all : ~ComesBefore(x, d)
    BY DEF ComesBefore, Rank
  <2>3. \A x \in all : x.owner # Dashboard => ComesBefore(d, x)
    BY DEF ComesBefore, Rank
  <2> HIDE DEF d, all
  <2>4. first \in all /\ \A y \in all : ~ComesBefore(y, first)
    BY <2>1, <2>2
  <2>5. first.owner = Dashboard
    BY <2>1, <2>3, <2>4
  <2> QED
    BY <1>1, <1>3, <2>1, <2>5 DEF ShouldAnswer
<1>4. CASE ~(t[Dashboard] # None /\ <<h, <<>>>> \in t[Dashboard].domains)
  <2> DEFINE F == Fitting(t, h, p)
             best == {y \in F : \A z \in F : Len(z.path) <= Len(y.path)}
  <2>1. \A x \in DashboardItems(t) : ~Fits(x, h, p)
    BY <1>4, ItemsAre DEF Fits
  <2>2. all = F
    BY <2>1 DEF BuildCaddyConfig, Fitting
  <2>3. ShouldAnswer(t, h, p) = IF F = {} THEN {None} ELSE {x.owner : x \in best}
    BY <1>4 DEF ShouldAnswer
  <2>4. CASE F = {}
    BY <1>1, <2>2, <2>3, <2>4
  <2>5. CASE F # {}
    <3>1. \A x \in F : Len(x.path) \in Nat /\ Len(x.path) <= Len(p)
      <4>1. \A x \in F : x.path \in Seq(Segments) /\ IsPrefix(x.path, p)
        BY ItemsAre, ConfigAssumption DEF Fitting, Fits
      <4> QED
        BY <1>2, <4>1, PrefixElements
    <3>2. PICK y \in F : \A z \in F : Len(z.path) <= Len(y.path)
      <4> HIDE DEF F
      <4> DEFINE L == {Len(x.path) : x \in F}
      <4>1. Len(p) \in Nat /\ \A i \in L : i \in Nat /\ i <= Len(p)
        BY <1>2, <3>1
      <4>2. L # {}
        BY <2>5
      <4> HIDE DEF L
      <4>3. PICK n \in L : \A i \in L : i <= n
        BY <4>1, <4>2, LargestNumber
      <4> QED
        BY <4>3 DEF L
    <3>3. \A z \in F : ~ComesBefore(z, y)
      BY <3>2, FirstIsBest
    <3>4. \A z \in F : z # y => ComesBefore(y, z) /\ Len(z.path) < Len(y.path)
      BY <3>2, FirstIsBest
    <3> HIDE DEF F
    <3>5. first = y
      BY <2>2, <3>3, <3>4
    <3>6. best = {y}
      BY <3>1, <3>2, <3>4
    <3> QED
      BY <1>1, <2>2, <2>3, <2>5, <3>5, <3>6
  <2> QED
    BY <2>4, <2>5
<1> QED
  BY <1>3, <1>4

-----------------------------------------------------------------------------
(* What Caddy may be sent.  The manager pushes its table as it finds it after *)
(* apply's check, and may have been changed by another call in between: that  *)
(* no call is between the two, or that no two applications ask for the same,  *)
(* is what makes every pushed table one that can be served.                   *)

\* No two applications ask for one host and pattern.
NoConflicts ==
    \A a, b \in Apps : a # b =>
        \A r \in Requested[a], s \in Requested[b] : r.domains \cap s.domains = {}

\* What an owner may have in a table, and tables that have nothing else.
Wanted(o) == IF o = Dashboard THEN {DashboardRoute(h) : h \in Hosts} ELSE Requested[o]
Asked(table) == \A o \in Owners : table[o] \in Wanted(o) \cup {None}

\* The manager's table has what was asked for, and so has what a call would put
\* back.
AskedOK ==
    /\ Asked(routes)
    /\ \A k \in Callers :
          callerPC[k] # "idle" => call[k].old \in Wanted(call[k].owner) \cup {None}

\* The configurations that may yet be served.
TablesIn(G) ==
    /\ served \in G
    /\ lastKnownGood # None => lastKnownGood \in G
    /\ \A k \in Callers : callerPC[k] \in {"sending", "waiting", "accepted"} => built[k] \in G
    /\ \A n \in 1..Len(inbox) : inbox[n].config \in G

\* A call that begins asks for a route of its owner.
LEMMA ChangeAsked ==
    ASSUME Typed, AskedOK, NEW k \in Callers, NEW o \in Owners,
           NEW r \in Wanted(o) \cup {None}, NEW next \in CallerPCs, Change(k, o, r, next)
    PROVE  AskedOK'
<1>1. call'[k] = [owner |-> o, route |-> r, old |-> routes[o]]
      /\ \A j \in Callers \ {k} : call'[j] = call[j] /\ callerPC'[j] = callerPC[j]
  BY DEF Change, Moves, Typed, TypeOK
<1>2. \A q \in Owners : routes'[q] = IF q = o THEN r ELSE routes[q]
  BY DEF Change, Typed, TypeOK, Table
<1> HIDE DEF Wanted
<1>3. Asked(routes)'
  BY <1>2 DEF AskedOK, Asked
<1>4. call'[k].old \in Wanted(call'[k].owner) \cup {None}
  BY <1>1 DEF AskedOK, Asked
<1> QED
  BY <1>1, <1>3, <1>4 DEF AskedOK

\* The table and what calls would put back have only what was asked for.
LEMMA NextAsked ==
    ASSUME Typed, AskedOK, [Next]_vars
    PROVE  AskedOK'
<1>1. ASSUME NEW k \in Callers, NEW a \in Apps, UpsertRoute(k, a) \/ RemoveRoute(k, a)
      PROVE  AskedOK'
  <2>1. a \in Owners /\ Wanted(a) = Requested[a]
    BY ConfigAssumption DEF Owners, Wanted
  <2> QED
    BY <1>1, <2>1, ChangeAsked DEF UpsertRoute, RemoveRoute, CallerPCs
<1>2. ASSUME NEW k \in Callers, SetDashboardRoute(k) \/ RemoveDashboardRoute(k)
      PROVE  AskedOK'
  <2>1. Dashboard \in Owners /\ \A h \in Hosts : DashboardRoute(h) \in Wanted(Dashboard)
    BY DEF Owners, Wanted
  <2> QED
    BY <1>2, <2>1, ChangeAsked DEF SetDashboardRoute, RemoveDashboardRoute, CallerPCs
<1> HIDE DEF Wanted
<1>3. ASSUME NEW k \in Callers, ValidateUpsert(k) PROVE AskedOK'
  <2>1. /\ callerPC[k] = "validating" /\ call' = call
        /\ \A j \in Callers : callerPC'[j] # "idle" => callerPC[j] # "idle"
    BY <1>3 DEF ValidateUpsert, Moves, Typed, TypeOK
  <2>2. call[k].old \in Wanted(call[k].owner) \cup {None}
    BY <2>1 DEF AskedOK
  <2>3. \A q \in Owners :
          routes'[q] = routes[q] \/ (q = call[k].owner /\ routes'[q] = call[k].old)
    BY <1>3 DEF ValidateUpsert, Typed, TypeOK, Table
  <2>4. Asked(routes)'
    BY <2>2, <2>3 DEF AskedOK, Asked
  <2> QED
    BY <2>1, <2>4 DEF AskedOK
<1>4. ASSUME NEW k \in Callers,
             \/ ApplyValidate(k) \/ BuildConfig(k) \/ PushConfig(k) \/ PushFails(k)
             \/ GiveUp(k) \/ Accepted(k) \/ RollBack(k) \/ RollBackFails(k)
      PROVE  AskedOK'
  <2>1. /\ routes' = routes /\ call' = call
        /\ \A j \in Callers : callerPC'[j] # "idle" => callerPC[j] # "idle"
    BY <1>4 DEF ApplyValidate, BuildConfig, PushConfig, PushFails, GiveUp, Accepted,
                RollBack, RollBackFails, Moves, managerVars, Typed, TypeOK
  <2> QED
    BY <2>1 DEF AskedOK, Asked
<1>5. ASSUME NEW w \in {"accepted", "refused"}, Answer(w) PROVE AskedOK'
  <2>1. routes' = routes /\ call' = call
    BY <1>5 DEF Answer, managerVars
  <2>2. inbox # <<>> /\ inbox \in Seq(Push)
    BY <1>5 DEF Answer, Typed, TypeOK
  <2>3. Head(inbox).from \in Callers \cup {None}
    BY <1>5, AnswerTyped DEF Push
  <2>4. \A j \in Callers : callerPC'[j] # "idle" => callerPC[j] # "idle"
    BY <1>5, <2>3 DEF Answer, Typed, TypeOK
  <2> QED
    BY <2>1, <2>4 DEF AskedOK, Asked
<1>6. ASSUME CaddyDrops \/ UNCHANGED vars PROVE AskedOK'
  BY <1>6 DEF CaddyDrops, vars, managerVars, callVars, AskedOK, Asked
<1>7. CASE Restart
  BY <1>7 DEF Restart, AskedOK, Asked, EmptyTable
<1> QED
  BY <1>1, <1>2, <1>3, <1>4, <1>5, <1>6, <1>7 DEF Next, CaddyAccepts, CaddyRefuses

\* A configuration is passed on as it was built: when those that are built are
\* in a set, all that may be served are.
LEMMA TablesStay ==
    ASSUME Typed, NEW G, TablesIn(G), EmptyTable \in G, [Next]_vars,
           \A k \in Callers : BuildConfig(k) => routes \in G
    PROVE  TablesIn(G)'
<1> USE DEF Typed, TypeOK
<1>1. ASSUME NEW k \in Callers, NEW o \in Owners, NEW r, NEW next \in {"validating", "applying"},
             Change(k, o, r, next)
      PROVE  TablesIn(G)'
  BY <1>1 DEF Change, Moves, caddyVars, TablesIn
<1>2. ASSUME NEW k \in Callers, NEW a \in Apps, UpsertRoute(k, a) \/ RemoveRoute(k, a)
      PROVE  TablesIn(G)'
  BY <1>1, <1>2 DEF UpsertRoute, RemoveRoute, Owners
<1>3. ASSUME NEW k \in Callers, SetDashboardRoute(k) \/ RemoveDashboardRoute(k)
      PROVE  TablesIn(G)'
  BY <1>1, <1>3 DEF SetDashboardRoute, RemoveDashboardRoute, Owners
<1>4. ASSUME NEW k \in Callers,
             \/ ValidateUpsert(k) \/ ApplyValidate(k) \/ PushFails(k) \/ RollBackFails(k)
      PROVE  TablesIn(G)'
  BY <1>4 DEF ValidateUpsert, ApplyValidate, PushFails, RollBackFails, Moves,
              managerVars, caddyVars, TablesIn
<1>5. ASSUME NEW k \in Callers, BuildConfig(k) PROVE TablesIn(G)'
  BY <1>5 DEF BuildConfig, Moves, managerVars, caddyVars, TablesIn
<1>6. ASSUME NEW k \in Callers, NEW config \in G, Receives(k, config)
      PROVE  \A n \in 1..Len(inbox') : inbox'[n].config \in G
  <2>1. /\ Len(inbox) \in Nat /\ Len(inbox') = Len(inbox) + 1
        /\ inbox'[Len(inbox')] = [from |-> k, config |-> config]
        /\ \A n \in 1..Len(inbox) : inbox'[n] = inbox[n]
    <3>1. inbox \in Seq(Push)
      OBVIOUS
    <3> HIDE DEF Push
    <3> QED
      BY <1>6, <3>1 DEF Receives
  <2>2. \A n \in 1..Len(inbox') : n \in 1..Len(inbox) \/ n = Len(inbox')
    BY <2>1
  <2> QED
    BY <2>1, <2>2 DEF TablesIn
<1>7. ASSUME NEW k \in Callers, PushConfig(k) PROVE TablesIn(G)'
  <2>1. built[k] \in G /\ callerPC'[k] = "waiting" /\ callerPC[k] = "sending"
    BY <1>7 DEF PushConfig, Moves, TablesIn
  <2>2. \A n \in 1..Len(inbox') : inbox'[n].config \in G
    BY <1>6, <1>7, <2>1 DEF PushConfig
  <2> QED
    BY <1>7, <2>1, <2>2 DEF PushConfig, Moves, managerVars, TablesIn
<1>8. ASSUME NEW k \in Callers, RollBack(k) PROVE TablesIn(G)'
  <2>1. lastKnownGood \in G
    BY <1>8 DEF RollBack, TablesIn
  <2>2. \A n \in 1..Len(inbox') : inbox'[n].config \in G
    BY <1>6, <1>8, <2>1 DEF RollBack
  <2> QED
    BY <1>8, <2>2 DEF RollBack, Moves, managerVars, TablesIn
<1>9. ASSUME NEW k \in Callers, Accepted(k) PROVE TablesIn(G)'
  BY <1>9 DEF Accepted, Moves, caddyVars, TablesIn
<1>10. \A n \in 1..Len(inbox) : inbox[n] \in Push
  <2> HIDE DEF Push
  <2> QED
    OBVIOUS
<1>11. ASSUME NEW k \in Callers, GiveUp(k) PROVE TablesIn(G)'
  <2>1. inbox' = [n \in DOMAIN inbox |->
                    IF inbox[n].from \in {k} THEN [inbox[n] EXCEPT !.from = None]
                    ELSE inbox[n]]
    BY <1>11 DEF GiveUp
  <2>2. Len(inbox') = Len(inbox)
    BY <2>1, AbandonTyped
  <2>3. \A n \in 1..Len(inbox) : inbox'[n].config = inbox[n].config
    BY <1>10, <2>1 DEF Push
  <2> QED
    BY <1>11, <2>2, <2>3 DEF GiveUp, managerVars, TablesIn
<1>12. /\ inbox # <<>> => Head(inbox) = inbox[1] /\ 1 \in 1..Len(inbox)
       /\ inbox # <<>> /\ inbox' = Tail(inbox) =>
            \A n \in 1..Len(inbox') : inbox'[n] = inbox[n + 1] /\ n + 1 \in 1..Len(inbox)
  <2>1. inbox \in Seq(Push)
    OBVIOUS
  <2> HIDE DEF Push
  <2> QED
    BY <2>1
<1>13. ASSUME NEW w \in {"accepted", "refused"}, Answer(w),
              served' = served \/ served' = Head(inbox).config
       PROVE  TablesIn(G)'
  <2>1. inbox # <<>> /\ inbox' = Tail(inbox)
    BY <1>13 DEF Answer
  <2>2. \A n \in 1..Len(inbox') : inbox'[n].config \in G
    BY <1>12, <2>1 DEF TablesIn
  <2>3. served' \in G
    BY <1>12, <1>13, <2>1 DEF TablesIn
  <2>4. Head(inbox).from \in Callers \cup {None}
    BY <1>13, AnswerTyped DEF Push
  <2>5. \A j \in Callers :
           callerPC'[j] \in {"sending", "waiting", "accepted"} =>
               callerPC[j] \in {"sending", "waiting", "accepted"}
    BY <1>13, <2>4 DEF Answer
  <2> QED
    BY <1>13, <2>2, <2>3, <2>5 DEF Answer, managerVars, TablesIn
<1>14. CASE CaddyDrops
  <2>1. \A n \in 1..Len(inbox') : inbox'[n].config \in G
    BY <1>12, <1>14 DEF CaddyDrops, TablesIn
  <2> QED
    BY <1>14, <2>1 DEF CaddyDrops, managerVars, callVars, TablesIn
<1>15. CASE Restart
  <2>1. \A n \in 1..Len(inbox) : inbox'[n].config = inbox[n].config
    BY <1>10, <1>15 DEF Restart, Push
  <2>2. Len(inbox') = Len(inbox)
    BY <1>15 DEF Restart
  <2> QED
    BY <1>15, <2>1, <2>2 DEF Restart, TablesIn
<1>16. CASE UNCHANGED vars
  BY <1>16 DEF vars, managerVars, callVars, caddyVars, TablesIn
<1> QED
  BY <1>2, <1>3, <1>4, <1>5, <1>7, <1>8, <1>9, <1>11, <1>13, <1>14, <1>15, <1>16
     DEF Next, CaddyAccepts, CaddyRefuses

\* A table that has only what was asked for, and no conflict, can be served.
LEMMA AskedIsServable ==
    ASSUME NEW t \in Table, Asked(t), NoConflicts \/ ValidateRoutes(t)
    PROVE  t \in Servable
<1>1. DashboardIsWhole(t)
  BY DEF Asked, Wanted, Owners, DashboardIsWhole
<1>2. \A a \in Apps : t[a] # None => t[a] \in Requested[a]
  BY ConfigAssumption DEF Asked, Wanted, Owners
<1>3. ValidateRoutes(t)
  BY <1>2 DEF NoConflicts, ValidateRoutes
<1> QED
  BY <1>1, <1>3 DEF Servable

\* Before the first push there is nothing to serve.
LEMMA NothingIsServable == EmptyTable \in Servable
<1>1. EmptyTable \in Table /\ Asked(EmptyTable) /\ ValidateRoutes(EmptyTable)
  BY DEF EmptyTable, Table, Asked, ValidateRoutes, Owners
<1> QED
  BY <1>1, AskedIsServable

\* What may be served can be, in the first state.
LEMMA InitServed == Init => AskedOK /\ TablesIn(Servable)
BY NothingIsServable DEF Init, AskedOK, Asked, EmptyTable, TablesIn

\* A table that can be served sends every request the right way.
LEMMA ServableGoesRight == TablesIn(Servable) => RequestsGoRight
BY FirstAnswers DEF TablesIn, RequestsGoRight

\* RequestsGoRight, for any paths, hosts and routes: the order of the list
\* gives each request to the most specific pattern, through refusals, rollbacks,
\* late pushes and restarts; as long as no two calls overlap or no two
\* applications ask for the same host and pattern.
THEOREM RequestsAlwaysGoRight ==
    ASSUME OneCaller \/ NoConflicts
    PROVE  Spec => []RequestsGoRight
<1>1. ASSUME OneCaller PROVE Spec => []RequestsGoRight
  <2> DEFINE Inv == IInv /\ AskedOK /\ TablesIn(Servable)
  <2>1. Inv /\ [Next]_vars => Inv'
    <3> SUFFICES ASSUME Inv, [Next]_vars PROVE Inv'
      OBVIOUS
    <3>1. Typed /\ IInv'
      BY <1>1, NextInv DEF IInv
    <3>2. AskedOK'
      BY <3>1, NextAsked
    <3>3. ASSUME NEW k \in Callers, BuildConfig(k) PROVE routes \in Servable
      <4>1. \A j \in Callers : callerPC[j] # "validating"
        BY <1>1, <3>3 DEF OneCaller, BuildConfig, Moves
      <4>2. ValidateRoutes(routes) /\ routes \in Table /\ Asked(routes)
        BY <4>1 DEF IInv, ValidOK, Typed, TypeOK, AskedOK
      <4> QED
        BY <4>2, AskedIsServable
    <3>4. TablesIn(Servable)'
      BY <3>1, <3>3, NothingIsServable, TablesStay
    <3> QED
      BY <3>1, <3>2, <3>4
  <2>2. Init => Inv
    BY InitInv, InitServed
  <2>3. Inv => RequestsGoRight
    BY ServableGoesRight
  <2> QED
    BY <2>1, <2>2, <2>3, PTL DEF Spec
<1>2. ASSUME NoConflicts PROVE Spec => []RequestsGoRight
  <2> DEFINE Inv == Typed /\ AskedOK /\ TablesIn(Servable)
  <2>1. Inv /\ [Next]_vars => Inv'
    <3> SUFFICES ASSUME Inv, [Next]_vars PROVE Inv'
      OBVIOUS
    <3>1. Typed' /\ AskedOK'
      BY NextTyped, NextAsked
    <3>2. routes \in Servable
      BY <1>2, AskedIsServable DEF Typed, TypeOK, AskedOK
    <3>3. TablesIn(Servable)'
      BY <3>2, NothingIsServable, TablesStay
    <3> QED
      BY <3>1, <3>3
  <2>2. Init => Inv
    BY InitTyped, InitServed
  <2>3. Inv => RequestsGoRight
    BY ServableGoesRight
  <2> QED
    BY <2>1, <2>2, <2>3, PTL DEF Spec
<1> QED
  BY <1>1, <1>2

===============================================================================
