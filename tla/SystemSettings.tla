--------------------------- MODULE SystemSettings ---------------------------
(***************************************************************************)
(* internal/system/settings.go and internal/api/handlers_domain.go: the    *)
(* settings, a record in memory and in a file, and the handlers that read  *)
(* it, change a copy, save the copy and set the dashboard's route.         *)
(*                                                                         *)
(* DashboardDomain is a function of PrimaryDomain and is left out, as are  *)
(* fields that only pages show: the server's address, the time of the      *)
(* update and whether the setup was skipped.  Of the proxy manager         *)
(* a call changes the table of routes, whether it succeeds or not: module  *)
(* ProxyManager has the rest.                                              *)
(***************************************************************************)
EXTENDS Storage

CONSTANTS
    Domains,   \* primary domains that ValidateDomain accepts
    Requests   \* requests to the server, each served by a goroutine

VARIABLES
    settings,  \* SettingsService.data
    route,     \* the domain whose dashboard the manager's table routes, or None
    lock,      \* who holds the mutex of the settings and that of the users
    pc,        \* where each request is
    req        \* what it is for, the copy of the settings it holds, and what an undo needs:
               \* the domain it found (old), the user it added (user)

settingsVars == <<settings, route>>
requestVars == <<lock, pc, req>>

SettingsFile == "config/settings.json"

Settings == [domain: Domains \cup {None}, verified: BOOLEAN, https: BOOLEAN]
NoSettings == [domain |-> None, verified |-> FALSE, https |-> FALSE]

SettingsOps == {"submit", "skip", "page", "verify", "update", "revert", "reverify", "toggle"}

\* Mutant of WithDomain: the flags outlive the domain.
WithDomainOnly(s, d) == [s EXCEPT !.domain = d]

\* SetPrimaryDomain's copy: without a domain there is nothing verified.
WithDomain(s, d) ==
    [s EXCEPT !.domain = d, !.verified = @ /\ d # None, !.https = @ /\ d # None]

\* load: a file that is not there leaves the defaults.
LoadedSettings == IF OnDisk(SettingsFile) = None THEN NoSettings ELSE OnDisk(SettingsFile)

\* main sets the dashboard's route at the start, if HTTPS is on.
BootRoute(s) == IF s.domain # None /\ s.https THEN s.domain ELSE None

Goes(r, from, to) ==
    /\ pc[r] = from
    /\ pc' = [pc EXCEPT ![r] = to]

Holds(r, copy) == req' = [req EXCEPT ![r].copy = copy]

FirstStep(op) == IF op \in {"submit", "skip"} THEN "copy" ELSE "get"

-----------------------------------------------------------------------------
\* Get, under the read lock.  Without a domain there is nothing to verify or to
\* toggle.
Get(r) ==
    /\ lock[SettingsFile] = None
    /\ LET op == req[r].op IN
       Goes(r, "get", IF op # "update" /\ settings.domain = None THEN "idle"
                      ELSE CASE op = "update" -> "copy"
                             [] op = "toggle" -> "route"
                             [] OTHER -> "lookup")
    /\ req' = [req EXCEPT ![r].copy = IF req[r].op = "toggle"
                                      THEN [settings EXCEPT !.https = ~@] ELSE settings,
                          ![r].old = settings.domain]
    /\ UNCHANGED <<settingsVars, lock>>

\* Seconds pass while addresses and names are looked up, without a lock.  The
\* page of the records to create saves the settings with the address it found.
LookupAddress(r) ==
    /\ req[r].op = "page"
    /\ Goes(r, "lookup", "save")
    /\ UNCHANGED <<settingsVars, lock, req>>

\* The domain points to this server.  The setup page saves before it sets the
\* route, the settings page after that.
VerifyDomain(r) ==
    /\ req[r].op \in {"verify", "reverify"}
    /\ Goes(r, "lookup", IF req[r].op = "verify" THEN "save" ELSE "route")
    /\ Holds(r, [req[r].copy EXCEPT !.verified = TRUE, !.https = TRUE])
    /\ UNCHANGED <<settingsVars, lock>>

\* It does not: the settings page records that, HTTPS stays as it was.
RefuteDomain(r) ==
    /\ req[r].op = "reverify"
    /\ Goes(r, "lookup", "save")
    /\ Holds(r, [req[r].copy EXCEPT !.verified = FALSE])
    /\ UNCHANGED <<settingsVars, lock>>

\* The lookup or the verification fails, or the page knows the address.
LeaveLookup(r) ==
    /\ req[r].op \in {"page", "verify", "reverify"}
    /\ Goes(r, "lookup", "idle")
    /\ UNCHANGED <<settingsVars, lock, req>>

\* SetPrimaryDomain and SkipSetup copy the settings and let go of the mutex.
CopySettings(r) ==
    /\ lock[SettingsFile] = None
    /\ Goes(r, "copy", "save")
    /\ \/ /\ req[r].op = "submit"
          /\ \E d \in Domains : Holds(r, WithDomain(settings, d))
       \/ /\ req[r].op = "update"
          /\ \E d \in Domains \cup {None} : Holds(r, WithDomain(settings, d))
       \/ req[r].op = "revert" /\ Holds(r, WithDomain(settings, req[r].old))
       \/ req[r].op = "skip" /\ Holds(r, settings)
    /\ UNCHANGED <<settingsVars, lock>>

-----------------------------------------------------------------------------
(* Save: the mutex is held over the whole write *)

AfterSave(r, ok) ==
    CASE req[r].op = "verify" -> "route"
      [] req[r].op = "revert" -> "routeOld"
      [] req[r].op = "update" /\ ok ->
            IF req[r].copy.domain = None THEN "remove"
            ELSE IF req[r].copy.domain # req[r].old THEN "reget" ELSE "idle"
      [] OTHER -> "idle"

Unlocks(f) == lock' = [lock EXCEPT ![f] = None]

BeginSave(r) ==
    /\ lock[SettingsFile] = None
    /\ Goes(r, "save", "saving")
    /\ lock' = [lock EXCEPT ![SettingsFile] = r]
    /\ CreateTemp(r, SettingsFile, req[r].copy)
    /\ UNCHANGED <<settingsVars, req>>

\* Mutant of FinishSave: the memory keeps what it had.
FinishSaveFileOnly(r) ==
    /\ Goes(r, "saving", AfterSave(r, TRUE))
    /\ ReadyToRename(r, SettingsFile)
    /\ RenameTemp(r)
    /\ Unlocks(SettingsFile)
    /\ UNCHANGED <<settings, route, req>>

FinishSave(r) ==
    /\ Goes(r, "saving", AfterSave(r, TRUE))
    /\ ReadyToRename(r, SettingsFile)
    /\ RenameTemp(r)
    /\ settings' = req[r].copy
    /\ Unlocks(SettingsFile)
    /\ UNCHANGED <<route, req>>

\* The error goes to the log at most; a change of the domain returns it.
FailSave(r) ==
    /\ Goes(r, "saving", AfterSave(r, FALSE))
    /\ temp[r] # None /\ temp[r].file = SettingsFile
    /\ DiscardTemp(r)
    /\ Unlocks(SettingsFile)
    /\ UNCHANGED <<settingsVars, req>>

-----------------------------------------------------------------------------
(* The dashboard's route *)

\* The new domain is read once more before its route is set.
GetAgain(r) ==
    /\ lock[SettingsFile] = None
    /\ Goes(r, "reget", "route")
    /\ Holds(r, settings)
    /\ UNCHANGED <<settingsVars, lock>>

\* Mutant of SetRoute: turning HTTPS on removes the route.
SetRouteAlways(r) ==
    /\ \E ok \in BOOLEAN :
          Goes(r, "route", CASE req[r].op = "update" /\ ~ok -> "undo"
                             [] req[r].op \in {"reverify", "toggle"} -> "save"
                             [] OTHER -> "idle")
    /\ route' = IF req[r].op = "toggle" /\ req[r].copy.https THEN None ELSE req[r].copy.domain
    /\ UNCHANGED <<settings, lock, req>>

\* SetDashboardRoute, or RemoveDashboardRoute when HTTPS is turned off.  Only a
\* change of the domain looks at the error.
SetRoute(r) ==
    /\ \E ok \in BOOLEAN :
          Goes(r, "route", CASE req[r].op = "update" /\ ~ok -> "undo"
                             [] req[r].op \in {"reverify", "toggle"} -> "save"
                             [] OTHER -> "idle")
    /\ route' = IF req[r].op = "toggle" /\ ~req[r].copy.https THEN None ELSE req[r].copy.domain
    /\ UNCHANGED <<settings, lock, req>>

\* The domain was removed.
RemoveRoute(r) ==
    /\ Goes(r, "remove", "idle")
    /\ route' = None
    /\ UNCHANGED <<settings, lock, req>>

\* Caddy refused the new domain's route: the old domain, and then its route.
Undo(r) ==
    /\ Goes(r, "undo", "copy")
    /\ req' = [req EXCEPT ![r].op = "revert"]
    /\ UNCHANGED <<settingsVars, lock>>

SetOldRoute(r) ==
    /\ Goes(r, "routeOld", "idle")
    /\ route' = req[r].old
    /\ UNCHANGED <<settings, lock, req>>

-----------------------------------------------------------------------------
\* The steps that leave the files alone, and those of a save.
SettingsStep(r) ==
    \/ Get(r) \/ LookupAddress(r) \/ VerifyDomain(r) \/ RefuteDomain(r) \/ LeaveLookup(r)
    \/ CopySettings(r) \/ GetAgain(r) \/ SetRoute(r) \/ RemoveRoute(r) \/ Undo(r)
    \/ SetOldRoute(r)

=============================================================================
