--------------------------- MODULE DataDirectory ---------------------------
(***************************************************************************)
(* The data directory and those who use it: the settings and the accounts  *)
(* of the server, its requests in any interleaving, an archive that is     *)
(* unpacked over the files, the command that resets a password, and        *)
(* crashes, losses of power and starts at any moment.                      *)
(***************************************************************************)
EXTENDS UserStore, Naturals

CONSTANTS
    Archive,   \* the settings and accounts in the uploaded archive; it may lack either
    MaxCalls   \* requests and commands in all; a bound, the code has none

VARIABLES
    up,        \* the server runs
    calls,     \* how many requests and commands there were
    loose,     \* history: the files that differ from the server's memory for a known reason
    unpacked,  \* history: the files an archive was unpacked over since a whole content of
               \* theirs was written back
    powerCut,  \* history: the power has failed
    apart      \* history: the route and the domain went apart for a known reason

vars == <<storageVars, settingsVars, requestVars, userVars, up, calls, loose, unpacked,
          powerCut, apart>>

DataFiles == {SettingsFile, UsersFile}
Whole == [f \in DataFiles |-> IF f = SettingsFile THEN Settings ELSE Accounts]

ASSUME DataAssumption ==
    /\ MaxCalls \in Nat \ {0}
    /\ CLI \notin Requests /\ Writers = Requests \cup {CLI}
    /\ None \notin Requests \cup Names \cup Passwords \cup Domains
    /\ {None, Torn} \cap (Settings \cup Accounts) = {}
    /\ {None, Gone} \cap DataFiles = {}
    /\ Archive = [f \in DataFiles |-> Archive[f]]
    /\ Archive[SettingsFile] \in Settings /\ Archive[UsersFile] \in Accounts

\* What the server that made the archive promises of its files.
ASSUME ArchiveAssumption ==
    /\ LET s == Archive[SettingsFile] IN
       s.domain = None => ~s.verified /\ ~s.https
    /\ \E n \in Names : Owners(Archive[UsersFile]) = {n}

UserOps == {"setup", "change"}
PCs == {"idle", "get", "lookup", "copy", "save", "saving", "reget", "route", "undo", "remove",
        "routeOld", "check", "create", "change", "unpackSettings", "unpackUsers"}

TypeOK ==
    /\ StorageTypeOK(Whole)
    /\ settings \in Settings
    /\ users \in Accounts
    /\ route \in Domains \cup {None}
    /\ lock \in [DataFiles -> Requests \cup {None}]
    /\ pc \in [Requests -> PCs]
    /\ req \in [Requests -> [op: SettingsOps \cup UserOps \cup {"import"}, copy: Settings,
                             old: Domains \cup {None}, user: Names \cup {None}]]
    /\ reset \in {"idle", "saving"}
    /\ {up, created, powerCut, apart} \subseteq BOOLEAN
    /\ calls \in 0..MaxCalls
    /\ loose \subseteq DataFiles /\ unpacked \subseteq DataFiles

Idle == [r \in Requests |-> "idle"]
NoRequest == [r \in Requests |-> [op |-> "skip", copy |-> NoSettings, old |-> None, user |-> None]]

\* A new installation, or one whose setup is done and that has the content of
\* the archive.
Init ==
    /\ \E content \in {[f \in DataFiles |-> None], Archive} : StorageInit(content)
    /\ settings = LoadedSettings /\ users = LoadedUsers
    /\ route = BootRoute(settings)
    /\ lock = [f \in DataFiles |-> None]
    /\ pc = Idle /\ req = NoRequest
    /\ reset = "idle"
    /\ up = TRUE
    /\ calls = IF users = Nobody THEN 0 ELSE 1
    /\ created = (users # Nobody)
    /\ loose = {} /\ unpacked = {} /\ powerCut = FALSE /\ apart = FALSE

-----------------------------------------------------------------------------
Counts == calls < MaxCalls /\ calls' = calls + 1

\* A request arrives.  Everything but the setup asks for a session, and so for
\* an administrator.
Begin(r, op) ==
    /\ up
    /\ op # "setup" => lock[UsersFile] = None /\ users # Nobody
    /\ Counts
    /\ Goes(r, "idle", CASE op = "setup" -> "check"
                         [] op = "change" -> "change"
                         [] op = "import" -> "unpackSettings"
                         [] OTHER -> FirstStep(op))
    /\ req' = [req EXCEPT ![r] = [NoRequest[r] EXCEPT !.op = op]]
    /\ apart' = \/ apart
                \/ op = "submit"
                \/ op \in SettingsOps /\ \E q \in Requests : pc[q] # "idle" /\ req[q].op \in SettingsOps
    /\ UNCHANGED <<storageVars, settingsVars, lock, userVars, up, loose, unpacked, powerCut>>

Handler(r) ==
    /\ SettingsStep(r)
    /\ UNCHANGED <<storageVars, userVars, up, calls, loose, unpacked, powerCut, apart>>

Setup(r) ==
    /\ CheckSetup(r) \/ CreateAdmin(r) \/ CreateAdminRefused(r)
    /\ UNCHANGED <<settingsVars, up, calls, loose, unpacked, powerCut, apart>>

Password(r) ==
    /\ ChangePassword(r) \/ ChangeRefused(r)
    /\ UNCHANGED <<settingsVars, up, calls, loose, unpacked, powerCut, apart>>

Save(r) ==
    /\ BeginSave(r)
    /\ UNCHANGED <<userVars, up, calls, loose, unpacked, powerCut, apart>>

Sync(w) ==
    /\ temp[w] # None /\ ~temp[w].synced
    /\ SyncTemp(w)
    /\ UNCHANGED <<settingsVars, requestVars, userVars, up, calls, loose, unpacked, powerCut, apart>>

Saved(r) ==
    /\ \/ FinishSave(r) /\ UNCHANGED userVars
       \/ FinishUsers(r) /\ UNCHANGED settingsVars
    /\ loose' = loose \ {temp[r].file}
    /\ UNCHANGED <<up, calls, unpacked, powerCut, apart>>

SaveFailed(r) ==
    /\ \/ FailSave(r) /\ UNCHANGED userVars /\ apart' = TRUE /\ UNCHANGED loose
       \/ /\ FailUsers(r) /\ UNCHANGED <<settingsVars, apart>>
          /\ loose' = IF req[r].op = "change" THEN loose \cup {UsersFile} ELSE loose
    /\ UNCHANGED <<up, calls, unpacked, powerCut>>

-----------------------------------------------------------------------------
\* handleBackupImport: file by file, in the order of the archive.
Unpacking(r) == CASE pc[r] = "unpackSettings" -> SettingsFile [] OTHER -> UsersFile
AfterFile(r) == IF pc[r] = "unpackSettings" THEN "unpackUsers" ELSE "idle"
Unpacks(r) == pc[r] \in {"unpackSettings", "unpackUsers"}

Truncate(r) ==
    /\ Unpacks(r) /\ open[r] = None
    /\ OpenTruncated(r, Unpacking(r))
    /\ loose' = loose \cup {Unpacking(r)}
    /\ unpacked' = unpacked \cup {Unpacking(r)}
    /\ UNCHANGED <<settingsVars, requestVars, userVars, up, calls, powerCut, apart>>

Unpack(r) ==
    /\ Unpacks(r) /\ open[r] # None
    /\ CopyOut(r, Archive)
    /\ Goes(r, pc[r], AfterFile(r))
    /\ unpacked' = unpacked \cup (Files \cap {open[r]})
    /\ UNCHANGED <<settingsVars, lock, req, userVars, up, calls, loose, powerCut, apart>>

NotInArchive(r) ==
    /\ Unpacks(r) /\ open[r] = None
    /\ Goes(r, pc[r], AfterFile(r))
    /\ UNCHANGED <<storageVars, settingsVars, lock, req, userVars, up, calls, loose, unpacked,
                   powerCut, apart>>

\* The archive cannot be read further: what was unpacked stays, the rest as well.
ImportFails(r) ==
    /\ Unpacks(r)
    /\ CloseUnfinished(r)
    /\ Goes(r, pc[r], "idle")
    /\ UNCHANGED <<settingsVars, lock, req, userVars, up, calls, loose, unpacked, powerCut, apart>>

-----------------------------------------------------------------------------
Reset ==
    /\ \/ ResetPassword /\ Counts /\ UNCHANGED loose
       \/ FailReset /\ UNCHANGED <<calls, loose>>
       \/ FinishReset /\ loose' = loose \cup {UsersFile} /\ UNCHANGED calls
    /\ UNCHANGED <<settingsVars, requestVars, up, unpacked, powerCut, apart>>

\* The server dies, in the middle of whatever it does; the command does not.
Crash ==
    /\ up /\ up' = FALSE
    /\ Forget(Requests)
    /\ pc' = Idle /\ req' = NoRequest
    /\ lock' = [f \in DataFiles |-> None]
    /\ UNCHANGED <<disk, durable, settingsVars, userVars, calls, loose, unpacked, powerCut, apart>>

PowerCut ==
    /\ LosePower
    /\ up' = FALSE /\ powerCut' = TRUE
    /\ pc' = Idle /\ req' = NoRequest
    /\ lock' = [f \in DataFiles |-> None]
    /\ reset' = "idle"
    /\ UNCHANGED <<settingsVars, users, created, calls, loose, unpacked, apart>>

WriteBack(f) ==
    /\ disk[f].synced = FALSE \/ durable[f] # OnDisk(f)
    /\ Flush(f)
    /\ unpacked' = IF OnDisk(f) = Torn THEN unpacked ELSE unpacked \ {f}
    /\ UNCHANGED <<settingsVars, requestVars, userVars, up, calls, loose, powerCut, apart>>

\* main: a file that cannot be decoded ends the start.
Start ==
    /\ ~up /\ up' = TRUE
    /\ \A f \in Files : OnDisk(f) # Torn
    /\ settings' = LoadedSettings
    /\ users' = LoadedUsers
    /\ route' = BootRoute(LoadedSettings)
    /\ loose' = {} /\ apart' = FALSE
    /\ UNCHANGED <<storageVars, requestVars, reset, created, calls, unpacked, powerCut>>

Next ==
    \/ \E r \in Requests :
          \/ \E op \in (SettingsOps \ {"revert"}) \cup UserOps \cup {"import"} : Begin(r, op)
          \/ Handler(r) \/ Setup(r) \/ Password(r) \/ Save(r) \/ Saved(r) \/ SaveFailed(r)
          \/ Truncate(r) \/ Unpack(r) \/ NotInArchive(r) \/ ImportFails(r)
    \/ \E w \in Writers : Sync(w)
    \/ \E f \in Files : WriteBack(f)
    \/ Reset \/ Crash \/ PowerCut \/ Start

Spec == Init /\ [][Next]_vars

-----------------------------------------------------------------------------
(* Properties *)

\* Whatever dies or loses its power at whatever moment, saving leaves the file
\* whole for the next start; only unpacking an archive may cut one short ("a
\* crash during write cannot corrupt existing state").
FilesAreWhole == \A f \in Files : Torn \in {OnDisk(f), durable[f]} => f \in unpacked

\* While nobody saves, the server's memory is what is on disk, unless an archive,
\* the command or a failed change of the password has come between.
MemoryIsOnDisk ==
    up => /\ lock[SettingsFile] = None /\ SettingsFile \notin loose => settings = LoadedSettings
          /\ lock[UsersFile] = None /\ UsersFile \notin loose => users = LoadedUsers

\* However requests overwrite each other's changes, no record of the settings
\* says that HTTPS is on, or a domain verified, when there is no domain.
FlagsNeedDomain ==
    /\ settings.domain = None => ~settings.verified /\ ~settings.https
    /\ LET s == OnDisk(SettingsFile) IN
       s \in Settings /\ s.domain = None => ~s.verified /\ ~s.https

\* There is one administrator at most, in memory and in the file, however many
\* setups race.
OneAdmin ==
    \A accounts \in {users, OnDisk(UsersFile)} \ {None, Torn} :
        \A m, n \in Owners(accounts) : m = n

\* Once setup has said that the administrator exists, no crash and no start
\* opens it again ("Permanent Lockdown").
SetupStaysLocked == up /\ created /\ ~powerCut => users # Nobody

\* Between requests, when HTTPS is on, the dashboard's route is that of the
\* primary domain, whichever routes Caddy refused; unless a save failed, requests
\* about the settings overlapped, or the setup page changed the domain.
DashboardFollowsDomain ==
    up /\ pc = Idle /\ ~apart /\ settings.https => route = settings.domain

=============================================================================
