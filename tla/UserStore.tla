----------------------------- MODULE UserStore -----------------------------
(***************************************************************************)
(* internal/auth/users.go with the handlers that call it: the accounts, a  *)
(* map in memory and a file, in the server and, for reset-password, in a   *)
(* process of its own that loads the file, changes it and writes it back.  *)
(* A password stands for its hash.                                         *)
(***************************************************************************)
EXTENDS SystemSettings

CONSTANTS
    Names,      \* names of users
    Passwords,
    CLI         \* the process of "liteploy reset-password"

VARIABLES
    users,      \* the server's UserStore.users
    reset,      \* where the command is
    created     \* history: setup has answered that the administrator exists

userVars == <<users, reset, created>>

UsersFile == "config/users.json"

Accounts == [Names -> Passwords \cup {None}]
Nobody == [n \in Names |-> None]
Owners(accounts) == {n \in Names : accounts[n] # None}

\* Mutant of LoadedUsers: the file is expected to be there.
UsersRead == OnDisk(UsersFile)

\* load: a file that is not there leaves the map empty.
LoadedUsers == IF OnDisk(UsersFile) = None THEN Nobody ELSE OnDisk(UsersFile)

-----------------------------------------------------------------------------
\* handleSetupSubmit looks first whether there is anybody; the password is
\* hashed after that, without the mutex.
CheckSetup(r) ==
    /\ lock[UsersFile] = None
    /\ Goes(r, "check", IF users = Nobody THEN "create" ELSE "idle")
    /\ UNCHANGED <<lock, req, userVars, storageVars>>

AddUser(r, n, p) ==
    /\ Goes(r, "create", "saving")
    /\ users' = [users EXCEPT ![n] = p]
    /\ lock' = [lock EXCEPT ![UsersFile] = r]
    /\ req' = [req EXCEPT ![r].user = n]
    /\ CreateTemp(r, UsersFile, users')
    /\ UNCHANGED <<reset, created>>

\* Mutant of CreateAdmin: the check of the handler is thought to be enough.
CreateAdminUnchecked(r) ==
    /\ lock[UsersFile] = None
    /\ \E n \in Names, p \in Passwords : AddUser(r, n, p)

\* CreateAdmin looks again under the mutex, which it keeps until the file is
\* written.
CreateAdmin(r) ==
    /\ lock[UsersFile] = None
    /\ users = Nobody
    /\ \E n \in Names, p \in Passwords : AddUser(r, n, p)

CreateAdminRefused(r) ==
    /\ lock[UsersFile] = None
    /\ users # Nobody
    /\ Goes(r, "create", "idle")
    /\ UNCHANGED <<lock, req, userVars, storageVars>>

\* ChangePassword: the map has the new password before the file does.
ChangePassword(r) ==
    /\ lock[UsersFile] = None
    /\ Goes(r, "change", "saving")
    /\ \E n \in Owners(users), p \in Passwords : users' = [users EXCEPT ![n] = p]
    /\ lock' = [lock EXCEPT ![UsersFile] = r]
    /\ CreateTemp(r, UsersFile, users')
    /\ UNCHANGED <<req, reset, created>>

\* No such user, or another password than the one given.
ChangeRefused(r) ==
    /\ lock[UsersFile] = None
    /\ Goes(r, "change", "idle")
    /\ UNCHANGED <<lock, req, userVars, storageVars>>

FinishUsers(r) ==
    /\ Goes(r, "saving", "idle")
    /\ ReadyToRename(r, UsersFile)
    /\ RenameTemp(r)
    /\ created' = (created \/ req[r].op = "setup")
    /\ Unlocks(UsersFile)
    /\ UNCHANGED <<req, users, reset>>

\* Mutant of FailUsers: the error of save is dropped.
FailUsersUnnoticed(r) ==
    /\ Goes(r, "saving", "idle")
    /\ temp[r] # None /\ temp[r].file = UsersFile
    /\ DiscardTemp(r)
    /\ created' = (created \/ req[r].op = "setup")
    /\ Unlocks(UsersFile)
    /\ UNCHANGED <<req, users, reset>>

\* CreateAdmin takes the user out again; ChangePassword leaves the new password
\* in the map and returns an error.
FailUsers(r) ==
    /\ Goes(r, "saving", "idle")
    /\ temp[r] # None /\ temp[r].file = UsersFile
    /\ DiscardTemp(r)
    /\ users' = IF req[r].op = "setup" THEN [users EXCEPT ![req[r].user] = None] ELSE users
    /\ Unlocks(UsersFile)
    /\ UNCHANGED <<req, reset, created>>

-----------------------------------------------------------------------------
(* liteploy reset-password: no server, no mutex *)

\* A file that cannot be read, or has no such user, ends the command.
ResetPassword ==
    /\ reset = "idle" /\ OnDisk(UsersFile) \notin {None, Torn}
    /\ \E n \in Owners(OnDisk(UsersFile)), p \in Passwords :
          CreateTemp(CLI, UsersFile, [OnDisk(UsersFile) EXCEPT ![n] = p])
    /\ reset' = "saving"
    /\ UNCHANGED <<users, created>>

FinishReset ==
    /\ reset = "saving" /\ ReadyToRename(CLI, UsersFile)
    /\ RenameTemp(CLI)
    /\ reset' = "idle"
    /\ UNCHANGED <<users, created>>

\* The write fails, or the command is killed.
FailReset ==
    /\ reset = "saving"
    /\ DiscardTemp(CLI)
    /\ reset' = "idle"
    /\ UNCHANGED <<users, created>>

=============================================================================
