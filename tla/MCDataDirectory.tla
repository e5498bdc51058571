-------------------------- MODULE MCDataDirectory --------------------------
(***************************************************************************)
(* Instances of DataDirectory for TLC.                                     *)
(***************************************************************************)
EXTENDS DataDirectory, TLC

CONSTANTS r1, r2, alice, bob, old, new, d1, d2

TwoRequests == {r1, r2}
TwoNames == {alice, bob}
TwoPasswords == {old, new}
TwoDomains == {d1, d2}
AllWriters == {r1, r2, CLI}

\* Another server's: its own domain, verified, and its own administrator.
OtherServer ==
    (SettingsFile :> [domain |-> d2, verified |-> TRUE, https |-> TRUE]) @@
    (UsersFile :> ((alice :> None) @@ (bob :> old)))

=============================================================================
