------------------------ MODULE DataDirectoryProofs ------------------------
(***************************************************************************)
(* Theorems about DataDirectory.  The first properties are about all       *)
(* the contents there are: in memory, in the files, in what a loss of      *)
(* power would leave of them, in temporary files and in the copies that    *)
(* requests hold.  The invariant is therefore the type invariant over      *)
(* fewer contents, those that may be saved (Sound), and two conjuncts of   *)
(* its own: what copies a request may hold, and which files may be torn.   *)
(* The last two sections follow one content through its places: memory to  *)
(* the disk, and the settings to the dashboard's route.                    *)
(***************************************************************************)
EXTENDS DataDirectory, TLAPS

SoundSettings == {s \in Settings : s.domain = None => ~s.verified /\ ~s.https}
SoundAccounts == {a \in Accounts : \A m, n \in Owners(a) : m = n}
Sound == [f \in DataFiles |-> IF f = SettingsFile THEN SoundSettings ELSE SoundAccounts]

MemoryOK ==
    /\ settings \in SoundSettings
    /\ users \in SoundAccounts
    /\ route \in Domains \cup {None}

RequestsOK ==
    /\ lock \in [DataFiles -> Requests \cup {None}]
    /\ pc \in [Requests -> PCs]
    /\ req \in [Requests -> [op: SettingsOps \cup UserOps \cup {"import"}, copy: Settings,
                             old: Domains \cup {None}, user: Names \cup {None}]]
    /\ \A r \in Requests :
          /\ pc[r] # "idle" => req[r].copy \in SoundSettings
          /\ pc[r] = "lookup" => req[r].copy.domain # None

CountersOK ==
    /\ reset \in {"idle", "saving"}
    /\ up \in BOOLEAN /\ created \in BOOLEAN /\ powerCut \in BOOLEAN /\ apart \in BOOLEAN
    /\ calls \in 0..MaxCalls
    /\ loose \subseteq DataFiles /\ unpacked \subseteq DataFiles

\* A file that may be cut short is one that an archive was unpacked over.
TornIsUnpacked ==
    \A f \in DataFiles : disk[f].synced = FALSE \/ OnDisk(f) = Torn \/ durable[f] = Torn
                             => f \in unpacked

IInv == StorageTypeOK(Sound) /\ MemoryOK /\ RequestsOK /\ CountersOK /\ TornIsUnpacked

-----------------------------------------------------------------------------
(* Storage: each operation keeps the contents within the whole ones *)

\* The invariant of the storage over any contents, without its LET.
LEMMA StorageUnfolded ==
    ASSUME NEW whole
    PROVE  StorageTypeOK(whole) <=>
             /\ disk = [f \in DOMAIN whole |-> disk[f]]
             /\ durable = [f \in DOMAIN whole |-> durable[f]]
             /\ \A f \in DOMAIN whole :
                   /\ disk[f] \in [content: whole[f] \cup {None, Torn}, synced: BOOLEAN]
                   /\ durable[f] \in whole[f] \cup {None, Torn}
             /\ temp = [w \in Writers |-> temp[w]]
             /\ \A w \in Writers : temp[w] # None =>
                   /\ temp[w].file \in DOMAIN whole
                   /\ temp[w] \in [file: {temp[w].file}, content: whole[temp[w].file],
                                   synced: BOOLEAN]
             /\ open \in [Writers -> DOMAIN whole \cup {None, Gone}]
  BY DEF StorageTypeOK

\* A temporary file is created with a whole content.
LEMMA CreateTempTyped ==
    ASSUME NEW whole, NEW w \in Writers, NEW f \in DOMAIN whole, NEW c \in whole[f],
           StorageTypeOK(whole), CreateTemp(w, f, c)
    PROVE  StorageTypeOK(whole)'
  BY StorageAssumption DEF StorageTypeOK, CreateTemp

\* Syncing a temporary file that is there.
LEMMA SyncTempTyped ==
    ASSUME NEW whole, NEW w \in Writers, temp[w] # None, StorageTypeOK(whole), SyncTemp(w)
    PROVE  StorageTypeOK(whole)'
  BY StorageAssumption DEF StorageTypeOK, SyncTemp

\* Renaming a temporary file that is there.
LEMMA RenameTempTyped ==
    ASSUME NEW whole, NEW w \in Writers, temp[w] # None, StorageTypeOK(whole), RenameTemp(w)
    PROVE  StorageTypeOK(whole)'
  BY StorageAssumption DEF StorageTypeOK, RenameTemp

\* Removing it.
LEMMA DiscardTempTyped ==
    ASSUME NEW whole, NEW w \in Writers, StorageTypeOK(whole), DiscardTemp(w)
    PROVE  StorageTypeOK(whole)'
  BY StorageAssumption DEF StorageTypeOK, DiscardTemp

\* Truncating a file that is unpacked over.
LEMMA OpenTruncatedTyped ==
    ASSUME NEW whole, NEW w \in Writers, NEW f \in DOMAIN whole, StorageTypeOK(whole),
           OpenTruncated(w, f)
    PROVE  StorageTypeOK(whole)'
  BY StorageAssumption DEF StorageTypeOK, OpenTruncated

\* Writing the file that is open.
LEMMA CopyOutTyped ==
    ASSUME NEW whole, NEW w \in Writers, NEW archive, StorageTypeOK(whole), CopyOut(w, archive),
           \A f \in DOMAIN whole : archive[f] \in whole[f]
    PROVE  StorageTypeOK(whole)'
  BY StorageAssumption DEF StorageTypeOK, CopyOut, Files

\* Leaving it unfinished.
LEMMA CloseUnfinishedTyped ==
    ASSUME NEW whole, NEW w \in Writers, StorageTypeOK(whole), CloseUnfinished(w)
    PROVE  StorageTypeOK(whole)'
  BY StorageAssumption DEF StorageTypeOK, CloseUnfinished

\* Writing back.
LEMMA FlushTyped ==
    ASSUME NEW whole, NEW f \in DOMAIN whole, StorageTypeOK(whole), Flush(f)
    PROVE  StorageTypeOK(whole)'
  BY StorageAssumption DEF StorageTypeOK, Flush, OnDisk

\* The death of writers.
LEMMA ForgetTyped ==
    ASSUME NEW whole, NEW dead, StorageTypeOK(whole), Forget(dead), UNCHANGED <<disk, durable>>
    PROVE  StorageTypeOK(whole)'
  BY StorageAssumption DEF StorageTypeOK, Forget

\* A loss of power.
LEMMA LosePowerTyped ==
    ASSUME NEW whole, StorageTypeOK(whole), LosePower
    PROVE  StorageTypeOK(whole)'
  BY StorageAssumption DEF StorageTypeOK, LosePower, Forget, Files, OnDisk

-----------------------------------------------------------------------------
(* What the sets have in common *)

\* The two files, and what may be saved to each.
LEMMA SoundIsWhole ==
    /\ DOMAIN Sound = DataFiles /\ DOMAIN Whole = DataFiles
    /\ SettingsFile \in DataFiles /\ UsersFile \in DataFiles /\ SettingsFile # UsersFile
    /\ Sound[SettingsFile] = SoundSettings /\ Sound[UsersFile] = SoundAccounts
    /\ \A f \in DataFiles : Sound[f] \subseteq Whole[f]
    /\ \A f \in DataFiles : Torn \notin Whole[f] /\ None \notin Whole[f] /\ Archive[f] \in Sound[f]
  <1>1. SettingsFile # UsersFile
      BY DEF SettingsFile, UsersFile
  <1>2. Archive[SettingsFile] \in SoundSettings
      BY DataAssumption, ArchiveAssumption DEF SoundSettings
  <1>3. Archive[UsersFile] \in SoundAccounts
      BY DataAssumption, ArchiveAssumption DEF SoundAccounts
  <1>4. {None, Torn} \cap Settings = {} /\ {None, Torn} \cap Accounts = {}
      BY DataAssumption
  <1> QED
      BY <1>1, <1>2, <1>3, <1>4 DEF Sound, Whole, DataFiles, SoundSettings, SoundAccounts

\* Nobody is a sound account, no settings are sound settings.
LEMMA NothingIsSound ==
    /\ Nobody \in SoundAccounts /\ NoSettings \in SoundSettings
    /\ \A n \in Names, p \in Passwords : [Nobody EXCEPT ![n] = p] \in SoundAccounts
  <1>1. Nobody \in SoundAccounts
      BY DEF Nobody, SoundAccounts, Accounts, Owners
  <1>2. NoSettings \in SoundSettings
      BY DEF NoSettings, SoundSettings, Settings
  <1>3. ASSUME NEW n \in Names, NEW p \in Passwords
        PROVE  [Nobody EXCEPT ![n] = p] \in SoundAccounts
      BY DEF Nobody, SoundAccounts, Accounts, Owners
  <1> QED
      BY <1>1, <1>2, <1>3

\* A password changes the password of an owner only, and taking a user out
\* leaves no more owners than there were.
LEMMA AccountsStaySound ==
    ASSUME NEW a \in SoundAccounts, NEW n, NEW p \in Passwords
    PROVE  /\ n \in Owners(a) => [a EXCEPT ![n] = p] \in SoundAccounts
           /\ [a EXCEPT ![n] = None] \in SoundAccounts
  BY DEF SoundAccounts, Accounts, Owners

\* The copy of a change of the domain has flags only with a domain.
LEMMA WithDomainSound ==
    ASSUME NEW s \in Settings, NEW d \in Domains \cup {None}
    PROVE  s \in SoundSettings => WithDomain(s, d) \in SoundSettings
  BY DEF WithDomain, SoundSettings, Settings

\* What main loads, if nothing is torn.
LEMMA LoadedSound ==
    ASSUME StorageTypeOK(Sound), \A f \in Files : OnDisk(f) # Torn
    PROVE  LoadedSettings \in SoundSettings /\ LoadedUsers \in SoundAccounts
  <1>1. Files = DataFiles
      BY SoundIsWhole DEF Files, StorageTypeOK
  <1>2. OnDisk(SettingsFile) \in SoundSettings \cup {None}
      BY <1>1, SoundIsWhole DEF StorageTypeOK, OnDisk
  <1>3. OnDisk(UsersFile) \in SoundAccounts \cup {None}
      BY <1>1, SoundIsWhole DEF StorageTypeOK, OnDisk
  <1> QED
      BY <1>2, <1>3, NothingIsSound DEF LoadedSettings, LoadedUsers

\* The route that main sets.
LEMMA BootRouteTyped ==
    ASSUME NEW s \in SoundSettings PROVE BootRoute(s) \in Domains \cup {None}
  BY DEF BootRoute, SoundSettings, Settings

-----------------------------------------------------------------------------
(* The invariant *)

\* It holds in a new and in an installed directory.
LEMMA InvInit == Init => IInv
  <1> SUFFICES ASSUME Init PROVE IInv
      OBVIOUS
  <1>1. PICK content \in {[f \in DataFiles |-> None], Archive} : StorageInit(content)
      BY DEF Init
  <1>2. DOMAIN content = DataFiles /\ \A f \in DataFiles : content[f] \in Sound[f] \cup {None}
      BY <1>1, SoundIsWhole, DataAssumption
  <1>3. disk = [f \in DataFiles |-> [content |-> content[f], synced |-> TRUE]] /\ durable = content
      BY <1>1, <1>2 DEF StorageInit
  <1>4. StorageTypeOK(Sound)
      <2>1. temp = [w \in Writers |-> None] /\ open = [w \in Writers |-> None]
          BY <1>1 DEF StorageInit
      <2>2. durable = [f \in DataFiles |-> durable[f]]
          BY <1>1, <1>3, DataAssumption
      <2> QED
          BY <1>2, <1>3, <2>1, <2>2, SoundIsWhole DEF StorageTypeOK
  <1>5. \A f \in Files : OnDisk(f) # Torn
      BY <1>2, <1>3, SoundIsWhole, StorageAssumption DEF OnDisk, Files
  <1>6. MemoryOK
      BY <1>4, <1>5, LoadedSound, BootRouteTyped DEF Init, MemoryOK
  <1>7. RequestsOK
      BY NothingIsSound DEF Init, RequestsOK, Idle, NoRequest, PCs, SettingsOps, SoundSettings
  <1>8. CountersOK
      <2>1. created \in BOOLEAN
          BY Zenon DEF Init
      <2>2. calls \in 0..MaxCalls
          BY DataAssumption DEF Init
      <2> QED
          BY <2>1, <2>2 DEF Init, CountersOK
  <1>9. TornIsUnpacked
      BY <1>2, <1>3, SoundIsWhole, StorageAssumption DEF TornIsUnpacked, OnDisk
  <1> QED
      BY <1>4, <1>6, <1>7, <1>8, <1>9 DEF IInv

-----------------------------------------------------------------------------
(* Steps that one conjunct does not see *)

\* What leaves the storage and its history alone.
LEMMA StorageFrame ==
    ASSUME IInv, UNCHANGED storageVars, unpacked' = unpacked
    PROVE  StorageTypeOK(Sound)' /\ TornIsUnpacked'
  BY DEF IInv, StorageTypeOK, TornIsUnpacked, storageVars, OnDisk

\* What writes or renames temporary files only leaves no file torn.
LEMMA TornFrame ==
    ASSUME TornIsUnpacked, UNCHANGED <<disk, durable, unpacked>>
    PROVE  TornIsUnpacked'
  BY DEF TornIsUnpacked, OnDisk

\* What leaves the requests alone.
LEMMA RequestsFrame ==
    ASSUME RequestsOK, UNCHANGED requestVars
    PROVE  RequestsOK'
  BY DEF RequestsOK, requestVars

RequestRecord == [op: SettingsOps \cup UserOps \cup {"import"}, copy: Settings,
                  old: Domains \cup {None}, user: Names \cup {None}]

\* A request moves: what it holds afterwards is what matters.
LEMMA RequestMoves ==
    ASSUME RequestsOK, NEW r \in Requests, NEW to \in PCs, NEW q \in RequestRecord,
           pc' = [pc EXCEPT ![r] = to], req' = [req EXCEPT ![r] = q],
           lock' \in [DataFiles -> Requests \cup {None}],
           to # "idle" => q.copy \in SoundSettings,
           to = "lookup" => q.copy.domain # None
    PROVE  RequestsOK'
  <1>1. pc' \in [Requests -> PCs] /\ req' \in [Requests -> RequestRecord]
      BY DEF RequestsOK, RequestRecord
  <1>2. ASSUME NEW x \in Requests
        PROVE  /\ pc'[x] # "idle" => req'[x].copy \in SoundSettings
               /\ pc'[x] = "lookup" => req'[x].copy.domain # None
      BY DEF RequestsOK
  <1> QED
      BY <1>1, <1>2 DEF RequestsOK, RequestRecord

\* A request that moves and keeps what it holds, to anywhere but a lookup.
LEMMA RequestGoes ==
    ASSUME RequestsOK, NEW r \in Requests, NEW to \in PCs \ {"lookup"}, pc[r] # "idle",
           pc' = [pc EXCEPT ![r] = to], UNCHANGED req,
           lock' \in [DataFiles -> Requests \cup {None}]
    PROVE  RequestsOK'
  <1>1. pc' \in [Requests -> PCs]
      BY DEF RequestsOK
  <1>2. ASSUME NEW x \in Requests
        PROVE  /\ pc'[x] # "idle" => req'[x].copy \in SoundSettings
               /\ pc'[x] = "lookup" => req'[x].copy.domain # None
      BY DEF RequestsOK
  <1> QED
      BY <1>1, <1>2 DEF RequestsOK

\* A request that moves with another copy, to anywhere but a lookup.
LEMMA RequestHolds ==
    ASSUME RequestsOK, NEW r \in Requests, NEW to \in PCs \ {"lookup"}, NEW c \in SoundSettings,
           pc' = [pc EXCEPT ![r] = to], Holds(r, c), UNCHANGED lock
    PROVE  RequestsOK'
  <1> DEFINE q == [req[r] EXCEPT !.copy = c]
  <1>1. req' = [req EXCEPT ![r] = q]
      BY DEF Holds, RequestsOK
  <1>2. q \in RequestRecord /\ q.copy = c
      BY DEF RequestsOK, RequestRecord, SoundSettings
  <1>3. lock' \in [DataFiles -> Requests \cup {None}]
      BY DEF RequestsOK
  <1> HIDE DEF q
  <1> QED
      BY <1>1, <1>2, <1>3, RequestMoves

-----------------------------------------------------------------------------
(* The handlers of the settings *)

\* The steps that read the settings into a copy.
LEMMA ReadsTyped ==
    ASSUME MemoryOK, RequestsOK, NEW r \in Requests,
           Get(r) \/ CopySettings(r) \/ GetAgain(r)
    PROVE  UNCHANGED settingsVars /\ RequestsOK'
  <1>1. UNCHANGED settingsVars
      BY DEF Get, CopySettings, GetAgain
  <1>2. CASE Get(r)
      <2> DEFINE c == IF req[r].op = "toggle" THEN [settings EXCEPT !.https = ~@] ELSE settings
                 q == [req[r] EXCEPT !.copy = c, !.old = settings.domain]
                 to == IF req[r].op # "update" /\ settings.domain = None THEN "idle"
                       ELSE CASE req[r].op = "update" -> "copy"
                              [] req[r].op = "toggle" -> "route"
                              [] OTHER -> "lookup"
      <2>1. settings \in SoundSettings /\ req[r] \in RequestRecord /\ settings \in Settings
          BY DEF MemoryOK, RequestsOK, RequestRecord, SoundSettings
      <2>2. c \in Settings /\ c.domain = settings.domain
          BY <2>1 DEF Settings
      <2>a. c # settings => req[r].op = "toggle"
          OBVIOUS
      <2> HIDE DEF c
      <2>3. c \in SoundSettings \/ (settings.domain = None /\ req[r].op = "toggle")
          BY <2>a, <2>1, <2>2 DEF SoundSettings
      <2>4. q \in RequestRecord /\ q.copy = c
          BY <2>1, <2>2 DEF RequestRecord, Settings
      <2>5. to \in PCs /\ (to # "idle" => c \in SoundSettings)
                       /\ (to = "lookup" => c.domain # None)
          BY <2>2, <2>3 DEF PCs
      <2>6. pc' = [pc EXCEPT ![r] = to] /\ req' = [req EXCEPT ![r] = q]
          BY <1>2, <2>1 DEF Get, Goes, RequestsOK, c
      <2>7. lock' \in [DataFiles -> Requests \cup {None}]
          BY <1>2 DEF Get, RequestsOK
      <2> HIDE DEF q, to
      <2>8. RequestsOK'
          BY <2>4, <2>5, <2>6, <2>7, RequestMoves
      <2> QED
          BY <1>1, <2>8
  <1>3. CASE CopySettings(r)
      <2>1. settings \in SoundSettings /\ settings \in Settings
          BY DEF MemoryOK, SoundSettings
      <2>2. \E c \in SoundSettings : Holds(r, c)
          <3>1. CASE \E d \in Domains \cup {None} : Holds(r, WithDomain(settings, d))
              BY <2>1, <3>1, WithDomainSound
          <3>2. CASE Holds(r, settings)
              BY <2>1, <3>2
          <3>3. CASE req[r].op = "revert" /\ Holds(r, WithDomain(settings, req[r].old))
              BY <2>1, <3>3, WithDomainSound DEF RequestsOK
          <3> QED
              BY <1>3, <3>1, <3>2, <3>3 DEF CopySettings
      <2>3. RequestsOK'
          BY <1>3, <2>2, RequestHolds DEF CopySettings, Goes, PCs
      <2> QED
          BY <1>1, <2>3
  <1>4. CASE GetAgain(r)
      <2>1. RequestsOK'
          BY <1>4, RequestHolds DEF GetAgain, Goes, PCs, MemoryOK
      <2> QED
          BY <1>1, <2>1
  <1> QED
      BY <1>2, <1>3, <1>4

\* The lookups, which hold no lock.
LEMMA LookupsTyped ==
    ASSUME MemoryOK, RequestsOK, NEW r \in Requests,
           LookupAddress(r) \/ VerifyDomain(r) \/ RefuteDomain(r) \/ LeaveLookup(r)
    PROVE  UNCHANGED settingsVars /\ RequestsOK'
  <1>1. UNCHANGED settingsVars
      BY DEF LookupAddress, VerifyDomain, RefuteDomain, LeaveLookup
  <1>2. pc[r] = "lookup" /\ req[r].copy \in SoundSettings /\ req[r].copy.domain # None
      BY DEF LookupAddress, VerifyDomain, RefuteDomain, LeaveLookup, Goes, RequestsOK
  <1>3. CASE LookupAddress(r) \/ LeaveLookup(r)
      BY <1>1, <1>2, <1>3, RequestGoes DEF LookupAddress, LeaveLookup, Goes, PCs, RequestsOK
  <1>4. CASE VerifyDomain(r)
      <2>1. [req[r].copy EXCEPT !.verified = TRUE, !.https = TRUE] \in SoundSettings
          BY <1>2 DEF SoundSettings, Settings
      <2>2. \E to \in PCs \ {"lookup"} : Goes(r, "lookup", to)
          BY <1>4 DEF VerifyDomain, PCs
      <2> QED
          BY <1>1, <1>4, <2>1, <2>2, RequestHolds DEF VerifyDomain, Goes
  <1>5. CASE RefuteDomain(r)
      <2>1. [req[r].copy EXCEPT !.verified = FALSE] \in SoundSettings
          BY <1>2 DEF SoundSettings, Settings
      <2> QED
          BY <1>1, <1>5, <2>1, RequestHolds DEF RefuteDomain, Goes, PCs
  <1> QED
      BY <1>3, <1>4, <1>5

\* The steps that set or remove the route, and the turn to the undo.
LEMMA RoutesTyped ==
    ASSUME MemoryOK, RequestsOK, NEW r \in Requests,
           SetRoute(r) \/ RemoveRoute(r) \/ Undo(r) \/ SetOldRoute(r)
    PROVE  settings' = settings /\ route' \in Domains \cup {None} /\ RequestsOK'
  <1>1. settings' = settings /\ route' \in Domains \cup {None}
      BY DEF SetRoute, RemoveRoute, Undo, SetOldRoute, settingsVars, RequestsOK, MemoryOK, Settings
  <1>2. lock' \in [DataFiles -> Requests \cup {None}]
      BY DEF RequestsOK, SetRoute, RemoveRoute, Undo, SetOldRoute
  <1>3. CASE SetRoute(r)
      <2>1. PICK ok \in BOOLEAN :
                Goes(r, "route", CASE req[r].op = "update" /\ ~ok -> "undo"
                                   [] req[r].op \in {"reverify", "toggle"} -> "save"
                                   [] OTHER -> "idle")
          BY <1>3 DEF SetRoute
      <2>2. \E to \in PCs \ {"lookup"} : Goes(r, "route", to)
          BY <2>1 DEF PCs
      <2> QED
          BY <1>1, <1>2, <1>3, <2>2, RequestGoes DEF SetRoute, Goes
  <1>4. CASE RemoveRoute(r) \/ SetOldRoute(r)
      BY <1>1, <1>2, <1>4, RequestGoes DEF RemoveRoute, SetOldRoute, Goes, PCs
  <1>5. CASE Undo(r)
      <2> DEFINE q == [req[r] EXCEPT !.op = "revert"]
      <2>1. req' = [req EXCEPT ![r] = q] /\ pc' = [pc EXCEPT ![r] = "copy"] /\ pc[r] = "undo"
          BY <1>5 DEF Undo, Goes, RequestsOK
      <2>2. q \in RequestRecord /\ q.copy = req[r].copy
          BY DEF RequestsOK, RequestRecord, SettingsOps
      <2>3. q.copy \in SoundSettings
          BY <2>1, <2>2 DEF RequestsOK
      <2> HIDE DEF q
      <2>4. RequestsOK'
          BY <1>2, <2>1, <2>2, <2>3, RequestMoves DEF PCs
      <2> QED
          BY <1>1, <2>4
  <1> QED
      BY <1>3, <1>4, <1>5

\* Together: a step of a handler preserves the invariant.
LEMMA HandlerStep ==
    ASSUME IInv, NEW r \in Requests, Handler(r)
    PROVE  IInv'
  <1>1. StorageTypeOK(Sound)' /\ TornIsUnpacked'
      BY StorageFrame DEF Handler
  <1>2. CountersOK'
      BY DEF Handler, IInv, CountersOK, userVars
  <1>3. MemoryOK /\ RequestsOK /\ UNCHANGED users
      BY DEF IInv, Handler, userVars
  <1>4. MemoryOK' /\ RequestsOK'
      <2>1. CASE Get(r) \/ CopySettings(r) \/ GetAgain(r)
          BY <1>3, <2>1, ReadsTyped DEF MemoryOK, settingsVars
      <2>2. CASE LookupAddress(r) \/ VerifyDomain(r) \/ RefuteDomain(r) \/ LeaveLookup(r)
          BY <1>3, <2>2, LookupsTyped DEF MemoryOK, settingsVars
      <2>3. CASE SetRoute(r) \/ RemoveRoute(r) \/ Undo(r) \/ SetOldRoute(r)
          BY <1>3, <2>3, RoutesTyped DEF MemoryOK
      <2> QED
          BY <2>1, <2>2, <2>3 DEF Handler, SettingsStep
  <1> QED
      BY <1>1, <1>2, <1>4 DEF IInv

-----------------------------------------------------------------------------
(* Requests that begin, and those about the accounts *)

\* A request arrives.
LEMMA BeginStep ==
    ASSUME IInv, NEW r \in Requests,
           NEW op \in (SettingsOps \ {"revert"}) \cup UserOps \cup {"import"}, Begin(r, op)
    PROVE  IInv'
  <1>1. StorageTypeOK(Sound)' /\ TornIsUnpacked'
      BY StorageFrame DEF Begin
  <1>2. MemoryOK'
      BY DEF Begin, IInv, MemoryOK, settingsVars, userVars
  <1>3. CountersOK'
      <2>1. apart' \in BOOLEAN
          BY Zenon DEF Begin
      <2>2. calls' \in 0..MaxCalls
          BY DataAssumption DEF Begin, Counts, IInv, CountersOK
      <2> QED
          BY <2>1, <2>2 DEF Begin, IInv, CountersOK, userVars
  <1>4. RequestsOK'
      <2> DEFINE q == [op |-> op, copy |-> NoSettings, old |-> None, user |-> None]
      <2>1. q \in RequestRecord /\ q.copy \in SoundSettings
          BY NothingIsSound DEF RequestRecord, SoundSettings
      <2>2. req' = [req EXCEPT ![r] = q]
          <3>1. [NoRequest[r] EXCEPT !.op = op] = q
              BY DEF NoRequest
          <3> QED
              BY <3>1 DEF Begin
      <2>3. lock' \in [DataFiles -> Requests \cup {None}]
          BY DEF Begin, IInv, RequestsOK
      <2>4. \E to \in PCs \ {"lookup"} : pc' = [pc EXCEPT ![r] = to]
          BY DEF Begin, Goes, PCs, FirstStep
      <2> HIDE DEF q
      <2> QED
          BY <2>1, <2>2, <2>3, <2>4, RequestMoves DEF IInv
  <1> QED
      BY <1>1, <1>2, <1>3, <1>4 DEF IInv

\* A mutex that is taken or released.
LEMMA LocksTyped ==
    ASSUME RequestsOK, NEW f, NEW x \in Requests \cup {None}
    PROVE  [lock EXCEPT ![f] = x] \in [DataFiles -> Requests \cup {None}]
  BY DEF RequestsOK

\* Adding the first user, or changing a password: the new accounts are sound,
\* in memory and in the temporary file.
LEMMA UsersTyped ==
    ASSUME IInv, NEW r \in Requests, UNCHANGED unpacked,
           CreateAdmin(r) \/ ChangePassword(r)
    PROVE  /\ users' \in SoundAccounts
           /\ StorageTypeOK(Sound)' /\ TornIsUnpacked'
  <1>1. users' \in SoundAccounts
      <2>1. CASE CreateAdmin(r)
          <3>1. PICK n \in Names, p \in Passwords : users' = [Nobody EXCEPT ![n] = p]
              BY <2>1 DEF CreateAdmin, AddUser
          <3> QED
              BY <3>1, NothingIsSound
      <2>2. CASE ChangePassword(r)
          <3>1. PICK n \in Owners(users), p \in Passwords : users' = [users EXCEPT ![n] = p]
              BY <2>2 DEF ChangePassword
          <3> QED
              BY <3>1, AccountsStaySound DEF IInv, MemoryOK
      <2> QED
          BY <2>1, <2>2
  <1>2. CreateTemp(r, UsersFile, users')
      BY DEF CreateAdmin, AddUser, ChangePassword
  <1>3. StorageTypeOK(Sound)'
      BY <1>1, <1>2, SoundIsWhole, CreateTempTyped, DataAssumption DEF IInv
  <1>4. TornIsUnpacked'
      BY <1>2, TornFrame DEF CreateTemp, IInv
  <1> QED
      BY <1>1, <1>3, <1>4

\* The setup.
LEMMA SetupStep ==
    ASSUME IInv, NEW r \in Requests, Setup(r)
    PROVE  IInv'
  <1>1. CASE CheckSetup(r) \/ CreateAdminRefused(r)
      <2>1. UNCHANGED <<storageVars, settingsVars, userVars, up, calls, loose, unpacked,
                        powerCut, apart, lock, req>>
          BY <1>1 DEF Setup, CheckSetup, CreateAdminRefused
      <2>2. \E to \in PCs \ {"lookup"} : pc' = [pc EXCEPT ![r] = to] /\ pc[r] # "idle"
          BY <1>1 DEF CheckSetup, CreateAdminRefused, Goes, PCs
      <2>3. RequestsOK'
          BY <2>1, <2>2, RequestGoes DEF IInv, RequestsOK
      <2> QED
          BY <2>1, <2>3, StorageFrame DEF IInv, MemoryOK, CountersOK, settingsVars, userVars
  <1>2. CASE CreateAdmin(r)
      <2>1. users' \in SoundAccounts /\ StorageTypeOK(Sound)' /\ TornIsUnpacked'
          BY <1>2, UsersTyped DEF Setup
      <2>2. PICK n \in Names, p \in Passwords : AddUser(r, n, p)
          BY <1>2 DEF CreateAdmin
      <2> DEFINE q == [req[r] EXCEPT !.user = n]
      <2>3. req' = [req EXCEPT ![r] = q] /\ pc' = [pc EXCEPT ![r] = "saving"]
            /\ pc[r] = "create" /\ lock' = [lock EXCEPT ![UsersFile] = r]
          BY <2>2 DEF AddUser, Goes, IInv, RequestsOK
      <2>4. q \in RequestRecord /\ q.copy = req[r].copy
          BY DEF IInv, RequestsOK, RequestRecord
      <2>5. q.copy \in SoundSettings
          BY <2>3, <2>4 DEF IInv, RequestsOK
      <2> HIDE DEF q
      <2>6. RequestsOK'
          BY <2>3, <2>4, <2>5, LocksTyped, RequestMoves DEF IInv, PCs
      <2>7. MemoryOK' /\ CountersOK'
          BY <2>1, <2>2 DEF Setup, AddUser, IInv, MemoryOK, CountersOK, settingsVars
      <2> QED
          BY <2>1, <2>6, <2>7 DEF IInv
  <1> QED
      BY <1>1, <1>2 DEF Setup

\* The change of a password.
LEMMA PasswordStep ==
    ASSUME IInv, NEW r \in Requests, Password(r)
    PROVE  IInv'
  <1>1. CASE ChangeRefused(r)
      <2>1. UNCHANGED <<storageVars, settingsVars, userVars, up, calls, loose, unpacked,
                        powerCut, apart, lock, req>>
          BY <1>1 DEF Password, ChangeRefused
      <2>2. RequestsOK'
          BY <1>1, <2>1, RequestGoes DEF IInv, RequestsOK, ChangeRefused, Goes, PCs
      <2> QED
          BY <2>1, <2>2, StorageFrame DEF IInv, MemoryOK, CountersOK, settingsVars, userVars
  <1>2. CASE ChangePassword(r)
      <2>1. users' \in SoundAccounts /\ StorageTypeOK(Sound)' /\ TornIsUnpacked'
          BY <1>2, UsersTyped DEF Password
      <2>2. lock' \in [DataFiles -> Requests \cup {None}]
          BY <1>2, LocksTyped DEF ChangePassword, IInv
      <2>3. RequestsOK'
          BY <1>2, <2>2, RequestGoes DEF IInv, ChangePassword, Goes, PCs
      <2>4. MemoryOK' /\ CountersOK'
          BY <1>2, <2>1 DEF Password, ChangePassword, IInv, MemoryOK, CountersOK, settingsVars
      <2> QED
          BY <2>1, <2>3, <2>4 DEF IInv
  <1> QED
      BY <1>1, <1>2 DEF Password

-----------------------------------------------------------------------------
(* Saves *)

\* The temporary file of the settings is created with the request's copy.
LEMMA SaveStep ==
    ASSUME IInv, NEW r \in Requests, Save(r)
    PROVE  IInv'
  <1>1. pc[r] = "save" /\ pc' = [pc EXCEPT ![r] = "saving"]
        /\ lock' = [lock EXCEPT ![SettingsFile] = r] /\ UNCHANGED req
        /\ CreateTemp(r, SettingsFile, req[r].copy)
      BY DEF Save, BeginSave, Goes
  <1>2. req[r].copy \in SoundSettings
      BY <1>1 DEF IInv, RequestsOK
  <1>3. StorageTypeOK(Sound)'
      BY <1>1, <1>2, SoundIsWhole, CreateTempTyped, DataAssumption DEF IInv
  <1>4. TornIsUnpacked'
      BY <1>1, TornFrame DEF CreateTemp, IInv, Save
  <1>5. RequestsOK'
      BY <1>1, LocksTyped, RequestGoes DEF IInv, PCs
  <1>6. MemoryOK' /\ CountersOK'
      BY DEF Save, BeginSave, IInv, MemoryOK, CountersOK, settingsVars, userVars
  <1> QED
      BY <1>3, <1>4, <1>5, <1>6 DEF IInv

\* A temporary file reaches the disk.
LEMMA SyncStep ==
    ASSUME IInv, NEW w \in Writers, Sync(w)
    PROVE  IInv'
  <1>1. StorageTypeOK(Sound)'
      BY SyncTempTyped DEF IInv, Sync
  <1>2. TornIsUnpacked'
      BY TornFrame DEF Sync, SyncTemp, IInv
  <1>3. RequestsOK'
      BY RequestsFrame DEF Sync, IInv
  <1>4. MemoryOK' /\ CountersOK'
      BY DEF Sync, IInv, MemoryOK, CountersOK, settingsVars, userVars
  <1> QED
      BY <1>1, <1>2, <1>3, <1>4 DEF IInv

\* A synced temporary file takes the place of the old one: nothing is torn by it.
LEMMA RenameStep ==
    ASSUME IInv, NEW w \in Writers, NEW f \in DataFiles, ReadyToRename(w, f), RenameTemp(w),
           UNCHANGED unpacked
    PROVE  StorageTypeOK(Sound)' /\ TornIsUnpacked'
  <1>1. StorageTypeOK(Sound)'
      BY RenameTempTyped DEF IInv, ReadyToRename
  <1>2. temp[w].content \in Sound[f] /\ temp[w].synced = TRUE /\ temp[w].file = f
      BY SoundIsWhole DEF IInv, StorageTypeOK, ReadyToRename
  <1>3. temp[w].content # Torn
      BY <1>2, SoundIsWhole
  <1>4. disk' = [disk EXCEPT ![f] = [content |-> temp[w].content, synced |-> TRUE]]
        /\ durable' = durable
      BY <1>2 DEF RenameTemp
  <1>5. ASSUME NEW g \in DataFiles,
               disk'[g].synced = FALSE \/ OnDisk(g)' = Torn \/ durable'[g] = Torn
        PROVE  g \in unpacked'
      <2>1. disk = [x \in DataFiles |-> disk[x]]
          BY SoundIsWhole DEF IInv, StorageTypeOK
      <2>2. disk'[g] = IF g = f THEN [content |-> temp[w].content, synced |-> TRUE] ELSE disk[g]
          BY <1>4, <2>1
      <2> QED
          BY <1>3, <1>4, <1>5, <2>2 DEF IInv, TornIsUnpacked, OnDisk
  <1> QED
      BY <1>1, <1>5 DEF TornIsUnpacked

\* Where a request goes after a save.
LEMMA AfterSaveTyped ==
    \A r \in Requests, ok \in BOOLEAN : AfterSave(r, ok) \in PCs \ {"lookup"}
  BY DEF AfterSave, PCs

\* The save succeeds.
LEMMA SavedStep ==
    ASSUME IInv, NEW r \in Requests, Saved(r)
    PROVE  IInv'
  <1>1. loose' \subseteq DataFiles
      BY DEF Saved, IInv, CountersOK
  <1>2. CASE FinishSave(r)
      <2>1. StorageTypeOK(Sound)' /\ TornIsUnpacked'
          BY <1>2, RenameStep, SoundIsWhole, DataAssumption DEF FinishSave, Saved
      <2>2. pc[r] = "saving" /\ pc' = [pc EXCEPT ![r] = AfterSave(r, TRUE)] /\ UNCHANGED req
            /\ lock' = [lock EXCEPT ![SettingsFile] = None]
          BY <1>2 DEF FinishSave, Goes, Unlocks
      <2>3. RequestsOK'
          BY <2>2, LocksTyped, AfterSaveTyped, RequestGoes DEF IInv
      <2>4. settings' \in SoundSettings
          BY <1>2, <2>2 DEF FinishSave, IInv, RequestsOK
      <2>5. FinishSave(r) /\ UNCHANGED userVars
          BY <1>2 DEF Saved, FinishUsers, FinishSave, ReadyToRename, SettingsFile, UsersFile
      <2>6. MemoryOK' /\ CountersOK'
          BY <1>1, <2>4, <2>5 DEF FinishSave, Saved, IInv, MemoryOK, CountersOK, userVars
      <2> QED
          BY <2>1, <2>3, <2>6 DEF IInv
  <1>3. CASE FinishUsers(r)
      <2>1. StorageTypeOK(Sound)' /\ TornIsUnpacked'
          BY <1>3, RenameStep, SoundIsWhole, DataAssumption DEF FinishUsers, Saved
      <2>2. pc[r] = "saving" /\ pc' = [pc EXCEPT ![r] = "idle"] /\ UNCHANGED req
            /\ lock' = [lock EXCEPT ![UsersFile] = None]
          BY <1>3 DEF FinishUsers, Goes, Unlocks
      <2>3. RequestsOK'
          BY <2>2, LocksTyped, RequestGoes DEF IInv, PCs
      <2>5. FinishUsers(r) /\ UNCHANGED settingsVars
          BY <1>3 DEF Saved, FinishUsers, FinishSave, ReadyToRename, SettingsFile, UsersFile
      <2>4. created' \in BOOLEAN
          BY <2>5, Zenon DEF FinishUsers
      <2>6. MemoryOK' /\ CountersOK'
          BY <1>1, <2>4, <2>5 DEF FinishUsers, Saved, IInv, MemoryOK, CountersOK, settingsVars
      <2> QED
          BY <2>1, <2>3, <2>6 DEF IInv
  <1> QED
      BY <1>2, <1>3 DEF Saved

\* It fails: the temporary file is removed.
LEMMA SaveFailedStep ==
    ASSUME IInv, NEW r \in Requests, SaveFailed(r)
    PROVE  IInv'
  <1>1. DiscardTemp(r) /\ UNCHANGED unpacked
      BY DEF SaveFailed, FailSave, FailUsers
  <1>2. StorageTypeOK(Sound)' /\ TornIsUnpacked'
      BY <1>1, DiscardTempTyped, TornFrame, DataAssumption DEF IInv, DiscardTemp
  <1>3. CASE FailSave(r) /\ UNCHANGED userVars /\ apart' = TRUE /\ UNCHANGED loose
      <2>1. pc[r] = "saving" /\ pc' = [pc EXCEPT ![r] = AfterSave(r, FALSE)] /\ UNCHANGED req
            /\ lock' = [lock EXCEPT ![SettingsFile] = None]
          BY <1>3 DEF FailSave, Goes, Unlocks
      <2>2. RequestsOK'
          BY <2>1, LocksTyped, AfterSaveTyped, RequestGoes DEF IInv
      <2>3. MemoryOK' /\ CountersOK'
          BY <1>3 DEF FailSave, SaveFailed, IInv, MemoryOK, CountersOK, userVars, settingsVars
      <2> QED
          BY <1>2, <2>2, <2>3 DEF IInv
  <1>4. CASE FailUsers(r) /\ UNCHANGED <<settingsVars, apart>>
      <2>1. pc[r] = "saving" /\ pc' = [pc EXCEPT ![r] = "idle"] /\ UNCHANGED req
            /\ lock' = [lock EXCEPT ![UsersFile] = None]
          BY <1>4 DEF FailUsers, Goes, Unlocks
      <2>2. RequestsOK'
          BY <2>1, LocksTyped, RequestGoes DEF IInv, PCs
      <2>3. users' \in SoundAccounts
          <3>1. [users EXCEPT ![req[r].user] = None] \in SoundAccounts
              BY Zenon DEF IInv, MemoryOK, SoundAccounts, Accounts, Owners
          <3> QED
              BY <1>4, <3>1 DEF FailUsers, IInv, MemoryOK
      <2>4. loose' \subseteq DataFiles
          BY <1>3, <1>4 DEF SaveFailed, IInv, CountersOK, DataFiles
      <2>5. MemoryOK' /\ CountersOK'
          BY <1>4, <2>3, <2>4 DEF FailUsers, SaveFailed, IInv, MemoryOK, CountersOK, settingsVars
      <2> QED
          BY <1>2, <2>2, <2>5 DEF IInv
  <1> QED
      BY <1>3, <1>4 DEF SaveFailed

-----------------------------------------------------------------------------
(* The archive *)

\* The file under way is one of the two, and the request goes on or ends.
LEMMA UnpackingTyped ==
    \A r \in Requests : Unpacking(r) \in DataFiles /\ AfterFile(r) \in PCs \ {"lookup"}
  BY SoundIsWhole DEF Unpacking, AfterFile, PCs

\* Truncating, unpacking, skipping and giving up.
LEMMA ImportStep ==
    ASSUME IInv, NEW r \in Requests,
           Truncate(r) \/ Unpack(r) \/ NotInArchive(r) \/ ImportFails(r)
    PROVE  IInv'
  <1> DEFINE f == Unpacking(r)
  <1>1. f \in DataFiles /\ r \in Writers
      BY UnpackingTyped, DataAssumption
  <1>2. MemoryOK' /\ UNCHANGED <<lock, req, reset, up, created, powerCut, apart, calls>>
      BY DEF Truncate, Unpack, NotInArchive, ImportFails, IInv, MemoryOK, settingsVars,
             requestVars, userVars
  <1> HIDE DEF f
  <1>3. CASE Truncate(r)
      <2>1. OpenTruncated(r, f) /\ loose' = loose \cup {f} /\ unpacked' = unpacked \cup {f}
            /\ UNCHANGED requestVars
          BY <1>3 DEF Truncate, f
      <2>2. StorageTypeOK(Sound)'
          BY <1>1, <2>1, SoundIsWhole, OpenTruncatedTyped DEF IInv
      <2>3. TornIsUnpacked'
          BY <1>1, <2>1 DEF IInv, TornIsUnpacked, OpenTruncated, OnDisk
      <2>4. RequestsOK' /\ CountersOK'
          BY <1>1, <1>2, <2>1, RequestsFrame DEF IInv, CountersOK
      <2> QED
          BY <1>2, <2>2, <2>3, <2>4 DEF IInv
  <1>4. CASE Unpack(r)
      <2>1. Unpack(r) /\ pc[r] # "idle" /\ pc' = [pc EXCEPT ![r] = AfterFile(r)]
            /\ CopyOut(r, Archive) /\ unpacked' = unpacked \cup (Files \cap {open[r]})
          BY <1>4 DEF Unpack, Unpacks, Goes, f
      <2>2. RequestsOK'
          BY <1>2, <2>1, RequestGoes, UnpackingTyped DEF IInv, RequestsOK
      <2>3. Files = DataFiles /\ open[r] \in DataFiles \cup {None, Gone}
          BY <1>1, SoundIsWhole DEF IInv, StorageTypeOK, Files
      <2>5. StorageTypeOK(Sound)'
          BY <1>1, <2>1, SoundIsWhole, CopyOutTyped DEF IInv
      <2>6. TornIsUnpacked'
          BY <2>1, <2>3 DEF IInv, TornIsUnpacked, CopyOut, OnDisk
      <2>7. CountersOK'
          BY <1>2, <2>1, <2>3 DEF IInv, CountersOK, Unpack
      <2> QED
          BY <1>2, <2>2, <2>5, <2>6, <2>7 DEF IInv
  <1>5. CASE NotInArchive(r)
      <2>1. UNCHANGED storageVars /\ unpacked' = unpacked /\ loose' = loose
            /\ pc[r] # "idle" /\ pc' = [pc EXCEPT ![r] = AfterFile(r)]
          BY <1>5 DEF NotInArchive, Unpacks, Goes
      <2>2. RequestsOK'
          BY <1>2, <2>1, RequestGoes, UnpackingTyped DEF IInv, RequestsOK
      <2> QED
          BY <1>2, <2>1, <2>2, StorageFrame DEF IInv, CountersOK
  <1>6. CASE ImportFails(r)
      <2>1. CloseUnfinished(r) /\ unpacked' = unpacked /\ loose' = loose
            /\ pc[r] # "idle" /\ pc' = [pc EXCEPT ![r] = "idle"]
          BY <1>6 DEF ImportFails, Unpacks, Goes
      <2>2. RequestsOK'
          BY <1>2, <2>1, RequestGoes DEF IInv, RequestsOK, PCs
      <2>3. StorageTypeOK(Sound)' /\ TornIsUnpacked'
          BY <1>1, <2>1, CloseUnfinishedTyped, TornFrame DEF IInv, CloseUnfinished
      <2> QED
          BY <1>2, <2>1, <2>2, <2>3 DEF IInv, CountersOK
  <1> QED
      BY <1>3, <1>4, <1>5, <1>6

-----------------------------------------------------------------------------
(* The command, crashes, losses of power and starts *)

\* The command that resets a password.
LEMMA ResetStep ==
    ASSUME IInv, Reset
    PROVE  IInv'
  <1>1. CLI \in Writers
      BY DataAssumption
  <1>2. MemoryOK' /\ RequestsOK' /\ UNCHANGED <<up, created, powerCut, apart, unpacked>>
      BY RequestsFrame DEF Reset, ResetPassword, FailReset, FinishReset, IInv, MemoryOK,
                           settingsVars
  <1>3. CASE ResetPassword /\ Counts /\ UNCHANGED loose
      <2>1. OnDisk(UsersFile) \in SoundAccounts
          BY <1>3, SoundIsWhole DEF ResetPassword, IInv, StorageTypeOK, OnDisk
      <2>2. PICK n \in Owners(OnDisk(UsersFile)), p \in Passwords :
                CreateTemp(CLI, UsersFile, [OnDisk(UsersFile) EXCEPT ![n] = p])
          BY <1>3 DEF ResetPassword
      <2>3. [OnDisk(UsersFile) EXCEPT ![n] = p] \in SoundAccounts
          BY <2>1, AccountsStaySound
      <2>4. StorageTypeOK(Sound)'
          BY <1>1, <2>2, <2>3, SoundIsWhole, CreateTempTyped DEF IInv
      <2>5. TornIsUnpacked'
          BY <1>2, <2>2, TornFrame DEF CreateTemp, IInv
      <2>6. CountersOK'
          BY <1>2, <1>3, DataAssumption DEF IInv, CountersOK, Counts, ResetPassword
      <2> QED
          BY <1>2, <2>4, <2>5, <2>6 DEF IInv
  <1>4. CASE FailReset /\ UNCHANGED <<calls, loose>>
      <2>1. StorageTypeOK(Sound)' /\ TornIsUnpacked'
          BY <1>1, <1>2, <1>4, DiscardTempTyped, TornFrame DEF IInv, FailReset, DiscardTemp
      <2> QED
          BY <1>2, <1>4, <2>1 DEF IInv, CountersOK, FailReset
  <1>5. CASE FinishReset /\ loose' = loose \cup {UsersFile} /\ UNCHANGED calls
      <2>1. StorageTypeOK(Sound)' /\ TornIsUnpacked'
          BY <1>1, <1>2, <1>5, RenameStep, SoundIsWhole DEF FinishReset
      <2> QED
          BY <1>2, <1>5, <2>1, SoundIsWhole DEF IInv, CountersOK, FinishReset
  <1> QED
      BY <1>3, <1>4, <1>5 DEF Reset

\* What is left of the requests when the process has gone.
LEMMA NoRequestsTyped ==
    pc' = Idle /\ req' = NoRequest /\ lock' = [f \in DataFiles |-> None] => RequestsOK'
  BY NothingIsSound DEF RequestsOK, Idle, NoRequest, PCs, SettingsOps, SoundSettings

\* The server dies.
LEMMA CrashStep ==
    ASSUME IInv, Crash
    PROVE  IInv'
  <1>1. StorageTypeOK(Sound)' /\ TornIsUnpacked'
      BY ForgetTyped, TornFrame DEF IInv, Crash
  <1>2. RequestsOK'
      BY NoRequestsTyped DEF Crash
  <1>3. MemoryOK' /\ CountersOK'
      BY DEF Crash, IInv, MemoryOK, CountersOK, settingsVars, userVars
  <1> QED
      BY <1>1, <1>2, <1>3 DEF IInv

\* The power goes: of a file that was not synced a part may be left.
LEMMA PowerCutStep ==
    ASSUME IInv, PowerCut
    PROVE  IInv'
  <1>1. StorageTypeOK(Sound)'
      BY LosePowerTyped DEF IInv, PowerCut
  <1>2. Files = DataFiles
      BY SoundIsWhole DEF IInv, StorageTypeOK, Files
  <1>3. PICK latest \in SUBSET Files, cut \in SUBSET {f \in Files : ~disk[f].synced} :
            durable' = [f \in Files |-> IF f \in cut THEN Torn
                                        ELSE IF f \in latest THEN OnDisk(f) ELSE durable[f]]
      BY DEF PowerCut, LosePower
  <1>4. disk' = [f \in Files |-> [content |-> durable'[f], synced |-> TRUE]]
      BY DEF PowerCut, LosePower
  <1>5. ASSUME NEW f \in DataFiles, durable'[f] = Torn PROVE f \in unpacked
      <2>1. disk[f].synced \in BOOLEAN
          BY SoundIsWhole DEF IInv, StorageTypeOK
      <2> QED
          BY <1>2, <1>3, <1>5, <2>1 DEF IInv, TornIsUnpacked
  <1>6. TornIsUnpacked'
      <2>1. UNCHANGED unpacked
          BY DEF PowerCut
      <2> QED
          BY <1>2, <1>4, <1>5, <2>1 DEF TornIsUnpacked, OnDisk
  <1>7. RequestsOK'
      BY NoRequestsTyped DEF PowerCut
  <1>8. MemoryOK' /\ CountersOK'
      BY DEF PowerCut, IInv, MemoryOK, CountersOK, settingsVars
  <1> QED
      BY <1>1, <1>6, <1>7, <1>8 DEF IInv

\* The host writes a file back: a whole one is then whole for good.
LEMMA WriteBackStep ==
    ASSUME IInv, NEW f \in Files, WriteBack(f)
    PROVE  IInv'
  <1>1. Files = DataFiles /\ disk = [x \in DataFiles |-> disk[x]]
        /\ durable = [x \in DataFiles |-> durable[x]]
      BY SoundIsWhole DEF IInv, StorageTypeOK, Files
  <1>2. StorageTypeOK(Sound)'
      BY <1>1, FlushTyped, SoundIsWhole DEF IInv, WriteBack
  <1>3. TornIsUnpacked'
      <2>0. disk[f] \in [content: Sound[f] \cup {None, Torn}, synced: BOOLEAN]
          BY <1>1, SoundIsWhole DEF IInv, StorageTypeOK
      <2>a. disk'[f] = [disk[f] EXCEPT !.synced = TRUE] /\ durable'[f] = OnDisk(f)
          BY <1>1 DEF WriteBack, Flush
      <2>b. OnDisk(f)' = OnDisk(f) /\ disk'[f].synced = TRUE
          BY <2>0, <2>a DEF OnDisk
      <2>c. \A x \in DataFiles \ {f} : disk'[x] = disk[x] /\ durable'[x] = durable[x]
          BY <1>1 DEF WriteBack, Flush
      <2>1. /\ \A x \in DataFiles : OnDisk(x)' = OnDisk(x)
            /\ \A x \in DataFiles \ {f} : disk'[x] = disk[x] /\ durable'[x] = durable[x]
            /\ disk'[f].synced = TRUE /\ durable'[f] = OnDisk(f)
          BY <2>a, <2>b, <2>c DEF OnDisk
      <2>2. unpacked' = IF OnDisk(f) = Torn THEN unpacked ELSE unpacked \ {f}
          BY DEF WriteBack
      <2> QED
          BY <1>1, <2>1, <2>2 DEF IInv, TornIsUnpacked
  <1>4. RequestsOK'
      BY RequestsFrame DEF WriteBack, IInv
  <1>5. MemoryOK' /\ CountersOK'
      BY DEF WriteBack, IInv, MemoryOK, CountersOK, settingsVars, userVars
  <1> QED
      BY <1>2, <1>3, <1>4, <1>5 DEF IInv

\* The server starts from files that are whole.
LEMMA StartStep ==
    ASSUME IInv, Start
    PROVE  IInv'
  <1>1. StorageTypeOK(Sound)' /\ TornIsUnpacked'
      BY StorageFrame DEF Start
  <1>2. RequestsOK'
      BY RequestsFrame DEF Start, IInv
  <1>3. LoadedSettings \in SoundSettings /\ LoadedUsers \in SoundAccounts
      BY LoadedSound DEF IInv, Start
  <1>4. MemoryOK'
      BY <1>3, BootRouteTyped DEF Start, MemoryOK
  <1>5. CountersOK'
      BY DEF Start, IInv, CountersOK
  <1> QED
      BY <1>1, <1>2, <1>4, <1>5 DEF IInv

-----------------------------------------------------------------------------
(* The theorems *)

\* Every step preserves the invariant.
LEMMA InvNext == IInv /\ [Next]_vars => IInv'
  <1> SUFFICES ASSUME IInv, [Next]_vars PROVE IInv'
      OBVIOUS
  <1>1. CASE UNCHANGED vars
      <2>1. StorageTypeOK(Sound)' /\ TornIsUnpacked'
          BY <1>1, StorageFrame DEF vars
      <2>2. RequestsOK'
          BY <1>1, RequestsFrame DEF vars, IInv
      <2>3. MemoryOK' /\ CountersOK'
          BY <1>1 DEF vars, IInv, MemoryOK, CountersOK, settingsVars, userVars
      <2> QED
          BY <2>1, <2>2, <2>3 DEF IInv
  <1>2. ASSUME NEW r \in Requests,
               \/ \E op \in (SettingsOps \ {"revert"}) \cup UserOps \cup {"import"} : Begin(r, op)
               \/ Handler(r) \/ Setup(r) \/ Password(r) \/ Save(r) \/ Saved(r) \/ SaveFailed(r)
               \/ Truncate(r) \/ Unpack(r) \/ NotInArchive(r) \/ ImportFails(r)
        PROVE  IInv'
      BY <1>2, BeginStep, HandlerStep, SetupStep, PasswordStep, SaveStep, SavedStep,
         SaveFailedStep, ImportStep
  <1>3. CASE \E w \in Writers : Sync(w)
      BY <1>3, SyncStep
  <1>4. CASE \E f \in Files : WriteBack(f)
      BY <1>4, WriteBackStep
  <1> QED
      BY <1>1, <1>2, <1>3, <1>4, ResetStep, CrashStep, PowerCutStep, StartStep DEF Next

\* The invariant and the properties it implies.
LEMMA InvImplies == IInv => TypeOK /\ FilesAreWhole /\ FlagsNeedDomain /\ OneAdmin
  <1> SUFFICES ASSUME IInv PROVE TypeOK /\ FilesAreWhole /\ FlagsNeedDomain /\ OneAdmin
      OBVIOUS
  <1>1. Files = DataFiles
      BY SoundIsWhole DEF IInv, StorageTypeOK, Files
  <1>2. /\ OnDisk(SettingsFile) \in SoundSettings \cup {None, Torn}
        /\ OnDisk(UsersFile) \in SoundAccounts \cup {None, Torn}
      BY SoundIsWhole DEF IInv, StorageTypeOK, OnDisk
  <1>3. FilesAreWhole
      BY <1>1 DEF FilesAreWhole, IInv, TornIsUnpacked
  <1>4. FlagsNeedDomain
      <2>1. ASSUME NEW s, s = OnDisk(SettingsFile), s \in Settings, s.domain = None
            PROVE  ~s.verified /\ ~s.https
          <3>1. s \in SoundSettings
              BY <1>2, <2>1, SoundIsWhole, DataAssumption
          <3> QED
              BY <2>1, <3>1 DEF SoundSettings
      <2>2. settings \in SoundSettings
          BY DEF IInv, MemoryOK
      <2> QED
          BY <2>1, <2>2 DEF FlagsNeedDomain, SoundSettings
  <1>5. OneAdmin
      BY <1>2 DEF OneAdmin, IInv, MemoryOK, SoundAccounts
  <1>6. TypeOK
      <2>1. StorageTypeOK(Whole)
          BY SoundIsWhole DEF IInv, StorageTypeOK
      <2>2. settings \in Settings /\ users \in Accounts /\ route \in Domains \cup {None}
          BY DEF IInv, MemoryOK, SoundSettings, SoundAccounts
      <2>3. {up, created, powerCut, apart} \subseteq BOOLEAN
          BY Zenon DEF IInv, CountersOK
      <2> QED
          BY <2>1, <2>2, <2>3 DEF TypeOK, IInv, RequestsOK, CountersOK
  <1> QED
      BY <1>3, <1>4, <1>5, <1>6

\* The invariant holds always.
LEMMA Invariance == Spec => []IInv
  BY InvInit, InvNext, PTL DEF Spec

\* Every variable keeps its type, for any number of requests, whatever dies.
THEOREM TypeCorrect == Spec => []TypeOK
  BY Invariance, InvImplies, PTL

\* Saving never leaves a file cut short, whatever dies or loses its power and
\* whenever; only unpacking an archive may.
THEOREM SavedFilesAreWhole == Spec => []FilesAreWhole
  BY Invariance, InvImplies, PTL

\* However requests overwrite each other's settings, no record has HTTPS on, or
\* a domain verified, without a domain.
THEOREM FlagsAlwaysNeedDomain == Spec => []FlagsNeedDomain
  BY Invariance, InvImplies, PTL

\* However many setups race, there is one administrator at most.
THEOREM AlwaysOneAdmin == Spec => []OneAdmin
  BY Invariance, InvImplies, PTL

-----------------------------------------------------------------------------
(* Setup stays locked *)

\* A request that saves the accounts holds their mutex and has somebody in them;
\* if it is a setup, no setup has succeeded before.
SavesUsers(r) == temp[r] # None /\ temp[r].file = UsersFile
SaversOK ==
    \A r \in Requests :
        /\ pc[r] # "idle" => up
        /\ pc[r] = "change" => req[r].op = "change"
        /\ temp[r] # None => pc[r] = "saving"
        /\ SavesUsers(r) => /\ lock[UsersFile] = r
                            /\ users # Nobody
                            /\ req[r].op = "setup" => ~created \/ powerCut
TempsOK == \A w \in Writers : SavesUsers(w) => temp[w].content # Nobody
LockedOK ==
    created /\ ~powerCut => /\ OnDisk(UsersFile) # None /\ OnDisk(UsersFile) # Nobody
                            /\ up => users # Nobody

SInv == IInv /\ SaversOK /\ TempsOK /\ LockedOK

\* It holds initially.
LEMMA SetupInit == Init => SInv
  <1> SUFFICES ASSUME Init PROVE SInv
      OBVIOUS
  <1>1. IInv
      BY InvInit
  <1>2. temp = [w \in Writers |-> None]
      BY DEF Init, StorageInit
  <1>3. SaversOK /\ TempsOK
      BY <1>2, DataAssumption DEF Init, SaversOK, TempsOK, SavesUsers, Idle
  <1>4. LockedOK
      BY DEF Init, LockedOK, LoadedUsers, OnDisk
  <1> QED
      BY <1>1, <1>3, <1>4 DEF SInv

\* A request that does not save moves.
LEMMA SetupMoves ==
    ASSUME SInv, NEW r \in Requests, pc[r] # "saving", pc[r] # "idle", pc'[r] # "change",
           \A x \in Requests \ {r} : pc'[x] = pc[x] /\ req'[x] = req[x],
           UNCHANGED <<temp, users, created, powerCut, up>>, lock'[UsersFile] = lock[UsersFile],
           OnDisk(UsersFile)' = OnDisk(UsersFile)
    PROVE  SaversOK' /\ TempsOK' /\ LockedOK'
  <1>1. temp[r] = None /\ up
      BY DEF SInv, SaversOK
  <1>2. SaversOK'
      BY <1>1 DEF SInv, SaversOK, SavesUsers
  <1>3. TempsOK' /\ LockedOK'
      BY DEF SInv, TempsOK, LockedOK, SavesUsers
  <1> QED
      BY <1>2, <1>3

\* Steps that only touch what these conjuncts do not mention.
LEMMA SetupFrame ==
    ASSUME SInv, UNCHANGED <<requestVars, users, created, powerCut, up>>,
           \A w \in Writers : \/ temp'[w] = temp[w]
                              \/ w \notin Requests /\ temp'[w] = None
                              \/ /\ temp[w] # None
                                 /\ temp'[w].file = temp[w].file
                                 /\ temp'[w].content = temp[w].content,
           \/ OnDisk(UsersFile)' = OnDisk(UsersFile)
           \/ OnDisk(UsersFile)' \notin {None, Nobody}
    PROVE  SaversOK' /\ TempsOK' /\ LockedOK'
  <1>1. Requests \subseteq Writers
      BY DataAssumption
  <1>2. SaversOK'
      BY <1>1 DEF SInv, SaversOK, SavesUsers, requestVars
  <1>3. TempsOK'
      BY DEF SInv, TempsOK, SavesUsers
  <1>4. LockedOK'
      BY DEF SInv, LockedOK
  <1> QED
      BY <1>2, <1>3, <1>4

\* A request arrives.
LEMMA SetupBegin ==
    ASSUME SInv, NEW r \in Requests, NEW op, Begin(r, op)
    PROVE  SaversOK' /\ TempsOK' /\ LockedOK'
  <1>0. pc'[r] = "change" => req'[r].op = "change"
      <2>1. req'[r].op = op
          BY DEF Begin, NoRequest, SInv, IInv, RequestsOK
      <2>2. op \notin {"setup", "change", "import"} => pc'[r] # "change"
          BY DEF Begin, Goes, FirstStep, SInv, IInv, RequestsOK
      <2>3. op \in {"setup", "import"} => pc'[r] # "change"
          BY DEF Begin, Goes, SInv, IInv, RequestsOK
      <2> QED
          BY <2>1, <2>2, <2>3
  <1>1. /\ up /\ pc[r] = "idle" /\ temp' = temp /\ UNCHANGED <<disk, lock, users, created, powerCut, up>>
        /\ \A x \in Requests \ {r} : pc'[x] = pc[x] /\ req'[x] = req[x]
      BY DEF Begin, Goes, storageVars, userVars, SInv, IInv, RequestsOK
  <1>2. temp[r] = None
      BY <1>1 DEF SInv, SaversOK
  <1>3. SaversOK'
      BY <1>0, <1>1, <1>2 DEF SInv, SaversOK, SavesUsers
  <1>4. TempsOK' /\ LockedOK'
      BY <1>1 DEF SInv, TempsOK, SavesUsers, LockedOK, OnDisk
  <1> QED
      BY <1>3, <1>4

\* A step of a handler.
LEMMA SetupHandler ==
    ASSUME SInv, NEW r \in Requests, Handler(r)
    PROVE  SaversOK' /\ TempsOK' /\ LockedOK'
  <1>1. pc[r] # "saving" /\ pc[r] # "idle" /\ lock' = lock
        /\ \E to : to # "change" /\ pc' = [pc EXCEPT ![r] = to]
      BY DEF Handler, SettingsStep, Goes, Get, LookupAddress, VerifyDomain, RefuteDomain,
             LeaveLookup, CopySettings, GetAgain, SetRoute, RemoveRoute, Undo, SetOldRoute
  <1>2. \E q : req' = [req EXCEPT ![r] = q]
      <2>1. req = [req EXCEPT ![r] = req[r]]
          BY DEF SInv, IInv, RequestsOK
      <2>2. CASE Get(r)
          BY <2>2 DEF Get
      <2>3. CASE LookupAddress(r) \/ LeaveLookup(r) \/ SetRoute(r) \/ RemoveRoute(r) \/ SetOldRoute(r)
          BY <2>1, <2>3 DEF LookupAddress, LeaveLookup, SetRoute, RemoveRoute, SetOldRoute
      <2>4. CASE VerifyDomain(r) \/ RefuteDomain(r) \/ GetAgain(r)
          BY <2>4 DEF VerifyDomain, RefuteDomain, GetAgain, Holds
      <2>5. CASE CopySettings(r)
          BY <2>5 DEF CopySettings, Holds
      <2>6. CASE Undo(r)
          BY <2>6 DEF Undo
      <2> QED
          BY <2>2, <2>3, <2>4, <2>5, <2>6 DEF Handler, SettingsStep
  <1>3. pc'[r] # "change" /\ \A x \in Requests \ {r} : pc'[x] = pc[x] /\ req'[x] = req[x]
      BY <1>1, <1>2 DEF SInv, IInv, RequestsOK
  <1>4. UNCHANGED <<temp, disk, users, created, powerCut, up>>
      BY DEF Handler, storageVars, userVars
  <1> QED
      BY <1>1, <1>3, <1>4, SetupMoves DEF OnDisk

\* A save of the accounts begins: nobody else saves them, and if it is a setup
\* there was nobody, and so no setup has succeeded.
LEMMA SetupAccounts ==
    ASSUME SInv, NEW r \in Requests, Setup(r) \/ Password(r)
    PROVE  SaversOK' /\ TempsOK' /\ LockedOK'
  <1>1. UNCHANGED <<up, powerCut, created, disk>>
      BY DEF Setup, Password, CheckSetup, CreateAdmin, AddUser, CreateAdminRefused,
             ChangePassword, ChangeRefused, CreateTemp, userVars, storageVars
  <1>2. CASE CheckSetup(r) \/ CreateAdminRefused(r) \/ ChangeRefused(r)
      <2>1. pc[r] # "saving" /\ pc[r] # "idle" /\ UNCHANGED <<lock, req, users, temp>>
            /\ \E to : to # "change" /\ pc' = [pc EXCEPT ![r] = to]
          BY <1>2 DEF CheckSetup, CreateAdminRefused, ChangeRefused, Goes, userVars, storageVars
      <2>2. pc'[r] # "change" /\ \A x \in Requests \ {r} : pc'[x] = pc[x] /\ req'[x] = req[x]
          BY <2>1 DEF SInv, IInv, RequestsOK
      <2> QED
          BY <1>1, <2>1, <2>2, SetupMoves DEF OnDisk
  <1>3. CASE CreateAdmin(r) \/ ChangePassword(r)
      <2>1. /\ lock[UsersFile] = None /\ lock' = [lock EXCEPT ![UsersFile] = r]
            /\ pc[r] \in {"create", "change"} /\ pc' = [pc EXCEPT ![r] = "saving"]
            /\ CreateTemp(r, UsersFile, users')
            /\ \A x \in Requests \ {r} : req'[x] = req[x]
          BY <1>3 DEF CreateAdmin, AddUser, ChangePassword, Goes, SInv, IInv, RequestsOK
      <2>2. up /\ temp[r] = None
          BY <2>1 DEF SInv, SaversOK
      <2>3. users' # Nobody
          <3>1. CASE CreateAdmin(r)
              <4>1. PICK n \in Names, p \in Passwords : users' = [users EXCEPT ![n] = p]
                  BY <3>1 DEF CreateAdmin, AddUser
              <4>2. users'[n] = p /\ p # None
                  BY <4>1, DataAssumption DEF SInv, IInv, MemoryOK, SoundAccounts, Accounts
              <4> QED
                  BY <4>2 DEF Nobody
          <3>2. CASE ChangePassword(r)
              <4>1. PICK n \in Owners(users), p \in Passwords : users' = [users EXCEPT ![n] = p]
                  BY <3>2 DEF ChangePassword
              <4>2. users'[n] = p /\ p # None /\ n \in Names
                  BY <4>1, DataAssumption DEF SInv, IInv, MemoryOK, SoundAccounts, Accounts, Owners
              <4> QED
                  BY <4>2 DEF Nobody
          <3> QED
              BY <1>3, <3>1, <3>2
      <2>4. temp' = [temp EXCEPT ![r] = [file |-> UsersFile, content |-> users', synced |-> FALSE]]
            /\ temp = [w \in Writers |-> temp[w]] /\ r \in Writers
          BY <2>1, DataAssumption DEF CreateTemp, SInv, IInv, StorageTypeOK
      <2>5. \A w \in Writers \ {r} : temp'[w] = temp[w]
          BY <2>4
      <2>6. temp'[r] = [file |-> UsersFile, content |-> users', synced |-> FALSE]
          BY <2>4
      <2>7. req'[r].op = "setup" => ~created \/ powerCut
          <3>1. CASE CreateAdmin(r)
              BY <3>1, <2>2 DEF CreateAdmin, SInv, LockedOK
          <3>2. CASE ChangePassword(r)
              <4>1. req'[r].op = req[r].op /\ pc[r] = "change"
                  BY <3>2 DEF ChangePassword, Goes
              <4> QED
                  BY <4>1 DEF SInv, SaversOK
          <3> QED
              BY <1>3, <3>1, <3>2
      <2>8. \A x \in Requests \ {r} : ~SavesUsers(x)
          BY <2>1, DataAssumption DEF SInv, SaversOK
      <2>9. SaversOK'
          <3>1. lock'[UsersFile] = r
              BY <2>1, SoundIsWhole DEF SInv, IInv, RequestsOK
          <3>2. pc'[r] = "saving" /\ \A x \in Requests \ {r} : pc'[x] = pc[x]
              BY <2>1 DEF SInv, IInv, RequestsOK
          <3>3. ASSUME NEW x \in Requests \ {r}
                PROVE  /\ ~SavesUsers(x)' /\ (pc'[x] # "idle" => up')
                       /\ pc'[x] = "change" => req'[x].op = "change"
                       /\ temp'[x] # None => pc'[x] = "saving"
              BY <1>1, <2>1, <2>5, <2>8, <3>2, DataAssumption DEF SavesUsers, SInv, SaversOK
          <3> QED
              BY <1>1, <2>2, <2>3, <2>7, <3>1, <3>2, <3>3 DEF SaversOK
      <2>10. TempsOK'
          BY <2>3, <2>5, <2>6 DEF SInv, TempsOK, SavesUsers
      <2>11. LockedOK'
          BY <1>1, <2>3 DEF SInv, LockedOK, OnDisk
      <2> QED
          BY <2>9, <2>10, <2>11
  <1> QED
      BY <1>2, <1>3 DEF Setup, Password

\* The save of the settings begins; it is no save of the accounts.
LEMMA SetupSave ==
    ASSUME SInv, NEW r \in Requests, Save(r)
    PROVE  SaversOK' /\ TempsOK' /\ LockedOK'
  <1>1. /\ pc[r] = "save" /\ pc' = [pc EXCEPT ![r] = "saving"] /\ UNCHANGED req
        /\ lock' = [lock EXCEPT ![SettingsFile] = r]
        /\ CreateTemp(r, SettingsFile, req[r].copy)
        /\ UNCHANGED <<users, created, powerCut, up, disk>>
      BY DEF Save, BeginSave, Goes, CreateTemp, userVars
  <1>2. up /\ lock'[UsersFile] = lock[UsersFile]
      BY <1>1, SoundIsWhole DEF SInv, SaversOK, IInv, RequestsOK
  <1>3. /\ temp'[r] = [file |-> SettingsFile, content |-> req[r].copy, synced |-> FALSE]
        /\ \A w \in Writers \ {r} : temp'[w] = temp[w]
      <2>1. temp = [w \in Writers |-> temp[w]] /\ r \in Writers
          BY DataAssumption DEF SInv, IInv, StorageTypeOK
      <2> QED
          BY <1>1, <2>1 DEF CreateTemp
  <1>4. pc'[r] = "saving" /\ \A x \in Requests \ {r} : pc'[x] = pc[x]
      BY <1>1 DEF SInv, IInv, RequestsOK
  <1>5. ~SavesUsers(r)' /\ \A w \in Writers \ {r} : SavesUsers(w)' <=> SavesUsers(w)
      BY <1>3, SoundIsWhole DEF SavesUsers
  <1>6. SaversOK'
      BY <1>1, <1>2, <1>3, <1>4, <1>5, DataAssumption DEF SInv, SaversOK
  <1>7. TempsOK'
      BY <1>3, <1>5 DEF SInv, TempsOK
  <1>8. LockedOK'
      BY <1>1 DEF SInv, LockedOK, OnDisk
  <1> QED
      BY <1>6, <1>7, <1>8

\* A save ends, well or not: what it has put in the file, and what it leaves in
\* memory, is not nobody unless no setup has succeeded.
LEMMA SetupSaved ==
    ASSUME SInv, NEW r \in Requests, Saved(r) \/ SaveFailed(r)
    PROVE  SaversOK' /\ TempsOK' /\ LockedOK'
  <1>1. /\ pc[r] = "saving" /\ UNCHANGED <<req, powerCut, up>> /\ temp[r] # None
        /\ temp' = [temp EXCEPT ![r] = None]
        /\ \E to : to # "change" /\ pc' = [pc EXCEPT ![r] = to]
      BY DEF Saved, SaveFailed, FinishSave, FailSave, FinishUsers, FailUsers, Goes,
             RenameTemp, DiscardTemp, AfterSave, ReadyToRename
  <1>2. temp'[r] = None /\ \A w \in Writers \ {r} : temp'[w] = temp[w]
      BY <1>1, DataAssumption DEF SInv, IInv, StorageTypeOK
  <1>3. pc'[r] # "change" /\ up /\ \A x \in Requests \ {r} : pc'[x] = pc[x]
      BY <1>1 DEF SInv, SaversOK, IInv, RequestsOK
  <1>4. ~SavesUsers(r)' /\ \A w \in Writers \ {r} : SavesUsers(w)' <=> SavesUsers(w)
      BY <1>2 DEF SavesUsers
  <1>5. TempsOK'
      BY <1>2, <1>4 DEF SInv, TempsOK
  <1>6. CASE temp[r].file = SettingsFile
      <2>1. UNCHANGED <<users, created>> /\ lock' = [lock EXCEPT ![SettingsFile] = None]
            /\ (RenameTemp(r) \/ DiscardTemp(r))
          BY <1>6, SoundIsWhole DEF Saved, SaveFailed, FinishSave, FailSave, FinishUsers,
                                    FailUsers, ReadyToRename, Unlocks, userVars
      <2>2. lock'[UsersFile] = lock[UsersFile] /\ OnDisk(UsersFile)' = OnDisk(UsersFile)
          BY <1>6, <2>1, SoundIsWhole DEF RenameTemp, DiscardTemp, OnDisk, SInv, IInv, RequestsOK,
                                          StorageTypeOK
      <2>3. SaversOK'
          BY <1>1, <1>2, <1>3, <1>4, <2>1, <2>2, DataAssumption DEF SInv, SaversOK
      <2>4. LockedOK'
          BY <1>1, <2>1, <2>2 DEF SInv, LockedOK
      <2> QED
          BY <1>5, <2>3, <2>4
  <1>7. CASE temp[r].file # SettingsFile
      <2>1. SavesUsers(r) /\ (FinishUsers(r) \/ FailUsers(r))
          BY <1>7 DEF Saved, SaveFailed, FinishSave, FailSave, FinishUsers,
                      FailUsers, ReadyToRename, SavesUsers
      <2>2. \A x \in Requests \ {r} : ~SavesUsers(x)
          BY <2>1 DEF SInv, SaversOK
      <2>3. SaversOK'
          BY <1>1, <1>2, <1>3, <1>4, <2>2, DataAssumption DEF SInv, SaversOK
      <2>4. LockedOK'
          <3>1. CASE FinishUsers(r)
              <4>1. users' = users /\ disk' = [disk EXCEPT ![UsersFile] =
                        [content |-> temp[r].content, synced |-> temp[r].synced]]
                  BY <2>1, <3>1 DEF FinishUsers, RenameTemp, SavesUsers
              <4>2. OnDisk(UsersFile)' = temp[r].content
                  BY <4>1, SoundIsWhole DEF OnDisk, SInv, IInv, StorageTypeOK
              <4>3. temp[r].content # Nobody /\ temp[r].content \in Accounts /\ users # Nobody
                  BY <2>1, SoundIsWhole, DataAssumption
                     DEF SInv, TempsOK, SaversOK, SavesUsers, IInv, StorageTypeOK, SoundAccounts
              <4> QED
                  BY <4>1, <4>2, <4>3, SoundIsWhole, DataAssumption DEF LockedOK
          <3>2. CASE FailUsers(r)
              <4>1. UNCHANGED <<created, disk>>
                    /\ users' = IF req[r].op = "setup" THEN [users EXCEPT ![req[r].user] = None]
                                ELSE users
                  BY <3>2 DEF FailUsers, DiscardTemp
              <4>2. req[r].op = "setup" => ~created \/ powerCut
                  BY <2>1 DEF SInv, SaversOK
              <4> QED
                  BY <1>1, <4>1, <4>2 DEF SInv, LockedOK, OnDisk
          <3> QED
              BY <2>1, <3>1, <3>2
      <2> QED
          BY <1>5, <2>3, <2>4
  <1> QED
      BY <1>6, <1>7

\* An archive brings an administrator of its own, or leaves the file cut short,
\* and then no start succeeds.
LEMMA SetupImport ==
    ASSUME SInv, NEW r \in Requests,
           Truncate(r) \/ Unpack(r) \/ NotInArchive(r) \/ ImportFails(r)
    PROVE  SaversOK' /\ TempsOK' /\ LockedOK'
  <1>1. UNCHANGED <<temp, users, created, powerCut, up, lock, req>>
      BY DEF Truncate, Unpack, NotInArchive, ImportFails, OpenTruncated, CopyOut, CloseUnfinished,
             storageVars, requestVars, userVars
  <1>2. /\ pc[r] # "saving" /\ pc[r] # "idle"
        /\ \E to : to # "change" /\ pc' = [pc EXCEPT ![r] = to]
      <2>1. pc = [pc EXCEPT ![r] = pc[r]] /\ Unpacks(r)
          BY DEF SInv, IInv, RequestsOK, Truncate, Unpack, NotInArchive, ImportFails
      <2>2. CASE Truncate(r)
          BY <2>1, <2>2 DEF Truncate, Unpacks, requestVars
      <2>3. CASE ~Truncate(r)
          BY <2>1, <2>3 DEF Unpack, NotInArchive, ImportFails, Goes, AfterFile, Unpacks
      <2> QED
          BY <2>2, <2>3
  <1>3. pc'[r] # "change" /\ \A x \in Requests \ {r} : pc'[x] = pc[x] /\ req'[x] = req[x]
      BY <1>1, <1>2 DEF SInv, IInv, RequestsOK
  <1>4. OnDisk(UsersFile)' = OnDisk(UsersFile) \/ OnDisk(UsersFile)' \notin {None, Nobody}
      <2>1. disk = [f \in DataFiles |-> disk[f]] /\ Files = DataFiles
          BY SoundIsWhole DEF SInv, IInv, StorageTypeOK, Files
      <2>2. Archive[UsersFile] # None /\ Archive[UsersFile] # Nobody
          <3>1. PICK n \in Names : n \in Owners(Archive[UsersFile])
              BY ArchiveAssumption
          <3> QED
              BY <3>1, SoundIsWhole DEF Owners, Nobody
      <2>3. Torn # None /\ Torn # Nobody
          BY StorageAssumption, DataAssumption, NothingIsSound DEF SoundAccounts
      <2>4. CASE Truncate(r)
          BY <2>1, <2>3, <2>4, SoundIsWhole DEF Truncate, OpenTruncated, OnDisk
      <2>5. CASE Unpack(r)
          BY <2>1, <2>2, <2>5, SoundIsWhole DEF Unpack, CopyOut, OnDisk
      <2>6. CASE NotInArchive(r) \/ ImportFails(r)
          BY <2>6 DEF NotInArchive, ImportFails, CloseUnfinished, storageVars, OnDisk
      <2> QED
          BY <2>4, <2>5, <2>6
  <1>5. temp[r] = None
      BY <1>2 DEF SInv, SaversOK
  <1>6. SaversOK'
      BY <1>1, <1>2, <1>3, <1>5 DEF SInv, SaversOK, SavesUsers
  <1>7. TempsOK' /\ LockedOK'
      BY <1>1, <1>4 DEF SInv, TempsOK, LockedOK, SavesUsers
  <1> QED
      BY <1>6, <1>7

\* The command changes the password of somebody who is there.
LEMMA SetupReset ==
    ASSUME SInv, Reset
    PROVE  SaversOK' /\ TempsOK' /\ LockedOK'
  <1>1. UNCHANGED <<requestVars, users, created, powerCut, up>>
      BY DEF Reset, ResetPassword, FailReset, FinishReset
  <1>2. CLI \in Writers /\ CLI \notin Requests /\ Requests \subseteq Writers
        /\ temp = [w \in Writers |-> temp[w]] /\ disk = [f \in DataFiles |-> disk[f]]
      BY SoundIsWhole, DataAssumption DEF SInv, IInv, StorageTypeOK
  <1>3. CASE ResetPassword
      <2>1. PICK n \in Owners(OnDisk(UsersFile)), p \in Passwords :
                CreateTemp(CLI, UsersFile, [OnDisk(UsersFile) EXCEPT ![n] = p])
          BY <1>3 DEF ResetPassword
      <2>2. OnDisk(UsersFile) \in Accounts
          BY <1>3, SoundIsWhole DEF ResetPassword, SInv, IInv, StorageTypeOK, OnDisk, SoundAccounts
      <2>3. [OnDisk(UsersFile) EXCEPT ![n] = p] # Nobody
          <3>1. n \in Names /\ p # None
              BY DataAssumption DEF Owners
          <3>2. [OnDisk(UsersFile) EXCEPT ![n] = p][n] = p
              BY <2>2, <3>1 DEF Accounts
          <3> QED
              BY <3>1, <3>2 DEF Nobody
      <2> DEFINE c == [OnDisk(UsersFile) EXCEPT ![n] = p]
      <2>4. CreateTemp(CLI, UsersFile, c) /\ c # Nobody
          BY <2>1, <2>3
      <2> HIDE DEF c
      <2>5. /\ temp'[CLI].content = c
            /\ \A w \in Writers \ {CLI} : temp'[w] = temp[w]
            /\ disk' = disk
          BY <1>2, <2>4 DEF CreateTemp
      <2>6. SaversOK'
          BY <1>1, <1>2, <2>5 DEF SInv, SaversOK, SavesUsers, requestVars
      <2>7. TempsOK' /\ LockedOK'
          BY <1>1, <2>4, <2>5 DEF SInv, TempsOK, SavesUsers, LockedOK, OnDisk
      <2> QED
          BY <2>6, <2>7
  <1>4. CASE FailReset
      <2>1. temp' = [temp EXCEPT ![CLI] = None] /\ OnDisk(UsersFile)' = OnDisk(UsersFile)
          BY <1>4 DEF FailReset, DiscardTemp, OnDisk
      <2>2. \A w \in Writers : IF w = CLI THEN temp'[w] = None ELSE temp'[w] = temp[w]
          BY <1>2, <2>1
      <2> QED
          BY <1>1, <1>2, <2>1, <2>2, SetupFrame
  <1>5. CASE FinishReset
      <2>1. temp' = [temp EXCEPT ![CLI] = None] /\ SavesUsers(CLI)
            /\ disk' = [disk EXCEPT ![UsersFile] =
                            [content |-> temp[CLI].content, synced |-> temp[CLI].synced]]
          BY <1>5 DEF FinishReset, RenameTemp, ReadyToRename, SavesUsers
      <2>2. \A w \in Writers : IF w = CLI THEN temp'[w] = None ELSE temp'[w] = temp[w]
          BY <1>2, <2>1
      <2>3. temp[CLI].content # Nobody /\ temp[CLI].content \in Accounts
          BY <1>2, <2>1, SoundIsWhole DEF SInv, TempsOK, SavesUsers, IInv, StorageTypeOK, SoundAccounts
      <2>4. OnDisk(UsersFile)' \notin {None, Nobody}
          BY <1>2, <2>1, <2>3, SoundIsWhole, DataAssumption DEF OnDisk
      <2> QED
          BY <1>1, <1>2, <2>2, <2>4, SetupFrame
  <1> QED
      BY <1>3, <1>4, <1>5 DEF Reset

\* Crashes, losses of power, starts and what the host does by itself.
LEMMA SetupHost ==
    ASSUME SInv, Crash \/ PowerCut \/ Start \/ (\E w \in Writers : Sync(w))
                 \/ (\E f \in Files : WriteBack(f))
    PROVE  SaversOK' /\ TempsOK' /\ LockedOK'
  <1>1. CASE Crash
      <2>1. /\ up' = FALSE /\ pc' = Idle /\ UNCHANGED <<disk, users, created, powerCut>>
            /\ temp' = [w \in Writers |-> IF w \in Requests THEN None ELSE temp[w]]
          BY <1>1 DEF Crash, Forget, userVars
      <2>2. SaversOK'
          BY <2>1, DataAssumption DEF SaversOK, SavesUsers, Idle
      <2>3. TempsOK' /\ LockedOK'
          BY <2>1 DEF SInv, TempsOK, SavesUsers, LockedOK, OnDisk
      <2> QED
          BY <2>2, <2>3
  <1>2. CASE PowerCut
      <2>1. /\ powerCut' = TRUE /\ pc' = Idle
            /\ temp' = [w \in Writers |-> None]
          BY <1>2 DEF PowerCut, LosePower, Forget
      <2> QED
          BY <2>1, DataAssumption DEF SaversOK, TempsOK, SavesUsers, LockedOK, Idle
  <1>3. CASE Start
      <2>1. ~up /\ up' = TRUE /\ UNCHANGED <<storageVars, requestVars, created, powerCut>>
            /\ users' = LoadedUsers
          BY <1>3 DEF Start
      <2>2. \A r \in Requests : pc[r] = "idle" /\ temp[r] = None
          BY <2>1 DEF SInv, SaversOK
      <2>3. SaversOK'
          BY <2>1, <2>2 DEF SaversOK, SavesUsers, storageVars, requestVars
      <2>4. TempsOK' /\ LockedOK'
          BY <2>1 DEF SInv, TempsOK, SavesUsers, LockedOK, LoadedUsers, OnDisk, storageVars
      <2> QED
          BY <2>3, <2>4
  <1>4. CASE \E w \in Writers : Sync(w)
      <2>1. PICK w \in Writers : Sync(w)
          BY <1>4
      <2>2. UNCHANGED <<requestVars, users, created, powerCut, up>> /\ temp[w] # None
            /\ temp' = [temp EXCEPT ![w].synced = TRUE] /\ disk' = disk
          BY <2>1 DEF Sync, SyncTemp, userVars
      <2>3. ASSUME NEW x \in Writers
            PROVE  temp'[x] = temp[x] \/ (/\ temp[x] # None
                                          /\ temp'[x].file = temp[x].file
                                          /\ temp'[x].content = temp[x].content)
          <3>1. /\ temp = [y \in Writers |-> temp[y]]
                /\ temp[w] \in [file: {temp[w].file}, content: Sound[temp[w].file], synced: BOOLEAN]
              BY <2>2 DEF SInv, IInv, StorageTypeOK
          <3>2. temp'[x] = IF x = w THEN [temp[w] EXCEPT !.synced = TRUE] ELSE temp[x]
              BY <2>2, <3>1
          <3>3. temp'[w].file = temp[w].file /\ temp'[w].content = temp[w].content
              BY <2>2, <3>1
          <3> QED
              BY <2>2, <3>2, <3>3
      <2>4. OnDisk(UsersFile)' = OnDisk(UsersFile)
          BY <2>2 DEF OnDisk
      <2> QED
          BY <2>2, <2>3, <2>4, SetupFrame
  <1>5. CASE \E f \in Files : WriteBack(f)
      <2>1. PICK f \in Files : WriteBack(f)
          BY <1>5
      <2>2. UNCHANGED <<requestVars, users, created, powerCut, up, temp>>
            /\ disk' = [disk EXCEPT ![f].synced = TRUE]
          BY <2>1 DEF WriteBack, Flush, userVars
      <2>3. Files = DataFiles /\ disk = [x \in DataFiles |-> disk[x]]
            /\ \A x \in DataFiles : disk[x] \in [content: Sound[x] \cup {None, Torn}, synced: BOOLEAN]
          BY SoundIsWhole DEF SInv, IInv, StorageTypeOK, Files
      <2>4. OnDisk(UsersFile)' = OnDisk(UsersFile)
          BY <2>2, <2>3, SoundIsWhole DEF OnDisk
      <2> QED
          BY <2>2, <2>4, SetupFrame
  <1> QED
      BY <1>1, <1>2, <1>3, <1>4, <1>5

\* Every step preserves it.
LEMMA SetupNext == SInv /\ [Next]_vars => SInv'
  <1> SUFFICES ASSUME SInv, [Next]_vars PROVE SInv'
      OBVIOUS
  <1>1. IInv'
      BY InvNext DEF SInv
  <1>2. CASE UNCHANGED vars
      <2>1. UNCHANGED <<requestVars, users, created, powerCut, up, temp, disk>>
          BY <1>2 DEF vars, storageVars, userVars
      <2>2. SaversOK' /\ TempsOK' /\ LockedOK'
          BY <2>1, SetupFrame DEF OnDisk
      <2> QED
          BY <1>1, <2>2 DEF SInv
  <1>3. CASE Next
      <2>1. ASSUME NEW r \in Requests,
                   \/ \E op \in (SettingsOps \ {"revert"}) \cup UserOps \cup {"import"} : Begin(r, op)
                   \/ Handler(r) \/ Setup(r) \/ Password(r) \/ Save(r) \/ Saved(r) \/ SaveFailed(r)
                   \/ Truncate(r) \/ Unpack(r) \/ NotInArchive(r) \/ ImportFails(r)
            PROVE  SaversOK' /\ TempsOK' /\ LockedOK'
          BY <2>1, SetupBegin, SetupHandler, SetupAccounts, SetupSave, SetupSaved, SetupImport
      <2>2. SaversOK' /\ TempsOK' /\ LockedOK'
          BY <1>3, <2>1, SetupReset, SetupHost DEF Next
      <2> QED
          BY <1>1, <2>2 DEF SInv
  <1> QED
      BY <1>2, <1>3

\* Once setup has said that the administrator exists, no interleaving, crash or
\* start opens it again; a loss of power may.
THEOREM SetupAlwaysStaysLocked == Spec => []SetupStaysLocked
  <1>1. SInv => SetupStaysLocked
      BY DEF SInv, LockedOK, SetupStaysLocked
  <1> QED
      BY <1>1, SetupInit, SetupNext, PTL DEF Spec

-----------------------------------------------------------------------------
(* MemoryIsOnDisk *)

\* Only a request of the running server has a file open, one that an archive is
\* being unpacked over.
OpenOK == \A w \in Writers : open[w] \in DataFiles => w \in Requests /\ up /\ open[w] \in loose

\* What a request saves is what it holds: its copy of the settings, or the
\* accounts, which nobody else changes while it has their mutex.
SavesSettings(r) == temp[r] # None /\ temp[r].file = SettingsFile
SavedOK ==
    \A r \in Requests :
        /\ SavesSettings(r) => temp[r].content = req[r].copy
        /\ SavesUsers(r) => temp[r].content = users /\ req[r].op \in UserOps
        /\ pc[r] \in {"check", "create"} => req[r].op = "setup"

\* The settings change in memory when the file does.
SettingsOnDisk == up /\ SettingsFile \notin loose => settings = LoadedSettings

\* The accounts change before; a setup that fails can take back what it did.
UsersOnDisk ==
    up /\ UsersFile \notin loose =>
      /\ lock[UsersFile] = None => users = LoadedUsers
      /\ \A r \in Requests : SavesUsers(r) /\ req[r].op = "setup" =>
            /\ LoadedUsers = Nobody
            /\ \A n \in Names : n # req[r].user => users[n] = None

KInv == OpenOK /\ SavedOK /\ SettingsOnDisk /\ UsersOnDisk

\* It holds initially.
LEMMA DiskInit == Init => KInv
  <1> SUFFICES ASSUME Init PROVE KInv
      OBVIOUS
  <1>1. temp = [w \in Writers |-> None] /\ open = [w \in Writers |-> None]
      BY DEF Init, StorageInit
  <1>2. OpenOK
      BY <1>1, DataAssumption DEF OpenOK
  <1>3. SavedOK /\ SettingsOnDisk /\ UsersOnDisk
      BY <1>1, DataAssumption DEF Init, SavedOK, SettingsOnDisk, UsersOnDisk, SavesUsers, SavesSettings, Idle
  <1> QED
      BY <1>2, <1>3 DEF KInv

\* The storage as functions.
LEMMA StorageFunctions ==
    ASSUME SInv
    PROVE  /\ temp = [w \in Writers |-> temp[w]]
           /\ disk = [f \in DataFiles |-> disk[f]] /\ Files = DataFiles
           /\ open \in [Writers -> DataFiles \cup {None, Gone}]
           /\ Requests \subseteq Writers
           /\ lock \in [DataFiles -> Requests \cup {None}]
           /\ pc \in [Requests -> PCs] /\ DOMAIN req = Requests
  BY SoundIsWhole, DataAssumption DEF SInv, IInv, StorageTypeOK, RequestsOK, Files

\* A request that does not save moves.
LEMMA DiskMoves ==
    ASSUME SInv, KInv, NEW r \in Requests, pc[r] # "saving",
           pc'[r] \in {"check", "create"} => req'[r].op = "setup",
           \A x \in Requests \ {r} : pc'[x] = pc[x] /\ req'[x] = req[x],
           UNCHANGED <<disk, temp, open, settings, users, up, loose>>, lock'[UsersFile] = lock[UsersFile]
    PROVE  KInv'
  <1>1. temp[r] = None
      BY DEF SInv, SaversOK
  <1>2. LoadedSettings' = LoadedSettings /\ LoadedUsers' = LoadedUsers
      BY DEF LoadedSettings, LoadedUsers, OnDisk
  <1>3. OpenOK' /\ SettingsOnDisk'
      BY <1>2 DEF KInv, OpenOK, SettingsOnDisk
  <1>4. SavedOK'
      BY <1>1 DEF KInv, SavedOK, SavesUsers, SavesSettings
  <1>5. UsersOnDisk'
      BY <1>1, <1>2 DEF KInv, UsersOnDisk, SavesUsers
  <1> QED
      BY <1>3, <1>4, <1>5 DEF KInv

\* A request arrives, or a step that neither saves nor unpacks.
LEMMA DiskHandlers ==
    ASSUME SInv, KInv, NEW r \in Requests,
           \/ \E op \in (SettingsOps \ {"revert"}) \cup UserOps \cup {"import"} : Begin(r, op)
           \/ Handler(r) \/ NotInArchive(r)
           \/ UNCHANGED up /\ UNCHANGED loose /\ UNCHANGED settings
              /\ (CheckSetup(r) \/ CreateAdminRefused(r) \/ ChangeRefused(r))
    PROVE  KInv'
  <1>t. pc \in [Requests -> PCs] /\ DOMAIN req = Requests
      BY StorageFunctions
  <1>1. ASSUME NEW op \in (SettingsOps \ {"revert"}) \cup UserOps \cup {"import"}, Begin(r, op) PROVE KInv'
      <2>1. /\ pc[r] = "idle" /\ UNCHANGED <<disk, temp, open, settings, users, up, loose, lock>>
            /\ \A x \in Requests \ {r} : pc'[x] = pc[x] /\ req'[x] = req[x]
          BY <1>1, <1>t DEF Begin, Goes, storageVars, settingsVars, userVars
      <2>2. req'[r].op = op
          BY <1>1, <1>t DEF Begin, NoRequest
      <2>3. pc'[r] \in {"check", "create"} => op = "setup"
          BY <1>1, <1>t DEF Begin, Goes, FirstStep
      <2> QED
          BY <2>1, <2>2, <2>3, DiskMoves
  <1>2. CASE Handler(r)
      <2>1. /\ pc[r] # "saving" /\ UNCHANGED <<disk, temp, open, settings, users, up, loose, lock>>
            /\ \E to : to \notin {"check", "create"} /\ pc' = [pc EXCEPT ![r] = to]
          BY <1>2 DEF Handler, SettingsStep, Goes, Get, LookupAddress, VerifyDomain, RefuteDomain,
             LeaveLookup, CopySettings, GetAgain, SetRoute, RemoveRoute, Undo, SetOldRoute,
             storageVars, settingsVars, userVars
      <2>2. \A x \in Requests \ {r} : req'[x] = req[x]
          BY <1>2, <1>t DEF Handler, SettingsStep, Holds, Get, LookupAddress, VerifyDomain, RefuteDomain,
             LeaveLookup, CopySettings, GetAgain, SetRoute, RemoveRoute, Undo, SetOldRoute
      <2>3. pc'[r] \notin {"check", "create"} /\ \A x \in Requests \ {r} : pc'[x] = pc[x]
          BY <1>t, <2>1
      <2> QED
          BY <2>1, <2>2, <2>3, DiskMoves
  <1>3. CASE NotInArchive(r)
      <2>1. /\ pc[r] \in {"unpackSettings", "unpackUsers"} /\ pc'[r] \in {"unpackUsers", "idle"}
            /\ UNCHANGED <<disk, temp, open, settings, users, up, loose, lock, req>>
            /\ \A x \in Requests \ {r} : pc'[x] = pc[x]
          BY <1>3, <1>t DEF NotInArchive, Goes, Unpacks, AfterFile, storageVars, settingsVars, userVars
      <2> QED
          BY <2>1, DiskMoves
  <1>4. CASE UNCHANGED up /\ UNCHANGED loose /\ UNCHANGED settings
              /\ (CheckSetup(r) \/ CreateAdminRefused(r) \/ ChangeRefused(r))
      <2>1. /\ pc[r] \in {"check", "create", "change"} /\ pc'[r] \in {"create", "idle"}
            /\ (pc'[r] = "create" => pc[r] = "check")
            /\ UNCHANGED <<disk, temp, open, settings, users, up, loose, lock, req>>
            /\ \A x \in Requests \ {r} : pc'[x] = pc[x]
          BY <1>4, <1>t DEF CheckSetup, CreateAdminRefused, ChangeRefused, Goes, storageVars, userVars
      <2>2. pc'[r] \in {"check", "create"} => req'[r].op = "setup"
          BY <2>1 DEF KInv, SavedOK
      <2> QED
          BY <2>1, <2>2, DiskMoves
  <1> QED
      BY <1>1, <1>2, <1>3, <1>4

\* A save of the accounts begins: there was nobody, on disk neither, or it is a
\* change of the password.
LEMMA DiskAccounts ==
    ASSUME SInv, KInv, NEW r \in Requests, Setup(r) \/ Password(r)
    PROVE  KInv'
  <1>t. /\ temp = [w \in Writers |-> temp[w]] /\ Requests \subseteq Writers
        /\ lock \in [DataFiles -> Requests \cup {None}]
        /\ pc \in [Requests -> PCs] /\ DOMAIN req = Requests
      BY StorageFunctions
  <1>1. UNCHANGED <<up, loose, disk, open, settings>>
      BY DEF Setup, Password, CheckSetup, CreateAdmin, AddUser, CreateAdminRefused,
             ChangePassword, ChangeRefused, CreateTemp, userVars, storageVars, settingsVars
  <1>2. CASE CheckSetup(r) \/ CreateAdminRefused(r) \/ ChangeRefused(r)
      BY <1>1, <1>2, DiskHandlers
  <1>3. CASE CreateAdmin(r) \/ ChangePassword(r)
      <2>1. /\ lock[UsersFile] = None /\ lock' = [lock EXCEPT ![UsersFile] = r]
            /\ pc[r] \in {"create", "change"} /\ pc' = [pc EXCEPT ![r] = "saving"]
            /\ temp' = [temp EXCEPT ![r] = [file |-> UsersFile, content |-> users', synced |-> FALSE]]
            /\ \A x \in Requests \ {r} : req'[x] = req[x]
          BY <1>3, <1>t DEF CreateAdmin, AddUser, ChangePassword, Goes, CreateTemp
      <2>2. /\ temp'[r] = [file |-> UsersFile, content |-> users', synced |-> FALSE]
            /\ \A w \in Writers \ {r} : temp'[w] = temp[w]
          BY <1>t, <2>1
      <2>3. pc'[r] = "saving" /\ \A x \in Requests \ {r} : pc'[x] = pc[x]
          BY <1>t, <2>1
      <2>4. lock'[UsersFile] = r
          BY <1>t, <2>1, SoundIsWhole
      <2>5. \A x \in Requests \ {r} : ~SavesUsers(x) /\ ~SavesUsers(x)'
          <3>1. \A x \in Requests : ~SavesUsers(x)
              BY <2>1, DataAssumption DEF SInv, SaversOK
          <3> QED
              BY <1>t, <2>2, <3>1 DEF SavesUsers
      <2>6. /\ req'[r].op \in UserOps
            /\ req'[r].op = "setup" => users = Nobody /\ \A m \in Names : m # req'[r].user => users'[m] = None
          <3>1. CASE CreateAdmin(r)
              <4>1. PICK n \in Names, p \in Passwords : AddUser(r, n, p)
                  BY <3>1 DEF CreateAdmin
              <4>2. users = Nobody /\ users' = [users EXCEPT ![n] = p] /\ pc[r] = "create"
                    /\ req' = [req EXCEPT ![r].user = n]
                  BY <3>1, <4>1 DEF CreateAdmin, AddUser, Goes
              <4>3. req'[r].user = n /\ req'[r].op = "setup"
                  BY <1>t, <4>2 DEF SInv, IInv, RequestsOK, KInv, SavedOK
              <4>4. \A m \in Names : m # n => users'[m] = None
                  BY <4>2 DEF Nobody
              <4> QED
                  BY <4>2, <4>3, <4>4 DEF UserOps
          <3>2. CASE ChangePassword(r)
              <4>1. pc[r] = "change" /\ req'[r] = req[r]
                  BY <3>2 DEF ChangePassword, Goes
              <4> QED
                  BY <4>1 DEF SInv, SaversOK, UserOps
          <3> QED
              BY <1>3, <3>1, <3>2
      <2>7. OpenOK' /\ SettingsOnDisk'
          BY <1>1 DEF KInv, OpenOK, SettingsOnDisk, LoadedSettings, OnDisk
      <2>8. SavedOK'
          <3>1. ~SavesSettings(r)'
              BY <2>2, SoundIsWhole DEF SavesSettings
          <3>2. \A x \in Requests \ {r} : SavesSettings(x)' => SavesSettings(x) /\ temp'[x] = temp[x]
              BY <1>t, <2>2 DEF SavesSettings
          <3> QED
              BY <2>1, <2>2, <2>3, <2>5, <2>6, <3>1, <3>2 DEF KInv, SavedOK
      <2>9. UsersOnDisk'
          <3>1. LoadedUsers' = LoadedUsers
              BY <1>1 DEF LoadedUsers, OnDisk
          <3>2. lock'[UsersFile] # None
              BY <2>4, DataAssumption
          <3>3. up /\ UsersFile \notin loose => users = LoadedUsers
              BY <2>1 DEF KInv, UsersOnDisk
          <3> QED
              BY <1>1, <2>5, <2>6, <3>1, <3>2, <3>3 DEF UsersOnDisk
      <2> QED
          BY <2>7, <2>8, <2>9 DEF KInv
  <1> QED
      BY <1>2, <1>3 DEF Setup, Password

\* The save of the settings begins.
LEMMA DiskSave ==
    ASSUME SInv, KInv, NEW r \in Requests, Save(r)
    PROVE  KInv'
  <1>t. /\ temp = [w \in Writers |-> temp[w]] /\ Requests \subseteq Writers
        /\ lock \in [DataFiles -> Requests \cup {None}]
        /\ pc \in [Requests -> PCs]
      BY StorageFunctions
  <1>1. /\ pc[r] = "save" /\ pc' = [pc EXCEPT ![r] = "saving"]
        /\ lock' = [lock EXCEPT ![SettingsFile] = r]
        /\ temp' = [temp EXCEPT ![r] = [file |-> SettingsFile, content |-> req[r].copy, synced |-> FALSE]]
        /\ UNCHANGED <<users, settings, up, disk, open, loose, req>>
      BY DEF Save, BeginSave, Goes, CreateTemp, userVars, settingsVars
  <1>2. lock'[UsersFile] = lock[UsersFile]
      BY <1>t, <1>1, SoundIsWhole
  <1>3. /\ temp'[r] = [file |-> SettingsFile, content |-> req[r].copy, synced |-> FALSE]
        /\ \A w \in Writers \ {r} : temp'[w] = temp[w]
      BY <1>t, <1>1
  <1>4. pc'[r] = "saving" /\ \A x \in Requests \ {r} : pc'[x] = pc[x]
      BY <1>t, <1>1
  <1>5. ~SavesUsers(r)' /\ \A x \in Requests \ {r} : temp'[x] = temp[x] /\ (SavesUsers(x)' <=> SavesUsers(x))
                                                     /\ (SavesSettings(x)' <=> SavesSettings(x))
      BY <1>t, <1>3, SoundIsWhole DEF SavesUsers, SavesSettings
  <1>6. SavedOK'
      BY <1>1, <1>3, <1>4, <1>5 DEF KInv, SavedOK
  <1>7. OpenOK' /\ SettingsOnDisk' /\ UsersOnDisk'
      BY <1>1, <1>2, <1>5 DEF KInv, OpenOK, SettingsOnDisk, UsersOnDisk, LoadedSettings, LoadedUsers, OnDisk
  <1> QED
      BY <1>6, <1>7 DEF KInv

\* A save ends.  One that succeeds leaves file and memory with one content, one
\* that fails leaves both as they were, except for a change of the password.
LEMMA DiskSaved ==
    ASSUME SInv, KInv, NEW r \in Requests, Saved(r) \/ SaveFailed(r)
    PROVE  KInv'
  <1>t. /\ temp = [w \in Writers |-> temp[w]] /\ Requests \subseteq Writers
        /\ disk = [f \in DataFiles |-> disk[f]]
        /\ open \in [Writers -> DataFiles \cup {None, Gone}]
        /\ lock \in [DataFiles -> Requests \cup {None}]
        /\ pc \in [Requests -> PCs]
      BY StorageFunctions
  <1>1. /\ pc[r] = "saving" /\ UNCHANGED <<req, up>> /\ temp[r] # None
        /\ temp' = [temp EXCEPT ![r] = None]
        /\ \E to : to \notin {"check", "create"} /\ pc' = [pc EXCEPT ![r] = to]
      BY DEF Saved, SaveFailed, FinishSave, FailSave, FinishUsers, FailUsers, Goes,
             RenameTemp, DiscardTemp, AfterSave, ReadyToRename
  <1>2. temp'[r] = None /\ \A w \in Writers \ {r} : temp'[w] = temp[w]
      BY <1>t, <1>1
  <1>3. pc'[r] \notin {"check", "create"} /\ \A x \in Requests \ {r} : pc'[x] = pc[x]
      BY <1>t, <1>1
  <1>4. /\ ~SavesUsers(r)' /\ ~SavesSettings(r)'
        /\ \A x \in Requests \ {r} : temp'[x] = temp[x] /\ (SavesUsers(x)' <=> SavesUsers(x))
                                     /\ (SavesSettings(x)' <=> SavesSettings(x))
      BY <1>t, <1>2 DEF SavesUsers, SavesSettings
  <1>5. up
      BY <1>1 DEF SInv, SaversOK
  <1>6. CASE FinishSave(r) /\ UNCHANGED userVars /\ loose' = loose \ {temp[r].file}
      <2>1. SavesSettings(r) /\ settings' = req[r].copy /\ lock' = [lock EXCEPT ![SettingsFile] = None]
            /\ disk' = [disk EXCEPT ![SettingsFile] = [content |-> temp[r].content, synced |-> temp[r].synced]]
            /\ open' = [w \in Writers |-> IF open[w] = SettingsFile THEN Gone ELSE open[w]]
            /\ loose' = loose \ {SettingsFile} /\ UNCHANGED users
          BY <1>6 DEF FinishSave, ReadyToRename, RenameTemp, Unlocks, SavesSettings, userVars
      <2>2. lock'[UsersFile] = lock[UsersFile] /\ OnDisk(UsersFile)' = OnDisk(UsersFile)
          BY <1>t, <2>1, SoundIsWhole DEF OnDisk
      <2>3. OnDisk(SettingsFile)' = temp[r].content
          BY <1>t, <2>1, SoundIsWhole DEF OnDisk
      <2>4. temp[r].content = settings' /\ settings' # None
          <3>1. temp[r].content = req[r].copy
              BY <2>1 DEF KInv, SavedOK
          <3>2. req[r].copy \in SoundSettings
              BY <1>1 DEF SInv, IInv, RequestsOK
          <3> QED
              BY <2>1, <3>1, <3>2, DataAssumption DEF SoundSettings
      <2>5. LoadedUsers' = LoadedUsers /\ LoadedSettings' = settings'
          BY <2>2, <2>3, <2>4 DEF LoadedUsers, LoadedSettings
      <2>6. OpenOK'
          BY <1>1, <1>t, <2>1, DataAssumption DEF KInv, OpenOK
      <2>7. SavedOK'
          BY <1>1, <1>3, <1>4, <2>1 DEF KInv, SavedOK
      <2>8. SettingsOnDisk' /\ UsersOnDisk'
          BY <1>1, <1>4, <2>1, <2>2, <2>5, SoundIsWhole DEF KInv, SettingsOnDisk, UsersOnDisk
      <2> QED
          BY <2>6, <2>7, <2>8 DEF KInv
  <1>7. CASE FailSave(r) /\ UNCHANGED userVars /\ UNCHANGED loose
      <2>1. /\ lock' = [lock EXCEPT ![SettingsFile] = None]
            /\ UNCHANGED <<disk, open, settings, users, loose>>
          BY <1>7 DEF FailSave, DiscardTemp, Unlocks, userVars, settingsVars
      <2>2. lock'[UsersFile] = lock[UsersFile]
          BY <1>t, <2>1, SoundIsWhole
      <2>3. OpenOK' /\ SavedOK'
          BY <1>1, <1>3, <1>4, <2>1 DEF KInv, OpenOK, SavedOK
      <2>4. SettingsOnDisk' /\ UsersOnDisk'
          BY <1>1, <1>4, <2>1, <2>2 DEF KInv, SettingsOnDisk, UsersOnDisk, LoadedSettings, LoadedUsers, OnDisk
      <2> QED
          BY <2>3, <2>4 DEF KInv
  <1>8. CASE FinishUsers(r) /\ UNCHANGED settingsVars /\ loose' = loose \ {temp[r].file}
      <2>1. SavesUsers(r) /\ UNCHANGED <<users, settings>>
            /\ disk' = [disk EXCEPT ![UsersFile] = [content |-> temp[r].content, synced |-> temp[r].synced]]
            /\ open' = [w \in Writers |-> IF open[w] = UsersFile THEN Gone ELSE open[w]]
            /\ loose' = loose \ {UsersFile}
          BY <1>8 DEF FinishUsers, ReadyToRename, RenameTemp, SavesUsers, settingsVars
      <2>2. OnDisk(SettingsFile)' = OnDisk(SettingsFile) /\ OnDisk(UsersFile)' = temp[r].content
          BY <1>t, <2>1, SoundIsWhole DEF OnDisk
      <2>3. temp[r].content = users /\ users # None
          BY <2>1, DataAssumption DEF KInv, SavedOK, SInv, IInv, MemoryOK, SoundAccounts
      <2>4. LoadedUsers' = users /\ LoadedSettings' = LoadedSettings
          BY <2>2, <2>3 DEF LoadedUsers, LoadedSettings
      <2>5. \A x \in Requests \ {r} : ~SavesUsers(x)'
          BY <1>4, <2>1 DEF SInv, SaversOK
      <2>6. OpenOK' /\ SavedOK'
          BY <1>1, <1>3, <1>4, <1>t, <2>1, DataAssumption DEF KInv, OpenOK, SavedOK
      <2>7. SettingsOnDisk' /\ UsersOnDisk'
          BY <1>1, <1>4, <2>1, <2>4, <2>5, SoundIsWhole DEF KInv, SettingsOnDisk, UsersOnDisk
      <2> QED
          BY <2>6, <2>7 DEF KInv
  <1>9. CASE /\ FailUsers(r) /\ UNCHANGED <<settingsVars, apart>>
             /\ loose' = IF req[r].op = "change" THEN loose \cup {UsersFile} ELSE loose
      <2>1. SavesUsers(r) /\ UNCHANGED <<settings, disk, open>>
            /\ users' = IF req[r].op = "setup" THEN [users EXCEPT ![req[r].user] = None] ELSE users
          BY <1>9 DEF FailUsers, DiscardTemp, SavesUsers, settingsVars
      <2>2. LoadedUsers' = LoadedUsers /\ LoadedSettings' = LoadedSettings
          BY <2>1 DEF LoadedUsers, LoadedSettings, OnDisk
      <2>3. \A x \in Requests \ {r} : ~SavesUsers(x)'
          BY <1>4, <2>1 DEF SInv, SaversOK
      <2>4. OpenOK' /\ SavedOK'
          BY <1>1, <1>3, <1>4, <1>9, <2>1, <2>3 DEF KInv, OpenOK, SavedOK
      <2>5. SettingsOnDisk'
          BY <1>1, <1>9, <2>1, <2>2 DEF KInv, SettingsOnDisk
      <2>6. UsersOnDisk'
          <3>1. CASE req[r].op = "change"
              BY <1>9, <3>1 DEF UsersOnDisk
          <3>2. CASE req[r].op = "setup" /\ UsersFile \notin loose
              <4>1. LoadedUsers = Nobody /\ \A n \in Names : n # req[r].user => users[n] = None
                  BY <1>5, <2>1, <3>2 DEF KInv, UsersOnDisk
              <4>2. users \in Accounts
                  BY DEF SInv, IInv, MemoryOK, SoundAccounts
              <4>3. users' = Nobody
                  BY <2>1, <3>2, <4>1, <4>2 DEF Nobody, Accounts
              <4> QED
                  BY <1>4, <2>2, <2>3, <4>1, <4>3 DEF UsersOnDisk
          <3>3. CASE req[r].op = "setup" /\ UsersFile \in loose
              BY <1>9, <3>3 DEF UsersOnDisk
          <3>4. req[r].op \in {"setup", "change"}
              BY <2>1 DEF KInv, SavedOK, UserOps
          <3> QED
              BY <3>1, <3>2, <3>3, <3>4
      <2> QED
          BY <2>4, <2>5, <2>6 DEF KInv
  <1> QED
      BY <1>6, <1>7, <1>8, <1>9 DEF Saved, SaveFailed

\* Unpacking: the file that is truncated and written is one that memory may
\* differ from.
LEMMA DiskImport ==
    ASSUME SInv, KInv, NEW r \in Requests, Truncate(r) \/ Unpack(r) \/ ImportFails(r)
    PROVE  KInv'
  <1>t. /\ disk = [f \in DataFiles |-> disk[f]] /\ Files = DataFiles /\ Requests \subseteq Writers
        /\ open \in [Writers -> DataFiles \cup {None, Gone}]
        /\ pc \in [Requests -> PCs]
      BY StorageFunctions
  <1>1. UNCHANGED <<temp, users, settings, up, lock, req>>
      BY DEF Truncate, Unpack, ImportFails, OpenTruncated, CopyOut, CloseUnfinished,
             settingsVars, requestVars, userVars
  <1>2. up
      BY DEF Truncate, Unpack, ImportFails, Unpacks, SInv, SaversOK
  <1>3. SavedOK'
      <2>1. \A x \in Requests : pc'[x] \in {"check", "create"} => pc[x] \in {"check", "create"}
          BY <1>t DEF Truncate, Unpack, ImportFails, Goes, AfterFile, requestVars
      <2> QED
          BY <1>1, <2>1 DEF KInv, SavedOK, SavesUsers, SavesSettings
  <1>4. ASSUME \A f \in DataFiles : OnDisk(f)' = OnDisk(f) \/ f \in loose', loose \subseteq loose'
        PROVE  SettingsOnDisk' /\ UsersOnDisk'
      BY <1>1, <1>4, SoundIsWhole DEF KInv, SettingsOnDisk, UsersOnDisk, SavesUsers, LoadedSettings, LoadedUsers
  <1>5. CASE Truncate(r)
      <2> DEFINE f == Unpacking(r)
      <2>1. disk' = [disk EXCEPT ![f] = [content |-> Torn, synced |-> FALSE]] /\ open' = [open EXCEPT ![r] = f]
            /\ loose' = loose \cup {f}
          BY <1>5 DEF Truncate, OpenTruncated
      <2>2. f \in DataFiles
          BY UnpackingTyped
      <2> HIDE DEF f
      <2>3. OpenOK'
          BY <1>t, <1>1, <1>2, <2>1 DEF KInv, OpenOK
      <2>4. SettingsOnDisk' /\ UsersOnDisk'
          BY <1>t, <1>4, <2>1 DEF OnDisk
      <2> QED
          BY <1>3, <2>3, <2>4 DEF KInv
  <1>6. CASE Unpack(r)
      <2>1. /\ disk' = IF open[r] \in Files
                       THEN [disk EXCEPT ![open[r]] = [content |-> Archive[open[r]], synced |-> FALSE]]
                       ELSE disk
            /\ open' = [open EXCEPT ![r] = None] /\ loose' = loose
          BY <1>6 DEF Unpack, CopyOut
      <2>2. OpenOK'
          BY <1>t, <1>1, <2>1, DataAssumption DEF KInv, OpenOK
      <2>3. open[r] \in DataFiles => open[r] \in loose
          BY <1>t DEF KInv, OpenOK
      <2>4. SettingsOnDisk' /\ UsersOnDisk'
          BY <1>t, <1>4, <2>1, <2>3 DEF OnDisk
      <2> QED
          BY <1>3, <2>2, <2>4 DEF KInv
  <1>7. CASE ImportFails(r)
      <2>1. open' = [open EXCEPT ![r] = None] /\ disk' = disk /\ loose' = loose
          BY <1>7 DEF ImportFails, CloseUnfinished
      <2>2. OpenOK'
          BY <1>t, <1>1, <2>1, DataAssumption DEF KInv, OpenOK
      <2>3. SettingsOnDisk' /\ UsersOnDisk'
          BY <1>4, <2>1 DEF OnDisk
      <2> QED
          BY <1>3, <2>2, <2>3 DEF KInv
  <1> QED
      BY <1>5, <1>6, <1>7

\* The command writes the accounts behind the server's back.
LEMMA DiskReset ==
    ASSUME SInv, KInv, Reset
    PROVE  KInv'
  <1>t. /\ temp = [w \in Writers |-> temp[w]] /\ disk = [f \in DataFiles |-> disk[f]]
        /\ open \in [Writers -> DataFiles \cup {None, Gone}] /\ Requests \subseteq Writers
        /\ CLI \notin Requests
      BY StorageFunctions, DataAssumption
  <1>1. UNCHANGED <<pc, req, lock, users, settings, up>> /\ loose \subseteq loose'
      BY DEF Reset, ResetPassword, FailReset, FinishReset, requestVars, settingsVars
  <1>2. \A x \in Requests : temp'[x] = temp[x]
      <2>1. \E t : temp' = [temp EXCEPT ![CLI] = t]
          BY DEF Reset, ResetPassword, FailReset, FinishReset, CreateTemp, DiscardTemp, RenameTemp
      <2> QED
          BY <1>t, <2>1
  <1>3. SavedOK'
      BY <1>1, <1>2 DEF KInv, SavedOK, SavesUsers, SavesSettings
  <1>4. OpenOK' /\ (\A f \in DataFiles : OnDisk(f)' = OnDisk(f) \/ f \in loose')
      <2>1. CASE FinishReset /\ loose' = loose \cup {UsersFile}
          <3>1. disk' = [disk EXCEPT ![UsersFile] = [content |-> temp[CLI].content, synced |-> temp[CLI].synced]]
                /\ open' = [w \in Writers |-> IF open[w] = UsersFile THEN Gone ELSE open[w]]
              BY <2>1 DEF FinishReset, ReadyToRename, RenameTemp
          <3> QED
              BY <1>t, <1>1, <2>1, <3>1, DataAssumption DEF KInv, OpenOK, OnDisk
      <2>2. CASE ResetPassword \/ FailReset
          <3>1. UNCHANGED <<disk, open>>
              BY <2>2 DEF ResetPassword, FailReset, CreateTemp, DiscardTemp
          <3> QED
              BY <1>1, <3>1 DEF KInv, OpenOK, OnDisk
      <2> QED
          BY <2>1, <2>2 DEF Reset
  <1>5. SettingsOnDisk' /\ UsersOnDisk'
      BY <1>1, <1>2, <1>4, SoundIsWhole DEF KInv, SettingsOnDisk, UsersOnDisk, SavesUsers, LoadedSettings, LoadedUsers
  <1> QED
      BY <1>3, <1>4, <1>5 DEF KInv

\* Crashes, losses of power, starts and what the host does by itself.
LEMMA DiskHost ==
    ASSUME SInv, KInv, Crash \/ PowerCut \/ Start \/ (\E w \in Writers : Sync(w))
                       \/ (\E f \in Files : WriteBack(f)) \/ UNCHANGED vars
    PROVE  KInv'
  <1>t. /\ temp = [w \in Writers |-> temp[w]] /\ disk = [f \in DataFiles |-> disk[f]] /\ Files = DataFiles
        /\ open \in [Writers -> DataFiles \cup {None, Gone}] /\ Requests \subseteq Writers
      BY StorageFunctions
  <1>1. CASE Crash
      <2>1. /\ up' = FALSE /\ pc' = Idle
            /\ temp' = [w \in Writers |-> IF w \in Requests THEN None ELSE temp[w]]
            /\ open' = [w \in Writers |-> IF w \in Requests THEN None ELSE open[w]]
          BY <1>1 DEF Crash, Forget
      <2> QED
          BY <1>t, <2>1, DataAssumption DEF KInv, OpenOK, SavedOK, SettingsOnDisk, UsersOnDisk,
             SavesUsers, SavesSettings, Idle
  <1>2. CASE PowerCut
      <2>1. /\ up' = FALSE /\ pc' = Idle
            /\ temp' = [w \in Writers |-> None] /\ open' = [w \in Writers |-> None]
          BY <1>2 DEF PowerCut, LosePower, Forget
      <2> QED
          BY <1>t, <2>1, DataAssumption DEF KInv, OpenOK, SavedOK, SettingsOnDisk, UsersOnDisk,
             SavesUsers, SavesSettings, Idle
  <1>3. CASE Start
      <2>1. /\ ~up /\ UNCHANGED <<disk, temp, open, pc, req, lock>>
            /\ settings' = LoadedSettings /\ users' = LoadedUsers
          BY <1>3 DEF Start, storageVars, requestVars
      <2>2. \A r \in Requests : pc[r] = "idle" /\ temp[r] = None
          BY <2>1 DEF SInv, SaversOK
      <2>3. OpenOK' /\ SavedOK'
          BY <2>1, <2>2 DEF KInv, OpenOK, SavedOK, SavesUsers, SavesSettings
      <2>4. SettingsOnDisk' /\ UsersOnDisk'
          BY <2>1, <2>2 DEF SettingsOnDisk, UsersOnDisk, SavesUsers, LoadedSettings, LoadedUsers, OnDisk
      <2> QED
          BY <2>3, <2>4 DEF KInv
  <1>4. ASSUME UNCHANGED <<open, pc, req, lock, users, settings, up, loose>>,
               \A x \in Requests : \/ temp'[x] = temp[x]
                                   \/ /\ temp[x] # None
                                      /\ temp'[x].file = temp[x].file
                                      /\ temp'[x].content = temp[x].content,
               \A f \in DataFiles : OnDisk(f)' = OnDisk(f)
        PROVE  KInv'
      <2>1. LoadedSettings' = LoadedSettings /\ LoadedUsers' = LoadedUsers
          BY <1>4, SoundIsWhole DEF LoadedSettings, LoadedUsers
      <2>2. \A x \in Requests : (SavesUsers(x)' => SavesUsers(x)) /\ (SavesSettings(x)' => SavesSettings(x))
          BY <1>4 DEF SavesUsers, SavesSettings
      <2>3. OpenOK' /\ SettingsOnDisk' /\ UsersOnDisk'
          BY <1>4, <2>1, <2>2 DEF KInv, OpenOK, SettingsOnDisk, UsersOnDisk
      <2>4. SavedOK'
          BY <1>4, <2>2 DEF KInv, SavedOK
      <2> QED
          BY <2>3, <2>4 DEF KInv
  <1>5. ASSUME NEW w \in Writers, Sync(w) PROVE KInv'
      <2>1. UNCHANGED <<disk, open, pc, req, lock, users, settings, up, loose>> /\ temp[w] # None
            /\ temp' = [temp EXCEPT ![w].synced = TRUE]
          BY <1>5 DEF Sync, SyncTemp, userVars, settingsVars, requestVars
      <2>2. temp[w] \in [file: {temp[w].file}, content: Sound[temp[w].file], synced: BOOLEAN]
          BY <2>1 DEF SInv, IInv, StorageTypeOK
      <2>3. ASSUME NEW x \in Writers
            PROVE  temp'[x] = temp[x] \/ (/\ temp[x] # None
                                          /\ temp'[x].file = temp[x].file
                                          /\ temp'[x].content = temp[x].content)
          <3>1. temp'[x] = IF x = w THEN [temp[w] EXCEPT !.synced = TRUE] ELSE temp[x]
              BY <1>t, <2>1
          <3>2. [temp[w] EXCEPT !.synced = TRUE].file = temp[w].file
                /\ [temp[w] EXCEPT !.synced = TRUE].content = temp[w].content
              BY <2>2
          <3> QED
              BY <2>1, <3>1, <3>2
      <2> QED
          BY <1>t, <1>4, <2>1, <2>3 DEF OnDisk
  <1>6. ASSUME NEW f \in Files, WriteBack(f) PROVE KInv'
      <2>1. UNCHANGED <<temp, open, pc, req, lock, users, settings, up, loose>>
            /\ disk' = [disk EXCEPT ![f].synced = TRUE]
          BY <1>6 DEF WriteBack, Flush, userVars, settingsVars, requestVars
      <2>2. \A x \in DataFiles : disk[x] \in [content: Sound[x] \cup {None, Torn}, synced: BOOLEAN]
          BY SoundIsWhole DEF SInv, IInv, StorageTypeOK
      <2>3. \A x \in DataFiles : OnDisk(x)' = OnDisk(x)
          BY <1>t, <2>1, <2>2 DEF OnDisk
      <2> QED
          BY <1>4, <2>1, <2>3
  <1>7. CASE UNCHANGED vars
      BY <1>4, <1>7 DEF vars, storageVars, settingsVars, requestVars, userVars, OnDisk
  <1> QED
      BY <1>1, <1>2, <1>3, <1>5, <1>6, <1>7

\* Every step preserves it.
LEMMA DiskNext == SInv /\ KInv /\ [Next]_vars => KInv'
  <1> SUFFICES ASSUME SInv, KInv, [Next]_vars PROVE KInv'
      OBVIOUS
  <1>1. ASSUME NEW r \in Requests,
               \/ \E op \in (SettingsOps \ {"revert"}) \cup UserOps \cup {"import"} : Begin(r, op)
               \/ Handler(r) \/ Setup(r) \/ Password(r) \/ Save(r) \/ Saved(r) \/ SaveFailed(r)
               \/ Truncate(r) \/ Unpack(r) \/ NotInArchive(r) \/ ImportFails(r)
        PROVE  KInv'
      BY <1>1, DiskHandlers, DiskAccounts, DiskSave, DiskSaved, DiskImport
  <1> QED
      BY <1>1, DiskReset, DiskHost DEF Next

\* While nobody saves, memory is what is on disk: however requests, failed saves,
\* crashes and starts follow one another, unless an archive, the command or a
\* failed change of the password has come between.
THEOREM MemoryIsAlwaysOnDisk == Spec => []MemoryIsOnDisk
  <1>1. KInv => MemoryIsOnDisk
      BY DEF KInv, SettingsOnDisk, UsersOnDisk, MemoryIsOnDisk
  <1> QED
      BY <1>1, DiskInit, DiskNext, SetupInit, SetupNext, PTL DEF Spec
-----------------------------------------------------------------------------
(* The dashboard's route *)

SettingsPCs == {"get", "lookup", "copy", "save", "reget", "route", "undo", "remove", "routeOld"}
OtherPCs == {"check", "create", "change", "unpackSettings", "unpackUsers"}

\* What a request is for decides where it is.
OpsOK ==
    \A r \in Requests :
        /\ pc[r] \in SettingsPCs \/ SavesSettings(r) => req[r].op \in SettingsOps
        /\ pc[r] \in OtherPCs => req[r].op \notin SettingsOps

\* A request about the settings, and one that has not brought the route to the
\* domain yet, or not the settings to the route.
Active(r) == pc[r] # "idle" /\ req[r].op \in SettingsOps
Behind(r) ==
    /\ Active(r)
    /\ \/ pc[r] \in {"route", "reget", "routeOld"}
       \/ req[r].op = "toggle" /\ pc[r] \in {"save", "saving"}
Follows == settings.https => route = settings.domain

\* What a request that is alone with the settings knows of them.
Knows(r) ==
    /\ req[r].op # "submit"
    /\ pc[r] = "lookup" => req[r].copy = settings
    /\ pc[r] = "route" => req[r].copy.domain = settings.domain
    /\ pc[r] = "copy" /\ req[r].op = "update" => req[r].old = settings.domain
    /\ pc[r] \in {"save", "saving"} =>
          /\ req[r].op \in {"skip", "page", "reverify", "toggle"} /\ req[r].copy.https =>
                route = req[r].copy.domain
          /\ req[r].op = "update" =>
                /\ req[r].old = settings.domain
                /\ req[r].copy = WithDomain(settings, req[r].copy.domain)
          /\ req[r].op = "revert" => req[r].copy.domain = req[r].old
    /\ pc[r] = "remove" => settings.domain = None
    /\ pc[r] = "routeOld" => settings.domain = req[r].old

Alone == \A r, q \in Requests : Active(r) /\ Active(q) => r = q
RouteOK ==
    up /\ ~apart => /\ Alone
                    /\ Follows \/ \E r \in Requests : Behind(r)
                    /\ \A r \in Requests : Active(r) => Knows(r)

\* It holds initially: nobody has asked for anything, and main has set the route.
LEMMA RouteInit == Init => OpsOK /\ RouteOK
  <1> SUFFICES ASSUME Init PROVE OpsOK /\ RouteOK
      OBVIOUS
  <1>1. \A r \in Requests : pc[r] = "idle" /\ temp[r] = None
      BY DataAssumption DEF Init, StorageInit, Idle
  <1>2. settings \in SoundSettings
      BY InvInit DEF IInv, MemoryOK
  <1>3. Follows
      BY <1>2 DEF Init, Follows, BootRoute, SoundSettings
  <1> QED
      BY <1>1, <1>3 DEF OpsOK, RouteOK, Alone, Active, SettingsPCs, OtherPCs, SavesSettings

\* Steps that do not touch settings or route, of whom has nothing to do with them.
LEMMA RouteAside ==
    ASSUME RouteOK, UNCHANGED <<settings, route, up, apart>>,
           \A x \in Requests : \/ pc'[x] = pc[x] /\ req'[x] = req[x]
                               \/ ~Active(x) /\ (pc'[x] = "idle" \/ req'[x].op \notin SettingsOps)
    PROVE  RouteOK'
  <1>1. ASSUME NEW x \in Requests
        PROVE  /\ Active(x)' => Active(x) /\ pc'[x] = pc[x] /\ req'[x] = req[x]
               /\ Behind(x) => Behind(x)'
      BY DEF Active, Behind
  <1>2. ASSUME NEW x \in Requests, Active(x)', Knows(x) PROVE Knows(x)'
      BY <1>1, <1>2 DEF Knows
  <1>3. Follows' = Follows
      BY DEF Follows
  <1> QED
      BY <1>1, <1>2, <1>3 DEF RouteOK, Alone

\* A step of a request about the settings, which is alone with them: what it
\* knows, and whether the route is behind, is all there is to show.
LEMMA RouteMoves ==
    ASSUME RouteOK, NEW r \in Requests, Active(r), UNCHANGED <<up, apart>>,
           \A x \in Requests \ {r} : pc'[x] = pc[x] /\ req'[x] = req[x],
           up /\ ~apart /\ Knows(r) /\ (Follows \/ Behind(r))
               => /\ (Follows \/ Behind(r))'
                  /\ Active(r)' => Knows(r)'
    PROVE  RouteOK'
  <1> SUFFICES ASSUME up, ~apart
               PROVE  Alone' /\ (Follows' \/ \E x \in Requests : Behind(x)')
                      /\ \A x \in Requests : Active(x)' => Knows(x)'
      BY DEF RouteOK
  <1>1. \A x \in Requests : Active(x) => x = r
      BY DEF RouteOK, Alone
  <1>2. \A x \in Requests : Active(x)' => x = r
      BY <1>1 DEF Active
  <1>3. Knows(r) /\ (Follows \/ Behind(r))
      BY <1>1 DEF RouteOK, Behind
  <1>4. (Follows \/ Behind(r))' /\ (Active(r)' => Knows(r)')
      BY <1>3
  <1> QED
      BY <1>2, <1>4 DEF Alone

\* A request that does not save moves to where its kind goes.
LEMMA OpsMoves ==
    ASSUME SInv, OpsOK, NEW r \in Requests, pc[r] # "saving", UNCHANGED temp,
           \A x \in Requests \ {r} : pc'[x] = pc[x] /\ req'[x] = req[x],
           pc'[r] \in SettingsPCs => req'[r].op \in SettingsOps,
           pc'[r] \in OtherPCs => req'[r].op \notin SettingsOps
    PROVE  OpsOK'
  <1>1. temp[r] = None
      BY DEF SInv, SaversOK
  <1> QED
      BY <1>1 DEF OpsOK, SavesSettings

\* A request arrives.
LEMMA RouteBegin ==
    ASSUME SInv, OpsOK, RouteOK, NEW r \in Requests,
           NEW op \in (SettingsOps \ {"revert"}) \cup UserOps \cup {"import"}, Begin(r, op)
    PROVE  OpsOK' /\ RouteOK'
  <1>t. pc \in [Requests -> PCs] /\ DOMAIN req = Requests
      BY StorageFunctions
  <1>1. /\ pc[r] = "idle" /\ UNCHANGED <<temp, settings, route, up>>
        /\ \A x \in Requests \ {r} : pc'[x] = pc[x] /\ req'[x] = req[x]
      BY <1>t DEF Begin, Goes, storageVars, settingsVars
  <1>2. req'[r].op = op
      BY <1>t DEF Begin, NoRequest
  <1>3. pc'[r] = CASE op = "setup" -> "check"
                   [] op = "change" -> "change"
                   [] op = "import" -> "unpackSettings"
                   [] OTHER -> FirstStep(op)
      BY <1>t DEF Begin, Goes
  <1>4. /\ op \in SettingsOps => pc'[r] = IF op \in {"submit", "skip"} THEN "copy" ELSE "get"
        /\ op \notin SettingsOps => pc'[r] \in OtherPCs
      BY <1>3 DEF FirstStep, SettingsOps, UserOps, OtherPCs
  <1>5. OpsOK'
      BY <1>1, <1>2, <1>4, OpsMoves DEF SettingsPCs, OtherPCs
  <1>6. RouteOK'
      <2>1. apart' <=> \/ apart
                       \/ op = "submit"
                       \/ op \in SettingsOps /\ \E q \in Requests : pc[q] # "idle" /\ req[q].op \in SettingsOps
          BY Zenon DEF Begin
      <2> SUFFICES ASSUME up, ~apart, op # "submit",
                          op \in SettingsOps => \A q \in Requests : ~Active(q)
                   PROVE  Alone' /\ (Follows' \/ \E x \in Requests : Behind(x)')
                          /\ \A x \in Requests : Active(x)' => Knows(x)'
          BY <1>1, <2>1 DEF RouteOK, Active
      <2>2. Follows' = Follows /\ ~Behind(r)
          BY <1>1 DEF Follows, Behind, Active
      <2>3. ASSUME NEW x \in Requests \ {r}
            PROVE  /\ Active(x)' = Active(x) /\ Behind(x)' = Behind(x)
                   /\ Knows(x) => Knows(x)'
          BY <1>1 DEF Active, Behind, Knows
      <2>4. Active(r)' => op \in SettingsOps /\ Knows(r)'
          BY <1>2, <1>4 DEF Active, Knows
      <2>5. Follows' \/ \E x \in Requests : Behind(x)'
          BY <2>2, <2>3 DEF RouteOK
      <2>6. Alone'
          BY <2>3, <2>4 DEF RouteOK, Alone
      <2>7. \A x \in Requests : Active(x)' => Knows(x)'
          BY <2>3, <2>4 DEF RouteOK
      <2> QED
          BY <2>5, <2>6, <2>7
  <1> QED
      BY <1>5, <1>6

\* Reading the settings into a copy.
LEMMA RouteReads ==
    ASSUME SInv, OpsOK, RouteOK, NEW r \in Requests, UNCHANGED <<temp, up, apart>>,
           Get(r) \/ CopySettings(r) \/ GetAgain(r)
    PROVE  OpsOK' /\ RouteOK'
  <1>t. pc \in [Requests -> PCs] /\ DOMAIN req = Requests
        /\ \A x \in Requests : req[x] \in RequestRecord
      BY StorageFunctions DEF SInv, IInv, RequestsOK, RequestRecord
  <1>s. settings \in Settings
      BY DEF SInv, IInv, MemoryOK, SoundSettings
  <1>1. pc[r] \in {"get", "copy", "reget"} /\ UNCHANGED <<settings, route>>
        /\ \A x \in Requests \ {r} : pc'[x] = pc[x] /\ req'[x] = req[x]
      BY <1>t DEF Get, CopySettings, GetAgain, Goes, Holds, settingsVars
  <1>2. Active(r) /\ ~(Behind(r) /\ pc[r] # "reget")
      BY <1>1 DEF OpsOK, SettingsPCs, Active, Behind
  <1>3. CASE Get(r)
      <2>1. /\ pc'[r] = IF req[r].op # "update" /\ settings.domain = None THEN "idle"
                        ELSE CASE req[r].op = "update" -> "copy"
                               [] req[r].op = "toggle" -> "route"
                               [] OTHER -> "lookup"
            /\ pc[r] = "get"
          BY <1>3, <1>t DEF Get, Goes
      <2>2. /\ req'[r].op = req[r].op /\ req'[r].old = settings.domain
            /\ req'[r].copy = IF req[r].op = "toggle" THEN [settings EXCEPT !.https = ~@] ELSE settings
          BY <1>3, <1>t DEF Get, RequestRecord
      <2>3. req'[r].copy.domain = settings.domain
            /\ (req[r].op # "toggle" => req'[r].copy = settings)
          BY <1>s, <2>2 DEF Settings
      <2>4. OpsOK'
          BY <1>1, <1>2, <2>1, <2>2, OpsMoves DEF Active, SettingsPCs, OtherPCs
      <2>5. RouteOK'
          <3>1. Knows(r) => (Active(r)' => Knows(r)')
              BY <1>1, <2>1, <2>2, <2>3 DEF Knows, Active
          <3>2. Follows' = Follows /\ ~Behind(r)
              BY <1>1, <2>1 DEF Follows, Behind
          <3> QED
              BY <1>1, <1>2, <3>1, <3>2, RouteMoves
      <2> QED
          BY <2>4, <2>5
  <1>4. CASE CopySettings(r)
      <2>1. pc'[r] = "save" /\ pc[r] = "copy"
          BY <1>4, <1>t DEF CopySettings, Goes
      <2>2. PICK c : /\ Holds(r, c)
                     /\ \/ req[r].op = "submit"
                        \/ req[r].op = "update" /\ \E d \in Domains \cup {None} : c = WithDomain(settings, d)
                        \/ req[r].op = "revert" /\ c = WithDomain(settings, req[r].old)
                        \/ req[r].op = "skip" /\ c = settings
          BY <1>4 DEF CopySettings
      <2>3. req'[r].op = req[r].op /\ req'[r].old = req[r].old /\ req'[r].copy = c
          BY <1>t, <2>2 DEF Holds, RequestRecord
      <2>4. \A d \in Domains \cup {None} : WithDomain(settings, d).domain = d
          BY <1>s DEF WithDomain, Settings
      <2>5. req[r].old \in Domains \cup {None}
          BY <1>t DEF RequestRecord
      <2>6. OpsOK'
          BY <1>1, <1>2, <2>1, <2>3, OpsMoves DEF Active, SettingsPCs, OtherPCs
      <2>7. RouteOK'
          <3>1. Follows' = Follows /\ ~Behind(r)
              BY <1>1, <2>1, <2>2 DEF Follows, Behind
          <3>2. ASSUME Knows(r), Follows PROVE Knows(r)'
              BY <1>1, <2>1, <2>2, <2>3, <2>4, <2>5, <3>2 DEF Knows, Follows
          <3> QED
              BY <1>1, <1>2, <3>1, <3>2, RouteMoves
      <2> QED
          BY <2>6, <2>7
  <1>5. CASE GetAgain(r)
      <2>1. pc'[r] = "route" /\ pc[r] = "reget"
          BY <1>5, <1>t DEF GetAgain, Goes
      <2>2. req'[r].op = req[r].op /\ req'[r].copy = settings
          BY <1>5, <1>t DEF GetAgain, Holds, RequestRecord
      <2>3. OpsOK'
          BY <1>1, <1>2, <2>1, <2>2, OpsMoves DEF Active, SettingsPCs, OtherPCs
      <2>4. RouteOK'
          <3>1. Behind(r)'
              BY <1>2, <2>1, <2>2 DEF Behind, Active
          <3>2. Knows(r) => Knows(r)'
              BY <1>1, <2>1, <2>2 DEF Knows
          <3> QED
              BY <1>1, <1>2, <3>1, <3>2, RouteMoves
      <2> QED
          BY <2>3, <2>4
  <1> QED
      BY <1>3, <1>4, <1>5

\* Looking up the address, and what comes of it.
LEMMA RouteLookups ==
    ASSUME SInv, OpsOK, RouteOK, NEW r \in Requests, UNCHANGED <<temp, up, apart>>,
           LookupAddress(r) \/ VerifyDomain(r) \/ RefuteDomain(r) \/ LeaveLookup(r)
    PROVE  OpsOK' /\ RouteOK'
  <1>t. pc \in [Requests -> PCs] /\ DOMAIN req = Requests
        /\ \A x \in Requests : req[x] \in RequestRecord
      BY StorageFunctions DEF SInv, IInv, RequestsOK, RequestRecord
  <1>s. settings \in Settings
      BY DEF SInv, IInv, MemoryOK, SoundSettings
  <1>1. /\ pc[r] = "lookup" /\ UNCHANGED <<settings, route>>
        /\ \A x \in Requests \ {r} : pc'[x] = pc[x] /\ req'[x] = req[x]
      BY <1>t DEF LookupAddress, VerifyDomain, RefuteDomain, LeaveLookup, Goes, Holds, settingsVars
  <1>2. Active(r) /\ ~Behind(r)
      BY <1>1 DEF OpsOK, SettingsPCs, Active, Behind
  <1>3. req'[r].op = req[r].op
      BY <1>t DEF LookupAddress, VerifyDomain, RefuteDomain, LeaveLookup, Holds, RequestRecord
  <1>4. pc'[r] = "save" \/ (pc'[r] = "route" /\ req[r].op = "reverify") \/ pc'[r] = "idle"
      BY <1>t DEF LookupAddress, VerifyDomain, RefuteDomain, LeaveLookup, Goes
  <1>5. OpsOK'
      BY <1>1, <1>2, <1>3, <1>4, OpsMoves DEF Active, SettingsPCs, OtherPCs
  <1>6. req[r].copy = settings =>
            /\ pc'[r] = "route" => req'[r].copy.domain = settings.domain
            /\ pc'[r] = "save" => \/ req[r].op = "verify"
                                  \/ /\ req[r].op \in {"page", "reverify"}
                                     /\ req'[r].copy.domain = settings.domain
                                     /\ req'[r].copy.https = settings.https
      <2> SUFFICES ASSUME req[r].copy = settings
                   PROVE  /\ pc'[r] = "route" => req'[r].copy.domain = settings.domain
                          /\ pc'[r] = "save" => \/ req[r].op = "verify"
                                                \/ /\ req[r].op \in {"page", "reverify"}
                                                   /\ req'[r].copy.domain = settings.domain
                                                   /\ req'[r].copy.https = settings.https
          OBVIOUS
      <2>1. CASE LookupAddress(r) \/ LeaveLookup(r)
          BY <1>t, <2>1 DEF LookupAddress, LeaveLookup, Goes
      <2>2. CASE VerifyDomain(r)
          <3>1. req'[r].copy = [settings EXCEPT !.verified = TRUE, !.https = TRUE]
              BY <1>t, <2>2 DEF VerifyDomain, Holds, RequestRecord
          <3>2. req'[r].copy.domain = settings.domain
              BY <1>s, <3>1 DEF Settings
          <3> QED
              BY <1>t, <2>2, <3>2 DEF VerifyDomain, Goes
      <2>3. CASE RefuteDomain(r)
          <3>1. req'[r].copy = [settings EXCEPT !.verified = FALSE]
              BY <1>t, <2>3 DEF RefuteDomain, Holds, RequestRecord
          <3>2. req'[r].copy.domain = settings.domain /\ req'[r].copy.https = settings.https
              BY <1>s, <3>1 DEF Settings
          <3> QED
              BY <1>t, <2>3, <3>2 DEF RefuteDomain, Goes
      <2> QED
          BY <2>1, <2>2, <2>3
  <1>7. RouteOK'
      <2>1. Follows' = Follows
          BY <1>1 DEF Follows
      <2>2. ASSUME Knows(r), Follows, Active(r)' PROVE Knows(r)'
          BY <1>1, <1>3, <1>4, <1>6, <2>2 DEF Knows, Follows, Active
      <2> QED
          BY <1>1, <1>2, <2>1, <2>2, RouteMoves
  <1> QED
      BY <1>5, <1>7

\* Setting or removing the route.
LEMMA RouteSets ==
    ASSUME SInv, OpsOK, RouteOK, NEW r \in Requests, UNCHANGED <<temp, up, apart>>,
           SetRoute(r) \/ RemoveRoute(r) \/ Undo(r) \/ SetOldRoute(r)
    PROVE  OpsOK' /\ RouteOK'
  <1>t. pc \in [Requests -> PCs] /\ DOMAIN req = Requests
        /\ \A x \in Requests : req[x] \in RequestRecord
      BY StorageFunctions DEF SInv, IInv, RequestsOK, RequestRecord
  <1>s. settings.domain = None => ~settings.https
      BY DEF SInv, IInv, MemoryOK, SoundSettings
  <1>1. /\ pc[r] \in {"route", "remove", "undo", "routeOld"} /\ settings' = settings
        /\ \A x \in Requests \ {r} : pc'[x] = pc[x] /\ req'[x] = req[x]
      BY <1>t DEF SetRoute, RemoveRoute, Undo, SetOldRoute, Goes, settingsVars
  <1>2. Active(r)
      BY <1>1 DEF OpsOK, SettingsPCs, Active
  <1>3. CASE SetRoute(r)
      <2>1. /\ req' = req /\ pc[r] = "route"
            /\ route' = IF req[r].op = "toggle" /\ ~req[r].copy.https THEN None ELSE req[r].copy.domain
            /\ \/ pc'[r] = "idle" /\ req[r].op \notin {"reverify", "toggle"}
               \/ pc'[r] = "undo" /\ req[r].op = "update"
               \/ pc'[r] = "save" /\ req[r].op \in {"reverify", "toggle"}
          BY <1>3, <1>t DEF SetRoute, Goes
      <2>2. OpsOK'
          BY <1>1, <1>2, <2>1, OpsMoves DEF Active, SettingsPCs, OtherPCs
      <2>3. RouteOK'
          <3>1. ASSUME Knows(r) PROVE (Follows \/ Behind(r))'
              BY <1>1, <1>2, <2>1, <3>1 DEF Knows, Follows, Behind, Active
          <3>2. ASSUME Knows(r) PROVE Active(r)' => Knows(r)'
              BY <1>1, <2>1, <3>2 DEF Knows, Active
          <3> QED
              BY <1>1, <1>2, <3>1, <3>2, RouteMoves
      <2> QED
          BY <2>2, <2>3
  <1>4. CASE RemoveRoute(r)
      <2>1. req' = req /\ pc[r] = "remove" /\ pc'[r] = "idle" /\ route' = None
          BY <1>4, <1>t DEF RemoveRoute, Goes
      <2>2. OpsOK'
          BY <1>1, <2>1, OpsMoves DEF SettingsPCs, OtherPCs
      <2>3. RouteOK'
          <3>1. ASSUME Knows(r) PROVE Follows' /\ ~Active(r)'
              BY <1>s, <1>1, <2>1, <3>1 DEF Knows, Follows, Active
          <3> QED
              BY <1>1, <1>2, <3>1, RouteMoves
      <2> QED
          BY <2>2, <2>3
  <1>5. CASE Undo(r)
      <2>1. pc[r] = "undo" /\ pc'[r] = "copy" /\ route' = route /\ req'[r].op = "revert"
          BY <1>5, <1>t DEF Undo, Goes, settingsVars, RequestRecord
      <2>2. OpsOK'
          BY <1>1, <2>1, OpsMoves DEF SettingsPCs, OtherPCs, SettingsOps
      <2>3. RouteOK'
          <3>1. Follows' = Follows /\ ~Behind(r)
              BY <1>1, <2>1 DEF Follows, Behind
          <3>2. Knows(r)'
              BY <2>1 DEF Knows
          <3> QED
              BY <1>1, <1>2, <3>1, <3>2, RouteMoves
      <2> QED
          BY <2>2, <2>3
  <1>6. CASE SetOldRoute(r)
      <2>1. req' = req /\ pc[r] = "routeOld" /\ pc'[r] = "idle" /\ route' = req[r].old
          BY <1>6, <1>t DEF SetOldRoute, Goes
      <2>2. OpsOK'
          BY <1>1, <2>1, OpsMoves DEF SettingsPCs, OtherPCs
      <2>3. RouteOK'
          <3>1. ASSUME Knows(r) PROVE Follows' /\ ~Active(r)'
              BY <1>1, <2>1, <3>1 DEF Knows, Follows, Active
          <3> QED
              BY <1>1, <1>2, <3>1, RouteMoves
      <2> QED
          BY <2>2, <2>3
  <1> QED
      BY <1>3, <1>4, <1>5, <1>6

\* A handler's step that leaves the files alone is one of these.
LEMMA RouteHandler ==
    ASSUME SInv, OpsOK, RouteOK, NEW r \in Requests, Handler(r)
    PROVE  OpsOK' /\ RouteOK'
  <1>1. UNCHANGED <<temp, up, apart>>
      BY DEF Handler, storageVars
  <1> QED
      BY <1>1, RouteReads, RouteLookups, RouteSets DEF Handler, SettingsStep

\* A save of the settings begins.
LEMMA RouteSave ==
    ASSUME SInv, OpsOK, RouteOK, NEW r \in Requests, Save(r)
    PROVE  OpsOK' /\ RouteOK'
  <1>t. pc \in [Requests -> PCs] /\ temp = [w \in Writers |-> temp[w]] /\ Requests \subseteq Writers
      BY StorageFunctions
  <1>1. /\ pc[r] = "save" /\ pc'[r] = "saving" /\ UNCHANGED <<settings, route, req, up, apart>>
        /\ \A x \in Requests \ {r} : pc'[x] = pc[x] /\ temp'[x] = temp[x]
      BY <1>t DEF Save, BeginSave, Goes, CreateTemp, settingsVars
  <1>2. Active(r)
      BY <1>1 DEF OpsOK, SettingsPCs, Active
  <1>3. OpsOK'
      BY <1>1, <1>2 DEF OpsOK, SettingsPCs, OtherPCs, SavesSettings, Active
  <1>4. Knows(r) => Knows(r)'
      BY <1>1 DEF Knows
  <1>5. Follows \/ Behind(r) => (Follows \/ Behind(r))'
      BY <1>1 DEF Follows, Behind, Active
  <1>6. RouteOK'
      BY <1>1, <1>2, <1>4, <1>5, RouteMoves
  <1> QED
      BY <1>3, <1>6

\* It ends: the settings are those that were saved, and the route follows them,
\* or will be set next.
LEMMA RouteSaved ==
    ASSUME SInv, KInv, OpsOK, RouteOK, NEW r \in Requests, Saved(r) \/ SaveFailed(r)
    PROVE  OpsOK' /\ RouteOK'
  <1>t. /\ pc \in [Requests -> PCs] /\ temp = [w \in Writers |-> temp[w]] /\ Requests \subseteq Writers
        /\ \A x \in Requests : req[x] \in RequestRecord
      BY StorageFunctions DEF SInv, IInv, RequestsOK, RequestRecord
  <1>s. settings \in SoundSettings
      BY DEF SInv, IInv, MemoryOK
  <1>1. /\ pc[r] = "saving" /\ pc' = [pc EXCEPT ![r] = pc'[r]] /\ UNCHANGED <<req, up, route>>
        /\ temp[r] # None /\ temp' = [temp EXCEPT ![r] = None]
      BY <1>t DEF Saved, SaveFailed, FinishSave, FailSave, FinishUsers, FailUsers, Goes, RenameTemp,
             DiscardTemp, ReadyToRename, settingsVars
  <1>2. \A x \in Requests \ {r} : pc'[x] = pc[x] /\ req'[x] = req[x] /\ temp'[x] = temp[x]
      BY <1>t, <1>1
  <1>3. pc'[r] \in {"idle", "route", "routeOld", "remove", "reget"}
        /\ (pc'[r] # "idle" => SavesSettings(r))
      BY <1>t DEF Saved, SaveFailed, FinishSave, FailSave, FinishUsers, FailUsers, Goes, AfterSave,
             ReadyToRename, SavesSettings
  <1>4. OpsOK'
      BY <1>t, <1>1, <1>2, <1>3 DEF OpsOK, SettingsPCs, OtherPCs, SavesSettings
  <1>5. CASE FailSave(r) /\ apart' = TRUE
      BY <1>4, <1>5 DEF RouteOK
  <1>6. CASE (FinishUsers(r) \/ FailUsers(r)) /\ UNCHANGED <<settings, apart>>
      <2>1. SavesUsers(r) /\ pc'[r] = "idle"
          BY <1>t, <1>6 DEF FinishUsers, FailUsers, ReadyToRename, SavesUsers, Goes
      <2>2. ~Active(r)
          BY <2>1 DEF KInv, SavedOK, Active, SettingsOps, UserOps
      <2> QED
          BY <1>1, <1>2, <1>4, <1>6, <2>1, <2>2, RouteAside
  <1>7. CASE FinishSave(r) /\ UNCHANGED apart
      <2>1. SavesSettings(r) /\ settings' = req[r].copy /\ pc'[r] = AfterSave(r, TRUE)
          BY <1>t, <1>7 DEF FinishSave, ReadyToRename, SavesSettings, Goes
      <2>2. Active(r)
          BY <1>1, <2>1 DEF OpsOK, Active
      <2>3. ASSUME Knows(r) PROVE Active(r)' => Knows(r)'
          <3>1. pc'[r] = "remove" => req[r].copy.domain = None
              BY <2>1 DEF AfterSave
          <3>2. pc'[r] = "routeOld" => req[r].op = "revert"
              BY <2>1 DEF AfterSave
          <3> QED
              BY <1>1, <1>3, <2>1, <2>3, <3>1, <3>2 DEF Knows, Active
      <2>4. ASSUME Knows(r), Follows \/ Behind(r) PROVE (Follows \/ Behind(r))'
          <3>1. CASE req[r].op \in {"skip", "page", "reverify", "toggle"}
              BY <1>1, <2>1, <2>4, <3>1 DEF Knows, Follows
          <3>2. CASE req[r].op \in {"verify", "revert"}
              BY <1>1, <2>1, <2>2, <3>2 DEF AfterSave, Behind, Active
          <3>3. CASE req[r].op = "update"
              <4>1. Follows /\ req[r].old = settings.domain
                    /\ req[r].copy = WithDomain(settings, req[r].copy.domain)
                  BY <1>1, <2>4, <3>3 DEF Behind, Knows
              <4>2. req[r].copy.https <=> settings.https /\ req[r].copy.domain # None
                  BY <1>s, <4>1 DEF WithDomain, SoundSettings, Settings
              <4>3. CASE req[r].copy.domain = None \/ req[r].copy.domain = req[r].old
                  BY <1>1, <2>1, <4>1, <4>2, <4>3 DEF Follows
              <4>4. CASE req[r].copy.domain # None /\ req[r].copy.domain # req[r].old
                  BY <1>1, <2>1, <2>2, <3>3, <4>4 DEF AfterSave, Behind, Active
              <4> QED
                  BY <4>3, <4>4
          <3>4. req[r].op # "submit"
              BY <2>4 DEF Knows
          <3> QED
              BY <2>2, <3>1, <3>2, <3>3, <3>4 DEF Active, SettingsOps
      <2>5. RouteOK'
          BY <1>1, <1>2, <1>7, <2>2, <2>3, <2>4, RouteMoves
      <2> QED
          BY <1>4, <2>5
  <1> QED
      BY <1>5, <1>6, <1>7 DEF Saved, SaveFailed, settingsVars

\* Requests about the accounts, and imports: they leave settings and route alone.
LEMMA RouteOthers ==
    ASSUME SInv, KInv, OpsOK, RouteOK, NEW r \in Requests,
           \/ Setup(r) \/ Password(r)
           \/ Truncate(r) \/ Unpack(r) \/ NotInArchive(r) \/ ImportFails(r)
    PROVE  OpsOK' /\ RouteOK'
  <1>t. /\ pc \in [Requests -> PCs] /\ temp = [w \in Writers |-> temp[w]] /\ Requests \subseteq Writers
        /\ \A x \in Requests : req[x] \in RequestRecord
        /\ DOMAIN req = Requests
      BY StorageFunctions DEF SInv, IInv, RequestsOK, RequestRecord
  <1>1. /\ pc[r] \in OtherPCs /\ UNCHANGED <<settings, route, up, apart>>
        /\ \A x \in Requests \ {r} : pc'[x] = pc[x] /\ temp'[x] = temp[x]
      BY <1>t DEF OtherPCs, Setup, Password, CheckSetup, CreateAdmin, AddUser, CreateAdminRefused,
             ChangePassword, ChangeRefused, Truncate, Unpack, NotInArchive, ImportFails, Unpacks,
             AfterFile, OpenTruncated, CopyOut, CloseUnfinished, CreateTemp, Goes,
             settingsVars, requestVars, storageVars
  <1>2. pc'[r] \in OtherPCs \cup {"idle", "saving"}
      BY <1>t, <1>1 DEF OtherPCs, Setup, Password, CheckSetup, CreateAdmin, AddUser, CreateAdminRefused,
             ChangePassword, ChangeRefused, Truncate, Unpack, NotInArchive, ImportFails,
             AfterFile, Goes, requestVars
  <1>3. req'[r].op = req[r].op /\ \A x \in Requests \ {r} : req'[x] = req[x]
      <2>1. req' = req \/ \E n : req' = [req EXCEPT ![r].user = n]
          BY DEF Setup, Password, CheckSetup, CreateAdmin, AddUser, CreateAdminRefused,
             ChangePassword, ChangeRefused, Truncate, Unpack, NotInArchive, ImportFails, requestVars
      <2> QED
          BY <1>t, <2>1 DEF RequestRecord
  <1>4. ~SavesSettings(r)'
      <2>1. temp[r] = None
          BY <1>1 DEF SInv, SaversOK, OtherPCs
      <2>2. temp' = temp \/ \E c : temp' = [temp EXCEPT ![r] = [file |-> UsersFile, content |-> c, synced |-> FALSE]]
          BY DEF Setup, Password, CheckSetup, CreateAdmin, AddUser, CreateAdminRefused,
             ChangePassword, ChangeRefused, Truncate, Unpack, NotInArchive, ImportFails,
             OpenTruncated, CopyOut, CloseUnfinished, CreateTemp, storageVars
      <2> QED
          BY <1>t, <2>1, <2>2, SoundIsWhole DEF SavesSettings
  <1>5. req[r].op \notin SettingsOps
      BY <1>1 DEF OpsOK
  <1>6. OpsOK'
      BY <1>1, <1>2, <1>3, <1>4, <1>5 DEF OpsOK, SettingsPCs, OtherPCs, SavesSettings
  <1>7. RouteOK'
      BY <1>1, <1>3, <1>5, RouteAside DEF Active
  <1> QED
      BY <1>6, <1>7

\* The command, crashes, losses of power, starts and what the host does by itself.
LEMMA RouteHost ==
    ASSUME SInv, KInv, OpsOK, RouteOK,
           Reset \/ Crash \/ PowerCut \/ Start \/ (\E w \in Writers : Sync(w))
                 \/ (\E f \in Files : WriteBack(f)) \/ UNCHANGED vars
    PROVE  OpsOK' /\ RouteOK'
  <1>t. /\ temp = [w \in Writers |-> temp[w]] /\ Files = DataFiles
        /\ Requests \subseteq Writers /\ CLI \notin Requests
      BY StorageFunctions, DataAssumption
  <1>1. CASE Crash \/ PowerCut
      <2>1. /\ up' = FALSE /\ \A x \in Requests : pc'[x] = "idle" /\ temp'[x] = None
          BY <1>t, <1>1 DEF Crash, PowerCut, LosePower, Forget, Idle
      <2> QED
          BY <2>1 DEF OpsOK, RouteOK, SavesSettings, SettingsPCs, OtherPCs
  <1>2. CASE Start
      <2>1. /\ ~up /\ UNCHANGED <<temp, pc, req>>
            /\ settings' = LoadedSettings /\ route' = BootRoute(LoadedSettings)
          BY <1>2 DEF Start, storageVars, requestVars
      <2>2. \A x \in Requests : pc[x] = "idle"
          BY <2>1 DEF SInv, SaversOK
      <2>3. LoadedSettings \in SoundSettings
          BY <1>2, LoadedSound DEF Start, SInv, IInv
      <2>4. Follows'
          BY <2>1, <2>3 DEF Follows, BootRoute, SoundSettings
      <2>5. OpsOK'
          BY <2>1, <2>2 DEF OpsOK, SavesSettings
      <2>6. \A x \in Requests : ~Active(x)'
          BY <2>1, <2>2 DEF Active
      <2> QED
          BY <2>4, <2>5, <2>6 DEF RouteOK, Alone
  <1>3. CASE Reset \/ (\E w \in Writers : Sync(w)) \/ (\E f \in Files : WriteBack(f)) \/ UNCHANGED vars
      <2>1. UNCHANGED <<settings, route, up, apart, pc, req>>
          BY <1>3 DEF Reset, ResetPassword, FailReset, FinishReset, Sync, WriteBack, vars,
             settingsVars, requestVars
      <2>2. ASSUME NEW x \in Requests PROVE SavesSettings(x)' => SavesSettings(x)
          <3>1. CASE Reset
              <4>1. \E c : temp' = [temp EXCEPT ![CLI] = c]
                  BY <3>1 DEF Reset, ResetPassword, FailReset, FinishReset, CreateTemp, RenameTemp, DiscardTemp
              <4> QED
                  BY <1>t, <4>1 DEF SavesSettings
          <3>2. ASSUME NEW w \in Writers, Sync(w) PROVE SavesSettings(x)' => SavesSettings(x)
              <4>1. temp[w] # None /\ temp' = [temp EXCEPT ![w].synced = TRUE]
                  BY <3>2 DEF Sync, SyncTemp
              <4>2. temp[w] \in [file: {temp[w].file}, content: Sound[temp[w].file], synced: BOOLEAN]
                  BY <4>1 DEF SInv, IInv, StorageTypeOK
              <4> DEFINE t == [temp[w] EXCEPT !.synced = TRUE]
              <4>3. t.file = temp[w].file
                  BY <4>2
              <4>4. temp'[x] = IF x = w THEN t ELSE temp[x]
                  BY <1>t, <4>1
              <4> HIDE DEF t
              <4> QED
                  BY <4>1, <4>3, <4>4 DEF SavesSettings
          <3>3. CASE (\E f \in Files : WriteBack(f)) \/ UNCHANGED vars
              <4>1. temp' = temp
                  BY <3>3 DEF WriteBack, Flush, vars, storageVars
              <4> QED
                  BY <4>1 DEF SavesSettings
          <3> QED
              BY <1>3, <3>1, <3>2, <3>3
      <2>3. OpsOK'
          BY <2>1, <2>2 DEF OpsOK
      <2>4. RouteOK'
          BY <2>1, RouteAside
      <2> QED
          BY <2>3, <2>4
  <1> QED
      BY <1>1, <1>2, <1>3

\* Every step preserves it.
LEMMA RouteNext == SInv /\ KInv /\ OpsOK /\ RouteOK /\ [Next]_vars => (OpsOK /\ RouteOK)'
  <1> SUFFICES ASSUME SInv, KInv, OpsOK, RouteOK, [Next]_vars PROVE OpsOK' /\ RouteOK'
      OBVIOUS
  <1>1. ASSUME NEW r \in Requests,
               \/ \E op \in (SettingsOps \ {"revert"}) \cup UserOps \cup {"import"} : Begin(r, op)
               \/ Handler(r) \/ Setup(r) \/ Password(r) \/ Save(r) \/ Saved(r) \/ SaveFailed(r)
               \/ Truncate(r) \/ Unpack(r) \/ NotInArchive(r) \/ ImportFails(r)
        PROVE  OpsOK' /\ RouteOK'
      BY <1>1, RouteBegin, RouteHandler, RouteSave, RouteSaved, RouteOthers
  <1> QED
      BY <1>1, RouteHost DEF Next

\* Whichever routes Caddy refuses and whichever verifications fail, once the
\* requests are answered the dashboard's route is that of the primary domain, if
\* HTTPS is on; unless a save failed, requests about the settings overlapped, or
\* the setup page changed the domain, since the last start.
THEOREM DashboardAlwaysFollowsDomain == Spec => []DashboardFollowsDomain
  <1>1. OpsOK /\ RouteOK => DashboardFollowsDomain
      BY DEF RouteOK, Behind, Active, Follows, DashboardFollowsDomain, Idle
  <1> QED
      BY <1>1, RouteInit, RouteNext, DiskInit, DiskNext, SetupInit, SetupNext, PTL DEF Spec

=============================================================================
