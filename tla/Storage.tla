------------------------------ MODULE Storage ------------------------------
(***************************************************************************)
(* internal/storage: files that are written beside their place and then    *)
(* renamed into it (atomicWrite), and files that an archive is unpacked    *)
(* over in place (ImportBackup).                                           *)
(*                                                                         *)
(* A process that dies leaves what it has renamed.  A host that loses its  *)
(* power may also lose a rename that has not reached the disk, and what    *)
(* was written but not synced: the file is then cut short.                 *)
(***************************************************************************)
CONSTANTS
    Writers,  \* goroutines and processes that write
    None,     \* no file, nobody, nothing
    Torn,     \* the content of a file cut short: it cannot be decoded
    Gone      \* the file that is open has been replaced by another

ASSUME StorageAssumption == None # Torn /\ None # Gone

VARIABLES
    disk,     \* each file as the processes see it, and whether its bytes were synced
    durable,  \* what a loss of power would leave if the latest change did not make it
    temp,     \* the temporary file of each writer: where it goes, what is in it, synced or not
    open      \* the file each writer is unpacking into

storageVars == <<disk, durable, temp, open>>

Files == DOMAIN disk
OnDisk(f) == disk[f].content

\* The types of the variables, when a whole file f has a content in whole[f].
StorageTypeOK(whole) ==
    LET files == DOMAIN whole IN
    /\ disk = [f \in files |-> disk[f]]
    /\ durable = [f \in files |-> durable[f]]
    /\ \A f \in files :
          /\ disk[f] \in [content: whole[f] \cup {None, Torn}, synced: BOOLEAN]
          /\ durable[f] \in whole[f] \cup {None, Torn}
    /\ temp = [w \in Writers |-> temp[w]]
    /\ \A w \in Writers : temp[w] # None =>
          LET f == temp[w].file IN
          f \in files /\ temp[w] \in [file: {f}, content: whole[f], synced: BOOLEAN]
    /\ open \in [Writers -> files \cup {None, Gone}]

StorageInit(content) ==
    /\ disk = [f \in DOMAIN content |-> [content |-> content[f], synced |-> TRUE]]
    /\ durable = content
    /\ temp = [w \in Writers |-> None]
    /\ open = [w \in Writers |-> None]

-----------------------------------------------------------------------------
(* atomicWrite *)

CreateTemp(w, f, c) ==
    /\ temp' = [temp EXCEPT ![w] = [file |-> f, content |-> c, synced |-> FALSE]]
    /\ UNCHANGED <<disk, durable, open>>

SyncTemp(w) ==
    /\ temp' = [temp EXCEPT ![w].synced = TRUE]
    /\ UNCHANGED <<disk, durable, open>>

\* Mutant of ReadyToRename: Sync is not called before.
Closed(w, f) == temp[w] # None /\ temp[w].file = f

ReadyToRename(w, f) == temp[w] # None /\ temp[w].file = f /\ temp[w].synced

\* Whoever has the replaced file open goes on writing to a file without a name.
RenameTemp(w) ==
    LET f == temp[w].file IN
    /\ disk' = [disk EXCEPT ![f] = [content |-> temp[w].content, synced |-> temp[w].synced]]
    /\ temp' = [temp EXCEPT ![w] = None]
    /\ open' = [x \in Writers |-> IF open[x] = f THEN Gone ELSE open[x]]
    /\ UNCHANGED durable

\* Any step may fail: the temporary file is removed.
DiscardTemp(w) ==
    /\ temp' = [temp EXCEPT ![w] = None]
    /\ UNCHANGED <<disk, durable, open>>

-----------------------------------------------------------------------------
(* ImportBackup, one file *)

OpenTruncated(w, f) ==
    /\ disk' = [disk EXCEPT ![f] = [content |-> Torn, synced |-> FALSE]]
    /\ open' = [open EXCEPT ![w] = f]
    /\ UNCHANGED <<durable, temp>>

CopyOut(w, archive) ==
    /\ disk' = IF open[w] \in Files
               THEN [disk EXCEPT ![open[w]] = [content |-> archive[open[w]], synced |-> FALSE]]
               ELSE disk
    /\ open' = [open EXCEPT ![w] = None]
    /\ UNCHANGED <<durable, temp>>

\* The archive ends too early, or the disk is full.
CloseUnfinished(w) ==
    /\ open' = [open EXCEPT ![w] = None]
    /\ UNCHANGED <<disk, durable, temp>>

-----------------------------------------------------------------------------
(* The host, external *)

\* The system writes a file and its directory entry back, in its own time.
Flush(f) ==
    /\ disk' = [disk EXCEPT ![f].synced = TRUE]
    /\ durable' = [durable EXCEPT ![f] = OnDisk(f)]
    /\ UNCHANGED <<temp, open>>

\* Writers die; temporary files stay behind and are never read again.
Forget(dead) ==
    /\ temp' = [w \in Writers |-> IF w \in dead THEN None ELSE temp[w]]
    /\ open' = [w \in Writers |-> IF w \in dead THEN None ELSE open[w]]

\* Of each file the latest version is left, or the one before, or, when its
\* bytes were not synced, a part.
LosePower ==
    /\ \E latest \in SUBSET Files, cut \in SUBSET {f \in Files : ~disk[f].synced} :
          durable' = [f \in Files |-> IF f \in cut THEN Torn
                                     ELSE IF f \in latest THEN OnDisk(f) ELSE durable[f]]
    /\ disk' = [f \in Files |-> [content |-> durable'[f], synced |-> TRUE]]
    /\ Forget(Writers)

=============================================================================
