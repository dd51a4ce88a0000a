---------------------------- MODULE SnapshotFile ----------------------------
(***************************************************************************)
(* snapshot.File (services/control-api/internal/snapshot/file.go): local   *)
(* state replaced as a whole by a synced temporary file, a rename and a    *)
(* directory sync.  The file system is external: visible is what a process *)
(* reads, mayRemain what a power loss may leave.  A store's mutex makes    *)
(* its writes one at a time.                                               *)
(***************************************************************************)
CONSTANT NoFile      \* the content of a path that does not exist

VARIABLES
  locked,      \* File.lock is held by the open store
  failed,      \* File.failed is set
  step,        \* "idle", "temporary" (written, not renamed) or "renamed"
  temporary,   \* the content of the temporary file
  visible,     \* the content of the path
  mayRemain    \* the contents the path may have after a power loss

snapshotVars == <<locked, failed, step, temporary, visible, mayRemain>>

SnapshotTypeOK(Content) ==
  /\ locked \in BOOLEAN /\ failed \in BOOLEAN
  /\ step \in {"idle", "temporary", "renamed"}
  /\ temporary \in Content \cup {NoFile}
  /\ visible \in Content \cup {NoFile}
  /\ mayRemain \subseteq Content \cup {NoFile}
  /\ visible \in mayRemain

SnapshotInit ==
  /\ locked = FALSE /\ failed = FALSE
  /\ step = "idle"
  /\ temporary = NoFile
  /\ visible = NoFile
  /\ mayRemain = {NoFile}

(* Check(): the store is open and its last commit is not uncertain.        *)
Usable == locked /\ ~failed

(* Mutant: the lock is shared.                                             *)
SnapshotOpenShared ==
  /\ locked' = TRUE
  /\ failed' = FALSE
  /\ UNCHANGED <<step, temporary, visible, mayRemain>>

SnapshotOpen ==
  /\ ~locked
  /\ locked' = TRUE
  /\ failed' = FALSE
  /\ UNCHANGED <<step, temporary, visible, mayRemain>>

SnapshotClose ==
  /\ locked
  /\ step = "idle"
  /\ locked' = FALSE
  /\ UNCHANGED <<failed, step, temporary, visible, mayRemain>>

Write(data) ==
  /\ Usable
  /\ step = "idle"
  /\ step' = "temporary"
  /\ temporary' = data
  /\ UNCHANGED <<locked, failed, visible, mayRemain>>

(* An error before the rename; the temporary file is removed.              *)
WriteFails ==
  /\ step = "temporary"
  /\ step' = "idle"
  /\ temporary' = NoFile
  /\ UNCHANGED <<locked, failed, visible, mayRemain>>

Rename ==
  /\ step = "temporary"
  /\ step' = "renamed"
  /\ visible' = temporary
  /\ mayRemain' = mayRemain \cup {temporary}
  /\ UNCHANGED <<locked, failed, temporary>>

(* Mutant: the write is acknowledged without syncing the directory.        *)
DirectoryNotSynced ==
  /\ step = "renamed"
  /\ step' = "idle"
  /\ temporary' = NoFile
  /\ UNCHANGED <<locked, failed, visible, mayRemain>>

DirectorySynced ==
  /\ step = "renamed"
  /\ step' = "idle"
  /\ temporary' = NoFile
  /\ mayRemain' = {visible}
  /\ UNCHANGED <<locked, failed, visible>>

(* Mutant: the uncertain commit is reported and otherwise ignored.         *)
DirectorySyncForgotten ==
  /\ step = "renamed"
  /\ step' = "idle"
  /\ temporary' = NoFile
  /\ UNCHANGED <<locked, failed, visible, mayRemain>>

DirectorySyncFails ==
  /\ step = "renamed"
  /\ step' = "idle"
  /\ temporary' = NoFile
  /\ failed' = TRUE
  /\ UNCHANGED <<locked, visible, mayRemain>>

(* The process dies and the kernel drops its lock; after a power loss the  *)
(* path has one of the contents that may remain.                           *)
ProcessDies ==
  /\ locked' = FALSE
  /\ failed' = FALSE
  /\ step' = "idle"
  /\ temporary' = NoFile
  /\ UNCHANGED <<visible, mayRemain>>

PowerLoss ==
  /\ locked' = FALSE
  /\ failed' = FALSE
  /\ step' = "idle"
  /\ temporary' = NoFile
  /\ \E content \in mayRemain : visible' = content /\ mayRemain' = {content}
=============================================================================
