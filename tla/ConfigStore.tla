----------------------------- MODULE ConfigStore -----------------------------
(***************************************************************************)
(* configuration.FileStore and its two users (services/control-api): the   *)
(* API server, which serves the latest envelope of a device, and           *)
(* config-publisher, which publishes a new one.  Each opens the same       *)
(* snapshot file.  The content of the file, and of MemoryStore, is the     *)
(* version of every device's envelope, 0 for a device without one.         *)
(***************************************************************************)
EXTENDS SnapshotFile, Naturals, FiniteSets

CONSTANTS
  Devices,
  Capacity,     \* the most envelopes load accepts
  NoEnvelope    \* nothing is being published

VARIABLES
  store,      \* of each process: "closed", "opening", "open" or "refused"
  data,       \* of each process: FileStore.data
  saving,     \* [by, envelope] of the write in progress
  published,  \* ghost: the versions whose publication was acknowledged
  unsynced    \* ghost: a store was loaded that a power loss could still change

storeVars == <<store, data, saving, published, unsynced>>
configStoreVars == <<snapshotVars, storeVars>>

Processes == {"server", "publisher"}
Empty == [d \in Devices |-> 0]
NotSaving == [by |-> "server", envelope |-> NoEnvelope]

ConfigStoreInit ==
  /\ SnapshotInit
  /\ store = [p \in Processes |-> "closed"]
  /\ data = [p \in Processes |-> Empty]
  /\ saving = NotSaving
  /\ published = Empty
  /\ unsynced = FALSE

-----------------------------------------------------------------------------
(* OpenFileStore: lock, then load or create the snapshot.                  *)
OpenFileStore(p) ==
  /\ store[p] = "closed"
  /\ SnapshotOpen
  /\ store' = [store EXCEPT ![p] = "opening"]
  /\ UNCHANGED <<data, saving, published, unsynced>>

CreateStore(p) ==
  /\ store[p] = "opening"
  /\ visible = NoFile
  /\ Write(Empty)
  /\ saving' = [by |-> p, envelope |-> NoEnvelope]
  /\ UNCHANGED <<store, data, published, unsynced>>

Load(p) ==
  /\ store[p] = "opening" /\ step = "idle"
  /\ visible # NoFile
  /\ Cardinality({d \in Devices : visible[d] # 0}) =< Capacity
  /\ data' = [data EXCEPT ![p] = visible]
  /\ store' = [store EXCEPT ![p] = "open"]
  /\ unsynced' = (unsynced \/ mayRemain # {visible})
  /\ UNCHANGED <<snapshotVars, saving, published>>

(* Close, and the end of an OpenFileStore that failed.                     *)
CloseStore(p) ==
  /\ store[p] # "closed"
  /\ SnapshotClose
  /\ store' = [store EXCEPT ![p] = "closed"]
  /\ data' = [data EXCEPT ![p] = Empty]
  /\ UNCHANGED <<saving, published, unsynced>>

(* Publish, by the publisher: a candidate is saved and then becomes data.  *)
Publish(e) ==
  /\ store["publisher"] = "open"
  /\ e.version # 0 /\ e.version > data["publisher"][e.device]
  /\ Write([data["publisher"] EXCEPT ![e.device] = e.version])
  /\ saving' = [by |-> "publisher", envelope |-> e]
  /\ UNCHANGED <<store, data, published, unsynced>>

RenameStore == Rename /\ UNCHANGED storeVars

StoreSaved ==
  /\ DirectorySynced
  /\ data' = [data EXCEPT ![saving.by] = temporary]
  /\ store' = [store EXCEPT ![saving.by] = "open"]
  /\ published' = IF saving.envelope = NoEnvelope THEN published
                  ELSE [published EXCEPT ![saving.envelope.device] = saving.envelope.version]
  /\ saving' = NotSaving
  /\ UNCHANGED unsynced

StoreNotSaved ==
  /\ WriteFails \/ DirectorySyncFails
  /\ store' = [store EXCEPT ![saving.by] = IF @ = "open" THEN "open" ELSE "refused"]
  /\ saving' = NotSaving
  /\ UNCHANGED <<data, published, unsynced>>

(* Latest, for a device that has an envelope, by the server.               *)
Latest(e) ==
  /\ store["server"] = "open" /\ Usable
  /\ e.version # 0 /\ e.version = data["server"][e.device]
  /\ UNCHANGED configStoreVars

(* The lock is held by one process, so its death is that of the others.    *)
HostCrash ==
  /\ ProcessDies \/ PowerLoss
  /\ store' = [p \in Processes |-> "closed"]
  /\ data' = [p \in Processes |-> Empty]
  /\ saving' = NotSaving
  /\ UNCHANGED <<published, unsynced>>

ConfigStoreNext(envelopes) ==
  \/ \E p \in Processes : OpenFileStore(p) \/ CreateStore(p) \/ Load(p) \/ CloseStore(p)
  \/ \E e \in envelopes : Publish(e)
  \/ RenameStore \/ StoreSaved \/ StoreNotSaved
  \/ HostCrash

-----------------------------------------------------------------------------
(***************************************************************************)
(* "FileStore atomically persists latest signed envelopes" (FileStore): a  *)
(* publication that was acknowledged is in every snapshot that a crash or  *)
(* a power loss may leave and in the memory of every process that has the  *)
(* store open, so no later publication, and no answer of the server, falls *)
(* behind it, although the two processes never talk to each other.         *)
(***************************************************************************)
PublishedSurvives ==
  \A d \in Devices : published[d] # 0 =>
    /\ NoFile \notin mayRemain
    /\ \A content \in mayRemain : content[d] >= published[d]
    /\ \A p \in Processes : store[p] = "open" => data[p][d] >= published[d]
=============================================================================
