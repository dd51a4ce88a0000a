----------------------------- MODULE ClientState -----------------------------
(***************************************************************************)
(* configuration.ClientState (services/control-api/internal/configuration/ *)
(* client.go): the highest configuration version a device has accepted, as *)
(* a snapshot file that is written before the configuration is applied.    *)
(* The content of the file is that version; the file belongs to the device *)
(* Device.  An envelope whose signature or validity Open refuses changes   *)
(* nothing and is left out.                                                *)
(***************************************************************************)
EXTENDS SnapshotFile, Naturals

CONSTANT Device      \* ClientState.deviceID

VARIABLES
  state,      \* "closed", "opening", "open" or "refused" (opening failed)
  version,    \* ClientState.version
  applied     \* the version the latest Accept returned, to be applied

clientVars == <<state, version, applied>>
clientStateVars == <<snapshotVars, clientVars>>

ClientStateInit ==
  /\ SnapshotInit
  /\ state = "closed"
  /\ version = 0
  /\ applied = 0

-----------------------------------------------------------------------------
(* OpenClientState: lock, then read the version or create the file with 0. *)
OpenClientState ==
  /\ SnapshotOpen
  /\ state' = "opening"
  /\ UNCHANGED <<version, applied>>

CreateState ==
  /\ state = "opening"
  /\ visible = NoFile
  /\ Write(0)
  /\ UNCHANGED clientVars

ReadState ==
  /\ state = "opening" /\ step = "idle"
  /\ visible # NoFile
  /\ version' = visible
  /\ state' = "open"
  /\ UNCHANGED <<snapshotVars, applied>>

(* Close, and the end of an OpenClientState that failed.                   *)
CloseState ==
  /\ state # "closed"
  /\ SnapshotClose
  /\ state' = "closed"
  /\ version' = 0
  /\ UNCHANGED applied

(* Mutant: an envelope of another device is accepted.                      *)
MayAcceptAnyDevice(e) == e.version > version

(* OpenForDevice                                                           *)
MayAccept(e) == e.device = Device /\ e.version > version

(* Mutant: the configuration is applied before it is recorded.             *)
AcceptAppliesFirst(e) ==
  /\ state = "open"
  /\ MayAccept(e)
  /\ Write(e.version)
  /\ applied' = e.version
  /\ UNCHANGED <<state, version>>

Accept(e) ==
  /\ state = "open"
  /\ MayAccept(e)
  /\ Write(e.version)
  /\ UNCHANGED clientVars

RenameState == Rename /\ UNCHANGED clientVars

(* save succeeded, and OpenClientState or Accept returns.                  *)
StateSaved ==
  /\ DirectorySynced
  /\ version' = temporary
  /\ state' = "open"
  /\ applied' = IF state = "open" THEN temporary ELSE applied

StateNotSaved ==
  /\ WriteFails \/ DirectorySyncFails
  /\ state' = IF state = "open" THEN "open" ELSE "refused"
  /\ UNCHANGED <<version, applied>>

DeviceCrash ==
  /\ ProcessDies \/ PowerLoss
  /\ state' = "closed"
  /\ version' = 0
  /\ UNCHANGED applied

ClientStateNext(envelopes) ==
  \/ OpenClientState \/ CreateState \/ ReadState \/ CloseState
  \/ \E e \in envelopes : Accept(e)
  \/ RenameState \/ StateSaved \/ StateNotSaved
  \/ DeviceCrash

-----------------------------------------------------------------------------
(***************************************************************************)
(* "Persist acceptance before configuring a tunnel, so a crash cannot      *)
(* permit a later rollback" (ClientState) and "Equal versions are replays" *)
(* (OpenForDevice): whatever envelopes arrive, late, repeated or out of    *)
(* order, and wherever a write fails or the device crashes or loses power, *)
(* each configuration the device applies is newer than the one before.     *)
(***************************************************************************)
AppliedOnlyIncreases ==
  [][applied' # applied \/ (state = "open" /\ StateSaved) => applied' > applied]_clientStateVars
=============================================================================
