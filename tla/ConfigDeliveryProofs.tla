------------------------ MODULE ConfigDeliveryProofs ------------------------
(***************************************************************************)
(* Delivery of configurations for any devices and any number of versions:  *)
(* first the device on its own, then the store of the host, then both.     *)
(***************************************************************************)
EXTENDS ConfigDelivery, TLAPS

(***************************************************************************)
(* Every content the device's file may have is at least what was applied,  *)
(* and a write that is under way is above it.                              *)
(***************************************************************************)
DeviceInv ==
  /\ version \in Nat /\ applied \in Nat
  /\ deviceVisible \in deviceMayRemain /\ deviceMayRemain \subseteq Nat \cup {NoSnapshot}
  /\ \A v \in deviceMayRemain : IF v = NoSnapshot THEN applied = 0 ELSE v >= applied
  /\ ~deviceLocked => deviceStep = "idle"
  /\ state = "open" => version >= applied
  /\ deviceStep # "idle" =>
       /\ deviceTemporary \in Nat
       /\ \/ state = "open" /\ deviceTemporary > version
          \/ state = "opening" /\ deviceTemporary = 0 /\ applied = 0
  /\ deviceStep = "renamed" => deviceVisible = deviceTemporary
  /\ served \subseteq Envelopes

(* What is served has a version and a device.                              *)
LEMMA EnvelopeTypes == \A e \in Envelopes : e.version \in Nat /\ e.device \in Recipients
BY DeliveryAssumption DEF Envelopes

(* The invariant of the device holds on every behaviour.                   *)
LEMMA DeviceInvHolds == DeliverySpec => []DeviceInv
<1>1. DeliveryInit => DeviceInv
  BY DEF DeliveryInit, Client!ClientStateInit, Client!SnapshotInit, DeviceInv
<1>2. DeviceInv /\ [DeliveryNext]_deliveryVars => DeviceInv'
  <2> SUFFICES ASSUME DeviceInv, [DeliveryNext]_deliveryVars PROVE DeviceInv'
    OBVIOUS
  <2> USE DeliveryAssumption DEF DeviceInv
  <2>1. CASE Serve
    BY <2>1 DEF Serve, deviceVars, Client!snapshotVars, Client!clientVars
  <2>2. CASE UNCHANGED <<deviceVars, served>>
    BY <2>2 DEF deviceVars, Client!snapshotVars, Client!clientVars
  <2>3. CASE Client!ClientStateNext(served) /\ UNCHANGED <<hostVars, served>>
    <3> USE <2>3 DEF Client!snapshotVars, Client!clientVars
    <3>1. CASE Client!OpenClientState
      BY <3>1 DEF Client!OpenClientState, Client!SnapshotOpen
    <3>2. CASE Client!CreateState
      BY <3>2 DEF Client!CreateState, Client!Write, Client!Usable
    <3>3. CASE Client!ReadState
      BY <3>3 DEF Client!ReadState
    <3>4. CASE Client!CloseState
      BY <3>4 DEF Client!CloseState, Client!SnapshotClose
    <3>5. ASSUME NEW e \in served, Client!Accept(e) PROVE DeviceInv'
      BY <3>5, EnvelopeTypes DEF Client!Accept, Client!MayAccept, Client!Write, Client!Usable
    <3>6. CASE Client!RenameState
      <4>1. deviceTemporary \in Nat /\ deviceTemporary >= applied
        BY <3>6 DEF Client!RenameState, Client!Rename
      <4>2. \A v \in deviceMayRemain' : v \in deviceMayRemain \/ v = deviceTemporary
        BY <3>6 DEF Client!RenameState, Client!Rename
      <4> QED BY <3>6, <4>1, <4>2 DEF Client!RenameState, Client!Rename
    <3>7. CASE Client!StateSaved
      BY <3>7 DEF Client!StateSaved, Client!DirectorySynced
    <3>8. CASE Client!StateNotSaved
      BY <3>8, Zenon DEF Client!StateNotSaved, Client!WriteFails, Client!DirectorySyncFails
    <3>9. CASE Client!DeviceCrash
      BY <3>9, Zenon DEF Client!DeviceCrash, Client!ProcessDies, Client!PowerLoss
    <3> QED BY <3>1, <3>2, <3>3, <3>4, <3>5, <3>6, <3>7, <3>8, <3>9 DEF Client!ClientStateNext
  <2> QED BY <2>1, <2>2, <2>3 DEF DeliveryNext, deliveryVars
<1> QED BY <1>1, <1>2, PTL DEF DeliverySpec, deliveryVars

(***************************************************************************)
(* ClientState: whatever is delivered in whatever order, and wherever a    *)
(* write fails or the device crashes, it applies only newer versions.      *)
(***************************************************************************)
THEOREM NoRollback == DeliverySpec => AppliedOnlyIncreases
<1>1. DeviceInv /\ [DeliveryNext]_deliveryVars =>
        [applied' # applied \/ (state = "open" /\ Client!StateSaved)
           => applied' > applied]_(Client!clientStateVars)
  <2> SUFFICES ASSUME DeviceInv, [DeliveryNext]_deliveryVars,
                      applied' # applied \/ (state = "open" /\ Client!StateSaved)
               PROVE  applied' > applied
    BY DEF Client!clientStateVars
  <2>1. Client!StateSaved
    BY DEF DeliveryNext, deliveryVars, Serve, deviceVars, Client!clientVars,
           Client!ClientStateNext, Client!OpenClientState, Client!CreateState,
           Client!ReadState, Client!CloseState, Client!Accept, Client!RenameState,
           Client!StateNotSaved, Client!DeviceCrash
  <2>2. deviceStep = "renamed" /\ applied' = IF state = "open" THEN deviceTemporary ELSE applied
    BY <2>1 DEF Client!StateSaved, Client!DirectorySynced
  <2> QED BY <2>2 DEF DeviceInv
<1> QED BY <1>1, DeviceInvHolds, PTL
       DEF DeliverySpec, AppliedOnlyIncreases, Client!AppliedOnlyIncreases

-----------------------------------------------------------------------------
Snapshots == [Recipients -> Nat]
Covers(content) == \A d \in Recipients : content[d] >= published[d]

HostTypeOK ==
  /\ store \in [Host!Processes -> {"closed", "opening", "open", "refused"}]
  /\ data \in [Host!Processes -> Snapshots]
  /\ published \in Snapshots
  /\ hostVisible \in hostMayRemain /\ hostMayRemain \subseteq Snapshots \cup {NoSnapshot}
  /\ saving.by \in Host!Processes

(* The lock keeps all processes but one out of the file.                   *)
OneProcess ==
  /\ ~hostLocked => hostStep = "idle" /\ \A p \in Host!Processes : store[p] = "closed"
  /\ \A p, q \in Host!Processes : store[p] # "closed" /\ store[q] # "closed" => p = q

(* A write that is under way, of a new store or of an envelope.            *)
WriteInv ==
  hostStep # "idle" =>
    /\ hostTemporary \in Snapshots /\ Covers(hostTemporary)
    /\ \/ store[saving.by] = "opening" /\ saving.envelope = NoEnvelope
       \/ /\ saving.by = "publisher" /\ store["publisher"] = "open"
          /\ saving.envelope \in Envelopes
          /\ hostTemporary[saving.envelope.device] = saving.envelope.version
    /\ hostStep = "temporary" =>
         hostVisible = NoSnapshot \/ hostTemporary[Device] >= hostVisible[Device]
    /\ hostStep = "renamed" => hostVisible = hostTemporary

(* What was published is in memory and in all that may remain.             *)
ContentsCover ==
  /\ \A content \in hostMayRemain :
       IF content = NoSnapshot THEN published = Host!Empty ELSE Covers(content)
  /\ \A p \in Host!Processes : store[p] = "open" => Covers(data[p])

(* The memory of a usable store is its file, and of a server's store that  *)
(* was not loaded between a rename and its sync the only one that remains. *)
MemoryIsFile ==
  \A p \in Host!Processes :
    store[p] = "open" /\ ~hostFailed =>
      /\ hostStep # "renamed" => data[p] = hostVisible
      /\ p = "server" /\ ~unsynced => hostMayRemain = {hostVisible}

HostInv == HostTypeOK /\ OneProcess /\ WriteInv /\ ContentsCover /\ MemoryIsFile

(* A store that publishes nothing is a snapshot.                           *)
LEMMA EmptyIsSnapshot == Host!Empty \in Snapshots /\ \A d \in Recipients : Host!Empty[d] = 0
BY DEF Host!Empty, Snapshots

(* A missing file is told from every snapshot.                             *)
LEMMA NoFileIsNoSnapshot == NoSnapshot \notin Snapshots
BY DeliveryAssumption DEF Snapshots

(* A snapshot that is nowhere behind one that covers what was published.   *)
LEMMA NewerCovers ==
  ASSUME NEW old \in Snapshots, NEW new \in Snapshots, published \in Snapshots,
         Covers(old), \A d \in Recipients : new[d] >= old[d]
  PROVE  Covers(new)
<1> SUFFICES ASSUME NEW d \in Recipients PROVE new[d] >= published[d]
  BY Zenon DEF Covers
<1>1. new[d] \in Nat /\ old[d] \in Nat /\ published[d] \in Nat
  BY DEF Snapshots
<1>2. new[d] >= old[d] /\ old[d] >= published[d]
  BY DEF Covers
<1> QED BY <1>1, <1>2

(* The steps of the host that open, load or close a store.                 *)
LEMMA HostOpenClose ==
  ASSUME HostInv, NEW p \in Host!Processes,
         Host!OpenFileStore(p) \/ Host!Load(p) \/ Host!CloseStore(p)
  PROVE  HostInv'
<1> USE DEF HostInv, HostTypeOK, OneProcess, ContentsCover, WriteInv, MemoryIsFile, Covers
<1>1. CASE Host!OpenFileStore(p)
  BY <1>1 DEF Host!OpenFileStore, Host!SnapshotOpen
<1>2. CASE Host!Load(p)
  <2>1. /\ store[p] = "opening" /\ hostStep = "idle"
        /\ data' = [data EXCEPT ![p] = hostVisible] /\ store' = [store EXCEPT ![p] = "open"]
        /\ unsynced' = (unsynced \/ hostMayRemain # {hostVisible})
        /\ UNCHANGED <<hostLocked, hostFailed, hostStep, hostTemporary, hostVisible,
                       hostMayRemain, saving, published>>
    BY <1>2, Zenon DEF Host!Load, Host!snapshotVars
  <2>2. hostVisible \in Snapshots /\ Covers(hostVisible)
    BY <1>2, NoFileIsNoSnapshot, Zenon DEF Host!Load
  <2>3. HostTypeOK'
    BY <2>1, <2>2
  <2>4. OneProcess'
    BY <2>1, <2>2
  <2>5. WriteInv' /\ ContentsCover'
    BY <2>1, <2>2
  <2>6. MemoryIsFile'
    BY <2>1, <2>2, Zenon
  <2> QED BY <2>3, <2>4, <2>5, <2>6, Zenon
<1>3. CASE Host!CloseStore(p)
  BY <1>3, EmptyIsSnapshot DEF Host!CloseStore, Host!SnapshotClose
<1> QED BY <1>1, <1>2, <1>3, Zenon

(* The steps of the host that begin a write.                               *)
LEMMA HostWrites ==
  ASSUME HostInv,
         \/ \E p \in Host!Processes : Host!CreateStore(p)
         \/ \E e \in Envelopes : Host!Publish(e)
  PROVE  HostInv'
<1> USE DEF HostInv, HostTypeOK, OneProcess, ContentsCover, WriteInv, MemoryIsFile, Covers,
            Host!Write, Host!Usable
<1>1. ASSUME NEW p \in Host!Processes, Host!CreateStore(p) PROVE HostInv'
  BY <1>1, EmptyIsSnapshot DEF Host!CreateStore
<1>2. ASSUME NEW e \in Envelopes, Host!Publish(e) PROVE HostInv'
  <2>1. e.version \in Nat /\ e.device \in Recipients
    BY <1>2, EnvelopeTypes
  <2>2. "publisher" \in Host!Processes
    BY DEF Host!Processes
  <2> DEFINE old == data["publisher"]
             new == [old EXCEPT ![e.device] = e.version]
  <2>3. /\ store["publisher"] = "open" /\ ~hostFailed /\ hostLocked /\ hostStep = "idle"
        /\ e.version > old[e.device]
        /\ hostStep' = "temporary" /\ hostTemporary' = new
        /\ saving' = [by |-> "publisher", envelope |-> e]
        /\ UNCHANGED <<hostLocked, hostFailed, hostVisible, hostMayRemain,
                       store, data, published, unsynced>>
    BY <1>2 DEF Host!Publish
  <2>4. old \in Snapshots /\ old = hostVisible /\ Covers(old)
    BY <2>2, <2>3
  <2>5. new \in Snapshots /\ new[e.device] = e.version /\ \A d \in Recipients : new[d] >= old[d]
    BY <2>1, <2>3, <2>4 DEF Snapshots
  <2> HIDE DEF old, new
  <2>6. Covers(new)
    <3>1. published \in Snapshots
      OBVIOUS
    <3> HIDE DEF HostInv, HostTypeOK, OneProcess, ContentsCover, WriteInv, MemoryIsFile, Covers
    <3> QED BY <2>4, <2>5, <3>1, NewerCovers
  <2>7. WriteInv'
    BY <1>2, <2>2, <2>3, <2>4, <2>5, <2>6, DeliveryAssumption
  <2>8. (HostTypeOK /\ OneProcess /\ ContentsCover /\ MemoryIsFile)'
    BY <2>2, <2>3
  <2> QED BY <2>7, <2>8
<1> QED BY <1>1, <1>2

(* The steps of the host that end a write, and crashes.                    *)
LEMMA HostWriteEnds ==
  ASSUME HostInv,
         Host!RenameStore \/ Host!StoreSaved \/ Host!StoreNotSaved \/ Host!HostCrash
  PROVE  HostInv'
<1> USE DEF HostInv, HostTypeOK, OneProcess, ContentsCover, WriteInv, MemoryIsFile, Covers
<1>1. CASE Host!RenameStore
  BY <1>1, NoFileIsNoSnapshot DEF Host!RenameStore, Host!Rename, Host!storeVars, Host!Processes
<1>2. CASE Host!StoreSaved
  BY <1>2, NoFileIsNoSnapshot, EnvelopeTypes
     DEF Host!StoreSaved, Host!DirectorySynced, Host!NotSaving, Host!Processes, Snapshots
<1>3. CASE Host!StoreNotSaved
  BY <1>3 DEF Host!StoreNotSaved, Host!WriteFails, Host!DirectorySyncFails, Host!NotSaving,
              Host!Processes
<1>4. CASE Host!HostCrash
  BY <1>4, EmptyIsSnapshot
     DEF Host!HostCrash, Host!ProcessDies, Host!PowerLoss, Host!NotSaving, Host!Processes
<1> QED BY <1>1, <1>2, <1>3, <1>4, Zenon

(* The invariant of the host holds on every behaviour.                     *)
LEMMA HostInvHolds == DeliverySpec => []HostInv
<1>1. DeliveryInit => HostInv
  BY EmptyIsSnapshot
     DEF DeliveryInit, Host!ConfigStoreInit, Host!SnapshotInit, Host!NotSaving, Host!Processes,
         HostInv, HostTypeOK, OneProcess, WriteInv, ContentsCover, MemoryIsFile
<1>2. HostInv /\ [DeliveryNext]_deliveryVars => HostInv'
  <2> SUFFICES ASSUME HostInv, [DeliveryNext]_deliveryVars PROVE HostInv'
    OBVIOUS
  <2>1. CASE UNCHANGED hostVars
    BY <2>1 DEF hostVars, HostInv, HostTypeOK, OneProcess, WriteInv, ContentsCover, MemoryIsFile,
                Covers
  <2>2. CASE Host!ConfigStoreNext(Envelopes)
    BY <2>2, HostOpenClose, HostWrites, HostWriteEnds DEF Host!ConfigStoreNext
  <2>3. Serve => UNCHANGED hostVars
    BY DEF Serve, Host!Latest, Host!configStoreVars, Host!snapshotVars, Host!storeVars, hostVars
  <2> QED BY <2>1, <2>2, <2>3 DEF DeliveryNext, deliveryVars
<1> QED BY <1>1, <1>2, PTL DEF DeliverySpec, deliveryVars

(***************************************************************************)
(* FileStore: what was published survives every crash and power loss, and  *)
(* neither the server nor the publisher ever works on less, for any        *)
(* devices and versions.                                                   *)
(***************************************************************************)
THEOREM PublicationSurvives == DeliverySpec => []PublishedSurvives
<1>1. HostInv => PublishedSurvives
  BY EmptyIsSnapshot
     DEF HostInv, HostTypeOK, ContentsCover, Covers, PublishedSurvives, Host!PublishedSurvives
<1> QED BY <1>1, HostInvHolds, PTL

-----------------------------------------------------------------------------
(***************************************************************************)
(* A version is backed when the host cannot fall behind it.  All that is   *)
(* served to the device, written by it or left in its file is backed.      *)
(***************************************************************************)
Backed(n) ==
  n = 0 \/ \A content \in hostMayRemain : content # NoSnapshot /\ content[Device] >= n

AllBacked ==
  /\ \A e \in served : e.device = Device => Backed(e.version)
  /\ \A v \in deviceMayRemain \ {NoSnapshot} : Backed(v)
  /\ deviceStep # "idle" => Backed(deviceTemporary)

(* No step of the host takes a backed version back: a new snapshot is      *)
(* never behind the one it replaces.                                       *)
LEMMA HostKeepsBacked ==
  ASSUME HostInv, Host!ConfigStoreNext(Envelopes), NEW n \in Nat, Backed(n)
  PROVE  Backed(n)'
<1> USE DEF Backed
<1>1. CASE hostMayRemain' \subseteq hostMayRemain
  BY <1>1
<1>2. CASE Host!RenameStore
  <2>1. hostMayRemain' = hostMayRemain \cup {hostTemporary} /\ hostStep = "temporary"
    BY <1>2 DEF Host!RenameStore, Host!Rename
  <2>2. hostTemporary \in Snapshots /\ hostVisible \in hostMayRemain
    BY <2>1 DEF HostInv, HostTypeOK, WriteInv
  <2>3. hostVisible = NoSnapshot \/ hostTemporary[Device] >= hostVisible[Device]
    BY <2>1 DEF HostInv, WriteInv
  <2>4. hostVisible # NoSnapshot => hostVisible[Device] \in Nat /\ hostTemporary[Device] \in Nat
    BY <2>2, DeliveryAssumption DEF HostInv, HostTypeOK, Snapshots
  <2>5. n = 0 \/ hostTemporary[Device] >= n
    BY <2>2, <2>3, <2>4
  <2> QED BY <2>1, <2>2, <2>5, NoFileIsNoSnapshot
<1>3. Host!RenameStore \/ hostMayRemain' \subseteq hostMayRemain
  <2>1. CASE \E p \in Host!Processes : \/ Host!OpenFileStore(p) \/ Host!CreateStore(p)
                                       \/ Host!Load(p) \/ Host!CloseStore(p)
    BY <2>1 DEF Host!OpenFileStore, Host!CreateStore, Host!Load, Host!CloseStore,
                Host!SnapshotOpen, Host!SnapshotClose, Host!Write, Host!snapshotVars
  <2>2. CASE \E e \in Envelopes : Host!Publish(e)
    BY <2>2 DEF Host!Publish, Host!Write
  <2>3. CASE Host!StoreSaved \/ Host!StoreNotSaved \/ Host!HostCrash
    BY <2>3 DEF Host!StoreSaved, Host!DirectorySynced, Host!StoreNotSaved, Host!WriteFails,
                Host!DirectorySyncFails, Host!HostCrash, Host!ProcessDies, Host!PowerLoss,
                HostInv, HostTypeOK
  <2> QED BY <2>1, <2>2, <2>3 DEF Host!ConfigStoreNext
<1> QED BY <1>1, <1>2, <1>3, Zenon

(* What the server answers with is backed.                                 *)
LEMMA ServedIsBacked ==
  ASSUME HostInv, ~unsynced, NEW e \in Envelopes, e.device = Device, Host!Latest(e)
  PROVE  Backed(e.version)
<1>1. /\ store["server"] = "open" /\ hostLocked /\ ~hostFailed
      /\ e.version = data["server"][Device]
  BY DEF Host!Latest, Host!Usable
<1>2. "server" \in Host!Processes /\ "publisher" \in Host!Processes
  BY DEF Host!Processes
<1>3. hostStep = "idle"
  BY <1>1, <1>2 DEF HostInv, OneProcess, WriteInv, HostTypeOK
<1>4. hostMayRemain = {hostVisible} /\ data["server"] = hostVisible
  BY <1>1, <1>2, <1>3 DEF HostInv, MemoryIsFile
<1>5. hostVisible \in Snapshots /\ hostVisible[Device] \in Nat
  BY <1>2, <1>4, DeliveryAssumption DEF HostInv, HostTypeOK, Snapshots
<1> QED BY <1>1, <1>4, <1>5, NoFileIsNoSnapshot DEF Backed

(* As long as every write was synced, all that is around is backed.        *)
LEMMA AllBackedHolds == DeliverySpec => [](~unsynced => AllBacked)
<1>1. DeliveryInit => AllBacked
  BY DEF DeliveryInit, Client!ClientStateInit, Client!SnapshotInit, AllBacked
<1>2. DeviceInv /\ HostInv /\ (~unsynced => AllBacked) /\ [DeliveryNext]_deliveryVars
        => (~unsynced => AllBacked)'
  <2> SUFFICES ASSUME DeviceInv, HostInv, ~unsynced => AllBacked,
                      [DeliveryNext]_deliveryVars, ~unsynced'
               PROVE  AllBacked'
    OBVIOUS
  <2>1. CASE Serve
    <3>1. PICK e \in Envelopes : Host!Latest(e) /\ served' = served \cup {e}
      BY <2>1 DEF Serve
    <3>2. UNCHANGED <<deviceStep, deviceTemporary, deviceMayRemain, hostMayRemain, unsynced>>
      BY <2>1, <3>1 DEF Serve, deviceVars, Client!snapshotVars, Host!Latest,
                        Host!configStoreVars, Host!snapshotVars, Host!storeVars
    <3>3. e.device = Device => Backed(e.version)
      BY <3>1, <3>2, ServedIsBacked
    <3> QED BY <3>1, <3>2, <3>3 DEF AllBacked, Backed
  <2>2. CASE Host!ConfigStoreNext(Envelopes) /\ UNCHANGED <<deviceVars, served>>
    <3>1. AllBacked
      <4>1. unsynced => unsynced'
        BY <2>2, Zenon DEF Host!ConfigStoreNext, Host!OpenFileStore, Host!CreateStore, Host!Load,
             Host!CloseStore, Host!Publish, Host!RenameStore, Host!StoreSaved,
             Host!StoreNotSaved, Host!HostCrash, Host!storeVars
      <4> QED BY <4>1
    <3>2. UNCHANGED <<served, deviceStep, deviceTemporary, deviceMayRemain>>
      BY <2>2 DEF deviceVars, Client!snapshotVars
    <3>3. \A e \in served : e.version \in Nat
      BY EnvelopeTypes DEF DeviceInv
    <3>4. \A n \in Nat : Backed(n) => Backed(n)'
      BY <2>2, HostKeepsBacked
    <3>5. (\A e \in served : e.device = Device => Backed(e.version))'
      BY <3>1, <3>2, <3>3, <3>4 DEF AllBacked, Backed
    <3>6. (\A v \in deviceMayRemain \ {NoSnapshot} : Backed(v))'
      BY <3>1, <3>2, <3>4 DEF AllBacked, Backed, DeviceInv
    <3>7. (deviceStep # "idle" => Backed(deviceTemporary))'
      BY <3>1, <3>2, <3>4 DEF AllBacked, Backed, DeviceInv
    <3> QED BY <3>5, <3>6, <3>7 DEF AllBacked
  <2>3. CASE Client!ClientStateNext(served) /\ UNCHANGED <<hostVars, served>>
    <3> USE <2>3 DEF AllBacked, Backed, hostVars, Client!snapshotVars
    <3>1. CASE Client!OpenClientState \/ Client!ReadState \/ Client!CloseState
      BY <3>1, Zenon DEF Client!OpenClientState, Client!ReadState, Client!CloseState,
                  Client!SnapshotOpen, Client!SnapshotClose
    <3>2. CASE Client!CreateState
      BY <3>2, Zenon DEF Client!CreateState, Client!Write
    <3>3. ASSUME NEW e \in served, Client!Accept(e) PROVE AllBacked'
      BY <3>3 DEF Client!Accept, Client!MayAccept, Client!Write
    <3>4. CASE Client!RenameState
      BY <3>4 DEF Client!RenameState, Client!Rename
    <3>5. CASE Client!StateSaved
      BY <3>5 DEF Client!StateSaved, Client!DirectorySynced, DeviceInv
    <3>6. CASE Client!StateNotSaved
      BY <3>6 DEF Client!StateNotSaved, Client!WriteFails, Client!DirectorySyncFails
    <3>7. CASE Client!DeviceCrash
      BY <3>7 DEF Client!DeviceCrash, Client!ProcessDies, Client!PowerLoss
    <3> QED BY <3>1, <3>2, <3>3, <3>4, <3>5, <3>6, <3>7 DEF Client!ClientStateNext
  <2>4. CASE UNCHANGED deliveryVars
    BY <2>4 DEF deliveryVars, deviceVars, Client!snapshotVars, hostVars,
                AllBacked, Backed
  <2> QED BY <2>1, <2>2, <2>3, <2>4 DEF DeliveryNext
<1> QED BY <1>1, <1>2, DeviceInvHolds, HostInvHolds, PTL DEF DeliverySpec, deliveryVars

(***************************************************************************)
(* ClientState over FileStore: unless a store was loaded between a rename  *)
(* and its directory sync, no power loss on either side leaves a device    *)
(* that accepted more than the host still has.                             *)
(***************************************************************************)
THEOREM DeviceFollowsHost == DeliverySpec => []DeviceNotAhead
<1>1. (~unsynced => AllBacked) => DeviceNotAhead
  BY DEF AllBacked, Backed, DeviceNotAhead
<1> QED BY <1>1, AllBackedHolds, PTL

=============================================================================
