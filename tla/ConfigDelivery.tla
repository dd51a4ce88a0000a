--------------------------- MODULE ConfigDelivery ---------------------------
(***************************************************************************)
(* Delivery of a device's configuration: the store of the control plane    *)
(* (ConfigStore), the state of the device (ClientState), and between them  *)
(* a network in which an answer of the server may arrive late, repeatedly, *)
(* out of order or never.  Host and device crash and lose power on their   *)
(* own.                                                                    *)
(***************************************************************************)
EXTENDS Naturals

CONSTANTS
  Recipients,     \* the devices envelopes are published for
  Device,         \* the one whose state is followed
  MaxEnvelopes,   \* the most envelopes the store loads
  NoEnvelope,     \* nothing is being published
  NoSnapshot,     \* the content of a snapshot file that does not exist
  MaxVersion      \* bound: the largest version published

ASSUME DeliveryAssumption ==
  /\ Device \in Recipients
  /\ MaxVersion \in Nat
  /\ NoSnapshot \notin Nat \cup [Recipients -> Nat]

VARIABLES
  deviceLocked, deviceFailed, deviceStep,           \* the device's snapshot file
  deviceTemporary, deviceVisible, deviceMayRemain,
  state, version, applied,                          \* see ClientState
  hostLocked, hostFailed, hostStep,                 \* the host's snapshot file
  hostTemporary, hostVisible, hostMayRemain,
  store, data, saving, published, unsynced,         \* see ConfigStore
  served        \* the envelopes the server answered with, still on their way

Client == INSTANCE ClientState WITH
  NoFile <- NoSnapshot,
  locked <- deviceLocked, failed <- deviceFailed, step <- deviceStep,
  temporary <- deviceTemporary, visible <- deviceVisible, mayRemain <- deviceMayRemain

Host == INSTANCE ConfigStore WITH
  NoFile <- NoSnapshot, Devices <- Recipients, Capacity <- MaxEnvelopes,
  locked <- hostLocked, failed <- hostFailed, step <- hostStep,
  temporary <- hostTemporary, visible <- hostVisible, mayRemain <- hostMayRemain

deviceVars == <<deviceLocked, deviceFailed, deviceStep, deviceTemporary, deviceVisible,
                deviceMayRemain, state, version, applied>>
hostVars == <<hostLocked, hostFailed, hostStep, hostTemporary, hostVisible, hostMayRemain,
              store, data, saving, published, unsynced>>
deliveryVars == <<deviceVars, hostVars, served>>

(* What is published; other devices get a single, late version (bound).    *)
Envelopes ==
  [device : {Device}, version : 0 .. MaxVersion]
    \cup [device : Recipients \ {Device}, version : {MaxVersion}]

DeliveryInit == Client!ClientStateInit /\ Host!ConfigStoreInit /\ served = {}

(* The handler of GET configuration answers with the latest envelope; that *)
(* of another device reaches this one by mistake.                          *)
Serve ==
  /\ \E e \in Envelopes : Host!Latest(e) /\ served' = served \cup {e}
  /\ UNCHANGED deviceVars

DeliveryNext ==
  \/ Serve
  \/ Host!ConfigStoreNext(Envelopes) /\ UNCHANGED <<deviceVars, served>>
  \/ Client!ClientStateNext(served) /\ UNCHANGED <<hostVars, served>>

DeliverySpec == DeliveryInit /\ [][DeliveryNext]_deliveryVars

-----------------------------------------------------------------------------
(* An acknowledged publication (FileStore.Publish) outlives every crash.   *)
PublishedSurvives == Host!PublishedSurvives

(* Each configuration the device applies is newer than the one before, in  *)
(* whatever order, how often and how late envelopes arrive (ClientState).  *)
AppliedOnlyIncreases == Client!AppliedOnlyIncreases

(***************************************************************************)
(* A device never runs ahead of the store: whatever it has recorded as     *)
(* accepted is in every snapshot the host may be left with, so that the    *)
(* next version an operator publishes is news to the device.  It needs     *)
(* that no store was loaded whose last rename was not yet synced           *)
(* (snapshot.File.Write syncs the directory after the rename, and Read     *)
(* does not): the server would hand out what a power loss can take back.   *)
(***************************************************************************)
DeviceNotAhead ==
  ~unsynced =>
    \A accepted \in deviceMayRemain \ {NoSnapshot, 0} :
      /\ NoSnapshot \notin hostMayRemain
      /\ \A content \in hostMayRemain : content[Device] >= accepted
=============================================================================
