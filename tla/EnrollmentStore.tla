-------------------------- MODULE EnrollmentStore --------------------------
(***************************************************************************)
(* FileEnrollmentStore and EnrollmentStore (services/control-api/internal/ *)
(* identity): challenges are issued, consumed by an enrollment or expire;  *)
(* every change is persisted before it is acknowledged.  The state of a    *)
(* store is also its snapshot: a set of devices and one of challenges.  A  *)
(* challenge is numbered by the order in which its random value was drawn. *)
(***************************************************************************)
EXTENDS SnapshotFile, Naturals, FiniteSets

CONSTANTS Accounts, Devices, PublicKeys,
  Capacity,        \* the bound on devices, and on pending challenges
  Ttl,             \* how long a challenge lives
  MaxTime,         \* bound: the clock stops here
  MaxChallenges    \* bound: the number of challenges drawn

ASSUME EnrollmentAssumption ==
  /\ Capacity \in Nat \ {0}
  /\ Ttl \in Nat \ {0}
  /\ MaxTime \in Nat
  /\ MaxChallenges \in Nat

VARIABLES
  ready,      \* the store was opened: FileEnrollmentStore exists
  current,    \* FileEnrollmentStore.current
  reply,      \* what the operation in flight answers when persisted
  now,        \* the clock
  drawn,      \* the number of challenges drawn so far
  issued,     \* the challenges returned by Issue
  enrolled    \* the enrollments acknowledged by Enroll

storeVars == <<ready, current, reply, issued, enrolled>>
vars == <<snapshotVars, storeVars, now, drawn>>

Pending == [id : 1 .. MaxChallenges, account : Accounts, device : Devices,
            expiresAt : 0 .. MaxTime + Ttl]
Identity == [account : Accounts, device : Devices, key : PublicKeys]
Content == [devices : SUBSET Identity, challenges : SUBSET Pending]
Enrollment == [device : Identity, challenge : Pending, at : 0 .. MaxTime]
EmptyStore == [devices |-> {}, challenges |-> {}]

ASSUME NoFileAssumption == NoFile \notin Content

NoReply == [kind |-> "none"]
Rejected == [kind |-> "rejected"]
Issued(challenge) == [kind |-> "issued", challenge |-> challenge]
Enrolled(e) == [kind |-> "enrolled", enrollment |-> e]

Init ==
  /\ SnapshotInit
  /\ ready = FALSE
  /\ current = EmptyStore
  /\ reply = NoReply
  /\ now = 0
  /\ drawn = 0
  /\ issued = {}
  /\ enrolled = {}

-----------------------------------------------------------------------------
(* What restore accepts.                                                   *)
Restorable(content) ==
  /\ Cardinality(content.devices) =< Capacity
  /\ Cardinality(content.challenges) =< Capacity
  /\ \A d, e \in content.devices : d.device = e.device => d = e
  /\ \A c, e \in content.challenges : c.id = e.id => c = e

(* OpenFileEnrollmentStore: lock, then create or restore the snapshot.     *)
OpenFile ==
  /\ SnapshotOpen
  /\ current' = EmptyStore
  /\ UNCHANGED <<ready, reply, issued, enrolled, now, drawn>>

CreateSnapshot ==
  /\ ~ready
  /\ reply = NoReply
  /\ visible = NoFile
  /\ Write(EmptyStore)
  /\ reply' = [kind |-> "opened"]
  /\ UNCHANGED <<ready, current, issued, enrolled, now, drawn>>

Restore ==
  /\ locked /\ ~ready
  /\ reply = NoReply
  /\ visible # NoFile
  /\ Restorable(visible)
  /\ ready' = TRUE
  /\ current' = visible
  /\ UNCHANGED <<snapshotVars, reply, issued, enrolled, now, drawn>>

(* Opening failed: an unreadable or refused snapshot, or the first write.  *)
OpenFails ==
  /\ locked /\ ~ready
  /\ SnapshotClose
  /\ reply' = NoReply
  /\ UNCHANGED <<ready, current, issued, enrolled, now, drawn>>

CloseStore ==
  /\ ready
  /\ SnapshotClose
  /\ ready' = FALSE
  /\ UNCHANGED <<current, reply, issued, enrolled, now, drawn>>

-----------------------------------------------------------------------------
Idle == ready /\ Usable /\ step = "idle"

(* Mutant: a full store issues one more challenge.                         *)
IssueOneTooMany(account, device) ==
  LET live == {c \in current.challenges : c.expiresAt > now}
      challenge == [id |-> drawn + 1, account |-> account, device |-> device,
                    expiresAt |-> now + Ttl] IN
  /\ Idle
  /\ drawn < MaxChallenges
  /\ Cardinality(live) =< Capacity
  /\ drawn' = drawn + 1
  /\ Write([current EXCEPT !.challenges = live \cup {challenge}])
  /\ reply' = Issued(challenge)
  /\ UNCHANGED <<ready, current, issued, enrolled, now>>

(* Issue: expired challenges are reclaimed, and a full store refuses.      *)
Issue(account, device) ==
  LET live == {c \in current.challenges : c.expiresAt > now}
      challenge == [id |-> drawn + 1, account |-> account, device |-> device,
                    expiresAt |-> now + Ttl] IN
  /\ Idle
  /\ drawn < MaxChallenges
  /\ Cardinality(live) < Capacity
  /\ drawn' = drawn + 1
  /\ Write([current EXCEPT !.challenges = live \cup {challenge}])
  /\ reply' = Issued(challenge)
  /\ UNCHANGED <<ready, current, issued, enrolled, now>>

(* What Enroll refuses before it looks at the challenge.                   *)
MayRegister(device) ==
  /\ \A d \in current.devices : d.device # device
  /\ Cardinality(current.devices) < Capacity

(* Mutant: the challenge stays pending.                                    *)
EnrollKeepsChallenge(account, device, key, challenge) ==
  LET identity == [account |-> account, device |-> device, key |-> key] IN
  /\ Idle
  /\ MayRegister(device)
  /\ challenge \in current.challenges
  /\ challenge.account = account /\ challenge.device = device
  /\ challenge.expiresAt > now
  /\ Write([current EXCEPT !.devices = @ \cup {identity}])
  /\ reply' = Enrolled([device |-> identity, challenge |-> challenge, at |-> now])
  /\ UNCHANGED <<ready, current, issued, enrolled, now, drawn>>

(* Enroll, the proof being valid: the challenge is consumed, and the       *)
(* device registered unless the challenge has expired.                     *)
Enroll(account, device, key, challenge) ==
  LET identity == [account |-> account, device |-> device, key |-> key]
      rest == current.challenges \ {challenge} IN
  /\ Idle
  /\ MayRegister(device)
  /\ challenge \in current.challenges
  /\ challenge.account = account /\ challenge.device = device
  /\ \/ /\ challenge.expiresAt > now
        /\ Write([devices |-> current.devices \cup {identity}, challenges |-> rest])
        /\ reply' = Enrolled([device |-> identity, challenge |-> challenge, at |-> now])
     \/ /\ challenge.expiresAt =< now
        /\ Write([current EXCEPT !.challenges = rest])
        /\ reply' = Rejected
  /\ UNCHANGED <<ready, current, issued, enrolled, now, drawn>>

-----------------------------------------------------------------------------
(* persist: the candidate becomes current and the operation answers only   *)
(* when Write succeeded.                                                   *)
RenameSnapshot == Rename /\ UNCHANGED <<storeVars, now, drawn>>

Persisted ==
  /\ DirectorySynced
  /\ ready' = TRUE
  /\ current' = temporary
  /\ issued' = IF reply.kind = "issued" THEN issued \cup {reply.challenge} ELSE issued
  /\ enrolled' = IF reply.kind = "enrolled" THEN enrolled \cup {reply.enrollment}
                 ELSE enrolled
  /\ reply' = NoReply
  /\ UNCHANGED <<now, drawn>>

(* A store whose first snapshot was not written is not opened.             *)
NotPersisted ==
  /\ WriteFails \/ DirectorySyncFails
  /\ reply' = IF ready THEN NoReply ELSE Rejected
  /\ UNCHANGED <<ready, current, issued, enrolled, now, drawn>>

Crash ==
  /\ locked
  /\ ProcessDies \/ PowerLoss
  /\ ready' = FALSE
  /\ current' = EmptyStore
  /\ reply' = NoReply
  /\ UNCHANGED <<issued, enrolled, now, drawn>>

PowerLossWhileClosed ==
  /\ ~locked
  /\ PowerLoss
  /\ UNCHANGED <<storeVars, now, drawn>>

Tick ==
  /\ now < MaxTime
  /\ now' = now + 1
  /\ UNCHANGED <<snapshotVars, storeVars, drawn>>

-----------------------------------------------------------------------------
(* Clients use the challenges they were given.                             *)
Next ==
  \/ OpenFile \/ CreateSnapshot \/ Restore \/ OpenFails \/ CloseStore
  \/ \E account \in Accounts, device \in Devices : Issue(account, device)
  \/ \E account \in Accounts, device \in Devices, key \in PublicKeys, c \in issued :
       Enroll(account, device, key, c)
  \/ RenameSnapshot \/ Persisted \/ NotPersisted
  \/ Crash \/ PowerLossWhileClosed
  \/ Tick

Spec == Init /\ [][Next]_vars

-----------------------------------------------------------------------------
TypeOK ==
  /\ SnapshotTypeOK(Content)
  /\ ready \in BOOLEAN
  /\ current \in Content
  /\ reply \in [kind : {"none", "rejected", "opened"}]
                 \cup [kind : {"issued"}, challenge : Pending]
                 \cup [kind : {"enrolled"}, enrollment : Enrollment]
  /\ now \in 0 .. MaxTime
  /\ drawn \in 0 .. MaxChallenges
  /\ issued \in SUBSET Pending
  /\ enrolled \in SUBSET Enrollment

Contents == mayRemain \ {NoFile}

(***************************************************************************)
(* An enrollment that was acknowledged is in every snapshot a crash or a   *)
(* power loss may leave, and in the memory of a store that is open: Write  *)
(* "acknowledges only after syncing both the new file and its directory"   *)
(* (internal/snapshot/file.go).                                            *)
(***************************************************************************)
AcknowledgedSurvives ==
  \A e \in enrolled :
    /\ NoFile \notin mayRemain
    /\ \A content \in Contents : e.device \in content.devices
    /\ ready => e.device \in current.devices

(***************************************************************************)
(* "EnrollmentRepository must register identities and consume challenges   *)
(* in one atomic operation" (internal/api/enrollment.go): no snapshot that *)
(* may remain holds a device together with the challenge it was enrolled   *)
(* with, no two acknowledged enrollments used the same challenge, and each *)
(* used one issued to its account for its device that had not expired,     *)
(* across failed writes, crashes and restarts.                             *)
(***************************************************************************)
ChallengeUsedOnce ==
  /\ \A e \in enrolled, content \in Contents : e.challenge \notin content.challenges
  /\ \A e, f \in enrolled : e.challenge.id = f.challenge.id => e = f
  /\ \A e \in enrolled :
       /\ e.at < e.challenge.expiresAt
       /\ e.challenge \in issued
       /\ e.device.account = e.challenge.account
       /\ e.device.device = e.challenge.device

(***************************************************************************)
(* "A failed write never publishes candidate in-memory state"              *)
(* (internal/identity/file.go): between operations a usable store's memory *)
(* is its file.                                                            *)
(***************************************************************************)
MemoryIsTheFile == Idle => current = visible

(***************************************************************************)
(* Whatever remains on disk can be restored: no sequence of issues,        *)
(* enrollments and crashes leaves a snapshot restore refuses.              *)
(***************************************************************************)
AlwaysRestorable == \A content \in Contents : Restorable(content)
=============================================================================
