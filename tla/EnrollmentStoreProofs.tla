------------------------ MODULE EnrollmentStoreProofs ------------------------
(***************************************************************************)
(* FileEnrollmentStore for any accounts, devices, keys, capacity and       *)
(* lifetime of challenges, and any number of them.                         *)
(***************************************************************************)
EXTENDS EnrollmentStore, FiniteSetTheorems, TLAPS

(***************************************************************************)
(* A snapshot that can be restored, in which the acknowledged enrollments  *)
(* took place and every challenge is one of the first n.                   *)
(***************************************************************************)
Sound(content, n, acknowledged) ==
  /\ content \in Content
  /\ IsFiniteSet(content.devices) /\ IsFiniteSet(content.challenges)
  /\ Restorable(content)
  /\ \A c \in content.challenges : c.id \in 1 .. n
  /\ \A e \in acknowledged :
       e.device \in content.devices /\ e.challenge \notin content.challenges

FileInv ==
  /\ now \in 0 .. MaxTime /\ drawn \in 0 .. MaxChallenges
  /\ visible \in mayRemain
  /\ \A content \in mayRemain : IF content = NoFile THEN enrolled = {}
                                 ELSE Sound(content, drawn, enrolled)
  /\ ready => Sound(current, drawn, enrolled)
  /\ step # "idle" => Sound(temporary, drawn, enrolled)
  /\ ~locked => step = "idle" /\ ~ready
  /\ ready /\ ~failed /\ step # "renamed" => current = visible
  /\ step = "renamed" => visible = temporary

(* An enrollment used, in time, a challenge issued for its device.         *)
Used(e) ==
  /\ e.challenge \in issued
  /\ e.at < e.challenge.expiresAt
  /\ e.device.account = e.challenge.account
  /\ e.device.device = e.challenge.device

(* What was answered, and what the operation in flight is to answer.       *)
AnswersInv ==
  /\ \A c \in issued : c.id \in 1 .. drawn
  /\ \A c, d \in issued : c.id = d.id => c = d
  /\ \A e \in enrolled : Used(e)
  /\ \A e, f \in enrolled : e.challenge = f.challenge => e = f
  /\ reply.kind = "issued" =>
       /\ reply.challenge.id \in 1 .. drawn
       /\ \A c \in issued : c.id # reply.challenge.id
  /\ reply.kind = "enrolled" =>
       /\ Used(reply.enrollment)
       /\ reply.enrollment.device \in temporary.devices
       /\ reply.enrollment.challenge \notin temporary.challenges
       /\ \A e \in enrolled : e.challenge # reply.enrollment.challenge
  /\ step = "idle" => reply.kind \notin {"issued", "enrolled"}

Inv == FileInv /\ AnswersInv

-----------------------------------------------------------------------------
(* The fields of a snapshot.                                               *)
LEMMA ContentFields ==
  ASSUME NEW content \in Content
  PROVE  /\ content.devices \subseteq Identity /\ content.challenges \subseteq Pending
         /\ \A s : [content EXCEPT !.challenges = s]
                     = [devices |-> content.devices, challenges |-> s]
BY DEF Content

(* A snapshot from its fields.                                             *)
LEMMA ContentRecord ==
  ASSUME NEW d \in SUBSET Identity, NEW c \in SUBSET Pending
  PROVE  [devices |-> d, challenges |-> c] \in Content
BY DEF Content

(* The first snapshot.                                                     *)
LEMMA EmptyIsSound == \A n : Sound(EmptyStore, n, {})
<1>1. EmptyStore \in Content /\ EmptyStore.devices = {} /\ EmptyStore.challenges = {}
  BY ContentRecord DEF EmptyStore
<1>2. IsFiniteSet({}) /\ Cardinality({}) = 0
  BY FS_EmptySet
<1> QED BY <1>1, <1>2, EnrollmentAssumption DEF Sound, Restorable

(* Fewer challenges are restorable as well.                                *)
LEMMA FewerChallenges ==
  ASSUME NEW content, NEW n, NEW done, Sound(content, n, done),
         NEW rest \in SUBSET content.challenges
  PROVE  Sound([content EXCEPT !.challenges = rest], n, done)
<1> DEFINE new == [content EXCEPT !.challenges = rest]
<1>1. new = [devices |-> content.devices, challenges |-> rest]
  BY ContentFields DEF Sound
<1>2. new \in Content
  <2>1. content.devices \in SUBSET Identity /\ rest \in SUBSET Pending
    BY ContentFields DEF Sound
  <2>2. [devices |-> content.devices, challenges |-> rest] \in Content
    BY <2>1, ContentRecord
  <2> QED BY <1>1, <2>2
<1>3. IsFiniteSet(rest) /\ Cardinality(rest) =< Cardinality(content.challenges)
  BY FS_Subset DEF Sound
<1>4. Cardinality(rest) \in Nat /\ Cardinality(content.challenges) \in Nat
  BY <1>3, FS_CardinalityType DEF Sound
<1>5. new.devices = content.devices /\ new.challenges = rest
  BY <1>1
<1> HIDE DEF new
<1>6. Restorable(new)
  BY <1>3, <1>4, <1>5, EnrollmentAssumption DEF Sound, Restorable
<1> QED BY <1>2, <1>3, <1>5, <1>6 DEF Sound, new

(* Issue writes a sound snapshot.                                          *)
LEMMA IssueKeeps ==
  ASSUME Inv, NEW account \in Accounts, NEW device \in Devices, Issue(account, device)
  PROVE  Inv'
<1> DEFINE live == {c \in current.challenges : c.expiresAt > now}
           challenge == [id |-> drawn + 1, account |-> account, device |-> device,
                         expiresAt |-> now + Ttl]
           new == [devices |-> current.devices, challenges |-> live \cup {challenge}]
<1>1. Sound(current, drawn, enrolled) /\ current \in Content /\ drawn \in Nat /\ now \in Nat
  BY EnrollmentAssumption DEF Issue, Idle, Inv, FileInv, Sound
<1>2. /\ locked /\ step = "idle" /\ step' = "temporary"
      /\ drawn < MaxChallenges /\ drawn' = drawn + 1
      /\ Cardinality(live) < Capacity
      /\ temporary' = new
      /\ reply' = [kind |-> "issued", challenge |-> challenge]
      /\ UNCHANGED <<locked, failed, visible, mayRemain, ready, current, issued, enrolled, now>>
  BY <1>1, ContentFields, Zenon DEF Issue, Idle, Usable, Write, Issued
<1>3. challenge \in Pending /\ challenge.id = drawn + 1
  BY <1>1, <1>2, EnrollmentAssumption DEF Pending, Inv, FileInv
<1>4. live \subseteq current.challenges
  OBVIOUS
<1> HIDE DEF live, challenge
<1>5. new.devices = current.devices /\ new.challenges = live \cup {challenge}
  OBVIOUS
<1>6. new \in Content
  <2>1. current.devices \in SUBSET Identity /\ live \cup {challenge} \in SUBSET Pending
    BY <1>1, <1>3, <1>4, ContentFields
  <2> QED BY <2>1, ContentRecord
<1> HIDE DEF new
<1>7. \A c \in live : c.id \in 1 .. drawn
  BY <1>1, <1>4 DEF Sound
<1>8. IsFiniteSet(live) /\ Cardinality(live) \in Nat
  BY <1>1, <1>4, FS_Subset, FS_CardinalityType DEF Sound
<1>9. IsFiniteSet(live \cup {challenge}) /\ Cardinality(live \cup {challenge}) =< Capacity
  <2>1. challenge \notin live
    BY <1>1, <1>3, <1>7
  <2>2. /\ IsFiniteSet(live \cup {challenge})
        /\ Cardinality(live \cup {challenge}) = Cardinality(live) + 1
    BY <1>8, <2>1, FS_AddElement
  <2> QED BY <1>2, <1>8, <2>2, EnrollmentAssumption
<1>10. Restorable(new)
  BY <1>1, <1>3, <1>4, <1>5, <1>7, <1>9 DEF Sound, Restorable
<1>11. \A e \in enrolled : e.challenge \notin live /\ e.challenge.id \in 1 .. drawn
  BY <1>1, <1>4 DEF Sound, Inv, AnswersInv, Used
<1>12. Sound(new, drawn + 1, enrolled)
  BY <1>1, <1>3, <1>5, <1>6, <1>7, <1>9, <1>10, <1>11 DEF Sound
<1>13. \A content : Sound(content, drawn, enrolled) => Sound(content, drawn + 1, enrolled)
  BY <1>1 DEF Sound
<1>14. FileInv'
  <2>1. now' \in 0 .. MaxTime /\ drawn' \in 0 .. MaxChallenges
    BY <1>1, <1>2, EnrollmentAssumption DEF Inv, FileInv
  <2> QED BY <1>2, <1>12, <1>13, <2>1 DEF Inv, FileInv
<1>15. AnswersInv'
  BY <1>1, <1>2, <1>3 DEF Inv, AnswersInv, Used
<1> QED BY <1>14, <1>15 DEF Inv

(* Enroll writes a sound snapshot, whether the challenge has expired.      *)
LEMMA EnrollKeeps ==
  ASSUME Inv, NEW account \in Accounts, NEW device \in Devices, NEW key \in PublicKeys,
         NEW challenge \in issued, Enroll(account, device, key, challenge)
  PROVE  Inv'
<1> DEFINE identity == [account |-> account, device |-> device, key |-> key]
           rest == current.challenges \ {challenge}
           more == current.devices \cup {identity}
           enrollment == [device |-> identity, challenge |-> challenge, at |-> now]
<1>1. Sound(current, drawn, enrolled) /\ current \in Content
  BY DEF Enroll, Idle, Inv, FileInv, Sound
<1>2. /\ locked /\ step = "idle" /\ step' = "temporary"
      /\ MayRegister(device) /\ challenge \in current.challenges
      /\ challenge.account = account /\ challenge.device = device
      /\ UNCHANGED <<locked, failed, visible, mayRemain, ready, current, issued, enrolled,
                     now, drawn>>
  BY Zenon DEF Enroll, Idle, Usable, Write
<1>3. rest \in SUBSET current.challenges
  OBVIOUS
<1>4. CASE /\ challenge.expiresAt =< now
           /\ temporary' = [current EXCEPT !.challenges = rest]
           /\ reply' = Rejected
  <2>1. Sound(temporary', drawn, enrolled)
    BY <1>1, <1>3, <1>4, FewerChallenges
  <2>2. FileInv'
    BY <1>2, <2>1 DEF Inv, FileInv
  <2>3. AnswersInv'
    BY <1>2, <1>4 DEF Inv, AnswersInv, Used, Rejected
  <2> QED BY <2>2, <2>3 DEF Inv
<1>5. CASE /\ challenge.expiresAt > now
           /\ temporary' = [devices |-> more, challenges |-> rest]
           /\ reply' = [kind |-> "enrolled", enrollment |-> enrollment]
  <2>1. identity \in Identity /\ identity.device = device /\ identity.account = account
    BY DEF Identity
  <2>2. \A d \in current.devices : d.device # device
    BY <1>2 DEF MayRegister
  <2>3. IsFiniteSet(more) /\ Cardinality(more) =< Capacity
    <3>1. identity \notin current.devices /\ Cardinality(current.devices) < Capacity
      BY <1>2, <2>1, <2>2 DEF MayRegister
    <3>2. IsFiniteSet(current.devices) /\ Cardinality(current.devices) \in Nat
      BY <1>1, FS_CardinalityType DEF Sound
    <3>3. IsFiniteSet(more) /\ Cardinality(more) = Cardinality(current.devices) + 1
      BY <3>1, <3>2, FS_AddElement, Zenon
    <3> QED BY <3>1, <3>2, <3>3, EnrollmentAssumption
  <2>4. IsFiniteSet(rest) /\ Cardinality(rest) =< Capacity
    <3>1. IsFiniteSet(rest) /\ Cardinality(rest) =< Cardinality(current.challenges)
      BY <1>1, <1>3, FS_Subset DEF Sound
    <3>2. Cardinality(rest) \in Nat /\ Cardinality(current.challenges) \in Nat
      BY <1>1, <3>1, FS_CardinalityType DEF Sound
    <3> QED BY <1>1, <3>1, <3>2, EnrollmentAssumption DEF Sound, Restorable
  <2>5. temporary' \in Content
    <3>1. more \in SUBSET Identity /\ rest \in SUBSET Pending
      BY <1>1, <2>1, ContentFields
    <3> QED BY <1>5, <3>1, ContentRecord
  <2>6. temporary'.devices = more /\ temporary'.challenges = rest
    BY <1>5
  <2>7. Restorable(temporary')
    <3>1. \A d, e \in more : d.device = e.device => d = e
      BY <1>1, <2>1, <2>2 DEF Sound, Restorable
    <3>2. \A c, d \in rest : c.id = d.id => c = d
      BY <1>1 DEF Sound, Restorable
    <3> QED BY <2>3, <2>4, <2>6, <3>1, <3>2 DEF Restorable
  <2>8. Sound(temporary', drawn, enrolled)
    BY <1>1, <2>3, <2>4, <2>5, <2>6, <2>7 DEF Sound
  <2>9. FileInv'
    BY <1>2, <2>8 DEF Inv, FileInv
  <2>10. \A e \in enrolled : e.challenge # challenge
    BY <1>1, <1>2 DEF Sound
  <2>11. AnswersInv'
    BY <1>2, <1>5, <2>1, <2>6, <2>10 DEF Inv, AnswersInv, Used
  <2> QED BY <2>9, <2>11 DEF Inv
<1>6. \/ /\ challenge.expiresAt > now
         /\ Write([devices |-> more, challenges |-> rest])
         /\ reply' = Enrolled(enrollment)
      \/ /\ challenge.expiresAt =< now
         /\ Write([current EXCEPT !.challenges = rest])
         /\ reply' = Rejected
  BY DEF Enroll
<1> QED BY <1>4, <1>5, <1>6 DEF Write, Enrolled

(* The answer is given when the snapshot is in place and synced.           *)
LEMMA PersistedKeeps == Inv /\ Persisted => Inv'
<1> SUFFICES ASSUME Inv, Persisted PROVE Inv'
  OBVIOUS
<1>1. /\ step = "renamed" /\ step' = "idle" /\ ready' = TRUE /\ reply' = NoReply
      /\ current' = temporary /\ mayRemain' = {visible}
      /\ UNCHANGED <<locked, failed, visible, now, drawn>>
  BY DEF Persisted, DirectorySynced
<1>2. Sound(temporary, drawn, enrolled) /\ visible = temporary /\ visible # NoFile /\ locked
  BY <1>1, NoFileAssumption DEF Inv, FileInv, Sound
<1>3. CASE reply.kind = "issued"
  <2>1. issued' = issued \cup {reply.challenge} /\ enrolled' = enrolled
    BY <1>3 DEF Persisted
  <2> QED BY <1>1, <1>2, <1>3, <2>1 DEF Inv, FileInv, AnswersInv, Used, NoReply
<1>4. CASE reply.kind = "enrolled"
  <2>1. issued' = issued /\ enrolled' = enrolled \cup {reply.enrollment}
    BY <1>4 DEF Persisted
  <2>2. Sound(temporary, drawn, enrolled')
    BY <1>2, <1>4, <2>1 DEF Sound, Inv, AnswersInv
  <2> QED BY <1>1, <1>2, <1>4, <2>1, <2>2 DEF Inv, FileInv, AnswersInv, Used, NoReply
<1>5. CASE reply.kind \notin {"issued", "enrolled"}
  <2>1. issued' = issued /\ enrolled' = enrolled
    BY <1>5 DEF Persisted
  <2> QED BY <1>1, <1>2, <2>1 DEF Inv, FileInv, AnswersInv, Used, NoReply
<1> QED BY <1>3, <1>4, <1>5

(* The invariant of the store holds on every behaviour.                    *)
LEMMA InvHolds == Spec => []Inv
<1>1. Init => Inv
  BY EnrollmentAssumption DEF Init, SnapshotInit, Inv, FileInv, AnswersInv, NoReply
<1>2. Inv /\ [Next]_vars => Inv'
  <2> SUFFICES ASSUME Inv, [Next]_vars PROVE Inv'
    OBVIOUS
  <2> USE DEF Inv, FileInv, AnswersInv, Used
  <2>1. CASE OpenFile
    BY <2>1 DEF OpenFile, SnapshotOpen
  <2>2. CASE CreateSnapshot
    BY <2>2, EmptyIsSound DEF CreateSnapshot, Write, Usable
  <2>3. CASE Restore
    BY <2>3 DEF Restore, snapshotVars
  <2>4. CASE OpenFails
    BY <2>4 DEF OpenFails, SnapshotClose, NoReply
  <2>5. CASE CloseStore
    BY <2>5 DEF CloseStore, SnapshotClose
  <2>6. ASSUME NEW account \in Accounts, NEW device \in Devices, Issue(account, device)
        PROVE  Inv'
    BY <2>6, IssueKeeps
  <2>7. ASSUME NEW account \in Accounts, NEW device \in Devices, NEW key \in PublicKeys,
               NEW c \in issued, Enroll(account, device, key, c)
        PROVE  Inv'
    BY <2>7, EnrollKeeps, Zenon
  <2>8. CASE RenameSnapshot
    BY <2>8, NoFileAssumption DEF RenameSnapshot, Rename, storeVars, Sound
  <2>9. CASE Persisted
    BY <2>9, PersistedKeeps
  <2>10. CASE NotPersisted
    BY <2>10 DEF NotPersisted, WriteFails, DirectorySyncFails, NoReply, Rejected
  <2>11. CASE Crash
    BY <2>11 DEF Crash, ProcessDies, PowerLoss, NoReply
  <2>12. CASE PowerLossWhileClosed
    BY <2>12 DEF PowerLossWhileClosed, PowerLoss, storeVars
  <2>13. CASE Tick
    BY <2>13, EnrollmentAssumption DEF Tick, snapshotVars, storeVars
  <2>14. CASE UNCHANGED vars
    BY <2>14 DEF vars, snapshotVars, storeVars
  <2> QED BY <2>1, <2>2, <2>3, <2>4, <2>5, <2>6, <2>7, <2>8, <2>9, <2>10, <2>11, <2>12, <2>13,
             <2>14, Zenon DEF Next
<1> QED BY <1>1, <1>2, PTL DEF Spec

-----------------------------------------------------------------------------
(***************************************************************************)
(* FileEnrollmentStore: an acknowledged enrollment survives every crash,   *)
(* failed write and power loss.                                            *)
(***************************************************************************)
THEOREM EnrollmentSurvives == Spec => []AcknowledgedSurvives
<1>1. Inv => AcknowledgedSurvives
  BY DEF Inv, FileInv, Sound, AcknowledgedSurvives, Contents
<1> QED BY <1>1, InvHolds, PTL

(***************************************************************************)
(* EnrollmentStore: a challenge enrolls at most one device, the one it was *)
(* issued for, in time, and no snapshot brings it back.                    *)
(***************************************************************************)
THEOREM ChallengesAreUsedOnce == Spec => []ChallengeUsedOnce
<1>1. Inv => ChallengeUsedOnce
  BY DEF Inv, FileInv, AnswersInv, Used, Sound, ChallengeUsedOnce, Contents
<1> QED BY <1>1, InvHolds, PTL

(***************************************************************************)
(* persist: between operations the memory of a usable store is its file.   *)
(***************************************************************************)
THEOREM StoreIsTheFile == Spec => []MemoryIsTheFile
<1>1. Inv => MemoryIsTheFile
  BY DEF Inv, FileInv, MemoryIsTheFile, Idle, Usable
<1> QED BY <1>1, InvHolds, PTL

(***************************************************************************)
(* restore accepts every snapshot that may remain, for any capacity.       *)
(***************************************************************************)
THEOREM SnapshotsAreRestorable == Spec => []AlwaysRestorable
<1>1. Inv => AlwaysRestorable
  BY DEF Inv, FileInv, Sound, AlwaysRestorable, Contents
<1> QED BY <1>1, InvHolds, PTL

=============================================================================
