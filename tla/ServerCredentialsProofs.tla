------------------------ MODULE ServerCredentialsProofs ------------------------
(***************************************************************************)
(* Proofs about the TLS server credential, for every set of uploads and     *)
(* every pairing: the credential is an A/B snapshot store, what it hands    *)
(* out is a pair, and no half of a finished replacement is left behind.     *)
(***************************************************************************)
EXTENDS ServerCredentials, SnapshotStoreProofs

(* Nothing but pairs is ever on its way to flash, in flash or in service.   *)
FlashInv ==
  /\ flash = [b \in Bank |-> flash[b]]
  /\ activeAddress \in Bank
  /\ \A b \in Bank : flash[b].kind # "legacy"
  /\ Matches(candidate.content)
  /\ PairsMatch

(* Start-up finds the staging buffers empty. *)
StagingInv ==
  /\ StagedHalfWaits
  /\ phase = "off" => stagedCertificate = None /\ stagedKey = None

-----------------------------------------------------------------------------
(* A pair that is saved is content of the store. *)
LEMMA PairIsContent ==
  ASSUME NEW c, NEW k, <<c, k>> \in Pairs
  PROVE  /\ [certificate |-> c, key |-> k] \in Content
         /\ Matches([certificate |-> c, key |-> k])
         /\ c # None /\ k # None
  BY CredentialAssumption DEF Matches

(* An upload leaves the store alone or starts to save a pair. *)
LEMMA UploadIsStoreStep ==
  ASSUME NEW c, NEW k, TryActivate(c, k)
  PROVE  \/ UNCHANGED storeVars
         \/ \E pair \in Content : Matches(pair) /\ StartSave(pair) /\ UNCHANGED misread
  <1>1. CASE Paired(c, k) /\ Activate([certificate |-> CertificateFor(c), key |-> KeyFor(k)])
    <2> DEFINE pair == [certificate |-> CertificateFor(c), key |-> KeyFor(k)]
    <2>1. pair \in Content /\ Matches(pair)
      BY <1>1, PairIsContent DEF Paired
    <2>2. StartSave(pair) /\ UNCHANGED misread
      BY <1>1 DEF Activate
    <2>3. QED
      BY <2>1, <2>2
  <1>2. CASE UNCHANGED storeVars
    BY <1>2
  <1>3. QED
    BY <1>1, <1>2 DEF TryActivate, Answer, Refuse

(* Every step of the credential store is a step of the snapshot store. *)
LEMMA CredentialStepIsStoreStep ==
  ASSUME [CredentialNext]_credentialVars
  PROVE  [Next]_storeVars
  <1>1. CASE LoadCredentials
    BY <1>1 DEF LoadCredentials, Next
  <1>2. CASE \E c \in Certificate : StageCertificate(c)
    BY <1>2, UploadIsStoreStep DEF StageCertificate, Next
  <1>3. CASE \E k \in Key : StagePrivateKey(k)
    BY <1>3, UploadIsStoreStep DEF StagePrivateKey, Next
  <1>4. CASE CommitStep
    BY <1>4 DEF CommitStep, Next
  <1>5. CASE PowerLoss
    BY <1>5 DEF PowerLoss, Next
  <1>6. CASE UNCHANGED credentialVars
    BY <1>6 DEF credentialVars
  <1>7. QED
    BY <1>1, <1>2, <1>3, <1>4, <1>5, <1>6 DEF CredentialNext

(* TlsServerCredentials_* adds no step to the A/B protocol, so a save that  *)
(* was acknowledged as activated is durable and start-up never rolls back.  *)
THEOREM CredentialRefinement == CredentialSpec => ImplementsStore
  <1>1. CredentialInit => Init
    BY DEF CredentialInit
  <1>2. [CredentialNext]_credentialVars => [Next]_storeVars
    BY CredentialStepIsStoreStep
  <1>3. QED
    BY <1>1, <1>2, PTL DEF CredentialSpec, ImplementsStore, Spec

(* The promises of the snapshot store, inherited. *)
THEOREM CredentialDurability ==
  CredentialSpec => [](AcknowledgedIsDurable /\ NoRollback /\ BootServesNewest)
  BY CredentialRefinement, Durability, RollbackFreedom, NewestIsServed, PTL
     DEF ImplementsStore

-----------------------------------------------------------------------------
LEMMA FlashInvInit == CredentialInit => FlashInv
  <1> SUFFICES ASSUME CredentialInit PROVE FlashInv
    OBVIOUS
  <1>1. flash = [b \in Bank |-> Erased]
    BY CredentialAssumption DEF CredentialInit, Init
  <1>2. \A b \in Bank : flash[b].kind = "erased"
    BY <1>1 DEF Erased
  <1>3. snapshot.content = Default /\ candidate.content = Default /\ activeAddress = "A"
    BY DEF CredentialInit, Init
  <1>4. QED
    BY <1>1, <1>2, <1>3 DEF FlashInv, PairsMatch, Matches, Bank

(* Start-up takes over a pair from flash, or the compiled one. *)
LEMMA FlashInvBoot ==
  ASSUME FlashInv, Boot
  PROVE  FlashInv'
  <1> USE DEF FlashInv, PairsMatch
  <1>1. PICK u, l \in SUBSET Bank : InitLoad(u) \/ InitMigrate(u, l) \/ InitDefault(u, l)
    BY DEF Boot
  <1>2. Chosen("legacy", l) = "none"
    BY DEF Chosen, IsValid, Bank
  <1>3. CASE InitLoad(u)
    <2> DEFINE b == Chosen("current", u)
    <2>1. b \in Bank /\ flash[b].kind = "current"
      BY <1>3 DEF InitLoad, Chosen, IsValid, Bank
    <2>2. Matches(flash[b].content)
      BY <2>1
    <2>3. snapshot'.content = flash[b].content /\ activeAddress' = b
      BY <1>3 DEF InitLoad
    <2>4. flash' = flash /\ candidate' = candidate
      BY <1>3 DEF InitLoad
    <2>5. QED
      BY <2>1, <2>2, <2>3, <2>4 DEF Matches
  <1>4. CASE InitDefault(u, l)
    <2>1. snapshot'.content = Default /\ activeAddress' = "B"
          /\ flash' = flash /\ candidate' = candidate
      BY <1>4, CredentialAssumption DEF InitDefault
    <2>2. QED
      BY <2>1 DEF Matches, Bank
  <1>5. QED
    BY <1>1, <1>2, <1>3, <1>4 DEF InitMigrate

(* A save writes the candidate or something that no checksum accepts. *)
LEMMA FlashInvSave ==
  ASSUME FlashInv, SaveStep
  PROVE  FlashInv'
  <1> USE DEF FlashInv, PairsMatch
  <1>1. Target \in Bank
    BY DEF Target, Other, Bank
  <1>2. candidate' = candidate
    BY DEF SaveStep, EraseTarget, ProgramTarget, VerifyTarget, SaveFailed
  <1>3. snapshot' \in {snapshot, candidate} /\ activeAddress' \in {activeAddress, Target}
    BY DEF SaveStep, EraseTarget, ProgramTarget, VerifyTarget, SaveFailed
  <1>4. \/ flash' = flash
        \/ \E image \in {Erased, Torn, Written(candidate), flash[Target]} : SetTarget(image)
    BY DEF SaveStep, EraseTarget, ProgramTarget, ProgramResults, VerifyTarget
  <1>5. ASSUME NEW image \in {Erased, Torn, Written(candidate), flash[Target]}
        PROVE  /\ image.kind # "legacy"
               /\ image.kind = "current" => Matches(image.content)
    BY <1>1, <1>5 DEF Erased, Torn, Written
  <1>6. /\ flash' = [b \in Bank |-> flash'[b]]
        /\ \A b \in Bank : /\ flash'[b].kind # "legacy"
                           /\ flash'[b].kind = "current" => Matches(flash'[b].content)
    BY <1>1, <1>4, <1>5 DEF SetTarget
  <1>7. QED
    BY <1>1, <1>2, <1>3, <1>6 DEF Matches

LEMMA FlashInvNext ==
  ASSUME FlashInv, [CredentialNext]_credentialVars
  PROVE  FlashInv'
  <1>1. ASSUME UNCHANGED storeVars PROVE FlashInv'
    BY <1>1 DEF storeVars, FlashInv, PairsMatch, Matches
  <1>2. ASSUME NEW pair, Matches(pair), StartSave(pair) PROVE FlashInv'
    BY <1>2 DEF StartSave, BeginSave, FlashInv, PairsMatch, Matches
  <1>3. CASE LoadCredentials
    BY <1>3, FlashInvBoot DEF LoadCredentials
  <1>4. CASE \E c \in Certificate : StageCertificate(c)
    BY <1>4, <1>1, <1>2, UploadIsStoreStep DEF StageCertificate
  <1>5. CASE \E k \in Key : StagePrivateKey(k)
    BY <1>5, <1>1, <1>2, UploadIsStoreStep DEF StagePrivateKey
  <1>6. CASE CommitStep
    BY <1>6, FlashInvSave DEF CommitStep
  <1>7. CASE PowerLoss
    BY <1>7 DEF PowerLoss, Crash, FlashInv, PairsMatch, Matches
  <1>8. CASE UNCHANGED credentialVars
    BY <1>8, <1>1 DEF credentialVars
  <1>9. QED
    BY <1>3, <1>4, <1>5, <1>6, <1>7, <1>8 DEF CredentialNext

(* Whatever fails, the certificate and the key in service belong together,  *)
(* and so do the ones in flash.                                             *)
THEOREM ServesPairs == CredentialSpec => []PairsMatch
  <1>1. FlashInv => PairsMatch
    BY DEF FlashInv
  <1>2. QED
    BY <1>1, FlashInvInit, FlashInvNext, PTL DEF CredentialSpec

-----------------------------------------------------------------------------
(* The verdicts that leave the store ready leave at most one half, which    *)
(* the half in service does not complete.                                   *)
LEMMA UploadStaging ==
  ASSUME FlashInv, StagingInv, phase = "ready",
         NEW c, NEW k, TryActivate(c, k),
         c # None \/ k # None,
         stagedCertificate = None \/ stagedKey = None,
         (c = stagedCertificate /\ k # None) \/ (k = stagedKey /\ c # None)
  PROVE  StagingInv'
  <1>1. HasValidSnapshot => CertificateFor(c) # None /\ KeyFor(k) # None
    <2>1. HasValidSnapshot => <<snapshot.content.certificate, snapshot.content.key>> \in Pairs
      BY DEF HasValidSnapshot, FlashInv, PairsMatch, Matches
    <2>2. QED
      BY <2>1, PairIsContent DEF CertificateFor, KeyFor
  <1>2. CASE UNCHANGED storeVars /\ Stage(c, k)
        /\ (c = None \/ k = None) /\ (HasValidSnapshot => ~Paired(c, k))
    BY <1>2 DEF storeVars, Stage, StagingInv, StagedHalfWaits, HasValidSnapshot,
         Paired, CertificateFor, KeyFor
  <1>3. CASE UNCHANGED storeVars /\ ClearStaging
    BY <1>3 DEF storeVars, ClearStaging, StagingInv, StagedHalfWaits
  <1>4. CASE Activate([certificate |-> CertificateFor(c), key |-> KeyFor(k)])
    BY <1>4 DEF Activate, StartSave, BeginSave, StagingInv, StagedHalfWaits
  <1>5. ASSUME None \in {CertificateFor(c), KeyFor(k)}
        PROVE  (c = None \/ k = None) /\ ~HasValidSnapshot
    BY <1>1, <1>5 DEF CertificateFor, KeyFor
  <1>6. QED
    BY <1>2, <1>3, <1>4, <1>5 DEF TryActivate, Answer, Refuse

LEMMA StagingNext ==
  ASSUME FlashInv, StagingInv, [CredentialNext]_credentialVars
  PROVE  StagingInv'
  <1>1. CASE LoadCredentials
    <2>1. stagedCertificate' = None /\ stagedKey' = None
      BY <1>1 DEF LoadCredentials, Boot, InitLoad, InitMigrate, InitDefault, StagingInv
    <2>2. QED
      BY <2>1 DEF StagingInv, StagedHalfWaits
  <1>2. ASSUME NEW c \in Certificate, StageCertificate(c) PROVE StagingInv'
    <2>1. c # None /\ phase = "ready" /\ TryActivate(c, stagedKey)
      BY <1>2, CredentialAssumption DEF StageCertificate
    <2>2. stagedCertificate = None \/ stagedKey = None
      BY <2>1 DEF StagingInv, StagedHalfWaits
    <2>3. QED
      BY <2>1, <2>2, UploadStaging
  <1>3. ASSUME NEW k \in Key, StagePrivateKey(k) PROVE StagingInv'
    <2>1. k # None /\ phase = "ready" /\ TryActivate(stagedCertificate, k)
      BY <1>3, CredentialAssumption DEF StagePrivateKey
    <2>2. stagedCertificate = None \/ stagedKey = None
      BY <2>1 DEF StagingInv, StagedHalfWaits
    <2>3. QED
      BY <2>1, <2>2, UploadStaging
  <1>4. CASE CommitStep
    <2>1. phase' \in {"program", "verify"} \/ caller' = "none"
      BY <1>4 DEF CommitStep, SaveStep, EraseTarget, ProgramTarget, VerifyTarget, SaveFailed
    <2>2. CASE caller' = "none"
      BY <1>4, <2>2 DEF CommitStep, ClearStaging, StagingInv, StagedHalfWaits
    <2>3. CASE phase' \in {"program", "verify"}
      BY <2>3 DEF StagingInv, StagedHalfWaits
    <2>4. QED
      BY <2>1, <2>2, <2>3
  <1>5. CASE PowerLoss
    BY <1>5 DEF PowerLoss, ClearStaging, StagingInv, StagedHalfWaits
  <1>6. CASE UNCHANGED credentialVars
    BY <1>6 DEF credentialVars, storeVars, StagingInv, StagedHalfWaits,
         HasValidSnapshot, Paired, CertificateFor, KeyFor
  <1>7. QED
    BY <1>1, <1>2, <1>3, <1>4, <1>5, <1>6 DEF CredentialNext

(* No half of a refused, failed or finished replacement stays behind for a  *)
(* later upload, and none that could go into service is kept waiting.       *)
THEOREM NothingLeftStaged == CredentialSpec => []StagedHalfWaits
  <1>1. CredentialInit => StagingInv
    BY DEF CredentialInit, Init, StagingInv, StagedHalfWaits
  <1>2. FlashInv /\ StagingInv /\ [CredentialNext]_credentialVars => StagingInv'
    BY StagingNext
  <1>3. StagingInv => StagedHalfWaits
    BY DEF StagingInv
  <1>4. FlashInv /\ [CredentialNext]_credentialVars => FlashInv'
    BY FlashInvNext
  <1>5. QED
    BY <1>1, <1>2, <1>3, <1>4, FlashInvInit, PTL DEF CredentialSpec
=============================================================================
