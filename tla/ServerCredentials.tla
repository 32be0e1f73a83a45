--------------------------- MODULE ServerCredentials ---------------------------
(***************************************************************************)
(* The TLS server credential: an A/B snapshot store whose content is a      *)
(* certificate with its private key, and a staging area in RAM for the two  *)
(* halves of a replacement, which the management API uploads one at a time. *)
(* An upload is tried at once against the other half, staged or in service, *)
(* and a pair that matches is saved.  The content Default stands for the    *)
(* pair compiled into the firmware, which is never in flash.                *)
(*                                                                          *)
(* The API task holds the TLS lock from the upload to the verdict, so the   *)
(* only interleaving is with flash failures and power loss.                 *)
(***************************************************************************)
EXTENDS SnapshotStore

CONSTANTS
  Certificate,  \* uploads that claim to be a certificate
  Key,          \* uploads that claim to be a private key
  Malformed,    \* uploads that do not parse
  Pairs,        \* the certificates and keys that belong together
  None          \* an empty staging buffer

ASSUME CredentialAssumption ==
  /\ Content = {Default} \cup [certificate : Certificate, key : Key]
  /\ Default \notin [certificate : Certificate, key : Key]
  /\ LegacyContent = {}
  /\ Seeding = {FALSE}
  /\ Pairs \subseteq Certificate \X Key
  /\ None \notin Certificate \cup Key

VARIABLES
  stagedCertificate,  \* pendingCertificate, or None
  stagedKey,          \* pendingKey, or None
  answer              \* what the last upload returned

credentialVars == <<storeVars, stagedCertificate, stagedKey, answer>>

CredentialInit ==
  /\ Init
  /\ stagedCertificate = None
  /\ stagedKey = None
  /\ answer = "none"

HasValidSnapshot == snapshot.content # Default

(* The half to pair: the staged one, else the one in service, else none.    *)
CertificateFor(staged) ==
  IF staged # None THEN staged
  ELSE IF HasValidSnapshot THEN snapshot.content.certificate ELSE None

KeyFor(staged) ==
  IF staged # None THEN staged
  ELSE IF HasValidSnapshot THEN snapshot.content.key ELSE None

ClearStaging == stagedCertificate' = None /\ stagedKey' = None

Stage(certificate, key) ==
  stagedCertificate' = certificate /\ stagedKey' = key

Answer(verdict) == answer' = verdict /\ UNCHANGED storeVars

-----------------------------------------------------------------------------
(* Mutant: the pair goes into service before it is saved. *)
ActivateAtOnce(pair) ==
  /\ phase = "ready"
  /\ BeginSave(pair, snapshot.generation, "client")
  /\ snapshot' = candidate'
  /\ UNCHANGED <<flash, activeAddress, status, misread>>
  /\ answer' = "none"

(* The pair is saved; the verdict comes with the end of the save. *)
Activate(pair) ==
  /\ StartSave(pair)
  /\ UNCHANGED misread
  /\ answer' = "none"

(* Mutant: a single upload is taken to match the half in service. *)
PairedIfSingle(certificate, key) ==
  \/ <<CertificateFor(certificate), KeyFor(key)>> \in Pairs
  \/ certificate = None
  \/ key = None

(* mbedtls_pk_check_pair of the two halves. *)
Paired(certificate, key) ==
  <<CertificateFor(certificate), KeyFor(key)>> \in Pairs

(* Mutant: halves that do not match stay staged. *)
RefuseKeeping(certificate, key) ==
  /\ Stage(certificate, key)
  /\ Answer(IF certificate = None \/ key = None THEN "pending" ELSE "mismatch")

(* Halves that parse but do not match: a single upload waits for its other  *)
(* half, two of them are thrown away.                                       *)
Refuse(certificate, key) ==
  IF certificate = None \/ key = None
  THEN Stage(certificate, key) /\ Answer("pending")
  ELSE ClearStaging /\ Answer("mismatch")

(* tlsServerCredentials_TryActivate, with the staging buffers as the upload *)
(* has left them.  A failing random generator gives the same answer as      *)
(* malformed data.                                                          *)
TryActivate(certificate, key) ==
  LET halves == {CertificateFor(certificate), KeyFor(key)} IN
  \/ /\ None \in halves
     /\ Stage(certificate, key)
     /\ Answer("pending")
  \/ /\ None \notin halves
     /\ ClearStaging
     /\ Answer("invalidData")
  \/ /\ None \notin halves
     /\ halves \cap Malformed = {}
     /\ ~Paired(certificate, key)
     /\ Refuse(certificate, key)
  \/ /\ None \notin halves
     /\ halves \cap Malformed = {}
     /\ Paired(certificate, key)
     /\ Stage(certificate, key)
     /\ Activate([certificate |-> CertificateFor(certificate), key |-> KeyFor(key)])

(* TlsServerCredentials_StageCertificate and _StagePrivateKey. *)
StageCertificate(certificate) ==
  /\ phase = "ready"
  /\ TryActivate(certificate, stagedKey)

StagePrivateKey(key) ==
  /\ phase = "ready"
  /\ TryActivate(stagedCertificate, key)

(* A step of the save; its end gives the verdict and clears the staging     *)
(* buffers whatever the verdict is.                                         *)
CommitStep ==
  /\ SaveStep
  /\ UNCHANGED misread
  /\ IF caller' = "none"
     THEN /\ ClearStaging
          /\ answer' = IF status' = "ok" THEN "activated" ELSE "storageError"
     ELSE UNCHANGED <<stagedCertificate, stagedKey, answer>>

(* TlsServerCredentials_Init. *)
LoadCredentials ==
  /\ Boot
  /\ UNCHANGED <<stagedCertificate, stagedKey, answer>>

(* Power loss or reset: the staging buffers are in RAM. *)
PowerLoss ==
  /\ Crash
  /\ UNCHANGED misread
  /\ ClearStaging
  /\ answer' = "none"

CredentialNext ==
  \/ LoadCredentials
  \/ \E c \in Certificate : StageCertificate(c)
  \/ \E k \in Key : StagePrivateKey(k)
  \/ CommitStep
  \/ PowerLoss

CredentialSpec == CredentialInit /\ [][CredentialNext]_credentialVars

-----------------------------------------------------------------------------
Matches(content) == content = Default \/ <<content.certificate, content.key>> \in Pairs

(* The certificate and the key that TlsServerCredentials_GetCertificate and *)
(* _GetPrivateKey hand out belong together, and so does every pair that a   *)
(* start-up could find in flash, also after a read or a save that failed.   *)
PairsMatch ==
  /\ Matches(snapshot.content)
  /\ \A b \in Bank : flash[b].kind = "current" => Matches(flash[b].content)

(* Between two uploads at most one half is staged, and it is one that the   *)
(* half in service does not complete: no upload that could have gone into   *)
(* service waits, and no half of a refused or failed replacement is left    *)
(* over to be paired with a later upload.                                   *)
StagedHalfWaits ==
  phase = "ready" =>
    /\ stagedCertificate = None \/ stagedKey = None
    /\ HasValidSnapshot /\ (stagedCertificate # None \/ stagedKey # None) =>
         ~Paired(stagedCertificate, stagedKey)

(* The credential is an A/B snapshot store: staging adds no step that the   *)
(* store does not allow, so what is shown of the store holds here.          *)
ImplementsStore == Spec
=============================================================================
