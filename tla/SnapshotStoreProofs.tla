------------------------- MODULE SnapshotStoreProofs -------------------------
(***************************************************************************)
(* Proofs about the A/B snapshot protocol for every set of contents, every  *)
(* migration and both start-up policies, with readable flash at start-up.   *)
(***************************************************************************)
EXTENDS SnapshotStore, TLAPS

(* Save is under way, and how far it has come decides what the inactive     *)
(* sector can hold.                                                         *)
TargetInv ==
  /\ phase = "program" => flash[Target] \in {Erased, Torn}
  /\ phase = "verify" => flash[Target] \in {Written(candidate), Torn}
  /\ caller = "none" <=> phase \in {"off", "ready", "halted"}

(* The sector in use backs the snapshot clients see, unless nothing was     *)
(* ever saved.                                                              *)
Backed ==
  \/ flash[activeAddress] = Written(snapshot)
  \/ /\ snapshot = [generation |-> 0, content |-> Default]
     /\ flash[activeAddress].kind # "current"
     /\ \A b \in Bank : flash[b].kind # "legacy"

(* The inactive sector loses against the active one at the next start-up.   *)
Behind ==
  flash[Target].kind = "current" =>
    /\ flash[activeAddress].kind = "current"
    /\ IF activeAddress = "A"
       THEN flash["B"].generation <= flash["A"].generation
       ELSE flash["A"].generation < flash["B"].generation

(* It holds a snapshot that was being saved when the save failed. *)
Ahead ==
  flash[Target].kind = "current" /\ flash[Target].generation = snapshot.generation + 1

ClientInv ==
  Serving =>
    /\ Backed
    /\ Behind \/ Ahead
    /\ phase = "ready" /\ status # "error" => Behind
    /\ caller = "client" => candidate.generation = snapshot.generation + 1

(* A save made by start-up writes what start-up found. *)
StartupPair ==
  /\ snapshot = candidate
  /\ flash[activeAddress].kind # "current"
  /\ flash[Target].kind = "current" => flash[Target] = Written(candidate)
  /\ IF flash[activeAddress].kind = "legacy"
     THEN /\ candidate.content = Migrated[flash[activeAddress].content]
          /\ flash[Target].kind = "legacy" =>
               IF activeAddress = "A"
               THEN flash["B"].generation <= flash["A"].generation
               ELSE flash["A"].generation < flash["B"].generation
     ELSE candidate.content = Default /\ flash[Target].kind # "legacy"

StartupInv == caller = "init" => StartupPair

IInv == SnapshotTypes /\ TargetInv /\ ClientInv /\ StartupInv

-----------------------------------------------------------------------------
(* Writing an image into the inactive sector leaves the active one alone.   *)
LEMMA TargetFacts ==
  ASSUME SnapshotTypes
  PROVE  /\ Target \in Bank
         /\ Target # activeAddress
         /\ \A b \in Bank : b = activeAddress \/ b = Target
  BY DEF SnapshotTypes, Target, Other, Bank

(* The images flash operations leave behind are images. *)
LEMMA ImageFacts ==
  /\ Erased \in Image
  /\ Torn \in Image
  /\ \A s \in Snapshot : Written(s) \in Image
  BY StoreAssumption DEF Erased, Torn, Written, Image, Snapshot

LEMMA InitIInv == Init => IInv
  <1> SUFFICES ASSUME Init PROVE IInv
    OBVIOUS
  <1>1. flash \in [Bank -> Image]
    <2>1. CASE flash = [b \in Bank |-> Erased]
      BY <2>1, ImageFacts
    <2>2. CASE flash # [b \in Bank |-> Erased]
      <3>1. PICK g \in 1 .. (MaxGeneration - 1), b \in Bank, old \in LegacyContent,
                 older \in LegacyContent :
              \E rest \in {Erased, Torn, LegacyImage(g - 1, older)} :
                flash = [c \in Bank |-> IF c = b THEN LegacyImage(g, old) ELSE rest]
        BY <2>2 DEF Init
      <3>2. LegacyImage(g, old) \in Image /\ LegacyImage(g - 1, older) \in Image
        BY StoreAssumption DEF LegacyImage, Image
      <3>3. QED
        BY <3>1, <3>2, ImageFacts
    <2>3. QED
      BY <2>1, <2>2
  <1>2. \A b \in Bank :
          /\ flash[b].kind # "current"
          /\ flash[b].kind = "legacy" => flash[b].content \in LegacyContent
    BY DEF Init, Erased, Torn, LegacyImage
  <1>3. SnapshotTypes
    BY <1>1, <1>2, StoreAssumption DEF Init, SnapshotTypes, Snapshot, Bank
  <1>4. QED
    BY <1>3 DEF Init, IInv, TargetInv, ClientInv, StartupInv, Serving

(* Start-up from a valid snapshot. *)
LEMMA LoadIInv ==
  ASSUME IInv, InitLoad({})
  PROVE  IInv'
  <1> DEFINE b == Chosen("current", {})
  <1>1. /\ b \in Bank
        /\ flash[b].kind = "current"
        /\ flash[b] \in Image /\ flash[b].content \in Content
    BY DEF InitLoad, Chosen, IsValid, IInv, SnapshotTypes, Bank
  <1>2. SnapshotTypes'
    BY <1>1 DEF InitLoad, IInv, SnapshotTypes, Snapshot, Image
  <1>3. flash[b] = Written([generation |-> flash[b].generation,
                            content |-> flash[b].content])
    BY <1>1 DEF Written, Image
  <1>4. Backed'
    BY <1>1, <1>3 DEF InitLoad, Backed, Written
  <1>5. flash["A"].generation \in Nat /\ flash["B"].generation \in Nat
    BY DEF IInv, SnapshotTypes, Image, Bank
  <1>6. Behind'
    BY <1>1, <1>5 DEF InitLoad, Behind, Target, Other, Chosen, IsValid, Bank
  <1>7. QED
    BY <1>2, <1>4, <1>6
    DEF InitLoad, IInv, TargetInv, ClientInv, StartupInv, Serving

(* Start-up from a snapshot of the previous format. *)
LEMMA MigrateIInv ==
  ASSUME IInv, InitMigrate({}, {})
  PROVE  IInv'
  <1> DEFINE b == Chosen("legacy", {})
  <1>1. /\ b \in Bank
        /\ flash[b].kind = "legacy"
        /\ flash[b] \in Image /\ flash[b].content \in LegacyContent
    BY DEF InitMigrate, Chosen, IsValid, IInv, SnapshotTypes, Bank
  <1>2. \A c \in Bank : flash[c].kind # "current"
    BY DEF InitMigrate, Chosen, IsValid, Bank
  <1>3. candidate' \in Snapshot
    BY <1>1, StoreAssumption DEF InitMigrate, BeginSave, Snapshot, Image
  <1>4. SnapshotTypes'
    BY <1>1, <1>3 DEF InitMigrate, BeginSave, IInv, SnapshotTypes
  <1>5. flash["A"].generation \in Nat /\ flash["B"].generation \in Nat
    BY DEF IInv, SnapshotTypes, Image, Bank
  <1>6. StartupInv'
    BY <1>1, <1>2, <1>5
    DEF InitMigrate, BeginSave, StartupInv, StartupPair, Target, Other, Chosen, IsValid, Bank
  <1>7. QED
    BY <1>4, <1>6
    DEF InitMigrate, BeginSave, IInv, TargetInv, ClientInv, Serving

(* Start-up with nothing to load. *)
LEMMA DefaultIInv ==
  ASSUME IInv, InitDefault({}, {})
  PROVE  IInv'
  <1>1. \A c \in Bank : flash[c].kind # "current" /\ flash[c].kind # "legacy"
    BY DEF InitDefault, Chosen, IsValid, Bank
  <1>2. snapshot' \in Snapshot /\ candidate' \in Snapshot
    <2>1. [generation |-> 0, content |-> Default] \in Snapshot
      BY StoreAssumption DEF Snapshot
    <2>2. [generation |-> 0 + 1, content |-> Default] \in Snapshot
      BY StoreAssumption DEF Snapshot
    <2>3. \/ candidate' = [generation |-> 0 + 1, content |-> Default]
             /\ snapshot' = candidate'
          \/ snapshot' = [generation |-> 0, content |-> Default] /\ candidate' = candidate
      BY DEF InitDefault, BeginSave
    <2>4. QED
      BY <2>1, <2>2, <2>3 DEF IInv, SnapshotTypes
  <1>3. SnapshotTypes'
    BY <1>2 DEF InitDefault, BeginSave, IInv, SnapshotTypes, Bank
  <1>4. StartupInv'
    BY <1>1
    DEF InitDefault, BeginSave, StartupInv, StartupPair, Target, Other, Bank, IInv, TargetInv
  <1>5. ClientInv'
    BY <1>1
    DEF InitDefault, BeginSave, ClientInv, Serving, Backed, Behind, Target, Other,
        Bank, IInv, TargetInv
  <1>6. QED
    BY <1>3, <1>4, <1>5 DEF InitDefault, BeginSave, IInv, TargetInv

LEMMA StartSaveIInv ==
  ASSUME IInv, NEW c \in Content, StartSave(c)
  PROVE  IInv'
  <1>1. SnapshotTypes'
    BY DEF StartSave, BeginSave, IInv, SnapshotTypes, Snapshot
  <1>2. ClientInv'
    BY DEF StartSave, BeginSave, IInv, ClientInv, Serving, Backed, Behind, Ahead,
           Target
  <1>3. QED
    BY <1>1, <1>2 DEF StartSave, BeginSave, IInv, TargetInv, StartupInv

(* A save step replaces the inactive sector by something that is neither a  *)
(* snapshot nor a legacy image, by the candidate, or by what was there.     *)
LEMMA SetTargetFacts ==
  ASSUME IInv, NEW image \in Image, SetTarget(image)
  PROVE  /\ flash' \in [Bank -> Image]
         /\ flash'[Target] = image
         /\ flash'[activeAddress] = flash[activeAddress]
  BY TargetFacts DEF SetTarget, IInv, SnapshotTypes

LEMMA SaveStepTypes ==
  ASSUME IInv, NEW image \in {Erased, Torn, Written(candidate), flash[Target]},
         SetTarget(image)
  PROVE  /\ flash' \in [Bank -> Image]
         /\ \A b \in Bank :
              /\ flash'[b].kind = "current" => flash'[b].content \in Content
              /\ flash'[b].kind = "legacy" => flash'[b].content \in LegacyContent
  <1>1. image \in Image
    BY ImageFacts, TargetFacts DEF IInv, SnapshotTypes
  <1>2. /\ image.kind = "current" => image.content \in Content
        /\ image.kind = "legacy" => image.content \in LegacyContent
    BY TargetFacts DEF IInv, SnapshotTypes, Erased, Torn, Written, Snapshot
  <1>3. \A b \in Bank : b = activeAddress \/ b = Target
    BY TargetFacts DEF IInv
  <1>4. QED
    BY <1>1, <1>2, <1>3, SetTargetFacts DEF IInv, SnapshotTypes

(* A save that gives up leaves a sector pair from which the old snapshot    *)
(* still wins, or the refused candidate does.                               *)
LEMMA SaveFailedIInv ==
  ASSUME IInv, SaveFailed,
         phase \in {"erase", "program", "verify"},
         NEW image \in {Erased, Torn, Written(candidate), flash[Target]},
         SetTarget(image)
  PROVE  IInv'
  <1>1. /\ flash' \in [Bank -> Image]
        /\ flash'[Target] = image
        /\ flash'[activeAddress] = flash[activeAddress]
    BY SetTargetFacts, ImageFacts, TargetFacts DEF IInv, SnapshotTypes
  <1>2. SnapshotTypes'
    BY SaveStepTypes DEF SaveFailed, IInv, SnapshotTypes
  <1>3. TargetInv'
    BY DEF SaveFailed, IInv, SnapshotTypes, TargetInv
  <1>4. ClientInv'
    <2> SUFFICES ASSUME Serving' PROVE ClientInv'
      BY DEF ClientInv
    <2>1. caller = "client" /\ Serving
      BY DEF SaveFailed, Serving, IInv, TargetInv, SnapshotTypes
    <2>2. Target' = Target /\ activeAddress' = activeAddress /\ snapshot' = snapshot
      BY DEF SaveFailed, Target
    <2>3. Backed'
      BY <1>1, <2>1, <2>2, TargetFacts
      DEF IInv, ClientInv, Backed, Written, Erased, Torn, Bank
    <2>4. Behind' \/ Ahead'
      BY <1>1, <2>1, <2>2
      DEF IInv, ClientInv, Behind, Ahead, Written, Erased, Torn, Target, Other, SnapshotTypes,
          Bank
    <2>5. QED
      BY <2>3, <2>4 DEF SaveFailed, ClientInv
  <1>5. StartupInv'
    BY DEF SaveFailed, StartupInv
  <1>6. QED
    BY <1>2, <1>3, <1>4, <1>5 DEF IInv

(* A save that goes on to its next flash operation. *)
LEMMA SaveContinuesIInv ==
  ASSUME IInv,
         NEW image \in {Erased, Torn, Written(candidate)}, SetTarget(image),
         \/ /\ phase = "erase" /\ phase' = "program" /\ image \in {Erased, Torn}
         \/ /\ phase = "program" /\ phase' = "verify"
            /\ image \in {Written(candidate), Torn},
         UNCHANGED <<activeAddress, snapshot, candidate, caller, status>>
  PROVE  IInv'
  <1>1. /\ flash' \in [Bank -> Image]
        /\ flash'[Target] = image
        /\ flash'[activeAddress] = flash[activeAddress]
    BY SetTargetFacts, ImageFacts DEF IInv, SnapshotTypes
  <1>2. SnapshotTypes'
    BY SaveStepTypes DEF IInv, SnapshotTypes
  <1>3. Target' = Target
    BY DEF Target
  <1>4. TargetInv'
    BY <1>1, <1>3 DEF IInv, TargetInv, Written
  <1>5. ClientInv'
    <2> SUFFICES ASSUME Serving' PROVE ClientInv'
      BY DEF ClientInv
    <2>1. caller = "client" /\ Serving
      BY DEF Serving
    <2>2. Backed'
      BY <1>1, <1>3, <2>1, TargetFacts
      DEF IInv, ClientInv, Backed, Written, Erased, Torn, Bank
    <2>3. Behind' \/ Ahead'
      BY <1>1, <1>3, <2>1
      DEF IInv, ClientInv, Behind, Ahead, Written, Erased, Torn, Target, Other, SnapshotTypes,
          Bank
    <2>4. QED
      BY <2>1, <2>2, <2>3 DEF ClientInv, IInv
  <1>6. StartupInv'
    BY <1>1, <1>3 DEF IInv, StartupInv, StartupPair, Written, Erased, Torn, Target, Other, SnapshotTypes, Bank
  <1>7. QED
    BY <1>2, <1>4, <1>5, <1>6 DEF IInv

(* The read-back succeeds and the candidate becomes the active snapshot. *)
LEMMA CommitIInv ==
  ASSUME IInv, VerifyTarget, UNCHANGED flash, status' = "ok", activeAddress' = Target,
         snapshot' = candidate, phase' = "ready", caller' = "none",
         flash[Target].kind = "current", UNCHANGED candidate
  PROVE  IInv'
  <1>1. phase = "verify" /\ flash[Target] = Written(candidate)
    BY DEF VerifyTarget, IInv, TargetInv, Torn
  <1>2. SnapshotTypes'
    BY TargetFacts DEF IInv, SnapshotTypes
  <1>3. Backed'
    BY <1>1 DEF Backed, Written
  <1>4. caller \in {"init", "client"}
    BY <1>1 DEF IInv, SnapshotTypes, TargetInv
  <1>5. Behind'
    <2>1. CASE caller = "init"
      BY <1>1, <2>1 DEF IInv, StartupInv, StartupPair, Behind, Target, Other, SnapshotTypes, Bank
    <2>2. CASE caller = "client"
      <3>1. /\ Backed
            /\ candidate.generation = snapshot.generation + 1
            /\ snapshot.generation \in Nat
        BY <2>2 DEF IInv, ClientInv, Serving, SnapshotTypes, Snapshot
      <3>2. flash[activeAddress].kind = "current" =>
              flash[activeAddress].generation < flash[Target].generation
        BY <1>1, <3>1 DEF Backed, Written
      <3>3. flash["A"].generation \in Nat /\ flash["B"].generation \in Nat
        BY DEF IInv, SnapshotTypes, Image, Bank
      <3>4. QED
        BY <3>2, <3>3 DEF Behind, Target, Other, IInv, SnapshotTypes, Bank
    <2>3. QED
      BY <1>4, <2>1, <2>2
  <1>6. QED
    BY <1>2, <1>3, <1>5 DEF IInv, TargetInv, ClientInv, StartupInv, Serving

LEMMA SaveStepIInv ==
  ASSUME IInv, SaveStep
  PROVE  IInv'
  <1>1. CASE EraseTarget
    <2>1. CASE SaveFailed
      BY <1>1, <2>1, SaveFailedIInv DEF EraseTarget
    <2>2. CASE phase' = "program"
      BY <1>1, <2>2, SaveContinuesIInv DEF EraseTarget, SaveFailed
    <2>3. QED
      BY <1>1, <2>1, <2>2 DEF EraseTarget
  <1>2. CASE ProgramTarget
    <2>1. ProgramResults \subseteq {Written(candidate), Torn}
      BY DEF ProgramResults
    <2>2. CASE SaveFailed
      BY <1>2, <2>1, <2>2, SaveFailedIInv DEF ProgramTarget
    <2>3. CASE phase' = "verify"
      BY <1>2, <2>1, <2>3, SaveContinuesIInv DEF ProgramTarget, SaveFailed
    <2>4. QED
      BY <1>2, <2>2, <2>3 DEF ProgramTarget
  <1>3. CASE VerifyTarget
    <2>1. CASE SaveFailed /\ UNCHANGED flash
      <3>1. SetTarget(flash[Target])
        BY <2>1, TargetFacts DEF SetTarget, IInv, SnapshotTypes
      <3>2. QED
        BY <1>3, <2>1, <3>1, SaveFailedIInv DEF VerifyTarget
    <2>2. CASE status' = "ok"
      BY <1>3, <2>2, CommitIInv DEF VerifyTarget, SaveFailed
    <2>3. QED
      BY <1>3, <2>1, <2>2 DEF VerifyTarget
  <1>4. QED
    BY <1>1, <1>2, <1>3 DEF SaveStep

(* A start-up without a failing read. *)
LEMMA ReadableBoot ==
  ASSUME Boot, ~misread'
  PROVE  InitLoad({}) \/ InitMigrate({}, {}) \/ InitDefault({}, {})
  <1>1. PICK u, l \in SUBSET Bank :
          /\ InitLoad(u) \/ InitMigrate(u, l) \/ InitDefault(u, l)
          /\ misread' = (misread \/ u \cup l # {})
    BY Zenon DEF Boot
  <1>2. u \cup l = {}
    BY <1>1
  <1>3. u = {} /\ l = {}
    BY <1>2
  <1>4. QED
    BY <1>1, <1>3

(* A step that is followed by no misread flag was preceded by none. *)
LEMMA MisreadStays ==
  ASSUME [Next]_storeVars, ~misread'
  PROVE  ~misread
  <1>1. CASE Boot
    BY <1>1 DEF Boot
  <1>2. CASE UNCHANGED misread
    BY <1>2
  <1>3. QED
    BY <1>1, <1>2 DEF Next, storeVars

(* The invariant is inductive as long as start-up can read the flash. *)
LEMMA NextIInv ==
  ASSUME IInv, [Next]_storeVars, ~misread'
  PROVE  IInv'
  <1>1. CASE Boot
    BY <1>1, ReadableBoot, LoadIInv, MigrateIInv, DefaultIInv
  <1>2. CASE \E c \in Content : StartSave(c)
    BY <1>2, StartSaveIInv
  <1>3. CASE SaveStep
    BY <1>3, SaveStepIInv
  <1>4. CASE Crash
    BY <1>4 DEF Crash, IInv, SnapshotTypes, TargetInv, ClientInv, StartupInv, Serving, Target
  <1>5. CASE UNCHANGED storeVars
    BY <1>5 DEF storeVars, IInv, SnapshotTypes, TargetInv, ClientInv, StartupInv, StartupPair, Serving,
                Target, Backed, Behind, Ahead
  <1>6. QED
    BY <1>1, <1>2, <1>3, <1>4, <1>5 DEF Next

Promise == misread \in BOOLEAN /\ (~misread => IInv)

THEOREM StoreInvariant == Spec => []Promise
  <1>1. Init => Promise
    BY InitIInv DEF Promise, Init
  <1>2. Promise /\ [Next]_storeVars => Promise'
    <2> SUFFICES ASSUME Promise, [Next]_storeVars
                 PROVE  Promise'
      OBVIOUS
    <2>1. misread' \in BOOLEAN
      BY DEF Promise, Next, Boot, storeVars
    <2>2. QED
      BY <2>1, NextIInv, MisreadStays DEF Promise
  <1>3. QED
    BY <1>1, <1>2, PTL DEF Spec

-----------------------------------------------------------------------------
(* What start-up would show, in terms of the sector pair. *)
LEMMA RecoveredIsContent ==
  ASSUME SnapshotTypes
  PROVE  Recovered \in Content
  BY StoreAssumption DEF SnapshotTypes, Recovered, Chosen, IsValid, Bank

LEMMA RecoveredBehind ==
  ASSUME IInv, Serving, Behind
  PROVE  /\ Recovered = snapshot.content
         /\ RecoveredGeneration = snapshot.generation
  <1>1. flash["A"].generation \in Nat /\ flash["B"].generation \in Nat
    BY DEF IInv, SnapshotTypes, Image, Bank
  <1>2. Backed /\ activeAddress \in Bank
    BY DEF IInv, ClientInv, SnapshotTypes
  <1>3. CASE flash[activeAddress] = Written(snapshot)
    <2>1. Chosen("current", {}) = activeAddress
      BY <1>1, <1>2, <1>3
      DEF Behind, Chosen, IsValid, Target, Other, Written, Bank
    <2>2. QED
      BY <1>2, <1>3, <2>1 DEF Recovered, RecoveredGeneration, Written, Bank
  <1>4. CASE flash[activeAddress] # Written(snapshot)
    <2>1. /\ snapshot = [generation |-> 0, content |-> Default]
          /\ \A b \in Bank : flash[b].kind # "legacy" /\ flash[b].kind # "current"
      BY <1>2, <1>4 DEF Backed, Behind, Target, Other, Bank
    <2>2. QED
      BY <2>1 DEF Recovered, RecoveredGeneration, Chosen, IsValid, Bank
  <1>5. QED
    BY <1>3, <1>4

LEMMA RecoveredAhead ==
  ASSUME IInv, Serving, Ahead
  PROVE  /\ Recovered = flash[Target].content
         /\ RecoveredGeneration = snapshot.generation + 1
  <1>1. /\ flash["A"].generation \in Nat /\ flash["B"].generation \in Nat
        /\ snapshot.generation \in Nat
    BY DEF IInv, SnapshotTypes, Image, Bank, Snapshot
  <1>2. Backed /\ activeAddress \in Bank
    BY DEF IInv, ClientInv, SnapshotTypes
  <1>3. Chosen("current", {}) = Target
    BY <1>1, <1>2 DEF Backed, Ahead, Chosen, IsValid, Target, Other, Written, Bank
  <1>4. QED
    BY <1>2, <1>3 DEF Recovered, RecoveredGeneration, Ahead, Target, Other, Bank

LEMMA RecoveredStartup ==
  ASSUME SnapshotTypes, StartupPair
  PROVE  Recovered = candidate.content
  <1>1. /\ flash["A"].generation \in Nat /\ flash["B"].generation \in Nat
        /\ activeAddress \in Bank
    BY DEF SnapshotTypes, Image, Bank
  <1>2. CASE flash[Target].kind = "current"
    <2>1. Chosen("current", {}) = Target
      BY <1>1, <1>2 DEF StartupPair, Chosen, IsValid, Target, Other, Bank
    <2>2. QED
      BY <1>1, <1>2, <2>1 DEF StartupPair, Recovered, Written, Target, Other, Bank
  <1>3. CASE flash[Target].kind # "current"
    <2>1. Chosen("current", {}) = "none"
      BY <1>1, <1>3 DEF StartupPair, Chosen, IsValid, Target, Other, Bank
    <2>2. CASE flash[activeAddress].kind = "legacy"
      <3>1. Chosen("legacy", {}) = activeAddress
        BY <1>1, <2>2 DEF StartupPair, Chosen, IsValid, Target, Other, Bank
      <3>2. QED
        BY <1>1, <2>1, <2>2, <3>1 DEF StartupPair, Recovered, Bank
    <2>3. CASE flash[activeAddress].kind # "legacy"
      <3>1. Chosen("legacy", {}) = "none"
        BY <1>1, <2>3 DEF StartupPair, Chosen, IsValid, Target, Other, Bank
      <3>2. QED
        BY <2>1, <2>3, <3>1 DEF StartupPair, Recovered
    <2>4. QED
      BY <2>2, <2>3
  <1>4. QED
    BY <1>2, <1>3

(* The store's type invariant, for every value of the constants. *)
THEOREM StoreTypes == Spec => [](~misread => TypeOK)
  <1>1. Promise => (~misread => TypeOK)
    BY DEF Promise, IInv, TypeOK
  <1>2. QED
    BY <1>1, StoreInvariant, PTL

(* A save that returned OK is what a power-up shows. *)
THEOREM Durability == Spec => []AcknowledgedIsDurable
  <1>1. Promise => AcknowledgedIsDurable
    BY RecoveredBehind DEF Promise, AcknowledgedIsDurable, IInv, ClientInv, Serving
  <1>2. QED
    BY <1>1, StoreInvariant, PTL

(* A power-up never falls behind the snapshot being served. *)
THEOREM RollbackFreedom == Spec => []NoRollback
  <1>1. Promise => NoRollback
    <2> SUFFICES ASSUME IInv, Serving
                 PROVE  RecoveredGeneration >= snapshot.generation
      BY DEF Promise, NoRollback
    <2>1. snapshot.generation \in Nat
      BY DEF IInv, SnapshotTypes, Snapshot
    <2>2. CASE Behind
      BY <2>1, <2>2, RecoveredBehind
    <2>3. CASE Ahead
      BY <2>1, <2>3, RecoveredAhead
    <2>4. QED
      BY <2>2, <2>3 DEF IInv, ClientInv
  <1>2. QED
    BY <1>1, StoreInvariant, PTL

(* Start-up shows the newest valid snapshot. *)
THEOREM NewestIsServed == Spec => []BootServesNewest
  <1>1. Promise => BootServesNewest
    BY RecoveredBehind DEF Promise, BootServesNewest, IInv, ClientInv, Serving
  <1>2. QED
    BY <1>1, StoreInvariant, PTL

-----------------------------------------------------------------------------
(* The refinement: initial states map to initial states, and every step of  *)
(* the store is a step of the register or leaves it unchanged.              *)
LEMMA RegisterInitial ==
  ASSUME Init
  PROVE  Register!RegisterInit
  <1>1. SnapshotTypes
    BY InitIInv DEF IInv
  <1>2. QED
    BY <1>1, RecoveredIsContent DEF Init, Register!RegisterInit, Serving

LEMMA RecoveredUnchanged ==
  ASSUME UNCHANGED flash
  PROVE  Recovered' = Recovered
  BY DEF Recovered, Chosen, IsValid

LEMMA BootRefines ==
  ASSUME IInv, InitLoad({}) \/ InitMigrate({}, {}) \/ InitDefault({}, {})
  PROVE  Register!Recover \/ UNCHANGED Register!registerVars
  <1>1. Recovered' = Recovered /\ phase = "off" /\ caller = "none" /\ ~Serving
    BY RecoveredUnchanged
    DEF InitLoad, InitMigrate, InitDefault, IInv, TargetInv, Serving
  <1>2. CASE phase' = "ready"
    <2>1. snapshot'.content = Recovered /\ caller' = "none" /\ Serving'
      <3>1. CASE InitLoad({})
        BY <1>1, <1>2, <3>1 DEF InitLoad, Recovered, Serving
      <3>2. ~InitMigrate({}, {})
        BY <1>2 DEF InitMigrate, BeginSave
      <3>3. CASE InitDefault({}, {})
        <4>1. /\ Chosen("current", {}) = "none"
              /\ Chosen("legacy", {}) = "none"
              /\ snapshot' = [generation |-> 0, content |-> Default]
              /\ caller' = caller
          BY <1>2, <3>3 DEF InitDefault, BeginSave
        <4>2. Recovered = Default
          BY <4>1 DEF Recovered
        <4>3. QED
          BY <1>1, <1>2, <4>1, <4>2 DEF Serving
      <3>4. QED
        BY <3>1, <3>2, <3>3
    <2>2. QED
      BY <1>1, <2>1 DEF Register!Recover
  <1>3. CASE phase' # "ready"
    <2>1. caller' = "init" /\ ~Serving'
      BY <1>3 DEF InitLoad, InitMigrate, InitDefault, BeginSave, Serving
    <2>2. QED
      BY <1>1, <2>1 DEF Register!registerVars
  <1>4. QED
    BY <1>2, <1>3

LEMMA StartSaveRefines ==
  ASSUME IInv, NEW c \in Content, StartSave(c)
  PROVE  Register!Offer(c)
  <1>1. Recovered' = Recovered
    BY RecoveredUnchanged DEF StartSave
  <1>2. /\ Serving /\ Serving' /\ caller = "none" /\ caller' = "client"
        /\ candidate'.content = c
        /\ snapshot' = snapshot
        /\ snapshot.content \in Content
    BY DEF StartSave, BeginSave, Serving, IInv, TargetInv, SnapshotTypes, Snapshot
  <1>3. QED
    BY <1>1, <1>2, StoreAssumption DEF Register!Offer

LEMMA BehindShowsSnapshot ==
  IInv /\ Serving /\ Behind => Recovered = snapshot.content
  BY RecoveredBehind

LEMMA AheadShowsTarget ==
  IInv /\ Serving /\ Ahead => Recovered = flash[Target].content
  BY RecoveredAhead

LEMMA StartupShowsCandidate ==
  SnapshotTypes /\ StartupPair => Recovered = candidate.content
  BY RecoveredStartup

(* During a client's save the sector pair shows the old or the new content. *)
LEMMA ClientSaveRecovers ==
  ASSUME IInv, IInv', caller = "client", Serving',
         UNCHANGED <<snapshot, candidate, activeAddress>>,
         NEW image \in {Erased, Torn, Written(candidate), flash[Target]},
         SetTarget(image)
  PROVE  Recovered' \in {Recovered, snapshot.content, candidate.content}
  <1>1. flash'[Target] = image /\ Target' = Target
    BY SetTargetFacts, ImageFacts, TargetFacts DEF IInv, SnapshotTypes, Target
  <1>2. CASE image = flash[Target]
    <2>1. flash' = flash
      BY <1>2, TargetFacts DEF SetTarget, IInv, SnapshotTypes
    <2>2. QED
      BY <2>1, RecoveredUnchanged
  <1>3. CASE image # flash[Target]
    <2>1. Behind' => (Recovered = snapshot.content)'
      BY BehindShowsSnapshot, PTL
    <2>2. Ahead' => (Recovered = flash[Target].content)'
      BY AheadShowsTarget, PTL
    <2>3. Ahead' => image = Written(candidate)
      BY <1>1, <1>3 DEF Ahead, Erased, Torn
    <2>4. Behind' \/ Ahead'
      BY DEF IInv, ClientInv
    <2>5. QED
      BY <1>1, <2>1, <2>2, <2>3, <2>4 DEF Written
  <1>4. QED
    BY <1>2, <1>3

(* During a save made by start-up it shows what start-up found. *)
LEMMA StartupSaveRecovers ==
  ASSUME IInv, IInv', caller = "init",
         UNCHANGED <<snapshot, candidate, activeAddress>>,
         NEW image \in {Erased, Torn, Written(candidate), flash[Target]},
         SetTarget(image)
  PROVE  Recovered' = Recovered
  <1>1. /\ flash'[Target] = image /\ Target' = Target
        /\ flash'[activeAddress] = flash[activeAddress]
    BY SetTargetFacts, ImageFacts, TargetFacts DEF IInv, SnapshotTypes, Target
  <1>2. StartupPair'
    BY <1>1
    DEF IInv, StartupInv, StartupPair, Written, Erased, Torn, Target, Other, SnapshotTypes, Bank
  <1>3. (Recovered = candidate.content)'
    BY <1>2, StartupShowsCandidate, PTL DEF IInv
  <1>4. Recovered = candidate.content
    BY StartupShowsCandidate DEF IInv, StartupInv
  <1>5. QED
    BY <1>3, <1>4

LEMMA SaveStepRefines ==
  ASSUME IInv, IInv', SaveStep
  PROVE  \/ Register!Settle \/ Register!Accept \/ Register!Reject \/ Register!Recover
         \/ UNCHANGED Register!registerVars
  <1>1. phase \in {"erase", "program", "verify"} /\ caller \in {"init", "client"}
    BY DEF SaveStep, EraseTarget, ProgramTarget, VerifyTarget, IInv, TargetInv, SnapshotTypes
  <1>2. snapshot.content \in Content /\ candidate.content \in Content
    BY DEF IInv, SnapshotTypes, Snapshot
  <1>3. CASE VerifyTarget /\ status' = "ok" /\ phase' = "ready"
    <2>1. /\ flash' = flash /\ snapshot' = candidate /\ candidate' = candidate
          /\ caller' = "none" /\ Serving'
          /\ flash[Target] = Written(candidate)
      BY <1>3 DEF VerifyTarget, SaveFailed, Serving, IInv, TargetInv, Torn
    <2>2. Recovered' = Recovered
      BY <2>1, RecoveredUnchanged
    <2>3. Recovered = candidate.content
      <3>1. CASE caller = "init"
        BY <3>1, StartupShowsCandidate DEF IInv, StartupInv
      <3>2. CASE caller = "client"
        <4>1. Ahead /\ Serving
          BY <2>1, <3>2 DEF Ahead, Serving, Written, IInv, ClientInv
        <4>2. QED
          BY <2>1, <4>1, AheadShowsTarget DEF Written
      <3>3. QED
        BY <1>1, <3>1, <3>2
    <2>4. CASE caller = "init"
      <3>1. ~Serving
        BY <1>1, <2>4 DEF Serving
      <3>2. QED
        BY <2>1, <2>2, <2>3, <2>4, <3>1 DEF Register!Recover
    <2>5. CASE caller = "client"
      BY <1>2, <2>1, <2>2, <2>3, <2>5, StoreAssumption DEF Register!Accept, Serving
    <2>6. QED
      BY <1>1, <2>4, <2>5
  <1>4. CASE ~(VerifyTarget /\ status' = "ok" /\ phase' = "ready")
    <2>1. /\ UNCHANGED <<snapshot, candidate, activeAddress>>
          /\ \/ caller' = caller /\ phase' \in {"program", "verify"}
             \/ caller' = "none" /\ phase' = IF caller = "init" THEN "halted" ELSE "ready"
      BY <1>4 DEF SaveStep, EraseTarget, ProgramTarget, VerifyTarget, SaveFailed
    <2>2. PICK image \in {Erased, Torn, Written(candidate), flash[Target]} :
            SetTarget(image)
      <3>1. CASE EraseTarget
        BY <3>1 DEF EraseTarget
      <3>2. CASE ProgramTarget
        BY <3>2 DEF ProgramTarget, ProgramResults
      <3>3. CASE VerifyTarget
        <4>1. flash' = flash
          BY <3>3 DEF VerifyTarget
        <4>2. SetTarget(flash[Target])
          BY <4>1, TargetFacts DEF SetTarget, IInv, SnapshotTypes
        <4>3. QED
          BY <4>2
      <3>4. QED
        BY <3>1, <3>2, <3>3 DEF SaveStep
    <2>3. CASE caller = "init"
      <3>1. Recovered' = Recovered
        BY <2>1, <2>2, <2>3, StartupSaveRecovers
      <3>2. ~Serving /\ ~Serving' /\ caller' # "client"
        BY <1>1, <2>1, <2>3 DEF Serving
      <3>3. QED
        BY <2>3, <3>1, <3>2 DEF Register!registerVars
    <2>4. CASE caller = "client"
      <3>1. Serving /\ Serving'
        BY <2>1, <2>4 DEF Serving
      <3>2. Recovered' \in {Recovered, snapshot.content, candidate.content}
        BY <2>1, <2>2, <2>4, <3>1, ClientSaveRecovers
      <3>3. CASE caller' = caller
        BY <1>2, <2>1, <2>4, <3>1, <3>2, <3>3, StoreAssumption DEF Register!Settle
      <3>4. CASE caller' = "none"
        BY <1>2, <2>1, <2>4, <3>1, <3>2, <3>4, StoreAssumption DEF Register!Reject
      <3>5. QED
        BY <2>1, <3>3, <3>4
    <2>5. QED
      BY <1>1, <2>3, <2>4
  <1>5. QED
    BY <1>3, <1>4

(* Whatever the flash operations return and wherever power fails, the store *)
(* implements a durable register.                                           *)
THEOREM RegisterRefinement == Spec => ImplementsRegister
  <1>1. Init => Register!RegisterInit
    BY RegisterInitial
  <1>2. Promise /\ Promise' /\ [Next]_storeVars
          => [Register!RegisterNext \/ misread']_(Register!registerVars)
    <2> SUFFICES ASSUME IInv, IInv', [Next]_storeVars, ~misread'
                 PROVE  [Register!RegisterNext]_(Register!registerVars)
      BY MisreadStays DEF Promise
    <2>1. CASE Boot
      BY <2>1, ReadableBoot, BootRefines DEF Register!RegisterNext
    <2>2. CASE \E c \in Content : StartSave(c)
      BY <2>2, StartSaveRefines DEF Register!RegisterNext
    <2>3. CASE SaveStep
      BY <2>3, SaveStepRefines DEF Register!RegisterNext
    <2>4. CASE Crash
      <3>1. Recovered' = Recovered
        BY <2>4, RecoveredUnchanged DEF Crash
      <3>2. ~Serving' /\ caller' = "none"
        BY <2>4 DEF Crash, Serving
      <3>3. QED
        BY <3>1, <3>2 DEF Register!RegisterNext, Register!PowerLoss
    <2>5. CASE UNCHANGED storeVars
      <3>1. Recovered' = Recovered
        BY <2>5, RecoveredUnchanged DEF storeVars
      <3>2. QED
        BY <2>5, <3>1 DEF storeVars, Register!registerVars, Serving
    <2>6. QED
      BY <2>1, <2>2, <2>3, <2>4, <2>5 DEF Next
  <1>3. QED
    BY <1>1, <1>2, StoreInvariant, PTL DEF Spec, ImplementsRegister
=============================================================================
