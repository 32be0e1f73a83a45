-------------------------- MODULE TrustAnchorProofs --------------------------
(***************************************************************************)
(* Proofs about trust anchors: the trust store implements a durable         *)
(* register, for every number of slots and all certificates, and, of the    *)
(* three registers together, no reference to an anchor dangles, for every   *)
(* number of slots and resources.                                           *)
(***************************************************************************)
EXTENDS TrustStore, AnchorReferences, TLAPS

-----------------------------------------------------------------------------
(* The trust store. *)
(* A bank holds a valid snapshot of the current format. *)
Current(bank) == IsValid(bank, "current")

(* The inactive bank loses against the active one at the next start-up. *)
Behind ==
  Current(Target) =>
    IF activeAddress = "A"
    THEN At("B").generation <= At("A").generation
    ELSE At("A").generation < At("B").generation

(* It holds a snapshot that was being committed when the commit failed. *)
Ahead == Current(Target) /\ At(Target).generation = At(activeAddress).generation + 1

(* What a migration starts from. *)
OldRecovered ==
  LET old == Newer("oldA", "oldB", "legacy", {})
  IN  IF old # "none" THEN Migrated(At(old).anchors) ELSE BlankAnchors

CallerInv ==
  /\ caller = "none" <=> phase \in {"off", "ready", "halted"}
  /\ offered = IF caller = "client" THEN live.anchors ELSE NoOffer

(* The active bank backs what clients see, and what the other bank holds    *)
(* loses against it or is the candidate of a commit that failed.            *)
ServingInv ==
  Serving =>
    /\ Current(activeAddress)
    /\ At(activeAddress).anchors = acknowledged
    /\ Behind \/ Ahead
    /\ phase = "ready" =>
         live.generation = At(activeAddress).generation /\ live.anchors = acknowledged
    /\ caller = "client" => live.generation = At(activeAddress).generation + 1
    /\ phase = "verify" /\ Current(Target) =>
         At(Target).generation = live.generation /\ At(Target).anchors = live.anchors

(* A commit made by start-up goes to bank A and leaves what it was made     *)
(* from, which another start-up would make the same of.                     *)
StartupInv ==
  caller = "init" =>
    /\ activeAddress = "B"
    /\ ~Current("B")
    /\ OldRecovered = live.anchors
    /\ Current("A") => At("A").anchors = live.anchors

TrustInv ==
  /\ TrustTypeOK
  /\ CallerInv
  /\ ~misread => ServingInv /\ StartupInv

-----------------------------------------------------------------------------
(* The sectors of the banks. *)
LEMMA Places ==
  /\ First["A"] = 1 /\ First["B"] = 4 /\ First["oldA"] = 4 /\ First["oldB"] = 6
  /\ \A s : s \in Place("A") <=> s \in {1, 2, 3}
  /\ \A s : s \in Place("B") <=> s \in {4, 5, 6}
  /\ \A s : s \in Place("oldA") <=> s \in {4, 5}
  /\ \A s : s \in Place("oldB") <=> s \in {6, 7}
  BY DEF First, Last, Place

LEMMA ValidPlaces ==
  ASSUME NEW kind
  PROVE  /\ IsValid("A", kind) <=> flash[1].kind = kind /\ flash[2] = flash[1] /\ flash[3] = flash[1]
         /\ IsValid("B", kind) <=> flash[4].kind = kind /\ flash[5] = flash[4] /\ flash[6] = flash[4]
         /\ IsValid("oldA", kind) <=> flash[4].kind = kind /\ flash[5] = flash[4]
         /\ IsValid("oldB", kind) <=> flash[6].kind = kind /\ flash[7] = flash[6]
         /\ At("A") = flash[1] /\ At("B") = flash[4]
         /\ At("oldA") = flash[4] /\ At("oldB") = flash[6]
  BY Places DEF IsValid, Holds, At

LEMMA ValidPlacesAfter ==
  ASSUME NEW kind
  PROVE  /\ IsValid("A", kind)' <=>
              flash'[1].kind = kind /\ flash'[2] = flash'[1] /\ flash'[3] = flash'[1]
         /\ IsValid("B", kind)' <=>
              flash'[4].kind = kind /\ flash'[5] = flash'[4] /\ flash'[6] = flash'[4]
         /\ At("A")' = flash'[1] /\ At("B")' = flash'[4]
         /\ At("oldA")' = flash'[4] /\ At("oldB")' = flash'[6]
  BY Places DEF IsValid, Holds, At

(* What a start-up would find, from what the banks hold. *)
LEMMA RecoveredBehind ==
  ASSUME TrustTypeOK, Current(activeAddress), Behind
  PROVE  Recovered = At(activeAddress).anchors
  <1>1. /\ At("A").generation \in Nat /\ At("B").generation \in Nat
        /\ activeAddress \in {"A", "B"}
    BY ValidPlaces, TrustAssumption DEF TrustTypeOK, Sector
  <1>2. QED
    BY <1>1 DEF Recovered, Newer, Current, Behind, Target

LEMMA RecoveredAhead ==
  ASSUME TrustTypeOK, Current(activeAddress), Ahead
  PROVE  Recovered = At(Target).anchors
  <1>1. /\ At("A").generation \in Nat /\ At("B").generation \in Nat
        /\ activeAddress \in {"A", "B"}
    BY ValidPlaces, TrustAssumption DEF TrustTypeOK, Sector
  <1>2. QED
    BY <1>1 DEF Recovered, Newer, Current, Ahead, Target

LEMMA RecoveredOld ==
  ASSUME ~Current("A"), ~Current("B")
  PROVE  Recovered = OldRecovered
  BY DEF Recovered, OldRecovered, Newer, Current

LEMMA OldRecoveredType ==
  ASSUME TrustTypeOK
  PROVE  OldRecovered \in Anchors
  <1> DEFINE old == Newer("oldA", "oldB", "legacy", {})
  <1>1. BlankAnchors \in Anchors
    BY TrustAssumption DEF BlankAnchors, Anchors, Id
  <1>2. CASE old = "none"
    BY <1>1, <1>2 DEF OldRecovered
  <1>3. CASE old # "none"
    <2>1. old \in {"oldA", "oldB"} /\ IsValid(old, "legacy")
      BY <1>3 DEF Newer
    <2>2. At(old).anchors \in LegacyAnchors
      BY <2>1, ValidPlaces DEF TrustTypeOK, Sector
    <2>3. Migrated(At(old).anchors) \in Anchors
      BY <2>2, TrustAssumption DEF Migrated, Anchors, LegacyAnchors, Id
    <2>4. QED
      BY <1>3, <2>3 DEF OldRecovered
  <1>4. QED
    BY <1>2, <1>3

-----------------------------------------------------------------------------
(* What a step of a commit does to the flash: nothing outside of the        *)
(* target; the target stays, is no longer valid, or holds the candidate.    *)
Candidate == Part("current", live.generation, live.anchors)

TargetWritten ==
  /\ \A s \in Sector \ Place(Target) : flash'[s] = flash[s]
  /\ \/ \A s \in Sector : flash'[s] = flash[s]
     \/ \E s \in Place(Target) : flash'[s] \in {Erased, Torn}
     \/ \A s \in Place(Target) : flash'[s] = Candidate

SectorTypes ==
  \A s \in Sector :
    /\ flash[s].kind \in {"erased", "torn", "current", "legacy"}
    /\ flash[s].generation \in 0 .. MaxGeneration
    /\ flash[s].kind = "current" => flash[s].anchors \in Anchors
    /\ flash[s].kind = "legacy" => flash[s].anchors \in LegacyAnchors

LEMMA EraseWrites ==
  ASSUME TrustTypeOK, EraseSector
  PROVE  TargetWritten /\ SectorTypes'
  <1> DEFINE sector == First[Target] + index - 1
  <1>1. PICK part \in {Erased, Torn, flash[sector]} : SetSectors({sector}, part)
    BY DEF EraseSector
  <1>2. sector \in Place(Target) /\ sector \in Sector /\ Place(Target) \subseteq Sector
    BY Places DEF Target, TrustTypeOK, BankSectors, Sector
  <1> HIDE DEF sector
  <1>3. \A s \in Sector : flash'[s] = IF s = sector THEN part ELSE flash[s]
    BY <1>1 DEF SetSectors
  <1>4. TargetWritten
    BY <1>2, <1>3 DEF TargetWritten
  <1>5. SectorTypes'
    BY <1>2, <1>3, TrustAssumption DEF SectorTypes, TrustTypeOK, Erased, Torn
  <1>6. QED
    BY <1>4, <1>5

LEMMA ProgramWrites ==
  ASSUME TrustTypeOK, ProgramBank
  PROVE  TargetWritten /\ SectorTypes'
  <1>1. Place(Target) \subseteq Sector /\ Place(Target) # {}
    BY Places DEF Target, TrustTypeOK, Sector
  <1>2. CASE flash' = flash
    BY <1>2 DEF TargetWritten, SectorTypes, TrustTypeOK
  <1>3. CASE \E part \in Programmed : SetSectors(Place(Target), part)
    <2>1. PICK part \in {Candidate, Torn} : SetSectors(Place(Target), part)
      BY <1>3 DEF Programmed, Candidate
    <2>2. \A s \in Sector : flash'[s] = IF s \in Place(Target) THEN part ELSE flash[s]
      BY <2>1 DEF SetSectors
    <2>3. TargetWritten
      BY <1>1, <2>2 DEF TargetWritten
    <2>4. SectorTypes'
      BY <1>1, <2>2, TrustAssumption DEF SectorTypes, TrustTypeOK, Candidate, Part, Torn
    <2>5. QED
      BY <2>3, <2>4
  <1>4. QED
    BY <1>2, <1>3 DEF ProgramBank

(* The outcome for the validity of the two banks. *)
LEMMA WrittenBanks ==
  ASSUME TrustTypeOK, TargetWritten, activeAddress' = activeAddress
  PROVE  /\ Target' = Target
         /\ Current(activeAddress)' <=> Current(activeAddress)
         /\ At(activeAddress)' = At(activeAddress)
         /\ \/ (Current(Target)' <=> Current(Target)) /\ At(Target)' = At(Target)
            \/ ~Current(Target)'
            \/ Current(Target)' /\ At(Target)' = Candidate
  <1>1. Target' = Target
    BY DEF Target
  <1>2. Erased.kind # "current" /\ Torn.kind # "current" /\ Candidate.kind = "current"
    BY DEF Erased, Torn, Candidate, Part
  <1>3. CASE activeAddress = "A"
    <2>1. Target = "B" /\ flash'[1] = flash[1] /\ flash'[2] = flash[2] /\ flash'[3] = flash[3]
      BY <1>3, Places DEF Target, TargetWritten, Sector
    <2>2. \/ flash'[4] = flash[4] /\ flash'[5] = flash[5] /\ flash'[6] = flash[6]
          \/ \E s \in {4, 5, 6} : flash'[s] \in {Erased, Torn}
          \/ flash'[4] = Candidate /\ flash'[5] = Candidate /\ flash'[6] = Candidate
      BY <2>1, Places DEF TargetWritten, Sector
    <2>3. QED
      BY <1>1, <1>2, <1>3, <2>1, <2>2, ValidPlaces, ValidPlacesAfter DEF Current
  <1>4. CASE activeAddress = "B"
    <2>1. Target = "A" /\ flash'[4] = flash[4] /\ flash'[5] = flash[5] /\ flash'[6] = flash[6]
      BY <1>4, Places DEF Target, TargetWritten, Sector
    <2>2. \/ flash'[1] = flash[1] /\ flash'[2] = flash[2] /\ flash'[3] = flash[3]
          \/ \E s \in {1, 2, 3} : flash'[s] \in {Erased, Torn}
          \/ flash'[1] = Candidate /\ flash'[2] = Candidate /\ flash'[3] = Candidate
      BY <2>1, Places DEF TargetWritten, Sector
    <2>3. QED
      BY <1>1, <1>2, <1>4, <2>1, <2>2, ValidPlaces, ValidPlacesAfter DEF Current
  <1>5. QED
    BY <1>3, <1>4 DEF TrustTypeOK

(* A commit by start-up leaves the banks of the old format alone. *)
LEMMA OldBanksStay ==
  ASSUME \A s \in 4 .. 7 : flash'[s] = flash[s]
  PROVE  OldRecovered' = OldRecovered
  <1>1. flash'[4] = flash[4] /\ flash'[5] = flash[5] /\ flash'[6] = flash[6] /\ flash'[7] = flash[7]
    OBVIOUS
  <1>2. /\ IsValid("oldA", "legacy")' <=> IsValid("oldA", "legacy")
        /\ IsValid("oldB", "legacy")' <=> IsValid("oldB", "legacy")
        /\ At("oldA")' = At("oldA") /\ At("oldB")' = At("oldB")
    BY <1>1, Places DEF IsValid, Holds, At
  <1>3. Newer("oldA", "oldB", "legacy", {})' = Newer("oldA", "oldB", "legacy", {})
    BY <1>2 DEF Newer
  <1>4. Newer("oldA", "oldB", "legacy", {}) \in {"none", "oldA", "oldB"}
    BY DEF Newer
  <1>5. QED
    BY <1>2, <1>3, <1>4 DEF OldRecovered, Migrated

-----------------------------------------------------------------------------
(* Nothing is forgotten about reads that failed. *)
LEMMA MisreadStays ==
  ASSUME [TrustNext]_storeVars, misread \in BOOLEAN, misread
  PROVE  misread'
  BY DEF TrustNext, Boot, InitLoad, InitMigrate, Operation, Add, Replace, Delete, Reset, Commit,
         CommitStep, EraseSector, ProgramBank, VerifyBank, Reload, Crash, storeVars

LEMMA InitTrustInv == TrustInit => TrustInv
  <1> SUFFICES ASSUME TrustInit
               PROVE  TrustInv
    OBVIOUS
  <1>1. SectorTypes
    <2>1. CASE flash = [s \in Sector |-> Erased]
      BY <2>1, TrustAssumption DEF SectorTypes, Erased
    <2>2. CASE flash # [s \in Sector |-> Erased]
      <3>1. PICK g \in 1 .. (MaxGeneration - 1), old \in LegacyAnchors, older \in LegacyAnchors,
                 newer \in {"oldA", "oldB"} :
              \E rest \in {Erased, Torn, Part("legacy", g - 1, older)} :
                flash = [s \in Sector |->
                           IF s \in Place(newer) THEN Part("legacy", g, old)
                           ELSE IF s \in Place("oldA") \cup Place("oldB") THEN rest
                           ELSE Erased]
        BY <2>2 DEF TrustInit
      <3>2. PICK rest \in {Erased, Torn, Part("legacy", g - 1, older)} :
              \A s \in Sector : flash[s] \in {Part("legacy", g, old), rest, Erased}
        BY <3>1
      <3>3. g \in 0 .. MaxGeneration /\ g - 1 \in 0 .. MaxGeneration /\ 0 \in 0 .. MaxGeneration
        BY TrustAssumption
      <3>4. QED
        BY <3>2, <3>3 DEF SectorTypes, Erased, Torn, Part
    <2>3. QED
      BY <2>1, <2>2
  <1>2. [i \in Id |-> Vacant] \in Anchors
    BY DEF Anchors
  <1>3. TrustTypeOK
    <2>1. /\ activeAddress = "A"
          /\ phase = "off" /\ index = 1 /\ caller = "none" /\ acknowledged = live.anchors
          /\ offered = NoOffer /\ misread = FALSE
      BY DEF TrustInit
    <2> DEFINE none == [i \in Id |-> Vacant]
    <2> HIDE DEF none
    <2>2. live = [generation |-> 0, anchors |-> none] /\ none \in Anchors
      BY <1>2 DEF none, TrustInit
    <2>3. live \in [generation : 0 .. MaxGeneration, anchors : Anchors] /\ live.anchors \in Anchors
      BY <2>2, TrustAssumption
    <2>4. acknowledged \in Anchors /\ index \in 1 .. BankSectors
      BY <2>1, <2>3 DEF BankSectors
    <2>5. QED
      BY <1>1, <2>1, <2>3, <2>4 DEF TrustTypeOK, SectorTypes
  <1>4. QED
    BY <1>3 DEF TrustInit, TrustInv, CallerInv, ServingInv, StartupInv, Serving

(* Start-up from a valid snapshot: the newer bank becomes the active one.   *)
LEMMA LoadStep ==
  ASSUME TrustInv, NEW unread \in SUBSET {"A", "B"}, InitLoad(unread)
  PROVE  TrustInv'
  <1> DEFINE bank == Newer("A", "B", "current", unread)
  <1>1. bank \in {"A", "B"} /\ Current(bank)
    BY DEF InitLoad, Newer, Current
  <1>2. At(bank).generation \in 0 .. MaxGeneration /\ At(bank).anchors \in Anchors
    BY <1>1, ValidPlaces DEF TrustInv, TrustTypeOK, Sector, Current
  <1>3. TrustTypeOK'
    <2>1. /\ flash' = flash /\ index' = index /\ caller' = caller /\ offered' = offered
          /\ misread' \in BOOLEAN /\ phase' \in {"ready", "halted"}
          /\ activeAddress' \in {activeAddress, bank}
          /\ acknowledged' \in {acknowledged, At(bank).anchors}
          /\ live' \in {live, [generation |-> At(bank).generation, anchors |-> At(bank).anchors]}
      BY DEF InitLoad, TrustInv, TrustTypeOK
    <2>2. QED
      BY <1>1, <1>2, <2>1 DEF TrustInv, TrustTypeOK
  <1>4. caller = "none" /\ phase = "off" /\ offered = NoOffer
    BY DEF InitLoad, TrustInv, CallerInv
  <1>5. CallerInv'
    BY <1>4 DEF InitLoad, CallerInv
  <1>6. ASSUME ~misread'
        PROVE  ServingInv' /\ StartupInv'
    <2>1. /\ unread = {} /\ flash' = flash
          /\ live' = [generation |-> At(bank).generation, anchors |-> At(bank).anchors]
          /\ acknowledged' = At(bank).anchors
          /\ activeAddress' = bank
          /\ phase' = "ready" /\ caller' = "none"
      BY <1>4, <1>6 DEF InitLoad
    <2>2. \A b \in {"A", "B"} : (Current(b)' <=> Current(b)) /\ At(b)' = At(b)
      BY <2>1 DEF Current, IsValid, Holds, At
    <2>3. At("A").generation \in Nat /\ At("B").generation \in Nat
      BY ValidPlaces, TrustAssumption DEF TrustInv, TrustTypeOK, Sector
    <2>4. Behind'
      BY <1>1, <2>1, <2>2, <2>3 DEF Behind, Target, Newer, Current
    <2>5. QED
      BY <1>1, <2>1, <2>2, <2>4 DEF ServingInv, StartupInv
  <1>7. QED
    BY <1>3, <1>5, <1>6 DEF TrustInv

(* Start-up from the old format, or from nothing. *)
LEMMA MigrateStep ==
  ASSUME TrustInv, NEW unread \in SUBSET {"A", "B"},
         NEW oldUnread \in SUBSET {"oldA", "oldB"}, InitMigrate(unread, oldUnread)
  PROVE  TrustInv'
  <1> DEFINE old == Newer("oldA", "oldB", "legacy", oldUnread)
  <1>1. /\ caller = "none" /\ offered = NoOffer /\ phase = "off"
        /\ flash' = flash /\ acknowledged' = acknowledged /\ offered' = offered
        /\ activeAddress' = "B" /\ phase' = "erase" /\ index' = 1 /\ caller' = "init"
    BY DEF InitMigrate, BeginCommit, MigrationActive, TrustInv, CallerInv
  <1>2. BlankAnchors \in Anchors
    BY TrustAssumption DEF BlankAnchors, Anchors, Id
  <1>3. ASSUME NEW anchors \in LegacyAnchors
        PROVE  Migrated(anchors) \in Anchors
    BY TrustAssumption DEF Migrated, Anchors, LegacyAnchors, Id
  <1>4. old # "none" => At(old).generation \in Nat /\ At(old).anchors \in LegacyAnchors
    <2>1. old # "none" => old \in {"oldA", "oldB"} /\ IsValid(old, "legacy")
      BY DEF Newer
    <2>2. QED
      BY <2>1, ValidPlaces, TrustAssumption DEF TrustInv, TrustTypeOK, Sector
  <1>5. PICK g \in Nat, a \in Anchors :
          /\ BeginCommit(g, a, "init")
          /\ misread' \in BOOLEAN
          /\ ~misread' => /\ ~misread /\ unread = {} /\ oldUnread = {}
                          /\ a = IF old # "none" THEN Migrated(At(old).anchors) ELSE BlankAnchors
    <2>1. misread \in BOOLEAN /\ 0 \in Nat /\ 0 .. MaxGeneration \subseteq Nat
      BY TrustAssumption DEF TrustInv, TrustTypeOK
    <2> HIDE DEF old
    <2>2. CASE /\ old # "none"
               /\ BeginCommit(At(old).generation, Migrated(At(old).anchors), "init")
               /\ misread' = (misread \/ unread # {} \/ oldUnread # {})
      BY <1>3, <1>4, <2>1, <2>2
    <2>3. CASE /\ \E g \in 0 .. MaxGeneration, anchors \in LegacyAnchors :
                    BeginCommit(g, Migrated(anchors), "init")
               /\ misread' = TRUE
      BY <1>3, <2>1, <2>3
    <2>4. CASE /\ old = "none"
               /\ BeginCommit(0, BlankAnchors, "init")
               /\ misread' = (misread \/ unread # {} \/ oldUnread # {})
      BY <1>2, <2>1, <2>4
    <2>5. QED
      BY <2>2, <2>3, <2>4 DEF InitMigrate, old
  <1>6. live' = [generation |-> g + 1, anchors |-> a] /\ g + 1 \in 0 .. MaxGeneration
    BY <1>5, TrustAssumption DEF BeginCommit
  <1>7. TrustTypeOK'
    BY <1>1, <1>5, <1>6 DEF TrustInv, TrustTypeOK, BankSectors
  <1>8. CallerInv'
    BY <1>1 DEF CallerInv
  <1>9. ASSUME ~misread'
        PROVE  ServingInv' /\ StartupInv'
    <2>1. ~Current("A") /\ ~Current("B")
      BY <1>5, <1>9 DEF InitMigrate, Newer, Current
    <2>2. ~Current("A")' /\ ~Current("B")'
      BY <1>1, <2>1 DEF Current, IsValid, Holds, At
    <2>3. a = OldRecovered
      BY <1>5, <1>9 DEF OldRecovered
    <2>4. OldRecovered' = OldRecovered
      BY <1>1, OldBanksStay
    <2>5. QED
      BY <1>1, <1>6, <2>2, <2>3, <2>4 DEF ServingInv, StartupInv, Serving
  <1>10. QED
    BY <1>7, <1>8, <1>9 DEF TrustInv

(* An operation edits the live snapshot only. *)
LEMMA CommitStarts ==
  ASSUME TrustInv, NEW anchors \in Anchors, Commit(anchors)
  PROVE  TrustInv'
  <1>1. /\ phase = "ready" /\ caller = "none" /\ phase' = "erase" /\ caller' = "client"
        /\ live' = [generation |-> live.generation + 1, anchors |-> anchors]
        /\ live.generation < MaxGeneration
        /\ offered' = anchors /\ index' = 1
        /\ flash' = flash /\ activeAddress' = activeAddress
        /\ acknowledged' = acknowledged /\ misread' = misread
    BY DEF Commit, BeginCommit, TrustInv, CallerInv
  <1>2. TrustTypeOK'
    BY <1>1, TrustAssumption DEF TrustInv, TrustTypeOK, BankSectors
  <1>3. CallerInv'
    BY <1>1 DEF CallerInv
  <1>4. ASSUME ~misread
        PROVE  ServingInv' /\ StartupInv'
    <2>1. /\ Target' = Target /\ (Behind' <=> Behind) /\ (Ahead' <=> Ahead)
          /\ (Current(activeAddress)' <=> Current(activeAddress))
          /\ At(activeAddress)' = At(activeAddress)
      BY <1>1 DEF Behind, Ahead, Target, Current, IsValid, Holds, At
    <2>2. QED
      BY <1>1, <1>4, <2>1 DEF TrustInv, ServingInv, StartupInv, Serving
  <1>5. QED
    BY <1>1, <1>2, <1>3, <1>4 DEF TrustInv

LEMMA OperationCommits ==
  ASSUME TrustInv, Operation
  PROVE  \E anchors \in Anchors : Commit(anchors)
  <1>1. live.anchors \in Anchors /\ Vacant \in Certificate \cup {Vacant}
    BY DEF TrustInv, TrustTypeOK
  <1>2. ASSUME NEW i \in Id, NEW c \in Certificate \cup {Vacant}
        PROVE  [live.anchors EXCEPT ![i] = c] \in Anchors
    BY <1>1 DEF Anchors
  <1>3. ASSUME NEW certificate \in Certificate, Add(certificate)
        PROVE  \E anchors \in Anchors : Commit(anchors)
    <2> DEFINE a == [live.anchors EXCEPT ![Min(Id \ Occupied)] = certificate]
    <2>1. Commit(a)
      BY <1>3 DEF Add
    <2>2. a \in Anchors
      BY <1>1 DEF Anchors
    <2>3. QED
      BY <2>1, <2>2
  <1>4. ASSUME NEW i \in Id, NEW certificate \in Certificate, Replace(i, certificate)
        PROVE  \E anchors \in Anchors : Commit(anchors)
    BY <1>2, <1>4 DEF Replace
  <1>5. ASSUME NEW i \in Id, Delete(i)
        PROVE  \E anchors \in Anchors : Commit(anchors)
    BY <1>1, <1>2, <1>5 DEF Delete
  <1>6. ASSUME Reset
        PROVE  \E anchors \in Anchors : Commit(anchors)
    BY <1>6 DEF Reset, Anchors
  <1>7. QED
    BY <1>3, <1>4, <1>5, <1>6 DEF Operation

(* A step of tlsTrustStore_Save that changes the flash. *)
LEMMA WriteStep ==
  ASSUME TrustInv, phase \in {"erase", "program"}, TargetWritten, SectorTypes',
         UNCHANGED <<activeAddress, live, caller, acknowledged, offered, misread>>,
         index' \in 1 .. BankSectors, phase' \in {"erase", "program", "verify", "reload"},
         phase' = "verify" /\ Current(Target)' => At(Target)' = Candidate
  PROVE  TrustInv'
  <1>1. TrustTypeOK'
    BY DEF TrustInv, TrustTypeOK, SectorTypes
  <1>2. CallerInv' /\ caller # "none"
    BY DEF TrustInv, CallerInv
  <1>3. /\ Target' = Target
        /\ Current(activeAddress)' <=> Current(activeAddress)
        /\ At(activeAddress)' = At(activeAddress)
        /\ \/ (Current(Target)' <=> Current(Target)) /\ At(Target)' = At(Target)
           \/ ~Current(Target)'
           \/ Current(Target)' /\ At(Target)' = Candidate
    BY WrittenBanks DEF TrustInv
  <1>4. /\ activeAddress \in {"A", "B"}
        /\ Target = IF activeAddress = "A" THEN "B" ELSE "A"
    BY DEF TrustInv, TrustTypeOK, Target
  <1>5. Candidate.generation = live.generation /\ Candidate.anchors = live.anchors
    BY DEF Candidate, Part
  <1>6. ASSUME ~misread
        PROVE  ServingInv'
    <2> SUFFICES ASSUME caller = "client"
                 PROVE  ServingInv'
      BY <1>2 DEF ServingInv, Serving
    <2>1. /\ Current(activeAddress)
          /\ At(activeAddress).anchors = acknowledged
          /\ Behind \/ Ahead
          /\ live.generation = At(activeAddress).generation + 1
      BY <1>6 DEF TrustInv, ServingInv, Serving
    <2>2. (Behind \/ Ahead)'
      <3>1. CASE (Current(Target)' <=> Current(Target)) /\ At(Target)' = At(Target)
        BY <1>3, <1>4, <2>1, <3>1 DEF Behind, Ahead
      <3>2. CASE ~Current(Target)'
        BY <3>2 DEF Behind
      <3>3. CASE Current(Target)' /\ At(Target)' = Candidate
        BY <1>3, <1>5, <2>1, <3>3 DEF Ahead
      <3>4. QED
        BY <1>3, <3>1, <3>2, <3>3
    <2>3. QED
      BY <1>3, <1>5, <2>1, <2>2 DEF ServingInv, Serving
  <1>7. ASSUME ~misread
        PROVE  StartupInv'
    <2> SUFFICES ASSUME caller = "init"
                 PROVE  StartupInv'
      BY DEF StartupInv
    <2>1. /\ activeAddress = "B" /\ Target = "A" /\ ~Current("B")
          /\ OldRecovered = live.anchors
          /\ Current("A") => At("A").anchors = live.anchors
      BY <1>4, <1>7 DEF TrustInv, StartupInv
    <2>2. \A n \in 4 .. 7 : flash'[n] = flash[n]
      BY <2>1, Places DEF TargetWritten, Sector
    <2>3. OldRecovered' = OldRecovered
      BY <2>2, OldBanksStay
    <2>4. QED
      BY <1>3, <1>5, <2>1, <2>3 DEF StartupInv
  <1>8. QED
    BY <1>1, <1>2, <1>6, <1>7 DEF TrustInv

LEMMA EraseStep ==
  ASSUME TrustInv, EraseSector
  PROVE  TrustInv'
  <1>1. TargetWritten /\ SectorTypes'
    BY EraseWrites DEF TrustInv
  <1>2. index' \in 1 .. BankSectors
    BY DEF EraseSector, MoreSectors, TrustInv, TrustTypeOK, BankSectors
  <1>3. /\ phase = "erase" /\ phase' \in {"erase", "program", "reload"}
        /\ UNCHANGED <<activeAddress, live, caller, acknowledged, offered, misread>>
    BY DEF EraseSector
  <1>4. QED
    BY <1>1, <1>2, <1>3, WriteStep

LEMMA ProgramStep ==
  ASSUME TrustInv, ProgramBank
  PROVE  TrustInv'
  <1>1. TargetWritten /\ SectorTypes'
    BY ProgramWrites DEF TrustInv
  <1>2. /\ phase = "program" /\ phase' \in {"verify", "reload"}
        /\ UNCHANGED <<activeAddress, live, index, caller, acknowledged, offered, misread>>
    BY DEF ProgramBank
  <1>3. ASSUME phase' = "verify", Current(Target)'
        PROVE  At(Target)' = Candidate
    <2>1. PICK part \in {Candidate, Torn} : SetSectors(Place(Target), part)
      BY <1>3 DEF ProgramBank, Programmed, Candidate
    <2>2. Target' = Target /\ Target \in {"A", "B"}
      BY <1>2 DEF Target
    <2>3. At(Target)' = part
      BY <2>1, <2>2, Places, ValidPlacesAfter DEF SetSectors, Sector
    <2>4. part # Torn
      BY <1>3, <2>3 DEF Current, IsValid, Torn
    <2>5. QED
      BY <2>3, <2>4
  <1>4. QED
    BY <1>1, <1>2, <1>3, WriteStep DEF TrustInv, TrustTypeOK

(* The read-back: the candidate is in flash, and becomes the active bank.   *)
LEMMA VerifyStep ==
  ASSUME TrustInv, VerifyBank
  PROVE  TrustInv'
  <1>1. /\ phase = "verify" /\ caller # "none" /\ flash' = flash /\ index' = index
        /\ misread' = misread
    BY DEF VerifyBank, TrustInv, CallerInv
  <1>2. /\ activeAddress \in {"A", "B"} /\ Target \in {"A", "B"}
        /\ Target = IF activeAddress = "A" THEN "B" ELSE "A"
    BY DEF TrustInv, TrustTypeOK, Target
  <1>3. \A b \in {"A", "B"} : (Current(b)' <=> Current(b)) /\ At(b)' = At(b)
    BY <1>1 DEF Current, IsValid, Holds, At
  <1>4. CASE phase' = "reload" /\ UNCHANGED <<activeAddress, live, caller, acknowledged, offered>>
    <2>1. TrustTypeOK' /\ CallerInv'
      BY <1>1, <1>4 DEF TrustInv, TrustTypeOK, CallerInv
    <2>2. (Behind' <=> Behind) /\ (Ahead' <=> Ahead) /\ Target' = Target
      BY <1>2, <1>3, <1>4 DEF Behind, Ahead, Target
    <2>3. OldRecovered' = OldRecovered
      BY <1>1, OldBanksStay
    <2>4. ASSUME ~misread
          PROVE  ServingInv'
      BY <1>1, <1>2, <1>3, <1>4, <2>2, <2>4 DEF TrustInv, ServingInv, Serving
    <2>5. ASSUME ~misread
          PROVE  StartupInv'
      BY <1>1, <1>3, <1>4, <2>3, <2>5 DEF TrustInv, StartupInv
    <2>6. QED
      BY <1>1, <2>1, <2>4, <2>5 DEF TrustInv
  <1>5. CASE phase' # "reload"
    <2>1. /\ Current(Target)
          /\ live' = [generation |-> At(Target).generation, anchors |-> At(Target).anchors]
          /\ activeAddress' = Target /\ phase' = "ready" /\ caller' = "none"
          /\ acknowledged' = At(Target).anchors /\ offered' = NoOffer
      BY <1>5 DEF VerifyBank, Current
    <2>2. At(Target).generation \in 0 .. MaxGeneration /\ At(Target).anchors \in Anchors
      BY <1>2, <2>1, ValidPlaces DEF TrustInv, TrustTypeOK, Sector, Current
    <2>3. TrustTypeOK'
      BY <1>1, <1>2, <2>1, <2>2 DEF TrustInv, TrustTypeOK
    <2>4. CallerInv' /\ StartupInv'
      BY <2>1 DEF CallerInv, StartupInv
    <2>5. Target' = activeAddress
      BY <1>2, <2>1 DEF Target
    <2>6. ASSUME ~misread
          PROVE  Behind'
      <3>1. CASE caller = "client"
        <4>1. /\ live.generation = At(activeAddress).generation + 1
              /\ At(Target).generation = live.generation
          BY <1>1, <2>1, <2>6, <3>1 DEF TrustInv, ServingInv, Serving
        <4>2. At(activeAddress).generation \in Nat
          BY <1>2, ValidPlaces, TrustAssumption DEF TrustInv, TrustTypeOK, Sector
        <4>3. QED
          BY <1>2, <1>3, <2>1, <2>5, <4>1, <4>2 DEF Behind
      <3>2. CASE caller = "init"
        BY <1>3, <2>5, <2>6, <3>2 DEF TrustInv, StartupInv, Behind
      <3>3. QED
        BY <1>1, <3>1, <3>2 DEF TrustInv, TrustTypeOK
    <2>7. QED
      BY <1>1, <1>2, <1>3, <2>1, <2>3, <2>4, <2>6 DEF TrustInv, ServingInv
  <1>6. QED
    BY <1>4, <1>5 DEF VerifyBank

(* The end of a commit that failed: the active bank is loaded again. *)
LEMMA ReloadStep ==
  ASSUME TrustInv, Reload
  PROVE  TrustInv'
  <1>1. /\ phase = "reload" /\ caller \in {"init", "client"}
        /\ phase' = IF caller = "init" THEN "halted" ELSE "ready"
        /\ caller' = "none" /\ offered' = NoOffer
        /\ flash' = flash /\ activeAddress' = activeAddress /\ index' = index
        /\ acknowledged' = acknowledged
    BY DEF Reload, CommitFailed, TrustInv, CallerInv, TrustTypeOK
  <1>2. activeAddress \in {"A", "B"}
    BY DEF TrustInv, TrustTypeOK
  <1> DEFINE loaded == [generation |-> At(activeAddress).generation,
                        anchors |-> At(activeAddress).anchors]
             Snapshot == [generation : 0 .. MaxGeneration, anchors : Anchors]
  <1>3. \/ Current(activeAddress) /\ live' = loaded /\ misread' = misread
        \/ caller = "init" /\ live' = live /\ misread' = misread
        \/ live' \in {live, Scrambled} /\ misread' = TRUE
    BY DEF Reload, Current
  <1>4. Current(activeAddress) => loaded \in Snapshot
    BY <1>2, ValidPlaces DEF TrustInv, TrustTypeOK, Sector, Current
  <1>5. Scrambled \in Snapshot
    <2>1. [i \in Id |-> Vacant] \in Anchors
      BY DEF Anchors
    <2>2. 0 \in 0 .. MaxGeneration
      BY TrustAssumption
    <2>3. QED
      BY <2>1, <2>2 DEF Scrambled
  <1>6. live' \in Snapshot /\ misread' \in BOOLEAN
    <2> HIDE DEF loaded
    <2>1. live \in Snapshot /\ misread \in BOOLEAN
      BY DEF TrustInv, TrustTypeOK
    <2>2. QED
      BY <1>3, <1>4, <1>5, <2>1
  <1>7. TrustTypeOK'
    BY <1>1, <1>6 DEF TrustInv, TrustTypeOK
  <1>8. CallerInv' /\ StartupInv'
    BY <1>1 DEF CallerInv, StartupInv
  <1>9. ASSUME ~misread'
        PROVE  ServingInv'
    <2> SUFFICES ASSUME caller = "client"
                 PROVE  ServingInv'
      BY <1>1 DEF ServingInv, Serving
    <2>1. ~misread /\ live' = loaded
      BY <1>3, <1>9 DEF TrustInv, TrustTypeOK
    <2>2. /\ Target' = Target /\ (Behind' <=> Behind) /\ (Ahead' <=> Ahead)
          /\ (Current(activeAddress)' <=> Current(activeAddress))
          /\ At(activeAddress)' = At(activeAddress)
      BY <1>1 DEF Behind, Ahead, Target, Current, IsValid, Holds, At
    <2>3. QED
      BY <1>1, <2>1, <2>2 DEF TrustInv, ServingInv, Serving
  <1>10. QED
    BY <1>7, <1>8, <1>9 DEF TrustInv

LEMMA CrashStep ==
  ASSUME TrustInv, Crash
  PROVE  TrustInv'
  <1>1. TrustTypeOK'
    BY DEF Crash, TrustInv, TrustTypeOK
  <1>2. CallerInv' /\ ServingInv' /\ StartupInv'
    BY DEF Crash, CallerInv, ServingInv, StartupInv, Serving
  <1>3. QED
    BY <1>1, <1>2 DEF TrustInv

LEMMA NextTrustInv == TrustInv /\ [TrustNext]_storeVars => TrustInv'
  <1> SUFFICES ASSUME TrustInv, [TrustNext]_storeVars
               PROVE  TrustInv'
    OBVIOUS
  <1>1. CASE Boot
    BY <1>1, LoadStep, MigrateStep DEF Boot
  <1>2. CASE Operation
    BY <1>2, OperationCommits, CommitStarts
  <1>3. CASE EraseSector
    BY <1>3, EraseStep
  <1>4. CASE ProgramBank
    BY <1>4, ProgramStep
  <1>5. CASE VerifyBank
    BY <1>5, VerifyStep
  <1>6. CASE Reload
    BY <1>6, ReloadStep
  <1>7. CASE Crash
    BY <1>7, CrashStep
  <1>8. CASE UNCHANGED storeVars
    <2>1. /\ TrustTypeOK' /\ CallerInv' /\ Target' = Target
          /\ (Behind' <=> Behind) /\ (Ahead' <=> Ahead)
      BY <1>8 DEF storeVars, TrustInv, TrustTypeOK, CallerInv, Target, Behind, Ahead, Current,
                  IsValid, Holds, At
    <2>2. OldRecovered' = OldRecovered
      BY <1>8, OldBanksStay DEF storeVars
    <2>3. \A b : (Current(b)' <=> Current(b)) /\ At(b)' = At(b)
      BY <1>8 DEF storeVars, Current, IsValid, Holds, At
    <2>4. QED
      BY <1>8, <2>1, <2>2, <2>3 DEF storeVars, TrustInv, ServingInv, StartupInv, Serving
  <1>9. QED
    BY <1>1, <1>2, <1>3, <1>4, <1>5, <1>6, <1>7, <1>8 DEF TrustNext, CommitStep

LEMMA TrustInvariant == TrustSpec => []TrustInv
  BY InitTrustInv, NextTrustInv, PTL DEF TrustSpec

-----------------------------------------------------------------------------
(* The trust store keeps its types, whatever reads fail. *)
THEOREM TrustStoreTypes == TrustSpec => []TrustTypeOK
  <1>1. TrustInv => TrustTypeOK
    BY DEF TrustInv
  <1>2. QED
    BY TrustInvariant, <1>1, PTL

(* tlsTrustStore_CommitCandidate edits the live snapshot before it is       *)
(* saved; whoever takes the mutex afterwards still finds the anchors last   *)
(* loaded or committed.                                                     *)
THEOREM ServedIsAcknowledgedHolds == TrustSpec => []ServedIsAcknowledged
  <1>1. TrustInv => ServedIsAcknowledged
    BY DEF TrustInv, ServingInv, Serving, ServedIsAcknowledged
  <1>2. QED
    BY TrustInvariant, <1>1, PTL

-----------------------------------------------------------------------------
(* The refinement: what a start-up would show, step by step. *)
LEMMA RecoveredStays ==
  ASSUME \A s \in Sector : flash'[s] = flash[s]
  PROVE  Recovered' = Recovered
  <1>1. OldRecovered' = OldRecovered
    BY OldBanksStay DEF Sector
  <1>2. /\ IsValid("A", "current")' <=> IsValid("A", "current")
        /\ IsValid("B", "current")' <=> IsValid("B", "current")
        /\ At("A")' = At("A") /\ At("B")' = At("B")
    BY ValidPlaces, ValidPlacesAfter DEF Sector
  <1>3. Newer("A", "B", "current", {})' = Newer("A", "B", "current", {})
    BY <1>2 DEF Newer
  <1>4. Newer("A", "B", "current", {}) \in {"none", "A", "B"}
    BY DEF Newer
  <1> DEFINE bank == Newer("A", "B", "current", {})
  <1>5. Recovered = IF bank # "none" THEN At(bank).anchors ELSE OldRecovered
    BY DEF Recovered, OldRecovered
  <1>6. Recovered' = IF bank' # "none" THEN At(bank)'.anchors ELSE OldRecovered'
    BY DEF Recovered, OldRecovered
  <1>7. bank # "none" => At(bank)' = At(bank)
    BY <1>2, <1>3, <1>4
  <1> HIDE DEF bank
  <1>8. QED
    BY <1>1, <1>3, <1>5, <1>6, <1>7 DEF bank

LEMMA BehindShowsAcknowledged ==
  TrustInv /\ ~misread /\ Serving /\ Behind => Recovered = acknowledged
  BY RecoveredBehind DEF TrustInv, ServingInv

LEMMA AheadShowsTarget ==
  TrustInv /\ ~misread /\ Serving /\ Ahead => Recovered = At(Target).anchors
  BY RecoveredAhead DEF TrustInv, ServingInv

LEMMA StartupShowsCandidate ==
  TrustInv /\ ~misread /\ caller = "init" => Recovered = live.anchors
  <1> SUFFICES ASSUME TrustInv, ~misread, caller = "init"
               PROVE  Recovered = live.anchors
    OBVIOUS
  <1>1. /\ activeAddress = "B" /\ ~Current("B") /\ OldRecovered = live.anchors
        /\ Current("A") => At("A").anchors = live.anchors
    BY DEF TrustInv, StartupInv
  <1>2. CASE Current("A")
    BY <1>1, <1>2 DEF Recovered, Newer, Current
  <1>3. CASE ~Current("A")
    BY <1>1, <1>3, RecoveredOld
  <1>4. QED
    BY <1>2, <1>3

LEMMA InitRefines == TrustInit => Register!RegisterInit
  <1> SUFFICES ASSUME TrustInit
               PROVE  Register!RegisterInit
    OBVIOUS
  <1>1. TrustTypeOK /\ ~Serving /\ offered = NoOffer
    BY InitTrustInv DEF TrustInv, TrustInit, Serving
  <1>2. \A s \in Sector : flash[s].kind # "current"
    <2>1. Erased.kind # "current" /\ Torn.kind # "current"
      BY DEF Erased, Torn
    <2>2. \A g, a : Part("legacy", g, a).kind # "current"
      BY DEF Part
    <2>3. CASE flash = [s \in Sector |-> Erased]
      BY <2>1, <2>3
    <2>4. CASE flash # [s \in Sector |-> Erased]
      BY <2>1, <2>2, <2>4 DEF TrustInit
    <2>5. QED
      BY <2>3, <2>4
  <1>3. ~Current("A") /\ ~Current("B")
    BY <1>2, ValidPlaces DEF Current, Sector
  <1>4. Recovered \in Anchors
    BY <1>1, <1>3, RecoveredOld, OldRecoveredType
  <1>5. QED
    BY <1>1, <1>4 DEF Register!RegisterInit

LEMMA BootRefines ==
  ASSUME TrustInv, TrustInv', ~misread', Boot
  PROVE  Register!Recover \/ UNCHANGED Register!registerVars
  <1>1. /\ Recovered' = Recovered /\ offered' = offered
        /\ phase = "off" /\ caller = "none" /\ ~Serving
    <2>1. flash' = flash /\ offered' = offered /\ phase = "off"
      BY DEF Boot, InitLoad, InitMigrate
    <2>2. QED
      BY <2>1, RecoveredStays DEF TrustInv, CallerInv, Serving
  <1>2. CASE \E unread \in SUBSET {"A", "B"} : InitLoad(unread)
    <2>1. Serving' /\ ~misread
      BY <1>2 DEF InitLoad, Serving
    <2>2. PICK unread \in SUBSET {"A", "B"} : InitLoad(unread)
      BY <1>2
    <2>3. unread = {} /\ acknowledged' = At(Newer("A", "B", "current", unread)).anchors
          /\ Newer("A", "B", "current", unread) # "none"
      BY <2>2 DEF InitLoad
    <2>4. acknowledged' = Recovered
      BY <2>3 DEF Recovered
    <2>5. QED
      BY <1>1, <2>1, <2>4 DEF Register!Recover
  <1>3. CASE \E unread \in SUBSET {"A", "B"}, oldUnread \in SUBSET {"oldA", "oldB"} :
               InitMigrate(unread, oldUnread)
    <2>1. ~Serving'
      BY <1>3 DEF InitMigrate, BeginCommit, Serving
    <2>2. QED
      BY <1>1, <2>1 DEF Register!registerVars
  <1>4. QED
    BY <1>2, <1>3 DEF Boot

LEMMA OperationRefines ==
  ASSUME TrustInv, NEW anchors \in Anchors, Commit(anchors)
  PROVE  Register!Offer(anchors)
  <1>1. /\ flash' = flash /\ phase = "ready" /\ caller = "none" /\ caller' = "client"
        /\ offered = NoOffer /\ offered' = anchors /\ acknowledged' = acknowledged
        /\ acknowledged \in Anchors
    BY DEF Commit, BeginCommit, TrustInv, CallerInv, TrustTypeOK
  <1>2. Recovered' = Recovered
    BY <1>1, RecoveredStays
  <1>3. Serving /\ Serving'
    BY <1>1 DEF Serving
  <1>4. QED
    BY <1>1, <1>2, <1>3, TrustAssumption DEF Register!Offer

(* A step that writes to the target, or to nothing. *)
LEMMA WriteRefines ==
  ASSUME TrustInv, TrustInv', ~misread, ~misread', caller \in {"init", "client"}, TargetWritten,
         UNCHANGED <<activeAddress, live, caller, acknowledged, offered>>, phase # "ready",
         phase' # "ready"
  PROVE  Register!Settle \/ UNCHANGED Register!registerVars
  <1>1. CASE caller = "init"
    <2>1. Recovered = live.anchors
      BY <1>1, StartupShowsCandidate
    <2>2. TrustInv' /\ ~misread' /\ (caller = "init")' => (Recovered = live.anchors)'
      BY StartupShowsCandidate, PTL
    <2>3. Recovered' = Recovered
      BY <1>1, <2>1, <2>2
    <2>4. ~Serving /\ ~Serving'
      BY <1>1 DEF Serving
    <2>5. QED
      BY <2>3, <2>4 DEF Register!registerVars
  <1>2. CASE caller = "client"
    <2>1. Serving /\ Serving' /\ offered = live.anchors /\ live.anchors \in Anchors
      BY <1>2 DEF Serving, TrustInv, CallerInv, TrustTypeOK
    <2>2. TrustInv' /\ ~misread' /\ Serving' /\ Behind' => (Recovered = acknowledged)'
      BY BehindShowsAcknowledged, PTL
    <2>3. TrustInv' /\ ~misread' /\ Serving' /\ Ahead' => (Recovered = At(Target).anchors)'
      BY AheadShowsTarget, PTL
    <2>4. Behind' \/ Ahead'
      BY <2>1 DEF TrustInv, ServingInv
    <2>5. Candidate.anchors = live.anchors /\ Erased.kind # "current" /\ Torn.kind # "current"
      BY DEF Candidate, Part, Erased, Torn
    <2>6. Recovered' \in {Recovered, acknowledged, live.anchors}
      <3>1. CASE \A s \in Sector : flash'[s] = flash[s]
        BY <3>1, RecoveredStays
      <3>2. CASE Behind'
        BY <2>1, <2>2, <3>2
      <3>3. CASE Ahead' /\ ~(\A s \in Sector : flash'[s] = flash[s])
        <4>1. Target' = Target /\ Target \in {"A", "B"} /\ Current(Target)'
          BY <3>3 DEF Target, Ahead
        <4>2. ~(\E s \in Place(Target) : flash'[s] \in {Erased, Torn})
          BY <2>5, <4>1, Places, ValidPlacesAfter DEF Current
        <4>3. At(Target)' = Candidate
          BY <3>3, <4>1, <4>2, Places, ValidPlacesAfter DEF TargetWritten
        <4>4. QED
          BY <2>1, <2>3, <2>5, <3>3, <4>3
      <3>4. QED
        BY <2>4, <3>1, <3>2, <3>3
    <2>7. QED
      BY <2>1, <2>6, TrustAssumption DEF Register!Settle
  <1>3. QED
    BY <1>1, <1>2

LEMMA VerifyRefines ==
  ASSUME TrustInv, TrustInv', ~misread, ~misread', VerifyBank
  PROVE  \/ Register!Accept \/ Register!Recover
         \/ Register!Settle \/ UNCHANGED Register!registerVars
  <1>1. phase = "verify" /\ caller \in {"init", "client"} /\ flash' = flash
    BY DEF VerifyBank, TrustInv, CallerInv, TrustTypeOK
  <1>2. Recovered' = Recovered
    BY <1>1, RecoveredStays
  <1>3. CASE phase' = "reload" /\ UNCHANGED <<activeAddress, live, caller, acknowledged, offered>>
    <2>1. TargetWritten
      BY <1>1 DEF TargetWritten
    <2>2. QED
      BY <1>1, <1>3, <2>1, WriteRefines
  <1>4. CASE phase' # "reload"
    <2>1. /\ Current(Target) /\ phase' = "ready" /\ caller' = "none" /\ offered' = NoOffer
          /\ acknowledged' = At(Target).anchors /\ Serving'
      BY <1>4 DEF VerifyBank, Current, Serving
    <2>2. CASE caller = "client"
      <3>1. /\ Serving /\ offered = live.anchors /\ live.anchors \in Anchors
            /\ At(Target).anchors = live.anchors /\ Ahead
            /\ live.generation = At(activeAddress).generation + 1
        BY <1>1, <2>1, <2>2 DEF TrustInv, CallerInv, TrustTypeOK, ServingInv, Serving, Ahead
      <3>2. Recovered = live.anchors
        BY <3>1, AheadShowsTarget
      <3>3. QED
        BY <1>2, <2>1, <3>1, <3>2, TrustAssumption DEF Register!Accept
    <2>3. CASE caller = "init"
      <3>1. ~Serving /\ offered = NoOffer /\ Target = "A" /\ At("A").anchors = live.anchors
        BY <1>1, <2>1, <2>3 DEF TrustInv, CallerInv, StartupInv, Serving, Target
      <3>2. Recovered = live.anchors
        BY <2>3, StartupShowsCandidate
      <3>3. QED
        BY <1>2, <2>1, <3>1, <3>2 DEF Register!Recover
    <2>4. QED
      BY <1>1, <2>2, <2>3
  <1>5. QED
    BY <1>3, <1>4 DEF VerifyBank

LEMMA ReloadRefines ==
  ASSUME TrustInv, Reload
  PROVE  Register!Reject \/ UNCHANGED Register!registerVars
  <1>1. /\ flash' = flash /\ caller \in {"init", "client"} /\ caller' = "none"
        /\ phase = "reload" /\ phase' = IF caller = "init" THEN "halted" ELSE "ready"
        /\ offered' = NoOffer /\ acknowledged' = acknowledged
        /\ live.anchors \in Anchors
        /\ offered = IF caller = "client" THEN live.anchors ELSE NoOffer
    BY DEF Reload, CommitFailed, TrustInv, CallerInv, TrustTypeOK
  <1>2. Recovered' = Recovered
    BY <1>1, RecoveredStays
  <1>3. (Serving <=> caller = "client") /\ (Serving' <=> caller = "client")
    BY <1>1 DEF Serving
  <1>4. CASE caller = "client"
    BY <1>1, <1>2, <1>3, <1>4, TrustAssumption DEF Register!Reject
  <1>5. CASE caller = "init"
    BY <1>1, <1>2, <1>3, <1>5 DEF Register!registerVars
  <1>6. QED
    BY <1>1, <1>4, <1>5

(* Wherever power fails, between the three sector erases or in the middle   *)
(* of a migration over the old banks included, the trust store implements a *)
(* durable register, as long as flash can be read.                          *)
THEOREM TrustRefinement == TrustSpec => ImplementsRegister
  <1>1. TrustInv /\ TrustInv' /\ [TrustNext]_storeVars
          => [Register!RegisterNext \/ misread']_(Register!registerVars)
    <2> SUFFICES ASSUME TrustInv, TrustInv', [TrustNext]_storeVars, ~misread'
                 PROVE  [Register!RegisterNext]_(Register!registerVars)
      OBVIOUS
    <2>1. ~misread
      BY MisreadStays DEF TrustInv, TrustTypeOK
    <2>2. CASE Boot
      BY <2>2, BootRefines DEF Register!RegisterNext
    <2>3. CASE Operation
      BY <2>3, OperationCommits, OperationRefines DEF Register!RegisterNext
    <2>4. CASE EraseSector \/ ProgramBank
      <3>1. TargetWritten
        BY <2>4, EraseWrites, ProgramWrites DEF TrustInv
      <3>2. /\ UNCHANGED <<activeAddress, live, caller, acknowledged, offered>>
            /\ phase # "ready" /\ phase' # "ready" /\ caller \in {"init", "client"}
        BY <2>4 DEF EraseSector, ProgramBank, TrustInv, CallerInv, TrustTypeOK
      <3>3. QED
        BY <2>1, <3>1, <3>2, WriteRefines DEF Register!RegisterNext
    <2>5. CASE VerifyBank
      BY <2>1, <2>5, VerifyRefines DEF Register!RegisterNext
    <2>6. CASE Reload
      BY <2>6, ReloadRefines DEF Register!RegisterNext
    <2>7. CASE Crash
      <3>1. Recovered' = Recovered
        BY <2>7, RecoveredStays DEF Crash
      <3>2. ~Serving' /\ offered' = NoOffer
        BY <2>7 DEF Crash, Serving
      <3>3. QED
        BY <3>1, <3>2 DEF Register!RegisterNext, Register!PowerLoss
    <2>8. CASE UNCHANGED storeVars
      <3>1. Recovered' = Recovered
        BY <2>8, RecoveredStays DEF storeVars
      <3>2. QED
        BY <2>8, <3>1 DEF storeVars, Register!registerVars, Serving
    <2>9. QED
      BY <2>2, <2>3, <2>4, <2>5, <2>6, <2>7, <2>8 DEF TrustNext, CommitStep
  <1>2. QED
    BY <1>1, InitRefines, TrustInvariant, PTL DEF TrustSpec, ImplementsRegister

-----------------------------------------------------------------------------
(* The references to its anchors. *)
Offs == trustOffered = NoOffer /\ configOffered = NoOffer /\ callbackOffered = NoOffer

(* The three stores are opened and closed together, and only an open store  *)
(* saves.                                                                   *)
Alive ==
  \/ Running
  \/ trustView = Down /\ configView = Down /\ callbackView = Down /\ Offs

TypeInv == TypeOK /\ Alive

(* At most one store is saving. *)
OneOffer ==
  /\ trustOffered # NoOffer => configOffered = NoOffer /\ callbackOffered = NoOffer
  /\ configOffered # NoOffer => callbackOffered = NoOffer

(* Flash holds what the store shows, or what it is saving. *)
Close ==
  /\ trustStored = trustView \/ (trustOffered # NoOffer /\ trustStored = trustOffered)
  /\ configStored = configView \/ (configOffered # NoOffer /\ configStored = configOffered)
  /\ callbackStored = callbackView
       \/ (callbackOffered # NoOffer /\ callbackStored = callbackOffered)

(* What is shown is whole, and stays so if the save in progress succeeds. *)
ViewsWhole ==
  /\ Whole(trustView, configView, callbackView)
  /\ trustOffered # NoOffer => Whole(trustOffered, configView, callbackView)
  /\ configOffered # NoOffer => Whole(trustView, configOffered, callbackView)
  /\ callbackOffered # NoOffer => Whole(trustView, configView, callbackOffered)

Sound ==
  /\ Running => OneOffer /\ Close /\ ViewsWhole
  /\ ~Running => Whole(trustStored, configStored, callbackStored)

IInv == TypeInv /\ (~strayed => Sound)

-----------------------------------------------------------------------------
LEMMA TrustContents == TrustContent = SUBSET Id
  BY DEF TrustContent

LEMMA DefaultsAreContents ==
  /\ 0 \in Id
  /\ {0} \in TrustContent
  /\ DefaultConfig \in ConfigContent
  /\ DefaultCallback \in CallbackContent
  <1>1. 0 \in Id
    BY ReferenceAssumption DEF Id
  <1>2. {0} \in TrustContent
    BY <1>1, TrustContents
  <1>3. DefaultConfig \in ConfigContent
    BY <1>1 DEF DefaultConfig, ConfigContent
  <1>4. DefaultCallback \in CallbackContent
    BY <1>1 DEF DefaultCallback, CallbackContent
  <1>5. QED
    BY <1>1, <1>2, <1>3, <1>4

(* No content is a marker. *)
LEMMA Markers ==
  /\ \A c \in TrustContent : c # Down /\ c # NoOffer
  /\ \A c \in ConfigContent : c # Down /\ c # NoOffer
  /\ \A c \in CallbackContent : c # Down /\ c # NoOffer
  BY ReferenceAssumption

(* Every request offers one store a content of its kind. *)
LEMMA RequestOffers ==
  ASSUME TypeInv, Request
  PROVE  /\ Idle
         /\ \/ \E anchors \in TrustContent : OfferTrust(anchors)
            \/ \E resources \in ConfigContent : OfferConfig(resources)
            \/ \E callback \in CallbackContent : OfferCallback(callback)
  <1>1. Idle
    BY DEF Request, AddAnchor, ResetAnchors, SetPeriod, ReplaceAnchor, DeleteAnchor,
           AddResource, PutCallback, DeleteResource, UpdateResource
  <1>2. /\ trustView \in TrustContent /\ trustView \subseteq Id
        /\ configView \in ConfigContent
        /\ callbackView \in CallbackContent
    BY <1>1 DEF TypeInv, TypeOK, ReferenceTypes, Idle, Running, TrustContent
  <1>3. CASE AddAnchor \/ ResetAnchors \/ \E i \in Id : ReplaceAnchor(i) \/ DeleteAnchor(i)
    BY <1>2, <1>3 DEF AddAnchor, ResetAnchors, ReplaceAnchor, DeleteAnchor, TrustContent
  <1>4. CASE SetPeriod
    BY <1>2, <1>4 DEF SetPeriod
  <1>5. ASSUME NEW i \in Id, AddResource(i)
        PROVE  \E resources \in ConfigContent : OfferConfig(resources)
    BY <1>2, <1>5 DEF AddResource, ConfigContent
  <1>6. ASSUME NEW i \in Id, NEW enabled \in BOOLEAN, PutCallback(enabled, i)
        PROVE  \E callback \in CallbackContent : OfferCallback(callback)
    BY <1>6 DEF PutCallback, CallbackContent
  <1>7. ASSUME NEW r \in Index,
               DeleteResource(r) \/ \E i \in Id : UpdateResource(r, i)
        PROVE  \E resources \in ConfigContent : OfferConfig(resources)
    BY <1>2, <1>7 DEF DeleteResource, UpdateResource, ConfigContent
  <1>8. QED
    BY <1>1, <1>3, <1>4, <1>5, <1>6, <1>7 DEF Request

LEMMA TypeInitially == Init => TypeInv
  <1> SUFFICES ASSUME Init
               PROVE  TypeInv
    OBVIOUS
  <1>1. configStored \in ConfigContent
    BY DefaultsAreContents DEF Init, ConfigContent
  <1>2. QED
    BY <1>1, DefaultsAreContents DEF Init, TypeInv, TypeOK, ReferenceTypes, Alive, Offs

LEMMA TypeStep ==
  ASSUME TypeInv, [Next]_vars
  PROVE  TypeInv'
  <1>1. strayed' \in BOOLEAN
    BY DEF TypeInv, TypeOK, Next, vars
  <1>2. CASE Request
    <2>1. Idle
      BY <1>2, RequestOffers
    <2> USE DEF TypeInv, TypeOK, ReferenceTypes, Alive, Offs, Idle, Running
    <2>2. ASSUME NEW anchors \in TrustContent, OfferTrust(anchors)
          PROVE  TypeInv'
      BY <1>1, <2>1, <2>2 DEF OfferTrust, configVars, callbackVars, Trust!Offer
    <2>3. ASSUME NEW resources \in ConfigContent, OfferConfig(resources)
          PROVE  TypeInv'
      BY <1>1, <2>1, <2>3 DEF OfferConfig, trustVars, callbackVars, Config!Offer
    <2>4. ASSUME NEW callback \in CallbackContent, OfferCallback(callback)
          PROVE  TypeInv'
      BY <1>1, <2>1, <2>4 DEF OfferCallback, trustVars, configVars, Callback!Offer
    <2>5. QED
      BY <1>2, <2>2, <2>3, <2>4, RequestOffers
  <1>3. CASE SaveTrust
    BY <1>1, <1>3, Markers
    DEF SaveTrust, Trust!Settle, Trust!Accept, Trust!Reject, configVars, callbackVars,
        TypeInv, TypeOK, ReferenceTypes, Alive, Offs, Running
  <1>4. CASE SaveConfig
    BY <1>1, <1>4, Markers
    DEF SaveConfig, Config!Settle, Config!Accept, Config!Reject, trustVars, callbackVars,
        TypeInv, TypeOK, ReferenceTypes, Alive, Offs, Running
  <1>5. CASE SaveCallback
    BY <1>1, <1>5, Markers
    DEF SaveCallback, Callback!Settle, Callback!Accept, Callback!Reject, trustVars,
        configVars, TypeInv, TypeOK, ReferenceTypes, Alive, Offs, Running
  <1>6. CASE PowerLoss
    BY <1>1, <1>6
    DEF PowerLoss, Trust!PowerLoss, Config!PowerLoss, Callback!PowerLoss,
        TypeInv, TypeOK, ReferenceTypes, Alive, Offs, Running
  <1>7. CASE PowerUp
    BY <1>1, <1>7, Markers
    DEF PowerUp, Trust!Recover, Config!Recover, Callback!Recover,
        TypeInv, TypeOK, ReferenceTypes, Alive, Offs, Running
  <1>8. CASE FactoryReset
    BY <1>1, <1>8, DefaultsAreContents
    DEF FactoryReset, TypeInv, TypeOK, ReferenceTypes, Alive, Offs, Running
  <1>9. CASE UNCHANGED vars
    BY <1>9 DEF vars, trustVars, configVars, callbackVars, TypeInv, TypeOK,
                ReferenceTypes, Alive, Offs, Running
  <1>10. QED
    BY <1>2, <1>3, <1>4, <1>5, <1>6, <1>7, <1>8, <1>9 DEF Next, Save

(* Every store holds, shows and saves contents of its own kind. *)
THEOREM ReferencesAreTyped == Spec => []TypeOK
  <1>1. TypeInv /\ [Next]_vars => TypeInv'
    BY TypeStep
  <1>2. TypeInv => TypeOK
    BY DEF TypeInv
  <1>3. QED
    BY <1>1, <1>2, TypeInitially, PTL DEF Spec

-----------------------------------------------------------------------------
(* What a request offers keeps the references whole. *)
LEMMA RequestKeepsWhole ==
  ASSUME TypeInv, Request, Whole(trustView, configView, callbackView)
  PROVE  \/ \E anchors \in TrustContent :
              OfferTrust(anchors) /\ Whole(anchors, configView, callbackView)
         \/ \E resources \in ConfigContent :
              OfferConfig(resources) /\ Whole(trustView, resources, callbackView)
         \/ \E callback \in CallbackContent :
              OfferCallback(callback) /\ Whole(trustView, configView, callback)
  <1>1. Idle
    BY RequestOffers
  <1>2. /\ trustView \in TrustContent /\ trustView \subseteq Id
        /\ configView \in ConfigContent
        /\ callbackView \in CallbackContent
    BY <1>1 DEF TypeInv, TypeOK, ReferenceTypes, Idle, Running, TrustContent
  <1>3. \A r \in Index : configView[r] \in Id \cup {Free}
    BY <1>2 DEF ConfigContent
  <1>4. CASE AddAnchor \/ \E i \in Id : ReplaceAnchor(i) \/ DeleteAnchor(i)
    <2>1. CASE AddAnchor
      <3>1. PICK i \in Id : OfferTrust(trustView \cup {i})
        BY <2>1 DEF AddAnchor
      <3>2. Whole(trustView \cup {i}, configView, callbackView)
        BY DEF Whole
      <3>3. QED
        BY <1>2, <3>1, <3>2, TrustContents
    <2>2. ASSUME NEW i \in Id, DeleteAnchor(i)
          PROVE  /\ OfferTrust(trustView \ {i})
                 /\ Whole(trustView \ {i}, configView, callbackView)
      BY <1>3, <2>2 DEF DeleteAnchor, InUse, Whole
    <2>3. \A i \in Id : trustView \ {i} \in TrustContent
      BY <1>2, TrustContents
    <2>4. ASSUME NEW i \in Id, ReplaceAnchor(i)
          PROVE  OfferTrust(trustView)
      BY <2>4 DEF ReplaceAnchor
    <2>5. QED
      BY <1>2, <1>4, <2>1, <2>2, <2>3, <2>4
  <1>5. CASE ResetAnchors
    <2>1. Whole({}, configView, callbackView)
      BY <1>2, <1>3, <1>5 DEF ResetAnchors, InUse, Whole, CallbackContent
    <2>2. {} \in TrustContent
      BY TrustContents
    <2>3. QED
      BY <1>5, <2>1, <2>2 DEF ResetAnchors
  <1>6. CASE SetPeriod
    BY <1>2, <1>6 DEF SetPeriod
  <1>7. ASSUME NEW r \in Index, NEW i \in trustView \cup {Free},
               OfferConfig([configView EXCEPT ![r] = i])
        PROVE  \E resources \in ConfigContent :
                 OfferConfig(resources) /\ Whole(trustView, resources, callbackView)
    <2> DEFINE resources == [configView EXCEPT ![r] = i]
    <2>1. resources \in ConfigContent
      BY <1>2 DEF ConfigContent
    <2>2. \A q \in Index : resources[q] = IF q = r THEN i ELSE configView[q]
      BY <1>2 DEF ConfigContent
    <2> HIDE DEF resources
    <2>3. Whole(trustView, resources, callbackView)
      BY <2>2 DEF Whole
    <2>4. QED
      BY <1>7, <2>1, <2>3 DEF resources
  <1>8. ASSUME NEW i \in Id, NEW enabled \in BOOLEAN, PutCallback(enabled, i)
        PROVE  \E callback \in CallbackContent :
                 OfferCallback(callback) /\ Whole(trustView, configView, callback)
    BY <1>8 DEF PutCallback, CallbackContent, Whole
  <1>9. ASSUME NEW i \in Id, AddResource(i)
        PROVE  \E r \in Index : OfferConfig([configView EXCEPT ![r] = i]) /\ i \in trustView
    BY <1>9 DEF AddResource
  <1>10. ASSUME NEW r \in Index,
                DeleteResource(r) \/ \E i \in Id : UpdateResource(r, i)
         PROVE  \E i \in trustView \cup {Free} : OfferConfig([configView EXCEPT ![r] = i])
    BY <1>10 DEF DeleteResource, UpdateResource
  <1>11. QED
    BY <1>4, <1>5, <1>6, <1>7, <1>8, <1>9, <1>10 DEF Request

LEMMA SoundInitially == Init => Sound
  <1> SUFFICES ASSUME Init
               PROVE  Whole(trustStored, configStored, callbackStored) /\ ~Running
    BY DEF Sound
  <1>1. \A r \in Index : configStored[r] \in {0, Free}
    BY DEF Init
  <1>2. QED
    BY <1>1 DEF Init, Whole, Running, DefaultCallback

(* What flash holds is whole, whoever is saving. *)
LEMMA SoundIsWhole ==
  ASSUME TypeInv, Sound
  PROVE  Whole(trustStored, configStored, callbackStored)
  BY DEF Sound, OneOffer, Close, ViewsWhole

LEMMA RequestSound ==
  ASSUME TypeInv, Sound, Request
  PROVE  Sound'
  <1>1. Idle /\ OneOffer /\ Close /\ ViewsWhole
    BY RequestOffers DEF Sound, Idle
  <1> USE DEF Sound, OneOffer, Close, ViewsWhole, Idle, Running
  <1>2. ASSUME NEW anchors \in TrustContent, OfferTrust(anchors),
               Whole(anchors, configView, callbackView)
        PROVE  Sound'
    BY <1>1, <1>2 DEF OfferTrust, configVars, callbackVars, Trust!Offer, Whole
  <1>3. ASSUME NEW resources \in ConfigContent, OfferConfig(resources),
               Whole(trustView, resources, callbackView)
        PROVE  Sound'
    BY <1>1, <1>3 DEF OfferConfig, trustVars, callbackVars, Config!Offer, Whole
  <1>4. ASSUME NEW callback \in CallbackContent, OfferCallback(callback),
               Whole(trustView, configView, callback)
        PROVE  Sound'
    BY <1>1, <1>4 DEF OfferCallback, trustVars, configVars, Callback!Offer, Whole
  <1>5. Whole(trustView, configView, callbackView)
    BY <1>1
  <1>6. QED
    BY <1>2, <1>3, <1>4, <1>5, RequestKeepsWhole

LEMMA SaveSound ==
  ASSUME TypeInv, Sound, Save, ~Stray'
  PROVE  Sound'
  <1>1. Running
    BY DEF Save, SaveTrust, SaveConfig, SaveCallback, Trust!Settle, Trust!Accept,
           Trust!Reject, Config!Settle, Config!Accept, Config!Reject, Callback!Settle,
           Callback!Accept, Callback!Reject, TypeInv, Alive, Offs
  <1>2. OneOffer /\ Close /\ ViewsWhole
    BY <1>1 DEF Sound
  <1> USE DEF Sound, OneOffer, Close, ViewsWhole, Running, Stray, Idle, TypeInv, TypeOK,
              ReferenceTypes
  <1>3. CASE SaveTrust
    BY <1>1, <1>2, <1>3, Markers
    DEF SaveTrust, Trust!Settle, Trust!Accept, Trust!Reject, configVars, callbackVars, Whole
  <1>4. CASE SaveConfig
    BY <1>1, <1>2, <1>4, Markers
    DEF SaveConfig, Config!Settle, Config!Accept, Config!Reject, trustVars, callbackVars, Whole
  <1>5. CASE SaveCallback
    BY <1>1, <1>2, <1>5, Markers
    DEF SaveCallback, Callback!Settle, Callback!Accept, Callback!Reject, trustVars,
        configVars, Whole
  <1>6. QED
    BY <1>3, <1>4, <1>5 DEF Save

LEMMA SoundStep ==
  ASSUME TypeInv, Sound, [Next]_vars, ~strayed'
  PROVE  Sound'
  <1>1. CASE Request
    BY <1>1, RequestSound
  <1>2. CASE Save /\ Next
    BY <1>2, SaveSound DEF Next
  <1>3. CASE PowerLoss
    <2>1. Whole(trustStored, configStored, callbackStored)
      BY SoundIsWhole
    <2>2. QED
      BY <1>3, <2>1
      DEF PowerLoss, Trust!PowerLoss, Config!PowerLoss, Callback!PowerLoss, Sound, Running, Whole
  <1>4. CASE PowerUp
    <2>1. Whole(trustStored, configStored, callbackStored)
      BY SoundIsWhole
    <2>2. Offs
      BY <1>4 DEF PowerUp, Trust!Recover, TypeInv, Alive, Running
    <2>3. QED
      BY <1>4, <2>1, <2>2, Markers
      DEF PowerUp, Trust!Recover, Config!Recover, Callback!Recover, Sound, Running, Whole,
          OneOffer, Close, ViewsWhole, Offs, TypeInv, TypeOK, ReferenceTypes
  <1>5. CASE FactoryReset
    BY <1>5 DEF FactoryReset, DefaultConfig, DefaultCallback, Sound, Running, Whole
  <1>6. CASE UNCHANGED vars
    BY <1>6 DEF vars, trustVars, configVars, callbackVars, Sound, Running, Whole, OneOffer,
                Close, ViewsWhole
  <1>7. QED
    BY <1>1, <1>2, <1>3, <1>4, <1>5, <1>6 DEF Next

LEMMA NextIInv == IInv /\ [Next]_vars => IInv'
  <1> SUFFICES ASSUME IInv, [Next]_vars
               PROVE  IInv'
    OBVIOUS
  <1>1. TypeInv'
    BY TypeStep DEF IInv
  <1>2. ASSUME ~strayed'
        PROVE  ~strayed
    BY <1>2 DEF Next, vars
  <1>3. QED
    BY <1>1, <1>2, SoundStep DEF IInv

THEOREM ReferenceInvariant == Spec => []IInv
  <1>1. Init => IInv
    BY TypeInitially, SoundInitially DEF IInv
  <1>2. QED
    BY <1>1, NextIInv, PTL DEF Spec

(* Until a refused save leaves its content in flash, no resource and no     *)
(* enabled callback of the running device names an empty slot.              *)
THEOREM NothingDangles == Spec => []NoDanglingReference
  <1>1. IInv => NoDanglingReference
    BY DEF IInv, Sound, ViewsWhole, NoDanglingReference
  <1>2. QED
    BY <1>1, ReferenceInvariant, PTL

(* Until then, what a power-up would find is whole, too. *)
THEOREM NothingDanglesInFlash == Spec => []FlashIsWhole
  <1>1. IInv => FlashIsWhole
    BY SoundIsWhole DEF IInv, FlashIsWhole
  <1>2. QED
    BY <1>1, ReferenceInvariant, PTL
=============================================================================
