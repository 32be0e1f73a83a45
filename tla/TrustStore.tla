------------------------------ MODULE TrustStore ------------------------------
(***************************************************************************)
(* The trust store: CA certificates in numbered slots, kept as an A/B       *)
(* snapshot in two banks of three flash sectors.  Unlike the one-sector     *)
(* stores it edits its live snapshot in place and, when a commit fails,     *)
(* loads the active bank again.  The banks of the previous format lie where *)
(* bank B is now, so the migration must reach bank A before bank B is       *)
(* touched.                                                                 *)
(*                                                                          *)
(* The store's mutex is held for a whole operation; power may fail at every *)
(* flash operation.                                                         *)
(***************************************************************************)
EXTENDS TrustAnchors, FiniteSetsExt

CONSTANTS
  Certificate,     \* CA certificates that pass the validation
  DefaultRoot,     \* the compiled default certificate
  Vacant,          \* content of a free slot
  MaxGeneration    \* bound on the generation counter (uint32_t in the code)

Anchors == [Id -> Certificate \cup {Vacant}]
LegacyAnchors == [0 .. MaxPersisted - 1 -> Certificate \cup {Vacant}]

ASSUME TrustAssumption ==
  /\ MaxPersisted \in Nat \ {0}
  /\ DefaultRoot \in Certificate
  /\ Vacant \notin Certificate
  /\ MaxGeneration \in Nat \ {0}
  /\ Down \notin Anchors /\ NoOffer \notin Anchors

VARIABLES
  flash,          \* the seven sectors of the banks, old and new
  activeAddress,  \* the active bank
  live,           \* trustStoreSnapshot
  phase,          \* where the store's code is
  index,          \* sector of the target being erased
  caller,         \* who commits: start-up or a client
  acknowledged,   \* history: anchors last loaded or committed
  offered,        \* history: anchors a client is committing
  misread         \* history: a read has failed

storeVars ==
  <<flash, activeAddress, live, phase, index, caller, acknowledged, offered, misread>>

(* Sectors of the banks, new and old; the old ones overlap with bank B. *)
First == [A |-> 1, B |-> 4, oldA |-> 4, oldB |-> 6]
Last == [A |-> 3, B |-> 6, oldA |-> 5, oldB |-> 7]
Place(place) == First[place] .. Last[place]
Sector == 1 .. 7
BankSectors == 3

(* What a sector holds: nothing, bytes no checksum covers, or its part of an *)
(* image of the current or the previous format.                              *)
Erased == [kind |-> "erased", generation |-> 0, anchors |-> <<>>]
Torn == [kind |-> "torn", generation |-> 0, anchors |-> <<>>]
Part(kind, generation, anchors) ==
  [kind |-> kind, generation |-> generation, anchors |-> anchors]

Holds(place, part) == \A s \in Place(place) : flash[s] = part

(* What reading a place yields. *)
At(place) == flash[First[place]]

(* tlsTrustStore_IsSnapshotValid and tlsTrustStore_IsLegacySnapshotValid. *)
IsValid(place, kind) == At(place).kind = kind /\ Holds(place, At(place))

-----------------------------------------------------------------------------
(* Flash as shipped, or as the previous firmware left it. *)
TrustInit ==
  /\ \/ flash = [s \in Sector |-> Erased]
     \/ \E g \in 1 .. (MaxGeneration - 1), old, older \in LegacyAnchors :
          \E newer \in {"oldA", "oldB"} :
            \E rest \in {Erased, Torn, Part("legacy", g - 1, older)} :
              flash = [s \in Sector |->
                         IF s \in Place(newer) THEN Part("legacy", g, old)
                         ELSE IF s \in Place("oldA") \cup Place("oldB") THEN rest
                         ELSE Erased]
  /\ activeAddress = "A"
  /\ live = [generation |-> 0, anchors |-> [i \in Id |-> Vacant]]
  /\ phase = "off"
  /\ index = 1
  /\ caller = "none"
  /\ acknowledged = live.anchors
  /\ offered = NoOffer
  /\ misread = FALSE

(* The newer of two places that were read and are valid, the first on a tie. *)
Newer(first, second, kind, unread) ==
  LET valid == {p \in {first, second} \ unread : IsValid(p, kind)} IN
  IF valid = {} THEN "none"
  ELSE IF first \in valid
          /\ (second \in valid => At(first).generation >= At(second).generation)
       THEN first
       ELSE second

(* The new default goes into slot 0, in front of the slots of the old format. *)
Migrated(old) == [i \in Id |-> IF i = 0 THEN DefaultRoot ELSE old[i - 1]]

BlankAnchors == [i \in Id |-> IF i = 0 THEN DefaultRoot ELSE Vacant]

(* tlsTrustStore_CommitCandidate, up to the first flash operation: the live *)
(* snapshot itself becomes the candidate.                                   *)
BeginCommit(generation, anchors, who) ==
  /\ generation < MaxGeneration
  /\ live' = [generation |-> generation + 1, anchors |-> anchors]
  /\ phase' = "erase"
  /\ index' = 1
  /\ caller' = who

(* TlsTrustStore_Init with a snapshot of the current format; sector A is    *)
(* read once more and a failure there stops the system.                     *)
InitLoad(unread) ==
  LET bank == Newer("A", "B", "current", unread) IN
  /\ phase = "off"
  /\ bank # "none"
  /\ \/ /\ live' = [generation |-> At(bank).generation, anchors |-> At(bank).anchors]
        /\ acknowledged' = At(bank).anchors
        /\ activeAddress' = bank
        /\ phase' = "ready"
        /\ misread' = (misread \/ unread # {})
     \/ /\ bank = "A"
        /\ phase' = "halted"
        /\ misread' = TRUE
        /\ UNCHANGED <<live, acknowledged, activeAddress>>
  /\ UNCHANGED <<flash, index, caller, offered>>

(* Mutant: the migration goes to bank B. *)
MigrationOverOldBanks == "A"

MigrationActive == "B"

(* TlsTrustStore_Init without one: the old format is migrated, or the       *)
(* default is put into an empty store.  The first old bank is read once     *)
(* more, and when that read fails, other bytes are migrated.                *)
InitMigrate(unread, oldUnread) ==
  LET old == Newer("oldA", "oldB", "legacy", oldUnread) IN
  /\ phase = "off"
  /\ Newer("A", "B", "current", unread) = "none"
  /\ activeAddress' = MigrationActive
  /\ \/ /\ old # "none"
        /\ BeginCommit(At(old).generation, Migrated(At(old).anchors), "init")
        /\ misread' = (misread \/ unread # {} \/ oldUnread # {})
     \/ /\ old = "oldA"
        /\ \E g \in 0 .. MaxGeneration, anchors \in LegacyAnchors :
             BeginCommit(g, Migrated(anchors), "init")
        /\ misread' = TRUE
     \/ /\ old = "none"
        /\ BeginCommit(0, BlankAnchors, "init")
        /\ misread' = (misread \/ unread # {} \/ oldUnread # {})
  /\ UNCHANGED <<flash, acknowledged, offered>>

-----------------------------------------------------------------------------
(* The operations of the API task. *)
Commit(anchors) ==
  /\ phase = "ready"
  /\ BeginCommit(live.generation, anchors, "client")
  /\ offered' = anchors
  /\ UNCHANGED <<flash, activeAddress, acknowledged, misread>>

Occupied == {i \in Id : live.anchors[i] # Vacant}

Add(certificate) ==
  /\ Occupied # Id
  /\ Commit([live.anchors EXCEPT ![Min(Id \ Occupied)] = certificate])

Replace(i, certificate) ==
  /\ i \in Occupied
  /\ Commit([live.anchors EXCEPT ![i] = certificate])

Delete(i) ==
  /\ i \in Occupied
  /\ Commit([live.anchors EXCEPT ![i] = Vacant])

Reset == Commit([i \in Id |-> Vacant])

-----------------------------------------------------------------------------
Target == IF activeAddress = "A" THEN "B" ELSE "A"

SetSectors(sectors, part) ==
  flash' = [s \in Sector |-> IF s \in sectors THEN part ELSE flash[s]]

MoreSectors == index < BankSectors

(* tlsTrustStore_Save: the sectors of the target are erased one by one, ... *)
EraseSector ==
  LET sector == First[Target] + index - 1 IN
  /\ phase = "erase"
  /\ \/ /\ \E part \in {Erased, Torn} : SetSectors({sector}, part)
        /\ IF MoreSectors
           THEN index' = index + 1 /\ UNCHANGED phase
           ELSE phase' = "program" /\ UNCHANGED index
     \/ /\ \E part \in {Erased, Torn, flash[sector]} : SetSectors({sector}, part)
        /\ phase' = "reload"
        /\ UNCHANGED index
  /\ UNCHANGED <<activeAddress, live, caller, acknowledged, offered, misread>>

(* ... programmed, ... *)
Programmed ==
  IF Holds(Target, Erased)
  THEN {Part("current", live.generation, live.anchors), Torn}
  ELSE {Torn}

ProgramBank ==
  /\ phase = "program"
  /\ \/ /\ \E part \in Programmed : SetSectors(Place(Target), part)
        /\ phase' = "verify"
     \/ /\ \/ \E part \in Programmed : SetSectors(Place(Target), part)
           \/ UNCHANGED flash
        /\ phase' = "reload"
  /\ UNCHANGED <<activeAddress, live, index, caller, acknowledged, offered, misread>>

(* ... and read back into the live snapshot. *)
VerifyBank ==
  /\ phase = "verify"
  /\ \/ /\ IsValid(Target, "current")
        /\ live' = [generation |-> At(Target).generation, anchors |-> At(Target).anchors]
        /\ activeAddress' = Target
        /\ phase' = "ready"
        /\ caller' = "none"
        /\ acknowledged' = live'.anchors
        /\ offered' = NoOffer
     \/ /\ phase' = "reload"
        /\ UNCHANGED <<activeAddress, live, caller, acknowledged, offered>>
  /\ UNCHANGED <<flash, index, misread>>

(* Where a failed commit leaves the code: a client gets an error, at        *)
(* start-up Error_Handler stops the system.                                 *)
CommitFailed ==
  /\ phase' = IF caller = "init" THEN "halted" ELSE "ready"
  /\ caller' = "none"
  /\ offered' = NoOffer
  /\ UNCHANGED <<flash, activeAddress, index, acknowledged>>

(* Mutant: the edited snapshot stays. *)
ReloadNothing ==
  /\ phase = "reload"
  /\ CommitFailed
  /\ UNCHANGED <<live, misread>>

(* Stands for bytes that are no snapshot. *)
Scrambled == [generation |-> 0, anchors |-> [i \in Id |-> Vacant]]

(* The end of a failed commit: the active bank is loaded again.  When that  *)
(* read fails as well, the live snapshot holds what the commit left there:  *)
(* the candidate, or whatever the read-back put over it.                    *)
Reload ==
  /\ phase = "reload"
  /\ CommitFailed
  /\ \/ /\ IsValid(activeAddress, "current")
        /\ live' = [generation |-> At(activeAddress).generation,
                    anchors |-> At(activeAddress).anchors]
        /\ UNCHANGED misread
     \/ /\ caller = "init"
        /\ UNCHANGED <<live, misread>>
     \/ /\ caller = "client"
        /\ live' \in {live, Scrambled}
        /\ misread' = TRUE

(* Power loss, watchdog reset or a reset after Error_Handler: RAM is gone.  *)
Crash ==
  /\ phase # "off"
  /\ phase' = "off"
  /\ caller' = "none"
  /\ offered' = NoOffer
  /\ UNCHANGED <<flash, activeAddress, live, index, acknowledged, misread>>

Boot ==
  \/ \E unread \in SUBSET {"A", "B"} : InitLoad(unread)
  \/ \E unread \in SUBSET {"A", "B"}, oldUnread \in SUBSET {"oldA", "oldB"} :
       InitMigrate(unread, oldUnread)

Operation ==
  \/ \E certificate \in Certificate : Add(certificate)
  \/ \E i \in Id, certificate \in Certificate : Replace(i, certificate)
  \/ \E i \in Id : Delete(i)
  \/ Reset

CommitStep == EraseSector \/ ProgramBank \/ VerifyBank \/ Reload

TrustNext == Boot \/ Operation \/ CommitStep \/ Crash

TrustSpec == TrustInit /\ [][TrustNext]_storeVars

-----------------------------------------------------------------------------
TrustTypeOK ==
  /\ \A s \in Sector :
       /\ flash[s].kind \in {"erased", "torn", "current", "legacy"}
       /\ flash[s].generation \in 0 .. MaxGeneration
       /\ flash[s].kind = "current" => flash[s].anchors \in Anchors
       /\ flash[s].kind = "legacy" => flash[s].anchors \in LegacyAnchors
  /\ activeAddress \in {"A", "B"}
  /\ live \in [generation : 0 .. MaxGeneration, anchors : Anchors]
  /\ phase \in {"off", "erase", "program", "verify", "reload", "ready", "halted"}
  /\ index \in 1 .. BankSectors
  /\ caller \in {"none", "init", "client"}
  /\ acknowledged \in Anchors
  /\ offered \in Anchors \cup {NoOffer}
  /\ misread \in BOOLEAN

(* What a start-up that can read the flash would show now. *)
Recovered ==
  LET bank == Newer("A", "B", "current", {})
      old == Newer("oldA", "oldB", "legacy", {})
  IN  IF bank # "none" THEN At(bank).anchors
      ELSE IF old # "none" THEN Migrated(At(old).anchors)
      ELSE BlankAnchors

Serving == phase = "ready" \/ caller = "client"

(* Although the live snapshot is edited before it is saved, whoever takes   *)
(* the mutex finds the anchors last loaded or committed, after every commit *)
(* that failed at whichever operation, as long as flash can be read.        *)
ServedIsAcknowledged == phase = "ready" /\ ~misread => live.anchors = acknowledged

Register ==
  INSTANCE DurableRegister WITH
    Content <- Anchors,
    stored <- Recovered,
    view <- IF Serving THEN acknowledged ELSE Down,
    offered <- offered

(* As long as flash can be read, the store implements a durable register:   *)
(* wherever power fails, a sector erase of three or a migration over the    *)
(* old banks included, a start-up shows the anchors acknowledged last or    *)
(* those of the commit in progress.                                         *)
ImplementsRegister ==
  Register!RegisterInit /\ [][Register!RegisterNext \/ misread']_(Register!registerVars)
=============================================================================
