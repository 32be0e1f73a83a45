---------------------------- MODULE SnapshotStore ----------------------------
(***************************************************************************)
(* The A/B snapshot protocol shared by the user store, the health-check     *)
(* configuration, the callback configuration and the TLS server credential: *)
(* every save increments the generation, erases the inactive sector,        *)
(* programs the complete candidate into it, reads it back, and only then    *)
(* makes it the active snapshot.  At start-up the valid sector of the       *)
(* larger generation is chosen; failing that an older format is migrated,   *)
(* and failing that the compiled default is used.                           *)
(*                                                                          *)
(* The client operations are abstracted to "save some content"; the modules *)
(* that extend this one say which contents.  Each flash operation is one    *)
(* step: the driver holds its mutex for one operation, and power may fail   *)
(* between any two of them.  An operation cut short by a power loss is a    *)
(* failing operation followed by Crash.                                     *)
(***************************************************************************)
EXTENDS Naturals

CONSTANTS
  Content,         \* what a snapshot can hold besides its header
  LegacyContent,   \* what a snapshot of the previous format can hold
  Default,         \* content of a store that was never written
  Migrated,        \* [LegacyContent -> Content], the one-time migration
  Seeding,         \* whether start-up saves the default into a blank store:
                   \* {TRUE}, {FALSE}, or both kinds of store at once
  MaxGeneration,   \* bound on the generation counter (uint32_t in the code)
  Down, NoOffer    \* markers of the abstract register

ASSUME StoreAssumption ==
  /\ Default \in Content
  /\ Migrated \in [LegacyContent -> Content]
  /\ Seeding \in SUBSET BOOLEAN
  /\ MaxGeneration \in Nat \ {0}
  /\ Down \notin Content /\ NoOffer \notin Content

VARIABLES
  flash,          \* image in each of the two sectors
  activeAddress,  \* sector of the active snapshot
  snapshot,       \* the active snapshot, in RAM
  candidate,      \* the snapshot being saved
  phase,          \* where the store's code is
  caller,         \* who called Save: start-up or a client
  status,         \* what the last operation returned
  misread         \* history: a read has failed during start-up

storeVars ==
  <<flash, activeAddress, snapshot, candidate, phase, caller, status, misread>>

Bank == {"A", "B"}
Other(b) == IF b = "A" THEN "B" ELSE "A"

Snapshot == [generation : Nat, content : Content]

(***************************************************************************)
(* A sector image.  CRC, magic and version decide whether a sector counts   *)
(* as a snapshot; "torn" is everything they reject.                         *)
(***************************************************************************)
Image == [kind : {"erased", "torn", "current", "legacy"},
          generation : Nat,
          content : Content \cup LegacyContent]

Erased == [kind |-> "erased", generation |-> 0, content |-> Default]
Torn == [kind |-> "torn", generation |-> 0, content |-> Default]
Written(s) ==
  [kind |-> "current", generation |-> s.generation, content |-> s.content]

(***************************************************************************)
(* Choice at start-up: the readable sector of the wanted format with the    *)
(* larger generation, sector A on a tie.  A sector whose read fails counts  *)
(* as invalid.                                                              *)
(***************************************************************************)
IsValid(b, kind, unreadable) == b \notin unreadable /\ flash[b].kind = kind

Chosen(kind, unreadable) ==
  IF /\ IsValid("A", kind, unreadable)
     /\ \/ ~IsValid("B", kind, unreadable)
        \/ flash["A"].generation >= flash["B"].generation
  THEN "A"
  ELSE IF IsValid("B", kind, unreadable) THEN "B" ELSE "none"

-----------------------------------------------------------------------------
(* Flash as shipped, or as the previous firmware left it: a newest snapshot *)
(* in the old format, beside an older one, a blank sector or a torn one.    *)
LegacyImage(g, c) == [kind |-> "legacy", generation |-> g, content |-> c]

Init ==
  /\ \/ flash = [b \in Bank |-> Erased]
     \/ \E g \in 1 .. (MaxGeneration - 1), b \in Bank, old, older \in LegacyContent :
          \E rest \in {Erased, Torn, LegacyImage(g - 1, older)} :
            flash = [c \in Bank |-> IF c = b THEN LegacyImage(g, old) ELSE rest]
  /\ activeAddress = "A"
  /\ snapshot = [generation |-> 0, content |-> Default]
  /\ candidate = snapshot
  /\ phase = "off"
  /\ caller = "none"
  /\ status = "none"
  /\ misread = FALSE

(* The save of `c` begins: the generation is incremented, the header and    *)
(* the checksum are filled in.                                              *)
BeginSave(c, generation, who) ==
  /\ generation < MaxGeneration
  /\ candidate' = [generation |-> generation + 1, content |-> c]
  /\ phase' = "erase"
  /\ caller' = who

(* Mutant: the active sector is overwritten in place. *)
InPlaceTarget == activeAddress

Target == Other(activeAddress)

(* Start-up found a valid snapshot. *)
InitLoad(unreadable) ==
  LET b == Chosen("current", unreadable) IN
  /\ phase = "off"
  /\ b # "none"
  /\ snapshot' = [generation |-> flash[b].generation,
                  content |-> flash[b].content]
  /\ activeAddress' = b
  /\ phase' = "ready"
  /\ status' = "none"
  /\ UNCHANGED <<flash, candidate, caller>>

(* Start-up found only the previous format: migrate it and save the result, *)
(* the saved object being the live snapshot itself.                         *)
InitMigrate(unreadable, legacyUnreadable) ==
  LET b == Chosen("legacy", legacyUnreadable) IN
  /\ phase = "off"
  /\ Chosen("current", unreadable) = "none"
  /\ b # "none"
  /\ activeAddress' = b
  /\ BeginSave(Migrated[flash[b].content], flash[b].generation, "init")
  /\ snapshot' = candidate'
  /\ status' = "none"
  /\ UNCHANGED flash

(* Start-up found nothing: the default, saved at once by the stores that    *)
(* seed themselves and kept in RAM only by the ones that do not.            *)
InitDefault(unreadable, legacyUnreadable) ==
  /\ phase = "off"
  /\ Chosen("current", unreadable) = "none"
  /\ Chosen("legacy", legacyUnreadable) = "none"
  /\ activeAddress' = "B"
  /\ \/ /\ TRUE \in Seeding
        /\ BeginSave(Default, 0, "init")
        /\ snapshot' = candidate'
     \/ /\ FALSE \in Seeding
        /\ snapshot' = [generation |-> 0, content |-> Default]
        /\ phase' = "ready"
        /\ UNCHANGED <<candidate, caller>>
  /\ status' = "none"
  /\ UNCHANGED flash

(* A client operation hands the store new content. *)
StartSave(c) ==
  /\ phase = "ready"
  /\ BeginSave(c, snapshot.generation, "client")
  /\ UNCHANGED <<flash, activeAddress, snapshot, status>>

(* Mutant: the live snapshot is modified before the save is known to be good. *)
SaveFailedPublished ==
  /\ phase' = IF caller = "init" THEN "halted" ELSE "ready"
  /\ caller' = "none"
  /\ status' = "error"
  /\ snapshot' = candidate
  /\ UNCHANGED <<activeAddress, candidate>>

(* Where a failed save leaves the code: the client gets an error and the    *)
(* store goes on with the old snapshot; at start-up Error_Handler stops the *)
(* system.                                                                  *)
SaveFailed ==
  /\ phase' = IF caller = "init" THEN "halted" ELSE "ready"
  /\ caller' = "none"
  /\ status' = "error"
  /\ UNCHANGED <<activeAddress, snapshot, candidate>>

SetTarget(image) == flash' = [flash EXCEPT ![Target] = image]

(* W25Q64_EraseSector(target).  A failing erase may have done nothing, some *)
(* of its work or all of it; a completed one may leave weak bits behind.    *)
EraseTarget ==
  /\ phase = "erase"
  /\ \/ /\ \E image \in {Erased, Torn} : SetTarget(image)
        /\ phase' = "program"
        /\ UNCHANGED <<activeAddress, snapshot, candidate, caller, status>>
     \/ /\ \E image \in {Erased, Torn, flash[Target]} : SetTarget(image)
        /\ SaveFailed

(* W25Q64_Program(target, candidate): NOR programming only clears bits, so  *)
(* it produces the candidate only in an erased sector.                      *)
ProgramResults ==
  IF flash[Target] = Erased THEN {Written(candidate), Torn} ELSE {Torn}

ProgramTarget ==
  /\ phase = "program"
  /\ \/ /\ \E image \in ProgramResults : SetTarget(image)
        /\ phase' = "verify"
        /\ UNCHANGED <<activeAddress, snapshot, candidate, caller, status>>
     \/ /\ \E image \in ProgramResults \cup {flash[Target]} : SetTarget(image)
        /\ SaveFailed

(* Mutant: no read-back. *)
VerifyNothing ==
  /\ phase = "verify"
  /\ snapshot' = candidate
  /\ activeAddress' = Target
  /\ phase' = "ready"
  /\ caller' = "none"
  /\ status' = "ok"
  /\ UNCHANGED <<flash, candidate>>

(* The read-back: the sector must hold a valid snapshot of the candidate's  *)
(* generation.                                                              *)
VerifyTarget ==
  /\ phase = "verify"
  /\ \/ /\ flash[Target].kind = "current"
        /\ flash[Target].generation = candidate.generation
        /\ snapshot' = candidate
        /\ activeAddress' = Target
        /\ phase' = "ready"
        /\ caller' = "none"
        /\ status' = "ok"
        /\ UNCHANGED <<flash, candidate>>
     \/ /\ SaveFailed
        /\ UNCHANGED flash

(* Power loss, watchdog reset or a reset after Error_Handler: RAM is gone.  *)
Crash ==
  /\ phase # "off"
  /\ phase' = "off"
  /\ caller' = "none"
  /\ status' = "none"
  /\ UNCHANGED <<flash, activeAddress, snapshot, candidate>>

(* The init function of a store; any of the sectors it reads, `u`, and reads *)
(* again for the old format, `l`, may be unreadable.                         *)
Boot ==
  \E u, l \in SUBSET Bank :
    /\ InitLoad(u) \/ InitMigrate(u, l) \/ InitDefault(u, l)
    /\ misread' = (misread \/ u \cup l # {})

SaveStep == EraseTarget \/ ProgramTarget \/ VerifyTarget

Next ==
  \/ Boot
  \/ /\ \/ \E c \in Content : StartSave(c)
        \/ SaveStep
        \/ Crash
     /\ UNCHANGED misread

Spec == Init /\ [][Next]_storeVars

-----------------------------------------------------------------------------
SnapshotTypes ==
  /\ flash \in [Bank -> Image]
  /\ \A b \in Bank :
       /\ flash[b].kind = "current" => flash[b].content \in Content
       /\ flash[b].kind = "legacy" => flash[b].content \in LegacyContent
  /\ activeAddress \in Bank
  /\ snapshot \in Snapshot
  /\ candidate \in Snapshot
  /\ phase \in {"off", "erase", "program", "verify", "ready", "halted"}
  /\ caller \in {"none", "init", "client"}
  /\ status \in {"none", "ok", "error"}

(* Type invariant of the store: the live snapshot, the candidate and both   *)
(* sector images stay well formed whatever the flash does.                  *)
TypeOK == SnapshotTypes /\ misread \in BOOLEAN

(* What a start-up that can read the flash would show now. *)
Recovered ==
  LET b == Chosen("current", {})
      l == Chosen("legacy", {})
  IN  IF b # "none" THEN flash[b].content
      ELSE IF l # "none" THEN Migrated[flash[l].content]
      ELSE Default

RecoveredGeneration ==
  LET b == Chosen("current", {}) IN IF b # "none" THEN flash[b].generation ELSE 0

Serving == phase = "ready" \/ caller = "client"

(* The promises below hold until a read fails during start-up: the init     *)
(* functions take an unreadable sector for an invalid one and go on with    *)
(* the other sector or the default, which later saves may then write over   *)
(* the sector that was not read.                                            *)

(* A save that returned OK is what the next power-up shows, as long as no   *)
(* later save was started: the read-back in Save happens before the active  *)
(* sector changes, and nothing else touches that sector.                    *)
AcknowledgedIsDurable ==
  ~misread /\ phase = "ready" /\ status = "ok" => Recovered = snapshot.content

(* While clients are served, a power-up never falls back behind the         *)
(* snapshot they see, at any point of a save in progress or of one that     *)
(* failed half-way.                                                         *)
NoRollback == ~misread /\ Serving => RecoveredGeneration >= snapshot.generation

(* Right after start-up the store shows the newest valid snapshot in flash. *)
BootServesNewest ==
  ~misread /\ phase = "ready" /\ status = "none" =>
    /\ snapshot.content = Recovered
    /\ snapshot.generation = RecoveredGeneration

Register ==
  INSTANCE DurableRegister WITH
    stored <- Recovered,
    view <- IF Serving THEN snapshot.content ELSE Down,
    offered <- IF caller = "client" THEN candidate.content ELSE NoOffer

(* The store implements a durable register: whatever the flash operations   *)
(* return and wherever power fails, a power-up shows the last acknowledged  *)
(* content or one whose save was under way or refused, migrations included. *)
ImplementsRegister ==
  Register!RegisterInit /\ [][Register!RegisterNext \/ misread']_(Register!registerVars)
=============================================================================
