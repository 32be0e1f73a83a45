----------------------------- MODULE FactoryReset -----------------------------
(***************************************************************************)
(* The recoverable factory reset: a marker sector is written and verified   *)
(* before the first of the reset-owned data sectors is erased, and erased   *)
(* only after every one of them was erased and verified.  At start-up a     *)
(* valid marker makes the startup task finish the erasure before any store  *)
(* is opened.                                                               *)
(*                                                                          *)
(* A flash operation is one step: it may succeed, fail having done nothing, *)
(* part of its work or all of it, and power may fail after any step.  While *)
(* the reset runs, the flash lock is held and the scheduler is suspended,   *)
(* so no store operation interleaves with it.                               *)
(***************************************************************************)
EXTENDS Naturals

CONSTANTS
  SectorCount,  \* number of reset-owned data sectors, in erase order
  MaxFaults     \* bound on power losses and failing operations

ASSUME ResetAssumption ==
  /\ SectorCount \in Nat \ {0}
  /\ MaxFaults \in Nat

VARIABLES
  marker,   \* content of the marker sector
  sector,   \* content of each data sector
  pc,       \* where the code is
  index,    \* data sector being erased
  caller,   \* whether start-up or the button task runs the erasure
  faults,   \* faults so far
  touched,  \* history: sectors a reset has erased since stores were last open
  misread   \* history: the last start-up failed to read the marker

vars == <<marker, sector, pc, index, caller, faults, touched, misread>>

Sector == 1 .. SectorCount

Init ==
  /\ marker = "erased"
  /\ sector \in [Sector -> {"data", "erased"}]
  /\ pc = "off"
  /\ index = 1
  /\ caller = "none"
  /\ faults = 0
  /\ touched = {}
  /\ misread = FALSE

Fault == faults < MaxFaults /\ faults' = faults + 1

(* What an erase or a program leaves of a sector, with and without success. *)
AfterErase == {"erased", "torn"}
AfterFailedErase(old) == {"erased", "torn", old}
AfterProgram(old) == IF old = "erased" THEN {"valid", "torn"} ELSE {"torn"}

AllErased == \A s \in Sector : sector[s] = "erased"

-----------------------------------------------------------------------------
(* Power-up: the startup task reaches FactoryResetService_Recover. *)
PowerUp ==
  /\ pc = "off"
  /\ pc' = "recover"
  /\ UNCHANGED <<marker, sector, index, caller, faults, touched, misread>>

BeginErasure(who) ==
  /\ pc' = "eraseSector"
  /\ index' = 1
  /\ caller' = who

(* FactoryResetService_Recover: a marker that is absent, or cannot be read, *)
(* means that there is nothing to resume.                                   *)
Recover ==
  /\ pc = "recover"
  /\ \/ /\ marker = "valid"
        /\ BeginErasure("recover")
        /\ misread' = FALSE
        /\ UNCHANGED faults
     \/ /\ \/ marker # "valid" /\ misread' = FALSE /\ UNCHANGED faults
           \/ Fault /\ misread' = TRUE
        /\ pc' = "opening"
        /\ UNCHANGED <<index, caller>>
  /\ UNCHANGED <<marker, sector, touched>>

(* The startup task goes on to open, and where needed seed, the stores. *)
OpenStores ==
  /\ pc = "opening"
  /\ pc' = "running"
  /\ touched' = {}
  /\ UNCHANGED <<marker, sector, index, caller, faults, misread>>

(* Any flash operation of a store; it holds the driver's mutex throughout.  *)
StoreOperation(s) ==
  /\ pc = "running"
  /\ \E content \in {"data", "torn", "erased"} :
       sector' = [sector EXCEPT ![s] = content]
  /\ UNCHANGED <<marker, pc, index, caller, faults, touched, misread>>

(* The button task was not cancelled: it takes the flash lock and suspends  *)
(* the scheduler.                                                           *)
Execute ==
  /\ pc = "running"
  /\ pc' = "armErase"
  /\ UNCHANGED <<marker, sector, index, caller, faults, touched, misread>>

(* factoryReset_Arm: a failure resumes the scheduler and gives the reset up. *)
ArmErase ==
  /\ pc = "armErase"
  /\ \/ /\ marker' \in AfterErase
        /\ pc' = "armProgram"
        /\ UNCHANGED faults
     \/ /\ marker' \in AfterFailedErase(marker)
        /\ pc' = "running"
        /\ Fault
  /\ UNCHANGED <<sector, index, caller, touched, misread>>

ArmProgram ==
  /\ pc = "armProgram"
  /\ \/ /\ marker' \in AfterProgram(marker)
        /\ pc' = "armVerify"
        /\ UNCHANGED faults
     \/ /\ marker' \in AfterProgram(marker) \cup {marker}
        /\ pc' = "running"
        /\ Fault
  /\ UNCHANGED <<sector, index, caller, touched, misread>>

(* Mutant: the marker is not read back before the erasure. *)
ArmUnverified ==
  /\ pc = "armVerify"
  /\ BeginErasure("execute")
  /\ UNCHANGED <<marker, sector, faults, touched, misread>>

ArmVerify ==
  /\ pc = "armVerify"
  /\ \/ /\ marker = "valid"
        /\ BeginErasure("execute")
        /\ UNCHANGED faults
     \/ /\ \/ marker # "valid" /\ UNCHANGED faults
           \/ Fault
        /\ pc' = "running"
        /\ UNCHANGED <<index, caller>>
  /\ UNCHANGED <<marker, sector, touched, misread>>

(* A step of the erasure failed: the button task resets the chip, start-up  *)
(* stops in Error_Handler.                                                  *)
ErasureFails == pc' = IF caller = "execute" THEN "off" ELSE "halted"

(* factoryReset_ErasePersistentData: one sector is erased ... *)
EraseDataSector ==
  /\ pc = "eraseSector"
  /\ \/ /\ \E content \in AfterErase : sector' = [sector EXCEPT ![index] = content]
        /\ pc' = "verifySector"
        /\ UNCHANGED faults
     \/ /\ \E content \in AfterFailedErase(sector[index]) :
             sector' = [sector EXCEPT ![index] = content]
        /\ ErasureFails
        /\ Fault
  /\ touched' = touched \cup {index}
  /\ UNCHANGED <<marker, index, caller, misread>>

(* Mutant: the erased sector is not read back. *)
VerifyNothing ==
  /\ pc = "verifySector"
  /\ IF index < SectorCount
     THEN pc' = "eraseSector" /\ index' = index + 1
     ELSE pc' = "eraseMarker" /\ UNCHANGED index
  /\ UNCHANGED <<marker, sector, caller, faults, touched, misread>>

(* ... and read back; only a sector that reads erased lets the loop go on.  *)
VerifyErased ==
  /\ pc = "verifySector"
  /\ \/ /\ sector[index] = "erased"
        /\ IF index < SectorCount
           THEN pc' = "eraseSector" /\ index' = index + 1
           ELSE pc' = "eraseMarker" /\ UNCHANGED index
        /\ UNCHANGED faults
     \/ /\ \/ sector[index] # "erased" /\ UNCHANGED faults
           \/ Fault
        /\ ErasureFails
        /\ UNCHANGED index
  /\ UNCHANGED <<marker, sector, caller, touched, misread>>

(* Mutant: the marker is never cleared and start-up resets again. *)
KeepMarker ==
  /\ pc = "eraseMarker"
  /\ pc' = "off"
  /\ UNCHANGED <<marker, sector, index, caller, faults, touched, misread>>

(* The marker goes last.  The button task then resets the chip; start-up    *)
(* goes on to the stores.                                                   *)
EraseMarker ==
  /\ pc = "eraseMarker"
  /\ \/ /\ marker' \in AfterErase
        /\ pc' = IF caller = "execute" THEN "off" ELSE "opening"
        /\ UNCHANGED faults
     \/ /\ marker' \in AfterFailedErase(marker)
        /\ ErasureFails
        /\ Fault
  /\ UNCHANGED <<sector, index, caller, touched, misread>>

(* Power loss or watchdog reset. *)
Crash ==
  /\ pc \notin {"off", "halted"}
  /\ Fault
  /\ pc' = "off"
  /\ UNCHANGED <<marker, sector, index, caller, touched, misread>>

(* Error_Handler spins with interrupts disabled until the watchdog, where it *)
(* was started in time, or the operator resets the chip.                    *)
Restart ==
  /\ pc = "halted"
  /\ pc' = "off"
  /\ UNCHANGED <<marker, sector, index, caller, faults, touched, misread>>

ErasureStep == EraseDataSector \/ VerifyErased \/ EraseMarker

Next ==
  \/ PowerUp
  \/ Recover
  \/ OpenStores
  \/ \E s \in Sector : StoreOperation(s)
  \/ Execute
  \/ ArmErase
  \/ ArmProgram
  \/ ArmVerify
  \/ ErasureStep
  \/ Crash
  \/ Restart

Spec == Init /\ [][Next]_vars

(* The startup task and the reset code run on once started: nothing of      *)
(* higher priority can keep the processor from them for ever.               *)
Fairness == WF_vars(PowerUp \/ Recover \/ OpenStores \/ ErasureStep)

FairSpec == Spec /\ Fairness

-----------------------------------------------------------------------------
TypeOK ==
  /\ marker \in {"erased", "torn", "valid"}
  /\ sector \in [Sector -> {"data", "torn", "erased"}]
  /\ pc \in {"off", "recover", "opening", "running", "armErase", "armProgram",
             "armVerify", "eraseSector", "verifySector", "eraseMarker", "halted"}
  /\ index \in Sector
  /\ caller \in {"none", "recover", "execute"}
  /\ faults \in 0 .. MaxFaults
  /\ touched \in SUBSET Sector
  /\ misread \in BOOLEAN

(* From the first data sector a reset erases, the marker stays valid until  *)
(* every data sector is erased: wherever power fails, start-up finishes the *)
(* reset.                                                                   *)
ResumableOrComplete == touched # {} => marker = "valid" \/ AllErased

(* Stores are opened only over data no reset has touched, or over flash     *)
(* that a reset has erased completely, if this start-up read the marker.    *)
OpensWholeState == pc = "opening" /\ ~misread => touched = {} \/ AllErased

(* The same without a condition: start-up completes an interrupted erasure  *)
(* before it opens any store.                                               *)
CompletesBeforeOpening == pc = "opening" => touched = {} \/ AllErased

(* A reset that has erased anything ends with the stores running again, or  *)
(* with the system stopped by a failing flash.                              *)
WipeEnds == (touched # {}) ~> (pc \in {"running", "halted"})
=============================================================================
