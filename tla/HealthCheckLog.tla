---------------------------- MODULE HealthCheckLog ----------------------------
(***************************************************************************)
(* The health-check log: two sectors filled in turn as an append-only ring. *)
(* A record goes into the next slot of the active sector; when that sector  *)
(* is full the other one is erased and becomes active.  Nothing but the     *)
(* records themselves is stored: start-up scans both sectors to find where  *)
(* to go on and with which sequence number.                                 *)
(*                                                                          *)
(* The log mutex is held from the first to the last step of an append, and  *)
(* for a whole read, so an append is the only operation in progress; power  *)
(* may fail during each of its flash operations.                            *)
(***************************************************************************)
EXTENDS Naturals, Sequences, FiniteSets, FiniteSetsExt, SequencesExt

CONSTANTS
  SlotCount,       \* HEALTH_CHECK_LOG_SLOTS_PER_SECTOR
  MaxFaults,       \* bound on flash operations that fail or misprogram
  MaxLogSequence,  \* bound on the sequence counter (uint32_t in the code)
  MaxResults       \* HEALTH_CHECK_LOG_MAX_RESULTS

ASSUME LogAssumption ==
  /\ SlotCount \in Nat \ {0}
  /\ MaxFaults \in Nat
  /\ MaxLogSequence \in Nat \ {0}
  /\ MaxResults \in Nat \ {0}

VARIABLES
  flash,         \* both sectors
  activeSector, nextSlot, nextSequence,
  phase,         \* where the code is
  rollTarget,    \* sector being rolled to
  caller,        \* what rolls: start-up or an append
  acked,         \* history: sequence of the last append that returned OK
  faults,        \* history: faulty flash operations so far
  tainted        \* history: a start-up has scanned flash a fault had left behind

logVars ==
  <<flash, activeSector, nextSlot, nextSequence, phase, rollTarget, caller, acked, faults, tainted>>

Sector == {0, 1}
LogSlot == 0 .. (SlotCount - 1)

(***************************************************************************)
(* A slot: erased; smudged, when only bits after the sequence word were     *)
(* programmed; torn, when the checksum is wrong; or a record.               *)
(***************************************************************************)
Erased == [kind |-> "erased", sequence |-> 0]
Smudged == [kind |-> "smudged", sequence |-> 0]
Torn == [kind |-> "torn", sequence |-> 0]
Record(n) == [kind |-> "record", sequence |-> n]

LogInit ==
  /\ flash = [s \in Sector |-> [i \in LogSlot |-> Erased]]
  /\ activeSector = 0
  /\ nextSlot = 0
  /\ nextSequence = 0
  /\ phase = "off"
  /\ rollTarget = 0
  /\ caller = "none"
  /\ acked = 0
  /\ faults = 0
  /\ tainted = FALSE

Fault == faults < MaxFaults /\ faults' = faults + 1

-----------------------------------------------------------------------------
(* healthCheckLog_ScanSector: the used prefix ends at the first slot whose  *)
(* sequence word reads erased; unreadable and torn slots are stepped over.  *)
ReadsErased(s, unreadable) ==
  {i \in LogSlot : <<s, i>> \notin unreadable /\ flash[s][i].kind \in {"erased", "smudged"}}

NextAvailableSlot(s, unreadable) ==
  LET blank == ReadsErased(s, unreadable) IN
  IF blank = {} THEN SlotCount ELSE Min(blank)

ValidSlots(s, unreadable) ==
  {i \in LogSlot : /\ i < NextAvailableSlot(s, unreadable)
                /\ <<s, i>> \notin unreadable
                /\ flash[s][i].kind = "record"}

LastSequence(s, unreadable) ==
  LET valid == ValidSlots(s, unreadable) IN
  IF valid = {} THEN 0 ELSE flash[s][Max(valid)].sequence

(* At most one slot of a scan cannot be read. *)
OneSlot == {{p} : p \in Sector \X LogSlot}

RollToSector(s, who) ==
  /\ phase' = "erase"
  /\ rollTarget' = s
  /\ caller' = who

(* HealthCheckLog_Init. *)
Boot(unreadable) ==
  LET last(s) == LastSequence(s, unreadable)
      next(s) == NextAvailableSlot(s, unreadable)
      active == IF last(0) >= last(1) THEN 0 ELSE 1
  IN
  /\ phase = "off"
  /\ \/ /\ \A s \in Sector : ValidSlots(s, unreadable) = {}
        /\ nextSequence' = 1
        /\ RollToSector(0, "init")
        /\ UNCHANGED <<activeSector, nextSlot>>
     \/ /\ \E s \in Sector : ValidSlots(s, unreadable) # {}
        /\ nextSequence' = last(active) + 1
        /\ \/ /\ next(active) < SlotCount
              /\ activeSector' = active
              /\ nextSlot' = next(active)
              /\ phase' = "idle"
              /\ UNCHANGED <<rollTarget, caller>>
           \/ /\ next(active) >= SlotCount
              /\ RollToSector(1 - active, "init")
              /\ UNCHANGED <<activeSector, nextSlot>>
  /\ \/ unreadable = {} /\ UNCHANGED faults
     \/ unreadable # {} /\ Fault
  /\ tainted' = (faults' > 0)
  /\ UNCHANGED <<flash, acked>>

-----------------------------------------------------------------------------
(* Mutant: the full sector itself is erased. *)
RollInPlace ==
  /\ phase = "idle"
  /\ nextSequence < MaxLogSequence
  /\ \/ /\ nextSlot >= SlotCount
        /\ RollToSector(activeSector, "append")
     \/ /\ nextSlot < SlotCount
        /\ phase' = "program"
        /\ UNCHANGED <<rollTarget, caller>>
  /\ UNCHANGED <<flash, activeSector, nextSlot, nextSequence, acked, faults, tainted>>

(* Mutant: the ring rolls one slot early. *)
RollEarly ==
  /\ phase = "idle"
  /\ nextSequence < MaxLogSequence
  /\ \/ /\ nextSlot >= SlotCount - 1
        /\ RollToSector(1 - activeSector, "append")
     \/ /\ nextSlot < SlotCount - 1
        /\ phase' = "program"
        /\ UNCHANGED <<rollTarget, caller>>
  /\ UNCHANGED <<flash, activeSector, nextSlot, nextSequence, acked, faults, tainted>>

(* HealthCheckLog_Append, up to its first flash operation. *)
StartAppend ==
  /\ phase = "idle"
  /\ nextSequence < MaxLogSequence
  /\ \/ /\ nextSlot >= SlotCount
        /\ RollToSector(1 - activeSector, "append")
     \/ /\ nextSlot < SlotCount
        /\ phase' = "program"
        /\ UNCHANGED <<rollTarget, caller>>
  /\ UNCHANGED <<flash, activeSector, nextSlot, nextSequence, acked, faults, tainted>>

(* What an erase leaves behind: complete, cut short, with weak bits. *)
ErasedSector == [i \in LogSlot |-> Erased]
CutShortErases == {f \in [LogSlot -> {Erased, Torn} \cup {flash[rollTarget][i] : i \in LogSlot}] :
                     \A i \in LogSlot : f[i] \in {Erased, Torn, flash[rollTarget][i]}}
WeakErases == [LogSlot -> {Erased, Torn}] \ {ErasedSector}

(* Mutant: a roll restarts the sequence. *)
EraseRestartsSequence ==
  /\ phase = "erase"
  /\ flash' = [flash EXCEPT ![rollTarget] = ErasedSector]
  /\ activeSector' = rollTarget
  /\ nextSlot' = 0
  /\ nextSequence' = 1
  /\ phase' = IF caller = "init" THEN "idle" ELSE "program"
  /\ caller' = "none"
  /\ UNCHANGED <<rollTarget, acked, faults, tainted>>

(* healthCheckLog_RollToSector. *)
EraseTarget ==
  /\ phase = "erase"
  /\ \/ /\ \/ /\ flash' = [flash EXCEPT ![rollTarget] = ErasedSector]
              /\ UNCHANGED faults
           \/ /\ \E f \in WeakErases : flash' = [flash EXCEPT ![rollTarget] = f]
              /\ Fault
        /\ activeSector' = rollTarget
        /\ nextSlot' = 0
        /\ phase' = IF caller = "init" THEN "idle" ELSE "program"
     \/ /\ Fault
        /\ \E f \in CutShortErases : flash' = [flash EXCEPT ![rollTarget] = f]
        /\ phase' = IF caller = "init" THEN "halted" ELSE "idle"
        /\ UNCHANGED <<activeSector, nextSlot>>
  /\ caller' = "none"
  /\ UNCHANGED <<nextSequence, rollTarget, acked, tainted>>

SetSlot(content) == flash' = [flash EXCEPT ![activeSector][nextSlot] = content]

(* What programming the next slot can leave there: NOR programming only     *)
(* clears bits, so the record appears only in an erased slot.               *)
Programmed == IF flash[activeSector][nextSlot] = Erased THEN Record(nextSequence) ELSE Torn
CutShortPrograms ==
  {flash[activeSector][nextSlot], Programmed, Torn}
    \cup (IF flash[activeSector][nextSlot] = Erased THEN {Smudged} ELSE {})

(* Whatever happened to the slot, the next append uses the following one.   *)
FinishAppend ==
  /\ nextSlot' = nextSlot + 1
  /\ nextSequence' = nextSequence + 1
  /\ phase' = "idle"

ProgramRecord ==
  /\ phase = "program"
  /\ \/ /\ \/ SetSlot(Programmed) /\ UNCHANGED faults
           \/ (\E c \in CutShortPrograms : SetSlot(c)) /\ Fault
        /\ phase' = "verify"
        /\ UNCHANGED <<nextSlot, nextSequence>>
     \/ /\ Fault
        /\ \E c \in CutShortPrograms : SetSlot(c)
        /\ FinishAppend
  /\ UNCHANGED <<activeSector, rollTarget, caller, acked, tainted>>

(* The read-back decides what the append returns. *)
VerifyRecord ==
  /\ phase = "verify"
  /\ \/ /\ flash[activeSector][nextSlot] = Record(nextSequence)
        /\ acked' = nextSequence
        /\ UNCHANGED faults
     \/ /\ \/ flash[activeSector][nextSlot] # Record(nextSequence) /\ UNCHANGED faults
           \/ Fault
        /\ UNCHANGED acked
  /\ FinishAppend
  /\ UNCHANGED <<flash, activeSector, rollTarget, caller, tainted>>

(* Power loss or watchdog reset, cutting short the operation in progress.   *)
Crash ==
  /\ phase # "off"
  /\ CASE phase = "erase" ->
            \E f \in CutShortErases : flash' = [flash EXCEPT ![rollTarget] = f]
       [] phase = "program" -> \E c \in CutShortPrograms : SetSlot(c)
       [] OTHER -> UNCHANGED flash
  /\ phase' = "off"
  /\ caller' = "none"
  /\ UNCHANGED <<activeSector, nextSlot, nextSequence, rollTarget, acked, faults, tainted>>

LogNext ==
  \/ \E u \in {{}} \cup OneSlot : Boot(u)
  \/ StartAppend
  \/ EraseTarget
  \/ ProgramRecord
  \/ VerifyRecord
  \/ Crash

LogSpec == LogInit /\ [][LogNext]_logVars

-----------------------------------------------------------------------------
(***************************************************************************)
(* HealthCheckLog_GetRecent: the active sector from the append position     *)
(* down, then the other one from the end of its used prefix; slots without  *)
(* a valid record are left out and an unreadable slot ends its sector.      *)
(***************************************************************************)
RecordsBelow(s, count, unreadable) ==
  {i \in LogSlot : /\ i < count
                   /\ \A j \in i .. (count - 1) : <<s, j>> \notin unreadable
                   /\ flash[s][i].kind = "record"}

(* The loop counts its index down: the numbers of S, the largest first. *)
Descending(S) ==
  [k \in 1 .. Cardinality(S) |-> CHOOSE i \in S : Cardinality({j \in S : j > i}) = k - 1]

Downward(s, count, unreadable) ==
  LET slots == Descending(RecordsBelow(s, count, unreadable))
  IN  [k \in DOMAIN slots |-> flash[s][slots[k]].sequence]

(* Mutant: the number of valid records is taken for the end of the used     *)
(* prefix.                                                                  *)
GetRecentByCount(capacity, unreadable) ==
  LET other == 1 - activeSector
      all == Downward(activeSector, nextSlot, unreadable)
               \o Downward(other, Cardinality(ValidSlots(other, unreadable)), unreadable)
  IN  SubSeq(all, 1, IF Len(all) < capacity THEN Len(all) ELSE capacity)

GetRecent(capacity, unreadable) ==
  LET other == 1 - activeSector
      all == Downward(activeSector, nextSlot, unreadable)
               \o Downward(other, NextAvailableSlot(other, unreadable), unreadable)
  IN  SubSeq(all, 1, IF Len(all) < capacity THEN Len(all) ELSE capacity)

-----------------------------------------------------------------------------
LogTypeOK ==
  /\ flash \in [Sector -> [LogSlot -> {Erased, Smudged, Torn}
                                     \cup {Record(n) : n \in 1 .. MaxLogSequence}]]
  /\ activeSector \in Sector
  /\ nextSlot \in 0 .. SlotCount
  /\ nextSequence \in 0 .. MaxLogSequence
  /\ phase \in {"off", "idle", "erase", "program", "verify", "halted"}
  /\ rollTarget \in Sector
  /\ caller \in {"none", "init", "append"}
  /\ acked \in 0 .. MaxLogSequence
  /\ faults \in 0 .. MaxFaults
  /\ tainted \in BOOLEAN

Retained == {flash[s][i].sequence : s \in Sector, i \in LogSlot} \ {0}

(* Wherever power fails, rolls of the ring included, the log keeps the last *)
(* acknowledged record or a newer one, if the flash does what it is told.   *)
NeverFallsBehind == faults = 0 => acked = 0 \/ \E n \in Retained : n >= acked

(* Sequence numbers are never reused: what start-up finds in flash leads it *)
(* past every record that was acknowledged, and failed appends between two  *)
(* start-ups do no harm.                                                    *)
SequenceAdvances == [][acked' # acked /\ ~tainted => acked' > acked]_logVars

(* The same without a condition: a record number is higher than those of    *)
(* all records acknowledged before it.                                      *)
SequenceIsMonotonic == [][acked' # acked => acked' > acked]_logVars

Readable == phase = "idle"

(* Readers get the newest records, newest first: GetRecent goes down the    *)
(* active sector, then the other.  The order holds even when one of the     *)
(* slots cannot be read; wherever power fails, no record in between is left *)
(* out, if the flash does what it is told.                                  *)
RecentIsNewestFirst ==
  Readable =>
    /\ ~tainted =>
         \A u \in {{}} \cup OneSlot :
           LET recent == GetRecent(MaxResults, u) IN
           \A i, j \in DOMAIN recent : i < j => recent[i] > recent[j]
    /\ faults = 0 =>
         LET recent == ToSet(GetRecent(MaxResults, {})) IN
         /\ Cardinality(recent) = Min({MaxResults, Cardinality(Retained)})
         /\ \A n \in recent, m \in Retained \ recent : m < n

(* Records are given up only by rolling: the sector that stays is full, and *)
(* all it holds is newer than what is lost, wherever power fails.           *)
LosesOnlyOldest ==
  [][\A n \in Retained \ Retained', i \in LogSlot : faults = 0 =>
       LET kept == flash'[1 - rollTarget][i] IN
       /\ kept # Erased
       /\ kept.kind = "record" => n < kept.sequence]_logVars
=============================================================================
