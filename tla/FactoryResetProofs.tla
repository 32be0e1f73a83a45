-------------------------- MODULE FactoryResetProofs --------------------------
(***************************************************************************)
(* Proofs about the factory reset: that the erasure can be resumed, for     *)
(* every number of sectors and of faults, and that letting go of the button *)
(* ends a hold and a double click cancels the reset, for all delays.  The   *)
(* two specifications share no variable and no constant.                    *)
(***************************************************************************)
EXTENDS FactoryReset, ResetButton, TLAPS

Erasing == {"eraseSector", "verifySector", "eraseMarker"}

(* The erasure runs under a valid marker, in sector order, and reaches the  *)
(* marker only when no data is left.                                        *)
ErasureInv ==
  /\ pc \in Erasing => marker = "valid"
  /\ pc \in {"eraseSector", "verifySector"} =>
       \A s \in Sector : s < index => sector[s] = "erased"
  /\ pc = "eraseMarker" => AllErased

(* While the stores are open no reset has touched anything. *)
OpenInv ==
  pc \in {"running", "armErase", "armProgram", "armVerify"} => touched = {}

IInv ==
  /\ TypeOK
  /\ ErasureInv
  /\ OpenInv
  /\ ResumableOrComplete
  /\ OpensWholeState

-----------------------------------------------------------------------------
LEMMA ResetInit == Init => IInv
  <1> SUFFICES ASSUME Init
               PROVE  IInv
    OBVIOUS
  <1>1. misread \in BOOLEAN
    BY Zenon DEF Init
  <1>2. sector \in [Sector -> {"data", "torn", "erased"}] /\ index \in Sector
    BY ResetAssumption DEF Init, Sector
  <1>3. TypeOK
    BY <1>1, <1>2, ResetAssumption DEF Init, TypeOK
  <1>4. QED
    BY <1>3
    DEF Init, IInv, ErasureInv, OpenInv, ResumableOrComplete, OpensWholeState, Erasing

LEMMA ResetTypes ==
  ASSUME TypeOK, [Next]_vars
  PROVE  TypeOK'
  <1> USE ResetAssumption DEF TypeOK, Sector, Fault, AfterErase, AfterFailedErase,
                              AfterProgram, BeginErasure, ErasureFails
  <1>1. CASE PowerUp
    BY <1>1 DEF PowerUp
  <1>2. CASE Recover
    <2>1. misread' \in BOOLEAN
      BY <1>2, Zenon DEF Recover
    <2>2. QED
      BY <1>2, <2>1 DEF Recover
  <1>3. CASE OpenStores
    BY <1>3 DEF OpenStores
  <1>4. CASE \E s \in Sector : StoreOperation(s)
    BY <1>4 DEF StoreOperation
  <1>5. CASE Execute
    BY <1>5 DEF Execute
  <1>6. CASE ArmErase
    BY <1>6 DEF ArmErase
  <1>7. CASE ArmProgram
    BY <1>7 DEF ArmProgram
  <1>8. CASE ArmVerify
    BY <1>8 DEF ArmVerify
  <1>9. CASE EraseDataSector
    <2>1. index \in Sector /\ index' = index /\ touched' = touched \cup {index}
      BY <1>9 DEF EraseDataSector
    <2>2. PICK content \in {"data", "torn", "erased"} :
            sector' = [sector EXCEPT ![index] = content]
      BY <1>9, <2>1 DEF EraseDataSector
    <2>3. sector' \in [Sector -> {"data", "torn", "erased"}]
      BY <2>1, <2>2
    <2>4. pc' \in {"verifySector", "off", "halted"} /\ faults' \in 0 .. MaxFaults
      BY <1>9 DEF EraseDataSector
    <2>5. QED
      BY <1>9, <2>1, <2>3, <2>4 DEF EraseDataSector
  <1>10. CASE VerifyErased
    BY <1>10 DEF VerifyErased
  <1>11. CASE EraseMarker
    BY <1>11 DEF EraseMarker
  <1>12. CASE Crash
    BY <1>12 DEF Crash
  <1>13. CASE Restart
    BY <1>13 DEF Restart
  <1>14. CASE UNCHANGED vars
    BY <1>14 DEF vars
  <1>15. QED
    BY <1>1, <1>2, <1>3, <1>4, <1>5, <1>6, <1>7, <1>8, <1>9, <1>10, <1>11, <1>12, <1>13,
       <1>14
    DEF Next, ErasureStep

(* The step that erases a sector, and the one that reads it back: a sector  *)
(* counts as done only once it reads erased.                                *)
LEMMA EraseDataSectorInv ==
  ASSUME IInv, EraseDataSector, TypeOK'
  PROVE  IInv'
  <1>1. marker' = "valid" /\ index' = index /\ index \in Sector /\ pc' # "eraseSector"
    BY DEF EraseDataSector, ErasureFails, IInv, ErasureInv, Erasing, TypeOK
  <1>2. \A s \in Sector : s < index => sector'[s] = "erased"
    BY <1>1, ResetAssumption DEF EraseDataSector, IInv, ErasureInv, TypeOK, Sector
  <1>3. ErasureInv'
    BY <1>1, <1>2 DEF EraseDataSector, ErasureFails, ErasureInv, Erasing
  <1>4. QED
    BY <1>1, <1>3
    DEF EraseDataSector, ErasureFails, IInv, OpenInv, ResumableOrComplete,
        OpensWholeState

LEMMA VerifyErasedInv ==
  ASSUME IInv, VerifyErased, TypeOK'
  PROVE  IInv'
  <1>1. marker' = "valid" /\ sector' = sector /\ touched' = touched
    BY DEF VerifyErased, IInv, ErasureInv, Erasing
  <1>2. CASE pc' = "eraseSector"
    <2>1. index' = index + 1 /\ sector[index] = "erased"
      BY <1>2 DEF VerifyErased, ErasureFails
    <2>2. \A s \in Sector : s < index' => sector'[s] = "erased"
      BY <1>1, <2>1 DEF VerifyErased, IInv, ErasureInv, TypeOK, Sector
    <2>3. QED
      BY <1>1, <1>2, <2>2
      DEF IInv, ErasureInv, OpenInv, ResumableOrComplete, OpensWholeState
  <1>3. CASE pc' = "eraseMarker"
    <2>1. index = SectorCount /\ sector[index] = "erased"
      BY <1>3, ResetAssumption DEF VerifyErased, ErasureFails, IInv, TypeOK, Sector
    <2>2. AllErased'
      BY <1>1, <2>1, ResetAssumption
      DEF VerifyErased, IInv, ErasureInv, TypeOK, Sector, AllErased
    <2>3. QED
      BY <1>1, <1>3, <2>2
      DEF IInv, ErasureInv, OpenInv, ResumableOrComplete, OpensWholeState
  <1>4. CASE pc' \notin {"eraseSector", "eraseMarker"}
    BY <1>1, <1>4
    DEF VerifyErased, ErasureFails, IInv, ErasureInv, Erasing, OpenInv,
        ResumableOrComplete, OpensWholeState
  <1>5. QED
    BY <1>2, <1>3, <1>4

LEMMA EraseMarkerInv ==
  ASSUME IInv, EraseMarker, TypeOK'
  PROVE  IInv'
  <1>1. AllErased'
    BY DEF EraseMarker, IInv, ErasureInv, AllErased
  <1>2. QED
    BY <1>1
    DEF EraseMarker, ErasureFails, IInv, ErasureInv, Erasing, OpenInv,
        ResumableOrComplete, OpensWholeState

(* The invariant is inductive. *)
LEMMA ResetNext ==
  ASSUME IInv, [Next]_vars
  PROVE  IInv'
  <1>0. TypeOK'
    BY ResetTypes DEF IInv
  <1> USE <1>0 DEF IInv, ErasureInv, Erasing, OpenInv, ResumableOrComplete,
                   OpensWholeState, AllErased
  <1>1. CASE PowerUp \/ OpenStores \/ Execute
    BY <1>1 DEF PowerUp, OpenStores, Execute
  <1>2. CASE Recover
    BY <1>2, ResetAssumption DEF Recover, BeginErasure, Sector, TypeOK
  <1>3. CASE \E s \in Sector : StoreOperation(s)
    BY <1>3 DEF StoreOperation
  <1>4. CASE ArmErase \/ ArmProgram
    BY <1>4 DEF ArmErase, ArmProgram
  <1>5. CASE ArmVerify
    BY <1>5, ResetAssumption DEF ArmVerify, BeginErasure, Sector, TypeOK
  <1>6. CASE ErasureStep
    BY <1>6, EraseDataSectorInv, VerifyErasedInv, EraseMarkerInv DEF ErasureStep
  <1>7. CASE Crash \/ Restart
    BY <1>7 DEF Crash, Restart
  <1>8. CASE UNCHANGED vars
    BY <1>8 DEF vars
  <1>9. QED
    BY <1>1, <1>2, <1>3, <1>4, <1>5, <1>6, <1>7, <1>8 DEF Next

(* The erasure runs under a valid marker, in order, and stores are closed   *)
(* while a reset is in progress.                                            *)
THEOREM ResetInvariant ==
  Spec => []IInv
  <1>1. Init => IInv
    BY ResetInit
  <1>2. IInv /\ [Next]_vars => IInv'
    BY ResetNext
  <1>3. QED
    BY <1>1, <1>2, PTL DEF Spec

(* A reset that has begun can be resumed at every power-up until it is      *)
(* complete, whatever fails on the way.                                     *)
THEOREM ResetIsResumable ==
  Spec => []ResumableOrComplete
  BY ResetInvariant, PTL DEF IInv

(* Stores never see the flash of a half-finished reset, unless start-up     *)
(* could not read the marker.                                               *)
THEOREM StoresSeeWholeState ==
  Spec => []OpensWholeState
  BY ResetInvariant, PTL DEF IInv

-----------------------------------------------------------------------------
(***************************************************************************)
(* The button.  While a hold is measured, the button has been up for less   *)
(* time than has passed since it was last seen down, unless it has just     *)
(* been pressed again; and a release is confirmed after one more delay.     *)
(***************************************************************************)
HoldTypes ==
  /\ pressed \in BOOLEAN
  /\ delay \in 0 .. Debounce
  /\ late \in 0 .. MaxLate
  /\ gap \in Nat

HoldInv ==
  /\ HoldTypes
  /\ gap < Poll + Debounce + 2 * MaxLate
  /\ stage = "hold" => delay <= Poll
  /\ stage = "hold" /\ ~pressed => gap + delay < Poll + late
  /\ stage = "holdAgain" => gap + delay < Poll + MaxLate + Debounce + late

LEMMA HoldNumbers ==
  /\ Poll \in Nat \ {0} /\ Debounce \in Nat \ {0} /\ MaxLate \in Nat /\ Poll <= Debounce
  BY ButtonAssumption

(* The delays a hold can take, added up. *)
LEMMA HoldDelays ==
  ASSUME NEW g \in Nat, NEW d \in Nat, d <= Debounce, NEW l \in Nat, l <= MaxLate
  PROVE  /\ d < Poll + MaxLate + Debounce + l
         /\ g + d < Poll + l => g < Poll + Debounce + 2 * MaxLate
         /\ g + d < Poll + MaxLate + Debounce + l => g < Poll + Debounce + 2 * MaxLate
  BY HoldNumbers

LEMMA HoldInit == ButtonInit => HoldInv
  BY HoldNumbers DEF ButtonInit, HoldInv, HoldTypes

LEMMA HoldTypesFacts ==
  HoldInv => /\ pressed \in BOOLEAN /\ gap \in Nat
             /\ delay \in Nat /\ delay <= Debounce
             /\ late \in Nat /\ late <= MaxLate
  BY HoldNumbers DEF HoldInv, HoldTypes

(* The stages that are not part of the hold. *)
LEMMA OtherStages ==
  ASSUME NEW call \in Call
  PROVE  /\ call \notin {"hold", "holdAgain", "warn"}
         /\ Debouncing[call] \notin {"hold", "holdAgain", "warn"}
  BY DEF Call, WaitsFor, Debouncing

(* When the task runs and the next stage is not part of the hold. *)
LEMMA OutsideHold ==
  ASSUME HoldInv, late' = 0, delay' \in {0, Poll, Debounce}, stage' \notin {"hold", "holdAgain"},
         pressed' \in BOOLEAN, gap' = 0 \/ gap' = gap
  PROVE  HoldInv'
  <1>1. delay' \in 0 .. Debounce
    BY HoldNumbers
  <1>2. gap' \in Nat /\ gap' < Poll + Debounce + 2 * MaxLate
    BY HoldNumbers, HoldTypesFacts DEF HoldInv
  <1>3. HoldTypes'
    BY <1>1, <1>2, HoldNumbers DEF HoldTypes
  <1>4. QED
    BY <1>2, <1>3 DEF HoldInv

(* When the task has seen the button down. *)
LEMMA SeenDown ==
  ASSUME HoldInv, late' = 0, delay' \in {0, Poll}, stage' = "hold", pressed, pressed' = pressed,
         gap' = gap
  PROVE  HoldInv'
  <1>1. delay' \in 0 .. Debounce /\ delay' <= Poll
    BY HoldNumbers
  <1>2. gap' \in Nat /\ gap' < Poll + Debounce + 2 * MaxLate
    BY HoldTypesFacts DEF HoldInv
  <1>3. HoldTypes'
    BY <1>1, <1>2, HoldTypesFacts, HoldNumbers DEF HoldTypes
  <1>4. QED
    BY <1>1, <1>2, <1>3 DEF HoldInv

LEMMA HoldTick ==
  ASSUME HoldInv, Tick
  PROVE  HoldInv'
  <1> USE HoldNumbers
  <1>1. /\ stage' = stage /\ pressed' \in BOOLEAN
        /\ gap' = IF pressed \/ stage \notin {"hold", "holdAgain"} THEN 0 ELSE gap + 1
        /\ \/ delay > 0 /\ delay' = delay - 1 /\ late' = late
           \/ delay = 0 /\ late < MaxLate /\ late' = late + 1 /\ delay' = delay
    BY DEF Tick
  <1>2. /\ delay' \in Nat /\ delay' <= Debounce /\ late' \in Nat /\ late' <= MaxLate /\ gap' \in Nat
    BY <1>1, HoldTypesFacts
  <1>0. late' + delay = late + delay' + 1
    BY <1>1, HoldTypesFacts
  <1>3. HoldTypes'
    BY <1>1, <1>2 DEF HoldTypes
  <1>4. stage' = "hold" => delay' <= Poll
    BY <1>1, HoldTypesFacts DEF HoldInv
  <1>5. CASE gap' = 0
    <2>1. 0 < Poll + Debounce + 2 * MaxLate
      OBVIOUS
    <2>2. stage' = "hold" => delay' < Poll + late'
      BY <1>1, <1>4, HoldTypesFacts DEF HoldInv
    <2>3. delay' < Poll + MaxLate + Debounce + late'
      BY <1>2, HoldDelays
    <2>4. gap' + delay' = delay'
      <3>1. \A d \in Nat : 0 + d = d
        OBVIOUS
      <3>2. QED
        BY <1>2, <1>5, <3>1
    <2>5. QED
      BY <1>3, <1>4, <1>5, <2>1, <2>2, <2>3, <2>4 DEF HoldInv
  <1>6. CASE ~pressed /\ stage = "hold" /\ gap' = gap + 1
    <2>1. gap + delay < Poll + late
      BY <1>6 DEF HoldInv
    <2>2. gap' + delay' < Poll + late'
      BY <1>0, <1>2, <1>6, <2>1, HoldTypesFacts
    <2>3. gap' < Poll + Debounce + 2 * MaxLate
      BY <1>2, <2>2, HoldDelays
    <2>4. stage' = "hold"
      BY <1>1, <1>6
    <2>5. QED
      BY <1>3, <1>4, <2>2, <2>3, <2>4 DEF HoldInv
  <1>7. CASE stage = "holdAgain" /\ gap' = gap + 1
    <2>1. gap + delay < Poll + MaxLate + Debounce + late
      BY <1>7 DEF HoldInv
    <2>2. gap' + delay' < Poll + MaxLate + Debounce + late'
      BY <1>0, <1>2, <1>7, <2>1, HoldTypesFacts
    <2>3. gap' < Poll + Debounce + 2 * MaxLate
      BY <1>2, <2>2, HoldDelays
    <2>4. stage' = "holdAgain"
      BY <1>1, <1>7
    <2>5. QED
      BY <1>3, <2>2, <2>3, <2>4 DEF HoldInv
  <1>8. QED
    BY <1>1, <1>5, <1>6, <1>7

LEMMA HoldStep == HoldInv /\ [ButtonNext]_buttonVars => HoldInv'
  <1> SUFFICES ASSUME HoldInv, [ButtonNext]_buttonVars
               PROVE  HoldInv'
    OBVIOUS
  <1>1. CASE Tick
    BY <1>1, HoldTick
  <1>2. ASSUME NEW call \in Call, Sample(call)
        PROVE  HoldInv'
    <2>1. /\ late' = 0 /\ UNCHANGED <<pressed, gap>>
          /\ stage' \in {call, Debouncing[call], "expire"}
          /\ delay' \in {0, Poll, Debounce}
      BY <1>2 DEF Sample, Runs, GiveUp, GoTo, Sleep
    <2>2. stage' \notin {"hold", "holdAgain", "warn"}
      BY <2>1, OtherStages
    <2>3. QED
      BY <2>1, <2>2, OutsideHold, HoldTypesFacts
  <1>3. ASSUME NEW call \in Call, SampleAgain(call)
        PROVE  HoldInv'
    <2>1. late' = 0 /\ UNCHANGED <<pressed, gap>> /\ delay' \in {0, Poll}
      BY <1>3 DEF SampleAgain, Found, Runs, GiveUp, GoTo, Sleep, WaitForButton
    <2>2. \/ stage' \notin {"hold", "holdAgain", "warn"}
          \/ call = "idle" /\ pressed = WaitsFor[call] /\ stage' = "hold"
      <3>1. CASE pressed = WaitsFor[call]
        <4>1. Found(call)
          BY <1>3, <3>1 DEF SampleAgain
        <4>2. QED
          BY <3>1, <4>1 DEF Found, GiveUp, GoTo, Sleep, WaitForButton
      <3>2. CASE pressed # WaitsFor[call]
        <4>1. stage' = call
          BY <1>3, <3>2 DEF SampleAgain, Sleep
        <4>2. QED
          BY <4>1, OtherStages
      <3>3. QED
        BY <3>1, <3>2
    <2>3. CASE stage' \notin {"hold", "holdAgain", "warn"}
      BY <2>1, <2>3, OutsideHold, HoldTypesFacts
    <2>4. CASE call = "idle" /\ pressed = WaitsFor[call] /\ stage' = "hold"
      <3>1. WaitsFor["idle"] = TRUE
        BY DEF WaitsFor
      <3>2. pressed
        BY <2>4, <3>1
      <3>3. QED
        BY <2>1, <2>4, <3>2, SeenDown
    <2>5. QED
      BY <2>2, <2>3, <2>4
  <1>4. CASE MeasureHold
    <2>1. /\ stage = "hold" /\ delay = 0 /\ late' = 0 /\ UNCHANGED <<pressed, gap>>
          /\ \/ stage' = "warn" /\ delay' = 0
             \/ stage' = "hold" /\ pressed /\ delay' = Poll
             \/ stage' = "holdAgain" /\ ~pressed /\ delay' = Debounce
      BY <1>4 DEF MeasureHold, Runs, GoTo, Sleep
    <2>2. CASE stage' = "warn" /\ delay' = 0
      BY <2>1, <2>2, OutsideHold, HoldTypesFacts
    <2>3. CASE stage' = "hold" /\ pressed /\ delay' = Poll
      BY <2>1, <2>3, SeenDown
    <2>4. CASE stage' = "holdAgain" /\ ~pressed /\ delay' = Debounce
      <3>1. gap < Poll + MaxLate
        BY <2>1, <2>4, HoldNumbers, HoldTypesFacts DEF HoldInv
      <3>2. QED
        BY <2>1, <2>4, <3>1, HoldNumbers DEF HoldInv, HoldTypes
    <2>5. QED
      BY <2>1, <2>2, <2>3, <2>4
  <1>5. CASE ConfirmRelease
    <2>1. /\ late' = 0 /\ UNCHANGED <<pressed, gap>>
          /\ \/ stage' \in {"idle", "warn"} /\ delay' = 0
             \/ stage' = "hold" /\ pressed /\ delay' = Poll
      BY <1>5 DEF ConfirmRelease, Runs, GoTo, Sleep
    <2>2. QED
      BY <2>1, OutsideHold, SeenDown, HoldTypesFacts
  <1>6. CASE Warn
    <2>1. /\ late' = 0 /\ delay' = 0 /\ gap' = 0 /\ pressed' \in BOOLEAN
          /\ stage' \in {"release", "idle"}
      BY <1>6 DEF Warn, Runs, WaitForButton, GoTo, Sleep
    <2>2. QED
      BY <2>1, OutsideHold
  <1>7. CASE WaitOut
    <2>1. /\ late' = 0 /\ UNCHANGED <<pressed, gap>> /\ delay' \in {0, Poll}
          /\ stage' \in {"expire", "execute"}
      BY <1>7 DEF WaitOut, Runs, GoTo, Sleep
    <2>2. QED
      BY <2>1, OutsideHold, HoldTypesFacts
  <1>8. CASE Return
    <2>1. late' = 0 /\ delay' = 0 /\ gap' = 0 /\ pressed' \in BOOLEAN /\ stage' = "idle"
      BY <1>8 DEF Return, Runs, GoTo, Sleep
    <2>2. QED
      BY <2>1, OutsideHold
  <1>9. CASE UNCHANGED buttonVars
    BY <1>9 DEF buttonVars, taskVars, HoldInv, HoldTypes
  <1>10. QED
    BY <1>1, <1>2, <1>3, <1>4, <1>5, <1>6, <1>7, <1>8, <1>9 DEF ButtonNext

(* However the polling, the debouncing and the wait for the processor add   *)
(* up, a hold does not survive the button being up for that long.           *)
THEOREM LettingGoEndsHolds == ButtonSpec => []LettingGoEndsHold
  <1>1. HoldInv => LettingGoEndsHold
    BY DEF HoldInv, LettingGoEndsHold
  <1>2. QED
    BY <1>1, HoldInit, HoldStep, PTL DEF ButtonSpec

-----------------------------------------------------------------------------
(***************************************************************************)
(* The cancelling gesture.  The history is recorded tick by tick; what has  *)
(* been done with the button up to now adds its present level to it.        *)
(***************************************************************************)
Gesture == [level : 1 .. 6, length : 0 .. Distinct,
            apart : 0 .. DoubleClick + Distinct, clear : BOOLEAN]

Goes(g, p) == g.level > 5 \/ (g.level % 2 = 1 <=> p)
Level(g, p) == IF Goes(g, p) THEN g.level ELSE g.level + 1
Lasted(g, p) == IF Goes(g, p) THEN g.length ELSE 0
Clear(g, p) ==
  /\ g.clear
  /\ Goes(g, p) \/ Level(g, p) = 2 \/ g.length >= Distinct
  /\ Level(g, p) = 5 => g.apart + MaxLate < DoubleClick

RecordedOf(g, p) ==
  IF g.level > 5 THEN g
  ELSE [level |-> Level(g, p),
        length |-> IF Goes(g, p) THEN Min({g.length + 1, Distinct}) ELSE 1,
        apart |-> IF Level(g, p) \in {3, 4}
                  THEN Min({g.apart + 1, DoubleClick + Distinct}) ELSE g.apart,
        clear |-> Clear(g, p)]

(* What a tick does to the level, its length and the time between the       *)
(* presses.                                                                 *)
Moves(L, N, A, L2, N2, A2) ==
  /\ A2 = IF L \in {3, 4} /\ A < DoubleClick + Distinct THEN A + 1 ELSE A
  /\ \/ L = 6 /\ L2 = 6
     \/ L < 6 /\ L2 = L /\ N2 = (IF N < Distinct THEN N + 1 ELSE Distinct)
     \/ L < 6 /\ L2 = L + 1 /\ N2 = 0

LEMMA GestureNumbers ==
  /\ {Window, DoubleClick, Poll, Debounce} \subseteq Nat \ {0} /\ MaxLate \in Nat
  /\ Poll <= Debounce
  /\ Distinct \in Nat /\ Distinct = Poll + MaxLate + Debounce + MaxLate /\ Distinct > 1
  BY ButtonAssumption DEF Distinct

LEMMA LesserOfTwo ==
  ASSUME NEW a \in Nat, NEW b \in Nat
  PROVE  Min({a, b}) = IF a <= b THEN a ELSE b
  BY DEF Min

(* The present level is down or up as the button is.                        *)
LEMMA LevelOfButton ==
  ASSUME NEW g \in Gesture, NEW p \in BOOLEAN
  PROVE  /\ Level(g, p) \in 1 .. 6
         /\ p => Level(g, p) \in {1, 3, 5, 6}
         /\ ~p => Level(g, p) \in {2, 4, 6}
         /\ Lasted(g, p) \in Nat /\ Lasted(g, p) <= Distinct
         /\ g.apart \in Nat /\ g.apart <= DoubleClick + Distinct
         /\ g.level \in 1 .. 6 /\ g.length \in 0 .. Distinct /\ g.clear \in BOOLEAN
  <1>1. /\ g.level \in 1 .. 6 /\ g.length \in 0 .. Distinct /\ g.clear \in BOOLEAN
        /\ g.apart \in 0 .. DoubleClick + Distinct
    BY DEF Gesture
  <1>2. g.level \in {1, 2, 3, 4, 5, 6}
    BY <1>1
  <1>3. QED
    BY <1>1, <1>2, GestureNumbers DEF Level, Lasted, Goes

LEMMA RecordedFields ==
  ASSUME NEW g \in Gesture, NEW p \in BOOLEAN
  PROVE  /\ RecordedOf(g, p) \in Gesture
         /\ RecordedOf(g, p).level = Level(g, p)
         /\ g.level <= 5 => RecordedOf(g, p).length =
                              (IF Lasted(g, p) < Distinct THEN Lasted(g, p) + 1 ELSE Distinct)
         /\ RecordedOf(g, p).apart =
              IF Level(g, p) \in {3, 4} /\ g.apart < DoubleClick + Distinct
              THEN g.apart + 1 ELSE g.apart
         /\ RecordedOf(g, p).clear => Clear(g, p)
  <1> DEFINE length == IF Lasted(g, p) < Distinct THEN Lasted(g, p) + 1 ELSE Distinct
             apart == IF Level(g, p) \in {3, 4} /\ g.apart < DoubleClick + Distinct
                      THEN g.apart + 1 ELSE g.apart
             h == [level |-> Level(g, p), length |-> length, apart |-> apart,
                   clear |-> Clear(g, p)]
  <1>1. length \in 0 .. Distinct /\ apart \in 0 .. DoubleClick + Distinct /\ Clear(g, p) \in BOOLEAN
    BY LevelOfButton, GestureNumbers DEF Clear
  <1>2. CASE g.level > 5
    <2>1. RecordedOf(g, p) = g /\ Level(g, p) = g.level /\ g.level = 6
      BY <1>2, LevelOfButton DEF RecordedOf, Level, Goes
    <2>2. g.clear => Clear(g, p)
      BY <1>2, <2>1 DEF Clear, Goes
    <2>3. QED
      BY <2>1, <2>2, LevelOfButton
  <1>3. CASE ~(g.level > 5)
    <2>1. (IF Goes(g, p) THEN Min({g.length + 1, Distinct}) ELSE 1) = length
      BY LesserOfTwo, LevelOfButton, GestureNumbers DEF Lasted
    <2>2. (IF Level(g, p) \in {3, 4} THEN Min({g.apart + 1, DoubleClick + Distinct}) ELSE g.apart)
            = apart
      BY LesserOfTwo, LevelOfButton, GestureNumbers
    <2>3. RecordedOf(g, p) = h
      BY <1>3, <2>1, <2>2 DEF RecordedOf
    <2> HIDE DEF length, apart
    <2>4. h \in Gesture
      BY <1>1, LevelOfButton DEF Gesture
    <2>5. h.level = Level(g, p) /\ h.length = length /\ h.apart = apart /\ h.clear = Clear(g, p)
      OBVIOUS
    <2>6. QED
      BY <2>3, <2>4, <2>5 DEF length, apart
  <1>4. QED
    BY <1>2, <1>3

LEMMA GestureTick ==
  ASSUME NEW g \in Gesture, NEW p \in BOOLEAN, NEW q \in BOOLEAN,
         NEW h, h = RecordedOf(g, p)
  PROVE  /\ h \in Gesture
         /\ Moves(Level(g, p), Lasted(g, p), g.apart, Level(h, q), Lasted(h, q), h.apart)
         /\ Clear(h, q) => /\ Clear(g, p)
                           /\ \/ Level(h, q) = Level(g, p)
                              \/ Level(h, q) = 2
                              \/ Lasted(g, p) + 1 >= Distinct
                           /\ Level(h, q) = 5 => h.apart + MaxLate < DoubleClick
  <1>1. h \in Gesture /\ h.level = Level(g, p)
    BY RecordedFields
  <1>2. Clear(h, q) => /\ h.clear
                       /\ Goes(h, q) \/ Level(h, q) = 2 \/ h.length >= Distinct
                       /\ Level(h, q) = 5 => h.apart + MaxLate < DoubleClick
    BY DEF Clear
  <1>3. h.apart = IF Level(g, p) \in {3, 4} /\ g.apart < DoubleClick + Distinct
                  THEN g.apart + 1 ELSE g.apart
    BY RecordedFields
  <1>4. CASE Level(g, p) = 6
    <2>1. Goes(h, q) /\ Level(h, q) = 6
      BY <1>1, <1>4 DEF Goes, Level
    <2>2. QED
      BY <1>1, <1>2, <1>3, <1>4, <2>1, RecordedFields DEF Moves
  <1>5. CASE Level(g, p) # 6
    <2>1. Level(g, p) < 6 /\ g.level <= 5
      BY <1>5, LevelOfButton DEF Level, Goes
    <2>2. h.length = IF Lasted(g, p) < Distinct THEN Lasted(g, p) + 1 ELSE Distinct
      BY <2>1, RecordedFields
    <2>3. CASE Goes(h, q)
      <3>1. Level(h, q) = Level(g, p) /\ Lasted(h, q) = h.length
        BY <1>1, <2>3 DEF Level, Lasted
      <3>2. Moves(Level(g, p), Lasted(g, p), g.apart, Level(h, q), Lasted(h, q), h.apart)
        BY <1>3, <2>1, <2>2, <3>1 DEF Moves
      <3>3. QED
        BY <1>1, <1>2, <3>1, <3>2, RecordedFields
    <2>4. CASE ~Goes(h, q)
      <3>1. Level(h, q) = Level(g, p) + 1 /\ Lasted(h, q) = 0
        BY <1>1, <2>4 DEF Level, Lasted
      <3>2. Moves(Level(g, p), Lasted(g, p), g.apart, Level(h, q), Lasted(h, q), h.apart)
        BY <1>3, <2>1, <3>1 DEF Moves
      <3>3. h.length >= Distinct => Lasted(g, p) + 1 >= Distinct
        BY <2>2, LevelOfButton, GestureNumbers
      <3>4. QED
        BY <1>1, <1>2, <2>4, <3>2, <3>3, RecordedFields
    <2>5. QED
      BY <2>3, <2>4
  <1>6. QED
    BY <1>4, <1>5

LEMMA RecordedIs == Recorded = RecordedOf(gesture, pressed)
  BY DEF Recorded, RecordedOf, Level, Clear, Goes

(***************************************************************************)
(* What the task knows of a clear gesture in each of its stages: which      *)
(* level it is, and that a level the task waits for, but has not seen or    *)
(* not confirmed, is not an old one.  L is the present level, N how long it *)
(* has lasted, A how far the presses are apart, d and l the delay the task  *)
(* is in and how late it is, e and c the time since the window and since    *)
(* the first click began.                                                   *)
(***************************************************************************)
Unseen(N, d, l) == N + d < Poll + l
Unconfirmed(N, d, l) == N + d < Poll + MaxLate + Debounce + l

(* The task counts from when it has confirmed the first press.              *)
CountsLess(A, c) == A >= c + Debounce \/ A = DoubleClick + Distinct
CountsNotMuchLess(A, c) == A < c + Distinct

(* A window that is given up has ended, or no second press can be in time.  *)
Lost(L, N, A, d, l, e) ==
  \/ e >= Window /\ d = 0 /\ (L <= 4 \/ (L = 5 /\ N < Poll + MaxLate + l))
  \/ L \in {3, 4} /\ A + MaxLate >= DoubleClick

Followed(st, L, N, A, d, l, e, c) ==
  /\ st = "release" => L = 1 \/ (L = 2 /\ Unseen(N, d, l))
  /\ st = "releaseAgain" => L = 2 /\ Unconfirmed(N, d, l)
  /\ st = "first" => L = 2 \/ (L = 3 /\ Unseen(N, d, l))
  /\ st = "firstAgain" => L = 3 /\ Unconfirmed(N, d, l) /\ A + d >= Debounce
  /\ st = "between" => (L = 3 \/ (L = 4 /\ Unseen(N, d, l))) /\ CountsLess(A, c)
  /\ st = "betweenAgain" => L = 4 /\ Unconfirmed(N, d, l) /\ CountsLess(A, c)
  /\ st = "second" => \/ L = 4 /\ CountsLess(A, c)
                      \/ L = 5 /\ Unseen(N, d, l) /\ A + N >= c + Debounce
  /\ st = "secondAgain" => L = 5 /\ Unconfirmed(N, d, l)
  /\ st = "expire" => Lost(L, N, A, d, l, e)
  /\ st = "execute" => L <= 4 \/ (L = 5 /\ N < Distinct)

(* What the task has seen of any gesture: at least the levels it waited     *)
(* for; if they are the first ones, its count is not far behind the presses.*)
Reached(st, L, N, A, d, l, c) ==
  /\ st = "releaseAgain" => L >= 2
  /\ st = "first" => L >= 2 /\ (L = 3 => Unseen(N, d, l))
  /\ st = "firstAgain" => L >= 3 /\ (L = 3 => Unconfirmed(N, d, l))
  /\ st = "between" => L >= 3 /\ (L \in {3, 4} => CountsNotMuchLess(A, c))
  /\ st = "betweenAgain" => L >= 4 /\ (L = 4 => CountsNotMuchLess(A, c))
  /\ st = "second" => L >= 4 /\ (L \in {4, 5} => CountsNotMuchLess(A, c))
  /\ st = "secondAgain" => L >= 5 /\ (L = 5 => A < DoubleClick + Distinct)

(* The timeouts of the waits end with the window or with the time for the   *)
(* second click.                                                            *)
Waits(st) == st \in {"release", "releaseAgain", "first", "firstAgain",
                     "between", "betweenAgain", "second", "secondAgain"}
Counts(st) == st \in {"between", "betweenAgain", "second", "secondAgain"}

Timed(st, e, c, w, t) ==
  /\ Waits(st) => t > 0 /\ e + t <= Window + w
  /\ Waits(st) /\ ~Counts(st) => e + t = Window + w
  /\ Counts(st) => /\ c + t <= DoubleClick + w
                   /\ e + t = Window + w \/ c + t = DoubleClick + w

(* The time between the presses begins with the third level; and a second   *)
(* press that has been recorded as clear was in time.                       *)
Consistent(st, g, d, L, N) ==
  /\ L <= 2 => g.apart = 0
  /\ L = 3 => g.apart = N \/ N = Distinct
  /\ g.clear /\ g.level = 5 => g.apart + MaxLate < DoubleClick
  /\ st = "secondAgain" /\ d < Debounce => g.level >= 5
  /\ st = "cancelled" => g.level >= 5 /\ (g.level = 5 => g.apart < DoubleClick + Distinct)

DelayGoes(d, l, d2, l2) ==
  \/ d > 0 /\ d2 = d - 1 /\ l2 = l
  \/ d = 0 /\ d2 = 0 /\ l < MaxLate /\ l2 = l + 1

LEMMA DelayBounds ==
  ASSUME NEW d \in Nat, NEW l \in Nat, NEW d2 \in Nat, NEW l2 \in Nat, NEW N \in Nat,
         DelayGoes(d, l, d2, l2), l <= MaxLate
  PROVE  /\ Unseen(N, d, l) => Unseen(N + 1, d2, l2)
         /\ Unconfirmed(N, d, l) => Unconfirmed(N + 1, d2, l2)
         /\ d <= Poll => Unseen(0, d2, l2)
         /\ Unseen(N, d, l) => N + 1 < Distinct
         /\ Unconfirmed(N, d, l) => N + 1 < Distinct
         /\ l2 <= MaxLate
         /\ d <= Poll => d2 <= Poll
         /\ d <= Debounce => d2 <= Debounce
  BY GestureNumbers DEF Unseen, Unconfirmed, DelayGoes

LEMMA FollowedTick ==
  ASSUME NEW st, NEW L \in 1 .. 6, NEW N \in Nat, NEW A \in Nat,
         NEW L2 \in 1 .. 6, NEW N2 \in Nat, NEW A2 \in Nat,
         NEW d \in Nat, NEW l \in Nat, NEW d2 \in Nat, NEW l2 \in Nat,
         NEW e \in Nat, NEW c \in Nat, NEW c2 \in Nat,
         Followed(st, L, N, A, d, l, e, c), Moves(L, N, A, L2, N2, A2), DelayGoes(d, l, d2, l2),
         N <= Distinct, A <= DoubleClick + Distinct, l <= MaxLate,
         st \in {"release", "first", "between", "second"} => d <= Poll,
         Counts(st) => c2 = c + 1,
         st # "execute",
         L2 = L \/ L2 = 2 \/ N + 1 >= Distinct,
         L2 = 5 => A2 + MaxLate < DoubleClick
  PROVE  Followed(st, L2, N2, A2, d2, l2, e + 1, c2)
  <1>0. /\ Unseen(N, d, l) => Unseen(N + 1, d2, l2) /\ N + 1 < Distinct
        /\ Unconfirmed(N, d, l) => Unconfirmed(N + 1, d2, l2) /\ N + 1 < Distinct
        /\ d <= Poll => Unseen(0, d2, l2)
    BY DelayBounds
  <1> USE <1>0, GestureNumbers
  <1>1. CASE st = "release"
    BY <1>1 DEF Followed, Moves
  <1>2. CASE st = "releaseAgain"
    BY <1>2 DEF Followed, Moves
  <1>3. CASE st = "first"
    BY <1>3 DEF Followed, Moves
  <1>4. CASE st = "firstAgain"
    BY <1>4 DEF Followed, Moves, DelayGoes
  <1>5. CASE st = "between"
    BY <1>5 DEF Followed, Moves, CountsLess, Counts
  <1>6. CASE st = "betweenAgain"
    BY <1>6 DEF Followed, Moves, CountsLess, Counts
  <1>7. CASE st = "second"
    BY <1>7 DEF Followed, Moves, CountsLess, Counts
  <1>8. CASE st = "secondAgain"
    BY <1>8 DEF Followed, Moves
  <1>9. CASE st = "expire"
    BY <1>9 DEF Followed, Moves, Lost, DelayGoes
  <1>10. QED
    BY <1>1, <1>2, <1>3, <1>4, <1>5, <1>6, <1>7, <1>8, <1>9 DEF Followed

LEMMA ReachedTick ==
  ASSUME NEW st, NEW L \in 1 .. 6, NEW N \in Nat, NEW A \in Nat,
         NEW L2 \in 1 .. 6, NEW N2 \in Nat, NEW A2 \in Nat,
         NEW d \in Nat, NEW l \in Nat, NEW d2 \in Nat, NEW l2 \in Nat,
         NEW c \in Nat, NEW c2 \in Nat,
         Reached(st, L, N, A, d, l, c), Moves(L, N, A, L2, N2, A2), DelayGoes(d, l, d2, l2),
         N <= Distinct, A <= DoubleClick + Distinct, l <= MaxLate,
         st \in {"release", "first", "between", "second"} => d <= Poll,
         Counts(st) => c2 = c + 1
  PROVE  Reached(st, L2, N2, A2, d2, l2, c2)
  <1>0. /\ Unseen(N, d, l) => Unseen(N + 1, d2, l2) /\ N + 1 < Distinct
        /\ Unconfirmed(N, d, l) => Unconfirmed(N + 1, d2, l2) /\ N + 1 < Distinct
        /\ d <= Poll => Unseen(0, d2, l2)
    BY DelayBounds
  <1> USE <1>0, GestureNumbers
  <1>1. CASE st = "releaseAgain"
    BY <1>1 DEF Reached, Moves
  <1>2. CASE st = "first"
    BY <1>2 DEF Reached, Moves
  <1>3. CASE st = "firstAgain"
    BY <1>3 DEF Reached, Moves
  <1>4. CASE st \in {"between", "betweenAgain", "second"}
    BY <1>4 DEF Reached, Moves, CountsNotMuchLess, Counts
  <1>5. CASE st = "secondAgain"
    BY <1>5 DEF Reached, Moves
  <1>6. QED
    BY <1>1, <1>2, <1>3, <1>4, <1>5 DEF Reached

LEMMA ConsistentTick ==
  ASSUME NEW st, NEW g \in Gesture, NEW p \in BOOLEAN, NEW q \in BOOLEAN,
         NEW h, h = RecordedOf(g, p), NEW d \in Nat, NEW d2 \in Nat,
         Consistent(st, g, d, Level(g, p), Lasted(g, p)),
         st = "secondAgain" => Level(g, p) >= 5,
         st # "cancelled"
  PROVE  Consistent(st, h, d2, Level(h, q), Lasted(h, q))
  <1>1. Moves(Level(g, p), Lasted(g, p), g.apart, Level(h, q), Lasted(h, q), h.apart)
    BY GestureTick
  <1>2. /\ Level(g, p) \in 1 .. 6 /\ Lasted(g, p) \in Nat /\ Lasted(g, p) <= Distinct
        /\ g.apart \in Nat
    BY LevelOfButton
  <1>3. h.level = Level(g, p)
    BY RecordedFields
  <1>4. /\ Level(h, q) <= 2 => h.apart = 0
        /\ Level(h, q) = 3 => h.apart = Lasted(h, q) \/ Lasted(h, q) = Distinct
    BY <1>1, <1>2, GestureNumbers DEF Moves, Consistent
  <1>5. h.clear /\ h.level = 5 => h.apart + MaxLate < DoubleClick
    <2>1. h.clear => Clear(g, p)
      BY RecordedFields
    <2>2. Level(g, p) = 5 => h.apart = g.apart
      BY <1>1 DEF Moves
    <2>3. QED
      BY <1>3, <2>1, <2>2 DEF Clear
  <1>6. QED
    BY <1>3, <1>4, <1>5 DEF Consistent

LEMMA TimedTick ==
  ASSUME NEW st, NEW e \in Nat, NEW c \in Nat, NEW c2 \in Nat, NEW w \in Nat, NEW w2 \in Nat,
         NEW t \in Nat, Timed(st, e, c, w, t),
         Counts(st) => c2 = c + 1, t > 0 => w2 = w + 1
  PROVE  Timed(st, e + 1, c2, w2, t)
  BY GestureNumbers DEF Timed, Waits, Counts

(* The invariant, of explicit values of the variables. *)
GestureAt(st, p, g, d, l, e, c, w, t) ==
  /\ st \in {"release", "first", "between", "second"} => d <= Poll
  /\ Timed(st, e, c, w, t)
  /\ Consistent(st, g, d, Level(g, p), Lasted(g, p))
  /\ Reached(st, Level(g, p), Lasted(g, p), g.apart, d, l, c)
  /\ Clear(g, p) => Followed(st, Level(g, p), Lasted(g, p), g.apart, d, l, e, c)

LEMMA GestureAtTick ==
  ASSUME GestureAt(stage, pressed, gesture, delay, late, elapsed, click, waited, timeout),
         gesture \in Gesture, pressed \in BOOLEAN, delay \in Nat, late \in Nat, late <= MaxLate,
         elapsed \in Nat, click \in Nat, waited \in Nat, timeout \in Nat,
         NEW q \in BOOLEAN, NEW h, h = RecordedOf(gesture, pressed),
         NEW d2 \in Nat, NEW l2 \in Nat, DelayGoes(delay, late, d2, l2),
         NEW e2 \in Nat, NEW c2 \in Nat, NEW w2 \in Nat, e2 = elapsed + 1,
         Counts(stage) => c2 = click + 1, timeout > 0 => w2 = waited + 1,
         stage \notin {"cancelled", "execute"}
  PROVE  GestureAt(stage, q, h, d2, l2, e2, c2, w2, timeout)
  <1>1. stage \in {"release", "first", "between", "second"} => d2 <= Poll
    BY DelayBounds DEF GestureAt
  <1>2. Timed(stage, elapsed + 1, c2, w2, timeout)
    BY TimedTick DEF GestureAt
  <1>3. Consistent(stage, h, d2, Level(h, q), Lasted(h, q))
    <2>1. stage = "secondAgain" => Level(gesture, pressed) >= 5
      BY DEF GestureAt, Reached
    <2>2. QED
      BY <2>1, ConsistentTick DEF GestureAt
  <1>4. h \in Gesture
    BY GestureTick
  <1>5. /\ Level(gesture, pressed) \in 1 .. 6
        /\ Lasted(gesture, pressed) \in Nat /\ Lasted(gesture, pressed) <= Distinct
        /\ gesture.apart \in Nat /\ gesture.apart <= DoubleClick + Distinct
        /\ Level(h, q) \in 1 .. 6 /\ Lasted(h, q) \in Nat /\ h.apart \in Nat
    BY <1>4, LevelOfButton
  <1>6. Moves(Level(gesture, pressed), Lasted(gesture, pressed), gesture.apart,
              Level(h, q), Lasted(h, q), h.apart)
    BY GestureTick
  <1>7. Reached(stage, Level(h, q), Lasted(h, q), h.apart, d2, l2, c2)
    BY <1>5, <1>6, ReachedTick DEF GestureAt
  <1>8. ASSUME Clear(h, q)
        PROVE  Followed(stage, Level(h, q), Lasted(h, q), h.apart, d2, l2, elapsed + 1, c2)
    <2>1. /\ Clear(gesture, pressed)
          /\ \/ Level(h, q) = Level(gesture, pressed)
             \/ Level(h, q) = 2
             \/ Lasted(gesture, pressed) + 1 >= Distinct
          /\ Level(h, q) = 5 => h.apart + MaxLate < DoubleClick
      BY <1>8, GestureTick
    <2>2. Followed(stage, Level(gesture, pressed), Lasted(gesture, pressed), gesture.apart,
                   delay, late, elapsed, click)
      BY <2>1 DEF GestureAt
    <2>3. QED
      BY <1>5, <1>6, <2>1, <2>2, FollowedTick DEF GestureAt
  <1>9. QED
    BY <1>1, <1>2, <1>3, <1>7, <1>8 DEF GestureAt

(* A wait, when the task looks at the button, and again after the debounce  *)
(* delay: on the levels, their lengths and the clocks.                      *)
LEMMA LookFollowed ==
  ASSUME NEW st \in {"release", "first", "between", "second"},
         NEW L \in 1 .. 6, NEW N \in Nat, NEW A \in Nat, NEW l \in Nat, l <= MaxLate,
         NEW e \in Nat, NEW c \in Nat, NEW w \in Nat, NEW t \in Nat,
         Timed(st, e, c, w, t), L = 5 => A + MaxLate < DoubleClick,
         L = 3 => A = N \/ N = Distinct
  PROVE  /\ Followed(st, L, N, A, 0, l, e, c) =>
              /\ w >= t => Followed("expire", L, N, A, 0, 0, e, c)
              /\ st \in {"first", "second"} /\ L \in {1, 3, 5, 6}
                   => Followed(Debouncing[st], L, N, A, Debounce, 0, e, c)
              /\ st \in {"release", "between"} /\ L \in {2, 4, 6}
                   => Followed(Debouncing[st], L, N, A, Debounce, 0, e, c)
              /\ st \in {"first", "second"} /\ L \in {2, 4, 6}
                   => Followed(st, L, N, A, Poll, 0, e, c)
              /\ st \in {"release", "between"} /\ L \in {1, 3, 5, 6}
                   => Followed(st, L, N, A, Poll, 0, e, c)
  <1> SUFFICES ASSUME Followed(st, L, N, A, 0, l, e, c)
               PROVE  /\ w >= t => Followed("expire", L, N, A, 0, 0, e, c)
                      /\ st \in {"first", "second"} /\ L \in {1, 3, 5, 6}
                           => Followed(Debouncing[st], L, N, A, Debounce, 0, e, c)
                      /\ st \in {"release", "between"} /\ L \in {2, 4, 6}
                           => Followed(Debouncing[st], L, N, A, Debounce, 0, e, c)
                      /\ st \in {"first", "second"} /\ L \in {2, 4, 6}
                           => Followed(st, L, N, A, Poll, 0, e, c)
                      /\ st \in {"release", "between"} /\ L \in {1, 3, 5, 6}
                           => Followed(st, L, N, A, Poll, 0, e, c)
    OBVIOUS
  <1>0. Unseen(N, 0, l) => Unconfirmed(N, Debounce, 0) /\ N < Poll + MaxLate + 0
    BY GestureNumbers DEF Unseen, Unconfirmed
  <1> USE <1>0, GestureNumbers
  <1>1. CASE st = "release"
    BY <1>1 DEF Followed, Lost, Debouncing, Timed, Waits, Counts
  <1>2. CASE st = "first"
    BY <1>2 DEF Followed, Lost, Debouncing, Timed, Waits, Counts
  <1>3. CASE st = "between"
    BY <1>3 DEF Followed, Lost, Debouncing, Timed, Waits, Counts, CountsLess
  <1>4. CASE st = "second"
    BY <1>4 DEF Followed, Lost, Debouncing, Timed, Waits, Counts, CountsLess
  <1>5. QED
    BY <1>1, <1>2, <1>3, <1>4

LEMMA LookReached ==
  ASSUME NEW st \in {"release", "first", "between", "second"},
         NEW L \in 1 .. 6, NEW N \in Nat, NEW A \in Nat, NEW l \in Nat, l <= MaxLate,
         NEW e \in Nat, NEW c \in Nat, NEW w \in Nat, NEW t \in Nat,
         Timed(st, e, c, w, t), Reached(st, L, N, A, 0, l, c)
  PROVE  /\ w < t /\ st \in {"first", "second"} /\ L \in {1, 3, 5, 6}
              => Reached(Debouncing[st], L, N, A, Debounce, 0, c)
         /\ w < t /\ st \in {"release", "between"} /\ L \in {2, 4, 6}
              => Reached(Debouncing[st], L, N, A, Debounce, 0, c)
         /\ st \in {"first", "second"} /\ L \in {2, 4, 6} => Reached(st, L, N, A, Poll, 0, c)
         /\ st \in {"release", "between"} /\ L \in {1, 3, 5, 6} => Reached(st, L, N, A, Poll, 0, c)
  <1>0. Unseen(N, 0, l) => Unconfirmed(N, Debounce, 0)
    BY GestureNumbers DEF Unseen, Unconfirmed
  <1> USE <1>0, GestureNumbers
  <1>1. CASE st = "release"
    BY <1>1 DEF Reached, Debouncing
  <1>2. CASE st = "first"
    BY <1>2 DEF Reached, Debouncing
  <1>3. CASE st = "between"
    BY <1>3 DEF Reached, Debouncing
  <1>4. CASE st = "second"
    BY <1>4 DEF Reached, Debouncing, Timed, Waits, Counts, CountsNotMuchLess
  <1>5. QED
    BY <1>1, <1>2, <1>3, <1>4

LEMMA AgainFollowed ==
  ASSUME NEW st \in {"release", "first", "between", "second"},
         NEW L \in 1 .. 6, NEW N \in Nat, NEW A \in Nat, NEW l \in Nat, l <= MaxLate,
         NEW e \in Nat, NEW c \in Nat,
         Followed(Debouncing[st], L, N, A, 0, l, e, c)
  PROVE  /\ st \in {"first", "second"} => L \notin {2, 4, 6}
         /\ st \in {"release", "between"} => L \notin {1, 3, 5, 6}
         /\ st = "release" => Followed("first", L, N, A, 0, 0, e, 0)
         /\ st = "first" => Followed("between", L, N, A, 0, 0, e, 0)
         /\ st = "between" => Followed("second", L, N, A, 0, 0, e, c)
         /\ st \in {"release", "first", "between"} /\ e >= Window
              => Followed("expire", L, N, A, 0, 0, e, c)
         /\ st = "between" /\ c >= DoubleClick => Followed("expire", L, N, A, 0, 0, e, c)
  <1> USE GestureNumbers DEF Debouncing, Followed
  <1>1. CASE st = "release"
    BY <1>1 DEF Lost
  <1>2. CASE st = "first"
    BY <1>2 DEF Lost, CountsLess
  <1>3. CASE st = "between"
    BY <1>3 DEF Lost, CountsLess
  <1>4. CASE st = "second"
    BY <1>4
  <1>5. QED
    BY <1>1, <1>2, <1>3, <1>4

LEMMA AgainReached ==
  ASSUME NEW st \in {"release", "first", "between", "second"},
         NEW L \in 1 .. 6, NEW N \in Nat, NEW A \in Nat, NEW l \in Nat, l <= MaxLate,
         NEW e \in Nat, NEW c \in Nat,
         L = 3 => A = N \/ N = Distinct,
         Reached(Debouncing[st], L, N, A, 0, l, c)
  PROVE  /\ st \in {"first", "second"} /\ L \in {2, 4, 6} => Reached(st, L, N, A, Poll, 0, c)
         /\ st \in {"release", "between"} /\ L \in {1, 3, 5, 6} => Reached(st, L, N, A, Poll, 0, c)
         /\ st = "release" /\ L \in {2, 4, 6} => Reached("first", L, N, A, 0, 0, 0)
         /\ st = "first" /\ L \in {1, 3, 5, 6} => Reached("between", L, N, A, 0, 0, 0)
         /\ st = "between" /\ L \in {2, 4, 6} => Reached("second", L, N, A, 0, 0, c)
         /\ Reached("expire", L, N, A, 0, 0, c)
         /\ Reached("cancelled", L, N, A, 0, 0, c)
  <1>0. Unconfirmed(N, 0, l) => N < 0 + Distinct
    BY GestureNumbers DEF Unconfirmed
  <1> USE <1>0, GestureNumbers DEF Debouncing, Reached
  <1>1. CASE st = "release"
    BY <1>1
  <1>2. CASE st = "first"
    BY <1>2 DEF CountsNotMuchLess
  <1>3. CASE st = "between"
    BY <1>3 DEF CountsNotMuchLess
  <1>4. CASE st = "second"
    BY <1>4
  <1>5. QED
    BY <1>1, <1>2, <1>3, <1>4

Wanted(st, p) == IF st \in {"first", "second"} THEN p ELSE ~p

LEMMA WantedLevel ==
  ASSUME NEW call \in {"release", "first", "between", "second"}, NEW p \in BOOLEAN
  PROVE  /\ p = WaitsFor[call] => Wanted(call, p)
         /\ p # WaitsFor[call] => ~Wanted(call, p)
  <1>1. /\ call \in {"first", "second"} => WaitsFor[call] = TRUE
        /\ call \notin {"first", "second"} => WaitsFor[call] = FALSE
    BY DEF WaitsFor
  <1>2. CASE call \in {"first", "second"}
    <2>1. Wanted(call, p) <=> p
      BY <1>2 DEF Wanted
    <2>2. WaitsFor[call] = TRUE
      BY <1>1, <1>2
    <2>3. QED
      BY <2>1, <2>2, Zenon
  <1>3. CASE call \notin {"first", "second"}
    <2>1. Wanted(call, p) <=> ~p
      BY <1>3 DEF Wanted
    <2>2. WaitsFor[call] = FALSE
      BY <1>1, <1>3
    <2>3. QED
      BY <2>1, <2>2, Zenon
  <1>4. QED
    BY <1>2, <1>3

LEMMA LookStep ==
  ASSUME NEW st \in {"release", "first", "between", "second"},
         NEW g \in Gesture, NEW p \in BOOLEAN, NEW l \in Nat, l <= MaxLate,
         NEW e \in Nat, NEW c \in Nat, NEW w \in Nat, NEW t \in Nat,
         GestureAt(st, p, g, 0, l, e, c, w, t)
  PROVE  /\ w >= t => GestureAt("expire", p, g, 0, 0, e, c, 0, 0)
         /\ w < t /\ Wanted(st, p) => GestureAt(Debouncing[st], p, g, Debounce, 0, e, c, w, t)
         /\ ~Wanted(st, p) => GestureAt(st, p, g, Poll, 0, e, c, w, t)
  <1> DEFINE L == Level(g, p)
             N == Lasted(g, p)
             A == g.apart
  <1>1. /\ Timed(st, e, c, w, t) /\ Consistent(st, g, 0, L, N) /\ Reached(st, L, N, A, 0, l, c)
        /\ Clear(g, p) => Followed(st, L, N, A, 0, l, e, c)
    BY DEF GestureAt
  <1>2. Clear(g, p) => (L = 5 => A + MaxLate < DoubleClick)
    BY DEF Clear
  <1>3. /\ p => L \in {1, 3, 5, 6}
        /\ ~p => L \in {2, 4, 6}
        /\ L \in 1 .. 6 /\ N \in Nat /\ A \in Nat
    BY LevelOfButton
  <1>4. L = 3 => A = N \/ N = Distinct
    BY <1>1 DEF Consistent
  <1> HIDE DEF L, N, A
  <1>5. /\ Timed("expire", e, c, 0, 0)
        /\ Timed(Debouncing[st], e, c, w, t)
    BY <1>1 DEF Timed, Waits, Counts, Debouncing
  <1>6. /\ Consistent("expire", g, 0, L, N)
        /\ Consistent(Debouncing[st], g, Debounce, L, N)
        /\ Consistent(st, g, Poll, L, N)
    BY <1>1, GestureNumbers DEF Consistent, Debouncing
  <1>7. /\ Wanted(st, p) => \/ st \in {"first", "second"} /\ L \in {1, 3, 5, 6}
                            \/ st \in {"release", "between"} /\ L \in {2, 4, 6}
        /\ ~Wanted(st, p) => \/ st \in {"first", "second"} /\ L \in {2, 4, 6}
                             \/ st \in {"release", "between"} /\ L \in {1, 3, 5, 6}
    BY <1>3 DEF Wanted
  <1>8. /\ Reached("expire", L, N, A, 0, 0, c)
        /\ w < t /\ Wanted(st, p) => Reached(Debouncing[st], L, N, A, Debounce, 0, c)
        /\ ~Wanted(st, p) => Reached(st, L, N, A, Poll, 0, c)
    <2>1. Reached("expire", L, N, A, 0, 0, c)
      BY DEF Reached
    <2>2. QED
      BY <1>1, <1>3, <1>7, <2>1, LookReached
  <1>9. ASSUME Clear(g, p)
        PROVE  /\ w >= t => Followed("expire", L, N, A, 0, 0, e, c)
               /\ Wanted(st, p) => Followed(Debouncing[st], L, N, A, Debounce, 0, e, c)
               /\ ~Wanted(st, p) => Followed(st, L, N, A, Poll, 0, e, c)
    BY <1>1, <1>2, <1>3, <1>4, <1>7, <1>9, LookFollowed
  <1>10. Debouncing[st] \notin {"release", "first", "between", "second"} /\ Poll <= Poll
    BY GestureNumbers DEF Debouncing
  <1>11. QED
    BY <1>1, <1>5, <1>6, <1>8, <1>9, <1>10 DEF GestureAt, L, N, A

LEMMA AgainStep ==
  ASSUME NEW st \in {"release", "first", "between", "second"},
         NEW g \in Gesture, NEW p \in BOOLEAN, NEW l \in Nat, l <= MaxLate,
         NEW e \in Nat, NEW c \in Nat, NEW w \in Nat, NEW t \in Nat,
         GestureAt(Debouncing[st], p, g, 0, l, e, c, w, t)
  PROVE  /\ ~Wanted(st, p) => GestureAt(st, p, g, Poll, 0, e, c, w, t)
         /\ st = "release" /\ Wanted(st, p) /\ e < Window
              => GestureAt("first", p, g, 0, 0, e, 0, 0, Window - e)
         /\ st = "first" /\ Wanted(st, p) /\ e < Window
              => GestureAt("between", p, g, 0, 0, e, 0, 0, Min({Window - e, DoubleClick}))
         /\ st = "between" /\ Wanted(st, p) /\ e < Window /\ c < DoubleClick
              => GestureAt("second", p, g, 0, 0, e, c, 0, Min({Window - e, DoubleClick - c}))
         /\ st = "second" /\ Wanted(st, p) => GestureAt("cancelled", p, g, 0, 0, e, c, 0, 0)
         /\ st \in {"release", "first", "between"} /\ e >= Window
              => GestureAt("expire", p, g, 0, 0, e, c, 0, 0)
         /\ st = "between" /\ c >= DoubleClick => GestureAt("expire", p, g, 0, 0, e, c, 0, 0)
  <1> DEFINE L == Level(g, p)
             N == Lasted(g, p)
             A == g.apart
  <1>1. /\ Timed(Debouncing[st], e, c, w, t) /\ Consistent(Debouncing[st], g, 0, L, N)
        /\ Reached(Debouncing[st], L, N, A, 0, l, c)
        /\ Clear(g, p) => Followed(Debouncing[st], L, N, A, 0, l, e, c)
    BY DEF GestureAt
  <1>3. /\ p => L \in {1, 3, 5, 6}
        /\ ~p => L \in {2, 4, 6}
        /\ L \in 1 .. 6 /\ N \in Nat /\ A \in Nat
    BY LevelOfButton
  <1>4. L = 3 => A = N \/ N = Distinct
    BY <1>1 DEF Consistent
  <1>5. g.level = 5 /\ p => L = 5
    BY DEF Level, Goes
  <1> HIDE DEF L, N, A
  <1>6. /\ Timed(st, e, c, w, t)
        /\ Timed("expire", e, c, 0, 0) /\ Timed("cancelled", e, c, 0, 0)
        /\ e < Window => Timed("first", e, 0, 0, Window - e)
    BY <1>1, GestureNumbers DEF Timed, Waits, Counts, Debouncing
  <1>7. e < Window => Timed("between", e, 0, 0, Min({Window - e, DoubleClick}))
    <2>1. e < Window => Min({Window - e, DoubleClick}) =
                          IF Window - e <= DoubleClick THEN Window - e ELSE DoubleClick
      BY LesserOfTwo, GestureNumbers
    <2>2. QED
      BY <2>1, GestureNumbers DEF Timed, Waits, Counts
  <1>8. e < Window /\ c < DoubleClick =>
          Timed("second", e, c, 0, Min({Window - e, DoubleClick - c}))
    <2>1. e < Window /\ c < DoubleClick =>
            Min({Window - e, DoubleClick - c}) =
              IF Window - e <= DoubleClick - c THEN Window - e ELSE DoubleClick - c
      BY LesserOfTwo, GestureNumbers
    <2>2. QED
      BY <2>1, GestureNumbers DEF Timed, Waits, Counts
  <1>9. /\ \A s \in {"release", "first", "between", "second", "expire"}, d \in Nat :
             Consistent(s, g, d, L, N)
        /\ st = "second" /\ p => Consistent("cancelled", g, 0, L, N)
    <2>1. \A s \in {"release", "first", "between", "second", "expire"}, d \in Nat :
             Consistent(s, g, d, L, N)
      BY <1>1 DEF Consistent
    <2>2. ASSUME st = "second", p
          PROVE  Consistent("cancelled", g, 0, L, N)
      <3>1. g.level >= 5
        BY <1>1, <2>2, GestureNumbers DEF Consistent, Debouncing
      <3>2. g.level = 5 => A < DoubleClick + Distinct
        BY <1>1, <1>5, <2>2 DEF Reached, Debouncing
      <3>3. QED
        BY <1>1, <3>1, <3>2 DEF Consistent, A
    <2>3. QED
      BY <2>1, <2>2
  <1>10. /\ Wanted(st, p) => \/ st \in {"first", "second"} /\ L \in {1, 3, 5, 6} /\ p
                             \/ st \in {"release", "between"} /\ L \in {2, 4, 6}
         /\ ~Wanted(st, p) => \/ st \in {"first", "second"} /\ L \in {2, 4, 6}
                              \/ st \in {"release", "between"} /\ L \in {1, 3, 5, 6}
    BY <1>3 DEF Wanted
  <1>11. /\ ~Wanted(st, p) => Reached(st, L, N, A, Poll, 0, c)
         /\ st = "release" /\ Wanted(st, p) => Reached("first", L, N, A, 0, 0, 0)
         /\ st = "first" /\ Wanted(st, p) => Reached("between", L, N, A, 0, 0, 0)
         /\ st = "between" /\ Wanted(st, p) => Reached("second", L, N, A, 0, 0, c)
         /\ Reached("expire", L, N, A, 0, 0, c) /\ Reached("cancelled", L, N, A, 0, 0, c)
    BY <1>1, <1>3, <1>4, <1>10, AgainReached
  <1>12. ASSUME Clear(g, p)
         PROVE  /\ Wanted(st, p)
                /\ st = "release" => Followed("first", L, N, A, 0, 0, e, 0)
                /\ st = "first" => Followed("between", L, N, A, 0, 0, e, 0)
                /\ st = "between" => Followed("second", L, N, A, 0, 0, e, c)
                /\ st \in {"release", "first", "between"} /\ e >= Window
                     => Followed("expire", L, N, A, 0, 0, e, c)
                /\ st = "between" /\ c >= DoubleClick => Followed("expire", L, N, A, 0, 0, e, c)
    BY <1>1, <1>3, <1>10, <1>12, AgainFollowed
  <1>13. Followed("cancelled", L, N, A, 0, 0, e, c)
    BY DEF Followed
  <1>14. Poll <= Poll /\ 0 <= Poll /\ Poll \in Nat /\ 0 \in Nat
    BY GestureNumbers
  <1>15. ~Wanted(st, p) => GestureAt(st, p, g, Poll, 0, e, c, w, t)
    BY <1>6, <1>9, <1>11, <1>12, <1>14 DEF GestureAt, L, N, A
  <1>16. st = "release" /\ Wanted(st, p) /\ e < Window
           => GestureAt("first", p, g, 0, 0, e, 0, 0, Window - e)
    BY <1>6, <1>9, <1>11, <1>12, <1>14 DEF GestureAt, L, N, A
  <1>17. st = "first" /\ Wanted(st, p) /\ e < Window
           => GestureAt("between", p, g, 0, 0, e, 0, 0, Min({Window - e, DoubleClick}))
    BY <1>7, <1>9, <1>11, <1>12, <1>14 DEF GestureAt, L, N, A
  <1>18. st = "between" /\ Wanted(st, p) /\ e < Window /\ c < DoubleClick
           => GestureAt("second", p, g, 0, 0, e, c, 0, Min({Window - e, DoubleClick - c}))
    BY <1>8, <1>9, <1>11, <1>12, <1>14 DEF GestureAt, L, N, A
  <1>19. st = "second" /\ Wanted(st, p) => GestureAt("cancelled", p, g, 0, 0, e, c, 0, 0)
    BY <1>6, <1>9, <1>10, <1>11, <1>13 DEF GestureAt, L, N, A
  <1>20. /\ st \in {"release", "first", "between"} /\ e >= Window
              => GestureAt("expire", p, g, 0, 0, e, c, 0, 0)
         /\ st = "between" /\ c >= DoubleClick => GestureAt("expire", p, g, 0, 0, e, c, 0, 0)
    BY <1>6, <1>9, <1>11, <1>12, <1>14 DEF GestureAt, L, N, A
  <1>21. QED
    BY <1>15, <1>16, <1>17, <1>18, <1>19, <1>20

LEMMA WaitOutStep ==
  ASSUME NEW g \in Gesture, NEW p \in BOOLEAN, NEW l \in Nat, l <= MaxLate,
         NEW e \in Nat, NEW c \in Nat, NEW w \in Nat, NEW t \in Nat,
         GestureAt("expire", p, g, 0, l, e, c, w, t)
  PROVE  /\ e < Window => GestureAt("expire", p, g, Poll, 0, e, c, w, t)
         /\ e >= Window => GestureAt("execute", p, g, 0, 0, e, c, w, t)
  <1> DEFINE L == Level(g, p)
             N == Lasted(g, p)
             A == g.apart
  <1>1. /\ Consistent("expire", g, 0, L, N)
        /\ Clear(g, p) => Followed("expire", L, N, A, 0, l, e, c)
    BY DEF GestureAt
  <1>2. L \in 1 .. 6 /\ N \in Nat /\ A \in Nat
    BY LevelOfButton
  <1> HIDE DEF L, N, A
  <1>3. Consistent("expire", g, Poll, L, N) /\ Consistent("execute", g, 0, L, N)
    BY <1>1 DEF Consistent
  <1>4. Reached("expire", L, N, A, Poll, 0, c) /\ Reached("execute", L, N, A, 0, 0, c)
    BY DEF Reached
  <1>5. Timed("expire", e, c, w, t) /\ Timed("execute", e, c, w, t)
    BY DEF Timed, Waits, Counts
  <1>6. ASSUME Followed("expire", L, N, A, 0, l, e, c)
        PROVE  /\ e < Window => Followed("expire", L, N, A, Poll, 0, e, c)
               /\ Followed("execute", L, N, A, 0, 0, e, c)
    <2>1. Lost(L, N, A, 0, l, e)
      BY <1>6 DEF Followed
    <2>2. e < Window => Lost(L, N, A, Poll, 0, e)
      BY <1>2, <2>1, GestureNumbers DEF Lost
    <2>3. L <= 4 \/ (L = 5 /\ N < Distinct)
      BY <1>2, <2>1, GestureNumbers DEF Lost
    <2>4. QED
      BY <2>2, <2>3 DEF Followed
  <1>7. QED
    BY <1>1, <1>3, <1>4, <1>5, <1>6 DEF GestureAt, L, N, A

Outside == {"idle", "idleAgain", "hold", "holdAgain", "warn"}
Inside == {"release", "releaseAgain", "first", "firstAgain", "between", "betweenAgain",
           "second", "secondAgain", "expire", "cancelled", "execute"}

GestureInv ==
  /\ ButtonTypeOK
  /\ stage \in Outside => gesture = NoGesture
  /\ GestureAt(stage, pressed, gesture, delay, late, elapsed, click, waited, timeout)

LEMMA StageSet ==
  /\ Call = {"idle", "release", "first", "between", "second"}
  /\ Call \cup {Debouncing[c] : c \in Call}
          \cup {"hold", "holdAgain", "warn", "expire", "cancelled", "execute"} = Outside \cup Inside
  <1>1. Call = {"idle", "release", "first", "between", "second"}
    BY DEF Call, WaitsFor
  <1>2. {Debouncing[c] : c \in Call} =
          {"idleAgain", "releaseAgain", "firstAgain", "betweenAgain", "secondAgain"}
    <2>1. /\ Debouncing["idle"] = "idleAgain" /\ Debouncing["release"] = "releaseAgain"
          /\ Debouncing["first"] = "firstAgain" /\ Debouncing["between"] = "betweenAgain"
          /\ Debouncing["second"] = "secondAgain"
      BY DEF Debouncing
    <2>2. QED
      BY <1>1, <2>1
  <1>3. QED
    BY <1>1, <1>2 DEF Outside, Inside

LEMMA ButtonTyped ==
  ButtonTypeOK <=> /\ pressed \in BOOLEAN /\ gesture \in Gesture /\ stage \in Outside \cup Inside
                   /\ delay \in Nat /\ delay <= Debounce /\ late \in Nat /\ late <= MaxLate
                   /\ elapsed \in Nat /\ click \in Nat /\ waited \in Nat /\ timeout \in Nat
                   /\ gap \in Nat
  BY StageSet, GestureNumbers DEF ButtonTypeOK, Gesture

LEMMA NoGestureAt ==
  ASSUME NEW st, NEW p \in BOOLEAN, NEW d \in Nat, NEW l \in Nat, NEW e \in Nat, NEW c \in Nat,
         NEW w \in Nat, NEW t \in Nat,
         st \in Outside \/ (st = "release" /\ d = 0 /\ l = 0 /\ e = 0 /\ w = 0 /\ t = Window)
  PROVE  NoGesture \in Gesture /\ GestureAt(st, p, NoGesture, d, l, e, c, w, t)
  <1>1. NoGesture \in Gesture
    BY GestureNumbers DEF NoGesture, Gesture
  <1>2. /\ NoGesture.level = 1 /\ NoGesture.length = 0 /\ NoGesture.apart = 0
    BY DEF NoGesture
  <1>3. Level(NoGesture, p) \in {1, 2} /\ Lasted(NoGesture, p) = 0
    BY <1>2 DEF Level, Lasted
  <1>4. /\ st \in {"release", "first", "between", "second"} => d <= Poll
        /\ Timed(st, e, c, w, t)
        /\ Consistent(st, NoGesture, d, Level(NoGesture, p), Lasted(NoGesture, p))
        /\ Reached(st, Level(NoGesture, p), Lasted(NoGesture, p), NoGesture.apart, d, l, c)
    BY <1>2, <1>3, GestureNumbers DEF Outside, Timed, Waits, Counts, Consistent, Reached
  <1>5. Followed(st, Level(NoGesture, p), Lasted(NoGesture, p), NoGesture.apart, d, l, e, c)
    BY <1>2, <1>3, GestureNumbers DEF Outside, Followed, Unseen
  <1>6. QED
    BY <1>1, <1>4, <1>5 DEF GestureAt

LEMMA GestureInit == ButtonInit => GestureInv
  <1> SUFFICES ASSUME ButtonInit PROVE GestureInv
    OBVIOUS
  <1>1. /\ pressed \in BOOLEAN /\ stage = "idle" /\ delay = 0 /\ late = 0 /\ elapsed = 0 /\ click = 0
        /\ waited = 0 /\ timeout = 0 /\ gap = 0 /\ gesture = NoGesture
    BY DEF ButtonInit
  <1>2. "idle" \in Outside
    BY DEF Outside
  <1>3. NoGesture \in Gesture /\ GestureAt("idle", pressed, NoGesture, 0, 0, 0, 0, 0, 0)
    BY <1>1, <1>2, NoGestureAt
  <1>4. ButtonTypeOK
    BY <1>1, <1>2, <1>3, ButtonTyped, GestureNumbers
  <1>5. QED
    BY <1>1, <1>3, <1>4 DEF GestureInv

LEMMA ButtonTypedNext ==
  ASSUME pressed' \in BOOLEAN, gesture' \in Gesture, stage' \in Outside \cup Inside,
         delay' \in Nat, delay' <= Debounce, late' \in Nat, late' <= MaxLate,
         elapsed' \in Nat, click' \in Nat, waited' \in Nat, timeout' \in Nat, gap' \in Nat
  PROVE  ButtonTypeOK'
  <1>1. delay' \in 0 .. Debounce /\ late' \in 0 .. MaxLate
    BY GestureNumbers
  <1>2. QED
    BY <1>1, StageSet DEF ButtonTypeOK, Gesture

(* Outside the window there is no gesture. *)
LEMMA NoGestureStep ==
  ASSUME pressed' \in BOOLEAN, gesture' = NoGesture,
         delay' \in Nat, delay' <= Debounce, late' \in Nat, late' <= MaxLate,
         elapsed' \in Nat, click' \in Nat, waited' \in Nat, timeout' \in Nat, gap' \in Nat,
         \/ stage' \in Outside
         \/ /\ stage' = "release" /\ delay' = 0 /\ late' = 0 /\ elapsed' = 0
            /\ waited' = 0 /\ timeout' = Window
  PROVE  GestureInv'
  <1>1. GestureAt(stage', pressed', NoGesture, delay', late', elapsed', click', waited', timeout')
    BY NoGestureAt
  <1>2. NoGesture \in Gesture /\ stage' \in Outside \cup Inside
    BY NoGestureAt DEF Inside
  <1>3. ButtonTypeOK'
    BY <1>2, ButtonTypedNext
  <1>4. QED
    BY <1>1, <1>3 DEF GestureInv

(* Inside, a step of the task that leaves the button and its history alone. *)
LEMMA TaskStep ==
  ASSUME GestureInv, UNCHANGED <<pressed, gesture, gap>>, late' = 0,
         stage' \in Inside, delay' \in Nat, delay' <= Debounce,
         elapsed' \in Nat, click' \in Nat, waited' \in Nat, timeout' \in Nat,
         GestureAt(stage', pressed, gesture, delay', 0, elapsed', click', waited', timeout')
  PROVE  GestureInv'
  <1>1. pressed \in BOOLEAN /\ gesture \in Gesture /\ gap \in Nat /\ 0 \in Nat /\ 0 <= MaxLate
    BY ButtonTyped, GestureNumbers DEF GestureInv
  <1>2. ButtonTypeOK'
    BY <1>1, ButtonTypedNext
  <1>3. stage' \notin Outside
    BY DEF Inside, Outside
  <1>4. QED
    BY <1>2, <1>3 DEF GestureInv

LEMMA GestureTicks ==
  ASSUME GestureInv, Tick
  PROVE  GestureInv'
  <1>1. /\ pressed \in BOOLEAN /\ gesture \in Gesture /\ stage \in Outside \cup Inside
        /\ delay \in Nat /\ delay <= Debounce /\ late \in Nat /\ late <= MaxLate
        /\ elapsed \in Nat /\ click \in Nat /\ waited \in Nat /\ timeout \in Nat /\ gap \in Nat
    BY ButtonTyped DEF GestureInv
  <1>2. /\ stage \notin {"warn", "cancelled", "execute"} /\ stage' = stage /\ timeout' = timeout
        /\ pressed' \in BOOLEAN
        /\ \/ delay > 0 /\ delay' = delay - 1 /\ late' = late
           \/ delay = 0 /\ late < MaxLate /\ late' = late + 1 /\ delay' = delay
        /\ elapsed' = IF stage \in {"idle", "idleAgain"} THEN 0 ELSE elapsed + 1
        /\ click' = IF Counts(stage) THEN click + 1 ELSE 0
        /\ waited' = IF timeout = 0 THEN 0 ELSE waited + 1
        /\ gap' = IF pressed \/ stage \notin {"hold", "holdAgain"} THEN 0 ELSE gap + 1
        /\ gesture' = IF stage \in Outside THEN NoGesture ELSE RecordedOf(gesture, pressed)
    BY RecordedIs DEF Tick, InWindow, Outside, Counts
  <1>3. DelayGoes(delay, late, delay', late')
    BY <1>1, <1>2 DEF DelayGoes
  <1>4. /\ delay' \in Nat /\ delay' <= Debounce /\ late' \in Nat /\ late' <= MaxLate
        /\ elapsed' \in Nat /\ click' \in Nat /\ waited' \in Nat /\ timeout' \in Nat /\ gap' \in Nat
    <2>1. delay' \in Nat /\ late' \in Nat /\ delay' <= Debounce /\ late' <= MaxLate
      BY <1>1, <1>2, GestureNumbers
    <2>2. elapsed' \in Nat /\ click' \in Nat /\ waited' \in Nat /\ timeout' \in Nat /\ gap' \in Nat
      BY <1>1, <1>2
    <2>3. QED
      BY <2>1, <2>2
  <1>5. CASE stage \in Outside
    BY <1>2, <1>4, <1>5, NoGestureStep
  <1>6. CASE stage \notin Outside
    <2>1. /\ gesture' = RecordedOf(gesture, pressed) /\ elapsed' = elapsed + 1
          /\ Counts(stage) => click' = click + 1
          /\ timeout > 0 => waited' = waited + 1
      BY <1>1, <1>2, <1>6 DEF Outside
    <2>2. GestureAt(stage, pressed, gesture, delay, late, elapsed, click, waited, timeout)
      BY DEF GestureInv
    <2>3. stage \notin {"cancelled", "execute"} /\ pressed' \in BOOLEAN
      BY <1>2
    <2>4. gesture' \in Gesture
      BY <1>1, <2>1, <2>3, GestureTick
    <2>5. GestureAt(stage, pressed', gesture', delay', late', elapsed', click', waited', timeout)
      BY <1>1, <1>3, <1>4, <2>1, <2>2, <2>3, GestureAtTick
    <2>6. ButtonTypeOK'
      BY <1>1, <1>2, <1>4, <2>4, ButtonTypedNext
    <2>7. QED
      BY <1>2, <1>6, <2>1, <2>5, <2>6 DEF GestureInv
  <1>7. QED
    BY <1>5, <1>6

LEMMA GestureLooks ==
  ASSUME GestureInv, NEW call \in Call, Sample(call)
  PROVE  GestureInv'
  <1>1. /\ pressed \in BOOLEAN /\ gesture \in Gesture /\ late \in Nat /\ late <= MaxLate
        /\ elapsed \in Nat /\ click \in Nat /\ waited \in Nat /\ timeout \in Nat /\ gap \in Nat
    BY ButtonTyped DEF GestureInv
  <1>2. /\ stage = call /\ delay = 0 /\ late' = 0
        /\ UNCHANGED <<pressed, elapsed, click, gap, gesture>>
        /\ \/ /\ call # "idle" /\ waited >= timeout
              /\ stage' = "expire" /\ delay' = 0 /\ waited' = 0 /\ timeout' = 0
           \/ /\ call = "idle" \/ ~(waited >= timeout)
              /\ waited' = waited /\ timeout' = timeout
              /\ \/ pressed = WaitsFor[call] /\ stage' = Debouncing[call] /\ delay' = Debounce
                 \/ pressed # WaitsFor[call] /\ stage' = call /\ delay' = Poll
    BY DEF Sample, Runs, GiveUp, GoTo, Sleep
  <1>3. CASE call = "idle"
    <2>1. stage \in Outside /\ stage' \in Outside
      BY <1>2, <1>3 DEF Outside, Debouncing
    <2>2. gesture' = NoGesture
      BY <1>2, <2>1 DEF GestureInv
    <2>3. /\ pressed' \in BOOLEAN /\ delay' \in Nat /\ delay' <= Debounce /\ late' \in Nat
          /\ late' <= MaxLate /\ elapsed' \in Nat /\ click' \in Nat /\ waited' \in Nat
          /\ timeout' \in Nat /\ gap' \in Nat
      BY <1>1, <1>2, <1>3, GestureNumbers
    <2>4. QED
      BY <2>1, <2>2, <2>3, NoGestureStep
  <1>4. CASE call # "idle"
    <2>1. call \in {"release", "first", "between", "second"}
      BY <1>4, StageSet
    <2>2. GestureAt(call, pressed, gesture, 0, late, elapsed, click, waited, timeout)
      BY <1>2 DEF GestureInv
    <2>3. /\ pressed = WaitsFor[call] => Wanted(call, pressed)
          /\ pressed # WaitsFor[call] => ~Wanted(call, pressed)
      BY <1>1, <2>1, WantedLevel
    <2>4. GestureAt(stage', pressed, gesture, delay', 0, elapsed, click, waited', timeout')
      <3>1. CASE waited >= timeout
        <4>1. GestureAt("expire", pressed, gesture, 0, 0, elapsed, click, 0, 0)
          BY <1>1, <2>1, <2>2, <3>1, LookStep
        <4>2. QED
          BY <1>2, <1>4, <3>1, <4>1
      <3>2. CASE ~(waited >= timeout)
        <4>1. waited < timeout
          BY <1>1, <3>2
        <4>2. /\ Wanted(call, pressed) =>
                   GestureAt(Debouncing[call], pressed, gesture, Debounce, 0, elapsed, click,
                             waited, timeout)
              /\ ~Wanted(call, pressed) =>
                   GestureAt(call, pressed, gesture, Poll, 0, elapsed, click, waited, timeout)
          BY <1>1, <2>1, <2>2, <4>1, LookStep
        <4>3. QED
          BY <1>2, <2>3, <3>2, <4>2
      <3>3. QED
        BY <3>1, <3>2
    <2>5. stage' \in Inside
      BY <1>2, <1>4, <2>1 DEF Inside, Debouncing
    <2>6. delay' \in Nat /\ delay' <= Debounce /\ waited' \in Nat /\ timeout' \in Nat
      BY <1>1, <1>2, GestureNumbers
    <2>7. QED
      BY <1>1, <1>2, <2>4, <2>5, <2>6, TaskStep
  <1>5. QED
    BY <1>3, <1>4

LEMMA GestureLooksAgain ==
  ASSUME GestureInv, NEW call \in Call, SampleAgain(call)
  PROVE  GestureInv'
  <1>1. /\ pressed \in BOOLEAN /\ gesture \in Gesture /\ late \in Nat /\ late <= MaxLate
        /\ elapsed \in Nat /\ click \in Nat /\ waited \in Nat /\ timeout \in Nat /\ gap \in Nat
    BY ButtonTyped DEF GestureInv
  <1>2. /\ stage = Debouncing[call] /\ delay = 0 /\ late' = 0 /\ UNCHANGED <<pressed, gap, gesture>>
        /\ \/ pressed = WaitsFor[call] /\ Found(call)
           \/ /\ pressed # WaitsFor[call] /\ delay' = Poll /\ stage' = call
              /\ UNCHANGED <<elapsed, click, waited, timeout>>
    BY DEF SampleAgain, Runs, Sleep
  <1>3. CASE call = "idle"
    <2>1. /\ stage' \in Outside /\ delay' \in {0, Poll} /\ elapsed' \in {0, elapsed}
          /\ UNCHANGED <<click, waited, timeout>>
      BY <1>2, <1>3 DEF Found, GoTo, Sleep, Outside
    <2>2. stage \in Outside
      BY <1>2, <1>3 DEF Outside, Debouncing
    <2>3. gesture' = NoGesture
      BY <1>2, <2>2 DEF GestureInv
    <2>4. /\ pressed' \in BOOLEAN /\ delay' \in Nat /\ delay' <= Debounce /\ late' \in Nat
          /\ late' <= MaxLate /\ elapsed' \in Nat /\ click' \in Nat /\ waited' \in Nat
          /\ timeout' \in Nat /\ gap' \in Nat
      BY <1>1, <1>2, <2>1, GestureNumbers
    <2>5. QED
      BY <2>1, <2>3, <2>4, NoGestureStep
  <1>4. CASE call # "idle"
    <2>1. call \in {"release", "first", "between", "second"}
      BY <1>4, StageSet
    <2>2. GestureAt(Debouncing[call], pressed, gesture, 0, late, elapsed, click, waited, timeout)
      BY <1>2 DEF GestureInv
    <2>3. CASE pressed # WaitsFor[call]
      <3>1. /\ delay' = Poll /\ stage' = call /\ elapsed' = elapsed /\ click' = click
            /\ waited' = waited /\ timeout' = timeout
        BY <1>2, <2>3
      <3>2. GestureAt(call, pressed, gesture, Poll, 0, elapsed, click, waited, timeout)
        BY <1>1, <2>1, <2>2, <2>3, WantedLevel, AgainStep
      <3>3. call \in Inside /\ Poll \in Nat /\ Poll <= Debounce
        BY <2>1, GestureNumbers DEF Inside
      <3>4. QED
        BY <1>1, <1>2, <3>1, <3>2, <3>3, TaskStep
    <2>4. CASE pressed = WaitsFor[call]
      <3>1. Found(call) /\ Wanted(call, pressed)
        BY <1>1, <1>2, <2>1, <2>4, WantedLevel
      <3>2. CASE /\ call = "release" /\ elapsed < Window /\ elapsed' = elapsed
                 /\ stage' = "first" /\ delay' = 0 /\ click' = 0
                 /\ waited' = 0 /\ timeout' = Window - elapsed
        <4>1. GestureAt("first", pressed, gesture, 0, 0, elapsed, 0, 0, Window - elapsed)
          BY <1>1, <2>1, <2>2, <3>1, <3>2, AgainStep
        <4>2. "first" \in Inside /\ 0 \in Nat /\ 0 <= Debounce /\ Window - elapsed \in Nat
          BY <1>1, <3>2, GestureNumbers DEF Inside
        <4>3. QED
          BY <1>1, <1>2, <3>2, <4>1, <4>2, TaskStep
      <3>3. CASE /\ call = "first" /\ elapsed < Window /\ elapsed' = elapsed
                 /\ stage' = "between" /\ delay' = 0 /\ click' = 0
                 /\ waited' = 0 /\ timeout' = Min({Window - elapsed, DoubleClick})
        <4>1. GestureAt("between", pressed, gesture, 0, 0, elapsed, 0, 0,
                        Min({Window - elapsed, DoubleClick}))
          BY <1>1, <2>1, <2>2, <3>1, <3>3, AgainStep
        <4>2. "between" \in Inside /\ 0 \in Nat /\ 0 <= Debounce
          BY GestureNumbers DEF Inside
        <4>3. Min({Window - elapsed, DoubleClick}) \in Nat
          BY <1>1, <3>3, GestureNumbers, LesserOfTwo
        <4>4. QED
          BY <1>1, <1>2, <3>3, <4>1, <4>2, <4>3, TaskStep
      <3>4. CASE /\ call = "between" /\ elapsed < Window /\ click < DoubleClick
                 /\ elapsed' = elapsed /\ click' = click /\ stage' = "second" /\ delay' = 0
                 /\ waited' = 0 /\ timeout' = Min({Window - elapsed, DoubleClick - click})
        <4>1. GestureAt("second", pressed, gesture, 0, 0, elapsed, click, 0,
                        Min({Window - elapsed, DoubleClick - click}))
          BY <1>1, <2>1, <2>2, <3>1, <3>4, AgainStep
        <4>2. "second" \in Inside /\ 0 \in Nat /\ 0 <= Debounce
          BY GestureNumbers DEF Inside
        <4>3. Min({Window - elapsed, DoubleClick - click}) \in Nat
          BY <1>1, <3>4, GestureNumbers, LesserOfTwo
        <4>4. QED
          BY <1>1, <1>2, <3>4, <4>1, <4>2, <4>3, TaskStep
      <3>5. CASE /\ \/ call = "second" /\ stage' = "cancelled"
                    \/ /\ stage' = "expire"
                       /\ \/ call \in {"release", "first", "between"} /\ elapsed >= Window
                          \/ call = "between" /\ click >= DoubleClick
                 /\ elapsed' = elapsed /\ click' = click /\ delay' = 0
                 /\ waited' = 0 /\ timeout' = 0
        <4>1. GestureAt(stage', pressed, gesture, 0, 0, elapsed, click, 0, 0)
          <5>1. call = "second" => GestureAt("cancelled", pressed, gesture, 0, 0, elapsed, click, 0, 0)
            BY <1>1, <2>1, <2>2, <3>1, AgainStep
          <5>2. call \in {"release", "first", "between"} /\ elapsed >= Window =>
                  GestureAt("expire", pressed, gesture, 0, 0, elapsed, click, 0, 0)
            BY <1>1, <2>1, <2>2, AgainStep
          <5>3. call = "between" /\ click >= DoubleClick =>
                  GestureAt("expire", pressed, gesture, 0, 0, elapsed, click, 0, 0)
            BY <1>1, <2>1, <2>2, AgainStep
          <5>4. QED
            BY <3>5, <5>1, <5>2, <5>3
        <4>2. stage' \in Inside /\ 0 \in Nat /\ 0 <= Debounce
          BY <3>5, GestureNumbers DEF Inside
        <4>3. QED
          BY <1>1, <1>2, <3>5, <4>1, <4>2, TaskStep
      <3>6. QED
        BY <3>1, <3>2, <3>3, <3>4, <3>5, <1>4
           DEF Found, WaitForButton, GiveUp, GoTo, Sleep, Remaining, SecondClickTimeout
    <2>5. QED
      BY <2>3, <2>4
  <1>5. QED
    BY <1>3, <1>4

LEMMA GestureStep == GestureInv /\ [ButtonNext]_buttonVars => GestureInv'
  <1> SUFFICES ASSUME GestureInv, [ButtonNext]_buttonVars
               PROVE  GestureInv'
    OBVIOUS
  <1>0. /\ pressed \in BOOLEAN /\ gesture \in Gesture /\ late \in Nat /\ late <= MaxLate
        /\ elapsed \in Nat /\ click \in Nat /\ waited \in Nat /\ timeout \in Nat /\ gap \in Nat
        /\ delay \in Nat /\ delay <= Debounce
    BY ButtonTyped DEF GestureInv
  <1>n. /\ 0 \in Nat /\ 0 <= Debounce /\ 0 <= MaxLate /\ Poll \in Nat /\ Poll <= Debounce
        /\ Debounce \in Nat /\ Debounce <= Debounce /\ Window \in Nat
    BY GestureNumbers
  <1>1. CASE Tick
    BY <1>1, GestureTicks
  <1>2. ASSUME NEW call \in Call, Sample(call)
        PROVE  GestureInv'
    BY <1>2, GestureLooks
  <1>3. ASSUME NEW call \in Call, SampleAgain(call)
        PROVE  GestureInv'
    BY <1>3, GestureLooksAgain
  <1>4. CASE MeasureHold \/ ConfirmRelease
    <2>1. /\ stage \in Outside /\ stage' \in Outside /\ delay' \in {0, Poll, Debounce} /\ late' = 0
          /\ UNCHANGED <<pressed, elapsed, click, waited, timeout, gap, gesture>>
      BY <1>4 DEF MeasureHold, ConfirmRelease, Runs, GoTo, Sleep, Outside
    <2>2. gesture' = NoGesture
      BY <2>1 DEF GestureInv
    <2>3. QED
      BY <1>0, <1>n, <2>1, <2>2, NoGestureStep
  <1>5. CASE Warn
    <2>1. /\ stage \in Outside /\ late' = 0 /\ delay' = 0 /\ pressed' \in BOOLEAN /\ gap' = 0
          /\ elapsed' = 0 /\ click' = click
          /\ \/ stage' = "release" /\ waited' = 0 /\ timeout' = Window /\ gesture' = NoGesture
             \/ stage' \in Outside /\ UNCHANGED <<waited, timeout, gesture>>
      BY <1>5 DEF Warn, Runs, WaitForButton, GoTo, Sleep, Outside
    <2>2. gesture' = NoGesture
      BY <2>1 DEF GestureInv
    <2>3. QED
      BY <1>0, <1>n, <2>1, <2>2, NoGestureStep
  <1>6. CASE WaitOut
    <2>1. /\ stage = "expire" /\ delay = 0 /\ late' = 0
          /\ UNCHANGED <<pressed, elapsed, click, waited, timeout, gap, gesture>>
          /\ \/ elapsed < Window /\ stage' = "expire" /\ delay' = Poll
             \/ ~(elapsed < Window) /\ stage' = "execute" /\ delay' = 0
      BY <1>6 DEF WaitOut, Runs, GoTo, Sleep
    <2>2. GestureAt("expire", pressed, gesture, 0, late, elapsed, click, waited, timeout)
      BY <2>1 DEF GestureInv
    <2>3. GestureAt(stage', pressed, gesture, delay', 0, elapsed, click, waited, timeout)
      <3>1. /\ elapsed < Window =>
                 GestureAt("expire", pressed, gesture, Poll, 0, elapsed, click, waited, timeout)
            /\ elapsed >= Window =>
                 GestureAt("execute", pressed, gesture, 0, 0, elapsed, click, waited, timeout)
        BY <1>0, <2>2, WaitOutStep
      <3>2. ~(elapsed < Window) => elapsed >= Window
        BY <1>0, <1>n
      <3>3. QED
        BY <2>1, <3>1, <3>2
    <2>4. stage' \in Inside
      BY <2>1 DEF Inside
    <2>5. QED
      BY <1>0, <1>n, <2>1, <2>3, <2>4, TaskStep
  <1>7. CASE Return
    <2>1. /\ late' = 0 /\ delay' = 0 /\ pressed' \in BOOLEAN /\ gap' = 0 /\ elapsed' = 0 /\ click' = 0
          /\ gesture' = NoGesture /\ stage' \in Outside /\ waited' = waited /\ timeout' = timeout
      BY <1>7 DEF Return, Runs, GoTo, Sleep, Outside
    <2>2. QED
      BY <1>0, <1>n, <2>1, NoGestureStep
  <1>8. CASE UNCHANGED buttonVars
    BY <1>8 DEF buttonVars, taskVars, GestureInv, ButtonTypeOK
  <1>9. QED
    BY <1>1, <1>2, <1>3, <1>4, <1>5, <1>6, <1>7, <1>8 DEF ButtonNext

(* The variables of the gesture keep their types. *)
THEOREM ButtonTypes == ButtonSpec => []ButtonTypeOK
  <1>1. GestureInv => ButtonTypeOK
    BY DEF GestureInv
  <1>2. QED
    BY <1>1, GestureInit, GestureStep, PTL DEF ButtonSpec

(* Whenever the task comes to run, within MaxLate ticks of the end of its   *)
(* delays, a clear double click cancels the reset, and nothing cancels it   *)
(* but two presses about as far apart as a double click may be.             *)
THEOREM DoubleClickCancels == ButtonSpec => []CancelledByDoubleClick
  <1>1. GestureInv => CancelledByDoubleClick
    <2> SUFFICES ASSUME GestureInv PROVE CancelledByDoubleClick
      OBVIOUS
    <2>1. /\ pressed \in BOOLEAN /\ gesture \in Gesture
          /\ GestureAt(stage, pressed, gesture, delay, late, elapsed, click, waited, timeout)
      BY ButtonTyped DEF GestureInv
    <2>2. gesture.level \in 1 .. 6 /\ gesture.length \in 0 .. Distinct
      BY <2>1, LevelOfButton
    <2>3. stage = "cancelled" =>
            /\ gesture.level > 4
            /\ gesture.level = 5 => gesture.apart < DoubleClick + Distinct
      BY <2>1, <2>2 DEF GestureAt, Consistent
    <2>4. ASSUME stage = "execute", ClearDoubleClick
          PROVE  FALSE
      <3>1. gesture.clear /\ (gesture.level > 5 \/ (gesture.level = 5 /\ gesture.length >= Distinct))
        BY <2>4 DEF ClearDoubleClick
      <3>2. gesture.level = 5 => gesture.apart + MaxLate < DoubleClick
        BY <2>1, <3>1 DEF GestureAt, Consistent
      <3>3. \/ Level(gesture, pressed) = 6
            \/ Level(gesture, pressed) = 5 /\ Lasted(gesture, pressed) >= Distinct
        BY <2>2, <3>1 DEF Level, Lasted, Goes
      <3>4. Clear(gesture, pressed)
        BY <2>2, <3>1, <3>2 DEF Clear, Level, Goes
      <3>5. \/ Level(gesture, pressed) <= 4
            \/ Level(gesture, pressed) = 5 /\ Lasted(gesture, pressed) < Distinct
        BY <2>1, <2>4, <3>4 DEF GestureAt, Followed
      <3>6. Lasted(gesture, pressed) \in Nat /\ Distinct \in Nat
        BY <2>1, LevelOfButton, GestureNumbers
      <3>7. QED
        BY <3>3, <3>5, <3>6
    <2>5. QED
      BY <2>3, <2>4 DEF CancelledByDoubleClick
  <1>2. QED
    BY <1>1, GestureInit, GestureStep, PTL DEF ButtonSpec
=============================================================================
