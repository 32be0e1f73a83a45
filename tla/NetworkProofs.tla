---------------------------- MODULE NetworkProofs ----------------------------
(***************************************************************************)
(* Proofs about the Ethernet driver and the network task, for rings of any  *)
(* size and any pool of buffers: no buffer is in two places or leaks, the   *)
(* program and the DMA engine keep in step on both rings, and a network     *)
(* that is reported ready has a link and an address.  And about the time    *)
(* service, for any timeouts: the clock is set to fresh answers only, and   *)
(* every second of a day survives its registers.  The two specifications    *)
(* share no variable and no constant.                                       *)
(***************************************************************************)
EXTENDS Network, TimeService, TLAPS

TxTypes ==
  /\ running \in BOOLEAN
  /\ running = linkUp
  /\ txOwn \in [TxSlot -> BOOLEAN]
  /\ txIndex \in TxSlot
  /\ txDma \in TxSlot
  /\ txFrame \in [count : 0 .. TxCount, given : 0 .. TxCount]
  /\ txFrame.given <= txFrame.count
  /\ torn \in BOOLEAN
  /\ timedOut \in BOOLEAN

RxTypes ==
  /\ rxOwn \in [RxSlot -> BOOLEAN]
  /\ rxBuffer \in [RxSlot -> RxBuffer]
  /\ rxIndex \in RxSlot
  /\ rxDma \in RxSlot
  /\ pool \in SUBSET RxBuffer
  /\ held \in SUBSET RxBuffer
  /\ replacement \in RxBuffer \cup {NoBuffer}

(* An address that was leased is there as long as the lease is. *)
ConfigTypes ==
  /\ sinceStart \in 0 .. TickRange - 1
  /\ config \in Configuration
  /\ leaseLost \in BOOLEAN
  /\ config.dhcp = "bound" => config.address = "dhcp"

(* The engine has filled n descriptors that are still to be read. *)
Filled(n) ==
  /\ rxDma = (rxIndex + n) % RxCount
  /\ \A k \in 0 .. RxCount - 1 : rxOwn[(rxIndex + k) % RxCount] <=> k >= n

RxInStep == \E n \in 0 .. RxCount : Filled(n)

(* The engine has taken m descriptors of the frame that is being sent.      *)
(* Those it has are the last ones given and not taken; it takes none before *)
(* all are given.                                                           *)
Taken(m) ==
  /\ txDma = TxPlus(txIndex, m)
  /\ m > 0 => txFrame.given = txFrame.count
  /\ \A k \in 0 .. TxCount - 1 :
       txOwn[TxPlus(txIndex, k)] <=>
         k >= m /\ k >= txFrame.count - txFrame.given /\ k < txFrame.count

TxInStep == ~torn /\ \E m \in 0 .. txFrame.count : Taken(m)

IInv ==
  /\ TxTypes
  /\ RxTypes
  /\ ConfigTypes
  /\ BuffersHaveOnePlace
  /\ RxInStep
  /\ ~timedOut => TxInStep
  /\ ReadyMeansUsable

-----------------------------------------------------------------------------
(* Arithmetic of a ring of any size. *)
LEMMA NoTurn ==
  ASSUME NEW R \in Nat \ {0}, NEW z \in 0 .. R - 1
  PROVE  z % R = z
  OBVIOUS

LEMMA OneTurn ==
  ASSUME NEW R \in Nat \ {0}, NEW z \in R .. 2 * R - 1
  PROVE  z % R = z - R
  OBVIOUS

LEMMA TwoTurns ==
  ASSUME NEW R \in Nat \ {0}, NEW z \in 2 * R .. 3 * R - 1
  PROVE  z % R = z - 2 * R
  OBVIOUS

LEMMA RingPlus ==
  ASSUME NEW R \in Nat \ {0}, NEW i \in 0 .. R - 1, NEW a \in 0 .. R, NEW b \in 0 .. R
  PROVE  /\ (i + a) % R \in 0 .. R - 1
         /\ (((i + a) % R) + b) % R = (i + (a + b)) % R
  <1>1. CASE i + a < R
    BY <1>1, NoTurn
  <1>2. CASE i + a >= R
    <2>1. (i + a) % R = i + a - R
      BY <1>2, OneTurn
    <2> DEFINE z == i + a - R + b
    <2>2. z \in 0 .. 2 * R - 1 /\ z + R = i + (a + b)
      BY <1>2
    <2> HIDE DEF z
    <2>3. (z + R) % R = z % R
      <3>1. CASE z < R
        BY <2>2, <3>1, NoTurn, OneTurn
      <3>2. CASE z >= R
        <4>1. z % R = z - R
          BY <2>2, <3>2, OneTurn
        <4> DEFINE w == z + R
        <4>2. w \in 2 * R .. 3 * R - 1 /\ w - 2 * R = z - R
          BY <2>2, <3>2
        <4> HIDE DEF w
        <4>3. w % R = w - 2 * R
          BY <4>2, TwoTurns, Zenon
        <4>4. QED
          BY <4>1, <4>2, <4>3 DEF w
      <3>3. QED
        BY <2>2, <3>1, <3>2
    <2>4. QED
      BY <2>1, <2>2, <2>3 DEF z
  <1>3. QED
    BY <1>1, <1>2

LEMMA RingZero ==
  ASSUME NEW R \in Nat \ {0}, NEW i \in 0 .. R - 1
  PROVE  (i + 0) % R = i /\ (i + R) % R = i
  OBVIOUS

LEMMA RingDistinct ==
  ASSUME NEW R \in Nat \ {0}, NEW i \in 0 .. R - 1, NEW a \in 0 .. R - 1, NEW b \in 0 .. R - 1,
         (i + a) % R = (i + b) % R
  PROVE  a = b
  OBVIOUS

LEMMA RingCovered ==
  ASSUME NEW R \in Nat \ {0}, NEW i \in 0 .. R - 1, NEW j \in 0 .. R - 1
  PROVE  \E k \in 0 .. R - 1 : j = (i + k) % R
  <1>1. CASE j >= i
    <2>1. j - i \in 0 .. R - 1 /\ j = (i + (j - i)) % R
      BY <1>1
    <2>2. QED
      BY <2>1
  <1>2. CASE j < i
    <2>1. j - i + R \in 0 .. R - 1 /\ j = (i + (j - i + R)) % R
      BY <1>2
    <2>2. QED
      BY <2>1
  <1>3. QED
    BY <1>1, <1>2

-----------------------------------------------------------------------------
(* Which part of the state a step moves. *)
TxMove ==
  \/ \E count \in 1 .. TxCount : Write(count)
  \/ GiveDescriptor
  \/ WriteDone
  \/ WriteTimesOut
  \/ DmaTransmit

RxMove ==
  \/ Allocate
  \/ PassUp
  \/ DropFaulty
  \/ DropForWantOfBuffer
  \/ FreeRxBuffer
  \/ DmaReceive

LinkMove == LoseLink \/ FindLink \/ KeepLink

ConfigMove ==
  \/ LinkMove
  \/ TimePasses
  \/ LeaseObtained
  \/ LeaseGone
  \/ UNCHANGED <<running, linkUp, sinceStart, config, leaseLost>>

(* The link handler may send a frame when it has stopped the engine. *)
TxLeft == UNCHANGED txVars \/ WriteWhileStopped

LEMMA Moves ==
  ASSUME [Next]_vars
  PROVE  \/ TxMove /\ UNCHANGED <<running, rxVars, netVars>>
         \/ RxMove /\ UNCHANGED <<running, txVars, netVars>>
         \/ ConfigMove /\ TxLeft /\ UNCHANGED rxVars
  <1> USE DEF TxMove, RxMove, ConfigMove, TxLeft
  <1>1. CASE Send
    BY <1>1 DEF Send, Write
  <1>2. CASE FinishSending
    BY <1>2 DEF FinishSending, Transmit, GiveDescriptor, WriteDone, WriteTimesOut
  <1>3. CASE Environment
    BY <1>3 DEF Environment, DmaTransmit, DmaReceive, FreeRxBuffer
  <1>4. CASE ReadFrame
    BY <1>4 DEF ReadFrame, Allocate, PassUp, Rearm
  <1>5. CASE DropFrame
    BY <1>5 DEF DropFrame, Drop, DropFaulty, DropForWantOfBuffer, Rearm
  <1>6. CASE Poll
    <2>1. CASE LoseLink
      BY <2>1 DEF LoseLink, LinkMove
    <2>2. CASE FindLink \/ KeepLink
      BY <2>2 DEF FindLink, KeepLink, LinkMove, ethVars
    <2>3. QED
      BY <1>6, <2>1, <2>2 DEF Poll
  <1>7. CASE InputDone \/ CableChanges \/ TimePasses \/ LeaseObtained \/ LeaseGone
    BY <1>7 DEF InputDone, CableChanges, TimePasses, LeaseObtained, LeaseGone,
                ethVars, netVars
  <1>8. CASE UNCHANGED vars
    BY <1>8 DEF vars, ethVars, netVars
  <1>9. QED
    BY <1>1, <1>2, <1>3, <1>4, <1>5, <1>6, <1>7, <1>8 DEF Next

-----------------------------------------------------------------------------
(* The transmit ring. *)
LEMMA TxSizes == TxCount \in Nat \ {0} /\ TxSlot = 0 .. TxCount - 1
  BY EthernetAssumption DEF TxSlot

TxInv == TxTypes /\ (~timedOut => TxInStep)

LEMMA TxTypesStep ==
  ASSUME TxTypes, TxMove, UNCHANGED <<running, linkUp>>
  PROVE  TxTypes'
  <1> USE TxSizes DEF TxTypes
  <1>1. ASSUME NEW count \in 1 .. TxCount, Write(count)
        PROVE  TxTypes'
    BY <1>1 DEF Write
  <1>2. CASE GiveDescriptor
    <2>1. txFrame'.given <= txFrame'.count /\
          txFrame' \in [count : 0 .. TxCount, given : 0 .. TxCount]
      BY <1>2 DEF GiveDescriptor
    <2>2. QED
      BY <1>2, <2>1 DEF GiveDescriptor
  <1>3. CASE WriteDone
    BY <1>3, RingPlus DEF WriteDone, TxPlus, NoFrame
  <1>4. CASE WriteTimesOut
    BY <1>4 DEF WriteTimesOut, NoFrame
  <1>5. CASE DmaTransmit
    <2>1. TxPlus(txDma, 1) \in TxSlot
      <3>1. 1 \in 0 .. TxCount
        OBVIOUS
      <3>2. QED
        BY <3>1, RingPlus DEF TxPlus
    <2>2. QED
      BY <1>5, <2>1 DEF DmaTransmit
  <1>6. QED
    BY <1>1, <1>2, <1>3, <1>4, <1>5 DEF TxMove

LEMMA TxInStepStep ==
  ASSUME TxTypes, ~timedOut => TxInStep, TxMove, ~timedOut'
  PROVE  TxInStep'
  <1> USE TxSizes
  <1>1. ~timedOut /\ TxInStep /\ ~WriteTimesOut
    BY DEF TxMove, Write, GiveDescriptor, WriteDone, WriteTimesOut, DmaTransmit, TxTypes
  <1>2. PICK m \in 0 .. txFrame.count : Taken(m)
    BY <1>1 DEF TxInStep
  <1> DEFINE c == txFrame.count
             g == txFrame.given
  <1>3. /\ c \in 0 .. TxCount /\ g \in 0 .. TxCount /\ g <= c
        /\ txIndex \in 0 .. TxCount - 1 /\ txDma \in 0 .. TxCount - 1
        /\ txOwn \in [0 .. TxCount - 1 -> BOOLEAN]
        /\ m \in 0 .. TxCount
    BY <1>2 DEF TxTypes
  <1>4. /\ txDma = TxPlus(txIndex, m)
        /\ m > 0 => g = c
        /\ \A k \in 0 .. TxCount - 1 :
             txOwn[TxPlus(txIndex, k)] <=> k >= m /\ k >= c - g /\ k < c
    BY <1>2 DEF Taken
  <1>5. \A a, b \in 0 .. TxCount - 1 : TxPlus(txIndex, a) = TxPlus(txIndex, b) => a = b
    BY <1>3, RingDistinct DEF TxPlus
  <1>6. ASSUME NEW count \in 1 .. TxCount, Write(count)
        PROVE  TxInStep'
    <2>1. c = 0 /\ g = 0 /\ m = 0
      BY <1>2, <1>6 DEF Write, NoFrame
    <2>2. /\ txFrame'.count = count /\ txFrame'.given = 0
          /\ UNCHANGED <<txOwn, txIndex, txDma, torn>>
      BY <1>6 DEF Write
    <2>3. Taken(0)'
      BY <1>3, <1>4, <2>1, <2>2 DEF Taken, TxPlus
    <2>4. 0 \in 0 .. txFrame'.count
      BY <2>2
    <2>5. QED
      BY <1>1, <2>2, <2>3, <2>4 DEF TxInStep
  <1>7. CASE GiveDescriptor
    <2>1. m = 0 /\ g < c
      BY <1>3, <1>4, <1>7 DEF GiveDescriptor
    <2>2. /\ txFrame'.count = c /\ txFrame'.given = g + 1
          /\ UNCHANGED <<txIndex, txDma, torn>>
          /\ txOwn' = [txOwn EXCEPT ![TxPlus(txIndex, c - g - 1)] = TRUE]
      BY <1>7 DEF GiveDescriptor, TxTypes
    <2>3. c - g - 1 \in 0 .. TxCount - 1
      BY <1>3, <2>1
    <2>4. ASSUME NEW k \in 0 .. TxCount - 1
          PROVE  txOwn'[TxPlus(txIndex, k)] <=> k >= 0 /\ k >= c - (g + 1) /\ k < c
      <3>1. TxPlus(txIndex, k) \in 0 .. TxCount - 1
        BY <1>3, RingPlus DEF TxPlus
      <3>2. CASE k = c - g - 1
        BY <1>3, <2>1, <2>2, <3>1, <3>2
      <3>3. CASE k # c - g - 1
        <4>1. txOwn'[TxPlus(txIndex, k)] = txOwn[TxPlus(txIndex, k)]
          BY <1>3, <1>5, <2>2, <2>3, <3>1, <3>3
        <4>2. QED
          BY <1>3, <1>4, <2>1, <3>3, <4>1
      <3>4. QED
        BY <3>2, <3>3
    <2>5. Taken(0)'
      BY <1>3, <1>4, <2>1, <2>2, <2>4 DEF Taken, TxPlus
    <2>6. 0 \in 0 .. txFrame'.count
      BY <1>3, <2>2
    <2>7. QED
      BY <1>1, <2>2, <2>5, <2>6 DEF TxInStep
  <1>8. CASE WriteDone
    <2>1. g = c /\ c > 0 /\ ~txOwn[TxPlus(txIndex, c - 1)]
      BY <1>3, <1>8 DEF WriteDone, Given, LastIndex, NoFrame, TxTypes
    <2>2. m = c
      BY <1>2, <1>3, <1>4, <2>1
    <2>3. /\ txIndex' = txDma /\ txFrame'.count = 0 /\ txFrame'.given = 0
          /\ UNCHANGED <<txOwn, txDma, torn>>
      BY <1>4, <1>8, <2>2 DEF WriteDone, NoFrame
    <2>4. \A j \in 0 .. TxCount - 1 : ~txOwn[j]
      <3> SUFFICES ASSUME NEW j \in 0 .. TxCount - 1
                   PROVE  ~txOwn[j]
        OBVIOUS
      <3>1. PICK k \in 0 .. TxCount - 1 : j = TxPlus(txIndex, k)
        BY <1>3, RingCovered DEF TxPlus
      <3>2. QED
        BY <1>3, <1>4, <2>2, <3>1
    <2>5. Taken(0)'
      <3>1. txDma' = TxPlus(txIndex', 0)
        BY <1>3, <2>3, RingZero DEF TxPlus
      <3>2. \A k \in 0 .. TxCount - 1 : ~txOwn'[TxPlus(txIndex', k)]
        BY <1>3, <2>3, <2>4, RingPlus DEF TxPlus
      <3>3. QED
        BY <2>3, <3>1, <3>2 DEF Taken
    <2>6. 0 \in 0 .. txFrame'.count
      BY <2>3
    <2>7. QED
      BY <1>1, <2>3, <2>5, <2>6 DEF TxInStep
  <1>9. CASE DmaTransmit
    <2>1. txOwn[TxPlus(txIndex, m)]
      BY <1>4, <1>9 DEF DmaTransmit
    <2>2. m \in 0 .. TxCount - 1
      <3> SUFFICES ASSUME m = TxCount
                   PROVE  FALSE
        BY <1>3
      <3>1. TxPlus(txIndex, m) = TxPlus(txIndex, 0)
        BY <1>3, RingZero DEF TxPlus
      <3>2. QED
        BY <1>3, <1>4, <2>1, <3>1
    <2>3. m < c /\ g = c
      BY <1>3, <1>4, <2>1, <2>2
    <2>4. /\ UNCHANGED <<txFrame, txIndex>>
          /\ ~torn'
          /\ txDma' = TxPlus(txIndex, m + 1)
          /\ txOwn' = [txOwn EXCEPT ![TxPlus(txIndex, m)] = FALSE]
      <3>1. TxPlus(TxPlus(txIndex, m), 1) = TxPlus(txIndex, m + 1)
        <4>1. m \in 0 .. TxCount /\ 1 \in 0 .. TxCount
          BY <1>3
        <4>2. (((txIndex + m) % TxCount) + 1) % TxCount = (txIndex + (m + 1)) % TxCount
          BY <1>3, <4>1, RingPlus
        <4>3. QED
          BY <4>2 DEF TxPlus
      <3>2. ~torn'
        BY <1>1, <1>3, <1>9, <2>3 DEF DmaTransmit, TxInStep, TxTypes
      <3>3. QED
        BY <1>4, <1>9, <3>1, <3>2 DEF DmaTransmit
    <2>5. ASSUME NEW k \in 0 .. TxCount - 1
          PROVE  txOwn'[TxPlus(txIndex, k)] <=> k >= m + 1 /\ k >= c - g /\ k < c
      <3>1. TxPlus(txIndex, k) \in 0 .. TxCount - 1
        BY <1>3, RingPlus DEF TxPlus
      <3>2. CASE k = m
        BY <1>3, <2>4, <3>1, <3>2
      <3>3. CASE k # m
        <4>1. txOwn'[TxPlus(txIndex, k)] = txOwn[TxPlus(txIndex, k)]
          BY <1>3, <1>5, <2>2, <2>4, <3>1, <3>3
        <4>2. QED
          BY <1>3, <1>4, <3>3, <4>1
      <3>4. QED
        BY <3>2, <3>3
    <2>6. Taken(m + 1)'
      BY <1>3, <2>3, <2>4, <2>5 DEF Taken, TxPlus
    <2>7. m + 1 \in 0 .. txFrame'.count
      BY <1>3, <2>3, <2>4
    <2>8. QED
      BY <2>4, <2>6, <2>7 DEF TxInStep
  <1>10. QED
    BY <1>1, <1>6, <1>7, <1>8, <1>9 DEF TxMove

-----------------------------------------------------------------------------
(* The receive ring. *)
LEMMA RxSizes == RxCount \in Nat \ {0} /\ RxSlot = 0 .. RxCount - 1
  BY EthernetAssumption DEF RxSlot

LEMMA RxNextInRing ==
  ASSUME NEW i \in RxSlot, NEW n \in 0 .. RxCount
  PROVE  /\ RxNext(i) \in RxSlot
         /\ RxNext((i + n) % RxCount) = (i + (n + 1)) % RxCount
         /\ (RxNext(i) + n) % RxCount = (i + (n + 1)) % RxCount
  <1>1. 1 \in 0 .. RxCount /\ 1 + n = n + 1
    BY RxSizes
  <1>2. /\ (i + 1) % RxCount \in 0 .. RxCount - 1
        /\ (((i + 1) % RxCount) + n) % RxCount = (i + (1 + n)) % RxCount
        /\ (((i + n) % RxCount) + 1) % RxCount = (i + (n + 1)) % RxCount
    BY <1>1, RxSizes, RingPlus
  <1>3. QED
    BY <1>1, <1>2, RxSizes DEF RxNext

LEMMA RxTypesStep ==
  ASSUME RxTypes, RxMove
  PROVE  RxTypes'
  <1> USE RxNextInRing, EthernetAssumption DEF RxTypes
  <1>1. CASE Allocate
    BY <1>1 DEF Allocate
  <1>2. CASE PassUp
    BY <1>2 DEF PassUp, Rearm
  <1>3. CASE DropFaulty
    BY <1>3 DEF DropFaulty, Rearm
  <1>4. CASE DropForWantOfBuffer
    BY <1>4 DEF DropForWantOfBuffer, Rearm
  <1>5. CASE FreeRxBuffer
    BY <1>5 DEF FreeRxBuffer
  <1>6. CASE DmaReceive
    BY <1>6 DEF DmaReceive
  <1>7. QED
    BY <1>1, <1>2, <1>3, <1>4, <1>5, <1>6 DEF RxMove

LEMMA RearmInStep ==
  ASSUME RxTypes, RxInStep, ~rxOwn[rxIndex], Rearm
  PROVE  RxInStep'
  <1> USE RxSizes
  <1>1. PICK n \in 0 .. RxCount : Filled(n)
    BY DEF RxInStep
  <1>2. /\ rxIndex \in 0 .. RxCount - 1
        /\ rxOwn \in [0 .. RxCount - 1 -> BOOLEAN]
        /\ rxOwn' = [rxOwn EXCEPT ![rxIndex] = TRUE]
        /\ rxIndex' = RxNext(rxIndex)
        /\ rxDma' = rxDma
        /\ (rxIndex + 0) % RxCount = rxIndex
        /\ (rxIndex + RxCount) % RxCount = rxIndex
    BY RingZero DEF RxTypes, Rearm
  <1>3. n >= 1
    BY <1>1, <1>2 DEF Filled
  <1>4. rxDma' = (rxIndex' + (n - 1)) % RxCount
    <2>1. n - 1 \in 0 .. RxCount /\ (n - 1) + 1 = n
      BY <1>3
    <2>2. (RxNext(rxIndex) + (n - 1)) % RxCount = (rxIndex + ((n - 1) + 1)) % RxCount
      BY <1>2, <2>1, RxNextInRing
    <2>3. QED
      BY <1>1, <1>2, <2>1, <2>2 DEF Filled
  <1>5. ASSUME NEW k \in 0 .. RxCount - 1
        PROVE  rxOwn'[(rxIndex' + k) % RxCount] <=> k >= n - 1
    <2>1. (rxIndex' + k) % RxCount = (rxIndex + (k + 1)) % RxCount
      <3>1. k \in 0 .. RxCount
        OBVIOUS
      <3>2. QED
        BY <1>2, <3>1, RxNextInRing
    <2>2. CASE k + 1 = RxCount
      BY <1>2, <2>1, <2>2
    <2>3. CASE k + 1 # RxCount
      <3>1. k + 1 \in 0 .. RxCount - 1 /\ k + 1 # 0 /\ 0 \in 0 .. RxCount - 1
        BY <2>3
      <3>2. (rxIndex + (k + 1)) % RxCount # (rxIndex + 0) % RxCount
        BY <1>2, <3>1, RingDistinct
      <3>3. (rxIndex + (k + 1)) % RxCount \in 0 .. RxCount - 1
        BY <1>2, <3>1, RingPlus
      <3>4. rxOwn'[(rxIndex' + k) % RxCount] = rxOwn[(rxIndex + (k + 1)) % RxCount]
        BY <1>2, <2>1, <3>2, <3>3
      <3>5. rxOwn[(rxIndex + (k + 1)) % RxCount] <=> k + 1 >= n
        BY <1>1, <3>1 DEF Filled
      <3>6. QED
        BY <3>4, <3>5
    <2>4. QED
      BY <2>2, <2>3
  <1>6. n - 1 \in 0 .. RxCount
    BY <1>3
  <1>7. QED
    BY <1>4, <1>5, <1>6 DEF RxInStep, Filled

LEMMA RxInStepStep ==
  ASSUME RxTypes, RxInStep, RxMove
  PROVE  RxInStep'
  <1> USE RxSizes
  <1>1. CASE Allocate \/ FreeRxBuffer
    <2>1. UNCHANGED <<rxOwn, rxIndex, rxDma>>
      BY <1>1 DEF Allocate, FreeRxBuffer
    <2>2. QED
      BY <2>1 DEF RxInStep, Filled
  <1>2. CASE PassUp \/ DropFaulty \/ DropForWantOfBuffer
    BY <1>2, RearmInStep DEF PassUp, DropFaulty, DropForWantOfBuffer
  <1>3. CASE DmaReceive
    <2>1. PICK n \in 0 .. RxCount : Filled(n)
      BY DEF RxInStep
    <2>2. /\ rxIndex \in 0 .. RxCount - 1
          /\ rxOwn \in [0 .. RxCount - 1 -> BOOLEAN]
          /\ rxIndex' = rxIndex
          /\ rxDma' = RxNext(rxDma)
          /\ rxOwn[(rxIndex + n) % RxCount]
          /\ rxOwn' = [rxOwn EXCEPT ![(rxIndex + n) % RxCount] = FALSE]
      BY <1>3, <2>1 DEF DmaReceive, RxTypes, Filled
    <2>3. n \in 0 .. RxCount - 1
      <3> SUFFICES ASSUME n = RxCount
                   PROVE  FALSE
        OBVIOUS
      <3>1. rxOwn[(rxIndex + 0) % RxCount]
        BY <2>2, RingZero
      <3>2. QED
        BY <2>1, <3>1 DEF Filled
    <2>4. rxDma' = (rxIndex' + (n + 1)) % RxCount
      BY <2>1, <2>2, RxNextInRing DEF Filled
    <2>5. ASSUME NEW k \in 0 .. RxCount - 1
          PROVE  rxOwn'[(rxIndex' + k) % RxCount] <=> k >= n + 1
      <3>1. (rxIndex + k) % RxCount \in 0 .. RxCount - 1
        BY <2>2, RingPlus
      <3>2. CASE k = n
        BY <2>2, <3>1, <3>2
      <3>3. CASE k # n
        <4>1. (rxIndex + k) % RxCount # (rxIndex + n) % RxCount
          BY <2>2, <2>3, <3>3, RingDistinct
        <4>2. rxOwn'[(rxIndex' + k) % RxCount] = rxOwn[(rxIndex + k) % RxCount]
          BY <2>2, <3>1, <4>1
        <4>3. QED
          BY <2>1, <3>3, <4>2 DEF Filled
      <3>4. QED
        BY <3>2, <3>3
    <2>6. n + 1 \in 0 .. RxCount
      BY <2>3
    <2>7. QED
      BY <2>4, <2>5, <2>6 DEF RxInStep, Filled
  <1>4. QED
    BY <1>1, <1>2, <1>3 DEF RxMove

-----------------------------------------------------------------------------
(* The buffers.  Passing a frame up exchanges the descriptor's buffer for   *)
(* the replacement.                                                         *)
LEMMA ExchangedBuffer ==
  ASSUME RxTypes, BuffersHaveOnePlace, replacement # NoBuffer,
         rxBuffer' = [rxBuffer EXCEPT ![rxIndex] = replacement]
  PROVE  /\ \A i, j \in RxSlot : rxBuffer'[i] = rxBuffer'[j] => i = j
         /\ InDescriptors' = (InDescriptors \ {rxBuffer[rxIndex]}) \cup {replacement}
         /\ rxBuffer[rxIndex] \in InDescriptors
  <1>1. /\ rxIndex \in RxSlot
        /\ rxBuffer \in [RxSlot -> RxBuffer]
        /\ \A i, j \in RxSlot : rxBuffer[i] = rxBuffer[j] => i = j
        /\ \A i \in RxSlot : rxBuffer[i] # replacement
    BY DEF RxTypes, BuffersHaveOnePlace, InDescriptors
  <1>2. \A i \in RxSlot : rxBuffer'[i] = IF i = rxIndex THEN replacement ELSE rxBuffer[i]
    BY <1>1
  <1>3. \A i, j \in RxSlot : rxBuffer'[i] = rxBuffer'[j] => i = j
    BY <1>1, <1>2
  <1>4. InDescriptors' \subseteq (InDescriptors \ {rxBuffer[rxIndex]}) \cup {replacement}
    BY <1>1, <1>2 DEF InDescriptors
  <1>5. (InDescriptors \ {rxBuffer[rxIndex]}) \cup {replacement} \subseteq InDescriptors'
    BY <1>1, <1>2 DEF InDescriptors
  <1>6. QED
    BY <1>1, <1>3, <1>4, <1>5 DEF InDescriptors

LEMMA BuffersStep ==
  ASSUME RxTypes, BuffersHaveOnePlace, RxMove
  PROVE  BuffersHaveOnePlace'
  <1>1. CASE PassUp
    <2>1. /\ replacement # NoBuffer /\ replacement' = NoBuffer
          /\ rxBuffer' = [rxBuffer EXCEPT ![rxIndex] = replacement]
          /\ held' = held \cup {rxBuffer[rxIndex]}
          /\ pool' = pool
      BY <1>1 DEF PassUp
    <2>2. /\ \A i, j \in RxSlot : rxBuffer'[i] = rxBuffer'[j] => i = j
          /\ InDescriptors' = (InDescriptors \ {rxBuffer[rxIndex]}) \cup {replacement}
          /\ rxBuffer[rxIndex] \in InDescriptors
      BY <2>1, ExchangedBuffer
    <2>3. /\ NoBuffer \notin pool \cup held \cup InDescriptors
          /\ replacement \notin pool \cup held \cup InDescriptors
          /\ pool \cup held \cup InDescriptors \cup {replacement} = RxBuffer
          /\ pool \cap held = {}
          /\ (pool \cup held) \cap InDescriptors = {}
      BY <2>1, EthernetAssumption DEF BuffersHaveOnePlace
    <2>4. QED
      BY <2>1, <2>2, <2>3 DEF BuffersHaveOnePlace
  <1>2. CASE Allocate
    <2>1. UNCHANGED <<rxBuffer, held>> /\ InDescriptors' = InDescriptors
      BY <1>2 DEF Allocate, InDescriptors
    <2>2. PICK b \in pool : replacement' = b /\ pool' = pool \ {b}
      BY <1>2 DEF Allocate
    <2>3. QED
      BY <1>2, <2>1, <2>2, EthernetAssumption DEF BuffersHaveOnePlace, Allocate
  <1>3. CASE DropFaulty
    <2>1. UNCHANGED <<rxBuffer, held>> /\ InDescriptors' = InDescriptors
      BY <1>3 DEF DropFaulty, InDescriptors
    <2>2. QED
      BY <1>3, <2>1, EthernetAssumption DEF BuffersHaveOnePlace, DropFaulty
  <1>4. CASE FreeRxBuffer
    <2>1. UNCHANGED <<rxBuffer, replacement>> /\ InDescriptors' = InDescriptors
      BY <1>4 DEF FreeRxBuffer, InDescriptors
    <2>2. PICK b \in held : held' = held \ {b} /\ pool' = pool \cup {b}
      BY <1>4 DEF FreeRxBuffer
    <2>3. QED
      BY <2>1, <2>2 DEF BuffersHaveOnePlace
  <1>5. CASE DropForWantOfBuffer \/ DmaReceive
    <2>1. UNCHANGED <<rxBuffer, pool, held, replacement>>
      BY <1>5 DEF DropForWantOfBuffer, DmaReceive
    <2>2. QED
      BY <2>1 DEF BuffersHaveOnePlace, InDescriptors
  <1>6. QED
    BY <1>1, <1>2, <1>3, <1>4, <1>5 DEF RxMove

-----------------------------------------------------------------------------
(* Link and configuration.  Whatever poll and tick it is called for, what   *)
(* lwip_ProcessConfiguration makes ready has an address and the link; what  *)
(* it leaves alone stays.                                                   *)
Sane(c) == c \in Configuration /\ (c.dhcp = "bound" => c.address = "dhcp")

LEMMA Processed ==
  ASSUME NEW link \in BOOLEAN, NEW c, Sane(c), NEW elapsed \in Nat,
         NEW d, d = ProcessConfiguration(link, c, elapsed)
  PROVE  /\ Sane(d)
         /\ d = c \/ (d.lwipNetworkReady = link /\ d.address # "none")
  <1> USE DEF Sane, Configuration
  <1>1. CASE d = c
    BY <1>1
  <1>2. CASE /\ link /\ c.dhcp = "bound"
             /\ d = Report(link, [c EXCEPT !.lwipStaticFallbackActive = FALSE])
    BY <1>2 DEF Report
  <1>3. CASE ~(link /\ c.dhcp = "bound") /\ d = ApplyStaticConfiguration(link, c)
    BY <1>3 DEF ApplyStaticConfiguration, Report
  <1>4. QED
    BY <1>1, <1>2, <1>3 DEF ProcessConfiguration

LEMMA Started ==
  /\ Sane(Unconfigured) /\ Unconfigured.lwipNetworkReady = FALSE
  /\ \A c \in StartDhcp : Sane(c) /\ (c.lwipNetworkReady => c.address # "none")
  <1>1. Sane(Unconfigured) /\ Unconfigured.lwipNetworkReady = FALSE
    BY DEF Unconfigured, Sane, Configuration
  <1>2. ASSUME NEW c, c = [Unconfigured EXCEPT !.dhcp = "searching"]
        PROVE  Sane(c) /\ c.lwipNetworkReady = FALSE
    BY <1>2 DEF Unconfigured, Sane, Configuration
  <1>3. ASSUME NEW c, c = ApplyStaticConfiguration(TRUE, Unconfigured)
        PROVE  Sane(c) /\ c.address = "static"
    BY <1>3 DEF ApplyStaticConfiguration, Report, Unconfigured, Sane, Configuration
  <1>4. QED
    BY <1>1, <1>2, <1>3 DEF StartDhcp

LEMMA Stopped ==
  ASSUME NEW c, Sane(c), NEW d \in StopDhcp(c)
  PROVE  Sane(d) /\ ~d.lwipNetworkReady
  BY DEF StopDhcp, Unconfigured, Sane, Configuration

LEMMA LaterByNat ==
  ASSUME NEW d \in 0 .. MaxDelay
  PROVE  LaterBy(d) \in Nat
  <1>1. TickRange - d \in Nat
    BY NetworkAssumption
  <1>2. QED
    BY <1>1, NetworkAssumption DEF LaterBy

LEMMA ConfigStep ==
  ASSUME ConfigTypes, ReadyMeansUsable, linkUp \in BOOLEAN, ConfigMove
  PROVE  ConfigTypes' /\ ReadyMeansUsable'
  <1> USE DEF ConfigTypes, ReadyMeansUsable
  <1>0. Sane(config) /\ 0 \in 0 .. TickRange - 1 /\ sinceStart \in Nat
    BY NetworkAssumption DEF Sane
  <1>1. CASE LoseLink
    <2>1. PICK late \in 0 .. MaxDelay, stopped \in StopDhcp(config) :
            config' = ProcessConfiguration(FALSE, stopped, LaterBy(late))
      BY <1>1 DEF LoseLink
    <2>2. Sane(stopped) /\ ~stopped.lwipNetworkReady /\ LaterBy(late) \in Nat
      BY <1>0, Stopped, LaterByNat
    <2>3. Sane(config') /\ ~config'.lwipNetworkReady
      BY <2>1, <2>2, Processed
    <2>4. QED
      BY <1>0, <1>1, <2>3 DEF LoseLink, Sane
  <1>2. CASE FindLink
    <2>1. PICK late \in 1 .. MaxDelay, started \in StartDhcp :
            config' = ProcessConfiguration(TRUE, started, LaterBy(late))
      BY <1>2 DEF FindLink
    <2>2. /\ Sane(started) /\ (started.lwipNetworkReady => started.address # "none")
          /\ LaterBy(late) \in Nat
      BY Started, LaterByNat
    <2>3. /\ Sane(config')
          /\ config' = started \/ config'.address # "none"
      BY <2>1, <2>2, Processed
    <2>4. config'.lwipNetworkReady => config'.address # "none"
      BY <2>2, <2>3
    <2>5. QED
      BY <1>0, <1>2, <2>3, <2>4 DEF FindLink, Sane
  <1>3. CASE KeepLink
    <2>1. /\ config' = ProcessConfiguration(linkUp, config, sinceStart)
          /\ leaseLost' = (leaseLost /\ config'.address = "none")
          /\ UNCHANGED <<linkUp, sinceStart>>
      BY <1>3 DEF KeepLink
    <2>2. /\ Sane(config')
          /\ config' = config \/ (config'.lwipNetworkReady = linkUp /\ config'.address # "none")
      BY <1>0, <2>1, Processed
    <2>3. QED
      BY <2>1, <2>2 DEF Sane
  <1>4. CASE TimePasses
    <2>1. sinceStart' \in 0 .. TickRange - 1
      BY <1>0, <1>4, NetworkAssumption DEF TimePasses
    <2>2. QED
      BY <1>4, <2>1 DEF TimePasses
  <1>5. CASE LeaseObtained
    BY <1>5 DEF LeaseObtained, Configuration
  <1>6. CASE LeaseGone
    BY <1>6 DEF LeaseGone, Configuration
  <1>7. CASE UNCHANGED <<running, linkUp, sinceStart, config, leaseLost>>
    BY <1>7
  <1>8. QED
    BY <1>1, <1>2, <1>3, <1>4, <1>5, <1>6, <1>7 DEF ConfigMove, LinkMove

(* The engine is started and stopped with the link. *)
LEMMA LinkStep ==
  ASSUME TxTypes, ConfigMove, TxLeft
  PROVE  TxTypes'
  <1>1. running' \in BOOLEAN /\ running' = linkUp'
    <2>1. CASE LoseLink \/ FindLink
      BY <2>1 DEF LoseLink, FindLink
    <2>2. CASE UNCHANGED <<running, linkUp>>
      BY <2>2 DEF TxTypes
    <2>3. QED
      BY <2>1, <2>2 DEF ConfigMove, LinkMove, KeepLink, TimePasses, LeaseObtained,
                        LeaseGone, ethVars
  <1>2. CASE UNCHANGED txVars
    BY <1>1, <1>2 DEF TxTypes, txVars
  <1>3. CASE WriteWhileStopped
    <2>1. PICK count \in 1 .. TxCount :
            txOwn' = [i \in TxSlot |-> txOwn[i] \/ i \in {TxPlus(txIndex, k) : k \in 0 .. count - 1}]
      BY <1>3 DEF WriteWhileStopped
    <2>2. txOwn' \in [TxSlot -> BOOLEAN]
      BY <2>1
    <2>3. timedOut' = TRUE /\ UNCHANGED <<txIndex, txDma, txFrame, torn>>
      BY <1>3 DEF WriteWhileStopped
    <2>4. QED
      BY <1>1, <2>2, <2>3 DEF TxTypes
  <1>4. QED
    BY <1>2, <1>3 DEF TxLeft

(* A frame that is left with the engine counts as timed out. *)
LEMMA LinkInStep ==
  ASSUME ~timedOut => TxInStep, TxLeft, ~timedOut'
  PROVE  TxInStep'
  BY DEF TxLeft, WriteWhileStopped, txVars, TxInStep, Taken

-----------------------------------------------------------------------------
LEMMA InvInit == Init => IInv
  <1> SUFFICES ASSUME Init PROVE IInv
    OBVIOUS
  <1> USE TxSizes, RxSizes DEF Init, EthInit
  <1>1. TxTypes
    <2>1. /\ 0 \in TxSlot /\ 0 \in 0 .. TxCount
          /\ txOwn \in [TxSlot -> BOOLEAN]
      OBVIOUS
    <2>2. /\ txFrame \in [count : 0 .. TxCount, given : 0 .. TxCount]
          /\ txFrame.given <= txFrame.count
      BY <2>1 DEF NoFrame
    <2>3. QED
      BY <2>1, <2>2 DEF TxTypes
  <1>2. RxTypes
    BY EthernetAssumption DEF RxTypes
  <1>3. BuffersHaveOnePlace
    <2>1. InDescriptors \subseteq RxBuffer
      BY DEF InDescriptors
    <2>2. pool = RxBuffer \ InDescriptors
      BY DEF InDescriptors
    <2>3. QED
      BY <2>1, <2>2, EthernetAssumption DEF BuffersHaveOnePlace
  <1>4. RxInStep
    <2>1. rxOwn \in [RxSlot -> BOOLEAN] /\ 0 \in 0 .. RxCount - 1
      OBVIOUS
    <2>2. ASSUME NEW k \in 0 .. RxCount - 1
          PROVE  rxOwn[(rxIndex + k) % RxCount]
      <3>1. (0 + k) % RxCount \in RxSlot
        BY <2>1, RingPlus
      <3>2. QED
        BY <3>1
    <2>3. Filled(0)
      <3>1. (0 + 0) % RxCount = 0
        BY <2>1, RingZero
      <3>2. QED
        BY <2>2, <3>1 DEF Filled
    <2>4. QED
      BY <2>3 DEF RxInStep
  <1>5. TxInStep
    <2>1. 0 \in 0 .. TxCount - 1
      OBVIOUS
    <2>2. ASSUME NEW k \in 0 .. TxCount - 1
          PROVE  ~txOwn[TxPlus(txIndex, k)]
      <3>1. (0 + k) % TxCount \in TxSlot
        BY <2>1, RingPlus
      <3>2. QED
        BY <3>1 DEF TxPlus
    <2>3. Taken(0)
      <3>1. (0 + 0) % TxCount = 0
        BY <2>1, RingZero
      <3>2. QED
        BY <2>2, <3>1 DEF Taken, TxPlus, NoFrame
    <2>4. QED
      BY <2>3 DEF TxInStep, NoFrame
  <1>6. ConfigTypes /\ ReadyMeansUsable
    <2>1. sinceStart \in 0 .. TickRange - 1
      BY NetworkAssumption
    <2>2. Sane(config) /\ (config.lwipNetworkReady => linkUp /\ config.address # "none")
      <3>1. CASE linkUp
        BY <3>1, Started
      <3>2. CASE ~linkUp
        <4>1. config = Unconfigured
          BY <3>2
        <4>2. QED
          BY <4>1, Started
      <3>3. QED
        BY <3>1, <3>2
    <2>3. QED
      BY <2>1, <2>2 DEF ConfigTypes, ReadyMeansUsable, Sane
  <1>7. QED
    BY <1>1, <1>2, <1>3, <1>4, <1>5, <1>6 DEF IInv

LEMMA InvStep == IInv /\ [Next]_vars => IInv'
  <1> SUFFICES ASSUME IInv, [Next]_vars PROVE IInv'
    OBVIOUS
  <1> USE DEF IInv
  <1>1. CASE TxMove /\ UNCHANGED <<running, rxVars, netVars>>
    <2>1. TxTypes' /\ (~timedOut' => TxInStep')
      BY <1>1, TxTypesStep, TxInStepStep DEF netVars
    <2>2. /\ RxTypes' /\ BuffersHaveOnePlace' /\ RxInStep'
      BY <1>1 DEF rxVars, RxTypes, BuffersHaveOnePlace, InDescriptors, RxInStep, Filled
    <2>3. ConfigTypes' /\ ReadyMeansUsable'
      BY <1>1 DEF netVars, ConfigTypes, ReadyMeansUsable
    <2>4. QED
      BY <2>1, <2>2, <2>3
  <1>2. CASE RxMove /\ UNCHANGED <<running, txVars, netVars>>
    <2>1. TxTypes' /\ (~timedOut' => TxInStep')
      BY <1>2 DEF txVars, netVars, TxTypes, TxInStep, Taken
    <2>2. /\ RxTypes' /\ BuffersHaveOnePlace' /\ RxInStep'
      BY <1>2, RxTypesStep, BuffersStep, RxInStepStep
    <2>3. ConfigTypes' /\ ReadyMeansUsable'
      BY <1>2 DEF netVars, ConfigTypes, ReadyMeansUsable
    <2>4. QED
      BY <2>1, <2>2, <2>3
  <1>3. CASE ConfigMove /\ TxLeft /\ UNCHANGED rxVars
    <2>1. TxTypes' /\ (~timedOut' => TxInStep')
      BY <1>3, LinkStep, LinkInStep
    <2>2. /\ RxTypes' /\ BuffersHaveOnePlace' /\ RxInStep'
      BY <1>3 DEF rxVars, RxTypes, BuffersHaveOnePlace, InDescriptors, RxInStep, Filled
    <2>3. ConfigTypes' /\ ReadyMeansUsable'
      BY <1>3, ConfigStep DEF TxTypes
    <2>4. QED
      BY <2>1, <2>2, <2>3
  <1>4. QED
    BY <1>1, <1>2, <1>3, Moves

LEMMA Invariance == Spec => []IInv
  BY InvInit, InvStep, PTL DEF Spec

(* The rings' indices and the pool keep their types, and the DMA engine     *)
(* runs exactly while the link is up.                                       *)
THEOREM TypeCorrect == Spec => []TypeOK
  <1>1. IInv => TypeOK
    BY DEF IInv, TxTypes, RxTypes, ConfigTypes, TypeOK
  <1>2. QED
    BY <1>1, Invariance, PTL

(* ethernet_Read, and ethernet_FreeRxBuffer when lwIP is done, keep every   *)
(* receive buffer in one place: no packet lwIP holds is given to the engine *)
(* and no buffer leaks, for any pool and ring.                              *)
THEOREM BuffersHaveOnePlaceHolds == Spec => []BuffersHaveOnePlace
  <1>1. IInv => BuffersHaveOnePlace
    BY DEF IInv
  <1>2. QED
    BY <1>1, Invariance, PTL

(* ethernet_Read and ethernet_Write look at the descriptors the engine is   *)
(* at, without reading its pointers, and the engine finds whole frames, for *)
(* rings of any size, until a transmission times out, be it the one that    *)
(* dhcp_stop begins when the engine has been stopped.                       *)
THEOREM RingsInStepHolds == Spec => []RingsInStep
  <1>1. IInv => RingsInStep
    <2> SUFFICES ASSUME IInv PROVE RingsInStep
      OBVIOUS
    <2>1. \E n \in 0 .. RxCount :
            /\ rxDma = (rxIndex + n) % RxCount
            /\ \A k \in 0 .. RxCount - 1 : rxOwn[(rxIndex + k) % RxCount] <=> k >= n
      BY DEF IInv, RxInStep, Filled
    <2>2. ASSUME ~timedOut, txFrame = NoFrame
          PROVE  txIndex = txDma /\ \A i \in TxSlot : ~txOwn[i]
      <3>1. PICK m \in 0 .. txFrame.count : Taken(m)
        BY <2>2 DEF IInv, TxInStep
      <3>2. /\ m = 0 /\ txFrame.count = 0 /\ txFrame.given = 0
            /\ txIndex \in 0 .. TxCount - 1
        BY <2>2, <3>1, TxSizes DEF NoFrame, IInv, TxTypes
      <3>3. txIndex = txDma
        BY <3>1, <3>2, TxSizes, RingZero DEF Taken, TxPlus
      <3>4. ASSUME NEW i \in TxSlot
            PROVE  ~txOwn[i]
        <4>1. PICK k \in 0 .. TxCount - 1 : i = TxPlus(txIndex, k)
          BY <3>2, TxSizes, RingCovered DEF TxPlus
        <4>2. QED
          BY <3>1, <3>2, <4>1 DEF Taken
      <3>5. QED
        BY <3>3, <3>4
    <2>3. QED
      BY <2>1, <2>2 DEF RingsInStep, IInv, TxInStep
  <1>2. QED
    BY <1>1, Invariance, PTL

(* What Lwip_IsReady tells the services is true of the link and of          *)
(* the address, except for a lease that was lost since the last poll.       *)
THEOREM ReadyMeansUsableHolds == Spec => []ReadyMeansUsable
  <1>1. IInv => ReadyMeansUsable
    BY DEF IInv
  <1>2. QED
    BY <1>1, Invariance, PTL

-----------------------------------------------------------------------------
(***************************************************************************)
(* The time service.  An answer that would be taken has come since the last *)
(* time the task went to sleep, or it comes to it now, or it has found the  *)
(* network down with the answer there.                                      *)
(***************************************************************************)
Takeable == syncState = "received" /\ receivedUnixTime # "none"

FreshInv ==
  /\ age \in Nat
  /\ Takeable => \/ age = 0
                 \/ age = 1 /\ pc \in {"wake", "receive", "set"}
                 \/ offline
  /\ pc = "set" => age <= 1 \/ offline

LEMMA FreshInit == TimeInit => FreshInv
  BY DEF TimeInit, FreshInv

LEMMA FreshStep == FreshInv /\ [TimeNext]_timeVars => FreshInv'
  <1> SUFFICES ASSUME FreshInv, [TimeNext]_timeVars
               PROVE  FreshInv'
    OBVIOUS
  <1> USE DEF FreshInv, Takeable, requestVars, taskVars
  <1>1. CASE Wake
    BY <1>1 DEF Wake
  <1>2. CASE TakeAnswer
    <2>1. /\ UNCHANGED <<syncState, receivedUnixTime, age, offline>>
          /\ \/ Takeable /\ pc' = "set"
             \/ ~Takeable /\ pc' = "failed"
          /\ pc = "receive"
      BY <1>2 DEF TakeAnswer
    <2>2. Takeable' <=> Takeable
      BY <2>1
    <2>3. QED
      BY <2>1, <2>2
  <1>3. CASE SetClock
    BY <1>3 DEF SetClock
  <1>4. CASE ClockIsSet
    BY <1>4 DEF ClockIsSet
  <1>5. CASE ClockIsNotSet
    BY <1>5 DEF ClockIsNotSet
  <1>6. CASE SeeFailure
    BY <1>6 DEF SeeFailure
  <1>7. CASE Reset
    BY <1>7 DEF Reset
  <1>8. CASE DecideRequest
    BY <1>8 DEF DecideRequest
  <1>9. CASE BeginRequest
    BY <1>9 DEF BeginRequest
  <1>10. CASE PostRequest
    BY <1>10 DEF PostRequest
  <1>11. CASE RequestNotPosted
    BY <1>11 DEF RequestNotPosted
  <1>12. CASE CheckTimeout
    BY <1>12 DEF CheckTimeout
  <1>13. CASE ExpireRequest
    BY <1>13 DEF ExpireRequest
  <1>14. CASE Sleep
    <2>1. /\ pc = "sleep" /\ pc' = "wake" /\ UNCHANGED <<syncState, receivedUnixTime, offline>>
          /\ age' \in {age, age + 1}
      BY <1>14 DEF Sleep
    <2>2. Takeable' => Takeable
      BY <2>1
    <2>3. QED
      BY <2>1, <2>2
  <1>15. CASE StartRequest
    BY <1>15 DEF StartRequest, SendRequest
  <1>16. CASE DnsCallback
    BY <1>16 DEF DnsCallback, SendRequest
  <1>17. ASSUME NEW answer \in {"accepted", "refused", "invalid"}, Receive(answer)
         PROVE  FreshInv'
    <2>1. pc' = pc
      BY <1>17 DEF Receive
    <2>2. \/ syncState' = "failed" /\ UNCHANGED <<age, offline>>
          \/ age' = 0
      BY <1>17 DEF Receive
    <2>3. QED
      BY <2>1, <2>2
  <1>18. CASE LoseAnswer
    BY <1>18 DEF LoseAnswer
  <1>19. CASE NetworkChanges
    BY <1>19 DEF NetworkChanges
  <1>20. CASE UNCHANGED timeVars
    BY <1>20 DEF timeVars
  <1>21. QED
    BY <1>1, <1>2, <1>3, <1>4, <1>5, <1>6, <1>7, <1>8, <1>9, <1>10, <1>11, <1>12, <1>13,
       <1>14, <1>15, <1>16, <1>17, <1>18, <1>19, <1>20
       DEF TimeNext, TaskStep

(* Whatever overwrites the shared state in between, and for any intervals,  *)
(* the clock is set to an answer that came in the second before, unless the *)
(* network was down when the task came to it.                               *)
THEOREM FreshUnlessOfflineHolds == TimeSpec => []FreshUnlessOffline
  <1>1. FreshInv => FreshUnlessOffline
    BY DEF FreshInv, FreshUnlessOffline
  <1>2. QED
    BY <1>1, FreshInit, FreshStep, PTL DEF TimeSpec

-----------------------------------------------------------------------------
(***************************************************************************)
(* The conversions of the clock.  The day and the second of the day are     *)
(* converted independently, so the days can be tried one by one and the     *)
(* seconds proved.                                                          *)
(***************************************************************************)
LEMMA DivisionOfTime ==
  ASSUME NEW x \in Nat, x < 86400
  PROVE  \E h, m, s \in Nat :
           /\ h < 24 /\ m < 60 /\ s < 60 /\ x = h * 3600 + m * 60 + s
           /\ x \div 3600 = h /\ (x % 3600) \div 60 = m /\ x % 60 = s
  <1>1. \A y \in Nat : y % 3600 \in Nat /\ y % 3600 < 3600 /\ y = (y \div 3600) * 3600 + (y % 3600)
                        /\ y \div 3600 \in Nat
    BY SMT
  <1>2. PICK h \in Nat, r \in Nat : x \div 3600 = h /\ x % 3600 = r /\ r < 3600 /\ x = h * 3600 + r
    BY <1>1, SMT
  <1>4. h < 24
    BY <1>2, SMT
  <1>5. \A y \in Nat : y % 60 \in Nat /\ y % 60 < 60 /\ y = (y \div 60) * 60 + (y % 60)
                        /\ y \div 60 \in Nat
    BY SMT
  <1>6. PICK m \in Nat, s \in Nat : r \div 60 = m /\ r % 60 = s /\ s < 60 /\ r = m * 60 + s
    BY <1>5, SMT
  <1>7. m < 60
    BY <1>2, <1>6, SMT
  <1>8. x % 60 = s
    <2>1. PICK k \in Nat : k = h * 60 + m
      BY SMT
    <2>2. x = k * 60 + s
      BY <1>2, <1>6, <2>1, SMT
    <2>3. (k * 60 + s) % 60 = s
      BY <1>6, SMT
    <2>4. QED
      BY <2>2, <2>3, SMT
  <1>9. x = h * 3600 + m * 60 + s
    BY <1>2, <1>6, SMT
  <1>10. QED
    BY <1>2, <1>4, <1>6, <1>7, <1>8, <1>9, SMT

(* Two decimal digits survive the registers. *)
LEMMA BcdReadsBack == \A v \in Nat : v < 100 => FromBcd(ToBcd(v)) = v
  <1> SUFFICES ASSUME NEW v \in Nat, v < 100
               PROVE  FromBcd(ToBcd(v)) = v
    OBVIOUS
  <1>1. PICK t \in 0 .. 9, u \in 0 .. 9 : v \div 10 = t /\ v % 10 = u /\ v = t * 10 + u
    <2>1. v \div 10 \in 0 .. 9 /\ v % 10 \in 0 .. 9 /\ v = (v \div 10) * 10 + (v % 10)
      OBVIOUS
    <2>2. QED
      BY <2>1
  <1>2. (t * 16 + u) \div 16 = t /\ (t * 16 + u) % 16 = u
    OBVIOUS
  <1>3. ToBcd(v) = t * 16 + u
    BY <1>1 DEF ToBcd
  <1>4. FromBcd(t * 16 + u) = t * 10 + u
    BY <1>2 DEF FromBcd
  <1>5. QED
    BY <1>1, <1>3, <1>4

(* Every second of a day that is written to the registers is read back as   *)
(* that second, in hours, minutes and seconds that exist.                   *)
THEOREM TimeOfDayReadsBack ==
  ASSUME NEW day \in Nat, NEW second \in Nat, second < 86400
  PROVE  LET date == GetDateTime(SetUnixTime(day, second))
         IN  /\ date.hour < 24 /\ date.minute < 60 /\ date.second < 60
             /\ SecondOfDay(date) = second
  <1> DEFINE date == GetDateTime(SetUnixTime(day, second))
  <1>1. PICK h, m, s \in Nat :
          /\ h < 24 /\ m < 60 /\ s < 60 /\ second = h * 3600 + m * 60 + s
          /\ second \div 3600 = h /\ (second % 3600) \div 60 = m /\ second % 60 = s
    BY DivisionOfTime, SMT
  <1>2. /\ date.hour = FromBcd(ToBcd(second \div 3600))
        /\ date.minute = FromBcd(ToBcd((second % 3600) \div 60))
        /\ date.second = FromBcd(ToBcd(second % 60))
    BY SMT DEF GetDateTime, SetUnixTime
  <1>3. FromBcd(ToBcd(h)) = h /\ FromBcd(ToBcd(m)) = m /\ FromBcd(ToBcd(s)) = s
    <2>1. h < 100 /\ m < 100 /\ s < 100
      BY <1>1, SMT
    <2>2. QED
      BY <2>1, BcdReadsBack, SMT
  <1> HIDE DEF date
  <1>4. date.hour = h /\ date.minute = m /\ date.second = s
    BY <1>1, <1>2, <1>3, SMT
  <1>5. SecondOfDay(date) = second
    BY <1>1, <1>4, SMT DEF SecondOfDay
  <1>6. QED
    BY <1>1, <1>4, <1>5, SMT DEF date

(* The calendar alone, at midnight: TLC evaluates it for every day the      *)
(* clock can show.                                                          *)
DaysAgree ==
  \A day \in {d \in FirstDay - 1 .. EndDay : InRange(d)} :
    LET date == GetDateTime(SetUnixTime(day, 0))
    IN /\ date.month \in 1 .. 12
       /\ date.day \in 1 .. DaysInMonth(date.year, date.month)
       /\ GetUnixTime(date).day = day
       /\ X509TimeToUnix(date).day = day

(* Where the dates of Rtc_SetUnixTime, Rtc_GetUnixTime and the certificates *)
(* agree at midnight, all conversions agree at every second tried.          *)
THEOREM DaysSuffice == DaysAgree => ConversionsAgree
  <1> SUFFICES ASSUME DaysAgree, NEW day \in {d \in FirstDay - 1 .. EndDay : InRange(d)},
                      NEW second \in Seconds
               PROVE  LET time == [day |-> day, second |-> second]
                          date == GetDateTime(SetUnixTime(day, second))
                      IN /\ date.month \in 1 .. 12
                         /\ date.day \in 1 .. DaysInMonth(date.year, date.month)
                         /\ GetUnixTime(date) = time
                         /\ X509TimeToUnix(date) = time
    BY SMT DEF ConversionsAgree
  <1> DEFINE date == GetDateTime(SetUnixTime(day, second))
             midnight == GetDateTime(SetUnixTime(day, 0))
  <1>1. second \in Nat /\ second < 86400 /\ day \in Nat
    BY CalendarAssumption, SMT DEF FirstDay
  <1>2. date.year = midnight.year /\ date.month = midnight.month /\ date.day = midnight.day
    BY SMT DEF GetDateTime, SetUnixTime
  <1>3. SecondOfDay(date) = second
    BY <1>1, TimeOfDayReadsBack, SMT
  <1>4. /\ midnight.month \in 1 .. 12
        /\ midnight.day \in 1 .. DaysInMonth(midnight.year, midnight.month)
        /\ GetUnixTime(midnight).day = day
        /\ X509TimeToUnix(midnight).day = day
    BY SMT DEF DaysAgree
  <1> HIDE DEF date, midnight
  <1>5. GetUnixTime(date) = [day |-> GetUnixTime(midnight).day, second |-> SecondOfDay(date)]
    BY <1>2, SMT DEF GetUnixTime
  <1>6. X509TimeToUnix(date) = [day |-> X509TimeToUnix(midnight).day, second |-> SecondOfDay(date)]
    BY <1>2, SMT DEF X509TimeToUnix
  <1>7. QED
    BY <1>2, <1>3, <1>4, <1>5, <1>6, SMT DEF date
=============================================================================
