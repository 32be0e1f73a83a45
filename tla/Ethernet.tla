------------------------------ MODULE Ethernet ------------------------------
(***************************************************************************)
(* The Ethernet driver: two rings of descriptors shared with the DMA        *)
(* engine, and a pool of receive buffers that go up to lwIP and come back.  *)
(* A descriptor belongs to the engine while its OWN bit is set.  The engine *)
(* walks each ring in order with a pointer of its own, which the program    *)
(* never reads; txIndex and rxIndex only work because they keep in step.    *)
(*                                                                          *)
(* A frame is sent by whoever holds the lwIP core lock, who waits for it;   *)
(* frames are read by the network task without the lock.                    *)
(***************************************************************************)
EXTENDS Naturals, FiniteSets

CONSTANTS
  TxCount,     \* ETH_TX_DESC_COUNT
  RxCount,     \* ETH_RX_DESC_COUNT
  RxBuffer,    \* the buffers of RX_POOL
  NoBuffer     \* not a buffer

ASSUME EthernetAssumption ==
  /\ TxCount \in Nat \ {0}
  /\ RxCount \in Nat \ {0}
  /\ IsFiniteSet(RxBuffer)
  /\ Cardinality(RxBuffer) >= RxCount
  /\ NoBuffer \notin RxBuffer

VARIABLES
  running,      \* whether the DMA engine is started
  txOwn,        \* OWN bits of the transmit descriptors
  txIndex,
  txDma,        \* the engine's pointer
  txFrame,      \* descriptors of the frame being sent: first, count, given
  torn,         \* history: the engine ran dry inside a frame
  timedOut,     \* history: a transmission has timed out
  rxOwn,        \* OWN bits of the receive descriptors
  rxBuffer,     \* the buffer of each receive descriptor
  rxIndex,
  rxDma,        \* the engine's pointer
  pool,         \* free buffers
  held,         \* buffers passed to lwIP
  replacement   \* the buffer ethernet_Read has taken from the pool

txVars == <<txOwn, txIndex, txDma, txFrame, torn, timedOut>>
rxVars == <<rxOwn, rxBuffer, rxIndex, rxDma, pool, held, replacement>>
ethVars == <<running, txVars, rxVars>>

TxSlot == 0 .. TxCount - 1
RxSlot == 0 .. RxCount - 1
TxPlus(i, n) == (i + n) % TxCount
RxNext(i) == (i + 1) % RxCount

NoFrame == [count |-> 0, given |-> 0]

(* ethernet_HardwareInit; after it, low_level_init looks at the link and    *)
(* starts the engine if there is one.                                       *)
EthInit ==
  /\ running \in BOOLEAN
  /\ txOwn = [i \in TxSlot |-> FALSE]
  /\ txIndex = 0
  /\ txDma = 0
  /\ txFrame = NoFrame
  /\ torn = FALSE
  /\ timedOut = FALSE
  /\ rxOwn = [i \in RxSlot |-> TRUE]
  /\ rxBuffer \in [RxSlot -> RxBuffer]
  /\ \A i, j \in RxSlot : rxBuffer[i] = rxBuffer[j] => i = j
  /\ rxIndex = 0
  /\ rxDma = 0
  /\ pool = RxBuffer \ {rxBuffer[i] : i \in RxSlot}
  /\ held = {}
  /\ replacement = NoBuffer

-----------------------------------------------------------------------------
(* ethernet_Write: a frame of some parts is entered in as many free         *)
(* descriptors, or refused (ERR_MEM) when they do not suffice.              *)
Write(count) ==
  /\ txFrame = NoFrame
  /\ count <= TxCount
  /\ \A i \in 0 .. count - 1 : ~txOwn[TxPlus(txIndex, i)]
  /\ txFrame' = [count |-> count, given |-> 0]
  /\ UNCHANGED <<running, txOwn, txIndex, txDma, torn, timedOut, rxVars>>

(* Mutant: the descriptors are given to the engine first to last. *)
GiveFirstToLast ==
  /\ txFrame.given < txFrame.count
  /\ txOwn' = [txOwn EXCEPT ![TxPlus(txIndex, txFrame.given)] = TRUE]
  /\ txFrame' = [txFrame EXCEPT !.given = @ + 1]
  /\ UNCHANGED <<running, txIndex, txDma, torn, timedOut, rxVars>>

(* The descriptors are given to the engine last to first. *)
GiveDescriptor ==
  /\ txFrame.given < txFrame.count
  /\ txOwn' = [txOwn EXCEPT ![TxPlus(txIndex, txFrame.count - txFrame.given - 1)] = TRUE]
  /\ txFrame' = [txFrame EXCEPT !.given = @ + 1]
  /\ UNCHANGED <<running, txIndex, txDma, torn, timedOut, rxVars>>

Given == txFrame # NoFrame /\ txFrame.given = txFrame.count
LastIndex == TxPlus(txIndex, txFrame.count - 1)

(* Sent, with or without an error: the index moves past the frame. *)
WriteDone ==
  /\ Given
  /\ ~txOwn[LastIndex]
  /\ txIndex' = TxPlus(txIndex, txFrame.count)
  /\ txFrame' = NoFrame
  /\ UNCHANGED <<running, txOwn, txDma, torn, timedOut, rxVars>>

(* Not sent within 20 ms: the frame stays with the engine and the index     *)
(* where it is.                                                             *)
WriteTimesOut ==
  /\ Given
  /\ txOwn[LastIndex]
  /\ txFrame' = NoFrame
  /\ timedOut' = TRUE
  /\ UNCHANGED <<running, txOwn, txIndex, txDma, torn, rxVars>>

(* The same while the engine is stopped: a frame whose descriptors are free *)
(* is given to it, nothing takes it, and the driver gives up after 20 ms.   *)
WriteWhileStopped ==
  /\ \E count \in 1 .. TxCount :
       LET frame == {TxPlus(txIndex, i) : i \in 0 .. count - 1}
       IN  /\ \A i \in frame : ~txOwn[i]
           /\ txOwn' = [i \in TxSlot |-> txOwn[i] \/ i \in frame]
  /\ timedOut' = TRUE
  /\ UNCHANGED <<txIndex, txDma, txFrame, torn>>

(* The engine, external: it takes the descriptor at its pointer.  A frame   *)
(* has ended when the last descriptor of txFrame is taken; inside a frame   *)
(* the next descriptor must be there.                                       *)
DmaTransmit ==
  /\ running
  /\ txOwn[txDma]
  /\ txOwn' = [txOwn EXCEPT ![txDma] = FALSE]
  /\ txDma' = TxPlus(txDma, 1)
  /\ torn' = (torn \/ (~timedOut /\ txFrame.given < txFrame.count))
  /\ UNCHANGED <<running, txIndex, txFrame, timedOut, rxVars>>

-----------------------------------------------------------------------------
(* ethernet_Read.  Every filled descriptor costs an allocation, which fails *)
(* when lwIP holds the buffers; the frame is then dropped.                  *)
Allocate ==
  /\ ~rxOwn[rxIndex]
  /\ replacement = NoBuffer
  /\ \E b \in pool :
       /\ replacement' = b
       /\ pool' = pool \ {b}
  /\ UNCHANGED <<running, txVars, rxOwn, rxBuffer, rxIndex, rxDma, held>>

Rearm ==
  /\ rxOwn' = [rxOwn EXCEPT ![rxIndex] = TRUE]
  /\ rxIndex' = RxNext(rxIndex)
  /\ UNCHANGED <<running, txVars, rxDma>>

(* Mutant: the descriptor keeps the buffer that was passed on. *)
PassUpInPlace ==
  /\ ~rxOwn[rxIndex]
  /\ replacement # NoBuffer
  /\ held' = held \cup {rxBuffer[rxIndex]}
  /\ pool' = pool \cup {replacement}
  /\ replacement' = NoBuffer
  /\ Rearm
  /\ UNCHANGED rxBuffer

(* A whole frame without an error goes up in its buffer. *)
PassUp ==
  /\ ~rxOwn[rxIndex]
  /\ replacement # NoBuffer
  /\ held' = held \cup {rxBuffer[rxIndex]}
  /\ rxBuffer' = [rxBuffer EXCEPT ![rxIndex] = replacement]
  /\ replacement' = NoBuffer
  /\ Rearm
  /\ UNCHANGED pool

(* Any other frame is dropped. *)
DropFaulty ==
  /\ ~rxOwn[rxIndex]
  /\ replacement # NoBuffer
  /\ pool' = pool \cup {replacement}
  /\ replacement' = NoBuffer
  /\ Rearm
  /\ UNCHANGED <<rxBuffer, held>>

(* Mutant: without a buffer the frame is left where it is. *)
DropLater ==
  /\ ~rxOwn[rxIndex]
  /\ replacement = NoBuffer
  /\ pool = {}
  /\ UNCHANGED ethVars

DropForWantOfBuffer ==
  /\ ~rxOwn[rxIndex]
  /\ replacement = NoBuffer
  /\ pool = {}
  /\ Rearm
  /\ UNCHANGED <<rxBuffer, pool, held, replacement>>

(* lwIP, external, frees a packet when it is done with it, or at once when  *)
(* it has no room for it.                                                   *)
FreeRxBuffer ==
  /\ \E b \in held :
       /\ held' = held \ {b}
       /\ pool' = pool \cup {b}
  /\ UNCHANGED <<running, txVars, rxOwn, rxBuffer, rxIndex, rxDma, replacement>>

(* The engine, external: a frame arrives. *)
DmaReceive ==
  /\ running
  /\ rxOwn[rxDma]
  /\ rxOwn' = [rxOwn EXCEPT ![rxDma] = FALSE]
  /\ rxDma' = RxNext(rxDma)
  /\ UNCHANGED <<running, txVars, rxBuffer, rxIndex, pool, held, replacement>>

-----------------------------------------------------------------------------
Drop == DropFaulty \/ DropForWantOfBuffer

Transmit == GiveDescriptor \/ WriteDone

-----------------------------------------------------------------------------
(* Every receive buffer is in one place: free, in one descriptor, with lwIP *)
(* or on its way to a descriptor.  The engine never writes into a packet    *)
(* that lwIP still reads, and no buffer leaks.                              *)
InDescriptors == {rxBuffer[i] : i \in RxSlot}

BuffersHaveOnePlace ==
  /\ \A i, j \in RxSlot : rxBuffer[i] = rxBuffer[j] => i = j
  /\ pool \cup held \cup InDescriptors \cup ({replacement} \ {NoBuffer}) = RxBuffer
  /\ pool \cap held = {}
  /\ (pool \cup held) \cap InDescriptors = {}
  /\ replacement \notin pool \cup held \cup InDescriptors

(* The program and the engine agree on the rings without ever comparing     *)
(* their pointers.  Frames are read where the engine writes them: the       *)
(* descriptors from rxIndex to its pointer are exactly the filled ones.  As *)
(* long as no transmission timed out, frames are entered where the engine   *)
(* looks for them, and it never runs dry inside a frame.                    *)
RingsInStep ==
  /\ \E n \in 0 .. RxCount :
       /\ rxDma = (rxIndex + n) % RxCount
       /\ \A k \in 0 .. RxCount - 1 : rxOwn[(rxIndex + k) % RxCount] <=> k >= n
  /\ ~timedOut =>
       /\ ~torn
       /\ txFrame = NoFrame => txIndex = txDma /\ \A i \in TxSlot : ~txOwn[i]

(* A frame that was received is read, although the pool may be empty.  The  *)
(* ring takes the descriptors in turn, so one stands for all.               *)
FramesAreRead == ~rxOwn[0] ~> rxOwn[0]
=============================================================================
