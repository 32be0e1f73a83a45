------------------------- MODULE HealthCheckProofs -------------------------
(***************************************************************************)
(* Proofs about health checks.                                              *)
(*                                                                          *)
(* The pipeline, for any slots, certificates, queue length and clock:       *)
(* conversations exclude each other, the queue loses only its oldest events *)
(* and by design, deliveries use a configuration that is not older than the *)
(* event, and silence about a certificate is justified.                     *)
(*                                                                          *)
(* The log, for sectors of any size: what is acknowledged is kept wherever  *)
(* power fails, sequence numbers advance, only the oldest are lost, and     *)
(* readers get the newest records, newest first.                            *)
(* The two specifications share no variable and no constant.                *)
(***************************************************************************)
EXTENDS CheckPipeline, HealthCheckLog, TLAPS, WellFoundedInduction, FiniteSetTheorems,
        SequenceTheorems

(* The type invariant, in four parts, with what TypeOK leaves out: the       *)
(* results, the warnings, and that a slot is in the round while it is being *)
(* checked.                                                                 *)
Checking == pc.check \in {"request", "append", "send", "discard", "resend"}

ControlTypes ==
  /\ pc \in [check : {"waiting", "next", "request", "append", "send", "discard", "resend"},
             callback : {"receive", "get", "decide", "request"}]
  /\ stage \in [Task -> Stage \cup {"none", "lock", "cleanup", "done"}]
  /\ \A t \in Task : stage[t] # "none" <=> pc[t] = "request"
  /\ round \in SUBSET Slot
  /\ Checking => round # {}

LockTypes ==
  /\ lock \in Task \cup {"api", Nobody}
  /\ buffer \in Task \cup {Nobody}
  /\ sockets \in SUBSET Task

Entry(first) == [sequence : first .. sequence, version : 0 .. config.version]

QueueTypes ==
  /\ sequence \in 0 .. MaxSequence
  /\ config \in [version : 0 .. MaxVersion, enabled : BOOLEAN]
  /\ logEntry \in Entry(0)
  /\ callbackQueue \in Seq(Entry(1))
  /\ Len(callbackQueue) <= QueueLength
  /\ event \in Entry(0)
  /\ target \in [version : 0 .. config.version, enabled : BOOLEAN]

WarningTypes ==
  /\ result \in [status : {"error", "ok"}, http : {"none", "200"}, expiry : Nat]
  /\ certificateWarningExpiry \in [Slot -> Nat]
  /\ certificateWarningTime \in [Slot -> Clock \cup {0}]
  /\ lastWarning \in [Slot -> [expiry : Nat, at : Clock \cup {0}]]

TypeInv == ControlTypes /\ LockTypes /\ QueueTypes /\ WarningTypes

Queueing == pc.check \in {"send", "discard", "resend"}

(* The failure in hand is the last one the log has numbered; nothing else   *)
(* that ever failed is as new; and once Discard made room, there is room.   *)
QueueInv ==
  /\ fate \in [failed : SUBSET (1 .. sequence), taken : SUBSET (1 .. sequence),
               dropped : SUBSET (1 .. sequence)]
  /\ Queueing => logEntry.sequence = sequence /\ sequence > 0
  /\ pc.check = "resend" => Len(callbackQueue) < QueueLength
  /\ OldestDropped

(* The copy of the configuration is not older than the event it is for. *)
DeliveryInv ==
  /\ pc.callback \in {"decide", "request"} => target.version >= event.version
  /\ pc.callback = "request" => target.enabled

(* The two arrays record the last warning of a slot, until another          *)
(* certificate clears the time.                                             *)
WarningInv ==
  \A s \in Slot : certificateWarningTime[s] # 0 =>
    lastWarning[s] = [expiry |-> certificateWarningExpiry[s],
                      at |-> certificateWarningTime[s]]

IInv == TypeInv /\ OneConversation /\ QueueInv /\ DeliveryInv /\ WarningInv

-----------------------------------------------------------------------------
(* Facts about numbers, sequences and the constants. *)
LEMMA LeastElement ==
  ASSUME NEW S \in SUBSET Nat, S # {}
  PROVE  \E n \in S : \A m \in S : n <= m
  <1> DEFINE R == OpToRel(<, Nat)
  <1>1. R = {ss \in Nat \X Nat : ss[1] < ss[2]}
    BY Zenon DEF OpToRel
  <1>2. IsWellFoundedOn(R, Nat)
    BY NatLessThanWellFounded
  <1> HIDE DEF R
  <1>3. PICK x \in S : \A y \in S : ~(<<y, x>> \in R)
    BY <1>2, WFMin
  <1>4. \A y \in S : ~(y < x)
    BY <1>1, <1>3
  <1>5. QED
    BY <1>4

LEMMA WiderSeq ==
  ASSUME NEW S, NEW T, S \subseteq T, NEW q \in Seq(S)
  PROVE  q \in Seq(T)
  OBVIOUS

LEMMA AppendToSeq ==
  ASSUME NEW S, NEW q \in Seq(S), NEW e \in S
  PROVE  /\ Append(q, e) \in Seq(S)
         /\ Len(Append(q, e)) = Len(q) + 1
         /\ DOMAIN Append(q, e) = 1 .. Len(q) + 1
         /\ \A i \in 1 .. Len(q) : Append(q, e)[i] = q[i]
         /\ Append(q, e)[Len(q) + 1] = e
  OBVIOUS

LEMMA TailOfSeq ==
  ASSUME NEW S, NEW q \in Seq(S), q # <<>>
  PROVE  /\ Head(q) \in S
         /\ Head(q) = q[1]
         /\ Len(q) \in Nat \ {0}
         /\ Tail(q) \in Seq(S)
         /\ Len(Tail(q)) = Len(q) - 1
         /\ DOMAIN Tail(q) = 1 .. Len(q) - 1
         /\ \A i \in 1 .. Len(q) - 1 : Tail(q)[i] = q[i + 1]
  OBVIOUS

LEMMA IndexInRound ==
  ASSUME round \in SUBSET Slot, round # {}
  PROVE  index \in round /\ index \in Slot
  <1>1. \E s \in round : \A r \in round : s <= r
    BY LeastElement, PipelineAssumption
  <1>2. QED
    BY <1>1 DEF index

LEMMA StageNames ==
  /\ Stage = {"prepare", "connect", "handshake", "compose", "exchange"}
  /\ \A s \in Stage : After[s] \in Stage \cup {"cleanup"}
  /\ \A s \in Stage : After[s] = "exchange" <=> s = "compose"
  BY DEF Stage, After

-----------------------------------------------------------------------------
(* The type invariant, component by component. *)
LEMMA TypeInit == Init => TypeInv
  BY PipelineAssumption
     DEF Init, TypeInv, ControlTypes, LockTypes, QueueTypes, WarningTypes, Checking, Entry,
         Task, Nobody, NoResult, NoTarget, NoEvent

LEMMA TypesSuffice == TypeInv => TypeOK
  BY DEF TypeInv, TypeOK, ControlTypes, LockTypes, QueueTypes, Entry

(* Nothing a part of the invariant is about has changed. *)
LEMMA TypesKept ==
  /\ ControlTypes /\ UNCHANGED <<pc, stage, round>> => ControlTypes'
  /\ LockTypes /\ UNCHANGED <<lock, buffer, sockets>> => LockTypes'
  /\ QueueTypes /\ UNCHANGED <<sequence, config, logEntry, callbackQueue, event, target>>
       => QueueTypes'
  /\ WarningTypes /\ UNCHANGED <<result, warningVars>> => WarningTypes'
  BY DEF ControlTypes, LockTypes, QueueTypes, WarningTypes, Checking, Entry, warningVars

LEMMA RequestTypes ==
  ASSUME TypeInv, NEW t \in Task,
         TakeLock(t) \/ LockTimesOut(t) \/ RequestStep(t)
  PROVE  TypeInv'
  <1> USE StageNames, TypesKept
      DEF TypeInv, Task, Nobody, warningVars, queueVars, callbackVars
  <1>1. CASE TakeLock(t)
    BY <1>1 DEF TakeLock, Lock, ControlTypes, LockTypes, Checking
  <1>2. CASE LockTimesOut(t)
    BY <1>2 DEF LockTimesOut, ControlTypes, Checking
  <1>3. CASE StageSucceeds(t)
    <2>1. result' \in [status : {"error", "ok"}, http : {"none", "200"}, expiry : Nat]
      <3>1. CASE t = "check" /\ stage[t] = "handshake"
        <4>1. index \in Slot
          BY <3>1, IndexInRound DEF ControlTypes, Checking
        <4>2. PICK e \in Certificates[index] : result' = [result EXCEPT !.expiry = e]
          BY <1>3, <3>1 DEF StageSucceeds
        <4>3. e \in Nat
          BY <4>1, <4>2, PipelineAssumption
        <4>4. QED
          BY <4>2, <4>3 DEF WarningTypes
      <3>2. CASE ~(t = "check" /\ stage[t] = "handshake")
        BY <1>3, <3>2 DEF StageSucceeds, WarningTypes
      <3>3. QED
        BY <3>1, <3>2
    <2>2. ControlTypes'
      BY <1>3 DEF StageSucceeds, ControlTypes, Checking
    <2>3. LockTypes'
      BY <1>3 DEF StageSucceeds, LockTypes
    <2>4. WarningTypes'
      BY <1>3, <2>1 DEF StageSucceeds, WarningTypes
    <2>5. QED
      BY <1>3, <2>2, <2>3, <2>4 DEF StageSucceeds
  <1>4. CASE StageFails(t)
    BY <1>4 DEF StageFails, ControlTypes, Checking
  <1>5. CASE Cleanup(t)
    BY <1>5 DEF Cleanup, ControlTypes, LockTypes, Checking
  <1>6. QED
    BY <1>1, <1>2, <1>3, <1>4, <1>5 DEF RequestStep

(* The numbers and versions of entries only grow. *)
LEMMA WiderRecords ==
  ASSUME NEW a \in Nat, NEW b \in Nat, NEW c \in Nat, NEW d \in Nat, NEW first \in Nat,
         a <= b, c <= d
  PROVE  /\ [sequence : first .. a, version : 0 .. c] \subseteq
              [sequence : first .. b, version : 0 .. d]
         /\ [version : 0 .. c, enabled : BOOLEAN] \subseteq
              [version : 0 .. d, enabled : BOOLEAN]
  OBVIOUS

LEMMA WiderEntries ==
  ASSUME QueueTypes,
         sequence' \in Nat, sequence <= sequence',
         config'.version \in Nat, config.version <= config'.version
  PROVE  /\ Entry(0) \subseteq Entry(0)'
         /\ Entry(1) \subseteq Entry(1)'
         /\ callbackQueue \in Seq(Entry(1)')
         /\ [version : 0 .. config.version, enabled : BOOLEAN]
              \subseteq [version : 0 .. config'.version, enabled : BOOLEAN]
  <1>1. sequence \in Nat /\ config.version \in Nat
    BY PipelineAssumption DEF QueueTypes
  <1>2. /\ Entry(0) \subseteq Entry(0)'
        /\ Entry(1) \subseteq Entry(1)'
    <2>1. \A first \in Nat : [sequence : first .. sequence, version : 0 .. config.version]
            \subseteq [sequence : first .. sequence', version : 0 .. config'.version]
      BY <1>1, WiderRecords
    <2>2. QED
      BY <2>1, Zenon DEF Entry
  <1>3. callbackQueue \in Seq(Entry(1)')
    BY <1>2, WiderSeq DEF QueueTypes
  <1>4. [version : 0 .. config.version, enabled : BOOLEAN]
          \subseteq [version : 0 .. config'.version, enabled : BOOLEAN]
    BY <1>1, WiderRecords
  <1>5. QED
    BY <1>2, <1>3, <1>4

LEMMA SameEntries ==
  ASSUME QueueTypes, UNCHANGED <<sequence, config>>
  PROVE  /\ Entry(0)' = Entry(0)
         /\ Entry(1)' = Entry(1)
         /\ NoEvent \in Entry(0)
         /\ Entry(1) \subseteq Entry(0)
  <1>1. sequence \in Nat /\ config.version \in Nat
    BY PipelineAssumption DEF QueueTypes
  <1>2. QED
    BY <1>1 DEF Entry, NoEvent

LEMMA CheckTypes ==
  ASSUME TypeInv, QueueInv, StartRound \/ CheckStep
  PROVE  TypeInv'
  <1> USE TypesKept
      DEF TypeInv, Task, requestVars, warningVars, queueVars, callbackVars
  <1>1. CASE StartRound
    BY <1>1 DEF StartRound, ControlTypes, Checking
  <1>2. CASE CheckResource
    BY <1>2 DEF CheckResource, Request, ControlTypes, Checking
  <1>3. CASE EndRound
    BY <1>3 DEF EndRound, ControlTypes, Checking
  <1>4. ASSUME NEW now \in Clock, ConsiderCertificate(now)
        PROVE  TypeInv'
    <2>1. index \in Slot
      BY <1>4, IndexInRound DEF ConsiderCertificate, ControlTypes, Checking
    <2>2. WarningTypes'
      <3>1. CASE UNCHANGED warningVars
        BY <1>4, <3>1 DEF ConsiderCertificate
      <3>2. CASE CheckCertificateExpiry(index, result.expiry, now)
        BY <1>4, <2>1, <3>2 DEF ConsiderCertificate, CheckCertificateExpiry, WarningTypes
      <3>3. QED
        BY <1>4, <3>1, <3>2 DEF ConsiderCertificate
    <2>3. QED
      BY <1>4, <2>2 DEF ConsiderCertificate, ControlTypes, Checking
  <1>5. CASE AppendFails
    <2>1. ControlTypes'
      BY <1>5 DEF AppendFails, NextResource, ControlTypes, Checking
    <2>2. WarningTypes'
      BY <1>5 DEF AppendFails, WarningTypes, NoResult
    <2>3. QED
      BY <1>5, <2>1, <2>2 DEF AppendFails
  <1>6. CASE AppendResult
    <2>1. ControlTypes'
      BY <1>6 DEF AppendResult, NextResource, ControlTypes, Checking
    <2>2. WarningTypes'
      BY <1>6 DEF AppendResult, WarningTypes, NoResult
    <2>3. QueueTypes'
      <3>1. /\ sequence' = sequence + 1
            /\ sequence' \in 0 .. MaxSequence
            /\ config' = config
            /\ config.version \in Nat
        BY <1>6, PipelineAssumption DEF AppendResult, QueueTypes
      <3>2. logEntry' \in Entry(0)'
        BY <1>6, <3>1, WiderEntries DEF AppendResult, QueueTypes, Entry
      <3>3. /\ callbackQueue' \in Seq(Entry(1)')
            /\ event' \in Entry(0)'
        BY <1>6, <3>1, WiderEntries DEF AppendResult, QueueTypes
      <3>4. QED
        BY <1>6, <3>1, <3>2, <3>3 DEF AppendResult, QueueTypes
    <2>4. QED
      BY <1>6, <2>1, <2>2, <2>3 DEF AppendResult
  <1>7. CASE Send
    <2>1. ControlTypes'
      BY <1>7 DEF Send, NextResource, ControlTypes, Checking
    <2>2. logEntry \in Entry(1)
      BY <1>7 DEF Send, QueueTypes, QueueInv, Queueing, Entry
    <2>3. QueueTypes'
      <3>1. CASE Full
        BY <1>7, <3>1, SameEntries DEF Send, QueueTypes
      <3>2. CASE ~Full
        <4> DEFINE q == Append(callbackQueue, logEntry)
        <4>1. q \in Seq(Entry(1)) /\ Len(q) <= QueueLength
          BY <2>2, <3>2, AppendToSeq, PipelineAssumption DEF QueueTypes, Full
        <4>2. QED
          BY <1>7, <3>2, <4>1, SameEntries DEF Send, QueueTypes
      <3>3. QED
        BY <3>1, <3>2
    <2>4. QED
      BY <1>7, <2>1, <2>3 DEF Send
  <1>8. CASE Discard
    <2>1. ControlTypes'
      BY <1>8 DEF Discard, ControlTypes, Checking
    <2>2. QueueTypes'
      <3>1. CASE callbackQueue = <<>>
        BY <1>8, <3>1, SameEntries DEF Discard, QueueTypes
      <3>2. CASE callbackQueue # <<>>
        <4>1. Tail(callbackQueue) \in Seq(Entry(1)) /\ Len(Tail(callbackQueue)) <= QueueLength
          BY <3>2, TailOfSeq, PipelineAssumption DEF QueueTypes
        <4>2. QED
          BY <1>8, <3>2, <4>1, SameEntries DEF Discard, QueueTypes
      <3>3. QED
        BY <3>1, <3>2
    <2>3. QED
      BY <1>8, <2>1, <2>2 DEF Discard
  <1>9. CASE Resend
    <2>1. ControlTypes'
      BY <1>9 DEF Resend, NextResource, ControlTypes, Checking
    <2>2. logEntry \in Entry(1)
      BY <1>9 DEF Resend, QueueTypes, QueueInv, Queueing, Entry
    <2>3. QueueTypes'
      BY <1>9, <2>2, SameEntries, AppendToSeq, PipelineAssumption DEF Resend, QueueTypes, Full
    <2>4. QED
      BY <1>9, <2>1, <2>3 DEF Resend
  <1>10. QED
    BY <1>1, <1>2, <1>3, <1>4, <1>5, <1>6, <1>7, <1>8, <1>9 DEF CheckStep

LEMMA CallbackTypes ==
  ASSUME TypeInv, CallbackStep
  PROVE  TypeInv'
  <1> USE TypesKept
      DEF TypeInv, Task, requestVars, warningVars, queueVars, callbackVars
  <1>1. CASE Receive
    <2>1. ControlTypes'
      BY <1>1 DEF Receive, ControlTypes, Checking
    <2>2. QueueTypes'
      BY <1>1, SameEntries, TailOfSeq, PipelineAssumption DEF Receive, TakeEvent, QueueTypes
    <2>3. QED
      BY <1>1, <2>1, <2>2 DEF Receive
  <1>2. CASE GetConfig
    <2>1. ControlTypes'
      BY <1>2 DEF GetConfig, ControlTypes, Checking
    <2>2. QueueTypes'
      BY <1>2 DEF GetConfig, QueueTypes, Entry
    <2>3. QED
      BY <1>2, <2>1, <2>2 DEF GetConfig
  <1>3. CASE Skip
    <2>1. ControlTypes'
      BY <1>3 DEF Skip, NextEvent, ControlTypes, Checking
    <2>2. QueueTypes'
      BY <1>3, PipelineAssumption DEF Skip, NextEvent, QueueTypes, Entry, NoEvent, NoTarget
    <2>3. QED
      BY <1>3, <2>1, <2>2 DEF Skip
  <1>4. CASE Deliver
    BY <1>4 DEF Deliver, Request, ControlTypes, Checking
  <1>5. CASE FinishDelivery
    <2>1. ControlTypes'
      BY <1>5 DEF FinishDelivery, NextEvent, ControlTypes, Checking
    <2>2. QueueTypes'
      BY <1>5, PipelineAssumption
         DEF FinishDelivery, NextEvent, QueueTypes, Entry, NoEvent, NoTarget
    <2>3. QED
      BY <1>5, <2>1, <2>2 DEF FinishDelivery
  <1>6. QED
    BY <1>1, <1>2, <1>3, <1>4, <1>5 DEF CallbackStep

LEMMA ApiTypes ==
  ASSUME TypeInv, ApiAccept \/ ApiChangeCallback \/ ApiClose
  PROVE  TypeInv'
  <1> USE TypesKept
      DEF TypeInv, Task, requestVars, warningVars, queueVars, callbackVars
  <1>1. CASE ApiAccept
    BY <1>1 DEF ApiAccept, LockTypes
  <1>2. CASE ApiChangeCallback
    <2>1. /\ config' \in [version : 0 .. MaxVersion, enabled : BOOLEAN]
          /\ config'.version = config.version + 1
          /\ config.version \in Nat
          /\ sequence' = sequence
          /\ sequence \in Nat
      BY <1>2, PipelineAssumption DEF ApiChangeCallback, QueueTypes
    <2>2. /\ callbackQueue' \in Seq(Entry(1)')
          /\ event' \in Entry(0)'
          /\ logEntry' \in Entry(0)'
          /\ target' \in [version : 0 .. config'.version, enabled : BOOLEAN]
      BY <1>2, <2>1, WiderEntries DEF ApiChangeCallback, QueueTypes
    <2>3. QueueTypes'
      BY <1>2, <2>1, <2>2 DEF ApiChangeCallback, QueueTypes
    <2>4. QED
      BY <1>2, <2>3 DEF ApiChangeCallback
  <1>3. CASE ApiClose
    BY <1>3 DEF ApiClose, LockTypes
  <1>4. QED
    BY <1>1, <1>2, <1>3

-----------------------------------------------------------------------------
(* One conversation at a time. *)
LEMMA ConversationStep ==
  ASSUME TypeInv, OneConversation, Next
  PROVE  OneConversation'
  <1> USE StageNames
      DEF TypeInv, ControlTypes, LockTypes, OneConversation, Task, Nobody,
          requestVars, warningVars, queueVars, callbackVars
  <1>1. ASSUME NEW t \in Task, TakeLock(t)
        PROVE  OneConversation'
    BY <1>1 DEF TakeLock, Lock
  <1>2. ASSUME NEW t \in Task, LockTimesOut(t)
        PROVE  OneConversation'
    BY <1>2 DEF LockTimesOut
  <1>3. ASSUME NEW t \in Task, StageSucceeds(t)
        PROVE  OneConversation'
    BY <1>3 DEF StageSucceeds
  <1>4. ASSUME NEW t \in Task, StageFails(t)
        PROVE  OneConversation'
    BY <1>4 DEF StageFails
  <1>5. ASSUME NEW t \in Task, Cleanup(t)
        PROVE  OneConversation'
    BY <1>5 DEF Cleanup
  <1>6. CASE CheckResource
    BY <1>6 DEF CheckResource, Request
  <1>7. ASSUME NEW now \in Clock, ConsiderCertificate(now)
        PROVE  OneConversation'
    BY <1>7 DEF ConsiderCertificate
  <1>8. CASE Deliver
    BY <1>8 DEF Deliver, Request
  <1>9. CASE FinishDelivery
    BY <1>9 DEF FinishDelivery
  <1>10. CASE ApiAccept
    BY <1>10 DEF ApiAccept
  <1>11. CASE ApiClose
    BY <1>11 DEF ApiClose
  <1>12. CASE UNCHANGED <<stage, lock, buffer, sockets>>
    BY <1>12
  <1>13. StartRound \/ EndRound \/ AppendFails \/ AppendResult \/ Send \/ Discard \/ Resend
           \/ Receive \/ GetConfig \/ Skip \/ ApiChangeCallback
         => UNCHANGED <<stage, lock, buffer, sockets>>
    BY DEF StartRound, EndRound, AppendFails, AppendResult, Send, Discard, Resend, Receive,
           GetConfig, Skip, ApiChangeCallback
  <1>14. QED
    BY <1>1, <1>2, <1>3, <1>4, <1>5, <1>6, <1>7, <1>8, <1>9, <1>10, <1>11, <1>12, <1>13
       DEF Next, RequestStep, CheckStep, CallbackStep

-----------------------------------------------------------------------------
(* The queue.  What Append and Tail do to the numbers that are pending, in  *)
(* a queue whose numbers ascend.                                            *)
Ascending(q) == \A i, j \in DOMAIN q : i < j => q[i].sequence < q[j].sequence
Numbers(q) == {q[i].sequence : i \in DOMAIN q}

LEMMA InNumbers ==
  ASSUME NEW q
  PROVE  \A x : x \in Numbers(q) <=> \E i \in DOMAIN q : x = q[i].sequence
  BY DEF Numbers

LEMMA NumbersAppended ==
  ASSUME NEW S, NEW q \in Seq(S), NEW e \in S,
         Ascending(q), \A p \in Numbers(q) : p < e.sequence
  PROVE  /\ Numbers(Append(q, e)) = Numbers(q) \cup {e.sequence}
         /\ Ascending(Append(q, e))
  <1> DEFINE r == Append(q, e)
  <1>1. /\ DOMAIN q = 1 .. Len(q)
        /\ Len(q) \in Nat
        /\ DOMAIN r = 1 .. Len(q) + 1
        /\ \A i \in 1 .. Len(q) : r[i] = q[i]
        /\ r[Len(q) + 1] = e
    BY AppendToSeq
  <1> HIDE DEF r
  <1>2. Numbers(r) \subseteq Numbers(q) \cup {e.sequence}
    <2> SUFFICES ASSUME NEW i \in DOMAIN r
                 PROVE  r[i].sequence \in Numbers(q) \cup {e.sequence}
      BY InNumbers
    <2>1. CASE i = Len(q) + 1
      BY <1>1, <2>1
    <2>2. CASE i # Len(q) + 1
      <3>1. i \in DOMAIN q /\ r[i] = q[i]
        BY <1>1, <2>2
      <3>2. QED
        BY <3>1, InNumbers
    <2>3. QED
      BY <2>1, <2>2
  <1>3. Numbers(q) \cup {e.sequence} \subseteq Numbers(r)
    <2>1. e.sequence \in Numbers(r)
      BY <1>1, InNumbers
    <2>2. ASSUME NEW i \in DOMAIN q
          PROVE  q[i].sequence \in Numbers(r)
      <3>1. i \in DOMAIN r /\ r[i] = q[i]
        BY <1>1
      <3>2. QED
        BY <3>1, InNumbers
    <2>3. ASSUME NEW x \in Numbers(q)
          PROVE  x \in Numbers(r)
      <3>1. PICK i \in DOMAIN q : x = q[i].sequence
        BY InNumbers
      <3>2. QED
        BY <2>2, <3>1
    <2>4. QED
      BY <2>1, <2>3
  <1>4. Ascending(r)
    BY <1>1 DEF Ascending, Numbers
  <1>5. QED
    BY <1>2, <1>3, <1>4 DEF r

LEMMA NumbersOfTail ==
  ASSUME NEW n \in Nat, NEW c,
         NEW q \in Seq([sequence : 1 .. n, version : c]),
         q # <<>>, Ascending(q)
  PROVE  /\ Numbers(q) = Numbers(Tail(q)) \cup {Head(q).sequence}
         /\ Ascending(Tail(q))
         /\ \A p \in Numbers(Tail(q)) : Head(q).sequence < p
         /\ Head(q).sequence \in 1 .. n
  <1> DEFINE r == Tail(q)
             h == Head(q)
  <1>1. /\ DOMAIN q = 1 .. Len(q)
        /\ Len(q) \in Nat \ {0}
        /\ DOMAIN r = 1 .. Len(q) - 1
        /\ \A i \in 1 .. Len(q) - 1 : r[i] = q[i + 1]
        /\ h = q[1]
    BY TailOfSeq
  <1>2. ASSUME NEW i \in 1 .. Len(q)
        PROVE  q[i].sequence \in 1 .. n
    <2>1. q[i] \in [sequence : 1 .. n, version : c]
      BY ElementOfSeq
    <2>2. QED
      BY <2>1
  <1> HIDE DEF r, h
  <1>3. Numbers(q) \subseteq Numbers(r) \cup {h.sequence}
    <2> SUFFICES ASSUME NEW i \in DOMAIN q
                 PROVE  q[i].sequence \in Numbers(r) \cup {h.sequence}
      BY InNumbers
    <2>1. CASE i = 1
      BY <1>1, <2>1
    <2>2. CASE i # 1
      <3>1. i - 1 \in DOMAIN r /\ r[i - 1] = q[i]
        BY <1>1, <2>2
      <3>2. QED
        BY <3>1, InNumbers
    <2>3. QED
      BY <2>1, <2>2
  <1>4. Numbers(r) \cup {h.sequence} \subseteq Numbers(q)
    <2>1. h.sequence \in Numbers(q)
      BY <1>1, InNumbers
    <2>2. ASSUME NEW i \in DOMAIN r
          PROVE  r[i].sequence \in Numbers(q)
      <3>1. i + 1 \in DOMAIN q /\ r[i] = q[i + 1]
        BY <1>1
      <3>2. QED
        BY <3>1, InNumbers
    <2>3. QED
      BY <2>1, <2>2, InNumbers
  <1>5. Ascending(r)
    <2> SUFFICES ASSUME NEW i \in DOMAIN r, NEW j \in DOMAIN r, i < j
                 PROVE  r[i].sequence < r[j].sequence
      BY DEF Ascending
    <2>1. /\ i + 1 \in DOMAIN q /\ r[i] = q[i + 1]
          /\ j + 1 \in DOMAIN q /\ r[j] = q[j + 1]
          /\ i + 1 < j + 1
      BY <1>1
    <2>2. QED
      BY <2>1 DEF Ascending
  <1>6. ASSUME NEW p \in Numbers(r)
        PROVE  h.sequence < p
    <2>1. PICK i \in DOMAIN r : p = r[i].sequence
      BY InNumbers
    <2>2. /\ 1 \in DOMAIN q
          /\ i + 1 \in DOMAIN q /\ r[i] = q[i + 1]
          /\ 1 < i + 1
      BY <1>1
    <2>3. QED
      BY <1>1, <2>1, <2>2 DEF Ascending
  <1>7. h.sequence \in 1 .. n
    BY <1>1, <1>2
  <1>8. QED
    BY <1>3, <1>4, <1>5, <1>6, <1>7 DEF r, h

(* OldestDropped as a relation between sets of numbers. *)
Accounted(f, pending, inHand) ==
  /\ f.failed = f.taken \cup f.dropped \cup pending \cup inHand
  /\ f.taken \cap f.dropped = {}
  /\ \A g \in f.taken \cup f.dropped, p \in pending \cup inHand : g < p
  /\ \A p \in pending, h \in inHand : p < h

Fates == [failed : SUBSET (1 .. sequence), taken : SUBSET (1 .. sequence),
          dropped : SUBSET (1 .. sequence)]

(* A new failure, one that is queued, and one that leaves the queue. *)
LEMMA AccountedNew ==
  ASSUME NEW n \in Nat, NEW P,
         NEW f \in [failed : SUBSET (1 .. n), taken : SUBSET (1 .. n), dropped : SUBSET (1 .. n)],
         Accounted(f, P, {})
  PROVE  LET g == [f EXCEPT !.failed = @ \cup {n + 1}] IN
         /\ Accounted(g, P, {n + 1})
         /\ g \in [failed : SUBSET (1 .. n + 1), taken : SUBSET (1 .. n + 1),
                   dropped : SUBSET (1 .. n + 1)]
  BY DEF Accounted

LEMMA AccountedQueued ==
  ASSUME NEW n \in Nat, NEW P, NEW h, NEW f, Accounted(f, P, {h})
  PROVE  Accounted(f, P \cup {h}, {})
  BY DEF Accounted

LEMMA AccountedGone ==
  ASSUME NEW n \in Nat, NEW P, NEW H, NEW h \in 1 .. n,
         NEW f \in [failed : SUBSET (1 .. n), taken : SUBSET (1 .. n), dropped : SUBSET (1 .. n)],
         Accounted(f, P \cup {h}, H),
         \A p \in P : h < p,
         NEW g, g \in {[f EXCEPT !.dropped = @ \cup {h}], [f EXCEPT !.taken = @ \cup {h}]}
  PROVE  /\ Accounted(g, P, H)
         /\ g \in [failed : SUBSET (1 .. n), taken : SUBSET (1 .. n), dropped : SUBSET (1 .. n)]
  <1>1. CASE g = [f EXCEPT !.dropped = @ \cup {h}]
    <2>1. /\ g.failed = f.failed /\ g.taken = f.taken /\ g.dropped = f.dropped \cup {h}
          /\ g \in [failed : SUBSET (1 .. n), taken : SUBSET (1 .. n),
                    dropped : SUBSET (1 .. n)]
      BY <1>1
    <2>2. h \notin f.taken
      BY DEF Accounted
    <2>3. Accounted(g, P, H)
      BY <2>1, <2>2 DEF Accounted
    <2>4. QED
      BY <2>1, <2>3
  <1>2. CASE g = [f EXCEPT !.taken = @ \cup {h}]
    BY <1>2 DEF Accounted
  <1>3. QED
    BY <1>1, <1>2

LEMMA QueueInvParts ==
  QueueInv =>
    /\ fate \in Fates
    /\ Queueing => logEntry.sequence = sequence /\ sequence > 0
    /\ pc.check = "resend" => Len(callbackQueue) < QueueLength
    /\ Accounted(fate, Numbers(callbackQueue), InHand)
    /\ Ascending(callbackQueue)
  BY DEF QueueInv, Fates, OldestDropped, Accounted, Numbers, Ascending, Pending

LEMMA QueueInvFromParts ==
  ASSUME fate' \in Fates',
         Queueing' => logEntry'.sequence = sequence' /\ sequence' > 0,
         pc'.check = "resend" => Len(callbackQueue') < QueueLength,
         Accounted(fate, Numbers(callbackQueue), InHand)',
         Ascending(callbackQueue)'
  PROVE  QueueInv'
  BY DEF QueueInv, Fates, OldestDropped, Accounted, Numbers, Ascending, Pending

LEMMA QueueKept ==
  ASSUME QueueInv, UNCHANGED queueVars,
         \/ pc'.check = pc.check
         \/ ~Queueing /\ ~Queueing'
  PROVE  QueueInv'
  <1>1. Queueing' = Queueing /\ InHand' = InHand /\ (pc'.check = "resend" => pc.check = "resend")
    BY DEF queueVars, Queueing, InHand
  <1>2. QED
    BY <1>1 DEF QueueInv, OldestDropped, Pending, queueVars

LEMMA QueueStep ==
  ASSUME TypeInv, QueueInv, Next
  PROVE  QueueInv'
  <1> USE DEF ControlTypes, Queueing, requestVars, warningVars, callbackVars
  <1>1. ControlTypes /\ sequence \in Nat /\ fate \in Fates
    BY QueueInvParts, PipelineAssumption DEF TypeInv, QueueTypes
  <1>2. CASE AppendResult
    <2>1. CASE Healthy(result)
      BY <1>1, <1>2, <2>1 DEF AppendResult, NextResource, QueueInv, OldestDropped, InHand, Pending
    <2>2. CASE ~Healthy(result)
      <3>1. /\ InHand = {} /\ InHand' = {sequence + 1}
            /\ sequence' = sequence + 1
            /\ logEntry'.sequence = sequence + 1
            /\ fate' = [fate EXCEPT !.failed = @ \cup {sequence + 1}]
            /\ callbackQueue' = callbackQueue
            /\ pc'.check = "send"
        BY <1>1, <1>2, <2>2 DEF AppendResult, InHand
      <3>2. Accounted(fate, Numbers(callbackQueue), {}) /\ Ascending(callbackQueue)
        BY <3>1, QueueInvParts
      <3>3. Accounted(fate', Numbers(callbackQueue), {sequence + 1}) /\ fate' \in Fates'
        BY <1>1, <3>1, <3>2, AccountedNew DEF Fates
      <3>4. /\ Accounted(fate, Numbers(callbackQueue), InHand)'
            /\ Ascending(callbackQueue)'
        BY <3>1, <3>2, <3>3
      <3>5. QED
        BY <1>1, <3>1, <3>3, <3>4, QueueInvFromParts
    <2>3. QED
      BY <2>1, <2>2
  <1>3. CASE Send
    <2>1. /\ InHand = {sequence}
          /\ logEntry.sequence = sequence
          /\ logEntry \in Entry(1)
          /\ callbackQueue \in Seq(Entry(1))
          /\ sequence' = sequence /\ fate' = fate
      BY <1>1, <1>3 DEF Send, InHand, QueueInv, Entry, TypeInv, QueueTypes
    <2>2. /\ Accounted(fate, Numbers(callbackQueue), {sequence})
          /\ Ascending(callbackQueue)
          /\ \A p \in Numbers(callbackQueue) : p < sequence
      BY <2>1, QueueInvParts DEF Accounted
    <2>3. /\ Numbers(Append(callbackQueue, logEntry)) = Numbers(callbackQueue) \cup {sequence}
          /\ Ascending(Append(callbackQueue, logEntry))
      <3>1. \A p \in Numbers(callbackQueue) : p < logEntry.sequence
        BY <2>1, <2>2
      <3>2. QED
        BY <2>1, <2>2, <3>1, NumbersAppended
    <2>4. Accounted(fate, Numbers(callbackQueue) \cup {sequence}, {})
      BY <1>1, <2>2, AccountedQueued
    <2>5. ASSUME callbackQueue' = Append(callbackQueue, logEntry), pc'.check = "next"
          PROVE  QueueInv'
      <3>1. /\ InHand' = {}
            /\ Accounted(fate, Numbers(callbackQueue), InHand)'
            /\ Ascending(callbackQueue)'
        BY <2>1, <2>3, <2>4, <2>5 DEF InHand
      <3>2. fate' \in Fates'
        BY <1>1, <2>1 DEF Fates
      <3>3. QED
        BY <2>5, <3>1, <3>2, QueueInvFromParts
    <2>6. CASE Full
      <3>1. /\ pc'.check = "discard" /\ callbackQueue' = callbackQueue
            /\ logEntry' = logEntry /\ pc.check = "send"
        BY <1>1, <1>3, <2>6 DEF Send
      <3>2. QED
        BY <2>1, <3>1 DEF QueueInv, OldestDropped, Pending, InHand
    <2>7. CASE ~Full
      BY <1>1, <1>3, <2>5, <2>7 DEF Send, NextResource
    <2>8. QED
      BY <2>6, <2>7
  <1>4. CASE Discard
    <2>1. CASE callbackQueue # <<>>
      <3> DEFINE h == Head(callbackQueue).sequence
                 q == Tail(callbackQueue)
      <3>1. callbackQueue \in Seq(Entry(1)) /\ Len(callbackQueue) <= QueueLength
        BY DEF TypeInv, QueueTypes
      <3>2. /\ Numbers(callbackQueue) = Numbers(q) \cup {h}
            /\ Ascending(q)
            /\ \A p \in Numbers(q) : h < p
            /\ h \in 1 .. sequence
        BY <1>1, <2>1, <3>1, QueueInvParts, NumbersOfTail DEF Entry
      <3>3. Len(q) < QueueLength
        BY <2>1, <3>1, TailOfSeq, PipelineAssumption
      <3> HIDE DEF h, q
      <3>4. /\ pc.check = "discard" /\ pc'.check = "resend" /\ InHand' = InHand
            /\ callbackQueue' = q /\ sequence' = sequence /\ logEntry' = logEntry
            /\ fate' = [fate EXCEPT !.dropped = @ \cup {h}]
        BY <1>1, <1>4, <2>1 DEF Discard, InHand, h, q
      <3>5. Accounted(fate', Numbers(q), InHand) /\ fate' \in Fates
        BY <1>1, <3>2, <3>4, QueueInvParts, AccountedGone DEF Fates
      <3>6. /\ Accounted(fate, Numbers(callbackQueue), InHand)'
            /\ Ascending(callbackQueue)'
            /\ fate' \in Fates'
            /\ Len(callbackQueue') < QueueLength
        BY <3>2, <3>3, <3>4, <3>5 DEF Fates
      <3>7. QED
        BY <3>4, <3>6, QueueInvParts, QueueInvFromParts
    <2>2. CASE callbackQueue = <<>>
      <3>1. /\ pc.check = "discard" /\ pc'.check = "resend" /\ InHand' = InHand
            /\ UNCHANGED <<callbackQueue, sequence, logEntry, fate>>
            /\ Len(callbackQueue') < QueueLength
        BY <1>1, <1>4, <2>2, PipelineAssumption DEF Discard, InHand
      <3>2. QED
        BY <3>1 DEF QueueInv, OldestDropped, Pending
    <2>3. QED
      BY <2>1, <2>2
  <1>5. CASE Resend
    <2>1. /\ InHand = {sequence}
          /\ logEntry.sequence = sequence
          /\ logEntry \in Entry(1)
          /\ callbackQueue \in Seq(Entry(1))
          /\ sequence' = sequence /\ fate' = fate
      BY <1>1, <1>5 DEF Resend, InHand, QueueInv, Entry, TypeInv, QueueTypes
    <2>2. /\ Accounted(fate, Numbers(callbackQueue), {sequence})
          /\ Ascending(callbackQueue)
          /\ \A p \in Numbers(callbackQueue) : p < sequence
      BY <2>1, QueueInvParts DEF Accounted
    <2>3. /\ Numbers(Append(callbackQueue, logEntry)) = Numbers(callbackQueue) \cup {sequence}
          /\ Ascending(Append(callbackQueue, logEntry))
      <3>1. \A p \in Numbers(callbackQueue) : p < logEntry.sequence
        BY <2>1, <2>2
      <3>2. QED
        BY <2>1, <2>2, <3>1, NumbersAppended
    <2>4. Accounted(fate, Numbers(callbackQueue) \cup {sequence}, {})
      BY <1>1, <2>2, AccountedQueued
    <2>5. ASSUME callbackQueue' = Append(callbackQueue, logEntry), pc'.check = "next"
          PROVE  QueueInv'
      <3>1. /\ InHand' = {}
            /\ Accounted(fate, Numbers(callbackQueue), InHand)'
            /\ Ascending(callbackQueue)'
        BY <2>1, <2>3, <2>4, <2>5 DEF InHand
      <3>2. fate' \in Fates'
        BY <1>1, <2>1 DEF Fates
      <3>3. QED
        BY <2>5, <3>1, <3>2, QueueInvFromParts
    <2>6. ~Full
      BY <1>5, <2>1 DEF Resend, QueueInv, Full
    <2>7. QED
      BY <1>1, <1>5, <2>5, <2>6 DEF Resend, NextResource
  <1>6. CASE Receive
    <2>1. callbackQueue # <<>>
      BY <1>6 DEF Receive, TakeEvent
    <2>2. QED
      <3> DEFINE h == Head(callbackQueue).sequence
                 q == Tail(callbackQueue)
      <3>1. callbackQueue \in Seq(Entry(1)) /\ Len(callbackQueue) <= QueueLength
        BY DEF TypeInv, QueueTypes
      <3>2. /\ Numbers(callbackQueue) = Numbers(q) \cup {h}
            /\ Ascending(q)
            /\ \A p \in Numbers(q) : h < p
            /\ h \in 1 .. sequence
        BY <1>1, <2>1, <3>1, QueueInvParts, NumbersOfTail DEF Entry
      <3>3. Len(q) < QueueLength
        BY <2>1, <3>1, TailOfSeq, PipelineAssumption
      <3> HIDE DEF h, q
      <3>4. /\ pc'.check = pc.check /\ InHand' = InHand
            /\ callbackQueue' = q /\ sequence' = sequence /\ logEntry' = logEntry
            /\ fate' = [fate EXCEPT !.taken = @ \cup {h}]
        BY <1>1, <1>6, <2>1 DEF Receive, TakeEvent, InHand, h, q
      <3>5. Accounted(fate', Numbers(q), InHand) /\ fate' \in Fates
        BY <1>1, <3>2, <3>4, QueueInvParts, AccountedGone DEF Fates
      <3>6. /\ Accounted(fate, Numbers(callbackQueue), InHand)'
            /\ Ascending(callbackQueue)'
            /\ fate' \in Fates'
            /\ Len(callbackQueue') < QueueLength
        BY <3>2, <3>3, <3>4, <3>5 DEF Fates
      <3>7. QED
        BY <3>4, <3>6, QueueInvParts, QueueInvFromParts
  <1>7. CASE StartRound \/ CheckResource \/ EndRound \/ AppendFails
    BY <1>1, <1>7, QueueKept DEF StartRound, CheckResource, EndRound, AppendFails, NextResource
  <1>8. ASSUME NEW now \in Clock, ConsiderCertificate(now)
        PROVE  QueueInv'
    BY <1>1, <1>8, QueueKept DEF ConsiderCertificate
  <1>9. CASE GetConfig \/ Skip \/ Deliver \/ FinishDelivery
    BY <1>1, <1>9, QueueKept DEF GetConfig, Skip, Deliver, FinishDelivery, NextEvent
  <1>10. ASSUME NEW t \in Task, TakeLock(t) \/ LockTimesOut(t) \/ RequestStep(t)
         PROVE  QueueInv'
    BY <1>10, QueueKept
       DEF TakeLock, LockTimesOut, RequestStep, StageSucceeds, StageFails, Cleanup
  <1>11. CASE ApiAccept \/ ApiChangeCallback \/ ApiClose
    BY <1>11, QueueKept DEF ApiAccept, ApiChangeCallback, ApiClose
  <1>12. QED
    BY <1>2, <1>3, <1>4, <1>5, <1>6, <1>7, <1>8, <1>9, <1>10, <1>11
       DEF Next, CheckStep, CallbackStep

-----------------------------------------------------------------------------
(* Deliveries.  Only the callback task moves itself, its event and its copy *)
(* of the configuration; an event it holds is not newer than the            *)
(* configuration, which only advances.                                      *)
LEMMA DeliveryStep ==
  ASSUME TypeInv, DeliveryInv, Next
  PROVE  DeliveryInv'
  <1>1. ControlTypes /\ event \in Entry(0)
    BY DEF TypeInv, QueueTypes
  <1>2. CASE Receive
    BY <1>1, <1>2 DEF Receive, DeliveryInv, ControlTypes
  <1>3. CASE GetConfig
    BY <1>1, <1>3 DEF GetConfig, DeliveryInv, ControlTypes, Entry
  <1>4. CASE Deliver
    BY <1>1, <1>4 DEF Deliver, callbackVars, DeliveryInv, ControlTypes
  <1>5. CASE Skip \/ FinishDelivery
    BY <1>1, <1>5 DEF Skip, FinishDelivery, NextEvent, DeliveryInv, ControlTypes
  <1>6. CASE pc'.callback = pc.callback /\ UNCHANGED <<event, target>>
    BY <1>6 DEF DeliveryInv
  <1>7. ASSUME NEW t \in Task, TakeLock(t) \/ LockTimesOut(t) \/ RequestStep(t)
        PROVE  pc'.callback = pc.callback /\ UNCHANGED <<event, target>>
    BY <1>7 DEF TakeLock, LockTimesOut, RequestStep, StageSucceeds, StageFails, Cleanup,
                callbackVars
  <1>8. StartRound \/ CheckStep => pc'.callback = pc.callback /\ UNCHANGED <<event, target>>
    BY <1>1 DEF StartRound, CheckStep, CheckResource, EndRound, ConsiderCertificate,
                AppendFails, AppendResult, Send, Discard, Resend, NextResource, callbackVars,
                ControlTypes
  <1>9. ApiAccept \/ ApiChangeCallback \/ ApiClose
          => pc'.callback = pc.callback /\ UNCHANGED <<event, target>>
    BY DEF ApiAccept, ApiChangeCallback, ApiClose, callbackVars
  <1>10. QED
    BY <1>2, <1>3, <1>4, <1>5, <1>6, <1>7, <1>8, <1>9 DEF Next, CallbackStep

-----------------------------------------------------------------------------
(* Warnings. *)
LEMMA WarningKept ==
  ASSUME WarningInv, UNCHANGED warningVars
  PROVE  WarningInv'
  BY DEF WarningInv, warningVars

LEMMA WarningStep ==
  ASSUME TypeInv, WarningInv, Next
  PROVE  WarningInv'
  <1>1. ASSUME NEW now \in Clock, ConsiderCertificate(now)
        PROVE  WarningInv'
    <2>1. CASE UNCHANGED warningVars
      BY <2>1, WarningKept
    <2>2. CASE CheckCertificateExpiry(index, result.expiry, now)
      <3>1. index \in Slot
        BY <1>1, IndexInRound DEF ConsiderCertificate, TypeInv, ControlTypes, Checking
      <3>2. WarningTypes
        BY DEF TypeInv
      <3>3. QED
        BY <2>2, <3>1, <3>2 DEF CheckCertificateExpiry, WarningInv, WarningTypes
    <2>3. QED
      BY <1>1, <2>1, <2>2 DEF ConsiderCertificate
  <1>2. ASSUME NEW t \in Task, TakeLock(t) \/ LockTimesOut(t) \/ RequestStep(t)
        PROVE  UNCHANGED warningVars
    BY <1>2 DEF TakeLock, LockTimesOut, RequestStep, StageSucceeds, StageFails, Cleanup
  <1>3. StartRound \/ CheckResource \/ EndRound \/ AppendFails \/ AppendResult \/ Send
          \/ Discard \/ Resend => UNCHANGED warningVars
    BY DEF StartRound, CheckResource, EndRound, AppendFails, AppendResult, Send, Discard, Resend
  <1>4. CallbackStep \/ ApiAccept \/ ApiChangeCallback \/ ApiClose => UNCHANGED warningVars
    BY DEF CallbackStep, Receive, GetConfig, Skip, Deliver, FinishDelivery, ApiAccept,
           ApiChangeCallback, ApiClose
  <1>5. QED
    BY <1>1, <1>2, <1>3, <1>4, WarningKept DEF Next, CheckStep

(* With clock values that leave a period to the end of the counter's range, *)
(* a wrapped difference below the period is a true one.                     *)
LEMMA ElapsedIsTrue ==
  ASSUME NEW now \in Clock, NEW since \in Clock, Elapsed(now, since) < Period
  PROVE  since \in now - (Period - 1) .. now
  <1>1. /\ now \in 1 .. ClockModulus - Period
        /\ since \in 1 .. ClockModulus - Period
        /\ Period \in Nat \ {0}
        /\ ClockModulus \in Nat
    BY PipelineAssumption
  <1>2. CASE since <= now
    <2>1. now + ClockModulus - since = (now - since) + ClockModulus
      BY <1>1
    <2>2. Elapsed(now, since) = now - since
      BY <1>1, <1>2, <2>1 DEF Elapsed
    <2>3. QED
      BY <1>1, <1>2, <2>2
  <1>3. CASE since > now
    <2>1. Elapsed(now, since) = now + ClockModulus - since
      BY <1>1, <1>3 DEF Elapsed
    <2>2. QED
      BY <1>1, <1>3, <2>1
  <1>4. QED
    BY <1>1, <1>2, <1>3

LEMMA SilenceStep ==
  ASSUME TypeInv, WarningInv, NEW now \in Clock, ConsiderCertificate(now),
         result.expiry # 0, InWindow(result.expiry, now)
  PROVE  /\ lastWarning'[index].expiry = result.expiry
         /\ lastWarning'[index].at \in now - (Period - 1) .. now
  <1>1. index \in Slot
    BY IndexInRound DEF ConsiderCertificate, TypeInv, ControlTypes, Checking
  <1>2. WarningTypes /\ now \in Nat /\ Period \in Nat \ {0}
    BY PipelineAssumption DEF TypeInv
  <1>3. CheckCertificateExpiry(index, result.expiry, now)
    BY DEF ConsiderCertificate
  <1> DEFINE previous == IF certificateWarningExpiry[index] = result.expiry
                         THEN certificateWarningTime[index] ELSE 0
  <1>4. CASE RecentlyWarned(previous, now)
    <2>1. /\ previous # 0 /\ Elapsed(now, previous) < Period
          /\ previous = certificateWarningTime[index]
          /\ certificateWarningExpiry[index] = result.expiry
          /\ previous \in Clock
      BY <1>1, <1>2, <1>4 DEF RecentlyWarned, WarningTypes
    <2>2. lastWarning[index] = [expiry |-> result.expiry, at |-> previous]
      BY <1>1, <2>1 DEF WarningInv
    <2>3. lastWarning' = lastWarning
      BY <1>3, <1>4 DEF CheckCertificateExpiry
    <2>4. previous \in now - (Period - 1) .. now
      BY <2>1, ElapsedIsTrue
    <2>5. QED
      BY <2>2, <2>3, <2>4
  <1>5. CASE ~RecentlyWarned(previous, now)
    <2>1. lastWarning'[index] = [expiry |-> result.expiry, at |-> now]
      BY <1>1, <1>2, <1>3, <1>5 DEF CheckCertificateExpiry, WarningTypes
    <2>2. now \in now - (Period - 1) .. now
      BY <1>2
    <2>3. QED
      BY <2>1, <2>2
  <1>6. QED
    BY <1>4, <1>5

-----------------------------------------------------------------------------
LEMMA InvInit == Init => IInv
  <1> SUFFICES ASSUME Init PROVE IInv
    OBVIOUS
  <1>1. TypeInv
    BY TypeInit
  <1>2. OneConversation
    BY StageNames DEF Init, OneConversation, Task, Nobody
  <1>3. QueueInv
    BY DEF Init, QueueInv, Queueing, OldestDropped, Pending, InHand
  <1>4. DeliveryInv
    BY DEF Init, DeliveryInv
  <1>5. WarningInv
    BY DEF Init, WarningInv
  <1>6. QED
    BY <1>1, <1>2, <1>3, <1>4, <1>5 DEF IInv

LEMMA InvStep == IInv /\ [Next]_vars => IInv'
  <1> SUFFICES ASSUME IInv, [Next]_vars PROVE IInv'
    OBVIOUS
  <1>1. CASE Next
    <2>1. TypeInv'
      BY <1>1, RequestTypes, CheckTypes, CallbackTypes, ApiTypes DEF IInv, Next
    <2>2. QED
      BY <1>1, <2>1, ConversationStep, QueueStep, DeliveryStep, WarningStep DEF IInv
  <1>2. CASE UNCHANGED vars
    BY <1>2
       DEF vars, requestVars, warningVars, queueVars, callbackVars, IInv, TypeInv, ControlTypes,
           LockTypes, QueueTypes, WarningTypes, Checking, Entry, OneConversation, QueueInv,
           Queueing, OldestDropped, Pending, InHand, DeliveryInv, WarningInv
  <1>3. QED
    BY <1>1, <1>2

LEMMA Invariance == Spec => []IInv
  BY InvInit, InvStep, PTL DEF Spec

(* Tasks, requests, queue and configuration keep their types, and a task    *)
(* is in a request exactly while it waits for one.                          *)
THEOREM TypeCorrect == Spec => []TypeOK
  <1>1. IInv => TypeOK
    BY TypesSuffice DEF IInv
  <1>2. QED
    BY <1>1, Invariance, PTL

(* TlsTransport_Request serialises the conversations of both tasks and of   *)
(* the API: whoever is past the lock holds it, and what it sends is what it *)
(* composed, at whatever stage requests fail.                               *)
THEOREM OneConversationHolds == Spec => []OneConversation
  <1>1. IInv => OneConversation
    BY DEF IInv
  <1>2. QED
    BY <1>1, Invariance, PTL

(* CallbackService_Enqueue drops nothing but the oldest event of a full     *)
(* queue, and no event twice, wherever the callback task's receives fall    *)
(* between its three queue calls, for any queue length.                     *)
THEOREM OldestDroppedHolds == Spec => []OldestDropped
  <1>1. IInv => OldestDropped
    BY DEF IInv, QueueInv
  <1>2. QED
    BY <1>1, Invariance, PTL

(* callbackService_Task delivers an event by a configuration that is        *)
(* enabled and not older than the event.                                    *)
THEOREM DeliveredByCurrentTargetHolds == Spec => []DeliveredByCurrentTarget
  <1>1. IInv => DeliveredByCurrentTarget
    BY DEF IInv, DeliveryInv, DeliveredByCurrentTarget
  <1>2. QED
    BY <1>1, Invariance, PTL

(* healthCheckService_CheckCertificateExpiry keeps silent about a           *)
(* certificate inside the window only within a period after a warning for   *)
(* that certificate, however the clock is set, for any window and period.   *)
THEOREM SilenceIsJustified == Spec => SilentOnlyAfterWarning
  <1>1. IInv /\ [Next]_vars =>
          [\A now \in Clock :
             LET expiry == result.expiry
             IN ConsiderCertificate(now) /\ expiry # 0 /\ InWindow(expiry, now) =>
                  /\ lastWarning'[index].expiry = expiry
                  /\ lastWarning'[index].at \in now - (Period - 1) .. now]_vars
    BY SilenceStep DEF IInv
  <1>2. QED
    BY <1>1, Invariance, PTL DEF Spec, SilentOnlyAfterWarning

-----------------------------------------------------------------------------
(***************************************************************************)
(* The health-check log.  A record has a sequence number below the bound,   *)
(* which is where the counter itself stops.                                 *)
(***************************************************************************)
Cell == {Erased, Smudged, Torn} \cup {Record(n) : n \in 1 .. (MaxLogSequence - 1)}

LogTypes ==
  /\ flash \in [Sector -> [LogSlot -> Cell]]
  /\ activeSector \in Sector
  /\ nextSlot \in 0 .. SlotCount
  /\ nextSequence \in 0 .. MaxLogSequence
  /\ phase \in {"off", "idle", "erase", "program", "verify", "halted"}
  /\ rollTarget \in Sector
  /\ caller \in {"none", "init", "append"}
  /\ acked \in 0 .. MaxLogSequence
  /\ faults \in 0 .. MaxFaults
  /\ tainted \in BOOLEAN
  /\ phase \in {"program", "verify"} =>
       nextSlot < SlotCount /\ nextSequence \in 1 .. (MaxLogSequence - 1)
  /\ phase = "erase" /\ caller = "append" => nextSequence \in 1 .. (MaxLogSequence - 1)
  /\ phase \in {"erase", "idle"} => nextSequence > 0
  /\ phase = "erase" => caller # "none"

(***************************************************************************)
(* What the sectors look like, as operators on the contents f of the flash  *)
(* and the last acknowledged sequence a, so that they can be said of the    *)
(* states before and after a step.                                          *)
(***************************************************************************)
IsRecord(f, s, i) == f[s][i].kind = "record"

(* The first k slots of a sector are used, the next one is blank, those     *)
(* after it are erased, and the first one holds a record.                   *)
Used(f, h, k) ==
  /\ k > 0
  /\ IsRecord(f, h, 0)
  /\ \A i \in LogSlot :
       /\ i < k => f[h][i].kind \in {"torn", "record"}
       /\ i = k => f[h][i].kind \in {"erased", "smudged"}
       /\ i > k => f[h][i] = Erased

(* The records of a sector are in order; they are all newer than those of   *)
(* the other one.                                                           *)
InOrder(f, s) == \A i, j \in LogSlot :
  IsRecord(f, s, i) /\ IsRecord(f, s, j) /\ i < j => f[s][i].sequence < f[s][j].sequence

Newer(f, h) == \A i, j \in LogSlot :
  IsRecord(f, h, i) /\ IsRecord(f, 1 - h, j) => f[1 - h][j].sequence < f[h][i].sequence

(* Both, and the records of the sector reach the last one acknowledged. *)
Newest(f, h, a) ==
  /\ InOrder(f, h)
  /\ Newer(f, h)
  /\ \E i \in LogSlot : IsRecord(f, h, i) /\ f[h][i].sequence >= a

Home(f, h, k, a) == Used(f, h, k) /\ Newest(f, h, a)

NoRecords(f, a) == a = 0 /\ \A s \in Sector, i \in LogSlot : ~IsRecord(f, s, i)

(* A sector has just been erased; the other one, if there is anything to    *)
(* keep, is full.                                                           *)
Rolled(f, s, a) ==
  /\ f[s] = ErasedSector
  /\ NoRecords(f, a) \/ Home(f, 1 - s, SlotCount, a)

Above(f, n) == \A s \in Sector, i \in LogSlot : IsRecord(f, s, i) => f[s][i].sequence < n

(* Appending goes on after the used slots of the newest sector, or at the   *)
(* start of one just erased.                                                *)
Position(f, h, k, a) == Home(f, h, k, a) \/ (k = 0 /\ Rolled(f, h, a))

LayoutInv ==
  /\ phase = "off" =>
       NoRecords(flash, acked) \/ \E h \in Sector, k \in 1 .. SlotCount : Home(flash, h, k, acked)
  /\ phase = "erase" =>
       /\ Above(flash, nextSequence)
       /\ \/ Home(flash, 1 - rollTarget, SlotCount, acked)
          \/ NoRecords(flash, acked) /\ caller = "init"
  /\ phase \in {"idle", "program"} =>
       Above(flash, nextSequence) /\ Position(flash, activeSector, nextSlot, acked)
  /\ phase = "verify" =>
       /\ Home(flash, activeSector, nextSlot + 1, acked)
       /\ Above(flash, nextSequence + 1)
  /\ phase # "halted"

SessionInv == phase # "off" /\ ~tainted => acked < nextSequence

LogInv ==
  /\ LogTypes
  /\ faults = 0 => LayoutInv
  /\ SessionInv

-----------------------------------------------------------------------------
LEMMA GreatestElement ==
  ASSUME NEW b \in Nat, NEW S \in SUBSET (0 .. b), S # {}
  PROVE  \E n \in S : \A m \in S : n >= m
  <1> DEFINE D == {b - n : n \in S}
  <1>1. D \in SUBSET Nat /\ D # {}
    <2>1. \A n \in S : b - n \in Nat
      OBVIOUS
    <2>2. \A d \in D : d \in Nat
      BY <2>1
    <2>3. PICK n \in S : TRUE
      OBVIOUS
    <2>4. b - n \in D
      BY <2>3
    <2>5. QED
      BY <2>2, <2>4
  <1>2. PICK d \in D : \A e \in D : d <= e
    BY <1>1, LeastElement
  <1>3. PICK n \in S : d = b - n
    BY <1>2
  <1>4. \A m \in S : b - m \in D
    OBVIOUS
  <1> HIDE DEF D
  <1>5. QED
    BY <1>2, <1>3, <1>4

(* The kind of a slot decides the rest of it. *)
LEMMA CellFacts ==
  ASSUME NEW c \in Cell
  PROVE  /\ c.kind \in {"erased", "smudged", "torn", "record"}
         /\ c.kind = "erased" <=> c = Erased
         /\ c.kind = "smudged" <=> c = Smudged
         /\ c.kind = "torn" <=> c = Torn
         /\ c.kind = "record" => c.sequence \in 1 .. (MaxLogSequence - 1) /\ c = Record(c.sequence)
         /\ c.kind # "record" => c.sequence = 0
  BY LogAssumption DEF Cell, Erased, Smudged, Torn, Record

LEMMA SlotFacts ==
  /\ LogSlot \subseteq Nat
  /\ 0 \in LogSlot
  /\ \A i \in Nat : i < SlotCount <=> i \in LogSlot
  BY LogAssumption DEF LogSlot

LEMMA ErasedIsErased == \A i \in LogSlot : ErasedSector[i] = Erased /\ Erased.kind = "erased"
  BY DEF ErasedSector, Erased

LEMMA LogTypesSuffice == LogTypes => LogTypeOK
  <1>1. Cell \subseteq {Erased, Smudged, Torn} \cup {Record(n) : n \in 1 .. MaxLogSequence}
    BY LogAssumption DEF Cell
  <1>2. QED
    BY <1>1 DEF LogTypes, LogTypeOK

-----------------------------------------------------------------------------
(* What start-up finds: bounds on what a scan returns, whatever is in the   *)
(* sectors, and the scan of a sector that is in order.                      *)
LEMMA ScanTypes ==
  ASSUME LogTypes, NEW s \in Sector, NEW u
  PROVE  /\ NextAvailableSlot(s, u) \in 0 .. SlotCount
         /\ ValidSlots(s, u) # {} => LastSequence(s, u) \in 1 .. (MaxLogSequence - 1)
         /\ ValidSlots(s, u) = {} => LastSequence(s, u) = 0
  <1>1. NextAvailableSlot(s, u) \in 0 .. SlotCount
    <2> DEFINE blank == ReadsErased(s, u)
    <2>1. blank \in SUBSET LogSlot
      BY DEF ReadsErased
    <2>2. NextAvailableSlot(s, u) = IF blank = {} THEN SlotCount ELSE Min(blank)
      BY DEF NextAvailableSlot
    <2> HIDE DEF blank
    <2>3. blank # {} => Min(blank) \in blank
      <3>1. blank # {} => \E n \in blank : \A m \in blank : n <= m
        BY <2>1, SlotFacts, LeastElement
      <3>2. QED
        BY <3>1 DEF Min
    <2>4. \A i \in blank : i \in 0 .. SlotCount
      BY <2>1, LogAssumption DEF LogSlot
    <2>5. SlotCount \in 0 .. SlotCount
      BY LogAssumption
    <2>6. QED
      BY <2>2, <2>3, <2>4, <2>5
  <1>2. ASSUME ValidSlots(s, u) # {}
        PROVE  LastSequence(s, u) \in 1 .. (MaxLogSequence - 1)
    <2> DEFINE valid == ValidSlots(s, u)
    <2>1. valid \in SUBSET (0 .. (SlotCount - 1)) /\ SlotCount - 1 \in Nat
      BY LogAssumption DEF ValidSlots, LogSlot
    <2>2. \E n \in valid : \A m \in valid : n >= m
      BY <1>2, <2>1, GreatestElement
    <2>3. Max(valid) \in valid
      BY <2>2 DEF Max
    <2>4. flash[s][Max(valid)].kind = "record" /\ Max(valid) \in LogSlot
      BY <2>3 DEF ValidSlots
    <2>5. flash[s][Max(valid)] \in Cell
      BY <2>4 DEF LogTypes
    <2>6. LastSequence(s, u) = flash[s][Max(valid)].sequence
      BY <1>2 DEF LastSequence
    <2> HIDE DEF valid
    <2>7. QED
      BY <2>4, <2>5, <2>6, CellFacts
  <1>3. ValidSlots(s, u) = {} => LastSequence(s, u) = 0
    BY DEF LastSequence
  <1>4. QED
    BY <1>1, <1>2, <1>3

LEMMA ScanOfHome ==
  ASSUME LogTypes, NEW h \in Sector, NEW k \in 1 .. SlotCount, Home(flash, h, k, acked)
  PROVE  /\ NextAvailableSlot(h, {}) = k
         /\ ValidSlots(h, {}) # {}
         /\ LastSequence(h, {}) > LastSequence(1 - h, {})
         /\ LastSequence(h, {}) >= acked
         /\ Above(flash, LastSequence(h, {}) + 1)
  <1> USE DEF Home
  <1> DEFINE blank == ReadsErased(h, {})
             valid == ValidSlots(h, {})
             other == ValidSlots(1 - h, {})
  <1>0. 1 - h \in Sector /\ h \in {0, 1}
    BY DEF Sector
  <1>1. \A i \in LogSlot : flash[h][i] \in Cell /\ flash[1 - h][i] \in Cell
    BY <1>0 DEF LogTypes
  <1>2. blank = {i \in LogSlot : i >= k}
    <2>1. \A i \in LogSlot : i \in blank <=> flash[h][i].kind \in {"erased", "smudged"}
      BY DEF ReadsErased
    <2>2. \A i \in LogSlot : i \in blank <=> i >= k
      BY <2>1, SlotFacts, LogAssumption DEF Used, Erased
    <2>3. QED
      BY <2>2 DEF ReadsErased
  <1>3. NextAvailableSlot(h, {}) = IF blank = {} THEN SlotCount ELSE Min(blank)
    BY DEF NextAvailableSlot
  <1>4. NextAvailableSlot(h, {}) = k
    <2>1. CASE k < SlotCount
      <3>1. k \in blank /\ \A m \in blank : k <= m
        BY <1>2, <2>1, SlotFacts
      <3>2. blank \subseteq Nat
        BY <1>2, SlotFacts
      <3>3. \E n \in blank : \A m \in blank : n <= m
        BY <3>1
      <3> HIDE DEF blank
      <3>4. Min(blank) \in blank /\ \A m \in blank : Min(blank) <= m
        BY <3>3 DEF Min
      <3>5. Min(blank) = k
        <4>1. Min(blank) \in Nat /\ Min(blank) <= k /\ k <= Min(blank)
          BY <3>1, <3>2, <3>4
        <4>2. QED
          BY <4>1, LogAssumption
      <3>6. QED
        BY <1>3, <3>1, <3>5
    <2>2. CASE k >= SlotCount
      <3>1. k = SlotCount /\ blank = {}
        BY <1>2, <2>2, LogAssumption DEF LogSlot
      <3>2. QED
        BY <1>3, <3>1
    <2>3. QED
      BY <2>1, <2>2, LogAssumption
  <1>5. \A i \in LogSlot : i \in valid <=> IsRecord(flash, h, i)
    <2>1. \A i \in LogSlot : IsRecord(flash, h, i) => i < k
      BY SlotFacts, LogAssumption DEF Used, IsRecord, Erased
    <2>2. QED
      BY <1>4, <2>1 DEF ValidSlots, IsRecord
  <1>6. valid # {}
    BY <1>5, SlotFacts DEF Used
  <1>7. Max(valid) \in valid /\ \A m \in valid : Max(valid) >= m
    <2>1. valid \in SUBSET (0 .. (SlotCount - 1)) /\ SlotCount - 1 \in Nat
      BY LogAssumption DEF ValidSlots, LogSlot
    <2>2. \E n \in valid : \A m \in valid : n >= m
      BY <1>6, <2>1, GreatestElement
    <2>3. QED
      BY <2>2 DEF Max
  <1>8. LastSequence(h, {}) = flash[h][Max(valid)].sequence
    BY <1>6 DEF LastSequence
  <1>9. valid \subseteq LogSlot
    BY DEF ValidSlots
  <1> DEFINE x == Max(valid)
  <1> HIDE DEF valid, x
  <1>10. x \in LogSlot /\ IsRecord(flash, h, x)
    BY <1>5, <1>7, <1>9 DEF x
  <1>11. flash[h][x].sequence \in Nat \ {0}
    BY <1>1, <1>10, CellFacts DEF IsRecord
  <1>12. \A i \in LogSlot : IsRecord(flash, h, i) =>
           /\ flash[h][i].sequence \in Nat
           /\ flash[h][i].sequence <= flash[h][x].sequence
    <2> SUFFICES ASSUME NEW i \in LogSlot, IsRecord(flash, h, i)
                 PROVE  /\ flash[h][i].sequence \in Nat
                        /\ flash[h][i].sequence <= flash[h][x].sequence
      OBVIOUS
    <2>1. flash[h][i].sequence \in Nat
      BY <1>1, CellFacts DEF IsRecord
    <2>2. i <= x
      BY <1>5, <1>7 DEF x
    <2>3. i = x \/ i < x
      BY <1>10, <2>2, SlotFacts
    <2>4. i < x => flash[h][i].sequence < flash[h][x].sequence
      BY <1>10 DEF Newest, InOrder, Newer
    <2>5. QED
      BY <1>11, <2>1, <2>3, <2>4
  <1>13. \A i \in LogSlot : IsRecord(flash, 1 - h, i) =>
           flash[1 - h][i].sequence < flash[h][x].sequence
    BY <1>10 DEF Newest, InOrder, Newer
  <1>14. flash[h][x].sequence >= acked
    <2>1. PICK i \in LogSlot : IsRecord(flash, h, i) /\ flash[h][i].sequence >= acked
      BY DEF Newest, InOrder, Newer
    <2>2. QED
      BY <1>11, <1>12, <2>1 DEF LogTypes
  <1>15. LastSequence(1 - h, {}) < flash[h][x].sequence
    <2>1. CASE other = {}
      BY <1>0, <1>11, <2>1, ScanTypes
    <2>2. CASE other # {}
      <3>1. other \in SUBSET (0 .. (SlotCount - 1)) /\ SlotCount - 1 \in Nat
        BY LogAssumption DEF ValidSlots, LogSlot
      <3>2. \E n \in other : \A m \in other : n >= m
        BY <2>2, <3>1, GreatestElement
      <3>3. Max(other) \in other
        BY <3>2 DEF Max
      <3>4. Max(other) \in LogSlot /\ IsRecord(flash, 1 - h, Max(other))
        BY <3>3 DEF ValidSlots, IsRecord
      <3>5. LastSequence(1 - h, {}) = flash[1 - h][Max(other)].sequence
        BY <2>2 DEF LastSequence
      <3> HIDE DEF other
      <3>6. QED
        BY <1>13, <3>4, <3>5
    <2>3. QED
      BY <2>1, <2>2
  <1>16. Above(flash, flash[h][x].sequence + 1)
    <2> SUFFICES ASSUME NEW s \in Sector, NEW i \in LogSlot, IsRecord(flash, s, i)
                 PROVE  flash[s][i].sequence < flash[h][x].sequence + 1
      BY DEF Above
    <2>1. CASE s = h
      BY <1>11, <1>12, <2>1
    <2>2. CASE s = 1 - h
      <3>1. flash[s][i].sequence \in Nat
        BY <1>1, <2>2, CellFacts DEF IsRecord
      <3>2. QED
        BY <1>11, <1>13, <2>2, <3>1
    <2>3. QED
      BY <1>0, <2>1, <2>2 DEF Sector
  <1>17. LastSequence(h, {}) = flash[h][x].sequence
    BY <1>8 DEF x
  <1>18. QED
    BY <1>4, <1>6, <1>14, <1>15, <1>16, <1>17 DEF valid

-----------------------------------------------------------------------------
(* How the layout changes: the other sector loses records; the next slot is *)
(* programmed.                                                              *)
Contents == [Sector -> [LogSlot -> Cell]]

LEMMA OtherSector == \A h \in Sector : 1 - h \in Sector /\ 1 - (1 - h) = h /\ 1 - h # h
  BY DEF Sector

LEMMA OneOrOther == \A h, s \in Sector : s = h \/ s = 1 - h
  BY DEF Sector

LEMMA HomeWithLess ==
  ASSUME NEW f \in Contents, NEW g \in Contents, NEW h \in Sector, NEW k \in Nat, NEW a \in Nat,
         Home(f, h, k, a), g[h] = f[h],
         \A i \in LogSlot : IsRecord(g, 1 - h, i) => g[1 - h][i] = f[1 - h][i]
  PROVE  Home(g, h, k, a)
  <1>1. Used(g, h, k)
    BY Zenon DEF Home, Used, IsRecord
  <1>2. \A i \in LogSlot : IsRecord(g, h, i) <=> IsRecord(f, h, i)
    BY DEF IsRecord
  <1>3. \A i \in LogSlot : IsRecord(g, 1 - h, i) =>
          IsRecord(f, 1 - h, i) /\ g[1 - h][i].sequence = f[1 - h][i].sequence
    BY DEF IsRecord
  <1>4. QED
    BY <1>1, <1>2, <1>3, Zenon DEF Home, Newest, InOrder, Newer

LEMMA NothingWithLess ==
  ASSUME NEW f, NEW g, NEW a, NoRecords(f, a),
         \A s \in Sector, i \in LogSlot : IsRecord(g, s, i) => g[s][i] = f[s][i]
  PROVE  NoRecords(g, a)
  BY DEF NoRecords, IsRecord

LEMMA AboveWithLess ==
  ASSUME NEW f, NEW g, NEW n, Above(f, n),
         \A s \in Sector, i \in LogSlot : IsRecord(g, s, i) => g[s][i] = f[s][i]
  PROVE  Above(g, n)
  BY DEF Above, IsRecord

(* The slot at the position is blank: it can be erased or smudged only. *)
LEMMA PositionIsBlank ==
  ASSUME NEW f \in Contents, NEW h \in Sector, NEW k \in LogSlot, NEW a,
         Position(f, h, k, a)
  PROVE  f[h][k] \in {Erased, Smudged}
  <1>1. f[h][k] \in Cell
    BY DEF Contents
  <1>2. f[h][k].kind \in {"erased", "smudged"}
    BY ErasedIsErased DEF Position, Home, Used, Rolled
  <1>3. QED
    BY <1>1, <1>2, CellFacts

Filling(f, h, k, n) == IF f[h][k] = Erased THEN Record(n) ELSE Torn

LEMMA HomeAfterProgram ==
  ASSUME NEW f \in Contents, NEW g \in Contents, NEW h \in Sector, NEW k \in LogSlot, NEW a \in Nat,
         NEW n \in 1 .. (MaxLogSequence - 1), Position(f, h, k, a), Above(f, n),
         g = [f EXCEPT ![h][k] = Filling(f, h, k, n)]
  PROVE  Home(g, h, k + 1, a) /\ Above(g, n + 1)
  <1> DEFINE c == Filling(f, h, k, n)
  <1>1. /\ c \in {Record(n), Torn}
        /\ c.kind \in {"torn", "record"}
        /\ c.kind = "record" => c.sequence = n
        /\ f[h][k] = Erased => c.kind = "record"
    BY DEF Filling, Record, Torn
  <1>2. /\ g[h][k] = c
        /\ \A i \in LogSlot : i # k => g[h][i] = f[h][i]
        /\ g[1 - h] = f[1 - h]
    BY OtherSector DEF Contents
  <1>3. k \in Nat /\ n \in Nat /\ LogSlot \subseteq Nat /\ 1 - h \in Sector
    BY SlotFacts, OtherSector, LogAssumption
  <1> HIDE DEF c
  <1>4. \A s \in Sector, i \in LogSlot : IsRecord(f, s, i) =>
          f[s][i].sequence \in Nat /\ f[s][i].sequence < n
    <2> SUFFICES ASSUME NEW s \in Sector, NEW i \in LogSlot, IsRecord(f, s, i)
                 PROVE  f[s][i].sequence \in Nat /\ f[s][i].sequence < n
      OBVIOUS
    <2>1. f[s][i] \in Cell
      BY DEF Contents
    <2>2. QED
      BY <2>1, CellFacts DEF Above, IsRecord
  <1>5. ~IsRecord(f, h, k)
    BY PositionIsBlank DEF IsRecord, Erased, Smudged
  <1>6. \A i \in LogSlot : IsRecord(g, h, i) => \/ i = k /\ g[h][i].sequence = n
                                                \/ i # k /\ IsRecord(f, h, i) /\ g[h][i] = f[h][i]
    BY <1>1, <1>2 DEF IsRecord
  <1>7. \A i \in LogSlot : IsRecord(f, h, i) => IsRecord(g, h, i) /\ g[h][i] = f[h][i] /\ i # k
    BY <1>2, <1>5 DEF IsRecord
  <1>8. \A i \in LogSlot : IsRecord(g, 1 - h, i) => IsRecord(f, 1 - h, i) /\ g[1 - h][i] = f[1 - h][i]
    BY <1>2 DEF IsRecord
  <1>9. Above(g, n + 1)
    <2> SUFFICES ASSUME NEW s \in Sector, NEW i \in LogSlot, IsRecord(g, s, i)
                 PROVE  g[s][i].sequence < n + 1
      BY DEF Above
    <2>1. \/ g[s][i].sequence = n
          \/ IsRecord(f, s, i) /\ g[s][i] = f[s][i]
      <3>1. CASE s = h
        BY <1>6, <3>1
      <3>2. CASE s = 1 - h
        BY <1>8, <3>2
      <3>3. QED
        BY <3>1, <3>2, OneOrOther
    <2>2. g[s][i].sequence \in Nat /\ g[s][i].sequence <= n
      BY <1>3, <1>4, <2>1
    <2>3. QED
      BY <1>3, <2>2
  <1>10. CASE Home(f, h, k, a)
    <2>1. Used(g, h, k + 1)
      <3>1. k > 0 /\ IsRecord(g, h, 0)
        BY <1>7, <1>10, SlotFacts DEF Home, Used
      <3>2. \A i \in LogSlot : i < k => g[h][i].kind \in {"torn", "record"}
        BY <1>2, <1>3, <1>10 DEF Home, Used
      <3>3. \A i \in LogSlot : i > k => g[h][i] = Erased
        BY <1>2, <1>3, <1>10 DEF Home, Used
      <3>4. \A i \in LogSlot : /\ i < k + 1 => i < k \/ i = k
                               /\ i = k + 1 => i > k
                               /\ i > k + 1 => i > k
        BY <1>3
      <3>5. \A i \in LogSlot : i = k + 1 => g[h][i].kind \in {"erased", "smudged"}
        BY <3>3, <3>4 DEF Erased
      <3>6. QED
        BY <1>1, <1>2, <1>3, <3>1, <3>2, <3>3, <3>4, <3>5 DEF Used
    <2>2. ASSUME NEW i \in LogSlot, NEW j \in LogSlot, IsRecord(g, h, i), IsRecord(g, h, j), i < j
          PROVE  g[h][i].sequence < g[h][j].sequence
      <3>1. i # k
        <4>1. IsRecord(f, h, j) => j < k
          BY <1>3, <1>5, <1>10 DEF Home, Used, IsRecord, Erased
        <4>2. j = k \/ IsRecord(f, h, j)
          BY <1>6, <2>2
        <4>3. i \in Nat /\ j \in Nat
          BY <1>3
        <4>4. QED
          BY <1>3, <2>2, <4>1, <4>2, <4>3
      <3>2. IsRecord(f, h, i) /\ g[h][i] = f[h][i]
        BY <1>6, <2>2, <3>1
      <3>3. CASE j = k
        BY <1>4, <1>6, <2>2, <3>2, <3>3
      <3>4. CASE j # k
        BY <1>6, <1>10, <2>2, <3>2, <3>4 DEF Home, Newest, InOrder, Newer
      <3>5. QED
        BY <3>3, <3>4
    <2>3. ASSUME NEW i \in LogSlot, NEW j \in LogSlot, IsRecord(g, h, i), IsRecord(g, 1 - h, j)
          PROVE  g[1 - h][j].sequence < g[h][i].sequence
      <3>1. IsRecord(f, 1 - h, j) /\ g[1 - h][j] = f[1 - h][j]
        BY <1>8, <2>3
      <3>2. CASE i = k
        BY <1>3, <1>4, <1>6, <2>3, <3>1, <3>2
      <3>3. CASE i # k
        BY <1>6, <1>10, <2>3, <3>1, <3>3 DEF Home, Newest, InOrder, Newer
      <3>4. QED
        BY <3>2, <3>3
    <2>4. \E i \in LogSlot : IsRecord(g, h, i) /\ g[h][i].sequence >= a
      <3>1. PICK i \in LogSlot : IsRecord(f, h, i) /\ f[h][i].sequence >= a
        BY <1>10 DEF Home, Newest, InOrder, Newer
      <3>2. QED
        BY <1>7, <3>1
    <2>5. QED
      BY <1>9, <2>1, <2>2, <2>3, <2>4 DEF Home, Newest, InOrder, Newer
  <1>11. CASE k = 0 /\ Rolled(f, h, a)
    <2>1. \A i \in LogSlot : f[h][i] = Erased
      BY <1>11, ErasedIsErased DEF Rolled
    <2>2. IsRecord(g, h, k) /\ g[h][k].sequence = n
      BY <1>1, <1>2, <2>1 DEF IsRecord
    <2>3. \A i \in LogSlot : IsRecord(g, h, i) => i = k
      BY <1>2, <2>1 DEF IsRecord, Erased
    <2>4. Used(g, h, k + 1)
      BY <1>1, <1>2, <1>3, <1>11, <2>1, <2>2 DEF Used, Erased
    <2>5. a <= n
      <3>1. CASE NoRecords(f, a)
        BY <3>1 DEF NoRecords
      <3>2. CASE Home(f, 1 - h, SlotCount, a)
        <4>1. PICK i \in LogSlot : IsRecord(f, 1 - h, i) /\ f[1 - h][i].sequence >= a
          BY <3>2 DEF Home, Newest, InOrder, Newer
        <4>2. QED
          BY <1>3, <1>4, <4>1
      <3>3. QED
        BY <1>11, <3>1, <3>2 DEF Rolled
    <2>6. \E i \in LogSlot : IsRecord(g, h, i) /\ g[h][i].sequence >= a
      BY <2>2, <2>5
    <2>7. \A i, j \in LogSlot : IsRecord(g, h, i) /\ IsRecord(g, 1 - h, j) =>
            g[1 - h][j].sequence < g[h][i].sequence
      BY <1>3, <1>4, <1>8, <2>2, <2>3
    <2>8. \A i, j \in LogSlot : IsRecord(g, h, i) /\ IsRecord(g, h, j) => ~(i < j)
      <3>1. ~(k < k)
        BY <1>3
      <3>2. QED
        BY <2>3, <3>1
    <2>9. QED
      BY <1>9, <2>4, <2>6, <2>7, <2>8 DEF Home, Newest, InOrder, Newer
  <1>12. QED
    BY <1>10, <1>11 DEF Position

-----------------------------------------------------------------------------
(* The types, action by action. *)
LEMMA ProgrammedTypes ==
  ASSUME LogTypes, phase = "program"
  PROVE  /\ nextSlot \in LogSlot
         /\ flash[activeSector][nextSlot] \in Cell
         /\ Programmed \in Cell
         /\ CutShortPrograms \subseteq Cell
  <1>1. nextSlot \in LogSlot
    BY SlotFacts, LogAssumption DEF LogTypes
  <1>2. flash[activeSector][nextSlot] \in Cell
    BY <1>1 DEF LogTypes
  <1>3. Record(nextSequence) \in Cell /\ Torn \in Cell /\ Smudged \in Cell
    BY DEF LogTypes, Cell
  <1>4. QED
    BY <1>1, <1>2, <1>3 DEF Programmed, CutShortPrograms

LEMMA ErasesTypes ==
  ASSUME LogTypes
  PROVE  /\ ErasedSector \in [LogSlot -> Cell]
         /\ CutShortErases \subseteq [LogSlot -> Cell]
         /\ WeakErases \subseteq [LogSlot -> Cell]
  <1>1. Erased \in Cell /\ Torn \in Cell
    BY DEF Cell
  <1>2. \A i \in LogSlot : flash[rollTarget][i] \in Cell
    BY DEF LogTypes
  <1>3. {Erased, Torn} \cup {flash[rollTarget][i] : i \in LogSlot} \subseteq Cell
    BY <1>1, <1>2
  <1>4. \A S, T : S \subseteq T => [LogSlot -> S] \subseteq [LogSlot -> T]
    OBVIOUS
  <1>5. CutShortErases \subseteq [LogSlot -> Cell]
    BY <1>3, <1>4 DEF CutShortErases
  <1>6. WeakErases \subseteq [LogSlot -> Cell]
    BY <1>1, <1>4 DEF WeakErases
  <1>7. QED
    BY <1>1, <1>5, <1>6 DEF ErasedSector

LEMMA SlotChanged ==
  ASSUME NEW f \in [Sector -> [LogSlot -> Cell]], NEW h \in Sector, NEW k \in LogSlot, NEW c \in Cell,
         NEW g, g = [f EXCEPT ![h][k] = c]
  PROVE  /\ g \in [Sector -> [LogSlot -> Cell]]
         /\ g[h][k] = c
         /\ \A i \in LogSlot : i # k => g[h][i] = f[h][i]
         /\ g[1 - h] = f[1 - h]
  <1> DEFINE row == [f[h] EXCEPT ![k] = c]
  <1>1. f[h] \in [LogSlot -> Cell] /\ row \in [LogSlot -> Cell]
    OBVIOUS
  <1>2. row[k] = c /\ \A i \in LogSlot : i # k => row[i] = f[h][i]
    BY <1>1
  <1>3. g = [f EXCEPT ![h] = row]
    OBVIOUS
  <1> HIDE DEF row
  <1>4. QED
    BY <1>1, <1>2, <1>3, OtherSector

LEMMA FaultTypes ==
  ASSUME faults \in 0 .. MaxFaults, faults' = faults \/ Fault
  PROVE  /\ faults' \in 0 .. MaxFaults
         /\ faults' = 0 => faults = 0
         /\ Fault => faults' > 0
  BY LogAssumption DEF Fault

LEMMA LogTypesStep == LogTypes /\ [LogNext]_logVars => LogTypes'
  <1> SUFFICES ASSUME LogTypes, [LogNext]_logVars
               PROVE  LogTypes'
    OBVIOUS
  <1>0. faults \in 0 .. MaxFaults
    BY DEF LogTypes
  <1>1. ASSUME NEW u, Boot(u)
        PROVE  LogTypes'
    <2> DEFINE last(s) == LastSequence(s, u)
               next(s) == NextAvailableSlot(s, u)
               active == IF last(0) >= last(1) THEN 0 ELSE 1
    <2>1. /\ active \in Sector /\ 1 - active \in Sector
          /\ 0 \in Sector
      BY DEF Sector
    <2>2. faults' \in 0 .. MaxFaults
      BY <1>0, <1>1, FaultTypes DEF Boot
    <2>3. /\ flash' = flash /\ acked' = acked /\ tainted' \in BOOLEAN
      BY <1>1 DEF Boot
    <2>4. CASE \A s \in Sector : ValidSlots(s, u) = {}
      <3>1. /\ nextSequence' = 1
            /\ phase' = "erase" /\ rollTarget' = 0 /\ caller' = "init"
            /\ UNCHANGED <<activeSector, nextSlot>>
        BY <1>1, <2>4 DEF Boot, RollToSector
      <3>2. QED
        BY <2>1, <2>2, <2>3, <3>1, LogAssumption DEF LogTypes
    <2>5. CASE \E s \in Sector : ValidSlots(s, u) # {}
      <3>1. last(active) + 1 \in 1 .. MaxLogSequence
        <4>1. last(active) \in 0 .. (MaxLogSequence - 1)
          BY <2>1, ScanTypes, LogAssumption
        <4> HIDE DEF active, last
        <4>2. QED
          BY <4>1, LogAssumption
      <3>2. next(active) \in 0 .. SlotCount
        BY <2>1, ScanTypes
      <3>3. /\ nextSequence' = last(active) + 1
            /\ \/ /\ next(active) < SlotCount
                  /\ activeSector' = active
                  /\ nextSlot' = next(active)
                  /\ phase' = "idle"
                  /\ UNCHANGED <<rollTarget, caller>>
               \/ /\ phase' = "erase" /\ rollTarget' = 1 - active /\ caller' = "init"
                  /\ UNCHANGED <<activeSector, nextSlot>>
        BY <1>1, <2>5 DEF Boot, RollToSector
      <3> HIDE DEF active, last, next
      <3>4. nextSequence' \in 0 .. MaxLogSequence /\ nextSequence' > 0
        BY <3>1, <3>3, LogAssumption
      <3>5. QED
        BY <2>1, <2>2, <2>3, <3>2, <3>3, <3>4 DEF LogTypes
    <2>6. QED
      BY <2>4, <2>5
  <1>2. ASSUME StartAppend
        PROVE  LogTypes'
    <2>1. nextSequence \in 1 .. (MaxLogSequence - 1) /\ 1 - activeSector \in Sector
      BY <1>2, LogAssumption, OtherSector DEF LogTypes, StartAppend
    <2>2. QED
      BY <1>2, <2>1 DEF LogTypes, StartAppend, RollToSector
  <1>3. ASSUME EraseTarget
        PROVE  LogTypes'
    <2>1. \E f \in [LogSlot -> Cell] : flash' = [flash EXCEPT ![rollTarget] = f]
      BY <1>3, ErasesTypes DEF EraseTarget
    <2>2. flash' \in [Sector -> [LogSlot -> Cell]]
      BY <2>1 DEF LogTypes
    <2>3. faults' \in 0 .. MaxFaults
      BY <1>0, <1>3, FaultTypes DEF EraseTarget
    <2>4. /\ nextSequence > 0 /\ caller \in {"init", "append"}
          /\ caller = "append" => nextSequence \in 1 .. (MaxLogSequence - 1)
      BY <1>3 DEF LogTypes, EraseTarget
    <2>5. /\ \/ /\ activeSector' = rollTarget
                /\ nextSlot' = 0
                /\ phase' = IF caller = "init" THEN "idle" ELSE "program"
             \/ /\ phase' = IF caller = "init" THEN "halted" ELSE "idle"
                /\ UNCHANGED <<activeSector, nextSlot>>
          /\ caller' = "none"
          /\ UNCHANGED <<nextSequence, rollTarget, acked, tainted>>
      BY <1>3 DEF EraseTarget
    <2>6. QED
      BY <2>2, <2>3, <2>4, <2>5, LogAssumption DEF LogTypes
  <1>4. ASSUME ProgramRecord
        PROVE  LogTypes'
    <2>1. \E c \in Cell : flash' = [flash EXCEPT ![activeSector][nextSlot] = c]
      BY <1>4, ProgrammedTypes DEF ProgramRecord, SetSlot
    <2>2. flash' \in [Sector -> [LogSlot -> Cell]]
      BY <1>4, <2>1, SlotChanged, ProgrammedTypes DEF LogTypes, ProgramRecord
    <2>3. faults' \in 0 .. MaxFaults
      BY <1>0, <1>4, FaultTypes DEF ProgramRecord
    <2>4. nextSlot \in 0 .. SlotCount /\ nextSlot < SlotCount
          /\ nextSequence \in 1 .. (MaxLogSequence - 1)
      BY <1>4 DEF LogTypes, ProgramRecord
    <2>5. /\ \/ phase' = "verify" /\ UNCHANGED <<nextSlot, nextSequence>>
             \/ FinishAppend
          /\ UNCHANGED <<activeSector, rollTarget, caller, acked, tainted>>
      BY <1>4 DEF ProgramRecord
    <2>6. QED
      BY <2>2, <2>3, <2>4, <2>5, LogAssumption DEF LogTypes, FinishAppend
  <1>5. ASSUME VerifyRecord
        PROVE  LogTypes'
    <2>1. faults' \in 0 .. MaxFaults
      BY <1>0, <1>5, FaultTypes DEF VerifyRecord
    <2>2. nextSlot \in 0 .. SlotCount /\ nextSlot < SlotCount
          /\ nextSequence \in 1 .. (MaxLogSequence - 1)
      BY <1>5 DEF LogTypes, VerifyRecord
    <2>3. /\ acked' \in {acked, nextSequence}
          /\ FinishAppend
          /\ UNCHANGED <<flash, activeSector, rollTarget, caller, tainted>>
      BY <1>5 DEF VerifyRecord
    <2>4. QED
      BY <2>1, <2>2, <2>3, LogAssumption DEF LogTypes, FinishAppend
  <1>6. ASSUME Crash
        PROVE  LogTypes'
    <2>1. flash' \in [Sector -> [LogSlot -> Cell]]
      <3>1. CASE phase = "erase"
        <4>1. \E f \in [LogSlot -> Cell] : flash' = [flash EXCEPT ![rollTarget] = f]
          BY <1>6, <3>1, ErasesTypes DEF Crash
        <4>2. QED
          BY <4>1 DEF LogTypes
      <3>2. CASE phase = "program"
        <4>1. \E c \in Cell : flash' = [flash EXCEPT ![activeSector][nextSlot] = c]
          BY <1>6, <3>2, ProgrammedTypes DEF Crash, SetSlot
        <4>2. QED
          BY <3>2, <4>1, SlotChanged, ProgrammedTypes DEF LogTypes
      <3>3. CASE phase \notin {"erase", "program"}
        BY <1>6, <3>3 DEF Crash, LogTypes
      <3>4. QED
        BY <3>1, <3>2, <3>3
    <2>2. QED
      BY <1>6, <2>1 DEF Crash, LogTypes
  <1>7. CASE UNCHANGED logVars
    BY <1>7 DEF logVars, LogTypes
  <1>8. QED
    BY <1>1, <1>2, <1>3, <1>4, <1>5, <1>6, <1>7 DEF LogNext

-----------------------------------------------------------------------------
(* The layout, as long as no flash operation has failed.                    *)
LEMMA TypesAreContents == LogTypes => flash \in Contents /\ acked \in Nat
  BY LogAssumption DEF LogTypes, Contents

(* Start-up goes on with the sector that is home. *)
LEMMA BootOfHome ==
  ASSUME LogTypes, NEW h \in Sector, NEW k \in 1 .. SlotCount, Home(flash, h, k, acked), Boot({})
  PROVE  /\ Above(flash, nextSequence') /\ acked < nextSequence'
         /\ k < SlotCount => activeSector' = h /\ nextSlot' = k /\ phase' = "idle"
         /\ k = SlotCount => phase' = "erase" /\ rollTarget' = 1 - h
  <1> DEFINE last(s) == LastSequence(s, {})
             next(s) == NextAvailableSlot(s, {})
             active == IF last(0) >= last(1) THEN 0 ELSE 1
  <1>1. /\ next(h) = k
        /\ ValidSlots(h, {}) # {}
        /\ last(h) > last(1 - h)
        /\ last(h) >= acked
        /\ Above(flash, last(h) + 1)
    BY ScanOfHome
  <1>2. last(h) \in Nat /\ last(1 - h) \in Nat /\ acked \in Nat
    BY OtherSector, ScanTypes, LogAssumption DEF LogTypes
  <1>3. /\ nextSequence' = last(active) + 1
        /\ \/ /\ next(active) < SlotCount
              /\ activeSector' = active
              /\ nextSlot' = next(active)
              /\ phase' = "idle"
           \/ /\ next(active) >= SlotCount
              /\ phase' = "erase" /\ rollTarget' = 1 - active
    BY <1>1 DEF Boot, RollToSector
  <1>4. h = 0 \/ h = 1
    BY DEF Sector
  <1> HIDE DEF last, next
  <1>5. active = h
    <2>1. CASE h = 0
      BY <1>1, <1>2, <2>1
    <2>2. CASE h = 1
      BY <1>1, <1>2, <2>2
    <2>3. QED
      BY <1>4, <2>1, <2>2
  <1> HIDE DEF active
  <1>6. Above(flash, nextSequence') /\ acked < nextSequence'
    BY <1>1, <1>2, <1>3, <1>5
  <1>7. QED
    BY <1>1, <1>3, <1>5, <1>6, LogAssumption

LEMMA BootLayout ==
  ASSUME LogTypes, LayoutInv, NEW u, Boot(u), u = {}
  PROVE  LayoutInv' /\ acked' < nextSequence'
  <1>1. /\ phase = "off" /\ flash' = flash /\ acked' = acked /\ acked \in Nat
    BY LogAssumption DEF Boot, LogTypes
  <1>2. CASE NoRecords(flash, acked)
    <2>1. \A s \in Sector : ValidSlots(s, {}) = {}
      BY <1>2 DEF NoRecords, ValidSlots, IsRecord
    <2>2. nextSequence' = 1 /\ phase' = "erase" /\ caller' = "init"
      BY <2>1 DEF Boot, RollToSector
    <2>3. NoRecords(flash', acked') /\ Above(flash', nextSequence') /\ acked' = 0
      BY <1>1, <1>2 DEF NoRecords, Above
    <2>4. QED
      BY <2>2, <2>3 DEF LayoutInv
  <1>3. ASSUME NEW h \in Sector, NEW k \in 1 .. SlotCount, Home(flash, h, k, acked)
        PROVE  LayoutInv' /\ acked' < nextSequence'
    <2>1. /\ Above(flash, nextSequence') /\ acked < nextSequence'
          /\ k < SlotCount => activeSector' = h /\ nextSlot' = k /\ phase' = "idle"
          /\ k = SlotCount => phase' = "erase" /\ rollTarget' = 1 - h
      BY <1>3, BootOfHome
    <2>2. Above(flash', nextSequence') /\ Home(flash', h, k, acked') /\ acked' < nextSequence'
      BY <1>1, <1>3, <2>1
    <2>3. CASE k < SlotCount
      <3>1. activeSector' = h /\ nextSlot' = k /\ phase' = "idle"
        BY <2>1, <2>3
      <3>2. Position(flash', h, k, acked')
        BY <2>2 DEF Position
      <3>3. QED
        BY <2>2, <3>1, <3>2 DEF LayoutInv
    <2>4. CASE k = SlotCount
      <3>1. phase' = "erase" /\ rollTarget' = 1 - h
        BY <2>1, <2>4
      <3>2. Home(flash', 1 - rollTarget', SlotCount, acked')
        BY <2>2, <2>4, <3>1, OtherSector
      <3>3. QED
        BY <2>2, <3>1, <3>2 DEF LayoutInv
    <2>5. QED
      BY <2>3, <2>4, LogAssumption
  <1>4. QED
    BY <1>1, <1>2, <1>3 DEF LayoutInv

LEMMA AppendLayout ==
  ASSUME LogTypes, LayoutInv, StartAppend
  PROVE  LayoutInv'
  <1>1. /\ phase = "idle" /\ UNCHANGED <<flash, acked, activeSector, nextSlot, nextSequence>>
        /\ activeSector \in Sector /\ nextSlot \in 0 .. SlotCount
    BY DEF StartAppend, LogTypes
  <1>2. Above(flash, nextSequence) /\ Position(flash, activeSector, nextSlot, acked)
    BY <1>1 DEF LayoutInv
  <1>3. CASE nextSlot >= SlotCount
    <2>1. phase' = "erase" /\ rollTarget' = 1 - activeSector
      BY <1>3, LogAssumption DEF StartAppend, RollToSector, LogTypes
    <2>2. nextSlot = SlotCount /\ nextSlot # 0
      BY <1>1, <1>3, LogAssumption
    <2>3. Home(flash', 1 - rollTarget', SlotCount, acked')
      BY <1>1, <1>2, <2>1, <2>2, OtherSector DEF Position
    <2>4. Above(flash', nextSequence')
      BY <1>1, <1>2
    <2>5. QED
      BY <2>1, <2>3, <2>4 DEF LayoutInv
  <1>4. CASE nextSlot < SlotCount
    <2>1. phase' = "program"
      BY <1>4, LogAssumption DEF StartAppend, LogTypes
    <2>2. Above(flash', nextSequence') /\ Position(flash', activeSector', nextSlot', acked')
      BY <1>1, <1>2
    <2>3. QED
      BY <2>1, <2>2 DEF LayoutInv
  <1>5. QED
    BY <1>1, <1>3, <1>4, LogAssumption

(* Whatever an erase leaves, it leaves the other sector alone and adds no   *)
(* record.                                                                  *)
LEMMA ErasedOnly ==
  ASSUME LogTypes,
         \/ \E f \in CutShortErases : flash' = [flash EXCEPT ![rollTarget] = f]
         \/ \E f \in WeakErases : flash' = [flash EXCEPT ![rollTarget] = f]
         \/ flash' = [flash EXCEPT ![rollTarget] = ErasedSector]
  PROVE  /\ flash' \in Contents
         /\ flash'[1 - rollTarget] = flash[1 - rollTarget]
         /\ \A s \in Sector, i \in LogSlot : IsRecord(flash', s, i) => flash'[s][i] = flash[s][i]
  <1>1. PICK f \in [LogSlot -> Cell] :
          /\ flash' = [flash EXCEPT ![rollTarget] = f]
          /\ \A i \in LogSlot : f[i] \in {Erased, Torn, flash[rollTarget][i]}
    <2>1. \A f \in CutShortErases : f \in [LogSlot -> Cell] /\
            \A i \in LogSlot : f[i] \in {Erased, Torn, flash[rollTarget][i]}
      BY ErasesTypes DEF CutShortErases
    <2>2. \A f \in WeakErases : f \in [LogSlot -> Cell] /\ \A i \in LogSlot : f[i] \in {Erased, Torn}
      BY ErasesTypes DEF WeakErases
    <2>3. ErasedSector \in [LogSlot -> Cell] /\ \A i \in LogSlot : ErasedSector[i] = Erased
      BY ErasesTypes, ErasedIsErased
    <2>4. QED
      BY <2>1, <2>2, <2>3
  <1>2. flash' \in Contents /\ flash'[1 - rollTarget] = flash[1 - rollTarget] /\ flash'[rollTarget] = f
    BY <1>1, OtherSector DEF LogTypes, Contents
  <1>3. rollTarget \in Sector
    BY DEF LogTypes
  <1>4. ASSUME NEW s \in Sector, NEW i \in LogSlot, IsRecord(flash', s, i)
        PROVE  flash'[s][i] = flash[s][i]
    <2>1. CASE s = rollTarget
      BY <1>1, <1>2, <1>4, <2>1 DEF IsRecord, Erased, Torn
    <2>2. CASE s = 1 - rollTarget
      BY <1>2, <2>2
    <2>3. QED
      BY <1>3, <2>1, <2>2, OneOrOther
  <1>5. QED
    BY <1>2, <1>4

LEMMA EraseLayout ==
  ASSUME LogTypes, LayoutInv, EraseTarget, ~Fault
  PROVE  LayoutInv'
  <1>1. /\ phase = "erase"
        /\ flash' = [flash EXCEPT ![rollTarget] = ErasedSector]
        /\ activeSector' = rollTarget /\ nextSlot' = 0
        /\ phase' \in {"idle", "program"}
        /\ UNCHANGED <<nextSequence, acked>>
    BY DEF EraseTarget
  <1>2. /\ flash' \in Contents
        /\ flash'[1 - rollTarget] = flash[1 - rollTarget]
        /\ \A s \in Sector, i \in LogSlot : IsRecord(flash', s, i) => flash'[s][i] = flash[s][i]
    BY <1>1, ErasedOnly
  <1>3. /\ Above(flash, nextSequence)
        /\ Home(flash, 1 - rollTarget, SlotCount, acked) \/ NoRecords(flash, acked)
    BY <1>1 DEF LayoutInv
  <1>4. rollTarget \in Sector /\ 1 - rollTarget \in Sector /\ 1 - (1 - rollTarget) = rollTarget
    BY OtherSector DEF LogTypes
  <1>5. flash \in Contents /\ acked \in Nat
    BY TypesAreContents
  <1>6. Above(flash', nextSequence')
    <2>1. Above(flash', nextSequence)
      BY <1>2, <1>3, AboveWithLess
    <2>2. QED
      BY <1>1, <2>1
  <1>7. Home(flash', 1 - rollTarget, SlotCount, acked) \/ NoRecords(flash', acked)
    <2>1. CASE Home(flash, 1 - rollTarget, SlotCount, acked)
      BY <1>2, <1>4, <1>5, <2>1, HomeWithLess, LogAssumption
    <2>2. CASE NoRecords(flash, acked)
      BY <1>2, <2>2, NothingWithLess
    <2>3. QED
      BY <1>3, <2>1, <2>2
  <1>8. flash'[rollTarget] = ErasedSector
    BY <1>1, <1>4 DEF LogTypes
  <1>9. Position(flash', activeSector', nextSlot', acked')
    BY <1>1, <1>7, <1>8 DEF Position, Rolled
  <1>10. QED
    BY <1>1, <1>6, <1>9 DEF LayoutInv

LEMMA ProgramFacts ==
  ASSUME LogTypes, LayoutInv, phase = "program"
  PROVE  /\ nextSlot \in LogSlot /\ activeSector \in Sector
         /\ nextSequence \in 1 .. (MaxLogSequence - 1)
         /\ flash \in Contents /\ acked \in Nat
         /\ Above(flash, nextSequence)
         /\ Position(flash, activeSector, nextSlot, acked)
         /\ flash[activeSector][nextSlot] \in {Erased, Smudged}
         /\ Programmed = Filling(flash, activeSector, nextSlot, nextSequence)
  <1>1. /\ nextSlot \in LogSlot /\ activeSector \in Sector
        /\ nextSequence \in 1 .. (MaxLogSequence - 1)
        /\ flash \in Contents /\ acked \in Nat
    BY ProgrammedTypes, TypesAreContents DEF LogTypes
  <1>2. Above(flash, nextSequence) /\ Position(flash, activeSector, nextSlot, acked)
    BY DEF LayoutInv
  <1>3. QED
    BY <1>1, <1>2, PositionIsBlank DEF Programmed, Filling

LEMMA ProgramLayout ==
  ASSUME LogTypes, LayoutInv, ProgramRecord, ~Fault
  PROVE  LayoutInv'
  <1>1. /\ phase = "program" /\ SetSlot(Programmed) /\ phase' = "verify"
        /\ UNCHANGED <<nextSlot, nextSequence, activeSector, acked>>
    BY DEF ProgramRecord
  <1>2. flash' = [flash EXCEPT ![activeSector][nextSlot] =
                    Filling(flash, activeSector, nextSlot, nextSequence)]
    BY <1>1, ProgramFacts, Zenon DEF SetSlot
  <1>3. flash' \in Contents
    <2>1. LogTypes'
      BY LogTypesStep DEF LogNext
    <2>2. QED
      BY <2>1 DEF LogTypes, Contents
  <1>4. Home(flash', activeSector, nextSlot + 1, acked) /\ Above(flash', nextSequence + 1)
    BY <1>1, <1>2, <1>3, ProgramFacts, HomeAfterProgram
  <1>5. QED
    BY <1>1, <1>4 DEF LayoutInv

LEMMA VerifyLayout ==
  ASSUME LogTypes, LayoutInv, VerifyRecord
  PROVE  LayoutInv'
  <1>1. /\ phase = "verify" /\ phase' = "idle" /\ UNCHANGED <<flash, activeSector>>
        /\ nextSlot' = nextSlot + 1 /\ nextSequence' = nextSequence + 1
        /\ \/ acked' = acked
           \/ acked' = nextSequence /\ flash[activeSector][nextSlot] = Record(nextSequence)
    BY DEF VerifyRecord, FinishAppend
  <1>2. Home(flash, activeSector, nextSlot + 1, acked) /\ Above(flash, nextSequence + 1)
    BY <1>1 DEF LayoutInv
  <1>3. Home(flash', activeSector', nextSlot', acked')
    <2>1. CASE acked' = acked
      BY <1>1, <1>2, <2>1
    <2>2. CASE acked' = nextSequence /\ flash[activeSector][nextSlot] = Record(nextSequence)
      <3>1. nextSlot \in LogSlot /\ nextSequence \in Nat
        BY <1>1, SlotFacts, LogAssumption DEF LogTypes
      <3>2. IsRecord(flash, activeSector, nextSlot)
              /\ flash[activeSector][nextSlot].sequence = nextSequence
        BY <2>2 DEF IsRecord, Record
      <3>3. \E i \in LogSlot : IsRecord(flash, activeSector, i)
                                 /\ flash[activeSector][i].sequence >= nextSequence
        BY <3>1, <3>2
      <3>4. Home(flash, activeSector, nextSlot + 1, nextSequence)
        BY <1>2, <3>3 DEF Home, Newest, InOrder, Newer
      <3>5. QED
        BY <1>1, <2>2, <3>4
    <2>3. QED
      BY <1>1, <2>1, <2>2
  <1>4. QED
    BY <1>1, <1>2, <1>3 DEF LayoutInv, Position

LEMMA CrashLayout ==
  ASSUME LogTypes, LayoutInv, Crash
  PROVE  LayoutInv'
  <1> DEFINE Fine == \/ NoRecords(flash', acked)
                     \/ \E h \in Sector, k \in 1 .. SlotCount : Home(flash', h, k, acked)
  <1>1. /\ phase # "off" /\ phase' = "off" /\ acked' = acked
    BY DEF Crash
  <1>2. SUFFICES Fine
    BY <1>1 DEF LayoutInv
  <1>3. flash \in Contents /\ acked \in Nat /\ activeSector \in Sector /\ nextSlot \in 0 .. SlotCount
    BY TypesAreContents DEF LogTypes
  <1>4. 1 - activeSector \in Sector /\ SlotCount \in 1 .. SlotCount /\ SlotCount \in Nat
    BY <1>3, OtherSector, LogAssumption
  <1>5. CASE phase = "erase"
    <2>1. /\ flash' \in Contents
          /\ flash'[1 - rollTarget] = flash[1 - rollTarget]
          /\ \A s \in Sector, i \in LogSlot : IsRecord(flash', s, i) => flash'[s][i] = flash[s][i]
      BY <1>5, ErasedOnly DEF Crash
    <2>2. Home(flash, 1 - rollTarget, SlotCount, acked) \/ NoRecords(flash, acked)
      BY <1>5 DEF LayoutInv
    <2>3. rollTarget \in Sector /\ 1 - rollTarget \in Sector /\ 1 - (1 - rollTarget) = rollTarget
      BY OtherSector DEF LogTypes
    <2>4. CASE Home(flash, 1 - rollTarget, SlotCount, acked)
      <3>1. Home(flash', 1 - rollTarget, SlotCount, acked)
        BY <1>3, <1>4, <2>1, <2>3, <2>4, HomeWithLess
      <3>2. QED
        BY <1>4, <2>3, <3>1
    <2>5. CASE NoRecords(flash, acked)
      BY <2>1, <2>5, NothingWithLess
    <2>6. QED
      BY <2>2, <2>4, <2>5
  <1>6. CASE phase = "program"
    <2>1. PICK c \in CutShortPrograms : flash' = [flash EXCEPT ![activeSector][nextSlot] = c]
      BY <1>6 DEF Crash, SetSlot
    <2>2. /\ nextSlot \in LogSlot /\ c \in Cell
      BY <1>6, ProgrammedTypes
    <2>3. /\ flash' \in Contents
          /\ flash'[activeSector][nextSlot] = c
          /\ \A i \in LogSlot : i # nextSlot => flash'[activeSector][i] = flash[activeSector][i]
          /\ flash'[1 - activeSector] = flash[1 - activeSector]
      <3>1. LogTypes'
        BY LogTypesStep DEF LogNext
      <3>2. flash' \in Contents
        BY <3>1 DEF LogTypes, Contents
      <3>3. QED
        BY <1>3, <2>1, <2>2, <3>2, OtherSector DEF Contents
    <2>4. nextSlot \in Nat /\ nextSlot + 1 \in 1 .. SlotCount
      BY <2>2, LogAssumption DEF LogSlot
    <2>5. CASE c = Programmed
      <3>1. flash' = [flash EXCEPT ![activeSector][nextSlot] =
                        Filling(flash, activeSector, nextSlot, nextSequence)]
        BY <1>6, <2>1, <2>5, ProgramFacts, Zenon
      <3>2. Home(flash', activeSector, nextSlot + 1, acked)
        BY <1>6, <2>3, <3>1, ProgramFacts, HomeAfterProgram
      <3>3. QED
        BY <1>3, <2>4, <3>2
    <2>6. CASE c # Programmed
      <3>1. c \in {Erased, Smudged, Torn}
        BY <1>6, <2>6, ProgramFacts DEF CutShortPrograms
      <3>2. ~IsRecord(flash', activeSector, nextSlot)
        BY <2>3, <3>1 DEF IsRecord, Erased, Smudged, Torn
      <3>3. \A s \in Sector, i \in LogSlot : IsRecord(flash', s, i) => flash'[s][i] = flash[s][i]
        BY <1>3, <2>3, <3>2, OneOrOther
      <3>4. CASE NoRecords(flash, acked)
        BY <3>3, <3>4, NothingWithLess
      <3>5. CASE nextSlot = 0 /\ Home(flash, 1 - activeSector, SlotCount, acked)
        <4>1. Home(flash', 1 - activeSector, SlotCount, acked)
          BY <1>3, <1>4, <2>3, <3>3, <3>5, HomeWithLess, OtherSector
        <4>2. QED
          BY <1>4, <4>1
      <3>6. CASE Home(flash, activeSector, nextSlot, acked)
        <4>1. Newest(flash', activeSector, acked)
          <5>1. ~IsRecord(flash, activeSector, nextSlot)
            BY <1>6, ProgramFacts DEF IsRecord, Erased, Smudged
          <5>2. \A i \in LogSlot : IsRecord(flash', activeSector, i) =>
                  IsRecord(flash, activeSector, i) /\ flash'[activeSector][i] = flash[activeSector][i]
            BY <2>3, <3>2 DEF IsRecord
          <5>3. \A i \in LogSlot : IsRecord(flash, activeSector, i) =>
                  IsRecord(flash', activeSector, i) /\ flash'[activeSector][i] = flash[activeSector][i]
            BY <2>3, <5>1 DEF IsRecord
          <5>4. \A i \in LogSlot : IsRecord(flash', 1 - activeSector, i) =>
                  /\ IsRecord(flash, 1 - activeSector, i)
                  /\ flash'[1 - activeSector][i] = flash[1 - activeSector][i]
            BY <2>3 DEF IsRecord
          <5>5. Newest(flash, activeSector, acked)
            BY <3>6 DEF Home
          <5>6. QED
            BY <5>2, <5>3, <5>4, <5>5, Zenon DEF Newest, InOrder, Newer
        <4>2. /\ nextSlot > 0 /\ 0 \in LogSlot /\ IsRecord(flash', activeSector, 0)
              /\ LogSlot \subseteq Nat
          BY <2>3, <3>6, SlotFacts DEF Home, Used, IsRecord
        <4>3. CASE c = Torn
          <5>1. \A i \in LogSlot : i = nextSlot + 1 => flash'[activeSector][i].kind = "erased"
            BY <2>3, <2>4, <3>6 DEF Home, Used, Erased
          <5>2. \A i \in LogSlot : i > nextSlot + 1 => flash'[activeSector][i] = Erased
            <6>1. \A i \in LogSlot : i > nextSlot + 1 => i > nextSlot /\ i # nextSlot
              BY <2>4, <4>2
            <6>2. QED
              BY <2>3, <3>6, <6>1 DEF Home, Used
          <5>3. \A i \in LogSlot : i < nextSlot + 1 =>
                  flash'[activeSector][i].kind \in {"torn", "record"}
            <6>1. Torn.kind = "torn"
              BY DEF Torn
            <6>2. \A i \in LogSlot : i < nextSlot + 1 => i = nextSlot \/ (i < nextSlot /\ i # nextSlot)
              BY <2>4, <4>2
            <6>3. QED
              BY <2>3, <3>6, <4>3, <6>1, <6>2 DEF Home, Used
          <5>4. Used(flash', activeSector, nextSlot + 1)
            BY <2>4, <4>2, <5>1, <5>2, <5>3 DEF Used
          <5>5. QED
            BY <1>3, <2>4, <4>1, <5>4 DEF Home
        <4>4. CASE c # Torn
          <5>1. c.kind \in {"erased", "smudged"}
            BY <3>1, <4>4 DEF Erased, Smudged
          <5>2. Used(flash', activeSector, nextSlot)
            BY <2>3, <2>4, <3>6, <4>2, <5>1 DEF Home, Used
          <5>3. nextSlot \in 1 .. SlotCount
            BY <1>3, <4>2, LogAssumption
          <5>4. QED
            BY <1>3, <4>1, <5>2, <5>3 DEF Home
        <4>5. QED
          BY <4>3, <4>4
      <3>7. QED
        BY <1>6, <3>4, <3>5, <3>6, ProgramFacts DEF Position, Rolled
    <2>7. QED
      BY <2>5, <2>6
  <1>7. CASE phase = "idle"
    <2>1. flash' = flash
      BY <1>7 DEF Crash
    <2>2. Position(flash, activeSector, nextSlot, acked)
      BY <1>7 DEF LayoutInv
    <2>3. CASE Home(flash, activeSector, nextSlot, acked)
      <3>1. nextSlot \in 1 .. SlotCount
        BY <1>3, <2>3, LogAssumption DEF Home, Used
      <3>2. QED
        BY <1>3, <2>1, <2>3, <3>1
    <2>4. CASE Rolled(flash, activeSector, acked)
      BY <1>3, <1>4, <2>1, <2>4 DEF Rolled
    <2>5. QED
      BY <2>2, <2>3, <2>4 DEF Position
  <1>8. CASE phase = "verify"
    <2>1. flash' = flash
      BY <1>8 DEF Crash
    <2>2. Home(flash, activeSector, nextSlot + 1, acked)
      BY <1>8 DEF LayoutInv
    <2>3. nextSlot + 1 \in 1 .. SlotCount
      BY <1>8, LogAssumption DEF LogTypes
    <2>4. QED
      BY <1>3, <2>1, <2>2, <2>3
  <1>9. QED
    BY <1>1, <1>5, <1>6, <1>7, <1>8 DEF LayoutInv, LogTypes

-----------------------------------------------------------------------------
(* The inductive invariant and what follows from it. *)
LEMMA SessionStep == LogInv /\ [LogNext]_logVars => SessionInv'
  <1> SUFFICES ASSUME LogInv, [LogNext]_logVars, phase' # "off", ~tainted'
               PROVE  acked' < nextSequence'
    BY DEF SessionInv
  <1>0. LogTypes /\ acked \in Nat /\ nextSequence \in Nat /\ faults \in 0 .. MaxFaults
    BY LogAssumption DEF LogInv, LogTypes
  <1>1. ASSUME NEW u \in {{}} \cup OneSlot, Boot(u)
        PROVE  acked' < nextSequence'
    <2>1. faults' = 0
      <3>1. tainted' = (faults' > 0)
        BY <1>1 DEF Boot
      <3>2. faults' \in 0 .. MaxFaults
        BY <1>0, <1>1, FaultTypes DEF Boot
      <3>3. ~(faults' > 0)
        BY <3>1, Zenon
      <3>4. QED
        BY <3>2, <3>3, LogAssumption
    <2>2. u = {} /\ faults = 0
      BY <1>0, <1>1, <2>1, FaultTypes DEF Boot
    <2>3. QED
      BY <1>0, <1>1, <2>2, BootLayout DEF LogInv
  <1>2. ASSUME ~\E u \in {{}} \cup OneSlot : Boot(u)
        PROVE  acked' < nextSequence'
    <2>1. phase # "off" /\ tainted' = tainted
      BY <1>2 DEF LogNext, StartAppend, EraseTarget, ProgramRecord, VerifyRecord, Crash, logVars
    <2>2. acked < nextSequence
      BY <2>1 DEF LogInv, SessionInv, LogTypes
    <2>3. \/ acked' = acked /\ nextSequence' = nextSequence
          \/ acked' \in {acked, nextSequence} /\ nextSequence' = nextSequence + 1
      BY <1>2 DEF LogNext, StartAppend, EraseTarget, ProgramRecord, VerifyRecord, FinishAppend, Crash,
                  logVars
    <2>4. QED
      BY <1>0, <2>2, <2>3
  <1>3. QED
    BY <1>1, <1>2

LEMMA LayoutStep ==
  ASSUME LogTypes, LayoutInv, faults = 0, faults' = 0, [LogNext]_logVars
  PROVE  LayoutInv'
  <1>0. ~Fault
    BY DEF Fault
  <1>1. ASSUME NEW u, Boot(u)
        PROVE  LayoutInv'
    <2>1. u = {}
      BY <1>0, <1>1 DEF Boot
    <2>2. QED
      BY <1>1, <2>1, BootLayout
  <1>2. CASE UNCHANGED logVars
    BY <1>2 DEF logVars, LayoutInv
  <1>3. QED
    BY <1>0, <1>1, <1>2, AppendLayout, EraseLayout, ProgramLayout, VerifyLayout, CrashLayout
       DEF LogNext

LEMMA LogInvInit == LogInit => LogInv
  <1> SUFFICES ASSUME LogInit
               PROVE  LogInv
    OBVIOUS
  <1>1. LogTypes
    <2>1. Erased \in Cell /\ 0 \in Sector
      BY DEF Cell, Sector
    <2>2. flash \in [Sector -> [LogSlot -> Cell]]
      BY <2>1 DEF LogInit
    <2>3. tainted \in BOOLEAN
      BY Zenon DEF LogInit
    <2>4. /\ nextSlot \in 0 .. SlotCount
          /\ nextSequence \in 0 .. MaxLogSequence
          /\ acked \in 0 .. MaxLogSequence
          /\ faults \in 0 .. MaxFaults
      BY LogAssumption DEF LogInit
    <2>5. activeSector \in Sector /\ rollTarget \in Sector /\ phase = "off" /\ caller = "none"
      BY <2>1 DEF LogInit
    <2>6. QED
      BY <2>2, <2>3, <2>4, <2>5 DEF LogTypes
  <1>2. NoRecords(flash, acked)
    BY DEF LogInit, NoRecords, IsRecord, Erased
  <1>3. QED
    BY <1>1, <1>2 DEF LogInv, LogInit, LayoutInv, SessionInv

LEMMA LogInvStep == LogInv /\ [LogNext]_logVars => LogInv'
  <1> SUFFICES ASSUME LogInv, [LogNext]_logVars
               PROVE  LogInv'
    OBVIOUS
  <1>1. LogTypes /\ LogTypes'
    BY LogTypesStep DEF LogInv
  <1>2. faults' = 0 => faults = 0
    <2>1. faults' = faults \/ Fault
      BY DEF LogNext, Boot, StartAppend, EraseTarget, ProgramRecord, VerifyRecord, Crash, logVars
    <2>2. QED
      BY <1>1, <2>1, FaultTypes DEF LogTypes
  <1>3. faults' = 0 => LayoutInv'
    BY <1>1, <1>2, LayoutStep DEF LogInv
  <1>4. SessionInv'
    BY SessionStep
  <1>5. QED
    BY <1>1, <1>3, <1>4 DEF LogInv

LEMMA LogInvariance == LogSpec => []LogInv
  <1>1. QED
    BY LogInvInit, LogInvStep, PTL DEF LogSpec

(* The state of the log has its type: in particular the position never      *)
(* passes the end of a sector, whatever the flash does to erases, programs  *)
(* and reads.                                                               *)
THEOREM LogTypeCorrect == LogSpec => []LogTypeOK
  <1>1. LogInv => LogTypeOK
    BY LogTypesSuffice DEF LogInv
  <1>2. QED
    BY <1>1, LogInvariance, PTL

LEMMA SomethingKept ==
  ASSUME LogTypes, LayoutInv
  PROVE  acked = 0 \/ \E h \in Sector, i \in LogSlot :
                        IsRecord(flash, h, i) /\ flash[h][i].sequence >= acked
  <1>1. \A h, k : Home(flash, h, k, acked) =>
          \E i \in LogSlot : IsRecord(flash, h, i) /\ flash[h][i].sequence >= acked
    BY DEF Home, Newest, InOrder, Newer
  <1>2. activeSector \in Sector /\ 1 - activeSector \in Sector /\ 1 - rollTarget \in Sector
    BY OtherSector DEF LogTypes
  <1>3. \/ NoRecords(flash, acked)
        \/ \E h \in Sector, k \in Nat : Home(flash, h, k, acked)
    <2>1. SlotCount \in Nat /\ nextSlot \in Nat /\ nextSlot + 1 \in Nat /\ 1 .. SlotCount \subseteq Nat
      BY LogAssumption DEF LogTypes
    <2>2. QED
      BY <1>2, <2>1 DEF LayoutInv, LogTypes, Position, Rolled
  <1>4. QED
    BY <1>1, <1>3 DEF NoRecords

(* Without flash faults the last acknowledged record, or a newer one, is in *)
(* flash wherever power has failed, for sectors of any size.                *)
THEOREM NeverFallsBehindHolds == LogSpec => []NeverFallsBehind
  <1>1. LogInv => NeverFallsBehind
    <2> SUFFICES ASSUME LogInv, faults = 0, acked # 0
                 PROVE  \E n \in Retained : n >= acked
      BY DEF NeverFallsBehind
    <2>1. PICK h \in Sector, i \in LogSlot : IsRecord(flash, h, i) /\ flash[h][i].sequence >= acked
      BY SomethingKept DEF LogInv
    <2>2. flash[h][i] \in Cell
      BY DEF LogInv, LogTypes
    <2>3. flash[h][i].sequence # 0
      BY <2>1, <2>2, CellFacts, LogAssumption DEF IsRecord
    <2>4. flash[h][i].sequence \in Retained
      BY <2>3 DEF Retained
    <2>5. QED
      BY <2>1, <2>4
  <1>2. QED
    BY <1>1, LogInvariance, PTL

(* Acknowledged sequence numbers only grow, across start-ups, until one of  *)
(* them has scanned a flash that a fault had touched.                       *)
THEOREM SequenceAdvancesHolds == LogSpec => SequenceAdvances
  <1>1. LogInv /\ [LogNext]_logVars => [acked' # acked /\ ~tainted => acked' > acked]_logVars
    <2> SUFFICES ASSUME LogInv, LogNext, acked' # acked, ~tainted
                 PROVE  acked' > acked
      BY DEF logVars
    <2>1. VerifyRecord
      BY DEF LogNext, Boot, StartAppend, EraseTarget, ProgramRecord, Crash
    <2>2. acked' = nextSequence /\ phase = "verify"
      BY <2>1 DEF VerifyRecord
    <2>3. acked < nextSequence /\ acked \in Nat /\ nextSequence \in Nat
      BY <2>2, LogAssumption DEF LogInv, LogTypes, SessionInv
    <2>4. QED
      BY <2>2, <2>3
  <1>2. QED
    BY <1>1, LogInvariance, PTL DEF LogSpec, SequenceAdvances

(* Records leave the flash only with the sector that is rolled to, and then *)
(* the other sector is full and newer throughout, however an erase ends.    *)
THEOREM LosesOnlyOldestHolds == LogSpec => LosesOnlyOldest
  <1>1. ASSUME LogInv, LogNext, faults = 0,
               NEW n \in Retained \ Retained', NEW i \in LogSlot
        PROVE  /\ flash'[1 - rollTarget][i] # Erased
               /\ flash'[1 - rollTarget][i].kind = "record" => n < flash'[1 - rollTarget][i].sequence
    <2>0. LogTypes /\ LayoutInv
      BY <1>1 DEF LogInv
    <2>1. PICK s \in Sector, j \in LogSlot : n = flash[s][j].sequence /\ n # 0
      BY <1>1 DEF Retained
    <2>2. flash[s][j] \in Cell
      BY <2>0 DEF LogTypes
    <2>3. IsRecord(flash, s, j)
      BY <2>1, <2>2, CellFacts DEF IsRecord
    <2>4. flash'[s][j] # flash[s][j]
      BY <1>1, <2>1 DEF Retained
    <2>5. phase # "program"
      <3> SUFFICES ASSUME phase = "program"
                   PROVE  FALSE
        OBVIOUS
      <3>1. PICK c \in Cell : flash' = [flash EXCEPT ![activeSector][nextSlot] = c]
        BY <1>1, <2>0, ProgrammedTypes
           DEF LogNext, Boot, StartAppend, EraseTarget, ProgramRecord, VerifyRecord, Crash, SetSlot
      <3>2. /\ activeSector \in Sector /\ nextSlot \in LogSlot
            /\ flash \in [Sector -> [LogSlot -> Cell]]
            /\ flash[activeSector][nextSlot] \in {Erased, Smudged}
        BY <2>0, ProgramFacts DEF Contents
      <3>3. <<s, j>> # <<activeSector, nextSlot>>
        BY <2>3, <3>2 DEF IsRecord, Erased, Smudged
      <3>4. s = activeSector \/ s = 1 - activeSector
        BY <3>2, OneOrOther
      <3>5. /\ \A k \in LogSlot : k # nextSlot => flash'[activeSector][k] = flash[activeSector][k]
            /\ flash'[1 - activeSector] = flash[1 - activeSector]
        BY <3>1, <3>2, OtherSector
      <3>6. QED
        BY <2>4, <3>3, <3>4, <3>5
    <2>6. /\ phase = "erase"
          /\ \/ \E f \in CutShortErases : flash' = [flash EXCEPT ![rollTarget] = f]
             \/ \E f \in WeakErases : flash' = [flash EXCEPT ![rollTarget] = f]
             \/ flash' = [flash EXCEPT ![rollTarget] = ErasedSector]
      <3>1. flash' # flash
        BY <2>4
      <3>2. QED
        BY <1>1, <2>5, <3>1
           DEF LogNext, Boot, StartAppend, EraseTarget, ProgramRecord, VerifyRecord, Crash
    <2>7. /\ flash'[1 - rollTarget] = flash[1 - rollTarget]
          /\ rollTarget \in Sector
      BY <2>0, <2>6, ErasedOnly DEF LogTypes
    <2>8. s = rollTarget
      BY <2>4, <2>7, OneOrOther
    <2>9. Home(flash, 1 - rollTarget, SlotCount, acked)
      BY <2>0, <2>3, <2>6 DEF LayoutInv, NoRecords
    <2>10. flash[1 - rollTarget][i] # Erased
      BY <2>9, LogAssumption DEF Home, Used, Erased, LogSlot
    <2>11. IsRecord(flash, 1 - rollTarget, i) => n < flash[1 - rollTarget][i].sequence
      <3>1. 1 - (1 - rollTarget) = rollTarget
        BY <2>7, OtherSector
      <3>2. QED
        BY <2>1, <2>3, <2>8, <2>9, <3>1 DEF Home, Newest, InOrder, Newer
    <2>12. QED
      BY <2>7, <2>10, <2>11 DEF IsRecord
  <1>2. LogInv /\ [LogNext]_logVars =>
          [\A n \in Retained \ Retained', i \in LogSlot : faults = 0 =>
             LET kept == flash'[1 - rollTarget][i] IN
             /\ kept # Erased
             /\ kept.kind = "record" => n < kept.sequence]_logVars
    BY <1>1
  <1>3. QED
    BY <1>2, LogInvariance, PTL DEF LogSpec, LosesOnlyOldest

-----------------------------------------------------------------------------
(***************************************************************************)
(* What readers get.  The numbers of a finite set have ranks, so counting   *)
(* down through the slots visits each of them once, the largest first.      *)
(***************************************************************************)
(* Each number of a finite set has its place, counted from the largest.     *)
LEMMA Ranks ==
  ASSUME NEW S \in SUBSET Nat, IsFiniteSet(S)
  PROVE  /\ Cardinality(S) \in Nat
         /\ \A i \in S : Cardinality({j \in S : j > i}) \in 0 .. (Cardinality(S) - 1)
         /\ \A i, k \in S : i < k =>
              Cardinality({j \in S : j > k}) < Cardinality({j \in S : j > i})
         /\ \A m \in 0 .. (Cardinality(S) - 1) : \E i \in S : Cardinality({j \in S : j > i}) = m
  <1> DEFINE Over(i) == {j \in S : j > i}
             n == Cardinality(S)
             rank == [i \in S |-> Cardinality(Over(i))]
  <1>1. n \in Nat
    BY FS_CardinalityType
  <1>2. ASSUME NEW i \in S
        PROVE  IsFiniteSet(Over(i)) /\ Cardinality(Over(i)) \in 0 .. (n - 1)
    <2>1. /\ IsFiniteSet(Over(i))
          /\ Cardinality(Over(i)) <= n
          /\ n = Cardinality(Over(i)) => S = Over(i)
      <3>1. Over(i) \in SUBSET S
        OBVIOUS
      <3> HIDE DEF Over
      <3>2. QED
        BY <3>1, FS_Subset
    <2>2. i \notin Over(i)
      OBVIOUS
    <2>3. Cardinality(Over(i)) \in Nat
      BY <2>1, FS_CardinalityType
    <2> HIDE DEF Over
    <2>4. QED
      BY <1>1, <2>1, <2>2, <2>3
  <1>3. ASSUME NEW i \in S, NEW k \in S, i < k
        PROVE  Cardinality(Over(k)) < Cardinality(Over(i))
    <2>1. Over(k) \in SUBSET Over(i) /\ k \in Over(i) /\ k \notin Over(k)
      <3>1. i \in Nat /\ k \in Nat /\ \A j \in S : j \in Nat /\ (j > k => j > i)
        BY <1>3
      <3>2. k > i /\ ~(k > k)
        BY <1>3, <3>1
      <3>3. QED
        BY <3>1, <3>2
    <2>2. IsFiniteSet(Over(i)) /\ Cardinality(Over(i)) \in Nat /\ Cardinality(Over(k)) \in Nat
      BY <1>2
    <2> HIDE DEF Over
    <2>3. Cardinality(Over(k)) <= Cardinality(Over(i)) /\ Cardinality(Over(k)) # Cardinality(Over(i))
      BY <2>1, <2>2, FS_Subset
    <2>4. QED
      BY <2>2, <2>3
  <1> HIDE DEF n, Over
  <1>4. rank \in Injection(S, 0 .. (n - 1))
    <2>1. rank \in [S -> 0 .. (n - 1)]
      BY <1>2
    <2>2. ASSUME NEW i \in S, NEW k \in S, rank[i] = rank[k]
          PROVE  i = k
      <3>1. Cardinality(Over(i)) = Cardinality(Over(k)) /\ Cardinality(Over(i)) \in Nat
        BY <1>2, <2>2
      <3>2. ~(i < k) /\ ~(k < i)
        BY <1>3, <3>1
      <3>3. QED
        BY <3>2
    <2>3. QED
      BY <2>1, <2>2 DEF Injection, IsInjective
  <1>5. IsFiniteSet(0 .. (n - 1)) /\ Cardinality(0 .. (n - 1)) = n
    BY <1>1, FS_Interval
  <1>6. rank \in Surjection(S, 0 .. (n - 1))
    BY <1>4, <1>5, FS_Injection DEF n
  <1>7. \A m \in 0 .. (n - 1) : \E i \in S : Cardinality(Over(i)) = m
    BY <1>6 DEF Surjection
  <1>8. QED
    BY <1>1, <1>2, <1>3, <1>7 DEF n, Over

(* Descending(S) goes through S once, the largest first. *)
LEMMA DescendingFacts ==
  ASSUME NEW S \in SUBSET Nat, IsFiniteSet(S)
  PROVE  /\ Cardinality(S) \in Nat
         /\ DOMAIN Descending(S) = 1 .. Cardinality(S)
         /\ \A k \in 1 .. Cardinality(S) : Descending(S)[k] \in S
         /\ \A k, l \in 1 .. Cardinality(S) : k < l => Descending(S)[k] > Descending(S)[l]
         /\ \A i \in S : \E k \in 1 .. Cardinality(S) : Descending(S)[k] = i
  <1> DEFINE Rank(i) == Cardinality({j \in S : j > i})
             n == Cardinality(S)
             D == Descending(S)
  <1>1. /\ n \in Nat
        /\ \A i \in S : Rank(i) \in 0 .. (n - 1)
        /\ \A i, k \in S : i < k => Rank(k) < Rank(i)
        /\ \A m \in 0 .. (n - 1) : \E i \in S : Rank(i) = m
    BY Ranks
  <1>2. D = [k \in 1 .. n |-> CHOOSE i \in S : Rank(i) = k - 1]
    BY DEF Descending
  <1> HIDE DEF Rank, n, D
  <1>3. \A k \in 1 .. n : D[k] \in S /\ Rank(D[k]) = k - 1
    <2> SUFFICES ASSUME NEW k \in 1 .. n
                 PROVE  D[k] \in S /\ Rank(D[k]) = k - 1
      OBVIOUS
    <2>1. k - 1 \in 0 .. (n - 1)
      BY <1>1
    <2>2. \E i \in S : Rank(i) = k - 1
      BY <1>1, <2>1
    <2>3. D[k] = CHOOSE i \in S : Rank(i) = k - 1
      BY <1>2
    <2>4. QED
      BY <2>2, <2>3
  <1>4. ASSUME NEW k \in 1 .. n, NEW l \in 1 .. n, k < l
        PROVE  D[k] > D[l]
    <2>1. Rank(D[k]) < Rank(D[l]) /\ D[k] \in Nat /\ D[l] \in Nat
      <3>1. Rank(D[k]) = k - 1 /\ Rank(D[l]) = l - 1 /\ D[k] \in S /\ D[l] \in S
        BY <1>3
      <3>2. k - 1 < l - 1
        BY <1>1, <1>4
      <3>3. QED
        BY <3>1, <3>2
    <2>2. D[k] # D[l]
      BY <1>1, <1>3, <1>4
    <2>3. ~(D[k] < D[l])
      <3>1. Rank(D[k]) \in Nat /\ Rank(D[l]) \in Nat
        BY <1>1, <1>3
      <3>2. QED
        BY <1>1, <1>3, <2>1, <3>1
    <2>4. QED
      BY <2>1, <2>2, <2>3
  <1>5. ASSUME NEW i \in S
        PROVE  \E k \in 1 .. n : D[k] = i
    <2>1. Rank(i) + 1 \in 1 .. n /\ (Rank(i) + 1) - 1 = Rank(i)
      BY <1>1
    <2>2. PICK x \in S : x = D[Rank(i) + 1] /\ Rank(x) = Rank(i)
      BY <1>3, <2>1
    <2>3. Rank(i) \in Nat /\ x \in Nat /\ i \in Nat
      BY <1>1
    <2>4. ~(Rank(x) < Rank(i)) /\ ~(Rank(i) < Rank(x))
      BY <2>2, <2>3
    <2>5. ~(x < i) /\ ~(i < x)
      BY <1>1, <2>4
    <2>6. x = i
      BY <2>3, <2>5
    <2>7. QED
      BY <2>1, <2>2, <2>6
  <1>6. QED
    BY <1>1, <1>2, <1>3, <1>4, <1>5 DEF n, D

(* Falling sequences: their elements differ, the beginning of one holds its *)
(* greatest elements, and two of them may be put one after the other.       *)
Falls(q) == \A i, j \in 1 .. Len(q) : i < j => q[i] > q[j]

LEMMA CountOfFalling ==
  ASSUME NEW q \in Seq(Nat), Falls(q)
  PROVE  /\ IsFiniteSet(ToSet(q))
         /\ Cardinality(ToSet(q)) = Len(q)
  <1>1. Len(q) \in Nat /\ DOMAIN q = 1 .. Len(q) /\ q \in [1 .. Len(q) -> Nat]
    OBVIOUS
  <1>2. q \in [1 .. Len(q) -> ToSet(q)]
    BY <1>1 DEF ToSet
  <1>3. \A i, j \in 1 .. Len(q) : q[i] = q[j] => i = j
    <2> SUFFICES ASSUME NEW i \in 1 .. Len(q), NEW j \in 1 .. Len(q), q[i] = q[j]
                 PROVE  i = j
      OBVIOUS
    <2>1. q[i] \in Nat /\ i \in Nat /\ j \in Nat
      BY <1>1
    <2>2. ~(i < j) /\ ~(j < i)
      BY <2>1 DEF Falls
    <2>3. QED
      BY <2>1, <2>2
  <1>4. \A x \in ToSet(q) : \E i \in 1 .. Len(q) : q[i] = x
    BY <1>1 DEF ToSet
  <1>5. q \in Bijection(1 .. Len(q), ToSet(q))
    BY <1>2, <1>3, <1>4, Zenon DEF Bijection, Injection, Surjection, IsInjective
  <1>6. ExistsBijection(1 .. Len(q), ToSet(q))
    BY <1>5, Zenon DEF ExistsBijection
  <1>7. IsFiniteSet(1 .. Len(q)) /\ Cardinality(1 .. Len(q)) = Len(q)
    <2>1. ASSUME NEW n \in Nat
          PROVE  IsFiniteSet(1 .. n) /\ Cardinality(1 .. n) = n
      BY FS_Interval
    <2>2. QED
      BY <1>1, <2>1
  <1>8. QED
    BY <1>6, <1>7, FS_Bijection

LEMMA LesserNumber ==
  ASSUME NEW a \in Nat, NEW b \in Nat
  PROVE  Min({a, b}) = IF a <= b THEN a ELSE b
  BY DEF Min

First(q, c) == SubSeq(q, 1, IF Len(q) < c THEN Len(q) ELSE c)

LEMMA FirstOfFalling ==
  ASSUME NEW q \in Seq(Nat), Falls(q), NEW c \in Nat
  PROVE  /\ First(q, c) \in Seq(Nat) /\ Falls(First(q, c))
         /\ Cardinality(ToSet(First(q, c))) = Min({c, Cardinality(ToSet(q))})
         /\ \A x \in ToSet(First(q, c)), y \in ToSet(q) \ ToSet(First(q, c)) : y < x
  <1> DEFINE m == IF Len(q) < c THEN Len(q) ELSE c
             p == First(q, c)
  <1>1. m \in 0 .. Len(q) /\ Len(q) \in Nat
    OBVIOUS
  <1>2. p = SubSeq(q, 1, m)
    BY DEF First
  <1>3. m = Min({c, Len(q)})
    BY LesserNumber
  <1> HIDE DEF m, p
  <1>4. p \in Seq(Nat) /\ Len(p) = m /\ \A i \in 1 .. m : p[i] = q[i]
    BY <1>1, <1>2, SubSeqProperties
  <1>5. DOMAIN p = 1 .. m /\ DOMAIN q = 1 .. Len(q) /\ \A i \in 1 .. m : i \in 1 .. Len(q)
    BY <1>1, <1>4
  <1>6. Falls(p)
    BY <1>4, <1>5 DEF Falls
  <1>7. Cardinality(ToSet(p)) = m /\ Cardinality(ToSet(q)) = Len(q)
    BY <1>4, <1>6, CountOfFalling
  <1>8. ASSUME NEW x \in ToSet(p), NEW y \in ToSet(q) \ ToSet(p)
        PROVE  y < x
    <2>1. PICK i \in 1 .. m : x = p[i]
      BY <1>5 DEF ToSet
    <2>2. PICK j \in 1 .. Len(q) : y = q[j]
      BY <1>5 DEF ToSet
    <2>3. x = q[i] /\ i \in 1 .. Len(q)
      BY <1>4, <1>5, <2>1
    <2>4. j \notin 1 .. m
      BY <1>4, <1>5, <1>8, <2>2 DEF ToSet
    <2>5. i < j
      BY <1>1, <2>1, <2>2, <2>4
    <2>6. q[i] > q[j] /\ q[i] \in Nat /\ q[j] \in Nat
      BY <2>2, <2>3, <2>5 DEF Falls
    <2>7. QED
      BY <2>2, <2>3, <2>6
  <1>9. QED
    BY <1>3, <1>4, <1>6, <1>7, <1>8 DEF p

LEMMA TwoFalling ==
  ASSUME NEW q \in Seq(Nat), NEW r \in Seq(Nat), Falls(q), Falls(r),
         \A i \in 1 .. Len(q), j \in 1 .. Len(r) : q[i] > r[j]
  PROVE  /\ q \o r \in Seq(Nat) /\ Falls(q \o r)
         /\ ToSet(q \o r) = ToSet(q) \cup ToSet(r)
  <1>1. /\ q \o r \in Seq(Nat) /\ Len(q \o r) = Len(q) + Len(r)
        /\ Len(q) \in Nat /\ Len(r) \in Nat
        /\ \A i \in 1 .. Len(q) + Len(r) :
             (q \o r)[i] = IF i <= Len(q) THEN q[i] ELSE r[i - Len(q)]
    BY ConcatProperties
  <1> DEFINE t == q \o r
  <1>2. /\ \A i \in 1 .. Len(q) : i \in 1 .. Len(t) /\ t[i] = q[i]
        /\ \A i \in 1 .. Len(r) : Len(q) + i \in 1 .. Len(t) /\ t[Len(q) + i] = r[i]
    <2>1. \A i \in 1 .. Len(q) : i \in 1 .. Len(q) + Len(r) /\ i <= Len(q)
      BY <1>1
    <2>2. \A i \in 1 .. Len(r) : /\ Len(q) + i \in 1 .. Len(q) + Len(r)
                                 /\ ~(Len(q) + i <= Len(q)) /\ (Len(q) + i) - Len(q) = i
      BY <1>1
    <2>3. QED
      BY <1>1, <2>1, <2>2
  <1>3. \A i \in 1 .. Len(t) : \/ i \in 1 .. Len(q)
                               \/ i - Len(q) \in 1 .. Len(r) /\ i = Len(q) + (i - Len(q))
    BY <1>1
  <1>4. DOMAIN q = 1 .. Len(q) /\ DOMAIN r = 1 .. Len(r) /\ DOMAIN t = 1 .. Len(t)
    BY <1>1
  <1>5. Falls(t)
    <2> SUFFICES ASSUME NEW i \in 1 .. Len(t), NEW j \in 1 .. Len(t), i < j
                 PROVE  t[i] > t[j]
      BY DEF Falls
    <2>1. CASE j \in 1 .. Len(q)
      <3>1. i \in 1 .. Len(q)
        BY <1>1, <2>1
      <3>2. QED
        BY <1>2, <2>1, <3>1 DEF Falls
    <2>2. CASE i \in 1 .. Len(q) /\ j \notin 1 .. Len(q)
      <3>1. PICK l \in 1 .. Len(r) : t[j] = r[l]
        BY <1>2, <1>3, <2>2
      <3>2. QED
        BY <1>2, <2>2, <3>1
    <2>3. CASE i \notin 1 .. Len(q) /\ j \notin 1 .. Len(q)
      <3>1. /\ i - Len(q) \in 1 .. Len(r) /\ t[i] = r[i - Len(q)]
            /\ j - Len(q) \in 1 .. Len(r) /\ t[j] = r[j - Len(q)]
        BY <1>2, <1>3, <2>3
      <3>2. i - Len(q) < j - Len(q)
        BY <1>1
      <3>3. QED
        BY <3>1, <3>2 DEF Falls
    <2>4. QED
      BY <1>1, <2>1, <2>2, <2>3
  <1>6. ToSet(t) = ToSet(q) \cup ToSet(r)
    <2> HIDE DEF t
    <2>1. /\ ToSet(t) = {t[i] : i \in 1 .. Len(t)}
          /\ ToSet(q) = {q[i] : i \in 1 .. Len(q)}
          /\ ToSet(r) = {r[i] : i \in 1 .. Len(r)}
      BY <1>4 DEF ToSet
    <2>2. ASSUME NEW i \in 1 .. Len(t)
          PROVE  \/ \E j \in 1 .. Len(q) : t[i] = q[j]
                 \/ \E j \in 1 .. Len(r) : t[i] = r[j]
      <3>1. CASE i \in 1 .. Len(q)
        BY <1>2, <3>1, Zenon
      <3>2. CASE i \notin 1 .. Len(q)
        <4>1. PICK j \in 1 .. Len(r) : i = Len(q) + j
          BY <1>3, <3>2
        <4>2. QED
          BY <1>2, <4>1, Zenon
      <3>3. QED
        BY <3>1, <3>2
    <2>3. /\ \A i \in 1 .. Len(q) : \E j \in 1 .. Len(t) : t[j] = q[i]
          /\ \A i \in 1 .. Len(r) : \E j \in 1 .. Len(t) : t[j] = r[i]
      BY <1>2
    <2>4. QED
      BY <2>1, <2>2, <2>3, Zenon
  <1>7. QED
    BY <1>1, <1>5, <1>6

-----------------------------------------------------------------------------
(***************************************************************************)
(* The order of the records, whatever the flash does until a start-up has   *)
(* scanned what a fault had left.                                           *)
(***************************************************************************)
Ordered(f) == \A s \in Sector : InOrder(f, s)

(* The records of sector h are newer than the others and below slot k. *)
Behind(f, h, k) == Newer(f, h) /\ \A i \in LogSlot : IsRecord(f, h, i) => i < k

(* There is no blank slot below a record. *)
Whole(f, s) == \A i, j \in LogSlot :
  IsRecord(f, s, j) /\ i < j => f[s][i].kind \in {"torn", "record"}

(* The log has started up, and what it scanned then no fault had touched. *)
Ongoing == phase \notin {"off", "halted"} /\ ~tainted

(* Where an append goes, the records before it are older and further down;  *)
(* a sector that is rolled away from keeps the newer records.               *)
Placed ==
  /\ phase = "erase" =>
       /\ Above(flash, nextSequence)
       /\ Newer(flash, 1 - rollTarget)
       /\ caller = "append" => nextSlot = SlotCount /\ activeSector = 1 - rollTarget
  /\ phase \in {"idle", "program"} =>
       Above(flash, nextSequence) /\ Behind(flash, activeSector, nextSlot)
  /\ phase = "verify" =>
       Above(flash, nextSequence + 1) /\ Behind(flash, activeSector, nextSlot + 1)

OrderInv ==
  /\ tainted => faults > 0
  /\ faults = 0 \/ Ongoing => Ordered(flash)
  /\ Ongoing => Placed

(* The scan of the other sector, which ends at the first blank slot, finds  *)
(* all its records.                                                         *)
WholeInv == faults = 0 =>
  /\ phase \in {"idle", "program", "verify"} => Whole(flash, 1 - activeSector)
  /\ phase = "off" => \A h \in Sector, k \in 1 .. SlotCount :
       Home(flash, h, k, acked) /\ k < SlotCount => Whole(flash, 1 - h)

-----------------------------------------------------------------------------
(* Erasing, however it ends, takes records away; programming, however it    *)
(* ends, adds at most the new one.                                          *)
LEMMA OrderWithLess ==
  ASSUME NEW f, NEW g, NEW n, NEW h \in Sector,
         Ordered(f), Above(f, n), Newer(f, h),
         \A s \in Sector, i \in LogSlot : IsRecord(g, s, i) => g[s][i] = f[s][i]
  PROVE  Ordered(g) /\ Above(g, n) /\ Newer(g, h)
  <1>1. \A s \in Sector, i \in LogSlot : IsRecord(g, s, i) =>
          IsRecord(f, s, i) /\ g[s][i].sequence = f[s][i].sequence
    BY DEF IsRecord
  <1>2. Ordered(g)
    BY <1>1 DEF Ordered, InOrder
  <1>3. Above(g, n)
    BY <1>1 DEF Above
  <1>4. 1 - h \in Sector
    BY OtherSector
  <1>5. Newer(g, h)
    BY <1>1, <1>4 DEF Newer
  <1>6. QED
    BY <1>2, <1>3, <1>5

LEMMA OrderAfterProgram ==
  ASSUME NEW f \in Contents, NEW h \in Sector, NEW k \in LogSlot, NEW n \in Nat, NEW g,
         IsRecord(g, h, k) => g[h][k].sequence = n,
         \A i \in LogSlot : i # k => g[h][i] = f[h][i],
         g[1 - h] = f[1 - h],
         Ordered(f), Above(f, n), Behind(f, h, k)
  PROVE  Ordered(g) /\ Above(g, n + 1) /\ Behind(g, h, k + 1)
  <1>2. 1 - h \in Sector /\ LogSlot \subseteq Nat /\ \A s \in Sector : s = h \/ s = 1 - h
    BY OtherSector, OneOrOther, SlotFacts
  <1>3. \A i \in LogSlot : IsRecord(g, h, i) =>
          \/ i = k /\ g[h][i].sequence = n
          \/ i < k /\ IsRecord(f, h, i) /\ g[h][i].sequence = f[h][i].sequence
    BY DEF IsRecord, Behind
  <1>4. \A i \in LogSlot : IsRecord(g, 1 - h, i) =>
          IsRecord(f, 1 - h, i) /\ g[1 - h][i].sequence = f[1 - h][i].sequence
    BY DEF IsRecord
  <1>5. \A s \in Sector, i \in LogSlot : IsRecord(f, s, i) =>
          f[s][i].sequence < n /\ f[s][i].sequence \in Nat
    <2>1. \A s \in Sector, i \in LogSlot : f[s][i] \in Cell
      BY DEF Contents
    <2>2. \A s \in Sector, i \in LogSlot : IsRecord(f, s, i) => f[s][i].sequence \in 1 .. (MaxLogSequence - 1)
      BY <2>1, CellFacts DEF IsRecord
    <2>3. QED
      BY <2>2, LogAssumption DEF Above
  <1>6. InOrder(g, h)
    <2> SUFFICES ASSUME NEW i \in LogSlot, NEW j \in LogSlot,
                        IsRecord(g, h, i), IsRecord(g, h, j), i < j
                 PROVE  g[h][i].sequence < g[h][j].sequence
      BY DEF InOrder
    <2>1. i < k /\ IsRecord(f, h, i) /\ g[h][i].sequence = f[h][i].sequence
      <3>0. i \in Nat /\ j \in Nat /\ k \in Nat
        BY <1>2
      <3>1. j = k \/ j < k
        BY <1>3
      <3>2. i # k
        BY <3>0, <3>1
      <3>3. QED
        BY <1>3, <3>2
    <2>2. CASE j = k /\ g[h][j].sequence = n
      BY <1>5, <2>1, <2>2
    <2>3. CASE IsRecord(f, h, j) /\ g[h][j].sequence = f[h][j].sequence
      BY <2>1, <2>3 DEF Ordered, InOrder
    <2>4. QED
      BY <1>3, <2>2, <2>3
  <1>7. InOrder(g, 1 - h)
    BY <1>2, <1>4 DEF Ordered, InOrder
  <1>8. Newer(g, h)
    <2> SUFFICES ASSUME NEW i \in LogSlot, NEW j \in LogSlot,
                        IsRecord(g, h, i), IsRecord(g, 1 - h, j)
                 PROVE  g[1 - h][j].sequence < g[h][i].sequence
      BY DEF Newer
    <2>1. IsRecord(f, 1 - h, j) /\ g[1 - h][j].sequence = f[1 - h][j].sequence
      BY <1>4
    <2>2. CASE g[h][i].sequence = n
      BY <1>2, <1>5, <2>1, <2>2
    <2>3. CASE IsRecord(f, h, i) /\ g[h][i].sequence = f[h][i].sequence
      BY <2>1, <2>3 DEF Behind, Newer
    <2>4. QED
      BY <1>3, <2>2, <2>3
  <1>9. \A i \in LogSlot : IsRecord(g, h, i) => i < k + 1
    BY <1>2, <1>3
  <1>10. Above(g, n + 1)
    <2> SUFFICES ASSUME NEW s \in Sector, NEW i \in LogSlot, IsRecord(g, s, i)
                 PROVE  g[s][i].sequence < n + 1
      BY DEF Above
    <2>1. g[s][i].sequence = n \/ (IsRecord(f, s, i) /\ g[s][i].sequence = f[s][i].sequence)
      BY <1>2, <1>3, <1>4
    <2>2. QED
      BY <1>5, <2>1
  <1>11. Ordered(g)
    BY <1>2, <1>6, <1>7 DEF Ordered
  <1>12. QED
    BY <1>8, <1>9, <1>10, <1>11 DEF Behind

(* What is left of the layout when no flash operation has failed. *)
LEMMA LayoutIsPlaced ==
  ASSUME LogTypes, LayoutInv, phase = "erase" => caller = "init"
  PROVE  Placed
  <1>1. \A f, a : NoRecords(f, a) =>
          /\ \A s \in Sector, i \in LogSlot : ~IsRecord(f, s, i)
          /\ \A s \in Sector : Newer(f, s)
    BY DEF NoRecords, Newer
  <1>2. \A f, h, k, a : Home(f, h, k, a) => Newer(f, h)
    BY DEF Home, Newest, InOrder, Newer
  <1>3. \A f, h, k, a, i : Home(f, h, k, a) /\ i \in LogSlot /\ IsRecord(f, h, i) /\ k \in Nat => i < k
    BY SlotFacts DEF Home, Used, IsRecord, Erased
  <1>4. \A f, h, k, a : Home(f, h, k, a) /\ k \in Nat => Behind(f, h, k)
    BY <1>2, <1>3, Zenon DEF Behind
  <1>5. rollTarget \in Sector /\ activeSector \in Sector /\ nextSlot \in Nat /\ nextSlot + 1 \in Nat
    BY LogAssumption DEF LogTypes
  <1>6. CASE phase = "erase"
    <2>1. 1 - rollTarget \in Sector
      BY <1>5, OtherSector
    <2>2. Newer(flash, 1 - rollTarget) /\ Above(flash, nextSequence)
      BY <1>1, <1>2, <1>6, <2>1 DEF LayoutInv
    <2>3. QED
      BY <1>6, <2>2 DEF Placed
  <1>7. CASE phase \in {"idle", "program"}
    <2>1. Above(flash, nextSequence) /\ Position(flash, activeSector, nextSlot, acked)
      BY <1>7 DEF LayoutInv
    <2>2. ASSUME flash[activeSector] = ErasedSector
          PROVE  Behind(flash, activeSector, nextSlot)
      <3>1. \A i \in LogSlot : ~IsRecord(flash, activeSector, i)
        BY <2>2, ErasedIsErased DEF IsRecord
      <3>2. QED
        BY <3>1 DEF Behind, Newer
    <2>3. Behind(flash, activeSector, nextSlot)
      BY <1>4, <1>5, <2>1, <2>2 DEF Position, Rolled
    <2>4. QED
      BY <1>7, <2>1, <2>3 DEF Placed
  <1>8. CASE phase = "verify"
    <2>1. Home(flash, activeSector, nextSlot + 1, acked) /\ Above(flash, nextSequence + 1)
      BY <1>8 DEF LayoutInv
    <2>2. Behind(flash, activeSector, nextSlot + 1)
      BY <1>4, <1>5, <2>1
    <2>3. QED
      BY <1>8, <2>1, <2>2 DEF Placed
  <1>9. CASE phase \in {"off", "halted"}
    BY <1>9 DEF Placed
  <1>10. QED
    BY <1>6, <1>7, <1>8, <1>9 DEF LogTypes

LEMMA AppendOrder ==
  ASSUME LogTypes, Placed, StartAppend
  PROVE  Placed'
  <1>1. /\ phase = "idle" /\ UNCHANGED <<flash, activeSector, nextSlot, nextSequence>>
        /\ activeSector \in Sector /\ nextSlot \in 0 .. SlotCount
    BY DEF StartAppend, LogTypes
  <1>2. Above(flash, nextSequence) /\ Behind(flash, activeSector, nextSlot)
    BY <1>1 DEF Placed
  <1>3. CASE nextSlot >= SlotCount
    <2>1. phase' = "erase" /\ rollTarget' = 1 - activeSector
      BY <1>3, LogAssumption DEF StartAppend, RollToSector, LogTypes
    <2>2. nextSlot' = SlotCount /\ activeSector' = 1 - rollTarget'
      BY <1>1, <1>3, <2>1, OtherSector, LogAssumption
    <2>3. Newer(flash', 1 - rollTarget') /\ Above(flash', nextSequence')
      BY <1>1, <1>2, <2>1, OtherSector DEF Behind
    <2>4. QED
      BY <2>1, <2>2, <2>3 DEF Placed
  <1>4. CASE nextSlot < SlotCount
    <2>1. phase' = "program"
      BY <1>4, LogAssumption DEF StartAppend, LogTypes
    <2>2. Above(flash', nextSequence') /\ Behind(flash', activeSector', nextSlot')
      BY <1>1, <1>2
    <2>3. QED
      BY <2>1, <2>2 DEF Placed
  <1>5. QED
    BY <1>1, <1>3, <1>4, LogAssumption

LEMMA EraseOrder ==
  ASSUME LogTypes, Ordered(flash), Placed, EraseTarget
  PROVE  Ordered(flash') /\ (phase' # "halted" => Placed')
  <1>1. /\ phase = "erase" /\ nextSequence' = nextSequence
        /\ rollTarget \in Sector /\ 1 - rollTarget \in Sector /\ caller \in {"init", "append"}
    BY OtherSector DEF EraseTarget, LogTypes
  <1>2. /\ flash' \in Contents
        /\ flash'[1 - rollTarget] = flash[1 - rollTarget]
        /\ \A s \in Sector, i \in LogSlot : IsRecord(flash', s, i) => flash'[s][i] = flash[s][i]
    BY ErasedOnly DEF EraseTarget
  <1>3. Above(flash, nextSequence) /\ Newer(flash, 1 - rollTarget)
    BY <1>1 DEF Placed
  <1>4. Ordered(flash') /\ Above(flash', nextSequence) /\ Newer(flash', 1 - rollTarget)
    BY <1>1, <1>2, <1>3, OrderWithLess
  <1>5. CASE activeSector' = rollTarget /\ nextSlot' = 0 /\ phase' \in {"idle", "program"}
             /\ \A i \in LogSlot : ~IsRecord(flash', rollTarget, i)
    <2>1. Behind(flash', activeSector', nextSlot')
      BY <1>5 DEF Behind, Newer
    <2>2. QED
      BY <1>1, <1>4, <1>5, <2>1 DEF Placed
  <1>6. CASE phase' \in {"halted", "idle"} /\ UNCHANGED <<activeSector, nextSlot>>
             /\ (phase' = "idle" => caller = "append")
    <2>1. ASSUME phase' = "idle"
          PROVE  Behind(flash', activeSector', nextSlot')
      <3>1. nextSlot' = SlotCount /\ activeSector' = 1 - rollTarget
        BY <1>1, <1>6, <2>1 DEF Placed
      <3>2. \A i \in LogSlot : i < nextSlot'
        BY <3>1, LogAssumption DEF LogSlot
      <3>3. QED
        BY <1>4, <3>1, <3>2 DEF Behind
    <2>2. QED
      BY <1>1, <1>4, <1>6, <2>1 DEF Placed
  <1>7. \/ /\ activeSector' = rollTarget /\ nextSlot' = 0 /\ phase' \in {"idle", "program"}
           /\ \/ \E f \in WeakErases : flash' = [flash EXCEPT ![rollTarget] = f]
              \/ flash' = [flash EXCEPT ![rollTarget] = ErasedSector]
        \/ /\ phase' \in {"halted", "idle"} /\ UNCHANGED <<activeSector, nextSlot>>
           /\ phase' = "idle" => caller = "append"
    BY <1>1 DEF EraseTarget
  <1>8. ASSUME \/ \E f \in WeakErases : flash' = [flash EXCEPT ![rollTarget] = f]
               \/ flash' = [flash EXCEPT ![rollTarget] = ErasedSector]
        PROVE  \A i \in LogSlot : ~IsRecord(flash', rollTarget, i)
    <2>1. \A i \in LogSlot : flash'[rollTarget][i] \in {Erased, Torn}
      <3>1. \A f \in WeakErases, i \in LogSlot : f[i] \in {Erased, Torn}
        BY DEF WeakErases
      <3>2. flash \in [Sector -> [LogSlot -> Cell]]
        BY DEF LogTypes
      <3>3. QED
        BY <1>1, <1>8, <3>1, <3>2, ErasedIsErased
    <2>2. QED
      BY <2>1 DEF IsRecord, Erased, Torn
  <1>9. QED
    BY <1>4, <1>5, <1>6, <1>7, <1>8

(* Programming the next slot, well or badly, adds at most the new record. *)
LEMMA ProgramOrder ==
  ASSUME LogTypes, Ordered(flash), Placed, phase = "program",
         SetSlot(Programmed) \/ \E c \in CutShortPrograms : SetSlot(c)
  PROVE  /\ Ordered(flash') /\ Above(flash', nextSequence + 1)
         /\ Behind(flash', activeSector, nextSlot + 1)
         /\ flash'[1 - activeSector] = flash[1 - activeSector]
  <1>1. /\ nextSlot \in LogSlot /\ activeSector \in Sector /\ nextSequence \in Nat
        /\ flash \in Contents /\ flash \in [Sector -> [LogSlot -> Cell]]
    BY ProgrammedTypes, TypesAreContents, LogAssumption DEF LogTypes
  <1>2. Above(flash, nextSequence) /\ Behind(flash, activeSector, nextSlot)
    BY DEF Placed
  <1>3. ~IsRecord(flash, activeSector, nextSlot)
    <2>1. nextSlot \in Nat
      BY <1>1, SlotFacts
    <2>2. ~(nextSlot < nextSlot)
      BY <2>1
    <2>3. QED
      BY <1>1, <1>2, <2>2 DEF Behind
  <1>4. PICK c \in Cell : /\ flash' = [flash EXCEPT ![activeSector][nextSlot] = c]
                          /\ c.kind = "record" => c.sequence = nextSequence
    <2>1. PICK c \in CutShortPrograms : SetSlot(c)
      BY DEF CutShortPrograms
    <2>2. c \in Cell
      BY <2>1, ProgrammedTypes
    <2>3. c \in {flash[activeSector][nextSlot], Record(nextSequence), Torn, Smudged}
      BY <2>1 DEF CutShortPrograms, Programmed
    <2>4. c.kind = "record" => c.sequence = nextSequence
      BY <1>3, <2>3 DEF IsRecord, Record, Torn, Smudged
    <2>5. QED
      BY <2>1, <2>2, <2>4 DEF SetSlot
  <1>5. /\ flash'[activeSector][nextSlot] = c
        /\ \A i \in LogSlot : i # nextSlot => flash'[activeSector][i] = flash[activeSector][i]
        /\ flash'[1 - activeSector] = flash[1 - activeSector]
    BY <1>1, <1>4, OtherSector
  <1>6. IsRecord(flash', activeSector, nextSlot) =>
          flash'[activeSector][nextSlot].sequence = nextSequence
    BY <1>4, <1>5 DEF IsRecord
  <1>7. QED
    BY <1>1, <1>2, <1>5, <1>6, OrderAfterProgram

LEMMA CrashOrder ==
  ASSUME LogTypes, Ordered(flash), phase \notin {"off", "halted"} => Placed, Crash
  PROVE  Ordered(flash')
  <1>1. CASE phase = "erase"
    <2>1. /\ rollTarget \in Sector /\ 1 - rollTarget \in Sector
      BY OtherSector DEF LogTypes
    <2>2. \A s \in Sector, i \in LogSlot : IsRecord(flash', s, i) => flash'[s][i] = flash[s][i]
      BY <1>1, ErasedOnly DEF Crash
    <2>3. Above(flash, nextSequence) /\ Newer(flash, 1 - rollTarget)
      BY <1>1 DEF Placed
    <2>4. QED
      BY <2>1, <2>2, <2>3, OrderWithLess
  <1>2. CASE phase = "program"
    <2>1. \E c \in CutShortPrograms : SetSlot(c)
      BY <1>2 DEF Crash
    <2>2. QED
      BY <1>2, <2>1, ProgramOrder
  <1>3. CASE phase \notin {"erase", "program"}
    BY <1>3 DEF Crash
  <1>4. QED
    BY <1>1, <1>2, <1>3

LEMMA OrderStep ==
  ASSUME LogInv, LogInv', OrderInv, [LogNext]_logVars
  PROVE  OrderInv'
  <1>0. LogTypes /\ faults \in Nat /\ tainted \in BOOLEAN
    BY LogAssumption DEF LogInv, LogTypes
  <1>1. ASSUME NEW u \in {{}} \cup OneSlot, Boot(u)
        PROVE  OrderInv'
    <2>1. /\ flash' = flash /\ phase' \in {"idle", "erase"}
          /\ phase' = "erase" => caller' = "init"
          /\ faults' = faults \/ Fault
      BY <1>1 DEF Boot, RollToSector
    <2>2. tainted' <=> faults' > 0
      BY <1>1, Zenon DEF Boot
    <2>3. faults' \in Nat /\ (faults' = 0 => faults = 0)
      BY <1>0, <2>1, FaultTypes, LogAssumption DEF LogTypes
    <2>4. ASSUME faults' = 0
          PROVE  Ordered(flash') /\ Placed'
      <3>1. Ordered(flash')
        BY <2>1, <2>3, <2>4 DEF OrderInv
      <3>2. LogTypes' /\ LayoutInv'
        BY <2>4 DEF LogInv
      <3>3. (phase = "erase" => caller = "init")'
        BY <2>1
      <3>4. Placed'
        BY <3>2, <3>3, LayoutIsPlaced, PTL
      <3>5. QED
        BY <3>1, <3>4
    <2>5. ~(faults' > 0) => faults' = 0
      BY <2>3
    <2>6. QED
      BY <2>2, <2>4, <2>5, Zenon DEF OrderInv, Ongoing
  <1>2. faults = 0 => ~tainted /\ phase # "halted"
    BY <1>0 DEF OrderInv, LogInv, LayoutInv
  <1>3. ASSUME StartAppend
        PROVE  OrderInv'
    <2>1. phase = "idle" /\ UNCHANGED <<flash, faults, tainted>> /\ phase' \in {"erase", "program"}
      BY <1>3 DEF StartAppend, RollToSector
    <2>2. Ongoing' <=> Ongoing
      BY <2>1 DEF Ongoing
    <2>3. Ongoing => Placed'
      BY <1>0, <1>3, AppendOrder DEF OrderInv
    <2>4. QED
      BY <2>1, <2>2, <2>3 DEF OrderInv
  <1>4. ASSUME EraseTarget
        PROVE  OrderInv'
    <2>1. phase = "erase" /\ tainted' = tainted /\ phase' # "off"
      BY <1>4 DEF EraseTarget
    <2>2. tainted => faults' > 0
      BY <1>0, <1>4 DEF EraseTarget, Fault, OrderInv
    <2>3. ~tainted => Ordered(flash') /\ (phase' # "halted" => Placed')
      BY <1>0, <1>4, <2>1, EraseOrder DEF OrderInv, Ongoing
    <2>4. faults' = 0 => ~tainted
      BY <2>2
    <2>5. QED
      BY <2>1, <2>2, <2>3, <2>4 DEF OrderInv, Ongoing
  <1>5. ASSUME ProgramRecord
        PROVE  OrderInv'
    <2>1. /\ phase = "program" /\ UNCHANGED <<tainted, activeSector>>
          /\ \/ phase' = "verify" /\ UNCHANGED <<nextSlot, nextSequence>>
             \/ phase' = "idle" /\ nextSlot' = nextSlot + 1 /\ nextSequence' = nextSequence + 1
      BY <1>5 DEF ProgramRecord, FinishAppend
    <2>2. tainted => faults' > 0
      BY <1>0, <1>5 DEF ProgramRecord, Fault, OrderInv
    <2>3. SetSlot(Programmed) \/ \E c \in CutShortPrograms : SetSlot(c)
      BY <1>5 DEF ProgramRecord
    <2>4. ASSUME ~tainted
          PROVE  Ordered(flash') /\ Placed'
      <3>1. /\ Ordered(flash') /\ Above(flash', nextSequence + 1)
            /\ Behind(flash', activeSector, nextSlot + 1)
        BY <1>0, <2>1, <2>3, <2>4, ProgramOrder DEF OrderInv, Ongoing
      <3>2. QED
        BY <2>1, <3>1 DEF Placed
    <2>5. faults' = 0 => ~tainted
      BY <2>2
    <2>6. QED
      BY <2>1, <2>2, <2>4, <2>5 DEF OrderInv, Ongoing
  <1>6. ASSUME VerifyRecord
        PROVE  OrderInv'
    <2>1. /\ phase = "verify" /\ phase' = "idle" /\ UNCHANGED <<tainted, flash, activeSector>>
          /\ nextSlot' = nextSlot + 1 /\ nextSequence' = nextSequence + 1
      BY <1>6 DEF VerifyRecord, FinishAppend
    <2>2. tainted => faults' > 0
      BY <1>0, <1>6 DEF VerifyRecord, Fault, OrderInv
    <2>3. ~tainted => Ordered(flash') /\ Placed'
      BY <2>1 DEF OrderInv, Ongoing, Placed
    <2>4. faults' = 0 => ~tainted
      BY <2>2
    <2>5. QED
      BY <2>1, <2>2, <2>3, <2>4 DEF OrderInv, Ongoing
  <1>7. ASSUME Crash
        PROVE  OrderInv'
    <2>1. phase # "off" /\ phase' = "off" /\ UNCHANGED <<faults, tainted>>
      BY <1>7 DEF Crash
    <2>2. ASSUME faults = 0
          PROVE  Ordered(flash')
      <3>1. Ongoing
        BY <1>2, <2>1, <2>2 DEF Ongoing
      <3>2. QED
        BY <1>0, <1>7, <3>1, CrashOrder DEF OrderInv
    <2>3. QED
      BY <2>1, <2>2 DEF OrderInv, Ongoing
  <1>8. CASE UNCHANGED logVars
    BY <1>8 DEF logVars, OrderInv, Ongoing, Placed
  <1>9. QED
    BY <1>1, <1>3, <1>4, <1>5, <1>6, <1>7, <1>8 DEF LogNext

(* Both sectors cannot be home, and a full one is not one with room. *)
LEMMA HomeIsHome ==
  ASSUME NEW f \in Contents, NEW h \in Sector, NEW k, NEW m, NEW a, NEW b, Home(f, h, k, a)
  PROVE  ~Home(f, 1 - h, m, b)
  <1> SUFFICES ASSUME Home(f, 1 - h, m, b)
               PROVE  FALSE
    OBVIOUS
  <1>1. 1 - h \in Sector /\ 1 - (1 - h) = h /\ 0 \in LogSlot
    BY OtherSector, SlotFacts
  <1>2. IsRecord(f, h, 0) /\ IsRecord(f, 1 - h, 0)
    BY DEF Home, Used
  <1>3. f[h][0].sequence \in Nat /\ f[1 - h][0].sequence \in Nat
    BY <1>1, <1>2, CellFacts, LogAssumption DEF Contents, IsRecord
  <1>4. f[1 - h][0].sequence < f[h][0].sequence
    BY <1>1, <1>2 DEF Home, Newest, InOrder, Newer
  <1>5. f[h][0].sequence < f[1 - h][0].sequence
    BY <1>1, <1>2 DEF Home, Newest, InOrder, Newer
  <1>6. QED
    BY <1>3, <1>4, <1>5

LEMMA FullIsFull ==
  ASSUME NEW f, NEW h, NEW k \in 1 .. SlotCount, NEW a, NEW b, Home(f, h, SlotCount, a), k < SlotCount
  PROVE  ~Home(f, h, k, b)
  <1>1. k \in LogSlot /\ k < SlotCount
    BY LogAssumption DEF LogSlot
  <1>2. f[h][k].kind \in {"torn", "record"}
    BY <1>1 DEF Home, Used
  <1>3. QED
    BY <1>1, <1>2 DEF Home, Used

LEMMA FullIsWhole ==
  ASSUME NEW f, NEW h, NEW a, Home(f, h, SlotCount, a)
  PROVE  Whole(f, h)
  BY LogAssumption DEF Home, Used, Whole, LogSlot

LEMMA CrashWhole ==
  ASSUME LogTypes, LayoutInv, Crash,
         phase \in {"idle", "program", "verify"} => Whole(flash, 1 - activeSector),
         NEW h \in Sector, NEW k \in 1 .. SlotCount, Home(flash', h, k, acked), k < SlotCount
  PROVE  Whole(flash', 1 - h)
  <1>1. /\ flash \in Contents /\ activeSector \in Sector /\ rollTarget \in Sector
        /\ 1 - h \in Sector /\ 1 - (1 - h) = h /\ 0 \in LogSlot
        /\ 1 - rollTarget \in Sector /\ 1 - (1 - rollTarget) = rollTarget
        /\ 1 - activeSector \in Sector /\ 1 - (1 - activeSector) = activeSector
    BY TypesAreContents, OtherSector, SlotFacts DEF LogTypes
  <1>2. IsRecord(flash', h, 0)
    BY DEF Home, Used
  <1>3. \A s, m, a : Home(flash, s, m, a) => IsRecord(flash, s, 0) /\ m > 0
    BY DEF Home, Used
  <1>4. CASE phase = "erase"
    <2>1. /\ flash' \in Contents
          /\ flash'[1 - rollTarget] = flash[1 - rollTarget]
          /\ \A s \in Sector, i \in LogSlot : IsRecord(flash', s, i) => flash'[s][i] = flash[s][i]
      BY <1>4, ErasedOnly DEF Crash
    <2>2. ~NoRecords(flash, acked)
      BY <1>1, <1>2, <2>1 DEF NoRecords, IsRecord
    <2>3. Home(flash, 1 - rollTarget, SlotCount, acked)
      BY <1>4, <2>2 DEF LayoutInv
    <2>4. SlotCount \in Nat /\ acked \in Nat
      BY TypesAreContents, LogAssumption
    <2>5. Home(flash', 1 - rollTarget, SlotCount, acked)
      BY <1>1, <2>1, <2>3, <2>4, HomeWithLess
    <2>6. h # rollTarget
      BY <1>1, <2>1, <2>5, HomeIsHome
    <2>7. h # 1 - rollTarget
      BY <2>5, FullIsFull
    <2>8. QED
      BY <1>1, <2>6, <2>7, OneOrOther
  <1>5. CASE phase \in {"idle", "verify"}
    <2>1. flash' = flash
      BY <1>5 DEF Crash
    <2>2. CASE h = activeSector
      BY <1>5, <2>1, <2>2
    <2>3. CASE h = 1 - activeSector
      <3>1. Position(flash, activeSector, nextSlot, acked) \/ Home(flash, activeSector, nextSlot + 1, acked)
        BY <1>5 DEF LayoutInv
      <3>2. ~\E m : Home(flash, activeSector, m, acked)
        BY <1>1, <2>1, <2>3, HomeIsHome
      <3>3. ~NoRecords(flash, acked)
        BY <1>1, <1>2, <2>1 DEF NoRecords
      <3>4. Home(flash, 1 - activeSector, SlotCount, acked)
        BY <3>1, <3>2, <3>3 DEF Position, Rolled
      <3>5. QED
        BY <2>1, <2>3, <3>4, FullIsFull
    <2>4. QED
      BY <1>1, <2>2, <2>3, OneOrOther
  <1>6. CASE phase = "program"
    <2>1. Position(flash, activeSector, nextSlot, acked) /\ nextSlot \in LogSlot
      BY <1>6, ProgramFacts
    <2>2. \E c \in Cell : flash' = [flash EXCEPT ![activeSector][nextSlot] = c]
      BY <1>6, ProgrammedTypes DEF Crash, SetSlot
    <2>3. /\ \A i \in LogSlot : i # nextSlot => flash'[activeSector][i] = flash[activeSector][i]
          /\ flash'[1 - activeSector] = flash[1 - activeSector]
      BY <1>1, <2>1, <2>2, OtherSector DEF Contents
    <2>4. CASE h = activeSector
      BY <1>6, <2>3, <2>4 DEF Whole, IsRecord
    <2>5. CASE h = 1 - activeSector
      <3>1. IsRecord(flash, 1 - activeSector, 0)
        BY <1>2, <2>3, <2>5 DEF IsRecord
      <3>2. ~NoRecords(flash, acked)
        BY <1>1, <3>1 DEF NoRecords
      <3>3. ASSUME Home(flash, activeSector, nextSlot, acked)
            PROVE  FALSE
        <4>1. IsRecord(flash, activeSector, 0) /\ flash'[activeSector][0] = flash[activeSector][0]
          BY <1>1, <1>3, <2>3, <3>3
        <4>2. flash[1 - activeSector][0].sequence < flash[activeSector][0].sequence
          BY <1>1, <3>1, <3>3, <4>1 DEF Home, Newest, InOrder, Newer
        <4>3. flash'[activeSector][0].sequence < flash'[1 - activeSector][0].sequence
          <5>1. IsRecord(flash', 1 - activeSector, 0) /\ IsRecord(flash', activeSector, 0)
            BY <1>2, <2>5, <4>1 DEF IsRecord
          <5>2. Newest(flash', 1 - activeSector, acked)
            BY <2>5 DEF Home
          <5>3. QED
            BY <1>1, <5>1, <5>2 DEF Newest, InOrder, Newer
        <4>4. flash[activeSector][0].sequence \in Nat /\ flash[1 - activeSector][0].sequence \in Nat
          BY <1>1, <3>1, <4>1, CellFacts, LogAssumption DEF Contents, IsRecord
        <4>5. QED
          BY <2>3, <4>1, <4>2, <4>3, <4>4
      <3>4. Home(flash, 1 - activeSector, SlotCount, acked)
        BY <2>1, <3>2, <3>3 DEF Position, Rolled
      <3>5. k \in LogSlot /\ flash[1 - activeSector][k].kind \in {"torn", "record"}
        BY <3>4, LogAssumption DEF Home, Used, LogSlot
      <3>6. flash'[1 - activeSector][k].kind \in {"erased", "smudged"}
        BY <2>5, <3>5 DEF Home, Used
      <3>7. QED
        BY <2>3, <3>5, <3>6
    <2>6. QED
      BY <1>1, <2>4, <2>5, OneOrOther
  <1>7. QED
    BY <1>4, <1>5, <1>6 DEF LayoutInv, LogTypes, Crash

LEMMA WholeStep ==
  ASSUME LogInv, LogInv', WholeInv, [LogNext]_logVars
  PROVE  WholeInv'
  <1> SUFFICES ASSUME faults' = 0
               PROVE  WholeInv'
    BY DEF WholeInv
  <1>0. LogTypes /\ faults = 0 /\ ~Fault /\ LayoutInv
    <2>1. LogTypes /\ (faults' = faults \/ Fault)
      BY DEF LogInv, LogNext, Boot, StartAppend, EraseTarget, ProgramRecord, VerifyRecord, Crash, logVars
    <2>2. QED
      BY <2>1, FaultTypes DEF LogTypes, LogInv, Fault
  <1>1. ASSUME NEW u \in {{}} \cup OneSlot, Boot(u)
        PROVE  WholeInv'
    <2>1. u = {} /\ phase = "off" /\ flash' = flash /\ phase' \in {"idle", "erase"}
      BY <1>0, <1>1 DEF Boot, RollToSector
    <2>2. CASE NoRecords(flash, acked)
      <3>1. \A s \in Sector : ValidSlots(s, {}) = {}
        BY <2>2 DEF NoRecords, ValidSlots, IsRecord
      <3>2. phase' = "erase"
        BY <1>1, <2>1, <3>1 DEF Boot, RollToSector
      <3>3. QED
        BY <3>2 DEF WholeInv
    <2>3. ASSUME NEW h \in Sector, NEW k \in 1 .. SlotCount, Home(flash, h, k, acked)
          PROVE  WholeInv'
      <3>1. /\ k < SlotCount => activeSector' = h /\ phase' = "idle"
            /\ k = SlotCount => phase' = "erase"
        BY <1>0, <1>1, <2>1, <2>3, BootOfHome
      <3>2. k < SlotCount => Whole(flash, 1 - h)
        BY <1>0, <2>1, <2>3 DEF WholeInv
      <3>3. k < SlotCount \/ k = SlotCount
        BY LogAssumption
      <3>4. QED
        BY <2>1, <3>1, <3>2, <3>3 DEF WholeInv
    <2>4. QED
      BY <1>0, <2>1, <2>2, <2>3 DEF LayoutInv
  <1>2. ASSUME StartAppend
        PROVE  WholeInv'
    BY <1>0, <1>2 DEF WholeInv, StartAppend, RollToSector
  <1>3. ASSUME EraseTarget
        PROVE  WholeInv'
    <2>1. /\ phase = "erase" /\ activeSector' = rollTarget /\ phase' \in {"idle", "program"}
          /\ flash' = [flash EXCEPT ![rollTarget] = ErasedSector]
      BY <1>0, <1>3 DEF EraseTarget
    <2>2. /\ flash'[1 - rollTarget] = flash[1 - rollTarget]
          /\ \A s \in Sector, i \in LogSlot : IsRecord(flash', s, i) => flash'[s][i] = flash[s][i]
      BY <1>0, <2>1, ErasedOnly
    <2>3. Whole(flash, 1 - rollTarget)
      <3>1. CASE Home(flash, 1 - rollTarget, SlotCount, acked)
        BY <3>1, FullIsWhole
      <3>2. CASE NoRecords(flash, acked)
        <4>1. 1 - rollTarget \in Sector
          BY <1>0, OtherSector DEF LogTypes
        <4>2. QED
          BY <3>2, <4>1 DEF NoRecords, Whole
      <3>3. QED
        BY <1>0, <2>1, <3>1, <3>2 DEF LayoutInv
    <2>4. Whole(flash', 1 - rollTarget)
      BY <2>2, <2>3 DEF Whole, IsRecord
    <2>5. QED
      BY <2>1, <2>4 DEF WholeInv
  <1>4. ASSUME ProgramRecord
        PROVE  WholeInv'
    <2>1. /\ phase = "program" /\ SetSlot(Programmed) /\ phase' = "verify"
          /\ activeSector' = activeSector
      BY <1>0, <1>4 DEF ProgramRecord
    <2>2. /\ activeSector \in Sector /\ nextSlot \in LogSlot /\ flash \in [Sector -> [LogSlot -> Cell]]
      BY <1>0, <2>1, ProgrammedTypes DEF LogTypes
    <2>3. flash'[1 - activeSector] = flash[1 - activeSector]
      <3>1. PICK c : flash' = [flash EXCEPT ![activeSector][nextSlot] = c]
        BY <2>1 DEF SetSlot
      <3>2. QED
        BY <2>2, <3>1, OtherSector
    <2>4. Whole(flash', 1 - activeSector)
      BY <1>0, <2>1, <2>3 DEF WholeInv, Whole, IsRecord
    <2>5. QED
      BY <2>1, <2>4 DEF WholeInv
  <1>5. ASSUME VerifyRecord
        PROVE  WholeInv'
    BY <1>0, <1>5 DEF WholeInv, VerifyRecord, FinishAppend
  <1>6. ASSUME Crash
        PROVE  WholeInv'
    <2>1. phase' = "off" /\ acked' = acked
      BY <1>6 DEF Crash
    <2>2. phase \in {"idle", "program", "verify"} => Whole(flash, 1 - activeSector)
      BY <1>0 DEF WholeInv
    <2>3. \A h \in Sector, k \in 1 .. SlotCount :
            Home(flash', h, k, acked) /\ k < SlotCount => Whole(flash', 1 - h)
      BY <1>0, <1>6, <2>2, CrashWhole
    <2>4. QED
      BY <2>1, <2>3 DEF WholeInv
  <1>7. CASE UNCHANGED logVars
    BY <1>7 DEF logVars, WholeInv
  <1>8. QED
    BY <1>1, <1>2, <1>3, <1>4, <1>5, <1>6, <1>7 DEF LogNext

-----------------------------------------------------------------------------
(* What GetRecent collects from a sector whose records are in order. *)
LEMMA DownwardFacts ==
  ASSUME LogTypes, NEW s \in Sector, InOrder(flash, s), NEW count, NEW u
  PROVE  /\ Downward(s, count, u) \in Seq(Nat)
         /\ Falls(Downward(s, count, u))
         /\ ToSet(Downward(s, count, u)) =
              {flash[s][i].sequence : i \in RecordsBelow(s, count, u)}
  <1> DEFINE S == RecordsBelow(s, count, u)
             D == Descending(S)
             n == Cardinality(S)
             q == Downward(s, count, u)
  <1>1. /\ S \in SUBSET Nat /\ IsFiniteSet(S)
        /\ \A i \in S : i \in LogSlot /\ IsRecord(flash, s, i)
    <2>1. S \in SUBSET LogSlot
      BY DEF RecordsBelow
    <2>2. IsFiniteSet(LogSlot)
      <3>1. 0 \in Int /\ SlotCount - 1 \in Int
        BY LogAssumption
      <3>2. QED
        BY <3>1, FS_Interval DEF LogSlot
    <2>3. IsFiniteSet(S)
      BY <2>1, <2>2, FS_Subset
    <2>4. QED
      BY <2>1, <2>3, SlotFacts DEF RecordsBelow, IsRecord
  <1>2. q = [k \in DOMAIN D |-> flash[s][D[k]].sequence]
    BY DEF Downward
  <1> HIDE DEF S, D, q
  <1>3. /\ n \in Nat
        /\ DOMAIN D = 1 .. n
        /\ \A k \in 1 .. n : D[k] \in S
        /\ \A k, l \in 1 .. n : k < l => D[k] > D[l]
        /\ \A i \in S : \E k \in 1 .. n : D[k] = i
    BY <1>1, DescendingFacts DEF D
  <1> HIDE DEF n
  <1>4. \A i \in S : flash[s][i].sequence \in Nat
    <2>1. \A i \in S : flash[s][i] \in Cell
      BY <1>1 DEF LogTypes
    <2>2. QED
      BY <1>1, <2>1, CellFacts, LogAssumption DEF IsRecord
  <1>5. \A k \in 1 .. n : q[k] = flash[s][D[k]].sequence /\ q[k] \in Nat
    BY <1>2, <1>3, <1>4
  <1>6. q \in [1 .. n -> Nat]
    BY <1>2, <1>3, <1>5
  <1>7. q \in Seq(Nat) /\ Len(q) = n /\ DOMAIN q = 1 .. n
    BY <1>3, <1>6
  <1>8. Falls(q)
    <2> SUFFICES ASSUME NEW k \in 1 .. n, NEW l \in 1 .. n, k < l
                 PROVE  q[k] > q[l]
      BY <1>7 DEF Falls
    <2>1. /\ D[k] \in LogSlot /\ IsRecord(flash, s, D[k])
          /\ D[l] \in LogSlot /\ IsRecord(flash, s, D[l])
      BY <1>1, <1>3
    <2>2. D[k] > D[l] /\ D[k] \in Nat /\ D[l] \in Nat
      BY <1>1, <1>3
    <2>3. flash[s][D[l]].sequence < flash[s][D[k]].sequence
      BY <2>1, <2>2 DEF InOrder
    <2>4. QED
      BY <1>5, <2>3
  <1>9. ToSet(q) = {flash[s][i].sequence : i \in S}
    <2>1. ToSet(q) = {q[k] : k \in 1 .. n}
      BY <1>7 DEF ToSet
    <2>2. \A k \in 1 .. n : D[k] \in S /\ q[k] = flash[s][D[k]].sequence
      BY <1>3, <1>5
    <2>3. \A i \in S : \E k \in 1 .. n : q[k] = flash[s][i].sequence
      BY <1>3, <1>5
    <2>4. QED
      BY <2>1, <2>2, <2>3
  <1>10. QED
    BY <1>7, <1>8, <1>9 DEF q, S

(* The sequence numbers of the records of both sectors, as GetRecent lines  *)
(* them up before it stops at the capacity.                                 *)
Lined(u) ==
  Downward(activeSector, nextSlot, u)
    \o Downward(1 - activeSector, NextAvailableSlot(1 - activeSector, u), u)

LEMMA LinedFacts ==
  ASSUME LogTypes, Ordered(flash), Newer(flash, activeSector), NEW u
  PROVE  /\ Lined(u) \in Seq(Nat) /\ Falls(Lined(u))
         /\ ToSet(Lined(u)) =
              {flash[activeSector][i].sequence : i \in RecordsBelow(activeSector, nextSlot, u)}
                \cup {flash[1 - activeSector][i].sequence :
                        i \in RecordsBelow(1 - activeSector, NextAvailableSlot(1 - activeSector, u), u)}
  <1> DEFINE o == 1 - activeSector
             m == NextAvailableSlot(o, u)
             q == Downward(activeSector, nextSlot, u)
             r == Downward(o, m, u)
             Q == {flash[activeSector][i].sequence : i \in RecordsBelow(activeSector, nextSlot, u)}
             R == {flash[o][i].sequence : i \in RecordsBelow(o, m, u)}
  <1>1. activeSector \in Sector /\ o \in Sector /\ InOrder(flash, activeSector) /\ InOrder(flash, o)
    BY OtherSector DEF LogTypes, Ordered
  <1>2. q \in Seq(Nat) /\ Falls(q) /\ ToSet(q) = Q
    BY <1>1, DownwardFacts
  <1>3. r \in Seq(Nat) /\ Falls(r) /\ ToSet(r) = R
    BY <1>1, DownwardFacts
  <1>4. \A x \in Q, y \in R : y < x
    <2>1. \A s, c, i : i \in RecordsBelow(s, c, u) => i \in LogSlot /\ IsRecord(flash, s, i)
      BY DEF RecordsBelow, IsRecord
    <2> SUFFICES ASSUME NEW x \in Q, NEW y \in R
                 PROVE  y < x
      OBVIOUS
    <2>2. PICK i \in RecordsBelow(activeSector, nextSlot, u) : x = flash[activeSector][i].sequence
      OBVIOUS
    <2>3. PICK j \in RecordsBelow(o, m, u) : y = flash[o][j].sequence
      OBVIOUS
    <2>4. i \in LogSlot /\ IsRecord(flash, activeSector, i) /\ j \in LogSlot /\ IsRecord(flash, o, j)
      BY <2>1
    <2>5. QED
      BY <2>2, <2>3, <2>4 DEF Newer
  <1>5. Lined(u) = q \o r
    BY DEF Lined
  <1> HIDE DEF q, r, Q, R, o, m
  <1>6. \A i \in 1 .. Len(q), j \in 1 .. Len(r) : q[i] > r[j]
    <2> SUFFICES ASSUME NEW i \in 1 .. Len(q), NEW j \in 1 .. Len(r)
                 PROVE  q[i] > r[j]
      OBVIOUS
    <2>1. DOMAIN q = 1 .. Len(q) /\ DOMAIN r = 1 .. Len(r)
      BY <1>2, <1>3
    <2>2. q[i] \in ToSet(q) /\ r[j] \in ToSet(r)
      BY <2>1 DEF ToSet
    <2>3. r[j] < q[i]
      BY <1>2, <1>3, <1>4, <2>2
    <2>4. QED
      BY <2>3
  <1>7. q \o r \in Seq(Nat) /\ Falls(q \o r) /\ ToSet(q \o r) = ToSet(q) \cup ToSet(r)
    BY <1>2, <1>3, <1>6, TwoFalling
  <1>8. QED
    BY <1>2, <1>3, <1>5, <1>7 DEF Q, R, o, m

(* Without faults every record is lined up. *)
LEMMA AllLined ==
  ASSUME LogTypes, Ordered(flash), Behind(flash, activeSector, nextSlot),
         Whole(flash, 1 - activeSector)
  PROVE  ToSet(Lined({})) = Retained
  <1> DEFINE a == activeSector
             o == 1 - activeSector
             m == NextAvailableSlot(o, {})
  <1>1. a \in Sector /\ o \in Sector /\ LogSlot \subseteq Nat
    BY OtherSector, SlotFacts DEF LogTypes
  <1>2. \A s \in Sector, i \in LogSlot : IsRecord(flash, s, i) <=> flash[s][i].sequence # 0
    <2>1. \A s \in Sector, i \in LogSlot : flash[s][i] \in Cell
      BY DEF LogTypes
    <2>2. QED
      BY <2>1, CellFacts, LogAssumption DEF IsRecord
  <1>3. RecordsBelow(a, nextSlot, {}) = {i \in LogSlot : IsRecord(flash, a, i)}
    BY DEF RecordsBelow, Behind, IsRecord
  <1>4. \A i \in LogSlot : IsRecord(flash, o, i) => i < m
    <2> SUFFICES ASSUME NEW i \in LogSlot, IsRecord(flash, o, i)
                 PROVE  i < m
      OBVIOUS
    <2> DEFINE blank == ReadsErased(o, {})
    <2>1. blank \in SUBSET LogSlot /\ \A j \in blank : flash[o][j].kind \in {"erased", "smudged"}
      BY DEF ReadsErased
    <2>2. m = IF blank = {} THEN SlotCount ELSE Min(blank)
      BY DEF NextAvailableSlot
    <2> HIDE DEF blank, m
    <2>3. \A j \in blank : i < j
      <3> SUFFICES ASSUME NEW j \in blank
                   PROVE  i < j
        OBVIOUS
      <3>1. j # i /\ ~(j < i)
        BY <2>1 DEF Whole, IsRecord
      <3>2. QED
        BY <1>1, <2>1, <3>1
    <2>4. blank # {} => Min(blank) \in blank
      <3>1. blank # {} => \E n \in blank : \A l \in blank : n <= l
        BY <2>1, SlotFacts, LeastElement
      <3>2. QED
        BY <3>1 DEF Min
    <2>5. i < SlotCount
      BY LogAssumption DEF LogSlot
    <2>6. QED
      BY <2>2, <2>3, <2>4, <2>5
  <1> HIDE DEF m
  <1>5. RecordsBelow(o, m, {}) = {i \in LogSlot : IsRecord(flash, o, i)}
    BY <1>4 DEF RecordsBelow, IsRecord
  <1>6. ToSet(Lined({})) = {flash[a][i].sequence : i \in {i \in LogSlot : IsRecord(flash, a, i)}}
                             \cup {flash[o][i].sequence : i \in {i \in LogSlot : IsRecord(flash, o, i)}}
    <2>1. Newer(flash, activeSector)
      BY DEF Behind
    <2>2. ToSet(Lined({})) = {flash[a][i].sequence : i \in RecordsBelow(a, nextSlot, {})}
                               \cup {flash[o][i].sequence : i \in RecordsBelow(o, m, {})}
      BY <2>1, LinedFacts DEF m
    <2>3. QED
      BY <1>3, <1>5, <2>2
  <1>7. \A s \in Sector : s = a \/ s = o
    BY <1>1, OneOrOther
  <1> HIDE DEF a, o
  <1>8. QED
    BY <1>1, <1>2, <1>6, <1>7 DEF Retained

RecordInv == LogInv /\ OrderInv /\ WholeInv

LEMMA RecordInvariance == LogSpec => []RecordInv
  <1>1. LogInit => RecordInv
    <2> SUFFICES ASSUME LogInit
                 PROVE  RecordInv
      OBVIOUS
    <2>1. LogInv
      BY LogInvInit
    <2>2. phase = "off" /\ tainted = FALSE /\ \A s \in Sector, i \in LogSlot : ~IsRecord(flash, s, i)
      BY DEF LogInit, IsRecord, Erased
    <2>3. Ordered(flash)
      BY <2>2 DEF Ordered, InOrder
    <2>4. \A h \in Sector : Whole(flash, 1 - h)
      <3>1. \A h \in Sector : 1 - h \in Sector
        BY OtherSector
      <3>2. QED
        BY <2>2, <3>1 DEF Whole
    <2>5. QED
      BY <2>1, <2>2, <2>3, <2>4 DEF RecordInv, OrderInv, WholeInv, Ongoing
  <1>2. RecordInv /\ [LogNext]_logVars => RecordInv'
    BY LogInvStep, OrderStep, WholeStep DEF RecordInv
  <1>3. QED
    BY <1>1, <1>2, PTL DEF LogSpec

(* HealthCheckLog_GetRecent returns the newest records, newest first, for   *)
(* sectors of any size and any capacity: in order also when a slot cannot   *)
(* be read, and without leaving one out in between, wherever power fails,   *)
(* if the flash does what it is told.                                       *)
THEOREM RecentIsNewestFirstHolds == LogSpec => []RecentIsNewestFirst
  <1>1. ASSUME RecordInv, Readable
        PROVE  RecentIsNewestFirst
    <2> DEFINE Recent(u) == GetRecent(MaxResults, u)
    <2>1. LogTypes /\ phase = "idle" /\ MaxResults \in Nat
      BY <1>1, LogAssumption DEF RecordInv, LogInv, Readable
    <2>2. \A u : Recent(u) = First(Lined(u), MaxResults)
      BY DEF GetRecent, Lined, First
    <2>3. ~tainted => Ordered(flash) /\ Behind(flash, activeSector, nextSlot)
      BY <1>1, <2>1 DEF RecordInv, OrderInv, Ongoing, Placed
    <2> HIDE DEF Recent
    <2>4. ASSUME ~tainted, NEW u
          PROVE  /\ Recent(u) \in Seq(Nat) /\ Falls(Recent(u))
                 /\ Cardinality(ToSet(Recent(u))) = Min({MaxResults, Cardinality(ToSet(Lined(u)))})
                 /\ \A x \in ToSet(Recent(u)), y \in ToSet(Lined(u)) \ ToSet(Recent(u)) : y < x
      <3>1. Lined(u) \in Seq(Nat) /\ Falls(Lined(u))
        BY <2>1, <2>3, <2>4, LinedFacts DEF Behind
      <3>2. QED
        BY <2>1, <2>2, <3>1, FirstOfFalling
    <2>5. ASSUME ~tainted, NEW u,
                 NEW i \in DOMAIN Recent(u), NEW j \in DOMAIN Recent(u), i < j
          PROVE  Recent(u)[i] > Recent(u)[j]
      <3>1. Recent(u) \in Seq(Nat) /\ Falls(Recent(u))
        BY <2>4, <2>5
      <3>2. DOMAIN Recent(u) = 1 .. Len(Recent(u))
        BY <3>1
      <3>3. QED
        BY <2>5, <3>1, <3>2 DEF Falls
    <2>6. ASSUME faults = 0
          PROVE  /\ Cardinality(ToSet(Recent({}))) = Min({MaxResults, Cardinality(Retained)})
                 /\ \A n \in ToSet(Recent({})), m \in Retained \ ToSet(Recent({})) : m < n
      <3>1. ~tainted /\ Whole(flash, 1 - activeSector)
        BY <1>1, <2>1, <2>6 DEF RecordInv, OrderInv, WholeInv
      <3>2. ToSet(Lined({})) = Retained
        BY <2>1, <2>3, <3>1, AllLined
      <3>3. QED
        BY <2>4, <3>1, <3>2
    <2>7. QED
      BY <2>5, <2>6 DEF RecentIsNewestFirst, Recent
  <1>2. RecordInv => RecentIsNewestFirst
    BY <1>1 DEF RecentIsNewestFirst
  <1>3. QED
    BY <1>2, RecordInvariance, PTL
=============================================================================
