---------------------------- MODULE CheckPipeline ----------------------------
(***************************************************************************)
(* From a check to its callback.  The health-check task checks the          *)
(* resources it copied at the start of a round one after the other, warns   *)
(* of certificates about to expire, and queues the failures that reached    *)
(* the log.  The callback task delivers them to the configured target.      *)
(* Both speak TLS through one transport, which a lock serialises; the       *)
(* management API holds the same lock while it serves a request, and may    *)
(* change the callback target meanwhile.                                    *)
(*                                                                          *)
(* Every FreeRTOS call is a step of its own, and so is every stage of a     *)
(* TLS request, each of which may fail.  The clock is the environment's:    *)
(* it runs, and NTP sets it forwards or backwards, between any two checks.  *)
(***************************************************************************)
EXTENDS Naturals, Sequences

CONSTANTS
  Slot,           \* resource slots, checked in ascending order
  Certificates,   \* expiry dates the server of a slot may present, 0 unknown
  Clock,          \* values of the clock, whose years end in 2099
  ClockModulus,   \* its range: differences of clock values wrap
  Window,         \* CERTIFICATE_WARNING_WINDOW_SECONDS
  Period,         \* CERTIFICATE_WARNING_PERIOD_SECONDS
  QueueLength,    \* CALLBACK_QUEUE_LENGTH
  MaxSequence,    \* bound on the log's sequence numbers
  MaxVersion      \* bound on the changes of the callback configuration

ASSUME PipelineAssumption ==
  /\ Slot \subseteq Nat
  /\ Certificates \in [Slot -> SUBSET Nat]
  /\ Clock \subseteq 1 .. ClockModulus - Period
  /\ ClockModulus \in Nat
  /\ Window \in Nat
  /\ Period \in Nat \ {0}
  /\ QueueLength \in Nat \ {0}
  /\ MaxSequence \in Nat
  /\ MaxVersion \in Nat

VARIABLES
  pc,                        \* where the health-check and the callback task are
  stage,                     \* where their TLS requests are
  result,                    \* what the check has found out
  lock,                      \* who holds the TLS lock
  buffer,                    \* whose text the shared request buffer holds
  sockets,                   \* tasks with an open connection
  round,                     \* enabled slots of the copied resources still to be checked
  certificateWarningExpiry,
  certificateWarningTime,
  lastWarning,               \* history: the last warning posted for a slot
  sequence,                  \* the last sequence number of the log
  logEntry,                  \* the failure that is being queued
  callbackQueue,
  event,                     \* what the callback task took from the queue
  config,                    \* the callback configuration: version, enabled
  target,                    \* the callback task's copy of it
  fate                       \* history: failures logged, those taken, those dropped

requestVars == <<stage, result, lock, buffer, sockets>>
warningVars == <<certificateWarningExpiry, certificateWarningTime, lastWarning>>
queueVars == <<sequence, logEntry, callbackQueue, fate>>
callbackVars == <<event, target>>
vars == <<pc, requestVars, round, warningVars, queueVars, callbackVars,
          config>>

Task == {"check", "callback"}
Nobody == "nobody"
NoResult == [status |-> "error", http |-> "none", expiry |-> 0]
NoTarget == [version |-> 0, enabled |-> FALSE]
NoEvent == [sequence |-> 0, version |-> 0]

Init ==
  /\ pc = [check |-> "waiting", callback |-> "receive"]
  /\ stage = [t \in Task |-> "none"]
  /\ result = NoResult
  /\ lock = Nobody
  /\ buffer = Nobody
  /\ sockets = {}
  /\ round = {}
  /\ certificateWarningExpiry = [s \in Slot |-> 0]
  /\ certificateWarningTime = [s \in Slot |-> 0]
  /\ lastWarning = [s \in Slot |-> [expiry |-> 0, at |-> 0]]
  /\ sequence = 0
  /\ logEntry = NoEvent
  /\ callbackQueue = <<>>
  /\ event = NoEvent
  /\ config \in [version : {0}, enabled : BOOLEAN]
  /\ target = NoTarget
  /\ fate = [failed |-> {}, taken |-> {}, dropped |-> {}]

-----------------------------------------------------------------------------
(* The slot being checked. *)
index == CHOOSE s \in round : \A r \in round : s <= r

(* The stages of TlsTransport_Request: random numbers, trust anchor, TLS     *)
(* configuration and host name; resolving and connecting; the handshake     *)
(* with a verified certificate; composing the request in the shared buffer; *)
(* sending it and reading the status line.                                  *)
After ==
  [prepare |-> "connect", connect |-> "handshake", handshake |-> "compose",
   compose |-> "exchange", exchange |-> "cleanup"]

Stage == DOMAIN After

(* Mutant: the request does not wait for the lock. *)
LockWithoutWaiting(t) ==
  /\ stage[t] = "lock"
  /\ lock' = t
  /\ stage' = [stage EXCEPT ![t] = "prepare"]

Lock(t) ==
  /\ stage[t] = "lock"
  /\ lock = Nobody
  /\ lock' = t
  /\ stage' = [stage EXCEPT ![t] = "prepare"]

TakeLock(t) ==
  /\ Lock(t)
  /\ UNCHANGED <<pc, result, buffer, sockets, round, warningVars,
                 queueVars, callbackVars, config>>

(* portMAX_DELAY is a finite wait: the request then fails unstarted. *)
LockTimesOut(t) ==
  /\ stage[t] = "lock"
  /\ lock # Nobody
  /\ stage' = [stage EXCEPT ![t] = "done"]
  /\ UNCHANGED <<pc, result, lock, buffer, sockets, round, warningVars,
                 queueVars, callbackVars, config>>

(* A peer that closes the connection instead of answering is read as a      *)
(* success without a status.                                                *)
StageSucceeds(t) ==
  /\ stage[t] \in Stage
  /\ stage' = [stage EXCEPT ![t] = After[stage[t]]]
  /\ sockets' = IF stage[t] = "connect" THEN sockets \cup {t} ELSE sockets
  /\ buffer' = IF stage[t] = "compose" THEN t ELSE buffer
  /\ \/ /\ t = "check" /\ stage[t] = "handshake"
        /\ \E e \in Certificates[index] : result' = [result EXCEPT !.expiry = e]
     \/ /\ t = "check" /\ stage[t] = "exchange"
        /\ \E h \in {"200", "none"} :
             result' = [result EXCEPT !.status = "ok", !.http = h]
     \/ /\ t = "check" => stage[t] \notin {"handshake", "exchange"}
        /\ UNCHANGED result
  /\ UNCHANGED <<pc, lock, round, warningVars, queueVars, callbackVars, config>>

StageFails(t) ==
  /\ stage[t] \in Stage
  /\ stage' = [stage EXCEPT ![t] = "cleanup"]
  /\ UNCHANGED <<pc, result, lock, buffer, sockets, round, warningVars, queueVars,
                 callbackVars, config>>

(* Mutant: the lock is not given back. *)
CleanupKeepingLock(t) ==
  /\ stage[t] = "cleanup"
  /\ sockets' = sockets \ {t}
  /\ buffer' = Nobody
  /\ stage' = [stage EXCEPT ![t] = "done"]
  /\ UNCHANGED <<pc, result, lock, round, warningVars, queueVars, callbackVars, config>>

Cleanup(t) ==
  /\ stage[t] = "cleanup"
  /\ sockets' = sockets \ {t}
  /\ buffer' = Nobody
  /\ lock' = Nobody
  /\ stage' = [stage EXCEPT ![t] = "done"]
  /\ UNCHANGED <<pc, result, round, warningVars, queueVars,
                 callbackVars, config>>

Request(t) ==
  /\ stage' = [stage EXCEPT ![t] = "lock"]
  /\ UNCHANGED <<result, lock, buffer, sockets>>

-----------------------------------------------------------------------------
(* healthCheckService_Task: the resources are copied once for a round, and  *)
(* those of the copy that are enabled are checked in the order of slots.    *)
(* When the network and the clock allow it, and what the API has configured *)
(* by then, is left to the environment.                                     *)
StartRound ==
  /\ pc.check = "waiting"
  /\ round' \in SUBSET Slot
  /\ pc' = [pc EXCEPT !.check = "next"]
  /\ UNCHANGED <<requestVars, warningVars, queueVars, callbackVars, config>>

CheckResource ==
  /\ pc.check = "next"
  /\ round # {}
  /\ pc' = [pc EXCEPT !.check = "request"]
  /\ Request("check")
  /\ UNCHANGED <<round, warningVars, queueVars, callbackVars, config>>

NextResource ==
  /\ round' = round \ {index}
  /\ pc' = [pc EXCEPT !.check = "next"]

EndRound ==
  /\ pc.check = "next"
  /\ round = {}
  /\ pc' = [pc EXCEPT !.check = "waiting"]
  /\ UNCHANGED <<requestVars, round, warningVars, queueVars, callbackVars,
                 config>>

(* Unsigned difference of two clock values. *)
Elapsed(now, since) == (now + ClockModulus - since) % ClockModulus

InWindow(expiry, now) == expiry <= now \/ expiry - now <= Window

(* Mutant: the difference is compared as a signed number. *)
RecentlyWarnedSigned(previous, now) ==
  previous # 0 /\ now < previous + Period

RecentlyWarned(previous, now) ==
  previous # 0 /\ Elapsed(now, previous) < Period

(* healthCheckService_CheckCertificateExpiry.  What a warning does is       *)
(* CertificateExpiryWarning of BuzzerService; here it is noted.             *)
CheckCertificateExpiry(s, expiry, now) ==
  LET previous == IF certificateWarningExpiry[s] = expiry
                  THEN certificateWarningTime[s] ELSE 0
      warn == InWindow(expiry, now) /\ ~RecentlyWarned(previous, now)
  IN /\ certificateWarningExpiry' = [certificateWarningExpiry EXCEPT ![s] = expiry]
     /\ certificateWarningTime' =
          [certificateWarningTime EXCEPT ![s] = IF warn THEN now ELSE previous]
     /\ lastWarning' = IF warn
                       THEN [lastWarning EXCEPT ![s] = [expiry |-> expiry, at |-> now]]
                       ELSE lastWarning

ConsiderCertificate(now) ==
  /\ pc.check = "request"
  /\ stage["check"] = "done"
  /\ stage' = [stage EXCEPT !["check"] = "none"]
  /\ \/ /\ result.expiry = 0
        /\ UNCHANGED warningVars
     \/ /\ result.expiry # 0
        /\ CheckCertificateExpiry(index, result.expiry, now)
  /\ pc' = [pc EXCEPT !.check = "append"]
  /\ UNCHANGED <<result, lock, buffer, sockets, round, queueVars,
                 callbackVars, config>>

Healthy(r) == r.status = "ok" /\ r.http = "200"

(* HealthCheckLog_Append: a result that is not persisted is not reported.   *)
(* The alert of an unhealthy result is Alert of BuzzerService.              *)
AppendFails ==
  /\ pc.check = "append"
  /\ NextResource
  /\ result' = NoResult
  /\ UNCHANGED <<stage, lock, buffer, sockets, warningVars, queueVars, callbackVars,
                 config>>

AppendResult ==
  /\ pc.check = "append"
  /\ sequence < MaxSequence
  /\ sequence' = sequence + 1
  /\ result' = NoResult
  /\ IF Healthy(result)
     THEN /\ NextResource
          /\ UNCHANGED <<logEntry, fate>>
     ELSE /\ pc' = [pc EXCEPT !.check = "send"]
          /\ logEntry' = [sequence |-> sequence + 1, version |-> config.version]
          /\ fate' = [fate EXCEPT !.failed = @ \cup {sequence + 1}]
          /\ UNCHANGED round
  /\ UNCHANGED <<stage, lock, buffer, sockets, warningVars, callbackQueue, callbackVars,
                 config>>

-----------------------------------------------------------------------------
(* CallbackService_Enqueue.  None of its three queue calls waits; the       *)
(* callback task may take an event between any two of them.                 *)
Full == Len(callbackQueue) = QueueLength

Send ==
  /\ pc.check = "send"
  /\ IF Full
     THEN /\ pc' = [pc EXCEPT !.check = "discard"]
          /\ UNCHANGED <<callbackQueue, logEntry, round>>
     ELSE /\ callbackQueue' = Append(callbackQueue, logEntry)
          /\ logEntry' = NoEvent
          /\ NextResource
  /\ UNCHANGED <<requestVars, warningVars, sequence, fate, callbackVars, config>>

(* Mutant: the new event takes the place of the one before it. *)
DiscardNewest ==
  /\ pc.check = "discard"
  /\ IF callbackQueue = <<>>
     THEN UNCHANGED <<callbackQueue, fate>>
     ELSE /\ callbackQueue' = SubSeq(callbackQueue, 1, Len(callbackQueue) - 1)
          /\ fate' = [fate EXCEPT !.dropped =
                        @ \cup {callbackQueue[Len(callbackQueue)].sequence}]
  /\ pc' = [pc EXCEPT !.check = "resend"]
  /\ UNCHANGED <<requestVars, round, warningVars, sequence, logEntry,
                 callbackVars, config>>

Discard ==
  /\ pc.check = "discard"
  /\ IF callbackQueue = <<>>
     THEN UNCHANGED <<callbackQueue, fate>>
     ELSE /\ callbackQueue' = Tail(callbackQueue)
          /\ fate' = [fate EXCEPT !.dropped = @ \cup {Head(callbackQueue).sequence}]
  /\ pc' = [pc EXCEPT !.check = "resend"]
  /\ UNCHANGED <<requestVars, round, warningVars, sequence, logEntry,
                 callbackVars, config>>

Resend ==
  /\ pc.check = "resend"
  /\ callbackQueue' = IF Full THEN callbackQueue ELSE Append(callbackQueue, logEntry)
  /\ logEntry' = NoEvent
  /\ NextResource
  /\ UNCHANGED <<requestVars, warningVars, sequence, fate, callbackVars, config>>

-----------------------------------------------------------------------------
(* callbackService_Task.  The configuration is read after an event arrived. *)
TakeEvent ==
  /\ callbackQueue # <<>>
  /\ event' = Head(callbackQueue)
  /\ callbackQueue' = Tail(callbackQueue)
  /\ fate' = [fate EXCEPT !.taken = @ \cup {Head(callbackQueue).sequence}]

Receive ==
  /\ pc.callback = "receive"
  /\ TakeEvent
  /\ pc' = [pc EXCEPT !.callback = "get"]
  /\ UNCHANGED <<requestVars, round, warningVars, sequence, logEntry,
                 target, config>>

(* Mutant: the configuration of start-up is used. *)
GetCachedConfig ==
  /\ pc.callback = "get"
  /\ \E enabled \in BOOLEAN : target' = [version |-> 0, enabled |-> enabled]
  /\ pc' = [pc EXCEPT !.callback = "decide"]
  /\ UNCHANGED <<requestVars, round, warningVars, queueVars, event, config>>

GetConfig ==
  /\ pc.callback = "get"
  /\ target' = config
  /\ pc' = [pc EXCEPT !.callback = "decide"]
  /\ UNCHANGED <<requestVars, round, warningVars, queueVars, event, config>>

NextEvent ==
  /\ event' = NoEvent
  /\ target' = NoTarget
  /\ pc' = [pc EXCEPT !.callback = "receive"]

(* An event that is not to be sent, or whose text would not fit, is dropped. *)
Skip ==
  /\ pc.callback = "decide"
  /\ NextEvent
  /\ UNCHANGED <<requestVars, round, warningVars, queueVars, config>>

Deliver ==
  /\ pc.callback = "decide"
  /\ target.enabled
  /\ pc' = [pc EXCEPT !.callback = "request"]
  /\ Request("callback")
  /\ UNCHANGED <<round, warningVars, queueVars, callbackVars, config>>

(* The outcome is printed; a delivery that failed is not tried again. *)
FinishDelivery ==
  /\ pc.callback = "request"
  /\ stage["callback"] = "done"
  /\ stage' = [stage EXCEPT !["callback"] = "none"]
  /\ NextEvent
  /\ UNCHANGED <<result, lock, buffer, sockets, round, warningVars, queueVars,
                 config>>

-----------------------------------------------------------------------------
(* apiService_Task: one request at a time, under the TLS lock. *)
ApiAccept ==
  /\ lock = Nobody
  /\ lock' = "api"
  /\ UNCHANGED <<pc, stage, result, buffer, sockets, round, warningVars,
                 queueVars, callbackVars, config>>

ApiChangeCallback ==
  /\ lock = "api"
  /\ config.version < MaxVersion
  /\ \E enabled \in BOOLEAN :
       config' = [version |-> config.version + 1, enabled |-> enabled]
  /\ UNCHANGED <<pc, requestVars, round, warningVars, queueVars,
                 callbackVars>>

ApiClose ==
  /\ lock = "api"
  /\ lock' = Nobody
  /\ UNCHANGED <<pc, stage, result, buffer, sockets, round, warningVars,
                 queueVars, callbackVars, config>>

-----------------------------------------------------------------------------
RequestStep(t) ==
  \/ StageSucceeds(t)
  \/ StageFails(t)
  \/ Cleanup(t)

CheckStep ==
  \/ CheckResource
  \/ EndRound
  \/ \E now \in Clock : ConsiderCertificate(now)
  \/ AppendFails
  \/ AppendResult
  \/ Send
  \/ Discard
  \/ Resend

CallbackStep ==
  \/ Receive
  \/ GetConfig
  \/ Skip
  \/ Deliver
  \/ FinishDelivery

Next ==
  \/ \E t \in Task : TakeLock(t) \/ LockTimesOut(t) \/ RequestStep(t)
  \/ StartRound
  \/ CheckStep
  \/ CallbackStep
  \/ ApiAccept
  \/ ApiChangeCallback
  \/ ApiClose

Spec == Init /\ [][Next]_vars

(* Tasks of one priority are time-sliced, so each goes on with its work;    *)
(* every socket operation has a timeout, so every stage ends and so does a  *)
(* request to the API; the lock goes to the task that has waited longest    *)
(* when it is next scheduled, so nobody who waits is passed over for ever.  *)
Fairness ==
  /\ WF_vars(CheckStep)
  /\ WF_vars(CallbackStep)
  /\ WF_vars(ApiClose)
  /\ \A t \in Task : SF_vars(TakeLock(t)) /\ WF_vars(RequestStep(t))

FairSpec == Spec /\ Fairness

-----------------------------------------------------------------------------
TypeOK ==
  /\ pc \in [check : {"waiting", "next", "request", "append", "send", "discard", "resend"},
             callback : {"receive", "get", "decide", "request"}]
  /\ stage \in [Task -> Stage \cup {"none", "lock", "cleanup", "done"}]
  /\ \A t \in Task : stage[t] # "none" <=> pc[t] = "request"
  /\ lock \in Task \cup {"api", Nobody}
  /\ buffer \in Task \cup {Nobody}
  /\ sockets \in SUBSET Task
  /\ round \in SUBSET Slot
  /\ sequence \in 0 .. MaxSequence
  /\ logEntry \in [sequence : 0 .. sequence, version : 0 .. config.version]
  /\ callbackQueue \in Seq([sequence : 1 .. sequence, version : 0 .. config.version])
  /\ Len(callbackQueue) <= QueueLength
  /\ event \in [sequence : 0 .. sequence, version : 0 .. config.version]
  /\ config \in [version : 0 .. MaxVersion, enabled : BOOLEAN]
  /\ target \in [version : 0 .. config.version, enabled : BOOLEAN]

(* One conversation at a time: whoever is inside a request holds the TLS    *)
(* lock, sends the text it composed itself although the buffer is shared,   *)
(* and no connection outlives its request, whatever stage it failed in.     *)
OneConversation ==
  /\ \A t \in Task :
       /\ stage[t] \in Stage \cup {"cleanup"} => lock = t
       /\ stage[t] = "exchange" => buffer = t
  /\ sockets \subseteq {lock}

(* The failures that reached the log are neither lost nor repeated on their *)
(* way to the callback task, however its receives fall between the three    *)
(* calls that make room: each is still to be queued, queued, taken or       *)
(* dropped, they are taken in order, and what is dropped is older than all  *)
(* that is pending.                                                         *)
Pending == {callbackQueue[i].sequence : i \in DOMAIN callbackQueue}

InHand == IF pc.check \in {"send", "discard", "resend"} THEN {logEntry.sequence} ELSE {}

OldestDropped ==
  /\ fate.failed = fate.taken \cup fate.dropped \cup Pending \cup InHand
  /\ fate.taken \cap fate.dropped = {}
  /\ \A g \in fate.taken \cup fate.dropped, p \in Pending \cup InHand : g < p
  /\ \A p \in Pending, h \in InHand : p < h
  /\ \A i, j \in DOMAIN callbackQueue :
       i < j => callbackQueue[i].sequence < callbackQueue[j].sequence

(* A failure that is recorded after the callback configuration was changed  *)
(* is never delivered by the older one, to a target that was replaced or    *)
(* although callbacks were disabled.                                        *)
DeliveredByCurrentTarget ==
  pc.callback = "request" => target.version >= event.version /\ target.enabled

(* Inside the warning window a check keeps silent only because a warning    *)
(* for the same certificate was given less than a period ago by the clock:  *)
(* neither a clock that was set back nor the certificate before it does.    *)
SilentOnlyAfterWarning ==
  [][\A now \in Clock :
       LET expiry == result.expiry
       IN ConsiderCertificate(now) /\ expiry # 0 /\ InWindow(expiry, now) =>
            /\ lastWarning'[index].expiry = expiry
            /\ lastWarning'[index].at \in now - (Period - 1) .. now]_vars

(* Every round ends, although the API and the callback task compete for the *)
(* lock, requests fail at any stage and the queue is full.                  *)
RoundsEnd == pc.check = "next" ~> pc.check = "waiting"
=============================================================================
