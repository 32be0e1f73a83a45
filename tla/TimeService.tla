----------------------------- MODULE TimeService -----------------------------
(***************************************************************************)
(* The time service asks an NTP server for the time, again and again, and   *)
(* sets the hardware clock.  Its task wakes once a second; the callbacks    *)
(* of the lwIP thread, which may preempt the task between any two of its    *)
(* accesses, share the variables syncState and receivedUnixTime with it.    *)
(* Nothing says which request an answer belongs to: answers are delayed,    *)
(* duplicated and lost, and are taken in any state.                         *)
(*                                                                          *)
(* An answer is a time the clock accepts ("accepted"), one it refuses       *)
(* ("refused", outside of 2000 .. 2099), or a packet that is not an answer  *)
(* or has no valid time in it.  Calendar says how a time is kept.           *)
(***************************************************************************)
EXTENDS Naturals, Calendar

CONSTANTS
  RetrySeconds,    \* TIME_NTP_RETRY_SECONDS
  ResyncSeconds,   \* TIME_NTP_RESYNC_SECONDS
  TimeoutSeconds,  \* TIME_NTP_TIMEOUT_SECONDS
  MaxInFlight,     \* bound on name lookups and on answers under way
  MaxAge           \* bound on the age of an answer, in seconds

ASSUME TimeAssumption ==
  /\ RetrySeconds \in Nat
  /\ ResyncSeconds \in Nat
  /\ TimeoutSeconds \in Nat \ {0}
  /\ MaxInFlight \in Nat \ {0}
  /\ MaxAge \in Nat \ {0}

VARIABLES
  pc,                \* where the task is
  syncState,
  receivedUnixTime,  \* "none" for 0
  unixTime,          \* the task's copy of it
  retrySeconds,
  requestSeconds,
  synchronized,      \* the marker in the backup register
  ready,             \* Lwip_IsReady, the environment's
  posted,            \* whether StartRequest is queued for the lwIP thread
  lookups,           \* name lookups under way
  answers,           \* answers under way
  age,               \* history: seconds since receivedUnixTime arrived
  offline            \* history: whether the task has found the network down since

taskVars == <<pc, unixTime, retrySeconds, requestSeconds, synchronized>>
requestVars == <<ready, posted, lookups, answers>>
timeVars == <<taskVars, syncState, receivedUnixTime, requestVars, age, offline>>

TimeInit ==
  /\ pc = "wake"
  /\ syncState = "idle"
  /\ receivedUnixTime = "none"
  /\ unixTime = "none"
  /\ retrySeconds = 0
  /\ requestSeconds = 0
  /\ synchronized \in BOOLEAN
  /\ ready = FALSE
  /\ posted = FALSE
  /\ lookups = 0
  /\ answers = 0
  /\ age = 0
  /\ offline = FALSE

-----------------------------------------------------------------------------
(* timeService_Task.  Reads of the shared variables that decide together    *)
(* are one step; a write that follows from a read is the next one.          *)
Wake ==
  /\ pc = "wake"
  /\ pc' = IF ready THEN "receive" ELSE "sleep"
  /\ offline' = (offline \/ ~ready)
  /\ UNCHANGED <<syncState, receivedUnixTime, unixTime, retrySeconds, requestSeconds,
                 synchronized, requestVars, age>>

TakeAnswer ==
  /\ pc = "receive"
  /\ IF syncState = "received" /\ receivedUnixTime # "none"
     THEN /\ pc' = "set"
          /\ unixTime' = receivedUnixTime
     ELSE /\ pc' = "failed"
          /\ UNCHANGED unixTime
  /\ UNCHANGED <<syncState, receivedUnixTime, retrySeconds, requestSeconds, synchronized,
                 requestVars, age, offline>>

(* receivedUnixTime is cleared before the clock is set.  The clock refuses  *)
(* a time outside of its range, and its registers may fail to answer.       *)
SetClock ==
  /\ pc = "set"
  /\ receivedUnixTime' = "none"
  /\ unixTime' = "none"
  /\ \/ /\ unixTime = "accepted"
        /\ synchronized' = TRUE
        /\ pc' = "done"
     \/ /\ pc' = "notSet"
        /\ UNCHANGED synchronized
  /\ UNCHANGED <<syncState, retrySeconds, requestSeconds, requestVars, age, offline>>

ClockIsSet ==
  /\ pc = "done"
  /\ syncState' = "idle"
  /\ retrySeconds' = ResyncSeconds
  /\ requestSeconds' = 0
  /\ pc' = "failed"
  /\ UNCHANGED <<receivedUnixTime, unixTime, synchronized, requestVars, age, offline>>

ClockIsNotSet ==
  /\ pc = "notSet"
  /\ syncState' = "failed"
  /\ pc' = "failed"
  /\ UNCHANGED <<receivedUnixTime, unixTime, retrySeconds, requestSeconds, synchronized,
                 requestVars, age, offline>>

SeeFailure ==
  /\ pc = "failed"
  /\ pc' = IF syncState = "failed" THEN "reset" ELSE "request"
  /\ UNCHANGED <<syncState, receivedUnixTime, unixTime, retrySeconds, requestSeconds,
                 synchronized, requestVars, age, offline>>

Reset ==
  /\ pc = "reset"
  /\ syncState' = "idle"
  /\ retrySeconds' = RetrySeconds
  /\ requestSeconds' = 0
  /\ pc' = "request"
  /\ UNCHANGED <<receivedUnixTime, unixTime, synchronized, requestVars, age, offline>>

DecideRequest ==
  /\ pc = "request"
  /\ IF retrySeconds = 0 /\ syncState = "idle"
     THEN /\ pc' = "begin"
          /\ UNCHANGED retrySeconds
     ELSE /\ pc' = "timeout"
          /\ retrySeconds' = IF retrySeconds > 0 THEN retrySeconds - 1 ELSE 0
  /\ UNCHANGED <<syncState, receivedUnixTime, unixTime, requestSeconds, synchronized,
                 requestVars, age, offline>>

BeginRequest ==
  /\ pc = "begin"
  /\ syncState' = "pending"
  /\ requestSeconds' = 0
  /\ pc' = "post"
  /\ UNCHANGED <<receivedUnixTime, unixTime, retrySeconds, synchronized, requestVars, age,
                 offline>>

(* tcpip_callback fails when the thread's mailbox is full. *)
PostRequest ==
  /\ pc = "post"
  /\ \/ /\ ~posted
        /\ posted' = TRUE
        /\ pc' = "timeout"
     \/ /\ pc' = "notPosted"
        /\ UNCHANGED posted
  /\ UNCHANGED <<syncState, receivedUnixTime, unixTime, retrySeconds, requestSeconds,
                 synchronized, ready, lookups, answers, age, offline>>

RequestNotPosted ==
  /\ pc = "notPosted"
  /\ syncState' = "failed"
  /\ pc' = "timeout"
  /\ UNCHANGED <<receivedUnixTime, unixTime, retrySeconds, requestSeconds, synchronized,
                 requestVars, age, offline>>

(* Mutant: a request that is not answered stays pending. *)
NoTimeout ==
  /\ pc = "timeout"
  /\ pc' = "sleep"
  /\ UNCHANGED <<syncState, receivedUnixTime, unixTime, retrySeconds, requestSeconds,
                 synchronized, requestVars, age, offline>>

CheckTimeout ==
  /\ pc = "timeout"
  /\ IF syncState = "pending"
     THEN /\ requestSeconds' = requestSeconds + 1
          /\ pc' = IF requestSeconds + 1 >= TimeoutSeconds THEN "expire" ELSE "sleep"
     ELSE /\ pc' = "sleep"
          /\ UNCHANGED requestSeconds
  /\ UNCHANGED <<syncState, receivedUnixTime, unixTime, retrySeconds, synchronized, requestVars,
                 age, offline>>

(* Written without looking again: an answer that has just come is lost. *)
ExpireRequest ==
  /\ pc = "expire"
  /\ syncState' = "failed"
  /\ pc' = "sleep"
  /\ UNCHANGED <<receivedUnixTime, unixTime, retrySeconds, requestSeconds, synchronized,
                 requestVars, age, offline>>

Sleep ==
  /\ pc = "sleep"
  /\ pc' = "wake"
  /\ age' = IF receivedUnixTime # "none" /\ age < MaxAge THEN age + 1 ELSE age
  /\ UNCHANGED <<syncState, receivedUnixTime, unixTime, retrySeconds, requestSeconds,
                 synchronized, requestVars, offline>>

-----------------------------------------------------------------------------
(* The callbacks, each a step of the lwIP thread.  timeService_SendRequest  *)
(* cannot connect, allocate or send, or an answer is on its way, perhaps    *)
(* twice.                                                                   *)
SendRequest ==
  \/ /\ syncState' = "failed"
     /\ UNCHANGED answers
  \/ /\ \E copies \in 1 .. 2 : answers + copies <= MaxInFlight /\ answers' = answers + copies
     /\ UNCHANGED syncState
  \/ UNCHANGED <<syncState, answers>>

(* The server's name is known, is looked up, or cannot be. *)
StartRequest ==
  /\ posted
  /\ posted' = FALSE
  /\ \/ /\ SendRequest
        /\ UNCHANGED lookups
     \/ /\ lookups < MaxInFlight
        /\ lookups' = lookups + 1
        /\ UNCHANGED <<syncState, answers>>
     \/ /\ syncState' = "failed"
        /\ UNCHANGED <<lookups, answers>>
  /\ UNCHANGED <<taskVars, receivedUnixTime, ready, age, offline>>

DnsCallback ==
  /\ lookups > 0
  /\ lookups' = lookups - 1
  /\ \/ SendRequest
     \/ /\ syncState' = "failed"
        /\ UNCHANGED answers
  /\ UNCHANGED <<taskVars, receivedUnixTime, ready, posted, age, offline>>

(* Mutant: an invalid answer falls back on the time received before. *)
ReceiveFallingBack(answer) ==
  /\ answers > 0
  /\ answers' = answers - 1
  /\ IF answer = "invalid"
     THEN /\ syncState' = IF receivedUnixTime = "none" THEN "failed" ELSE "received"
          /\ UNCHANGED <<receivedUnixTime, age, offline>>
     ELSE /\ syncState' = "received"
          /\ receivedUnixTime' = answer
          /\ age' = 0
          /\ offline' = FALSE
  /\ UNCHANGED <<taskVars, ready, posted, lookups>>

Receive(answer) ==
  /\ answers > 0
  /\ answers' = answers - 1
  /\ IF answer = "invalid"
     THEN /\ syncState' = "failed"
          /\ UNCHANGED <<receivedUnixTime, age, offline>>
     ELSE /\ syncState' = "received"
          /\ receivedUnixTime' = answer
          /\ age' = 0
          /\ offline' = FALSE
  /\ UNCHANGED <<taskVars, ready, posted, lookups>>

LoseAnswer ==
  /\ answers > 0
  /\ answers' = answers - 1
  /\ UNCHANGED <<taskVars, syncState, receivedUnixTime, ready, posted, lookups, age, offline>>

NetworkChanges ==
  /\ ready' = ~ready
  /\ UNCHANGED <<taskVars, syncState, receivedUnixTime, posted, lookups, answers, age,
                 offline>>

-----------------------------------------------------------------------------
TaskStep ==
  \/ Wake
  \/ TakeAnswer
  \/ SetClock
  \/ ClockIsSet
  \/ ClockIsNotSet
  \/ SeeFailure
  \/ Reset
  \/ DecideRequest
  \/ BeginRequest
  \/ PostRequest
  \/ RequestNotPosted
  \/ CheckTimeout
  \/ ExpireRequest
  \/ Sleep

TimeNext ==
  \/ TaskStep
  \/ StartRequest
  \/ DnsCallback
  \/ \E answer \in {"accepted", "refused", "invalid"} : Receive(answer)
  \/ LoseAnswer
  \/ NetworkChanges

TimeSpec == TimeInit /\ [][TimeNext]_timeVars

(* The task shares its priority with others in time slices.  Nothing is     *)
(* assumed of the lwIP thread or of the server.                             *)
FairTimeSpec == TimeSpec /\ WF_timeVars(TaskStep)

-----------------------------------------------------------------------------
TimeTypeOK ==
  /\ pc \in {"wake", "receive", "set", "done", "notSet", "failed", "reset", "request",
             "begin", "post", "notPosted", "timeout", "expire", "sleep"}
  /\ syncState \in {"idle", "pending", "received", "failed"}
  /\ receivedUnixTime \in {"none", "accepted", "refused"}
  /\ unixTime \in {"none", "accepted", "refused"}
  /\ retrySeconds \in Nat
  /\ requestSeconds \in Nat
  /\ synchronized \in BOOLEAN
  /\ ready \in BOOLEAN
  /\ posted \in BOOLEAN
  /\ lookups \in 0 .. MaxInFlight
  /\ answers \in 0 .. MaxInFlight
  /\ age \in 0 .. MaxAge
  /\ offline \in BOOLEAN

(* The clock is set to an answer that arrived in the second before, however *)
(* answers of earlier requests, timeouts and failures overwrite each        *)
(* other's state, unless the network was down when the task came to it.     *)
FreshUnlessOffline == pc = "set" => age <= 1 \/ offline

(* A time that is noted as trustworthy (Rtc_IsSynchronized) is not that of  *)
(* an answer that lay about.                                                *)
TimeIsTrustworthy == pc = "done" => age <= 1

(* Once the clock has been set, whatever day the answer named, reading it    *)
(* gives the time that was set, and the expiry dates it is compared with    *)
(* are counted in the same way.                                             *)
ClocksAgree == synchronized => ConversionsAgree

(* The service never gives up: as long as the network is there it asks      *)
(* again and again, whichever callbacks are lost and whatever they report.  *)
KeepsAsking == <>[]ready => []<>(pc = "post")
=============================================================================
