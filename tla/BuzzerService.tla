---------------------------- MODULE BuzzerService ----------------------------
(***************************************************************************)
(* The buzzer service: a task that plays one tone sequence at a time, and   *)
(* the tasks that ask for sequences.  Failure alerts and certificate        *)
(* warnings are flags, coalesced and played in the background.  The         *)
(* factory-reset task asks for its sequences synchronously and waits for a  *)
(* binary semaphore, with a timeout.                                        *)
(*                                                                          *)
(* A critical section is one step; every FreeRTOS call outside of one is a  *)
(* step of its own.                                                         *)
(***************************************************************************)
EXTENDS Naturals

CONSTANTS
  Client,        \* tasks that post alerts and certificate warnings
  Resource,      \* indexes of the checked resources, a range from 0
  PromptCaller,  \* whether the caller reaches its wait while its tones play
  MaxRequests    \* bound on the requests of each kind

ASSUME BuzzerAssumption ==
  /\ Resource \subseteq Nat
  /\ PromptCaller \in BOOLEAN
  /\ MaxRequests \in Nat

VARIABLES
  pc,                        \* where the buzzer task is
  job,                       \* what it plays
  notified,                  \* its task notification, zero or not
  alertRequested,
  certificateWarningMask,    \* as a set of resources
  synchronousRequestActive,
  resetWarningRequested,
  synchronousCompletion,     \* the binary semaphore
  notifying,                 \* clients between their critical section and the notification
  callerPc,                  \* where the synchronous caller is
  requests,                  \* history: synchronous requests so far
  posted,                    \* history: alerts and warnings posted so far
  finished,                  \* history: the last synchronous sequence played
  result,                    \* what the last synchronous call returned
  timedOut                   \* history: some synchronous call has timed out

flags == <<alertRequested, certificateWarningMask, synchronousRequestActive,
           resetWarningRequested>>
taskVars == <<pc, job>>
callerVars == <<callerPc, requests, result, timedOut>>
vars == <<pc, job, notified, flags, synchronousCompletion, notifying, callerPc,
          requests, posted, finished, result, timedOut>>

NoJob == [kind |-> "none", resource |-> 0, request |-> 0, warning |-> FALSE]
Request(n, warning) == [request |-> n, warning |-> warning]

Init ==
  /\ pc = "selfTest"
  /\ job = NoJob
  /\ notified = FALSE
  /\ alertRequested = FALSE
  /\ certificateWarningMask = {}
  /\ synchronousRequestActive = FALSE
  /\ resetWarningRequested = FALSE
  /\ synchronousCompletion = FALSE
  /\ notifying = {}
  /\ callerPc = "idle"
  /\ requests = Request(0, FALSE)
  /\ posted = 0
  /\ finished = Request(0, FALSE)
  /\ result = "none"
  /\ timedOut = FALSE

Pending ==
  synchronousRequestActive \/ certificateWarningMask # {} \/ alertRequested

-----------------------------------------------------------------------------
(* buzzerService_Task. *)
SelfTest ==
  /\ pc = "selfTest"
  /\ pc' = "waiting"
  /\ UNCHANGED <<job, notified, flags, synchronousCompletion, notifying, callerVars,
                 posted, finished>>

Wake ==
  /\ pc = "waiting"
  /\ notified
  /\ notified' = FALSE
  /\ pc' = "select"
  /\ UNCHANGED <<job, flags, synchronousCompletion, notifying, callerVars, posted, finished>>

(* Mutant: the kind of sequence is read after it was cleared. *)
SelectAnyKind ==
  /\ synchronousRequestActive
  /\ resetWarningRequested' = FALSE
  /\ job' = [NoJob EXCEPT !.kind = "synchronous", !.request = requests.request]
  /\ UNCHANGED <<alertRequested, certificateWarningMask, synchronousRequestActive>>

(* The critical section that takes one request: a synchronous one first,    *)
(* then the warning of the lowest resource, then the alert.                 *)
SelectSynchronous ==
  /\ synchronousRequestActive
  /\ resetWarningRequested' = FALSE
  /\ job' = [NoJob EXCEPT !.kind = "synchronous", !.request = requests.request,
                          !.warning = resetWarningRequested]
  /\ UNCHANGED <<alertRequested, certificateWarningMask, synchronousRequestActive>>

SelectWarning ==
  /\ ~synchronousRequestActive
  /\ \E r \in certificateWarningMask :
       /\ \A s \in certificateWarningMask : r <= s
       /\ certificateWarningMask' = certificateWarningMask \ {r}
       /\ job' = [NoJob EXCEPT !.kind = "certificate", !.resource = r]
  /\ UNCHANGED <<alertRequested, synchronousRequestActive, resetWarningRequested>>

SelectAlert ==
  /\ ~synchronousRequestActive
  /\ certificateWarningMask = {}
  /\ alertRequested
  /\ alertRequested' = FALSE
  /\ job' = [NoJob EXCEPT !.kind = "alert"]
  /\ UNCHANGED <<certificateWarningMask, synchronousRequestActive, resetWarningRequested>>

SelectNothing ==
  /\ ~Pending
  /\ job' = NoJob
  /\ UNCHANGED flags

Select ==
  /\ pc = "select"
  /\ SelectSynchronous \/ SelectWarning \/ SelectAlert \/ SelectNothing
  /\ pc' = "play"
  /\ UNCHANGED <<notified, synchronousCompletion, notifying, callerVars, posted, finished>>

(* The tones of the job, if any, have been played. *)
FinishPlaying ==
  /\ pc = "play"
  /\ PromptCaller /\ job.kind = "synchronous" => callerPc \notin {"drain", "notify"}
  /\ IF job.kind = "synchronous"
     THEN /\ pc' = "clear"
          /\ finished' = Request(job.request, job.warning)
     ELSE /\ pc' = "recheck"
          /\ UNCHANGED finished
  /\ UNCHANGED <<job, notified, flags, synchronousCompletion, notifying, callerVars, posted>>

(* Mutant: the completion is never given. *)
ClearWithoutCompletion ==
  /\ pc = "clear"
  /\ synchronousRequestActive' = FALSE
  /\ pc' = "recheck"
  /\ UNCHANGED <<job, notified, alertRequested, certificateWarningMask,
                 resetWarningRequested, synchronousCompletion, notifying, callerVars,
                 posted, finished>>

ClearActive ==
  /\ pc = "clear"
  /\ synchronousRequestActive' = FALSE
  /\ pc' = "give"
  /\ UNCHANGED <<job, notified, alertRequested, certificateWarningMask,
                 resetWarningRequested, synchronousCompletion, notifying, callerVars,
                 posted, finished>>

GiveCompletion ==
  /\ pc = "give"
  /\ synchronousCompletion' = TRUE
  /\ pc' = "recheck"
  /\ UNCHANGED <<job, notified, flags, notifying, callerVars, posted, finished>>

(* Mutant: requests that came in while playing are not looked at. *)
NoRecheck ==
  /\ pc = "recheck"
  /\ pc' = "waiting"
  /\ UNCHANGED <<job, notified, flags, synchronousCompletion, notifying, callerVars,
                 posted, finished>>

Recheck ==
  /\ pc = "recheck"
  /\ pc' = IF Pending THEN "renotify" ELSE "waiting"
  /\ UNCHANGED <<job, notified, flags, synchronousCompletion, notifying, callerVars,
                 posted, finished>>

Renotify ==
  /\ pc = "renotify"
  /\ notified' = TRUE
  /\ pc' = "waiting"
  /\ UNCHANGED <<job, flags, synchronousCompletion, notifying, callerVars, posted, finished>>

-----------------------------------------------------------------------------
(* BuzzerService_Alert and BuzzerService_CertificateExpiryWarning: the flag *)
(* is set in a critical section, the notification is sent after it.         *)
Post(c) ==
  /\ c \notin notifying
  /\ posted < MaxRequests
  /\ posted' = posted + 1
  /\ notifying' = notifying \cup {c}
  /\ UNCHANGED <<taskVars, notified, synchronousRequestActive, resetWarningRequested,
                 synchronousCompletion, callerVars, finished>>

Alert(c) ==
  /\ Post(c)
  /\ alertRequested' = TRUE
  /\ UNCHANGED certificateWarningMask

CertificateExpiryWarning(c, r) ==
  /\ Post(c)
  /\ certificateWarningMask' = certificateWarningMask \cup {r}
  /\ UNCHANGED alertRequested

Notify(c) ==
  /\ c \in notifying
  /\ notified' = TRUE
  /\ notifying' = notifying \ {c}
  /\ UNCHANGED <<taskVars, flags, synchronousCompletion, callerVars, posted, finished>>

(* buzzerService_PlayAndWait, called by the factory-reset task only. *)
PlayAndWait(warning) ==
  /\ callerPc = "idle"
  /\ requests.request < MaxRequests
  /\ requests' = Request(requests.request + 1, warning)
  /\ \/ /\ synchronousRequestActive
        /\ result' = "error"
        /\ UNCHANGED <<callerPc, synchronousRequestActive, resetWarningRequested>>
     \/ /\ ~synchronousRequestActive
        /\ synchronousRequestActive' = TRUE
        /\ resetWarningRequested' = warning
        /\ callerPc' = "drain"
        /\ result' = "none"
  /\ UNCHANGED <<taskVars, notified, alertRequested, certificateWarningMask,
                 synchronousCompletion, notifying, posted, finished, timedOut>>

DrainCompletion ==
  /\ callerPc = "drain"
  /\ synchronousCompletion' = FALSE
  /\ callerPc' = "notify"
  /\ UNCHANGED <<taskVars, notified, flags, notifying, requests, posted, finished, result,
                 timedOut>>

NotifySynchronous ==
  /\ callerPc = "notify"
  /\ notified' = TRUE
  /\ callerPc' = "wait"
  /\ UNCHANGED <<taskVars, flags, synchronousCompletion, notifying, requests, posted,
                 finished, result, timedOut>>

TakeCompletion ==
  /\ callerPc = "wait"
  /\ synchronousCompletion
  /\ synchronousCompletion' = FALSE
  /\ callerPc' = "idle"
  /\ result' = "success"
  /\ UNCHANGED <<taskVars, notified, flags, notifying, requests, posted, finished, timedOut>>

(* The wait ran out: the request stays active and is played later. *)
TimeOut ==
  /\ callerPc = "wait"
  /\ callerPc' = "idle"
  /\ result' = "error"
  /\ timedOut' = TRUE
  /\ UNCHANGED <<taskVars, notified, flags, synchronousCompletion, notifying, requests,
                 posted, finished>>

-----------------------------------------------------------------------------
TaskStep ==
  \/ SelfTest
  \/ Wake
  \/ Select
  \/ FinishPlaying
  \/ ClearActive
  \/ GiveCompletion
  \/ Recheck
  \/ Renotify

CallerStep == DrainCompletion \/ NotifySynchronous \/ TakeCompletion

Next ==
  \/ TaskStep
  \/ \E c \in Client : Alert(c)
  \/ \E c \in Client, r \in Resource : CertificateExpiryWarning(c, r)
  \/ \E c \in Client : Notify(c)
  \/ \E warning \in BOOLEAN : PlayAndWait(warning)
  \/ CallerStep
  \/ TimeOut

Spec == Init /\ [][Next]_vars

(* Tasks of one priority are time-sliced and the ones above block, so every *)
(* task that can go on does: the buzzer, a client in the middle of a call,  *)
(* the caller.                                                              *)
Fairness ==
  /\ WF_vars(TaskStep)
  /\ \A c \in Client : WF_vars(Notify(c))
  /\ WF_vars(CallerStep)

FairSpec == Spec /\ Fairness

-----------------------------------------------------------------------------
TypeOK ==
  /\ pc \in {"selfTest", "waiting", "select", "play", "clear", "give", "recheck",
             "renotify"}
  /\ job \in [kind : {"none", "synchronous", "certificate", "alert"},
              resource : Resource \cup {0}, request : Nat, warning : BOOLEAN]
  /\ notified \in BOOLEAN
  /\ alertRequested \in BOOLEAN
  /\ certificateWarningMask \in SUBSET Resource
  /\ synchronousRequestActive \in BOOLEAN
  /\ resetWarningRequested \in BOOLEAN
  /\ synchronousCompletion \in BOOLEAN
  /\ notifying \in SUBSET Client
  /\ callerPc \in {"idle", "drain", "notify", "wait"}
  /\ requests \in [request : Nat, warning : BOOLEAN]
  /\ posted \in Nat
  /\ finished \in [request : Nat, warning : BOOLEAN]
  /\ result \in {"none", "success", "error"}
  /\ timedOut \in BOOLEAN

(* No wake-up is lost: whenever the buzzer task sleeps while a request is   *)
(* pending, its notification is set or the task that made a request is      *)
(* about to send it.                                                        *)
NoLostWakeup ==
  pc \in {"selfTest", "waiting"} /\ Pending =>
    notified \/ notifying # {} \/ callerPc \in {"drain", "notify"}

(* A synchronous call that returns SUCCESS returns after its own sequence,  *)
(* the one it asked for, was played, as long as no call has timed out.      *)
SuccessMeansPlayed == result = "success" /\ ~timedOut => finished = requests

(* The same without a condition: the late completion of a call that timed   *)
(* out cannot satisfy the next call.                                        *)
LateCompletionIgnored == result = "success" => finished = requests

(* Every request that is not followed by endlessly many others is played,   *)
(* whatever order the flags and the notifications arrive in.                *)
RequestsPlayed ==
  /\ alertRequested ~> ~alertRequested
  /\ \A r \in Resource : r \in certificateWarningMask ~> r \notin certificateWarningMask
  /\ synchronousRequestActive ~> ~synchronousRequestActive

(* The synchronous caller gets its completion without the timeout's help:   *)
(* draining the semaphore never takes the completion it then waits for.     *)
CallerReturns == callerPc = "wait" ~> callerPc = "idle"
=============================================================================
