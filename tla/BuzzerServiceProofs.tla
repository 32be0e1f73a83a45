-------------------------- MODULE BuzzerServiceProofs --------------------------
(***************************************************************************)
(* Proofs about the buzzer service, for any clients, resources and number   *)
(* of requests: no wake-up is lost, and until a wait times out a call that  *)
(* succeeds has had its own sequence played.                                *)
(***************************************************************************)
EXTENDS BuzzerService, TLAPS

(* No wake-up is lost: NoLostWakeup is inductive as it stands.              *)
THEOREM WakeupsAreKept == Spec => []NoLostWakeup
<1>1. Init => NoLostWakeup
  BY DEF Init, NoLostWakeup, Pending
<1>2. NoLostWakeup /\ [Next]_vars => NoLostWakeup'
  <2> SUFFICES ASSUME NoLostWakeup, [Next]_vars
               PROVE  NoLostWakeup'
    OBVIOUS
  <2> USE DEF NoLostWakeup, Pending, flags, taskVars, callerVars
  <2>1. CASE SelfTest
    BY <2>1 DEF SelfTest
  <2>2. CASE Wake \/ Select \/ FinishPlaying \/ ClearActive \/ GiveCompletion
    BY <2>2 DEF Wake, Select, FinishPlaying, ClearActive, GiveCompletion
  <2>3. CASE Recheck \/ Renotify
    BY <2>3 DEF Recheck, Renotify
  <2>4. ASSUME NEW c \in Client, Alert(c)
        PROVE  NoLostWakeup'
    BY <2>4 DEF Alert, Post
  <2>5. ASSUME NEW c \in Client, NEW r \in Resource, CertificateExpiryWarning(c, r)
        PROVE  NoLostWakeup'
    BY <2>5 DEF CertificateExpiryWarning, Post
  <2>6. ASSUME NEW c \in Client, Notify(c)
        PROVE  NoLostWakeup'
    BY <2>6 DEF Notify
  <2>7. ASSUME NEW warning \in BOOLEAN, PlayAndWait(warning)
        PROVE  NoLostWakeup'
    BY <2>7 DEF PlayAndWait
  <2>8. CASE DrainCompletion \/ NotifySynchronous
    BY <2>8 DEF DrainCompletion, NotifySynchronous
  <2>9. CASE TakeCompletion \/ TimeOut
    BY <2>9 DEF TakeCompletion, TimeOut
  <2>10. CASE UNCHANGED vars
    BY <2>10 DEF vars
  <2>11. QED
    BY <2>1, <2>2, <2>3, <2>4, <2>5, <2>6, <2>7, <2>8, <2>9, <2>10
    DEF Next, TaskStep, CallerStep
<1>3. QED
  BY <1>1, <1>2, PTL DEF Spec

-----------------------------------------------------------------------------
Sounding == pc = "play" /\ job.kind = "synchronous"

(* The life of a synchronous request while nothing times out: it is active, *)
(* then being played, then finished, and its completion is given only then. *)
RequestInv ==
  /\ callerPc \in {"idle", "drain", "notify", "wait"}
  /\ synchronousRequestActive => callerPc # "idle"
  /\ synchronousRequestActive /\ ~Sounding /\ pc # "clear" =>
       resetWarningRequested = requests.warning
  /\ Sounding =>
       /\ synchronousRequestActive
       /\ Request(job.request, job.warning) = requests
  /\ pc = "clear" => synchronousRequestActive /\ finished = requests
  /\ pc = "give" =>
       /\ ~synchronousRequestActive
       /\ ~synchronousCompletion
       /\ callerPc # "idle"
       /\ finished = requests
  /\ synchronousCompletion =>
       ~synchronousRequestActive /\ callerPc # "idle" /\ finished = requests
  /\ result = "success" => callerPc = "idle"
  /\ requests = Request(requests.request, requests.warning)

(* A synchronous call that returns SUCCESS returns after its own sequence,  *)
(* as long as no call has timed out.                                        *)
THEOREM OwnSequencePlayed == Spec => []SuccessMeansPlayed
<1> DEFINE Inv == (timedOut \/ RequestInv) /\ SuccessMeansPlayed
<1>1. Init => Inv
  BY DEF Init, RequestInv, Sounding, SuccessMeansPlayed, Request, NoJob
<1>2. Inv /\ [Next]_vars => Inv'
  <2> SUFFICES ASSUME Inv, [Next]_vars
               PROVE  Inv'
    OBVIOUS
  <2>0. CASE timedOut
    BY <2>0
    DEF Next, TaskStep, CallerStep, SelfTest, Wake, Select, FinishPlaying, ClearActive,
        GiveCompletion, Recheck, Renotify, Alert, CertificateExpiryWarning, Post, Notify,
        PlayAndWait, DrainCompletion, NotifySynchronous, TakeCompletion, TimeOut, vars,
        callerVars, SuccessMeansPlayed
  <2> SUFFICES ASSUME ~timedOut, RequestInv
               PROVE  Inv'
    BY <2>0
  <2> USE DEF RequestInv, Sounding, SuccessMeansPlayed, Request, flags, taskVars, callerVars
  <2>1. CASE SelfTest \/ Wake \/ Recheck \/ Renotify
    BY <2>1 DEF SelfTest, Wake, Recheck, Renotify
  <2>2. CASE Select
    <3>1. CASE SelectSynchronous
      <4>1. pc = "select" /\ pc' = "play" /\ synchronousRequestActive
        BY <2>2, <3>1 DEF Select, SelectSynchronous
      <4>2. resetWarningRequested = requests.warning
        BY <4>1
      <4>3. /\ job'.kind = "synchronous"
            /\ job'.request = requests.request
            /\ job'.warning = resetWarningRequested
        BY <3>1 DEF SelectSynchronous, NoJob
      <4>4. Request(job'.request, job'.warning) = requests
        BY <4>2, <4>3
      <4>5. synchronousRequestActive' /\ ~synchronousCompletion
        BY <4>1, <3>1 DEF SelectSynchronous
      <4>6. UNCHANGED <<synchronousCompletion, callerPc, requests, result, finished>>
        BY <2>2 DEF Select
      <4>7. QED
        BY <4>1, <4>3, <4>4, <4>5, <4>6
    <3>2. CASE SelectWarning \/ SelectAlert \/ SelectNothing
      <4>1. job'.kind # "synchronous"
        <5>1. CASE SelectWarning
          BY <5>1 DEF SelectWarning, NoJob
        <5>2. CASE SelectAlert
          BY <5>2 DEF SelectAlert, NoJob
        <5>3. CASE SelectNothing
          BY <5>3 DEF SelectNothing, NoJob
        <5>4. QED
          BY <3>2, <5>1, <5>2, <5>3
      <4>2. ~synchronousRequestActive /\ UNCHANGED synchronousRequestActive
        BY <3>2 DEF SelectWarning, SelectAlert, SelectNothing, Pending
      <4>3. /\ pc' = "play"
            /\ UNCHANGED <<synchronousCompletion, callerPc, requests, result, finished>>
        BY <2>2 DEF Select
      <4>4. QED
        BY <4>1, <4>2, <4>3
    <3>3. QED
      BY <2>2, <3>1, <3>2 DEF Select
  <2>3. CASE FinishPlaying
    BY <2>3 DEF FinishPlaying
  <2>4. CASE ClearActive
    BY <2>4 DEF ClearActive
  <2>5. CASE GiveCompletion
    BY <2>5 DEF GiveCompletion
  <2>6. ASSUME NEW c \in Client, Alert(c)
        PROVE  Inv'
    BY <2>6 DEF Alert, Post
  <2>7. ASSUME NEW c \in Client, NEW r \in Resource, CertificateExpiryWarning(c, r)
        PROVE  Inv'
    BY <2>7 DEF CertificateExpiryWarning, Post
  <2>8. ASSUME NEW c \in Client, Notify(c)
        PROVE  Inv'
    BY <2>8 DEF Notify
  <2>9. ASSUME NEW warning \in BOOLEAN, PlayAndWait(warning)
        PROVE  Inv'
    BY <2>9 DEF PlayAndWait
  <2>10. CASE DrainCompletion \/ NotifySynchronous
    BY <2>10 DEF DrainCompletion, NotifySynchronous
  <2>11. CASE TakeCompletion
    BY <2>11 DEF TakeCompletion
  <2>12. CASE TimeOut
    BY <2>12 DEF TimeOut
  <2>13. CASE UNCHANGED vars
    BY <2>13 DEF vars
  <2>14. QED
    BY <2>1, <2>2, <2>3, <2>4, <2>5, <2>6, <2>7, <2>8, <2>9, <2>10, <2>11, <2>12, <2>13
    DEF Next, TaskStep, CallerStep
<1>3. QED
  BY <1>1, <1>2, PTL DEF Spec
=============================================================================
