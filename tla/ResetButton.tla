----------------------------- MODULE ResetButton -----------------------------
(***************************************************************************)
(* The gesture that starts a factory reset.  S1 is held for ten seconds; a  *)
(* warning is played; a double click within the window that follows cancels *)
(* the reset, otherwise it is executed.  The task samples the button every  *)
(* Poll ticks and believes what it reads twice, Debounce ticks apart.       *)
(*                                                                          *)
(* Time is counted in ticks of any length.  The button may change in every  *)
(* tick, and the task, which shares its priority with others, comes to run  *)
(* up to MaxLate ticks after its delay ended.  What executing does to the   *)
(* flash is FactoryReset; how the warning is played is BuzzerService.       *)
(***************************************************************************)
EXTENDS Naturals, FiniteSetsExt

CONSTANTS
  Hold,         \* FACTORY_RESET_HOLD_MS
  Window,       \* FACTORY_RESET_CANCEL_WINDOW_MS
  DoubleClick,  \* FACTORY_RESET_DOUBLE_CLICK_MS
  Debounce,     \* FACTORY_RESET_DEBOUNCE_MS
  Poll,         \* FACTORY_RESET_POLL_MS
  MaxLate       \* bound on the wait for the processor

ASSUME ButtonAssumption ==
  /\ {Hold, Window, DoubleClick, Debounce, Poll} \subseteq Nat \ {0}
  /\ MaxLate \in Nat
  /\ Poll <= Debounce

VARIABLES
  pressed,   \* the button
  stage,        \* where the task is
  delay,     \* ticks until the delay it is in ends
  late,      \* ticks since then
  elapsed,   \* since holdStarted or windowStarted
  click,     \* since firstClick
  waited,    \* since factoryReset_WaitForButton was called
  timeout,   \* its argument
  gap,       \* history: how long the button has been up
  gesture    \* history: what was done with the button in this window

taskVars == <<stage, delay, late, elapsed, click, waited, timeout>>
buttonVars == <<pressed, taskVars, gap, gesture>>

(* The calls of factoryReset_WaitForButton and the level each waits for. *)
WaitsFor ==
  [idle |-> TRUE, release |-> FALSE, first |-> TRUE, between |-> FALSE, second |-> TRUE]

Call == DOMAIN WaitsFor
Debouncing == [idle |-> "idleAgain", release |-> "releaseAgain", first |-> "firstAgain",
               between |-> "betweenAgain", second |-> "secondAgain"]

NoGesture == [level |-> 1, length |-> 0, apart |-> 0, clear |-> TRUE]

ButtonInit ==
  /\ pressed \in BOOLEAN
  /\ stage = "idle"
  /\ delay = 0
  /\ late = 0
  /\ elapsed = 0
  /\ click = 0
  /\ waited = 0
  /\ timeout = 0
  /\ gap = 0
  /\ gesture = NoGesture

-----------------------------------------------------------------------------
(* How long a level must last to be seen for certain. *)
Distinct == Poll + Debounce + 2 * MaxLate

(* The history of a window: its levels so far, the first one down, for no   *)
(* time if the button was up, the fifth one the second press; how long the  *)
(* present one has lasted; how far the presses are apart; and whether the   *)
(* levels since the first were distinct and the second press soon enough    *)
(* after the first, should the task come late to see it.                    *)
Recorded ==
  LET again == gesture.level % 2 = 1 <=> pressed
      level == IF again THEN gesture.level ELSE gesture.level + 1
  IN  IF gesture.level > 5 THEN gesture
      ELSE [level |-> level,
            length |-> IF again THEN Min({gesture.length + 1, Distinct}) ELSE 1,
            apart |-> IF level \in {3, 4}
                      THEN Min({gesture.apart + 1, DoubleClick + Distinct})
                      ELSE gesture.apart,
            clear |-> /\ gesture.clear
                      /\ again \/ level = 2 \/ gesture.length >= Distinct
                      /\ level = 5 => gesture.apart + MaxLate < DoubleClick]

InWindow == stage \notin {"idle", "idleAgain", "hold", "holdAgain", "warn"}

(* A tick, at whose end the button may change. *)
Tick ==
  /\ stage \notin {"warn", "cancelled", "execute"}
  /\ \/ /\ delay > 0
        /\ delay' = delay - 1
        /\ UNCHANGED late
     \/ /\ delay = 0
        /\ late < MaxLate
        /\ late' = late + 1
        /\ UNCHANGED delay
  /\ pressed' \in BOOLEAN
  /\ elapsed' = IF stage \in {"idle", "idleAgain"} THEN 0 ELSE elapsed + 1
  /\ click' = IF stage \in {"between", "betweenAgain", "second", "secondAgain"}
              THEN click + 1 ELSE 0
  /\ waited' = IF timeout = 0 THEN 0 ELSE waited + 1
  /\ gap' = IF pressed \/ stage \notin {"hold", "holdAgain"} THEN 0 ELSE gap + 1
  /\ gesture' = IF InWindow THEN Recorded ELSE NoGesture
  /\ UNCHANGED <<stage, timeout>>

-----------------------------------------------------------------------------
(* The task runs: its delay has ended. *)
Runs == delay = 0 /\ late' = 0

Sleep(ticks, next) ==
  /\ delay' = ticks
  /\ stage' = next

GoTo(next) == Sleep(0, next)

WaitForButton(call, limit) ==
  /\ GoTo(call)
  /\ waited' = 0
  /\ timeout' = limit

(* The cancellation window has been lost for cancelling; it is waited out.  *)
GiveUp ==
  /\ GoTo("expire")
  /\ waited' = 0
  /\ timeout' = 0

Remaining == Window - elapsed

(* Mutant: the time the first click took is not subtracted. *)
SecondClickTimeoutAnew == DoubleClick

(* What is left of the time for the second click once the first has ended.  *)
SecondClickTimeout == DoubleClick - click

(* factoryReset_CancelRequested, after each of its waits succeeded; the     *)
(* task starts to count a hold when the wait for a press did.               *)
Found(call) ==
  \/ /\ call = "idle"
     /\ GoTo("hold")
     /\ elapsed' = 0
     /\ UNCHANGED <<click, waited, timeout>>
  \/ /\ call \in {"release", "first"}
     /\ elapsed < Window
     /\ IF call = "release"
        THEN WaitForButton("first", Remaining)
        ELSE WaitForButton("between", Min({Remaining, DoubleClick}))
     /\ click' = 0
     /\ UNCHANGED elapsed
  \/ /\ call = "between"
     /\ click < DoubleClick
     /\ elapsed < Window
     /\ WaitForButton("second", Min({Remaining, SecondClickTimeout}))
     /\ UNCHANGED <<elapsed, click>>
  \/ /\ call = "second"
     /\ GoTo("cancelled")
     /\ waited' = 0
     /\ timeout' = 0
     /\ UNCHANGED <<elapsed, click>>
  \/ /\ \/ call \in {"release", "first", "between"} /\ elapsed >= Window
        \/ call = "between" /\ click >= DoubleClick
     /\ GiveUp
     /\ UNCHANGED <<elapsed, click>>

(* factoryReset_WaitForButton: the head of the loop ...  The wait for the   *)
(* first press, of portMAX_DELAY, is begun again when it ends.              *)
Sample(call) ==
  /\ stage = call
  /\ Runs
  /\ IF call # "idle" /\ waited >= timeout
     THEN GiveUp
     ELSE /\ IF pressed = WaitsFor[call]
             THEN Sleep(Debounce, Debouncing[call])
             ELSE Sleep(Poll, call)
          /\ UNCHANGED <<waited, timeout>>
  /\ UNCHANGED <<pressed, elapsed, click, gap, gesture>>

(* ... and the second look after the debounce delay. *)
SampleAgain(call) ==
  /\ stage = Debouncing[call]
  /\ Runs
  /\ IF pressed = WaitsFor[call]
     THEN Found(call)
     ELSE /\ Sleep(Poll, call)
          /\ UNCHANGED <<elapsed, click, waited, timeout>>
  /\ UNCHANGED <<pressed, gap, gesture>>

-----------------------------------------------------------------------------
(* factoryReset_Task: the loop that measures the hold. *)
MeasureHold ==
  /\ stage = "hold"
  /\ Runs
  /\ IF elapsed >= Hold THEN GoTo("warn")
     ELSE IF pressed THEN Sleep(Poll, "hold")
     ELSE Sleep(Debounce, "holdAgain")
  /\ UNCHANGED <<pressed, elapsed, click, waited, timeout, gap, gesture>>

(* Mutant: a release does not end the loop, too short a hold is only        *)
(* noticed afterwards.                                                      *)
IgnoreRelease ==
  /\ stage = "holdAgain"
  /\ Runs
  /\ Sleep(Poll, "hold")
  /\ UNCHANGED <<pressed, elapsed, click, waited, timeout, gap, gesture>>

(* The loop ends on a confirmed release as well; what counts is the time    *)
(* that has then passed.                                                    *)
ConfirmRelease ==
  /\ stage = "holdAgain"
  /\ Runs
  /\ IF pressed THEN Sleep(Poll, "hold")
     ELSE GoTo(IF elapsed < Hold THEN "idle" ELSE "warn")
  /\ UNCHANGED <<pressed, elapsed, click, waited, timeout, gap, gesture>>

(* The warning is played, however long it takes, and the window begins; or  *)
(* it fails and so does the reset.                                          *)
Warn ==
  /\ stage = "warn"
  /\ Runs
  /\ pressed' \in BOOLEAN
  /\ gap' = 0
  /\ elapsed' = 0
  /\ \/ /\ WaitForButton("release", Window)
        /\ gesture' = NoGesture
     \/ /\ GoTo("idle")
        /\ UNCHANGED <<waited, timeout, gesture>>
  /\ UNCHANGED click

(* The rest of the window passes. *)
WaitOut ==
  /\ stage = "expire"
  /\ Runs
  /\ IF elapsed < Window THEN Sleep(Poll, "expire") ELSE GoTo("execute")
  /\ UNCHANGED <<pressed, elapsed, click, waited, timeout, gap, gesture>>

(* The three beeps are played, or not, or the reset was given up by         *)
(* factoryReset_Execute or has restarted the chip: the task waits again.    *)
Return ==
  /\ stage \in {"cancelled", "execute"}
  /\ Runs
  /\ GoTo("idle")
  /\ pressed' \in BOOLEAN
  /\ gap' = 0
  /\ elapsed' = 0
  /\ click' = 0
  /\ gesture' = NoGesture
  /\ UNCHANGED <<waited, timeout>>

ButtonNext ==
  \/ Tick
  \/ \E call \in Call : Sample(call) \/ SampleAgain(call)
  \/ MeasureHold
  \/ ConfirmRelease
  \/ Warn
  \/ WaitOut
  \/ Return

ButtonSpec == ButtonInit /\ [][ButtonNext]_buttonVars

-----------------------------------------------------------------------------
ButtonTypeOK ==
  /\ pressed \in BOOLEAN
  /\ stage \in Call \cup {Debouncing[c] : c \in Call}
              \cup {"hold", "holdAgain", "warn", "expire", "cancelled", "execute"}
  /\ delay \in 0 .. Debounce
  /\ late \in 0 .. MaxLate
  /\ {elapsed, click, waited, timeout, gap} \subseteq Nat
  /\ gesture \in [level : 1 .. 6, length : 0 .. Distinct,
                  apart : 0 .. DoubleClick + Distinct, clear : BOOLEAN]

(* Letting go for longer than two looks at the button take ends the hold,   *)
(* at whatever point of the ten seconds: no warning, and so no reset,       *)
(* follows.                                                                 *)
LettingGoEndsHold ==
  stage \in {"hold", "holdAgain", "warn"} => gap < Poll + Debounce + 2 * MaxLate

(* Release, press, release and press again before the window ends, each     *)
(* long enough to be seen, the presses less than DoubleClick apart, less    *)
(* the time the task may be late.                                           *)
ClearDoubleClick ==
  /\ gesture.clear
  /\ gesture.level > 5 \/ (gesture.level = 5 /\ gesture.length >= Distinct)

(* The first clicks after the release decide, in the whole window: a clear  *)
(* double click is never followed by the erasure, and nothing but two       *)
(* presses about DoubleClick apart cancels it.                              *)
CancelledByDoubleClick ==
  /\ stage = "execute" => ~ClearDoubleClick
  /\ stage = "cancelled" =>
       /\ gesture.level > 4
       /\ gesture.level = 5 => gesture.apart < DoubleClick + Distinct
=============================================================================
