------------------------------ MODULE Polling ------------------------------
(***************************************************************************)
(* startVisibilityAwarePolling (web/src/polling.ts): the loop that repeats *)
(* a refresh while the page is visible.  Whoever uses the loop says what a *)
(* refresh is: RunRefresh begins one and AfterRefresh is what the loop     *)
(* does when it is over.  The loop lives as long as its page.              *)
(***************************************************************************)
EXTENDS Naturals, FiniteSetsExt

CONSTANTS BasePollingDelay, MaximumPollingDelay, MaximumExponent

ASSUME PollingDelays ==
  /\ BasePollingDelay \in Nat \ {0} /\ MaximumPollingDelay \in Nat \ {0}
  /\ MaximumExponent \in Nat

VARIABLES
  visible,               \* document.visibilityState # "hidden"
  refreshInFlight,
  timer,                 \* the delay it was set to, or NoTimer
  consecutiveFailures    \* as far as a delay depends on it

polling == <<visible, refreshInFlight, timer, consecutiveFailures>>

NoTimer == 0

(* The base delay, doubled with every further failure up to a largest       *)
(* exponent, and never above the maximum.                                  *)
Backoff[n \in 0..MaximumExponent] ==
  IF n = 0 THEN BasePollingDelay ELSE 2 * Backoff[n - 1]

PollingDelay(failures) == Min({Backoff[failures], MaximumPollingDelay})

(* clearTimer and then, on a visible page, a new timer.                    *)
Schedule(failures) ==
  timer' = IF visible THEN PollingDelay(failures) ELSE NoTimer

StartsRefresh == visible /\ ~refreshInFlight

PollingInit ==
  /\ visible \in BOOLEAN
  /\ refreshInFlight = visible
  /\ timer = NoTimer /\ consecutiveFailures = 0

(* The timer callback, when it begins a refresh.                           *)
TimerFires ==
  /\ timer # NoTimer /\ StartsRefresh
  /\ timer' = NoTimer /\ refreshInFlight' = TRUE
  /\ UNCHANGED <<visible, consecutiveFailures>>

Hide ==
  /\ visible
  /\ visible' = FALSE /\ timer' = NoTimer
  /\ UNCHANGED <<refreshInFlight, consecutiveFailures>>

(* A page shown again runs a refresh at once, unless one is in flight.     *)
Show(runs) ==
  /\ ~visible
  /\ runs = ~refreshInFlight
  /\ visible' = TRUE /\ timer' = NoTimer /\ refreshInFlight' = TRUE
  /\ UNCHANGED consecutiveFailures

(* Mutant of AfterRefresh: only a successful refresh sets the next timer.  *)
AfterSuccess(succeeded) ==
  LET failures == IF succeeded THEN 0
                  ELSE Min({consecutiveFailures + 1, MaximumExponent})
  IN  /\ refreshInFlight' = FALSE
      /\ consecutiveFailures' = failures
      /\ IF succeeded THEN Schedule(failures) ELSE UNCHANGED timer
      /\ UNCHANGED visible

AfterRefresh(succeeded) ==
  LET failures == IF succeeded THEN 0
                  ELSE Min({consecutiveFailures + 1, MaximumExponent})
  IN  /\ refreshInFlight' = FALSE
      /\ consecutiveFailures' = failures
      /\ Schedule(failures)
      /\ UNCHANGED visible

(* On a visible page there is always either a refresh in flight or a timer *)
(* that will start one, never both and never neither, however the page is  *)
(* hidden and shown while a refresh is in flight; a hidden page starts     *)
(* nothing by itself.                                                      *)
PollingNeverStalls ==
  /\ visible => (refreshInFlight <=> timer = NoTimer)
  /\ ~visible => timer = NoTimer

=============================================================================
