------------------------------ MODULE WinCondVar ------------------------------
(***************************************************************************)
(* The condition variable that src/src/common/compat_winthreads.c builds   *)
(* from a CRITICAL_SECTION, a manual-reset event and three counters.       *)
(* Threads lock the user mutex, then wait on the condition (with or        *)
(* without a timeout), signal it (one or all), or unlock.  Each section of *)
(* code that runs under cond->lock is one atomic step; the steps between   *)
(* them interleave.                                                        *)
(*                                                                         *)
(* Event semantics: SetEvent on a manual-reset event releases every thread *)
(* blocked in WaitForSingleObject, and a wait on a set event returns at    *)
(* once.  GetTickCount is a DWORD that wraps; its width is TickBits and    *)
(* its value at the start of the behaviour TickBase.                       *)
(***************************************************************************)
EXTENDS Integers, FiniteSets

CONSTANTS
  Threads,      \* the threads using the mutex and the condition
  NoOne,        \* owner of an unlocked mutex (model value)
  INFINITE,     \* the wait without a timeout (model value)
  MsChoices,    \* timeouts, in ticks, that callers pass
  TimedThreads, \* the threads whose callers pass a timeout
  MaxSignals,   \* bound on signal calls (generation)
  TickBits,     \* width of the GetTickCount counter
  TickBase,     \* GetTickCount when the behaviour starts
  ClockMax      \* bound on elapsed ticks

ASSUME MsChoices \subseteq Nat /\ MaxSignals \in Nat /\ ClockMax \in Nat
ASSUME TickBase \in 0..(2 ^ TickBits - 1)

VARIABLES
  pc,           \* where each thread is
  owner,        \* holder of the user mutex (lock_->mutex)
  n_waiting, n_to_wake, generation, event,   \* the spider_cond_t fields
  gen_start,    \* generation_at_start of each waiter
  res,          \* what WaitForSingleObject returned
  result,       \* the result local of spider_cond_wait (initially -1)
  ms, ms_orig,   \* the timeout locals
  realStart,     \* ticks elapsed when startTime was read
  waitFrom,      \* ticks elapsed when the current WaitForSingleObject began
  clock         \* ticks elapsed since the behaviour started

vars == <<pc, owner, n_waiting, n_to_wake, generation, event, gen_start, res,
          result, ms, ms_orig, realStart, waitFrom, clock>>
locals == <<gen_start, res, result, ms, ms_orig, realStart, waitFrom>>

DWORD(x) == x % (2 ^ TickBits)
GetTickCount == DWORD(TickBase + clock)

\* The startTime local: GetTickCount read when the wait began.
startTime(t) == DWORD(TickBase + realStart[t])

\* Inside spider_cond_wait between registering and leaving the loop.
InWait == {"registered", "toWait", "blocked", "check"}

\* spider_cond_init: counters zero, event not set.
Init ==
  /\ pc = [t \in Threads |-> "idle"]
  /\ owner = NoOne
  /\ n_waiting = 0 /\ n_to_wake = 0 /\ generation = 0
  /\ event = FALSE
  /\ gen_start = [t \in Threads |-> 0]
  /\ res = [t \in Threads |-> "none"]
  /\ result = [t \in Threads |-> -1]
  /\ ms = [t \in Threads |-> INFINITE] /\ ms_orig = ms
  /\ realStart = [t \in Threads |-> 0] /\ waitFrom = realStart
  /\ clock = 0

Goto(t, p) == pc' = [pc EXCEPT ![t] = p]

\* spider_mutex_acquire / spider_mutex_release by the caller.
spider_mutex_acquire(t) ==
  /\ pc[t] = "idle" /\ owner = NoOne
  /\ owner' = t /\ Goto(t, "locked")
  /\ UNCHANGED <<n_waiting, n_to_wake, generation, event, locals, clock>>

spider_mutex_release(t) ==
  /\ pc[t] = "locked"
  /\ owner' = NoOne /\ Goto(t, "idle")
  /\ UNCHANGED <<n_waiting, n_to_wake, generation, event, locals, clock>>

(***************************************************************************)
(* spider_cond_signal_impl: under cond->lock, hand out wake tokens, start  *)
(* a new generation and set the event, releasing every blocked waiter.     *)
(* The callers need not hold the user mutex.                               *)
(***************************************************************************)
SetEventReleases ==
  /\ pc' = [u \in Threads |-> IF pc[u] = "blocked" THEN "check" ELSE pc[u]]
  /\ res' = [u \in Threads |-> IF pc[u] = "blocked" THEN "object" ELSE res[u]]

\* Seeded fault: the signal updates the counters but never sets the event.
SignalWithoutSetEvent(t, broadcast) ==
  /\ pc[t] \in {"idle", "locked"}
  /\ generation < MaxSignals
  /\ n_to_wake' = IF broadcast THEN n_waiting ELSE n_to_wake + 1
  /\ generation' = generation + 1
  /\ UNCHANGED <<pc, res, event>>
  /\ UNCHANGED <<owner, n_waiting, gen_start, result, ms, ms_orig,
                 realStart, waitFrom, clock>>

spider_cond_signal_impl(t, broadcast) ==
  /\ pc[t] \in {"idle", "locked"}
  /\ generation < MaxSignals
  /\ n_to_wake' = IF broadcast THEN n_waiting ELSE n_to_wake + 1
  /\ generation' = generation + 1
  /\ event' = TRUE
  /\ SetEventReleases
  /\ UNCHANGED <<owner, n_waiting, gen_start, result, ms, ms_orig,
                 realStart, waitFrom, clock>>

(***************************************************************************)
(* spider_cond_wait, step by step.                                         *)
(***************************************************************************)
\* Lines 185-191: compute the timeout; under cond->lock register as a waiter.
WaitRegister(t, m) ==
  /\ pc[t] = "locked"
  /\ n_waiting' = n_waiting + 1
  /\ gen_start' = [gen_start EXCEPT ![t] = generation]
  /\ ms' = [ms EXCEPT ![t] = m] /\ ms_orig' = [ms_orig EXCEPT ![t] = m]
  /\ Goto(t, "registered")
  /\ UNCHANGED <<owner, n_to_wake, generation, event, res, result,
                 realStart, waitFrom, clock>>

\* Lines 193-195: release the user mutex, read the tick count.
WaitUnlock(t) ==
  /\ pc[t] = "registered"
  /\ owner' = NoOne
  /\ realStart' = [realStart EXCEPT ![t] = clock]
  /\ Goto(t, "toWait")
  /\ UNCHANGED <<n_waiting, n_to_wake, generation, event, gen_start, res,
                 result, ms, ms_orig, waitFrom, clock>>

\* Line 198: WaitForSingleObject returns at once on a set event, else blocks.
WaitForSingleObject(t) ==
  /\ pc[t] = "toWait"
  /\ IF event
     THEN /\ Goto(t, "check")
          /\ res' = [res EXCEPT ![t] = "object"]
     ELSE /\ Goto(t, "blocked")
          /\ UNCHANGED res
  /\ waitFrom' = [waitFrom EXCEPT ![t] = clock]
  /\ UNCHANGED <<owner, n_waiting, n_to_wake, generation, event, gen_start,
                 result, ms, ms_orig, realStart, clock>>

\* A blocked wait with a finite ms returns WAIT_TIMEOUT once ms ticks pass.
WaitTimeout(t) ==
  /\ pc[t] = "blocked"
  /\ ms[t] # INFINITE
  /\ clock - waitFrom[t] >= ms[t]
  /\ Goto(t, "check")
  /\ res' = [res EXCEPT ![t] = "timeout"]
  /\ UNCHANGED <<owner, n_waiting, n_to_wake, generation, event, gen_start,
                 result, ms, ms_orig, realStart, waitFrom, clock>>

(***************************************************************************)
(* Lines 199-230, under cond->lock: take a wake token if one is left and a *)
(* signal came after registering; else give up on WAIT_TIMEOUT or on the   *)
(* tick count; else recompute ms and, if no token is left, reset the event *)
(* and wait again.                                                         *)
(***************************************************************************)
\* Seeded fault: the exit with a token forgets to decrement n_waiting.
LeaveLoopTokenUncounted(t, r) ==
  /\ n_waiting' = IF r = 0 THEN n_waiting ELSE n_waiting - 1
  /\ result' = [result EXCEPT ![t] = r]
  /\ Goto(t, "relock")
  /\ UNCHANGED <<event, ms>>

\* Seeded fault: the timeout exits forget to decrement n_waiting.
LeaveLoopTimeoutUncounted(t, r) ==
  /\ n_waiting' = IF r = 1 THEN n_waiting ELSE n_waiting - 1
  /\ result' = [result EXCEPT ![t] = r]
  /\ Goto(t, "relock")
  /\ UNCHANGED <<event, ms>>

LeaveLoop(t, r) ==
  /\ n_waiting' = n_waiting - 1
  /\ result' = [result EXCEPT ![t] = r]
  /\ Goto(t, "relock")
  /\ UNCHANGED <<event, ms>>

KeepWaiting(t, m) ==
  /\ event' = IF n_to_wake = 0 THEN FALSE ELSE event
  /\ ms' = [ms EXCEPT ![t] = m]
  /\ Goto(t, "toWait")
  /\ UNCHANGED <<n_waiting, result>>

\* Seeded fault: take a token on a new generation without checking any is left.
CheckTokenWithoutCount(t) ==
  /\ pc[t] = "check"
  /\ IF generation # gen_start[t]
     THEN /\ n_to_wake' = n_to_wake - 1
          /\ LeaveLoop(t, 0)
     ELSE /\ UNCHANGED n_to_wake
          /\ IF res[t] = "timeout" THEN LeaveLoop(t, 1)
             ELSE IF ms[t] = INFINITE THEN KeepWaiting(t, INFINITE)
             ELSE IF DWORD(startTime(t) + ms_orig[t]) <= GetTickCount
                  THEN LeaveLoop(t, 1)
                  ELSE KeepWaiting(t, DWORD(startTime(t) + ms_orig[t] - GetTickCount))
  /\ UNCHANGED <<owner, generation, gen_start, res, ms_orig,
                 realStart, waitFrom, clock>>

\* Seeded fault: the deadline test fires one tick early.
CheckOneTickEarly(t) ==
  /\ pc[t] = "check"
  /\ IF n_to_wake > 0 /\ generation # gen_start[t]
     THEN /\ n_to_wake' = n_to_wake - 1
          /\ LeaveLoop(t, 0)
     ELSE /\ UNCHANGED n_to_wake
          /\ IF res[t] = "timeout" THEN LeaveLoop(t, 1)
             ELSE IF ms[t] = INFINITE THEN KeepWaiting(t, INFINITE)
             ELSE IF DWORD(startTime(t) + ms_orig[t]) <= GetTickCount + 1
                  THEN LeaveLoop(t, 1)
                  ELSE KeepWaiting(t, DWORD(startTime(t) + ms_orig[t] - GetTickCount))
  /\ UNCHANGED <<owner, generation, gen_start, res, ms_orig,
                 realStart, waitFrom, clock>>

WaitCheck(t) ==
  /\ pc[t] = "check"
  /\ IF n_to_wake > 0 /\ generation # gen_start[t]
     THEN /\ n_to_wake' = n_to_wake - 1
          /\ LeaveLoop(t, 0)
     ELSE /\ UNCHANGED n_to_wake
          /\ IF res[t] = "timeout" THEN LeaveLoop(t, 1)
             ELSE IF ms[t] = INFINITE THEN KeepWaiting(t, INFINITE)
             ELSE IF DWORD(startTime(t) + ms_orig[t]) <= GetTickCount
                  THEN LeaveLoop(t, 1)
                  ELSE KeepWaiting(t, DWORD(startTime(t) + ms_orig[t] - GetTickCount))
  /\ UNCHANGED <<owner, generation, gen_start, res, ms_orig,
                 realStart, waitFrom, clock>>

\* Line 233: take the user mutex back.
WaitRelock(t) ==
  /\ pc[t] = "relock" /\ owner = NoOne
  /\ owner' = t
  /\ Goto(t, "final")
  /\ UNCHANGED <<n_waiting, n_to_wake, generation, event, locals, clock>>

\* The locals of spider_cond_wait end with the call.
ClearLocals(t) ==
  /\ gen_start' = [gen_start EXCEPT ![t] = 0]
  /\ res' = [res EXCEPT ![t] = "none"]
  /\ result' = [result EXCEPT ![t] = -1]
  /\ ms' = [ms EXCEPT ![t] = INFINITE]
  /\ ms_orig' = [ms_orig EXCEPT ![t] = INFINITE]
  /\ realStart' = [realStart EXCEPT ![t] = 0]
  /\ waitFrom' = [waitFrom EXCEPT ![t] = 0]

\* Lines 235-240: under cond->lock, reset the event if nobody waits; return.
WaitReturn(t) ==
  /\ pc[t] = "final"
  /\ event' = IF n_waiting = 0 THEN FALSE ELSE event
  /\ Goto(t, "locked")
  /\ ClearLocals(t)
  /\ UNCHANGED <<owner, n_waiting, n_to_wake, generation, clock>>

Tick ==
  /\ clock < ClockMax
  /\ clock' = clock + 1
  /\ UNCHANGED <<pc, owner, n_waiting, n_to_wake, generation, event, locals>>

Step(t) ==
  \/ spider_mutex_acquire(t)
  \/ spider_mutex_release(t)
  \/ \E b \in BOOLEAN : spider_cond_signal_impl(t, b)
  \/ \E m \in (IF t \in TimedThreads THEN MsChoices ELSE {}) \cup {INFINITE} :
         WaitRegister(t, m)
  \/ WaitUnlock(t)
  \/ WaitForSingleObject(t)
  \/ WaitTimeout(t)
  \/ WaitCheck(t)
  \/ WaitRelock(t)
  \/ WaitReturn(t)

Next == (\E t \in Threads : Step(t)) \/ Tick

(***************************************************************************)
(* The operating system keeps running a runnable thread: each step of a    *)
(* wait that is enabled stays enabled until the thread takes it, so weak   *)
(* fairness per thread and step is enough.  Mutex hand-over and the        *)
(* caller's own choices (signal, wait, unlock) get no fairness.            *)
(***************************************************************************)
Fairness ==
  \A t \in Threads :
    /\ WF_vars(WaitUnlock(t))
    /\ WF_vars(WaitForSingleObject(t))
    /\ WF_vars(WaitTimeout(t))
    /\ WF_vars(WaitCheck(t))

Spec == Init /\ [][Next]_vars /\ Fairness

-----------------------------------------------------------------------------
Pcs == {"idle", "locked", "relock", "final"} \cup InWait

TypeOK ==
  /\ pc \in [Threads -> Pcs]
  /\ owner \in Threads \cup {NoOne}
  /\ n_waiting \in Nat /\ n_to_wake \in Nat /\ generation \in 0..MaxSignals
  /\ event \in BOOLEAN
  /\ gen_start \in [Threads -> 0..MaxSignals]
  /\ res \in [Threads -> {"none", "object", "timeout"}]
  /\ result \in [Threads -> {-1, 0, 1}]
  /\ ms \in [Threads -> Nat \cup {INFINITE}]
  /\ clock \in 0..ClockMax

Waiting(t) == pc[t] \in InWait

(***************************************************************************)
(* n_waiting counts exactly the threads inside the wait loop: every way    *)
(* out of spider_cond_wait (token, WAIT_TIMEOUT, tick-count timeout) takes *)
(* one off, whatever the interleaving with signals and other waiters.      *)
(***************************************************************************)
WaitersCounted == n_waiting = Cardinality({t \in Threads : Waiting(t)})

(***************************************************************************)
(* A timed spider_cond_wait reports a timeout (1) only after at least the  *)
(* requested number of ticks has really passed since it started.          *)
(***************************************************************************)
TimeoutNotEarly ==
  [][\A t \in Threads :
       pc[t] = "check" /\ pc'[t] = "relock" /\ result'[t] = 1
         => clock - realStart[t] >= ms_orig[t]]_vars

(***************************************************************************)
(* A waiter that a signal came after, while a wake token is outstanding,   *)
(* eventually leaves the wait, unless the tokens run out first (taken by   *)
(* other eligible waiters).  No wakeup is lost in the event handling.      *)
(***************************************************************************)
Eligible(t) == Waiting(t) /\ gen_start[t] # generation

SignalledWaiterWakes ==
  \A t \in Threads : Eligible(t) /\ n_to_wake > 0 ~> ~Waiting(t) \/ n_to_wake = 0
=============================================================================
