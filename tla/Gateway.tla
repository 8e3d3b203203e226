------------------------------- MODULE Gateway -------------------------------
(***************************************************************************)
(* KisGateway as several threads call it: the throttle with its module     *)
(* level lock and clock, the pause before an order, and the retries of     *)
(* queries.                                                                *)
(*                                                                         *)
(* Time is relative: 'since_pass' is the time since _LAST_CALL_AT, capped  *)
(* at MaxAge (which also stands for None), a thread's 'wait' what is left  *)
(* of its sleep.  A thread may be late at any step.  The venue is external *)
(* and has a rate limit: a call too soon after the previous one comes back *)
(* without rows.                                                           *)
(***************************************************************************)
EXTENDS Integers

CONSTANTS
  Threads,
  NoThread,
  MinCallInterval,  \* MIN_CALL_INTERVAL
  SettleSeconds,    \* SETTLE_SECONDS
  Backoff,          \* call_with_retry's backoff
  Attempts,         \* call_with_retry's attempts
  SmartSleep,       \* external: the longest sleep of the SDK's own throttle
  RateLimit,        \* external: the distance the venue asks for
  MaxAge            \* cap on ages

Kinds == {"query", "report", "order"}

ASSUME GatewayAssumption ==
  /\ NoThread \notin Threads
  /\ MinCallInterval \in Nat /\ SettleSeconds \in Nat /\ Backoff \in Nat
  /\ Attempts \in Nat \ {0} /\ SmartSleep \in Nat /\ RateLimit \in Nat
  /\ MaxAge \in Nat
  /\ MinCallInterval <= MaxAge /\ SettleSeconds <= MaxAge /\ RateLimit <= MaxAge

VARIABLES
  lock,        \* the thread that holds _CALL_LOCK
  since_pass,  \* time since _LAST_CALL_AT
  since_call,  \* external: time since the venue was last called
  pc,          \* where each thread is in its call
  kind,        \* which call it makes
  attempt,     \* how many times it has called the venue
  wait,        \* what is left of its sleep
  answer       \* what its call came back with

gatewayVars == <<lock, since_pass, since_call, pc, kind, attempt, wait, answer>>

GatewayInit ==
  /\ lock = NoThread
  /\ since_pass = MaxAge
  /\ since_call = MaxAge
  /\ pc = [t \in Threads |-> "idle"]
  /\ kind = [t \in Threads |-> "query"]
  /\ attempt = [t \in Threads |-> 0]
  /\ wait = [t \in Threads |-> 0]
  /\ answer = [t \in Threads |-> "none"]

---------------------------------------------------------------------------
Begin(t, k) ==
  /\ pc[t] = "idle"
  /\ pc' = [pc EXCEPT ![t] = "throttle"]
  /\ kind' = [kind EXCEPT ![t] = k]
  /\ attempt' = [attempt EXCEPT ![t] = 0]
  /\ answer' = [answer EXCEPT ![t] = "none"]
  /\ UNCHANGED <<lock, since_pass, since_call, wait>>

(* Mutant: the sleep is computed before the lock is taken.                 *)
AcquireUnlocked(t) ==
  /\ pc[t] = "throttle"
  /\ lock' = t
  /\ pc' = [pc EXCEPT ![t] = "inside"]
  /\ wait' = [wait EXCEPT ![t] = IF since_pass < MinCallInterval
                                 THEN MinCallInterval - since_pass ELSE 0]
  /\ UNCHANGED <<since_pass, since_call, kind, attempt, answer>>

(* _throttle: the lock, and what is missing to the interval is slept off   *)
(* while it is held.                                                       *)
Acquire(t) ==
  /\ pc[t] = "throttle"
  /\ lock = NoThread
  /\ lock' = t
  /\ pc' = [pc EXCEPT ![t] = "inside"]
  /\ wait' = [wait EXCEPT ![t] = IF since_pass < MinCallInterval
                                 THEN MinCallInterval - since_pass ELSE 0]
  /\ UNCHANGED <<since_pass, since_call, kind, attempt, answer>>

(* _LAST_CALL_AT = now, then the SDK's smart_sleep, still under the lock.  *)
Pass(t) ==
  /\ pc[t] = "inside" /\ wait[t] = 0
  /\ since_pass' = 0
  /\ pc' = [pc EXCEPT ![t] = "passed"]
  /\ \E s \in 0..SmartSleep : wait' = [wait EXCEPT ![t] = s]
  /\ UNCHANGED <<lock, since_call, kind, attempt, answer>>

(* Mutant: the lock is kept when the throttle returns.                     *)
ReleaseKept(t) ==
  /\ pc[t] = "passed" /\ wait[t] = 0
  /\ lock' = lock
  /\ pc' = [pc EXCEPT ![t] = "call"]
  /\ wait' = [wait EXCEPT ![t] = IF kind[t] = "order" THEN SettleSeconds ELSE 0]
  /\ UNCHANGED <<since_pass, since_call, kind, attempt, answer>>

(* The lock is free; an order then sleeps settle_seconds without it.       *)
Release(t) ==
  /\ pc[t] = "passed" /\ wait[t] = 0
  /\ lock' = NoThread
  /\ pc' = [pc EXCEPT ![t] = "call"]
  /\ wait' = [wait EXCEPT ![t] = IF kind[t] = "order" THEN SettleSeconds ELSE 0]
  /\ UNCHANGED <<since_pass, since_call, kind, attempt, answer>>

(* What the venue can answer: rows, nothing (no data yet, or its rate      *)
(* limit), or an HTTP failure within the imposed timeout.                  *)
VenueAnswers == IF since_call < RateLimit THEN {"empty", "error"}
                                          ELSE {"rows", "empty", "error"}

(* Mutant: whatever comes back empty is asked again.                       *)
retried_always(t, a) == a = "empty" /\ attempt[t] + 1 < Attempts

(* Whether call_with_retry goes round again: queries only.                 *)
retried(t, a) == kind[t] = "query" /\ a = "empty" /\ attempt[t] + 1 < Attempts

(* The SDK call.  A retry sleeps its backoff and comes back here, not to   *)
(* the throttle.                                                           *)
VenueCall(t) ==
  /\ pc[t] = "call" /\ wait[t] = 0
  /\ since_call' = 0
  /\ attempt' = [attempt EXCEPT ![t] = @ + 1]
  /\ \E a \in VenueAnswers :
       /\ answer' = [answer EXCEPT ![t] = a]
       /\ pc' = [pc EXCEPT ![t] = IF retried(t, a) THEN "call" ELSE "answered"]
       /\ wait' = [wait EXCEPT ![t] = IF retried(t, a)
                                      THEN Backoff * (attempt[t] + 1) ELSE 0]
  /\ UNCHANGED <<lock, since_pass, kind>>

(* The caller has its answer.                                              *)
Return(t) ==
  /\ pc[t] = "answered"
  /\ pc' = [pc EXCEPT ![t] = "idle"]
  /\ UNCHANGED <<lock, since_pass, since_call, kind, attempt, wait, answer>>

Older(age) == IF age < MaxAge THEN age + 1 ELSE age

Tick ==
  /\ since_pass' = Older(since_pass)
  /\ since_call' = Older(since_call)
  /\ wait' = [t \in Threads |-> IF wait[t] > 0 THEN wait[t] - 1 ELSE 0]
  /\ UNCHANGED <<lock, pc, kind, attempt, answer>>

GatewayStep(t) == Acquire(t) \/ Pass(t) \/ Release(t) \/ VenueCall(t)

(* The gateway under any calls.                                            *)
GatewayNext ==
  \/ Tick
  \/ \E t \in Threads : \/ \E k \in Kinds : Begin(t, k)
                       \/ GatewayStep(t)
                       \/ Return(t)

GatewaySpec == GatewayInit /\ [][GatewayNext]_gatewayVars

---------------------------------------------------------------------------
GatewayTypeOK ==
  /\ lock \in Threads \cup {NoThread}
  /\ since_pass \in 0..MaxAge
  /\ since_call \in 0..MaxAge
  /\ pc \in [Threads -> {"idle", "throttle", "inside", "passed", "call", "answered"}]
  /\ kind \in [Threads -> Kinds]
  /\ attempt \in [Threads -> Nat]
  /\ wait \in [Threads -> Nat]
  /\ answer \in [Threads -> {"none", "rows", "empty", "error"}]

(* Two calls pass the throttle at least the interval apart, whichever      *)
(* threads and gateways make them: the clock is read, slept on and written *)
(* under one module level lock (_throttle).                                *)
PassesAreSpaced ==
  [][\A t \in Threads : Pass(t) => since_pass >= MinCallInterval]_gatewayVars

(* A call is bounded, whatever the venue answers and whoever else calls:   *)
(* an order and an enquiry about it reach the venue at most once for one   *)
(* place_market_order, a query Attempts times (call_with_retry), and the   *)
(* lock is only ever held by a thread that is still in _throttle, never by *)
(* one that waits for the venue or sleeps off its settle_seconds.          *)
MostCalls(t) == IF kind[t] = "query" THEN Attempts ELSE 1
CallsAreFew ==
  /\ \A t \in Threads : attempt[t] <= MostCalls(t)
  /\ lock # NoThread => pc[lock] \in {"inside", "passed"}
==============================================================================
