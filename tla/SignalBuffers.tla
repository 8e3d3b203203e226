---------------------------- MODULE SignalBuffers ----------------------------
(***************************************************************************)
(* The rolling price buffers of the signals: AssetPriceBuffers, Signal and *)
(* its three subclasses, SignalsCollection and the warm-up.                *)
(*                                                                         *)
(* A price is the calendar day it is the close of, so that a buffer shows  *)
(* which closes it holds and in which order; NoPrice is numpy's NaN.  A    *)
(* signal is [kind, lookbacks]; its buffers are a function of asset and of *)
(* stored lookback.  What a signal computes from its buffer (a mean, a     *)
(* return, a deviation) is left out.                                       *)
(***************************************************************************)
EXTENDS Integers, Sequences, FiniteSets, FiniteSetsExt, SequencesExt

CONSTANTS
  Signals,            \* the signals of the collection, records [kind, lookbacks]
  ExtraCalendarDays   \* EXTRA_CALENDAR_DAYS

ASSUME SignalsAssumption ==
  /\ IsFiniteSet(Signals) /\ ExtraCalendarDays \in Nat
  /\ \A s \in Signals : s.lookbacks \subseteq Nat \ {0} /\ IsFiniteSet(s.lookbacks)

NoPrice == 0

(* What a signal keeps: momentum and volatility need one price more than   *)
(* they have returns.                                                      *)
stored_lookbacks(signal) ==
  IF signal.kind = "sma" THEN signal.lookbacks
  ELSE { lookback + 1 : lookback \in signal.lookbacks }

(* The longest stored lookback of the collection, 0 when there is none.    *)
longest_lookback == Max({0} \cup UNION { stored_lookbacks(s) : s \in Signals })

required_calendar_days(lookback) == (7 * lookback) \div 4 + ExtraCalendarDays

(* AssetPriceBuffers(assets, lookbacks): empty deques.                     *)
empty_buffers(assets) ==
  [s \in Signals |-> [a \in assets |-> [l \in stored_lookbacks(s) |-> <<>>]]]

(* deque(maxlen=lookback).append                                           *)
deque_append(deque, lookback, price) ==
  IF Len(deque) < lookback THEN Append(deque, price) ELSE Append(Tail(deque), price)

(* The buffers of an asset that has just entered the universe.             *)
add_asset(buffers, assets) ==
  [s \in Signals |->
     [a \in DOMAIN buffers[s] \cup assets |->
        IF a \in DOMAIN buffers[s] THEN buffers[s][a]
        ELSE [l \in stored_lookbacks(s) |-> <<>>]]]

(* Signal.append on every signal: each asset's price onto each of its      *)
(* deques.  The check for a non-positive price lets NaN through.           *)
append(buffers, price) ==
  [s \in Signals |-> [a \in DOMAIN buffers[s] |->
     [l \in stored_lookbacks(s) |-> deque_append(buffers[s][a][l], l, price[a])]]]

(* The n latest of some days, and some days from the oldest to the latest. *)
last_days(days, n) == { d \in days : Cardinality({ e \in days : e > d }) < n }
in_order(days) ==
  [i \in 1..Cardinality(days) |->
     CHOOSE d \in days : Cardinality({ e \in days : e < d }) = i - 1]

(* Prices appended one by one.                                             *)
extend(deque, lookback, prices) ==
  FoldLeft(LAMBDA d, price : deque_append(d, lookback, price), deque, prices)

(* Mutant: the warm-up feeds the closes newest first.                      *)
warm_deque_reversed(deque, lookback, closes) ==
  extend(deque, lookback, Reverse(in_order(last_days(closes, longest_lookback))))

(* A deque in warm_up_signals: the last closes, oldest first.              *)
warm_deque(deque, lookback, closes) ==
  extend(deque, lookback, in_order(last_days(closes, longest_lookback)))

(* warm_up_signals' loop over the assets, which are a set.                 *)
warm_assets(buffers, closes) ==
  [s \in Signals |-> [a \in DOMAIN buffers[s] |->
     [l \in stored_lookbacks(s) |-> warm_deque(buffers[s][a][l], l, closes[a])]]]

(* How many prices an asset was warmed with.                               *)
warmed_count(closes) ==
  IF Cardinality(closes) < longest_lookback THEN Cardinality(closes) ELSE longest_lookback
==============================================================================
