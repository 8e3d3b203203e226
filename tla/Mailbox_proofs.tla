----------------------------- MODULE Mailbox_proofs -----------------------------
(***************************************************************************)
(* What the mailbox promises, proved for any number of producers and posts *)
(* and any cap: module Mailbox's NothingLost and EveryPostAccountedFor.    *)
(* The last part is the half of EventuallyTaken that needs no fairness.    *)
(***************************************************************************)
EXTENDS Mailbox, DataLemmas, SequenceTheorems

AnyEvent == Producers \X Nat

TypeInv ==
    /\ closed \in BOOLEAN
    /\ posted \in Nat /\ dropped \in Nat /\ refused \in Nat
    /\ step \in [Producers -> {"idle", "checked", "put"}]
    /\ consumer \in {"taking", "ended"}
    /\ calls \in [Producers -> Nat]
    /\ accepted \in Seq(AnyEvent) /\ taken \in Seq(AnyEvent)

(* The lock: one producer at a time is between its check and its count,    *)
(* and none is once the mailbox is closed.                                 *)
LockInv ==
    /\ \A p, q \in Producers : step[p] # "idle" /\ step[q] # "idle" => p = q
    /\ closed => Unlocked
    /\ consumer = "ended" => closed

(* The queue is the events that wait, in order, and the sentinel, last.    *)
QueueIs(w) ==
    /\ queue = IF closed /\ consumer = "taking" THEN Append(w, Sentinel) ELSE w
    /\ taken \o w = accepted
    /\ consumer = "ended" => w = <<>>

QueueInv == \E w \in Seq(AnyEvent) : QueueIs(w)

(* A post counts its event after putting it, and puts it after deciding to.*)
Uncounted == IF \E p \in Producers : step[p] = "put" THEN 1 ELSE 0
Unput == IF \E p \in Producers : step[p] = "checked" THEN 1 ELSE 0
TotalCalls == SumFunctionOnSet(calls, Producers)

(* So every call begun is accounted for, with what is still to be done.    *)
CountInv ==
    /\ Len(accepted) = posted + Uncounted
    /\ TotalCalls = Len(accepted) + dropped + refused + Unput

MailInv == TypeInv /\ LockInv /\ QueueInv /\ CountInv
-----------------------------------------------------------------------------
(* What is put behind what waits is put behind everything accepted.        *)
LEMMA ConcatAppend ==
    ASSUME NEW S, NEW s \in Seq(S), NEW t \in Seq(S), NEW e \in S
    PROVE  s \o Append(t, e) = Append(s \o t, e)
<1>1. s \o t \in Seq(S) /\ <<e>> \in Seq(S)
  BY ConcatProperties
<1>2. Append(t, e) = t \o <<e>> /\ Append(s \o t, e) = (s \o t) \o <<e>>
  BY <1>1, AppendIsConcat
<1>3. (s \o t) \o <<e>> = s \o (t \o <<e>>)
  BY <1>1, ConcatAssociative
<1> QED  BY <1>2, <1>3

(* Taking the first of what waits changes nothing of the whole.            *)
LEMMA ShiftHead ==
    ASSUME NEW S, NEW s \in Seq(S), NEW t \in Seq(S), t # <<>>
    PROVE  Append(s, Head(t)) \o Tail(t) = s \o t
<1>1. Head(t) \in S /\ Tail(t) \in Seq(S)
  BY HeadTailProperties
<1>2. <<Head(t)>> \in Seq(S)
  BY <1>1
<1>3. <<Head(t)>> \o Tail(t) = t
  <2>1. Len(<<Head(t)>> \o Tail(t)) = Len(t) /\ <<Head(t)>> \o Tail(t) \in Seq(S)
    BY <1>1, <1>2, ConcatProperties, HeadTailProperties
  <2>2. ASSUME NEW i \in 1..Len(t) PROVE (<<Head(t)>> \o Tail(t))[i] = t[i]
    BY <1>1, <1>2, ConcatProperties, HeadTailProperties
  <2> QED  BY <2>1, <2>2, SeqEqual
<1>4. Append(s, Head(t)) = s \o <<Head(t)>>
  BY <1>1, AppendIsConcat
<1> QED  BY <1>1, <1>2, <1>3, <1>4, ConcatAssociative

(* All but the last of what has something appended.                       *)
LEMMA FrontOfAppend ==
    ASSUME NEW S, NEW s \in Seq(S), NEW e
    PROVE  SubSeq(Append(s, e), 1, Len(Append(s, e)) - 1) = s
<1> DEFINE R == S \cup {e}
           a == Append(s, e)
           b == SubSeq(a, 1, Len(a) - 1)
<1>1. s \in Seq(R) /\ e \in R
  OBVIOUS
<1>2. a \in Seq(R) /\ Len(a) = Len(s) + 1 /\ \A i \in 1..Len(s) : a[i] = s[i]
  BY <1>1, AppendProperties
<1>3. Len(s) \in Nat /\ Len(a) - 1 = Len(s)
  BY <1>1, <1>2
<1> HIDE DEF R, a
<1>4. \A i \in 1..Len(s) : a[i] \in R
  BY <1>1, <1>2
<1>5. b \in Seq(R) /\ Len(b) = Len(s) /\ \A i \in 1..Len(s) : b[i] = s[i]
  BY <1>2, <1>3, <1>4, SubSeqProperties
<1>6. b = s
  BY <1>1, <1>5, SeqEqual
<1> QED  BY <1>6 DEF a

(* The sum over the producers after one of them begins another call.       *)
LEMMA OneMoreCall ==
    ASSUME TypeInv, NEW p \in Producers, calls' = [calls EXCEPT ![p] = @ + 1]
    PROVE  TotalCalls' = TotalCalls + 1
<1>1. calls \in [Producers -> Int]
  BY DEF TypeInv
<1>2. IsFiniteSet(Producers) /\ 1 \in Int
  BY MailboxAssumption
<1>3. SumFunctionOnSet([calls EXCEPT ![p] = @ + 1], Producers)
        = SumFunctionOnSet(calls, Producers) + 1
  BY <1>1, <1>2, SumAddAt
<1> QED  BY <1>3 DEF TotalCalls

(* An empty mailbox that nobody has posted to.                             *)
LEMMA InitEstablishes == Init => MailInv
<1> SUFFICES ASSUME Init PROVE MailInv  OBVIOUS
<1>1. TypeInv
  <2>1. accepted \in Seq(AnyEvent) /\ taken \in Seq(AnyEvent)
    BY DEF Init
  <2>2. calls \in [Producers -> Nat] /\ posted \in Nat /\ dropped \in Nat /\ refused \in Nat
    BY DEF Init
  <2> QED  BY <2>1, <2>2 DEF Init, TypeInv
<1>2. LockInv
  BY DEF Init, LockInv, Unlocked
<1>3. QueueInv
  <2>1. <<>> \in Seq(AnyEvent) /\ <<>> \o <<>> = <<>>
    OBVIOUS
  <2>2. QueueIs(<<>>)
    BY <2>1 DEF Init, QueueIs
  <2> QED  BY <2>1, <2>2 DEF QueueInv
<1>4. CountInv
  <2>1. TotalCalls = 0
    BY MailboxAssumption, SumZero DEF Init, TotalCalls
  <2>2. Uncounted = 0 /\ Unput = 0
    BY DEF Init, Uncounted, Unput
  <2> QED  BY <2>1, <2>2 DEF Init, CountInv
<1> QED  BY <1>1, <1>2, <1>3, <1>4 DEF MailInv

(* Under the lock: only the producer that took it is past its check.       *)
LEMMA OthersIdle ==
    ASSUME MailInv, NEW p \in Producers, step[p] # "idle"
    PROVE  /\ \A q \in Producers : q # p => step[q] = "idle"
           /\ ~closed /\ consumer = "taking"
  BY DEF MailInv, LockInv, Unlocked, TypeInv

(* Each step of a producer and of the consumer keeps the invariant.        *)
LEMMA PostKeeps ==
    ASSUME NEW p \in Producers, MailInv, Post(p) PROVE MailInv'
<1>1. TypeInv /\ LockInv /\ QueueInv /\ CountInv
  BY DEF MailInv
<1>2. TypeInv'
  BY <1>1 DEF Post, TypeInv
<1>3. LockInv'
  BY <1>1 DEF Post, TypeInv, LockInv, Unlocked
<1>4. QueueInv'
  BY <1>1 DEF Post, QueueInv, QueueIs
<1>5. CountInv'
  <2>1. TotalCalls' = TotalCalls + 1
    BY <1>1, OneMoreCall DEF Post
  <2>2. Uncounted = 0 /\ Unput = 0
    BY DEF Post, Unlocked, Uncounted, Unput
  <2>3. Uncounted' = 0
    BY <1>1 DEF Post, Unlocked, Uncounted, TypeInv
  <2>4. Len(accepted) \in Nat
    BY <1>1 DEF TypeInv
  <2>5. CASE closed \/ Full
    <3>1. Unput' = 0
      BY <2>5 DEF Post, Unlocked, Unput
    <3>2. dropped' + refused' = dropped + refused + 1
      BY <1>1, <2>5 DEF Post, TypeInv
    <3> QED  BY <1>1, <1>2, <2>1, <2>2, <2>3, <2>4, <3>1, <3>2
             DEF Post, CountInv, TypeInv
  <2>6. CASE ~(closed \/ Full)
    <3>1. step'[p] = "checked"
      BY <1>1, <2>6 DEF Post, TypeInv
    <3>2. Unput' = 1
      BY <3>1 DEF Unput
    <3> QED  BY <1>1, <2>1, <2>2, <2>3, <2>4, <2>6, <3>2
             DEF Post, CountInv, TypeInv
  <2> QED  BY <2>5, <2>6
<1> QED  BY <1>2, <1>3, <1>4, <1>5 DEF MailInv

LEMMA PutKeeps ==
    ASSUME NEW p \in Producers, MailInv, Put(p) PROVE MailInv'
<1>1. TypeInv /\ LockInv /\ QueueInv /\ CountInv
  BY DEF MailInv
<1>2. Event(p) \in AnyEvent
  BY <1>1 DEF Event, AnyEvent, TypeInv
<1>3. ~closed /\ consumer = "taking" /\ \A q \in Producers : q # p => step[q] = "idle"
  BY OthersIdle DEF Put
<1>4. step'[p] = "put" /\ \A q \in Producers : q # p => step'[q] = "idle"
  BY <1>1, <1>3 DEF Put, TypeInv
<1>5. accepted' \in Seq(AnyEvent) /\ Len(accepted') = Len(accepted) + 1
      /\ Len(accepted) \in Nat
  BY <1>1, <1>2, AppendProperties DEF Put, TypeInv
<1>6. TypeInv'
  BY <1>1, <1>5 DEF Put, TypeInv
<1>7. LockInv'
  BY <1>1, <1>3, <1>4 DEF Put, LockInv
<1>8. QueueInv'
  <2>1. PICK w \in Seq(AnyEvent) : QueueIs(w)
    BY <1>1 DEF QueueInv
  <2>2. queue = w /\ taken \o w = accepted
    BY <2>1, <1>3 DEF QueueIs
  <2>3. taken \o Append(w, Event(p)) = Append(accepted, Event(p))
    BY <1>1, <1>2, <2>2, ConcatAppend DEF TypeInv
  <2> DEFINE v == Append(w, Event(p))
  <2>4. v \in Seq(AnyEvent)
    BY <1>2, AppendProperties
  <2>5. queue' = v /\ taken' \o v = accepted' /\ ~closed' /\ consumer' = "taking"
    BY <1>3, <2>2, <2>3 DEF Put
  <2> HIDE DEF v
  <2>6. \E u \in Seq(AnyEvent) :
           /\ queue' = IF closed' /\ consumer' = "taking" THEN Append(u, Sentinel) ELSE u
           /\ taken' \o u = accepted'
           /\ consumer' = "ended" => u = <<>>
    BY <2>4, <2>5
  <2> QED  BY <2>6 DEF QueueInv, QueueIs
<1>9. CountInv'
  <2>1. Uncounted = 0 /\ Unput = 1 /\ Uncounted' = 1 /\ Unput' = 0
    BY <1>3, <1>4 DEF Put, Uncounted, Unput
  <2>2. TotalCalls' = TotalCalls
    BY DEF Put, TotalCalls
  <2> QED  BY <1>1, <1>5, <2>1, <2>2 DEF Put, CountInv, TypeInv
<1> QED  BY <1>6, <1>7, <1>8, <1>9 DEF MailInv

LEMMA CountKeeps ==
    ASSUME NEW p \in Producers, MailInv, Count(p) PROVE MailInv'
<1>1. TypeInv /\ LockInv /\ QueueInv /\ CountInv
  BY DEF MailInv
<1>2. \A q \in Producers : q # p => step[q] = "idle"
  BY OthersIdle DEF Count
<1>3. \A q \in Producers : step'[q] = "idle"
  BY <1>1, <1>2 DEF Count, TypeInv
<1>4. TypeInv'
  BY <1>1 DEF Count, TypeInv
<1>5. LockInv'
  BY <1>1, <1>3 DEF Count, LockInv, Unlocked
<1>6. QueueInv'
  BY <1>1 DEF Count, QueueInv, QueueIs
<1>7. CountInv'
  <2>1. Uncounted = 1 /\ Unput = 0 /\ Uncounted' = 0 /\ Unput' = 0
    BY <1>2, <1>3 DEF Count, Uncounted, Unput
  <2>2. TotalCalls' = TotalCalls
    BY DEF Count, TotalCalls
  <2> QED  BY <1>1, <2>1, <2>2 DEF Count, CountInv, TypeInv
<1> QED  BY <1>4, <1>5, <1>6, <1>7 DEF MailInv

LEMMA CloseKeeps == ASSUME MailInv, Close PROVE MailInv'
<1>1. TypeInv /\ LockInv /\ QueueInv /\ CountInv
  BY DEF MailInv
<1>2. TypeInv'
  BY <1>1 DEF Close, TypeInv
<1>3. LockInv'
  BY <1>1 DEF Close, LockInv, Unlocked
<1>4. QueueInv'
  <2>1. PICK w \in Seq(AnyEvent) : QueueIs(w)
    BY <1>1 DEF QueueInv
  <2>2. consumer = "taking"
    BY <1>1 DEF Close, LockInv, TypeInv
  <2>3. QueueIs(w)'
    BY <2>1, <2>2 DEF Close, QueueIs
  <2> QED  BY <2>3 DEF QueueInv
<1>5. CountInv'
  BY <1>1 DEF Close, CountInv, Uncounted, Unput, TotalCalls
<1> QED  BY <1>2, <1>3, <1>4, <1>5 DEF MailInv

LEMMA TakeKeeps == ASSUME MailInv, Take PROVE MailInv'
<1>1. TypeInv /\ LockInv /\ QueueInv /\ CountInv
  BY DEF MailInv
<1>2. PICK w \in Seq(AnyEvent) : QueueIs(w)
  BY <1>1 DEF QueueInv
<1>3. CountInv'
  BY <1>1 DEF Take, CountInv, Uncounted, Unput, TotalCalls
<1>4. \A e \in AnyEvent : e # Sentinel
  BY DEF AnyEvent, Sentinel
<1>5. CASE w = <<>>
  <2>1. closed /\ Head(queue) = Sentinel /\ Tail(queue) = <<>>
    BY <1>2, <1>5 DEF Take, QueueIs
  <2>2. QueueIs(w)'
    BY <1>2, <1>5, <2>1 DEF Take, QueueIs
  <2>3. TypeInv' /\ LockInv'
    BY <1>1, <2>1 DEF Take, TypeInv, LockInv, Unlocked
  <2> QED  BY <1>3, <2>2, <2>3 DEF MailInv, QueueInv
<1>6. CASE w # <<>>
  <2>1. Head(w) \in AnyEvent /\ Tail(w) \in Seq(AnyEvent)
    BY <1>6, HeadTailProperties
  <2>2. Head(queue) = Head(w) /\ Head(queue) # Sentinel
        /\ Tail(queue) = IF closed THEN Append(Tail(w), Sentinel) ELSE Tail(w)
    BY <1>2, <1>4, <1>6, <2>1, HeadTailAppend DEF Take, QueueIs
  <2>3. Append(taken, Head(w)) \o Tail(w) = accepted
    BY <1>1, <1>2, <1>6, ShiftHead DEF QueueIs, TypeInv
  <2>4. QueueIs(Tail(w))'
    BY <2>2, <2>3 DEF Take, QueueIs
  <2>5. taken' = Append(taken, Head(w)) /\ consumer' = consumer
    BY <2>2 DEF Take
  <2>6. taken' \in Seq(AnyEvent)
    BY <1>1, <2>1, <2>5, AppendProperties DEF TypeInv
  <2>7. TypeInv' /\ LockInv'
    BY <1>1, <2>5, <2>6 DEF Take, TypeInv, LockInv, Unlocked
  <2> QED  BY <1>3, <2>1, <2>4, <2>7 DEF MailInv, QueueInv
<1> QED  BY <1>5, <1>6
-----------------------------------------------------------------------------
(* The invariant is inductive.                                             *)
LEMMA MailInductive == MailInv /\ [Next]_vars => MailInv'
<1> SUFFICES ASSUME MailInv, [Next]_vars PROVE MailInv'  OBVIOUS
<1>1. CASE \E p \in Producers : Producer(p)
  BY <1>1, PostKeeps, PutKeeps, CountKeeps DEF Producer
<1>2. CASE Close \/ Take
  BY <1>2, CloseKeeps, TakeKeeps
<1>3. CASE UNCHANGED vars
  BY <1>3 DEF vars, MailInv, TypeInv, LockInv, Unlocked, QueueInv, QueueIs,
              CountInv, Uncounted, Unput, TotalCalls
<1> QED  BY <1>1, <1>2, <1>3 DEF Next

(* Every reachable state satisfies it.                                     *)
LEMMA MailInvariant == Spec => []MailInv
  BY InitEstablishes, MailInductive, PTL DEF Spec

(* Nothing accepted is lost, reordered or left behind when the consumer is *)
(* told to end, although it takes without the lock (take, close).          *)
THEOREM MailboxLosesNothing == Spec => []NothingLost
<1>1. MailInv => NothingLost
  <2> SUFFICES ASSUME MailInv PROVE NothingLost  OBVIOUS
  <2>1. PICK w \in Seq(AnyEvent) : QueueIs(w)
    BY DEF MailInv, QueueInv
  <2>2. Waiting = w
    <3>1. CASE closed /\ consumer = "taking"
      <4>1. queue = Append(w, Sentinel)
        BY <2>1, <3>1 DEF QueueIs
      <4>2. SubSeq(queue, 1, Len(queue) - 1) = w
        BY <4>1, FrontOfAppend
      <4> QED  BY <3>1, <4>2 DEF Waiting
    <3>2. CASE ~(closed /\ consumer = "taking")
      BY <2>1, <3>2 DEF QueueIs, Waiting
    <3> QED  BY <3>1, <3>2
  <2>3. taken \o Waiting = accepted
    BY <2>1, <2>2 DEF QueueIs
  <2>4. consumer = "ended" => taken = accepted
    BY <2>1, ConcatEmptySeq DEF QueueIs, MailInv, TypeInv
  <2> QED  BY <2>3, <2>4 DEF NothingLost
<1> QED  BY MailInvariant, <1>1, PTL

(* Every call is accounted for exactly once, however many producers there  *)
(* are: queued, dropped at the cap or refused after the close (post).      *)
THEOREM PostsAreAccountedFor == Spec => []EveryPostAccountedFor
<1>1. MailInv => EveryPostAccountedFor
  <2> SUFFICES ASSUME MailInv PROVE EveryPostAccountedFor  OBVIOUS
  <2>1. TypeInv /\ CountInv /\ Len(accepted) \in Nat
    BY DEF MailInv, TypeInv
  <2>2. SumFunction(calls) = SumFunctionOnSet(calls, Producers)
    BY <2>1 DEF SumFunction, TypeInv
  <2>3. posted <= Len(accepted)
    BY <2>1 DEF CountInv, TypeInv, Uncounted
  <2>4. ASSUME Unlocked
        PROVE  posted = Len(accepted) /\ SumFunction(calls) = posted + dropped + refused
    <3>1. Uncounted = 0 /\ Unput = 0
      BY <2>4 DEF Unlocked, Uncounted, Unput
    <3> QED  BY <2>1, <2>2, <3>1 DEF CountInv, TotalCalls, TypeInv
  <2> QED  BY <2>3, <2>4 DEF EveryPostAccountedFor
<1> QED  BY MailInvariant, <1>1, PTL
-----------------------------------------------------------------------------
(* Why everything is taken: what EventuallyTaken needs besides fairness.   *)

(* While an accepted event waits, and from the close until the consumer    *)
(* ends, the consumer is taking and has something to take; what it takes   *)
(* next is the oldest accepted event that it has not got.                  *)
TakeIsNeverStuck ==
    (Len(taken) < Len(accepted) \/ (closed /\ consumer # "ended")) =>
        /\ consumer = "taking" /\ queue # <<>>
        /\ Len(taken) < Len(accepted) => Head(queue) = accepted[Len(taken) + 1]

(* The consumer never blocks on a mailbox that still owes it an event or   *)
(* the sentinel, and no producer overtakes: the events before one that was *)
(* accepted only become fewer (take, close).                               *)
THEOREM ConsumerIsNeverStuck == Spec => []TakeIsNeverStuck
<1>1. MailInv => TakeIsNeverStuck
  <2> SUFFICES ASSUME MailInv, Len(taken) < Len(accepted) \/ (closed /\ consumer # "ended")
               PROVE  /\ consumer = "taking" /\ queue # <<>>
                      /\ Len(taken) < Len(accepted) => Head(queue) = accepted[Len(taken) + 1]
    BY DEF TakeIsNeverStuck
  <2>1. PICK w \in Seq(AnyEvent) : QueueIs(w)
    BY DEF MailInv, QueueInv
  <2>2. TypeInv
    BY DEF MailInv
  <2>3. taken \in Seq(AnyEvent) /\ accepted \in Seq(AnyEvent) /\ taken \o w = accepted
    BY <2>1, <2>2 DEF QueueIs, TypeInv
  <2>4. /\ Len(accepted) = Len(taken) + Len(w) /\ Len(taken) \in Nat /\ Len(w) \in Nat
        /\ \A i \in 1..Len(w) : accepted[Len(taken) + i] = w[i]
    <3>1. Len(taken \o w) = Len(taken) + Len(w)
      BY <2>1, <2>3, ConcatProperties
    <3>2. ASSUME NEW i \in 1..Len(w) PROVE (taken \o w)[Len(taken) + i] = w[i]
      BY <2>1, <2>3, ConcatProperties
    <3> QED  BY <2>1, <2>3, <3>1, <3>2
  <2>5. Len(taken) < Len(accepted) => Len(w) > 0
    BY <2>4
  <2>6. consumer = "taking"
    BY <2>1, <2>2, <2>5 DEF QueueIs, TypeInv
  <2>7. queue = IF closed THEN Append(w, Sentinel) ELSE w
    BY <2>1, <2>6 DEF QueueIs
  <2>8. queue # <<>>
    <3>1. CASE closed
      BY <2>1, <2>7, <3>1, AppendProperties
    <3>2. CASE ~closed
      BY <2>1, <2>5, <2>7, <3>2
    <3> QED  BY <3>1, <3>2
  <2>9. ASSUME Len(taken) < Len(accepted) PROVE Head(queue) = accepted[Len(taken) + 1]
    <3>1. 1 \in 1..Len(w) /\ accepted[Len(taken) + 1] = w[1]
      BY <2>4, <2>5, <2>9
    <3>2. Head(queue) = queue[1]
      BY DEF Head
    <3>3. CASE closed
      <4>1. Append(w, Sentinel)[1] = w[1]
        BY <2>1, <3>1
      <4> QED  BY <2>7, <3>1, <3>2, <3>3, <4>1
    <3>4. CASE ~closed
      BY <2>7, <3>1, <3>2, <3>4
    <3> QED  BY <3>3, <3>4
  <2> QED  BY <2>6, <2>8, <2>9
<1> QED  BY MailInvariant, <1>1, PTL
=============================================================================
