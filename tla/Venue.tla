------------------------------- MODULE Venue -------------------------------
(***************************************************************************)
(* The brokerage (KIS) as the engine sees it: it accepts market orders,    *)
(* fills them in parts, may drop the remainder of one, and answers a fill  *)
(* enquiry with cumulative figures.  The venue itself is not part of the   *)
(* repository; what an enquiry returns is, in scripts/kis_gateway.py and   *)
(* vmtrader/broker/kis/parse.py.                                           *)
(*                                                                         *)
(* Orders are numbered by creation, so "oldest first" is numeric order.    *)
(* Quantities are unsigned: the side of an order never reaches the         *)
(* arithmetic of the fill pipeline.                                        *)
(***************************************************************************)
EXTENDS Naturals

CONSTANTS Orders,     \* every order the engine will ever create
          Quantity    \* the (clamped) quantity of each order

ASSUME OrdersAssumption ==
    /\ Orders \subseteq Nat \ {0}
    /\ Quantity \in [Orders -> Nat \ {0}]

VARIABLES accepted,   \* orders that reached the venue
          filled,     \* cumulative filled quantity of each order
          ended,      \* orders with no remaining quantity at the venue
          today       \* orders accepted on the current trading day

venueVars == <<accepted, filled, ended, today>>

VenueTypeOK ==
    /\ accepted \subseteq Orders
    /\ filled \in [Orders -> Nat]
    /\ ended \subseteq accepted
    /\ today \subseteq accepted

VenueInit ==
    /\ accepted = {}
    /\ filled = [o \in Orders |-> 0]
    /\ ended = {}
    /\ today = {}

(* The venue takes an order on.                                            *)
Accept(o) ==
    /\ accepted' = accepted \cup {o}
    /\ today' = today \cup {o}
    /\ UNCHANGED <<filled, ended>>

(* One more share of a working order is filled; the last one ends it.      *)
Fill(o) ==
    /\ o \in accepted \ ended
    /\ filled' = [filled EXCEPT ![o] = @ + 1]
    /\ ended' = IF filled[o] + 1 = Quantity[o] THEN ended \cup {o} ELSE ended
    /\ UNCHANGED <<accepted, today>>

(* The venue rejects, or cancels, what is left of a working order.         *)
DropRemainder(o) ==
    /\ o \in accepted \ ended
    /\ ended' = ended \cup {o}
    /\ UNCHANGED <<accepted, filled, today>>

(* The day turns: day orders lapse, and enquiries cover only the new day.  *)
NewDay ==
    /\ today # {}
    /\ today' = {}
    /\ ended' = accepted
    /\ UNCHANGED <<accepted, filled>>
-----------------------------------------------------------------------------
(* No row for the order: accepted but unfilled, asked about on another     *)
(* day, or the call was rate-limited.  The three are indistinguishable.    *)
EmptyReport == [filled |-> 0, done |-> FALSE]

(* What the enquiry returns when its row arrives.  It asks about today     *)
(* only, and 'is_done' is the remaining quantity reaching zero, however it *)
(* got there.                                                              *)
TrueReport(o) ==
    IF o \in today THEN [filled |-> filled[o], done |-> o \in ended]
                   ELSE EmptyReport

Reports(o) == {EmptyReport, TrueReport(o)}
=============================================================================
