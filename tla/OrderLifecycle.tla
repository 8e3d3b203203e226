---------------------------- MODULE OrderLifecycle ----------------------------
(***************************************************************************)
(* What the ledger promises an auditor, with no threads, no venue and no   *)
(* process in sight: the life of an order row, as the state names of       *)
(* vmtrader/broker/live/ledger.py describe it, and the quantity on record  *)
(* for it.  An order is intended before it is submitted, fills are put on  *)
(* record only while it is submitted and only up to its quantity, and a    *)
(* closed row never changes again.                                         *)
(***************************************************************************)
EXTENDS Naturals

CONSTANTS Orders, Quantity

VARIABLES row,        \* the state of each order's row
          recorded    \* the filled quantity on record for it

Init ==
    /\ row = [o \in Orders |-> "none"]
    /\ recorded = [o \in Orders |-> 0]

Move(o, from, to) ==
    /\ row[o] = from
    /\ row' = [row EXCEPT ![o] = to]
    /\ UNCHANGED recorded

Intend(o) == Move(o, "none", "INTENT")
Submit(o) == Move(o, "INTENT", "SUBMITTED")
Reject(o) == Move(o, "INTENT", "REJECTED")
Close(o)  == Move(o, "SUBMITTED", "FILLED") \/ Move(o, "SUBMITTED", "STALE")

(* A fill increment is put on record.                                      *)
Record(o) ==
    /\ row[o] = "SUBMITTED"
    /\ \E q \in 1..Quantity[o] :
          /\ recorded[o] < q
          /\ recorded' = [recorded EXCEPT ![o] = q]
    /\ UNCHANGED row

Next ==
    \E o \in Orders : Intend(o) \/ Submit(o) \/ Reject(o) \/ Close(o) \/ Record(o)

Spec == Init /\ [][Next]_<<row, recorded>>
=============================================================================
