------------------------------ MODULE MCMailbox ------------------------------
(* Two feeds posting to one consumer.                                      *)
EXTENDS Mailbox

CONSTANTS p1, p2

TwoProducers == {p1, p2}
=============================================================================
