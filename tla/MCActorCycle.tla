----------------------------- MODULE MCActorCycle -----------------------------
(* A decision that becomes three orders.                                   *)
EXTENDS ActorCycle

MCBurstSize == 3
===============================================================================
