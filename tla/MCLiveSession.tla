---------------------------- MODULE MCLiveSession ----------------------------
(* A small instance of LiveSession for TLC: two orders, the first of which *)
(* can fill in parts.                                                      *)
EXTENDS LiveSession

MCOrders == 1..2
MCQuantity == <<2, 1>>
=============================================================================
