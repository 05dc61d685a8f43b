---------------------------- MODULE MCOutboundGate ----------------------------
(* Two requests on a gate of one slot, so that one waits while the other is  *)
(* answered 429; of the backoffs of the two retries one is shorter than the  *)
(* cooldown and one is as long.                                              *)
EXTENDS OutboundGate
===============================================================================
