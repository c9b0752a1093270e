--------------------------- MODULE MCShareDelivery ---------------------------
(* One wallet with two rigs, of which one gets an accumulator of its own.     *)
EXTENDS ShareDelivery
==============================================================================
