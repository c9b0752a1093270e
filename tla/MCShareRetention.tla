------------------------- MODULE MCShareRetention -------------------------
(* ShareRetention with one block of each kind. *)
EXTENDS ShareRetention
============================================================================
