--------------------------- MODULE MCForkingServer ---------------------------
(* The module of TLC's run of ForkingServer. *)
EXTENDS ForkingServer, TLC
=============================================================================
