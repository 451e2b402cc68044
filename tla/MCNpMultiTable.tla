--------------------------- MODULE MCNpMultiTable ---------------------------
(* The module of TLC's runs of NpMultiTable. *)
EXTENDS NpMultiTable
=============================================================================
