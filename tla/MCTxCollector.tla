--------------------------- MODULE MCTxCollector ---------------------------
(* Small instances of TxCollector. *)
EXTENDS TxCollector
============================================================================
