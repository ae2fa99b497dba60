---------------------------- MODULE MCTailSource ----------------------------
(* Small instances of TailSource for TLC.                                  *)
EXTENDS TailSource
=============================================================================
