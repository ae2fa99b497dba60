-------------------------- MODULE MCIngestSession --------------------------
(* Small instances of IngestSession for TLC.                               *)
EXTENDS IngestSession
=============================================================================
