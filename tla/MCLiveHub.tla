----------------------------- MODULE MCLiveHub -----------------------------
(* Small instances of LiveHub for TLC.                                     *)
EXTENDS LiveHub
=============================================================================
