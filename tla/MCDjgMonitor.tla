--------------------------- MODULE MCDjgMonitor ---------------------------
(* DjgMonitor for TLC.                                                     *)
EXTENDS DjgMonitor
=============================================================================
