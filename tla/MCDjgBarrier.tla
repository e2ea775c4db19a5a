--------------------------- MODULE MCDjgBarrier ---------------------------
(* DjgBarrier for TLC.                                                     *)
EXTENDS DjgBarrier
=============================================================================
