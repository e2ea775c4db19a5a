---------------------------- MODULE MCUartDriver ----------------------------
(* UartDriver for TLC.                                                       *)
EXTENDS UartDriver
=============================================================================
