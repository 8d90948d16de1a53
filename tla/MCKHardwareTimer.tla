--------------------------- MODULE MCKHardwareTimer ---------------------------
(* A small instance of KHardwareTimer.                                        *)
EXTENDS KHardwareTimer
=============================================================================
