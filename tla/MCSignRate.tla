------------------------------ MODULE MCSignRate ------------------------------
(***************************************************************************)
(* Two callers and a window of two ticks: long enough for a caller to hold *)
(* a reading that another one's window has left behind.                    *)
(***************************************************************************)
EXTENDS SignRate, TLC
===============================================================================
