------------------------------ MODULE MCLiveState ------------------------------
(* TLC instance of LiveState; the configurations give the constants.          *)
EXTENDS LiveState, TLC
================================================================================
