---------------------------- MODULE MCOperationLock ----------------------------
(* OperationLock for TLC.                                                     *)
EXTENDS OperationLock, TLC
================================================================================
