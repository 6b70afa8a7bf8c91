---------------------------- MODULE MCLoginThrottle ----------------------------
(***************************************************************************)
(* Instances of LoginThrottle for TLC.                                     *)
(***************************************************************************)
EXTENDS LoginThrottle, TLC

=============================================================================
