---------------------------- MODULE MCDispatcher ----------------------------
(* Small instances of Dispatcher for TLC.                                   *)
EXTENDS Dispatcher, TLC

=============================================================================
