-------------------------- MODULE MCApplyOperations --------------------------
(* One or two panels and a handful of operations.                          *)
EXTENDS ApplyOperations, TLC

=============================================================================
