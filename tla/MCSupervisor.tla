----------------------------- MODULE MCSupervisor -----------------------------
(* The supervisor with two trees and groups of two members.                *)
EXTENDS Supervisor, TLC

AllFaults == FaultKinds

=============================================================================
