--------------------------- MODULE MCConfigService ---------------------------
(* Small instances of ConfigService.  Callers and inputs are only compared *)
(* for equality, so the runs without liveness use symmetry over them.      *)
EXTENDS ConfigService, TLC

Symmetry ==
    Permutations(Appliers) \cup Permutations(Clis) \cup Permutations(Inputs)

(* Everything the model lets fail.                                         *)
AllFaults == FaultKinds

(* Failures of the runtime, of rendering and of the machine.               *)
RuntimeFaults == {"resolve", "prepare", "swap", "fatal", "child", "boot", "crash"}

NoFaults == {}

=============================================================================
