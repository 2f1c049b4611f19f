---------------------------- MODULE UpdaterProofs ----------------------------
(***************************************************************************)
(* Whatever releases there are, whichever of them are broken and wherever  *)
(* an update or the daemon fails, the way back to a proven binary stays    *)
(* open.  UpdaterInv is inductive: Settled says on what an update works.   *)
(***************************************************************************)
EXTENDS Updater, TLAPS

LEMMA InitInv == Init => UpdaterInv
<1> SUFFICES ASSUME Init PROVE UpdaterInv
    OBVIOUS
<1>1. TypeOK
    <2>1. updates \in 0 .. MaxUpdates /\ faults \in 0 .. MaxFaults
        BY UpdatesAssumption DEF Init
    <2>2. backup \in [Versions -> Versions \cup {NoVersion}]
        BY DEF Init
    <2> QED BY <2>1, <2>2, VersionsAssumption DEF Init, TypeOK
<1>2. Settled /\ WayBack
    BY VersionsAssumption DEF Init, Settled, WayBack, Serving, Handling
<1> QED BY <1>1, <1>2 DEF UpdaterInv

(* A step of the update in a version that serves.                          *)
LEMMA UpdateInv ==
    ASSUME UpdaterInv, Verify \/ Save \/ Record \/ Install \/ RestartFails
    PROVE  UpdaterInv'
<1> USE VersionsAssumption, UpdatesAssumption DEF UpdaterInv, Serving, Handling, GoesOn
<1>1. CASE Verify
    <2>1. TypeOK'
        BY <1>1 DEF Verify, disk, TypeOK, Settled
    <2>2. Settled' /\ WayBack'
        BY <1>1 DEF Verify, disk, TypeOK, Settled, WayBack
    <2> QED BY <2>1, <2>2
<1>2. CASE Save
    <2>1. TypeOK'
        BY <1>2 DEF Save, disk, TypeOK, Settled
    <2>2. Settled' /\ WayBack'
        BY <1>2 DEF Save, disk, TypeOK, Settled, WayBack
    <2> QED BY <2>1, <2>2
<1>3. CASE Record
    <2>1. TypeOK'
        BY <1>3 DEF Record, disk, TypeOK, Settled
    <2>2. Settled' /\ WayBack'
        BY <1>3 DEF Record, disk, TypeOK, Settled, WayBack
    <2> QED BY <2>1, <2>2
<1>4. CASE Install
    <2>1. TypeOK'
        BY <1>4 DEF Install, disk, TypeOK, Settled
    <2>2. Settled' /\ WayBack'
        BY <1>4 DEF Install, disk, TypeOK, Settled, WayBack
    <2> QED BY <2>1, <2>2
<1>5. CASE RestartFails
    <2>1. faults' \in 0 .. MaxFaults
        BY <1>5 DEF RestartFails, TypeOK
    <2>2. TypeOK'
        BY <2>1, <1>5 DEF RestartFails, disk, TypeOK, Settled
    <2>3. Settled' /\ WayBack'
        BY <1>5 DEF RestartFails, disk, TypeOK, Settled, WayBack
    <2> QED BY <2>2, <2>3
<1> QED BY <1>1, <1>2, <1>3, <1>4, <1>5

(* The process ends, with or without a rollback.                           *)
LEMMA EndInv ==
    ASSUME UpdaterInv, Restart \/ BrokenRunFails \/ RemoveRecord \/ RunFails \/ Killed
    PROVE  UpdaterInv'
<1> USE VersionsAssumption, UpdatesAssumption DEF UpdaterInv, ProcessEnds, Serving, Handling
<1>1. CASE Restart
    <2>1. TypeOK'
        BY <1>1 DEF Restart, disk, TypeOK, Settled
    <2>2. Settled' /\ WayBack'
        BY <1>1 DEF Restart, disk, TypeOK, Settled, WayBack
    <2> QED BY <2>1, <2>2
<1>2. CASE BrokenRunFails
    <2>1. TypeOK'
        BY <1>2 DEF BrokenRunFails, RollbackPending, disk, TypeOK, Settled
    <2>2. Settled' /\ WayBack'
        BY <1>2 DEF BrokenRunFails, RollbackPending, disk, TypeOK, Settled, WayBack
    <2> QED BY <2>1, <2>2
<1>3. CASE RunFails
    <2>1. faults' \in 0 .. MaxFaults
        BY <1>3 DEF RunFails, TypeOK
    <2>2. TypeOK'
        BY <2>1, <1>3 DEF RunFails, RollbackPending, disk, TypeOK, Settled
    <2>3. Settled' /\ WayBack'
        BY <1>3 DEF RunFails, RollbackPending, disk, TypeOK, Settled, WayBack
    <2> QED BY <2>2, <2>3
<1>4. CASE Killed
    <2>1. faults' \in 0 .. MaxFaults
        BY <1>4 DEF Killed, TypeOK
    <2>2. TypeOK'
        BY <2>1, <1>4 DEF Killed, disk, TypeOK, Settled
    <2>3. Settled' /\ WayBack'
        BY <1>4 DEF Killed, disk, TypeOK, Settled, WayBack
    <2> QED BY <2>2, <2>3
<1>5. CASE RemoveRecord
    <2>1. TypeOK'
        BY <1>5 DEF RemoveRecord, TypeOK, Settled
    <2>2. Settled' /\ WayBack'
        BY <1>5 DEF RemoveRecord, TypeOK, Settled, WayBack
    <2> QED BY <2>1, <2>2
<1> QED BY <1>1, <1>2, <1>3, <1>4, <1>5

(* The process starts and confirms; releases are published.                *)
LEMMA RunInv ==
    ASSUME UpdaterInv, Publish \/ Start \/ Started \/ Confirm
    PROVE  UpdaterInv'
<1> USE VersionsAssumption DEF UpdaterInv, Serving, Handling, GoesOn
<1>1. CASE Publish
    <2>1. TypeOK'
        BY <1>1 DEF Publish, disk, TypeOK, Settled
    <2>2. Settled' /\ WayBack'
        BY <1>1 DEF Publish, disk, TypeOK, Settled, WayBack
    <2> QED BY <2>1, <2>2
<1>2. CASE Start
    <2>1. TypeOK'
        BY <1>2 DEF Start, disk, TypeOK, Settled
    <2>2. Settled' /\ WayBack'
        BY <1>2 DEF Start, disk, TypeOK, Settled, WayBack
    <2> QED BY <2>1, <2>2
<1>3. CASE Started
    <2>1. TypeOK'
        BY <1>3 DEF Started, disk, TypeOK, Settled
    <2>2. Settled' /\ WayBack'
        BY <1>3 DEF Started, disk, TypeOK, Settled, WayBack
    <2> QED BY <2>1, <2>2
<1>4. CASE Confirm
    <2>1. TypeOK'
        BY <1>4 DEF Confirm, disk, TypeOK, Settled
    <2>2. Settled' /\ WayBack'
        BY <1>4 DEF Confirm, disk, TypeOK, Settled, WayBack
    <2> QED BY <2>1, <2>2
<1> QED BY <1>1, <1>2, <1>3, <1>4

-----------------------------------------------------------------------------
(* The invariant from which the next theorem follows.                      *)
THEOREM UpdaterCorrect == Spec => []UpdaterInv
<1>1. UpdaterInv /\ [Next]_vars => UpdaterInv'
    <2> SUFFICES ASSUME UpdaterInv, [Next]_vars PROVE UpdaterInv'
        OBVIOUS
    <2>1. CASE Next
        BY <2>1, UpdateInv, EndInv, RunInv DEF Next, UpdateStep, RunStep
    <2>2. CASE UNCHANGED vars
        BY <2>2 DEF vars, disk, UpdaterInv, TypeOK, Settled, WayBack, Serving, Handling
    <2> QED BY <2>1, <2>2
<1> QED BY InitInv, <1>1, PTL DEF Spec

(* Client.Apply, Confirm and RollbackPending never leave an unproven       *)
(* binary without the record of a proven one, as long as each update       *)
(* begins after the last one has been settled and none takes a step after  *)
(* a failing Run has copied the saved binary back.                         *)
THEOREM WayBackStaysOpen == Spec => []WayBack
BY UpdaterCorrect, PTL DEF UpdaterInv

=============================================================================
