------------------------- MODULE ConfigServiceProofs -------------------------
(* Theorems about ConfigService, for every set of inputs and callers and   *)
(* every choice of the failures that can happen; the last one, that        *)
(* ApplyBundle implements AtomicApply, while the storage works.            *)
EXTENDS ConfigService, TLAPS

-----------------------------------------------------------------------------
(* Type correctness.  The store's operations first, each for itself.       *)

LEMMA InitStoreType == StoreInit => StoreTypeOK
  BY DEF StoreInit, StoreTypeOK, Row, Ids, Statuses

LEMMA SaveDraftType ==
    ASSUME StoreTypeOK, NEW b \in Inputs, NEW c \in BOOLEAN, StoreSaveDraft(b, c)
    PROVE  StoreTypeOK'
  BY DEF StoreTypeOK, StoreSaveDraft, Ids, Row, Statuses

(* A row keeps its type when its status is replaced by another one.        *)
LEMMA StatusUpdate ==
    ASSUME NEW row \in Row, NEW s \in Statuses
    PROVE  [row EXCEPT !.status = s] \in Row
  BY DEF Row

LEMMA ActivateType ==
    ASSUME StoreTypeOK, NEW id, StoreActivate(id)
    PROVE  StoreTypeOK'
  <1>1. ASSUME NEW r \in DOMAIN rows
        PROVE  ActivatedStatus(id, r) \in Statuses
    BY <1>1 DEF StoreTypeOK, ActivatedStatus, Statuses, Row
  <1>2. QED
    BY <1>1, StatusUpdate DEF StoreTypeOK, StoreActivate

LEMMA ResetType ==
    ASSUME StoreTypeOK, StoreResetDraftToActive
    PROVE  StoreTypeOK'
  BY DEF StoreTypeOK, StoreResetDraftToActive

LEMMA PruneType ==
    ASSUME StoreTypeOK, StorePruneRevisions
    PROVE  StoreTypeOK'
  BY DEF StoreTypeOK, StorePruneRevisions

LEMMA FailType ==
    ASSUME StoreTypeOK, NEW id, StoreFail(id)
    PROVE  StoreTypeOK'
  BY StatusUpdate DEF StoreTypeOK, StoreFail, Statuses

LEMMA UnchangedStoreType ==
    ASSUME StoreTypeOK, UNCHANGED storeVars
    PROVE  StoreTypeOK'
  BY DEF StoreTypeOK, storeVars

(* The rest of the type invariant, apart from the store.                   *)
ProcessTypeOK ==
    /\ cacheActive \in Nat /\ cacheDraft \in Nat
    /\ built \subseteq Nat
    /\ current \in Nat /\ alive \in BOOLEAN /\ fatal \in BOOLEAN
    /\ daemon \in DaemonStates
    /\ lapses \subseteq Lapses

CallTypeOK ==
    /\ lock \in Appliers \cup {NoOne} /\ phase \in Phases
    /\ req \in [Appliers -> Inputs \cup {NoInput}]
    /\ result \in [Appliers -> Verdicts]
    /\ base \in Nat /\ cand \in Nat /\ verdict \in Verdicts
    /\ saved \in [Clis -> Nat]
    /\ requests \in Nat

LEMMA TypeParts == TypeOK <=> StoreTypeOK /\ ProcessTypeOK /\ CallTypeOK
  BY DEF TypeOK, ProcessTypeOK, CallTypeOK

LEMMA InitTypeOK == Init => TypeOK
  <1> SUFFICES ASSUME Init PROVE TypeOK
    OBVIOUS
  <1>1. StoreTypeOK
    BY InitStoreType DEF Init
  <1>2. ProcessTypeOK
    <2>1. alive \in BOOLEAN /\ fatal \in BOOLEAN /\ lapses \subseteq Lapses
      BY DEF Init
    <2>2. QED
      BY <2>1 DEF Init, ProcessTypeOK, DaemonStates
  <1>3. CallTypeOK
    BY DEF Init, CallTypeOK, Phases, Verdicts
  <1>4. QED
    BY <1>1, <1>2, <1>3, TypeParts

(* Losing everything in memory, returning and going on keep the types.     *)
LEMMA DieType ==
    ASSUME TypeOK, Die, built' \subseteq Nat
    PROVE  TypeOK'
  <1>1. StoreTypeOK'
    BY UnchangedStoreType DEF Die, TypeOK
  <1>2. CallTypeOK'
    BY DEF Die, TypeOK, CallTypeOK, Phases, Verdicts
  <1>3. ProcessTypeOK'
    <2>1. alive' \in BOOLEAN /\ fatal' \in BOOLEAN /\ lapses' \subseteq Lapses
      BY DEF Die
    <2>2. QED
      BY <2>1 DEF Die, ProcessTypeOK, DaemonStates
  <1>4. QED
    BY <1>1, <1>2, <1>3 DEF TypeOK, ProcessTypeOK, CallTypeOK

LEMMA ReturnType ==
    ASSUME CallTypeOK, NEW r \in Verdicts, Return(r)
    PROVE  CallTypeOK'
  BY DEF CallTypeOK, Return, Phases, Verdicts

LEMMA ContinueType ==
    ASSUME CallTypeOK, NEW p \in Phases, Continue(p),
           cand' \in Nat, verdict' \in Verdicts
    PROVE  CallTypeOK'
  BY DEF CallTypeOK, Continue

(* The supervisor's answers keep the types of what they change.            *)
LEMMA RuntimeType ==
    ASSUME ProcessTypeOK, NEW r \in Nat, Replaced(r) \/ Restored \/ GaveUp(r)
    PROVE  current' \in Nat /\ alive' \in BOOLEAN /\ fatal' \in BOOLEAN
  <1>1. CASE Replaced(r)
    BY <1>1 DEF Replaced, ProcessTypeOK
  <1>2. CASE Restored
    BY <1>2 DEF Restored, ProcessTypeOK
  <1>3. CASE GaveUp(r)
    BY <1>3 DEF GaveUp, ProcessTypeOK
  <1>4. QED
    BY <1>1, <1>2, <1>3

LEMMA UnchangedCallType ==
    ASSUME CallTypeOK, UNCHANGED callVars
    PROVE  CallTypeOK'
  BY DEF CallTypeOK, callVars

LEMMA UnchangedProcessType ==
    ASSUME ProcessTypeOK, UNCHANGED processVars, UNCHANGED lapses, built' \subseteq Nat
    PROVE  ProcessTypeOK'
  <1>1. UNCHANGED <<cacheActive, cacheDraft, current, alive, fatal, daemon>>
    BY DEF processVars
  <1>2. QED
    BY <1>1 DEF ProcessTypeOK

(* The start of the daemon.                                                *)
LEMMA BootType ==
    ASSUME TypeOK, BootStep
    PROVE  TypeOK'
  <1> USE TypeParts
  <1>1. CASE BootRead
    <2>1. StoreTypeOK'
      BY <1>1, ResetType, UnchangedStoreType DEF BootRead
    <2>2. CallTypeOK'
      BY <1>1, UnchangedCallType DEF BootRead
    <2>3. ProcessTypeOK'
      BY <1>1 DEF BootRead, ProcessTypeOK, DaemonStates
    <2>4. QED
      BY <2>1, <2>2, <2>3 DEF TypeOK, ProcessTypeOK, CallTypeOK
  <1>2. CASE BootPrune
    <2>1. StoreTypeOK'
      BY <1>2, PruneType DEF BootPrune
    <2>2. CallTypeOK'
      BY <1>2, UnchangedCallType DEF BootPrune
    <2>3. ProcessTypeOK'
      BY <1>2 DEF BootPrune, ProcessTypeOK, DaemonStates
    <2>4. QED
      BY <2>1, <2>2, <2>3 DEF TypeOK, ProcessTypeOK, CallTypeOK
  <1>3. CASE BootTidy \/ BootPrepare
    <2>1. StoreTypeOK'
      BY <1>3, UnchangedStoreType DEF BootTidy, BootPrepare
    <2>2. CallTypeOK'
      BY <1>3, UnchangedCallType DEF BootTidy, BootPrepare
    <2>3. ProcessTypeOK'
      BY <1>3 DEF BootTidy, BootPrepare, ProcessTypeOK, StoreTypeOK, DaemonStates, Ids
    <2>4. QED
      BY <2>1, <2>2, <2>3 DEF TypeOK, ProcessTypeOK, CallTypeOK
  <1>4. CASE BootStart
    <2>1. StoreTypeOK'
      BY <1>4, UnchangedStoreType DEF BootStart
    <2>2. CallTypeOK'
      BY <1>4, UnchangedCallType DEF BootStart
    <2>3. ProcessTypeOK'
      <3>1. alive' \in BOOLEAN /\ fatal' \in BOOLEAN /\ lapses' \subseteq Lapses
        BY <1>4 DEF BootStart, ProcessTypeOK
      <3>2. QED
        BY <1>4, <3>1 DEF BootStart, ProcessTypeOK, StoreTypeOK, DaemonStates, Ids
    <2>4. QED
      BY <2>1, <2>2, <2>3 DEF TypeOK, ProcessTypeOK, CallTypeOK
  <1>5. QED
    BY <1>1, <1>2, <1>3, <1>4 DEF BootStep

(* The daemon's ways out, and what the supervisor does by itself.          *)
LEMMA ExitType ==
    ASSUME TypeOK, BootFails \/ ExitOnFatal \/ Crash \/ ChildExits \/ WatchReports
    PROVE  TypeOK'
  <1>1. built \subseteq Nat
    BY DEF TypeOK
  <1>2. CASE BootFails
    BY <1>1, <1>2, DieType DEF BootFails
  <1>3. CASE ExitOnFatal \/ Crash
    BY <1>1, <1>3, DieType DEF ExitOnFatal, Crash
  <1>4. CASE ChildExits \/ WatchReports
    <2>1. StoreTypeOK' /\ CallTypeOK'
      BY <1>4, UnchangedStoreType, UnchangedCallType, TypeParts
      DEF ChildExits, WatchReports
    <2>2. alive' \in BOOLEAN /\ fatal' \in BOOLEAN /\ lapses' \subseteq Lapses
      BY <1>4 DEF ChildExits, WatchReports, TypeOK
    <2>3. ProcessTypeOK'
      BY <1>4, <2>2 DEF ChildExits, WatchReports, TypeOK, ProcessTypeOK
    <2>4. QED
      BY <2>1, <2>3 DEF TypeOK, ProcessTypeOK, CallTypeOK
  <1>5. QED
    BY <1>2, <1>3, <1>4

(* Calls arriving and being let in.                                        *)
LEMMA CallType ==
    ASSUME TypeOK, NEW a \in Appliers,
           CallApplyBundle(a) \/ CallApply(a) \/ Refuse(a) \/ Lock(a)
    PROVE  TypeOK'
  <1> USE TypeParts
  <1>1. ASSUME NEW b \in Inputs, Call(a, b)
        PROVE  TypeOK'
    <2>1. StoreTypeOK' /\ ProcessTypeOK'
      BY <1>1, UnchangedStoreType, UnchangedProcessType DEF Call, ProcessTypeOK
    <2>2. CallTypeOK'
      BY <1>1 DEF Call, CallTypeOK, Verdicts
    <2>3. QED
      BY <2>1, <2>2 DEF TypeOK, ProcessTypeOK, CallTypeOK
  <1>2. CASE CallApplyBundle(a)
    BY <1>1, <1>2 DEF CallApplyBundle
  <1>3. CASE CallApply(a)
    <2>1. rows[draftId].input \in Inputs
      BY DEF StoreTypeOK, Row
    <2>2. QED
      BY <1>1, <1>3, <2>1 DEF CallApply
  <1>4. CASE Refuse(a)
    <2>1. StoreTypeOK' /\ ProcessTypeOK'
      BY <1>4, UnchangedStoreType, UnchangedProcessType DEF Refuse, ProcessTypeOK
    <2>2. CallTypeOK'
      BY <1>4 DEF Refuse, CallTypeOK, Verdicts
    <2>3. QED
      BY <2>1, <2>2 DEF TypeOK, ProcessTypeOK, CallTypeOK
  <1>5. CASE Lock(a)
    <2>1. StoreTypeOK' /\ ProcessTypeOK'
      BY <1>5, UnchangedStoreType, UnchangedProcessType DEF Lock, ProcessTypeOK
    <2>2. CallTypeOK'
      BY <1>5 DEF Lock, CallTypeOK, StoreTypeOK, Verdicts, Phases, Ids
    <2>3. QED
      BY <2>1, <2>2 DEF TypeOK, ProcessTypeOK, CallTypeOK
  <1>6. QED
    BY <1>2, <1>3, <1>4, <1>5

(* SaveDraft and the copy it caches.                                       *)
LEMMA ImportType ==
    ASSUME TypeOK, NEW c \in Clis,
           SetDraft(c) \/ \E b \in Inputs : SaveDraft(c, b)
    PROVE  TypeOK'
  <1> USE TypeParts
  <1>1. CASE SetDraft(c)
    <2>1. StoreTypeOK'
      BY <1>1, UnchangedStoreType DEF SetDraft
    <2>2. CallTypeOK'
      BY <1>1 DEF SetDraft, CallTypeOK
    <2>3. cacheDraft' \in Nat
      BY <1>1 DEF SetDraft, CallTypeOK
    <2>4. ProcessTypeOK'
      BY <1>1, <2>3 DEF SetDraft, ProcessTypeOK
    <2>5. QED
      BY <2>1, <2>2, <2>4 DEF TypeOK, ProcessTypeOK, CallTypeOK
  <1>2. ASSUME NEW b \in Inputs, SaveDraft(c, b)
        PROVE  TypeOK'
    <2>1. StoreTypeOK'
      BY <1>2, SaveDraftType DEF SaveDraft
    <2>2. ProcessTypeOK'
      BY <1>2, UnchangedProcessType DEF SaveDraft, ProcessTypeOK
    <2>3. CallTypeOK'
      BY <1>2 DEF SaveDraft, CallTypeOK, StoreTypeOK, Ids
    <2>4. QED
      BY <2>1, <2>2, <2>3 DEF TypeOK, ProcessTypeOK, CallTypeOK
  <1>3. QED
    BY <1>1, <1>2

(* Who holds applyMu is a caller with a bundle, and someone holds it       *)
(* exactly while ApplyBundle runs.                                         *)
HolderCalls ==
    IF lock = NoOne
    THEN phase = "free"
    ELSE phase # "free" /\ req[lock] \in Inputs

(* The phases of ApplyBundle.                                              *)
LEMMA ApplyStepType ==
    ASSUME TypeOK, HolderCalls, ApplyStep
    PROVE  TypeOK'
  <1> USE TypeParts
  <1>0. \A p \in {"save", "announce", "prepare", "swap", "activate", "rollback",
                  "fail", "reset", "publish", "prune", "tidy"} : p \in Phases
    BY DEF Phases
  <1>1. CASE SaveCandidate
    <2>1. ProcessTypeOK'
      BY <1>1, UnchangedProcessType DEF SaveCandidate, ProcessTypeOK
    <2>2. CASE StoreSaveDraft(req[lock], TRUE) /\ cand' = nextId
                 /\ Continue("announce") /\ UNCHANGED verdict
      <3>1. req[lock] \in Inputs
        BY <1>1 DEF SaveCandidate, HolderCalls
      <3>2. StoreTypeOK'
        BY <2>2, <3>1, SaveDraftType
      <3>3. cand' \in Nat /\ verdict' \in Verdicts
        BY <2>2 DEF StoreTypeOK, CallTypeOK, Ids
      <3>4. CallTypeOK'
        BY <1>0, <2>2, <3>3, ContinueType
      <3>5. QED
        BY <2>1, <3>2, <3>4 DEF TypeOK, ProcessTypeOK, CallTypeOK
    <2>3. CASE Return("failed") /\ UNCHANGED storeVars
      <3>1. StoreTypeOK' /\ CallTypeOK'
        BY <2>3, UnchangedStoreType, ReturnType DEF Verdicts
      <3>2. QED
        BY <2>1, <3>1 DEF TypeOK, ProcessTypeOK, CallTypeOK
    <2>4. QED
      BY <1>1, <2>2, <2>3 DEF SaveCandidate
  <1>2. CASE AnnounceCandidate
    <2>1. StoreTypeOK'
      BY <1>2, UnchangedStoreType DEF AnnounceCandidate
    <2>2. CallTypeOK'
      BY <1>0, <1>2, ContinueType DEF AnnounceCandidate, CallTypeOK
    <2>3. ProcessTypeOK'
      BY <1>2 DEF AnnounceCandidate, ProcessTypeOK, CallTypeOK
    <2>4. QED
      BY <2>1, <2>2, <2>3 DEF TypeOK, ProcessTypeOK, CallTypeOK
  <1>3. CASE PrepareCandidate
    <2>1. StoreTypeOK'
      BY <1>3, UnchangedStoreType DEF PrepareCandidate
    <2>2. CallTypeOK'
      <3>1. verdict' \in Verdicts /\ cand' \in Nat
        BY <1>3 DEF PrepareCandidate, CallTypeOK, Verdicts
      <3>2. QED
        BY <1>0, <1>3, <3>1, ContinueType DEF PrepareCandidate
    <2>3. built' \subseteq Nat
      BY <1>3 DEF PrepareCandidate, ProcessTypeOK, CallTypeOK
    <2>4. ProcessTypeOK'
      BY <1>3, <2>3, UnchangedProcessType DEF PrepareCandidate
    <2>5. QED
      BY <2>1, <2>2, <2>4 DEF TypeOK, ProcessTypeOK, CallTypeOK
  <1>4. CASE SwapRuntime
    <2>1. StoreTypeOK'
      BY <1>4, UnchangedStoreType DEF SwapRuntime
    <2>2. CallTypeOK'
      <3>1. verdict' \in Verdicts /\ cand' \in Nat
        BY <1>4 DEF SwapRuntime, CallTypeOK, Verdicts
      <3>2. QED
        BY <1>0, <1>4, <3>1, ContinueType DEF SwapRuntime
    <2>3. ProcessTypeOK'
      <3>1. current' \in Nat /\ alive' \in BOOLEAN /\ fatal' \in BOOLEAN
        BY <1>4, RuntimeType DEF SwapRuntime, CallTypeOK
      <3>2. QED
        BY <1>4, <3>1 DEF SwapRuntime, ProcessTypeOK
    <2>4. QED
      BY <2>1, <2>2, <2>3 DEF TypeOK, ProcessTypeOK, CallTypeOK
  <1>5. CASE ActivateCandidate
    <2>1. StoreTypeOK'
      BY <1>5, UnchangedStoreType, ActivateType DEF ActivateCandidate
    <2>2. CallTypeOK'
      <3>1. verdict' \in Verdicts /\ cand' \in Nat
        BY <1>5 DEF ActivateCandidate, CallTypeOK, Verdicts
      <3>2. QED
        BY <1>0, <1>5, <3>1, ContinueType DEF ActivateCandidate
    <2>3. ProcessTypeOK'
      <3>1. UNCHANGED <<cacheActive, cacheDraft, current, alive, fatal, daemon, built>>
        BY <1>5 DEF ActivateCandidate, processVars
      <3>2. lapses' = lapses \/ lapses' = lapses \cup {"committed"}
        BY <1>5 DEF ActivateCandidate
      <3>3. lapses' \subseteq Lapses
        BY <3>2 DEF ProcessTypeOK, Lapses
      <3>4. QED
        BY <3>1, <3>3 DEF ProcessTypeOK
    <2>4. QED
      BY <2>1, <2>2, <2>3 DEF TypeOK, ProcessTypeOK, CallTypeOK
  <1>6. CASE RollBackRuntime
    <2>1. StoreTypeOK'
      BY <1>6, UnchangedStoreType DEF RollBackRuntime
    <2>2. CallTypeOK'
      BY <1>0, <1>6, ContinueType DEF RollBackRuntime, CallTypeOK
    <2>3. ProcessTypeOK'
      <3>1. current' \in Nat /\ alive' \in BOOLEAN /\ fatal' \in BOOLEAN
        BY <1>6, RuntimeType DEF RollBackRuntime, CallTypeOK
      <3>2. lapses' \subseteq Lapses
        <4>1. lapses' = lapses \/ lapses' = lapses \cup {"unrestored"}
          BY <1>6 DEF RollBackRuntime
        <4>2. QED
          BY <4>1 DEF ProcessTypeOK, Lapses
      <3>3. QED
        BY <1>6, <3>1, <3>2 DEF RollBackRuntime, ProcessTypeOK
    <2>4. QED
      BY <2>1, <2>2, <2>3 DEF TypeOK, ProcessTypeOK, CallTypeOK
  <1>7. CASE MarkFailed
    <2>1. StoreTypeOK'
      BY <1>7, UnchangedStoreType, FailType DEF MarkFailed
    <2>2. CallTypeOK'
      BY <1>0, <1>7, ContinueType DEF MarkFailed, CallTypeOK
    <2>3. ProcessTypeOK'
      BY <1>7, UnchangedProcessType DEF MarkFailed, ProcessTypeOK
    <2>4. QED
      BY <2>1, <2>2, <2>3 DEF TypeOK, ProcessTypeOK, CallTypeOK
  <1>8. CASE ResetDraft
    <2>1. StoreTypeOK'
      BY <1>8, UnchangedStoreType, ResetType DEF ResetDraft
    <2>2. CallTypeOK'
      <3>1. ASSUME NEW p \in {"prune", "publish"}, Continue(p), UNCHANGED <<cand, verdict>>
            PROVE  CallTypeOK'
        BY <1>0, <3>1, ContinueType DEF CallTypeOK
      <3>2. CASE Return("failed")
        BY <3>2, ReturnType DEF Verdicts
      <3>3. QED
        BY <1>8, <3>1, <3>2 DEF ResetDraft
    <2>3. ProcessTypeOK'
      BY <1>8, UnchangedProcessType DEF ResetDraft, ProcessTypeOK
    <2>4. QED
      BY <2>1, <2>2, <2>3 DEF TypeOK, ProcessTypeOK, CallTypeOK
  <1>9. CASE Publish
    <2>1. StoreTypeOK'
      BY <1>9, UnchangedStoreType DEF Publish
    <2>2. CallTypeOK'
      <3>1. CASE Return("unchanged")
        BY <3>1, ReturnType DEF Verdicts
      <3>2. CASE Continue("prune") /\ UNCHANGED <<cand, verdict>>
        BY <1>0, <3>2, ContinueType DEF CallTypeOK
      <3>3. QED
        BY <1>9, <3>1, <3>2 DEF Publish
    <2>3. ProcessTypeOK'
      <3>1. lapses' \subseteq Lapses
        BY <1>9 DEF Publish, ProcessTypeOK
      <3>2. QED
        BY <1>9, <3>1 DEF Publish, ProcessTypeOK, StoreTypeOK, Ids
    <2>4. QED
      BY <2>1, <2>2, <2>3 DEF TypeOK, ProcessTypeOK, CallTypeOK
  <1>10. CASE Prune
    <2>1. StoreTypeOK'
      BY <1>10, UnchangedStoreType, PruneType DEF Prune
    <2>2. CallTypeOK'
      <3>1. CASE Return("failed")
        BY <3>1, ReturnType DEF Verdicts
      <3>2. CASE Continue("tidy") /\ UNCHANGED <<cand, verdict>>
        BY <1>0, <3>2, ContinueType DEF CallTypeOK
      <3>3. QED
        BY <1>10, <3>1, <3>2 DEF Prune
    <2>3. ProcessTypeOK'
      BY <1>10, UnchangedProcessType DEF Prune, ProcessTypeOK
    <2>4. QED
      BY <2>1, <2>2, <2>3 DEF TypeOK, ProcessTypeOK, CallTypeOK
  <1>11. CASE Tidy
    <2>1. StoreTypeOK'
      BY <1>11, UnchangedStoreType DEF Tidy
    <2>2. CallTypeOK'
      <3>1. CASE Return("failed")
        BY <3>1, ReturnType DEF Verdicts
      <3>2. CASE Return(verdict)
        BY <3>2, ReturnType DEF CallTypeOK
      <3>3. CASE Continue("publish") /\ UNCHANGED <<cand, verdict>>
        BY <1>0, <3>3, ContinueType DEF CallTypeOK
      <3>4. QED
        BY <1>11, <3>1, <3>2, <3>3 DEF Tidy
    <2>3. built' \subseteq Nat
      BY <1>11 DEF Tidy, ProcessTypeOK
    <2>4. ProcessTypeOK'
      BY <1>11, <2>3, UnchangedProcessType DEF Tidy
    <2>5. QED
      BY <2>1, <2>2, <2>4 DEF TypeOK, ProcessTypeOK, CallTypeOK
  <1>12. QED
    BY <1>1, <1>2, <1>3, <1>4, <1>5, <1>6, <1>7, <1>8, <1>9, <1>10, <1>11
    DEF ApplyStep

-----------------------------------------------------------------------------
(* One step of any kind: the type invariant and HolderCalls together.      *)

LEMMA TypeStep == TypeOK /\ HolderCalls /\ [Next]_vars => TypeOK'
  <1> SUFFICES ASSUME TypeOK, HolderCalls, [Next]_vars
               PROVE  TypeOK'
    OBVIOUS
  <1>1. CASE \E a \in Appliers : CallApplyBundle(a) \/ CallApply(a) \/ Refuse(a) \/ Lock(a)
    BY <1>1, CallType
  <1>2. CASE \E c \in Clis : SetDraft(c) \/ \E b \in Inputs : SaveDraft(c, b)
    BY <1>2, ImportType
  <1>3. CASE ApplyStep
    BY <1>3, ApplyStepType
  <1>4. CASE BootStep
    BY <1>4, BootType
  <1>5. CASE BootFails \/ ChildExits \/ WatchReports \/ ExitOnFatal \/ Crash
    BY <1>5, ExitType
  <1>6. CASE UNCHANGED vars
    <2>1. StoreTypeOK'
      BY <1>6, UnchangedStoreType DEF vars, TypeOK
    <2>2. CallTypeOK'
      BY <1>6, UnchangedCallType, TypeParts DEF vars
    <2>3. ProcessTypeOK'
      BY <1>6, UnchangedProcessType, TypeParts DEF vars, ProcessTypeOK
    <2>4. QED
      BY <2>1, <2>2, <2>3 DEF TypeOK, ProcessTypeOK, CallTypeOK
  <1>7. QED
    BY <1>1, <1>2, <1>3, <1>4, <1>5, <1>6 DEF Next

LEMMA HolderStep == TypeOK /\ HolderCalls /\ [Next]_vars => HolderCalls'
  <1> SUFFICES ASSUME TypeOK, HolderCalls, [Next]_vars
               PROVE  HolderCalls'
    OBVIOUS
  <1> USE CallersAssumption DEF HolderCalls
  <1>0. /\ lock \in Appliers \cup {NoOne}
        /\ req \in [Appliers -> Inputs \cup {NoInput}]
    BY DEF TypeOK
  <1>1. ASSUME NEW a \in Appliers, NEW b, Call(a, b), b # NoInput
        PROVE  HolderCalls'
    BY <1>0, <1>1 DEF Call, Idle
  <1>2. ASSUME NEW a \in Appliers, Refuse(a)
        PROVE  HolderCalls'
    BY <1>0, <1>2 DEF Refuse
  <1>3. ASSUME NEW a \in Appliers, Lock(a)
        PROVE  HolderCalls'
    BY <1>0, <1>3 DEF Lock, Idle
  <1>4. ASSUME NEW c \in Clis, SetDraft(c) \/ \E b \in Inputs : SaveDraft(c, b)
        PROVE  HolderCalls'
    BY <1>4 DEF SetDraft, SaveDraft
  <1>5. ASSUME NEW r, Return(r)
        PROVE  HolderCalls'
    BY <1>5 DEF Return
  <1>6. ASSUME NEW p, p # "free", phase # "free", Continue(p)
        PROVE  HolderCalls'
    BY <1>6 DEF Continue
  <1>7. CASE ApplyStep
    BY <1>5, <1>6, <1>7 DEF ApplyStep, SaveCandidate, AnnounceCandidate,
       PrepareCandidate, SwapRuntime, ActivateCandidate, RollBackRuntime,
       MarkFailed, ResetDraft, Publish, Prune, Tidy
  <1>8. CASE Die
    BY <1>8 DEF Die
  <1>9. CASE UNCHANGED callVars
    BY <1>9 DEF callVars
  <1>10. ASSUME NEW a \in Appliers, CallApplyBundle(a) \/ CallApply(a)
         PROVE  HolderCalls'
    <2>1. rows[draftId].input \in Inputs
      BY DEF TypeOK, StoreTypeOK, Row
    <2>2. QED
      BY <1>1, <1>10, <2>1 DEF CallApplyBundle, CallApply
  <1>11. QED
    BY <1>2, <1>3, <1>4, <1>7, <1>8, <1>9, <1>10
    DEF Next, BootStep, BootRead, BootPrune, BootTidy, BootPrepare, BootStart,
        BootFails, ExitOnFatal, Crash, ChildExits, WatchReports, vars

(* What every variable can hold, for any instance: in particular both      *)
(* pointers always refer to revisions that exist (the foreign keys of      *)
(* app_state never stop a statement of the code).                          *)
THEOREM TypeCorrect == Spec => [](TypeOK /\ HolderCalls)
  <1>1. Init => TypeOK /\ HolderCalls
    BY InitTypeOK DEF Init, HolderCalls
  <1>2. TypeOK /\ HolderCalls /\ [Next]_vars => TypeOK' /\ HolderCalls'
    BY TypeStep, HolderStep
  <1>3. QED
    BY <1>1, <1>2, PTL DEF Spec

-----------------------------------------------------------------------------
(* The store's invariant: one active revision, and a candidate that lives. *)

Typed == TypeOK /\ HolderCalls

LEMMA InitStoreInv == Init => StoreInv
  <1> SUFFICES ASSUME Init PROVE StoreInv
    OBVIOUS
  <1>1. DOMAIN rows = {1} /\ rows[1].status = "active" /\ activeId = 1 /\ nextId = 2
    BY DEF Init, StoreInit
  <1>2. FreshKeys /\ OneActiveRevision
    BY <1>1 DEF Init, FreshKeys, OneActiveRevision
  <1>3. OnlyUpApplies /\ Locals
    BY DEF Init, OnlyUpApplies, Locals, Idle
  <1>4. QED
    BY <1>2, <1>3 DEF StoreInv

(* A new draft changes no row that is there, takes a key above all, and is *)
(* not active.                                                             *)
LEMMA SaveDraftKeeps ==
    ASSUME StoreTypeOK, FreshKeys, OneActiveRevision,
           NEW b, NEW c, StoreSaveDraft(b, c)
    PROVE  /\ OneActiveRevision' /\ activeId' = activeId
           /\ nextId \notin DOMAIN rows /\ nextId \notin built /\ nextId # activeId
           /\ nextId \in DOMAIN rows'
           /\ rows'[nextId].input = b /\ rows'[nextId].current = c
           /\ \A r \in DOMAIN rows : r \in DOMAIN rows' /\ rows'[r] = rows[r]
           /\ \A r \in DOMAIN rows' : r < nextId'
           /\ nextId' = nextId + 1
  <1>1. nextId \notin DOMAIN rows /\ nextId \notin built
    BY DEF FreshKeys, StoreTypeOK, Ids
  <1>2. /\ DOMAIN rows' = DOMAIN rows \cup {nextId}
        /\ \A r \in DOMAIN rows : rows'[r] = rows[r]
        /\ rows'[nextId] = [status |-> "draft", input |-> b, current |-> c]
    BY <1>1 DEF StoreSaveDraft
  <1>3. activeId' = activeId /\ nextId' = nextId + 1
    BY DEF StoreSaveDraft
  <1>4. OneActiveRevision'
    BY <1>1, <1>2, <1>3 DEF OneActiveRevision
  <1>5. \A r \in DOMAIN rows' : r < nextId'
    BY <1>2, <1>3 DEF FreshKeys, StoreTypeOK, Ids
  <1>6. QED
    BY <1>1, <1>2, <1>3, <1>4, <1>5 DEF StoreTypeOK

(* Activation supersedes the one active row and touches statuses only.     *)
LEMMA ActivateKeeps ==
    ASSUME StoreTypeOK, FreshKeys, OneActiveRevision, NEW id, StoreActivate(id)
    PROVE  /\ OneActiveRevision' /\ activeId' = id
           /\ DOMAIN rows' = DOMAIN rows /\ UNCHANGED nextId
           /\ \A r \in DOMAIN rows : /\ rows'[r].input = rows[r].input
                                     /\ rows'[r].current = rows[r].current
  <1>1. /\ DOMAIN rows' = DOMAIN rows /\ id \in DOMAIN rows
        /\ activeId' = id /\ nextId' = nextId
    BY DEF StoreActivate
  <1>2. ASSUME NEW r \in DOMAIN rows
        PROVE  /\ rows'[r].status = ActivatedStatus(id, r)
               /\ rows'[r].input = rows[r].input
               /\ rows'[r].current = rows[r].current
    BY <1>2 DEF StoreActivate, StoreTypeOK, Row
  <1>3. ASSUME NEW r \in DOMAIN rows
        PROVE  ActivatedStatus(id, r) = "active" <=> r = id
    BY DEF ActivatedStatus
  <1>4. OneActiveRevision'
    BY <1>1, <1>2, <1>3 DEF OneActiveRevision
  <1>5. QED
    BY <1>1, <1>2, <1>4

LEMMA FailKeeps ==
    ASSUME StoreTypeOK, FreshKeys, OneActiveRevision,
           NEW id, id # activeId, StoreFail(id)
    PROVE  /\ OneActiveRevision' /\ UNCHANGED <<activeId, nextId>>
           /\ DOMAIN rows' = DOMAIN rows
           /\ \A r \in DOMAIN rows : /\ rows'[r].input = rows[r].input
                                     /\ rows'[r].current = rows[r].current
  <1>1. DOMAIN rows' = DOMAIN rows /\ activeId' = activeId /\ nextId' = nextId
    BY DEF StoreFail
  <1>2. ASSUME NEW r \in DOMAIN rows
        PROVE  /\ rows'[r].input = rows[r].input
               /\ rows'[r].current = rows[r].current
               /\ rows'[r].status = IF r = id THEN "failed" ELSE rows[r].status
    BY DEF StoreFail, StoreTypeOK, Row
  <1>3. OneActiveRevision'
    BY <1>1, <1>2 DEF OneActiveRevision
  <1>4. QED
    BY <1>1, <1>2, <1>3

LEMMA PruneKeeps ==
    ASSUME StoreTypeOK, FreshKeys, OneActiveRevision, StorePruneRevisions
    PROVE  /\ OneActiveRevision' /\ UNCHANGED <<activeId, draftId, nextId>>
           /\ DOMAIN rows' \subseteq DOMAIN rows
           /\ rows'[activeId] = rows[activeId]
  BY DEF StoreTypeOK, StorePruneRevisions, OneActiveRevision

(* Steps that touch neither the store nor ApplyBundle's locals.            *)
LEMMA StoreInvOthers ==
    ASSUME StoreInv, UNCHANGED <<storeVars, lock, phase, base, cand, verdict>>,
           lock # NoOne => req'[lock] = req[lock],
           phase # "free" => lock # NoOne,
           \A r \in built' : r \in built \/ r < nextId,
           OnlyUpApplies'
    PROVE  StoreInv'
  <1>1. UNCHANGED <<rows, activeId, draftId, nextId>>
    BY DEF storeVars
  <1>2. FreshKeys' /\ OneActiveRevision'
    BY <1>1 DEF StoreInv, FreshKeys, OneActiveRevision
  <1>3. Locals'
    BY <1>1 DEF StoreInv, Locals, NothingToDo, SameInput
  <1>4. QED
    BY <1>2, <1>3 DEF StoreInv

(* Nobody is past Lock: the locals say nothing.                            *)
LEMMA FreeLocals == phase = "free" => Locals
  BY DEF Locals

LEMMA DieStoreInv ==
    ASSUME StoreInv, Die, built' \subseteq built
    PROVE  StoreInv'
  BY DEF StoreInv, FreshKeys, OnlyUpApplies, OneActiveRevision, Locals, Die,
         storeVars, Up, Idle

LEMMA BootStoreInv ==
    ASSUME Typed, StoreInv, BootStep
    PROVE  StoreInv'
  <1> USE DEF Typed
  <1>1. StoreTypeOK /\ FreshKeys /\ OneActiveRevision
    BY DEF TypeOK, StoreInv
  <1>2. lock = NoOne /\ phase = "free"
    BY DEF StoreInv, OnlyUpApplies, HolderCalls, Up, BootStep, BootRead, BootPrune,
           BootTidy, BootPrepare, BootStart
  <1>3. lock' = NoOne /\ phase' = "free"
    BY <1>2 DEF callVars, BootStep, BootRead, BootPrune, BootTidy, BootPrepare, BootStart
  <1>4. OnlyUpApplies' /\ Locals'
    <2>1. req' = req /\ ~Up
      BY DEF callVars, Up, BootStep, BootRead, BootPrune, BootTidy, BootPrepare, BootStart
    <2>2. QED
      BY <1>3, <2>1 DEF StoreInv, OnlyUpApplies, Locals, Idle
  <1>5. OneActiveRevision' /\ FreshKeys'
    <2>1. CASE BootRead
      BY <1>1, <2>1 DEF BootRead, StoreResetDraftToActive, storeVars, FreshKeys,
                        OneActiveRevision
    <2>2. CASE BootPrune
      BY <1>1, <2>2, PruneKeeps DEF BootPrune, FreshKeys
    <2>3. CASE BootTidy
      BY <1>1, <2>3 DEF BootTidy, storeVars, FreshKeys, OneActiveRevision
    <2>4. CASE BootPrepare
      BY <1>1, <2>4 DEF BootPrepare, storeVars, FreshKeys, OneActiveRevision, StoreTypeOK
    <2>5. CASE BootStart
      BY <1>1, <2>5 DEF BootStart, storeVars, FreshKeys, OneActiveRevision
    <2>6. QED
      BY <2>1, <2>2, <2>3, <2>4, <2>5 DEF BootStep
  <1>6. QED
    BY <1>4, <1>5 DEF StoreInv

(* An import adds a row: whatever an apply knows of its own rows stays.    *)
LEMMA ImportStoreInv ==
    ASSUME Typed, StoreInv, NEW c \in Clis, NEW b \in Inputs, SaveDraft(c, b)
    PROVE  StoreInv'
  <1>1. StoreTypeOK /\ FreshKeys /\ OneActiveRevision
    BY DEF Typed, TypeOK, StoreInv
  <1>2. /\ OneActiveRevision' /\ activeId' = activeId
        /\ \A r \in DOMAIN rows : r \in DOMAIN rows' /\ rows'[r] = rows[r]
        /\ \A r \in DOMAIN rows' : r < nextId'
        /\ nextId' = nextId + 1
    BY <1>1, SaveDraftKeeps DEF SaveDraft
  <1>3. UNCHANGED <<lock, phase, req, base, cand, verdict, built, daemon>>
    BY DEF SaveDraft, processVars
  <1>4. FreshKeys'
    BY <1>1, <1>2, <1>3 DEF FreshKeys, StoreTypeOK, Ids, Typed, TypeOK
  <1>5. Locals'
    BY <1>1, <1>2, <1>3 DEF StoreInv, Locals, NothingToDo, SameInput, StoreTypeOK
  <1>6. OnlyUpApplies'
    <2>1. daemon = "up" /\ daemon' = daemon
      BY <1>3 DEF SaveDraft, Up
    <2>2. QED
      BY <2>1 DEF OnlyUpApplies, Up
  <1>7. QED
    BY <1>2, <1>4, <1>5, <1>6 DEF StoreInv

LEMMA CallStoreInv ==
    ASSUME Typed, StoreInv, NEW a \in Appliers,
           CallApplyBundle(a) \/ CallApply(a) \/ Refuse(a) \/ Lock(a)
    PROVE  StoreInv'
  <1> USE CallersAssumption
  <1>0. /\ req \in [Appliers -> Inputs \cup {NoInput}]
        /\ lock # NoOne => req[lock] # NoInput
        /\ phase # "free" => lock # NoOne
    BY DEF Typed, TypeOK, HolderCalls
  <1>1. CASE CallApplyBundle(a) \/ CallApply(a)
    <2>1. PICK b : Call(a, b)
      BY <1>1 DEF CallApplyBundle, CallApply
    <2>2. UNCHANGED <<storeVars, lock, phase, base, cand, verdict, built, daemon>>
      BY <2>1 DEF Call, processVars
    <2>3. lock # NoOne => req'[lock] = req[lock]
      BY <1>0, <2>1 DEF Call, Idle
    <2>4. OnlyUpApplies'
      BY <2>1, <2>2 DEF Call, OnlyUpApplies, Up
    <2>5. QED
      BY <1>0, <2>2, <2>3, <2>4, StoreInvOthers
  <1>2. CASE Refuse(a)
    <2>1. UNCHANGED <<storeVars, lock, phase, base, cand, verdict, built, daemon>>
      BY <1>2 DEF Refuse, processVars
    <2>2. lock = NoOne
      BY <1>2 DEF Refuse
    <2>3. OnlyUpApplies'
      BY <1>2, <2>1 DEF Refuse, StoreInv, OnlyUpApplies, Up, Idle
    <2>4. QED
      BY <1>0, <2>1, <2>2, <2>3, StoreInvOthers
  <1>3. CASE Lock(a)
    <2>1. UNCHANGED <<rows, activeId, nextId, built, daemon, req>>
      BY <1>3 DEF Lock, storeVars, processVars
    <2>2. FreshKeys' /\ OneActiveRevision'
      BY <2>1 DEF StoreInv, FreshKeys, OneActiveRevision
    <2>3. OnlyUpApplies'
      BY <1>3, <2>1 DEF Lock, StoreInv, OnlyUpApplies, Up, Idle
    <2>4. Locals'
      BY <1>3, <2>1 DEF Lock, Locals, NothingToDo, SameInput
    <2>5. QED
      BY <2>2, <2>3, <2>4 DEF StoreInv
  <1>4. QED
    BY <1>1, <1>2, <1>3

(* Returning frees the lock; the daemon stays as it is.                    *)
LEMMA ReturnStoreInv ==
    ASSUME Typed, StoreInv, NEW r, Return(r), lock # NoOne,
           FreshKeys', OneActiveRevision', UNCHANGED daemon
    PROVE  StoreInv'
  <1>1. OnlyUpApplies'
    BY DEF StoreInv, OnlyUpApplies, Up
  <1>2. Locals'
    BY DEF Return, Locals
  <1>3. QED
    BY <1>1, <1>2 DEF StoreInv

LEMMA ContinueUp ==
    ASSUME StoreInv, lock # NoOne, UNCHANGED daemon
    PROVE  OnlyUpApplies'
  BY DEF StoreInv, OnlyUpApplies, Up

LEMMA ApplyStepStoreInv ==
    ASSUME Typed, StoreInv, ApplyStep
    PROVE  StoreInv'
  <1> USE DEF Typed
  <1>1. /\ StoreTypeOK /\ FreshKeys /\ OneActiveRevision /\ Locals
        /\ built \subseteq Nat /\ cand \in Nat
    BY DEF TypeOK, StoreInv
  <1>2. phase # "free" /\ lock # NoOne
    BY DEF HolderCalls, ApplyStep, SaveCandidate, AnnounceCandidate, PrepareCandidate,
           SwapRuntime, ActivateCandidate, RollBackRuntime, MarkFailed, ResetDraft,
           Publish, Prune, Tidy
  <1>3. daemon' = daemon
    BY DEF processVars, ApplyStep, SaveCandidate, AnnounceCandidate, PrepareCandidate,
           SwapRuntime, ActivateCandidate, RollBackRuntime, MarkFailed, ResetDraft,
           Publish, Prune, Tidy
  <1>4. OnlyUpApplies'
    BY <1>2, <1>3, ContinueUp
  <1>5. CASE SaveCandidate
    <2>1. built' = built
      BY <1>5 DEF SaveCandidate
    <2>2. CASE /\ StoreSaveDraft(req[lock], TRUE) /\ cand' = nextId
               /\ Continue("announce") /\ UNCHANGED verdict
      <3>1. /\ OneActiveRevision' /\ activeId' = activeId
            /\ nextId \notin DOMAIN rows /\ nextId # activeId
            /\ nextId \in DOMAIN rows'
            /\ rows'[nextId].input = req[lock] /\ rows'[nextId].current
            /\ \A r \in DOMAIN rows : r \in DOMAIN rows' /\ rows'[r] = rows[r]
            /\ \A r \in DOMAIN rows' : r < nextId'
            /\ nextId' = nextId + 1
        BY <1>1, <2>2, SaveDraftKeeps
      <3>2. FreshKeys'
        BY <1>1, <2>1, <3>1 DEF FreshKeys, StoreTypeOK, Ids
      <3>3. /\ phase = "save" /\ phase' = "announce"
            /\ UNCHANGED <<lock, req, base, verdict>> /\ cand' = nextId
        BY <1>5, <2>2 DEF SaveCandidate, Continue
      <3>4. Locals'
        BY <1>1, <3>1, <3>3 DEF Locals, NothingToDo, SameInput, StoreTypeOK
      <3>5. QED
        BY <1>4, <3>1, <3>2, <3>4 DEF StoreInv
    <2>3. CASE Return("failed") /\ UNCHANGED storeVars
      <3>1. FreshKeys' /\ OneActiveRevision'
        BY <1>1, <2>1, <2>3 DEF FreshKeys, OneActiveRevision, storeVars
      <3>2. QED
        BY <1>2, <1>3, <2>3, <3>1, ReturnStoreInv
    <2>4. QED
      BY <1>5, <2>2, <2>3 DEF SaveCandidate
  <1>6. CASE AnnounceCandidate \/ PrepareCandidate \/ SwapRuntime
    <2>1. UNCHANGED <<rows, activeId, nextId, lock, req, base, cand>>
      BY <1>6 DEF AnnounceCandidate, PrepareCandidate, SwapRuntime, Continue, storeVars
    <2>2. \A r \in built' : r \in built \/ r = cand
      BY <1>6 DEF AnnounceCandidate, PrepareCandidate, SwapRuntime
    <2>3. cand \in DOMAIN rows
      BY <1>1, <1>6 DEF Locals, AnnounceCandidate, PrepareCandidate, SwapRuntime
    <2>4. FreshKeys' /\ OneActiveRevision'
      BY <1>1, <2>1, <2>2, <2>3 DEF FreshKeys, OneActiveRevision
    <2>5. Locals'
      BY <1>1, <1>6, <2>1 DEF Locals, NothingToDo, SameInput, AnnounceCandidate,
         PrepareCandidate, SwapRuntime, Continue
    <2>6. QED
      BY <1>4, <2>4, <2>5 DEF StoreInv
  <1>7. CASE ActivateCandidate
    <2>1. /\ phase = "activate" /\ phase' \in {"publish", "rollback"}
          /\ UNCHANGED <<lock, req, base, cand, built>>
          /\ verdict' = IF phase' = "rollback" THEN "failed" ELSE "changed"
          /\ StoreActivate(cand) \/ UNCHANGED storeVars
      BY <1>7 DEF ActivateCandidate, Continue
    <2>2. /\ OneActiveRevision' /\ activeId' \in {base, cand}
          /\ DOMAIN rows' = DOMAIN rows /\ nextId' = nextId
          /\ \A r \in DOMAIN rows : /\ rows'[r].input = rows[r].input
                                    /\ rows'[r].current = rows[r].current
      <3>1. CASE StoreActivate(cand)
        BY <1>1, <3>1, ActivateKeeps
      <3>2. CASE UNCHANGED storeVars
        BY <1>1, <2>1, <3>2 DEF storeVars, OneActiveRevision, Locals
      <3>3. QED
        BY <2>1, <3>1, <3>2
    <2>3. FreshKeys'
      BY <1>1, <2>1, <2>2 DEF FreshKeys
    <2>4. Locals'
      BY <1>1, <2>1, <2>2 DEF Locals
    <2>5. QED
      BY <1>4, <2>2, <2>3, <2>4 DEF StoreInv
  <1>8. CASE RollBackRuntime \/ Publish
    <2>1. /\ UNCHANGED <<rows, activeId, nextId, built>>
          /\ phase' \in {"reset", "prune", "free"}
      BY <1>8 DEF RollBackRuntime, Publish, Continue, Return, storeVars
    <2>2. FreshKeys' /\ OneActiveRevision' /\ Locals'
      BY <1>1, <2>1 DEF FreshKeys, OneActiveRevision, Locals
    <2>3. QED
      BY <1>4, <2>2 DEF StoreInv
  <1>9. CASE MarkFailed
    <2>1. /\ phase = "fail" /\ phase' = "reset" /\ built' = built
          /\ StoreFail(cand) \/ UNCHANGED storeVars
      BY <1>9 DEF MarkFailed, Continue
    <2>2. cand # activeId
      BY <1>1, <2>1 DEF Locals
    <2>3. OneActiveRevision' /\ nextId' = nextId /\ DOMAIN rows' = DOMAIN rows
      <3>1. CASE StoreFail(cand)
        BY <1>1, <2>2, <3>1, FailKeeps
      <3>2. CASE UNCHANGED storeVars
        BY <1>1, <3>2 DEF storeVars, OneActiveRevision
      <3>3. QED
        BY <2>1, <3>1, <3>2
    <2>4. FreshKeys' /\ Locals'
      BY <1>1, <2>1, <2>3 DEF FreshKeys, Locals
    <2>5. QED
      BY <1>4, <2>3, <2>4 DEF StoreInv
  <1>10. CASE ResetDraft
    <2>1. /\ UNCHANGED <<rows, activeId, nextId, built>>
          /\ phase' \in {"prune", "publish", "free"}
      BY <1>10 DEF ResetDraft, Continue, Return, storeVars, StoreResetDraftToActive
    <2>2. FreshKeys' /\ OneActiveRevision' /\ Locals'
      BY <1>1, <2>1 DEF FreshKeys, OneActiveRevision, Locals
    <2>3. QED
      BY <1>4, <2>2 DEF StoreInv
  <1>11. CASE Prune
    <2>1. /\ built' = built /\ phase' \in {"tidy", "free"}
          /\ StorePruneRevisions \/ UNCHANGED storeVars
      BY <1>11 DEF Prune, Continue, Return
    <2>2. OneActiveRevision' /\ nextId' = nextId /\ DOMAIN rows' \subseteq DOMAIN rows
      <3>1. CASE StorePruneRevisions
        BY <1>1, <3>1, PruneKeeps
      <3>2. CASE UNCHANGED storeVars
        BY <1>1, <3>2 DEF storeVars, OneActiveRevision
      <3>3. QED
        BY <2>1, <3>1, <3>2
    <2>3. FreshKeys' /\ Locals'
      BY <1>1, <2>1, <2>2 DEF FreshKeys, Locals
    <2>4. QED
      BY <1>4, <2>2, <2>3 DEF StoreInv
  <1>12. CASE Tidy
    <2>1. /\ UNCHANGED <<rows, activeId, nextId>> /\ built' \subseteq built
          /\ phase' \in {"publish", "free"}
      BY <1>12 DEF Tidy, TreesToKeep, Continue, Return, storeVars
    <2>2. FreshKeys' /\ OneActiveRevision' /\ Locals'
      BY <1>1, <2>1 DEF FreshKeys, OneActiveRevision, Locals
    <2>3. QED
      BY <1>4, <2>2 DEF StoreInv
  <1>13. QED
    BY <1>5, <1>6, <1>7, <1>8, <1>9, <1>10, <1>11, <1>12 DEF ApplyStep

LEMMA StoreStep == Typed /\ StoreInv /\ [Next]_vars => StoreInv'
  <1> SUFFICES ASSUME Typed, StoreInv, [Next]_vars PROVE StoreInv'
    OBVIOUS
  <1>0. /\ phase # "free" => lock # NoOne
        /\ built \subseteq Nat /\ req \in [Appliers -> Inputs \cup {NoInput}]
    BY DEF Typed, TypeOK, HolderCalls
  <1>1. ASSUME NEW a \in Appliers,
               CallApplyBundle(a) \/ CallApply(a) \/ Refuse(a) \/ Lock(a)
        PROVE  StoreInv'
    BY <1>1, CallStoreInv
  <1>2. ASSUME NEW c \in Clis, NEW b \in Inputs, SaveDraft(c, b)
        PROVE  StoreInv'
    BY <1>2, ImportStoreInv
  <1>3. ASSUME NEW c \in Clis, SetDraft(c)
        PROVE  StoreInv'
    <2>1. /\ UNCHANGED <<storeVars, lock, phase, base, cand, verdict>>
          /\ UNCHANGED <<built, req, daemon>>
      BY <1>3 DEF SetDraft
    <2>2. OnlyUpApplies'
      BY <2>1 DEF StoreInv, OnlyUpApplies, Up, Idle
    <2>3. QED
      BY <1>0, <2>1, <2>2, StoreInvOthers
  <1>4. ASSUME ChildExits \/ WatchReports \/ UNCHANGED vars
        PROVE  StoreInv'
    <2>1. /\ UNCHANGED <<storeVars, lock, phase, base, cand, verdict>>
          /\ UNCHANGED <<built, req, daemon>>
      BY <1>4 DEF ChildExits, WatchReports, vars, callVars, processVars
    <2>2. OnlyUpApplies'
      BY <2>1 DEF StoreInv, OnlyUpApplies, Up, Idle
    <2>3. QED
      BY <1>0, <2>1, <2>2, StoreInvOthers
  <1>5. ASSUME BootFails \/ ExitOnFatal \/ Crash
        PROVE  StoreInv'
    <2>1. Die /\ built' \subseteq built
      BY <1>5 DEF BootFails, ExitOnFatal, Crash
    <2>2. QED
      BY <2>1, DieStoreInv
  <1>6. QED
    BY <1>1, <1>2, <1>3, <1>4, <1>5, BootStoreInv, ApplyStepStoreInv DEF Next

(* The invariant every later theorem rests on.                             *)
THEOREM StoreCorrect == Spec => [](Typed /\ StoreInv)
  <1>1. Init => Typed /\ StoreInv
    BY InitTypeOK, InitStoreInv DEF Init, HolderCalls, Typed
  <1>2. (Typed /\ StoreInv) /\ [Next]_vars => (Typed /\ StoreInv)'
    <2>1. Typed /\ [Next]_vars => Typed'
      BY TypeStep, HolderStep DEF Typed
    <2>2. QED
      BY <2>1, StoreStep
  <1>3. QED
    BY <1>1, <1>2, PTL DEF Spec

(* The status column and the active pointer agree in every reachable       *)
(* state: Activate's three statements, Fail, the imports and the prunes    *)
(* never leave two active rows, or none, or another one than the pointer's.*)
THEOREM OneActive == Spec => []OneActiveRevision
  <1>1. Typed /\ StoreInv => OneActiveRevision
    BY DEF StoreInv
  <1>2. QED
    BY <1>1, StoreCorrect, PTL

(* The revision an apply saved is in the table, with the apply's own       *)
(* input, for as long as the apply may activate it or mark it failed.      *)
THEOREM CandidateLives == Spec => []CandidateSurvives
  <1>1. Typed /\ StoreInv => CandidateSurvives
    BY DEF StoreInv, Locals, CandidateSurvives
  <1>2. QED
    BY <1>1, StoreCorrect, PTL

-----------------------------------------------------------------------------
(* The runtime's invariant: which group runs and which trees are kept.     *)

LEMMA InitRuntimeInv == Init => RuntimeInv
  BY DEF Init, RuntimeInv, ActiveTreeKept, Trees, Outcome, Shown, RunningIsActive,
         RestoreTreeKept, Up

LEMMA DieRuntimeInv == Die => RuntimeInv'
  BY DEF Die, RuntimeInv, ActiveTreeKept, Trees, Outcome, Shown, RunningIsActive,
         RestoreTreeKept, Up

(* The steps that neither move an apply on nor touch what it decides.      *)
LEMMA RuntimeInvOthers ==
    ASSUME RuntimeInv,
           UNCHANGED <<activeId, built, cacheActive, current, daemon, phase, lock,
                       base, cand, verdict, lapses>>,
           rows'[activeId] = rows[activeId],
           lock # NoOne => req'[lock] = req[lock],
           phase # "free" => lock # NoOne
    PROVE  RuntimeInv'
  <1>1. ActiveTreeKept' /\ Trees' /\ Shown' /\ RunningIsActive' /\ RestoreTreeKept'
    BY DEF RuntimeInv, ActiveTreeKept, Trees, Shown, RunningIsActive, RestoreTreeKept, Up
  <1>2. Outcome'
    BY DEF RuntimeInv, Outcome
  <1>3. QED
    BY <1>1, <1>2 DEF RuntimeInv

LEMMA BootRuntimeInv ==
    ASSUME Typed, StoreInv, RuntimeInv, BootStep
    PROVE  RuntimeInv'
  <1>1. phase' = "free" /\ verdict' = "none"
    <2>1. phase = "free" /\ UNCHANGED callVars
      BY DEF StoreInv, OnlyUpApplies, Typed, HolderCalls, Up, BootStep, BootRead,
             BootPrune, BootTidy, BootPrepare, BootStart
    <2>2. verdict = "none"
      BY <2>1 DEF RuntimeInv, Outcome
    <2>3. QED
      BY <2>1, <2>2 DEF callVars
  <1>2. Trees' /\ Outcome'
    BY <1>1 DEF Trees, Outcome
  <1>3. /\ Up' => BootStart
        /\ BootRead \/ BootPrune \/ BootTidy => daemon' \notin {"start", "up"}
    BY DEF Up, BootStep, BootRead, BootPrune, BootTidy, BootPrepare
  <1>4. ActiveTreeKept'
    BY <1>3 DEF RuntimeInv, ActiveTreeKept, BootStep, BootPrepare, BootStart, storeVars
  <1>5. BootStart => current' = activeId /\ cacheActive' = activeId
                     /\ activeId' = activeId /\ activeId \in built'
    BY DEF BootStart, storeVars, RuntimeInv, ActiveTreeKept
  <1>6. Shown' /\ RunningIsActive' /\ RestoreTreeKept'
    BY <1>1, <1>3, <1>5 DEF Shown, RunningIsActive, RestoreTreeKept, Up
  <1>7. QED
    BY <1>2, <1>4, <1>6 DEF RuntimeInv

LEMMA LockRuntimeInv ==
    ASSUME Typed, RuntimeInv, NEW a \in Appliers, Lock(a)
    PROVE  RuntimeInv'
  <1>1. /\ phase = "free" /\ phase' \in {"reset", "save"}
        /\ verdict' \in {"none", "unchanged"}
        /\ UNCHANGED <<activeId, built, cacheActive, current, daemon, lapses>>
    BY DEF Lock, Typed, HolderCalls, storeVars, processVars
  <1>2. QED
    BY <1>1 DEF RuntimeInv, ActiveTreeKept, Trees, Outcome, Shown, RunningIsActive,
                RestoreTreeKept, Up

(* Returning leaves nothing of ApplyBundle's locals to speak of.           *)
LEMMA ReturnRuntimeInv ==
    ASSUME RuntimeInv, NEW r, Return(r), phase \in {"save", "reset", "prune", "tidy"},
           UNCHANGED <<activeId, cacheActive, current, daemon, lapses>>,
           built' \subseteq built, built \cap {activeId} \subseteq built'
    PROVE  RuntimeInv'
  <1>1. phase' = "free" /\ verdict' = "none"
    BY DEF Return
  <1>2. Trees' /\ Outcome'
    BY <1>1 DEF Trees, Outcome
  <1>3. ActiveTreeKept' /\ Shown' /\ RunningIsActive' /\ RestoreTreeKept'
    BY <1>1 DEF RuntimeInv, ActiveTreeKept, Shown, RunningIsActive, RestoreTreeKept, Up
  <1>4. QED
    BY <1>2, <1>3 DEF RuntimeInv

LEMMA ApplyStepRuntimeInv ==
    ASSUME Typed, StoreInv, RuntimeInv, ApplyStep
    PROVE  RuntimeInv'
  <1> USE DEF Typed
  <1>1. /\ StoreTypeOK /\ FreshKeys /\ OneActiveRevision /\ Locals
        /\ ActiveTreeKept /\ Trees /\ Outcome /\ Shown
        /\ RunningIsActive /\ RestoreTreeKept
    BY DEF TypeOK, StoreInv, RuntimeInv
  <1>2. phase # "free" /\ lock # NoOne
    BY DEF HolderCalls, ApplyStep, SaveCandidate, AnnounceCandidate, PrepareCandidate,
           SwapRuntime, ActivateCandidate, RollBackRuntime, MarkFailed, ResetDraft,
           Publish, Prune, Tidy
  <1>3. Up /\ Up'
    <2>1. daemon' = daemon
      BY DEF processVars, ApplyStep, SaveCandidate, AnnounceCandidate, PrepareCandidate,
             SwapRuntime, ActivateCandidate, RollBackRuntime, MarkFailed, ResetDraft,
             Publish, Prune, Tidy
    <2>2. QED
      BY <1>2, <2>1 DEF StoreInv, OnlyUpApplies, Up
  <1>4. activeId \in built
    BY <1>1, <1>3 DEF ActiveTreeKept, Up
  <1>5. CASE SaveCandidate
    <2>1. /\ phase = "save" /\ UNCHANGED <<activeId, built, cacheActive, current,
                                           daemon, lapses>>
      BY <1>5 DEF SaveCandidate, processVars, StoreSaveDraft, storeVars
    <2>2. CASE phase' = "announce" /\ verdict' = verdict
      <3>1. verdict = "none"
        BY <1>1, <2>1 DEF Locals
      <3>2. QED
        BY <1>1, <2>1, <2>2, <3>1 DEF RuntimeInv, ActiveTreeKept, Trees, Outcome, Shown,
           RunningIsActive, RestoreTreeKept, Up
    <2>3. CASE Return("failed")
      BY <2>1, <2>3, ReturnRuntimeInv
    <2>4. QED
      BY <1>5, <2>2, <2>3 DEF SaveCandidate, Continue
  <1>6. CASE AnnounceCandidate
    <2>1. /\ phase = "announce" /\ phase' = "prepare"
          /\ UNCHANGED <<activeId, built, cacheActive, current, daemon, lapses, verdict>>
      BY <1>6 DEF AnnounceCandidate, Continue, storeVars
    <2>2. verdict = "none"
      BY <1>1, <2>1 DEF Locals
    <2>3. QED
      BY <1>1, <2>1, <2>2 DEF RuntimeInv, ActiveTreeKept, Trees, Outcome, Shown,
         RunningIsActive, RestoreTreeKept, Up
  <1>7. CASE PrepareCandidate
    <2>1. /\ phase = "prepare" /\ phase' \in {"swap", "fail"}
          /\ UNCHANGED <<activeId, cacheActive, current, daemon, lapses, cand, base>>
          /\ verdict' = IF phase' = "swap" THEN verdict ELSE "failed"
          /\ built' = IF phase' = "swap" THEN built \cup {cand} ELSE built \ {cand}
      BY <1>7 DEF PrepareCandidate, Continue, storeVars, processVars
    <2>2. verdict = "none" /\ base = activeId /\ cand # activeId
      BY <1>1, <2>1 DEF Locals
    <2>3. lapses = {} => current = activeId
      BY <1>1, <1>3, <2>1 DEF RunningIsActive
    <2>4. ActiveTreeKept' /\ RestoreTreeKept' /\ RunningIsActive'
      BY <1>1, <1>3, <1>4, <2>1, <2>2, <2>3
      DEF ActiveTreeKept, RestoreTreeKept, RunningIsActive, Up
    <2>5. Trees' /\ Outcome' /\ Shown'
      BY <1>1, <1>3, <2>1, <2>2 DEF Trees, Outcome, Shown, Up
    <2>6. QED
      BY <2>4, <2>5 DEF RuntimeInv
  <1>8. CASE SwapRuntime
    <2>1. /\ phase = "swap"
          /\ UNCHANGED <<activeId, built, cacheActive, daemon, lapses, cand, base>>
      BY <1>8 DEF SwapRuntime, Continue, storeVars
    <2>2. verdict = "none" /\ base = activeId /\ cand \in built
      BY <1>1, <2>1 DEF Locals, Trees
    <2>3. CASE current' = cand /\ phase' = "activate" /\ verdict' = verdict
      BY <1>1, <1>3, <1>4, <2>1, <2>2, <2>3 DEF RuntimeInv, ActiveTreeKept, Trees,
         Outcome, Shown, RunningIsActive, RestoreTreeKept, Up
    <2>4. CASE current' = current /\ phase' = "fail" /\ verdict' = "failed"
      BY <1>1, <1>3, <1>4, <2>1, <2>2, <2>4 DEF RuntimeInv, ActiveTreeKept, Trees,
         Outcome, Shown, RunningIsActive, RestoreTreeKept, Up
    <2>5. QED
      BY <1>8, <2>3, <2>4 DEF SwapRuntime, Replaced, Restored, GaveUp, Continue
  <1>9. CASE ActivateCandidate
    <2>1. /\ phase = "activate" /\ phase' \in {"publish", "rollback"}
          /\ UNCHANGED <<built, cacheActive, current, daemon, cand, base>>
          /\ UNCHANGED <<lock, req>>
          /\ lapses \subseteq lapses'
          /\ verdict' = IF phase' = "publish" THEN "changed" ELSE "failed"
          /\ phase' = "publish" => StoreActivate(cand)
          /\ StoreActivate(cand) \/ UNCHANGED storeVars
          /\ phase' = "rollback" /\ "committed" \notin lapses' => activeId' = activeId
      BY <1>9 DEF ActivateCandidate, Continue, processVars, storeVars
    <2>2. /\ base = activeId /\ cand \in built /\ current = cand
          /\ cand \in DOMAIN rows
          /\ rows[cand].input = req[lock] /\ rows[cand].current
      BY <1>1, <2>1 DEF Locals, Trees
    <2>3. lapses = {} => cacheActive = base
      BY <1>1, <1>3, <2>1, <2>2 DEF Shown
    <2>4. StoreActivate(cand) => /\ activeId' = cand
                                 /\ rows'[cand].input = rows[cand].input
                                 /\ rows'[cand].current = rows[cand].current
      BY <1>1, <2>2, ActivateKeeps
    <2>5. activeId' \in {base, cand}
      BY <2>1, <2>2, <2>4 DEF storeVars
    <2>6. ActiveTreeKept' /\ RestoreTreeKept' /\ Trees' /\ Shown'
      BY <1>3, <1>4, <2>1, <2>2, <2>3, <2>5
      DEF ActiveTreeKept, RestoreTreeKept, Trees, Shown, Up
    <2>7. RunningIsActive'
      BY <2>1, <2>2, <2>4 DEF RunningIsActive
    <2>8. CASE phase' = "publish"
      <3>1. Outcome'
        BY <2>1, <2>2, <2>4, <2>8 DEF Outcome
      <3>2. QED
        BY <2>6, <2>7, <3>1 DEF RuntimeInv
    <2>9. CASE phase' = "rollback"
      <3>1. verdict' = "failed" /\ ("committed" \notin lapses' => activeId' = base')
        BY <2>1, <2>2, <2>9
      <3>2. Outcome'
        BY <2>9, <3>1 DEF Outcome
      <3>3. QED
        BY <2>6, <2>7, <3>2 DEF RuntimeInv
    <2>10. QED
      BY <2>1, <2>8, <2>9
  <1>10. CASE RollBackRuntime
    <2>1. /\ phase = "rollback" /\ phase' = "reset"
          /\ UNCHANGED <<activeId, built, cacheActive, daemon, verdict, base>>
          /\ lapses \subseteq lapses' /\ (lapses' = {} => current' = base)
      BY <1>10 DEF RollBackRuntime, Replaced, Continue, storeVars
    <2>2. base \in built /\ verdict = "failed" /\ (lapses = {} => cacheActive = base)
      BY <1>1, <2>1 DEF Locals, Trees, Shown
    <2>3. QED
      BY <1>3, <1>4, <2>1, <2>2 DEF RuntimeInv, ActiveTreeKept, Trees, Outcome, Shown,
         RunningIsActive, RestoreTreeKept, Up
  <1>11. CASE MarkFailed
    <2>1. /\ phase = "fail" /\ phase' = "reset"
          /\ UNCHANGED <<activeId, built, cacheActive, current, daemon, lapses, verdict, base>>
      BY <1>11 DEF MarkFailed, Continue, StoreFail, storeVars, processVars
    <2>2. verdict = "failed"
      BY <1>1, <2>1 DEF Locals
    <2>3. QED
      BY <1>1, <2>1, <2>2 DEF RuntimeInv, ActiveTreeKept, Trees, Outcome, Shown,
         RunningIsActive, RestoreTreeKept, Up
  <1>12. CASE ResetDraft
    <2>1. /\ phase = "reset"
          /\ UNCHANGED <<activeId, rows, built, cacheActive, current, daemon, lapses>>
      BY <1>12 DEF ResetDraft, StoreResetDraftToActive, storeVars, processVars
    <2>2. verdict # "changed"
      BY <1>1, <2>1 DEF Outcome
    <2>3. CASE phase' \in {"prune", "publish"} /\ UNCHANGED <<verdict, base>>
      BY <1>1, <2>1, <2>2, <2>3 DEF RuntimeInv, ActiveTreeKept, Trees, Outcome, Shown,
         RunningIsActive, RestoreTreeKept, Up
    <2>4. CASE Return("failed")
      BY <2>1, <2>4, ReturnRuntimeInv
    <2>5. QED
      BY <1>12, <2>3, <2>4 DEF ResetDraft, Continue
  <1>13. CASE Publish
    <2>1. /\ phase = "publish"
          /\ UNCHANGED <<activeId, rows, built, current, daemon>>
          /\ cacheActive' = activeId
          /\ lapses' = IF verdict = "changed" THEN {} ELSE lapses
      BY <1>13 DEF Publish, storeVars
    <2>2. lapses' = {} => current = activeId
      BY <1>1, <1>3, <2>1 DEF Outcome, RunningIsActive
    <2>3. ActiveTreeKept' /\ RunningIsActive' /\ RestoreTreeKept'
      BY <1>3, <1>4, <2>1, <2>2 DEF ActiveTreeKept, RunningIsActive, RestoreTreeKept
    <2>4. CASE Return("unchanged")
      <3>1. phase' = "free" /\ verdict' = "none"
        BY <2>4 DEF Return
      <3>2. QED
        BY <2>1, <2>3, <3>1 DEF RuntimeInv, Trees, Outcome, Shown
    <2>5. CASE phase' = "prune" /\ UNCHANGED <<verdict, base, lock, req>>
      BY <1>1, <2>1, <2>3, <2>5 DEF RuntimeInv, Trees, Outcome, Shown
    <2>6. QED
      BY <1>13, <2>4, <2>5 DEF Publish, Continue
  <1>14. CASE Prune
    <2>1. /\ phase = "prune"
          /\ UNCHANGED <<activeId, built, cacheActive, current, daemon, lapses>>
          /\ rows'[activeId] = rows[activeId]
      BY <1>1, <1>14, PruneKeeps DEF Prune, storeVars, processVars
    <2>2. CASE phase' = "tidy" /\ UNCHANGED <<verdict, base, lock, req>>
      BY <1>1, <2>1, <2>2 DEF RuntimeInv, ActiveTreeKept, Trees, Outcome, Shown,
         RunningIsActive, RestoreTreeKept, Up
    <2>3. CASE Return("failed")
      BY <2>1, <2>3, ReturnRuntimeInv
    <2>4. QED
      BY <1>14, <2>2, <2>3 DEF Prune, Continue
  <1>15. CASE Tidy
    <2>1. /\ phase = "tidy"
          /\ UNCHANGED <<activeId, rows, cacheActive, current, daemon, lapses>>
          /\ built' \subseteq built /\ built \cap {activeId} \subseteq built'
      BY <1>15 DEF Tidy, TreesToKeep, storeVars, processVars
    <2>2. CASE phase' = "publish" /\ verdict = "unchanged" /\ verdict' = verdict
      BY <1>1, <1>3, <1>4, <2>1, <2>2 DEF RuntimeInv, ActiveTreeKept, Trees, Outcome,
         Shown, RunningIsActive, RestoreTreeKept, Up
    <2>3. CASE \E r : Return(r)
      BY <2>1, <2>3, ReturnRuntimeInv
    <2>4. QED
      BY <1>15, <2>2, <2>3 DEF Tidy, Continue
  <1>16. QED
    BY <1>5, <1>6, <1>7, <1>8, <1>9, <1>10, <1>11, <1>12, <1>13, <1>14, <1>15
    DEF ApplyStep

LEMMA RuntimeStep ==
    Typed /\ StoreInv /\ RuntimeInv /\ [Next]_vars => RuntimeInv'
  <1> SUFFICES ASSUME Typed, StoreInv, RuntimeInv, [Next]_vars PROVE RuntimeInv'
    OBVIOUS
  <1>0. /\ phase # "free" => lock # NoOne
        /\ lock # NoOne => req[lock] # NoInput
        /\ req \in [Appliers -> Inputs \cup {NoInput}]
        /\ StoreTypeOK /\ FreshKeys /\ OneActiveRevision
    <2> USE CallersAssumption
    <2> QED
      BY DEF Typed, TypeOK, HolderCalls, StoreInv
  <1>1. ASSUME NEW a \in Appliers, Lock(a)
        PROVE  RuntimeInv'
    BY <1>1, LockRuntimeInv
  <1>2. ASSUME NEW a \in Appliers, CallApplyBundle(a) \/ CallApply(a)
        PROVE  RuntimeInv'
    <2>1. PICK b : Call(a, b)
      BY <1>2 DEF CallApplyBundle, CallApply
    <2>2. UNCHANGED <<activeId, rows, built, cacheActive, current, daemon, phase, lock,
                      base, cand, verdict, lapses>>
      BY <2>1 DEF Call, storeVars, processVars
    <2>3. lock # NoOne => req'[lock] = req[lock]
      BY <1>0, <2>1 DEF Call, Idle
    <2>4. QED
      BY <1>0, <2>2, <2>3, RuntimeInvOthers
  <1>3. ASSUME NEW a \in Appliers, Refuse(a)
        PROVE  RuntimeInv'
    <2>1. UNCHANGED <<activeId, rows, built, cacheActive, current, daemon, phase, lock,
                      base, cand, verdict, lapses>>
      BY <1>3 DEF Refuse, storeVars, processVars
    <2>2. lock = NoOne
      BY <1>3 DEF Refuse
    <2>3. QED
      BY <1>0, <2>1, <2>2, RuntimeInvOthers
  <1>4. ASSUME NEW c \in Clis, NEW b \in Inputs, SaveDraft(c, b)
        PROVE  RuntimeInv'
    <2>1. /\ UNCHANGED <<built, cacheActive, current, daemon, phase, lock,
                         base, cand, verdict, lapses, req>>
          /\ StoreSaveDraft(b, FALSE)
      BY <1>4 DEF SaveDraft, processVars
    <2>2. activeId' = activeId /\ rows'[activeId] = rows[activeId]
      BY <1>0, <2>1, SaveDraftKeeps DEF StoreTypeOK
    <2>3. QED
      BY <1>0, <2>1, <2>2, RuntimeInvOthers
  <1>5. ASSUME (\E c \in Clis : SetDraft(c)) \/ ChildExits \/ WatchReports \/ UNCHANGED vars
        PROVE  RuntimeInv'
    <2>1. UNCHANGED <<activeId, rows, built, cacheActive, current, daemon, phase, lock,
                      base, cand, verdict, lapses, req>>
      BY <1>5 DEF SetDraft, ChildExits, WatchReports, vars, storeVars, processVars, callVars
    <2>2. QED
      BY <1>0, <2>1, RuntimeInvOthers
  <1>6. ASSUME BootFails \/ ExitOnFatal \/ Crash
        PROVE  RuntimeInv'
    BY <1>6, DieRuntimeInv DEF BootFails, ExitOnFatal, Crash
  <1>7. CASE BootStep \/ ApplyStep
    BY <1>7, BootRuntimeInv, ApplyStepRuntimeInv
  <1>8. QED
    BY <1>1, <1>2, <1>3, <1>4, <1>5, <1>6, <1>7 DEF Next

THEOREM RuntimeCorrect == Spec => [](Typed /\ StoreInv /\ RuntimeInv)
  <1>1. Init => Typed /\ StoreInv /\ RuntimeInv
    BY InitTypeOK, InitStoreInv, InitRuntimeInv DEF Init, HolderCalls, Typed
  <1>2. (Typed /\ StoreInv /\ RuntimeInv) /\ [Next]_vars
           => (Typed /\ StoreInv /\ RuntimeInv)'
    <2>1. Typed /\ [Next]_vars => Typed'
      BY TypeStep, HolderStep DEF Typed
    <2>2. QED
      BY <2>1, StoreStep, RuntimeStep
  <1>3. QED
    BY <1>1, <1>2, PTL DEF Spec

(* What runs is what is stored as active, except between the switch and    *)
(* the commit of one apply (service.go ApplyBundle), or after a rollback   *)
(* that was not complete.                                                  *)
THEOREM RunsWhatIsActive == Spec => []RunningIsActive
  <1>1. Typed /\ StoreInv /\ RuntimeInv => RunningIsActive
    BY DEF RuntimeInv
  <1>2. QED
    BY <1>1, RuntimeCorrect, PTL

(* PruneRevisionDirs and a failing prepare never remove the tree the       *)
(* supervisor would restore from.                                          *)
THEOREM RestorePossible == Spec => []RestoreTreeKept
  <1>1. Typed /\ StoreInv /\ RuntimeInv => RestoreTreeKept
    BY DEF RuntimeInv
  <1>2. QED
    BY <1>1, RuntimeCorrect, PTL

(* The revision an apply started from keeps its tree while the apply may   *)
(* still roll back to it.                                                  *)
THEOREM RollbackPossible == Spec => []RollbackTreeKept
  <1>1. Typed /\ StoreInv /\ RuntimeInv => RollbackTreeKept
    <2> SUFFICES ASSUME Typed, StoreInv, RuntimeInv,
                        phase \in {"prepare", "swap", "activate", "rollback"}
                 PROVE  base \in built /\ base # cand
      BY DEF RollbackTreeKept
    <2>1. Up
      BY DEF Typed, HolderCalls, StoreInv, OnlyUpApplies
    <2>2. QED
      BY <2>1 DEF StoreInv, Locals, RuntimeInv, ActiveTreeKept, Trees, Up
  <1>2. QED
    BY <1>1, RuntimeCorrect, PTL

(* No cleanup and no failing prepare takes away a tree that the supervisor *)
(* or a rollback may still start from.                                     *)
THEOREM TreesStay == Spec => []TreesKept
  <1>1. RestoreTreeKept /\ RollbackTreeKept => TreesKept
    BY DEF TreesKept
  <1>2. QED
    BY <1>1, RestorePossible, RollbackPossible, PTL

(* Between applies the cached active revision is the stored one.           *)
THEOREM CacheFollowsStore == Spec => []CachedActiveCurrent
  <1>1. Typed /\ StoreInv /\ RuntimeInv => CachedActiveCurrent
    <2> SUFFICES ASSUME Typed, StoreInv, RuntimeInv, lock = NoOne
                 PROVE  CachedActiveCurrent
      BY DEF CachedActiveCurrent
    <2>1. phase = "free"
      BY DEF Typed, HolderCalls
    <2>2. QED
      BY <2>1 DEF CachedActiveCurrent, RuntimeInv, Shown
  <1>2. QED
    BY <1>1, RuntimeCorrect, PTL

-----------------------------------------------------------------------------
(* What a step may never do.                                               *)

CorrectState == Typed /\ StoreInv /\ RuntimeInv

(* Only ApplyBundle's activation moves the active pointer.                 *)
LEMMA OnlyActivateMoves ==
    ASSUME [Next]_vars, activeId' # activeId
    PROVE  phase = "activate" /\ activeId' = cand
  <1>1. ASSUME BootStep \/ BootFails \/ ExitOnFatal \/ Crash \/ ChildExits \/ WatchReports
        PROVE  FALSE
    BY <1>1 DEF BootStep, BootRead, BootPrune, BootTidy, BootPrepare, BootStart, BootFails,
       ExitOnFatal, Crash, Die, ChildExits, WatchReports, storeVars,
       StoreResetDraftToActive, StorePruneRevisions
  <1>2. ASSUME NEW a \in Appliers,
               CallApplyBundle(a) \/ CallApply(a) \/ Refuse(a) \/ Lock(a)
        PROVE  FALSE
    BY <1>2 DEF CallApplyBundle, CallApply, Call, Refuse, Lock, storeVars
  <1>3. ASSUME NEW c \in Clis, SetDraft(c) \/ \E b \in Inputs : SaveDraft(c, b)
        PROVE  FALSE
    BY <1>3 DEF SetDraft, SaveDraft, StoreSaveDraft, storeVars
  <1>4. CASE ApplyStep
    BY <1>4 DEF ApplyStep, SaveCandidate, AnnounceCandidate, PrepareCandidate,
       SwapRuntime, ActivateCandidate, RollBackRuntime, MarkFailed, ResetDraft, Publish,
       Prune, Tidy, StoreSaveDraft, StoreActivate, StoreFail, StoreResetDraftToActive,
       StorePruneRevisions, storeVars
  <1>5. CASE UNCHANGED vars
    BY <1>5 DEF vars, storeVars
  <1>6. QED
    BY <1>1, <1>2, <1>3, <1>4, <1>5 DEF Next

(* A commit names a revision that is running at that moment, so a crash at *)
(* any point leaves a database whose active revision has been started.     *)
THEOREM CommitsWhatRuns == Spec => CommitsOnlyWhatRuns
  <1>1. CorrectState /\ [Next]_vars => [activeId' # activeId => current = activeId']_vars
    BY OnlyActivateMoves DEF CorrectState, RuntimeInv, Trees
  <1>2. Spec => []CorrectState
    BY RuntimeCorrect DEF CorrectState
  <1>3. QED
    BY <1>1, <1>2, PTL DEF Spec, CommitsOnlyWhatRuns

(* ApplyBundle reaches supervisor.Apply only for a bundle that is not in   *)
(* force already, and none becomes so before it does.                      *)
THEOREM SwitchesForChange == Spec => SwitchesOnlyForChange
  <1>1. CorrectState /\ [Next]_vars =>
          [phase = "swap" /\ phase' \in {"activate", "fail"} => ~NothingToDo(req[lock])]_vars
    BY DEF CorrectState, StoreInv, Locals
  <1>2. Spec => []CorrectState
    BY RuntimeCorrect DEF CorrectState
  <1>3. QED
    BY <1>1, <1>2, PTL DEF Spec, SwitchesOnlyForChange

(* A "changed" answer is only given at the end of Tidy, to the holder.     *)
LEMMA OnlyTidyAnswersChanged ==
    ASSUME Typed, [Next]_vars, NEW a \in Appliers,
           result'[a] = "changed", result[a] # "changed"
    PROVE  phase = "tidy" /\ verdict = "changed" /\ a = lock
  <1>0. result \in [Appliers -> Verdicts]
    BY DEF Typed, TypeOK
  <1>1. ASSUME BootStep \/ ChildExits \/ WatchReports \/ UNCHANGED vars
        PROVE  FALSE
    BY <1>1 DEF BootStep, BootRead, BootPrune, BootTidy, BootPrepare, BootStart,
       ChildExits, WatchReports, callVars, vars
  <1>2. ASSUME BootFails \/ ExitOnFatal \/ Crash
        PROVE  FALSE
    BY <1>2 DEF BootFails, ExitOnFatal, Crash, Die
  <1>3. ASSUME NEW c \in Appliers,
               CallApplyBundle(c) \/ CallApply(c) \/ Refuse(c) \/ Lock(c)
        PROVE  FALSE
    BY <1>0, <1>3 DEF CallApplyBundle, CallApply, Call, Refuse, Lock
  <1>4. ASSUME NEW c \in Clis, SetDraft(c) \/ \E b \in Inputs : SaveDraft(c, b)
        PROVE  FALSE
    BY <1>4 DEF SetDraft, SaveDraft
  <1>5. CASE ApplyStep
    <2>1. CASE Return("failed") \/ Return("unchanged")
      BY <1>0, <2>1 DEF Return
    <2>2. CASE Return(verdict) /\ phase = "tidy"
      BY <1>0, <2>2 DEF Return
    <2>3. CASE result' = result
      BY <2>3
    <2>4. QED
      BY <1>5, <2>1, <2>2, <2>3 DEF ApplyStep, SaveCandidate, AnnounceCandidate,
         PrepareCandidate, SwapRuntime, ActivateCandidate, RollBackRuntime, MarkFailed,
         ResetDraft, Publish, Prune, Tidy, Continue
  <1>6. QED
    BY <1>1, <1>2, <1>3, <1>4, <1>5 DEF Next

(* A caller told "changed" finds its bundle running, stored as active and  *)
(* in the snapshot the panel reads, whoever else applied or imported.      *)
THEOREM ChangedInForce == Spec => ChangedIsInForce
  <1>1. CorrectState /\ [Next]_vars =>
          [\A a \in Appliers : result'[a] = "changed" /\ result[a] # "changed" =>
              /\ current = activeId /\ cacheActive = activeId
              /\ rows[activeId].input = req[a] /\ rows[activeId].current]_vars
    <2> SUFFICES ASSUME CorrectState, [Next]_vars, NEW a \in Appliers,
                        result'[a] = "changed", result[a] # "changed"
                 PROVE  /\ current = activeId /\ cacheActive = activeId
                        /\ rows[activeId].input = req[a] /\ rows[activeId].current
      OBVIOUS
    <2>1. phase = "tidy" /\ verdict = "changed" /\ a = lock
      BY OnlyTidyAnswersChanged DEF CorrectState
    <2>2. QED
      BY <2>1 DEF CorrectState, RuntimeInv, Outcome
  <1>2. Spec => []CorrectState
    BY RuntimeCorrect DEF CorrectState
  <1>3. QED
    BY <1>1, <1>2, PTL DEF Spec, ChangedIsInForce

(* ApplyBundle never returns straight from its rollback.                   *)
LEMMA RollbackGoesOn ==
    ASSUME CorrectState, [Next]_vars, lock # NoOne, phase' = "free", daemon' = "up"
    PROVE  phase \notin {"activate", "rollback"}
  <1>1. phase # "free" /\ Up
    BY DEF CorrectState, Typed, HolderCalls, StoreInv, OnlyUpApplies
  <1>2. ASSUME BootStep \/ ChildExits \/ WatchReports \/ UNCHANGED vars
        PROVE  FALSE
    BY <1>1, <1>2 DEF BootStep, BootRead, BootPrune, BootTidy, BootPrepare, BootStart,
       ChildExits, WatchReports, callVars, vars
  <1>3. ASSUME BootFails \/ ExitOnFatal \/ Crash
        PROVE  FALSE
    BY <1>3 DEF BootFails, ExitOnFatal, Crash, Die
  <1>4. ASSUME NEW c \in Appliers,
               CallApplyBundle(c) \/ CallApply(c) \/ Refuse(c) \/ Lock(c)
        PROVE  FALSE
    BY <1>1, <1>4 DEF CallApplyBundle, CallApply, Call, Refuse, Lock
  <1>5. ASSUME NEW c \in Clis, SetDraft(c) \/ \E b \in Inputs : SaveDraft(c, b)
        PROVE  FALSE
    BY <1>1, <1>5 DEF SetDraft, SaveDraft
  <1>6. ASSUME ActivateCandidate \/ RollBackRuntime
        PROVE  FALSE
    BY <1>6 DEF ActivateCandidate, RollBackRuntime, Continue
  <1>7. QED
    BY <1>2, <1>3, <1>4, <1>5, <1>6 DEF Next, ApplyStep, SaveCandidate,
       AnnounceCandidate, PrepareCandidate, SwapRuntime, MarkFailed, ResetDraft, Publish,
       Prune, Tidy

(* An apply that ends in failure has left the active revision as it found  *)
(* it unless its commit was reported as an error, and has brought the      *)
(* runtime back unless moreover a rollback was reported as failed.         *)
THEOREM FailureUndone == Spec => FailedApplyUndone
  <1>1. CorrectState /\ [Next]_vars =>
          [lock # NoOne /\ phase' = "free" /\ daemon' = "up" /\ verdict = "failed" =>
             /\ "committed" \notin lapses => activeId = base
             /\ lapses = {} => current = base]_vars
    <2> SUFFICES ASSUME CorrectState, [Next]_vars, lock # NoOne, phase' = "free",
                        daemon' = "up", verdict = "failed"
                 PROVE  /\ "committed" \notin lapses => activeId = base
                        /\ lapses = {} => current = base
      OBVIOUS
    <2>1. phase \notin {"activate", "rollback"}
      BY RollbackGoesOn
    <2>2. Up
      BY DEF CorrectState, StoreInv, OnlyUpApplies
    <2>3. "committed" \notin lapses => activeId = base
      BY DEF CorrectState, RuntimeInv, Outcome
    <2>4. lapses = {} => current = activeId
      BY <2>1, <2>2 DEF CorrectState, RuntimeInv, RunningIsActive
    <2>5. QED
      BY <2>3, <2>4
  <1>2. Spec => []CorrectState
    BY RuntimeCorrect DEF CorrectState
  <1>3. QED
    BY <1>1, <1>2, PTL DEF Spec, FailedApplyUndone

-----------------------------------------------------------------------------
(* ApplyBundle implements the atomic register of AtomicApply: each step is *)
(* one of the register's or changes nothing of it.                         *)

LEMMA DecidedStep == Typed /\ StoreInv /\ Decided /\ [Next]_vars => Decided'
  <1> SUFFICES ASSUME Typed, StoreInv, Decided, [Next]_vars
               PROVE  Decided'
    OBVIOUS
  <1>1. CASE phase' = "free"
    BY <1>1 DEF Decided
  <1>2. CASE UNCHANGED <<phase, verdict>>
    BY <1>2 DEF Decided
  <1>3. CASE BootStep \/ ChildExits \/ WatchReports \/ UNCHANGED vars
    BY <1>2, <1>3 DEF BootStep, BootRead, BootPrune, BootTidy, BootPrepare, BootStart,
       ChildExits, WatchReports, callVars, vars
  <1>4. CASE BootFails \/ ExitOnFatal \/ Crash
    BY <1>1, <1>4 DEF BootFails, ExitOnFatal, Crash, Die
  <1>5. ASSUME NEW a \in Appliers,
               CallApplyBundle(a) \/ CallApply(a) \/ Refuse(a) \/ Lock(a)
        PROVE  Decided'
    BY <1>2, <1>5 DEF CallApplyBundle, CallApply, Call, Refuse, Lock, Decided
  <1>6. ASSUME NEW c \in Clis, SetDraft(c) \/ \E b \in Inputs : SaveDraft(c, b)
        PROVE  Decided'
    BY <1>2, <1>6 DEF SetDraft, SaveDraft
  <1>7. CASE ApplyStep
    <2>1. CASE \E r : Return(r)
      BY <1>1, <2>1 DEF Return
    <2>2. CASE phase' \in {"announce", "prepare", "swap", "activate", "rollback", "fail"}
      BY <2>2 DEF Decided
    <2>3. phase \in {"activate", "rollback", "fail"} =>
            verdict \in {"none", "failed"} /\ (phase # "activate" => verdict = "failed")
      BY DEF StoreInv, Locals
    <2>4. QED
      BY <1>7, <2>1, <2>2, <2>3 DEF ApplyStep, SaveCandidate, AnnounceCandidate,
         PrepareCandidate, SwapRuntime, ActivateCandidate, RollBackRuntime, MarkFailed,
         ResetDraft, Publish, Prune, Tidy, Continue, Decided
  <1>8. QED
    BY <1>3, <1>4, <1>5, <1>6, <1>7 DEF Next

(* Nothing of the register changes.                                        *)
LEMMA Stutters ==
    ASSUME rows'[activeId'].input = rows[activeId].input,
           UNCHANGED <<req, result>>, TookEffect' = TookEffect
    PROVE  UNCHANGED Atomic!avars
  BY DEF Atomic!avars

LEMMA CallMaps ==
    ASSUME Typed, NEW a \in Appliers, CallApplyBundle(a) \/ CallApply(a)
    PROVE  Atomic!Next
  <1>1. ASSUME NEW b \in Inputs, Call(a, b) PROVE Atomic!Ask(a, b)
    BY <1>1 DEF Call, Idle, storeVars, TookEffect, Atomic!Ask
  <1>2. rows[draftId].input \in Inputs
    BY DEF Typed, TypeOK, StoreTypeOK, Row
  <1>3. QED
    BY <1>1, <1>2 DEF CallApplyBundle, CallApply, Atomic!Next

LEMMA RefuseMaps ==
    ASSUME Typed, NEW a \in Appliers, Refuse(a)
    PROVE  Atomic!Next
  <1>1. lock = NoOne /\ lock' = NoOne /\ ~Idle(a) /\ UNCHANGED storeVars
    BY DEF Refuse
  <1>2. TookEffect = [x \in Appliers |-> FALSE] /\ TookEffect' = [x \in Appliers |-> FALSE]
    BY <1>1, CallersAssumption DEF TookEffect
  <1>3. Atomic!Answer(a)
    BY <1>1, <1>2 DEF Refuse, Idle, storeVars, Atomic!Answer
  <1>4. QED
    BY <1>3 DEF Atomic!Next

(* A call that finds nothing to do has taken effect when it looks.         *)
LEMMA LockMaps ==
    ASSUME Typed, NEW a \in Appliers, Lock(a)
    PROVE  [Atomic!Next]_(Atomic!avars)
  <1>1. /\ lock = NoOne /\ lock' = a /\ ~Idle(a) /\ UNCHANGED <<storeVars, req, result>>
        /\ IF NothingToDo(req[a]) THEN verdict' = "unchanged" ELSE verdict' = "none"
    BY DEF Lock
  <1>2. TookEffect = [x \in Appliers |-> FALSE]
    BY <1>1, CallersAssumption DEF TookEffect
  <1>3. CASE NothingToDo(req[a])
    <2>1. rows[activeId].input = req[a]
      BY <1>3 DEF NothingToDo, SameInput
    <2>2. TookEffect' = [TookEffect EXCEPT ![a] = TRUE]
      BY <1>1, <1>2, <1>3 DEF TookEffect
    <2>3. Atomic!TakeEffect(a)
      BY <1>1, <1>2, <2>1, <2>2 DEF Idle, storeVars, Atomic!TakeEffect
    <2>4. QED
      BY <2>3 DEF Atomic!Next
  <1>4. CASE ~NothingToDo(req[a])
    <2>1. TookEffect' = TookEffect
      BY <1>1, <1>2, <1>4 DEF TookEffect
    <2>2. QED
      BY <1>1, <2>1, Stutters DEF storeVars
  <1>5. QED
    BY <1>3, <1>4

(* The holder of applyMu has a request outstanding.                        *)
LEMMA HolderAsks ==
    ASSUME Typed, phase # "free"
    PROVE  /\ lock \in Appliers /\ req[lock] # NoInput
           /\ TookEffect[lock] = (verdict \in {"unchanged", "changed"})
           /\ \A x \in Appliers : x # lock => TookEffect[x] = FALSE
  <1>1. lock \in Appliers /\ req[lock] # NoInput
    BY CallersAssumption DEF Typed, TypeOK, HolderCalls
  <1>2. TookEffect[lock] = (verdict \in {"unchanged", "changed"})
    BY <1>1 DEF TookEffect
  <1>3. ASSUME NEW x \in Appliers, x # lock
        PROVE  TookEffect[x] = FALSE
    BY <1>3 DEF TookEffect
  <1>4. QED
    BY <1>1, <1>2, <1>3

(* The answer is what the verdict says it is.                              *)
LEMMA ReturnMaps ==
    ASSUME Typed, phase # "free", NEW r, Return(r),
           rows'[activeId'].input = rows[activeId].input,
           IF verdict \in {"unchanged", "changed"} THEN r \in {"changed", "unchanged"}
                                                  ELSE r = "failed"
    PROVE  Atomic!Next
  <1>1. lock' = NoOne /\ req' = [req EXCEPT ![lock] = NoInput]
        /\ result' = [result EXCEPT ![lock] = r]
    BY DEF Return
  <1>2. TookEffect' = [x \in Appliers |-> FALSE]
    BY <1>1, CallersAssumption DEF TookEffect
  <1>3. TookEffect' = [TookEffect EXCEPT ![lock] = FALSE]
    BY <1>2, HolderAsks DEF TookEffect
  <1>4. Atomic!Answer(lock)
    BY <1>1, <1>3, HolderAsks DEF Atomic!Answer
  <1>5. QED
    BY <1>4, HolderAsks DEF Atomic!Next

(* The commit of a call's own bundle is its moment.                        *)
LEMMA ActivateMaps ==
    ASSUME Typed, StoreInv, StorageWorks, ActivateCandidate
    PROVE  Atomic!Next
  <1>1. /\ phase = "activate" /\ StoreActivate(cand) /\ verdict' = "changed"
        /\ UNCHANGED <<lock, req, result>>
    BY DEF ActivateCandidate, Continue, StorageWorks
  <1>2. rows[cand].input = req[lock] /\ cand \in DOMAIN rows /\ verdict = "none"
    BY <1>1 DEF StoreInv, Locals
  <1>3. activeId' = cand /\ rows'[cand].input = req[lock]
    BY <1>1, <1>2, ActivateKeeps DEF Typed, TypeOK, StoreInv
  <1>4. TookEffect' = [TookEffect EXCEPT ![lock] = TRUE] /\ ~TookEffect[lock]
    BY <1>1, <1>2, HolderAsks DEF TookEffect
  <1>5. Atomic!TakeEffect(lock)
    BY <1>1, <1>3, <1>4, HolderAsks DEF Atomic!TakeEffect
  <1>6. QED
    BY <1>1, <1>5, HolderAsks DEF Atomic!Next

(* The other phases leave the input of the active revision alone.          *)
LEMMA InputKept ==
    ASSUME Typed, StoreInv, NEW b, NEW c, NEW r,
           \/ StoreSaveDraft(b, c) \/ StoreResetDraftToActive \/ StorePruneRevisions
           \/ StoreFail(r) \/ UNCHANGED storeVars
    PROVE  rows'[activeId'].input = rows[activeId].input
  <1>1. StoreTypeOK /\ FreshKeys
    BY DEF Typed, TypeOK, StoreInv
  <1>2. activeId \in DOMAIN rows /\ activeId # nextId
    BY <1>1 DEF StoreTypeOK, FreshKeys, Ids
  <1>3. CASE StoreSaveDraft(b, c)
    BY <1>2, <1>3 DEF StoreSaveDraft
  <1>4. CASE StorePruneRevisions
    BY <1>2, <1>4 DEF StorePruneRevisions
  <1>5. CASE StoreFail(r)
    BY <1>1, <1>2, <1>5 DEF StoreFail, StoreTypeOK, Row
  <1>6. CASE StoreResetDraftToActive \/ UNCHANGED storeVars
    BY <1>6 DEF StoreResetDraftToActive, storeVars
  <1>7. QED
    BY <1>3, <1>4, <1>5, <1>6

LEMMA ApplyStepMaps ==
    ASSUME Typed, StoreInv, Decided, StorageWorks, ApplyStep
    PROVE  [Atomic!Next]_(Atomic!avars)
  <1>1. phase # "free"
    BY DEF ApplyStep, SaveCandidate, AnnounceCandidate, PrepareCandidate, SwapRuntime,
       ActivateCandidate, RollBackRuntime, MarkFailed, ResetDraft, Publish, Prune, Tidy
  <1>2. ASSUME NEW p, Continue(p), rows'[activeId'].input = rows[activeId].input,
               verdict' = verdict \/ (verdict = "none" /\ verdict' = "failed")
        PROVE  UNCHANGED Atomic!avars
    <2>1. TookEffect' = TookEffect
      BY <1>2 DEF Continue, TookEffect
    <2>2. QED
      BY <1>2, <2>1, Stutters DEF Continue
  <1>3. CASE SaveCandidate
    <2>1. verdict = "none" /\ rows'[activeId'].input = rows[activeId].input
      BY <1>3, InputKept DEF SaveCandidate, StoreInv, Locals
    <2>2. QED
      BY <1>1, <1>2, <1>3, <2>1, ReturnMaps DEF SaveCandidate
  <1>4. CASE AnnounceCandidate
    BY <1>2, <1>4, InputKept DEF AnnounceCandidate
  <1>5. CASE PrepareCandidate
    <2>1. verdict = "none"
      BY <1>5 DEF PrepareCandidate, StoreInv, Locals
    <2>2. QED
      BY <1>2, <1>5, <2>1, InputKept DEF PrepareCandidate
  <1>6. CASE SwapRuntime
    <2>1. verdict = "none"
      BY <1>6 DEF SwapRuntime, StoreInv, Locals
    <2>2. QED
      BY <1>2, <1>6, <2>1, InputKept DEF SwapRuntime
  <1>7. CASE ActivateCandidate
    BY <1>7, ActivateMaps
  <1>8. CASE RollBackRuntime
    BY <1>2, <1>8, InputKept DEF RollBackRuntime
  <1>9. CASE MarkFailed
    BY <1>2, <1>9, InputKept DEF MarkFailed
  <1>10. CASE ResetDraft
    <2>1. \E p : Continue(p) /\ StoreResetDraftToActive /\ verdict' = verdict
      BY <1>10 DEF ResetDraft, StorageWorks
    <2>2. QED
      BY <1>2, <2>1, InputKept
  <1>11. CASE Publish
    <2>1. CASE verdict = "unchanged"
      BY <1>1, <1>11, <2>1, InputKept, ReturnMaps DEF Publish
    <2>2. CASE verdict # "unchanged"
      BY <1>2, <1>11, <2>2, InputKept DEF Publish
    <2>3. QED
      BY <2>1, <2>2
  <1>12. CASE Prune
    <2>1. \E p : Continue(p) /\ StorePruneRevisions /\ verdict' = verdict
      BY <1>12 DEF Prune, StorageWorks
    <2>2. QED
      BY <1>2, <2>1, InputKept
  <1>13. CASE Tidy
    <2>1. /\ UNCHANGED storeVars
          /\ \/ Return(verdict) /\ verdict # "unchanged"
             \/ \E p : Continue(p) /\ verdict' = verdict
      BY <1>13 DEF Tidy, StorageWorks
    <2>2. verdict \in {"unchanged", "changed", "failed"}
      BY <1>13 DEF Tidy, Decided, Typed, TypeOK, Verdicts
    <2>3. QED
      BY <1>1, <1>2, <2>1, <2>2, InputKept, ReturnMaps
  <1>14. QED
    BY <1>3, <1>4, <1>5, <1>6, <1>7, <1>8, <1>9, <1>10, <1>11, <1>12, <1>13 DEF ApplyStep

(* Starts, ends and imports.                                               *)
LEMMA OthersMap ==
    ASSUME Typed, StoreInv,
           \/ BootStep \/ BootFails \/ ChildExits \/ WatchReports \/ ExitOnFatal \/ Crash
           \/ UNCHANGED vars
           \/ \E c \in Clis : SetDraft(c) \/ \E b \in Inputs : SaveDraft(c, b)
    PROVE  [Atomic!Next]_(Atomic!avars)
  <1>1. ASSUME UNCHANGED <<lock, verdict, req, result>>,
               rows'[activeId'].input = rows[activeId].input
        PROVE  UNCHANGED Atomic!avars
    BY <1>1, Stutters DEF TookEffect
  <1>2. CASE BootStep
    <2>1. UNCHANGED callVars
      BY <1>2 DEF BootStep, BootRead, BootPrune, BootTidy, BootPrepare, BootStart
    <2>2. StoreResetDraftToActive \/ StorePruneRevisions \/ UNCHANGED storeVars
      BY <1>2 DEF BootStep, BootRead, BootPrune, BootTidy, BootPrepare, BootStart
    <2>3. QED
      BY <1>1, <2>1, <2>2, InputKept DEF callVars
  <1>3. CASE BootFails \/ ExitOnFatal \/ Crash
    <2>1. Die
      BY <1>3 DEF BootFails, ExitOnFatal, Crash
    <2>2. TookEffect' = [x \in Appliers |-> FALSE]
      BY <2>1, CallersAssumption DEF Die, TookEffect
    <2>3. Atomic!Restart
      BY <2>1, <2>2, InputKept DEF Die, Atomic!Restart
    <2>4. QED
      BY <2>3 DEF Atomic!Next
  <1>4. CASE ChildExits \/ WatchReports \/ UNCHANGED vars
    BY <1>1, <1>4, InputKept DEF ChildExits, WatchReports, vars, callVars
  <1>5. ASSUME NEW c \in Clis, SetDraft(c) PROVE UNCHANGED Atomic!avars
    BY <1>1, <1>5, InputKept DEF SetDraft
  <1>6. ASSUME NEW c \in Clis, NEW b \in Inputs, SaveDraft(c, b) PROVE UNCHANGED Atomic!avars
    BY <1>1, <1>6, InputKept DEF SaveDraft
  <1>7. QED
    BY <1>2, <1>3, <1>4, <1>5, <1>6

(* With storage that works, callers of ApplyBundle cannot tell it from one *)
(* register that their calls replace one at a time: whatever imports,      *)
(* failures of the runtime, rollbacks, crashes and restarts come between.  *)
THEOREM AppliesAreAtomic ==
    ASSUME StorageWorks
    PROVE  Spec => ApplyIsAtomic
  <1>1. Init => Atomic!Init /\ Decided
    <2> SUFFICES ASSUME Init PROVE Atomic!Init /\ Decided
      OBVIOUS
    <2>1. rows[activeId].input \in Inputs
      BY InitTypeOK DEF TypeOK, StoreTypeOK, Row
    <2>2. TookEffect = [a \in Appliers |-> FALSE]
      BY CallersAssumption DEF Init, TookEffect
    <2>3. QED
      BY <2>1, <2>2 DEF Init, Atomic!Init, Decided
  <1>2. Typed /\ StoreInv /\ Decided /\ [Next]_vars => Decided'
    BY DecidedStep
  <1>3. Typed /\ StoreInv /\ Decided /\ [Next]_vars => [Atomic!Next]_(Atomic!avars)
    BY CallMaps, RefuseMaps, LockMaps, ApplyStepMaps, OthersMap DEF Next
  <1>4. QED
    BY <1>1, <1>2, <1>3, StoreCorrect, PTL DEF Spec, ApplyIsAtomic, Atomic!Spec

=============================================================================
