---------------------------- MODULE ConfigService ----------------------------
(***************************************************************************)
(* How a configuration comes into force: internal/service over the store,  *)
(* with the supervisor and the daemon's start and stop around it.          *)
(*                                                                         *)
(* ApplyBundle holds applyMu for its whole run, so there is one call at a  *)
(* time past Lock and its locals (cand, base, verdict) are kept once, with *)
(* `phase` as its program counter.  SaveDraft (`5gws import`, PUT draft)   *)
(* does not take applyMu: it interleaves with every step of an apply.      *)
(* Every call the code makes to SQLite, to the revision trees on disk, to  *)
(* the supervisor and to the cache under stateMu is a step of its own, and *)
(* the process can die between any two of them.                            *)
(*                                                                         *)
(* The supervisor is seen through what Apply, Boot and Fatal promise: the  *)
(* revision of its current group, whether that group is running, and a     *)
(* pending fatal report.  Module Supervisor models its inside.             *)
(***************************************************************************)
EXTENDS RevisionStore

CONSTANTS
    Appliers,           \* concurrent callers of ApplyBundle and Apply
    Clis,               \* concurrent callers of SaveDraft
    NoOne,              \* applyMu is free
    NoInput,            \* a caller with no request outstanding
    MaxRequests,        \* bound: requests made in one behaviour
    Faults              \* the kinds of failure this instance lets happen

FaultKinds == {"resolve",   \* validation, an import or a store error before saving
               "store",     \* a statement fails and changes nothing
               "reread",    \* the read after a committed change fails
               "prepare",   \* rendering or a check of the candidate's tree fails
               "tidy",      \* removing old trees fails part way
               "swap",      \* the new group fails, the previous one is restored
               "fatal",     \* the supervisor cannot restore or cannot stop a group
               "child",     \* a managed process exits
               "boot",      \* a step of the daemon's start fails
               "crash"}     \* the daemon is killed, or stopped by a signal

ASSUME CallersAssumption ==
    /\ NoOne \notin Appliers
    /\ NoInput \notin Inputs
    /\ Inputs # {}

ASSUME BoundsAssumption ==
    /\ MaxRequests \in Nat
    /\ Faults \subseteq FaultKinds

VARIABLES
    cacheActive,        \* Service.active, 0 while the daemon is down
    cacheDraft,         \* Service.draft, 0 while the daemon is down
    built,              \* revisions whose tree on disk passed the three checks
    current,            \* revision of the supervisor's current group
    alive,              \* that group is running
    fatal,              \* a report waits in the supervisor's fatal channel
    daemon,             \* where Run is
    lock,               \* holder of applyMu
    phase,              \* where the holder is in ApplyBundle
    req,                \* each caller's bundle
    result,             \* each caller's last answer
    base, cand,         \* ApplyBundle: the active revision it found, its candidate
    verdict,            \* what ApplyBundle is going to answer
    saved,              \* SaveDraft between store and cache: the revision saved
    requests,           \* requests made so far
    lapses              \* history: how an apply came apart since the last change

processVars == <<cacheActive, cacheDraft, current, alive, fatal, daemon>>
callVars    == <<lock, phase, req, result, base, cand, verdict, saved, requests>>
vars == <<storeVars, built, processVars, callVars, lapses>>

Phases == {"free", "save", "announce", "prepare", "swap", "activate",
           "rollback", "fail", "reset", "publish", "prune", "tidy"}
DaemonStates == {"down", "prune", "tidy", "prepare", "start", "up"}
Verdicts == {"none", "unchanged", "changed", "failed"}

(* The two failures after which runtime and store may tell of different    *)
(* revisions: Activate committed and reported an error all the same, so    *)
(* its apply goes on to roll the runtime back; and the supervisor's Apply  *)
(* of a rollback reported an error.                                        *)
Lapses == {"committed", "unrestored"}

Up == daemon = "up"

Idle(a) == req[a] = NoInput

-----------------------------------------------------------------------------
(* An installed system whose daemon is not running yet.                    *)
Init ==
    /\ StoreInit
    /\ cacheActive = 0 /\ cacheDraft = 0
    /\ built = {}
    /\ current = 0 /\ alive = FALSE /\ fatal = FALSE
    /\ daemon = "down"
    /\ lock = NoOne /\ phase = "free"
    /\ req = [a \in Appliers |-> NoInput]
    /\ result = [a \in Appliers |-> "none"]
    /\ base = 0 /\ cand = 0 /\ verdict = "none"
    /\ saved = [c \in Clis |-> 0]
    /\ requests = 0
    /\ lapses = {}

-----------------------------------------------------------------------------
(* daemon.Run up to the servers.  Nothing else writes the database until   *)
(* it is up.                                                               *)

(* Active, Draft, and the reset of a draft that failed or asks nothing new *)
BootRead ==
    /\ daemon = "down"
    /\ IF \/ rows[draftId].status = "failed"
          \/ SameInput(activeId, rows[draftId].input)
       THEN StoreResetDraftToActive
       ELSE UNCHANGED storeVars
    /\ daemon' = "prune"
    /\ UNCHANGED <<built, cacheActive, cacheDraft, current, alive, fatal,
                   callVars, lapses>>

BootPrune ==
    /\ daemon = "prune"
    /\ StorePruneRevisions
    /\ daemon' = "tidy"
    /\ UNCHANGED <<built, cacheActive, cacheDraft, current, alive, fatal,
                   callVars, lapses>>

BootTidy ==
    /\ daemon = "tidy"
    /\ built' = built \cap {activeId, draftId}
    /\ daemon' = "prepare"
    /\ UNCHANGED <<storeVars, cacheActive, cacheDraft, current, alive, fatal,
                   callVars, lapses>>

BootPrepare ==
    /\ daemon = "prepare"
    /\ built' = built \cup {activeId}
    /\ daemon' = "start"
    /\ UNCHANGED <<storeVars, cacheActive, cacheDraft, current, alive, fatal,
                   callVars, lapses>>

(* supervisor.Boot, then service.New with the two revisions read above.    *)
BootStart ==
    /\ daemon = "start"
    /\ current' = activeId /\ alive' = TRUE
    /\ cacheActive' = activeId /\ cacheDraft' = draftId
    /\ daemon' = "up"
    /\ lapses' = {}
    /\ UNCHANGED <<storeVars, built, fatal, callVars>>

(* The process is gone with everything in memory; the control group takes  *)
(* the managed processes with it.                                          *)
Die ==
    /\ daemon' = "down"
    /\ cacheActive' = 0 /\ cacheDraft' = 0
    /\ current' = 0 /\ alive' = FALSE /\ fatal' = FALSE
    /\ lock' = NoOne /\ phase' = "free"
    /\ req' = [a \in Appliers |-> NoInput]
    /\ result' = [a \in Appliers |-> "none"]
    /\ base' = 0 /\ cand' = 0 /\ verdict' = "none"
    /\ saved' = [c \in Clis |-> 0]
    /\ lapses' = {}
    /\ UNCHANGED <<storeVars, requests>>

(* A failing step of the start ends the process: the cleanup may have      *)
(* removed some trees, prepareAt removes the tree it is about to write.    *)
BootFails ==
    /\ "boot" \in Faults
    /\ \/ daemon = "tidy" /\ \E gone \in SUBSET (built \ {activeId, draftId}) :
                                 built' = built \ gone
       \/ daemon = "prepare" /\ built' = built \ {activeId}
       \/ daemon \in {"prune", "start"} /\ built' = built
    /\ Die

(* Mutant: Run logs the report and goes on.                                *)
LogFatal ==
    /\ Up /\ fatal
    /\ fatal' = FALSE
    /\ UNCHANGED <<storeVars, built, cacheActive, cacheDraft, current, alive,
                   daemon, callVars, lapses>>

(* Run returns the supervisor's report; an apply in flight may still take  *)
(* steps until the process is gone.                                        *)
ExitOnFatal ==
    /\ Up /\ fatal
    /\ Die
    /\ UNCHANGED built

Crash ==
    /\ "crash" \in Faults
    /\ daemon # "down"
    /\ Die
    /\ UNCHANGED built

-----------------------------------------------------------------------------
(* The supervisor between applies.                                         *)

ChildExits ==
    /\ "child" \in Faults
    /\ Up /\ alive
    /\ alive' = FALSE
    /\ UNCHANGED <<storeVars, built, cacheActive, cacheDraft, current, fatal,
                   daemon, callVars, lapses>>

(* watch: it needs the supervisor's lock, which an Apply in progress holds *)
(* until it has put another group in place.                                *)
WatchReports ==
    /\ Up /\ ~alive /\ ~fatal
    /\ fatal' = TRUE
    /\ UNCHANGED <<storeVars, built, cacheActive, cacheDraft, current, alive,
                   daemon, callVars, lapses>>

(* supervisor.Apply of revision r: it is running, or the previous group is *)
(* back, or the supervisor gave up.  Both need the tree they start from.   *)
Replaced(r) ==
    /\ r \in built
    /\ current' = r /\ alive' = TRUE
    /\ UNCHANGED fatal

(* Mutant: a failing swap leaves the supervisor on the group it started.   *)
NotRestored ==
    /\ "swap" \in Faults
    /\ current' = cand /\ alive' = TRUE
    /\ UNCHANGED fatal

Restored ==
    /\ "swap" \in Faults
    /\ current \in built
    /\ alive' = TRUE
    /\ UNCHANGED <<current, fatal>>

GaveUp(r) ==
    /\ \/ "fatal" \in Faults
       \/ "swap" \in Faults /\ current \notin built
       \/ r \notin built /\ current \notin built
    /\ alive' = FALSE /\ fatal' = TRUE
    /\ UNCHANGED current

-----------------------------------------------------------------------------
(* SaveDraft: the row, then the cached copy.                               *)

SaveDraft(c, b) ==
    /\ Up /\ saved[c] = 0
    /\ requests < MaxRequests
    /\ StoreSaveDraft(b, FALSE)
    /\ saved' = [saved EXCEPT ![c] = nextId]
    /\ requests' = requests + 1
    /\ UNCHANGED <<built, processVars, lock, phase, req, result, base, cand,
                   verdict, lapses>>

SetDraft(c) ==
    /\ saved[c] # 0
    /\ cacheDraft' = saved[c]
    /\ saved' = [saved EXCEPT ![c] = 0]
    /\ UNCHANGED <<storeVars, built, cacheActive, current, alive, fatal, daemon,
                   lock, phase, req, result, base, cand, verdict, requests, lapses>>

-----------------------------------------------------------------------------
(* A call arrives: with its bundle, or with the draft Apply reads before   *)
(* it takes applyMu.                                                       *)
Call(a, b) ==
    /\ Up /\ Idle(a)
    /\ requests < MaxRequests
    /\ req' = [req EXCEPT ![a] = b]
    /\ result' = [result EXCEPT ![a] = "none"]
    /\ requests' = requests + 1
    /\ UNCHANGED <<storeVars, built, processVars, lock, phase, base, cand,
                   verdict, saved, lapses>>

CallApplyBundle(a) == \E b \in Inputs : Call(a, b)

CallApply(a) == Call(a, rows[draftId].input)

(* Reading the active revision or ValidateManaged fails.                   *)
Refuse(a) ==
    /\ "resolve" \in Faults
    /\ ~Idle(a) /\ lock = NoOne
    /\ req' = [req EXCEPT ![a] = NoInput]
    /\ result' = [result EXCEPT ![a] = "failed"]
    /\ UNCHANGED <<storeVars, built, processVars, lock, phase, base, cand,
                   verdict, saved, requests, lapses>>

(* Mutant: the bundle is compared with the draft.                          *)
NothingToDoForDraft(b) == SameInput(draftId, b)

(* The bundle asks for what is in force, resolved as it would be now.      *)
NothingToDo(b) == SameInput(activeId, b) /\ rows[activeId].current

Lock(a) ==
    /\ ~Idle(a) /\ lock = NoOne
    /\ lock' = a
    /\ base' = activeId
    /\ IF NothingToDo(req[a])
       THEN phase' = "reset" /\ verdict' = "unchanged"
       ELSE phase' = "save" /\ verdict' = "none"
    /\ UNCHANGED <<storeVars, built, processVars, req, result, cand, saved,
                   requests, lapses>>

(* Mutant: a return that leaves applyMu locked.                            *)
ReturnLocked(r) ==
    /\ UNCHANGED lock /\ phase' = "free"
    /\ req' = [req EXCEPT ![lock] = NoInput]
    /\ result' = [result EXCEPT ![lock] = r]
    /\ base' = 0 /\ cand' = 0 /\ verdict' = "none"
    /\ UNCHANGED <<saved, requests>>

(* ApplyBundle returns r and releases applyMu.                             *)
Return(r) ==
    /\ lock' = NoOne /\ phase' = "free"
    /\ req' = [req EXCEPT ![lock] = NoInput]
    /\ result' = [result EXCEPT ![lock] = r]
    /\ base' = 0 /\ cand' = 0 /\ verdict' = "none"
    /\ UNCHANGED <<saved, requests>>

(* The holder goes on to phase p; its other locals stay.                   *)
Continue(p) ==
    /\ phase' = p
    /\ UNCHANGED <<lock, req, result, base, saved, requests>>

-----------------------------------------------------------------------------
(* The phases of ApplyBundle.                                              *)

(* Mutant: the bundle is saved as it came, without its resolved rules.     *)
SaveUnresolved ==
    /\ phase = "save"
    /\ StoreSaveDraft(req[lock], FALSE)
    /\ cand' = nextId
    /\ Continue("announce")
    /\ UNCHANGED <<verdict, built, processVars, lapses>>

SaveCandidate ==
    /\ phase = "save"
    /\ \/ /\ StoreSaveDraft(req[lock], TRUE)
          /\ cand' = nextId
          /\ Continue("announce")
          /\ UNCHANGED verdict
       \/ /\ "resolve" \in Faults
          /\ Return("failed")
          /\ UNCHANGED storeVars
    /\ UNCHANGED <<built, processVars, lapses>>

AnnounceCandidate ==
    /\ phase = "announce"
    /\ cacheDraft' = cand
    /\ Continue("prepare")
    /\ UNCHANGED <<storeVars, built, cacheActive, current, alive, fatal, daemon,
                   cand, verdict, lapses>>

(* Mutant: the older trees are cleared before the candidate's is written.  *)
PrepareAlone ==
    /\ phase = "prepare"
    /\ built' = {cand}
    /\ Continue("swap")
    /\ UNCHANGED <<storeVars, processVars, cand, verdict, lapses>>

PrepareCandidate ==
    /\ phase = "prepare"
    /\ \/ /\ built' = built \cup {cand}
          /\ Continue("swap")
          /\ UNCHANGED verdict
       \/ /\ "prepare" \in Faults
          /\ built' = built \ {cand}
          /\ Continue("fail")
          /\ verdict' = "failed"
    /\ UNCHANGED <<storeVars, processVars, cand, lapses>>

SwapRuntime ==
    /\ phase = "swap"
    /\ \/ /\ Replaced(cand)
          /\ Continue("activate")
          /\ UNCHANGED verdict
       \/ /\ Restored \/ GaveUp(cand)
          /\ Continue("fail")
          /\ verdict' = "failed"
    /\ UNCHANGED <<storeVars, built, cacheActive, cacheDraft, daemon, cand, lapses>>

(* Mutant: a failing activation is reported without a rollback.            *)
ActivateWithoutRollback ==
    /\ phase = "activate"
    /\ \/ /\ StoreActivate(cand)
          /\ Continue("publish")
          /\ verdict' = "changed"
       \/ /\ "store" \in Faults /\ UNCHANGED storeVars
          /\ Continue("reset")
          /\ verdict' = "failed"
    /\ UNCHANGED <<built, processVars, cand, lapses>>

(* The error of Activate does not tell whether its transaction committed.  *)
ActivateCandidate ==
    /\ phase = "activate"
    /\ \/ /\ StoreActivate(cand)
          /\ Continue("publish")
          /\ verdict' = "changed"
          /\ UNCHANGED lapses
       \/ /\ \/ "store" \in Faults /\ UNCHANGED <<storeVars, lapses>>
             \/ /\ "reread" \in Faults /\ StoreActivate(cand)
                /\ lapses' = lapses \cup {"committed"}
          /\ Continue("rollback")
          /\ verdict' = "failed"
    /\ UNCHANGED <<built, processVars, cand>>

(* Mutant: a rollback hands the supervisor the candidate's tree again.     *)
RollBackToCandidate ==
    /\ phase = "rollback"
    /\ \/ Replaced(cand) /\ UNCHANGED lapses
       \/ (Restored \/ GaveUp(cand)) /\ lapses' = lapses \cup {"unrestored"}
    /\ Continue("reset")
    /\ UNCHANGED <<storeVars, built, cacheActive, cacheDraft, daemon, cand, verdict>>

RollBackRuntime ==
    /\ phase = "rollback"
    /\ \/ Replaced(base) /\ UNCHANGED lapses
       \/ (Restored \/ GaveUp(base)) /\ lapses' = lapses \cup {"unrestored"}
    /\ Continue("reset")
    /\ UNCHANGED <<storeVars, built, cacheActive, cacheDraft, daemon, cand, verdict>>

(* The error of Fail is only reported.                                     *)
MarkFailed ==
    /\ phase = "fail"
    /\ \/ StoreFail(cand)
       \/ "store" \in Faults /\ UNCHANGED storeVars
    /\ Continue("reset")
    /\ UNCHANGED <<built, processVars, cand, verdict, lapses>>

ResetDraft ==
    /\ phase = "reset"
    /\ \/ /\ StoreResetDraftToActive
          /\ Continue(IF verdict = "unchanged" THEN "prune" ELSE "publish")
          /\ UNCHANGED <<cand, verdict>>
       \/ /\ \/ "store" \in Faults /\ UNCHANGED storeVars
             \/ "reread" \in Faults /\ StoreResetDraftToActive
          /\ Return("failed")
    /\ UNCHANGED <<built, processVars, lapses>>

(* setActiveAndDraft with the active revision just read.  It ends an apply *)
(* that changes nothing and comes before the cleanup of one that does.     *)
Publish ==
    /\ phase = "publish"
    /\ cacheActive' = activeId /\ cacheDraft' = activeId
    /\ IF verdict = "unchanged"
       THEN Return("unchanged")
       ELSE Continue("prune") /\ UNCHANGED <<cand, verdict>>
    /\ lapses' = IF verdict = "changed" THEN {} ELSE lapses
    /\ UNCHANGED <<storeVars, built, current, alive, fatal, daemon>>

Prune ==
    /\ phase = "prune"
    /\ \/ /\ StorePruneRevisions
          /\ Continue("tidy")
          /\ UNCHANGED <<cand, verdict>>
       \/ /\ "store" \in Faults
          /\ Return("failed")
          /\ UNCHANGED storeVars
    /\ UNCHANGED <<built, processVars, lapses>>

(* Mutant: the cleanup keeps the tree of the draft pointer.                *)
TreesOfDraft == {draftId}

(* The trees PruneRevisionDirs is told to keep.                            *)
TreesToKeep == {activeId}

(* PruneRevisionDirs can fail after any of the other trees has been        *)
(* removed.                                                                *)
Tidy ==
    /\ phase = "tidy"
    /\ \/ /\ built' = built \cap TreesToKeep
          /\ IF verdict = "unchanged"
             THEN Continue("publish") /\ UNCHANGED <<cand, verdict>>
             ELSE Return(verdict)
       \/ /\ "tidy" \in Faults
          /\ \E kept \in SUBSET (built \ TreesToKeep) :
                built' = kept \cup (built \cap TreesToKeep)
          /\ Return("failed")
    /\ UNCHANGED <<storeVars, processVars, lapses>>

-----------------------------------------------------------------------------
ApplyStep ==
    \/ SaveCandidate
    \/ AnnounceCandidate
    \/ PrepareCandidate
    \/ SwapRuntime
    \/ ActivateCandidate
    \/ RollBackRuntime
    \/ MarkFailed
    \/ ResetDraft
    \/ Publish
    \/ Prune
    \/ Tidy

BootStep ==
    \/ BootRead
    \/ BootPrune
    \/ BootTidy
    \/ BootPrepare
    \/ BootStart

Next ==
    \/ \E a \in Appliers : CallApplyBundle(a) \/ CallApply(a) \/ Refuse(a) \/ Lock(a)
    \/ \E c \in Clis : SetDraft(c) \/ \E b \in Inputs : SaveDraft(c, b)
    \/ ApplyStep
    \/ BootStep \/ BootFails
    \/ ChildExits \/ WatchReports
    \/ ExitOnFatal \/ Crash

Spec == Init /\ [][Next]_vars

(* Every step of an apply and of the start has a timeout or waits for      *)
(* nothing; a handler that saved a draft goes on to cache it; the watcher  *)
(* and Run's select take what is ready.  sync.Mutex hands itself to a      *)
(* caller that keeps waiting, hence the strong fairness of Lock; systemd   *)
(* restarts the daemon (Restart=on-failure).                               *)
Fairness ==
    /\ WF_vars(ApplyStep)
    /\ WF_vars(BootStep)
    /\ WF_vars(WatchReports)
    /\ WF_vars(ExitOnFatal)
    /\ \A c \in Clis : WF_vars(SetDraft(c))
    /\ \A a \in Appliers : SF_vars(Lock(a))

FairSpec == Spec /\ Fairness

-----------------------------------------------------------------------------
TypeOK ==
    /\ StoreTypeOK
    /\ cacheActive \in Nat /\ cacheDraft \in Nat
    /\ built \subseteq Nat
    /\ current \in Nat /\ alive \in BOOLEAN /\ fatal \in BOOLEAN
    /\ daemon \in DaemonStates
    /\ lock \in Appliers \cup {NoOne} /\ phase \in Phases
    /\ req \in [Appliers -> Inputs \cup {NoInput}]
    /\ result \in [Appliers -> Verdicts]
    /\ base \in Nat /\ cand \in Nat /\ verdict \in Verdicts
    /\ saved \in [Clis -> Nat]
    /\ requests \in Nat
    /\ lapses \subseteq Lapses

(* Exactly the active pointer's row has status 'active': the two records   *)
(* of what is in force, the column and the pointer, agree whatever         *)
(* imports, failed applies, prunes and crashes come between.               *)
OneActiveRevision ==
    {r \in DOMAIN rows : rows[r].status = "active"} = {activeId}

(* The candidate of an apply outlives every concurrent import: Activate    *)
(* and Fail find their row, although SaveDraft moves the only pointer to   *)
(* it and runs without applyMu.                                            *)
CandidateSurvives ==
    phase \in {"announce", "prepare", "swap", "activate", "rollback", "fail"} =>
        /\ cand \in DOMAIN rows
        /\ rows[cand].input = req[lock]

(* Outside the window between the runtime's switch and the commit, the     *)
(* supervisor's group is the active revision, also after a failed apply.   *)
RunningIsActive ==
    Up /\ phase \notin {"activate", "rollback"} /\ lapses = {} => current = activeId

(* The tree the supervisor would restore from is never cleaned up while    *)
(* its group is the current one.                                           *)
RestoreTreeKept == Up /\ lapses = {} => current \in built

(* The revision an apply started from can be brought back as long as the   *)
(* apply may still have to: its tree is complete on disk.                  *)
RollbackTreeKept ==
    phase \in {"prepare", "swap", "activate", "rollback"} =>
        base \in built /\ base # cand

(* What a restore or a rollback starts from is on disk: PruneRevisionDirs, *)
(* which knows revisions by number only, never takes it away.              *)
TreesKept == RestoreTreeKept /\ RollbackTreeKept

(* Between applies the panel's active revision is the stored one.          *)
CachedActiveCurrent ==
    Up /\ lock = NoOne /\ lapses = {} => cacheActive = activeId

(* The active pointer moves only to a revision whose group is the current  *)
(* one: what a restart would boot has been seen running first.             *)
CommitsOnlyWhatRuns == [][activeId' # activeId => current = activeId']_vars

(* The runtime is never switched for a bundle that asks for what is        *)
(* already in force (README: an apply without a change restarts nothing).  *)
SwitchesOnlyForChange ==
    [][phase = "swap" /\ phase' \in {"activate", "fail"} => ~NothingToDo(req[lock])]_vars

(* An apply answered "changed" is in force, stored and shown: no other     *)
(* apply or import can have replaced it by the time it returns.            *)
ChangedIsInForce ==
    [][\A a \in Appliers : result'[a] = "changed" /\ result[a] # "changed" =>
          /\ current = activeId /\ cacheActive = activeId
          /\ rows[activeId].input = req[a] /\ rows[activeId].current]_vars

(* An apply that fails leaves the active revision as it found it, unless   *)
(* its Activate reported an error after it had committed; and it leaves    *)
(* the running group as it found it too, unless moreover the supervisor    *)
(* reported that a rollback failed.  Either failure counts until the next  *)
(* change is published or the daemon starts anew.  What a rollback that    *)
(* succeeds brings back is the code's doing: the property says it is the   *)
(* revision the apply began with.                                          *)
FailedApplyUndone ==
    [][lock # NoOne /\ phase' = "free" /\ daemon' = "up" /\ verdict = "failed" =>
          /\ "committed" \notin lapses => activeId = base
          /\ lapses = {} => current = base]_vars

(* Every call is answered, or its daemon dies.                             *)
CallsReturn == \A a \in Appliers : ~Idle(a) ~> Idle(a)

(* A group that stopped running is replaced, if need be by a restart,      *)
(* unless the machine goes on crashing or the start goes on failing.       *)
RuntimeRecovers ==
    \/ Up /\ ~alive ~> Up /\ alive
    \/ []<><<Crash \/ BootFails>>_vars

(* A call has taken effect once it has committed, or found at Lock that    *)
(* its bundle is in force already.                                         *)
TookEffect == [a \in Appliers |-> lock = a /\ verdict \in {"unchanged", "changed"}]

Atomic == INSTANCE AtomicApply WITH
    Callers <- Appliers, config <- rows[activeId].input,
    asked <- req, took <- TookEffect, answer <- result

(* SQLite and file removal do not fail.                                    *)
StorageWorks == Faults \cap {"store", "reread", "tidy"} = {}

(* While StorageWorks, ApplyBundle implements the atomic register:         *)
(* interleaved imports, runtime failures, rollbacks, crashes and restarts  *)
(* never show a caller anything else.                                      *)
ApplyIsAtomic == Atomic!Spec

-----------------------------------------------------------------------------
(* The strengthening that makes the safety properties inductive.           *)

(* AUTOINCREMENT never hands out a key again, not even that of a deleted   *)
(* row, so a new candidate's tree cannot be one that is still needed.      *)
FreshKeys ==
    /\ \A r \in DOMAIN rows : r < nextId
    /\ \A r \in built : r < nextId

OnlyUpApplies == ~Up => lock = NoOne /\ \A a \in Appliers : Idle(a)

(* What the locals of ApplyBundle say of the store.                        *)
Locals ==
    /\ phase \in {"save", "announce", "prepare", "swap", "activate", "fail"} =>
          base = activeId
    /\ phase \in {"announce", "prepare", "swap", "activate", "rollback", "fail"} =>
          /\ cand \in DOMAIN rows /\ cand # base
          /\ rows[cand].input = req[lock] /\ rows[cand].current
    /\ phase = "rollback" => activeId \in {base, cand}
    /\ phase \in {"save", "announce", "prepare", "swap", "activate"} =>
          verdict = "none" /\ ~NothingToDo(req[lock])
    /\ phase \in {"rollback", "fail"} => verdict = "failed"

StoreInv == FreshKeys /\ OnlyUpApplies /\ OneActiveRevision /\ Locals

(* What they say of the runtime and of the trees on disk.                  *)
ActiveTreeKept == daemon \in {"start", "up"} => activeId \in built

Trees ==
    /\ phase \in {"swap", "activate", "rollback"} => cand \in built
    /\ phase = "rollback" => base \in built
    /\ phase \in {"activate", "rollback"} => current = cand

Outcome ==
    /\ phase = "free" => verdict = "none"
    /\ verdict = "changed" =>
          /\ phase \in {"publish", "prune", "tidy"}
          /\ current = activeId
          /\ rows[activeId].input = req[lock] /\ rows[activeId].current
          /\ phase # "publish" => cacheActive = activeId
    /\ verdict = "failed" /\ "committed" \notin lapses => activeId = base

Shown ==
    /\ Up /\ lapses = {} /\ phase \notin {"publish", "rollback"} => cacheActive = activeId
    /\ phase = "rollback" /\ lapses = {} => cacheActive = base

(* Nothing is cleaned up and answered before the outcome is known.         *)
Decided == phase \in {"reset", "publish", "prune", "tidy"} => verdict # "none"

RuntimeInv ==
    /\ ActiveTreeKept /\ Trees /\ Outcome /\ Shown
    /\ RunningIsActive /\ RestoreTreeKept

-----------------------------------------------------------------------------
(* internal/app/app.go:84 and :86, an import stays pending until an apply  *)
(* activates it: the draft pointer leaves an imported bundle only for      *)
(* another import or for the candidate of an apply of that bundle.         *)
Pending(id) == ~rows[id].current /\ rows[id].status = "draft"

ImportStaysPending ==
    [][(Pending(draftId) /\ draftId' # draftId /\ lock # NoOne) =>
          \/ Pending(draftId)'
          \/ req[lock] = rows[draftId].input]_vars

=============================================================================
