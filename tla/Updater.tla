------------------------------- MODULE Updater -------------------------------
(***************************************************************************)
(* The self-update of the daemon: internal/updater with the parts of       *)
(* internal/daemon and internal/api that drive it.  An update saves the    *)
(* binary, records that it is pending and replaces the binary; a second    *)
(* later the service restarts.  A version that has run for five seconds    *)
(* confirms; one whose Run returns an error puts the saved binary back.    *)
(*                                                                         *)
(* A binary is its version.  One update request runs at a time, as the     *)
(* panel's busy flag has it.                                               *)
(***************************************************************************)
EXTENDS Naturals

CONSTANTS
    Versions,           \* releases, later ones greater
    First,              \* the one that is installed
    Broken,             \* releases whose Run returns an error, rollback included
    NoVersion, Torn,    \* no version; a record that writePending left incomplete
    MaxUpdates,         \* bound: updates
    MaxFaults           \* bound: failures of other releases, deaths, failed copies back

ASSUME VersionsAssumption ==
    /\ Versions \subseteq Nat /\ First \in Versions
    /\ NoVersion \notin Versions /\ Torn \notin Versions
    /\ Broken \subseteq Versions \ {First}

ASSUME UpdatesAssumption == MaxUpdates \in Nat /\ MaxFaults \in Nat

VARIABLES
    binary,             \* /usr/local/bin/5gws
    backup,             \* updates/5gws-<version>, by the version in its name
    pending,            \* update-pending.json: the backup it names
    latest,             \* the release that Check finds
    running,            \* the version of the process
    stage,              \* how far Run is
    step,               \* how far Client.Apply is
    leaving,            \* the goroutine that restarts the service is under way
    target,             \* info.Latest of that update
    proven,             \* history: versions that have confirmed
    unquiet,            \* history: an update began before the last one was settled,
                        \* or went on while Run undid it
    updates, faults      \* counters of the bounds

disk == <<binary, backup, pending>>
vars == <<disk, latest, running, stage, step, leaving, target, proven,
                   unquiet, updates, faults>>

Init ==
    /\ binary = First /\ running = First /\ latest = First
    /\ backup = [v \in Versions |-> NoVersion]
    /\ pending = NoVersion
    /\ stage = "confirmed" /\ proven = {First}
    /\ step = "idle" /\ leaving = FALSE /\ target = NoVersion
    /\ unquiet = FALSE /\ updates = 0 /\ faults = 0

-----------------------------------------------------------------------------
(* Client.Apply, in the handler of a request.                              *)

Publish ==
    /\ latest' \in {v \in Versions : v > latest}
    /\ UNCHANGED <<disk, running, stage, step, leaving, target, proven,
                   unquiet, updates, faults>>

Serving == stage \in {"unconfirmed", "confirmed"}

(* When Run returns an error nobody waits for the handlers: an update goes *)
(* on until the process is gone.                                           *)
Handling == Serving \/ stage = "undoing"

GoesOn == Handling /\ unquiet' = (unquiet \/ stage = "undoing")

(* Check, download, verify and the candidate's version command: whatever   *)
(* fails here leaves nothing behind.                                       *)
Verify ==
    /\ Handling /\ step = "idle" /\ latest # running
    /\ updates < MaxUpdates
    /\ updates' = updates + 1
    /\ step' = "verified" /\ target' = latest
    /\ unquiet' = (unquiet \/ stage # "confirmed" \/ binary # running)
    /\ UNCHANGED <<disk, latest, running, stage, leaving, proven, faults>>

(* Mutant: the backup is taken from the candidate.                         *)
SaveCandidate ==
    /\ GoesOn /\ step = "verified"
    /\ step' = "saved" /\ backup' = [backup EXCEPT ![running] = target]
    /\ UNCHANGED <<binary, pending, latest, running, stage, leaving, target, proven,
                   updates, faults>>

(* copyFile(binary, backup), under the name of the version that runs.      *)
Save ==
    /\ GoesOn /\ step = "verified"
    /\ \/ step' = "saved" /\ backup' = [backup EXCEPT ![running] = binary]
       \/ step' = "idle" /\ UNCHANGED backup
    /\ UNCHANGED <<binary, pending, latest, running, stage, leaving, target, proven,
                   updates, faults>>

Record ==
    /\ GoesOn /\ step = "saved"
    /\ \/ step' = "recorded" /\ pending' = running
       \/ step' = "idle" /\ pending' \in {pending, Torn}
    /\ UNCHANGED <<binary, backup, latest, running, stage, leaving, target, proven,
                   updates, faults>>

(* A copy that fails leaves the binary; that the record cannot be removed  *)
(* then is ignored.                                                        *)
Install ==
    /\ GoesOn /\ step = "recorded"
    /\ step' = "idle"
    /\ \/ binary' = target /\ leaving' = TRUE /\ UNCHANGED pending
       \/ pending' \in {NoVersion, pending} /\ UNCHANGED <<binary, leaving>>
    /\ UNCHANGED <<backup, latest, running, stage, target, proven,
                   updates, faults>>

-----------------------------------------------------------------------------
(* Run, and systemd.                                                       *)

ProcessEnds ==
    /\ stage' = "down" /\ running' = NoVersion
    /\ step' = "idle" /\ leaving' = FALSE /\ target' = NoVersion

(* systemctl restart stops the process; Run returns nil.                   *)
Restart ==
    /\ Handling /\ leaving
    /\ ProcessEnds
    /\ UNCHANGED <<disk, latest, proven, unquiet, updates, faults>>

(* The command fails, which is only logged.                                *)
RestartFails ==
    /\ Handling /\ leaving /\ faults < MaxFaults
    /\ faults' = faults + 1
    /\ leaving' = FALSE
    /\ UNCHANGED <<disk, latest, running, stage, step, target, proven, unquiet, updates>>

Start ==
    /\ stage = "down"
    /\ running' = binary /\ stage' = "starting"
    /\ UNCHANGED <<disk, latest, step, leaving, target, proven,
                   unquiet, updates, faults>>

Started ==
    /\ stage = "starting" /\ running \notin Broken
    /\ stage' = "unconfirmed"
    /\ UNCHANGED <<disk, latest, running, step, leaving, target, proven,
                   unquiet, updates, faults>>

(* startup.C: Confirm removes the record, whoever wrote it.                *)
Confirm ==
    /\ stage = "unconfirmed"
    /\ stage' = "confirmed" /\ pending' = NoVersion
    /\ proven' = proven \cup {running}
    /\ UNCHANGED <<binary, backup, latest, running, step, leaving, target, unquiet, updates>>
    /\ UNCHANGED faults

(* Mutant: the deferred rollback runs only for a process that has served.  *)
RollbackServing ==
    IF pending \in Versions /\ Serving
    THEN /\ binary' = backup[pending] /\ stage' = "undoing"
         /\ UNCHANGED <<backup, pending, running, step, leaving, target>>
    ELSE UNCHANGED disk /\ ProcessEnds

(* Without a record there is nothing to do; an unreadable one is an error; *)
(* else the copy back comes first, then the record goes.                   *)
RollbackPending ==
    IF pending \in Versions
    THEN /\ binary' = backup[pending] /\ stage' = "undoing"
         /\ UNCHANGED <<backup, pending, running, step, leaving, target>>
    ELSE UNCHANGED disk /\ ProcessEnds

(* os.Remove of the record, or its failure, which is only reported.        *)
RemoveRecord ==
    /\ stage = "undoing"
    /\ pending' \in {NoVersion, pending}
    /\ ProcessEnds
    /\ UNCHANGED <<binary, backup, latest, proven, unquiet, updates, faults>>

(* A broken release returns its error when it starts, after it has read    *)
(* the active revision.                                                    *)
BrokenRunFails ==
    /\ stage = "starting" /\ running \in Broken
    /\ RollbackPending
    /\ UNCHANGED <<latest, proven, unquiet, updates, faults>>

(* Any release: a fatal report, a stop while it boots, and a rollback      *)
(* whose copy fails.                                                       *)
RunFails ==
    /\ stage \in {"starting", "unconfirmed", "confirmed"} /\ faults < MaxFaults
    /\ faults' = faults + 1
    /\ \/ RollbackPending
       \/ UNCHANGED disk /\ ProcessEnds
    /\ UNCHANGED <<latest, proven, unquiet, updates>>

(* A signal, or systemctl stop while Run serves: no error, no rollback.    *)
Killed ==
    /\ stage # "down" /\ faults < MaxFaults
    /\ faults' = faults + 1
    /\ ProcessEnds
    /\ \/ UNCHANGED pending
       \/ step = "saved" /\ pending' = Torn
    /\ UNCHANGED <<binary, backup, latest, proven, unquiet, updates>>

-----------------------------------------------------------------------------
UpdateStep == Save \/ Record \/ Install \/ Restart
RunStep == Start \/ Started \/ Confirm \/ BrokenRunFails \/ RemoveRecord

Next == Publish \/ Verify \/ RestartFails \/ Killed \/ RunFails \/ UpdateStep \/ RunStep

Spec == Init /\ [][Next]_vars

(* Timers fire, systemd starts what has failed or is being restarted, and  *)
(* a version that cannot run returns its error.                            *)
Fairness == WF_vars(RunStep)

FairSpec == Spec /\ Fairness

-----------------------------------------------------------------------------
TypeOK ==
    /\ binary \in Versions /\ latest \in Versions /\ target \in Versions \cup {NoVersion}
    /\ backup \in [Versions -> Versions \cup {NoVersion}]
    /\ pending \in Versions \cup {NoVersion, Torn}
    /\ stage \in {"down", "starting", "unconfirmed", "confirmed", "undoing"}
    /\ running \in Versions \cup {NoVersion} /\ (running = NoVersion <=> stage = "down")
    /\ step \in {"idle", "verified", "saved", "recorded"} /\ leaving \in BOOLEAN
    /\ proven \subseteq Versions /\ unquiet \in BOOLEAN
    /\ updates \in 0 .. MaxUpdates /\ faults \in 0 .. MaxFaults

(* Whenever the binary on disk has not yet proven itself, there is a       *)
(* record of a saved one that has: the order of Client.Apply's copies and  *)
(* its record, through every failure and death in between.  Two things are *)
(* excluded, by the steps that cause them: updates that begin before the   *)
(* last one is settled, and updates that take a step after a failing Run   *)
(* has copied the saved binary back.                                       *)
WayBack ==
    ~unquiet => binary \in proven \/ (pending \in Versions /\ backup[pending] \in proven)

-----------------------------------------------------------------------------
(* The strengthening that makes WayBack inductive.                         *)

(* A version confirms before it updates, and works on the file it runs;    *)
(* what is copied back has proven itself.                                  *)
Settled ==
    /\ step # "idle" => target \in Versions /\ Handling
    /\ step \in {"saved", "recorded"} => backup[running] \in Versions
    /\ pending \in Versions => backup[pending] \in Versions
    /\ stage = "confirmed" => running \in proven
    /\ ~unquiet =>
          /\ stage \in {"starting", "unconfirmed"} => binary = running /\ step = "idle"
          /\ step # "idle" /\ stage # "undoing" => binary = running
          /\ stage = "undoing" => binary \in proven
          /\ step \in {"saved", "recorded"} => backup[running] \in proven
          /\ step = "recorded" => pending = running
          /\ pending \in Versions => backup[pending] \in proven

UpdaterInv == TypeOK /\ Settled /\ WayBack

-----------------------------------------------------------------------------
(* A release that cannot run is replaced by one that can: the service      *)
(* comes back by itself.                                                   *)
ServiceReturns ==
    stage = "down" ~> (stage = "confirmed" \/ unquiet)

=============================================================================
