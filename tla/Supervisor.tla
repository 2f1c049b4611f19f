------------------------------ MODULE Supervisor ------------------------------
(***************************************************************************)
(* internal/engine/supervisor.go: the groups of managed processes, with    *)
(* the part of daemon.Run that boots, watches and stops them.              *)
(*                                                                         *)
(* Apply and Stop hold `mu` from their first step to their last; a group's *)
(* watcher takes it for one comparison.  The members of a group (smartdns, *)
(* haproxy, one sslocal per Shadowsocks exit, the in-process gateway) each *)
(* have a goroutine that waits for them: a member first exits and is then  *)
(* reaped, and between the two the group may be cancelled, which turns a   *)
(* failure into a planned exit.                                            *)
(*                                                                         *)
(* service.Service calls Apply with one request at a time (applyMu), so    *)
(* one call has its locals here; Boot is the same sequence without a       *)
(* previous group.                                                         *)
(***************************************************************************)
EXTENDS Naturals

CONSTANTS
    Roots,              \* revision trees Apply can be asked to run
    NoRoot,             \* no call, no group, no table loaded
    Members,            \* the processes of a group and its gateway
    MaxGroups,          \* bound: groups started in one behaviour
    Faults              \* the kinds of failure this instance lets happen

FaultKinds == {"exit",      \* a member ends by itself
               "start",     \* exec fails
               "nft",       \* nft -f fails
               "ready",     \* a readiness probe fails or times out
               "stuck",     \* a member outlives shutdownTimeout
               "cancel"}    \* a signal ends the daemon's context

ASSUME RootsAssumption == NoRoot \notin Roots /\ Roots # {}

ASSUME GroupsAssumption == MaxGroups \in Nat \ {0} /\ Faults \subseteq FaultKinds

VARIABLES
    run,                \* where daemon.Run is
    mu,                 \* holder of Supervisor.mu
    pc,                 \* where the call is
    asked,              \* the root the call was given
    answer,             \* what the last call returned
    prev,               \* Apply's previous group, 0 for nil
    fresh,              \* the group startGroup is building
    restoring,          \* the call is inside restoreLocked
    current,            \* Supervisor.current, 0 for nil
    nft,                \* the root whose nftables rules are loaded
    fatal,              \* Supervisor.fatal holds a report
    lifecycle,          \* the daemon's context is cancelled
    started,            \* groups started so far
    group               \* every group: see Group

callVars  == <<pc, asked, answer, prev, fresh, restoring>>
vars == <<run, mu, callVars, current, nft, fatal, lifecycle, started, group>>

Gids == 1 .. MaxGroups

Group == [root      : Roots \cup {NoRoot},
          member    : [Members -> {"none", "running", "exited", "reaped"}],
          cancelled : BOOLEAN,      \* cancel() was called
          stopped   : BOOLEAN,      \* the stopped channel is closed
          done      : BOOLEAN,      \* the done channel holds a report
          watcher   : {"none", "select", "took", "gone"}]

NoGroup == [root |-> NoRoot, member |-> [m \in Members |-> "none"],
            cancelled |-> FALSE, stopped |-> FALSE, done |-> FALSE,
            watcher |-> "none"]

Serving == run = "serve"
Ended   == run = "ended"

Live(g) == \E m \in Members : group[g].member[m] = "running"

(* Every member runs and none has been told to end.                        *)
Whole(g) ==
    /\ g # 0 /\ ~group[g].cancelled
    /\ \A m \in Members : group[g].member[m] = "running"

(* The members of g once m has moved on.                                   *)
MemberIs(g, m, now) == [group[g].member EXCEPT ![m] = now]

Waited(g) == \A m \in Members : group[g].member[m] \in {"none", "reaped"}

(* The context of a group's members.                                       *)
Cancelled(g) == group[g].cancelled \/ lifecycle

RootOf(g) == IF g = 0 THEN NoRoot ELSE group[g].root

Init ==
    /\ run = "boot" /\ mu = "free"
    /\ pc = "nft" /\ asked \in Roots /\ answer = "none"
    /\ prev = 0 /\ fresh = 0 /\ restoring = FALSE
    /\ current = 0 /\ nft = NoRoot
    /\ fatal = FALSE /\ lifecycle = FALSE
    /\ started = 0
    /\ group = [g \in Gids |-> NoGroup]

-----------------------------------------------------------------------------
(* The members of the groups.                                              *)

(* A member ends by itself, or because its context was cancelled or its    *)
(* process group killed.                                                   *)
Exit(g, m) ==
    /\ ~Ended
    /\ group[g].member[m] = "running"
    /\ Cancelled(g) \/ "exit" \in Faults
    /\ group' = [group EXCEPT ![g] = [@ EXCEPT !.member = MemberIs(g, m, "exited")]]
    /\ UNCHANGED <<run, mu, callVars, current, nft, fatal, lifecycle, started>>

(* Mutant: the done channel has no buffer, a report without a reader is    *)
(* dropped.                                                                *)
ReapUnbuffered(g, m) ==
    /\ ~Ended
    /\ group[g].member[m] = "exited"
    /\ group' = [group EXCEPT ![g] =
          [@ EXCEPT !.member = MemberIs(g, m, "reaped"),
                    !.done = group[g].done \/ (~Cancelled(g) /\ group[g].watcher = "select")]]
    /\ UNCHANGED <<run, mu, callVars, current, nft, fatal, lifecycle, started>>

(* cmd.Wait returns: outside a cancelled context that is a failure, sent   *)
(* to a channel of one without waiting for a reader.                       *)
Reap(g, m) ==
    /\ ~Ended
    /\ group[g].member[m] = "exited"
    /\ group' = [group EXCEPT ![g] = [@ EXCEPT !.member = MemberIs(g, m, "reaped"),
                                              !.done = group[g].done \/ ~Cancelled(g)]]
    /\ UNCHANGED <<run, mu, callVars, current, nft, fatal, lifecycle, started>>

-----------------------------------------------------------------------------
(* The watcher of a group.                                                 *)

(* Both channels can be ready: select takes either.                        *)
WatchTakes(g) ==
    /\ ~Ended
    /\ group[g].watcher = "select" /\ group[g].done
    /\ group' = [group EXCEPT ![g] = [@ EXCEPT !.watcher = "took", !.done = FALSE]]
    /\ UNCHANGED <<run, mu, callVars, current, nft, fatal, lifecycle, started>>

WatchStops(g) ==
    /\ ~Ended
    /\ group[g].watcher = "select" /\ group[g].stopped
    /\ group' = [group EXCEPT ![g] = [@ EXCEPT !.watcher = "gone"]]
    /\ UNCHANGED <<run, mu, callVars, current, nft, fatal, lifecycle, started>>

(* Mutant: the watcher reports without asking whose group it watches.      *)
WatchReports(g) ==
    /\ ~Ended
    /\ group[g].watcher = "took" /\ mu = "free"
    /\ group' = [group EXCEPT ![g] = [@ EXCEPT !.watcher = "gone"]]
    /\ fatal' = TRUE
    /\ UNCHANGED <<run, mu, callVars, current, nft, lifecycle, started>>

(* The comparison under mu, and the report that does not wait either.      *)
WatchCompares(g) ==
    /\ ~Ended
    /\ group[g].watcher = "took" /\ mu = "free"
    /\ group' = [group EXCEPT ![g] = [@ EXCEPT !.watcher = "gone"]]
    /\ fatal' = (fatal \/ current = g)
    /\ UNCHANGED <<run, mu, callVars, current, nft, lifecycle, started>>

-----------------------------------------------------------------------------
(* Pieces of the calls.                                                    *)

(* stopGroup up to its wait.                                               *)
Halted(g) == [group[g] EXCEPT !.stopped = TRUE, !.cancelled = TRUE]

(* Mutant: mu stays locked.                                                *)
ReturnLocked(r) ==
    /\ UNCHANGED mu /\ pc' = "idle"
    /\ asked' = NoRoot /\ answer' = r
    /\ prev' = 0 /\ fresh' = 0 /\ restoring' = FALSE
    /\ run' = IF run # "boot" THEN run ELSE IF r = "ok" THEN "serve" ELSE "ended"

(* The call returns; Run ends when its Boot fails.                         *)
Return(r) ==
    /\ mu' = "free" /\ pc' = "idle"
    /\ asked' = NoRoot /\ answer' = r
    /\ prev' = 0 /\ fresh' = 0 /\ restoring' = FALSE
    /\ run' = IF run # "boot" THEN run ELSE IF r = "ok" THEN "serve" ELSE "ended"

(* Mutant: a failure after nft -f returns without restoring.               *)
FailedUnrestored == Return("error") /\ UNCHANGED fatal

(* Mutant: a restore that fails reports nothing.                           *)
FailedQuietly ==
    \/ /\ restoring \/ prev = 0
       /\ Return("error")
       /\ UNCHANGED fatal
    \/ /\ ~restoring /\ prev # 0
       /\ restoring' = TRUE /\ pc' = "nft" /\ fresh' = 0
       /\ UNCHANGED <<run, mu, asked, answer, prev, fatal>>

(* What a failure before the new group runs leads to.                      *)
Failed ==
    \/ /\ restoring
       /\ fatal' = TRUE
       /\ Return("error")
    \/ /\ ~restoring /\ prev # 0
       /\ restoring' = TRUE /\ pc' = "nft" /\ fresh' = 0
       /\ UNCHANGED <<run, mu, asked, answer, prev, fatal>>
    \/ /\ ~restoring /\ prev = 0
       /\ Return("error")
       /\ UNCHANGED fatal

(* The root the call is trying to run.                                     *)
Target == IF restoring THEN RootOf(prev) ELSE asked

-----------------------------------------------------------------------------
(* Apply.                                                                  *)

Apply(r) ==
    /\ run \in {"serve", "stopping"} /\ pc = "idle"
    /\ started + 2 <= MaxGroups
    /\ pc' = "lock" /\ asked' = r /\ answer' = "none"
    /\ UNCHANGED <<run, mu, prev, fresh, restoring, current, nft, fatal, lifecycle,
                   started, group>>

ApplyLocks ==
    /\ ~Ended
    /\ pc = "lock" /\ mu = "free"
    /\ mu' = "apply"
    /\ prev' = current
    /\ IF current = 0
       THEN pc' = "nft" /\ UNCHANGED group
       ELSE pc' = "stop" /\ group' = [group EXCEPT ![current] = Halted(current)]
    /\ UNCHANGED <<run, asked, answer, fresh, restoring, current, nft, fatal,
                   lifecycle, started>>

(* Mutant: the previous group is signalled and not waited for.             *)
PreviousSignalled ==
    /\ ~Ended
    /\ pc = "stop"
    /\ pc' = "nft"
    /\ UNCHANGED <<run, mu, asked, answer, prev, fresh, restoring, fatal,
                   current, nft, lifecycle, started, group>>

PreviousStopped ==
    /\ ~Ended
    /\ pc = "stop"
    /\ \/ /\ Waited(prev)
          /\ pc' = "nft"
          /\ UNCHANGED <<run, mu, asked, answer, prev, fresh, restoring, fatal>>
       \/ /\ "stuck" \in Faults /\ ~Waited(prev)
          /\ fatal' = TRUE
          /\ Return("error")
    /\ UNCHANGED <<current, nft, lifecycle, started, group>>

(* nft -f replaces the whole table or nothing.                             *)
LoadRules ==
    /\ ~Ended
    /\ pc = "nft"
    /\ \/ /\ ~lifecycle
          /\ nft' = Target
          /\ pc' = "launch" /\ fresh' = started + 1 /\ started' = started + 1
          /\ group' = [group EXCEPT ![started + 1] = [NoGroup EXCEPT !.root = Target]]
          /\ UNCHANGED <<run, mu, asked, answer, prev, restoring, fatal>>
       \/ /\ "nft" \in Faults \/ lifecycle
          /\ Failed
          /\ UNCHANGED <<nft, started, group>>
    /\ UNCHANGED <<current, lifecycle>>

(* cmd.Start of one member after another; the first error stops those that *)
(* run already.                                                            *)
Launch ==
    /\ ~Ended
    /\ pc = "launch"
    /\ \/ /\ ~lifecycle
          /\ \E m \in Members :
                /\ group[fresh].member[m] = "none"
                /\ group' = [group EXCEPT ![fresh] =
                                [@ EXCEPT !.member = MemberIs(fresh, m, "running")]]
                /\ pc' = IF \A n \in Members \ {m} : group[fresh].member[n] # "none"
                         THEN "ready" ELSE "launch"
       \/ /\ "start" \in Faults \/ lifecycle
          /\ group' = [group EXCEPT ![fresh] = Halted(fresh)]
          /\ pc' = "abandon"
    /\ UNCHANGED <<run, mu, asked, answer, prev, fresh, restoring, current, nft,
                   fatal, lifecycle, started>>

(* waitReadiness: every probe has passed and no member has reported, or a  *)
(* report, a probe or the deadline ends it.  Then s.current and its watch. *)
Ready ==
    /\ ~Ended
    /\ pc = "ready"
    /\ \/ /\ ~group[fresh].done /\ ~lifecycle
          /\ current' = fresh
          /\ group' = [group EXCEPT ![fresh] = [@ EXCEPT !.watcher = "select"]]
          /\ Return(IF restoring THEN "error" ELSE "ok")
       \/ /\ group[fresh].done \/ "ready" \in Faults \/ lifecycle
          /\ \E taken \in BOOLEAN :
                /\ taken => group[fresh].done
                /\ group' = [group EXCEPT ![fresh] =
                                [Halted(fresh) EXCEPT !.done = group[fresh].done /\ ~taken]]
          /\ pc' = "abandon"
          /\ UNCHANGED <<run, mu, asked, answer, prev, fresh, restoring, current>>
    /\ UNCHANGED <<nft, fatal, lifecycle, started>>

(* The new group has been stopped, or outlives shutdownTimeout: then even  *)
(* the previous one cannot be started.                                     *)
Abandoned ==
    /\ ~Ended
    /\ pc = "abandon"
    /\ \/ /\ Waited(fresh)
          /\ Failed
       \/ /\ "stuck" \in Faults /\ ~Waited(fresh)
          /\ fatal' = (fatal \/ run # "boot")
          /\ Return("error")
    /\ UNCHANGED <<current, nft, lifecycle, started, group>>

-----------------------------------------------------------------------------
(* daemon.Run: a report or a signal ends its select, the deferred Stop     *)
(* takes the current group down, and the process is gone.                  *)

Signal ==
    /\ "cancel" \in Faults
    /\ ~Ended /\ ~lifecycle
    /\ lifecycle' = TRUE
    /\ UNCHANGED <<run, mu, callVars, current, nft, fatal, started, group>>

RunReturns ==
    /\ Serving
    /\ fatal \/ lifecycle
    /\ run' = "stopping"
    /\ fatal' \in {FALSE, fatal /\ lifecycle}
    /\ UNCHANGED <<mu, callVars, current, nft, lifecycle, started, group>>

StopLocks ==
    /\ run = "stopping" /\ mu = "free"
    /\ mu' = "stop"
    /\ group' = IF current = 0 THEN group
                ELSE [group EXCEPT ![current] = Halted(current)]
    /\ UNCHANGED <<run, callVars, current, nft, fatal, lifecycle, started>>

Stopped ==
    /\ run = "stopping" /\ mu = "stop"
    /\ \/ /\ current = 0 \/ Waited(current)
          /\ UNCHANGED fatal
       \/ /\ "stuck" \in Faults /\ current # 0 /\ ~Waited(current)
          /\ fatal' = TRUE
    /\ current' = 0
    /\ mu' = "free" /\ run' = "stopped"
    /\ UNCHANGED <<callVars, nft, lifecycle, started, group>>

(* The control group ends with the process.                                *)
ProcessEnds ==
    /\ run = "stopped"
    /\ run' = "ended"
    /\ group' = [g \in Gids |-> NoGroup]
    /\ current' = 0
    /\ UNCHANGED <<mu, callVars, nft, fatal, lifecycle, started>>

-----------------------------------------------------------------------------
CallStep == ApplyLocks \/ PreviousStopped \/ LoadRules \/ Launch \/ Ready \/ Abandoned

RunStep == RunReturns \/ StopLocks \/ Stopped \/ ProcessEnds

MemberStep(g, m) == Exit(g, m) \/ Reap(g, m)

WatchStep(g) == WatchTakes(g) \/ WatchStops(g) \/ WatchCompares(g)

Next ==
    \/ \E r \in Roots : Apply(r)
    \/ CallStep
    \/ RunStep \/ Signal
    \/ \E g \in Gids : WatchStep(g) \/ \E m \in Members : MemberStep(g, m)

Spec == Init /\ [][Next]_vars

(* Every wait of a call has a deadline, Wait returns for a process that    *)
(* has exited, SIGKILL and a cancelled context end a member, and a waiting *)
(* goroutine gets sync.Mutex in the end.                                   *)
Fairness ==
    /\ WF_vars(PreviousStopped) /\ WF_vars(LoadRules) /\ WF_vars(Launch)
    /\ WF_vars(Ready) /\ WF_vars(Abandoned)
    /\ SF_vars(ApplyLocks) /\ SF_vars(StopLocks)
    /\ WF_vars(RunReturns) /\ WF_vars(Stopped) /\ WF_vars(ProcessEnds)
    /\ \A g \in Gids :
          /\ WF_vars(WatchTakes(g) \/ WatchStops(g))
          /\ SF_vars(WatchCompares(g))
          /\ \A m \in Members :
                /\ WF_vars(Reap(g, m))
                /\ WF_vars(Cancelled(g) /\ Exit(g, m))

FairSpec == Spec /\ Fairness

-----------------------------------------------------------------------------
TypeOK ==
    /\ run \in {"boot", "serve", "stopping", "stopped", "ended"}
    /\ mu \in {"free", "apply", "stop"}
    /\ pc \in {"idle", "lock", "stop", "nft", "launch", "ready", "abandon"}
    /\ asked \in Roots \cup {NoRoot} /\ answer \in {"none", "ok", "error"}
    /\ prev \in 0 .. MaxGroups /\ fresh \in 0 .. MaxGroups /\ restoring \in BOOLEAN
    /\ current \in 0 .. MaxGroups
    /\ nft \in Roots \cup {NoRoot} /\ (started > 0 => nft \in Roots)
    /\ fatal \in BOOLEAN /\ lifecycle \in BOOLEAN
    /\ started \in 0 .. MaxGroups
    /\ group \in [Gids -> Group]

(* Two groups would fight over the same ports.  A group is launched only   *)
(* when the one before it has been waited for; the one exception is a      *)
(* group that outlived shutdownTimeout, which ends the daemon.             *)
OneLiveGroup ==
    Serving /\ ~fatal => \A g, h \in Gids : Live(g) /\ Live(h) => g = h

(* Whenever no call is in progress, the firewall's rules are those of the  *)
(* group that runs: a switch, a failed switch and a restore move the two   *)
(* together, or a fatal error is on its way to Run.                        *)
RulesFollowGroup ==
    Serving /\ mu = "free" /\ ~fatal => nft = RootOf(current)

(* A fatal error takes the whole daemon down: none is reported while the   *)
(* current group is complete, whatever old watchers still have to say.     *)
Incomplete == ~Whole(current)

ReportsOnlyLosses == [][fatal' /\ ~fatal => Incomplete']_vars

(* A member of the current group that ends by itself is noticed: the group *)
(* is replaced, or Run gets the report.                                    *)
LossNoticed ==
    \A g \in Gids :
        (Serving /\ current = g /\ ~Whole(g)) ~> (fatal \/ current # g \/ ~Serving)

(* Every Apply returns, also with members that hang, a report that nobody  *)
(* reads and a Stop waiting for the same lock.                             *)
ApplyReturns == (pc # "idle") ~> (pc = "idle" \/ Ended)

(* The supervisor keeps its promise to the service.                        *)
Runtime == INSTANCE ManagedRuntime WITH
    current <- RootOf(current),
    inForce <- current # 0 /\ ~group[current].stopped,
    fatal <- fatal \/ run \notin {"boot", "serve"}

KeepsPromise == Runtime!Spec

-----------------------------------------------------------------------------
(* Why these hold, see SupervisorProofs.                                   *)

Building == pc \in {"launch", "ready", "abandon"}
Busy     == pc \in {"stop", "nft"} \/ Building

(* Boot runs before there is a lock to hold; after it a call inside Apply  *)
(* has the lock.                                                           *)
LockHeld ==
    /\ run = "boot" =>
          /\ mu = "free" /\ ~fatal /\ ~restoring /\ prev = 0 /\ current = 0
          /\ pc = "nft" \/ Building
    /\ run # "boot" => (mu = "apply" <=> Busy)
    /\ mu = "stop" => run = "stopping"
    /\ Serving => current # 0

(* The bound leaves a call two groups: the new one and a restored one.     *)
GroupsLeft ==
    /\ pc \in {"lock", "stop"} => started + 2 <= MaxGroups
    /\ pc = "nft" => started + 1 <= MaxGroups
    /\ (pc = "nft" \/ Building) /\ ~restoring /\ prev # 0 =>
          started + (IF pc = "nft" THEN 2 ELSE 1) <= MaxGroups

(* The call builds the newest group, of the root it is trying to run,      *)
(* while Supervisor.current is the one it has halted.                      *)
CallKnows ==
    /\ pc = "idle" <=> asked = NoRoot
    /\ pc \in {"idle", "lock"} => prev = 0 /\ fresh = 0 /\ ~restoring
    /\ pc = "stop" => prev # 0 /\ ~restoring
    /\ restoring => prev # 0
    /\ Building => fresh = started /\ fresh # 0 /\ prev < fresh
    /\ Building /\ ~Ended => nft = group[fresh].root /\ nft = Target
    /\ pc \in {"launch", "ready"} => ~group[fresh].stopped
    /\ Busy /\ ~Ended => prev = current
    /\ Busy /\ ~Ended /\ prev # 0 => group[prev].cancelled /\ group[prev].stopped

GroupsKnown ==
    /\ current <= started /\ prev <= started
    /\ \A g \in Gids : g > started => group[g] = NoGroup
    /\ ~Ended => \A g \in Gids : g <= started => group[g].root \in Roots

(* A report says that a member has ended.                                  *)
ReportMeansLoss ==
    \A g \in Gids : group[g].done \/ group[g].watcher = "took" =>
        \E m \in Members : group[g].member[m] = "reaped"

(* Only the group the call builds, or else the current one, has members.   *)
OnlyOneLives ==
    run \in {"boot", "serve"} /\ ~fatal => \A g \in Gids : Live(g) =>
        \/ Building /\ g = fresh
        \/ ~Busy /\ g = current
        \/ pc = "stop" /\ g = current

RulesKept ==
    Serving /\ ~fatal /\ (~Busy \/ pc = "stop") => nft = RootOf(current)

SupervisorInv ==
    /\ TypeOK /\ LockHeld /\ GroupsLeft /\ CallKnows /\ GroupsKnown
    /\ ReportMeansLoss /\ OnlyOneLives /\ RulesKept

=============================================================================
