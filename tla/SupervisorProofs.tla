--------------------------- MODULE SupervisorProofs ---------------------------
(***************************************************************************)
(* Whatever trees there are, however many members a group has, whichever   *)
(* failures may happen and however often Apply is called: there is one     *)
(* group, the rules follow it, and the supervisor keeps its promise to the *)
(* service.  SupervisorInv is inductive.                                   *)
(***************************************************************************)
EXTENDS Supervisor, TLAPS

LEMMA InitInv == Init => SupervisorInv
<1> SUFFICES ASSUME Init PROVE SupervisorInv
    OBVIOUS
<1>1. TypeOK
    <2>1. NoGroup \in Group
        BY DEF NoGroup, Group
    <2>2. group \in [Gids -> Group]
        BY <2>1 DEF Init
    <2>3. 0 \in 0 .. MaxGroups /\ ~(0 > 0)
        BY GroupsAssumption
    <2> QED BY <2>2, <2>3 DEF Init, TypeOK
<1>2. LockHeld /\ GroupsLeft
    BY GroupsAssumption DEF Init, LockHeld, GroupsLeft, Building, Busy, Serving
<1>3. CallKnows
    BY RootsAssumption DEF Init, CallKnows, Building, Busy, Ended
<1>4. GroupsKnown
    BY GroupsAssumption DEF Init, GroupsKnown, Gids
<1>5. ReportMeansLoss
    BY DEF Init, ReportMeansLoss, NoGroup
<1>6. OnlyOneLives
    BY DEF Init, OnlyOneLives, Live, NoGroup
<1>7. RulesKept
    BY DEF Init, RulesKept, Serving
<1> QED BY <1>1, <1>2, <1>3, <1>4, <1>5, <1>6, <1>7 DEF SupervisorInv

-----------------------------------------------------------------------------
(* What the updates of one group do.                                       *)

LEMMA Changed ==
    ASSUME TypeOK, NEW g \in Gids, NEW r \in Group, group' = [group EXCEPT ![g] = r]
    PROVE  /\ group' \in [Gids -> Group]
           /\ group'[g] = r
           /\ \A h \in Gids : h # g => group'[h] = group[h]
BY DEF TypeOK

LEMMA HaltedGroup ==
    ASSUME TypeOK, NEW g \in Gids
    PROVE  /\ Halted(g) \in Group
           /\ Halted(g).stopped /\ Halted(g).cancelled
           /\ Halted(g).root = group[g].root /\ Halted(g).member = group[g].member
           /\ Halted(g).done = group[g].done /\ Halted(g).watcher = group[g].watcher
<1>1. group[g] \in Group
    BY DEF TypeOK
<1> QED BY <1>1 DEF Halted, Group

LEMMA MovedMember ==
    ASSUME TypeOK, NEW g \in Gids, NEW m \in Members,
           NEW now \in {"running", "exited", "reaped"}
    PROVE  /\ MemberIs(g, m, now) \in [Members -> {"none", "running", "exited", "reaped"}]
           /\ MemberIs(g, m, now)[m] = now
           /\ \A n \in Members : n # m => MemberIs(g, m, now)[n] = group[g].member[n]
<1>1. group[g].member \in [Members -> {"none", "running", "exited", "reaped"}]
    BY DEF TypeOK, Group
<1> QED BY <1>1 DEF MemberIs

(* A step that leaves the call where it is, tells no group anything and    *)
(* lets no member run that did not.                                        *)
Passive ==
    /\ UNCHANGED <<run, mu, callVars, current, nft, lifecycle, started>>
    /\ group' \in [Gids -> Group]
    /\ \A g \in Gids :
          /\ group'[g].root = group[g].root
          /\ group'[g].cancelled = group[g].cancelled
          /\ group'[g].stopped = group[g].stopped
          /\ group[g] = NoGroup => group'[g] = NoGroup
          /\ \A m \in Members :
                /\ group'[g].member[m] = "running" => group[g].member[m] = "running"
                /\ group[g].member[m] = "reaped" => group'[g].member[m] = "reaped"
          /\ group'[g].done => group[g].done \/ \E m \in Members : group'[g].member[m] = "reaped"
          /\ group'[g].watcher = "took" =>
                group[g].watcher = "took" \/ group[g].done

LEMMA PassiveInv ==
    ASSUME SupervisorInv, Passive, fatal' \in BOOLEAN, fatal' = fatal \/ run # "boot"
    PROVE  TypeOK' /\ LockHeld' /\ GroupsLeft' /\ CallKnows' /\ GroupsKnown' /\ ReportMeansLoss'
<1>1. TypeOK'
    BY DEF SupervisorInv, Passive, callVars, TypeOK
<1>2. LockHeld' /\ GroupsLeft'
    BY DEF SupervisorInv, Passive, callVars, LockHeld, GroupsLeft, Building, Busy, Serving
<1>3. prev # 0 => prev \in Gids
    BY DEF SupervisorInv, TypeOK, Gids
<1>4. fresh # 0 => fresh \in Gids
    BY DEF SupervisorInv, TypeOK, Gids
<1>5. CallKnows'
    <2>1. RootOf(prev)' = RootOf(prev)
        BY <1>3 DEF Passive, callVars, RootOf
    <2>2. Target' = Target
        BY <2>1 DEF Passive, callVars, Target
    <2> QED BY <1>3, <1>4, <2>2
               DEF SupervisorInv, Passive, callVars, CallKnows, Building, Busy, Ended
<1>6. GroupsKnown'
    BY DEF SupervisorInv, Passive, callVars, GroupsKnown, Ended
<1>7. ReportMeansLoss'
    BY DEF SupervisorInv, Passive, ReportMeansLoss
<1> QED BY <1>1, <1>2, <1>5, <1>6, <1>7

(* Nor do these steps change which group lives and what rules are loaded.  *)
LEMMA PassiveKeeps ==
    ASSUME SupervisorInv, Passive, fatal' \in BOOLEAN, fatal' = fatal \/ (fatal' /\ run # "boot")
    PROVE  SupervisorInv'
<1>1. TypeOK' /\ LockHeld' /\ GroupsLeft' /\ CallKnows' /\ GroupsKnown' /\ ReportMeansLoss'
    BY PassiveInv
<1>2. OnlyOneLives'
    <2>1. ASSUME NEW g \in Gids, Live(g)' PROVE Live(g)
        BY <2>1 DEF Live, Passive
    <2>2. ~fatal' => ~fatal
        OBVIOUS
    <2> QED BY <2>1, <2>2 DEF SupervisorInv, OnlyOneLives, Passive, callVars, Building, Busy
<1>3. RulesKept'
    <2>1. current # 0 => current \in Gids
        BY DEF SupervisorInv, TypeOK, Gids
    <2>2. RootOf(current)' = RootOf(current)
        BY <2>1 DEF Passive, callVars, RootOf
    <2>3. ~fatal' => ~fatal
        OBVIOUS
    <2> QED BY <2>2, <2>3 DEF SupervisorInv, RulesKept, Passive, callVars, Building, Busy, Serving
<1> QED BY <1>1, <1>2, <1>3 DEF SupervisorInv

LEMMA ExitPassive ==
    ASSUME SupervisorInv, NEW g \in Gids, NEW m \in Members, Exit(g, m)
    PROVE  Passive /\ fatal' = fatal
<1> DEFINE r == [group[g] EXCEPT !.member = MemberIs(g, m, "exited")]
<1>1. TypeOK /\ group[g] \in Group
    BY DEF SupervisorInv, TypeOK
<1>2. /\ r \in Group /\ r.member = MemberIs(g, m, "exited")
      /\ r.root = group[g].root /\ r.cancelled = group[g].cancelled
      /\ r.stopped = group[g].stopped /\ r.done = group[g].done
      /\ r.watcher = group[g].watcher
    BY <1>1, MovedMember DEF Group
<1>3. group' = [group EXCEPT ![g] = r]
    BY DEF Exit
<1> HIDE DEF r
<1>4. /\ group' \in [Gids -> Group] /\ group'[g] = r
      /\ \A h \in Gids : h # g => group'[h] = group[h]
    BY <1>1, <1>2, <1>3, Changed
<1>5. /\ MemberIs(g, m, "exited")[m] = "exited"
      /\ \A n \in Members : n # m => MemberIs(g, m, "exited")[n] = group[g].member[n]
    BY <1>1, MovedMember
<1>6. group[g] # NoGroup
    BY DEF Exit, NoGroup
<1>7. \A h \in Gids : \A n \in Members :
          /\ group'[h].member[n] = "running" => group[h].member[n] = "running"
          /\ group[h].member[n] = "reaped" => group'[h].member[n] = "reaped"
    BY <1>2, <1>4, <1>5 DEF Exit
<1> QED BY <1>2, <1>4, <1>6, <1>7 DEF Exit, Passive

LEMMA ReapPassive ==
    ASSUME SupervisorInv, NEW g \in Gids, NEW m \in Members, Reap(g, m)
    PROVE  Passive /\ fatal' = fatal
<1> DEFINE r == [group[g] EXCEPT !.member = MemberIs(g, m, "reaped"),
                                 !.done = group[g].done \/ ~Cancelled(g)]
<1>1. TypeOK /\ group[g] \in Group
    BY DEF SupervisorInv, TypeOK
<1>2. /\ r \in Group /\ r.member = MemberIs(g, m, "reaped")
      /\ r.root = group[g].root /\ r.cancelled = group[g].cancelled
      /\ r.stopped = group[g].stopped /\ r.watcher = group[g].watcher
    <2>1. (group[g].done \/ ~Cancelled(g)) \in BOOLEAN
        OBVIOUS
    <2> QED BY <1>1, <2>1, MovedMember DEF Group
<1>3. group' = [group EXCEPT ![g] = r]
    BY DEF Reap
<1> HIDE DEF r
<1>4. /\ group' \in [Gids -> Group] /\ group'[g] = r
      /\ \A h \in Gids : h # g => group'[h] = group[h]
    BY <1>1, <1>2, <1>3, Changed
<1>5. /\ MemberIs(g, m, "reaped")[m] = "reaped"
      /\ \A n \in Members : n # m => MemberIs(g, m, "reaped")[n] = group[g].member[n]
    BY <1>1, MovedMember
<1>6. group[g] # NoGroup
    BY DEF Reap, NoGroup
<1>7. \A h \in Gids : \A n \in Members :
          /\ group'[h].member[n] = "running" => group[h].member[n] = "running"
          /\ group[h].member[n] = "reaped" => group'[h].member[n] = "reaped"
    BY <1>2, <1>4, <1>5 DEF Reap
<1>8. group'[g].member[m] = "reaped"
    BY <1>2, <1>4, <1>5
<1> QED BY <1>2, <1>4, <1>6, <1>7, <1>8 DEF Reap, Passive

LEMMA WatchPassive ==
    ASSUME SupervisorInv, NEW g \in Gids, WatchStep(g)
    PROVE  Passive
<1>1. TypeOK /\ group[g] \in Group
    BY DEF SupervisorInv, TypeOK
<1>2. PICK r \in Group :
          /\ group' = [group EXCEPT ![g] = r]
          /\ r.member = group[g].member /\ r.root = group[g].root
          /\ r.cancelled = group[g].cancelled /\ r.stopped = group[g].stopped
          /\ r.done => group[g].done
          /\ r.watcher = "took" => group[g].done
    <2>1. CASE WatchTakes(g)
        <3>1. [group[g] EXCEPT !.watcher = "took", !.done = FALSE] \in Group
            BY <1>1 DEF Group
        <3> WITNESS [group[g] EXCEPT !.watcher = "took", !.done = FALSE] \in Group
        <3> QED BY <1>1, <2>1, <3>1 DEF WatchTakes, Group
    <2>2. CASE WatchStops(g) \/ WatchCompares(g)
        <3>1. [group[g] EXCEPT !.watcher = "gone"] \in Group
            BY <1>1 DEF Group
        <3> WITNESS [group[g] EXCEPT !.watcher = "gone"] \in Group
        <3> QED BY <1>1, <2>2 DEF WatchStops, WatchCompares, Group
    <2> QED BY <2>1, <2>2 DEF WatchStep
<1>3. /\ group' \in [Gids -> Group] /\ group'[g] = r
      /\ \A h \in Gids : h # g => group'[h] = group[h]
    BY <1>1, <1>2, Changed
<1>4. group[g] # NoGroup
    BY DEF WatchStep, WatchTakes, WatchStops, WatchCompares, NoGroup
<1>5. UNCHANGED <<run, mu, callVars, current, nft, lifecycle, started>>
    BY DEF WatchStep, WatchTakes, WatchStops, WatchCompares
<1> QED BY <1>2, <1>3, <1>4, <1>5 DEF Passive

(* A report is made of the current group only, and there is none in Boot.  *)
LEMMA WatchReportsLoss ==
    ASSUME SupervisorInv, NEW g \in Gids, WatchStep(g)
    PROVE  /\ fatal' \in BOOLEAN
           /\ fatal' = fatal \/ (fatal' /\ current = g /\ group[g].watcher = "took")
<1>1. fatal \in BOOLEAN
    BY DEF SupervisorInv, TypeOK
<1> QED BY <1>1 DEF WatchStep, WatchTakes, WatchStops, WatchCompares

LEMMA BackgroundInv ==
    ASSUME SupervisorInv, NEW g \in Gids,
           WatchStep(g) \/ \E m \in Members : MemberStep(g, m)
    PROVE  SupervisorInv'
<1>1. CASE WatchStep(g)
    <2>1. run = "boot" => current # g
        BY DEF SupervisorInv, LockHeld, Gids
    <2>2. fatal' \in BOOLEAN /\ (fatal' = fatal \/ (fatal' /\ run # "boot"))
        BY <1>1, <2>1, WatchReportsLoss
    <2> QED BY <1>1, <2>2, WatchPassive, PassiveKeeps
<1>2. CASE \E m \in Members : MemberStep(g, m)
    <2>1. Passive /\ fatal' = fatal
        BY <1>2, ExitPassive, ReapPassive DEF MemberStep
    <2> QED BY <2>1, PassiveKeeps DEF SupervisorInv, TypeOK
<1> QED BY <1>1, <1>2

-----------------------------------------------------------------------------
(* The call, one action after the other.                                   *)

(* A group's number that is not 0.                                         *)
LEMMA Numbers ==
    ASSUME TypeOK
    PROVE  /\ current # 0 => current \in Gids
           /\ prev # 0 => prev \in Gids
           /\ fresh # 0 => fresh \in Gids
BY DEF TypeOK, Gids

LEMMA ApplyInv ==
    ASSUME SupervisorInv, NEW r \in Roots, Apply(r)
    PROVE  SupervisorInv'
<1>1. TypeOK'
    BY DEF SupervisorInv, TypeOK, Apply
<1>2. LockHeld' /\ GroupsLeft' /\ GroupsKnown' /\ ReportMeansLoss'
    BY DEF SupervisorInv, Apply, LockHeld, GroupsLeft, GroupsKnown, ReportMeansLoss,
           Building, Busy, Serving, Ended
<1>3. CallKnows'
    BY RootsAssumption DEF SupervisorInv, Apply, CallKnows, Building, Busy, Ended
<1>4. OnlyOneLives' /\ RulesKept'
    BY DEF SupervisorInv, Apply, OnlyOneLives, RulesKept, Live, Building, Busy, RootOf, Serving
<1> QED BY <1>1, <1>2, <1>3, <1>4 DEF SupervisorInv

LEMMA ApplyLocksInv ==
    ASSUME SupervisorInv, ApplyLocks
    PROVE  SupervisorInv'
<1>1. TypeOK
    BY DEF SupervisorInv
<1>2. run # "boot" /\ run # "ended"
    BY DEF SupervisorInv, ApplyLocks, LockHeld, Building, Ended
<1>3. CASE current = 0
    <2>1. TypeOK'
        BY <1>1, <1>3 DEF TypeOK, ApplyLocks
    <2>2. LockHeld' /\ ReportMeansLoss'
        BY <1>2, <1>3
           DEF SupervisorInv, ApplyLocks, LockHeld, ReportMeansLoss, Building, Busy, Serving
    <2>3. GroupsLeft' /\ GroupsKnown'
        BY <1>1, <1>2, <1>3, GroupsAssumption
           DEF SupervisorInv, TypeOK, ApplyLocks, GroupsLeft, GroupsKnown, Building, Ended
    <2>4. CallKnows'
        BY <1>3 DEF SupervisorInv, ApplyLocks, CallKnows, Building, Busy, Ended
    <2>5. run # "serve"
        BY <1>3 DEF SupervisorInv, LockHeld, Serving
    <2>6. OnlyOneLives' /\ RulesKept'
        BY <1>2, <2>5 DEF ApplyLocks, OnlyOneLives, RulesKept, Serving
    <2> QED BY <2>1, <2>2, <2>3, <2>4, <2>6 DEF SupervisorInv
<1>4. CASE current # 0
    <2>1. current \in Gids
        BY <1>1, <1>4, Numbers
    <2>2. /\ group' \in [Gids -> Group] /\ group'[current] = Halted(current)
          /\ \A h \in Gids : h # current => group'[h] = group[h]
        BY <1>1, <1>4, <2>1, HaltedGroup, Changed DEF ApplyLocks
    <2>3. /\ Halted(current).stopped /\ Halted(current).cancelled
          /\ Halted(current).root = group[current].root
          /\ Halted(current).member = group[current].member
          /\ Halted(current).done = group[current].done
          /\ Halted(current).watcher = group[current].watcher
        BY <1>1, <2>1, HaltedGroup
    <2>4. TypeOK'
        BY <1>1, <1>4, <2>2 DEF TypeOK, ApplyLocks
    <2>5. LockHeld' /\ GroupsLeft'
        BY <1>2, <1>4 DEF SupervisorInv, ApplyLocks, LockHeld, GroupsLeft, Building, Busy, Serving
    <2>6. GroupsKnown'
        BY <1>1, <1>2, <1>4, <2>1, <2>2, <2>3
           DEF SupervisorInv, TypeOK, Gids, ApplyLocks, GroupsKnown, Ended
    <2>7. ReportMeansLoss'
        BY <2>2, <2>3 DEF SupervisorInv, ReportMeansLoss
    <2>8. CallKnows'
        BY <1>4, <2>2, <2>3 DEF SupervisorInv, ApplyLocks, CallKnows, Building, Busy, Ended
    <2>9. OnlyOneLives'
        <3>1. ASSUME NEW g \in Gids, Live(g)' PROVE Live(g)
            BY <2>2, <2>3, <3>1 DEF Live
        <3> QED BY <1>4, <3>1 DEF SupervisorInv, ApplyLocks, OnlyOneLives, Building, Busy
    <2>10. RulesKept'
        <3>1. RootOf(current)' = RootOf(current)
            BY <1>4, <2>1, <2>2, <2>3 DEF ApplyLocks, RootOf
        <3> QED BY <1>4, <3>1 DEF SupervisorInv, ApplyLocks, RulesKept, Building, Busy, Serving
    <2> QED BY <2>4, <2>5, <2>6, <2>7, <2>8, <2>9, <2>10 DEF SupervisorInv
<1> QED BY <1>3, <1>4

(* An answer ends the call; whether the daemon still serves is up to it.   *)
LEMMA ReturnTypes ==
    ASSUME SupervisorInv, NEW r \in {"ok", "error"}, Return(r)
    PROVE  /\ run' \in {"boot", "serve", "stopping", "stopped", "ended"} /\ run' # "boot"
           /\ mu' = "free" /\ pc' = "idle"
           /\ asked' = NoRoot /\ answer' \in {"none", "ok", "error"}
           /\ prev' = 0 /\ fresh' = 0 /\ restoring' = FALSE
           /\ prev' \in 0 .. MaxGroups /\ fresh' \in 0 .. MaxGroups
           /\ run # "boot" => run' = run
           /\ run = "boot" => run' = IF r = "ok" THEN "serve" ELSE "ended"
BY GroupsAssumption DEF SupervisorInv, TypeOK, Return

(* What an answer leaves of the invariant for certain.                     *)
LEMMA ReturnInv ==
    ASSUME SupervisorInv, ~Ended, NEW r \in {"ok", "error"}, Return(r), fatal' \in BOOLEAN,
           fatal' = fatal \/ run # "boot",
           current' \in 0 .. started, run' = "serve" => current' # 0, UNCHANGED started,
           group' \in [Gids -> Group],
           \A g \in Gids : g > started => group'[g] = NoGroup,
           \A g \in Gids : group'[g].root = group[g].root,
           ReportMeansLoss', UNCHANGED <<nft, lifecycle>>
    PROVE  TypeOK' /\ LockHeld' /\ GroupsLeft' /\ CallKnows' /\ GroupsKnown'
<1>1. /\ run' \in {"boot", "serve", "stopping", "stopped", "ended"} /\ run' # "boot"
      /\ mu' = "free" /\ pc' = "idle"
      /\ asked' = NoRoot /\ answer' \in {"none", "ok", "error"}
      /\ prev' = 0 /\ fresh' = 0 /\ restoring' = FALSE
      /\ prev' \in 0 .. MaxGroups /\ fresh' \in 0 .. MaxGroups
    BY ReturnTypes
<1>2. TypeOK'
    <2>1. current' \in 0 .. MaxGroups
        BY GroupsAssumption DEF SupervisorInv, TypeOK
    <2> QED BY <1>1, <2>1 DEF SupervisorInv, TypeOK
<1>3. LockHeld' /\ GroupsLeft'
    BY <1>1 DEF LockHeld, GroupsLeft, Building, Busy, Serving
<1>4. CallKnows'
    BY <1>1 DEF CallKnows, Building, Busy, Ended
<1>5. GroupsKnown'
    BY <1>1, GroupsAssumption DEF SupervisorInv, TypeOK, GroupsKnown, Ended
<1> QED BY <1>2, <1>3, <1>4, <1>5

(* A failure when no member runs.                                          *)
LEMMA FailedInv ==
    ASSUME SupervisorInv, ~Ended, pc = "nft" \/ Building, Failed,
           run \in {"boot", "serve"} /\ ~fatal => \A g \in Gids : ~Live(g),
           UNCHANGED <<current, nft, lifecycle, started, group>>
    PROVE  SupervisorInv'
<1>1. TypeOK /\ prev = current /\ (run = "boot" => prev = 0 /\ ~restoring)
    BY DEF SupervisorInv, CallKnows, LockHeld, Busy
<1>2. \A g \in Gids : Live(g)' => Live(g)
    BY DEF Live
<1>3. OnlyOneLives' /\ ReportMeansLoss'
    <2>1. run' \in {"boot", "serve"} /\ ~fatal' => run \in {"boot", "serve"} /\ ~fatal
        BY <1>1 DEF Failed, Return, TypeOK
    <2> QED BY <1>2, <2>1 DEF SupervisorInv, OnlyOneLives, ReportMeansLoss
<1>4. CASE ~restoring /\ prev # 0
    <2>1. TypeOK'
        <3>1. fresh' = 0 /\ 0 \in 0 .. MaxGroups
            BY <1>4, GroupsAssumption DEF Failed
        <3>2. UNCHANGED <<run, mu, asked, answer, prev, fatal>> /\ pc' = "nft" /\ restoring' = TRUE
            BY <1>4 DEF Failed
        <3> QED BY <1>1, <3>1, <3>2 DEF TypeOK
    <2>2. LockHeld'
        BY <1>1, <1>4 DEF SupervisorInv, LockHeld, Failed, Return, Building, Busy, Serving
    <2>3. GroupsLeft'
        BY <1>1, <1>4, GroupsAssumption
           DEF SupervisorInv, TypeOK, GroupsLeft, Failed, Return, Building
    <2>4. CallKnows'
        BY <1>4 DEF SupervisorInv, CallKnows, Failed, Return, Building, Busy, Ended
    <2>5. GroupsKnown' /\ RulesKept'
        BY <1>4 DEF SupervisorInv, GroupsKnown, RulesKept, Failed, Return, Building, Busy, Ended
    <2> QED BY <1>3, <2>1, <2>2, <2>3, <2>4, <2>5 DEF SupervisorInv
<1>5. CASE restoring \/ prev = 0
    <2>1. Return("error") /\ fatal' = (fatal \/ restoring)
        BY <1>1, <1>5 DEF SupervisorInv, TypeOK, CallKnows, Failed
    <2>2. /\ current' \in 0 .. started
          /\ group' \in [Gids -> Group]
          /\ \A g \in Gids : g > started => group'[g] = NoGroup
          /\ \A g \in Gids : group'[g].root = group[g].root
        BY <1>1, GroupsAssumption DEF SupervisorInv, TypeOK, GroupsKnown
    <2>3. run' = "serve" => current' # 0
        BY <1>1, <2>1 DEF SupervisorInv, LockHeld, Serving, Return
    <2>4. fatal' \in BOOLEAN /\ (fatal' = fatal \/ run # "boot")
        BY <1>1, <2>1 DEF TypeOK
    <2>5. TypeOK' /\ LockHeld' /\ GroupsLeft' /\ CallKnows' /\ GroupsKnown'
        BY <1>3, <2>1, <2>2, <2>3, <2>4, ReturnInv
    <2>6. RulesKept'
        BY <1>1, <1>5, <2>1, <2>3 DEF RulesKept, Serving
    <2> QED BY <1>3, <2>5, <2>6 DEF SupervisorInv
<1> QED BY <1>4, <1>5

LEMMA PreviousStoppedInv ==
    ASSUME SupervisorInv, PreviousStopped
    PROVE  SupervisorInv'
<1>1. /\ TypeOK /\ ~Ended /\ pc = "stop" /\ prev # 0 /\ ~restoring /\ prev = current
      /\ run # "boot"
    BY DEF SupervisorInv, CallKnows, LockHeld, PreviousStopped, Busy, Building
<1>2. prev \in Gids
    BY <1>1, Numbers
<1>3. CASE UNCHANGED fatal /\ pc' = "nft" /\ Waited(prev)
    <2>1. UNCHANGED <<run, mu, asked, answer, prev, fresh, restoring, fatal, current, nft,
                      lifecycle, started, group>>
        BY <1>1, <1>3 DEF PreviousStopped, Return
    <2>2. TypeOK' /\ LockHeld' /\ ReportMeansLoss'
        BY <1>1, <1>3, <2>1
           DEF SupervisorInv, TypeOK, LockHeld, ReportMeansLoss, Building, Busy, Serving
    <2>3. GroupsLeft'
        BY <1>1, <1>3, <2>1, GroupsAssumption DEF SupervisorInv, TypeOK, GroupsLeft, Building
    <2>4. CallKnows' /\ GroupsKnown'
        BY <1>1, <1>3, <2>1 DEF SupervisorInv, CallKnows, GroupsKnown, Building, Busy, Ended
    <2>5. OnlyOneLives'
        <3>1. ~Live(prev)
            BY <1>3 DEF Waited, Live
        <3>2. run \in {"boot", "serve"} /\ ~fatal => \A g \in Gids : ~Live(g)
            BY <1>1, <3>1 DEF SupervisorInv, OnlyOneLives, Building, Busy
        <3>3. \A g \in Gids : Live(g)' => Live(g)
            BY <2>1 DEF Live
        <3> QED BY <2>1, <3>2, <3>3 DEF OnlyOneLives
    <2>6. RulesKept'
        BY <1>3 DEF RulesKept, Busy
    <2> QED BY <2>2, <2>3, <2>4, <2>5, <2>6 DEF SupervisorInv
<1>4. CASE fatal' = TRUE /\ Return("error")
    <2>1. UNCHANGED <<current, nft, lifecycle, started, group>>
        BY DEF PreviousStopped
    <2>2. /\ current' \in 0 .. started
          /\ group' \in [Gids -> Group]
          /\ \A g \in Gids : g > started => group'[g] = NoGroup
          /\ \A g \in Gids : group'[g].root = group[g].root
        BY <1>1, <2>1, GroupsAssumption DEF SupervisorInv, TypeOK, GroupsKnown
    <2>3. ReportMeansLoss'
        BY <2>1 DEF SupervisorInv, ReportMeansLoss
    <2>4. TypeOK' /\ LockHeld' /\ GroupsLeft' /\ CallKnows' /\ GroupsKnown'
        BY <1>1, <1>4, <2>1, <2>2, <2>3, ReturnInv
    <2>5. OnlyOneLives' /\ RulesKept'
        BY <1>4 DEF OnlyOneLives, RulesKept
    <2> QED BY <2>3, <2>4, <2>5 DEF SupervisorInv
<1> QED BY <1>3, <1>4 DEF PreviousStopped

LEMMA LoadRulesInv ==
    ASSUME SupervisorInv, LoadRules
    PROVE  SupervisorInv'
<1>1. TypeOK /\ ~Ended /\ pc = "nft" /\ prev = current /\ Busy /\ ~Building
    BY DEF SupervisorInv, CallKnows, LoadRules, Busy, Building
<1>2. run \in {"boot", "serve"} /\ ~fatal => \A g \in Gids : ~Live(g)
    BY <1>1 DEF SupervisorInv, OnlyOneLives
<1>3. CASE Failed /\ UNCHANGED <<nft, started, group>>
    BY <1>1, <1>2, <1>3, FailedInv DEF LoadRules
<1>4. CASE /\ nft' = Target /\ pc' = "launch" /\ fresh' = started + 1 /\ started' = started + 1
           /\ group' = [group EXCEPT ![started + 1] = [NoGroup EXCEPT !.root = Target]]
           /\ UNCHANGED <<run, mu, asked, answer, prev, restoring, fatal>>
    <2> DEFINE r == [NoGroup EXCEPT !.root = Target]
    <2>1. started \in Nat /\ started + 1 \in Gids /\ started + 1 \in 0 .. MaxGroups
        BY <1>1, GroupsAssumption DEF SupervisorInv, TypeOK, GroupsLeft, Gids
    <2>2. Target \in Roots
        <3>1. CASE restoring
            <4>1. prev \in Gids /\ prev <= started /\ prev # 0
                BY <1>1, <3>1, Numbers DEF SupervisorInv, CallKnows, GroupsKnown
            <4> QED BY <1>1, <3>1, <4>1 DEF SupervisorInv, GroupsKnown, Target, RootOf
        <3>2. CASE ~restoring
            BY <1>1, <3>2 DEF SupervisorInv, TypeOK, CallKnows, Target
        <3> QED BY <3>1, <3>2
    <2>3. /\ r \in Group /\ r.root = Target /\ ~r.stopped /\ ~r.done /\ r.watcher = "none"
          /\ \A m \in Members : r.member[m] = "none"
        BY <2>2 DEF NoGroup, Group
    <2>4. /\ group' \in [Gids -> Group] /\ group'[started + 1] = r
          /\ \A h \in Gids : h # started + 1 => group'[h] = group[h]
        BY <1>1, <1>4, <2>1, <2>3, Changed
    <2> HIDE DEF r
    <2>5. current' = current /\ lifecycle' = lifecycle
        BY DEF LoadRules
    <2>6. prev \in 0 .. started /\ current \in 0 .. started
        BY <1>1, <2>1 DEF SupervisorInv, TypeOK, GroupsKnown
    <2>7. prev # 0 => prev \in Gids /\ group'[prev] = group[prev]
        BY <1>1, <2>1, <2>4, <2>6, Numbers
    <2>8. Target' = Target
        BY <1>4, <2>7 DEF Target, RootOf
    <2>9. TypeOK'
        BY <1>1, <1>4, <2>1, <2>2, <2>4, <2>5 DEF TypeOK
    <2>10. LockHeld'
        BY <1>1, <1>4, <2>5 DEF SupervisorInv, LockHeld, Building, Busy, Serving
    <2>11. GroupsLeft'
        BY <1>1, <1>4, <2>1, GroupsAssumption DEF SupervisorInv, GroupsLeft, Building
    <2>12. CallKnows'
        <3>1. fresh' = started' /\ fresh' # 0 /\ prev' < fresh'
            BY <1>4, <2>1, <2>6
        <3>2. nft' = group'[fresh'].root /\ nft' = Target' /\ ~group'[fresh'].stopped
            BY <1>4, <2>3, <2>4, <2>8
        <3> QED BY <1>1, <1>4, <2>5, <2>7, <3>1, <3>2
                DEF SupervisorInv, CallKnows, Building, Busy, Ended
    <2>13. GroupsKnown'
        <3>1. current' <= started' /\ prev' <= started'
            BY <1>4, <2>1, <2>5, <2>6
        <3>2. \A g \in Gids : g > started' => g > started /\ g # started + 1
            BY <1>4, <2>1 DEF Gids
        <3>3. \A g \in Gids : g <= started' => g <= started \/ g = started + 1
            BY <1>4, <2>1 DEF Gids
        <3> QED BY <1>1, <2>2, <2>3, <2>4, <3>1, <3>2, <3>3 DEF SupervisorInv, GroupsKnown
    <2>14. ReportMeansLoss'
        BY <2>3, <2>4 DEF SupervisorInv, ReportMeansLoss
    <2>15. OnlyOneLives'
        <3>1. \A g \in Gids : Live(g)' => Live(g)
            BY <2>3, <2>4 DEF Live
        <3> QED BY <1>2, <1>4, <3>1 DEF OnlyOneLives
    <2>16. RulesKept'
        BY <1>4 DEF RulesKept, Busy, Building
    <2> QED BY <2>9, <2>10, <2>11, <2>12, <2>13, <2>14, <2>15, <2>16 DEF SupervisorInv
<1> QED BY <1>3, <1>4 DEF LoadRules

(* A step of the group that is built.                                      *)
LEMMA BuildInv ==
    ASSUME SupervisorInv, ~Ended, Building,
           NEW r \in Group, group' = [group EXCEPT ![fresh] = r],
           r.root = group[fresh].root,
           r.done => group[fresh].done, r.watcher = group[fresh].watcher,
           \A m \in Members : group[fresh].member[m] = "reaped" => r.member[m] = "reaped",
           pc' \in {"launch", "ready", "abandon"}, pc' # "abandon" => ~r.stopped /\ pc # "abandon",
           UNCHANGED <<run, mu, asked, answer, prev, fresh, restoring, current, nft,
                       fatal, lifecycle, started>>
    PROVE  SupervisorInv'
<1>1. /\ TypeOK /\ Building' /\ Busy /\ Busy' /\ fresh \in Gids /\ fresh = started /\ prev = current
      /\ prev < fresh /\ pc \notin {"idle", "lock", "stop", "nft"}
    BY Numbers DEF SupervisorInv, CallKnows, Building, Busy
<1>2. /\ group' \in [Gids -> Group] /\ group'[fresh] = r
      /\ \A h \in Gids : h # fresh => group'[h] = group[h]
    BY <1>1, Changed
<1>3. prev # 0 => prev \in Gids /\ group'[prev] = group[prev]
    BY <1>1, <1>2, Numbers DEF Gids
<1>4. TypeOK'
    BY <1>1, <1>2 DEF TypeOK
<1>5. LockHeld' /\ GroupsLeft'
    BY <1>1 DEF SupervisorInv, LockHeld, GroupsLeft, Building, Busy, Serving
<1>6. CallKnows'
    <2>1. Target' = Target
        BY <1>3 DEF Target, RootOf
    <2>2. pc' \in {"launch", "ready"} => ~group'[fresh'].stopped
        BY <1>2
    <2> QED BY <1>1, <1>2, <1>3, <2>1, <2>2 DEF SupervisorInv, CallKnows, Busy, Building, Ended
<1>7. GroupsKnown'
    BY <1>1, <1>2 DEF SupervisorInv, GroupsKnown, Ended, Gids
<1>8. ReportMeansLoss'
    BY <1>1, <1>2 DEF SupervisorInv, ReportMeansLoss
<1>9. OnlyOneLives'
    <2>1. \A g \in Gids : g # fresh => (Live(g)' => Live(g))
        BY <1>2 DEF Live
    <2> QED BY <1>1, <2>1 DEF SupervisorInv, OnlyOneLives
<1>10. RulesKept'
    BY <1>1 DEF RulesKept
<1> QED BY <1>4, <1>5, <1>6, <1>7, <1>8, <1>9, <1>10 DEF SupervisorInv

LEMMA LaunchInv ==
    ASSUME SupervisorInv, Launch
    PROVE  SupervisorInv'
<1>1. TypeOK /\ ~Ended /\ pc = "launch" /\ Building /\ fresh \in Gids /\ group[fresh] \in Group
    BY Numbers DEF SupervisorInv, CallKnows, Launch, Building, TypeOK
<1>2. UNCHANGED <<run, mu, asked, answer, prev, fresh, restoring, current, nft,
                  fatal, lifecycle, started>>
    BY DEF Launch
<1>3. CASE group' = [group EXCEPT ![fresh] = Halted(fresh)] /\ pc' = "abandon"
    BY <1>1, <1>2, <1>3, HaltedGroup, BuildInv
<1>4. CASE \E m \in Members :
                /\ group[fresh].member[m] = "none"
                /\ group' = [group EXCEPT ![fresh] =
                                [@ EXCEPT !.member = MemberIs(fresh, m, "running")]]
                /\ pc' \in {"launch", "ready"}
    <2>1. PICK m \in Members :
                /\ group[fresh].member[m] = "none"
                /\ group' = [group EXCEPT ![fresh] =
                                [group[fresh] EXCEPT !.member = MemberIs(fresh, m, "running")]]
                /\ pc' \in {"launch", "ready"}
        BY <1>4
    <2> DEFINE r == [group[fresh] EXCEPT !.member = MemberIs(fresh, m, "running")]
    <2>2. /\ r \in Group /\ r.member = MemberIs(fresh, m, "running")
          /\ r.root = group[fresh].root /\ r.stopped = group[fresh].stopped
          /\ r.done = group[fresh].done /\ r.watcher = group[fresh].watcher
        BY <1>1, MovedMember DEF Group
    <2>3. \A n \in Members : n # m => MemberIs(fresh, m, "running")[n] = group[fresh].member[n]
        BY <1>1, MovedMember
    <2>4. ~group[fresh].stopped
        BY <1>1 DEF SupervisorInv, CallKnows
    <2>5. group' = [group EXCEPT ![fresh] = r]
        BY <2>1
    <2> HIDE DEF r
    <2>6. \A n \in Members : group[fresh].member[n] = "reaped" => r.member[n] = "reaped"
        BY <2>1, <2>2, <2>3
    <2> QED BY <1>1, <1>2, <2>1, <2>2, <2>4, <2>5, <2>6, BuildInv
<1> QED BY <1>3, <1>4 DEF Launch

LEMMA ReadyInv ==
    ASSUME SupervisorInv, Ready
    PROVE  SupervisorInv'
<1>1. /\ TypeOK /\ ~Ended /\ pc = "ready" /\ Building /\ fresh \in Gids /\ group[fresh] \in Group
      /\ fresh = started /\ fresh # 0 /\ nft = group[fresh].root
    BY Numbers DEF SupervisorInv, CallKnows, Ready, Building, TypeOK
<1>2. UNCHANGED <<nft, fatal, lifecycle, started>>
    BY DEF Ready
<1>3. CASE \E taken \in BOOLEAN :
              /\ group' = [group EXCEPT ![fresh] =
                              [Halted(fresh) EXCEPT !.done = group[fresh].done /\ ~taken]]
              /\ pc' = "abandon"
              /\ UNCHANGED <<run, mu, asked, answer, prev, fresh, restoring, current>>
    <2>1. PICK taken \in BOOLEAN :
              group' = [group EXCEPT ![fresh] =
                           [Halted(fresh) EXCEPT !.done = group[fresh].done /\ ~taken]]
        BY <1>3
    <2> DEFINE r == [Halted(fresh) EXCEPT !.done = group[fresh].done /\ ~taken]
    <2>2. (group[fresh].done /\ ~taken) \in BOOLEAN
        OBVIOUS
    <2>3. Halted(fresh) \in Group
        BY <1>1, HaltedGroup
    <2>4. /\ r \in Group /\ r.root = Halted(fresh).root /\ r.member = Halted(fresh).member
          /\ r.watcher = Halted(fresh).watcher /\ (r.done => group[fresh].done)
        BY <2>2, <2>3 DEF Group
    <2>5. group' = [group EXCEPT ![fresh] = r]
        BY <2>1
    <2> HIDE DEF r
    <2>6. /\ pc' = "abandon"
          /\ UNCHANGED <<run, mu, asked, answer, prev, fresh, restoring, current, nft, fatal,
                         lifecycle, started>>
        BY <1>2, <1>3
    <2>7. /\ r.root = group[fresh].root /\ r.member = group[fresh].member
          /\ r.watcher = group[fresh].watcher
        BY <1>1, <2>4, HaltedGroup
    <2> QED BY <1>1, <2>4, <2>5, <2>6, <2>7, BuildInv
<1>4. CASE /\ current' = fresh
           /\ group' = [group EXCEPT ![fresh] = [@ EXCEPT !.watcher = "select"]]
           /\ Return(IF restoring THEN "error" ELSE "ok")
    <2> DEFINE r == [group[fresh] EXCEPT !.watcher = "select"]
               answered == IF restoring THEN "error" ELSE "ok"
    <2>1. /\ r \in Group /\ r.root = group[fresh].root /\ r.member = group[fresh].member
          /\ r.done = group[fresh].done /\ r.watcher = "select"
        BY <1>1 DEF Group
    <2>2. group' = [group EXCEPT ![fresh] = r] /\ Return(answered) /\ answered \in {"ok", "error"}
        BY <1>4
    <2> HIDE DEF r, answered
    <2>3. /\ group' \in [Gids -> Group] /\ group'[fresh] = r
          /\ \A h \in Gids : h # fresh => group'[h] = group[h]
        BY <1>1, <2>1, <2>2, Changed
    <2>4. current' \in 0 .. started /\ current' # 0
        BY <1>1, <1>4, GroupsAssumption DEF TypeOK
    <2>5. /\ \A g \in Gids : g > started => group'[g] = NoGroup
          /\ \A g \in Gids : group'[g].root = group[g].root
        BY <1>1, <2>1, <2>3, GroupsAssumption DEF SupervisorInv, GroupsKnown, TypeOK, Gids
    <2>6. ReportMeansLoss'
        BY <2>1, <2>3 DEF SupervisorInv, ReportMeansLoss
    <2>7. TypeOK' /\ LockHeld' /\ GroupsLeft' /\ CallKnows' /\ GroupsKnown'
        BY <1>1, <1>2, <2>2, <2>3, <2>4, <2>5, <2>6, ReturnInv DEF SupervisorInv, TypeOK
    <2>8. OnlyOneLives'
        <3>1. run' \in {"boot", "serve"} => run \in {"boot", "serve"}
            BY <1>1, <2>2 DEF Return, TypeOK
        <3>2. \A g \in Gids : Live(g)' => Live(g)
            BY <2>1, <2>3 DEF Live
        <3>3. ~Busy'
            BY <2>2 DEF Return, Busy, Building
        <3>4. Busy /\ pc # "stop"
            BY <1>1 DEF Busy
        <3> QED BY <1>1, <1>2, <1>4, <3>1, <3>2, <3>3, <3>4 DEF SupervisorInv, OnlyOneLives
    <2>9. RulesKept'
        BY <1>1, <1>2, <1>4, <2>1, <2>3 DEF RulesKept, RootOf
    <2> QED BY <2>6, <2>7, <2>8, <2>9 DEF SupervisorInv
<1> QED BY <1>3, <1>4 DEF Ready

LEMMA AbandonedInv ==
    ASSUME SupervisorInv, Abandoned
    PROVE  SupervisorInv'
<1>1. /\ TypeOK /\ ~Ended /\ pc = "abandon" /\ Building /\ Busy /\ prev = current
      /\ UNCHANGED <<current, nft, lifecycle, started, group>>
    BY DEF SupervisorInv, CallKnows, Abandoned, Building, Busy
<1>2. CASE Waited(fresh) /\ Failed
    <2>1. ~Live(fresh)
        BY <1>2 DEF Waited, Live
    <2>2. run \in {"boot", "serve"} /\ ~fatal => \A g \in Gids : ~Live(g)
        BY <1>1, <2>1 DEF SupervisorInv, OnlyOneLives
    <2> QED BY <1>1, <1>2, <2>2, FailedInv
<1>3. CASE fatal' = (fatal \/ run # "boot") /\ Return("error")
    <2>1. /\ current' \in 0 .. started
          /\ group' \in [Gids -> Group]
          /\ \A g \in Gids : g > started => group'[g] = NoGroup
          /\ \A g \in Gids : group'[g].root = group[g].root
        BY <1>1, GroupsAssumption DEF SupervisorInv, TypeOK, GroupsKnown
    <2>2. ReportMeansLoss'
        BY <1>1 DEF SupervisorInv, ReportMeansLoss
    <2>3. fatal' \in BOOLEAN /\ (fatal' = fatal \/ run # "boot")
        BY <1>1, <1>3 DEF TypeOK
    <2>4. run' = "serve" => current' # 0
        BY <1>1, <1>3 DEF SupervisorInv, LockHeld, Return, Serving
    <2>5. TypeOK' /\ LockHeld' /\ GroupsLeft' /\ CallKnows' /\ GroupsKnown'
        BY <1>1, <1>3, <2>1, <2>2, <2>3, <2>4, ReturnInv
    <2>6. ~(run' \in {"boot", "serve"} /\ ~fatal')
        BY <1>3 DEF Return
    <2>7. OnlyOneLives' /\ RulesKept'
        BY <2>6 DEF OnlyOneLives, RulesKept, Serving
    <2> QED BY <2>2, <2>5, <2>7 DEF SupervisorInv
<1> QED BY <1>2, <1>3 DEF Abandoned

-----------------------------------------------------------------------------
(* daemon.Run.                                                             *)

(* What is claimed of a daemon that serves is claimed no more.             *)
LEMMA NotServing ==
    ASSUME TypeOK', run' \notin {"boot", "serve"}
    PROVE  OnlyOneLives' /\ RulesKept'
BY DEF OnlyOneLives, RulesKept, Serving

LEMMA SignalInv ==
    ASSUME SupervisorInv, Signal
    PROVE  SupervisorInv'
BY DEF SupervisorInv, Signal, callVars, TypeOK, LockHeld, GroupsLeft, CallKnows, GroupsKnown,
       ReportMeansLoss, OnlyOneLives, RulesKept, Live, Building, Busy, Serving,
       Ended, Target, RootOf

LEMMA RunReturnsInv ==
    ASSUME SupervisorInv, RunReturns
    PROVE  SupervisorInv'
<1>1. TypeOK'
    BY ZenonT(60) DEF SupervisorInv, TypeOK, RunReturns, callVars
<1>2. LockHeld' /\ GroupsLeft' /\ GroupsKnown' /\ ReportMeansLoss'
    BY DEF SupervisorInv, RunReturns, callVars, LockHeld, GroupsLeft, GroupsKnown,
           ReportMeansLoss, Building, Busy, Serving, Ended
<1>3. CallKnows'
    BY
       DEF SupervisorInv, RunReturns, callVars, CallKnows, Building, Busy, Serving, Ended, Target, RootOf
<1>4. run' \notin {"boot", "serve"}
    BY DEF RunReturns
<1> QED BY <1>1, <1>2, <1>3, <1>4, NotServing DEF SupervisorInv

LEMMA StopLocksInv ==
    ASSUME SupervisorInv, StopLocks
    PROVE  SupervisorInv'
<1>1. /\ TypeOK /\ run = "stopping" /\ run' = "stopping" /\ ~Busy
      /\ UNCHANGED <<callVars, current, nft, fatal, lifecycle, started>> /\ mu' = "stop"
    BY DEF SupervisorInv, LockHeld, StopLocks
<1>2. /\ group' \in [Gids -> Group]
      /\ \A g \in Gids : /\ group'[g].root = group[g].root
                         /\ group'[g].member = group[g].member
                         /\ group'[g].done = group[g].done
                         /\ group'[g].watcher = group[g].watcher
                         /\ g # current => group'[g] = group[g]
    <2>1. CASE current = 0
        BY <1>1, <2>1 DEF StopLocks, TypeOK
    <2>2. CASE current # 0
        <3>1. current \in Gids /\ group' = [group EXCEPT ![current] = Halted(current)]
            BY <1>1, <2>2, Numbers DEF StopLocks
        <3> QED BY <1>1, <3>1, HaltedGroup, Changed
    <2> QED BY <2>1, <2>2
<1>3. TypeOK'
    BY <1>1, <1>2 DEF callVars, TypeOK
<1>4. LockHeld' /\ GroupsLeft'
    BY <1>1 DEF SupervisorInv, callVars, LockHeld, GroupsLeft, Building, Busy, Serving
<1>5. CallKnows'
    BY <1>1 DEF SupervisorInv, callVars, CallKnows, Building, Busy, Ended
<1>6. GroupsKnown'
    BY <1>1, <1>2, GroupsAssumption DEF SupervisorInv, TypeOK, Gids, callVars, GroupsKnown, Ended
<1>7. ReportMeansLoss'
    BY <1>2 DEF SupervisorInv, ReportMeansLoss
<1> QED BY <1>1, <1>3, <1>4, <1>5, <1>6, <1>7, NotServing DEF SupervisorInv

LEMMA StoppedInv ==
    ASSUME SupervisorInv, Stopped
    PROVE  SupervisorInv'
<1>1. /\ TypeOK /\ run # "boot" /\ run # "ended" /\ run' = "stopped" /\ ~Busy /\ mu' = "free"
      /\ current' = 0
      /\ UNCHANGED <<callVars, nft, lifecycle, started, group>> /\ fatal' \in {fatal, TRUE}
    BY DEF SupervisorInv, LockHeld, Stopped
<1>2. TypeOK'
    <2>1. current' \in 0 .. MaxGroups
        BY <1>1, GroupsAssumption
    <2>2. fatal' \in BOOLEAN
        BY <1>1, Zenon DEF TypeOK
    <2> QED BY <1>1, <2>1, <2>2 DEF callVars, TypeOK
<1>3. LockHeld' /\ GroupsLeft'
    BY <1>1 DEF SupervisorInv, callVars, LockHeld, GroupsLeft, Building, Busy, Serving
<1>4. CallKnows'
    BY <1>1 DEF SupervisorInv, callVars, CallKnows, Building, Busy, Ended
<1>5. GroupsKnown' /\ ReportMeansLoss'
    BY <1>1, GroupsAssumption
       DEF SupervisorInv, TypeOK, callVars, GroupsKnown, ReportMeansLoss, Ended
<1> QED BY <1>1, <1>2, <1>3, <1>4, <1>5, NotServing DEF SupervisorInv

LEMMA ProcessEndsInv ==
    ASSUME SupervisorInv, ProcessEnds
    PROVE  SupervisorInv'
<1>1. /\ TypeOK /\ run # "boot" /\ run' = "ended" /\ current' = 0
      /\ UNCHANGED <<mu, callVars, nft, fatal, lifecycle, started>>
      /\ group' = [g \in Gids |-> NoGroup] /\ mu # "stop"
    BY DEF SupervisorInv, LockHeld, ProcessEnds
<1>2. /\ NoGroup \in Group /\ ~NoGroup.stopped /\ ~NoGroup.done /\ NoGroup.watcher = "none"
    BY DEF NoGroup, Group
<1>3. TypeOK'
    <2>1. current' \in 0 .. MaxGroups /\ group' \in [Gids -> Group]
        BY <1>1, <1>2, GroupsAssumption
    <2> QED BY <1>1, <2>1 DEF callVars, TypeOK
<1>4. LockHeld' /\ GroupsLeft'
    BY <1>1 DEF SupervisorInv, callVars, LockHeld, GroupsLeft, Building, Busy, Serving
<1>5. CallKnows'
    <2>1. pc \in {"launch", "ready"} => ~group'[fresh].stopped
        BY <1>1, <1>2, Numbers DEF SupervisorInv, CallKnows, Building
    <2> QED BY <1>1, <2>1 DEF SupervisorInv, callVars, CallKnows, Building, Busy, Ended
<1>6. GroupsKnown'
    BY <1>1, GroupsAssumption DEF SupervisorInv, TypeOK, callVars, GroupsKnown, Ended
<1>7. ReportMeansLoss'
    BY <1>1, <1>2 DEF ReportMeansLoss
<1> QED BY <1>1, <1>3, <1>4, <1>5, <1>6, <1>7, NotServing DEF SupervisorInv

-----------------------------------------------------------------------------
LEMMA StepInv == SupervisorInv /\ [Next]_vars => SupervisorInv'
<1> SUFFICES ASSUME SupervisorInv, [Next]_vars PROVE SupervisorInv'
    OBVIOUS
<1>1. CASE \E r \in Roots : Apply(r)
    BY <1>1, ApplyInv
<1>2. CASE CallStep
    BY <1>2, ApplyLocksInv, PreviousStoppedInv, LoadRulesInv, LaunchInv, ReadyInv, AbandonedInv
       DEF CallStep
<1>3. CASE RunStep
    BY <1>3, RunReturnsInv, StopLocksInv, StoppedInv, ProcessEndsInv DEF RunStep
<1>4. CASE Signal
    BY <1>4, SignalInv
<1>5. CASE \E g \in Gids : WatchStep(g) \/ \E m \in Members : MemberStep(g, m)
    BY <1>5, BackgroundInv
<1>6. CASE UNCHANGED vars
    BY <1>6 DEF SupervisorInv, vars, callVars, TypeOK, LockHeld, GroupsLeft, CallKnows, GroupsKnown,
       ReportMeansLoss, OnlyOneLives, RulesKept, Live, Building, Busy, Serving,
       Ended, Target, RootOf
<1> QED BY <1>1, <1>2, <1>3, <1>4, <1>5, <1>6 DEF Next

(* The state of the supervisor is always consistent: the lock, the call's  *)
(* locals, the groups and the reports fit together in every behaviour.     *)
THEOREM SupervisorCorrect == Spec => []SupervisorInv
<1> QED BY InitInv, StepInv, PTL DEF Spec

(* With any number of groups and members and whatever fails, a serving     *)
(* daemon without a fatal report never runs members of two groups.         *)
THEOREM OneGroupLives == Spec => []OneLiveGroup
<1>1. SupervisorInv => OneLiveGroup
    BY DEF SupervisorInv, OnlyOneLives, OneLiveGroup, Serving, Busy, Building
<1> QED BY <1>1, SupervisorCorrect, PTL

(* Outside a call the rules that are loaded are those of the group that    *)
(* runs, after a switch, a failed switch and a restore.                    *)
THEOREM RulesFollow == Spec => []RulesFollowGroup
<1>1. SupervisorInv => RulesFollowGroup
    BY DEF SupervisorInv, LockHeld, RulesKept, RulesFollowGroup, Serving, Busy, Building
<1> QED BY <1>1, SupervisorCorrect, PTL

-----------------------------------------------------------------------------
(* Fatal reports.                                                          *)

(* Inside a call the current group has been told to end.                   *)
LEMMA BusyIncomplete ==
    ASSUME SupervisorInv, ~Ended, Busy
    PROVE  Incomplete /\ current = prev
           /\ (current # 0 => group[current].stopped)
BY DEF SupervisorInv, CallKnows, Incomplete, Whole

LEMMA LossReported ==
    ASSUME SupervisorInv, Next, fatal', ~fatal
    PROVE  Incomplete'
<1>1. CASE PreviousStopped \/ LoadRules \/ Abandoned
    <2>1. ~Ended /\ Busy
        BY <1>1 DEF PreviousStopped, LoadRules, Abandoned, Busy, Building
    <2>2. current' = current /\ group' = group
        BY <1>1 DEF PreviousStopped, LoadRules, Abandoned
    <2>3. Incomplete
        BY <2>1, BusyIncomplete
    <2> QED BY <2>2, <2>3 DEF Incomplete, Whole
<1>2. CASE \E g \in Gids : WatchStep(g)
    <2>1. PICK g \in Gids : WatchStep(g)
        BY <1>2
    <2>2. current = g /\ group[g].watcher = "took"
        BY <2>1, WatchReportsLoss
    <2>3. PICK m \in Members : group[g].member[m] = "reaped"
        BY <2>2 DEF SupervisorInv, ReportMeansLoss
    <2>4. group'[g].member[m] = "reaped" /\ current' = current
        BY <2>1, <2>3, WatchPassive DEF Passive
    <2> QED BY <2>2, <2>4 DEF Incomplete, Whole
<1>3. CASE Stopped
    BY <1>3 DEF Stopped, Incomplete, Whole
<1>4. CASE \/ \E r \in Roots : Apply(r)
           \/ ApplyLocks \/ Launch \/ Ready \/ RunReturns \/ StopLocks \/ ProcessEnds \/ Signal
           \/ \E g \in Gids : \E m \in Members : MemberStep(g, m)
    <2>1. fatal' \in {fatal, FALSE, fatal /\ lifecycle}
        BY <1>4 DEF Apply, ApplyLocks, Launch, Ready, RunReturns, StopLocks, ProcessEnds, Signal,
                    MemberStep, Exit, Reap
    <2> QED BY <2>1
<1> QED BY <1>1, <1>2, <1>3, <1>4 DEF Next, CallStep, RunStep

(* However late the watchers of earlier groups speak, no fatal error is    *)
(* reported while the current group is complete.                           *)
THEOREM OnlyLossesReported == Spec => ReportsOnlyLosses
<1>1. SupervisorInv /\ [Next]_vars => [fatal' /\ ~fatal => Incomplete']_vars
    BY LossReported
<1> QED BY <1>1, SupervisorCorrect, PTL DEF Spec, ReportsOnlyLosses

-----------------------------------------------------------------------------
(* The promise to the service.                                             *)

LEMMA PromiseInit == Init => Runtime!Init
BY DEF Init, Runtime!Init, RootOf

(* What the promise speaks of.                                             *)
LEMMA CurrentRoot ==
    ASSUME SupervisorInv, ~Ended
    PROVE  /\ RootOf(current) = NoRoot <=> current = 0
           /\ current # 0 => RootOf(current) \in Roots
BY RootsAssumption, Numbers DEF SupervisorInv, GroupsKnown, RootOf

LEMMA CallAsked ==
    ASSUME SupervisorInv, pc # "idle"
    PROVE  asked \in Roots /\ asked # NoRoot
BY RootsAssumption DEF SupervisorInv, TypeOK, CallKnows

(* A failure before the new group runs.                                    *)
LEMMA FailedPromise ==
    ASSUME SupervisorInv, ~Ended, pc = "nft" \/ Building, Failed, UNCHANGED <<current, group>>
    PROVE  [Runtime!Next]_Runtime!rvars
<1>1. /\ Busy /\ pc # "idle" /\ (current # 0 => group[current].stopped) /\ current = prev
      /\ asked # NoRoot
    BY BusyIncomplete, CallAsked DEF Busy, Building
<1>2. RootOf(current) = NoRoot <=> current = 0
    BY CurrentRoot
<1>3. RootOf(current)' = RootOf(current)
    BY DEF RootOf
<1>4. CASE ~restoring /\ prev # 0
    BY <1>3, <1>4 DEF Failed, Runtime!rvars
<1>5. CASE restoring
    <2>1. current # 0
        BY <1>1, <1>5 DEF SupervisorInv, CallKnows
    <2>2. Runtime!Fail
        BY <1>1, <1>2, <1>3, <1>5, <2>1 DEF Failed, Return, Runtime!Fail
    <2> QED BY <2>2 DEF Runtime!Next
<1>6. CASE ~restoring /\ prev = 0
    <2>1. Return("error") /\ fatal' = fatal
        BY <1>6 DEF Failed
    <2>2. (fatal' \/ run' \notin {"boot", "serve"}) \in
              {fatal \/ run \notin {"boot", "serve"}, TRUE}
        BY <2>1 DEF Return
    <2>3. Runtime!Fail
        BY <1>1, <1>2, <1>3, <1>6, <2>1, <2>2 DEF Return, Runtime!Fail
    <2> QED BY <2>3 DEF Runtime!Next
<1> QED BY <1>4, <1>5, <1>6

(* A failure that is given up on: the group could not be stopped.          *)
LEMMA StuckPromise ==
    ASSUME SupervisorInv, ~Ended, Busy, Return("error"), fatal' \/ run = "boot",
           UNCHANGED <<current, group>>
    PROVE  [Runtime!Next]_Runtime!rvars
<1>1. /\ pc # "idle" /\ (current # 0 => group[current].stopped) /\ asked # NoRoot
      /\ (run = "boot" => current = 0)
    BY BusyIncomplete, CallAsked DEF SupervisorInv, LockHeld, Busy, Building
<1>2. RootOf(current) = NoRoot <=> current = 0
    BY CurrentRoot
<1>3. RootOf(current)' = RootOf(current)
    BY DEF RootOf
<1>4. (fatal' \/ run' \notin {"boot", "serve"}) = TRUE
    BY DEF Return
<1>5. Runtime!Fail
    BY <1>1, <1>2, <1>3, <1>4 DEF Return, Runtime!Fail
<1> QED BY <1>5 DEF Runtime!Next

LEMMA ReadyPromise ==
    ASSUME SupervisorInv, Ready
    PROVE  [Runtime!Next]_Runtime!rvars
<1>1. /\ TypeOK /\ ~Ended /\ Busy /\ fresh \in Gids /\ fresh # 0 /\ prev < fresh /\ current = prev
      /\ ~group[fresh].stopped /\ group[fresh] \in Group /\ asked # NoRoot
      /\ group[fresh].root = Target /\ UNCHANGED fatal
    BY Numbers, CallAsked DEF SupervisorInv, CallKnows, Ready, Building, Busy, TypeOK
<1>2. current \in 0 .. MaxGroups /\ fresh \in Nat /\ current # fresh
    BY <1>1, GroupsAssumption DEF TypeOK
<1>3. RootOf(current) = NoRoot <=> current = 0
    BY <1>1, CurrentRoot
<1>4. CASE UNCHANGED <<run, asked, answer, current>>
    <2>1. \A h \in Gids : h # fresh => group'[h] = group[h]
        BY <1>1 DEF Ready, TypeOK
    <2>2. RootOf(current)' = RootOf(current) /\ (current # 0 => group'[current] = group[current])
        BY <1>1, <1>2, <1>4, <2>1, Numbers DEF RootOf
    <2> QED BY <1>1, <1>4, <2>2 DEF Runtime!rvars
<1>5. CASE /\ current' = fresh
           /\ group' = [group EXCEPT ![fresh] = [@ EXCEPT !.watcher = "select"]]
           /\ Return(IF restoring THEN "error" ELSE "ok")
    <2>1. group'[fresh].root = group[fresh].root /\ group'[fresh].stopped = group[fresh].stopped
        BY <1>1, <1>5 DEF TypeOK, Group
    <2>2. RootOf(current)' = Target /\ (current # 0 /\ ~group[current].stopped)' = TRUE
        BY <1>1, <1>5, <2>1 DEF RootOf
    <2>3. (fatal \/ run \notin {"boot", "serve"})' = (fatal \/ run \notin {"boot", "serve"})
        BY <1>1, <1>5 DEF SupervisorInv, LockHeld, Return
    <2>4. asked' = NoRoot /\ answer' = IF restoring THEN "error" ELSE "ok"
        BY <1>5 DEF Return
    <2>5. CASE restoring
        <3>1. Target = RootOf(current) /\ current # 0
            BY <1>1, <2>5 DEF SupervisorInv, CallKnows, Target
        <3>2. Runtime!Fail
            BY <1>1, <1>3, <2>2, <2>3, <2>4, <2>5, <3>1 DEF Runtime!Fail
        <3> QED BY <3>2 DEF Runtime!Next
    <2>6. CASE ~restoring
        <3>1. Runtime!Succeed
            BY <1>1, <2>2, <2>3, <2>4, <2>6 DEF Target, Runtime!Succeed
        <3> QED BY <3>1 DEF Runtime!Next
    <2> QED BY <2>5, <2>6
<1> QED BY <1>4, <1>5 DEF Ready

(* The steps that only a group sees.                                       *)
LEMMA GroupPromise ==
    ASSUME SupervisorInv, NEW g \in Gids, WatchStep(g) \/ \E m \in Members : MemberStep(g, m)
    PROVE  [Runtime!Next]_Runtime!rvars
<1>1. Passive
    BY WatchPassive, ExitPassive, ReapPassive DEF MemberStep
<1>2. /\ RootOf(current)' = RootOf(current)
      /\ (current # 0 /\ ~group[current].stopped)' = (current # 0 /\ ~group[current].stopped)
    BY <1>1, Numbers DEF SupervisorInv, Passive, RootOf
<1>3. CASE UNCHANGED fatal
    BY <1>1, <1>2, <1>3 DEF Passive, callVars, Runtime!rvars
<1>4. CASE fatal'
    <2>1. (fatal \/ run \notin {"boot", "serve"})' = TRUE
        BY <1>4
    <2>2. Runtime!Report
        BY <1>1, <1>2, <2>1 DEF Passive, callVars, Runtime!Report
    <2> QED BY <2>2 DEF Runtime!Next
<1>5. UNCHANGED fatal \/ fatal'
    BY WatchReportsLoss DEF MemberStep, Exit, Reap
<1> QED BY <1>3, <1>4, <1>5

LEMMA CallPromise ==
    ASSUME SupervisorInv, CallStep
    PROVE  [Runtime!Next]_Runtime!rvars
<1>1. TypeOK /\ ~Ended
    BY DEF SupervisorInv, CallStep, ApplyLocks, PreviousStopped, LoadRules, Launch, Ready, Abandoned
<1>2. CASE ApplyLocks
    <2>1. CASE current = 0
        BY <1>2, <2>1 DEF ApplyLocks, RootOf, Runtime!rvars
    <2>2. CASE current # 0
        <3>1. current \in Gids /\ group' = [group EXCEPT ![current] = Halted(current)]
              /\ pc # "idle"
            BY <1>1, <1>2, <2>2, Numbers DEF ApplyLocks
        <3>2. group'[current].root = group[current].root /\ group'[current].stopped
            BY <1>1, <3>1, HaltedGroup, Changed
        <3>3. /\ RootOf(current)' = RootOf(current)
              /\ (current # 0 /\ ~group[current].stopped)' = FALSE
              /\ UNCHANGED <<run, asked, answer, fatal>>
            BY <1>2, <2>2, <3>2 DEF ApplyLocks, RootOf
        <3>4. CASE group[current].stopped
            BY <3>3, <3>4 DEF Runtime!rvars
        <3>5. CASE ~group[current].stopped
            <4>1. Runtime!TakeDown
                BY <2>2, <3>1, <3>3, <3>5, CallAsked DEF Runtime!TakeDown
            <4> QED BY <4>1 DEF Runtime!Next
        <3> QED BY <3>4, <3>5
    <2> QED BY <2>1, <2>2
<1>3. CASE PreviousStopped
    <2>1. Busy /\ UNCHANGED <<current, group>>
        BY <1>3 DEF PreviousStopped, Busy
    <2>2. CASE UNCHANGED <<run, asked, answer, fatal>>
        BY <2>1, <2>2 DEF RootOf, Runtime!rvars
    <2>3. CASE fatal' = TRUE /\ Return("error")
        BY <1>1, <2>1, <2>3, StuckPromise
    <2> QED BY <1>3, <2>2, <2>3 DEF PreviousStopped
<1>4. CASE LoadRules
    <2>1. CASE Failed /\ UNCHANGED group
        BY <1>1, <1>4, <2>1, FailedPromise DEF LoadRules
    <2>2. CASE /\ group' = [group EXCEPT ![started + 1] = [NoGroup EXCEPT !.root = Target]]
               /\ UNCHANGED <<run, asked, answer, fatal>>
        <3>1. current # started + 1 /\ (current # 0 => current \in Gids)
            BY <1>1, Numbers, GroupsAssumption DEF SupervisorInv, TypeOK, GroupsKnown
        <3>2. current' = current /\ (current # 0 => group'[current] = group[current])
            BY <1>1, <1>4, <2>2, <3>1 DEF LoadRules, TypeOK
        <3>3. /\ RootOf(current)' = RootOf(current)
              /\ (current # 0 /\ ~group[current].stopped)' = (current # 0 /\ ~group[current].stopped)
            BY <3>2 DEF RootOf
        <3> QED BY <2>2, <3>3 DEF Runtime!rvars
    <2> QED BY <1>4, <2>1, <2>2 DEF LoadRules
<1>5. CASE Launch
    <2>1. /\ UNCHANGED <<run, asked, answer, fatal, current>> /\ current < fresh
          /\ (current # 0 => current \in Gids) /\ current # fresh
        BY <1>1, <1>5, Numbers, GroupsAssumption
           DEF SupervisorInv, TypeOK, CallKnows, Launch, Busy, Building
    <2>2. current # 0 => group'[current] = group[current]
        BY <1>1, <1>5, <2>1 DEF Launch, TypeOK
    <2> QED BY <2>1, <2>2 DEF RootOf, Runtime!rvars
<1>6. CASE Ready
    BY <1>6, ReadyPromise
<1>7. CASE Abandoned
    <2>1. Busy /\ Building /\ UNCHANGED <<current, group>>
        BY <1>7 DEF Abandoned, Busy, Building
    <2>2. CASE Failed
        BY <1>1, <2>1, <2>2, FailedPromise
    <2>3. CASE fatal' = (fatal \/ run # "boot") /\ Return("error")
        BY <1>1, <2>1, <2>3, StuckPromise
    <2> QED BY <1>7, <2>2, <2>3 DEF Abandoned
<1> QED BY <1>2, <1>3, <1>4, <1>5, <1>6, <1>7 DEF CallStep

LEMMA RunPromise ==
    ASSUME SupervisorInv, RunStep
    PROVE  [Runtime!Next]_Runtime!rvars
<1>1. TypeOK
    BY DEF SupervisorInv
<1>2. CASE RunReturns
    <2>1. (fatal \/ run \notin {"boot", "serve"})' = TRUE
        BY <1>2 DEF RunReturns
    <2>2. Runtime!Report
        BY <1>2, <2>1 DEF RunReturns, callVars, RootOf, Runtime!Report
    <2> QED BY <2>2 DEF Runtime!Next
<1>3. CASE StopLocks
    <2>1. /\ UNCHANGED <<asked, answer, current, fatal>> /\ run = "stopping" /\ run' = run
        BY <1>3 DEF StopLocks, callVars
    <2>2. /\ RootOf(current)' = RootOf(current)
          /\ (current # 0 /\ ~group[current].stopped)' = FALSE
        <3>1. CASE current = 0
            BY <2>1, <3>1 DEF RootOf
        <3>2. CASE current # 0
            <4>1. current \in Gids /\ group' = [group EXCEPT ![current] = Halted(current)]
                BY <1>1, <1>3, <3>2, Numbers DEF StopLocks
            <4>2. group'[current].root = group[current].root /\ group'[current].stopped
                BY <1>1, <4>1, HaltedGroup, Changed
            <4> QED BY <2>1, <3>2, <4>2 DEF RootOf
        <3> QED BY <3>1, <3>2
    <2>3. Runtime!Stop
        BY <2>1, <2>2 DEF Runtime!Stop
    <2> QED BY <2>3 DEF Runtime!Next
<1>4. CASE Stopped \/ ProcessEnds
    <2>1. /\ UNCHANGED <<asked, answer>> /\ current' = 0
          /\ run \notin {"boot", "serve"} /\ run' \notin {"boot", "serve"}
        BY <1>4 DEF Stopped, ProcessEnds, callVars
    <2>2. Runtime!Stop
        BY <2>1 DEF RootOf, Runtime!Stop
    <2> QED BY <2>2 DEF Runtime!Next
<1> QED BY <1>2, <1>3, <1>4 DEF RunStep

LEMMA PromiseStep ==
    ASSUME SupervisorInv, [Next]_vars
    PROVE  [Runtime!Next]_Runtime!rvars
<1>1. CASE \E r \in Roots : Apply(r)
    <2>1. PICK r \in Roots : Apply(r)
        BY <1>1
    <2>2. asked = NoRoot
        BY <2>1 DEF SupervisorInv, CallKnows, Apply
    <2>3. (fatal \/ run \notin {"boot", "serve"})' = (fatal \/ run \notin {"boot", "serve"})
        BY <2>1 DEF Apply
    <2>4. Runtime!Ask(r)
        BY <2>1, <2>2, <2>3 DEF Apply, RootOf, Runtime!Ask
    <2> QED BY <2>4 DEF Runtime!Next
<1>2. CASE CallStep
    BY <1>2, CallPromise
<1>3. CASE RunStep
    BY <1>3, RunPromise
<1>4. CASE Signal \/ UNCHANGED vars
    BY <1>4 DEF Signal, vars, callVars, RootOf, Runtime!rvars
<1>5. CASE \E g \in Gids : WatchStep(g) \/ \E m \in Members : MemberStep(g, m)
    BY <1>5, GroupPromise
<1> QED BY <1>1, <1>2, <1>3, <1>4, <1>5 DEF Next

(* The supervisor implements ManagedRuntime, on which the service builds:  *)
(* an Apply answered with "ok" has put its root in force, one answered     *)
(* with an error has left the one before in force or reported it lost.     *)
THEOREM PromiseKept == Spec => KeepsPromise
<1>1. SupervisorInv /\ [Next]_vars => [Runtime!Next]_Runtime!rvars
    BY PromiseStep
<1> QED BY <1>1, PromiseInit, SupervisorCorrect, PTL DEF Spec, KeepsPromise, Runtime!Spec
===============================================================================
