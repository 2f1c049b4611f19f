--------------------------- MODULE ApplyOperations ---------------------------
(***************************************************************************)
(* The apply button: the panel's waitForApply (web/src/App.vue) against    *)
(* the applyCoordinator of internal/api, over a network that loses         *)
(* requests and answers and delivers requests the browser has given up on, *)
(* with a daemon that restarts.                                            *)
(*                                                                         *)
(* The panel names each operation with a fresh UUID, posts it, polls it    *)
(* and, when the daemon does not know it, posts it again.  The coordinator *)
(* keeps the latest operation only, in memory.  ApplyBundle is the atomic  *)
(* register of AtomicApply: here a run ends well or badly.                 *)
(***************************************************************************)
EXTENDS Naturals, FiniteSets

CONSTANTS
    Panels,             \* browser pages
    NoOp,               \* no operation
    MaxOps,             \* bound: operations started in one behaviour
    MaxFaults           \* bound: lost exchanges and daemon deaths

ASSUME PanelsAssumption == Panels # {} /\ NoOp \notin Nat

ASSUME OpsAssumption == MaxOps \in Nat \ {0} /\ MaxFaults \in Nat

VARIABLES
    page,               \* where waitForApply of each panel is
    op,                 \* its operationID
    submitted,          \* the daemon has answered for this operation
    shown,              \* the result the panel shows
    reply,              \* the answer under way to the panel
    requests,           \* requests under way to the daemon
    up,                 \* the daemon runs
    latest,             \* applyCoordinator.latest
    runs,               \* goroutines in applyCoordinator.run
    ended,              \* history: [op, status] of every run that ended
    ops, faults         \* counters of the bounds

panelVars  == <<page, op, submitted, shown>>
daemonVars == <<up, latest, runs, ended>>
vars == <<panelVars, reply, requests, daemonVars, ops, faults>>

Ops == 1 .. MaxOps

Terminal == {"succeeded", "failed"}
Statuses == {"queued", "running"} \cup Terminal
Replies  == Statuses \cup {"none", "unknown", "conflict"}

Operation == [id : Ops, status : Statuses]
NoOperation == [id |-> NoOp, status |-> "none"]

(* A request the panel still waits for is `awaited`; the others reach the  *)
(* daemon after the browser has reported a TypeError.                      *)
Request == [from : Panels, kind : {"post", "get"}, id : Ops, awaited : BOOLEAN]

Init ==
    /\ page = [p \in Panels |-> "idle"]
    /\ op = [p \in Panels |-> NoOp]
    /\ submitted = [p \in Panels |-> FALSE]
    /\ shown = [p \in Panels |-> "none"]
    /\ reply = [p \in Panels |-> "none"]
    /\ requests = {}
    /\ up = TRUE /\ latest = NoOperation /\ runs = {} /\ ended = {}
    /\ ops = 0 /\ faults = 0

-----------------------------------------------------------------------------
(* The panel.                                                              *)

(* apply: busy keeps the page from starting another one.                   *)
Click(p) ==
    /\ page[p] \in {"idle", "shown"}
    /\ ops < MaxOps
    /\ ops' = ops + 1
    /\ op' = [op EXCEPT ![p] = ops + 1]
    /\ submitted' = [submitted EXCEPT ![p] = FALSE]
    /\ shown' = [shown EXCEPT ![p] = "none"]
    /\ page' = [page EXCEPT ![p] = "send"]
    /\ UNCHANGED <<reply, requests, daemonVars, faults>>

Send(p) ==
    /\ page[p] = "send"
    /\ requests' = requests \cup
          {[from |-> p, kind |-> IF submitted[p] THEN "get" ELSE "post",
            id |-> op[p], awaited |-> TRUE]}
    /\ page' = [page EXCEPT ![p] = "wait"]
    /\ UNCHANGED <<op, submitted, shown, reply, daemonVars, ops, faults>>

(* Mutant: a panel that has been answered once never posts again.          *)
ReceiveOnce(p) ==
    /\ page[p] = "wait" /\ reply[p] # "none"
    /\ IF reply[p] \in Terminal \cup {"conflict"}
       THEN /\ shown' = [shown EXCEPT ![p] = reply[p]]
            /\ page' = [page EXCEPT ![p] = "shown"]
            /\ UNCHANGED submitted
       ELSE /\ submitted' = [submitted EXCEPT ![p] = TRUE]
            /\ page' = [page EXCEPT ![p] = "sleep"]
            /\ UNCHANGED shown
    /\ reply' = [reply EXCEPT ![p] = "none"]
    /\ UNCHANGED <<op, requests, daemonVars, ops, faults>>

(* The answers that end the wait: a final status, or an error that         *)
(* retryableApplyError does not accept.                                    *)
Final == Terminal \cup {"conflict"}

Receive(p) ==
    /\ page[p] = "wait" /\ reply[p] # "none"
    /\ IF reply[p] \in Final
       THEN /\ shown' = [shown EXCEPT ![p] = reply[p]]
            /\ page' = [page EXCEPT ![p] = "shown"]
            /\ UNCHANGED submitted
       ELSE /\ submitted' = [submitted EXCEPT ![p] = reply[p] # "unknown"]
            /\ page' = [page EXCEPT ![p] = "sleep"]
            /\ UNCHANGED shown
    /\ reply' = [reply EXCEPT ![p] = "none"]
    /\ UNCHANGED <<op, requests, daemonVars, ops, faults>>

Wake(p) ==
    /\ page[p] = "sleep"
    /\ page' = [page EXCEPT ![p] = "send"]
    /\ UNCHANGED <<op, submitted, shown, reply, requests, daemonVars, ops, faults>>

-----------------------------------------------------------------------------
(* The network.                                                            *)

Awaited(p) == {q \in requests : q.from = p /\ q.awaited}

(* fetch rejects with a TypeError, or a proxy answers 5xx: the request may *)
(* or may not still arrive.                                                *)
Loses(p) ==
    /\ page[p] = "wait"
    /\ reply' = [reply EXCEPT ![p] = "none"]
    /\ page' = [page EXCEPT ![p] = "sleep"]
    /\ \/ requests' = requests \ Awaited(p)
       \/ requests' = (requests \ Awaited(p)) \cup
                          {[q EXCEPT !.awaited = FALSE] : q \in Awaited(p)}

ExchangeFails(p) ==
    /\ faults < MaxFaults
    /\ faults' = faults + 1
    /\ Loses(p)
    /\ UNCHANGED <<op, submitted, shown, daemonVars, ops>>

(* Nobody is left to answer.                                               *)
ConnectionRefused(p) ==
    /\ ~up \/ Awaited(p) = {}
    /\ reply[p] = "none"
    /\ Loses(p)
    /\ UNCHANGED <<op, submitted, shown, daemonVars, ops, faults>>

(* A request that nobody waits for gets lost.                              *)
Evaporates(q) ==
    /\ q \in requests /\ ~q.awaited
    /\ requests' = requests \ {q}
    /\ UNCHANGED <<panelVars, reply, daemonVars, ops, faults>>

-----------------------------------------------------------------------------
(* The daemon.                                                             *)

Answer(q, r) ==
    /\ requests' = requests \ {q}
    /\ reply' = IF q.awaited THEN [reply EXCEPT ![q.from] = r] ELSE reply

(* begin, and the goroutine it starts.                                     *)
Begin(q) ==
    /\ up /\ q.kind = "post"
    /\ \/ /\ latest.id = q.id
          /\ Answer(q, latest.status)
          /\ UNCHANGED <<latest, runs>>
       \/ /\ latest.id \notin {q.id, NoOp} /\ latest.status \notin Terminal
          /\ Answer(q, "conflict")
          /\ UNCHANGED <<latest, runs>>
       \/ /\ latest.id # q.id
          /\ latest.id = NoOp \/ latest.status \in Terminal
          /\ latest' = [id |-> q.id, status |-> "queued"]
          /\ runs' = runs \cup {q.id}
          /\ Answer(q, "queued")
    /\ UNCHANGED <<panelVars, up, ended, ops, faults>>

(* Mutant: the latest operation answers for every ID.                      *)
StatusOfLatest(q) ==
    /\ up /\ q.kind = "get"
    /\ Answer(q, IF latest.id # NoOp THEN latest.status ELSE "unknown")
    /\ UNCHANGED <<panelVars, daemonVars, ops, faults>>

Status(q) ==
    /\ up /\ q.kind = "get"
    /\ Answer(q, IF latest.id = q.id THEN latest.status ELSE "unknown")
    /\ UNCHANGED <<panelVars, daemonVars, ops, faults>>

Handle(q) == q \in requests /\ (Begin(q) \/ Status(q))

(* run writes through c.latest, whichever operation that is.               *)
RunStarts(id) ==
    /\ id \in runs /\ latest.status = "queued"
    /\ latest' = [latest EXCEPT !.status = "running"]
    /\ UNCHANGED <<panelVars, reply, requests, up, runs, ended, ops, faults>>

RunEnds(id) ==
    /\ id \in runs /\ latest.status = "running"
    /\ runs' = runs \ {id}
    /\ \E s \in Terminal :
          /\ latest' = [latest EXCEPT !.status = s]
          /\ ended' = ended \cup {[op |-> id, status |-> s]}
    /\ UNCHANGED <<panelVars, reply, requests, up, ops, faults>>

(* A run that a dying daemon cuts short may have taken effect.             *)
DaemonDies ==
    /\ up /\ faults < MaxFaults
    /\ faults' = faults + 1
    /\ up' = FALSE
    /\ latest' = NoOperation /\ runs' = {}
    /\ requests' = {}
    /\ UNCHANGED <<panelVars, reply, ended, ops>>

DaemonStarts ==
    /\ ~up
    /\ up' = TRUE
    /\ UNCHANGED <<panelVars, reply, requests, latest, runs, ended, ops, faults>>

-----------------------------------------------------------------------------
PanelStep(p) == Send(p) \/ Receive(p) \/ Wake(p) \/ ConnectionRefused(p)

Next ==
    \/ \E p \in Panels : Click(p) \/ PanelStep(p) \/ ExchangeFails(p)
    \/ \E q \in requests : Handle(q) \/ Evaporates(q)
    \/ \E id \in Ops : RunStarts(id) \/ RunEnds(id)
    \/ DaemonDies \/ DaemonStarts

Spec == Init /\ [][Next]_vars

(* Timers fire, a request somebody waits for is handled or refused,        *)
(* ApplyBundle returns (ConfigService!CallsReturn), systemd restarts the   *)
(* daemon.  Losses are not fair: they stop when their bound is reached.    *)
Fairness ==
    /\ \A p \in Panels : WF_vars(PanelStep(p))
    /\ WF_vars(\E q \in requests : q.awaited /\ Handle(q))
    /\ \A id \in Ops : WF_vars(RunStarts(id)) /\ WF_vars(RunEnds(id))
    /\ WF_vars(DaemonStarts)

FairSpec == Spec /\ Fairness

-----------------------------------------------------------------------------
TypeOK ==
    /\ page \in [Panels -> {"idle", "send", "wait", "sleep", "shown"}]
    /\ op \in [Panels -> Ops \cup {NoOp}]
    /\ submitted \in [Panels -> BOOLEAN]
    /\ shown \in [Panels -> Final \cup {"none"}]
    /\ reply \in [Panels -> Replies]
    /\ requests \subseteq Request
    /\ up \in BOOLEAN
    /\ latest \in Operation \cup {NoOperation}
    /\ runs \subseteq Ops
    /\ ended \subseteq [op : Ops, status : Terminal]
    /\ ops \in 0 .. MaxOps /\ faults \in 0 .. MaxFaults

(* run writes its outcome through the shared pointer c.latest: that is its *)
(* own operation, since none is displaced before its run has ended, and    *)
(* ApplyBundle never has two callers from the panel at a time.             *)
RunOwnsLatest ==
    \A id \in runs : runs = {id} /\ latest.id = id /\ latest.status \notin Terminal

(* The result a panel shows is that of a run of the very operation it      *)
(* started, whatever other panels apply, however stale the answer is and   *)
(* however often the daemon restarts.                                      *)
ShownIsTrue ==
    \A p \in Panels : shown[p] \in Terminal => [op |-> op[p], status |-> shown[p]] \in ended

(* README.md:111, the panel waits by itself and shows the final result,    *)
(* unless other panels go on applying for ever.                            *)
Applying(p) == page[p] \in {"send", "wait", "sleep"}

PanelFinishes ==
    \A p \in Panels :
        \/ Applying(p) ~> page[p] = "shown"
        \/ []<>(\E q \in Panels \ {p} : Applying(q))

-----------------------------------------------------------------------------
(* The strengthening that makes the two safety properties inductive.       *)

(* A panel waits for one request or one answer at a time, and under the    *)
(* operation it has now: a page starts another only after it has shown     *)
(* the last.                                                               *)
Exchanges ==
    /\ \A p \in Panels : page[p] # "idle" => op[p] \in Ops
    /\ \A q \in requests : q.awaited => page[q.from] = "wait" /\ q.id = op[q.from]
    /\ \A q, r \in requests : q.awaited /\ r.awaited /\ q.from = r.from => q = r
    /\ \A p \in Panels :
          reply[p] # "none" => page[p] = "wait" /\ \A q \in requests : q.awaited => q.from # p

(* A final status on its way is that of a run that ended.                  *)
Outcomes ==
    /\ latest.status \in Terminal => latest.id \in Ops /\ [op |-> latest.id, status |-> latest.status] \in ended
    /\ \A p \in Panels :
          reply[p] \in Terminal => [op |-> op[p], status |-> reply[p]] \in ended

OperationsInv == TypeOK /\ Exchanges /\ Outcomes /\ RunOwnsLatest /\ ShownIsTrue

-----------------------------------------------------------------------------
=============================================================================
