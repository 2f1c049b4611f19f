------------------------ MODULE ApplyOperationsProofs ------------------------
(***************************************************************************)
(* The safety of the apply button for any number of panels, operations and *)
(* losses.  OperationsInv is inductive: its types, who waits for what      *)
(* (Exchanges) and where final statuses come from (Outcomes) together give *)
(* the two properties.                                                     *)
(***************************************************************************)
EXTENDS ApplyOperations, TLAPS

(* Where the statuses and the null operation stand.                        *)
LEMMA Constants ==
    /\ \A i \in Ops : i # NoOp /\ i \in Nat
    /\ \A o \in Operation : o.id \in Ops /\ o.status \in Statuses
    /\ NoOperation.id = NoOp /\ NoOperation.status \notin Statuses
BY PanelsAssumption, OpsAssumption
   DEF Ops, Operation, NoOperation, Statuses, Terminal

LEMMA InitInv == Init => OperationsInv
<1> SUFFICES ASSUME Init PROVE OperationsInv
    OBVIOUS
<1>1. TypeOK
    BY PanelsAssumption, OpsAssumption
       DEF Init, TypeOK, Replies, Statuses, Final, Terminal, NoOperation, Ops
<1>2. Exchanges /\ Outcomes /\ RunOwnsLatest /\ ShownIsTrue
    BY DEF Init, Exchanges, Outcomes, RunOwnsLatest, ShownIsTrue, NoOperation, Terminal
<1> QED BY <1>1, <1>2 DEF OperationsInv

(***************************************************************************)
(* The panel.                                                              *)
(***************************************************************************)
LEMMA ClickInv ==
    ASSUME OperationsInv, NEW p \in Panels, Click(p)
    PROVE  OperationsInv'
<1> USE DEF OperationsInv, Click, panelVars, daemonVars
<1>0. ops + 1 \in Ops /\ ops + 1 \in 0 .. MaxOps
    BY OpsAssumption DEF TypeOK, Ops
<1>1. TypeOK'
    BY <1>0 DEF TypeOK, Final
<1>2. reply[p] = "none" /\ \A q \in requests : q.awaited => q.from # p
    BY DEF Exchanges
<1>3. Exchanges'
    BY <1>0, <1>2 DEF TypeOK, Exchanges, Request
<1>4. Outcomes'
    BY <1>2 DEF TypeOK, Outcomes, Terminal
<1>5. RunOwnsLatest' /\ ShownIsTrue'
    BY DEF TypeOK, RunOwnsLatest, ShownIsTrue, Terminal
<1> QED BY <1>1, <1>3, <1>4, <1>5

LEMMA SendInv ==
    ASSUME OperationsInv, NEW p \in Panels, Send(p)
    PROVE  OperationsInv'
<1> USE DEF OperationsInv, Send, daemonVars
<1>0. op[p] \in Ops
    BY DEF Exchanges
<1>1. TypeOK'
    <2>1. \A k \in {"post", "get"} :
              [from |-> p, kind |-> k, id |-> op[p], awaited |-> TRUE] \in Request
        BY <1>0 DEF Request
    <2>2. requests' \subseteq Request
        BY <2>1 DEF TypeOK
    <2>3. page' \in [Panels -> {"idle", "send", "wait", "sleep", "shown"}]
        BY DEF TypeOK
    <2> QED BY <2>2, <2>3 DEF TypeOK
<1>2. Exchanges'
    <2>1. /\ page'[p] = "wait" /\ reply[p] = "none"
          /\ \A o \in Panels \ {p} : page'[o] = page[o]
          /\ \A q \in requests : q.awaited => q.from # p
        BY DEF TypeOK, Exchanges
    <2> DEFINE n == [from |-> p, kind |-> IF submitted[p] THEN "get" ELSE "post",
                     id |-> op[p], awaited |-> TRUE]
    <2>2. requests' = requests \cup {n} /\ n.from = p /\ n.id = op[p]
        OBVIOUS
    <2>3. \A q \in requests : q.from \in Panels
        BY DEF TypeOK, Request
    <2> HIDE DEF n
    <2>4. \A o \in Panels : page'[o] # "idle" => op'[o] \in Ops
        BY <1>0, <2>1 DEF Exchanges
    <2>5. \A q \in requests' : q.awaited => page'[q.from] = "wait" /\ q.id = op'[q.from]
        BY <2>1, <2>2, <2>3 DEF Exchanges
    <2>6. \A q, r \in requests' : q.awaited /\ r.awaited /\ q.from = r.from => q = r
        BY <2>1, <2>2 DEF Exchanges
    <2>7. \A o \in Panels :
              reply'[o] # "none" =>
                  page'[o] = "wait" /\ \A q \in requests' : q.awaited => q.from # o
        BY <2>1, <2>2 DEF Exchanges
    <2> QED BY <2>4, <2>5, <2>6, <2>7 DEF Exchanges
<1>3. Outcomes' /\ RunOwnsLatest' /\ ShownIsTrue'
    BY DEF Outcomes, RunOwnsLatest, ShownIsTrue
<1> QED BY <1>1, <1>2, <1>3

LEMMA ReceiveInv ==
    ASSUME OperationsInv, NEW p \in Panels, Receive(p)
    PROVE  OperationsInv'
<1> USE DEF OperationsInv, Receive, daemonVars
<1>1. TypeOK'
    <2>1. /\ page' \in [Panels -> {"idle", "send", "wait", "sleep", "shown"}]
          /\ submitted' \in [Panels -> BOOLEAN]
          /\ shown' \in [Panels -> Final \cup {"none"}]
        BY DEF TypeOK
    <2>2. reply' \in [Panels -> Replies]
        BY DEF TypeOK, Replies
    <2> QED BY <2>1, <2>2 DEF TypeOK
<1>2. Exchanges'
    <2>1. /\ reply'[p] = "none" /\ page[p] # "idle"
          /\ \A o \in Panels \ {p} : page'[o] = page[o] /\ reply'[o] = reply[o]
          /\ \A q \in requests : q.awaited => q.from # p
        BY DEF TypeOK, Exchanges
    <2>2. \A q \in requests : q.from \in Panels
        BY DEF TypeOK, Request
    <2> QED BY <2>1, <2>2 DEF Exchanges
<1>3. Outcomes' /\ RunOwnsLatest'
    BY DEF TypeOK, Outcomes, RunOwnsLatest, Terminal
<1>4. ShownIsTrue'
    BY DEF TypeOK, Outcomes, ShownIsTrue, Final, Terminal
<1> QED BY <1>1, <1>2, <1>3, <1>4

LEMMA WakeInv ==
    ASSUME OperationsInv, NEW p \in Panels, Wake(p)
    PROVE  OperationsInv'
<1> USE DEF OperationsInv, Wake, daemonVars
<1>1. TypeOK' /\ Exchanges'
    BY DEF TypeOK, Exchanges
<1>2. Outcomes' /\ RunOwnsLatest' /\ ShownIsTrue'
    BY DEF Outcomes, RunOwnsLatest, ShownIsTrue
<1> QED BY <1>1, <1>2

(***************************************************************************)
(* The network.                                                            *)
(***************************************************************************)

(* A panel that gives up leaves nobody waiting for what it had asked.      *)
LEMMA LosesInv ==
    ASSUME OperationsInv, NEW p \in Panels, Loses(p),
           UNCHANGED <<op, submitted, shown, daemonVars, ops>>,
           faults' \in 0 .. MaxFaults
    PROVE  OperationsInv'
<1> USE DEF OperationsInv, Loses, daemonVars
<1>0. /\ requests' \subseteq Request
      /\ \A q \in requests' : q.awaited => q \in requests /\ q.from # p
    <2>1. /\ Awaited(p) \subseteq Request
          /\ \A q \in Request : /\ [q EXCEPT !.awaited = FALSE] \in Request
                               /\ ~[q EXCEPT !.awaited = FALSE].awaited
        BY DEF TypeOK, Awaited, Request
    <2>2. \A q \in requests \ Awaited(p) : q.awaited => q.from # p
        BY DEF Awaited
    <2>3. CASE requests' = requests \ Awaited(p)
        BY <2>2, <2>3 DEF TypeOK
    <2>4. CASE requests' = (requests \ Awaited(p)) \cup
                               {[q EXCEPT !.awaited = FALSE] : q \in Awaited(p)}
        BY <2>1, <2>2, <2>4 DEF TypeOK
    <2> QED BY <2>3, <2>4
<1>1. TypeOK'
    <2>1. page' \in [Panels -> {"idle", "send", "wait", "sleep", "shown"}]
        BY DEF TypeOK
    <2>2. reply' \in [Panels -> Replies]
        BY DEF TypeOK, Replies
    <2> QED BY <1>0, <2>1, <2>2 DEF TypeOK
<1>2. Exchanges'
    BY <1>0 DEF TypeOK, Exchanges, Request
<1>3. Outcomes' /\ RunOwnsLatest' /\ ShownIsTrue'
    BY DEF TypeOK, Outcomes, RunOwnsLatest, ShownIsTrue, Terminal
<1> QED BY <1>1, <1>2, <1>3

LEMMA ExchangeFailsInv ==
    ASSUME OperationsInv, NEW p \in Panels, ExchangeFails(p)
    PROVE  OperationsInv'
<1>1. faults' \in 0 .. MaxFaults
    BY OpsAssumption DEF ExchangeFails, OperationsInv, TypeOK
<1> QED BY <1>1, LosesInv DEF ExchangeFails

LEMMA ConnectionRefusedInv ==
    ASSUME OperationsInv, NEW p \in Panels, ConnectionRefused(p)
    PROVE  OperationsInv'
<1>1. faults' \in 0 .. MaxFaults
    BY DEF ConnectionRefused, OperationsInv, TypeOK
<1> QED BY <1>1, LosesInv DEF ConnectionRefused

LEMMA EvaporatesInv ==
    ASSUME OperationsInv, NEW q \in requests, Evaporates(q)
    PROVE  OperationsInv'
<1> USE DEF OperationsInv, Evaporates, panelVars, daemonVars
<1>1. TypeOK' /\ Exchanges'
    BY DEF TypeOK, Exchanges
<1>2. Outcomes' /\ RunOwnsLatest' /\ ShownIsTrue'
    BY DEF Outcomes, RunOwnsLatest, ShownIsTrue
<1> QED BY <1>1, <1>2

(***************************************************************************)
(* The daemon.                                                             *)
(***************************************************************************)

(* An answer that is a status is allowed to be final only for an operation *)
(* whose run has ended so.                                                 *)
LEMMA AnswerInv ==
    ASSUME OperationsInv, NEW q \in requests, NEW r \in Replies \ {"none"}, Answer(q, r),
           r \in Terminal => [op |-> q.id, status |-> r] \in ended,
           UNCHANGED <<panelVars, ended>>
    PROVE  /\ reply' \in [Panels -> Replies] /\ requests' \subseteq Request
           /\ Exchanges'
           /\ \A p \in Panels :
                 reply'[p] \in Terminal => [op |-> op'[p], status |-> reply'[p]] \in ended'
<1> USE DEF OperationsInv, Answer, panelVars
<1>0. q \in Request /\ q.from \in Panels
    BY DEF TypeOK, Request
<1>1. reply' \in [Panels -> Replies] /\ requests' \subseteq Request
    BY <1>0 DEF TypeOK
<1>2. Exchanges'
    BY <1>0 DEF TypeOK, Exchanges
<1>3. \A p \in Panels :
          reply'[p] \in Terminal => [op |-> op'[p], status |-> reply'[p]] \in ended'
    BY <1>0 DEF TypeOK, Exchanges, Outcomes
<1> QED BY <1>1, <1>2, <1>3

LEMMA StatusInv ==
    ASSUME OperationsInv, NEW q \in requests, Status(q)
    PROVE  OperationsInv'
<1> DEFINE r == IF latest.id = q.id THEN latest.status ELSE "unknown"
<1>0. q.id \in Ops
    BY DEF OperationsInv, TypeOK, Request
<1>1. r \in Replies \ {"none"} /\ (r \in Terminal => [op |-> q.id, status |-> r] \in ended)
    BY <1>0, Constants DEF OperationsInv, TypeOK, Outcomes, Replies, Statuses, Terminal
<1>2. /\ reply' \in [Panels -> Replies] /\ requests' \subseteq Request
      /\ Exchanges'
      /\ \A p \in Panels :
            reply'[p] \in Terminal => [op |-> op'[p], status |-> reply'[p]] \in ended'
    <2>1. Answer(q, r) /\ UNCHANGED <<panelVars, ended>>
        BY DEF Status, daemonVars
    <2> HIDE DEF r
    <2> QED BY <1>1, <2>1, AnswerInv
<1>3. TypeOK' /\ Outcomes' /\ RunOwnsLatest' /\ ShownIsTrue'
    BY <1>2 DEF Status, panelVars, daemonVars, OperationsInv, TypeOK, Outcomes,
                RunOwnsLatest, ShownIsTrue
<1> QED BY <1>2, <1>3 DEF OperationsInv

LEMMA BeginInv ==
    ASSUME OperationsInv, NEW q \in requests, Begin(q)
    PROVE  OperationsInv'
<1>0. q.id \in Ops /\ q.id # NoOp
    BY Constants DEF OperationsInv, TypeOK, Request
<1>1. CASE UNCHANGED <<latest, runs>>
    <2>1. PICK r \in Replies \ {"none"} :
              Answer(q, r) /\ (r \in Terminal => [op |-> q.id, status |-> r] \in ended)
        <3>1. CASE latest.id = q.id /\ Answer(q, latest.status)
            BY <1>0, <3>1, Constants
               DEF OperationsInv, TypeOK, Outcomes, Replies, Statuses, Terminal
        <3>2. CASE Answer(q, "conflict")
            BY <3>2 DEF Replies, Terminal
        <3>3. CASE Answer(q, "queued")
            BY <3>3 DEF Replies, Statuses, Terminal
        <3> QED BY <3>1, <3>2, <3>3 DEF Begin
    <2>2. /\ reply' \in [Panels -> Replies] /\ requests' \subseteq Request
          /\ Exchanges'
          /\ \A p \in Panels :
                reply'[p] \in Terminal => [op |-> op'[p], status |-> reply'[p]] \in ended'
        BY <2>1, AnswerInv DEF Begin
    <2>3. TypeOK' /\ Outcomes' /\ RunOwnsLatest' /\ ShownIsTrue'
        BY <1>1, <2>2 DEF Begin, panelVars, OperationsInv, TypeOK, Outcomes,
                          RunOwnsLatest, ShownIsTrue
    <2> QED BY <2>2, <2>3 DEF OperationsInv
<1>2. CASE /\ latest.id = NoOp \/ latest.status \in Terminal
           /\ latest' = [id |-> q.id, status |-> "queued"]
           /\ runs' = runs \cup {q.id}
           /\ Answer(q, "queued")
    <2>1. runs = {}
        BY <1>2, Constants DEF OperationsInv, TypeOK, RunOwnsLatest
    <2>2. /\ reply' \in [Panels -> Replies] /\ requests' \subseteq Request
          /\ Exchanges'
          /\ \A p \in Panels :
                reply'[p] \in Terminal => [op |-> op'[p], status |-> reply'[p]] \in ended'
        <3>1. "queued" \in Replies \ {"none"} /\ "queued" \notin Terminal
            BY DEF Replies, Statuses, Terminal
        <3> QED BY <1>2, <3>1, AnswerInv DEF Begin
    <2>3. TypeOK'
        BY <1>0, <1>2, <2>2
           DEF Begin, panelVars, OperationsInv, TypeOK, Operation, Statuses
    <2>4. Outcomes' /\ RunOwnsLatest' /\ ShownIsTrue'
        BY <1>2, <2>1, <2>2 DEF Begin, panelVars, OperationsInv, Outcomes,
                                RunOwnsLatest, ShownIsTrue, Terminal
    <2> QED BY <2>2, <2>3, <2>4 DEF OperationsInv
<1> QED BY <1>1, <1>2 DEF Begin

LEMMA RunStartsInv ==
    ASSUME OperationsInv, NEW id \in Ops, RunStarts(id)
    PROVE  OperationsInv'
<1> USE DEF OperationsInv, RunStarts, panelVars
<1>0. latest \in Operation /\ latest' = [id |-> latest.id, status |-> "running"]
    BY Constants DEF TypeOK, RunOwnsLatest, NoOperation, Operation
<1>1. TypeOK'
    BY <1>0 DEF TypeOK, Operation, Statuses
<1>2. Exchanges' /\ ShownIsTrue'
    BY DEF Exchanges, ShownIsTrue
<1>3. Outcomes' /\ RunOwnsLatest'
    BY <1>0 DEF Outcomes, RunOwnsLatest, Terminal
<1> QED BY <1>1, <1>2, <1>3

LEMMA RunEndsInv ==
    ASSUME OperationsInv, NEW id \in Ops, RunEnds(id)
    PROVE  OperationsInv'
<1> USE DEF OperationsInv, RunEnds, panelVars
<1>0. PICK s \in Terminal : /\ latest' = [latest EXCEPT !.status = s]
                            /\ ended' = ended \cup {[op |-> id, status |-> s]}
    OBVIOUS
<1>1. runs = {id} /\ latest.id = id /\ latest \in Operation
    BY Constants DEF TypeOK, RunOwnsLatest
<1>2. latest' = [id |-> id, status |-> s]
    BY <1>0, <1>1 DEF Operation
<1>3. TypeOK'
    <2>1. latest' \in Operation
        BY <1>2 DEF Operation, Statuses
    <2>2. ended' \subseteq [op : Ops, status : Terminal] /\ runs' \subseteq Ops
        BY <1>0 DEF TypeOK
    <2> QED BY <2>1, <2>2 DEF TypeOK
<1>4. Exchanges' /\ ShownIsTrue'
    BY <1>0 DEF Exchanges, ShownIsTrue
<1>5. Outcomes' /\ RunOwnsLatest'
    BY <1>0, <1>1, <1>2 DEF Outcomes, RunOwnsLatest
<1> QED BY <1>3, <1>4, <1>5

LEMMA DaemonDiesInv ==
    ASSUME OperationsInv, DaemonDies
    PROVE  OperationsInv'
<1> USE DEF OperationsInv, DaemonDies, panelVars
<1>1. TypeOK'
    <2>1. faults' \in 0 .. MaxFaults
        BY OpsAssumption DEF TypeOK
    <2>2. /\ up' \in BOOLEAN /\ latest' \in Operation \cup {NoOperation}
          /\ requests' \subseteq Request /\ runs' \subseteq Ops
        OBVIOUS
    <2> QED BY <2>1, <2>2 DEF TypeOK
<1>2. Exchanges' /\ RunOwnsLatest' /\ ShownIsTrue'
    BY DEF Exchanges, RunOwnsLatest, ShownIsTrue
<1>3. Outcomes'
    BY DEF Outcomes, NoOperation, Terminal
<1> QED BY <1>1, <1>2, <1>3

LEMMA DaemonStartsInv ==
    ASSUME OperationsInv, DaemonStarts
    PROVE  OperationsInv'
BY DEF OperationsInv, DaemonStarts, panelVars, TypeOK, Exchanges, Outcomes,
       RunOwnsLatest, ShownIsTrue

-----------------------------------------------------------------------------
(* The invariant from which the theorems below follow.                     *)
THEOREM OperationsCorrect == Spec => []OperationsInv
<1>1. OperationsInv /\ [Next]_vars => OperationsInv'
    <2> SUFFICES ASSUME OperationsInv, [Next]_vars PROVE OperationsInv'
        OBVIOUS
    <2>1. ASSUME NEW p \in Panels, Click(p) \/ PanelStep(p) \/ ExchangeFails(p)
          PROVE  OperationsInv'
        BY <2>1, ClickInv, SendInv, ReceiveInv, WakeInv, ConnectionRefusedInv,
           ExchangeFailsInv DEF PanelStep
    <2>2. ASSUME NEW q \in requests, Handle(q) \/ Evaporates(q)
          PROVE  OperationsInv'
        BY <2>2, BeginInv, StatusInv, EvaporatesInv DEF Handle
    <2>3. ASSUME NEW id \in Ops, RunStarts(id) \/ RunEnds(id)
          PROVE  OperationsInv'
        BY <2>3, RunStartsInv, RunEndsInv
    <2>4. CASE DaemonDies \/ DaemonStarts
        BY <2>4, DaemonDiesInv, DaemonStartsInv
    <2>5. CASE UNCHANGED vars
        BY <2>5 DEF vars, panelVars, daemonVars, OperationsInv, TypeOK, Exchanges,
                    Outcomes, RunOwnsLatest, ShownIsTrue
    <2> QED BY <2>1, <2>2, <2>3, <2>4, <2>5 DEF Next
<1> QED BY InitInv, <1>1, PTL DEF Spec

(* applyCoordinator.run writes its outcome to its own operation, and no    *)
(* two runs overlap, whatever is posted and whenever the daemon dies.      *)
THEOREM RunsOwnLatest == Spec => []RunOwnsLatest
BY OperationsCorrect, PTL DEF OperationsInv

(* A panel never shows an outcome that is not of a run of its operation.   *)
THEOREM ShowsOwnOutcome == Spec => []ShownIsTrue
BY OperationsCorrect, PTL DEF OperationsInv

=============================================================================
