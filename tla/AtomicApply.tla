----------------------------- MODULE AtomicApply -----------------------------
(***************************************************************************)
(* What the panel promises of "apply" (README.md:109): the configuration   *)
(* in force is one register, and each call either replaces it at a single  *)
(* moment between the request and the answer or leaves it alone and is     *)
(* answered "failed".  A daemon that dies answers nobody: the calls it had *)
(* may have taken effect or not, the register keeps what it has.           *)
(***************************************************************************)
CONSTANTS Inputs, Callers, NoInput

VARIABLES
    config,             \* the input in force
    asked,              \* what each caller asked for, NoInput between calls
    took,               \* whether its call has taken effect
    answer              \* its last answer

avars == <<config, asked, took, answer>>

Init ==
    /\ config \in Inputs
    /\ asked = [a \in Callers |-> NoInput]
    /\ took = [a \in Callers |-> FALSE]
    /\ answer = [a \in Callers |-> "none"]

Ask(a, b) ==
    /\ asked[a] = NoInput
    /\ asked' = [asked EXCEPT ![a] = b]
    /\ answer' = [answer EXCEPT ![a] = "none"]
    /\ UNCHANGED <<config, took>>

TakeEffect(a) ==
    /\ asked[a] # NoInput /\ ~took[a]
    /\ config' = asked[a]
    /\ took' = [took EXCEPT ![a] = TRUE]
    /\ UNCHANGED <<asked, answer>>

Answer(a) ==
    /\ asked[a] # NoInput
    /\ asked' = [asked EXCEPT ![a] = NoInput]
    /\ took' = [took EXCEPT ![a] = FALSE]
    /\ \E r \in IF took[a] THEN {"changed", "unchanged"} ELSE {"failed"} :
          answer' = [answer EXCEPT ![a] = r]
    /\ UNCHANGED config

Restart ==
    /\ asked' = [a \in Callers |-> NoInput]
    /\ took' = [a \in Callers |-> FALSE]
    /\ answer' = [a \in Callers |-> "none"]
    /\ UNCHANGED config

Next ==
    \/ \E a \in Callers : TakeEffect(a) \/ Answer(a) \/ \E b \in Inputs : Ask(a, b)
    \/ Restart

Spec == Init /\ [][Next]_avars

=============================================================================
