---------------------------- MODULE ManagedRuntime ----------------------------
(***************************************************************************)
(* What the supervisor promises the service: an Apply that is answered     *)
(* "ok" has put the requested revision in force; one that is answered      *)
(* "error" has left the previous one in force or has reported a fatal      *)
(* error.  No revision comes into force that was not asked for.            *)
(***************************************************************************)
CONSTANTS Roots, NoRoot

VARIABLES
    current,            \* the root in force, NoRoot before Boot and after Stop
    inForce,            \* its group has not been taken down
    fatal,              \* a fatal error is reported, or the daemon is stopping
    asked,              \* the root an Apply is asked for, NoRoot between calls
    answer              \* the last answer

rvars == <<current, inForce, fatal, asked, answer>>

Init ==
    /\ current = NoRoot /\ inForce = FALSE /\ fatal = FALSE
    /\ asked \in Roots /\ answer = "none"

Ask(r) ==
    /\ asked = NoRoot
    /\ asked' = r /\ answer' = "none"
    /\ UNCHANGED <<current, inForce, fatal>>

TakeDown ==
    /\ inForce /\ asked # NoRoot
    /\ inForce' = FALSE
    /\ UNCHANGED <<current, fatal, asked, answer>>

Succeed ==
    /\ asked # NoRoot
    /\ current' = asked /\ inForce' = TRUE
    /\ asked' = NoRoot /\ answer' = "ok"
    /\ UNCHANGED fatal

Fail ==
    /\ asked # NoRoot
    /\ asked' = NoRoot /\ answer' = "error"
    /\ \/ current # NoRoot /\ inForce' = TRUE /\ UNCHANGED fatal
       \/ current # NoRoot /\ inForce' = FALSE /\ fatal' = TRUE
       \/ current = NoRoot /\ UNCHANGED inForce /\ fatal' \in {fatal, TRUE}
    /\ UNCHANGED current

(* A loss is reported, or a signal arrives.                                *)
Report ==
    /\ fatal' = TRUE
    /\ UNCHANGED <<current, inForce, asked, answer>>

(* The daemon takes down what runs, then forgets it.                       *)
Stop ==
    /\ fatal
    /\ current' \in {current, NoRoot} /\ inForce' = FALSE
    /\ UNCHANGED <<fatal, asked, answer>>

Next ==
    \/ \E r \in Roots : Ask(r)
    \/ TakeDown \/ Succeed \/ Fail
    \/ Report \/ Stop

Spec == Init /\ [][Next]_rvars

=============================================================================
