------------------------------- MODULE Sessions -------------------------------
(***************************************************************************)
(* Who may use the panel: the tables panel_users and panel_sessions with   *)
(* the statements of internal/auth, and the handlers and the login         *)
(* throttle of internal/api that run them, each request in a goroutine of  *)
(* its own.                                                                *)
(*                                                                         *)
(* Passwords are numbered as they are set; 0 is one that was never set.    *)
(* bcrypt and the digest of a token are equality.  There is one user, as   *)
(* ResetAdmin, the only statement that inserts any, has it.                *)
(***************************************************************************)
EXTENDS Integers, Sequences, FiniteSets

CONSTANTS
    Handlers,           \* requests at one time
    Addresses,          \* where logins come from
    LoginLimit,         \* failures that lock an address: 5 in the code
    MaxEvents           \* bound: what users, certbot and failures do unasked

ASSUME SessionsAssumption ==
    /\ IsFiniteSet(Handlers)
    /\ LoginLimit \in Nat \ {0}
    /\ MaxEvents \in Nat

VARIABLES
    admin,              \* password_hash of the user, 0: there is no user
    made,               \* passwords set so far
    sessions,           \* each login's: the password it has compared, 0 once it is
                        \* revoked or has expired
    logins,             \* Server.logins: what the throttle knows of an address
    calls,              \* each handler: where it is and what it has read
    events              \* counter of the bound

accounts == <<admin, made, sessions>>
panel == <<logins, calls>>
sessionVars == <<accounts, panel, events>>

Unasked == events < MaxEvents /\ events' = events + 1

Idle == [at |-> "idle"]

NoAttempt == [failures |-> 0, window |-> "none", locked |-> FALSE]

SessionsInit ==
    /\ admin = 0 /\ made = 0 /\ sessions = <<>>
    /\ logins = [a \in Addresses |-> NoAttempt]
    /\ calls = [h \in Handlers |-> Idle]
    /\ events = 0

Answer(h) == calls' = [calls EXCEPT ![h] = Idle]

Continue(h, at) == calls' = [calls EXCEPT ![h].at = at]

-----------------------------------------------------------------------------
(* Server.login.  Within the window of a minute failures are counted; a    *)
(* lock lasts a quarter of an hour, so it ends after its window.           *)

allowLogin(a) == ~logins[a].locked

BeginLogin(h, a, typed) ==
    /\ calls[h].at = "idle" /\ allowLogin(a) /\ Unasked
    /\ calls' = [calls EXCEPT ![h] = [at |-> "login", from |-> a, typed |-> typed]]
    /\ UNCHANGED <<accounts, logins>>

LoginVerifies(h) ==
    /\ calls[h].at = "login"
    /\ Continue(h, IF admin # 0 /\ calls[h].typed = admin THEN "store" ELSE "refuse")
    /\ UNCHANGED <<accounts, logins, events>>

(* Login's insert, whatever password is in force by now; an error counts   *)
(* as a failed login.                                                      *)
LoginStores(h) ==
    /\ calls[h].at = "store"
    /\ \/ /\ sessions' = Append(sessions, calls[h].typed)
          /\ Continue(h, "welcome")
       \/ /\ Continue(h, "refuse") /\ UNCHANGED sessions
    /\ UNCHANGED <<admin, made, logins, events>>

(* Mutant: a new window takes the old count over.                          *)
AttemptCarried(item) ==
    IF item.window = "open" THEN item
    ELSE [NoAttempt EXCEPT !.window = "open", !.failures = item.failures]

Attempt(item) ==
    IF item.window = "open" THEN item ELSE [NoAttempt EXCEPT !.window = "open"]

recordLoginFailure(h) ==
    /\ calls[h].at = "refuse"
    /\ LET a == calls[h].from
           item == Attempt(logins[a])
           failures == item.failures + 1
       IN  logins' = [logins EXCEPT ![a] =
              [item EXCEPT !.failures = failures, !.locked = @ \/ failures >= LoginLimit]]
    /\ Answer(h)
    /\ UNCHANGED <<accounts, events>>

resetLogin(h) ==
    /\ calls[h].at = "welcome"
    /\ logins' = [logins EXCEPT ![calls[h].from] = NoAttempt]
    /\ Answer(h)
    /\ UNCHANGED <<accounts, events>>

WindowEnds(a) ==
    /\ logins[a].window = "open"
    /\ logins' = [logins EXCEPT ![a].window = "over"]
    /\ UNCHANGED <<accounts, calls, events>>

LockEnds(a) ==
    /\ logins[a].locked /\ logins[a].window = "over"
    /\ logins' = [logins EXCEPT ![a].locked = FALSE]
    /\ UNCHANGED <<accounts, calls, events>>

-----------------------------------------------------------------------------
(* Requests with a session: requireSession runs Verify, then the handler.  *)

Verify(s) == s \in DOMAIN sessions /\ sessions[s] # 0

BeginLogout(h, s) ==
    /\ calls[h].at = "idle" /\ Verify(s) /\ Unasked
    /\ calls' = [calls EXCEPT ![h] = [at |-> "logout", session |-> s]]
    /\ UNCHANGED <<accounts, logins>>

(* A session that another request has ended is an error, with no effect.   *)
Logout(h) ==
    /\ calls[h].at = "logout"
    /\ sessions' = [sessions EXCEPT ![calls[h].session] = 0]
    /\ Answer(h)
    /\ UNCHANGED <<admin, made, logins, events>>

BeginChange(h, s, typed) ==
    /\ calls[h].at = "idle" /\ Verify(s) /\ Unasked
    /\ calls' = [calls EXCEPT ![h] = [at |-> "compare", typed |-> typed]]
    /\ UNCHANGED <<accounts, logins>>

ChangeCompares(h) ==
    /\ calls[h].at = "compare"
    /\ IF calls[h].typed = admin THEN Continue(h, "change") ELSE Answer(h)
    /\ UNCHANGED <<accounts, logins, events>>

(* The transactions of ChangePassword and ResetAdmin: a new password, and  *)
(* no session of the user remains.                                         *)
SetPassword ==
    /\ made' = made + 1 /\ admin' = made'
    /\ sessions' = [s \in DOMAIN sessions |-> 0]

(* Mutant: the sessions are not revoked.                                   *)
ChangeKeepsSessions(h) ==
    /\ calls[h].at = "change"
    /\ made' = made + 1 /\ admin' = made'
    /\ Answer(h)
    /\ UNCHANGED <<sessions, logins, events>>

ChangePassword(h) ==
    /\ calls[h].at = "change"
    /\ SetPassword \/ UNCHANGED accounts
    /\ Answer(h)
    /\ UNCHANGED <<logins, events>>

SessionExpires(s) ==
    /\ Verify(s)
    /\ sessions' = [sessions EXCEPT ![s] = 0]
    /\ UNCHANGED <<admin, made, panel, events>>

-----------------------------------------------------------------------------
HandlerStep(h) ==
    \/ LoginVerifies(h) \/ LoginStores(h) \/ recordLoginFailure(h) \/ resetLogin(h)
    \/ Logout(h) \/ ChangeCompares(h) \/ ChangePassword(h)

PanelNext ==
    \/ \E h \in Handlers :
          \/ HandlerStep(h)
          \/ \E a \in Addresses, typed \in 0..made : BeginLogin(h, a, typed)
          \/ \E s \in DOMAIN sessions :
                \/ BeginLogout(h, s)
                \/ \E typed \in 0..made : BeginChange(h, s, typed)
    \/ \E a \in Addresses : WindowEnds(a) \/ LockEnds(a)
    \/ \E s \in DOMAIN sessions : SessionExpires(s)

(* The process ends: its requests and what the throttle knew are gone.     *)
PanelEnds ==
    /\ calls' = [h \in Handlers |-> Idle]
    /\ logins' = [a \in Addresses |-> NoAttempt]

=============================================================================
