--------------------------- MODULE GatewaySessions ---------------------------
(***************************************************************************)
(* The session table of the QUIC gateway (internal/quic/gateway.go): one   *)
(* goroutine reads the listener, one per unknown client's datagram creates *)
(* a session, one per session relays the answers, one collects idle        *)
(* sessions, and a stop may come at any time.                              *)
(*                                                                         *)
(* A datagram is the client it came from.  A backend connection serves the *)
(* client it was opened for.                                               *)
(***************************************************************************)
EXTENDS Naturals, FiniteSets

CONSTANTS
    Clients,            \* client addresses, the keys of the table
    Workers,            \* goroutines that may run newSession at a time
    Backends,           \* connections opened in one behaviour
    None                \* no client, no backend

ASSUME NoneAssumption == None \notin Clients /\ None \notin Backends

ASSUME KindsAssumption == Workers \cap Backends = {} /\ "gc" \notin Workers \cup Backends

VARIABLES
    listener,           \* the listener is open
    closed,             \* close has emptied the table
    sessions,           \* Gateway.sessions: client -> backend
    serving,            \* serve: "read", "look", "forward", "ended"
    buf, found,         \* its buffer, the session it has looked up
    worker,             \* newSession: where each goroutine is
    packet,             \* its copy of the datagram
    own, old,           \* the backend it opened, the session it found instead
    relay,              \* the goroutine of each backend's session
    collecting,         \* gc: "wait", "remove"
    stale,              \* the keys it has still to remove
    victim,             \* what each remover has taken out of the table
    state,              \* each backend: "unused", "open", "closed"
    serves,             \* history: the client it was opened for
    idle,               \* no activity for longer than maxIdle
    closes,             \* history: how often Close was called on it
    strayed             \* history: a datagram went to another client's backend

serveVars  == <<serving, buf, found>>
workerVars == <<worker, packet, own, old>>
gcVars     == <<collecting, stale>>
connVars   == <<state, serves, idle, closes>>
vars == <<listener, closed, sessions, serveVars, workerVars, relay, gcVars, victim,
          connVars, strayed>>

Removers == Workers \cup Backends \cup {"gc"}

Init ==
    /\ listener = TRUE /\ closed = FALSE
    /\ sessions = [c \in Clients |-> None]
    /\ serving = "read" /\ buf = None /\ found = None
    /\ worker = [w \in Workers |-> "idle"] /\ packet = [w \in Workers |-> None]
    /\ own = [w \in Workers |-> None] /\ old = [w \in Workers |-> None]
    /\ relay = [b \in Backends |-> "none"]
    /\ collecting = "wait" /\ stale = {}
    /\ victim = [r \in Removers |-> None]
    /\ state = [b \in Backends |-> "unused"] /\ serves = [b \in Backends |-> None]
    /\ idle = [b \in Backends |-> FALSE] /\ closes = [b \in Backends |-> 0]
    /\ strayed = FALSE

-----------------------------------------------------------------------------
Table == {sessions[c] : c \in Clients} \ {None}

(* The age of a closed session is read no more.                            *)
CloseBackend(b) ==
    /\ state' = [state EXCEPT ![b] = "closed"]
    /\ closes' = [closes EXCEPT ![b] = @ + 1]
    /\ idle' = [idle EXCEPT ![b] = FALSE]

(* Write fails on a closed connection and reaches the server, or not, on   *)
(* an open one.                                                            *)
WriteTo(b, c) ==
    strayed' = (strayed \/ (state[b] = "open" /\ serves[b] # c))

-----------------------------------------------------------------------------
(* remove: take the entry out under mu, close it afterwards.               *)

Client(b) == serves[b]

Take(r, c) ==
    /\ victim' = [victim EXCEPT ![r] = sessions[c]]
    /\ sessions' = [sessions EXCEPT ![c] = None]

CloseVictim(r) ==
    /\ victim' = [victim EXCEPT ![r] = None]
    /\ IF victim[r] = None THEN UNCHANGED <<state, closes, idle>> ELSE CloseBackend(victim[r])

-----------------------------------------------------------------------------
(* serve.                                                                  *)

Receive(c) ==
    /\ serving = "read" /\ listener
    /\ buf' = c /\ serving' = "look"
    /\ UNCHANGED <<listener, closed, sessions, found, workerVars, relay, gcVars, victim,
                   connVars, strayed>>

(* forwardExisting finds the session, or newSession gets a copy.           *)
Forward ==
    /\ serving = "look" /\ sessions[buf] # None
    /\ found' = sessions[buf] /\ serving' = "forward"
    /\ UNCHANGED <<listener, closed, sessions, buf, workerVars, relay, gcVars, victim,
                   connVars, strayed>>

Spawn(w) ==
    /\ serving = "look" /\ sessions[buf] = None
    /\ worker[w] = "idle"
    /\ worker' = [worker EXCEPT ![w] = "connect"]
    /\ packet' = [packet EXCEPT ![w] = buf]
    /\ serving' = "read"
    /\ UNCHANGED <<listener, closed, sessions, buf, found, own, old, relay, gcVars, victim,
                   connVars, strayed>>

Touch ==
    /\ serving = "forward"
    /\ idle' = [idle EXCEPT ![found] = FALSE]
    /\ WriteTo(found, buf)
    /\ serving' = "read" /\ found' = None
    /\ UNCHANGED <<listener, closed, sessions, buf, workerVars, relay, gcVars, victim,
                   state, serves, closes>>

ServeEnds ==
    /\ serving = "read" /\ ~listener
    /\ serving' = "ended"
    /\ UNCHANGED <<listener, closed, sessions, buf, found, workerVars, relay, gcVars, victim,
                   connVars, strayed>>

-----------------------------------------------------------------------------
(* newSession.                                                             *)

(* Mutant: the goroutine reads the listener's buffer.                      *)
PacketInBuffer(w) == buf

Packet(w) == packet[w]

WorkerEnds(w) ==
    /\ worker' = [worker EXCEPT ![w] = "idle"]
    /\ packet' = [packet EXCEPT ![w] = None]
    /\ own' = [own EXCEPT ![w] = None] /\ old' = [old EXCEPT ![w] = None]

(* No server name, no exit for it, UDP off, or no connection.              *)
Reject(w) ==
    /\ worker[w] = "connect"
    /\ WorkerEnds(w)
    /\ UNCHANGED <<listener, closed, sessions, serveVars, relay, gcVars, victim,
                   connVars, strayed>>

Connect(w) ==
    /\ worker[w] = "connect"
    /\ \E b \in Backends :
          /\ state[b] = "unused"
          /\ state' = [state EXCEPT ![b] = "open"]
          /\ serves' = [serves EXCEPT ![b] = packet[w]]
          /\ own' = [own EXCEPT ![w] = b]
    /\ worker' = [worker EXCEPT ![w] = "insert"]
    /\ UNCHANGED <<listener, closed, sessions, serveVars, packet, old, relay, gcVars, victim,
                   idle, closes, strayed>>

(* Mutant: the goroutine that comes second replaces the session.           *)
InsertOver(w) ==
    /\ worker[w] = "insert"
    /\ sessions' = [sessions EXCEPT ![packet[w]] = own[w]]
    /\ worker' = [worker EXCEPT ![w] = "first"]
    /\ UNCHANGED <<listener, closed, serveVars, packet, own, old, relay, gcVars, victim,
                   connVars, strayed>>

Insert(w) ==
    /\ worker[w] = "insert"
    /\ IF sessions[packet[w]] # None
       THEN /\ old' = [old EXCEPT ![w] = sessions[packet[w]]]
            /\ worker' = [worker EXCEPT ![w] = "duplicate"]
            /\ UNCHANGED sessions
       ELSE /\ sessions' = [sessions EXCEPT ![packet[w]] = own[w]]
            /\ worker' = [worker EXCEPT ![w] = "first"]
            /\ UNCHANGED old
    /\ UNCHANGED <<listener, closed, serveVars, packet, own, relay, gcVars, victim,
                   connVars, strayed>>

CloseDuplicate(w) ==
    /\ worker[w] = "duplicate"
    /\ CloseBackend(own[w])
    /\ worker' = [worker EXCEPT ![w] = "pass on"]
    /\ own' = [own EXCEPT ![w] = None]
    /\ UNCHANGED <<listener, closed, sessions, serveVars, packet, old, relay, gcVars, victim,
                   serves, strayed>>

PassOn(w) ==
    /\ worker[w] = "pass on"
    /\ WriteTo(old[w], Packet(w))
    /\ WorkerEnds(w)
    /\ UNCHANGED <<listener, closed, sessions, serveVars, relay, gcVars, victim,
                   connVars>>

(* The first datagram; relay starts only if it could be written.           *)
FirstWrite(w) ==
    /\ worker[w] = "first"
    /\ \/ /\ state[own[w]] = "open"
          /\ WriteTo(own[w], Packet(w))
          /\ relay' = [relay EXCEPT ![own[w]] = "read"]
          /\ WorkerEnds(w)
       \/ /\ worker' = [worker EXCEPT ![w] = "remove"]
          /\ UNCHANGED <<strayed, relay, packet, own, old>>
    /\ UNCHANGED <<listener, closed, sessions, serveVars, gcVars, victim, connVars>>

WorkerTakes(w) ==
    /\ worker[w] = "remove"
    /\ Take(w, packet[w])
    /\ worker' = [worker EXCEPT ![w] = "close"]
    /\ UNCHANGED <<listener, closed, serveVars, packet, own, old, relay, gcVars, connVars,
                   strayed>>

WorkerCloses(w) ==
    /\ worker[w] = "close"
    /\ CloseVictim(w)
    /\ WorkerEnds(w)
    /\ UNCHANGED <<listener, closed, sessions, serveVars, relay, gcVars, serves,
                   strayed>>

-----------------------------------------------------------------------------
(* relay: the goroutine of backend b's session.                            *)

RelayForwards(b) ==
    /\ relay[b] = "read" /\ state[b] = "open"
    /\ idle' = [idle EXCEPT ![b] = FALSE]
    /\ relay' = IF listener THEN relay ELSE [relay EXCEPT ![b] = "remove"]
    /\ UNCHANGED <<listener, closed, sessions, serveVars, workerVars, gcVars, victim,
                   state, serves, closes, strayed>>

(* Closed by another goroutine, or refused by the server.                  *)
RelayFails(b) ==
    /\ relay[b] = "read"
    /\ relay' = [relay EXCEPT ![b] = "remove"]
    /\ UNCHANGED <<listener, closed, sessions, serveVars, workerVars, gcVars, victim,
                   connVars, strayed>>

(* Mutant: the relay of a closed connection returns without remove.        *)
RelayEndsQuietly(b) ==
    /\ relay[b] = "remove"
    /\ relay' = [relay EXCEPT ![b] = "ended"]
    /\ UNCHANGED <<listener, closed, sessions, serveVars, workerVars, gcVars, victim, connVars,
                   strayed>>

RelayTakes(b) ==
    /\ relay[b] = "remove"
    /\ Take(b, Client(b))
    /\ relay' = [relay EXCEPT ![b] = "close"]
    /\ UNCHANGED <<listener, closed, serveVars, workerVars, gcVars, connVars, strayed>>

RelayCloses(b) ==
    /\ relay[b] = "close"
    /\ CloseVictim(b)
    /\ relay' = [relay EXCEPT ![b] = "ended"]
    /\ UNCHANGED <<listener, closed, sessions, serveVars, workerVars, gcVars, serves,
                   strayed>>

-----------------------------------------------------------------------------
(* gc and the passing of time.                                             *)

GrowsIdle(b) ==
    /\ b \in Table /\ ~idle[b]
    /\ idle' = [idle EXCEPT ![b] = TRUE]
    /\ UNCHANGED <<listener, closed, sessions, serveVars, workerVars, relay, gcVars, victim,
                   state, serves, closes, strayed>>

(* gcOnce reads the table under mu and keeps the keys.  The collector ends *)
(* with the context, after the listener or without it.                     *)
Collect ==
    /\ collecting = "wait"
    /\ stale' = {c \in Clients : sessions[c] # None /\ idle[sessions[c]]}
    /\ stale' # {}
    /\ collecting' = "remove"
    /\ UNCHANGED <<listener, closed, sessions, serveVars, workerVars, relay, victim, connVars,
                   strayed>>

CollectorTakes ==
    /\ collecting = "remove"
    /\ \E c \in stale :
          /\ Take("gc", c)
          /\ stale' = stale \ {c}
    /\ collecting' = "close"
    /\ UNCHANGED <<listener, closed, serveVars, workerVars, relay, connVars, strayed>>

CollectorCloses ==
    /\ collecting = "close"
    /\ CloseVictim("gc")
    /\ collecting' = IF stale = {} THEN "wait" ELSE "remove"
    /\ UNCHANGED <<listener, closed, sessions, serveVars, workerVars, relay, stale, serves,
                   strayed>>

-----------------------------------------------------------------------------
(* close, called when the context ends and again when the gateway returns. *)

CloseListener ==
    /\ listener
    /\ listener' = FALSE
    /\ UNCHANGED <<closed, sessions, serveVars, workerVars, relay, gcVars, victim, connVars,
                   strayed>>

(* Mutant: close leaves the table as it is.                                *)
CloseSessionsKeeping ==
    /\ ~listener
    /\ closed' = TRUE
    /\ state' = [b \in Backends |-> IF b \in Table THEN "closed" ELSE state[b]]
    /\ closes' = [b \in Backends |-> IF b \in Table THEN closes[b] + 1 ELSE closes[b]]
    /\ idle' = [b \in Backends |-> idle[b] /\ b \notin Table]
    /\ UNCHANGED <<listener, sessions, serveVars, workerVars, relay, gcVars, victim, serves,
                   strayed>>

CloseSessions ==
    /\ ~listener
    /\ closed' = TRUE
    /\ state' = [b \in Backends |-> IF b \in Table THEN "closed" ELSE state[b]]
    /\ closes' = [b \in Backends |-> IF b \in Table THEN closes[b] + 1 ELSE closes[b]]
    /\ sessions' = [c \in Clients |-> None]
    /\ idle' = [b \in Backends |-> idle[b] /\ b \notin Table]
    /\ UNCHANGED <<listener, serveVars, workerVars, relay, gcVars, victim, serves, strayed>>

-----------------------------------------------------------------------------
ServeStep == Forward \/ (\E w \in Workers : Spawn(w)) \/ Touch \/ ServeEnds

(* What newSession does once it has a backend.                             *)
WorkerStep(w) ==
    \/ Insert(w) \/ CloseDuplicate(w) \/ PassOn(w) \/ FirstWrite(w)
    \/ WorkerTakes(w) \/ WorkerCloses(w)

(* A goroutine blocked in Read goes on when its connection is closed.      *)
RelayStep(b) == (state[b] = "closed" /\ RelayFails(b)) \/ RelayTakes(b) \/ RelayCloses(b)

CollectorStep == Collect \/ CollectorTakes \/ CollectorCloses

Next ==
    \/ \E c \in Clients : Receive(c)
    \/ ServeStep
    \/ \E w \in Workers : Reject(w) \/ Connect(w) \/ WorkerStep(w)
    \/ \E b \in Backends : RelayForwards(b) \/ RelayFails(b) \/ RelayStep(b) \/ GrowsIdle(b)
    \/ CollectorStep
    \/ CloseListener \/ CloseSessions

Spec == Init /\ [][Next]_vars

-----------------------------------------------------------------------------
TypeOK ==
    /\ listener \in BOOLEAN /\ closed \in BOOLEAN /\ strayed \in BOOLEAN
    /\ sessions \in [Clients -> Backends \cup {None}]
    /\ serving \in {"read", "look", "forward", "ended"}
    /\ buf \in Clients \cup {None} /\ found \in Backends \cup {None}
    /\ worker \in [Workers -> {"idle", "connect", "insert", "duplicate", "pass on",
                              "first", "remove", "close"}]
    /\ packet \in [Workers -> Clients \cup {None}]
    /\ own \in [Workers -> Backends \cup {None}] /\ old \in [Workers -> Backends \cup {None}]
    /\ relay \in [Backends -> {"none", "read", "remove", "close", "ended"}]
    /\ collecting \in {"wait", "remove", "close"} /\ stale \subseteq Clients
    /\ victim \in [Removers -> Backends \cup {None}]
    /\ state \in [Backends -> {"unused", "open", "closed"}]
    /\ serves \in [Backends -> Clients \cup {None}]
    /\ idle \in [Backends -> BOOLEAN] /\ closes \in [Backends -> Nat]

(* No connection leaks: each open one is in the table, or a goroutine      *)
(* holds it that is about to insert or to close it.                        *)
NoLeak ==
    \A b \in Backends : state[b] = "open" =>
        \/ b \in Table
        \/ \E w \in Workers : own[w] = b /\ worker[w] \in {"insert", "duplicate"}
        \/ \E r \in Removers : victim[r] = b

(* remove deletes by address, in any order with newSession, gc, close and  *)
(* the relays of earlier sessions of the same client: whoever takes an     *)
(* entry out is the only one to close its connection.                      *)
ClosedOnce ==
    \A b \in Backends : closes[b] <= 1 /\ (b \in Table => state[b] = "open")

(* A session in the table has a goroutine that will see its connection     *)
(* fail and remove it.                                                     *)
SessionWatched ==
    \A b \in Table :
        \/ relay[b] \in {"read", "remove"}
        \/ \E w \in Workers : own[w] = b /\ worker[w] \in {"first", "remove"}

(* serve reads the next datagram into the same buffer while goroutines     *)
(* still connect for the ones before it, and two of them may race for one  *)
(* client: no datagram reaches the connection of another client.           *)
OwnDatagrams == ~strayed

-----------------------------------------------------------------------------
(* Why these hold, see GatewayProofs.                                      *)

(* A connection is closed once, after it was open.                         *)
CloseCounted == \A b \in Backends : closes[b] = IF state[b] = "closed" THEN 1 ELSE 0

OpenedForClient == \A b \in Backends : state[b] # "unused" => serves[b] \in Clients

RelaysOpened == \A b \in Backends : relay[b] # "none" => state[b] # "unused"

(* In the table a connection stands under the address it serves.           *)
TableServes ==
    \A c \in Clients : sessions[c] # None =>
        state[sessions[c]] = "open" /\ serves[sessions[c]] = c

(* What newSession's variables say.                                        *)
PacketKept == \A w \in Workers : worker[w] # "idle" => packet[w] \in Clients

OwnWhile ==
    \A w \in Workers :
        own[w] # None <=> worker[w] \in {"insert", "duplicate", "first", "remove", "close"}

OwnServes ==
    \A w \in Workers : own[w] # None =>
        serves[own[w]] = packet[w] /\ state[own[w]] # "unused" /\ relay[own[w]] = "none"

OwnAlone == \A w, v \in Workers : own[w] # None /\ own[v] = own[w] => v = w

(* Until it has inserted its connection nobody else knows of it.           *)
OwnHidden ==
    \A w \in Workers : worker[w] \in {"insert", "duplicate"} =>
        /\ state[own[w]] = "open"
        /\ \A c \in Clients : sessions[c] # own[w]
        /\ \A r \in Removers : victim[r] # own[w]

OldServes ==
    \A w \in Workers : worker[w] \in {"duplicate", "pass on"} =>
        old[w] # None /\ state[old[w]] # "unused" /\ serves[old[w]] = packet[w]

(* What a remover has taken out is open, in the table no more, and his     *)
(* alone until he closes it.                                               *)
VictimOpen ==
    \A r \in Removers : victim[r] # None =>
        state[victim[r]] = "open" /\ \A c \in Clients : sessions[c] # victim[r]

VictimAlone == \A r, q \in Removers : victim[r] # None /\ victim[q] = victim[r] => q = r

VictimWhile ==
    /\ \A w \in Workers : victim[w] # None => worker[w] = "close"
    /\ \A b \in Backends : victim[b] # None => relay[b] = "close"
    /\ victim["gc"] # None => collecting = "close"

FoundServes ==
    /\ serving \in {"look", "forward"} => buf \in Clients
    /\ serving = "forward" =>
          found # None /\ state[found] # "unused" /\ serves[found] = buf

GatewayInv ==
    /\ TypeOK
    /\ CloseCounted /\ OpenedForClient /\ RelaysOpened /\ TableServes
    /\ PacketKept /\ OwnWhile /\ OwnServes /\ OwnAlone /\ OwnHidden /\ OldServes
    /\ VictimOpen /\ VictimAlone /\ VictimWhile /\ FoundServes
    /\ NoLeak /\ SessionWatched /\ OwnDatagrams

=============================================================================
