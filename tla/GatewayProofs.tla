---------------------------- MODULE GatewayProofs ----------------------------
(***************************************************************************)
(* The two gateways, for any number of clients, goroutines and connections *)
(* and any amount of bytes.                                                *)
(*                                                                         *)
(* QUIC: no connection leaks, each is closed once, every session is        *)
(* watched, and no datagram strays.  GatewayInv is inductive.              *)
(*                                                                         *)
(* TCP: the bytes of both streams stay in order, a stream that ends        *)
(* without an error is whole, and no connection is left open.  RelayInv    *)
(* is inductive.                                                           *)
(***************************************************************************)
EXTENDS GatewaySessions, TcpRelay, TLAPS

(* The parts of GatewayInv about the table and the goroutines.             *)
Table1 == CloseCounted /\ OpenedForClient /\ RelaysOpened /\ TableServes
Table2 == PacketKept /\ OwnWhile /\ OwnServes /\ OwnAlone /\ OwnHidden /\ OldServes
Table3 == VictimOpen /\ VictimAlone /\ VictimWhile /\ NoLeak /\ SessionWatched

LEMMA Parts ==
    ASSUME TypeOK, Table1, Table2, Table3, FoundServes, OwnDatagrams
    PROVE  GatewayInv
BY DEF GatewayInv, Table1, Table2, Table3

LEMMA PartsNext ==
    ASSUME TypeOK', Table1', Table2', Table3', FoundServes', OwnDatagrams'
    PROVE  GatewayInv'
BY DEF GatewayInv, Table1, Table2, Table3

LEMMA Kinds ==
    /\ \A w \in Workers : w \in Removers /\ w \notin Backends /\ w # "gc"
    /\ \A b \in Backends : b \in Removers /\ b \notin Workers /\ b # "gc"
    /\ "gc" \in Removers
BY KindsAssumption DEF Removers

(* Where connections are named.                                            *)
LEMMA Names ==
    ASSUME GatewayInv
    PROVE  /\ \A c \in Clients : sessions[c] # None => sessions[c] \in Backends
           /\ \A w \in Workers : own[w] # None => own[w] \in Backends
           /\ \A w \in Workers : old[w] # None => old[w] \in Backends
           /\ \A r \in Removers : victim[r] # None => victim[r] \in Backends
           /\ \A w \in Workers : worker[w] \in {"insert", "duplicate"} => own[w] \in Backends
           /\ \A b \in Backends : b # None
BY NoneAssumption DEF GatewayInv, TypeOK, OwnWhile

LEMMA InitInv == Init => GatewayInv
<1> SUFFICES ASSUME Init PROVE GatewayInv
    OBVIOUS
<1>1. TypeOK
    BY DEF Init, TypeOK
<1>2. Table = {}
    BY DEF Init, Table
<1>3. Table1
    BY DEF Init, Table1, CloseCounted, OpenedForClient, RelaysOpened, TableServes
<1>4. Table2
    BY DEF Init, Table2, PacketKept, OwnWhile, OwnServes, OwnAlone, OwnHidden, OldServes
<1>5. Table3
    BY <1>2, Kinds DEF Init, Table3, VictimOpen, VictimAlone, VictimWhile, NoLeak, SessionWatched
<1>6. FoundServes /\ OwnDatagrams
    BY DEF Init, FoundServes, OwnDatagrams
<1> QED BY <1>1, <1>3, <1>4, <1>5, <1>6, Parts

-----------------------------------------------------------------------------
(* The steps that change neither the table nor who holds what.             *)

LEMMA TableFrame ==
    ASSUME GatewayInv, UNCHANGED <<sessions, workerVars, relay, victim, state, serves, closes>>,
           collecting = "close" => collecting' = "close"
    PROVE  Table1' /\ Table2' /\ Table3'
<1> USE DEF workerVars, GatewayInv
<1>1. Table1'
    BY DEF Table1, CloseCounted, OpenedForClient, RelaysOpened, TableServes
<1>2. Table2'
    BY ZenonT(60) DEF Table2, PacketKept, OwnWhile, OwnServes, OwnAlone, OwnHidden, OldServes
<1>3. Table3'
    <2>1. Table' = Table
        BY DEF Table
    <2>2. VictimOpen' /\ VictimAlone' /\ VictimWhile'
        BY DEF VictimOpen, VictimAlone, VictimWhile
    <2>3. NoLeak' /\ SessionWatched'
        BY <2>1 DEF NoLeak, SessionWatched
    <2> QED BY <2>2, <2>3 DEF Table3
<1> QED BY <1>1, <1>2, <1>3

LEMMA ServeInv ==
    ASSUME GatewayInv, (\E c \in Clients : Receive(c)) \/ Forward \/ Touch \/ ServeEnds
    PROVE  GatewayInv'
<1>1. UNCHANGED <<listener, closed, sessions, workerVars, relay, gcVars, victim,
                  state, serves, closes>>
    BY DEF Receive, Forward, Touch, ServeEnds, connVars
<1>2. Table1' /\ Table2' /\ Table3'
    BY <1>1, TableFrame DEF gcVars
<1>3. CASE \E c \in Clients : Receive(c)
    <2>1. TypeOK'
        BY <1>1, <1>3 DEF GatewayInv, TypeOK, Receive, workerVars, gcVars, connVars
    <2>2. FoundServes' /\ OwnDatagrams'
        BY <1>3 DEF GatewayInv, FoundServes, OwnDatagrams, Receive
    <2> QED BY <1>2, <2>1, <2>2, PartsNext
<1>4. CASE Forward
    <2>1. buf \in Clients /\ sessions[buf] \in Backends
        BY <1>4 DEF GatewayInv, TypeOK, FoundServes, Forward
    <2>2. TypeOK'
        BY <1>1, <1>4, <2>1 DEF GatewayInv, TypeOK, Forward, workerVars, gcVars, connVars
    <2>3. FoundServes' /\ OwnDatagrams'
        BY <1>4, <2>1 DEF GatewayInv, FoundServes, TableServes, OwnDatagrams, Forward, connVars
    <2> QED BY <1>2, <2>2, <2>3, PartsNext
<1>5. CASE Touch
    <2>1. found \in Backends /\ serves[found] = buf
        BY <1>5 DEF GatewayInv, TypeOK, FoundServes, Touch
    <2>2. strayed' = strayed
        BY <1>5, <2>1 DEF Touch, WriteTo, GatewayInv, TypeOK
    <2>3. TypeOK'
        BY <1>1, <1>5, <2>2 DEF GatewayInv, TypeOK, Touch, workerVars, gcVars
    <2>4. FoundServes' /\ OwnDatagrams'
        BY <1>5, <2>2 DEF GatewayInv, FoundServes, OwnDatagrams, Touch
    <2> QED BY <1>2, <2>3, <2>4, PartsNext
<1>6. CASE ServeEnds
    <2>1. TypeOK'
        BY <1>1, <1>6 DEF GatewayInv, TypeOK, ServeEnds, workerVars, gcVars, connVars
    <2>2. FoundServes' /\ OwnDatagrams'
        BY <1>6 DEF GatewayInv, FoundServes, OwnDatagrams, ServeEnds
    <2> QED BY <1>2, <2>1, <2>2, PartsNext
<1> QED BY <1>3, <1>4, <1>5, <1>6

(* The parts of serve, which others leave alone.                           *)
LEMMA ServeFrame ==
    ASSUME GatewayInv, UNCHANGED <<serveVars, strayed, serves>>,
           \A b \in Backends : state[b] # "unused" => state'[b] # "unused"
    PROVE  FoundServes' /\ OwnDatagrams'
BY DEF GatewayInv, TypeOK, FoundServes, OwnDatagrams, serveVars

LEMMA BackgroundInv ==
    ASSUME GatewayInv, (\E b \in Backends : GrowsIdle(b)) \/ Collect \/ CloseListener
    PROVE  GatewayInv'
<1>1. /\ UNCHANGED <<closed, sessions, workerVars, relay, victim, state, serves, closes,
                     serveVars, strayed>>
      /\ (collecting = "close" => collecting' = "close")
    BY DEF GrowsIdle, Collect, CloseListener, connVars, gcVars
<1>2. Table1' /\ Table2' /\ Table3'
    BY <1>1, TableFrame
<1>3. FoundServes' /\ OwnDatagrams'
    BY <1>1, ServeFrame
<1>4. TypeOK'
    BY <1>1, ZenonT(60)
       DEF GatewayInv, TypeOK, GrowsIdle, Collect, CloseListener, workerVars, serveVars,
           connVars, gcVars
<1> QED BY <1>2, <1>3, <1>4, PartsNext

-----------------------------------------------------------------------------
(* newSession.                                                             *)

WorkerTypes ==
    /\ worker \in [Workers -> {"idle", "connect", "insert", "duplicate", "pass on",
                              "first", "remove", "close"}]
    /\ packet \in [Workers -> Clients \cup {None}]
    /\ own \in [Workers -> Backends \cup {None}] /\ old \in [Workers -> Backends \cup {None}]

(* Nothing but w's locals changes.                                         *)
OnlyLocals(w) ==
    \A v \in Workers : v # w =>
        worker'[v] = worker[v] /\ packet'[v] = packet[v] /\ own'[v] = own[v] /\ old'[v] = old[v]

LEMMA EndsOpen ==
    ASSUME GatewayInv, NEW w \in Workers, WorkerEnds(w)
    PROVE  /\ WorkerTypes' /\ OnlyLocals(w)
           /\ worker'[w] = "idle" /\ packet'[w] = None /\ own'[w] = None /\ old'[w] = None
BY DEF GatewayInv, TypeOK, WorkerEnds, WorkerTypes, OnlyLocals

(* A goroutine that has no connection.                                     *)
LEMMA LocalInv ==
    ASSUME GatewayInv, NEW w \in Workers, own[w] = None, WorkerTypes', OnlyLocals(w),
           own'[w] = None, worker'[w] \in {"idle", "connect"},
           worker'[w] = "connect" => packet'[w] \in Clients,
           UNCHANGED <<sessions, relay, victim, state, serves, closes, collecting>>
    PROVE  Table1' /\ Table2' /\ Table3'
<1>1. \A v \in Workers : own'[v] = own[v]
    BY DEF OnlyLocals
<1>2. worker[w] \notin {"insert", "duplicate", "first", "remove", "close"} /\ victim[w] = None
    BY DEF GatewayInv, OwnWhile, VictimWhile
<1>3. Table1'
    BY DEF GatewayInv, Table1, CloseCounted, OpenedForClient, RelaysOpened, TableServes
<1>4. PacketKept' /\ OwnWhile'
    BY DEF GatewayInv, PacketKept, OwnWhile, OnlyLocals
<1>5. OwnServes' /\ OwnAlone'
    BY <1>1 DEF GatewayInv, OwnServes, OwnAlone, OnlyLocals
<1>6. OwnHidden' /\ OldServes'
    <2>1. \A v \in Workers : worker'[v] \in {"insert", "duplicate", "pass on"} => v # w
        OBVIOUS
    <2>2. OwnHidden'
        <3> SUFFICES ASSUME NEW v \in Workers, worker'[v] \in {"insert", "duplicate"}
                     PROVE  /\ state[own[v]] = "open"
                            /\ \A c \in Clients : sessions[c] # own[v]
                            /\ \A r \in Removers : victim[r] # own[v]
            BY <1>1 DEF OwnHidden
        <3>1. worker[v] \in {"insert", "duplicate"}
            BY <2>1 DEF OnlyLocals
        <3> QED BY <3>1 DEF GatewayInv, OwnHidden
    <2>3. OldServes'
        BY <2>1 DEF GatewayInv, OldServes, OnlyLocals
    <2> QED BY <2>2, <2>3
<1>7. VictimOpen' /\ VictimAlone' /\ VictimWhile'
    BY <1>2 DEF GatewayInv, VictimOpen, VictimAlone, VictimWhile, OnlyLocals
<1>8. Table' = Table
    BY DEF Table
<1>9. \A b \in Backends : own[w] # b
    BY NoneAssumption
<1>10. NoLeak'
    BY <1>1, <1>8, <1>9 DEF GatewayInv, NoLeak, OnlyLocals
<1>11. SessionWatched'
    <2>1. ASSUME NEW b \in Table', NEW v \in Workers, own[v] = b
          PROVE  v # w
        BY <2>1 DEF Table
    <2> QED BY <1>1, <1>8, <2>1 DEF GatewayInv, SessionWatched, OnlyLocals
<1> QED BY <1>3, <1>4, <1>5, <1>6, <1>7, <1>10, <1>11 DEF Table2, Table3

LEMMA SpawnInv ==
    ASSUME GatewayInv, NEW w \in Workers, Spawn(w)
    PROVE  GatewayInv'
<1>1. buf \in Clients /\ own[w] = None
    BY DEF GatewayInv, FoundServes, OwnWhile, Spawn
<1>2. /\ WorkerTypes' /\ OnlyLocals(w) /\ own'[w] = None /\ worker'[w] = "connect"
      /\ packet'[w] \in Clients
    BY <1>1 DEF GatewayInv, TypeOK, Spawn, WorkerTypes, OnlyLocals
<1>3. UNCHANGED <<listener, closed, sessions, buf, found, relay, gcVars, victim, connVars, strayed>>
    BY DEF Spawn
<1>4. Table1' /\ Table2' /\ Table3'
    BY <1>1, <1>2, <1>3, LocalInv DEF gcVars, connVars
<1>5. TypeOK'
    BY <1>2, <1>3 DEF GatewayInv, TypeOK, WorkerTypes, Spawn, gcVars, connVars
<1>6. FoundServes' /\ OwnDatagrams'
    BY <1>3 DEF GatewayInv, FoundServes, OwnDatagrams, Spawn
<1> QED BY <1>4, <1>5, <1>6, PartsNext

LEMMA RejectInv ==
    ASSUME GatewayInv, NEW w \in Workers, Reject(w)
    PROVE  GatewayInv'
<1>1. own[w] = None
    BY DEF GatewayInv, OwnWhile, Reject
<1>2. WorkerTypes' /\ OnlyLocals(w) /\ own'[w] = None /\ worker'[w] = "idle"
    BY EndsOpen DEF Reject
<1>3. UNCHANGED <<listener, closed, sessions, serveVars, relay, gcVars, victim, connVars, strayed>>
    BY DEF Reject
<1>4. Table1' /\ Table2' /\ Table3'
    BY <1>1, <1>2, <1>3, LocalInv DEF gcVars, connVars
<1>5. TypeOK'
    BY <1>2, <1>3 DEF GatewayInv, TypeOK, WorkerTypes, serveVars, gcVars, connVars
<1>6. FoundServes' /\ OwnDatagrams'
    BY <1>3, ServeFrame DEF connVars
<1> QED BY <1>4, <1>5, <1>6, PartsNext

LEMMA PassOnInv ==
    ASSUME GatewayInv, NEW w \in Workers, PassOn(w)
    PROVE  GatewayInv'
<1>1. own[w] = None /\ serves[old[w]] = packet[w]
    BY DEF GatewayInv, OwnWhile, OldServes, PassOn
<1>2. WorkerTypes' /\ OnlyLocals(w) /\ own'[w] = None /\ worker'[w] = "idle"
    BY EndsOpen DEF PassOn
<1>3. UNCHANGED <<listener, closed, sessions, serveVars, relay, gcVars, victim, connVars>>
    BY DEF PassOn
<1>4. strayed' = strayed
    BY <1>1 DEF GatewayInv, TypeOK, PassOn, WriteTo, Packet
<1>5. Table1' /\ Table2' /\ Table3'
    BY <1>1, <1>2, <1>3, LocalInv DEF gcVars, connVars
<1>6. TypeOK'
    BY <1>2, <1>3, <1>4 DEF GatewayInv, TypeOK, WorkerTypes, serveVars, gcVars, connVars
<1>7. FoundServes' /\ OwnDatagrams'
    BY <1>3, <1>4, ServeFrame DEF connVars
<1> QED BY <1>5, <1>6, <1>7, PartsNext

LEMMA ConnectInv ==
    ASSUME GatewayInv, NEW w \in Workers, Connect(w)
    PROVE  GatewayInv'
<1>1. PICK b \in Backends :
          /\ state[b] = "unused"
          /\ state' = [state EXCEPT ![b] = "open"]
          /\ serves' = [serves EXCEPT ![b] = packet[w]]
          /\ own' = [own EXCEPT ![w] = b]
    BY DEF Connect
<1>2. UNCHANGED <<listener, closed, sessions, serveVars, packet, old, relay, gcVars, victim,
                  idle, closes, strayed>>
    BY DEF Connect
<1>3. /\ worker[w] = "connect" /\ worker'[w] = "insert" /\ own'[w] = b /\ state'[b] = "open"
      /\ serves'[b] = packet[w] /\ packet[w] \in Clients /\ own[w] = None /\ victim[w] = None
      /\ b # None
    BY <1>1, NoneAssumption
       DEF GatewayInv, TypeOK, Connect, PacketKept, OwnWhile, VictimWhile
<1>4. WorkerTypes' /\ OnlyLocals(w)
    BY <1>1 DEF GatewayInv, TypeOK, Connect, WorkerTypes, OnlyLocals
<1>5. \A a \in Backends : a # b => state'[a] = state[a] /\ serves'[a] = serves[a]
    BY <1>1 DEF GatewayInv, TypeOK
<1>6. TypeOK'
    <2>1. /\ state' \in [Backends -> {"unused", "open", "closed"}]
          /\ serves' \in [Backends -> Clients \cup {None}]
        BY <1>1, <1>3 DEF GatewayInv, TypeOK
    <2> QED BY <1>2, <1>4, <2>1 DEF GatewayInv, TypeOK, WorkerTypes, serveVars, gcVars
<1>7. /\ closes[b] = 0 /\ relay[b] = "none"
      /\ \A c \in Clients : sessions[c] # b
      /\ \A v \in Workers : own[v] # b
      /\ \A r \in Removers : victim[r] # b
    BY <1>1, <1>3 DEF GatewayInv, CloseCounted, RelaysOpened, TableServes, OwnServes, VictimOpen
<1>8. Table1'
    <2>1. CloseCounted' /\ OpenedForClient' /\ RelaysOpened'
        BY <1>2, <1>3, <1>5, <1>7 DEF GatewayInv, CloseCounted, OpenedForClient, RelaysOpened
    <2>2. TableServes'
        BY <1>2, <1>5, <1>7, Names DEF GatewayInv, TableServes
    <2> QED BY <2>1, <2>2 DEF Table1
<1>9. PacketKept' /\ OwnWhile'
    BY <1>2, <1>3, <1>4 DEF GatewayInv, PacketKept, OwnWhile, OnlyLocals
<1>10. OwnServes' /\ OwnAlone'
    <2>1. OwnAlone'
        BY <1>3, <1>4, <1>7 DEF GatewayInv, OwnAlone, OnlyLocals
    <2>2. ASSUME NEW v \in Workers, v # w, own[v] # None
          PROVE  serves'[own[v]] = packet[v] /\ state'[own[v]] # "unused" /\ relay[own[v]] = "none"
        <3>1. own[v] \in Backends /\ own[v] # b
            BY <1>7, <2>2, Names
        <3> QED BY <1>5, <2>2, <3>1 DEF GatewayInv, OwnServes
    <2>3. OwnServes'
        BY <1>2, <1>3, <1>4, <1>7, <2>2 DEF OwnServes, OnlyLocals
    <2> QED BY <2>1, <2>3
<1>11. OwnHidden'
    <2>1. ASSUME NEW v \in Workers, v # w, worker[v] \in {"insert", "duplicate"}
          PROVE  state'[own[v]] = "open"
        BY <1>5, <1>7, <2>1, Names DEF GatewayInv, OwnHidden
    <2> QED BY <1>2, <1>3, <1>4, <1>7, <2>1 DEF GatewayInv, OwnHidden, OnlyLocals
<1>12. OldServes'
    <2>1. ASSUME NEW v \in Workers, v # w, worker[v] \in {"duplicate", "pass on"}
          PROVE  old[v] # None /\ state'[old[v]] # "unused" /\ serves'[old[v]] = packet[v]
        <3>1. old[v] \in Backends /\ old[v] # b
            BY <1>1, <2>1, Names DEF GatewayInv, OldServes
        <3> QED BY <1>5, <2>1, <3>1 DEF GatewayInv, OldServes
    <2> QED BY <1>2, <1>3, <1>4, <2>1 DEF OldServes, OnlyLocals
<1>13. VictimOpen' /\ VictimAlone' /\ VictimWhile'
    <2>1. VictimOpen'
        BY <1>2, <1>5, <1>7, Names DEF GatewayInv, VictimOpen
    <2>2. VictimAlone' /\ VictimWhile'
        BY <1>2, <1>3, <1>4 DEF GatewayInv, VictimAlone, VictimWhile, OnlyLocals, gcVars
    <2> QED BY <2>1, <2>2
<1>14. Table' = Table
    BY <1>2 DEF Table
<1>15. NoLeak'
    <2>1. ASSUME NEW a \in Backends, a # b, state'[a] = "open", a \notin Table,
                 \A r \in Removers : victim[r] # a
          PROVE  \E v \in Workers : own'[v] = a /\ worker'[v] \in {"insert", "duplicate"}
        <3>1. PICK v \in Workers : own[v] = a /\ worker[v] \in {"insert", "duplicate"}
            BY <1>5, <2>1 DEF GatewayInv, NoLeak
        <3> QED BY <1>3, <1>4, <3>1, NoneAssumption DEF OnlyLocals
    <2> QED BY <1>2, <1>3, <1>14, <2>1 DEF NoLeak
<1>16. SessionWatched'
    <2>1. \A v \in Workers : worker[v] \in {"first", "remove"} => v # w
        BY <1>3
    <2> QED BY <1>2, <1>4, <1>14, <2>1 DEF GatewayInv, SessionWatched, OnlyLocals
<1>17. FoundServes' /\ OwnDatagrams'
    <2>1. found # None /\ state[found] # "unused" => found \in Backends /\ found # b
        BY <1>1 DEF GatewayInv, TypeOK
    <2> QED BY <1>2, <1>5, <2>1 DEF GatewayInv, FoundServes, OwnDatagrams, serveVars
<1> QED BY <1>6, <1>8, <1>9, <1>10, <1>11, <1>12, <1>13, <1>15, <1>16, <1>17, PartsNext
        DEF Table2, Table3

(* The second of two for one client finds the session of the first.        *)
LEMMA InsertDuplicateInv ==
    ASSUME GatewayInv, NEW w \in Workers, Insert(w), sessions[packet[w]] # None
    PROVE  GatewayInv'
<1>1. /\ worker[w] = "insert" /\ old' = [old EXCEPT ![w] = sessions[packet[w]]]
      /\ worker' = [worker EXCEPT ![w] = "duplicate"]
      /\ UNCHANGED <<listener, closed, sessions, serveVars, packet, own, relay, gcVars, victim,
                     connVars, strayed>>
    BY DEF Insert
<1>2. /\ packet[w] \in Clients /\ sessions[packet[w]] \in Backends
      /\ state[sessions[packet[w]]] = "open" /\ serves[sessions[packet[w]]] = packet[w]
    BY <1>1, Names DEF GatewayInv, PacketKept, TableServes
<1>3. /\ WorkerTypes' /\ OnlyLocals(w) /\ worker'[w] = "duplicate"
      /\ old'[w] = sessions[packet[w]]
    BY <1>1, <1>2 DEF GatewayInv, TypeOK, WorkerTypes, OnlyLocals
<1>4. TypeOK'
    BY <1>1, <1>3 DEF GatewayInv, TypeOK, WorkerTypes, serveVars, gcVars, connVars
<1>5. Table1'
    BY <1>1
       DEF GatewayInv, Table1, CloseCounted, OpenedForClient, RelaysOpened, TableServes, connVars
<1>6. PacketKept' /\ OwnWhile'
    BY <1>1, <1>2, <1>3 DEF GatewayInv, PacketKept, OwnWhile, OnlyLocals
<1>7. OwnServes' /\ OwnAlone'
    BY <1>1 DEF GatewayInv, OwnServes, OwnAlone, connVars
<1>8. \A v \in Workers :
          worker'[v] \in {"insert", "duplicate"} <=> worker[v] \in {"insert", "duplicate"}
    BY <1>1, <1>3 DEF OnlyLocals
<1>9. OwnHidden'
    BY <1>1, <1>8 DEF GatewayInv, OwnHidden, connVars
<1>10. OldServes'
    BY <1>1, <1>2, <1>3, Names, ZenonT(60) DEF GatewayInv, OldServes, OnlyLocals, connVars
<1>11. VictimOpen' /\ VictimAlone' /\ VictimWhile'
    BY <1>1, <1>3 DEF GatewayInv, VictimOpen, VictimAlone, VictimWhile, OnlyLocals, connVars, gcVars
<1>12. Table' = Table
    BY <1>1 DEF Table
<1>13. NoLeak'
    BY <1>1, <1>8, <1>12 DEF GatewayInv, NoLeak, connVars
<1>14. SessionWatched'
    <2>1. \A v \in Workers : worker[v] \in {"first", "remove"} => worker'[v] = worker[v]
        BY <1>1, <1>3 DEF OnlyLocals
    <2> QED BY <1>1, <1>12, <2>1 DEF GatewayInv, SessionWatched
<1>15. FoundServes' /\ OwnDatagrams'
    BY <1>1, ServeFrame DEF connVars
<1> QED BY <1>4, <1>5, <1>6, <1>7, <1>9, <1>10, <1>11, <1>13, <1>14, <1>15, PartsNext
        DEF Table2, Table3

LEMMA InsertFirstInv ==
    ASSUME GatewayInv, NEW w \in Workers, Insert(w), sessions[packet[w]] = None
    PROVE  GatewayInv'
<1>1. /\ worker[w] = "insert" /\ sessions' = [sessions EXCEPT ![packet[w]] = own[w]]
      /\ worker' = [worker EXCEPT ![w] = "first"]
      /\ UNCHANGED <<listener, closed, serveVars, packet, own, old, relay, gcVars, victim,
                     connVars, strayed>>
    BY DEF Insert
<1>2. /\ packet[w] \in Clients /\ own[w] \in Backends /\ own[w] # None
      /\ state[own[w]] = "open" /\ serves[own[w]] = packet[w]
      /\ \A r \in Removers : victim[r] # own[w]
    BY <1>1, Names DEF GatewayInv, PacketKept, OwnHidden, OwnServes
<1>3. WorkerTypes' /\ OnlyLocals(w) /\ worker'[w] = "first"
    BY <1>1 DEF GatewayInv, TypeOK, WorkerTypes, OnlyLocals
<1>4. /\ sessions' \in [Clients -> Backends \cup {None}] /\ sessions'[packet[w]] = own[w]
      /\ \A c \in Clients : c # packet[w] => sessions'[c] = sessions[c]
    BY <1>1, <1>2 DEF GatewayInv, TypeOK
<1>5. TypeOK'
    BY <1>1, <1>3, <1>4 DEF GatewayInv, TypeOK, WorkerTypes, serveVars, gcVars, connVars
<1>6. Table1'
    <2>1. CloseCounted' /\ OpenedForClient' /\ RelaysOpened'
        BY <1>1 DEF GatewayInv, CloseCounted, OpenedForClient, RelaysOpened, connVars
    <2>2. TableServes'
        BY <1>1, <1>2, <1>4 DEF GatewayInv, TableServes, connVars
    <2> QED BY <2>1, <2>2 DEF Table1
<1>7. PacketKept' /\ OwnWhile'
    BY <1>1, <1>2, <1>3 DEF GatewayInv, PacketKept, OwnWhile, OnlyLocals
<1>8. OwnServes' /\ OwnAlone'
    BY <1>1 DEF GatewayInv, OwnServes, OwnAlone, connVars
<1>9. OwnHidden'
    <2> SUFFICES ASSUME NEW v \in Workers, worker'[v] \in {"insert", "duplicate"}
                 PROVE  /\ state[own[v]] = "open"
                        /\ \A c \in Clients : sessions'[c] # own[v]
                        /\ \A r \in Removers : victim[r] # own[v]
        BY <1>1 DEF OwnHidden, connVars
    <2>1. v # w /\ worker[v] \in {"insert", "duplicate"}
        BY <1>3 DEF OnlyLocals
    <2>2. own[v] # own[w]
        BY <1>2, <2>1 DEF GatewayInv, OwnAlone
    <2> QED BY <1>4, <2>1, <2>2 DEF GatewayInv, OwnHidden
<1>10. OldServes'
    <2>1. \A v \in Workers : worker'[v] \in {"duplicate", "pass on"} => worker[v] = worker'[v]
        BY <1>3 DEF OnlyLocals
    <2> QED BY <1>1, <2>1 DEF GatewayInv, OldServes, connVars
<1>11. VictimOpen' /\ VictimAlone' /\ VictimWhile'
    <2>1. VictimOpen'
        BY <1>1, <1>2, <1>4 DEF GatewayInv, VictimOpen, connVars
    <2>2. VictimAlone' /\ VictimWhile'
        BY <1>1, <1>3 DEF GatewayInv, VictimAlone, VictimWhile, OnlyLocals, gcVars
    <2> QED BY <2>1, <2>2
<1>12. Table' = Table \cup {own[w]}
    BY <1>2, <1>4 DEF Table
<1>13. NoLeak'
    <2>1. \A v \in Workers :
              worker[v] \in {"insert", "duplicate"} => v = w \/ worker'[v] = worker[v]
        BY <1>3 DEF OnlyLocals
    <2> QED BY <1>1, <1>12, <2>1 DEF GatewayInv, NoLeak, connVars
<1>14. SessionWatched'
    <2>1. \A v \in Workers : worker[v] \in {"first", "remove"} => worker'[v] = worker[v]
        BY <1>1, <1>3 DEF OnlyLocals
    <2> QED BY <1>1, <1>3, <1>12, <2>1 DEF GatewayInv, SessionWatched
<1>15. FoundServes' /\ OwnDatagrams'
    BY <1>1, ServeFrame DEF connVars
<1> QED BY <1>5, <1>6, <1>7, <1>8, <1>9, <1>10, <1>11, <1>13, <1>14, <1>15, PartsNext
        DEF Table2, Table3

(* What CloseBackend does to a connection that is open.                    *)
LEMMA Closes ==
    ASSUME GatewayInv, NEW b \in Backends, state[b] = "open", CloseBackend(b)
    PROVE  /\ state' \in [Backends -> {"unused", "open", "closed"}]
           /\ closes' \in [Backends -> Nat] /\ idle' \in [Backends -> BOOLEAN]
           /\ state'[b] = "closed" /\ closes'[b] = 1
           /\ \A a \in Backends : a # b => state'[a] = state[a] /\ closes'[a] = closes[a]
           /\ CloseCounted'
<1>1. closes[b] = 0
    BY DEF GatewayInv, CloseCounted
<1>2. /\ state' \in [Backends -> {"unused", "open", "closed"}] /\ state'[b] = "closed"
      /\ \A a \in Backends : a # b => state'[a] = state[a]
    BY DEF GatewayInv, TypeOK, CloseBackend
<1>3. /\ closes' \in [Backends -> Nat] /\ closes'[b] = 1
      /\ \A a \in Backends : a # b => closes'[a] = closes[a]
    <2>1. closes \in [Backends -> Nat] /\ closes' = [closes EXCEPT ![b] = closes[b] + 1]
        BY DEF GatewayInv, TypeOK, CloseBackend
    <2> QED BY <1>1, <2>1
<1>4. idle' \in [Backends -> BOOLEAN]
    BY DEF GatewayInv, TypeOK, CloseBackend
<1>5. CloseCounted'
    BY <1>2, <1>3 DEF GatewayInv, CloseCounted
<1> QED BY <1>2, <1>3, <1>4, <1>5

LEMMA CloseDuplicateInv ==
    ASSUME GatewayInv, NEW w \in Workers, CloseDuplicate(w)
    PROVE  GatewayInv'
<1> DEFINE b == own[w]
<1>1. /\ worker[w] = "duplicate" /\ CloseBackend(b)
      /\ worker' = [worker EXCEPT ![w] = "pass on"] /\ own' = [own EXCEPT ![w] = None]
      /\ UNCHANGED <<listener, closed, sessions, serveVars, packet, old, relay, gcVars, victim,
                     serves, strayed>>
    BY DEF CloseDuplicate
<1>2. /\ packet[w] \in Clients /\ b \in Backends /\ b # None /\ state[b] = "open"
      /\ \A c \in Clients : sessions[c] # b
      /\ \A r \in Removers : victim[r] # b
      /\ \A v \in Workers : v # w => own[v] # b
    BY <1>1, Names DEF GatewayInv, PacketKept, OwnHidden, OwnAlone
<1>3. /\ WorkerTypes' /\ OnlyLocals(w) /\ worker'[w] = "pass on" /\ own'[w] = None
    BY <1>1 DEF GatewayInv, TypeOK, WorkerTypes, OnlyLocals
<1> HIDE DEF b
<1>4. /\ state' \in [Backends -> {"unused", "open", "closed"}]
      /\ closes' \in [Backends -> Nat] /\ idle' \in [Backends -> BOOLEAN]
      /\ state'[b] = "closed"
      /\ \A a \in Backends : a # b => state'[a] = state[a]
      /\ CloseCounted'
    BY <1>1, <1>2, Closes
<1>5. \A a \in Backends : state[a] # "unused" => state'[a] # "unused"
    BY <1>4
<1>6. TypeOK'
    BY <1>1, <1>3, <1>4 DEF GatewayInv, TypeOK, WorkerTypes, serveVars, gcVars
<1>7. Table1'
    <2>1. OpenedForClient' /\ RelaysOpened'
        BY <1>1, <1>2, <1>4, <1>5 DEF GatewayInv, OpenedForClient, RelaysOpened
    <2>2. TableServes'
        <3>1. ASSUME NEW c \in Clients, sessions[c] # None
              PROVE  state'[sessions[c]] = "open" /\ serves[sessions[c]] = c
            <4>1. sessions[c] \in Backends /\ sessions[c] # b
                BY <1>2, <3>1, Names
            <4> QED BY <1>4, <3>1, <4>1 DEF GatewayInv, TableServes
        <3> QED BY <1>1, <3>1 DEF TableServes
    <2> QED BY <1>4, <2>1, <2>2 DEF Table1
<1>8. PacketKept' /\ OwnWhile'
    BY <1>1, <1>2, <1>3 DEF GatewayInv, PacketKept, OwnWhile, OnlyLocals
<1>9. OwnServes' /\ OwnAlone'
    <2>1. OwnAlone'
        BY <1>3 DEF GatewayInv, OwnAlone, OnlyLocals
    <2>2. OwnServes'
        <3> SUFFICES ASSUME NEW v \in Workers, own'[v] # None
                     PROVE  /\ serves[own'[v]] = packet[v] /\ state'[own'[v]] # "unused"
                            /\ relay[own'[v]] = "none"
            BY <1>1 DEF OwnServes
        <3>1. own'[v] = own[v] /\ own[v] \in Backends
            BY <1>3, Names DEF OnlyLocals
        <3> QED BY <1>5, <3>1 DEF GatewayInv, OwnServes
    <2> QED BY <2>1, <2>2
<1>10. OwnHidden'
    <2> SUFFICES ASSUME NEW v \in Workers, worker'[v] \in {"insert", "duplicate"}
                 PROVE  /\ state'[own'[v]] = "open"
                        /\ \A c \in Clients : sessions[c] # own'[v]
                        /\ \A r \in Removers : victim[r] # own'[v]
        BY <1>1 DEF OwnHidden
    <2>1. v # w /\ worker[v] \in {"insert", "duplicate"} /\ own'[v] = own[v]
        BY <1>3 DEF OnlyLocals
    <2>2. own[v] # b /\ own[v] \in Backends
        BY <1>2, <2>1, Names
    <2> QED BY <1>4, <2>1, <2>2 DEF GatewayInv, OwnHidden
<1>11. OldServes'
    <2>1. \A v \in Workers : worker'[v] \in {"duplicate", "pass on"} =>
              worker[v] \in {"duplicate", "pass on"}
        BY <1>1, <1>3 DEF OnlyLocals
    <2> QED BY <1>1, <1>5, <2>1, Names DEF GatewayInv, OldServes
<1>12. VictimOpen' /\ VictimAlone' /\ VictimWhile'
    <2>1. VictimOpen'
        BY <1>1, <1>2, <1>4, Names DEF GatewayInv, VictimOpen
    <2>2. VictimAlone' /\ VictimWhile'
        BY <1>1, <1>3 DEF GatewayInv, VictimAlone, VictimWhile, OnlyLocals, gcVars
    <2> QED BY <2>1, <2>2
<1>13. Table' = Table
    BY <1>1 DEF Table
<1>14. NoLeak'
    <2>1. \A v \in Workers : own[v] # b /\ worker[v] \in {"insert", "duplicate"} =>
              own'[v] = own[v] /\ worker'[v] = worker[v]
        BY <1>3 DEF OnlyLocals, b
    <2>2. \A a \in Backends : state'[a] = "open" => a # b /\ state[a] = "open"
        BY <1>4
    <2> QED BY <1>1, <1>13, <2>1, <2>2, ZenonT(60) DEF GatewayInv, NoLeak
<1>15. SessionWatched'
    <2>1. \A v \in Workers : worker[v] \in {"first", "remove"} =>
              worker'[v] = worker[v] /\ own'[v] = own[v]
        <3>1. \A v \in Workers : worker[v] \in {"first", "remove"} => v # w
            BY <1>1
        <3> QED BY <1>3, <3>1 DEF OnlyLocals
    <2>2. relay' = relay
        BY <1>1
    <2> QED BY <1>13, <2>1, <2>2 DEF GatewayInv, SessionWatched
<1>16. FoundServes' /\ OwnDatagrams'
    BY <1>1, <1>5, ServeFrame
<1> QED BY <1>6, <1>7, <1>8, <1>9, <1>10, <1>11, <1>12, <1>14, <1>15, <1>16, PartsNext
        DEF Table2, Table3

(* The first datagram has been written: the relay takes over.              *)
LEMMA FirstWrittenInv ==
    ASSUME GatewayInv, NEW w \in Workers, worker[w] = "first", state[own[w]] = "open",
           WriteTo(own[w], Packet(w)), relay' = [relay EXCEPT ![own[w]] = "read"], WorkerEnds(w),
           UNCHANGED <<listener, closed, sessions, serveVars, gcVars, victim, connVars>>
    PROVE  GatewayInv'
<1> DEFINE b == own[w]
<1>1. /\ b \in Backends /\ serves[b] = packet[w] /\ relay[b] = "none"
      /\ \A v \in Workers : v # w => own[v] # b
    BY Names DEF GatewayInv, OwnWhile, OwnServes, OwnAlone
<1>2. WorkerTypes' /\ OnlyLocals(w) /\ own'[w] = None /\ worker'[w] = "idle"
    BY EndsOpen
<1>3. strayed' = strayed
    BY <1>1 DEF GatewayInv, TypeOK, WriteTo, Packet
<1>4. /\ relay' \in [Backends -> {"none", "read", "remove", "close", "ended"}] /\ relay'[b] = "read"
      /\ \A a \in Backends : a # b => relay'[a] = relay[a]
    BY <1>1 DEF GatewayInv, TypeOK
<1>5. state[b] = "open" /\ \A v \in Workers : own[v] = b => v = w
    BY <1>1
<1> HIDE DEF b
<1>6. TypeOK'
    BY <1>2, <1>3, <1>4 DEF GatewayInv, TypeOK, WorkerTypes, serveVars, gcVars, connVars
<1>7. Table1'
    <2>1. CloseCounted' /\ OpenedForClient' /\ TableServes'
        BY DEF GatewayInv, CloseCounted, OpenedForClient, TableServes, connVars
    <2>2. RelaysOpened'
        BY <1>4, <1>5 DEF GatewayInv, RelaysOpened, connVars
    <2> QED BY <2>1, <2>2 DEF Table1
<1>8. PacketKept' /\ OwnWhile'
    BY <1>2 DEF GatewayInv, PacketKept, OwnWhile, OnlyLocals
<1>9. OwnServes' /\ OwnAlone'
    <2>1. OwnAlone'
        BY <1>2 DEF GatewayInv, OwnAlone, OnlyLocals
    <2> SUFFICES ASSUME NEW v \in Workers, own'[v] # None
                 PROVE  /\ serves[own'[v]] = packet'[v] /\ state[own'[v]] # "unused"
                        /\ relay'[own'[v]] = "none"
        BY <2>1 DEF OwnServes, connVars
    <2>2. v # w /\ own'[v] = own[v] /\ packet'[v] = packet[v]
        BY <1>2 DEF OnlyLocals
    <2>3. own[v] \in Backends /\ own[v] # b
        BY <1>5, <2>2, Names
    <2> QED BY <1>4, <2>2, <2>3 DEF GatewayInv, OwnServes
<1>10. \A v \in Workers : worker'[v] # "idle" =>
          v # w /\ worker'[v] = worker[v] /\ own'[v] = own[v] /\ old'[v] = old[v]
                /\ packet'[v] = packet[v]
    BY <1>2 DEF OnlyLocals
<1>11. OwnHidden' /\ OldServes'
    <2>1. OldServes'
        BY <1>10, ZenonT(60) DEF GatewayInv, OldServes, connVars
    <2> SUFFICES ASSUME NEW v \in Workers, worker'[v] \in {"insert", "duplicate"}
                 PROVE  /\ state[own'[v]] = "open"
                        /\ \A c \in Clients : sessions[c] # own'[v]
                        /\ \A r \in Removers : victim[r] # own'[v]
        BY <2>1 DEF OwnHidden, connVars
    <2> QED BY <1>10 DEF GatewayInv, OwnHidden
<1>12. VictimOpen' /\ VictimAlone' /\ VictimWhile'
    <2>1. victim[b] = None /\ victim[w] = None
        BY <1>1, Kinds DEF GatewayInv, VictimWhile, b
    <2>2. VictimWhile'
        BY <1>2, <1>4, <2>1 DEF GatewayInv, VictimWhile, OnlyLocals, gcVars
    <2> QED BY <2>2 DEF GatewayInv, VictimOpen, VictimAlone, connVars
<1>13. Table' = Table
    BY DEF Table
<1>14. NoLeak'
    <2>1. \A v \in Workers : worker[v] \in {"insert", "duplicate"} =>
              worker'[v] = worker[v] /\ own'[v] = own[v]
        BY <1>2 DEF OnlyLocals
    <2> QED BY <1>13, <2>1 DEF GatewayInv, NoLeak, connVars
<1>15. SessionWatched'
    <2>1. \A v \in Workers : own[v] # b /\ worker[v] \in {"first", "remove"} =>
              worker'[v] = worker[v] /\ own'[v] = own[v]
        BY <1>2 DEF OnlyLocals, b
    <2>2. \A a \in Table : a \in Backends
        BY Names DEF Table
    <2> QED BY <1>4, <1>13, <2>1, <2>2 DEF GatewayInv, SessionWatched
<1>16. FoundServes' /\ OwnDatagrams'
    BY <1>3, ServeFrame DEF connVars
<1> QED BY <1>6, <1>7, <1>8, <1>9, <1>11, <1>12, <1>14, <1>15, <1>16, PartsNext
        DEF Table2, Table3

LEMMA FirstWriteFailsInv ==
    ASSUME GatewayInv, NEW w \in Workers, worker[w] = "first",
           worker' = [worker EXCEPT ![w] = "remove"],
           UNCHANGED <<strayed, relay, packet, own, old,
                       listener, closed, sessions, serveVars, gcVars, victim, connVars>>
    PROVE  GatewayInv'
<1>1. /\ worker' \in [Workers -> {"idle", "connect", "insert", "duplicate", "pass on",
                                  "first", "remove", "close"}]
      /\ worker'[w] = "remove" /\ \A v \in Workers : v # w => worker'[v] = worker[v]
    BY DEF GatewayInv, TypeOK
<1>2. TypeOK'
    BY <1>1 DEF GatewayInv, TypeOK, serveVars, gcVars, connVars
<1>3. Table1'
    BY DEF GatewayInv, Table1, CloseCounted, OpenedForClient, RelaysOpened, TableServes, connVars
<1>4. PacketKept' /\ OwnWhile' /\ OwnServes' /\ OwnAlone'
    BY <1>1 DEF GatewayInv, PacketKept, OwnWhile, OwnServes, OwnAlone, connVars
<1>5. OwnHidden' /\ OldServes'
    BY <1>1, ZenonT(60) DEF GatewayInv, OwnHidden, OldServes, connVars
<1>6. VictimOpen' /\ VictimAlone' /\ VictimWhile'
    BY <1>1 DEF GatewayInv, VictimOpen, VictimAlone, VictimWhile, connVars, gcVars
<1>7. Table' = Table
    BY DEF Table
<1>8. NoLeak' /\ SessionWatched'
    <2>1. \A v \in Workers :
              /\ worker[v] \in {"insert", "duplicate"} => worker'[v] = worker[v]
              /\ worker[v] \in {"first", "remove"} => worker'[v] \in {"first", "remove"}
        BY <1>1
    <2>2. NoLeak'
        BY <1>7, <2>1 DEF GatewayInv, NoLeak, connVars
    <2>3. SessionWatched'
        BY <1>7, <2>1 DEF GatewayInv, SessionWatched
    <2> QED BY <2>2, <2>3
<1>9. FoundServes' /\ OwnDatagrams'
    BY ServeFrame DEF connVars
<1> QED BY <1>2, <1>3, <1>4, <1>5, <1>6, <1>8, <1>9, PartsNext DEF Table2, Table3

-----------------------------------------------------------------------------
(* The relays.                                                             *)

LEMMA RelayReadsInv ==
    ASSUME GatewayInv, NEW b \in Backends, RelayForwards(b) \/ RelayFails(b)
    PROVE  GatewayInv'
<1>1. /\ relay[b] = "read"
      /\ UNCHANGED <<listener, closed, sessions, serveVars, workerVars, gcVars, victim,
                     state, serves, closes, strayed>>
    BY DEF RelayForwards, RelayFails, connVars
<1>2. /\ relay' \in [Backends -> {"none", "read", "remove", "close", "ended"}]
      /\ relay'[b] \in {"read", "remove"}
      /\ \A a \in Backends : a # b => relay'[a] = relay[a]
      /\ idle' \in [Backends -> BOOLEAN]
    BY DEF GatewayInv, TypeOK, RelayForwards, RelayFails, connVars
<1>3. TypeOK'
    BY <1>1, <1>2 DEF GatewayInv, TypeOK, workerVars, serveVars, gcVars
<1>4. Table1'
    BY <1>1, <1>2
       DEF GatewayInv, Table1, CloseCounted, OpenedForClient, RelaysOpened, TableServes
<1>5. PacketKept' /\ OwnWhile' /\ OwnAlone' /\ OwnHidden' /\ OldServes'
    BY <1>1 DEF GatewayInv, PacketKept, OwnWhile, OwnAlone, OwnHidden, OldServes, workerVars
<1>6. OwnServes'
    <2>1. \A v \in Workers : own[v] # None => own[v] \in Backends /\ own[v] # b
        BY <1>1, Names DEF GatewayInv, OwnServes
    <2> QED BY <1>1, <1>2, <2>1 DEF GatewayInv, OwnServes, workerVars
<1>7. VictimOpen' /\ VictimAlone' /\ VictimWhile'
    <2>1. victim[b] = None
        BY <1>1 DEF GatewayInv, VictimWhile
    <2> QED BY <1>1, <1>2, <2>1
            DEF GatewayInv, VictimOpen, VictimAlone, VictimWhile, workerVars, gcVars
<1>8. Table' = Table
    BY <1>1 DEF Table
<1>9. NoLeak'
    BY <1>1, <1>8 DEF GatewayInv, NoLeak, workerVars
<1>10. SessionWatched'
    <2>1. \A a \in Table : a \in Backends
        BY Names DEF Table
    <2> QED BY <1>1, <1>2, <1>8, <2>1 DEF GatewayInv, SessionWatched, workerVars
<1>11. FoundServes' /\ OwnDatagrams'
    BY <1>1, ServeFrame
<1> QED BY <1>3, <1>4, <1>5, <1>6, <1>7, <1>9, <1>10, <1>11, PartsNext DEF Table2, Table3

-----------------------------------------------------------------------------
(* remove, in the hands of newSession, a relay or the collector.           *)

(* The goroutine r goes from "remove" to "close".                          *)
LEMMA TakeInv ==
    ASSUME GatewayInv, NEW r \in Removers, NEW c \in Clients, Take(r, c), victim[r] = None,
           WorkerTypes', relay' \in [Backends -> {"none", "read", "remove", "close", "ended"}],
           UNCHANGED <<packet, own, old, state, serves, closes>>,
           \A w \in Workers : worker'[w] = worker[w] \/
               (w = r /\ worker[w] = "remove" /\ worker'[w] = "close" /\ c = packet[w]),
           \A b \in Backends : relay'[b] = relay[b] \/
               (b = r /\ relay[b] = "remove" /\ relay'[b] = "close" /\ c = serves[b]),
           r \in Workers => worker'[r] = "close",
           r \in Backends => relay'[r] = "close",
           r = "gc" => collecting' = "close",
           r # "gc" => collecting' = collecting
    PROVE  /\ Table1' /\ Table2' /\ Table3'
           /\ victim' \in [Removers -> Backends \cup {None}]
           /\ sessions' \in [Clients -> Backends \cup {None}]
<1>1. /\ victim' \in [Removers -> Backends \cup {None}] /\ victim'[r] = sessions[c]
      /\ \A q \in Removers : q # r => victim'[q] = victim[q]
      /\ sessions' \in [Clients -> Backends \cup {None}] /\ sessions'[c] = None
      /\ \A d \in Clients : d # c => sessions'[d] = sessions[d]
    BY DEF GatewayInv, TypeOK, Take
<1>2. \A d \in Clients : sessions'[d] # None => sessions'[d] = sessions[d] /\ d # c
    BY <1>1
<1>3. Table1'
    <2>1. CloseCounted' /\ OpenedForClient'
        BY DEF GatewayInv, CloseCounted, OpenedForClient
    <2>2. RelaysOpened'
        BY DEF GatewayInv, RelaysOpened
    <2>3. TableServes'
        BY <1>2 DEF GatewayInv, TableServes
    <2> QED BY <2>1, <2>2, <2>3 DEF Table1
<1>4. PacketKept' /\ OwnWhile' /\ OwnAlone'
    BY DEF GatewayInv, PacketKept, OwnWhile, OwnAlone
<1>5. OwnServes'
    <2>1. \A v \in Workers : own[v] # None => relay'[own[v]] = "none"
        BY Names DEF GatewayInv, OwnServes
    <2> QED BY <2>1 DEF GatewayInv, OwnServes
<1>6. \A v \in Workers : worker'[v] \in {"insert", "duplicate", "pass on"} => worker'[v] = worker[v]
    OBVIOUS
<1>7. OwnHidden'
    <2> SUFFICES ASSUME NEW v \in Workers, worker'[v] \in {"insert", "duplicate"}
                 PROVE  /\ state[own[v]] = "open"
                        /\ \A d \in Clients : sessions'[d] # own[v]
                        /\ \A q \in Removers : victim'[q] # own[v]
        BY DEF OwnHidden
    <2>1. worker[v] \in {"insert", "duplicate"} /\ own[v] # None
        BY <1>6, Names
    <2>2. /\ state[own[v]] = "open" /\ \A d \in Clients : sessions[d] # own[v]
          /\ \A q \in Removers : victim[q] # own[v]
        BY <2>1 DEF GatewayInv, OwnHidden
    <2> QED BY <1>1, <1>2, <2>1, <2>2
<1>8. OldServes'
    BY <1>6 DEF GatewayInv, OldServes
<1>9. VictimOpen'
    <2> SUFFICES ASSUME NEW q \in Removers, victim'[q] # None
                 PROVE  state[victim'[q]] = "open" /\ \A d \in Clients : sessions'[d] # victim'[q]
        BY DEF VictimOpen
    <2>1. CASE q = r
        <3>1. state[sessions[c]] = "open" /\ serves[sessions[c]] = c /\ sessions[c] # None
            BY <1>1, <2>1 DEF GatewayInv, TableServes
        <3>2. ASSUME NEW d \in Clients, d # c PROVE sessions[d] # sessions[c]
            BY <3>1, <3>2 DEF GatewayInv, TableServes
        <3> QED BY <1>1, <1>2, <2>1, <3>1, <3>2
    <2>2. CASE q # r
        BY <1>1, <1>2, <2>2 DEF GatewayInv, VictimOpen
    <2> QED BY <2>1, <2>2
<1>10. VictimAlone'
    <2>1. \A q \in Removers : q # r /\ victim[q] # None => victim[q] # sessions[c]
        BY DEF GatewayInv, VictimOpen
    <2> QED BY <1>1, <2>1 DEF GatewayInv, VictimAlone
<1>11. VictimWhile'
    <2>1. \A w \in Workers : victim'[w] # None => worker'[w] = "close"
        BY <1>1, Kinds DEF GatewayInv, VictimWhile
    <2>2. \A b \in Backends : victim'[b] # None => relay'[b] = "close"
        BY <1>1, Kinds DEF GatewayInv, VictimWhile
    <2>3. victim'["gc"] # None => collecting' = "close"
        BY <1>1, Kinds DEF GatewayInv, VictimWhile
    <2> QED BY <2>1, <2>2, <2>3 DEF VictimWhile
<1>12. NoLeak'
    <2> SUFFICES ASSUME NEW b \in Backends, state[b] = "open", b \notin Table',
                        \A q \in Removers : victim'[q] # b
                 PROVE  \E w \in Workers : own[w] = b /\ worker'[w] \in {"insert", "duplicate"}
        BY DEF NoLeak
    <2>1. b # None
        BY Names
    <2>2. \A q \in Removers : victim[q] # b
        BY <1>1, <2>1
    <2>3. b \notin Table
        BY <1>1, <2>1 DEF Table
    <2>4. PICK w \in Workers : own[w] = b /\ worker[w] \in {"insert", "duplicate"}
        BY <2>2, <2>3 DEF GatewayInv, NoLeak
    <2> QED BY <2>4
<1>13. SessionWatched'
    <2> SUFFICES ASSUME NEW b \in Table'
                 PROVE  \/ relay'[b] \in {"read", "remove"}
                        \/ \E w \in Workers : own[w] = b /\ worker'[w] \in {"first", "remove"}
        BY DEF SessionWatched
    <2>1. PICK d \in Clients : sessions'[d] = b /\ b # None
        BY DEF Table
    <2>2. sessions[d] = b /\ d # c /\ serves[b] = d /\ b \in Backends /\ b \in Table
        BY <1>2, <2>1, Names DEF GatewayInv, TableServes, Table
    <2>3. CASE relay[b] \in {"read", "remove"}
        BY <2>2, <2>3
    <2>4. CASE \E w \in Workers : own[w] = b /\ worker[w] \in {"first", "remove"}
        <3>1. PICK w \in Workers : own[w] = b /\ worker[w] \in {"first", "remove"}
            BY <2>4
        <3>2. packet[w] = d
            BY <2>1, <2>2, <3>1 DEF GatewayInv, OwnServes
        <3> QED BY <2>2, <3>1, <3>2
    <2> QED BY <2>2, <2>3, <2>4 DEF GatewayInv, SessionWatched
<1> QED BY <1>1, <1>3, <1>4, <1>5, <1>7, <1>8, <1>9, <1>10, <1>11, <1>12, <1>13 DEF Table2, Table3

(* The goroutine r closes what it has taken out, if anything.              *)
LEMMA CloseVictimInv ==
    ASSUME GatewayInv, NEW r \in Removers, CloseVictim(r), UNCHANGED <<sessions, serves>>,
           WorkerTypes', relay' \in [Backends -> {"none", "read", "remove", "close", "ended"}],
           \A w \in Workers :
               \/ /\ worker'[w] = worker[w] /\ packet'[w] = packet[w]
                  /\ own'[w] = own[w] /\ old'[w] = old[w]
               \/ w = r /\ worker[w] = "close" /\ worker'[w] = "idle" /\ own'[w] = None,
           \A b \in Backends : relay'[b] = relay[b] \/
               (b = r /\ relay[b] = "close" /\ relay'[b] = "ended"),
           r # "gc" => collecting' = collecting
    PROVE  /\ Table1' /\ Table2' /\ Table3'
           /\ victim' \in [Removers -> Backends \cup {None}]
           /\ state' \in [Backends -> {"unused", "open", "closed"}]
           /\ closes' \in [Backends -> Nat] /\ idle' \in [Backends -> BOOLEAN]
           /\ \A b \in Backends : state[b] # "unused" => state'[b] # "unused"
<1>1. /\ victim' \in [Removers -> Backends \cup {None}] /\ victim'[r] = None
      /\ \A q \in Removers : q # r => victim'[q] = victim[q]
    BY DEF GatewayInv, TypeOK, CloseVictim
<1>2. /\ state' \in [Backends -> {"unused", "open", "closed"}]
      /\ closes' \in [Backends -> Nat] /\ idle' \in [Backends -> BOOLEAN]
      /\ CloseCounted'
      /\ \A b \in Backends : b # victim[r] => state'[b] = state[b]
      /\ \A b \in Backends : state[b] # "unused" => state'[b] # "unused"
      /\ \A b \in Backends : state[b] = "unused" => state'[b] = "unused"
      /\ \A b \in Backends : b = victim[r] => state'[b] = "closed"
    <2>1. CASE victim[r] = None
        <3>1. UNCHANGED <<state, closes, idle>>
            BY <2>1 DEF CloseVictim
        <3>2. CloseCounted'
            BY <3>1 DEF GatewayInv, CloseCounted
        <3> QED BY <2>1, <3>1, <3>2, Names DEF GatewayInv, TypeOK
    <2>2. CASE victim[r] # None
        <3>1. victim[r] \in Backends /\ state[victim[r]] = "open" /\ CloseBackend(victim[r])
            BY <2>2, Names DEF GatewayInv, VictimOpen, CloseVictim
        <3> QED BY <3>1, Closes
    <2> QED BY <2>1, <2>2
<1>3. Table1'
    <2>1. OpenedForClient' /\ RelaysOpened'
        BY <1>2 DEF GatewayInv, OpenedForClient, RelaysOpened
    <2>2. ASSUME NEW c \in Clients, sessions[c] # None
          PROVE  state'[sessions[c]] = "open" /\ serves[sessions[c]] = c
        <3>1. sessions[c] \in Backends /\ sessions[c] # victim[r]
            BY <2>2, Names DEF GatewayInv, VictimOpen
        <3> QED BY <1>2, <2>2, <3>1 DEF GatewayInv, TableServes
    <2>3. TableServes'
        BY <2>2 DEF TableServes
    <2> QED BY <1>2, <2>1, <2>3 DEF Table1
<1>4. PacketKept' /\ OwnWhile' /\ OwnAlone'
    BY DEF GatewayInv, PacketKept, OwnWhile, OwnAlone
<1>5. OwnServes'
    <2> SUFFICES ASSUME NEW v \in Workers, own'[v] # None
                 PROVE  /\ serves[own'[v]] = packet'[v] /\ state'[own'[v]] # "unused"
                        /\ relay'[own'[v]] = "none"
        BY DEF OwnServes
    <2>1. own'[v] = own[v] /\ packet'[v] = packet[v] /\ own[v] \in Backends
        BY Names
    <2> QED BY <1>2, <2>1 DEF GatewayInv, OwnServes
<1>6. \A v \in Workers : worker'[v] \in {"insert", "duplicate", "pass on"} =>
          worker'[v] = worker[v] /\ packet'[v] = packet[v] /\ own'[v] = own[v] /\ old'[v] = old[v]
    OBVIOUS
<1>7. OwnHidden'
    <2> SUFFICES ASSUME NEW v \in Workers, worker'[v] \in {"insert", "duplicate"}
                 PROVE  /\ state'[own'[v]] = "open"
                        /\ \A d \in Clients : sessions[d] # own'[v]
                        /\ \A q \in Removers : victim'[q] # own'[v]
        BY DEF OwnHidden
    <2>1. /\ worker[v] \in {"insert", "duplicate"} /\ own'[v] = own[v]
          /\ own[v] \in Backends /\ own[v] # None
        BY <1>6, Names
    <2>2. /\ state[own[v]] = "open" /\ \A d \in Clients : sessions[d] # own[v]
          /\ \A q \in Removers : victim[q] # own[v]
        BY <2>1 DEF GatewayInv, OwnHidden
    <2> QED BY <1>1, <1>2, <2>1, <2>2
<1>8. OldServes'
    <2> SUFFICES ASSUME NEW v \in Workers, worker'[v] \in {"duplicate", "pass on"}
                 PROVE  /\ old'[v] # None /\ state'[old'[v]] # "unused"
                        /\ serves[old'[v]] = packet'[v]
        BY DEF OldServes
    <2>1. worker[v] \in {"duplicate", "pass on"} /\ old'[v] = old[v] /\ packet'[v] = packet[v]
        BY <1>6
    <2>2. old[v] # None /\ state[old[v]] # "unused" /\ serves[old[v]] = packet[v]
        BY <2>1 DEF GatewayInv, OldServes
    <2>3. old[v] \in Backends
        BY <2>2, Names
    <2>4. state'[old[v]] # "unused"
        BY <1>2, <2>2, <2>3
    <2> QED BY <2>1, <2>2, <2>4
<1>9. VictimOpen'
    <2> SUFFICES ASSUME NEW q \in Removers, victim'[q] # None
                 PROVE  state'[victim'[q]] = "open" /\ \A d \in Clients : sessions[d] # victim'[q]
        BY DEF VictimOpen
    <2>1. q # r /\ victim'[q] = victim[q] /\ victim[q] \in Backends /\ victim[q] # victim[r]
        BY <1>1, Names DEF GatewayInv, VictimAlone
    <2> QED BY <1>2, <2>1 DEF GatewayInv, VictimOpen
<1>10. VictimAlone'
    BY <1>1 DEF GatewayInv, VictimAlone
<1>11. VictimWhile'
    <2>1. \A w \in Workers : victim'[w] # None => worker'[w] = "close"
        BY <1>1, Kinds DEF GatewayInv, VictimWhile
    <2>2. \A b \in Backends : victim'[b] # None => relay'[b] = "close"
        BY <1>1, Kinds DEF GatewayInv, VictimWhile
    <2>3. victim'["gc"] # None => collecting' = "close"
        BY <1>1, Kinds DEF GatewayInv, VictimWhile
    <2> QED BY <2>1, <2>2, <2>3 DEF VictimWhile
<1>12. Table' = Table
    BY DEF Table
<1>13. NoLeak'
    <2> SUFFICES ASSUME NEW b \in Backends, state'[b] = "open", b \notin Table,
                        \A q \in Removers : victim'[q] # b
                 PROVE  \E w \in Workers : own'[w] = b /\ worker'[w] \in {"insert", "duplicate"}
        BY <1>12 DEF NoLeak
    <2>1. b # victim[r] /\ state[b] = "open"
        BY <1>2
    <2>2. \A q \in Removers : victim[q] # b
        BY <1>1, <2>1
    <2>3. PICK w \in Workers : own[w] = b /\ worker[w] \in {"insert", "duplicate"}
        BY <2>1, <2>2 DEF GatewayInv, NoLeak
    <2> QED BY <2>3
<1>14. SessionWatched'
    <2> SUFFICES ASSUME NEW b \in Table
                 PROVE  \/ relay'[b] \in {"read", "remove"}
                        \/ \E w \in Workers : own'[w] = b /\ worker'[w] \in {"first", "remove"}
        BY <1>12 DEF SessionWatched
    <2>1. b \in Backends
        BY Names DEF Table
    <2>2. CASE relay[b] \in {"read", "remove"}
        BY <2>1, <2>2
    <2>3. CASE \E w \in Workers : own[w] = b /\ worker[w] \in {"first", "remove"}
        <3>1. PICK w \in Workers : own[w] = b /\ worker[w] \in {"first", "remove"}
            BY <2>3
        <3>2. worker'[w] = worker[w] /\ own'[w] = own[w]
            BY <3>1
        <3> QED BY <3>1, <3>2
    <2> QED BY <2>2, <2>3 DEF GatewayInv, SessionWatched
<1> QED BY <1>1, <1>2, <1>3, <1>4, <1>5, <1>7, <1>8, <1>9, <1>10, <1>11, <1>13, <1>14
        DEF Table2, Table3

LEMMA WorkerTakesInv ==
    ASSUME GatewayInv, NEW w \in Workers, WorkerTakes(w)
    PROVE  GatewayInv'
<1>1. /\ worker[w] = "remove" /\ Take(w, packet[w])
      /\ worker' = [worker EXCEPT ![w] = "close"]
      /\ UNCHANGED <<listener, closed, serveVars, packet, own, old, relay, gcVars, connVars,
                     strayed>>
    BY DEF WorkerTakes
<1>2. packet[w] \in Clients /\ victim[w] = None
    BY <1>1 DEF GatewayInv, PacketKept, VictimWhile
<1>3. /\ WorkerTypes' /\ worker'[w] = "close"
      /\ \A v \in Workers : v # w => worker'[v] = worker[v]
    BY <1>1 DEF GatewayInv, TypeOK, WorkerTypes
<1>4. relay' \in [Backends -> {"none", "read", "remove", "close", "ended"}]
    BY <1>1 DEF GatewayInv, TypeOK
<1>5. /\ Table1' /\ Table2' /\ Table3'
      /\ victim' \in [Removers -> Backends \cup {None}]
      /\ sessions' \in [Clients -> Backends \cup {None}]
    BY <1>1, <1>2, <1>3, <1>4, Kinds, TakeInv DEF connVars, gcVars
<1>6. TypeOK'
    BY <1>1, <1>3, <1>4, <1>5 DEF GatewayInv, TypeOK, WorkerTypes, serveVars, gcVars, connVars
<1>7. FoundServes' /\ OwnDatagrams'
    BY <1>1, ServeFrame DEF connVars
<1> QED BY <1>5, <1>6, <1>7, PartsNext

LEMMA WorkerClosesInv ==
    ASSUME GatewayInv, NEW w \in Workers, WorkerCloses(w)
    PROVE  GatewayInv'
<1>1. /\ worker[w] = "close" /\ CloseVictim(w)
      /\ UNCHANGED <<listener, closed, sessions, serveVars, relay, gcVars, serves, strayed>>
    BY DEF WorkerCloses
<1>2. WorkerTypes' /\ OnlyLocals(w) /\ own'[w] = None /\ worker'[w] = "idle"
    BY EndsOpen DEF WorkerCloses
<1>3. \A v \in Workers :
          \/ /\ worker'[v] = worker[v] /\ packet'[v] = packet[v]
             /\ own'[v] = own[v] /\ old'[v] = old[v]
          \/ v = w /\ worker[v] = "close" /\ worker'[v] = "idle" /\ own'[v] = None
    BY <1>1, <1>2 DEF OnlyLocals
<1>4. relay' \in [Backends -> {"none", "read", "remove", "close", "ended"}]
    BY <1>1 DEF GatewayInv, TypeOK
<1>5. /\ Table1' /\ Table2' /\ Table3'
      /\ victim' \in [Removers -> Backends \cup {None}]
      /\ state' \in [Backends -> {"unused", "open", "closed"}]
      /\ closes' \in [Backends -> Nat] /\ idle' \in [Backends -> BOOLEAN]
      /\ \A b \in Backends : state[b] # "unused" => state'[b] # "unused"
    BY <1>1, <1>2, <1>3, <1>4, Kinds, CloseVictimInv DEF gcVars
<1>6. TypeOK'
    BY <1>1, <1>2, <1>4, <1>5 DEF GatewayInv, TypeOK, WorkerTypes, serveVars, gcVars
<1>7. FoundServes' /\ OwnDatagrams'
    BY <1>1, <1>5, ServeFrame
<1> QED BY <1>5, <1>6, <1>7, PartsNext

LEMMA RelayTakesInv ==
    ASSUME GatewayInv, NEW b \in Backends, RelayTakes(b)
    PROVE  GatewayInv'
<1>1. /\ relay[b] = "remove" /\ Take(b, serves[b])
      /\ relay' = [relay EXCEPT ![b] = "close"]
      /\ UNCHANGED <<listener, closed, serveVars, workerVars, gcVars, connVars, strayed>>
    BY DEF RelayTakes, Client
<1>2. serves[b] \in Clients /\ victim[b] = None
    BY <1>1 DEF GatewayInv, RelaysOpened, OpenedForClient, VictimWhile
<1>3. /\ relay' \in [Backends -> {"none", "read", "remove", "close", "ended"}]
      /\ relay'[b] = "close" /\ \A a \in Backends : a # b => relay'[a] = relay[a]
    BY <1>1 DEF GatewayInv, TypeOK
<1>4. WorkerTypes'
    BY <1>1 DEF GatewayInv, TypeOK, WorkerTypes, workerVars
<1>5. /\ Table1' /\ Table2' /\ Table3'
      /\ victim' \in [Removers -> Backends \cup {None}]
      /\ sessions' \in [Clients -> Backends \cup {None}]
    BY <1>1, <1>2, <1>3, <1>4, Kinds, TakeInv DEF connVars, gcVars, workerVars
<1>6. TypeOK'
    BY <1>1, <1>3, <1>4, <1>5 DEF GatewayInv, TypeOK, WorkerTypes, serveVars, gcVars, connVars
<1>7. FoundServes' /\ OwnDatagrams'
    BY <1>1, ServeFrame DEF connVars
<1> QED BY <1>5, <1>6, <1>7, PartsNext

LEMMA RelayClosesInv ==
    ASSUME GatewayInv, NEW b \in Backends, RelayCloses(b)
    PROVE  GatewayInv'
<1>1. /\ relay[b] = "close" /\ CloseVictim(b)
      /\ relay' = [relay EXCEPT ![b] = "ended"]
      /\ UNCHANGED <<listener, closed, sessions, serveVars, workerVars, gcVars, serves, strayed>>
    BY DEF RelayCloses
<1>2. /\ relay' \in [Backends -> {"none", "read", "remove", "close", "ended"}]
      /\ relay'[b] = "ended" /\ \A a \in Backends : a # b => relay'[a] = relay[a]
    BY <1>1 DEF GatewayInv, TypeOK
<1>3. WorkerTypes'
    BY <1>1 DEF GatewayInv, TypeOK, WorkerTypes, workerVars
<1>4. /\ Table1' /\ Table2' /\ Table3'
      /\ victim' \in [Removers -> Backends \cup {None}]
      /\ state' \in [Backends -> {"unused", "open", "closed"}]
      /\ closes' \in [Backends -> Nat] /\ idle' \in [Backends -> BOOLEAN]
      /\ \A a \in Backends : state[a] # "unused" => state'[a] # "unused"
    BY <1>1, <1>2, <1>3, Kinds, CloseVictimInv DEF gcVars, workerVars
<1>5. TypeOK'
    BY <1>1, <1>2, <1>3, <1>4 DEF GatewayInv, TypeOK, WorkerTypes, serveVars, gcVars
<1>6. FoundServes' /\ OwnDatagrams'
    BY <1>1, <1>4, ServeFrame
<1> QED BY <1>4, <1>5, <1>6, PartsNext

LEMMA CollectorTakesInv ==
    ASSUME GatewayInv, CollectorTakes
    PROVE  GatewayInv'
<1>1. /\ collecting = "remove" /\ collecting' = "close"
      /\ UNCHANGED <<listener, closed, serveVars, workerVars, relay, connVars, strayed>>
    BY DEF CollectorTakes
<1>2. PICK c \in stale : Take("gc", c) /\ stale' = stale \ {c}
    BY DEF CollectorTakes
<1>3. c \in Clients /\ stale' \subseteq Clients /\ victim["gc"] = None
    BY <1>1, <1>2 DEF GatewayInv, TypeOK, VictimWhile
<1>4. /\ WorkerTypes'
      /\ relay' \in [Backends -> {"none", "read", "remove", "close", "ended"}]
    BY <1>1 DEF GatewayInv, TypeOK, WorkerTypes, workerVars
<1>5. /\ Table1' /\ Table2' /\ Table3'
      /\ victim' \in [Removers -> Backends \cup {None}]
      /\ sessions' \in [Clients -> Backends \cup {None}]
    BY <1>1, <1>2, <1>3, <1>4, Kinds, TakeInv DEF connVars, workerVars
<1>6. TypeOK'
    BY <1>1, <1>3, <1>4, <1>5 DEF GatewayInv, TypeOK, WorkerTypes, serveVars, connVars
<1>7. FoundServes' /\ OwnDatagrams'
    BY <1>1, ServeFrame DEF connVars
<1> QED BY <1>5, <1>6, <1>7, PartsNext

LEMMA CollectorClosesInv ==
    ASSUME GatewayInv, CollectorCloses
    PROVE  GatewayInv'
<1>1. /\ CloseVictim("gc") /\ collecting' \in {"wait", "remove"}
      /\ UNCHANGED <<listener, closed, sessions, serveVars, workerVars, relay, stale, serves,
                     strayed>>
    BY DEF CollectorCloses
<1>2. /\ WorkerTypes'
      /\ relay' \in [Backends -> {"none", "read", "remove", "close", "ended"}]
    BY <1>1 DEF GatewayInv, TypeOK, WorkerTypes, workerVars
<1>3. /\ Table1' /\ Table2' /\ Table3'
      /\ victim' \in [Removers -> Backends \cup {None}]
      /\ state' \in [Backends -> {"unused", "open", "closed"}]
      /\ closes' \in [Backends -> Nat] /\ idle' \in [Backends -> BOOLEAN]
      /\ \A a \in Backends : state[a] # "unused" => state'[a] # "unused"
    BY <1>1, <1>2, Kinds, CloseVictimInv DEF workerVars
<1>4. TypeOK'
    BY <1>1, <1>2, <1>3 DEF GatewayInv, TypeOK, WorkerTypes, serveVars
<1>5. FoundServes' /\ OwnDatagrams'
    BY <1>1, <1>3, ServeFrame
<1> QED BY <1>3, <1>4, <1>5, PartsNext

-----------------------------------------------------------------------------
(* close empties the table and closes what was in it.                      *)
LEMMA CloseSessionsInv ==
    ASSUME GatewayInv, CloseSessions
    PROVE  GatewayInv'
<1>1. /\ UNCHANGED <<listener, serveVars, workerVars, relay, gcVars, victim, serves, strayed>>
      /\ closed' = TRUE
      /\ sessions' = [c \in Clients |-> None]
      /\ idle' = [b \in Backends |-> idle[b] /\ b \notin Table]
      /\ \A b \in Backends : b \in Table => state'[b] = "closed" /\ closes'[b] = closes[b] + 1
      /\ \A b \in Backends : b \notin Table => state'[b] = state[b] /\ closes'[b] = closes[b]
      /\ DOMAIN state' = Backends /\ DOMAIN closes' = Backends
    BY DEF CloseSessions
<1>2. \A b \in Backends : b \in Table <=> \E c \in Clients : sessions[c] = b
    BY Names DEF Table
<1>3. \A b \in Backends : b \in Table => state[b] = "open" /\ closes[b] = 0
    BY <1>2, Names DEF GatewayInv, TableServes, CloseCounted
<1>4. /\ state' \in [Backends -> {"unused", "open", "closed"}]
      /\ closes' \in [Backends -> Nat] /\ idle' \in [Backends -> BOOLEAN]
    <2>1. state' \in [Backends -> {"unused", "open", "closed"}]
        BY DEF GatewayInv, TypeOK, CloseSessions
    <2>2. closes' = [b \in Backends |-> IF b \in Table THEN closes[b] + 1 ELSE closes[b]]
        BY DEF CloseSessions
    <2>3. closes \in [Backends -> Nat]
        BY DEF GatewayInv, TypeOK
    <2>4. idle' = [b \in Backends |-> idle[b] /\ b \notin Table]
        BY DEF CloseSessions
    <2>5. closes' \in [Backends -> Nat]
        BY <2>2, <2>3
    <2>6. idle' \in [Backends -> BOOLEAN]
        BY <2>4, Zenon
    <2> QED BY <2>1, <2>5, <2>6
<1>5. TypeOK'
    BY <1>1, <1>4 DEF GatewayInv, TypeOK, workerVars, serveVars, gcVars
<1>6. CloseCounted'
    BY <1>1, <1>3 DEF GatewayInv, CloseCounted
<1>7. \A b \in Backends : state'[b] = "unused" <=> state[b] = "unused"
    BY <1>1, <1>3
<1>8. Table1'
    BY <1>1, <1>6, <1>7
       DEF GatewayInv, Table1, OpenedForClient, RelaysOpened, TableServes
<1>9. PacketKept' /\ OwnWhile' /\ OwnAlone'
    BY <1>1 DEF GatewayInv, PacketKept, OwnWhile, OwnAlone, workerVars
<1>10. OwnServes' /\ OldServes'
    <2>1. OwnServes'
        BY <1>1, <1>7, Names DEF GatewayInv, OwnServes, workerVars
    <2>2. OldServes'
        BY <1>1, <1>7, Names DEF GatewayInv, OldServes, workerVars
    <2> QED BY <2>1, <2>2
<1>11. OwnHidden'
    <2>1. ASSUME NEW w \in Workers, worker[w] \in {"insert", "duplicate"}
          PROVE  /\ state'[own[w]] = "open" /\ own[w] # None
                 /\ \A r \in Removers : victim[r] # own[w]
        BY <1>1, <1>2, <2>1, Names DEF GatewayInv, OwnHidden
    <2> QED BY <1>1, <2>1 DEF OwnHidden, workerVars
<1>12. VictimOpen' /\ VictimAlone' /\ VictimWhile'
    <2>1. ASSUME NEW r \in Removers, victim[r] # None
          PROVE  state'[victim[r]] = "open"
        BY <1>1, <1>2, <2>1, Names DEF GatewayInv, VictimOpen
    <2>2. VictimOpen'
        BY <1>1, <2>1 DEF VictimOpen
    <2>3. VictimAlone' /\ VictimWhile'
        BY <1>1 DEF GatewayInv, VictimAlone, VictimWhile, workerVars, gcVars
    <2> QED BY <2>2, <2>3
<1>13. Table' = {}
    BY <1>1 DEF Table
<1>14. NoLeak'
    <2> SUFFICES ASSUME NEW b \in Backends, state'[b] = "open",
                        \A r \in Removers : victim[r] # b
                 PROVE  \E w \in Workers : own[w] = b /\ worker[w] \in {"insert", "duplicate"}
        BY <1>1 DEF NoLeak, workerVars
    <2>1. b \notin Table /\ state[b] = "open"
        BY <1>1
    <2> QED BY <2>1 DEF GatewayInv, NoLeak
<1>15. SessionWatched'
    BY <1>13 DEF SessionWatched
<1>16. FoundServes' /\ OwnDatagrams'
    BY <1>1, <1>7, ServeFrame
<1> QED BY <1>5, <1>8, <1>9, <1>10, <1>11, <1>12, <1>14, <1>15, <1>16, PartsNext
        DEF Table2, Table3

-----------------------------------------------------------------------------
LEMMA WorkerStepInv ==
    ASSUME GatewayInv, NEW w \in Workers, WorkerStep(w)
    PROVE  GatewayInv'
<1>1. CASE Insert(w)
    BY <1>1, InsertDuplicateInv, InsertFirstInv
<1>2. CASE CloseDuplicate(w)
    BY <1>2, CloseDuplicateInv
<1>3. CASE PassOn(w)
    BY <1>3, PassOnInv
<1>4. CASE FirstWrite(w)
    BY <1>4, FirstWrittenInv, FirstWriteFailsInv DEF FirstWrite
<1>5. CASE WorkerTakes(w)
    BY <1>5, WorkerTakesInv
<1>6. CASE WorkerCloses(w)
    BY <1>6, WorkerClosesInv
<1> QED BY <1>1, <1>2, <1>3, <1>4, <1>5, <1>6 DEF WorkerStep

LEMMA RelayStepInv ==
    ASSUME GatewayInv, NEW b \in Backends,
           RelayForwards(b) \/ RelayFails(b) \/ RelayStep(b)
    PROVE  GatewayInv'
BY RelayReadsInv, RelayTakesInv, RelayClosesInv DEF RelayStep

LEMMA StepInv == GatewayInv /\ [Next]_vars => GatewayInv'
<1> SUFFICES ASSUME GatewayInv, [Next]_vars PROVE GatewayInv'
    OBVIOUS
<1>1. CASE (\E c \in Clients : Receive(c)) \/ ServeStep
    BY <1>1, ServeInv, SpawnInv DEF ServeStep
<1>2. ASSUME NEW w \in Workers, Reject(w) \/ Connect(w) \/ WorkerStep(w)
      PROVE  GatewayInv'
    BY <1>2, RejectInv, ConnectInv, WorkerStepInv
<1>3. ASSUME NEW b \in Backends, RelayForwards(b) \/ RelayFails(b) \/ RelayStep(b)
      PROVE  GatewayInv'
    BY <1>3, RelayStepInv
<1>4. CASE (\E b \in Backends : GrowsIdle(b)) \/ Collect \/ CloseListener
    BY <1>4, BackgroundInv
<1>5. CASE CollectorTakes \/ CollectorCloses
    BY <1>5, CollectorTakesInv, CollectorClosesInv
<1>6. CASE CloseSessions
    BY <1>6, CloseSessionsInv
<1>7. CASE UNCHANGED vars
    <2>1. Table1' /\ Table2' /\ Table3'
        BY <1>7, TableFrame DEF vars, connVars, gcVars
    <2>2. TypeOK'
        BY <1>7 DEF GatewayInv, TypeOK, vars, workerVars, serveVars, gcVars, connVars
    <2>3. FoundServes' /\ OwnDatagrams'
        BY <1>7, ServeFrame DEF vars, connVars
    <2> QED BY <2>1, <2>2, <2>3, PartsNext
<1> QED BY <1>1, <1>2, <1>3, <1>4, <1>5, <1>6, <1>7 DEF Next, CollectorStep

(* Every state the gateway can reach satisfies the invariant, with any     *)
(* number of clients, goroutines and connections.                          *)
THEOREM GatewayCorrect == Spec => []GatewayInv
BY InitInv, StepInv, PTL DEF Spec

(* No connection leaks (newSession, remove, relay, gcOnce, close): each    *)
(* open one is in the table or held by a goroutine that inserts or closes  *)
(* it.                                                                     *)
THEOREM NothingLeaks == Spec => []NoLeak
<1>1. GatewayInv => NoLeak
    BY DEF GatewayInv
<1> QED BY <1>1, GatewayCorrect, PTL

(* remove, close and the duplicates of newSession close a connection at    *)
(* most once, and never one that the table still names.                    *)
THEOREM ClosedAtMostOnce == Spec => []ClosedOnce
<1>1. GatewayInv => ClosedOnce
    <2> SUFFICES ASSUME GatewayInv, NEW b \in Backends
                 PROVE  closes[b] <= 1 /\ (b \in Table => state[b] = "open")
        BY DEF ClosedOnce
    <2>1. closes[b] \in {0, 1}
        BY DEF GatewayInv, CloseCounted
    <2>2. b \in Table => state[b] = "open"
        BY DEF GatewayInv, TableServes, Table
    <2> QED BY <2>1, <2>2
<1> QED BY <1>1, GatewayCorrect, PTL

(* A session in the table has a relay, or a newSession about to start one  *)
(* or to remove it.                                                        *)
THEOREM SessionsWatched == Spec => []SessionWatched
<1>1. GatewayInv => SessionWatched
    BY DEF GatewayInv
<1> QED BY <1>1, GatewayCorrect, PTL

(* forwardExisting and newSession write a client's datagram to its own     *)
(* connection only.                                                        *)
THEOREM NoneStrays == Spec => []OwnDatagrams
<1>1. GatewayInv => OwnDatagrams
    BY DEF GatewayInv
<1> QED BY <1>1, GatewayCorrect, PTL

-----------------------------------------------------------------------------
(* Pieces of a stream.                                                     *)

LEMMA RunIntro ==
    ASSUME NEW s \in Seq(Nat), NEW n \in Nat, \A i \in 1..Len(s) : s[i] = n + i
    PROVE  IsRun(s, n)
BY DEF IsRun

LEMMA RunEqual ==
    ASSUME NEW s \in Seq(Nat), NEW t \in Seq(Nat), Len(s) = Len(t),
           \A i \in 1..Len(s) : s[i] = t[i]
    PROVE  s = t
OBVIOUS

LEMMA RunAppend ==
    ASSUME NEW s \in Seq(Nat), NEW n \in Nat, IsRun(s, n), NEW x, x = n + Len(s) + 1
    PROVE  /\ Append(s, x) \in Seq(Nat) /\ Append(s, x) # <<>> /\ IsRun(Append(s, x), n)
           /\ Len(Append(s, x)) = Len(s) + 1
<1>1. x \in Nat /\ Append(s, x) \in Seq(Nat) /\ Len(Append(s, x)) = Len(s) + 1
    OBVIOUS
<1>2. ASSUME NEW i \in 1..Len(s) + 1 PROVE Append(s, x)[i] = n + i
    BY DEF IsRun
<1> QED BY <1>1, <1>2 DEF IsRun

LEMMA RunTail ==
    ASSUME NEW s \in Seq(Nat), NEW n \in Nat, IsRun(s, n), s # <<>>
    PROVE  /\ Head(s) = n + 1 /\ Tail(s) \in Seq(Nat) /\ IsRun(Tail(s), n + 1)
           /\ Len(Tail(s)) = Len(s) - 1 /\ Len(s) > 0
<1>1. Len(s) \in Nat /\ Len(s) > 0 /\ Tail(s) \in Seq(Nat) /\ Len(Tail(s)) = Len(s) - 1
    OBVIOUS
<1>2. ASSUME NEW i \in 1..Len(s) - 1 PROVE Tail(s)[i] = n + 1 + i
    BY <1>1 DEF IsRun
<1>3. Head(s) = n + 1
    BY <1>1 DEF IsRun
<1> QED BY <1>1, <1>2, <1>3 DEF IsRun

LEMMA RunSplit ==
    ASSUME NEW s \in Seq(Nat), NEW n \in Nat, IsRun(s, n), NEW k \in 1..Len(s)
    PROVE  /\ SubSeq(s, 1, k) \in Seq(Nat) /\ Len(SubSeq(s, 1, k)) = k
           /\ SubSeq(s, 1, k) # <<>> /\ IsRun(SubSeq(s, 1, k), n)
           /\ Drop(s, k) \in Seq(Nat) /\ Len(Drop(s, k)) = Len(s) - k
           /\ IsRun(Drop(s, k), n + k)
<1>1. Len(s) \in Nat /\ k \in Nat /\ \A i \in 1..Len(s) : s[i] \in Nat
    OBVIOUS
<1>2. SubSeq(s, 1, k) \in Seq(Nat) /\ Len(SubSeq(s, 1, k)) = k
    BY <1>1
<1>3. Drop(s, k) \in Seq(Nat) /\ Len(Drop(s, k)) = Len(s) - k
    BY <1>1 DEF Drop
<1>4. ASSUME NEW i \in 1..k PROVE SubSeq(s, 1, k)[i] = n + i
    BY <1>1 DEF IsRun
<1>5. ASSUME NEW i \in 1..Len(s) - k PROVE Drop(s, k)[i] = n + k + i
    BY <1>1 DEF IsRun, Drop
<1>6. IsRun(SubSeq(s, 1, k), n) /\ SubSeq(s, 1, k) # <<>>
    <2>1. IsRun(SubSeq(s, 1, k), n)
        BY <1>1, <1>2, <1>4, RunIntro
    <2> QED BY <2>1, <1>2
<1>7. IsRun(Drop(s, k), n + k)
    <2>1. \A i \in 1..Len(Drop(s, k)) : Drop(s, k)[i] = n + k + i
        BY <1>3, <1>5
    <2>2. n + k \in Nat
        OBVIOUS
    <2> QED BY <2>1, <2>2, <1>3, RunIntro
<1> QED BY <1>2, <1>3, <1>6, <1>7

LEMMA RunConcat ==
    ASSUME NEW s \in Seq(Nat), NEW t \in Seq(Nat), IsRun(s, 0), IsRun(t, Len(s))
    PROVE  s \o t = Stream(Len(s) + Len(t))
<1>1. s \o t \in Seq(Nat) /\ Len(s \o t) = Len(s) + Len(t) /\ Len(s) \in Nat /\ Len(t) \in Nat
    OBVIOUS
<1>2. ASSUME NEW i \in 1..Len(s) + Len(t) PROVE (s \o t)[i] = i
    BY <1>1 DEF IsRun
<1>3. /\ Stream(Len(s) + Len(t)) \in Seq(Nat) /\ Len(Stream(Len(s) + Len(t))) = Len(s) + Len(t)
      /\ \A i \in 1..Len(s) + Len(t) : Stream(Len(s) + Len(t))[i] = i
    BY <1>1 DEF Stream
<1> QED BY <1>1, <1>2, <1>3, RunEqual

LEMMA RunPrefix ==
    ASSUME NEW s \in Seq(Nat), IsRun(s, 0), NEW n \in Nat, Len(s) <= n
    PROVE  IsPrefix(s, Stream(n))
<1>1. Stream(n) \in Seq(Nat) /\ Len(Stream(n)) = n /\ Len(s) \in Nat
    BY DEF Stream
<1>2. SubSeq(s, 1, Len(s)) = s
    OBVIOUS
<1>3. /\ SubSeq(Stream(n), 1, Len(s)) \in Seq(Nat)
      /\ Len(SubSeq(Stream(n), 1, Len(s))) = Len(s)
    BY <1>1
<1>4. ASSUME NEW i \in 1..Len(s) PROVE SubSeq(Stream(n), 1, Len(s))[i] = s[i]
    BY <1>1 DEF IsRun, Stream
<1>5. SubSeq(Stream(n), 1, Len(s)) = s
    BY <1>3, <1>4, SMTT(30)
<1> QED BY <1>1, <1>2, <1>5 DEF IsPrefix

-----------------------------------------------------------------------------
(* The two ends.                                                           *)

LEMMA TwoEnds ==
    /\ Ends = {"client", "backend"} /\ Other("client") = "backend" /\ Other("backend") = "client"
    /\ \A e \in Ends : Other(e) \in Ends /\ Other(e) # e /\ Other(Other(e)) = e
    /\ \A e, x \in Ends : x = e \/ x = Other(e)
BY DEF Ends, Other

LEMMA HeldIsSeq ==
    ASSUME TcpTypeOK, NEW e \in Ends
    PROVE  /\ Held(e) \in Seq(Nat) /\ Len(Held(e)) \in Nat /\ Passed(e) \in Nat
           /\ wire[e] \in Seq(Nat) /\ inbox[e] \in Seq(Nat) /\ got[e] \in Seq(Nat)
           /\ Len(wire[e]) \in Nat /\ Len(inbox[e]) \in Nat /\ Len(got[e]) \in Nat
           /\ sent[e] \in Nat /\ chunk[e] \in Seq(Nat) /\ Len(chunk[e]) \in Nat
<1>1. /\ wire[e] \in Seq(Nat) /\ inbox[e] \in Seq(Nat) /\ got[e] \in Seq(Nat)
      /\ sent[e] \in Nat /\ chunk[e] \in Seq(Nat) /\ initial \in Seq(Nat)
    BY DEF TcpTypeOK
<1>2. /\ Len(wire[e]) \in Nat /\ Len(inbox[e]) \in Nat /\ Len(got[e]) \in Nat
      /\ Len(chunk[e]) \in Nat
    BY <1>1
<1>3. Held(e) \in Seq(Nat)
    BY <1>1 DEF Held
<1>4. Len(Held(e)) \in Nat
    BY <1>3
<1>5. Passed(e) \in Nat
    <2>1. \A m, n \in Nat : m + n \in Nat
        OBVIOUS
    <2>2. Len(got[e]) + Len(wire[e]) \in Nat
        BY <1>2, <2>1
    <2> QED BY <2>2 DEF Passed
<1> QED BY <1>1, <1>2, <1>3, <1>4, <1>5

LEMMA TcpInitInv == TcpInit => RelayInv
<1> SUFFICES ASSUME TcpInit PROVE RelayInv
    OBVIOUS
<1>1. TcpTypeOK
    BY TwoEnds DEF TcpInit, TcpTypeOK
<1>2. Handshake
    BY TwoEnds DEF TcpInit, Handshake, Dialling, Shaking, Asked
<1>3. Results /\ Sockets
    BY TwoEnds DEF TcpInit, Results, Sockets
<1>4. ASSUME NEW e \in Ends PROVE CopyOK(e) /\ Failures(e)
    BY TwoEnds DEF TcpInit, CopyOK, Failures
<1>5. ASSUME NEW e \in Ends PROVE StreamOK(e)
    <2>1. /\ wire[e] = <<>> /\ got[e] = <<>> /\ inbox[e] = <<>> /\ Held(Other(e)) = <<>>
          /\ inbox[Other(e)] = <<>> /\ sent[Other(e)] = 0 /\ copy[Other(e)] = "none"
        BY TwoEnds DEF TcpInit, Held
    <2>2. Len(<<>>) = 0 /\ \A n \in Nat : IsRun(<<>>, n)
        BY DEF IsRun
    <2>3. ~Asked(e) /\ Passed(e) = 0
        BY <2>1 DEF Asked, Passed
    <2>4. Arrived(e) /\ OnTheWay(e) /\ HeldFor(e)
        BY <2>1, <2>2, <2>3 DEF Arrived, OnTheWay, HeldFor
    <2>5. Unread(e) /\ AllPassed(e)
        BY <2>1, <2>2, <2>3 DEF Unread, AllPassed
    <2> QED BY <2>4, <2>5 DEF StreamOK
<1> QED BY <1>1, <1>2, <1>3, <1>4, <1>5 DEF RelayInv

(* What a stream is about does not change, and its source does not become  *)
(* readable.                                                               *)
LEMMA StreamFrame ==
    ASSUME NEW e \in Ends, StreamOK(e),
           (wire[e])' = wire[e], reset[e] => (inbox[e])' = inbox[e], (got[e])' = got[e],
           (reset[e])' = reset[e],
           (sent[Other(e)])' = sent[Other(e)], (inbox[Other(e)])' = inbox[Other(e)],
           (fin[Other(e)])' = fin[Other(e)], (chunk[Other(e)])' = chunk[Other(e)],
           (failed[Other(e)])' = failed[Other(e)],
           copy'[Other(e)] \in {"shut", "done"} => copy[Other(e)] \in {"shut", "done"},
           Held(Other(e))' = Held(Other(e)),
           Readable(Other(e))' => Readable(Other(e))
    PROVE  StreamOK(e)'
<1>1. Asked(e)' = Asked(e) /\ Passed(e)' = Passed(e)
    BY DEF Asked, Passed
<1> QED BY <1>1 DEF StreamOK, Arrived, OnTheWay, HeldFor, Unread, AllPassed

(* The steps of handle that move no byte.                                  *)
LEMMA StreamsStay ==
    ASSUME RelayInv, UNCHANGED <<initial, shut, inbox, wire, sent, fin, reset, got, copyVars>>,
           \A e \in Ends : Readable(e)' => Readable(e)
    PROVE  \A e \in Ends : StreamOK(e)'
<1> SUFFICES ASSUME NEW e \in Ends PROVE StreamOK(e)'
    OBVIOUS
<1>1. Held(Other(e))' = Held(Other(e))
    BY DEF Held, copyVars
<1>2. StreamOK(e) /\ Other(e) \in Ends
    BY TwoEnds DEF RelayInv
<1> QED BY <1>1, <1>2, StreamFrame DEF copyVars

HandleMoves ==
    \/ Accept \/ OriginalDst \/ SniffHost \/ SelectExit \/ DialFails \/ DialDirect \/ DialProxy
    \/ SocksConnected \/ SocksFails \/ FirstResult \/ CloseOne \/ SecondResult \/ Return

LEMMA MovesFrame ==
    HandleMoves => UNCHANGED <<initial, shut, inbox, wire, sent, fin, reset, got, copyVars>>
BY DEF HandleMoves, Accept, OriginalDst, SniffHost, SelectExit, DialFails, DialDirect,
    DialProxy, SocksConnected, SocksFails, FirstResult, CloseOne, SecondResult, Return, peerVars

LEMMA MovesType ==
    ASSUME TcpTypeOK, HandleMoves
    PROVE  TcpTypeOK'
<1> USE DEF TcpTypeOK, peerVars, copyVars, Goto
<1>1. CASE Accept \/ OriginalDst \/ SniffHost \/ SelectExit \/ DialFails
    BY <1>1, TwoEnds DEF Accept, OriginalDst, SniffHost, SelectExit, DialFails
<1>2. CASE DialDirect \/ DialProxy \/ SocksConnected \/ SocksFails
    <2>1. armed' \in [Ends -> BOOLEAN]
        <3>1. CASE DialDirect \/ SocksFails
            BY <3>1 DEF DialDirect, SocksFails
        <3>2. CASE DialProxy
            BY <3>2 DEF DialProxy
        <3>3. CASE SocksConnected
            BY <3>3 DEF SocksConnected
        <3> QED BY <1>2, <3>1, <3>2, <3>3
    <2>2. answered' \in 0..2
        <3>1. CASE DialDirect
            BY <3>1 DEF DialDirect
        <3>2. CASE DialProxy \/ SocksConnected \/ SocksFails
            BY <3>2 DEF DialProxy, SocksConnected, SocksFails
        <3> QED BY <1>2, <3>1, <3>2
    <2>3. sock' \in [Ends -> {"none", "open", "closed"}]
        BY <1>2, TwoEnds DEF DialDirect, DialProxy, SocksConnected, SocksFails
    <2> QED BY <1>2, <2>1, <2>2, <2>3 DEF DialDirect, DialProxy, SocksConnected, SocksFails
<1>3. CASE FirstResult
    BY <1>3 DEF FirstResult, AfterFirst
<1>4. CASE CloseOne
    BY <1>4, TwoEnds DEF CloseOne
<1>5. CASE SecondResult
    BY <1>5 DEF SecondResult
<1>6. CASE Return
    <2>1. sock' \in [Ends -> {"none", "open", "closed"}]
        BY <1>6, TwoEnds DEF Return
    <2> QED BY <1>6, <2>1 DEF Return
<1> QED BY <1>1, <1>2, <1>3, <1>4, <1>5, <1>6 DEF HandleMoves

LEMMA MovesHandshake ==
    ASSUME RelayInv, HandleMoves
    PROVE  Handshake'
<1> USE DEF RelayInv, Handshake, Dialling, Shaking, Asked, peerVars, copyVars, Goto
<1>1. CASE Accept \/ OriginalDst \/ SniffHost \/ SelectExit \/ DialFails
    BY <1>1, TwoEnds DEF Accept, OriginalDst, SniffHost, SelectExit, DialFails
<1>2. CASE DialDirect
    BY <1>2, TwoEnds DEF DialDirect
<1>3. CASE DialProxy
    BY <1>3, TwoEnds DEF DialProxy
<1>4. CASE SocksConnected
    BY <1>4, TwoEnds DEF SocksConnected
<1>5. CASE SocksFails
    BY <1>5, TwoEnds DEF SocksFails, Refused, TcpTypeOK
<1>6. CASE FirstResult \/ CloseOne \/ SecondResult
    BY <1>6, TwoEnds DEF FirstResult, AfterFirst, CloseOne, SecondResult
<1>7. CASE Return
    <2>1. phase \in {"reject", "return"} /\ phase' = "ended"
        BY <1>7 DEF Return
    <2>2. UNCHANGED <<initial, inbox, wire, got, sent, answered, copy>>
        BY <1>7 DEF Return
    <2>3. ASSUME NEW e \in Ends, Asked(e)' PROVE sock'[e] = "closed"
        <3>1. e = "backend" /\ phase = "reject" /\ sock[e] = "closed"
            BY <2>1, <2>2, <2>3
        <3> QED BY <1>7, <2>1, <3>1, TwoEnds DEF Return, TcpTypeOK
    <2> QED BY <2>1, <2>2, <2>3
<1> QED BY <1>1, <1>2, <1>3, <1>4, <1>5, <1>6, <1>7 DEF HandleMoves

LEMMA MovesCopies ==
    ASSUME RelayInv, HandleMoves
    PROVE  Results' /\ \A e \in Ends : CopyOK(e)'
<1>1. UNCHANGED <<initial, shut, inbox, wire, sent, fin, reset, got, copyVars>>
    BY MovesFrame
<1>2. Results'
    BY <1>1 DEF RelayInv, Results, copyVars
<1>3. ASSUME NEW e \in Ends PROVE CopyOK(e)'
    <2>1. CopyOK(e)
        BY <1>3 DEF RelayInv
    <2>2. phase \in Relaying => phase' \in Relaying \cup {"return"}
        BY DEF HandleMoves, Accept, OriginalDst, SniffHost, SelectExit, DialFails, DialDirect,
            DialProxy, SocksConnected, SocksFails, Refused, FirstResult, AfterFirst, CloseOne,
            SecondResult, Return, Relaying, Goto
    <2>3. phase \in {"return", "ended"} => phase' = "ended"
        BY DEF HandleMoves, Accept, OriginalDst, SniffHost, SelectExit, DialFails, DialDirect,
            DialProxy, SocksConnected, SocksFails, Refused, FirstResult, AfterFirst, CloseOne,
            SecondResult, Return, Goto
    <2>4. copy[e] \in {"read", "write", "shut"} => phase' \in Relaying
        <3>1. ASSUME SecondResult PROVE copy[e] = "done"
            <4>1. Len(results) = 2 /\ results \in Seq(Ends)
                BY <3>1 DEF SecondResult, RelayInv, TcpTypeOK
            <4>2. results[1] # results[2] /\ results[1] \in Ends /\ results[2] \in Ends
                BY <4>1 DEF RelayInv, Results
            <4>3. copy[results[1]] = "done" /\ copy[results[2]] = "done"
                BY <4>1 DEF RelayInv, Results
            <4> QED BY <1>3, <4>2, <4>3, TwoEnds
        <3>2. phase \in Relaying /\ ~SecondResult => phase' \in Relaying
            BY DEF HandleMoves, Accept, OriginalDst, SniffHost, SelectExit, DialFails, DialDirect,
                DialProxy, SocksConnected, SocksFails, Refused, FirstResult, AfterFirst, CloseOne,
                Return, Relaying, Goto
        <3> QED BY <2>1, <3>1, <3>2 DEF CopyOK
    <2> QED BY <1>1, <2>1, <2>2, <2>3, <2>4 DEF CopyOK, copyVars
<1> QED BY <1>2, <1>3

LEMMA MovesSockets ==
    ASSUME RelayInv, HandleMoves
    PROVE  Sockets' /\ \A e \in Ends : Failures(e)'
<1> SUFFICES ASSUME NEW e \in Ends PROVE Sockets' /\ Failures(e)'
    BY TwoEnds
<1>1. SomeReset' = SomeReset /\ UNCHANGED copyVars
    BY MovesFrame DEF SomeReset
<1>2. Sockets /\ Failures(e) /\ TcpTypeOK /\ sock["client"] \in {"none", "open", "closed"}
    BY TwoEnds DEF RelayInv, TcpTypeOK
<1> USE <1>1, <1>2 DEF Sockets, Failures, Dialling, Shaking, Relaying, peerVars, copyVars, Goto
<1>3. CASE Accept \/ OriginalDst \/ SniffHost \/ SelectExit \/ DialFails
    BY <1>3, TwoEnds DEF Accept, OriginalDst, SniffHost, SelectExit, DialFails, TcpTypeOK
<1>4. CASE DialDirect \/ DialProxy
    BY <1>4, TwoEnds DEF DialDirect, DialProxy, TcpTypeOK
<1>5. CASE SocksConnected
    BY <1>5, TwoEnds DEF SocksConnected, TcpTypeOK
<1>6. CASE SocksFails
    BY <1>6, TwoEnds DEF SocksFails, Refused, TcpTypeOK
<1>7. CASE FirstResult
    <2>1. failed[Head(results)] => SomeReset
        <3>1. Head(results) \in Ends
            BY <1>7 DEF FirstResult, TcpTypeOK
        <3> QED BY <3>1 DEF RelayInv, Failures
    <2> QED BY <1>7, <2>1 DEF FirstResult, AfterFirst
<1>8. CASE CloseOne
    BY <1>8, TwoEnds DEF CloseOne, TcpTypeOK
<1>9. CASE SecondResult
    BY <1>9, TwoEnds DEF SecondResult
<1>10. CASE Return
    BY <1>10, TwoEnds DEF Return, TcpTypeOK
<1> QED BY <1>3, <1>4, <1>5, <1>6, <1>7, <1>8, <1>9, <1>10 DEF HandleMoves

LEMMA MovesStreams ==
    ASSUME RelayInv, HandleMoves
    PROVE  \A e \in Ends : StreamOK(e)'
<1>1. UNCHANGED <<initial, shut, inbox, wire, sent, fin, reset, got, copyVars>>
    BY MovesFrame
<1>2. ASSUME NEW e \in Ends PROVE Readable(e)' => Readable(e)
    <2> USE <1>2, TwoEnds DEF RelayInv, Readable, Shaking, Dialling, Sockets, peerVars, copyVars,
            Goto, TcpTypeOK
    <2>1. CASE Accept
        <3>1. phase = "accept" /\ UNCHANGED reset /\ phase' \notin Shaking
            BY <2>1 DEF Accept
        <3>2. sock[e] # "closed"
            BY <3>1 DEF Failures, Relaying
        <3> QED BY <3>1, <3>2
    <2>2. CASE OriginalDst \/ SniffHost \/ SelectExit \/ DialFails
        <3>1. UNCHANGED <<sock, reset>> /\ phase \in Dialling
            BY <2>2 DEF OriginalDst, SniffHost, SelectExit, DialFails
        <3> QED BY <3>1
    <2>3. CASE DialDirect \/ DialProxy
        <3>1. sock'["client"] = sock["client"] /\ sock["backend"] = "none" /\ phase = "dial"
            BY <2>3 DEF DialDirect, DialProxy
        <3>2. UNCHANGED reset
            BY <2>3 DEF DialDirect, DialProxy
        <3> QED BY <3>1, <3>2
    <2>4. CASE SocksConnected
        BY <2>4 DEF SocksConnected
    <2>5. CASE SocksFails
        <3>1. sock'["backend"] = "closed" /\ sock'["client"] = sock["client"]
            BY <2>5 DEF SocksFails
        <3>2. UNCHANGED reset
            BY <2>5 DEF SocksFails
        <3> QED BY <3>1, <3>2
    <2>6. CASE FirstResult \/ CloseOne \/ SecondResult \/ Return
        BY <2>6 DEF FirstResult, AfterFirst, CloseOne, SecondResult, Return
    <2> QED BY <2>1, <2>2, <2>3, <2>4, <2>5, <2>6 DEF HandleMoves
<1> QED BY <1>1, <1>2, StreamsStay

LEMMA MovesInv ==
    ASSUME RelayInv, HandleMoves
    PROVE  RelayInv'
<1>1. TcpTypeOK'
    BY MovesType DEF RelayInv
<1> QED BY <1>1, MovesHandshake, MovesCopies, MovesSockets, MovesStreams DEF RelayInv

-----------------------------------------------------------------------------
(* What a step does to a stream.                                           *)

LEMMA AskedOnly ==
    ASSUME NEW x, NEW s \in Seq(Nat), s = <<x>>
    PROVE  Len(s) = 1 /\ s[1] = x
OBVIOUS

(* What the peer of s has sent is read.                                    *)
LEMMA StreamRead ==
    ASSUME RelayInv, NEW s \in Ends, ~reset[s], sock[s] # "closed",
           s = "backend" => phase \notin Shaking,
           Held(s) = <<>>, copy'[s] \notin {"shut", "done"},
           NEW n \in 1..Len(inbox[s]),
           Held(s)' = SubSeq(inbox[s], 1, n), inbox'[s] = Drop(inbox[s], n),
           inbox'[Other(s)] = inbox[Other(s)], UNCHANGED <<wire, got, sent, reset>>
    PROVE  StreamOK(Other(s))'
<1> DEFINE e == Other(s)
<1>1. e \in Ends /\ Other(e) = s /\ StreamOK(e) /\ TcpTypeOK
    BY TwoEnds DEF RelayInv
<1>2. /\ wire[e] \in Seq(Nat) /\ inbox[s] \in Seq(Nat) /\ Passed(e) \in Nat /\ Len(inbox[s]) \in Nat
      /\ sent[s] \in Nat
    BY <1>1, HeldIsSeq
<1>3. Asked(e)' = Asked(e) /\ Passed(e)' = Passed(e)
    BY DEF Asked, Passed
<1>4. ASSUME ~reset[e]
      PROVE  /\ IsRun(inbox[s], Passed(e))
             /\ Passed(e) + Len(inbox[s]) = sent[s]
    <2>1. Readable(s) /\ Len(Held(s)) = 0
        BY DEF Readable
    <2> QED BY <1>1, <1>2, <1>4, <2>1 DEF StreamOK, Unread
<1>5. ASSUME ~reset[e]
      PROVE  /\ IsRun(Held(s)', Passed(e)) /\ Len(Held(s)') = n
             /\ IsRun(inbox'[s], Passed(e) + n) /\ Len(inbox'[s]) = Len(inbox[s]) - n
    <2>1. /\ IsRun(SubSeq(inbox[s], 1, n), Passed(e)) /\ Len(SubSeq(inbox[s], 1, n)) = n
          /\ IsRun(Drop(inbox[s], n), Passed(e) + n) /\ Len(Drop(inbox[s], n)) = Len(inbox[s]) - n
        BY <1>2, <1>4, <1>5, RunSplit
    <2> QED BY <2>1
<1>6. Arrived(e)' /\ OnTheWay(e)'
    BY <1>1, <1>3 DEF StreamOK, Arrived, OnTheWay
<1>7. HeldFor(e)' /\ Unread(e)'
    <2>1. ASSUME ~reset[e]
          PROVE  /\ Passed(e)' + Len(Held(s)') <= sent'[s]
                 /\ Passed(e)' + Len(Held(s)') + Len(inbox'[s]) = sent'[s]
        BY <1>2, <1>3, <1>4, <1>5, <2>1
    <2> QED BY <1>1, <1>3, <1>5, <2>1 DEF HeldFor, Unread
<1>8. AllPassed(e)'
    BY <1>1 DEF AllPassed
<1> QED BY <1>6, <1>7, <1>8 DEF StreamOK

(* The first byte held follows those that have gone, so it is no message   *)
(* of the handshake.                                                       *)
LEMMA PassedByte ==
    ASSUME RelayInv, NEW s \in Ends, ~reset[Other(s)], ~Asked(Other(s)), Held(s) # <<>>,
           wire'[Other(s)] = Append(wire[Other(s)], Head(Held(s))), UNCHANGED <<got, reset>>
    PROVE  /\ IsRun(wire'[Other(s)], Len(got[Other(s)])) /\ ~Asked(Other(s))'
           /\ wire'[Other(s)] \in Seq(Nat) /\ Len(wire'[Other(s)]) = Len(wire[Other(s)]) + 1
           /\ IsRun(Tail(Held(s)), Passed(Other(s)) + 1) /\ Len(Tail(Held(s))) = Len(Held(s)) - 1
<1> DEFINE e == Other(s)
           w == wire[e]
           h == Held(s)
<1>1. e \in Ends /\ Other(e) = s /\ StreamOK(e) /\ TcpTypeOK
    BY TwoEnds DEF RelayInv
<1>2. /\ w \in Seq(Nat) /\ h \in Seq(Nat) /\ Passed(e) \in Nat /\ Len(got[e]) \in Nat
      /\ Len(w) \in Nat /\ Len(h) \in Nat /\ sent[s] \in Nat /\ Len(inbox[s]) \in Nat
    BY <1>1, HeldIsSeq
<1>3. Passed(e) = Len(got[e]) + Len(w)
    BY DEF Passed
<1>4. IsRun(w, Len(got[e])) /\ IsRun(h, Passed(e)) /\ Passed(e) + Len(h) <= sent[s]
    BY <1>1 DEF StreamOK, OnTheWay, HeldFor
<1>5. /\ Head(h) = Len(got[e]) + Len(w) + 1 /\ IsRun(Tail(h), Passed(e) + 1)
      /\ Len(Tail(h)) = Len(h) - 1
    BY <1>2, <1>3, <1>4, RunTail, ZenonT(60)
<1>6. /\ IsRun(wire'[e], Len(got[e])) /\ Len(wire'[e]) = Len(w) + 1 /\ wire'[e] \in Seq(Nat)
    BY <1>2, <1>4, <1>5, RunAppend, ZenonT(60)
<1>7. ~Asked(e)'
    <2>1. wire'[e] # << 0 >>
        <3> SUFFICES ASSUME wire'[e] = << 0 >> PROVE FALSE
            OBVIOUS
        <3>1. Len(wire'[e]) = 1 /\ wire'[e][1] = 0
            BY <1>6, AskedOnly
        <3>2. wire'[e][1] = Len(got[e]) + 1
            BY <1>6, <3>1 DEF IsRun
        <3> QED BY <1>2, <3>1, <3>2
    <2> QED BY <2>1 DEF Asked
<1> QED BY <1>5, <1>6, <1>7

(* The first byte held is passed on.                                       *)
LEMMA StreamPass ==
    ASSUME RelayInv, NEW s \in Ends, ~reset[Other(s)], ~Asked(Other(s)), Held(s) # <<>>,
           wire'[Other(s)] = Append(wire[Other(s)], Head(Held(s))), Held(s)' = Tail(Held(s)),
           copy'[s] \notin {"shut", "done"}, Readable(s)' => Readable(s),
           UNCHANGED <<inbox, got, sent, reset>>
    PROVE  StreamOK(Other(s))'
<1> DEFINE e == Other(s)
           w == wire[e]
           h == Held(s)
<1>1. e \in Ends /\ Other(e) = s /\ StreamOK(e) /\ TcpTypeOK
    BY TwoEnds DEF RelayInv
<1>2. /\ w \in Seq(Nat) /\ h \in Seq(Nat) /\ Passed(e) \in Nat /\ Len(got[e]) \in Nat
      /\ Len(w) \in Nat /\ Len(h) \in Nat /\ sent[s] \in Nat /\ Len(inbox[s]) \in Nat
    BY <1>1, HeldIsSeq
<1>3. Passed(e) = Len(got[e]) + Len(w)
    BY DEF Passed
<1>4. Passed(e) + Len(h) <= sent[s]
    BY <1>1 DEF StreamOK, HeldFor
<1>5. IsRun(Held(s)', Passed(e) + 1) /\ Len(Held(s)') = Len(h) - 1
    BY PassedByte
<1>6. IsRun(wire'[e], Len(got[e])) /\ Len(wire'[e]) = Len(w) + 1 /\ wire'[e] \in Seq(Nat)
    BY PassedByte
<1>7. ~Asked(e)'
    BY PassedByte
<1>8. Passed(e)' = Passed(e) + 1
    <2>1. Passed(e)' = Len(got[e]) + Len(wire'[e])
        BY <1>7 DEF Passed
    <2>2. \A k, m \in Nat : k + (m + 1) = (k + m) + 1
        OBVIOUS
    <2>3. Passed(e)' = Len(got[e]) + (Len(w) + 1)
        BY <1>6, <2>1
    <2>4. Len(got[e]) + (Len(w) + 1) = (Len(got[e]) + Len(w)) + 1
        BY <1>2, <2>2
    <2> QED BY <1>3, <2>3, <2>4
<1>9. Arrived(e)' /\ OnTheWay(e)'
    BY <1>1, <1>6 DEF StreamOK, Arrived, OnTheWay
<1>10. Passed(e)' + Len(Held(s)') = Passed(e) + Len(h)
    BY <1>2, <1>5, <1>8
<1>11. HeldFor(e)' /\ Unread(e)'
    BY <1>1, <1>4, <1>5, <1>8, <1>10 DEF StreamOK, HeldFor, Unread
<1>12. AllPassed(e)'
    BY <1>1 DEF AllPassed
<1> QED BY <1>9, <1>11, <1>12 DEF StreamOK

(* A byte arrives.                                                         *)
LEMMA StreamArrive ==
    ASSUME RelayInv, NEW e \in Ends, ~Asked(e), wire[e] # <<>>,
           wire'[e] = Tail(wire[e]), got'[e] = Append(got[e], Head(wire[e])),
           Held(Other(e))' = Held(Other(e)), Readable(Other(e))' => Readable(Other(e)),
           UNCHANGED <<inbox, sent, reset, fin, chunk, copy, failed>>
    PROVE  StreamOK(e)'
<1> DEFINE s == Other(e)
           w == wire[e]
<1>1. s \in Ends /\ StreamOK(e) /\ TcpTypeOK
    BY TwoEnds DEF RelayInv
<1>2. /\ w \in Seq(Nat) /\ got[e] \in Seq(Nat) /\ Len(got[e]) \in Nat /\ Len(w) \in Nat
      /\ sent[s] \in Nat /\ Len(Held(s)) \in Nat
    BY <1>1, HeldIsSeq
<1>3. IsRun(w, Len(got[e])) /\ IsRun(got[e], 0)
    BY <1>1 DEF StreamOK, Arrived, OnTheWay
<1>4. /\ Head(w) = Len(got[e]) + 1 /\ IsRun(wire'[e], Len(got[e]) + 1) /\ Len(wire'[e]) = Len(w) - 1
      /\ wire'[e] \in Seq(Nat) /\ Len(w) > 0
    BY <1>2, <1>3, RunTail
<1>5. IsRun(got'[e], 0) /\ Len(got'[e]) = Len(got[e]) + 1
    <2>1. Head(w) = 0 + Len(got[e]) + 1
        BY <1>2, <1>4
    <2> QED BY <1>2, <1>3, <2>1, RunAppend
<1>6. ~Asked(e)'
    <2>1. wire'[e] # << 0 >>
        <3> SUFFICES ASSUME wire'[e] = << 0 >> PROVE FALSE
            OBVIOUS
        <3>1. Len(wire'[e]) = 1 /\ wire'[e][1] = 0
            BY <1>4, AskedOnly
        <3>2. 1 \in DOMAIN wire'[e]
            BY <1>4, <3>1
        <3>3. wire'[e][1] = (Len(got[e]) + 1) + 1
            BY <1>4, <3>2 DEF IsRun
        <3>4. \A k \in Nat : (k + 1) + 1 # 0
            OBVIOUS
        <3> QED BY <1>2, <3>1, <3>3, <3>4
    <2> QED BY <2>1 DEF Asked
<1>7. Passed(e) = Len(got[e]) + Len(w) /\ Passed(e)' = Passed(e)
    <2>1. Passed(e) = Len(got[e]) + Len(w) /\ Passed(e)' = Len(got'[e]) + Len(wire'[e])
        BY <1>6 DEF Passed
    <2>2. \A k, m \in Nat : (k + 1) + (m - 1) = k + m
        OBVIOUS
    <2>3. Passed(e)' = (Len(got[e]) + 1) + (Len(w) - 1)
        BY <1>4, <1>5, <2>1
    <2> QED BY <1>2, <2>1, <2>2, <2>3
<1>8. Arrived(e)'
    <2>1. ~reset[e]
        BY <1>1 DEF StreamOK, OnTheWay
    <2>2. Passed(e) + Len(Held(s)) <= sent[s]
        BY <1>1, <2>1 DEF StreamOK, HeldFor
    <2>3. \A k, m, h, n \in Nat : m > 0 /\ (k + m) + h <= n => k + 1 <= n
        OBVIOUS
    <2>4. Len(got[e]) + 1 <= sent[s]
        BY <1>2, <1>4, <1>7, <2>2, <2>3
    <2> QED BY <1>5, <2>4 DEF Arrived
<1>9. OnTheWay(e)'
    <2>1. ~reset[e]
        BY <1>1 DEF StreamOK, OnTheWay
    <2> QED BY <1>4, <1>5, <2>1 DEF OnTheWay
<1>10. HeldFor(e)' /\ Unread(e)' /\ AllPassed(e)'
    BY <1>1, <1>7 DEF StreamOK, HeldFor, Unread, AllPassed
<1> QED BY <1>8, <1>9, <1>10 DEF StreamOK

-----------------------------------------------------------------------------
(* The peers.                                                              *)

LEMMA SocketsStay ==
    ASSUME RelayInv, UNCHANGED <<phase, sock, armed, failed>>, SomeReset => SomeReset'
    PROVE  Sockets' /\ \A e \in Ends : Failures(e)'
BY DEF RelayInv, Sockets, Failures

LEMMA CopiesStay ==
    ASSUME RelayInv, UNCHANGED <<phase, initial, shut, copyVars>>,
           \A e \in Ends : copy[e] = "none" =>
              (got["client"] = <<>> /\ wire["client"] = <<>>
                  => got'["client"] = <<>> /\ wire'["client"] = <<>>)
    PROVE  Results' /\ \A e \in Ends : CopyOK(e)'
<1>1. Results'
    BY DEF RelayInv, Results, copyVars
<1>2. ASSUME NEW e \in Ends PROVE CopyOK(e)'
    BY <1>2 DEF RelayInv, CopyOK, copyVars
<1> QED BY <1>1, <1>2

LEMMA PeerFinishesInv ==
    ASSUME RelayInv, NEW s \in Ends, PeerFinishes(s)
    PROVE  RelayInv'
<1> USE DEF PeerFinishes
<1>1. TcpTypeOK'
    BY DEF RelayInv, TcpTypeOK, copyVars
<1>2. Handshake'
    BY DEF RelayInv, Handshake, copyVars, Asked
<1>3. Results' /\ \A e \in Ends : CopyOK(e)'
    BY CopiesStay DEF copyVars
<1>4. Sockets' /\ \A e \in Ends : Failures(e)'
    BY SocketsStay DEF copyVars, SomeReset
<1>5. ASSUME NEW e \in Ends PROVE StreamOK(e)'
    <2>1. StreamOK(e) /\ Other(e) \in Ends /\ fin \in [Ends -> BOOLEAN]
        BY <1>5, TwoEnds DEF RelayInv, TcpTypeOK
    <2>2. Asked(e)' = Asked(e) /\ Passed(e)' = Passed(e) /\ Held(Other(e))' = Held(Other(e))
        BY DEF Asked, Passed, Held, copyVars
    <2>3. Readable(Other(e))' = Readable(Other(e))
        BY DEF Readable
    <2>4. fin[Other(e)] => fin'[Other(e)]
        BY <2>1
    <2>5. Arrived(e)' /\ OnTheWay(e)'
        BY <2>1, <2>2 DEF StreamOK, Arrived, OnTheWay
    <2>6. HeldFor(e)' /\ Unread(e)'
        BY <2>1, <2>2, <2>3 DEF StreamOK, HeldFor, Unread
    <2>7. AllPassed(e)'
        BY <2>1, <2>2, <2>4 DEF StreamOK, AllPassed, copyVars
    <2> QED BY <2>5, <2>6, <2>7 DEF StreamOK
<1> QED BY <1>1, <1>2, <1>3, <1>4, <1>5 DEF RelayInv

LEMMA PeerResetsInv ==
    ASSUME RelayInv, NEW x \in Ends, PeerResets(x)
    PROVE  RelayInv'
<1> USE DEF PeerResets
<1>1. TcpTypeOK'
    <2>1. <<>> \in Seq(Nat)
        OBVIOUS
    <2> QED BY <2>1 DEF RelayInv, TcpTypeOK, copyVars
<1>2. reset'[x] /\ wire'[x] = <<>> /\ inbox'[x] = <<>>
    BY DEF RelayInv, TcpTypeOK
<1>3. \A e \in Ends : e # x => /\ reset'[e] = reset[e] /\ wire'[e] = wire[e]
                               /\ inbox'[e] = inbox[e]
    BY DEF RelayInv, TcpTypeOK
<1>4. Handshake'
    <2>1. \A e \in Ends : Asked(e)' => Asked(e)
        BY <1>2, <1>3 DEF Asked
    <2>2. \A e \in Ends : wire[e] = <<>> => wire'[e] = <<>>
        BY <1>2, <1>3
    <2>3. \A e \in Ends : inbox[e] = <<>> => inbox'[e] = <<>>
        BY <1>2, <1>3
    <2>4. CASE x = "backend"
        BY <1>2, <2>1, <2>2, <2>3, <2>4, TwoEnds DEF RelayInv, Handshake, copyVars
    <2>5. CASE x # "backend"
        <3>1. wire'["backend"] = wire["backend"] /\ inbox'["backend"] = inbox["backend"]
              /\ reset'["backend"] = reset["backend"] /\ Asked("backend")' = Asked("backend")
            BY <1>3, <2>5, TwoEnds DEF Asked
        <3> QED BY <2>1, <3>1, TwoEnds DEF RelayInv, Handshake, copyVars
    <2> QED BY <2>4, <2>5
<1>5. Results' /\ \A e \in Ends : CopyOK(e)'
    BY <1>2, <1>3, TwoEnds, CopiesStay DEF copyVars
<1>6. Sockets' /\ \A e \in Ends : Failures(e)'
    BY <1>2, SocketsStay DEF copyVars, SomeReset
<1>7. StreamOK(x)'
    <2>1. StreamOK(x) /\ Other(x) \in Ends /\ Other(x) # x
        BY TwoEnds DEF RelayInv
    <2>2. IsRun(wire'[x], Len(got'[x]))
        BY <1>2 DEF IsRun
    <2>3. Arrived(x)' /\ OnTheWay(x)'
        BY <1>2, <2>1, <2>2 DEF StreamOK, Arrived, OnTheWay
    <2>4. HeldFor(x)' /\ Unread(x)'
        BY <1>2 DEF HeldFor, Unread
    <2>5. AllPassed(x)'
        BY <1>2, <1>3, <2>1 DEF StreamOK, AllPassed, copyVars
    <2> QED BY <2>3, <2>4, <2>5 DEF StreamOK
<1>8. StreamOK(Other(x))'
    <2> DEFINE e == Other(x)
    <2>1. StreamOK(e) /\ e \in Ends /\ e # x /\ Other(e) = x
        BY TwoEnds DEF RelayInv
    <2>2. Asked(e)' = Asked(e) /\ Passed(e)' = Passed(e) /\ Held(x)' = Held(x) /\ ~Readable(x)'
        BY <1>2, <1>3, <2>1 DEF Asked, Passed, Held, copyVars, Readable
    <2>3. Arrived(e)' /\ OnTheWay(e)'
        BY <1>3, <2>1, <2>2 DEF StreamOK, Arrived, OnTheWay
    <2>4. HeldFor(e)' /\ Unread(e)'
        BY <1>3, <2>1, <2>2 DEF StreamOK, HeldFor, Unread
    <2>5. AllPassed(e)'
        BY <1>2, <1>3, <2>1, <2>2 DEF StreamOK, AllPassed, copyVars
    <2> QED BY <2>3, <2>4, <2>5 DEF StreamOK
<1> QED BY <1>1, <1>4, <1>5, <1>6, <1>7, <1>8, TwoEnds DEF RelayInv

LEMMA OneMore == \A n \in Nat : n + 1 \in Nat
OBVIOUS

LEMMA TailAppend ==
    ASSUME NEW s \in Seq(Nat), s # <<>>, NEW x \in Nat
    PROVE  Tail(Append(s, x)) = Append(Tail(s), x) /\ Append(s, x) # <<>>
           /\ Len(Append(s, x)) = Len(s) + 1
<1>1. /\ Len(s) \in Nat /\ Len(s) > 0 /\ Append(s, x) \in Seq(Nat)
      /\ Len(Append(s, x)) = Len(s) + 1 /\ Append(s, x) # <<>>
    OBVIOUS
<1>2. /\ Tail(Append(s, x)) \in Seq(Nat) /\ Append(Tail(s), x) \in Seq(Nat)
      /\ Len(Tail(Append(s, x))) = Len(s) /\ Len(Append(Tail(s), x)) = Len(s)
    BY <1>1
<1>3. ASSUME NEW i \in 1..Len(s) PROVE Tail(Append(s, x))[i] = Append(Tail(s), x)[i]
    BY <1>1
<1> QED BY <1>1, <1>2, <1>3, RunEqual

LEMMA PeerSendsInv ==
    ASSUME RelayInv, NEW s \in Ends, PeerSends(s)
    PROVE  RelayInv'
<1> USE DEF PeerSends
<1> DEFINE e == Other(s)
<1>1. /\ ~reset[s] /\ ~fin[s] /\ sock[s] = "open" /\ sent'[s] = sent[s] + 1
      /\ inbox'[s] = Append(inbox[s], sent[s] + 1)
    BY DEF RelayInv, TcpTypeOK
<1>2. inbox'[e] = inbox[e] /\ sent'[e] = sent[e]
    BY TwoEnds DEF RelayInv, TcpTypeOK
<1>3. TcpTypeOK /\ e \in Ends /\ Other(e) = s /\ StreamOK(e) /\ StreamOK(s)
    BY TwoEnds DEF RelayInv
<1>4. TcpTypeOK'
    <2>1. sent[s] + 1 \in Nat
        BY <1>3, HeldIsSeq, OneMore
    <2>2. sent' \in [Ends -> Nat]
        BY <1>3, <2>1 DEF TcpTypeOK
    <2>3. inbox[s] \in Seq(Nat)
        BY <1>3, HeldIsSeq
    <2>4. Append(inbox[s], sent[s] + 1) \in Seq(Nat)
        BY <2>1, <2>3
    <2>5. inbox' = [inbox EXCEPT ![s] = Append(inbox[s], sent[s] + 1)]
        BY <1>1
    <2>6. inbox' \in [Ends -> Seq(Nat)]
        BY <1>3, <2>4, <2>5 DEF TcpTypeOK
    <2> QED BY <1>3, <2>2, <2>6 DEF TcpTypeOK, copyVars
<1>5. Handshake'
    <2>1. \A x \in Ends : Asked(x)' = Asked(x)
        BY DEF Asked
    <2>2. CASE s = "client"
        <3>1. sent'["backend"] = sent["backend"] /\ inbox'["backend"] = inbox["backend"]
            BY <1>2, <2>2, TwoEnds
        <3> QED BY <2>1, <3>1, TwoEnds DEF RelayInv, Handshake, copyVars
    <2>3. CASE s = "backend"
        <3>1. answered = 2 /\ phase \notin Dialling /\ phase \notin {"greet", "method", "request"}
            BY <1>1, <2>3 DEF RelayInv, Handshake, Shaking
        <3>2. ASSUME phase = "reply"
              PROVE  /\ wire["backend"] = <<>> /\ inbox'["backend"] # <<>>
                     /\ IsRun(Tail(inbox'["backend"]), 0)
                     /\ Len(inbox'["backend"]) = 1 + sent'["backend"]
            <4> DEFINE b == inbox["backend"]
            <4>1. /\ wire["backend"] = <<>> /\ b # <<>> /\ IsRun(Tail(b), 0)
                  /\ Len(b) = 1 + sent["backend"] /\ got["backend"] = <<>>
                BY <1>1, <2>3, <3>1, <3>2 DEF RelayInv, Handshake, Shaking
            <4>2. b \in Seq(Nat) /\ sent["backend"] \in Nat /\ sent["backend"] + 1 \in Nat
                BY <1>3, TwoEnds, HeldIsSeq, OneMore
            <4>3. /\ Tail(inbox'["backend"]) = Append(Tail(b), sent["backend"] + 1)
                  /\ inbox'["backend"] # <<>> /\ Len(inbox'["backend"]) = Len(b) + 1
                BY <1>1, <2>3, <4>1, <4>2, TailAppend, SMTT(30)
            <4>4. Tail(b) \in Seq(Nat) /\ Len(Tail(b)) = sent["backend"]
                BY <4>1, <4>2
            <4>5. sent["backend"] + 1 = 0 + Len(Tail(b)) + 1
                BY <4>2, <4>4
            <4>6. IsRun(Append(Tail(b), sent["backend"] + 1), 0)
                BY <4>1, <4>4, <4>5, RunAppend
            <4>7. IsRun(Tail(inbox'["backend"]), 0)
                BY <4>3, <4>6
            <4> QED BY <1>1, <2>3, <4>1, <4>2, <4>3, <4>7
        <3> QED BY <2>1, <3>1, <3>2, TwoEnds DEF RelayInv, Handshake, copyVars, Shaking
    <2> QED BY <2>2, <2>3, TwoEnds
<1>6. Results' /\ \A x \in Ends : CopyOK(x)'
    BY CopiesStay DEF copyVars
<1>7. Sockets' /\ \A x \in Ends : Failures(x)'
    BY SocketsStay DEF copyVars, SomeReset
<1>8. StreamOK(s)'
    <2>1. Held(e)' = Held(e) /\ Readable(e)' = Readable(e)
        BY DEF Held, Readable, copyVars
    <2> QED BY <1>1, <1>2, <1>3, <2>1, StreamFrame DEF copyVars
<1>9. StreamOK(e)'
    <2>1. /\ Asked(e)' = Asked(e) /\ Passed(e)' = Passed(e) /\ Held(s)' = Held(s)
          /\ Readable(s)' = Readable(s)
        BY DEF Asked, Passed, Held, Readable, copyVars
    <2>2. /\ inbox[s] \in Seq(Nat) /\ Len(inbox[s]) \in Nat /\ sent[s] \in Nat /\ Passed(e) \in Nat
          /\ Len(Held(s)) \in Nat /\ Len(got[e]) \in Nat
        BY <1>3, HeldIsSeq
    <2>3. \A m, n \in Nat : m <= n => m <= n + 1
        OBVIOUS
    <2>4. Arrived(e)' /\ OnTheWay(e)'
        BY <1>1, <1>2, <1>3, <2>1, <2>2, <2>3 DEF StreamOK, Arrived, OnTheWay
    <2>5. Passed(e) + Len(Held(s)) \in Nat
        BY <2>2
    <2>6. HeldFor(e)'
        BY <1>1, <1>3, <2>1, <2>2, <2>3, <2>5 DEF StreamOK, HeldFor
    <2>7. ASSUME ~reset[e], Readable(s)
          PROVE  /\ IsRun(inbox'[s], Passed(e) + Len(Held(s)))
                 /\ Passed(e) + Len(Held(s)) + Len(inbox'[s]) = sent'[s]
        <3>1. /\ IsRun(inbox[s], Passed(e) + Len(Held(s)))
              /\ Passed(e) + Len(Held(s)) + Len(inbox[s]) = sent[s]
            BY <1>3, <2>7 DEF StreamOK, Unread
        <3>2. \A k, m, n \in Nat : k + m = n => n + 1 = k + m + 1 /\ k + (m + 1) = n + 1
            OBVIOUS
        <3>3. sent[s] + 1 = Passed(e) + Len(Held(s)) + Len(inbox[s]) + 1
            BY <2>2, <2>5, <3>1, <3>2
        <3>4. IsRun(inbox'[s], Passed(e) + Len(Held(s))) /\ Len(inbox'[s]) = Len(inbox[s]) + 1
            BY <1>1, <2>2, <2>5, <3>1, <3>3, RunAppend
        <3> QED BY <1>1, <2>2, <2>5, <3>1, <3>2, <3>4
    <2>8. Unread(e)'
        BY <1>3, <2>1, <2>7 DEF Unread
    <2>9. AllPassed(e)'
        BY <1>1, <1>3 DEF StreamOK, AllPassed, copyVars
    <2> QED BY <2>4, <2>6, <2>8, <2>9 DEF StreamOK
<1> QED BY <1>4, <1>5, <1>6, <1>7, <1>8, <1>9, TwoEnds DEF RelayInv

(* The message of the handshake reaches the proxy, which answers.          *)
LEMMA ProxyAnswers ==
    ASSUME RelayInv, PeerReads("backend"), Head(wire["backend"]) = 0
    PROVE  RelayInv'
<1> DEFINE b == "backend"
           c == "client"
<1>1. TcpTypeOK /\ b \in Ends /\ c \in Ends /\ Other(b) = c /\ Other(c) = b /\ b # c
    BY TwoEnds DEF RelayInv
<1>2. wire[b] \in Seq(Nat) /\ wire[b] # <<>> /\ Len(got[b]) \in Nat /\ inbox[b] \in Seq(Nat)
    BY <1>1, HeldIsSeq DEF PeerReads
<1>3. Asked(b)
    <2> SUFFICES ASSUME ~Asked(b) PROVE FALSE
        OBVIOUS
    <2>1. IsRun(wire[b], Len(got[b]))
        BY <1>1 DEF RelayInv, StreamOK, OnTheWay
    <2>2. Head(wire[b]) = Len(got[b]) + 1
        BY <1>2, <2>1, RunTail
    <2>3. \A n \in Nat : n + 1 # 0
        OBVIOUS
    <2> QED BY <1>2, <2>2, <2>3
<1>4. wire'[b] = <<>> /\ wire' = [wire EXCEPT ![b] = <<>>]
    <2>1. wire' = [wire EXCEPT ![b] = Tail(wire[b])]
        BY DEF PeerReads
    <2>2. wire[b] = << 0 >> /\ Tail(<< 0 >>) = <<>>
        BY <1>3 DEF Asked
    <2>3. wire' = [wire EXCEPT ![b] = <<>>]
        BY <2>1, <2>2
    <2> QED BY <1>1, <2>3 DEF TcpTypeOK
<1>5. /\ answered' = answered + 1 /\ inbox' = [inbox EXCEPT ![b] = Append(@, 0)]
      /\ UNCHANGED <<phase, initial, sock, armed, shut, got, sent, fin, reset, copyVars>>
    BY DEF PeerReads
<1>6. /\ phase \in {"method", "reply", "reject", "ended"} /\ answered \in 0..1 /\ got[b] = <<>>
      /\ \A x \in Ends : copy[x] = "none"
      /\ phase \in {"reject", "ended"} => sock[b] = "closed"
    <2>1. answered \in 0..2 /\ answered < 2
        BY <1>1, <1>3 DEF RelayInv, Handshake, TcpTypeOK
    <2>2. answered \in 0..1
        BY <2>1
    <2> QED BY <1>1, <1>3, <2>2 DEF RelayInv, Handshake
<1>7. ~reset[b] /\ wire'[c] = wire[c] /\ inbox'[c] = inbox[c] /\ inbox'[b] = Append(inbox[b], 0)
    BY <1>1, <1>2, <1>4, <1>5 DEF RelayInv, StreamOK, OnTheWay, TcpTypeOK
<1>8. TcpTypeOK'
    <2>1. <<>> \in Seq(Nat) /\ Append(inbox[b], 0) \in Seq(Nat) /\ answered + 1 \in 0..2
        BY <1>2, <1>6
    <2>2. wire' \in [Ends -> Seq(Nat)]
        BY <1>1, <1>4, <2>1 DEF TcpTypeOK
    <2>3. inbox' \in [Ends -> Seq(Nat)]
        <3>1. inbox' = [inbox EXCEPT ![b] = Append(inbox[b], 0)]
            BY <1>5
        <3> QED BY <1>1, <2>1, <3>1 DEF TcpTypeOK
    <2> QED BY <1>1, <1>5, <2>1, <2>2, <2>3 DEF TcpTypeOK, copyVars
<1>9. ~Asked(b)' /\ ~Asked(c)'
    BY <1>1, <1>4, <1>7 DEF RelayInv, Handshake, Asked
<1>10. Handshake'
    <2>1. phase = "method" => inbox'[b] = << 0 >> /\ answered' = 1
        <3>1. phase = "method" => inbox[b] = <<>> /\ answered = 0
            BY <1>2, <1>3, <1>7 DEF RelayInv, Handshake, Shaking
        <3>2. Append(<<>>, 0) = << 0 >> /\ 0 + 1 = 1 /\ 1 + 1 = 2
            OBVIOUS
        <3> QED BY <1>5, <1>7, <3>1, <3>2
    <2>2. phase = "reply" => answered' = 2 /\ inbox'[b] = << 0 >> /\ sent[b] = 0
        <3>1. phase = "reply" => inbox[b] = <<>> /\ answered = 1 /\ sent[b] = 0
            BY <1>2, <1>3, <1>7 DEF RelayInv, Handshake, Shaking
        <3>2. Append(<<>>, 0) = << 0 >> /\ 0 + 1 = 1 /\ 1 + 1 = 2
            OBVIOUS
        <3> QED BY <1>5, <1>7, <3>1, <3>2
    <2>3. IsRun(Tail(<< 0 >>), 0) /\ Len(<< 0 >>) = 1 + 0 /\ << 0 >> # <<>>
        BY DEF IsRun
    <2>4. phase \in {"method", "reply"} => phase \notin Dialling
        BY DEF Dialling
    <2>5. phase \in {"reject", "ended"} => phase \notin Dialling \cup Shaking
        BY DEF Dialling, Shaking
    <2>6. phase = "reply" => IsRun(Tail(inbox'[b]), 0) /\ Len(inbox'[b]) = 1 + sent[b]
                             /\ inbox'[b] # <<>>
        BY <2>2, <2>3
    <2>7. \A e \in Ends : ~Asked(e)'
        BY <1>9, TwoEnds
    <2> QED BY <1>4, <1>5, <1>6, <2>1, <2>2, <2>4, <2>5, <2>6, <2>7 DEF RelayInv, Handshake
<1>11. Results' /\ \A x \in Ends : CopyOK(x)'
    BY <1>5, <1>7, CopiesStay DEF copyVars
<1>12. Sockets' /\ \A x \in Ends : Failures(x)'
    BY <1>5, SocketsStay DEF copyVars, SomeReset
<1>13. StreamOK(b)'
    <2>1. StreamOK(b)
        BY <1>1 DEF RelayInv
    <2>2. Passed(b) = 0 /\ Len(<<>>) = 0 /\ IsRun(<<>>, 0)
        BY <1>3 DEF Passed, IsRun
    <2>3. Passed(b)' = 0
        BY <1>4, <1>5, <1>6, <1>9 DEF Passed
    <2>4. Held(c)' = Held(c) /\ Readable(c)' = Readable(c)
        BY <1>5 DEF Held, Readable, copyVars
    <2>5. Arrived(b)' /\ OnTheWay(b)'
        BY <1>1, <1>4, <1>5, <1>6, <1>7, <2>1, <2>2 DEF StreamOK, Arrived, OnTheWay
    <2>6. HeldFor(b)' /\ Unread(b)'
        BY <1>1, <1>5, <1>7, <2>1, <2>2, <2>3, <2>4 DEF StreamOK, HeldFor, Unread
    <2>7. AllPassed(b)'
        BY <1>1, <1>5, <1>6 DEF AllPassed, copyVars
    <2> QED BY <2>5, <2>6, <2>7 DEF StreamOK
<1>14. StreamOK(c)'
    <2>1. StreamOK(c)
        BY <1>1 DEF RelayInv
    <2>2. Asked(c)' = Asked(c) /\ Passed(c)' = Passed(c) /\ Held(b)' = Held(b)
        BY <1>5, <1>7 DEF Asked, Passed, Held, copyVars
    <2>3. ~Readable(b)'
        BY <1>5, <1>6 DEF Readable, Shaking
    <2>4. Arrived(c)' /\ OnTheWay(c)'
        BY <1>1, <1>5, <1>7, <2>1, <2>2 DEF StreamOK, Arrived, OnTheWay
    <2>5. HeldFor(c)' /\ Unread(c)'
        BY <1>1, <1>5, <2>1, <2>2, <2>3 DEF StreamOK, HeldFor, Unread
    <2>6. AllPassed(c)'
        BY <1>1, <1>5, <1>6 DEF AllPassed, copyVars
    <2> QED BY <2>4, <2>5, <2>6 DEF StreamOK
<1> QED BY <1>8, <1>10, <1>11, <1>12, <1>13, <1>14, TwoEnds DEF RelayInv

LEMMA PeerReadsInv ==
    ASSUME RelayInv, NEW e \in Ends, PeerReads(e)
    PROVE  RelayInv'
<1>1. CASE e = "backend" /\ Head(wire[e]) = 0
    BY <1>1, ProxyAnswers
<1>2. CASE ~(e = "backend" /\ Head(wire[e]) = 0)
    <2>1. TcpTypeOK /\ wire[e] # <<>> /\ wire[e] \in Seq(Nat) /\ got[e] \in Seq(Nat)
        BY HeldIsSeq DEF RelayInv, PeerReads
    <2>2. ~Asked(e)
        <3> SUFFICES ASSUME Asked(e) PROVE FALSE
            OBVIOUS
        <3>1. e = "backend" /\ Head(wire[e]) = 0
            BY DEF RelayInv, Handshake, Asked
        <3> QED BY <1>2, <3>1
    <2>3. /\ wire' = [wire EXCEPT ![e] = Tail(wire[e])]
          /\ got' = [got EXCEPT ![e] = Append(got[e], Head(wire[e]))]
          /\ UNCHANGED <<phase, initial, sock, armed, shut, inbox, sent, fin, reset, answered,
                         copyVars>>
        BY <1>2 DEF PeerReads
    <2>4. wire'[e] = Tail(wire[e]) /\ got'[e] = Append(got[e], Head(wire[e]))
        BY <2>1, <2>3 DEF TcpTypeOK
    <2>5. \A x \in Ends : x # e => wire'[x] = wire[x] /\ got'[x] = got[x]
        BY <2>1, <2>3 DEF TcpTypeOK
    <2>6. TcpTypeOK'
        <3>1. Tail(wire[e]) \in Seq(Nat) /\ Append(got[e], Head(wire[e])) \in Seq(Nat)
            BY <2>1
        <3>2. wire' \in [Ends -> Seq(Nat)] /\ got' \in [Ends -> Seq(Nat)]
            BY <2>1, <2>3, <3>1 DEF TcpTypeOK
        <3> QED BY <2>1, <2>3, <3>2 DEF TcpTypeOK, copyVars
    <2>7. \A x \in Ends : Held(x)' = Held(x) /\ Readable(x)' = Readable(x)
        BY <2>3 DEF Held, Readable, copyVars
    <2>8. StreamOK(e)'
        BY <2>1, <2>2, <2>3, <2>4, <2>7, TwoEnds, StreamArrive DEF copyVars
    <2>9. StreamOK(Other(e))'
        <3>1. StreamOK(Other(e)) /\ Other(e) \in Ends /\ Other(e) # e /\ Other(Other(e)) = e
            BY TwoEnds DEF RelayInv
        <3> QED BY <2>3, <2>5, <2>7, <3>1, StreamFrame DEF copyVars
    <2>10. ~Asked(e)'
        <3>1. Len(got[e]) \in Nat /\ IsRun(wire[e], Len(got[e]))
            BY <2>1, <2>2, HeldIsSeq DEF RelayInv, StreamOK, OnTheWay
        <3>2. IsRun(wire'[e], Len(got[e]) + 1) /\ wire'[e] \in Seq(Nat)
            BY <2>1, <2>4, <3>1, RunTail
        <3>3. wire'[e] # << 0 >>
            <4> SUFFICES ASSUME wire'[e] = << 0 >> PROVE FALSE
                OBVIOUS
            <4>1. 1 \in DOMAIN wire'[e] /\ wire'[e][1] = 0
                BY <3>2, AskedOnly
            <4>2. wire'[e][1] = (Len(got[e]) + 1) + 1
                BY <3>2, <4>1 DEF IsRun
            <4>3. \A k \in Nat : (k + 1) + 1 # 0
                OBVIOUS
            <4> QED BY <3>1, <4>1, <4>2, <4>3
        <3> QED BY <3>3 DEF Asked
    <2>11. \A x \in Ends : x # e => Asked(x)' = Asked(x)
        BY <2>5 DEF Asked
    <2>12. e = "backend" => phase \notin Dialling /\ (phase \in Shaking => reset["backend"])
        BY <2>1, <2>2 DEF RelayInv, Handshake, Dialling
    <2>13. ~reset[e]
        BY <2>1 DEF RelayInv, StreamOK, OnTheWay
    <2>14. Handshake'
        <3>1. CASE e = "backend"
            <4>1. phase \notin Dialling /\ phase \notin Shaking
                BY <2>12, <2>13, <3>1
            <4>2. \A x \in Ends : ~Asked(x)'
                BY <2>10, <2>11, <3>1 DEF RelayInv, Handshake
            <4> QED BY <2>3, <4>1, <4>2 DEF RelayInv, Handshake, Shaking, Dialling
        <3>2. CASE e # "backend"
            <4>1. wire'["backend"] = wire["backend"] /\ got'["backend"] = got["backend"]
                  /\ Asked("backend")' = Asked("backend")
                BY <2>5, <2>11, <3>2, TwoEnds
            <4>2. \A x \in Ends : Asked(x)' => x = "backend"
                BY <2>10, <2>11, <3>2, TwoEnds
            <4> QED BY <2>3, <4>1, <4>2, TwoEnds DEF RelayInv, Handshake, copyVars
        <3> QED BY <3>1, <3>2
    <2>15. Results' /\ \A x \in Ends : CopyOK(x)'
        <3>1. \A x \in Ends : copy[x] = "none" =>
                  (got["client"] = <<>> /\ wire["client"] = <<>>
                      => got'["client"] = <<>> /\ wire'["client"] = <<>>)
            BY <2>1, <2>5, TwoEnds
        <3> QED BY <2>3, <3>1, CopiesStay DEF copyVars
    <2>16. Sockets' /\ \A x \in Ends : Failures(x)'
        BY <2>3, SocketsStay DEF copyVars, SomeReset
    <2> QED BY <2>6, <2>8, <2>9, <2>14, <2>15, <2>16, TwoEnds DEF RelayInv
<1> QED BY <1>1, <1>2

-----------------------------------------------------------------------------
(* The steps of handle that move bytes.                                    *)

(* Before the relay no copy runs.                                          *)
LEMMA NoCopyYet ==
    ASSUME RelayInv, phase \notin Relaying, phase \notin {"return", "ended"}, NEW e \in Ends
    PROVE  /\ copy[e] = "none" /\ chunk[e] = <<>>
           /\ got["client"] = <<>> /\ wire["client"] = <<>>
BY DEF RelayInv, CopyOK, TcpTypeOK

LEMMA ReadInitialInv ==
    ASSUME RelayInv, readInitialTCP
    PROVE  RelayInv'
<1> DEFINE b == "backend"
           c == "client"
<1>1. /\ TcpTypeOK /\ b \in Ends /\ c \in Ends /\ Other(b) = c /\ Other(c) = b /\ b # c
      /\ inbox[c] \in Seq(Nat)
    BY TwoEnds, HeldIsSeq DEF RelayInv
<1>2. /\ phase = "sniff" /\ armed' = [armed EXCEPT ![c] = FALSE]
      /\ UNCHANGED <<sock, shut, wire, sent, fin, reset, got, answered, copyVars>>
      /\ phase' \in {"host", "reject"}
    BY DEF readInitialTCP, peerVars, Goto
<1>3. phase \notin Relaying /\ phase \notin {"return", "ended"} /\ phase \notin Shaking
    BY <1>2 DEF Relaying, Shaking
<1>4. \A e \in Ends : copy[e] = "none"
    BY <1>3, NoCopyYet
<1>5. initial = <<>> /\ sock[b] = "none" /\ phase \in Dialling
    BY <1>2 DEF RelayInv, Handshake, Sockets, Dialling
<1>6. \/ UNCHANGED <<initial, inbox>>
      \/ /\ ~reset[c] /\ sock[c] # "closed"
         /\ \E n \in 1..Len(inbox[c]) :
               initial' = SubSeq(inbox[c], 1, n) /\ inbox' = [inbox EXCEPT ![c] = Drop(inbox[c], n)]
    BY DEF readInitialTCP, HasData, Broken
<1>7. /\ inbox' \in [Ends -> Seq(Nat)] /\ initial' \in Seq(Nat) /\ inbox'[b] = inbox[b]
    <2>1. CASE UNCHANGED <<initial, inbox>>
        BY <1>1, <2>1 DEF TcpTypeOK
    <2>2. ASSUME NEW n \in 1..Len(inbox[c]), initial' = SubSeq(inbox[c], 1, n),
                 inbox' = [inbox EXCEPT ![c] = Drop(inbox[c], n)]
          PROVE  inbox' \in [Ends -> Seq(Nat)] /\ initial' \in Seq(Nat) /\ inbox'[b] = inbox[b]
        <3>1. SubSeq(inbox[c], 1, n) \in Seq(Nat) /\ Drop(inbox[c], n) \in Seq(Nat)
            BY <1>1 DEF Drop
        <3> QED BY <1>1, <2>2, <3>1 DEF TcpTypeOK
    <2> QED BY <1>6, <2>1, <2>2
<1>8. TcpTypeOK'
    <2>1. armed' \in [Ends -> BOOLEAN]
        BY <1>1, <1>2 DEF TcpTypeOK
    <2> QED BY <1>1, <1>2, <1>7, <2>1 DEF TcpTypeOK, copyVars
<1>9. Handshake'
    <2>1. phase' \notin {"accept", "original", "sniff"} /\ phase' \notin Shaking
        BY <1>2 DEF Shaking
    <2>2. \A e \in Ends : ~Asked(e) /\ Asked(e)' = Asked(e)
        BY <1>2 DEF RelayInv, Handshake, Asked
    <2> QED BY <1>2, <1>5, <1>7, <2>1, <2>2 DEF RelayInv, Handshake, copyVars, Shaking
<1>10. Results' /\ \A e \in Ends : CopyOK(e)'
    <2>1. Results'
        BY <1>2 DEF RelayInv, Results, copyVars
    <2> QED BY <1>2, <1>4, <2>1 DEF RelayInv, CopyOK, copyVars
<1>11. Sockets' /\ \A e \in Ends : Failures(e)'
    <2>1. ~armed'[c] /\ armed'[b] = armed[b] /\ SomeReset' = SomeReset
        BY <1>1, <1>2 DEF TcpTypeOK, SomeReset
    <2>2. Sockets'
        BY <1>2, <1>5, <2>1 DEF RelayInv, Sockets, Shaking
    <2> QED BY <1>2, <2>1, <2>2 DEF RelayInv, Failures, Relaying, copyVars
<1>12. StreamOK(c)'
    <2>1. Held(b)' = Held(b) /\ (Readable(b)' => Readable(b))
        BY <1>1, <1>2, <1>3 DEF Held, Readable, copyVars
    <2>2. reset[c] => inbox'[c] = inbox[c]
        BY <1>6
    <2> QED BY <1>1, <1>2, <1>7, <2>1, <2>2, StreamFrame DEF RelayInv, copyVars
<1>13. StreamOK(b)'
    <2>1. Held(c) = initial /\ Held(c)' = initial'
        BY <1>2, <1>4, <1>1 DEF Held, copyVars
    <2>2. CASE UNCHANGED <<initial, inbox>>
        <3>1. Readable(c)' => Readable(c)
            BY <1>1, <1>2 DEF Readable
        <3> QED BY <1>1, <1>2, <2>1, <2>2, <3>1, StreamFrame DEF RelayInv, copyVars
    <2>3. ASSUME NEW n \in 1..Len(inbox[c]), initial' = SubSeq(inbox[c], 1, n),
                 inbox' = [inbox EXCEPT ![c] = Drop(inbox[c], n)], ~reset[c], sock[c] # "closed"
          PROVE  StreamOK(b)'
        <3>1. inbox'[c] = Drop(inbox[c], n)
            BY <1>1, <2>3 DEF TcpTypeOK
        <3>2. copy'[c] \notin {"shut", "done"}
            BY <1>1, <1>2, <1>4 DEF copyVars
        <3>3. StreamOK(Other(c))'
            BY <1>1, <1>2, <1>5, <1>7, <2>1, <2>3, <3>1, <3>2, StreamRead
        <3> QED BY <1>1, <3>3
    <2> QED BY <1>6, <2>2, <2>3
<1> QED BY <1>8, <1>9, <1>10, <1>11, <1>12, <1>13, TwoEnds DEF RelayInv

LEMMA SocksWritesInv ==
    ASSUME RelayInv, SocksWrites
    PROVE  RelayInv'
<1> DEFINE b == "backend"
           c == "client"
<1>1. TcpTypeOK /\ b \in Ends /\ c \in Ends /\ Other(b) = c /\ Other(c) = b /\ b # c
    BY TwoEnds DEF RelayInv
<1>2. /\ (phase = "greet" /\ phase' = "method") \/ (phase = "request" /\ phase' = "reply")
      /\ ~reset[b] /\ wire' = [wire EXCEPT ![b] = Append(wire[b], 0)]
      /\ UNCHANGED <<initial, sock, armed, shut, inbox, sent, fin, reset, got, answered, copyVars>>
    BY DEF SocksWrites, HasRoom, Broken, Write, Goto, After, peerVars
<1>3. /\ wire[b] = <<>> /\ inbox[b] = <<>> /\ got[b] = <<>> /\ sent[b] = 0
      /\ answered = (IF phase = "greet" THEN 0 ELSE 1)
    BY <1>2 DEF RelayInv, Handshake, Shaking
<1>4. wire' = [wire EXCEPT ![b] = << 0 >>] /\ << 0 >> \in Seq(Nat) /\ Append(<<>>, 0) = << 0 >>
    BY <1>2, <1>3
<1>5. wire'[b] = << 0 >> /\ wire'[c] = wire[c]
    BY <1>1, <1>4 DEF TcpTypeOK
<1>6. \A e \in Ends : copy[e] = "none" /\ chunk[e] = <<>> /\ wire["client"] = <<>>
    BY <1>2, NoCopyYet DEF Relaying
<1>7. TcpTypeOK'
    <2>1. wire' \in [Ends -> Seq(Nat)]
        BY <1>1, <1>4 DEF TcpTypeOK
    <2> QED BY <1>1, <1>2, <2>1 DEF TcpTypeOK, copyVars
<1>8. Asked(b) = FALSE /\ Asked(b)' /\ ~Asked(c) /\ ~Asked(c)'
    <2>1. <<>> # << 0 >>
        OBVIOUS
    <2> QED BY <1>3, <1>5, <1>6, <1>1, <2>1 DEF Asked
<1>9. Handshake'
    <2>1. phase' \notin Dialling
        BY <1>2 DEF Dialling
    <2> QED BY <1>2, <1>3, <1>6, <1>8, <2>1, TwoEnds DEF RelayInv, Handshake, copyVars
<1>10. Results' /\ \A e \in Ends : CopyOK(e)'
    <2>1. Results'
        BY <1>2 DEF RelayInv, Results, copyVars
    <2> QED BY <1>2, <1>5, <1>6, <1>1, <2>1 DEF RelayInv, CopyOK, copyVars
<1>11. Sockets' /\ \A e \in Ends : Failures(e)'
    <2>1. Sockets'
        BY <1>2 DEF RelayInv, Sockets, Shaking, Dialling
    <2>2. SomeReset' = SomeReset
        BY <1>2 DEF SomeReset
    <2> QED BY <1>2, <2>1, <2>2 DEF RelayInv, Failures, Relaying, copyVars
<1>12. StreamOK(c)'
    <2>1. Held(b)' = Held(b) /\ ~Readable(b)'
        BY <1>1, <1>2 DEF Held, Readable, copyVars, Shaking
    <2> QED BY <1>1, <1>2, <1>5, <2>1, StreamFrame DEF RelayInv, copyVars
<1>13. StreamOK(b)'
    <2>1. StreamOK(b)
        BY <1>1 DEF RelayInv
    <2>2. Passed(b)' = 0
        BY <1>8 DEF Passed
    <2>3. Passed(b) = 0
        BY <1>3, <1>8 DEF Passed
    <2>4. Held(c)' = Held(c) /\ (Readable(c)' => Readable(c))
        BY <1>2, <1>1 DEF Held, Readable, copyVars
    <2>5. Arrived(b)' /\ OnTheWay(b)'
        BY <1>1, <1>2, <1>8, <2>1 DEF StreamOK, Arrived, OnTheWay
    <2>6. HeldFor(b)' /\ Unread(b)'
        BY <1>1, <1>2, <2>1, <2>2, <2>3, <2>4 DEF StreamOK, HeldFor, Unread
    <2>7. AllPassed(b)'
        BY <1>1, <1>2, <1>6 DEF AllPassed, copyVars
    <2> QED BY <2>5, <2>6, <2>7 DEF StreamOK
<1> QED BY <1>7, <1>9, <1>10, <1>11, <1>12, <1>13, TwoEnds DEF RelayInv

LEMMA SocksReadsInv ==
    ASSUME RelayInv, SocksReads
    PROVE  RelayInv'
<1> DEFINE b == "backend"
           c == "client"
<1>1. TcpTypeOK /\ b \in Ends /\ c \in Ends /\ Other(b) = c /\ Other(c) = b /\ b # c
    BY TwoEnds DEF RelayInv
<1>2. /\ (phase = "method" /\ phase' = "request") \/ (phase = "reply" /\ phase' = "clear")
      /\ ~reset[b] /\ inbox[b] # <<>> /\ inbox' = [inbox EXCEPT ![b] = Tail(inbox[b])]
      /\ UNCHANGED <<initial, sock, armed, shut, wire, sent, fin, reset, got, answered, copyVars>>
    BY DEF SocksReads, HasData, Broken, Goto, After, peerVars
<1>3. inbox'[b] = Tail(inbox[b]) /\ inbox'[c] = inbox[c] /\ Tail(inbox[b]) \in Seq(Nat)
    <2>1. inbox[b] \in Seq(Nat)
        BY <1>1, HeldIsSeq
    <2>2. Tail(inbox[b]) \in Seq(Nat)
        BY <1>2, <2>1
    <2> QED BY <1>1, <1>2, <2>2 DEF TcpTypeOK
<1>4. \A e \in Ends : copy[e] = "none" /\ chunk[e] = <<>> /\ wire["client"] = <<>>
                      /\ got["client"] = <<>>
    BY <1>2, NoCopyYet DEF Relaying
<1>5. phase = "method" => /\ wire[b] = <<>> /\ inbox[b] = << 0 >> /\ answered = 1 /\ sent[b] = 0
    BY <1>2 DEF RelayInv, Handshake, Shaking
<1>6. phase = "reply" => /\ wire[b] = <<>> /\ answered = 2 /\ IsRun(Tail(inbox[b]), 0)
                         /\ Len(inbox[b]) = 1 + sent[b]
    BY <1>2 DEF RelayInv, Handshake, Shaking
<1>7. TcpTypeOK'
    <2>1. inbox' \in [Ends -> Seq(Nat)]
        BY <1>1, <1>2, <1>3 DEF TcpTypeOK
    <2> QED BY <1>1, <1>2, <2>1 DEF TcpTypeOK, copyVars
<1>8. \A e \in Ends : ~Asked(e) /\ ~Asked(e)'
    <2>1. <<>> # << 0 >>
        OBVIOUS
    <2>2. wire[b] = <<>> /\ wire[c] = <<>>
        BY <1>1, <1>2, <1>4, <1>5, <1>6
    <2> QED BY <1>2, <2>1, <2>2, TwoEnds DEF Asked
<1>9. Handshake'
    <2>1. phase' \notin Dialling
        BY <1>2 DEF Dialling
    <2>2. phase' = "request" => inbox'[b] = <<>> /\ wire[b] = <<>> /\ answered = 1 /\ sent[b] = 0
        <3>1. Tail(<< 0 >>) = <<>>
            OBVIOUS
        <3> QED BY <1>2, <1>3, <1>5, <3>1
    <2>3. got[b] = <<>>
        BY <1>2 DEF RelayInv, Handshake, Shaking
    <2> QED BY <1>2, <1>8, <2>1, <2>2, <2>3 DEF RelayInv, Handshake, Shaking
<1>10. Results' /\ \A e \in Ends : CopyOK(e)'
    <2>1. Results'
        BY <1>2 DEF RelayInv, Results, copyVars
    <2> QED BY <1>2, <1>4, <2>1 DEF RelayInv, CopyOK, copyVars
<1>11. Sockets' /\ \A e \in Ends : Failures(e)'
    <2>1. Sockets'
        BY <1>2 DEF RelayInv, Sockets, Shaking, Dialling
    <2>2. SomeReset' = SomeReset
        BY <1>2 DEF SomeReset
    <2> QED BY <1>2, <2>1, <2>2 DEF RelayInv, Failures, Relaying, copyVars
<1>12. StreamOK(b)'
    <2>1. Held(c)' = Held(c) /\ (Readable(c)' => Readable(c))
        BY <1>1, <1>2 DEF Held, Readable, copyVars
    <2> QED BY <1>1, <1>2, <1>3, <2>1, StreamFrame DEF RelayInv, copyVars
<1>13. StreamOK(c)'
    <2>1. StreamOK(c)
        BY <1>1 DEF RelayInv
    <2>2. Passed(c) = 0 /\ Passed(c)' = 0 /\ Asked(c)' = Asked(c)
        <3>1. Len(<<>>) + Len(<<>>) = 0
            OBVIOUS
        <3>2. Asked(c)' = Asked(c) /\ got'[c] = <<>> /\ wire'[c] = <<>>
            BY <1>1, <1>2, <1>4 DEF Asked
        <3>3. Len(got[c]) + Len(wire[c]) = 0 /\ Len(got'[c]) + Len(wire'[c]) = 0
            <4>1. got[c] = <<>> /\ wire[c] = <<>>
                BY <1>1, <1>4
            <4> QED BY <3>1, <3>2, <4>1
        <3> QED BY <3>2, <3>3 DEF Passed
    <2>3. Held(b) = <<>> /\ Held(b)' = <<>>
        BY <1>1, <1>2, <1>4 DEF Held, copyVars
    <2>4. Arrived(c)' /\ OnTheWay(c)'
        BY <1>1, <1>2, <1>3, <2>1, <2>2 DEF StreamOK, Arrived, OnTheWay
    <2>5. HeldFor(c)'
        BY <1>1, <1>2, <2>1, <2>2, <2>3 DEF StreamOK, HeldFor
    <2>6. Unread(c)'
        <3>1. CASE phase' = "request"
            BY <1>1, <3>1 DEF Unread, Readable, Shaking
        <3>2. CASE phase' = "clear"
            <4>1. IsRun(inbox'[b], 0) /\ Len(inbox[b]) = 1 + sent[b]
                BY <1>2, <1>3, <1>6, <3>2
            <4>2. Len(inbox'[b]) = sent[b] /\ sent[b] \in Nat
                <5>1. inbox[b] \in Seq(Nat) /\ sent[b] \in Nat
                    BY <1>1, HeldIsSeq
                <5>2. Len(Tail(inbox[b])) = Len(inbox[b]) - 1
                    BY <1>2, <5>1
                <5>3. \A n \in Nat : (1 + n) - 1 = n
                    OBVIOUS
                <5> QED BY <1>3, <4>1, <5>1, <5>2, <5>3
            <4> QED BY <1>1, <1>2, <2>2, <2>3, <4>1, <4>2 DEF Unread
        <3> QED BY <1>2, <3>1, <3>2
    <2>7. AllPassed(c)'
        BY <1>1, <1>2, <1>4 DEF AllPassed, copyVars
    <2> QED BY <2>4, <2>5, <2>6, <2>7 DEF StreamOK
<1> QED BY <1>7, <1>9, <1>10, <1>11, <1>12, <1>13, TwoEnds DEF RelayInv

(* One more byte goes to x.                                                *)
LEMMA WriteType ==
    ASSUME TcpTypeOK, NEW x \in Ends, NEW s \in Ends, Held(s) # <<>>,
           Write(x, Head(Held(s)))
    PROVE  /\ wire' \in [Ends -> Seq(Nat)] /\ wire'[x] = Append(wire[x], Head(Held(s)))
           /\ \A e \in Ends : e # x => wire'[e] = wire[e]
           /\ Tail(Held(s)) \in Seq(Nat)
<1>1. wire[x] \in Seq(Nat) /\ Held(s) \in Seq(Nat)
    BY HeldIsSeq
<1>2. Append(wire[x], Head(Held(s))) \in Seq(Nat) /\ Tail(Held(s)) \in Seq(Nat)
    BY <1>1
<1>3. wire' = [wire EXCEPT ![x] = Append(wire[x], Head(Held(s)))]
    BY DEF Write
<1> QED BY <1>2, <1>3 DEF TcpTypeOK

LEMMA WriteInitialInv ==
    ASSUME RelayInv, WriteInitial
    PROVE  RelayInv'
<1> DEFINE b == "backend"
           c == "client"
<1>1. TcpTypeOK /\ b \in Ends /\ c \in Ends /\ Other(b) = c /\ Other(c) = b /\ b # c
    BY TwoEnds DEF RelayInv
<1>2. /\ phase = "initial" /\ initial # <<>>
      /\ UNCHANGED <<sock, armed, shut, inbox, sent, fin, reset, got, answered, copyVars>>
    BY DEF WriteInitial, peerVars
<1>3. \A e \in Ends : /\ copy[e] = "none" /\ chunk[e] = <<>>
                      /\ got["client"] = <<>> /\ wire["client"] = <<>>
    BY <1>2, NoCopyYet DEF Relaying
<1>4. Held(c) = initial /\ Held(b) = <<>> /\ Held(c)' = initial' /\ Held(b)' = Held(b)
    BY <1>1, <1>2, <1>3 DEF Held, copyVars
<1>5. \A e \in Ends : ~Asked(e)
    BY <1>2 DEF RelayInv, Handshake
<1>6. phase' \in {"initial", "return"}
    BY <1>2 DEF WriteInitial, Goto
<1>7. phase' \notin Dialling \cup Shaking \cup Relaying
    BY <1>6 DEF Dialling, Shaking, Relaying
<1>8. Results' /\ Sockets' /\ \A e \in Ends : Failures(e)'
    <2>1. Results'
        BY <1>2 DEF RelayInv, Results, copyVars
    <2>2. Sockets'
        BY <1>2, <1>6, <1>7 DEF RelayInv, Sockets, Shaking
    <2>3. SomeReset' = SomeReset
        BY <1>2 DEF SomeReset
    <2> QED BY <1>2, <2>1, <2>2, <2>3 DEF RelayInv, Failures, Relaying, copyVars
<1>9. \A e \in Ends : Readable(e)' => Readable(e)
    BY <1>2 DEF Readable, Shaking
<1>10. CASE UNCHANGED <<wire, initial>>
    <2>1. TcpTypeOK'
        BY <1>1, <1>2, <1>6, <1>10 DEF TcpTypeOK, copyVars
    <2>2. Handshake'
        <3>1. \A e \in Ends : ~Asked(e)'
            BY <1>5, <1>10 DEF Asked
        <3> QED BY <1>6, <1>7, <3>1 DEF Handshake
    <2>3. \A e \in Ends : CopyOK(e)'
        BY <1>2, <1>3, <1>10 DEF RelayInv, CopyOK, copyVars
    <2>4. \A e \in Ends : StreamOK(e)'
        <3> SUFFICES ASSUME NEW e \in Ends PROVE StreamOK(e)'
            OBVIOUS
        <3>1. Held(Other(e))' = Held(Other(e)) /\ Other(e) \in Ends /\ StreamOK(e)
            BY <1>4, <1>10, TwoEnds DEF RelayInv
        <3> QED BY <1>2, <1>9, <1>10, <3>1, StreamFrame DEF copyVars
    <2> QED BY <1>8, <2>1, <2>2, <2>3, <2>4 DEF RelayInv
<1>11. CASE HasRoom(b) /\ Write(b, Head(initial)) /\ initial' = Tail(initial)
    <2>1. /\ wire' \in [Ends -> Seq(Nat)] /\ wire'[b] = Append(wire[b], Head(initial))
          /\ wire'[c] = wire[c] /\ initial' \in Seq(Nat)
        BY <1>1, <1>2, <1>4, <1>11, WriteType
    <2>2. TcpTypeOK'
        BY <1>1, <1>2, <1>6, <2>1 DEF TcpTypeOK, copyVars
    <2>3. ~reset[b]
        BY <1>11 DEF HasRoom, Broken
    <2>4. StreamOK(b)'
        <3>1. copy'[c] \notin {"shut", "done"}
            BY <1>1, <1>2, <1>3 DEF copyVars
        <3>2. StreamOK(Other(c))'
            BY <1>1, <1>2, <1>4, <1>5, <1>9, <1>11, <2>1, <2>3, <3>1, StreamPass
        <3> QED BY <1>1, <3>2
    <2>5. StreamOK(c)'
        BY <1>1, <1>2, <1>4, <1>9, <2>1, StreamFrame DEF RelayInv, copyVars
    <2>6. \A e \in Ends : ~Asked(e)'
        <3>1. ~Asked(c)'
            BY <1>1, <1>5, <2>1 DEF Asked
        <3>2. ~Asked(b)'
            BY <1>1, <1>2, <1>4, <1>5, <2>1, <2>3, PassedByte
        <3> QED BY <3>1, <3>2, TwoEnds
    <2>7. Handshake'
        BY <1>6, <1>7, <2>6 DEF Handshake
    <2>8. \A e \in Ends : CopyOK(e)'
        BY <1>1, <1>2, <1>3, <2>1 DEF RelayInv, CopyOK, copyVars
    <2> QED BY <1>8, <2>2, <2>4, <2>5, <2>7, <2>8, TwoEnds DEF RelayInv
<1> QED BY <1>10, <1>11 DEF WriteInitial

LEMMA StartCopiesInv ==
    ASSUME RelayInv, StartCopies
    PROVE  RelayInv'
<1>1. /\ phase = "initial" /\ phase' = "relay" /\ initial = <<>> /\ copy' = [e \in Ends |-> "read"]
      /\ UNCHANGED <<initial, sock, armed, shut, inbox, wire, sent, fin, reset, got, answered,
                     chunk, failed, results>>
    BY DEF StartCopies, peerVars, Goto
<1>2. \A e \in Ends : copy[e] = "none" /\ chunk[e] = <<>>
    BY <1>1, NoCopyYet DEF Relaying
<1>3. \A e \in Ends : Held(e)' = Held(e) /\ (Readable(e)' => Readable(e)) /\ Asked(e)' = Asked(e)
    BY <1>1, <1>2 DEF Held, Readable, Shaking, Asked
<1>4. TcpTypeOK'
    BY <1>1 DEF RelayInv, TcpTypeOK
<1>5. Handshake'
    <2>1. \A e \in Ends : ~Asked(e)
        BY <1>1 DEF RelayInv, Handshake
    <2> QED BY <1>1, <1>3, <2>1 DEF Handshake, Dialling, Shaking
<1>6. Results'
    <2>1. ASSUME NEW i \in DOMAIN results PROVE FALSE
        <3>1. results[i] \in Ends
            <4>1. results \in Seq(Ends)
                BY DEF RelayInv, TcpTypeOK
            <4> QED BY <2>1, <4>1
        <3> QED BY <1>2, <2>1, <3>1 DEF RelayInv, Results
    <2> QED BY <1>1, <2>1 DEF Results
<1>7. ASSUME NEW e \in Ends PROVE CopyOK(e)'
    <2>1. ~shut[e] /\ Other(e) \in Ends
        BY <1>2, <1>7, TwoEnds DEF RelayInv, CopyOK
    <2> QED BY <1>1, <1>2, <1>7, <2>1 DEF CopyOK, Relaying
<1>8. Sockets' /\ \A e \in Ends : Failures(e)'
    <2>1. Sockets'
        BY <1>1 DEF RelayInv, Sockets, Shaking, Dialling
    <2>2. SomeReset' = SomeReset
        BY <1>1 DEF SomeReset
    <2> QED BY <1>1, <2>1, <2>2 DEF RelayInv, Failures, Relaying
<1>9. ASSUME NEW e \in Ends PROVE StreamOK(e)'
    <2>1. StreamOK(e) /\ Other(e) \in Ends /\ copy'[Other(e)] \notin {"shut", "done"}
        BY <1>1, <1>9, TwoEnds DEF RelayInv
    <2> QED BY <1>1, <1>3, <2>1, StreamFrame
<1> QED BY <1>4, <1>5, <1>6, <1>7, <1>8, <1>9 DEF RelayInv

-----------------------------------------------------------------------------
(* The copies.                                                             *)

(* A copy that has not ended runs in the relay, where no handshake is under *)
(* way and no deadline is set.                                             *)
LEMMA Running ==
    ASSUME RelayInv, NEW s \in Ends, copy[s] \in {"read", "write", "shut"}
    PROVE  /\ phase \in Relaying /\ phase \notin Dialling \cup Shaking /\ initial = <<>>
           /\ \A e \in Ends : ~Asked(e) /\ ~armed[e]
           /\ \A e \in Ends : sock[e] = "closed" => SomeReset
           /\ Held(s) = chunk[s]
<1>1. phase \in Relaying /\ initial = <<>> /\ copy[s] # "none"
    BY DEF RelayInv, CopyOK
<1>2. phase \notin Dialling \cup Shaking /\ phase \notin {"reject", "ended", "return", "clear"}
    BY <1>1 DEF Dialling, Shaking, Relaying
<1>3. \A e \in Ends : ~Asked(e)
    BY <1>1 DEF RelayInv, Handshake
<1>4. \A e \in Ends : ~armed[e]
    BY <1>1, <1>2, TwoEnds DEF RelayInv, Sockets, Relaying
<1>5. \A e \in Ends : sock[e] = "closed" => SomeReset
    BY <1>1, <1>2 DEF RelayInv, Failures
<1> QED BY <1>1, <1>2, <1>3, <1>4, <1>5 DEF Held

(* The phase stays while a copy takes a step.                              *)
LEMMA CopyStepRest ==
    ASSUME RelayInv, phase \in Relaying, UNCHANGED <<phase, sock, armed, reset>>,
           \A e \in Ends : failed'[e] => failed[e] \/ SomeReset,
           \A e \in Ends : ~Asked(e)'
    PROVE  Handshake' /\ Sockets' /\ \A e \in Ends : Failures(e)'
<1>1. phase' \notin Dialling \cup Shaking /\ SomeReset' = SomeReset
    BY DEF Dialling, Shaking, Relaying, SomeReset
<1>2. Handshake'
    BY <1>1 DEF Handshake, Dialling, Relaying
<1>3. Sockets'
    BY <1>1 DEF RelayInv, Sockets
<1>4. ASSUME NEW e \in Ends PROVE Failures(e)'
    BY <1>1, <1>4 DEF RelayInv, Failures
<1> QED BY <1>2, <1>3, <1>4

LEMMA ResultsStay ==
    ASSUME RelayInv, UNCHANGED results, \A e \in Ends : copy[e] = "done" => copy'[e] = "done"
    PROVE  Results'
<1>1. results \in Seq(Ends)
    BY DEF RelayInv, TcpTypeOK
<1>2. \A i \in DOMAIN results : results[i] \in Ends
    BY <1>1
<1> QED BY <1>2 DEF RelayInv, Results

LEMMA CopyReadsInv ==
    ASSUME RelayInv, NEW s \in Ends, CopyReads(s)
    PROVE  RelayInv'
<1> DEFINE e == Other(s)
<1>1. TcpTypeOK /\ e \in Ends /\ Other(e) = s /\ e # s /\ \A x \in Ends : x = s \/ x = e
    BY TwoEnds DEF RelayInv
<1>2. /\ copy[s] = "read" /\ ~reset[s] /\ sock[s] # "closed"
      /\ copy' = [copy EXCEPT ![s] = "write"]
      /\ UNCHANGED <<phase, initial, sock, armed, shut, wire, sent, fin, reset, got, answered,
                     failed, results>>
    BY DEF CopyReads, HasData, Broken, peerVars
<1>3. PICK n \in 1..Len(inbox[s]) :
          /\ chunk' = [chunk EXCEPT ![s] = SubSeq(inbox[s], 1, n)]
          /\ inbox' = [inbox EXCEPT ![s] = Drop(inbox[s], n)]
    BY DEF CopyReads
<1>4. inbox[s] \in Seq(Nat)
    BY <1>1, HeldIsSeq
<1>5. /\ SubSeq(inbox[s], 1, n) \in Seq(Nat) /\ Drop(inbox[s], n) \in Seq(Nat)
      /\ SubSeq(inbox[s], 1, n) # <<>>
    BY <1>4 DEF Drop
<1>6. /\ chunk'[s] = SubSeq(inbox[s], 1, n) /\ inbox'[s] = Drop(inbox[s], n)
      /\ chunk'[e] = chunk[e] /\ inbox'[e] = inbox[e]
      /\ copy'[s] = "write" /\ copy'[e] = copy[e]
    BY <1>1, <1>2, <1>3 DEF TcpTypeOK
<1>7. /\ phase \in Relaying /\ phase \notin Shaking /\ initial = <<>> /\ Held(s) = chunk[s]
      /\ \A x \in Ends : ~Asked(x)
    BY <1>2, Running
<1>8. chunk[s] = <<>>
    BY <1>2 DEF RelayInv, CopyOK
<1>9. Held(s)' = chunk'[s] /\ Held(e)' = Held(e)
    BY <1>1, <1>2, <1>6 DEF Held
<1>10. TcpTypeOK'
    <2>1. chunk' \in [Ends -> Seq(Nat)] /\ inbox' \in [Ends -> Seq(Nat)]
        BY <1>1, <1>3, <1>5 DEF TcpTypeOK
    <2>2. copy' \in [Ends -> {"none", "read", "write", "shut", "done"}]
        BY <1>1, <1>2 DEF TcpTypeOK
    <2> QED BY <1>1, <1>2, <2>1, <2>2 DEF TcpTypeOK
<1>11. Handshake' /\ Sockets' /\ \A x \in Ends : Failures(x)'
    <2>1. \A x \in Ends : ~Asked(x)'
        BY <1>2, <1>7 DEF Asked
    <2> QED BY <1>2, <1>7, <2>1, CopyStepRest
<1>12. \A x \in Ends : copy[x] = "done" <=> copy'[x] = "done"
    BY <1>1, <1>2, <1>6
<1>13. Results'
    BY <1>1, <1>2, <1>12, ResultsStay
<1>14. \A x \in Ends : CopyOK(x)'
    <2>1. CopyOK(s)'
        BY <1>1, <1>2, <1>5, <1>6, <1>7, <1>12 DEF RelayInv, CopyOK
    <2>2. CopyOK(e)'
        BY <1>1, <1>2, <1>6, <1>12 DEF RelayInv, CopyOK
    <2> QED BY <1>1, <2>1, <2>2
<1>15. StreamOK(e)'
    BY <1>1, <1>2, <1>3, <1>6, <1>7, <1>8, <1>9, StreamRead
<1>16. StreamOK(s)'
    <2>1. StreamOK(s) /\ (Readable(e)' => Readable(e))
        BY <1>2 DEF RelayInv, Readable
    <2> QED BY <1>1, <1>2, <1>6, <1>9, <2>1, StreamFrame
<1> QED BY <1>1, <1>10, <1>11, <1>13, <1>14, <1>15, <1>16 DEF RelayInv

LEMMA OnlyByte ==
    ASSUME NEW t \in Seq(Nat), t # <<>>
    PROVE  Len(t) = 1 <=> Tail(t) = <<>>
<1>1. Len(t) \in Nat /\ Tail(t) \in Seq(Nat) /\ Len(Tail(t)) = Len(t) - 1
    OBVIOUS
<1>2. \A u \in Seq(Nat) : Len(u) = 0 <=> u = <<>>
    OBVIOUS
<1>3. \A k \in Nat : k = 1 <=> k - 1 = 0
    OBVIOUS
<1> QED BY <1>1, <1>2, <1>3

LEMMA CopyWritesInv ==
    ASSUME RelayInv, NEW s \in Ends, CopyWrites(s)
    PROVE  RelayInv'
<1> DEFINE e == Other(s)
<1>1. TcpTypeOK /\ e \in Ends /\ Other(e) = s /\ e # s /\ \A x \in Ends : x = s \/ x = e
    BY TwoEnds DEF RelayInv
<1>2. /\ copy[s] = "write" /\ ~reset[e] /\ Write(e, Head(chunk[s]))
      /\ chunk' = [chunk EXCEPT ![s] = Tail(chunk[s])]
      /\ copy' = IF Len(chunk[s]) = 1 THEN [copy EXCEPT ![s] = "read"] ELSE copy
      /\ UNCHANGED <<phase, initial, sock, armed, shut, inbox, sent, fin, reset, got, answered,
                     failed, results>>
    BY DEF CopyWrites, HasRoom, Broken, peerVars
<1>3. /\ phase \in Relaying /\ phase \notin Shaking /\ initial = <<>> /\ Held(s) = chunk[s]
      /\ \A x \in Ends : ~Asked(x)
    BY <1>2, Running
<1>4. chunk[s] # <<>> /\ chunk[s] \in Seq(Nat)
    BY <1>1, <1>2, HeldIsSeq DEF RelayInv, CopyOK
<1>5. /\ wire' \in [Ends -> Seq(Nat)] /\ wire'[e] = Append(wire[e], Head(Held(s)))
      /\ wire'[s] = wire[s] /\ Tail(chunk[s]) \in Seq(Nat)
    BY <1>1, <1>2, <1>3, <1>4, WriteType
<1>6. chunk'[s] = Tail(chunk[s]) /\ chunk'[e] = chunk[e] /\ copy'[e] = copy[e]
      /\ copy'[s] \in {"read", "write"} /\ (copy'[s] = "read" <=> Len(chunk[s]) = 1)
    BY <1>1, <1>2 DEF TcpTypeOK
<1>7. Held(s)' = chunk'[s] /\ Held(e)' = Held(e)
    BY <1>1, <1>2, <1>6 DEF Held
<1>8. TcpTypeOK'
    <2>1. chunk' \in [Ends -> Seq(Nat)]
        BY <1>1, <1>2, <1>5 DEF TcpTypeOK
    <2>2. copy' \in [Ends -> {"none", "read", "write", "shut", "done"}]
        BY <1>1, <1>2 DEF TcpTypeOK
    <2> QED BY <1>1, <1>2, <1>5, <2>1, <2>2 DEF TcpTypeOK
<1>9. \A x \in Ends : ~Asked(x)'
    <2>1. ~Asked(s)'
        BY <1>3, <1>5 DEF Asked
    <2>2. ~Asked(e)'
        BY <1>1, <1>2, <1>3, <1>4, <1>5, PassedByte
    <2> QED BY <1>1, <2>1, <2>2
<1>10. Handshake' /\ Sockets' /\ \A x \in Ends : Failures(x)'
    BY <1>2, <1>3, <1>9, CopyStepRest
<1>11. \A x \in Ends : copy[x] = "done" <=> copy'[x] = "done"
    BY <1>1, <1>2, <1>6
<1>12. Results'
    BY <1>1, <1>2, <1>11, ResultsStay
<1>13. \A x \in Ends : CopyOK(x)'
    <2>1. Len(chunk[s]) = 1 <=> Tail(chunk[s]) = <<>>
        BY <1>4, OnlyByte
    <2>2. copy[e] # "none"
        BY <1>1, <1>2 DEF RelayInv, CopyOK
    <2>3. CopyOK(s)'
        BY <1>1, <1>2, <1>3, <1>6, <1>11, <2>1 DEF RelayInv, CopyOK
    <2>4. CopyOK(e)'
        BY <1>1, <1>2, <1>6, <1>11, <2>2 DEF RelayInv, CopyOK
    <2> QED BY <1>1, <2>3, <2>4
<1>14. StreamOK(e)'
    <2>1. (Readable(s)' => Readable(s)) /\ copy'[s] \notin {"shut", "done"}
        BY <1>2, <1>6 DEF Readable
    <2> QED BY <1>1, <1>2, <1>3, <1>4, <1>5, <1>6, <1>7, <2>1, StreamPass
<1>15. StreamOK(s)'
    <2>1. StreamOK(s) /\ (Readable(e)' => Readable(e))
        BY <1>2 DEF RelayInv, Readable
    <2> QED BY <1>1, <1>2, <1>5, <1>6, <1>7, <2>1, StreamFrame
<1> QED BY <1>1, <1>8, <1>10, <1>12, <1>13, <1>14, <1>15 DEF RelayInv

(* A copy ends without an error when all of its input is passed on.        *)
LEMMA CopyStopsInv ==
    ASSUME RelayInv, NEW s \in Ends, CopyEnds(s) \/ CopyBreaks(s)
    PROVE  RelayInv'
<1> DEFINE e == Other(s)
<1>1. TcpTypeOK /\ e \in Ends /\ Other(e) = s /\ e # s /\ \A x \in Ends : x = s \/ x = e
    BY TwoEnds DEF RelayInv
<1>2. /\ copy[s] \in {"read", "write"} /\ copy' = [copy EXCEPT ![s] = "shut"]
      /\ UNCHANGED <<phase, initial, sock, armed, shut, inbox, wire, sent, fin, reset, got,
                     answered, chunk, results>>
      /\ \E v \in BOOLEAN : failed' = [failed EXCEPT ![s] = v]
    BY DEF CopyEnds, CopyBreaks, AtEnd, Broken, peerVars
<1>3. /\ phase \in Relaying /\ phase \notin Shaking /\ initial = <<>> /\ Held(s) = chunk[s]
      /\ \A x \in Ends : ~Asked(x) /\ ~armed[x]
      /\ \A x \in Ends : sock[x] = "closed" => SomeReset
    BY <1>2, Running
<1>4. copy'[s] = "shut" /\ copy'[e] = copy[e] /\ failed'[e] = failed[e]
    BY <1>1, <1>2 DEF TcpTypeOK
<1>5. failed'[s] => SomeReset
    <2>1. CASE CopyEnds(s)
        <3>1. failed'[s] = ~AtEnd(s) /\ ReadFails(s)
            BY <1>1, <2>1 DEF CopyEnds, TcpTypeOK
        <3> QED BY <1>3, <3>1 DEF ReadFails, Broken, SomeReset
    <2>2. CASE CopyBreaks(s)
        BY <1>1, <1>3, <2>2 DEF CopyBreaks, WriteFails, Broken, SomeReset
    <2> QED BY <2>1, <2>2
<1>6. ~failed'[s] => /\ ~reset[s] /\ sock[s] # "closed" /\ inbox[s] = <<>> /\ fin[s]
                     /\ chunk[s] = <<>>
    <2>1. CASE CopyEnds(s)
        <3>1. failed'[s] = ~AtEnd(s) /\ copy[s] = "read"
            BY <1>1, <2>1 DEF CopyEnds, TcpTypeOK
        <3> QED BY <3>1 DEF AtEnd, Broken, RelayInv, CopyOK
    <2>2. CASE CopyBreaks(s)
        BY <1>1, <2>2 DEF CopyBreaks, TcpTypeOK
    <2> QED BY <2>1, <2>2
<1>7. Held(s)' = Held(s) /\ Held(e)' = Held(e) /\ \A x \in Ends : Readable(x)' = Readable(x)
    BY <1>1, <1>2, <1>4 DEF Held, Readable
<1>8. TcpTypeOK'
    <2>1. copy' \in [Ends -> {"none", "read", "write", "shut", "done"}]
        BY <1>1, <1>2 DEF TcpTypeOK
    <2>2. failed' \in [Ends -> BOOLEAN]
        BY <1>1, <1>2 DEF TcpTypeOK
    <2> QED BY <1>1, <1>2, <2>1, <2>2 DEF TcpTypeOK
<1>9. Handshake' /\ Sockets' /\ \A x \in Ends : Failures(x)'
    <2>1. \A x \in Ends : ~Asked(x)'
        BY <1>2, <1>3 DEF Asked
    <2>2. \A x \in Ends : failed'[x] => failed[x] \/ SomeReset
        BY <1>1, <1>4, <1>5
    <2> QED BY <1>2, <1>3, <2>1, <2>2, CopyStepRest
<1>10. \A x \in Ends : copy[x] = "done" <=> copy'[x] = "done"
    BY <1>1, <1>2, <1>4
<1>11. Results'
    BY <1>1, <1>2, <1>10, ResultsStay
<1>12. \A x \in Ends : CopyOK(x)'
    <2>1. CopyOK(s)'
        BY <1>1, <1>2, <1>3, <1>4, <1>10 DEF RelayInv, CopyOK
    <2>2. CopyOK(e)'
        BY <1>1, <1>2, <1>4, <1>10 DEF RelayInv, CopyOK
    <2> QED BY <1>1, <2>1, <2>2
<1>13. StreamOK(s)'
    <2>1. StreamOK(s)
        BY DEF RelayInv
    <2> QED BY <1>1, <1>2, <1>4, <1>7, <2>1, StreamFrame
<1>14. StreamOK(e)'
    <2>1. StreamOK(e) /\ Asked(e)' = Asked(e) /\ Passed(e)' = Passed(e)
        BY <1>1, <1>2 DEF RelayInv, Asked, Passed
    <2>2. Arrived(e)' /\ OnTheWay(e)'
        BY <1>2, <2>1 DEF StreamOK, Arrived, OnTheWay
    <2>3. HeldFor(e)' /\ Unread(e)'
        BY <1>1, <1>2, <1>7, <2>1 DEF StreamOK, HeldFor, Unread
    <2>4. ASSUME ~failed'[s], ~reset[e] PROVE Passed(e) = sent[s]
        <3>1. Readable(s) /\ inbox[s] = <<>> /\ Held(s) = <<>>
            BY <1>3, <1>6, <2>4 DEF Readable
        <3>2. Passed(e) + Len(Held(s)) + Len(inbox[s]) = sent[s]
            BY <1>1, <2>1, <2>4, <3>1 DEF StreamOK, Unread
        <3>3. Passed(e) \in Nat /\ Len(<<>>) = 0
            BY <1>1, HeldIsSeq
        <3>4. \A n \in Nat : n + 0 + 0 = n
            OBVIOUS
        <3> QED BY <3>1, <3>2, <3>3, <3>4
    <2>5. AllPassed(e)'
        BY <1>1, <1>2, <1>6, <2>1, <2>4 DEF AllPassed
    <2> QED BY <2>2, <2>3, <2>5 DEF StreamOK
<1> QED BY <1>1, <1>8, <1>9, <1>11, <1>12, <1>13, <1>14 DEF RelayInv

LEMMA HalfCloseInv ==
    ASSUME RelayInv, NEW s \in Ends, HalfClose(s)
    PROVE  RelayInv'
<1> DEFINE e == Other(s)
<1>1. TcpTypeOK /\ e \in Ends /\ Other(e) = s /\ e # s /\ \A x \in Ends : x = s \/ x = e
    BY TwoEnds DEF RelayInv
<1>2. /\ copy[s] = "shut" /\ copy' = [copy EXCEPT ![s] = "done"]
      /\ results' = Append(results, s)
      /\ \E v \in BOOLEAN : shut' = [shut EXCEPT ![e] = v]
      /\ UNCHANGED <<phase, initial, sock, armed, inbox, wire, sent, fin, reset, got, answered,
                     chunk, failed>>
    <2>1. shut[e] \in BOOLEAN
        BY <1>1 DEF TcpTypeOK
    <2>2. (shut[e] \/ ~Broken(e)) \in BOOLEAN
        BY <2>1
    <2>3. shut' = [shut EXCEPT ![e] = shut[e] \/ ~Broken(e)]
        BY DEF HalfClose
    <2> QED BY <2>2, <2>3 DEF HalfClose, peerVars
<1>3. /\ phase \in Relaying /\ phase \notin Shaking /\ initial = <<>> /\ Held(s) = chunk[s]
      /\ \A x \in Ends : ~Asked(x)
    BY <1>2, Running
<1>4. copy'[s] = "done" /\ copy'[e] = copy[e] /\ shut'[s] = shut[s]
    BY <1>1, <1>2 DEF TcpTypeOK
<1>5. Held(s)' = Held(s) /\ Held(e)' = Held(e) /\ \A x \in Ends : Readable(x)' = Readable(x)
    BY <1>1, <1>2, <1>4 DEF Held, Readable
<1>6. TcpTypeOK'
    <2>1. copy' \in [Ends -> {"none", "read", "write", "shut", "done"}]
        BY <1>1, <1>2 DEF TcpTypeOK
    <2>2. shut' \in [Ends -> BOOLEAN]
        BY <1>1, <1>2 DEF TcpTypeOK
    <2>3. results \in Seq(Ends)
        BY <1>1 DEF TcpTypeOK
    <2>4. results' \in Seq(Ends)
        BY <1>2, <2>3
    <2> QED BY <1>1, <1>2, <2>1, <2>2, <2>4 DEF TcpTypeOK
<1>7. Handshake' /\ Sockets' /\ \A x \in Ends : Failures(x)'
    <2>1. \A x \in Ends : ~Asked(x)'
        BY <1>2, <1>3 DEF Asked
    <2> QED BY <1>2, <1>3, <2>1, CopyStepRest
<1>8. Results'
    <2>1. results \in Seq(Ends)
        BY <1>1 DEF TcpTypeOK
    <2>2. results \in Seq(Ends) /\ Len(results) \in Nat
        BY <2>1
    <2>3. \A i \in 1..Len(results) : copy[results[i]] = "done" /\ results[i] \in Ends
        BY <2>2 DEF RelayInv, Results
    <2>4. \A i \in 1..Len(results) : results[i] # s
        BY <1>2, <2>3
    <2>5. /\ Len(results') = Len(results) + 1 /\ results'[Len(results) + 1] = s
          /\ \A i \in 1..Len(results) : results'[i] = results[i]
          /\ DOMAIN results' = 1..Len(results) + 1
        BY <1>2, <2>2
    <2>6. \A i \in 1..Len(results) + 1 : i \in 1..Len(results) \/ i = Len(results) + 1
        BY <2>2
    <2>7. \A i \in DOMAIN results' : copy'[results'[i]] = "done"
        BY <1>1, <1>4, <2>3, <2>4, <2>5, <2>6
    <2>8. \A i, j \in 1..Len(results) : results[i] = results[j] => i = j
        BY <2>2 DEF RelayInv, Results
    <2>9. \A i, j \in DOMAIN results' : results'[i] = results'[j] => i = j
        BY <2>4, <2>5, <2>6, <2>8
    <2> QED BY <2>7, <2>9 DEF Results
<1>9. \A x \in Ends : CopyOK(x)'
    <2>1. CopyOK(s)'
        BY <1>1, <1>2, <1>3, <1>4 DEF RelayInv, CopyOK
    <2>2. CopyOK(e)'
        BY <1>1, <1>2, <1>4 DEF RelayInv, CopyOK
    <2> QED BY <1>1, <2>1, <2>2
<1>10. \A x \in Ends : StreamOK(x)'
    <2> SUFFICES ASSUME NEW x \in Ends PROVE StreamOK(x)'
        OBVIOUS
    <2>1. StreamOK(x) /\ Other(x) \in Ends /\ Held(Other(x))' = Held(Other(x))
        BY <1>1, <1>5, TwoEnds DEF RelayInv
    <2>2. copy'[Other(x)] \in {"shut", "done"} => copy[Other(x)] \in {"shut", "done"}
        BY <1>1, <1>2, <1>4, <2>1
    <2> QED BY <1>2, <1>5, <2>1, <2>2, StreamFrame
<1> QED BY <1>6, <1>7, <1>8, <1>9, <1>10 DEF RelayInv

-----------------------------------------------------------------------------
LEMMA TcpStepInv == RelayInv /\ [TcpNext]_tcpVars => RelayInv'
<1> SUFFICES ASSUME RelayInv, [TcpNext]_tcpVars PROVE RelayInv'
    OBVIOUS
<1>1. CASE Accept \/ HandleStep
    <2>1. CASE HandleMoves
        BY <2>1, MovesInv
    <2>2. CASE readInitialTCP \/ SocksWrites \/ SocksReads \/ WriteInitial \/ StartCopies
        BY <2>2, ReadInitialInv, SocksWritesInv, SocksReadsInv, WriteInitialInv, StartCopiesInv
    <2> QED BY <1>1, <2>1, <2>2 DEF HandleStep, HandleMoves
<1>2. ASSUME NEW e \in Ends, CopyStep(e) PROVE RelayInv'
    BY <1>2, CopyReadsInv, CopyWritesInv, CopyStopsInv, HalfCloseInv DEF CopyStep
<1>3. ASSUME NEW e \in Ends, PeerSends(e) \/ PeerFinishes(e) \/ PeerResets(e) \/ PeerReads(e)
      PROVE  RelayInv'
    BY <1>3, PeerSendsInv, PeerFinishesInv, PeerResetsInv, PeerReadsInv
<1>4. CASE UNCHANGED tcpVars
    <2> USE <1>4 DEF tcpVars, peerVars, copyVars
    <2>1. TcpTypeOK' /\ Handshake'
        BY DEF RelayInv, TcpTypeOK, Handshake, Asked
    <2>2. Results' /\ Sockets'
        BY DEF RelayInv, Results, Sockets, SomeReset
    <2>3. ASSUME NEW e \in Ends PROVE CopyOK(e)' /\ Failures(e)' /\ StreamOK(e)'
        <3>1. CopyOK(e)' /\ Failures(e)'
            BY <2>3 DEF RelayInv, CopyOK, Failures, SomeReset
        <3>2. Held(Other(e))' = Held(Other(e)) /\ Readable(Other(e))' = Readable(Other(e))
            BY DEF Held, Readable
        <3>3. StreamOK(e) /\ Other(e) \in Ends
            BY <2>3, TwoEnds DEF RelayInv
        <3> QED BY <3>1, <3>2, <3>3, StreamFrame
    <2> QED BY <2>1, <2>2, <2>3 DEF RelayInv
<1> QED BY <1>1, <1>2, <1>3, <1>4 DEF TcpNext

(* RelayInv always holds, however much the peers send and however little   *)
(* fits on the way.                                                        *)
THEOREM RelayCorrect == TcpSpec => []RelayInv
<1>1. TcpInit => RelayInv
    BY TcpInitInv
<1>2. RelayInv /\ [TcpNext]_tcpVars => RelayInv'
    BY TcpStepInv
<1> QED BY <1>1, <1>2, PTL DEF TcpSpec

(* No byte is repeated, left out or reordered on its way through the       *)
(* gateway, and no answer of the proxy gets among the bytes of a server.   *)
THEOREM StreamsInOrder == TcpSpec => []BytesInOrder
<1>1. RelayInv => BytesInOrder
    <2> SUFFICES ASSUME RelayInv, NEW e \in Ends PROVE IsPrefix(got[e], Stream(sent[Other(e)]))
        BY DEF BytesInOrder
    <2>1. got[e] \in Seq(Nat) /\ sent[Other(e)] \in Nat
        BY TwoEnds, HeldIsSeq DEF RelayInv
    <2>2. Arrived(e)
        BY DEF RelayInv, StreamOK
    <2> QED BY <2>1, <2>2, RunPrefix DEF Arrived
<1> QED BY <1>1, RelayCorrect, PTL

(* A peer that sees the end of its input, from a copy that ended without   *)
(* an error, has been sent all that the other peer sent, and only a reset  *)
(* makes a copy fail.                                                      *)
THEOREM NothingCutShort == TcpSpec => []EndMeansAll
<1>1. RelayInv => EndMeansAll
    <2> SUFFICES ASSUME RelayInv PROVE EndMeansAll
        OBVIOUS
    <2>1. ASSUME NEW e \in Ends, shut[e], ~failed[Other(e)], ~reset[e]
          PROVE  fin[Other(e)] /\ got[e] \o wire[e] = Stream(sent[Other(e)])
        <3>1. copy[Other(e)] = "done" /\ Other(e) \in Ends
            BY <2>1, TwoEnds DEF RelayInv, CopyOK
        <3>2. fin[Other(e)] /\ Passed(e) = sent[Other(e)]
            BY <2>1, <3>1 DEF RelayInv, StreamOK, AllPassed
        <3>3. ~Asked(e)
            BY <3>1 DEF RelayInv, Handshake
        <3>4. IsRun(got[e], 0) /\ IsRun(wire[e], Len(got[e]))
            BY <3>3 DEF RelayInv, StreamOK, Arrived, OnTheWay
        <3>5. got[e] \in Seq(Nat) /\ wire[e] \in Seq(Nat)
            BY HeldIsSeq DEF RelayInv
        <3>6. got[e] \o wire[e] = Stream(Len(got[e]) + Len(wire[e]))
            BY <3>4, <3>5, RunConcat
        <3> QED BY <3>2, <3>3, <3>6 DEF Passed
    <2> QED BY <2>1 DEF RelayInv, Failures, SomeReset, EndMeansAll
<1> QED BY <1>1, RelayCorrect, PTL

(* When handle has returned, by whatever path, neither connection is open  *)
(* and no copy runs.                                                       *)
THEOREM BothClosed == TcpSpec => []NoConnectionLeft
<1>1. RelayInv => NoConnectionLeft
    <2> SUFFICES ASSUME RelayInv, phase = "ended", NEW e \in Ends
                 PROVE  sock[e] # "open" /\ copy[e] \in {"none", "done"}
        BY DEF NoConnectionLeft
    <2>1. sock[e] # "open"
        BY TwoEnds DEF RelayInv, Sockets
    <2>2. copy[e] \in {"none", "done"}
        BY DEF RelayInv, CopyOK, Relaying, TcpTypeOK
    <2> QED BY <2>1, <2>2
<1> QED BY <1>1, RelayCorrect, PTL

=============================================================================
