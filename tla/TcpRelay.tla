------------------------------- MODULE TcpRelay -------------------------------
(***************************************************************************)
(* One connection through the TCP gateway (internal/quic/tcp_proxy.go):    *)
(* handle finds out where the client wants to go, dials, directly or       *)
(* through a SOCKS5 proxy, passes on what it has read to find out, and     *)
(* relays until both copies have ended.                                    *)
(*                                                                         *)
(* Each end of the gateway, "client" and "backend", has a peer.  A peer    *)
(* sends the bytes 1, 2, ... in this order; 0 is a message of the SOCKS5   *)
(* handshake.  Nothing is assumed of a peer: it may be slow, stop reading, *)
(* close its half or reset the connection.                                 *)
(***************************************************************************)
EXTENDS Integers, Sequences, SequencesExt

CONSTANTS
    MaxSent,            \* bytes each peer sends in a behaviour
    Room                \* bytes written to a peer and not read by it

ASSUME BoundsAssumption == MaxSent \in [{"client", "backend"} -> Nat] /\ Room \in Nat \ {0}

VARIABLES
    phase,              \* where handle is
    initial,            \* what readInitialTCP has read and is not yet passed on
    sock,               \* the gateway's sockets: "none", "open", "closed"
    armed,              \* a deadline is set on it
    shut,               \* CloseWrite was called on it
    inbox,              \* what its peer has sent and the gateway has not read
    wire,               \* what was written to it and its peer has not read
    sent, fin, reset,   \* each peer: bytes sent, half closed, connection reset
    got,                \* bytes the peer has read
    answered,           \* messages of the handshake the proxy has answered
    copy, chunk, failed, \* the copy loop that reads from each end
    results             \* the channel done

peerVars == <<sent, fin, reset, got, answered>>
copyVars == <<copy, chunk, failed, results>>
tcpVars == <<phase, initial, sock, armed, shut, inbox, wire, peerVars, copyVars>>

Ends == {"client", "backend"}

Other(e) == IF e = "client" THEN "backend" ELSE "client"

TcpInit ==
    /\ phase = "accept" /\ initial = <<>>
    /\ sock = [e \in Ends |-> "none"]
    /\ armed = [e \in Ends |-> FALSE] /\ shut = [e \in Ends |-> FALSE]
    /\ inbox = [e \in Ends |-> <<>>] /\ wire = [e \in Ends |-> <<>>]
    /\ sent = [e \in Ends |-> 0]
    /\ fin = [e \in Ends |-> FALSE] /\ reset = [e \in Ends |-> FALSE]
    /\ got = [e \in Ends |-> <<>>] /\ answered = 0
    /\ copy = [e \in Ends |-> "none"] /\ chunk = [e \in Ends |-> <<>>]
    /\ failed = [e \in Ends |-> FALSE] /\ results = <<>>

-----------------------------------------------------------------------------
(* The peers.  Through a proxy the server's bytes follow the second answer.*)

PeerSends(e) ==
    /\ sock[e] = "open" /\ ~fin[e] /\ ~reset[e] /\ sent[e] < MaxSent[e]
    /\ e = "backend" => answered = 2
    /\ sent' = [sent EXCEPT ![e] = @ + 1]
    /\ inbox' = [inbox EXCEPT ![e] = Append(@, sent'[e])]
    /\ UNCHANGED <<phase, initial, sock, armed, shut, wire, fin, reset, got, answered, copyVars>>

PeerFinishes(e) ==
    /\ sock[e] = "open" /\ ~fin[e] /\ ~reset[e]
    /\ fin' = [fin EXCEPT ![e] = TRUE]
    /\ UNCHANGED <<phase, initial, sock, armed, shut, inbox, wire, sent, reset, got, answered,
                   copyVars>>

(* A reset discards what is under way in both directions.                  *)
PeerResets(e) ==
    /\ sock[e] = "open" /\ ~reset[e]
    /\ reset' = [reset EXCEPT ![e] = TRUE]
    /\ inbox' = [inbox EXCEPT ![e] = <<>>] /\ wire' = [wire EXCEPT ![e] = <<>>]
    /\ UNCHANGED <<phase, initial, sock, armed, shut, sent, fin, got, answered, copyVars>>

PeerReads(e) ==
    /\ wire[e] # <<>>
    /\ wire' = [wire EXCEPT ![e] = Tail(@)]
    /\ IF e = "backend" /\ Head(wire[e]) = 0
       THEN /\ answered' = answered + 1
            /\ inbox' = [inbox EXCEPT ![e] = Append(@, 0)]
            /\ UNCHANGED got
       ELSE /\ got' = [got EXCEPT ![e] = Append(@, Head(wire[e]))]
            /\ UNCHANGED <<answered, inbox>>
    /\ UNCHANGED <<phase, initial, sock, armed, shut, sent, fin, reset, copyVars>>

-----------------------------------------------------------------------------
(* Calls on a socket: they fail at once if it is closed here or broken.    *)

Broken(e) == sock[e] = "closed" \/ reset[e]

HasData(e) == ~Broken(e) /\ inbox[e] # <<>>

AtEnd(e) == ~Broken(e) /\ inbox[e] = <<>> /\ fin[e]

(* A call that would block ends when a deadline passes.                    *)
ReadFails(e) == Broken(e) \/ AtEnd(e) \/ armed[e]

HasRoom(e) == ~Broken(e) /\ Len(wire[e]) < Room

WriteFails(e) == Broken(e) \/ armed[e]

Write(e, x) == wire' = [wire EXCEPT ![e] = Append(@, x)]

Drop(s, n) == SubSeq(s, n + 1, Len(s))

-----------------------------------------------------------------------------
(* handle: the destination.                                                *)

Goto(next) == phase' = next

Accept ==
    /\ phase = "accept" /\ Goto("original")
    /\ sock' = [sock EXCEPT !["client"] = "open"]
    /\ UNCHANGED <<initial, armed, shut, inbox, wire, peerVars, copyVars>>

(* No original destination; one elsewhere; or the gateway itself, which    *)
(* means that DNS sent the client here and its first bytes name the host.  *)
OriginalDst ==
    /\ phase = "original"
    /\ \/ Goto("reject") /\ UNCHANGED armed
       \/ Goto("dial") /\ UNCHANGED armed
       \/ Goto("sniff") /\ armed' = [armed EXCEPT !["client"] = TRUE]
    /\ UNCHANGED <<initial, sock, shut, inbox, wire, peerVars, copyVars>>

(* Mutant: the deadline stays set.                                         *)
readInitialArmed ==
    /\ phase = "sniff" /\ UNCHANGED armed
    /\ \/ /\ HasData("client")
          /\ \E n \in 1..Len(inbox["client"]) :
                /\ initial' = SubSeq(inbox["client"], 1, n)
                /\ inbox' = [inbox EXCEPT !["client"] = Drop(@, n)]
          /\ Goto("host")
       \/ /\ ReadFails("client")
          /\ Goto("reject") /\ UNCHANGED <<initial, inbox>>
    /\ UNCHANGED <<sock, shut, wire, peerVars, copyVars>>

readInitialTCP ==
    /\ phase = "sniff" /\ armed' = [armed EXCEPT !["client"] = FALSE]
    /\ \/ /\ HasData("client")
          /\ \E n \in 1..Len(inbox["client"]) :
                /\ initial' = SubSeq(inbox["client"], 1, n)
                /\ inbox' = [inbox EXCEPT !["client"] = Drop(@, n)]
          /\ Goto("host")
       \/ /\ ReadFails("client")
          /\ Goto("reject") /\ UNCHANGED <<initial, inbox>>
    /\ UNCHANGED <<sock, shut, wire, peerVars, copyVars>>

(* sniffTCPHost: the bytes hold a whole head of HTTP or TLS that names a    *)
(* host, or they do not.                                                   *)
SniffHost ==
    /\ phase = "host"
    /\ Goto("select") \/ Goto("reject")
    /\ UNCHANGED <<initial, sock, armed, shut, inbox, wire, peerVars, copyVars>>

(* The exit of the host's rule, or the fallback, takes TCP or does not.    *)
SelectExit ==
    /\ phase = "select"
    /\ Goto("dial") \/ Goto("reject")
    /\ UNCHANGED <<initial, sock, armed, shut, inbox, wire, peerVars, copyVars>>

-----------------------------------------------------------------------------
(* dialTCPBackend.                                                         *)

DialFails ==
    /\ phase = "dial" /\ Goto("reject")
    /\ UNCHANGED <<initial, sock, armed, shut, inbox, wire, peerVars, copyVars>>

DialDirect ==
    /\ phase = "dial" /\ Goto("initial")
    /\ sock' = [sock EXCEPT !["backend"] = "open"]
    /\ answered' = 2
    /\ UNCHANGED <<initial, armed, shut, inbox, wire, sent, fin, reset, got, copyVars>>

(* Mutant: no deadline for the handshake.                                  *)
DialProxyUnarmed ==
    /\ phase = "dial" /\ Goto("greet")
    /\ sock' = [sock EXCEPT !["backend"] = "open"]
    /\ UNCHANGED <<initial, armed, shut, inbox, wire, peerVars, copyVars>>

DialProxy ==
    /\ phase = "dial" /\ Goto("greet")
    /\ sock' = [sock EXCEPT !["backend"] = "open"]
    /\ armed' = [armed EXCEPT !["backend"] = TRUE]
    /\ UNCHANGED <<initial, shut, inbox, wire, peerVars, copyVars>>

(* Mutant: the answer to the request is not read.                          *)
AfterHurried(p) ==
    CASE p = "greet" -> "method" [] p = "method" -> "request"
      [] p = "request" -> "clear" [] p = "reply" -> "clear"

After(p) ==
    CASE p = "greet" -> "method" [] p = "method" -> "request"
      [] p = "request" -> "reply" [] p = "reply" -> "clear"

SocksWrites ==
    /\ phase \in {"greet", "request"} /\ HasRoom("backend")
    /\ Write("backend", 0)
    /\ Goto(After(phase))
    /\ UNCHANGED <<initial, sock, armed, shut, inbox, peerVars, copyVars>>

SocksReads ==
    /\ phase \in {"method", "reply"} /\ HasData("backend")
    /\ inbox' = [inbox EXCEPT !["backend"] = Tail(@)]
    /\ Goto(After(phase))
    /\ UNCHANGED <<initial, sock, armed, shut, wire, peerVars, copyVars>>

SocksConnected ==
    /\ phase = "clear" /\ Goto("initial")
    /\ armed' = [armed EXCEPT !["backend"] = FALSE]
    /\ UNCHANGED <<initial, sock, shut, inbox, wire, peerVars, copyVars>>

(* The proxy breaks off, does not answer in time, or its answer says no;   *)
(* or the name is too long for a request.                                  *)
Refused ==
    \/ phase \in {"greet", "request"} /\ WriteFails("backend")
    \/ phase \in {"method", "reply"} /\ (ReadFails("backend") \/ HasData("backend"))

(* Mutant: the connection to the proxy stays open.                         *)
SocksFailsOpen ==
    /\ Refused /\ Goto("reject")
    /\ UNCHANGED <<initial, sock, armed, shut, inbox, wire, peerVars, copyVars>>

SocksFails ==
    /\ Refused /\ Goto("reject")
    /\ sock' = [sock EXCEPT !["backend"] = "closed"]
    /\ UNCHANGED <<initial, armed, shut, inbox, wire, peerVars, copyVars>>

-----------------------------------------------------------------------------
(* writeInitial, then relayTCP.                                            *)

WriteInitial ==
    /\ phase = "initial" /\ initial # <<>>
    /\ \/ /\ HasRoom("backend")
          /\ Write("backend", Head(initial)) /\ initial' = Tail(initial)
          /\ UNCHANGED phase
       \/ /\ WriteFails("backend")
          /\ Goto("return") /\ UNCHANGED <<wire, initial>>
    /\ UNCHANGED <<sock, armed, shut, inbox, peerVars, copyVars>>

StartCopies ==
    /\ phase = "initial" /\ initial = <<>> /\ Goto("relay")
    /\ copy' = [e \in Ends |-> "read"]
    /\ UNCHANGED <<initial, sock, armed, shut, inbox, wire, peerVars, chunk, failed, results>>

CopyReads(e) ==
    /\ copy[e] = "read" /\ HasData(e)
    /\ \E n \in 1..Len(inbox[e]) :
          /\ chunk' = [chunk EXCEPT ![e] = SubSeq(inbox[e], 1, n)]
          /\ inbox' = [inbox EXCEPT ![e] = Drop(@, n)]
    /\ copy' = [copy EXCEPT ![e] = "write"]
    /\ UNCHANGED <<phase, initial, sock, armed, shut, wire, peerVars, failed, results>>

CopyWrites(e) ==
    /\ copy[e] = "write" /\ HasRoom(Other(e))
    /\ Write(Other(e), Head(chunk[e]))
    /\ chunk' = [chunk EXCEPT ![e] = Tail(@)]
    /\ copy' = IF Len(chunk[e]) = 1 THEN [copy EXCEPT ![e] = "read"] ELSE copy
    /\ UNCHANGED <<phase, initial, sock, armed, shut, inbox, peerVars, failed, results>>

(* io.Copy returns nil at the end of the input.                            *)
CopyEnds(e) ==
    /\ copy[e] = "read" /\ ReadFails(e)
    /\ copy' = [copy EXCEPT ![e] = "shut"]
    /\ failed' = [failed EXCEPT ![e] = ~AtEnd(e)]
    /\ UNCHANGED <<phase, initial, sock, armed, shut, inbox, wire, peerVars, chunk, results>>

CopyBreaks(e) ==
    /\ copy[e] = "write" /\ WriteFails(Other(e))
    /\ copy' = [copy EXCEPT ![e] = "shut"]
    /\ failed' = [failed EXCEPT ![e] = TRUE]
    /\ UNCHANGED <<phase, initial, sock, armed, shut, inbox, wire, peerVars, chunk, results>>

(* closeWrite, and the result goes into the channel.                       *)
HalfClose(e) ==
    /\ copy[e] = "shut"
    /\ copy' = [copy EXCEPT ![e] = "done"]
    /\ shut' = [shut EXCEPT ![Other(e)] = @ \/ ~Broken(Other(e))]
    /\ results' = Append(results, e)
    /\ UNCHANGED <<phase, initial, sock, armed, inbox, wire, peerVars, chunk, failed>>

(* Mutant: the second copy is waited for in any case.                      *)
AfterFirstWaiting == "second"

AfterFirst == IF failed[Head(results)] THEN "close client" ELSE "second"

FirstResult ==
    /\ phase = "relay" /\ results # <<>>
    /\ Goto(AfterFirst)
    /\ UNCHANGED <<initial, sock, armed, shut, inbox, wire, peerVars, copyVars>>

CloseOne ==
    /\ \/ phase = "close client" /\ Goto("close backend")
          /\ sock' = [sock EXCEPT !["client"] = "closed"]
       \/ phase = "close backend" /\ Goto("second")
          /\ sock' = [sock EXCEPT !["backend"] = "closed"]
    /\ UNCHANGED <<initial, armed, shut, inbox, wire, peerVars, copyVars>>

SecondResult ==
    /\ phase = "second" /\ Len(results) = 2
    /\ Goto("return")
    /\ UNCHANGED <<initial, sock, armed, shut, inbox, wire, peerVars, copyVars>>

(* The deferred calls: the backend's is made once the dial has succeeded.  *)
Return ==
    /\ \/ phase = "reject" /\ sock' = [sock EXCEPT !["client"] = "closed"]
       \/ phase = "return" /\ sock' = [e \in Ends |-> "closed"]
    /\ Goto("ended")
    /\ UNCHANGED <<initial, armed, shut, inbox, wire, peerVars, copyVars>>

-----------------------------------------------------------------------------
HandleStep ==
    \/ OriginalDst \/ readInitialTCP \/ SniffHost \/ SelectExit
    \/ DialFails \/ DialDirect \/ DialProxy
    \/ SocksWrites \/ SocksReads \/ SocksConnected \/ SocksFails
    \/ WriteInitial \/ StartCopies
    \/ FirstResult \/ CloseOne \/ SecondResult \/ Return

CopyStep(e) == CopyReads(e) \/ CopyWrites(e) \/ CopyEnds(e) \/ CopyBreaks(e) \/ HalfClose(e)

TcpNext ==
    \/ Accept \/ HandleStep
    \/ \E e \in Ends : CopyStep(e)
    \/ \E e \in Ends : PeerSends(e) \/ PeerFinishes(e) \/ PeerResets(e) \/ PeerReads(e)

TcpSpec == TcpInit /\ [][TcpNext]_tcpVars

(* A goroutine goes on when its call returns; deadlines pass.  Nothing is  *)
(* assumed of the peers.                                                   *)
TcpFairness == WF_tcpVars(HandleStep) /\ \A e \in Ends : WF_tcpVars(CopyStep(e))

FairTcpSpec == TcpSpec /\ TcpFairness

-----------------------------------------------------------------------------
TcpTypeOK ==
    /\ phase \in {"accept", "original", "sniff", "host", "select", "dial", "greet", "method",
                  "request", "reply", "clear", "initial", "relay", "close client", "close backend",
                  "second", "return", "reject", "ended"}
    /\ initial \in Seq(Nat) /\ answered \in 0..2
    /\ sock \in [Ends -> {"none", "open", "closed"}]
    /\ armed \in [Ends -> BOOLEAN] /\ shut \in [Ends -> BOOLEAN]
    /\ inbox \in [Ends -> Seq(Nat)] /\ wire \in [Ends -> Seq(Nat)]
    /\ got \in [Ends -> Seq(Nat)] /\ chunk \in [Ends -> Seq(Nat)]
    /\ sent \in [Ends -> Nat] /\ fin \in [Ends -> BOOLEAN] /\ reset \in [Ends -> BOOLEAN]
    /\ copy \in [Ends -> {"none", "read", "write", "shut", "done"}]
    /\ failed \in [Ends -> BOOLEAN] /\ results \in Seq(Ends)

Stream(n) == [i \in 1..n |-> i]

(* What a peer has read is a beginning of what the other one sent: the     *)
(* bytes read to find the host come first, nothing is repeated, left out   *)
(* or reordered by partial reads and writes, and no answer of the proxy    *)
(* gets among them.                                                        *)
BytesInOrder ==
    \A e \in Ends : IsPrefix(got[e], Stream(sent[Other(e)]))

(* A peer that sees the end of its input, from a copy that reached the end *)
(* of its own, has been sent everything; and a copy fails for no other     *)
(* reason than a reset: neither a deadline that was set for the handshake  *)
(* nor the end of the opposite direction cuts a stream short.              *)
EndMeansAll ==
    /\ \A e \in Ends : shut[e] /\ ~failed[Other(e)] /\ ~reset[e] =>
          fin[Other(e)] /\ got[e] \o wire[e] = Stream(sent[Other(e)])
    /\ \A e \in Ends : failed[e] => \E x \in Ends : reset[x]

(* Whatever step fails, handle returns with both connections closed and no *)
(* copy running.                                                           *)
NoConnectionLeft ==
    phase = "ended" => \A e \in Ends : sock[e] # "open" /\ copy[e] \in {"none", "done"}

(* A copy that fails ends the other one, which may be blocked reading from *)
(* a silent peer or writing to one that does not read, and handle returns. *)
ErrorEndsBoth == \A e \in Ends : failed[e] ~> phase = "ended"

(* A proxy that does not answer cannot hold handle up.  In the relay, which *)
(* has no deadline, handle returns once both peers have finished, if they  *)
(* read what is written to them.                                           *)
RelayEnds ==
    (\A e \in Ends :
        /\ []<>(wire[e] = <<>> \/ phase \in {"greet", "method", "request", "reply"})
        /\ []<>(copy[e] = "none" \/ fin[e] \/ reset[e]))
    => [](phase = "original" => <>(phase = "ended"))

-----------------------------------------------------------------------------
(* Why the safety properties hold: RelayInv is inductive.                  *)

Dialling == {"accept", "original", "sniff", "host", "select", "dial"}
Shaking == {"greet", "method", "request", "reply"}
Relaying == {"relay", "close client", "close backend", "second"}

(* s is a piece of a stream, the one that follows the first n bytes.       *)
IsRun(s, n) == \A i \in DOMAIN s : s[i] = n + i

(* A message of the handshake is all that is under way to the proxy.       *)
Asked(e) == wire[e] = <<0>>

(* How many bytes have gone to e, and those that are held for it.          *)
Passed(e) == IF Asked(e) THEN 0 ELSE Len(got[e]) + Len(wire[e])

Held(s) == IF s = "client" /\ copy[s] = "none" THEN initial ELSE chunk[s]

(* What the peer of s has sent is read, held and passed on in its order;   *)
(* what is lost is lost by a reset.                                        *)
Arrived(e) == IsRun(got[e], 0) /\ Len(got[e]) <= sent[Other(e)]

OnTheWay(e) ==
    /\ ~Asked(e) => IsRun(wire[e], Len(got[e]))
    /\ reset[e] => wire[e] = <<>> /\ inbox[e] = <<>>

HeldFor(e) ==
    ~reset[e] => /\ IsRun(Held(Other(e)), Passed(e))
                 /\ Passed(e) + Len(Held(Other(e))) <= sent[Other(e)]

Readable(s) == ~reset[s] /\ sock[s] # "closed" /\ ~(s = "backend" /\ phase \in Shaking)

Unread(e) ==
    ~reset[e] /\ Readable(Other(e)) =>
        /\ IsRun(inbox[Other(e)], Passed(e) + Len(Held(Other(e))))
        /\ Passed(e) + Len(Held(Other(e))) + Len(inbox[Other(e)]) = sent[Other(e)]

(* A copy that has reached the end of its input has passed on all of it.   *)
AllPassed(e) ==
    copy[Other(e)] \in {"shut", "done"} /\ ~failed[Other(e)] =>
        /\ fin[Other(e)] /\ inbox[Other(e)] = <<>> /\ chunk[Other(e)] = <<>>
        /\ ~reset[e] => Passed(e) = sent[Other(e)]

StreamOK(e) == Arrived(e) /\ OnTheWay(e) /\ HeldFor(e) /\ Unread(e) /\ AllPassed(e)

(* The handshake: question and answer take turns.                          *)
Handshake ==
    /\ phase \in Dialling =>
          answered = 0 /\ sent["backend"] = 0 /\ wire["backend"] = <<>> /\ got["backend"] = <<>>
          /\ inbox["backend"] = <<>>
    /\ phase \in {"accept", "original", "sniff"} => initial = <<>>
    /\ phase \in Shaking => got["backend"] = <<>>
    /\ phase \in {"greet", "method", "request"} => sent["backend"] = 0
    /\ phase \in Shaking /\ ~reset["backend"] =>
          \/ phase = "greet" /\ wire["backend"] = <<>> /\ inbox["backend"] = <<>> /\ answered = 0
          \/ phase = "method" /\ Asked("backend") /\ inbox["backend"] = <<>> /\ answered = 0
          \/ phase = "method" /\ wire["backend"] = <<>> /\ inbox["backend"] = <<0>> /\ answered = 1
          \/ phase = "request" /\ wire["backend"] = <<>> /\ inbox["backend"] = <<>> /\ answered = 1
          \/ phase = "reply" /\ Asked("backend") /\ inbox["backend"] = <<>> /\ answered = 1
             /\ sent["backend"] = 0
          \/ phase = "reply" /\ wire["backend"] = <<>> /\ inbox["backend"] # <<>> /\ answered = 2
             /\ IsRun(Tail(inbox["backend"]), 0) /\ Len(inbox["backend"]) = 1 + sent["backend"]
    /\ \A e \in Ends : Asked(e) =>
          /\ e = "backend" /\ phase \in {"method", "reply", "reject", "ended"} /\ answered < 2
          /\ got[e] = <<>> /\ \A x \in Ends : copy[x] = "none"
          /\ phase \in {"reject", "ended"} => sock[e] = "closed"

(* The copies run while handle is in relayTCP.                             *)
CopyOK(e) ==
    /\ copy[e] \in {"read", "write", "shut"} => phase \in Relaying
    /\ copy[e] = "done" => phase \in Relaying \cup {"return", "ended"}
    /\ copy[e] = "none" =>
          copy[Other(e)] = "none" /\ got["client"] = <<>> /\ wire["client"] = <<>>
    /\ copy[e] # "none" => initial = <<>>
    /\ copy[e] \in {"none", "read"} => chunk[e] = <<>>
    /\ copy[e] = "write" => chunk[e] # <<>>
    /\ shut[e] => copy[Other(e)] = "done"

Results ==
    /\ \A i \in DOMAIN results : copy[results[i]] = "done"
    /\ \A i, j \in DOMAIN results : results[i] = results[j] => i = j

(* Deadlines and sockets in the phases of handle.                          *)
SomeReset == \E e \in Ends : reset[e]

Sockets ==
    /\ phase \in Dialling => sock["backend"] = "none"
    /\ phase = "reject" => sock["backend"] # "open"
    /\ phase = "ended" => sock["client"] # "open" /\ sock["backend"] # "open"
    /\ armed["client"] => phase = "sniff"
    /\ armed["backend"] => phase \in Shaking \cup {"clear", "reject", "ended"}
    /\ phase \in {"close client", "close backend"} => SomeReset

Failures(e) ==
    /\ failed[e] => SomeReset
    /\ sock[e] = "closed" =>
          phase \in {"reject", "ended"} \/ (phase \in Relaying \cup {"return"} /\ SomeReset)

RelayInv ==
    /\ TcpTypeOK /\ Handshake /\ Results /\ Sockets
    /\ \A e \in Ends : CopyOK(e) /\ Failures(e) /\ StreamOK(e)
=============================================================================
