------------------------------ MODULE MCTcpRelay ------------------------------
(* Two bytes each way: of the client's, one may be read before the relay   *)
(* and one in it.                                                          *)
EXTENDS TcpRelay

Bytes == [client |-> 2, backend |-> 2]
=============================================================================
