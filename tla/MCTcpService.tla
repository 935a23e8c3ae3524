---------------------------- MODULE MCTcpService ----------------------------
(* Every failure, and a service of each kind.                              *)
EXTENDS TcpService

AllTypes    == {"Server", "Client"}
AllFailures == {"create", "accept", "connect", "reset", "other", "send", "disconnect"}
=============================================================================
