---------------------------- MODULE MCTcpSession ----------------------------
(* TcpSession for TLC: model values for the threads, so that a thread can  *)
(* complete, call Send and call Disconnect at the same time.               *)
EXTENDS TcpSession, TLC
=============================================================================
