------------------------------ MODULE MCRWLock ------------------------------
(* RWLock for TLC: two threads with equal rights; their ids matter only    *)
(* for being distinct.                                                     *)
EXTENDS RWLock

Two == 1..2
=============================================================================
