----------------------------- MODULE SharedLock -----------------------------
(***************************************************************************)
(* What a lock of ServerCore promises its users, as the comment of Lock.h  *)
(* puts it: one writer or many readers; a thread that holds it for writing *)
(* may take it again, for writing (W -> W) and for reading (W -> R); a     *)
(* thread that holds it for reading may not ask for writing (R -> W).      *)
(***************************************************************************)
EXTENDS Integers

CONSTANTS Threads, \* thread ids, LThreadId
          Frames,  \* bound: the read guards one thread may have at a time
          MaxDepth \* bound: the write guards one thread may have at a time

VARIABLES depth,   \* per thread: its live WriteLockGuards
          readers  \* the live ReadLockGuards, each a thread and a stack frame

sharedVars == <<depth, readers>>

Reads(t) == \E f \in Frames : <<t, f>> \in readers

SharedInit ==
    /\ depth = [t \in Threads |-> 0]
    /\ readers = {}

AcquireWrite(t) ==
    /\ ~Reads(t)
    /\ \A u \in Threads \ {t} : depth[u] = 0 /\ ~Reads(u)
    /\ depth' = [depth EXCEPT ![t] = @ + 1]
    /\ UNCHANGED readers

ReleaseWrite(t) ==
    /\ depth[t] > 0
    /\ depth' = [depth EXCEPT ![t] = @ - 1]
    /\ UNCHANGED readers

AcquireRead(t, f) ==
    /\ <<t, f>> \notin readers
    /\ \A u \in Threads \ {t} : depth[u] = 0
    /\ readers' = readers \cup {<<t, f>>}
    /\ UNCHANGED depth

ReleaseRead(t, f) ==
    /\ <<t, f>> \in readers
    /\ readers' = readers \ {<<t, f>>}
    /\ UNCHANGED depth

SharedNext ==
    \E t \in Threads :
        \/ AcquireWrite(t) \/ ReleaseWrite(t)
        \/ \E f \in Frames : AcquireRead(t, f) \/ ReleaseRead(t, f)

SharedSpec == SharedInit /\ [][SharedNext]_sharedVars
=============================================================================
