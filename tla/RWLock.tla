------------------------------- MODULE RWLock -------------------------------
(***************************************************************************)
(* The reader-writer spin lock of ServerCore (class Lock), one step per    *)
(* atomic access to _lockFlag and per update of _writeCount.  The users    *)
(* take it through ReadLockGuard and WriteLockGuard, so guards nest and    *)
(* each is released once, and they obey the rule of Lock.h: no WriteLock   *)
(* by a thread that has a read guard.  A thread then has write guards      *)
(* first and read guards inside them, and two counts describe its stack.   *)
(***************************************************************************)
EXTENDS Integers, FiniteSets

CONSTANTS Threads,         \* LThreadId of the threads, from 1 on
          Frames,          \* bound: the read guards one thread may have
          MaxDepth,        \* bound: the write guards one thread may have
          READ_COUNT_MASK  \* the largest count the low half of the flag holds

ASSUME ThreadsAssumption == IsFiniteSet(Threads) /\ Threads \subseteq Nat \ {0}
ASSUME FramesAssumption  == IsFiniteSet(Frames)
ASSUME DepthAssumption   == MaxDepth \in Nat
(* 65535 in the code: more guards than that overflow into the owner's id.  *)
ASSUME MaskAssumption    ==
    READ_COUNT_MASK \in Nat /\ Cardinality(Threads \X Frames) <= READ_COUNT_MASK

VARIABLES
    flag,       \* _lockFlag: w its owner half, r its count half
    writeCount, \* _writeCount
    pc,         \* per thread: where it is; "user" is outside the lock's code
    seen,       \* per thread: ReadLock's local expected
    crashed,    \* CRASH ended the process, and why
    depth, readers \* the guards in force, see SharedLock

lockVars == <<flag, writeCount, pc, seen, crashed>>
vars     == <<flag, writeCount, pc, seen, crashed, depth, readers>>

NoThread   == 0
EMPTY_FLAG == [w |-> NoThread, r |-> 0]
Running    == "running"
Crash      == {"WRITE_LOCK_TIMEOUT", "READ_LOCK_TIMEOUT",
               "INVALID_UNLOCK_ORDER", "MULTIPLE_UNLOCK"}
PC == {"user", "write", "writeAgain", "writeSpin", "writeCount",
       "unlock", "unlockCount", "unlockStore",
       "read", "readAgain", "readLoad", "readSwap", "readUnlock"}

Goto(t, l) == pc' = [pc EXCEPT ![t] = l]
Reads(t)   == \E f \in Frames : <<t, f>> \in readers

(* fetch_add(1) and fetch_sub(1) on the whole 32-bit word.                 *)
Plus1(f)  == IF f.r = READ_COUNT_MASK THEN [w |-> f.w + 1, r |-> 0]
             ELSE [w |-> f.w, r |-> f.r + 1]
Minus1(f) == IF f.r = 0 THEN [w |-> f.w - 1, r |-> READ_COUNT_MASK]
             ELSE [w |-> f.w, r |-> f.r - 1]

Init ==
    /\ flag = EMPTY_FLAG /\ writeCount = 0
    /\ pc = [t \in Threads |-> "user"]
    /\ seen = [t \in Threads |-> 0]
    /\ crashed = Running
    /\ depth = [t \in Threads |-> 0] /\ readers = {}

(* At t's next step the process is alive and t stands at l.                *)
At(t, l) == crashed = Running /\ pc[t] = l

-----------------------------------------------------------------------------
(* The constructor or destructor of a guard is called.                     *)
Call(t) ==
    /\ At(t, "user")
    /\ \/ ~Reads(t) /\ depth[t] < MaxDepth /\ Goto(t, "write")
       \/ (\E f \in Frames : <<t, f>> \notin readers) /\ Goto(t, "read")
       \/ Reads(t) /\ Goto(t, "readUnlock")
       \/ ~Reads(t) /\ depth[t] > 0 /\ Goto(t, "unlock")
    /\ UNCHANGED <<flag, writeCount, seen, crashed, depth, readers>>

(* WriteLock: the owner only counts.                                       *)
WriteCheck(t) ==
    /\ At(t, "write")
    /\ Goto(t, IF flag.w = t THEN "writeAgain" ELSE "writeSpin")
    /\ UNCHANGED <<flag, writeCount, seen, crashed, depth, readers>>

WriteAgain(t) ==
    /\ At(t, "writeAgain")
    /\ writeCount' = writeCount + 1
    /\ depth' = [depth EXCEPT ![t] = @ + 1]
    /\ Goto(t, "user")
    /\ UNCHANGED <<flag, seen, crashed, readers>>

(* Faulty variant of WriteSwap: any number of readers is overrun.          *)
WriteSwapOwnerOnly(t) ==
    /\ At(t, "writeSpin")
    /\ flag.w = NoThread
    /\ flag' = [w |-> t, r |-> 0]
    /\ depth' = [depth EXCEPT ![t] = @ + 1]
    /\ Goto(t, "writeCount")
    /\ UNCHANGED <<writeCount, seen, crashed, readers>>

(* compare_exchange_strong from EMPTY_FLAG; the lock is t's from here on.  *)
WriteSwap(t) ==
    /\ At(t, "writeSpin")
    /\ flag = EMPTY_FLAG
    /\ flag' = [w |-> t, r |-> 0]
    /\ depth' = [depth EXCEPT ![t] = @ + 1]
    /\ Goto(t, "writeCount")
    /\ UNCHANGED <<writeCount, seen, crashed, readers>>

WriteCounted(t) ==
    /\ At(t, "writeCount")
    /\ writeCount' = writeCount + 1
    /\ Goto(t, "user")
    /\ UNCHANGED <<flag, seen, crashed, depth, readers>>

(* WriteUnlock refuses to end a write guard before the read guards in it.  *)
UnlockCheck(t) ==
    /\ At(t, "unlock")
    /\ IF flag.r # 0
       THEN crashed' = "INVALID_UNLOCK_ORDER" /\ UNCHANGED pc
       ELSE Goto(t, "unlockCount") /\ UNCHANGED crashed
    /\ UNCHANGED <<flag, writeCount, seen, depth, readers>>

(* Faulty variant of UnlockCount: forgets to count down.                   *)
UnlockUncounted(t) ==
    /\ At(t, "unlockCount")
    /\ Goto(t, "unlockStore")
    /\ UNCHANGED <<flag, writeCount, seen, crashed, depth, readers>>

UnlockCount(t) ==
    /\ At(t, "unlockCount")
    /\ writeCount' = writeCount - 1
    /\ IF writeCount' = 0
       THEN Goto(t, "unlockStore") /\ UNCHANGED depth
       ELSE Goto(t, "user") /\ depth' = [depth EXCEPT ![t] = @ - 1]
    /\ UNCHANGED <<flag, seen, crashed, readers>>

(* Faulty variant of UnlockStore: the flag keeps its owner.                *)
UnlockNotStored(t) ==
    /\ At(t, "unlockStore")
    /\ depth' = [depth EXCEPT ![t] = @ - 1]
    /\ Goto(t, "user")
    /\ UNCHANGED <<flag, writeCount, seen, crashed, readers>>

UnlockStore(t) ==
    /\ At(t, "unlockStore")
    /\ flag' = EMPTY_FLAG
    /\ depth' = [depth EXCEPT ![t] = @ - 1]
    /\ Goto(t, "user")
    /\ UNCHANGED <<writeCount, seen, crashed, readers>>

(* ReadLock: the owner of the write lock only adds one.                    *)
ReadCheck(t) ==
    /\ At(t, "read")
    /\ Goto(t, IF flag.w = t THEN "readAgain" ELSE "readLoad")
    /\ UNCHANGED <<flag, writeCount, seen, crashed, depth, readers>>

(* A read guard of t comes into force.                                     *)
ReadEntered(t) ==
    /\ flag' = Plus1(flag)
    /\ \E f \in Frames : <<t, f>> \notin readers /\ readers' = readers \cup {<<t, f>>}
    /\ Goto(t, "user")
    /\ UNCHANGED <<writeCount, seen, crashed, depth>>

ReadAgain(t) == At(t, "readAgain") /\ ReadEntered(t)

ReadLoad(t) ==
    /\ At(t, "readLoad")
    /\ seen' = [seen EXCEPT ![t] = flag.r]
    /\ Goto(t, "readSwap")
    /\ UNCHANGED <<flag, writeCount, crashed, depth, readers>>

(* Faulty variant of ReadSwap: only the count half is compared.            *)
ReadSwapCountOnly(t) ==
    /\ At(t, "readSwap")
    /\ flag.r = seen[t]
    /\ ReadEntered(t)

(* compare_exchange_strong from the count loaded and no owner.             *)
ReadSwap(t) ==
    /\ At(t, "readSwap")
    /\ flag = [w |-> NoThread, r |-> seen[t]]
    /\ ReadEntered(t)

ReadRetry(t) ==
    /\ At(t, "readSwap")
    /\ flag # [w |-> NoThread, r |-> seen[t]]
    /\ Goto(t, "readLoad")
    /\ UNCHANGED <<flag, writeCount, seen, crashed, depth, readers>>

(* ReadUnlock: fetch_sub, then a look at what was there.                   *)
ReadUnlock(t) ==
    /\ At(t, "readUnlock")
    /\ flag' = Minus1(flag)
    /\ \E f \in Frames : <<t, f>> \in readers /\ readers' = readers \ {<<t, f>>}
    /\ IF flag.r = 0
       THEN crashed' = "MULTIPLE_UNLOCK" /\ UNCHANGED pc
       ELSE Goto(t, "user") /\ UNCHANGED crashed
    /\ UNCHANGED <<writeCount, seen, depth>>

(* Ten seconds of failed attempts end the process.                         *)
TimeOut(t) ==
    /\ \/ /\ At(t, "writeSpin") /\ flag # EMPTY_FLAG
          /\ crashed' = "WRITE_LOCK_TIMEOUT"
       \/ /\ At(t, "readSwap") /\ flag # [w |-> NoThread, r |-> seen[t]]
          /\ crashed' = "READ_LOCK_TIMEOUT"
    /\ UNCHANGED <<flag, writeCount, pc, seen, depth, readers>>

-----------------------------------------------------------------------------
WriteStep(t) ==
    \/ WriteCheck(t) \/ WriteAgain(t) \/ WriteSwap(t) \/ WriteCounted(t)
    \/ UnlockCheck(t) \/ UnlockCount(t) \/ UnlockStore(t)

ReadStep(t) ==
    \/ ReadCheck(t) \/ ReadAgain(t) \/ ReadLoad(t) \/ ReadSwap(t) \/ ReadRetry(t)
    \/ ReadUnlock(t)

Next == \E t \in Threads : Call(t) \/ WriteStep(t) \/ ReadStep(t) \/ TimeOut(t)

Spec == Init /\ [][Next]_vars

(* A thread that waits spins thousands of times per yield, so its attempts *)
(* also fall into the periods when the lock has no owner; the scope of     *)
(* every guard ends, that of the outer one of two as well.  Nothing        *)
(* obliges a thread to take the lock.                                      *)
EndsRead(t, n)  == /\ Call(t) /\ pc'[t] = "readUnlock"
                   /\ Cardinality({g \in readers : g[1] = t}) = n
EndsWrite(t, n) == Call(t) /\ pc'[t] = "unlock" /\ depth[t] = n
Fairness ==
    \A t \in Threads :
        /\ WF_vars(WriteStep(t) \/ ReadStep(t))
        /\ SF_vars(WriteSwap(t)) /\ SF_vars(ReadSwap(t))
        /\ SF_vars(ReadLoad(t) /\ flag.w = NoThread)
        /\ SF_vars(ReadRetry(t) /\ flag.w = NoThread)
        /\ \A n \in 1..Cardinality(Frames) : SF_vars(EndsRead(t, n))
        /\ \A n \in 1..MaxDepth : SF_vars(EndsWrite(t, n))

FairSpec == Spec /\ Fairness

-----------------------------------------------------------------------------
Owned(t) == depth[t] > 0

(* Every variable has the type its C++ counterpart has.                    *)
TypeOK ==
    /\ flag \in [w : Threads \cup {NoThread}, r : 0..READ_COUNT_MASK]
    /\ writeCount \in 0..MaxDepth
    /\ pc \in [Threads -> PC] /\ seen \in [Threads -> 0..READ_COUNT_MASK]
    /\ crashed \in Crash \cup {Running}
    /\ depth \in [Threads -> 0..MaxDepth] /\ readers \in SUBSET (Threads \X Frames)

(* A thread inside a write guard is alone: no other thread is inside a     *)
(* guard of either kind.                                                   *)
Exclusion ==
    \A t, u \in Threads : Owned(t) /\ t # u => ~Owned(u) /\ ~Reads(u)

(* The two halves of the flag say who is inside, at every instant of a     *)
(* running process: the owner half is the thread with write guards, the    *)
(* count half the number of read guards, the owner's among them.           *)
FlagAgrees ==
    crashed = Running =>
        /\ flag.r = Cardinality(readers)
        /\ \A t \in Threads : flag.w = t <=> Owned(t)

(* Users that obey the rule of Lock.h never meet the two crashes that      *)
(* blame them: releases in any order the guards allow are accepted.        *)
NoMisuse == crashed \notin {"INVALID_UNLOCK_ORDER", "MULTIPLE_UNLOCK"}

Shared == INSTANCE SharedLock

(* The spin lock implements the lock its users are promised.               *)
ImplementsShared == Shared!SharedSpec

(* Two threads never keep each other out for good: who waits enters, or    *)
(* the ten seconds pass.  In the UDP server these are the main thread and  *)
(* the one worker that is processing a packet.                             *)
WaitersEnter ==
    \A t \in Threads :
        pc[t] \in {"writeSpin", "readLoad", "readSwap"} ~>
            pc[t] \in {"writeCount", "user"} \/ crashed # Running
=============================================================================
