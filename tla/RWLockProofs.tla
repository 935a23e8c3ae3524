---------------------------- MODULE RWLockProofs ----------------------------
(***************************************************************************)
(* RWLock for any threads, nesting depths and number of read guards that   *)
(* the 16-bit count can hold: the flag always tells the truth about the    *)
(* guards in force, so a writer is alone, no release is refused, and the   *)
(* lock implements SharedLock.                                             *)
(***************************************************************************)
EXTENDS RWLock, FiniteSetTheorems, TLAPS

(* What a thread may rely on where it stands in the lock's code.           *)
Phase(t) ==
    /\ pc[t] \in {"writeAgain", "writeCount", "unlock", "unlockCount",
                  "unlockStore", "readAgain"} => depth[t] > 0
    /\ pc[t] \in {"writeCount", "unlockStore"} => depth[t] = 1
    /\ pc[t] \in {"write", "writeAgain", "writeSpin", "writeCount", "unlock",
                  "unlockCount", "unlockStore"} => ~Reads(t)
    /\ pc[t] \in {"write", "writeAgain", "writeSpin"} => depth[t] < MaxDepth
    /\ pc[t] \in {"writeSpin", "readLoad", "readSwap"} => depth[t] = 0
    /\ pc[t] \in {"read", "readAgain", "readLoad", "readSwap"} =>
           \E f \in Frames : <<t, f>> \notin readers
    /\ pc[t] = "readUnlock" => Reads(t)

(* The owner half names the thread with write guards, and while there is   *)
(* an owner all read guards are its own.                                   *)
OwnerInv ==
    /\ \A t \in Threads : flag.w = t <=> depth[t] > 0
    /\ \A u \in Threads, f \in Frames :
           <<u, f>> \in readers /\ flag.w # NoThread => flag.w = u

CountInv == flag.r = Cardinality(readers)

(* _writeCount lags behind the guards at the first lock and the last unlock. *)
WriteCountInv ==
    /\ flag.w = NoThread => writeCount = 0
    /\ \A t \in Threads : flag.w = t =>
           writeCount = IF pc[t] \in {"writeCount", "unlockStore"} THEN 0 ELSE depth[t]

Inv ==
    /\ TypeOK /\ OwnerInv /\ CountInv /\ WriteCountInv /\ NoMisuse
    /\ \A t \in Threads : Phase(t)

-----------------------------------------------------------------------------
LEMMA ReadersFinite ==
    ASSUME NEW R \in SUBSET (Threads \X Frames)
    PROVE  IsFiniteSet(R) /\ Cardinality(R) \in Nat /\ Cardinality(R) <= READ_COUNT_MASK
<1>1. IsFiniteSet(Threads \X Frames) /\ Cardinality(Threads \X Frames) \in Nat
    BY ThreadsAssumption, FramesAssumption, FS_Product, FS_CardinalityType
<1>2. IsFiniteSet(R) /\ Cardinality(R) <= Cardinality(Threads \X Frames)
    BY <1>1, FS_Subset
<1>3. Cardinality(R) \in Nat
    BY <1>2, FS_CardinalityType
<1> QED BY <1>1, <1>2, <1>3, MaskAssumption

(* One more read guard fits into the count half: no carry into the owner.  *)
LEMMA CountUp ==
    ASSUME TypeOK, CountInv, NEW p \in Threads \X Frames, p \notin readers
    PROVE  /\ Plus1(flag) = [w |-> flag.w, r |-> flag.r + 1]
           /\ Cardinality(readers \cup {p}) = flag.r + 1
           /\ flag.r + 1 \in 0..READ_COUNT_MASK
           /\ readers \cup {p} \in SUBSET (Threads \X Frames)
<1>1. readers \cup {p} \in SUBSET (Threads \X Frames)
    BY DEF TypeOK
<1>2. IsFiniteSet(readers)
    BY ReadersFinite DEF TypeOK
<1>3. Cardinality(readers \cup {p}) = Cardinality(readers) + 1
    BY <1>2, FS_AddElement
<1>4. Cardinality(readers \cup {p}) <= READ_COUNT_MASK
    BY <1>1, ReadersFinite
<1>5. flag.r \in Nat /\ flag.r + 1 <= READ_COUNT_MASK
    BY <1>3, <1>4, MaskAssumption DEF CountInv, TypeOK
<1> QED BY <1>1, <1>3, <1>5, MaskAssumption DEF CountInv, Plus1

LEMMA CountDown ==
    ASSUME TypeOK, CountInv, NEW p \in readers
    PROVE  /\ flag.r > 0
           /\ Minus1(flag) = [w |-> flag.w, r |-> flag.r - 1]
           /\ Cardinality(readers \ {p}) = flag.r - 1
           /\ flag.r - 1 \in 0..READ_COUNT_MASK
<1>1. IsFiniteSet(readers) /\ Cardinality(readers) \in Nat
    BY ReadersFinite DEF TypeOK
<1>2. Cardinality(readers \ {p}) = Cardinality(readers) - 1
    BY <1>1, FS_RemoveElement
<1>3. Cardinality(readers \ {p}) \in Nat
    BY ReadersFinite DEF TypeOK
<1> QED BY <1>1, <1>2, <1>3, MaskAssumption DEF CountInv, Minus1, TypeOK

LEMMA NoReaders ==
    ASSUME TypeOK, CountInv
    PROVE  flag.r = 0 <=> readers = {}
BY ReadersFinite, FS_EmptySet DEF TypeOK, CountInv

LEMMA InvInit == Init => Inv
<1> SUFFICES ASSUME Init PROVE Inv
    OBVIOUS
<1>1. TypeOK
    BY DepthAssumption, MaskAssumption DEF Init, TypeOK, EMPTY_FLAG, PC, Running
<1>2. OwnerInv /\ WriteCountInv
    BY ThreadsAssumption DEF Init, OwnerInv, WriteCountInv, EMPTY_FLAG, NoThread
<1>3. CountInv /\ NoMisuse
    BY FS_EmptySet DEF Init, CountInv, EMPTY_FLAG, NoMisuse, Running
<1>4. \A t \in Threads : Phase(t)
    BY DEF Init, Phase
<1> QED BY <1>1, <1>2, <1>3, <1>4 DEF Inv

-----------------------------------------------------------------------------
(* A step of t that leaves the other threads' guards alone leaves their    *)
(* Phase alone.                                                            *)
LEMMA OthersKept ==
    ASSUME TypeOK, NEW t \in Threads, NEW l \in PC, Goto(t, l) \/ UNCHANGED pc,
           \A u \in Threads \ {t} : /\ depth'[u] = depth[u]
                                    /\ \A f \in Frames : <<u, f>> \in readers' <=> <<u, f>> \in readers,
           \A u \in Threads : Phase(u)
    PROVE  \A u \in Threads \ {t} : pc'[u] = pc[u] /\ Phase(u)'
<1> SUFFICES ASSUME NEW u \in Threads \ {t}
             PROVE  pc'[u] = pc[u] /\ Phase(u)'
    OBVIOUS
<1>1. pc'[u] = pc[u]
    BY DEF Goto, TypeOK
<1>2. Reads(u)' <=> Reads(u)
    BY DEF Reads
<1>3. (\E f \in Frames : <<u, f>> \notin readers) <=> (\E f \in Frames : <<u, f>> \notin readers')
    OBVIOUS
<1> QED BY <1>1, <1>2, <1>3 DEF Phase

(* The steps that only move a thread.                                      *)
LEMMA MoveInv ==
    ASSUME Inv, NEW t \in Threads,
           Call(t) \/ WriteCheck(t) \/ ReadCheck(t) \/ ReadLoad(t) \/ ReadRetry(t) \/ TimeOut(t)
    PROVE  Inv'
<1> USE DEF Inv
<1>1. UNCHANGED <<flag, writeCount, depth, readers>>
    BY DEF Call, WriteCheck, ReadCheck, ReadLoad, ReadRetry, TimeOut
<1>2. PICK l \in PC : (Goto(t, l) \/ UNCHANGED pc) /\ l \notin {"writeCount", "unlockStore"}
    BY DEF Call, WriteCheck, ReadCheck, ReadLoad, ReadRetry, TimeOut, PC
<1>3. pc[t] \notin {"writeCount", "unlockStore"} /\ pc'[t] \notin {"writeCount", "unlockStore"}
    BY DEF Call, WriteCheck, ReadCheck, ReadLoad, ReadRetry, TimeOut, At, Goto, TypeOK
<1>4. TypeOK' /\ NoMisuse'
    BY <1>1, <1>2 DEF Call, WriteCheck, ReadCheck, ReadLoad, ReadRetry, TimeOut, TypeOK,
       Goto, Crash, Running, NoMisuse
<1>5. OwnerInv' /\ CountInv'
    BY <1>1 DEF OwnerInv, CountInv
<1>6. \A u \in Threads \ {t} : pc'[u] = pc[u] /\ Phase(u)'
    BY <1>1, <1>2, OthersKept
<1>7. WriteCountInv'
    BY <1>1, <1>3, <1>6 DEF WriteCountInv
<1>8. Reads(t)' <=> Reads(t)
    BY <1>1 DEF Reads
<1>9. Phase(t)'
    <2>1. CASE Call(t)
        BY <1>1, <1>8, <2>1 DEF Call, At, Goto, Phase, TypeOK
    <2>2. CASE WriteCheck(t)
        BY <1>1, <1>8, <2>2 DEF WriteCheck, At, Goto, Phase, TypeOK, OwnerInv
    <2>3. CASE ReadCheck(t)
        BY <1>1, <1>8, <2>3 DEF ReadCheck, At, Goto, Phase, TypeOK, OwnerInv
    <2>4. CASE ReadLoad(t) \/ ReadRetry(t)
        BY <1>1, <1>8, <2>4 DEF ReadLoad, ReadRetry, At, Goto, Phase, TypeOK
    <2>5. CASE TimeOut(t)
        BY <1>1, <1>8, <2>5 DEF TimeOut, Phase
    <2> QED BY <2>1, <2>2, <2>3, <2>4, <2>5
<1> QED BY <1>4, <1>5, <1>6, <1>7, <1>9

(* The steps that change the write guards, the owner or their count.       *)
LEMMA WriteInv ==
    ASSUME Inv, NEW t \in Threads,
           \/ WriteAgain(t) \/ WriteSwap(t) \/ WriteCounted(t)
           \/ UnlockCheck(t) \/ UnlockCount(t) \/ UnlockStore(t)
    PROVE  Inv'
<1> USE DEF Inv
<1>1. t # NoThread /\ t \in Nat /\ flag.w \in Threads \cup {NoThread}
    BY ThreadsAssumption DEF NoThread, TypeOK
<1>2. Phase(t) /\ depth[t] \in 0..MaxDepth
    BY DEF TypeOK
<1>3. (Reads(t)' <=> Reads(t)) /\ UNCHANGED <<readers, seen>>
    BY DEF WriteAgain, WriteSwap, WriteCounted, UnlockCheck, UnlockCount, UnlockStore, Reads
<1>4. flag.w = t /\ ~Reads(t) => readers = {}
    <2> SUFFICES ASSUME flag.w = t, ~Reads(t), NEW p \in readers
                 PROVE  FALSE
        OBVIOUS
    <2>1. PICK u \in Threads, f \in Frames : p = <<u, f>>
        BY DEF TypeOK
    <2> QED BY <1>1, <2>1 DEF OwnerInv, Reads
<1>5. CASE WriteAgain(t)
    <2>1. /\ writeCount = depth[t] /\ depth[t] > 0 /\ depth[t] < MaxDepth /\ flag.w = t
          /\ pc[t] = "writeAgain" /\ ~Reads(t)
        BY <1>2, <1>5 DEF WriteAgain, At, Phase, OwnerInv, WriteCountInv
    <2>2. depth'[t] = depth[t] + 1 /\ writeCount' = writeCount + 1 /\ pc'[t] = "user" /\ flag' = flag
        BY <1>5 DEF WriteAgain, Goto, TypeOK
    <2>3. \A u \in Threads \ {t} : depth'[u] = depth[u]
        BY <1>5 DEF WriteAgain, TypeOK
    <2>4. \A u \in Threads \ {t} : pc'[u] = pc[u] /\ Phase(u)'
        BY <1>3, <1>5, <2>3, OthersKept DEF WriteAgain, PC
    <2>5. TypeOK' /\ NoMisuse'
        <3>1. writeCount' \in 0..MaxDepth /\ depth'[t] \in 0..MaxDepth
            BY <1>2, <2>1, <2>2, DepthAssumption
        <3>2. depth' \in [Threads -> 0..MaxDepth]
            BY <1>5, <3>1 DEF WriteAgain, TypeOK
        <3> QED BY <1>5, <3>1, <3>2 DEF WriteAgain, Goto, TypeOK, PC, NoMisuse
    <2>6. OwnerInv' /\ CountInv'
        BY <1>2, <1>3, <2>1, <2>2, <2>3 DEF OwnerInv, CountInv
    <2>7. WriteCountInv'
        BY <1>1, <2>1, <2>2, <2>3, <2>4 DEF WriteCountInv
    <2>8. Phase(t)'
        BY <2>2 DEF Phase
    <2> QED BY <2>4, <2>5, <2>6, <2>7, <2>8
<1>6. CASE WriteSwap(t)
    <2>1. /\ flag.w = NoThread /\ flag.r = 0 /\ writeCount = 0 /\ pc[t] = "writeSpin"
          /\ depth[t] = 0 /\ 0 < MaxDepth /\ ~Reads(t)
        BY <1>2, <1>6 DEF WriteSwap, At, EMPTY_FLAG, Phase, WriteCountInv
    <2>2. readers = {} /\ \A u \in Threads : depth[u] = 0
        BY <2>1, NoReaders, ThreadsAssumption DEF OwnerInv, TypeOK, NoThread
    <2>3. depth'[t] = 1 /\ writeCount' = 0 /\ pc'[t] = "writeCount" /\ flag' = [w |-> t, r |-> 0]
        BY <1>6, <2>1 DEF WriteSwap, Goto, TypeOK
    <2>4. \A u \in Threads \ {t} : depth'[u] = depth[u]
        BY <1>6 DEF WriteSwap, TypeOK
    <2>5. \A u \in Threads \ {t} : pc'[u] = pc[u] /\ Phase(u)'
        BY <1>3, <1>6, <2>4, OthersKept DEF WriteSwap, PC
    <2>6. TypeOK' /\ NoMisuse'
        <3>1. depth' \in [Threads -> 0..MaxDepth]
            BY <1>6, <2>1, <2>3, DepthAssumption DEF WriteSwap, TypeOK
        <3>2. flag' \in [w : Threads \cup {NoThread}, r : 0..READ_COUNT_MASK]
            BY <2>3, MaskAssumption
        <3> QED BY <1>6, <3>1, <3>2 DEF WriteSwap, Goto, TypeOK, PC, NoMisuse
    <2>7. OwnerInv' /\ CountInv'
        BY <1>3, <2>1, <2>2, <2>3, <2>4 DEF OwnerInv, CountInv
    <2>8. WriteCountInv'
        BY <1>1, <2>2, <2>3, <2>4 DEF WriteCountInv
    <2>9. Phase(t)'
        BY <1>3, <2>1, <2>3 DEF Phase
    <2> QED BY <2>5, <2>6, <2>7, <2>8, <2>9
<1>7. CASE WriteCounted(t)
    <2>1. depth[t] = 1 /\ flag.w = t /\ writeCount = 0 /\ 1 <= MaxDepth
        BY <1>2, <1>7, DepthAssumption DEF WriteCounted, At, Phase, OwnerInv, WriteCountInv
    <2>2. writeCount' = 1 /\ pc'[t] = "user" /\ UNCHANGED <<flag, depth, readers>>
        BY <1>7, <2>1 DEF WriteCounted, Goto, TypeOK
    <2>3. \A u \in Threads \ {t} : pc'[u] = pc[u] /\ Phase(u)'
        BY <1>7, OthersKept DEF WriteCounted, PC
    <2>4. TypeOK' /\ NoMisuse'
        BY <1>7, <2>1, <2>2 DEF WriteCounted, Goto, TypeOK, PC, NoMisuse
    <2>5. OwnerInv' /\ CountInv' /\ WriteCountInv'
        BY <1>1, <2>1, <2>2, <2>3 DEF OwnerInv, CountInv, WriteCountInv
    <2>6. Phase(t)'
        BY <2>2 DEF Phase
    <2> QED BY <2>3, <2>4, <2>5, <2>6
<1>8. CASE UnlockCheck(t)
    <2>1. pc[t] = "unlock" /\ ~Reads(t) /\ depth[t] > 0 /\ flag.w = t /\ flag.r = 0
        BY <1>2, <1>4, <1>8, NoReaders DEF UnlockCheck, At, Phase, OwnerInv
    <2>2. pc'[t] = "unlockCount" /\ UNCHANGED <<flag, writeCount, crashed, depth, readers>>
        BY <1>8, <2>1 DEF UnlockCheck, Goto, TypeOK
    <2>3. \A u \in Threads \ {t} : pc'[u] = pc[u] /\ Phase(u)'
        BY <1>8, <2>1, OthersKept DEF UnlockCheck, PC
    <2>4. TypeOK' /\ NoMisuse'
        BY <1>8, <2>1, <2>2 DEF UnlockCheck, Goto, TypeOK, PC, NoMisuse
    <2>5. OwnerInv' /\ CountInv' /\ WriteCountInv'
        BY <2>1, <2>2, <2>3 DEF OwnerInv, CountInv, WriteCountInv
    <2>6. Phase(t)'
        BY <1>3, <2>1, <2>2 DEF Phase
    <2> QED BY <2>3, <2>4, <2>5, <2>6
<1>9. CASE UnlockCount(t)
    <2>1. pc[t] = "unlockCount" /\ ~Reads(t) /\ depth[t] > 0 /\ flag.w = t /\ writeCount = depth[t]
        BY <1>2, <1>9 DEF UnlockCount, At, Phase, OwnerInv, WriteCountInv
    <2>2. /\ writeCount' = depth[t] - 1
          /\ pc'[t] = IF writeCount' = 0 THEN "unlockStore" ELSE "user"
          /\ depth'[t] = IF writeCount' = 0 THEN depth[t] ELSE depth[t] - 1
          /\ UNCHANGED <<flag, crashed, readers>>
        BY <1>9, <2>1 DEF UnlockCount, Goto, TypeOK
    <2>3. \A u \in Threads \ {t} : depth'[u] = depth[u]
        BY <1>9 DEF UnlockCount, TypeOK
    <2>4. \A u \in Threads \ {t} : pc'[u] = pc[u] /\ Phase(u)'
        BY <1>3, <1>9, <2>3, OthersKept DEF UnlockCount, PC
    <2>5. TypeOK' /\ NoMisuse'
        <3>1. writeCount' \in 0..MaxDepth /\ depth'[t] \in 0..MaxDepth
            BY <1>2, <2>1, <2>2, DepthAssumption
        <3>2. depth' \in [Threads -> 0..MaxDepth]
            BY <1>9, <3>1 DEF UnlockCount, TypeOK
        <3> QED BY <1>9, <3>1, <3>2 DEF UnlockCount, Goto, TypeOK, PC, NoMisuse
    <2>6. OwnerInv' /\ CountInv'
        BY <1>2, <2>1, <2>2, <2>3 DEF OwnerInv, CountInv
    <2>7. WriteCountInv'
        BY <1>1, <1>2, <2>1, <2>2, <2>3, <2>4 DEF WriteCountInv
    <2>8. Phase(t)'
        BY <1>2, <1>3, <2>1, <2>2 DEF Phase
    <2> QED BY <2>4, <2>5, <2>6, <2>7, <2>8
<1>10. CASE UnlockStore(t)
    <2>1. pc[t] = "unlockStore" /\ ~Reads(t) /\ depth[t] = 1 /\ flag.w = t /\ writeCount = 0
        BY <1>2, <1>10 DEF UnlockStore, At, Phase, OwnerInv, WriteCountInv
    <2>2. readers = {} /\ flag.r = 0
        BY <1>4, <2>1, NoReaders
    <2>3. depth'[t] = 0 /\ pc'[t] = "user" /\ flag' = EMPTY_FLAG /\ UNCHANGED <<writeCount, crashed>>
        BY <1>10, <2>1 DEF UnlockStore, Goto, TypeOK
    <2>4. \A u \in Threads \ {t} : depth'[u] = depth[u]
        BY <1>10 DEF UnlockStore, TypeOK
    <2>5. \A u \in Threads \ {t} : pc'[u] = pc[u] /\ Phase(u)'
        BY <1>3, <1>10, <2>4, OthersKept DEF UnlockStore, PC
    <2>6. TypeOK' /\ NoMisuse'
        BY <1>10, <2>1, MaskAssumption, DepthAssumption DEF UnlockStore, Goto, TypeOK, PC,
           NoMisuse, EMPTY_FLAG
    <2>7. OwnerInv'
        <3>1. \A u \in Threads : depth'[u] = 0
            BY <1>1, <2>1, <2>3, <2>4 DEF OwnerInv, TypeOK
        <3> QED BY <1>3, <2>2, <2>3, <3>1, ThreadsAssumption DEF OwnerInv, EMPTY_FLAG, NoThread
    <2>8. CountInv' /\ WriteCountInv'
        BY <1>3, <2>1, <2>2, <2>3, ThreadsAssumption DEF CountInv, WriteCountInv, EMPTY_FLAG, NoThread
    <2>9. Phase(t)'
        BY <2>3 DEF Phase
    <2> QED BY <2>5, <2>6, <2>7, <2>8, <2>9
<1> QED BY <1>5, <1>6, <1>7, <1>8, <1>9, <1>10

(* The steps that add or remove a read guard.                              *)
LEMMA ReadInv ==
    ASSUME Inv, NEW t \in Threads, ReadAgain(t) \/ ReadSwap(t) \/ ReadUnlock(t)
    PROVE  Inv'
<1> USE DEF Inv
<1>1. t # NoThread
    BY ThreadsAssumption DEF NoThread
<1>2. CASE ReadAgain(t) \/ ReadSwap(t)
    <2>1. PICK f \in Frames : <<t, f>> \notin readers /\ readers' = readers \cup {<<t, f>>}
        BY <1>2 DEF ReadAgain, ReadSwap, ReadEntered
    <2>2. flag' = [w |-> flag.w, r |-> flag.r + 1] /\ CountInv' /\ flag.r + 1 \in 0..READ_COUNT_MASK
        BY <1>2, <2>1, CountUp DEF ReadAgain, ReadSwap, ReadEntered, CountInv
    <2>3. flag.w \in {NoThread, t}
        BY <1>2 DEF ReadAgain, ReadSwap, At, Phase, OwnerInv
    <2>4. pc'[t] = "user" /\ UNCHANGED <<writeCount, seen, crashed, depth>>
        BY <1>2 DEF ReadAgain, ReadSwap, ReadEntered, Goto, TypeOK
    <2>5. \A u \in Threads \ {t} : pc'[u] = pc[u] /\ Phase(u)'
        BY <1>2, <2>1, <2>4, OthersKept DEF ReadAgain, ReadSwap, ReadEntered, PC
    <2>6. TypeOK' /\ NoMisuse'
        BY <1>2, <2>1, <2>2, <2>4 DEF ReadAgain, ReadSwap, ReadEntered, Goto, TypeOK, PC, NoMisuse
    <2>7. OwnerInv'
        BY <2>1, <2>2, <2>3, <2>4 DEF OwnerInv
    <2>8. pc[t] \notin {"writeCount", "unlockStore"}
        BY <1>2 DEF ReadAgain, ReadSwap, At
    <2>9. WriteCountInv'
        BY <2>2, <2>4, <2>5, <2>8 DEF WriteCountInv
    <2>10. Phase(t)'
        BY <2>4 DEF Phase
    <2> QED BY <2>2, <2>5, <2>6, <2>7, <2>9, <2>10
<1>3. CASE ReadUnlock(t)
    <2>1. PICK f \in Frames : <<t, f>> \in readers /\ readers' = readers \ {<<t, f>>}
        BY <1>3 DEF ReadUnlock
    <2>2. /\ flag.r > 0 /\ flag' = [w |-> flag.w, r |-> flag.r - 1] /\ CountInv'
          /\ flag.r - 1 \in 0..READ_COUNT_MASK
        BY <1>3, <2>1, CountDown DEF ReadUnlock, CountInv
    <2>3. pc'[t] = "user" /\ UNCHANGED <<writeCount, seen, crashed, depth>>
        BY <1>3, <2>2 DEF ReadUnlock, Goto, TypeOK
    <2>4. \A u \in Threads \ {t} : pc'[u] = pc[u] /\ Phase(u)'
        BY <1>3, <2>1, <2>2, <2>3, OthersKept DEF ReadUnlock, PC
    <2>5. TypeOK' /\ NoMisuse'
        BY <1>3, <2>1, <2>2, <2>3 DEF ReadUnlock, Goto, TypeOK, PC, NoMisuse
    <2>6. OwnerInv'
        BY <2>1, <2>2, <2>3 DEF OwnerInv
    <2>7. WriteCountInv'
        BY <1>3, <2>2, <2>3, <2>4 DEF WriteCountInv, ReadUnlock, At
    <2>8. Phase(t)'
        BY <2>3 DEF Phase
    <2> QED BY <2>2, <2>4, <2>5, <2>6, <2>7, <2>8
<1> QED BY <1>2, <1>3

LEMMA InvStep == Inv /\ [Next]_vars => Inv'
<1> SUFFICES ASSUME Inv, [Next]_vars PROVE Inv'
    OBVIOUS
<1>1. CASE UNCHANGED vars
    BY <1>1 DEF vars, Inv, TypeOK, OwnerInv, CountInv, WriteCountInv, NoMisuse, Phase, Reads
<1> QED BY <1>1, MoveInv, WriteInv, ReadInv DEF Next, WriteStep, ReadStep

LEMMA InvHolds == Spec => []Inv
BY InvInit, InvStep, PTL DEF Spec

(* Type correctness of the lock: in particular the count of readers never  *)
(* carries into the owner's half.                                          *)
THEOREM LockTypeCorrect == Spec => []TypeOK
<1>1. Inv => TypeOK
    BY DEF Inv
<1> QED BY <1>1, InvHolds, PTL

(* A writer is alone.                                                      *)
THEOREM WriterIsAlone == Spec => []Exclusion
<1>1. Inv => Exclusion
    BY ThreadsAssumption DEF Inv, Exclusion, Owned, OwnerInv, Reads, NoThread
<1> QED BY <1>1, InvHolds, PTL

(* The flag describes the guards in force.                                 *)
THEOREM FlagTellsTruth == Spec => []FlagAgrees
<1>1. Inv => FlagAgrees
    BY DEF Inv, FlagAgrees, Owned, OwnerInv, CountInv
<1> QED BY <1>1, InvHolds, PTL

(* Users that keep to the rule of Lock.h are never blamed.                 *)
THEOREM DisciplineIsEnough == Spec => []NoMisuse
<1>1. Inv => NoMisuse
    BY DEF Inv
<1> QED BY <1>1, InvHolds, PTL

-----------------------------------------------------------------------------
(* No other thread has a write guard, or a guard at all, when t enters.    *)
LEMMA EntryIsAllowed ==
    ASSUME Inv, NEW t \in Threads
    PROVE  /\ flag.w \in {NoThread, t} => \A u \in Threads \ {t} : depth[u] = 0
           /\ flag.w = t \/ flag.r = 0 => \A u \in Threads \ {t} : ~Reads(u)
<1>1. ASSUME flag.w \in {NoThread, t}, NEW u \in Threads \ {t}
      PROVE  depth[u] = 0
    BY <1>1, ThreadsAssumption DEF Inv, OwnerInv, TypeOK, NoThread
<1>2. ASSUME flag.w = t \/ flag.r = 0, NEW u \in Threads \ {t}
      PROVE  ~Reads(u)
    <2>1. CASE flag.w = t
        BY <2>1, ThreadsAssumption DEF Inv, OwnerInv, Reads, NoThread
    <2>2. CASE flag.r = 0
        BY <2>2, NoReaders DEF Inv, Reads
    <2> QED BY <1>2, <2>1, <2>2
<1> QED BY <1>1, <1>2

LEMMA StepIsShared == Inv /\ [Next]_vars => [Shared!SharedNext]_(Shared!sharedVars)
<1> SUFFICES ASSUME Inv, [Next]_vars PROVE [Shared!SharedNext]_(Shared!sharedVars)
    OBVIOUS
<1> USE DEF Shared!SharedNext, Shared!sharedVars
<1>1. CASE UNCHANGED <<depth, readers>>
    BY <1>1
<1>2. ASSUME NEW t \in Threads, WriteAgain(t) \/ WriteSwap(t)
      PROVE  Shared!AcquireWrite(t)
    <2>1. (flag.w = t \/ flag = EMPTY_FLAG) /\ ~Reads(t)
        BY <1>2 DEF WriteAgain, WriteSwap, At, Inv, Phase, OwnerInv
    <2>2. \A u \in Threads \ {t} : depth[u] = 0 /\ ~Reads(u)
        BY <2>1, EntryIsAllowed DEF EMPTY_FLAG
    <2> QED BY <1>2, <2>1, <2>2 DEF WriteAgain, WriteSwap, Shared!AcquireWrite,
           Shared!Reads, Reads
<1>3. ASSUME NEW t \in Threads, UnlockCount(t) \/ UnlockStore(t)
      PROVE  Shared!ReleaseWrite(t) \/ UNCHANGED <<depth, readers>>
    BY <1>3 DEF UnlockCount, UnlockStore, At, Inv, Phase, Shared!ReleaseWrite
<1>4. ASSUME NEW t \in Threads, ReadAgain(t) \/ ReadSwap(t)
      PROVE  \E f \in Frames : Shared!AcquireRead(t, f)
    <2>1. flag.w \in {NoThread, t}
        BY <1>4 DEF ReadAgain, ReadSwap, At, Inv, Phase, OwnerInv
    <2> QED BY <1>4, <2>1, EntryIsAllowed DEF ReadAgain, ReadSwap, ReadEntered,
           Shared!AcquireRead
<1>5. ASSUME NEW t \in Threads, ReadUnlock(t)
      PROVE  \E f \in Frames : Shared!ReleaseRead(t, f)
    BY <1>5 DEF ReadUnlock, Shared!ReleaseRead
<1> QED BY <1>1, <1>2, <1>3, <1>4, <1>5 DEF Next, WriteStep, ReadStep, Call, WriteCheck,
       WriteCounted, UnlockCheck, ReadCheck, ReadLoad, ReadRetry, TimeOut, vars

(* Every behaviour of the spin lock is a behaviour of the lock that Lock.h *)
(* promises, with the guards coming into force at the exchange that wins   *)
(* and going out of force at the store that clears the flag.               *)
THEOREM LockRefines == Spec => ImplementsShared
<1>1. Init => Shared!SharedInit
    BY DEF Init, Shared!SharedInit
<1> QED BY <1>1, StepIsShared, InvHolds, PTL DEF Spec, ImplementsShared, Shared!SharedSpec

=============================================================================
