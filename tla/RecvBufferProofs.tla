-------------------------- MODULE RecvBufferProofs --------------------------
(* Theorems about RecvBuffer, for every size of buffer and of packet.      *)
EXTENDS RecvBuffer, TLAPS

(* Outside OnRecv nothing is half cut, and between OnRecv and the next     *)
(* receive what is left is shorter than a buffer: a part of one packet.    *)
Leftover ==
    pc \in {"posted", "clean"} => processLen = 0 /\ ~Complete /\ DataSize < BUFFER_SIZE

Inv == TypeOK /\ Leftover /\ RoomToReceive

LEMMA CapacityBound ==
    BUFFER_SIZE \in Nat /\ Capacity \in Nat /\ Capacity >= 3 * BUFFER_SIZE
<1>1. BUFFER_SIZE * BUFFER_COUNT >= BUFFER_SIZE * 3
    BY BufferAssumption
<1> QED BY <1>1, BufferAssumption DEF Capacity

(* What is left of a packet that is not complete fits into one buffer.     *)
LEMMA PartIsSmall ==
    ASSUME TypeOK, ~Complete
    PROVE  DataSize - processLen < BUFFER_SIZE
BY CapacityBound, PacketAssumption DEF TypeOK, Complete, DataSize

LEMMA InvInit == Init => Inv
BY CapacityBound, BufferAssumption, PacketAssumption
   DEF Init, Inv, TypeOK, Leftover, RoomToReceive, Complete, DataSize, FreeSize

(* When Clean moves unread bytes, less than a buffer is free behind them   *)
(* and they are less than a buffer, so at least a buffer is free before.   *)
LEMMA MovesFar ==
    ASSUME Inv, pc = "clean", FreeSize < BUFFER_SIZE
    PROVE  readPos >= DataSize
BY CapacityBound DEF Inv, TypeOK, Leftover, DataSize, FreeSize

LEMMA InvStep == Inv /\ [Next]_vars => Inv'
<1> SUFFICES ASSUME Inv, [Next]_vars PROVE Inv'
    OBVIOUS
<1> USE CapacityBound DEF Inv, TypeOK, DataSize, FreeSize
<1>1. ASSUME NEW n \in 1..Capacity, OnWrite(n) PROVE Inv'
    BY <1>1 DEF OnWrite, Leftover, RoomToReceive
<1>2. CASE Close
    BY <1>2 DEF Close, Leftover, RoomToReceive
<1>3. CASE Assemble
    BY <1>3, PacketAssumption DEF Assemble, Complete, Leftover, RoomToReceive
<1>4. CASE OnRead
    <2>1. processLen <= DataSize /\ DataSize - processLen < BUFFER_SIZE
        BY <1>4, PartIsSmall DEF OnRead
    <2>2. readPos' = readPos + processLen /\ processLen' = 0 /\ pc' = "clean"
          /\ UNCHANGED <<writePos, size>>
        BY <1>4, <2>1 DEF OnRead
    <2>3. ~Complete'
        BY <1>4, <2>2, PacketAssumption DEF OnRead, Complete
    <2> QED BY <2>1, <2>2, <2>3 DEF Leftover, RoomToReceive
<1>5. CASE Clean
    <2>1. processLen = 0 /\ ~Complete /\ DataSize < BUFFER_SIZE
        BY <1>5 DEF Clean, Leftover
    <2>2. DataSize' = DataSize /\ pc' = "posted" /\ UNCHANGED <<processLen, size>>
        BY <1>5 DEF Clean, Crowded, Move
    <2>3. FreeSize' >= BUFFER_SIZE /\ TypeOK'
        BY <1>5, <2>1 DEF Clean, Crowded, Move
    <2>4. Leftover'
        BY <2>1, <2>2 DEF Leftover, Complete
    <2> QED BY <2>2, <2>3, <2>4 DEF RoomToReceive
<1>6. CASE UNCHANGED vars
    BY <1>6 DEF vars, Leftover, RoomToReceive, Complete
<1> QED BY <1>1, <1>2, <1>3, <1>4, <1>5, <1>6 DEF Next, Inside

LEMMA InvHolds == Spec => []Inv
BY InvInit, InvStep, PTL DEF Spec

-----------------------------------------------------------------------------
(* The cursors of RecvBuffer never leave the buffer or pass each other.    *)
THEOREM CursorsStayInside == Spec => []TypeOK
<1>1. Inv => TypeOK
    BY DEF Inv
<1> QED BY <1>1, InvHolds, PTL

(* RegisterRecv always has at least BUFFER_SIZE bytes to offer.            *)
THEOREM AlwaysRoom == Spec => []RoomToReceive
<1>1. Inv => RoomToReceive
    BY DEF Inv
<1> QED BY <1>1, InvHolds, PTL

(* OnRecv leaves no whole packet behind.                                   *)
THEOREM PacketsAreTaken == Spec => []NothingHeldBack
<1>1. Inv => NothingHeldBack
    BY DEF Inv, Leftover, NothingHeldBack
<1> QED BY <1>1, InvHolds, PTL

(* Clean never hands overlapping memory to memcpy.                         *)
THEOREM CopiesAreDisjoint == Spec => CopyIsDisjoint
<1>1. ASSUME Inv, [Next]_vars, pc = "clean", writePos' \notin {0, writePos}
      PROVE  readPos >= writePos'
    <2>1. Clean
        BY <1>1 DEF Next, Inside, OnWrite, Close, Assemble, OnRead, vars
    <2>2. writePos' = DataSize /\ FreeSize < BUFFER_SIZE
        BY <1>1, <2>1 DEF Clean, Crowded, Move
    <2> QED BY <1>1, <2>2, MovesFar
<1>2. Inv /\ [Next]_vars
      => [pc = "clean" /\ writePos' \notin {0, writePos} => readPos >= writePos']_vars
    BY <1>1
<1> QED BY <1>2, InvHolds, PTL DEF Spec, CopyIsDisjoint
=============================================================================
