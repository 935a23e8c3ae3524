----------------------------- MODULE RecvBuffer -----------------------------
(***************************************************************************)
(* The receiving side of one TCP session: the cursors of RecvBuffer, the   *)
(* loop of PacketSession::OnRecv that cuts the byte stream into packets,   *)
(* and Session::ProcessRecv around them.  One receive is under way at a    *)
(* time, so all of it is sequential; what varies is how the stream is cut  *)
(* into receives.  Bytes are counted, not stored.                          *)
(***************************************************************************)
EXTENDS Integers

CONSTANTS BUFFER_SIZE,  \* of a session
          BUFFER_COUNT, \* that many of them are allocated
          HeaderSize,   \* sizeof(PacketHeader)
          PacketSizes   \* what peers write into the size of a header

(* The code: 0x10000, 10, 4, and a uint16.                                 *)
ASSUME BufferAssumption ==
    BUFFER_SIZE \in Nat \ {0} /\ BUFFER_COUNT \in Nat /\ BUFFER_COUNT >= 3
ASSUME PacketAssumption ==
    HeaderSize \in 1..BUFFER_SIZE /\ PacketSizes \subseteq 0..BUFFER_SIZE

VARIABLES readPos, writePos, \* the cursors
          processLen,        \* bytes OnRecv has cut into packets
          size,              \* in the header of the packet after those
          pc                 \* where the session is

vars == <<readPos, writePos, processLen, size, pc>>

Capacity == BUFFER_SIZE * BUFFER_COUNT
DataSize == writePos - readPos
FreeSize == Capacity - writePos

Init ==
    /\ readPos = 0 /\ writePos = 0 /\ processLen = 0
    /\ size \in PacketSizes
    /\ pc = "posted"

(* A receive completes with up to the FreeSize bytes it was posted for,    *)
(* and OnWrite accepts them.                                               *)
OnWrite(n) ==
    /\ pc = "posted" /\ n <= FreeSize
    /\ writePos' = writePos + n
    /\ pc' = "parse"
    /\ UNCHANGED <<readPos, processLen, size>>

(* The other end closed the connection, or there was no room to receive.   *)
Close ==
    /\ pc = "posted"
    /\ pc' = "closed"
    /\ UNCHANGED <<readPos, writePos, processLen, size>>

(* Faulty variant of Complete: the size is not compared.                   *)
HeaderComplete == DataSize - processLen >= HeaderSize

(* A whole packet is there.                                                *)
Complete == DataSize - processLen >= HeaderSize /\ DataSize - processLen >= size

(* Faulty variant of Assemble: only the payload is passed over.            *)
AssemblePayload ==
    /\ pc = "parse" /\ Complete
    /\ LET payload == IF size > HeaderSize THEN size - HeaderSize ELSE 0
       IN  /\ processLen' = processLen + payload
           /\ size' \in IF payload = 0 THEN {size} ELSE PacketSizes
    /\ UNCHANGED <<readPos, writePos, pc>>

(* One round of OnRecv.  After a header of size 0 the same header is read  *)
(* again, and for ever.                                                    *)
Assemble ==
    /\ pc = "parse" /\ Complete
    /\ processLen' = processLen + size
    /\ size' \in IF size = 0 THEN {0} ELSE PacketSizes
    /\ UNCHANGED <<readPos, writePos, pc>>

(* OnRecv returns; OnRead refuses more than there is.                      *)
OnRead ==
    /\ pc = "parse" /\ ~Complete
    /\ processLen' = 0
    /\ IF processLen <= DataSize THEN readPos' = readPos + processLen /\ pc' = "clean"
                                 ELSE pc' = "closed" /\ UNCHANGED readPos
    /\ UNCHANGED <<writePos, size>>

(* The unread bytes are copied to the front.                               *)
Move == readPos' = 0 /\ writePos' = DataSize

(* Faulty variants of Crowded: nothing is free; never mind.                *)
Full   == FreeSize = 0
Anyway == TRUE

Crowded == FreeSize < BUFFER_SIZE

(* Clean, and the next receive is posted.                                  *)
Clean ==
    /\ pc = "clean"
    /\ \/ (DataSize = 0 \/ Crowded) /\ Move
       \/ DataSize # 0 /\ ~Crowded /\ UNCHANGED <<readPos, writePos>>
    /\ pc' = "posted"
    /\ UNCHANGED <<processLen, size>>

Inside == Assemble \/ OnRead \/ Clean
Next   == (\E n \in 1..Capacity : OnWrite(n)) \/ Close \/ Inside
Spec   == Init /\ [][Next]_vars

(* The thread in ProcessRecv keeps running; nothing need ever arrive.      *)
FairSpec == Spec /\ WF_vars(Inside)
-----------------------------------------------------------------------------
(* The cursors stay in the buffer and in order, and OnRecv never claims    *)
(* more than it was given (ReadPos and WritePos index _buffer unchecked).  *)
TypeOK ==
    /\ readPos \in 0..Capacity /\ writePos \in readPos..Capacity
    /\ processLen \in 0..DataSize
    /\ size \in PacketSizes
    /\ pc \in {"posted", "parse", "clean", "closed"}

(* A receive is posted with room for a buffer's worth of bytes, whatever   *)
(* is left of an unfinished packet: with no room WSARecv would complete    *)
(* with 0 bytes, and ProcessRecv would take that for the end.              *)
RoomToReceive == pc = "posted" => FreeSize >= BUFFER_SIZE

(* Clean uses memcpy, which must not be given overlapping memory: unread   *)
(* bytes are moved only when the space before them can take them all.      *)
CopyIsDisjoint ==
    [][pc = "clean" /\ writePos' \notin {0, writePos} => readPos >= writePos']_vars

(* No whole packet waits in the buffer while the session waits for bytes:  *)
(* the peer may be waiting for the answer to that packet.                  *)
NothingHeldBack == pc = "posted" => ~Complete

(* The session gets back to waiting for bytes, however packets and         *)
(* receives are cut.  (Headers carry their packet's whole size,            *)
(* Session.h:110: one of size 0 would be read for ever.)                   *)
ReceivesAgain == []<>(pc \in {"posted", "closed"})
=============================================================================
