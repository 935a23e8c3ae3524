-------------------------- MODULE UdpLobbyHistory --------------------------
(* UdpLobby with a history variable that the code does not keep: what the  *)
(* duplicate filter let through.                                           *)
EXTENDS UdpLobby

VARIABLE recent \* per session: the sequences handled since the last 0

(* Worker w passed the packet of context s on to HandlePacket.             *)
Accepted(w, s) == pc[w] = "filter" /\ pc'[w] = "handle" /\ wctx[w] = s

HistoryNext ==
    recent' = [s \in Session |->
        IF \E w \in Workers : Accepted(w, s)
        THEN IF recvBuf.seq = 0 THEN {} ELSE recent[s] \cup {recvBuf.seq}
        ELSE recent[s]]

SpecH == /\ Init /\ recent = [s \in Session |-> {}]
         /\ [][Next /\ HistoryNext]_<<vars, recent>>

(* Between two packets with sequence 0 the packets of a session that get   *)
(* through have growing sequences, each handled once, even if the client   *)
(* sends a new HELLO from its old address in between (the filter of        *)
(* OnRecvPacket; a packet with sequence 0 always passes and resets it).    *)
ReplayOnlyAfterZero ==
    [][\A w \in Workers, s \in Session : Accepted(w, s) /\ recvBuf.seq # 0 =>
          \A q \in recent[s] : q < recvBuf.seq]_<<vars, recent>>
=============================================================================
