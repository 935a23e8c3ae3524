---------------------------- MODULE SendChannel -----------------------------
(***************************************************************************)
(* What Session::Send promises its callers: buffers go to the socket in    *)
(* the order in which they were accepted, and none twice.  Not that all of *)
(* them do: a call of WSASend that fails takes the oldest ones with it.    *)
(***************************************************************************)
EXTENDS Integers, Sequences

CONSTANT Buffers \* numbers given to buffers in the order of acceptance

VARIABLES pending, \* accepted and not yet given to the socket
          wire     \* given to the socket

channel == <<pending, wire>>

Newer(b, s) == \A i \in 1..Len(s) : s[i] < b

Accept(b) ==
    /\ Newer(b, wire) /\ Newer(b, pending)
    /\ pending' = Append(pending, b)
    /\ UNCHANGED wire

Transmit ==
    \E n \in 1..Len(pending) :
        /\ wire' = wire \o SubSeq(pending, 1, n)
        /\ pending' = SubSeq(pending, n + 1, Len(pending))

GiveUp ==
    /\ \E n \in 1..Len(pending) : pending' = SubSeq(pending, n + 1, Len(pending))
    /\ UNCHANGED wire

ChannelNext == (\E b \in Buffers : Accept(b)) \/ Transmit \/ GiveUp
ChannelSpec == pending = <<>> /\ wire = <<>> /\ [][ChannelNext]_channel
=============================================================================
