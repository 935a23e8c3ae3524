-------------------------- MODULE MCUdpLobbyHistory -------------------------
(* UdpLobbyHistory for TLC: clients whose packets may be duplicated and    *)
(* reordered, and whose sequence counter may start again.                  *)
EXTENDS UdpLobbyHistory, Bitwise, TLC

XorKey(a) == a[1] ^^ a[2]

ClashAddr == {<<1, 2>>, <<2, 1>>}   \* both have key 3
XorKeys   == {3}
AnyWorker == Permutations(Workers)
=============================================================================
