----------------------------- MODULE MCUdpLobby -----------------------------
(* Instances of UdpLobby for TLC.  An address is a pair <<ip, port>> of    *)
(* small numbers, hashed as SockAddrKey hashes sin_addr and sin_port.      *)
EXTENDS UdpLobby, Bitwise, TLC

XorKey(a) == a[1] ^^ a[2]

ClearAddr == {<<1, 2>>, <<1, 3>>}   \* keys 3 and 2
ClashAddr == {<<1, 2>>, <<2, 1>>}   \* both have key 3
XorKeys   == {3, 2}

AnyWorker == Permutations(Workers)
=============================================================================
