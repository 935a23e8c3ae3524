---------------------------- MODULE MCRecvBuffer ----------------------------
(* RecvBuffer for TLC: a buffer of seven bytes, allocated three times.     *)
EXTENDS RecvBuffer

(* A size shorter than a header, an empty packet, two others, the longest. *)
SomeSizes == {1, 2, 3, 5, 7}
=============================================================================
