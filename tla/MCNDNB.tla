------------------------------- MODULE MCNDNB -------------------------------
(***************************************************************************)
(* Model of the NDNB encoder for TLC.  The dtags and lengths straddle the *)
(* header sizes: values below 16 take one header byte, 16..2047 two, 2048 *)
(* three (with a zero continuation byte).  The 16-byte blob needs a two   *)
(* byte BLOB header.  Of the nanoseconds, 244140 is just under one tick,  *)
(* 999877930 is the first value whose fraction rounds up to 4096.  Second *)
(* 16 has a seconds byte and carries into it; second 15 cannot carry      *)
(* (MCNDNBTime).                                                          *)
(***************************************************************************)
EXTENDS NDNB

Blob16 == [i \in 1..16 |-> 7]
MCBlobs == {<<>>, <<0>>, Blob16}
MCNames == {<<>>, <<<<>>, <<0>> >>}
=============================================================================
