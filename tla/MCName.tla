------------------------------- MODULE MCName -------------------------------
(***************************************************************************)
(* Model of Name for TLC.  The numbers are the byte-boundary values of     *)
(* appendNumber (0 is the empty component, 255/256 and 65535/65536 change  *)
(* the length); the raw components include the marker byte 0xFD and the   *)
(* empty string.  The clock shows the microseconds on both sides of        *)
(* 999424 = 4096 * 244, where the 12-bit fraction of appendVersion ends.   *)
(***************************************************************************)
EXTENDS Name

MCNumbers == {0, 1, 255, 256, 65536}
MCRawComps == {<<>>, <<253, 1>>}
MCMicros == {0, 999423, 999424}
=============================================================================
