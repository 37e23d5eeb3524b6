--------------------------- MODULE MCRequestCodec ---------------------------
(* Model-checking instance of RequestCodec: the constants are given in the *)
(* cfg files as small integers.                                           *)
EXTENDS RequestCodec
=============================================================================
