--------------------------- MODULE MCSerialTransport ---------------------------
(***************************************************************************)
(* SerialTransport with two programs of one byte each, one thread that     *)
(* sends and one that drip-feeds one chunk.                                *)
(***************************************************************************)
EXTENDS SerialTransport
=============================================================================
