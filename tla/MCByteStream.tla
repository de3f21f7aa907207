---------------------------- MODULE MCByteStream ----------------------------
(* ByteStream on a ring of three slots, with two byte values. *)
EXTENDS ByteStream, TLC

CONSTANTS b0, b1

MCByte == {b0, b1}
=============================================================================
