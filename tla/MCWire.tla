------------------------------- MODULE MCWire -------------------------------
(* Wire with a header of two bytes and reads of three: a frame of two or    *)
(* three bytes arrives in one read or in several, and a read may hold the  *)
(* end of one and the beginning of the next.  Sizes wrap around at eight.  *)
(* The socket buffer is smaller than two packets.                          *)
EXTENDS Wire

CONSTANTS w1, w2

MCWorkers == {w1, w2}
MCBodies == {0, 1}
MCAnswerBodies == {1}
MCStrayBodies == {1, 7}
=============================================================================
