--------------------------- MODULE MCRfcommStream ---------------------------
(* RfcommStream with requests of at most two bytes: a chunk may hold several
   lines, part of a line, or the end of an oversize line. *)
EXTENDS RfcommStream
=============================================================================
