--------------------------- MODULE MCRfcommClient ---------------------------
(* RfcommClient with five requests over three links: a read that waits behind
   two abandoned ones, two reconnects and a read after each. *)
EXTENDS RfcommClient
=============================================================================
