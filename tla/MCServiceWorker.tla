--------------------------- MODULE MCServiceWorker ---------------------------
(* Four versions: one can be installed while another takes over, and be
   followed by a next. *)
EXTENDS ServiceWorker, TLC

Perms == Permutations(Page)
=============================================================================
