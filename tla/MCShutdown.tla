----------------------------- MODULE MCShutdown -----------------------------
(***************************************************************************)
(* Two of the four signals that end clockd, which its handler treats alike. *)
(***************************************************************************)
EXTENDS Shutdown

CONSTANTS hup, term, usr1
=============================================================================
