----------------------------- MODULE MCLifecycle -----------------------------
(***************************************************************************)
(* Two days, two commits, the code's limit on failed navigations.          *)
(***************************************************************************)
EXTENDS Lifecycle
==============================================================================
