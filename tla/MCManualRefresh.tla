-------------------------- MODULE MCManualRefresh --------------------------
(* Model checking of ManualRefresh. *)
EXTENDS ManualRefresh
=============================================================================
