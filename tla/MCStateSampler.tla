--------------------------- MODULE MCStateSampler ---------------------------
(* Model checking of StateSampler. *)
EXTENDS StateSampler
=============================================================================
