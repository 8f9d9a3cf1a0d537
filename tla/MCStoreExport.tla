--------------------------- MODULE MCStoreExport ---------------------------
(* Model checking of StoreExport: the constants are small naturals. *)
EXTENDS StoreExport
=============================================================================
