---------------------------- MODULE MCStandalone ----------------------------
(* Values of the constants for the run of Standalone. *)
EXTENDS Standalone

MCNotionPages == {1, 2, 3}
==============================================================================
