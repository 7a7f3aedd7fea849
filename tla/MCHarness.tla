------------------------------ MODULE MCHarness ------------------------------
(* Small instances of HarnessSafety; each cfg chooses the requests it admits. *)
EXTENDS HarnessSafety
==============================================================================
