------------------------------- MODULE MCStream -------------------------------
(* One run with a few events, one browser.                                    *)
EXTENDS Stream
==============================================================================
