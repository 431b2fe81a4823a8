------------------------------ MODULE MCBrowser ------------------------------
(* A browser of two tabs for TLC. *)
EXTENDS BrowserProperties
=============================================================================
