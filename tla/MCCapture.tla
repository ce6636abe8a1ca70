------------------------------ MODULE MCCapture ------------------------------
(* Small terminals for TerminalCapture. *)
EXTENDS TerminalCapture

OneWord == <<"v">>
=============================================================================
