--------------------------- MODULE MCFunctionRef ---------------------------
(* FunctionRef and its clients for TLC.                                     *)
EXTENDS FunctionRefClients
=============================================================================
