------------------------------ MODULE MCPPVar -------------------------------
(* A small instance of PPVar: three ids, one object of the browser, one    *)
(* proxy, containers of one element.                                       *)
EXTENDS PPVar
=============================================================================
