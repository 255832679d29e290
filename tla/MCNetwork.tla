------------------------------ MODULE MCNetwork ------------------------------
(* A small instance of Network: a TCP and a UDP socket, which may get the  *)
(* same descriptor one after the other, and a resolver.                    *)
EXTENDS Network
=============================================================================
