------------------------ MODULE MCMessageLoopClient -------------------------
(* Instances of MessageLoopClient. *)
EXTENDS MessageLoopClient

CONSTANTS loop, browser

MCLoops == {loop}
=============================================================================
