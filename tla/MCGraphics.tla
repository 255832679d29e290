----------------------------- MODULE MCGraphics -----------------------------
(* A small instance of Graphics: one device of each kind, the plugin's     *)
(* main thread, two flushes.                                               *)
EXTENDS Graphics
=============================================================================
