---------------------------- MODULE MCURLLoader -----------------------------
(* A small instance of URLLoader. *)
EXTENDS URLLoader
=============================================================================
