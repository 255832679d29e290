--------------------------- MODULE MCBrowserCalls ---------------------------
(* Instances of BrowserCalls with the two loops as model values. *)
EXTENDS BrowserCalls

CONSTANTS plugin, browser

MCLoops == {plugin, browser}
=============================================================================
