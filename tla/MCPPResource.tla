--------------------------- MODULE MCPPResource ---------------------------
(* A small instance of PPResource: a type acquired while another one is     *)
(* held (ppb_url_loader_open_target acquires the request info with the     *)
(* loader acquired), and threads that race on the same handles.            *)
EXTENDS PPResource

CONSTANTS URL_LOADER, URL_REQUEST_INFO

MCTypes == {URL_LOADER, URL_REQUEST_INFO}
MCNestOrder == {<<URL_LOADER, URL_REQUEST_INFO>>}
=============================================================================
