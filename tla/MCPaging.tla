------------------------------ MODULE MCPaging ------------------------------
(* Three rows with two instants for them, and a page for each row.            *)
EXTENDS Paging
=============================================================================
