------------------------------ MODULE MCDbFile ------------------------------
(* A file of up to four pages. *)
EXTENDS DbFile
=============================================================================
