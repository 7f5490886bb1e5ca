--------------------------- MODULE MCSlottedPage ---------------------------
(* A page of a few bytes, with records of one and two bytes. *)
EXTENDS SlottedPage
=============================================================================
