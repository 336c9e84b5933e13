------------------------------- MODULE MCPages -------------------------------
(* Pages on small instances.                                               *)
EXTENDS Pages
=============================================================================
