---------------------------- MODULE MCDirectChat ----------------------------
(* DirectChat on small instances. *)
EXTENDS DirectChat
=============================================================================
