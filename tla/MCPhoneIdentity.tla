-------------------------- MODULE MCPhoneIdentity ---------------------------
(* PhoneIdentity on small instances. *)
EXTENDS PhoneIdentity
=============================================================================
