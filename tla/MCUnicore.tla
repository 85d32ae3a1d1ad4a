----------------------------- MODULE MCUnicore -----------------------------
(* Instances of Unicore for TLC. *)
EXTENDS Unicore
=============================================================================
