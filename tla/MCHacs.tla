------------------------------- MODULE MCHacs -------------------------------
(* Hacs with the confirmed version, the one before it and a newer one.       *)
EXTENDS Hacs

=============================================================================
