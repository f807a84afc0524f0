------------------------------ MODULE MCConsent ------------------------------
(* Consent on small instances; the configurations choose what may go wrong.  *)
EXTENDS Consent

=============================================================================
