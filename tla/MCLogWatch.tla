----------------------------- MODULE MCLogWatch -----------------------------
EXTENDS LogWatch

=============================================================================
