------------------------------ MODULE MCReports ------------------------------
EXTENDS Reports
CONSTANTS v1, r1
InOrder == <<"addons", "integrations", "automations", "hacs">>
=============================================================================
