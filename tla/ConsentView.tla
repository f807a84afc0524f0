---------------------------- MODULE ConsentView ----------------------------
(***************************************************************************)
(* What the other parts of the agent see of the consent manager: whether   *)
(* the status last installed enables maintenance, and whether its window   *)
(* is still open.  A status that enables is installed with its window      *)
(* open; the clock then closes the window, and the status stays.           *)
(***************************************************************************)
VARIABLES
  enabled,   \* ConsentManager._status.enabled
  inWindow   \* now < its expires_at

consentView == <<enabled, inWindow>>

\* ConsentManager.is_active()
IsActive == enabled /\ inWindow

ViewInit == enabled = FALSE /\ inWindow = FALSE

\* refresh() installs a status, the agent starts with one that disables
Install(on) == enabled' = on /\ inWindow' = on

WindowCloses ==
  /\ inWindow
  /\ inWindow' = FALSE
  /\ UNCHANGED enabled

ViewNext == (\E on \in BOOLEAN : Install(on)) \/ WindowCloses

ViewSpec == ViewInit /\ [][ViewNext]_consentView

=============================================================================
