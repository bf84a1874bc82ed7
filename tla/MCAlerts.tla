------------------------------- MODULE MCAlerts -------------------------------
(***************************************************************************)
(* Alerts for TLC: a clerk of the location, which the alert is narrowed    *)
(* to, one terminal, one check and one update of the configuration at a    *)
(* time. The SMTP password changes, by an update that an operator's reset  *)
(* of the configuration or a deactivation may cross, and the reorder point *)
(* is set and cleared.                                                     *)
(***************************************************************************)
EXTENDS Alerts

CONSTANTS clerk, k1, u1, c1, l1

MCUsers == {clerk}
MCChecks == {k1}
MCUpdates == {u1}
MCStreams == {c1}
MCLocations == {l1}

Everyone == [enabled |-> TRUE, adminsOnly |-> FALSE, locationFiltering |-> FALSE]
OfLocation == [Everyone EXCEPT !.locationFiltering = TRUE]

MCDefaultConfig ==
  [enabledChannels |-> {"EMAIL"}, inApp |-> OfLocation, email |-> Everyone, smtp |-> 1]
MCChanges == {[section |-> "smtp", value |-> 2]}
MCReplacements == {MCDefaultConfig}
MCReorderPoints == {0, 1}
=============================================================================
