---------------------------- MODULE MCSiteAlerts ----------------------------
(* Small instances of SiteAlerts.                                          *)
EXTENDS SiteAlerts, TLC

CONSTANTS u1, u2, s3

\* Costs around a budget of 2 or 3, one of them negative.
Small == {-1, 1, 3}
TwoBudgets == {2, 3}

\* The first user has two tabs, the other one a single tab.
Tabs == [s \in Sockets |-> IF s = s3 THEN u2 ELSE u1]
=============================================================================
