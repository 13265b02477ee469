--------------------------- MODULE MCVyosFirewall ---------------------------
\* One firewall name with two versions and three layouts of ports, for TLC.
EXTENDS VyosFirewall

CONSTANTS v1, v2, lan, wan

MCVersions == {v1, v2}
MCLayouts == {lan, wan, NoPorts}
=============================================================================
