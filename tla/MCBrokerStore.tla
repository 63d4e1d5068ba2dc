--------------------------- MODULE MCBrokerStore ---------------------------
EXTENDS BrokerStore, TLC
CONSTANTS s1, s2
=============================================================================
