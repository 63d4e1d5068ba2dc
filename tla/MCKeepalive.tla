---------------------------- MODULE MCKeepalive ----------------------------
EXTENDS Keepalive, TLC

CONSTANTS c1, c2

Alike == Permutations(Cards)
=============================================================================
