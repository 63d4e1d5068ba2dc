------------------------------ MODULE MCHelper ------------------------------
EXTENDS Helper, TLC

CONSTANTS c1, c2, h1, h2, p1, p2

Alike == Permutations(Cards) \union Permutations(Calls) \union Permutations(Pids)
=============================================================================
