------------------------------ MODULE MCLedger ------------------------------
(* Small fleets for TLC.                                                   *)
EXTENDS Ledger, TLC

CONSTANTS A, B, a1, a2, b1, s1, s2, app, p1, p2

TwoServers == [c \in Cards |-> IF c = b1 THEN B ELSE A]
SessionProjects == [s \in Sessions |-> IF s = s1 THEN p1 ELSE p2]
CallerLabels == [a \in Actors |-> IF a \in Sessions THEN "agent" ELSE "human"]
TightQuota == [p \in Projects |-> IF p = p1 THEN 1 ELSE 2]
TightLimit == [p \in Projects |-> IF p = p1 THEN 2 ELSE 1]
OpenBudget == [p \in Projects |-> 3]

LeaseSymmetry == Permutations(Leases)
=============================================================================
