---------------------------- MODULE MCInventory ----------------------------
(* A is reached over ssh, B is a cluster of two nodes.                     *)
EXTENDS Inventory

Nodes == [s \in Servers |-> IF s \in Clusters THEN {"n1", "n2"} ELSE {"self"}]
Seen == [p \in Places |->
  CASE p[2] = "self" -> {"card", "none", "unknown"}
    [] p[2] = "n1" -> {"card", "none", "failed"}
    [] p[2] = "n2" -> {"card", "none", "failed"}]
UnderWay == [s \in Servers |-> IF s \in Clusters THEN 2 ELSE 1]
=============================================================================
