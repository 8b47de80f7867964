--------------------------- MODULE MCZincCluster ---------------------------
(* ZincCluster for TLC: two clusters that share a node. *)
EXTENDS ZincCluster, TLC

CONSTANTS n1, n2

TwoClusters == "main" :> <<n1, n2>> @@ "other" :> <<n2>>
=============================================================================
