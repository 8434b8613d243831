---------------------------- MODULE MCPlacement ----------------------------
(* Instances of Placement for TLC. *)
EXTENDS Placement, TLC

CONSTANTS p1, p2, p3, m1, m2, m3, m4

\* Where values() has each node; three nodes in two domains of different size.
Order == m1 :> 1 @@ m2 :> 2 @@ m3 :> 3
TwoDomains == m1 :> "d1" @@ m2 :> "d1" @@ m3 :> "d2"
Types == p1 :> "vip" @@ p2 :> "vip" @@ p3 :> "se"

\* Nothing is placed or wanted of p3; p1 may be on its way out, as in test/in.layer.rm.
Small(states) == {[n \in Nodes |-> q[n] @@ p3 :> "none"] : q \in [Nodes -> [{p1, p2} -> states]]}
SmallFactors ==
  {p1 :> i @@ p2 :> 1 @@ p3 :> 0 : i \in 0..3} \cup {[p \in Partitions |-> 0]}

SomeOffline ==
  [placement : Small({"none", "RUNNING", "TO_BE_DELETED"}), replication_factor : SmallFactors,
   online : {Nodes, {m1, m2}, {m2}}, run_mode : {"rebalancement"}]
Replaced ==
  [placement : Small({"none", "RUNNING"}), replication_factor : SmallFactors,
   online : {Nodes}, run_mode : {"full-replacement"}]
AllRunning ==
  [placement : [Nodes -> [Partitions -> {"none", "RUNNING"}]],
   replication_factor : {p1 :> i @@ p2 :> j @@ p3 :> 1 : i \in 1..2, j \in 1..2},
   online : {Nodes}, run_mode : {"rebalancement"}]
AllDumps == SomeOffline \cup Replaced \cup AllRunning

\* Four nodes in two domains of two; a node may be offline.
FourNodes == m1 :> 1 @@ m2 :> 2 @@ m3 :> 3 @@ m4 :> 4
Halves == m1 :> "d1" @@ m2 :> "d1" @@ m3 :> "d2" @@ m4 :> "d2"
MoreReplicas ==
  [placement : [Nodes -> [Partitions -> {"none", "RUNNING"}]],
   replication_factor : [Partitions -> 1..3], online : {Nodes, {m1, m3, m4}},
   run_mode : {"rebalancement"}]
=============================================================================
