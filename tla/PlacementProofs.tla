-------------------------- MODULE PlacementProofs --------------------------
(***************************************************************************)
(* What holds of the planner for every cluster: the types of its state,    *)
(* that its two maps agree, that no line of a plan takes a replica that is *)
(* needed, that the replica counts are met and the loads even at the end.  *)
(***************************************************************************)
EXTENDS Placement, FiniteSetTheorems, TLAPS

\* What the two maps are, and that they agree.
Maps ==
  /\ partitions \in Placements
  /\ nodes \in [Partitions -> [Nodes -> States \cup {"none"}]]
  /\ MapsAgree

\* The maps stay well-formed, and agree, when an action of a plan is executed,
\* whether or not the partition was where the action takes it to be.
LEMMA AddKeepsMaps ==
  ASSUME Maps, NEW p \in Partitions, NEW n \in Nodes, ADD(p, n)
  PROVE  Maps'
<1>1. partitions' \in Placements
  BY DEF Maps, ADD, Placed, Placements, States, Kept
<1>2. nodes' \in [Partitions -> [Nodes -> States \cup {"none"}]]
  BY DEF Maps, ADD, Placed, States, Kept
<1>3. MapsAgree'
  BY DEF Maps, MapsAgree, ADD, Placed, Placements
<1> QED BY <1>1, <1>2, <1>3 DEF Maps

\* The same for a DEL ...
LEMMA DelKeepsMaps ==
  ASSUME Maps, NEW p \in Partitions, NEW n \in Nodes, DEL(p, n)
  PROVE  Maps'
<1>1. partitions' \in Placements
  BY DEF Maps, DEL, Placements
<1>2. nodes' \in [Partitions -> [Nodes -> States \cup {"none"}]]
  BY DEF Maps, DEL
<1>3. MapsAgree'
  BY DEF Maps, MapsAgree, DEL, Placements
<1> QED BY <1>1, <1>2, <1>3 DEF Maps

\* ... and for a MOVE.
LEMMA MoveKeepsMaps ==
  ASSUME Maps, NEW p \in Partitions, NEW from \in Nodes, NEW to \in Nodes, MOVE(p, from, to)
  PROVE  Maps'
<1> DEFINE s == partitions[from][p]
<1>0. s \in States \cup {"none"}
  BY DEF Maps, Placements
<1>1. partitions' \in Placements
  BY <1>0 DEF Maps, MOVE, Placed, Placements
<1>2. nodes' \in [Partitions -> [Nodes -> States \cup {"none"}]]
  BY <1>0 DEF Maps, MOVE, Placed
<1>3. MapsAgree'
  BY <1>0 DEF Maps, MapsAgree, MOVE, Placed, Placements
<1> QED BY <1>1, <1>2, <1>3 DEF Maps

\* What the planner selects is a node of the cluster, or a partition of the node
\* it takes it from.
LEMMA SelectedNodes ==
  ASSUME NEW p \in Partitions
  PROVE  /\ select_to_add(p) \subseteq Nodes /\ select_to_del(p) \subseteq Nodes
         /\ max_load_slavenode \subseteq Nodes
<1>1. select_to_add(p) \subseteq Nodes
  BY DEF select_to_add, Smallest, NodesOf
<1>2. select_to_del(p) \subseteq Nodes
  BY DEF select_to_del, Largest, NodesOf
<1>3. max_load_slavenode \subseteq Nodes
  BY DEF max_load_slavenode, Last, Largest
<1> QED BY <1>1, <1>2, <1>3

\* The node that is to take a partition is one.
LEMMA LightestIsNode == TypeOK => min_load_slavenode \subseteq Nodes
  BY DEF TypeOK, min_load_slavenode, First, Smallest

\* The partition to move is one of the heavier node's.
LEMMA SelectedPartition ==
  ASSUME NEW heavy, NEW light
  PROVE  select_partition_to_move(heavy, light) \subseteq index_partitions(heavy)
  BY DEF select_partition_to_move, Smallest
-----------------------------------------------------------------------------
\* NeverBelowFactor only speaks of rebalancing, where nothing is unbound.
IInv ==
  /\ TypeOK
  /\ MapsAgree
  /\ pc = "unbind" => dump.run_mode = "full-replacement"

\* It holds of the dump that is read.
LEMMA InitIInv == Init => IInv
<1> SUFFICES ASSUME Init PROVE IInv
  OBVIOUS
<1>1. dump \in [placement : Placements, replication_factor : [Partitions -> Nat],
                online : SUBSET Nodes, run_mode : {"rebalancement", "full-replacement"}]
  BY PlacementAssumption DEF Init
<1>2. partitions \in Placements /\ nodes \in [Partitions -> [Nodes -> States \cup {"none"}]]
  BY <1>1 DEF Init, Placements
<1>3. MapsAgree
  BY <1>1 DEF Init, MapsAgree, Placements
<1> QED BY <1>1, <1>2, <1>3 DEF Init, IInv, TypeOK

\* One step per loop of the planner, one case per branch of it.
LEMMA NextIInv == IInv /\ [Next]_vars => IInv'
<1> SUFFICES ASSUME IInv, [Next]_vars PROVE IInv'
  OBVIOUS
<1>0. TypeOK /\ Maps /\ MapsAgree
  BY DEF IInv, TypeOK, Maps
<1>1. CASE unbind
  <2>1. UNCHANGED <<dump, todo, partition>> /\ pc = "unbind" /\ pc' \in {"unbind", "partitions"}
    BY <1>1 DEF unbind
  <2>2. Maps'
    <3>1. CASE UNCHANGED <<partitions, nodes>>
      BY <3>1, <1>0 DEF Maps, MapsAgree
    <3>2. CASE \E n \in Nodes : \E p \in Partitions : DEL(p, n)
      BY <3>2, <1>0, DelKeepsMaps
    <3> QED BY <3>1, <3>2, <1>1 DEF unbind, Unplanned, First, index_partitions
  <2>3. dump.run_mode = "full-replacement"
    BY <2>1 DEF IInv
  <2> QED BY <2>1, <2>2, <2>3, <1>0 DEF IInv, TypeOK, Maps
<1>2. CASE rebalance_partitions
  <2>1. UNCHANGED <<partitions, nodes, dump>>
    BY <1>2 DEF rebalance_partitions, Unplanned
  <2>2. /\ pc' \in {"partitions", "under", "over", "nodes"} /\ todo' \subseteq Partitions
        /\ pc' \in {"under", "over"} => partition' \in Partitions
    BY <1>2, <1>0 DEF rebalance_partitions, TypeOK
  <2>3. MapsAgree'
    BY <2>1, <1>0 DEF MapsAgree
  <2> QED BY <2>1, <2>2, <2>3, <1>0 DEF IInv, TypeOK
<1>3. CASE process_under_replicated_partition
  <2>1. /\ UNCHANGED <<dump, todo, partition>> /\ partition \in Partitions
        /\ pc' \in {"under", "partitions", "oops"}
    BY <1>3, <1>0 DEF process_under_replicated_partition, TypeOK
  <2>2. Maps'
    <3>1. CASE UNCHANGED <<partitions, nodes>>
      BY <3>1, <1>0 DEF Maps, MapsAgree
    <3>2. CASE \E n \in Nodes : ADD(partition, n)
      BY <3>2, <2>1, <1>0, AddKeepsMaps
    <3> QED BY <3>1, <3>2, <2>1, <1>3, SelectedNodes
            DEF process_under_replicated_partition, Unplanned
  <2> QED BY <2>1, <2>2, <1>0 DEF IInv, TypeOK, Maps
<1>4. CASE process_over_replicated_partition
  <2>1. /\ UNCHANGED <<dump, todo, partition>> /\ partition \in Partitions
        /\ pc' \in {"over", "partitions"}
    BY <1>4, <1>0 DEF process_over_replicated_partition, TypeOK
  <2>2. Maps'
    <3>1. CASE UNCHANGED <<partitions, nodes>>
      BY <3>1, <1>0 DEF Maps, MapsAgree
    <3>2. CASE \E n \in Nodes : DEL(partition, n)
      BY <3>2, <2>1, <1>0, DelKeepsMaps
    <3> QED BY <3>1, <3>2, <2>1, <1>4, SelectedNodes
            DEF process_over_replicated_partition, Unplanned
  <2> QED BY <2>1, <2>2, <1>0 DEF IInv, TypeOK, Maps
<1>5. CASE process_unevenly_loaded_node
  <2>1. /\ UNCHANGED <<dump, todo, partition>> /\ pc' \in {"nodes", "printed", "crashed"}
    BY <1>5 DEF process_unevenly_loaded_node
  <2>2. Maps'
    <3>1. CASE UNCHANGED <<partitions, nodes>>
      BY <3>1, <1>0 DEF Maps, MapsAgree
    <3>2. CASE \E p \in Partitions, heavy, light \in Nodes : MOVE(p, heavy, light)
      BY <3>2, <1>0, MoveKeepsMaps
    <3>3. max_load_slavenode \subseteq Nodes /\ min_load_slavenode \subseteq Nodes
      BY <1>0, LightestIsNode DEF max_load_slavenode, Last, Largest
    <3>4. \A heavy, light : select_partition_to_move(heavy, light) \subseteq Partitions
      BY SelectedPartition DEF index_partitions
    <3> QED BY <3>1, <3>2, <3>3, <3>4, <1>5 DEF process_unevenly_loaded_node, Unplanned
  <2> QED BY <2>1, <2>2, <1>0 DEF IInv, TypeOK, Maps
<1>6. CASE UNCHANGED vars
  BY <1>6, <1>0 DEF vars, IInv, TypeOK, MapsAgree
<1> QED BY <1>1, <1>2, <1>3, <1>4, <1>5, <1>6 DEF Next
-----------------------------------------------------------------------------
\* Whatever the dump and the ties, the planner's state is well-formed: no replica
\* is left with a state that is none.
THEOREM TypeCorrect == Spec => []TypeOK
<1>1. IInv => TypeOK
  BY DEF IInv
<1> QED BY <1>1, InitIInv, NextIInv, PTL DEF Spec

\* The two maps agree in every state, so that what is counted on partitions and
\* what is counted on nodes is the same cluster.
THEOREM MapsAlwaysAgree == Spec => []MapsAgree
<1>1. IInv => MapsAgree
  BY DEF IInv
<1> QED BY <1>1, InitIInv, NextIInv, PTL DEF Spec
-----------------------------------------------------------------------------
\* A partition has as many replicas that count as the planner thinks.
LEMMA CountedRight ==
  ASSUME IInv, NEW p \in Partitions
  PROVE  /\ replica_count_of_new_and_running(p) = KeptReplicas(p)
         /\ KeptReplicas(p) \in Nat
<1>1. {n \in Nodes : nodes[p][n] \in Kept} = {n \in Nodes : HasKept(n, p)}
  BY DEF IInv, MapsAgree, HasKept
<1>2. IsFiniteSet({n \in Nodes : HasKept(n, p)})
  BY PlacementAssumption, FS_Subset, {n \in Nodes : HasKept(n, p)} \subseteq Nodes
<1> QED BY <1>1, <1>2, FS_CardinalityType DEF replica_count_of_new_and_running, KeptReplicas

\* An ADD takes no replica from any partition.
LEMMA AddTakesNone ==
  ASSUME IInv, NEW p \in Partitions, NEW n \in Nodes, ADD(p, n), NEW q \in Partitions
  PROVE  KeptReplicas(q)' \in Nat /\ KeptReplicas(q)' >= KeptReplicas(q)
<1> DEFINE S == {m \in Nodes : HasKept(m, q)}
<1>1. S \subseteq S'
  BY DEF IInv, TypeOK, Placements, ADD, Placed, HasKept, Kept
<1>2. S' \subseteq Nodes
  OBVIOUS
<1>3. IsFiniteSet(S') /\ IsFiniteSet(S)
  BY <1>1, <1>2, PlacementAssumption, FS_Subset
<1>4. Cardinality(S) <= Cardinality(S')
  BY <1>1, <1>3, FS_Subset
<1>5. Cardinality(S) \in Nat /\ Cardinality(S') \in Nat
  BY <1>3, FS_CardinalityType
<1> HIDE DEF S
<1>6. KeptReplicas(q) = Cardinality(S) /\ KeptReplicas(q)' = Cardinality(S')
  BY DEF KeptReplicas, S
<1> QED BY <1>4, <1>5, <1>6

\* A DEL takes none from any partition but its own.
LEMMA DelTakesOwn ==
  ASSUME IInv, NEW p \in Partitions, NEW n \in Nodes, DEL(p, n),
         NEW q \in Partitions, q # p
  PROVE  KeptReplicas(q)' = KeptReplicas(q)
<1>1. \A m \in Nodes : HasKept(m, q)' <=> HasKept(m, q)
  BY DEF IInv, TypeOK, Placements, DEL, HasKept
<1>2. {m \in Nodes : HasKept(m, q)}' = {m \in Nodes : HasKept(m, q)}
  BY <1>1
<1> QED BY <1>2 DEF KeptReplicas

\* A MOVE to another node that has no replica of the partition loses none.
LEMMA MoveLosesNone ==
  ASSUME IInv, NEW p \in Partitions, NEW from \in Nodes, NEW to \in Nodes,
         MOVE(p, from, to), from # to, ~Has(to, p), NEW q \in Partitions
  PROVE  KeptReplicas(q)' = KeptReplicas(q)
<1> DEFINE S == {m \in Nodes : HasKept(m, q)}
<1>0. IsFiniteSet(S)
  BY PlacementAssumption, FS_Subset, S \subseteq Nodes
<1>1. CASE q # p \/ ~HasKept(from, p)
  <2>1. \A m \in Nodes : HasKept(m, q)' <=> HasKept(m, q)
    BY <1>1 DEF IInv, TypeOK, Placements, MOVE, Placed, Has, HasKept, Kept
  <2>2. S' = S
    BY <2>1
  <2> QED BY <2>2 DEF KeptReplicas
<1>2. CASE q = p /\ HasKept(from, p)
  <2>1. from \in S /\ to \notin S
    BY <1>2 DEF Has, HasKept, Kept
  <2>2. S' = (S \ {from}) \cup {to}
    BY <1>2 DEF IInv, TypeOK, Placements, MOVE, Placed, Has, HasKept, Kept
  <2>3. IsFiniteSet(S \ {from}) /\ Cardinality(S \ {from}) = Cardinality(S) - 1
    BY <1>0, <2>1, FS_RemoveElement
  <2>4. Cardinality(S') = Cardinality(S \ {from}) + 1
    BY <2>1, <2>2, <2>3, FS_AddElement
  <2>5. Cardinality(S) \in Nat
    BY <1>0, FS_CardinalityType
  <2> HIDE DEF S
  <2>6. KeptReplicas(q) = Cardinality(S) /\ KeptReplicas(q)' = Cardinality(S')
    BY DEF KeptReplicas, S
  <2> QED BY <2>3, <2>4, <2>5, <2>6
<1> QED BY <1>1, <1>2
\* A smallest element beats every other one in the first place of the key.
LEMMA FirstPlace ==
  ASSUME NEW a, NEW b, 1 \in DOMAIN a, a[1] < b[1]
  PROVE  Less(a, b)
  BY DEF Less

\* The first place of the tuple by which the partition to move is chosen.
LEMMA PartitionKey ==
  ASSUME NEW p, NEW heavy, NEW light
  PROVE  /\ 1 \in DOMAIN partition_sorting_tuple(p, heavy, light)
         /\ partition_sorting_tuple(p, heavy, light)[1] = Flag(Has(light, p))
  BY DEF partition_sorting_tuple

\* If the load of one node is above that of another, there is a partition that
\* only the first has, and the sorting tuple prefers it: no replica is moved on
\* top of another.
LEMMA MovedIsNew ==
  ASSUME IInv, NEW heavy \in Nodes, NEW light \in Nodes, Load(heavy) > Load(light),
         NEW p \in select_partition_to_move(heavy, light)
  PROVE  ~Has(light, p)
<1>1. PICK x \in index_partitions(heavy) : ~Has(light, x)
  <2> SUFFICES ASSUME \A x \in index_partitions(heavy) : Has(light, x) PROVE FALSE
    OBVIOUS
  <2>1. index_partitions(heavy) \subseteq index_partitions(light)
    BY DEF index_partitions
  <2>2. IsFiniteSet(index_partitions(light)) /\ IsFiniteSet(index_partitions(heavy))
    BY PlacementAssumption, FS_Subset DEF index_partitions
  <2>3. Load(heavy) <= Load(light) /\ Load(heavy) \in Nat /\ Load(light) \in Nat
    BY <2>1, <2>2, FS_Subset, FS_CardinalityType DEF Load
  <2> QED BY <2>3
<1> SUFFICES ASSUME Has(light, p) PROVE FALSE
  OBVIOUS
<1>2. ~Less(partition_sorting_tuple(x, heavy, light), partition_sorting_tuple(p, heavy, light))
  <2> DEFINE key(y) == partition_sorting_tuple(y, heavy, light)
             heap == {<<key(y), y>> : y \in index_partitions(heavy)}
  <2>1. PICK e \in heap : p = e[2] /\ \A g \in heap : ~Less(g[1], e[1])
    BY DEF select_partition_to_move, Smallest
  <2>2. e[1] = key(p)
    BY <2>1
  <2>3. <<key(x), x>> \in heap
    BY <1>1
  <2> QED BY <2>1, <2>2, <2>3
<1>3. /\ partition_sorting_tuple(x, heavy, light)[1] = 0
      /\ partition_sorting_tuple(p, heavy, light)[1] = 1
  BY <1>1, PartitionKey DEF Flag
<1> QED BY <1>2, <1>3, PartitionKey, FirstPlace

\* With all nodes online, balancing moves a partition from one node to another
\* that does not have it.
LEMMA BalancingMove ==
  ASSUME IInv, AllOnline, process_unevenly_loaded_node, ~UNCHANGED partitions
  PROVE  \E p \in Partitions, heavy, light \in Nodes :
           MOVE(p, heavy, light) /\ heavy # light /\ ~Has(light, p)
<1>1. PICK heavy \in max_load_slavenode, light \in min_load_slavenode :
        /\ Uneven(heavy, light)
        /\ \E p \in select_partition_to_move(heavy, light) : MOVE(p, heavy, light)
  BY DEF process_unevenly_loaded_node, Unplanned
<1>2. heavy \in Nodes /\ light \in Nodes
  BY <1>1, LightestIsNode DEF max_load_slavenode, Last, Largest, IInv
<1>3. PICK p \in select_partition_to_move(heavy, light) : MOVE(p, heavy, light)
  BY <1>1
<1>4. p \in Partitions
  BY SelectedPartition DEF index_partitions
<1>5. heavy # light /\ Load(heavy) > Load(light)
  <2>1. \A n \in Nodes : Load(n) \in Nat
    BY PlacementAssumption, FS_Subset, FS_CardinalityType DEF Load, index_partitions
  <2> QED BY <1>1, <1>2, <2>1 DEF Uneven, offline, AllOnline
<1>6. ~Has(light, p)
  BY <1>2, <1>5, MovedIsNew
<1> QED BY <1>2, <1>3, <1>4, <1>5, <1>6

\* With all nodes online, no action of a rebalancing plan takes a replica from a
\* partition that has none to spare.
THEOREM NeverBelowFactorHolds == Spec => NeverBelowFactor
<1>1. ASSUME IInv, Next
      PROVE  dump.run_mode = "rebalancement" /\ AllOnline =>
               \A p \in Partitions :
                  KeptReplicas(p)' < KeptReplicas(p) =>
                    KeptReplicas(p) > dump.replication_factor[p]
  <2> SUFFICES ASSUME dump.run_mode = "rebalancement", AllOnline, NEW q \in Partitions,
                      KeptReplicas(q)' < KeptReplicas(q)
               PROVE  KeptReplicas(q) > dump.replication_factor[q]
    OBVIOUS
  <2>0. KeptReplicas(q) \in Nat /\ dump.replication_factor[q] \in Nat
    BY <1>1, CountedRight DEF IInv, TypeOK
  <2>1. ~UNCHANGED partitions
    <3> SUFFICES ASSUME UNCHANGED partitions PROVE FALSE
      OBVIOUS
    <3>1. KeptReplicas(q)' = KeptReplicas(q)
      BY DEF KeptReplicas, HasKept
    <3> QED BY <3>1, <2>0
  <2>2. ~unbind
    BY <1>1 DEF IInv, unbind
  <2>3. ~rebalance_partitions
    BY <2>1 DEF rebalance_partitions, Unplanned
  <2>4. CASE process_under_replicated_partition
    <3>1. PICK n \in Nodes : ADD(partition, n) /\ partition \in Partitions
      BY <1>1, <2>1, <2>4, SelectedNodes
         DEF process_under_replicated_partition, Unplanned, IInv, TypeOK
    <3>2. KeptReplicas(q)' \in Nat /\ KeptReplicas(q)' >= KeptReplicas(q)
      BY <1>1, <3>1, AddTakesNone
    <3> QED BY <2>0, <3>2
  <2>5. CASE process_over_replicated_partition
    <3>1. PICK n \in Nodes : DEL(partition, n) /\ partition \in Partitions /\ Lacking(partition) < 0
      BY <1>1, <2>1, <2>5, SelectedNodes
         DEF process_over_replicated_partition, Unplanned, IInv, TypeOK
    <3>2. q = partition
      BY <1>1, <2>0, <3>1, DelTakesOwn
    <3> QED BY <1>1, <2>0, <3>1, <3>2, CountedRight DEF Lacking
  <2>6. CASE process_unevenly_loaded_node
    <3>1. KeptReplicas(q)' = KeptReplicas(q)
      BY <1>1, <2>1, <2>6, BalancingMove, MoveLosesNone
    <3> QED BY <2>0, <3>1
  <2> QED BY <1>1, <2>2, <2>3, <2>4, <2>5, <2>6 DEF Next
<1>2. IInv /\ [Next]_vars =>
        [ dump.run_mode = "rebalancement" /\ AllOnline =>
            \A p \in Partitions :
              KeptReplicas(p)' < KeptReplicas(p) =>
                KeptReplicas(p) > dump.replication_factor[p] ]_vars
  BY <1>1
<1> QED BY <1>2, InitIInv, NextIInv, PTL DEF Spec, NeverBelowFactor
-----------------------------------------------------------------------------
\* The partitions that the planner has come to have their replicas, but for the
\* one it is at: that one has not too many while replicas are added, and not too
\* few while they are deleted.
AdjustedInv ==
  /\ pc = "unbind" => todo = Partitions
  /\ pc \in {"under", "over"} => partition \notin todo
  /\ pc = "under" => Lacking(partition) >= 0
  /\ pc = "over" => Lacking(partition) <= 0
  /\ pc \in {"nodes", "printed"} => todo = {}
  /\ pc \in {"partitions", "under", "over"} \/ (pc \in {"nodes", "printed"} /\ AllOnline) =>
       \A p \in Partitions \ todo :
         (pc \in {"under", "over"} /\ p = partition) \/ Lacking(p) = 0

\* What a partition lacks is a number, counted on the nodes, before and after
\* each step.
Counted ==
  \A p \in Partitions :
    /\ Lacking(p) = dump.replication_factor[p] - KeptReplicas(p)
    /\ KeptReplicas(p) \in Nat /\ dump.replication_factor[p] \in Nat

\* It is so whenever the invariant holds.
LEMMA LackingCounts == (IInv => Counted) /\ (IInv' => Counted')
<1>1. IInv => Counted
  BY CountedRight DEF Counted, Lacking, IInv, TypeOK
<1> QED BY <1>1, PTL

\* What a partition lacks depends on its replicas alone.
LEMMA SameLacking ==
  ASSUME IInv, IInv', dump' = dump, NEW p \in Partitions, KeptReplicas(p)' = KeptReplicas(p)
  PROVE  Lacking(p)' = Lacking(p)
BY LackingCounts DEF Counted

\* An ADD to a node that does not have the partition gives it one replica more,
\* and no other partition any.
LEMMA AddGivesOne ==
  ASSUME IInv, NEW p \in Partitions, NEW n \in Nodes, ADD(p, n), ~Has(n, p),
         NEW q \in Partitions
  PROVE  KeptReplicas(q)' = IF q = p THEN KeptReplicas(q) + 1 ELSE KeptReplicas(q)
<1> DEFINE S == {m \in Nodes : HasKept(m, q)}
<1>1. CASE q # p
  <2>1. \A m \in Nodes : HasKept(m, q)' <=> HasKept(m, q)
    BY <1>1 DEF IInv, TypeOK, Placements, ADD, HasKept
  <2>2. S' = S
    BY <2>1
  <2> QED BY <1>1, <2>2 DEF KeptReplicas
<1>2. CASE q = p
  <2>1. IsFiniteSet(S) /\ n \notin S
    BY <1>2, PlacementAssumption, FS_Subset, S \subseteq Nodes DEF Has, HasKept, Kept
  <2>2. S' = S \cup {n}
    BY <1>2 DEF IInv, TypeOK, Placements, ADD, Placed, Has, HasKept, Kept
  <2>3. Cardinality(S') = Cardinality(S) + 1
    BY <2>1, <2>2, FS_AddElement
  <2> QED BY <1>2, <2>3 DEF KeptReplicas
<1> QED BY <1>1, <1>2

\* A DEL takes one replica at most from its partition.
LEMMA DelTakesOne ==
  ASSUME IInv, NEW p \in Partitions, NEW n \in Nodes, DEL(p, n)
  PROVE  KeptReplicas(p)' \in {KeptReplicas(p), KeptReplicas(p) - 1}
<1> DEFINE S == {m \in Nodes : HasKept(m, p)}
<1>1. IsFiniteSet(S)
  BY PlacementAssumption, FS_Subset, S \subseteq Nodes
<1>2. S' = S \ {n}
  BY DEF IInv, TypeOK, Placements, DEL, HasKept, Kept
<1>3. Cardinality(S') \in {Cardinality(S), Cardinality(S) - 1}
  BY <1>1, <1>2, FS_RemoveElement
<1> QED BY <1>3 DEF KeptReplicas

\* Each step keeps what has been adjusted.
LEMMA AdjustedKept ==
  ASSUME IInv, AdjustedInv, [Next]_vars
  PROVE  AdjustedInv'
<1>0. IInv' /\ dump' = dump /\ partition \in Partitions \cup {partition}
  <2>1. dump' = dump
    BY DEF Next, vars, unbind, rebalance_partitions, process_under_replicated_partition,
           process_over_replicated_partition, process_unevenly_loaded_node
  <2> QED BY <2>1, NextIInv
<1>1. \A p \in Partitions : Lacking(p) \in Int
  BY LackingCounts DEF Counted
<1>2. ASSUME UNCHANGED <<partitions, nodes>> PROVE \A p : Lacking(p)' = Lacking(p)
  BY <1>0, <1>2 DEF Lacking, replica_count_of_new_and_running
<1>3. CASE unbind
  <2>1. todo' = todo /\ partition' = partition /\ pc' \in {"unbind", "partitions"}
        /\ todo = Partitions
    BY <1>3 DEF unbind, AdjustedInv
  <2> QED BY <2>1 DEF AdjustedInv
<1>4. CASE rebalance_partitions
  <2>1. \A p : Lacking(p)' = Lacking(p)
    BY <1>2, <1>4 DEF rebalance_partitions, Unplanned
  <2>2. CASE \E p \in todo :
               /\ partition' = p /\ todo' = todo \ {p}
               /\ pc' = IF Lacking(p) < 0 THEN "over" ELSE IF Lacking(p) > 0 THEN "under" ELSE pc
    <3>1. PICK p \in todo :
            /\ partition' = p /\ todo' = todo \ {p}
            /\ pc' = IF Lacking(p) < 0 THEN "over" ELSE IF Lacking(p) > 0 THEN "under" ELSE pc
      BY <2>2
    <3>2. pc = "partitions" /\ p \in Partitions
      BY <1>4 DEF rebalance_partitions, IInv, TypeOK
    <3>3. \A q \in Partitions \ todo : Lacking(q) = 0
      BY <3>2 DEF AdjustedInv
    <3>4. \A q \in Partitions \ todo' : q = p \/ Lacking(q) = 0
      BY <3>1, <3>3
    <3>5. Lacking(p) \in Int
      BY <1>1, <3>2
    <3> QED BY <2>1, <3>1, <3>2, <3>4, <3>5 DEF AdjustedInv
  <2>3. CASE todo = {} /\ pc' = "nodes" /\ UNCHANGED <<todo, partition>>
    <3>1. \A q \in Partitions : Lacking(q) = 0
      BY <1>4, <2>3 DEF rebalance_partitions, AdjustedInv
    <3> QED BY <2>1, <2>3, <3>1 DEF AdjustedInv
  <2> QED BY <1>4, <2>2, <2>3 DEF rebalance_partitions
<1>5. CASE process_under_replicated_partition
  <2>1. UNCHANGED <<todo, partition>> /\ pc = "under" /\ partition \in Partitions
    BY <1>5 DEF process_under_replicated_partition, IInv, TypeOK
  <2>2. partition \notin todo /\ Lacking(partition) \in Int /\ Lacking(partition) >= 0
        /\ \A q \in Partitions \ todo : q = partition \/ Lacking(q) = 0
    BY <1>1, <2>1 DEF AdjustedInv
  <2>3. CASE Lacking(partition) <= 0 /\ pc' = "partitions" /\ Unplanned
    <3>1. \A p : Lacking(p)' = Lacking(p)
      BY <1>2, <2>3 DEF Unplanned
    <3>2. \A q \in Partitions \ todo : Lacking(q) = 0
      BY <2>2, <2>3
    <3> QED BY <2>1, <2>3, <3>1, <3>2 DEF AdjustedInv
  <2>4. CASE pc' = "oops"
    BY <2>4 DEF AdjustedInv
  <2>5. CASE \E n \in Nodes : ADD(partition, n) /\ ~Has(n, partition) /\ pc' = pc
               /\ Lacking(partition) > 0
    <3>1. PICK n \in Nodes : ADD(partition, n) /\ ~Has(n, partition)
      BY <2>5
    <3>2. \A q \in Partitions : q # partition => Lacking(q)' = Lacking(q)
      BY <1>0, <2>1, <3>1, AddGivesOne, SameLacking
    <3>3. KeptReplicas(partition)' = KeptReplicas(partition) + 1
      BY <2>1, <3>1, AddGivesOne
    <3>4. Lacking(partition)' = Lacking(partition) - 1
      <4>1. Lacking(partition) = dump.replication_factor[partition] - KeptReplicas(partition)
            /\ KeptReplicas(partition) \in Nat /\ dump.replication_factor[partition] \in Nat
        BY <2>1, LackingCounts DEF Counted
      <4>2. Lacking(partition)' = dump.replication_factor[partition] - KeptReplicas(partition)'
        BY <1>0, <2>1, LackingCounts DEF Counted
      <4> QED BY <3>3, <4>1, <4>2
    <3>5. Lacking(partition)' >= 0
      BY <2>2, <2>5, <3>4
    <3> QED BY <2>1, <2>2, <2>5, <3>2, <3>5 DEF AdjustedInv
  <2> QED BY <1>5, <2>1, <2>3, <2>4, <2>5, SelectedNodes DEF process_under_replicated_partition
<1>6. CASE process_over_replicated_partition
  <2>1. UNCHANGED <<todo, partition>> /\ pc = "over" /\ partition \in Partitions
    BY <1>6 DEF process_over_replicated_partition, IInv, TypeOK
  <2>2. partition \notin todo /\ Lacking(partition) \in Int /\ Lacking(partition) <= 0
        /\ \A q \in Partitions \ todo : q = partition \/ Lacking(q) = 0
    BY <1>1, <2>1 DEF AdjustedInv
  <2>3. CASE Lacking(partition) >= 0 /\ pc' = "partitions" /\ Unplanned
    <3>1. \A p : Lacking(p)' = Lacking(p)
      BY <1>2, <2>3 DEF Unplanned
    <3>2. \A q \in Partitions \ todo : Lacking(q) = 0
      BY <2>2, <2>3
    <3> QED BY <2>1, <2>3, <3>1, <3>2 DEF AdjustedInv
  <2>4. CASE \E n \in Nodes : DEL(partition, n) /\ pc' = pc /\ Lacking(partition) < 0
    <3>1. PICK n \in Nodes : DEL(partition, n)
      BY <2>4
    <3>2. \A q \in Partitions : q # partition => Lacking(q)' = Lacking(q)
      BY <1>0, <2>1, <3>1, DelTakesOwn, SameLacking
    <3>3. KeptReplicas(partition)' \in {KeptReplicas(partition), KeptReplicas(partition) - 1}
      BY <2>1, <3>1, DelTakesOne
    <3>4. Lacking(partition)' <= 0
      <4>1. Lacking(partition) = dump.replication_factor[partition] - KeptReplicas(partition)
            /\ KeptReplicas(partition) \in Nat /\ dump.replication_factor[partition] \in Nat
        BY <2>1, LackingCounts DEF Counted
      <4>2. Lacking(partition)' = dump.replication_factor[partition] - KeptReplicas(partition)'
        BY <1>0, <2>1, LackingCounts DEF Counted
      <4> QED BY <2>4, <3>3, <4>1, <4>2
    <3> QED BY <2>1, <2>2, <2>4, <3>2, <3>4 DEF AdjustedInv
  <2> QED BY <1>6, <2>1, <2>3, <2>4, SelectedNodes DEF process_over_replicated_partition
<1>7. CASE process_unevenly_loaded_node
  <2>1. UNCHANGED todo /\ pc = "nodes" /\ pc' \in {"nodes", "printed", "crashed"} /\ todo = {}
    BY <1>7 DEF process_unevenly_loaded_node, AdjustedInv
  <2>2. SUFFICES ASSUME AllOnline', pc' # "crashed", NEW q \in Partitions
                 PROVE  Lacking(q)' = 0
    BY <2>1 DEF AdjustedInv
  <2>3. AllOnline /\ Lacking(q) = 0
    BY <1>0, <2>1, <2>2 DEF AllOnline, AdjustedInv
  <2>4. KeptReplicas(q)' = KeptReplicas(q)
    <3>1. CASE UNCHANGED partitions
      BY <3>1 DEF KeptReplicas, HasKept
    <3>2. CASE ~UNCHANGED partitions
      BY <1>7, <2>3, <3>2, BalancingMove, MoveLosesNone
    <3> QED BY <3>1, <3>2
  <2> QED BY <1>0, <2>3, <2>4, SameLacking
<1>8. CASE UNCHANGED vars
  <2>1. \A p : Lacking(p)' = Lacking(p)
    BY <1>2, <1>8 DEF vars
  <2> QED BY <1>8, <2>1 DEF vars, AdjustedInv, AllOnline
<1> QED BY <1>3, <1>4, <1>5, <1>6, <1>7, <1>8 DEF Next

\* A plan for a cluster without offline nodes gives every partition exactly its
\* replicas: the count is met partition by partition, and neither the partitions
\* adjusted later nor the balancing of the nodes undo it.
THEOREM ReplicasAreMet == Spec => []ReplicasMet
<1>1. Init => AdjustedInv
  BY DEF Init, AdjustedInv
<1>2. IInv /\ AdjustedInv => ReplicasMet
  <2> SUFFICES ASSUME IInv, AdjustedInv, pc = "printed", AllOnline, NEW p \in Partitions
               PROVE  KeptReplicas(p) = dump.replication_factor[p]
    BY DEF ReplicasMet
  <2>1. Lacking(p) = 0
    BY DEF AdjustedInv
  <2> QED BY <2>1, LackingCounts DEF Counted
<1>3. IInv /\ AdjustedInv /\ [Next]_vars => IInv' /\ AdjustedInv'
  BY AdjustedKept, NextIInv
<1> QED BY <1>1, <1>2, <1>3, InitIInv, PTL DEF Spec
-----------------------------------------------------------------------------
\* Loads are numbers, and as keys of one place they compare as numbers.
LEMMA Loads ==
  /\ \A n \in Nodes : Load(n) \in Nat
  /\ \A m, n \in Nodes : Load(m) < Load(n) => Less(<<Load(m)>>, <<Load(n)>>)
<1>1. \A n \in Nodes : Load(n) \in Nat
  BY PlacementAssumption, FS_Subset, FS_CardinalityType DEF Load, index_partitions
<1>2. ASSUME NEW a \in Nat, NEW b \in Nat, a < b PROVE Less(<<a>>, <<b>>)
  <2> DEFINE u == <<a>>
             v == <<b>>
  <2>1. 1 \in DOMAIN u /\ u[1] < v[1]
    BY <1>2
  <2> QED BY <2>1, FirstPlace, Zenon
<1> QED BY <1>1, <1>2

\* Unless one is to be emptied, no node is heavier than the one chosen to give.
LEMMA HeaviestGives ==
  ASSUME TypeOK, NEW heavy \in max_load_slavenode, NEW n \in Nodes
  PROVE  /\ heavy \in Nodes
         /\ \/ Load(n) <= Load(heavy) /\ \A m \in Nodes, p \in Partitions : offline(m) => ~HasKept(m, p)
            \/ offline(heavy)
<1> DEFINE Leaving == {m \in Nodes : offline(m) /\ \E p \in Partitions : HasKept(m, p)}
<1>1. CASE Leaving # {}
  BY <1>1 DEF max_load_slavenode, Last
<1>2. CASE Leaving = {}
  <2> DEFINE heap == {<<<<Load(x)>>, x>> : x \in Nodes}
  <2>1. heavy \in Largest(Nodes, LAMBDA x : <<Load(x)>>)
    BY <1>2 DEF max_load_slavenode, Last
  <2>2. PICK e \in heap : heavy = e[2] /\ \A g \in heap : ~Less(e[1], g[1])
    BY <2>1 DEF Largest
  <2>3. heavy \in Nodes /\ e[1] = <<Load(heavy)>> /\ <<<<Load(n)>>, n>> \in heap
    BY <2>2
  <2>4. ~Less(<<Load(heavy)>>, <<Load(n)>>)
    BY <2>2, <2>3
  <2>5. Load(n) <= Load(heavy)
    BY <2>3, <2>4, Loads
  <2> QED BY <1>2, <2>3, <2>5
<1> QED BY <1>1, <1>2

\* If a node is online, no such node is lighter than the one chosen to take.
LEMMA LightestTakes ==
  ASSUME TypeOK, NEW light \in min_load_slavenode, NEW n \in dump.online
  PROVE  light \in dump.online /\ light \in Nodes /\ Load(light) <= Load(n)
<1> DEFINE heap == {<<<<Load(x)>>, x>> : x \in dump.online}
<1>1. light \in Smallest(dump.online, LAMBDA x : <<Load(x)>>)
  BY DEF min_load_slavenode, First
<1>2. PICK e \in heap : light = e[2] /\ \A g \in heap : ~Less(g[1], e[1])
  BY <1>1 DEF Smallest
<1>3. /\ light \in dump.online /\ dump.online \subseteq Nodes
      /\ e[1] = <<Load(light)>> /\ <<<<Load(n)>>, n>> \in heap
  BY <1>2 DEF TypeOK
<1>4. ~Less(<<Load(n)>>, <<Load(light)>>)
  BY <1>2, <1>3
<1> QED BY <1>3, <1>4, Loads

\* The planner prints a plan only when no node is left that it would take from
\* and no two that it would even out: the loads of any two online nodes differ by
\* one at most, and what is to stay is online.
THEOREM EvenlyLoadedHolds == Spec => []EvenlyLoaded
<1>1. Init => EvenlyLoaded
  BY DEF Init, EvenlyLoaded
<1> DEFINE Even ==
      /\ \A m, n \in dump.online : Load(m) - Load(n) <= 1
      /\ \A n \in Nodes \ dump.online, p \in Partitions : ~HasKept(n, p)
<1>2. ASSUME TypeOK, process_unevenly_loaded_node, pc' = "printed", dump'.online # {}
      PROVE  Even'
  <2>1. PICK heavy \in max_load_slavenode, light \in min_load_slavenode : ~Uneven(heavy, light)
    BY <1>2 DEF process_unevenly_loaded_node
  <2>2. dump' = dump /\ UNCHANGED <<partitions, nodes>>
    BY <1>2 DEF process_unevenly_loaded_node, Unplanned
  <2>3. /\ light \in dump.online /\ light \in Nodes /\ heavy \in Nodes
        /\ \A n \in dump.online : n \in Nodes /\ Load(light) <= Load(n)
    BY <1>2, <2>1, <2>2, LightestTakes, HeaviestGives DEF TypeOK
  <2>4. ~offline(heavy) /\ (heavy = light \/ ~(Load(heavy) - Load(light) >= 2))
    BY <2>1, <2>3 DEF Uneven, offline
  <2>5. /\ \A n \in Nodes : Load(n) <= Load(heavy)
        /\ \A m \in Nodes, p \in Partitions : offline(m) => ~HasKept(m, p)
    BY <1>2, <2>1, <2>3, <2>4, HeaviestGives
  <2>6. \A m, n \in dump.online : Load(m) - Load(n) <= 1
    BY <2>3, <2>4, <2>5, Loads
  <2>7. Even
    BY <2>5, <2>6 DEF offline
  <2> QED BY <2>2, <2>7 DEF Load, index_partitions, Has, HasKept
<1>3. ASSUME TypeOK, [Next]_vars, EvenlyLoaded PROVE EvenlyLoaded'
  <2>1. CASE process_unevenly_loaded_node
    BY <1>2, <1>3, <2>1 DEF EvenlyLoaded
  <2>2. CASE UNCHANGED vars
    BY <1>3, <2>2 DEF vars, EvenlyLoaded, Load, index_partitions, Has, HasKept
  <2>3. unbind \/ rebalance_partitions \/ process_under_replicated_partition
        \/ process_over_replicated_partition => pc' # "printed"
    BY DEF unbind, rebalance_partitions, process_under_replicated_partition,
           process_over_replicated_partition
  <2> QED BY <1>3, <2>1, <2>2, <2>3 DEF Next, EvenlyLoaded
<1> QED BY <1>1, <1>3, TypeCorrect, PTL DEF Spec
=============================================================================
