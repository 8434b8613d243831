----------------------------- MODULE Placement -----------------------------
(***************************************************************************)
(* placement-plan_generate: from a dump of the cluster it computes the     *)
(* plan that gives every index partition its replicas and every slave node *)
(* its share.  The plan is made one action at a time: each is carried out  *)
(* on the planner's own picture of the cluster before the next is chosen.  *)
(***************************************************************************)
EXTENDS Integers, Sequences, FiniteSets
LOCAL INSTANCE FiniteSetsExt

CONSTANTS
  Partitions,     \* index partitions
  Nodes,          \* slave nodes
  Position,       \* node |-> its place in slavenodes.values()
  failure_domain, \* node |-> its failure domain
  type,           \* partition |-> its index type
  Dumps,          \* what can be read: placement, replication_factor, online, run_mode
  MaxActions      \* bound: actions in a plan, more than any plan that ends has

Domains == {failure_domain[n] : n \in Nodes}
NodesOf(d) == {n \in Nodes : failure_domain[n] = d}

Kept == {"NEW", "RUNNING"}
States == Kept \cup {"TO_BE_DELETED"}
Placements == [Nodes -> [Partitions -> States \cup {"none"}]]

ASSUME PlacementAssumption ==
  /\ IsFiniteSet(Partitions) /\ IsFiniteSet(Nodes) /\ MaxActions \in Nat
  /\ Position \in [Nodes -> Nat]
  /\ \A m, n \in Nodes : Position[m] = Position[n] => m = n
  /\ Dumps \subseteq [placement : Placements, replication_factor : [Partitions -> Nat],
                      online : SUBSET Nodes, run_mode : {"rebalancement", "full-replacement"}]

VARIABLES
  dump,         \* the dump and the run mode
  partitions,   \* SlaveNode.partitions: node |-> partition |-> state or "none"
  nodes,        \* IndexPartition.nodes: partition |-> node |-> state or "none"
  action_list,  \* the plan so far
  pc,           \* the loop the planner is in
  todo,         \* partitions that rebalance_partitions has not come to
  partition     \* the one it is at

vars == <<dump, partitions, nodes, action_list, pc, todo, partition>>

\* build_index_placement_manager fills both maps from the dump.
Init ==
  /\ dump \in Dumps
  /\ partitions = dump.placement
  /\ nodes = [p \in Partitions |-> [n \in Nodes |-> dump.placement[n][p]]]
  /\ action_list = <<>>
  /\ pc = IF dump.run_mode = "full-replacement" THEN "unbind" ELSE "partitions"
  /\ todo = Partitions
  /\ partition = CHOOSE p \in Partitions : TRUE
-----------------------------------------------------------------------------
\* What the planner counts.
Has(n, p) == partitions[n][p] # "none"
HasKept(n, p) == partitions[n][p] \in Kept
offline(n) == n \notin dump.online

index_partitions(n) == {p \in Partitions : Has(n, p)}
index_partitions_by_type(n, t) == {p \in index_partitions(n) : type[p] = t}
Load(n) == Cardinality(index_partitions(n))
\* Mutant: replica_count, which counts those TO_BE_DELETED as well.
replica_count(p) == Cardinality({n \in Nodes : nodes[p][n] # "none"})

replica_count_of_new_and_running(p) == Cardinality({n \in Nodes : nodes[p][n] \in Kept})

\* How many replicas the partition lacks; negative if it has too many.
Lacking(p) == dump.replication_factor[p] - replica_count_of_new_and_running(p)

\* Tuples are compared as Python compares them, False as 0 and True as 1.
Flag(b) == IF b THEN 1 ELSE 0
Less(a, b) == \E i \in DOMAIN a : a[i] < b[i] /\ \A j \in 1..(i - 1) : a[j] = b[j]
Smallest(S, key(_)) ==
  LET heap == {<<key(x), x>> : x \in S}
  IN  {e[2] : e \in {f \in heap : \A g \in heap : ~Less(g[1], f[1])}}
Largest(S, key(_)) ==
  LET heap == {<<key(x), x>> : x \in S}
  IN  {e[2] : e \in {f \in heap : \A g \in heap : ~Less(f[1], g[1])}}

\* Replicas per node of a domain, as a multiple of 1 / Cardinality(Nodes)!.
Scale == ProductSet(1..Cardinality(Nodes))
Share(Replicas, d) == Cardinality(Replicas) * (Scale \div Cardinality(NodesOf(d)))

domain_sorting_tuple(d, p) ==
  LET All == {r \in NodesOf(d) \X Partitions : Has(r[1], r[2])}
  IN << Share({r \in All : r[2] = p}, d),
        Share({r \in All : type[r[2]] = type[p]}, d),
        Share(All, d),
        Max({IF Has(n, p) THEN Load(n) ELSE 0 : n \in NodesOf(d)}),
        -Cardinality(NodesOf(d)) >>

\* The hash that comes next in both tuples of nodes orders them arbitrarily.
node_sorting_tuple_add(n, p) ==
  << Flag(offline(n)), Flag(Has(n, p)),
     Cardinality(index_partitions_by_type(n, type[p])), Load(n) >>

node_sorting_tuple_del(n, p) ==
  << Flag(HasKept(n, p) /\ offline(n)), Flag(HasKept(n, p)),
     Cardinality(index_partitions_by_type(n, type[p])), Load(n) >>

\* Average by type: partitions of the type per node, not replicas.
partition_count_delta(n, t) ==
  Cardinality(index_partitions_by_type(n, t)) * Cardinality(Nodes)
    - Cardinality({p \in Partitions : type[p] = t})

\* type_contained is always 0: it looks for an id among the partitions.
partition_sorting_tuple(p, heavy, light) ==
  LET d == domain_sorting_tuple(failure_domain[light], p)
  IN  << Flag(Has(light, p)), d[1], d[2], d[3], d[4], d[5],
         partition_count_delta(heavy, type[p]) >>

select_to_add(p) ==
  UNION {Smallest(NodesOf(d), LAMBDA n : node_sorting_tuple_add(n, p)) :
           d \in Smallest(Domains, LAMBDA d : domain_sorting_tuple(d, p))}
select_to_del(p) ==
  UNION {Largest(NodesOf(d), LAMBDA n : node_sorting_tuple_del(n, p)) :
           d \in Largest(Domains, LAMBDA d : domain_sorting_tuple(d, p))}
select_partition_to_move(heavy, light) ==
  Smallest(index_partitions(heavy), LAMBDA p : partition_sorting_tuple(p, heavy, light))

\* Sorting is stable: of nodes that compare equal, values() decides.
First(S) == {n \in S : \A m \in S : Position[n] <= Position[m]}
Last(S) == {n \in S : \A m \in S : Position[n] >= Position[m]}

max_load_slavenode ==
  LET Leaving == {n \in Nodes : offline(n) /\ \E p \in Partitions : HasKept(n, p)}
  IN  Last(IF Leaving # {} THEN Leaving ELSE Largest(Nodes, LAMBDA n : <<Load(n)>>))

\* Offline nodes are all equal to this comparison and come last.
min_load_slavenode ==
  First(IF dump.online = {} THEN Nodes ELSE Smallest(dump.online, LAMBDA n : <<Load(n)>>))
-----------------------------------------------------------------------------
\* IndexPlacementAction.execute: what place_at_node and displace_from_node, and
\* their counterparts of SlaveNode, make of one entry of a map.
Placed(old, s) == IF old = "none" THEN s ELSE old

Action(op, p, from, to) == [op |-> op, part |-> p, from |-> from, to |-> to]

Schedule(a) == action_list' = Append(action_list, a)

ADD(p, n) ==
  /\ partitions' = [partitions EXCEPT ![n][p] = Placed(@, "NEW")]
  /\ nodes' = [nodes EXCEPT ![p][n] = Placed(@, "NEW")]
  /\ Schedule(Action("ADD", p, n, n))

\* Mutant: the node forgets the partition, the partition remembers the node.
DEL_one_map(p, n) ==
  /\ partitions' = [partitions EXCEPT ![n][p] = "none"]
  /\ Schedule(Action("DEL", p, n, n)) /\ UNCHANGED nodes

DEL(p, n) ==
  /\ partitions' = [partitions EXCEPT ![n][p] = "none"]
  /\ nodes' = [nodes EXCEPT ![p][n] = "none"]
  /\ Schedule(Action("DEL", p, n, n))

\* Mutant: the state is read when the partition is gone; get_service_state returns False.
MOVE_state_late(p, from, to) ==
  /\ partitions' = [partitions EXCEPT ![from][p] = "none", ![to][p] = Placed(@, "False")]
  /\ nodes' = [nodes EXCEPT ![p][from] = "none", ![p][to] = Placed(@, "False")]
  /\ Schedule(Action("MOVE", p, from, to))

\* get_service_state of the source first; if the destination has the partition
\* already, the replica is gone.
MOVE(p, from, to) ==
  LET s == partitions[from][p]
  IN  /\ partitions' = [partitions EXCEPT ![from][p] = "none", ![to][p] = Placed(@, s)]
      /\ nodes' = [nodes EXCEPT ![p][from] = "none", ![p][to] = Placed(@, s)]
      /\ Schedule(Action("MOVE", p, from, to))

Unplanned == UNCHANGED <<partitions, nodes, action_list>>

\* run mode full-replacement: every replica goes first.
unbind ==
  /\ pc = "unbind"
  /\ LET left == {n \in Nodes : index_partitions(n) # {}}
     IN  \/ \E n \in First(left) : \E p \in index_partitions(n) : DEL(p, n) /\ UNCHANGED pc
         \/ left = {} /\ pc' = "partitions" /\ Unplanned
  /\ UNCHANGED <<dump, todo, partition>>

\* The order of the partitions is that of a dictionary, too.
rebalance_partitions ==
  /\ pc = "partitions"
  /\ \/ \E p \in todo :
          /\ partition' = p /\ todo' = todo \ {p}
          /\ pc' = IF Lacking(p) < 0 THEN "over" ELSE IF Lacking(p) > 0 THEN "under" ELSE pc
     \/ todo = {} /\ pc' = "nodes" /\ UNCHANGED <<todo, partition>>
  /\ Unplanned /\ UNCHANGED dump

\* Mutant: that the node found has the partition is not looked at.
process_under_replicated_unchecked ==
  /\ pc = "under"
  /\ \/ /\ Lacking(partition) > 0
        /\ \E n \in select_to_add(partition) :
             IF Has(n, partition) THEN Unplanned ELSE ADD(partition, n)
        /\ UNCHANGED pc
     \/ Lacking(partition) <= 0 /\ pc' = "partitions" /\ Unplanned
  /\ UNCHANGED <<dump, todo, partition>>

\* oops() if the node found has the partition: nothing is printed.
process_under_replicated_partition ==
  /\ pc = "under"
  /\ \/ /\ Lacking(partition) > 0
        /\ \E n \in select_to_add(partition) :
             IF Has(n, partition) THEN pc' = "oops" /\ Unplanned
                                  ELSE ADD(partition, n) /\ UNCHANGED pc
     \/ Lacking(partition) <= 0 /\ pc' = "partitions" /\ Unplanned
  /\ UNCHANGED <<dump, todo, partition>>

\* Mutant: the loop goes on while the partition has its replicas.
process_over_replicated_one_more ==
  /\ pc = "over"
  /\ \/ /\ Lacking(partition) <= 0
        /\ \E n \in select_to_del(partition) : DEL(partition, n)
        /\ UNCHANGED pc
     \/ Lacking(partition) > 0 /\ pc' = "partitions" /\ Unplanned
  /\ UNCHANGED <<dump, todo, partition>>

\* That the node found has the partition is not looked at.
process_over_replicated_partition ==
  /\ pc = "over"
  /\ \/ /\ Lacking(partition) < 0 /\ Len(action_list) < MaxActions
        /\ \E n \in select_to_del(partition) : DEL(partition, n)
        /\ UNCHANGED pc
     \/ Lacking(partition) >= 0 /\ pc' = "partitions" /\ Unplanned
  /\ UNCHANGED <<dump, todo, partition>>

\* Mutant: the loop stops one too early.
Uneven_above_two(heavy, light) ==
  heavy # light /\ (offline(heavy) \/ Load(heavy) - Load(light) > 2)

\* An offline node weighs maxint, unless the same node is the lightest as well.
Uneven(heavy, light) ==
  heavy # light /\ (offline(heavy) \/ Load(heavy) - Load(light) >= 2)

\* heap[0] of an empty heap raises an exception.
process_unevenly_loaded_node ==
  /\ pc = "nodes"
  /\ \E heavy \in max_load_slavenode, light \in min_load_slavenode :
       \/ ~Uneven(heavy, light) /\ pc' = "printed" /\ Unplanned
       \/ /\ Uneven(heavy, light) /\ index_partitions(heavy) = {}
          /\ pc' = "crashed" /\ Unplanned
       \/ /\ Uneven(heavy, light) /\ Len(action_list) < MaxActions
          /\ \E p \in select_partition_to_move(heavy, light) : MOVE(p, heavy, light)
          /\ UNCHANGED pc
  /\ UNCHANGED <<dump, todo, partition>>

Next ==
  \/ unbind \/ rebalance_partitions \/ process_under_replicated_partition
  \/ process_over_replicated_partition \/ process_unevenly_loaded_node

\* The planner is one process that runs to its end.
Spec == Init /\ [][Next]_vars /\ WF_vars(Next)
-----------------------------------------------------------------------------
\* The type invariant: in particular no replica is left without a state.
TypeOK ==
  /\ dump.replication_factor \in [Partitions -> Nat] /\ dump.online \subseteq Nodes
  /\ partitions \in Placements
  /\ nodes \in [Partitions -> [Nodes -> States \cup {"none"}]]
  /\ pc \in {"unbind", "partitions", "under", "over", "nodes", "printed", "oops", "crashed"}
  /\ todo \subseteq Partitions
  /\ pc \in {"under", "over"} => partition \in Partitions

\* The two maps, of nodes at their partitions and of partitions at their nodes,
\* never tell different stories, whatever execute() returned and nobody looked at.
MapsAgree == \A n \in Nodes, p \in Partitions : partitions[n][p] = nodes[p][n]

AllOnline == dump.online = Nodes
KeptReplicas(p) == Cardinality({n \in Nodes : HasKept(n, p)})

\* A plan for a cluster without offline nodes gives every partition exactly its
\* replicas, those TO_BE_DELETED not counted, and balancing loses none of them.
ReplicasMet ==
  pc = "printed" /\ AllOnline =>
    \A p \in Partitions : KeptReplicas(p) = dump.replication_factor[p]

\* When a plan is printed, the loads of any two online nodes differ by one at
\* most, and nothing that is to stay is on an offline node.
EvenlyLoaded ==
  pc = "printed" /\ dump.online # {} =>
    /\ \A m, n \in dump.online : Load(m) - Load(n) <= 1
    /\ \A n \in Nodes \ dump.online, p \in Partitions : ~HasKept(n, p)

\* With all nodes online, no single action of a rebalancing plan takes a replica
\* from a partition that has none to spare: the plan can stop after any line.
NeverBelowFactor ==
  [][ dump.run_mode = "rebalancement" /\ AllOnline =>
        \A p \in Partitions :
          KeptReplicas(p)' < KeptReplicas(p) =>
            KeptReplicas(p) > dump.replication_factor[p] ]_vars

\* If no instance is TO_BE_DELETED, the loops of the planner come to an end, with
\* offline nodes or without; by an exception only if nothing is placed anywhere
\* (placement-plan_generate:521).
NoneCondemned == \A n \in Nodes, p \in Partitions : dump.placement[n][p] # "TO_BE_DELETED"
NothingPlaced == \A n \in Nodes, p \in Partitions : partitions[n][p] = "none"
Finishes ==
  NoneCondemned ~> pc \in {"printed", "oops"} \/ (pc = "crashed" /\ NothingPlaced)

\* placement-plan_apply asserts, with exit_if_exist, that an ADD or MOVE goes to a
\* node without an instance of the partition.  An instance is there if the dump
\* has it or an earlier line adds it: DEL and MOVE leave theirs, TO_BE_DELETED.
Adds(a, b) == a.op # "DEL" /\ a.part = b.part /\ a.to = b.to
PlanApplicable ==
  pc = "printed" => \A i \in DOMAIN action_list :
    LET a == action_list[i]
    IN  a.op # "DEL" => /\ dump.placement[a.to][a.part] = "none"
                        /\ \A j \in 1..(i - 1) : ~Adds(action_list[j], a)
=============================================================================
